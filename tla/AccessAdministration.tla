-------------------------- MODULE AccessAdministration --------------------------
(***************************************************************************)
(* Administrators in the browser, plans of configuration as code, and the  *)
(* policy decisions of requests, over the same tables; and the refreshes   *)
(* of the catalogs that resources publish.                                 *)
(***************************************************************************)
EXTENDS AccessPolicy, ConfigurationAsCode, SkillCatalogs

vars == <<accessVars, policyVars, planVars, catalogVars>>

TypeOK == AccessTypeOK /\ PolicyTypeOK /\ PlanTypeOK /\ CatalogTypeOK

Init == AccessInit /\ PolicyInit /\ PlanInit /\ CatalogInit

\* A mutation from the browser.  A changed provider may answer from another directory.
Administer ==
  /\ Administration
  /\ Tombstones
  /\ CatalogsFollow
  /\ \/ provider' = provider /\ directory' = directory
     \/ \E p \in Providers :
          /\ provider'[p] # provider[p]
          /\ \E S \in SUBSET ({p} \X Groups) : \E e \in Emails :
               directory' = [directory EXCEPT ![e] = {pg \in @ : pg[1] # p} \cup S]
  /\ Observe(directory', provider')
  /\ UNCHANGED <<moves, req, revision, run, plans, overlooked>>

Next == \/ Administer
        \/ PolicyStep /\ UNCHANGED <<planVars, catalogVars>>
        \/ PlanStep /\ UNCHANGED <<policyVars, catalogVars>>
        \/ CatalogStep /\ UNCHANGED <<policyVars, planVars>>

Spec == Init /\ [][Next]_vars
================================================================================
