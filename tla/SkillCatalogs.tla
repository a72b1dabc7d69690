----------------------------- MODULE SkillCatalogs -----------------------------
(***************************************************************************)
(* The skills that resources publish, as Weldall stores them               *)
(* (skills/catalogs.ts): any process refreshes a catalog that is due, or   *)
(* one that an administrator asks for, under a lease of 30 s, while the    *)
(* resource is saved or deleted and its server publishes new editions.     *)
(*                                                                         *)
(* Versions of a resource only grow: of the version a refresh has read,    *)
(* the model keeps whether it is still that of the row ("current").        *)
(* Likewise of an instant, whether it has passed ("due", "live").  What is *)
(* read of a catalog and until when, back-off times, the size of a sweep   *)
(* and the forms of metadata and catalogs are left out.                    *)
(***************************************************************************)
EXTENDS AccessStore

CONSTANTS
  Refreshers,    \* runs of refreshCatalog, in any process
  MaxRefreshes,  \* bound: refreshes begun
  MaxEditions    \* bound: editions published

ASSUME NoneIsNoRefresher == None \notin Refreshers
ASSUME RefreshesBounded == MaxRefreshes \in Nat /\ MaxEditions \in Nat

NoRow == [exists |-> FALSE, lease |-> None, live |-> FALSE, due |-> FALSE, edition |-> 0]
Resting == [pc |-> "idle", resource |-> None, current |-> FALSE, manual |-> FALSE, edition |-> 0]

VARIABLES
  discovers,  \* skillDiscoveryEnabled of each resource
  catalog,    \* DiscoveredSkillCatalog: refreshLeaseId, refreshLeaseUntil, nextRefreshAt
              \* and the skills
  published,  \* external: the edition each resource server serves
  refresh,
  refreshes,
  answered    \* history: a refresh since the last change of the resource has ended, or one
              \* by hand has claimed the catalog for the resource as it was before

catalogVars == <<discovers, catalog, published, refresh, refreshes, answered>>

CatalogTypeOK ==
  /\ discovers \subseteq Resources /\ published \in [Resources -> 0 .. MaxEditions]
  /\ \A r \in Resources : catalog[r].lease \in Refreshers \cup {None}
  /\ \A p \in Refreshers :
       refresh[p].pc \in {"idle", "claim", "fetch", "store", "check", "write", "failed"}
  /\ refreshes \in 0 .. MaxRefreshes

CatalogInit ==
  /\ discovers = {} /\ catalog = [r \in Resources |-> NoRow]
  /\ published = [r \in Resources |-> 0]
  /\ refresh = [p \in Refreshers |-> Resting] /\ refreshes = 0
  /\ answered = [r \in Resources |-> TRUE]

Open(r) == resource[r].status = "enabled" /\ r \in discovers
\* The transaction that stores a catalog holds its row.
Held(r) == \E p \in Refreshers : refresh[p].resource = r /\ refresh[p].pc \in {"check", "write"}
Enter(p, pc) == refresh' = [refresh EXCEPT ![p].pc = pc]
End(p) == refresh' = [refresh EXCEPT ![p] = Resting]
Row(p) == catalog[refresh[p].resource]
SetRow(p, row) == catalog' = [catalog EXCEPT ![refresh[p].resource] = row]
Released(row, due) == [row EXCEPT !.lease = None, !.live = FALSE, !.due = due]
--------------------------------------------------------------------------------
\* mutateResource, the statement about the catalog.  Discovery schedules a refresh at
\* once and ends a lease.  Faulty variant: the lease is left alone.
KeepingLease(row) == [row EXCEPT !.exists = TRUE, !.due = TRUE]
Rescheduled(row) == [Released(row, TRUE) EXCEPT !.exists = TRUE]

\* What a change of resource r does to its catalog.  Who read a resource before it,
\* holds an old version; a sweep from before it finds nothing due; nobody finds
\* a row that was deleted.
Followed(r, absent, discovery) ==
  /\ absent \/ discovery => ~Held(r)
  /\ discovers' = IF ~absent /\ discovery THEN discovers \cup {r} ELSE discovers \ {r}
  /\ catalog' = [catalog EXCEPT ![r] = IF absent THEN NoRow
                                       ELSE IF discovery THEN Rescheduled(@) ELSE @]
  /\ answered' = [answered EXCEPT ![r] = absent \/ ~discovery]
  /\ refresh' = [p \in Refreshers |->
       CASE refresh[p].resource # r -> refresh[p]
         [] /\ refresh[p].pc = "claim"
            /\ absent \/ (discovery /\ ~refresh[p].manual) -> Resting
         [] OTHER -> [refresh[p] EXCEPT !.current = FALSE]]
  /\ UNCHANGED <<published, refreshes>>

\* The part of an administrator's mutation that concerns catalogs.
CatalogsFollow ==
  IF resource' = resource THEN UNCHANGED catalogVars
  ELSE \E r \in Resources, discovery \in BOOLEAN :
         /\ resource'[r] # resource[r]
         /\ Followed(r, resource'[r].status = "absent", discovery)

\* mutateResource that changes nothing but skillDiscoveryEnabled.
SwitchDiscovery(r) ==
  /\ Change
  /\ resource[r].status # "absent"
  /\ Followed(r, FALSE, r \notin discovers)
  /\ unseen' = unseen \ {r}
  /\ UNCHANGED <<scopes, verified, direct, provider, group, resource, skill, form>>
--------------------------------------------------------------------------------
Leasable(r) == catalog[r].lease = None \/ ~catalog[r].live

\* refreshDueCatalogs finds a catalog that is due; refreshResourceCatalog is asked for
\* one.  Both read the resource now and claim the row in a statement of its own.
BeginRefresh(p, r, manual) ==
  /\ refresh[p] = Resting
  /\ refreshes < MaxRefreshes /\ refreshes' = refreshes + 1
  /\ Open(r)
  /\ manual \/ (catalog[r].due /\ Leasable(r))
  /\ refresh' = [refresh EXCEPT ![p] = [Resting EXCEPT !.pc = "claim", !.resource = r,
                                        !.current = TRUE, !.manual = manual]]
  /\ UNCHANGED <<discovers, catalog, published, answered>>

Claim(p) ==
  LET r == refresh[p].resource
  IN /\ refresh[p].pc = "claim"
     /\ ~Held(r)
     /\ IF Leasable(r) /\ (refresh[p].manual \/ catalog[r].due)
        THEN /\ catalog' = [catalog EXCEPT ![r].lease = p, ![r].live = TRUE]
             /\ answered' = [answered EXCEPT ![r] = @ \/ ~refresh[p].current]
             /\ Enter(p, "fetch")
        ELSE End(p) /\ UNCHANGED <<catalog, answered>>
     /\ UNCHANGED <<discovers, published, refreshes>>

\* fetchMetadata and fetchCatalog.
Fetch(p) ==
  /\ refresh[p].pc = "fetch"
  /\ \/ refresh' = [refresh EXCEPT ![p].pc = "store", ![p].edition = published[refresh[p].resource]]
     \/ Enter(p, "failed")
  /\ UNCHANGED <<discovers, catalog, published, refreshes, answered>>

\* The transaction begins with the lease.  Faulty variant: the row is found by its id.
StillThere(p) == Row(p).exists
HoldsLease(p) == Row(p).lease = p
Store(p) ==
  /\ refresh[p].pc = "store"
  /\ ~Held(refresh[p].resource)
  /\ IF HoldsLease(p)
     THEN SetRow(p, [Row(p) EXCEPT !.live = TRUE]) /\ Enter(p, "check")
     ELSE End(p) /\ UNCHANGED catalog
  /\ UNCHANGED <<discovers, published, refreshes, answered>>

\* The resource must be as it was read before the fetch; its row is not locked.
Check(p) ==
  /\ refresh[p].pc = "check"
  /\ IF Open(refresh[p].resource) /\ refresh[p].current
     THEN Enter(p, "write") /\ UNCHANGED catalog
     ELSE SetRow(p, Released(Row(p), TRUE)) /\ End(p)
  /\ UNCHANGED <<discovers, published, refreshes, answered>>

Write(p) ==
  /\ refresh[p].pc = "write"
  /\ SetRow(p, [Released(Row(p), FALSE) EXCEPT !.edition = refresh[p].edition])
  /\ answered' = [answered EXCEPT ![refresh[p].resource] = @ \/ refresh[p].current]
  /\ End(p)
  /\ UNCHANGED <<discovers, published, refreshes>>

\* A statement fails and the transaction rolls back.
StoreFails(p) ==
  /\ refresh[p].pc \in {"store", "check", "write"}
  /\ Enter(p, "failed")
  /\ UNCHANGED <<discovers, catalog, published, refreshes, answered>>

\* persistFailure backs off, if the lease is still held.
PersistFailure(p) ==
  /\ refresh[p].pc = "failed"
  /\ IF Row(p).lease = p
     THEN /\ SetRow(p, Released(Row(p), FALSE))
          /\ answered' = [answered EXCEPT ![refresh[p].resource] = @ \/ refresh[p].current]
     ELSE UNCHANGED <<catalog, answered>>
  /\ End(p)
  /\ UNCHANGED <<discovers, published, refreshes>>

\* The process ends; its lease remains.
Die(p) ==
  /\ refresh[p] # Resting
  /\ End(p)
  /\ UNCHANGED <<discovers, catalog, published, refreshes, answered>>
--------------------------------------------------------------------------------
\* refreshLeaseUntil or nextRefreshAt passes.
Pass(r) ==
  /\ \/ catalog[r].live /\ catalog' = [catalog EXCEPT ![r].live = FALSE]
     \/ /\ catalog[r].exists /\ ~catalog[r].due
        /\ catalog' = [catalog EXCEPT ![r].due = TRUE]
  /\ UNCHANGED <<discovers, published, refresh, refreshes, answered>>

\* External: the resource server changes its skills.
Publish(r) ==
  /\ published[r] < MaxEditions
  /\ published' = [published EXCEPT ![r] = @ + 1]
  /\ UNCHANGED <<discovers, catalog, refresh, refreshes, answered>>

CatalogStep ==
  \/ /\ \/ \E p \in Refreshers :
             \/ \E r \in Resources, manual \in BOOLEAN : BeginRefresh(p, r, manual)
             \/ Claim(p) \/ Fetch(p) \/ Store(p) \/ Check(p) \/ Write(p)
             \/ StoreFails(p) \/ PersistFailure(p) \/ Die(p)
        \/ \E r \in Resources : Pass(r) \/ Publish(r)
     /\ UNCHANGED accessVars
  \/ \E r \in Resources : SwitchDiscovery(r)
--------------------------------------------------------------------------------
\* A stored catalog is never replaced by an earlier edition, however long a refresh
\* stalls with what it fetched, and whoever has taken its lease over.
NeverGoesBack ==
  [][\A r \in Resources :
       catalog[r].exists /\ catalog'[r].exists => catalog'[r].edition >= catalog[r].edition]_catalogVars

\* After a change of a resource its catalog, which is not served as long as it is of
\* another version, stays due until a refresh of the changed resource has ended: none
\* that began before, however late it fails, puts the next one off.  (One asked for by
\* hand may, if it reads the resource before the change and claims the row after it.)
ChangeStaysDue ==
  \A r \in Resources : Open(r) /\ ~answered[r] => catalog[r].due
================================================================================
