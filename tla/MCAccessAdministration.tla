------------------------- MODULE MCAccessAdministration -------------------------
(***************************************************************************)
(* AccessAdministration from a fresh installation, from one in which every *)
(* scope is granted to each group and supported by each resource, from one *)
(* whose scope and assignment a workspace has applied before, and from one *)
(* with a resource whose first catalog is due, again after a failure or    *)
(* when a second refresh has taken the lease over from a stalled one.      *)
(***************************************************************************)
EXTENDS AccessAdministration, TLC

CONSTANTS ConfiguredChanges, ManagedChanges,   \* bounds: mutations left
          PublishingChanges,
          ManagedPlans                         \* bound: plans left

Nobody == [version |-> 0, grants |-> {}]
Granted(grants) == [version |-> 1, grants |-> grants]
NoProvider == [status |-> "absent", version |-> 0, credential |-> FALSE]
NoResource == [status |-> "absent", supports |-> {}]

Unmanaged(left) ==
  /\ binding = [a \in Addresses |-> NoBinding] /\ revision = 0
  /\ run = [u \in Runners |-> NoRun] /\ plans = MaxPlans - left /\ overlooked = {}

Dormant ==
  /\ discovers = {} /\ catalog = [r \in Resources |-> NoRow]
  /\ published = [r \in Resources |-> MaxEditions]
  /\ refresh = [p \in Refreshers |-> Resting] /\ refreshes = MaxRefreshes
  /\ answered = [r \in Resources |-> TRUE]

Fresh == AccessInit /\ PolicyInit /\ Unmanaged(0) /\ Dormant

Configured ==
  /\ scopes = Scopes
  /\ \E e \in Emails :
       /\ verified = {e}
       /\ direct = [x \in Emails |-> IF x = e THEN Granted({Admin}) ELSE Nobody]
  /\ provider = [p \in Providers |-> [status |-> "enabled", version |-> 1, credential |-> TRUE]]
  /\ group = [pg \in Pairs |-> [exists |-> TRUE, grants |-> Scopes]]
  /\ resource = [r \in Resources |-> [status |-> "enabled", supports |-> Scopes]]
  /\ skill = [k \in Skills |-> NoSkill] /\ unseen = {}
  /\ form = [f \in Forms |-> NoForm]
  /\ changes = MaxChanges - ConfiguredChanges
  /\ PolicyInit /\ Unmanaged(0) /\ Dormant

Managed ==
  /\ \E s \in Scopes, a \in ScopeAddresses :
       /\ scopes = {s}
       /\ \E e \in Emails, b \in AssignmentAddresses, others \in {{Admin}, {Admin, s}} :
            /\ direct = [x \in Emails |->
                 Granted(IF x # e THEN others ELSE IF s \in others THEN {s} ELSE {Admin, s})]
            /\ binding = [x \in Addresses |->
                 CASE x = a -> [identity |-> s, live |-> TRUE]
                   [] x = b -> [identity |-> e, live |-> TRUE]
                   [] OTHER -> NoBinding]
  /\ verified = Emails
  /\ provider = [p \in Providers |-> NoProvider]
  /\ group = [pg \in Pairs |-> NoGroup]
  /\ resource = [r \in Resources |-> NoResource]
  /\ skill = [k \in Skills |-> NoSkill] /\ unseen = {}
  /\ form = [f \in Forms |-> NoForm]
  /\ changes = MaxChanges - ManagedChanges
  /\ PolicyInit
  /\ revision = 1
  /\ run = [u \in Runners |-> NoRun] /\ plans = MaxPlans - ManagedPlans /\ overlooked = {}
  /\ Dormant

Publishing ==
  /\ scopes = {}
  /\ \E e \in Emails :
       /\ verified = {e}
       /\ direct = [x \in Emails |-> IF x = e THEN Granted({Admin}) ELSE Nobody]
  /\ provider = [p \in Providers |-> NoProvider]
  /\ group = [pg \in Pairs |-> NoGroup]
  /\ resource = [r \in Resources |-> [status |-> "enabled", supports |-> {}]]
  /\ skill = [k \in Skills |-> NoSkill] /\ unseen = {}
  /\ form = [f \in Forms |-> NoForm]
  /\ changes = MaxChanges - PublishingChanges
  /\ PolicyInit /\ Unmanaged(0)
  /\ discovers = Resources /\ answered = [r \in Resources |-> TRUE]
  /\ refreshes = 1
  /\ \/ /\ catalog = [r \in Resources |-> Rescheduled(NoRow)]
        /\ published = [r \in Resources |-> 0]
        /\ refresh = [p \in Refreshers |-> Resting]
     \/ \E r \in Resources, p \in Refreshers, q \in Refreshers :
          LET fetched(edition) ==
                [Resting EXCEPT !.pc = "store", !.resource = r, !.current = TRUE,
                                !.edition = edition]
          IN /\ p # q
             /\ catalog = [x \in Resources |->
                  IF x = r THEN [Rescheduled(NoRow) EXCEPT !.lease = q, !.live = TRUE]
                  ELSE Rescheduled(NoRow)]
             /\ published = [x \in Resources |-> MaxEditions]
             /\ refresh = [x \in Refreshers |->
                  CASE x = p -> fetched(0) [] x = q -> fetched(MaxEditions) [] OTHER -> Resting]

\* Requests are decided beside mutations from the browser, or plans applied beside them;
\* plans race with each other or with mutations, until the first is applied; catalogs are
\* refreshed beside changes of the resources; and skills, which no request reads, exist
\* only before the first request.
Quiet == changes = MaxChanges - ManagedChanges
Busy == {u \in Runners : run[u].pc # "idle"}
Skilled == \E k \in Skills : skill[k].exists
Unasked == \A q \in Requests : req[q] = Idle
Published == refreshes < MaxRefreshes \/ \E r \in Resources : catalog[r].exists
BoundedStep ==
  /\ revision # 0 => UNCHANGED policyVars
  /\ IF Skilled THEN UNCHANGED <<req, moves>> ELSE skill' = skill \/ Unasked
  /\ revision > 1 => UNCHANGED changes
  /\ ~Quiet /\ Busy # {} => UNCHANGED plans
  /\ Cardinality(Busy) >= 2 => UNCHANGED changes
  /\ IF Published
     THEN /\ Published'
          /\ UNCHANGED <<scopes, verified, direct, provider, group, skill, form,
                         policyVars, planVars>>
     ELSE UNCHANGED <<discovers, catalog>>

MCSpec == (Fresh \/ Configured \/ Managed \/ Publishing) /\ [][Next]_vars
ManagedSpec == Managed /\ [][Next]_vars

Interchangeable ==
  Permutations(Emails) \cup Permutations(Scopes) \cup Permutations(Runners)
================================================================================
