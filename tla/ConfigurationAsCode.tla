-------------------------- MODULE ConfigurationAsCode --------------------------
(***************************************************************************)
(* Configuration as code (iac/planner.ts, iac/service.ts) for the scopes   *)
(* and e-mail assignments of one workspace: a runner of "weldall up" plans *)
(* a manifest, its user confirms the plan, and the server applies it in    *)
(* one serializable transaction.  Objects are bound to logical addresses,  *)
(* and import, unmanage and move change the bindings.                      *)
(*                                                                         *)
(* The first statement of the transaction waits for the configuration lock *)
(* (service.ts:129), and takes the snapshot it works on before it waits.   *)
(* PostgreSQL aborts it if what it missed conflicts with what it does, but *)
(* compares its reads only with other serializable transactions.           *)
(***************************************************************************)
EXTENDS AccessStore, FiniteSetsExt

CONSTANTS
  ScopeAddresses, AssignmentAddresses, Runners,
  MaxPlans   \* bound: plans made, and imports, unmanagings and moves

ASSUME PlansBounded == MaxPlans \in Nat
ASSUME AddressesFinite == IsFiniteSet(ScopeAddresses) /\ IsFiniteSet(AssignmentAddresses)
ASSUME AddressesHaveOneKind == ScopeAddresses \cap AssignmentAddresses = {}

Addresses == ScopeAddresses \cup AssignmentAddresses
Undeclared == [identity |-> None, keys |-> {}]
Declaration(a) == IF a \in ScopeAddresses
                  THEN [identity : Scopes, keys : {{}}]
                  ELSE [identity : Emails, keys : (SUBSET Keys) \ {{}}]
NoBinding == [identity |-> None, live |-> FALSE]
Binding == {NoBinding} \cup [identity : Scopes \cup Emails, live : BOOLEAN]
NoRun == [pc |-> "idle", manifest |-> None, plan |-> None, snapshot |-> None]

VARIABLES
  binding,   \* IacObjectBinding of each address; not live: a tombstone
  revision,  \* IacWorkspace.revision
  run,       \* the runners
  plans,
  overlooked \* history: scopes deleted by a plan that overlooked a skill requiring them

planVars == <<binding, revision, run, plans, overlooked>>

PlanTypeOK ==
  /\ binding \in [Addresses -> Binding] /\ revision \in Nat
  /\ \A u \in Runners : run[u].pc \in {"idle", "planned", "waiting"}
  /\ plans \in 0 .. MaxPlans /\ overlooked \subseteq Scopes

PlanInit ==
  /\ binding = [a \in Addresses |-> NoBinding] /\ revision = 0
  /\ run = [u \in Runners |-> NoRun]
  /\ plans = 0 /\ overlooked = {}

\* desiredStateSchema: no two addresses declare the same object.
Manifests == {m \in [Addresses -> (UNION {Declaration(a) : a \in Addresses}) \cup {Undeclared}] :
  /\ \A a \in Addresses : m[a] = Undeclared \/ m[a] \in Declaration(a)
  /\ \A a, b \in Addresses : a # b /\ m[a].identity = m[b].identity => m[a] = Undeclared}
Declares(m, a) == m[a] # Undeclared

\* The tables as one transaction sees them.
Tables == [scopes |-> scopes, verified |-> verified, direct |-> direct, group |-> group,
           resource |-> resource, skill |-> skill, binding |-> binding, revision |-> revision,
           failed |-> FALSE]
--------------------------------------------------------------------------------
\* createPlan.  Rows of scopes keep version 1: only descriptions change in place.
Exists(t, a, id) == IF a \in ScopeAddresses THEN id \in t.scopes ELSE t.direct[id].version > 0
Version(t, a) == CASE ~t.binding[a].live -> 0
                   [] a \in ScopeAddresses -> 1
                   [] OTHER -> t.direct[t.binding[a].identity].version
Tombstone(t, id) == \E a \in Addresses : t.binding[a].identity = id /\ ~t.binding[a].live

Verb(m, t, a) ==
  LET bound == t.binding[a]
      id == m[a].identity
  IN CASE ~Declares(m, a) -> IF bound = NoBinding THEN "none" ELSE "delete"
       [] bound = NoBinding -> IF Exists(t, a, id) \/ Tombstone(t, id) THEN "blocked" ELSE "create"
       [] bound.identity # id -> IF Exists(t, a, id) THEN "blocked" ELSE "replace"
       [] ~bound.live -> IF Exists(t, a, id) THEN "blocked" ELSE "recreate"
       [] OTHER -> IF a \in ScopeAddresses \/ t.direct[id].grants = m[a].keys THEN "noop" ELSE "update"

\* A scope that goes away is still referenced by an assignment that stays outside the
\* workspace or keeps it, by a group, a resource or a skill.
Retired(m, t) == {a \in ScopeAddresses : t.binding[a].live /\ t.binding[a].identity # m[a].identity}
Keeps(m, t, s) == \E e \in Emails :
  /\ s \in t.direct[e].grants
  /\ \A x \in AssignmentAddresses :
       t.binding[x] = [identity |-> e, live |-> TRUE] => s \in m[x].keys
Referenced(m, t, s) ==
  \/ Keeps(m, t, s)
  \/ \E pg \in Providers \X Groups : s \in t.group[pg].grants
  \/ \E r \in Resources : s \in t.resource[r].supports
  \/ \E k \in Skills : s \in t.skill[k].requires

PlanOf(m, t) ==
  [revision |-> t.revision,
   actions |-> [a \in Addresses |-> [verb |-> Verb(m, t, a), observed |-> Version(t, a)]],
   blocked |-> \/ \E a \in Addresses : Verb(m, t, a) = "blocked"
               \/ \E a \in Retired(m, t) : Referenced(m, t, t.binding[a].identity)]

\* planIac, and the user who confirms the plan.
Plan(u) ==
  /\ run[u].pc = "idle"
  /\ plans < MaxPlans /\ plans' = plans + 1
  /\ \E m \in Manifests :
       LET plan == PlanOf(m, Tables)
       IN /\ ~plan.blocked
          /\ \E a \in Addresses : plan.actions[a].verb \notin {"none", "noop"}
          /\ run' = [run EXCEPT ![u] = [NoRun EXCEPT !.pc = "planned", !.manifest = m,
                                                     !.plan = plan]]
  /\ UNCHANGED <<accessVars, binding, revision, overlooked>>
--------------------------------------------------------------------------------
\* What applyIac requires of the tables it sees.
\* Faulty variant: only the revision of the workspace is compared.
RevisionIsPlanned(m, t, plan) == t.revision = plan.revision
IsPlanned(m, t, plan) == t.revision = plan.revision /\ PlanOf(m, t) = plan

\* assertFinalReferencesSafe
ReferencesSafe(m, t) == \A a \in ScopeAddresses :
  t.binding[a].identity # m[a].identity =>
    \A x \in AssignmentAddresses : t.binding[a].identity \notin m[x].keys

\* assertFinalAdministratorSafe
AdministratorSafe(m, t) ==
  LET managed == {t.binding[a].identity : a \in {x \in AssignmentAddresses : t.binding[x].live}}
      desired == {m[a].identity : a \in {x \in AssignmentAddresses : Admin \in m[x].keys}}
  IN (AdministratorsIn(t.verified, t.direct) \ managed) \cup (desired \cap t.verified) # {}

\* The mutations of AccessStore on the tables of the transaction.
Failed(t) == [t EXCEPT !.failed = TRUE]
Removes(t, e, keys) == Admin \in t.direct[e].grants \ keys
Assign(t, e, keys) ==
  IF t.direct[e].grants = keys THEN t
  ELSE IF \/ ~(keys \subseteq t.scopes \cup {Admin})
          \/ Removes(t, e, keys) /\ Cardinality(AdministratorsIn(t.verified, t.direct)) <= 1
       THEN Failed(t)
  ELSE [t EXCEPT !.direct[e] = [version |-> IF keys = {} THEN 0 ELSE @.version + 1,
                                grants |-> keys]]

DropScopes(t, S) ==
  IF \E s \in S : \/ \E r \in Resources : s \in t.resource[r].supports
                  \/ \E k \in Skills : s \in t.skill[k].requires
  THEN Failed(t)
  ELSE [t EXCEPT !.scopes = @ \ S,
                 !.direct = [e \in Emails |->
                   [version |-> @[e].version + Cardinality(@[e].grants \cap S),
                    grants |-> @[e].grants \ S]]]

\* reconcileObject of an assignment: one bound to another address is deleted first.
Reconciled(t, a, id, keys) ==
  LET bound == t.binding[a]
      kept == bound = [identity |-> id, live |-> TRUE]
      cleared == IF bound.live /\ ~kept THEN Assign(t, bound.identity, {}) ELSE t
  IN IF ~kept /\ cleared.direct[id].version > 0 THEN Failed(t)
     ELSE [Assign(cleared, id, keys) EXCEPT !.binding[a] = [identity |-> id, live |-> TRUE]]

\* executeDesiredState, in the order of its passes.  Scopes are created; assignments
\* follow without the scopes that are replaced; what is not declared is deleted;
\* scopes are replaced; and the assignments get their replaced scopes.
Replaced(m, t) == {a \in Retired(m, t) : Declares(m, a)}
Declared(m, S) == {a \in S : Declares(m, a)}
Dropped(m, t, S) == {a \in S : ~Declares(m, a) /\ t.binding[a] # NoBinding}
Identities(b, S) == {b[a].identity : a \in S}
Live(m, b, S) == [a \in Addresses |->
  IF a \in S THEN [identity |-> m[a].identity, live |-> TRUE] ELSE b[a]]
Unbound(b, S) == [a \in Addresses |-> IF a \in S THEN NoBinding ELSE b[a]]

ScopesCreated(m, t) ==
  LET new == Declared(m, ScopeAddresses) \ Replaced(m, t)
  IN [t EXCEPT !.scopes = @ \cup Identities(m, new), !.binding = Live(m, @, new)]

Staged(m, t, moved) ==
  FoldSet(LAMBDA a, s :
            IF m[a].keys \ moved # {} THEN Reconciled(s, a, m[a].identity, m[a].keys \ moved)
            ELSE IF s.binding[a].live THEN [s EXCEPT !.direct[s.binding[a].identity].grants = {}]
            ELSE s,
          t, Declared(m, AssignmentAddresses))

Deleted(m, t) ==
  LET gone == Dropped(m, t, AssignmentAddresses)
      rest == FoldSet(LAMBDA a, s : IF s.binding[a].live THEN Assign(s, s.binding[a].identity, {})
                                    ELSE s, t, gone)
      scopeAddresses == Dropped(m, t, ScopeAddresses)
      doomed == Identities(t.binding, {a \in scopeAddresses : t.binding[a].live})
  IN [DropScopes(rest, doomed) EXCEPT !.binding = Unbound(@, gone \cup scopeAddresses)]

ScopesReplaced(m, t, replaced) ==
  [DropScopes(t, Identities(t.binding, replaced))
     EXCEPT !.scopes = @ \cup Identities(m, replaced), !.binding = Live(m, @, replaced)]

\* Faulty variant: the assignments stay without the replaced scopes.
Unconnected(m, t) == t
Reconnected(m, t) ==
  FoldSet(LAMBDA a, s : Reconciled(s, a, m[a].identity, m[a].keys),
          t, Declared(m, AssignmentAddresses))

Executed(m, t) ==
  LET replaced == Replaced(m, t)
      moved == Identities(t.binding, replaced) \cup Identities(m, replaced)
      last == ScopesReplaced(m, Deleted(m, Staged(m, ScopesCreated(m, t), moved)), replaced)
  IN IF replaced = {} THEN last ELSE Reconnected(m, last)
--------------------------------------------------------------------------------
Refuse(u) == run' = [run EXCEPT ![u] = NoRun]

\* The transaction starts: it takes its snapshot and asks for the lock.
RequestApply(u) ==
  /\ run[u].pc = "planned"
  /\ run' = [run EXCEPT ![u].pc = "waiting", ![u].snapshot = Tables]
  /\ UNCHANGED <<accessVars, binding, revision, plans, overlooked>>

\* PostgreSQL aborts a transaction that writes a row changed since its snapshot (the
\* workspace and its bindings are always written), or a row whose foreign key no longer
\* fits; and one of two serializable transactions that miss what the other writes:
\* saving an assignment without its administrator scope reads all of those.
Written(t, r) == {e \in Emails : r.direct[e] # t.direct[e]}
RowConflict(t, r) ==
  \/ revision # t.revision \/ binding # t.binding
  \/ \E e \in Written(t, r) : direct[e] # t.direct[e]
  \/ (r.scopes \ t.scopes) \cap scopes # {}
KeyConflict(t, r) ==
  \/ \E e \in Written(t, r) : r.direct[e].grants \cap (t.scopes \ scopes) # {}
  \/ \E s \in t.scopes \ r.scopes :
       \/ \E e \in Emails : s \in direct[e].grants \ t.direct[e].grants
       \/ \E pg \in Providers \X Groups : s \in group[pg].grants
       \/ \E x \in Resources : s \in resource[x].supports
ReadConflict(t, r) ==
  /\ \E e \in Emails : Admin \in t.direct[e].grants \ direct[e].grants
  /\ \E e \in Written(t, r) : Admin \in t.direct[e].grants \cup r.direct[e].grants
\* Faulty variant: the applied plan is not serializable with the saves.
WriteConflict(t, r) == RowConflict(t, r) \/ KeyConflict(t, r)
Conflict(t, r) == RowConflict(t, r) \/ KeyConflict(t, r) \/ ReadConflict(t, r)

Apply(u) ==
  LET t == run[u].snapshot
      m == run[u].manifest
      r == Executed(m, t)
  IN /\ run[u].pc = "waiting"
     /\ IF /\ IsPlanned(m, t, run[u].plan)
           /\ ReferencesSafe(m, t) /\ AdministratorSafe(m, t)
           /\ ~r.failed /\ ~Conflict(t, r)
        THEN /\ scopes' = (scopes \ (t.scopes \ r.scopes)) \cup (r.scopes \ t.scopes)
             /\ direct' = [e \in Emails |-> IF r.direct[e] # t.direct[e] THEN r.direct[e]
                                            ELSE direct[e]]
             /\ binding' = r.binding
             /\ revision' = revision + 1
             /\ overlooked' = overlooked \cup {s \in t.scopes \ r.scopes :
                                \E k \in Skills : s \in skill[k].requires}
        ELSE UNCHANGED <<scopes, direct, binding, revision, overlooked>>
     /\ Refuse(u)
     /\ UNCHANGED <<verified, provider, group, resource, unseen, skill, form, changes, plans>>

\* The runner is cancelled, or the transaction fails for another reason.
Abandon(u) ==
  /\ run[u].pc # "idle"
  /\ Refuse(u)
  /\ UNCHANGED <<accessVars, binding, revision, plans, overlooked>>
--------------------------------------------------------------------------------
\* importIac, unmanageIac and moveIacState take the lock before they read anything.
Rebind(b) ==
  /\ plans < MaxPlans /\ plans' = plans + 1
  /\ binding' = b /\ revision' = revision + 1
  /\ UNCHANGED <<accessVars, run, overlooked>>

Import(a) == \E id \in IF a \in ScopeAddresses THEN scopes ELSE Emails :
  /\ binding[a] = NoBinding
  /\ Exists(Tables, a, id)
  /\ \A b \in Addresses : binding[b] # [identity |-> id, live |-> TRUE]
  /\ Rebind([binding EXCEPT ![a] = [identity |-> id, live |-> TRUE]])

Unmanage(a) ==
  /\ binding[a] # NoBinding
  /\ Rebind([binding EXCEPT ![a] = NoBinding])

MoveState(a, b) ==
  /\ binding[a] # NoBinding /\ binding[b] = NoBinding
  /\ a \in ScopeAddresses <=> b \in ScopeAddresses
  /\ Rebind([binding EXCEPT ![a] = NoBinding, ![b] = binding[a]])

\* A row that a mutation deletes leaves a tombstone where it was bound.
Tombstones == binding' = [a \in Addresses |->
  LET id == binding[a].identity
      gone == IF a \in ScopeAddresses THEN id \notin scopes' ELSE direct'[id].version = 0
  IN IF binding[a].live /\ gone THEN [binding[a] EXCEPT !.live = FALSE] ELSE binding[a]]

PlanStep == \/ \E u \in Runners : Plan(u) \/ RequestApply(u) \/ Apply(u) \/ Abandon(u)
            \/ \E a \in Addresses : \/ Import(a) \/ Unmanage(a)
                                    \/ \E b \in Addresses : MoveState(a, b)
--------------------------------------------------------------------------------
Applied(u) == run[u].pc = "waiting" /\ run'[u].pc = "idle" /\ revision' # revision

\* An assignment that a plan changes is one the plan creates, or one that its user saw
\* as it is: what changed between the plan and the transaction, or while the
\* transaction waited, is never overwritten ("STALE_PLAN", service.ts:147).
OverwritesOnlyPlanned ==
  [][\A u \in Runners : Applied(u) =>
       \A e \in Emails : direct'[e] # direct[e] /\ direct[e].version > 0 =>
         \E a \in AssignmentAddresses :
           /\ binding[a] = [identity |-> e, live |-> TRUE]
           /\ run[u].plan.actions[a].observed = direct[e].version
       ]_<<accessVars, planVars>>

\* Skills name scopes by key, without a foreign key: no order of saves, deletes and
\* plans leaves a skill that requires a scope nobody can be granted, but for plans that
\* did not see the skill (RequiredScopesExist).
RequiredScopesKept == \A k \in Skills : skill[k].requires \subseteq Known \cup overlooked

\* However scopes and assignments depend on each other, a plan that was applied leaves
\* every declared address bound to its object as declared and every other one unbound,
\* but for assignments that were changed while it waited.
AppliedIsDesired ==
  [][\A u \in Runners : Applied(u) =>
       \A a \in Addresses :
         LET d == run[u].manifest[a]
         IN IF d = Undeclared THEN binding'[a] = NoBinding
            ELSE /\ binding'[a] = [identity |-> d.identity, live |-> TRUE]
                 /\ IF a \in ScopeAddresses THEN d.identity \in scopes'
                    ELSE \/ direct'[d.identity].grants = d.keys
                         \/ direct[d.identity] # run[u].snapshot.direct[d.identity]
       ]_<<accessVars, planVars>>
================================================================================
