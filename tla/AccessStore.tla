------------------------------ MODULE AccessStore ------------------------------
(***************************************************************************)
(* Who may do what: scopes, their grants to e-mail addresses and to groups *)
(* of remote group providers, resources and skills, and the mutations of   *)
(* domain/primitive-mutations.ts and group-providers/service.ts that every *)
(* administrator and every applied plan goes through.  A mutation holds    *)
(* the configuration lock to its commit, so it is one action.              *)
(*                                                                         *)
(* Rows addressed by id carry id and version in the request; both never    *)
(* recur, so a stale request is refused and changes nothing.  Assignments  *)
(* of an e-mail address are addressed by the address: their forms are kept *)
(* until they are saved.                                                   *)
(***************************************************************************)
EXTENDS Naturals, FiniteSets

CONSTANTS
  Emails, Providers, Groups, Resources, Skills,
  Scopes,      \* keys of scopes that administrators create and delete
  Admin,       \* ADMIN_SCOPE_KEY, a system scope that always exists
  Forms,       \* open assignment forms of administrators
  None,
  MaxChanges   \* bound: committed mutations

ASSUME AdminIsSystem == Admin \notin Scopes
ASSUME ScopesFinite == IsFiniteSet(Scopes)
ASSUME NoneIsNoObject == None \notin Emails \cup Scopes
ASSUME ChangesBounded == MaxChanges \in Nat

Keys == Scopes \cup {Admin}

Assignment == [version : Nat, grants : SUBSET Keys]   \* version 0: no row
Provider == [status : {"absent", "disabled", "enabled"}, version : Nat, credential : BOOLEAN]
GroupRow == [exists : BOOLEAN, grants : SUBSET Keys]
Resource == [status : {"absent", "disabled", "enabled"}, supports : SUBSET Keys]
Skill == [exists : BOOLEAN, requires : SUBSET Keys, needs : SUBSET Resources]
NoForm == [email |-> None]
Form == {NoForm} \cup [email : Emails, expected : Nat, shown : SUBSET Keys]

VARIABLES
  scopes,    \* Scope rows that administrators created
  verified,  \* addresses of users whose e-mail is verified
  direct,    \* EmailScopeAssignment with its grants
  provider,  \* GroupProvider; version also counts the ids a key has had
  group,     \* GroupScopeAssignment of each provider and group
  resource, skill,
  unseen,    \* resources that wait to be disabled or deleted, by a transaction whose
             \* snapshot is older than a skill that depends on them
  form,
  changes

accessVars == <<scopes, verified, direct, provider, group, resource, unseen, skill, form, changes>>

AccessTypeOK ==
  /\ scopes \subseteq Scopes /\ verified \subseteq Emails
  /\ direct \in [Emails -> Assignment]
  /\ provider \in [Providers -> Provider]
  /\ group \in [Providers \X Groups -> GroupRow]
  /\ resource \in [Resources -> Resource] /\ unseen \subseteq Resources
  /\ skill \in [Skills -> Skill]
  /\ form \in [Forms -> Form]
  /\ changes \in 0 .. MaxChanges

NoGroup == [exists |-> FALSE, grants |-> {}]
NoSkill == [exists |-> FALSE, requires |-> {}, needs |-> {}]

\* After the installation: one verified administrator.
AccessInit ==
  /\ scopes = {}
  /\ \E e \in Emails :
       /\ verified = {e}
       /\ direct = [x \in Emails |-> IF x = e THEN [version |-> 1, grants |-> {Admin}]
                                     ELSE [version |-> 0, grants |-> {}]]
  /\ provider = [p \in Providers |-> [status |-> "absent", version |-> 0, credential |-> FALSE]]
  /\ group = [pg \in Providers \X Groups |-> NoGroup]
  /\ resource = [r \in Resources |-> [status |-> "absent", supports |-> {}]] /\ unseen = {}
  /\ skill = [k \in Skills |-> NoSkill]
  /\ form = [f \in Forms |-> NoForm]
  /\ changes = 0

Change == changes < MaxChanges /\ changes' = changes + 1
Known == scopes \cup {Admin}          \* scopesByKeys finds these
--------------------------------------------------------------------------------
CreateScope(s) ==
  /\ Change
  /\ s \in Scopes \ scopes
  /\ scopes' = scopes \cup {s}
  /\ UNCHANGED <<verified, direct, provider, group, resource, unseen, skill, form>>

\* Faulty variant: the skills, which name scopes without a foreign key, are not asked.
UsedByRow(s) == \E r \in Resources : s \in resource[r].supports
Used(s) == UsedByRow(s) \/ \E k \in Skills : s \in skill[k].requires

\* mutateScope, delete: grants go with the scope, and every assignment that loses
\* one gets a new version; an assignment may be left without grants.
DeleteScope(s) ==
  /\ Change
  /\ s \in scopes
  /\ ~Used(s)
  /\ scopes' = scopes \ {s}
  /\ direct' = [e \in Emails |->
       IF s \in direct[e].grants
       THEN [version |-> direct[e].version + 1, grants |-> direct[e].grants \ {s}]
       ELSE direct[e]]
  /\ group' = [pg \in Providers \X Groups |-> [group[pg] EXCEPT !.grants = @ \ {s}]]
  /\ UNCHANGED <<verified, provider, resource, unseen, skill, form>>

HasDependents(r) == \E k \in Skills : r \in skill[k].needs

\* mutateSkill: create or update.  The dependencies are not looked up.  Not serializable
\* itself, it escapes the snapshot of a resource's transaction that waits meanwhile.
SaveSkill(k) ==
  /\ Change
  /\ \E requires \in SUBSET Known, needs \in SUBSET Resources :
       LET row == [exists |-> TRUE, requires |-> requires, needs |-> needs]
       IN /\ skill[k] # row /\ skill' = [skill EXCEPT ![k] = row]
          /\ \E waiting \in SUBSET {r \in needs : /\ resource[r].status # "absent"
                                                 /\ ~HasDependents(r)} :
               unseen' = unseen \cup waiting
  /\ UNCHANGED <<scopes, verified, direct, provider, group, resource, form>>

DeleteSkill(k) ==
  /\ Change
  /\ skill[k].exists
  /\ skill' = [skill EXCEPT ![k] = NoSkill]
  /\ UNCHANGED <<scopes, verified, direct, provider, group, resource, unseen, form>>

\* A transaction on a resource is serializable and takes its snapshot before it waits for
\* the lock: it misses a skill saved meanwhile, and fails when the resource was changed.
Strands(r) == HasDependents(r) /\ r \notin unseen

\* mutateResource: create, update or delete.  Neither disabling nor deleting it may
\* strand a skill that depends on it.
SaveResource(r) ==
  /\ Change
  /\ \E status \in {"disabled", "enabled"}, supports \in SUBSET Known :
       LET row == [status |-> status, supports |-> supports]
       IN /\ resource[r] # row
          /\ resource[r].status # "absent" /\ status = "disabled" => ~Strands(r)
          /\ resource' = [resource EXCEPT ![r] = row]
  /\ unseen' = unseen \ {r}
  /\ UNCHANGED <<scopes, verified, direct, provider, group, skill, form>>

DeleteResource(r) ==
  /\ Change
  /\ resource[r].status # "absent"
  /\ ~Strands(r)
  /\ resource' = [resource EXCEPT ![r] = [status |-> "absent", supports |-> {}]]
  /\ unseen' = unseen \ {r}
  /\ UNCHANGED <<scopes, verified, direct, provider, group, skill, form>>
--------------------------------------------------------------------------------
\* An administrator loads the assignment of an address.
OpenForm(f, e) ==
  /\ form[f] = NoForm
  /\ form' = [form EXCEPT ![f] = [email |-> e, expected |-> direct[e].version,
                                  shown |-> direct[e].grants]]
  /\ UNCHANGED <<scopes, verified, direct, provider, group, resource, unseen, skill, changes>>

AdministratorsIn(users, assignments) == {e \in users : Admin \in assignments[e].grants}
Administrators == AdministratorsIn(verified, direct)

LastAdministrator(e, keys) ==
  /\ Admin \in direct[e].grants \ keys
  /\ Cardinality(Administrators) <= 1

\* expectedVersion is null for a form that showed no row; it also fits a row
\* without grants.
Expected(f) ==
  LET row == direct[form[f].email]
  IN IF form[f].expected = 0 THEN row.grants = {} ELSE row.version = form[f].expected

\* mutateEmailAssignment.  A row left without keys is deleted, and a new one for the
\* same address starts at version 1.
Saved(e, keys) ==
  direct' = [direct EXCEPT ![e] =
    [version |-> IF keys = {} THEN 0 ELSE @.version + 1, grants |-> keys]]

SaveAssignment(f) ==
  LET e == form[f].email
  IN /\ form[f] # NoForm
     /\ Change
     /\ Expected(f)
     /\ \E keys \in SUBSET Known :
          /\ keys # direct[e].grants
          /\ ~LastAdministrator(e, keys)
          /\ Saved(e, keys)
     /\ form' = [form EXCEPT ![f] = NoForm]
     /\ UNCHANGED <<scopes, verified, provider, group, resource, unseen, skill>>

\* A refused save ("Reload and try again"), or one abandoned.
CloseForm(f) ==
  /\ form[f] # NoForm
  /\ form' = [form EXCEPT ![f] = NoForm]
  /\ UNCHANGED <<scopes, verified, direct, provider, group, resource, unseen, skill, changes>>

\* A sign-in creates users with a verified address (auth/login-service.ts).
Verify(e) ==
  /\ Change
  /\ e \notin verified
  /\ verified' = verified \cup {e}
  /\ UNCHANGED <<scopes, direct, provider, group, resource, unseen, skill, form>>
--------------------------------------------------------------------------------
GrantsAdmin(p) == \E g \in Groups : Admin \in group[<<p, g>>].grants

\* createGroupProvider comes with a token; an applied plan creates one without,
\* which cannot be enabled yet.
CreateProvider(p) ==
  /\ Change
  /\ provider[p].status = "absent"
  /\ \E status \in {"disabled", "enabled"}, credential \in BOOLEAN :
       /\ status = "enabled" => credential
       /\ provider' = [provider EXCEPT ![p] =
            [status |-> status, version |-> @.version + 1, credential |-> credential]]
  /\ UNCHANGED <<scopes, verified, direct, group, resource, unseen, skill, form>>

\* saveGroupProviderConfiguration: enabling, disabling, and whatever else changes
\* what the provider answers (base URL and token).
SaveProvider(p) ==
  /\ Change
  /\ provider[p].status # "absent"
  /\ \E status \in {"disabled", "enabled"}, token \in BOOLEAN :
       /\ status = "enabled" => token \/ provider[p].credential
       /\ /\ provider[p].status = "enabled" /\ status = "disabled" /\ GrantsAdmin(p)
          => Administrators # {}
       /\ provider' = [provider EXCEPT ![p] =
            [status |-> status, version |-> @.version + 1, credential |-> token \/ @.credential]]
  /\ UNCHANGED <<scopes, verified, direct, group, resource, unseen, skill, form>>

RemoveProvider(p) ==
  /\ Change
  /\ provider[p].status # "absent"
  /\ \A g \in Groups : ~group[<<p, g>>].exists
  /\ provider' = [provider EXCEPT ![p] =
       [status |-> "absent", version |-> @.version, credential |-> FALSE]]
  /\ UNCHANGED <<scopes, verified, direct, group, resource, unseen, skill, form>>

\* mutateGroupAssignment: create and update, with at least one scope.
SaveGroup(p, g) ==
  /\ Change
  /\ provider[p].status # "absent"
  /\ \E keys \in (SUBSET Known) \ {{}} :
       /\ keys # group[<<p, g>>].grants
       /\ group' = [group EXCEPT ![<<p, g>>] = [exists |-> TRUE, grants |-> keys]]
  /\ UNCHANGED <<scopes, verified, direct, provider, resource, unseen, skill, form>>

DeleteGroup(p, g) ==
  /\ Change
  /\ group[<<p, g>>].exists
  /\ group' = [group EXCEPT ![<<p, g>>] = NoGroup]
  /\ UNCHANGED <<scopes, verified, direct, provider, resource, unseen, skill, form>>

Administration ==
  \/ \E s \in Scopes : CreateScope(s) \/ DeleteScope(s)
  \/ \E k \in Skills : SaveSkill(k) \/ DeleteSkill(k)
  \/ \E r \in Resources : SaveResource(r) \/ DeleteResource(r)
  \/ \E f \in Forms : SaveAssignment(f) \/ CloseForm(f) \/ \E e \in Emails : OpenForm(f, e)
  \/ \E e \in Emails : Verify(e)
  \/ \E p \in Providers : \/ CreateProvider(p) \/ SaveProvider(p) \/ RemoveProvider(p)
                          \/ \E g \in Groups : SaveGroup(p, g) \/ DeleteGroup(p, g)
--------------------------------------------------------------------------------
\* Whatever order assignments, scopes and providers are changed in, somebody who can
\* sign in administers Weldall by a grant of their own: the check before removing one
\* counts exactly these (primitive-mutations.ts:536).
AdministratorRemains == Administrators # {}

\* No skill requires a scope that does not exist ("Scope ... is required by skill ...",
\* primitive-mutations.ts:181).
RequiredScopesExist == \A k \in Skills : skill[k].requires \subseteq Known

\* An administrator who saves has seen what the save replaces ("The assignment
\* changed. Reload and try again.", primitive-mutations.ts:531).
SeenIsReplaced ==
  [][\A f \in Forms :
       form[f] # NoForm /\ form'[f] = NoForm =>
         LET e == form[f].email
         IN direct'[e] # direct[e] => direct[e].grants = form[f].shown]_accessVars
================================================================================
