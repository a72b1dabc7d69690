------------------------------ MODULE AccessPolicy ------------------------------
(***************************************************************************)
(* policy/resources.ts: what a person may do, decided in two stages.  The  *)
(* memberships come from remote group providers, asked one after the other *)
(* outside any transaction; the grants are read afterwards, in one         *)
(* transaction.  Administration and the remote directories change at any   *)
(* point in between.                                                       *)
(***************************************************************************)
EXTENDS AccessStore

CONSTANTS Requests,
          MaxMoves    \* bound: changes of the remote directories

\* A request decides the effective scopes of a user ("effective"), an exchange for a
\* resource, or answers a machine which of its scopes a subject has ("check").
Kinds == {"effective", "exchange", "check"}
Idle == [pc |-> "idle", kind |-> "effective", email |-> None, resource |-> None,
         todo |-> {}, resolved |-> {}, member |-> {}, granted |-> {}, missing |-> {}]

VARIABLES
  directory,  \* external: the groups each provider knows a user in
  moves,
  req,
  touched,    \* history: memberships true at some time of a request and of the present
              \* configuration of their provider
  stayed      \* history: memberships true all through a request, as far as their provider
              \* has had its present configuration

policyVars == <<directory, moves, req, touched, stayed>>

Pairs == Providers \X Groups
Versioned == Providers \X Nat
Request == [pc : {"idle", "resolve", "decide", "answered", "refused"}, kind : Kinds,
            email : Emails \cup {None}, resource : Resources \cup {None},
            todo : SUBSET Versioned, resolved : SUBSET Versioned,
            member : SUBSET (Versioned \X Groups),
            granted : SUBSET Keys, missing : SUBSET Keys]

PolicyTypeOK ==
  /\ directory \in [Emails -> SUBSET Pairs] /\ moves \in 0 .. MaxMoves
  /\ req \in [Requests -> Request]
  /\ touched \in [Requests -> SUBSET Pairs] /\ stayed \in [Requests -> SUBSET Pairs]

PolicyInit ==
  /\ directory = [e \in Emails |-> {}] /\ moves = 0
  /\ req = [q \in Requests |-> Idle]
  /\ touched = [q \in Requests |-> {}] /\ stayed = [q \in Requests |-> {}]

\* The history of the running requests when directories or configurations become
\* dir and prov.
Observe(dir, prov) ==
  LET true(q) == dir[req[q].email]
      same(pg) == prov[pg[1]] = provider[pg[1]]
      running == {q \in Requests : req[q].pc \in {"resolve", "decide"}}
  IN /\ touched' = [q \in Requests |-> IF q \in running
                      THEN {pg \in touched[q] : same(pg)} \cup true(q) ELSE touched[q]]
     /\ stayed' = [q \in Requests |-> IF q \in running
                     THEN {pg \in true(q) : same(pg) => pg \in stayed[q]} ELSE stayed[q]]
--------------------------------------------------------------------------------
\* External: somebody joins or leaves a group.
Move ==
  /\ moves < MaxMoves /\ moves' = moves + 1
  /\ \E e \in Emails, pg \in Pairs :
       LET dir == [directory EXCEPT ![e] = IF pg \in @ THEN @ \ {pg} ELSE @ \cup {pg}]
       IN directory' = dir /\ Observe(dir, provider)
  /\ UNCHANGED <<accessVars, req>>

\* resolveProviderMemberships, first statement: the enabled providers that have
\* assignments, with their versions.
Asked == {p \in Providers : /\ provider[p].status = "enabled"
                            /\ \E g \in Groups : group[<<p, g>>].exists}

Begin(q) ==
  /\ req[q].pc \in {"idle", "answered", "refused"}
  /\ \E e \in verified, kind \in Kinds, r \in Resources \cup {None} :
       /\ (kind = "exchange") = (r # None)
       /\ req' = [req EXCEPT ![q] = [Idle EXCEPT !.pc = "resolve", !.kind = kind, !.email = e,
                    !.resource = r, !.todo = {<<p, provider[p].version>> : p \in Asked}]]
       /\ touched' = [touched EXCEPT ![q] = directory[e]]
       /\ stayed' = [stayed EXCEPT ![q] = directory[e]]
  /\ UNCHANGED <<accessVars, directory, moves>>

Current(pv) == provider[pv[1]].status = "enabled" /\ provider[pv[1]].version = pv[2]

\* One provider: the look-up fails, or it answers under the configuration that was
\* read, which may mean anything once that is not the current one.
Resolve(q) ==
  /\ req[q].pc = "resolve"
  /\ \E pv \in req[q].todo :
       LET known == {g \in Groups : <<pv[1], g>> \in directory[req[q].email]}
           next == [req[q] EXCEPT !.todo = @ \ {pv}]
       IN \/ req' = [req EXCEPT ![q] = next]
          \/ \E groups \in IF Current(pv) THEN {known} ELSE SUBSET Groups :
               req' = [req EXCEPT ![q] = [next EXCEPT !.resolved = @ \cup {pv},
                                            !.member = @ \cup ({pv} \X groups)]]
  /\ UNCHANGED <<accessVars, directory, moves, touched, stayed>>

Resolved(q) ==
  /\ req[q].pc = "resolve"
  /\ req[q].todo = {}
  /\ req' = [req EXCEPT ![q].pc = "decide"]
  /\ UNCHANGED <<accessVars, directory, moves, touched, stayed>>
--------------------------------------------------------------------------------
\* loadEffectiveScopes and loadEffectiveScopeGrants: direct grants, and those of the
\* groups found under a configuration that is still the current one.
\* Faulty variant: the groups of a provider that changed count.
EffectiveByKey(q) ==
  direct[req[q].email].grants
    \cup UNION {group[<<m[1][1], m[2]>>].grants : m \in req[q].member}
Effective(q) ==
  direct[req[q].email].grants
    \cup UNION {group[<<m[1][1], m[2]>>].grants : m \in {n \in req[q].member : Current(n[1])}}

\* uncertainGrant: a missing scope could come from an enabled provider that was not
\* asked, did not answer, or has changed since it did.
\* Faulty variant: only providers that were asked and did not answer are uncertain.
AskedInVain(q, missing) == \E p \in Providers, g \in Groups :
  /\ provider[p].status = "enabled" /\ group[<<p, g>>].grants \cap missing # {}
  /\ \A pv \in req[q].resolved : pv[1] # p
Uncertain(q, missing) == \E p \in Providers, g \in Groups :
  /\ provider[p].status = "enabled" /\ group[<<p, g>>].grants \cap missing # {}
  /\ <<p, provider[p].version>> \notin req[q].resolved

Answer(q, granted, missing) ==
  req' = [req EXCEPT ![q] = [@ EXCEPT !.pc = "answered", !.granted = granted,
                                       !.missing = missing]]

\* effectiveScopesFor, and the requirement of a system scope within them.
DecideEffective(q) ==
  /\ req[q].kind = "effective"
  /\ Answer(q, Effective(q), {})

\* loadExchangePolicy: resource, provider versions and grants in one snapshot.
DecideExchange(q) ==
  /\ req[q].kind = "exchange"
  /\ LET r == resource[req[q].resource]
     IN Answer(q, IF r.status = "enabled" THEN r.supports \cap Effective(q) ELSE {}, {})

Queryable == UNION {resource[r].supports : r \in {x \in Resources : resource[x].status = "enabled"}}

\* checkSubjectScopesForMachine, the last transaction, under the configuration lock.
\* It may be refused for the machine's own sake, which MachineTokens models.
DecideCheck(q) ==
  /\ req[q].kind = "check"
  /\ \/ \E asked \in (SUBSET Queryable) \ {{}} :
          LET missing == asked \ Effective(q)
          IN /\ missing # {} => ~Uncertain(q, missing)
             /\ Answer(q, asked \ missing, missing)
     \/ req' = [req EXCEPT ![q].pc = "refused"]

Decide(q) ==
  /\ req[q].pc = "decide"
  /\ \/ DecideEffective(q) \/ DecideExchange(q) \/ DecideCheck(q)
  /\ UNCHANGED <<accessVars, directory, moves, touched, stayed>>

PolicyStep == Move \/ \E q \in Requests : Begin(q) \/ Resolve(q) \/ Resolved(q) \/ Decide(q)
--------------------------------------------------------------------------------
Decides(q) == req[q].pc = "decide" /\ req'[q].pc = "answered"

\* Every scope an answer grants is granted when the answer is given: to the address,
\* or to a group that the provider, as it is configured now, had the user in at some
\* time since the request began.
GrantedIsJustified ==
  [][\A q \in Requests : Decides(q) =>
       \A s \in req'[q].granted :
         \/ s \in direct[req[q].email].grants
         \/ \E pg \in touched[q] : /\ provider[pg[1]].status = "enabled"
                                   /\ s \in group[pg].grants]_<<accessVars, policyVars>>

\* A machine is told that a subject lacks a scope only if that is certain: the grants
\* contain none for the address nor for a group of an enabled provider in which the
\* user has been all through the request, or since its provider was changed during it
\* ("cannot be evaluated authoritatively" otherwise, subject-scopes-api.ts:88).
MissingIsCertain ==
  [][\A q \in Requests : Decides(q) =>
       \A s \in req'[q].missing :
         /\ s \notin direct[req[q].email].grants
         /\ \A pg \in stayed[q] : provider[pg[1]].status = "enabled" => s \notin group[pg].grants
    ]_<<accessVars, policyVars>>
================================================================================
