---------------------------- MODULE RefreshFamilies ----------------------------
(***************************************************************************)
(* The device refresh tokens of oauth/facade.ts: tokenFacade for           *)
(* authorization_code, refresh_token and token exchange, and               *)
(* revocationFacade.  A request is a chain of database statements and      *)
(* calls into the authorization server library (Better Auth), which keeps  *)
(* its own table of refresh tokens; requests interleave at every one.      *)
(*                                                                         *)
(* The binding of a token that was never bound has family None.  A refusal *)
(* that any observation may lead to (expired binding, DPoP proof, login    *)
(* scope, policy, audit) is a choice.                                      *)
(***************************************************************************)
EXTENDS Naturals, FiniteSets

CONSTANTS
  Clients,    \* CLI processes; each has at most one request at the server
  Tokens,     \* refresh tokens; the first of a family also names the family
  None        \* no token

ASSUME NoneIsNoToken == None \notin Tokens

Binding == [family : Tokens \cup {None}, rotated : BOOLEAN, revoked : BOOLEAN]
Unbound == [family |-> None, rotated |-> FALSE, revoked |-> FALSE]

\* The library's row of a token.
ProviderToken == [issued : BOOLEAN, rotated : BOOLEAN, revoked : BOOLEAN]
Unissued == [issued |-> FALSE, rotated |-> FALSE, revoked |-> FALSE]

Kinds == {"login", "refresh", "exchange", "revoke"}
RequestPhase == {"idle", "lookup", "provider", "check", "bind", "familyCheck",
                 "familyRevoke", "answered"}

\* seen and providerSeen are what the lookups returned; an exchange runs both at
\* once, pending names those still to run.  issued is the successor token.
Request == [pc : RequestPhase, kind : Kinds, token : Tokens \cup {None},
            pending : SUBSET {"binding", "provider"}, seen : Binding,
            providerSeen : ProviderToken, issued : Tokens \cup {None}, ok : BOOLEAN]
NoRequest == [pc |-> "idle", kind |-> "login", token |-> None, pending |-> {},
              seen |-> Unbound, providerSeen |-> Unissued, issued |-> None, ok |-> FALSE]

VARIABLES
  binding,    \* OAuthDeviceRefreshBinding rows, by token
  provider,   \* the library's tokens
  req         \* the request of each client

serverVars == <<binding, provider, req>>

ServerTypeOK ==
  /\ binding \in [Tokens -> Binding]
  /\ provider \in [Tokens -> ProviderToken]
  /\ req \in [Clients -> Request]

ServerInit ==
  /\ binding = [t \in Tokens |-> Unbound]
  /\ provider = [t \in Tokens |-> Unissued]
  /\ req = [p \in Clients |-> NoRequest]

--------------------------------------------------------------------------------
Family(f) == {t \in Tokens : binding[t].family = f}
Live(t) == binding[t].family # None /\ ~binding[t].rotated /\ ~binding[t].revoked

\* updateMany over the family.
RevokedFamily(f) == [t \in Tokens |-> IF f # None /\ t \in Family(f)
                                      THEN [binding[t] EXCEPT !.revoked = TRUE]
                                      ELSE binding[t]]

To(p, pc) == req' = [req EXCEPT ![p].pc = pc]
Answer(p, ok) == req' = [req EXCEPT ![p].pc = "answered", ![p].ok = ok]

\* A request arrives; a login has no binding to look up.
Receive(p, kind, t) ==
  /\ req[p].pc = "idle"
  /\ req' = [req EXCEPT ![p] = [NoRequest EXCEPT !.kind = kind, !.token = t,
       !.pc = IF kind = "login" THEN "provider" ELSE "lookup",
       !.pending = CASE kind = "login" -> {}
                     [] kind = "exchange" -> {"binding", "provider"}
                     [] OTHER -> {"binding"}]]

LookupBinding(p) ==
  /\ req[p].pc = "lookup"
  /\ "binding" \in req[p].pending
  /\ req' = [req EXCEPT ![p].pending = @ \ {"binding"}, ![p].seen = binding[req[p].token]]
  /\ UNCHANGED <<binding, provider>>

LookupProvider(p) ==
  /\ req[p].pc = "lookup"
  /\ "provider" \in req[p].pending
  /\ req' = [req EXCEPT ![p].pending = @ \ {"provider"},
                        ![p].providerSeen = provider[req[p].token]]
  /\ UNCHANGED <<binding, provider>>

\* Reuse of a token: it was rotated here, or (exchange only) at the library.
ReuseSeen(p) ==
  LET r == req[p]
  IN /\ r.seen.family # None
     /\ ~r.seen.revoked
     /\ \/ r.kind = "refresh" /\ r.seen.rotated
        \/ /\ r.kind = "exchange"
           /\ r.seen.rotated \/ (r.providerSeen.rotated /\ ~r.providerSeen.revoked)

Acceptable(p) ==
  LET r == req[p]
  IN /\ r.seen.family # None
     /\ ~r.seen.revoked
     /\ r.kind # "revoke" => ~r.seen.rotated
     /\ r.kind = "exchange" => /\ r.providerSeen.issued
                               /\ ~r.providerSeen.rotated /\ ~r.providerSeen.revoked

\* The decision after the lookup.  A revocation of an unknown or revoked token
\* succeeds at once; an exchange changes no token.
Decide(p) ==
  LET r == req[p]
  IN /\ r.pc = "lookup"
     /\ r.pending = {}
     /\ \/ ReuseSeen(p) /\ To(p, "familyRevoke")
        \/ /\ Acceptable(p)
           /\ IF r.kind = "exchange" THEN Answer(p, TRUE) ELSE To(p, "provider")
        \/ /\ r.kind = "revoke" /\ ~Acceptable(p)
           /\ Answer(p, TRUE)
        \/ Answer(p, FALSE)
     /\ UNCHANGED <<binding, provider>>

\* auth.handler: the library issues, rotates or revokes in its own table.  It may
\* refuse with invalid_grant, and answers any other error without a change.
AtProvider(p) ==
  LET r == req[p]
      t == r.token
      active == provider[t].issued /\ ~provider[t].rotated /\ ~provider[t].revoked
  IN /\ r.pc = "provider"
     /\ \/ /\ r.kind \in {"login", "refresh"}
           /\ r.kind = "refresh" => active
           /\ \E n \in {n \in Tokens : ~provider[n].issued} :
                /\ provider' = [u \in Tokens |->
                     CASE u = n -> [Unissued EXCEPT !.issued = TRUE]
                       [] u = t -> [provider[u] EXCEPT !.rotated = TRUE]
                       [] OTHER -> provider[u]]
                /\ req' = [req EXCEPT ![p].pc = "check", ![p].issued = n]
        \/ /\ r.kind = "refresh"
           /\ To(p, "familyRevoke")      \* invalid_grant
           /\ UNCHANGED provider
        \/ /\ r.kind = "revoke"
           /\ provider' = [provider EXCEPT ![t].revoked = TRUE]
           /\ To(p, "familyRevoke")
        \/ Answer(p, FALSE) /\ UNCHANGED provider
     /\ UNCHANGED binding

\* Proof, access token and login scope are checked before the token is bound.
Check(p) ==
  /\ req[p].pc = "check"
  /\ To(p, "bind") \/ Answer(p, FALSE)
  /\ UNCHANGED <<binding, provider>>

\* The transaction that rotates the old binding and creates the new one; a login
\* starts a family.  Faulty variant: the old binding is left as it was.
BoundOnly(r) ==
  [binding EXCEPT ![r.issued] = [Unbound EXCEPT !.family = r.seen.family]]
BoundSuccessor(r) ==
  [t \in Tokens |-> CASE t = r.issued -> [Unbound EXCEPT !.family = r.seen.family]
                      [] t = r.token -> [binding[t] EXCEPT !.rotated = TRUE]
                      [] OTHER -> binding[t]]

Bind(p) ==
  LET r == req[p]
  IN /\ r.pc = "bind"
     /\ \/ /\ r.kind = "refresh"
           /\ binding' = BoundSuccessor(r)
           /\ To(p, "familyCheck")
        \/ /\ r.kind = "login"
           /\ binding' = [binding EXCEPT ![r.issued] = [Unbound EXCEPT !.family = r.issued]]
           /\ Answer(p, TRUE)
        \/ Answer(p, FALSE) /\ UNCHANGED binding
     /\ UNCHANGED provider

\* Faulty variant: the family is not looked at again.
NeverRevoked(f) == FALSE
FamilyWasRevoked(f) == \E t \in Family(f) : binding[t].revoked

\* A revocation that ran since the lookup did not reach the new binding.
FamilyCheck(p) ==
  /\ req[p].pc = "familyCheck"
  /\ IF FamilyWasRevoked(req[p].seen.family) THEN To(p, "familyRevoke") ELSE Answer(p, TRUE)
  /\ UNCHANGED <<binding, provider>>

\* A refresh that was bound is answered with its tokens all the same.
FamilyRevoke(p) ==
  /\ req[p].pc = "familyRevoke"
  /\ binding' = RevokedFamily(req[p].seen.family)
  /\ Answer(p, req[p].kind = "revoke" \/ req[p].issued # None)
  /\ UNCHANGED provider

ServerStep(p) ==
  \/ LookupBinding(p) \/ LookupProvider(p) \/ Decide(p) \/ AtProvider(p) \/ Check(p)
  \/ Bind(p) \/ FamilyCheck(p) \/ FamilyRevoke(p)
--------------------------------------------------------------------------------
\* The client that takes up the answer, or will never see one.
Taken(p) == req' = [req EXCEPT ![p] = NoRequest]
================================================================================
