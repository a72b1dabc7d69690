--------------------------- MODULE ManagedConnections ---------------------------
(***************************************************************************)
(* The managed connections of one owner and one connector: authorization,  *)
(* use and disconnect running concurrently over the same rows, time, the   *)
(* loss of the owner's scopes, and handlers that die between two steps.    *)
(***************************************************************************)
EXTENDS ConnectionAuthorization, ConnectionUse, ConnectionDisconnect

\* expiresAt passes, and 30 s later the grace for a running exchange; the 30 s
\* of a refresh claim pass.
Tick ==
  /\ "time" \in Ops
  /\ \/ \E a \in Attempts :
          /\ AttemptExists(attempts[a])
          /\ \/ age[a] = "live" /\ age' = [age EXCEPT ![a] = "late"]
             \/ /\ age[a] = "late" /\ attempts[a].status = "PROCESSING"
                /\ age' = [age EXCEPT ![a] = "overdue"]
     \/ \E c \in Conns :
          /\ ConnExists(conns[c]) /\ conns[c].refreshBy # None
          /\ age[c] = "live"
          /\ age' = [age EXCEPT ![c] = "late"]
  /\ UNCHANGED <<connector, entitled, conns, attempts, vault, grants, audit, h, fuel, aborts>>

\* The owner loses, or gets back, the required scopes.
Entitle ==
  /\ "entitle" \in Ops
  /\ fuel > 0
  /\ entitled' = ~entitled
  /\ fuel' = fuel - 1
  /\ UNCHANGED <<connector, conns, attempts, vault, age, grants, audit, h, aborts>>

\* A handler ends anywhere: the process dies, or a transaction or an audit write
\* outside any try block fails.  What it held in memory is gone.
Abort(p) ==
  /\ h[p].pc # "idle"
  /\ aborts > 0
  /\ aborts' = aborts - 1
  /\ Finish(p)
  /\ UNCHANGED <<connector, entitled, conns, attempts, vault, age, grants, audit, fuel>>

HandlerBegin(p) == AuthorizationBegin(p) \/ AccessRead(p) \/ DisconnectRead(p)
HandlerStep(p) == AuthorizationStep(p) \/ UseStep(p) \/ DisconnectStep(p)

Next == \/ \E p \in Handlers : HandlerBegin(p) \/ HandlerStep(p) \/ Abort(p)
        \/ Administration
        \/ Tick
        \/ Entitle

Spec == Init /\ [][Next]_vars

\* A running request goes on: every provider call is cut off after 10 to 30 s and
\* every transaction after 15 s, so each step ends one way or another.  Nothing
\* makes a request begin, an administrator act, or a process die.
FairSpec == Spec /\ \A p \in Handlers : WF_vars(HandlerStep(p))
--------------------------------------------------------------------------------
CredentialsIn(s) == vault[s].kind = "credentials"
Stored(g) == \E s \in Slots : CredentialsIn(s) /\ vault[s].cred.grant = g

\* The phases in which a handler answers for the grant it holds.
Custodial == {"received", "rejected", "retained", "commit", "unstored",
              "unstoredMark", "refresh", "refreshCommit", "refreshFailed"}
Held(g) == \E p \in Handlers : h[p].pc \in Custodial /\ h[p].cred.grant = g

Logged(ops, s) == \E op \in ops : <<op, s>> \in audit

\* What tells an operator or the owner that an active grant is out there: an
\* exchange left in PROCESSING, or an audit entry of the step that gave it up.
RecordedOr(g, deletions) ==
  LET a == grants[g].attempt
      home == grants[g].home
  IN \/ grants[g].replaced
     \/ attempts[a].status = "PROCESSING"
     \/ Logged({"authorization.revocation_unconfirmed", "authorization.deleted",
                "authorization.cancelled_revocation_unsupported"}, a)
     \/ Logged({"connection.deleted", "disconnect.deleted_revocation_unconfirmed"}, home)
     \/ home = None /\ Logged(deletions, attempts[a].conn)
Recorded(g) == RecordedOr(g, {"disconnect.deleted_revocation_unconfirmed",
                              "disconnect.deleted_revocation_confirmed"})

custody == [g \in Grants |->
  IF grants[g].status = "unissued" THEN "unissued"
  ELSE IF grants[g].status = "revoked" THEN "settled"
  ELSE IF Stored(g) THEN "stored"
  ELSE IF Held(g) THEN "held"
  ELSE IF Recorded(g) THEN "settled" ELSE "lost"]

\* A grant that reached Weldall is encrypted in the database, in the hands of a
\* running handler, revoked, or accounted for, and one that was given up never
\* comes back: no handler, however late, stores it again.
Custody == INSTANCE GrantCustody WITH Grants <- Grants, custody <- custody
GrantsAccountedFor == Custody!Spec

\* Ciphertext lives exactly as long as the row that references it: whatever order
\* cleanup, cancellation, completion, disconnect and deletion run in, none leaves
\* an encrypted value behind and none deletes one that a row still needs.
NoOrphanCiphertext ==
  /\ \A c \in Conns : CredentialsIn(c) <=> ConnExists(conns[c])
  /\ \A a \in Attempts : vault[a] # NoSecret <=> attempts[a].payload

\* cleanupAttempts discards by status alone, so a status it may discard never
\* goes with tokens of a grant ("never silently discarded", line 330).
AbandonableHoldsNoTokens ==
  \A a \in Attempts : attempts[a].status \in AbandonableStatus => ~CredentialsIn(a)

\* The callback state is single use: whatever is replayed, raced or interrupted,
\* one attempt exchanges at most one code.
OneExchangePerAttempt ==
  \A g1, g2 \in {g \in Grants : grants[g].status # "unissued"} :
    grants[g1].attempt = grants[g2].attempt => g1 = g2

\* No blind retry: tokens about to be presented for a refresh have not been
\* presented before with an unknown outcome, and one handler only presents them.
NoBlindRetry ==
  \A p \in Handlers : h[p].pc = "refresh" =>
    /\ ~(grants[h[p].cred.grant].spent /\ grants[h[p].cred.grant].gen = h[p].cred.gen)
    /\ \A q \in Handlers \ {p} : h[q].pc = "refresh" => h[q].cred # h[p].cred

\* Just before a request leaves, the credential in the handler's memory is the
\* one stored for a READY connection, under the connector revision it was read
\* with, although it was read several transactions earlier.
DispatchesCurrentCredential ==
  [][\A p \in Handlers : h[p].pc = "assertCurrent" /\ h'[p].pc = "dispatch" =>
       LET c == h[p].conn
       IN /\ conns[c].status = "READY"
          /\ vault[c] = Sealed(h[p].cred)
          /\ connector = h[p].connector
          /\ entitled]_vars

\* When the audit log says that a disconnect was confirmed, every credential that
\* the deletion removed had been revoked at the provider.
ConfirmedMeansRevoked ==
  [][\A c \in Conns :
       <<"disconnect.deleted_revocation_confirmed", c>> \in audit' \ audit =>
         \A s \in {c} \cup AttemptsOf(c) :
           CredentialsIn(s) => grants[vault[s].cred.grant].status = "revoked"]_vars

\* "expired interrupted exchanges require administrator review of the provider
\* grant" (line 921): the last trace of an active grant is not a disconnect that
\* calls itself confirmed.
InterruptedExchangeReviewable ==
  \A g \in Grants : grants[g].status = "active" =>
    \/ Stored(g) \/ Held(g)
    \/ RecordedOr(g, {"disconnect.deleted_revocation_unconfirmed"})

\* Once a disconnect has blocked a connection nothing makes it usable again: a
\* refresh or a callback that started before may finish, the row stays blocked.
BlockedStaysBlocked ==
  [][\A c \in Conns : conns[c].status = "REVOCATION_PENDING" =>
       conns'[c].status \in {"REVOCATION_PENDING", "DELETED"}]_vars

\* Every request ends: a claim, a retained token and a half-done disconnect are all
\* left by the handler that runs them, however the other requests interfere.
RequestsEnd == \A p \in Handlers : h[p].pc # "idle" ~> h[p].pc = "idle"

\* No row stays REFRESHING, the status in which every other request is turned away:
\* the handler that claimed it commits a result, or another fences it.
RefreshSettles ==
  \A c \in Conns : conns[c].status = "REFRESHING" ~> conns[c].status # "REFRESHING"
================================================================================
