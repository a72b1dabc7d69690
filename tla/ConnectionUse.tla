----------------------------- MODULE ConnectionUse -----------------------------
(***************************************************************************)
(* Using a connection: authorizeConnectionUse around accessCredentials,    *)
(* with its refresh claim (a compare-and-set on the row, shared by all     *)
(* processes), the provider's refresh call, and the checks that precede    *)
(* the dispatch of the upstream request.  The per-minute quota is left     *)
(* out: its transaction touches no column the other steps read.            *)
(***************************************************************************)
EXTENDS ConnectionStore

\* resolve of connection-access.ts together with the connector checks.
Usable(c) == ConnectorOpen /\ conns[c].status \in {"READY", "REFRESHING"}

AccessRead(p) ==
  /\ Begin(p, "access")
  /\ \E c \in Conns :
       /\ Usable(c)
       /\ h' = [h EXCEPT ![p].conn = c, ![p].row = conns[c], ![p].connector = connector,
                  ![p].pc = IF conns[c].status = "READY" THEN "accessDecrypt"
                                                         ELSE "accessClaim"]
  /\ UNCHANGED <<connector, entitled, conns, attempts, vault, age, grants, audit, aborts>>

\* The credential is read outside the transaction that read the row.  ok: it is
\* near its expiry and the data key for its replacement is prepared.
AccessDecrypt(p) ==
  LET c == h[p].conn
  IN /\ h[p].pc = "accessDecrypt"
     /\ \/ /\ vault[c].kind = "credentials"
           /\ \E refresh \in BOOLEAN :
                h' = [h EXCEPT ![p].pc = "accessClaim", ![p].cred = vault[c].cred,
                               ![p].ok = refresh]
        \/ Finish(p)
     /\ UNCHANGED <<connector, entitled, conns, attempts, vault, age, grants, audit, fuel, aborts>>

\* assertConnectionUnchanged compares everything but the usage counters.
Unchanged(p) == conns[h[p].conn] = h[p].row /\ connector = h[p].connector

\* The claim: use the credential as it is, take the refresh, or give up.  A
\* claim older than 30 s is ambiguous: the connection must be reconnected.
AccessClaim(p) ==
  LET c == h[p].conn
      current == Usable(c) /\ Unchanged(p)
      ready == current /\ conns[c].status = "READY"
      interrupted == current /\ conns[c].status = "REFRESHING" /\ Stale(c)
      claimed == [conns[c] EXCEPT !.status = "REFRESHING", !.refreshBy = p,
                                  !.version = @ + 1]
  IN /\ h[p].pc = "accessClaim"
     /\ \/ /\ ready
           /\ ~h[p].ok
           /\ Goto(p, "grantCheck")
           /\ UNCHANGED <<conns, age>>
        \/ /\ ready
           /\ h[p].ok
           /\ conns' = [conns EXCEPT ![c] = claimed]
           /\ age' = [age EXCEPT ![c] = "live"]
           /\ h' = [h EXCEPT ![p].pc = "refresh", ![p].row = claimed]
        \/ /\ interrupted
           /\ conns' = [conns EXCEPT ![c].status = "RECONNECT_REQUIRED",
                                     ![c].version = @ + 1]
           /\ Finish(p)
           /\ UNCHANGED age
        \/ /\ ~ready /\ ~interrupted
           /\ Finish(p)
           /\ UNCHANGED <<conns, age>>
     /\ UNCHANGED <<connector, entitled, attempts, vault, grants, audit, fuel, aborts>>

\* The provider's answer to refreshCredentials.  Afterwards ok tells that the
\* new grant is usable (refreshCommit) or that a failure is safe to retry.
\* Tokens that are no longer current are refused for good.
Refresh(p) ==
  LET g == h[p].cred.grant
      current == grants[g].status = "active" /\ h[p].cred.gen = grants[g].gen
      next == grants[g].gen + 1
      rotated == [grants EXCEPT ![g].gen = next, ![g].spent = FALSE]
  IN /\ h[p].pc = "refresh"
     /\ \/ /\ current            \* rotated; consent is as requested, or is not
           /\ grants' = rotated
           /\ \E usable \in BOOLEAN :
                h' = [h EXCEPT ![p].pc = "refreshCommit", ![p].ok = usable,
                               ![p].cred.gen = next]
        \/ /\ current            \* rotated, but the answer was lost
           /\ grants' = rotated
           /\ h' = [h EXCEPT ![p].pc = "refreshFailed", ![p].ok = FALSE]
        \/ /\ current            \* nobody can tell whether it was processed
           /\ grants' = [grants EXCEPT ![g].spent = TRUE]
           /\ h' = [h EXCEPT ![p].pc = "refreshFailed", ![p].ok = FALSE]
        \/ /\ \E retryable \in BOOLEAN :   \* an explicit refusal
                /\ ~retryable => ~current
                /\ h' = [h EXCEPT ![p].pc = "refreshFailed", ![p].ok = retryable]
           /\ UNCHANGED grants
     /\ UNCHANGED <<connector, entitled, conns, attempts, vault, age, audit, fuel, aborts>>

\* Faulty variant: the refresh brings a blocked connection back.
StatusUnblocked(pending, usable) == IF usable THEN "READY" ELSE "RECONNECT_REQUIRED"
StatusAfterRefresh(pending, usable) ==
  IF pending THEN "REVOCATION_PENDING" ELSE IF usable THEN "READY" ELSE "RECONNECT_REQUIRED"

\* The rotated tokens are stored if the claim still stands, or if a disconnect
\* blocked the connection under the same claim; in any other case, and when the
\* transaction fails, they are dropped.
RefreshCommit(p) ==
  LET c == h[p].conn
      r == conns[c]
      pending == r.status = "REVOCATION_PENDING" /\ r.refreshBy = p
      claimed == r.status = "REFRESHING" /\ r.version = h[p].row.version
      usable == /\ h[p].ok
                /\ connector.enabled
                /\ connector.version = h[p].connector.version
      next == [r EXCEPT !.refreshBy = None, !.version = @ + 1,
                 !.status = StatusAfterRefresh(pending, usable)]
  IN /\ h[p].pc = "refreshCommit"
     /\ \/ /\ pending \/ claimed
           /\ conns' = [conns EXCEPT ![c] = next]
           /\ vault' = [vault EXCEPT ![c] = Sealed(h[p].cred)]
           /\ Log("connection.refreshed", c)
           /\ IF next.status = "READY"
              THEN h' = [h EXCEPT ![p].pc = "grantCheck", ![p].row = next,
                                  ![p].connector = connector, ![p].ok = FALSE]
              ELSE Finish(p)
        \/ /\ h' = [h EXCEPT ![p].pc = "refreshFailed", ![p].ok = FALSE]
           /\ UNCHANGED <<conns, vault, audit>>
     /\ UNCHANGED <<connector, entitled, attempts, age, grants, fuel, aborts>>

\* Faulty variants: every failure is retried; a failure keeps the claim.
StatusAlwaysRetried(retryable) == "READY"
StatusKeepsClaim(retryable) == "REFRESHING"
StatusAfterFailure(retryable) == IF retryable THEN "READY" ELSE "RECONNECT_REQUIRED"

\* recordRefreshFailure: only the claim it belongs to is released.
RefreshFailed(p) ==
  LET c == h[p].conn
      r == conns[c]
  IN /\ h[p].pc = "refreshFailed"
     /\ conns' = IF r.status = "REFRESHING" /\ r.version = h[p].row.version
                 THEN [conns EXCEPT ![c] =
                        [r EXCEPT !.status = StatusAfterFailure(h[p].ok),
                                  !.refreshBy = None, !.version = @ + 1]]
                 ELSE conns
     /\ Log(IF h[p].ok THEN "refresh.transient_failure" ELSE "refresh.outcome_uncertain", c)
     /\ Finish(p)
     /\ UNCHANGED <<connector, entitled, attempts, vault, age, grants, fuel, aborts>>

\* ensureGrantCurrent: a mismatch blocks the connection it was found for.
GrantCheck(p) ==
  LET c == h[p].conn
  IN /\ h[p].pc = "grantCheck"
     /\ \/ Goto(p, "useCheck") /\ UNCHANGED conns
        \/ Finish(p) /\ UNCHANGED conns
        \/ /\ conns' = IF conns[c].status = "READY" /\ conns[c].version = h[p].row.version
                       THEN [conns EXCEPT ![c].status = "RECONNECT_REQUIRED",
                                          ![c].version = @ + 1]
                       ELSE conns
           /\ Finish(p)
     /\ UNCHANGED <<connector, entitled, attempts, vault, age, grants, audit, fuel, aborts>>

\* Faulty variant: only the status is looked at again.
CurrentStatus(p) == ConnectorOpen /\ conns[h[p].conn].status = "READY"

\* check of authorizeConnectionUse: the versions pin the credential in hand.
Current(p) ==
  LET c == h[p].conn
  IN /\ ConnectorOpen
     /\ conns[c].status = "READY"
     /\ conns[c].version = h[p].row.version
     /\ connector.version = h[p].connector.version

\* The usage transaction and, just before the request leaves, assertCurrent.
UseCheck(p) ==
  /\ h[p].pc \in {"useCheck", "assertCurrent"}
  /\ \/ /\ Current(p)
        /\ Goto(p, IF h[p].pc = "useCheck" THEN "assertCurrent" ELSE "dispatch")
     \/ Finish(p)
  /\ UNCHANGED <<connector, entitled, conns, attempts, vault, age, grants, audit, fuel, aborts>>

Dispatch(p) ==
  /\ h[p].pc = "dispatch"
  /\ Finish(p)
  /\ UNCHANGED <<connector, entitled, conns, attempts, vault, age, grants, audit, fuel, aborts>>

--------------------------------------------------------------------------------
UseStep(p) ==
  \/ AccessDecrypt(p) \/ AccessClaim(p) \/ Refresh(p) \/ RefreshCommit(p)
  \/ RefreshFailed(p) \/ GrantCheck(p) \/ UseCheck(p) \/ Dispatch(p)
================================================================================
