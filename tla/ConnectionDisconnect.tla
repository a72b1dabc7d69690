-------------------------- MODULE ConnectionDisconnect --------------------------
(***************************************************************************)
(* Ending a connection: the owner's disconnectAndDelete, which blocks the  *)
(* row, revokes at the provider and deletes; the administrator's           *)
(* deleteConnection and deleteConnectorConfiguration, which only delete;   *)
(* and saveConnectorConfiguration, which changes the connector under all   *)
(* of them.                                                                *)
(***************************************************************************)
EXTENDS ConnectionStore

Disconnected(c, confirmed) ==
  <<IF confirmed THEN "disconnect.deleted_revocation_confirmed"
                 ELSE "disconnect.deleted_revocation_unconfirmed", c>>

DisconnectRead(p) ==
  /\ Begin(p, "disconnect")
  /\ \E c \in Conns :
       /\ ConnExists(conns[c])
       /\ h' = [h EXCEPT ![p].pc = "disconnectAttempts", ![p].conn = c, ![p].row = conns[c],
                         ![p].connector = connector]
  /\ UNCHANGED <<connector, entitled, conns, attempts, vault, age, grants, audit, aborts>>

Rows(c) == [a \in Attempts |-> IF a \in AttemptsOf(c) THEN attempts[a] ELSE UnusedAttempt]

\* Token processing that may still finish: a refresh claim younger than 30 s, or
\* an exchange not yet 30 s past the attempt's expiry.
InProgress(c, row) ==
  \/ row.refreshBy # None /\ ~Stale(c)
  \/ \E a \in AttemptsOf(c) : attempts[a].status = "PROCESSING" /\ age[a] # "overdue"

DisconnectAttempts(p) ==
  LET c == h[p].conn
  IN /\ h[p].pc = "disconnectAttempts"
     /\ h' = [h EXCEPT ![p].rows = Rows(c),
                ![p].pc = IF InProgress(c, h[p].row) THEN "disconnectBlock"
                                                    ELSE "disconnectDecrypt"]
     /\ UNCHANGED <<connector, entitled, conns, attempts, vault, age, grants, audit, fuel, aborts>>

\* Every credential that can be decrypted will be revoked.  One that cannot is
\* skipped (LOCAL_ENV) or ends the request (OPENBAO).  ok is revocationConfirmed:
\* it is lost with an unreadable value, with a refresh that was interrupted, and
\* with an attempt that should hold tokens and does not.
DisconnectDecrypt(p) ==
  LET c == h[p].conn
      values == {c} \cup {a \in Attempts : h[p].rows[a].payload}
  IN /\ h[p].pc = "disconnectDecrypt"
     /\ \/ \E unread \in SUBSET values :
           /\ \A s \in values \ unread : vault[s] # NoSecret
           /\ LET read == {s \in values \ unread : vault[s].kind = "credentials"}
              IN h' = [h EXCEPT ![p].pc = "disconnectClaim",
                        ![p].creds = {vault[s].cred : s \in read},
                        ![p].ok = /\ unread = {}
                                  /\ h[p].row.refreshBy = None
                                  /\ \A a \in Attempts :
                                       h[p].rows[a].status \in
                                         {"NEEDS_REVOCATION", "REVOCATION_PENDING"}
                                       => a \in read]
        \/ Finish(p)
     /\ UNCHANGED <<connector, entitled, conns, attempts, vault, age, grants, audit, fuel, aborts>>

Same(p) == /\ conns[h[p].conn] = h[p].row
           /\ connector = h[p].connector
           /\ Rows(h[p].conn) = h[p].rows

Blocked(r) == [r EXCEPT !.status = "REVOCATION_PENDING", !.version = @ + 1]

\* While tokens are being processed the connection is only blocked.
DisconnectBlock(p) ==
  LET c == h[p].conn
  IN /\ h[p].pc = "disconnectBlock"
     /\ IF Same(p)
        THEN /\ conns' = [conns EXCEPT ![c] = Blocked(@)]
             /\ Log("disconnect.blocked", c)
        ELSE UNCHANGED <<conns, audit>>
     /\ Finish(p)
     /\ UNCHANGED <<connector, entitled, attempts, vault, age, grants, fuel, aborts>>

\* Faulty variant: a retained grant is stopped like an unused attempt.
StoppedAll(status) ==
  IF status \in {"SETUP", "AUTHORIZING", "NEEDS_REVOCATION"} THEN "CANCELLED" ELSE status
Stopped(status) ==
  CASE status \in {"SETUP", "AUTHORIZING"} -> "CANCELLED"
    [] status = "NEEDS_REVOCATION" -> "REVOCATION_PENDING"
    [] OTHER -> status

\* Otherwise callbacks are stopped too, and retained grants marked for revocation.
DisconnectClaim(p) ==
  LET c == h[p].conn
      stopped == [a \in Attempts |->
        IF a \in AttemptsOf(c)
        THEN [attempts[a] EXCEPT !.status = Stopped(@), !.state = FALSE]
        ELSE attempts[a]]
  IN /\ h[p].pc = "disconnectClaim"
     /\ IF Same(p)
        THEN /\ conns' = [conns EXCEPT ![c] = Blocked(@)]
             /\ attempts' = stopped
             /\ Log("disconnect.blocked", c)
             /\ h' = [h EXCEPT ![p].pc = "disconnectRevoke", ![p].row = Blocked(@),
                        ![p].rows = [a \in Attempts |->
                           IF a \in AttemptsOf(c) THEN stopped[a] ELSE UnusedAttempt]]
        ELSE Finish(p) /\ UNCHANGED <<conns, attempts, audit>>
     /\ UNCHANGED <<connector, entitled, vault, age, grants, fuel, aborts>>

\* Faulty variants: an unsupported revocation counts; one is repeated until it is
\* confirmed.
ConfirmsUnlessFailed(outcome) == outcome # "failed"

Confirms(outcome) == outcome = "revoked"
LeftAfterRetry(p, c, outcome) == IF Confirms(outcome) THEN h[p].creds \ {c} ELSE h[p].creds
LeftAfter(p, c, outcome) == h[p].creds \ {c}

\* One provider call for each credential.
DisconnectRevoke(p) ==
  /\ h[p].pc = "disconnectRevoke"
  /\ \E c \in h[p].creds, outcome \in {"revoked", "unsupported", "failed"} :
       /\ RevokeOutcome(c, outcome)
       /\ h' = [h EXCEPT ![p].creds = LeftAfter(p, c, outcome),
                         ![p].ok = @ /\ Confirms(outcome)]
  /\ UNCHANGED <<connector, entitled, conns, attempts, vault, age, audit, fuel, aborts>>

\* The delete goes through only if nothing moved since the claim.
DisconnectDelete(p) ==
  LET c == h[p].conn
      mine == {a \in Attempts : AttemptExists(h[p].rows[a])}
      valid == /\ conns[c].status = "REVOCATION_PENDING"
               /\ conns[c].version = h[p].row.version
               /\ AttemptsOf(c) = mine
               /\ \A a \in mine : /\ attempts[a].status = h[p].rows[a].status
                                  /\ attempts[a].payload = h[p].rows[a].payload
  IN /\ h[p].pc = "disconnectRevoke"
     /\ h[p].creds = {}
     /\ IF valid
        THEN /\ conns' = [conns EXCEPT ![c] = DeletedConn]
             /\ attempts' = [a \in Attempts |-> IF a \in mine THEN DeletedAttempt(attempts[a])
                                                             ELSE attempts[a]]
             /\ vault' = [s \in Slots |-> IF s \in mine \cup {c} THEN NoSecret ELSE vault[s]]
             /\ audit' = audit \cup {Disconnected(c, h[p].ok)}
        ELSE UNCHANGED <<conns, attempts, vault, audit>>
     /\ Finish(p)
     /\ UNCHANGED <<connector, entitled, age, grants, fuel, aborts>>

--------------------------------------------------------------------------------
\* deleteConnectionState, for one connection or for everything of the connector:
\* local state and ciphertext go in one transaction, the provider is not asked.
\* Faulty variants: the payloads of the attempts stay; their end is not recorded.
ValuesOfConns(cs, as) == cs
ValuesOf(cs, as) == cs \cup as
EntriesOfConns(cs, as) == {<<"connection.deleted", c>> : c \in cs}
DeletionEntries(cs, as) == {<<"connection.deleted", c>> : c \in cs}
                             \cup {<<"authorization.deleted", a>> : a \in as}

DeleteState(cs, as) ==
  /\ conns' = [c \in Conns |-> IF c \in cs THEN DeletedConn ELSE conns[c]]
  /\ attempts' = [a \in Attempts |-> IF a \in as THEN DeletedAttempt(attempts[a])
                                               ELSE attempts[a]]
  /\ vault' = [s \in Slots |-> IF s \in ValuesOf(cs, as) THEN NoSecret ELSE vault[s]]
  /\ audit' = audit \cup DeletionEntries(cs, as)

AdminDelete ==
  /\ "adminDelete" \in Ops
  /\ fuel > 0
  /\ \E c \in Conns : ConnExists(conns[c]) /\ DeleteState({c}, AttemptsOf(c))
  /\ fuel' = fuel - 1
  /\ UNCHANGED <<connector, entitled, age, grants, h, aborts>>

DeleteConnector ==
  /\ "deleteConnector" \in Ops
  /\ fuel > 0
  /\ connector.present
  /\ DeleteState({c \in Conns : ConnExists(conns[c])}, {a \in Attempts : AttemptExists(attempts[a])})
  /\ connector' = [connector EXCEPT !.present = FALSE]
  /\ fuel' = fuel - 1
  /\ UNCHANGED <<entitled, age, grants, h, aborts>>

SaveConnector ==
  /\ "saveConnector" \in Ops
  /\ fuel > 0
  /\ connector.present
  /\ \E enabled \in BOOLEAN :
       connector' = [connector EXCEPT !.enabled = enabled, !.version = @ + 1]
  /\ fuel' = fuel - 1
  /\ UNCHANGED <<entitled, conns, attempts, vault, age, grants, audit, h, aborts>>

--------------------------------------------------------------------------------
DisconnectStep(p) ==
  \/ DisconnectAttempts(p) \/ DisconnectBlock(p) \/ DisconnectDecrypt(p)
  \/ DisconnectClaim(p) \/ DisconnectRevoke(p) \/ DisconnectDelete(p)

Administration == AdminDelete \/ DeleteConnector \/ SaveConnector
================================================================================
