------------------------ MODULE ConnectionAuthorization ------------------------
(***************************************************************************)
(* Connecting and reconnecting an account: startConnection with its        *)
(* cleanupAttempts, submitScopeSelection, completeConnection (the OAuth    *)
(* callback) and cancelAuthorizationAttempt.  Each handler is a chain of   *)
(* steps; a step is one transaction, one read or one provider call, and    *)
(* other handlers run between any two of them.                             *)
(***************************************************************************)
EXTENDS ConnectionStore

OpenStatus == {"SETUP", "AUTHORIZING", "PROCESSING", "NEEDS_REVOCATION",
               "REVOCATION_PENDING"}
AbandonableStatus == {"SETUP", "AUTHORIZING", "COMPLETED", "CANCELLED", "FAILED"}
OpenAttempts == {a \in Attempts : attempts[a].status \in OpenStatus /\ ~Expired(a)}

Reconnectable(r) == r.status \in {"READY", "RECONNECT_REQUIRED"}

--------------------------------------------------------------------------------
\* startConnection: first cleanupAttempts, then one transaction.

StartRead(p) ==
  /\ Begin(p, "start")
  /\ LET found == {a \in Attempts : attempts[a].status \in AbandonableStatus /\ Expired(a)}
     IN h' = [h EXCEPT ![p].pc = "startClean", ![p].todo = found,
                ![p].rows = [a \in Attempts |->
                   IF a \in found THEN attempts[a] ELSE UnusedAttempt]]
  /\ UNCHANGED <<connector, entitled, conns, attempts, vault, age, grants, audit, aborts>>

\* The attempt goes if its status is still the one read, with the payload read;
\* deleting a payload that is already gone fails the transaction and the request.
StartClean(p) ==
  \E a \in h[p].todo :
    LET seen == h[p].rows[a]
        removed == attempts[a].status = seen.status
        missing == removed /\ seen.payload /\ vault[a] = NoSecret
    IN /\ h[p].pc = "startClean"
       /\ IF removed /\ ~missing
          THEN /\ attempts' = [attempts EXCEPT ![a] = DeletedAttempt(@)]
               /\ vault' = IF seen.payload THEN [vault EXCEPT ![a] = NoSecret] ELSE vault
          ELSE UNCHANGED <<attempts, vault>>
       /\ IF missing THEN Finish(p)
          ELSE h' = [h EXCEPT ![p].todo = @ \ {a},
                       ![p].rows = [@ EXCEPT ![a] = UnusedAttempt]]
       /\ UNCHANGED <<connector, entitled, conns, age, grants, audit, fuel, aborts>>

StartReady(p) ==
  /\ h[p].pc = "startClean"
  /\ h[p].todo = {}
  /\ h' = [h EXCEPT ![p] = [Idle EXCEPT !.pc = "startCommit"]]
  /\ UNCHANGED <<connector, entitled, conns, attempts, vault, age, grants, audit, fuel, aborts>>

NameTaken(n) == \E c \in Conns : ConnExists(conns[c]) /\ conns[c].name = n

\* c = None starts a new connection under a free name, otherwise a reconnect.
StartCommit(p) ==
  /\ h[p].pc = "startCommit"
  /\ ConnectorOpen
  /\ Cardinality(OpenAttempts) < MaxOpen
  /\ \E a \in Attempts, c \in Conns \cup {None}, n \in Names :
       /\ attempts[a].status = "UNUSED"
       /\ IF c = None THEN ~NameTaken(n) ELSE Reconnectable(conns[c]) /\ n = conns[c].name
       /\ attempts' = [attempts EXCEPT ![a] =
            [UnusedAttempt EXCEPT !.status = "SETUP", !.conn = c, !.name = n,
               !.connVersion = IF c = None THEN 0 ELSE conns[c].version,
               !.connectorVersion = connector.version]]
       /\ age' = [age EXCEPT ![a] = "live"]
  /\ Finish(p)
  /\ UNCHANGED <<connector, entitled, conns, vault, grants, audit, fuel, aborts>>

\* Any refusal of the transaction ends the request.
StartRefused(p) ==
  /\ h[p].pc = "startCommit"
  /\ Finish(p)
  /\ UNCHANGED <<connector, entitled, conns, attempts, vault, age, grants, audit, fuel, aborts>>

--------------------------------------------------------------------------------
\* submitScopeSelection

Submittable(a) ==
  /\ ConnectorOpen
  /\ attempts[a].status = "SETUP"
  /\ ~Expired(a)
  /\ attempts[a].connectorVersion = connector.version

SubmitRead(p) ==
  /\ Begin(p, "submit")
  /\ \E a \in Attempts :
       /\ Submittable(a)
       /\ h' = [h EXCEPT ![p].pc = "submit", ![p].att = a, ![p].arow = attempts[a],
                         ![p].connector = connector]
  /\ UNCHANGED <<connector, entitled, conns, attempts, vault, age, grants, audit, aborts>>

SubmitCommit(p) ==
  LET a == h[p].att
  IN /\ h[p].pc = "submit"
     /\ IF Submittable(a) /\ attempts[a] = h[p].arow /\ connector = h[p].connector
        THEN /\ attempts' = [attempts EXCEPT ![a].status = "AUTHORIZING",
                               ![a].state = TRUE, ![a].payload = TRUE]
             /\ vault' = [vault EXCEPT ![a] = OAuthPayload]
        ELSE UNCHANGED <<attempts, vault>>
     /\ Finish(p)
     /\ UNCHANGED <<connector, entitled, conns, age, grants, audit, fuel, aborts>>

--------------------------------------------------------------------------------
\* completeConnection: the callback of the provider, found by its state value.

\* Faulty variant: a state value that was consumed is accepted again.
ClaimableAgain(a) ==
  /\ attempts[a].status \in {"AUTHORIZING", "PROCESSING"}
  /\ attempts[a].payload
  /\ ~Expired(a)
  /\ connector.present
  /\ connector.enabled
  /\ attempts[a].connectorVersion = connector.version

Claimable(a) ==
  /\ attempts[a].status = "AUTHORIZING"
  /\ attempts[a].state
  /\ attempts[a].payload
  /\ ~Expired(a)
  /\ connector.present
  /\ connector.enabled
  /\ attempts[a].connectorVersion = connector.version

\* The owner's scopes are read here and never again by this handler.
CallbackRead(p) ==
  /\ Begin(p, "callback")
  /\ entitled
  /\ \E a \in Attempts :
       /\ Claimable(a)
       /\ h' = [h EXCEPT ![p].pc = "claim", ![p].att = a, ![p].arow = attempts[a]]
  /\ UNCHANGED <<connector, entitled, conns, attempts, vault, age, grants, audit, aborts>>

\* The state is consumed before the code is used; a provider-side denial closes
\* the attempt.
CallbackClaim(p) ==
  LET a == h[p].att
      valid == Claimable(a) /\ attempts[a].connectorVersion = h[p].arow.connectorVersion
  IN /\ h[p].pc = "claim"
     /\ \/ /\ valid
           /\ attempts' = [attempts EXCEPT ![a].status = "PROCESSING", ![a].state = FALSE]
           /\ Goto(p, "exchange")
           /\ UNCHANGED vault
        \/ /\ valid
           /\ CloseAttempt(a, "CANCELLED")
           /\ Finish(p)
        \/ /\ ~valid
           /\ Finish(p)
           /\ UNCHANGED <<attempts, vault>>
     /\ UNCHANGED <<connector, entitled, conns, age, grants, audit, fuel, aborts>>

\* The code exchange: refused, or a fresh grant whose consent is accepted
\* ("received") or not ("rejected").
Exchange(p) ==
  /\ h[p].pc = "exchange"
  /\ \/ /\ Goto(p, "exchangeFailed")
        /\ UNCHANGED grants
     \/ \E g \in Grants, answer \in {"received", "rejected"} :
          /\ grants[g].status = "unissued"
          /\ grants' = [grants EXCEPT ![g].status = "active", ![g].attempt = h[p].att,
                                      ![g].gen = 1]
          /\ h' = [h EXCEPT ![p].pc = answer, ![p].cred = [grant |-> g, gen |-> 1]]
  /\ UNCHANGED <<connector, entitled, conns, attempts, vault, age, audit, fuel, aborts>>

StillProcessing(a) == attempts[a].status = "PROCESSING" /\ attempts[a].payload

ExchangeFailed(p) ==
  LET a == h[p].att
  IN /\ h[p].pc = "exchangeFailed"
     /\ IF StillProcessing(a)
        THEN CloseAttempt(a, "FAILED") /\ Log("authorization.failed", a)
        ELSE UNCHANGED <<attempts, vault, audit>>
     /\ Finish(p)
     /\ UNCHANGED <<connector, entitled, conns, age, grants, fuel, aborts>>

\* prepareCredentials: encryption fails, so the tokens cannot be stored.
SealFails(p) ==
  /\ h[p].pc \in {"received", "rejected", "commit"}
  /\ Goto(p, "unstored")
  /\ UNCHANGED <<connector, entitled, conns, attempts, vault, age, grants, audit, fuel, aborts>>

\* Received tokens are kept in the attempt before anything is validated.
Retain(p) ==
  LET a == h[p].att
  IN /\ h[p].pc \in {"received", "rejected"}
     /\ IF StillProcessing(a)
        THEN /\ attempts' = [attempts EXCEPT ![a].status = "NEEDS_REVOCATION"]
             /\ vault' = [vault EXCEPT ![a] = Sealed(h[p].cred)]
             /\ IF h[p].pc = "received"
                THEN Goto(p, "retained") /\ UNCHANGED audit
                ELSE Finish(p) /\ Log("authorization.failed", a)
        ELSE Goto(p, "unstored") /\ UNCHANGED <<attempts, vault, audit>>
     /\ UNCHANGED <<connector, entitled, conns, age, grants, fuel, aborts>>

\* revokeUnstoredCredentials: the provider call, then its transaction.
RevokeUnstored(p) ==
  /\ h[p].pc = "unstored"
  /\ \E outcome \in {"revoked", "unsupported", "failed"} :
       /\ RevokeOutcome(h[p].cred, outcome)
       /\ h' = [h EXCEPT ![p].pc = "unstoredMark", ![p].ok = (outcome = "revoked")]
  /\ UNCHANGED <<connector, entitled, conns, attempts, vault, age, audit, fuel, aborts>>

MarkUnstored(p) ==
  LET a == h[p].att
      closable == {"PROCESSING"} \cup IF h[p].ok THEN {"NEEDS_REVOCATION"} ELSE {}
  IN /\ h[p].pc = "unstoredMark"
     /\ IF attempts[a].status \in closable /\ attempts[a].payload
        THEN CloseAttempt(a, "FAILED")
        ELSE UNCHANGED <<attempts, vault>>
     /\ Log(IF h[p].ok THEN "authorization.credentials_revoked"
                       ELSE "authorization.revocation_unconfirmed", a)
     /\ Finish(p)
     /\ UNCHANGED <<connector, entitled, conns, age, grants, fuel, aborts>>

\* Faulty variant: the connection to reconnect is not checked again.
CompletableAnyhow(a) ==
  /\ connector.present /\ connector.enabled
  /\ attempts[a].status = "NEEDS_REVOCATION"
  /\ attempts[a].payload
  /\ ~Expired(a)
  /\ attempts[a].connectorVersion = connector.version

\* readCompletion: the attempt and the connection it reconnects, checked as one.
Completable(a) ==
  /\ connector.present /\ connector.enabled
  /\ attempts[a].status = "NEEDS_REVOCATION"
  /\ attempts[a].payload
  /\ ~Expired(a)
  /\ attempts[a].connectorVersion = connector.version
  /\ LET c == attempts[a].conn
     IN c # None => Reconnectable(conns[c]) /\ conns[c].version = attempts[a].connVersion

\* Another account, a selection or a grant the provider module refuses: any
\* observation may end in cleanup.  A deleted attempt ends the request silently.
ReadCompletion(p) ==
  LET a == h[p].att
  IN /\ h[p].pc = "retained"
     /\ \/ /\ Completable(a)
           /\ h' = [h EXCEPT ![p].pc = "commit", ![p].arow = attempts[a],
                             ![p].connector = connector]
        \/ Goto(p, "cleanupRequired")
        \/ /\ ~AttemptExists(attempts[a])
           /\ Finish(p)
     /\ UNCHANGED <<connector, entitled, conns, attempts, vault, age, grants, audit, fuel, aborts>>

\* The tokens and the attempt's end go into connection c in one transaction.
PutCredentials(p, a, c, version) ==
  /\ conns' = [conns EXCEPT ![c] = [status |-> "READY", version |-> version + 1,
                                    refreshBy |-> None, name |-> attempts[a].name]]
  /\ attempts' = [attempts EXCEPT ![a].status = "COMPLETED", ![a].conn = c,
                                  ![a].payload = FALSE]
  /\ vault' = [vault EXCEPT ![a] = NoSecret, ![c] = Sealed(h[p].cred)]
  /\ grants' = [g \in Grants |->
       IF g = h[p].cred.grant THEN [grants[g] EXCEPT !.home = c]
       ELSE [grants[g] EXCEPT !.replaced = @ \/ grants[g].home = c]]
  /\ Finish(p)

\* The commit creates the connection or moves the tokens into the existing one;
\* a check that fails or a rolled-back transaction ends in cleanup.
CompleteCommit(p) ==
  LET a == h[p].att
      prior == attempts[a].conn
      valid == /\ Completable(a)
               /\ attempts[a] = h[p].arow
               /\ connector = h[p].connector
  IN /\ h[p].pc = "commit"
     /\ \/ /\ valid
           /\ prior # None
           /\ PutCredentials(p, a, prior, conns[prior].version)
           /\ Log("connection.reconnected", prior)
        \/ /\ valid
           /\ prior = None
           /\ ~NameTaken(attempts[a].name)
           /\ \E c \in Conns : /\ conns[c].status = "UNUSED"
                               /\ PutCredentials(p, a, c, 1)
                               /\ Log("connection.connected", c)
        \/ /\ Goto(p, "cleanupRequired")
           /\ UNCHANGED <<conns, attempts, vault, grants, audit>>
        \/ /\ ~AttemptExists(attempts[a])
           /\ Finish(p)
           /\ UNCHANGED <<conns, attempts, vault, grants, audit>>
     /\ UNCHANGED <<connector, entitled, age, fuel, aborts>>

CleanupRequired(p) ==
  /\ h[p].pc = "cleanupRequired"
  /\ Log("authorization.cleanup_required", h[p].att)
  /\ Finish(p)
  /\ UNCHANGED <<connector, entitled, conns, attempts, vault, age, grants, fuel, aborts>>

--------------------------------------------------------------------------------
\* cancelAuthorizationAttempt, by the owner or an administrator.

\* Faulty variant: an attempt whose revocation failed once is closed as it is.
HoldsUnmarked(r) == r.status = "NEEDS_REVOCATION" /\ r.payload
HoldsRetained(r) == r.status \in {"NEEDS_REVOCATION", "REVOCATION_PENDING"} /\ r.payload

CancelRead(p) ==
  /\ Begin(p, "cancel")
  /\ \E a \in Attempts :
       /\ AttemptExists(attempts[a])
       /\ attempts[a].status \notin {"COMPLETED", "PROCESSING"}
       /\ h' = [h EXCEPT ![p].att = a, ![p].arow = attempts[a], ![p].connector = connector,
                  ![p].pc = IF HoldsRetained(attempts[a]) THEN "cancelDecrypt"
                                                         ELSE "cancelFinish"]
  /\ UNCHANGED <<connector, entitled, conns, attempts, vault, age, grants, audit, aborts>>

\* A value that is gone or cannot be unwrapped ends the request.
CancelDecrypt(p) ==
  LET a == h[p].att
  IN /\ h[p].pc = "cancelDecrypt"
     /\ \/ /\ vault[a] # NoSecret
           /\ h' = [h EXCEPT ![p].pc = "cancelMark", ![p].cred = vault[a].cred]
        \/ Finish(p)
     /\ UNCHANGED <<connector, entitled, conns, attempts, vault, age, grants, audit, fuel, aborts>>

CancelMark(p) ==
  LET a == h[p].att
  IN /\ h[p].pc = "cancelMark"
     /\ IF attempts[a] = h[p].arow /\ connector = h[p].connector
        THEN /\ attempts' = [attempts EXCEPT ![a].status = "REVOCATION_PENDING",
                                             ![a].state = FALSE]
             /\ h' = [h EXCEPT ![p].pc = IF h[p].cred = NoCred THEN "cancelFinish"
                                                               ELSE "cancelRevoke",
                               ![p].arow.status = "REVOCATION_PENDING"]
        ELSE Finish(p) /\ UNCHANGED attempts
     /\ UNCHANGED <<connector, entitled, conns, vault, age, grants, audit, fuel, aborts>>

\* A provider without revocation counts as done, with a warning to the owner.
CancelRevoke(p) ==
  /\ h[p].pc = "cancelRevoke"
  /\ \E outcome \in {"revoked", "unsupported", "failed"} :
       /\ RevokeOutcome(h[p].cred, outcome)
       /\ h' = [h EXCEPT ![p].pc = IF outcome = "failed" THEN "cancelUnconfirmed"
                                                         ELSE "cancelFinish",
                         ![p].ok = (outcome = "unsupported")]
  /\ UNCHANGED <<connector, entitled, conns, attempts, vault, age, audit, fuel, aborts>>

CancelUnconfirmed(p) ==
  /\ h[p].pc = "cancelUnconfirmed"
  /\ Log("authorization.revocation_unconfirmed", h[p].att)
  /\ Finish(p)
  /\ UNCHANGED <<connector, entitled, conns, attempts, vault, age, grants, fuel, aborts>>

CancelFinish(p) ==
  LET a == h[p].att
      arow == h[p].arow
  IN /\ h[p].pc = "cancelFinish"
     /\ IF /\ attempts[a].status = arow.status
           /\ attempts[a].payload = arow.payload
        THEN /\ CloseAttempt(a, "CANCELLED")
             /\ Log(IF h[p].ok THEN "authorization.cancelled_revocation_unsupported"
                               ELSE "authorization.cancelled", a)
        ELSE UNCHANGED <<attempts, vault, audit>>
     /\ Finish(p)
     /\ UNCHANGED <<connector, entitled, conns, age, grants, fuel, aborts>>

--------------------------------------------------------------------------------
AuthorizationStep(p) ==
  \/ StartClean(p) \/ StartReady(p) \/ StartCommit(p) \/ StartRefused(p)
  \/ SubmitCommit(p)
  \/ CallbackClaim(p) \/ Exchange(p) \/ ExchangeFailed(p) \/ SealFails(p)
  \/ Retain(p) \/ RevokeUnstored(p) \/ MarkUnstored(p) \/ ReadCompletion(p)
  \/ CompleteCommit(p) \/ CleanupRequired(p)
  \/ CancelDecrypt(p) \/ CancelMark(p) \/ CancelRevoke(p) \/ CancelUnconfirmed(p)
  \/ CancelFinish(p)

AuthorizationBegin(p) ==
  StartRead(p) \/ SubmitRead(p) \/ CallbackRead(p) \/ CancelRead(p)
================================================================================
