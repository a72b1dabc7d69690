---------------------------- MODULE ConnectionStore ----------------------------
(***************************************************************************)
(* The state that the managed-connection handlers of apps/weldall share:   *)
(* the Connector, Connection, ConnectionAuthorization and EncryptedValue   *)
(* tables, the OAuth provider's side of every grant, the audit log, and    *)
(* one record per running request handler.                                 *)
(*                                                                         *)
(* One connector and one owner are modelled: every operation reaches its   *)
(* rows through that owner and connector, and rows of others are never     *)
(* read.  A row that was never inserted has status "UNUSED", a deleted one *)
(* "DELETED"; ids are UUIDs or cuids and are never reused.                 *)
(*                                                                         *)
(* Every runConnectorTransaction is SERIALIZABLE, so a transaction is one  *)
(* action; what a handler read before it is in the handler's record.       *)
(***************************************************************************)
EXTENDS Naturals, FiniteSets

CONSTANTS
  Handlers,    \* slots for concurrently running requests
  Conns,       \* connection ids
  Attempts,    \* authorization attempt ids
  Grants,      \* provider grants: one per successful code exchange
  Names,       \* connection names an owner may choose
  None,        \* no id, no name, no grant
  MaxOpen,     \* open attempts an owner may have (10 in the code)
  Ops,         \* the operations this instance runs
  Fuel,        \* bound: operations started in one behaviour
  MaxAborts    \* bound: handlers that die in one behaviour

ASSUME NoneIsNothing == None \notin Handlers \cup Conns \cup Attempts \cup Grants \cup Names
ASSUME IdsDistinct == Conns \cap Attempts = {}
ASSUME BoundsAreNumbers == Fuel \in Nat /\ MaxAborts \in Nat

Slots == Conns \cup Attempts    \* an encrypted value belongs to exactly one row

ConnStatus == {"UNUSED", "DELETED", "READY", "REFRESHING",
               "RECONNECT_REQUIRED", "REVOCATION_PENDING"}
AttemptStatus == {"UNUSED", "DELETED", "SETUP", "AUTHORIZING", "PROCESSING",
                  "NEEDS_REVOCATION", "REVOCATION_PENDING", "COMPLETED",
                  "CANCELLED", "FAILED"}

\* refreshBy stands for refreshStartedAt: the handler whose claim set the
\* column, None for null.  Two claims never share a timestamp.
ConnRow == [status : ConnStatus, version : Nat,
            refreshBy : Handlers \cup {None}, name : Names \cup {None}]

\* state and payload: whether stateHash and payloadId are non-null.
AttemptRow == [status : AttemptStatus, conn : Conns \cup {None},
               connVersion : Nat, connectorVersion : Nat,
               name : Names \cup {None}, state : BOOLEAN, payload : BOOLEAN]

ConnectorRow == [present : BOOLEAN, enabled : BOOLEAN, version : Nat]

\* A provider credential: the grant and the generation of its tokens.
Cred == [grant : Grants \cup {None}, gen : Nat]
NoCred == [grant |-> None, gen |-> 0]

\* Plaintext of an encrypted value.  An attempt's payload is "oauth" until the
\* credentials of its exchange are retained in it.
Secret == [kind : {"none", "oauth", "credentials"}, cred : Cred]
NoSecret == [kind |-> "none", cred |-> NoCred]
OAuthPayload == [kind |-> "oauth", cred |-> NoCred]
Sealed(c) == [kind |-> "credentials", cred |-> c]

UnusedConn == [status |-> "UNUSED", version |-> 0, refreshBy |-> None, name |-> None]
DeletedConn == [UnusedConn EXCEPT !.status = "DELETED"]
UnusedAttempt == [status |-> "UNUSED", conn |-> None, connVersion |-> 0,
                  connectorVersion |-> 0, name |-> None,
                  state |-> FALSE, payload |-> FALSE]

\* The provider's side: the attempt whose code was exchanged, the generation of
\* the current tokens, and whether these were presented for a refresh that got
\* no answer.  home and replaced are history: the connection that took the
\* credential, and whether a reconnect has put another one in its place.
Grant == [status : {"unissued", "active", "revoked"},
          attempt : Attempts \cup {None}, gen : Nat, spent : BOOLEAN,
          home : Conns \cup {None}, replaced : BOOLEAN]
NoGrant == [status |-> "unissued", attempt |-> None, gen |-> 0, spent |-> FALSE,
            home |-> None, replaced |-> FALSE]

Phase == {"idle", "startClean", "startCommit", "submit",
          "claim", "exchange", "exchangeFailed", "rejected", "received",
          "retained", "commit", "unstored", "unstoredMark", "cleanupRequired",
          "cancelDecrypt", "cancelMark", "cancelRevoke", "cancelUnconfirmed",
          "cancelFinish",
          "accessDecrypt", "accessClaim", "refresh", "refreshCommit",
          "refreshFailed", "grantCheck", "useCheck", "assertCurrent", "dispatch",
          "disconnectAttempts", "disconnectBlock", "disconnectDecrypt",
          "disconnectClaim", "disconnectRevoke"}

AuditOp ==
  {"authorization.failed", "authorization.credentials_revoked",
   "authorization.revocation_unconfirmed", "authorization.cleanup_required",
   "authorization.cancelled", "authorization.cancelled_revocation_unsupported",
   "authorization.deleted",
   "connection.connected", "connection.reconnected", "connection.refreshed",
   "connection.deleted", "refresh.transient_failure", "refresh.outcome_uncertain",
   "disconnect.blocked", "disconnect.deleted_revocation_confirmed",
   "disconnect.deleted_revocation_unconfirmed"}

\* A handler's variables: what it selected, what it read, what it holds.
Local == [pc : Phase, att : Attempts \cup {None}, conn : Conns \cup {None},
          arow : AttemptRow, row : ConnRow, connector : ConnectorRow,
          rows : [Attempts -> AttemptRow], todo : SUBSET Attempts,
          creds : SUBSET Cred, cred : Cred, ok : BOOLEAN]

NoConnector == [present |-> FALSE, enabled |-> FALSE, version |-> 0]
Idle == [pc |-> "idle", att |-> None, conn |-> None, arow |-> UnusedAttempt,
         row |-> UnusedConn, connector |-> NoConnector,
         rows |-> [a \in Attempts |-> UnusedAttempt], todo |-> {},
         creds |-> {}, cred |-> NoCred, ok |-> FALSE]

VARIABLES
  connector,   \* the Connector row
  entitled,    \* the owner holds the connector's required scopes and may log in
  conns,       \* Connection rows
  attempts,    \* ConnectionAuthorization rows
  vault,       \* EncryptedValue rows, by the row that references them
  age,         \* time: of an attempt against expiresAt, of a refresh claim
  grants,      \* the provider's state
  audit,       \* audit entries <<operation, subject>>
  h,           \* the handlers
  fuel, aborts \* what is left of the two bounds

vars == <<connector, entitled, conns, attempts, vault, age, grants, audit, h,
          fuel, aborts>>
--------------------------------------------------------------------------------
ConnExists(r) == r.status \notin {"UNUSED", "DELETED"}
AttemptExists(r) == r.status \notin {"UNUSED", "DELETED"}

\* assertConnectorEnabled and assertConnectorAccess for the live actor.
ConnectorOpen == connector.present /\ connector.enabled /\ entitled

\* age is "live" before expiresAt, "late" after it, and "overdue" 30 s later;
\* for a connection it is "late" 30 s after refreshStartedAt.
Ages == {"live", "late", "overdue"}
Expired(a) == age[a] # "live"
Stale(c) == age[c] # "live"

Begin(p, op) == /\ op \in Ops
                /\ h[p].pc = "idle"
                /\ fuel > 0
                /\ fuel' = fuel - 1
Finish(p) == h' = [h EXCEPT ![p] = Idle]
Goto(p, pc) == h' = [h EXCEPT ![p].pc = pc]

Log(op, subject) == audit' = audit \cup {<<op, subject>>}

\* Faulty variants of CloseAttempt: the ciphertext stays; a status that only
\* reads report is stored.
CloseAttemptKeepingValue(a, status) ==
  /\ attempts' = [attempts EXCEPT ![a].status = status, ![a].state = FALSE,
                                  ![a].payload = FALSE]
  /\ UNCHANGED vault
CloseAttemptAsExpired(a, status) ==
  /\ attempts' = [attempts EXCEPT ![a].status = IF Expired(a) THEN "EXPIRED" ELSE status,
                                  ![a].state = FALSE, ![a].payload = FALSE]
  /\ vault' = [vault EXCEPT ![a] = NoSecret]

\* clearAuthorizationPayload together with the status the caller sets.
CloseAttempt(a, status) ==
  /\ attempts' = [attempts EXCEPT ![a].status = status, ![a].state = FALSE,
                                  ![a].payload = FALSE]
  /\ vault' = [vault EXCEPT ![a] = NoSecret]

\* A deleted attempt keeps the connection it belonged to, for the properties.
DeletedAttempt(r) == [UnusedAttempt EXCEPT !.status = "DELETED", !.conn = r.conn]

AttemptsOf(c) == {a \in Attempts : AttemptExists(attempts[a]) /\ attempts[a].conn = c}

\* What the provider answers to a revocation request for credential c.  Tokens
\* of an earlier generation, a lost answer and a provider without revocation
\* leave the outcome unconfirmed; only "revoked" is proof.
RevokeOutcome(c, outcome) ==
  /\ outcome \in {"revoked", "unsupported", "failed"}
  /\ \/ /\ outcome \in {"revoked", "failed"}
        /\ c.grant # None
        /\ grants[c.grant].status = "active"
        /\ c.gen = grants[c.grant].gen
        /\ grants' = [grants EXCEPT ![c.grant].status = "revoked"]
     \/ /\ outcome \in {"unsupported", "failed"}
        /\ UNCHANGED grants

\* The tables, the provider's grants and what handlers keep across an await have their
\* types.
TypeOK ==
  /\ connector \in ConnectorRow
  /\ entitled \in BOOLEAN
  /\ conns \in [Conns -> ConnRow]
  /\ attempts \in [Attempts -> AttemptRow]
  /\ vault \in [Slots -> Secret]
  /\ age \in [Slots -> Ages]
  /\ grants \in [Grants -> Grant]
  /\ audit \subseteq AuditOp \X Slots
  /\ h \in [Handlers -> Local]
  /\ fuel \in Nat
  /\ aborts \in Nat

\* The database before anyone connected; the connector is configured and open.
Init ==
  /\ connector = [present |-> TRUE, enabled |-> TRUE, version |-> 1]
  /\ entitled = TRUE
  /\ conns = [c \in Conns |-> UnusedConn]
  /\ attempts = [a \in Attempts |-> UnusedAttempt]
  /\ vault = [s \in Slots |-> NoSecret]
  /\ age = [s \in Slots |-> "live"]
  /\ grants = [g \in Grants |-> NoGrant]
  /\ audit = {}
  /\ h = [p \in Handlers |-> Idle]
  /\ fuel = Fuel
  /\ aborts = MaxAborts
================================================================================
