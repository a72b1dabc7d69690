--------------------------- MODULE SharedConnections ---------------------------
(***************************************************************************)
(* A shared (SCOPED) connection of an Atlassian MCP connector: whoever     *)
(* holds all of its use scopes may use the service credential stored with  *)
(* it.  Administrators save and rotate it (connectors/core/                *)
(* shared-connections.ts), and its connector, while it is in use.          *)
(*                                                                         *)
(* Every write is one serializable transaction that compares the versions  *)
(* its administrator has seen, and versions only grow: a write that comes  *)
(* late is refused and leaves no trace, so that the reads, the provider's  *)
(* check and the sealing ahead of a transaction are part of its action.    *)
(* The status of a shared connection stays READY: its credential is not    *)
(* refreshed, its selection cannot change, and it is not disconnected.     *)
(***************************************************************************)
EXTENDS Naturals

CONSTANTS
  Actors,          \* users and machines
  UseScopes,       \* scopes a shared connection may require
  Credentials,     \* API keys of service accounts
  NoCredential,
  MaxChanges       \* bound: writes and changes of grants

ASSUME NoCredentialIsNew == NoCredential \notin Credentials
ASSUME ChangesAreBounded == MaxChanges \in Nat

VARIABLES
  row,        \* the connection; its version is 0 before it is created
  sealed,     \* the value its credentialId references, the same one for its whole life
  connector,  \* enabled, and the version every write of it increments
  holds,      \* external: the scopes each actor holds
  changes     \* what is left of the bound

sharedVars == <<row, sealed, connector, holds, changes>>

Row == [version : Nat, exists : BOOLEAN, enabled : BOOLEAN, useScopes : SUBSET UseScopes]
NoRow == [version |-> 0, exists |-> FALSE, enabled |-> FALSE, useScopes |-> {}]

SharedTypeOK ==
  /\ row \in Row /\ sealed \in Credentials \cup {NoCredential}
  /\ connector \in [version : Nat, enabled : BOOLEAN]
  /\ holds \in [Actors -> SUBSET UseScopes] /\ changes \in 0 .. MaxChanges

SharedInit ==
  /\ row = NoRow /\ sealed = NoCredential
  /\ connector = [version |-> 1, enabled |-> TRUE]
  /\ holds = [a \in Actors |-> UseScopes]
  /\ changes = MaxChanges
--------------------------------------------------------------------------------
\* resolve of prepareConnectionAccess, with authorize of authorizeConnectionUse.
Usable(a) ==
  /\ row.exists /\ row.enabled /\ sealed # NoCredential
  /\ connector.enabled
  /\ row.useScopes \subseteq holds[a]

Change == changes > 0 /\ changes' = changes - 1

\* createSharedConnection: a credential is needed to enable it.
Create ==
  /\ Change
  /\ row = NoRow
  /\ \E c \in Credentials \cup {NoCredential}, scopes \in (SUBSET UseScopes) \ {{}},
        enabled \in BOOLEAN :
       /\ enabled => c # NoCredential
       /\ row' = [version |-> 1, exists |-> TRUE, enabled |-> enabled, useScopes |-> scopes]
       /\ sealed' = c
  /\ UNCHANGED <<connector, holds>>

\* saveSharedConnectionConfiguration of an existing connection, for changed use scopes,
\* for enabling and disabling, and for configuration as code.
SaveConfiguration ==
  /\ Change
  /\ row.exists
  /\ \E scopes \in (SUBSET UseScopes) \ {{}}, enabled \in BOOLEAN :
       /\ <<scopes, enabled>> # <<row.useScopes, row.enabled>>
       /\ enabled => sealed # NoCredential
       /\ row' = [row EXCEPT !.useScopes = scopes, !.enabled = enabled, !.version = @ + 1]
  /\ UNCHANGED <<sealed, connector, holds>>

\* rotateSharedConnectionCredential: the value is replaced under its old id.
Rotate ==
  /\ Change
  /\ row.exists
  /\ \E c \in Credentials \ {sealed} : sealed' = c
  /\ row' = [row EXCEPT !.version = @ + 1]
  /\ UNCHANGED <<connector, holds>>

\* deleteConnectionState.  A connection created later has another id.
Delete ==
  /\ Change
  /\ row.exists
  /\ row' = [row EXCEPT !.exists = FALSE]
  /\ sealed' = NoCredential
  /\ UNCHANGED <<connector, holds>>

\* The connector is saved.
SaveConnector ==
  /\ Change
  /\ \E enabled \in BOOLEAN :
       connector' = [version |-> connector.version + 1, enabled |-> enabled]
  /\ UNCHANGED <<row, sealed, holds>>

\* An actor gains or loses a scope, or a machine its key.
ChangeGrants ==
  /\ Change
  /\ \E a \in Actors, s \in UseScopes :
       holds' = [holds EXCEPT ![a] = IF s \in @ THEN @ \ {s} ELSE @ \cup {s}]
  /\ UNCHANGED <<row, sealed, connector>>

AdministerShared == Create \/ SaveConfiguration \/ Rotate \/ Delete \/ SaveConnector \/ ChangeGrants
================================================================================
