----------------------------- MODULE MachineTokens -----------------------------
(***************************************************************************)
(* Tokens for one machine client (oauth/machine.ts) against the mutations  *)
(* of the client, its keys, its access and the resources                   *)
(* (domain/primitive-mutations.ts, machines/service.ts).  An assertion is  *)
(* verified against rows read without a lock, its marker is consumed in    *)
(* the replay store of ReplayStore, and a last transaction locks the rows  *)
(* one after the other, reads them again and commits the token.  Mutations *)
(* exclude each other by the configuration lock, but not the issuance, so  *)
(* they too are modelled row lock by row lock.                             *)
(***************************************************************************)
EXTENDS ReplayStore, Sequences

CONSTANTS
  Kids, Resources, None,
  Ordinary,    \* scopes that administrators created
  Reserved,    \* MACHINE_ONLY_SYSTEM_SCOPE_KEYS
  Mcp,         \* weldall:mcp, one of them
  MaxChanges,  \* bound: mutations begun
  MaxRequests  \* bound: token requests begun

ASSUME LimitsAreNat == {MaxChanges, MaxRequests} \subseteq Nat
ASSUME McpIsReserved == Mcp \in Reserved /\ Reserved \cap Ordinary = {}

Scopes == Ordinary \cup Reserved
Clients == [exists : BOOLEAN, enabled : BOOLEAN, resources : SUBSET Resources,
            scopes : SUBSET Scopes]
KeyRow == [status : {"absent", "active", "revoked"}, id : Nat]
ResourceRow == [status : {"absent", "disabled", "enabled"}, supports : SUBSET Ordinary]
Tables == [client : Clients, key : [Kids -> KeyRow], resource : [Resources -> ResourceRow]]

\* Rows that are locked: the client, its keys, resources, and the client's access to
\* a resource (MachineAllowedResource).
ClientRow == <<"client", None>>
Rows == {ClientRow} \cup ({"key"} \X Kids) \cup ({"resource", "access"} \X Resources)

\* A request's call of the replay store is the one with the request's name.
Requests == Calls
NoRequest == [pc |-> "idle", kid |-> None, id |-> 0, target |-> None, scopes |-> {},
              key |-> Never, expiresAt |-> Never, locks |-> {}]
NoClient == [exists |-> FALSE, enabled |-> FALSE, resources |-> {}, scopes |-> {}]
NoKey == [status |-> "absent", id |-> 0]
NoMutation == [todo |-> <<>>, held |-> {}, result |-> None]

VARIABLES
  db,       \* the committed tables
  tx,       \* the mutation that holds the configuration lock: the rows its statements
            \* still write, those it has written, and the tables it will commit
  req,      \* token requests
  ids,      \* ids given to key rows
  changes, started,
  tokens    \* history: tokens issued for an assertion with this key and expiry

machineVars == <<db, tx, req, ids, changes, started, tokens>>
allVars == <<vars, machineVars>>

MachineTypeOK ==
  /\ TypeOK
  /\ db \in Tables
  /\ tx.todo \in Seq(SUBSET Rows) /\ tx.held \subseteq Rows
  /\ tx.result \in Tables \cup {None}
  /\ \A q \in Requests :
       /\ req[q].pc \in {"idle", "authenticated", "consume", "client", "key", "resource", "access",
                         "read", "commit"}
       /\ req[q].locks \subseteq Rows
  /\ ids \in Nat /\ changes \in 0 .. MaxChanges /\ started \in 0 .. MaxRequests

MachineInit ==
  /\ Init
  /\ db \in [client : {[exists |-> TRUE, enabled |-> TRUE, resources |-> Resources, scopes |-> Scopes]},
             key : [Kids -> {[status |-> "active", id |-> 0]}],
             resource : [Resources -> {[status |-> "enabled", supports |-> Ordinary]}]]
  /\ tx = NoMutation
  /\ req = [q \in Requests |-> NoRequest]
  /\ ids = 1
  /\ changes \in 0 .. MaxChanges /\ started \in 0 .. MaxRequests
  /\ tokens = [k \in Keys |-> [e \in Instants |-> 0]]
--------------------------------------------------------------------------------
Shared(row) == \E q \in Requests : row \in req[q].locks
Goto(q, pc) == req' = [req EXCEPT ![q].pc = pc]
Refuse(q) == req' = [req EXCEPT ![q] = NoRequest]
KeyIsActive(kid) == db.key[kid].status = "active"

\* The rows of client and key are read, the assertion is verified with the key, and
\* the proof of possession is checked.  A target of None is Weldall itself.
Authenticate(q) ==
  /\ req[q].pc = "idle"
  /\ started < MaxRequests /\ started' = started + 1
  /\ \E kid \in Kids, target \in Resources \cup {None}, scopes \in (SUBSET Scopes) \ {{}},
        k \in Keys, e \in Instants :
       /\ db.client.exists /\ db.client.enabled /\ KeyIsActive(kid)
       /\ e > clock
       /\ req' = [req EXCEPT ![q] = [NoRequest EXCEPT !.pc = "authenticated", !.kid = kid,
                    !.id = db.key[kid].id, !.target = target, !.scopes = scopes,
                    !.key = k, !.expiresAt = e]]
  /\ UNCHANGED <<vars, db, tx, ids, changes, tokens>>

\* consumeReplay of the assertion; an assertion that expired meanwhile is refused.
ConsumeAssertion(q) ==
  /\ req[q].pc = "authenticated"
  /\ \/ /\ \E p \in Processes : ConsumeKey(q, p, req[q].key, req[q].expiresAt)
        /\ Goto(q, "consume")
     \/ /\ req[q].expiresAt <= clock
        /\ Refuse(q)
        /\ UNCHANGED vars
  /\ UNCHANGED <<db, tx, ids, changes, started, tokens>>

\* Faulty variant: a replay is noticed but does not end the request.
FirstOrReplay(q) == TRUE
FirstUse(q) == markers[req[q].key] = Never

\* The steps of the store on behalf of a request; "true" lets it go on.
Cleanup(q) ==
  /\ SelectExpired(q) \/ DeleteExpired(q)
  /\ UNCHANGED machineVars
Consumed(q) ==
  /\ Insert(q)
  /\ IF FirstUse(q) THEN Goto(q, "client") ELSE Refuse(q)
  /\ UNCHANGED <<db, tx, ids, changes, started, tokens>>
StoreFails(q) ==
  /\ Fail(q)
  /\ Refuse(q)
  /\ UNCHANGED <<db, tx, ids, changes, started, tokens>>
--------------------------------------------------------------------------------
\* FOR SHARE waits while the mutation holds a row exclusively.
Free(rows) == rows \cap tx.held = {}

\* Faulty variant: the rows are read without FOR SHARE.
ReadUnlocked(q, rows) == req[q].locks
Locked(q, rows) == req[q].locks \cup rows

Internal(q) == req[q].target = None /\ (Mcp \in req[q].scopes \/ req[q].scopes \subseteq Reserved)

\* FOR SHARE OF c, k takes the rows one after the other; a row that was deleted while
\* it waited is not found.
LockClient(q) ==
  /\ req[q].pc = "client"
  /\ Free({ClientRow})
  /\ IF db.client.exists /\ db.key[req[q].kid].status # "absent"
     THEN req' = [req EXCEPT ![q].locks = Locked(q, {ClientRow}), ![q].pc = "key"]
     ELSE Refuse(q)
  /\ UNCHANGED <<vars, db, tx, ids, changes, started, tokens>>

LockKey(q) ==
  LET rows == {<<"key", req[q].kid>>}
  IN /\ req[q].pc = "key"
     /\ Free(rows)
     /\ IF db.key[req[q].kid].status # "absent"
        THEN req' = [req EXCEPT ![q].locks = Locked(q, rows),
                                ![q].pc = IF Internal(q) THEN "read" ELSE "resource"]
        ELSE Refuse(q)
     /\ UNCHANGED <<vars, db, tx, ids, changes, started, tokens>>

LockResource(q) ==
  LET rows == {<<"resource", req[q].target>>}
  IN /\ req[q].pc = "resource"
     /\ Free(rows)
     /\ IF req[q].target # None /\ db.resource[req[q].target].status # "absent"
        THEN req' = [req EXCEPT ![q].locks = Locked(q, rows), ![q].pc = "access"]
        ELSE Refuse(q)
     /\ UNCHANGED <<vars, db, tx, ids, changes, started, tokens>>

LockAccess(q) ==
  LET rows == {<<"access", req[q].target>>}
  IN /\ req[q].pc = "access"
     /\ Free(rows)
     /\ IF req[q].target \in db.client.resources
        THEN req' = [req EXCEPT ![q].locks = Locked(q, rows), ![q].pc = "read"]
        ELSE Refuse(q)
     /\ UNCHANGED <<vars, db, tx, ids, changes, started, tokens>>

\* What a client may be granted, by the rows as they are committed.
Supported(q) ==
  IF Internal(q)
  THEN Reserved \cup IF Mcp \in req[q].scopes THEN db.client.scopes \ Reserved ELSE {}
  ELSE db.resource[req[q].target].supports

Grantable(q) ==
  /\ db.client.exists /\ db.client.enabled
  /\ db.key[req[q].kid] = [status |-> "active", id |-> req[q].id]
  /\ ~Internal(q) => /\ req[q].target \in db.client.resources
                     /\ db.resource[req[q].target].status = "enabled"
  /\ req[q].scopes \subseteq db.client.scopes \cap Supported(q)

\* Everything is read again under the locks and decided.
ReadAgain(q) ==
  /\ req[q].pc = "read"
  /\ IF Grantable(q) THEN Goto(q, "commit") ELSE Refuse(q)
  /\ UNCHANGED <<vars, db, tx, ids, changes, started, tokens>>

\* The audit entry is written and the transaction commits; the locks go with it.
Issue(q) ==
  /\ req[q].pc = "commit"
  /\ tokens' = [tokens EXCEPT ![req[q].key][req[q].expiresAt] = @ + 1]
  /\ Refuse(q)
  /\ UNCHANGED <<vars, db, tx, ids, changes, started>>

\* A statement or the audit entry fails, or the transaction loses a deadlock.
RollBack(q) ==
  /\ req[q].pc \in {"client", "key", "resource", "access", "read", "commit"}
  /\ Refuse(q)
  /\ UNCHANGED <<vars, db, tx, ids, changes, started, tokens>>
--------------------------------------------------------------------------------
\* A mutation takes the configuration lock and decides; other mutations wait, so
\* only its row locks and its commit are steps of their own.
Begin(result, todo) ==
  /\ tx = NoMutation
  /\ changes < MaxChanges /\ changes' = changes + 1
  /\ result # db
  /\ tx' = [todo |-> todo, held |-> {}, result |-> result]
  /\ UNCHANGED <<vars, db, req, started, tokens>>

KeysReconciled(active, id) == [kid \in Kids |->
  CASE kid \in active /\ ~KeyIsActive(kid) -> [status |-> "active", id |-> id]
    [] kid \notin active /\ KeyIsActive(kid) -> [db.key[kid] EXCEPT !.status = "revoked"]
    [] OTHER -> db.key[kid]]

\* The rows reconcileMachine writes, statement by statement: the client if it is
\* switched, the revoked keys, and if the access differs the client and the access.
ReconciledRows(enabled, active, resources, scopes) ==
  LET switched == db.client.enabled # enabled
      revoked == {kid \in Kids : KeyIsActive(kid)} \ active
      replaced == db.client.resources # resources \/ db.client.scopes # scopes
  IN IF ~db.client.exists THEN <<>>
     ELSE (IF switched THEN <<{ClientRow}>> ELSE <<>>)
          \o (IF revoked # {} THEN <<{"key"} \X revoked>> ELSE <<>>)
          \o (IF replaced THEN <<{ClientRow}, {"access"} \X db.client.resources>> ELSE <<>>)

Reconcilable(active, resources) ==
  /\ \A kid \in active : db.key[kid].status # "revoked"
  /\ \A r \in resources : \/ db.resource[r].status = "enabled"
                            \/ /\ db.resource[r].status = "disabled"
                               /\ r \in db.client.resources
Reconciled(tables, enabled, active, resources, scopes) ==
  [tables EXCEPT !.client = [exists |-> TRUE, enabled |-> enabled, resources |-> resources,
                             scopes |-> scopes],
                 !.key = KeysReconciled(active, ids)]

\* reconcileMachine: every administrative change of a machine but its deletion.
Reconcile ==
  /\ \E enabled \in BOOLEAN, active \in SUBSET Kids, resources \in SUBSET Resources,
        scopes \in SUBSET Scopes :
       /\ Reconcilable(active, resources)
       /\ Begin(Reconciled(db, enabled, active, resources, scopes),
                ReconciledRows(enabled, active, resources, scopes))
  /\ ids' = ids + 1

\* deleteMachine; keys and access go with the row.
DeleteMachine ==
  /\ db.client.exists
  /\ Begin([db EXCEPT !.client = NoClient, !.key = [kid \in Kids |-> NoKey]],
           <<{ClientRow}, {row \in Rows : row[1] \in {"key", "access"}}>>)
  /\ UNCHANGED ids

\* mutateResource: create, update or delete.  Native dependencies of skills, which
\* may forbid it, are AccessStore's.
SaveResource == \E r \in Resources, status \in {"disabled", "enabled"}, supports \in SUBSET Ordinary :
  /\ Begin([db EXCEPT !.resource[r] = [status |-> status, supports |-> supports]],
           IF db.resource[r].status = "absent" THEN <<>> ELSE <<{<<"resource", r>>}>>)
  /\ UNCHANGED ids

DeleteResource == \E r \in Resources :
  /\ db.resource[r].status # "absent" /\ r \notin db.client.resources
  /\ Begin([db EXCEPT !.resource[r] = [status |-> "absent", supports |-> {}]],
           <<{<<"resource", r>>}>>)
  /\ UNCHANGED ids

\* A plan of configuration as code changes a resource and the machine in one
\* transaction, so it can deadlock with an issuance.
ApplyPlan ==
  /\ \E r \in Resources, supports \in SUBSET Ordinary, resources \in SUBSET Resources,
        scopes \in SUBSET Scopes :
       LET active == {kid \in Kids : KeyIsActive(kid)}
           tables == [db EXCEPT !.resource[r] = [@ EXCEPT !.supports = supports]]
       IN /\ db.client.exists /\ db.resource[r].status # "absent"
          /\ Reconcilable(active, resources)
          /\ Begin(Reconciled(tables, db.client.enabled, active, resources, scopes),
                   <<{<<"resource", r>>}>>
                     \o ReconciledRows(db.client.enabled, active, resources, scopes))
  /\ UNCHANGED ids

\* The next statement gets its rows once nobody shares them.
WriteRows ==
  /\ tx # NoMutation /\ tx.todo # <<>>
  /\ \A row \in Head(tx.todo) : ~Shared(row)
  /\ tx' = [tx EXCEPT !.held = @ \cup Head(tx.todo), !.todo = Tail(@)]
  /\ UNCHANGED <<vars, db, req, ids, changes, started, tokens>>

CommitMutation ==
  /\ tx # NoMutation /\ tx.todo = <<>>
  /\ db' = tx.result /\ tx' = NoMutation
  /\ UNCHANGED <<vars, req, ids, changes, started, tokens>>

MutationFails ==
  /\ tx # NoMutation
  /\ tx' = NoMutation
  /\ UNCHANGED <<vars, db, req, ids, changes, started, tokens>>

MachineNext ==
  \/ Tick /\ UNCHANGED machineVars
  \/ \E q \in Requests : \/ Authenticate(q) \/ ConsumeAssertion(q) \/ Cleanup(q) \/ Consumed(q)
                          \/ StoreFails(q) \/ LockClient(q) \/ LockKey(q) \/ LockResource(q)
                          \/ LockAccess(q) \/ ReadAgain(q) \/ Issue(q) \/ RollBack(q)
  \/ Reconcile \/ DeleteMachine \/ SaveResource \/ DeleteResource \/ ApplyPlan
  \/ WriteRows \/ CommitMutation \/ MutationFails

MachineSpec == MachineInit /\ [][MachineNext]_allVars
--------------------------------------------------------------------------------
\* Whatever mutation runs meanwhile, a token commits only for a client, key, resource
\* and scopes that are still in force: "If a lifecycle change commits first, the state
\* below is read after it; if issuance locks first, that token commits before the
\* lifecycle change can commit" (machine.ts:180).
IssuedUnderCurrentAccess ==
  [][\A q \in Requests :
       req[q].pc = "commit" /\ req'[q].pc = "idle" /\ tokens' # tokens => Grantable(q)]_allVars

\* While it is valid an assertion buys one token, and no other with its key does,
\* although markers are consumed long before the transaction, whoever commits first.
AssertionBuysOneToken ==
  \A k \in Keys, d, e \in {i \in Instants : i > clock} :
    tokens[k][d] > 0 /\ tokens[k][e] > 0 => d = e /\ tokens[k][d] = 1
================================================================================
