------------------------------- MODULE McpBroker -------------------------------
(***************************************************************************)
(* MCP operations over a shared connection: executeMcpOperation of         *)
(* mcp/broker.ts and cachedMcpTools of mcp/discovery.ts in one process,    *)
(* with authorizeConnectionUse of connectors/core/authorization.ts around  *)
(* them and the tool cache among them.  An operation that misses the cache *)
(* starts a load with its own connection in hand, and others join it.      *)
(*                                                                         *)
(* The database is shared with other processes, whose operations change    *)
(* nothing the model has.  The quota per minute and the audit entries are  *)
(* left out, and the requests of a session are one.  An operation's signal *)
(* may abort at every await, which ends it (OperationFails, Reject).       *)
(***************************************************************************)
EXTENDS McpToolCache, SharedConnections

CONSTANTS
  MaxOperations,   \* 4 per connection in the code, 100 in all
  MaxRequests      \* bound: operations begun

ASSUME OperationsBounded == MaxOperations \in Nat \ {0} /\ MaxRequests \in Nat
ASSUME KeysAreVersions ==
  /\ Keys \subseteq Nat \X Nat
  /\ (1 .. MaxChanges + 1) \X (1 .. MaxChanges + 1) \subseteq Keys   \* what writes reach

VARIABLES
  op,       \* the operations: authorized for whom, and with what in hand
  flight,   \* what each load took from the operation that began it
  catalog,  \* the credential the stored catalog of each key was listed with
  total,    \* the counter of operations
  requests  \* what is left of the bound

brokerVars == <<op, flight, catalog, total, requests>>
vars == <<cacheVars, sharedVars, brokerVars>>

Listed == Credentials \cup {NoCredential}
InHand == [actor : Actors \cup {None}, version : Nat, connector : Nat, credential : Listed]
NothingInHand == [actor |-> None, version |-> 0, connector |-> 0, credential |-> NoCredential]
Operation == [pc : {"idle", "observed", "opened", "authorized", "cache", "listed", "session",
                    "dispatch", "answer"}, hand : InHand, listed : Listed]
NoOperation == [pc |-> "idle", hand |-> NothingInHand, listed |-> NoCredential]
Flight == [pc : {"none", "begun", "listed", "rechecked"}, hand : InHand, listed : Listed]
NoFlight == [pc |-> "none", hand |-> NothingInHand, listed |-> NoCredential]

BrokerTypeOK ==
  /\ CacheTypeOK /\ SharedTypeOK
  /\ op \in [Callers -> Operation] /\ flight \in [Loads -> Flight]
  /\ catalog \in [Keys -> Listed] /\ total \in Nat /\ requests \in 0 .. MaxRequests

Init ==
  /\ CacheInit /\ SharedInit
  /\ op = [p \in Callers |-> NoOperation]
  /\ flight = [l \in Loads |-> NoFlight]
  /\ catalog = [k \in Keys |-> NoCredential]
  /\ total = 0 /\ requests = MaxRequests
--------------------------------------------------------------------------------
(* Authorization. *)
At(p, pc) == op[p].pc = pc
Goto(p, pc) == op' = [op EXCEPT ![p].pc = pc]
HasRoom == total < MaxOperations

\* The end of run, whose finally gives the operation's place back.
Counted(p) == op[p].pc \in {"cache", "listed", "session", "dispatch"}
End(p) == /\ op' = [op EXCEPT ![p] = NoOperation]
          /\ total' = IF Counted(p) THEN total - 1 ELSE total

\* The versions pin the credential that was read: an operation never goes on with what
\* another version of the connection or connector had.
Same(hand) == row.version = hand.version /\ connector.version = hand.connector
Current(hand) == Usable(hand.actor) /\ Same(hand)

\* The resolution with its preflight, and the one of accessCredentials.
Resolve(p) ==
  /\ At(p, "idle")
  /\ requests > 0 /\ requests' = requests - 1
  /\ HasRoom
  /\ \E a \in Actors :
       /\ Usable(a)
       /\ op' = [op EXCEPT ![p] =
            [NoOperation EXCEPT !.pc = "observed", !.hand.actor = a,
                                !.hand.version = row.version,
                                !.hand.connector = connector.version]]
  /\ UNCHANGED <<cacheVars, sharedVars, flight, catalog, total>>

\* The value is read outside any transaction, by the id the row had.
Open(p) ==
  /\ At(p, "observed")
  /\ sealed # NoCredential
  /\ op' = [op EXCEPT ![p].pc = "opened", ![p].hand.credential = sealed]
  /\ UNCHANGED <<cacheVars, sharedVars, flight, catalog, total, requests>>

\* The transaction of accessCredentials finds the row unchanged, and so does the one that
\* counts the use.
Authorize(p) ==
  /\ At(p, "opened")
  /\ Current(op[p].hand)
  /\ Goto(p, "authorized")
  /\ UNCHANGED <<cacheVars, sharedVars, flight, catalog, total, requests>>
--------------------------------------------------------------------------------
(* The operation. *)

\* toolCatalogKey.  Faulty variant: the id of the credential stands for the credential.
KeyById(hand) == <<1, hand.connector>>
ToolCatalogKey(hand) == <<hand.version, hand.connector>>

Stays(keys) == [k \in Keys |-> IF k \in keys THEN catalog[k] ELSE NoCredential]

\* run of the operations tools and call begins: a catalog is at hand, on its way, to be
\* listed now, or out of reach.
UseCache(p) ==
  LET k == ToolCatalogKey(op[p].hand)
      begins(l) == load[l].pc # "loading" /\ load'[l].pc = "loading"
  IN /\ At(p, "authorized")
     /\ HasRoom
     /\ Call(p, k)
     /\ flight' = [l \in Loads |-> IF begins(l) THEN [NoFlight EXCEPT !.pc = "begun",
                                                                      !.hand = op[p].hand]
                                   ELSE flight[l]]
     /\ CASE caller'[p].pc = "waiting" -> Goto(p, "cache") /\ total' = total + 1
          [] k \in ToSet(order') ->
               /\ op' = [op EXCEPT ![p].pc = "listed", ![p].listed = catalog[k]]
               /\ total' = total + 1
          [] OTHER -> End(p)
     /\ catalog' = Stays(ToSet(order'))
     /\ UNCHANGED <<sharedVars, requests>>

\* run of resources and read-resource.
UseSession(p) ==
  /\ At(p, "authorized")
  /\ HasRoom
  /\ Goto(p, "session") /\ total' = total + 1
  /\ UNCHANGED <<cacheVars, sharedVars, flight, catalog, requests>>

\* The load the operation waits for is settled, or its signal aborts.
Told(p) ==
  /\ Settle(p)
  /\ op' = [op EXCEPT ![p].listed = flight[caller[p].load].listed]
  /\ UNCHANGED <<sharedVars, flight, catalog, total, requests>>

Aborted(p) == Reject(p) /\ UNCHANGED <<sharedVars, brokerVars>>

Left(p) ==
  /\ Leave(p)
  /\ IF op[p].listed = NoCredential THEN End(p) ELSE Goto(p, "listed") /\ UNCHANGED total
  /\ UNCHANGED <<sharedVars, flight, catalog, requests>>

\* "Cache entries are definitions, never permission; every waiter rechecks its own live
\* access": before the tools are answered, or one of them is called.
Recheck(p) ==
  /\ At(p, "listed")
  /\ Current(op[p].hand)
  /\ \/ Goto(p, "answer") /\ total' = total - 1
     \/ Goto(p, "session") /\ UNCHANGED total
  /\ UNCHANGED <<cacheVars, sharedVars, flight, catalog, requests>>

\* A request of a session is checked first, and then sent and answered.
CheckDispatch(p) ==
  /\ At(p, "session")
  /\ Current(op[p].hand)
  /\ Goto(p, "dispatch")
  /\ UNCHANGED <<cacheVars, sharedVars, flight, catalog, total, requests>>

\* The operation is done, a check or the provider fails, or the signal is aborted.
EndOperation(p) ==
  /\ op[p].pc \notin {"idle", "cache"}
  /\ End(p)
  /\ UNCHANGED <<cacheVars, sharedVars, flight, catalog, requests>>
--------------------------------------------------------------------------------
(* A load, with the connection of the operation that began it: the checks around its *)
(* requests are those of that operation's actor, whoever waits.                      *)
LoadChecks(l) ==
  /\ load[l].pc = "loading" /\ ~Cancelled(l)
  /\ \/ /\ flight[l].pc = "begun"
        /\ flight' = [flight EXCEPT ![l].pc = "listed"]
     \/ /\ flight[l].pc = "listed"
        /\ flight' = [flight EXCEPT ![l].pc = "rechecked"]
  /\ Current(flight[l].hand)
  /\ UNCHANGED <<cacheVars, sharedVars, op, catalog, total, requests>>

LoadPublishes(l, size) ==
  LET listed == IF Cancelled(l) THEN NoCredential ELSE flight[l].hand.credential
  IN /\ flight[l].pc = "rechecked"
     /\ LoadReturns(l, size)
     /\ catalog' = IF listed = NoCredential \/ size > MaxBytes THEN catalog
                   ELSE [Stays(ToSet(order')) EXCEPT ![load[l].key] = listed]
     /\ flight' = [flight EXCEPT ![l] = [NoFlight EXCEPT !.listed = listed]]
     /\ UNCHANGED <<sharedVars, op, total, requests>>

LoadGivesUp(l) ==
  /\ LoadFails(l)
  /\ flight' = [flight EXCEPT ![l] = NoFlight]
  /\ UNCHANGED <<sharedVars, op, catalog, total, requests>>

Operate(p) ==
  \/ Resolve(p) \/ Open(p) \/ Authorize(p)
  \/ UseCache(p) \/ UseSession(p) \/ Told(p) \/ Aborted(p) \/ Left(p)
  \/ Recheck(p) \/ CheckDispatch(p) \/ EndOperation(p)

Next ==
  \/ \E p \in Callers : Operate(p)
  \/ \E l \in Loads : \/ LoadChecks(l) \/ LoadGivesUp(l)
                      \/ \E size \in Sizes : LoadPublishes(l, size)
                      \/ (LoadFinally(l) \/ Timeout(l)) /\ UNCHANGED <<sharedVars, brokerVars>>
  \/ \E k \in Keys : Expire(k) /\ UNCHANGED <<sharedVars, brokerVars>>
  \/ AdministerShared /\ UNCHANGED <<cacheVars, brokerVars>>

Spec == Init /\ [][Next]_vars
--------------------------------------------------------------------------------
\* The limits hold although operations pass the first check of them together and fail
\* anywhere: the counters are what they count, that of the operations included.
WithinLimits ==
  /\ CountersAgree
  /\ total = Cardinality({p \in Callers : Counted(p)}) /\ total <= MaxOperations

\* Whoever listed it, and whatever was rotated, saved or deleted since: when a catalog is
\* answered, or a request of a session let go, the credential the catalog was listed
\* with, and the one in hand, are the one then stored.
ServesWhatIsCurrent ==
  [][\A p \in Callers :
       op'[p] # op[p] /\ op'[p].pc \in {"answer", "session", "dispatch"} /\ ~At(p, "authorized")
       => /\ op[p].hand.credential = sealed
          /\ op[p].listed \in {sealed, NoCredential}]_vars
================================================================================
