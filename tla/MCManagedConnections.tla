-------------------------- MODULE MCManagedConnections --------------------------
(***************************************************************************)
(* Instances of ManagedConnections for TLC: which operations a run starts, *)
(* and whether it begins with an empty database or with one connection.    *)
(***************************************************************************)
EXTENDS ManagedConnections, TLC, FiniteSets

CONSTANTS c1, a1, g1, n1

CONSTANTS
  FuelWhenConnected,   \* bound: operations of the initial states with a connection
  MaxAuthorizing       \* bound: handlers running while an authorization is under way

AllOps == {"start", "submit", "callback", "cancel", "access", "disconnect", "time",
           "saveConnector", "deleteConnector", "adminDelete", "entitle"}
ProgressOps == {"start", "submit", "callback", "cancel", "access", "disconnect", "time"}

\* c1 is connected: a1 is completed and its grant g1 stored.  The attempts in
\* pending are reconnects of c1 whose owner has been sent to the provider.
Connected(pending) ==
  /\ connector = [present |-> TRUE, enabled |-> TRUE, version |-> 1]
  /\ entitled = TRUE
  /\ conns = [c \in Conns |-> IF c = c1 THEN [UnusedConn EXCEPT !.status = "READY",
                                               !.version = 2, !.name = n1]
                              ELSE UnusedConn]
  /\ attempts = [a \in Attempts |->
       CASE a = a1 -> [UnusedAttempt EXCEPT !.status = "COMPLETED", !.conn = c1,
                         !.connectorVersion = 1, !.name = n1]
         [] a \in pending -> [status |-> "AUTHORIZING", conn |-> c1, connVersion |-> 2,
                              connectorVersion |-> 1, name |-> n1, state |-> TRUE,
                              payload |-> TRUE]
         [] OTHER -> UnusedAttempt]
  /\ vault = [s \in Slots |-> CASE s = c1 -> Sealed([grant |-> g1, gen |-> 1])
                                [] s \in pending -> OAuthPayload
                                [] OTHER -> NoSecret]
  /\ age = [s \in Slots |-> "live"]
  /\ grants = [g \in Grants |->
       IF g = g1 THEN [NoGrant EXCEPT !.status = "active", !.attempt = a1, !.gen = 1, !.home = c1]
       ELSE NoGrant]
  /\ audit = {<<"connection.connected", c1>>}
  /\ h = [p \in Handlers |-> Idle]
  /\ fuel = FuelWhenConnected
  /\ aborts = MaxAborts

\* An authorization is under way, or a request about one is running.
Running == {p \in Handlers : h[p].pc # "idle"}
Authorizing ==
  \/ \E p \in Running : h[p].att # None
  \/ \E a \in Attempts : attempts[a].status \in {"SETUP", "AUTHORIZING", "PROCESSING"}

\* All handlers run at once only while nobody authorizes, MaxAuthorizing otherwise.
Limited == Cardinality(Running) <= IF Authorizing THEN MaxAuthorizing
                                   ELSE Cardinality(Handlers)

BoundedStep == Limited'

ConnectionsSpec == /\ Init \/ Connected({}) \/ Connected(Attempts \ {a1})
                   /\ [][Next]_vars
PendingSpec == Connected(Attempts \ {a1}) /\ [][Next]_vars
PendingFairSpec == PendingSpec /\ \A p \in Handlers : WF_vars(HandlerStep(p))

HandlerSymmetry == Permutations(Handlers)
================================================================================
