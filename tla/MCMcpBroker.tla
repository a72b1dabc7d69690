----------------------------- MODULE MCMcpBroker -----------------------------
(* Instance of McpBroker for the model checker: no connection yet, or one that *)
(* was rotated, with a catalog of its first credential still in the cache.     *)
EXTENDS McpBroker, TLC

Versions == (1 .. MaxChanges + 2) \X (1 .. MaxChanges + 1)
First == <<1, 1>>
WarmSize == CHOOSE s \in Sizes : s <= MaxBytes

Cold == CacheInit /\ SharedInit /\ catalog = [k \in Keys |-> NoCredential]

Warm ==
  /\ row = [version |-> 2, exists |-> TRUE, enabled |-> TRUE, useScopes |-> UseScopes]
  /\ sealed \in Credentials
  /\ connector = [version |-> 1, enabled |-> TRUE]
  /\ holds = [a \in Actors |-> UseScopes]
  /\ changes = MaxChanges
  /\ order = <<First>> /\ bytes = WarmSize /\ inFlight = 0
  /\ entry = [k \in Keys |-> IF k = First THEN [NoEntry EXCEPT !.bytes = WarmSize] ELSE NoEntry]
  /\ flights = [k \in Keys |-> None]
  /\ load = [l \in Loads |-> NoLoad]
  /\ caller = [c \in Callers |-> NoCaller]
  /\ \E c \in Credentials \ {sealed} : catalog = [k \in Keys |-> IF k = First THEN c ELSE NoCredential]

MCInit ==
  /\ Cold \/ Warm
  /\ op = [p \in Callers |-> NoOperation]
  /\ flight = [l \in Loads |-> NoFlight]
  /\ total = 0 /\ requests = MaxRequests
MCSpec == MCInit /\ [][Next]_vars

Symmetry == Permutations(Callers) \cup Permutations(Loads) \cup Permutations(Credentials)
            \cup Permutations(Actors)
================================================================================
