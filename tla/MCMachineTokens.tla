---------------------------- MODULE MCMachineTokens ----------------------------
(***************************************************************************)
(* Machine tokens and a resource server, from four initial states: with    *)
(* mutations left and a single token request, with all token requests and  *)
(* no mutations, and with visits of a server that knows Weldall's key or   *)
(* does not; so that the row locks, the replay store and the keys are      *)
(* covered without their product.                                          *)
(***************************************************************************)
EXTENDS ResourceServer, TLC

\* The server has fetched the key just now.
Warm ==
  /\ current \in SigningKeys /\ cached = current /\ metadata = TRUE /\ jwksExpiresAt = clock + Ttl
  /\ served = [k \in SigningKeys |-> Never] /\ rotated = clock
  /\ unknownRefreshAt = Never /\ fetch = NoFetch /\ fetchFailed = FALSE
  /\ visit = [v \in Visits |-> NoVisit] /\ visits = 0
  /\ seen = [m \in Marks |-> Never] /\ gone = [m \in Marks |-> Never]
  /\ used = [m \in Marks |-> 0]

MCInit ==
  /\ MachineInit
  /\ \/ /\ ServerInit /\ visits = MaxVisits
        /\ \/ clock = Horizon - 1 /\ changes = 0 /\ started = MaxRequests - 1
           \/ clock = Horizon - 2 /\ changes = MaxChanges /\ started = 0
     \/ /\ clock = 1 /\ changes = MaxChanges /\ started = MaxRequests
        /\ \/ Warm
           \/ ServerInit /\ visits = MaxVisits - 1

\* Weldall changes its key where the server meets the change.
BoundedStep == visits = MaxVisits /\ fetch = NoFetch /\ cached = None => UNCHANGED current

MCSpec == MCInit /\ [][ServedNext]_ServedVars

Interchangeable == Permutations(Calls) \cup Permutations(Processes) \cup Permutations(Visits)
                   \cup Permutations(SigningKeys)
================================================================================
