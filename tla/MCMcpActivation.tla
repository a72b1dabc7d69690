---------------------------- MODULE MCMcpActivation ----------------------------
(* Instance of McpActivation for the model checker: one connector type with two *)
(* connectors, the first with two accounts, and a native resource.              *)
EXTENDS McpActivation, TLC

CONSTANTS p1, p2, p3, u1, u2, r, k1, k2, type, c1, c2, c3

RunsOfSession == Callers \cup {Queue}
KeyOfConnection == c1 :> k1 @@ c2 :> k1 @@ c3 :> k2
KeysOfSelector == k1 :> {k1} @@ k2 :> {k2} @@ type :> {k1, k2}
RequestsOfHost == {{k1, k2}, {type}, {r}}

Symmetry == Permutations(Callers) \cup Permutations(Users)
================================================================================
