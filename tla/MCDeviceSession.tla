--------------------------- MODULE MCDeviceSession ---------------------------
(* Instance of DeviceSession for the model checker. *)
EXTENDS DeviceSession, TLC

Symmetry == Permutations(Clients) \cup Permutations(Tokens)
================================================================================
