------------------------- MODULE MCLoginInstallation -------------------------
(* Instance of LoginInstallation for the model checker. *)
EXTENDS LoginInstallation, TLC

Symmetry == Permutations(Handlers) \cup Permutations(Attempts) \cup Permutations(Subjects)
            \cup Permutations(Emails) \cup Permutations(Tokens)
================================================================================
