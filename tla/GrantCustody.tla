------------------------------ MODULE GrantCustody ------------------------------
(***************************************************************************)
(* What connections.ts promises about every OAuth grant that reaches       *)
(* Weldall (connections.ts:330, :635, :728, :746, :1123): a grant is held  *)
(* by the handler that received it or stored as ciphertext until it is     *)
(* settled, that is revoked or given up on the record.  It is never lost,  *)
(* and a settled grant stays settled.                                      *)
(***************************************************************************)
CONSTANT Grants
VARIABLE custody

\* Some connections may exist already; no request is running.
Init == custody \in [Grants -> {"unissued", "stored"}]

Move(S, to) == custody' = [g \in Grants |-> IF g \in S THEN to ELSE custody[g]]

\* A code exchange hands a new grant to a handler.
Receive(g) == custody[g] = "unissued" /\ Move({g}, "held")

\* The handler stores its credential.
Store(g) == custody[g] = "held" /\ Move({g}, "stored")

\* Rows may go, each with its grant: a grant some handler is refreshing is then
\* in that handler's hands only, the others are settled.
Remove(S) ==
  /\ \A g \in S : custody[g] = "stored"
  /\ \E T \in SUBSET S :
       custody' = [g \in Grants |-> IF g \in T THEN "held"
                                    ELSE IF g \in S THEN "settled" ELSE custody[g]]

\* The handler revokes its grant or gives it up on the record.
Settle(g) == custody[g] \in {"held", "stored"} /\ Move({g}, "settled")

Next == \/ \E g \in Grants : Receive(g) \/ Store(g) \/ Settle(g)
        \/ \E S \in SUBSET Grants : Remove(S)

Spec == Init /\ [][Next]_custody
================================================================================
