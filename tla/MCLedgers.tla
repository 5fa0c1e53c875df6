----------------------------- MODULE MCLedgers -----------------------------
(* One owner, one friend and participants without an account; one player with one phone. *)
EXTENDS Ledgers, TLC

MCAmounts == [s \in 1 .. MaxRows |-> IF s = 1 THEN {-1, 2} ELSE IF s = 2 THEN {1} ELSE {-3}]
Slots == Permutations(Requests) \cup Permutations(Calls) \cup Permutations(Avatars)
=============================================================================
