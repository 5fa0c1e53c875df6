---------------------------- MODULE ChipTotals ----------------------------
(***************************************************************************)
(* Totals of practice chips.                                               *)
(*                                                                         *)
(* The code adds chips up with Array.reduce.  Here a total is the number   *)
(* of single chips: the k-th chip of holder x is the pair <<x, k>>.  A     *)
(* total is then a cardinality, so that the theorems about finite sets     *)
(* apply to it for any number of holders; the run poker_hand checks what   *)
(* is paid of it against SumFunction of the community modules.             *)
(***************************************************************************)
EXTENDS Integers, FiniteSets

\* The single chips of a function from holders to amounts.
ChipUnits(f) == UNION { {x} \X (1..f[x]) : x \in DOMAIN f }

\* How many chips all holders have together.
ChipTotal(f) == Cardinality(ChipUnits(f))
=============================================================================
