----------------------------- MODULE SidePots -----------------------------
(***************************************************************************)
(* Main pot and side pots (packages/shared/src/poker/pot.ts).              *)
(*                                                                         *)
(* A pot is named by its level: the amount a seat must have invested in    *)
(* the hand to have put chips into it.  invested maps every seat of the    *)
(* hand to its investedThisHand, eligible is the set of seats that may     *)
(* still win (not FOLDED, OUT or SITTING_OUT), rank maps the eligible      *)
(* seats to the value of their hand.                                       *)
(***************************************************************************)
EXTENDS Integers, FiniteSets, FiniteSetsExt, ChipTotals

\* The distinct positive investments: one layer of the pot each.
Levels(invested) == { invested[s] : s \in DOMAIN invested } \ {0}

\* The level under a layer, 0 under the lowest.
PreviousLevel(invested, level) ==
  Max({0} \cup { k \in Levels(invested) : k < level })

Contributors(invested, level) == { s \in DOMAIN invested : invested[s] >= level }

PotAmount(invested, level) ==
  (level - PreviousLevel(invested, level)) * Cardinality(Contributors(invested, level))

\* Only a layer with an eligible contributor becomes a pot.
PotLevels(invested, eligible) ==
  { l \in Levels(invested) : Contributors(invested, l) \cap eligible # {} }

\* Mutant: the best hand of the table wins every pot.
PotWinnersOfAll(invested, eligible, rank, level) ==
  { s \in eligible : \A t \in eligible : rank[t] <= rank[s] }

\* The eligible contributors of a pot with the best rank.
PotWinners(invested, eligible, rank, level) ==
  LET entitled == Contributors(invested, level) \cap eligible
  IN  { s \in entitled : \A t \in entitled : rank[t] <= rank[s] }

\* What winner s takes of one pot: an equal share, and one odd chip for each
\* of the first winners by seat number.
PotShare(invested, eligible, rank, level, s) ==
  LET winners == PotWinners(invested, eligible, rank, level)
      amount  == PotAmount(invested, level)
      count   == Cardinality(winners)
      index   == Cardinality({ w \in winners : w < s })
  IN  IF s \notin winners THEN 0
      ELSE (amount \div count) + (IF index < amount % count THEN 1 ELSE 0)

\* What every seat is paid over all pots.
Payouts(invested, eligible, rank) ==
  [ s \in DOMAIN invested |->
      ChipTotal([ l \in PotLevels(invested, eligible) |->
                    PotShare(invested, eligible, rank, l, s) ]) ]
=============================================================================
