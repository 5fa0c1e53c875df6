---------------------------- MODULE MCPokerHand ----------------------------
(* Tables of three seats: the first stacks are below, at and above the big     *)
(* blind, so that short blinds, short calls and short raises all happen; the   *)
(* strengths lie between the thresholds of the bots.  Showdowns of four seats  *)
(* with up to three chips each and three ranks; and of two seats whose cards   *)
(* come from decks that hold the wheel and its straight flush, the royal       *)
(* flush, four of a kind and full houses, or flushes beside pairs.  Screens of *)
(* two to nine players, as many as the rooms may have.                         *)
EXTENDS PokerEngine

MCSeats == 1..3
MCSmallStacks == {1, 2, 3}
MCRanks == 1..2
MCStrengths == {0, 60, 75, 90}
MCTable == 1..4
MCTableSizes == 2..9
MCTyped == 0..10

Cards(ranks, suits) == [rank : ranks, suit : suits]

MCDecks == {
  Cards({2, 3, 4, 5, 14}, {"S", "H"}),
  Cards(9..14, {"S"}) \cup Cards({10, 13, 14}, {"H"}),
  Cards({7, 9}, Suits) \cup Cards({14}, {"S", "H"}),
  Cards({2, 6, 8, 11, 12, 13}, {"D"}) \cup Cards({6, 9, 13}, {"C"}),
  Cards({4, 5, 6, 7, 8, 10}, {"C"}) \cup Cards({9, 11, 14}, {"D"}) }
=============================================================================
