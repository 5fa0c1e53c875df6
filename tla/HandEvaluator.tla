--------------------------- MODULE HandEvaluator ---------------------------
(***************************************************************************)
(* Cards and the value of a hand (packages/shared/src/poker/cards.ts,      *)
(* deck.ts, hand-rank.ts, evaluator.ts).  A hand is the set of its cards.  *)
(***************************************************************************)
EXTENDS Integers, FiniteSets, FiniteSetsExt, Sequences

CardRanks == 2..14          \* 11 to 14 are J, Q, K and A
Suits == {"S", "H", "D", "C"}
CreateDeck == [rank : CardRanks, suit : Suits]

RanksOf(cards) == { c.rank : c \in cards }
CountOf(cards, r) == Cardinality({ c \in cards : c.rank = r })

HandRankStrength ==
  [ HIGH_CARD |-> 1, ONE_PAIR |-> 2, TWO_PAIR |-> 3, THREE_OF_A_KIND |-> 4,
    STRAIGHT |-> 5, FLUSH |-> 6, FULL_HOUSE |-> 7, FOUR_OF_A_KIND |-> 8,
    STRAIGHT_FLUSH |-> 9, ROYAL_FLUSH |-> 10 ]

HighToLow == [ i \in 1..13 |-> 15 - i ]
Descending(R) == SelectSeq(HighToLow, LAMBDA r : r \in R)

\* The ranks of a hand, the most frequent first and the higher of two alike.
GroupRanks(cards) ==
  LET Ranked(n) == Descending({ r \in RanksOf(cards) : CountOf(cards, r) = n })
  IN  Ranked(4) \o Ranked(3) \o Ranked(2) \o Ranked(1)

\* The top of five ranks in a row, 0 if there are none; an ace also comes before the 2.
GetStraightHigh(R) ==
  LET low == IF 14 \in R THEN R \cup {1} ELSE R
  IN  Max({0} \cup { h \in R : (h - 4)..h \subseteq low })

\* Five cards: the category and what two hands of it are told apart by.
EvaluateFiveCards(cards) ==
  LET groups   == GroupRanks(cards)
      most     == CountOf(cards, groups[1])
      distinct == Len(groups)
      flush    == Cardinality({ c.suit : c \in cards }) = 1
      top      == GetStraightHigh(RanksOf(cards))
      category ==
        CASE flush /\ top = 14 -> "ROYAL_FLUSH"
          [] flush /\ top \in 1..13 -> "STRAIGHT_FLUSH"
          [] most = 4 -> "FOUR_OF_A_KIND"
          [] most = 3 /\ distinct = 2 -> "FULL_HOUSE"
          [] flush /\ top = 0 -> "FLUSH"
          [] ~flush /\ top > 0 -> "STRAIGHT"
          [] most = 3 /\ distinct = 3 -> "THREE_OF_A_KIND"
          [] most = 2 /\ distinct = 3 -> "TWO_PAIR"
          [] most = 2 /\ distinct = 4 -> "ONE_PAIR"
          [] OTHER -> "HIGH_CARD"
  IN  [category |-> category, tiebreakers |-> IF top > 0 THEN <<top>> ELSE groups]

\* The first difference decides; a tiebreaker that is missing counts as 0.
Tiebreaker(h, i) == IF i <= Len(h.tiebreakers) THEN h.tiebreakers[i] ELSE 0
Beats(a, b) ==
  LET diff == HandRankStrength[a.category] - HandRankStrength[b.category]
  IN  \/ diff > 0
      \/ /\ diff = 0
         /\ \E i \in 1..5 : /\ Tiebreaker(a, i) > Tiebreaker(b, i)
                            /\ \A j \in 1..(i - 1) : Tiebreaker(a, j) = Tiebreaker(b, j)

\* The best of the 21 hands of five among seven cards.
EvaluateSevenCards(cards) ==
  LET fives == { EvaluateFiveCards(five) : five \in kSubset(5, cards) }
  IN  CHOOSE best \in fives : ~ \E h \in fives : Beats(h, best)

\* Digits to base 15.
NumberOf(digits) ==
  MapThenSumSet(LAMBDA i : digits[i] * 15 ^ (Len(digits) - i), 1..Len(digits))

\* Mutant: the tiebreakers are not filled up to five.
EncodeRankUnpadded(h) == NumberOf(<<HandRankStrength[h.category]>> \o h.tiebreakers)

\* The hand as one number, of the strength and five tiebreakers.
EncodeRank(h) ==
  NumberOf(<<HandRankStrength[h.category]>> \o [ i \in 1..5 |-> Tiebreaker(h, i) ])
=============================================================================
