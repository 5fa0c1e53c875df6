------------------------------ MODULE Showdown ------------------------------
(***************************************************************************)
(* The showdown (finishByShowdown of state-machine.ts): hands are compared *)
(* by HandEvaluator and paid by SidePots.  A showdown is examined in two   *)
(* ways: two seats with seven cards each, a board of five in common, and   *)
(* equal stakes; or a table of seats with any ranks and any stakes.        *)
(***************************************************************************)
EXTENDS SidePots, HandEvaluator
LOCAL INSTANCE Functions

CONSTANTS Table, MaxInvested, MaxRank,
          Decks   \* parts of the deck small enough for all their showdowns to be seen

ASSUME DecksAssumption == \A deck \in Decks : deck \subseteq CreateDeck /\ Cardinality(deck) >= 9
ASSUME TableAssumption == {1, 2} \subseteq Table

VARIABLES cards, invested, eligible, rank, paid

showdownVars == <<cards, invested, eligible, rank, paid>>

NothingPaid == [ s \in Table |-> 0 ]
Unranked == [ s \in eligible |-> 0 ]

\* Two seats show down all they have, the others are out.
CardsAreDealt == \E deck \in Decks : \E board \in kSubset(5, deck) :
  \E first \in kSubset(2, deck \ board) : \E second \in kSubset(2, deck \ (board \cup first)) :
    /\ cards = <<board \cup first, board \cup second>>
    /\ eligible = {1, 2}
    /\ invested = [ s \in Table |-> IF s \in {1, 2} THEN MaxInvested ELSE 0 ]
    /\ rank = Unranked

\* A showdown has two seats left at least, and each of them put something in.
RanksAreGiven ==
  /\ cards = <<>>
  /\ invested \in [Table -> 0..MaxInvested]
  /\ eligible \in SUBSET { s \in Table : invested[s] > 0 }
  /\ Cardinality(eligible) >= 2
  /\ rank \in [eligible -> 1..MaxRank]

ShowdownInit == (CardsAreDealt \/ RanksAreGiven) /\ paid = NothingPaid

\* Nothing to show down.
NoShowdown ==
  /\ cards = <<>> /\ eligible = {} /\ invested = NothingPaid
  /\ rank = Unranked /\ paid = NothingPaid

EvaluateHands ==
  /\ cards # <<>> /\ rank = Unranked
  /\ rank' = [ s \in eligible |-> EncodeRank(EvaluateSevenCards(cards[s])) ]
  /\ UNCHANGED <<cards, invested, eligible, paid>>

Settle ==
  /\ rank # Unranked /\ paid = NothingPaid
  /\ paid' = Payouts(invested, eligible, rank)
  /\ UNCHANGED <<cards, invested, eligible, rank>>

ShowdownNext == EvaluateHands \/ Settle

-----------------------------------------------------------------------------
(* What seven cards are worth by the book, read off the seven at once and  *)
(* not by comparing hands of five.                                         *)

OfSuit(hand, suit) == { c \in hand : c.suit = suit }
Often(hand, n) == { r \in RanksOf(hand) : CountOf(hand, r) >= n }
Straights(hand) ==
  { top \in 5..14 : \A r \in (top - 4)..top : (IF r = 1 THEN 14 ELSE r) \in RanksOf(hand) }
Highest(S, n) == SubSeq(Descending(S), 1, Min({n, Cardinality(S)}))
Kickers(hand, used, n) == Highest(RanksOf(hand) \ used, n)

\* A sequence that is compared lexicographically.
ByTheBook(hand) ==
  LET flushes == { suit \in Suits : Cardinality(OfSuit(hand, suit)) >= 5 }
      flush   == UNION { OfSuit(hand, suit) : suit \in flushes }
      fours   == Often(hand, 4)
      threes  == Often(hand, 3)
      pairs   == Often(hand, 2)
      three   == Max(threes)
      paired  == Highest(pairs, 2)
  IN  IF Straights(flush) # {} THEN <<9, Max(Straights(flush))>>
      ELSE IF fours # {} THEN <<8, Max(fours)>> \o Kickers(hand, fours, 1)
      ELSE IF threes # {} /\ Cardinality(pairs) > 1 THEN <<7, three, Max(pairs \ {three})>>
      ELSE IF flush # {} THEN <<6>> \o Highest(RanksOf(flush), 5)
      ELSE IF Straights(hand) # {} THEN <<5, Max(Straights(hand))>>
      ELSE IF threes # {} THEN <<4, three>> \o Kickers(hand, threes, 2)
      ELSE IF Cardinality(pairs) > 1
           THEN <<3>> \o paired \o Kickers(hand, {paired[1], paired[2]}, 1)
      ELSE IF pairs # {} THEN <<2>> \o paired \o Kickers(hand, pairs, 3)
      ELSE <<1>> \o Kickers(hand, {}, 5)

Above(a, b) == \E i \in DOMAIN a \cap DOMAIN b : a[i] > b[i] /\ \A j \in 1..(i - 1) : a[j] = b[j]

-----------------------------------------------------------------------------
(* Properties *)

Settled == paid # NothingPaid

\* The pot goes to the seats whose seven cards no other seat's cards beat by
\* the book: to all of them and to nobody else.
BestCardsWin ==
  Settled /\ cards # <<>> =>
    \A s \in eligible :
      paid[s] > 0 <=> ~ \E t \in eligible : Above(ByTheBook(cards[t]), ByTheBook(cards[s]))

\* The seats whose hand is at least as good as s's are together paid what every
\* seat put in up to the deepest of their stakes, to the last chip; of equal hands
\* the shallower stake is never paid more than the odd chips it may be given, one
\* in each pot.  The code gets there by splitting the pot into layers and paying
\* each layer.
AtLeast(s) == { t \in eligible : rank[t] >= rank[s] }
BetterHandsTakeTheirStakes ==
  Settled => \A s \in eligible :
    LET deepest == Max({ invested[t] : t \in AtLeast(s) })
    IN  /\ SumFunctionOnSet(paid, AtLeast(s))
             = SumFunction([ t \in Table |-> Min({invested[t], deepest}) ])
        /\ \A t \in eligible : (rank[s] = rank[t] /\ invested[s] <= invested[t]) =>
             paid[s] <= paid[t] + Cardinality(PotLevels(invested, eligible))
=============================================================================
