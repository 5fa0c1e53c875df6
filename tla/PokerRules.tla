---------------------------- MODULE PokerRules ----------------------------
(***************************************************************************)
(* The rules of one hand (packages/shared/src/poker/state-machine.ts) as   *)
(* operators on a game state.                                              *)
(*                                                                         *)
(* A game state is a record with the fields of the interface GameState.    *)
(* The array of players is turned round into one function per field,       *)
(* indexed by seat number.  boardCards is the number of cards on the       *)
(* board; hole cards are not represented, because what the rules read of   *)
(* them is only the ranking of the contenders at a showdown, which the     *)
(* caller chooses (the deck is shuffled at random).  pot is not stored:    *)
(* the code assigns it totalInvested before every use, see Pot.  won is    *)
(* what winnerInfo says each seat was paid, 0 while the hand is played.    *)
(***************************************************************************)
EXTENDS Integers, FiniteSets, FiniteSetsExt, ChipTotals, SidePots

CONSTANTS
  Seats,        \* the seat numbers of the room
  SmallBlind, BigBlind,
  NoSeat        \* the null of currentTurnSeat and lastAggressorSeat

ASSUME SeatsAssumption == Seats \subseteq Nat /\ IsFiniteSet(Seats)
ASSUME NoSeatAssumption == NoSeat \notin Seats
\* The room service refuses a big blind that is not above the small blind.
ASSUME BlindsAssumption ==
  /\ SmallBlind \in Nat /\ BigBlind \in Nat
  /\ 0 < SmallBlind /\ SmallBlind < BigBlind

PlayerStatuses == {"ACTIVE", "FOLDED", "ALL_IN", "OUT"}
BettingStreets == {"PREFLOP", "FLOP", "TURN", "RIVER"}
GameStatuses == {"PLAYING", "HAND_FINISHED", "ROOM_FINISHED"}

\* The fields of GameState and the types it declares for them.
GameStates ==
  [ status : GameStatuses, street : BettingStreets \cup {"SHOWDOWN"},
    boardCards : 0..5, currentBet : Nat, minRaise : Nat,
    dealerSeat : Seats, smallBlindSeat : Seats, bigBlindSeat : Seats,
    currentTurnSeat : Seats \cup {NoSeat}, lastAggressorSeat : Seats \cup {NoSeat},
    chips : [Seats -> Nat], startHandChips : [Seats -> Nat],
    investedThisHand : [Seats -> Nat], investedThisStreet : [Seats -> Nat],
    playerStatus : [Seats -> PlayerStatuses], hasActedThisStreet : [Seats -> BOOLEAN],
    won : [Seats -> Nat] ]

-----------------------------------------------------------------------------
(* Seats and the order of play. *)

Funded(chips) == { s \in Seats : chips[s] > 0 }

\* The first seat of S clockwise after seat; seat itself only if S has no other.
SeatAfter(S, seat) ==
  IF \E s \in S : s > seat THEN Min({ s \in S : s > seat }) ELSE Min(S)

NormalizeDealerSeat(dealer, S) == IF dealer \in S THEN dealer ELSE SeatAfter(S, dealer)

\* Heads-up the dealer posts the small blind.
SmallBlindSeat(S, dealer) == IF Cardinality(S) = 2 THEN dealer ELSE SeatAfter(S, dealer)
BigBlindSeat(S, dealer) == SeatAfter(S, SmallBlindSeat(S, dealer))

NextDealerSeat(chips, dealer) ==
  LET S == Funded(chips)
  IN  IF Cardinality(S) < 2 THEN NoSeat ELSE SeatAfter(S, NormalizeDealerSeat(dealer, S))

\* Seats that still may win the hand, and seats that still may act in it.
IsContender(st, s) == st.playerStatus[s] \notin {"FOLDED", "OUT"}
Contenders(st) == { s \in Seats : IsContender(st, s) }
CanStillAct(st, s) == st.playerStatus[s] = "ACTIVE" /\ st.chips[s] > 0

\* Seats that owe the street an action.
ToAct(st) == { s \in Seats : /\ CanStillAct(st, s)
                             /\ \/ ~st.hasActedThisStreet[s]
                                \/ st.investedThisStreet[s] < st.currentBet }

\* Mutant: the turn goes to the next seat in the hand, also if it is all-in.
NextContenderAfter(st, seat) == SeatAfter(Contenders(st), seat)

FirstActionableSeatAfter(st, seat) ==
  IF ToAct(st) = {} THEN NoSeat ELSE SeatAfter(ToAct(st), seat)

-----------------------------------------------------------------------------
(* Chips. *)

Pot(st) == ChipTotal(st.investedThisHand)

InvestChips(st, s, amount) ==
  [st EXCEPT !.chips[s] = @ - amount,
             !.investedThisStreet[s] = @ + amount,
             !.investedThisHand[s] = @ + amount,
             !.playerStatus[s] =
               IF @ = "ACTIVE" /\ st.chips[s] = amount THEN "ALL_IN" ELSE @]

PostBlind(st, s, blind) == InvestChips(st, s, Min({st.chips[s], blind}))

\* A full bet or raise: everybody else who can still act must act again.
MarkFullAggression(st, actor) ==
  [st EXCEPT !.hasActedThisStreet =
               [ s \in Seats |-> s = actor \/ (@[s] /\ ~CanStillAct(st, s)) ],
             !.lastAggressorSeat = actor]

HasActed(st, s) == [st EXCEPT !.hasActedThisStreet[s] = TRUE]

-----------------------------------------------------------------------------
(* The six actions of a seat: when the code accepts one, and its mutation. *)

MayAct(st, s) ==
  /\ st.status = "PLAYING"
  /\ st.currentTurnSeat = s
  /\ CanStillAct(st, s)

MayCheck(st, s) == MayAct(st, s) /\ st.investedThisStreet[s] = st.currentBet
MayCall(st, s) == MayAct(st, s) /\ st.investedThisStreet[s] < st.currentBet
MayBet(st, s, amount) ==
  /\ MayAct(st, s)
  /\ amount > 0
  /\ st.currentBet = 0
  /\ amount <= st.chips[s]

\* Mutant: a raise under the minimum is refused to a seat that goes all-in.
MayRaiseFully(st, s, raiseTo) ==
  /\ MayAct(st, s)
  /\ st.currentBet > 0
  /\ raiseTo - st.currentBet >= st.minRaise
  /\ raiseTo <= st.investedThisStreet[s] + st.chips[s]

MayRaise(st, s, raiseTo) ==
  /\ MayAct(st, s)
  /\ st.currentBet > 0
  /\ raiseTo > st.currentBet
  /\ raiseTo <= st.investedThisStreet[s] + st.chips[s]
  /\ \/ raiseTo - st.currentBet >= st.minRaise
     \/ raiseTo = st.investedThisStreet[s] + st.chips[s]

Folded(st, s) == [HasActed(st, s) EXCEPT !.playerStatus[s] = "FOLDED"]

\* Mutant: a check puts the other seats back on the clock, as a bet does.
CheckReopens(st, s) == MarkFullAggression(st, s)

Checked(st, s) == HasActed(st, s)

Called(st, s) ==
  HasActed(InvestChips(st, s, Min({st.chips[s], st.currentBet - st.investedThisStreet[s]})), s)

BetPlaced(st, s, amount) ==
  LET paid == InvestChips(st, s, amount)
  IN  MarkFullAggression([paid EXCEPT !.currentBet = paid.investedThisStreet[s],
                                      !.minRaise = amount], s)

RaisedTo(st, s, raiseTo) ==
  LET size == raiseTo - st.currentBet
      paid == [InvestChips(st, s, raiseTo - st.investedThisStreet[s])
                 EXCEPT !.currentBet = raiseTo]
  IN  IF size >= st.minRaise
      THEN MarkFullAggression([paid EXCEPT !.minRaise = size], s)
      ELSE HasActed(paid, s)

WentAllIn(st, s) ==
  LET amount == st.chips[s]
      total  == st.investedThisStreet[s] + amount
      size   == total - st.currentBet
      paid   == InvestChips(st, s, amount)
      raised == [paid EXCEPT !.currentBet = total]
  IN  IF total <= st.currentBet THEN HasActed(paid, s)
      ELSE IF total = amount \/ size >= st.minRaise
           THEN MarkFullAggression([raised EXCEPT !.minRaise = Max({@, size})], s)
           ELSE HasActed(raised, s)

-----------------------------------------------------------------------------
(* The end of a betting round and of a hand. *)

\* Mutant: a round is over as soon as everybody acted.
EverybodyActed(st) ==
  \A s \in Seats : CanStillAct(st, s) => st.hasActedThisStreet[s]

BettingRoundComplete(st) ==
  \A s \in Seats : CanStillAct(st, s) =>
    st.hasActedThisStreet[s] /\ st.investedThisStreet[s] = st.currentBet

NextStreet == [PREFLOP |-> "FLOP", FLOP |-> "TURN", TURN |-> "RIVER", RIVER |-> "SHOWDOWN"]
CardsToDeal == [PREFLOP |-> 3, FLOP |-> 1, TURN |-> 1, RIVER |-> 0]

AdvanceStreet(st) ==
  LET fresh == [st EXCEPT !.boardCards = @ + CardsToDeal[st.street],
                          !.street = NextStreet[st.street],
                          !.currentBet = 0,
                          !.minRaise = BigBlind,
                          !.lastAggressorSeat = NoSeat,
                          !.investedThisStreet = [ s \in Seats |-> 0 ],
                          !.hasActedThisStreet = [ s \in Seats |-> FALSE ]]
  IN  [fresh EXCEPT !.currentTurnSeat = FirstActionableSeatAfter(fresh, fresh.dealerSeat)]

\* Mutant: the winnings replace the stacks.
FinishWithWinnings(st, won) ==
  [st EXCEPT !.chips = won, !.won = won, !.status = "HAND_FINISHED",
             !.street = "SHOWDOWN", !.currentBet = 0, !.currentTurnSeat = NoSeat]

\* Pays won on top of the stacks and closes the hand.
Finish(st, won) ==
  [st EXCEPT !.chips = [ s \in Seats |-> @[s] + won[s] ],
             !.won = won,
             !.status = "HAND_FINISHED",
             !.street = "SHOWDOWN",
             !.currentBet = 0,
             !.currentTurnSeat = NoSeat]

FinishByFold(st, winner) ==
  Finish(st, [ s \in Seats |-> IF s = winner THEN Pot(st) ELSE 0 ])

\* The board is dealt to five cards and the side pots are paid by rank.
FinishByShowdown(st, rank) ==
  Finish([st EXCEPT !.boardCards = 5], Payouts(st.investedThisHand, Contenders(st), rank))

AllContendersAllIn(st) ==
  \A s \in Contenders(st) : st.playerStatus[s] = "ALL_IN" \/ st.chips[s] = 0

\* What normalizeAfterAction may return for the rankings of the contenders in
\* Ranks.  A street that starts with nobody to act makes the code call
\* normalizeAfterAction again, which then finds all contenders all-in.
NormalizeAfterAction(st, from, Ranks) ==
  LET alive     == Contenders(st)
      showdown  == { FinishByShowdown(st, rank) : rank \in [alive -> Ranks] }
      next      == AdvanceStreet(st)
      allInNext == { FinishByShowdown(next, rank) : rank \in [alive -> Ranks] }
  IN  IF Cardinality(alive) = 1
        THEN { FinishByFold(st, s) : s \in alive }
      ELSE IF AllContendersAllIn(st) THEN showdown
      ELSE IF ~BettingRoundComplete(st)
        THEN { [st EXCEPT !.currentTurnSeat = FirstActionableSeatAfter(st, from)] }
      ELSE IF st.street = "RIVER" THEN showdown
      ELSE IF next.currentTurnSeat = NoSeat THEN allInNext
      ELSE {next}

-----------------------------------------------------------------------------
(* The first state of a hand. *)

\* createInitialGameState up to the blinds, for a dealer seat with chips.
Dealt(chips, dealer) ==
  LET S == Funded(chips)
  IN  [ status |-> "PLAYING", street |-> "PREFLOP", boardCards |-> 0,
        currentBet |-> 0, minRaise |-> BigBlind,
        dealerSeat |-> dealer,
        smallBlindSeat |-> SmallBlindSeat(S, dealer),
        bigBlindSeat |-> BigBlindSeat(S, dealer),
        currentTurnSeat |-> NoSeat,
        lastAggressorSeat |-> BigBlindSeat(S, dealer),
        chips |-> chips, startHandChips |-> chips,
        investedThisHand |-> [ s \in Seats |-> 0 ],
        investedThisStreet |-> [ s \in Seats |-> 0 ],
        playerStatus |-> [ s \in Seats |-> IF chips[s] > 0 THEN "ACTIVE" ELSE "OUT" ],
        hasActedThisStreet |-> [ s \in Seats |-> FALSE ],
        won |-> [ s \in Seats |-> 0 ] ]

\* Both blinds posted, the bet is what the larger of them really was.
BlindsPosted(chips, dealer) ==
  LET dealt  == Dealt(chips, dealer)
      small  == PostBlind(dealt, dealt.smallBlindSeat, SmallBlind)
      posted == PostBlind(small, dealt.bigBlindSeat, BigBlind)
  IN  [posted EXCEPT !.currentBet = Max({ posted.investedThisStreet[s] : s \in Seats })]

CanStartHand(chips) == Cardinality(Funded(chips)) >= 2

InitialGameStates(chips, dealerSeat, Ranks) ==
  LET dealer == NormalizeDealerSeat(dealerSeat, Funded(chips))
      posted == BlindsPosted(chips, dealer)
  IN  NormalizeAfterAction(posted, posted.bigBlindSeat, Ranks)

-----------------------------------------------------------------------------
(* What the server offers to the seat in turn (actions.ts). *)

BetBounds(st, s) == Min({BigBlind, st.chips[s]}) .. st.chips[s]
RaiseBounds(st, s) ==
  LET most == st.investedThisStreet[s] + st.chips[s]
  IN  Min({st.currentBet + st.minRaise, most}) .. most

OffersCheck(st, s) == MayAct(st, s) /\ st.investedThisStreet[s] = st.currentBet
OffersCall(st, s) == MayAct(st, s) /\ st.investedThisStreet[s] # st.currentBet
OffersBet(st, s, amount) ==
  MayAct(st, s) /\ st.currentBet = 0 /\ amount \in BetBounds(st, s)
OffersRaise(st, s, raiseTo) ==
  /\ MayAct(st, s)
  /\ st.currentBet # 0
  /\ st.investedThisStreet[s] + st.chips[s] > st.currentBet
  /\ raiseTo \in RaiseBounds(st, s)
=============================================================================
