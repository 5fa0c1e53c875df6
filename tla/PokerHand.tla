----------------------------- MODULE PokerHand -----------------------------
(***************************************************************************)
(* A table that plays hand after hand by the rules of PokerRules: the      *)
(* seats act in turn through applyGameAction, and a finished hand is       *)
(* followed by the next one, dealt from the stacks it left, until fewer    *)
(* than two seats have chips.                                              *)
(*                                                                         *)
(* This is the sequential core: one request at a time, nothing lost.       *)
(***************************************************************************)
EXTENDS PokerRules

CONSTANTS
  BuyIns,       \* the stacks a seat may bring into the first hand
  Ranks         \* the values hands are compared by at a showdown

ASSUME BuyInsAssumption == BuyIns \subseteq Nat \ {0}
ASSUME RanksAssumption == Ranks \subseteq Nat /\ Ranks # {}

VARIABLE game   \* the GameState

vars == game

-----------------------------------------------------------------------------
(* The first hand is dealt with the lowest seat on the button. *)
Init ==
  \E chips \in [Seats -> BuyIns] :
    /\ CanStartHand(chips)
    /\ game \in InitialGameStates(chips, Min(Funded(chips)), Ranks)

\* The outcome of an accepted action: its mutation, normalised.
Becomes(st, s) == game' \in NormalizeAfterAction(st, s, Ranks)

Fold(s) == MayAct(game, s) /\ Becomes(Folded(game, s), s)
Check(s) == MayCheck(game, s) /\ Becomes(Checked(game, s), s)
Call(s) == MayCall(game, s) /\ Becomes(Called(game, s), s)
Bet(s, amount) == MayBet(game, s, amount) /\ Becomes(BetPlaced(game, s, amount), s)
Raise(s, raiseTo) == MayRaise(game, s, raiseTo) /\ Becomes(RaisedTo(game, s, raiseTo), s)
AllIn(s) == MayAct(game, s) /\ Becomes(WentAllIn(game, s), s)

\* A seat's choice; amounts above its stack are refused, so none is tried.
Act(s) ==
  \/ Fold(s) \/ Check(s) \/ Call(s) \/ AllIn(s)
  \/ \E amount \in 1..game.chips[s] : Bet(s, amount)
  \/ \E raiseTo \in 1..(game.investedThisStreet[s] + game.chips[s]) : Raise(s, raiseTo)

\* nextHand of the game service, which is where nextDealerSeat is called.
NextHand ==
  LET dealer == NextDealerSeat(game.chips, game.dealerSeat)
  IN  /\ game.status = "HAND_FINISHED"
      /\ dealer # NoSeat
      /\ game' \in InitialGameStates(game.chips, dealer, Ranks)

FinishRoom ==
  /\ game.status = "HAND_FINISHED"
  /\ NextDealerSeat(game.chips, game.dealerSeat) = NoSeat
  /\ game' = [game EXCEPT !.status = "ROOM_FINISHED", !.currentTurnSeat = NoSeat]

Next == (\E s \in Seats : Act(s)) \/ NextHand \/ FinishRoom

Spec == Init /\ [][Next]_vars

\* Players who keep acting: WF_vars(\E s \in Seats : Act(s)), as some seat can act
\* whenever a hand is played.  Nothing makes the owner deal the next hand.
LiveSpec ==
  Spec /\ ([]<>(game.status # "PLAYING") \/ []<><<\E s \in Seats : Act(s)>>_vars)

-----------------------------------------------------------------------------
(* Type invariant *)

\* Every field has the type GameState declares for it.
TypeOK == game \in GameStates

-----------------------------------------------------------------------------
(* Safety *)

Playing == game.status = "PLAYING"

\* While a hand is played, the turn is with a seat that still may act and owes
\* the street an action: the table never waits for a seat that cannot move.
TurnIsPlayable == Playing => game.currentTurnSeat \in ToAct(game)

\* Seat by seat, the stack and what was put into the hand are what the seat
\* started the hand with plus what the hand paid it.
ChipsAccounted ==
  \A s \in Seats : game.chips[s] + game.investedThisHand[s]
                     = game.startHandChips[s] + game.won[s]

\* The bet to match is what the boldest seat has in on this street, also after
\* short blinds, short all-ins and folds.
BetIsHighestInvestment ==
  Playing => game.currentBet = Max({ game.investedThisStreet[s] : s \in Seats })

\* Streets that are over are square: a seat that can still act has paid as
\* much into them as any other seat, folded or all-in.
EarlierStreets(s) == game.investedThisHand[s] - game.investedThisStreet[s]
FinishedStreetsAreSquare ==
  Playing => \A s, t \in Seats :
    CanStillAct(game, s) => EarlierStreets(t) <= EarlierStreets(s)

\* Whatever getLegalActions offers, with any amount inside the bounds it shows,
\* applyGameAction accepts.
OffersAreAccepted ==
  \A s \in Seats :
    /\ OffersCheck(game, s) => MayCheck(game, s)
    /\ OffersCall(game, s) => MayCall(game, s)
    /\ \A amount \in 1..game.chips[s] :
         OffersBet(game, s, amount) => MayBet(game, s, amount)
    /\ \A raiseTo \in 0..(game.investedThisStreet[s] + game.chips[s]) :
         OffersRaise(game, s, raiseTo) => MayRaise(game, s, raiseTo)

\* The whole pot is paid at a showdown: what totalPot of winnerInfo announces.
ShowdownPaysThePot ==
  game.status = "HAND_FINISHED" => ChipTotal(game.won) = Pot(game)

-----------------------------------------------------------------------------
(* Liveness *)

\* If the seats in turn keep acting, every hand comes to its end.
HandsFinish == Playing ~> ~Playing
=============================================================================
