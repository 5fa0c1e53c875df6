---------------------------- MODULE BotDecision ----------------------------
(***************************************************************************)
(* What the bots at the table of PokerHand decide (decideBotAction of      *)
(* packages/shared/src/poker/bot/bot-strategy.ts).                         *)
(*                                                                         *)
(* Shares and strengths are percents.  The strength of the hand, which     *)
(* preflop.ts and postflop.ts estimate from cards the table of PokerHand   *)
(* does not have, and the draws of random() may be anything.               *)
(***************************************************************************)
EXTENDS PokerHand

CONSTANT Strengths    \* bound: the adjusted strengths that are tried

ASSUME StrengthsAssumption == Strengths \subseteq 0..100

BotLevels == {"BEGINNER", "NORMAL", "ADVANCED"}
ProfileFor ==
  [ BEGINNER |-> [raiseStrong |-> 78, betStrong |-> 60, callThreshold |-> 25, curiosity |-> 16],
    NORMAL   |-> [raiseStrong |-> 68, betStrong |-> 52, callThreshold |-> 20, curiosity |-> 6],
    ADVANCED |-> [raiseStrong |-> 60, betStrong |-> 46, callThreshold |-> 16, curiosity |-> 2] ]

\* What getLegalActions offers: the amounts of a bet or raise, none if it is not offered.
BetsOffered(st, s) == { amount \in BetBounds(st, s) : OffersBet(st, s, amount) }
RaisesOffered(st, s) == { raiseTo \in RaiseBounds(st, s) : OffersRaise(st, s, raiseTo) }

\* Math.round of a share of the pot
Share(percent, st) == (2 * percent * Pot(st) + 100) \div 200
Within(amounts, target) == Max({Min(amounts), Min({Max(amounts), target})})

ChooseBetAmount(amounts, st, strength) ==
  Within(amounts, Max({st.minRaise, Share(IF strength > 70 THEN 65 ELSE 45, st)}))

\* Mutant: a raise is sized by the pot and not held below the stack.
ChooseRaiseAmountFreely(amounts, st, strength) ==
  Max({Min(amounts), st.currentBet + Max({st.minRaise, Share(IF strength > 80 THEN 80 ELSE 55, st)})})

ChooseRaiseAmount(amounts, st, strength) ==
  Within(amounts, st.currentBet + Max({st.minRaise, Share(IF strength > 80 THEN 80 ELSE 55, st)}))

Decision(type, amount) == [actionType |-> type, amount |-> amount]

\* A bot that neither bets nor raises.
PassiveDecision(st, s, profile, strength) ==
  LET callAmount == Min({st.chips[s], st.currentBet - st.investedThisStreet[s]})
      equity     == (strength + profile.curiosity - profile.callThreshold) * (Pot(st) + callAmount)
      type ==
        IF ~OffersCall(st, s) THEN "CHECK"
        ELSE IF equity >= 100 * callAmount THEN "CALL"
        ELSE IF strength > 86 /\ st.chips[s] <= Pot(st) THEN "ALL_IN" ELSE "FOLD"
  IN  Decision(type, 0)

\* All that may come of the draws: each of the three only if the one before was not taken.
BotDecisions(st, s, level, strength) ==
  LET profile == ProfileFor[level]
      bets    == BetsOffered(st, s)
      raises  == RaisesOffered(st, s)
      offered == bets \cup raises
      active  == Decision(IF bets # {} THEN "BET" ELSE "RAISE",
                          ChooseBetAmount(offered, st, 40))
  IN  {PassiveDecision(st, s, profile, strength)}
      \cup (IF raises # {} /\ strength >= profile.raiseStrong
            THEN {Decision("RAISE", ChooseRaiseAmount(raises, st, strength))} ELSE {})
      \cup (IF bets # {} /\ strength >= profile.betStrong
            THEN {Decision("BET", ChooseBetAmount(bets, st, strength))} ELSE {})
      \cup (IF offered # {} /\ strength < 35 THEN {active} ELSE {})

\* What applyGameAction says to it.
Accepts(st, s, decision) ==
  CASE decision.actionType = "CHECK" -> MayCheck(st, s)
    [] decision.actionType = "CALL"  -> MayCall(st, s)
    [] decision.actionType = "BET"   -> MayBet(st, s, decision.amount)
    [] decision.actionType = "RAISE" -> MayRaise(st, s, decision.amount)
    [] OTHER -> MayAct(st, s)

-----------------------------------------------------------------------------
\* Whatever a bot decides, of any level, at any strength and after any draws,
\* applyGameAction accepts: a refused decision is not tried again and would
\* leave the table waiting for its bot.
BotsDecideLegally ==
  Playing => \A level \in BotLevels, strength \in Strengths :
    \A decision \in BotDecisions(game, game.currentTurnSeat, level, strength) :
      Accepts(game, game.currentTurnSeat, decision)
=============================================================================
