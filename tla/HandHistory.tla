---------------------------- MODULE HandHistory ----------------------------
(***************************************************************************)
(* What MySQL keeps of the hand on the table of PokerHand, and what is     *)
(* read back of it: the replay and the statistics.  A request's writes are *)
(* one step here; PracticeGame tells them apart.                           *)
(*                                                                         *)
(* Of the rows PracticeAction the model keeps, by seat, what their readers *)
(* make of them: the sum of the amounts and the types taken before the     *)
(* flop.  The rows of earlier hands do not change any more.                *)
(***************************************************************************)
EXTENDS PokerHand

VARIABLE record   \* the PracticeHand on the table with its players and actions

historyVars == <<game, record>>

-----------------------------------------------------------------------------
(* Rows *)

ActionTypes == {"SMALL_BLIND", "BIG_BLIND", "FOLD", "CHECK", "CALL", "BET", "RAISE", "ALL_IN"}
FinalStatuses == PlayerStatuses \cup {"WINNER", "LOST", "ROOM_ENDED"}

HandPlayer ==
  [ invested : Nat, netResult : Int, finalStatus : FinalStatuses, showdown : BOOLEAN ]
Records ==
  [ status : {"PLAYING", "FINISHED"}, players : [Seats -> HandPlayer],
    paid : [Seats -> Nat], preflop : [Seats -> SUBSET ActionTypes],
    deals : SUBSET (3..5), wins : [Seats -> Nat] ]

AtShowdown(st) == Cardinality(Contenders(st)) > 1

\* A seat that a pot names as its winner gets at least a chip of it.
FinalStatus(st, s) ==
  IF st.won[s] > 0 THEN "WINNER"
  ELSE IF \/ st.playerStatus[s] = "FOLDED"
          \/ st.playerStatus[s] = "ALL_IN" /\ st.chips[s] = 0
          \/ st.chips[s] >= st.startHandChips[s]
       THEN st.playerStatus[s] ELSE "LOST"

\* Mutant: whoever did not fold is said to have shown his cards.
HandPlayerResultShown(st, s) ==
  [ invested |-> st.investedThisHand[s], netResult |-> st.chips[s] - st.startHandChips[s],
    finalStatus |-> FinalStatus(st, s), showdown |-> st.playerStatus[s] # "FOLDED" ]

HandPlayerResult(st, s) ==
  [ invested |-> st.investedThisHand[s], netResult |-> st.chips[s] - st.startHandChips[s],
    finalStatus |-> FinalStatus(st, s),
    showdown |-> AtShowdown(st) /\ st.playerStatus[s] # "FOLDED" ]

\* The WIN rows, by seat.
FinishedSystemActions(st) == st.won

PersistFinishedHand(rec, st) ==
  [rec EXCEPT !.status = "FINISHED", !.wins = FinishedSystemActions(st),
              !.players = [ s \in Seats |-> HandPlayerResult(st, s) ]]

\* The stacks stay as they are, without what was put into the pot.
PersistAbortedHand(rec, st) ==
  [rec EXCEPT !.status = "FINISHED",
              !.players = [ s \in Seats |->
                [ invested |-> st.investedThisHand[s],
                  netResult |-> st.chips[s] - st.startHandChips[s],
                  finalStatus |-> "ROOM_ENDED", showdown |-> FALSE ] ]]

IfFinished(rec, st) ==
  IF st.status = "HAND_FINISHED" THEN PersistFinishedHand(rec, st) ELSE rec

\* The rows of the blinds: their types, and what a seat had to post.
Blinds(st, s) == { type \in {"SMALL_BLIND", "BIG_BLIND"} :
  s = IF type = "SMALL_BLIND" THEN st.smallBlindSeat ELSE st.bigBlindSeat }
Posted(st, s) ==
  CASE s = st.smallBlindSeat -> Min({st.startHandChips[s], SmallBlind})
    [] s = st.bigBlindSeat -> Min({st.startHandChips[s], BigBlind})
    [] OTHER -> 0

\* The rows of a hand whose blinds have been posted.
CreatedHand(st) ==
  LET dealtIn(s) == [ invested |-> 0, netResult |-> 0, finalStatus |-> st.playerStatus[s],
                      showdown |-> FALSE ]
  IN  IfFinished([ status |-> "PLAYING", players |-> [ s \in Seats |-> dealtIn(s) ],
                   paid |-> [ s \in Seats |-> Posted(st, s) ],
                   preflop |-> [ s \in Seats |-> Blinds(st, s) ],
                   deals |-> {}, wins |-> [ s \in Seats |-> 0 ] ], st)

-----------------------------------------------------------------------------
(* An action and its rows *)

WithAction(s, type, amount) ==
  [record EXCEPT !.paid[s] = @ + amount,
                 !.preflop[s] = IF game.street = "PREFLOP" THEN @ \cup {type} ELSE @]

\* No DEAL row tells of the cards that finish a hand.
WithDeal(rec) ==
  IF game'.street = game.street \/ game'.status = "HAND_FINISHED" THEN rec
  ELSE [rec EXCEPT !.deals = @ \cup {game'.boardCards}]

Persists(s, type, amount) ==
  record' = IfFinished(WithDeal(WithAction(s, type, amount)), game')

ToCall(s) == game.currentBet - game.investedThisStreet[s]

FoldIsKept(s) == Fold(s) /\ Persists(s, "FOLD", 0)
CheckIsKept(s) == Check(s) /\ Persists(s, "CHECK", 0)
CallIsKept(s) == Call(s) /\ Persists(s, "CALL", Min({game.chips[s], ToCall(s)}))
BetIsKept(s) == \E amount \in 1..game.chips[s] : Bet(s, amount) /\ Persists(s, "BET", amount)

\* Mutant: the row of a raise has the amount that was raised to.
RaiseIsKeptWhole(s) == \E raiseTo \in 1..(game.investedThisStreet[s] + game.chips[s]) :
  Raise(s, raiseTo) /\ Persists(s, "RAISE", raiseTo)

RaiseIsKept(s) == \E raiseTo \in 1..(game.investedThisStreet[s] + game.chips[s]) :
  Raise(s, raiseTo) /\ Persists(s, "RAISE", raiseTo - game.investedThisStreet[s])
AllInIsKept(s) == AllIn(s) /\ Persists(s, "ALL_IN", game.chips[s])

ActionIsKept(s) ==
  \/ FoldIsKept(s) \/ CheckIsKept(s) \/ CallIsKept(s)
  \/ BetIsKept(s) \/ RaiseIsKept(s) \/ AllInIsKept(s)

NextHandIsKept == NextHand /\ record' = CreatedHand(game')

FinishRoomIsKept == FinishRoom /\ UNCHANGED record

\* The owner ends the room, whatever is going on; the table is deleted.
EndRoom ==
  /\ game.status # "ROOM_FINISHED"
  /\ record' = IF Playing THEN PersistAbortedHand(record, game) ELSE record
  /\ game' = [game EXCEPT !.status = "ROOM_FINISHED", !.currentTurnSeat = NoSeat]

HistoryInit == Init /\ record = CreatedHand(game)
HistoryNext ==
  (\E s \in Seats : ActionIsKept(s)) \/ NextHandIsKept \/ FinishRoomIsKept \/ EndRoom
HistorySpec == HistoryInit /\ [][HistoryNext]_historyVars

\* As in LiveSpec of PokerHand, WF of the actions of the seats: while a hand is played
\* there is no other step but the end of the room.
SeatsAct == []<>~Playing \/ []<><<Playing>>_historyVars

-----------------------------------------------------------------------------
(* What is read back *)

\* Whose hole cards a viewer is shown at the table.
PublicGameState == {}
PrivateHandState(viewer) == {viewer}
UserGameView(viewer) == PublicGameState \cup PrivateHandState(viewer)

\* Whose he is shown in the hand, where all are once it is over, and in its replay.  The latest
\* replay is this hand's once it is over, and an earlier one's until then.
GetHand(viewer) == IF record.status = "FINISHED" THEN Seats ELSE {viewer}
HandReplay(viewer) == { s \in Seats : s = viewer \/ record.players[s].showdown }
GetHandReplay(viewer) == HandReplay(viewer)
GetLatestHandReplay(viewer) == IF record.status = "FINISHED" THEN HandReplay(viewer) ELSE {}

\* Mutant: going all-in does not count.
VoluntaryActionTypesButAllIn == {"CALL", "BET", "RAISE"}
VoluntaryActionTypes == {"CALL", "BET", "RAISE", "ALL_IN"}

PreflopRaiseActionTypes == {"RAISE", "ALL_IN"}
PreflopVoluntary(s) == record.preflop[s] \cap VoluntaryActionTypes # {}

\* What a hand that is over adds to the numbers of its players.
PracticeRows == IF record.status = "FINISHED" THEN Seats ELSE {}
CalculatePracticeMetrics(s) ==
  LET row == record.players[s]
      won == row.finalStatus = "WINNER"
  IN  [ netResult |-> row.netResult, win |-> won, vpip |-> PreflopVoluntary(s),
        pfr |-> record.preflop[s] \cap PreflopRaiseActionTypes # {},
        wtsd |-> row.showdown, wsd |-> row.showdown /\ won ]

-----------------------------------------------------------------------------
(* Properties *)

\* The replay adds up: what the rows of a seat's actions paid is what it has in the
\* pot, the streets dealt are those it saw, and its result is what the WIN rows paid
\* it less what its actions cost.
ReplaysAddUp ==
  /\ Playing => record.deals = 3..game.boardCards
  /\ \A s \in Seats : /\ record.paid[s] = game.investedThisHand[s]
                      /\ record.status = "FINISHED" =>
                           record.players[s].netResult = record.wins[s] - record.paid[s]

\* The statistics count what happened: VPIP the hands a seat paid more into before the
\* flop than it had to post, short stacks and all-ins included; the wins every hand it
\* left with more chips, and those without a showdown only if all others gave up.
StatisticsCountTheHand ==
  /\ \A s \in Seats :
       /\ PreflopVoluntary(s) => record.paid[s] > Posted(game, s)
       /\ game.street = "PREFLOP" /\ ~PreflopVoluntary(s) => record.paid[s] = Posted(game, s)
  /\ \A s \in PracticeRows : LET m == CalculatePracticeMetrics(s) IN
       /\ m.netResult > 0 => m.win
       /\ m.win /\ ~m.wtsd => \A t \in Seats \ {s} : game.playerStatus[t] \in {"FOLDED", "OUT"}

\* The replay of a hand shows, besides the viewer's own, exactly the cards of a showdown that was
\* held: nobody's who folded, who won without one or was dealt in when the room ended, and nobody's
\* while the hand is played.  So long getHand hides them too; of a hand that is over it answers
\* everybody's, those the replay hides among them, and listHands does at any time.
ReplaysShowTheShowdown ==
  \A v \in Seats :
    /\ Playing => UserGameView(v) \cup GetHand(v) \cup GetLatestHandReplay(v) = {v}
    /\ \A s \in Seats \ {v} : game.playerStatus[s] # "OUT" =>
         (s \in GetHandReplay(v) <=>
            /\ AtShowdown(game) /\ s \in Contenders(game)
            /\ \E w \in Seats : record.wins[w] > 0)
=============================================================================
