---------------------------- MODULE PokerEngine ----------------------------
(***************************************************************************)
(* The poker engine (packages/shared/src/poker): tables that play hands,   *)
(* with their records, what bots decide at them and what the pages send    *)
(* to them, whose contenders are ranked by chance; showdowns of seats with *)
(* cards or any ranks and any stakes, more of them than such tables come   *)
(* to; and larger tables to draw.                                          *)
(***************************************************************************)
EXTENDS TableViews, HandHistory, Showdown

VARIABLE part  \* what is examined

engineVars == <<historyVars, showdownVars, screen, part>>

\* A table nobody plays at, for the showdowns and the screens.
IdleTable == \E dealt \in InitialGameStates([ s \in Seats |-> Min(BuyIns) ], Min(Seats), {Min(Ranks)}) :
  /\ game = [dealt EXCEPT !.status = "ROOM_FINISHED", !.currentTurnSeat = NoSeat]
  /\ record = PersistAbortedHand(CreatedHand(dealt), dealt)

EngineInit ==
  \/ part = "hands" /\ HistoryInit /\ NoShowdown /\ screen = NoScreen
  \/ part = "showdowns" /\ IdleTable /\ ShowdownInit /\ screen = NoScreen
  \/ part = "screens" /\ IdleTable /\ NoShowdown /\ screen \in Screens

PlaysHands == part = "hands" /\ HistoryNext /\ UNCHANGED <<showdownVars, screen, part>>
ShowsDown == part = "showdowns" /\ ShowdownNext /\ UNCHANGED <<historyVars, screen, part>>
EngineNext == PlaysHands \/ ShowsDown

EngineSpec == EngineInit /\ [][EngineNext]_engineVars /\ SeatsAct
=============================================================================
