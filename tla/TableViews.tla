----------------------------- MODULE TableViews -----------------------------
(***************************************************************************)
(* What the pages of the mini program make of a table: the seats           *)
(* friend-table draws and where, whose turn the pages say it is, and what  *)
(* they send of what a player taps and types.  TablePages has when they    *)
(* ask and send.                                                           *)
(***************************************************************************)
EXTENDS BotDecision, SequencesExt

CONSTANTS
  TableSizes,   \* how many players a table has that the page draws
  Typed         \* bound: the amounts a player types in, 0 for none

ASSUME TableSizesAssumption == TableSizes \subseteq 2..9
ASSUME TypedAssumption == Typed \subseteq Nat

VARIABLE screen   \* a table to draw: its players, and the seats of the viewer, the turn and the button

\* The players are those that are not out, so the viewer's seat need not be among them; and a
\* hand that is over has nobody in turn.  No seat is 0.
NobodySeat == 0
Screens == UNION { [ players : {1..n}, me : 0..n, turn : 0..n, dealer : 1..n ] : n \in TableSizes }
NoScreen == [ players |-> {}, me |-> NobodySeat, turn |-> NobodySeat, dealer |-> NobodySeat ]

-----------------------------------------------------------------------------
(* updateSeatPlayers and assignPosition *)

PrioritySeats(v) == {v.me, v.turn, v.dealer} \cap v.players

\* The seats that matter most, then the others by seat order while there is room.
SeatPlayers(v) ==
  LET others == v.players \ PrioritySeats(v)
      room   == 9 - Cardinality(PrioritySeats(v))
  IN  PrioritySeats(v) \cup { s \in others : Cardinality({ t \in others : t < s }) < room }

OverflowPlayers(v) == v.players \ SeatPlayers(v)

Places == {"top", "bot"} \cup {"t0", "t1", "t2", "l0", "r0", "r1", "b0", "b1", "b2"}

\* Mutant: seven players are drawn in two rows, as six are.
AssignPositionInRows(index, count) ==
  CASE count <= 2 -> IF index = 0 THEN "top" ELSE "bot"
    [] count = 3 -> <<"t0", "t1", "bot">>[index + 1]
    [] count = 4 -> <<"t0", "t1", "b0", "b1">>[index + 1]
    [] count \in 5..7 -> <<"t0", "t1", "t2", "b0", "b1", "b2", "b3">>[index + 1]
    [] OTHER -> (<<"t0", "t1", "t2">> \o SubSeq(<<"l0", "r0", "r1">>, 1, count - 6)
                                      \o <<"b0", "b1", "b2">>)[index + 1]

\* Three at the top, three at the bottom and from seven players on the sides in between.
AssignPosition(index, count) ==
  CASE count <= 2 -> IF index = 0 THEN "top" ELSE "bot"
    [] count = 3 -> <<"t0", "t1", "bot">>[index + 1]
    [] count = 4 -> <<"t0", "t1", "b0", "b1">>[index + 1]
    [] count \in 5..6 -> <<"t0", "t1", "t2", "b0", "b1", "b2">>[index + 1]
    [] OTHER -> (<<"t0", "t1", "t2">> \o SubSeq(<<"l0", "r0", "r1">>, 1, count - 6)
                                      \o <<"b0", "b1", "b2">>)[index + 1]

\* Where each seat that is drawn has its place, the seats in order.
Position(v, s) ==
  AssignPosition(Cardinality({ t \in SeatPlayers(v) : t < s }), Cardinality(SeatPlayers(v)))

-----------------------------------------------------------------------------
(* The turn, the buttons and what they send *)

UpdateMyTurn(s) == game.currentTurnSeat = s /\ game.status = "PLAYING"

\* The amounts a button stands for, 0 where it needs none; no button without any.
LegalActionMap(s) ==
  [ FOLD   |-> IF MayAct(game, s) THEN {0} ELSE {},
    ALL_IN |-> IF MayAct(game, s) THEN {0} ELSE {},
    CHECK  |-> IF OffersCheck(game, s) THEN {0} ELSE {},
    CALL   |-> IF OffersCall(game, s) THEN {0} ELSE {},
    BET    |-> BetsOffered(game, s),
    RAISE  |-> RaisesOffered(game, s) ]
Enabled(map) == { type \in DOMAIN map : map[type] # {} }

\* practice-room: without an amount the least is sent, and none outside the bounds.
SoloSends(amounts, type, typed) ==
  LET amount == IF typed > 0 THEN typed ELSE Min(amounts)
  IN  IF type \in {"BET", "RAISE"}
      THEN { Decision(type, a) : a \in {amount} \cap (Min(amounts) .. Max(amounts)) }
      ELSE {Decision(type, 0)}

\* friend-table: its map keeps of an action that it is offered, not its amounts.
FriendLegalActionMap(s) == Enabled(LegalActionMap(s))

\* So nothing is sent without an amount and any amount is; the engine has to refuse it.
FriendSends(type, typed) ==
  IF type \in {"BET", "RAISE"} THEN { Decision(type, a) : a \in {typed} \ {0} }
  ELSE {Decision(type, 0)}

-----------------------------------------------------------------------------
(* Properties *)

\* Every player of a table as large as a room may be is drawn, and no two of them in the
\* same place (updateSeatPlayers: "at most nine seats", the viewer, the actor and the
\* dealer always among them).
SeatsAreReadable ==
  screen # NoScreen =>
    /\ OverflowPlayers(screen) = {}
    /\ { Position(screen, s) : s \in screen.players } \subseteq Places
    /\ \A s, t \in screen.players : s # t => Position(screen, s) # Position(screen, t)

\* The player a page tells that it is his turn has a button to tap, and nobody else has;
\* whatever practice-room then sends is accepted, and from either page all can be sent that
\* the server offers.  Of a bot in turn, of any level, at any strength and after any draws,
\* every decision is accepted: a refused one is not tried again and would leave the table
\* waiting for its bot.
DecisionsAreAccepted ==
  /\ \A s \in Seats : LET map == LegalActionMap(s) IN
       /\ UpdateMyTurn(s) <=> Enabled(map) # {}
       /\ \A type \in Enabled(map) : LET amounts == map[type] IN \A typed \in Typed :
            /\ \A decision \in SoloSends(amounts, type, typed) : Accepts(game, s, decision)
            /\ (type \in FriendLegalActionMap(s) /\ typed \in amounts) =>
                 SoloSends(amounts, type, typed) = FriendSends(type, typed)
  /\ BotsDecideLegally
=============================================================================
