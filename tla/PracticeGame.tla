---------------------------- MODULE PracticeGame ----------------------------
(***************************************************************************)
(* The practice game service                                               *)
(* (apps/api/src/practice-game/practice-game.service.ts): the table of one *)
(* room in Redis, its rows in MySQL and the bot timer of the process.      *)
(*                                                                         *)
(* A request, or the bot timer's callback, is a handler.  It runs from one *)
(* await to the next without interruption and takes no lock, so a handler  *)
(* is a program counter and the table it computed, and an action here is   *)
(* one write it awaits together with the code that follows.  Consecutive   *)
(* reads of what no other handler can change in between are one step.  At  *)
(* most |Slots| handlers are in progress.                                  *)
(*                                                                         *)
(* Not represented: hole cards and boards beyond how the final hands rank, *)
(* the views returned to the caller, and the rows DEAL, SHOWDOWN and WIN   *)
(* beyond how often a hand was closed.                                     *)
(***************************************************************************)
EXTENDS PokerRules

CONSTANTS
  BotSeats,          \* the seats played by bots
  BuyIn,             \* the practice chips each seat has set for itself
  Ranks,             \* the values final hands are compared by
  BotActionMax,      \* BOT_ACTION_MAX_PER_HAND
  Slots,             \* handlers that may be in progress at once
  MaxHands,          \* bound: hands dealt in the room
  MaxTrouble         \* bound: failed handlers, restarts of the process and handlers
                     \* that begin while another is in progress, together

ASSUME BotSeatsAssumption == BotSeats \subseteq Seats
ASSUME BuyInAssumption == BuyIn \in [Seats -> Nat \ {0}]
\* assertRoomReadyToStart: at least two players.
ASSUME PlayersAssumption == Cardinality(Seats) >= 2
ASSUME RanksAssumption == Ranks \subseteq Nat /\ Ranks # {}
ASSUME BoundsAssumption == {BotActionMax, MaxHands, MaxTrouble} \subseteq Nat

VARIABLES
  redis,        \* the table stored under game_state:<roomCode>
  room,         \* practiceRoom.status
  hands,        \* practiceHand rows by handNo, with their hand players
  stacks,       \* practiceRoomPlayer.chips
  timer,        \* whether botTimers holds a timer that has not fired
  botCounts,    \* botActionCounts by handNo
  slot,         \* the handlers in progress
  faults,       \* faults so far
  overlaps      \* handlers so far that began while another was in progress

rows == <<room, hands, stacks>>
process == <<timer, botCounts, slot>>
vars == <<redis, rows, process, faults, overlaps>>

\* A stored table is [handNo, acts, cards, game]: acts is the length of
\* actionHistory after the blinds, cards how the final hands will rank.
NoTable == [handNo |-> 0]
IsTable(t) == t.handNo # 0
Idle == [pc |-> "idle"]
Unpaid == -1         \* endChips is null
NoHand == [status |-> "NONE"]

-----------------------------------------------------------------------------
(* Decisions *)

Decision(type, amount) == [type |-> type, amount |-> amount]

Decisions ==
  { Decision(type, 0) : type \in {"FOLD", "CHECK", "CALL", "ALL_IN"} }
    \cup { Decision(type, amount) : type \in {"BET", "RAISE"},
                                    amount \in 1..ChipTotal(BuyIn) }

\* applyGameAction accepts d, and what it then does to the state.
Accepts(st, s, d) ==
  \/ d.type \in {"FOLD", "ALL_IN"} /\ MayAct(st, s)
  \/ d.type = "CHECK" /\ MayCheck(st, s)
  \/ d.type = "CALL" /\ MayCall(st, s)
  \/ d.type = "BET" /\ MayBet(st, s, d.amount)
  \/ d.type = "RAISE" /\ MayRaise(st, s, d.amount)

Mutated(st, s, d) ==
  CASE d.type = "FOLD" -> Folded(st, s)
    [] d.type = "CHECK" -> Checked(st, s)
    [] d.type = "CALL" -> Called(st, s)
    [] d.type = "BET" -> BetPlaced(st, s, d.amount)
    [] d.type = "RAISE" -> RaisedTo(st, s, d.amount)
    [] d.type = "ALL_IN" -> WentAllIn(st, s)

\* The bot decides on one of the actions it is offered.
Offered(st, s, d) ==
  \/ d.type \in {"FOLD", "ALL_IN"} /\ MayAct(st, s)
  \/ d.type = "CHECK" /\ OffersCheck(st, s)
  \/ d.type = "CALL" /\ OffersCall(st, s)
  \/ d.type = "BET" /\ OffersBet(st, s, d.amount)
  \/ d.type = "RAISE" /\ OffersRaise(st, s, d.amount)

\* The deck is part of the state, so whoever computes a showdown of a hand
\* pays it by the same cards.
PaidByCards(st, cards) ==
  (st.status = "HAND_FINISHED" /\ Cardinality(Contenders(st)) > 1) =>
    st.won = Payouts(st.investedThisHand, Contenders(st), cards)

AfterDecision(t, s, d) ==
  { [t EXCEPT !.acts = @ + 1, !.game = st] :
      st \in { n \in NormalizeAfterAction(Mutated(t.game, s, d), s, Ranks) :
                 PaidByCards(n, t.cards) } }

FirstTables(handNo, chips, dealer) ==
  UNION { { [handNo |-> handNo, acts |-> 0, cards |-> cards, game |-> st] :
              st \in { n \in InitialGameStates(chips, dealer, Ranks) :
                         PaidByCards(n, cards) } }
          : cards \in [Seats -> Ranks] }

-----------------------------------------------------------------------------
(* Init: a room that is READY and that nobody has started. *)

\* A friends' room, made READY by its lobby, has no bots; in a solo room they sit down beside
\* its owner, all with the same stack.
FriendsRoomReady == BotSeats = {}
CreateSoloRoom == \A s \in Seats : /\ s \in BotSeats <=> s # Min(Seats)
                                   /\ BuyIn[s] = BuyIn[Min(Seats)]

Init ==
  /\ FriendsRoomReady \/ CreateSoloRoom
  /\ redis = NoTable
  /\ room = "READY"
  /\ hands = [ n \in 1..MaxHands |-> NoHand ]
  /\ stacks = BuyIn
  /\ timer = FALSE
  /\ botCounts = [ n \in 1..MaxHands |-> 0 ]
  /\ slot = [ h \in Slots |-> Idle ]
  /\ faults = 0
  /\ overlaps = 0

At(h, pc) == slot[h].pc = pc
Becomes(h, handler) == slot' = [slot EXCEPT ![h] = handler]
Quiet == \A h \in Slots : At(h, "idle")
Goto(h, pc) == Becomes(h, [slot[h] EXCEPT !.pc = pc])

\* A handler begins, alone or while another one is in progress.
Begins(h) ==
  /\ At(h, "idle")
  /\ overlaps' = overlaps + (IF \E g \in Slots \ {h} : ~At(g, "idle") THEN 1 ELSE 0)
  /\ faults + overlaps' <= MaxTrouble

Computed(kind, table, pc) == [pc |-> pc, kind |-> kind, table |-> table, left |-> Seats]

-----------------------------------------------------------------------------
(* applyAction and applySeatAction *)

\* Reads the table and applies d; a refusal ends the request.
ReadAndApply(h, s, d) ==
  /\ IsTable(redis)
  /\ Accepts(redis.game, s, d)
  /\ \E t \in AfterDecision(redis, s, d) : Becomes(h, Computed("act", t, "actionRows"))

PlayerAction(h) ==
  /\ Begins(h)
  /\ \E s \in Seats \ BotSeats, d \in Decisions : ReadAndApply(h, s, d)
  /\ UNCHANGED <<redis, rows, timer, botCounts, faults>>

\* Mutants: the last action of a hand gets no row, or the table is saved before
\* the finished hand is persisted.
ActionRowsWhilePlaying(h) ==
  LET t == slot[h].table
  IN  /\ At(h, "actionRows")
      /\ IF t.game.status = "HAND_FINISHED"
           THEN Goto(h, "handRow") /\ UNCHANGED <<hands, timer>>
           ELSE /\ hands' = [hands EXCEPT ![t.handNo].actions = @ + 1]
                /\ Goto(h, "save")
                /\ timer' = TRUE
      /\ UNCHANGED <<redis, room, stacks, botCounts, faults, overlaps>>
ActionRowsThenSave(h) ==
  /\ At(h, "actionRows")
  /\ hands' = [hands EXCEPT ![slot[h].table.handNo].actions = @ + 1]
  /\ Goto(h, "save")
  /\ timer' = TRUE
  /\ UNCHANGED <<redis, room, stacks, botCounts, faults, overlaps>>

\* After persistActions: a finished hand is persisted first, otherwise the bot
\* timer is set, whoever is in turn, and only then the table is saved.
ActionRows(h) ==
  LET t == slot[h].table
  IN  /\ At(h, "actionRows")
      /\ hands' = [hands EXCEPT ![t.handNo].actions = @ + 1]
      /\ IF t.game.status = "HAND_FINISHED"
           THEN Goto(h, "handRow") /\ UNCHANGED timer
           ELSE Goto(h, "save") /\ timer' = TRUE
      /\ UNCHANGED <<redis, room, stacks, botCounts, faults, overlaps>>

-----------------------------------------------------------------------------
(* persistFinishedHand and persistAbortedHand *)

HandRow(h) ==
  /\ At(h, "handRow")
  /\ hands' = [hands EXCEPT ![slot[h].table.handNo].status = "FINISHED"]
  /\ Goto(h, "stackRows")
  /\ UNCHANGED <<redis, room, stacks, timer, botCounts, faults, overlaps>>

\* Promise.all over the seats: one row each, in any order.
SeatDone(h, s, pc) ==
  LET left == slot[h].left \ {s}
  IN  Becomes(h, IF left # {} THEN [slot[h] EXCEPT !.left = left]
                 ELSE [slot[h] EXCEPT !.left = Seats, !.pc = pc])

\* Mutant: the stacks of the start of the hand are written back.
StackRowOfTheStart(h) ==
  /\ At(h, "stackRows")
  /\ \E s \in slot[h].left :
       /\ stacks' = [stacks EXCEPT ![s] = slot[h].table.game.startHandChips[s]]
       /\ SeatDone(h, s, "resultRows")
  /\ UNCHANGED <<redis, room, hands, timer, botCounts, faults, overlaps>>

StackRow(h) ==
  /\ At(h, "stackRows")
  /\ \E s \in slot[h].left :
       /\ stacks' = [stacks EXCEPT ![s] = slot[h].table.game.chips[s]]
       /\ SeatDone(h, s, "resultRows")
  /\ UNCHANGED <<redis, room, hands, timer, botCounts, faults, overlaps>>

NetResult(t) == [ s \in Seats |-> t.game.chips[s] - t.game.startHandChips[s] ]

ResultRow(h) ==
  LET t == slot[h].table
  IN  /\ At(h, "resultRows")
      /\ \E s \in slot[h].left :
           /\ hands' = [hands EXCEPT ![t.handNo].endChips[s] = t.game.chips[s],
                                     ![t.handNo].net[s] = NetResult(t)[s]]
           /\ SeatDone(h, s, IF slot[h].kind = "end" THEN "roomFinished" ELSE "closingRows")
      /\ UNCHANGED <<redis, room, stacks, timer, botCounts, faults, overlaps>>

ClosingRows(h) ==
  /\ At(h, "closingRows")
  /\ hands' = [hands EXCEPT ![slot[h].table.handNo].closings = @ + 1]
  /\ IF slot[h].kind = "act"
       THEN Goto(h, "save") /\ timer' = FALSE
       ELSE Goto(h, "roomPlaying") /\ UNCHANGED timer
  /\ UNCHANGED <<redis, room, stacks, botCounts, faults, overlaps>>

-----------------------------------------------------------------------------
(* saveState, and what the handler does with the timer afterwards *)

\* How many actions the hands before the one on the table had, and its bots tried, is not
\* kept: nobody counts them any more.
Forgets(n) ==
  /\ hands' = [ m \in 1..MaxHands |-> IF m < n /\ hands[m] # NoHand
                                      THEN [hands[m] EXCEPT !.actions = 0] ELSE hands[m] ]
  /\ botCounts' = [ m \in 1..MaxHands |-> IF m < n THEN 0 ELSE botCounts[m] ]

\* Mutant: dealing a hand does not set the bot timer.
SaveWithoutTimer(h) ==
  /\ At(h, "save")
  /\ redis' = slot[h].table
  /\ timer' = (timer /\ slot[h].kind # "finish")
  /\ Becomes(h, Idle)
  /\ Forgets(slot[h].table.handNo)
  /\ UNCHANGED <<room, stacks, faults, overlaps>>

Save(h) ==
  /\ At(h, "save")
  /\ redis' = slot[h].table
  /\ timer' = CASE slot[h].kind = "act" -> timer
                [] slot[h].kind = "deal" -> TRUE
                [] slot[h].kind = "finish" -> FALSE
  /\ Becomes(h, Idle)
  /\ Forgets(slot[h].table.handNo)
  /\ UNCHANGED <<room, stacks, faults, overlaps>>

-----------------------------------------------------------------------------
(* startFirstHand, nextHand and createAndPersistHand *)

\* The state read first must not be a live one; then the room is checked.
StartFirstHand(h) ==
  /\ Begins(h)
  /\ IsTable(redis) => redis.game.status = "ROOM_FINISHED"
  /\ room = "READY"
  /\ \A s \in Seats : stacks[s] > 0
  /\ Becomes(h, [pc |-> "handNo", chips |-> stacks, dealer |-> Min(Seats)])
  /\ UNCHANGED <<redis, rows, timer, botCounts, faults>>

LatestHand == Max({0} \cup { n \in 1..MaxHands : hands[n].status # "NONE" })

NextHandNo(h) ==
  /\ At(h, "handNo")
  /\ LatestHand < MaxHands
  /\ Becomes(h, [pc |-> "createHand", handNo |-> LatestHand + 1,
                 chips |-> slot[h].chips, dealer |-> slot[h].dealer])
  /\ UNCHANGED <<redis, rows, timer, botCounts, faults, overlaps>>

\* Mutants: the investments are paid back on top of the winnings, or the button
\* stays where it was.
NextHandRefunded(h) ==
  LET dealer == NextDealerSeat(redis.game.chips, redis.game.dealerSeat)
  IN  /\ Begins(h)
      /\ IsTable(redis)
      /\ redis.game.status = "HAND_FINISHED"
      /\ redis.handNo < MaxHands
      /\ dealer # NoSeat
      /\ Becomes(h, [pc |-> "createHand", handNo |-> redis.handNo + 1, dealer |-> dealer,
                     chips |-> [ s \in Seats |-> redis.game.chips[s]
                                                + redis.game.investedThisHand[s] ]])
      /\ UNCHANGED <<redis, rows, timer, botCounts, faults>>
NextHandSameDealer(h) ==
  /\ Begins(h)
  /\ IsTable(redis)
  /\ redis.game.status = "HAND_FINISHED"
  /\ redis.handNo < MaxHands
  /\ CanStartHand(redis.game.chips)
  /\ Becomes(h, [pc |-> "createHand", handNo |-> redis.handNo + 1,
                 chips |-> redis.game.chips, dealer |-> redis.game.dealerSeat])
  /\ UNCHANGED <<redis, rows, timer, botCounts, faults>>

\* The owner asks for the next hand; without two stacks the room is finished.
NextHand(h) ==
  LET dealer == NextDealerSeat(redis.game.chips, redis.game.dealerSeat)
      over   == [redis EXCEPT !.game.status = "ROOM_FINISHED", !.game.currentTurnSeat = NoSeat]
  IN  /\ Begins(h)
      /\ IsTable(redis)
      /\ redis.game.status = "HAND_FINISHED"
      /\ redis.handNo < MaxHands
      /\ Becomes(h, IF dealer = NoSeat THEN Computed("finish", over, "roomFinished")
                    ELSE [pc |-> "createHand", handNo |-> redis.handNo + 1,
                          chips |-> redis.game.chips, dealer |-> dealer])
      /\ UNCHANGED <<redis, rows, timer, botCounts, faults>>

\* (roomId, handNo) is unique: a second row is refused and the request fails.
CreateHand(h) ==
  LET n == slot[h].handNo
  IN  /\ At(h, "createHand")
      /\ IF hands[n].status # "NONE"
           THEN Becomes(h, Idle) /\ UNCHANGED hands
           ELSE /\ hands' = [hands EXCEPT ![n] =
                     [status |-> "PLAYING", players |-> FALSE, actions |-> 0, closings |-> 0,
                      endChips |-> [ s \in Seats |-> Unpaid ], net |-> [ s \in Seats |-> 0 ]]]
                /\ \E t \in FirstTables(n, slot[h].chips, slot[h].dealer) :
                     Becomes(h, Computed("deal", t, "playerRows"))
      /\ UNCHANGED <<redis, room, stacks, timer, botCounts, faults, overlaps>>

PlayerRows(h) ==
  LET t == slot[h].table
  IN  /\ At(h, "playerRows")
      /\ hands' = [hands EXCEPT ![t.handNo].players = TRUE]
      /\ Goto(h, IF t.game.status = "HAND_FINISHED" THEN "handRow" ELSE "roomPlaying")
      /\ UNCHANGED <<redis, room, stacks, timer, botCounts, faults, overlaps>>

\* The room's status is written over whatever it is by now.
RoomPlaying(h) ==
  /\ At(h, "roomPlaying")
  /\ room' = "PLAYING"
  /\ Goto(h, "save")
  /\ UNCHANGED <<redis, hands, stacks, timer, botCounts, faults, overlaps>>

-----------------------------------------------------------------------------
(* endRoom, and closing the room in the lobby or the administration *)

EndRoom(h) ==
  /\ Begins(h)
  /\ Becomes(h, Computed("end", redis,
                  IF IsTable(redis) /\ redis.game.status = "PLAYING"
                  THEN "handRow" ELSE "roomFinished"))
  /\ UNCHANGED <<redis, rows, timer, botCounts, faults>>

\* nextHand goes on to save the finished table, endRoom to delete it.
RoomFinished(h) ==
  /\ At(h, "roomFinished")
  /\ room' = "FINISHED"
  /\ IF slot[h].kind = "end"
       THEN Goto(h, "delete") /\ timer' = FALSE
       ELSE Goto(h, "save") /\ UNCHANGED timer
  /\ UNCHANGED <<redis, hands, stacks, botCounts, faults, overlaps>>

\* Mutant: ending the room leaves the table to expire.
DeleteForgotten(h) ==
  /\ At(h, "delete")
  /\ Becomes(h, Idle)
  /\ UNCHANGED <<redis, rows, timer, botCounts, faults, overlaps>>

DeleteTable(h) ==
  /\ At(h, "delete")
  /\ redis' = NoTable
  /\ Becomes(h, Idle)
  /\ UNCHANGED <<rows, timer, botCounts, faults, overlaps>>

\* A request of a single write.
CloseRoom ==
  /\ room' = "CLOSED"
  /\ overlaps' = overlaps + (IF Quiet THEN 0 ELSE 1)
  /\ faults + overlaps' <= MaxTrouble
  /\ UNCHANGED <<redis, hands, stacks, process, faults>>

-----------------------------------------------------------------------------
(* The bots *)

BotInTurn == /\ IsTable(redis)
             /\ redis.game.status = "PLAYING"
             /\ redis.game.currentTurnSeat \in BotSeats

TimerFires(h) ==
  /\ Begins(h)
  /\ timer
  /\ timer' = FALSE
  /\ Goto(h, "botTurn")
  /\ UNCHANGED <<redis, rows, botCounts, faults>>

\* playBotTurn reads the table.  It gives up unless a bot is in turn, and after
\* BotActionMax attempts in the hand; attempts beyond are not told apart.
BotTurn(h) ==
  /\ At(h, "botTurn")
  /\ IF ~BotInTurn
       THEN Becomes(h, Idle) /\ UNCHANGED botCounts
       ELSE /\ botCounts' = [botCounts EXCEPT ![redis.handNo] = Min({@, BotActionMax}) + 1]
            /\ IF botCounts'[redis.handNo] > BotActionMax
                 THEN Becomes(h, Idle)
                 ELSE \E d \in Decisions :
                        /\ Offered(redis.game, redis.game.currentTurnSeat, d)
                        /\ Becomes(h, [pc |-> "botAct", seat |-> redis.game.currentTurnSeat,
                                       decision |-> d])
  /\ UNCHANGED <<redis, rows, timer, faults, overlaps>>

\* applySeatAction reads the table again; a refused decision is only logged.
BotAction(h) ==
  /\ At(h, "botAct")
  /\ IF IsTable(redis) /\ Accepts(redis.game, slot[h].seat, slot[h].decision)
       THEN ReadAndApply(h, slot[h].seat, slot[h].decision)
       ELSE Becomes(h, Idle)
  /\ UNCHANGED <<redis, rows, timer, botCounts, faults, overlaps>>

-----------------------------------------------------------------------------
(* Faults *)

\* A write of MySQL or Redis fails: the handler ends, what it wrote stays.
HandlerFails(h) ==
  /\ ~At(h, "idle")
  /\ faults + overlaps < MaxTrouble
  /\ faults' = faults + 1
  /\ Becomes(h, Idle)
  /\ UNCHANGED <<redis, rows, timer, botCounts, overlaps>>

\* The process restarts: handlers, timers and counters are lost.
Restart ==
  /\ faults + overlaps < MaxTrouble
  /\ faults' = faults + 1
  /\ slot' = [ h \in Slots |-> Idle ]
  /\ timer' = FALSE
  /\ botCounts' = [ n \in 1..MaxHands |-> 0 ]
  /\ UNCHANGED <<redis, rows, overlaps>>

\* A day without a save; every handler and timer is long done.
TableExpires ==
  /\ IsTable(redis)
  /\ \A h \in Slots : At(h, "idle")
  /\ ~timer
  /\ redis' = NoTable
  /\ UNCHANGED <<rows, process, faults, overlaps>>

-----------------------------------------------------------------------------
HandlerStep(h) ==
  \/ ActionRows(h) \/ HandRow(h) \/ StackRow(h) \/ ResultRow(h) \/ ClosingRows(h)
  \/ Save(h) \/ NextHandNo(h) \/ CreateHand(h) \/ PlayerRows(h) \/ RoomPlaying(h)
  \/ RoomFinished(h) \/ DeleteTable(h) \/ BotTurn(h) \/ BotAction(h)

Request(h) == PlayerAction(h) \/ StartFirstHand(h) \/ NextHand(h) \/ EndRoom(h)

Next ==
  \/ \E h \in Slots : Request(h) \/ HandlerStep(h) \/ TimerFires(h) \/ HandlerFails(h)
  \/ CloseRoom \/ Restart \/ TableExpires

Spec == Init /\ [][Next]_vars

\* The process keeps running what it began, and timers fire.  Busy(h) is when
\* HandlerStep(h) is enabled, so the first conjunct is WF_vars(HandlerStep(h)).
Busy(h) == ~At(h, "idle") /\ (At(h, "handNo") => LatestHand < MaxHands)
LiveSpec == /\ Spec
            /\ \A h \in Slots : []<>~Busy(h) \/ []<><<HandlerStep(h)>>_vars
            /\ WF_vars(\E h \in Slots : TimerFires(h))

-----------------------------------------------------------------------------
(* Type invariant *)

Hand == INSTANCE PokerHand WITH game <- redis.game, BuyIns <- { BuyIn[s] : s \in Seats }

Tables == [handNo : 1..MaxHands, acts : Nat, cards : [Seats -> Ranks], game : GameStates]
HandRows ==
  [ status : {"PLAYING", "FINISHED"}, players : BOOLEAN, actions : Nat, closings : Nat,
    endChips : [Seats -> Nat \cup {Unpaid}], net : [Seats -> Int] ]

\* The stored table and the rows have the types of GameState and of the schema.
TypeOK ==
  /\ redis \in Tables \cup {NoTable}
  /\ room \in {"READY", "PLAYING", "FINISHED", "CLOSED"}
  /\ hands \in [1..MaxHands -> HandRows \cup {NoHand}]
  /\ stacks \in [Seats -> Nat]
  /\ timer \in BOOLEAN
  /\ botCounts \in [1..MaxHands -> Nat]
  /\ DOMAIN slot = Slots
  /\ faults \in 0..MaxTrouble
  /\ overlaps \in 0..MaxTrouble

-----------------------------------------------------------------------------
(* Safety *)

\* getRoomStats: what the finished hands of the room brought a seat, the sum of its
\* results.  A total counts chips, so what it won and what it lost are two of them.
FinishedHands == { n \in 1..MaxHands : hands[n].status = "FINISHED" }
RoomNet(s) == ChipTotal([ n \in FinishedHands |-> hands[n].net[s] ])
                - ChipTotal([ n \in FinishedHands |-> -hands[n].net[s] ])

Alone == overlaps = 0
Unharmed == faults = 0 /\ Alone
TableIs(status) == IsTable(redis) /\ redis.game.status = status

\* Every action of the stored table of the latest hand has its row: a replay never
\* misses one.
ActionsAreRecorded ==
  IsTable(redis) /\ redis.handNo = LatestHand => redis.acts <= hands[redis.handNo].actions

\* A hand that is over in Redis is over in MySQL, with the result of each seat
\* and its closing rows: the table is saved after everything else.
FinishedTablesAreBooked ==
  TableIs("HAND_FINISHED") =>
    LET row == hands[redis.handNo]
    IN  /\ row.status = "FINISHED"
        /\ row.closings > 0
        /\ \A s \in Seats : row.endChips[s] # Unpaid

\* The table never holds more chips than the seats brought to it, whatever was retried
\* or overtaken.  A room of two whose stacks the blinds take whole is left out: its first
\* hand is over when it is dealt, and a second start then reads stacks of which some are
\* written back and some are not.
ChipsOf(t) == IF t.game.status = "PLAYING" THEN ChipTotal(t.game.chips) + Pot(t.game)
              ELSE ChipTotal(t.game.chips)
BlindsTakeAll == BlindsPosted(BuyIn, Min(Seats)).chips = [ s \in Seats |-> 0 ]
NoChipsAppear == (IsTable(redis) /\ ~BlindsTakeAll) => ChipsOf(redis) <= ChipTotal(BuyIn)

\* What the last finished hand left in the players' rows is what its result
\* rows say and what the next hand will be dealt from, and the statistics of the
\* room say what each of them won since he sat down, unless a write failed.
BooksAgree ==
  (Quiet /\ Unharmed /\ TableIs("HAND_FINISHED")) =>
    /\ stacks = redis.game.chips
    /\ hands[redis.handNo].endChips = redis.game.chips
    /\ hands[redis.handNo].closings = 1
    /\ \A s \in Seats : stacks[s] = BuyIn[s] + RoomNet(s)

\* When the owner has ended the room, no live table is left behind, unless
\* a handler failed or another one was in progress.
EndedRoomsHaveNoTable ==
  (Quiet /\ Unharmed /\ room = "FINISHED") => ~ TableIs("PLAYING")

-----------------------------------------------------------------------------
(* What a step may never do *)

\* The stored table changes only as the rules say: one accepted action at a
\* time, the next hand after a finished one, nothing undone or repeated, as long
\* as no two handlers overlap.
TableFollowsTheRules ==
  [][ (Alone /\ IsTable(redis) /\ IsTable(redis')) =>
        \/ redis' = redis
        \/ redis'.acts \in {0, redis.acts, redis.acts + 1} /\ Hand!Next ]_vars

-----------------------------------------------------------------------------
(* Liveness *)

\* The turn does not stay with a bot, unless a write fails or the process
\* restarts: its timer is not set again.
BotsMoveOn == BotInTurn ~> (~BotInTurn \/ ~Unharmed)
=============================================================================
