---------------------------- MODULE PracticeRoom ----------------------------
(***************************************************************************)
(* The lobby of a friends' practice room                                   *)
(* (apps/api/src/practice-room/practice-room.service.ts): who sits where,  *)
(* which stack each member chose, who confirmed the stacks, and the room's *)
(* status.  From the game service it takes what reads or writes the same   *)
(* rows: startFirstHand and endRoom (PracticeGame has the rest of both and *)
(* nextHand, which goes on from a room that plays).                        *)
(*                                                                         *)
(* A request reads the room, checks it, writes a row, and then             *)
(* refreshReadyStatus reads the room again and writes its status: four     *)
(* awaits without a lock, each a step of a handler here.  The check that   *)
(* the user is a member is a read of its own before the write; members     *)
(* never leave, so checking at the write is the same.  A refused request   *)
(* writes nothing: its first step is not represented.                      *)
(***************************************************************************)
EXTENDS Naturals, FiniteSets

CONSTANTS
  Users,
  Owner,             \* ownerUserId
  PlayerCount,       \* playerCount
  Stacks,            \* the stacks a member may choose
  DefaultStack,      \* initialPracticeChips
  Nobody,            \* a free seat has no row
  Slots,             \* requests that may be in progress at once
  MaxFaults          \* bound: requests that fail between two steps

ASSUME OwnerAssumption == Owner \in Users /\ Nobody \notin Users
ASSUME CountAssumption == PlayerCount \in Nat /\ PlayerCount >= 2
ASSUME StackAssumption == Stacks \cup {DefaultStack} \subseteq Nat \ {0}
ASSUME FaultsAssumption == MaxFaults \in Nat

VARIABLES
  status,       \* practiceRoom.status
  player,       \* practiceRoomPlayer rows by seatNo
  table,        \* whether Redis holds a table of this room
  dealt,        \* history: the rows the latest start of the game has read
  slot,         \* the requests in progress
  faults,       \* requests failed so far
  overlapped    \* history: two requests were in progress at once

vars == <<status, player, table, dealt, slot, faults, overlapped>>

SeatNos == 1..PlayerCount
Lobby == {"WAITING", "READY"}
Statuses == Lobby \cup {"PLAYING", "FINISHED", "CLOSED"}

FreeSeat == [userId |-> Nobody]
Taken(s) == player[s].userId # Nobody
Members == { s \in SeatNos : Taken(s) }
SeatsOf(u) == { s \in SeatNos : player[s].userId = u }

\* The stacks of the members, as a request that reads the room sees them.
StacksOf(rows) ==
  [ s \in { t \in SeatNos : rows[t].userId # Nobody } |-> rows[s].chips ]
NoStacks == [ s \in {} |-> 0 ]

\* A new row.  seen is a history field: the stacks a confirmation was for.  The
\* histories are kept as long as no requests have overlapped.
NewPlayer(u) ==
  [ userId |-> u, chips |-> DefaultStack, chipsSetByPlayer |-> FALSE,
    readyStatus |-> FALSE, initialChipsConfirmed |-> FALSE, seen |-> NoStacks ]

NotDealt == <<>>
Idle == [pc |-> "idle"]
At(h, pc) == slot[h].pc = pc
Becomes(h, handler) == slot' = [slot EXCEPT ![h] = handler]
Quiet == \A h \in Slots : At(h, "idle")

\* createFriendsRoom: the owner sits on seat 1.
Init ==
  /\ status = "WAITING"
  /\ player = [ s \in SeatNos |-> IF s = 1 THEN NewPlayer(Owner) ELSE FreeSeat ]
  /\ table = FALSE
  /\ dealt = NotDealt
  /\ slot = [ h \in Slots |-> Idle ]
  /\ faults = 0
  /\ overlapped = FALSE

\* A request arrives.
Begins(h, handler) ==
  /\ At(h, "idle")
  /\ Becomes(h, handler)
  /\ overlapped' = (overlapped \/ ~Quiet)
  /\ UNCHANGED faults

Goes(h, handler) == Becomes(h, handler) /\ UNCHANGED <<faults, overlapped>>

-----------------------------------------------------------------------------
(* joinRoom *)

\* Mutant: any free seat will do.
AnyFreeSeat(s) == ~Taken(s)

LowestFreeSeat(s) == ~Taken(s) /\ \A t \in 1..(s - 1) : Taken(t)

\* Mutant: a room that plays can be joined.
JoinReadsWhilePlaying(h, u) ==
  /\ status \in Lobby \cup {"PLAYING"}
  /\ SeatsOf(u) = {}
  /\ \E s \in SeatNos :
       /\ LowestFreeSeat(s)
       /\ Begins(h, [pc |-> "sit", userId |-> u, seatNo |-> s])
  /\ UNCHANGED <<status, player, table, dealt>>

JoinReads(h, u) ==
  /\ status \in Lobby
  /\ SeatsOf(u) = {}
  /\ \E s \in SeatNos :
       /\ LowestFreeSeat(s)
       /\ Begins(h, [pc |-> "sit", userId |-> u, seatNo |-> s])
  /\ UNCHANGED <<status, player, table, dealt>>

\* The row is refused when its (roomId, seatNo) exists by now.
SitsDown(h) ==
  /\ At(h, "sit")
  /\ IF Taken(slot[h].seatNo)
       THEN Goes(h, Idle) /\ UNCHANGED player
       ELSE /\ player' = [player EXCEPT ![slot[h].seatNo] = NewPlayer(slot[h].userId)]
            /\ Goes(h, [pc |-> "refresh"])
  /\ UNCHANGED <<status, table, dealt>>

-----------------------------------------------------------------------------
(* confirmInitialChips, setInitialChips, setReady *)

ConfirmReads(h, u) ==
  /\ status \in Lobby
  /\ \A s \in Members : player[s].chipsSetByPlayer
  /\ Begins(h, [pc |-> "confirm", userId |-> u])
  /\ UNCHANGED <<status, player, table, dealt>>

SetChipsReads(h, u, chips) ==
  /\ status \in Lobby
  /\ Begins(h, [pc |-> "chips", userId |-> u, chips |-> chips])
  /\ UNCHANGED <<status, player, table, dealt>>

SetReadyReads(h, u, readyStatus) ==
  /\ status \in Lobby
  /\ Begins(h, [pc |-> "ready", userId |-> u, readyStatus |-> readyStatus])
  /\ UNCHANGED <<status, player, table, dealt>>

\* updateMany on the rows of the room.
UpdateMany(seats, Row(_)) ==
  [ s \in SeatNos |-> IF s \in seats THEN Row(player[s]) ELSE player[s] ]

Confirmed(row) ==
  [row EXCEPT !.initialChipsConfirmed = TRUE, !.readyStatus = TRUE,
              !.seen = IF overlapped THEN NoStacks ELSE StacksOf(player)]
Unconfirmed(row) ==
  [row EXCEPT !.initialChipsConfirmed = FALSE, !.readyStatus = FALSE, !.seen = NoStacks]
WithChips(row, chips) == [row EXCEPT !.chips = chips, !.chipsSetByPlayer = TRUE]

\* assertRoomPlayer refuses who has no seat; the others' write is done.
MemberWrites(h, rows) ==
  /\ IF SeatsOf(slot[h].userId) = {}
       THEN Goes(h, Idle) /\ UNCHANGED player
       ELSE player' = rows /\ Goes(h, [pc |-> "refresh"])
  /\ UNCHANGED <<status, table, dealt>>

ConfirmWrites(h) ==
  /\ At(h, "confirm")
  /\ MemberWrites(h, UpdateMany(SeatsOf(slot[h].userId), Confirmed))

\* Mutant: only the user's own confirmation is withdrawn.
SetChipsWritesOwn(h) ==
  LET row(p) == WithChips(Unconfirmed(p), slot[h].chips)
  IN At(h, "chips") /\ MemberWrites(h, UpdateMany(SeatsOf(slot[h].userId), row))

\* One transaction: every confirmation is withdrawn, the user's stack is set.
SetChipsWrites(h) ==
  LET row(p) == IF p.userId = slot[h].userId
                  THEN WithChips(Unconfirmed(p), slot[h].chips)
                  ELSE Unconfirmed(p)
  IN At(h, "chips") /\ MemberWrites(h, UpdateMany(Members, row))

SetReadyWrites(h) ==
  LET row(p) == [p EXCEPT !.readyStatus = slot[h].readyStatus]
  IN At(h, "ready") /\ MemberWrites(h, UpdateMany(SeatsOf(slot[h].userId), row))

-----------------------------------------------------------------------------
(* refreshReadyStatus: a read and a write *)

RefreshReads(h) ==
  /\ At(h, "refresh")
  /\ IF status \in {"CLOSED", "PLAYING"}
       THEN Goes(h, Idle)
       ELSE Goes(h, [ pc |-> "status",
                      status |-> IF \A s \in Members : player[s].initialChipsConfirmed
                                   THEN "READY" ELSE "WAITING" ])
  /\ UNCHANGED <<status, player, table, dealt>>

RefreshWrites(h) ==
  /\ At(h, "status")
  /\ status' = slot[h].status
  /\ Goes(h, Idle)
  /\ UNCHANGED <<player, table, dealt>>

-----------------------------------------------------------------------------
(* startFirstHand and endRoom of the game service *)

StartReadsTable(h) ==
  /\ ~table
  /\ Begins(h, [pc |-> "start"])
  /\ UNCHANGED <<status, player, table, dealt>>

\* The size of the room and positive stacks hold already (TypeOK).
ReadyToStart ==
  /\ status \in Lobby
  /\ Cardinality(Members) >= 2
  /\ \A s \in Members : player[s].initialChipsConfirmed /\ player[s].readyStatus

StartReadsRoom(h) ==
  /\ At(h, "start")
  /\ IF ReadyToStart
       THEN /\ dealt' = IF overlapped THEN NotDealt ELSE player
            /\ Goes(h, [pc |-> "play"])
       ELSE Goes(h, Idle) /\ UNCHANGED dealt
  /\ UNCHANGED <<status, player, table>>

\* The hand has been dealt from the rows read; the room is PLAYING, whatever
\* it was by now.
StartPlays(h) ==
  /\ At(h, "play")
  /\ status' = "PLAYING"
  /\ Goes(h, [pc |-> "save"])
  /\ UNCHANGED <<player, table, dealt>>

StartSaves(h) ==
  /\ At(h, "save")
  /\ table' = TRUE
  /\ Goes(h, Idle)
  /\ UNCHANGED <<status, player, dealt>>

EndWrites(h) ==
  /\ Begins(h, [pc |-> "delete"])
  /\ status' = "FINISHED"
  /\ UNCHANGED <<player, table, dealt>>

EndDeletes(h) ==
  /\ At(h, "delete")
  /\ table' = FALSE
  /\ Goes(h, Idle)
  /\ UNCHANGED <<status, player, dealt>>

-----------------------------------------------------------------------------
(* Closing, and requests that fail *)

Closes ==
  /\ status' = "CLOSED"
  /\ overlapped' = (overlapped \/ ~Quiet)
  /\ UNCHANGED <<player, table, dealt, slot, faults>>

\* closeRoom and adminCloseRoom write over any status.
CloseRoom == Closes

\* listPracticeRooms closes the rooms nobody has touched for long; time is not
\* represented, so any room it looks for may be one.
SweepIdleRooms == status \in Lobby \cup {"PLAYING"} /\ Closes

\* A write is refused by the database, or the process stops.  The number of a
\* hand that another start has taken by now is such a refusal.
RequestFails(h) ==
  /\ ~At(h, "idle")
  /\ faults < MaxFaults
  /\ faults' = faults + 1
  /\ Becomes(h, Idle)
  /\ UNCHANGED <<status, player, table, dealt, overlapped>>

Arrives(h) ==
  \/ \E u \in Users :
       \/ JoinReads(h, u)
       \/ ConfirmReads(h, u)
       \/ \E chips \in Stacks : SetChipsReads(h, u, chips)
       \/ \E readyStatus \in BOOLEAN : SetReadyReads(h, u, readyStatus)
  \/ StartReadsTable(h)
  \/ EndWrites(h)

Proceeds(h) ==
  \/ SitsDown(h)
  \/ ConfirmWrites(h)
  \/ SetChipsWrites(h)
  \/ SetReadyWrites(h)
  \/ RefreshReads(h)
  \/ RefreshWrites(h)
  \/ StartReadsRoom(h)
  \/ StartPlays(h)
  \/ StartSaves(h)
  \/ EndDeletes(h)
  \/ RequestFails(h)

Next == SweepIdleRooms \/ CloseRoom \/ \E h \in Slots : Arrives(h) \/ Proceeds(h)

Spec == Init /\ [][Next]_vars

-----------------------------------------------------------------------------
(* Properties *)

Handlers ==
  [pc : {"idle", "refresh", "start", "play", "save", "delete"}]
    \cup [pc : {"sit"}, userId : Users, seatNo : SeatNos]
    \cup [pc : {"confirm"}, userId : Users]
    \cup [pc : {"chips"}, userId : Users, chips : Stacks]
    \cup [pc : {"ready"}, userId : Users, readyStatus : BOOLEAN]
    \cup [pc : {"status"}, status : Lobby]

Rows ==
  [ userId : Users, chips : Stacks \cup {DefaultStack},
    chipsSetByPlayer : BOOLEAN, readyStatus : BOOLEAN,
    initialChipsConfirmed : BOOLEAN,
    seen : UNION { [S -> Stacks \cup {DefaultStack}] : S \in SUBSET SeatNos } ]
Seating == [SeatNos -> Rows \cup {FreeSeat}]

\* Every variable has its type.
TypeOK ==
  /\ status \in Statuses
  /\ player \in Seating
  /\ table \in BOOLEAN
  /\ dealt \in Seating \cup {NotDealt}
  /\ slot \in [Slots -> Handlers]
  /\ faults \in 0..MaxFaults
  /\ overlapped \in BOOLEAN

\* However requests overlap, nobody has two seats and no seat is skipped:
\* joinRoom looks for the user before it takes the lowest free seat, and no
\* key but (roomId, seatNo) stands behind that.
NobodySitsTwice ==
  \A s \in Members : \A t \in 1..(s - 1) :
    Taken(t) /\ player[t].userId # player[s].userId

\* Everyone dealt into the first hand chose a stack and confirmed the very
\* stacks the hand is dealt from: setInitialChips withdraws all confirmations,
\* who joins has none, and a confirmation waits for every choice.
DealtStacksWereConfirmed ==
  (~overlapped /\ dealt # NotDealt) =>
    \A s \in SeatNos : dealt[s] # FreeSeat =>
      dealt[s].chipsSetByPlayer /\ dealt[s].seen = StacksOf(dealt)

\* Nobody is left out of the game the room is playing, and nobody's stack
\* has changed since it was dealt: the lobby is shut by then.
EveryMemberIsDealtIn ==
  (~overlapped /\ status = "PLAYING") => player = dealt

=============================================================================
