------------------------- MODULE PracticeRoomProofs -------------------------
(***************************************************************************)
(* PracticeRoom keeps its types, seats nobody twice and deals what was     *)
(* confirmed, for any users, seats, stacks and number of overlapping       *)
(* requests; and RoomCreation logs every room over the limit.              *)
(***************************************************************************)
EXTENDS PracticeLobby, FiniteSetTheorems, TLAPS

Snapshots == UNION { [S -> Stacks \cup {DefaultStack}] : S \in SUBSET SeatNos }

\* What a read of the stacks returns has the type of a snapshot.
LEMMA StacksOfType ==
  ASSUME NEW rows \in Seating
  PROVE  StacksOf(rows) \in Snapshots
<1> DEFINE S == { t \in SeatNos : rows[t].userId # Nobody }
<1>1. \A s \in S : rows[s].chips \in Stacks \cup {DefaultStack}
  BY DEF Seating, Rows, FreeSeat
<1>2. S \in SUBSET SeatNos
  OBVIOUS
<1>3. StacksOf(rows) = [ s \in S |-> rows[s].chips ]
  BY DEF StacksOf
<1>4. StacksOf(rows) \in [S -> Stacks \cup {DefaultStack}]
  BY <1>1, <1>3
<1> HIDE DEF S
<1> QED
  BY <1>2, <1>4 DEF Snapshots

\* A snapshot of no stacks is one.
LEMMA NoStacksType == NoStacks \in Snapshots
<1>1. NoStacks \in [{} -> Stacks \cup {DefaultStack}]
  BY DEF NoStacks
<1> QED
  BY <1>1 DEF Snapshots

\* A new row has the type of a row.
LEMMA NewPlayerType ==
  ASSUME NEW u \in Users
  PROVE  NewPlayer(u) \in Rows /\ NewPlayer(u).userId = u
BY NoStacksType DEF NewPlayer, Rows, Snapshots

\* The updates of a row keep its type and its user.
LEMMA UpdatedRowType ==
  ASSUME TypeOK, NEW p \in Rows
  PROVE  /\ Confirmed(p) \in Rows /\ Confirmed(p).userId = p.userId
         /\ Unconfirmed(p) \in Rows /\ Unconfirmed(p).userId = p.userId
         /\ \A c \in Stacks : /\ WithChips(p, c) \in Rows
                              /\ WithChips(p, c).userId = p.userId
         /\ \A b \in BOOLEAN : /\ [p EXCEPT !.readyStatus = b] \in Rows
                               /\ [p EXCEPT !.readyStatus = b].userId = p.userId
<1> DEFINE seen == IF overlapped THEN NoStacks ELSE StacksOf(player)
<1>1. seen \in Snapshots
  BY StacksOfType, NoStacksType DEF TypeOK
<1> HIDE DEF seen
<1>2. Confirmed(p) = [p EXCEPT !.initialChipsConfirmed = TRUE, !.readyStatus = TRUE,
                               !.seen = seen]
  BY DEF Confirmed, seen
<1>3. Confirmed(p) \in Rows /\ Confirmed(p).userId = p.userId
  BY <1>1, <1>2 DEF Rows, Snapshots
<1>4. Unconfirmed(p) \in Rows /\ Unconfirmed(p).userId = p.userId
  BY NoStacksType DEF Unconfirmed, Rows, Snapshots
<1>5. \A c \in Stacks : WithChips(p, c) \in Rows /\ WithChips(p, c).userId = p.userId
  BY DEF WithChips, Rows
<1>6. \A b \in BOOLEAN : /\ [p EXCEPT !.readyStatus = b] \in Rows
                         /\ [p EXCEPT !.readyStatus = b].userId = p.userId
  BY DEF Rows
<1> QED
  BY <1>3, <1>4, <1>5, <1>6

-----------------------------------------------------------------------------
(* What the parts of an action do to the types *)

\* A request that begins, or goes on, as a handler leaves typed handlers.
LEMMA BeginsType ==
  ASSUME TypeOK, NEW h \in Slots, NEW handler \in Handlers, Begins(h, handler)
  PROVE  /\ slot' \in [Slots -> Handlers]
         /\ faults' \in 0..MaxFaults
         /\ overlapped' \in BOOLEAN
BY DEF TypeOK, Begins, Becomes, Quiet

LEMMA GoesType ==
  ASSUME TypeOK, NEW h \in Slots, NEW handler \in Handlers, Goes(h, handler)
  PROVE  /\ slot' \in [Slots -> Handlers]
         /\ faults' \in 0..MaxFaults
         /\ overlapped' \in BOOLEAN
BY DEF TypeOK, Goes, Becomes

\* The handlers without data.
LEMMA PlainHandlers ==
  /\ Idle \in Handlers
  /\ \A pc \in {"refresh", "start", "play", "save", "delete"} : [pc |-> pc] \in Handlers
BY DEF Idle, Handlers

\* A handler about to write has the user it writes for.
LEMMA WritersType ==
  ASSUME TypeOK, NEW h \in Slots
  PROVE  /\ At(h, "sit") => slot[h].userId \in Users /\ slot[h].seatNo \in SeatNos
         /\ At(h, "confirm") => slot[h].userId \in Users
         /\ At(h, "chips") => slot[h].userId \in Users /\ slot[h].chips \in Stacks
         /\ At(h, "ready") => slot[h].userId \in Users /\ slot[h].readyStatus \in BOOLEAN
         /\ At(h, "status") => slot[h].status \in Lobby
BY DEF TypeOK, Handlers, At

\* A seat with a member has a row.
LEMMA MembersHaveRows ==
  ASSUME TypeOK
  PROVE  /\ \A s \in Members : player[s] \in Rows
         /\ \A u \in Users : SeatsOf(u) \subseteq Members
BY OwnerAssumption DEF TypeOK, Seating, Members, Taken, FreeSeat, SeatsOf

\* Rows that have the type of the table and its users.
Reseated(rows) ==
  /\ rows \in Seating
  /\ \A s \in SeatNos : rows[s].userId = player[s].userId

\* Replacing some members' rows by rows of the same users is a reseating.
LEMMA ReplacedRows ==
  ASSUME TypeOK, NEW seats \in SUBSET SeatNos, NEW new,
         \A s \in seats : new[s] \in Rows /\ new[s].userId = player[s].userId
  PROVE  Reseated([ s \in SeatNos |-> IF s \in seats THEN new[s] ELSE player[s] ])
<1> DEFINE rows == [ s \in SeatNos |-> IF s \in seats THEN new[s] ELSE player[s] ]
<1>1. \A s \in SeatNos : rows[s] \in Rows \cup {FreeSeat}
  BY DEF TypeOK, Seating
<1>2. \A s \in SeatNos : rows[s].userId = player[s].userId
  OBVIOUS
<1>3. rows \in Seating
  BY <1>1 DEF Seating
<1>4. Reseated(rows)
  BY <1>2, <1>3 DEF Reseated
<1> QED
  BY <1>4

\* The three writes of a member change no user.
LEMMA ConfirmedRows ==
  ASSUME TypeOK, NEW u \in Users
  PROVE  Reseated(UpdateMany(SeatsOf(u), Confirmed))
<1> DEFINE new == [ s \in SeatNos |-> Confirmed(player[s]) ]
<1>1. \A s \in SeatsOf(u) : s \in SeatNos /\ player[s] \in Rows
  BY MembersHaveRows DEF SeatsOf
<1>2. \A s \in SeatsOf(u) : new[s] \in Rows /\ new[s].userId = player[s].userId
  BY <1>1, UpdatedRowType
<1>3. UpdateMany(SeatsOf(u), Confirmed)
        = [ s \in SeatNos |-> IF s \in SeatsOf(u) THEN new[s] ELSE player[s] ]
  BY DEF UpdateMany
<1> HIDE DEF new
<1>4. Reseated([ s \in SeatNos |-> IF s \in SeatsOf(u) THEN new[s] ELSE player[s] ])
  BY <1>1, <1>2, ReplacedRows
<1> QED
  BY <1>3, <1>4

LEMMA ReadyRows ==
  ASSUME TypeOK, NEW u \in Users, NEW b \in BOOLEAN
  PROVE  LET row(p) == [p EXCEPT !.readyStatus = b]
         IN Reseated(UpdateMany(SeatsOf(u), row))
<1> DEFINE row(p) == [p EXCEPT !.readyStatus = b]
           new == [ s \in SeatNos |-> row(player[s]) ]
<1>1. \A s \in SeatsOf(u) : s \in SeatNos /\ player[s] \in Rows
  BY MembersHaveRows DEF SeatsOf
<1>2. \A s \in SeatsOf(u) : new[s] \in Rows /\ new[s].userId = player[s].userId
  BY <1>1, UpdatedRowType
<1>3. UpdateMany(SeatsOf(u), row)
        = [ s \in SeatNos |-> IF s \in SeatsOf(u) THEN new[s] ELSE player[s] ]
  BY DEF UpdateMany
<1> HIDE DEF new
<1>4. Reseated([ s \in SeatNos |-> IF s \in SeatsOf(u) THEN new[s] ELSE player[s] ])
  BY <1>1, <1>2, ReplacedRows
<1>5. Reseated(UpdateMany(SeatsOf(u), row))
  BY <1>3, <1>4
<1> QED
  BY <1>5

LEMMA ChipsRows ==
  ASSUME TypeOK, NEW u \in Users, NEW c \in Stacks
  PROVE  LET row(p) == IF p.userId = u THEN WithChips(Unconfirmed(p), c) ELSE Unconfirmed(p)
         IN Reseated(UpdateMany(Members, row))
<1> DEFINE row(p) == IF p.userId = u THEN WithChips(Unconfirmed(p), c) ELSE Unconfirmed(p)
           new == [ s \in SeatNos |-> row(player[s]) ]
<1>1. \A s \in Members : s \in SeatNos /\ player[s] \in Rows
  BY MembersHaveRows DEF Members
<1>2. \A p \in Rows : row(p) \in Rows /\ row(p).userId = p.userId
  BY UpdatedRowType
<1>3. \A s \in Members : new[s] \in Rows /\ new[s].userId = player[s].userId
  <2> HIDE DEF row
  <2> QED BY <1>1, <1>2
<1>4. UpdateMany(Members, row)
        = [ s \in SeatNos |-> IF s \in Members THEN new[s] ELSE player[s] ]
  BY DEF UpdateMany
<1> HIDE DEF new
<1>5. Reseated(UpdateMany(Members, row))
  BY <1>1, <1>3, <1>4, ReplacedRows
<1> QED
  BY <1>5

\* What a member's write does, for any rows that keep the users.
LEMMA MemberWritesType ==
  ASSUME TypeOK, NEW h \in Slots, NEW rows, Reseated(rows), MemberWrites(h, rows)
  PROVE  TypeOK' /\ Reseated(player')
<1>1. Reseated(player)
  BY DEF Reseated, TypeOK
<1>2. Reseated(player')
  BY <1>1 DEF MemberWrites
<1>3. Goes(h, Idle) \/ Goes(h, [pc |-> "refresh"])
  BY DEF MemberWrites
<1>4. /\ slot' \in [Slots -> Handlers]
      /\ faults' \in 0..MaxFaults
      /\ overlapped' \in BOOLEAN
  BY <1>3, GoesType, PlainHandlers
<1> QED
  BY <1>2, <1>4 DEF TypeOK, MemberWrites, Reseated

-----------------------------------------------------------------------------
(* Types *)

\* Each step of a request keeps the types.
LEMMA ArrivesType ==
  ASSUME TypeOK, NEW h \in Slots, Arrives(h)
  PROVE  TypeOK'
<1>1. ASSUME NEW u \in Users, JoinReads(h, u)
      PROVE  TypeOK'
  <2>1. PICK s \in SeatNos : Begins(h, [pc |-> "sit", userId |-> u, seatNo |-> s])
    BY <1>1 DEF JoinReads
  <2>2. [pc |-> "sit", userId |-> u, seatNo |-> s] \in Handlers
    BY DEF Handlers
  <2> QED
    BY <1>1, <2>1, <2>2, BeginsType DEF JoinReads, TypeOK
<1>2. ASSUME NEW u \in Users, ConfirmReads(h, u)
      PROVE  TypeOK'
  <2>1. [pc |-> "confirm", userId |-> u] \in Handlers
    BY DEF Handlers
  <2> QED
    BY <1>2, <2>1, BeginsType DEF ConfirmReads, TypeOK
<1>3. ASSUME NEW u \in Users, NEW c \in Stacks, SetChipsReads(h, u, c)
      PROVE  TypeOK'
  <2>1. [pc |-> "chips", userId |-> u, chips |-> c] \in Handlers
    BY DEF Handlers
  <2> QED
    BY <1>3, <2>1, BeginsType DEF SetChipsReads, TypeOK
<1>4. ASSUME NEW u \in Users, NEW b \in BOOLEAN, SetReadyReads(h, u, b)
      PROVE  TypeOK'
  <2>1. [pc |-> "ready", userId |-> u, readyStatus |-> b] \in Handlers
    BY DEF Handlers
  <2> QED
    BY <1>4, <2>1, BeginsType DEF SetReadyReads, TypeOK
<1>5. CASE StartReadsTable(h)
  BY <1>5, BeginsType, PlainHandlers DEF StartReadsTable, TypeOK
<1>6. CASE EndWrites(h)
  BY <1>6, BeginsType, PlainHandlers DEF EndWrites, TypeOK, Statuses
<1> QED
  BY <1>1, <1>2, <1>3, <1>4, <1>5, <1>6 DEF Arrives

LEMMA ProceedsType ==
  ASSUME TypeOK, NEW h \in Slots, Proceeds(h)
  PROVE  TypeOK'
<1>1. CASE SitsDown(h)
  <2>1. At(h, "sit") /\ slot[h].userId \in Users /\ slot[h].seatNo \in SeatNos
    BY <1>1, WritersType DEF SitsDown
  <2>2. NewPlayer(slot[h].userId) \in Rows
    BY <2>1, NewPlayerType
  <2>3. player' \in Seating
    BY <1>1, <2>1, <2>2 DEF SitsDown, TypeOK, Seating
  <2>4. Goes(h, Idle) \/ Goes(h, [pc |-> "refresh"])
    BY <1>1 DEF SitsDown
  <2> QED
    BY <1>1, <2>3, <2>4, GoesType, PlainHandlers DEF SitsDown, TypeOK
<1>2. CASE ConfirmWrites(h)
  BY <1>2, WritersType, ConfirmedRows, MemberWritesType DEF ConfirmWrites
<1>3. CASE SetChipsWrites(h)
  BY <1>3, WritersType, ChipsRows, MemberWritesType DEF SetChipsWrites
<1>4. CASE SetReadyWrites(h)
  BY <1>4, WritersType, ReadyRows, MemberWritesType DEF SetReadyWrites
<1>5. CASE RefreshReads(h)
  <2>1. \A st \in Lobby : [pc |-> "status", status |-> st] \in Handlers
    BY DEF Handlers
  <2>2. \E handler \in Handlers : Goes(h, handler)
    BY <1>5, <2>1, PlainHandlers DEF RefreshReads, Lobby
  <2> QED
    BY <1>5, <2>2, GoesType DEF RefreshReads, TypeOK
<1>6. CASE RefreshWrites(h)
  BY <1>6, WritersType, GoesType, PlainHandlers DEF RefreshWrites, TypeOK, Statuses
<1>7. CASE StartReadsRoom(h)
  <2>1. \E handler \in Handlers : Goes(h, handler)
    BY <1>7, PlainHandlers DEF StartReadsRoom
  <2>2. dealt' \in Seating \cup {NotDealt}
    BY <1>7 DEF StartReadsRoom, TypeOK
  <2> QED
    BY <1>7, <2>1, <2>2, GoesType DEF StartReadsRoom, TypeOK
<1>8. CASE StartPlays(h)
  BY <1>8, GoesType, PlainHandlers DEF StartPlays, TypeOK, Statuses
<1>9. CASE StartSaves(h)
  BY <1>9, GoesType, PlainHandlers DEF StartSaves, TypeOK
<1>10. CASE EndDeletes(h)
  BY <1>10, GoesType, PlainHandlers DEF EndDeletes, TypeOK
<1>11. CASE RequestFails(h)
  <2>1. slot' \in [Slots -> Handlers]
    BY <1>11, PlainHandlers DEF RequestFails, Becomes, TypeOK
  <2>2. faults' \in 0..MaxFaults
    BY <1>11, FaultsAssumption DEF RequestFails, TypeOK
  <2> QED
    BY <1>11, <2>1, <2>2 DEF RequestFails, TypeOK
<1> QED
  BY <1>1, <1>2, <1>3, <1>4, <1>5, <1>6, <1>7, <1>8, <1>9, <1>10, <1>11 DEF Proceeds

LEMMA NextType == TypeOK /\ [Next]_vars => TypeOK'
<1> SUFFICES ASSUME TypeOK, [Next]_vars
             PROVE  TypeOK'
  OBVIOUS
<1>1. CASE Closes
  BY <1>1 DEF Closes, Quiet, TypeOK, Statuses
<1>2. CASE UNCHANGED vars
  BY <1>2 DEF vars, TypeOK
<1> QED
  BY <1>1, <1>2, ArrivesType, ProceedsType DEF Next, CloseRoom, SweepIdleRooms

LEMMA InitType == Init => TypeOK
<1> SUFFICES ASSUME Init
             PROVE  TypeOK
  OBVIOUS
<1>1. player \in Seating
  BY OwnerAssumption, NewPlayerType DEF Init, Seating
<1>2. slot \in [Slots -> Handlers]
  BY PlainHandlers DEF Init
<1>3. faults \in 0..MaxFaults
  BY FaultsAssumption DEF Init
<1> QED
  BY <1>1, <1>2, <1>3 DEF Init, TypeOK, Statuses, Lobby

\* Every reachable lobby has the types TypeOK declares.
THEOREM TypeCorrect == Spec => []TypeOK
BY InitType, NextType, PTL DEF Spec

-----------------------------------------------------------------------------
(* Seats *)

\* A request about to sit down found every lower seat taken, by others; they
\* still are, for members never leave.
SeatWaits(h) ==
  At(h, "sit") =>
    \A t \in 1..(slot[h].seatNo - 1) :
      Taken(t) /\ player[t].userId # slot[h].userId

SeatsInv == TypeOK /\ NobodySitsTwice /\ \A h \in Slots : SeatWaits(h)

\* Nothing is lost while the rows keep their users and no request begins to
\* sit down.
LEMMA SeatsStay ==
  ASSUME SeatsInv, TypeOK',
         \A s \in SeatNos : player'[s].userId = player[s].userId,
         NEW h \in Slots,
         \A g \in Slots : g # h => slot'[g] = slot[g],
         ~At(h, "sit")'
  PROVE  SeatsInv'
<1>1. \A s \in SeatNos : Taken(s)' = Taken(s)
  BY DEF Taken
<1>2. \A s \in SeatNos : \A t \in 1..(s - 1) : t \in SeatNos
  BY CountAssumption DEF SeatNos
<1>3. Members' = Members
  BY <1>1 DEF Members
<1>4. NobodySitsTwice'
  BY <1>1, <1>2, <1>3 DEF NobodySitsTwice, SeatsInv, Members
<1>5. ASSUME NEW g \in Slots, At(g, "sit")'
      PROVE  \A t \in 1..(slot'[g].seatNo - 1) :
               Taken(t)' /\ player'[t].userId # slot'[g].userId
  <2>1. slot'[g] = slot[g] /\ At(g, "sit")
    BY <1>5 DEF At
  <2>2. slot[g].seatNo \in SeatNos
    BY <2>1, WritersType DEF SeatsInv
  <2> QED
    BY <1>1, <1>2, <2>1, <2>2 DEF SeatsInv, SeatWaits
<1> QED
  BY <1>4, <1>5 DEF SeatsInv, SeatWaits

\* Only joinRoom begins to sit down, on a seat below which everyone sits and
\* is not the user.
LEMMA JoinSeats ==
  ASSUME SeatsInv, TypeOK', NEW h \in Slots, NEW u \in Users, JoinReads(h, u)
  PROVE  SeatsInv'
<1>1. PICK s \in SeatNos :
        /\ LowestFreeSeat(s)
        /\ Begins(h, [pc |-> "sit", userId |-> u, seatNo |-> s])
  BY DEF JoinReads
<1>2. player' = player /\ SeatsOf(u) = {}
  BY DEF JoinReads
<1>3. slot'[h] = [pc |-> "sit", userId |-> u, seatNo |-> s]
  BY <1>1 DEF Begins, Becomes, SeatsInv, TypeOK
<1>4. \A g \in Slots : g # h => slot'[g] = slot[g]
  BY <1>1 DEF Begins, Becomes, SeatsInv, TypeOK
<1>5. \A t \in 1..(s - 1) : Taken(t) /\ player[t].userId # u
  BY <1>1, <1>2, CountAssumption DEF LowestFreeSeat, SeatsOf, SeatNos
<1>6. \A x : Taken(x)' = Taken(x)
  BY <1>2 DEF Taken
<1>7. NobodySitsTwice'
  BY <1>2, <1>6 DEF NobodySitsTwice, SeatsInv, Members
<1>8. \A g \in Slots : SeatWaits(g)'
  BY <1>2, <1>3, <1>4, <1>5, <1>6 DEF SeatWaits, At, SeatsInv
<1> QED
  BY <1>7, <1>8 DEF SeatsInv

\* Whoever takes a seat that is still free is not on a higher one: nobody is.
LEMMA SitSeats ==
  ASSUME SeatsInv, TypeOK', NEW h \in Slots, SitsDown(h), ~Taken(slot[h].seatNo)
  PROVE  SeatsInv'
<1> DEFINE seat == slot[h].seatNo
           u == slot[h].userId
<1>1. At(h, "sit") /\ u \in Users /\ seat \in SeatNos /\ player \in Seating
  BY WritersType DEF SitsDown, SeatsInv, TypeOK
<1>2. player' = [player EXCEPT ![seat] = NewPlayer(u)] /\ Goes(h, [pc |-> "refresh"])
  BY DEF SitsDown
<1>3. player'[seat].userId = u /\ \A s \in SeatNos : s # seat => player'[s] = player[s]
  BY <1>1, <1>2, NewPlayerType DEF Seating
<1>4. \A s \in SeatNos : \A t \in 1..(s - 1) : t \in SeatNos /\ t # s
  BY CountAssumption DEF SeatNos
<1>5. player'[seat].userId # Nobody /\ \A s \in SeatNos : s # seat => Taken(s)' = Taken(s)
  BY <1>1, <1>3, OwnerAssumption DEF Taken
<1>6. \A t \in 1..(seat - 1) : Taken(t) /\ player[t].userId # u
  BY <1>1 DEF SeatsInv, SeatWaits
<1>7. \A s \in Members : s < seat
  <2> SUFFICES ASSUME NEW s \in Members, ~(s < seat)
               PROVE  FALSE
    OBVIOUS
  <2>1. s \in SeatNos /\ s # seat
    BY DEF Members
  <2>2. seat \in 1..(s - 1)
    BY <1>1, <2>1, CountAssumption DEF SeatNos
  <2> QED
    BY <2>2 DEF SeatsInv, NobodySitsTwice
<1>8. ASSUME NEW s \in Members', NEW t \in 1..(s - 1)
      PROVE  Taken(t)' /\ player'[t].userId # player'[s].userId
  <2>1. s \in SeatNos /\ t \in SeatNos /\ t # s
    BY <1>4 DEF Members
  <2>2. CASE s = seat
    BY <1>3, <1>5, <1>6, <2>1, <2>2
  <2>3. CASE s # seat
    <3>1. s \in Members
      BY <1>5, <2>1, <2>3 DEF Members
    <3>2. t # seat
      BY <1>1, <1>7, <2>1, <3>1, CountAssumption DEF SeatNos
    <3>3. Taken(t) /\ player[t].userId # player[s].userId
      BY <3>1 DEF SeatsInv, NobodySitsTwice
    <3> QED
      BY <1>3, <1>5, <2>1, <2>3, <3>2, <3>3
  <2> QED
    BY <2>2, <2>3
<1>9. ASSUME NEW g \in Slots, At(g, "sit")', NEW t \in 1..(slot'[g].seatNo - 1)
      PROVE  Taken(t)' /\ player'[t].userId # slot'[g].userId
  <2>1. slot'[g] = slot[g] /\ At(g, "sit")
    BY <1>2, <1>9 DEF Goes, Becomes, At, SeatsInv, TypeOK
  <2>2. slot[g].seatNo \in SeatNos /\ t \in SeatNos
    BY <1>4, <2>1, WritersType DEF SeatsInv
  <2>3. Taken(t) /\ player[t].userId # slot[g].userId
    BY <2>1 DEF SeatsInv, SeatWaits
  <2>4. t # seat
    BY <2>3 DEF SitsDown
  <2> QED
    BY <1>3, <1>5, <2>1, <2>2, <2>3, <2>4
<1> QED
  BY <1>8, <1>9 DEF SeatsInv, NobodySitsTwice, SeatWaits

\* Every other step keeps the users of the rows and starts no sitting down.
LEMMA OtherStepsSeats ==
  ASSUME SeatsInv, TypeOK', NEW h \in Slots, Arrives(h) \/ Proceeds(h),
         \A u \in Users : ~JoinReads(h, u),
         SitsDown(h) => Taken(slot[h].seatNo)
  PROVE  SeatsInv'
<1> DEFINE SameUsers == \A s \in SeatNos : player'[s].userId = player[s].userId
           Others == \A g \in Slots : g # h => slot'[g] = slot[g]
<1>1. slot \in [Slots -> Handlers] /\ TypeOK
  BY DEF SeatsInv, TypeOK
<1>2. ASSUME NEW handler, Begins(h, handler) \/ Goes(h, handler), handler.pc # "sit"
      PROVE  Others /\ ~At(h, "sit")'
  BY <1>1, <1>2 DEF Begins, Goes, Becomes, At
<1>3. ASSUME NEW rows, Reseated(rows), MemberWrites(h, rows)
      PROVE  SameUsers /\ Others /\ ~At(h, "sit")'
  <2>1. SameUsers
    BY <1>1, <1>3, MemberWritesType DEF Reseated
  <2>2. Goes(h, Idle) \/ Goes(h, [pc |-> "refresh"])
    BY <1>3 DEF MemberWrites
  <2> QED
    BY <1>2, <2>1, <2>2 DEF Idle
<1>4. CASE Arrives(h)
  <2>1. player' = player
    BY <1>4 DEF Arrives, ConfirmReads, SetChipsReads, SetReadyReads, StartReadsTable, EndWrites
  <2>2. \E handler : Begins(h, handler) /\ handler.pc # "sit"
    <3>1. ASSUME NEW u \in Users, ConfirmReads(h, u)
          PROVE  \E handler : Begins(h, handler) /\ handler.pc # "sit"
      BY <3>1 DEF ConfirmReads
    <3>2. ASSUME NEW u \in Users, NEW c \in Stacks, SetChipsReads(h, u, c)
          PROVE  \E handler : Begins(h, handler) /\ handler.pc # "sit"
      BY <3>2 DEF SetChipsReads
    <3>3. ASSUME NEW u \in Users, NEW b \in BOOLEAN, SetReadyReads(h, u, b)
          PROVE  \E handler : Begins(h, handler) /\ handler.pc # "sit"
      BY <3>3 DEF SetReadyReads
    <3>4. CASE StartReadsTable(h)
      BY <3>4 DEF StartReadsTable
    <3>5. CASE EndWrites(h)
      BY <3>5 DEF EndWrites
    <3> QED
      BY <1>4, <3>1, <3>2, <3>3, <3>4, <3>5 DEF Arrives
  <2> QED
    BY <1>2, <2>1, <2>2, SeatsStay
<1>5. CASE ConfirmWrites(h) \/ SetChipsWrites(h) \/ SetReadyWrites(h)
  <2>1. \E rows : Reseated(rows) /\ MemberWrites(h, rows)
    <3>1. CASE ConfirmWrites(h)
      BY <1>1, <3>1, WritersType, ConfirmedRows DEF ConfirmWrites
    <3>2. CASE SetChipsWrites(h)
      BY <1>1, <3>2, WritersType, ChipsRows DEF SetChipsWrites
    <3>3. CASE SetReadyWrites(h)
      BY <1>1, <3>3, WritersType, ReadyRows DEF SetReadyWrites
    <3> QED
      BY <1>5, <3>1, <3>2, <3>3
  <2> QED
    BY <1>3, <2>1, SeatsStay
<1>6. CASE SitsDown(h)
  <2>1. player' = player /\ Goes(h, Idle)
    BY <1>6 DEF SitsDown
  <2> QED
    BY <1>2, <2>1, SeatsStay DEF Idle
<1>7. CASE RequestFails(h)
  <2>1. player' = player /\ Others /\ ~At(h, "sit")'
    BY <1>1, <1>7 DEF RequestFails, Becomes, At, Idle
  <2> QED
    BY <2>1, SeatsStay
<1>8. CASE \/ RefreshReads(h) \/ RefreshWrites(h) \/ StartReadsRoom(h)
           \/ StartPlays(h) \/ StartSaves(h) \/ EndDeletes(h)
  <2>1. player' = player
    BY <1>8 DEF RefreshReads, RefreshWrites, StartReadsRoom, StartPlays, StartSaves, EndDeletes
  <2>2. \E handler : Goes(h, handler) /\ handler.pc # "sit"
    BY <1>8 DEF RefreshReads, RefreshWrites, StartReadsRoom, StartPlays, StartSaves,
                EndDeletes, Idle
  <2> QED
    BY <1>2, <2>1, <2>2, SeatsStay
<1> QED
  BY <1>4, <1>5, <1>6, <1>7, <1>8 DEF Proceeds

LEMMA NextSeats == SeatsInv /\ [Next]_vars => SeatsInv'
<1> SUFFICES ASSUME SeatsInv, [Next]_vars
             PROVE  SeatsInv'
  OBVIOUS
<1>1. TypeOK'
  BY NextType DEF SeatsInv
<1>2. CASE player' = player /\ slot' = slot
  BY <1>1, <1>2 DEF SeatsInv, NobodySitsTwice, SeatWaits, Members, Taken, At
<1>3. ASSUME NEW h \in Slots, Arrives(h) \/ Proceeds(h)
      PROVE  SeatsInv'
  BY <1>1, <1>3, JoinSeats, SitSeats, OtherStepsSeats
<1> QED
  BY <1>2, <1>3 DEF Next, CloseRoom, SweepIdleRooms, Closes, vars

LEMMA InitSeats == Init => SeatsInv
<1> SUFFICES ASSUME Init
             PROVE  SeatsInv
  OBVIOUS
<1>1. \A s \in SeatNos : s # 1 => ~Taken(s)
  BY DEF Init, Taken, FreeSeat
<1>2. NobodySitsTwice
  BY <1>1 DEF NobodySitsTwice, Members, SeatNos
<1>3. \A h \in Slots : SeatWaits(h)
  BY DEF Init, SeatWaits, At, Idle
<1> QED
  BY <1>2, <1>3, InitType DEF SeatsInv

\* In every room, however many users join at once and whichever requests fail,
\* nobody has two seats and the seats are taken in order.
THEOREM NobodyEverSitsTwice == Spec => []NobodySitsTwice
<1>1. SeatsInv => NobodySitsTwice
  BY DEF SeatsInv
<1> QED
  BY <1>1, InitSeats, NextSeats, PTL DEF Spec

-----------------------------------------------------------------------------
(* Confirmed stacks *)

\* While no requests overlap, at most one is in progress.
Alone == \A g, h \in Slots : At(g, "idle") \/ At(h, "idle") \/ g = h

\* A request that is to write a row, or the status, of the lobby still finds
\* the lobby open.
LobbyIsOpen ==
  \A h \in Slots :
    slot[h].pc \in {"sit", "confirm", "chips", "ready", "refresh", "status"}
      => status \in Lobby

\* A confirmation about to be written found a stack chosen by every member.
StacksAreChosen ==
  \A h \in Slots : At(h, "confirm") => \A t \in Members : player[t].chipsSetByPlayer

\* A confirmation that stands was for the present stacks of everyone who has
\* chosen one; who joined since has not.
Agrees(s) ==
  /\ s \in DOMAIN player[s].seen
  /\ DOMAIN player[s].seen \subseteq Members
  /\ \A t \in DOMAIN player[s].seen :
       player[t].chipsSetByPlayer /\ player[s].seen[t] = player[t].chips
  /\ \A t \in Members \ DOMAIN player[s].seen : ~player[t].chipsSetByPlayer
RowsAgree == \A s \in Members : player[s].initialChipsConfirmed => Agrees(s)

\* The game goes on with the rows it was dealt from.
PlayedRows ==
  (status = "PLAYING" \/ \E h \in Slots : At(h, "play")) => player = dealt

\* DealtStacksWereConfirmed, without its condition.
DealtRows ==
  dealt # NotDealt =>
    \A s \in SeatNos : dealt[s] # FreeSeat =>
      dealt[s].chipsSetByPlayer /\ dealt[s].seen = StacksOf(dealt)

DealFacts ==
  /\ Alone
  /\ LobbyIsOpen
  /\ StacksAreChosen
  /\ RowsAgree
  /\ PlayedRows
  /\ DealtRows
DealInv == TypeOK /\ (~overlapped => DealFacts)

\* The request that goes on is the one in progress, and nobody else's starts.
LEMMA AloneGoes ==
  ASSUME TypeOK, Alone, NEW h \in Slots, NEW handler, Becomes(h, handler),
         Quiet \/ ~At(h, "idle")
  PROVE  /\ Alone'
         /\ slot'[h] = handler
         /\ \A g \in Slots : g # h => slot'[g].pc = "idle"
<1>1. slot'[h] = handler /\ \A g \in Slots : g # h => slot'[g] = slot[g]
  BY DEF TypeOK, Becomes
<1>2. \A g \in Slots : g # h => At(g, "idle")
  BY DEF Alone, Quiet
<1>3. \A g \in Slots : g # h => slot'[g].pc = "idle"
  BY <1>1, <1>2 DEF At
<1>4. Alone'
  BY <1>3 DEF Alone, At
<1> QED
  BY <1>1, <1>3, <1>4

\* A step that changes no row.
LEMMA HandlerMoves ==
  ASSUME TypeOK, DealFacts, NEW h \in Slots, NEW handler, Becomes(h, handler),
         Quiet \/ ~At(h, "idle"), player' = player, dealt' = dealt,
         handler.pc \in {"sit", "confirm", "chips", "ready", "refresh", "status"}
           => status' \in Lobby,
         handler.pc = "confirm" => \A t \in Members : player[t].chipsSetByPlayer,
         (status' = "PLAYING" \/ handler.pc = "play") => player = dealt
  PROVE  DealFacts'
<1>1. /\ Alone'
      /\ slot'[h] = handler
      /\ \A g \in Slots : g # h => slot'[g].pc = "idle"
  BY AloneGoes DEF DealFacts
<1>2. Members' = Members /\ (RowsAgree <=> RowsAgree') /\ (DealtRows <=> DealtRows')
  BY DEF Members, Taken, RowsAgree, Agrees, DealtRows, StacksOf
<1>3. LobbyIsOpen'
  BY <1>1 DEF LobbyIsOpen
<1>4. StacksAreChosen'
  BY <1>1, <1>2 DEF StacksAreChosen, At
<1>5. PlayedRows'
  BY <1>1 DEF PlayedRows, At
<1> QED
  BY <1>1, <1>2, <1>3, <1>4, <1>5 DEF DealFacts

\* A write to a row of the lobby, after which the status is refreshed.
LEMMA LobbyWrites ==
  ASSUME TypeOK, DealFacts, NEW h \in Slots, Becomes(h, [pc |-> "refresh"]),
         slot[h].pc \in {"sit", "confirm", "chips", "ready"},
         status' = status, dealt' = dealt, RowsAgree'
  PROVE  DealFacts'
<1>1. /\ Alone'
      /\ slot'[h] = [pc |-> "refresh"]
      /\ \A g \in Slots : g # h => slot'[g].pc = "idle"
  BY AloneGoes DEF DealFacts, At
<1>2. status \in Lobby
  BY DEF DealFacts, LobbyIsOpen
<1>3. LobbyIsOpen' /\ StacksAreChosen'
  BY <1>1, <1>2 DEF LobbyIsOpen, StacksAreChosen, At
<1>4. PlayedRows'
  BY <1>1, <1>2 DEF PlayedRows, At, Lobby
<1>5. DealtRows <=> DealtRows'
  BY DEF DealtRows, StacksOf
<1> QED
  BY <1>1, <1>3, <1>4, <1>5 DEF DealFacts

\* Rows of the same users, with the same stacks.
SameStacks ==
  \A s \in Members : /\ player'[s].chips = player[s].chips
                     /\ player'[s].chipsSetByPlayer = player[s].chipsSetByPlayer

\* Confirmations that stood still stand while the stacks stay.
LEMMA AgreesStays ==
  ASSUME TypeOK, RowsAgree, Members' = Members, SameStacks, NEW s \in Members,
         player'[s].seen = player[s].seen, player[s].initialChipsConfirmed
  PROVE  Agrees(s)'
BY DEF RowsAgree, Agrees, SameStacks

\* The domain of what a request reads.
LEMMA StacksRead ==
  /\ DOMAIN StacksOf(player) = Members
  /\ \A t \in Members : StacksOf(player)[t] = player[t].chips
BY DEF StacksOf, Members, Taken

\* A confirmation is for the stacks it has read, and everyone has chosen his.
LEMMA ConfirmAgrees ==
  ASSUME TypeOK, ~overlapped, DealFacts, NEW u \in Users,
         \A t \in Members : player[t].chipsSetByPlayer,
         player' = UpdateMany(SeatsOf(u), Confirmed)
  PROVE  RowsAgree'
<1>1. \A s \in Members : s \in SeatNos /\ player[s] \in Rows
  BY MembersHaveRows DEF Members
<1>2. \A s \in SeatNos : player'[s] = IF s \in SeatsOf(u) THEN Confirmed(player[s]) ELSE player[s]
  BY DEF UpdateMany
<1>3. \A p \in Rows : /\ Confirmed(p).seen = StacksOf(player)
                      /\ Confirmed(p).chips = p.chips
                      /\ Confirmed(p).chipsSetByPlayer = p.chipsSetByPlayer
  BY DEF Confirmed, Rows
<1>4. Members' = Members
  BY ConfirmedRows DEF Reseated, Members, Taken
<1>5. SameStacks
  BY <1>1, <1>2, <1>3 DEF SameStacks
<1>6. ASSUME NEW s \in Members, player'[s].initialChipsConfirmed
      PROVE  Agrees(s)'
  <2>1. CASE s \in SeatsOf(u)
    <3>1. player'[s] = Confirmed(player[s]) /\ player[s] \in Rows
      BY <1>1, <1>2, <2>1
    <3>2. player'[s].seen = StacksOf(player)
      BY <1>3, <3>1, Zenon
    <3> QED
      BY <1>4, <1>5, <3>2, StacksRead DEF Agrees, SameStacks
  <2>2. CASE s \notin SeatsOf(u)
    <3>1. player'[s] = player[s]
      BY <1>1, <1>2, <2>2
    <3> QED
      BY <1>4, <1>5, <1>6, <3>1, AgreesStays DEF DealFacts
  <2> QED
    BY <2>1, <2>2
<1> QED
  BY <1>4, <1>6 DEF RowsAgree

\* Being ready or not says nothing of the stacks.
LEMMA ReadyAgrees ==
  ASSUME TypeOK, DealFacts, NEW u \in Users, NEW b \in BOOLEAN,
         Members' = Members,
         \A s \in SeatNos : player'[s] = player[s] \/ player'[s] = [player[s] EXCEPT !.readyStatus = b]
  PROVE  RowsAgree'
<1>1. \A s \in Members : s \in SeatNos /\ player[s] \in Rows
  BY MembersHaveRows DEF Members
<1>2. \A p \in Rows : LET q == [p EXCEPT !.readyStatus = b]
                      IN /\ q.chips = p.chips /\ q.chipsSetByPlayer = p.chipsSetByPlayer
                         /\ q.seen = p.seen
                         /\ q.initialChipsConfirmed = p.initialChipsConfirmed
  BY DEF Rows
<1>3. \A s \in Members : /\ player'[s].chips = player[s].chips
                         /\ player'[s].chipsSetByPlayer = player[s].chipsSetByPlayer
                         /\ player'[s].seen = player[s].seen
                         /\ player'[s].initialChipsConfirmed = player[s].initialChipsConfirmed
  BY <1>1, <1>2
<1>4. SameStacks
  BY <1>3 DEF SameStacks
<1> QED
  BY <1>3, <1>4, AgreesStays DEF RowsAgree, DealFacts

\* A new stack withdraws every confirmation.
LEMMA ChipsAgree ==
  ASSUME TypeOK, Members' = Members, NEW u \in Users, NEW c \in Stacks,
         \A s \in Members : \/ player'[s] = WithChips(Unconfirmed(player[s]), c)
                            \/ player'[s] = Unconfirmed(player[s])
  PROVE  RowsAgree'
<1>1. \A s \in Members : player[s] \in Rows
  BY MembersHaveRows
<1>2. \A p \in Rows : ~Unconfirmed(p).initialChipsConfirmed /\ Unconfirmed(p) \in Rows
  BY UpdatedRowType DEF Unconfirmed, Rows
<1>3. \A p \in Rows : WithChips(p, c).initialChipsConfirmed = p.initialChipsConfirmed
  BY DEF WithChips, Rows
<1> QED
  BY <1>1, <1>2, <1>3 DEF RowsAgree

\* Who sits down has chosen no stack.
LEMMA SitAgrees ==
  ASSUME TypeOK, DealFacts, NEW u \in Users, NEW seat \in SeatNos, ~Taken(seat),
         player' = [player EXCEPT ![seat] = NewPlayer(u)]
  PROVE  RowsAgree'
<1>1. player \in Seating
  BY DEF TypeOK
<1>2. player'[seat] = NewPlayer(u) /\ \A s \in SeatNos : s # seat => player'[s] = player[s]
  BY <1>1 DEF Seating
<1>3. NewPlayer(u).userId = u /\ u # Nobody
  BY NewPlayerType, OwnerAssumption
<1>4. Members' = Members \cup {seat} /\ seat \notin Members
  BY <1>2, <1>3 DEF Members, Taken
<1>5. ~NewPlayer(u).initialChipsConfirmed /\ ~NewPlayer(u).chipsSetByPlayer
  BY DEF NewPlayer
<1>6. ASSUME NEW s \in Members, player[s].initialChipsConfirmed
      PROVE  Agrees(s)'
  <2>1. Agrees(s) /\ s # seat /\ player'[s] = player[s]
    BY <1>2, <1>4, <1>6 DEF DealFacts, RowsAgree, Members
  <2>2. \A t \in DOMAIN player[s].seen : t \in Members /\ player'[t] = player[t]
    BY <1>2, <1>4, <2>1 DEF Agrees, Members
  <2>3. \A t \in Members' \ DOMAIN player[s].seen : ~player'[t].chipsSetByPlayer
    BY <1>2, <1>4, <1>5, <2>1 DEF Agrees, Members
  <2> QED
    BY <1>4, <2>1, <2>2, <2>3 DEF Agrees
<1> QED
  BY <1>2, <1>4, <1>5, <1>6 DEF RowsAgree, Members

\* When everyone has confirmed, everyone has confirmed the stacks of everyone.
LEMMA AllAgree ==
  ASSUME TypeOK, RowsAgree, \A s \in Members : player[s].initialChipsConfirmed
  PROVE  \A s \in Members : player[s].chipsSetByPlayer /\ player[s].seen = StacksOf(player)
<1> SUFFICES ASSUME NEW s \in Members
             PROVE  player[s].chipsSetByPlayer /\ player[s].seen = StacksOf(player)
  OBVIOUS
<1>1. \A t \in Members : Agrees(t)
  BY DEF RowsAgree
<1>2. \A t \in Members : player[t].chipsSetByPlayer
  BY <1>1 DEF Agrees
<1>3. DOMAIN player[s].seen = Members
  BY <1>1, <1>2 DEF Agrees
<1>4. player[s].seen \in Snapshots
  BY MembersHaveRows DEF Rows, Snapshots
<1>5. player[s].seen = [ t \in Members |-> player[s].seen[t] ]
  BY <1>3, <1>4 DEF Snapshots
<1>6. player[s].seen = [ t \in Members |-> player[t].chips ]
  BY <1>1, <1>3, <1>5 DEF Agrees
<1> QED
  BY <1>2, <1>6 DEF StacksOf, Members, Taken

\* A step of a request keeps the facts, as long as no two overlap.
LEMMA ArrivesDeal ==
  ASSUME TypeOK, DealFacts, NEW h \in Slots, Arrives(h), ~overlapped'
  PROVE  DealFacts'
<1>1. ASSUME NEW handler, Begins(h, handler)
      PROVE  Becomes(h, handler) /\ Quiet
  BY <1>1 DEF Begins
<1> USE <1>1
<1>2. ASSUME NEW u \in Users, JoinReads(h, u)
      PROVE  DealFacts'
  <2>1. PICK s \in SeatNos : Begins(h, [pc |-> "sit", userId |-> u, seatNo |-> s])
    BY <1>2 DEF JoinReads
  <2> QED
    BY <1>2, <2>1, HandlerMoves DEF JoinReads, Lobby
<1>3. ASSUME NEW u \in Users, ConfirmReads(h, u)
      PROVE  DealFacts'
  BY <1>3, HandlerMoves DEF ConfirmReads, Lobby
<1>4. ASSUME NEW u \in Users, NEW c \in Stacks, SetChipsReads(h, u, c)
      PROVE  DealFacts'
  BY <1>4, HandlerMoves DEF SetChipsReads, Lobby
<1>5. ASSUME NEW u \in Users, NEW b \in BOOLEAN, SetReadyReads(h, u, b)
      PROVE  DealFacts'
  BY <1>5, HandlerMoves DEF SetReadyReads, Lobby
<1>6. CASE StartReadsTable(h)
  BY <1>6, HandlerMoves DEF StartReadsTable, DealFacts, PlayedRows
<1>7. CASE EndWrites(h)
  BY <1>7, HandlerMoves DEF EndWrites
<1> QED
  BY <1>2, <1>3, <1>4, <1>5, <1>6, <1>7 DEF Arrives

\* The writes of a member, one of them refused to who has no seat.
LEMMA MemberDeal ==
  ASSUME TypeOK, DealFacts, NEW h \in Slots, NEW rows, MemberWrites(h, rows),
         slot[h].pc \in {"confirm", "chips", "ready"},
         player' = rows => RowsAgree'
  PROVE  DealFacts'
<1>1. status' = status /\ dealt' = dealt
  BY DEF MemberWrites
<1>2. CASE Goes(h, Idle) /\ player' = player
  BY <1>1, <1>2, HandlerMoves DEF Goes, Idle, At, DealFacts, PlayedRows
<1>3. CASE Goes(h, [pc |-> "refresh"]) /\ player' = rows
  BY <1>1, <1>3, LobbyWrites DEF Goes
<1> QED
  BY <1>2, <1>3 DEF MemberWrites

LEMMA ProceedsDeal ==
  ASSUME TypeOK, DealFacts, NEW h \in Slots, Proceeds(h), ~overlapped'
  PROVE  DealFacts'
<1>1. ~overlapped
  BY DEF Proceeds, SitsDown, ConfirmWrites, SetChipsWrites, SetReadyWrites, MemberWrites,
         RefreshReads, RefreshWrites, StartReadsRoom, StartPlays, StartSaves, EndDeletes,
         RequestFails, Goes
<1>2. PlayedRows /\ LobbyIsOpen /\ StacksAreChosen
  BY DEF DealFacts
<1>3. CASE SitsDown(h)
  <2>1. slot[h].userId \in Users /\ slot[h].seatNo \in SeatNos /\ At(h, "sit")
    BY <1>3, WritersType DEF SitsDown
  <2>2. CASE Taken(slot[h].seatNo)
    BY <1>2, <1>3, <2>1, <2>2, HandlerMoves DEF SitsDown, Goes, Idle, At, PlayedRows
  <2>3. CASE ~Taken(slot[h].seatNo)
    <3>1. /\ player' = [player EXCEPT ![slot[h].seatNo] = NewPlayer(slot[h].userId)]
          /\ Becomes(h, [pc |-> "refresh"]) /\ status' = status /\ dealt' = dealt
      BY <1>3, <2>3 DEF SitsDown, Goes
    <3>2. RowsAgree'
      BY <2>1, <2>3, <3>1, SitAgrees
    <3> QED
      BY <2>1, <3>1, <3>2, LobbyWrites DEF At
  <2> QED
    BY <2>2, <2>3
<1>4. CASE ConfirmWrites(h)
  <2>1. slot[h].userId \in Users /\ At(h, "confirm")
    BY <1>4, WritersType DEF ConfirmWrites
  <2>2. \A t \in Members : player[t].chipsSetByPlayer
    BY <1>2, <2>1 DEF StacksAreChosen
  <2>3. player' = UpdateMany(SeatsOf(slot[h].userId), Confirmed) => RowsAgree'
    BY <1>1, <2>1, <2>2, ConfirmAgrees
  <2> QED
    BY <1>4, <2>1, <2>3, MemberDeal DEF ConfirmWrites, At
<1>5. CASE SetChipsWrites(h)
  <2> DEFINE row(p) == IF p.userId = slot[h].userId
                         THEN WithChips(Unconfirmed(p), slot[h].chips)
                         ELSE Unconfirmed(p)
  <2>1. slot[h].userId \in Users /\ slot[h].chips \in Stacks /\ At(h, "chips")
    BY <1>5, WritersType DEF SetChipsWrites
  <2>2. MemberWrites(h, UpdateMany(Members, row))
    BY <1>5 DEF SetChipsWrites
  <2>3. ASSUME player' = UpdateMany(Members, row)
        PROVE  RowsAgree'
    <3>1. Members' = Members
      BY <2>1, <2>3, ChipsRows DEF Reseated, Members, Taken
    <3>2. \A s \in Members : player'[s] = row(player[s])
      BY <2>3 DEF UpdateMany, Members
    <3> QED
      BY <2>1, <3>1, <3>2, ChipsAgree
  <2> HIDE DEF row
  <2> QED
    BY <2>1, <2>2, <2>3, MemberDeal DEF At
<1>6. CASE SetReadyWrites(h)
  <2> DEFINE row(p) == [p EXCEPT !.readyStatus = slot[h].readyStatus]
  <2>1. slot[h].userId \in Users /\ slot[h].readyStatus \in BOOLEAN /\ At(h, "ready")
    BY <1>6, WritersType DEF SetReadyWrites
  <2>2. MemberWrites(h, UpdateMany(SeatsOf(slot[h].userId), row))
    BY <1>6 DEF SetReadyWrites
  <2>3. ASSUME player' = UpdateMany(SeatsOf(slot[h].userId), row)
        PROVE  RowsAgree'
    <3>1. Members' = Members
      BY <2>1, <2>3, ReadyRows DEF Reseated, Members, Taken
    <3>2. \A s \in SeatNos : player'[s] = player[s] \/ player'[s] = row(player[s])
      BY <2>3 DEF UpdateMany
    <3> QED
      BY <2>1, <3>1, <3>2, ReadyAgrees
  <2> HIDE DEF row
  <2> QED
    BY <2>1, <2>2, <2>3, MemberDeal DEF At
<1>7. CASE RefreshReads(h)
  <2>1. At(h, "refresh") /\ status \in Lobby /\ status' = status /\ player' = player /\ dealt' = dealt
    BY <1>2, <1>7 DEF RefreshReads, At, LobbyIsOpen
  <2>2. PICK handler : Goes(h, handler) /\ handler.pc \in {"idle", "status"}
    BY <1>7 DEF RefreshReads, Idle
  <2> QED
    BY <1>2, <2>1, <2>2, HandlerMoves DEF Goes, At, PlayedRows
<1>8. CASE RefreshWrites(h)
  <2>1. At(h, "status") /\ slot[h].status \in Lobby
    BY <1>8, WritersType DEF RefreshWrites
  <2> QED
    BY <1>8, <2>1, HandlerMoves DEF RefreshWrites, Goes, Idle, At, Lobby
<1>9. CASE StartReadsRoom(h) /\ ~ReadyToStart
  BY <1>2, <1>9, HandlerMoves DEF StartReadsRoom, Goes, Idle, At, PlayedRows
<1>10. CASE StartReadsRoom(h) /\ ReadyToStart
  <2>1. /\ Becomes(h, [pc |-> "play"]) /\ At(h, "start")
        /\ player' = player /\ dealt' = player /\ status' = status
    BY <1>1, <1>10 DEF StartReadsRoom, Goes
  <2>2. /\ Alone'
        /\ slot'[h] = [pc |-> "play"]
        /\ \A g \in Slots : g # h => slot'[g].pc = "idle"
    BY <2>1, AloneGoes DEF DealFacts, At
  <2>3. LobbyIsOpen' /\ StacksAreChosen'
    BY <2>2 DEF LobbyIsOpen, StacksAreChosen, At
  <2>4. RowsAgree' /\ PlayedRows'
    BY <2>1 DEF DealFacts, RowsAgree, Agrees, Members, Taken, PlayedRows
  <2>5. \A s \in Members : player[s].chipsSetByPlayer /\ player[s].seen = StacksOf(player)
    BY <1>10, AllAgree DEF ReadyToStart, DealFacts
  <2>6. \A s \in SeatNos : player[s] # FreeSeat => s \in Members
    BY OwnerAssumption DEF TypeOK, Seating, Rows, Members, Taken
  <2>7. DealtRows'
    BY <2>1, <2>5, <2>6 DEF DealtRows, StacksOf
  <2> QED
    BY <2>2, <2>3, <2>4, <2>7 DEF DealFacts
<1>11. CASE StartPlays(h)
  <2>1. player = dealt
    BY <1>2, <1>11 DEF StartPlays, PlayedRows
  <2> QED
    BY <1>11, <2>1, HandlerMoves DEF StartPlays, Goes, At
<1>12. CASE StartSaves(h)
  BY <1>2, <1>12, HandlerMoves DEF StartSaves, Goes, Idle, At, PlayedRows
<1>13. CASE EndDeletes(h)
  BY <1>2, <1>13, HandlerMoves DEF EndDeletes, Goes, Idle, At, PlayedRows
<1>14. CASE RequestFails(h)
  BY <1>2, <1>14, HandlerMoves DEF RequestFails, Idle, PlayedRows
<1> QED
  BY <1>3, <1>4, <1>5, <1>6, <1>7, <1>8, <1>9, <1>10, <1>11, <1>12, <1>13, <1>14 DEF Proceeds

LEMMA NextDeal == DealInv /\ [Next]_vars => DealInv'
<1> SUFFICES ASSUME DealInv, [Next]_vars
             PROVE  DealInv'
  OBVIOUS
<1>1. TypeOK /\ TypeOK'
  BY NextType DEF DealInv
<1>2. ASSUME NEW h \in Slots, Arrives(h) \/ Proceeds(h)
      PROVE  ~overlapped' => ~overlapped
  BY <1>2 DEF Arrives, JoinReads, ConfirmReads, SetChipsReads, SetReadyReads,
       StartReadsTable, EndWrites, Begins, Proceeds, SitsDown, ConfirmWrites, SetChipsWrites,
       SetReadyWrites, MemberWrites, RefreshReads, RefreshWrites, StartReadsRoom, StartPlays,
       StartSaves, EndDeletes, RequestFails, Goes
<1>3. ASSUME NEW h \in Slots, Arrives(h) \/ Proceeds(h)
      PROVE  DealInv'
  BY <1>1, <1>2, <1>3, ArrivesDeal, ProceedsDeal DEF DealInv
<1>4. CASE Closes
  <2>1. /\ UNCHANGED <<player, dealt, slot>> /\ status' = "CLOSED"
        /\ ~overlapped' => ~overlapped /\ Quiet
    BY <1>4 DEF Closes
  <2>2. ASSUME DealFacts, Quiet
        PROVE  DealFacts'
    <3>1. Alone' /\ LobbyIsOpen' /\ StacksAreChosen' /\ PlayedRows'
      BY <2>1, <2>2 DEF Quiet, At, Alone, LobbyIsOpen, StacksAreChosen, PlayedRows
    <3>2. RowsAgree' /\ DealtRows'
      BY <2>1, <2>2 DEF DealFacts, RowsAgree, Agrees, Members, Taken, DealtRows, StacksOf
    <3> QED
      BY <3>1, <3>2 DEF DealFacts
  <2> QED
    BY <1>1, <2>1, <2>2 DEF DealInv
<1>5. CASE UNCHANGED vars
  BY <1>1, <1>5 DEF DealInv, vars, DealFacts, Alone, LobbyIsOpen, StacksAreChosen, RowsAgree,
       Agrees, PlayedRows, DealtRows, Members, Taken, StacksOf, At
<1> QED
  BY <1>3, <1>4, <1>5 DEF Next, CloseRoom, SweepIdleRooms

LEMMA InitDeal == Init => DealInv
<1> SUFFICES ASSUME Init
             PROVE  DealInv
  OBVIOUS
<1>1. \A h \in Slots : slot[h].pc = "idle"
  BY DEF Init, Idle
<1>2. Alone /\ LobbyIsOpen /\ StacksAreChosen
  BY <1>1 DEF Alone, LobbyIsOpen, StacksAreChosen, At
<1>3. \A s \in Members : ~player[s].initialChipsConfirmed
  BY DEF Init, Members, Taken, NewPlayer, FreeSeat
<1>4. RowsAgree /\ PlayedRows /\ DealtRows
  BY <1>1, <1>3 DEF Init, RowsAgree, PlayedRows, DealtRows, At
<1> QED
  BY <1>2, <1>4, InitType DEF DealInv, DealFacts

\* While no requests overlap, nobody is dealt into a first hand with a stack he
\* has not chosen, or next to stacks he has not confirmed.
THEOREM DealtStacksStayConfirmed == Spec => []DealtStacksWereConfirmed
<1>1. DealInv => DealtStacksWereConfirmed
  BY DEF DealInv, DealFacts, DealtRows, DealtStacksWereConfirmed
<1> QED
  BY <1>1, InitDeal, NextDeal, PTL DEF Spec

\* While no requests overlap, the room plays with the rows the hand was dealt from.
THEOREM EveryMemberStaysDealtIn == Spec => []EveryMemberIsDealtIn
<1>1. DealInv => EveryMemberIsDealtIn
  BY DEF DealInv, DealFacts, PlayedRows, EveryMemberIsDealtIn
<1> QED
  BY <1>1, InitDeal, NextDeal, PTL DEF Spec

-----------------------------------------------------------------------------
(* Rooms over the limit are logged *)

Unlogged(u) == { code \in RecentOf(u) : ~created[code].logged }

\* Nobody on his way to an unlogged room makes one too many of it, and only one request of
\* a user who is not crowded is on its way.
MayAdd(c) ==
  (creating[c].at \in {"chips", "note", "code", "insert"} /\ ~creating[c].logged) =>
    Cardinality(Unlogged(creating[c].userId)) < CreateLimit

CreationInv ==
  /\ CreationTypeOK
  /\ \A u \in Creators \ crowded : Cardinality(Unlogged(u)) <= CreateLimit
  /\ \A c, d \in Creations :
       (OnItsWay(c) /\ OnItsWay(d) /\ creating[c].userId = creating[d].userId
          /\ creating[c].userId \notin crowded) => c = d
  /\ \A c \in Creations : (OnItsWay(c) /\ creating[c].userId \notin crowded) => MayAdd(c)

LEMMA UnloggedIsFinite ==
  ASSUME NEW u
  PROVE  /\ IsFiniteSet(Unlogged(u)) /\ Cardinality(Unlogged(u)) \in Nat
         /\ IsFiniteSet(RecentOf(u)) /\ Cardinality(RecentOf(u)) \in Nat
         /\ Cardinality(Unlogged(u)) <= Cardinality(RecentOf(u))
<1>1. RecentOf(u) \in SUBSET RoomCodes /\ Unlogged(u) \in SUBSET RecentOf(u)
  BY DEF RecentOf, Unlogged
<1> QED
  BY <1>1, CodesAssumption, FS_Subset, FS_CardinalityType

\* What a request in progress looks like.
LEMMA CreationRequests ==
  ASSUME CreationTypeOK, NEW c \in Creations
  PROVE  /\ creating[c] \in CreationRequest \cup {NoRequest}
         /\ creating[c].at # "none" =>
              creating[c] \in CreationRequest /\ creating[c].userId \in Creators
         /\ OnItsWay(c) => creating[c].at # "none"
         /\ creating[c] = NoRequest => creating[c].at = "none"
<1>1. creating[c] \in CreationRequest \cup {NoRequest}
  BY DEF CreationTypeOK
<1>2. \A q \in CreationRequest : q.userId \in Creators
  BY DEF CreationRequest
<1> QED
  BY <1>1, <1>2 DEF NoRequest, OnItsWay

\* A request that goes on, or ends, while rooms and users stay.
LEMMA RequestMoves ==
  ASSUME CreationInv, CreationTypeOK', NEW c \in Creations, NEW q,
         creating' = [creating EXCEPT ![c] = q], created' = created,
         crowded' = crowded,
         q.at \in {"log", "chips", "note", "code", "insert"} =>
           OnItsWay(c) /\ q.userId = creating[c].userId,
         (q.at \in {"chips", "note", "code", "insert"} /\ ~q.logged) =>
           creating[c].at \in {"chips", "note", "code", "insert"} /\ ~creating[c].logged
  PROVE  CreationInv'
<1>1. creating'[c] = q /\ \A d \in Creations \ {c} : creating'[d] = creating[d]
  BY DEF CreationInv, CreationTypeOK
<1>2. \A u : Unlogged(u)' = Unlogged(u)
  BY DEF Unlogged, RecentOf, Exists
<1>3. \A d \in Creations : OnItsWay(d)' => OnItsWay(d) /\ creating'[d].userId = creating[d].userId
  BY <1>1 DEF OnItsWay
<1>4. \A d \in Creations : OnItsWay(d)' /\ MayAdd(d) => MayAdd(d)'
  BY <1>1, <1>2, <1>3 DEF MayAdd, OnItsWay
<1> QED
  BY <1>2, <1>3, <1>4 DEF CreationInv

LEMMA CreationTypes ==
  ASSUME CreationTypeOK, CreationNext
  PROVE  CreationTypeOK'
<1>1. ASSUME NEW c \in Creations, NEW q \in CreationRequest \cup {NoRequest},
             creating' = [creating EXCEPT ![c] = q]
      PROVE  creating' \in [Creations -> CreationRequest \cup {NoRequest}]
  BY <1>1 DEF CreationTypeOK
<1>2. NoRequest \in CreationRequest \cup {NoRequest}
  OBVIOUS
<1>3. ASSUME NEW c \in Creations, Ends(c)
      PROVE  creating' \in [Creations -> CreationRequest \cup {NoRequest}]
  BY <1>1, <1>2, <1>3 DEF Ends
<1>4. ASSUME NEW c \in Creations, NEW step \in {"log", "chips", "note", "code"},
             creating[c].at \in {"count", "log", "chips", "note"}, Continues(c, step)
      PROVE  creating' \in [Creations -> CreationRequest \cup {NoRequest}]
  <2>1. [creating[c] EXCEPT !.at = step] \in CreationRequest
    BY <1>4, CreationRequests DEF CreationRequest
  <2>2. creating' = [creating EXCEPT ![c] = [creating[c] EXCEPT !.at = step]]
    BY <1>4 DEF Continues, CreationTypeOK
  <2> QED
    BY <1>1, <2>1, <2>2
<1>5. ASSUME NEW c \in Creations, NEW u \in Creators, CreateRoom(c, u)
      PROVE  CreationTypeOK'
  <2>1. [at |-> "count", userId |-> u, logged |-> FALSE] \in CreationRequest
    BY DEF CreationRequest
  <2> QED
    BY <1>1, <1>5, <2>1 DEF CreateRoom, CreationTypeOK
<1>6. ASSUME NEW c \in Creations, CountRecent(c)
      PROVE  CreationTypeOK'
  <2>1. crowded' \subseteq Creators
    BY <1>6, CreationRequests DEF CountRecent, AtStep, CreationTypeOK
  <2> QED
    BY <1>4, <1>6, <2>1 DEF CountRecent, AtStep, CreationTypeOK
<1>7. ASSUME NEW c \in Creations, LogFrequency(c)
      PROVE  CreationTypeOK'
  <2>1. [creating[c] EXCEPT !.at = "chips", !.logged = TRUE] \in CreationRequest
    BY <1>7, CreationRequests DEF LogFrequency, AtStep, CreationRequest
  <2>2. creating' = [creating EXCEPT ![c] = [creating[c] EXCEPT !.at = "chips", !.logged = TRUE]]
    BY <1>7 DEF LogFrequency, CreationTypeOK
  <2> QED
    BY <1>1, <1>7, <2>1, <2>2 DEF LogFrequency, CreationTypeOK
<1>8. ASSUME NEW c \in Creations, CheckChips(c) \/ CheckNote(c) \/ CreationFails(c)
      PROVE  CreationTypeOK'
  <2>1. creating' \in [Creations -> CreationRequest \cup {NoRequest}]
    BY <1>3, <1>4, <1>8 DEF CheckChips, CheckNote, CreationFails, AtStep
  <2> QED
    BY <1>8, <2>1 DEF CheckChips, CheckNote, CreationFails, CreationTypeOK
<1>9. ASSUME NEW c \in Creations, FindCode(c)
      PROVE  CreationTypeOK'
  <2>1. \A code \in RoomCodes :
          [at |-> "insert", userId |-> creating[c].userId, logged |-> creating[c].logged,
           code |-> code] \in CreationRequest
    <3>1. creating[c].userId \in Creators /\ creating[c].logged \in BOOLEAN
      BY <1>9, CreationRequests DEF FindCode, AtStep, CreationRequest
    <3> QED
      BY <3>1 DEF CreationRequest
  <2>2. creating' \in [Creations -> CreationRequest \cup {NoRequest}]
    BY <1>1, <1>3, <1>9, <2>1 DEF FindCode
  <2> QED
    BY <1>9, <2>2 DEF FindCode, CreationTypeOK
<1>10. ASSUME NEW c \in Creations, InsertRoom(c)
       PROVE  CreationTypeOK'
  <2>1. creating[c].userId \in Creators /\ creating[c].logged \in BOOLEAN
    BY <1>10, CreationRequests DEF InsertRoom, AtStep, CreationRequest
  <2>2. [ownerUserId |-> creating[c].userId, recent |-> TRUE, logged |-> creating[c].logged]
          \in RoomRow
    BY <2>1 DEF RoomRow
  <2>3. created' \in [RoomCodes -> RoomRow \cup {NoRoom}]
    BY <1>10, <2>2 DEF InsertRoom, CreationTypeOK
  <2>4. creating' \in [Creations -> CreationRequest \cup {NoRequest}]
    BY <1>3, <1>10 DEF InsertRoom
  <2> QED
    BY <1>10, <2>3, <2>4 DEF InsertRoom, CreationTypeOK
<1>11. ASSUME NEW code \in RoomCodes, HourPasses(code)
       PROVE  CreationTypeOK'
  <2>1. created[code] \in RoomRow
    BY <1>11 DEF HourPasses, Exists, CreationTypeOK
  <2>2. [created[code] EXCEPT !.recent = FALSE] \in RoomRow
    BY <2>1 DEF RoomRow
  <2>3. created' \in [RoomCodes -> RoomRow \cup {NoRoom}]
    BY <1>11, <2>2 DEF HourPasses, CreationTypeOK
  <2> QED
    BY <1>11, <2>3 DEF HourPasses, CreationTypeOK
<1>12. ASSUME NEW u \in Creators, SetUserStatus(u)
       PROVE  CreationTypeOK'
  BY <1>12 DEF SetUserStatus, CreationTypeOK
<1> QED
  BY <1>5, <1>6, <1>7, <1>8, <1>9, <1>10, <1>11, <1>12 DEF CreationNext

\* A room counted short of the limit may be added without a log.
LEMMA CountedRoom ==
  ASSUME CreationInv, CreationTypeOK', NEW c \in Creations, CountRecent(c)
  PROVE  CreationInv'
<1> DEFINE u == creating[c].userId
           q == [creating[c] EXCEPT !.at = IF TooMany(c) THEN "log" ELSE "chips"]
<1>1. creating[c] \in CreationRequest /\ creating[c].at = "count" /\ u \in Creators
  BY CreationRequests DEF CreationInv, CountRecent, AtStep
<1>2. /\ q.userId = u /\ q.logged = creating[c].logged
      /\ q.at = IF TooMany(c) THEN "log" ELSE "chips"
  BY <1>1 DEF CreationRequest
<1>3. creating'[c] = q /\ \A d \in Creations \ {c} : creating'[d] = creating[d]
  BY DEF CountRecent, Continues, CreationInv, CreationTypeOK
<1> HIDE DEF q
<1>4. \A v : Unlogged(v)' = Unlogged(v)
  BY DEF Unlogged, RecentOf, Exists, CountRecent
<1>5. /\ crowded \subseteq crowded'
      /\ u \notin crowded' => \A d \in Creations : ~(OnItsWay(d) /\ creating[d].userId = u)
  BY DEF CountRecent
<1>6. \A d \in Creations \ {c} : /\ OnItsWay(d)' <=> OnItsWay(d)
                                 /\ creating'[d].userId = creating[d].userId
  BY <1>3 DEF OnItsWay
<1>7. \A v \in Creators \ crowded' : Cardinality(Unlogged(v)') <= CreateLimit
  BY <1>4, <1>5 DEF CreationInv
<1>8. ASSUME NEW d \in Creations, NEW e \in Creations, OnItsWay(d)', OnItsWay(e)',
             creating'[d].userId = creating'[e].userId, creating'[d].userId \notin crowded'
      PROVE  d = e
  <2>1. CASE d # c /\ e # c
    BY <1>5, <1>6, <1>8, <2>1 DEF CreationInv
  <2>2. CASE d = c \/ e = c
    BY <1>2, <1>3, <1>5, <1>6, <1>8, <2>2
  <2> QED
    BY <2>1, <2>2
<1>9. ASSUME NEW d \in Creations \ {c}, OnItsWay(d)', creating'[d].userId \notin crowded'
      PROVE  MayAdd(d)'
  <2>1. MayAdd(d)
    BY <1>5, <1>6, <1>9 DEF CreationInv
  <2> QED
    BY <1>3, <1>4, <2>1 DEF MayAdd
<1>10. MayAdd(c)'
  <2>1. CASE TooMany(c)
    BY <1>2, <1>3, <2>1 DEF MayAdd
  <2>2. CASE ~TooMany(c)
    <3>1. Cardinality(RecentOf(u)) < CreateLimit
      BY <2>2, UnloggedIsFinite, LimitAssumption DEF TooMany
    <3>2. Cardinality(Unlogged(u)) < CreateLimit
      BY <3>1, UnloggedIsFinite, LimitAssumption
    <3> QED
      BY <1>2, <1>3, <1>4, <3>2 DEF MayAdd
  <2> QED
    BY <2>1, <2>2
<1> QED
  BY <1>7, <1>8, <1>9, <1>10 DEF CreationInv

\* The room that is added is the only one on its way.
LEMMA InsertedRoom ==
  ASSUME CreationInv, CreationTypeOK', NEW c \in Creations, InsertRoom(c)
  PROVE  CreationInv'
<1>1. /\ OnItsWay(c) /\ creating[c].at = "insert" /\ creating[c].userId \in Creators
      /\ creating[c].code \in RoomCodes /\ creating[c].logged \in BOOLEAN
  BY CreationRequests DEF CreationInv, InsertRoom, AtStep, OnItsWay, CreationRequest
<1>2. PICK u \in Creators, code \in RoomCodes, logged \in BOOLEAN :
        u = creating[c].userId /\ code = creating[c].code /\ logged = creating[c].logged
  BY <1>1
<1> DEFINE row == [ownerUserId |-> u, recent |-> TRUE, logged |-> logged]
<1>3. /\ creating'[c] = NoRequest /\ \A d \in Creations \ {c} : creating'[d] = creating[d]
      /\ crowded' = crowded
  BY DEF InsertRoom, Ends, CreationInv, CreationTypeOK
<1>4. \A d \in Creations : OnItsWay(d)' => OnItsWay(d) /\ d # c /\ creating'[d] = creating[d]
  BY <1>3 DEF OnItsWay, NoRequest
<1>5. /\ \A x \in RoomCodes \ {code} : created'[x] = created[x]
      /\ created'[code] = created[code] \/ created'[code] = row
  BY <1>2 DEF InsertRoom, CreationInv, CreationTypeOK
<1>6. row.ownerUserId = u /\ row.logged = logged
  OBVIOUS
<1> HIDE DEF row
<1>7. \A v : v # u => Unlogged(v)' \subseteq Unlogged(v)
  BY <1>5, <1>6 DEF Unlogged, RecentOf, Exists
<1>8. Unlogged(u)' \subseteq Unlogged(u) \cup {code}
  BY <1>5 DEF Unlogged, RecentOf, Exists
<1>9. logged => Unlogged(u)' \subseteq Unlogged(u)
  BY <1>5, <1>6 DEF Unlogged, RecentOf, Exists
<1>10. ASSUME NEW v, Unlogged(v)' \subseteq Unlogged(v)
       PROVE  /\ Cardinality(Unlogged(v)') <= Cardinality(Unlogged(v))
              /\ Cardinality(Unlogged(v)') \in Nat /\ Cardinality(Unlogged(v)) \in Nat
  BY <1>10, UnloggedIsFinite, FS_Subset, FS_CardinalityType
<1>11. ASSUME u \notin crowded
       PROVE  Cardinality(Unlogged(u)') <= CreateLimit
  <2>1. CASE logged
    <3>1. Cardinality(Unlogged(u)) <= CreateLimit
      BY <1>11 DEF CreationInv
    <3> QED
      BY <1>9, <1>10, <2>1, <3>1, LimitAssumption
  <2>2. CASE ~logged
    <3>1. Cardinality(Unlogged(u)) < CreateLimit
      BY <1>1, <1>2, <1>11, <2>2 DEF CreationInv, MayAdd
    <3>2. IsFiniteSet(Unlogged(u)) /\ Cardinality(Unlogged(u)) \in Nat
      BY UnloggedIsFinite
    <3>3. /\ IsFiniteSet(Unlogged(u) \cup {code})
          /\ Cardinality(Unlogged(u) \cup {code}) <= Cardinality(Unlogged(u)) + 1
      <4>1. Cardinality(Unlogged(u) \cup {code}) =
              IF code \in Unlogged(u) THEN Cardinality(Unlogged(u))
                                      ELSE Cardinality(Unlogged(u)) + 1
        BY <3>2, FS_AddElement
      <4>2. IsFiniteSet(Unlogged(u) \cup {code})
        BY <3>2, FS_AddElement
      <4> QED
        BY <3>2, <4>1, <4>2
    <3>4. /\ Cardinality(Unlogged(u)') <= Cardinality(Unlogged(u) \cup {code})
          /\ Cardinality(Unlogged(u)') \in Nat
      BY <1>8, <3>3, FS_Subset, FS_CardinalityType
    <3>5. Cardinality(Unlogged(u) \cup {code}) \in Nat
      BY <3>3, FS_CardinalityType
    <3> QED
      BY <3>1, <3>2, <3>3, <3>4, <3>5, LimitAssumption
  <2> QED
    BY <2>1, <2>2
<1>12. ASSUME NEW v \in Creators \ crowded'
       PROVE  Cardinality(Unlogged(v)') <= CreateLimit
  <2>1. CASE v = u
    BY <1>3, <1>11, <1>12, <2>1
  <2>2. CASE v # u
    <3>1. Cardinality(Unlogged(v)) <= CreateLimit
      BY <1>3, <1>12 DEF CreationInv
    <3> QED
      BY <1>7, <1>10, <2>2, <3>1, LimitAssumption
  <2> QED
    BY <2>1, <2>2
<1>13. ASSUME NEW d \in Creations, OnItsWay(d)', creating'[d].userId \notin crowded'
       PROVE  MayAdd(d)'
  <2>1. PICK v : v = creating[d].userId
    OBVIOUS
  <2>2. v # u /\ MayAdd(d)
    BY <1>1, <1>2, <1>3, <1>4, <1>13, <2>1 DEF CreationInv
  <2>3. /\ Cardinality(Unlogged(v)') <= Cardinality(Unlogged(v))
        /\ Cardinality(Unlogged(v)') \in Nat /\ Cardinality(Unlogged(v)) \in Nat
    BY <1>7, <1>10, <2>2
  <2>4. Cardinality(Unlogged(v)) < CreateLimit => Cardinality(Unlogged(v)') < CreateLimit
    BY <2>3, LimitAssumption
  <2> QED
    BY <1>4, <1>13, <2>1, <2>2, <2>4 DEF MayAdd
<1>14. \A d, e \in Creations :
         (OnItsWay(d)' /\ OnItsWay(e)' /\ creating'[d].userId = creating'[e].userId
            /\ creating'[d].userId \notin crowded') => d = e
  BY <1>3, <1>4 DEF CreationInv
<1> QED
  BY <1>12, <1>13, <1>14 DEF CreationInv

\* A room that has grown old counts no more.
LEMMA AgedRoom ==
  ASSUME CreationInv, CreationTypeOK', NEW code \in RoomCodes, HourPasses(code)
  PROVE  CreationInv'
<1>1. creating' = creating /\ crowded' = crowded
  BY DEF HourPasses
<1>2. ASSUME NEW v
      PROVE  Unlogged(v)' \subseteq Unlogged(v)
  <2>1. ~created'[code].recent /\ \A x \in RoomCodes \ {code} : created'[x] = created[x]
    <3>1. created[code] \in RoomRow
      BY DEF CreationInv, CreationTypeOK, HourPasses, Exists
    <3>2. ~[created[code] EXCEPT !.recent = FALSE].recent
      BY <3>1 DEF RoomRow
    <3> QED
      BY <3>2 DEF HourPasses, CreationInv, CreationTypeOK
  <2> QED
    BY <2>1 DEF Unlogged, RecentOf, Exists
<1>3. ASSUME NEW v
      PROVE  /\ Cardinality(Unlogged(v)') <= Cardinality(Unlogged(v))
             /\ Cardinality(Unlogged(v)') \in Nat /\ Cardinality(Unlogged(v)) \in Nat
  BY <1>2, UnloggedIsFinite, FS_Subset, FS_CardinalityType
<1>4. \A v \in Creators \ crowded' : Cardinality(Unlogged(v)') <= CreateLimit
  BY <1>1, <1>3, LimitAssumption DEF CreationInv
<1>5. ASSUME NEW d \in Creations, MayAdd(d)
      PROVE  MayAdd(d)'
  <2>1. PICK v : v = creating[d].userId
    OBVIOUS
  <2>2. Cardinality(Unlogged(v)) < CreateLimit => Cardinality(Unlogged(v)') < CreateLimit
    BY <1>3, LimitAssumption
  <2> QED
    BY <1>1, <1>5, <2>1, <2>2 DEF MayAdd
<1> QED
  BY <1>1, <1>4, <1>5 DEF CreationInv, OnItsWay

LEMMA CreationNextInv == CreationInv /\ CreationNext => CreationInv'
<1> SUFFICES ASSUME CreationInv, CreationNext
             PROVE  CreationInv'
  OBVIOUS
<1>1. CreationTypeOK'
  BY CreationTypes DEF CreationInv
<1>2. NoRequest.at = "none"
  BY DEF NoRequest
<1>3. ASSUME NEW c \in Creations, Ends(c), created' = created, crowded' = crowded
      PROVE  CreationInv'
  BY <1>1, <1>2, <1>3, RequestMoves DEF Ends
<1>4. ASSUME NEW c \in Creations, NEW step \in {"note", "code"}, Continues(c, step),
             creating[c].at \in {"chips", "note"}, created' = created, crowded' = crowded
      PROVE  CreationInv'
  <2> DEFINE q == [creating[c] EXCEPT !.at = step]
  <2>1. q.at = step /\ q.userId = creating[c].userId /\ q.logged = creating[c].logged
    BY <1>4, CreationRequests DEF CreationInv, CreationRequest
  <2>2. creating' = [creating EXCEPT ![c] = q]
    BY <1>4 DEF Continues, CreationInv, CreationTypeOK
  <2> HIDE DEF q
  <2>3. OnItsWay(c)
    BY <1>4 DEF OnItsWay
  <2> QED
    BY <1>1, <1>4, <2>1, <2>2, <2>3, RequestMoves
<1>5. ASSUME NEW c \in Creations, NEW u \in Creators, CreateRoom(c, u)
      PROVE  CreationInv'
  <2> DEFINE q == [at |-> "count", userId |-> u, logged |-> FALSE]
  <2>1. q.at = "count"
    OBVIOUS
  <2>2. creating' = [creating EXCEPT ![c] = q] /\ created' = created /\ crowded' = crowded
    BY <1>5 DEF CreateRoom
  <2> HIDE DEF q
  <2> QED
    BY <1>1, <2>1, <2>2, RequestMoves
<1>6. ASSUME NEW c \in Creations, LogFrequency(c)
      PROVE  CreationInv'
  <2> DEFINE q == [creating[c] EXCEPT !.at = "chips", !.logged = TRUE]
  <2>1. q.at = "chips" /\ q.userId = creating[c].userId /\ q.logged
    BY <1>6, CreationRequests DEF LogFrequency, AtStep, CreationInv, CreationRequest
  <2>2. /\ creating' = [creating EXCEPT ![c] = q] /\ OnItsWay(c)
        /\ created' = created /\ crowded' = crowded
    BY <1>6 DEF LogFrequency, AtStep, OnItsWay, CreationInv, CreationTypeOK
  <2> HIDE DEF q
  <2> QED
    BY <1>1, <2>1, <2>2, RequestMoves
<1>7. ASSUME NEW c \in Creations, CheckChips(c) \/ CheckNote(c) \/ CreationFails(c)
      PROVE  CreationInv'
  <2>1. created' = created /\ crowded' = crowded
    BY <1>7 DEF CheckChips, CheckNote, CreationFails
  <2>2. Ends(c) \/ \E step \in {"note", "code"} : /\ creating[c].at \in {"chips", "note"}
                                                  /\ Continues(c, step)
    BY <1>7 DEF CheckChips, CheckNote, CreationFails, AtStep
  <2> QED
    BY <1>3, <1>4, <2>1, <2>2
<1>8. ASSUME NEW c \in Creations, FindCode(c)
      PROVE  CreationInv'
  <2>1. created' = created /\ crowded' = crowded
    BY <1>8 DEF FindCode
  <2>2. CASE Ends(c)
    BY <1>3, <2>1, <2>2
  <2>3. ASSUME NEW code \in RoomCodes,
               creating' = [creating EXCEPT ![c] =
                 [at |-> "insert", userId |-> creating[c].userId, logged |-> creating[c].logged,
                  code |-> code]]
        PROVE  CreationInv'
    <3> DEFINE q == [at |-> "insert", userId |-> creating[c].userId,
                     logged |-> creating[c].logged, code |-> code]
    <3>1. q.userId = creating[c].userId /\ q.logged = creating[c].logged
      OBVIOUS
    <3>2. creating[c].at = "code" /\ OnItsWay(c) /\ creating' = [creating EXCEPT ![c] = q]
      BY <1>8, <2>3 DEF FindCode, AtStep, OnItsWay
    <3> HIDE DEF q
    <3> QED
      BY <1>1, <2>1, <3>1, <3>2, RequestMoves
  <2> QED
    BY <1>8, <2>2, <2>3 DEF FindCode
<1>9. ASSUME NEW u \in Creators, SetUserStatus(u)
      PROVE  CreationInv'
  <2>1. UNCHANGED <<created, creating, crowded>>
    BY <1>9 DEF SetUserStatus
  <2>2. \A v : Unlogged(v)' = Unlogged(v)
    BY <2>1 DEF Unlogged, RecentOf, Exists
  <2> QED
    BY <1>1, <2>1, <2>2 DEF CreationInv, OnItsWay, MayAdd
<1> QED
  BY <1>1, <1>5, <1>6, <1>7, <1>8, <1>9, CountedRoom, InsertedRoom, AgedRoom DEF CreationNext

LEMMA CreationInitInv == CreationInit => CreationInv
<1> SUFFICES ASSUME CreationInit
             PROVE  CreationInv
  OBVIOUS
<1>1. CreationTypeOK
  BY DEF CreationInit, CreationTypeOK
<1>2. \A c \in Creations : creating[c].at = "none"
  BY DEF CreationInit, NoRequest
<1>3. \A u : Unlogged(u) = {}
  BY DEF CreationInit, Unlogged, RecentOf, Exists
<1>4. \A u : Cardinality(Unlogged(u)) <= CreateLimit
  BY <1>3, FS_EmptySet, LimitAssumption
<1> QED
  BY <1>1, <1>2, <1>4 DEF CreationInv, OnItsWay

\* A step that creates no room leaves what is known of the rooms.
LEMMA CreationStays ==
  ASSUME CreationInv, UNCHANGED creationVars
  PROVE  CreationInv'
<1>1. UNCHANGED <<banned, created, creating, crowded>>
  BY DEF creationVars
<1>2. CreationTypeOK'
  BY <1>1 DEF CreationInv, CreationTypeOK
<1>3. \A u : Unlogged(u)' = Unlogged(u)
  BY <1>1 DEF Unlogged, RecentOf, Exists
<1> QED
  BY <1>1, <1>2, <1>3 DEF CreationInv, OnItsWay, MayAdd

-----------------------------------------------------------------------------
(* The lobby and the rooms together *)

\* Creating other rooms changes nothing of this one.
LEMMA LobbyIsARoom == LobbySpec => Spec
<1>1. LobbyInit => Init
  BY DEF LobbyInit
<1>2. [LobbyNext]_lobbyVars => [Next]_vars
  BY DEF LobbyNext, UsesTheRoom, CreatesRooms, lobbyVars
<1> QED
  BY <1>1, <1>2, PTL DEF LobbySpec, Spec

\* However the requests of different users interleave, and whichever fail, who
\* creates his rooms one at a time has at most the limit of them unlogged within
\* an hour.
THEOREM RoomsOverTheLimitStayLogged == LobbySpec => []RoomsOverTheLimitAreLogged
<1>1. LobbyInit => CreationInv
  BY CreationInitInv DEF LobbyInit
<1>2. CreationInv /\ [LobbyNext]_lobbyVars => CreationInv'
  BY CreationNextInv, CreationStays
     DEF LobbyNext, UsesTheRoom, CreatesRooms, lobbyVars
<1>3. CreationInv => RoomsOverTheLimitAreLogged
  BY DEF CreationInv, Unlogged, RoomsOverTheLimitAreLogged
<1> QED
  BY <1>1, <1>2, <1>3, PTL DEF LobbySpec
=============================================================================
