----------------------------- MODULE TeamLedger -----------------------------
(***************************************************************************)
(* One room of the team ledger (team-ledger.service.ts).  The players of   *)
(* a game played elsewhere enter what each won or lost in every hand,      *)
(* confirm one another's entries and settle what the locked hands add up   *)
(* to.  Nothing but single statements and two small transactions is atomic *)
(* in the database, so a request is the statements it still has to run,    *)
(* with what it read before them.  Amounts are whole numbers.              *)
(***************************************************************************)
EXTENDS LedgerRequests, FiniteSets, FiniteSetsExt, Sequences

CONSTANTS
    Temp,      \* stands for every participant without an account
    Amounts,   \* what an entry may say, seat by seat
    MaxRows,   \* bound: participants and hands together
    OverlapRows  \* bound: those of a room in which requests overlap

ASSUME TempAssumption == Temp \notin Users
ASSUME RowsAssumption == MaxRows \in Nat /\ OverlapRows \in Nat
ASSUME AmountsAssumption == Amounts \in [1 .. MaxRows -> SUBSET Int]

VARIABLES
    room,          \* [status, currentHandNo]
    participants,  \* the rows [seat, user]
    hands,         \* the rows [handNo, status, locked]: locked is lockedAt # null
    entries,       \* the rows [handNo, seat, amount, status]
    settlements,   \* the suggestions, in the order they were created
    overlapped     \* history: what was once handled at the same time as something else

roomVars == <<room, participants, hands, entries, settlements, overlapped>>

----------------------------------------------------------------------------
(* Rows *)

\* "OVER" is FINISHED or CLOSED, which no request tells apart.
RoomStatus == {"WAITING", "ACTIVE", "OVER"}
HandStatus == {"OPEN", "CONFIRMING", "LOCKED", "DISPUTED"}
EntryStatus == {"PENDING", "SUBMITTED", "CONFIRMED", "DISPUTED"}

Seats == 1 .. MaxRows
HandNos == 1 .. MaxRows

Participant == [seat : Seats, user : Users \cup {Temp}]
Hand == [handNo : HandNos, status : HandStatus, locked : BOOLEAN]
Entry == [handNo : HandNos, seat : Seats, amount : Int, status : EntryStatus]
Suggestion == [from : Seats, to : Seats, amount : Nat]
Claim == [seat : Seats, amount : Nat]

Request == {Idle}
    \cup [op : {"seat"}, user : Users \cup {Temp}, seat : Nat]
    \cup [op : {"next hand"}, handNo : Nat]
    \cup [op : {"upsert"}, handNo : HandNos, seat : Seats, amount : Int,
          disputed : BOOLEAN]
    \cup [op : {"reopen", "promote", "confirming", "locking", "lock"}, handNo : HandNos]
    \cup [op : {"confirm"}, handNo : HandNos, seat : Seats]
    \cup [op : {"clear", "suggest"}, ds : Seq(Claim), cs : Seq(Claim)]

SeatsTaken == {p.seat : p \in participants}
LastSeat == Max(SeatsTaken \cup {0})
Seated(u) == {p \in participants : p.user = u}
Numbers == {h.handNo : h \in hands}
Rows == Cardinality(participants) + Cardinality(hands)
RoomLeft == Rows < IF overlapped = "nothing" THEN MaxRows ELSE OverlapRows

\* The hands with their row n given another status (and locked at, when it is LOCKED).
WithStatus(n, status) ==
    {IF h.handNo = n THEN [h EXCEPT !.status = status, !.locked = @ \/ status = "LOCKED"]
                     ELSE h : h \in hands}

EntriesOf(n) == {e \in entries : e.handNo = n}
\* Faulty: pending and disputed entries count as submitted.
CountedAll(n) == EntriesOf(n)
Counted(n) == {e \in EntriesOf(n) : e.status \in {"SUBMITTED", "CONFIRMED"}}
Total(E) == MapThenSumSet(LAMBDA e : e.amount, E)
AllSubmitted(n) == \A p \in participants : \E e \in Counted(n) : e.seat = p.seat
AllConfirmed(n) ==
    \A p \in participants : \E e \in EntriesOf(n) : e.seat = p.seat /\ e.status = "CONFIRMED"

----------------------------------------------------------------------------
(* Requests *)

Confirming(q) == q.op \in {"confirm", "locking", "lock"}

\* The history when request r begins as q.
Overlap(r, q) ==
    overlapped' = IF Busy \ {r} = {} THEN overlapped
                  ELSE IF Confirming(q) /\ \A b \in Busy \ {r} : Confirming(req[b])
                  THEN IF overlapped = "nothing" THEN "confirmations" ELSE overlapped
                  ELSE "anything"

\* A request begins, where the bounds let it run beside the others.
Free(r) == req[r] = Idle /\ (Busy = {} \/ Rows <= OverlapRows)
Begins(r, q) == Free(r) /\ req' = [req EXCEPT ![r] = q] /\ Overlap(r, q)
Goes(r, q) == req' = [req EXCEPT ![r] = q] /\ UNCHANGED overlapped
\* A request whose checks can only come true is one step.
AtOnce(r) == Free(r) /\ Overlap(r, Idle) /\ UNCHANGED req

\* createRoom: the owner takes the first seat.
RoomInit ==
    /\ room = [status |-> "WAITING", currentHandNo |-> 0]
    /\ participants = {[seat |-> 1, user |-> Owner]}
    /\ hands = {} /\ entries = {} /\ settlements = <<>>
    /\ req = [r \in Requests |-> Idle]
    /\ overlapped = "nothing"

JoinRoom(r, u) ==
    /\ room.status = "WAITING" /\ Seated(u) = {}
    /\ Begins(r, [op |-> "seat", user |-> u, seat |-> LastSeat + 1])
    /\ UNCHANGED <<room, participants, hands, entries, settlements>>

AddTempParticipant(r) ==
    /\ Begins(r, [op |-> "seat", user |-> Temp, seat |-> LastSeat + 1])
    /\ UNCHANGED <<room, participants, hands, entries, settlements>>

\* The insert of either: (roomId, seatNo) is unique, so a seat taken meanwhile fails it.
TakeSeat(r) ==
    /\ req[r].op = "seat"
    /\ RoomLeft \/ req[r].seat \in SeatsTaken
    /\ participants' = IF req[r].seat \in SeatsTaken THEN participants
                       ELSE participants \cup {[seat |-> req[r].seat, user |-> req[r].user]}
    /\ Goes(r, Idle)
    /\ UNCHANGED <<room, hands, entries, settlements>>

StartRoom(r) ==
    /\ Cardinality(participants) >= 2
    /\ AtOnce(r)
    /\ room' = [status |-> "ACTIVE", currentHandNo |-> 0]
    /\ UNCHANGED <<participants, hands, entries, settlements>>

Closes(r) ==
    /\ AtOnce(r)
    /\ room' = [room EXCEPT !.status = "OVER"]
    /\ UNCHANGED <<participants, hands, entries, settlements>>

\* By the owner or, through closeRoom, by anyone; an administrator; and whenever one lists the
\* rooms, of those nobody has touched for long.
EndRoom(r) == Closes(r)
CloseTeamLedgerRoom(r) == Closes(r)
SweepIdleRooms(r) == room.status # "OVER" /\ Closes(r)

----------------------------------------------------------------------------
(* Hands *)

\* Faulty: the last hand need not be locked.
CreateNextHandAnyway(r) ==
    /\ room.status = "ACTIVE"
    /\ Begins(r, [op |-> "next hand", handNo |-> room.currentHandNo + 1])
    /\ UNCHANGED <<room, participants, hands, entries, settlements>>

CreateNextHand(r) ==
    /\ room.status = "ACTIVE"
    /\ \A h \in hands : h.handNo = Max(Numbers) => h.status = "LOCKED"
    /\ Begins(r, [op |-> "next hand", handNo |-> room.currentHandNo + 1])
    /\ UNCHANGED <<room, participants, hands, entries, settlements>>

\* One transaction: (roomId, handNo) is unique, so a number in use undoes both writes.
InsertHand(r) ==
    LET n == req[r].handNo IN
    /\ req[r].op = "next hand"
    /\ RoomLeft \/ n \in Numbers
    /\ IF n \in Numbers THEN UNCHANGED <<room, hands>>
       ELSE /\ hands' = hands \cup {[handNo |-> n, status |-> "OPEN", locked |-> FALSE]}
            /\ room' = [room EXCEPT !.currentHandNo = n]
    /\ Goes(r, Idle)
    /\ UNCHANGED <<participants, entries, settlements>>

SubmitEntry(r, u) == \E h \in hands, p \in Seated(u) : \E a \in Amounts[p.seat] :
    /\ h.status # "LOCKED"
    /\ Begins(r, [op |-> "upsert", handNo |-> h.handNo, seat |-> p.seat, amount |-> a,
                  disputed |-> h.status = "DISPUTED"])
    /\ UNCHANGED <<room, participants, hands, entries, settlements>>

\* The entries with the one of hand n and seat s as just submitted.
Submitted(n, s, a) ==
    {e \in entries : <<e.handNo, e.seat>> # <<n, s>>}
        \cup {[handNo |-> n, seat |-> s, amount |-> a, status |-> "SUBMITTED"]}

Upsert(r) ==
    LET q == req[r] IN
    /\ q.op = "upsert"
    /\ entries' = Submitted(q.handNo, q.seat, q.amount)
    /\ Goes(r, [op |-> IF q.disputed THEN "reopen" ELSE "promote", handNo |-> q.handNo])
    /\ UNCHANGED <<room, participants, hands, settlements>>

\* The owner's entry for a participant without an account; no status is looked at.
SubmitEntryForTemp(r) == \E h \in hands, p \in Seated(Temp) : \E a \in Amounts[p.seat] :
    /\ AtOnce(r)
    /\ entries' = Submitted(h.handNo, p.seat, a)
    /\ UNCHANGED <<room, participants, hands, settlements>>

\* An update of the hand's status that was decided on earlier.
Writes(r, op, status, next) ==
    /\ req[r].op = op
    /\ hands' = WithStatus(req[r].handNo, status)
    /\ Goes(r, next)
    /\ UNCHANGED <<room, participants, entries, settlements>>

Reopen(r) == Writes(r, "reopen", "OPEN", [op |-> "promote", handNo |-> req[r].handNo])

\* Reads what the promotion depends on and goes on to its update, or is done.
Decides(r, op, next, promoted) ==
    /\ req[r].op = op
    /\ Goes(r, IF promoted THEN [op |-> next, handNo |-> req[r].handNo] ELSE Idle)
    /\ UNCHANGED <<room, participants, hands, entries, settlements>>

MayConfirm(n) == AllSubmitted(n) /\ Total(Counted(n)) = 0

AutoPromote(r) ==
    LET n == req[r].handNo IN
    Decides(r, "promote", "confirming",
            MayConfirm(n) /\ \E h \in hands : h.handNo = n /\ h.status = "OPEN")

RequestConfirmHand(r) == \E h \in hands :
    /\ MayConfirm(h.handNo)
    /\ Begins(r, [op |-> "confirming", handNo |-> h.handNo])
    /\ UNCHANGED <<room, participants, hands, entries, settlements>>

StartConfirming(r) == Writes(r, "confirming", "CONFIRMING", Idle)

ConfirmHandEntry(r, u) == \E h \in hands, p \in Seated(u) :
    /\ h.status = "CONFIRMING"
    /\ Begins(r, [op |-> "confirm", handNo |-> h.handNo, seat |-> p.seat])
    /\ UNCHANGED <<room, participants, hands, entries, settlements>>

\* The entries of hand n in status to, those of the seats S in status other.
Restated(n, S, to, other) ==
    {IF e.handNo # n THEN e
     ELSE IF e.seat \in S THEN [e EXCEPT !.status = to]
     ELSE IF other = "kept" THEN e ELSE [e EXCEPT !.status = other] : e \in entries}

\* Faulty: the others are looked at before the own confirmation is written.
MarkConfirmedLate(r) ==
    LET q == req[r]
        others == {p \in participants : p.seat # q.seat}
        last == \A p \in others : \E e \in EntriesOf(q.handNo) :
                    e.seat = p.seat /\ e.status = "CONFIRMED" IN
    /\ q.op = "confirm"
    /\ \/ /\ "last" \notin DOMAIN q
          /\ Goes(r, [op |-> "confirm", handNo |-> q.handNo, seat |-> q.seat, last |-> last])
          /\ UNCHANGED entries
       \/ /\ "last" \in DOMAIN q
          /\ entries' = Restated(q.handNo, {q.seat}, "CONFIRMED", "kept")
          /\ Goes(r, IF q.last THEN [op |-> "lock", handNo |-> q.handNo] ELSE Idle)
    /\ UNCHANGED <<room, participants, hands, settlements>>

MarkConfirmed(r) ==
    LET q == req[r] IN
    /\ q.op = "confirm"
    /\ entries' = Restated(q.handNo, {q.seat}, "CONFIRMED", "kept")
    /\ Goes(r, [op |-> "locking", handNo |-> q.handNo])
    /\ UNCHANGED <<room, participants, hands, settlements>>

PromoteLocked(r) == Decides(r, "locking", "lock", AllConfirmed(req[r].handNo))

Lock(r) == Writes(r, "lock", "LOCKED", Idle)

\* One transaction, from any status of the hand.
DisputeHandEntry(r, u) == \E h \in hands, p \in Seated(u) :
    /\ AtOnce(r)
    /\ entries' = Restated(h.handNo, {p.seat}, "DISPUTED", "PENDING")
    /\ hands' = WithStatus(h.handNo, "DISPUTED")
    /\ UNCHANGED <<room, participants, settlements>>

----------------------------------------------------------------------------
(* Summary and settlement *)

LockedHands == {h.handNo : h \in {x \in hands : x.status = "LOCKED"}}

\* getSummary: what the locked hands brought the participant in seat s.
CumulativeNet(s) == Total({e \in entries : e.seat = s /\ e.handNo \in LockedHands})

\* The seats of S with amount f[s], the largest first and in seat order among equals.
Largest(S, f) ==
    CHOOSE q \in [1 .. Cardinality(S) -> [seat : S, amount : {f[s] : s \in S}]] :
        /\ \A i \in DOMAIN q : q[i].amount = f[q[i].seat]
        /\ \A i, j \in DOMAIN q : i < j =>
               \/ q[i].amount > q[j].amount
               \/ q[i].amount = q[j].amount /\ q[i].seat < q[j].seat

\* Faulty: hands that are not locked count as well.
GenerateSettlementEarly(r) ==
    LET net == [s \in SeatsTaken |-> Total({e \in entries : e.seat = s})]
        due == [s \in SeatsTaken |-> IF net[s] < 0 THEN -net[s] ELSE net[s]] IN
    /\ Begins(r, [op |-> "clear", ds |-> Largest({s \in SeatsTaken : net[s] < 0}, due),
                  cs |-> Largest({s \in SeatsTaken : net[s] > 0}, due)])
    /\ UNCHANGED <<room, participants, hands, entries, settlements>>

GenerateSettlement(r) ==
    LET net == [s \in SeatsTaken |-> CumulativeNet(s)]
        due == [s \in SeatsTaken |-> IF net[s] < 0 THEN -net[s] ELSE net[s]] IN
    /\ Begins(r, [op |-> "clear", ds |-> Largest({s \in SeatsTaken : net[s] < 0}, due),
                  cs |-> Largest({s \in SeatsTaken : net[s] > 0}, due)])
    /\ UNCHANGED <<room, participants, hands, entries, settlements>>

Suggesting(ds, cs) ==
    IF ds = <<>> \/ cs = <<>> THEN Idle ELSE [op |-> "suggest", ds |-> ds, cs |-> cs]

ClearSettlement(r) ==
    /\ req[r].op = "clear"
    /\ settlements' = <<>>
    /\ Goes(r, Suggesting(req[r].ds, req[r].cs))
    /\ UNCHANGED <<room, participants, hands, entries>>

\* The claims with the first one reduced, and gone when nothing of it is left.
Less(claims, amount) ==
    IF Head(claims).amount = amount THEN Tail(claims)
    ELSE [claims EXCEPT ![1].amount = @ - amount]

\* One round of the loop: the first debtor pays the first creditor what both can settle.
Suggest(r) ==
    LET ds == req[r].ds
        cs == req[r].cs
        amount == Min({Head(ds).amount, Head(cs).amount}) IN
    /\ req[r].op = "suggest"
    /\ settlements' = Append(settlements,
           [from |-> Head(ds).seat, to |-> Head(cs).seat, amount |-> amount])
    /\ Goes(r, Suggesting(Less(ds, amount), Less(cs, amount)))
    /\ UNCHANGED <<room, participants, hands, entries>>

----------------------------------------------------------------------------
RoomNext == \E r \in Requests :
    \/ AddTempParticipant(r) \/ TakeSeat(r) \/ StartRoom(r)
    \/ EndRoom(r) \/ CloseTeamLedgerRoom(r) \/ SweepIdleRooms(r)
    \/ CreateNextHand(r) \/ InsertHand(r)
    \/ Upsert(r) \/ Reopen(r) \/ AutoPromote(r)
    \/ RequestConfirmHand(r) \/ StartConfirming(r)
    \/ MarkConfirmed(r) \/ PromoteLocked(r) \/ Lock(r)
    \/ GenerateSettlement(r) \/ ClearSettlement(r) \/ Suggest(r)
    \/ SubmitEntryForTemp(r)
    \/ \E u \in Users : \/ JoinRoom(r, u) \/ SubmitEntry(r, u)
                        \/ ConfirmHandEntry(r, u) \/ DisputeHandEntry(r, u)

----------------------------------------------------------------------------
(* Properties *)

RoomTypeOK ==
    /\ room \in [status : RoomStatus, currentHandNo : 0 .. MaxRows]
    /\ participants \subseteq Participant
    /\ hands \subseteq Hand
    /\ entries \subseteq Entry
    /\ settlements \in Seq(Suggestion)
    /\ req \in [Requests -> Request]
    /\ overlapped \in {"nothing", "confirmations", "anything"}

Quiet == Busy = {}
Registered == {p \in participants : p.user # Temp}

\* A hand is numbered after one that has been locked, also when next hands overlap or the
\* room is started again.
NextHandFollowsALock ==
    \A h \in hands : h.handNo > 1 => \E g \in hands : g.handNo = h.handNo - 1 /\ g.locked

\* While nothing but confirmations overlaps, every player's entry in a hand being confirmed was
\* entered after the last dispute, and in a locked hand every player confirmed his.
ConfirmationsAreFresh ==
    overlapped # "anything" /\ Quiet => \A h \in hands, p \in Registered :
        LET own == {e.status : e \in {x \in EntriesOf(h.handNo) : x.seat = p.seat}} IN
        /\ h.status = "CONFIRMING" => own # {} /\ own \subseteq {"SUBMITTED", "CONFIRMED"}
        /\ h.status = "LOCKED" => own = {"CONFIRMED"}

\* However confirmations and other requests overlap, when a confirmation is the last to be
\* answered its hand is locked if everyone confirmed it: each looks at the others only after
\* it wrote its own.
LastConfirmationLocks ==
    [][\A r \in Requests : Confirming(req[r]) /\ Quiet' =>
        \A h \in hands' :
            h.handNo = req[r].handNo /\ AllConfirmed(h.handNo)' => h.status = "LOCKED"]_<<roomVars, req>>

Moved(S, field, s) == LET at == {i \in DOMAIN S : S[i][field] = s} IN
    MapThenSumSet(LAMBDA i : S[i].amount, at)

\* While nothing but confirmations overlaps, a settlement has nobody pay more than he lost or receive
\* more than he won, and settles the smaller of the two sides in full.
SettlementsSettle ==
    [][overlapped' # "anything" /\ Quiet' /\ (\E r \in Requests : ClearSettlement(r) \/ Suggest(r)) =>
        LET won == {s \in SeatsTaken : CumulativeNet(s) > 0}
            lost == {s \in SeatsTaken : CumulativeNet(s) < 0}
            gain == MapThenSumSet(CumulativeNet, won)
            loss == MapThenSumSet(LAMBDA s : -CumulativeNet(s), lost)
            paid == MapThenSumSet(LAMBDA i : settlements'[i].amount, DOMAIN settlements') IN
        /\ \A s \in won : Moved(settlements', "to", s) <= CumulativeNet(s)
        /\ \A s \in lost : Moved(settlements', "from", s) <= -CumulativeNet(s)
        /\ paid = Min({gain, loss})]_<<roomVars, req>>

\* What the walk-through of the API expects (team-ledger.http): when the last user has
\* confirmed a hand it is locked, also in a room with a player who has no account.
ConfirmedHandsLock ==
    [][\A r \in Requests : Confirming(req[r]) /\ Quiet' =>
        \A h \in hands' :
            h.handNo = req[r].handNo
            /\ (\A p \in Registered : \E e \in EntriesOf(h.handNo) :
                    e.seat = p.seat /\ e.status = "CONFIRMED")'
            => h.status = "LOCKED"]_<<roomVars, req>>

\* As the page tells its users (ledger-team.wxml), the program checks that a hand balances and
\* has all confirm it: what a locked hand moves between the players adds up to nothing.
LockedHandsBalance ==
    \A h \in hands : h.status = "LOCKED" => Total(EntriesOf(h.handNo)) = 0
=============================================================================
