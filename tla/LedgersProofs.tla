---------------------------- MODULE LedgersProofs ----------------------------
(***************************************************************************)
(* Hands of the team ledger are numbered after hands that were locked, for *)
(* any users, amounts and number of requests, however these overlap; hands *)
(* are confirmed and locked on entries that still stand while nothing but  *)
(* confirmations overlaps, and the last confirmation locks; of a game, an  *)
(* undisturbed recalculation puts the totals right and confirmations are   *)
(* counted; and what ProfilesProofs says of a player's names holds of the  *)
(* ledgers.                                                                *)
(***************************************************************************)
EXTENDS Ledgers, ProfilesProofs, SequenceTheorems

PositiveNat == Nat \ {0}
Locked(H, c) == \E g \in H : g.handNo = c /\ g.locked

\* All hands below number n have been locked.
LockedBelow(H, n) == \A c \in PositiveNat : c < n => Locked(H, c)

\* A next hand that was asked for has its number from a room whose last hand was locked.
NextOf(H, q) == q.op = "next hand" => q.handNo \in PositiveNat /\ LockedBelow(H, q.handNo)

HandsInv ==
  /\ DOMAIN req = Requests
  /\ hands \subseteq [handNo : PositiveNat, status : HandStatus, locked : BOOLEAN]
  /\ \A h \in hands : LockedBelow(hands, h.handNo)
  /\ \A h \in hands : h.status = "LOCKED" => h.locked
  /\ room \in [status : RoomStatus, currentHandNo : Nat]
  /\ room.currentHandNo = 0 \/ room.currentHandNo \in Numbers
  /\ \A r \in Requests : NextOf(hands, req[r])

\* While something else is kept the room stays empty.
LedgersInv == (part = "room" /\ HandsInv) \/ (part \in {"game", "profile"} /\ hands = {})

----------------------------------------------------------------------------
(* A hand once locked stays locked, whatever its status becomes *)

LEMMA RestatedHands ==
  ASSUME HandsInv, NEW n, NEW s \in HandStatus
  PROVE  /\ WithStatus(n, s) \subseteq [handNo : PositiveNat, status : HandStatus,
                                             locked : BOOLEAN]
         /\ \A c : Locked(hands, c) => Locked(WithStatus(n, s), c)
         /\ \A h \in WithStatus(n, s) :
              /\ \E g \in hands : g.handNo = h.handNo
              /\ h.status = "LOCKED" => h.locked
         /\ {h.handNo : h \in WithStatus(n, s)} = Numbers
<1> DEFINE new(h) == IF h.handNo = n
                     THEN [h EXCEPT !.status = s, !.locked = h.locked \/ s = "LOCKED"]
                     ELSE h
<1>1. WithStatus(n, s) = {new(h) : h \in hands}
  BY DEF WithStatus
<1>2. ASSUME NEW h \in hands
      PROVE  /\ new(h) \in [handNo : PositiveNat, status : HandStatus, locked : BOOLEAN]
             /\ new(h).handNo = h.handNo
             /\ h.locked => new(h).locked
             /\ new(h).status = "LOCKED" => new(h).locked
  BY DEF HandsInv
<1> HIDE DEF new
<1>3. \A c : Locked(hands, c) => Locked(WithStatus(n, s), c)
  BY <1>1, <1>2 DEF Locked
<1>4. {h.handNo : h \in WithStatus(n, s)} = Numbers
  BY <1>1, <1>2 DEF Numbers
<1> QED
  BY <1>1, <1>2, <1>3, <1>4

\* Steps after which all locked hands are locked, and no next hand is asked for.
LEMMA RestatingStep ==
  ASSUME HandsInv, NEW n, NEW s \in HandStatus, hands' = WithStatus(n, s),
         room' = room, DOMAIN req' = Requests,
         \A r \in Requests : req'[r].op # "next hand" \/ req'[r] = req[r]
  PROVE  HandsInv'
<1>1. \A k : LockedBelow(hands, k) => LockedBelow(hands', k)
  BY RestatedHands DEF LockedBelow
<1>2. hands' \subseteq [handNo : PositiveNat, status : HandStatus, locked : BOOLEAN]
  BY RestatedHands
<1>3. \A h \in hands' : LockedBelow(hands', h.handNo)
  BY <1>1, RestatedHands DEF HandsInv
<1>4. \A h \in hands' : h.status = "LOCKED" => h.locked
  BY RestatedHands
<1>5. room'.currentHandNo = 0 \/ room'.currentHandNo \in Numbers'
  BY RestatedHands DEF HandsInv, Numbers
<1>6. \A r \in Requests : NextOf(hands', req'[r])
  BY <1>1 DEF HandsInv, NextOf
<1> QED
  BY <1>2, <1>3, <1>4, <1>5, <1>6 DEF HandsInv

\* Steps that leave the hands alone.
LEMMA OtherStep ==
  ASSUME HandsInv, hands' = hands, DOMAIN req' = Requests,
         room' \in [status : RoomStatus, currentHandNo : Nat],
         room'.currentHandNo = 0 \/ room'.currentHandNo = room.currentHandNo,
         \A r \in Requests : req'[r].op # "next hand" \/ req'[r] = req[r]
  PROVE  HandsInv'
BY DEF HandsInv, NextOf, Numbers

----------------------------------------------------------------------------
(* The two steps of a next hand *)

\* The hand with the highest number is the only one whose status is looked at; the ones below
\* it were locked before, also below the number the room counts from.
LEMMA NextHandAsked ==
  ASSUME HandsInv, NEW r \in Requests, CreateNextHand(r)
  PROVE  HandsInv'
<1> DEFINE c == room.currentHandNo
           q == [op |-> "next hand", handNo |-> c + 1]
<1>1. req' = [req EXCEPT ![r] = q] /\ hands' = hands /\ room' = room
  BY DEF CreateNextHand, Begins
<1>2. c \in Nat
  BY DEF HandsInv, Numbers, PositiveNat
<1>3. ASSUME NEW d \in PositiveNat, d < c + 1
      PROVE  Locked(hands, d)
  <2>1. c \in Numbers /\ d <= c
    BY <1>2, <1>3 DEF HandsInv, PositiveNat
  <2>2. PICK g \in hands : g.handNo = c
    BY <2>1 DEF Numbers
  <2>3. CASE d < c
    BY <2>2, <2>3 DEF HandsInv, LockedBelow
  <2>4. CASE d = c /\ \E h \in hands : h.handNo > c
    BY <1>2, <2>4 DEF HandsInv, LockedBelow, PositiveNat
  <2>5. CASE d = c /\ \A h \in hands : ~(h.handNo > c)
    <3>1. \A x \in Numbers : x \in Nat /\ c >= x
      BY <1>2, <2>5 DEF Numbers, HandsInv, PositiveNat
    <3>2. Max(Numbers) = c
      BY <1>2, <2>1, <3>1 DEF Max
    <3>3. g.status = "LOCKED"
      BY <2>2, <3>2 DEF CreateNextHand
    <3> QED
      BY <2>2, <2>5, <3>3 DEF HandsInv, Locked
  <2> QED
    BY <1>2, <1>3, <2>1, <2>3, <2>4, <2>5 DEF PositiveNat
<1>4. NextOf(hands, q)
  BY <1>2, <1>3 DEF NextOf, LockedBelow, PositiveNat
<1> HIDE DEF c, q
<1>5. \A o \in Requests : NextOf(hands', req'[o])
  BY <1>1, <1>4 DEF HandsInv
<1> QED
  BY <1>1, <1>5 DEF HandsInv, Numbers

\* What was locked when the number was read still is when the hand is inserted.
LEMMA NextHandInserted ==
  ASSUME HandsInv, NEW r \in Requests, InsertHand(r)
  PROVE  HandsInv'
<1> DEFINE n == req[r].handNo
           hand == [handNo |-> n, status |-> "OPEN", locked |-> FALSE]
<1>1. req' = [req EXCEPT ![r] = Idle]
  BY DEF InsertHand, Goes
<1>2. \A o \in Requests : req'[o].op # "next hand" \/ req'[o] = req[o]
  BY <1>1 DEF HandsInv, Idle
<1>3. CASE n \in Numbers
  <2>1. hands' = hands /\ room' = room
    BY <1>3 DEF InsertHand
  <2> QED
    BY <1>1, <1>2, <2>1, OtherStep DEF HandsInv
<1>4. CASE n \notin Numbers
  <2>1. hands' = hands \cup {hand} /\ room' = [room EXCEPT !.currentHandNo = n]
    BY <1>4 DEF InsertHand
  <2>2. n \in PositiveNat /\ LockedBelow(hands, n)
    BY DEF HandsInv, NextOf, InsertHand
  <2>3. hand \in [handNo : PositiveNat, status : HandStatus, locked : BOOLEAN]
    BY <2>2 DEF HandStatus
  <2>4. hand.handNo = n /\ hand.status # "LOCKED"
    OBVIOUS
  <2> HIDE DEF hand
  <2>5. \A k : LockedBelow(hands, k) => LockedBelow(hands', k)
    BY <2>1 DEF LockedBelow, Locked
  <2>6. \A h \in hands' : LockedBelow(hands', h.handNo)
    BY <2>1, <2>2, <2>4, <2>5 DEF HandsInv
  <2>7. room' \in [status : RoomStatus, currentHandNo : Nat] /\ room'.currentHandNo \in Numbers'
    BY <2>1, <2>2, <2>4 DEF HandsInv, Numbers, PositiveNat
  <2>8. \A o \in Requests : NextOf(hands', req'[o])
    BY <1>2, <2>5 DEF HandsInv, NextOf
  <2> QED
    BY <1>1, <2>1, <2>3, <2>4, <2>6, <2>7, <2>8 DEF HandsInv
<1> QED
  BY <1>3, <1>4

----------------------------------------------------------------------------
(* All others *)

\* What a request that begins, or goes on, leaves of the others.
LEMMA RequestMoves ==
  ASSUME HandsInv, NEW r \in Requests, NEW q, q.op # "next hand",
         Begins(r, q) \/ Goes(r, q)
  PROVE  /\ DOMAIN req' = Requests
         /\ \A o \in Requests : req'[o].op # "next hand" \/ req'[o] = req[o]
BY DEF HandsInv, Begins, Goes

LEMMA AtOnceMoves ==
  ASSUME HandsInv, NEW r \in Requests, AtOnce(r)
  PROVE  /\ DOMAIN req' = Requests
         /\ \A o \in Requests : req'[o].op # "next hand" \/ req'[o] = req[o]
BY DEF HandsInv, AtOnce

\* Writes to the hands.
LEMMA HandWrites ==
  ASSUME HandsInv, NEW r \in Requests,
         \/ Reopen(r) \/ StartConfirming(r) \/ Lock(r)
         \/ \E u \in Users : DisputeHandEntry(r, u)
  PROVE  HandsInv'
<1>1. ASSUME NEW op, NEW s \in HandStatus, NEW q, q.op # "next hand",
             Writes(r, op, s, q)
      PROVE  HandsInv'
  BY <1>1, RequestMoves, RestatingStep DEF Writes
<1>2. CASE Reopen(r)
  <2>1. [op |-> "promote", handNo |-> req[r].handNo].op # "next hand" /\ "OPEN" \in HandStatus
    BY DEF HandStatus
  <2> QED
    BY <1>1, <1>2, <2>1, Zenon DEF Reopen
<1>3. CASE StartConfirming(r)
  <2>1. Idle.op # "next hand" /\ "CONFIRMING" \in HandStatus
    BY DEF HandStatus, Idle
  <2> QED
    BY <1>1, <1>3, <2>1, Zenon DEF StartConfirming
<1>4. CASE Lock(r)
  <2>1. Idle.op # "next hand" /\ "LOCKED" \in HandStatus
    BY DEF HandStatus, Idle
  <2> QED
    BY <1>1, <1>4, <2>1, Zenon DEF Lock
<1>5. ASSUME NEW u \in Users, DisputeHandEntry(r, u)
      PROVE  HandsInv'
  <2>1. PICK n : hands' = WithStatus(n, "DISPUTED") /\ room' = room /\ AtOnce(r)
    BY <1>5 DEF DisputeHandEntry
  <2> QED
    BY <2>1, AtOnceMoves, RestatingStep DEF HandStatus
<1> QED
  BY <1>2, <1>3, <1>4, <1>5

\* Writes to the room.
LEMMA RoomWrites ==
  ASSUME HandsInv, NEW r \in Requests,
         \/ StartRoom(r) \/ EndRoom(r) \/ CloseTeamLedgerRoom(r) \/ SweepIdleRooms(r)
  PROVE  HandsInv'
<1>1. AtOnce(r) /\ hands' = hands
  BY DEF StartRoom, EndRoom, CloseTeamLedgerRoom, SweepIdleRooms, Closes
<1>2. /\ room' \in [status : RoomStatus, currentHandNo : Nat]
      /\ room'.currentHandNo = 0 \/ room'.currentHandNo = room.currentHandNo
  BY DEF StartRoom, EndRoom, CloseTeamLedgerRoom, SweepIdleRooms, Closes, RoomStatus, HandsInv
<1> QED
  BY <1>1, <1>2, AtOnceMoves, OtherStep

\* Steps that read, or write elsewhere, and ask for something else than a next hand.
LEMMA ElsewhereSteps ==
  ASSUME HandsInv, NEW r \in Requests,
         \/ AddTempParticipant(r) \/ TakeSeat(r) \/ Upsert(r) \/ AutoPromote(r)
         \/ RequestConfirmHand(r) \/ MarkConfirmed(r) \/ PromoteLocked(r)
         \/ GenerateSettlement(r) \/ ClearSettlement(r) \/ Suggest(r) \/ SubmitEntryForTemp(r)
         \/ \E u \in Users : JoinRoom(r, u) \/ SubmitEntry(r, u) \/ ConfirmHandEntry(r, u)
  PROVE  HandsInv'
<1>1. /\ hands' = hands /\ room' = room
      /\ \/ AtOnce(r)
         \/ \E q : q.op # "next hand" /\ (Begins(r, q) \/ Goes(r, q))
  <2>1. CASE AddTempParticipant(r) \/ \E u \in Users : JoinRoom(r, u)
    BY <2>1 DEF AddTempParticipant, JoinRoom
  <2>2. CASE TakeSeat(r)
    BY <2>2 DEF TakeSeat, Idle
  <2>3. CASE Upsert(r)
    BY <2>3 DEF Upsert
  <2>4. CASE AutoPromote(r) \/ PromoteLocked(r)
    BY <2>4 DEF AutoPromote, PromoteLocked, Decides, Idle
  <2>5. CASE RequestConfirmHand(r)
    BY <2>5 DEF RequestConfirmHand
  <2>6. CASE MarkConfirmed(r)
    BY <2>6 DEF MarkConfirmed
  <2>7. CASE GenerateSettlement(r)
    BY <2>7 DEF GenerateSettlement
  <2>8. CASE ClearSettlement(r) \/ Suggest(r)
    <3>1. \A ds, cs : Suggesting(ds, cs).op # "next hand"
      BY DEF Suggesting, Idle
    <3> QED
      BY <2>8, <3>1 DEF ClearSettlement, Suggest
  <2>9. CASE SubmitEntryForTemp(r)
    BY <2>9 DEF SubmitEntryForTemp
  <2>10. ASSUME NEW u \in Users, SubmitEntry(r, u) \/ ConfirmHandEntry(r, u)
         PROVE  /\ hands' = hands /\ room' = room
                /\ \E q : q.op # "next hand" /\ Begins(r, q)
    BY <2>10 DEF SubmitEntry, ConfirmHandEntry
  <2> QED
    BY <2>1, <2>2, <2>3, <2>4, <2>5, <2>6, <2>7, <2>8, <2>9, <2>10
<1> QED
  BY <1>1, RequestMoves, AtOnceMoves, OtherStep DEF HandsInv

LEMMA RoomNextInv == HandsInv /\ RoomNext => HandsInv'
BY NextHandAsked, NextHandInserted, HandWrites, RoomWrites, ElsewhereSteps DEF RoomNext

----------------------------------------------------------------------------
LEMMA InitInv == Init => LedgersInv
<1> SUFFICES ASSUME Init
             PROVE  LedgersInv
  OBVIOUS
<1>1. HandsInv /\ hands = {}
  BY DEF Init, RoomInit, HandsInv, NextOf, Idle, RoomStatus
<1> QED
  BY <1>1 DEF Init, LedgersInv

LEMMA NextInv == LedgersInv /\ [Next]_ledgersVars => LedgersInv'
<1> SUFFICES ASSUME LedgersInv, [Next]_ledgersVars
             PROVE  LedgersInv'
  OBVIOUS
<1>1. CASE UNCHANGED ledgersVars
  BY <1>1 DEF ledgersVars, roomVars, LedgersInv, HandsInv, Numbers
<1>2. CASE KeepsARoom
  BY <1>2, RoomNextInv DEF KeepsARoom, LedgersInv
<1>3. CASE KeepsAGame \/ KeepsAName
  BY <1>3 DEF KeepsAGame, KeepsAName, roomVars, LedgersInv
<1> QED
  BY <1>1, <1>2, <1>3 DEF Next

\* However next hands, disputes, confirmations, late writes and new starts of a room overlap,
\* every hand but the first is numbered after one that was locked.
THEOREM HandsFollowLocks == Spec => []NextHandFollowsALock
<1>1. LedgersInv => NextHandFollowsALock
  <2> SUFFICES ASSUME LedgersInv, NEW h \in hands, h.handNo > 1
               PROVE  \E g \in hands : g.handNo = h.handNo - 1 /\ g.locked
    BY DEF NextHandFollowsALock
  <2>1. HandsInv
    BY DEF LedgersInv
  <2>2. h.handNo - 1 \in PositiveNat /\ h.handNo - 1 < h.handNo
    BY <2>1 DEF HandsInv, PositiveNat
  <2> QED
    BY <2>1, <2>2 DEF HandsInv, LockedBelow, Locked
<1> QED
  BY <1>1, InitInv, NextInv, PTL DEF Spec

----------------------------------------------------------------------------
(* Entries and their confirmations *)

\* In E the player of seat s has an entry for hand n, and each he has is in a status of S.
Stated(E, n, s, S) ==
  /\ \E e \in E : e.handNo = n /\ e.seat = s
  /\ \A e \in E : e.handNo = n /\ e.seat = s => e.status \in S

\* Every player with an account among P has.
AllStated(P, E, n, S) == \A p \in P : p.user # Temp => Stated(E, n, p.seat, S)

Sure == {"SUBMITTED", "CONFIRMED"}

\* The keys of the rows.
IsEntry(e) ==
  e = [handNo |-> e.handNo, seat |-> e.seat, amount |-> e.amount, status |-> e.status]
KeysHold(P, H, E) ==
  /\ \A p, o \in P : p.seat = o.seat => p = o
  /\ \A g, h \in H : g.handNo = h.handNo => g = h
  /\ \A e \in E : IsEntry(e)
  /\ \A e, f \in E : e.handNo = f.handNo /\ e.seat = f.seat => e = f

FreshHands(P, H, E) == \A h \in H :
  /\ h.status = "CONFIRMING" => AllStated(P, E, h.handNo, Sure)
  /\ h.status = "LOCKED" => AllStated(P, E, h.handNo, {"CONFIRMED"})

\* What a request that runs alone, or beside confirmations, still finds of what it has read.
Informed(q, s, P, H, E) ==
  /\ q.op = "seat" /\ q.user # Temp => H = {}
  /\ q.op = "next hand" => s # "WAITING"
  /\ q.op = "upsert" => \A h \in H : h.handNo = q.handNo => h.status # "LOCKED"
  /\ q.op = "confirming" => AllStated(P, E, q.handNo, Sure)
  /\ q.op = "lock" => AllStated(P, E, q.handNo, {"CONFIRMED"})

\* Requests run at once only when all of them confirm.
OnlyConfirmations(f) == \A r, o \in Requests :
  r # o /\ f[r] # Idle /\ f[o] # Idle => Confirming(f[r]) /\ Confirming(f[o])

RowsInv(s, P, H, E) ==
  KeysHold(P, H, E) /\ FreshHands(P, H, E) /\ (s = "WAITING" => H = {})

FreshInv == overlapped # "anything" =>
  /\ RowsInv(room.status, participants, hands, entries)
  /\ OnlyConfirmations(req)
  /\ \A r \in Requests : Informed(req[r], room.status, participants, hands, entries)

----------------------------------------------------------------------------
(* Who runs beside whom *)

LEMMA Began ==
  ASSUME DOMAIN req = Requests, NEW r \in Requests, NEW q, Begins(r, q),
         overlapped' # "anything", OnlyConfirmations(req)
  PROVE  /\ overlapped # "anything"
         /\ OnlyConfirmations(req')
         /\ req' = [req EXCEPT ![r] = q]
         /\ \A o \in Requests : o # r /\ req[o] # Idle => Confirming(req[o]) /\ Confirming(q)
<1>1. req[r] = Idle /\ req' = [req EXCEPT ![r] = q] /\ Overlap(r, q)
  BY DEF Begins, Free
<1>2. overlapped # "anything"
  BY <1>1 DEF Overlap
<1>3. \A o \in Requests : o # r /\ req[o] # Idle => Confirming(req[o]) /\ Confirming(q)
  BY <1>1 DEF Overlap, Busy
<1>4. OnlyConfirmations(req')
  BY <1>1, <1>3 DEF OnlyConfirmations
<1>5. QED BY <1>1, <1>2, <1>3, <1>4

LEMMA Went ==
  ASSUME DOMAIN req = Requests, NEW r \in Requests, NEW q, Goes(r, q),
         OnlyConfirmations(req), req[r] # Idle,
         Confirming(req[r]) => q = Idle \/ Confirming(q)
  PROVE  /\ overlapped' = overlapped
         /\ OnlyConfirmations(req')
         /\ req' = [req EXCEPT ![r] = q]
         /\ \A o \in Requests : o # r /\ req[o] # Idle => Confirming(req[o]) /\ Confirming(req[r])
<1>1. req' = [req EXCEPT ![r] = q] /\ overlapped' = overlapped
  BY DEF Goes
<1>2. \A o \in Requests : o # r /\ req[o] # Idle => Confirming(req[o]) /\ Confirming(req[r])
  BY DEF OnlyConfirmations
<1>3. OnlyConfirmations(req')
  BY <1>1, <1>2 DEF OnlyConfirmations
<1>4. QED BY <1>1, <1>2, <1>3

LEMMA DoneAtOnce ==
  ASSUME NEW r \in Requests, AtOnce(r), overlapped' # "anything"
  PROVE  /\ overlapped # "anything" /\ req' = req
         /\ \A o \in Requests : req[o] = Idle
<1>1. ~Confirming(Idle)
  BY DEF Confirming, Idle
<1>2. req[r] = Idle /\ req' = req /\ Overlap(r, Idle)
  BY DEF AtOnce, Free
<1>3. overlapped # "anything" /\ Busy \ {r} = {}
  BY <1>1, <1>2 DEF Overlap
<1>4. QED BY <1>2, <1>3 DEF Busy

LEMMA IdleInformed ==
  /\ \A s, P, H, E : Informed(Idle, s, P, H, E)
  /\ \A q, s, P, H, E : q.op \notin {"seat", "next hand", "upsert", "confirming", "lock"}
                          => Informed(q, s, P, H, E)
BY DEF Informed, Idle

\* What a request that confirms has read concerns the entries alone.
LEMMA ConfirmingInformed ==
  ASSUME NEW q, Confirming(q), NEW s, NEW P, NEW H, NEW E, Informed(q, s, P, H, E),
         NEW S, NEW G, NEW F,
         \A n : AllStated(P, E, n, {"CONFIRMED"}) => AllStated(P, F, n, {"CONFIRMED"})
  PROVE  Informed(q, S, P, G, F)
BY DEF Informed, Confirming

----------------------------------------------------------------------------
(* The kinds of steps *)

\* A request goes on, or begins, and nothing is written.
LEMMA ReadingStep ==
  ASSUME FreshInv, DOMAIN req = Requests, NEW r \in Requests, NEW q,
         \/ Begins(r, q)
         \/ Goes(r, q) /\ req[r] # Idle /\ (Confirming(req[r]) => q = Idle \/ Confirming(q)),
         UNCHANGED <<room, participants, hands, entries>>,
         overlapped # "anything" => Informed(q, room.status, participants, hands, entries)
  PROVE  FreshInv'
<1> SUFFICES ASSUME overlapped' # "anything"
             PROVE  /\ RowsInv(room.status, participants, hands, entries)'
                    /\ OnlyConfirmations(req)'
                    /\ \A o \in Requests :
                         Informed(req[o], room.status, participants, hands, entries)'
  BY DEF FreshInv
<1>1. overlapped # "anything"
  BY DEF Begins, Goes, Overlap
<1>2. /\ OnlyConfirmations(req)
      /\ RowsInv(room.status, participants, hands, entries)
      /\ \A o \in Requests : Informed(req[o], room.status, participants, hands, entries)
  BY <1>1 DEF FreshInv
<1>3. OnlyConfirmations(req') /\ req' = [req EXCEPT ![r] = q]
  BY <1>2, Began, Went
<1>4. \A o \in Requests : Informed(req'[o], room.status, participants, hands, entries)
  BY <1>1, <1>2, <1>3
<1>5. QED BY <1>2, <1>3, <1>4

\* A request writes and is the only one.
LEMMA AloneStep ==
  ASSUME FreshInv, DOMAIN req = Requests, NEW r \in Requests, NEW q, Goes(r, q),
         req[r] # Idle, ~Confirming(req[r]),
         overlapped # "anything" =>
           /\ Informed(q, room'.status, participants', hands', entries')
           /\ RowsInv(room'.status, participants', hands', entries')
  PROVE  FreshInv'
<1> SUFFICES ASSUME overlapped' # "anything"
             PROVE  /\ RowsInv(room.status, participants, hands, entries)'
                    /\ OnlyConfirmations(req)'
                    /\ \A o \in Requests :
                         Informed(req[o], room.status, participants, hands, entries)'
  BY DEF FreshInv
<1>1. overlapped # "anything" /\ OnlyConfirmations(req)
  BY DEF Goes, FreshInv
<1>2. /\ OnlyConfirmations(req') /\ req' = [req EXCEPT ![r] = q]
      /\ \A o \in Requests : o # r => req[o] = Idle
  BY <1>1, Went
<1>3. \A o \in Requests : Informed(req'[o], room'.status, participants', hands', entries')
  BY <1>1, <1>2, IdleInformed
<1>4. QED BY <1>1, <1>2, <1>3

\* A request of one step writes while nobody else runs.
LEMMA AtOnceStep ==
  ASSUME FreshInv, NEW r \in Requests, AtOnce(r),
         overlapped # "anything" => RowsInv(room'.status, participants', hands', entries')
  PROVE  FreshInv'
<1> SUFFICES ASSUME overlapped' # "anything"
             PROVE  /\ RowsInv(room.status, participants, hands, entries)'
                    /\ OnlyConfirmations(req)'
                    /\ \A o \in Requests :
                         Informed(req[o], room.status, participants, hands, entries)'
  BY DEF FreshInv
<1>1. /\ overlapped # "anything" /\ req' = req
      /\ \A o \in Requests : req[o] = Idle
  BY DoneAtOnce
<1>2. OnlyConfirmations(req')
  BY <1>1 DEF OnlyConfirmations
<1>3. \A o \in Requests : Informed(req'[o], room'.status, participants', hands', entries')
  BY <1>1, IdleInformed
<1>4. QED BY <1>1, <1>2, <1>3

\* A confirmation writes beside others.
LEMMA ConfirmingStep ==
  ASSUME FreshInv, DOMAIN req = Requests, NEW r \in Requests, NEW q, Goes(r, q),
         Confirming(req[r]), q = Idle \/ q.op = "locking",
         UNCHANGED <<room, participants>>,
         \A n : AllStated(participants, entries, n, {"CONFIRMED"})
                  => AllStated(participants, entries', n, {"CONFIRMED"}),
         overlapped # "anything" => RowsInv(room.status, participants, hands', entries')
  PROVE  FreshInv'
<1> SUFFICES ASSUME overlapped' # "anything"
             PROVE  /\ RowsInv(room.status, participants, hands, entries)'
                    /\ OnlyConfirmations(req)'
                    /\ \A o \in Requests :
                         Informed(req[o], room.status, participants, hands, entries)'
  BY DEF FreshInv
<1>1. /\ overlapped # "anything" /\ OnlyConfirmations(req)
      /\ \A o \in Requests : Informed(req[o], room.status, participants, hands, entries)
  BY DEF Goes, FreshInv
<1>2. req[r] # Idle /\ (q = Idle \/ Confirming(q))
  BY DEF Confirming, Idle
<1>3. /\ OnlyConfirmations(req') /\ req' = [req EXCEPT ![r] = q]
      /\ \A o \in Requests : o # r /\ req[o] # Idle => Confirming(req[o])
  BY <1>1, <1>2, Went
<1>4. \A o \in Requests : req[o] # Idle /\ o # r
           => Informed(req[o], room.status, participants, hands', entries')
  BY <1>1, <1>3, ConfirmingInformed
<1>5. Informed(q, room.status, participants, hands', entries')
  BY IdleInformed
<1>6. \A o \in Requests : Informed(req'[o], room.status, participants, hands', entries')
  BY <1>3, <1>4, <1>5, IdleInformed
<1>7. QED BY <1>1, <1>3, <1>6

----------------------------------------------------------------------------
(* What the writes leave of the rows *)

\* A hand's status, when it is what the entries call for.
LEMMA StatusRows ==
  ASSUME NEW P, NEW E, NEW s, HandsInv, RowsInv(s, P, hands, E), NEW n, NEW to \in HandStatus,
         to = "CONFIRMING" => AllStated(P, E, n, Sure),
         to = "LOCKED" => AllStated(P, E, n, {"CONFIRMED"})
  PROVE  RowsInv(s, P, WithStatus(n, to), E)
<1> DEFINE new(h) == IF h.handNo = n
                     THEN [h EXCEPT !.status = to, !.locked = h.locked \/ to = "LOCKED"]
                     ELSE h
<1>1. WithStatus(n, to) = {new(h) : h \in hands}
  BY DEF WithStatus
<1>2. ASSUME NEW h \in hands
      PROVE  /\ new(h).handNo = h.handNo
             /\ new(h).status = IF h.handNo = n THEN to ELSE h.status
  BY DEF HandsInv
<1> HIDE DEF new
<1>3. KeysHold(P, WithStatus(n, to), E)
  <2>1. \A g, h \in WithStatus(n, to) : g.handNo = h.handNo => g = h
    BY <1>1, <1>2 DEF RowsInv, KeysHold
  <2>2. QED BY <2>1 DEF RowsInv, KeysHold
<1>4. FreshHands(P, WithStatus(n, to), E)
  BY <1>1, <1>2 DEF RowsInv, FreshHands
<1>5. s = "WAITING" => WithStatus(n, to) = {}
  BY <1>1 DEF RowsInv
<1>6. QED BY <1>3, <1>4, <1>5 DEF RowsInv

\* An entry, of a hand that is not locked or of a seat without an account.
LEMMA SubmittedRows ==
  ASSUME NEW P, NEW H, NEW t, RowsInv(t, P, H, entries), NEW n, NEW s, NEW a,
         \/ \A h \in H : h.handNo = n => h.status # "LOCKED"
         \/ \A p \in P : p.seat = s => p.user = Temp
  PROVE  RowsInv(t, P, H, Submitted(n, s, a))
<1> DEFINE new == [handNo |-> n, seat |-> s, amount |-> a, status |-> "SUBMITTED"]
           F == Submitted(n, s, a)
<1>1. F = {e \in entries : e.handNo # n \/ e.seat # s} \cup {new}
  BY DEF Submitted
<1>2. /\ new.handNo = n /\ new.seat = s /\ new.status = "SUBMITTED" /\ IsEntry(new)
  BY DEF IsEntry
<1> HIDE DEF new, F
<1>3. KeysHold(P, H, F)
  <2>1. \A e \in F : IsEntry(e)
    BY <1>1, <1>2 DEF RowsInv, KeysHold
  <2>2. \A e, f \in F : e.handNo = f.handNo /\ e.seat = f.seat => e = f
    BY <1>1, <1>2 DEF RowsInv, KeysHold
  <2>3. QED BY <2>1, <2>2 DEF RowsInv, KeysHold
<1>4. ASSUME NEW m, NEW x, NEW S, Stated(entries, m, x, S),
             m # n \/ x # s \/ "SUBMITTED" \in S
      PROVE  Stated(F, m, x, S)
  <2>1. CASE m = n /\ x = s
    <3>1. \A e \in F : e.handNo = m /\ e.seat = x => e = new
      BY <1>1, <2>1
    <3>2. QED BY <1>1, <1>2, <1>4, <2>1, <3>1 DEF Stated
  <2>2. CASE m # n \/ x # s
    <3>1. \A e : e.handNo = m /\ e.seat = x => (e \in F <=> e \in entries)
      BY <1>1, <1>2, <2>2
    <3>2. QED BY <1>4, <3>1 DEF Stated
  <2>3. QED BY <2>1, <2>2
<1>5. ASSUME NEW h \in H
      PROVE  /\ h.status = "CONFIRMING" => AllStated(P, F, h.handNo, Sure)
             /\ h.status = "LOCKED" => AllStated(P, F, h.handNo, {"CONFIRMED"})
  <2>1. "SUBMITTED" \in Sure
    BY DEF Sure
  <2>2. h.status = "CONFIRMING" => AllStated(P, F, h.handNo, Sure)
    BY <1>4, <2>1 DEF AllStated, RowsInv, FreshHands
  <2>3. h.status = "LOCKED" => AllStated(P, F, h.handNo, {"CONFIRMED"})
    BY <1>4 DEF AllStated, RowsInv, FreshHands
  <2>4. QED BY <2>2, <2>3
<1>6. QED BY <1>3, <1>5 DEF RowsInv, FreshHands, F

\* Every entry keeps its key when its status is written.
LEMMA RestatedEntries ==
  ASSUME \A e \in entries : IsEntry(e), NEW n, NEW S, NEW to, NEW other
  PROVE  \E new : /\ Restated(n, S, to, other) = {new[e] : e \in entries}
                  /\ \A e \in entries :
                       /\ IsEntry(new[e])
                       /\ new[e].handNo = e.handNo /\ new[e].seat = e.seat
                       /\ new[e].status = IF e.handNo # n THEN e.status
                                          ELSE IF e.seat \in S THEN to
                                          ELSE IF other = "kept" THEN e.status ELSE other
<1> DEFINE to_(e) == [e EXCEPT !.status = to]
           other_(e) == [e EXCEPT !.status = other]
           new == [e \in entries |-> IF e.handNo # n THEN e
                                     ELSE IF e.seat \in S THEN to_(e)
                                     ELSE IF other = "kept" THEN e ELSE other_(e)]
<1>1. Restated(n, S, to, other) = {new[e] : e \in entries}
  BY DEF Restated
<1>2. ASSUME NEW e \in entries, NEW v
      PROVE  /\ IsEntry([e EXCEPT !.status = v])
             /\ [e EXCEPT !.status = v].handNo = e.handNo
             /\ [e EXCEPT !.status = v].seat = e.seat
             /\ [e EXCEPT !.status = v].status = v
  BY DEF IsEntry
<1>3. ASSUME NEW e \in entries
      PROVE  /\ IsEntry(to_(e)) /\ IsEntry(other_(e)) /\ IsEntry(e)
             /\ to_(e).handNo = e.handNo /\ to_(e).seat = e.seat /\ to_(e).status = to
             /\ other_(e).handNo = e.handNo /\ other_(e).seat = e.seat
             /\ other_(e).status = other
  BY <1>2
<1> HIDE DEF to_, other_
<1>4. \A e \in entries :
        /\ IsEntry(new[e])
        /\ new[e].handNo = e.handNo /\ new[e].seat = e.seat
        /\ new[e].status = IF e.handNo # n THEN e.status
                           ELSE IF e.seat \in S THEN to
                           ELSE IF other = "kept" THEN e.status ELSE other
  BY <1>3
<1> HIDE DEF new
<1>5. QED BY <1>1, <1>4

\* A confirmation: an entry once confirmed by its player stays so.
LEMMA ConfirmedRows ==
  ASSUME NEW P, NEW H, NEW t, RowsInv(t, P, H, entries), NEW n, NEW s,
         NEW F, F = Restated(n, {s}, "CONFIRMED", "kept")
  PROVE  /\ RowsInv(t, P, H, F)
         /\ \A m : AllStated(P, entries, m, {"CONFIRMED"}) => AllStated(P, F, m, {"CONFIRMED"})
<1>1. PICK new :
        /\ F = {new[e] : e \in entries}
        /\ \A e \in entries :
             /\ IsEntry(new[e])
             /\ new[e].handNo = e.handNo /\ new[e].seat = e.seat
             /\ new[e].status = "CONFIRMED" \/ new[e].status = e.status
  <2>1. \A e \in entries : IsEntry(e)
    BY DEF RowsInv, KeysHold
  <2>2. PICK new :
          /\ F = {new[e] : e \in entries}
          /\ \A e \in entries :
               /\ IsEntry(new[e])
               /\ new[e].handNo = e.handNo /\ new[e].seat = e.seat
               /\ new[e].status = IF e.handNo # n THEN e.status
                                  ELSE IF e.seat \in {s} THEN "CONFIRMED"
                                  ELSE IF "kept" = "kept" THEN e.status ELSE "kept"
    BY <2>1, RestatedEntries
  <2>3. QED BY <2>2
<1>2. KeysHold(P, H, F)
  <2>1. \A e \in F : IsEntry(e)
    BY <1>1
  <2>2. \A e, f \in F : e.handNo = f.handNo /\ e.seat = f.seat => e = f
    BY <1>1 DEF RowsInv, KeysHold
  <2>3. QED BY <2>1, <2>2 DEF RowsInv, KeysHold
<1>3. ASSUME NEW m, NEW x, NEW S, Stated(entries, m, x, S), "CONFIRMED" \in S
      PROVE  Stated(F, m, x, S)
  <2>1. \E f \in F : f.handNo = m /\ f.seat = x
    BY <1>1, <1>3 DEF Stated
  <2>2. ASSUME NEW f \in F, f.handNo = m, f.seat = x
        PROVE  f.status \in S
    <3>1. PICK e \in entries : f = new[e]
      BY <1>1
    <3>2. e.status \in S /\ (f.status = "CONFIRMED" \/ f.status = e.status)
      BY <1>1, <1>3, <2>2, <3>1 DEF Stated
    <3>3. QED BY <1>3, <3>2
  <2>3. QED BY <2>1, <2>2 DEF Stated
<1>4. ASSUME NEW m, NEW S, AllStated(P, entries, m, S), "CONFIRMED" \in S
      PROVE  AllStated(P, F, m, S)
  BY <1>3, <1>4 DEF AllStated
<1>5. "CONFIRMED" \in Sure
  BY DEF Sure
<1>6. FreshHands(P, H, F)
  BY <1>4, <1>5 DEF RowsInv, FreshHands
<1>7. QED BY <1>2, <1>4, <1>6 DEF RowsInv

\* A dispute: nothing is asked of the hand any more.
LEMMA DisputedRows ==
  ASSUME NEW P, NEW t, HandsInv, RowsInv(t, P, hands, entries), NEW n, NEW s,
         NEW F, F = Restated(n, {s}, "DISPUTED", "PENDING")
  PROVE  RowsInv(t, P, WithStatus(n, "DISPUTED"), F)
<1>1. PICK new :
        /\ F = {new[e] : e \in entries}
        /\ \A e \in entries :
             /\ IsEntry(new[e])
             /\ new[e].handNo = e.handNo /\ new[e].seat = e.seat
             /\ e.handNo # n => new[e].status = e.status
  <2>1. \A e \in entries : IsEntry(e)
    BY DEF RowsInv, KeysHold
  <2>2. PICK new :
          /\ F = {new[e] : e \in entries}
          /\ \A e \in entries :
               /\ IsEntry(new[e])
               /\ new[e].handNo = e.handNo /\ new[e].seat = e.seat
               /\ new[e].status = IF e.handNo # n THEN e.status
                                  ELSE IF e.seat \in {s} THEN "DISPUTED"
                                  ELSE IF "PENDING" = "kept" THEN e.status ELSE "PENDING"
    BY <2>1, RestatedEntries
  <2>3. QED BY <2>2
<1>2. RowsInv(t, P, WithStatus(n, "DISPUTED"), entries)
  BY StatusRows DEF HandStatus
<1>3. KeysHold(P, WithStatus(n, "DISPUTED"), F)
  <2>1. \A e \in F : IsEntry(e)
    BY <1>1
  <2>2. \A e, f \in F : e.handNo = f.handNo /\ e.seat = f.seat => e = f
    <3>1. \A e, f \in entries : e.handNo = f.handNo /\ e.seat = f.seat => e = f
      BY DEF RowsInv, KeysHold
    <3>2. QED BY <1>1, <3>1
  <2>3. QED BY <1>2, <2>1, <2>2 DEF RowsInv, KeysHold
<1>4. ASSUME NEW m, m # n, NEW S, AllStated(P, entries, m, S)
      PROVE  AllStated(P, F, m, S)
  <2>1. ASSUME NEW x, Stated(entries, m, x, S)
        PROVE  Stated(F, m, x, S)
    <3>1. \E f \in F : f.handNo = m /\ f.seat = x
      BY <1>1, <2>1 DEF Stated
    <3>2. ASSUME NEW f \in F, f.handNo = m, f.seat = x
          PROVE  f.status \in S
      <4>1. PICK e \in entries : f = new[e]
        BY <1>1
      <4>2. QED BY <1>1, <1>4, <2>1, <3>2, <4>1 DEF Stated
    <3>3. QED BY <3>1, <3>2 DEF Stated
  <2>2. QED BY <1>4, <2>1 DEF AllStated
<1>5. \A h \in WithStatus(n, "DISPUTED") : h.handNo = n => h.status = "DISPUTED"
  BY DEF WithStatus, HandsInv
<1>6. FreshHands(P, WithStatus(n, "DISPUTED"), F)
  BY <1>2, <1>4, <1>5 DEF RowsInv, FreshHands
<1>7. QED BY <1>2, <1>3, <1>6 DEF RowsInv

\* What everyone has submitted, or confirmed, the players with an account have.
LEMMA EveryoneStated ==
  ASSUME NEW t, RowsInv(t, participants, hands, entries), NEW n
  PROVE  /\ AllSubmitted(n) => AllStated(participants, entries, n, Sure)
         /\ AllConfirmed(n) => AllStated(participants, entries, n, {"CONFIRMED"})
<1>1. ASSUME NEW p \in participants, NEW S, NEW e \in entries, e.handNo = n, e.seat = p.seat,
             e.status \in S
      PROVE  Stated(entries, n, p.seat, S)
  BY <1>1 DEF RowsInv, KeysHold, Stated
<1>2. AllSubmitted(n) => AllStated(participants, entries, n, Sure)
  BY <1>1 DEF AllSubmitted, Counted, EntriesOf, AllStated, Sure
<1>3. AllConfirmed(n) => AllStated(participants, entries, n, {"CONFIRMED"})
  BY <1>1 DEF AllConfirmed, EntriesOf, AllStated
<1>4. QED BY <1>2, <1>3

----------------------------------------------------------------------------
(* The actions *)

LEMMA OpsOfRequests ==
  ASSUME NEW q
  PROVE  /\ q.op # "idle" => q # Idle
         /\ q.op \notin {"confirm", "locking", "lock"} => ~Confirming(q)
BY DEF Idle, Confirming

\* A request begins and has read what it says.
LEMMA BeginningSteps ==
  ASSUME FreshInv, HandsInv, NEW r \in Requests,
         \/ AddTempParticipant(r) \/ CreateNextHand(r) \/ RequestConfirmHand(r)
         \/ GenerateSettlement(r)
         \/ \E u \in Users : JoinRoom(r, u) \/ SubmitEntry(r, u) \/ ConfirmHandEntry(r, u)
  PROVE  FreshInv'
<1> DEFINE Told(q) == overlapped # "anything"
                        => Informed(q, room.status, participants, hands, entries)
<1>1. ASSUME NEW q, Begins(r, q), UNCHANGED <<room, participants, hands, entries>>, Told(q)
      PROVE  FreshInv'
  BY <1>1, ReadingStep DEF HandsInv
<1>2. overlapped # "anything" => RowsInv(room.status, participants, hands, entries)
  BY DEF FreshInv
<1>3. CASE AddTempParticipant(r)
  <2> DEFINE q == [op |-> "seat", user |-> Temp, seat |-> LastSeat + 1]
  <2>1. Told(q)
    BY DEF Informed
  <2>2. Begins(r, q) /\ UNCHANGED <<room, participants, hands, entries>>
    BY <1>3 DEF AddTempParticipant
  <2> HIDE DEF q, Told
  <2>3. QED BY <1>1, <2>1, <2>2
<1>4. CASE CreateNextHand(r)
  <2> DEFINE q == [op |-> "next hand", handNo |-> room.currentHandNo + 1]
  <2>1. Told(q)
    BY <1>4 DEF Informed, CreateNextHand
  <2>2. Begins(r, q) /\ UNCHANGED <<room, participants, hands, entries>>
    BY <1>4 DEF CreateNextHand
  <2> HIDE DEF q, Told
  <2>3. QED BY <1>1, <2>1, <2>2
<1>5. CASE RequestConfirmHand(r)
  <2>1. PICK h \in hands :
          /\ MayConfirm(h.handNo)
          /\ Begins(r, [op |-> "confirming", handNo |-> h.handNo])
          /\ UNCHANGED <<room, participants, hands, entries, settlements>>
    BY <1>5 DEF RequestConfirmHand
  <2> DEFINE q == [op |-> "confirming", handNo |-> h.handNo]
  <2>2. overlapped # "anything" => AllStated(participants, entries, h.handNo, Sure)
    BY <1>2, <2>1, EveryoneStated DEF MayConfirm
  <2>3. Told(q)
    BY <2>2 DEF Informed
  <2>4. Begins(r, q) /\ UNCHANGED <<room, participants, hands, entries>>
    BY <2>1
  <2> HIDE DEF q, Told
  <2>5. QED BY <1>1, <2>3, <2>4
<1>6. CASE GenerateSettlement(r)
  <2>1. \E ds, cs : Begins(r, [op |-> "clear", ds |-> ds, cs |-> cs])
    BY <1>6 DEF GenerateSettlement
  <2>2. PICK q : Begins(r, q) /\ q.op = "clear"
    BY <2>1
  <2>3. Told(q)
    BY <2>2, IdleInformed
  <2> HIDE DEF Told
  <2>4. QED BY <1>1, <1>6, <2>2, <2>3 DEF GenerateSettlement
<1>7. ASSUME NEW u \in Users, JoinRoom(r, u)
      PROVE  FreshInv'
  <2> DEFINE q == [op |-> "seat", user |-> u, seat |-> LastSeat + 1]
  <2>1. Told(q)
    BY <1>2, <1>7 DEF Informed, JoinRoom, RowsInv
  <2>2. Begins(r, q) /\ UNCHANGED <<room, participants, hands, entries>>
    BY <1>7 DEF JoinRoom
  <2> HIDE DEF q, Told
  <2>3. QED BY <1>1, <2>1, <2>2
<1>8. ASSUME NEW u \in Users, SubmitEntry(r, u)
      PROVE  FreshInv'
  <2>1. PICK h \in hands, p \in Seated(u) : \E a \in Amounts[p.seat] :
          /\ h.status # "LOCKED"
          /\ Begins(r, [op |-> "upsert", handNo |-> h.handNo, seat |-> p.seat, amount |-> a,
                        disputed |-> h.status = "DISPUTED"])
          /\ UNCHANGED <<room, participants, hands, entries, settlements>>
    BY <1>8 DEF SubmitEntry
  <2>2. PICK q : Begins(r, q) /\ q.op = "upsert" /\ q.handNo = h.handNo
    BY <2>1
  <2>3. overlapped # "anything" => \A g \in hands : g.handNo = h.handNo => g = h
    BY <1>2 DEF RowsInv, KeysHold
  <2>4. Told(q)
    BY <2>1, <2>2, <2>3 DEF Informed
  <2> HIDE DEF Told
  <2>5. QED BY <1>1, <2>1, <2>2, <2>4
<1>9. ASSUME NEW u \in Users, ConfirmHandEntry(r, u)
      PROVE  FreshInv'
  <2>1. PICK q : Begins(r, q) /\ q.op = "confirm"
    BY <1>9 DEF ConfirmHandEntry
  <2>2. UNCHANGED <<room, participants, hands, entries>>
    BY <1>9 DEF ConfirmHandEntry
  <2>3. Told(q)
    BY <2>1, IdleInformed
  <2> HIDE DEF Told
  <2>4. QED BY <1>1, <2>1, <2>2, <2>3
<1>10. CASE \E u \in Users : JoinRoom(r, u) \/ SubmitEntry(r, u) \/ ConfirmHandEntry(r, u)
  BY <1>7, <1>8, <1>9, <1>10, Zenon
<1>11. QED BY <1>3, <1>4, <1>5, <1>6, <1>10

\* A request reads what it decides on, or writes the suggestions.
LEMMA DecidingSteps ==
  ASSUME FreshInv, HandsInv, NEW r \in Requests,
         AutoPromote(r) \/ PromoteLocked(r) \/ ClearSettlement(r) \/ Suggest(r)
  PROVE  FreshInv'
<1> DEFINE Told(q) == overlapped # "anything"
                        => Informed(q, room.status, participants, hands, entries)
<1>1. ASSUME NEW q, Goes(r, q), UNCHANGED <<room, participants, hands, entries>>, Told(q),
             req[r] # Idle, Confirming(req[r]) => q = Idle \/ Confirming(q)
      PROVE  FreshInv'
  BY <1>1, ReadingStep DEF HandsInv
<1>2. overlapped # "anything" => RowsInv(room.status, participants, hands, entries)
  BY DEF FreshInv
<1>3. Told(Idle)
  BY IdleInformed
<1> DEFINE n == req[r].handNo
<1>4. CASE AutoPromote(r)
  <2> DEFINE q == [op |-> "confirming", handNo |-> n]
  <2>1. /\ Goes(r, Idle) \/ (Goes(r, q) /\ MayConfirm(n))
        /\ UNCHANGED <<room, participants, hands, entries>>
        /\ req[r].op = "promote"
    BY <1>4 DEF AutoPromote, Decides
  <2>2. MayConfirm(n) => Told(q)
    BY <1>2, EveryoneStated DEF Informed, MayConfirm
  <2> HIDE DEF q, Told, n
  <2>3. req[r] # Idle /\ ~Confirming(req[r])
    BY <2>1, OpsOfRequests
  <2>4. QED BY <1>1, <1>3, <2>1, <2>2, <2>3
<1>5. CASE PromoteLocked(r)
  <2> DEFINE q == [op |-> "lock", handNo |-> n]
  <2>1. /\ Goes(r, Idle) \/ (Goes(r, q) /\ AllConfirmed(n))
        /\ UNCHANGED <<room, participants, hands, entries>>
        /\ req[r].op = "locking"
    BY <1>5 DEF PromoteLocked, Decides
  <2>2. AllConfirmed(n) => Told(q)
    BY <1>2, EveryoneStated DEF Informed
  <2>3. Confirming(q)
    BY DEF Confirming
  <2> HIDE DEF q, Told, n
  <2>4. req[r] # Idle
    BY <2>1, OpsOfRequests
  <2>5. QED BY <1>1, <1>3, <2>1, <2>2, <2>3, <2>4
<1>6. CASE ClearSettlement(r) \/ Suggest(r)
  <2>1. PICK ds, cs : Goes(r, Suggesting(ds, cs))
    BY <1>6, Zenon DEF ClearSettlement, Suggest
  <2>2. UNCHANGED <<room, participants, hands, entries>> /\ req[r].op \in {"clear", "suggest"}
    BY <1>6 DEF ClearSettlement, Suggest
  <2>3. Told(Suggesting(ds, cs))
    BY IdleInformed DEF Suggesting
  <2> HIDE DEF Told
  <2>4. req[r] # Idle /\ ~Confirming(req[r])
    BY <2>2, OpsOfRequests
  <2>5. QED BY <1>1, <2>1, <2>2, <2>3, <2>4
<1>7. QED BY <1>4, <1>5, <1>6

\* A seat is taken, a hand inserted, an entry written, or a hand reopened.
LEMMA WritingSteps ==
  ASSUME FreshInv, HandsInv, NEW r \in Requests,
         TakeSeat(r) \/ InsertHand(r) \/ Upsert(r) \/ Reopen(r) \/ StartConfirming(r)
  PROVE  FreshInv'
<1> DEFINE Told(q) == Informed(q, room'.status, participants', hands', entries')
           Kept == RowsInv(room'.status, participants', hands', entries')
<1>1. ASSUME NEW q, Goes(r, q),
             req[r].op \in {"seat", "next hand", "upsert", "reopen", "confirming"},
             q.op \in {"idle", "reopen", "promote"}, overlapped # "anything" => Kept
      PROVE  FreshInv'
  <2>1. req[r] # Idle /\ ~Confirming(req[r])
    BY <1>1, OpsOfRequests
  <2>2. Told(q)
    BY <1>1, IdleInformed
  <2>3. QED BY <1>1, <2>1, <2>2, AloneStep DEF HandsInv
<1>2. overlapped # "anything" =>
        /\ RowsInv(room.status, participants, hands, entries)
        /\ Informed(req[r], room.status, participants, hands, entries)
  BY DEF FreshInv
<1> HIDE DEF Told
<1>3. Idle.op = "idle"
  BY DEF Idle
<1>4. CASE TakeSeat(r)
  <2> DEFINE p == [seat |-> req[r].seat, user |-> req[r].user]
  <2>1. /\ req[r].op = "seat" /\ Goes(r, Idle) /\ UNCHANGED <<room, hands, entries>>
        /\ \/ participants' = participants
           \/ req[r].seat \notin SeatsTaken /\ participants' = participants \cup {p}
    BY <1>4 DEF TakeSeat
  <2>2. ASSUME overlapped # "anything", req[r].seat \notin SeatsTaken,
               participants' = participants \cup {p}
        PROVE  Kept
    <3>1. /\ RowsInv(room.status, participants, hands, entries)
          /\ p.user # Temp => hands = {}
      BY <1>2, <2>1, <2>2 DEF Informed
    <3>2. \A o \in participants : o.seat # p.seat
      BY <2>2 DEF SeatsTaken
    <3> HIDE DEF p
    <3>3. KeysHold(participants', hands, entries)
      BY <2>2, <3>1, <3>2 DEF RowsInv, KeysHold
    <3>4. FreshHands(participants', hands, entries)
      BY <2>2, <3>1 DEF RowsInv, FreshHands, AllStated
    <3>5. QED BY <2>1, <3>1, <3>3, <3>4 DEF RowsInv
  <2>3. overlapped # "anything" => Kept
    BY <1>2, <2>1, <2>2
  <2> HIDE DEF Kept
  <2>4. QED BY <1>1, <1>3, <2>1, <2>3
<1>5. CASE InsertHand(r)
  <2> DEFINE n == req[r].handNo
             hand == [handNo |-> n, status |-> "OPEN", locked |-> FALSE]
  <2>1. /\ req[r].op = "next hand" /\ Goes(r, Idle) /\ UNCHANGED <<participants, entries>>
        /\ \/ hands' = hands /\ room' = room
           \/ n \notin Numbers /\ hands' = hands \cup {hand} /\ room'.status = room.status
    BY <1>5 DEF InsertHand, HandsInv
  <2>2. ASSUME overlapped # "anything", n \notin Numbers, hands' = hands \cup {hand},
               room'.status = room.status
        PROVE  Kept
    <3>1. /\ RowsInv(room.status, participants, hands, entries)
          /\ room.status # "WAITING"
      BY <1>2, <2>1, <2>2 DEF Informed
    <3>2. /\ \A h \in hands : h.handNo # hand.handNo
          /\ hand.status \notin {"CONFIRMING", "LOCKED"}
      BY <2>2 DEF Numbers
    <3> HIDE DEF hand
    <3>3. KeysHold(participants, hands', entries)
      BY <2>2, <3>1, <3>2 DEF RowsInv, KeysHold
    <3>4. FreshHands(participants, hands', entries)
      BY <2>2, <3>1, <3>2 DEF RowsInv, FreshHands
    <3>5. QED BY <2>1, <2>2, <3>1, <3>3, <3>4 DEF RowsInv
  <2>3. overlapped # "anything" => Kept
    BY <1>2, <2>1, <2>2
  <2> HIDE DEF Kept
  <2>4. QED BY <1>1, <1>3, <2>1, <2>3
<1>6. CASE Upsert(r)
  <2>1. /\ req[r].op = "upsert" /\ UNCHANGED <<room, participants, hands>>
        /\ entries' = Submitted(req[r].handNo, req[r].seat, req[r].amount)
    BY <1>6 DEF Upsert
  <2>2. PICK q : Goes(r, q) /\ q.op \in {"reopen", "promote"}
    BY <1>6 DEF Upsert
  <2>3. overlapped # "anything" => \A h \in hands : h.handNo = req[r].handNo => h.status # "LOCKED"
    BY <1>2, <2>1 DEF Informed
  <2>4. overlapped # "anything" => Kept
    BY <1>2, <2>1, <2>3, SubmittedRows
  <2> HIDE DEF Kept
  <2>5. QED BY <1>1, <2>1, <2>2, <2>4
<1>7. CASE Reopen(r)
  <2>1. /\ req[r].op = "reopen" /\ UNCHANGED <<room, participants, entries>>
        /\ hands' = WithStatus(req[r].handNo, "OPEN")
    BY <1>7 DEF Reopen, Writes
  <2>2. PICK q : Goes(r, q) /\ q.op = "promote"
    BY <1>7 DEF Reopen, Writes
  <2>3. overlapped # "anything" => Kept
    BY <1>2, <2>1, StatusRows DEF HandStatus
  <2> HIDE DEF Kept
  <2>4. QED BY <1>1, <2>1, <2>2, <2>3
<1>8. CASE StartConfirming(r)
  <2>1. /\ req[r].op = "confirming" /\ UNCHANGED <<room, participants, entries>>
        /\ hands' = WithStatus(req[r].handNo, "CONFIRMING") /\ Goes(r, Idle)
    BY <1>8 DEF StartConfirming, Writes
  <2>2. overlapped # "anything" => AllStated(participants, entries, req[r].handNo, Sure)
    BY <1>2, <2>1 DEF Informed
  <2>3. overlapped # "anything" => Kept
    BY <1>2, <2>1, <2>2, StatusRows DEF HandStatus
  <2> HIDE DEF Kept
  <2>4. QED BY <1>1, <1>3, <2>1, <2>3
<1>9. QED BY <1>4, <1>5, <1>6, <1>7, <1>8

\* Requests of one step.
LEMMA AtOnceSteps ==
  ASSUME FreshInv, HandsInv, NEW r \in Requests,
         \/ StartRoom(r) \/ EndRoom(r) \/ CloseTeamLedgerRoom(r) \/ SweepIdleRooms(r)
         \/ SubmitEntryForTemp(r) \/ \E u \in Users : DisputeHandEntry(r, u)
  PROVE  FreshInv'
<1> DEFINE Kept == RowsInv(room'.status, participants', hands', entries')
<1>1. (overlapped # "anything" => Kept) /\ AtOnce(r) => FreshInv'
  BY AtOnceStep
<1>2. overlapped # "anything" => RowsInv(room.status, participants, hands, entries)
  BY DEF FreshInv
<1>3. CASE StartRoom(r) \/ EndRoom(r) \/ CloseTeamLedgerRoom(r) \/ SweepIdleRooms(r)
  <2>1. /\ AtOnce(r) /\ UNCHANGED <<participants, hands, entries>> /\ room'.status # "WAITING"
    BY <1>3 DEF StartRoom, EndRoom, CloseTeamLedgerRoom, SweepIdleRooms, Closes, HandsInv
  <2>2. overlapped # "anything" => Kept
    BY <1>2, <2>1 DEF RowsInv
  <2>3. QED BY <1>1, <2>1, <2>2
<1>4. CASE SubmitEntryForTemp(r)
  <2>1. PICK h \in hands, p \in Seated(Temp) : \E a \in Amounts[p.seat] :
          /\ AtOnce(r)
          /\ entries' = Submitted(h.handNo, p.seat, a)
          /\ UNCHANGED <<room, participants, hands, settlements>>
    BY <1>4 DEF SubmitEntryForTemp
  <2>2. PICK a : entries' = Submitted(h.handNo, p.seat, a)
    BY <2>1
  <2>3. overlapped # "anything" => \A o \in participants : o.seat = p.seat => o.user = Temp
    BY <1>2 DEF Seated, RowsInv, KeysHold
  <2>4. overlapped # "anything" => Kept
    BY <1>2, <2>1, <2>2, <2>3, SubmittedRows
  <2>5. QED BY <1>1, <2>1, <2>4
<1>5. ASSUME NEW u \in Users, DisputeHandEntry(r, u)
      PROVE  FreshInv'
  <2>1. PICK h \in hands, p \in Seated(u) :
          /\ AtOnce(r)
          /\ entries' = Restated(h.handNo, {p.seat}, "DISPUTED", "PENDING")
          /\ hands' = WithStatus(h.handNo, "DISPUTED")
          /\ UNCHANGED <<room, participants, settlements>>
    BY <1>5 DEF DisputeHandEntry
  <2>2. overlapped # "anything" => Kept
    BY <1>2, <2>1, DisputedRows
  <2>3. QED BY <1>1, <2>1, <2>2
<1>6. QED BY <1>3, <1>4, <1>5

\* Confirmations, which may overlap.
LEMMA ConfirmingSteps ==
  ASSUME FreshInv, HandsInv, NEW r \in Requests, MarkConfirmed(r) \/ Lock(r)
  PROVE  FreshInv'
<1>1. overlapped # "anything" =>
        /\ RowsInv(room.status, participants, hands, entries)
        /\ Informed(req[r], room.status, participants, hands, entries)
  BY DEF FreshInv
<1>2. CASE Lock(r)
  <2>1. /\ req[r].op = "lock" /\ UNCHANGED <<room, participants, entries>>
        /\ hands' = WithStatus(req[r].handNo, "LOCKED") /\ Goes(r, Idle)
    BY <1>2 DEF Lock, Writes
  <2>2. overlapped # "anything" => AllStated(participants, entries, req[r].handNo, {"CONFIRMED"})
    BY <1>1, <2>1 DEF Informed
  <2>3. overlapped # "anything" => RowsInv(room.status, participants, hands', entries')
    BY <1>1, <2>1, <2>2, StatusRows DEF HandStatus
  <2>4. Confirming(req[r])
    BY <2>1 DEF Confirming
  <2>5. \A n : AllStated(participants, entries, n, {"CONFIRMED"})
                 => AllStated(participants, entries', n, {"CONFIRMED"})
    BY <2>1
  <2>6. QED BY <2>1, <2>3, <2>4, <2>5, ConfirmingStep DEF HandsInv
<1>3. CASE MarkConfirmed(r)
  <2>1. /\ req[r].op = "confirm" /\ UNCHANGED <<room, participants, hands>>
        /\ entries' = Restated(req[r].handNo, {req[r].seat}, "CONFIRMED", "kept")
    BY <1>3 DEF MarkConfirmed
  <2>2. PICK q : Goes(r, q) /\ q.op = "locking"
    BY <1>3 DEF MarkConfirmed
  <2>3. Confirming(req[r])
    BY <2>1 DEF Confirming
  <2>4. CASE overlapped # "anything"
    <3>1. /\ RowsInv(room.status, participants, hands, entries')
          /\ \A n : AllStated(participants, entries, n, {"CONFIRMED"})
                      => AllStated(participants, entries', n, {"CONFIRMED"})
      BY <1>1, <2>1, <2>4, ConfirmedRows
    <3>2. QED BY <2>1, <2>2, <2>3, <3>1, ConfirmingStep DEF HandsInv
  <2>5. CASE overlapped = "anything"
    BY <2>2, <2>5 DEF Goes, FreshInv
  <2>6. QED BY <2>4, <2>5
<1>4. QED BY <1>2, <1>3

LEMMA RoomNextFresh == FreshInv /\ HandsInv /\ RoomNext => FreshInv'
<1> SUFFICES ASSUME FreshInv, HandsInv, RoomNext
             PROVE  FreshInv'
  OBVIOUS
<1>1. PICK r \in Requests :
        \/ \/ AddTempParticipant(r) \/ CreateNextHand(r) \/ RequestConfirmHand(r)
           \/ GenerateSettlement(r)
           \/ \E u \in Users : JoinRoom(r, u) \/ SubmitEntry(r, u) \/ ConfirmHandEntry(r, u)
        \/ AutoPromote(r) \/ PromoteLocked(r) \/ ClearSettlement(r) \/ Suggest(r)
        \/ TakeSeat(r) \/ InsertHand(r) \/ Upsert(r) \/ Reopen(r) \/ StartConfirming(r)
        \/ \/ StartRoom(r) \/ EndRoom(r) \/ CloseTeamLedgerRoom(r) \/ SweepIdleRooms(r)
           \/ SubmitEntryForTemp(r) \/ \E u \in Users : DisputeHandEntry(r, u)
        \/ MarkConfirmed(r) \/ Lock(r)
  BY DEF RoomNext
<1>2. CASE \/ AddTempParticipant(r) \/ CreateNextHand(r) \/ RequestConfirmHand(r)
           \/ GenerateSettlement(r)
           \/ \E u \in Users : JoinRoom(r, u) \/ SubmitEntry(r, u) \/ ConfirmHandEntry(r, u)
  BY <1>2, BeginningSteps
<1>3. CASE AutoPromote(r) \/ PromoteLocked(r) \/ ClearSettlement(r) \/ Suggest(r)
  BY <1>3, DecidingSteps
<1>4. CASE TakeSeat(r) \/ InsertHand(r) \/ Upsert(r) \/ Reopen(r) \/ StartConfirming(r)
  BY <1>4, WritingSteps
<1>5. CASE \/ StartRoom(r) \/ EndRoom(r) \/ CloseTeamLedgerRoom(r) \/ SweepIdleRooms(r)
           \/ SubmitEntryForTemp(r) \/ \E u \in Users : DisputeHandEntry(r, u)
  BY <1>5, AtOnceSteps
<1>6. CASE MarkConfirmed(r) \/ Lock(r)
  BY <1>6, ConfirmingSteps
<1>7. QED BY <1>1, <1>2, <1>3, <1>4, <1>5, <1>6

\* While nothing but confirmations overlaps, every player's entry in a hand being confirmed was
\* entered after the last dispute, and in a locked hand every player confirmed his.
THEOREM ConfirmationsStayFresh == Spec => []ConfirmationsAreFresh
<1> DEFINE Fresh == part = "room" => FreshInv
<1>1. Init => Fresh
  <2> SUFFICES ASSUME Init PROVE Fresh
    OBVIOUS
  <2>1. /\ RowsInv(room.status, participants, hands, entries)
        /\ OnlyConfirmations(req)
    BY DEF Init, RoomInit, RowsInv, KeysHold, FreshHands, OnlyConfirmations
  <2>2. \A r \in Requests : req[r] = Idle
    BY DEF Init, RoomInit
  <2>3. FreshInv
    BY <2>1, <2>2, IdleInformed DEF FreshInv
  <2>4. QED BY <2>3
<1>2. Fresh /\ LedgersInv /\ [Next]_ledgersVars => Fresh'
  <2> SUFFICES ASSUME Fresh, LedgersInv, [Next]_ledgersVars
               PROVE  Fresh'
    OBVIOUS
  <2>1. CASE KeepsARoom
    <3>1. HandsInv
      BY <2>1 DEF KeepsARoom, LedgersInv
    <3>2. FreshInv'
      BY <2>1, <3>1, RoomNextFresh DEF KeepsARoom
    <3>3. QED BY <3>2
  <2>2. CASE UNCHANGED ledgersVars
    BY <2>2 DEF ledgersVars, roomVars, FreshInv
  <2>3. CASE KeepsAGame \/ KeepsAName
    BY <2>3 DEF KeepsAGame, KeepsAName
  <2>4. QED BY <2>1, <2>2, <2>3 DEF Next
<1>3. Fresh /\ LedgersInv => ConfirmationsAreFresh
  <2> SUFFICES ASSUME Fresh, LedgersInv, overlapped # "anything",
                      NEW h \in hands, NEW p \in Registered
               PROVE  LET own == {e.status : e \in {x \in EntriesOf(h.handNo) : x.seat = p.seat}}
                      IN /\ h.status = "CONFIRMING"
                              => own # {} /\ own \subseteq {"SUBMITTED", "CONFIRMED"}
                         /\ h.status = "LOCKED" => own = {"CONFIRMED"}
    BY DEF ConfirmationsAreFresh
  <2> DEFINE own == {e.status : e \in {x \in EntriesOf(h.handNo) : x.seat = p.seat}}
  <2>1. ASSUME NEW S, AllStated(participants, entries, h.handNo, S)
        PROVE  own # {} /\ own \subseteq S
    <3>1. Stated(entries, h.handNo, p.seat, S)
      BY <2>1 DEF AllStated, Registered
    <3>2. QED BY <3>1 DEF Stated, EntriesOf
  <2> HIDE DEF own
  <2>2. FreshInv
    BY DEF LedgersInv
  <2>3. /\ h.status = "CONFIRMING" => AllStated(participants, entries, h.handNo, Sure)
        /\ h.status = "LOCKED" => AllStated(participants, entries, h.handNo, {"CONFIRMED"})
    BY <2>2 DEF FreshInv, RowsInv, FreshHands
  <2>4. /\ h.status = "CONFIRMING" => own # {} /\ own \subseteq Sure
        /\ h.status = "LOCKED" => own # {} /\ own \subseteq {"CONFIRMED"}
    BY <2>1, <2>3
  <2>5. (own # {} /\ own \subseteq {"CONFIRMED"}) => own = {"CONFIRMED"}
    OBVIOUS
  <2>6. QED BY <2>4, <2>5 DEF Sure, own
<1>4. QED BY <1>1, <1>2, <1>3, InitInv, NextInv, PTL DEF Spec

----------------------------------------------------------------------------
(* The last confirmation *)

\* A step that leaves nobody at work was the last step of whoever was at work before.
LEMMA LastStep ==
  ASSUME HandsInv, RoomNext, Quiet', NEW r \in Requests, Confirming(req[r])
  PROVE  Goes(r, Idle) /\ (PromoteLocked(r) \/ Lock(r))
<1>1. req'[r] = Idle /\ req[r] # Idle /\ ~Confirming(Idle)
  BY DEF Quiet, Busy, Confirming, Idle
<1>2. ASSUME NEW o \in Requests, NEW q, Begins(o, q), q # Idle
      PROVE  FALSE
  BY <1>2 DEF HandsInv, Begins, Quiet, Busy
<1>3. ASSUME NEW o \in Requests, AtOnce(o)
      PROVE  FALSE
  BY <1>1, <1>3 DEF AtOnce
<1>4. ASSUME NEW o \in Requests, NEW q, Goes(o, q)
      PROVE  o = r /\ q = Idle
  BY <1>1, <1>4 DEF HandsInv, Goes, Quiet, Busy
<1>5. PICK o \in Requests :
        \/ \/ AddTempParticipant(o) \/ CreateNextHand(o) \/ RequestConfirmHand(o)
           \/ GenerateSettlement(o)
           \/ \E u \in Users : JoinRoom(o, u) \/ SubmitEntry(o, u) \/ ConfirmHandEntry(o, u)
        \/ AutoPromote(o) \/ PromoteLocked(o) \/ ClearSettlement(o) \/ Suggest(o)
        \/ TakeSeat(o) \/ InsertHand(o) \/ Upsert(o) \/ Reopen(o) \/ StartConfirming(o)
        \/ \/ StartRoom(o) \/ EndRoom(o) \/ CloseTeamLedgerRoom(o) \/ SweepIdleRooms(o)
           \/ SubmitEntryForTemp(o) \/ \E u \in Users : DisputeHandEntry(o, u)
        \/ MarkConfirmed(o) \/ Lock(o)
  BY DEF RoomNext
<1>6. ~(\/ AddTempParticipant(o) \/ CreateNextHand(o) \/ RequestConfirmHand(o)
        \/ GenerateSettlement(o)
        \/ \E u \in Users : JoinRoom(o, u) \/ SubmitEntry(o, u) \/ ConfirmHandEntry(o, u))
  <2>1. ASSUME \/ AddTempParticipant(o) \/ CreateNextHand(o) \/ RequestConfirmHand(o)
               \/ GenerateSettlement(o)
               \/ \E u \in Users : JoinRoom(o, u) \/ SubmitEntry(o, u) \/ ConfirmHandEntry(o, u)
        PROVE  \E q : Begins(o, q) /\ q.op # "idle"
    <3>0. CASE AddTempParticipant(o)
      BY <3>0 DEF AddTempParticipant
    <3>1. CASE CreateNextHand(o)
      <4> DEFINE q == [op |-> "next hand", handNo |-> room.currentHandNo + 1]
      <4>1. Begins(o, q) /\ q.op # "idle"
        BY <3>1 DEF CreateNextHand
      <4> HIDE DEF q
      <4> QED
        BY <4>1
    <3>2. CASE RequestConfirmHand(o)
      BY <3>2 DEF RequestConfirmHand
    <3>3. CASE GenerateSettlement(o)
      BY <3>3 DEF GenerateSettlement
    <3>4. ASSUME NEW u \in Users, JoinRoom(o, u)
          PROVE  \E q : Begins(o, q) /\ q.op # "idle"
      BY <3>4 DEF JoinRoom
    <3>5. ASSUME NEW u \in Users, SubmitEntry(o, u)
          PROVE  \E q : Begins(o, q) /\ q.op # "idle"
      BY <3>5 DEF SubmitEntry
    <3>6. ASSUME NEW u \in Users, ConfirmHandEntry(o, u)
          PROVE  \E q : Begins(o, q) /\ q.op # "idle"
      BY <3>6 DEF ConfirmHandEntry
    <3> QED
      BY <2>1, <3>0, <3>1, <3>2, <3>3, <3>4, <3>5, <3>6
  <2> QED
    BY <1>2, <2>1 DEF Idle
<1>7. ~(\/ StartRoom(o) \/ EndRoom(o) \/ CloseTeamLedgerRoom(o) \/ SweepIdleRooms(o)
        \/ SubmitEntryForTemp(o) \/ \E u \in Users : DisputeHandEntry(o, u))
  BY <1>3 DEF StartRoom, EndRoom, CloseTeamLedgerRoom, SweepIdleRooms, Closes,
              SubmitEntryForTemp, DisputeHandEntry
<1>8. ~(AutoPromote(o) \/ ClearSettlement(o) \/ Suggest(o) \/ TakeSeat(o) \/ InsertHand(o)
        \/ Upsert(o) \/ Reopen(o) \/ StartConfirming(o) \/ MarkConfirmed(o))
  <2>1. ASSUME \/ AutoPromote(o) \/ ClearSettlement(o) \/ Suggest(o) \/ TakeSeat(o)
               \/ InsertHand(o) \/ Upsert(o) \/ Reopen(o) \/ StartConfirming(o)
        PROVE  (\E q : Goes(o, q)) /\ ~Confirming(req[o])
    BY <2>1 DEF AutoPromote, Decides, ClearSettlement, Suggest, TakeSeat, InsertHand, Upsert,
                Reopen, StartConfirming, Writes, Confirming
  <2>2. ASSUME MarkConfirmed(o)
        PROVE  \E q : Goes(o, q) /\ q # Idle
    BY <2>2 DEF MarkConfirmed, Idle
  <2> QED
    BY <1>4, <2>1, <2>2
<1>9. PromoteLocked(o) \/ Lock(o)
  BY <1>5, <1>6, <1>7, <1>8
<1>10. \E q : Goes(o, q)
  BY <1>9 DEF PromoteLocked, Decides, Lock, Writes
<1> QED
  BY <1>4, <1>9, <1>10

\* Whoever has written his confirmation looks at everybody's before he is done.
LEMMA LastLocks ==
  ASSUME HandsInv, RoomNext, Quiet', NEW r \in Requests, Confirming(req[r]),
         NEW h \in hands', h.handNo = req[r].handNo, AllConfirmed(h.handNo)'
  PROVE  h.status = "LOCKED"
<1>1. Goes(r, Idle) /\ (PromoteLocked(r) \/ Lock(r))
  BY LastStep
<1>2. CASE PromoteLocked(r)
  <2> DEFINE q == [op |-> "lock", handNo |-> req[r].handNo]
  <2>1. Goes(r, IF AllConfirmed(req[r].handNo) THEN q ELSE Idle)
    BY <1>2 DEF PromoteLocked, Decides
  <2>2. q # Idle
    BY DEF Idle
  <2> HIDE DEF q
  <2>3. ~AllConfirmed(req[r].handNo)
    BY <1>1, <2>1, <2>2 DEF Goes, HandsInv
  <2>4. entries' = entries /\ participants' = participants
    BY <1>2 DEF PromoteLocked, Decides
  <2>5. AllConfirmed(h.handNo)' <=> AllConfirmed(h.handNo)
    BY <2>4 DEF AllConfirmed, EntriesOf
  <2> QED
    BY <2>3, <2>5
<1>3. CASE Lock(r)
  <2>1. h \in WithStatus(req[r].handNo, "LOCKED")
    BY <1>3 DEF Lock, Writes
  <2> QED
    BY <2>1 DEF WithStatus, HandsInv
<1> QED
  BY <1>1, <1>2, <1>3

\* However confirmations overlap, and whatever else runs with them, when the last of them is
\* answered a hand that everyone confirmed is locked.
THEOREM LastConfirmationAlwaysLocks == Spec => LastConfirmationLocks
<1> DEFINE Locks == \A r \in Requests : Confirming(req[r]) /\ Quiet' =>
             \A h \in hands' :
                 h.handNo = req[r].handNo /\ AllConfirmed(h.handNo)' => h.status = "LOCKED"
<1>1. LedgersInv /\ [Next]_ledgersVars => [Locks]_<<roomVars, req>>
  <2> SUFFICES ASSUME LedgersInv, [Next]_ledgersVars
               PROVE  [Locks]_<<roomVars, req>>
    OBVIOUS
  <2>1. CASE UNCHANGED ledgersVars
    BY <2>1 DEF ledgersVars
  <2>2. CASE KeepsARoom
    <3>1. HandsInv /\ RoomNext
      BY <2>2 DEF KeepsARoom, LedgersInv
    <3>2. Locks
      BY <3>1, LastLocks
    <3> QED
      BY <3>2
  <2>3. CASE KeepsAGame \/ KeepsAName
    <3>1. hands' = {}
      BY <2>3 DEF KeepsAGame, KeepsAName, roomVars, LedgersInv
    <3>2. Locks
      BY <3>1
    <3> QED
      BY <3>2
  <2> QED
    BY <2>1, <2>2, <2>3 DEF Next
<1> QED
  BY <1>1, InitInv, NextInv, PTL DEF Spec, LastConfirmationLocks

----------------------------------------------------------------------------
(* The rows of a game *)

Transactions == [op : {"book"}, player : Nat, kinds : Seq(Kinds) \ {<<>>}]
Answering == [op : {"answer", "mark", "tally"}, user : Users, answer : {"CONFIRMED", "DISPUTED"}]
Writing == [op : {"write"}, read : Seq(Sums), next : Nat \ {0},
            then : {"done", "FINISHED"}]

\* Requests that write to the rows of players carry what they write.
Carries(q) ==
  /\ q.op = "book" => q \in Transactions
  /\ q.op = "read" => q.then \in {"done", "FINISHED"}
  /\ q.op = "write" => q \in Writing
  /\ q.op \in {"answer", "mark", "tally"} => q \in Answering

RowsOK(p, b, t) ==
  /\ p \in Seq(Users \cup {Guest}) /\ b \in Seq(Sums) /\ t \in Seq(Totals)
  /\ Len(b) = Len(p) /\ Len(t) = Len(p)

\* The first n players' totals are what the transactions b add up to.
RightUpTo(n, b, t) == \A i \in 1 .. Len(b) : i < n => t[i] = TotalsOf(b[i])

\* What a recalculation that nothing ran beside has read, and has written.
Knows(q, b, t, g) ==
  /\ q.op = "write" => q.read = b /\ RightUpTo(q.next, b, t)
  /\ q.op = "risk" => g = SumOf(b) /\ RightUpTo(Len(b) + 1, b, t)

Alone(r) == req[r] # Idle /\ r \notin disturbed

GameInv ==
  /\ DOMAIN req = Requests /\ faults \in Nat
  /\ RowsOK(players, booked, totals)
  /\ \A r \in Requests : Carries(req[r])
  /\ \A r \in Requests : Alone(r) =>
       Busy = {r} /\ Knows(req[r], booked, totals, gameTotals)

LEMMA SumTypes ==
  /\ Nothing \in Sums /\ NoTotals \in Totals
  /\ \A s \in Sums : TotalsOf(s) \in Totals
  /\ \A s \in Sums, k \in Kinds : Booking(s, k) \in Sums
BY DEF Nothing, NoTotals, Sums, Totals, TotalsOf, Kinds, Booking

LEMMA RowSteps ==
  ASSUME NEW p, NEW b, NEW t, RowsOK(p, b, t)
  PROVE  /\ \A who \in Users \cup {Guest} :
              RowsOK(Append(p, who), Append(b, Nothing), Append(t, NoTotals))
         /\ \A i : \A k \in Kinds : RowsOK(p, [b EXCEPT ![i] = Booking(b[i], k)], t)
         /\ \A i : \A s \in Sums : RowsOK(p, b, [t EXCEPT ![i] = TotalsOf(s)])
         /\ \A n \in 1 .. Len(b) : RightUpTo(n, b, t)
              => RightUpTo(n + 1, b, [t EXCEPT ![n] = TotalsOf(b[n])])
<1>1. ASSUME NEW who \in Users \cup {Guest}
      PROVE  RowsOK(Append(p, who), Append(b, Nothing), Append(t, NoTotals))
  BY SumTypes DEF RowsOK
<1>2. ASSUME NEW i, NEW k \in Kinds
      PROVE  RowsOK(p, [b EXCEPT ![i] = Booking(b[i], k)], t)
  <2>1. CASE i \in 1 .. Len(b)
    <3>1. Booking(b[i], k) \in Sums
      BY <2>1, SumTypes DEF RowsOK
    <3> QED
      BY <2>1, <3>1, ExceptSeq DEF RowsOK
  <2>2. CASE i \notin 1 .. Len(b)
    <3>1. [b EXCEPT ![i] = Booking(b[i], k)] = b
      BY <2>2 DEF RowsOK
    <3> QED
      BY <3>1
  <2> QED
    BY <2>1, <2>2
<1>3. ASSUME NEW i, NEW s \in Sums
      PROVE  RowsOK(p, b, [t EXCEPT ![i] = TotalsOf(s)])
  <2>1. CASE i \in 1 .. Len(t)
    <3>1. TotalsOf(s) \in Totals
      BY SumTypes
    <3> QED
      BY <2>1, <3>1, ExceptSeq DEF RowsOK
  <2>2. CASE i \notin 1 .. Len(t)
    <3>1. [t EXCEPT ![i] = TotalsOf(s)] = t
      BY <2>2 DEF RowsOK
    <3> QED
      BY <3>1
  <2> QED
    BY <2>1, <2>2
<1>4. ASSUME NEW n \in 1 .. Len(b), RightUpTo(n, b, t)
      PROVE  RightUpTo(n + 1, b, [t EXCEPT ![n] = TotalsOf(b[n])])
  <2> DEFINE v == TotalsOf(b[n])
             u == [t EXCEPT ![n] = v]
  <2>1. \A i \in 1 .. Len(b) : u[i] = IF i = n THEN v ELSE t[i]
    BY DEF RowsOK
  <2> SUFFICES ASSUME NEW i \in 1 .. Len(b), i < n + 1
               PROVE  u[i] = TotalsOf(b[i])
    BY DEF RightUpTo
  <2> HIDE DEF u
  <2> QED
    BY <1>4, <2>1 DEF RightUpTo
<1> QED
  BY <1>1, <1>2, <1>3, <1>4

----------------------------------------------------------------------------
(* What the steps of requests do to GameInv *)

LEMMA StartingStep ==
  ASSUME GameInv, NEW r \in Requests, NEW q, Starts(r, q), Carries(q),
         q.op \notin {"write", "risk"}, RowsOK(players', booked', totals'),
         q # Idle \/ UNCHANGED <<booked, totals, gameTotals>>
  PROVE  GameInv'
<1>1. /\ req[r] = Idle /\ req' = [req EXCEPT ![r] = q] /\ faults' = faults
      /\ disturbed' = IF Busy = {} THEN {} ELSE Busy \cup IF q = Idle THEN {} ELSE {r}
  BY DEF Starts
<1>2. /\ DOMAIN req' = Requests
      /\ \A o \in Requests : req'[o] = IF o = r THEN q ELSE req[o]
  BY <1>1 DEF GameInv
<1>3. ASSUME NEW o \in Requests, Alone(o)'
      PROVE  o = r /\ q # Idle /\ Busy = {}
  BY <1>1, <1>2, <1>3 DEF Alone, Busy
<1>4. ASSUME NEW o \in Requests, Alone(o)'
      PROVE  Busy' = {o} /\ Knows(req'[o], booked', totals', gameTotals')
  BY <1>2, <1>3, <1>4 DEF Busy, Knows
<1> QED
  BY <1>1, <1>2, <1>4 DEF GameInv

LEMMA ContinuingStep ==
  ASSUME GameInv, NEW r \in Requests, NEW q, req[r] # Idle,
         req' = [req EXCEPT ![r] = q],
         disturbed' = IF q = Idle THEN disturbed \ {r} ELSE disturbed,
         faults' \in Nat, Carries(q), RowsOK(players', booked', totals'),
         Alone(r) => Knows(q, booked', totals', gameTotals')
  PROVE  GameInv'
<1>1. /\ DOMAIN req' = Requests
      /\ \A o \in Requests : req'[o] = IF o = r THEN q ELSE req[o]
  BY DEF GameInv
<1>2. ASSUME NEW o \in Requests, Alone(o)'
      PROVE  o = r /\ q # Idle /\ Alone(r)
  BY <1>1, <1>2 DEF Alone, Busy, GameInv
<1>3. ASSUME NEW o \in Requests, Alone(o)'
      PROVE  Busy' = {o} /\ Knows(req'[o], booked', totals', gameTotals')
  BY <1>1, <1>2, <1>3 DEF Busy, GameInv
<1> QED
  BY <1>1, <1>3 DEF GameInv

----------------------------------------------------------------------------
(* The actions of a game *)

LEMMA GameBegins ==
  ASSUME GameInv, NEW r \in Requests,
         \/ FinishGame(r) \/ \E s \in {"ONGOING", "CONFIRMED"} : UpdateGame(r, s)
         \/ \E u \in Users, answer \in {"CONFIRMED", "DISPUTED"} : Answer(r, u, answer)
         \/ \E u \in Users, role \in {"ADMIN", "MEMBER"} : AddsMember(r, u, role)
         \/ \E kind \in Kinds, i \in Ids : AddTransaction(r, i, kind)
  PROVE  GameInv'
<1> DEFINE Fits(q) == Carries(q) /\ q.op \notin {"write", "risk"}
<1>1. UNCHANGED <<players, booked, totals, gameTotals>>
  BY DEF FinishGame, UpdateGame, Answer, AddsMember, AddTransaction, playerRows
<1>2. ASSUME NEW q, Fits(q), Starts(r, q)
      PROVE  GameInv'
  <2>1. RowsOK(players', booked', totals')
    BY <1>1 DEF GameInv
  <2> QED
    BY <1>1, <1>2, <2>1, StartingStep
<1>3. CASE FinishGame(r)
  <2>1. Fits(Recalculate("FINISHED"))
    BY DEF Recalculate, Carries
  <2> HIDE DEF Fits
  <2> QED
    BY <1>2, <1>3, <2>1 DEF FinishGame
<1>4. ASSUME NEW s, UpdateGame(r, s)
      PROVE  GameInv'
  <2>1. Fits(Idle)
    BY DEF Idle, Carries
  <2> HIDE DEF Fits
  <2> QED
    BY <1>2, <1>4, <2>1 DEF UpdateGame
<1>5. ASSUME NEW u \in Users, NEW answer \in {"CONFIRMED", "DISPUTED"}, Answer(r, u, answer)
      PROVE  GameInv'
  <2> DEFINE q == [op |-> "answer", user |-> u, answer |-> answer]
  <2>1. Fits(q) /\ Starts(r, q)
    BY <1>5 DEF Carries, Answering, Answer
  <2> HIDE DEF Fits, q
  <2> QED
    BY <1>2, <2>1
<1>6. ASSUME NEW u \in Users, NEW role, AddsMember(r, u, role)
      PROVE  GameInv'
  <2>1. Fits(AddMember(u, role)) /\ Starts(r, AddMember(u, role))
    BY <1>6 DEF Carries, AddsMember, AddMember
  <2> HIDE DEF Fits
  <2> QED
    BY <1>2, <2>1
<1>7. ASSUME NEW kind \in Kinds, NEW i \in Ids, AddTransaction(r, i, kind)
      PROVE  GameInv'
  <2> DEFINE q == [op |-> "book", player |-> i, kinds |-> <<kind>>]
  <2>1. i \in Nat
    BY DEF GameInv, RowsOK, Ids
  <2>2. <<kind>> \in Seq(Kinds) /\ <<kind>> # <<>>
    OBVIOUS
  <2>3. Fits(q) /\ Starts(r, q)
    BY <1>7, <2>1, <2>2 DEF Carries, Transactions, AddTransaction
  <2> HIDE DEF Fits, q
  <2> QED
    BY <1>2, <2>3
<1> QED
  BY <1>3, <1>4, <1>5, <1>6, <1>7

LEMMA PlayerAdded ==
  ASSUME GameInv, NEW r \in Requests, NEW who \in Users \cup {Guest},
         NEW kinds \in {<<>>, <<"BUY_IN", "CASH_OUT">>}, AddPlayer(r, who, kinds)
  PROVE  GameInv'
<1> DEFINE q == IF kinds = <<>> THEN Recalculate("done")
                ELSE [op |-> "book", player |-> Len(players) + 1, kinds |-> kinds]
<1>1. Len(players) + 1 \in Nat
  BY DEF GameInv, RowsOK
<1>2. kinds \in Seq(Kinds)
  <2>1. <<>> \in Seq(Kinds) /\ <<"BUY_IN", "CASH_OUT">> \in Seq(Kinds)
    BY DEF Kinds
  <2> QED
    BY <2>1
<1>3. Carries(q) /\ q.op \in {"read", "book"}
  BY <1>1, <1>2 DEF Carries, Transactions, Recalculate
<1>4. Starts(r, q)
  BY DEF AddPlayer
<1>5. RowsOK(players', booked', totals')
  BY RowSteps DEF AddPlayer, GameInv
<1> HIDE DEF q
<1>6. q # Idle
  BY <1>3 DEF Idle
<1> QED
  BY <1>3, <1>4, <1>5, <1>6, StartingStep

\* The steps that leave the players' rows and the totals alone, or write what nobody recalculates.
LEMMA GameGoesOn ==
  ASSUME GameInv, NEW r \in Requests,
         \/ LogRisk(r) \/ WriteStatus(r) \/ UpsertConfirmation(r) \/ MarkPlayers(r)
         \/ PromoteConfirmedIfReady(r) \/ StatementFails(r) \/ MemberAdded(r)
  PROVE  GameInv'
<1>1. UNCHANGED <<players, booked, totals, gameTotals>>
  BY DEF LogRisk, WriteStatus, UpsertConfirmation, MarkPlayers, PromoteConfirmedIfReady,
         StatementFails, MemberAdded, playerRows
<1>2. RowsOK(players', booked', totals')
  BY <1>1 DEF GameInv
<1>3. ASSUME NEW q, q.op \notin {"book", "read", "write", "risk"}, Continues(r, q),
             req[r] # Idle, q.op \in {"answer", "mark", "tally"} => q \in Answering
      PROVE  GameInv'
  <2>1. Carries(q) /\ Knows(q, booked', totals', gameTotals')
    BY <1>3 DEF Carries, Knows
  <2> QED
    BY <1>2, <1>3, <2>1, ContinuingStep DEF Continues, GameInv
<1>4. \A s : Then(s).op \in {"idle", "status"}
  BY DEF Then, Idle
<1>5. CASE LogRisk(r) \/ WriteStatus(r) \/ PromoteConfirmedIfReady(r) \/ MemberAdded(r)
  <2>1. PICK q : q.op \in {"idle", "status"} /\ Continues(r, q)
    BY <1>4, <1>5 DEF LogRisk, WriteStatus, PromoteConfirmedIfReady, MemberAdded, Idle
  <2>2. req[r] # Idle
    BY <1>5 DEF LogRisk, WriteStatus, PromoteConfirmedIfReady, MemberAdded, UpsertMember, Idle
  <2> QED
    BY <1>3, <2>1, <2>2
<1>6. CASE UpsertConfirmation(r)
  <2>1. req[r].op = "answer" /\ Continues(r, [req[r] EXCEPT !.op = "mark"])
    BY <1>6 DEF UpsertConfirmation
  <2>2. req[r] \in Answering
    BY <2>1 DEF GameInv, Carries
  <2> DEFINE q == [req[r] EXCEPT !.op = "mark"]
  <2>3. q \in Answering /\ q.op = "mark" /\ Continues(r, q)
    BY <2>1, <2>2 DEF Answering
  <2>4. req[r] # Idle
    BY <2>1 DEF Idle
  <2> HIDE DEF q
  <2> QED
    BY <1>3, <2>3, <2>4
<1>7. CASE MarkPlayers(r)
  <2>1. req[r].op = "mark" /\ req[r] \in Answering
    BY <1>7 DEF MarkPlayers, GameInv, Carries
  <2> DEFINE q == [req[r] EXCEPT !.op = "tally"]
  <2>2. q \in Answering /\ q.op = "tally"
    BY <2>1 DEF Answering
  <2>3. Continues(r, Then("DISPUTED")) \/ Continues(r, q)
    BY <1>7 DEF MarkPlayers
  <2>4. req[r] # Idle
    BY <2>1 DEF Idle
  <2> HIDE DEF q
  <2> QED
    BY <1>3, <1>4, <2>2, <2>3, <2>4
<1>8. CASE StatementFails(r)
  <2>1. Carries(Idle) /\ Knows(Idle, booked', totals', gameTotals')
    BY DEF Carries, Knows, Idle
  <2>2. /\ req[r] # Idle /\ faults' = faults + 1 /\ faults \in Nat
        /\ req' = [req EXCEPT ![r] = Idle] /\ disturbed' = disturbed \ {r}
    BY <1>8 DEF StatementFails, GameInv
  <2>3. faults' \in Nat /\ disturbed' = IF Idle = Idle THEN disturbed \ {r} ELSE disturbed
    BY <2>2
  <2> QED
    BY <1>2, <2>1, <2>2, <2>3, ContinuingStep
<1> QED
  BY <1>5, <1>6, <1>7, <1>8

LEMMA TransactionBooked ==
  ASSUME GameInv, NEW r \in Requests, CreateTransaction(r)
  PROVE  GameInv'
<1> DEFINE q == req[r]
           next == IF Len(q.kinds) = 1 THEN Recalculate("done") ELSE [q EXCEPT !.kinds = Tail(@)]
<1>1. q \in Transactions /\ q # Idle
  BY DEF GameInv, Carries, CreateTransaction, Idle
<1>2. Carries(next) /\ next.op \in {"read", "book"}
  <2>1. Head(q.kinds) \in Kinds /\ Tail(q.kinds) \in Seq(Kinds) /\ Len(q.kinds) # 0
        /\ Len(Tail(q.kinds)) = Len(q.kinds) - 1 /\ Len(q.kinds) \in Nat
    BY <1>1, HeadTailProperties, LenProperties, EmptySeq DEF Transactions
  <2>2. Len(q.kinds) # 1 => Tail(q.kinds) # <<>>
    <3>1. ASSUME NEW tail, tail = <<>>
          PROVE  Len(tail) = 0
      BY <3>1
    <3>2. Tail(q.kinds) = <<>> => Len(Tail(q.kinds)) = 0
      BY <3>1, Zenon
    <3> QED
      BY <2>1, <3>2
  <2>3. Len(q.kinds) # 1 => [q EXCEPT !.kinds = Tail(@)] \in Transactions
    BY <1>1, <2>1, <2>2 DEF Transactions
  <2> QED
    BY <2>3 DEF Carries, Transactions, Recalculate
<1>3. RowsOK(players', booked', totals')
  <2>1. Head(q.kinds) \in Kinds
    BY <1>1, HeadTailProperties DEF Transactions
  <2>2. /\ booked' = [booked EXCEPT ![q.player] = Booking(booked[q.player], Head(q.kinds))]
        /\ UNCHANGED <<players, totals>>
    BY DEF CreateTransaction
  <2>3. RowsOK(players, booked, totals)
    BY DEF GameInv
  <2> HIDE DEF q
  <2> QED
    BY <2>1, <2>2, <2>3, RowSteps
<1>4. Continues(r, next)
  BY DEF CreateTransaction
<1> HIDE DEF next
<1>5. Knows(next, booked', totals', gameTotals')
  BY <1>2 DEF Knows
<1> QED
  BY <1>1, <1>2, <1>3, <1>4, <1>5, ContinuingStep DEF Continues, GameInv

\* Then(s) is no recalculation.
LEMMA Thens ==
  ASSUME NEW s, NEW b, NEW t, NEW g
  PROVE  Then(s).op \in {"idle", "status"} /\ Carries(Then(s)) /\ Knows(Then(s), b, t, g)
BY DEF Then, Idle, Carries, Knows

LEMMA Recalculating ==
  ASSUME GameInv, NEW r \in Requests, ReadTransactions(r) \/ WritePlayer(r) \/ WriteGame(r)
  PROVE  /\ GameInv'
         /\ WriteGame(r) /\ r \notin disturbed =>
              RightUpTo(Len(booked) + 1, booked, totals) /\ gameTotals' = SumOf(booked)
<1> DEFINE q == req[r]
<1>1. RowsOK(players, booked, totals) /\ Carries(q)
  BY DEF GameInv
<1>2. Alone(r) => Knows(q, booked, totals, gameTotals)
  BY DEF GameInv
<1>3. faults' \in Nat /\ q # Idle
  BY DEF ReadTransactions, WritePlayer, WriteGame, Continues, GameInv, Idle
<1>4. ASSUME NEW n, Continues(r, n), Carries(n), RowsOK(players', booked', totals'),
             Alone(r) => Knows(n, booked', totals', gameTotals')
      PROVE  GameInv'
  BY <1>3, <1>4, ContinuingStep DEF Continues
<1>5. ASSUME ReadTransactions(r) PROVE GameInv'
  <2> DEFINE n == [op |-> "write", read |-> booked, next |-> 1, then |-> q.then]
  <2>1. UNCHANGED <<players, booked, totals, gameTotals>> /\ Continues(r, n) /\ q.op = "read"
    BY <1>5 DEF ReadTransactions, playerRows
  <2>2. Carries(n)
    BY <1>1, <2>1 DEF Carries, Writing, RowsOK
  <2>3. Knows(n, booked, totals, gameTotals)
    BY <1>1 DEF Knows, RightUpTo, RowsOK
  <2> HIDE DEF n, q
  <2> QED
    BY <1>1, <1>4, <2>1, <2>2, <2>3
<1>6. ASSUME WritePlayer(r) PROVE GameInv'
  <2> DEFINE n == [q EXCEPT !.next = @ + 1]
  <2>1. /\ q.op = "write" /\ q.next <= Len(q.read)
        /\ totals' = [totals EXCEPT ![q.next] = TotalsOf(q.read[q.next])]
        /\ Continues(r, n) /\ UNCHANGED <<players, booked, gameTotals>>
    BY <1>6 DEF WritePlayer
  <2>2. q \in Writing
    BY <1>1, <2>1 DEF Carries
  <2>3. /\ n \in Writing /\ n.op = "write" /\ n.read = q.read /\ n.next = q.next + 1
        /\ q.next \in 1 .. Len(q.read) /\ q.read[q.next] \in Sums
    BY <2>1, <2>2 DEF Writing
  <2> HIDE DEF n, q
  <2>4. RowsOK(players', booked', totals')
    BY <1>1, <2>1, <2>3, RowSteps
  <2>5. Carries(n)
    BY <2>3 DEF Carries
  <2>6. ASSUME Alone(r) PROVE Knows(n, booked', totals', gameTotals')
    <3>1. q.read = booked /\ RightUpTo(q.next, booked, totals)
      BY <1>2, <2>1, <2>6 DEF Knows
    <3>2. RightUpTo(q.next + 1, booked, totals')
      BY <1>1, <2>1, <2>3, <3>1, RowSteps
    <3> QED
      BY <2>1, <2>3, <3>1, <3>2 DEF Knows
  <2> QED
    BY <1>4, <2>1, <2>4, <2>5, <2>6
<1>7. ASSUME WriteGame(r)
      PROVE  /\ GameInv'
             /\ r \notin disturbed =>
                  RightUpTo(Len(booked) + 1, booked, totals) /\ gameTotals' = SumOf(booked)
  <2> DEFINE sum == SumOf(q.read)
             right == sum.profit = sum.cashOut - sum.buyIn
             n == IF right THEN Then(q.then) ELSE [op |-> "risk", then |-> q.then]
  <2>1. /\ q.op = "write" /\ q.next > Len(q.read) /\ gameTotals' = sum
        /\ Continues(r, n) /\ UNCHANGED <<players, booked, totals>>
    BY <1>7 DEF WriteGame, playerRows
  <2>2. q \in Writing
    BY <1>1, <2>1 DEF Carries
  <2>3. q.next \in Nat /\ Len(q.read) \in Nat
    BY <2>2 DEF Writing
  <2>4. Carries(n)
    BY Thens DEF Carries
  <2> HIDE DEF q, right
  <2>5. ASSUME r \notin disturbed
        PROVE  RightUpTo(Len(booked) + 1, booked, totals) /\ gameTotals' = SumOf(booked)
    <3>1. q.read = booked /\ RightUpTo(q.next, booked, totals)
      BY <1>2, <1>3, <2>1, <2>5 DEF Knows, Alone, q
    <3> QED
      BY <2>1, <2>3, <3>1 DEF RightUpTo
  <2>6. ASSUME Alone(r) PROVE Knows(n, booked', totals', gameTotals')
    <3>1. RightUpTo(Len(booked) + 1, booked, totals) /\ gameTotals' = SumOf(booked)
      BY <2>5, <2>6 DEF Alone
    <3>2. Knows([op |-> "risk", then |-> q.then], booked', totals', gameTotals')
      BY <2>1, <3>1 DEF Knows
    <3> QED
      BY <3>2, Thens
  <2> HIDE DEF n, sum
  <2> QED
    BY <1>1, <1>4, <2>1, <2>4, <2>5, <2>6
<1> QED
  BY <1>5, <1>6, <1>7 DEF ReadTransactions, WritePlayer, WriteGame

LEMMA GameNextInv == GameInv /\ GameNext => GameInv'
<1> SUFFICES ASSUME GameInv, GameNext PROVE GameInv'
  OBVIOUS
<1>1. PICK r \in Requests : Books(r) \/ MemberAdded(r)
  BY DEF GameNext
<1>2. CASE \E who \in Users \cup {Guest}, kinds \in {<<>>, <<"BUY_IN", "CASH_OUT">>} :
             AddPlayer(r, who, kinds)
  BY <1>2, PlayerAdded, Zenon
<1> QED
  BY <1>1, <1>2, GameBegins, GameGoesOn, TransactionBooked, Recalculating DEF Books

----------------------------------------------------------------------------
(* The requests of a room are others *)

RoomOps == {"idle", "seat", "next hand", "upsert", "reopen", "promote", "confirm", "confirming",
            "locking", "lock", "clear", "suggest"}
AreRoomOps == \A r \in Requests : req[r].op \in RoomOps

LEMMA RoomRequests ==
  ASSUME HandsInv, RoomNext, AreRoomOps
  PROVE  AreRoomOps'
<1>1. ASSUME NEW r \in Requests, NEW q, q.op \in RoomOps, Begins(r, q) \/ Goes(r, q)
      PROVE  AreRoomOps'
  BY <1>1 DEF HandsInv, AreRoomOps, Begins, Goes
<1>2. ASSUME NEW r \in Requests, AtOnce(r)
      PROVE  AreRoomOps'
  BY <1>2 DEF AreRoomOps, AtOnce
<1>3. ASSUME NEW r \in Requests,
             \/ StartRoom(r) \/ EndRoom(r) \/ CloseTeamLedgerRoom(r) \/ SweepIdleRooms(r)
             \/ SubmitEntryForTemp(r) \/ \E u \in Users : DisputeHandEntry(r, u)
      PROVE  AreRoomOps'
  BY <1>2, <1>3 DEF StartRoom, EndRoom, CloseTeamLedgerRoom, SweepIdleRooms, Closes,
                    SubmitEntryForTemp, DisputeHandEntry
<1>4. ASSUME NEW r \in Requests, AddTempParticipant(r) \/ \E u \in Users : JoinRoom(r, u)
      PROVE  AreRoomOps'
  <2>1. PICK u : Begins(r, [op |-> "seat", user |-> u, seat |-> LastSeat + 1])
    BY <1>4, Zenon DEF AddTempParticipant, JoinRoom
  <2> DEFINE q == [op |-> "seat", user |-> u, seat |-> LastSeat + 1]
  <2>2. q.op \in RoomOps /\ Begins(r, q)
    BY <2>1 DEF RoomOps
  <2> HIDE DEF q
  <2> QED
    BY <1>1, <2>2
<1>5. ASSUME NEW r \in Requests, CreateNextHand(r) PROVE AreRoomOps'
  <2> DEFINE q == [op |-> "next hand", handNo |-> room.currentHandNo + 1]
  <2>2. q.op \in RoomOps /\ Begins(r, q)
    BY <1>5 DEF CreateNextHand, RoomOps
  <2> HIDE DEF q
  <2> QED
    BY <1>1, <2>2
<1>6. ASSUME NEW r \in Requests, RequestConfirmHand(r) PROVE AreRoomOps'
  <2>1. PICK n : Begins(r, [op |-> "confirming", handNo |-> n])
    BY <1>6, Zenon DEF RequestConfirmHand
  <2> DEFINE q == [op |-> "confirming", handNo |-> n]
  <2>2. q.op \in RoomOps /\ Begins(r, q)
    BY <2>1 DEF RoomOps
  <2> HIDE DEF q
  <2> QED
    BY <1>1, <2>2
<1>7. ASSUME NEW r \in Requests, GenerateSettlement(r) PROVE AreRoomOps'
  <2>1. PICK ds, cs : Begins(r, [op |-> "clear", ds |-> ds, cs |-> cs])
    BY <1>7, Zenon DEF GenerateSettlement
  <2> DEFINE q == [op |-> "clear", ds |-> ds, cs |-> cs]
  <2>2. q.op \in RoomOps /\ Begins(r, q)
    BY <2>1 DEF RoomOps
  <2> HIDE DEF q
  <2> QED
    BY <1>1, <2>2
<1>8. ASSUME NEW r \in Requests, NEW u \in Users, SubmitEntry(r, u) PROVE AreRoomOps'
  <2>1. PICK n, s, a, d :
          Begins(r, [op |-> "upsert", handNo |-> n, seat |-> s, amount |-> a, disputed |-> d])
    BY <1>8, Zenon DEF SubmitEntry
  <2> DEFINE q == [op |-> "upsert", handNo |-> n, seat |-> s, amount |-> a, disputed |-> d]
  <2>2. q.op \in RoomOps /\ Begins(r, q)
    BY <2>1 DEF RoomOps
  <2> HIDE DEF q
  <2> QED
    BY <1>1, <2>2
<1>9. ASSUME NEW r \in Requests, NEW u \in Users, ConfirmHandEntry(r, u) PROVE AreRoomOps'
  <2>1. PICK n, s : Begins(r, [op |-> "confirm", handNo |-> n, seat |-> s])
    BY <1>9, Zenon DEF ConfirmHandEntry
  <2> DEFINE q == [op |-> "confirm", handNo |-> n, seat |-> s]
  <2>2. q.op \in RoomOps /\ Begins(r, q)
    BY <2>1 DEF RoomOps
  <2> HIDE DEF q
  <2> QED
    BY <1>1, <2>2
<1>10. ASSUME NEW r \in Requests,
              TakeSeat(r) \/ InsertHand(r) \/ StartConfirming(r) \/ Lock(r)
       PROVE  AreRoomOps'
  <2>1. Goes(r, Idle) /\ Idle.op \in RoomOps
    BY <1>10 DEF TakeSeat, InsertHand, StartConfirming, Lock, Writes, RoomOps, Idle
  <2> QED
    BY <1>1, <2>1
<1>11. ASSUME NEW r \in Requests, AutoPromote(r) \/ PromoteLocked(r) PROVE AreRoomOps'
  <2>1. PICK op \in {"confirming", "lock"} :
          Goes(r, [op |-> op, handNo |-> req[r].handNo]) \/ Goes(r, Idle)
    BY <1>11 DEF AutoPromote, PromoteLocked, Decides
  <2> DEFINE q == [op |-> op, handNo |-> req[r].handNo]
  <2>2. q.op \in RoomOps /\ Idle.op \in RoomOps /\ (Goes(r, q) \/ Goes(r, Idle))
    BY <2>1 DEF RoomOps, Idle
  <2> HIDE DEF q
  <2> QED
    BY <1>1, <2>2
<1>12. ASSUME NEW r \in Requests, Upsert(r) \/ Reopen(r) \/ MarkConfirmed(r) PROVE AreRoomOps'
  <2>1. PICK op \in {"reopen", "promote", "locking"} :
          Goes(r, [op |-> op, handNo |-> req[r].handNo])
    BY <1>12 DEF Upsert, Reopen, Writes, MarkConfirmed
  <2> DEFINE q == [op |-> op, handNo |-> req[r].handNo]
  <2>2. q.op \in RoomOps /\ Goes(r, q)
    BY <2>1 DEF RoomOps
  <2> HIDE DEF q
  <2> QED
    BY <1>1, <2>2
<1>13. ASSUME NEW r \in Requests, ClearSettlement(r) \/ Suggest(r) PROVE AreRoomOps'
  <2>1. PICK ds, cs : Goes(r, Suggesting(ds, cs))
    BY <1>13, Zenon DEF ClearSettlement, Suggest
  <2>2. Suggesting(ds, cs).op \in RoomOps
    BY DEF Suggesting, RoomOps, Idle
  <2> QED
    BY <1>1, <2>1, <2>2
<1> QED
  BY <1>3, <1>4, <1>5, <1>6, <1>7, <1>8, <1>9, <1>10, <1>11, <1>12, <1>13 DEF RoomNext

\* Whatever book is kept, its requests are its own.
BooksInv ==
  /\ part = "game" => GameInv
  /\ part = "room" => AreRoomOps

LEMMA BooksInitInv == Init => BooksInv
<1> SUFFICES ASSUME Init PROVE BooksInv
  OBVIOUS
<1>1. req = [r \in Requests |-> Idle] /\ faults = 0 /\ disturbed = {}
  BY DEF Init, RoomInit, GameInit
<1>2. AreRoomOps
  BY <1>1 DEF AreRoomOps, RoomOps, Idle
<1>3. RowsOK(players, booked, totals)
  <2>1. CASE players = <<>> /\ booked = <<>> /\ totals = <<>>
    BY <2>1 DEF RowsOK
  <2>2. CASE players = <<Owner>> /\ booked = <<Booking(Nothing, "BUY_IN")>>
             /\ totals = <<TotalsOf(booked[1])>>
    <3>1. Booking(Nothing, "BUY_IN") \in Sums /\ TotalsOf(Booking(Nothing, "BUY_IN")) \in Totals
      BY SumTypes DEF Kinds
    <3> DEFINE b == Booking(Nothing, "BUY_IN")
               t == TotalsOf(b)
    <3>2. booked = <<b>> /\ totals = <<t>> /\ b \in Sums /\ t \in Totals
      BY <2>2, <3>1
    <3> HIDE DEF b, t
    <3> QED
      BY <2>2, <3>2, OwnerAssumption DEF RowsOK
  <2> QED
    BY <2>1, <2>2 DEF Init, GameInit
<1>4. \A r \in Requests : Carries(req[r]) /\ ~Alone(r)
  BY <1>1 DEF Carries, Alone, Idle
<1> QED
  BY <1>1, <1>2, <1>3, <1>4 DEF BooksInv, GameInv

LEMMA BooksNextInv == LedgersInv /\ BooksInv /\ [Next]_ledgersVars => BooksInv'
<1> SUFFICES ASSUME LedgersInv, BooksInv, [Next]_ledgersVars PROVE BooksInv'
  OBVIOUS
<1>1. CASE KeepsARoom
  BY <1>1, RoomRequests DEF KeepsARoom, BooksInv, LedgersInv
<1>2. CASE KeepsAGame
  BY <1>2, GameNextInv DEF KeepsAGame, BooksInv
<1>3. CASE KeepsAName
  BY <1>3 DEF KeepsAName, BooksInv
<1>4. CASE UNCHANGED ledgersVars
  BY <1>4 DEF ledgersVars, gameVars, playerRows, BooksInv, AreRoomOps, GameInv, Alone, Busy
<1> QED
  BY <1>1, <1>2, <1>3, <1>4 DEF Next

----------------------------------------------------------------------------
(* Its theorems *)

LEMMA RepairsAll ==
  ASSUME GameInv, NEW r \in Requests \ disturbed, req'[r].op # "risk", WriteGame(r) \/ LogRisk(r)
  PROVE  Agree'
<1>1. UNCHANGED <<players, booked, totals>> /\ RowsOK(players, booked, totals)
  BY DEF WriteGame, LogRisk, playerRows, GameInv
<1>2. /\ RightUpTo(Len(booked) + 1, booked, totals) /\ gameTotals' = SumOf(booked)
      /\ SumOf(booked).profit # SumOf(booked).cashOut - SumOf(booked).buyIn => riskLogged'
  <2>1. CASE WriteGame(r)
    <3> DEFINE sum == SumOf(req[r].read)
    <3>1. RightUpTo(Len(booked) + 1, booked, totals) /\ gameTotals' = SumOf(booked)
      BY <2>1, Recalculating
    <3>2. gameTotals' = sum
      BY <2>1 DEF WriteGame
    <3>3. sum.profit = sum.cashOut - sum.buyIn
      <4>1. req'[r] = IF sum.profit = sum.cashOut - sum.buyIn THEN Then(req[r].then)
                      ELSE [op |-> "risk", then |-> req[r].then]
        BY <2>1 DEF WriteGame, Continues, GameInv
      <4> HIDE DEF sum
      <4> QED
        BY <4>1
    <3> HIDE DEF sum
    <3> QED
      BY <3>1, <3>2, <3>3
  <2>2. CASE LogRisk(r)
    <3>1. Alone(r) /\ req[r].op = "risk" /\ riskLogged' /\ gameTotals' = gameTotals
      BY <2>2 DEF LogRisk, Alone, Idle
    <3> QED
      BY <3>1 DEF GameInv, Knows
  <2> QED
    BY <2>1, <2>2
<1>3. \A i \in Ids' : totals'[i] = TotalsOf(booked'[i])
  BY <1>1, <1>2 DEF RightUpTo, RowsOK, Ids
<1> QED
  BY <1>1, <1>2, <1>3 DEF Agree, LedgerStats

\* A recalculation that nothing runs beside puts every total right, whatever requests that
\* overlapped or failed half-way left behind: for any players, transactions and requests.
THEOREM RecalculationAlwaysRepairs == Spec => RecalculationRepairs
<1> DEFINE Repairs == \A r \in Requests \ disturbed :
             req'[r].op # "risk" /\ (WriteGame(r) \/ LogRisk(r)) => Agree'
<1>1. LedgersInv /\ BooksInv /\ [Next]_ledgersVars => [Repairs]_<<gameVars, req>>
  <2> SUFFICES ASSUME LedgersInv, BooksInv, [Next]_ledgersVars,
                      ~UNCHANGED <<gameVars, req>>
               PROVE  Repairs
    OBVIOUS
  <2>1. CASE KeepsARoom
    BY <2>1 DEF KeepsARoom, BooksInv, AreRoomOps, RoomOps, WriteGame, LogRisk
  <2>2. CASE KeepsAGame
    BY <2>2, RepairsAll DEF KeepsAGame, BooksInv
  <2>3. CASE KeepsAName \/ UNCHANGED ledgersVars
    BY <2>3 DEF KeepsAName, ledgersVars
  <2> QED
    BY <2>1, <2>2, <2>3 DEF Next
<1> QED
  BY <1>1, InitInv, NextInv, BooksInitInv, BooksNextInv, PTL DEF Spec, RecalculationRepairs

LEMMA AnsweredIsCounted ==
  ASSUME GameInv, GameNext, NEW r \in Requests, Ended(r),
         Agreeing(req[r]) \/ req[r] = Then("CONFIRMED"), EveryoneConfirmed'
  PROVE  status' = "CONFIRMED"
<1>1. req[r] # Idle /\ req'[r] = Idle /\ faults' = faults /\ DOMAIN req = Requests /\ faults \in Nat
  BY DEF Ended, GameInv
<1>2. req[r].op \in {"answer", "mark", "tally", "status"}
  BY DEF Agreeing, Then
<1>3. ASSUME NEW o \in Requests, NEW q, Starts(o, q) PROVE FALSE
  BY <1>1, <1>3 DEF Starts
<1>4. ASSUME NEW o \in Requests, NEW q, Continues(o, q) PROVE o = r /\ q = Idle
  BY <1>1, <1>4 DEF Continues
<1>5. PICK o \in Requests : Books(o) \/ MemberAdded(o)
  BY DEF GameNext
<1>7. CASE PromoteConfirmedIfReady(o)
  <2>1. Continues(o, IF EveryoneConfirmed THEN Then("CONFIRMED") ELSE Idle) /\ UNCHANGED playerRows
    BY <1>7 DEF PromoteConfirmedIfReady
  <2>2. Then("CONFIRMED") # Idle
    BY DEF Then, Idle
  <2>3. ~EveryoneConfirmed
    BY <1>4, <2>1, <2>2
  <2> QED
    BY <2>1, <2>3 DEF EveryoneConfirmed, RegisteredPlayers, Ids, playerRows
<1>8. CASE WriteStatus(o)
  <2>1. o = r /\ req[r].op = "status" /\ status' = req[r].to
    BY <1>4, <1>8 DEF WriteStatus
  <2>2. req[r] = Then("CONFIRMED")
    BY <2>1 DEF Agreeing
  <2> QED
    BY <2>1, <2>2 DEF Then
<1>9. CASE UpsertConfirmation(o) \/ MarkPlayers(o)
  <2>1. req[o].op \in {"answer", "mark"} /\ req[o] \in Answering
    BY <1>9 DEF UpsertConfirmation, MarkPlayers, GameInv, Carries
  <2>2. \E q : Continues(o, q) /\ q.op \in {"mark", "status", "tally"}
    BY <1>9, <2>1 DEF UpsertConfirmation, MarkPlayers, Then, Answering
  <2> QED
    BY <1>4, <2>2 DEF Idle
<1>10. CASE \/ CreateTransaction(o) \/ ReadTransactions(o) \/ WritePlayer(o) \/ WriteGame(o)
            \/ LogRisk(o) \/ MemberAdded(o)
  <2>1. req[o].op \notin {"answer", "mark", "tally", "status"}
    BY <1>10 DEF CreateTransaction, ReadTransactions, WritePlayer, WriteGame, LogRisk,
                 MemberAdded, UpsertMember
  <2>2. \E q : Continues(o, q)
    BY <1>10, Zenon DEF CreateTransaction, ReadTransactions, WritePlayer, WriteGame, LogRisk,
                        MemberAdded
  <2> QED
    BY <1>2, <1>4, <2>1, <2>2
<1>11. ~StatementFails(o)
  BY <1>1 DEF StatementFails
<1>12. ASSUME \/ FinishGame(o) \/ \E s \in {"ONGOING", "CONFIRMED"} : UpdateGame(o, s)
              \/ \E u \in Users, answer \in {"CONFIRMED", "DISPUTED"} : Answer(o, u, answer)
              \/ \E u \in Users, role \in {"ADMIN", "MEMBER"} : AddsMember(o, u, role)
              \/ \E kind \in Kinds, i \in Ids : AddTransaction(o, i, kind)
              \/ \E who \in Users \cup {Guest}, kinds \in {<<>>, <<"BUY_IN", "CASH_OUT">>} :
                     AddPlayer(o, who, kinds)
       PROVE  FALSE
  BY <1>3, <1>12, Zenon DEF FinishGame, UpdateGame, Answer, AddsMember, AddTransaction, AddPlayer
<1> QED
  BY <1>5, <1>7, <1>8, <1>9, <1>10, <1>11, <1>12 DEF Books

\* However confirmations and other requests overlap, whenever a confirmation is answered a game
\* that all its registered players confirmed is CONFIRMED.
THEOREM LastConfirmationAlwaysCounts == Spec => LastConfirmationCounts
<1> DEFINE Counts == \A r \in Requests :
             Ended(r) /\ (Agreeing(req[r]) \/ req[r] = Then("CONFIRMED"))
             => (EveryoneConfirmed => status = "CONFIRMED")'
<1>1. LedgersInv /\ BooksInv /\ [Next]_ledgersVars => [Counts]_<<gameVars, req>>
  <2> SUFFICES ASSUME LedgersInv, BooksInv, [Next]_ledgersVars,
                      ~UNCHANGED <<gameVars, req>>
               PROVE  Counts
    OBVIOUS
  <2>1. CASE KeepsARoom
    <3>1. \A r \in Requests : req[r].op \in RoomOps
      BY <2>1 DEF KeepsARoom, BooksInv, AreRoomOps
    <3>2. \A r \in Requests : ~Agreeing(req[r]) /\ req[r] # Then("CONFIRMED")
      <4>1. "answer" \notin RoomOps /\ "mark" \notin RoomOps /\ "tally" \notin RoomOps
            /\ "status" \notin RoomOps
        BY DEF RoomOps
      <4>2. Then("CONFIRMED").op = "status"
        BY DEF Then
      <4> QED
        BY <3>1, <4>1, <4>2 DEF Agreeing
    <3> QED
      BY <3>2
  <2>2. CASE KeepsAGame
    BY <2>2, AnsweredIsCounted DEF KeepsAGame, BooksInv
  <2>3. CASE KeepsAName \/ UNCHANGED ledgersVars
    BY <2>3 DEF KeepsAName, ledgersVars
  <2> QED
    BY <2>1, <2>2, <2>3 DEF Next
<1> QED
  BY <1>1, InitInv, NextInv, BooksInitInv, BooksNextInv, PTL DEF Spec, LastConfirmationCounts

----------------------------------------------------------------------------
(* The names of a player *)

LEMMA NamesInv == Init /\ [][Next]_ledgersVars => []ProfilesInv
<1>1. Init => ProfilesInv
  BY ProfilesInitInv DEF Init
<1>2. ProfilesInv /\ [Next]_ledgersVars => ProfilesInv'
  <2> SUFFICES ASSUME ProfilesInv, [Next]_ledgersVars
               PROVE  ProfilesInv'
    OBVIOUS
  <2>1. CASE KeepsAName
    BY <2>1, ProfilesNextInv DEF KeepsAName
  <2>2. CASE KeepsARoom \/ KeepsAGame \/ UNCHANGED ledgersVars
    BY <2>2, ProfilesStutter DEF KeepsARoom, KeepsAGame, ledgersVars
  <2> QED
    BY <2>1, <2>2 DEF Next
<1> QED
  BY <1>1, <1>2, PTL

\* Every variable of the names has its type.
THEOREM ProfilesTypeCorrect == Spec => []ProfilesTypeOK
<1>1. ProfilesInv => ProfilesTypeOK
  BY DEF ProfilesInv
<1> QED
  BY <1>1, NamesInv, PTL DEF Spec

\* However requests fail, get lost or overlap, a player is called in every ledger what his row
\* says, and his phone stores his row after every request that ran alone.
THEOREM ProfilesStayTheSame == Spec => []ProfileIsTheSameEverywhere
BY NamesInv, ProfilesAgree, PTL DEF Spec
=============================================================================
