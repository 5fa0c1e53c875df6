------------------------- MODULE PracticeGameProofs -------------------------
(***************************************************************************)
(* Theorems about PracticeGame, for any seats, stacks, blinds, bots, and   *)
(* any number of handlers, hands and faults.                               *)
(*                                                                         *)
(* IInv says of every handler what it has written by the step it is at,    *)
(* and of the stored table that its hand has a row, with every action      *)
(* recorded and, when the hand is over, every result booked.  It holds     *)
(* however handlers overlap and fail, because no write takes back what     *)
(* another one booked (RowsKept).  ChipsInv bounds the chips of the tables *)
(* and of what is dealt next, also however handlers overlap: a hand pays   *)
(* no more than its pot, and stacks that may be half written back are read *)
(* only while the room is READY, when nobody has written any.  AloneInv    *)
(* and EndInv are about runs in which no two handlers overlap: then what a *)
(* handler computed follows from the table it is going to write over, and  *)
(* a room that is over has no table that goes on.  BooksInv, about runs in *)
(* which no handler failed either, says how far the only handler has come  *)
(* from the books of the start of a hand to those of its end.              *)
(***************************************************************************)
EXTENDS PracticeGame, PokerRulesProofs

\* Tables the rules lead to.
GoodTables == { t \in Tables : GameInv(t.game) }

\* The steps of the handlers that carry a table, by their kind.
Path == [ act    |-> {"actionRows", "handRow", "stackRows", "resultRows", "closingRows", "save"},
          deal   |-> {"playerRows", "handRow", "stackRows", "resultRows", "closingRows",
                      "roomPlaying", "save"},
          finish |-> {"roomFinished", "save"},
          end    |-> {"handRow", "stackRows", "resultRows", "roomFinished", "delete"} ]
Writing == {"actionRows", "playerRows", "handRow", "stackRows", "resultRows", "closingRows",
            "roomPlaying", "roomFinished", "save", "delete"}
Kinds == {"act", "deal", "finish", "end"}
Writers == [pc : Writing, kind : Kinds, table : GoodTables \cup {NoTable}, left : SUBSET Seats]

\* Hand n of the rows hs is over, with all its results and its closing rows.
Paid(hs, n) == \A s \in Seats : hs[n].endChips[s] # Unpaid
Booked(hs, n) == hs[n].status = "FINISHED" /\ hs[n].closings > 0 /\ Paid(hs, n)

LaterHand(hs, n) == \E m \in 1..MaxHands : m > n /\ hs[m] # NoHand

\* The rows hs lack at most k of the actions of t, unless a later hand has been dealt.
Recorded(hs, t, k) ==
  \/ LaterHand(hs, t.handNo)
  \/ t.acts <= hs[t.handNo].actions + k

\* What a handler that carries a table has written.
WriterIsWell(x, hs, rm) ==
  /\ x \in Writers
  /\ x.pc \in Path[x.kind]
  /\ x.kind # "end" \/ x.pc \notin {"roomFinished", "delete"} => x.table \in GoodTables
  /\ x.table \in GoodTables => hs[x.table.handNo] # NoHand
  /\ x.pc \in {"stackRows", "resultRows", "closingRows"} => hs[x.table.handNo].status = "FINISHED"
  /\ x.pc = "resultRows" => \A s \in Seats \ x.left : hs[x.table.handNo].endChips[s] # Unpaid
  /\ x.pc = "closingRows" => Paid(hs, x.table.handNo)
  /\ (x.pc \in {"roomPlaying", "save"} /\ x.table.game.status = "HAND_FINISHED") =>
       Booked(hs, x.table.handNo)
  /\ x.kind # "end" => Recorded(hs, x.table, IF x.pc = "actionRows" THEN 1 ELSE 0)
  /\ x.kind = "finish" /\ x.pc = "save" => rm # "READY"
  /\ x.kind \in {"act", "deal"} => x.table.game.status # "ROOM_FINISHED"
  /\ x.kind = "finish" => x.table.game.status = "ROOM_FINISHED"

\* A handler that is about to deal a hand, and one that plays a bot.
Starters ==
  [pc : {"handNo"}, chips : [Seats -> Nat], dealer : Seats]
    \cup [pc : {"createHand"}, handNo : 1..MaxHands, chips : [Seats -> Nat], dealer : Seats]
Bots == [pc : {"botTurn"}] \cup [pc : {"botAct"}, seat : Seats, decision : Decisions]
HandlerIsWell(x, hs, rm) ==
  \/ x = Idle
  \/ x \in Starters /\ CanStartHand(x.chips)
  \/ x.pc = "botTurn"
  \/ x \in Bots
  \/ WriterIsWell(x, hs, rm)

TableIsWell(t, hs, rm) ==
  /\ t \in GoodTables \cup {NoTable}
  /\ IsTable(t) =>
       /\ hs[t.handNo] # NoHand
       /\ Recorded(hs, t, 0)
       /\ t.game.status = "HAND_FINISHED" => Booked(hs, t.handNo)
       /\ t.game.status = "ROOM_FINISHED" => rm # "READY"

AllRows == [1..MaxHands -> HandRows \cup {NoHand}]
Types ==
  /\ room \in {"READY", "PLAYING", "FINISHED", "CLOSED"}
  /\ hands \in AllRows
  /\ stacks \in [Seats -> Nat]
  /\ timer \in BOOLEAN
  /\ botCounts \in [1..MaxHands -> Nat]
  /\ DOMAIN slot = Slots
  /\ faults \in Nat /\ overlaps \in Nat /\ faults + overlaps <= MaxTrouble

HandlersAreWell == \A h \in Slots : HandlerIsWell(slot[h], hands, room)

IInv == Types /\ TableIsWell(redis, hands, room) /\ HandlersAreWell

\* What every write to the rows keeps: a hand that was dealt stays dealt, what is booked
\* stays booked, and actions are only forgotten when a later hand has been dealt.
RowKept(r, r2) ==
  /\ r2 # NoHand
  /\ r.status = "FINISHED" => r2.status = "FINISHED"
  /\ r.closings > 0 => r2.closings > 0
  /\ \A s \in Seats : r.endChips[s] # Unpaid => r2.endChips[s] # Unpaid
RowsKept(hs, hs2) ==
  \A n \in 1..MaxHands : hs[n] # NoHand =>
    /\ RowKept(hs[n], hs2[n])
    /\ hs[n].actions <= hs2[n].actions \/ LaterHand(hs2, n)

\* What handler x is about to save still follows from the stored table t.
Follows(x, t) ==
  /\ x.pc = "handNo" => ~IsTable(t)
  /\ (x.pc = "createHand" /\ IsTable(t)) =>
       /\ t.game.status = "HAND_FINISHED"
       /\ x.chips = t.game.chips
       /\ x.dealer = NextDealerSeat(t.game.chips, t.game.dealerSeat)
  /\ x.pc \in Writing /\ x.kind = "act" =>
       /\ IsTable(t)
       /\ \E s \in Seats, d \in Decisions :
            Accepts(t.game, s, d) /\ x.table \in AfterDecision(t, s, d)
  /\ (x.pc \in Writing /\ x.kind = "deal" /\ IsTable(t)) =>
       /\ t.game.status = "HAND_FINISHED"
       /\ x.table.acts = 0
       /\ LET dealer == NextDealerSeat(t.game.chips, t.game.dealerSeat)
          IN  dealer # NoSeat /\ x.table.game \in InitialGameStates(t.game.chips, dealer, Ranks)
  /\ x.pc \in Writing /\ x.kind = "finish" =>
       /\ IsTable(t) /\ t.game.status = "HAND_FINISHED"
       /\ NextDealerSeat(t.game.chips, t.game.dealerSeat) = NoSeat
       /\ x.table = [t EXCEPT !.game.status = "ROOM_FINISHED", !.game.currentTurnSeat = NoSeat]

\* As long as no two handlers overlapped, there is at most one, and it follows.
AloneInv ==
  Alone => /\ \A g, h \in Slots : ~At(g, "idle") /\ ~At(h, "idle") => g = h
           /\ \A h \in Slots : Follows(slot[h], redis)

\* A room is over only when nobody deals in it, and its live table is being deleted.
EndInv ==
  Unharmed => /\ \A h \in Slots : At(h, "save") /\ slot[h].kind = "deal" => room # "FINISHED"
              /\ (room = "FINISHED" /\ TableIs("PLAYING")) => \E h \in Slots : At(h, "delete")

\* The hand on table t began with no more chips than the seats brought, and paid no more
\* than was put in.
Within(t) ==
  /\ ChipTotal(t.game.startHandChips) <= ChipTotal(BuyIn)
  /\ PaysWithinPot(t.game)

\* Nor does what handler x is about to deal or to save.
CarriesNoMore(x) ==
  /\ x.pc \in {"handNo", "createHand"} => ChipTotal(x.chips) <= ChipTotal(BuyIn)
  /\ (x.pc \in Writing /\ IsTable(x.table)) => Within(x.table)

\* What handlers do as long as the room is READY: nobody has written a stack.
BeforeTheFirstHand(x) ==
  \/ x.pc \in {"idle", "botTurn", "botAct", "roomFinished"}
  \/ x.pc \in {"handNo", "createHand"} /\ x.chips = BuyIn /\ x.dealer = Min(Seats)
  \/ x.pc \in {"playerRows", "roomPlaying"} /\ x.table.game.status = "PLAYING"

\* The stacks are what the seats brought until the room leaves READY; from then on they
\* may be half written, and nothing is dealt from them.
ChipsInv ==
  ~BlindsTakeAll =>
    /\ IsTable(redis) => Within(redis)
    /\ \A h \in Slots : CarriesNoMore(slot[h])
    /\ room = "READY" => /\ stacks = BuyIn /\ ~IsTable(redis)
                         /\ \A h \in Slots : BeforeTheFirstHand(slot[h])

-----------------------------------------------------------------------------
(* The rules as the instance of PokerHand states them *)

LEMMA SameActs ==
  ASSUME NEW st, NEW s
  PROVE  /\ Hand!MayAct(st, s) = MayAct(st, s)
         /\ Hand!MayCheck(st, s) = MayCheck(st, s)
         /\ Hand!MayCall(st, s) = MayCall(st, s)
         /\ \A n : Hand!MayBet(st, s, n) = MayBet(st, s, n)
         /\ \A n : Hand!MayRaise(st, s, n) = MayRaise(st, s, n)
BY Zenon DEF MayRaise, Hand!MayRaise, MayAct, Hand!MayAct, CanStillAct, Hand!CanStillAct,
  MayCheck, Hand!MayCheck, MayCall, Hand!MayCall, MayBet, Hand!MayBet

LEMMA SameMutations ==
  ASSUME NEW st, NEW s
  PROVE  /\ Hand!Folded(st, s) = Folded(st, s)
         /\ Hand!Checked(st, s) = Checked(st, s)
         /\ Hand!Called(st, s) = Called(st, s)
         /\ Hand!WentAllIn(st, s) = WentAllIn(st, s)
         /\ \A n : Hand!BetPlaced(st, s, n) = BetPlaced(st, s, n)
         /\ \A n : Hand!RaisedTo(st, s, n) = RaisedTo(st, s, n)
<1>1. Hand!Folded(st, s) = Folded(st, s)
  BY DEF Folded, Hand!Folded, HasActed, Hand!HasActed
<1>2. Hand!Checked(st, s) = Checked(st, s)
  BY DEF Checked, Hand!Checked, HasActed, Hand!HasActed
<1>3. Hand!Called(st, s) = Called(st, s)
  BY DEF Called, Hand!Called, HasActed, Hand!HasActed, InvestChips, Hand!InvestChips, Min, Hand!Min
<1>4. Hand!WentAllIn(st, s) = WentAllIn(st, s)
  BY DEF WentAllIn, Hand!WentAllIn, HasActed, Hand!HasActed, InvestChips, Hand!InvestChips,
     Max, Hand!Max, MarkFullAggression, Hand!MarkFullAggression, CanStillAct, Hand!CanStillAct
<1>5. \A n : Hand!BetPlaced(st, s, n) = BetPlaced(st, s, n)
  BY DEF BetPlaced, Hand!BetPlaced, HasActed, Hand!HasActed, InvestChips, Hand!InvestChips,
     MarkFullAggression, Hand!MarkFullAggression, CanStillAct, Hand!CanStillAct
<1>6. \A n : Hand!RaisedTo(st, s, n) = RaisedTo(st, s, n)
  BY DEF RaisedTo, Hand!RaisedTo, HasActed, Hand!HasActed, InvestChips, Hand!InvestChips,
     MarkFullAggression, Hand!MarkFullAggression, CanStillAct, Hand!CanStillAct
<1> QED BY <1>1, <1>2, <1>3, <1>4, <1>5, <1>6

LEMMA SameTotals ==
  ASSUME NEW f
  PROVE  Hand!ChipTotal(f) = ChipTotal(f) /\ Hand!Cardinality(f) = Cardinality(f)
BY DEF ChipTotal, Hand!ChipTotal, ChipUnits, Hand!ChipUnits, Cardinality, Hand!Cardinality

LEMMA SameSeats ==
  ASSUME NEW S, NEW s
  PROVE  /\ Hand!SeatAfter(S, s) = SeatAfter(S, s)
         /\ Hand!NormalizeDealerSeat(s, S) = NormalizeDealerSeat(s, S)
BY DEF SeatAfter, Hand!SeatAfter, Min, Hand!Min, NormalizeDealerSeat, Hand!NormalizeDealerSeat

LEMMA SamePayouts ==
  ASSUME NEW i, NEW e, NEW r
  PROVE  Hand!Payouts(i, e, r) = Payouts(i, e, r)
BY DEF Payouts, Hand!Payouts, PotShare, Hand!PotShare, PotLevels, Hand!PotLevels,
  PotAmount, Hand!PotAmount, PotWinners, Hand!PotWinners, Levels, Hand!Levels,
  PreviousLevel, Hand!PreviousLevel, Contributors, Hand!Contributors, Max, Hand!Max, ChipTotal, Hand!ChipTotal, ChipUnits, Hand!ChipUnits, Cardinality, Hand!Cardinality

LEMMA SameStreets ==
  ASSUME NEW st, NEW s
  PROVE  /\ Hand!FirstActionableSeatAfter(st, s) = FirstActionableSeatAfter(st, s)
         /\ Hand!AdvanceStreet(st) = AdvanceStreet(st)
         /\ Hand!Contenders(st) = Contenders(st)
         /\ Hand!AllContendersAllIn(st) = AllContendersAllIn(st)
         /\ Hand!BettingRoundComplete(st) = BettingRoundComplete(st)
<1>1. \A t, seat : Hand!FirstActionableSeatAfter(t, seat) = FirstActionableSeatAfter(t, seat)
  BY SameSeats DEF FirstActionableSeatAfter, Hand!FirstActionableSeatAfter, ToAct, Hand!ToAct,
                   CanStillAct, Hand!CanStillAct
<1>2. Hand!AdvanceStreet(st) = AdvanceStreet(st)
  BY <1>1 DEF AdvanceStreet, Hand!AdvanceStreet, NextStreet, Hand!NextStreet,
              CardsToDeal, Hand!CardsToDeal
<1>3. Hand!Contenders(st) = Contenders(st)
  BY DEF Contenders, Hand!Contenders, IsContender, Hand!IsContender
<1>4. Hand!AllContendersAllIn(st) = AllContendersAllIn(st)
  BY <1>3 DEF AllContendersAllIn, Hand!AllContendersAllIn
<1>5. Hand!BettingRoundComplete(st) = BettingRoundComplete(st)
  BY DEF BettingRoundComplete, Hand!BettingRoundComplete, CanStillAct, Hand!CanStillAct
<1> QED
  BY <1>1, <1>2, <1>3, <1>4, <1>5

LEMMA SameFinishes ==
  ASSUME NEW st, NEW x
  PROVE  /\ Hand!FinishByFold(st, x) = FinishByFold(st, x)
         /\ Hand!FinishByShowdown(st, x) = FinishByShowdown(st, x)
BY SameTotals, SamePayouts, SameStreets
   DEF FinishByShowdown, Hand!FinishByShowdown, FinishByFold, Hand!FinishByFold,
       Finish, Hand!Finish, Pot, Hand!Pot

LEMMA SameNormalization ==
  ASSUME NEW st, NEW s
  PROVE  Hand!NormalizeAfterAction(st, s, Ranks) = NormalizeAfterAction(st, s, Ranks)
<1> DEFINE alive == Contenders(st)
           next == AdvanceStreet(st)
<1>1. Hand!Contenders(st) = alive /\ Hand!AdvanceStreet(st) = next
  BY SameStreets
<1>2. /\ { Hand!FinishByShowdown(st, rank) : rank \in [alive -> Ranks] }
           = { FinishByShowdown(st, rank) : rank \in [alive -> Ranks] }
      /\ { Hand!FinishByShowdown(next, rank) : rank \in [alive -> Ranks] }
           = { FinishByShowdown(next, rank) : rank \in [alive -> Ranks] }
  BY SameFinishes
<1>3. { Hand!FinishByFold(st, t) : t \in alive } = { FinishByFold(st, t) : t \in alive }
  BY SameFinishes
<1>4. Hand!Cardinality(alive) = Cardinality(alive)
  BY SameTotals
<1>5. Hand!FirstActionableSeatAfter(st, s) = FirstActionableSeatAfter(st, s)
  BY SameStreets
<1>6. /\ Hand!AllContendersAllIn(st) = AllContendersAllIn(st)
      /\ Hand!BettingRoundComplete(st) = BettingRoundComplete(st)
  BY SameStreets
<1> HIDE DEF alive, next
<1>7. NormalizeAfterAction(st, s, Ranks) =
        IF Cardinality(alive) = 1 THEN { FinishByFold(st, t) : t \in alive }
        ELSE IF AllContendersAllIn(st) THEN { FinishByShowdown(st, rank) : rank \in [alive -> Ranks] }
        ELSE IF ~BettingRoundComplete(st)
          THEN { [st EXCEPT !.currentTurnSeat = FirstActionableSeatAfter(st, s)] }
        ELSE IF st.street = "RIVER" THEN { FinishByShowdown(st, rank) : rank \in [alive -> Ranks] }
        ELSE IF next.currentTurnSeat = NoSeat
          THEN { FinishByShowdown(next, rank) : rank \in [alive -> Ranks] }
        ELSE {next}
  BY DEF NormalizeAfterAction, alive, next
<1>8. Hand!NormalizeAfterAction(st, s, Ranks) =
        IF Hand!Cardinality(alive) = 1 THEN { Hand!FinishByFold(st, t) : t \in alive }
        ELSE IF Hand!AllContendersAllIn(st)
          THEN { Hand!FinishByShowdown(st, rank) : rank \in [alive -> Ranks] }
        ELSE IF ~Hand!BettingRoundComplete(st)
          THEN { [st EXCEPT !.currentTurnSeat = Hand!FirstActionableSeatAfter(st, s)] }
        ELSE IF st.street = "RIVER"
          THEN { Hand!FinishByShowdown(st, rank) : rank \in [alive -> Ranks] }
        ELSE IF next.currentTurnSeat = NoSeat
          THEN { Hand!FinishByShowdown(next, rank) : rank \in [alive -> Ranks] }
        ELSE {next}
  BY <1>1 DEF Hand!NormalizeAfterAction
<1> QED
  BY <1>2, <1>3, <1>4, <1>5, <1>6, <1>7, <1>8

LEMMA SameDeal ==
  ASSUME NEW chips, NEW dealer
  PROVE  Hand!BlindsPosted(chips, dealer) = BlindsPosted(chips, dealer)
<1>1. \A S : /\ Hand!SmallBlindSeat(S, dealer) = SmallBlindSeat(S, dealer)
             /\ Hand!BigBlindSeat(S, dealer) = BigBlindSeat(S, dealer)
  BY SameTotals, SameSeats DEF SmallBlindSeat, Hand!SmallBlindSeat, BigBlindSeat, Hand!BigBlindSeat
<1>2. Hand!Dealt(chips, dealer) = Dealt(chips, dealer)
  BY <1>1 DEF Dealt, Hand!Dealt, Funded, Hand!Funded
<1>3. \A st, s, blind : Hand!PostBlind(st, s, blind) = PostBlind(st, s, blind)
  BY DEF PostBlind, Hand!PostBlind, InvestChips, Hand!InvestChips, Min, Hand!Min
<1>4. \A S : Hand!Max(S) = Max(S)
  BY DEF Max, Hand!Max
<1> QED
  BY <1>2, <1>3, <1>4 DEF BlindsPosted, Hand!BlindsPosted

LEMMA SameNext ==
  ASSUME NEW chips, NEW dealer
  PROVE  /\ Hand!InitialGameStates(chips, dealer, Ranks) = InitialGameStates(chips, dealer, Ranks)
         /\ Hand!NextDealerSeat(chips, dealer) = NextDealerSeat(chips, dealer)
<1>1. Hand!Funded(chips) = Funded(chips)
  BY DEF Funded, Hand!Funded
<1>2. Hand!NextDealerSeat(chips, dealer) = NextDealerSeat(chips, dealer)
  BY <1>1, SameTotals, SameSeats DEF NextDealerSeat, Hand!NextDealerSeat
<1>3. Hand!InitialGameStates(chips, dealer, Ranks) = InitialGameStates(chips, dealer, Ranks)
  BY <1>1, SameSeats, SameDeal, SameNormalization DEF InitialGameStates, Hand!InitialGameStates
<1> QED BY <1>2, <1>3

-----------------------------------------------------------------------------
(* Tables *)

LEMMA DecisionTypes ==
  ASSUME NEW d \in Decisions
  PROVE  /\ d.type \in {"FOLD", "CHECK", "CALL", "BET", "RAISE", "ALL_IN"}
         /\ d.type \in {"BET", "RAISE"} => d.amount \in Nat
<1>1. ChipTotal(BuyIn) \in Nat
  <2>1. DOMAIN BuyIn = Seats /\ \A s \in Seats : BuyIn[s] \in Int
    BY BuyInAssumption
  <2>2. QED BY <2>1, SeatsAssumption, ChipTotalType
<1>2. \A n \in 1..ChipTotal(BuyIn) : n \in Nat
  BY <1>1
<1>3. \/ \E type \in {"FOLD", "CHECK", "CALL", "ALL_IN"} : d = Decision(type, 0)
      \/ \E type \in {"BET", "RAISE"}, n \in 1..ChipTotal(BuyIn) : d = Decision(type, n)
  BY DEF Decisions
<1>4. QED BY <1>2, <1>3 DEF Decision

\* A decision that is accepted leaves a round to normalise.
LEMMA MutatedRound ==
  ASSUME NEW st, GameInv(st), NEW s \in Seats, NEW d \in Decisions, Accepts(st, s, d)
  PROVE  RoundInv(Mutated(st, s, d))
<1>1. d.type \in {"FOLD", "CHECK", "CALL", "BET", "RAISE", "ALL_IN"}
      /\ (d.type \in {"BET", "RAISE"} => d.amount \in Nat)
  BY DecisionTypes
<1>2. MayAct(st, s)
  BY <1>1 DEF Accepts, MayCheck, MayCall, MayBet, MayRaise
<1>3. RoundInv(st)
  BY <1>2 DEF GameInv, MayAct
<1>4. CASE d.type = "FOLD"
  BY <1>3, <1>4, FoldedRound DEF Mutated
<1>5. CASE d.type = "CHECK"
  BY <1>3, <1>5, FoldedRound DEF Mutated
<1>6. CASE d.type = "CALL"
  <2>1. MayCall(st, s)
    BY <1>6 DEF Accepts
  <2>2. QED BY <1>3, <1>6, <2>1, CalledRound DEF Mutated
<1>7. CASE d.type = "BET"
  <2>1. MayBet(st, s, d.amount) /\ d.amount \in Nat
    BY <1>1, <1>7 DEF Accepts
  <2>2. QED BY <1>3, <1>7, <2>1, BetRound DEF Mutated
<1>8. CASE d.type = "RAISE"
  <2>1. MayRaise(st, s, d.amount) /\ d.amount \in Nat
    BY <1>1, <1>8 DEF Accepts
  <2>2. QED BY <1>3, <1>8, <2>1, RaisedRound DEF Mutated
<1>9. CASE d.type = "ALL_IN"
  BY <1>2, <1>3, <1>9, AllInRound DEF Mutated
<1>10. QED BY <1>1, <1>4, <1>5, <1>6, <1>7, <1>8, <1>9

LEMMA DecidedTable ==
  ASSUME NEW t \in GoodTables, NEW s \in Seats, NEW d \in Decisions,
         Accepts(t.game, s, d), NEW r \in AfterDecision(t, s, d)
  PROVE  /\ r \in GoodTables
         /\ r.handNo = t.handNo /\ r.acts = t.acts + 1
         /\ r.game \in NormalizeAfterAction(Mutated(t.game, s, d), s, Ranks)
         /\ r.game.status \in {"PLAYING", "HAND_FINISHED"}
<1>1. t \in Tables /\ GameInv(t.game)
  BY DEF GoodTables
<1>2. RoundInv(Mutated(t.game, s, d))
  BY <1>1, MutatedRound
<1>3. PICK st \in NormalizeAfterAction(Mutated(t.game, s, d), s, Ranks) :
        r = [t EXCEPT !.acts = @ + 1, !.game = st]
  BY DEF AfterDecision
<1>4. GameInv(st) /\ st.status \in {"PLAYING", "HAND_FINISHED"}
  BY <1>2, NormalizeGame, NormalizedStatus
<1>5. st \in GameStates
  BY <1>4 DEF GameInv
<1>6. /\ r \in Tables /\ r.game = st /\ r.handNo = t.handNo /\ r.acts = t.acts + 1
  <2>1. t \in [handNo : 1..MaxHands, acts : Nat, cards : [Seats -> Ranks], game : GameStates]
    BY <1>1 DEF Tables
  <2>2. t.acts + 1 \in Nat
    BY <2>1
  <2>3. r \in [handNo : 1..MaxHands, acts : Nat, cards : [Seats -> Ranks], game : GameStates]
    BY <1>3, <1>5, <2>1, <2>2
  <2>4. QED BY <1>3, <2>1, <2>3 DEF Tables
<1>7. QED BY <1>4, <1>6 DEF GoodTables

LEMMA DealtTable ==
  ASSUME NEW n \in 1..MaxHands, NEW chips \in [Seats -> Nat], CanStartHand(chips),
         NEW dealer \in Seats, NEW r \in FirstTables(n, chips, dealer)
  PROVE  /\ r \in GoodTables
         /\ r.handNo = n /\ r.acts = 0
         /\ r.game \in InitialGameStates(chips, dealer, Ranks)
         /\ r.game.status \in {"PLAYING", "HAND_FINISHED"}
<1>1. PICK cards \in [Seats -> Ranks], st \in InitialGameStates(chips, dealer, Ranks) :
        r = [handNo |-> n, acts |-> 0, cards |-> cards, game |-> st]
  BY DEF FirstTables
<1>2. GameInv(st) /\ st.status \in {"PLAYING", "HAND_FINISHED"}
  BY InitialGame
<1>3. st \in GameStates
  BY <1>2 DEF GameInv
<1>4. QED BY <1>1, <1>2, <1>3 DEF GoodTables, Tables

\* A seat's decision is a step of the rules.
LEMMA DecisionIsAct ==
  ASSUME GameInv(redis.game), NEW s \in Seats, NEW d \in Decisions, Accepts(redis.game, s, d),
         redis'.game \in NormalizeAfterAction(Mutated(redis.game, s, d), s, Ranks)
  PROVE  Hand!Act(s)
<1>0. d.type \in {"FOLD", "CHECK", "CALL", "BET", "RAISE", "ALL_IN"}
      /\ (d.type \in {"BET", "RAISE"} => d.amount \in Nat)
  BY DecisionTypes
<1>1. \A st : redis'.game \in NormalizeAfterAction(st, s, Ranks) => Hand!Becomes(st, s)
  BY SameNormalization DEF Hand!Becomes
<1>2. redis.game.chips[s] \in Nat /\ redis.game.investedThisStreet[s] \in Nat
  BY DEF GameInv, GameStates
<1>3. CASE d.type = "FOLD"
  <2>1. MayAct(redis.game, s) /\ Mutated(redis.game, s, d) = Folded(redis.game, s)
    BY <1>3 DEF Accepts, Mutated
  <2>2. Hand!Fold(s)
    BY <1>1, <2>1, SameActs, SameMutations DEF Hand!Fold
  <2>3. QED BY <2>2 DEF Hand!Act
<1>4. CASE d.type = "CHECK"
  <2>1. MayCheck(redis.game, s) /\ Mutated(redis.game, s, d) = Checked(redis.game, s)
    BY <1>4 DEF Accepts, Mutated
  <2>2. Hand!Check(s)
    BY <1>1, <2>1, SameActs, SameMutations DEF Hand!Check
  <2>3. QED BY <2>2 DEF Hand!Act
<1>5. CASE d.type = "CALL"
  <2>1. MayCall(redis.game, s) /\ Mutated(redis.game, s, d) = Called(redis.game, s)
    BY <1>5 DEF Accepts, Mutated
  <2>2. Hand!Call(s)
    BY <1>1, <2>1, SameActs, SameMutations DEF Hand!Call
  <2>3. QED BY <2>2 DEF Hand!Act
<1>6. CASE d.type = "BET"
  <2>1. MayBet(redis.game, s, d.amount)
        /\ Mutated(redis.game, s, d) = BetPlaced(redis.game, s, d.amount)
    BY <1>6 DEF Accepts, Mutated
  <2>2. Hand!Bet(s, d.amount)
    BY <1>1, <2>1, SameActs, SameMutations DEF Hand!Bet
  <2>3. d.amount \in 1..redis.game.chips[s]
    BY <1>0, <1>2, <1>6, <2>1 DEF MayBet
  <2>4. QED BY <2>2, <2>3 DEF Hand!Act
<1>7. CASE d.type = "RAISE"
  <2>1. MayRaise(redis.game, s, d.amount)
        /\ Mutated(redis.game, s, d) = RaisedTo(redis.game, s, d.amount)
    BY <1>7 DEF Accepts, Mutated
  <2>2. Hand!Raise(s, d.amount)
    BY <1>1, <2>1, SameActs, SameMutations DEF Hand!Raise
  <2>3. d.amount \in 1..(redis.game.investedThisStreet[s] + redis.game.chips[s])
    <3>1. redis.game.currentBet \in Nat
      BY DEF GameInv, GameStates
    <3>2. QED BY <1>0, <1>2, <1>7, <2>1, <3>1 DEF MayRaise
  <2>4. QED BY <2>2, <2>3 DEF Hand!Act
<1>8. CASE d.type = "ALL_IN"
  <2>1. MayAct(redis.game, s) /\ Mutated(redis.game, s, d) = WentAllIn(redis.game, s)
    BY <1>8 DEF Accepts, Mutated
  <2>2. Hand!AllIn(s)
    BY <1>1, <2>1, SameActs, SameMutations DEF Hand!AllIn
  <2>3. QED BY <2>2 DEF Hand!Act
<1>9. QED BY <1>0, <1>3, <1>4, <1>5, <1>6, <1>7, <1>8

-----------------------------------------------------------------------------
(* What the rows keep *)

LEMMA TableTypes ==
  ASSUME NEW t \in GoodTables
  PROVE  /\ t.handNo \in 1..MaxHands /\ t.handNo \in Nat /\ t.acts \in Nat /\ IsTable(t)
         /\ t # NoTable
         /\ t.game.chips \in [Seats -> Nat] /\ t.game.dealerSeat \in Seats
         /\ t.game.currentTurnSeat \in Seats \cup {NoSeat}
<1>1. MaxHands \in Nat
  BY BoundsAssumption
<1>2. t \in [handNo : 1..MaxHands, acts : Nat, cards : [Seats -> Ranks], game : GameStates]
  BY DEF GoodTables, Tables
<1>3. t.handNo \in 1..MaxHands /\ t.acts \in Nat /\ t.game \in GameStates
  BY <1>2
<1>4. t.handNo # 0 /\ t.handNo \in Nat
  BY <1>1, <1>3
<1>5. QED BY <1>3, <1>4 DEF IsTable, NoTable, GameStates

LEMMA RowTypes ==
  ASSUME NEW hs \in AllRows, NEW n \in 1..MaxHands
  PROVE  /\ hs[n] # NoHand <=> hs[n].status # "NONE"
         /\ hs[n] # NoHand => /\ hs[n] \in HandRows
                              /\ hs[n].status \in {"PLAYING", "FINISHED"}
                              /\ hs[n].actions \in Nat /\ hs[n].closings \in Nat
                              /\ hs[n].endChips \in [Seats -> Nat \cup {Unpaid}]
                              /\ hs[n].net \in [Seats -> Int]
<1>1. hs[n] \in HandRows \cup {NoHand}
  BY DEF AllRows
<1>2. NoHand.status = "NONE"
  BY DEF NoHand
<1>3. QED BY <1>1, <1>2 DEF HandRows

LEMMA KeptBooks ==
  ASSUME NEW hs \in AllRows, NEW hs2 \in AllRows, RowsKept(hs, hs2),
         NEW n \in 1..MaxHands, hs[n] # NoHand
  PROVE  /\ hs2[n] # NoHand
         /\ hs[n].status = "FINISHED" => hs2[n].status = "FINISHED"
         /\ \A s \in Seats : hs[n].endChips[s] # Unpaid => hs2[n].endChips[s] # Unpaid
         /\ Paid(hs, n) => Paid(hs2, n)
         /\ Booked(hs, n) => Booked(hs2, n)
BY DEF RowsKept, RowKept, Paid, Booked

LEMMA KeptRecord ==
  ASSUME NEW hs \in AllRows, NEW hs2 \in AllRows, RowsKept(hs, hs2),
         NEW t \in GoodTables, hs[t.handNo] # NoHand, NEW k \in Nat, Recorded(hs, t, k)
  PROVE  Recorded(hs2, t, k)
<1> DEFINE n == t.handNo
<1>1. n \in 1..MaxHands /\ t.acts \in Nat
  BY TableTypes
<1>2. CASE LaterHand(hs, n)
  <2>1. LaterHand(hs2, n)
    BY <1>2 DEF LaterHand, RowsKept, RowKept
  <2>2. QED BY <2>1 DEF Recorded
<1>3. CASE t.acts <= hs[n].actions + k
  <2>1. hs[n].actions \in Nat /\ (hs2[n] # NoHand => hs2[n].actions \in Nat)
    BY <1>1, RowTypes
  <2>2. hs2[n] # NoHand /\ (hs[n].actions <= hs2[n].actions \/ LaterHand(hs2, n))
    BY <1>1 DEF RowsKept, RowKept
  <2>3. t.acts <= hs2[n].actions + k \/ LaterHand(hs2, n)
    BY <1>1, <1>3, <2>1, <2>2
  <2>4. QED BY <2>3 DEF Recorded
<1>4. QED BY <1>2, <1>3 DEF Recorded

LEMMA KeptTable ==
  ASSUME NEW hs \in AllRows, NEW hs2 \in AllRows, RowsKept(hs, hs2),
         NEW rm, NEW rm2, rm # "READY" => rm2 # "READY",
         NEW t, TableIsWell(t, hs, rm)
  PROVE  TableIsWell(t, hs2, rm2)
<1>1. CASE t = NoTable
  BY <1>1 DEF TableIsWell, IsTable, NoTable
<1>2. CASE t \in GoodTables
  <2>1. t.handNo \in 1..MaxHands /\ IsTable(t) /\ 0 \in Nat
    BY <1>2, TableTypes
  <2>2. /\ hs[t.handNo] # NoHand
        /\ Recorded(hs, t, 0)
        /\ t.game.status = "HAND_FINISHED" => Booked(hs, t.handNo)
        /\ t.game.status = "ROOM_FINISHED" => rm # "READY"
    BY <2>1 DEF TableIsWell
  <2>3. hs2[t.handNo] # NoHand /\ (Booked(hs, t.handNo) => Booked(hs2, t.handNo))
    BY <2>1, <2>2, KeptBooks
  <2>4. Recorded(hs2, t, 0)
    BY <1>2, <2>1, <2>2, KeptRecord
  <2>5. QED BY <1>2, <2>2, <2>3, <2>4 DEF TableIsWell
<1>3. QED BY <1>1, <1>2 DEF TableIsWell

LEMMA KeptWriter ==
  ASSUME NEW hs \in AllRows, NEW hs2 \in AllRows, RowsKept(hs, hs2),
         NEW rm, NEW rm2, rm # "READY" => rm2 # "READY",
         NEW x, WriterIsWell(x, hs, rm)
  PROVE  WriterIsWell(x, hs2, rm2)
<1>1. CASE x.table \in GoodTables
  <2> DEFINE n == x.table.handNo
             k == IF x.pc = "actionRows" THEN 1 ELSE 0
  <2>1. n \in 1..MaxHands /\ k \in Nat
    BY <1>1, TableTypes
  <2>2. hs[n] # NoHand
    BY <1>1 DEF WriterIsWell
  <2>3. /\ hs2[n] # NoHand
        /\ hs[n].status = "FINISHED" => hs2[n].status = "FINISHED"
        /\ \A s \in Seats : hs[n].endChips[s] # Unpaid => hs2[n].endChips[s] # Unpaid
        /\ Paid(hs, n) => Paid(hs2, n)
        /\ Booked(hs, n) => Booked(hs2, n)
    BY <2>1, <2>2, KeptBooks
  <2>4. Recorded(hs, x.table, k) => Recorded(hs2, x.table, k)
    BY <1>1, <2>1, <2>2, KeptRecord
  <2>5. QED BY <2>3, <2>4, Zenon DEF WriterIsWell
<1>2. CASE x.table \notin GoodTables
  <2>1. /\ x.kind = "end" /\ x.pc \in {"roomFinished", "delete"}
    BY <1>2 DEF WriterIsWell
  <2>2. QED BY <1>2, <2>1 DEF WriterIsWell
<1>3. QED BY <1>1, <1>2

LEMMA KeptHandler ==
  ASSUME NEW hs \in AllRows, NEW hs2 \in AllRows, RowsKept(hs, hs2),
         NEW rm, NEW rm2, rm # "READY" => rm2 # "READY",
         NEW x, HandlerIsWell(x, hs, rm)
  PROVE  HandlerIsWell(x, hs2, rm2)
BY KeptWriter DEF HandlerIsWell

LEMMA RowsAreKept ==
  ASSUME NEW hs \in AllRows
  PROVE  RowsKept(hs, hs)
<1>1. \A n \in 1..MaxHands : hs[n] # NoHand => hs[n].actions \in Nat
  BY RowTypes
<1>2. QED BY <1>1 DEF RowsKept, RowKept

\* A row that is written over keeps what it says.
LEMMA RowWritten ==
  ASSUME NEW hs \in AllRows, NEW n \in 1..MaxHands, hs[n] # NoHand,
         NEW r \in HandRows, RowKept(hs[n], r), hs[n].actions <= r.actions
  PROVE  /\ [hs EXCEPT ![n] = r] \in AllRows
         /\ [hs EXCEPT ![n] = r][n] = r
         /\ RowsKept(hs, [hs EXCEPT ![n] = r])
<1> DEFINE hs2 == [hs EXCEPT ![n] = r]
<1>1. hs2 \in AllRows /\ hs2[n] = r /\ \A m \in 1..MaxHands \ {n} : hs2[m] = hs[m]
  BY DEF AllRows
<1>2. \A m \in 1..MaxHands : hs[m] # NoHand => hs[m].actions \in Nat
  BY RowTypes
<1> HIDE DEF hs2
<1>3. ASSUME NEW m \in 1..MaxHands, hs[m] # NoHand
      PROVE  RowKept(hs[m], hs2[m]) /\ hs[m].actions <= hs2[m].actions
  BY <1>1, <1>2, <1>3 DEF RowKept
<1>4. RowsKept(hs, hs2)
  BY <1>3 DEF RowsKept
<1>5. QED BY <1>1, <1>4 DEF hs2

-----------------------------------------------------------------------------
(* One handler's step *)

\* What is known of a handler from its program counter.
LEMMA AtWriting ==
  ASSUME NEW x, NEW hs, NEW rm, HandlerIsWell(x, hs, rm)
  PROVE  /\ x.pc \in Writing => WriterIsWell(x, hs, rm)
         /\ x.pc = "idle" => x = Idle
         /\ x.pc = "handNo" => /\ x.chips \in [Seats -> Nat] /\ CanStartHand(x.chips)
                               /\ x.dealer \in Seats
         /\ x.pc = "createHand" => /\ x.chips \in [Seats -> Nat] /\ CanStartHand(x.chips)
                                   /\ x.dealer \in Seats /\ x.handNo \in 1..MaxHands
         /\ x.pc = "botAct" => x.seat \in Seats /\ x.decision \in Decisions
<1>1. WriterIsWell(x, hs, rm) => x.pc \in Writing
  BY DEF WriterIsWell, Writers
<1>2. Idle.pc = "idle"
  BY DEF Idle
<1>3. QED BY <1>1, <1>2 DEF HandlerIsWell, Starters, Bots, Writing

LEMMA WriterFields ==
  ASSUME NEW x, NEW hs, NEW rm, WriterIsWell(x, hs, rm)
  PROVE  /\ x \in Writers
         /\ x.pc \in Writing /\ x.kind \in Kinds /\ x.left \in SUBSET Seats
         /\ x.pc \in Path[x.kind]
         /\ x.pc \notin {"roomFinished", "delete"} =>
              x.table \in GoodTables /\ hs[x.table.handNo] # NoHand
         /\ x.pc = "actionRows" => x.kind = "act"
         /\ x.pc \in {"handRow", "stackRows", "resultRows"} =>
              x.kind # "finish" /\ {"stackRows", "resultRows"} \subseteq Path[x.kind]
         /\ x.pc = "closingRows" => x.kind \in {"act", "deal"}
         /\ x.pc = "save" => x.kind \in {"act", "deal", "finish"}
         /\ x.pc \in {"roomPlaying", "playerRows"} => x.kind = "deal"
         /\ x.pc = "roomFinished" => x.kind \in {"finish", "end"}
         /\ x.pc = "delete" => x.kind = "end"
         /\ x.kind \in {"act", "deal", "finish"} =>
              x.table \in GoodTables /\ hs[x.table.handNo] # NoHand
<1>1. /\ x \in Writers /\ x.pc \in Path[x.kind]
      /\ x.kind # "end" \/ x.pc \notin {"roomFinished", "delete"} => x.table \in GoodTables
      /\ x.table \in GoodTables => hs[x.table.handNo] # NoHand
  BY DEF WriterIsWell
<1>2. x.pc \in Writing /\ x.kind \in Kinds /\ x.left \in SUBSET Seats
  BY <1>1 DEF Writers
<1>3. QED BY <1>1, <1>2 DEF Path, Kinds

\* A handler that goes on to another step keeps its table.
LEMMA Gone ==
  ASSUME NEW x \in Writers, NEW pc \in Writing
  PROVE  LET y == [x EXCEPT !.pc = pc]
         IN  /\ y \in Writers
             /\ y.pc = pc /\ y.kind = x.kind /\ y.table = x.table /\ y.left = x.left
BY DEF Writers

LEMMA GoneSeat ==
  ASSUME NEW x \in Writers, NEW left \in SUBSET Seats
  PROVE  LET y == [x EXCEPT !.left = left]
         IN  /\ y \in Writers
             /\ y.pc = x.pc /\ y.kind = x.kind /\ y.table = x.table /\ y.left = left
BY DEF Writers

\* Step h becomes x; the other handlers and the stored table are as well as before.
LEMMA Stepped ==
  ASSUME IInv, NEW h \in Slots, NEW x, slot' = [slot EXCEPT ![h] = x],
         hands' \in AllRows, RowsKept(hands, hands'), room # "READY" => room' # "READY",
         HandlerIsWell(x, hands', room')
  PROVE  DOMAIN slot' = Slots /\ HandlersAreWell'
<1>1. DOMAIN slot = Slots /\ hands \in AllRows
  BY DEF IInv, Types
<1>2. ASSUME NEW g \in Slots PROVE HandlerIsWell(slot'[g], hands', room')
  <2>1. CASE g = h
    BY <1>1, <2>1
  <2>2. CASE g # h
    <3>1. slot'[g] = slot[g] /\ HandlerIsWell(slot[g], hands, room)
      BY <1>1, <2>2 DEF IInv, HandlersAreWell
    <3>2. QED BY <1>1, <3>1, KeptHandler
  <2>3. QED BY <2>1, <2>2
<1>3. QED BY <1>1, <1>2 DEF HandlersAreWell

\* The same when the stored table is left alone.
LEMMA SteppedBeside ==
  ASSUME IInv, NEW h \in Slots, NEW x, slot' = [slot EXCEPT ![h] = x],
         hands' \in AllRows, RowsKept(hands, hands'), room # "READY" => room' # "READY",
         HandlerIsWell(x, hands', room'), redis' = redis
  PROVE  DOMAIN slot' = Slots /\ HandlersAreWell' /\ TableIsWell(redis', hands', room')
<1>1. hands \in AllRows /\ TableIsWell(redis, hands, room)
  BY DEF IInv, Types
<1>2. TableIsWell(redis', hands', room')
  BY <1>1, KeptTable
<1>3. QED BY <1>2, Stepped

LEMMA IdleIsWell ==
  ASSUME NEW hs, NEW rm PROVE HandlerIsWell(Idle, hs, rm)
BY DEF HandlerIsWell

\* The facts every writing step starts from.
LEMMA Writer ==
  ASSUME IInv, NEW h \in Slots, slot[h].pc \in Writing
  PROVE  /\ WriterIsWell(slot[h], hands, room)
         /\ slot[h] \in Writers /\ slot[h].left \in SUBSET Seats
         /\ slot[h].pc \notin {"roomFinished", "delete"} =>
              /\ slot[h].table \in GoodTables
              /\ slot[h].table.handNo \in 1..MaxHands
              /\ hands[slot[h].table.handNo] # NoHand
              /\ hands[slot[h].table.handNo] \in HandRows
         /\ hands \in AllRows
<1>1. HandlerIsWell(slot[h], hands, room) /\ hands \in AllRows
  BY DEF IInv, Types, HandlersAreWell
<1>2. WriterIsWell(slot[h], hands, room)
  BY <1>1, AtWriting
<1>3. QED BY <1>1, <1>2, WriterFields, TableTypes, RowTypes

LEMMA RowsWritten ==
  ASSUME hands \in AllRows, NEW n \in 1..MaxHands, hands[n] # NoHand,
         NEW r \in HandRows, RowKept(hands[n], r), hands[n].actions <= r.actions,
         hands' = [hands EXCEPT ![n] = r]
  PROVE  hands' \in AllRows /\ hands'[n] = r /\ RowsKept(hands, hands')
BY RowWritten

LEMMA ActionRowsWell ==
  ASSUME IInv, NEW h \in Slots, ActionRows(h)
  PROVE  IInv'
<1> DEFINE x == slot[h]
           t == x.table
           n == t.handNo
           r == [hands[n] EXCEPT !.actions = @ + 1]
           pc == IF t.game.status = "HAND_FINISHED" THEN "handRow" ELSE "save"
           y == [x EXCEPT !.pc = pc]
<1>1. /\ x.pc = "actionRows" /\ x.pc \in Writing
      /\ hands' = [hands EXCEPT ![n] = r]
      /\ slot' = [slot EXCEPT ![h] = y]
      /\ UNCHANGED <<redis, room, stacks, botCounts, faults, overlaps>>
      /\ timer' \in {timer, TRUE}
  BY DEF ActionRows, At, Goto, Becomes, Writing
<1>2. /\ WriterIsWell(x, hands, room) /\ x \in Writers
      /\ t \in GoodTables /\ n \in 1..MaxHands /\ hands[n] # NoHand /\ hands[n] \in HandRows
      /\ hands \in AllRows
  BY <1>1, Writer
<1>3. x.kind = "act" /\ Recorded(hands, t, 1) /\ t.game.status # "ROOM_FINISHED"
  BY <1>1, <1>2, WriterFields DEF WriterIsWell
<1>4. r \in HandRows /\ RowKept(hands[n], r) /\ hands[n].actions <= r.actions
      /\ r.actions = hands[n].actions + 1 /\ hands[n].actions \in Nat
  BY <1>2 DEF HandRows, RowKept, NoHand
<1> HIDE DEF r
<1>5. hands' \in AllRows /\ hands'[n] = r /\ RowsKept(hands, hands')
  BY <1>1, <1>2, <1>4, RowsWritten
<1>6. Recorded(hands', t, 0)
  <2>1. CASE LaterHand(hands, n)
    <3>1. LaterHand(hands', n)
      BY <1>5, <2>1 DEF LaterHand, RowsKept, RowKept
    <3>2. QED BY <3>1 DEF Recorded
  <2>2. CASE t.acts <= hands[n].actions + 1
    <3>1. t.acts \in Nat
      BY <1>2, TableTypes
    <3>2. t.acts <= hands'[n].actions + 0
      BY <1>4, <1>5, <2>2, <3>1
    <3>3. QED BY <3>2 DEF Recorded
  <2>3. QED BY <1>3, <2>1, <2>2 DEF Recorded
<1>7. /\ y \in Writers /\ y.pc = pc /\ y.kind = "act" /\ y.table = t
  <2>1. pc \in Writing
    BY DEF Writing
  <2> HIDE DEF pc
  <2>2. QED BY <1>2, <1>3, <2>1, Gone
<1> HIDE DEF y
<1>8. WriterIsWell(y, hands', room')
  BY <1>2, <1>3, <1>4, <1>5, <1>6, <1>7 DEF WriterIsWell, Path, HandRows, NoHand
<1>9. HandlerIsWell(y, hands', room')
  BY <1>8 DEF HandlerIsWell
<1>10. HandlersAreWell' /\ DOMAIN slot' = Slots /\ TableIsWell(redis', hands', room')
  BY <1>1, <1>5, <1>9, SteppedBeside
<1>11. QED BY <1>1, <1>5, <1>10 DEF IInv, Types

LEMMA HandRowWell ==
  ASSUME IInv, NEW h \in Slots, HandRow(h)
  PROVE  IInv'
<1> DEFINE x == slot[h]
           t == x.table
           n == t.handNo
           r == [hands[n] EXCEPT !.status = "FINISHED"]
           y == [x EXCEPT !.pc = "stackRows"]
<1>1. /\ x.pc = "handRow" /\ x.pc \in Writing
      /\ hands' = [hands EXCEPT ![n] = r]
      /\ slot' = [slot EXCEPT ![h] = y]
      /\ UNCHANGED <<redis, room, stacks, timer, botCounts, faults, overlaps>>
  BY DEF HandRow, At, Goto, Becomes, Writing
<1>2. /\ WriterIsWell(x, hands, room) /\ x \in Writers
      /\ t \in GoodTables /\ n \in 1..MaxHands /\ hands[n] # NoHand /\ hands[n] \in HandRows
      /\ hands \in AllRows
  BY <1>1, Writer
<1>3. r \in HandRows /\ RowKept(hands[n], r) /\ hands[n].actions <= r.actions
      /\ r.status = "FINISHED" /\ r # NoHand
  BY <1>2 DEF HandRows, RowKept, NoHand
<1> HIDE DEF r
<1>4. hands' \in AllRows /\ hands'[n] = r /\ RowsKept(hands, hands')
  BY <1>1, <1>2, <1>3, RowsWritten
<1>5. WriterIsWell(x, hands', room')
  BY <1>1, <1>2, <1>4, KeptWriter
<1>6. /\ y \in Writers /\ y.pc = "stackRows" /\ y.kind = x.kind /\ y.table = t
  BY <1>2, Gone DEF Writing
<1>7. "stackRows" \in Path[x.kind] /\ x.kind # "finish"
  BY <1>1, <1>2, WriterFields
<1> HIDE DEF y
<1>8. WriterIsWell(y, hands', room')
  BY <1>1, <1>3, <1>4, <1>5, <1>6, <1>7 DEF WriterIsWell
<1>9. HandlerIsWell(y, hands', room')
  BY <1>8 DEF HandlerIsWell
<1>10. HandlersAreWell' /\ DOMAIN slot' = Slots /\ TableIsWell(redis', hands', room')
  BY <1>1, <1>4, <1>9, SteppedBeside
<1>11. QED BY <1>1, <1>4, <1>10 DEF IInv, Types

\* StackRow and ResultRow go through the seats one by one.
LEMMA SeatDoneState ==
  ASSUME NEW h \in Slots, NEW s \in Seats, NEW pc \in Writing, slot[h] \in Writers,
         SeatDone(h, s, pc)
  PROVE  \E y \in Writers :
           /\ slot' = [slot EXCEPT ![h] = y]
           /\ y.kind = slot[h].kind /\ y.table = slot[h].table
           /\ \/ y.pc = slot[h].pc /\ y.left = slot[h].left \ {s}
              \/ y.pc = pc /\ y.left = Seats /\ slot[h].left \subseteq {s}
<1> DEFINE left == slot[h].left \ {s}
           y == IF left # {} THEN [slot[h] EXCEPT !.left = left]
                ELSE [slot[h] EXCEPT !.left = Seats, !.pc = pc]
<1>1. slot' = [slot EXCEPT ![h] = y]
  BY DEF SeatDone, Becomes
<1>2. slot[h].left \in SUBSET Seats /\ left \in SUBSET Seats /\ Seats \in SUBSET Seats
  BY DEF Writers
<1>4. CASE left # {}
  <2>1. y = [slot[h] EXCEPT !.left = left]
    BY <1>4
  <2> HIDE DEF y, left
  <2>2. y \in Writers /\ y.kind = slot[h].kind /\ y.table = slot[h].table
        /\ y.pc = slot[h].pc /\ y.left = left
    BY <1>2, <2>1, GoneSeat
  <2>3. QED BY <1>1, <2>2 DEF left
<1>5. CASE left = {}
  <2>1. y = [slot[h] EXCEPT !.left = Seats, !.pc = pc]
    BY <1>5
  <2>0. slot[h].left \subseteq {s}
    BY <1>5
  <2> HIDE DEF y, left
  <2>2. y \in Writers /\ y.kind = slot[h].kind /\ y.table = slot[h].table
        /\ y.pc = pc /\ y.left = Seats
    <3> DEFINE z == [slot[h] EXCEPT !.left = Seats]
    <3>1. z \in Writers /\ z.kind = slot[h].kind /\ z.table = slot[h].table /\ z.left = Seats
      BY <1>2, GoneSeat
    <3> HIDE DEF z
    <3>2. y = [z EXCEPT !.pc = pc]
      BY <2>1 DEF z
    <3>3. QED BY <3>1, <3>2, Gone
  <2>3. QED BY <1>1, <2>2, <2>0
<1>6. QED BY <1>4, <1>5

LEMMA StackRowWell ==
  ASSUME IInv, NEW h \in Slots, StackRow(h)
  PROVE  IInv'
<1> DEFINE x == slot[h]
           t == x.table
           n == t.handNo
<1>1. /\ x.pc = "stackRows" /\ x.pc \in Writing /\ "resultRows" \in Writing
      /\ UNCHANGED <<redis, room, hands, timer, botCounts, faults, overlaps>>
  BY DEF StackRow, At, Writing
<1>2. PICK s \in x.left : /\ stacks' = [stacks EXCEPT ![s] = t.game.chips[s]]
                          /\ SeatDone(h, s, "resultRows")
  BY DEF StackRow
<1>3. /\ WriterIsWell(x, hands, room) /\ x \in Writers /\ s \in Seats
      /\ t \in GoodTables /\ n \in 1..MaxHands /\ hands[n] # NoHand
      /\ hands \in AllRows /\ stacks \in [Seats -> Nat]
  BY <1>1, Writer DEF IInv, Types
<1>4. stacks' \in [Seats -> Nat]
  <2>1. t.game.chips[s] \in Nat
    BY <1>3, TableTypes
  <2>2. QED BY <1>2, <1>3, <2>1
<1>5. PICK y \in Writers :
        /\ slot' = [slot EXCEPT ![h] = y]
        /\ y.kind = x.kind /\ y.table = t
        /\ \/ y.pc = x.pc /\ y.left = x.left \ {s}
           \/ y.pc = "resultRows" /\ y.left = Seats /\ x.left \subseteq {s}
  BY <1>1, <1>2, <1>3, SeatDoneState
<1>6. x.kind # "finish" /\ {"stackRows", "resultRows"} \subseteq Path[x.kind]
  BY <1>1, <1>3, WriterFields
<1>7. WriterIsWell(y, hands, room)
  BY <1>1, <1>3, <1>5, <1>6 DEF WriterIsWell
<1>8. HandlerIsWell(y, hands', room') /\ RowsKept(hands, hands') /\ hands' = hands
  BY <1>1, <1>3, <1>7, RowsAreKept DEF HandlerIsWell
<1>9. HandlersAreWell' /\ DOMAIN slot' = Slots /\ TableIsWell(redis', hands', room')
  BY <1>1, <1>3, <1>5, <1>8, SteppedBeside
<1>10. QED BY <1>1, <1>4, <1>8, <1>9 DEF IInv, Types

LEMMA ResultRowWell ==
  ASSUME IInv, NEW h \in Slots, ResultRow(h)
  PROVE  IInv'
<1> DEFINE x == slot[h]
           t == x.table
           n == t.handNo
           next == IF x.kind = "end" THEN "roomFinished" ELSE "closingRows"
<1>1. /\ x.pc = "resultRows" /\ x.pc \in Writing /\ next \in Writing
      /\ UNCHANGED <<redis, room, stacks, timer, botCounts, faults, overlaps>>
  BY DEF ResultRow, At, Writing
<1>2. PICK s \in x.left :
        /\ hands' = [hands EXCEPT ![n].endChips[s] = t.game.chips[s],
                                  ![n].net[s] = NetResult(t)[s]]
        /\ SeatDone(h, s, next)
  BY DEF ResultRow
<1>3. /\ WriterIsWell(x, hands, room) /\ x \in Writers /\ s \in Seats
      /\ t \in GoodTables /\ n \in 1..MaxHands /\ hands[n] # NoHand /\ hands[n] \in HandRows
      /\ hands \in AllRows
  BY <1>1, Writer
<1>4. t.game.chips[s] \in Nat /\ NetResult(t)[s] \in Int /\ t.game.chips[s] # Unpaid
  <2>1. t.game.chips \in [Seats -> Nat] /\ t.game.startHandChips \in [Seats -> Nat]
    BY <1>3 DEF GoodTables, Tables, GameStates
  <2>2. QED BY <1>3, <2>1 DEF NetResult, Unpaid
<1> DEFINE ends == [hands[n].endChips EXCEPT ![s] = t.game.chips[s]]
           nets == [hands[n].net EXCEPT ![s] = NetResult(t)[s]]
           r == [hands[n] EXCEPT !.endChips = ends, !.net = nets]
<1>5. ends \in [Seats -> Nat \cup {Unpaid}] /\ nets \in [Seats -> Int]
      /\ ends[s] # Unpaid
      /\ \A u \in Seats : hands[n].endChips[u] # Unpaid => ends[u] # Unpaid
  BY <1>3, <1>4, RowTypes
<1>6. hands' = [hands EXCEPT ![n] = r]
  BY <1>2, <1>3 DEF AllRows, HandRows
<1> HIDE DEF ends, nets
<1>7. r \in HandRows /\ RowKept(hands[n], r) /\ hands[n].actions <= r.actions
      /\ r.endChips = ends /\ r.status = hands[n].status
  <2>1. /\ r \in HandRows /\ r.endChips = ends /\ r.status = hands[n].status
        /\ r.closings = hands[n].closings /\ r.actions = hands[n].actions
        /\ hands[n].actions \in Nat
    BY <1>3, <1>5 DEF HandRows
  <2>2. r # NoHand
    BY <2>1, <1>3 DEF HandRows, NoHand
  <2>3. QED BY <1>5, <2>1, <2>2 DEF RowKept
<1> HIDE DEF r
<1>8. hands' \in AllRows /\ hands'[n] = r /\ RowsKept(hands, hands')
  BY <1>3, <1>6, <1>7, RowsWritten
<1>9. WriterIsWell(x, hands', room')
  BY <1>1, <1>3, <1>8, KeptWriter
<1>10. PICK y \in Writers :
         /\ slot' = [slot EXCEPT ![h] = y]
         /\ y.kind = x.kind /\ y.table = t
         /\ \/ y.pc = x.pc /\ y.left = x.left \ {s}
            \/ y.pc = next /\ y.left = Seats /\ x.left \subseteq {s}
  BY <1>1, <1>2, <1>3, SeatDoneState
<1>11. /\ x.kind # "finish" /\ x.kind \in Kinds
       /\ {"stackRows", "resultRows"} \subseteq Path[x.kind] /\ next \in Path[x.kind]
  BY <1>1, <1>3, WriterFields DEF Path, Kinds
<1>12. \A u \in Seats \ x.left : hands'[n].endChips[u] # Unpaid
  BY <1>1, <1>9 DEF WriterIsWell
<1>13. hands'[n].endChips[s] # Unpaid /\ hands'[n].status = "FINISHED"
  BY <1>1, <1>5, <1>7, <1>8, <1>9 DEF WriterIsWell
<1>14. ASSUME y.pc = x.pc /\ y.left = x.left \ {s}
       PROVE  WriterIsWell(y, hands', room')
  BY <1>1, <1>9, <1>10, <1>11, <1>12, <1>13, <1>14 DEF WriterIsWell
<1>15. ASSUME y.pc = next /\ y.left = Seats /\ x.left \subseteq {s}
       PROVE  WriterIsWell(y, hands', room')
  <2>1. Paid(hands', n)
    BY <1>12, <1>13, <1>15 DEF Paid
  <2>2. WriterIsWell(y, hands', room')
    BY <1>1, <1>9, <1>10, <1>11, <1>13, <1>15, <2>1 DEF WriterIsWell
  <2>3. QED BY <2>2
<1>16. WriterIsWell(y, hands', room')
  BY <1>10, <1>14, <1>15
<1>17. HandlerIsWell(y, hands', room')
  BY <1>16 DEF HandlerIsWell
<1>18. HandlersAreWell' /\ DOMAIN slot' = Slots /\ TableIsWell(redis', hands', room')
  BY <1>1, <1>8, <1>10, <1>17, SteppedBeside
<1>19. QED BY <1>1, <1>8, <1>18 DEF IInv, Types

LEMMA ClosingRowsWell ==
  ASSUME IInv, NEW h \in Slots, ClosingRows(h)
  PROVE  IInv'
<1> DEFINE x == slot[h]
           t == x.table
           n == t.handNo
           r == [hands[n] EXCEPT !.closings = @ + 1]
           pc == IF x.kind = "act" THEN "save" ELSE "roomPlaying"
           y == [x EXCEPT !.pc = pc]
<1>1. /\ x.pc = "closingRows" /\ x.pc \in Writing /\ pc \in Writing
      /\ hands' = [hands EXCEPT ![n] = r]
      /\ slot' = [slot EXCEPT ![h] = y]
      /\ UNCHANGED <<redis, room, stacks, botCounts, faults, overlaps>>
      /\ timer' \in {timer, FALSE}
  BY DEF ClosingRows, At, Goto, Becomes, Writing
<1>2. /\ WriterIsWell(x, hands, room) /\ x \in Writers
      /\ t \in GoodTables /\ n \in 1..MaxHands /\ hands[n] # NoHand /\ hands[n] \in HandRows
      /\ hands \in AllRows
  BY <1>1, Writer
<1>3. x.kind \in {"act", "deal"} /\ pc \in Path[x.kind]
  BY <1>1, <1>2, WriterFields DEF Path
<1>4. r \in HandRows /\ RowKept(hands[n], r) /\ hands[n].actions <= r.actions
      /\ r.closings > 0 /\ r.endChips = hands[n].endChips /\ r.status = hands[n].status
  <2>1. /\ r \in HandRows /\ r.endChips = hands[n].endChips /\ r.status = hands[n].status
        /\ r.closings = hands[n].closings + 1 /\ r.actions = hands[n].actions
        /\ hands[n].actions \in Nat /\ hands[n].closings \in Nat
    BY <1>2 DEF HandRows
  <2>2. r # NoHand
    BY <2>1 DEF HandRows, NoHand
  <2>3. QED BY <2>1, <2>2 DEF RowKept
<1> HIDE DEF r
<1>5. hands' \in AllRows /\ hands'[n] = r /\ RowsKept(hands, hands')
  BY <1>1, <1>2, <1>4, RowsWritten
<1>6. WriterIsWell(x, hands', room')
  BY <1>1, <1>2, <1>5, KeptWriter
<1>7. Booked(hands', n)
  BY <1>1, <1>4, <1>5, <1>6 DEF WriterIsWell, Booked
<1>8. y \in Writers /\ y.pc = pc /\ y.kind = x.kind /\ y.table = t
  BY <1>1, <1>2, Gone
<1>9. pc # "actionRows" /\ pc \notin {"stackRows", "resultRows", "closingRows"}
  OBVIOUS
<1> HIDE DEF y, pc
<1>10. WriterIsWell(y, hands', room')
  BY <1>1, <1>3, <1>6, <1>7, <1>8, <1>9 DEF WriterIsWell
<1>11. HandlerIsWell(y, hands', room')
  BY <1>10 DEF HandlerIsWell
<1>12. HandlersAreWell' /\ DOMAIN slot' = Slots /\ TableIsWell(redis', hands', room')
  BY <1>1, <1>5, <1>11, SteppedBeside
<1>13. QED BY <1>1, <1>5, <1>12 DEF IInv, Types

LEMMA PlayerRowsWell ==
  ASSUME IInv, NEW h \in Slots, PlayerRows(h)
  PROVE  IInv'
<1> DEFINE x == slot[h]
           t == x.table
           n == t.handNo
           r == [hands[n] EXCEPT !.players = TRUE]
           pc == IF t.game.status = "HAND_FINISHED" THEN "handRow" ELSE "roomPlaying"
           y == [x EXCEPT !.pc = pc]
<1>1. /\ x.pc = "playerRows" /\ x.pc \in Writing /\ pc \in Writing
      /\ hands' = [hands EXCEPT ![n] = r]
      /\ slot' = [slot EXCEPT ![h] = y]
      /\ UNCHANGED <<redis, room, stacks, timer, botCounts, faults, overlaps>>
  BY DEF PlayerRows, At, Goto, Becomes, Writing
<1>2. /\ WriterIsWell(x, hands, room) /\ x \in Writers
      /\ t \in GoodTables /\ n \in 1..MaxHands /\ hands[n] # NoHand /\ hands[n] \in HandRows
      /\ hands \in AllRows
  BY <1>1, Writer
<1>3. x.kind = "deal" /\ pc \in Path[x.kind]
  BY <1>1, <1>2, WriterFields DEF Path
<1>4. r \in HandRows /\ RowKept(hands[n], r) /\ hands[n].actions <= r.actions
  <2>1. /\ r \in HandRows /\ r.endChips = hands[n].endChips /\ r.status = hands[n].status
        /\ r.closings = hands[n].closings /\ r.actions = hands[n].actions
        /\ hands[n].actions \in Nat
    BY <1>2 DEF HandRows
  <2>2. r # NoHand
    BY <2>1 DEF HandRows, NoHand
  <2>3. QED BY <2>1, <2>2 DEF RowKept
<1> HIDE DEF r
<1>5. hands' \in AllRows /\ hands'[n] = r /\ RowsKept(hands, hands')
  BY <1>1, <1>2, <1>4, RowsWritten
<1>6. WriterIsWell(x, hands', room')
  BY <1>1, <1>2, <1>5, KeptWriter
<1>7. y \in Writers /\ y.pc = pc /\ y.kind = x.kind /\ y.table = t
  BY <1>1, <1>2, Gone
<1>8. /\ pc \in {"handRow", "roomPlaying"}
      /\ pc = "roomPlaying" => t.game.status # "HAND_FINISHED"
  OBVIOUS
<1> HIDE DEF y, pc
<1>9. WriterIsWell(y, hands', room')
  BY <1>1, <1>3, <1>6, <1>7, <1>8 DEF WriterIsWell
<1>10. HandlerIsWell(y, hands', room')
  BY <1>9 DEF HandlerIsWell
<1>11. HandlersAreWell' /\ DOMAIN slot' = Slots /\ TableIsWell(redis', hands', room')
  BY <1>1, <1>5, <1>10, SteppedBeside
<1>12. QED BY <1>1, <1>5, <1>11 DEF IInv, Types

LEMMA RoomPlayingWell ==
  ASSUME IInv, NEW h \in Slots, RoomPlaying(h)
  PROVE  IInv'
<1> DEFINE x == slot[h]
           y == [x EXCEPT !.pc = "save"]
<1>1. /\ x.pc = "roomPlaying" /\ x.pc \in Writing /\ "save" \in Writing
      /\ room' = "PLAYING"
      /\ slot' = [slot EXCEPT ![h] = y]
      /\ UNCHANGED <<redis, hands, stacks, timer, botCounts, faults, overlaps>>
  BY DEF RoomPlaying, At, Goto, Becomes, Writing
<1>2. WriterIsWell(x, hands, room) /\ x \in Writers /\ hands \in AllRows
  BY <1>1, Writer
<1>3. x.kind = "deal" /\ "save" \in Path[x.kind]
  BY <1>1, <1>2, WriterFields DEF Path
<1>4. RowsKept(hands, hands') /\ hands' = hands
  BY <1>1, <1>2, RowsAreKept
<1>5. WriterIsWell(x, hands', room')
  BY <1>1, <1>2, <1>4, KeptWriter
<1>6. y \in Writers /\ y.pc = "save" /\ y.kind = x.kind /\ y.table = x.table
  BY <1>1, <1>2, Gone
<1> HIDE DEF y
<1>7. WriterIsWell(y, hands', room')
  BY <1>1, <1>3, <1>5, <1>6 DEF WriterIsWell
<1>8. HandlerIsWell(y, hands', room')
  BY <1>7 DEF HandlerIsWell
<1>9. HandlersAreWell' /\ DOMAIN slot' = Slots /\ TableIsWell(redis', hands', room')
  BY <1>1, <1>2, <1>4, <1>8, SteppedBeside
<1>10. QED BY <1>1, <1>2, <1>4, <1>9 DEF IInv, Types

LEMMA RoomFinishedWell ==
  ASSUME IInv, NEW h \in Slots, RoomFinished(h)
  PROVE  IInv'
<1> DEFINE x == slot[h]
           pc == IF x.kind = "end" THEN "delete" ELSE "save"
           y == [x EXCEPT !.pc = pc]
<1>1. /\ x.pc = "roomFinished" /\ x.pc \in Writing /\ pc \in Writing
      /\ room' = "FINISHED"
      /\ slot' = [slot EXCEPT ![h] = y]
      /\ timer' \in {timer, FALSE}
      /\ UNCHANGED <<redis, hands, stacks, botCounts, faults, overlaps>>
  BY DEF RoomFinished, At, Goto, Becomes, Writing
<1>2. WriterIsWell(x, hands, room) /\ x \in Writers /\ hands \in AllRows
  BY <1>1, Writer
<1>3. /\ x.kind \in {"finish", "end"} /\ pc \in Path[x.kind]
      /\ x.kind = "end" <=> pc = "delete"
      /\ pc \in {"save", "delete"}
  BY <1>1, <1>2, WriterFields DEF Path
<1>4. RowsKept(hands, hands') /\ hands' = hands
  BY <1>1, <1>2, RowsAreKept
<1>5. WriterIsWell(x, hands', room')
  BY <1>1, <1>2, <1>4, KeptWriter
<1>6. y \in Writers /\ y.pc = pc /\ y.kind = x.kind /\ y.table = x.table
  BY <1>1, <1>2, Gone
<1> HIDE DEF y, pc
<1>7. WriterIsWell(y, hands', room')
  BY <1>1, <1>3, <1>5, <1>6 DEF WriterIsWell
<1>8. HandlerIsWell(y, hands', room')
  BY <1>7 DEF HandlerIsWell
<1>9. HandlersAreWell' /\ DOMAIN slot' = Slots /\ TableIsWell(redis', hands', room')
  BY <1>1, <1>2, <1>4, <1>8, SteppedBeside
<1>10. QED BY <1>1, <1>2, <1>4, <1>9 DEF IInv, Types

LEMMA DeleteTableWell ==
  ASSUME IInv, NEW h \in Slots, DeleteTable(h)
  PROVE  IInv'
<1>1. /\ slot' = [slot EXCEPT ![h] = Idle]
      /\ redis' = NoTable
      /\ UNCHANGED <<rows, timer, botCounts, faults, overlaps>>
  BY DEF DeleteTable, Becomes
<1>2. hands \in AllRows /\ hands' = hands /\ room' = room /\ RowsKept(hands, hands')
  BY <1>1, RowsAreKept DEF IInv, Types, rows
<1>3. HandlersAreWell' /\ DOMAIN slot' = Slots
  BY <1>1, <1>2, IdleIsWell, Stepped
<1>4. TableIsWell(redis', hands', room')
  BY <1>1 DEF TableIsWell, IsTable, NoTable
<1>5. QED BY <1>1, <1>2, <1>3, <1>4 DEF IInv, Types, rows

LEMMA SaveWell ==
  ASSUME IInv, NEW h \in Slots, Save(h)
  PROVE  IInv'
<1> DEFINE x == slot[h]
           t == x.table
           n == t.handNo
<1>1. /\ x.pc = "save" /\ x.pc \in Writing
      /\ redis' = t
      /\ slot' = [slot EXCEPT ![h] = Idle]
      /\ Forgets(n)
      /\ UNCHANGED <<room, stacks, faults, overlaps>>
  BY DEF Save, At, Becomes, Writing
<1>2. /\ WriterIsWell(x, hands, room) /\ x \in Writers
      /\ t \in GoodTables /\ n \in 1..MaxHands /\ hands[n] # NoHand /\ hands[n] \in HandRows
      /\ hands \in AllRows /\ botCounts \in [1..MaxHands -> Nat] /\ timer \in BOOLEAN
  BY <1>1, Writer DEF IInv, Types
<1>3. x.kind \in {"act", "deal", "finish"}
  BY <1>1, <1>2, WriterFields
<1>4. timer' \in BOOLEAN
  BY <1>2, <1>3 DEF Save
<1>5. botCounts' \in [1..MaxHands -> Nat]
  BY <1>1, <1>2 DEF Forgets
<1>6. /\ hands' \in AllRows
      /\ \A m \in 1..MaxHands :
           hands'[m] = IF m < n /\ hands[m] # NoHand
                       THEN [hands[m] EXCEPT !.actions = 0] ELSE hands[m]
  <2>1. \A m \in 1..MaxHands : hands[m] # NoHand => [hands[m] EXCEPT !.actions = 0] \in HandRows
    BY <1>2, RowTypes DEF HandRows
  <2>2. QED BY <1>1, <1>2, <2>1 DEF Forgets, AllRows
<1>7. hands'[n] = hands[n]
  <2>1. ~(n < n)
    BY <1>2, TableTypes
  <2>2. QED BY <1>2, <1>6, <2>1
<1>8. RowsKept(hands, hands')
  <2> SUFFICES ASSUME NEW m \in 1..MaxHands, hands[m] # NoHand
               PROVE  /\ RowKept(hands[m], hands'[m])
                      /\ hands[m].actions <= hands'[m].actions \/ LaterHand(hands', m)
    BY DEF RowsKept
  <2>1. hands[m] \in HandRows /\ hands[m].actions \in Nat
    BY <1>2, RowTypes
  <2>2. CASE m < n
    <3>1. hands'[m] = [hands[m] EXCEPT !.actions = 0]
      BY <1>6, <2>2
    <3>2. RowKept(hands[m], hands'[m])
      BY <2>1, <3>1 DEF HandRows, RowKept, NoHand
    <3>3. LaterHand(hands', m)
      BY <1>2, <1>7, <2>2 DEF LaterHand
    <3>4. QED BY <3>2, <3>3
  <2>3. CASE ~(m < n)
    <3>1. hands'[m] = hands[m]
      BY <1>6, <2>3
    <3>2. QED BY <2>1, <3>1 DEF RowKept
  <2>4. QED BY <2>2, <2>3
<1>9. HandlersAreWell' /\ DOMAIN slot' = Slots
  BY <1>1, <1>6, <1>8, IdleIsWell, Stepped
<1>10. TableIsWell(redis', hands', room')
  <2>1. WriterIsWell(x, hands', room')
    BY <1>1, <1>2, <1>6, <1>8, KeptWriter
  <2>2. Recorded(hands', t, 0)
    BY <1>1, <1>3, <2>1 DEF WriterIsWell
  <2>3. t.game.status = "HAND_FINISHED" => Booked(hands', n)
    BY <1>1, <2>1 DEF WriterIsWell
  <2>4. t.game.status = "ROOM_FINISHED" => room' # "READY"
    BY <1>1, <1>3, <2>1 DEF WriterIsWell
  <2>5. QED BY <1>1, <1>2, <1>7, <2>2, <2>3, <2>4 DEF TableIsWell
<1>11. QED BY <1>1, <1>4, <1>5, <1>6, <1>9, <1>10 DEF IInv, Types

-----------------------------------------------------------------------------
(* Handlers that begin, and what fails *)

\* A step that writes nothing but the handler's own state.
LEMMA SlotStep ==
  ASSUME IInv, NEW h \in Slots, NEW x, slot' = [slot EXCEPT ![h] = x],
         HandlerIsWell(x, hands, room), UNCHANGED <<redis, room, hands, stacks>>,
         timer' \in BOOLEAN, botCounts' \in [1..MaxHands -> Nat],
         faults' \in Nat, overlaps' \in Nat, faults' + overlaps' <= MaxTrouble
  PROVE  IInv'
<1>1. hands \in AllRows /\ RowsKept(hands, hands') /\ hands' \in AllRows
  BY RowsAreKept DEF IInv, Types
<1>2. HandlerIsWell(x, hands', room') /\ (room # "READY" => room' # "READY") /\ redis' = redis
  OBVIOUS
<1>3. HandlersAreWell' /\ DOMAIN slot' = Slots /\ TableIsWell(redis', hands', room')
  BY <1>1, <1>2, SteppedBeside
<1>4. QED BY <1>1, <1>3 DEF IInv, Types

LEMMA BeginsIdle ==
  ASSUME IInv, NEW h \in Slots, Begins(h), faults' = faults
  PROVE  /\ faults' \in Nat /\ overlaps' \in Nat /\ faults' + overlaps' <= MaxTrouble
         /\ slot[h] = Idle
         /\ overlaps' = 0 => overlaps = 0 /\ \A g \in Slots : g # h => At(g, "idle")
<1>1. faults \in Nat /\ overlaps \in Nat /\ HandlerIsWell(slot[h], hands, room)
  BY DEF IInv, Types, HandlersAreWell
<1>2. slot[h] = Idle
  BY <1>1, AtWriting DEF Begins, At
<1>3. overlaps' = overlaps + (IF \E g \in Slots \ {h} : ~At(g, "idle") THEN 1 ELSE 0)
      /\ faults + overlaps' <= MaxTrouble
  BY DEF Begins
<1>4. CASE \E g \in Slots \ {h} : ~At(g, "idle")
  BY <1>1, <1>2, <1>3, <1>4
<1>5. CASE ~ \E g \in Slots \ {h} : ~At(g, "idle")
  BY <1>1, <1>2, <1>3, <1>5
<1>6. QED BY <1>4, <1>5

\* A decision applied to the stored table.
LEMMA AppliedWell ==
  ASSUME IInv, NEW s \in Seats, NEW d \in Decisions, IsTable(redis),
         Accepts(redis.game, s, d), NEW t \in AfterDecision(redis, s, d)
  PROVE  HandlerIsWell(Computed("act", t, "actionRows"), hands, room)
<1> DEFINE y == Computed("act", t, "actionRows")
<1>1. redis \in GoodTables /\ hands[redis.handNo] # NoHand /\ Recorded(hands, redis, 0)
      /\ hands \in AllRows
  BY DEF IInv, Types, TableIsWell, IsTable, NoTable
<1>2. /\ t \in GoodTables /\ t.handNo = redis.handNo /\ t.acts = redis.acts + 1
      /\ t.game.status # "ROOM_FINISHED"
  BY <1>1, DecidedTable
<1>3. Recorded(hands, t, 1)
  <2>1. redis.acts \in Nat /\ hands[redis.handNo].actions \in Nat
    BY <1>1, TableTypes, RowTypes
  <2>2. QED BY <1>1, <1>2, <2>1 DEF Recorded
<1>4. /\ y \in Writers /\ y.pc = "actionRows" /\ y.kind = "act" /\ y.table = t
  BY <1>2 DEF Computed, Writers, Writing, Kinds
<1> HIDE DEF y
<1>5. "actionRows" \in Path["act"]
  BY DEF Path
<1>6. WriterIsWell(y, hands, room)
  BY <1>1, <1>2, <1>3, <1>4, <1>5 DEF WriterIsWell
<1>7. QED BY <1>6 DEF HandlerIsWell, y

LEMMA ReadAndApplyWell ==
  ASSUME IInv, NEW h \in Slots, NEW s \in Seats, NEW d \in Decisions, ReadAndApply(h, s, d)
  PROVE  \E x : slot' = [slot EXCEPT ![h] = x] /\ HandlerIsWell(x, hands, room)
<1>1. PICK t \in AfterDecision(redis, s, d) : Becomes(h, Computed("act", t, "actionRows"))
  BY DEF ReadAndApply
<1>2. HandlerIsWell(Computed("act", t, "actionRows"), hands, room)
  BY AppliedWell DEF ReadAndApply
<1>3. QED BY <1>1, <1>2 DEF Becomes

LEMMA PlayerActionWell ==
  ASSUME IInv, NEW h \in Slots, PlayerAction(h)
  PROVE  IInv'
<1>1. PICK s \in Seats \ BotSeats, d \in Decisions : ReadAndApply(h, s, d)
  BY DEF PlayerAction
<1>2. UNCHANGED <<redis, room, hands, stacks, timer, botCounts, faults>> /\ Begins(h)
  BY DEF PlayerAction, rows
<1>3. PICK x : slot' = [slot EXCEPT ![h] = x] /\ HandlerIsWell(x, hands, room)
  BY <1>1, ReadAndApplyWell
<1>4. faults' \in Nat /\ overlaps' \in Nat /\ faults' + overlaps' <= MaxTrouble
  BY <1>2, BeginsIdle
<1>5. timer' \in BOOLEAN /\ botCounts' \in [1..MaxHands -> Nat]
  BY <1>2 DEF IInv, Types
<1>6. QED BY <1>2, <1>3, <1>4, <1>5, SlotStep

LEMMA StartFirstHandWell ==
  ASSUME IInv, NEW h \in Slots, StartFirstHand(h)
  PROVE  IInv'
<1> DEFINE x == [pc |-> "handNo", chips |-> stacks, dealer |-> Min(Seats)]
<1>1. /\ slot' = [slot EXCEPT ![h] = x] /\ Begins(h)
      /\ \A s \in Seats : stacks[s] > 0
      /\ UNCHANGED <<redis, room, hands, stacks, timer, botCounts, faults>>
  BY DEF StartFirstHand, Becomes, rows
<1>2. stacks \in [Seats -> Nat] /\ CanStartHand(stacks)
  <2>1. Funded(stacks) = Seats
    BY <1>1 DEF Funded
  <2>2. QED BY <2>1, PlayersAssumption DEF IInv, Types, CanStartHand
<1>3. Min(Seats) \in Seats
  <2>1. Seats # {}
    BY PlayersAssumption, FS_EmptySet
  <2>2. QED BY <2>1, SeatsAssumption, MinOfNats
<1>4. HandlerIsWell(x, hands, room)
  BY <1>2, <1>3 DEF HandlerIsWell, Starters
<1>5. faults' \in Nat /\ overlaps' \in Nat /\ faults' + overlaps' <= MaxTrouble
  BY <1>1, BeginsIdle
<1>6. timer' \in BOOLEAN /\ botCounts' \in [1..MaxHands -> Nat]
  BY <1>1 DEF IInv, Types
<1> HIDE DEF x
<1>7. QED BY <1>1, <1>4, <1>5, <1>6, SlotStep

LEMMA LatestHandType ==
  ASSUME hands \in AllRows
  PROVE  /\ LatestHand \in Nat
         /\ \A n \in 1..MaxHands : hands[n] # NoHand => n <= LatestHand
<1> DEFINE T == {0} \cup { n \in 1..MaxHands : hands[n].status # "NONE" }
<1>1. MaxHands \in Nat
  BY BoundsAssumption
<1>2. T \in SUBSET Nat /\ T # {}
  BY <1>1
<1>3. IsFiniteSet(T)
  <2>1. IsFiniteSet(0..MaxHands)
    BY <1>1, FS_Interval, 0 \in Int
  <2>2. T \in SUBSET (0..MaxHands)
    BY <1>1
  <2> HIDE DEF T
  <2>3. QED BY <2>1, <2>2, FS_Subset
<1>4. Max(T) \in T /\ \A k \in T : k <= Max(T)
  <2> HIDE DEF T
  <2> QED BY <1>2, <1>3, MaxOfNats
<1>5. \A n \in 1..MaxHands : hands[n] # NoHand => n \in T
  BY RowTypes
<1>6. LatestHand = Max(T)
  BY DEF LatestHand
<1> HIDE DEF T
<1>7. QED BY <1>2, <1>4, <1>5, <1>6

LEMMA NextHandNoWell ==
  ASSUME IInv, NEW h \in Slots, NextHandNo(h)
  PROVE  IInv'
<1> DEFINE x == [pc |-> "createHand", handNo |-> LatestHand + 1,
                 chips |-> slot[h].chips, dealer |-> slot[h].dealer]
<1>1. /\ slot' = [slot EXCEPT ![h] = x] /\ slot[h].pc = "handNo" /\ LatestHand < MaxHands
      /\ UNCHANGED <<redis, room, hands, stacks, timer, botCounts, faults, overlaps>>
  BY DEF NextHandNo, Becomes, At, rows
<1>2. HandlerIsWell(slot[h], hands, room) /\ hands \in AllRows
  BY DEF IInv, Types, HandlersAreWell
<1>3. /\ slot[h].chips \in [Seats -> Nat] /\ CanStartHand(slot[h].chips)
      /\ slot[h].dealer \in Seats
  BY <1>1, <1>2, AtWriting
<1>4. LatestHand + 1 \in 1..MaxHands
  <2>1. LatestHand \in Nat /\ MaxHands \in Nat
    BY <1>2, LatestHandType, BoundsAssumption
  <2>2. QED BY <1>1, <2>1
<1>5. HandlerIsWell(x, hands, room)
  BY <1>3, <1>4 DEF HandlerIsWell, Starters
<1> HIDE DEF x
<1>6. QED BY <1>1, <1>5, SlotStep DEF IInv, Types

\* The room is over: only the status and the turn of the table change.
OverTable(t) == [t EXCEPT !.game.status = "ROOM_FINISHED", !.game.currentTurnSeat = NoSeat]

LEMMA OverTableIsGood ==
  ASSUME NEW t \in GoodTables
  PROVE  /\ OverTable(t) \in GoodTables
         /\ OverTable(t).handNo = t.handNo /\ OverTable(t).acts = t.acts
         /\ OverTable(t).game = [t.game EXCEPT !.status = "ROOM_FINISHED",
                                               !.currentTurnSeat = NoSeat]
         /\ OverTable(t).game.status = "ROOM_FINISHED"
<1> DEFINE st == t.game
           g == [st EXCEPT !.status = "ROOM_FINISHED", !.currentTurnSeat = NoSeat]
           o == OverTable(t)
<1>1. t \in [handNo : 1..MaxHands, acts : Nat, cards : [Seats -> Ranks], game : GameStates]
      /\ GameInv(st)
  BY DEF GoodTables, Tables
<1>2. st \in GameStates
  BY <1>1
<1>3. /\ g \in GameStates /\ g.status = "ROOM_FINISHED"
      /\ g.chips = st.chips /\ g.investedThisHand = st.investedThisHand
      /\ g.startHandChips = st.startHandChips /\ g.won = st.won
  BY <1>2 DEF GameStates, GameStatuses
<1>4. GameInv(g)
  <2> HIDE DEF g
  <2>1. QED BY <1>1, <1>3 DEF GameInv
<1>5. o = [t EXCEPT !.game = g]
  BY <1>1, <1>2 DEF OverTable, GameStates
<1> HIDE DEF o, g
<1>6. o \in Tables /\ o.game = g /\ o.handNo = t.handNo /\ o.acts = t.acts
  BY <1>1, <1>3, <1>5 DEF Tables
<1>7. QED BY <1>3, <1>4, <1>6 DEF GoodTables, o, g

LEMMA NextHandWell ==
  ASSUME IInv, NEW h \in Slots, NextHand(h)
  PROVE  IInv'
<1> DEFINE dealer == NextDealerSeat(redis.game.chips, redis.game.dealerSeat)
           over == Computed("finish", OverTable(redis), "roomFinished")
           next == [pc |-> "createHand", handNo |-> redis.handNo + 1,
                    chips |-> redis.game.chips, dealer |-> dealer]
           x == IF dealer = NoSeat THEN over ELSE next
<1>1. /\ slot' = [slot EXCEPT ![h] = x] /\ Begins(h) /\ IsTable(redis)
      /\ redis.handNo < MaxHands
      /\ UNCHANGED <<redis, room, hands, stacks, timer, botCounts, faults>>
  BY DEF NextHand, Becomes, rows, OverTable
<1>2. redis \in GoodTables /\ hands[redis.handNo] # NoHand /\ Recorded(hands, redis, 0)
      /\ hands \in AllRows
  BY <1>1 DEF IInv, Types, TableIsWell, IsTable, NoTable
<1>3. dealer # NoSeat => HandlerIsWell(next, hands, room)
  <2> SUFFICES ASSUME dealer # NoSeat PROVE HandlerIsWell(next, hands, room)
    OBVIOUS
  <2>1. /\ redis.game.chips \in [Seats -> Nat] /\ redis.game.dealerSeat \in Seats
        /\ redis.handNo \in Nat
    BY <1>2, TableTypes
  <2>2. CanStartHand(redis.game.chips) /\ dealer \in Seats
    BY <2>1, NextDealer
  <2>3. redis.handNo + 1 \in 1..MaxHands
    BY <1>1, <2>1, BoundsAssumption
  <2> HIDE DEF dealer
  <2>4. QED BY <2>1, <2>2, <2>3 DEF HandlerIsWell, Starters
<1>4. HandlerIsWell(over, hands, room)
  <2> DEFINE o == OverTable(redis)
  <2>1. /\ o \in GoodTables /\ o.handNo = redis.handNo /\ o.acts = redis.acts
        /\ o.game.status = "ROOM_FINISHED"
    BY <1>2, OverTableIsGood
  <2> HIDE DEF o
  <2>2. /\ over \in Writers /\ over.pc = "roomFinished" /\ over.kind = "finish"
        /\ over.table = o
    BY <2>1 DEF Computed, Writers, Writing, Kinds, o
  <2> HIDE DEF over
  <2>3. Recorded(hands, o, 0) /\ "roomFinished" \in Path["finish"]
    BY <1>2, <2>1 DEF Recorded, Path
  <2>4. WriterIsWell(over, hands, room)
    BY <1>2, <2>1, <2>2, <2>3 DEF WriterIsWell
  <2>5. QED BY <2>4 DEF HandlerIsWell
<1>5. faults' \in Nat /\ overlaps' \in Nat /\ faults' + overlaps' <= MaxTrouble
  BY <1>1, BeginsIdle
<1>6. timer' \in BOOLEAN /\ botCounts' \in [1..MaxHands -> Nat]
  BY <1>1 DEF IInv, Types
<1>7. HandlerIsWell(x, hands, room)
  <2> HIDE DEF dealer, over, next
  <2> QED BY <1>3, <1>4
<1> HIDE DEF x
<1>8. QED BY <1>1, <1>5, <1>6, <1>7, SlotStep

LEMMA CreateHandWell ==
  ASSUME IInv, NEW h \in Slots, CreateHand(h)
  PROVE  IInv'
<1> DEFINE n == slot[h].handNo
<1>1. /\ slot[h].pc = "createHand"
      /\ UNCHANGED <<redis, room, stacks, timer, botCounts, faults, overlaps>>
  BY DEF CreateHand, At
<1>2. HandlerIsWell(slot[h], hands, room) /\ hands \in AllRows
  BY DEF IInv, Types, HandlersAreWell
<1>3. /\ slot[h].chips \in [Seats -> Nat] /\ CanStartHand(slot[h].chips)
      /\ slot[h].dealer \in Seats /\ n \in 1..MaxHands
  BY <1>1, <1>2, AtWriting
<1>4. CASE hands[n].status # "NONE"
  <2>1. slot' = [slot EXCEPT ![h] = Idle] /\ hands' = hands
    BY <1>4 DEF CreateHand, Becomes
  <2>2. QED BY <1>1, <2>1, IdleIsWell, SlotStep DEF IInv, Types
<1>5. CASE hands[n].status = "NONE"
  <2> DEFINE r == [status |-> "PLAYING", players |-> FALSE, actions |-> 0, closings |-> 0,
                   endChips |-> [ s \in Seats |-> Unpaid ], net |-> [ s \in Seats |-> 0 ]]
  <2>1. hands' = [hands EXCEPT ![n] = r]
    BY <1>5 DEF CreateHand
  <2>2. PICK t \in FirstTables(n, slot[h].chips, slot[h].dealer) :
          slot' = [slot EXCEPT ![h] = Computed("deal", t, "playerRows")]
    BY <1>5 DEF CreateHand, Becomes
  <2>3. r \in HandRows /\ r # NoHand /\ r.actions = 0
    BY DEF HandRows, NoHand
  <2> HIDE DEF r
  <2>4. /\ hands' \in AllRows /\ hands'[n] = r
        /\ \A m \in 1..MaxHands \ {n} : hands'[m] = hands[m]
    BY <1>2, <1>3, <2>1, <2>3 DEF AllRows
  <2>5. RowsKept(hands, hands')
    <3>1. hands[n] = NoHand
      BY <1>2, <1>3, <1>5, RowTypes
    <3>2. \A m \in 1..MaxHands : hands[m] # NoHand => hands[m].actions \in Nat
      BY <1>2, RowTypes
    <3>3. QED BY <2>4, <3>1, <3>2 DEF RowsKept, RowKept
  <2>6. /\ t \in GoodTables /\ t.handNo = n /\ t.acts = 0
        /\ t.game.status # "ROOM_FINISHED"
    BY <1>3, DealtTable
  <2> DEFINE y == Computed("deal", t, "playerRows")
  <2>7. /\ y \in Writers /\ y.pc = "playerRows" /\ y.kind = "deal" /\ y.table = t
    BY <2>6 DEF Computed, Writers, Writing, Kinds
  <2> HIDE DEF y
  <2>8. Recorded(hands', t, 0) /\ "playerRows" \in Path["deal"]
    BY <2>3, <2>4, <2>6 DEF Recorded, Path
  <2>9. WriterIsWell(y, hands', room')
    BY <2>3, <2>4, <2>6, <2>7, <2>8 DEF WriterIsWell
  <2>10. HandlerIsWell(y, hands', room')
    BY <2>9 DEF HandlerIsWell
  <2>11. HandlersAreWell' /\ DOMAIN slot' = Slots /\ TableIsWell(redis', hands', room')
    BY <1>1, <2>2, <2>4, <2>5, <2>10, SteppedBeside DEF y
  <2>12. QED BY <1>1, <2>4, <2>11 DEF IInv, Types
<1>6. QED BY <1>4, <1>5

LEMMA EndRoomWell ==
  ASSUME IInv, NEW h \in Slots, EndRoom(h)
  PROVE  IInv'
<1> DEFINE pc == IF IsTable(redis) /\ redis.game.status = "PLAYING"
                 THEN "handRow" ELSE "roomFinished"
           y == Computed("end", redis, pc)
<1>1. /\ slot' = [slot EXCEPT ![h] = y] /\ Begins(h)
      /\ UNCHANGED <<redis, room, hands, stacks, timer, botCounts, faults>>
  BY DEF EndRoom, Becomes, rows
<1>2. redis \in GoodTables \cup {NoTable}
      /\ (redis \in GoodTables => hands[redis.handNo] # NoHand)
  BY TableTypes DEF IInv, TableIsWell
<1>3. /\ pc \in {"handRow", "roomFinished"}
      /\ pc = "handRow" => redis \in GoodTables
  BY <1>2 DEF IsTable, NoTable
<1> HIDE DEF pc
<1>4. /\ y \in Writers /\ y.pc = pc /\ y.kind = "end" /\ y.table = redis
  BY <1>2, <1>3 DEF Computed, Writers, Writing, Kinds
<1> HIDE DEF y
<1>5. pc \in Path["end"]
  BY <1>3 DEF Path
<1>6. WriterIsWell(y, hands, room)
  BY <1>2, <1>3, <1>4, <1>5 DEF WriterIsWell
<1>7. HandlerIsWell(y, hands, room)
  BY <1>6 DEF HandlerIsWell
<1>8. faults' \in Nat /\ overlaps' \in Nat /\ faults' + overlaps' <= MaxTrouble
  BY <1>1, BeginsIdle
<1>9. timer' \in BOOLEAN /\ botCounts' \in [1..MaxHands -> Nat]
  BY <1>1 DEF IInv, Types
<1>10. QED BY <1>1, <1>7, <1>8, <1>9, SlotStep

LEMMA CloseRoomWell ==
  ASSUME IInv, CloseRoom
  PROVE  IInv'
<1>1. /\ room' = "CLOSED"
      /\ UNCHANGED <<redis, hands, stacks, timer, botCounts, slot, faults>>
      /\ overlaps' = overlaps + (IF Quiet THEN 0 ELSE 1) /\ faults + overlaps' <= MaxTrouble
  BY DEF CloseRoom, process
<1>2. hands \in AllRows /\ RowsKept(hands, hands') /\ hands' = hands
      /\ faults \in Nat /\ overlaps \in Nat
  BY <1>1, RowsAreKept DEF IInv, Types
<1>3. overlaps' \in Nat
  BY <1>1, <1>2
<1>4. TableIsWell(redis', hands', room')
  <2>1. TableIsWell(redis, hands', room')
    BY <1>1, <1>2, KeptTable DEF IInv
  <2>2. QED BY <1>1, <2>1
<1>5. HandlersAreWell'
  <2> SUFFICES ASSUME NEW h \in Slots PROVE HandlerIsWell(slot[h], hands', room')
    BY <1>1 DEF HandlersAreWell
  <2>1. HandlerIsWell(slot[h], hands, room)
    BY DEF IInv, HandlersAreWell
  <2>2. QED BY <1>1, <1>2, <2>1, KeptHandler
<1>6. QED BY <1>1, <1>2, <1>3, <1>4, <1>5 DEF IInv, Types

LEMMA TimerFiresWell ==
  ASSUME IInv, NEW h \in Slots, TimerFires(h)
  PROVE  IInv'
<1> DEFINE y == [slot[h] EXCEPT !.pc = "botTurn"]
<1>1. /\ slot' = [slot EXCEPT ![h] = y] /\ Begins(h) /\ timer' = FALSE
      /\ UNCHANGED <<redis, room, hands, stacks, botCounts, faults>>
  BY DEF TimerFires, Goto, Becomes, rows
<1>2. slot[h] = Idle /\ faults' \in Nat /\ overlaps' \in Nat /\ faults' + overlaps' <= MaxTrouble
  BY <1>1, BeginsIdle
<1>3. y.pc = "botTurn"
  BY <1>2 DEF Idle
<1> HIDE DEF y
<1>4. HandlerIsWell(y, hands, room)
  BY <1>3 DEF HandlerIsWell
<1>5. timer' \in BOOLEAN /\ botCounts' \in [1..MaxHands -> Nat]
  BY <1>1 DEF IInv, Types
<1>6. QED BY <1>1, <1>2, <1>4, <1>5, SlotStep

LEMMA BotTurnWell ==
  ASSUME IInv, NEW h \in Slots, BotTurn(h)
  PROVE  IInv'
<1>1. UNCHANGED <<redis, room, hands, stacks, timer, faults, overlaps>>
  BY DEF BotTurn, rows
<1>2. timer' \in BOOLEAN /\ faults' \in Nat /\ overlaps' \in Nat
      /\ faults' + overlaps' <= MaxTrouble /\ botCounts \in [1..MaxHands -> Nat]
  BY <1>1 DEF IInv, Types
<1>3. CASE ~BotInTurn
  <2>1. slot' = [slot EXCEPT ![h] = Idle] /\ botCounts' = botCounts
    BY <1>3 DEF BotTurn, Becomes
  <2>2. QED BY <1>1, <1>2, <2>1, IdleIsWell, SlotStep
<1>4. CASE BotInTurn
  <2>1. redis \in GoodTables /\ redis.game.currentTurnSeat \in Seats
    BY <1>4, BotSeatsAssumption DEF BotInTurn, IInv, TableIsWell, IsTable, NoTable
  <2>2. redis.handNo \in 1..MaxHands
    BY <2>1, TableTypes
  <2>3. botCounts' = [botCounts EXCEPT ![redis.handNo] = Min({@, BotActionMax}) + 1]
    BY <1>4 DEF BotTurn
  <2>4. botCounts' \in [1..MaxHands -> Nat]
    <3> DEFINE T == {botCounts[redis.handNo], BotActionMax}
    <3>1. T \in SUBSET Nat /\ T # {}
      BY <1>2, <2>2, BoundsAssumption
    <3> HIDE DEF T
    <3>2. Min(T) \in Nat
      BY <3>1, MinOfNats
    <3>3. botCounts' = [botCounts EXCEPT ![redis.handNo] = Min(T) + 1]
      BY <2>3 DEF T
    <3> DEFINE k == Min(T) + 1
    <3>4. k \in Nat /\ botCounts' = [botCounts EXCEPT ![redis.handNo] = k]
      BY <3>2, <3>3
    <3> HIDE DEF k
    <3>5. QED BY <1>2, <2>2, <3>4
  <2>5. \/ slot' = [slot EXCEPT ![h] = Idle]
        \/ \E d \in Decisions :
             slot' = [slot EXCEPT ![h] = [pc |-> "botAct", seat |-> redis.game.currentTurnSeat,
                                         decision |-> d]]
    BY <1>4 DEF BotTurn, Becomes
  <2>6. CASE slot' = [slot EXCEPT ![h] = Idle]
    BY <1>1, <1>2, <2>4, <2>6, IdleIsWell, SlotStep
  <2>7. ASSUME NEW d \in Decisions,
               slot' = [slot EXCEPT ![h] = [pc |-> "botAct", decision |-> d,
                                            seat |-> redis.game.currentTurnSeat]]
        PROVE  IInv'
    <3> DEFINE y == [pc |-> "botAct", seat |-> redis.game.currentTurnSeat, decision |-> d]
    <3>1. HandlerIsWell(y, hands, room)
      BY <2>1 DEF HandlerIsWell, Bots
    <3>2. slot' = [slot EXCEPT ![h] = y]
      BY <2>7
    <3> HIDE DEF y
    <3>3. QED BY <1>1, <1>2, <2>4, <3>1, <3>2, SlotStep
  <2>8. QED BY <2>5, <2>6, <2>7
<1>5. QED BY <1>3, <1>4

LEMMA BotActionWell ==
  ASSUME IInv, NEW h \in Slots, BotAction(h)
  PROVE  IInv'
<1> DEFINE s == slot[h].seat
           d == slot[h].decision
<1>1. slot[h].pc = "botAct"
      /\ UNCHANGED <<redis, room, hands, stacks, timer, botCounts, faults, overlaps>>
  BY DEF BotAction, At, rows
<1>2. s \in Seats /\ d \in Decisions
  BY <1>1, AtWriting DEF IInv, HandlersAreWell
<1>3. ReadAndApply(h, s, d) \/ slot' = [slot EXCEPT ![h] = Idle]
  BY DEF BotAction, Becomes
<1>4. PICK x : slot' = [slot EXCEPT ![h] = x] /\ HandlerIsWell(x, hands, room)
  BY <1>2, <1>3, ReadAndApplyWell, IdleIsWell
<1>5. QED BY <1>1, <1>4, SlotStep DEF IInv, Types

LEMMA FaultsWell ==
  ASSUME IInv
  PROVE  /\ \A h \in Slots : HandlerFails(h) => IInv'
         /\ Restart => IInv'
         /\ TableExpires => IInv'
<1>0. faults \in Nat /\ overlaps \in Nat /\ MaxTrouble \in Nat
      /\ hands \in AllRows /\ RowsKept(hands, hands)
  BY BoundsAssumption, RowsAreKept DEF IInv, Types
<1>1. ASSUME NEW h \in Slots, HandlerFails(h) PROVE IInv'
  <2>1. /\ slot' = [slot EXCEPT ![h] = Idle]
        /\ UNCHANGED <<redis, room, hands, stacks, timer, botCounts, overlaps>>
        /\ faults' = faults + 1 /\ faults + overlaps < MaxTrouble
    BY <1>1 DEF HandlerFails, Becomes, rows
  <2>2. faults' \in Nat /\ overlaps' \in Nat /\ faults' + overlaps' <= MaxTrouble
    BY <1>0, <2>1
  <2>3. timer' \in BOOLEAN /\ botCounts' \in [1..MaxHands -> Nat]
    BY <2>1 DEF IInv, Types
  <2>4. QED BY <2>1, <2>2, <2>3, IdleIsWell, SlotStep
<1>2. ASSUME Restart PROVE IInv'
  <2>1. /\ slot' = [ h \in Slots |-> Idle ] /\ timer' = FALSE
        /\ botCounts' = [ n \in 1..MaxHands |-> 0 ]
        /\ UNCHANGED <<redis, room, hands, stacks, overlaps>>
        /\ faults' = faults + 1 /\ faults + overlaps < MaxTrouble
    BY <1>2 DEF Restart, rows
  <2>2. faults' \in Nat /\ overlaps' \in Nat /\ faults' + overlaps' <= MaxTrouble
    BY <1>0, <2>1
  <2>3. HandlersAreWell'
    BY <2>1, IdleIsWell DEF HandlersAreWell
  <2>4. TableIsWell(redis', hands', room')
    BY <2>1 DEF IInv
  <2>5. QED BY <2>1, <2>2, <2>3, <2>4 DEF IInv, Types
<1>3. ASSUME TableExpires PROVE IInv'
  <2>1. redis' = NoTable
        /\ UNCHANGED <<room, hands, stacks, timer, botCounts, slot, faults, overlaps>>
    BY <1>3 DEF TableExpires, rows, process
  <2>2. TableIsWell(redis', hands', room')
    BY <2>1 DEF TableIsWell, IsTable, NoTable
  <2>3. HandlersAreWell'
    BY <2>1 DEF IInv, HandlersAreWell
  <2>4. QED BY <2>1, <2>2, <2>3 DEF IInv, Types
<1>4. QED BY <1>1, <1>2, <1>3

-----------------------------------------------------------------------------
(* The invariant *)

LEMMA InitWell == Init => IInv
<1> SUFFICES ASSUME Init PROVE IInv
  OBVIOUS
<1>1. stacks \in [Seats -> Nat]
  BY BuyInAssumption DEF Init
<1>2. hands \in AllRows /\ botCounts \in [1..MaxHands -> Nat]
  BY DEF Init, AllRows
<1>3. faults \in Nat /\ overlaps \in Nat /\ faults + overlaps <= MaxTrouble
  BY BoundsAssumption DEF Init
<1>4. TableIsWell(redis, hands, room)
  BY DEF Init, TableIsWell, IsTable, NoTable
<1>5. HandlersAreWell /\ DOMAIN slot = Slots
  BY IdleIsWell DEF Init, HandlersAreWell
<1>6. QED BY <1>1, <1>2, <1>3, <1>4, <1>5 DEF Init, IInv, Types

LEMMA NextWell == IInv /\ [Next]_vars => IInv'
<1> SUFFICES ASSUME IInv, [Next]_vars PROVE IInv'
  OBVIOUS
<1>1. ASSUME NEW h \in Slots, Request(h) PROVE IInv'
  BY <1>1, PlayerActionWell, StartFirstHandWell, NextHandWell, EndRoomWell DEF Request
<1>2. ASSUME NEW h \in Slots, HandlerStep(h) PROVE IInv'
  BY <1>2, ActionRowsWell, HandRowWell, StackRowWell, ResultRowWell, ClosingRowsWell, SaveWell,
     NextHandNoWell, CreateHandWell, PlayerRowsWell, RoomPlayingWell, RoomFinishedWell,
     DeleteTableWell, BotTurnWell, BotActionWell DEF HandlerStep
<1>3. ASSUME NEW h \in Slots, TimerFires(h) \/ HandlerFails(h) PROVE IInv'
  BY <1>3, TimerFiresWell, FaultsWell
<1>4. CASE CloseRoom
  BY <1>4, CloseRoomWell
<1>5. CASE Restart \/ TableExpires
  BY <1>5, FaultsWell
<1>6. CASE UNCHANGED vars
  BY <1>6 DEF vars, rows, process, IInv, Types, HandlersAreWell
<1>7. QED BY <1>1, <1>2, <1>3, <1>4, <1>5, <1>6 DEF Next

THEOREM Invariance == Spec => []IInv
BY InitWell, NextWell, PTL DEF Spec

-----------------------------------------------------------------------------
(* One handler at a time *)

LEMMA IdleFollows ==
  ASSUME NEW t PROVE Follows(Idle, t)
BY DEF Follows, Idle, Writing

\* A handler that goes on with its table follows as before.
LEMMA GoesOnFollowing ==
  ASSUME NEW t, NEW x \in Writers, NEW y \in Writers, Follows(x, t),
         y.kind = x.kind, y.table = x.table
  PROVE  Follows(y, t)
<1>1. x.pc \in Writing /\ y.pc \in Writing /\ "handNo" \notin Writing /\ "createHand" \notin Writing
  BY DEF Writers, Writing
<1>2. QED BY <1>1 DEF Follows

\* The only handler in progress becomes x.
LEMMA SoleHandler ==
  ASSUME DOMAIN slot = Slots, NEW h \in Slots, NEW x, slot' = [slot EXCEPT ![h] = x],
         \A g \in Slots : g # h => slot[g] = Idle, Follows(x, redis')
  PROVE  AloneInv'
<1>1. slot'[h] = x /\ \A g \in Slots : g # h => slot'[g] = Idle
  OBVIOUS
<1>2. ASSUME NEW g \in Slots, slot'[g].pc # "idle" PROVE g = h
  BY <1>1, <1>2 DEF Idle
<1>3. ASSUME NEW g \in Slots PROVE Follows(slot'[g], redis')
  BY <1>1, IdleFollows
<1>4. QED BY <1>2, <1>3 DEF AloneInv, At

LEMMA AloneGoesOn ==
  ASSUME IInv, AloneInv, NEW h \in Slots, ~At(h, "idle"), overlaps' = overlaps,
         NEW x, slot' = [slot EXCEPT ![h] = x], Alone => Follows(x, redis')
  PROVE  AloneInv'
<1> SUFFICES ASSUME Alone PROVE AloneInv'
  BY DEF AloneInv, Alone
<1>1. ASSUME NEW g \in Slots, g # h PROVE slot[g] = Idle
  <2>1. At(g, "idle")
    BY <1>1 DEF AloneInv
  <2>2. QED BY <2>1, AtWriting DEF At, IInv, HandlersAreWell
<1>2. QED BY <1>1, SoleHandler DEF IInv, Types

LEMMA AloneBegins ==
  ASSUME IInv, NEW h \in Slots, Begins(h), faults' = faults,
         NEW x, slot' = [slot EXCEPT ![h] = x], Alone => Follows(x, redis')
  PROVE  AloneInv'
<1> SUFFICES ASSUME overlaps' = 0 PROVE AloneInv'
  BY DEF AloneInv, Alone
<1>1. overlaps = 0 /\ \A g \in Slots : g # h => At(g, "idle")
  BY BeginsIdle
<1>2. ASSUME NEW g \in Slots, g # h PROVE slot[g] = Idle
  BY <1>1, <1>2, AtWriting DEF At, IInv, HandlersAreWell
<1>3. QED BY <1>1, <1>2, SoleHandler DEF IInv, Types, Alone

\* The steps between two decisions keep the handler's kind and its table.
LEMMA GoesOn ==
  ASSUME IInv, NEW h \in Slots,
         \/ ActionRows(h) \/ HandRow(h) \/ StackRow(h) \/ ResultRow(h) \/ ClosingRows(h)
         \/ PlayerRows(h) \/ RoomPlaying(h) \/ RoomFinished(h)
  PROVE  /\ slot[h] \in Writers /\ ~At(h, "idle") /\ UNCHANGED <<redis, faults, overlaps>>
         /\ \E y \in Writers : /\ slot' = [slot EXCEPT ![h] = y]
                               /\ y.kind = slot[h].kind /\ y.table = slot[h].table
<1>1. /\ slot[h].pc \in Writing /\ slot[h].pc # "idle" /\ UNCHANGED <<redis, faults, overlaps>>
      /\ \/ \E pc \in Writing : slot' = [slot EXCEPT ![h] = [slot[h] EXCEPT !.pc = pc]]
         \/ \E s \in slot[h].left, pc \in Writing : SeatDone(h, s, pc)
  <2>1. CASE ActionRows(h)
    BY <2>1, Zenon DEF ActionRows, At, Goto, Becomes, Writing
  <2>2. CASE HandRow(h)
    BY <2>2, Zenon DEF HandRow, At, Goto, Becomes, Writing
  <2>3. CASE StackRow(h)
    BY <2>3, Zenon DEF StackRow, At, Writing
  <2>4. CASE ResultRow(h)
    <3>1. (IF slot[h].kind = "end" THEN "roomFinished" ELSE "closingRows") \in Writing
      BY DEF Writing
    <3>2. QED BY <2>4, <3>1, Zenon DEF ResultRow, At, Writing
  <2>5. CASE ClosingRows(h)
    BY <2>5, Zenon DEF ClosingRows, At, Goto, Becomes, Writing
  <2>6. CASE PlayerRows(h)
    <3>1. (IF slot[h].table.game.status = "HAND_FINISHED" THEN "handRow" ELSE "roomPlaying")
            \in Writing
      BY DEF Writing
    <3>2. QED BY <2>6, <3>1, Zenon DEF PlayerRows, At, Goto, Becomes, Writing
  <2>7. CASE RoomPlaying(h)
    BY <2>7, Zenon DEF RoomPlaying, At, Goto, Becomes, Writing
  <2>8. CASE RoomFinished(h)
    BY <2>8, Zenon DEF RoomFinished, At, Goto, Becomes, Writing
  <2>9. QED BY <2>1, <2>2, <2>3, <2>4, <2>5, <2>6, <2>7, <2>8
<1>2. slot[h] \in Writers /\ slot[h].left \in SUBSET Seats
  BY <1>1, Writer
<1>3. CASE \E pc \in Writing : slot' = [slot EXCEPT ![h] = [slot[h] EXCEPT !.pc = pc]]
  BY <1>1, <1>2, <1>3, Gone DEF At
<1>4. CASE \E s \in slot[h].left, pc \in Writing : SeatDone(h, s, pc)
  BY <1>1, <1>2, <1>4, SeatDoneState DEF At
<1>5. QED BY <1>1, <1>3, <1>4

LEMMA RowsWhileAlone ==
  ASSUME IInv, AloneInv, NEW h \in Slots,
         \/ ActionRows(h) \/ HandRow(h) \/ StackRow(h) \/ ResultRow(h) \/ ClosingRows(h)
         \/ PlayerRows(h) \/ RoomPlaying(h) \/ RoomFinished(h)
  PROVE  AloneInv'
<1>1. /\ slot[h] \in Writers /\ ~At(h, "idle") /\ redis' = redis /\ overlaps' = overlaps
      /\ \E y \in Writers : /\ slot' = [slot EXCEPT ![h] = y]
                            /\ y.kind = slot[h].kind /\ y.table = slot[h].table
  BY GoesOn
<1>2. PICK y \in Writers : /\ slot' = [slot EXCEPT ![h] = y]
                           /\ y.kind = slot[h].kind /\ y.table = slot[h].table
  BY <1>1
<1>3. Alone => Follows(y, redis')
  BY <1>1, <1>2, GoesOnFollowing DEF AloneInv
<1>4. QED BY <1>1, <1>2, <1>3, AloneGoesOn

LEMMA AppliedFollows ==
  ASSUME NEW h \in Slots, NEW s \in Seats, NEW d \in Decisions, ReadAndApply(h, s, d)
  PROVE  \E x : slot' = [slot EXCEPT ![h] = x] /\ Follows(x, redis)
<1>1. PICK t \in AfterDecision(redis, s, d) : Becomes(h, Computed("act", t, "actionRows"))
  BY DEF ReadAndApply
<1>2. Follows(Computed("act", t, "actionRows"), redis)
  BY <1>1 DEF ReadAndApply, Follows, Computed
<1>3. QED BY <1>1, <1>2 DEF Becomes

LEMMA RequestsWhileAlone ==
  ASSUME IInv, NEW h \in Slots, Request(h) \/ TimerFires(h)
  PROVE  AloneInv'
<1>1. Begins(h) /\ redis' = redis /\ faults' = faults
  BY DEF Request, PlayerAction, StartFirstHand, NextHand, EndRoom, TimerFires
<1>2. \E x : slot' = [slot EXCEPT ![h] = x] /\ Follows(x, redis)
  <2>1. CASE PlayerAction(h)
    BY <2>1, AppliedFollows DEF PlayerAction
  <2>2. CASE StartFirstHand(h)
    <3> DEFINE x == [pc |-> "handNo", chips |-> stacks, dealer |-> Min(Seats)]
    <3>1. ~IsTable(redis)
      BY <2>2 DEF StartFirstHand, IInv, TableIsWell
    <3>2. Follows(x, redis)
      BY <3>1 DEF Follows, Writing
    <3>3. QED BY <2>2, <3>2 DEF StartFirstHand, Becomes
  <2>3. CASE NextHand(h)
    <3> DEFINE dealer == NextDealerSeat(redis.game.chips, redis.game.dealerSeat)
               over == Computed("finish", OverTable(redis), "roomFinished")
               next == [pc |-> "createHand", handNo |-> redis.handNo + 1,
                        chips |-> redis.game.chips, dealer |-> dealer]
    <3>1. /\ slot' = [slot EXCEPT ![h] = IF dealer = NoSeat THEN over ELSE next]
          /\ IsTable(redis) /\ redis.game.status = "HAND_FINISHED"
      BY <2>3 DEF NextHand, Becomes, OverTable
    <3>2. dealer = NoSeat => Follows(over, redis)
      BY <3>1 DEF Follows, Computed, OverTable
    <3>3. Follows(next, redis)
      BY <3>1 DEF Follows, Writing
    <3> HIDE DEF dealer, over, next
    <3>4. QED BY <3>1, <3>2, <3>3
  <2>4. CASE EndRoom(h)
    <3>1. \E pc : Becomes(h, Computed("end", redis, pc)) /\ pc \in {"handRow", "roomFinished"}
      BY <2>4 DEF EndRoom
    <3>2. PICK pc \in {"handRow", "roomFinished"} :
            slot' = [slot EXCEPT ![h] = Computed("end", redis, pc)]
      BY <3>1 DEF Becomes
    <3>3. Follows(Computed("end", redis, pc), redis)
      BY DEF Follows, Computed
    <3>4. QED BY <3>2, <3>3
  <2>5. CASE TimerFires(h)
    <3> DEFINE x == [slot[h] EXCEPT !.pc = "botTurn"]
    <3>1. slot' = [slot EXCEPT ![h] = x] /\ slot[h] = Idle
      BY <1>1, <2>5, BeginsIdle DEF TimerFires, Goto, Becomes
    <3>2. x.pc = "botTurn"
      BY <3>1 DEF Idle
    <3> HIDE DEF x
    <3>3. Follows(x, redis)
      BY <3>2 DEF Follows, Writing
    <3>4. QED BY <3>1, <3>3
  <2>6. QED BY <2>1, <2>2, <2>3, <2>4, <2>5 DEF Request
<1>3. QED BY <1>1, <1>2, AloneBegins

LEMMA DealsWhileAlone ==
  ASSUME IInv, AloneInv, NEW h \in Slots, NextHandNo(h) \/ CreateHand(h)
  PROVE  AloneInv'
<1>1. ~At(h, "idle") /\ redis' = redis /\ overlaps' = overlaps
  BY DEF NextHandNo, CreateHand, At
<1>2. Alone => Follows(slot[h], redis)
  BY DEF AloneInv
<1>3. HandlerIsWell(slot[h], hands, room)
  BY DEF IInv, HandlersAreWell
<1>4. CASE NextHandNo(h)
  <2> DEFINE x == [pc |-> "createHand", handNo |-> LatestHand + 1,
                   chips |-> slot[h].chips, dealer |-> slot[h].dealer]
  <2>1. slot' = [slot EXCEPT ![h] = x] /\ slot[h].pc = "handNo"
    BY <1>4 DEF NextHandNo, At, Becomes
  <2>2. Alone => Follows(x, redis)
    BY <1>2, <2>1 DEF Follows, Writing
  <2> HIDE DEF x
  <2>3. QED BY <1>1, <2>1, <2>2, AloneGoesOn
<1>5. CASE CreateHand(h)
  <2> DEFINE n == slot[h].handNo
  <2>1. slot[h].pc = "createHand" /\ slot[h].chips \in [Seats -> Nat]
        /\ CanStartHand(slot[h].chips) /\ slot[h].dealer \in Seats /\ n \in 1..MaxHands
    BY <1>3, <1>5, AtWriting DEF CreateHand, At
  <2>2. CASE slot' = [slot EXCEPT ![h] = Idle]
    BY <1>1, <2>2, IdleFollows, AloneGoesOn
  <2>3. ASSUME NEW t \in FirstTables(n, slot[h].chips, slot[h].dealer),
               slot' = [slot EXCEPT ![h] = Computed("deal", t, "playerRows")]
        PROVE  AloneInv'
    <3>1. t.acts = 0 /\ t.game \in InitialGameStates(slot[h].chips, slot[h].dealer, Ranks)
      BY <2>1, DealtTable
    <3>2. slot[h].dealer # NoSeat
      BY <2>1, NoSeatAssumption
    <3>3. Alone => Follows(Computed("deal", t, "playerRows"), redis)
      BY <1>2, <2>1, <3>1, <3>2 DEF Follows, Computed
    <3>4. QED BY <1>1, <2>3, <3>3, AloneGoesOn
  <2>4. QED BY <1>5, <2>2, <2>3 DEF CreateHand, Becomes
<1>6. QED BY <1>4, <1>5

LEMMA BotsWhileAlone ==
  ASSUME IInv, AloneInv, NEW h \in Slots, BotTurn(h) \/ BotAction(h)
  PROVE  AloneInv'
<1>1. ~At(h, "idle") /\ redis' = redis /\ overlaps' = overlaps
  BY DEF BotTurn, BotAction, At
<1>2. \E x : slot' = [slot EXCEPT ![h] = x] /\ Follows(x, redis)
  <2>1. CASE slot' = [slot EXCEPT ![h] = Idle]
    BY <2>1, IdleFollows
  <2>2. CASE BotTurn(h)
    <3>1. ASSUME NEW d, slot' = [slot EXCEPT ![h] = [pc |-> "botAct", decision |-> d,
                                                     seat |-> redis.game.currentTurnSeat]]
          PROVE  \E x : slot' = [slot EXCEPT ![h] = x] /\ Follows(x, redis)
      <4> DEFINE x == [pc |-> "botAct", seat |-> redis.game.currentTurnSeat, decision |-> d]
      <4>1. Follows(x, redis)
        BY DEF Follows, Writing
      <4>2. QED BY <3>1, <4>1
    <3>2. QED BY <2>1, <2>2, <3>1 DEF BotTurn, Becomes
  <2>3. CASE BotAction(h)
    <3>1. slot[h].seat \in Seats /\ slot[h].decision \in Decisions
      BY <2>3, AtWriting DEF BotAction, At, IInv, HandlersAreWell
    <3>2. QED BY <2>1, <2>3, <3>1, AppliedFollows DEF BotAction, Becomes
  <2>4. QED BY <2>2, <2>3
<1>3. QED BY <1>1, <1>2, AloneGoesOn

LEMMA NextAlone == IInv /\ AloneInv /\ [Next]_vars => AloneInv'
<1> SUFFICES ASSUME IInv, AloneInv, [Next]_vars PROVE AloneInv'
  OBVIOUS
<1>1. ASSUME NEW h \in Slots, Request(h) \/ TimerFires(h) PROVE AloneInv'
  BY <1>1, RequestsWhileAlone
<1>2. ASSUME NEW h \in Slots, Save(h) \/ DeleteTable(h) \/ HandlerFails(h) PROVE AloneInv'
  <2>1. ~At(h, "idle") /\ overlaps' = overlaps /\ slot' = [slot EXCEPT ![h] = Idle]
    BY <1>2 DEF Save, DeleteTable, HandlerFails, At, Becomes
  <2>2. QED BY <2>1, IdleFollows, AloneGoesOn
<1>3. ASSUME NEW h \in Slots, HandlerStep(h) PROVE AloneInv'
  BY <1>2, <1>3, RowsWhileAlone, DealsWhileAlone, BotsWhileAlone DEF HandlerStep
<1>4. CASE CloseRoom
  <2>1. UNCHANGED <<redis, slot>>
    BY <1>4 DEF CloseRoom, process
  <2>2. overlaps' = 0 => overlaps = 0
    BY <1>4 DEF CloseRoom, IInv, Types
  <2>3. QED BY <2>1, <2>2 DEF AloneInv, Alone, At
<1>5. CASE Restart
  <2>1. \A h \in Slots : slot'[h] = Idle
    BY <1>5 DEF Restart
  <2>2. QED BY <2>1, IdleFollows DEF AloneInv, At, Idle
<1>6. CASE TableExpires
  <2>1. \A h \in Slots : slot'[h] = Idle
    BY <1>6, AtWriting DEF TableExpires, process, At, IInv, HandlersAreWell
  <2>2. QED BY <2>1, IdleFollows DEF AloneInv, At, Idle
<1>7. CASE UNCHANGED vars
  BY <1>7 DEF vars, process, AloneInv, Alone, At
<1>8. QED BY <1>1, <1>2, <1>3, <1>4, <1>5, <1>6, <1>7 DEF Next

THEOREM AloneInvariance == Spec => []AloneInv
<1>1. Init => AloneInv
  BY IdleFollows DEF Init, AloneInv, At, Idle
<1>2. QED BY <1>1, NextAlone, Invariance, PTL DEF Spec

-----------------------------------------------------------------------------
(* What follows from it *)

\* The stored table and the rows always have the types of GameState and of the schema.
THEOREM TypeCorrect == Spec => []TypeOK
<1>1. IInv => TypeOK
  <2> SUFFICES ASSUME IInv PROVE TypeOK
    OBVIOUS
  <2>1. redis \in Tables \cup {NoTable}
    BY DEF IInv, TableIsWell, GoodTables
  <2>2. faults \in 0..MaxTrouble /\ overlaps \in 0..MaxTrouble
    BY BoundsAssumption DEF IInv, Types
  <2>3. QED BY <2>1, <2>2 DEF IInv, Types, AllRows, TypeOK
<1>2. QED BY <1>1, Invariance, PTL

\* The rows of a hand never miss an action of the stored table, so its replay does not.
THEOREM ActionsStayRecorded == Spec => []ActionsAreRecorded
<1>1. IInv => ActionsAreRecorded
  <2> SUFFICES ASSUME IInv, IsTable(redis), redis.handNo = LatestHand
               PROVE  redis.acts <= hands[redis.handNo].actions
    BY DEF ActionsAreRecorded
  <2>1. hands \in AllRows /\ redis \in GoodTables /\ Recorded(hands, redis, 0)
    BY DEF IInv, Types, TableIsWell, IsTable, NoTable
  <2>2. ~LaterHand(hands, redis.handNo)
    <3>1. \A n \in 1..MaxHands : hands[n] # NoHand => n <= LatestHand
      BY <2>1, LatestHandType
    <3>2. LatestHand \in Nat /\ \A n \in 1..MaxHands : n \in Nat
      BY <2>1, LatestHandType, BoundsAssumption
    <3>3. QED BY <3>1, <3>2 DEF LaterHand
  <2>3. hands[redis.handNo].actions \in Nat /\ redis.acts \in Nat
    BY <2>1, TableTypes, RowTypes DEF IInv, TableIsWell
  <2>4. QED BY <2>1, <2>2, <2>3 DEF Recorded
<1>2. QED BY <1>1, Invariance, PTL

\* A table that is over in Redis is over in MySQL, with every result and its closing rows.
THEOREM FinishedTablesStayBooked == Spec => []FinishedTablesAreBooked
<1>1. IInv => FinishedTablesAreBooked
  BY DEF IInv, TableIsWell, Booked, Paid, FinishedTablesAreBooked, TableIs
<1>2. QED BY <1>1, Invariance, PTL

-----------------------------------------------------------------------------
(* The stored table follows the rules *)

LEMMA SaveFollowsTheRules ==
  ASSUME IInv, AloneInv, NEW h \in Slots, Save(h), Alone, IsTable(redis)
  PROVE  redis'.acts \in {0, redis.acts, redis.acts + 1} /\ Hand!Next
<1> DEFINE x == slot[h]
<1>1. x.pc = "save" /\ x.pc \in Writing /\ redis' = x.table
  BY DEF Save, At, Writing
<1>2. Follows(x, redis) /\ redis \in GoodTables
  BY DEF AloneInv, IInv, TableIsWell, IsTable, NoTable
<1>3. x.kind \in {"act", "deal", "finish"}
  BY <1>1, Writer, WriterFields
<1>4. CASE x.kind = "act"
  <2>1. PICK s \in Seats, d \in Decisions :
          Accepts(redis.game, s, d) /\ redis' \in AfterDecision(redis, s, d)
    BY <1>1, <1>2, <1>4 DEF Follows
  <2>2. /\ redis'.acts = redis.acts + 1
        /\ redis'.game \in NormalizeAfterAction(Mutated(redis.game, s, d), s, Ranks)
    BY <1>2, <2>1, DecidedTable
  <2>3. Hand!Act(s)
    BY <1>2, <2>1, <2>2, DecisionIsAct DEF GoodTables
  <2>4. QED BY <2>2, <2>3 DEF Hand!Next
<1>5. CASE x.kind = "deal"
  <2> DEFINE dealer == NextDealerSeat(redis.game.chips, redis.game.dealerSeat)
  <2>1. /\ redis'.acts = 0 /\ redis.game.status = "HAND_FINISHED"
        /\ dealer # NoSeat /\ redis'.game \in InitialGameStates(redis.game.chips, dealer, Ranks)
    BY <1>1, <1>2, <1>5 DEF Follows
  <2>2. Hand!NextHand
    BY <2>1, SameNext DEF Hand!NextHand
  <2>3. QED BY <2>1, <2>2 DEF Hand!Next
<1>6. CASE x.kind = "finish"
  <2>1. /\ redis.game.status = "HAND_FINISHED"
        /\ NextDealerSeat(redis.game.chips, redis.game.dealerSeat) = NoSeat
        /\ redis' = OverTable(redis)
    BY <1>1, <1>2, <1>6 DEF Follows, OverTable
  <2>2. redis'.acts = redis.acts
        /\ redis'.game = [redis.game EXCEPT !.status = "ROOM_FINISHED", !.currentTurnSeat = NoSeat]
    BY <1>2, <2>1, OverTableIsGood
  <2>3. Hand!FinishRoom
    BY <2>1, <2>2, SameNext DEF Hand!FinishRoom
  <2>4. QED BY <2>2, <2>3 DEF Hand!Next
<1>7. QED BY <1>3, <1>4, <1>5, <1>6

\* Nobody but saveState, endRoom and the key's time to live touch the stored table.
LEMMA TableIsKept ==
  ASSUME [Next]_vars
  PROVE  \/ redis' = redis
         \/ redis' = NoTable
         \/ \E h \in Slots : Save(h)
<1>1. ASSUME NEW h \in Slots, Request(h) PROVE redis' = redis
  BY <1>1 DEF Request, PlayerAction, StartFirstHand, NextHand, EndRoom
<1>2. ASSUME NEW h \in Slots, HandlerStep(h), ~Save(h) PROVE redis' = redis \/ redis' = NoTable
  BY <1>2 DEF HandlerStep, ActionRows, HandRow, StackRow, ResultRow, ClosingRows, NextHandNo,
              CreateHand, PlayerRows, RoomPlaying, RoomFinished, DeleteTable, BotTurn, BotAction
<1>3. ASSUME NEW h \in Slots, TimerFires(h) \/ HandlerFails(h) PROVE redis' = redis
  BY <1>3 DEF TimerFires, HandlerFails
<1>4. CASE CloseRoom \/ Restart \/ TableExpires
  BY <1>4 DEF CloseRoom, Restart, TableExpires
<1>5. CASE UNCHANGED vars
  BY <1>5 DEF vars
<1>6. QED BY <1>1, <1>2, <1>3, <1>4, <1>5 DEF Next

\* As long as no two handlers overlap, the stored table changes only by an accepted action
\* or a deal of the rules: whatever a handler computed from the table it read still applies
\* to the table it writes over.
THEOREM TableStaysWithTheRules == Spec => TableFollowsTheRules
<1> DEFINE Rules == (Alone /\ IsTable(redis) /\ IsTable(redis')) =>
                      \/ redis' = redis
                      \/ redis'.acts \in {0, redis.acts, redis.acts + 1} /\ Hand!Next
<1>1. IInv /\ AloneInv /\ [Next]_vars => [Rules]_vars
  BY TableIsKept, SaveFollowsTheRules DEF IsTable, NoTable
<1>2. QED BY <1>1, Invariance, AloneInvariance, PTL DEF Spec, TableFollowsTheRules

-----------------------------------------------------------------------------
(* A room that was ended has no table that goes on *)

LEMMA UnharmedBefore ==
  ASSUME IInv, [Next]_vars, Unharmed'
  PROVE  Unharmed
<1>1. faults \in Nat /\ overlaps \in Nat
  BY DEF IInv, Types
<1>2. ASSUME NEW h \in Slots, Request(h) \/ TimerFires(h) PROVE Unharmed
  <2>1. Begins(h) /\ faults' = faults
    BY <1>2 DEF Request, PlayerAction, StartFirstHand, NextHand, EndRoom, TimerFires
  <2>2. QED BY <2>1, BeginsIdle DEF Unharmed, Alone
<1>3. ASSUME NEW h \in Slots, HandlerStep(h) PROVE Unharmed
  BY <1>3 DEF HandlerStep, ActionRows, HandRow, StackRow, ResultRow, ClosingRows, Save,
              NextHandNo, CreateHand, PlayerRows, RoomPlaying, RoomFinished, DeleteTable,
              BotTurn, BotAction, Unharmed, Alone
<1>4. ASSUME NEW h \in Slots, HandlerFails(h) PROVE Unharmed
  BY <1>1, <1>4 DEF HandlerFails, Unharmed
<1>5. CASE CloseRoom \/ Restart \/ TableExpires
  BY <1>1, <1>5 DEF CloseRoom, Restart, TableExpires, Unharmed, Alone
<1>6. CASE UNCHANGED vars
  BY <1>6 DEF vars, Unharmed, Alone
<1>7. QED BY <1>2, <1>3, <1>4, <1>5, <1>6 DEF Next

\* A step that leaves the table and the room alone and goes to no save of a new hand.
LEMMA EndsBeside ==
  ASSUME DOMAIN slot = Slots, EndInv, Unharmed, NEW h \in Slots, ~At(h, "delete"),
         NEW y, slot' = [slot EXCEPT ![h] = y], y.pc = "save" => y.kind # "deal",
         redis' = redis, room' = room
  PROVE  EndInv'
<1>1. slot'[h] = y /\ \A g \in Slots : g # h => slot'[g] = slot[g]
  OBVIOUS
<1>2. ASSUME NEW g \in Slots, slot'[g].pc = "save", slot'[g].kind = "deal"
      PROVE  room' # "FINISHED"
  <2>1. g # h /\ slot'[g] = slot[g]
    BY <1>1, <1>2
  <2>2. QED BY <1>2, <2>1 DEF EndInv, At
<1>3. ASSUME room' = "FINISHED", IsTable(redis'), redis'.game.status = "PLAYING"
      PROVE  \E g \in Slots : slot'[g].pc = "delete"
  <2>1. PICK g \in Slots : slot[g].pc = "delete"
    BY <1>3 DEF EndInv, TableIs, At
  <2>2. g # h
    BY <2>1 DEF At
  <2>3. QED BY <1>1, <2>1, <2>2
<1>4. QED BY <1>2, <1>3 DEF EndInv, TableIs, At

LEMMA Elsewhere ==
  ASSUME NEW h, NEW y, slot' = [slot EXCEPT ![h] = y], y.pc # "save"
  PROVE  \E z : slot' = [slot EXCEPT ![h] = z] /\ z.pc # "save"
OBVIOUS

LEMMA ComputedElsewhere ==
  ASSUME NEW h, NEW kind, NEW t, NEW pc \in Writing \ {"save"},
         slot' = [slot EXCEPT ![h] = Computed(kind, t, pc)]
  PROVE  \E z : slot' = [slot EXCEPT ![h] = z] /\ z.pc # "save"
<1>1. Computed(kind, t, pc).pc # "save"
  BY DEF Computed
<1>2. QED BY <1>1, Elsewhere

\* The steps EndsBeside speaks of.
LEMMA RequestsEndNothing ==
  ASSUME IInv, EndInv, Unharmed, NEW h \in Slots, Request(h) \/ TimerFires(h)
  PROVE  EndInv'
<1>1. slot[h] = Idle /\ redis' = redis /\ room' = room
  <2>1. Begins(h) /\ faults' = faults /\ redis' = redis /\ room' = room
    BY DEF Request, PlayerAction, StartFirstHand, NextHand, EndRoom, TimerFires, rows
  <2>2. QED BY <2>1, BeginsIdle
<1>2. \E y : slot' = [slot EXCEPT ![h] = y] /\ y.pc # "save"
  <2>1. CASE PlayerAction(h)
    <3>1. \E t : slot' = [slot EXCEPT ![h] = Computed("act", t, "actionRows")]
      BY <2>1 DEF PlayerAction, ReadAndApply, Becomes
    <3>2. QED BY <3>1, ComputedElsewhere DEF Writing
  <2>2. CASE StartFirstHand(h)
    <3> DEFINE y == [pc |-> "handNo", chips |-> stacks, dealer |-> Min(Seats)]
    <3>1. slot' = [slot EXCEPT ![h] = y] /\ y.pc # "save"
      BY <2>2 DEF StartFirstHand, Becomes
    <3> HIDE DEF y
    <3>2. QED BY <3>1
  <2>3. CASE NextHand(h)
    <3>1. \/ \E t : slot' = [slot EXCEPT ![h] = Computed("finish", t, "roomFinished")]
          \/ \E n, c, d : slot' = [slot EXCEPT ![h] = [pc |-> "createHand", handNo |-> n,
                                                       chips |-> c, dealer |-> d]]
      BY <2>3 DEF NextHand, Becomes
    <3>2. ASSUME NEW n, NEW c, NEW d,
                 slot' = [slot EXCEPT ![h] = [pc |-> "createHand", handNo |-> n,
                                              chips |-> c, dealer |-> d]]
          PROVE  \E y : slot' = [slot EXCEPT ![h] = y] /\ y.pc # "save"
      <4> DEFINE y == [pc |-> "createHand", handNo |-> n, chips |-> c, dealer |-> d]
      <4>1. slot' = [slot EXCEPT ![h] = y] /\ y.pc # "save"
        BY <3>2
      <4> HIDE DEF y
      <4>2. QED BY <4>1
    <3>3. QED BY <3>1, <3>2, ComputedElsewhere DEF Writing
  <2>4. CASE EndRoom(h)
    <3>1. PICK pc \in {"handRow", "roomFinished"} :
            slot' = [slot EXCEPT ![h] = Computed("end", redis, pc)]
      BY <2>4 DEF EndRoom, Becomes
    <3>2. pc \in Writing \ {"save"}
      BY DEF Writing
    <3>3. QED BY <3>1, <3>2, ComputedElsewhere, Zenon
  <2>5. CASE TimerFires(h)
    <3>1. [Idle EXCEPT !.pc = "botTurn"].pc # "save"
      BY DEF Idle
    <3>2. QED BY <1>1, <2>5, <3>1 DEF TimerFires, Goto, Becomes
  <2>6. QED BY <2>1, <2>2, <2>3, <2>4, <2>5 DEF Request
<1>3. ~At(h, "delete")
  BY <1>1 DEF At, Idle
<1>4. QED BY <1>1, <1>2, <1>3, EndsBeside DEF IInv, Types

LEMMA RowsEndNothing ==
  ASSUME IInv, EndInv, Unharmed, NEW h \in Slots,
         \/ ActionRows(h) \/ HandRow(h) \/ StackRow(h) \/ ResultRow(h) \/ ClosingRows(h)
         \/ PlayerRows(h)
  PROVE  EndInv'
<1> DEFINE x == slot[h]
<1>1. redis' = redis /\ room' = room /\ x.pc \in Writing /\ x.pc # "delete"
  BY DEF ActionRows, HandRow, StackRow, ResultRow, ClosingRows, PlayerRows, At, Writing
<1>2. x \in Writers
  BY <1>1, Writer
<1>3. \/ \E pc \in Writing : /\ slot' = [slot EXCEPT ![h] = [x EXCEPT !.pc = pc]]
                             /\ pc = "save" => x.kind # "deal"
      \/ \E s \in x.left, pc \in Writing \ {"save"} : SeatDone(h, s, pc) /\ x.pc # "save"
  <2>1. CASE ActionRows(h)
    <3>1. x.kind # "deal"
      BY <1>1, <2>1, Writer, WriterFields DEF ActionRows, At
    <3>2. QED BY <2>1, <3>1, Zenon DEF ActionRows, Goto, Becomes, Writing
  <2>2. CASE HandRow(h)
    BY <2>2 DEF HandRow, Goto, Becomes, Writing
  <2>3. CASE StackRow(h)
    BY <2>3 DEF StackRow, At, Writing
  <2>4. CASE ResultRow(h)
    <3>1. (IF x.kind = "end" THEN "roomFinished" ELSE "closingRows") \in Writing \ {"save"}
      BY DEF Writing
    <3>2. QED BY <2>4, <3>1 DEF ResultRow, At
  <2>5. CASE ClosingRows(h)
    BY <2>5 DEF ClosingRows, Goto, Becomes, Writing
  <2>6. CASE PlayerRows(h)
    <3>1. (IF x.table.game.status = "HAND_FINISHED" THEN "handRow" ELSE "roomPlaying")
            \in Writing \ {"save"}
      BY DEF Writing
    <3>2. QED BY <2>6, <3>1 DEF PlayerRows, Goto, Becomes
  <2>7. QED BY <2>1, <2>2, <2>3, <2>4, <2>5, <2>6
<1>4. \E y : slot' = [slot EXCEPT ![h] = y] /\ (y.pc = "save" => y.kind # "deal")
  <2>1. ASSUME NEW pc \in Writing, slot' = [slot EXCEPT ![h] = [x EXCEPT !.pc = pc]],
               pc = "save" => x.kind # "deal"
        PROVE  \E y : slot' = [slot EXCEPT ![h] = y] /\ (y.pc = "save" => y.kind # "deal")
    <3> DEFINE y == [x EXCEPT !.pc = pc]
    <3>1. y.pc = pc /\ y.kind = x.kind
      BY <1>2, Gone
    <3> HIDE DEF y
    <3>2. QED BY <2>1, <3>1 DEF y
  <2>2. ASSUME NEW s \in x.left, NEW pc \in Writing \ {"save"}, SeatDone(h, s, pc),
               x.pc # "save"
        PROVE  \E y : slot' = [slot EXCEPT ![h] = y] /\ (y.pc = "save" => y.kind # "deal")
    <3>1. s \in Seats
      BY <1>2 DEF Writers
    <3>2. PICK y \in Writers : slot' = [slot EXCEPT ![h] = y] /\ y.pc \in {x.pc, pc}
      BY <1>2, <2>2, <3>1, SeatDoneState
    <3>3. QED BY <2>2, <3>2
  <2>3. QED BY <1>3, <2>1, <2>2
<1>5. QED BY <1>1, <1>4, EndsBeside DEF At, IInv, Types

LEMMA DealsEndNothing ==
  ASSUME IInv, EndInv, Unharmed, NEW h \in Slots,
         NextHandNo(h) \/ CreateHand(h) \/ BotTurn(h) \/ BotAction(h)
  PROVE  EndInv'
<1>1. redis' = redis /\ room' = room /\ ~At(h, "delete")
  BY DEF NextHandNo, CreateHand, BotTurn, BotAction, At, rows
<1>2. \E y : slot' = [slot EXCEPT ![h] = y] /\ y.pc # "save"
  <2>1. CASE slot' = [slot EXCEPT ![h] = Idle]
    <3>1. Idle.pc # "save"
      BY DEF Idle
    <3>2. QED BY <2>1, <3>1, Elsewhere
  <2>2. CASE NextHandNo(h)
    <3> DEFINE y == [pc |-> "createHand", handNo |-> LatestHand + 1,
                     chips |-> slot[h].chips, dealer |-> slot[h].dealer]
    <3>1. slot' = [slot EXCEPT ![h] = y] /\ y.pc # "save"
      BY <2>2 DEF NextHandNo, Becomes
    <3> HIDE DEF y
    <3>2. QED BY <3>1
  <2>3. CASE CreateHand(h)
    <3>1. \/ slot' = [slot EXCEPT ![h] = Idle]
          \/ \E t : slot' = [slot EXCEPT ![h] = Computed("deal", t, "playerRows")]
      BY <2>3, Zenon DEF CreateHand, Becomes
    <3>2. QED BY <2>1, <3>1, ComputedElsewhere DEF Writing
  <2>4. CASE BotTurn(h)
    <3>1. ASSUME NEW d, slot' = [slot EXCEPT ![h] = [pc |-> "botAct", decision |-> d,
                                                     seat |-> redis.game.currentTurnSeat]]
          PROVE  \E y : slot' = [slot EXCEPT ![h] = y] /\ y.pc # "save"
      <4> DEFINE y == [pc |-> "botAct", seat |-> redis.game.currentTurnSeat, decision |-> d]
      <4>1. slot' = [slot EXCEPT ![h] = y] /\ y.pc # "save"
        BY <3>1
      <4> HIDE DEF y
      <4>2. QED BY <4>1
    <3>2. QED BY <2>1, <2>4, <3>1 DEF BotTurn, Becomes
  <2>5. CASE BotAction(h)
    <3>1. \/ slot' = [slot EXCEPT ![h] = Idle]
          \/ \E t : slot' = [slot EXCEPT ![h] = Computed("act", t, "actionRows")]
      BY <2>5 DEF BotAction, ReadAndApply, Becomes
    <3>2. QED BY <2>1, <3>1, ComputedElsewhere DEF Writing
  <2>6. QED BY <2>2, <2>3, <2>4, <2>5
<1>3. QED BY <1>1, <1>2, EndsBeside DEF IInv, Types

\* The room is finished by its end, which deletes the table next, or after its last hand.
LEMMA RoomFinishedEnds ==
  ASSUME IInv, AloneInv, Unharmed, NEW h \in Slots, RoomFinished(h)
  PROVE  EndInv'
<1> DEFINE x == slot[h]
           pc == IF x.kind = "end" THEN "delete" ELSE "save"
           y == [x EXCEPT !.pc = pc]
<1>1. /\ x.pc = "roomFinished" /\ x.pc \in Writing /\ redis' = redis
      /\ slot' = [slot EXCEPT ![h] = y]
  BY DEF RoomFinished, At, Goto, Becomes, Writing
<1>2. x \in Writers /\ x.kind \in {"finish", "end"}
  BY <1>1, Writer, WriterFields
<1>3. y.pc = pc /\ y.kind = x.kind
  BY <1>2 DEF Writers
<1> HIDE DEF y
<1>4. slot'[h] = y /\ \A g \in Slots : g # h => slot'[g].pc = "idle"
  BY <1>1 DEF AloneInv, Unharmed, At, IInv, Types
<1>5. \A g \in Slots : ~(slot'[g].pc = "save" /\ slot'[g].kind = "deal")
  BY <1>2, <1>3, <1>4
<1>6. CASE x.kind = "end"
  BY <1>3, <1>4, <1>5, <1>6 DEF EndInv, At
<1>7. CASE x.kind = "finish"
  <2>1. redis'.game.status = "HAND_FINISHED"
    BY <1>1, <1>7 DEF AloneInv, Unharmed, Follows
  <2>2. QED BY <1>5, <2>1 DEF EndInv, TableIs, At
<1>8. QED BY <1>2, <1>6, <1>7

\* An action saved while somebody deletes the table: no two handlers overlap.
LEMMA SaveEnds ==
  ASSUME IInv, AloneInv, EndInv, Unharmed, NEW h \in Slots, Save(h)
  PROVE  EndInv'
<1> DEFINE x == slot[h]
<1>1. /\ x.pc = "save" /\ x.pc \in Writing /\ redis' = x.table /\ room' = room
      /\ slot' = [slot EXCEPT ![h] = Idle]
  BY DEF Save, At, Writing, Becomes
<1>2. \A g \in Slots : slot'[g].pc = "idle"
  BY <1>1 DEF AloneInv, Unharmed, At, Idle, IInv, Types
<1>3. WriterIsWell(x, hands, room) /\ x.kind \in {"act", "deal", "finish"} /\ Follows(x, redis)
  BY <1>1, Writer, WriterFields DEF AloneInv, Unharmed
<1>4. ASSUME room' = "FINISHED", redis'.game.status = "PLAYING"
      PROVE  FALSE
  <2>1. CASE x.kind = "act"
    <3>1. PICK s \in Seats, d \in Decisions : IsTable(redis) /\ Accepts(redis.game, s, d)
      BY <1>1, <1>3, <2>1 DEF Follows
    <3>2. redis.game.status = "PLAYING"
      BY <3>1 DEF Accepts, MayCheck, MayCall, MayBet, MayRaise, MayAct
    <3>3. PICK g \in Slots : At(g, "delete")
      BY <1>1, <1>4, <3>1, <3>2 DEF EndInv, TableIs
    <3>4. QED BY <1>1, <3>3 DEF AloneInv, Unharmed, At
  <2>2. CASE x.kind = "deal"
    BY <1>1, <1>4, <2>2 DEF EndInv, At
  <2>3. CASE x.kind = "finish"
    BY <1>1, <1>3, <1>4, <2>3 DEF WriterIsWell
  <2>4. QED BY <1>3, <2>1, <2>2, <2>3
<1>5. QED BY <1>2, <1>4 DEF EndInv, TableIs, At

LEMMA NextEnds == IInv /\ AloneInv /\ EndInv /\ [Next]_vars => EndInv'
<1> SUFFICES ASSUME IInv, AloneInv, EndInv, [Next]_vars, Unharmed, Unharmed'
             PROVE  EndInv'
  BY UnharmedBefore DEF EndInv
<1>1. ASSUME NEW h \in Slots, Request(h) \/ TimerFires(h) PROVE EndInv'
  BY <1>1, RequestsEndNothing
<1>2. ASSUME NEW h \in Slots, RoomPlaying(h) PROVE EndInv'
  BY <1>2 DEF RoomPlaying, EndInv
<1>3. ASSUME NEW h \in Slots, DeleteTable(h) PROVE EndInv'
  <2>1. redis' = NoTable /\ room' = room /\ slot' = [slot EXCEPT ![h] = Idle]
    BY <1>3 DEF DeleteTable, Becomes, rows
  <2>2. ~IsTable(redis')
    BY <2>1 DEF IsTable, NoTable
  <2>3. \A g \in Slots : slot'[g].pc = "save" => slot'[g] = slot[g]
    BY <2>1 DEF Idle, IInv, Types
  <2>4. QED BY <2>1, <2>2, <2>3 DEF EndInv, TableIs, At
<1>4. ASSUME NEW h \in Slots, HandlerStep(h) PROVE EndInv'
  BY <1>2, <1>3, <1>4, RowsEndNothing, DealsEndNothing, RoomFinishedEnds, SaveEnds DEF HandlerStep
<1>5. CASE CloseRoom
  BY <1>5 DEF CloseRoom, EndInv
<1>6. CASE TableExpires
  <2>1. UNCHANGED <<room, slot>> /\ ~IsTable(redis')
    BY <1>6 DEF TableExpires, rows, process, IsTable, NoTable
  <2>2. QED BY <2>1 DEF EndInv, TableIs, At
<1>7. ASSUME Restart \/ \E h \in Slots : HandlerFails(h) PROVE FALSE
  BY <1>7 DEF Restart, HandlerFails, Unharmed
<1>8. CASE UNCHANGED vars
  BY <1>8 DEF vars, rows, process, EndInv, TableIs, At
<1>9. QED BY <1>1, <1>4, <1>5, <1>6, <1>7, <1>8 DEF Next

\* When the owner has ended the room, no table is left on which the hand could go on,
\* unless a write failed or another handler was in progress.
THEOREM EndedRoomsStayWithoutTable == Spec => []EndedRoomsHaveNoTable
<1>1. Init => EndInv
  BY DEF Init, EndInv, At, Idle
<1>2. IInv /\ AloneInv /\ EndInv => EndedRoomsHaveNoTable
  BY DEF EndInv, EndedRoomsHaveNoTable, Quiet, At
<1>3. QED BY <1>1, <1>2, NextEnds, Invariance, AloneInvariance, PTL DEF Spec

-----------------------------------------------------------------------------
(* Chips on the table *)

\* No action touches what the hand began with.
LEMMA MutatedKeepsStart ==
  ASSUME NEW st \in GameStates, NEW s, NEW d \in Decisions
  PROVE  Mutated(st, s, d).startHandChips = st.startHandChips
<1> DEFINE P(r) == "startHandChips" \in DOMAIN r /\ r.startHandChips = st.startHandChips
<1>1. P(st)
  BY DEF GameStates
<1>2. ASSUME NEW r, P(r), NEW n PROVE P(InvestChips(r, s, n))
  BY <1>2 DEF InvestChips
<1>3. ASSUME NEW r, P(r) PROVE P(HasActed(r, s)) /\ P(MarkFullAggression(r, s))
  BY <1>3 DEF HasActed, MarkFullAggression
<1>4. ASSUME NEW r, P(r), NEW n
      PROVE  /\ P([r EXCEPT !.currentBet = n]) /\ P([r EXCEPT !.minRaise = n])
             /\ P([r EXCEPT !.playerStatus[s] = n])
  BY <1>4
<1> HIDE DEF P
<1>5. P(Folded(st, s)) /\ P(Checked(st, s))
  BY <1>1, <1>3, <1>4 DEF Folded, Checked
<1>6. P(Called(st, s))
  BY <1>1, <1>2, <1>3 DEF Called
<1>7. ASSUME NEW n PROVE P(BetPlaced(st, s, n))
  <2> DEFINE paid == InvestChips(st, s, n)
             bet == [paid EXCEPT !.currentBet = paid.investedThisStreet[s], !.minRaise = n]
  <2>1. P(paid)
    BY <1>1, <1>2
  <2>2. BetPlaced(st, s, n) = MarkFullAggression(bet, s)
    BY DEF BetPlaced
  <2>3. P(bet)
    <3> HIDE DEF paid
    <3> QED BY <2>1 DEF P
  <2> HIDE DEF paid, bet
  <2>4. QED BY <1>3, <2>2, <2>3
<1>8. ASSUME NEW n PROVE P(RaisedTo(st, s, n))
  <2> DEFINE paid == [InvestChips(st, s, n - st.investedThisStreet[s]) EXCEPT !.currentBet = n]
             raised == [paid EXCEPT !.minRaise = n - st.currentBet]
  <2>1. P(paid)
    BY <1>1, <1>2, <1>4
  <2>2. RaisedTo(st, s, n) \in {MarkFullAggression(raised, s), HasActed(paid, s)}
    BY DEF RaisedTo
  <2> HIDE DEF paid
  <2>3. P(raised)
    BY <1>4, <2>1
  <2> HIDE DEF raised
  <2>4. QED BY <1>3, <2>1, <2>2, <2>3
<1>9. P(WentAllIn(st, s))
  <2> DEFINE paid == InvestChips(st, s, st.chips[s])
             total == st.investedThisStreet[s] + st.chips[s]
             raised == [paid EXCEPT !.currentBet = total]
             full == [raised EXCEPT !.minRaise = Max({@, total - st.currentBet})]
  <2>1. P(paid)
    BY <1>1, <1>2
  <2>2. WentAllIn(st, s) \in {HasActed(paid, s), MarkFullAggression(full, s), HasActed(raised, s)}
    BY DEF WentAllIn
  <2> HIDE DEF paid, total
  <2>3. P(raised)
    BY <1>4, <2>1
  <2> HIDE DEF raised
  <2>4. P(full)
    BY <1>4, <2>3
  <2> HIDE DEF full
  <2>5. QED BY <1>3, <2>1, <2>2, <2>3, <2>4
<1>10. d.type \in {"FOLD", "CHECK", "CALL", "BET", "RAISE", "ALL_IN"}
  BY DecisionTypes
<1>11. P(Mutated(st, s, d))
  BY <1>5, <1>6, <1>7, <1>8, <1>9, <1>10 DEF Mutated
<1>12. QED BY <1>11 DEF P

LEMMA AppliedWithin ==
  ASSUME NEW t \in GoodTables, Within(t), NEW s \in Seats, NEW d \in Decisions,
         Accepts(t.game, s, d), NEW r \in AfterDecision(t, s, d)
  PROVE  Within(r)
<1>1. r.game \in NormalizeAfterAction(Mutated(t.game, s, d), s, Ranks)
  BY DecidedTable
<1>2. GameInv(t.game) /\ t.game \in GameStates
  BY DEF GoodTables, GameInv
<1>3. RoundInv(Mutated(t.game, s, d))
  BY <1>2, MutatedRound
<1>4. Mutated(t.game, s, d).startHandChips = t.game.startHandChips
  BY <1>2, MutatedKeepsStart
<1>5. PaysWithinPot(r.game) /\ r.game.startHandChips = t.game.startHandChips
  BY <1>1, <1>3, <1>4, NormalizedPays
<1>6. QED BY <1>5 DEF Within

LEMMA BuyInTypes ==
  /\ BuyIn \in [Seats -> Nat] /\ BuyIn \in [Seats -> Nat \ {0}]
  /\ ChipTotal(BuyIn) \in Nat /\ ChipTotal(BuyIn) <= ChipTotal(BuyIn)
  /\ Min(Seats) \in Seats
<1>1. BuyIn \in [Seats -> Nat] /\ BuyIn \in [Seats -> Nat \ {0}]
  BY BuyInAssumption
<1>2. ChipTotal(BuyIn) \in Nat
  BY <1>1, SeatsTotal
<1>3. Seats # {}
  BY PlayersAssumption, FS_EmptySet
<1>4. QED BY <1>1, <1>2, <1>3, SeatsAssumption, MinOfNats

LEMMA DealtWithin ==
  ASSUME NEW n \in 1..MaxHands, NEW chips \in [Seats -> Nat], CanStartHand(chips),
         NEW dealer \in Seats, NEW r \in FirstTables(n, chips, dealer),
         ChipTotal(chips) <= ChipTotal(BuyIn)
  PROVE  /\ Within(r)
         /\ (~BlindsTakeAll /\ chips = BuyIn /\ dealer = Min(Seats)) => r.game.status = "PLAYING"
<1>1. r.game \in InitialGameStates(chips, dealer, Ranks)
  BY DealtTable
<1>2. PaysWithinPot(r.game) /\ r.game.startHandChips = chips
  BY <1>1, InitialPays
<1>3. ASSUME ~BlindsTakeAll, chips = BuyIn, dealer = Min(Seats)
      PROVE  r.game.status = "PLAYING"
  <2>1. BlindsPosted(BuyIn, Min(Seats)).chips # [ s \in Seats |-> 0 ]
    BY <1>3 DEF BlindsTakeAll
  <2>2. r.game \in InitialGameStates(BuyIn, Min(Seats), Ranks)
    BY <1>1, <1>3
  <2>3. QED BY <2>1, <2>2, BuyInTypes, PlayersAssumption, DealIsPlayed
<1>4. QED BY <1>2, <1>3 DEF Within

\* What is left for the next hand.
LEMMA TableWithin ==
  ASSUME NEW t \in GoodTables, Within(t)
  PROVE  /\ ChipsOf(t) <= ChipTotal(BuyIn)
         /\ t.game.status = "HAND_FINISHED" => /\ ChipTotal(t.game.chips) <= ChipTotal(BuyIn)
                                               /\ Within(OverTable(t))
<1>1. GameInv(t.game) /\ PaysWithinPot(t.game)
      /\ ChipTotal(t.game.startHandChips) <= ChipTotal(BuyIn)
  BY DEF GoodTables, Within
<1>2. /\ t.game.status = "PLAYING" =>
           ChipTotal(t.game.chips) + Pot(t.game) = ChipTotal(t.game.startHandChips)
      /\ t.game.status # "PLAYING" =>
           ChipTotal(t.game.chips) <= ChipTotal(t.game.startHandChips)
  BY <1>1, NoChipsAreMade
<1>3. /\ ChipTotal(t.game.chips) \in Nat /\ Pot(t.game) \in Nat
      /\ ChipTotal(t.game.startHandChips) \in Nat /\ ChipTotal(BuyIn) \in Nat
  BY <1>1, ChipsInAll, BuyInTypes
<1>4. t.game.status # "PLAYING" => ChipTotal(t.game.chips) <= ChipTotal(BuyIn)
  BY <1>1, <1>2, <1>3
<1>5. ASSUME t.game.status = "HAND_FINISHED" PROVE Within(OverTable(t))
  <2>1. OverTable(t).game = [t.game EXCEPT !.status = "ROOM_FINISHED", !.currentTurnSeat = NoSeat]
    BY OverTableIsGood
  <2>2. t.game \in GameStates
    BY <1>1 DEF GameInv
  <2>3. /\ OverTable(t).game.won = t.game.won
        /\ OverTable(t).game.startHandChips = t.game.startHandChips
        /\ OverTable(t).game.investedThisHand = t.game.investedThisHand
    BY <2>1, <2>2 DEF GameStates
  <2>4. QED BY <1>1, <1>5, <2>3 DEF Within, PaysWithinPot, Pot
<1>6. QED BY <1>1, <1>2, <1>4, <1>5 DEF ChipsOf

-----------------------------------------------------------------------------
(* No step brings more *)

\* Handler h becomes y.
LEMMA ChipsStep ==
  ASSUME IInv, ChipsInv, ~BlindsTakeAll, NEW h \in Slots, NEW y,
         slot' = [slot EXCEPT ![h] = y], CarriesNoMore(y),
         IsTable(redis') => Within(redis'),
         room' = "READY" => /\ room = "READY" /\ UNCHANGED <<redis, stacks>>
                            /\ BeforeTheFirstHand(y)
  PROVE  ChipsInv'
<1>1. slot'[h] = y /\ \A g \in Slots : g # h => slot'[g] = slot[g]
  BY DEF IInv, Types
<1>2. \A g \in Slots : CarriesNoMore(slot'[g])
  BY <1>1 DEF ChipsInv
<1>3. room' = "READY" => /\ stacks' = BuyIn /\ ~IsTable(redis')
                         /\ \A g \in Slots : BeforeTheFirstHand(slot'[g])
  BY <1>1 DEF ChipsInv
<1>4. QED BY <1>2, <1>3 DEF ChipsInv

\* The same when the table and the room are left alone.
LEMMA ChipsBeside ==
  ASSUME IInv, ChipsInv, ~BlindsTakeAll, NEW h \in Slots, UNCHANGED <<redis, room>>,
         \E y : /\ slot' = [slot EXCEPT ![h] = y] /\ CarriesNoMore(y)
                /\ room = "READY" => stacks' = stacks /\ BeforeTheFirstHand(y)
  PROVE  ChipsInv'
<1>1. PICK y : /\ slot' = [slot EXCEPT ![h] = y] /\ CarriesNoMore(y)
               /\ room = "READY" => stacks' = stacks /\ BeforeTheFirstHand(y)
  OBVIOUS
<1>2. IsTable(redis') => Within(redis')
  BY DEF ChipsInv
<1>3. QED BY <1>1, <1>2, ChipsStep

LEMMA PlainHandlers ==
  ASSUME NEW y, y.pc \in {"idle", "botTurn", "botAct"}
  PROVE  CarriesNoMore(y) /\ BeforeTheFirstHand(y)
BY DEF CarriesNoMore, BeforeTheFirstHand, Writing

LEMMA IdlePlain == Idle.pc = "idle" /\ CarriesNoMore(Idle) /\ BeforeTheFirstHand(Idle)
BY PlainHandlers DEF Idle

\* A decision is applied only to a stored table, so the room is not READY.
LEMMA AppliedChips ==
  ASSUME IInv, ChipsInv, ~BlindsTakeAll, NEW h \in Slots, NEW s \in Seats, NEW d \in Decisions,
         ReadAndApply(h, s, d), UNCHANGED <<redis, room>>
  PROVE  ChipsInv'
<1>1. PICK t \in AfterDecision(redis, s, d) :
        slot' = [slot EXCEPT ![h] = Computed("act", t, "actionRows")]
  BY DEF ReadAndApply, Becomes
<1>2. IsTable(redis) /\ Accepts(redis.game, s, d) /\ redis \in GoodTables
  BY DEF ReadAndApply, IInv, TableIsWell, IsTable, NoTable
<1>3. room # "READY" /\ Within(redis)
  BY <1>2 DEF ChipsInv
<1>4. Within(t)
  BY <1>2, <1>3, AppliedWithin
<1>5. CarriesNoMore(Computed("act", t, "actionRows"))
  BY <1>4 DEF CarriesNoMore, Computed
<1>6. QED BY <1>1, <1>3, <1>5, ChipsBeside

LEMMA RequestsBringNoChips ==
  ASSUME IInv, ChipsInv, ~BlindsTakeAll, NEW h \in Slots, Request(h) \/ TimerFires(h)
  PROVE  ChipsInv'
<1>1. UNCHANGED <<redis, room, stacks>> /\ Begins(h) /\ faults' = faults
  BY DEF Request, PlayerAction, StartFirstHand, NextHand, EndRoom, TimerFires, rows
<1>2. IsTable(redis) => redis \in GoodTables /\ Within(redis) /\ room # "READY"
  BY DEF IInv, TableIsWell, IsTable, NoTable, ChipsInv
<1>3. CASE PlayerAction(h)
  BY <1>1, <1>3, AppliedChips DEF PlayerAction
<1>4. CASE StartFirstHand(h)
  <2> DEFINE y == [pc |-> "handNo", chips |-> stacks, dealer |-> Min(Seats)]
  <2>1. slot' = [slot EXCEPT ![h] = y] /\ room = "READY"
    BY <1>4 DEF StartFirstHand, Becomes
  <2>2. stacks = BuyIn
    BY <2>1 DEF ChipsInv
  <2>3. y.pc = "handNo" /\ y.chips = BuyIn /\ y.dealer = Min(Seats)
    BY <2>2
  <2> HIDE DEF y
  <2>4. CarriesNoMore(y)
    BY <2>3, BuyInTypes DEF CarriesNoMore, Writing
  <2>5. BeforeTheFirstHand(y)
    BY <2>3 DEF BeforeTheFirstHand
  <2>6. QED BY <1>1, <2>1, <2>4, <2>5, ChipsBeside
<1>5. CASE NextHand(h)
  <2> DEFINE dealer == NextDealerSeat(redis.game.chips, redis.game.dealerSeat)
             over == Computed("finish", OverTable(redis), "roomFinished")
             next == [pc |-> "createHand", handNo |-> redis.handNo + 1,
                      chips |-> redis.game.chips, dealer |-> dealer]
  <2>1. /\ IsTable(redis) /\ redis.game.status = "HAND_FINISHED"
        /\ slot' = [slot EXCEPT ![h] = IF dealer = NoSeat THEN over ELSE next]
    BY <1>5 DEF NextHand, Becomes, OverTable
  <2>2. ChipTotal(redis.game.chips) <= ChipTotal(BuyIn) /\ Within(OverTable(redis))
    BY <1>2, <2>1, TableWithin
  <2>3. CarriesNoMore(over)
    BY <2>2 DEF CarriesNoMore, Computed
  <2>4. CarriesNoMore(next)
    BY <2>2 DEF CarriesNoMore, Writing
  <2> HIDE DEF dealer, over, next
  <2>5. QED BY <1>1, <1>2, <2>1, <2>3, <2>4, ChipsBeside
<1>6. CASE EndRoom(h)
  <2> DEFINE pc == IF IsTable(redis) /\ redis.game.status = "PLAYING"
                   THEN "handRow" ELSE "roomFinished"
             y == Computed("end", redis, pc)
  <2>1. slot' = [slot EXCEPT ![h] = y]
    BY <1>6 DEF EndRoom, Becomes
  <2>2. y.pc = pc /\ y.table = redis /\ pc \in {"handRow", "roomFinished"}
    BY DEF Computed
  <2>3. ~IsTable(redis) => pc = "roomFinished"
    OBVIOUS
  <2> HIDE DEF y, pc
  <2>4. CarriesNoMore(y)
    BY <1>2, <2>2 DEF CarriesNoMore
  <2>5. room = "READY" => BeforeTheFirstHand(y)
    BY <1>2, <2>2, <2>3 DEF BeforeTheFirstHand
  <2>6. QED BY <1>1, <2>1, <2>4, <2>5, ChipsBeside
<1>7. CASE TimerFires(h)
  <2> DEFINE y == [slot[h] EXCEPT !.pc = "botTurn"]
  <2>1. slot' = [slot EXCEPT ![h] = y] /\ slot[h] = Idle
    BY <1>1, <1>7, BeginsIdle DEF TimerFires, Goto, Becomes
  <2>2. y.pc = "botTurn"
    BY <2>1 DEF Idle
  <2> HIDE DEF y
  <2>3. CarriesNoMore(y) /\ BeforeTheFirstHand(y)
    BY <2>2, PlainHandlers
  <2>4. QED BY <1>1, <2>1, <2>3, ChipsBeside
<1>8. QED BY <1>3, <1>4, <1>5, <1>6, <1>7 DEF Request

\* Between two decisions a handler keeps its table.
LEMMA CarriedOn ==
  ASSUME NEW x \in Writers, NEW y \in Writers, CarriesNoMore(x), y.table = x.table
  PROVE  CarriesNoMore(y)
<1>1. x.pc \in Writing /\ y.pc \in Writing /\ "handNo" \notin Writing /\ "createHand" \notin Writing
  BY DEF Writers, Writing
<1>2. QED BY <1>1 DEF CarriesNoMore

LEMMA RowsBringNoChips ==
  ASSUME IInv, ChipsInv, ~BlindsTakeAll, NEW h \in Slots,
         \/ ActionRows(h) \/ HandRow(h) \/ StackRow(h) \/ ResultRow(h) \/ ClosingRows(h)
         \/ PlayerRows(h) \/ RoomPlaying(h) \/ RoomFinished(h)
  PROVE  ChipsInv'
<1> DEFINE x == slot[h]
<1>1. x \in Writers /\ redis' = redis
  BY GoesOn
<1>2. CarriesNoMore(x) /\ (IsTable(redis) => Within(redis))
      /\ (room = "READY" => BeforeTheFirstHand(x))
  BY DEF ChipsInv
<1>3. CASE ActionRows(h) \/ HandRow(h) \/ StackRow(h) \/ ResultRow(h) \/ ClosingRows(h)
           \/ RoomPlaying(h) \/ RoomFinished(h)
  <2>1. PICK y \in Writers : slot' = [slot EXCEPT ![h] = y] /\ y.table = x.table
    BY GoesOn
  <2>2. CarriesNoMore(y)
    BY <1>1, <1>2, <2>1, CarriedOn
  <2>3. \/ x.pc \in {"actionRows", "handRow", "stackRows", "resultRows", "closingRows"}
           /\ room' = room
        \/ room' \in {"PLAYING", "FINISHED"}
    BY <1>3, Zenon DEF ActionRows, HandRow, StackRow, ResultRow, ClosingRows, RoomPlaying,
                       RoomFinished, At
  <2>4. room' # "READY"
    BY <1>2, <2>3 DEF BeforeTheFirstHand
  <2>5. QED BY <1>1, <1>2, <2>1, <2>2, <2>4, ChipsStep
<1>4. CASE PlayerRows(h)
  <2> DEFINE pc == IF x.table.game.status = "HAND_FINISHED" THEN "handRow" ELSE "roomPlaying"
             y == [x EXCEPT !.pc = pc]
  <2>1. /\ slot' = [slot EXCEPT ![h] = y] /\ x.pc = "playerRows"
        /\ UNCHANGED <<room, stacks>>
    BY <1>4 DEF PlayerRows, Goto, Becomes, At
  <2>2. pc \in Writing /\ (x.table.game.status = "PLAYING" => pc = "roomPlaying")
    BY DEF Writing
  <2>3. y \in Writers /\ y.pc = pc /\ y.table = x.table
    BY <1>1, <2>2, Gone
  <2> HIDE DEF y, pc
  <2>4. CarriesNoMore(y)
    BY <1>1, <1>2, <2>3, CarriedOn
  <2>5. room = "READY" => BeforeTheFirstHand(y)
    BY <1>2, <2>1, <2>2, <2>3 DEF BeforeTheFirstHand
  <2>6. QED BY <1>1, <2>1, <2>4, <2>5, ChipsBeside
<1>5. QED BY <1>3, <1>4

LEMMA DealsBringNoChips ==
  ASSUME IInv, ChipsInv, ~BlindsTakeAll, NEW h \in Slots, NextHandNo(h) \/ CreateHand(h)
  PROVE  ChipsInv'
<1> DEFINE x == slot[h]
<1>1. UNCHANGED <<redis, room, stacks>> /\ x.pc \in {"handNo", "createHand"}
  BY DEF NextHandNo, CreateHand, At, rows
<1>2. HandlerIsWell(x, hands, room) /\ CarriesNoMore(x)
      /\ (room = "READY" => BeforeTheFirstHand(x))
  BY DEF IInv, HandlersAreWell, ChipsInv
<1>3. /\ ChipTotal(x.chips) <= ChipTotal(BuyIn)
      /\ room = "READY" => x.chips = BuyIn /\ x.dealer = Min(Seats)
  BY <1>1, <1>2 DEF CarriesNoMore, BeforeTheFirstHand
<1>4. CASE NextHandNo(h)
  <2> DEFINE y == [pc |-> "createHand", handNo |-> LatestHand + 1,
                   chips |-> x.chips, dealer |-> x.dealer]
  <2>1. slot' = [slot EXCEPT ![h] = y]
    BY <1>4 DEF NextHandNo, Becomes
  <2>2. y.pc = "createHand" /\ y.chips = x.chips /\ y.dealer = x.dealer
    OBVIOUS
  <2> HIDE DEF y
  <2>3. CarriesNoMore(y)
    BY <1>3, <2>2 DEF CarriesNoMore, Writing
  <2>4. room = "READY" => BeforeTheFirstHand(y)
    BY <1>3, <2>2 DEF BeforeTheFirstHand
  <2>5. QED BY <1>1, <2>1, <2>3, <2>4, ChipsBeside
<1>5. CASE CreateHand(h)
  <2>1. x.pc = "createHand"
    BY <1>5 DEF CreateHand, At
  <2>2. /\ x.chips \in [Seats -> Nat] /\ CanStartHand(x.chips)
        /\ x.dealer \in Seats /\ x.handNo \in 1..MaxHands
    BY <1>2, <2>1, AtWriting
  <2>3. \/ slot' = [slot EXCEPT ![h] = Idle]
        \/ \E t \in FirstTables(x.handNo, x.chips, x.dealer) :
             slot' = [slot EXCEPT ![h] = Computed("deal", t, "playerRows")]
    BY <1>5, Zenon DEF CreateHand, Becomes
  <2>4. ASSUME NEW t \in FirstTables(x.handNo, x.chips, x.dealer)
        PROVE  /\ CarriesNoMore(Computed("deal", t, "playerRows"))
               /\ room = "READY" => BeforeTheFirstHand(Computed("deal", t, "playerRows"))
    <3> DEFINE y == Computed("deal", t, "playerRows")
    <3>1. Within(t) /\ (room = "READY" => t.game.status = "PLAYING")
      BY <1>3, <2>2, DealtWithin
    <3>2. y.pc = "playerRows" /\ y.table = t
      BY DEF Computed
    <3> HIDE DEF y
    <3>3. CarriesNoMore(y) /\ (room = "READY" => BeforeTheFirstHand(y))
      BY <3>1, <3>2 DEF CarriesNoMore, BeforeTheFirstHand
    <3>4. QED BY <3>3 DEF y
  <2>5. QED BY <1>1, <2>3, <2>4, IdlePlain, ChipsBeside
<1>6. QED BY <1>4, <1>5

LEMMA BotsBringNoChips ==
  ASSUME IInv, ChipsInv, ~BlindsTakeAll, NEW h \in Slots, BotTurn(h) \/ BotAction(h)
  PROVE  ChipsInv'
<1>1. UNCHANGED <<redis, room, stacks>>
  BY DEF BotTurn, BotAction, rows
<1>2. CASE slot' = [slot EXCEPT ![h] = Idle]
  BY <1>1, <1>2, IdlePlain, ChipsBeside
<1>3. CASE BotTurn(h)
  <2>1. ASSUME NEW d, slot' = [slot EXCEPT ![h] = [pc |-> "botAct", decision |-> d,
                                                   seat |-> redis.game.currentTurnSeat]]
        PROVE  ChipsInv'
    <3> DEFINE y == [pc |-> "botAct", seat |-> redis.game.currentTurnSeat, decision |-> d]
    <3>1. slot' = [slot EXCEPT ![h] = y] /\ y.pc = "botAct"
      BY <2>1
    <3> HIDE DEF y
    <3>2. CarriesNoMore(y) /\ BeforeTheFirstHand(y)
      BY <3>1, PlainHandlers
    <3>3. QED BY <1>1, <3>1, <3>2, ChipsBeside
  <2>2. QED BY <1>2, <1>3, <2>1 DEF BotTurn, Becomes
<1>4. CASE BotAction(h)
  <2>1. slot[h].seat \in Seats /\ slot[h].decision \in Decisions
    BY <1>4, AtWriting DEF BotAction, At, IInv, HandlersAreWell
  <2>2. ReadAndApply(h, slot[h].seat, slot[h].decision) \/ slot' = [slot EXCEPT ![h] = Idle]
    BY <1>4 DEF BotAction, Becomes
  <2>3. QED BY <1>1, <1>2, <2>1, <2>2, AppliedChips
<1>5. QED BY <1>3, <1>4

LEMMA SavesBringNoChips ==
  ASSUME IInv, ChipsInv, ~BlindsTakeAll, NEW h \in Slots, Save(h) \/ DeleteTable(h)
  PROVE  ChipsInv'
<1> DEFINE x == slot[h]
<1>1. /\ slot' = [slot EXCEPT ![h] = Idle] /\ room' = room
      /\ x.pc \in {"save", "delete"}
  BY DEF Save, DeleteTable, Becomes, At, rows
<1>2. room' # "READY"
  BY <1>1 DEF ChipsInv, BeforeTheFirstHand
<1>3. IsTable(redis') => Within(redis')
  <2>1. CASE Save(h)
    <3>1. redis' = x.table /\ x.pc \in Writing
      BY <2>1 DEF Save, At, Writing
    <3>2. QED BY <3>1 DEF ChipsInv, CarriesNoMore
  <2>2. CASE DeleteTable(h)
    BY <2>2 DEF DeleteTable, IsTable, NoTable
  <2>3. QED BY <2>1, <2>2
<1>4. QED BY <1>1, <1>2, <1>3, IdlePlain, ChipsStep

LEMMA FaultsBringNoChips ==
  ASSUME IInv, ChipsInv, ~BlindsTakeAll
  PROVE  /\ \A h \in Slots : HandlerFails(h) => ChipsInv'
         /\ Restart => ChipsInv'
         /\ TableExpires => ChipsInv'
         /\ CloseRoom => ChipsInv'
<1>1. ASSUME NEW h \in Slots, HandlerFails(h) PROVE ChipsInv'
  <2>1. slot' = [slot EXCEPT ![h] = Idle] /\ UNCHANGED <<redis, room, stacks>>
    BY <1>1 DEF HandlerFails, Becomes, rows
  <2>2. QED BY <2>1, IdlePlain, ChipsBeside
<1>2. ASSUME Restart PROVE ChipsInv'
  <2>1. slot' = [ h \in Slots |-> Idle ] /\ UNCHANGED <<redis, room, stacks>>
    BY <1>2 DEF Restart, rows
  <2>2. QED BY <2>1, IdlePlain DEF ChipsInv
<1>3. ASSUME TableExpires PROVE ChipsInv'
  <2>1. ~IsTable(redis') /\ UNCHANGED <<room, stacks, slot>>
    BY <1>3 DEF TableExpires, rows, process, IsTable, NoTable
  <2>2. QED BY <2>1 DEF ChipsInv
<1>4. ASSUME CloseRoom PROVE ChipsInv'
  <2>1. room' = "CLOSED" /\ UNCHANGED <<redis, slot>>
    BY <1>4 DEF CloseRoom, process
  <2>2. QED BY <2>1 DEF ChipsInv
<1>5. QED BY <1>1, <1>2, <1>3, <1>4

LEMMA NextBringsNoChips == IInv /\ ChipsInv /\ [Next]_vars => ChipsInv'
<1> SUFFICES ASSUME IInv, ChipsInv, [Next]_vars, ~BlindsTakeAll PROVE ChipsInv'
  BY DEF ChipsInv
<1>1. ASSUME NEW h \in Slots, Request(h) \/ TimerFires(h) PROVE ChipsInv'
  BY <1>1, RequestsBringNoChips
<1>2. ASSUME NEW h \in Slots, HandlerStep(h) PROVE ChipsInv'
  BY <1>2, RowsBringNoChips, DealsBringNoChips, BotsBringNoChips, SavesBringNoChips
     DEF HandlerStep
<1>3. CASE UNCHANGED vars
  BY <1>3 DEF vars, rows, process, ChipsInv
<1>4. QED BY <1>1, <1>2, <1>3, FaultsBringNoChips DEF Next

\* However handlers overlap, fail and restart, the stored table never holds more chips than
\* the seats brought, unless the blinds take all the stacks whole.
THEOREM ChipsNeverAppear == Spec => []NoChipsAppear
<1>1. Init => ChipsInv
  BY IdlePlain DEF Init, ChipsInv, IsTable, NoTable
<1>2. IInv /\ ChipsInv => NoChipsAppear
  <2> SUFFICES ASSUME IInv, ChipsInv, IsTable(redis), ~BlindsTakeAll
               PROVE  ChipsOf(redis) <= ChipTotal(BuyIn)
    BY DEF NoChipsAppear
  <2>1. redis \in GoodTables /\ Within(redis)
    BY DEF IInv, TableIsWell, IsTable, NoTable, ChipsInv
  <2>2. QED BY <2>1, TableWithin
<1>3. QED BY <1>1, <1>2, NextBringsNoChips, Invariance, PTL DEF Spec

-----------------------------------------------------------------------------
(* The results of the room *)

\* What the hands T of the rows hs brought seat s, and what all that are over did.
NetOver(hs, s, T) ==
  ChipTotal([ n \in T |-> hs[n].net[s] ]) - ChipTotal([ n \in T |-> -hs[n].net[s] ])
FinishedOf(hs) == { n \in 1..MaxHands : hs[n].status = "FINISHED" }
NetOf(hs, s) == NetOver(hs, s, FinishedOf(hs))

\* The stacks f are what the seats brought with what the room brought them.
Balances(f, hs) == \A s \in Seats : f[s] = BuyIn[s] + NetOf(hs, s)

\* Nothing of hand n is booked, or everything just once.
Unbooked(hs, n) == hs[n].net = [ s \in Seats |-> 0 ] /\ hs[n].closings = 0
BookedOnce(hs, t) == hs[t.handNo].endChips = t.game.chips /\ hs[t.handNo].closings = 1

\* What a table has to do with the rows and the stacks while nobody writes them.
TableBooks(t, hs, st) ==
  IsTable(t) =>
    /\ t.game.status = "PLAYING" => st = t.game.startHandChips /\ Unbooked(hs, t.handNo)
    /\ t.game.status = "HAND_FINISHED" => st = t.game.chips /\ BookedOnce(hs, t)

\* Where between the two handler x is: the stacks are written seat by seat, then the results.
StacksAre(x, st) ==
  \A s \in Seats : st[s] = IF s \in x.left THEN x.table.game.startHandChips[s]
                           ELSE x.table.game.chips[s]
ResultsAre(x, hs) ==
  LET row == hs[x.table.handNo]
      ofSeat(s) == IF s \in x.left
                   THEN row.net[s] = 0 /\ x.table.game.startHandChips[s] = BuyIn[s] + NetOf(hs, s)
                   ELSE /\ row.endChips[s] = x.table.game.chips[s]
                        /\ x.table.game.chips[s] = BuyIn[s] + NetOf(hs, s)
  IN  row.closings = 0 /\ \A s \in Seats : ofSeat(s)
HandlerBooks(x, hs, st) ==
  /\ x.pc \in {"handNo", "createHand"} => x.chips = st
  /\ x.pc \in {"actionRows", "playerRows", "handRow"} =>
       /\ st = x.table.game.startHandChips /\ x.left = Seats
       /\ Unbooked(hs, x.table.handNo) /\ Balances(st, hs)
  /\ x.pc = "stackRows" =>
       /\ StacksAre(x, st)
       /\ Unbooked(hs, x.table.handNo) /\ Balances(x.table.game.startHandChips, hs)
  /\ x.pc = "resultRows" => st = x.table.game.chips /\ ResultsAre(x, hs)
  /\ x.pc = "closingRows" =>
       /\ st = x.table.game.chips /\ Balances(st, hs)
       /\ hs[x.table.handNo].endChips = st /\ hs[x.table.handNo].closings = 0
  /\ x.pc \in {"roomPlaying", "save"} => TableBooks(x.table, hs, st) /\ Balances(st, hs)
  /\ x.pc \in {"roomFinished", "delete"} => Balances(st, hs)
  /\ x.pc \in {"handRow", "stackRows", "resultRows", "closingRows"} =>
       x.kind = "end" \/ x.table.game.status = "HAND_FINISHED"

\* As long as nobody overlapped another or failed: whenever nobody is writing them, the
\* stacks agree with the results and with the stored table.
BooksInv ==
  Unharmed =>
    /\ \A h \in Slots : HandlerBooks(slot[h], hands, stacks)
    /\ (\A h \in Slots : slot[h].pc \notin Writing) =>
         TableBooks(redis, hands, stacks) /\ Balances(stacks, hands)

-----------------------------------------------------------------------------
(* What a seat won *)

\* Only gains are counted by a total of results.
LEMMA OnlyGains ==
  ASSUME NEW S, NEW f, \A y \in S : f[y] \in Int, NEW T \in SUBSET S
  PROVE  TotalOver(f, T) = TotalOver([ y \in S |-> IF f[y] > 0 THEN f[y] ELSE 0 ], T)
<1> DEFINE p == [ y \in S |-> IF f[y] > 0 THEN f[y] ELSE 0 ]
           g == [ y \in T |-> f[y] ]
           q == [ y \in T |-> p[y] ]
<1>1. \A u : u \in ChipUnits(g) <=> \E y \in T : \E k \in 1..f[y] : u = <<y, k>>
  BY UnitsAre
<1>2. \A u : u \in ChipUnits(q) <=> \E y \in T : \E k \in 1..p[y] : u = <<y, k>>
  <2> HIDE DEF p
  <2> QED BY UnitsAre
<1>3. \A y \in T : 1..f[y] = 1..p[y]
  <2> SUFFICES ASSUME NEW y \in T PROVE 1..f[y] = 1..p[y]
    OBVIOUS
  <2>1. f[y] \in Int /\ p[y] = IF f[y] > 0 THEN f[y] ELSE 0
    OBVIOUS
  <2> HIDE DEF p
  <2>2. QED BY <2>1
<1> HIDE DEF g, q
<1>4. ChipUnits(g) = ChipUnits(q)
  BY <1>1, <1>2, <1>3
<1>5. TotalOver(f, T) = TotalOver(p, T)
  BY <1>4 DEF TotalOver, ChipTotal, g, q
<1>6. QED BY <1>5

LEMMA GainsWith ==
  ASSUME NEW T, IsFiniteSet(T), NEW x, x \notin T, NEW f, \A y \in T \cup {x} : f[y] \in Int
  PROVE  /\ TotalOver(f, T \cup {x}) = TotalOver(f, T) + (IF f[x] > 0 THEN f[x] ELSE 0)
         /\ TotalOver(f, T) \in Nat
<1> DEFINE S == T \cup {x}
           p == [ y \in S |-> IF f[y] > 0 THEN f[y] ELSE 0 ]
<1>1. TotalOver(f, S) = TotalOver(p, S) /\ TotalOver(f, T) = TotalOver(p, T)
  <2>1. S \in SUBSET S /\ T \in SUBSET S
    OBVIOUS
  <2> HIDE DEF S
  <2>2. QED BY <2>1, OnlyGains DEF S
<1>2. \A y \in S : p[y] \in Nat
  OBVIOUS
<1>3. p[x] = (IF f[x] > 0 THEN f[x] ELSE 0)
  OBVIOUS
<1>4. p[x] \in Nat /\ \A y \in T : p[y] \in Nat
  BY <1>2
<1> HIDE DEF p
<1>5. TotalOver(p, T \cup {x}) = TotalOver(p, T) + p[x]
  BY <1>4, TotalWith
<1>6. TotalOver(p, T) \in Nat
  BY <1>4, TotalOverType
<1>7. QED BY <1>1, <1>3, <1>5, <1>6

\* Its results with one hand more, and their type.
LEMMA NetWith ==
  ASSUME NEW T, IsFiniteSet(T), NEW n, n \notin T, NEW hs, NEW s,
         \A m \in T \cup {n} : hs[m].net[s] \in Int
  PROVE  /\ NetOver(hs, s, T \cup {n}) = NetOver(hs, s, T) + hs[n].net[s]
         /\ NetOver(hs, s, T) \in Int
<1> DEFINE S == T \cup {n}
           f == [ m \in S |-> hs[m].net[s] ]
           g == [ m \in S |-> -hs[m].net[s] ]
<1>1. /\ ChipTotal([ m \in S |-> hs[m].net[s] ]) = TotalOver(f, S)
      /\ ChipTotal([ m \in T |-> hs[m].net[s] ]) = TotalOver(f, T)
  <2>1. [ m \in S |-> f[m] ] = [ m \in S |-> hs[m].net[s] ]
        /\ [ m \in T |-> f[m] ] = [ m \in T |-> hs[m].net[s] ]
    OBVIOUS
  <2> HIDE DEF f
  <2>2. QED BY <2>1 DEF TotalOver
<1>2. /\ ChipTotal([ m \in S |-> -hs[m].net[s] ]) = TotalOver(g, S)
      /\ ChipTotal([ m \in T |-> -hs[m].net[s] ]) = TotalOver(g, T)
  <2>1. [ m \in S |-> g[m] ] = [ m \in S |-> -hs[m].net[s] ]
        /\ [ m \in T |-> g[m] ] = [ m \in T |-> -hs[m].net[s] ]
    OBVIOUS
  <2> HIDE DEF g
  <2>2. QED BY <2>1 DEF TotalOver
<1>3. /\ \A m \in S : f[m] \in Int /\ g[m] \in Int
      /\ f[n] = hs[n].net[s] /\ g[n] = -hs[n].net[s] /\ hs[n].net[s] \in Int
  OBVIOUS
<1> HIDE DEF f, g
<1>4. /\ TotalOver(f, S) = TotalOver(f, T) + (IF f[n] > 0 THEN f[n] ELSE 0)
      /\ TotalOver(f, T) \in Nat
  BY <1>3, GainsWith
<1>5. /\ TotalOver(g, S) = TotalOver(g, T) + (IF g[n] > 0 THEN g[n] ELSE 0)
      /\ TotalOver(g, T) \in Nat
  BY <1>3, GainsWith
<1>6. /\ NetOver(hs, s, S) = TotalOver(f, S) - TotalOver(g, S)
      /\ NetOver(hs, s, T) = TotalOver(f, T) - TotalOver(g, T)
  BY <1>1, <1>2 DEF NetOver
<1> HIDE DEF S
<1>7. NetOver(hs, s, S) = NetOver(hs, s, T) + hs[n].net[s] /\ NetOver(hs, s, T) \in Int
  BY <1>3, <1>4, <1>5, <1>6
<1>8. QED BY <1>7 DEF S

\* Hands that are over without a result change nothing, nor do rows that keep theirs.
LEMMA NetKept ==
  ASSUME NEW hs, NEW hs2, NEW s, NEW T, NEW T2, T \in SUBSET T2,
         \A n \in T : hs2[n].net[s] = hs[n].net[s],
         \A n \in T2 \ T : hs2[n].net[s] = 0
  PROVE  NetOver(hs2, s, T2) = NetOver(hs, s, T)
<1> DEFINE f == [ m \in T2 |-> hs2[m].net[s] ]
           g == [ m \in T2 |-> -hs2[m].net[s] ]
<1>1. /\ [ m \in T2 |-> f[m] ] = [ m \in T2 |-> hs2[m].net[s] ]
      /\ [ m \in T |-> f[m] ] = [ m \in T |-> hs[m].net[s] ]
      /\ [ m \in T2 |-> g[m] ] = [ m \in T2 |-> -hs2[m].net[s] ]
      /\ [ m \in T |-> g[m] ] = [ m \in T |-> -hs[m].net[s] ]
  OBVIOUS
<1>2. \A n \in T2 \ T : f[n] = 0 /\ g[n] = 0
  <2> SUFFICES ASSUME NEW n \in T2 \ T PROVE f[n] = 0 /\ g[n] = 0
    OBVIOUS
  <2>1. hs2[n].net[s] = 0
    OBVIOUS
  <2>2. f[n] = hs2[n].net[s] /\ g[n] = -hs2[n].net[s]
    OBVIOUS
  <2>3. -hs2[n].net[s] = 0
    <3>1. \A r \in Int : -r = 0 - r
      OBVIOUS
    <3>2. hs2[n].net[s] \in Int
      BY <2>1
    <3>3. -hs2[n].net[s] = 0 - hs2[n].net[s]
      BY <3>1, <3>2
    <3>4. QED BY <2>1, <3>3
  <2>4. QED BY <2>1, <2>2, <2>3
<1> HIDE DEF f, g
<1>3. TotalOver(f, T2) = TotalOver(f, T) /\ TotalOver(g, T2) = TotalOver(g, T)
  BY <1>2, TotalOfSome
<1>4. QED BY <1>1, <1>3 DEF NetOver, TotalOver

-----------------------------------------------------------------------------
(* Rows that keep their books *)

\* Other rows, the same results.
SameBooks(hs, hs2) ==
  \A n \in 1..MaxHands :
    /\ hs2[n].status = hs[n].status
    /\ hs[n] # NoHand => /\ hs2[n].net = hs[n].net /\ hs2[n].closings = hs[n].closings
                         /\ hs2[n].endChips = hs[n].endChips

LEMMA FinishedHandsAre ==
  ASSUME NEW hs \in AllRows
  PROVE  \A n \in FinishedOf(hs) : n \in 1..MaxHands /\ hs[n] # NoHand
BY DEF FinishedOf, NoHand

LEMMA SameNets ==
  ASSUME NEW hs \in AllRows, NEW hs2 \in AllRows, SameBooks(hs, hs2)
  PROVE  \A s \in Seats : NetOf(hs2, s) = NetOf(hs, s)
<1>1. FinishedOf(hs2) = FinishedOf(hs)
  BY DEF FinishedOf, SameBooks
<1>2. ASSUME NEW s \in Seats, NEW n \in FinishedOf(hs) PROVE hs2[n].net[s] = hs[n].net[s]
  BY FinishedHandsAre DEF SameBooks
<1>3. QED BY <1>1, <1>2, NetKept DEF NetOf

LEMMA SameTableBooks ==
  ASSUME NEW hs \in AllRows, NEW hs2 \in AllRows, SameBooks(hs, hs2), NEW t, NEW st,
         IsTable(t) => t.handNo \in 1..MaxHands /\ hs[t.handNo] # NoHand,
         TableBooks(t, hs, st)
  PROVE  TableBooks(t, hs2, st)
BY DEF TableBooks, Unbooked, BookedOnce, SameBooks

LEMMA SameBalances ==
  ASSUME NEW hs \in AllRows, NEW hs2 \in AllRows, SameBooks(hs, hs2), NEW f, Balances(f, hs)
  PROVE  Balances(f, hs2)
BY SameNets DEF Balances

\* A row of which neither status nor result changes.
LEMMA RowSameBooks ==
  ASSUME NEW hs \in AllRows, NEW n \in 1..MaxHands, hs[n] # NoHand, NEW r,
         r.status = hs[n].status, r.net = hs[n].net, r.closings = hs[n].closings,
         r.endChips = hs[n].endChips
  PROVE  SameBooks(hs, [hs EXCEPT ![n] = r])
<1> DEFINE hs2 == [hs EXCEPT ![n] = r]
<1>1. hs2[n] = r /\ \A m \in 1..MaxHands : m # n => hs2[m] = hs[m]
  BY DEF AllRows
<1> HIDE DEF hs2
<1>2. SameBooks(hs, hs2)
  BY <1>1 DEF SameBooks
<1>3. QED BY <1>2 DEF hs2

\* A new row, or a row that is over now, as long as it has no result.
LEMMA RowWithoutResult ==
  ASSUME NEW hs \in AllRows, NEW n \in 1..MaxHands, NEW r, NEW f, Balances(f, hs),
         r.status = "FINISHED" \/ hs[n].status # "FINISHED",
         r.net = [ s \in Seats |-> 0 ],
         hs[n].status = "FINISHED" => hs[n].net = [ s \in Seats |-> 0 ]
  PROVE  Balances(f, [hs EXCEPT ![n] = r])
<1> DEFINE hs2 == [hs EXCEPT ![n] = r]
<1>1. hs2[n] = r /\ \A m \in 1..MaxHands : m # n => hs2[m] = hs[m]
  BY DEF AllRows
<1> HIDE DEF hs2
<1>2. FinishedOf(hs) \in SUBSET FinishedOf(hs2)
      /\ \A m \in FinishedOf(hs2) : m = n \/ m \in FinishedOf(hs)
  BY <1>1 DEF FinishedOf
<1>3. ASSUME NEW s \in Seats PROVE NetOf(hs2, s) = NetOf(hs, s)
  <2>1. ASSUME NEW m \in FinishedOf(hs) PROVE hs2[m].net[s] = hs[m].net[s]
    <3>1. m \in 1..MaxHands /\ hs[m].status = "FINISHED"
      BY DEF FinishedOf
    <3>2. QED BY <1>1, <3>1
  <2>2. ASSUME NEW m \in FinishedOf(hs2) \ FinishedOf(hs) PROVE hs2[m].net[s] = 0
    BY <1>1, <1>2
  <2>3. QED BY <1>2, <2>1, <2>2, NetKept DEF NetOf
<1>4. Balances(f, hs2)
  BY <1>3 DEF Balances
<1>5. QED BY <1>4 DEF hs2

\* A result that is written: it counts for its seat, and for nobody else.
LEMMA ResultCounts ==
  ASSUME NEW hs \in AllRows, NEW hs2 \in AllRows, NEW n \in 1..MaxHands,
         hs[n].status = "FINISHED", hs2[n].status = "FINISHED",
         \A m \in 1..MaxHands : m # n => hs2[m] = hs[m],
         NEW s \in Seats
  PROVE  /\ hs2[n].net[s] = hs[n].net[s] => NetOf(hs2, s) = NetOf(hs, s)
         /\ hs[n].net[s] = 0 => NetOf(hs2, s) = NetOf(hs, s) + hs2[n].net[s]
         /\ NetOf(hs, s) \in Int
<1> DEFINE F == FinishedOf(hs)
           T == F \ {n}
<1>1. FinishedOf(hs2) = F /\ n \in F /\ T \cup {n} = F /\ n \notin T
  BY DEF FinishedOf
<1>2. IsFiniteSet(T)
  <2>1. MaxHands \in Nat
    BY BoundsAssumption
  <2>2. IsFiniteSet(1..MaxHands)
    BY <2>1, FS_Interval, 1 \in Int
  <2>3. T \in SUBSET (1..MaxHands)
    BY DEF FinishedOf
  <2> HIDE DEF T
  <2>4. QED BY <2>2, <2>3, FS_Subset
<1>3. ASSUME NEW m \in F PROVE m \in 1..MaxHands /\ hs[m].net[s] \in Int /\ hs2[m].net[s] \in Int
  <2>1. m \in 1..MaxHands /\ hs[m] # NoHand
    BY FinishedHandsAre
  <2>2. hs2[m] # NoHand
    <3>1. m \in FinishedOf(hs2)
      BY <1>1
    <3>2. QED BY <3>1, FinishedHandsAre
  <2>3. hs[m].net \in [Seats -> Int] /\ hs2[m].net \in [Seats -> Int]
    BY <2>1, <2>2, RowTypes
  <2>4. QED BY <2>1, <2>3
<1>4. \A m \in T : hs2[m].net[s] = hs[m].net[s]
  BY <1>3
<1> HIDE DEF T, F
<1>5. NetOver(hs, s, F) = NetOver(hs, s, T) + hs[n].net[s] /\ NetOver(hs, s, T) \in Int
  <2>1. \A m \in T \cup {n} : hs[m].net[s] \in Int
    BY <1>1, <1>3
  <2>2. /\ NetOver(hs, s, T \cup {n}) = NetOver(hs, s, T) + hs[n].net[s]
        /\ NetOver(hs, s, T) \in Int
    BY <1>1, <1>2, <2>1, NetWith
  <2>3. QED BY <1>1, <2>2
<1>6. NetOver(hs2, s, F) = NetOver(hs2, s, T) + hs2[n].net[s]
  <2>1. \A m \in T \cup {n} : hs2[m].net[s] \in Int
    BY <1>1, <1>3
  <2>2. n \notin T
    BY <1>1
  <2>3. /\ NetOver(hs2, s, T \cup {n}) = NetOver(hs2, s, T) + hs2[n].net[s]
        /\ NetOver(hs2, s, T) \in Int
    BY <1>2, <2>1, <2>2, NetWith
  <2>4. QED BY <1>1, <2>3
<1>7. NetOver(hs2, s, T) = NetOver(hs, s, T)
  <2>1. T \in SUBSET T /\ \A m \in T \ T : hs2[m].net[s] = 0
    OBVIOUS
  <2>2. QED BY <1>4, <2>1, NetKept
<1>8. hs[n].net[s] \in Int /\ hs2[n].net[s] \in Int
  BY <1>1, <1>3
<1>9. NetOf(hs, s) = NetOver(hs, s, F) /\ NetOf(hs2, s) = NetOver(hs2, s, F)
  BY <1>1 DEF NetOf, F
<1>10. QED BY <1>5, <1>6, <1>7, <1>8, <1>9

-----------------------------------------------------------------------------
(* The only handler in progress *)

LEMMA IdleBooks ==
  ASSUME NEW hs, NEW st PROVE HandlerBooks(Idle, hs, st) /\ Idle.pc \notin Writing
BY DEF HandlerBooks, Idle, Writing

\* Before the step of a handler, alone as it is: the others are idle.
LEMMA BooksBefore ==
  ASSUME IInv, AloneInv, BooksInv, Unharmed, NEW h \in Slots,
         ~At(h, "idle") \/ \A g \in Slots : g # h => At(g, "idle")
  PROVE  /\ DOMAIN slot = Slots /\ hands \in AllRows /\ stacks \in [Seats -> Nat]
         /\ \A g \in Slots : g # h => slot[g] = Idle
         /\ HandlerBooks(slot[h], hands, stacks)
         /\ slot[h].pc \notin Writing =>
              TableBooks(redis, hands, stacks) /\ Balances(stacks, hands)
         /\ IsTable(redis) =>
              redis.handNo \in 1..MaxHands /\ hands[redis.handNo] # NoHand
<1>1. DOMAIN slot = Slots /\ hands \in AllRows /\ stacks \in [Seats -> Nat]
  BY DEF IInv, Types
<1>2. ASSUME NEW g \in Slots, g # h PROVE slot[g] = Idle
  <2>1. At(g, "idle")
    BY <1>2 DEF AloneInv, Unharmed
  <2>2. HandlerIsWell(slot[g], hands, room)
    BY DEF IInv, HandlersAreWell
  <2>3. QED BY <2>1, <2>2, AtWriting DEF At
<1>3. HandlerBooks(slot[h], hands, stacks)
  BY DEF BooksInv
<1>4. ASSUME slot[h].pc \notin Writing
      PROVE  TableBooks(redis, hands, stacks) /\ Balances(stacks, hands)
  <2>1. \A g \in Slots : slot[g].pc \notin Writing
    BY <1>2, <1>4, IdleBooks
  <2>2. QED BY <2>1 DEF BooksInv
<1>5. IsTable(redis) => redis.handNo \in 1..MaxHands /\ hands[redis.handNo] # NoHand
  <2>1. IsTable(redis) => redis \in GoodTables /\ hands[redis.handNo] # NoHand
    BY DEF IInv, TableIsWell, IsTable, NoTable
  <2>2. QED BY <2>1, TableTypes
<1>6. QED BY <1>1, <1>2, <1>3, <1>4, <1>5

\* After it: the handler has become y.
LEMMA BooksStep ==
  ASSUME DOMAIN slot = Slots, NEW h \in Slots, \A g \in Slots : g # h => slot[g] = Idle,
         NEW y, slot' = [slot EXCEPT ![h] = y], HandlerBooks(y, hands', stacks'),
         y.pc \notin Writing =>
           TableBooks(redis', hands', stacks') /\ Balances(stacks', hands')
  PROVE  BooksInv'
<1>1. slot'[h] = y /\ \A g \in Slots : g # h => slot'[g] = Idle
  OBVIOUS
<1>2. \A g \in Slots : HandlerBooks(slot'[g], hands', stacks')
  BY <1>1, IdleBooks
<1>3. (\A g \in Slots : slot'[g].pc \notin Writing) =>
        TableBooks(redis', hands', stacks') /\ Balances(stacks', hands')
  BY <1>1
<1>4. QED BY <1>2, <1>3 DEF BooksInv

\* The same when the step leaves the rows, the stacks and the table alone.
LEMMA BooksBeside ==
  ASSUME IInv, AloneInv, BooksInv, Unharmed, NEW h \in Slots,
         ~At(h, "idle") \/ \A g \in Slots : g # h => At(g, "idle"),
         UNCHANGED <<redis, hands, stacks>>, slot[h].pc \notin Writing,
         \E y : slot' = [slot EXCEPT ![h] = y] /\ HandlerBooks(y, hands, stacks)
  PROVE  BooksInv'
<1>1. PICK y : slot' = [slot EXCEPT ![h] = y] /\ HandlerBooks(y, hands, stacks)
  OBVIOUS
<1>2. /\ DOMAIN slot = Slots /\ \A g \in Slots : g # h => slot[g] = Idle
      /\ TableBooks(redis, hands, stacks) /\ Balances(stacks, hands)
  BY BooksBefore
<1>3. QED BY <1>1, <1>2, BooksStep

\* A handler whose table and rows are about to be written.
LEMMA ComputedBooks ==
  ASSUME NEW hs, NEW st, NEW kind, NEW t, NEW pc \in {"actionRows", "playerRows", "handRow"},
         st = t.game.startHandChips, Unbooked(hs, t.handNo), Balances(st, hs),
         pc = "handRow" => kind = "end"
  PROVE  HandlerBooks(Computed(kind, t, pc), hs, st)
<1> DEFINE y == Computed(kind, t, pc)
<1>1. y.pc = pc /\ y.table = t /\ y.left = Seats /\ y.kind = kind
  BY DEF Computed
<1> HIDE DEF y
<1>2. HandlerBooks(y, hs, st)
  BY <1>1 DEF HandlerBooks
<1>3. QED BY <1>2 DEF y

LEMMA AppliedBooks ==
  ASSUME IInv, NEW h \in Slots, NEW s \in Seats, NEW d \in Decisions, ReadAndApply(h, s, d),
         TableBooks(redis, hands, stacks), Balances(stacks, hands)
  PROVE  \E y : slot' = [slot EXCEPT ![h] = y] /\ HandlerBooks(y, hands, stacks)
<1>1. PICK t \in AfterDecision(redis, s, d) :
        slot' = [slot EXCEPT ![h] = Computed("act", t, "actionRows")]
  BY DEF ReadAndApply, Becomes
<1>2. IsTable(redis) /\ Accepts(redis.game, s, d) /\ redis \in GoodTables
  BY DEF ReadAndApply, IInv, TableIsWell, IsTable, NoTable
<1>3. redis.game.status = "PLAYING"
  BY <1>2 DEF Accepts, MayCheck, MayCall, MayBet, MayRaise, MayAct
<1>4. stacks = redis.game.startHandChips /\ Unbooked(hands, redis.handNo)
  BY <1>2, <1>3 DEF TableBooks
<1>5. t.game \in NormalizeAfterAction(Mutated(redis.game, s, d), s, Ranks)
      /\ t.handNo = redis.handNo
  BY <1>2, DecidedTable
<1>6. redis.game \in GameStates /\ GameInv(redis.game)
  BY <1>2 DEF GoodTables, GameInv
<1>7. RoundInv(Mutated(redis.game, s, d))
  BY <1>2, <1>6, MutatedRound
<1>8. t.game.startHandChips = redis.game.startHandChips
  BY <1>5, <1>6, <1>7, MutatedKeepsStart, NormalizedPays
<1>9. HandlerBooks(Computed("act", t, "actionRows"), hands, stacks)
  BY <1>4, <1>5, <1>8, ComputedBooks
<1>10. QED BY <1>1, <1>9

LEMMA RequestsKeepBooks ==
  ASSUME IInv, AloneInv, BooksInv, Unharmed, Unharmed', NEW h \in Slots,
         Request(h) \/ TimerFires(h)
  PROVE  BooksInv'
<1>1. UNCHANGED <<redis, hands, stacks>> /\ Begins(h) /\ faults' = faults
  BY DEF Request, PlayerAction, StartFirstHand, NextHand, EndRoom, TimerFires, rows
<1>2. slot[h] = Idle /\ \A g \in Slots : g # h => At(g, "idle")
  BY <1>1, BeginsIdle DEF Unharmed, Alone
<1>3. /\ TableBooks(redis, hands, stacks) /\ Balances(stacks, hands)
      /\ slot[h].pc \notin Writing
  BY <1>2, BooksBefore, IdleBooks
<1>4. CASE PlayerAction(h)
  BY <1>1, <1>2, <1>3, <1>4, AppliedBooks, BooksBeside DEF PlayerAction
<1>5. CASE StartFirstHand(h)
  <2> DEFINE y == [pc |-> "handNo", chips |-> stacks, dealer |-> Min(Seats)]
  <2>1. slot' = [slot EXCEPT ![h] = y]
    BY <1>5 DEF StartFirstHand, Becomes
  <2>2. y.pc = "handNo" /\ y.chips = stacks
    OBVIOUS
  <2> HIDE DEF y
  <2>3. HandlerBooks(y, hands, stacks)
    BY <2>2 DEF HandlerBooks
  <2>4. QED BY <1>1, <1>2, <1>3, <2>1, <2>3, BooksBeside
<1>6. CASE NextHand(h)
  <2> DEFINE dealer == NextDealerSeat(redis.game.chips, redis.game.dealerSeat)
             over == Computed("finish", OverTable(redis), "roomFinished")
             next == [pc |-> "createHand", handNo |-> redis.handNo + 1,
                      chips |-> redis.game.chips, dealer |-> dealer]
  <2>1. /\ IsTable(redis) /\ redis.game.status = "HAND_FINISHED"
        /\ slot' = [slot EXCEPT ![h] = IF dealer = NoSeat THEN over ELSE next]
    BY <1>6 DEF NextHand, Becomes, OverTable
  <2>2. HandlerBooks(over, hands, stacks)
    <3>1. over.pc = "roomFinished"
      BY DEF Computed
    <3> HIDE DEF over
    <3>2. QED BY <1>3, <3>1 DEF HandlerBooks
  <2>3. HandlerBooks(next, hands, stacks)
    <3>1. next.pc = "createHand" /\ next.chips = redis.game.chips
      OBVIOUS
    <3>2. stacks = redis.game.chips
      BY <1>3, <2>1 DEF TableBooks
    <3> HIDE DEF next
    <3>3. QED BY <3>1, <3>2 DEF HandlerBooks
  <2> HIDE DEF dealer, over, next
  <2>4. QED BY <1>1, <1>2, <1>3, <2>1, <2>2, <2>3, BooksBeside
<1>7. CASE EndRoom(h)
  <2>1. CASE IsTable(redis) /\ redis.game.status = "PLAYING"
    <3>1. slot' = [slot EXCEPT ![h] = Computed("end", redis, "handRow")]
      BY <1>7, <2>1 DEF EndRoom, Becomes
    <3>2. stacks = redis.game.startHandChips /\ Unbooked(hands, redis.handNo)
      BY <1>3, <2>1 DEF TableBooks
    <3>3. HandlerBooks(Computed("end", redis, "handRow"), hands, stacks)
      BY <1>3, <3>2, ComputedBooks
    <3>4. QED BY <1>1, <1>2, <1>3, <3>1, <3>3, BooksBeside
  <2>2. CASE ~(IsTable(redis) /\ redis.game.status = "PLAYING")
    <3> DEFINE y == Computed("end", redis, "roomFinished")
    <3>1. slot' = [slot EXCEPT ![h] = y]
      BY <1>7, <2>2 DEF EndRoom, Becomes
    <3>2. y.pc = "roomFinished" /\ y.kind = "end"
      BY DEF Computed
    <3> HIDE DEF y
    <3>3. HandlerBooks(y, hands, stacks)
      BY <1>3, <3>2 DEF HandlerBooks
    <3>4. QED BY <1>1, <1>2, <1>3, <3>1, <3>3, BooksBeside
  <2>3. QED BY <2>1, <2>2
<1>8. CASE TimerFires(h)
  <2> DEFINE y == [slot[h] EXCEPT !.pc = "botTurn"]
  <2>1. slot' = [slot EXCEPT ![h] = y]
    BY <1>8 DEF TimerFires, Goto, Becomes
  <2>2. y.pc = "botTurn"
    BY <1>2 DEF Idle
  <2> HIDE DEF y
  <2>3. HandlerBooks(y, hands, stacks)
    BY <2>2 DEF HandlerBooks
  <2>4. QED BY <1>1, <1>2, <1>3, <2>1, <2>3, BooksBeside
<1>9. QED BY <1>4, <1>5, <1>6, <1>7, <1>8 DEF Request

LEMMA BotsKeepBooks ==
  ASSUME IInv, AloneInv, BooksInv, Unharmed, NEW h \in Slots, BotTurn(h) \/ BotAction(h)
  PROVE  BooksInv'
<1>1. UNCHANGED <<redis, hands, stacks>> /\ ~At(h, "idle") /\ slot[h].pc \notin Writing
  BY DEF BotTurn, BotAction, rows, At, Writing
<1>2. TableBooks(redis, hands, stacks) /\ Balances(stacks, hands)
  BY <1>1, BooksBefore
<1>3. \E y : slot' = [slot EXCEPT ![h] = y] /\ HandlerBooks(y, hands, stacks)
  <2>1. CASE slot' = [slot EXCEPT ![h] = Idle]
    BY <2>1, IdleBooks
  <2>2. CASE BotTurn(h)
    <3>1. ASSUME NEW d, slot' = [slot EXCEPT ![h] = [pc |-> "botAct", decision |-> d,
                                                     seat |-> redis.game.currentTurnSeat]]
          PROVE  \E y : slot' = [slot EXCEPT ![h] = y] /\ HandlerBooks(y, hands, stacks)
      <4> DEFINE y == [pc |-> "botAct", seat |-> redis.game.currentTurnSeat, decision |-> d]
      <4>1. slot' = [slot EXCEPT ![h] = y] /\ y.pc = "botAct"
        BY <3>1
      <4> HIDE DEF y
      <4>2. HandlerBooks(y, hands, stacks)
        BY <4>1 DEF HandlerBooks
      <4>3. QED BY <4>1, <4>2
    <3>2. QED BY <2>1, <2>2, <3>1 DEF BotTurn, Becomes
  <2>3. CASE BotAction(h)
    <3>1. slot[h].seat \in Seats /\ slot[h].decision \in Decisions
      BY <2>3, AtWriting DEF BotAction, At, IInv, HandlersAreWell
    <3>2. ReadAndApply(h, slot[h].seat, slot[h].decision) \/ slot' = [slot EXCEPT ![h] = Idle]
      BY <2>3 DEF BotAction, Becomes
    <3>3. QED BY <1>2, <2>1, <3>1, <3>2, AppliedBooks
  <2>4. QED BY <2>2, <2>3
<1>4. QED BY <1>1, <1>3, BooksBeside

\* The stacks of the start of the hand are those it was dealt from.
LEMMA DealsKeepBooks ==
  ASSUME IInv, AloneInv, BooksInv, Unharmed, NEW h \in Slots, NextHandNo(h) \/ CreateHand(h)
  PROVE  BooksInv'
<1> DEFINE x == slot[h]
           n == x.handNo
<1>1. /\ UNCHANGED <<redis, stacks>> /\ ~At(h, "idle")
      /\ x.pc \in {"handNo", "createHand"} /\ x.pc \notin Writing
  BY DEF NextHandNo, CreateHand, At, rows, Writing
<1>2. /\ DOMAIN slot = Slots /\ \A g \in Slots : g # h => slot[g] = Idle
      /\ hands \in AllRows /\ HandlerBooks(x, hands, stacks)
      /\ TableBooks(redis, hands, stacks) /\ Balances(stacks, hands)
  BY <1>1, BooksBefore
<1>3. x.chips = stacks
  BY <1>1, <1>2 DEF HandlerBooks
<1>4. CASE NextHandNo(h)
  <2> DEFINE y == [pc |-> "createHand", handNo |-> LatestHand + 1,
                   chips |-> x.chips, dealer |-> x.dealer]
  <2>1. slot' = [slot EXCEPT ![h] = y] /\ hands' = hands
    BY <1>4 DEF NextHandNo, Becomes, rows
  <2>2. y.pc = "createHand" /\ y.chips = x.chips
    OBVIOUS
  <2> HIDE DEF y
  <2>3. HandlerBooks(y, hands, stacks)
    BY <1>3, <2>2 DEF HandlerBooks
  <2>4. QED BY <1>1, <2>1, <2>3, BooksBeside
<1>5. CASE CreateHand(h)
  <2> DEFINE r == [status |-> "PLAYING", players |-> FALSE, actions |-> 0, closings |-> 0,
                   endChips |-> [ s \in Seats |-> Unpaid ], net |-> [ s \in Seats |-> 0 ]]
  <2>1. x.pc = "createHand" /\ HandlerIsWell(x, hands, room)
    BY <1>5 DEF CreateHand, At, IInv, HandlersAreWell
  <2>2. /\ x.chips \in [Seats -> Nat] /\ CanStartHand(x.chips)
        /\ x.dealer \in Seats /\ n \in 1..MaxHands
    BY <2>1, AtWriting
  <2>3. CASE hands[n].status # "NONE"
    <3>1. slot' = [slot EXCEPT ![h] = Idle] /\ hands' = hands
      BY <1>5, <2>3 DEF CreateHand, Becomes
    <3>2. QED BY <1>1, <3>1, IdleBooks, BooksBeside
  <2>4. CASE hands[n].status = "NONE"
    <3>1. /\ hands' = [hands EXCEPT ![n] = r]
          /\ \E t \in FirstTables(n, x.chips, x.dealer) :
               slot' = [slot EXCEPT ![h] = Computed("deal", t, "playerRows")]
      BY <1>5, <2>4 DEF CreateHand, Becomes
    <3>2. PICK t \in FirstTables(n, x.chips, x.dealer) :
            slot' = [slot EXCEPT ![h] = Computed("deal", t, "playerRows")]
      BY <3>1
    <3>3. t.handNo = n /\ t.game.startHandChips = x.chips
      BY <2>2, DealtTable, InitialPays
    <3>4. r.status = "PLAYING" /\ r.net = [ s \in Seats |-> 0 ] /\ r.closings = 0
      OBVIOUS
    <3> HIDE DEF r
    <3>5. Balances(stacks, [hands EXCEPT ![n] = r])
      BY <1>2, <2>2, <2>4, <3>4, RowWithoutResult
    <3>6. Unbooked(hands', n)
      <4>1. hands'[n] = r
        BY <1>2, <2>2, <3>1 DEF AllRows
      <4>2. QED BY <3>4, <4>1 DEF Unbooked
    <3>7. HandlerBooks(Computed("deal", t, "playerRows"), hands', stacks')
      BY <1>1, <1>3, <3>1, <3>3, <3>5, <3>6, ComputedBooks
    <3>8. Computed("deal", t, "playerRows").pc \in Writing
      BY DEF Computed, Writing
    <3>9. QED BY <1>2, <3>2, <3>7, <3>8, BooksStep
  <2>5. QED BY <2>3, <2>4
<1>6. QED BY <1>4, <1>5

\* A step of a writing handler that keeps the books of the rows and the stacks.
LEMMA PlainRowsKeepBooks ==
  ASSUME IInv, AloneInv, BooksInv, Unharmed, NEW h \in Slots,
         ActionRows(h) \/ PlayerRows(h)
  PROVE  BooksInv'
<1> DEFINE x == slot[h]
           t == x.table
           n == t.handNo
           over == t.game.status = "HAND_FINISHED"
           pc == IF over THEN "handRow" ELSE IF x.pc = "actionRows" THEN "save" ELSE "roomPlaying"
           y == [x EXCEPT !.pc = pc]
<1>1. /\ x.pc \in {"actionRows", "playerRows"} /\ x.pc \in Writing /\ pc \in Writing
      /\ UNCHANGED <<redis, stacks>> /\ ~At(h, "idle")
      /\ slot' = [slot EXCEPT ![h] = y]
  <2>1. CASE ActionRows(h)
    BY <2>1 DEF ActionRows, At, Goto, Becomes, Writing
  <2>2. CASE PlayerRows(h)
    BY <2>2 DEF PlayerRows, At, Goto, Becomes, Writing
  <2>3. QED BY <2>1, <2>2
<1>2. /\ DOMAIN slot = Slots /\ \A g \in Slots : g # h => slot[g] = Idle
      /\ HandlerBooks(x, hands, stacks)
  BY <1>1, BooksBefore
<1>3. /\ x \in Writers /\ n \in 1..MaxHands /\ hands[n] # NoHand /\ hands[n] \in HandRows
      /\ hands \in AllRows /\ t \in GoodTables
  BY <1>1, Writer
<1>4. SameBooks(hands, hands')
  <2>1. CASE ActionRows(h)
    <3> DEFINE r == [hands[n] EXCEPT !.actions = @ + 1]
    <3>1. hands' = [hands EXCEPT ![n] = r]
      BY <2>1 DEF ActionRows
    <3>2. /\ r.status = hands[n].status /\ r.net = hands[n].net
          /\ r.closings = hands[n].closings /\ r.endChips = hands[n].endChips
      BY <1>3 DEF HandRows
    <3> HIDE DEF r
    <3>3. QED BY <1>3, <3>1, <3>2, RowSameBooks
  <2>2. CASE PlayerRows(h)
    <3> DEFINE r == [hands[n] EXCEPT !.players = TRUE]
    <3>1. hands' = [hands EXCEPT ![n] = r]
      BY <2>2 DEF PlayerRows
    <3>2. /\ r.status = hands[n].status /\ r.net = hands[n].net
          /\ r.closings = hands[n].closings /\ r.endChips = hands[n].endChips
      BY <1>3 DEF HandRows
    <3> HIDE DEF r
    <3>3. QED BY <1>3, <3>1, <3>2, RowSameBooks
  <2>3. QED BY <2>1, <2>2
<1>5. hands' \in AllRows
  <2>1. IInv'
    BY ActionRowsWell, PlayerRowsWell
  <2>2. QED BY <2>1 DEF IInv, Types
<1>6. /\ stacks = t.game.startHandChips /\ x.left = Seats
      /\ Unbooked(hands, n) /\ Balances(stacks, hands)
  BY <1>1, <1>2 DEF HandlerBooks
<1>7. Unbooked(hands', n) /\ Balances(stacks, hands')
  <2>1. Balances(stacks, hands')
    BY <1>3, <1>4, <1>5, <1>6, SameBalances
  <2>2. QED BY <1>3, <1>4, <1>6, <2>1 DEF Unbooked, SameBooks
<1>8. y.pc = pc /\ y.table = t /\ y.left = x.left
  BY <1>1, <1>3, Gone
<1>9. pc \in {"handRow", "save", "roomPlaying"} /\ (pc = "handRow" <=> over)
  OBVIOUS
<1> HIDE DEF y, pc
<1>10. HandlerBooks(y, hands', stacks')
  <2>1. CASE pc = "handRow"
    BY <1>1, <1>6, <1>7, <1>8, <1>9, <2>1 DEF HandlerBooks
  <2>2. CASE pc \in {"save", "roomPlaying"}
    <3>1. TableBooks(t, hands', stacks')
      BY <1>1, <1>6, <1>7, <1>9, <2>2 DEF TableBooks
    <3>2. QED BY <1>1, <1>7, <1>8, <2>2, <3>1 DEF HandlerBooks
  <2>3. QED BY <1>9, <2>1, <2>2
<1>11. QED BY <1>1, <1>2, <1>8, <1>10, BooksStep

\* The hand is over: from now on its results count, and it has none yet.
LEMMA HandRowKeepsBooks ==
  ASSUME IInv, AloneInv, BooksInv, Unharmed, NEW h \in Slots, HandRow(h)
  PROVE  BooksInv'
<1> DEFINE x == slot[h]
           t == x.table
           n == t.handNo
           r == [hands[n] EXCEPT !.status = "FINISHED"]
           y == [x EXCEPT !.pc = "stackRows"]
<1>1. /\ x.pc = "handRow" /\ x.pc \in Writing /\ "stackRows" \in Writing
      /\ stacks' = stacks /\ ~At(h, "idle")
      /\ hands' = [hands EXCEPT ![n] = r] /\ slot' = [slot EXCEPT ![h] = y]
  BY DEF HandRow, At, Goto, Becomes, Writing
<1>2. /\ DOMAIN slot = Slots /\ \A g \in Slots : g # h => slot[g] = Idle
      /\ HandlerBooks(x, hands, stacks)
  BY <1>1, BooksBefore
<1>3. /\ x \in Writers /\ n \in 1..MaxHands /\ hands[n] # NoHand /\ hands[n] \in HandRows
      /\ hands \in AllRows
  BY <1>1, Writer
<1>4. /\ stacks = t.game.startHandChips /\ x.left = Seats
      /\ Unbooked(hands, n) /\ Balances(stacks, hands)
      /\ x.kind = "end" \/ t.game.status = "HAND_FINISHED"
  BY <1>1, <1>2 DEF HandlerBooks
<1>5. r.status = "FINISHED" /\ r.net = hands[n].net /\ r.closings = hands[n].closings
  BY <1>3 DEF HandRows
<1>6. y.pc = "stackRows" /\ y.table = t /\ y.left = x.left /\ y.kind = x.kind
  BY <1>1, <1>3, Gone
<1> HIDE DEF r, y
<1>7. hands[n].net = [ s \in Seats |-> 0 ] /\ hands[n].closings = 0
  BY <1>4 DEF Unbooked
<1>8. Balances(stacks, hands')
  <2>1. Balances(stacks, [hands EXCEPT ![n] = r])
    BY <1>3, <1>4, <1>5, <1>7, RowWithoutResult
  <2>2. QED BY <1>1, <2>1
<1>9. Unbooked(hands', n)
  <2>1. hands'[n] = r
    BY <1>1, <1>3 DEF AllRows
  <2>2. QED BY <1>5, <1>7, <2>1 DEF Unbooked
<1>10. StacksAre(y, stacks')
  BY <1>1, <1>4, <1>6 DEF StacksAre
<1>11. HandlerBooks(y, hands', stacks')
  BY <1>1, <1>4, <1>6, <1>8, <1>9, <1>10 DEF HandlerBooks
<1>12. QED BY <1>1, <1>2, <1>6, <1>11, BooksStep

\* Stack by stack, until all are what the table left to the seats.
LEMMA StackRowKeepsBooks ==
  ASSUME IInv, AloneInv, BooksInv, Unharmed, NEW h \in Slots, StackRow(h)
  PROVE  BooksInv'
<1> DEFINE x == slot[h]
           t == x.table
           n == t.handNo
<1>1. /\ x.pc = "stackRows" /\ x.pc \in Writing /\ "resultRows" \in Writing
      /\ hands' = hands /\ ~At(h, "idle")
  BY DEF StackRow, At, Writing
<1>2. PICK s \in x.left : /\ stacks' = [stacks EXCEPT ![s] = t.game.chips[s]]
                          /\ SeatDone(h, s, "resultRows")
  BY DEF StackRow
<1>3. /\ x \in Writers /\ s \in Seats /\ x.left \in SUBSET Seats /\ t \in GoodTables
      /\ n \in 1..MaxHands /\ hands \in AllRows
  BY <1>1, Writer
<1>4. /\ DOMAIN slot = Slots /\ \A g \in Slots : g # h => slot[g] = Idle
      /\ HandlerBooks(x, hands, stacks) /\ stacks \in [Seats -> Nat]
  BY <1>1, BooksBefore
<1>5. /\ StacksAre(x, stacks) /\ Unbooked(hands, n) /\ Balances(t.game.startHandChips, hands)
      /\ x.kind = "end" \/ t.game.status = "HAND_FINISHED"
  BY <1>1, <1>4 DEF HandlerBooks
<1>6. PICK y \in Writers :
        /\ slot' = [slot EXCEPT ![h] = y]
        /\ y.kind = x.kind /\ y.table = t
        /\ \/ y.pc = x.pc /\ y.left = x.left \ {s}
           \/ y.pc = "resultRows" /\ y.left = Seats /\ x.left \subseteq {s}
  BY <1>1, <1>2, <1>3, SeatDoneState
<1>7. t.game.chips \in [Seats -> Nat] /\ t.game.chips[s] \in Nat
  BY <1>3, TableTypes
<1>8. /\ stacks' \in [Seats -> Nat] /\ stacks'[s] = t.game.chips[s]
      /\ \A u \in Seats : u # s => stacks'[u] = stacks[u]
  BY <1>2, <1>3, <1>4, <1>7
<1>9. ASSUME y.pc = x.pc, y.left = x.left \ {s}
      PROVE  HandlerBooks(y, hands', stacks')
  <2>1. StacksAre(y, stacks')
    BY <1>5, <1>6, <1>8, <1>9 DEF StacksAre
  <2>2. QED BY <1>1, <1>5, <1>6, <1>9, <2>1 DEF HandlerBooks
<1>10. ASSUME y.pc = "resultRows", y.left = Seats, x.left \subseteq {s}
       PROVE  HandlerBooks(y, hands', stacks')
  <2>1. stacks' = t.game.chips
    <3>1. \A u \in Seats : stacks'[u] = t.game.chips[u]
      BY <1>5, <1>8, <1>10 DEF StacksAre
    <3>2. QED BY <1>7, <1>8, <3>1
  <2>2. ResultsAre(y, hands')
    <3>1. hands[n].closings = 0 /\ \A u \in Seats : hands[n].net[u] = 0
      BY <1>5 DEF Unbooked
    <3>2. \A u \in Seats : t.game.startHandChips[u] = BuyIn[u] + NetOf(hands, u)
      BY <1>5 DEF Balances
    <3>3. QED BY <1>1, <1>6, <1>10, <3>1, <3>2 DEF ResultsAre
  <2>3. QED BY <1>5, <1>6, <1>10, <2>1, <2>2 DEF HandlerBooks
<1>11. HandlerBooks(y, hands', stacks')
  BY <1>6, <1>9, <1>10
<1>12. y.pc \in Writing
  BY DEF Writers
<1>13. QED BY <1>4, <1>6, <1>11, <1>12, BooksStep

\* Result by result, until every seat's stack is what it brought with its results.
LEMMA ResultRowKeepsBooks ==
  ASSUME IInv, AloneInv, BooksInv, Unharmed, NEW h \in Slots, ResultRow(h)
  PROVE  BooksInv'
<1> DEFINE x == slot[h]
           t == x.table
           n == t.handNo
           next == IF x.kind = "end" THEN "roomFinished" ELSE "closingRows"
<1>1. /\ x.pc = "resultRows" /\ x.pc \in Writing /\ next \in Writing
      /\ stacks' = stacks /\ ~At(h, "idle")
  BY DEF ResultRow, At, Writing
<1>2. PICK s \in x.left :
        /\ hands' = [hands EXCEPT ![n].endChips[s] = t.game.chips[s],
                                  ![n].net[s] = NetResult(t)[s]]
        /\ SeatDone(h, s, next)
  BY DEF ResultRow
<1>3. /\ WriterIsWell(x, hands, room) /\ x \in Writers /\ s \in Seats /\ x.left \in SUBSET Seats
      /\ t \in GoodTables /\ n \in 1..MaxHands /\ hands[n] # NoHand /\ hands[n] \in HandRows
      /\ hands \in AllRows
  BY <1>1, Writer
<1>4. /\ DOMAIN slot = Slots /\ \A g \in Slots : g # h => slot[g] = Idle
      /\ HandlerBooks(x, hands, stacks)
  BY <1>1, BooksBefore
<1>5. /\ stacks = t.game.chips /\ ResultsAre(x, hands)
      /\ x.kind = "end" \/ t.game.status = "HAND_FINISHED"
  BY <1>1, <1>4 DEF HandlerBooks
<1>6. PICK y \in Writers :
        /\ slot' = [slot EXCEPT ![h] = y]
        /\ y.kind = x.kind /\ y.table = t
        /\ \/ y.pc = x.pc /\ y.left = x.left \ {s}
           \/ y.pc = next /\ y.left = Seats /\ x.left \subseteq {s}
  BY <1>1, <1>2, <1>3, SeatDoneState
<1> DEFINE ends == [hands[n].endChips EXCEPT ![s] = t.game.chips[s]]
           nets == [hands[n].net EXCEPT ![s] = NetResult(t)[s]]
           r == [hands[n] EXCEPT !.endChips = ends, !.net = nets]
<1>7. hands' = [hands EXCEPT ![n] = r]
  BY <1>2, <1>3 DEF AllRows, HandRows
<1>8. /\ hands[n].endChips \in [Seats -> Nat \cup {Unpaid}] /\ hands[n].net \in [Seats -> Int]
      /\ hands[n].status = "FINISHED"
  BY <1>1, <1>3, RowTypes DEF WriterIsWell
<1>9. /\ t.game.chips \in [Seats -> Nat] /\ t.game.startHandChips \in [Seats -> Nat]
      /\ NetResult(t)[s] = t.game.chips[s] - t.game.startHandChips[s]
  BY <1>3 DEF GoodTables, Tables, GameStates, NetResult
<1>10. /\ ends[s] = t.game.chips[s] /\ \A u \in Seats : u # s => ends[u] = hands[n].endChips[u]
       /\ nets[s] = t.game.chips[s] - t.game.startHandChips[s]
       /\ \A u \in Seats : u # s => nets[u] = hands[n].net[u]
       /\ DOMAIN ends = Seats
  BY <1>3, <1>8, <1>9
<1> HIDE DEF ends, nets
<1>11. r.endChips = ends /\ r.net = nets /\ r.status = "FINISHED"
       /\ r.closings = hands[n].closings
  BY <1>3, <1>8 DEF HandRows
<1> HIDE DEF r
<1>12. hands'[n] = r /\ \A m \in 1..MaxHands : m # n => hands'[m] = hands[m]
  BY <1>3, <1>7 DEF AllRows
<1>13. hands' \in AllRows
  <2>1. IInv'
    BY ResultRowWell
  <2>2. QED BY <2>1 DEF IInv, Types
<1>14. ASSUME NEW u \in Seats
       PROVE  /\ u # s => hands'[n].net[u] = hands[n].net[u] /\ NetOf(hands', u) = NetOf(hands, u)
                          /\ hands'[n].endChips[u] = hands[n].endChips[u]
              /\ hands[n].net[u] = 0 => NetOf(hands', u) = NetOf(hands, u) + hands'[n].net[u]
              /\ NetOf(hands, u) \in Int
  <2>1. hands'[n].status = "FINISHED"
    BY <1>11, <1>12
  <2>2. /\ hands'[n].net[u] = hands[n].net[u] => NetOf(hands', u) = NetOf(hands, u)
        /\ hands[n].net[u] = 0 => NetOf(hands', u) = NetOf(hands, u) + hands'[n].net[u]
        /\ NetOf(hands, u) \in Int
    BY <1>3, <1>8, <1>12, <1>13, <2>1, ResultCounts
  <2>3. u # s => hands'[n].net[u] = hands[n].net[u] /\ hands'[n].endChips[u] = hands[n].endChips[u]
    BY <1>10, <1>11, <1>12
  <2>4. QED BY <2>2, <2>3
<1>15. /\ hands'[n].closings = 0
       /\ hands'[n].endChips[s] = t.game.chips[s]
       /\ t.game.chips[s] = BuyIn[s] + NetOf(hands', s)
  <2>1. hands[n].closings = 0 /\ hands[n].net[s] = 0
        /\ t.game.startHandChips[s] = BuyIn[s] + NetOf(hands, s)
    BY <1>2, <1>3, <1>5 DEF ResultsAre
  <2>2. NetOf(hands', s) = NetOf(hands, s) + hands'[n].net[s] /\ NetOf(hands, s) \in Int
    BY <1>3, <1>14, <2>1
  <2>3. hands'[n].net[s] = t.game.chips[s] - t.game.startHandChips[s]
        /\ hands'[n].endChips[s] = t.game.chips[s]
    BY <1>10, <1>11, <1>12
  <2>4. BuyIn[s] \in Nat /\ t.game.chips[s] \in Nat /\ t.game.startHandChips[s] \in Nat
    BY <1>3, <1>9, BuyInTypes
  <2>5. t.game.chips[s] = BuyIn[s] + NetOf(hands', s)
    BY <2>1, <2>2, <2>3, <2>4
  <2>6. QED BY <1>11, <1>12, <2>1, <2>3, <2>5
<1>16. ASSUME NEW u \in Seats, u # s
       PROVE  /\ u \in x.left => /\ hands'[n].net[u] = 0
                                 /\ t.game.startHandChips[u] = BuyIn[u] + NetOf(hands', u)
              /\ u \notin x.left => /\ hands'[n].endChips[u] = t.game.chips[u]
                                    /\ t.game.chips[u] = BuyIn[u] + NetOf(hands', u)
  BY <1>5, <1>14, <1>16 DEF ResultsAre
<1>17. ASSUME y.pc = x.pc, y.left = x.left \ {s}
       PROVE  HandlerBooks(y, hands', stacks')
  <2>1. ResultsAre(y, hands')
    BY <1>6, <1>15, <1>16, <1>17 DEF ResultsAre
  <2>2. QED BY <1>1, <1>5, <1>6, <1>17, <2>1 DEF HandlerBooks
<1>18. ASSUME y.pc = next, y.left = Seats, x.left \subseteq {s}
       PROVE  HandlerBooks(y, hands', stacks')
  <2>1. \A u \in Seats : /\ hands'[n].endChips[u] = t.game.chips[u]
                         /\ t.game.chips[u] = BuyIn[u] + NetOf(hands', u)
    BY <1>15, <1>16, <1>18
  <2>2. Balances(stacks', hands')
    BY <1>1, <1>5, <2>1 DEF Balances
  <2>3. hands'[n].endChips = t.game.chips
    <3>1. hands'[n].endChips = ends
      BY <1>11, <1>12
    <3>2. \A u \in Seats : ends[u] = t.game.chips[u]
      BY <2>1, <3>1
    <3>3. ends = [ u \in Seats |-> ends[u] ]
      BY <1>10 DEF ends
    <3>4. t.game.chips = [ u \in Seats |-> t.game.chips[u] ]
      BY <1>9
    <3>5. QED BY <3>1, <3>2, <3>3, <3>4
  <2>4. next \in {"roomFinished", "closingRows"}
    OBVIOUS
  <2> HIDE DEF next
  <2>5. QED BY <1>1, <1>5, <1>6, <1>15, <1>18, <2>2, <2>3, <2>4 DEF HandlerBooks
<1>19. HandlerBooks(y, hands', stacks')
  BY <1>6, <1>17, <1>18
<1>20. y.pc \in Writing
  BY DEF Writers
<1>21. QED BY <1>4, <1>6, <1>19, <1>20, BooksStep

\* The hand is closed once.
LEMMA ClosingRowsKeepBooks ==
  ASSUME IInv, AloneInv, BooksInv, Unharmed, NEW h \in Slots, ClosingRows(h)
  PROVE  BooksInv'
<1> DEFINE x == slot[h]
           t == x.table
           n == t.handNo
           r == [hands[n] EXCEPT !.closings = @ + 1]
           pc == IF x.kind = "act" THEN "save" ELSE "roomPlaying"
           y == [x EXCEPT !.pc = pc]
<1>1. /\ x.pc = "closingRows" /\ x.pc \in Writing /\ pc \in Writing
      /\ stacks' = stacks /\ ~At(h, "idle")
      /\ hands' = [hands EXCEPT ![n] = r] /\ slot' = [slot EXCEPT ![h] = y]
  BY DEF ClosingRows, At, Goto, Becomes, Writing
<1>2. /\ DOMAIN slot = Slots /\ \A g \in Slots : g # h => slot[g] = Idle
      /\ HandlerBooks(x, hands, stacks)
  BY <1>1, BooksBefore
<1>3. /\ x \in Writers /\ n \in 1..MaxHands /\ hands[n] # NoHand /\ hands[n] \in HandRows
      /\ hands \in AllRows /\ WriterIsWell(x, hands, room)
  BY <1>1, Writer
<1>4. /\ stacks = t.game.chips /\ Balances(stacks, hands)
      /\ hands[n].endChips = stacks /\ hands[n].closings = 0
      /\ t.game.status = "HAND_FINISHED"
  <2>1. x.kind # "end"
    BY <1>1, <1>3, WriterFields
  <2>2. QED BY <1>1, <1>2, <2>1 DEF HandlerBooks
<1>5. r.status = hands[n].status /\ r.net = hands[n].net /\ r.endChips = hands[n].endChips
      /\ r.closings = 0 + 1
  BY <1>3, <1>4 DEF HandRows
<1>6. y.pc = pc /\ y.table = t
  BY <1>1, <1>3, Gone
<1>7. pc \in {"save", "roomPlaying"}
  OBVIOUS
<1> HIDE DEF r, y, pc
<1>8. hands'[n] = r /\ \A m \in 1..MaxHands : m # n => hands'[m] = hands[m]
  BY <1>1, <1>3 DEF AllRows
<1>9. Balances(stacks, hands')
  <2>1. FinishedOf(hands') = FinishedOf(hands)
    BY <1>5, <1>8 DEF FinishedOf
  <2>2. ASSUME NEW s \in Seats PROVE NetOf(hands', s) = NetOf(hands, s)
    <3>1. ASSUME NEW m \in FinishedOf(hands) PROVE hands'[m].net[s] = hands[m].net[s]
      <4>1. m \in 1..MaxHands
        BY DEF FinishedOf
      <4>2. QED BY <1>5, <1>8, <4>1
    <3>2. QED BY <2>1, <3>1, NetKept DEF NetOf
  <2>3. QED BY <1>4, <2>2 DEF Balances
<1>10. TableBooks(t, hands', stacks')
  <2>1. BookedOnce(hands', t)
    BY <1>4, <1>5, <1>8 DEF BookedOnce
  <2>2. QED BY <1>1, <1>4, <2>1 DEF TableBooks
<1>11. HandlerBooks(y, hands', stacks')
  BY <1>1, <1>6, <1>7, <1>9, <1>10 DEF HandlerBooks
<1>12. QED BY <1>1, <1>2, <1>6, <1>11, BooksStep

\* The room's status goes with the books of the only handler.
LEMMA RoomKeepsBooks ==
  ASSUME IInv, AloneInv, BooksInv, Unharmed, NEW h \in Slots, RoomPlaying(h) \/ RoomFinished(h)
  PROVE  BooksInv'
<1> DEFINE x == slot[h]
           t == x.table
<1>1. /\ x.pc \in {"roomPlaying", "roomFinished"} /\ x.pc \in Writing
      /\ UNCHANGED <<hands, stacks>> /\ ~At(h, "idle")
  BY DEF RoomPlaying, RoomFinished, At, Writing
<1>2. /\ DOMAIN slot = Slots /\ \A g \in Slots : g # h => slot[g] = Idle
      /\ HandlerBooks(x, hands, stacks)
  BY <1>1, BooksBefore
<1>3. x \in Writers /\ WriterIsWell(x, hands, room)
  BY <1>1, Writer
<1>4. ASSUME NEW pc \in {"save", "delete"}, slot' = [slot EXCEPT ![h] = [x EXCEPT !.pc = pc]],
             pc = "save" => TableBooks(t, hands, stacks), Balances(stacks, hands)
      PROVE  BooksInv'
  <2> DEFINE y == [x EXCEPT !.pc = pc]
  <2>1. y.pc = pc /\ y.table = t /\ pc \in Writing
    BY <1>3, Gone DEF Writing
  <2> HIDE DEF y
  <2>2. HandlerBooks(y, hands', stacks')
    BY <1>1, <1>4, <2>1 DEF HandlerBooks
  <2>3. QED BY <1>2, <1>4, <2>1, <2>2, BooksStep DEF y
<1>5. CASE RoomPlaying(h)
  <2>1. slot' = [slot EXCEPT ![h] = [x EXCEPT !.pc = "save"]] /\ x.pc = "roomPlaying"
    BY <1>5 DEF RoomPlaying, Goto, Becomes, At
  <2>2. TableBooks(t, hands, stacks) /\ Balances(stacks, hands)
    BY <1>2, <2>1 DEF HandlerBooks
  <2>3. QED BY <1>4, <2>1, <2>2
<1>6. CASE RoomFinished(h)
  <2>1. x.pc = "roomFinished"
    BY <1>6 DEF RoomFinished, At
  <2>2. Balances(stacks, hands)
    BY <1>2, <2>1 DEF HandlerBooks
  <2>3. CASE x.kind = "end"
    <3>1. slot' = [slot EXCEPT ![h] = [x EXCEPT !.pc = "delete"]]
      BY <1>6, <2>3 DEF RoomFinished, Goto, Becomes
    <3>2. QED BY <1>4, <2>2, <3>1
  <2>4. CASE x.kind # "end"
    <3>1. slot' = [slot EXCEPT ![h] = [x EXCEPT !.pc = "save"]]
      BY <1>6, <2>4 DEF RoomFinished, Goto, Becomes
    <3>2. x.kind = "finish"
      BY <1>3, <2>1, <2>4, WriterFields
    <3>3. t.game.status = "ROOM_FINISHED"
      BY <1>3, <3>2 DEF WriterIsWell
    <3>4. TableBooks(t, hands, stacks)
      BY <3>3 DEF TableBooks
    <3>5. QED BY <1>4, <2>2, <3>1, <3>4
  <2>5. QED BY <2>3, <2>4
<1>7. QED BY <1>5, <1>6

\* A saved table has the books its handler left, a deleted one none.
LEMMA SavesKeepBooks ==
  ASSUME IInv, AloneInv, BooksInv, Unharmed, NEW h \in Slots, Save(h) \/ DeleteTable(h)
  PROVE  BooksInv'
<1> DEFINE x == slot[h]
           t == x.table
<1>1. /\ slot' = [slot EXCEPT ![h] = Idle] /\ stacks' = stacks
      /\ x.pc \in {"save", "delete"} /\ x.pc \in Writing /\ ~At(h, "idle")
  BY DEF Save, DeleteTable, Becomes, At, rows, Writing
<1>2. /\ DOMAIN slot = Slots /\ \A g \in Slots : g # h => slot[g] = Idle
      /\ HandlerBooks(x, hands, stacks) /\ hands \in AllRows
  BY <1>1, BooksBefore
<1>3. Balances(stacks, hands)
  BY <1>1, <1>2 DEF HandlerBooks
<1>4. TableBooks(redis', hands', stacks') /\ Balances(stacks', hands')
  <2>1. CASE Save(h)
    <3>1. x.pc = "save" /\ redis' = t /\ Forgets(t.handNo)
      BY <2>1 DEF Save, At
    <3>2. TableBooks(t, hands, stacks)
      BY <1>2, <3>1 DEF HandlerBooks
    <3>3. SameBooks(hands, hands')
      <4>1. ASSUME NEW m \in 1..MaxHands
            PROVE  \/ hands'[m] = hands[m]
                   \/ hands[m] # NoHand /\ hands'[m] = [hands[m] EXCEPT !.actions = 0]
        BY <3>1 DEF Forgets
      <4>2. ASSUME NEW m \in 1..MaxHands, hands[m] # NoHand
            PROVE  LET r == [hands[m] EXCEPT !.actions = 0]
                   IN  /\ r.status = hands[m].status /\ r.net = hands[m].net
                       /\ r.closings = hands[m].closings /\ r.endChips = hands[m].endChips
        <5>1. hands[m] \in HandRows
          BY <1>2, <4>2, RowTypes
        <5>2. QED BY <5>1 DEF HandRows
      <4>3. QED BY <4>1, <4>2 DEF SameBooks
    <3>4. hands' \in AllRows
      <4>1. IInv'
        BY <2>1, SaveWell
      <4>2. QED BY <4>1 DEF IInv, Types
    <3>5. t.handNo \in 1..MaxHands /\ hands[t.handNo] # NoHand
      BY <1>1, <3>1, Writer
    <3>6. QED BY <1>1, <1>2, <1>3, <3>1, <3>2, <3>3, <3>4, <3>5, SameTableBooks, SameBalances
  <2>2. CASE DeleteTable(h)
    <3>1. ~IsTable(redis') /\ hands' = hands
      BY <2>2 DEF DeleteTable, IsTable, NoTable, rows
    <3>2. QED BY <1>1, <1>3, <3>1 DEF TableBooks
  <2>3. QED BY <2>1, <2>2
<1>5. HandlerBooks(Idle, hands', stacks')
  BY IdleBooks
<1>6. QED BY <1>1, <1>2, <1>4, <1>5, BooksStep

LEMMA NextKeepsBooks == IInv /\ AloneInv /\ BooksInv /\ [Next]_vars => BooksInv'
<1> SUFFICES ASSUME IInv, AloneInv, BooksInv, [Next]_vars, Unharmed, Unharmed'
             PROVE  BooksInv'
  BY UnharmedBefore DEF BooksInv
<1>1. ASSUME NEW h \in Slots, Request(h) \/ TimerFires(h) PROVE BooksInv'
  BY <1>1, RequestsKeepBooks
<1>2. ASSUME NEW h \in Slots, HandlerStep(h) PROVE BooksInv'
  BY <1>2, PlainRowsKeepBooks, HandRowKeepsBooks, StackRowKeepsBooks, ResultRowKeepsBooks,
     ClosingRowsKeepBooks, RoomKeepsBooks, SavesKeepBooks, DealsKeepBooks, BotsKeepBooks
     DEF HandlerStep
<1>3. CASE CloseRoom
  BY <1>3 DEF CloseRoom, process, BooksInv
<1>4. CASE TableExpires
  <2>1. UNCHANGED <<hands, stacks, slot>> /\ ~IsTable(redis')
    BY <1>4 DEF TableExpires, rows, process, IsTable, NoTable
  <2>2. QED BY <2>1 DEF BooksInv, TableBooks
<1>5. ASSUME Restart \/ \E h \in Slots : HandlerFails(h) PROVE FALSE
  BY <1>5 DEF Restart, HandlerFails, Unharmed
<1>6. CASE UNCHANGED vars
  BY <1>6 DEF vars, rows, process, BooksInv
<1>7. QED BY <1>1, <1>2, <1>3, <1>4, <1>5, <1>6 DEF Next

\* What the players' rows hold after a hand is what its result rows say, what the next hand
\* is dealt from, and what the players brought with all they won in the room since, unless
\* a write failed or another handler was in progress.
THEOREM BooksAlwaysAgree == Spec => []BooksAgree
<1>1. Init => BooksInv
  <2> SUFFICES ASSUME Init PROVE BooksInv
    OBVIOUS
  <2>1. /\ stacks = BuyIn /\ ~IsTable(redis) /\ \A h \in Slots : slot[h] = Idle
        /\ \A n \in 1..MaxHands : hands[n].status # "FINISHED"
    BY DEF Init, IsTable, NoTable, NoHand
  <2>2. FinishedOf(hands) = {}
    BY <2>1 DEF FinishedOf
  <2>3. ASSUME NEW s \in Seats PROVE NetOf(hands, s) = 0
    <3>1. /\ ChipTotal([ n \in {} |-> hands[n].net[s] ]) = 0
          /\ ChipTotal([ n \in {} |-> -hands[n].net[s] ]) = 0
      <4>1. /\ ChipUnits([ n \in {} |-> hands[n].net[s] ]) = {}
            /\ ChipUnits([ n \in {} |-> -hands[n].net[s] ]) = {}
        BY DEF ChipUnits
      <4>2. QED BY <4>1, FS_EmptySet DEF ChipTotal
    <3>2. QED BY <2>2, <3>1 DEF NetOf, NetOver
  <2>4. Balances(stacks, hands)
    <3>1. \A s \in Seats : BuyIn[s] \in Nat
      BY BuyInTypes
    <3>2. QED BY <2>1, <2>3, <3>1 DEF Balances
  <2>5. QED BY <2>1, <2>4, IdleBooks DEF BooksInv, TableBooks
<1>2. IInv /\ BooksInv => BooksAgree
  <2> SUFFICES ASSUME IInv, BooksInv, Quiet, Unharmed, TableIs("HAND_FINISHED")
               PROVE  /\ stacks = redis.game.chips
                      /\ hands[redis.handNo].endChips = redis.game.chips
                      /\ hands[redis.handNo].closings = 1
                      /\ \A s \in Seats : stacks[s] = BuyIn[s] + RoomNet(s)
    BY DEF BooksAgree
  <2>1. \A h \in Slots : slot[h].pc \notin Writing
    BY DEF Quiet, At, Writing
  <2>2. TableBooks(redis, hands, stacks) /\ Balances(stacks, hands)
    BY <2>1 DEF BooksInv
  <2>3. \A s \in Seats : RoomNet(s) = NetOf(hands, s)
    BY DEF RoomNet, NetOf, NetOver, FinishedHands, FinishedOf
  <2>4. QED BY <2>2, <2>3 DEF TableBooks, BookedOnce, Balances, TableIs
<1>3. QED BY <1>1, <1>2, NextKeepsBooks, Invariance, AloneInvariance, PTL DEF Spec
=============================================================================
