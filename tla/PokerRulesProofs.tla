------------------------- MODULE PokerRulesProofs -------------------------
(***************************************************************************)
(* Facts about the rules of a hand that the proofs about the tables rest   *)
(* on, for every set of seats and every pair of blinds.                    *)
(*                                                                         *)
(* applyGameAction mutates the state and then normalises it, so they go    *)
(* through RoundInv, which holds of a state whose seat has just acted and  *)
(* whose turn has not been passed on yet: every mutation of a playable     *)
(* state yields a RoundInv state (lemmas ...Round) and normalising such a  *)
(* state yields a state that satisfies GameInv (lemma NormalizeGame).      *)
(*                                                                         *)
(* The side pots pay what was put in and no more: the layers the           *)
(* investments are cut into hold them (LayersHoldAll), and the shares of a *)
(* layer are no more than it holds (LayersPayNoMore).  Hence no hand ends  *)
(* with more chips than it began with (NoChipsAreMade).                    *)
(*                                                                         *)
(* Arguments by induction are made through                                 *)
(* FS_StrictSubsetOrderingWellFounded: a set of finite sets that is not    *)
(* empty has a member that is minimal for inclusion.                       *)
(***************************************************************************)
EXTENDS PokerRules, FiniteSetTheorems, WellFoundedInduction, TLAPS

BoardOf == [PREFLOP |-> 0, FLOP |-> 3, TURN |-> 4, RIVER |-> 5]

\* What a seat has in the hand from the streets before this one.
Earlier(st, s) == st.investedThisHand[s] - st.investedThisStreet[s]

\* The facts a betting round keeps, also between a mutation and its normalisation.
RoundInv(st) ==
  /\ st \in GameStates
  /\ st.status = "PLAYING"
  /\ st.street \in BettingStreets
  /\ st.boardCards = BoardOf[st.street]
  /\ st.minRaise > 0
  /\ \A s \in Seats : st.won[s] = 0
  /\ \A s \in Seats : st.chips[s] + st.investedThisHand[s] = st.startHandChips[s]
  /\ \A s \in Seats : st.investedThisStreet[s] <= st.currentBet
  /\ \E s \in Seats : st.investedThisStreet[s] = st.currentBet
  /\ \A s, t \in Seats : CanStillAct(st, s) => Earlier(st, t) <= Earlier(st, s)

\* The inductive invariant: in a hand that is played a round is under way and the
\* turn is with a seat that owes it an action; chips are accounted for at any time.
GameInv(st) ==
  /\ st \in GameStates
  /\ \A s \in Seats : st.chips[s] + st.investedThisHand[s]
                        = st.startHandChips[s] + st.won[s]
  /\ st.status = "PLAYING" => RoundInv(st) /\ st.currentTurnSeat \in ToAct(st)

-----------------------------------------------------------------------------
(* Minima, maxima and totals *)

\* A family of finite subsets of U that is not empty has a minimal member.
LEMMA MinimalFiniteSet ==
  ASSUME NEW U, NEW F, F \subseteq FiniteSubsetsOf(U), F # {}
  PROVE  \E X \in F : \A Y \in F : ~(Y \subseteq X /\ Y # X)
<1> DEFINE R == StrictSubsetOrdering(U)
<1>1. IsWellFoundedOn(R, FiniteSubsetsOf(U))
  BY FS_StrictSubsetOrderingWellFounded
<1> HIDE DEF R
<1>2. PICK X \in F : \A Y \in F : <<Y, X>> \notin R
  BY <1>1, WFMin
<1>3. ASSUME NEW Y \in F, Y \subseteq X, Y # X PROVE FALSE
  <2>1. X \in SUBSET U /\ Y \in SUBSET U
    BY DEF FiniteSubsetsOf
  <2>2. <<Y, X>> \in R
    BY <1>3, <2>1 DEF R, StrictSubsetOrdering
  <2>3. QED BY <1>2, <1>3, <2>2
<1>4. QED BY <1>3

\* A set of natural numbers that is not empty has a least member.
LEMMA NatMinimum ==
  ASSUME NEW T \in SUBSET Nat, T # {}
  PROVE  \E m \in T : \A k \in T : m <= k
<1> DEFINE F == { 0..t : t \in T }
<1>1. F \subseteq FiniteSubsetsOf(Nat)
  <2> SUFFICES ASSUME NEW t \in T PROVE 0..t \in FiniteSubsetsOf(Nat)
    OBVIOUS
  <2>1. IsFiniteSet(0..t)
    BY FS_Interval, t \in Int, 0 \in Int
  <2>2. 0..t \in SUBSET Nat
    OBVIOUS
  <2>3. QED BY <2>1, <2>2 DEF FiniteSubsetsOf
<1>2. F # {}
  OBVIOUS
<1>3. PICK X \in F : \A Y \in F : ~(Y \subseteq X /\ Y # X)
  <2> HIDE DEF F
  <2> QED BY <1>1, <1>2, MinimalFiniteSet
<1>4. PICK m \in T : X = 0..m
  BY <1>3
<1>5. ASSUME NEW k \in T, k < m PROVE FALSE
  <2>1. 0..k \subseteq 0..m /\ m \in 0..m /\ m \notin 0..k
    BY <1>5
  <2>2. 0..k # 0..m
    BY <2>1
  <2>3. QED BY <1>3, <1>4, <2>1, <2>2
<1>6. \A k \in T : m <= k
  BY <1>5
<1>7. QED BY <1>6

\* Min of a set of natural numbers is one of them and below all of them.
LEMMA MinOfNats ==
  ASSUME NEW T \in SUBSET Nat, T # {}
  PROVE  Min(T) \in T /\ \A k \in T : Min(T) <= k
BY NatMinimum DEF Min

\* A finite set of natural numbers that is not empty has a greatest member.
LEMMA NatMaximum ==
  ASSUME NEW T \in SUBSET Nat, T # {}, IsFiniteSet(T)
  PROVE  \E m \in T : \A k \in T : k <= m
<1> DEFINE Bad(X) == X # {} /\ ~ \E m \in X : \A k \in X : k <= m
           F == { X \in FiniteSubsetsOf(Nat) : Bad(X) }
<1> SUFFICES ASSUME Bad(T) PROVE FALSE
  OBVIOUS
<1>1. T \in F
  BY DEF FiniteSubsetsOf
<1>2. PICK X \in F : \A Y \in F : ~(Y \subseteq X /\ Y # X)
  <2>1. F \subseteq FiniteSubsetsOf(Nat) /\ F # {}
    BY <1>1
  <2> HIDE DEF F
  <2>2. QED BY <2>1, MinimalFiniteSet
<1>3. X \in SUBSET Nat /\ IsFiniteSet(X) /\ Bad(X)
  BY DEF FiniteSubsetsOf
<1>4. PICK x \in X : TRUE
  BY <1>3
<1> DEFINE Y == X \ {x}
<1>5. Y \subseteq X /\ Y # X
  BY <1>4
<1>6. Y \in FiniteSubsetsOf(Nat)
  BY <1>3, FS_Subset DEF FiniteSubsetsOf
<1>7. ~ Bad(Y)
  BY <1>2, <1>5, <1>6
<1>8. CASE Y = {}
  <2>1. X = {x} /\ x <= x
    BY <1>3, <1>4, <1>8
  <2>2. QED BY <1>3, <2>1
<1>9. CASE Y # {}
  <2>1. PICK m \in Y : \A k \in Y : k <= m
    BY <1>7, <1>9
  <2>2. x \in Nat /\ m \in Nat /\ m \in X
    BY <1>3
  <2>3. CASE x <= m
    BY <1>3, <2>1, <2>2, <2>3
  <2>4. CASE ~(x <= m)
    <3>1. \A k \in X : k <= x
      BY <1>3, <2>1, <2>2, <2>4
    <3>2. QED BY <1>3, <1>4, <3>1
  <2>5. QED BY <2>3, <2>4
<1>10. QED BY <1>8, <1>9

\* Max of a finite set of natural numbers is one of them and above all of them.
LEMMA MaxOfNats ==
  ASSUME NEW T \in SUBSET Nat, T # {}, IsFiniteSet(T)
  PROVE  Max(T) \in T /\ \A k \in T : k <= Max(T)
BY NatMaximum DEF Max

\* Max is the only member of a set that is above all members.
LEMMA MaxIs ==
  ASSUME NEW T \in SUBSET Nat, NEW m \in T, \A k \in T : k <= m
  PROVE  Max(T) = m
<1>1. Max(T) \in T /\ \A k \in T : k <= Max(T)
  BY DEF Max
<1>2. Max(T) \in Nat /\ m \in Nat /\ m <= Max(T) /\ Max(T) <= m
  BY <1>1
<1>3. QED BY <1>2

LEMMA PairIsFinite ==
  ASSUME NEW a, NEW b
  PROVE  IsFiniteSet({a, b})
<1>1. IsFiniteSet({a}) /\ {a, b} = {a} \cup {b}
  BY FS_Singleton
<1>2. QED BY <1>1, FS_AddElement

\* The values of a function on a finite domain are finitely many.
LEMMA ImageIsFinite ==
  ASSUME NEW S, IsFiniteSet(S), NEW f, DOMAIN f = S
  PROVE  IsFiniteSet({ f[s] : s \in S })
<1> DEFINE T == { f[s] : s \in S }
           g == [ s \in S |-> f[s] ]
<1>1. g \in Surjection(S, T)
  BY DEF Surjection
<1>2. QED BY <1>1, FS_Surjection

\* A total of chips over a finite set of holders is a natural number.
THEOREM ChipTotalType ==
  ASSUME NEW f, IsFiniteSet(DOMAIN f), \A x \in DOMAIN f : f[x] \in Int
  PROVE  IsFiniteSet(ChipUnits(f)) /\ ChipTotal(f) \in Nat
<1> DEFINE g == [ x \in DOMAIN f |-> {x} \X (1..f[x]) ]
           F == { g[x] : x \in DOMAIN f }
<1>1. IsFiniteSet(F)
  <2>1. DOMAIN g = DOMAIN f
    OBVIOUS
  <2> HIDE DEF g
  <2>2. QED BY <2>1, ImageIsFinite
<1>2. \A Z \in F : IsFiniteSet(Z)
  <2> SUFFICES ASSUME NEW x \in DOMAIN f PROVE IsFiniteSet({x} \X (1..f[x]))
    OBVIOUS
  <2>1. IsFiniteSet({x})
    BY FS_Singleton
  <2>2. IsFiniteSet(1..f[x])
    BY FS_Interval, 1 \in Int
  <2>3. QED BY <2>1, <2>2, FS_Product
<1>3. ChipUnits(f) = UNION F
  BY DEF ChipUnits
<1>4. IsFiniteSet(UNION F)
  <2> HIDE DEF F
  <2> QED BY <1>1, <1>2, FS_UNION
<1>5. IsFiniteSet(ChipUnits(f))
  BY <1>3, <1>4
<1>6. QED BY <1>5, FS_CardinalityType DEF ChipTotal

-----------------------------------------------------------------------------
(* Seats *)

\* The seat after any number, among some seats, is one of these seats.
LEMMA SeatAfterIn ==
  ASSUME NEW S \in SUBSET Seats, S # {}, NEW seat \in Nat
  PROVE  SeatAfter(S, seat) \in S
<1>1. S \in SUBSET Nat
  BY SeatsAssumption
<1>2. CASE \E s \in S : s > seat
  <2> DEFINE T == { s \in S : s > seat }
  <2>1. T \in SUBSET Nat /\ T # {}
    BY <1>1, <1>2
  <2> HIDE DEF T
  <2>2. Min(T) \in T
    BY <2>1, MinOfNats
  <2>3. QED BY <1>2, <2>2 DEF SeatAfter, T
<1>3. CASE ~ \E s \in S : s > seat
  <2>1. Min(S) \in S
    BY <1>1, MinOfNats
  <2>2. QED BY <1>3, <2>1 DEF SeatAfter
<1>4. QED BY <1>2, <1>3

\* Sets of seats are finite, so they have a cardinality.
LEMMA SeatSetsAreFinite ==
  ASSUME NEW S \in SUBSET Seats
  PROVE  IsFiniteSet(S) /\ Cardinality(S) \in Nat
BY SeatsAssumption, FS_Subset, FS_CardinalityType

\* The turn after any seat is with a seat that owes an action, or with nobody.
LEMMA FirstActionableType ==
  ASSUME NEW st, NEW seat \in Seats
  PROVE  /\ FirstActionableSeatAfter(st, seat) \in ToAct(st) \cup {NoSeat}
         /\ ToAct(st) # {} => FirstActionableSeatAfter(st, seat) \in ToAct(st)
<1>1. ToAct(st) \in SUBSET Seats
  BY DEF ToAct
<1>2. seat \in Nat
  BY SeatsAssumption
<1>3. ToAct(st) # {} => SeatAfter(ToAct(st), seat) \in ToAct(st)
  BY <1>1, <1>2, SeatAfterIn
<1>4. QED BY <1>3 DEF FirstActionableSeatAfter

-----------------------------------------------------------------------------
(* Mutations *)

\* r is st after seat s put amount in.
Invested(r, st, s, amount) ==
  /\ r \in GameStates
  /\ r.chips = [st.chips EXCEPT ![s] = @ - amount]
  /\ r.investedThisHand = [st.investedThisHand EXCEPT ![s] = @ + amount]
  /\ r.investedThisStreet = [st.investedThisStreet EXCEPT ![s] = @ + amount]
  /\ \A t \in Seats : CanStillAct(r, t) => CanStillAct(st, t)
  /\ \A t \in Seats \ {s} : CanStillAct(r, t) <=> CanStillAct(st, t)
  /\ r.status = st.status /\ r.street = st.street /\ r.won = st.won
  /\ r.boardCards = st.boardCards /\ r.currentBet = st.currentBet
  /\ r.startHandChips = st.startHandChips
  /\ r.minRaise = st.minRaise
  /\ r.dealerSeat = st.dealerSeat /\ r.bigBlindSeat = st.bigBlindSeat

\* Chips a seat invests leave its stack; nothing else of the state is touched but
\* the status of a seat that is all-in now.
LEMMA InvestChipsState ==
  ASSUME NEW st \in GameStates, NEW s \in Seats, NEW amount \in Nat,
         amount <= st.chips[s]
  PROVE  Invested(InvestChips(st, s, amount), st, s, amount)
<1> DEFINE r == InvestChips(st, s, amount)
<1>1. st.chips[s] - amount \in Nat
  BY DEF GameStates
<1>2. st.investedThisHand[s] + amount \in Nat /\ st.investedThisStreet[s] + amount \in Nat
  BY DEF GameStates
<1>3. r \in GameStates
  BY <1>1, <1>2 DEF InvestChips, GameStates, PlayerStatuses
<1>4. \A t \in Seats : CanStillAct(r, t) => CanStillAct(st, t)
  BY <1>1 DEF InvestChips, GameStates, CanStillAct
<1>5. \A t \in Seats \ {s} : CanStillAct(r, t) <=> CanStillAct(st, t)
  BY DEF InvestChips, GameStates, CanStillAct
<1>6. QED BY <1>3, <1>4, <1>5 DEF Invested, InvestChips, GameStates

\* Putting chips in keeps the round going, whatever is marked on the players, as
\* long as the bet stays the highest investment.
LEMMA InvestedRound ==
  ASSUME NEW st, RoundInv(st), NEW s \in Seats, NEW amount \in Nat, NEW r \in GameStates,
         amount <= st.chips[s], r.minRaise > 0,
         r.chips = [st.chips EXCEPT ![s] = @ - amount],
         r.investedThisHand = [st.investedThisHand EXCEPT ![s] = @ + amount],
         r.investedThisStreet = [st.investedThisStreet EXCEPT ![s] = @ + amount],
         \A t \in Seats : CanStillAct(r, t) => CanStillAct(st, t),
         r.status = st.status, r.street = st.street, r.won = st.won,
         r.boardCards = st.boardCards, r.startHandChips = st.startHandChips,
         \/ r.currentBet = st.currentBet /\ st.investedThisStreet[s] + amount <= st.currentBet
         \/ r.currentBet = st.investedThisStreet[s] + amount /\ st.currentBet <= r.currentBet
  PROVE  RoundInv(r)
<1>0. /\ st \in GameStates
      /\ \A t \in Seats : /\ st.chips[t] \in Nat /\ st.investedThisHand[t] \in Nat
                          /\ st.investedThisStreet[t] \in Nat /\ st.startHandChips[t] \in Nat
      /\ st.currentBet \in Nat /\ r.currentBet \in Nat
  BY DEF RoundInv, GameStates
<1>1. \A t \in Seats :
        /\ r.chips[t] = IF t = s THEN st.chips[t] - amount ELSE st.chips[t]
        /\ r.investedThisHand[t] =
             IF t = s THEN st.investedThisHand[t] + amount ELSE st.investedThisHand[t]
        /\ r.investedThisStreet[t] =
             IF t = s THEN st.investedThisStreet[t] + amount ELSE st.investedThisStreet[t]
  BY DEF GameStates
<1>2. \A t \in Seats : r.chips[t] + r.investedThisHand[t] = r.startHandChips[t]
  BY <1>0, <1>1 DEF RoundInv
<1>3. \A t \in Seats : r.investedThisStreet[t] <= r.currentBet
  BY <1>0, <1>1 DEF RoundInv
<1>4. \E t \in Seats : r.investedThisStreet[t] = r.currentBet
  <2>1. PICK t \in Seats : st.investedThisStreet[t] = st.currentBet
    BY DEF RoundInv
  <2>2. r.investedThisStreet[t] = r.currentBet \/ r.investedThisStreet[s] = r.currentBet
    BY <1>0, <1>1, <2>1
  <2>3. QED BY <2>2
<1>5. \A t \in Seats : Earlier(r, t) = Earlier(st, t)
  BY <1>0, <1>1 DEF Earlier
<1>6. \A t, u \in Seats : CanStillAct(r, t) => Earlier(r, u) <= Earlier(r, t)
  BY <1>5 DEF RoundInv
<1>7. QED BY <1>2, <1>3, <1>4, <1>6 DEF RoundInv

\* Marks on the players are not what RoundInv is about.
LEMMA MarkedRound ==
  ASSUME NEW st, RoundInv(st), NEW r \in GameStates,
         r.chips = st.chips, r.investedThisHand = st.investedThisHand,
         r.investedThisStreet = st.investedThisStreet,
         \A t \in Seats : CanStillAct(r, t) => CanStillAct(st, t),
         r.status = st.status, r.street = st.street, r.won = st.won,
         r.boardCards = st.boardCards, r.startHandChips = st.startHandChips,
         r.currentBet = st.currentBet, r.minRaise = st.minRaise
  PROVE  RoundInv(r)
BY DEF RoundInv, Earlier

\* The states a fold or a check leads to.
LEMMA FoldedRound ==
  ASSUME NEW st, RoundInv(st), NEW s \in Seats
  PROVE  RoundInv(Folded(st, s)) /\ RoundInv(Checked(st, s))
<1>0. st \in GameStates
  BY DEF RoundInv
<1>1. Folded(st, s) \in GameStates /\ Checked(st, s) \in GameStates
  BY <1>0 DEF Folded, Checked, HasActed, GameStates, PlayerStatuses
<1>2. \A t \in Seats : /\ CanStillAct(Folded(st, s), t) => CanStillAct(st, t)
                       /\ CanStillAct(Checked(st, s), t) => CanStillAct(st, t)
  BY <1>0 DEF Folded, Checked, HasActed, GameStates, CanStillAct
<1>3. RoundInv(Folded(st, s))
  BY <1>0, <1>1, <1>2, MarkedRound DEF Folded, HasActed, GameStates
<1>4. RoundInv(Checked(st, s))
  BY <1>0, <1>1, <1>2, MarkedRound DEF Checked, HasActed, GameStates
<1>5. QED BY <1>3, <1>4

\* r is st but for the marks on players and the last aggressor.
SameButMarks(r, st) ==
  /\ r \in GameStates
  /\ r.chips = st.chips
  /\ r.investedThisHand = st.investedThisHand
  /\ r.investedThisStreet = st.investedThisStreet
  /\ r.playerStatus = st.playerStatus
  /\ r.status = st.status /\ r.street = st.street /\ r.won = st.won
  /\ r.boardCards = st.boardCards /\ r.startHandChips = st.startHandChips
  /\ r.currentBet = st.currentBet /\ r.minRaise = st.minRaise

\* HasActed and MarkFullAggression only touch marks.
LEMMA MarksState ==
  ASSUME NEW st \in GameStates, NEW s \in Seats
  PROVE  /\ SameButMarks(HasActed(st, s), st)
         /\ SameButMarks(MarkFullAggression(st, s), st)
<1>1. SameButMarks(HasActed(st, s), st)
  BY DEF SameButMarks, HasActed, GameStates
<1>2. SameButMarks(MarkFullAggression(st, s), st)
  <2> DEFINE marks == [ t \in Seats |->
               t = s \/ (st.hasActedThisStreet[t] /\ ~CanStillAct(st, t)) ]
  <2>1. marks \in [Seats -> BOOLEAN]
    OBVIOUS
  <2>2. MarkFullAggression(st, s)
          = [st EXCEPT !.hasActedThisStreet = marks, !.lastAggressorSeat = s]
    BY DEF MarkFullAggression
  <2> HIDE DEF marks
  <2>3. QED BY <2>1, <2>2 DEF SameButMarks, GameStates
<1>3. QED BY <1>1, <1>2

\* A seat that puts chips in and is then marked keeps the round going, if the bet
\* is set to what it has in now or was not below it: what Called, BetPlaced,
\* RaisedTo and WentAllIn have in common.
LEMMA PaidRound ==
  ASSUME NEW st, RoundInv(st), NEW s \in Seats, NEW amount \in Nat, amount <= st.chips[s],
         NEW bet \in Nat, NEW raise \in Nat, raise > 0, NEW r,
         \/ bet = st.currentBet /\ st.investedThisStreet[s] + amount <= st.currentBet
         \/ bet = st.investedThisStreet[s] + amount /\ st.currentBet <= bet,
         SameButMarks(r, [InvestChips(st, s, amount) EXCEPT !.currentBet = bet, !.minRaise = raise])
  PROVE  RoundInv(r)
<1> DEFINE paid == InvestChips(st, s, amount)
           p == [paid EXCEPT !.currentBet = bet, !.minRaise = raise]
<1>0. st \in GameStates
  BY DEF RoundInv
<1>1. /\ paid \in GameStates
      /\ paid.chips = [st.chips EXCEPT ![s] = @ - amount]
      /\ paid.investedThisHand = [st.investedThisHand EXCEPT ![s] = @ + amount]
      /\ paid.investedThisStreet = [st.investedThisStreet EXCEPT ![s] = @ + amount]
      /\ \A t \in Seats : CanStillAct(paid, t) => CanStillAct(st, t)
      /\ paid.status = st.status /\ paid.street = st.street /\ paid.won = st.won
      /\ paid.boardCards = st.boardCards
      /\ paid.startHandChips = st.startHandChips
  BY <1>0, InvestChipsState DEF Invested
<1> HIDE DEF paid
<1>2. /\ r \in GameStates /\ r.chips = paid.chips
      /\ r.investedThisHand = paid.investedThisHand
      /\ r.investedThisStreet = paid.investedThisStreet
      /\ r.playerStatus = paid.playerStatus
      /\ r.status = paid.status /\ r.street = paid.street /\ r.won = paid.won
      /\ r.boardCards = paid.boardCards /\ r.startHandChips = paid.startHandChips
      /\ r.currentBet = bet /\ r.minRaise = raise
  BY <1>1 DEF SameButMarks, GameStates, paid
<1>3. \A t \in Seats : CanStillAct(r, t) => CanStillAct(st, t)
  BY <1>1, <1>2 DEF CanStillAct
<1>4. QED
  BY <1>0, <1>1, <1>2, <1>3, InvestedRound

\* The same for a state that was marked after its bet and raise size were set.
LEMMA MarkedPaidRound ==
  ASSUME NEW st, RoundInv(st), NEW s \in Seats, NEW amount \in Nat, amount <= st.chips[s],
         NEW bet \in Nat, NEW raise \in Nat, raise > 0,
         NEW q, q = [InvestChips(st, s, amount) EXCEPT !.currentBet = bet, !.minRaise = raise],
         \/ bet = st.currentBet /\ st.investedThisStreet[s] + amount <= st.currentBet
         \/ bet = st.investedThisStreet[s] + amount /\ st.currentBet <= bet
  PROVE  RoundInv(HasActed(q, s)) /\ RoundInv(MarkFullAggression(q, s))
<1> DEFINE paid == InvestChips(st, s, amount)
<1>1. paid \in GameStates
  BY InvestChipsState DEF RoundInv, Invested
<1> HIDE DEF paid
<1>2. q \in GameStates
  BY <1>1 DEF GameStates, paid
<1>3. SameButMarks(HasActed(q, s), q) /\ SameButMarks(MarkFullAggression(q, s), q)
  BY <1>2, MarksState
<1>4. QED BY <1>3, PaidRound

\* Setting a field to the value it has changes nothing.
LEMMA SameFields ==
  ASSUME NEW q \in GameStates
  PROVE  /\ q = [q EXCEPT !.currentBet = q.currentBet, !.minRaise = q.minRaise]
         /\ \A bet \in Nat : [q EXCEPT !.currentBet = bet]
                               = [q EXCEPT !.currentBet = bet, !.minRaise = q.minRaise]
BY DEF GameStates

LEMMA CalledRound ==
  ASSUME NEW st, RoundInv(st), NEW s \in Seats, MayCall(st, s)
  PROVE  RoundInv(Called(st, s))
<1> DEFINE missing == st.currentBet - st.investedThisStreet[s]
           amount == Min({st.chips[s], missing})
<1>1. st \in GameStates /\ st.chips[s] \in Nat /\ st.currentBet \in Nat
      /\ st.investedThisStreet[s] \in Nat /\ st.minRaise \in Nat /\ st.minRaise > 0
  BY DEF RoundInv, GameStates
<1>2. missing \in Nat
  BY <1>1 DEF MayCall
<1>3. amount \in Nat /\ amount <= st.chips[s] /\ amount <= missing
  <2>1. {st.chips[s], missing} \in SUBSET Nat /\ {st.chips[s], missing} # {}
    BY <1>1, <1>2
  <2>2. QED BY <1>1, <1>2, <2>1, MinOfNats
<1> HIDE DEF amount
<1> DEFINE paid == InvestChips(st, s, amount)
<1>4a. Invested(paid, st, s, amount)
  BY <1>1, <1>3, InvestChipsState
<1>4. paid \in GameStates /\ paid.currentBet = st.currentBet /\ paid.minRaise = st.minRaise
  BY <1>4a DEF Invested
<1>5. paid = [paid EXCEPT !.currentBet = st.currentBet, !.minRaise = st.minRaise]
  BY <1>4, SameFields
<1>6. st.investedThisStreet[s] + amount <= st.currentBet
  BY <1>1, <1>3
<1>7. RoundInv(HasActed(paid, s))
  BY <1>1, <1>3, <1>5, <1>6, MarkedPaidRound
<1>8. QED BY <1>7 DEF Called, amount

LEMMA BetRound ==
  ASSUME NEW st, RoundInv(st), NEW s \in Seats, NEW amount \in Nat, MayBet(st, s, amount)
  PROVE  RoundInv(BetPlaced(st, s, amount))
<1> DEFINE paid == InvestChips(st, s, amount)
           bet == paid.investedThisStreet[s]
           q == [paid EXCEPT !.currentBet = bet, !.minRaise = amount]
<1>1. /\ st \in GameStates /\ st.investedThisStreet[s] \in Nat
      /\ st.currentBet = 0 /\ amount <= st.chips[s] /\ amount > 0
  BY DEF RoundInv, GameStates, MayBet
<1>2a. Invested(paid, st, s, amount)
  BY <1>1, InvestChipsState
<1>2. bet = st.investedThisStreet[s] + amount
  BY <1>1, <1>2a DEF Invested, GameStates
<1>3. bet \in Nat /\ st.currentBet <= bet
  BY <1>1, <1>2
<1>4. RoundInv(MarkFullAggression(q, s))
  BY <1>1, <1>2, <1>3, MarkedPaidRound
<1>5. QED BY <1>4 DEF BetPlaced

LEMMA RaisedRound ==
  ASSUME NEW st, RoundInv(st), NEW s \in Seats, NEW raiseTo \in Nat, MayRaise(st, s, raiseTo)
  PROVE  RoundInv(RaisedTo(st, s, raiseTo))
<1> DEFINE size == raiseTo - st.currentBet
           amount == raiseTo - st.investedThisStreet[s]
           paid == InvestChips(st, s, amount)
           q == [paid EXCEPT !.currentBet = raiseTo]
<1>1. /\ st \in GameStates /\ st.chips[s] \in Nat /\ st.currentBet \in Nat
      /\ st.investedThisStreet[s] \in Nat /\ st.minRaise \in Nat /\ st.minRaise > 0
      /\ st.investedThisStreet[s] <= st.currentBet
  BY DEF RoundInv, GameStates
<1>2. /\ amount \in Nat /\ amount <= st.chips[s] /\ size \in Nat /\ size > 0
      /\ raiseTo = st.investedThisStreet[s] + amount /\ st.currentBet <= raiseTo
  BY <1>1 DEF MayRaise
<1>3a. Invested(paid, st, s, amount)
  BY <1>1, <1>2, InvestChipsState
<1>3. paid \in GameStates /\ paid.minRaise = st.minRaise
  BY <1>3a DEF Invested
<1>4. q = [paid EXCEPT !.currentBet = raiseTo, !.minRaise = st.minRaise]
  BY <1>3, SameFields
<1>5. RoundInv(HasActed(q, s))
  <2> HIDE DEF q, paid
  <2> QED BY <1>1, <1>2, <1>4, MarkedPaidRound DEF paid
<1>6. [q EXCEPT !.minRaise = size] = [paid EXCEPT !.currentBet = raiseTo, !.minRaise = size]
  BY <1>3 DEF GameStates
<1>7. RoundInv(MarkFullAggression([q EXCEPT !.minRaise = size], s))
  BY <1>1, <1>2, <1>6, MarkedPaidRound
<1>8. QED BY <1>5, <1>7 DEF RaisedTo

LEMMA AllInRound ==
  ASSUME NEW st, RoundInv(st), NEW s \in Seats
  PROVE  RoundInv(WentAllIn(st, s))
<1> DEFINE amount == st.chips[s]
           total == st.investedThisStreet[s] + amount
           size == total - st.currentBet
           paid == InvestChips(st, s, amount)
           raised == [paid EXCEPT !.currentBet = total]
           raise == Max({st.minRaise, size})
<1>1. /\ st \in GameStates /\ amount \in Nat /\ amount <= amount /\ st.currentBet \in Nat
      /\ st.investedThisStreet[s] \in Nat /\ st.minRaise \in Nat /\ st.minRaise > 0
      /\ total \in Nat
  BY DEF RoundInv, GameStates
<1>2a. Invested(paid, st, s, amount)
  BY <1>1, InvestChipsState
<1>2. /\ paid \in GameStates /\ paid.minRaise = st.minRaise
      /\ paid.currentBet = st.currentBet
  BY <1>2a DEF Invested
<1>3. CASE total <= st.currentBet
  <2>1. paid = [paid EXCEPT !.currentBet = st.currentBet, !.minRaise = st.minRaise]
    BY <1>2, SameFields
  <2>2. RoundInv(HasActed(paid, s))
    BY <1>1, <1>3, <2>1, MarkedPaidRound
  <2>3. QED BY <1>3, <2>2 DEF WentAllIn
<1>4. CASE ~(total <= st.currentBet)
  <2>1. size \in Nat /\ st.currentBet <= total
    BY <1>1, <1>4
  <2>2. raised = [paid EXCEPT !.currentBet = total, !.minRaise = st.minRaise]
    BY <1>1, <1>2, SameFields
  <2>3. RoundInv(HasActed(raised, s))
    BY <1>1, <2>1, <2>2, MarkedPaidRound
  <2>4. raise \in Nat /\ raise > 0
    <3>1. {st.minRaise, size} \in SUBSET Nat /\ {st.minRaise, size} # {}
      BY <1>1, <2>1
    <3>2. IsFiniteSet({st.minRaise, size})
      BY PairIsFinite
    <3>3. raise \in Nat /\ st.minRaise <= raise
      BY <3>1, <3>2, MaxOfNats
    <3>4. QED BY <1>1, <3>3
  <2>5. [raised EXCEPT !.minRaise = Max({@, size})]
          = [paid EXCEPT !.currentBet = total, !.minRaise = raise]
    BY <1>2 DEF GameStates
  <2>6. RoundInv(MarkFullAggression([raised EXCEPT !.minRaise = Max({@, size})], s))
    BY <1>1, <2>1, <2>4, <2>5, MarkedPaidRound
  <2>7. QED BY <1>4, <2>3, <2>6 DEF WentAllIn
<1>5. QED BY <1>3, <1>4

-----------------------------------------------------------------------------
(* Payouts *)

\* A pot share is an integer: amounts are, and winners of a pot are not nobody.
LEMMA PotShareType ==
  ASSUME NEW invested \in [Seats -> Nat], NEW eligible \in SUBSET Seats, NEW rank,
         NEW level \in PotLevels(invested, eligible), NEW s \in Seats
  PROVE  PotShare(invested, eligible, rank, level, s) \in Int
<1> DEFINE winners == PotWinners(invested, eligible, rank, level)
           amount == PotAmount(invested, level)
           count == Cardinality(winners)
           before == { w \in winners : w < s }
<1>1. Levels(invested) \in SUBSET Nat /\ IsFiniteSet(Levels(invested))
  <2>1. IsFiniteSet({ invested[t] : t \in Seats })
    BY SeatsAssumption, ImageIsFinite
  <2>2. Levels(invested) = { invested[t] : t \in Seats } \ {0}
    BY DEF Levels
  <2>3. QED BY <2>1, <2>2, FS_Subset
<1>2. level \in Nat
  BY <1>1 DEF PotLevels
<1>3. PreviousLevel(invested, level) \in Nat
  <2> DEFINE T == {0} \cup { k \in Levels(invested) : k < level }
  <2>1. T \in SUBSET Nat /\ T # {}
    BY <1>1
  <2>2. IsFiniteSet(T)
    <3>1. IsFiniteSet({0}) /\ IsFiniteSet({ k \in Levels(invested) : k < level })
      BY <1>1, FS_Singleton, FS_Subset
    <3>2. QED BY <3>1, FS_Union
  <2> HIDE DEF T
  <2>3. Max(T) \in Nat
    BY <2>1, <2>2, MaxOfNats
  <2>4. QED BY <2>3 DEF PreviousLevel, T
<1>4. amount \in Int
  <2>1. Contributors(invested, level) \in SUBSET Seats
    BY DEF Contributors
  <2>2. Cardinality(Contributors(invested, level)) \in Nat
    BY <2>1, SeatSetsAreFinite
  <2>3. QED BY <1>2, <1>3, <2>2 DEF PotAmount
<1>5. winners \in SUBSET Seats
  BY DEF PotWinners
<1>6. CASE s \in winners
  <2>1. IsFiniteSet(winners) /\ count \in Nat
    BY <1>5, SeatSetsAreFinite
  <2>2. count # 0
    BY <1>6, <2>1, FS_EmptySet
  <2> HIDE DEF winners, amount, count
  <2>3. amount \div count \in Int
    BY <1>4, <2>1, <2>2
  <2>4. QED BY <2>3 DEF PotShare, winners, amount, count
<1>7. CASE s \notin winners
  BY <1>7 DEF PotShare
<1>8. QED BY <1>6, <1>7

\* What seats are paid are natural numbers.
LEMMA PayoutsType ==
  ASSUME NEW invested \in [Seats -> Nat], NEW eligible \in SUBSET Seats, NEW rank
  PROVE  Payouts(invested, eligible, rank) \in [Seats -> Nat]
<1>1. IsFiniteSet(PotLevels(invested, eligible))
  <2>1. IsFiniteSet({ invested[t] : t \in Seats })
    BY SeatsAssumption, ImageIsFinite
  <2>2. PotLevels(invested, eligible) \in SUBSET { invested[t] : t \in Seats }
    BY DEF PotLevels, Levels
  <2>3. QED BY <2>1, <2>2, FS_Subset
<1>2. ASSUME NEW s \in Seats
      PROVE  ChipTotal([ l \in PotLevels(invested, eligible) |->
                           PotShare(invested, eligible, rank, l, s) ]) \in Nat
  <2> DEFINE f == [ l \in PotLevels(invested, eligible) |->
                      PotShare(invested, eligible, rank, l, s) ]
  <2>1. \A l \in PotLevels(invested, eligible) :
          PotShare(invested, eligible, rank, l, s) \in Int
    BY PotShareType
  <2>2. DOMAIN f = PotLevels(invested, eligible) /\ \A l \in DOMAIN f : f[l] \in Int
    BY <2>1
  <2> HIDE DEF f
  <2>3. ChipTotal(f) \in Nat
    BY <1>1, <2>2, ChipTotalType
  <2>4. QED BY <2>3 DEF f
<1>3. QED BY <1>2 DEF Payouts

-----------------------------------------------------------------------------
(* Normalisation *)

\* A hand that is paid out is accounted for.
LEMMA FinishGame ==
  ASSUME NEW st, RoundInv(st), NEW won \in [Seats -> Nat]
  PROVE  GameInv(Finish(st, won))
<1> DEFINE r == Finish(st, won)
           stacks == [ s \in Seats |-> st.chips[s] + won[s] ]
<1>1. st \in GameStates /\ \A s \in Seats : st.chips[s] \in Nat /\ won[s] \in Nat
  BY DEF RoundInv, GameStates
<1>2. stacks \in [Seats -> Nat]
  BY <1>1
<1>3. /\ r \in GameStates
      /\ r.chips = stacks /\ r.won = won /\ r.status = "HAND_FINISHED"
      /\ r.investedThisHand = st.investedThisHand /\ r.startHandChips = st.startHandChips
  BY <1>1, <1>2 DEF Finish, GameStates, GameStatuses
<1>4. ASSUME NEW s \in Seats
      PROVE  r.chips[s] + r.investedThisHand[s] = r.startHandChips[s] + r.won[s]
  <2>1. /\ st.chips[s] \in Nat /\ st.investedThisHand[s] \in Nat
        /\ st.startHandChips[s] \in Nat /\ won[s] \in Nat
    BY <1>1 DEF GameStates
  <2>2. st.chips[s] + st.investedThisHand[s] = st.startHandChips[s]
    BY DEF RoundInv
  <2>3. QED BY <1>3, <2>1, <2>2
<1>5. QED BY <1>3, <1>4 DEF GameInv

LEMMA FinishByFoldGame ==
  ASSUME NEW st, RoundInv(st), NEW s \in Seats
  PROVE  GameInv(FinishByFold(st, s))
<1>1. st.investedThisHand \in [Seats -> Nat]
  BY DEF RoundInv, GameStates
<1>2. Pot(st) \in Nat
  BY <1>1, SeatsAssumption, ChipTotalType DEF Pot
<1>3. [ t \in Seats |-> IF t = s THEN Pot(st) ELSE 0 ] \in [Seats -> Nat]
  BY <1>2
<1>4. QED BY <1>3, FinishGame DEF FinishByFold

LEMMA FinishByShowdownGame ==
  ASSUME NEW st, RoundInv(st), NEW rank
  PROVE  GameInv(FinishByShowdown(st, rank))
<1> DEFINE river == [st EXCEPT !.boardCards = 5]
           won == Payouts(st.investedThisHand, Contenders(st), rank)
           r == Finish(river, won)
<1>1. st \in GameStates
  BY DEF RoundInv
<1>2. st.investedThisHand \in [Seats -> Nat] /\ Contenders(st) \in SUBSET Seats
  BY <1>1 DEF GameStates, Contenders
<1>3. won \in [Seats -> Nat]
  BY <1>2, PayoutsType
<1> HIDE DEF won
<1>4. GameInv(Finish(st, won))
  BY <1>3, FinishGame
<1>5. r = [Finish(st, won) EXCEPT !.boardCards = 5]
  BY <1>1 DEF Finish, GameStates
<1>6. GameInv(r)
  <2> DEFINE f == Finish(st, won)
  <2>1. f \in GameStates /\ f.status = "HAND_FINISHED"
    BY <1>1, <1>4 DEF GameInv, Finish, GameStates
  <2> HIDE DEF f
  <2>2. GameInv(f) /\ r = [f EXCEPT !.boardCards = 5]
    BY <1>4, <1>5 DEF f
  <2> HIDE DEF r
  <2>3. /\ r \in GameStates /\ r.status = f.status /\ r.chips = f.chips /\ r.won = f.won
        /\ r.investedThisHand = f.investedThisHand /\ r.startHandChips = f.startHandChips
    BY <2>1, <2>2 DEF GameStates
  <2>4. QED BY <2>1, <2>2, <2>3 DEF GameInv
<1>7. QED BY <1>6 DEF FinishByShowdown, won

\* A street that is complete starts the next one square, with the turn at a seat
\* that owes it an action or at nobody.
LEMMA AdvancedRound ==
  ASSUME NEW st, RoundInv(st), BettingRoundComplete(st), st.street # "RIVER"
  PROVE  LET next == AdvanceStreet(st)
         IN  /\ RoundInv(next)
             /\ next.currentTurnSeat \in ToAct(next) \cup {NoSeat}
<1> DEFINE zeros == [ s \in Seats |-> 0 ]
           falses == [ s \in Seats |-> FALSE ]
           fresh == [st EXCEPT !.boardCards = @ + CardsToDeal[st.street],
                               !.street = NextStreet[st.street],
                               !.currentBet = 0,
                               !.minRaise = BigBlind,
                               !.lastAggressorSeat = NoSeat,
                               !.investedThisStreet = zeros,
                               !.hasActedThisStreet = falses]
           turn == FirstActionableSeatAfter(fresh, fresh.dealerSeat)
           next == [fresh EXCEPT !.currentTurnSeat = turn]
<1>1. AdvanceStreet(st) = next
  BY DEF AdvanceStreet
<1>2. /\ st \in GameStates /\ st.dealerSeat \in Seats
      /\ \A s \in Seats : /\ st.investedThisHand[s] \in Nat
                          /\ st.investedThisStreet[s] \in Nat
      /\ st.currentBet \in Nat
  BY DEF RoundInv, GameStates
<1>3. zeros \in [Seats -> Nat] /\ falses \in [Seats -> BOOLEAN]
      /\ \A s \in Seats : zeros[s] = 0
  OBVIOUS
<1> HIDE DEF zeros, falses
<1>4. /\ st.boardCards + CardsToDeal[st.street] \in 0..5
      /\ NextStreet[st.street] \in BettingStreets
      /\ st.boardCards + CardsToDeal[st.street] = BoardOf[NextStreet[st.street]]
  BY DEF RoundInv, BettingStreets, BoardOf, CardsToDeal, NextStreet
<1>5. /\ fresh \in GameStates
      /\ fresh.boardCards = BoardOf[fresh.street] /\ fresh.street \in BettingStreets
      /\ fresh.currentBet = 0 /\ fresh.minRaise = BigBlind /\ fresh.investedThisStreet = zeros
      /\ fresh.status = st.status /\ fresh.won = st.won /\ fresh.chips = st.chips
      /\ fresh.investedThisHand = st.investedThisHand
      /\ fresh.startHandChips = st.startHandChips
      /\ fresh.playerStatus = st.playerStatus /\ fresh.dealerSeat \in Seats
  BY <1>2, <1>3, <1>4, BlindsAssumption DEF GameStates
<1> HIDE DEF fresh
<1>6. turn \in ToAct(fresh) \cup {NoSeat}
  BY <1>5, FirstActionableType
<1>7. ToAct(fresh) \in SUBSET Seats
  BY DEF ToAct
<1> HIDE DEF turn
<1>8. /\ next \in GameStates /\ next.currentTurnSeat = turn
      /\ next.boardCards = fresh.boardCards /\ next.street = fresh.street
      /\ next.currentBet = 0 /\ next.minRaise = BigBlind /\ next.investedThisStreet = zeros
      /\ next.status = st.status /\ next.won = st.won /\ next.chips = st.chips
      /\ next.investedThisHand = st.investedThisHand
      /\ next.startHandChips = st.startHandChips
      /\ next.playerStatus = st.playerStatus
      /\ next.hasActedThisStreet = fresh.hasActedThisStreet
  BY <1>5, <1>6, <1>7 DEF GameStates
<1> HIDE DEF next
<1>9. ToAct(next) = ToAct(fresh)
  BY <1>5, <1>8 DEF ToAct, CanStillAct
<1>10. \A s \in Seats : CanStillAct(next, s) <=> CanStillAct(st, s)
  BY <1>8 DEF CanStillAct
<1>11. \A s \in Seats : Earlier(next, s) = st.investedThisHand[s]
  BY <1>2, <1>3, <1>8 DEF Earlier
<1>12. ASSUME NEW s \in Seats, NEW t \in Seats, CanStillAct(next, s)
       PROVE  Earlier(next, t) <= Earlier(next, s)
  <2>1. CanStillAct(st, s)
    BY <1>10, <1>12
  <2>2. st.investedThisStreet[s] = st.currentBet
    BY <2>1 DEF BettingRoundComplete
  <2>3. Earlier(st, t) <= Earlier(st, s) /\ st.investedThisStreet[t] <= st.currentBet
    BY <2>1 DEF RoundInv
  <2>4. st.investedThisHand[t] <= st.investedThisHand[s]
    BY <1>2, <2>2, <2>3 DEF Earlier
  <2>5. QED BY <1>11, <2>4
<1>13. \E s \in Seats : next.investedThisStreet[s] = next.currentBet
  BY <1>2, <1>3, <1>8
<1>14. RoundInv(next)
  <2>1. next.minRaise > 0
    BY <1>8, BlindsAssumption
  <2>2. \A s \in Seats : next.investedThisStreet[s] <= next.currentBet
    BY <1>3, <1>8
  <2>3. /\ next.status = "PLAYING" /\ next.street \in BettingStreets
        /\ next.boardCards = BoardOf[next.street]
    BY <1>5, <1>8 DEF RoundInv
  <2>4. /\ \A s \in Seats : next.won[s] = 0
        /\ \A s \in Seats : next.chips[s] + next.investedThisHand[s] = next.startHandChips[s]
    BY <1>8 DEF RoundInv
  <2>5. QED BY <1>8, <1>12, <1>13, <2>1, <2>2, <2>3, <2>4 DEF RoundInv
<1>15. QED BY <1>1, <1>6, <1>8, <1>9, <1>14

\* A round under way whose turn is with a seat that owes an action is playable.
LEMMA PlayableGame ==
  ASSUME NEW st, RoundInv(st), st.currentTurnSeat \in ToAct(st)
  PROVE  GameInv(st)
<1>1. \A s \in Seats : st.startHandChips[s] \in Nat
  BY DEF RoundInv, GameStates
<1>2. \A s \in Seats : st.chips[s] + st.investedThisHand[s]
                         = st.startHandChips[s] + st.won[s]
  BY <1>1 DEF RoundInv
<1>3. QED BY <1>2 DEF GameInv, RoundInv

\* What normalizeAfterAction returns after a mutation satisfies the invariant.
LEMMA NormalizeGame ==
  ASSUME NEW st, RoundInv(st), NEW from \in Seats, NEW ranks,
         NEW r \in NormalizeAfterAction(st, from, ranks)
  PROVE  GameInv(r)
<1> DEFINE alive == Contenders(st)
           next == AdvanceStreet(st)
           turn == FirstActionableSeatAfter(st, from)
<1>1. CASE Cardinality(alive) = 1
  <2>1. PICK s \in alive : r = FinishByFold(st, s)
    BY <1>1 DEF NormalizeAfterAction
  <2>2. s \in Seats
    BY DEF Contenders
  <2>3. QED BY <2>1, <2>2, FinishByFoldGame
<1>2. CASE \E rank \in [alive -> ranks] : r = FinishByShowdown(st, rank)
  BY <1>2, FinishByShowdownGame
<1>3. CASE /\ ~BettingRoundComplete(st)
           /\ r = [st EXCEPT !.currentTurnSeat = turn]
  <2>1. st \in GameStates
    BY DEF RoundInv
  <2>2. PICK s \in Seats :
          CanStillAct(st, s) /\ ~(/\ st.hasActedThisStreet[s]
                                  /\ st.investedThisStreet[s] = st.currentBet)
    BY <1>3 DEF BettingRoundComplete
  <2>3. /\ st.investedThisStreet[s] <= st.currentBet
        /\ st.investedThisStreet[s] \in Nat /\ st.currentBet \in Nat
    BY <2>1 DEF RoundInv, GameStates
  <2>4. s \in ToAct(st)
    BY <2>2, <2>3 DEF ToAct
  <2>5. turn \in ToAct(st) /\ turn \in Seats
    BY <2>4, FirstActionableType DEF ToAct
  <2> HIDE DEF turn
  <2>6. /\ r \in GameStates /\ r.currentTurnSeat = turn
        /\ SameButMarks(r, st) /\ r.hasActedThisStreet = st.hasActedThisStreet
    BY <1>3, <2>1, <2>5 DEF GameStates, SameButMarks
  <2>7. RoundInv(r) /\ ToAct(r) = ToAct(st)
    BY <2>6, MarkedRound DEF SameButMarks, CanStillAct, ToAct
  <2>8. QED BY <2>5, <2>6, <2>7, PlayableGame
<1>4. CASE /\ BettingRoundComplete(st) /\ st.street # "RIVER"
           /\ r = next /\ next.currentTurnSeat # NoSeat
  <2>1. RoundInv(next) /\ next.currentTurnSeat \in ToAct(next)
    BY <1>4, AdvancedRound
  <2>2. QED BY <1>4, <2>1, PlayableGame
<1>5. CASE /\ BettingRoundComplete(st) /\ st.street # "RIVER"
           /\ \E rank \in [alive -> ranks] : r = FinishByShowdown(next, rank)
  <2>1. RoundInv(next)
    BY <1>5, AdvancedRound
  <2>2. QED BY <1>5, <2>1, FinishByShowdownGame
<1>6. QED
  BY <1>1, <1>2, <1>3, <1>4, <1>5 DEF NormalizeAfterAction

\* It goes on with the hand or finishes it; rooms are finished elsewhere.
LEMMA NormalizedStatus ==
  ASSUME NEW st, RoundInv(st), NEW from, NEW ranks,
         NEW r \in NormalizeAfterAction(st, from, ranks)
  PROVE  r.status \in {"PLAYING", "HAND_FINISHED"}
<1> DEFINE alive == Contenders(st)
           next == AdvanceStreet(st)
<1>1. ASSUME NEW g \in GameStates, NEW won PROVE Finish(g, won).status = "HAND_FINISHED"
  BY DEF Finish, GameStates
<1>2. ASSUME NEW g, RoundInv(g), NEW x
      PROVE  /\ FinishByFold(g, x).status = "HAND_FINISHED"
             /\ FinishByShowdown(g, x).status = "HAND_FINISHED"
  <2>1. g \in GameStates
    BY <1>2 DEF RoundInv
  <2>2. [g EXCEPT !.boardCards = 5] \in GameStates
    BY <2>1 DEF GameStates
  <2>3. QED BY <1>1, <2>1, <2>2 DEF FinishByFold, FinishByShowdown
<1>3. st.status = "PLAYING" /\ st \in GameStates
  BY DEF RoundInv
<1>4. BettingRoundComplete(st) /\ st.street # "RIVER" => RoundInv(next) /\ next.status = "PLAYING"
  BY AdvancedRound DEF RoundInv
<1>5. [st EXCEPT !.currentTurnSeat = FirstActionableSeatAfter(st, from)].status = "PLAYING"
  BY <1>3 DEF GameStates
<1> HIDE DEF next
<1>6. \/ \E s \in alive : r = FinishByFold(st, s)
      \/ \E rank : r = FinishByShowdown(st, rank)
      \/ r = [st EXCEPT !.currentTurnSeat = FirstActionableSeatAfter(st, from)]
      \/ /\ BettingRoundComplete(st) /\ st.street # "RIVER"
         /\ r = next \/ \E rank : r = FinishByShowdown(next, rank)
  BY DEF NormalizeAfterAction, next
<1>7. QED BY <1>2, <1>3, <1>4, <1>5, <1>6

-----------------------------------------------------------------------------
(* The first state of a hand *)

\* A blind is what the seat has, at most: posting it is putting chips in.
LEMMA PostBlindState ==
  ASSUME NEW st \in GameStates, NEW s \in Seats, NEW blind \in Nat
  PROVE  \E amount \in Nat : Invested(PostBlind(st, s, blind), st, s, amount)
                             /\ amount <= st.chips[s]
<1> DEFINE amount == Min({st.chips[s], blind})
<1>1. st.chips[s] \in Nat
  BY DEF GameStates
<1>2. amount \in Nat /\ amount <= st.chips[s]
  <2>1. {st.chips[s], blind} \in SUBSET Nat /\ {st.chips[s], blind} # {}
    BY <1>1
  <2>2. QED BY <1>1, <2>1, MinOfNats
<1> HIDE DEF amount
<1>3. Invested(InvestChips(st, s, amount), st, s, amount)
  BY <1>2, InvestChipsState
<1>4. QED BY <1>2, <1>3 DEF PostBlind, amount

\* Between dealing and betting: like a round, but for the bet, which is not set
\* yet; what seats have put in is all of this street.
Posting(st) ==
  /\ st \in GameStates
  /\ st.status = "PLAYING" /\ st.street = "PREFLOP" /\ st.boardCards = 0
  /\ st.minRaise > 0
  /\ \A s \in Seats : st.won[s] = 0
  /\ \A s \in Seats : st.chips[s] + st.investedThisHand[s] = st.startHandChips[s]
  /\ st.investedThisHand = st.investedThisStreet

LEMMA InvestedPosting ==
  ASSUME NEW st, Posting(st), NEW s \in Seats, NEW amount \in Nat, NEW r,
         Invested(r, st, s, amount), amount <= st.chips[s]
  PROVE  Posting(r)
<1>1. \A t \in Seats : /\ st.chips[t] \in Nat /\ st.investedThisHand[t] \in Nat
                       /\ st.startHandChips[t] \in Nat
  BY DEF Posting, GameStates
<1>2. \A t \in Seats :
        /\ r.chips[t] = IF t = s THEN st.chips[t] - amount ELSE st.chips[t]
        /\ r.investedThisHand[t] =
             IF t = s THEN st.investedThisHand[t] + amount ELSE st.investedThisHand[t]
  BY DEF Posting, Invested, GameStates
<1>3. \A t \in Seats : r.chips[t] + r.investedThisHand[t] = r.startHandChips[t]
  BY <1>1, <1>2 DEF Posting, Invested
<1>4. QED BY <1>3 DEF Posting, Invested

LEMMA BlindSeats ==
  ASSUME NEW S \in SUBSET Seats, NEW dealer \in S
  PROVE  SmallBlindSeat(S, dealer) \in S /\ BigBlindSeat(S, dealer) \in S
<1>1. S # {} /\ dealer \in Nat
  BY SeatsAssumption
<1>2. SmallBlindSeat(S, dealer) \in S
  BY <1>1, SeatAfterIn DEF SmallBlindSeat
<1>3. SmallBlindSeat(S, dealer) \in Nat
  BY <1>2, SeatsAssumption
<1>4. QED BY <1>1, <1>2, <1>3, SeatAfterIn DEF BigBlindSeat

\* Posting the blinds starts a round.
LEMMA BlindsRound ==
  ASSUME NEW chips \in [Seats -> Nat], NEW dealer \in Funded(chips)
  PROVE  RoundInv(BlindsPosted(chips, dealer))
         /\ BlindsPosted(chips, dealer).bigBlindSeat \in Seats
<1> DEFINE S == Funded(chips)
           dealt == Dealt(chips, dealer)
           small == PostBlind(dealt, dealt.smallBlindSeat, SmallBlind)
           posted == PostBlind(small, dealt.bigBlindSeat, BigBlind)
           bet == Max({ posted.investedThisStreet[s] : s \in Seats })
           r == [posted EXCEPT !.currentBet = bet]
<1>1. S \in SUBSET Seats
  BY DEF Funded
<1>2. /\ SmallBlindSeat(S, dealer) \in Seats /\ BigBlindSeat(S, dealer) \in Seats
      /\ dealer \in Seats
  BY <1>1, BlindSeats
<1>3. Posting(dealt) /\ dealt.smallBlindSeat \in Seats /\ dealt.bigBlindSeat \in Seats
  <2> DEFINE statuses == [ s \in Seats |-> IF chips[s] > 0 THEN "ACTIVE" ELSE "OUT" ]
             zeros == [ s \in Seats |-> 0 ]
             falses == [ s \in Seats |-> FALSE ]
  <2>1. /\ statuses \in [Seats -> PlayerStatuses] /\ zeros \in [Seats -> Nat]
        /\ falses \in [Seats -> BOOLEAN] /\ \A s \in Seats : zeros[s] = 0
    BY DEF PlayerStatuses
  <2> HIDE DEF statuses, zeros, falses
  <2>2. dealt =
          [ status |-> "PLAYING", street |-> "PREFLOP", boardCards |-> 0,
            currentBet |-> 0, minRaise |-> BigBlind, dealerSeat |-> dealer,
            smallBlindSeat |-> SmallBlindSeat(S, dealer),
            bigBlindSeat |-> BigBlindSeat(S, dealer),
            currentTurnSeat |-> NoSeat, lastAggressorSeat |-> BigBlindSeat(S, dealer),
            chips |-> chips, startHandChips |-> chips,
            investedThisHand |-> zeros, investedThisStreet |-> zeros,
            playerStatus |-> statuses, hasActedThisStreet |-> falses, won |-> zeros ]
    BY DEF Dealt, statuses, zeros, falses
  <2> HIDE DEF dealt, S
  <2>3. dealt \in GameStates
    BY <1>2, <2>1, <2>2, BlindsAssumption DEF GameStates, GameStatuses, BettingStreets
  <2>4. \A s \in Seats : dealt.won[s] = 0
    BY <2>1, <2>2
  <2>5. \A s \in Seats : dealt.chips[s] + dealt.investedThisHand[s] = dealt.startHandChips[s]
    <3>1. \A s \in Seats : chips[s] \in Nat
      OBVIOUS
    <3>2. QED BY <2>1, <2>2, <3>1
  <2>6. QED BY <1>2, <2>2, <2>3, <2>4, <2>5, BlindsAssumption DEF Posting
<1> HIDE DEF dealt
<1>4. Posting(small)
  <2>1. PICK amount \in Nat :
          Invested(small, dealt, dealt.smallBlindSeat, amount)
          /\ amount <= dealt.chips[dealt.smallBlindSeat]
    BY <1>3, BlindsAssumption, PostBlindState DEF Posting
  <2> HIDE DEF small
  <2>2. QED BY <1>3, <2>1, InvestedPosting
<1> HIDE DEF small
<1>5. Posting(posted) /\ posted.bigBlindSeat = small.bigBlindSeat
  <2>1. PICK amount \in Nat :
          Invested(posted, small, dealt.bigBlindSeat, amount)
          /\ amount <= small.chips[dealt.bigBlindSeat]
    BY <1>3, <1>4, BlindsAssumption, PostBlindState DEF Posting
  <2> HIDE DEF posted
  <2>2. Posting(posted)
    BY <1>3, <1>4, <2>1, InvestedPosting
  <2>3. QED BY <2>1, <2>2 DEF Invested
<1>6. posted.bigBlindSeat \in Seats
  BY <1>5 DEF Posting, GameStates
<1> HIDE DEF posted
<1>7. bet \in Nat /\ (\A s \in Seats : posted.investedThisStreet[s] <= bet)
      /\ \E s \in Seats : posted.investedThisStreet[s] = bet
  <2> DEFINE T == { posted.investedThisStreet[s] : s \in Seats }
  <2>1. posted.investedThisStreet \in [Seats -> Nat]
    BY <1>5 DEF Posting, GameStates
  <2>2. T \in SUBSET Nat /\ T # {}
    BY <1>2, <2>1
  <2>3. IsFiniteSet(T)
    BY <2>1, SeatsAssumption, ImageIsFinite
  <2>4. Max(T) \in T /\ \A k \in T : k <= Max(T)
    <3> HIDE DEF T
    <3> QED BY <2>2, <2>3, MaxOfNats
  <2>5. QED BY <2>2, <2>4
<1> HIDE DEF bet
<1>8. r \in GameStates /\ r.currentBet = bet /\ r.minRaise > 0
      /\ r.chips = posted.chips /\ r.investedThisHand = posted.investedThisHand
      /\ r.investedThisStreet = posted.investedThisStreet
      /\ r.startHandChips = posted.startHandChips /\ r.won = posted.won
      /\ r.status = "PLAYING" /\ r.street = "PREFLOP" /\ r.boardCards = 0
      /\ r.bigBlindSeat = posted.bigBlindSeat
  BY <1>5, <1>7 DEF Posting, GameStates
<1>9. r = BlindsPosted(chips, dealer)
  BY DEF BlindsPosted, dealt, small, posted, bet
<1> HIDE DEF r
<1>10. \A s \in Seats : Earlier(r, s) = 0
  <2>1. \A s \in Seats : r.investedThisHand[s] \in Nat
                         /\ r.investedThisHand[s] = r.investedThisStreet[s]
    BY <1>5, <1>8 DEF Posting, GameStates
  <2>2. QED BY <2>1 DEF Earlier
<1>11. RoundInv(r)
  BY <1>5, <1>7, <1>8, <1>10 DEF RoundInv, Posting, BettingStreets, BoardOf
<1>12. QED BY <1>6, <1>8, <1>9, <1>11

\* Two seats with chips can be dealt a hand, from any button.
LEMMA InitialGame ==
  ASSUME NEW chips \in [Seats -> Nat], CanStartHand(chips), NEW dealerSeat \in Seats,
         NEW ranks, NEW r \in InitialGameStates(chips, dealerSeat, ranks)
  PROVE  GameInv(r) /\ r.status \in {"PLAYING", "HAND_FINISHED"}
<1> DEFINE S == Funded(chips)
           dealer == NormalizeDealerSeat(dealerSeat, S)
           posted == BlindsPosted(chips, dealer)
<1>1. S \in SUBSET Seats /\ S # {}
  BY FS_EmptySet DEF CanStartHand, Funded
<1>2. dealer \in S
  <2>1. dealerSeat \in Nat
    BY SeatsAssumption
  <2>2. SeatAfter(S, dealerSeat) \in S
    BY <1>1, <2>1, SeatAfterIn
  <2>3. QED BY <2>2 DEF NormalizeDealerSeat
<1> HIDE DEF dealer
<1>3. RoundInv(posted) /\ posted.bigBlindSeat \in Seats
  BY <1>2, BlindsRound
<1>4. r \in NormalizeAfterAction(posted, posted.bigBlindSeat, ranks)
  BY DEF InitialGameStates, dealer
<1> HIDE DEF posted
<1>5. QED BY <1>3, <1>4, NormalizeGame, NormalizedStatus

\* When there is a next dealer, two seats have chips and the dealer is a seat.
LEMMA NextDealer ==
  ASSUME NEW chips \in [Seats -> Nat], NEW seat \in Seats, NextDealerSeat(chips, seat) # NoSeat
  PROVE  CanStartHand(chips) /\ NextDealerSeat(chips, seat) \in Seats
<1> DEFINE S == Funded(chips)
           normal == NormalizeDealerSeat(seat, S)
<1>1. S \in SUBSET Seats /\ ~(Cardinality(S) < 2)
      /\ NextDealerSeat(chips, seat) = SeatAfter(S, normal)
  BY DEF NextDealerSeat, Funded
<1>2. S # {}
  BY <1>1, FS_EmptySet
<1>3. CanStartHand(chips)
  <2>1. Cardinality(S) \in Nat
    BY <1>1, SeatSetsAreFinite
  <2>2. QED BY <1>1, <2>1 DEF CanStartHand
<1>4. normal \in Nat
  BY <1>1, <1>2, SeatAfterIn, SeatsAssumption DEF NormalizeDealerSeat
<1>5. QED BY <1>1, <1>2, <1>3, <1>4, SeatAfterIn

-----------------------------------------------------------------------------
(* Totals over some of the holders *)

\* What the holders in T have together.
TotalOver(f, T) == ChipTotal([ x \in T |-> f[x] ])

\* A set of subsets of S that has the empty set and, with a set, every set that has one
\* member more, has S.
LEMMA SubsetInduction ==
  ASSUME NEW S, IsFiniteSet(S), NEW G, {} \in G,
         \A T \in SUBSET S : \A x \in S : T \in G /\ x \notin T => T \cup {x} \in G
  PROVE  S \in G
<1> SUFFICES ASSUME S \notin G PROVE FALSE
  OBVIOUS
<1> DEFINE F == { T \in SUBSET S : T \notin G }
<1>1. F \subseteq FiniteSubsetsOf(S) /\ S \in F
  BY FS_Subset DEF FiniteSubsetsOf
<1>2. PICK X \in F : \A Y \in F : ~(Y \subseteq X /\ Y # X)
  <2> HIDE DEF F
  <2> QED BY <1>1, MinimalFiniteSet
<1>3. PICK x \in X : TRUE
  BY <1>2
<1>4. X \ {x} \in G
  BY <1>2, <1>3
<1>5. (X \ {x}) \cup {x} = X
  BY <1>3
<1>6. QED BY <1>2, <1>3, <1>4, <1>5

\* A unit is one chip of one holder.
LEMMA UnitsAre ==
  ASSUME NEW f, NEW u
  PROVE  u \in ChipUnits(f) <=> \E x \in DOMAIN f : \E k \in 1..f[x] : u = <<x, k>>
BY DEF ChipUnits

\* Without holders there is nothing; a total is a number of chips, one holder more adds what he has.
LEMMA NothingTotals ==
  ASSUME NEW f PROVE TotalOver(f, {}) = 0
<1>1. ChipUnits([ x \in {} |-> f[x] ]) = {}
  BY DEF ChipUnits
<1>2. QED BY <1>1, FS_EmptySet DEF TotalOver, ChipTotal

LEMMA TotalOverType ==
  ASSUME NEW T, IsFiniteSet(T), NEW f, \A y \in T : f[y] \in Nat
  PROVE  TotalOver(f, T) \in Nat
<1> DEFINE g == [ x \in T |-> f[x] ]
<1>1. DOMAIN g = T /\ \A y \in DOMAIN g : g[y] \in Int
  OBVIOUS
<1> HIDE DEF g
<1>2. ChipTotal(g) \in Nat
  BY <1>1, ChipTotalType
<1>3. QED BY <1>2 DEF TotalOver, g

LEMMA TotalWith ==
  ASSUME NEW T, IsFiniteSet(T), NEW x, x \notin T, NEW f, f[x] \in Nat,
         \A y \in T : f[y] \in Nat
  PROVE  TotalOver(f, T \cup {x}) = TotalOver(f, T) + f[x]
<1> DEFINE g == [ y \in T |-> f[y] ]
           g2 == [ y \in T \cup {x} |-> f[y] ]
           U == ChipUnits(g)
           V == {x} \X (1..f[x])
<1>1. ChipUnits(g2) = U \cup V
  <2>1. \A u : u \in ChipUnits(g2) <=> \E y \in T \cup {x} : \E k \in 1..f[y] : u = <<y, k>>
    BY UnitsAre
  <2>2. \A u : u \in U <=> \E y \in T : \E k \in 1..f[y] : u = <<y, k>>
    BY UnitsAre
  <2>3. \A u : u \in V <=> \E k \in 1..f[x] : u = <<x, k>>
    OBVIOUS
  <2> HIDE DEF U, V, g2
  <2>4. QED BY <2>1, <2>2, <2>3
<1>2. U \cap V = {}
  <2>1. \A u : u \in U <=> \E y \in T : \E k \in 1..f[y] : u = <<y, k>>
    BY UnitsAre
  <2>2. ASSUME NEW u \in U, u \in V PROVE FALSE
    <3>1. PICK y \in T : \E k \in 1..f[y] : u = <<y, k>>
      BY <2>1, <2>2
    <3>2. PICK j \in 1..f[x] : u = <<x, j>>
      BY <2>2
    <3>3. QED BY <3>1, <3>2
  <2>3. QED BY <2>2
<1>3. IsFiniteSet(U) /\ Cardinality(U) \in Nat
  <2>1. DOMAIN g = T /\ \A y \in DOMAIN g : g[y] \in Int
    OBVIOUS
  <2> HIDE DEF g
  <2>2. QED BY <2>1, ChipTotalType, FS_CardinalityType
<1>4. IsFiniteSet(V) /\ Cardinality(V) = f[x]
  <2>1. IsFiniteSet({x}) /\ Cardinality({x}) = 1
    BY FS_Singleton
  <2>2. IsFiniteSet(1..f[x]) /\ Cardinality(1..f[x]) = IF 1 > f[x] THEN 0 ELSE f[x] - 1 + 1
    BY FS_Interval, 1 \in Int
  <2>3. Cardinality(1..f[x]) = f[x]
    BY <2>2
  <2>4. IsFiniteSet(V) /\ Cardinality(V) = Cardinality({x}) * Cardinality(1..f[x])
    BY <2>1, <2>2, FS_Product
  <2>5. QED BY <2>1, <2>3, <2>4
<1> HIDE DEF U, V
<1>5. Cardinality(U \cup V) = Cardinality(U) + Cardinality(V) - Cardinality(U \cap V)
  BY <1>3, <1>4, FS_Union
<1>6. Cardinality(U \cap V) = 0
  BY <1>2, FS_EmptySet
<1>7. Cardinality(U \cup V) = Cardinality(U) + f[x]
  BY <1>3, <1>4, <1>5, <1>6
<1>8. QED BY <1>1, <1>7 DEF TotalOver, ChipTotal, U

\* A total depends on the values only.
LEMMA SameTotal ==
  ASSUME NEW T, NEW f, NEW g, \A x \in T : f[x] = g[x]
  PROVE  TotalOver(f, T) = TotalOver(g, T)
<1>1. [ x \in T |-> f[x] ] = [ x \in T |-> g[x] ]
  OBVIOUS
<1>2. QED BY <1>1 DEF TotalOver

\* Together all the holders have the total.
LEMMA TotalOfAll ==
  ASSUME NEW S, NEW R, NEW f \in [S -> R]
  PROVE  ChipTotal(f) = TotalOver(f, S)
<1>1. f = [ x \in S |-> f[x] ]
  OBVIOUS
<1>2. QED BY <1>1 DEF TotalOver

\* Who has nothing does not count.
LEMMA TotalOfSome ==
  ASSUME NEW S, NEW T \in SUBSET S, NEW f, \A x \in S \ T : f[x] = 0
  PROVE  TotalOver(f, S) = TotalOver(f, T)
<1> DEFINE g == [ x \in S |-> f[x] ]
           h == [ x \in T |-> f[x] ]
<1>1. \A u : u \in ChipUnits(g) <=> \E x \in S : \E k \in 1..f[x] : u = <<x, k>>
  BY UnitsAre
<1>2. \A u : u \in ChipUnits(h) <=> \E x \in T : \E k \in 1..f[x] : u = <<x, k>>
  BY UnitsAre
<1>3. \A x \in S \ T : 1..f[x] = {}
  OBVIOUS
<1> HIDE DEF g, h
<1>4. ChipUnits(g) = ChipUnits(h)
  BY <1>1, <1>2, <1>3
<1>5. QED BY <1>4 DEF TotalOver, ChipTotal, g, h

\* More holders, or more with each, are not less.
LEMMA TotalGrows ==
  ASSUME NEW S, IsFiniteSet(S), NEW T \in SUBSET S, NEW f, NEW g,
         \A x \in S : g[x] \in Nat, \A x \in T : f[x] \in Nat /\ f[x] <= g[x]
  PROVE  TotalOver(f, T) <= TotalOver(g, S)
<1> DEFINE p == [ x \in T |-> f[x] ]
           q == [ x \in S |-> g[x] ]
<1>1. \A u : u \in ChipUnits(p) <=> \E x \in T : \E k \in 1..f[x] : u = <<x, k>>
  BY UnitsAre
<1>2. \A u : u \in ChipUnits(q) <=> \E x \in S : \E k \in 1..g[x] : u = <<x, k>>
  BY UnitsAre
<1>3. \A x \in T : 1..f[x] \subseteq 1..g[x]
  OBVIOUS
<1>4. IsFiniteSet(ChipUnits(q))
  <2>1. DOMAIN q = S /\ \A x \in DOMAIN q : q[x] \in Int
    OBVIOUS
  <2> HIDE DEF q
  <2>2. QED BY <2>1, ChipTotalType
<1> HIDE DEF p, q
<1>5. ChipUnits(p) \in SUBSET ChipUnits(q)
  BY <1>1, <1>2, <1>3
<1>6. QED BY <1>4, <1>5, FS_Subset DEF TotalOver, ChipTotal, p, q

\* Totals add up.
LEMMA TotalsAdd ==
  ASSUME NEW S, IsFiniteSet(S), NEW f, NEW g, NEW h,
         \A x \in S : f[x] \in Nat /\ g[x] \in Nat /\ h[x] = f[x] + g[x]
  PROVE  TotalOver(h, S) = TotalOver(f, S) + TotalOver(g, S)
<1> DEFINE G == { T \in SUBSET S : TotalOver(h, T) = TotalOver(f, T) + TotalOver(g, T) }
<1>1. {} \in G
  BY NothingTotals
<1>2. ASSUME NEW T \in SUBSET S, NEW x \in S, T \in G, x \notin T
      PROVE  T \cup {x} \in G
  <2>1. IsFiniteSet(T) /\ \A y \in T : f[y] \in Nat /\ g[y] \in Nat /\ h[y] \in Nat
    BY FS_Subset
  <2>2. TotalOver(f, T) \in Nat /\ TotalOver(g, T) \in Nat
    BY <2>1, TotalOverType
  <2>3. f[x] \in Nat /\ g[x] \in Nat /\ h[x] \in Nat /\ h[x] = f[x] + g[x] /\ x \notin T
    BY <1>2
  <2> HIDE DEF G
  <2>4. TotalOver(f, T \cup {x}) = TotalOver(f, T) + f[x]
    BY <2>1, <2>3, TotalWith
  <2>5. TotalOver(g, T \cup {x}) = TotalOver(g, T) + g[x]
    BY <2>1, <2>3, TotalWith
  <2>6. TotalOver(h, T \cup {x}) = TotalOver(h, T) + h[x]
    BY <2>1, <2>3, TotalWith
  <2>7. TotalOver(h, T) = TotalOver(f, T) + TotalOver(g, T)
    BY <1>2 DEF G
  <2>8. TotalOver(h, T \cup {x}) = TotalOver(f, T \cup {x}) + TotalOver(g, T \cup {x})
    BY <2>2, <2>3, <2>4, <2>5, <2>6, <2>7
  <2>9. QED BY <2>8 DEF G
<1> HIDE DEF G
<1>3. S \in G
  BY <1>1, <1>2, SubsetInduction
<1>4. QED BY <1>3 DEF G

\* What everybody in S has of p.
Column(m, S, p) == [ s \in S |-> m[s][p] ]

\* Adding up by rows or by columns comes to the same.
LEMMA TotalsByRowOrColumn ==
  ASSUME NEW S, IsFiniteSet(S), NEW P, IsFiniteSet(P), NEW m \in [S -> [P -> Nat]],
         NEW row, \A s \in S : row[s] = TotalOver(m[s], P),
         NEW col, \A p \in P : col[p] = TotalOver(Column(m, S, p), S)
  PROVE  TotalOver(row, S) = TotalOver(col, P)
<1> DEFINE part(T) == [ p \in P |-> TotalOver([ s \in S |-> m[s][p] ], T) ]
           G == { T \in SUBSET S : TotalOver(row, T) = TotalOver(part(T), P) }
<1>0. \A T \in SUBSET S : IsFiniteSet(T)
  BY FS_Subset
<1>1. \A T \in SUBSET S : \A p \in P : part(T)[p] \in Nat
  <2> SUFFICES ASSUME NEW T \in SUBSET S, NEW p \in P
               PROVE  TotalOver([ s \in S |-> m[s][p] ], T) \in Nat
    OBVIOUS
  <2>1. \A s \in T : [ t \in S |-> m[t][p] ][s] \in Nat
    OBVIOUS
  <2>2. QED BY <1>0, <2>1, TotalOverType
<1>2. {} \in G
  <2>1. \A p \in P : part({})[p] = 0
    BY NothingTotals
  <2>2. TotalOver(part({}), P) = TotalOver(part({}), {})
    <3> HIDE DEF part
    <3> QED BY <2>1, TotalOfSome
  <2>3. QED BY <2>2, NothingTotals
<1>3. ASSUME NEW T \in SUBSET S, NEW x \in S, T \in G, x \notin T
      PROVE  T \cup {x} \in G
  <2>1. \A p \in P : part(T \cup {x})[p] = part(T)[p] + m[x][p]
    <3> SUFFICES ASSUME NEW p \in P PROVE part(T \cup {x})[p] = part(T)[p] + m[x][p]
      OBVIOUS
    <3> DEFINE c == [ s \in S |-> m[s][p] ]
    <3>1. c[x] \in Nat /\ c[x] = m[x][p] /\ \A y \in T : c[y] \in Nat
      OBVIOUS
    <3>2. x \notin T /\ IsFiniteSet(T)
      BY <1>0, <1>3
    <3>3. part(T)[p] = TotalOver(c, T) /\ part(T \cup {x})[p] = TotalOver(c, T \cup {x})
      OBVIOUS
    <3> HIDE DEF c, G, part
    <3>4. TotalOver(c, T \cup {x}) = TotalOver(c, T) + c[x]
      <4>1. ASSUME NEW f, f[x] \in Nat, \A y \in T : f[y] \in Nat
            PROVE  TotalOver(f, T \cup {x}) = TotalOver(f, T) + f[x]
        BY <3>2, <4>1, TotalWith
      <4>2. QED BY <3>1, <4>1
    <3>5. QED BY <3>1, <3>3, <3>4
  <2>2. TotalOver(part(T \cup {x}), P) = TotalOver(part(T), P) + TotalOver(m[x], P)
    <3>1. \A p \in P : part(T)[p] \in Nat /\ m[x][p] \in Nat
      BY <1>1
    <3> DEFINE before == part(T)
               after == part(T \cup {x})
    <3>2. \A p \in P : after[p] = before[p] + m[x][p]
      BY <2>1
    <3>3. \A p \in P : before[p] \in Nat /\ m[x][p] \in Nat
      BY <3>1
    <3> HIDE DEF part, before, after, G
    <3>4. TotalOver(after, P) = TotalOver(before, P) + TotalOver(m[x], P)
      BY <3>2, <3>3, TotalsAdd
    <3>5. QED BY <3>4 DEF before, after
  <2>3. TotalOver(row, T \cup {x}) = TotalOver(row, T) + row[x]
    <3>1. \A y \in S : row[y] \in Nat
      BY TotalOverType
    <3>2. QED BY <1>0, <1>3, <3>1, TotalWith
  <2>4. QED BY <1>3, <2>2, <2>3
<1>4. S \in G
  <2> HIDE DEF G
  <2> QED BY <1>2, <1>3, SubsetInduction
<1>5. \A p \in P : part(S)[p] = col[p]
  BY DEF Column
<1>6. TotalOver(part(S), P) = TotalOver(col, P)
  <2> HIDE DEF part
  <2> QED BY <1>5, SameTotal
<1>7. QED BY <1>4, <1>6

\* If all have the same, the total is a product.
LEMMA EqualTotals ==
  ASSUME NEW T, IsFiniteSet(T), NEW n \in Nat, NEW f, \A x \in T : f[x] = n
  PROVE  TotalOver(f, T) = Cardinality(T) * n
<1> DEFINE g == [ x \in T |-> f[x] ]
<1>1. \A u : u \in ChipUnits(g) <=> \E x \in T : \E k \in 1..f[x] : u = <<x, k>>
  BY UnitsAre
<1>2. ChipUnits(g) = T \X (1..n)
  <2> HIDE DEF g
  <2> QED BY <1>1
<1>3. IsFiniteSet(1..n) /\ Cardinality(1..n) = n
  BY FS_Interval, 1 \in Int
<1>4. Cardinality(T \X (1..n)) = Cardinality(T) * Cardinality(1..n)
  BY <1>3, FS_Product
<1>5. QED BY <1>2, <1>3, <1>4 DEF TotalOver, ChipTotal

-----------------------------------------------------------------------------
(* What the pots pay *)

\* Division leaves a rest.
LEMMA QuotientAndRest ==
  ASSUME NEW a \in Nat, NEW c \in Nat, c > 0
  PROVE  /\ a \div c \in Nat /\ a % c \in Nat
         /\ c * (a \div c) + (a % c) = a
<1>1. a \div c \in Int /\ a % c \in 0..(c-1) /\ a = c * (a \div c) + (a % c)
  OBVIOUS
<1>2. a \div c >= 0
  BY <1>1
<1>3. QED BY <1>1, <1>2

\* Every layer is above the one under it.
LEMMA LayersAre ==
  ASSUME NEW invested \in [Seats -> Nat], NEW level \in Levels(invested)
  PROVE  /\ level \in Nat /\ level > 0
         /\ PreviousLevel(invested, level) \in Levels(invested) \cup {0}
         /\ PreviousLevel(invested, level) < level
         /\ \A k \in Levels(invested) : k < level => k <= PreviousLevel(invested, level)
<1> DEFINE T == {0} \cup { k \in Levels(invested) : k < level }
<1>1. Levels(invested) \in SUBSET Nat /\ 0 \notin Levels(invested)
  BY DEF Levels
<1>2. IsFiniteSet(Levels(invested))
  <2>1. IsFiniteSet({ invested[t] : t \in Seats })
    BY SeatsAssumption, ImageIsFinite
  <2>2. Levels(invested) \in SUBSET { invested[t] : t \in Seats }
    BY DEF Levels
  <2>3. QED BY <2>1, <2>2, FS_Subset
<1>3. T \in SUBSET Nat /\ T # {} /\ IsFiniteSet(T)
  <2>1. IsFiniteSet({ k \in Levels(invested) : k < level })
    BY <1>2, FS_Subset
  <2>2. IsFiniteSet({ k \in Levels(invested) : k < level } \cup {0})
    BY <2>1, FS_AddElement
  <2>3. T = { k \in Levels(invested) : k < level } \cup {0}
    OBVIOUS
  <2>4. IsFiniteSet(T)
    BY <2>2, <2>3
  <2>5. QED BY <1>1, <2>4
<1>4. Max(T) \in T /\ \A k \in T : k <= Max(T)
  BY <1>3, MaxOfNats
<1>5. level \in Nat /\ level > 0
  BY <1>1
<1>6. PreviousLevel(invested, level) = Max(T)
  BY DEF PreviousLevel
<1> QED
  BY <1>1, <1>4, <1>5, <1>6

\* There are finitely many layers.
LEMMA LevelsAreFinite ==
  ASSUME NEW invested \in [Seats -> Nat]
  PROVE  IsFiniteSet(Levels(invested)) /\ Levels(invested) \in SUBSET Nat
<1>1. IsFiniteSet({ invested[t] : t \in Seats })
  BY SeatsAssumption, ImageIsFinite
<1>2. Levels(invested) \in SUBSET { invested[t] : t \in Seats }
  BY DEF Levels
<1>3. QED BY <1>1, <1>2, FS_Subset

\* What a seat has in a layer it reaches.
Layer(invested) == [ l \in Levels(invested) |-> l - PreviousLevel(invested, l) ]

\* The layers up to one add up to it.
LEMMA LayersAddUp ==
  ASSUME NEW invested \in [Seats -> Nat], NEW n \in Levels(invested) \cup {0}
  PROVE  TotalOver(Layer(invested), { l \in Levels(invested) : l <= n }) = n
<1> DEFINE L == Levels(invested)
           d == Layer(invested)
           Upto(m) == { l \in L : l <= m }
           Bad == { m \in L : TotalOver(d, Upto(m)) # m }
<1>1. IsFiniteSet(L) /\ L \in SUBSET Nat
  BY LevelsAreFinite
<1>2. \A l \in L : /\ l \in Nat /\ l > 0
                   /\ PreviousLevel(invested, l) \in L \cup {0}
                   /\ PreviousLevel(invested, l) < l
                   /\ \A k \in L : k < l => k <= PreviousLevel(invested, l)
  BY LayersAre
<1>3. \A l \in L : d[l] = l - PreviousLevel(invested, l) /\ d[l] \in Nat
  BY <1>2 DEF Layer
<1>4. TotalOver(d, Upto(0)) = 0
  <2>1. Upto(0) = {}
    BY <1>2
  <2>2. QED BY <2>1, NothingTotals
<1>5. Bad = {}
  <2>1. SUFFICES ASSUME Bad # {} PROVE FALSE
    OBVIOUS
  <2>2. PICK m \in Bad : \A k \in Bad : m <= k
    BY <1>1, <2>1, NatMinimum
  <2> DEFINE p == PreviousLevel(invested, m)
  <2>3. m \in L /\ p \in L \cup {0} /\ p < m /\ m \in Nat /\ p \in Nat
    BY <1>2
  <2>4. TotalOver(d, Upto(p)) = p
    BY <1>4, <2>2, <2>3
  <2>5. Upto(m) = Upto(p) \cup {m} /\ m \notin Upto(p)
    <3>1. /\ \A l \in L : l \in Nat /\ (l < m => l <= p)
          /\ m \in L /\ p < m /\ m \in Nat /\ p \in Nat
      BY <1>2, <2>3
    <3> HIDE DEF L, p, Bad
    <3>2. \A l \in L : l <= m <=> l <= p \/ l = m
      BY <3>1
    <3>3. \A l : l \in Upto(m) <=> l \in L /\ (l <= p \/ l = m)
      BY <3>2
    <3>4. m \notin Upto(p)
      BY <3>1
    <3>5. \A l : l \in Upto(p) <=> l \in L /\ l <= p
      OBVIOUS
    <3> HIDE DEF Upto
    <3>6. QED BY <3>1, <3>3, <3>4, <3>5
  <2>6. IsFiniteSet(Upto(p)) /\ \A y \in Upto(p) : d[y] \in Nat
    BY <1>1, <1>3, FS_Subset
  <2>7. d[m] = m - p /\ d[m] \in Nat
    BY <1>3
  <2>8. TotalOver(d, Upto(m)) # m
    OBVIOUS
  <2> HIDE DEF d, Upto, p, L, Bad
  <2>9. TotalOver(d, Upto(p) \cup {m}) = TotalOver(d, Upto(p)) + d[m]
    BY <2>5, <2>6, <2>7, TotalWith
  <2>10. QED BY <2>3, <2>4, <2>5, <2>7, <2>8, <2>9
<1>6. n \in L => TotalOver(d, Upto(n)) = n
  BY <1>5
<1>7. QED BY <1>4, <1>6

\* All layers together hold what the seats have invested.
LEMMA LayersHoldAll ==
  ASSUME NEW invested \in [Seats -> Nat]
  PROVE  ChipTotal(invested)
           = TotalOver([ l \in Levels(invested) |-> PotAmount(invested, l) ], Levels(invested))
<1> DEFINE L == Levels(invested)
           d == Layer(invested)
           In(s, l) == IF s \in Contributors(invested, l) THEN d[l] ELSE 0
           m == [ s \in Seats |-> [ l \in L |-> In(s, l) ] ]
           amounts == [ l \in L |-> PotAmount(invested, l) ]
<1>1. IsFiniteSet(L) /\ L \in SUBSET Nat /\ IsFiniteSet(Seats)
  BY LevelsAreFinite, SeatsAssumption
<1>2. \A l \in L : d[l] = l - PreviousLevel(invested, l) /\ d[l] \in Nat
  <2>1. \A l \in L : /\ l \in Nat /\ l > 0 /\ PreviousLevel(invested, l) \in L \cup {0}
                     /\ PreviousLevel(invested, l) < l
    BY LayersAre
  <2>2. QED BY <1>1, <2>1 DEF Layer
<1>3. m \in [Seats -> [L -> Nat]]
  BY <1>2
<1>4. \A s \in Seats : invested[s] = TotalOver(m[s], L)
  <2> SUFFICES ASSUME NEW s \in Seats PROVE invested[s] = TotalOver(m[s], L)
    OBVIOUS
  <2> DEFINE n == invested[s]
             U == { l \in L : l <= n }
             f == m[s]
  <2>1. n \in L \cup {0} /\ n \in Nat
    BY DEF Levels
  <2>2. TotalOver(d, U) = n
    BY <2>1, LayersAddUp
  <2>3. \A l \in L : l \in U <=> s \in Contributors(invested, l)
    BY <1>1, <2>1 DEF Contributors
  <2>4. /\ \A l \in U : f[l] = d[l]
        /\ \A l \in L \ U : f[l] = 0
    BY <2>3
  <2>5. U \in SUBSET L
    OBVIOUS
  <2> HIDE DEF U, f, d, L, n, m
  <2>6. TotalOver(f, L) = TotalOver(f, U)
    BY <2>4, <2>5, TotalOfSome
  <2>7. TotalOver(f, U) = TotalOver(d, U)
    BY <2>4, SameTotal
  <2>8. QED BY <2>2, <2>6, <2>7 DEF n, f
<1>5. \A l \in L : amounts[l] = TotalOver(Column(m, Seats, l), Seats)
  <2> SUFFICES ASSUME NEW l \in L
               PROVE  PotAmount(invested, l) = TotalOver(Column(m, Seats, l), Seats)
    OBVIOUS
  <2> DEFINE C == Contributors(invested, l)
             f == Column(m, Seats, l)
             n == d[l]
  <2>1. C \in SUBSET Seats /\ IsFiniteSet(C) /\ Cardinality(C) \in Nat
    <3>1. C \in SUBSET Seats
      BY DEF Contributors
    <3>2. QED BY <3>1, SeatSetsAreFinite
  <2>2. n \in Nat /\ n = l - PreviousLevel(invested, l)
    BY <1>2
  <2>3. /\ \A s \in C : f[s] = n
        /\ \A s \in Seats \ C : f[s] = 0
    BY <2>1 DEF Column
  <2>4. PotAmount(invested, l) = n * Cardinality(C)
    BY <2>2 DEF PotAmount
  <2> HIDE DEF C, f, n
  <2>5. TotalOver(f, Seats) = TotalOver(f, C)
    BY <2>1, <2>3, TotalOfSome
  <2>6. TotalOver(f, C) = Cardinality(C) * n
    BY <2>1, <2>2, <2>3, EqualTotals
  <2>7. TotalOver(f, Seats) = PotAmount(invested, l)
    BY <2>1, <2>2, <2>4, <2>5, <2>6
  <2>8. QED BY <2>7 DEF f
<1>6. TotalOver(invested, Seats) = TotalOver(amounts, L)
  <2> HIDE DEF m, amounts, L, d
  <2>1. IsFiniteSet(L) /\ IsFiniteSet(Seats)
    BY <1>1
  <2>2. QED BY <1>3, <1>4, <1>5, <2>1, TotalsByRowOrColumn
<1>7. ChipTotal(invested) = TotalOver(invested, Seats)
  BY TotalOfAll
<1>8. QED BY <1>6, <1>7

\* No layer pays out more than it holds.
LEMMA LayersPayNoMore ==
  ASSUME NEW invested \in [Seats -> Nat], NEW eligible \in SUBSET Seats, NEW rank,
         NEW l \in Levels(invested),
         NEW share, \A s \in Seats : share[s] = PotShare(invested, eligible, rank, l, s)
  PROVE  /\ \A s \in Seats : share[s] \in Nat
         /\ PotAmount(invested, l) \in Nat
         /\ TotalOver(share, Seats) <= PotAmount(invested, l)
<1> DEFINE W == PotWinners(invested, eligible, rank, l)
           amount == PotAmount(invested, l)
           count == Cardinality(W)
           q == amount \div count
           r == amount % count
           Before(s) == { w \in W : w < s }
           B == { s \in W : Cardinality(Before(s)) < r }
           odd == [ s \in W |-> IF s \in B THEN 1 ELSE 0 ]
           even == [ s \in W |-> q ]
<1>1. amount \in Nat
  <2>1. /\ l \in Nat /\ PreviousLevel(invested, l) \in Levels(invested) \cup {0}
        /\ PreviousLevel(invested, l) < l
    BY LayersAre
  <2>2. PreviousLevel(invested, l) \in Nat
    BY <2>1, LevelsAreFinite
  <2>3. Contributors(invested, l) \in SUBSET Seats
    BY DEF Contributors
  <2>4. Cardinality(Contributors(invested, l)) \in Nat
    BY <2>3, SeatSetsAreFinite
  <2>5. l - PreviousLevel(invested, l) \in Nat
    BY <2>1, <2>2
  <2>6. QED BY <2>4, <2>5 DEF PotAmount
<1>2. W \in SUBSET Seats
  BY DEF PotWinners
<1>3. IsFiniteSet(W) /\ count \in Nat
  BY <1>2, SeatSetsAreFinite
<1>4. \A s \in Seats : share[s] = IF s \notin W THEN 0 ELSE q + (IF s \in B THEN 1 ELSE 0)
  BY DEF PotShare
<1>5. CASE W = {}
  <2>1. \A s \in Seats \ {} : share[s] = 0
    BY <1>4, <1>5
  <2>2. TotalOver(share, Seats) = TotalOver(share, {})
    BY <2>1, TotalOfSome
  <2>3. TotalOver(share, Seats) = 0
    BY <2>2, NothingTotals
  <2> HIDE DEF amount
  <2>4. QED BY <1>1, <2>1, <2>3 DEF amount
<1>6. CASE W # {}
  <2>1. count > 0
    BY <1>3, <1>6, FS_EmptySet
  <2>2. q \in Nat /\ r \in Nat /\ count * q + r = amount
    <3> HIDE DEF amount, count
    <3> QED BY <1>1, <1>3, <2>1, QuotientAndRest
  <2>3. \A s \in W : share[s] = even[s] + odd[s] /\ even[s] \in Nat /\ odd[s] \in Nat
    BY <1>2, <1>4, <2>2
  <2>4. B \in SUBSET W /\ IsFiniteSet(B) /\ Cardinality(B) \in Nat
    BY <1>3, FS_Subset, FS_CardinalityType
  <2>5. Cardinality(B) <= r
    <3> DEFINE index == [ s \in B |-> Cardinality(Before(s)) ]
    <3>1. \A s \in B : Before(s) \in SUBSET W /\ IsFiniteSet(Before(s)) /\ Cardinality(Before(s)) \in Nat
      BY <1>3, FS_Subset, FS_CardinalityType
    <3>2. index \in [B -> 0..(r-1)]
      BY <2>2, <3>1
    <3>3. ASSUME NEW s \in B, NEW t \in B, s < t PROVE index[s] < index[t]
      <4>1. Before(s) \subseteq Before(t) /\ Before(s) # Before(t)
        <5>1. \A w \in W : w \in Nat
          BY <1>2, SeatsAssumption
        <5>2. s \in Before(t) /\ s \notin Before(s)
          BY <3>3, <5>1
        <5>3. QED BY <3>3, <5>1, <5>2
      <4>2. Cardinality(Before(s)) < Cardinality(Before(t))
        <5> HIDE DEF Before
        <5> QED BY <3>1, <4>1, FS_Subset
      <4>3. QED BY <4>2
    <3>4. index \in Injection(B, 0..(r-1))
      <4>1. ASSUME NEW s \in B, NEW t \in B, index[s] = index[t] PROVE s = t
        <5>1. s \in Nat /\ t \in Nat
          BY <1>2, SeatsAssumption
        <5>2. index[s] \in Int /\ index[t] \in Int
          BY <3>2
        <5> HIDE DEF index
        <5>3. QED BY <3>3, <4>1, <5>1, <5>2
      <4> HIDE DEF index
      <4>2. QED BY <3>2, <4>1 DEF Injection, IsInjective
    <3>5. IsFiniteSet(0..(r-1)) /\ Cardinality(0..(r-1)) = r
      BY <2>2, FS_Interval, 0 \in Int, r - 1 \in Int
    <3> HIDE DEF index, B, r
    <3>6. Cardinality(B) <= Cardinality(0..(r-1))
      BY <3>4, <3>5, FS_Injection
    <3>7. QED BY <3>5, <3>6
  <2>6. \A s \in W : even[s] = q
    OBVIOUS
  <2>7. /\ \A s \in B : odd[s] = 1
        /\ \A s \in W \ B : odd[s] = 0
    OBVIOUS
  <2>8. \A s \in Seats \ W : share[s] = 0
    BY <1>4
  <2>9. \A s \in Seats : share[s] \in Nat
    <3> HIDE DEF B, q, W
    <3> QED BY <1>4, <2>2
  <2> HIDE DEF even, odd, B, q, r, W, count, amount
  <2>10. TotalOver(share, Seats) = TotalOver(share, W)
    BY <1>2, <2>8, TotalOfSome
  <2>11. TotalOver(share, W) = TotalOver(even, W) + TotalOver(odd, W)
    BY <1>3, <2>3, TotalsAdd
  <2>12. TotalOver(even, W) = count * q
    BY <1>3, <2>2, <2>6, EqualTotals DEF count
  <2>13. TotalOver(odd, W) = TotalOver(odd, B)
    BY <2>4, <2>7, TotalOfSome
  <2>14. TotalOver(odd, B) = Cardinality(B) * 1
    BY <2>4, <2>7, EqualTotals, 1 \in Nat
  <2>15. count * q \in Nat
    BY <1>3, <2>2
  <2>16. TotalOver(share, Seats) <= amount
    BY <2>2, <2>4, <2>5, <2>10, <2>11, <2>12, <2>13, <2>14, <2>15
  <2>17. QED BY <1>1, <2>9, <2>16 DEF amount
<1> QED BY <1>5, <1>6

\* A showdown pays no more than the pot.
LEMMA PayoutsWithinPot ==
  ASSUME NEW invested \in [Seats -> Nat], NEW eligible \in SUBSET Seats, NEW rank
  PROVE  ChipTotal(Payouts(invested, eligible, rank)) <= ChipTotal(invested)
<1> DEFINE L == Levels(invested)
           P == PotLevels(invested, eligible)
           paid == Payouts(invested, eligible, rank)
           share == [ s \in Seats |-> [ l \in P |-> PotShare(invested, eligible, rank, l, s) ] ]
           column(l) == [ s \in Seats |-> share[s][l] ]
           amounts == [ l \in L |-> PotAmount(invested, l) ]
           sums == [ l \in P |-> TotalOver(column(l), Seats) ]
<1>1. IsFiniteSet(L) /\ P \in SUBSET L /\ IsFiniteSet(P) /\ IsFiniteSet(Seats)
  <2>1. P \in SUBSET L
    BY DEF PotLevels
  <2>2. IsFiniteSet(L) /\ IsFiniteSet(Seats)
    BY LevelsAreFinite, SeatsAssumption
  <2>3. QED BY <2>1, <2>2, FS_Subset
<1>2. ASSUME NEW l \in L
      PROVE  amounts[l] \in Nat
  <2>1. \A s \in Seats : [ t \in Seats |-> PotShare(invested, eligible, rank, l, t) ][s]
                          = PotShare(invested, eligible, rank, l, s)
    OBVIOUS
  <2>2. PotAmount(invested, l) \in Nat
    BY <2>1, LayersPayNoMore
  <2>3. QED BY <2>2
<1>3. ASSUME NEW l \in P
      PROVE  /\ \A s \in Seats : share[s][l] \in Nat
             /\ sums[l] \in Nat /\ sums[l] <= amounts[l]
  <2> DEFINE c == column(l)
  <2>1. \A s \in Seats : c[s] = PotShare(invested, eligible, rank, l, s)
    OBVIOUS
  <2>2. l \in L
    BY <1>1
  <2>3. sums[l] = TotalOver(c, Seats) /\ amounts[l] = PotAmount(invested, l)
        /\ \A s \in Seats : c[s] = share[s][l]
    BY <2>2
  <2> HIDE DEF c, sums, amounts, share, P, L
  <2>4. (\A s \in Seats : c[s] \in Nat) /\ TotalOver(c, Seats) <= PotAmount(invested, l)
    BY <2>1, <2>2, LayersPayNoMore DEF L
  <2>5. TotalOver(c, Seats) \in Nat
    BY <1>1, <2>4, TotalOverType
  <2>6. QED BY <2>3, <2>4, <2>5
<1>4. share \in [Seats -> [P -> Nat]]
  BY <1>3
<1>5. \A s \in Seats : paid[s] = TotalOver(share[s], P)
  BY DEF Payouts, TotalOver
<1>6. \A l \in P : sums[l] = TotalOver(Column(share, Seats, l), Seats)
  BY DEF Column
<1>7. paid \in [Seats -> Nat]
  BY PayoutsType
<1> HIDE DEF share, sums, paid, amounts, P, L
<1>8. TotalOver(paid, Seats) = TotalOver(sums, P)
  <2>1. IsFiniteSet(P) /\ IsFiniteSet(Seats)
    BY <1>1
  <2>2. QED BY <1>4, <1>5, <1>6, <2>1, TotalsByRowOrColumn
<1>9. TotalOver(sums, P) <= TotalOver(amounts, L)
  BY <1>1, <1>2, <1>3, TotalGrows
<1>10. ChipTotal(paid) = TotalOver(paid, Seats)
  BY <1>7, TotalOfAll
<1>11. ChipTotal(invested) = TotalOver(amounts, L)
  BY LayersHoldAll DEF amounts, L
<1>12. QED BY <1>8, <1>9, <1>10, <1>11 DEF paid

-----------------------------------------------------------------------------
(* Where the chips go *)

LEMMA SeatsTotal ==
  ASSUME NEW f \in [Seats -> Nat]
  PROVE  ChipTotal(f) \in Nat
<1>1. TotalOver(f, Seats) \in Nat
  BY SeatsAssumption, TotalOverType
<1>2. QED BY <1>1, TotalOfAll

\* A hand that is over has paid no more than was put in.
PaysWithinPot(st) == st.status # "PLAYING" => ChipTotal(st.won) <= Pot(st)

\* Chips and investments together are what the hand began with and what was won.
LEMMA ChipsInAll ==
  ASSUME NEW st, GameInv(st)
  PROVE  /\ ChipTotal(st.chips) + Pot(st) = ChipTotal(st.startHandChips) + ChipTotal(st.won)
         /\ ChipTotal(st.chips) \in Nat /\ Pot(st) \in Nat
         /\ ChipTotal(st.startHandChips) \in Nat /\ ChipTotal(st.won) \in Nat
<1> DEFINE sum == [ s \in Seats |-> st.chips[s] + st.investedThisHand[s] ]
           c == st.chips
           i == st.investedThisHand
           b == st.startHandChips
           w == st.won
<1>1. c \in [Seats -> Nat] /\ i \in [Seats -> Nat] /\ b \in [Seats -> Nat] /\ w \in [Seats -> Nat]
  BY DEF GameInv, GameStates
<1>2. \A s \in Seats : /\ c[s] \in Nat /\ i[s] \in Nat /\ b[s] \in Nat /\ w[s] \in Nat
                       /\ sum[s] = c[s] + i[s] /\ sum[s] = b[s] + w[s]
  BY <1>1 DEF GameInv
<1>3. IsFiniteSet(Seats)
  BY SeatsAssumption
<1> HIDE DEF sum, c, i, b, w
<1>4. TotalOver(sum, Seats) = TotalOver(c, Seats) + TotalOver(i, Seats)
  BY <1>2, <1>3, TotalsAdd
<1>5. TotalOver(sum, Seats) = TotalOver(b, Seats) + TotalOver(w, Seats)
  BY <1>2, <1>3, TotalsAdd
<1>6. /\ ChipTotal(c) = TotalOver(c, Seats) /\ ChipTotal(i) = TotalOver(i, Seats)
      /\ ChipTotal(b) = TotalOver(b, Seats) /\ ChipTotal(w) = TotalOver(w, Seats)
  BY <1>1, TotalOfAll
<1>7. /\ TotalOver(c, Seats) \in Nat /\ TotalOver(i, Seats) \in Nat
      /\ TotalOver(b, Seats) \in Nat /\ TotalOver(w, Seats) \in Nat
  BY <1>2, <1>3, TotalOverType
<1>8. QED BY <1>4, <1>5, <1>6, <1>7 DEF Pot, c, i, b, w

\* No hand ends with more chips than it began with.
LEMMA NoChipsAreMade ==
  ASSUME NEW st, GameInv(st), PaysWithinPot(st)
  PROVE  /\ st.status = "PLAYING" =>
              ChipTotal(st.chips) + Pot(st) = ChipTotal(st.startHandChips)
         /\ st.status # "PLAYING" => ChipTotal(st.chips) <= ChipTotal(st.startHandChips)
<1>1. /\ ChipTotal(st.chips) + Pot(st) = ChipTotal(st.startHandChips) + ChipTotal(st.won)
      /\ ChipTotal(st.chips) \in Nat /\ Pot(st) \in Nat
      /\ ChipTotal(st.startHandChips) \in Nat /\ ChipTotal(st.won) \in Nat
  BY ChipsInAll
<1>2. ASSUME st.status = "PLAYING" PROVE ChipTotal(st.won) = 0
  <2> DEFINE w == st.won
  <2>1. w \in [Seats -> Nat] /\ \A s \in Seats \ {} : w[s] = 0
    BY <1>2 DEF GameInv, RoundInv, GameStates
  <2> HIDE DEF w
  <2>2. TotalOver(w, Seats) = TotalOver(w, {})
    BY <2>1, TotalOfSome
  <2>3. QED BY <2>1, <2>2, TotalOfAll, NothingTotals DEF w
<1>3. QED BY <1>1, <1>2 DEF PaysWithinPot

LEMMA FinishPays ==
  ASSUME NEW st \in GameStates, NEW won, ChipTotal(won) <= Pot(st)
  PROVE  /\ PaysWithinPot(Finish(st, won))
         /\ Finish(st, won).startHandChips = st.startHandChips
<1> DEFINE r == Finish(st, won)
<1>1. /\ r.won = won /\ r.investedThisHand = st.investedThisHand
      /\ r.startHandChips = st.startHandChips
  BY DEF Finish, GameStates
<1>2. QED BY <1>1 DEF PaysWithinPot, Pot

LEMMA FinishByFoldPays ==
  ASSUME NEW st \in GameStates, NEW s \in Seats
  PROVE  /\ PaysWithinPot(FinishByFold(st, s))
         /\ FinishByFold(st, s).startHandChips = st.startHandChips
<1> DEFINE n == Pot(st)
           won == [ t \in Seats |-> IF t = s THEN n ELSE 0 ]
<1>1. n \in Nat
  <2>1. st.investedThisHand \in [Seats -> Nat]
    BY DEF GameStates
  <2>2. QED BY <2>1, SeatsTotal DEF Pot
<1>2. /\ won \in [Seats -> Nat] /\ won[s] = n /\ won[s] \in Nat
      /\ \A t \in Seats \ {s} : won[t] = 0
      /\ \A t \in {} : won[t] \in Nat
  BY <1>1
<1>3. {s} \in SUBSET Seats /\ {s} = {} \cup {s} /\ s \notin {} /\ IsFiniteSet({})
  BY FS_EmptySet
<1>4. FinishByFold(st, s) = Finish(st, won)
  BY DEF FinishByFold
<1> HIDE DEF won, n
<1>5. ChipTotal(won) = TotalOver(won, {s})
  BY <1>2, <1>3, TotalOfAll, TotalOfSome
<1>6. TotalOver(won, {} \cup {s}) = TotalOver(won, {}) + won[s]
  BY <1>2, <1>3, TotalWith
<1>7. ChipTotal(won) = n
  BY <1>1, <1>2, <1>3, <1>5, <1>6, NothingTotals
<1>8. ChipTotal(won) <= Pot(st)
  BY <1>1, <1>7 DEF n
<1>9. QED BY <1>4, <1>8, FinishPays

LEMMA FinishByShowdownPays ==
  ASSUME NEW st \in GameStates, NEW rank
  PROVE  /\ PaysWithinPot(FinishByShowdown(st, rank))
         /\ FinishByShowdown(st, rank).startHandChips = st.startHandChips
<1> DEFINE river == [st EXCEPT !.boardCards = 5]
           won == Payouts(st.investedThisHand, Contenders(st), rank)
<1>1. st.investedThisHand \in [Seats -> Nat] /\ Contenders(st) \in SUBSET Seats
  BY DEF GameStates, Contenders
<1>2. /\ river \in GameStates /\ river.investedThisHand = st.investedThisHand
      /\ river.startHandChips = st.startHandChips
  BY DEF GameStates
<1>3. FinishByShowdown(st, rank) = Finish(river, won)
  BY DEF FinishByShowdown
<1> HIDE DEF won, river
<1>4. ChipTotal(won) <= Pot(river)
  BY <1>1, <1>2, PayoutsWithinPot DEF Pot, won
<1>5. QED BY <1>2, <1>3, <1>4, FinishPays

\* Normalising pays no more than the pot and leaves the stacks the hand began with alone.
LEMMA NormalizedPays ==
  ASSUME NEW st, RoundInv(st), NEW from, NEW ranks, NEW r \in NormalizeAfterAction(st, from, ranks)
  PROVE  PaysWithinPot(r) /\ r.startHandChips = st.startHandChips
<1> DEFINE alive == Contenders(st)
           next == AdvanceStreet(st)
           turned == [st EXCEPT !.currentTurnSeat = FirstActionableSeatAfter(st, from)]
<1>1. st \in GameStates /\ st.status = "PLAYING" /\ alive \in SUBSET Seats
  BY DEF RoundInv, Contenders
<1>2. turned.status = "PLAYING" /\ turned.startHandChips = st.startHandChips
  BY <1>1 DEF GameStates
<1>3. next.startHandChips = st.startHandChips
  BY <1>1 DEF AdvanceStreet, GameStates
<1>4. BettingRoundComplete(st) /\ st.street # "RIVER" =>
        next \in GameStates /\ next.status = "PLAYING"
  BY AdvancedRound DEF RoundInv
<1> HIDE DEF next, turned
<1>5. \/ \E s \in alive : r = FinishByFold(st, s)
      \/ \E rank : r = FinishByShowdown(st, rank)
      \/ r = turned
      \/ /\ BettingRoundComplete(st) /\ st.street # "RIVER"
         /\ r = next \/ \E rank : r = FinishByShowdown(next, rank)
  BY DEF NormalizeAfterAction, next, turned
<1>6. ASSUME r = turned \/ r = next, r.status = "PLAYING"
      PROVE  PaysWithinPot(r) /\ r.startHandChips = st.startHandChips
  BY <1>2, <1>3, <1>6 DEF PaysWithinPot
<1>7. CASE \E s \in alive : r = FinishByFold(st, s)
  BY <1>1, <1>7, FinishByFoldPays
<1>8. CASE \E rank : r = FinishByShowdown(st, rank)
  BY <1>1, <1>8, FinishByShowdownPays
<1>9. CASE BettingRoundComplete(st) /\ st.street # "RIVER" /\ \E rank : r = FinishByShowdown(next, rank)
  BY <1>3, <1>4, <1>9, FinishByShowdownPays
<1>10. QED BY <1>2, <1>4, <1>5, <1>6, <1>7, <1>8, <1>9

-----------------------------------------------------------------------------
(* The first deal *)

\* A seat is all-in only without chips, and nobody has acted.
Fresh(st) ==
  /\ st \in GameStates /\ st.status = "PLAYING"
  /\ \A s \in Seats : /\ st.playerStatus[s] \in {"ACTIVE", "ALL_IN"}
                      /\ st.playerStatus[s] = "ALL_IN" => st.chips[s] = 0
                      /\ ~st.hasActedThisStreet[s]

LEMMA FreshBlind ==
  ASSUME NEW st, Fresh(st), NEW s \in Seats, NEW blind \in Nat
  PROVE  Fresh(PostBlind(st, s, blind))
<1> DEFINE amount == Min({st.chips[s], blind})
           r == PostBlind(st, s, blind)
<1>1. st \in GameStates /\ st.chips[s] \in Nat
  BY DEF Fresh, GameStates
<1>2. amount \in Nat /\ amount <= st.chips[s]
  <2>1. {st.chips[s], blind} \in SUBSET Nat /\ {st.chips[s], blind} # {}
    BY <1>1
  <2>2. QED BY <1>1, <2>1, MinOfNats
<1>3. r = InvestChips(st, s, amount)
  BY DEF PostBlind
<1> HIDE DEF amount, r
<1>4. r \in GameStates
  BY <1>1, <1>2, <1>3, InvestChipsState DEF Invested
<1>5. /\ \A t \in Seats : t # s => r.chips[t] = st.chips[t] /\ r.playerStatus[t] = st.playerStatus[t]
      /\ r.chips[s] = st.chips[s] - amount
      /\ r.playerStatus[s] = IF st.playerStatus[s] = "ACTIVE" /\ st.chips[s] = amount
                             THEN "ALL_IN" ELSE st.playerStatus[s]
      /\ r.status = st.status /\ r.hasActedThisStreet = st.hasActedThisStreet
  BY <1>1, <1>3 DEF InvestChips, GameStates
<1>6. \A t \in Seats : /\ r.playerStatus[t] \in {"ACTIVE", "ALL_IN"}
                       /\ r.playerStatus[t] = "ALL_IN" => r.chips[t] = 0
                       /\ ~r.hasActedThisStreet[t]
  <2> SUFFICES ASSUME NEW t \in Seats
               PROVE  /\ r.playerStatus[t] \in {"ACTIVE", "ALL_IN"}
                      /\ r.playerStatus[t] = "ALL_IN" => r.chips[t] = 0
                      /\ ~r.hasActedThisStreet[t]
    OBVIOUS
  <2>1. CASE t # s
    BY <1>5, <2>1 DEF Fresh
  <2>2. CASE t = s
    BY <1>1, <1>2, <1>5, <2>2 DEF Fresh
  <2>3. QED BY <2>1, <2>2
<1>7. QED BY <1>4, <1>5, <1>6 DEF Fresh, r

\* What a hand is dealt from stays on record.
LEMMA BlindsKeepStart ==
  ASSUME NEW chips \in [Seats -> Nat], NEW dealer \in Funded(chips)
  PROVE  BlindsPosted(chips, dealer).startHandChips = chips
<1> DEFINE P(st) == "startHandChips" \in DOMAIN st /\ st.startHandChips = chips
           dealt == Dealt(chips, dealer)
           small == PostBlind(dealt, dealt.smallBlindSeat, SmallBlind)
           posted == PostBlind(small, dealt.bigBlindSeat, BigBlind)
           bet == Max({ posted.investedThisStreet[s] : s \in Seats })
<1>1. ASSUME NEW st, P(st), NEW s, NEW blind
      PROVE  P(PostBlind(st, s, blind))
  BY <1>1 DEF PostBlind, InvestChips
<1>2. P(dealt)
  BY DEF Dealt
<1> HIDE DEF dealt, P
<1>3. P(small)
  BY <1>1, <1>2
<1> HIDE DEF small
<1>4. P(posted)
  BY <1>1, <1>3
<1> HIDE DEF posted, bet
<1>5. BlindsPosted(chips, dealer) = [posted EXCEPT !.currentBet = bet]
  BY DEF BlindsPosted, posted, small, dealt, bet
<1>6. QED BY <1>4, <1>5 DEF P

LEMMA InitialPays ==
  ASSUME NEW chips \in [Seats -> Nat], CanStartHand(chips), NEW dealerSeat \in Seats,
         NEW ranks, NEW r \in InitialGameStates(chips, dealerSeat, ranks)
  PROVE  PaysWithinPot(r) /\ r.startHandChips = chips
<1> DEFINE S == Funded(chips)
           dealer == NormalizeDealerSeat(dealerSeat, S)
           posted == BlindsPosted(chips, dealer)
<1>1. S \in SUBSET Seats /\ S # {}
  BY FS_EmptySet DEF CanStartHand, Funded
<1>2. dealer \in S
  <2>1. dealerSeat \in Nat
    BY SeatsAssumption
  <2>2. SeatAfter(S, dealerSeat) \in S
    BY <1>1, <2>1, SeatAfterIn
  <2>3. QED BY <2>2 DEF NormalizeDealerSeat
<1> HIDE DEF dealer
<1>3. RoundInv(posted) /\ posted.startHandChips = chips
  BY <1>2, BlindsRound, BlindsKeepStart
<1>4. r \in NormalizeAfterAction(posted, posted.bigBlindSeat, ranks)
  BY DEF InitialGameStates, dealer
<1> HIDE DEF posted
<1>5. QED BY <1>3, <1>4, NormalizedPays

\* When everybody has chips and the blinds leave somebody some, the hand is played.
LEMMA DealIsPlayed ==
  ASSUME NEW chips \in [Seats -> Nat \ {0}], Cardinality(Seats) >= 2, NEW dealerSeat \in Seats,
         BlindsPosted(chips, dealerSeat).chips # [ s \in Seats |-> 0 ],
         NEW ranks, NEW r \in InitialGameStates(chips, dealerSeat, ranks)
  PROVE  r.status = "PLAYING"
<1> DEFINE dealt == Dealt(chips, dealerSeat)
           small == PostBlind(dealt, dealt.smallBlindSeat, SmallBlind)
           posted == PostBlind(small, dealt.bigBlindSeat, BigBlind)
           st == BlindsPosted(chips, dealerSeat)
<1>1. Funded(chips) = Seats
  BY DEF Funded
<1>2. NormalizeDealerSeat(dealerSeat, Funded(chips)) = dealerSeat
  BY <1>1 DEF NormalizeDealerSeat
<1>3. /\ SmallBlindSeat(Seats, dealerSeat) \in Seats
      /\ BigBlindSeat(Seats, dealerSeat) \in Seats
  BY BlindSeats
<1>4. Fresh(dealt) /\ dealt.smallBlindSeat \in Seats /\ dealt.bigBlindSeat \in Seats
  <2> DEFINE statuses == [ s \in Seats |-> IF chips[s] > 0 THEN "ACTIVE" ELSE "OUT" ]
             zeros == [ s \in Seats |-> 0 ]
             falses == [ s \in Seats |-> FALSE ]
  <2>1. /\ statuses \in [Seats -> PlayerStatuses] /\ zeros \in [Seats -> Nat]
        /\ falses \in [Seats -> BOOLEAN] /\ \A s \in Seats : statuses[s] = "ACTIVE" /\ ~falses[s]
        /\ chips \in [Seats -> Nat]
    BY DEF PlayerStatuses
  <2> HIDE DEF statuses, zeros, falses
  <2>2. dealt =
          [ status |-> "PLAYING", street |-> "PREFLOP", boardCards |-> 0,
            currentBet |-> 0, minRaise |-> BigBlind, dealerSeat |-> dealerSeat,
            smallBlindSeat |-> SmallBlindSeat(Seats, dealerSeat),
            bigBlindSeat |-> BigBlindSeat(Seats, dealerSeat),
            currentTurnSeat |-> NoSeat, lastAggressorSeat |-> BigBlindSeat(Seats, dealerSeat),
            chips |-> chips, startHandChips |-> chips,
            investedThisHand |-> zeros, investedThisStreet |-> zeros,
            playerStatus |-> statuses, hasActedThisStreet |-> falses, won |-> zeros ]
    BY <1>1 DEF Dealt, statuses, zeros, falses
  <2> HIDE DEF dealt
  <2>3. dealt \in GameStates
    BY <1>3, <2>1, <2>2, BlindsAssumption DEF GameStates, GameStatuses, BettingStreets
  <2>4. QED BY <1>3, <2>1, <2>2, <2>3 DEF Fresh
<1> HIDE DEF dealt
<1>5. Fresh(small)
  BY <1>4, FreshBlind, BlindsAssumption
<1> HIDE DEF small
<1>6. Fresh(posted)
  BY <1>4, <1>5, FreshBlind, BlindsAssumption
<1>7. st = [posted EXCEPT !.currentBet = Max({ posted.investedThisStreet[s] : s \in Seats })]
  BY DEF BlindsPosted, posted, small, dealt
<1>8. RoundInv(st)
  BY <1>1, BlindsRound
<1> HIDE DEF posted
<1>9. Fresh(st)
  <2>1. st \in GameStates /\ st.status = "PLAYING"
    BY <1>8 DEF RoundInv
  <2>2. /\ st.chips = posted.chips /\ st.playerStatus = posted.playerStatus
        /\ st.hasActedThisStreet = posted.hasActedThisStreet
    BY <1>6, <1>7 DEF Fresh, GameStates
  <2> HIDE DEF st
  <2>3. QED BY <1>6, <2>1, <2>2 DEF Fresh
<1>10. PICK s \in Seats : st.chips[s] # 0
  <2>1. st.chips \in [Seats -> Nat]
    BY <1>9 DEF Fresh, GameStates
  <2> HIDE DEF st
  <2>2. st.chips # [ s \in Seats |-> 0 ]
    BY DEF st
  <2>3. QED BY <2>1, <2>2
<1>11. r \in NormalizeAfterAction(st, st.bigBlindSeat, ranks)
  BY <1>2 DEF InitialGameStates
<1> HIDE DEF st
<1>12. CanStillAct(st, s) /\ ~st.hasActedThisStreet[s] /\ s \in Contenders(st)
  <2>1. st.chips[s] \in Nat
    BY <1>9 DEF Fresh, GameStates
  <2>2. QED BY <1>9, <1>10, <2>1 DEF Fresh, CanStillAct, Contenders, IsContender
<1>13. Contenders(st) = Seats
  BY <1>9 DEF Fresh, Contenders, IsContender
<1>14. ~AllContendersAllIn(st) /\ ~BettingRoundComplete(st)
  BY <1>10, <1>12 DEF AllContendersAllIn, BettingRoundComplete, CanStillAct
<1>15. Cardinality(Contenders(st)) # 1
  BY <1>13
<1>16. r = [st EXCEPT !.currentTurnSeat = FirstActionableSeatAfter(st, st.bigBlindSeat)]
  BY <1>11, <1>14, <1>15 DEF NormalizeAfterAction
<1>17. QED BY <1>9, <1>16 DEF Fresh, GameStates

=============================================================================
