-------------------------- MODULE PokerHandProofs --------------------------
(***************************************************************************)
(* Theorems about PokerHand, for every set of seats, every pair of blinds  *)
(* and every buy-in, from what PokerRulesProofs says of the rules: every   *)
(* action mutates a state into a RoundInv one and normalises that into a   *)
(* GameInv one.  On top of it, about what pages and bots decide at such a  *)
(* table, and about HandHistory: HistoryInv says what the rows of a hand   *)
(* have to do with the table while it is played and once it is over.       *)
(***************************************************************************)
EXTENDS TableViews, HandHistory, PokerRulesProofs

IInv == GameInv(game)

-----------------------------------------------------------------------------
(* The invariant *)

LEMMA InitInv == Init => IInv
<1> SUFFICES ASSUME Init PROVE IInv
  OBVIOUS
<1>1. PICK chips \in [Seats -> BuyIns] :
        CanStartHand(chips) /\ game \in InitialGameStates(chips, Min(Funded(chips)), Ranks)
  BY DEF Init
<1>2. chips \in [Seats -> Nat]
  BY <1>1, BuyInsAssumption
<1>3. Min(Funded(chips)) \in Seats
  <2>1. Funded(chips) \in SUBSET Seats /\ Funded(chips) # {}
    BY <1>1, FS_EmptySet DEF CanStartHand, Funded
  <2>2. Funded(chips) \in SUBSET Nat
    BY <2>1, SeatsAssumption
  <2>3. Min(Funded(chips)) \in Funded(chips)
    BY <2>1, <2>2, MinOfNats
  <2>4. QED BY <2>1, <2>3
<1>4. QED BY <1>1, <1>2, <1>3, InitialGame DEF IInv

LEMMA NextInv == IInv /\ [Next]_vars => IInv'
<1> SUFFICES ASSUME IInv, [Next]_vars PROVE IInv'
  OBVIOUS
<1>0. game \in GameStates /\ game.chips \in [Seats -> Nat] /\ game.dealerSeat \in Seats
  BY DEF IInv, GameInv, GameStates
<1>1. ASSUME NEW s \in Seats, MayAct(game, s) PROVE RoundInv(game)
  BY <1>1 DEF IInv, GameInv, MayAct
<1>2. ASSUME NEW s \in Seats, NEW st, RoundInv(st), Becomes(st, s) PROVE IInv'
  <2>1. GameInv(game')
    BY <1>2, NormalizeGame DEF Becomes
  <2>2. QED BY <2>1 DEF IInv, GameInv, RoundInv, ToAct, CanStillAct, Earlier
<1>3. ASSUME NEW s \in Seats, Fold(s) PROVE IInv'
  BY <1>1, <1>2, <1>3, FoldedRound DEF Fold
<1>4. ASSUME NEW s \in Seats, Check(s) PROVE IInv'
  BY <1>1, <1>2, <1>4, FoldedRound DEF Check, MayCheck
<1>5. ASSUME NEW s \in Seats, Call(s) PROVE IInv'
  <2>1. MayAct(game, s) /\ MayCall(game, s) /\ Becomes(Called(game, s), s)
    BY <1>5 DEF Call, MayCall
  <2>2. RoundInv(Called(game, s))
    BY <1>1, <2>1, CalledRound
  <2>3. QED BY <1>2, <2>1, <2>2
<1>6. ASSUME NEW s \in Seats, NEW amount \in 1..game.chips[s], Bet(s, amount) PROVE IInv'
  <2>1. MayAct(game, s) /\ MayBet(game, s, amount) /\ Becomes(BetPlaced(game, s, amount), s)
    BY <1>6 DEF Bet, MayBet
  <2>2. RoundInv(BetPlaced(game, s, amount))
    BY <1>1, <2>1, BetRound, amount \in Nat
  <2>3. QED BY <1>2, <2>1, <2>2
<1>7. ASSUME NEW s \in Seats,
             NEW raiseTo \in 1..(game.investedThisStreet[s] + game.chips[s]),
             Raise(s, raiseTo)
      PROVE  IInv'
  <2>1. MayAct(game, s) /\ MayRaise(game, s, raiseTo) /\ Becomes(RaisedTo(game, s, raiseTo), s)
    BY <1>7 DEF Raise, MayRaise
  <2>2. RoundInv(RaisedTo(game, s, raiseTo))
    BY <1>1, <2>1, RaisedRound, raiseTo \in Nat
  <2>3. QED BY <1>2, <2>1, <2>2
<1>8. ASSUME NEW s \in Seats, AllIn(s) PROVE IInv'
  BY <1>1, <1>2, <1>8, AllInRound DEF AllIn
<1>9. CASE NextHand
  <2> DEFINE dealer == NextDealerSeat(game.chips, game.dealerSeat)
  <2>1. dealer # NoSeat /\ game' \in InitialGameStates(game.chips, dealer, Ranks)
    BY <1>9 DEF NextHand
  <2>2. CanStartHand(game.chips) /\ dealer \in Seats
    BY <1>0, <2>1, NextDealer
  <2> HIDE DEF dealer
  <2>3. GameInv(game')
    BY <1>0, <2>1, <2>2, InitialGame
  <2>4. QED BY <2>3 DEF IInv, GameInv, RoundInv, ToAct, CanStillAct, Earlier
<1>10. CASE FinishRoom
  <2>1. game' = [game EXCEPT !.status = "ROOM_FINISHED", !.currentTurnSeat = NoSeat]
    BY <1>10 DEF FinishRoom
  <2>2. /\ game' \in GameStates /\ game'.status = "ROOM_FINISHED"
        /\ game'.chips = game.chips /\ game'.investedThisHand = game.investedThisHand
        /\ game'.startHandChips = game.startHandChips /\ game'.won = game.won
    BY <1>0, <2>1 DEF GameStates, GameStatuses
  <2>3. QED BY <2>2 DEF IInv, GameInv
<1>11. CASE UNCHANGED vars
  BY <1>11 DEF vars, IInv, GameInv, RoundInv, ToAct, CanStillAct, Earlier
<1>12. QED
  BY <1>3, <1>4, <1>5, <1>6, <1>7, <1>8, <1>9, <1>10, <1>11 DEF Next, Act

\* The inductive invariant holds of every behaviour, for any number of seats, any
\* blinds and any stacks.
THEOREM Invariance == Spec => []IInv
BY InitInv, NextInv, PTL DEF Spec

-----------------------------------------------------------------------------
(* What follows from it *)

\* Every field always has its type: stacks and investments never go negative, and
\* payouts are whole chips.
THEOREM TypeCorrect == Spec => []TypeOK
<1>1. IInv => TypeOK
  BY DEF IInv, GameInv, TypeOK
<1>2. QED BY <1>1, Invariance, PTL

\* No seat's chips change but by what it puts into the pot and is paid out.
THEOREM ChipsAreAccounted == Spec => []ChipsAccounted
<1>1. IInv => ChipsAccounted
  BY DEF IInv, GameInv, ChipsAccounted
<1>2. QED BY <1>1, Invariance, PTL

\* The table never waits for a seat that is not able or not asked to act.
THEOREM TurnIsAlwaysPlayable == Spec => []TurnIsPlayable
<1>1. IInv => TurnIsPlayable
  BY DEF IInv, GameInv, TurnIsPlayable, Playing
<1>2. QED BY <1>1, Invariance, PTL

\* The bet to match is always the highest investment of the street.
THEOREM BetIsAlwaysHighest == Spec => []BetIsHighestInvestment
<1>1. IInv => BetIsHighestInvestment
  <2> SUFFICES ASSUME IInv, Playing
               PROVE  game.currentBet = Max({ game.investedThisStreet[s] : s \in Seats })
    BY DEF BetIsHighestInvestment
  <2> DEFINE T == { game.investedThisStreet[s] : s \in Seats }
  <2>1. RoundInv(game)
    BY DEF IInv, GameInv, Playing
  <2>2. T \in SUBSET Nat /\ game.currentBet \in T /\ \A k \in T : k <= game.currentBet
    BY <2>1 DEF RoundInv, GameStates
  <2> HIDE DEF T
  <2>3. Max(T) = game.currentBet
    BY <2>2, MaxIs
  <2>4. QED BY <2>3 DEF T
<1>2. QED BY <1>1, Invariance, PTL

\* Seats that can still act have paid alike into the streets that are over.
THEOREM StreetsAreSquare == Spec => []FinishedStreetsAreSquare
<1>1. IInv => FinishedStreetsAreSquare
  BY DEF IInv, GameInv, RoundInv, FinishedStreetsAreSquare, EarlierStreets, Earlier, Playing
<1>2. QED BY <1>1, Invariance, PTL

\* An offer with any amount within its bounds is one the rules accept.
LEMMA OffersAccepted == IInv => OffersAreAccepted
<1> SUFFICES ASSUME IInv, NEW s \in Seats, MayAct(game, s)
             PROVE  /\ OffersCheck(game, s) => MayCheck(game, s)
                    /\ OffersCall(game, s) => MayCall(game, s)
                    /\ \A amount \in 1..game.chips[s] :
                         OffersBet(game, s, amount) => MayBet(game, s, amount)
                    /\ \A raiseTo \in 0..(game.investedThisStreet[s] + game.chips[s]) :
                         OffersRaise(game, s, raiseTo) => MayRaise(game, s, raiseTo)
  BY DEF OffersAreAccepted, OffersCheck, OffersCall, OffersBet, OffersRaise
<1>1. /\ RoundInv(game) /\ game.investedThisStreet[s] <= game.currentBet
      /\ game.investedThisStreet[s] \in Nat /\ game.currentBet \in Nat
      /\ game.chips[s] \in Nat /\ game.minRaise \in Nat /\ game.minRaise > 0
  BY DEF IInv, GameInv, MayAct, RoundInv, GameStates
<1>2. OffersCheck(game, s) => MayCheck(game, s)
  BY DEF OffersCheck, MayCheck
<1>3. OffersCall(game, s) => MayCall(game, s)
  BY <1>1 DEF OffersCall, MayCall
<1>4. ASSUME NEW amount \in 1..game.chips[s], OffersBet(game, s, amount)
      PROVE  MayBet(game, s, amount)
  BY <1>1, <1>4 DEF OffersBet, MayBet
<1>5. ASSUME NEW raiseTo \in 0..(game.investedThisStreet[s] + game.chips[s]),
             OffersRaise(game, s, raiseTo)
      PROVE  MayRaise(game, s, raiseTo)
  <2> DEFINE most == game.investedThisStreet[s] + game.chips[s]
             least == game.currentBet + game.minRaise
  <2>1. most \in Nat /\ least \in Nat /\ most > game.currentBet /\ game.currentBet > 0
    BY <1>1, <1>5 DEF OffersRaise
  <2>2. raiseTo \in Min({least, most})..most
    BY <1>5 DEF OffersRaise, RaiseBounds
  <2>3. Min({least, most}) \in {least, most}
    <3>1. {least, most} \in SUBSET Nat /\ {least, most} # {}
      BY <2>1
    <3>2. QED BY <3>1, MinOfNats
  <2>4. raiseTo <= most /\ (raiseTo >= least \/ raiseTo = most)
    BY <2>1, <2>2, <2>3
  <2>5. raiseTo > game.currentBet
         /\ (raiseTo - game.currentBet >= game.minRaise \/ raiseTo = most)
    <3>1. CASE raiseTo = most
      BY <2>1, <3>1
    <3>2. CASE raiseTo >= least
      BY <1>1, <2>1, <3>2
    <3>3. QED BY <2>4, <3>1, <3>2
  <2>6. QED BY <1>1, <1>5, <2>1, <2>4, <2>5 DEF MayRaise
<1>6. QED BY <1>2, <1>3, <1>4, <1>5

\* No offer the server shows to the seat in turn is refused.
THEOREM OffersAreAlwaysAccepted == Spec => []OffersAreAccepted
BY OffersAccepted, Invariance, PTL

-----------------------------------------------------------------------------
(* What bots decide and the pages send *)

\* Amounts that are offered: the whole numbers from one to another, none of them 0.
IsOffer(amounts) ==
  \E least, most \in Nat : 0 < least /\ least <= most /\ amounts = least..most

LEMMA OfferBounds ==
  ASSUME NEW amounts, IsOffer(amounts)
  PROVE  /\ amounts # {} /\ amounts \subseteq Nat \ {0}
         /\ Min(amounts) \in amounts /\ Max(amounts) \in amounts
         /\ Min(amounts)..Max(amounts) = amounts
<1>1. PICK least \in Nat, most \in Nat : 0 < least /\ least <= most /\ amounts = least..most
  BY DEF IsOffer
<1>2. amounts \in SUBSET Nat /\ least \in amounts /\ most \in amounts /\ 0 \notin amounts
  BY <1>1
<1>3. IsFiniteSet(amounts)
  BY <1>1, FS_Interval, least \in Int, most \in Int
<1>4. /\ Min(amounts) \in amounts /\ \A k \in amounts : Min(amounts) <= k
      /\ Max(amounts) \in amounts /\ \A k \in amounts : k <= Max(amounts)
  BY <1>2, <1>3, MinOfNats, MaxOfNats
<1>5. Min(amounts) = least /\ Max(amounts) = most
  BY <1>1, <1>2, <1>4
<1>6. QED BY <1>1, <1>2, <1>4, <1>5

\* An amount that is held within an offer is one of it, wherever it was aimed at.
LEMMA WithinOffer ==
  ASSUME NEW amounts, IsOffer(amounts), NEW target \in Nat
  PROVE  Within(amounts, target) \in amounts
<1> DEFINE low == Min(amounts)
           high == Max(amounts)
           held == Min({high, target})
<1>1. low \in Nat /\ high \in Nat /\ low <= high /\ low..high = amounts
  <2>1. low \in Nat /\ high \in Nat /\ low \in low..high
    BY OfferBounds
  <2>2. QED BY <2>1, OfferBounds
<1> HIDE DEF low, high
<1>2. held \in {high, target} /\ held <= high /\ held \in Nat
  <2>1. {high, target} \in SUBSET Nat /\ {high, target} # {}
    BY <1>1
  <2>2. QED BY <1>1, <2>1, MinOfNats
<1> HIDE DEF held
<1>3. Max({low, held}) \in {low, held} /\ low <= Max({low, held})
  <2>1. {low, held} \in SUBSET Nat /\ {low, held} # {} /\ IsFiniteSet({low, held})
    BY <1>1, <1>2, PairIsFinite
  <2>2. QED BY <2>1, MaxOfNats
<1>4. Max({low, held}) \in low..high
  BY <1>1, <1>2, <1>3
<1>5. QED BY <1>1, <1>4 DEF Within, held, low, high

\* What a bet or a raise may amount to is an offer, as long as one is made.
LEMMA BetsAreAnOffer ==
  ASSUME NEW st, RoundInv(st), NEW s \in Seats, BetsOffered(st, s) # {}
  PROVE  IsOffer(BetsOffered(st, s)) /\ st.currentBet = 0
<1>1. st.chips[s] \in Nat /\ st.chips[s] > 0 /\ BigBlind \in Nat /\ BigBlind > 0
  BY BlindsAssumption DEF RoundInv, GameStates, BetsOffered, OffersBet, MayAct, CanStillAct
<1>2. Min({BigBlind, st.chips[s]}) \in {BigBlind, st.chips[s]}
      /\ Min({BigBlind, st.chips[s]}) <= st.chips[s]
  <2>1. {BigBlind, st.chips[s]} \in SUBSET Nat /\ {BigBlind, st.chips[s]} # {}
    BY <1>1
  <2>2. QED BY <2>1, MinOfNats
<1>3. BetsOffered(st, s) = Min({BigBlind, st.chips[s]})..st.chips[s] /\ st.currentBet = 0
  BY DEF BetsOffered, OffersBet, BetBounds
<1>4. QED BY <1>1, <1>2, <1>3 DEF IsOffer

LEMMA RaisesAreAnOffer ==
  ASSUME NEW st, RoundInv(st), NEW s \in Seats, RaisesOffered(st, s) # {}
  PROVE  IsOffer(RaisesOffered(st, s)) /\ st.currentBet # 0
<1> DEFINE most == st.investedThisStreet[s] + st.chips[s]
           least == st.currentBet + st.minRaise
<1>1. /\ most \in Nat /\ least \in Nat /\ least > 0 /\ most > st.currentBet
      /\ st.currentBet \in Nat
  BY DEF RoundInv, GameStates, RaisesOffered, OffersRaise
<1>2. Min({least, most}) \in {least, most} /\ Min({least, most}) <= most
  <2>1. {least, most} \in SUBSET Nat /\ {least, most} # {}
    BY <1>1
  <2>2. QED BY <2>1, MinOfNats
<1>3. RaisesOffered(st, s) = Min({least, most})..most /\ st.currentBet # 0
  BY DEF RaisesOffered, OffersRaise, RaiseBounds
<1>4. QED BY <1>1, <1>2, <1>3 DEF IsOffer

LEMMA OffersAreDecisions ==
  ASSUME IInv, NEW s \in Seats
  PROVE  /\ MayAct(game, s) => \A type \in {"FOLD", "ALL_IN"} : Accepts(game, s, Decision(type, 0))
         /\ OffersCheck(game, s) => Accepts(game, s, Decision("CHECK", 0))
         /\ OffersCall(game, s) => Accepts(game, s, Decision("CALL", 0))
         /\ \A amount \in BetsOffered(game, s) : Accepts(game, s, Decision("BET", amount))
         /\ \A amount \in RaisesOffered(game, s) : Accepts(game, s, Decision("RAISE", amount))
<1>1. OffersAreAccepted
  BY OffersAccepted
<1>2. ASSUME NEW amount \in BetsOffered(game, s)
      PROVE  Accepts(game, s, Decision("BET", amount))
  <2>1. OffersBet(game, s, amount) /\ amount \in Nat /\ amount > 0 /\ amount <= game.chips[s]
    <3>1. OffersBet(game, s, amount) /\ RoundInv(game) /\ game.chips[s] \in Nat
      BY DEF BetsOffered, OffersBet, MayAct, IInv, GameInv, GameStates
    <3>2. amount \in Nat \ {0}
      BY <3>1, BetsAreAnOffer, OfferBounds
    <3>3. amount \in Min({BigBlind, game.chips[s]})..game.chips[s]
      BY DEF BetsOffered, BetBounds
    <3>4. QED BY <3>1, <3>2, <3>3
  <2>2. MayBet(game, s, amount)
    BY <1>1, <2>1 DEF OffersAreAccepted
  <2>3. QED BY <2>2 DEF Accepts, Decision
<1>3. ASSUME NEW amount \in RaisesOffered(game, s)
      PROVE  Accepts(game, s, Decision("RAISE", amount))
  <2>1. /\ OffersRaise(game, s, amount) /\ amount \in Nat
        /\ amount <= game.investedThisStreet[s] + game.chips[s]
    <3>1. /\ OffersRaise(game, s, amount) /\ RoundInv(game) /\ game.chips[s] \in Nat
          /\ game.investedThisStreet[s] \in Nat
      BY DEF RaisesOffered, OffersRaise, MayAct, IInv, GameInv, GameStates
    <3>2. amount \in Nat
      BY <3>1, RaisesAreAnOffer, OfferBounds
    <3>3. amount \in Min({game.currentBet + game.minRaise,
                          game.investedThisStreet[s] + game.chips[s]})
                     ..(game.investedThisStreet[s] + game.chips[s])
      BY DEF RaisesOffered, RaiseBounds
    <3>4. QED BY <3>1, <3>2, <3>3
  <2>2. MayRaise(game, s, amount)
    BY <1>1, <2>1 DEF OffersAreAccepted
  <2>3. QED BY <2>2 DEF Accepts, Decision
<1>4. /\ MayAct(game, s) => \A type \in {"FOLD", "ALL_IN"} : Accepts(game, s, Decision(type, 0))
      /\ OffersCheck(game, s) => Accepts(game, s, Decision("CHECK", 0))
      /\ OffersCall(game, s) => Accepts(game, s, Decision("CALL", 0))
  BY <1>1 DEF OffersAreAccepted, Accepts, Decision
<1>5. QED BY <1>2, <1>3, <1>4

\* What either page sends of an offer is accepted, and both send the amount typed if it is
\* one that is offered.
LEMMA PagesDecide ==
  ASSUME IInv, NEW s \in Seats, NEW type \in Enabled(LegalActionMap(s)), NEW typed \in Nat
  PROVE  LET amounts == LegalActionMap(s)[type] IN
         /\ \A decision \in SoloSends(amounts, type, typed) : Accepts(game, s, decision)
         /\ (type \in FriendLegalActionMap(s) /\ typed \in amounts) =>
              SoloSends(amounts, type, typed) = FriendSends(type, typed)
<1> DEFINE amounts == LegalActionMap(s)[type]
<1>1. amounts # {} /\ type \in {"FOLD", "ALL_IN", "CHECK", "CALL", "BET", "RAISE"}
  BY DEF Enabled, LegalActionMap
<1>2. CASE type \notin {"BET", "RAISE"}
  <2>1. SoloSends(amounts, type, typed) = {Decision(type, 0)}
        /\ FriendSends(type, typed) = {Decision(type, 0)}
    BY <1>2 DEF SoloSends, FriendSends
  <2>2. /\ type \in {"FOLD", "ALL_IN"} => MayAct(game, s)
        /\ type = "CHECK" => OffersCheck(game, s)
        /\ type = "CALL" => OffersCall(game, s)
    BY <1>1 DEF LegalActionMap
  <2>3. Accepts(game, s, Decision(type, 0))
    BY <1>1, <1>2, <2>2, OffersAreDecisions
  <2>4. QED BY <2>1, <2>3
<1>3. CASE type \in {"BET", "RAISE"}
  <2>1. IsOffer(amounts) /\ \A amount \in amounts : Accepts(game, s, Decision(type, amount))
    <3>1. CASE type = "BET"
      <4>1. amounts = BetsOffered(game, s)
        BY <3>1 DEF LegalActionMap
      <4>2. RoundInv(game)
        BY <1>1, <4>1 DEF BetsOffered, OffersBet, MayAct, IInv, GameInv
      <4>3. QED BY <1>1, <3>1, <4>1, <4>2, BetsAreAnOffer, OffersAreDecisions
    <3>2. CASE type = "RAISE"
      <4>1. amounts = RaisesOffered(game, s)
        BY <3>2 DEF LegalActionMap
      <4>2. RoundInv(game)
        BY <1>1, <4>1 DEF RaisesOffered, OffersRaise, MayAct, IInv, GameInv
      <4>3. QED BY <1>1, <3>2, <4>1, <4>2, RaisesAreAnOffer, OffersAreDecisions
    <3>3. QED BY <1>3, <3>1, <3>2
  <2> HIDE DEF amounts
  <2>2. Min(amounts)..Max(amounts) = amounts /\ 0 \notin amounts
    BY <2>1, OfferBounds
  <2>3. \A decision \in SoloSends(amounts, type, typed) : Accepts(game, s, decision)
    BY <1>3, <2>1, <2>2 DEF SoloSends
  <2>4. typed \in amounts => SoloSends(amounts, type, typed) = FriendSends(type, typed)
    <3> SUFFICES ASSUME typed \in amounts
                 PROVE  SoloSends(amounts, type, typed) = FriendSends(type, typed)
      OBVIOUS
    <3>1. typed > 0
      BY <2>2
    <3>2. SoloSends(amounts, type, typed) = {Decision(type, typed)}
      BY <1>3, <2>2, <3>1 DEF SoloSends
    <3>3. FriendSends(type, typed) = {Decision(type, typed)}
      BY <1>3, <3>1 DEF FriendSends
    <3>4. QED BY <3>2, <3>3
  <2>5. QED BY <2>3, <2>4 DEF amounts
<1>4. QED BY <1>2, <1>3

\* The sizes bots aim at are whole numbers of chips.
LEMMA BotSizes ==
  ASSUME NEW st \in GameStates, NEW strength \in 0..100, NEW amounts, IsOffer(amounts)
  PROVE  /\ ChooseBetAmount(amounts, st, strength) \in amounts
         /\ ChooseRaiseAmount(amounts, st, strength) \in amounts
<1>1. Pot(st) \in Nat /\ st.minRaise \in Nat /\ st.currentBet \in Nat
  <2>1. st.investedThisHand \in [Seats -> Nat] /\ st.minRaise \in Nat /\ st.currentBet \in Nat
    BY DEF GameStates
  <2>2. QED BY <2>1, SeatsTotal DEF Pot
<1>2. \A percent \in {45, 55, 65, 80} : Share(percent, st) \in Nat
  <2> DEFINE pot == Pot(st)
  <2>1. pot \in Nat
    BY <1>1
  <2> HIDE DEF pot
  <2>2. /\ (2 * 45 * pot + 100) \div 200 \in Nat /\ (2 * 55 * pot + 100) \div 200 \in Nat
        /\ (2 * 65 * pot + 100) \div 200 \in Nat /\ (2 * 80 * pot + 100) \div 200 \in Nat
    BY <2>1
  <2>3. QED BY <2>2 DEF Share, pot
<1>3. \A percent \in {45, 55, 65, 80} : Max({st.minRaise, Share(percent, st)}) \in Nat
  <2> SUFFICES ASSUME NEW percent \in {45, 55, 65, 80}
               PROVE  Max({st.minRaise, Share(percent, st)}) \in Nat
    OBVIOUS
  <2>1. Share(percent, st) \in Nat
    BY <1>2
  <2> DEFINE pair == {st.minRaise, Share(percent, st)}
  <2>2. pair \in SUBSET Nat /\ pair # {} /\ IsFiniteSet(pair)
    <3>1. IsFiniteSet(pair)
      BY PairIsFinite
    <3>2. QED BY <1>1, <2>1, <3>1
  <2> HIDE DEF pair
  <2>3. Max(pair) \in Nat
    BY <2>2, MaxOfNats
  <2>4. QED BY <2>3 DEF pair
<1>4. ChooseBetAmount(amounts, st, strength) \in amounts
  <2> DEFINE percent == IF strength > 70 THEN 65 ELSE 45
             target == Max({st.minRaise, Share(percent, st)})
  <2>1. target \in Nat
    BY <1>3
  <2> HIDE DEF target
  <2>2. QED BY <2>1, WithinOffer DEF ChooseBetAmount, target
<1>5. ChooseRaiseAmount(amounts, st, strength) \in amounts
  <2> DEFINE percent == IF strength > 80 THEN 80 ELSE 55
             most == Max({st.minRaise, Share(percent, st)})
  <2>1. most \in Nat
    BY <1>3
  <2> HIDE DEF most
  <2>2. st.currentBet + most \in Nat
    BY <1>1, <2>1
  <2>3. QED BY <2>2, WithinOffer DEF ChooseRaiseAmount, most
<1>6. QED BY <1>4, <1>5

LEMMA BotsDecide == IInv => BotsDecideLegally
<1> SUFFICES ASSUME IInv, Playing, NEW level \in BotLevels, NEW strength \in Strengths,
                    NEW decision \in BotDecisions(game, game.currentTurnSeat, level, strength)
             PROVE  Accepts(game, game.currentTurnSeat, decision)
  BY DEF BotsDecideLegally
<1> DEFINE s == game.currentTurnSeat
           profile == ProfileFor[level]
           bets == BetsOffered(game, s)
           raises == RaisesOffered(game, s)
<1>1. /\ RoundInv(game) /\ game \in GameStates /\ s \in Seats /\ MayAct(game, s)
      /\ strength \in 0..100
  BY StrengthsAssumption DEF IInv, GameInv, Playing, ToAct, MayAct
<1> HIDE DEF s
<1>2. Accepts(game, s, PassiveDecision(game, s, profile, strength))
  <2> DEFINE passive == PassiveDecision(game, s, profile, strength)
  <2>1. \/ OffersCall(game, s) /\ \E type \in {"CALL", "ALL_IN", "FOLD"} : passive = Decision(type, 0)
        \/ ~OffersCall(game, s) /\ passive = Decision("CHECK", 0)
    BY DEF PassiveDecision
  <2> HIDE DEF passive
  <2>2. OffersCall(game, s) \/ OffersCheck(game, s)
    BY <1>1 DEF OffersCall, OffersCheck
  <2>3. QED BY <1>1, <2>1, <2>2, OffersAreDecisions DEF passive
<1>3. ASSUME raises # {}
      PROVE  Accepts(game, s, Decision("RAISE", ChooseRaiseAmount(raises, game, strength)))
  BY <1>1, <1>3, RaisesAreAnOffer, BotSizes, OffersAreDecisions
<1>4. ASSUME bets # {}
      PROVE  Accepts(game, s, Decision("BET", ChooseBetAmount(bets, game, strength)))
  BY <1>1, <1>4, BetsAreAnOffer, BotSizes, OffersAreDecisions
<1>5. ASSUME bets \cup raises # {}
      PROVE  Accepts(game, s, Decision(IF bets # {} THEN "BET" ELSE "RAISE",
                                       ChooseBetAmount(bets \cup raises, game, 40)))
  <2>1. bets = {} \/ raises = {}
    BY <1>1, BetsAreAnOffer, RaisesAreAnOffer
  <2>2. CASE bets # {}
    <3>1. bets \cup raises = bets
      BY <2>1, <2>2
    <3>2. ChooseBetAmount(bets, game, 40) \in bets
      BY <1>1, <2>2, BetsAreAnOffer, BotSizes, 40 \in 0..100
    <3>3. Accepts(game, s, Decision("BET", ChooseBetAmount(bets, game, 40)))
      BY <1>1, <3>2, OffersAreDecisions
    <3>4. QED BY <2>2, <3>1, <3>3
  <2>3. CASE bets = {}
    <3>1. bets \cup raises = raises /\ raises # {}
      BY <1>5, <2>3
    <3>2. ChooseBetAmount(raises, game, 40) \in raises
      BY <1>1, <3>1, RaisesAreAnOffer, BotSizes, 40 \in 0..100
    <3>3. Accepts(game, s, Decision("RAISE", ChooseBetAmount(raises, game, 40)))
      BY <1>1, <3>2, OffersAreDecisions
    <3>4. QED BY <2>3, <3>1, <3>3
  <2>4. QED BY <2>2, <2>3
<1>6. \/ decision = PassiveDecision(game, s, profile, strength)
      \/ raises # {} /\ decision = Decision("RAISE", ChooseRaiseAmount(raises, game, strength))
      \/ bets # {} /\ decision = Decision("BET", ChooseBetAmount(bets, game, strength))
      \/ /\ bets \cup raises # {}
         /\ decision = Decision(IF bets # {} THEN "BET" ELSE "RAISE",
                                ChooseBetAmount(bets \cup raises, game, 40))
  <2>1. decision \in BotDecisions(game, s, level, strength)
    BY DEF s
  <2> HIDE DEF profile, bets, raises
  <2>2. QED BY <2>1 DEF BotDecisions, profile, bets, raises
<1>7. QED
  <2> HIDE DEF profile, bets, raises
  <2> QED BY <1>2, <1>3, <1>4, <1>5, <1>6 DEF s

LEMMA DecisionsAccepted == IInv => DecisionsAreAccepted
<1> SUFFICES ASSUME IInv, NEW s \in Seats
             PROVE  LET map == LegalActionMap(s) IN
                    /\ UpdateMyTurn(s) <=> Enabled(map) # {}
                    /\ \A type \in Enabled(map) : LET amounts == map[type] IN
                         \A typed \in Typed :
                           /\ \A decision \in SoloSends(amounts, type, typed) :
                                Accepts(game, s, decision)
                           /\ (type \in FriendLegalActionMap(s) /\ typed \in amounts) =>
                                SoloSends(amounts, type, typed) = FriendSends(type, typed)
  BY BotsDecide DEF DecisionsAreAccepted
<1>1. ASSUME UpdateMyTurn(s) PROVE Enabled(LegalActionMap(s)) # {}
  <2>1. MayAct(game, s)
    BY <1>1 DEF UpdateMyTurn, IInv, GameInv, ToAct, MayAct
  <2>2. LegalActionMap(s)["FOLD"] = {0} /\ "FOLD" \in DOMAIN LegalActionMap(s)
    BY <2>1 DEF LegalActionMap
  <2>3. QED BY <2>2 DEF Enabled
<1>2. ASSUME NEW type \in Enabled(LegalActionMap(s)) PROVE UpdateMyTurn(s)
  <2>1. MayAct(game, s)
    <3>1. /\ BetsOffered(game, s) # {} => MayAct(game, s)
          /\ RaisesOffered(game, s) # {} => MayAct(game, s)
      BY DEF BetsOffered, OffersBet, RaisesOffered, OffersRaise
    <3>2. ASSUME ~MayAct(game, s)
          PROVE  LegalActionMap(s) = [ FOLD |-> {}, ALL_IN |-> {}, CHECK |-> {}, CALL |-> {},
                                       BET |-> {}, RAISE |-> {} ]
      BY <3>1, <3>2 DEF LegalActionMap, OffersCheck, OffersCall
    <3>3. QED BY <3>2 DEF Enabled
  <2>2. QED BY <2>1 DEF UpdateMyTurn, MayAct
<1>3. QED
  <2>1. UpdateMyTurn(s) <=> Enabled(LegalActionMap(s)) # {}
    BY <1>1, <1>2
  <2>2. Typed \subseteq Nat
    BY TypedAssumption
  <2>3. QED BY <2>1, <2>2, PagesDecide

-----------------------------------------------------------------------------
(* Whom a hand pays *)

\* Pots are paid to seats that may still win.
LEMMA OnlyTheEligibleWin ==
  ASSUME NEW stakes \in [Seats -> Nat], NEW alive \in SUBSET Seats, NEW hands,
         NEW s \in Seats, s \notin alive
  PROVE  Payouts(stakes, alive, hands)[s] = 0
<1> DEFINE f == [ l \in PotLevels(stakes, alive) |-> PotShare(stakes, alive, hands, l, s) ]
<1>1. \A l \in PotLevels(stakes, alive) : PotShare(stakes, alive, hands, l, s) = 0
  BY DEF PotShare, PotWinners
<1>2. \A l \in DOMAIN f : f[l] = 0
  BY <1>1
<1>3. ChipUnits(f) = {}
  <2> HIDE DEF f
  <2>1. \A u : u \in ChipUnits(f) <=> \E x \in DOMAIN f : \E k \in 1..f[x] : u = <<x, k>>
    BY UnitsAre
  <2>2. QED BY <1>2, <2>1
<1>4. ChipTotal(f) = 0
  BY <1>3, FS_EmptySet DEF ChipTotal
<1>5. QED BY <1>4 DEF Payouts

\* A pot holds a chip at least for each of its contributors, so that each of its winners
\* gets one.
LEMMA WinnersShare ==
  ASSUME NEW stakes \in [Seats -> Nat], NEW alive \in SUBSET Seats, NEW hands,
         NEW l \in PotLevels(stakes, alive), NEW w \in PotWinners(stakes, alive, hands, l)
  PROVE  PotShare(stakes, alive, hands, l, w) > 0
         /\ PotShare(stakes, alive, hands, l, w) \in Nat
<1> DEFINE winners == PotWinners(stakes, alive, hands, l)
           payers == Contributors(stakes, l)
           amount == PotAmount(stakes, l)
           count == Cardinality(winners)
           before == { x \in winners : x < w }
           odd == IF Cardinality(before) < amount % count THEN 1 ELSE 0
           layer == l - PreviousLevel(stakes, l)
<1>1. winners \in SUBSET payers /\ payers \in SUBSET Seats
  BY DEF PotWinners, Contributors
<1>2. count \in Nat /\ count > 0 /\ Cardinality(payers) \in Nat /\ count <= Cardinality(payers)
  <2>1. IsFiniteSet(winners) /\ IsFiniteSet(payers) /\ count \in Nat
        /\ Cardinality(payers) \in Nat
    BY <1>1, SeatSetsAreFinite
  <2>2. count # 0
    BY <2>1, FS_EmptySet
  <2>3. count <= Cardinality(payers)
    BY <1>1, <2>1, FS_Subset
  <2> HIDE DEF count
  <2>4. QED BY <2>1, <2>2, <2>3
<1>3. layer \in Nat /\ layer > 0
  <2>1. l \in Levels(stakes)
    BY DEF PotLevels
  <2>2. l \in Nat /\ PreviousLevel(stakes, l) \in Nat /\ PreviousLevel(stakes, l) < l
    BY <2>1, LayersAre, LevelsAreFinite
  <2>3. QED BY <2>2
<1>4. amount = layer * Cardinality(payers)
  BY DEF PotAmount
<1>5. PotShare(stakes, alive, hands, l, w) = (amount \div count) + odd /\ odd \in {0, 1}
  BY DEF PotShare
<1> DEFINE n == Cardinality(payers)
<1> HIDE DEF winners, payers, amount, count, layer, odd
<1>6. amount \in Nat /\ amount >= n /\ n \in Nat /\ count <= n
  <2>1. layer * n \in Nat /\ layer * n >= n
    <3>1. layer - 1 \in Nat /\ n \in Nat
      BY <1>2, <1>3 DEF n
    <3>2. (layer - 1) * n \in Nat
      BY <3>1
    <3>3. layer * n = (layer - 1) * n + n
      BY <1>3, <3>1
    <3>4. QED BY <3>1, <3>2, <3>3
  <2>2. QED BY <1>2, <1>4, <2>1 DEF n
<1>7. amount \div count \in Nat /\ amount \div count # 0
  <2>1. /\ amount \div count \in Nat /\ amount % count \in Nat
        /\ count * (amount \div count) + (amount % count) = amount
    BY <1>2, <1>6, QuotientAndRest
  <2>2. amount % count < count
    BY <1>2, <1>6
  <2>3. ASSUME amount \div count = 0 PROVE FALSE
    <3>1. count * (amount \div count) = 0
      BY <1>2, <2>3
    <3>2. amount % count = amount
      BY <1>6, <2>1, <3>1
    <3>3. QED BY <1>2, <1>6, <2>2, <3>2
  <2>4. QED BY <2>1, <2>3
<1>8. QED BY <1>5, <1>7

\* A showdown of a seat with chips in the pot pays somebody.
LEMMA SomebodyWins ==
  ASSUME NEW stakes \in [Seats -> Nat], NEW alive \in SUBSET Seats, NEW hands \in [alive -> Ranks],
         NEW c \in alive, stakes[c] > 0
  PROVE  \E w \in Seats : Payouts(stakes, alive, hands)[w] > 0
<1> DEFINE l == stakes[c]
           entitled == Contributors(stakes, l) \cap alive
           values == { hands[t] : t \in entitled }
<1>1. l \in PotLevels(stakes, alive) /\ c \in entitled /\ entitled \in SUBSET Seats
  BY DEF PotLevels, Levels, Contributors
<1>2. values \in SUBSET Nat /\ values # {} /\ IsFiniteSet(values)
  <2>1. \A t \in alive : hands[t] \in Nat
    BY RanksAssumption
  <2>2. IsFiniteSet(entitled)
    BY <1>1, SeatSetsAreFinite
  <2> DEFINE g == [ t \in entitled |-> hands[t] ]
  <2>3. DOMAIN g = entitled /\ values = { g[t] : t \in entitled }
    OBVIOUS
  <2> HIDE DEF g
  <2>4. IsFiniteSet({ g[t] : t \in entitled })
    BY <2>2, <2>3, ImageIsFinite
  <2>5. IsFiniteSet(values)
    BY <2>3, <2>4
  <2>6. QED BY <1>1, <2>1, <2>5
<1> HIDE DEF l
<1>3. PICK w \in entitled : \A t \in entitled : hands[t] <= hands[w]
  <2>1. Max(values) \in values /\ \A k \in values : k <= Max(values)
    <3> HIDE DEF values
    <3> QED BY <1>2, MaxOfNats
  <2>2. QED BY <2>1
<1>4. w \in PotWinners(stakes, alive, hands, l) /\ w \in Seats
  BY <1>1, <1>3 DEF PotWinners
<1> DEFINE f == [ k \in PotLevels(stakes, alive) |-> PotShare(stakes, alive, hands, k, w) ]
<1>5. f[l] \in Nat /\ f[l] > 0 /\ l \in DOMAIN f
  BY <1>1, <1>4, WinnersShare
<1>6. ChipTotal(f) > 0
  <2>1. \A k \in DOMAIN f : f[k] \in Int
    BY <1>4, PotShareType
  <2>2. IsFiniteSet(DOMAIN f)
    <3>1. PotLevels(stakes, alive) \in SUBSET Levels(stakes)
      BY DEF PotLevels
    <3>2. QED BY <3>1, LevelsAreFinite, FS_Subset
  <2> HIDE DEF f
  <2>3. IsFiniteSet(ChipUnits(f)) /\ ChipTotal(f) \in Nat
    BY <2>1, <2>2, ChipTotalType
  <2>4. <<l, 1>> \in ChipUnits(f)
    BY <1>5, UnitsAre
  <2>5. Cardinality(ChipUnits(f)) # 0
    BY <2>3, <2>4, FS_EmptySet
  <2>6. QED BY <2>3, <2>5 DEF ChipTotal
<1>7. Payouts(stakes, alive, hands)[w] = ChipTotal(f)
  BY <1>4 DEF Payouts
<1>8. QED BY <1>4, <1>6, <1>7

-----------------------------------------------------------------------------
(* What a hand keeps from its deal to its end *)

\* Who is in the hand brought chips to it, who is all-in has none left, ...
Seated(st) ==
  /\ \A s \in Seats : st.playerStatus[s] # "OUT" => st.startHandChips[s] > 0
  /\ \A s \in Seats : st.playerStatus[s] = "ALL_IN" => st.chips[s] = 0

\* ... and somebody has put some in.
DealtIn(st) == Seated(st) /\ \E s \in Seats : st.investedThisHand[s] > 0

\* r is a later state of the hand of st: the same seats posted its blinds, from the same stacks.
SameHand(r, st) ==
  /\ r.startHandChips = st.startHandChips
  /\ r.smallBlindSeat = st.smallBlindSeat /\ r.bigBlindSeat = st.bigBlindSeat

\* r is st after s acted and put amount in.
ActedOn(r, st, s, amount) ==
  /\ DealtIn(r) /\ SameHand(r, st) /\ r.street = st.street
  /\ r.investedThisHand = [st.investedThisHand EXCEPT ![s] = @ + amount]

\* Putting chips in leaves it so.
PaidIn(r, st, s, amount) ==
  /\ r \in GameStates /\ Seated(r) /\ SameHand(r, st) /\ r.street = st.street
  /\ r.investedThisHand = [st.investedThisHand EXCEPT ![s] = @ + amount]
  /\ r.chips = [st.chips EXCEPT ![s] = @ - amount]
  /\ r.hasActedThisStreet = st.hasActedThisStreet

LEMMA InvestedSeated ==
  ASSUME NEW st \in GameStates, Seated(st), NEW s \in Seats, NEW amount \in Nat,
         amount <= st.chips[s]
  PROVE  PaidIn(InvestChips(st, s, amount), st, s, amount)
<1> DEFINE r == InvestChips(st, s, amount)
<1>1. /\ \A t \in Seats : st.chips[t] \in Nat /\ st.startHandChips[t] \in Nat
      /\ \A t \in Seats : t # s => r.chips[t] = st.chips[t] /\ r.playerStatus[t] = st.playerStatus[t]
      /\ r.chips[s] = st.chips[s] - amount
      /\ r.playerStatus[s] = IF st.playerStatus[s] = "ACTIVE" /\ st.chips[s] = amount
                             THEN "ALL_IN" ELSE st.playerStatus[s]
      /\ r.investedThisHand = [st.investedThisHand EXCEPT ![s] = @ + amount]
      /\ r.chips = [st.chips EXCEPT ![s] = @ - amount]
      /\ r.hasActedThisStreet = st.hasActedThisStreet
      /\ SameHand(r, st) /\ r.street = st.street
  BY DEF InvestChips, GameStates, SameHand
<1>2. r \in GameStates
  BY InvestChipsState DEF Invested
<1> HIDE DEF r
<1>3. \A t \in Seats : r.playerStatus[t] # "OUT" => r.startHandChips[t] > 0
  BY <1>1 DEF Seated, SameHand
<1>4. \A t \in Seats : r.playerStatus[t] = "ALL_IN" => r.chips[t] = 0
  <2> SUFFICES ASSUME NEW t \in Seats, r.playerStatus[t] = "ALL_IN" PROVE r.chips[t] = 0
    OBVIOUS
  <2>1. CASE t # s
    BY <1>1, <2>1 DEF Seated
  <2>2. CASE t = s
    <3>1. \/ st.chips[s] = amount
          \/ st.playerStatus[s] = "ALL_IN"
      BY <1>1, <2>2
    <3>2. st.chips[s] = amount
      BY <1>1, <3>1 DEF Seated
    <3>3. QED BY <1>1, <2>2, <3>2
  <2>3. QED BY <2>1, <2>2
<1>5. QED BY <1>1, <1>2, <1>3, <1>4 DEF PaidIn, Seated, r

LEMMA InvestedActed ==
  ASSUME NEW st \in GameStates, DealtIn(st), NEW s \in Seats, NEW amount \in Nat,
         amount <= st.chips[s]
  PROVE  ActedOn(InvestChips(st, s, amount), st, s, amount)
<1> DEFINE r == InvestChips(st, s, amount)
<1>0. PaidIn(r, st, s, amount)
  BY InvestedSeated DEF DealtIn
<1> HIDE DEF r
<1>1. /\ Seated(r) /\ SameHand(r, st) /\ r.street = st.street
      /\ r.investedThisHand = [st.investedThisHand EXCEPT ![s] = @ + amount]
  BY <1>0 DEF PaidIn
<1>2. \E t \in Seats : r.investedThisHand[t] > 0
  <2>1. PICK t \in Seats : st.investedThisHand[t] > 0
    BY DEF DealtIn
  <2>2. st.investedThisHand \in [Seats -> Nat] /\ st.investedThisHand[s] \in Nat
    BY DEF GameStates
  <2>3. r.investedThisHand[t] > 0
    BY <1>1, <2>1, <2>2
  <2>4. QED BY <2>3
<1>3. QED BY <1>1, <1>2 DEF ActedOn, DealtIn, r

\* Marks, the bet and the least raise do not matter to that.
LEMMA MarkedActed ==
  ASSUME NEW st, NEW q, NEW s, NEW amount, ActedOn(q, st, s, amount), NEW r,
         r.chips = q.chips, r.playerStatus = q.playerStatus,
         r.investedThisHand = q.investedThisHand, SameHand(r, q), r.street = q.street
  PROVE  ActedOn(r, st, s, amount)
BY DEF ActedOn, DealtIn, Seated, SameHand

LEMMA FoldActs ==
  ASSUME NEW st \in GameStates, DealtIn(st), NEW s \in Seats, MayAct(st, s)
  PROVE  ActedOn(Folded(st, s), st, s, 0) /\ ActedOn(Checked(st, s), st, s, 0)
<1>1. st.investedThisHand = [st.investedThisHand EXCEPT ![s] = @ + 0]
  <2>1. st.investedThisHand \in [Seats -> Nat] /\ st.investedThisHand[s] \in Nat
    BY DEF GameStates
  <2>2. st.investedThisHand[s] + 0 = st.investedThisHand[s]
    BY <2>1
  <2>3. QED BY <2>1, <2>2
<1>2. ActedOn(Checked(st, s), st, s, 0)
  <2>1. LET r == Checked(st, s) IN
        /\ r.chips = st.chips /\ r.playerStatus = st.playerStatus /\ r.street = st.street
        /\ r.investedThisHand = st.investedThisHand /\ SameHand(r, st)
    BY DEF Checked, HasActed, GameStates, SameHand
  <2>2. QED BY <1>1, <2>1 DEF ActedOn, DealtIn, Seated, SameHand
<1>3. ActedOn(Folded(st, s), st, s, 0)
  <2> DEFINE r == Folded(st, s)
  <2>1. /\ r.chips = st.chips /\ r.street = st.street
        /\ r.investedThisHand = st.investedThisHand /\ SameHand(r, st)
        /\ r.playerStatus[s] = "FOLDED"
        /\ \A t \in Seats : t # s => r.playerStatus[t] = st.playerStatus[t]
        /\ st.playerStatus[s] = "ACTIVE"
    BY DEF Folded, HasActed, GameStates, SameHand, MayAct, CanStillAct
  <2> HIDE DEF r
  <2>2. DealtIn(r)
    <3>1. \A t \in Seats : r.playerStatus[t] # "OUT" => r.startHandChips[t] > 0
      BY <2>1 DEF DealtIn, Seated, SameHand
    <3>2. \A t \in Seats : r.playerStatus[t] = "ALL_IN" => r.chips[t] = 0
      BY <2>1 DEF DealtIn, Seated
    <3>3. QED BY <2>1, <3>1, <3>2 DEF DealtIn, Seated
  <2>3. QED BY <1>1, <2>1, <2>2 DEF ActedOn, r
<1>4. QED BY <1>2, <1>3

LEMMA MarksAct ==
  ASSUME NEW q \in GameStates, NEW st, NEW s \in Seats, NEW amount, ActedOn(q, st, s, amount),
         NEW bet, NEW raise
  PROVE  /\ ActedOn(HasActed(q, s), st, s, amount)
         /\ ActedOn(HasActed([q EXCEPT !.currentBet = bet], s), st, s, amount)
         /\ ActedOn(MarkFullAggression([q EXCEPT !.currentBet = bet, !.minRaise = raise], s),
                    st, s, amount)
<1>1. LET r == HasActed(q, s) IN
      /\ r.chips = q.chips /\ r.playerStatus = q.playerStatus
      /\ r.investedThisHand = q.investedThisHand /\ SameHand(r, q) /\ r.street = q.street
  BY DEF HasActed, GameStates, SameHand
<1>2. LET r == HasActed([q EXCEPT !.currentBet = bet], s) IN
      /\ r.chips = q.chips /\ r.playerStatus = q.playerStatus
      /\ r.investedThisHand = q.investedThisHand /\ SameHand(r, q) /\ r.street = q.street
  BY DEF HasActed, GameStates, SameHand
<1>3. LET r == MarkFullAggression([q EXCEPT !.currentBet = bet, !.minRaise = raise], s) IN
      /\ r.chips = q.chips /\ r.playerStatus = q.playerStatus
      /\ r.investedThisHand = q.investedThisHand /\ SameHand(r, q) /\ r.street = q.street
  BY DEF MarkFullAggression, GameStates, SameHand
<1>4. QED BY <1>1, <1>2, <1>3, MarkedActed

LEMMA CallActs ==
  ASSUME NEW st \in GameStates, DealtIn(st), NEW s \in Seats, MayCall(st, s)
  PROVE  LET amount == Min({st.chips[s], st.currentBet - st.investedThisStreet[s]})
         IN  amount \in Nat /\ amount > 0 /\ ActedOn(Called(st, s), st, s, amount)
<1> DEFINE missing == st.currentBet - st.investedThisStreet[s]
           amount == Min({st.chips[s], missing})
<1>1. st.chips[s] \in Nat /\ st.chips[s] > 0 /\ missing \in Nat /\ missing > 0
  BY DEF GameStates, MayCall, MayAct, CanStillAct
<1>2. amount \in {st.chips[s], missing} /\ amount <= st.chips[s]
  <2>1. {st.chips[s], missing} \in SUBSET Nat /\ {st.chips[s], missing} # {}
    BY <1>1
  <2> HIDE DEF missing
  <2>2. QED BY <2>1, MinOfNats
<1>3. Called(st, s) = HasActed(InvestChips(st, s, amount), s)
  BY DEF Called
<1> HIDE DEF amount
<1>4. amount \in Nat /\ amount > 0
  BY <1>1, <1>2
<1>5. ActedOn(InvestChips(st, s, amount), st, s, amount)
      /\ InvestChips(st, s, amount) \in GameStates
  BY <1>2, <1>4, InvestedActed, InvestChipsState DEF Invested
<1>6. ActedOn(Called(st, s), st, s, amount)
  BY <1>3, <1>5, MarksAct
<1>7. QED BY <1>4, <1>6 DEF amount

LEMMA BetActs ==
  ASSUME NEW st \in GameStates, DealtIn(st), NEW s \in Seats, NEW amount \in Nat,
         MayBet(st, s, amount)
  PROVE  amount > 0 /\ ActedOn(BetPlaced(st, s, amount), st, s, amount)
<1>1. amount > 0 /\ amount <= st.chips[s]
  BY DEF MayBet
<1>2. ActedOn(InvestChips(st, s, amount), st, s, amount)
      /\ InvestChips(st, s, amount) \in GameStates
  BY <1>1, InvestedActed, InvestChipsState DEF Invested
<1>3. QED BY <1>1, <1>2, MarksAct DEF BetPlaced

LEMMA RaiseActs ==
  ASSUME NEW st, RoundInv(st), DealtIn(st), NEW s \in Seats, NEW raiseTo \in Nat,
         MayRaise(st, s, raiseTo)
  PROVE  LET amount == raiseTo - st.investedThisStreet[s]
         IN  amount \in Nat /\ amount > 0 /\ ActedOn(RaisedTo(st, s, raiseTo), st, s, amount)
<1> DEFINE amount == raiseTo - st.investedThisStreet[s]
           paid == InvestChips(st, s, amount)
           size == raiseTo - st.currentBet
<1>1. /\ st \in GameStates /\ st.chips[s] \in Nat /\ st.currentBet \in Nat
      /\ st.investedThisStreet[s] \in Nat /\ st.investedThisStreet[s] <= st.currentBet
  BY DEF RoundInv, GameStates
<1>2. amount \in Nat /\ amount > 0 /\ amount <= st.chips[s]
  BY <1>1 DEF MayRaise
<1>3. ActedOn(paid, st, s, amount) /\ paid \in GameStates
  BY <1>1, <1>2, InvestedActed, InvestChipsState DEF Invested
<1>4. \/ RaisedTo(st, s, raiseTo) = HasActed([paid EXCEPT !.currentBet = raiseTo], s)
      \/ RaisedTo(st, s, raiseTo)
           = MarkFullAggression([paid EXCEPT !.currentBet = raiseTo, !.minRaise = size], s)
  BY DEF RaisedTo
<1> HIDE DEF paid, size, amount
<1>5. ActedOn(RaisedTo(st, s, raiseTo), st, s, amount)
  <2>1. ActedOn(HasActed([paid EXCEPT !.currentBet = raiseTo], s), st, s, amount)
    BY <1>3, MarksAct
  <2>2. ActedOn(MarkFullAggression([paid EXCEPT !.currentBet = raiseTo, !.minRaise = size], s),
                st, s, amount)
    BY <1>3, MarksAct
  <2>3. QED BY <1>4, <2>1, <2>2
<1>6. QED BY <1>2, <1>5 DEF amount

LEMMA AllInActs ==
  ASSUME NEW st \in GameStates, DealtIn(st), NEW s \in Seats, MayAct(st, s)
  PROVE  /\ st.chips[s] \in Nat /\ st.chips[s] > 0
         /\ ActedOn(WentAllIn(st, s), st, s, st.chips[s])
<1> DEFINE amount == st.chips[s]
           total == st.investedThisStreet[s] + amount
           paid == InvestChips(st, s, amount)
           raise == Max({paid.minRaise, total - st.currentBet})
<1>1. amount \in Nat /\ amount > 0 /\ amount <= amount
  BY DEF GameStates, MayAct, CanStillAct
<1>2. ActedOn(paid, st, s, amount) /\ paid \in GameStates
  BY <1>1, InvestedActed, InvestChipsState DEF Invested
<1>3. \/ WentAllIn(st, s) = HasActed(paid, s)
      \/ WentAllIn(st, s) = HasActed([paid EXCEPT !.currentBet = total], s)
      \/ WentAllIn(st, s)
           = MarkFullAggression([paid EXCEPT !.currentBet = total, !.minRaise = raise], s)
  <2>1. [paid EXCEPT !.currentBet = total].minRaise = paid.minRaise
    BY <1>2 DEF GameStates
  <2> HIDE DEF paid
  <2>2. QED BY <2>1 DEF WentAllIn, paid
<1> HIDE DEF paid, total, raise
<1>4. ActedOn(WentAllIn(st, s), st, s, amount)
  <2>1. ActedOn(HasActed(paid, s), st, s, amount)
        /\ ActedOn(HasActed([paid EXCEPT !.currentBet = total], s), st, s, amount)
    BY <1>2, MarksAct
  <2>2. ActedOn(MarkFullAggression([paid EXCEPT !.currentBet = total, !.minRaise = raise], s),
                st, s, amount)
    BY <1>2, MarksAct
  <2>3. QED BY <1>3, <2>1, <2>2
<1>5. QED BY <1>1, <1>4

\* Who may still win has put chips in by the time of a showdown.
LEMMA ContendersHavePaid ==
  ASSUME NEW st, RoundInv(st), DealtIn(st), NEW c \in Contenders(st),
         AllContendersAllIn(st) \/ BettingRoundComplete(st)
  PROVE  st.investedThisHand[c] > 0
<1>1. /\ c \in Seats /\ st.playerStatus[c] \in {"ACTIVE", "ALL_IN"}
      /\ \A t \in Seats : /\ st.chips[t] \in Nat /\ st.investedThisHand[t] \in Nat
                          /\ st.startHandChips[t] \in Nat /\ st.investedThisStreet[t] \in Nat
      /\ st.currentBet \in Nat
  BY DEF RoundInv, GameStates, PlayerStatuses, Contenders, IsContender
<1>2. CASE st.chips[c] = 0
  <2>1. st.startHandChips[c] > 0
    BY <1>1 DEF DealtIn, Seated
  <2>2. st.chips[c] + st.investedThisHand[c] = st.startHandChips[c]
    BY <1>1 DEF RoundInv
  <2>3. QED BY <1>1, <1>2, <2>1, <2>2
<1>3. CASE st.chips[c] # 0
  <2>1. CanStillAct(st, c)
    BY <1>1, <1>3 DEF CanStillAct, DealtIn, Seated
  <2>2. BettingRoundComplete(st)
    BY <1>3, <2>1 DEF AllContendersAllIn, CanStillAct
  <2>3. st.investedThisStreet[c] = st.currentBet
    BY <1>1, <2>1, <2>2 DEF BettingRoundComplete
  <2>4. PICK t \in Seats : st.investedThisHand[t] > 0
    BY DEF DealtIn
  <2>5. Earlier(st, t) <= Earlier(st, c) /\ st.investedThisStreet[t] <= st.currentBet
    BY <1>1, <2>1 DEF RoundInv
  <2>6. QED BY <1>1, <2>3, <2>4, <2>5 DEF Earlier
<1>4. QED BY <1>2, <1>3

\* A seat that is paid may still win, and a showdown pays somebody.
PaysRightly(st) ==
  /\ \A s \in Seats : st.won[s] > 0 => s \in Contenders(st)
  /\ AtShowdown(st) => \E w \in Seats : st.won[w] > 0

\* r is st with its turn passed on, its next street dealt or its pot paid.
SettledFrom(r, st) ==
  /\ SameHand(r, st) /\ r.investedThisHand = st.investedThisHand
  /\ \/ /\ r.status = "PLAYING" /\ DealtIn(r)
        /\ r.street \in {st.street, NextStreet[st.street]}
     \/ r.status = "HAND_FINISHED" /\ r.street = "SHOWDOWN" /\ PaysRightly(r)

LEMMA FinishSettles ==
  ASSUME NEW st \in GameStates, NEW won
  PROVE  LET r == Finish(st, won) IN
         /\ SameHand(r, st) /\ r.investedThisHand = st.investedThisHand
         /\ r.playerStatus = st.playerStatus /\ r.won = won
         /\ r.status = "HAND_FINISHED" /\ r.street = "SHOWDOWN"
         /\ Contenders(r) = Contenders(st)
<1> DEFINE r == Finish(st, won)
<1>1. /\ SameHand(r, st) /\ r.investedThisHand = st.investedThisHand
      /\ r.playerStatus = st.playerStatus /\ r.won = won
      /\ r.status = "HAND_FINISHED" /\ r.street = "SHOWDOWN"
  BY DEF Finish, GameStates, SameHand
<1> HIDE DEF r
<1>2. Contenders(r) = Contenders(st)
  BY <1>1 DEF Contenders, IsContender
<1>3. QED BY <1>1, <1>2 DEF r

LEMMA FoldSettles ==
  ASSUME NEW st \in GameStates, NEW s \in Contenders(st), Cardinality(Contenders(st)) = 1
  PROVE  SettledFrom(FinishByFold(st, s), st)
<1> DEFINE won == [ t \in Seats |-> IF t = s THEN Pot(st) ELSE 0 ]
           r == Finish(st, won)
<1>1. \A t \in Seats : won[t] > 0 => t \in Contenders(st)
  <2>1. \A t \in Seats : t # s => won[t] = 0
    OBVIOUS
  <2> HIDE DEF won
  <2>2. \A t \in Seats : t # s => ~(won[t] > 0)
    BY <2>1
  <2>3. QED BY <2>2
<1> HIDE DEF won
<1>2. /\ SameHand(r, st) /\ r.investedThisHand = st.investedThisHand /\ r.won = won
      /\ r.status = "HAND_FINISHED" /\ r.street = "SHOWDOWN"
      /\ Contenders(r) = Contenders(st)
  BY FinishSettles
<1>3. FinishByFold(st, s) = r
  BY DEF FinishByFold, won
<1> HIDE DEF r
<1>4. PaysRightly(r)
  BY <1>1, <1>2 DEF PaysRightly, AtShowdown
<1>5. QED BY <1>2, <1>3, <1>4 DEF SettledFrom

LEMMA ShowdownSettles ==
  ASSUME NEW st \in GameStates, NEW hands \in [Contenders(st) -> Ranks],
         \A c \in Contenders(st) : st.investedThisHand[c] > 0
  PROVE  SettledFrom(FinishByShowdown(st, hands), st)
<1> DEFINE river == [st EXCEPT !.boardCards = 5]
           stakes == st.investedThisHand
           alive == Contenders(st)
           won == Payouts(stakes, alive, hands)
           r == Finish(river, won)
<1>1. /\ river \in GameStates /\ SameHand(river, st) /\ river.investedThisHand = stakes
      /\ river.playerStatus = st.playerStatus
  BY DEF GameStates, SameHand
<1>2. stakes \in [Seats -> Nat] /\ alive \in SUBSET Seats
  BY DEF GameStates, Contenders
<1>3. FinishByShowdown(st, hands) = r
  BY DEF FinishByShowdown
<1> HIDE DEF won, river
<1>4. /\ SameHand(r, river) /\ r.investedThisHand = river.investedThisHand /\ r.won = won
      /\ r.status = "HAND_FINISHED" /\ r.street = "SHOWDOWN"
      /\ Contenders(r) = Contenders(river)
  BY <1>1, FinishSettles
<1> HIDE DEF r
<1>5. Contenders(r) = alive
  BY <1>1, <1>4 DEF Contenders, IsContender
<1>6. ASSUME NEW s \in Seats, won[s] > 0 PROVE s \in alive
  <2> SUFFICES ASSUME s \notin alive PROVE FALSE
    OBVIOUS
  <2> HIDE DEF alive, stakes
  <2>1. Payouts(stakes, alive, hands)[s] = 0
    BY <1>2, OnlyTheEligibleWin
  <2>2. won[s] = 0
    BY <2>1 DEF won
  <2>3. QED BY <1>6, <2>2
<1>7. ASSUME AtShowdown(r) PROVE \E w \in Seats : won[w] > 0
  <2>1. alive # {}
    BY <1>5, <1>7, FS_EmptySet DEF AtShowdown
  <2>2. PICK c \in alive : stakes[c] > 0
    BY <2>1
  <2>3. hands \in [alive -> Ranks]
    OBVIOUS
  <2> HIDE DEF alive, stakes
  <2>4. \E w \in Seats : Payouts(stakes, alive, hands)[w] > 0
    BY <1>2, <2>2, <2>3, SomebodyWins
  <2>5. QED BY <2>4 DEF won
<1>8. PaysRightly(r)
  BY <1>4, <1>5, <1>6, <1>7 DEF PaysRightly
<1>9. QED BY <1>1, <1>3, <1>4, <1>8 DEF SettledFrom, SameHand

LEMMA NormalizedSettles ==
  ASSUME NEW st, RoundInv(st), DealtIn(st), NEW from,
         NEW r \in NormalizeAfterAction(st, from, Ranks)
  PROVE  SettledFrom(r, st)
<1> DEFINE alive == Contenders(st)
           next == AdvanceStreet(st)
           turned == [st EXCEPT !.currentTurnSeat = FirstActionableSeatAfter(st, from)]
<1>1. st \in GameStates /\ st.status = "PLAYING"
  BY DEF RoundInv
<1>2. SettledFrom(turned, st)
  <2>1. /\ turned.status = "PLAYING" /\ turned.street = st.street
        /\ turned.investedThisHand = st.investedThisHand /\ SameHand(turned, st)
        /\ turned.chips = st.chips /\ turned.playerStatus = st.playerStatus
    BY <1>1 DEF GameStates, SameHand
  <2> HIDE DEF turned
  <2>2. DealtIn(turned)
    BY <2>1 DEF DealtIn, Seated, SameHand
  <2>3. QED BY <2>1, <2>2 DEF SettledFrom
<1>3. /\ next.status = "PLAYING" /\ next.street = NextStreet[st.street]
      /\ next.investedThisHand = st.investedThisHand /\ SameHand(next, st)
      /\ next.chips = st.chips /\ next.playerStatus = st.playerStatus
  BY <1>1 DEF AdvanceStreet, GameStates, SameHand
<1>4. BettingRoundComplete(st) /\ st.street # "RIVER" => next \in GameStates
  BY AdvancedRound DEF RoundInv
<1>5. \/ Cardinality(alive) = 1 /\ \E s \in alive : r = FinishByFold(st, s)
      \/ /\ AllContendersAllIn(st) \/ BettingRoundComplete(st)
         /\ \E hands \in [alive -> Ranks] : r = FinishByShowdown(st, hands)
      \/ r = turned
      \/ /\ BettingRoundComplete(st) /\ st.street # "RIVER"
         /\ r = next \/ \E hands \in [alive -> Ranks] : r = FinishByShowdown(next, hands)
  <2> HIDE DEF next, turned
  <2> QED BY DEF NormalizeAfterAction, next, turned
<1> HIDE DEF next, turned
<1>6. CASE Cardinality(alive) = 1 /\ \E s \in alive : r = FinishByFold(st, s)
  BY <1>1, <1>6, FoldSettles
<1>7. ASSUME AllContendersAllIn(st) \/ BettingRoundComplete(st),
             NEW hands \in [alive -> Ranks], r = FinishByShowdown(st, hands)
      PROVE  SettledFrom(r, st)
  <2>1. \A c \in Contenders(st) : st.investedThisHand[c] > 0
    BY <1>7, ContendersHavePaid
  <2>2. QED BY <1>1, <1>7, <2>1, ShowdownSettles
<1>8. ASSUME BettingRoundComplete(st), st.street # "RIVER", r = next
      PROVE  SettledFrom(r, st)
  <2>1. DealtIn(next)
    BY <1>3 DEF DealtIn, Seated, SameHand
  <2>2. QED BY <1>3, <1>8, <2>1 DEF SettledFrom
<1>9. ASSUME BettingRoundComplete(st), st.street # "RIVER",
             NEW hands \in [alive -> Ranks], r = FinishByShowdown(next, hands)
      PROVE  SettledFrom(r, st)
  <2>1. \A c \in alive : st.investedThisHand[c] > 0
    BY <1>9, ContendersHavePaid
  <2>2. Contenders(next) = alive
    BY <1>3 DEF Contenders, IsContender
  <2>3. next \in GameStates
    BY <1>4, <1>9
  <2> HIDE DEF alive
  <2>4. hands \in [Contenders(next) -> Ranks]
    BY <2>2
  <2>5. \A c \in Contenders(next) : next.investedThisHand[c] > 0
    BY <1>3, <2>1, <2>2
  <2>6. SettledFrom(FinishByShowdown(next, hands), next)
    BY <2>3, <2>4, <2>5, ShowdownSettles
  <2>7. r.status = "HAND_FINISHED"
    <3>1. [next EXCEPT !.boardCards = 5] \in GameStates
      BY <2>3 DEF GameStates
    <3>2. QED BY <1>9, <3>1, FinishSettles DEF FinishByShowdown
  <2>8. QED BY <1>3, <1>9, <2>6, <2>7 DEF SettledFrom, SameHand
<1>10. QED BY <1>2, <1>5, <1>6, <1>7, <1>8, <1>9

-----------------------------------------------------------------------------
(* The blinds *)

\* Of two seats or more, the next one is another one.
LEMMA AnotherSeat ==
  ASSUME NEW S \in SUBSET Seats, NEW x \in S, Cardinality(S) >= 2
  PROVE  SeatAfter(S, x) # x
<1>1. PICK y \in S : y # x
  <2> SUFFICES ASSUME \A y \in S : y = x PROVE FALSE
    OBVIOUS
  <2>1. S = {x}
    OBVIOUS
  <2>2. Cardinality({x}) = 1
    BY FS_Singleton
  <2>3. Cardinality(S) = 1
    BY <2>1, <2>2
  <2>4. QED BY <2>3
<1>2. S \in SUBSET Nat /\ x \in Nat /\ y \in Nat
  BY SeatsAssumption
<1>3. CASE \E s \in S : s > x
  <2> DEFINE T == { s \in S : s > x }
  <2>1. T \in SUBSET Nat /\ T # {}
    BY <1>2, <1>3
  <2>2. x \notin T
    BY <1>2
  <2> HIDE DEF T
  <2>3. Min(T) \in T
    BY <2>1, MinOfNats
  <2>4. QED BY <1>3, <2>2, <2>3 DEF SeatAfter, T
<1>4. CASE ~ \E s \in S : s > x
  <2>1. y < x
    BY <1>1, <1>2, <1>4
  <2>2. Min(S) \in S /\ Min(S) <= y
    BY <1>2, MinOfNats
  <2>3. Min(S) # x
    BY <1>2, <2>1, <2>2
  <2>4. QED BY <1>4, <2>3 DEF SeatAfter
<1>5. QED BY <1>3, <1>4

\* The least of a stack and a blind.
LEMMA BlindIs ==
  ASSUME NEW chips \in Nat, NEW blind \in Nat
  PROVE  /\ Min({chips, blind}) \in Nat /\ Min({chips, blind}) <= chips
         /\ chips > 0 /\ blind > 0 => Min({chips, blind}) > 0
<1>1. {chips, blind} \in SUBSET Nat /\ {chips, blind} # {}
  OBVIOUS
<1>2. Min({chips, blind}) \in {chips, blind} /\ Min({chips, blind}) <= chips
  BY <1>1, MinOfNats
<1>3. QED BY <1>2

\* Once the blinds are posted every seat has put in what it had to post.
LEMMA BlindsArePosted ==
  ASSUME NEW chips \in [Seats -> Nat], CanStartHand(chips), NEW dealer \in Funded(chips)
  PROVE  LET st == BlindsPosted(chips, dealer) IN
         /\ DealtIn(st) /\ st.street = "PREFLOP"
         /\ \A s \in Seats : st.investedThisHand[s] = Posted(st, s)
         /\ \A s \in Seats : ~st.hasActedThisStreet[s]
<1> DEFINE S == Funded(chips)
           sb == SmallBlindSeat(S, dealer)
           bb == BigBlindSeat(S, dealer)
           dealt == Dealt(chips, dealer)
           a == Min({dealt.chips[sb], SmallBlind})
           small == InvestChips(dealt, sb, a)
           b == Min({small.chips[bb], BigBlind})
           posted == InvestChips(small, bb, b)
           bet == Max({ posted.investedThisStreet[s] : s \in Seats })
           st == [posted EXCEPT !.currentBet = bet]
           zeros == [ s \in Seats |-> 0 ]
<1>1. /\ S \in SUBSET Seats /\ sb \in S /\ bb \in S /\ sb # bb
      /\ sb \in Seats /\ bb \in Seats /\ chips[sb] > 0 /\ chips[bb] > 0
  <2>1. S \in SUBSET Seats
    BY DEF Funded
  <2>2. sb \in S /\ bb \in S
    BY <2>1, BlindSeats
  <2>3. Cardinality(S) >= 2
    BY DEF CanStartHand
  <2> HIDE DEF S, sb
  <2>4. SeatAfter(S, sb) # sb
    BY <2>1, <2>2, <2>3, AnotherSeat
  <2>5. sb # bb
    BY <2>4 DEF BigBlindSeat, sb
  <2>6. chips[sb] > 0 /\ chips[bb] > 0
    BY <2>2 DEF S, Funded
  <2>7. QED BY <2>1, <2>2, <2>5, <2>6
<1>2. /\ dealt \in GameStates /\ Seated(dealt) /\ dealt.street = "PREFLOP"
      /\ dealt.chips = chips /\ dealt.startHandChips = chips /\ dealt.investedThisHand = zeros
      /\ dealt.smallBlindSeat = sb /\ dealt.bigBlindSeat = bb
      /\ \A s \in Seats : ~dealt.hasActedThisStreet[s]
  <2> DEFINE statuses == [ s \in Seats |-> IF chips[s] > 0 THEN "ACTIVE" ELSE "OUT" ]
             falses == [ s \in Seats |-> FALSE ]
  <2>1. /\ statuses \in [Seats -> PlayerStatuses] /\ zeros \in [Seats -> Nat]
        /\ falses \in [Seats -> BOOLEAN]
        /\ \A s \in Seats : /\ statuses[s] # "ALL_IN" /\ (statuses[s] # "OUT" => chips[s] > 0)
                              /\ ~falses[s]
    BY DEF PlayerStatuses
  <2> HIDE DEF statuses, zeros, falses
  <2>2. dealt =
          [ status |-> "PLAYING", street |-> "PREFLOP", boardCards |-> 0,
            currentBet |-> 0, minRaise |-> BigBlind, dealerSeat |-> dealer,
            smallBlindSeat |-> sb, bigBlindSeat |-> bb,
            currentTurnSeat |-> NoSeat, lastAggressorSeat |-> bb,
            chips |-> chips, startHandChips |-> chips,
            investedThisHand |-> zeros, investedThisStreet |-> zeros,
            playerStatus |-> statuses, hasActedThisStreet |-> falses, won |-> zeros ]
    BY DEF Dealt, statuses, zeros, falses
  <2>3. dealer \in Seats
    BY <1>1
  <2> HIDE DEF dealt, S, sb, bb
  <2>4. dealt \in GameStates
    BY <1>1, <2>1, <2>2, <2>3, BlindsAssumption DEF GameStates, GameStatuses, BettingStreets
  <2>5. QED BY <2>1, <2>2, <2>4 DEF Seated
<1>3. st = BlindsPosted(chips, dealer)
  <2>1. small = PostBlind(dealt, dealt.smallBlindSeat, SmallBlind)
    BY <1>2 DEF PostBlind
  <2> HIDE DEF small
  <2>2. posted = PostBlind(small, dealt.bigBlindSeat, BigBlind)
    BY <1>2 DEF PostBlind
  <2> HIDE DEF dealt, posted
  <2>3. QED BY <2>1, <2>2 DEF BlindsPosted, dealt
<1> HIDE DEF dealt
<1>4. a \in Nat /\ a > 0 /\ a <= dealt.chips[sb] /\ a = Min({chips[sb], SmallBlind})
  <2>1. dealt.chips[sb] = chips[sb] /\ chips[sb] \in Nat /\ SmallBlind \in Nat /\ SmallBlind > 0
    BY <1>1, <1>2, BlindsAssumption
  <2>2. QED BY <1>1, <2>1, BlindIs
<1> HIDE DEF a, sb, bb, S
<1>5. /\ small \in GameStates /\ Seated(small) /\ SameHand(small, dealt)
      /\ small.street = "PREFLOP"
      /\ small.investedThisHand = [zeros EXCEPT ![sb] = @ + a]
      /\ small.chips = [chips EXCEPT ![sb] = @ - a]
      /\ small.hasActedThisStreet = dealt.hasActedThisStreet
  <2>1. PaidIn(small, dealt, sb, a)
    BY <1>1, <1>2, <1>4, InvestedSeated
  <2> HIDE DEF small
  <2>2. QED BY <1>2, <2>1 DEF PaidIn
<1> HIDE DEF small
<1>6. b \in Nat /\ b <= small.chips[bb] /\ b = Min({chips[bb], BigBlind})
  <2>1. small.chips[bb] = chips[bb] /\ chips[bb] \in Nat /\ BigBlind \in Nat
    BY <1>1, <1>5, BlindsAssumption
  <2>2. QED BY <2>1, BlindIs
<1> HIDE DEF b
<1>7. /\ posted \in GameStates /\ Seated(posted) /\ SameHand(posted, small)
      /\ posted.street = "PREFLOP"
      /\ posted.investedThisHand = [small.investedThisHand EXCEPT ![bb] = @ + b]
      /\ posted.hasActedThisStreet = small.hasActedThisStreet
  <2>1. PaidIn(posted, small, bb, b)
    BY <1>1, <1>5, <1>6, InvestedSeated
  <2> HIDE DEF posted
  <2>2. QED BY <1>5, <2>1 DEF PaidIn
<1> HIDE DEF posted
<1>8. /\ Seated(st) /\ st.street = "PREFLOP" /\ st.startHandChips = chips
      /\ st.smallBlindSeat = sb /\ st.bigBlindSeat = bb
      /\ st.investedThisHand = posted.investedThisHand
      /\ st.hasActedThisStreet = posted.hasActedThisStreet
  <2>1. /\ st.chips = posted.chips /\ st.playerStatus = posted.playerStatus
        /\ st.startHandChips = posted.startHandChips /\ st.street = posted.street
        /\ st.smallBlindSeat = posted.smallBlindSeat /\ st.bigBlindSeat = posted.bigBlindSeat
        /\ st.investedThisHand = posted.investedThisHand
        /\ st.hasActedThisStreet = posted.hasActedThisStreet
    BY <1>7 DEF GameStates
  <2> HIDE DEF st
  <2>2. QED BY <1>2, <1>5, <1>7, <2>1 DEF Seated, SameHand
<1>9. \A s \in Seats : st.investedThisHand[s] = IF s = sb THEN a ELSE IF s = bb THEN b ELSE 0
  <2> HIDE DEF st
  <2>1. \A s \in Seats : zeros[s] = 0
    OBVIOUS
  <2>2. \A s \in Seats : small.investedThisHand[s] = IF s = sb THEN a ELSE 0
    BY <1>4, <1>5, <2>1
  <2>3. posted.investedThisHand[bb] = b
    BY <1>1, <1>5, <1>6, <1>7, <2>2
  <2>4. QED BY <1>1, <1>5, <1>7, <1>8, <2>2, <2>3
<1> HIDE DEF st
<1>10. DealtIn(st)
  BY <1>1, <1>4, <1>8, <1>9 DEF DealtIn
<1>11. \A s \in Seats : st.investedThisHand[s] = Posted(st, s)
  BY <1>1, <1>4, <1>6, <1>8, <1>9 DEF Posted
<1>12. \A s \in Seats : ~st.hasActedThisStreet[s]
  BY <1>2, <1>5, <1>7, <1>8
<1>13. QED BY <1>3, <1>8, <1>10, <1>11, <1>12

\* While nobody has acted the hand is over or stays before the flop: somebody has to act.
LEMMA NobodyActedYet ==
  ASSUME NEW st, RoundInv(st), \A s \in Seats : ~st.hasActedThisStreet[s], NEW from,
         NEW r \in NormalizeAfterAction(st, from, Ranks)
  PROVE  r.status = "HAND_FINISHED" \/ r.street = st.street
<1> DEFINE turned == [st EXCEPT !.currentTurnSeat = FirstActionableSeatAfter(st, from)]
<1>1. st \in GameStates
  BY DEF RoundInv
<1>2. AllContendersAllIn(st) \/ ~BettingRoundComplete(st)
  <2> SUFFICES ASSUME ~AllContendersAllIn(st) PROVE ~BettingRoundComplete(st)
    OBVIOUS
  <2>1. PICK s \in Contenders(st) : st.playerStatus[s] # "ALL_IN" /\ st.chips[s] # 0
    BY DEF AllContendersAllIn
  <2>2. s \in Seats /\ CanStillAct(st, s)
    BY <1>1, <2>1 DEF Contenders, IsContender, CanStillAct, GameStates, PlayerStatuses
  <2>3. QED BY <2>2 DEF BettingRoundComplete
<1>3. turned.street = st.street
  BY <1>1 DEF GameStates
<1> HIDE DEF turned
<1>4. \/ \E s : r = FinishByFold(st, s)
      \/ \E hands : r = FinishByShowdown(st, hands)
      \/ r = turned
  BY <1>2 DEF NormalizeAfterAction, turned
<1>5. [st EXCEPT !.boardCards = 5] \in GameStates
  BY <1>1 DEF GameStates
<1>6. \A g \in GameStates : \A won : Finish(g, won).status = "HAND_FINISHED"
  BY FinishSettles
<1>7. (\E s : r = FinishByFold(st, s)) => r.status = "HAND_FINISHED"
  BY <1>1, <1>6 DEF FinishByFold
<1>8. (\E hands : r = FinishByShowdown(st, hands)) => r.status = "HAND_FINISHED"
  BY <1>5, <1>6 DEF FinishByShowdown
<1>9. QED BY <1>3, <1>4, <1>7, <1>8

-----------------------------------------------------------------------------
(* The record of the hand *)

Voluntary(rec, s) == rec.preflop[s] \cap VoluntaryActionTypes # {}

\* A seat took an action of its own before the flop if and only if it paid more than it posted;
\* later actions only add to what it paid.
CountsVoluntary(rec, st) ==
  \A s \in Seats :
    /\ Voluntary(rec, s) => rec.paid[s] > Posted(st, s)
    /\ st.street = "PREFLOP" /\ ~Voluntary(rec, s) => rec.paid[s] = Posted(st, s)

\* The rows of a hand that is played, ...
PlayedRows(rec, st) ==
  /\ rec.status = "PLAYING" /\ DealtIn(st)
  /\ rec.deals = 3..st.boardCards
  /\ \A s \in Seats : rec.wins[s] = 0 /\ ~rec.players[s].showdown

\* ... and of one that is over.
FinishedRows(rec, st) ==
  /\ rec.status = "FINISHED"
  /\ \A s \in Seats :
       /\ rec.players[s].netResult = rec.wins[s] - rec.paid[s]
       /\ rec.wins[s] > 0 <=> rec.players[s].finalStatus = "WINNER"
       /\ rec.wins[s] > 0 =>
            s \in Contenders(st) /\ (~rec.players[s].showdown => ~AtShowdown(st))
       /\ rec.players[s].showdown <=>
            /\ AtShowdown(st) /\ st.playerStatus[s] # "FOLDED"
            /\ \E w \in Seats : rec.wins[w] > 0

RowsInv(rec, st) ==
  /\ rec \in Records
  /\ rec.paid = st.investedThisHand
  /\ CountsVoluntary(rec, st)
  /\ st.status = "PLAYING" => PlayedRows(rec, st)
  /\ st.status # "PLAYING" => FinishedRows(rec, st)

HistoryInv == IInv /\ RowsInv(record, game)

\* What is recorded of a hand when it ends.
LEMMA FinishedHandRows ==
  ASSUME NEW rec \in Records, NEW st, GameInv(st), st.status = "HAND_FINISHED", PaysRightly(st),
         rec.paid = st.investedThisHand, CountsVoluntary(rec, st)
  PROVE  RowsInv(PersistFinishedHand(rec, st), st)
<1> DEFINE rows == [ s \in Seats |-> HandPlayerResult(st, s) ]
           r == PersistFinishedHand(rec, st)
<1>1. \A s \in Seats : /\ st.chips[s] \in Nat /\ st.startHandChips[s] \in Nat
                       /\ st.investedThisHand[s] \in Nat /\ st.won[s] \in Nat
                       /\ st.playerStatus[s] \in PlayerStatuses
                       /\ st.chips[s] + st.investedThisHand[s] = st.startHandChips[s] + st.won[s]
  BY DEF GameInv, GameStates
<1>2. \A s \in Seats :
        /\ rows[s].netResult = st.chips[s] - st.startHandChips[s]
        /\ rows[s].finalStatus = FinalStatus(st, s)
        /\ rows[s].showdown = (AtShowdown(st) /\ st.playerStatus[s] # "FOLDED")
  BY DEF HandPlayerResult
<1>3. \A s \in Seats : FinalStatus(st, s) \in FinalStatuses
                       /\ (st.won[s] > 0 <=> FinalStatus(st, s) = "WINNER")
  BY <1>1 DEF FinalStatus, FinalStatuses, PlayerStatuses
<1>4. rows \in [Seats -> HandPlayer]
  <2> SUFFICES ASSUME NEW s \in Seats PROVE HandPlayerResult(st, s) \in HandPlayer
    OBVIOUS
  <2>1. st.chips[s] - st.startHandChips[s] \in Int /\ st.investedThisHand[s] \in Nat
    BY <1>1
  <2>2. (AtShowdown(st) /\ st.playerStatus[s] # "FOLDED") \in BOOLEAN
    OBVIOUS
  <2>3. QED BY <1>3, <2>1, <2>2 DEF HandPlayerResult, HandPlayer
<1>5. st.won \in [Seats -> Nat]
  BY DEF GameInv, GameStates
<1> HIDE DEF rows
<1>6. r = [rec EXCEPT !.status = "FINISHED", !.wins = st.won, !.players = rows]
  BY DEF PersistFinishedHand, FinishedSystemActions, rows
<1> HIDE DEF r
<1>7. /\ r \in Records /\ r.status = "FINISHED" /\ r.wins = st.won /\ r.players = rows
      /\ r.paid = rec.paid /\ r.preflop = rec.preflop
  BY <1>4, <1>5, <1>6 DEF Records
<1>8. CountsVoluntary(r, st)
  BY <1>7 DEF CountsVoluntary, Voluntary
<1>9. FinishedRows(r, st)
  <2>1. \A s \in Seats : r.players[s].netResult = r.wins[s] - r.paid[s]
    BY <1>1, <1>2, <1>7
  <2>2. \A s \in Seats : r.wins[s] > 0 <=> r.players[s].finalStatus = "WINNER"
    BY <1>2, <1>3, <1>7
  <2>3. ASSUME NEW s \in Seats, r.wins[s] > 0
        PROVE  s \in Contenders(st) /\ (~r.players[s].showdown => ~AtShowdown(st))
    <3>1. s \in Contenders(st)
      BY <1>7, <2>3 DEF PaysRightly
    <3>2. st.playerStatus[s] # "FOLDED"
      BY <3>1 DEF Contenders, IsContender
    <3>3. QED BY <1>2, <1>7, <3>1, <3>2
  <2>4. ASSUME NEW s \in Seats
        PROVE  r.players[s].showdown <=>
                 /\ AtShowdown(st) /\ st.playerStatus[s] # "FOLDED"
                 /\ \E w \in Seats : r.wins[w] > 0
    BY <1>2, <1>7, <2>4 DEF PaysRightly
  <2>5. QED BY <1>7, <2>1, <2>2, <2>3, <2>4 DEF FinishedRows
<1>10. QED BY <1>7, <1>8, <1>9 DEF RowsInv, r

\* What is recorded when the room ends while a hand is played.
LEMMA AbortedHandRows ==
  ASSUME NEW rec, NEW st, GameInv(st), st.status = "PLAYING", RowsInv(rec, st),
         NEW over, over.status = "ROOM_FINISHED", SameHand(over, st), over.street = st.street,
         over.investedThisHand = st.investedThisHand
  PROVE  RowsInv(PersistAbortedHand(rec, st), over)
<1> DEFINE rows == [ s \in Seats |-> [ invested |-> st.investedThisHand[s],
                                       netResult |-> st.chips[s] - st.startHandChips[s],
                                       finalStatus |-> "ROOM_ENDED", showdown |-> FALSE ] ]
           r == PersistAbortedHand(rec, st)
<1>1. \A s \in Seats : /\ st.chips[s] \in Nat /\ st.startHandChips[s] \in Nat
                       /\ st.investedThisHand[s] \in Nat
                       /\ st.chips[s] + st.investedThisHand[s] = st.startHandChips[s]
  BY DEF GameInv, RoundInv, GameStates
<1>2. rows \in [Seats -> HandPlayer]
  <2> SUFFICES ASSUME NEW s \in Seats PROVE rows[s] \in HandPlayer
    OBVIOUS
  <2>1. st.chips[s] - st.startHandChips[s] \in Int /\ st.investedThisHand[s] \in Nat
    BY <1>1
  <2>2. QED BY <2>1 DEF HandPlayer, FinalStatuses
<1>3. \A s \in Seats : /\ rows[s].netResult = st.chips[s] - st.startHandChips[s]
                       /\ rows[s].finalStatus = "ROOM_ENDED" /\ ~rows[s].showdown
  OBVIOUS
<1> HIDE DEF rows
<1>4. rec \in Records /\ PlayedRows(rec, st) /\ rec.paid = st.investedThisHand
  BY DEF RowsInv
<1>5. r = [rec EXCEPT !.status = "FINISHED", !.players = rows]
  BY DEF PersistAbortedHand, rows
<1> HIDE DEF r
<1>6. /\ r \in Records /\ r.status = "FINISHED" /\ r.wins = rec.wins /\ r.players = rows
      /\ r.paid = rec.paid /\ r.preflop = rec.preflop
  BY <1>2, <1>4, <1>5 DEF Records
<1>7. CountsVoluntary(r, over)
  <2>1. CountsVoluntary(rec, st)
    BY DEF RowsInv
  <2>2. \A s \in Seats : Posted(over, s) = Posted(st, s)
    BY DEF Posted, SameHand
  <2>3. QED BY <1>6, <2>1, <2>2 DEF CountsVoluntary, Voluntary
<1>8. FinishedRows(r, over)
  <2>1. \A s \in Seats : r.wins[s] = 0
    BY <1>4, <1>6 DEF PlayedRows
  <2>2. \A s \in Seats : r.players[s].netResult = r.wins[s] - r.paid[s]
    BY <1>1, <1>3, <1>4, <1>6, <2>1
  <2>3. QED BY <1>3, <1>6, <2>1, <2>2 DEF FinishedRows
<1>9. QED BY <1>4, <1>6, <1>7, <1>8 DEF RowsInv, r

\* The record of a hand that has just been dealt.
LEMMA CreatedHandRows ==
  ASSUME NEW chips \in [Seats -> Nat], CanStartHand(chips), NEW dealerSeat \in Seats,
         NEW r \in InitialGameStates(chips, dealerSeat, Ranks)
  PROVE  RowsInv(CreatedHand(r), r)
<1> DEFINE S == Funded(chips)
           dealer == NormalizeDealerSeat(dealerSeat, S)
           posted == BlindsPosted(chips, dealer)
           new == [ status |-> "PLAYING",
                    players |-> [ s \in Seats |->
                      [ invested |-> 0, netResult |-> 0, finalStatus |-> r.playerStatus[s],
                        showdown |-> FALSE ] ],
                    paid |-> [ s \in Seats |-> Posted(r, s) ],
                    preflop |-> [ s \in Seats |-> Blinds(r, s) ],
                    deals |-> {}, wins |-> [ s \in Seats |-> 0 ] ]
<1>1. GameInv(r) /\ r.status \in {"PLAYING", "HAND_FINISHED"}
  BY InitialGame
<1>2. /\ SettledFrom(r, posted) /\ posted.street = "PREFLOP"
      /\ r.status = "HAND_FINISHED" \/ r.street = "PREFLOP"
      /\ \A s \in Seats : posted.investedThisHand[s] = Posted(posted, s)
  <2>1. S \in SUBSET Seats /\ S # {}
    BY FS_EmptySet DEF CanStartHand, Funded
  <2>2. dealer \in S
    <3>1. dealerSeat \in Nat
      BY SeatsAssumption
    <3>2. SeatAfter(S, dealerSeat) \in S
      BY <2>1, <3>1, SeatAfterIn
    <3>3. QED BY <3>2 DEF NormalizeDealerSeat
  <2> HIDE DEF dealer
  <2>3. /\ RoundInv(posted) /\ DealtIn(posted) /\ posted.street = "PREFLOP"
        /\ \A s \in Seats : posted.investedThisHand[s] = Posted(posted, s)
        /\ \A s \in Seats : ~posted.hasActedThisStreet[s]
    BY <2>2, BlindsRound, BlindsArePosted
  <2>4. r \in NormalizeAfterAction(posted, posted.bigBlindSeat, Ranks)
    BY DEF InitialGameStates, dealer
  <2> HIDE DEF posted
  <2>5. QED BY <2>3, <2>4, NormalizedSettles, NobodyActedYet
<1> HIDE DEF posted
<1>3. r.investedThisHand = [ s \in Seats |-> Posted(r, s) ]
  <2>1. r.investedThisHand \in [Seats -> Nat]
    BY <1>1 DEF GameInv, GameStates
  <2>2. \A s \in Seats : r.investedThisHand[s] = Posted(r, s)
    BY <1>2 DEF SettledFrom, SameHand, Posted
  <2>3. QED BY <2>1, <2>2
<1>4. new \in Records
  <2> DEFINE players == [ s \in Seats |->
                          [ invested |-> 0, netResult |-> 0, finalStatus |-> r.playerStatus[s],
                            showdown |-> FALSE ] ]
             preflop == [ s \in Seats |-> Blinds(r, s) ]
             wins == [ s \in Seats |-> 0 ]
  <2>1. players \in [Seats -> HandPlayer]
    <3>1. \A s \in Seats : r.playerStatus[s] \in FinalStatuses
      BY <1>1 DEF GameInv, GameStates, FinalStatuses
    <3>2. QED BY <3>1 DEF HandPlayer
  <2>2. preflop \in [Seats -> SUBSET ActionTypes]
    BY DEF Blinds, ActionTypes
  <2>3. wins \in [Seats -> Nat]
    OBVIOUS
  <2>4. r.investedThisHand \in [Seats -> Nat]
    BY <1>1 DEF GameInv, GameStates
  <2>5. new = [ status |-> "PLAYING", players |-> players, paid |-> r.investedThisHand,
                preflop |-> preflop, deals |-> {}, wins |-> wins ]
    BY <1>3
  <2> HIDE DEF players, preflop, wins, new
  <2>6. QED BY <2>1, <2>2, <2>3, <2>4, <2>5 DEF Records
<1>5. /\ new.paid = r.investedThisHand /\ new.status = "PLAYING" /\ new.deals = {}
      /\ \A s \in Seats : /\ new.paid[s] = Posted(r, s) /\ new.preflop[s] = Blinds(r, s)
                          /\ new.wins[s] = 0 /\ ~new.players[s].showdown
  BY <1>3
<1>6. CreatedHand(r) = IfFinished(new, r)
  BY DEF CreatedHand
<1> HIDE DEF new
<1>7. CountsVoluntary(new, r)
  <2>1. \A s \in Seats : ~Voluntary(new, s)
    BY <1>5 DEF Voluntary, Blinds, VoluntaryActionTypes
  <2>2. QED BY <1>5, <2>1 DEF CountsVoluntary
<1>8. CASE r.status = "HAND_FINISHED"
  <2>1. PaysRightly(r)
    BY <1>2, <1>8 DEF SettledFrom
  <2>2. RowsInv(PersistFinishedHand(new, r), r)
    BY <1>1, <1>4, <1>5, <1>7, <1>8, <2>1, FinishedHandRows
  <2>3. QED BY <1>6, <1>8, <2>2 DEF IfFinished
<1>9. CASE r.status = "PLAYING"
  <2>1. DealtIn(r) /\ r.street = "PREFLOP"
    BY <1>2, <1>9 DEF SettledFrom
  <2>2. r.boardCards = 0
    BY <1>1, <1>9, <2>1 DEF GameInv, RoundInv, BoardOf
  <2>3. new.deals = 3..r.boardCards
    BY <1>5, <2>2
  <2>4. PlayedRows(new, r)
    BY <1>5, <2>1, <2>3 DEF PlayedRows
  <2>5. CreatedHand(r) = new
    BY <1>6, <1>9 DEF IfFinished
  <2>6. QED BY <1>4, <1>5, <1>7, <1>9, <2>4, <2>5 DEF RowsInv
<1>10. QED BY <1>1, <1>8, <1>9

LEMMA PostedType ==
  ASSUME NEW st \in GameStates, NEW s \in Seats
  PROVE  Posted(st, s) \in Nat
<1>1. st.startHandChips[s] \in Nat /\ SmallBlind \in Nat /\ BigBlind \in Nat
  BY BlindsAssumption DEF GameStates
<1>2. Min({st.startHandChips[s], SmallBlind}) \in Nat
      /\ Min({st.startHandChips[s], BigBlind}) \in Nat
  BY <1>1, BlindIs
<1>3. CASE s = st.smallBlindSeat /\ s # st.bigBlindSeat
  BY <1>2, <1>3 DEF Posted
<1>4. CASE s # st.smallBlindSeat
  BY <1>2, <1>4 DEF Posted
<1>5. CASE s = st.smallBlindSeat /\ s = st.bigBlindSeat
  BY <1>2, <1>5 DEF Posted
<1>6. QED BY <1>3, <1>4, <1>5

\* What an action adds to the record.
LEMMA ActionRows ==
  ASSUME HistoryInv, Playing, NEW s \in Seats, NEW type \in ActionTypes, NEW amount \in Nat,
         type \in VoluntaryActionTypes <=> amount > 0,
         NEW mid, RoundInv(mid), ActedOn(mid, game, s, amount),
         game' \in NormalizeAfterAction(mid, s, Ranks), Persists(s, type, amount)
  PROVE  RowsInv(record', game')
<1> DEFINE acted == WithAction(s, type, amount)
           dealt == WithDeal(acted)
           g == game'
<1>0. game \in GameStates /\ RowsInv(record, game) /\ PlayedRows(record, game) /\ RoundInv(game)
  BY DEF HistoryInv, IInv, GameInv, RowsInv, Playing
<1>1. GameInv(g) /\ SettledFrom(g, mid) /\ DealtIn(mid)
      /\ g \in GameStates /\ g.status \in {"PLAYING", "HAND_FINISHED"}
  BY NormalizeGame, NormalizedSettles, NormalizedStatus DEF ActedOn, GameInv
<1> HIDE DEF g
<1>2. /\ SameHand(g, game)
      /\ g.investedThisHand = [game.investedThisHand EXCEPT ![s] = @ + amount]
      /\ g.street = "PREFLOP" => game.street = "PREFLOP"
      /\ g.status = "PLAYING" => g.street \in {game.street, NextStreet[game.street]}
  <2>1. mid.street = game.street /\ game.street \in BettingStreets
    BY <1>0 DEF ActedOn, RoundInv
  <2>2. SameHand(g, game)
        /\ g.investedThisHand = [game.investedThisHand EXCEPT ![s] = @ + amount]
    BY <1>1 DEF SettledFrom, ActedOn, SameHand
  <2>3. /\ g.status = "PLAYING" => g.street \in {game.street, NextStreet[game.street]}
        /\ g.status # "PLAYING" => g.street = "SHOWDOWN"
    BY <1>1, <2>1 DEF SettledFrom
  <2>4. g.street = "PREFLOP" => game.street = "PREFLOP"
    BY <1>1, <2>1, <2>3 DEF NextStreet, BettingStreets
  <2>5. QED BY <2>2, <2>3, <2>4
<1>3. /\ acted \in Records /\ acted.paid = g.investedThisHand
      /\ acted.status = record.status /\ acted.players = record.players
      /\ acted.wins = record.wins /\ acted.deals = record.deals
      /\ acted.preflop = IF game.street = "PREFLOP"
                         THEN [record.preflop EXCEPT ![s] = @ \cup {type}] ELSE record.preflop
  <2>1. record \in Records /\ record.paid = game.investedThisHand
    BY <1>0 DEF RowsInv
  <2>2. game.investedThisHand \in [Seats -> Nat] /\ game.investedThisHand[s] + amount \in Nat
    BY <1>0 DEF GameStates
  <2>3. record.preflop \in [Seats -> SUBSET ActionTypes]
    BY <2>1 DEF Records
  <2>4. acted = [record EXCEPT !.paid = [record.paid EXCEPT ![s] = @ + amount],
                               !.preflop = IF game.street = "PREFLOP"
                                 THEN [record.preflop EXCEPT ![s] = @ \cup {type}]
                                 ELSE record.preflop]
    BY <2>1, <2>3 DEF WithAction, Records
  <2> DEFINE paid == [record.paid EXCEPT ![s] = @ + amount]
             preflop == IF game.street = "PREFLOP"
                        THEN [record.preflop EXCEPT ![s] = @ \cup {type}] ELSE record.preflop
  <2>5. paid \in [Seats -> Nat] /\ paid = g.investedThisHand
    BY <1>2, <2>1, <2>2
  <2>6. preflop \in [Seats -> SUBSET ActionTypes]
    BY <2>3
  <2> HIDE DEF paid, preflop, acted
  <2>7. acted = [record EXCEPT !.paid = paid, !.preflop = preflop]
    BY <2>4 DEF paid, preflop
  <2>8. /\ acted \in Records /\ acted.paid = paid /\ acted.preflop = preflop
        /\ acted.status = record.status /\ acted.players = record.players
        /\ acted.wins = record.wins /\ acted.deals = record.deals
    BY <2>1, <2>5, <2>6, <2>7 DEF Records
  <2>9. QED BY <2>5, <2>8 DEF preflop
<1> HIDE DEF acted
<1>4. /\ dealt \in Records /\ dealt.paid = acted.paid /\ dealt.status = acted.status
      /\ dealt.players = acted.players /\ dealt.wins = acted.wins
      /\ dealt.preflop = acted.preflop
      /\ g.status = "PLAYING" => dealt.deals = 3..g.boardCards
  <2>1. record.deals = 3..game.boardCards /\ game.boardCards = BoardOf[game.street]
        /\ game.street \in BettingStreets
    BY <1>0 DEF PlayedRows, RoundInv
  <2>2. g.status = "PLAYING" => g.boardCards = BoardOf[g.street] /\ g.street \in BettingStreets
    BY <1>1 DEF GameInv, RoundInv
  <2>3. CASE g.street = game.street \/ g.status = "HAND_FINISHED"
    <3>1. dealt = acted
      BY <2>3 DEF WithDeal, g
    <3>2. g.status = "PLAYING" => dealt.deals = 3..g.boardCards
      BY <1>3, <2>1, <2>2, <2>3, <3>1
    <3>3. QED BY <1>3, <3>1, <3>2
  <2>4. CASE ~(g.street = game.street \/ g.status = "HAND_FINISHED")
    <3>1. dealt = [acted EXCEPT !.deals = acted.deals \cup {g.boardCards}]
      BY <1>3, <2>4 DEF WithDeal, g, Records
    <3>2. g.status = "PLAYING" /\ g.street = NextStreet[game.street]
      BY <1>1, <1>2, <2>4
    <3>3. /\ game.street = "PREFLOP" => game.boardCards = 0 /\ g.boardCards = 3
          /\ game.street = "FLOP" => game.boardCards = 3 /\ g.boardCards = 4
          /\ game.street = "TURN" => game.boardCards = 4 /\ g.boardCards = 5
          /\ game.street \in {"PREFLOP", "FLOP", "TURN"}
      BY <2>1, <2>2, <3>2 DEF NextStreet, BoardOf, BettingStreets
    <3>4. acted.deals = 3..game.boardCards
      BY <1>3, <2>1
    <3>5. acted.deals \cup {g.boardCards} = 3..g.boardCards
          /\ 3..g.boardCards \in SUBSET (3..5)
      <4>1. CASE game.boardCards = 0 /\ g.boardCards = 3
        BY <3>4, <4>1
      <4>2. CASE game.boardCards = 3 /\ g.boardCards = 4
        BY <3>4, <4>2
      <4>3. CASE game.boardCards = 4 /\ g.boardCards = 5
        BY <3>4, <4>3
      <4>4. QED BY <3>3, <4>1, <4>2, <4>3
    <3> HIDE DEF dealt
    <3>6. /\ dealt \in Records /\ dealt.paid = acted.paid /\ dealt.status = acted.status
          /\ dealt.players = acted.players /\ dealt.wins = acted.wins
          /\ dealt.preflop = acted.preflop /\ dealt.deals = 3..g.boardCards
      BY <1>3, <3>1, <3>5 DEF Records
    <3>7. QED BY <3>6
  <2>5. QED BY <2>3, <2>4
<1> HIDE DEF dealt
<1>5. CountsVoluntary(dealt, g)
  <2> SUFFICES ASSUME NEW t \in Seats
               PROVE  /\ Voluntary(dealt, t) => dealt.paid[t] > Posted(g, t)
                      /\ g.street = "PREFLOP" /\ ~Voluntary(dealt, t) =>
                           dealt.paid[t] = Posted(g, t)
    BY DEF CountsVoluntary
  <2>1. Posted(g, t) = Posted(game, t) /\ Posted(game, t) \in Nat
    BY <1>0, <1>2, PostedType DEF Posted, SameHand
  <2>2. /\ Voluntary(record, t) => record.paid[t] > Posted(game, t)
        /\ game.street = "PREFLOP" /\ ~Voluntary(record, t) => record.paid[t] = Posted(game, t)
        /\ record.paid = game.investedThisHand /\ record.paid[t] \in Nat
    BY <1>0 DEF RowsInv, CountsVoluntary, GameStates
  <2>3. /\ dealt.paid[t] = IF t = s THEN record.paid[t] + amount ELSE record.paid[t]
    <3>1. game.investedThisHand \in [Seats -> Nat]
      BY <1>0 DEF GameStates
    <3>2. QED BY <1>2, <1>3, <1>4, <2>2, <3>1
  <2>4. Voluntary(dealt, t) <=> \/ Voluntary(record, t)
                                \/ t = s /\ game.street = "PREFLOP" /\ type \in VoluntaryActionTypes
    <3>1. record.preflop \in [Seats -> SUBSET ActionTypes]
      BY <1>0 DEF RowsInv, Records
    <3>2. dealt.preflop[t] = IF t = s /\ game.street = "PREFLOP"
                             THEN record.preflop[t] \cup {type} ELSE record.preflop[t]
      BY <1>3, <1>4, <3>1
    <3>3. QED BY <3>2 DEF Voluntary
  <2>5. QED BY <1>2, <2>1, <2>2, <2>3, <2>4
<1>6. record' = IfFinished(dealt, g)
  BY DEF Persists, dealt, acted, g
<1>7. CASE g.status = "HAND_FINISHED"
  <2>1. PaysRightly(g)
    BY <1>1, <1>7 DEF SettledFrom
  <2>2. RowsInv(PersistFinishedHand(dealt, g), g)
    BY <1>1, <1>3, <1>4, <1>5, <1>7, <2>1, FinishedHandRows
  <2>3. QED BY <1>6, <1>7, <2>2 DEF IfFinished, g
<1>8. CASE g.status = "PLAYING"
  <2>1. record' = dealt
    BY <1>6, <1>8 DEF IfFinished
  <2>2. PlayedRows(dealt, g)
    <3>1. DealtIn(g)
      BY <1>1, <1>8 DEF SettledFrom
    <3>2. /\ record.status = "PLAYING"
          /\ \A t \in Seats : record.wins[t] = 0 /\ ~record.players[t].showdown
      BY <1>0 DEF PlayedRows
    <3>3. QED BY <1>3, <1>4, <1>8, <3>1, <3>2 DEF PlayedRows
  <2>3. RowsInv(dealt, g)
    BY <1>3, <1>4, <1>5, <1>8, <2>2 DEF RowsInv
  <2>4. QED BY <2>1, <2>3 DEF g
<1>9. QED BY <1>1, <1>7, <1>8

-----------------------------------------------------------------------------
(* The record is kept *)

LEMMA HistoryInitInv == HistoryInit => HistoryInv
<1> SUFFICES ASSUME HistoryInit PROVE HistoryInv
  OBVIOUS
<1>1. Init /\ record = CreatedHand(game)
  BY DEF HistoryInit
<1>2. PICK chips \in [Seats -> BuyIns] :
        CanStartHand(chips) /\ game \in InitialGameStates(chips, Min(Funded(chips)), Ranks)
  BY <1>1 DEF Init
<1>3. chips \in [Seats -> Nat]
  BY <1>2, BuyInsAssumption
<1>4. Min(Funded(chips)) \in Seats
  <2>1. Funded(chips) \in SUBSET Seats /\ Funded(chips) # {}
    BY <1>2, FS_EmptySet DEF CanStartHand, Funded
  <2>2. Funded(chips) \in SUBSET Nat
    BY <2>1, SeatsAssumption
  <2>3. Min(Funded(chips)) \in Funded(chips)
    BY <2>1, <2>2, MinOfNats
  <2>4. QED BY <2>1, <2>3
<1>5. RowsInv(CreatedHand(game), game)
  BY <1>2, <1>3, <1>4, CreatedHandRows
<1>6. QED BY <1>1, <1>5, InitInv DEF HistoryInv

\* Each of the six actions is one of the table's, and its row says what it paid.
LEMMA ActionIsKeptInv ==
  ASSUME HistoryInv, NEW s \in Seats, ActionIsKept(s)
  PROVE  HistoryInv'
<1>1. game \in GameStates /\ RowsInv(record, game)
  BY DEF HistoryInv, IInv, GameInv
<1>2. ASSUME MayAct(game, s) PROVE Playing /\ RoundInv(game) /\ DealtIn(game)
  BY <1>1, <1>2 DEF MayAct, Playing, HistoryInv, IInv, GameInv, RowsInv, PlayedRows
<1>3. ASSUME NEW type \in ActionTypes, NEW amount \in Nat,
             type \in VoluntaryActionTypes <=> amount > 0,
             NEW mid, RoundInv(mid), ActedOn(mid, game, s, amount),
             MayAct(game, s), Becomes(mid, s), Persists(s, type, amount), Act(s)
      PROVE  HistoryInv'
  <2>1. IInv'
    BY <1>3, NextInv DEF Next, HistoryInv
  <2>2. RowsInv(record', game')
    BY <1>2, <1>3, ActionRows DEF Becomes
  <2>3. QED BY <2>1, <2>2 DEF HistoryInv
<1>4. CASE FoldIsKept(s)
  <2>1. MayAct(game, s) /\ Becomes(Folded(game, s), s) /\ Persists(s, "FOLD", 0) /\ Act(s)
    BY <1>4 DEF FoldIsKept, Fold, Act
  <2>2. RoundInv(Folded(game, s)) /\ ActedOn(Folded(game, s), game, s, 0)
    BY <1>1, <1>2, <2>1, FoldedRound, FoldActs
  <2>3. "FOLD" \in ActionTypes /\ "FOLD" \notin VoluntaryActionTypes /\ 0 \in Nat /\ ~(0 > 0)
    BY DEF ActionTypes, VoluntaryActionTypes
  <2>4. QED BY <1>3, <2>1, <2>2, <2>3
<1>5. CASE CheckIsKept(s)
  <2>1. MayAct(game, s) /\ Becomes(Checked(game, s), s) /\ Persists(s, "CHECK", 0) /\ Act(s)
        /\ MayCheck(game, s)
    BY <1>5 DEF CheckIsKept, Check, MayCheck, Act
  <2>2. RoundInv(Checked(game, s)) /\ ActedOn(Checked(game, s), game, s, 0)
    BY <1>1, <1>2, <2>1, FoldedRound, FoldActs
  <2>3. "CHECK" \in ActionTypes /\ "CHECK" \notin VoluntaryActionTypes /\ 0 \in Nat /\ ~(0 > 0)
    BY DEF ActionTypes, VoluntaryActionTypes
  <2>4. QED BY <1>3, <2>1, <2>2, <2>3
<1>6. CASE CallIsKept(s)
  <2> DEFINE amount == Min({game.chips[s], ToCall(s)})
  <2>1. MayAct(game, s) /\ Becomes(Called(game, s), s) /\ Persists(s, "CALL", amount) /\ Act(s)
        /\ MayCall(game, s)
    BY <1>6 DEF CallIsKept, Call, MayCall, Act
  <2>2. amount \in Nat /\ amount > 0 /\ ActedOn(Called(game, s), game, s, amount)
    BY <1>1, <1>2, <2>1, CallActs DEF ToCall
  <2> HIDE DEF amount
  <2>3. RoundInv(Called(game, s))
    BY <1>2, <2>1, CalledRound
  <2>4. "CALL" \in ActionTypes /\ "CALL" \in VoluntaryActionTypes
    BY DEF ActionTypes, VoluntaryActionTypes
  <2>5. QED BY <1>3, <2>1, <2>2, <2>3, <2>4
<1>7. CASE BetIsKept(s)
  <2>1. PICK amount \in 1..game.chips[s] : Bet(s, amount) /\ Persists(s, "BET", amount)
    BY <1>7, Zenon DEF BetIsKept
  <2>2. amount \in Nat /\ MayAct(game, s) /\ Becomes(BetPlaced(game, s, amount), s) /\ Act(s)
        /\ MayBet(game, s, amount)
    BY <2>1 DEF Bet, MayBet, Act
  <2>3. amount > 0 /\ ActedOn(BetPlaced(game, s, amount), game, s, amount)
    BY <1>1, <1>2, <2>2, BetActs
  <2>4. RoundInv(BetPlaced(game, s, amount))
    BY <1>2, <2>2, BetRound
  <2>5. "BET" \in ActionTypes /\ "BET" \in VoluntaryActionTypes
    BY DEF ActionTypes, VoluntaryActionTypes
  <2>6. QED BY <1>3, <2>1, <2>2, <2>3, <2>4, <2>5
<1>8. CASE RaiseIsKept(s)
  <2>1. PICK raiseTo \in 1..(game.investedThisStreet[s] + game.chips[s]) :
          Raise(s, raiseTo) /\ Persists(s, "RAISE", raiseTo - game.investedThisStreet[s])
    BY <1>8, Zenon DEF RaiseIsKept
  <2> DEFINE amount == raiseTo - game.investedThisStreet[s]
  <2>2. raiseTo \in Nat /\ MayAct(game, s) /\ Becomes(RaisedTo(game, s, raiseTo), s) /\ Act(s)
        /\ MayRaise(game, s, raiseTo)
    BY <2>1 DEF Raise, MayRaise, Act
  <2>3. amount \in Nat /\ amount > 0 /\ ActedOn(RaisedTo(game, s, raiseTo), game, s, amount)
    BY <1>2, <2>2, RaiseActs
  <2>4. Persists(s, "RAISE", amount)
    BY <2>1
  <2> HIDE DEF amount
  <2>5. RoundInv(RaisedTo(game, s, raiseTo))
    BY <1>2, <2>2, RaisedRound
  <2>6. "RAISE" \in ActionTypes /\ "RAISE" \in VoluntaryActionTypes
    BY DEF ActionTypes, VoluntaryActionTypes
  <2>7. QED BY <1>3, <2>2, <2>3, <2>4, <2>5, <2>6
<1>9. CASE AllInIsKept(s)
  <2> DEFINE amount == game.chips[s]
  <2>1. MayAct(game, s) /\ Becomes(WentAllIn(game, s), s) /\ Persists(s, "ALL_IN", amount)
        /\ Act(s)
    BY <1>9 DEF AllInIsKept, AllIn, Act
  <2>2. amount \in Nat /\ amount > 0 /\ ActedOn(WentAllIn(game, s), game, s, amount)
    BY <1>1, <1>2, <2>1, AllInActs
  <2>3. RoundInv(WentAllIn(game, s))
    BY <1>2, <2>1, AllInRound
  <2>4. "ALL_IN" \in ActionTypes /\ "ALL_IN" \in VoluntaryActionTypes
    BY DEF ActionTypes, VoluntaryActionTypes
  <2> HIDE DEF amount
  <2>5. QED BY <1>3, <2>1, <2>2, <2>3, <2>4
<1>10. QED BY <1>4, <1>5, <1>6, <1>7, <1>8, <1>9 DEF ActionIsKept

\* A hand that is over stays as it is when its table goes.
LEMMA RowsOfAClosedTable ==
  ASSUME NEW rec, NEW st, RowsInv(rec, st), st.status # "PLAYING",
         NEW over, over.status # "PLAYING", SameHand(over, st), over.street = st.street,
         over.investedThisHand = st.investedThisHand, over.playerStatus = st.playerStatus
  PROVE  RowsInv(rec, over)
<1>1. Contenders(over) = Contenders(st)
  BY DEF Contenders, IsContender
<1>2. \A s \in Seats : Posted(over, s) = Posted(st, s)
  BY DEF Posted, SameHand
<1>3. CountsVoluntary(rec, over)
  BY <1>2 DEF RowsInv, CountsVoluntary
<1>4. FinishedRows(rec, over)
  BY <1>1 DEF RowsInv, FinishedRows, AtShowdown
<1>5. QED BY <1>3, <1>4 DEF RowsInv

LEMMA HistoryNextInv == HistoryInv /\ [HistoryNext]_historyVars => HistoryInv'
<1> SUFFICES ASSUME HistoryInv, [HistoryNext]_historyVars PROVE HistoryInv'
  OBVIOUS
<1>0. IInv /\ GameInv(game) /\ game \in GameStates /\ RowsInv(record, game)
  BY DEF HistoryInv, IInv, GameInv
<1>1. ASSUME NEW s \in Seats, ActionIsKept(s) PROVE HistoryInv'
  BY <1>1, ActionIsKeptInv
<1>2. CASE NextHandIsKept
  <2> DEFINE dealer == NextDealerSeat(game.chips, game.dealerSeat)
  <2>1. NextHand /\ record' = CreatedHand(game')
    BY <1>2 DEF NextHandIsKept
  <2>2. dealer # NoSeat /\ game' \in InitialGameStates(game.chips, dealer, Ranks)
    BY <2>1 DEF NextHand
  <2>3. game.chips \in [Seats -> Nat] /\ game.dealerSeat \in Seats
    BY <1>0 DEF GameStates
  <2>4. CanStartHand(game.chips) /\ dealer \in Seats
    BY <2>2, <2>3, NextDealer
  <2> HIDE DEF dealer
  <2>5. RowsInv(CreatedHand(game'), game')
    BY <2>2, <2>3, <2>4, CreatedHandRows
  <2>6. IInv'
    BY <1>0, <2>1, NextInv DEF Next
  <2>7. QED BY <2>1, <2>5, <2>6 DEF HistoryInv
<1>3. ASSUME game' = [game EXCEPT !.status = "ROOM_FINISHED", !.currentTurnSeat = NoSeat]
      PROVE  /\ IInv' /\ game'.status = "ROOM_FINISHED"
             /\ SameHand(game', game) /\ game'.street = game.street
             /\ game'.investedThisHand = game.investedThisHand
             /\ game'.playerStatus = game.playerStatus
  <2>1. /\ game' \in GameStates /\ game'.status = "ROOM_FINISHED"
        /\ game'.chips = game.chips /\ game'.investedThisHand = game.investedThisHand
        /\ game'.startHandChips = game.startHandChips /\ game'.won = game.won
        /\ game'.smallBlindSeat = game.smallBlindSeat /\ game'.bigBlindSeat = game.bigBlindSeat
        /\ game'.street = game.street /\ game'.playerStatus = game.playerStatus
    BY <1>0, <1>3 DEF GameStates, GameStatuses
  <2>2. IInv'
    BY <1>0, <2>1 DEF IInv, GameInv
  <2>3. QED BY <2>1, <2>2 DEF SameHand
<1>4. ASSUME game' = [game EXCEPT !.status = "ROOM_FINISHED", !.currentTurnSeat = NoSeat],
             record' = record, ~Playing
      PROVE  HistoryInv'
  <2>1. RowsInv(record, game')
    BY <1>0, <1>3, <1>4, RowsOfAClosedTable DEF Playing
  <2>2. QED BY <1>3, <1>4, <2>1 DEF HistoryInv
<1>5. CASE FinishRoomIsKept
  BY <1>4, <1>5 DEF FinishRoomIsKept, FinishRoom, Playing
<1>6. CASE EndRoom
  <2>1. game' = [game EXCEPT !.status = "ROOM_FINISHED", !.currentTurnSeat = NoSeat]
    BY <1>6 DEF EndRoom
  <2>2. CASE Playing
    <3>1. record' = PersistAbortedHand(record, game)
      BY <1>6, <2>2 DEF EndRoom
    <3>2. RowsInv(PersistAbortedHand(record, game), game')
      BY <1>0, <1>3, <2>1, <2>2, AbortedHandRows DEF Playing
    <3>3. QED BY <1>3, <2>1, <3>1, <3>2 DEF HistoryInv
  <2>3. CASE ~Playing
    BY <1>4, <1>6, <2>1, <2>3 DEF EndRoom
  <2>4. QED BY <2>2, <2>3
<1>7. CASE UNCHANGED historyVars
  <2>1. game' = game /\ record' = record
    BY <1>7 DEF historyVars
  <2>2. IInv'
    BY <1>0, <2>1, NextInv DEF vars
  <2>3. QED BY <1>0, <2>1, <2>2 DEF HistoryInv
<1>8. QED
  BY <1>1, <1>2, <1>5, <1>6, <1>7 DEF HistoryNext

\* Whatever hands are played, however they or the room end, the rows of the hand on the table
\* stay in step with it.
THEOREM HistoryInvariance == HistorySpec => []HistoryInv
BY HistoryInitInv, HistoryNextInv, PTL DEF HistorySpec

-----------------------------------------------------------------------------
(* What is read back of it *)

\* The replay of a hand adds up, whatever was played and also when the room ended during it:
\* its actions paid what the seats have in the pot, and every result is what the WIN rows paid
\* less that (applyGameAction's rows, persistFinishedHand, persistAbortedHand).
THEOREM ReplaysAlwaysAddUp == HistorySpec => []ReplaysAddUp
<1>1. HistoryInv => ReplaysAddUp
  <2> SUFFICES ASSUME HistoryInv PROVE ReplaysAddUp
    OBVIOUS
  <2>1. Playing => record.status = "PLAYING" /\ record.deals = 3..game.boardCards
    BY DEF HistoryInv, RowsInv, PlayedRows, Playing
  <2>2. \A s \in Seats : record.paid[s] = game.investedThisHand[s]
    BY DEF HistoryInv, RowsInv
  <2>3. ~Playing => \A s \in Seats :
          record.players[s].netResult = record.wins[s] - record.paid[s]
    BY DEF HistoryInv, RowsInv, FinishedRows, Playing
  <2>4. QED BY <2>1, <2>2, <2>3 DEF ReplaysAddUp
<1>2. QED BY <1>1, HistoryInvariance, PTL

\* The statistics count what was played: VPIP the seats that paid more than they posted, a win
\* every seat that left with more, and none without a showdown while another could still win
\* (calculatePracticeMetrics).
THEOREM StatisticsAlwaysCount == HistorySpec => []StatisticsCountTheHand
<1>1. HistoryInv => StatisticsCountTheHand
  <2> SUFFICES ASSUME HistoryInv PROVE StatisticsCountTheHand
    OBVIOUS
  <2>1. CountsVoluntary(record, game) /\ record \in Records /\ game \in GameStates
    BY DEF HistoryInv, RowsInv, IInv, GameInv
  <2>2. \A s \in Seats :
          /\ PreflopVoluntary(s) => record.paid[s] > Posted(game, s)
          /\ game.street = "PREFLOP" /\ ~PreflopVoluntary(s) => record.paid[s] = Posted(game, s)
    BY <2>1 DEF CountsVoluntary, Voluntary, PreflopVoluntary
  <2>3. ASSUME NEW s \in PracticeRows
        PROVE  LET m == CalculatePracticeMetrics(s) IN
               /\ m.netResult > 0 => m.win
               /\ m.win /\ ~m.wtsd =>
                    \A t \in Seats \ {s} : game.playerStatus[t] \in {"FOLDED", "OUT"}
    <3> DEFINE m == CalculatePracticeMetrics(s)
    <3>1. s \in Seats /\ record.status = "FINISHED"
      BY <2>3 DEF PracticeRows
    <3>2. FinishedRows(record, game)
      BY <3>1 DEF HistoryInv, RowsInv, PlayedRows
    <3>3. /\ m.netResult = record.players[s].netResult
          /\ m.win <=> record.players[s].finalStatus = "WINNER"
          /\ m.wtsd <=> record.players[s].showdown
      BY DEF CalculatePracticeMetrics
    <3> HIDE DEF m
    <3>4. m.netResult > 0 => m.win
      <4>1. record.wins[s] \in Nat /\ record.paid[s] \in Nat
        BY <2>1, <3>1 DEF Records
      <4>2. record.players[s].netResult = record.wins[s] - record.paid[s]
            /\ (record.wins[s] > 0 <=> record.players[s].finalStatus = "WINNER")
        BY <3>1, <3>2 DEF FinishedRows
      <4>3. record.players[s].netResult > 0 => record.wins[s] > 0
        BY <4>1, <4>2
      <4>4. QED BY <3>3, <4>2, <4>3
    <3>5. ASSUME m.win, ~m.wtsd, NEW t \in Seats \ {s}
          PROVE  game.playerStatus[t] \in {"FOLDED", "OUT"}
      <4>1. s \in Contenders(game) /\ ~AtShowdown(game)
        BY <3>1, <3>2, <3>3, <3>5 DEF FinishedRows
      <4>2. t \notin Contenders(game)
        <5>1. SUFFICES ASSUME t \in Contenders(game) PROVE FALSE
          OBVIOUS
        <5>2. IsFiniteSet(Contenders(game))
          BY SeatsAssumption, FS_Subset DEF Contenders
        <5>3. {s, t} \in SUBSET Contenders(game)
          BY <4>1, <5>1
        <5>4. Cardinality({s, t}) <= Cardinality(Contenders(game))
          BY <5>2, <5>3, FS_Subset
        <5>5. Cardinality({s, t}) = 2
          <6>1. IsFiniteSet({s}) /\ Cardinality({s}) = 1
            BY FS_Singleton
          <6>2. Cardinality({s} \cup {t}) = Cardinality({s}) + 1
            BY <3>5, <6>1, FS_AddElement
          <6>3. {s, t} = {s} \cup {t}
            OBVIOUS
          <6>4. QED BY <6>1, <6>2, <6>3
        <5>6. Cardinality(Contenders(game)) \in Nat
          BY <5>2, FS_CardinalityType
        <5>7. QED BY <4>1, <5>4, <5>5, <5>6 DEF AtShowdown
      <4>3. game.playerStatus[t] \in PlayerStatuses
        BY <2>1 DEF GameStates
      <4>4. QED BY <4>2, <4>3 DEF Contenders, IsContender, PlayerStatuses
    <3>6. QED BY <3>4, <3>5 DEF m
  <2>4. QED BY <2>2, <2>3 DEF StatisticsCountTheHand
<1>2. QED BY <1>1, HistoryInvariance, PTL

\* The replay of a hand shows the cards of a showdown that was held, all of them and no others
\* but the viewer's, and while the hand is played neither the table nor the hand shows another's
\* (getUserGameView, getHand, getHandReplay, getLatestHandReplay).
THEOREM ReplaysAlwaysShowTheShowdown == HistorySpec => []ReplaysShowTheShowdown
<1>1. HistoryInv => ReplaysShowTheShowdown
  <2> SUFFICES ASSUME HistoryInv, NEW v \in Seats
               PROVE  /\ Playing =>
                           UserGameView(v) \cup GetHand(v) \cup GetLatestHandReplay(v) = {v}
                      /\ \A s \in Seats \ {v} : game.playerStatus[s] # "OUT" =>
                           (s \in GetHandReplay(v) <=>
                              /\ AtShowdown(game) /\ s \in Contenders(game)
                              /\ \E w \in Seats : record.wins[w] > 0)
    BY DEF ReplaysShowTheShowdown
  <2>1. Playing => PlayedRows(record, game)
    BY DEF HistoryInv, RowsInv, Playing
  <2>2. ~Playing => FinishedRows(record, game)
    BY DEF HistoryInv, RowsInv, Playing
  <2>3. Playing => UserGameView(v) \cup GetHand(v) \cup GetLatestHandReplay(v) = {v}
    BY <2>1 DEF PlayedRows, UserGameView, PublicGameState, PrivateHandState,
                GetLatestHandReplay, GetHand
  <2>4. ASSUME NEW s \in Seats \ {v}, game.playerStatus[s] # "OUT"
        PROVE  s \in GetHandReplay(v) <=>
                 /\ AtShowdown(game) /\ s \in Contenders(game)
                 /\ \E w \in Seats : record.wins[w] > 0
    <3>1. s \in GetHandReplay(v) <=> record.players[s].showdown
      BY DEF GetHandReplay, HandReplay
    <3>2. s \in Contenders(game) <=> game.playerStatus[s] # "FOLDED"
      <4>1. game.playerStatus[s] \in PlayerStatuses
        BY DEF HistoryInv, IInv, GameInv, GameStates
      <4>2. QED BY <2>4, <4>1 DEF Contenders, IsContender, PlayerStatuses
    <3>3. CASE Playing
      <4>1. ~record.players[s].showdown /\ \A w \in Seats : ~(record.wins[w] > 0)
        BY <2>1, <3>3 DEF PlayedRows
      <4>2. QED BY <3>1, <4>1
    <3>4. CASE ~Playing
      <4>1. record.players[s].showdown <=>
              /\ AtShowdown(game) /\ game.playerStatus[s] # "FOLDED"
              /\ \E w \in Seats : record.wins[w] > 0
        BY <2>2, <3>4 DEF FinishedRows
      <4>2. QED BY <3>1, <3>2, <4>1
    <3>5. QED BY <3>3, <3>4
  <2>5. QED BY <2>3, <2>4
<1>2. QED BY <1>1, HistoryInvariance, PTL

\* What the pages send and what bots of any level decide, at any strength, is accepted at every
\* table that can come about.
THEOREM DecisionsAreAlwaysAccepted == HistorySpec => []DecisionsAreAccepted
<1>1. HistoryInv => DecisionsAreAccepted
  BY DecisionsAccepted DEF HistoryInv
<1>2. QED BY <1>1, HistoryInvariance, PTL

=============================================================================
