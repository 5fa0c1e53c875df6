---------------------------- MODULE LedgerGames ----------------------------
(***************************************************************************)
(* One game of the personal and team books (ledger.service.ts) and the     *)
(* statistics drawn from it (stats.service.ts).  Transactions are only     *)
(* ever added; the totals of players and game are computed from them       *)
(* afterwards, one update at a time.  Of a player's transactions the model *)
(* keeps the sums.                                                         *)
(***************************************************************************)
EXTENDS Teams, FiniteSets, FiniteSetsExt, Sequences, Functions

CONSTANTS
    Guest,       \* stands for every player without an account
    MaxPlayers,  \* bound: rows of players
    MaxVolume,   \* bound: transactions
    MaxRequests, \* bound: requests that ever begin
    MaxFaults    \* bound: requests that fail half-way

ASSUME GuestAssumption == Guest \notin Users
ASSUME VolumeAssumption == {MaxPlayers, MaxVolume, MaxRequests, MaxFaults} \subseteq Nat

VARIABLES
    status,         \* status of the game
    players,        \* user of each row of players
    booked,         \* what the transactions of each player add up to
    totals,         \* the stored totals of each player
    gameTotals,     \* the stored totals of the game
    confirmStatus,  \* of each row of players
    confirmations,  \* the answer each user gave last
    riskLogged,     \* LEDGER_ADJUSTMENT_USED was logged
    disturbed,      \* history: the requests that something ran beside
    begun,          \* requests so far
    faults          \* requests that failed

playerRows == <<players, booked, totals, confirmStatus>>
gameVars == <<status, playerRows, gameTotals, confirmations, riskLogged, members,
              disturbed, begun, faults>>

----------------------------------------------------------------------------
(* Rows *)

GameStatus == {"DRAFT", "ONGOING", "FINISHED", "CONFIRMED", "DISPUTED"}
ConfirmStatus == {"PENDING", "CONFIRMED", "DISPUTED"}
Kinds == {"BUY_IN", "CASH_OUT", "ADJUSTMENT"}

Ids == DOMAIN players
Nothing == [buyIn |-> 0, cashOut |-> 0, adjustment |-> 0]
NoTotals == [buyIn |-> 0, cashOut |-> 0, profit |-> 0]

\* One transaction more: a REBUY counts as a BUY_IN, only an adjustment may be negative.
Booking(sums, kind) ==
    CASE kind = "BUY_IN"     -> [sums EXCEPT !.buyIn = @ + 1]
      [] kind = "CASH_OUT"   -> [sums EXCEPT !.cashOut = @ + 1]
      [] kind = "ADJUSTMENT" -> [sums EXCEPT !.adjustment = @ - 1]

Volume == MapThenSumSet(LAMBDA i : booked[i].buyIn + booked[i].cashOut - booked[i].adjustment, Ids)

TotalsOf(sums) == [buyIn |-> sums.buyIn, cashOut |-> sums.cashOut,
                   profit |-> sums.cashOut - sums.buyIn + sums.adjustment]

\* The totals of a game with the players' sums f.
SumOf(f) == [buyIn   |-> MapThenSumSet(LAMBDA i : f[i].buyIn, DOMAIN f),
             cashOut |-> MapThenSumSet(LAMBDA i : f[i].cashOut, DOMAIN f),
             profit  |-> MapThenSumSet(LAMBDA i : TotalsOf(f[i]).profit, DOMAIN f)]

----------------------------------------------------------------------------
(* Requests *)

Agreeing(q) == q.op \in {"answer", "mark", "tally"} /\ q.answer = "CONFIRMED"

Starts(r, q) ==
    /\ req[r] = Idle /\ begun < MaxRequests
    /\ begun' = begun + 1
    /\ req' = [req EXCEPT ![r] = q]
    /\ disturbed' = IF Busy = {} THEN {} ELSE Busy \cup IF q = Idle THEN {} ELSE {r}
    /\ UNCHANGED faults
Continues(r, q) ==
    /\ req' = [req EXCEPT ![r] = q]
    /\ disturbed' = IF q = Idle THEN disturbed \ {r} ELSE disturbed
    /\ UNCHANGED <<begun, faults>>

\* createGame: empty, or a personal one with the creator and what he bought in for.
GameInit ==
    /\ status = "ONGOING"
    /\ \/ /\ players = <<>> /\ booked = <<>> /\ totals = <<>> /\ confirmStatus = <<>>
          /\ gameTotals = NoTotals /\ CreateTeam
       \/ /\ players = <<Owner>> /\ confirmStatus = <<"PENDING">>
          /\ booked = <<Booking(Nothing, "BUY_IN")>>
          /\ totals = <<TotalsOf(booked[1])>> /\ gameTotals = totals[1]
          /\ members = [u \in Users |-> "none"]
    /\ confirmations = [u \in Users |-> "none"]
    /\ riskLogged = FALSE
    /\ req = [r \in Requests |-> Idle] /\ disturbed = {}
    /\ begun = 0 /\ faults = 0

AssertGameAccess(u) == u = Owner \/ AssertMember(u)

Recalculate(then) == [op |-> "read", then |-> then]

\* A player with what he brought: the row, then up to two transactions, then the totals.
AddPlayer(r, who, kinds) ==
    /\ Len(players) < MaxPlayers /\ Volume + Len(kinds) <= MaxVolume
    /\ players' = Append(players, who)
    /\ booked' = Append(booked, Nothing) /\ totals' = Append(totals, NoTotals)
    /\ confirmStatus' = Append(confirmStatus, "PENDING")
    /\ Starts(r, IF kinds = <<>> THEN Recalculate("done")
                 ELSE [op |-> "book", player |-> Len(players) + 1, kinds |-> kinds])
    /\ UNCHANGED <<status, gameTotals, confirmations, riskLogged>>

AddTransaction(r, i, kind) ==
    /\ Volume < MaxVolume
    /\ Starts(r, [op |-> "book", player |-> i, kinds |-> <<kind>>])
    /\ UNCHANGED <<status, playerRows, gameTotals, confirmations, riskLogged>>

CreateTransaction(r) ==
    LET q == req[r] IN
    /\ q.op = "book"
    /\ booked' = [booked EXCEPT ![q.player] = Booking(@, Head(q.kinds))]
    /\ Continues(r, IF Len(q.kinds) = 1 THEN Recalculate("done") ELSE [q EXCEPT !.kinds = Tail(@)])
    /\ UNCHANGED <<status, players, totals, confirmStatus, gameTotals,
                   confirmations, riskLogged>>

----------------------------------------------------------------------------
(* Recalculation *)

FinishGame(r) ==
    /\ Starts(r, Recalculate("FINISHED"))
    /\ UNCHANGED <<status, playerRows, gameTotals, confirmations, riskLogged>>

\* All players and their transactions are read at once.
ReadTransactions(r) ==
    /\ req[r].op = "read"
    /\ Continues(r, [op |-> "write", read |-> booked, next |-> 1, then |-> req[r].then])
    /\ UNCHANGED <<status, playerRows, gameTotals, confirmations, riskLogged>>

\* Faulty: the sums are added to what is stored, as if a recalculation ran only once.
WritePlayerOnTop(r) ==
    LET q == req[r]
        sum == TotalsOf(q.read[q.next]) IN
    /\ q.op = "write" /\ q.next <= Len(q.read)
    /\ totals' = [totals EXCEPT ![q.next] = [f \in DOMAIN sum |-> @[f] + sum[f]]]
    /\ Continues(r, [q EXCEPT !.next = @ + 1])
    /\ UNCHANGED <<status, players, booked, confirmStatus, gameTotals, confirmations, riskLogged>>

WritePlayer(r) ==
    LET q == req[r] IN
    /\ q.op = "write" /\ q.next <= Len(q.read)
    /\ totals' = [totals EXCEPT ![q.next] = TotalsOf(q.read[q.next])]
    /\ Continues(r, [q EXCEPT !.next = @ + 1])
    /\ UNCHANGED <<status, players, booked, confirmStatus, gameTotals,
                   confirmations, riskLogged>>

\* The request's last write, if it has one: the status a finish or an answer asks for.
Then(s) == IF s = "done" THEN Idle ELSE [op |-> "status", to |-> s]

WriteGame(r) ==
    LET q == req[r]
        sum == SumOf(q.read) IN
    /\ q.op = "write" /\ q.next > Len(q.read)
    /\ gameTotals' = sum
    /\ Continues(r, IF sum.profit = sum.cashOut - sum.buyIn THEN Then(q.then)
               ELSE [op |-> "risk", then |-> q.then])
    /\ UNCHANGED <<status, playerRows, confirmations, riskLogged>>

LogRisk(r) ==
    /\ req[r].op = "risk"
    /\ riskLogged' = TRUE
    /\ Continues(r, Then(req[r].then))
    /\ UNCHANGED <<status, playerRows, gameTotals, confirmations>>

WriteStatus(r) ==
    /\ req[r].op = "status"
    /\ status' = req[r].to
    /\ Continues(r, Idle)
    /\ UNCHANGED <<playerRows, gameTotals, confirmations, riskLogged>>

\* The creator may set any status; a single update.
UpdateGame(r, s) ==
    /\ Starts(r, Idle)
    /\ status' = s
    /\ UNCHANGED <<playerRows, gameTotals, confirmations, riskLogged>>

----------------------------------------------------------------------------
(* Confirmation *)

\* confirmGame and disputeGame
Answer(r, u, answer) ==
    /\ AssertGameAccess(u)
    /\ Starts(r, [op |-> "answer", user |-> u, answer |-> answer])
    /\ UNCHANGED <<status, playerRows, gameTotals, confirmations, riskLogged>>

UpsertConfirmation(r) ==
    /\ req[r].op = "answer"
    /\ confirmations' = [confirmations EXCEPT ![req[r].user] = req[r].answer]
    /\ Continues(r, [req[r] EXCEPT !.op = "mark"])
    /\ UNCHANGED <<status, playerRows, gameTotals, riskLogged>>

\* Faulty: whether everyone confirmed is looked up before the own rows are marked.
MarkPlayersLate(r) ==
    LET q == req[r]
        others == {i \in Ids : players[i] \notin {Guest, q.user}}
        last == \A i \in others : confirmStatus[i] = "CONFIRMED" IN
    /\ q.op = "mark"
    /\ \/ /\ "last" \notin DOMAIN q
          /\ Continues(r, [op |-> "mark", user |-> q.user, answer |-> q.answer, last |-> last])
          /\ UNCHANGED confirmStatus
       \/ /\ "last" \in DOMAIN q
          /\ confirmStatus' = [i \in Ids |-> IF players[i] = q.user THEN q.answer
                                             ELSE confirmStatus[i]]
          /\ Continues(r, IF q.answer = "DISPUTED" THEN Then("DISPUTED")
                     ELSE IF q.last THEN Then("CONFIRMED") ELSE Idle)
    /\ UNCHANGED <<status, players, booked, totals, gameTotals, confirmations, riskLogged>>

MarkPlayers(r) ==
    LET q == req[r] IN
    /\ q.op = "mark"
    /\ confirmStatus' = [i \in Ids |-> IF players[i] = q.user THEN q.answer ELSE confirmStatus[i]]
    /\ Continues(r, IF q.answer = "DISPUTED" THEN Then("DISPUTED") ELSE [q EXCEPT !.op = "tally"])
    /\ UNCHANGED <<status, players, booked, totals, gameTotals,
                   confirmations, riskLogged>>

RegisteredPlayers == {i \in Ids : players[i] # Guest}
EveryoneConfirmed ==
    RegisteredPlayers # {} /\ \A i \in RegisteredPlayers : confirmStatus[i] = "CONFIRMED"

PromoteConfirmedIfReady(r) ==
    /\ req[r].op = "tally"
    /\ Continues(r, IF EveryoneConfirmed THEN Then("CONFIRMED") ELSE Idle)
    /\ UNCHANGED <<status, playerRows, gameTotals, confirmations, riskLogged>>

\* A statement fails, or the process restarts: what the request wrote stays.
StatementFails(r) ==
    /\ req[r] # Idle /\ faults < MaxFaults
    /\ faults' = faults + 1
    /\ req' = [req EXCEPT ![r] = Idle] /\ disturbed' = disturbed \ {r}
    /\ UNCHANGED <<status, playerRows, gameTotals, confirmations, riskLogged, begun>>

----------------------------------------------------------------------------
AddsMember(r, u, role) ==
    /\ members[u] # role
    /\ \E o \in Users : AssertAdmin(o)
    /\ Starts(r, AddMember(u, role))
    /\ UNCHANGED <<status, playerRows, gameTotals, confirmations, riskLogged>>

MemberAdded(r) ==
    /\ UpsertMember(r)
    /\ Continues(r, Idle)
    /\ UNCHANGED <<status, playerRows, gameTotals, confirmations, riskLogged>>

Books(r) ==
    \/ CreateTransaction(r) \/ ReadTransactions(r) \/ WritePlayer(r) \/ WriteGame(r)
    \/ LogRisk(r) \/ WriteStatus(r) \/ UpsertConfirmation(r) \/ MarkPlayers(r)
    \/ PromoteConfirmedIfReady(r) \/ StatementFails(r) \/ FinishGame(r)
    \/ (\E s \in {"ONGOING", "CONFIRMED"} : UpdateGame(r, s))
    \/ \E u \in Users, answer \in {"CONFIRMED", "DISPUTED"} : Answer(r, u, answer)
    \/ \E kind \in Kinds, i \in Ids : AddTransaction(r, i, kind)
    \/ \E who \in Users \cup {Guest}, kinds \in {<<>>, <<"BUY_IN", "CASH_OUT">>} :
           AddPlayer(r, who, kinds)
    \/ \E u \in Users, role \in {"ADMIN", "MEMBER"} : AddsMember(r, u, role)

GameNext == \E r \in Requests : (Books(r) /\ UNCHANGED members) \/ MemberAdded(r)

----------------------------------------------------------------------------
(* Statistics: the game counts, as a whole, for its creator and everyone who played in it. *)

CountsFor(u) == u = Owner \/ \E i \in Ids : players[i] = u
LedgerStats(u) == IF CountsFor(u) THEN gameTotals ELSE NoTotals

----------------------------------------------------------------------------
(* Properties *)

Sums == [buyIn : Nat, cashOut : Nat, adjustment : Int]
Totals == [buyIn : Nat, cashOut : Nat, profit : Int]

GameTypeOK ==
    /\ status \in GameStatus
    /\ players \in Seq(Users \cup {Guest})
    /\ booked \in [Ids -> Sums] /\ totals \in [Ids -> Totals]
    /\ confirmStatus \in [Ids -> ConfirmStatus]
    /\ gameTotals \in Totals
    /\ confirmations \in [Users -> ConfirmStatus \cup {"none"}]
    /\ riskLogged \in BOOLEAN
    /\ members \in [Users -> TeamRole \cup {"none"}]
    /\ disturbed \subseteq Requests
    /\ begun \in 0 .. MaxRequests /\ faults \in 0 .. MaxFaults

Agree ==
    /\ \A i \in Ids : totals[i] = TotalsOf(booked[i])
    /\ \A u \in Users : CountsFor(u) => LedgerStats(u) = SumOf(booked)
    /\ SumOf(booked).profit # SumOf(booked).cashOut - SumOf(booked).buyIn => riskLogged

Ended(r) == req[r] # Idle /\ req'[r] = Idle /\ faults' = faults

\* A recalculation that nothing runs beside puts every total right, whatever requests that
\* overlapped or failed half-way left behind before it.
RecalculationRepairs ==
    [][\A r \in Requests \ disturbed : req'[r].op # "risk" /\ (WriteGame(r) \/ LogRisk(r))
                                     => Agree']_<<gameVars, req>>

\* However confirmations and other requests overlap, whenever a confirmation is answered a game
\* that all its registered players confirmed is CONFIRMED: each looks at the others only after
\* it marked its own.
LastConfirmationCounts ==
    [][\A r \in Requests :
         Ended(r) /\ (Agreeing(req[r]) \/ req[r] = Then("CONFIRMED"))
         => (EveryoneConfirmed => status = "CONFIRMED")']_<<gameVars, req>>
=============================================================================
