# A formal model of ALLINLE

ALLINLE is a poker practice and book-keeping platform: a shared poker engine
(`packages/shared`), a NestJS API over MySQL and Redis (`apps/api`), a WeChat
mini program and an admin web application. This directory holds TLA+ modules
that model its parts, the TLC runs that check them and the TLAPS proofs about
them. Paths below are relative to `src/`.

## 1. Inventory

### Poker rules engine (`packages/shared/src/poker/state-machine.ts`, `actions.ts`, `poker-types.ts`)

*State.* One `GameState` per table: street, board, bet to match, minimum raise,
button and blind seats, seat in turn, last aggressor, and per seat the stack,
what is invested in the hand and on the street, the status and whether the seat
has acted on the street.

*Operations.* `createInitialGameState`, `applyGameAction` (fold, check, call,
bet, raise, all-in, each followed by `normalizeAfterAction`), `nextDealerSeat`,
`resolveBlindSeats`, `getLegalActions`, and the public and private views.

*Hard parts.* The order of the early returns of `normalizeAfterAction`; short
blinds and short all-ins; rounds re-opened by a raise; the big blind's option;
the seat that is in turn after a street ends; heads-up blinds; hands that
finish on the blinds.

*Correct when.* Chips are accounted for seat by seat; the bet to match is what
the boldest seat has in; nobody sees the next street cheaper than another; the
turn is always with a seat that must answer; no seat is skipped; a hand ends;
what is offered is accepted and what is accepted was offered.

### Side pots (`packages/shared/src/poker/pot.ts`)

*State.* None. *Operations.* `buildSidePots`, `allocateSidePots`. *Hard parts.*
Layers of several all-ins and folded chips, odd chips, layers nobody may win.
*Correct when.* Everything put in is paid out, to seats that covered it, in the
order of their hands.

### Hand evaluator, cards and deck (`evaluator.ts`, `hand-rank.ts`, `cards.ts`, `deck.ts`)

*State.* None. *Operations.* the best five of seven cards, comparison, shuffle.
*Correct when.* The value of a hand orders hands as poker does.

### Bot strategy (`packages/shared/src/poker/bot/`)

*State.* None, random. *Operations.* `decideBotAction`. *Correct when.* The
engine accepts every decision: a refused one leaves the table waiting.

### Practice game service (`apps/api/src/practice-game/practice-game.service.ts`)

*State.* The `GameState` of each room in Redis (`redis.service.ts`, expiring
after a day), the rows of hands, hand players and actions in MySQL, the chips of
the room's players, and in the process a timer and an action counter per room
for the bots.

*Operations.* `startFirstHand`, `applyAction`, `nextHand`, `endRoom`, the timer's
`playBotTurn`; the views of a table, the hand, its replay; statistics from the
rows.

*Hard parts.* Every handler reads, awaits and writes without a lock, so handlers
of one room interleave at every await; the timer is started before the state is
saved; a restart loses timers but not Redis; the writes of one handler are not a
transaction.

*Correct when.* No accepted action is undone, a finished hand is booked once and
stays booked, an ended room has no live table, chips in MySQL are the chips of
the table, a bot in turn eventually acts, a replay adds up, nobody is shown
cards he has not seen.

### Practice room lobby (`apps/api/src/practice-room/practice-room.service.ts`)

*State.* The room row (status, size, blinds) and its player rows (seat, chips,
confirmed, ready). *Operations.* create, join, set and confirm chips, ready,
start, close, close by an administrator. *Hard parts.* Reads and writes apart:
two joins, a ready check on old rows, a status written over another. *Correct
when.* No two players share a seat, a room is READY only if everybody
confirmed, a closed room stays closed.

### Creating rooms (`practice-room.service.ts`, `risk.service.ts`)

*State.* The room rows with their owner and age, the codes taken, the risk log.
*Operations.* `createFriendsRoom`, `createSoloRoom`. *Hard parts.* Rooms are counted
several awaits before the new one is among them. *Correct when.* A room beyond the
limit of an hour is logged.

### Practice room gateway (`apps/api/src/websocket/practice-room.gateway.ts`)

*State.* The sockets of each room and their user. *Operations.* one handler per
client event, which calls a service and emits to the room. *Hard parts.* The
order of events of two handlers; the handshake before any of them. *Correct
when.* Players are let in and strangers are not, private cards reach only their
owner.

### Team ledger (`apps/api/src/team-ledger/team-ledger.service.ts`)

*State.* Room, participants, hands with a status (open, confirming, disputed,
locked), one entry per participant and hand, settlement suggestions.
*Operations.* join, start, next hand, submit, request confirmation, confirm,
dispute, lock, summary, settlement, end. *Hard parts.* Promotions computed from
rows read earlier. *Correct when.* A locked hand is
balanced and every participant confirmed what is locked; a
settlement brings everybody to zero.

### Personal ledger (`apps/api/src/ledger/ledger.service.ts`) and teams (`teams.service.ts`)

*State.* Games, players, transactions, totals, confirmations, memberships.
*Operations.* add a player, add a transaction, recalculate, finish, confirm,
dispute. *Hard parts.* Totals are recomputed from a read that another request
overtakes; a confirmation survives later transactions. *Correct when.* Totals
are the sum of the transactions; a game is confirmed only by what its players
saw.

### Administration (`apps/api/src/admin/admin.service.ts`)

*State.* Administrator accounts with role and status, the system configuration,
the audit log; it also closes rooms idle for long. *Hard parts.* Count and
update apart; several settings written at once and audited once; secrets shown
masked and sent back. *Correct when.* One super administrator stays enabled,
every change is audited, a save changes what its administrator changed.

### Authentication and guards (`auth.service.ts`, `jwt-user.guard.ts`, `jwt-admin.guard.ts`)

*State.* Signed tokens, valid for a time, with separate secrets for users and
administrators. *Hard parts.* The guards look at the token and at no row.
*Correct when.* Who is banned or disabled is shut out in the end.

### Users and their profile (`users.service.ts`, `pages/profile-setup`)

*State.* The user's name and picture in his row, copied to his participants in the
team ledger and to the storage of his phone. *Operations.* log in, refresh, rename,
upload a picture, join a ledger. *Hard parts.* Three copies of one thing, written by
requests that overlap and get lost. *Correct when.* The copies say what the row says.

### Mini program (`apps/miniprogram`)

*State.* The token in the storage and the login every request waits for
(`app.js`, `utils/request.js`); per page what it shows, its timer and what it
waits for (`friend-room`, `friend-table`, `practice-room`, `ledger-team`).
*Hard parts.* Pages that are left while their requests are under way, answers
that overtake each other, a tap repeated after a lost answer, several requests
refused at once, variables a script shares between page objects. *Correct when.*
A closed page is quiet, an open one shows what is, a tap means what was shown,
an amount goes to the hand it was typed for, a lost session comes back.

### Everything else

The administration's web application (lists and buttons over the API, and one
page that sends back what it was shown), event log and security services
(append-only rows and text patterns), statistics (read-only), health,
a rate limiter nothing uses, the Prisma schema (its unique keys are constraints
the models use), deployment files.

### How the parts interact

A client calls the API over REST or the gateway; both end in the practice room
and practice game services. The game service reads the table from Redis, applies
the engine's pure function, writes MySQL rows, re-arms the bot timer and writes
the table back. The engine calls the side pots and the evaluator. The lobby and
the administration change the status of the same room row without looking at the
table in Redis. The ledgers share nothing with practice rooms but users. The
pages ask the API at intervals; the sockets that should bring the news are
refused, so their answers are all a page ever shows.

## 2. Modules and how they compose

| Part | Modules, innermost first | Checked by | Proofs |
|---|---|---|---|
| the poker engine, its records and its screens | `ChipTotals`, `SidePots`, `PokerRules`, `PokerHand`; `HandHistory`; `BotDecision`, `TableViews`; `HandEvaluator`, `Showdown`; together `PokerEngine` | `MCPokerHand` | `PokerRulesProofs`, `PokerHandProofs` |
| the game service | `PracticeGame` (on `PokerRules`) | `MCPracticeGame` | `PracticeGameProofs` |
| the lobby | `PracticeRoom`, `RoomCreation`; together `PracticeLobby` | `MCPracticeRoom` | `PracticeRoomProofs` |
| the books | `LedgerRequests`, `TeamLedger`; `Teams`, `LedgerGames`; `Profiles`; together `Ledgers` | `MCLedgers` | `ProfilesProofs`, `LedgersProofs` |
| accounts, sessions, configuration | `Accounts`, `Session`, `SystemConfig`; together `Access` | `MCAccess` | `AccessProofs` |
| the pages | `TablePages`, `LedgerPage`; together `MiniProgram` | `MCMiniProgram` | `MiniProgramProofs` |

*Composition of what interacts.* `PokerHand` and `PracticeGame` both use
`PokerRules`, so the operators that are proved about are the ones the service
runs, and `PracticeGame` instantiates `PokerHand` (`Hand`) with the stored table
as its `game`: the abstract specification a table has to follow. `HandHistory`
extends every step of `PokerHand` with the rows the service writes for it;
`BotDecision` and `TableViews` look at the same table with the eyes of a bot and
of a page. `Session` decides with the guard's verdict on the token it sent, and
`TablePages` with the gateway's on the token the login signed. `PracticeRoom`
ends where `PracticeGame` begins: a room whose members have confirmed their
stacks.

*Side by side.* `PokerEngine`, `PracticeLobby`, `Ledgers`, `Access` and `MiniProgram`
hold parts that share no state. A variable `part`, chosen in the initial state, says which
of them a behaviour is about; the others keep their initial state. A property
about one part is trivially true of the others, and says something of each
behaviour of its own part.

## 3. What is modelled

### `SidePots`, `ChipTotals`, `PokerRules`: the engine's functions

Each operator is one function, or one case of a switch, of the engine, as a
function from states to states. A `GameState` is a record whose per-seat fields
are functions from seats (`chips`, `playerStatus`, ...), where the code has an
array of player objects. `Folded`, `Checked`, `Called`, `BetPlaced`, `RaisedTo`
and `WentAllIn` are the cases of `applyActionMutation`, `May...` the errors they
throw, `NormalizeAfterAction` the function of that name with its early returns
in order, `InitialGameStates` is `createInitialGameState`, `Offers...` are the
actions of `getLegalActions`.

*Cards.* While a hand is played the deck, hole cards and board are abstracted to
the number of board cards and, at a showdown, to a rank for every contender.
`FinishByShowdown` yields a set of states, one per assignment of ranks. `pot` and
`winnerInfo` are not stored: `Pot` is the sum the code recomputes, and `won` keeps
what each seat was paid. Requests that the engine refuses change nothing and are
not steps. A total is counted in single chips (`ChipTotal`), which the proofs can
reason about for any number of seats.

### `PokerHand`: a table under sequential requests

One variable, `game`. `Fold(s)`, `Check(s)`, `Call(s)`, `Bet(s, n)`, `Raise(s, n)`
and `AllIn(s)` are accepted calls of `applyGameAction`; `NextHand` and
`FinishRoom` are what `nextHand` of the service does with a finished hand.

### `HandHistory`: what is recorded, replayed, counted and shown

`record` is the `practiceHand` on the table with its players and actions: by seat
the sum of the amounts of its action rows and the types it took before the flop,
the streets dealt, what the WIN rows paid, and the rows of its players.
`FoldIsKept` to `AllInIsKept` are `persistActions` of each action (a raise is stored
as what it adds), `PersistFinishedHand` and `PersistAbortedHand` the two ends.
`UserGameView`, `GetHand`, `GetHandReplay` and `GetLatestHandReplay` say whose cards
a viewer is shown: of a hand that is over `getHand` answers everybody's, those of folded
seats and of hands without a showdown included. `CalculatePracticeMetrics` is the statistics service's reading of
the rows. One request's writes are one step here.

### `BotDecision`, `TableViews`: what is sent to the engine

`BotDecisions` is every decision `decideBotAction` may come to, per profile, with
the strength of the hand and the draws left open. `LegalActionMap`, `SoloSends`,
`FriendLegalActionMap` and `FriendSends` are what the two table pages enable and
send for what a player taps and types. `SeatPlayers` and `AssignPosition` are where
friend-table draws the seats.

### `HandEvaluator`, `Showdown`: what cards are worth

`EvaluateSevenCards`, `EvaluateFiveCards` and `EncodeRank` follow `evaluator.ts` and
`hand-rank.ts` card by card. `Showdown` deals two seats their cards from small parts
of the deck, or gives four seats any ranks and stakes, and pays them by `SidePots`.
The reference it is compared with (`ByTheBook`, `Above`) reads a hand off the seven
cards at once, has no code numbers and no search over fives.

### `PracticeGame`: the service under concurrency and failure

| Variable | Code |
|---|---|
| `redis` | the JSON under `game_state:<roomCode>`: hand number, number of actions, game |
| `room` | `practiceRoom.status` |
| `hands` | `practiceHand` rows with their players' `endChips`, their action rows and closing rows, counted |
| `stacks` | `practiceRoomPlayer.chips` |
| `timer`, `botCounts` | `botTimers`, `botActionCounts` of the process |
| `slot` | handlers in progress: where each one awaits, and the table it computed |
| `faults`, `overlaps` | histories: what failed, which handlers began beside another |

A handler is a request or the timer's callback. An action is one awaited write
and the code up to the next await: `ReadAndApply` reads the table and computes
the next one, `ActionRows` writes the action and arms the timer (before the
table is saved, as the code does), `HandRow`, `StackRow`, `ResultRow` and
`ClosingRows` book a finished hand in the order of `persistFinishedHand` (the
writes under a `Promise.all` in any order), `Save` stores the table. Dealing is
`NextHandNo`, `CreateHand`, `PlayerRows`, `RoomPlaying`, `Save`; ending a room
is `EndRoom`, the booking of an open hand with the stacks it has, `RoomFinished`,
`DeleteTable`. `TimerFires`, `BotTurn` and `BotAction` are `playBotTurn`, whose
decision is made on one reading and applied on another.

`HandlerFails` lets a write fail between any two steps: what was written stays.
`Restart` loses handlers, timers and counters and keeps Redis and MySQL.
`TableExpires` is the expiry after a day without a save. `CloseRoom` is the
lobby's and the administration's write to the same room row.

*Abstractions.* The two reads of a player's request are one (the second repeats
the checks of the first). The cards of a hand are dealt with it, so all handlers
that settle a showdown of the same table settle it by the same ranks (`cards`).
A bot may decide for anything it is offered. A write either happens or not;
when one of the writes of a `Promise.all` fails, the others stop with it here, while
in the code they go on beside what follows. A
failure of the row for a new street is not told apart from one of the action's
row. How many actions and attempts the hands before the one on the table had is
not kept (`Forgets`): nobody counts them any more. A room enters as READY, with
the stacks its players have set in the lobby, or as a solo room, where
`createSoloRoom` gives all seats the same stack and bots all seats but one.

### `PracticeRoom`: the lobby under concurrency and failure

| Variable | Code |
|---|---|
| `status` | `practiceRoom.status` |
| `player` | `practiceRoomPlayer` rows by `seatNo`, the key the schema enforces |
| `table` | whether Redis holds a table of the room that is not over |
| `slot` | requests in progress: where each one awaits, and what it has read |
| `dealt`, `seen`, `overlapped` | histories: the rows the start of the game has read, the stacks each confirmation was for, whether two requests were ever in progress at once |

A request that changes a member's row is four steps: the read of the room with
its checks (`JoinReads`, `ConfirmReads`, `SetChipsReads`, `SetReadyReads`), the
write (`SitsDown`, `ConfirmWrites`, `SetChipsWrites`, `SetReadyWrites`), and the
read and the write of `refreshReadyStatus` (`RefreshReads`, `RefreshWrites`). The
first hand is `StartReadsTable`, `StartReadsRoom`, `StartPlays`, `StartSaves`, and
ending is `EndWrites`, `EndDeletes`: what `PracticeGame` does in between writes
nothing the lobby reads. `CloseRoom` is the owner's and the administrator's
close, which looks at no status; `SweepIdleRooms` the sweep of rooms idle for
long, with idleness left open. `RequestFails` drops a request between two steps.

*Abstractions.* The name a member joins with, room codes, risk logs and blinds
are left out. A banned user's request is refused before it reads, so it is one
that never comes. Rows are never deleted, so the separate read of
`assertRoomPlayer` is part of the write that follows it. A start whose hand's
number was taken meanwhile fails, which is a `RequestFails`. The histories `dealt`
and `seen` are kept only as long as no two requests have overlapped, because only
what is said of such behaviours uses them.

### `RoomCreation`, `PracticeLobby`: how many rooms a user creates

`created` has the room rows by their code, with whether an hour has passed since
(`HourPasses`), `creating` the requests in progress. `CountRecent`, `LogFrequency`,
`CheckChips`, `CheckNote`, `FindCode` and `InsertRoom` are the awaits of a creation in
their order. The log of too many rooms is kept as a field of the room whose creation
wrote it, and `crowded` has the users two of whose creations overlapped so that one
was counted without the other. The codes tried are left open. `PracticeLobby` puts this
beside the lobby of one room.

### `TeamLedger`: rooms whose players confirm one another's hands

| Variable | Code |
|---|---|
| `room` | `teamLedgerRoom`: status, `currentHandNo` |
| `participants`, `hands`, `entries` | the rows of those names, each a set; `locked` is `lockedAt` not null |
| `settlements` | the suggestions, in the order they were created |
| `req` | requests in progress: the statement each runs next, with what it read |
| `overlapped` | history: what once was handled beside something else |

Every statement that may see another request's write is a step: the entry
(`SubmitEntry`, `Upsert`), the reopening of a disputed hand (`Reopen`), the two
promotions (`AutoPromote` and `StartConfirming`, `PromoteLocked` and `Lock`), the
confirmation (`ConfirmHandEntry`, `MarkConfirmed`), the next hand, which reads first
and inserts number and room in one transaction (`CreateNextHand`, `InsertHand`),
the settlement (`GenerateSettlement`, `ClearSettlement`, `Suggest`). A request whose
reads no other request can make wrong is one step (`AtOnce`). Amounts are whole
numbers; buy-ins, which only the page adds to a balance, the time a room was
touched, names and room codes are left out. `Temp` stands for every participant
without an account. Statements of a room do not fail in the model.

### `LedgerGames`, `Teams`: the personal and the team books

Of a player's transactions the model keeps the sums (`booked`), which is what
`recalculateGame` reads; `totals` and `gameTotals` are what it stores. Adding a
player is a row, up to two transactions and a recalculation; a recalculation is a
read (`ReadTransactions`), one write per player (`WritePlayer`), one of the game
(`WriteGame`) and, if the books do not balance, a line of the risk log
(`LogRisk`). A confirmation is three writes (`UpsertConfirmation`, `MarkPlayers`,
`PromoteConfirmedIfReady`). `StatementFails` ends a request before any of them.
`LedgerStats` is what the statistics count of the game for a user. `Teams` has the
memberships and what they permit.

### `Profiles`: what a player is called

`profile` is the row of one player, `copies` his rows among the participants of the
team ledger, `stored` what his phone keeps, `form` the profile page. A request (`call`)
carries what the page sends and then what the API answers. `UpdateMe` writes the row
and the names of the copies in one transaction, `UpdateAvatar` and `UpdateAvatarRows`
are two statements, `JoinLedger` reads the name that `InsertParticipant` writes. An
answer is stored by `Refreshed`, `Uploaded` or `Saved`; it may also come to a page that
is gone, or after the phone gave up (`PhoneGivesUp`). `doubt` and `overtaken` are the
histories the property is conditional on. The development login, which renames a user
without his copies, and the clearing of the storage are not represented.

### `Accounts`: who may do what

`admins` and `users` are the rows, `tokens` what was signed and has not expired,
`audits` the rows of the audit log, counted, beside the number of `changes`. An
administrator's request is let in by a token of his (`JwtAdminGuard`), which no
guard compares with his row. `UpdateAdminStatus`, `CountSuperAdmins` and
`SetAdminStatus` are the steps of disabling, `UpsertKey` and `WriteAudit` those of the
configuration and of every change, `Fail` a statement that fails. An update of the
configuration may name no setting: it writes nothing and is audited, and counts as a
change when it has found nothing to write. `BootstrapAdmin` is
the first login; `UserLogin` and `UpsertUser` a player's.

### `Session`: the token the mini program keeps

`token` is what the storage has, by what the guard makes of it; `asking` the requests
under way; `loginPromise` the login all requests wait for together and
`pageLogin` one a page makes for itself. A request refused for a missing or bad
token clears the token, waits for the login and is repeated once (`Answered401`,
`LoggedIn`); an upload of a picture does neither (`UploadAnswered`); an expired
token is another verdict, which no request repairs (`AnsweredOtherwise`). `OnShow`
asks for the profile, and is where a session is begun. `Spoil` is the time that
passes, or a secret that is changed.

### `SystemConfig`: the configuration and the page that edits it

`config` has the rows; a page (`forms`) shows one text with all settings, defaults
filled in and secrets masked (`GetSystemConfig`), and its save sends all of the text
back. The page has no look at a save under way, so any number of its requests (`call`)
may be: `SaveConfig` takes the text as it is by then, `Reopen` leaves the page and asks
anew, while what was sent goes on for nobody. `WriteSetting` and `SettingFails` are one
`upsert` each, in any order, as under `Promise.all`: after the first that fails the
others are still written, and the page, told at once, may save again beside them. What
is there after the last write is read (`ReadConfig`) and shown (`Answered`), which are two
steps, with other requests between. `typed` and `behind` are histories: what was changed by
hand since the API answered, and whether a save has been written since then beside the
text: one of another page, or a later one of this page (`Beside`). The audit row is in
`Accounts`.

### `TablePages`: the practice pages

A page object is a record (`pages`) of what it shows and whether its timer runs; a
request (`calls`) belongs to the page that sent it and is handled (`Serve`,
`Refused`) and answered (`Deliver`) apart from each other, so that answers overtake
each other and get lost before or after the server acted (`RequestLost`,
`AnswerLost`). `OpenPage`, `Redirect` and `ClosePage` are the life of a page: its
`onLoad` waits for an answer and only then sets the timer (`OnLoadEnds`).
`roomPollTimer` and `isNavigatingToTable` are variables of a script, shared by all
page objects, `redirecting` a navigation under way. `HandleConnection` is the
gateway's check of the token.

The server is reduced to what the pages tell apart: whether the room waits, is played or
is over, whether it has a table, with hands or finished for want of chips, how often
these changed, and whose turn it is. `Becomes` is what each request makes of them, the
user's own (`Serve`) and the others' (`OthersMove`): what the changes are otherwise is the
matter of the service's modules. The room may be ended at any time, which takes its table
away: then `getGameState` answers a room without a table, practice-room shows that, and
friend-table keeps the table it has (`Shown`), its turn and its actions included, for
good. A start or an end that has nothing left to do is answered and changes nothing
(`Reads`).

*Abstractions.* A room is closed only while it waits. Closed later, it keeps its table and
its turns, and the next hand makes it a room in play again, which `PracticeGame` has
(`CloseRoom`); the pages' buttons for that are left out, and so is the day after which
Redis forgets a table. Beside the waiting room, a room in play with the user in turn is
an initial state, which saves each behaviour one change. No page links to practice-room
(`practice-solo` and the replay lead to friend-table); it is modelled as its code
stands, for whoever opens it by its path.

### `LedgerPage`: the team ledger page

`timer`, `refreshInFlight` and `lastHandId` are variables of the script, `ledgers` the
page objects with what they show and what is typed in them. `RefreshRoom` is
`refreshRoom` with its guard against overlapping, `ShowRoom` what it does with the
answer: a hand other than the last one shown empties the form. `LoadData` is what a
page does when it is opened with a room code, `JoinRoom`, `LeaveRoom`, `OnShow`,
`OnHide` and `CloseLedger` the rest of its life. The server keeps the number of each
room's hand.

## 4. What the runs check

Bounds are named in the `.cfg` files. Deadlock is not checked: a table without
two stacks, a room that was ended, a game with all its requests and a user with
all his visits behind him really stop.

| Run | Question | Bounds |
|---|---|---|
| `poker_hand` | Is the engine right, over every sequence of actions and hands, with all that is sent to it and kept and shown of it? Does every hand end? Do the best cards win what they should? | three seats, first stacks 1, 2 or 3 against blinds 1 and 2, two ranks, four strengths, amounts typed up to 10; five decks of 9 to 10 cards; four seats with stakes to 3 and three ranks; screens of two to nine players |
| `practice_game` | Do table and rows keep together, with a failed write, a restart or an overlap anywhere? Does a bot's turn pass? | two seats, one a bot, stacks 3, two hands, one fault or overlap |
| `practice_room` | Who sits where, and is the hand dealt from what everyone confirmed? Is every room over the limit logged? | three users, three seats, two requests at once, one failed request; two creators, three codes, a limit of one, two requests |
| `ledgers` | What do overlapping requests leave true of a room, of a game and of a name? | room: two users and a participant without account, four rows (hands and participants; three for requests that overlap), two requests; game: two players, two transactions, three requests, two at once, one fault; profile: one name and two pictures, one room, three requests, two at once |
| `access` | Who gets in, who remains, what is audited, does a session recover, what does a save change? | two administrators and one user, two keys, three changes, two requests, one fault; two requests of the program and two troubles; two editors, two settings, one typed value, one edit, two requests of the pages at once |
| `mini_program` | Do pages show what is and send what was meant? | two page objects, two requests, two changes of the room (a turn and its end, a start and an end), two visits, one lost request; two ledger rooms with two hands each |

*Why the bounds are enough.* Short blinds, short calls, short raises and side
pots need stacks below, at and above the big blind and three different stacks on
the table; stacks 1, 2 and 3 give all of them, and hands follow each other until
the room is finished, so every reachable split of up to nine chips is played.
Four seats and stakes up to three give four layers and ties across them. The
decks hold the wheel and its straight flush, the royal flush, four of a kind,
full houses, flushes beside pairs and long straights, and all showdowns of two
seats within each are examined; the strengths lie between the thresholds of the
bots' profiles. For the service, two hands are needed to see what one hand leaves
to the next; two handlers are needed for a race, and no written value depends on
a third. `BotActionMax` keeps the code's 300, which no hand of this size reaches.
In the lobby three users are an owner, a member and one who comes late. Two
participants and two hands, or three participants and one, are what four rows of a
ledger room give: enough for a last confirmation, a next hand, and a settlement
with a payer and two payees. Three rooms of one creator exceed a limit of one with a
request still on its way; for a name, one request has to overtake another and a third
to find what they left. In a ledger game one failed or overtaken
recalculation leaves wrong totals and the third request has to repair them. Two
administrators are the fewest that can disable each other. For the pages, a race
needs one answer that overtakes another; the second page object is the one opened
while the first's requests are still under way, the second room the one entered
then. Of a configuration, one value typed and two saves under way are enough for every
way to be behind: two pages, two saves of one page with the value typed between them, a
save that failed and goes on while the page saves again.

*What the properties say.*

- The table (`PokerHand`): the turn is with a seat that may act and owes an answer
  (`TurnIsPlayable`), chips are accounted for seat by seat (`ChipsAccounted`), nobody
  sees the next street cheaper than another (`FinishedStreetsAreSquare`), offers are
  accepted (`OffersAreAccepted`), hands end (`HandsFinish`).
- What is sent (`TableViews`): every decision of a bot and everything a page sends
  for a tap is accepted, and all that is offered can be sent (`DecisionsAreAccepted`);
  every player of a full table is drawn in a place of his own (`SeatsAreReadable`).
- What is kept (`HandHistory`): a replay adds up to the pot and to the results
  (`ReplaysAddUp`), the statistics count what happened (`StatisticsCountTheHand`),
  a replay shows, beside the viewer's own cards, those of a showdown that was held, and
  while a hand is played neither the table, nor the hand, nor the latest replay shows
  another's (`ReplaysShowTheShowdown`). That is not so of all the service answers:
  `getHand` of a finished hand shows everybody's cards, those of folded seats and of hands
  without a showdown among them, and `listHands` the rows of any hand as they are, a
  running one included. Nothing written promises otherwise, so the property is about the
  replays, which do hide them.
- Showdowns: the best cards win and nobody else (`BestCardsWin`), better hands are
  together paid all they covered and of equal hands the shallower stake is paid no
  more (`BetterHandsTakeTheirStakes`).
- The service (`PracticeGame`): every stored action of the latest hand has its row
  (`ActionsAreRecorded`), a finished table is booked before it is stored
  (`FinishedTablesAreBooked`), no retry or race creates chips (`NoChipsAppear`, below), stacks,
  results, statistics and table agree (`BooksAgree`), an ended room has no live table
  (`EndedRoomsHaveNoTable`), and the stored table moves only as `PokerHand` allows
  (`TableFollowsTheRules`, the refinement: every write of the table is one step of
  `Hand!Next` or leaves it as it was; storing the first table and deleting one are
  outside it). The first three hold whatever fails or overlaps, the refinement whatever
  fails, `BooksAgree` and `EndedRoomsHaveNoTable` while nothing failed or overlapped.
  They are not true otherwise: two requests of one seat are both accepted on the
  same table and the second save undoes the first; a request that read the table
  before the room was ended stores it again; a hand whose row was created before a
  failure blocks the room, because its number is taken for good.
- `NoChipsAppear` excepts one kind of room: where the blinds take all stacks whole, the
  first hand ends with its deal and is booked while the room is still READY. A second
  start then reads stacks of which some have been written and some have not, and deals
  more chips than were brought. TLC finds this for two seats with stacks of 1 and 2
  against those blinds.
- The lobby (`PracticeRoom`): nobody has two seats however joins overlap
  (`NobodySitsTwice`); as long as no two requests have overlapped, the first hand is
  dealt from stacks every member confirmed (`DealtStacksWereConfirmed`) and everyone
  seated is in it (`EveryMemberIsDealtIn`). With overlaps the last two are not true:
  the status is written from rows read before, so a refresh that is late reopens a
  room that was started, and whoever joins while the first hand is being dealt is a
  member without a place at the table. A user whose own creations do not overlap has no
  more than the limit of rooms in an hour without a log, however others' requests
  interleave (`RoomsOverTheLimitAreLogged`).
- The books: a hand is numbered after one that has been locked
  (`NextHandFollowsALock`); while nothing but confirmations overlaps, what is confirmed
  was entered after the last dispute and what is locked everybody confirmed
  (`ConfirmationsAreFresh`), and a settlement settles the smaller side in full
  (`SettlementsSettle`); whatever overlaps, the last confirmation to be answered finds its
  hand locked if everyone confirmed it (`LastConfirmationLocks`); a recalculation by itself
  repairs whatever others left (`RecalculationRepairs`), and a game all its players confirmed
  is CONFIRMED whenever a confirmation is answered (`LastConfirmationCounts`); a player is called the same in his
  row, in the ledgers and on his phone, unless he renamed himself while he was joining
  a ledger, or an answer to the phone was lost or overtaken (`ProfileIsTheSameEverywhere`).
- Accounts and sessions: only two requests that disable at once leave no super
  administrator (`OnlyARaceRemovesTheLast`); changes and audit rows differ by the
  requests that failed, where an update of the configuration that names no setting counts
  as a change, as it is audited like one (`ChangesAreAudited`); who stays banned or disabled has no valid
  token in the end (`OutcastsRunOut`); a repeated request carries a token just signed
  (`RetriesCarryAGoodToken`); a player without a session gets one (`SessionsRecover`); a
  save changes the settings its administrator changed, unless it is behind
  (`SavesKeepTheRest`). It is behind when another save has written beside it, one of
  another administrator or a later one of the same page: the text of the older one, still
  being written, then does undo settings nobody meant to change, and nothing in the page
  or the API prevents it.
- Pages: a closed page polls no longer, unless it was left before its `onLoad` was
  over (`ClosedPagesAreQuiet`); an accepted action answers the turn its player saw,
  unless he tapped again, left or an answer was lost or overtaken
  (`ActionsAnswerTheTurnShown`); an amount goes to the hand and room it was typed for,
  unless a page was left while refreshing (`AmountsGoToTheirHand`); an open page
  catches up (`PagesCatchUp`): it ends up showing the room and its table as they are, with
  nobody left in the lobby of a room in play, but for a friend-table whose room was ended,
  which ends up showing that it is over, above the last table it had. The exceptions are
  what the code does: there is no number on an action that says which turn it is for, the
  script's variables outlive its pages, and `publicState || this.data.gameState` never
  lets go of a table.

Six runs show a disagreement between the code and what is said of it; each is a
finding in `PROJECT.json` with the line it contradicts.

| Run | Shows |
|---|---|
| `poker_hand_pot` | a showdown that pays less than the pot: a layer nobody is eligible for is dropped |
| `team_ledger_temp` | a hand that every player with an account confirmed and that cannot be locked, because a temporary participant is waited for |
| `team_ledger_unbalanced` | an amount changed while the hand is being confirmed, and a locked hand that does not add up to nothing |
| `accounts_race` | two super administrators who disable each other at once |
| `config_masks` | the mask of a secret stored over the secret |
| `mini_program_socket` | every logged-in player is refused by the gateway, which wants a claim that no token has |

## 5. Fairness

`poker_hand` assumes that some seat in turn keeps acting (`SeatsAct`). For bots that
is the timer; for players it is an assumption, as the code has no clock for a
player's turn. What the run shows is that no sequence of legal actions goes on
for ever.

`practice_game` (`LiveSpec`) assumes that the process goes on with a handler it has
begun (`Busy` is when one can, which makes it weak fairness of `HandlerStep`,
spelled out because TLC evaluates it faster than ENABLED) and that a timer that
was set fires: Node's event loop does both as long as the process lives. `BotsMoveOn`
is for behaviours in which nothing fails or overlaps, and that matters: after a
restart, or after a bot's action that failed, nothing in the code sets the timer
again, and the turn does stay with the bot. No request is assumed: players and
owners may never come back.

`access` (`FairSpec`) assumes that tokens expire, that requests and logins of the
program are answered, and that the player opens the program again and again
(strong fairness of `OnShow`, which is not enabled while a request of his is under
way): that is where the code begins a session, and nothing else does it for a
player who stays away. Troubles are bounded, so in the end a login succeeds.

`mini_program` assumes that intervals go on ticking (strong fairness of the polls: a
tick that finds a refresh under way does nothing and the next one is tried), that
requests are answered or fail, and that a redirect goes through if it is possible
again and again. `PagesCatchUp` concerns pages that are left open.

`ledgers` and `practice_room` state safety only.

## 6. What is proved

Thirty-eight theorems, for every value of the constants. The assumptions are the ones
named in the modules (`...Assumption`): seats are positive numbers, at least two
and finitely many, `NoSeat` is none of them, blinds and stacks are positive, there is
a rank; the owner is a user, `Temp` and `Guest` are none; codes and administrators are
finitely many and the bootstrap administrator is one; a name may be typed that is not
empty; bounds and limits are natural numbers.

`PokerHandProofs` proves six invariants of `PokerHand`: `TypeOK`, `ChipsAccounted`,
`TurnIsPlayable`, `BetIsHighestInvestment`, `FinishedStreetsAreSquare` and
`OffersAreAccepted`. None of these is inductive alone. `applyGameAction` first mutates
the state and then normalises it, and between the two the turn is stale. The
proof therefore has two predicates. `RoundInv(st)` is what a betting round keeps
also in between: chips balance seat by seat, nobody has more on the street than
the bet to match and somebody has exactly that, and a seat that can still act
has paid as much into the finished streets as any other. `GameInv(st)`, the
inductive invariant, adds that in a hand that is played the turn is with a seat
in `ToAct`. Each mutation takes a state in `GameInv` to one in `RoundInv` (the
lemmas `FoldedRound`, `CalledRound`, `RaisedRound`, `AllInRound`, ...), and
normalising takes `RoundInv` to `GameInv` (`NormalizeGame`): a street that ends is
square because every seat that can act has matched the bet, and one that does
not end has a seat left that owes an action, which is the one the search finds.
Blinds need lemmas of their own (`BlindsRound`): a big blind posted short leaves
the small blind's as the bet. `PokerRulesProofs` has these lemmas about the engine's
functions, and the facts about finite sets, minima and totals they rest on; the game
service's proofs cite the same ones. Its last part is about what a hand pays. The side
pots cut the investments into layers; all layers together hold what was invested
(`LayersHoldAll`, adding up seat by seat or layer by layer), and the shares of a layer, its
quotient and the odd chips, are no more than it holds (`LayersPayNoMore`). So a showdown
pays no more than the pot (`PayoutsWithinPot`), and with the seat-by-seat balance of
`GameInv` no hand ends with more chips than it began with (`NoChipsAreMade`). It may end
with fewer: a layer only folded seats reach is paid to nobody, which is the finding of
`poker_hand_pot`.

`PokerHandProofs` goes on to what is made of such a table. `DecisionsAreAccepted` follows from
`GameInv` alone, since what a page sends and a bot decides is chosen from what is offered: a
bet a bot works out is cut to the bounds of the offer (`BotSizes`), and the amount the page
falls back on is the least of them (`PagesDecide`). `ReplaysAddUp`, `StatisticsCountTheHand` and
`ReplaysShowTheShowdown` need an invariant of the record. `HistoryInv` says that the rows paid what
the seats have in the pot, that a seat has a row of its own choice before the flop if and
only if it paid more than it posted, and, of a hand that is over, who won, by how much
and who showed his cards (`FinishedRows`). While a hand is played it has to be known that the
hand is a real one (`DealtIn`): who is in it brought chips and somebody has put some in. That
is what makes a showdown pay somebody (`SomebodyWins`: the contender with the best hand wins
the lowest layer he reaches, and every winner of a layer gets a chip of it, as a layer has
no more winners than chips), and only contenders (`OnlyTheEligibleWin`), which the end of the
hand writes into the rows. A hand dealt with both blinds short can be over at once or run to
the river before anybody acts; `NobodyActedYet` says that it does not stop on a later street.

`PracticeGameProofs` proves `TypeOK`, `ActionsAreRecorded`, `FinishedTablesAreBooked`,
`NoChipsAppear`, `EndedRoomsHaveNoTable` and the refinement `TableFollowsTheRules`, with any
number of handlers, hands, faults and restarts. `IInv` says what the stored table and the rows
have to do with each other (`TableIsWell`), and the same of each handler's computed table
and what it has left to write (`HandlerIsWell`): an action's row is there from the step
that follows it, a seat's result from its own write, the hand's end from the closing
rows. Other handlers write in between, so everything a handler relies on must be
something nobody takes back: `RowsKept` says which facts about rows are such, every write
is shown to keep them (`HandRowWell`, `StackRowWell`, ...), and a handler's claim follows
from `RowsKept` alone (`KeptHandler`). That is the reason why these two properties need no
condition on overlaps, and it is where an order of writes other than the code's breaks
the proof: a table saved before its closing rows has nothing to rely on. `GoodTables`
brings in `GameInv`, so the tables a handler saves are those of the engine's proofs.

`NoChipsAppear` needs no condition on overlaps either, but a different reason. `ChipsInv`
carries the bound through everything a hand can be dealt from: the stored table, the table
a handler is about to store, and the chips it is about to deal. A next hand is dealt from
one stored table, in which the chips are bounded by `NoChipsAreMade`, and never from the
rows; only the first hand reads the rows, seat by seat, and rows may be half written. What
saves it is the room's status: while it is READY no handler has anything to book
(`BeforeTheFirstHand`), so the stacks are still those the seats brought. That is true
because the first deal is not over at once (`DealIsPlayed`), which the exception for blinds
that take all the stacks is about.

The refinement needs more, as it is not true of handlers that overlap: `AloneInv` says
that without overlaps there is at most one handler, and that what it is about to save
is what the rules make of the table that is stored (`Follows`): an accepted decision, a
deal from the chips and the button of the finished hand, or the room's end. `Save` is
then a step of `Hand!Next`, and every other step leaves the table or deletes it. As an
instance is another copy of the operators, lemmas (`SameActs` to `SameNext`) show that
`Hand!`'s are those of the service. `EndInv` says that an unharmed room is over only if
nobody is dealing in it, and that a table still live then has somebody about to delete it.

`BooksAgree` speaks of the moment after a hand, when nobody writes; in between, three
tables of the database are written row by row, in any order of the seats. `BooksInv` says how
far the only handler has come (`HandlerBooks`). Until the hand is over the stacks are those
it was dealt from, and they are what the seats brought with all their results
(`Balances`). Then seat by seat the stack becomes what the table holds (`StacksAre`), and
only afterwards seat by seat the result is written (`ResultsAre`): a seat whose result is
still missing balances with the stack of the start, one that has it with that of the end.
That a result counts once, for its seat and for nobody else, is `ResultCounts`; a hand that is
marked as over before it has results changes no sum (`RowWithoutResult`), nor does forgetting
actions (`SameNets`). For these lemmas `RoomNet` is the total of the gains less that of
the losses, each the cardinality of a set of chips, and not a fold. An ended room takes the
same way with a hand that is not over, whose pot then is nobody's gain.

`PracticeRoomProofs` proves five theorems for any users, seats and number of requests
in progress. For `NobodySitsTwice`: the schema has a key on the seat and none on the
user, so what keeps a user from sitting twice is an argument about what requests
have read: a request about to sit down found every lower seat taken, by others
(`SeatWaits`), and that stays true because members never leave. If its seat is
still free when it writes, then nobody sits higher, as whoever does would have
found that seat taken; so all its user's possible seats are lower ones, and those
are others'. `SeatsInv` joins this to the types and to the property itself, which
says on purpose that the seats below a member's are taken by others: that is what
makes it inductive. `DealtStacksWereConfirmed` and `EveryMemberIsDealtIn` are about requests
that do not overlap; still a request is four steps, others are begun and dropped, and
rows change between a confirmation and the start. `DealInv` says that a confirmation
that stands was for the present stacks of everyone who has chosen one
(`Agrees`), that a request about to write finds the lobby still open (`LobbyIsOpen`), and
that the game goes on with the rows it was dealt from (`PlayedRows`).
`RoomsOverTheLimitAreLogged` counts: a request of a user who is not crowded, on its way to
a room without a log, is the only one and still finds less than the limit (`MayAdd`).

`LedgersProofs` proves `NextHandFollowsALock`. That a number exists once is the
schema's; that the hand before was locked is not, as the check of the last hand is
made before the insert and other requests run in between. `HandsInv` says that all
hands below any hand have been locked, that the same holds of the number a request
in progress is about to insert, and that `currentHandNo` is 0 or the number of a
hand. It holds because being locked is for good in `lockedAt`, although a hand's status
may leave LOCKED again, and because a start sets `currentHandNo` back to 0 and the
number a next hand then asks for is taken.

It also proves `ConfirmationsAreFresh`, for requests of which only confirmations overlap. A
promotion, a submission or a lock is decided in one statement and written in a later one, so
`FreshInv` says what each of these requests still finds of what it has read (`Informed`):
whoever is about to set a hand to CONFIRMING or to lock it finds every player's entry in
the status he read, a submission finds its hand not locked, and who is about to sit down
finds a room without hands. Alone that is plain; beside others it holds because two
requests that run at once both confirm (`OnlyConfirmations`), and a confirmation never takes
back what another has read (`ConfirmedRows`). The keys of the rows are part of the
invariant: that a player has one entry in a hand is what makes an entry that was found
the one that counts.

`LastConfirmationLocks` needs no such care: whoever leaves the room without requests in
progress has just looked at everyone's entries and found one unconfirmed, or has locked the
hand (`LastStep`), because a confirmation is written before the others are looked at. The same order
makes `LastConfirmationCounts` true of a game. `RecalculationRepairs` is about what has been
read: a recalculation that nothing ran beside has read the transactions as they are, and
the totals it has written so far are right (`Knows`), which any request that begins
beside it ends by disturbing it. The sums of a game stay an uninterpreted operator: the proof is about
which sums are stored, not about how they are computed.

`ProfilesProofs` and `LedgersProofs` prove `ProfileIsTheSameEverywhere`. `ProfilesInv` says of
each request in progress what its answer has to do with the row (`CallAgrees`): one that
has run alone since it was begun carries the row as it is, because only requests of the
phone write it; and of a join that it carries the present name (`NamesAgree`), which is what
a rename at the wrong moment would take away and `overtaken` records.

`AccessProofs` proves `OnlyARaceRemovesTheLast`, `ChangesAreAudited`, `RetriesCarryAGoodToken`,
`SavesKeepTheRest` and the types of the three parts. A super
administrator can be disabled only by a step that follows a count, and the count is
stale by then. The invariant joins to the types what requests learnt of the rows and
remains true (`Sound`), that tokens are for administrators with a row (`Vouched`), and,
until two requests disable at once, that whoever is about to disable a super
administrator leaves another (`Guarded`), which is what the count of at least two
gives and no other request can take away. Counting is the library's theory of
finite sets. `ChangesAreAudited` relates three numbers, so its proof is about how a request
goes on (`Tallies`): it writes nothing, it writes something and awaits its row, it writes
the row, or it fails. Every step of every request is one of these four, among them each
setting of a configuration, of which only the first counts as a change, and the empty
configuration, which counts when there is nothing to write; and each of the
four keeps the numbers apart by no more than the requests in progress and the failures.

`RetriesCarryAGoodToken` needs one fact beside the types: while a login is under way there
is no token but one that was signed just before (`SessionInv`), because whoever is refused
drops the token before he logs in. So what the end of the login sends again, to as many
askers as have come to share it, is sent with the new token or not at all. The configuration is written
one setting at a time while others type, save and reload, so the property needs
what pages and requests have to do with the rows (`ConfigInv`): of all settings nobody has
typed into it, a text that is not behind, of a page or of a request under way, shows what
is in force (`UpToDate`, `Holds`). A request was sent from its page's text and agrees with
it but for what was typed since (`SentFrom`), and so do two requests of one page (`Twins`):
so what a request writes that was sent before, from the same answer and with nothing typed
that is not typed in this text too, leaves this text up to date (`NotBeside`). Every other
write puts the text behind.

`MiniProgramProofs` proves the three safety properties of the pages and their types.
`ClosedPagesAreQuiet` needs beside itself that no onLoad goes on for a closed page, and
that the lobby's interval is a lobby's (`QuietInv`): closing another page would not stop it.
`ActionsAnswerTheTurnShown` is about views: what is shown is older than the room, and polls
answer in any order. A view that offers the turn can only be outdated by the player's own
action, as nobody else acts on his turn. So `FreshInv` says of the view that is shown, and
of every answer still under way, that it is the room's present state (`Current`), or that
the answer to the one action under way is newer (`Overtaken`), or that showing it would be
an excuse. Each excuse is what takes one part of this away: a second tap, which makes two
actions; a page left, which makes the answer nobody's; a lost answer; an older answer shown.
`FreshInv` is kept as long as the room has not been ended (`Ended`): a page may go on showing
a turn after that, but the room without a table accepts no action, so the property holds.
A turn is always one of a room in play whose table has hands (`TurnInv`).
`AmountsGoToTheirHand` rests on the script's `lastHandId` being the hand the open page
shows (`LedgerSound`), and on refreshes being of the room the page is in (`RequestSound`),
although the two are kept in different places: the page object and the script.

## 7. What is only model-checked, and what is not modelled

Only checked: everything in `Showdown`; where the seats are drawn (`SeatsAreReadable`, of
which the run sees every table there can be, from two to nine players); of `TeamLedger`
what a settlement moves. Liveness (`HandsFinish`, `BotsMoveOn`, `OutcastsRunOut`,
`SessionsRecover`, `PagesCatchUp`) and ENABLED are beyond the prover, and so is induction
over data: what the evaluator computes of every hand and what the settlement's loop pays in
every room, which is why those are compared with references on bounded inputs. The type
invariants of the books, of which only that of the profiles is proved, are stated for the
reader and are not among the checked properties.

Not modelled:

- the gateway's handlers: nobody passes its handshake, so they never run;
- event log and security services, and of the risk service all but the log of too many
  rooms: append-only rows and patterns on text;
- health, the lists, the dashboard and the charts: single reads and writes;
- the rate limiter: no module provides or uses it;
- the other pages of the mini program and of the administration: they load once and
  show, or have buttons whose effect is in the modules of the API;
- the estimates of a hand's strength (`preflop.ts`, `postflop.ts`): any value instead;
- shuffling: any cards instead; signing and verifying tokens: a library's;
- the winners a page of friend-table goes on showing after the hand, which only a
  socket's event clears;
- deployment.

`PROJECT.json` gives the status and the reason for each part, and lists the hazards
with the properties that guard them.
