----------------------------- MODULE TablePages -----------------------------
(***************************************************************************)
(* The practice pages of the mini program: a room's lobby (friend-room),   *)
(* the table of a room of friends (friend-table) and of a room with bots   *)
(* (practice-room), with their timers and requests.  The socket they open  *)
(* is refused by the gateway (HandleConnection), so what a page shows      *)
(* comes from the answers to its requests alone.                           *)
(*                                                                         *)
(* The server is reduced to the room's status, to whether it has a table,  *)
(* how often the two changed and whose turn it is; what the changes are is *)
(* the matter of PracticeRoom and PracticeGame.                            *)
(***************************************************************************)
EXTENDS Naturals, FiniteSets, FiniteSetsExt

CONSTANTS
    MaxPages,   \* bound: page objects alive at once, as slots 1, 2, ...
    MaxCalls,   \* bound: requests under way at once, as slots 1, 2, ...
    MaxMoves,   \* bound: changes of the room
    MaxVisits,  \* bound: pages the user opens
    MaxTrouble  \* bound: requests and redirects that fail, pages left and taps made too early

ASSUME TableBounds == {MaxPages, MaxCalls, MaxMoves, MaxVisits, MaxTrouble} \subseteq Nat \ {0}

VARIABLES
    server,               \* the room and its table as the API would answer now
    pages,                \* the page objects
    calls,                \* the requests of the pages, and what runs when they are answered
    roomPollTimer,        \* friend-room: the page the interval was set by, 0 for none
    isNavigatingToTable,  \* friend-room
    redirecting,          \* a redirect to the table was asked for
    socket,               \* practiceRoomSocket
    undone,               \* history: a page was closed, or failed, before its onLoad was over
    excused,              \* history: what may mislead a player, see ActionsAnswerTheTurnShown
    visits,
    trouble

tableVars == <<server, pages, calls, roomPollTimer, isNavigatingToTable, redirecting,
               socket, undone, excused, visits, trouble>>

----------------------------------------------------------------------------
Pages == 1 .. MaxPages
Calls == 1 .. MaxCalls

\* A room is over when it is FINISHED, by its end or with its last hand, or CLOSED.  It is nobody's
\* turn between two hands of a table, and where there is none.
Statuses == {"waiting", "playing", "over"}
Tables == {"none", "hands", "finished"}
Turns == {"me", "other", "nobody"}
Views == [room : Statuses, table : Tables, move : 0 .. MaxMoves, turn : Turns]
NoView == [room |-> "none", table |-> "none", move |-> 0, turn |-> "none"]

Kinds == {"none", "room", "table", "solo"}
Page == [kind : Kinds, open : BOOLEAN, timer : BOOLEAN, view : Views \cup {NoView}]
NoPage == [kind |-> "none", open |-> FALSE, timer |-> FALSE, view |-> NoView]

\* "first" stands for all that onLoad waits for before it sets the timer, "after" for the load
\* that follows an action.
Steps == {"first", "load", "act", "after", "next", "chips", "ready", "start", "end"}
Idle == [page |-> 0, step |-> "idle", seen |-> 0, answer |-> NoView]
Call == [page : Pages, step : Steps, seen : 0 .. MaxMoves, answer : Views \cup {NoView}]
Asking(i, step) == [page |-> i, step |-> step, seen |-> 0, answer |-> NoView]

Of(i) == {c \in Calls : calls[c].page = i}
FreeCalls == {c \in Calls : calls[c] = Idle}
FreePages == {i \in Pages : /\ ~pages[i].open /\ ~pages[i].timer
                            /\ roomPollTimer # i /\ Of(i) = {}}
OpenPages == {i \in Pages : pages[i].open}
Acting(i) == \E c \in Of(i) : calls[c].step \in {"act", "after"}
Starting(i) == \E c \in Of(i) : calls[c].step = "start"

Fails == trouble < MaxTrouble /\ trouble' = trouble + 1
TroubleIf(it) ==
    /\ it => trouble < MaxTrouble
    /\ trouble' = IF it THEN trouble + 1 ELSE trouble

----------------------------------------------------------------------------
(* The socket *)

\* What the API signs for a user.
SignUserToken == [sub |-> "me", type |-> "USER"]

\* The gateway asks for a scope that no token has.
HandleConnection(claims) ==
    IF "scope" \in DOMAIN claims THEN "connected" ELSE "refused"

Connect == socket' = IF socket = "connected" THEN socket ELSE HandleConnection(SignUserToken)

\* Every emit connects first, and so does a page that listens; a page emits once its onLoad has
\* logged in.  What is emitted is lost.
Emits == Connect

\* By the pages S, on their way out.
CloseSocket(S) == socket' = IF S = {} THEN socket ELSE "none"

----------------------------------------------------------------------------
(* Pages come and go *)

\* The others may have started the room before the first visit; that they have, and that it is
\* the user's turn, is an initial state as well and spares a run one change of the room.
TableInit ==
    /\ \/ server = [room |-> "waiting", table |-> "none", move |-> 0, turn |-> "nobody"]
       \/ server = [room |-> "playing", table |-> "hands", move |-> 0, turn |-> "me"]
    /\ pages = [i \in Pages |-> NoPage]
    /\ calls = [c \in Calls |-> Idle]
    /\ roomPollTimer = 0
    /\ isNavigatingToTable = FALSE /\ redirecting = FALSE
    /\ socket = "none"
    /\ undone = FALSE /\ excused = FALSE /\ visits = 0 /\ trouble = 0

\* Only friend-table has an onShow, which sets the timer and loads at once.
NewPage(kind) == [kind |-> kind, open |-> TRUE, timer |-> kind = "table", view |-> NoView]
Loading(i, kind) ==
    LET c == Min(FreeCalls)
        d == Min(FreeCalls \ {c}) IN
    /\ FreeCalls # {} /\ (kind = "table" => Cardinality(FreeCalls) > 1)
    /\ calls' = IF kind = "table"
                THEN [calls EXCEPT ![c] = Asking(i, "first"), ![d] = Asking(i, "load")]
                ELSE [calls EXCEPT ![c] = Asking(i, "first")]

\* Faulty: onUnload leaves the interval.
ClosedPolling(p, i) == IF Of(i) = {} /\ ~p.timer THEN NoPage
                       ELSE [p EXCEPT !.open = FALSE, !.view = NoView]

Closed(p, i) == IF Of(i) = {} THEN NoPage
                ELSE [p EXCEPT !.open = FALSE, !.timer = FALSE, !.view = NoView]
LeftDuring(S, steps) == \E i \in S : \E c \in Of(i) : calls[c].step \in steps

\* From another page of the program.
OpenPage(kind) == \E i \in FreePages :
    /\ i = Min(FreePages) /\ OpenPages = {}
    /\ visits < MaxVisits /\ visits' = visits + 1
    /\ pages' = [pages EXCEPT ![i] = NewPage(kind)]
    /\ Loading(i, kind)
    /\ isNavigatingToTable' = (isNavigatingToTable /\ kind # "room")
    /\ UNCHANGED <<server, roomPollTimer, redirecting, socket,
                   undone, excused, trouble>>

\* friend-room's onUnload stops the interval whoever set it.
OnUnload(S) ==
    /\ roomPollTimer' = IF \E i \in S : pages[i].kind = "room" THEN 0 ELSE roomPollTimer
    /\ CloseSocket(S)
    /\ undone' = (undone \/ LeftDuring(S, {"first"}))
    /\ excused' = (excused \/ LeftDuring(S, {"act"}))
    /\ TroubleIf(LeftDuring(S, {"first", "act"}))

ClosePage(i) ==
    /\ pages[i].open
    /\ pages' = [pages EXCEPT ![i] = Closed(@, i)]
    /\ OnUnload({i})
    /\ UNCHANGED <<visits, server, calls, isNavigatingToTable, redirecting>>

\* The page on top is replaced, whichever it is by now.
Redirect == \E i \in FreePages :
    /\ redirecting /\ i = Min(FreePages)
    /\ redirecting' = FALSE
    /\ pages' = [j \in Pages |-> IF j = i THEN NewPage("table")
                                 ELSE IF pages[j].open THEN Closed(pages[j], j) ELSE pages[j]]
    /\ Loading(i, "table")
    /\ OnUnload(OpenPages)
    /\ UNCHANGED <<visits, server, isNavigatingToTable>>

RedirectFails ==
    /\ redirecting /\ Fails
    /\ redirecting' = FALSE /\ isNavigatingToTable' = FALSE
    /\ UNCHANGED <<visits, server, pages, calls, roomPollTimer, socket, undone, excused>>

----------------------------------------------------------------------------
(* What the user and the timers ask for *)

Asks(q) ==
    /\ FreeCalls # {}
    /\ calls' = [calls EXCEPT ![Min(FreeCalls)] = q]
    /\ UNCHANGED <<visits, server, pages, roomPollTimer, isNavigatingToTable, redirecting,
                   socket, undone>>

\* Nothing keeps two polls from being under way at once.
Poll(i) ==
    /\ pages[i].timer
    /\ Asks(Asking(i, "load"))
    /\ UNCHANGED <<excused, trouble>>

\* friend-room
PollRoom(i) ==
    /\ roomPollTimer = i /\ ~isNavigatingToTable
    /\ Asks(Asking(i, "load"))
    /\ UNCHANGED <<excused, trouble>>

\* An action the page offers; only practice-room refuses a second tap.
SendAction(i) ==
    /\ pages[i].open /\ pages[i].kind \in {"table", "solo"}
    /\ pages[i].view.turn = "me"
    /\ pages[i].kind = "solo" => ~Acting(i)
    /\ Asks([Asking(i, "act") EXCEPT !.seen = pages[i].view.move])
    /\ LET again == \E c \in Calls : calls[c].step = "act" IN
       excused' = (excused \/ again) /\ TroubleIf(again)

NextHand(i) ==
    /\ pages[i].open /\ pages[i].kind \in {"table", "solo"}
    /\ pages[i].view.table = "hands" /\ pages[i].view.turn = "nobody"
    /\ Asks(Asking(i, "next"))
    /\ UNCHANGED <<excused, trouble>>

\* The buttons of the lobby, which are gone once the page shows a room that is played, or is
\* being replaced.
OffersToStart(i) ==
    /\ pages[i].open /\ pages[i].kind = "room"
    /\ pages[i].view.room \in {"waiting", "over"} /\ ~redirecting

ChangeRoom(i, step) ==
    /\ OffersToStart(i) /\ step \in {"chips", "ready"}
    /\ Asks(Asking(i, step))
    /\ UNCHANGED <<excused, trouble>>

StartRoom(i) ==
    /\ OffersToStart(i) /\ ~Starting(i)
    /\ Asks(Asking(i, "start"))
    /\ UNCHANGED <<excused, trouble>>

\* practice-room, of a room that is shown not to have started
StartSoloRoom(i) ==
    /\ pages[i].open /\ pages[i].kind = "solo" /\ pages[i].view.room = "waiting"
    /\ Asks(Asking(i, "start"))
    /\ UNCHANGED <<excused, trouble>>

\* practice-room, of a room that is shown to have started
EndRoom(i) ==
    /\ pages[i].open /\ pages[i].kind = "solo" /\ pages[i].view.room \in {"playing", "over"}
    /\ Asks(Asking(i, "end"))
    /\ UNCHANGED <<excused, trouble>>

----------------------------------------------------------------------------
(* The server *)

Moved(r, b, t) == [room |-> r, table |-> b, move |-> server.move + 1, turn |-> t]
Deals == {Moved("playing", "hands", t) : t \in {"me", "other"}}

\* What the room may be after a request, of a player whose turn is that one: a next hand that
\* nobody has the chips for finishes the room, and the end of a room takes its table away.
Becomes(step, turn) == CASE
       step = "act" /\ server.turn = turn -> {Moved("playing", "hands", t) : t \in Turns}
    [] step = "next" /\ server.table = "hands" /\ server.turn = "nobody" ->
           Deals \cup {Moved("over", "finished", "nobody")}
    [] step = "start" /\ server.room = "waiting" -> Deals
    [] step \in {"chips", "ready"} /\ server.room = "waiting" ->
           {Moved("waiting", "none", "nobody")}
    [] \/ step = "end" /\ server.table # "none"
       \/ step = "close" /\ server.room = "waiting" -> {Moved("over", "none", "nobody")}
    [] OTHER -> {}

\* Past the bound a request is refused.
Changes(step, turn) == IF server.move < MaxMoves THEN Becomes(step, turn) ELSE {}

\* What the others do, and the bots.  A room may be closed before it is started; that closing it
\* later leaves its table and its turns is left out.
OthersMove ==
    /\ \E step \in {"act", "next", "start", "chips", "end", "close"} :
           server' \in Changes(step, "other")
    /\ UNCHANGED <<visits, pages, calls, roomPollTimer, isNavigatingToTable, redirecting,
                   socket, undone, excused, trouble>>

Pending(c) == calls[c] # Idle /\ calls[c].answer = NoView
Answered(c) == calls[c].answer # NoView

\* The state of a table, or that there is none, is answered at any time; so are the start of a
\* room that has a table with hands, and the end of one that has no table, and change nothing.
\* The room, which that start's answer lacks, practice-room reads right after it, and the lobby
\* is being replaced.
Reads(step) ==
    \/ step \in {"first", "load", "after"}
    \/ step = "start" /\ server.table = "hands"
    \/ step = "end" /\ server.table = "none"

Serve(c) ==
    LET q == calls[c] IN
    /\ Pending(c)
    /\ \/ Reads(q.step) /\ UNCHANGED server
       \/ server' \in Changes(q.step, "me")
    /\ calls' = [calls EXCEPT ![c].answer = server']
    /\ UNCHANGED <<visits, pages, roomPollTimer, isNavigatingToTable, redirecting,
                   socket, undone, excused, trouble>>

----------------------------------------------------------------------------
(* Answers *)

\* Faulty: a page that plays shows no answer without a table.
ShownWithATable(p, answer) ==
    IF ~p.open \/ (p.kind # "room" /\ answer.table = "none") THEN p.view ELSE answer

\* applyGameView, updateRoomState: an answer is shown whether or not a later one was before it,
\* but friend-table keeps the table it shows when an answer has none.  Nobody sees what a closed
\* page shows.
Shown(p, answer) ==
    IF ~p.open THEN p.view
    ELSE IF p.kind = "table" /\ answer.table = "none" /\ p.view.table # "none"
         THEN [p.view EXCEPT !.room = answer.room]
         ELSE answer

Shows(i, answer) ==
    /\ pages' = [pages EXCEPT ![i].view = Shown(pages[i], answer)]
    /\ excused' = (excused \/ pages[i].view.move > Shown(pages[i], answer).move)

NavigateToTable(i, started) ==
    IF pages[i].kind = "room" /\ started /\ ~isNavigatingToTable
    THEN /\ isNavigatingToTable' = TRUE
         /\ redirecting' = (redirecting \/ ~\E j \in OpenPages : pages[j].kind = "table")
    ELSE UNCHANGED <<isNavigatingToTable, redirecting>>

\* Where the page goes on after an awaited answer.
After(c, step) == calls' = [calls EXCEPT ![c] = IF step = "idle" THEN Idle
                                                ELSE Asking(calls[c].page, step)]

\* loadGameState, loadRoom and the polls
Loaded(c) ==
    LET i == calls[c].page IN
    /\ calls[c].step \in {"load", "after"}
    /\ Shows(i, calls[c].answer)
    /\ NavigateToTable(i, calls[c].answer.room = "playing")
    /\ After(c, "idle")
    /\ UNCHANGED <<roomPollTimer, socket, undone>>

\* Faulty: the answer to the own action is left to the load that follows it.
OwnAnswerUnused(c) ==
    LET i == calls[c].page IN
    /\ calls[c].step \in {"act", "next", "chips", "ready", "start", "end"}
    /\ UNCHANGED <<pages, excused, isNavigatingToTable, redirecting, socket>>
    /\ After(c, "after")
    /\ UNCHANGED <<roomPollTimer, undone>>

\* What the user asked for is shown, and most of it loaded again.
OwnAnswer(c) ==
    LET i == calls[c].page
        step == calls[c].step IN
    /\ step \in {"act", "next", "chips", "ready", "start", "end"}
    /\ IF step = "ready" THEN UNCHANGED <<pages, excused>> ELSE Shows(i, calls[c].answer)
    /\ NavigateToTable(i, step = "start")
    /\ IF step \in {"chips", "ready", "start", "end"} THEN Emits ELSE UNCHANGED socket
    /\ After(c, CASE step = "act" -> "after" [] step \in {"next", "ready"} -> "load"
                  [] OTHER -> "idle")
    /\ UNCHANGED <<roomPollTimer, undone>>

\* The last wait of onLoad is over, with an answer or, of the table, without: the socket, then
\* the timer.
OnLoadEnds(c) ==
    LET i == calls[c].page
        shown == IF Answered(c) THEN Shown(pages[i], calls[c].answer) ELSE pages[i].view IN
    /\ calls[c].step = "first"
    /\ pages' = [pages EXCEPT ![i].view = shown, ![i].timer = @ \/ pages[i].kind # "room"]
    /\ excused' = (excused \/ pages[i].view.move > shown.move)
    /\ NavigateToTable(i, calls[c].answer.room = "playing")
    /\ roomPollTimer' = IF pages[i].kind = "room" THEN i ELSE roomPollTimer
    /\ Emits
    /\ After(c, "idle")
    /\ UNCHANGED undone

\* A failed request is reported or silently forgotten.
Unanswered(c) ==
    IF calls[c].step = "first" THEN OnLoadEnds(c)
    ELSE /\ After(c, "idle")
         /\ UNCHANGED <<pages, roomPollTimer, isNavigatingToTable, redirecting, socket,
                        undone, excused>>

Refused(c) ==
    /\ Pending(c) /\ ~Reads(calls[c].step) /\ Changes(calls[c].step, "me") = {}
    /\ Unanswered(c)
    /\ UNCHANGED <<visits, server, trouble>>

\* Lost before the server handles the request.
RequestLost(c) ==
    /\ Pending(c) /\ Fails
    /\ Unanswered(c)
    /\ UNCHANGED <<visits, server>>

\* Lost after: the user believes that nothing was done.
AnswerLost(c) ==
    /\ Answered(c) /\ calls[c].step # "first" /\ Fails
    /\ After(c, "idle")
    /\ excused' = (excused \/ calls[c].step = "act")
    /\ UNCHANGED <<visits, server, pages, roomPollTimer, isNavigatingToTable, redirecting,
                   socket, undone>>

\* The login, or loadRoom of practice-room, is rejected and the rest of onLoad with it.
OnLoadFails(c) ==
    /\ calls[c].step = "first" /\ Fails
    /\ After(c, "idle")
    /\ undone' = TRUE
    /\ UNCHANGED <<visits, server, pages, roomPollTimer, isNavigatingToTable, redirecting,
                   socket, excused>>

Deliver(c) ==
    /\ Answered(c)
    /\ Loaded(c) \/ OwnAnswer(c) \/ OnLoadEnds(c)
    /\ UNCHANGED <<visits, server, trouble>>

----------------------------------------------------------------------------
TableStep ==
    \/ Redirect \/ RedirectFails \/ OthersMove
    \/ \E i \in Pages : \/ ClosePage(i) \/ Poll(i) \/ PollRoom(i) \/ SendAction(i) \/ NextHand(i)
                        \/ StartRoom(i) \/ StartSoloRoom(i) \/ EndRoom(i)
                        \/ \E step \in {"chips", "ready"} : ChangeRoom(i, step)
    \/ \E c \in Calls : Serve(c) \/ Refused(c) \/ Deliver(c)
                         \/ RequestLost(c) \/ AnswerLost(c) \/ OnLoadFails(c)

\* The intervals go on ticking, requests are answered or fail, and so does a redirect.
TableFairness ==
    /\ SF_tableVars(Redirect)
    /\ SF_tableVars(\E i \in Pages : Poll(i) \/ PollRoom(i))
    /\ \A c \in Calls : WF_tableVars(Serve(c) \/ Refused(c) \/ Deliver(c))

----------------------------------------------------------------------------
(* Properties *)

TableTypeOK ==
    /\ server \in Views
    /\ pages \in [Pages -> Page]
    /\ calls \in [Calls -> Call \cup {Idle}]
    /\ roomPollTimer \in 0 .. MaxPages
    /\ {isNavigatingToTable, redirecting, undone, excused} \subseteq BOOLEAN
    /\ socket \in {"none", "connected", "refused"}
    /\ visits \in 0 .. MaxVisits /\ trouble \in 0 .. MaxTrouble

\* A closed page polls no longer, except one closed before its onLoad was over: that sets
\* the timer afterwards and nothing stops it.
ClosedPagesAreQuiet ==
    \A i \in Pages : (pages[i].timer \/ roomPollTimer = i) /\ ~pages[i].open => undone

\* An action the server accepts answers the turn its player was shown, unless he tapped
\* again or left the page before the answer, or an answer was lost or overtaken by a later one.
ActionsAnswerTheTurnShown ==
    [][\A c \in Calls : Serve(c) /\ calls[c].step = "act" /\ server' # server
                         => calls[c].seen = server.move \/ excused]_tableVars

\* What the walk-through of the sockets expects (websocket-test.md): who logged in is let in.
OnlyStrangersAreRefused == socket # "refused"

\* A page left open is to end up showing the room and its table as they are, with nobody left in
\* the lobby of a room that is being played, if no page was closed before its onLoad was over.
\* Of a room that was ended friend-table is to show only that it is over: it keeps the last
\* table it had, with its turn, for good.
TableIsWatched == OpenPages # {} /\ ~undone
TableIsCurrent == \A i \in OpenPages :
    /\ pages[i].kind = "room" => server.room # "playing"
    /\ \/ pages[i].view = server
       \/ pages[i].kind = "table" /\ server.table = "none" /\ pages[i].view.room = server.room
=============================================================================
