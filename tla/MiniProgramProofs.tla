-------------------------- MODULE MiniProgramProofs --------------------------
(***************************************************************************)
(* The pages of the mini program, for any number of pages and requests at  *)
(* once and any rooms: a page that was closed polls no longer, an action   *)
(* that is accepted answers the turn its player was shown, and an amount   *)
(* goes to the hand it was typed for, but for the exceptions the           *)
(* properties name.                                                        *)
(***************************************************************************)
EXTENDS MiniProgram, FiniteSetTheorems, WellFoundedInduction, TLAPS

----------------------------------------------------------------------------
(* The inductive invariants *)

\* An interval belongs to a page that is open, or to one closed too early, and so does the
\* onLoad that is going to set it; the lobby's is set by lobbies.
QuietInv ==
    /\ \A i \in Pages : ~pages[i].open /\ ~undone =>
         /\ ~pages[i].timer /\ roomPollTimer # i
         /\ \A c \in Calls : calls[c].page = i => calls[c].step # "first"
    /\ \A i \in Pages : roomPollTimer = i => pages[i].kind = "room"

\* A view that offers the turn is the server's, as long as the player's own action, whose
\* answer is under way, has not ended that turn.
Current(v) == server.turn = "me" /\ v.move = server.move
Overtaken(v) == \E c \in Calls : calls[c].step = "act" /\ calls[c].answer.move > v.move
Fresh(v) == v.turn = "me" => Current(v) \/ Overtaken(v)

\* An action awaits its answer, which is the server's state as it left it and is not shown yet.
ActSound(c) ==
    /\ pages[calls[c].page].open
    /\ IF Pending(c) THEN Current([move |-> calls[c].seen])
       ELSE /\ calls[c].answer.table = "hands"
            /\ calls[c].answer.turn = "me" => Current(calls[c].answer)

\* One page is open, with one action under way; what a page shows is fresh, and what it is
\* going to show is fresh or so old that showing it is an excuse.
FreshInv ==
    /\ \A c, d \in Calls : calls[c].step = "act" /\ calls[d].step = "act" => c = d
    /\ \A c \in Calls : calls[c].step = "act" => ActSound(c)
    /\ \A i \in Pages : pages[i].open => Fresh(pages[i].view)
    /\ \A c \in Calls : \A i \in Pages :
         calls[c].page = i /\ pages[i].open =>
           \/ calls[c].step = "act"
           \/ Fresh(calls[c].answer)
           \/ calls[c].answer.move < pages[i].view.move

\* Once its table is gone the room answers no action any more, whatever pages go on showing.
Ended == server.room = "over" /\ server.table = "none"

TurnInv ==
    /\ server.turn # "nobody" => server.room = "playing" /\ server.table = "hands"
    /\ \A i, j \in Pages : pages[i].open /\ pages[j].open => i = j
    /\ ~excused /\ ~Ended => FreshInv

TableInv == TableTypeOK /\ QuietInv /\ TurnInv

----------------------------------------------------------------------------
\* A request is the open page's, a refresh of the room it is in, answered with a hand of it.
RequestSound(q) == q.page \in LedgerPages =>
    /\ ledgers[q.page].open
    /\ q.step = "refresh" => ledgers[q.page].inRoom /\ q.code = ledgers[q.page].code
    /\ q.answer # NoHand => q.answer.room = q.code /\ q.answer.hand > 0

\* An amount is typed for the hand that is shown, which is of the room the page is in, and the
\* last one that was refreshed.
LedgerSound(i) ==
    /\ ledgers[i].view = lastHandId
    /\ ~ledgers[i].inRoom => ledgers[i].view = NoHand
    /\ ledgers[i].view # NoHand =>
         /\ ledgers[i].view.room = ledgers[i].code /\ ledgers[i].view.hand > 0
         /\ ledgers[i].typed \in {NoHand, ledgers[i].view}

FormInv ==
    /\ \A i, j \in LedgerPages : ledgers[i].open /\ ledgers[j].open => i = j
    /\ timer \in LedgerPages => ledgers[timer].open
    /\ \A c \in LedgerCalls : RequestSound(lcalls[c])
    /\ (\A i \in LedgerPages : ~ledgers[i].open) => lastHandId = NoHand
    /\ \A i \in LedgerPages : ledgers[i].open => LedgerSound(i)

\* Whatever happened before, a page that is shown is open, and who is in a room, joins one or
\* refreshes one has its code.
PlacesInv ==
    /\ \A i \in LedgerPages : /\ ledgers[i].shown => ledgers[i].open
                              /\ ledgers[i].inRoom => ledgers[i].code \in Rooms
    /\ \A c \in LedgerCalls :
         /\ lcalls[c].step = "join" => ledgers[lcalls[c].page].code \in Rooms
         /\ lcalls[c].step = "refresh" => lcalls[c].code \in Rooms

LedgersInv == LedgerTypeOK /\ PlacesInv /\ (~astray => FormInv)

IInv == TableInv /\ LedgersInv /\ part \in Parts

----------------------------------------------------------------------------
(* Slots *)

\* The least of a set of slots is one of them.
LEMMA LeastSlot ==
  ASSUME NEW S \in SUBSET Nat, S # {}
  PROVE  Min(S) \in S
<1> DEFINE Below == {pair \in Nat \X Nat : pair[1] < pair[2]}
<1>1. IsWellFoundedOn(Below, Nat)
  BY NatLessThanWellFounded DEF OpToRel
<1>2. PICK m \in S : \A k \in S : <<k, m>> \notin Below
  <2> HIDE DEF Below
  <2> QED
    BY <1>1, WFMin
<1>3. ASSUME NEW k \in S, ~(m =< k) PROVE FALSE
  <2>1. m \in Nat /\ k \in Nat /\ k < m
    BY <1>3
  <2>2. <<k, m>> \in Below
    BY <2>1
  <2> QED
    BY <1>2, <2>2
<1> QED
  BY <1>3 DEF Min

----------------------------------------------------------------------------
(* Types of the practice pages *)

LEMMA TablePieces ==
  /\ NoPage \in Page
  /\ \A kind \in {"room", "table", "solo"} : NewPage(kind) \in Page
  /\ \A i \in Pages, step \in Steps : Asking(i, step) \in Call
  /\ \A p \in Page : \A i : Closed(p, i) \in Page
<1>1. NoPage \in Page
  BY DEF NoPage, Page, Kinds
<1>2. \A kind \in {"room", "table", "solo"} : NewPage(kind) \in Page
  BY DEF NewPage, Page, Kinds
<1>3. \A i \in Pages, step \in Steps : Asking(i, step) \in Call
  BY TableBounds DEF Asking, Call
<1>4. ASSUME NEW p \in Page, NEW i PROVE Closed(p, i) \in Page
  BY <1>1 DEF Closed, Page
<1> QED
  BY <1>1, <1>2, <1>3, <1>4

\* What the room may become, and from what.
LEMMA ChangeCases ==
  ASSUME TableTypeOK, NEW step, NEW turn \in {"me", "other"}, NEW v \in Changes(step, turn)
  PROVE  /\ v \in Views /\ v.move = server.move + 1
         /\ v.turn # "nobody" => v.room = "playing" /\ v.table = "hands"
         /\ \/ step = "act" /\ server.turn = turn /\ v.table = "hands"
            \/ step = "next" /\ server.turn = "nobody" /\ server.table = "hands"
            \/ step \in {"start", "chips", "ready"} /\ server.room = "waiting"
            \/ step \in {"end", "close"} /\ v.room = "over" /\ v.table = "none" /\ ~Ended
<1>1. server.move \in 0 .. MaxMoves /\ server.move < MaxMoves /\ v \in Becomes(step, turn)
  BY DEF Changes, TableTypeOK, Views
<1>2. \A room \in Statuses, b \in Tables, t \in Turns :
        /\ Moved(room, b, t) \in Views
        /\ Moved(room, b, t).move = server.move + 1 /\ Moved(room, b, t).turn = t
        /\ Moved(room, b, t).room = room /\ Moved(room, b, t).table = b
  BY <1>1, TableBounds DEF Moved, Views
<1>3. CASE step = "act"
  <2>1. server.turn = turn /\ \E t \in Turns : v = Moved("playing", "hands", t)
    BY <1>1, <1>3 DEF Becomes
  <2> QED
    BY <1>2, <1>3, <2>1 DEF Statuses, Tables
<1>4. CASE step = "next"
  <2>1. /\ server.table = "hands" /\ server.turn = "nobody"
        /\ \/ \E t \in {"me", "other"} : v = Moved("playing", "hands", t)
           \/ v = Moved("over", "finished", "nobody")
    BY <1>1, <1>4 DEF Becomes, Deals
  <2> QED
    BY <1>2, <1>4, <2>1 DEF Statuses, Tables, Turns
<1>5. CASE step = "start"
  <2>1. server.room = "waiting" /\ \E t \in {"me", "other"} : v = Moved("playing", "hands", t)
    BY <1>1, <1>5 DEF Becomes, Deals
  <2> QED
    BY <1>2, <1>5, <2>1 DEF Statuses, Tables, Turns
<1>6. CASE step \in {"chips", "ready"}
  <2>1. server.room = "waiting" /\ v = Moved("waiting", "none", "nobody")
    BY <1>1, <1>6 DEF Becomes
  <2> QED
    BY <1>2, <1>6, <2>1 DEF Statuses, Tables, Turns
<1>7. CASE step \in {"end", "close"}
  <2>1. (server.table # "none" \/ server.room = "waiting") /\ v = Moved("over", "none", "nobody")
    BY <1>1, <1>7 DEF Becomes
  <2> QED
    BY <1>2, <1>7, <2>1 DEF Statuses, Tables, Turns, Ended
<1>8. step \in {"act", "next", "start", "chips", "ready", "end", "close"}
  BY <1>1 DEF Becomes
<1> QED
  BY <1>3, <1>4, <1>5, <1>6, <1>7, <1>8

\* Every request that is sent, answered or goes on is one.
LEMMA CallTypes ==
  ASSUME TableTypeOK, NEW c \in Calls, calls[c] # Idle
  PROVE  /\ calls[c] \in Call /\ calls[c].page \in Pages /\ calls[c].step \in Steps
         /\ \A step \in Steps \cup {"idle"} :
              After(c, step) => calls' \in [Calls -> Call \cup {Idle}]
<1>1. calls[c] \in Call /\ calls[c].page \in Pages /\ calls[c].step \in Steps
  BY DEF TableTypeOK, Call
<1>2. ASSUME NEW step \in Steps \cup {"idle"}, After(c, step)
      PROVE  calls' \in [Calls -> Call \cup {Idle}]
  <2>1. (IF step = "idle" THEN Idle ELSE Asking(calls[c].page, step)) \in Call \cup {Idle}
    BY <1>1, TablePieces
  <2> QED
    BY <1>2, <2>1 DEF After, TableTypeOK
<1> QED
  BY <1>1, <1>2

\* A request is sent from a slot of its own.
LEMMA AskTypes ==
  ASSUME TableTypeOK, NEW q \in Call, Asks(q)
  PROVE  /\ TableTypeOK' <=> (excused' \in BOOLEAN /\ trouble' \in 0 .. MaxTrouble)
         /\ FreeCalls # {} /\ Min(FreeCalls) \in FreeCalls
<1>1. FreeCalls \in SUBSET Nat /\ FreeCalls # {}
  BY DEF FreeCalls, Calls, Asks
<1>2. Min(FreeCalls) \in FreeCalls
  BY <1>1, LeastSlot
<1>3. calls' \in [Calls -> Call \cup {Idle}]
  BY <1>2 DEF Asks, TableTypeOK
<1>4. TableTypeOK' <=> (excused' \in BOOLEAN /\ trouble' \in 0 .. MaxTrouble)
  BY <1>3 DEF Asks, TableTypeOK
<1> QED
  BY <1>1, <1>2, <1>4

LEMMA TroubleTypes ==
  ASSUME TableTypeOK
  PROVE  /\ Fails => trouble' \in 0 .. MaxTrouble
         /\ \A it \in BOOLEAN : TroubleIf(it) => trouble' \in 0 .. MaxTrouble
BY TableBounds DEF TableTypeOK, Fails, TroubleIf

\* Requests a new page sends from slots of their own.
LEMMA LoadingTypes ==
  ASSUME TableTypeOK, NEW i \in Pages, NEW kind, Loading(i, kind)
  PROVE  calls' \in [Calls -> Call \cup {Idle}]
<1> DEFINE first == Asking(i, "first")
           load == Asking(i, "load")
<1>1. first \in Call /\ load \in Call
  BY TablePieces DEF Steps
<1> HIDE DEF first, load
<1>2. \/ \E c, d : calls' = [calls EXCEPT ![c] = first, ![d] = load]
      \/ \E c : calls' = [calls EXCEPT ![c] = first]
  BY DEF Loading, first, load
<1> QED
  BY <1>1, <1>2 DEF TableTypeOK

\* Pages that come and go.
LEMMA VisitTypes ==
  ASSUME TableTypeOK
  PROVE  /\ \A kind \in {"room", "solo"} : OpenPage(kind) => TableTypeOK'
         /\ Redirect => TableTypeOK'
         /\ RedirectFails => TableTypeOK'
         /\ \A i \in Pages : ClosePage(i) => TableTypeOK'
<1>1. ASSUME NEW kind \in {"room", "solo"}, OpenPage(kind) PROVE TableTypeOK'
  <2>1. PICK i \in FreePages : OpenPage(kind)!(i)
    BY <1>1, Zenon DEF OpenPage
  <2>2. i \in Pages /\ Loading(i, kind)
    BY <2>1 DEF FreePages
  <2>3. calls' \in [Calls -> Call \cup {Idle}]
    BY <2>2, LoadingTypes
  <2>4. pages' \in [Pages -> Page]
    BY <2>1, TablePieces DEF TableTypeOK
  <2>5. visits' \in 0 .. MaxVisits /\ isNavigatingToTable' \in BOOLEAN
    BY <2>1, TableBounds DEF TableTypeOK
  <2> QED
    BY <2>1, <2>3, <2>4, <2>5 DEF TableTypeOK
<1>2. ASSUME NEW S, OnUnload(S)
      PROVE  /\ roomPollTimer' \in 0 .. MaxPages /\ socket' \in {"none", "connected", "refused"}
             /\ {undone', excused'} \subseteq BOOLEAN /\ trouble' \in 0 .. MaxTrouble
  <2>1. LeftDuring(S, {"first", "act"}) \in BOOLEAN
    BY DEF LeftDuring
  <2>2. trouble' \in 0 .. MaxTrouble
    BY <1>2, <2>1, TroubleTypes DEF OnUnload
  <2>3. roomPollTimer' \in 0 .. MaxPages
    BY <1>2, TableBounds DEF OnUnload, TableTypeOK
  <2>4. socket' \in {"none", "connected", "refused"}
    BY <1>2 DEF OnUnload, CloseSocket, TableTypeOK
  <2>5. {undone', excused'} \subseteq BOOLEAN
    BY <1>2 DEF OnUnload, LeftDuring, TableTypeOK
  <2> QED
    BY <2>2, <2>3, <2>4, <2>5
<1>3. ASSUME Redirect PROVE TableTypeOK'
  <2>1. PICK i \in FreePages : Redirect!(i)
    BY <1>3, Zenon DEF Redirect
  <2>2. i \in Pages /\ Loading(i, "table")
    BY <2>1 DEF FreePages
  <2>3. calls' \in [Calls -> Call \cup {Idle}]
    BY <2>2, LoadingTypes
  <2>4. pages' \in [Pages -> Page]
    BY <2>1, TablePieces DEF TableTypeOK
  <2>5. /\ OnUnload(OpenPages) /\ redirecting' = FALSE
        /\ UNCHANGED <<visits, server, isNavigatingToTable>>
    BY <2>1
  <2> QED
    BY <1>2, <2>3, <2>4, <2>5 DEF TableTypeOK
<1>4. ASSUME RedirectFails PROVE TableTypeOK'
  BY <1>4, TroubleTypes DEF RedirectFails, TableTypeOK
<1>5. ASSUME NEW i \in Pages, ClosePage(i) PROVE TableTypeOK'
  <2>1. pages' \in [Pages -> Page]
    BY <1>5, TablePieces DEF TableTypeOK, ClosePage
  <2>2. OnUnload({i})
    BY <1>5 DEF ClosePage
  <2> QED
    BY <1>2, <1>5, <2>1, <2>2 DEF TableTypeOK, ClosePage
<1> QED
  BY <1>1, <1>3, <1>4, <1>5

\* What is asked for.
LEMMA AskingTypes ==
  ASSUME TableTypeOK, NEW i \in Pages
  PROVE  \/ Poll(i) \/ PollRoom(i) \/ SendAction(i) \/ NextHand(i) \/ StartRoom(i)
         \/ StartSoloRoom(i) \/ EndRoom(i) \/ \E step \in {"chips", "ready"} : ChangeRoom(i, step)
         => TableTypeOK'
<1>1. ASSUME NEW step \in Steps, Asks(Asking(i, step)), UNCHANGED <<excused, trouble>>
      PROVE  TableTypeOK'
  <2>1. Asking(i, step) \in Call
    BY TablePieces
  <2> QED
    BY <1>1, <2>1, AskTypes DEF TableTypeOK
<1>2. ASSUME SendAction(i) PROVE TableTypeOK'
  <2> DEFINE q == [Asking(i, "act") EXCEPT !.seen = pages[i].view.move]
             again == \E c \in Calls : calls[c].step = "act"
  <2>1. pages[i].view \in Views
    BY <1>2 DEF SendAction, TableTypeOK, Page, NoView
  <2>2. q \in Call
    BY <2>1 DEF Asking, Call, Steps, Views
  <2>3. Asks(q) /\ excused' = (excused \/ again) /\ TroubleIf(again)
    BY <1>2 DEF SendAction
  <2>4. again \in BOOLEAN
    OBVIOUS
  <2> HIDE DEF q, again
  <2>5. trouble' \in 0 .. MaxTrouble
    BY <2>3, <2>4, TroubleTypes
  <2>6. excused' \in BOOLEAN
    BY <2>3, <2>4 DEF TableTypeOK
  <2> QED
    BY <2>2, <2>3, <2>5, <2>6, AskTypes
<1>3. Poll(i) => TableTypeOK'
  BY <1>1 DEF Poll, Steps
<1>4. PollRoom(i) => TableTypeOK'
  BY <1>1 DEF PollRoom, Steps
<1>5. NextHand(i) => TableTypeOK'
  BY <1>1 DEF NextHand, Steps
<1>6. StartRoom(i) \/ StartSoloRoom(i) \/ EndRoom(i) => TableTypeOK'
  BY <1>1 DEF StartRoom, StartSoloRoom, EndRoom, Steps
<1>7. ASSUME NEW step \in {"chips", "ready"}, ChangeRoom(i, step) PROVE TableTypeOK'
  BY <1>1, <1>7 DEF ChangeRoom, Steps
<1> QED
  BY <1>2, <1>3, <1>4, <1>5, <1>6, <1>7

\* A request the server handles reads the room or changes it.
LEMMA ServeCases ==
  ASSUME TableTypeOK, NEW c \in Calls, Serve(c)
  PROVE  /\ calls[c] # Idle /\ server' \in Views /\ server' = calls'[c].answer
         /\ calls' = [calls EXCEPT ![c].answer = server']
         /\ \/ Reads(calls[c].step) /\ server' = server
            \/ server' \in Changes(calls[c].step, "me")
<1>1. calls[c] \in Call /\ calls[c] # Idle
  BY DEF Serve, Pending, TableTypeOK
<1>2. /\ calls' = [calls EXCEPT ![c].answer = server']
      /\ \/ Reads(calls[c].step) /\ server' = server
         \/ server' \in Changes(calls[c].step, "me")
  BY DEF Serve
<1>3. server' \in Views
  BY <1>2, ChangeCases DEF TableTypeOK
<1>4. calls'[c].answer = server'
  BY <1>1, <1>2 DEF TableTypeOK, Call
<1> QED
  BY <1>1, <1>2, <1>3, <1>4

\* The room changes.
LEMMA ServerTypes ==
  ASSUME TableTypeOK
  PROVE  /\ OthersMove => TableTypeOK'
         /\ \A c \in Calls : Serve(c) => TableTypeOK'
<1>1. ASSUME OthersMove PROVE TableTypeOK'
  <2>1. \E step : server' \in Changes(step, "other")
    BY <1>1 DEF OthersMove
  <2>2. server' \in Views
    BY <2>1, ChangeCases
  <2> QED
    BY <1>1, <2>2 DEF OthersMove, TableTypeOK
<1>2. ASSUME NEW c \in Calls, Serve(c) PROVE TableTypeOK'
  <2>1. calls[c] # Idle /\ server' \in Views /\ calls' = [calls EXCEPT ![c].answer = server']
    BY <1>2, ServeCases
  <2>2. calls[c] \in Call
    BY <2>1 DEF TableTypeOK
  <2>3. [calls[c] EXCEPT !.answer = server'] \in Call
    BY <2>1, <2>2 DEF Call
  <2>4. calls' \in [Calls -> Call \cup {Idle}]
    BY <2>1, <2>3 DEF TableTypeOK
  <2> QED
    BY <1>2, <2>1, <2>4 DEF Serve, TableTypeOK
<1> QED
  BY <1>1, <1>2

\* An answer is shown to whoever asked.
LEMMA ShownTypes ==
  ASSUME TableTypeOK, NEW i \in Pages, NEW answer \in Views
  PROVE  /\ Shown(pages[i], answer) \in Views \cup {NoView}
         /\ Shows(i, answer) => pages' \in [Pages -> Page] /\ excused' \in BOOLEAN
<1>1. pages[i] \in Page
  BY DEF TableTypeOK
<1>2. Shown(pages[i], answer) \in Views \cup {NoView}
  <2>1. CASE pages[i].view = NoView
    BY <1>1, <2>1 DEF Shown, NoView
  <2>2. CASE pages[i].view # NoView
    <3>1. pages[i].view \in Views
      BY <1>1, <2>2 DEF Page
    <3>2. [pages[i].view EXCEPT !.room = answer.room] \in Views
      BY <3>1 DEF Views
    <3> QED
      BY <3>1, <3>2 DEF Shown
  <2> QED
    BY <2>1, <2>2
<1>3. ASSUME Shows(i, answer) PROVE pages' \in [Pages -> Page] /\ excused' \in BOOLEAN
  <2> DEFINE shown == Shown(pages[i], answer)
  <2>1. pages' = [pages EXCEPT ![i].view = shown]
        /\ excused' = (excused \/ pages[i].view.move > shown.move)
    BY <1>3 DEF Shows
  <2> HIDE DEF shown
  <2>2. shown \in Views \cup {NoView}
    BY <1>2 DEF shown
  <2>3. [pages[i] EXCEPT !.view = shown] \in Page
    BY <1>1, <2>2 DEF Page
  <2> QED
    BY <2>1, <2>3 DEF TableTypeOK
<1> QED
  BY <1>2, <1>3

\* A lobby gives way to the table, and the socket is opened.
LEMMA WayTypes ==
  ASSUME TableTypeOK, NEW i, NEW started
  PROVE  /\ NavigateToTable(i, started) => {isNavigatingToTable', redirecting'} \subseteq BOOLEAN
         /\ Connect => socket' \in {"none", "connected", "refused"}
<1>1. NavigateToTable(i, started) => {isNavigatingToTable', redirecting'} \subseteq BOOLEAN
  BY DEF NavigateToTable, TableTypeOK
<1>2. Connect => socket' \in {"none", "connected", "refused"}
  BY DEF Connect, HandleConnection, TableTypeOK
<1> QED
  BY <1>1, <1>2

\* The end of an onLoad, with an answer or without.
LEMMA OnLoadTypes ==
  ASSUME TableTypeOK, NEW c \in Calls, calls[c] # Idle, OnLoadEnds(c)
  PROVE  /\ calls' \in [Calls -> Call \cup {Idle}]
         /\ pages' \in [Pages -> Page]
         /\ {isNavigatingToTable', redirecting', undone', excused'} \subseteq BOOLEAN
         /\ socket' \in {"none", "connected", "refused"}
         /\ roomPollTimer' \in 0 .. MaxPages
<1> DEFINE i == calls[c].page
           shown == IF Answered(c) THEN Shown(pages[i], calls[c].answer) ELSE pages[i].view
<1>1. calls[c] \in Call /\ i \in Pages /\ calls[c].answer \in Views \cup {NoView}
  BY DEF TableTypeOK, Call
<1>2. calls' \in [Calls -> Call \cup {Idle}]
  BY CallTypes DEF OnLoadEnds
<1>3. NavigateToTable(i, calls[c].answer.room = "playing") /\ Connect
  BY DEF OnLoadEnds, Emits
<1>4. /\ {isNavigatingToTable', redirecting'} \subseteq BOOLEAN
      /\ socket' \in {"none", "connected", "refused"}
  BY <1>3, WayTypes
<1>5. pages[i] \in Page
  BY <1>1 DEF TableTypeOK
<1>6. shown \in Views \cup {NoView}
  BY <1>1, <1>5, ShownTypes DEF Page, Answered
<1>7. /\ pages' = [pages EXCEPT ![i].view = shown,
                                ![i].timer = @ \/ pages[i].kind # "room"]
      /\ roomPollTimer' = IF pages[i].kind = "room" THEN i ELSE roomPollTimer
      /\ excused' = (excused \/ pages[i].view.move > shown.move) /\ UNCHANGED undone
  BY DEF OnLoadEnds
<1> HIDE DEF i, shown
<1>8. [pages[i] EXCEPT !.view = shown, !.timer = @ \/ pages[i].kind # "room"] \in Page
  BY <1>5, <1>6 DEF Page
<1>9. pages' \in [Pages -> Page]
  BY <1>1, <1>7, <1>8 DEF TableTypeOK
<1>10. {undone', excused'} \subseteq BOOLEAN /\ roomPollTimer' \in 0 .. MaxPages
  BY <1>1, <1>7 DEF TableTypeOK, Pages
<1> QED
  BY <1>2, <1>4, <1>9, <1>10

\* What becomes of a request.
LEMMA AnswerTypes ==
  ASSUME TableTypeOK, NEW c \in Calls
  PROVE  Deliver(c) \/ Refused(c) \/ RequestLost(c) \/ AnswerLost(c) \/ OnLoadFails(c)
         => TableTypeOK'
<1>1. ASSUME Deliver(c) PROVE TableTypeOK'
  <2>1. calls[c] # Idle /\ calls[c].answer \in Views /\ calls[c].page \in Pages
    BY <1>1 DEF Deliver, Answered, Idle, TableTypeOK, Call
  <2>2. CASE Loaded(c)
    <3>1. calls' \in [Calls -> Call \cup {Idle}]
      BY <2>1, <2>2, CallTypes DEF Loaded
    <3>2. /\ Shows(calls[c].page, calls[c].answer)
          /\ NavigateToTable(calls[c].page, calls[c].answer.room = "playing")
      BY <2>2 DEF Loaded
    <3>3. pages' \in [Pages -> Page] /\ excused' \in BOOLEAN
      BY <2>1, <3>2, ShownTypes
    <3>4. {isNavigatingToTable', redirecting'} \subseteq BOOLEAN
      BY <3>2, WayTypes
    <3>5. UNCHANGED <<roomPollTimer, undone, socket, visits, server, trouble>>
      BY <1>1, <2>2 DEF Deliver, Loaded
    <3> QED
      BY <3>1, <3>3, <3>4, <3>5 DEF TableTypeOK
  <2>3. CASE OwnAnswer(c)
    <3>1. calls' \in [Calls -> Call \cup {Idle}]
      BY <2>1, <2>3, CallTypes DEF OwnAnswer, Steps
    <3>2. pages' \in [Pages -> Page] /\ excused' \in BOOLEAN
      BY <2>1, <2>3, ShownTypes DEF OwnAnswer, TableTypeOK
    <3>3. {isNavigatingToTable', redirecting'} \subseteq BOOLEAN
      BY <2>3, WayTypes DEF OwnAnswer
    <3>4. socket' \in {"none", "connected", "refused"}
      BY <2>3, WayTypes DEF OwnAnswer, Emits, TableTypeOK
    <3>5. UNCHANGED <<roomPollTimer, undone, visits, server, trouble>>
      BY <1>1, <2>3 DEF Deliver, OwnAnswer
    <3> QED
      BY <3>1, <3>2, <3>3, <3>4, <3>5 DEF TableTypeOK
  <2>4. CASE OnLoadEnds(c)
    BY <1>1, <2>1, <2>4, OnLoadTypes DEF Deliver, TableTypeOK
  <2> QED
    BY <1>1, <2>2, <2>3, <2>4 DEF Deliver
<1>2. ASSUME Unanswered(c), Pending(c), trouble' \in 0 .. MaxTrouble, UNCHANGED <<visits, server>>
      PROVE  TableTypeOK'
  <2>1. calls[c] # Idle
    BY <1>2 DEF Pending
  <2>2. CASE calls[c].step = "first"
    <3>1. OnLoadEnds(c)
      BY <1>2, <2>2 DEF Unanswered
    <3> QED
      BY <1>2, <2>1, <3>1, OnLoadTypes DEF TableTypeOK
  <2>3. CASE calls[c].step # "first"
    <3>1. calls' \in [Calls -> Call \cup {Idle}]
      BY <1>2, <2>1, <2>3, CallTypes DEF Unanswered
    <3> QED
      BY <1>2, <2>3, <3>1 DEF Unanswered, TableTypeOK
  <2> QED
    BY <2>2, <2>3
<1>3. Refused(c) => TableTypeOK'
  BY <1>2 DEF Refused, TableTypeOK
<1>4. RequestLost(c) => TableTypeOK'
  BY <1>2, TroubleTypes DEF RequestLost
<1>5. ASSUME AnswerLost(c) \/ OnLoadFails(c) PROVE TableTypeOK'
  <2>1. calls[c] # Idle
    BY <1>5 DEF AnswerLost, OnLoadFails, Answered, Idle
  <2>2. calls' \in [Calls -> Call \cup {Idle}]
    BY <1>5, <2>1, CallTypes DEF AnswerLost, OnLoadFails
  <2>3. trouble' \in 0 .. MaxTrouble
    BY <1>5, TroubleTypes DEF AnswerLost, OnLoadFails
  <2> QED
    BY <1>5, <2>2, <2>3 DEF AnswerLost, OnLoadFails, TableTypeOK
<1> QED
  BY <1>1, <1>3, <1>4, <1>5

LEMMA TableTypes ==
  TableTypeOK /\ (TableStep \/ OpenPage("room") \/ OpenPage("solo")) => TableTypeOK'
BY VisitTypes, AskingTypes, ServerTypes, AnswerTypes DEF TableStep

----------------------------------------------------------------------------
(* Closed pages are quiet *)

\* No page comes or goes, no onLoad begins and no interval is set.
LEMMA QuietKept ==
  ASSUME QuietInv, UNCHANGED roomPollTimer, undone => undone',
         \A i \in Pages : /\ pages'[i].open = pages[i].open /\ pages'[i].timer = pages[i].timer
                          /\ pages'[i].kind = pages[i].kind,
         \A c \in Calls : calls'[c].step = "first" =>
                            calls[c].step = "first" /\ calls'[c].page = calls[c].page
  PROVE  QuietInv'
BY DEF QuietInv

\* A request goes on, or ends, and the others are left alone.
LEMMA AfterEffect ==
  ASSUME TableTypeOK, NEW c \in Calls, NEW step, After(c, step)
  PROVE  /\ \A d \in Calls : d # c => calls'[d] = calls[d]
         /\ calls'[c] = IF step = "idle" THEN Idle ELSE Asking(calls[c].page, step)
BY DEF After, TableTypeOK

\* A request is sent, and the others are left alone.
LEMMA AskEffect ==
  ASSUME TableTypeOK, NEW q \in Call, Asks(q)
  PROVE  \E slot \in FreeCalls : /\ calls'[slot] = q
                                 /\ \A d \in Calls : d # slot => calls'[d] = calls[d]
<1>1. Min(FreeCalls) \in FreeCalls
  BY AskTypes
<1>2. Min(FreeCalls) \in Calls
  BY <1>1 DEF FreeCalls
<1> QED
  BY <1>1, <1>2 DEF Asks, TableTypeOK

\* A page is shown what it asked for.
LEMMA ShowsEffect ==
  ASSUME TableTypeOK, NEW i \in Pages, NEW answer, Shows(i, answer)
  PROVE  /\ \A j \in Pages : j # i => pages'[j] = pages[j]
         /\ pages'[i].open = pages[i].open /\ pages'[i].timer = pages[i].timer
         /\ pages'[i].kind = pages[i].kind
         /\ pages'[i].view = Shown(pages[i], answer)
         /\ excused' = (excused \/ pages[i].view.move > Shown(pages[i], answer).move)
<1>1. pages[i] \in Page
  BY DEF TableTypeOK
<1>2. pages' = [pages EXCEPT ![i].view = Shown(pages[i], answer)]
  BY DEF Shows
<1> QED
  BY <1>1, <1>2 DEF Shows, TableTypeOK, Page

\* The same of the end of onLoad, which sets the timer.
LEMMA OnLoadEffect ==
  ASSUME TableTypeOK, NEW c \in Calls, calls[c] # Idle, OnLoadEnds(c), NEW i \in Pages,
         i = calls[c].page
  PROVE  /\ \A j \in Pages : j # i => pages'[j] = pages[j]
         /\ pages'[i].open = pages[i].open /\ pages'[i].kind = pages[i].kind
         /\ roomPollTimer' = IF pages[i].kind = "room" THEN i ELSE roomPollTimer
         /\ pages'[i].view = IF Answered(c) THEN Shown(pages[i], calls[c].answer)
                             ELSE pages[i].view
         /\ excused' = (excused \/ pages[i].view.move > pages'[i].view.move)
         /\ UNCHANGED undone /\ calls[c].step = "first"
<1> DEFINE shown == IF Answered(c) THEN Shown(pages[i], calls[c].answer) ELSE pages[i].view
<1>1. pages[i] \in Page
  BY DEF TableTypeOK
<1>2. /\ pages' = [pages EXCEPT ![i].view = shown,
                                ![i].timer = @ \/ pages[i].kind # "room"]
      /\ roomPollTimer' = IF pages[i].kind = "room" THEN i ELSE roomPollTimer
      /\ excused' = (excused \/ pages[i].view.move > shown.move)
      /\ UNCHANGED undone /\ calls[c].step = "first"
  BY DEF OnLoadEnds
<1> HIDE DEF shown
<1>3. /\ pages'[i].open = pages[i].open /\ pages'[i].kind = pages[i].kind
      /\ pages'[i].view = shown
      /\ \A j \in Pages : j # i => pages'[j] = pages[j]
  BY <1>1, <1>2 DEF TableTypeOK, Page
<1> QED
  BY <1>2, <1>3 DEF shown

\* What is asked for, the room's changes and the answers to all but an onLoad.
LEMMA AskingQuiet ==
  ASSUME TableTypeOK, QuietInv, NEW q \in Call, q.step # "first", Asks(q)
  PROVE  QuietInv'
<1>1. \A c \in Calls : calls'[c].step = "first" =>
                         calls[c].step = "first" /\ calls'[c].page = calls[c].page
  BY AskEffect
<1> QED
  BY <1>1, QuietKept DEF Asks

LEMMA AfterQuiet ==
  ASSUME TableTypeOK, QuietInv, NEW c \in Calls, NEW step, step # "first", After(c, step),
         UNCHANGED roomPollTimer, undone => undone',
         \A i \in Pages : /\ pages'[i].open = pages[i].open /\ pages'[i].timer = pages[i].timer
                          /\ pages'[i].kind = pages[i].kind
  PROVE  QuietInv'
<1>1. \A d \in Calls : calls'[d].step = "first" =>
                         calls[d].step = "first" /\ calls'[d].page = calls[d].page
  <2>1. calls'[c].step # "first"
    <3>1. calls'[c] = IF step = "idle" THEN Idle ELSE Asking(calls[c].page, step)
      BY AfterEffect
    <3> QED
      BY <3>1 DEF Idle, Asking
  <2>2. \A d \in Calls : d # c => calls'[d] = calls[d]
    BY AfterEffect
  <2> QED
    BY <2>1, <2>2
<1> QED
  BY <1>1, QuietKept

\* A timer is set late only on a page that was not closed, or was closed too early.
LEMMA OnLoadQuiet ==
  ASSUME TableTypeOK, QuietInv, NEW c \in Calls, calls[c] # Idle, OnLoadEnds(c)
  PROVE  QuietInv'
<1> DEFINE i == calls[c].page
<1>1. i \in Pages
  BY CallTypes
<1>2. /\ \A j \in Pages : j # i => pages'[j] = pages[j]
      /\ pages'[i].open = pages[i].open /\ pages'[i].kind = pages[i].kind
      /\ roomPollTimer' = IF pages[i].kind = "room" THEN i ELSE roomPollTimer
      /\ UNCHANGED undone /\ calls[c].step = "first"
  BY <1>1, OnLoadEffect
<1>3. \A d \in Calls : calls'[d].step = "first" =>
                         calls[d].step = "first" /\ calls'[d].page = calls[d].page
  BY AfterEffect DEF OnLoadEnds, Idle
<1>4. ~pages[i].open => undone
  BY <1>1, <1>2 DEF QuietInv
<1> HIDE DEF i
<1>5. ASSUME NEW j \in Pages, ~pages'[j].open, ~undone'
      PROVE  /\ ~pages'[j].timer /\ roomPollTimer' # j
             /\ \A d \in Calls : calls'[d].page = j => calls'[d].step # "first"
  <2>1. j # i /\ ~pages[j].open /\ pages'[j] = pages[j]
    BY <1>2, <1>4, <1>5
  <2> QED
    BY <1>2, <1>3, <1>5, <2>1 DEF QuietInv
<1>6. \A j \in Pages : roomPollTimer' = j => pages'[j].kind = "room"
  BY <1>2 DEF QuietInv
<1> QED
  BY <1>5, <1>6 DEF QuietInv

\* A new page's requests are its own.
LEMMA LoadingEffect ==
  ASSUME TableTypeOK, NEW i \in Pages, NEW kind, Loading(i, kind), NEW d \in Calls
  PROVE  calls'[d] \in {calls[d], Asking(i, "first"), Asking(i, "load")}
<1> DEFINE first == Asking(i, "first")
           load == Asking(i, "load")
<1>1. \/ \E c, e : calls' = [calls EXCEPT ![c] = first, ![e] = load]
      \/ \E c : calls' = [calls EXCEPT ![c] = first]
  BY DEF Loading
<1> HIDE DEF first, load
<1>2. calls'[d] \in {calls[d], first, load}
  BY <1>1 DEF TableTypeOK
<1> QED
  BY <1>2 DEF first, load

\* A page that closes has no timer, and a lobby stops the one of the lobbies.
LEMMA ClosedEffect ==
  ASSUME NEW p \in Page, NEW i
  PROVE  /\ ~Closed(p, i).open /\ ~Closed(p, i).timer /\ Closed(p, i).view = NoView
         /\ Of(i) # {} => Closed(p, i).kind = p.kind
BY DEF Closed, Page, NoPage

LEMMA VisitQuiet ==
  ASSUME TableTypeOK, QuietInv
  PROVE  /\ \A kind \in {"room", "solo"} : OpenPage(kind) => QuietInv'
         /\ Redirect => QuietInv'
         /\ RedirectFails => QuietInv'
         /\ \A i \in Pages : ClosePage(i) => QuietInv'
<1>1. ASSUME NEW kind \in {"room", "solo"}, OpenPage(kind) PROVE QuietInv'
  <2>1. PICK i \in FreePages : OpenPage(kind)!(i)
    BY <1>1, Zenon DEF OpenPage
  <2>2. i \in Pages /\ roomPollTimer # i
    BY <2>1 DEF FreePages
  <2>3. \A j \in Pages : j # i => pages'[j] = pages[j]
    BY <2>1, <2>2 DEF TableTypeOK
  <2>4. pages'[i].open
    BY <2>1, <2>2 DEF TableTypeOK, NewPage
  <2>5. \A d \in Calls : calls'[d] = calls[d] \/ calls'[d].page = i
    BY <2>1, <2>2, LoadingEffect DEF Asking
  <2>6. UNCHANGED <<roomPollTimer, undone>>
    BY <2>1
  <2>7. ASSUME NEW j \in Pages, ~pages'[j].open, ~undone'
        PROVE  /\ ~pages'[j].timer /\ roomPollTimer' # j
               /\ \A d \in Calls : calls'[d].page = j => calls'[d].step # "first"
    BY <2>3, <2>4, <2>5, <2>6, <2>7 DEF QuietInv
  <2>8. \A j \in Pages : roomPollTimer' = j => pages'[j].kind = "room"
    BY <2>2, <2>3, <2>6 DEF QuietInv
  <2> QED
    BY <2>7, <2>8 DEF QuietInv
<1>2. ASSUME NEW S \in SUBSET Pages, OnUnload(S),
             \A j \in S : pages[j].open /\ pages'[j] = Closed(pages[j], j),
             \A j \in Pages : \/ pages'[j] = pages[j] \/ j \in S
                              \/ pages'[j].open /\ roomPollTimer # j,
             \A d \in Calls : \/ calls'[d] = calls[d]
                              \/ calls'[d].page \notin Pages \/ pages'[calls'[d].page].open
      PROVE  QuietInv'
  <2>1. /\ roomPollTimer' = IF \E j \in S : pages[j].kind = "room" THEN 0 ELSE roomPollTimer
        /\ undone' = (undone \/ LeftDuring(S, {"first"}))
    BY <1>2 DEF OnUnload
  <2>2. ASSUME NEW j \in S, ~undone'
        PROVE  /\ ~pages'[j].timer /\ roomPollTimer' # j
               /\ \A d \in Calls : calls'[d].page = j => calls'[d].step # "first"
    <3>1. pages[j] \in Page /\ j \in Pages /\ j # 0
      BY DEF TableTypeOK, Pages
    <3>2. ~pages'[j].timer /\ ~pages'[j].open
      BY <1>2, <3>1, ClosedEffect
    <3>3. roomPollTimer' # j
      BY <2>1, <3>1 DEF QuietInv
    <3>4. ASSUME NEW d \in Calls, calls'[d].page = j PROVE calls'[d].step # "first"
      <4>1. calls'[d] = calls[d]
        BY <1>2, <3>1, <3>2, <3>4
      <4> QED
        BY <2>1, <2>2, <3>4, <4>1 DEF LeftDuring, Of
    <3> QED
      BY <3>2, <3>3, <3>4
  <2>3. ASSUME NEW j \in Pages, j \notin S, ~pages'[j].open, ~undone'
        PROVE  /\ ~pages'[j].timer /\ roomPollTimer' # j
               /\ \A d \in Calls : calls'[d].page = j => calls'[d].step # "first"
    <3>1. pages'[j] = pages[j]
      BY <1>2, <2>3, Zenon
    <3>2. ~undone
      BY <2>1, <2>3, Zenon
    <3>3. j # 0
      BY DEF Pages
    <3>4. \A d \in Calls : calls'[d].page = j => calls'[d] = calls[d]
      BY <1>2, <2>3
    <3> QED
      BY <2>1, <2>3, <3>1, <3>2, <3>3, <3>4 DEF QuietInv
  <2>4. ASSUME NEW j \in Pages, roomPollTimer' = j PROVE pages'[j].kind = "room"
    <3>1. roomPollTimer = j /\ ~\E k \in S : pages[k].kind = "room"
      BY <2>1, <2>4 DEF Pages
    <3>2. pages[j].kind = "room"
      BY <3>1 DEF QuietInv
    <3>3. j \notin S
      BY <3>1, <3>2
    <3> QED
      BY <1>2, <3>1, <3>2, <3>3
  <2> QED
    BY <2>2, <2>3, <2>4 DEF QuietInv
<1>3. ASSUME Redirect PROVE QuietInv'
  <2>1. PICK i \in FreePages : Redirect!(i)
    BY <1>3, Zenon DEF Redirect
  <2>2. i \in Pages /\ roomPollTimer # i /\ ~pages[i].open
    BY <2>1 DEF FreePages
  <2>3. /\ \A j \in OpenPages : pages[j].open /\ pages'[j] = Closed(pages[j], j)
        /\ \A j \in Pages : j \notin OpenPages /\ j # i => pages'[j] = pages[j]
    BY <2>1, <2>2 DEF OpenPages
  <2>4. pages'[i].open
    BY <2>1, <2>2 DEF NewPage
  <2>5. \A d \in Calls : calls'[d] = calls[d] \/ calls'[d].page = i
    BY <2>1, <2>2, LoadingEffect DEF Asking
  <2>6. OnUnload(OpenPages) /\ OpenPages \in SUBSET Pages
    BY <2>1 DEF OpenPages
  <2> QED
    BY <1>2, <2>2, <2>3, <2>4, <2>5, <2>6
<1>4. ASSUME RedirectFails PROVE QuietInv'
  BY <1>4, QuietKept DEF RedirectFails
<1>5. ASSUME NEW i \in Pages, ClosePage(i) PROVE QuietInv'
  <2>1. /\ pages[i].open /\ pages'[i] = Closed(pages[i], i)
        /\ \A j \in Pages : j # i => pages'[j] = pages[j]
    BY <1>5 DEF ClosePage, TableTypeOK
  <2>2. OnUnload({i}) /\ calls' = calls
    BY <1>5 DEF ClosePage
  <2> QED
    BY <1>2, <2>1, <2>2
<1> QED
  BY <1>1, <1>3, <1>4, <1>5

LEMMA AskingStepsQuiet ==
  ASSUME TableTypeOK, QuietInv, NEW i \in Pages
  PROVE  \/ Poll(i) \/ PollRoom(i) \/ SendAction(i) \/ NextHand(i) \/ StartRoom(i)
         \/ StartSoloRoom(i) \/ EndRoom(i) \/ \E step \in {"chips", "ready"} : ChangeRoom(i, step)
         => QuietInv'
<1>1. ASSUME NEW step \in Steps, step # "first", Asks(Asking(i, step)) PROVE QuietInv'
  BY <1>1, TablePieces, AskingQuiet DEF Asking
<1>2. ASSUME SendAction(i) PROVE QuietInv'
  <2> DEFINE q == [Asking(i, "act") EXCEPT !.seen = pages[i].view.move]
  <2>1. pages[i].view \in Views
    BY <1>2 DEF SendAction, TableTypeOK, Page, NoView
  <2>2. q \in Call /\ q.step = "act"
    BY <2>1 DEF Asking, Call, Steps, Views
  <2>3. Asks(q)
    BY <1>2 DEF SendAction
  <2> QED
    BY <2>2, <2>3, AskingQuiet
<1>3. Poll(i) => QuietInv'
  BY <1>1 DEF Poll, Steps
<1>4. PollRoom(i) => QuietInv'
  BY <1>1 DEF PollRoom, Steps
<1>5. NextHand(i) => QuietInv'
  BY <1>1 DEF NextHand, Steps
<1>6. StartRoom(i) \/ StartSoloRoom(i) \/ EndRoom(i) => QuietInv'
  BY <1>1 DEF StartRoom, StartSoloRoom, EndRoom, Steps
<1>7. ASSUME NEW step \in {"chips", "ready"}, ChangeRoom(i, step) PROVE QuietInv'
  BY <1>1, <1>7 DEF ChangeRoom, Steps
<1> QED
  BY <1>2, <1>3, <1>4, <1>5, <1>6, <1>7

LEMMA CallStepsQuiet ==
  ASSUME TableTypeOK, QuietInv
  PROVE  /\ OthersMove => QuietInv'
         /\ \A c \in Calls : Serve(c) \/ Deliver(c) \/ Refused(c) \/ RequestLost(c)
                             \/ AnswerLost(c) \/ OnLoadFails(c) => QuietInv'
<1>1. OthersMove => QuietInv'
  BY QuietKept DEF OthersMove
<1>2. ASSUME NEW c \in Calls, Serve(c) PROVE QuietInv'
  <2>1. calls[c] \in Call /\ calls' = [calls EXCEPT ![c].answer = server']
    BY <1>2, ServeCases DEF TableTypeOK
  <2>2. \A d \in Calls : calls'[d].step = calls[d].step /\ calls'[d].page = calls[d].page
    BY <2>1 DEF TableTypeOK, Call
  <2> QED
    BY <1>2, <2>2, QuietKept DEF Serve
<1>3. ASSUME NEW c \in Calls, Deliver(c) PROVE QuietInv'
  <2>1. calls[c] # Idle
    BY <1>3 DEF Deliver, Answered, Idle
  <2>2. calls[c].page \in Pages
    BY <2>1, CallTypes
  <2>3. CASE Loaded(c)
    <3>1. /\ Shows(calls[c].page, calls[c].answer) /\ After(c, "idle")
          /\ UNCHANGED <<roomPollTimer, undone>>
      BY <2>3 DEF Loaded
    <3>2. \A i \in Pages : /\ pages'[i].open = pages[i].open /\ pages'[i].timer = pages[i].timer
                           /\ pages'[i].kind = pages[i].kind
      BY <2>2, <3>1, ShowsEffect
    <3> QED
      BY <3>1, <3>2, AfterQuiet
  <2>4. CASE OwnAnswer(c)
    <3>1. pages' = pages \/ Shows(calls[c].page, calls[c].answer)
      BY <2>4 DEF OwnAnswer
    <3>2. \A i \in Pages : /\ pages'[i].open = pages[i].open /\ pages'[i].timer = pages[i].timer
                           /\ pages'[i].kind = pages[i].kind
      BY <2>2, <3>1, ShowsEffect
    <3>3. \E step \in {"after", "load", "idle"} : After(c, step)
      BY <2>4 DEF OwnAnswer
    <3>4. UNCHANGED <<roomPollTimer, undone>>
      BY <2>4 DEF OwnAnswer
    <3> QED
      BY <3>2, <3>3, <3>4, AfterQuiet
  <2> QED
    BY <1>3, <2>1, <2>3, <2>4, OnLoadQuiet DEF Deliver
<1>4. ASSUME NEW c \in Calls, Unanswered(c), Pending(c) PROVE QuietInv'
  <2>1. CASE calls[c].step = "first"
    BY <1>4, <2>1, OnLoadQuiet DEF Unanswered, Pending
  <2>2. CASE calls[c].step # "first"
    BY <1>4, <2>2, AfterQuiet DEF Unanswered
  <2> QED
    BY <2>1, <2>2
<1>5. ASSUME NEW c \in Calls, AnswerLost(c) \/ OnLoadFails(c) PROVE QuietInv'
  BY <1>5, AfterQuiet DEF AnswerLost, OnLoadFails
<1> QED
  BY <1>1, <1>2, <1>3, <1>4, <1>5 DEF Refused, RequestLost

LEMMA TableQuiet ==
  TableTypeOK /\ QuietInv /\ (TableStep \/ OpenPage("room") \/ OpenPage("solo")) => QuietInv'
BY VisitQuiet, AskingStepsQuiet, CallStepsQuiet DEF TableStep

----------------------------------------------------------------------------
(* Actions answer the turn that was shown *)

\* What the moves of views are.
LEMMA MoveTypes ==
  ASSUME TableTypeOK
  PROVE  /\ server.move \in Nat
         /\ \A i \in Pages : pages[i].view.move \in Nat
         /\ \A c \in Calls : calls[c].answer.move \in Nat
<1>1. \A v \in Views \cup {NoView} : v.move \in Nat
  BY TableBounds DEF Views, NoView
<1>2. \A i \in Pages : pages[i].view \in Views \cup {NoView}
  BY DEF TableTypeOK, Page
<1>3. \A c \in Calls : calls[c].answer \in Views \cup {NoView}
  BY DEF TableTypeOK, Call, Idle
<1> QED
  BY <1>1, <1>2, <1>3 DEF TableTypeOK, Views

\* No table is shown, and requests that are no answered actions are sent, dropped or go on.
LEMMA FreshKept ==
  ASSUME TableTypeOK, FreshInv, UNCHANGED server,
         \A i \in Pages : /\ pages'[i].open = pages[i].open
                          /\ pages'[i].view.turn = pages[i].view.turn
                          /\ pages'[i].view.move = pages[i].view.move,
         \A c \in Calls : \/ calls'[c] = calls[c]
                          \/ /\ calls'[c].step # "act" /\ calls'[c].answer = NoView
                             /\ calls[c].step # "act" \/ calls[c].answer = NoView,
         \A c \in Calls : calls[c].step = "act" => calls[c].page \in Pages
  PROVE  FreshInv'
<1>1. ASSUME NEW v, v.move \in Nat, Fresh(v) PROVE v.turn = "me" => Current(v) \/ Overtaken(v)'
  <2>1. ASSUME NEW c \in Calls, calls[c].step = "act", calls[c].answer.move > v.move
        PROVE  Overtaken(v)'
    <3>1. calls[c].answer # NoView
      BY <1>1, <2>1 DEF NoView
    <3>2. calls'[c] = calls[c]
      BY <2>1, <3>1
    <3> QED
      BY <2>1, <3>2 DEF Overtaken
  <2> QED
    BY <1>1, <2>1 DEF Fresh, Overtaken
<1>2. \A c, d \in Calls : calls'[c].step = "act" /\ calls'[d].step = "act" => c = d
  BY DEF FreshInv
<1>3. ASSUME NEW c \in Calls, calls'[c].step = "act" PROVE ActSound(c)'
  <2>1. calls'[c] = calls[c] /\ ActSound(c) /\ calls[c].page \in Pages
    BY <1>3 DEF FreshInv
  <2>2. Pending(c)' <=> Pending(c)
    BY <2>1 DEF Pending
  <2>3. pages'[calls'[c].page].open
    BY <2>1 DEF ActSound
  <2> QED
    BY <2>1, <2>2, <2>3 DEF ActSound, Current
<1>4. ASSUME NEW i \in Pages, pages'[i].open PROVE Fresh(pages[i].view)'
  <2>1. PICK v : v = pages[i].view
    OBVIOUS
  <2>2. Fresh(v) /\ v.move \in Nat
    BY <1>4, <2>1, MoveTypes DEF FreshInv
  <2>3. v.turn = "me" => Current(v) \/ Overtaken(v)'
    BY <1>1, <2>2
  <2>4. pages'[i].view.turn = v.turn /\ pages'[i].view.move = v.move
    BY <2>1
  <2> QED
    BY <2>3, <2>4 DEF Fresh, Current, Overtaken
<1>5. ASSUME NEW c \in Calls, NEW i \in Pages, calls'[c].page = i, pages'[i].open,
             calls'[c].step # "act", ~(calls'[c].answer.move < pages'[i].view.move)
      PROVE  Fresh(calls[c].answer)'
  <2>1. CASE calls'[c].answer = NoView
    BY <2>1 DEF Fresh, NoView
  <2>2. CASE calls'[c] = calls[c]
    <3>1. Fresh(calls[c].answer) /\ calls[c].answer.move \in Nat
      BY <1>5, <2>2, MoveTypes DEF FreshInv
    <3>2. calls[c].answer.turn = "me" => Current(calls[c].answer) \/ Overtaken(calls[c].answer)'
      BY <1>1, <2>2, <3>1
    <3> QED
      BY <2>2, <3>2 DEF Fresh, Current, Overtaken
  <2> QED
    BY <2>1, <2>2
<1> QED
  BY <1>2, <1>3, <1>4, <1>5 DEF FreshInv

\* A page shows an answer that is not older than what it showed; whoever had overtaken others by
\* an action has overtaken them on the page from now on.
LEMMA FreshShown ==
  ASSUME TableTypeOK, FreshInv, UNCHANGED server,
         \A i, j \in Pages : pages[i].open /\ pages[j].open => i = j,
         NEW c \in Calls, Answered(c), NEW i \in Pages, calls[c].page = i,
         \A j \in Pages : /\ pages'[j].open = pages[j].open
                          /\ j # i => pages'[j].view = pages[j].view,
         pages[i].open => /\ pages'[i].view = calls[c].answer
                          /\ ~(pages[i].view.move > calls[c].answer.move),
         \A d \in Calls : d # c => calls'[d] = calls[d],
         calls'[c].step # "act", calls'[c].answer = NoView
  PROVE  FreshInv'
<1>1. \A d, e \in Calls : calls'[d].step = "act" /\ calls'[e].step = "act" => d = e
  BY DEF FreshInv
<1>2. ASSUME NEW d \in Calls, calls'[d].step = "act" PROVE ActSound(d)'
  <2>1. calls'[d] = calls[d] /\ ActSound(d)
    BY <1>2 DEF FreshInv
  <2>2. Pending(d)' <=> Pending(d)
    BY <2>1 DEF Pending
  <2>3. calls[d].page \in Pages
    BY <1>2, <2>1, CallTypes DEF Idle
  <2>4. pages'[calls'[d].page].open
    BY <2>1, <2>3 DEF ActSound
  <2> QED
    BY <2>1, <2>2, <2>4 DEF ActSound, Current
<1>3. ASSUME NEW j \in Pages, pages'[j].open PROVE Fresh(pages[j].view)'
  <2>1. CASE j # i
    <3> DEFINE v == pages[j].view
    <3>1. Fresh(v) /\ v.move \in Nat /\ pages'[j].view = v
      BY <1>3, <2>1, MoveTypes DEF FreshInv
    <3>2. ASSUME v.turn = "me", ~Current(v) PROVE Overtaken(pages[j].view)'
      <4>1. ~pages[i].open
        BY <1>3, <2>1
      <4>2. PICK d \in Calls : calls[d].step = "act" /\ calls[d].answer.move > v.move
        BY <3>1, <3>2 DEF Fresh, Overtaken
      <4>3. d # c
        BY <4>1, <4>2 DEF FreshInv, ActSound
      <4> QED
        BY <3>1, <4>2, <4>3 DEF Overtaken
    <3> QED
      BY <3>1, <3>2 DEF Fresh, Current
  <2>2. CASE j = i
    <3> DEFINE v == calls[c].answer
    <3>1. pages'[i].view = v /\ v.move \in Nat /\ pages[i].open /\ calls[c].answer # NoView
      BY <1>3, <2>2, MoveTypes DEF Answered
    <3>2. CASE calls[c].step = "act"
      <4>1. v.turn = "me" => Current(v)
        BY <3>1, <3>2 DEF FreshInv, ActSound, Pending
      <4> QED
        BY <2>2, <3>1, <4>1 DEF Fresh, Current
    <3>3. CASE calls[c].step # "act"
      <4>1. Fresh(v)
        BY <3>1, <3>3, MoveTypes DEF FreshInv
      <4>2. ASSUME v.turn = "me", ~Current(v) PROVE Overtaken(pages[i].view)'
        <5>1. PICK d \in Calls : calls[d].step = "act" /\ calls[d].answer.move > v.move
          BY <4>1, <4>2 DEF Fresh, Overtaken
        <5>2. calls'[d] = calls[d]
          BY <3>3, <5>1
        <5> QED
          BY <3>1, <5>1, <5>2 DEF Overtaken
      <4> QED
        BY <2>2, <3>1, <4>1, <4>2 DEF Fresh, Current
    <3> QED
      BY <3>2, <3>3
  <2> QED
    BY <2>1, <2>2
<1>4. ASSUME NEW d \in Calls, NEW j \in Pages, calls'[d].page = j, pages'[j].open,
             calls'[d].step # "act", ~(calls'[d].answer.move < pages'[j].view.move)
      PROVE  Fresh(calls[d].answer)'
  <2>1. CASE d = c
    BY <2>1 DEF Fresh, NoView
  <2>2. CASE d # c
    <3> DEFINE v == calls[d].answer
    <3>1. calls'[d] = calls[d] /\ v.move \in Nat
      BY <2>2, MoveTypes
    <3>2. ~(v.move < pages[j].view.move)
      BY <1>4, <3>1, MoveTypes
    <3>3. Fresh(v)
      BY <1>4, <3>1, <3>2 DEF FreshInv
    <3>4. ASSUME v.turn = "me", ~Current(v) PROVE Overtaken(calls[d].answer)'
      <4>1. PICK e \in Calls : calls[e].step = "act" /\ calls[e].answer.move > v.move
        BY <3>3, <3>4 DEF Fresh, Overtaken
      <4>2. e # c
        <5>1. ASSUME e = c PROVE FALSE
          <6>1. i = j
            BY <1>4, <4>1, <5>1 DEF FreshInv, ActSound
          <6> QED
            BY <1>4, <3>1, <4>1, <5>1, <6>1, MoveTypes
        <5> QED
          BY <5>1
      <4> QED
        BY <3>1, <4>1, <4>2 DEF Overtaken
    <3> QED
      BY <3>1, <3>3, <3>4 DEF Fresh, Current
  <2> QED
    BY <2>1, <2>2
<1> QED
  BY <1>1, <1>2, <1>3, <1>4 DEF FreshInv

\* The room changes otherwise than by the player's action, or is read: nobody's turn was offered,
\* or it is offered still.
LEMMA FreshServed ==
  ASSUME TableTypeOK, FreshInv, UNCHANGED pages,
         server' = server \/ server.turn # "me",
         \A c \in Calls : \/ calls'[c] = calls[c]
                          \/ /\ calls[c].step # "act" /\ calls'[c].step = calls[c].step
                             /\ calls'[c].page = calls[c].page /\ calls'[c].answer = server'
  PROVE  FreshInv'
<1>1. ASSUME NEW v, Current(v) PROVE Current(v)'
  BY <1>1 DEF Current
<1>2. ASSUME NEW v, Overtaken(v) PROVE Overtaken(v)'
  <2>1. PICK c \in Calls : calls[c].step = "act" /\ calls[c].answer.move > v.move
    BY <1>2 DEF Overtaken
  <2>2. calls'[c] = calls[c]
    BY <2>1
  <2> QED
    BY <2>1, <2>2 DEF Overtaken
<1>3. \A c \in Calls : calls'[c].step = calls[c].step /\ calls'[c].page = calls[c].page
  OBVIOUS
<1>4. ASSUME NEW c \in Calls, calls'[c].step = "act" PROVE ActSound(c)'
  <2>1. calls'[c] = calls[c] /\ ActSound(c)
    BY <1>3, <1>4 DEF FreshInv
  <2>2. Pending(c)' <=> Pending(c)
    BY <2>1 DEF Pending
  <2>3. CASE Pending(c)
    <3>1. Current([move |-> calls[c].seen])
      BY <2>1, <2>3 DEF ActSound
    <3>2. server' = server
      BY <3>1 DEF Current
    <3> QED
      BY <2>1, <2>2, <2>3, <3>1, <3>2 DEF ActSound, Current
  <2>4. CASE ~Pending(c)
    <3>1. calls[c].answer.turn = "me" => Current(calls[c].answer)
      BY <2>1, <2>4 DEF ActSound
    <3>2. calls[c].answer.turn = "me" => server' = server
      BY <3>1 DEF Current
    <3> QED
      BY <2>1, <2>2, <2>4, <3>1, <3>2 DEF ActSound, Current
  <2> QED
    BY <2>3, <2>4
<1>5. ASSUME NEW i \in Pages, pages'[i].open PROVE Fresh(pages[i].view)'
  <2> DEFINE v == pages[i].view
  <2>1. Fresh(v)
    BY <1>5 DEF FreshInv
  <2>2. Current(v) => server' = server
    BY DEF Current
  <2>3. Overtaken(v) => Overtaken(pages[i].view)'
    BY <1>2 DEF Overtaken
  <2> QED
    BY <2>1, <2>2, <2>3 DEF Fresh, Current
<1>6. ASSUME NEW c \in Calls, NEW i \in Pages, calls'[c].page = i, pages'[i].open,
             calls'[c].step # "act", ~(calls'[c].answer.move < pages'[i].view.move)
      PROVE  Fresh(calls[c].answer)'
  <2>1. CASE calls'[c] = calls[c]
    <3> DEFINE v == calls[c].answer
    <3>1. Fresh(v)
      BY <1>3, <1>6, <2>1 DEF FreshInv
    <3>2. Current(v) => server' = server
      BY DEF Current
    <3>3. Overtaken(v) => Overtaken(calls[c].answer)'
      BY <1>2, <2>1 DEF Overtaken
    <3> QED
      BY <2>1, <3>1, <3>2, <3>3 DEF Fresh, Current
  <2>2. CASE calls'[c].answer = server'
    BY <2>2 DEF Fresh, Current
  <2> QED
    BY <2>1, <2>2
<1>7. \A c, d \in Calls : calls'[c].step = "act" /\ calls'[d].step = "act" => c = d
  BY <1>3 DEF FreshInv
<1> QED
  BY <1>4, <1>5, <1>6, <1>7 DEF FreshInv

\* The player's action ends his turn: everything that offered it is overtaken by the answer.
LEMMA FreshActed ==
  ASSUME TableTypeOK, FreshInv, NEW c \in Calls, calls[c].step = "act", Pending(c),
         UNCHANGED pages, server' \in Views, server.turn = "me", server'.table = "hands",
         server'.move = server.move + 1, calls' = [calls EXCEPT ![c].answer = server']
  PROVE  FreshInv'
<1>1. /\ calls[c] \in Call /\ calls'[c].answer = server'
      /\ calls'[c] # Idle /\ calls'[c].answer # NoView
      /\ \A d \in Calls : /\ calls'[d].step = calls[d].step /\ calls'[d].page = calls[d].page
                          /\ d # c => calls'[d] = calls[d]
  BY DEF Pending, TableTypeOK, Call, Idle, Views, NoView
<1>2. ASSUME NEW v, v.move \in Nat, Fresh(v), v.turn = "me" PROVE Overtaken(v)'
  <2>1. ~Overtaken(v)
    <3> SUFFICES ASSUME NEW d \in Calls, calls[d].step = "act", calls[d].answer.move > v.move
                 PROVE  FALSE
      BY DEF Overtaken
    <3>1. d = c
      BY DEF FreshInv
    <3> QED
      BY <1>2, <3>1 DEF Pending, NoView
  <2>2. v.move = server.move
    BY <1>2, <2>1 DEF Fresh, Current
  <2>3. server'.move > v.move
    BY <2>2, MoveTypes
  <2> QED
    BY <1>1, <2>3 DEF Overtaken
<1>3. ASSUME NEW d \in Calls, calls'[d].step = "act" PROVE ActSound(d)'
  <2>1. d = c /\ ActSound(c)
    BY <1>1, <1>3 DEF FreshInv
  <2>2. ~Pending(c)'
    BY <1>1 DEF Pending
  <2>3. pages'[calls'[c].page].open
    BY <1>1, <2>1 DEF ActSound
  <2> QED
    BY <1>1, <2>1, <2>2, <2>3 DEF ActSound, Current
<1>4. ASSUME NEW i \in Pages, pages'[i].open PROVE Fresh(pages[i].view)'
  <2>1. Fresh(pages[i].view) /\ pages[i].view.move \in Nat
    BY <1>4, MoveTypes DEF FreshInv
  <2>2. pages[i].view.turn = "me" => Overtaken(pages[i].view)'
    BY <1>2, <2>1 DEF Overtaken
  <2> QED
    BY <2>2 DEF Fresh
<1>5. ASSUME NEW d \in Calls, NEW i \in Pages, calls'[d].page = i, pages'[i].open,
             calls'[d].step # "act", ~(calls'[d].answer.move < pages'[i].view.move)
      PROVE  Fresh(calls[d].answer)'
  <2>1. calls'[d] = calls[d]
    BY <1>1, <1>5
  <2>2. Fresh(calls[d].answer) /\ calls[d].answer.move \in Nat
    BY <1>5, <2>1, MoveTypes DEF FreshInv
  <2>3. calls[d].answer.turn = "me" => Overtaken(calls[d].answer)'
    BY <1>2, <2>1, <2>2 DEF Overtaken
  <2> QED
    BY <2>1, <2>3 DEF Fresh
<1>6. \A d, e \in Calls : calls'[d].step = "act" /\ calls'[e].step = "act" => d = e
  BY <1>1 DEF FreshInv
<1> QED
  BY <1>3, <1>4, <1>5, <1>6 DEF FreshInv

\* Without an action under way, pages close and open, new ones with requests of their own.
LEMMA FreshVisited ==
  ASSUME TableTypeOK, FreshInv, UNCHANGED server, \A c \in Calls : calls[c].step # "act",
         \A c \in Calls : \/ calls'[c] = calls[c]
                          \/ calls'[c].step # "act" /\ calls'[c].answer = NoView,
         \A i \in Pages : pages'[i].open =>
           \/ pages'[i] = pages[i]
           \/ /\ pages'[i].view = NoView
              /\ \A c \in Calls : calls[c].page # i
  PROVE  FreshInv'
<1>1. \A v : Fresh(v) /\ v.turn = "me" => Current(v)
  BY DEF Fresh, Overtaken
<1>2. \A c \in Calls : calls'[c].step # "act"
  OBVIOUS
<1>3. ASSUME NEW i \in Pages, pages'[i].open PROVE Fresh(pages[i].view)'
  <2>1. CASE pages'[i] = pages[i]
    BY <1>1, <1>3, <2>1 DEF FreshInv, Fresh, Current
  <2>2. CASE pages'[i].view = NoView
    BY <2>2 DEF Fresh, NoView
  <2> QED
    BY <1>3, <2>1, <2>2
<1>4. ASSUME NEW c \in Calls, NEW i \in Pages, calls'[c].page = i, pages'[i].open,
             ~(calls'[c].answer.move < pages'[i].view.move)
      PROVE  Fresh(calls[c].answer)'
  <2>1. CASE calls'[c].answer = NoView
    BY <2>1 DEF Fresh, NoView
  <2>2. CASE calls'[c] = calls[c]
    <3>1. pages'[i] = pages[i]
      BY <1>4, <2>2
    <3>2. Fresh(calls[c].answer)
      BY <1>4, <2>2, <3>1 DEF FreshInv
    <3> QED
      BY <1>1, <2>2, <3>2 DEF Fresh, Current
  <2> QED
    BY <2>1, <2>2
<1> QED
  BY <1>2, <1>3, <1>4 DEF FreshInv

\* An action is sent from a page that offers the turn, with none under way.
LEMMA FreshSent ==
  ASSUME TableTypeOK, FreshInv, NEW i \in Pages, SendAction(i), ~excused'
  PROVE  FreshInv'
<1> DEFINE q == [Asking(i, "act") EXCEPT !.seen = pages[i].view.move]
<1>1. pages[i].view \in Views
  BY DEF SendAction, TableTypeOK, Page, NoView
<1>2. /\ q \in Call /\ q.step = "act" /\ q.page = i /\ q.answer = NoView
      /\ q.seen = pages[i].view.move
  BY <1>1 DEF Asking, Call, Steps, Views
<1>3. /\ Asks(q) /\ pages[i].open /\ pages[i].view.turn = "me"
      /\ \A c \in Calls : calls[c].step # "act"
  BY DEF SendAction
<1> HIDE DEF q
<1>4. PICK slot \in FreeCalls : /\ calls'[slot] = q
                                /\ \A d \in Calls : d # slot => calls'[d] = calls[d]
  BY <1>2, <1>3, AskEffect
<1>5. slot \in Calls /\ pages' = pages /\ server' = server
  BY <1>3, <1>4 DEF FreeCalls, Asks
<1>6. \A v : Fresh(v) /\ v.turn = "me" => Current(v)
  BY <1>3 DEF Fresh, Overtaken
<1>7. Current(pages[i].view)
  BY <1>3, <1>6 DEF FreshInv
<1>8. \A c, d \in Calls : calls'[c].step = "act" /\ calls'[d].step = "act" => c = d
  BY <1>3, <1>4
<1>9. ASSUME NEW c \in Calls, calls'[c].step = "act" PROVE ActSound(c)'
  <2>1. c = slot /\ calls'[c] = q
    BY <1>3, <1>4, <1>9
  <2>2. q # Idle
    BY <1>2 DEF Idle
  <2>3. Pending(c)'
    BY <1>2, <2>1, <2>2 DEF Pending
  <2> QED
    BY <1>2, <1>3, <1>5, <1>7, <2>1, <2>3 DEF ActSound, Current
<1>10. ASSUME NEW j \in Pages, pages'[j].open PROVE Fresh(pages[j].view)'
  BY <1>5, <1>6, <1>10 DEF FreshInv, Fresh, Current
<1>11. ASSUME NEW c \in Calls, NEW j \in Pages, calls'[c].page = j, pages'[j].open,
              calls'[c].step # "act", ~(calls'[c].answer.move < pages'[j].view.move)
       PROVE  Fresh(calls[c].answer)'
  <2>1. calls'[c] = calls[c]
    BY <1>2, <1>4, <1>11
  <2>2. Fresh(calls[c].answer)
    BY <1>5, <1>11, <2>1 DEF FreshInv
  <2> QED
    BY <1>5, <1>6, <2>1, <2>2 DEF Fresh, Current
<1> QED
  BY <1>8, <1>9, <1>10, <1>11 DEF FreshInv

\* The turn's invariant where the room and the pages' coming and going stay as they are.
LEMMA TurnKept ==
  ASSUME TurnInv, UNCHANGED server, \A i \in Pages : pages'[i].open = pages[i].open,
         excused => excused', FreshInv /\ ~excused' => FreshInv'
  PROVE  TurnInv'
BY DEF TurnInv, Ended

LEMMA ActsHavePages ==
  ASSUME TableTypeOK
  PROVE  \A c \in Calls : calls[c].step # "idle" => calls[c].page \in Pages
BY CallTypes DEF Idle

LEMMA AskingTurn ==
  ASSUME TableTypeOK, TurnInv, NEW q \in Call, q.step # "act", q.answer = NoView,
         Asks(q), UNCHANGED excused
  PROVE  TurnInv'
<1>1. PICK slot \in FreeCalls : /\ calls'[slot] = q
                                /\ \A d \in Calls : d # slot => calls'[d] = calls[d]
  BY AskEffect
<1>2. calls[slot] = Idle /\ UNCHANGED <<pages, server>>
  BY DEF FreeCalls, Asks
<1>3. \A c \in Calls : \/ calls'[c] = calls[c]
                       \/ /\ calls'[c].step # "act" /\ calls'[c].answer = NoView
                          /\ calls[c].step # "act" \/ calls[c].answer = NoView
  BY <1>1, <1>2 DEF Idle
<1>4. FreshInv => FreshInv'
  BY <1>2, <1>3, ActsHavePages, FreshKept
<1> QED
  BY <1>2, <1>4, TurnKept

LEMMA AskingStepsTurn ==
  ASSUME TableTypeOK, TurnInv, NEW i \in Pages
  PROVE  \/ Poll(i) \/ PollRoom(i) \/ SendAction(i) \/ NextHand(i) \/ StartRoom(i)
         \/ StartSoloRoom(i) \/ EndRoom(i) \/ \E step \in {"chips", "ready"} : ChangeRoom(i, step)
         => TurnInv'
<1>1. ASSUME NEW step \in Steps, step # "act", Asks(Asking(i, step)), UNCHANGED excused
      PROVE  TurnInv'
  BY <1>1, TablePieces, AskingTurn DEF Asking
<1>2. ASSUME SendAction(i) PROVE TurnInv'
  <2>1. UNCHANGED <<server, pages>> /\ (excused => excused')
    BY <1>2 DEF SendAction, Asks
  <2>2. FreshInv /\ ~excused' => FreshInv'
    BY <1>2, FreshSent
  <2> QED
    BY <2>1, <2>2, TurnKept
<1>3. Poll(i) => TurnInv'
  BY <1>1 DEF Poll, Steps
<1>4. PollRoom(i) => TurnInv'
  BY <1>1 DEF PollRoom, Steps
<1>5. NextHand(i) => TurnInv'
  BY <1>1 DEF NextHand, Steps
<1>6. StartRoom(i) \/ StartSoloRoom(i) \/ EndRoom(i) => TurnInv'
  BY <1>1 DEF StartRoom, StartSoloRoom, EndRoom, Steps
<1>7. ASSUME NEW step \in {"chips", "ready"}, ChangeRoom(i, step) PROVE TurnInv'
  BY <1>1, <1>7 DEF ChangeRoom, Steps
<1> QED
  BY <1>2, <1>3, <1>4, <1>5, <1>6, <1>7

\* The room changes, or is read.
LEMMA ServerTurn ==
  ASSUME TableTypeOK, TurnInv
  PROVE  /\ OthersMove => TurnInv'
         /\ \A c \in Calls : Serve(c) => TurnInv'
<1>1. ASSUME OthersMove PROVE TurnInv'
  <2>1. PICK step : server' \in Changes(step, "other")
    BY <1>1 DEF OthersMove
  <2>2. UNCHANGED <<pages, calls, excused>>
    BY <1>1 DEF OthersMove
  <2>3. server'.turn # "nobody" => server'.room = "playing" /\ server'.table = "hands"
    BY <2>1, ChangeCases
  <2>4. ASSUME ~Ended' PROVE server.turn # "me" /\ ~Ended
    BY <2>1, <2>4, ChangeCases DEF TurnInv, Ended
  <2>5. FreshInv /\ ~Ended' => FreshInv'
    BY <2>2, <2>4, FreshServed
  <2> QED
    BY <2>2, <2>3, <2>4, <2>5 DEF TurnInv
<1>2. ASSUME NEW c \in Calls, Serve(c) PROVE TurnInv'
  <2> DEFINE step == calls[c].step
  <2>1. /\ calls[c] # Idle /\ server' \in Views
        /\ calls' = [calls EXCEPT ![c].answer = server']
        /\ \/ Reads(step) /\ server' = server
           \/ server' \in Changes(step, "me")
    BY <1>2, ServeCases
  <2>2. UNCHANGED <<pages, excused>> /\ Pending(c)
    BY <1>2 DEF Serve
  <2>3. \A d \in Calls : \/ calls'[d] = calls[d]
                         \/ /\ d = c /\ calls'[d].step = calls[d].step
                            /\ calls'[d].page = calls[d].page /\ calls'[d].answer = server'
    BY <2>1 DEF TableTypeOK, Call
  <2>4. CASE Reads(step) /\ server' = server
    <3>1. step # "act"
      BY <2>4 DEF Reads
    <3>2. FreshInv => FreshInv'
      BY <2>2, <2>3, <2>4, <3>1, FreshServed
    <3> QED
      BY <2>2, <2>4, <3>2 DEF TurnInv, Ended
  <2>5. CASE server' \in Changes(step, "me")
    <3> HIDE DEF step
    <3>1. /\ server'.move = server.move + 1
          /\ server'.turn # "nobody" => server'.room = "playing" /\ server'.table = "hands"
      BY <2>5, ChangeCases
    <3>2. CASE step = "act"
      <4>1. server.turn = "me" /\ server'.table = "hands" /\ ~Ended
        BY <2>5, <3>2, ChangeCases DEF TurnInv, Ended
      <4>2. FreshInv => FreshInv'
        BY <2>1, <2>2, <3>1, <3>2, <4>1, FreshActed DEF step
      <4> QED
        BY <2>2, <3>1, <4>1, <4>2 DEF TurnInv
    <3>3. CASE step # "act"
      <4>1. ASSUME ~Ended' PROVE server.turn # "me" /\ ~Ended
        BY <2>5, <3>3, <4>1, ChangeCases DEF TurnInv, Ended
      <4>2. FreshInv /\ ~Ended' => FreshInv'
        BY <2>2, <2>3, <3>3, <4>1, FreshServed DEF step
      <4> QED
        BY <2>2, <3>1, <4>1, <4>2 DEF TurnInv
    <3> QED
      BY <3>2, <3>3
  <2> QED
    BY <2>1, <2>4, <2>5
<1> QED
  BY <1>1, <1>2

\* One page at most is open, and one left with an action under way excuses what follows.
LEMMA VisitTurn ==
  ASSUME TableTypeOK, TurnInv
  PROVE  /\ \A kind \in {"room", "solo"} : OpenPage(kind) => TurnInv'
         /\ Redirect => TurnInv'
         /\ RedirectFails => TurnInv'
         /\ \A i \in Pages : ClosePage(i) => TurnInv'
<1>1. ASSUME NEW kind \in {"room", "solo"}, OpenPage(kind) PROVE TurnInv'
  <2>1. PICK i \in FreePages : OpenPage(kind)!(i)
    BY <1>1, Zenon DEF OpenPage
  <2>2. i \in Pages /\ \A c \in Calls : calls[c].page # i
    BY <2>1 DEF FreePages, Of
  <2>3. /\ \A j \in Pages : j # i => pages'[j] = pages[j] /\ ~pages'[j].open
        /\ pages'[i].view = NoView
    BY <2>1, <2>2 DEF TableTypeOK, NewPage, OpenPages
  <2>4. \A d \in Calls : \/ calls'[d] = calls[d]
                         \/ calls'[d].step # "act" /\ calls'[d].answer = NoView
    BY <2>1, <2>2, LoadingEffect DEF Asking
  <2>5. UNCHANGED <<server, excused>>
    BY <2>1
  <2>6. FreshInv => \A c \in Calls : calls[c].step # "act"
    BY <2>1, ActsHavePages DEF FreshInv, ActSound, OpenPages
  <2>7. FreshInv => FreshInv'
    BY <2>2, <2>3, <2>4, <2>5, <2>6, FreshVisited
  <2> QED
    BY <2>3, <2>5, <2>7 DEF TurnInv, Ended
<1>2. ASSUME Redirect PROVE TurnInv'
  <2>1. PICK i \in FreePages : Redirect!(i)
    BY <1>2, Zenon DEF Redirect
  <2>2. i \in Pages /\ \A c \in Calls : calls[c].page # i
    BY <2>1 DEF FreePages, Of
  <2>3. /\ \A j \in Pages : j # i => ~pages'[j].open
        /\ pages'[i].view = NoView
    BY <2>1, <2>2, ClosedEffect DEF TableTypeOK, NewPage
  <2>4. \A d \in Calls : \/ calls'[d] = calls[d]
                         \/ calls'[d].step # "act" /\ calls'[d].answer = NoView
    BY <2>1, <2>2, LoadingEffect DEF Asking
  <2>5. server' = server /\ excused' = (excused \/ LeftDuring(OpenPages, {"act"}))
    BY <2>1 DEF OnUnload
  <2>6. FreshInv /\ ~excused' => \A c \in Calls : calls[c].step # "act"
    BY <2>5, ActsHavePages DEF FreshInv, ActSound, OpenPages, LeftDuring, Of
  <2>7. FreshInv /\ ~excused' => FreshInv'
    BY <2>2, <2>3, <2>4, <2>5, <2>6, FreshVisited
  <2> QED
    BY <2>3, <2>5, <2>7 DEF TurnInv, Ended
<1>3. ASSUME RedirectFails PROVE TurnInv'
  <2>1. UNCHANGED <<server, pages, calls, excused>>
    BY <1>3 DEF RedirectFails
  <2>2. FreshInv => FreshInv'
    BY <2>1, ActsHavePages, FreshKept
  <2> QED
    BY <2>1, <2>2, TurnKept
<1>4. ASSUME NEW i \in Pages, ClosePage(i) PROVE TurnInv'
  <2>1. /\ pages[i].open /\ ~pages'[i].open
        /\ \A j \in Pages : j # i => pages'[j] = pages[j]
    BY <1>4, ClosedEffect DEF ClosePage, TableTypeOK
  <2>2. UNCHANGED <<server, calls>> /\ excused' = (excused \/ LeftDuring({i}, {"act"}))
    BY <1>4 DEF ClosePage, OnUnload
  <2>3. ASSUME FreshInv, ~excused', NEW c \in Calls, calls[c].step = "act" PROVE FALSE
    <3>1. calls[c].page = i
      BY <2>1, <2>3, ActsHavePages DEF FreshInv, ActSound, TurnInv
    <3> QED
      BY <2>2, <2>3, <3>1 DEF LeftDuring, Of
  <2>4. FreshInv /\ ~excused' => FreshInv'
    BY <2>1, <2>2, <2>3, FreshVisited
  <2> QED
    BY <2>1, <2>2, <2>4 DEF TurnInv, Ended
<1> QED
  BY <1>1, <1>2, <1>3, <1>4

\* A request ends, or goes on, without an answer that is shown.
LEMMA AfterTurn ==
  ASSUME TableTypeOK, TurnInv, NEW c \in Calls, calls[c] # Idle, NEW step, step # "act",
         After(c, step), UNCHANGED server, excused => excused',
         \A i \in Pages : pages'[i].open = pages[i].open /\ pages'[i].view = pages[i].view,
         ~excused' => calls[c].step # "act" \/ calls[c].answer = NoView
  PROVE  TurnInv'
<1>1. \A d \in Calls : d # c => calls'[d] = calls[d]
  BY AfterEffect
<1>2. calls'[c].step # "act" /\ calls'[c].answer = NoView
  <2>1. calls'[c] = IF step = "idle" THEN Idle ELSE Asking(calls[c].page, step)
    BY AfterEffect
  <2> QED
    BY <2>1 DEF Idle, Asking
<1>3. FreshInv /\ ~excused' => FreshInv'
  BY <1>1, <1>2, ActsHavePages, FreshKept
<1> QED
  BY <1>3, TurnKept

\* A request ends, or goes on, with its answer shown.
LEMMA ShownTurn ==
  ASSUME TableTypeOK, TurnInv, NEW c \in Calls, Answered(c), NEW step, step # "act",
         After(c, step), UNCHANGED server, NEW i \in Pages, calls[c].page = i,
         excused => excused',
         \A j \in Pages : /\ pages'[j].open = pages[j].open
                          /\ j # i => pages'[j].view = pages[j].view,
         pages'[i].view = Shown(pages[i], calls[c].answer),
         ~excused' => ~(pages[i].view.move > pages'[i].view.move)
  PROVE  TurnInv'
<1>1. \A d \in Calls : d # c => calls'[d] = calls[d]
  BY AfterEffect
<1>2. calls'[c].step # "act" /\ calls'[c].answer = NoView
  <2>1. calls'[c] = IF step = "idle" THEN Idle ELSE Asking(calls[c].page, step)
    BY AfterEffect
  <2> QED
    BY <2>1 DEF Idle, Asking
<1>3. CASE pages[i].open => pages'[i].view = calls[c].answer
  <2>1. FreshInv /\ ~excused' => FreshInv'
    BY <1>1, <1>2, <1>3, FreshShown DEF TurnInv
  <2> QED
    BY <2>1, TurnKept
<1>4. CASE ~(pages[i].open => pages'[i].view = calls[c].answer)
  <2>1. /\ calls[c].answer.table = "none" /\ pages[i].view.table # "none"
        /\ pages'[i].view = [pages[i].view EXCEPT !.room = calls[c].answer.room]
    BY <1>4 DEF Shown
  <2>2. pages[i].view \in Views
    BY <2>1 DEF TableTypeOK, Page, NoView
  <2>3. /\ pages'[i].view.turn = pages[i].view.turn
        /\ pages'[i].view.move = pages[i].view.move
    BY <2>1, <2>2 DEF Views
  <2>4. FreshInv => calls[c].step # "act"
    BY <2>1 DEF FreshInv, ActSound, Answered, Pending
  <2>5. FreshInv => FreshInv'
    BY <1>1, <1>2, <2>3, <2>4, ActsHavePages, FreshKept
  <2> QED
    BY <2>5, TurnKept
<1> QED
  BY <1>3, <1>4

LEMMA OnLoadTurn ==
  ASSUME TableTypeOK, TurnInv, NEW c \in Calls, calls[c] # Idle, OnLoadEnds(c), UNCHANGED server
  PROVE  TurnInv'
<1>1. PICK i \in Pages : i = calls[c].page
  BY CallTypes
<1>2. /\ \A j \in Pages : j # i => pages'[j] = pages[j]
      /\ pages'[i].open = pages[i].open
      /\ pages'[i].view = IF Answered(c) THEN Shown(pages[i], calls[c].answer) ELSE pages[i].view
      /\ excused' = (excused \/ pages[i].view.move > pages'[i].view.move)
      /\ calls[c].step = "first"
  BY <1>1, OnLoadEffect
<1>3. After(c, "idle")
  BY DEF OnLoadEnds
<1>4. CASE Answered(c)
  BY <1>1, <1>2, <1>3, <1>4, ShownTurn
<1>5. CASE ~Answered(c)
  <2>1. \A j \in Pages : pages'[j].open = pages[j].open /\ pages'[j].view = pages[j].view
    BY <1>2, <1>5
  <2> QED
    BY <1>2, <1>3, <2>1, AfterTurn
<1> QED
  BY <1>4, <1>5

\* What becomes of a request.
LEMMA AnswerTurn ==
  ASSUME TableTypeOK, TurnInv, NEW c \in Calls
  PROVE  Deliver(c) \/ Refused(c) \/ RequestLost(c) \/ AnswerLost(c) \/ OnLoadFails(c) => TurnInv'
<1>1. ASSUME NEW step, step # "act", After(c, step), calls[c] # Idle, Answered(c),
             NEW i \in Pages, i = calls[c].page, Shows(i, calls[c].answer), UNCHANGED server
      PROVE  TurnInv'
  <2>1. /\ \A j \in Pages : j # i => pages'[j] = pages[j]
        /\ pages'[i].open = pages[i].open
        /\ pages'[i].view = Shown(pages[i], calls[c].answer)
        /\ excused' = (excused \/ pages[i].view.move > pages'[i].view.move)
    BY <1>1, ShowsEffect
  <2> QED
    BY <1>1, <2>1, ShownTurn
<1>2. ASSUME Deliver(c) PROVE TurnInv'
  <2>1. calls[c] # Idle /\ Answered(c) /\ UNCHANGED server
    BY <1>2 DEF Deliver, Answered, Idle
  <2>2. PICK i \in Pages : i = calls[c].page
    BY <2>1, CallTypes
  <2>3. CASE Loaded(c)
    BY <1>1, <2>1, <2>2, <2>3 DEF Loaded
  <2>4. CASE OwnAnswer(c) /\ calls[c].step = "ready"
    <3>1. After(c, "load") /\ UNCHANGED <<pages, excused>>
      BY <2>4 DEF OwnAnswer
    <3> QED
      BY <2>1, <2>4, <3>1, AfterTurn
  <2>5. CASE OwnAnswer(c) /\ calls[c].step # "ready"
    <3>1. Shows(i, calls[c].answer)
      BY <2>2, <2>5 DEF OwnAnswer
    <3>2. After(c, "after") \/ After(c, "load") \/ After(c, "idle")
      BY <2>5 DEF OwnAnswer
    <3> QED
      BY <1>1, <2>1, <2>2, <3>1, <3>2
  <2> QED
    BY <1>2, <2>1, <2>3, <2>4, <2>5, OnLoadTurn DEF Deliver
<1>3. ASSUME Unanswered(c), Pending(c), UNCHANGED server PROVE TurnInv'
  <2>1. CASE calls[c].step = "first"
    BY <1>3, <2>1, OnLoadTurn DEF Unanswered, Pending
  <2>2. CASE calls[c].step # "first"
    BY <1>3, <2>2, AfterTurn DEF Unanswered, Pending
  <2> QED
    BY <2>1, <2>2
<1>4. ASSUME AnswerLost(c) PROVE TurnInv'
  <2>1. /\ calls[c] # Idle /\ After(c, "idle") /\ UNCHANGED <<server, pages>>
        /\ excused' = (excused \/ calls[c].step = "act")
    BY <1>4 DEF AnswerLost, Answered, Idle
  <2> QED
    BY <2>1, AfterTurn
<1>5. ASSUME OnLoadFails(c) PROVE TurnInv'
  <2>1. /\ calls[c].step = "first" /\ calls[c] # Idle /\ After(c, "idle")
        /\ UNCHANGED <<server, pages, excused>>
    BY <1>5 DEF OnLoadFails, Idle
  <2> QED
    BY <2>1, AfterTurn
<1> QED
  BY <1>2, <1>3, <1>4, <1>5 DEF Refused, RequestLost

LEMMA TableTurn ==
  TableTypeOK /\ TurnInv /\ (TableStep \/ OpenPage("room") \/ OpenPage("solo")) => TurnInv'
BY VisitTurn, AskingStepsTurn, ServerTurn, AnswerTurn DEF TableStep

----------------------------------------------------------------------------
(* Types of the team ledger page *)

LEMMA LedgerPieces ==
  /\ NoHand \in Hands \cup {NoHand} /\ NoLedger \in Ledger
  /\ \A i \in LedgerPages, step \in {"login", "join", "entry", "act", "refresh"} :
       Request(i, step) \in LedgerCall
  /\ \A i \in LedgerPages, code \in Rooms \cup {"none"}, polls \in BOOLEAN :
       [Request(i, "refresh") EXCEPT !.code = code, !.polls = polls] \in LedgerCall
  /\ \A i \in LedgerPages, code \in Rooms \cup {"none"} :
       [Request(i, "refresh") EXCEPT !.code = code] \in LedgerCall
<1>1. NoLedger \in Ledger
  BY DEF NoLedger, Ledger
<1>2. \A i \in LedgerPages, step \in {"login", "join", "entry", "act", "refresh"} :
        Request(i, step) \in LedgerCall
  BY DEF Request, Nothing, LedgerCall
<1>3. \A q \in LedgerCall, code \in Rooms \cup {"none"}, polls \in BOOLEAN :
        /\ [q EXCEPT !.code = code, !.polls = polls] \in LedgerCall
        /\ [q EXCEPT !.code = code] \in LedgerCall
  BY DEF LedgerCall
<1> QED
  BY <1>1, <1>2, <1>3

\* What a request carries.
LEMMA LedgerCallTypes ==
  ASSUME LedgerTypeOK, NEW c \in LedgerCalls, lcalls[c].step # "idle"
  PROVE  /\ lcalls[c] \in LedgerCall /\ lcalls[c].page \in LedgerPages
         /\ lcalls[c].code \in Rooms \cup {"none"} /\ lcalls[c].polls \in BOOLEAN
         /\ lcalls[c].answer \in Hands \cup {NoHand}
BY DEF LedgerTypeOK, LedgerCall, Nothing

\* A request of the page i takes a free slot.
LEMMA SendsEffect ==
  ASSUME LedgerTypeOK, NEW q \in LedgerCall, Sends(q)
  PROVE  /\ lcalls' \in [LedgerCalls -> LedgerCall \cup {Nothing}]
         /\ \A c \in LedgerCalls : lcalls'[c] \in {lcalls[c], q}
BY DEF Sends, LedgerTypeOK

\* A refresh that is sent, or not.
LEMMA RefreshEffect ==
  ASSUME LedgerTypeOK, NEW c \in LedgerCalls, NEW i \in LedgerPages, NEW data \in Ledger,
         NEW polls \in BOOLEAN, RefreshRoom(c, i, data, polls)
  PROVE  /\ lcalls' \in [LedgerCalls -> LedgerCall \cup {Nothing}]
         /\ \A d \in LedgerCalls : d # c => lcalls'[d] = lcalls[d]
         /\ \/ lcalls'[c] = Nothing
            \/ /\ data.inRoom /\ lcalls'[c].page = i /\ lcalls'[c].step = "refresh"
               /\ lcalls'[c].code = data.code /\ lcalls'[c].answer = NoHand
         /\ timer' \in {timer, i} /\ refreshInFlight' \in BOOLEAN
<1> DEFINE q == [Request(i, "refresh") EXCEPT !.code = data.code, !.polls = polls]
<1>1. data.code \in Rooms \cup {"none"}
  BY DEF Ledger
<1>2. q \in LedgerCall
  BY <1>1, LedgerPieces
<1>3. q.page = i /\ q.step = "refresh" /\ q.code = data.code /\ q.answer = NoHand
  BY DEF Request, Nothing
<1>4. \/ lcalls' = [lcalls EXCEPT ![c] = Nothing]
      \/ lcalls' = [lcalls EXCEPT ![c] = q] /\ data.inRoom
  BY DEF RefreshRoom
<1>5. timer' \in {timer, i} /\ refreshInFlight' \in BOOLEAN
  BY DEF RefreshRoom, LedgerTypeOK
<1> HIDE DEF q
<1> QED
  BY <1>2, <1>3, <1>4, <1>5 DEF LedgerTypeOK

LEMMA LedgerBoundTypes ==
  ASSUME LedgerTypeOK
  PROVE  /\ LedgerFails => ltrouble' \in 0 .. MaxLedgerTrouble
         /\ Enters => entrances' \in 0 .. MaxEntrances
         /\ \A i, steps : Leaves(i, steps) => /\ ltrouble' \in 0 .. MaxLedgerTrouble
                                              /\ astray' \in BOOLEAN
<1>1. LedgerFails => ltrouble' \in 0 .. MaxLedgerTrouble
  BY LedgerBounds DEF LedgerTypeOK, LedgerFails
<1>2. Enters => entrances' \in 0 .. MaxEntrances
  BY LedgerBounds DEF LedgerTypeOK, Enters
<1>3. ASSUME NEW i, NEW steps, Leaves(i, steps)
      PROVE  ltrouble' \in 0 .. MaxLedgerTrouble /\ astray' \in BOOLEAN
  <2> DEFINE early == \E c \in RequestsOf(i) : lcalls[c].step \in steps
  <2>1. /\ astray' = (astray \/ early)
        /\ IF early THEN LedgerFails ELSE UNCHANGED ltrouble
    BY <1>3 DEF Leaves
  <2> HIDE DEF early
  <2> QED
    BY <1>1, <2>1 DEF LedgerTypeOK
<1> QED
  BY <1>1, <1>2, <1>3

\* Nothing happens to the pages, and requests that are sent are no joins.
LEMMA PlacesKept ==
  ASSUME PlacesInv, UNCHANGED ledgers,
         \A c \in LedgerCalls : \/ lcalls'[c] = lcalls[c]
                                \/ lcalls'[c].step = "refresh" /\ lcalls'[c].code \in Rooms
                                \/ lcalls'[c].step \notin {"join", "refresh"}
  PROVE  PlacesInv'
BY DEF PlacesInv

\* What the server and the interval do, and what becomes of a refresh.
LEMMA RefreshTypes ==
  ASSUME LedgerTypeOK, PlacesInv
  PROVE  /\ \A r \in Rooms : CreateNextHand(r) => LedgerTypeOK' /\ PlacesInv'
         /\ \A i \in LedgerPages : PollLedger(i) => LedgerTypeOK' /\ PlacesInv'
         /\ \A c \in LedgerCalls : AnswerRefresh(c) \/ ShowRoom(c) \/ RefreshFails(c)
                                   => LedgerTypeOK' /\ PlacesInv'
<1>1. ASSUME NEW r \in Rooms, CreateNextHand(r) PROVE LedgerTypeOK' /\ PlacesInv'
  <2>1. hands' \in [Rooms -> 1 .. MaxHands]
    BY <1>1, LedgerBounds DEF CreateNextHand, LedgerTypeOK
  <2>2. PlacesInv'
    BY <1>1, PlacesKept DEF CreateNextHand
  <2> QED
    BY <1>1, <2>1, <2>2 DEF CreateNextHand, LedgerTypeOK
<1>2. ASSUME NEW i \in LedgerPages, PollLedger(i) PROVE LedgerTypeOK' /\ PlacesInv'
  <2> DEFINE q == [Request(i, "refresh") EXCEPT !.code = ledgers[i].code]
  <2>1. ledgers[i].code \in Rooms \cup {"none"} /\ ledgers[i].code \in Rooms
    BY <1>2 DEF LedgerTypeOK, Ledger, PollLedger, PlacesInv
  <2>2. q \in LedgerCall /\ Sends(q)
    BY <1>2, <2>1, LedgerPieces DEF PollLedger
  <2>3. q.step = "refresh" /\ q.code \in Rooms
    BY <2>1 DEF Request, Nothing
  <2> HIDE DEF q
  <2>4. /\ lcalls' \in [LedgerCalls -> LedgerCall \cup {Nothing}]
        /\ \A c \in LedgerCalls : lcalls'[c] \in {lcalls[c], q}
    BY <2>2, SendsEffect
  <2>5. PlacesInv'
    BY <1>2, <2>3, <2>4, PlacesKept DEF PollLedger
  <2> QED
    BY <1>2, <2>4, <2>5 DEF PollLedger, LedgerTypeOK
<1>3. ASSUME NEW c \in LedgerCalls, AnswerRefresh(c) PROVE LedgerTypeOK' /\ PlacesInv'
  <2> DEFINE a == [room |-> lcalls[c].code, hand |-> hands[lcalls[c].code]]
  <2>1. lcalls[c] \in LedgerCall /\ lcalls[c].code \in Rooms /\ lcalls[c].step = "refresh"
    BY <1>3, LedgerCallTypes DEF AnswerRefresh, PlacesInv
  <2>2. a \in Hands
    BY <2>1, LedgerBounds DEF Hands, LedgerTypeOK
  <2>3. lcalls' = [lcalls EXCEPT ![c].answer = a]
    BY <1>3 DEF AnswerRefresh
  <2> HIDE DEF a
  <2>4. /\ [lcalls[c] EXCEPT !.answer = a] \in LedgerCall
        /\ [lcalls[c] EXCEPT !.answer = a].step = lcalls[c].step
        /\ [lcalls[c] EXCEPT !.answer = a].code = lcalls[c].code
    BY <2>1, <2>2 DEF LedgerCall
  <2>5. lcalls' \in [LedgerCalls -> LedgerCall \cup {Nothing}]
    BY <2>3, <2>4 DEF LedgerTypeOK
  <2>6. \A d \in LedgerCalls : \/ lcalls'[d] = lcalls[d]
                               \/ lcalls'[d].step = "refresh" /\ lcalls'[d].code \in Rooms
    BY <2>1, <2>3, <2>4 DEF LedgerTypeOK
  <2>7. PlacesInv'
    BY <1>3, <2>6, PlacesKept DEF AnswerRefresh
  <2> QED
    BY <1>3, <2>5, <2>7 DEF AnswerRefresh, LedgerTypeOK
<1>4. ASSUME NEW c \in LedgerCalls, lcalls[c].step = "refresh", RefreshEnds(c)
      PROVE  /\ lcalls' \in [LedgerCalls -> LedgerCall \cup {Nothing}]
             /\ \A d \in LedgerCalls : lcalls'[d] = lcalls[d] \/ lcalls'[d] = Nothing
             /\ refreshInFlight' \in BOOLEAN /\ timer' \in 0 .. MaxLedgerPages
  <2>1. lcalls[c].page \in LedgerPages
    BY <1>4, LedgerCallTypes
  <2>2. /\ lcalls' = [lcalls EXCEPT ![c] = Nothing] /\ refreshInFlight' = FALSE
        /\ timer' = lcalls[c].page \/ timer' = timer
    BY <1>4 DEF RefreshEnds
  <2>3. timer' \in 0 .. MaxLedgerPages
    BY <2>1, <2>2, LedgerBounds DEF LedgerTypeOK, LedgerPages
  <2> QED
    BY <2>2, <2>3 DEF LedgerTypeOK
<1>5. ASSUME NEW c \in LedgerCalls, ShowRoom(c) PROVE LedgerTypeOK' /\ PlacesInv'
  <2> DEFINE q == lcalls[c]
             i == q.page
             l == [ledgers[i] EXCEPT !.view = q.answer,
                                     !.typed = IF Id(q.answer) # lastHandId THEN NoHand ELSE @]
  <2>1. /\ lcalls[c].step = "refresh" /\ RefreshEnds(c) /\ i \in LedgerPages
        /\ q.answer \in Hands \cup {NoHand}
    BY <1>5, LedgerCallTypes DEF ShowRoom
  <2>2. ledgers' = [ledgers EXCEPT ![i] = l]
    BY <1>5 DEF ShowRoom
  <2>3. /\ l \in Ledger /\ l.shown = ledgers[i].shown /\ l.open = ledgers[i].open
        /\ l.inRoom = ledgers[i].inRoom /\ l.code = ledgers[i].code
    <3>1. ledgers[i] \in Ledger
      BY <2>1 DEF LedgerTypeOK
    <3>2. (IF Id(q.answer) # lastHandId THEN NoHand ELSE ledgers[i].typed) \in Hands \cup {NoHand}
      BY <3>1 DEF Ledger
    <3> QED
      BY <2>1, <3>1, <3>2 DEF Ledger
  <2> HIDE DEF l, i
  <2>4. ledgers' \in [LedgerPages -> Ledger]
    BY <2>1, <2>2, <2>3 DEF LedgerTypeOK
  <2>5. \A j \in LedgerPages : /\ ledgers'[j].shown = ledgers[j].shown
                               /\ ledgers'[j].open = ledgers[j].open
                               /\ ledgers'[j].inRoom = ledgers[j].inRoom
                               /\ ledgers'[j].code = ledgers[j].code
    BY <2>1, <2>2, <2>3 DEF LedgerTypeOK
  <2>6. lastHandId' \in Hands \cup {NoHand}
    BY <1>5, <2>1 DEF ShowRoom, Id
  <2>7. /\ lcalls' \in [LedgerCalls -> LedgerCall \cup {Nothing}]
        /\ \A d \in LedgerCalls : lcalls'[d] = lcalls[d] \/ lcalls'[d] = Nothing
        /\ refreshInFlight' \in BOOLEAN /\ timer' \in 0 .. MaxLedgerPages
    BY <1>4, <2>1
  <2>8. \A d \in LedgerCalls : lcalls'[d].step = "join" => lcalls'[d].page \in LedgerPages
    BY <2>7 DEF Nothing, LedgerCall
  <2>9. PlacesInv'
    BY <2>5, <2>7, <2>8 DEF PlacesInv, Nothing
  <2> QED
    BY <1>5, <2>4, <2>6, <2>7, <2>9 DEF ShowRoom, LedgerTypeOK
<1>6. ASSUME NEW c \in LedgerCalls, RefreshFails(c) PROVE LedgerTypeOK' /\ PlacesInv'
  <2>1. /\ lcalls' \in [LedgerCalls -> LedgerCall \cup {Nothing}]
        /\ \A d \in LedgerCalls : lcalls'[d] = lcalls[d] \/ lcalls'[d] = Nothing
        /\ refreshInFlight' \in BOOLEAN /\ timer' \in 0 .. MaxLedgerPages
    BY <1>4, <1>6 DEF RefreshFails
  <2>2. PlacesInv'
    BY <1>6, <2>1, PlacesKept DEF RefreshFails, Nothing
  <2>3. ltrouble' \in 0 .. MaxLedgerTrouble
    BY <1>6, LedgerBoundTypes DEF RefreshFails
  <2> QED
    BY <1>6, <2>1, <2>2, <2>3 DEF RefreshFails, LedgerTypeOK
<1> QED
  BY <1>1, <1>2, <1>3, <1>5, <1>6

\* The page i changes, and requests that are sent are sound.
LEMMA PlacesChanged ==
  ASSUME LedgerTypeOK, PlacesInv, NEW i \in LedgerPages, NEW l \in Ledger,
         ledgers' = [ledgers EXCEPT ![i] = l],
         l.shown => l.open, l.inRoom => l.code \in Rooms,
         ledgers[i].code \in Rooms => l.code \in Rooms \/ \A c \in LedgerCalls : lcalls[c].page # i,
         \A c \in LedgerCalls :
           \/ lcalls'[c] = lcalls[c]
           \/ lcalls'[c].step = "refresh" /\ lcalls'[c].code \in Rooms
           \/ lcalls'[c].step = "join" /\ lcalls'[c].page = i /\ l.code \in Rooms
           \/ lcalls'[c].step \notin {"join", "refresh"}
  PROVE  ledgers' \in [LedgerPages -> Ledger] /\ PlacesInv'
<1>1. ledgers'[i] = l /\ \A j \in LedgerPages : j # i => ledgers'[j] = ledgers[j]
  BY DEF LedgerTypeOK
<1>2. ledgers' \in [LedgerPages -> Ledger]
  BY DEF LedgerTypeOK
<1>3. ASSUME NEW c \in LedgerCalls, lcalls'[c].step = "join"
      PROVE  ledgers'[lcalls'[c].page].code \in Rooms
  <2>1. CASE lcalls'[c] = lcalls[c]
    <3>1. lcalls[c].page \in LedgerPages /\ ledgers[lcalls[c].page].code \in Rooms
      BY <1>3, <2>1, LedgerCallTypes DEF PlacesInv
    <3> QED
      BY <1>1, <2>1, <3>1
  <2> QED
    BY <1>1, <1>3, <2>1
<1>4. \A c \in LedgerCalls : lcalls'[c].step = "refresh" => lcalls'[c].code \in Rooms
  BY DEF PlacesInv
<1>5. \A j \in LedgerPages : /\ ledgers'[j].shown => ledgers'[j].open
                             /\ ledgers'[j].inRoom => ledgers'[j].code \in Rooms
  BY <1>1 DEF PlacesInv
<1> QED
  BY <1>2, <1>3, <1>4, <1>5 DEF PlacesInv

\* A request of another kind than a join is sent, and the page stays where it is.
LEMMA AskedTypes ==
  ASSUME LedgerTypeOK, PlacesInv, NEW i \in LedgerPages,
         NEW step \in {"login", "entry", "act"}, Sends(Request(i, step))
  PROVE  /\ lcalls' \in [LedgerCalls -> LedgerCall \cup {Nothing}]
         /\ \A c \in LedgerCalls : \/ lcalls'[c] = lcalls[c]
                                   \/ lcalls'[c].step \notin {"join", "refresh"}
<1>1. Request(i, step) \in LedgerCall /\ Request(i, step).step = step
  BY LedgerPieces DEF Request, Nothing
<1> QED
  BY <1>1, SendsEffect

LEMMA PageTypes ==
  ASSUME LedgerTypeOK, PlacesInv
  PROVE  /\ \A code \in Rooms \cup {"none"} : OpenLedger(code) => LedgerTypeOK' /\ PlacesInv'
         /\ \A i \in LedgerPages : OnShow(i) \/ OnHide(i) \/ CloseLedger(i)
                                   => LedgerTypeOK' /\ PlacesInv'
<1> USE LedgerBounds
<1>1. ASSUME NEW code \in Rooms \cup {"none"}, OpenLedger(code) PROVE LedgerTypeOK' /\ PlacesInv'
  <2>1. PICK i \in FreeLedgers : OpenLedger(code)!(i)
    BY <1>1, Zenon DEF OpenLedger
  <2> DEFINE l == [NoLedger EXCEPT !.open = TRUE, !.shown = TRUE, !.code = code,
                                   !.inRoom = code # "none"]
  <2>2. l \in Ledger /\ l.open /\ (l.inRoom => l.code \in Rooms)
    BY LedgerPieces DEF Ledger, NoLedger
  <2>3. /\ i \in LedgerPages /\ \A c \in LedgerCalls : lcalls[c].page # i
    BY <2>1 DEF FreeLedgers, RequestsOf
  <2>4. ledgers' = [ledgers EXCEPT ![i] = l] /\ Sends(Request(i, "login"))
    BY <2>1
  <2> HIDE DEF l
  <2>5. /\ lcalls' \in [LedgerCalls -> LedgerCall \cup {Nothing}]
        /\ \A c \in LedgerCalls : \/ lcalls'[c] = lcalls[c]
                                  \/ lcalls'[c].step \notin {"join", "refresh"}
    BY <2>3, <2>4, AskedTypes
  <2>6. ledgers' \in [LedgerPages -> Ledger] /\ PlacesInv'
    BY <2>2, <2>3, <2>4, <2>5, PlacesChanged
  <2>7. entrances' \in 0 .. MaxEntrances
    BY <2>1, LedgerBoundTypes
  <2> QED
    BY <2>1, <2>5, <2>6, <2>7 DEF LedgerTypeOK
<1>2. ASSUME NEW i \in LedgerPages, NEW b \in BOOLEAN, b => ledgers[i].open,
             ledgers' = [ledgers EXCEPT ![i].shown = b],
             \A c \in LedgerCalls : \/ lcalls'[c] = lcalls[c]
                                    \/ lcalls'[c].step \notin {"join", "refresh"}
      PROVE  ledgers' \in [LedgerPages -> Ledger] /\ PlacesInv'
  <2> DEFINE l == [ledgers[i] EXCEPT !.shown = b]
  <2>1. /\ l \in Ledger /\ l.shown = b /\ l.open = ledgers[i].open
        /\ l.inRoom = ledgers[i].inRoom /\ l.code = ledgers[i].code
    BY DEF LedgerTypeOK, Ledger
  <2>2. ledgers' = [ledgers EXCEPT ![i] = l]
    BY <1>2
  <2> HIDE DEF l
  <2>3. l.inRoom => l.code \in Rooms
    BY <2>1 DEF PlacesInv
  <2> QED
    BY <1>2, <2>1, <2>2, <2>3, PlacesChanged
<1>3. ASSUME NEW i \in LedgerPages, OnShow(i) PROVE LedgerTypeOK' /\ PlacesInv'
  <2>1. /\ lcalls' \in [LedgerCalls -> LedgerCall \cup {Nothing}]
        /\ \A c \in LedgerCalls : \/ lcalls'[c] = lcalls[c]
                                  \/ lcalls'[c].step \notin {"join", "refresh"}
    BY <1>3, AskedTypes DEF OnShow
  <2>2. ledgers' \in [LedgerPages -> Ledger] /\ PlacesInv'
    BY <1>2, <1>3, <2>1 DEF OnShow
  <2> QED
    BY <1>3, <2>1, <2>2 DEF OnShow, LedgerTypeOK
<1>4. ASSUME NEW i \in LedgerPages, OnHide(i) PROVE LedgerTypeOK' /\ PlacesInv'
  <2>1. ledgers' \in [LedgerPages -> Ledger] /\ PlacesInv'
    BY <1>2, <1>4 DEF OnHide
  <2> QED
    BY <1>4, <2>1 DEF OnHide, LedgerTypeOK
<1>5. ASSUME NEW i \in LedgerPages, CloseLedger(i) PROVE LedgerTypeOK' /\ PlacesInv'
  <2> DEFINE l == IF RequestsOf(i) = {} THEN NoLedger
                  ELSE [ledgers[i] EXCEPT !.open = FALSE, !.shown = FALSE]
  <2>1. ledgers' = [ledgers EXCEPT ![i] = l] /\ lcalls' = lcalls
    BY <1>5 DEF CloseLedger
  <2> HIDE DEF l
  <2>4. ltrouble' \in 0 .. MaxLedgerTrouble /\ astray' \in BOOLEAN
    BY <1>5, LedgerBoundTypes DEF CloseLedger
  <2>5. ASSUME ledgers' \in [LedgerPages -> Ledger] PROVE LedgerTypeOK'
    <3>1. /\ timer' = 0 /\ refreshInFlight' = FALSE /\ lastHandId' = NoHand
          /\ UNCHANGED <<hands, lcalls, entrances>>
      BY <1>5 DEF CloseLedger
    <3>2. timer' \in 0 .. MaxLedgerPages
      BY <3>1
    <3> QED
      BY <2>4, <2>5, <3>1, <3>2 DEF LedgerTypeOK
  <2>2. CASE RequestsOf(i) = {}
    <3>1. \A c \in LedgerCalls : lcalls[c].page # i
      BY <2>2 DEF RequestsOf
    <3>2. l \in Ledger /\ ~l.shown /\ ~l.inRoom
      BY <2>2, LedgerPieces DEF NoLedger, l
    <3>3. ledgers' \in [LedgerPages -> Ledger] /\ PlacesInv'
      BY <2>1, <3>1, <3>2, PlacesChanged
    <3> QED
      BY <2>5, <3>3
  <2>3. CASE RequestsOf(i) # {}
    <3>1. /\ l \in Ledger /\ ~l.shown /\ l.inRoom = ledgers[i].inRoom /\ l.code = ledgers[i].code
      BY <2>3 DEF LedgerTypeOK, Ledger, l
    <3>2. l.inRoom => l.code \in Rooms
      BY <3>1 DEF PlacesInv
    <3>3. ledgers' \in [LedgerPages -> Ledger] /\ PlacesInv'
      BY <2>1, <3>1, <3>2, PlacesChanged
    <3> QED
      BY <2>5, <3>3
  <2> QED
    BY <2>2, <2>3
<1> QED
  BY <1>1, <1>3, <1>4, <1>5

\* A refresh that follows an answer is of a room the page is in.
LEMMA AfterAnswerTypes ==
  ASSUME LedgerTypeOK, PlacesInv, NEW c \in LedgerCalls, NEW i \in LedgerPages,
         NEW data \in Ledger, data.inRoom => data.code \in Rooms,
         NEW polls \in BOOLEAN, RefreshRoom(c, i, data, polls)
  PROVE  /\ lcalls' \in [LedgerCalls -> LedgerCall \cup {Nothing}]
         /\ \A d \in LedgerCalls : \/ lcalls'[d] = lcalls[d]
                                   \/ lcalls'[d].step = "refresh" /\ lcalls'[d].code \in Rooms
                                   \/ lcalls'[d].step \notin {"join", "refresh"}
         /\ timer' \in 0 .. MaxLedgerPages /\ refreshInFlight' \in BOOLEAN
<1>1. /\ lcalls' \in [LedgerCalls -> LedgerCall \cup {Nothing}]
      /\ \A d \in LedgerCalls : d # c => lcalls'[d] = lcalls[d]
      /\ \/ lcalls'[c] = Nothing
         \/ /\ data.inRoom /\ lcalls'[c].page = i /\ lcalls'[c].step = "refresh"
            /\ lcalls'[c].code = data.code /\ lcalls'[c].answer = NoHand
      /\ timer' \in {timer, i} /\ refreshInFlight' \in BOOLEAN
  BY RefreshEffect
<1>2. timer' \in 0 .. MaxLedgerPages
  BY <1>1, LedgerBounds DEF LedgerTypeOK, LedgerPages
<1> QED
  BY <1>1, <1>2 DEF Nothing

LEMMA LoadTypes ==
  ASSUME LedgerTypeOK, PlacesInv, NEW c \in LedgerCalls
  PROVE  LoadData(c) \/ Acted(c) \/ DoJoinRoom(c) \/ EntrySubmitted(c) \/ RequestFails(c)
         => LedgerTypeOK' /\ PlacesInv'
<1>1. ASSUME LoadData(c) \/ Acted(c) PROVE LedgerTypeOK' /\ PlacesInv'
  <2> DEFINE i == lcalls[c].page
  <2>1. i \in LedgerPages
    BY <1>1, LedgerCallTypes DEF LoadData, Acted
  <2>2. ledgers[i] \in Ledger /\ (ledgers[i].inRoom => ledgers[i].code \in Rooms)
    BY <2>1 DEF LedgerTypeOK, PlacesInv
  <2>3. \E polls \in BOOLEAN : RefreshRoom(c, i, ledgers[i], polls)
    <3>1. ledgers[i].inRoom \in BOOLEAN
      BY <2>2 DEF Ledger
    <3> QED
      BY <1>1, <3>1 DEF LoadData, Acted
  <2>4. /\ lcalls' \in [LedgerCalls -> LedgerCall \cup {Nothing}]
        /\ \A d \in LedgerCalls : \/ lcalls'[d] = lcalls[d]
                                  \/ lcalls'[d].step = "refresh" /\ lcalls'[d].code \in Rooms
                                  \/ lcalls'[d].step \notin {"join", "refresh"}
        /\ timer' \in 0 .. MaxLedgerPages /\ refreshInFlight' \in BOOLEAN
    BY <2>1, <2>2, <2>3, AfterAnswerTypes
  <2>5. UNCHANGED <<hands, ledgers, lastHandId, astray, entrances, ltrouble>>
    BY <1>1 DEF LoadData, Acted
  <2>6. PlacesInv'
    BY <2>4, <2>5, PlacesKept
  <2> QED
    BY <2>4, <2>5, <2>6 DEF LedgerTypeOK
<1>2. ASSUME NEW i \in LedgerPages, NEW l \in Ledger,
             l.shown = ledgers[i].shown, l.open = ledgers[i].open,
             l.code = ledgers[i].code, l.inRoom => l.code \in Rooms,
             ledgers' = [ledgers EXCEPT ![i] = l],
             NEW polls \in BOOLEAN, RefreshRoom(c, i, l, polls),
             UNCHANGED <<hands, lastHandId, astray, entrances, ltrouble>>
      PROVE  LedgerTypeOK' /\ PlacesInv'
  <2>1. /\ lcalls' \in [LedgerCalls -> LedgerCall \cup {Nothing}]
        /\ \A d \in LedgerCalls : \/ lcalls'[d] = lcalls[d]
                                  \/ lcalls'[d].step = "refresh" /\ lcalls'[d].code \in Rooms
                                  \/ lcalls'[d].step \notin {"join", "refresh"}
        /\ timer' \in 0 .. MaxLedgerPages /\ refreshInFlight' \in BOOLEAN
    BY <1>2, AfterAnswerTypes
  <2>2. l.shown => l.open
    BY <1>2 DEF PlacesInv
  <2>3. ledgers' \in [LedgerPages -> Ledger] /\ PlacesInv'
    BY <1>2, <2>1, <2>2, PlacesChanged
  <2> QED
    BY <1>2, <2>1, <2>3 DEF LedgerTypeOK
<1>3. ASSUME DoJoinRoom(c) PROVE LedgerTypeOK' /\ PlacesInv'
  <2> DEFINE i == lcalls[c].page
             l == [ledgers[i] EXCEPT !.inRoom = TRUE]
  <2>1. i \in LedgerPages /\ ledgers[i].code \in Rooms
    BY <1>3, LedgerCallTypes DEF DoJoinRoom, PlacesInv
  <2>2. /\ l \in Ledger /\ l.shown = ledgers[i].shown /\ l.open = ledgers[i].open
        /\ l.code = ledgers[i].code
    <3>1. ledgers[i] \in Ledger
      BY <2>1 DEF LedgerTypeOK
    <3> QED
      BY <3>1 DEF Ledger
  <2>3. /\ ledgers' = [ledgers EXCEPT ![i] = l] /\ RefreshRoom(c, i, l, TRUE)
        /\ UNCHANGED <<hands, lastHandId, astray, entrances, ltrouble>>
    BY <1>3 DEF DoJoinRoom
  <2> HIDE DEF l, i
  <2> QED
    BY <1>2, <2>1, <2>2, <2>3
<1>4. ASSUME EntrySubmitted(c) PROVE LedgerTypeOK' /\ PlacesInv'
  <2> DEFINE i == lcalls[c].page
             l == [ledgers[i] EXCEPT !.typed = NoHand]
  <2>1. i \in LedgerPages
    BY <1>4, LedgerCallTypes DEF EntrySubmitted
  <2>2. /\ l \in Ledger /\ l.shown = ledgers[i].shown /\ l.open = ledgers[i].open
        /\ l.code = ledgers[i].code /\ l.inRoom = ledgers[i].inRoom
    <3>1. ledgers[i] \in Ledger
      BY <2>1 DEF LedgerTypeOK
    <3> QED
      BY <3>1 DEF Ledger
  <2>3. /\ ledgers' = [ledgers EXCEPT ![i] = l] /\ RefreshRoom(c, i, l, FALSE)
        /\ UNCHANGED <<hands, lastHandId, astray, entrances, ltrouble>>
    BY <1>4 DEF EntrySubmitted
  <2> HIDE DEF l, i
  <2>4. l.inRoom => l.code \in Rooms
    BY <2>1, <2>2 DEF PlacesInv
  <2> QED
    BY <1>2, <2>1, <2>2, <2>3, <2>4
<1>5. ASSUME RequestFails(c) PROVE LedgerTypeOK' /\ PlacesInv'
  <2>1. /\ lcalls' = [lcalls EXCEPT ![c] = Nothing]
        /\ astray' = (astray \/ lcalls[c].step = "login") /\ LedgerFails
        /\ UNCHANGED <<hands, ledgers, timer, refreshInFlight, lastHandId, entrances>>
    BY <1>5 DEF RequestFails
  <2>2. lcalls' \in [LedgerCalls -> LedgerCall \cup {Nothing}]
    BY <2>1 DEF LedgerTypeOK
  <2>3. \A d \in LedgerCalls : lcalls'[d] = lcalls[d] \/ lcalls'[d].step \notin {"join", "refresh"}
    BY <2>1 DEF LedgerTypeOK, Nothing
  <2>4. PlacesInv'
    BY <2>1, <2>3, PlacesKept
  <2> QED
    BY <2>1, <2>2, <2>4, LedgerBoundTypes DEF LedgerTypeOK
<1> QED
  BY <1>1, <1>3, <1>4, <1>5

LEMMA UserTypes ==
  ASSUME LedgerTypeOK, PlacesInv, NEW i \in LedgerPages
  PROVE  \/ \E code \in Rooms : JoinRoom(i, code)
         \/ LeaveRoom(i) \/ TypeAmount(i) \/ SubmitEntry(i) \/ ActOnRoom(i) \/ ActOnHand(i)
         => LedgerTypeOK' /\ PlacesInv'
<1>1. ASSUME NEW code \in Rooms, JoinRoom(i, code) PROVE LedgerTypeOK' /\ PlacesInv'
  <2> DEFINE l == [ledgers[i] EXCEPT !.code = code]
  <2>1. /\ l \in Ledger /\ l.shown = ledgers[i].shown /\ l.open = ledgers[i].open /\ l.code = code
    BY DEF LedgerTypeOK, Ledger
  <2>2. ledgers' = [ledgers EXCEPT ![i] = l] /\ Sends(Request(i, "join"))
    BY <1>1 DEF JoinRoom
  <2>3. l.shown => l.open
    BY <2>1 DEF PlacesInv
  <2> HIDE DEF l
  <2>4. /\ Request(i, "join") \in LedgerCall /\ Request(i, "join").step = "join"
        /\ Request(i, "join").page = i
    BY LedgerPieces DEF Request, Nothing
  <2>5. /\ lcalls' \in [LedgerCalls -> LedgerCall \cup {Nothing}]
        /\ \A c \in LedgerCalls : lcalls'[c] \in {lcalls[c], Request(i, "join")}
    BY <2>2, <2>4, SendsEffect
  <2>6. ledgers' \in [LedgerPages -> Ledger] /\ PlacesInv'
    BY <2>1, <2>2, <2>3, <2>4, <2>5, PlacesChanged
  <2>7. entrances' \in 0 .. MaxEntrances
    BY <1>1, LedgerBoundTypes DEF JoinRoom
  <2> QED
    BY <1>1, <2>5, <2>6, <2>7 DEF JoinRoom, LedgerTypeOK
<1>2. ASSUME LeaveRoom(i) PROVE LedgerTypeOK' /\ PlacesInv'
  <2> DEFINE l == [ledgers[i] EXCEPT !.inRoom = FALSE, !.view = NoHand]
  <2>1. /\ l \in Ledger /\ l.shown = ledgers[i].shown /\ l.open = ledgers[i].open
        /\ l.code = ledgers[i].code /\ ~l.inRoom
    BY DEF LedgerTypeOK, Ledger
  <2>2. /\ ledgers' = [ledgers EXCEPT ![i] = l]
        /\ timer' = 0 /\ lastHandId' = NoHand
        /\ UNCHANGED <<hands, lcalls, refreshInFlight, entrances>>
    BY <1>2 DEF LeaveRoom
  <2>3. l.shown => l.open
    BY <2>1 DEF PlacesInv
  <2> HIDE DEF l
  <2>4. ledgers' \in [LedgerPages -> Ledger] /\ PlacesInv'
    BY <2>1, <2>2, <2>3, PlacesChanged
  <2>5. ltrouble' \in 0 .. MaxLedgerTrouble /\ astray' \in BOOLEAN
    BY <1>2, LedgerBoundTypes DEF LeaveRoom
  <2>6. timer' \in 0 .. MaxLedgerPages
    BY <2>2, LedgerBounds
  <2> QED
    BY <2>2, <2>4, <2>5, <2>6 DEF LedgerTypeOK
<1>3. ASSUME TypeAmount(i) PROVE LedgerTypeOK' /\ PlacesInv'
  <2> DEFINE l == [ledgers[i] EXCEPT !.typed = ledgers[i].view]
  <2>1. /\ l \in Ledger /\ l.shown = ledgers[i].shown /\ l.open = ledgers[i].open
        /\ l.code = ledgers[i].code /\ l.inRoom = ledgers[i].inRoom
    BY DEF LedgerTypeOK, Ledger
  <2>2. /\ ledgers' = [ledgers EXCEPT ![i] = l]
        /\ UNCHANGED <<hands, lcalls, timer, refreshInFlight, lastHandId, astray, entrances,
                       ltrouble>>
    BY <1>3 DEF TypeAmount
  <2>3. (l.shown => l.open) /\ (l.inRoom => l.code \in Rooms)
    BY <2>1 DEF PlacesInv
  <2> HIDE DEF l
  <2>4. ledgers' \in [LedgerPages -> Ledger] /\ PlacesInv'
    BY <2>1, <2>2, <2>3, PlacesChanged
  <2> QED
    BY <2>2, <2>4 DEF LedgerTypeOK
<1>4. ASSUME SubmitEntry(i) \/ Acts(i) PROVE LedgerTypeOK' /\ PlacesInv'
  <2>1. /\ \E step \in {"entry", "act"} : Sends(Request(i, step))
        /\ UNCHANGED <<hands, ledgers, timer, refreshInFlight, lastHandId, astray, entrances,
                       ltrouble>>
    BY <1>4 DEF SubmitEntry, Acts
  <2>2. /\ lcalls' \in [LedgerCalls -> LedgerCall \cup {Nothing}]
        /\ \A c \in LedgerCalls : \/ lcalls'[c] = lcalls[c]
                                  \/ lcalls'[c].step \notin {"join", "refresh"}
    BY <2>1, AskedTypes
  <2>3. PlacesInv'
    BY <2>1, <2>2, PlacesKept
  <2> QED
    BY <2>1, <2>2, <2>3 DEF LedgerTypeOK
<1> QED
  BY <1>1, <1>2, <1>3, <1>4 DEF ActOnRoom, ActOnHand

LEMMA LedgerTypes == LedgerTypeOK /\ PlacesInv /\ LedgerNext => LedgerTypeOK' /\ PlacesInv'
BY RefreshTypes, PageTypes, LoadTypes, UserTypes DEF LedgerNext

----------------------------------------------------------------------------
(* Amounts go to their hand *)

\* The pages stay as they are, and requests that are sent or answered are sound.
LEMMA FormKept ==
  ASSUME FormInv, UNCHANGED <<ledgers, lastHandId>>,
         timer' = timer \/ timer' \notin LedgerPages \/ ledgers[timer'].open,
         \A c \in LedgerCalls : lcalls'[c] = lcalls[c] \/ RequestSound(lcalls'[c])
  PROVE  FormInv'
<1>1. ASSUME NEW c \in LedgerCalls PROVE RequestSound(lcalls[c])'
  <2>1. RequestSound(lcalls'[c])
    BY DEF FormInv
  <2> QED
    BY <2>1 DEF RequestSound
<1>2. \A i \in LedgerPages : ledgers'[i].open => LedgerSound(i)'
  BY DEF FormInv, LedgerSound
<1> QED
  BY <1>1, <1>2 DEF FormInv

\* The open page changes, and no refresh of it is under way if it goes elsewhere.
LEMMA FormChanged ==
  ASSUME LedgerTypeOK, FormInv, NEW i \in LedgerPages, NEW l,
         ledgers' = [ledgers EXCEPT ![i] = l], ledgers[i].open, l.open, LedgerSound(i)',
         timer' \in LedgerPages => timer' \in {timer, i},
         \A c \in LedgerCalls : RequestSound(lcalls[c])'
  PROVE  FormInv'
<1>1. ledgers'[i] = l /\ \A j \in LedgerPages : j # i => ledgers'[j] = ledgers[j]
  BY DEF LedgerTypeOK
<1>2. \A j \in LedgerPages : ledgers'[j].open => j = i
  BY <1>1 DEF FormInv
<1>3. timer' \in LedgerPages => ledgers'[timer'].open
  BY <1>1 DEF FormInv
<1> QED
  BY <1>1, <1>2, <1>3 DEF FormInv

\* Requests that are kept, dropped or sent are sound where the page keeps its room.
LEMMA SoundKept ==
  ASSUME LedgerTypeOK, FormInv, NEW i \in LedgerPages, NEW l,
         ledgers' = [ledgers EXCEPT ![i] = l], ledgers[i].open, l.open,
         NEW c \in LedgerCalls,
         \/ /\ lcalls'[c] = lcalls[c]
            /\ lcalls[c].page = i /\ lcalls[c].step = "refresh" =>
                 l.code = ledgers[i].code /\ (ledgers[i].inRoom => l.inRoom)
         \/ lcalls'[c] = Nothing
         \/ /\ lcalls'[c].page = i /\ lcalls'[c].answer = NoHand
            /\ lcalls'[c].step = "refresh" => l.inRoom /\ lcalls'[c].code = l.code
  PROVE  RequestSound(lcalls[c])'
<1>1. ledgers'[i] = l /\ \A j \in LedgerPages : j # i => ledgers'[j] = ledgers[j]
  BY DEF LedgerTypeOK
<1>2. CASE lcalls'[c] = lcalls[c] /\ (lcalls[c].page = i /\ lcalls[c].step = "refresh" =>
                                       l.code = ledgers[i].code /\ (ledgers[i].inRoom => l.inRoom))
  <2>1. RequestSound(lcalls[c])
    BY DEF FormInv
  <2> QED
    BY <1>1, <1>2, <2>1 DEF RequestSound
<1>3. CASE lcalls'[c] = Nothing
  BY <1>3 DEF RequestSound, Nothing, LedgerPages
<1>4. CASE /\ lcalls'[c].page = i /\ lcalls'[c].answer = NoHand
           /\ lcalls'[c].step = "refresh" => l.inRoom /\ lcalls'[c].code = l.code
  BY <1>1, <1>4 DEF RequestSound
<1> QED
  BY <1>2, <1>3, <1>4

\* What the server and the interval do, and what becomes of a refresh.
LEMMA RefreshForms ==
  ASSUME LedgerTypeOK, PlacesInv, FormInv
  PROVE  /\ \A r \in Rooms : CreateNextHand(r) => FormInv'
         /\ \A i \in LedgerPages : PollLedger(i) => FormInv'
         /\ \A c \in LedgerCalls : AnswerRefresh(c) \/ ShowRoom(c) \/ RefreshFails(c) => FormInv'
<1>1. ASSUME NEW r \in Rooms, CreateNextHand(r) PROVE FormInv'
  BY <1>1, FormKept DEF CreateNextHand
<1>2. ASSUME NEW i \in LedgerPages, PollLedger(i) PROVE FormInv'
  <2> DEFINE q == [Request(i, "refresh") EXCEPT !.code = ledgers[i].code]
  <2>1. ledgers[i].code \in Rooms \cup {"none"} /\ ledgers[i].inRoom /\ ledgers[i].open
    BY <1>2 DEF LedgerTypeOK, Ledger, PollLedger, FormInv
  <2>2. q \in LedgerCall /\ Sends(q)
    BY <1>2, <2>1, LedgerPieces DEF PollLedger
  <2>3. RequestSound(q)
    BY <2>1 DEF Request, Nothing, RequestSound
  <2> HIDE DEF q
  <2>4. \A c \in LedgerCalls : lcalls'[c] \in {lcalls[c], q}
    BY <2>2, SendsEffect
  <2> QED
    BY <1>2, <2>3, <2>4, FormKept DEF PollLedger
<1>3. ASSUME NEW c \in LedgerCalls, AnswerRefresh(c) PROVE FormInv'
  <2> DEFINE a == [room |-> lcalls[c].code, hand |-> hands[lcalls[c].code]]
  <2>1. /\ lcalls[c] \in LedgerCall /\ lcalls[c].code \in Rooms
        /\ lcalls' = [lcalls EXCEPT ![c].answer = a]
    BY <1>3, LedgerCallTypes DEF AnswerRefresh, PlacesInv
  <2>2. a.room = lcalls[c].code /\ a.hand > 0
    BY <2>1, LedgerBounds DEF LedgerTypeOK
  <2> HIDE DEF a
  <2>3. /\ lcalls'[c].page = lcalls[c].page /\ lcalls'[c].step = lcalls[c].step
        /\ lcalls'[c].code = lcalls[c].code /\ lcalls'[c].answer = a
        /\ \A d \in LedgerCalls : d # c => lcalls'[d] = lcalls[d]
    BY <2>1 DEF LedgerTypeOK, LedgerCall
  <2>4. RequestSound(lcalls[c])
    BY DEF FormInv
  <2>5. RequestSound(lcalls'[c])
    BY <2>2, <2>3, <2>4 DEF RequestSound
  <2> QED
    BY <1>3, <2>3, <2>5, FormKept DEF AnswerRefresh
<1>4. ASSUME NEW c \in LedgerCalls, lcalls[c].step = "refresh", RefreshEnds(c)
      PROVE  /\ \A d \in LedgerCalls : lcalls'[d] = lcalls[d] \/ lcalls'[d] = Nothing
             /\ timer' = timer \/ timer' = lcalls[c].page
             /\ lcalls[c].page \in LedgerPages /\ ledgers[lcalls[c].page].open
  <2>1. lcalls[c].page \in LedgerPages
    BY <1>4, LedgerCallTypes
  <2>2. ledgers[lcalls[c].page].open
    BY <2>1 DEF FormInv, RequestSound
  <2> QED
    BY <1>4, <2>1, <2>2 DEF RefreshEnds, LedgerTypeOK
<1>5. ASSUME NEW c \in LedgerCalls, ShowRoom(c) PROVE FormInv'
  <2>1. PICK i \in LedgerPages : i = lcalls[c].page
    BY <1>5, LedgerCallTypes DEF ShowRoom
  <2> DEFINE q == lcalls[c]
             typed == IF Id(q.answer) # lastHandId THEN NoHand ELSE ledgers[i].typed
             l == [ledgers[i] EXCEPT !.view = q.answer, !.typed = typed]
  <2>2. /\ \A d \in LedgerCalls : lcalls'[d] = lcalls[d] \/ lcalls'[d] = Nothing
        /\ timer' = timer \/ timer' = i
        /\ i \in LedgerPages /\ ledgers[i].open
    BY <1>4, <1>5, <2>1 DEF ShowRoom
  <2>3. /\ ledgers[i].inRoom /\ q.answer # NoHand
        /\ q.answer.room = ledgers[i].code /\ q.answer.hand > 0
    BY <1>5, <2>1, <2>2 DEF ShowRoom, FormInv, RequestSound
  <2>4. Id(q.answer) = q.answer
    BY <2>3 DEF Id
  <2>5. ledgers' = [ledgers EXCEPT ![i] = l] /\ lastHandId' = q.answer
    BY <1>5, <2>1, <2>4 DEF ShowRoom
  <2>6. /\ l.view = q.answer /\ l.typed = typed /\ l.open = ledgers[i].open
        /\ l.inRoom = ledgers[i].inRoom /\ l.code = ledgers[i].code
    <3>1. ledgers[i] \in Ledger
      BY <2>2 DEF LedgerTypeOK
    <3> HIDE DEF typed
    <3> QED
      BY <3>1 DEF Ledger
  <2>7. typed \in {NoHand, q.answer}
    BY <2>2, <2>3, <2>4 DEF FormInv, LedgerSound
  <2> HIDE DEF l, typed
  <2>8. ledgers'[i] = l
    BY <2>2, <2>5 DEF LedgerTypeOK
  <2>9. LedgerSound(i)'
    BY <2>3, <2>5, <2>6, <2>7, <2>8 DEF LedgerSound
  <2>10. \A d \in LedgerCalls : RequestSound(lcalls[d])'
    BY <2>2, <2>5, <2>6, SoundKept
  <2> QED
    BY <2>2, <2>5, <2>6, <2>9, <2>10, FormChanged
<1>6. ASSUME NEW c \in LedgerCalls, RefreshFails(c) PROVE FormInv'
  <2>1. /\ \A d \in LedgerCalls : lcalls'[d] = lcalls[d] \/ lcalls'[d] = Nothing
        /\ timer' = timer \/ timer' = lcalls[c].page
        /\ lcalls[c].page \in LedgerPages /\ ledgers[lcalls[c].page].open
    BY <1>4, <1>6 DEF RefreshFails
  <2>2. RequestSound(Nothing)
    BY DEF RequestSound, Nothing, LedgerPages
  <2> QED
    BY <1>6, <2>1, <2>2, FormKept DEF RefreshFails
<1> QED
  BY <1>1, <1>2, <1>3, <1>5, <1>6

\* The open page changes where its refreshes do not notice, or leaves with none under way.
LEMMA PageForms ==
  ASSUME LedgerTypeOK, PlacesInv, FormInv, ~astray'
  PROVE  /\ \A code \in Rooms \cup {"none"} : OpenLedger(code) => FormInv'
         /\ \A i \in LedgerPages : OnShow(i) \/ OnHide(i) \/ CloseLedger(i) => FormInv'
<1>1. ASSUME NEW code \in Rooms \cup {"none"}, OpenLedger(code) PROVE FormInv'
  <2>1. PICK i \in FreeLedgers : OpenLedger(code)!(i)
    BY <1>1, Zenon DEF OpenLedger
  <2> DEFINE l == [NoLedger EXCEPT !.open = TRUE, !.shown = TRUE, !.code = code,
                                   !.inRoom = code # "none"]
             q == Request(i, "login")
  <2>2. l.open /\ l.view = NoHand
    BY DEF NoLedger
  <2>3. i \in LedgerPages /\ \A j \in LedgerPages : ~ledgers[j].open
    BY <2>1 DEF FreeLedgers, OpenLedgers
  <2>4. lastHandId = NoHand /\ lastHandId' = NoHand /\ timer' = 0
    BY <2>1, <2>3 DEF FormInv
  <2>5. ledgers' = [ledgers EXCEPT ![i] = l] /\ Sends(q)
    BY <2>1
  <2>6. q \in LedgerCall /\ q.page = i /\ q.step = "login" /\ q.answer = NoHand
    BY <2>3, LedgerPieces DEF Request, Nothing
  <2> HIDE DEF l, q
  <2>7. ledgers'[i] = l /\ \A j \in LedgerPages : j # i => ledgers'[j] = ledgers[j]
    BY <2>3, <2>5 DEF LedgerTypeOK
  <2>8. \A c \in LedgerCalls : lcalls'[c] \in {lcalls[c], q}
    BY <2>5, <2>6, SendsEffect
  <2>9. ASSUME NEW c \in LedgerCalls PROVE RequestSound(lcalls[c])'
    <3>1. lcalls[c].page \notin LedgerPages
      BY <2>3 DEF FormInv, RequestSound
    <3> QED
      BY <2>2, <2>6, <2>7, <2>8, <3>1 DEF RequestSound
  <2>10. LedgerSound(i)'
    BY <2>2, <2>4, <2>7 DEF LedgerSound
  <2>11. \A j \in LedgerPages : ledgers'[j].open => j = i
    BY <2>3, <2>7
  <2> QED
    BY <2>2, <2>3, <2>4, <2>7, <2>9, <2>10, <2>11 DEF FormInv, LedgerPages
<1>2. ASSUME NEW i \in LedgerPages, NEW b \in BOOLEAN, ledgers[i].open,
             ledgers' = [ledgers EXCEPT ![i].shown = b], timer' = 0, UNCHANGED lastHandId,
             \A c \in LedgerCalls : \/ lcalls'[c] = lcalls[c]
                                    \/ /\ lcalls'[c].page = i /\ lcalls'[c].answer = NoHand
                                       /\ lcalls'[c].step # "refresh"
      PROVE  FormInv'
  <2> DEFINE l == [ledgers[i] EXCEPT !.shown = b]
  <2>1. /\ l.view = ledgers[i].view /\ l.typed = ledgers[i].typed /\ l.open = ledgers[i].open
        /\ l.inRoom = ledgers[i].inRoom /\ l.code = ledgers[i].code
    BY DEF LedgerTypeOK, Ledger
  <2>2. ledgers' = [ledgers EXCEPT ![i] = l]
    BY <1>2
  <2> HIDE DEF l
  <2>3. ledgers'[i] = l
    BY <2>2 DEF LedgerTypeOK
  <2>4. LedgerSound(i)'
    BY <1>2, <2>1, <2>3 DEF FormInv, LedgerSound
  <2>5. \A c \in LedgerCalls : RequestSound(lcalls[c])'
    BY <1>2, <2>1, <2>2, SoundKept
  <2>6. timer' \notin LedgerPages
    BY <1>2 DEF LedgerPages
  <2> QED
    BY <1>2, <2>1, <2>2, <2>4, <2>5, <2>6, FormChanged
<1>3. ASSUME NEW i \in LedgerPages, OnShow(i) PROVE FormInv'
  <2>1. /\ Request(i, "login") \in LedgerCall /\ Request(i, "login").page = i
        /\ Request(i, "login").step = "login" /\ Request(i, "login").answer = NoHand
    BY LedgerPieces DEF Request, Nothing
  <2>2. \A c \in LedgerCalls : lcalls'[c] \in {lcalls[c], Request(i, "login")}
    BY <1>3, <2>1, SendsEffect DEF OnShow
  <2> QED
    BY <1>2, <1>3, <2>1, <2>2 DEF OnShow
<1>4. ASSUME NEW i \in LedgerPages, OnHide(i) PROVE FormInv'
  BY <1>2, <1>4 DEF OnHide
<1>5. ASSUME NEW i \in LedgerPages, CloseLedger(i) PROVE FormInv'
  <2> DEFINE steps == {"login", "join", "entry", "act", "refresh"}
             l == IF RequestsOf(i) = {} THEN NoLedger
                  ELSE [ledgers[i] EXCEPT !.open = FALSE, !.shown = FALSE]
  <2>1. /\ ledgers[i].open /\ lcalls' = lcalls /\ timer' = 0 /\ lastHandId' = NoHand
        /\ ledgers' = [ledgers EXCEPT ![i] = l] /\ Leaves(i, steps)
    BY <1>5 DEF CloseLedger
  <2>2. ~l.open
    BY DEF NoLedger, LedgerTypeOK, Ledger
  <2> HIDE DEF l
  <2>3. \A j \in LedgerPages : ~ledgers'[j].open
    BY <2>1, <2>2 DEF LedgerTypeOK, FormInv
  <2>4. ASSUME NEW c \in LedgerCalls, lcalls[c].page \in LedgerPages PROVE FALSE
    <3>1. lcalls[c].page = i
      BY <2>1, <2>4 DEF FormInv, RequestSound
    <3>2. lcalls[c].step \in steps
      BY <2>4 DEF LedgerTypeOK, LedgerCall, Nothing, LedgerPages
    <3> QED
      BY <2>1, <3>1, <3>2 DEF Leaves, RequestsOf
  <2>5. \A c \in LedgerCalls : RequestSound(lcalls[c])'
    BY <2>1, <2>4 DEF RequestSound
  <2> QED
    BY <2>1, <2>3, <2>5 DEF FormInv, LedgerPages
<1> QED
  BY <1>1, <1>3, <1>4, <1>5

LEMMA LoadForms ==
  ASSUME LedgerTypeOK, PlacesInv, FormInv, ~astray', NEW c \in LedgerCalls
  PROVE  LoadData(c) \/ Acted(c) \/ DoJoinRoom(c) \/ EntrySubmitted(c) \/ RequestFails(c)
         => FormInv'
<1>1. ASSUME NEW i \in LedgerPages, ledgers[i].open, NEW l \in Ledger,
             ledgers' = [ledgers EXCEPT ![i] = l],
             l.open, l.code = ledgers[i].code, l.view = ledgers[i].view,
             ledgers[i].inRoom => l.inRoom, l.typed \in {NoHand, ledgers[i].typed},
             NEW polls \in BOOLEAN, RefreshRoom(c, i, l, polls), UNCHANGED lastHandId
      PROVE  FormInv'
  <2>1. /\ \A d \in LedgerCalls : d # c => lcalls'[d] = lcalls[d]
        /\ \/ lcalls'[c] = Nothing
           \/ /\ l.inRoom /\ lcalls'[c].page = i /\ lcalls'[c].step = "refresh"
              /\ lcalls'[c].code = l.code /\ lcalls'[c].answer = NoHand
        /\ timer' \in {timer, i}
    BY <1>1, RefreshEffect
  <2>2. \A d \in LedgerCalls : RequestSound(lcalls[d])'
    BY <1>1, <2>1, SoundKept
  <2>3. ledgers'[i] = l
    BY <1>1 DEF LedgerTypeOK
  <2>4. LedgerSound(i)'
    BY <1>1, <2>3 DEF FormInv, LedgerSound
  <2> QED
    BY <1>1, <2>1, <2>2, <2>4, FormChanged
<1>2. ASSUME lcalls[c].step # "idle"
      PROVE  \E i \in LedgerPages : i = lcalls[c].page /\ ledgers[i].open /\ ledgers[i] \in Ledger
  BY <1>2, LedgerCallTypes DEF FormInv, RequestSound, LedgerTypeOK
<1>3. ASSUME LoadData(c) \/ Acted(c) PROVE FormInv'
  <2>1. PICK i \in LedgerPages : i = lcalls[c].page /\ ledgers[i].open /\ ledgers[i] \in Ledger
    BY <1>2, <1>3 DEF LoadData, Acted
  <2>2. \E polls \in BOOLEAN : RefreshRoom(c, i, ledgers[i], polls)
    <3>1. ledgers[i].inRoom \in BOOLEAN
      BY <2>1 DEF Ledger
    <3> QED
      BY <1>3, <2>1, <3>1 DEF LoadData, Acted
  <2>3. ledgers' = [ledgers EXCEPT ![i] = ledgers[i]] /\ UNCHANGED lastHandId
    BY <1>3 DEF LoadData, Acted, LedgerTypeOK
  <2> QED
    BY <1>1, <2>1, <2>2, <2>3
<1>4. ASSUME DoJoinRoom(c) PROVE FormInv'
  <2>1. PICK i \in LedgerPages : i = lcalls[c].page /\ ledgers[i].open /\ ledgers[i] \in Ledger
    BY <1>2, <1>4 DEF DoJoinRoom
  <2> DEFINE l == [ledgers[i] EXCEPT !.inRoom = TRUE]
  <2>2. /\ l \in Ledger /\ l.inRoom /\ l.open = ledgers[i].open /\ l.code = ledgers[i].code
        /\ l.view = ledgers[i].view /\ l.typed = ledgers[i].typed
    BY <2>1 DEF Ledger
  <2>3. ledgers' = [ledgers EXCEPT ![i] = l] /\ RefreshRoom(c, i, l, TRUE) /\ UNCHANGED lastHandId
    BY <1>4, <2>1 DEF DoJoinRoom
  <2> HIDE DEF l
  <2> QED
    BY <1>1, <2>1, <2>2, <2>3
<1>5. ASSUME EntrySubmitted(c) PROVE FormInv'
  <2>1. PICK i \in LedgerPages : i = lcalls[c].page /\ ledgers[i].open /\ ledgers[i] \in Ledger
    BY <1>2, <1>5 DEF EntrySubmitted
  <2> DEFINE l == [ledgers[i] EXCEPT !.typed = NoHand]
  <2>2. /\ l \in Ledger /\ l.inRoom = ledgers[i].inRoom /\ l.open = ledgers[i].open
        /\ l.code = ledgers[i].code /\ l.view = ledgers[i].view /\ l.typed = NoHand
    BY <2>1 DEF Ledger
  <2>3. ledgers' = [ledgers EXCEPT ![i] = l] /\ RefreshRoom(c, i, l, FALSE) /\ UNCHANGED lastHandId
    BY <1>5, <2>1 DEF EntrySubmitted
  <2> HIDE DEF l
  <2> QED
    BY <1>1, <2>1, <2>2, <2>3
<1>6. ASSUME RequestFails(c) PROVE FormInv'
  <2>1. RequestSound(Nothing)
    BY DEF RequestSound, Nothing, LedgerPages
  <2>2. \A d \in LedgerCalls : lcalls'[d] = lcalls[d] \/ lcalls'[d] = Nothing
    BY <1>6 DEF RequestFails, LedgerTypeOK
  <2> QED
    BY <1>6, <2>1, <2>2, FormKept DEF RequestFails
<1> QED
  BY <1>3, <1>4, <1>5, <1>6

LEMMA UserForms ==
  ASSUME LedgerTypeOK, PlacesInv, FormInv, ~astray', NEW i \in LedgerPages
  PROVE  \/ \E code \in Rooms : JoinRoom(i, code)
         \/ LeaveRoom(i) \/ TypeAmount(i) \/ SubmitEntry(i) \/ ActOnRoom(i) \/ ActOnHand(i)
         => FormInv'
<1>1. \A step \in {"login", "join", "entry", "act"} :
        /\ Request(i, step) \in LedgerCall /\ Request(i, step).page = i
        /\ Request(i, step).step = step /\ Request(i, step).answer = NoHand
  BY LedgerPieces DEF Request, Nothing
<1>2. ledgers[i] \in Ledger /\ (ledgers[i].shown => ledgers[i].open)
  BY DEF LedgerTypeOK, PlacesInv
<1>3. ASSUME NEW code \in Rooms, JoinRoom(i, code) PROVE FormInv'
  <2> DEFINE l == [ledgers[i] EXCEPT !.code = code]
  <2>1. /\ l.open = ledgers[i].open /\ l.inRoom = ledgers[i].inRoom /\ l.code = code
        /\ l.view = ledgers[i].view /\ l.typed = ledgers[i].typed
    BY <1>2 DEF Ledger
  <2>2. /\ ledgers[i].open /\ ~ledgers[i].inRoom /\ \A c \in LedgerCalls : lcalls[c].page # i
        /\ ledgers' = [ledgers EXCEPT ![i] = l] /\ Sends(Request(i, "join"))
        /\ UNCHANGED <<timer, lastHandId>>
    BY <1>2, <1>3 DEF JoinRoom, RequestsOf
  <2> HIDE DEF l
  <2>3. \A c \in LedgerCalls : lcalls'[c] \in {lcalls[c], Request(i, "join")}
    BY <1>1, <2>2, SendsEffect
  <2>4. ASSUME NEW c \in LedgerCalls PROVE RequestSound(lcalls[c])'
    BY <1>1, <2>1, <2>2, <2>3, SoundKept
  <2>5. ledgers'[i] = l
    BY <2>2 DEF LedgerTypeOK
  <2>6. LedgerSound(i)'
    BY <2>1, <2>2, <2>5 DEF FormInv, LedgerSound
  <2> QED
    BY <2>1, <2>2, <2>4, <2>6, FormChanged
<1>4. ASSUME LeaveRoom(i) PROVE FormInv'
  <2> DEFINE l == [ledgers[i] EXCEPT !.inRoom = FALSE, !.view = NoHand]
  <2>1. l.open = ledgers[i].open /\ l.code = ledgers[i].code /\ l.view = NoHand /\ ~l.inRoom
    BY <1>2 DEF Ledger
  <2>2. /\ ledgers[i].open /\ ledgers' = [ledgers EXCEPT ![i] = l] /\ lcalls' = lcalls
        /\ timer' = 0 /\ lastHandId' = NoHand
        /\ Leaves(i, {"login", "refresh", "entry", "act"})
    BY <1>2, <1>4 DEF LeaveRoom
  <2> HIDE DEF l
  <2>3. \A c \in LedgerCalls : ~(lcalls[c].page = i /\ lcalls[c].step = "refresh")
    BY <2>2 DEF Leaves, RequestsOf
  <2>4. \A c \in LedgerCalls : RequestSound(lcalls[c])'
    BY <2>1, <2>2, <2>3, SoundKept
  <2>5. ledgers'[i] = l
    BY <2>2 DEF LedgerTypeOK
  <2>6. LedgerSound(i)'
    BY <2>1, <2>2, <2>5 DEF LedgerSound
  <2>7. timer' \notin LedgerPages
    BY <2>2 DEF LedgerPages
  <2> QED
    BY <2>1, <2>2, <2>4, <2>6, <2>7, FormChanged
<1>5. ASSUME TypeAmount(i) PROVE FormInv'
  <2> DEFINE l == [ledgers[i] EXCEPT !.typed = ledgers[i].view]
  <2>1. /\ l.open = ledgers[i].open /\ l.inRoom = ledgers[i].inRoom /\ l.code = ledgers[i].code
        /\ l.view = ledgers[i].view /\ l.typed = ledgers[i].view
    BY <1>2 DEF Ledger
  <2>2. /\ ledgers[i].open /\ ledgers' = [ledgers EXCEPT ![i] = l] /\ lcalls' = lcalls
        /\ UNCHANGED <<timer, lastHandId>>
    BY <1>2, <1>5 DEF TypeAmount
  <2> HIDE DEF l
  <2>3. \A c \in LedgerCalls : RequestSound(lcalls[c])'
    BY <2>1, <2>2, SoundKept
  <2>4. ledgers'[i] = l
    BY <2>2 DEF LedgerTypeOK
  <2>5. LedgerSound(i)'
    BY <2>1, <2>2, <2>4 DEF FormInv, LedgerSound
  <2> QED
    BY <2>1, <2>2, <2>3, <2>5, FormChanged
<1>6. ASSUME SubmitEntry(i) \/ Acts(i) PROVE FormInv'
  <2>1. PICK step \in {"entry", "act"} : Sends(Request(i, step))
    BY <1>6 DEF SubmitEntry, Acts
  <2>2. UNCHANGED <<ledgers, timer, lastHandId>> /\ ledgers[i].open
    BY <1>2, <1>6 DEF SubmitEntry, Acts
  <2>3. RequestSound(Request(i, step))
    BY <1>1, <2>2 DEF RequestSound
  <2>4. \A c \in LedgerCalls : lcalls'[c] \in {lcalls[c], Request(i, step)}
    BY <1>1, <2>1, SendsEffect
  <2> QED
    BY <2>2, <2>3, <2>4, FormKept
<1> QED
  BY <1>3, <1>4, <1>5, <1>6 DEF ActOnRoom, ActOnHand

LEMMA LedgerForms ==
  ASSUME LedgersInv, LedgerNext
  PROVE  LedgersInv'
<1>1. astray => astray'
  BY DEF LedgerNext, OpenLedger, CreateNextHand, OnShow, OnHide, CloseLedger, PollLedger,
         LeaveRoom, TypeAmount, SubmitEntry, ActOnRoom, ActOnHand, Acts, JoinRoom, LoadData,
         DoJoinRoom, EntrySubmitted, Acted, AnswerRefresh, ShowRoom, RefreshFails, RequestFails,
         Leaves
<1>2. ASSUME ~astray' PROVE FormInv'
  <2>1. FormInv /\ LedgerTypeOK /\ PlacesInv
    BY <1>1, <1>2 DEF LedgersInv
  <2> QED
    BY <1>2, <2>1, RefreshForms, PageForms, LoadForms, UserForms DEF LedgerNext
<1> QED
  BY <1>2, LedgerTypes DEF LedgersInv

----------------------------------------------------------------------------
(* The theorems *)

LEMMA InitIInv == Init => IInv
<1> SUFFICES ASSUME Init PROVE IInv
  OBVIOUS
<1>1. /\ TableTypeOK
      /\ server.turn # "nobody" => server.room = "playing" /\ server.table = "hands"
  <2>1. /\ server \in Views
        /\ server.turn # "nobody" => server.room = "playing" /\ server.table = "hands"
    BY TableBounds DEF Init, TableInit, Views, Statuses, Tables, Turns
  <2>2. pages \in [Pages -> Page] /\ calls \in [Calls -> Call \cup {Idle}]
    BY TablePieces DEF Init, TableInit
  <2>3. 0 \in 0 .. MaxPages /\ 0 \in 0 .. MaxVisits /\ 0 \in 0 .. MaxTrouble
    BY TableBounds
  <2> QED
    BY <2>1, <2>2, <2>3 DEF Init, TableInit, TableTypeOK
<1>2. QuietInv
  BY DEF Init, TableInit, QuietInv, Idle, NoPage, Pages
<1>3. TurnInv
  BY <1>1 DEF Init, TableInit, TurnInv, FreshInv, Idle, NoPage
<1>4. LedgerTypeOK
  <2>1. hands \in [Rooms -> 1 .. MaxHands]
    BY LedgerBounds DEF Init, LedgerInit
  <2>2. 0 \in 0 .. MaxLedgerPages /\ 0 \in 0 .. MaxEntrances /\ 0 \in 0 .. MaxLedgerTrouble
    BY LedgerBounds
  <2>3. ledgers \in [LedgerPages -> Ledger] /\ lcalls \in [LedgerCalls -> LedgerCall \cup {Nothing}]
    BY LedgerPieces DEF Init, LedgerInit
  <2> QED
    BY <2>1, <2>2, <2>3 DEF Init, LedgerInit, LedgerTypeOK
<1>5. PlacesInv /\ FormInv
  BY DEF Init, LedgerInit, PlacesInv, FormInv, RequestSound, LedgerSound, Nothing, NoLedger,
         LedgerPages
<1> QED
  BY <1>1, <1>2, <1>3, <1>4, <1>5 DEF IInv, TableInv, LedgersInv, Init

LEMMA NextIInv == IInv /\ [Next]_miniVars => IInv'
<1> SUFFICES ASSUME IInv, [Next]_miniVars PROVE IInv'
  OBVIOUS
<1>1. CASE Practices
  <2>1. TableStep \/ OpenPage("room") \/ OpenPage("solo")
    BY <1>1 DEF Practices
  <2>2. TableInv'
    BY <2>1, TableTypes, TableQuiet, TableTurn DEF IInv, TableInv
  <2>3. LedgersInv' /\ part' \in Parts
    BY <1>1 DEF Practices, IInv, ledgerVars, LedgersInv, LedgerTypeOK, PlacesInv, FormInv,
                RequestSound, LedgerSound
  <2> QED
    BY <2>2, <2>3 DEF IInv
<1>2. CASE KeepsTheLedger \/ UNCHANGED miniVars
  <2>1. TableInv' /\ part' \in Parts
    BY <1>2 DEF KeepsTheLedger, miniVars, tableVars, IInv, TableInv, TableTypeOK, QuietInv,
                TurnInv, FreshInv, ActSound, Fresh, Current, Overtaken, Pending, Ended
  <2>2. LedgersInv'
    BY <1>2, LedgerForms DEF KeepsTheLedger, miniVars, ledgerVars, IInv, LedgersInv,
                LedgerTypeOK, PlacesInv, FormInv, RequestSound, LedgerSound
  <2> QED
    BY <2>1, <2>2 DEF IInv
<1> QED
  BY <1>1, <1>2 DEF Next

THEOREM Invariance == Spec => []IInv
BY InitIInv, NextIInv, PTL DEF Spec

\* The pages' state is well-formed.
THEOREM TypeCorrect == Spec => []TypeOK
<1>1. IInv => TypeOK
  BY DEF IInv, TableInv, LedgersInv, TypeOK
<1> QED
  BY <1>1, Invariance, PTL

\* A page that was closed polls no longer, unless it was closed before its onLoad was over.
THEOREM ClosedPagesStayQuiet == Spec => []ClosedPagesAreQuiet
<1>1. IInv => ClosedPagesAreQuiet
  BY DEF IInv, TableInv, QuietInv, ClosedPagesAreQuiet
<1> QED
  BY <1>1, Invariance, PTL

\* An action that the server accepts answers the turn its player was shown, but for the
\* excuses the property names.
THEOREM AcceptedActionsAnswerTheTurn == Spec => ActionsAnswerTheTurnShown
<1>1. ASSUME IInv, NEW c \in Calls, Serve(c), calls[c].step = "act", server' # server
      PROVE  calls[c].seen = server.move \/ excused
  <2>1. TableTypeOK /\ TurnInv /\ Pending(c) /\ "me" \in {"me", "other"}
    BY <1>1 DEF Serve, IInv, TableInv
  <2>2. server' \in Changes("act", "me")
    BY <1>1, <2>1, ServeCases
  <2>3. server.turn = "me"
    BY <2>1, <2>2, ChangeCases
  <2>4. ~Ended
    BY <2>1, <2>3 DEF TurnInv, Ended
  <2> QED
    BY <1>1, <2>1, <2>4 DEF TurnInv, FreshInv, ActSound, Current
<1>2. IInv => \A c \in Calls : Serve(c) /\ calls[c].step = "act" /\ server' # server
                                => calls[c].seen = server.move \/ excused
  BY <1>1
<1> QED
  BY <1>2, Invariance, PTL DEF ActionsAnswerTheTurnShown

\* An amount goes to the hand it was typed for, and a hand is confirmed in the room it was
\* shown for, unless a page or a room was left while it was being refreshed.
THEOREM AmountsAlwaysGoToTheirHand == Spec => AmountsGoToTheirHand
<1> DEFINE Here(i) == [room |-> ledgers[i].code, hand |-> ledgers[i].view.hand]
<1>1. ASSUME IInv, ~astray, NEW i \in LedgerPages, ledgers[i].shown, ledgers[i].view.hand > 0
      PROVE  ledgers[i].view = Here(i) /\ ledgers[i].typed \in {NoHand, Here(i)}
  <2>1. ledgers[i].open /\ ledgers[i].view \in Hands \cup {NoHand}
    BY <1>1 DEF IInv, LedgersInv, PlacesInv, LedgerTypeOK, Ledger
  <2>2. ledgers[i].view # NoHand
    BY <1>1 DEF NoHand
  <2>3. /\ ledgers[i].view.room = ledgers[i].code
        /\ ledgers[i].typed \in {NoHand, ledgers[i].view}
    BY <1>1, <2>1, <2>2 DEF IInv, LedgersInv, FormInv, LedgerSound
  <2>4. ledgers[i].view = Here(i)
    BY <2>1, <2>2, <2>3 DEF Hands
  <2> QED
    BY <2>3, <2>4
<1>2. IInv => \A i \in LedgerPages : ~astray =>
                /\ SubmitEntry(i) /\ ledgers[i].typed # NoHand => ledgers[i].typed = Here(i)
                /\ ActOnHand(i) => ledgers[i].view = Here(i)
  BY <1>1 DEF SubmitEntry, ActOnHand, Acts
<1> QED
  BY <1>2, Invariance, PTL DEF AmountsGoToTheirHand
=============================================================================
