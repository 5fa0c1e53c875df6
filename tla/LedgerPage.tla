----------------------------- MODULE LedgerPage -----------------------------
(***************************************************************************)
(* The team ledger page of the mini program (ledger-team.js).  Its timer,  *)
(* its guard against overlapping refreshes and the hand it showed last are *)
(* variables of the script, shared by all page objects; what is shown and  *)
(* typed belongs to each page object.                                      *)
(*                                                                         *)
(* Of a room the server keeps the number of its current hand; the entries  *)
(* are the matter of TeamLedger.                                           *)
(***************************************************************************)
EXTENDS Naturals, FiniteSets, FiniteSetsExt

CONSTANTS
    Rooms,             \* room codes
    MaxLedgerPages,    \* bound: page objects alive at once, as slots 1, 2, ...
    MaxLedgerCalls,    \* bound: requests under way at once, as slots 1, 2, ...
    MaxHands,          \* bound: hands of a room
    MaxEntrances,      \* bound: pages opened and rooms joined
    MaxLedgerTrouble   \* bound: requests that fail, pages and rooms left during a refresh

ASSUME LedgerBounds ==
    {MaxLedgerPages, MaxLedgerCalls, MaxHands, MaxEntrances, MaxLedgerTrouble} \subseteq Nat \ {0}

VARIABLES
    hands,            \* the current hand of each room
    ledgers,          \* the page objects
    lcalls,           \* their requests
    timer,            \* the page whose refreshRoom the interval calls, 0 for none
    refreshInFlight,
    lastHandId,       \* the hand of the last refresh
    astray,           \* history: a page or room was left before its refresh was over, or a login failed
    entrances,
    ltrouble

ledgerVars == <<hands, ledgers, lcalls, timer, refreshInFlight, lastHandId,
                astray, entrances, ltrouble>>

----------------------------------------------------------------------------
LedgerPages == 1 .. MaxLedgerPages
LedgerCalls == 1 .. MaxLedgerCalls

\* A hand as the API answers it; the room's first hand is still to come with hand 0.
Hands == [room : Rooms, hand : 0 .. MaxHands]
NoHand == [room |-> "none", hand |-> 0]
Id(h) == IF h.hand = 0 THEN NoHand ELSE h

\* roomCodeInput, currentHand, and the hand an amount was typed for
Ledger == [open : BOOLEAN, shown : BOOLEAN, inRoom : BOOLEAN, code : Rooms \cup {"none"},
           view : Hands \cup {NoHand}, typed : Hands \cup {NoHand}]
NoLedger == [open |-> FALSE, shown |-> FALSE, inRoom |-> FALSE, code |-> "none",
             view |-> NoHand, typed |-> NoHand]

\* A refresh that loadData or doJoinRoom waits for sets the timer afterwards.
Nothing == [page |-> 0, step |-> "idle", polls |-> FALSE, code |-> "none", answer |-> NoHand]
LedgerCall == [page : LedgerPages, step : {"login", "join", "entry", "act", "refresh"},
               polls : BOOLEAN, code : Rooms \cup {"none"}, answer : Hands \cup {NoHand}]

RequestsOf(i) == {c \in LedgerCalls : lcalls[c].page = i}
FreeLedgerCalls == {c \in LedgerCalls : lcalls[c] = Nothing}
FreeLedgers == {i \in LedgerPages : ~ledgers[i].open /\ timer # i /\ RequestsOf(i) = {}}
OpenLedgers == {i \in LedgerPages : ledgers[i].open}
Request(i, step) == [Nothing EXCEPT !.page = i, !.step = step]

Sends(q) ==
    /\ FreeLedgerCalls # {}
    /\ lcalls' = [lcalls EXCEPT ![Min(FreeLedgerCalls)] = q]

LedgerFails == ltrouble < MaxLedgerTrouble /\ ltrouble' = ltrouble + 1
Enters == entrances < MaxEntrances /\ entrances' = entrances + 1

\* Leaving while one of the requests waited for is under way.
Leaves(i, steps) ==
    LET early == \E c \in RequestsOf(i) : lcalls[c].step \in steps IN
    /\ astray' = (astray \/ early)
    /\ IF early THEN LedgerFails ELSE UNCHANGED ltrouble

----------------------------------------------------------------------------
(* refreshRoom *)

\* It returns at once while another refresh is under way, whichever page asked for it.
RefreshRoom(c, i, data, polls) ==
    IF refreshInFlight \/ ~data.inRoom
    THEN /\ lcalls' = [lcalls EXCEPT ![c] = Nothing]
         /\ timer' = IF polls THEN i ELSE timer
         /\ UNCHANGED refreshInFlight
    ELSE /\ lcalls' = [lcalls EXCEPT ![c] =
                         [Request(i, "refresh") EXCEPT !.code = data.code, !.polls = polls]]
         /\ refreshInFlight' = TRUE
         /\ UNCHANGED timer

PollLedger(i) ==
    /\ timer = i /\ ~refreshInFlight /\ ledgers[i].inRoom
    /\ Sends([Request(i, "refresh") EXCEPT !.code = ledgers[i].code])
    /\ refreshInFlight' = TRUE
    /\ UNCHANGED <<hands, ledgers, timer, lastHandId, astray, entrances, ltrouble>>

\* The room as it is, with its last hand.
AnswerRefresh(c) ==
    LET q == lcalls[c] IN
    /\ q.step = "refresh" /\ q.answer = NoHand
    /\ lcalls' = [lcalls EXCEPT ![c].answer = [room |-> q.code, hand |-> hands[q.code]]]
    /\ UNCHANGED <<hands, ledgers, timer, refreshInFlight, lastHandId, astray, entrances, ltrouble>>

\* Whatever happens, the guard is open again and the page that waited polls from now on.
RefreshEnds(c) ==
    LET q == lcalls[c] IN
    /\ lcalls' = [lcalls EXCEPT ![c] = Nothing]
    /\ refreshInFlight' = FALSE
    /\ timer' = IF q.polls THEN q.page ELSE timer

\* Faulty: what is typed stays when the next hand is shown.
ShowTyped(c) ==
    LET q == lcalls[c] IN
    /\ q.step = "refresh" /\ q.answer # NoHand
    /\ ledgers' = [ledgers EXCEPT ![q.page].view = q.answer]
    /\ lastHandId' = Id(q.answer)
    /\ RefreshEnds(c)
    /\ UNCHANGED <<hands, astray, entrances, ltrouble>>

\* A hand other than the last one shown empties the form.
ShowRoom(c) ==
    LET q == lcalls[c]
        handChanged == Id(q.answer) # lastHandId IN
    /\ q.step = "refresh" /\ q.answer # NoHand
    /\ ledgers' = [ledgers EXCEPT ![q.page].view = q.answer,
                                  ![q.page].typed = IF handChanged THEN NoHand ELSE @]
    /\ lastHandId' = Id(q.answer)
    /\ RefreshEnds(c)
    /\ UNCHANGED <<hands, astray, entrances, ltrouble>>

RefreshFails(c) ==
    /\ lcalls[c].step = "refresh" /\ LedgerFails
    /\ RefreshEnds(c)
    /\ UNCHANGED <<hands, ledgers, lastHandId, astray, entrances>>

----------------------------------------------------------------------------
(* The life of a page *)

LedgerInit ==
    /\ hands = [r \in Rooms |-> 1]
    /\ ledgers = [i \in LedgerPages |-> NoLedger]
    /\ lcalls = [c \in LedgerCalls |-> Nothing]
    /\ timer = 0 /\ refreshInFlight = FALSE /\ lastHandId = NoHand
    /\ astray = FALSE /\ entrances = 0 /\ ltrouble = 0

\* onLoad and onShow, from the home page or, with a room code, from a shared link.
OpenLedger(code) == \E i \in FreeLedgers :
    /\ i = Min(FreeLedgers) /\ OpenLedgers = {} /\ Enters
    /\ ledgers' = [ledgers EXCEPT ![i] =
           [NoLedger EXCEPT !.open = TRUE, !.shown = TRUE, !.code = code, !.inRoom = code # "none"]]
    /\ timer' = 0
    /\ Sends(Request(i, "login"))
    /\ UNCHANGED <<hands, refreshInFlight, lastHandId, astray, ltrouble>>

OnShow(i) ==
    /\ ledgers[i].open /\ ~ledgers[i].shown
    /\ ledgers' = [ledgers EXCEPT ![i].shown = TRUE]
    /\ timer' = 0
    /\ Sends(Request(i, "login"))
    /\ UNCHANGED <<hands, refreshInFlight, lastHandId, astray, entrances, ltrouble>>

OnHide(i) ==
    /\ ledgers[i].open /\ ledgers[i].shown
    /\ ledgers' = [ledgers EXCEPT ![i].shown = FALSE]
    /\ timer' = 0
    /\ UNCHANGED <<hands, lcalls, refreshInFlight, lastHandId, astray, entrances, ltrouble>>

\* The guard is opened although the closed page's refresh may be under way.
CloseLedger(i) ==
    /\ ledgers[i].open
    /\ ledgers' = [ledgers EXCEPT ![i] = IF RequestsOf(i) = {} THEN NoLedger
                                         ELSE [@ EXCEPT !.open = FALSE, !.shown = FALSE]]
    /\ timer' = 0 /\ refreshInFlight' = FALSE /\ lastHandId' = NoHand
    /\ Leaves(i, {"login", "join", "entry", "act", "refresh"})
    /\ UNCHANGED <<hands, lcalls, entrances>>

\* loadData, once ensureDevLogin is done
LoadData(c) ==
    LET i == lcalls[c].page IN
    /\ lcalls[c].step = "login"
    /\ RefreshRoom(c, i, ledgers[i], ledgers[i].inRoom)
    /\ UNCHANGED <<hands, ledgers, lastHandId, astray, entrances, ltrouble>>

\* A login, or what the user asked for, fails, and the handler with it.
RequestFails(c) ==
    /\ lcalls[c].step \in {"login", "join", "entry", "act"} /\ LedgerFails
    /\ lcalls' = [lcalls EXCEPT ![c] = Nothing]
    /\ astray' = (astray \/ lcalls[c].step = "login")
    /\ UNCHANGED <<hands, ledgers, timer, refreshInFlight, lastHandId, entrances>>

----------------------------------------------------------------------------
(* What the user does *)

JoinRoom(i, code) ==
    /\ ledgers[i].shown /\ ~ledgers[i].inRoom /\ RequestsOf(i) = {} /\ Enters
    /\ ledgers' = [ledgers EXCEPT ![i].code = code]
    /\ Sends(Request(i, "join"))
    /\ UNCHANGED <<hands, timer, refreshInFlight, lastHandId, astray, ltrouble>>

DoJoinRoom(c) ==
    LET i == lcalls[c].page
        joined == [ledgers[i] EXCEPT !.inRoom = TRUE] IN
    /\ lcalls[c].step = "join"
    /\ ledgers' = [ledgers EXCEPT ![i] = joined]
    /\ RefreshRoom(c, i, joined, TRUE)
    /\ UNCHANGED <<hands, lastHandId, astray, entrances, ltrouble>>

\* What was typed stays in the form.
LeaveRoom(i) ==
    /\ ledgers[i].shown /\ ledgers[i].inRoom
    /\ ledgers' = [ledgers EXCEPT ![i].inRoom = FALSE, ![i].view = NoHand]
    /\ timer' = 0 /\ lastHandId' = NoHand
    /\ Leaves(i, {"login", "refresh", "entry", "act"})
    /\ UNCHANGED <<hands, lcalls, refreshInFlight, entrances>>

TypeAmount(i) ==
    /\ ledgers[i].shown /\ ledgers[i].inRoom /\ ledgers[i].view.hand > 0
    /\ ledgers' = [ledgers EXCEPT ![i].typed = ledgers[i].view]
    /\ UNCHANGED <<hands, lcalls, timer, refreshInFlight, lastHandId, astray, entrances, ltrouble>>

\* The room is the one the code names, the hand the one that is shown.
SubmitEntry(i) ==
    /\ ledgers[i].shown /\ ledgers[i].inRoom /\ ledgers[i].view.hand > 0
    /\ Sends(Request(i, "entry"))
    /\ UNCHANGED <<hands, ledgers, timer, refreshInFlight, lastHandId, astray, entrances, ltrouble>>

EntrySubmitted(c) ==
    LET i == lcalls[c].page
        cleared == [ledgers[i] EXCEPT !.typed = NoHand] IN
    /\ lcalls[c].step = "entry"
    /\ ledgers' = [ledgers EXCEPT ![i] = cleared]
    /\ RefreshRoom(c, i, cleared, FALSE)
    /\ UNCHANGED <<hands, lastHandId, astray, entrances, ltrouble>>

\* What else is asked of the API and leaves the form as it is: of the room its code names (a
\* temporary player, the start, a buy-in, the end), or of the hand that is shown (to be
\* confirmed, its confirmation, a dispute).
Acts(i) ==
    /\ ledgers[i].shown /\ ledgers[i].inRoom
    /\ Sends(Request(i, "act"))
    /\ UNCHANGED <<hands, ledgers, timer, refreshInFlight, lastHandId, astray, entrances, ltrouble>>
ActOnRoom(i) == Acts(i)
ActOnHand(i) == ledgers[i].view.hand > 0 /\ Acts(i)

Acted(c) ==
    LET i == lcalls[c].page IN
    /\ lcalls[c].step = "act"
    /\ RefreshRoom(c, i, ledgers[i], FALSE)
    /\ UNCHANGED <<hands, ledgers, lastHandId, astray, entrances, ltrouble>>

\* The owner, here or on another phone, starts the next hand.
CreateNextHand(r) ==
    /\ hands[r] < MaxHands
    /\ hands' = [hands EXCEPT ![r] = @ + 1]
    /\ UNCHANGED <<ledgers, lcalls, timer, refreshInFlight, lastHandId, astray, entrances, ltrouble>>

----------------------------------------------------------------------------
LedgerNext ==
    \/ \E code \in Rooms \cup {"none"} : OpenLedger(code)
    \/ \E r \in Rooms : CreateNextHand(r)
    \/ \E i \in LedgerPages :
         \/ OnShow(i) \/ OnHide(i) \/ CloseLedger(i) \/ PollLedger(i)
         \/ LeaveRoom(i) \/ TypeAmount(i) \/ SubmitEntry(i)
         \/ ActOnRoom(i) \/ ActOnHand(i)
         \/ \E code \in Rooms : JoinRoom(i, code)
    \/ \E c \in LedgerCalls :
         \/ LoadData(c) \/ DoJoinRoom(c) \/ EntrySubmitted(c) \/ Acted(c)
         \/ AnswerRefresh(c) \/ ShowRoom(c) \/ RefreshFails(c) \/ RequestFails(c)

\* The interval goes on ticking and requests are answered.
LedgerFairness ==
    /\ SF_ledgerVars(\E i \in LedgerPages : PollLedger(i))
    /\ \A c \in LedgerCalls :
         WF_ledgerVars(\/ LoadData(c) \/ DoJoinRoom(c) \/ EntrySubmitted(c) \/ Acted(c)
                       \/ AnswerRefresh(c) \/ ShowRoom(c))

----------------------------------------------------------------------------
(* Properties *)

LedgerTypeOK ==
    /\ hands \in [Rooms -> 1 .. MaxHands]
    /\ ledgers \in [LedgerPages -> Ledger]
    /\ lcalls \in [LedgerCalls -> LedgerCall \cup {Nothing}]
    /\ timer \in 0 .. MaxLedgerPages
    /\ {refreshInFlight, astray} \subseteq BOOLEAN
    /\ lastHandId \in Hands \cup {NoHand}
    /\ entrances \in 0 .. MaxEntrances /\ ltrouble \in 0 .. MaxLedgerTrouble

\* An amount is submitted for the hand it was typed for, in the room it was typed in, and a hand
\* is confirmed or disputed in the room it was shown for, unless a page or room was left while it
\* was being refreshed: the late answer shows one room's hand under the other's code, or makes
\* the next hand look like the last.
AmountsGoToTheirHand ==
    [][\A i \in LedgerPages : ~astray =>
         LET here == [room |-> ledgers[i].code, hand |-> ledgers[i].view.hand] IN
         /\ SubmitEntry(i) /\ ledgers[i].typed # NoHand => ledgers[i].typed = here
         /\ ActOnHand(i) => ledgers[i].view = here]_ledgerVars

\* A page left open in a room is to end up showing the room's current hand.
LedgerIsWatched == ~astray /\ \E i \in LedgerPages : ledgers[i].shown /\ ledgers[i].inRoom
LedgerIsCurrent == \A i \in OpenLedgers :
    ledgers[i].inRoom => ledgers[i].view = [room |-> ledgers[i].code, hand |-> hands[ledgers[i].code]]
=============================================================================
