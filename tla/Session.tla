------------------------------- MODULE Session -------------------------------
(***************************************************************************)
(* The session of the mini program (app.js, utils/request.js): the token   *)
(* in the storage, the requests that carry it, and the logins that renew   *)
(* it: the program's own, which all wait for together, and those of pages  *)
(* (ensureDevLogin), which they make for themselves.                       *)
(*                                                                         *)
(* Of a token the model keeps what JwtUserGuard makes of it.  The build    *)
(* talks to the public API, so it never tries the development login.       *)
(***************************************************************************)
EXTENDS Naturals

CONSTANTS
    Askers,            \* slots of the requests under way at once
    MaxTrouble  \* bound: tokens spoilt, requests and logins that fail, restarts

ASSUME TroubleAssumption == MaxTrouble \in Nat \ {0}

VARIABLES
    token,          \* in the storage
    asking,         \* the requests: what is awaited for them and the token they carry
    loginPromise,   \* the login of the program: what it waits for or was answered
    pageLogin,      \* the login of a page (bound: one at a time)
    trouble

sessionVars == <<token, asking, loginPromise, pageLogin, trouble>>

----------------------------------------------------------------------------
\* "expired" after seven days, "invalid" once the API was given another secret.
Tokens == {"none", "good", "expired", "invalid"}

\* JwtUserGuard
Guard(t) == CASE t = "good" -> "let in" [] t = "expired" -> "AUTH_TOKEN_EXPIRED"
              [] OTHER -> "AUTH_UNAUTHORIZED"
Verdicts == {"let in", "AUTH_TOKEN_EXPIRED", "AUTH_UNAUTHORIZED"}

NotAsking == [for |-> "nothing", sent |-> "none", retried |-> FALSE, answer |-> "none"]
Asked(for, t, retried) == [for |-> for, sent |-> t, retried |-> retried, answer |-> "none"]
FreeAskers == {a \in Askers : asking[a] = NotAsking}
CheckingProfile == \E a \in Askers : asking[a].for = "profile"

Fails == trouble < MaxTrouble /\ trouble' = trouble + 1

SessionInit ==
    /\ token \in Tokens
    /\ asking = [a \in Askers |-> NotAsking]
    /\ loginPromise = "null" /\ pageLogin = "null"
    /\ trouble = 0

\* A request carries the token that is stored when it is made.
Sends(for) == \E a \in FreeAskers : asking' = [asking EXCEPT ![a] = Asked(for, token, FALSE)]

\* Whoever finds a login under way waits for that one.
DoLogin == loginPromise' = IF loginPromise = "null" THEN "asked" ELSE loginPromise

\* The program is opened, again or after it was ended.
OnShow ==
    /\ IF token = "none" THEN DoLogin /\ UNCHANGED asking
       ELSE ~CheckingProfile /\ Sends("profile") /\ UNCHANGED loginPromise
    /\ UNCHANGED <<token, pageLogin, trouble>>

\* What was under way is lost with the process; then onLaunch and onShow.
Relaunch == \E first \in Askers :
    /\ Fails
    /\ asking' = [a \in Askers |-> IF a = first /\ token # "none"
                                   THEN Asked("profile", token, FALSE) ELSE NotAsking]
    /\ pageLogin' = "null"
    /\ loginPromise' = IF token = "none" THEN "asked" ELSE "null"
    /\ UNCHANGED token

\* A page is opened and asks for a session before it loads, or loads again.
EnsureDevLogin ==
    /\ IF token = "none" THEN pageLogin = "null" /\ pageLogin' = "asked" /\ UNCHANGED asking
       ELSE Sends("page") /\ UNCHANGED pageLogin
    /\ UNCHANGED <<token, loginPromise, trouble>>
PageAsks ==
    /\ Sends("page")
    /\ UNCHANGED <<token, loginPromise, pageLogin, trouble>>

\* wx.uploadFile: a request past request().
UploadAvatar ==
    /\ Sends("avatar")
    /\ UNCHANGED <<token, loginPromise, pageLogin, trouble>>

----------------------------------------------------------------------------
(* The API *)

Answers(a) ==
    /\ asking[a].for # "nothing" /\ asking[a].answer = "none"
    /\ asking' = [asking EXCEPT ![a].answer = Guard(asking[a].sent)]
    /\ UNCHANGED <<token, loginPromise, pageLogin, trouble>>

WxLogin(login) == login = "asked" /\ \/ login' = "good" /\ UNCHANGED trouble
                                     \/ login' = "failed" /\ Fails
LogsIn ==
    /\ \/ WxLogin(loginPromise) /\ UNCHANGED pageLogin
       \/ WxLogin(pageLogin) /\ UNCHANGED loginPromise
    /\ UNCHANGED <<token, asking>>

\* Tokens get too old, or are signed with a secret that is not used any more.  They live
\* longer than a login takes.
Spoil(how) ==
    /\ Fails
    /\ loginPromise = "null" /\ pageLogin = "null"
    /\ LET spoilt(t) == IF t = "good" THEN how ELSE t IN
       /\ token' = spoilt(token)
       /\ asking' = [a \in Askers |-> [asking[a] EXCEPT !.sent = spoilt(@)]]
    /\ UNCHANGED <<loginPromise, pageLogin>>

----------------------------------------------------------------------------
(* What the answers do *)

\* Only AUTH_UNAUTHORIZED clears the token, and the first time waits for a login.
Answered401(a) ==
    /\ asking[a].answer = "AUTH_UNAUTHORIZED" /\ asking[a].for # "avatar"
    /\ token' = "none"
    /\ IF asking[a].retried THEN asking' = [asking EXCEPT ![a] = NotAsking] /\ UNCHANGED loginPromise
       ELSE asking' = [asking EXCEPT ![a].answer = "login"] /\ DoLogin
    /\ UNCHANGED <<pageLogin, trouble>>

AnsweredOtherwise(a) ==
    /\ asking[a].answer \in {"let in", "AUTH_TOKEN_EXPIRED"} /\ asking[a].for # "avatar"
    /\ asking' = [asking EXCEPT ![a] = NotAsking]
    /\ UNCHANGED <<token, loginPromise, pageLogin, trouble>>

\* Whatever the verdict, the token stays and no login is asked for.
UploadAnswered(a) ==
    /\ asking[a].answer \in Verdicts /\ asking[a].for = "avatar"
    /\ asking' = [asking EXCEPT ![a] = NotAsking]
    /\ UNCHANGED <<token, loginPromise, pageLogin, trouble>>

RequestDrops(a) ==
    /\ asking[a].for # "nothing" /\ asking[a].answer # "login" /\ Fails
    /\ asking' = [asking EXCEPT ![a] = NotAsking]
    /\ UNCHANGED <<token, loginPromise, pageLogin>>

\* Faulty: the promise is forgotten only if the login succeeded.
LoggedInOnly ==
    /\ loginPromise = "good"
    /\ token' = "good"
    /\ asking' = [a \in Askers |-> IF asking[a].answer # "login" THEN asking[a]
                                   ELSE Asked(asking[a].for, "good", TRUE)]
    /\ loginPromise' = "null"
    /\ UNCHANGED <<pageLogin, trouble>>

\* Faulty: a request is repeated with the header it had.
LoggedInHeaderKept ==
    /\ loginPromise \in {"good", "failed"}
    /\ token' = IF loginPromise = "good" THEN "good" ELSE token
    /\ asking' = [a \in Askers |->
           IF asking[a].answer # "login" THEN asking[a]
           ELSE IF token' # "none" THEN Asked(asking[a].for, asking[a].sent, TRUE)
           ELSE NotAsking]
    /\ loginPromise' = "null"
    /\ UNCHANGED <<pageLogin, trouble>>

\* The login of the program is over: who waited for it asks again, once, with whatever token
\* is stored then, or gives up.
LoggedIn ==
    /\ loginPromise \in {"good", "failed"}
    /\ token' = IF loginPromise = "good" THEN "good" ELSE token
    /\ asking' = [a \in Askers |->
           IF asking[a].answer # "login" THEN asking[a]
           ELSE IF token' # "none" THEN Asked(asking[a].for, token', TRUE)
           ELSE NotAsking]
    /\ loginPromise' = "null"
    /\ UNCHANGED <<pageLogin, trouble>>

PageLoggedIn ==
    /\ pageLogin \in {"good", "failed"}
    /\ IF pageLogin = "failed" THEN UNCHANGED <<token, asking>>
       ELSE /\ token' = "good"
            /\ \/ FreeAskers = {} /\ UNCHANGED asking
               \/ \E a \in FreeAskers : asking' = [asking EXCEPT ![a] = Asked("page", "good", FALSE)]
    /\ pageLogin' = "null"
    /\ UNCHANGED <<loginPromise, trouble>>

----------------------------------------------------------------------------
SessionNext ==
    \/ OnShow \/ Relaunch \/ EnsureDevLogin \/ PageAsks \/ UploadAvatar
    \/ LogsIn \/ LoggedIn \/ PageLoggedIn
    \/ \E how \in {"expired", "invalid"} : Spoil(how)
    \/ \E a \in Askers : \/ Answers(a) \/ Answered401(a) \/ AnsweredOtherwise(a)
                          \/ UploadAnswered(a) \/ RequestDrops(a)

\* Requests and logins are answered; that the player comes back again and again is SF of OnShow.
SessionFairness ==
    /\ WF_sessionVars(LogsIn) /\ WF_sessionVars(LoggedIn) /\ WF_sessionVars(PageLoggedIn)
    /\ \A a \in Askers :
           WF_sessionVars(\/ Answers(a) \/ Answered401(a) \/ AnsweredOtherwise(a)
                          \/ UploadAnswered(a))

----------------------------------------------------------------------------
(* Properties *)

SessionTypeOK ==
    /\ token \in Tokens
    /\ asking \in [Askers -> [ for : {"nothing", "profile", "page", "avatar"}, sent : Tokens,
                               retried : BOOLEAN, answer : Verdicts \cup {"none", "login"} ]]
    /\ {loginPromise, pageLogin} \subseteq {"null", "asked", "good", "failed"}
    /\ trouble \in 0 .. MaxTrouble

\* A request is repeated with a token the API has just signed, whatever other requests were
\* refused, and other logins made, in the meantime: the repetition is its only one.
RetriesCarryAGoodToken ==
    [][\A a \in Askers : asking'[a].retried /\ ~asking[a].retried
                          => asking'[a].sent = "good"]_sessionVars

\* A player without a session, or with one the API does not know any more, gets a new one,
\* also if a login has failed before.
SessionsRecover == Guard(token) = "AUTH_UNAUTHORIZED" ~> Guard(token) # "AUTH_UNAUTHORIZED"
=============================================================================
