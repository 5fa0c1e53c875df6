------------------------------ MODULE Profiles ------------------------------
(***************************************************************************)
(* What a player calls himself and looks like: his row in users            *)
(* (users.service.ts), the copies of it in the participants of the team    *)
(* ledger, and the copy in the storage of the mini program, which its      *)
(* profile page (profile-setup.js) starts from and sends back.             *)
(*                                                                         *)
(* A request is what it still waits for and what it carries: first what    *)
(* the page sends, then what the API answers.  One player with one phone,  *)
(* and requests the guards let in (Session has the others).                *)
(***************************************************************************)
EXTENDS Naturals

CONSTANTS
    Nicknames,    \* what the player may type
    WechatUser,   \* the nickname of who has not chosen one
    Avatars,      \* what he may upload or take from the presets
    NoAvatar,
    LedgerRooms,  \* rooms of the team ledger
    Calls,        \* requests in progress at once, as slots
    MaxCalls      \* bound: requests made

ASSUME NicknamesAssumption == WechatUser \notin Nicknames /\ "" \notin Nicknames \cup {WechatUser}
ASSUME AvatarsAssumption == NoAvatar \notin Avatars
ASSUME CallsAssumption == MaxCalls \in Nat

VARIABLES
    profile,    \* the row of the player in users
    copies,     \* his rows among the participants of the team ledger
    stored,     \* "user" in the storage of the phone
    form,       \* the profile page
    call,       \* the requests in progress
    made,       \* requests made so far
    doubt,      \* history: what the phone stored last may be old
    overtaken   \* history: the latest rename was written while a join held the old name

profilesVars == <<profile, copies, stored, form, call, made, doubt, overtaken>>

----------------------------------------------------------------------------
Names == Nicknames \cup {WechatUser}
Pictures == Avatars \cup {NoAvatar}
Profile == [nickname : Names, avatarUrl : Pictures]
Copy == [room : LedgerRooms, displayName : Names, avatarUrl : Pictures]

NoUser == [nickname |-> "", avatarUrl |-> NoAvatar]
Closed == [open |-> FALSE]
NotCalling == [op |-> "none"]

\* Requests of the phone: login and refresh bring the row, save and upload change it first.
PhoneOps == {"login", "refresh", "save", "upload"}
OfThePhone(c) == call[c].op \in PhoneOps
Joining(c) == call[c].op = "join"

\* A user who has never been here, and a phone that has never been used.
ProfilesInit ==
    /\ profile = [nickname |-> WechatUser, avatarUrl |-> NoAvatar]
    /\ copies = {}
    /\ stored = NoUser
    /\ form = Closed
    /\ call = [c \in Calls |-> NotCalling]
    /\ made = 0
    /\ doubt = FALSE /\ overtaken = FALSE

\* A request of the phone.  It is alone unless another one is in progress until it ends.
Calling(c, op, nickname, avatarUrl) ==
    /\ call[c] = NotCalling
    /\ made < MaxCalls /\ made' = made + 1
    /\ call' = [d \in Calls |->
           CASE d = c -> [op |-> op, at |-> "sent", nickname |-> nickname, avatarUrl |-> avatarUrl,
                          alone |-> \A e \in Calls : ~OfThePhone(e), waited |-> TRUE, page |-> TRUE]
             [] d # c /\ OfThePhone(d) -> [call[d] EXCEPT !.alone = FALSE]
             [] OTHER -> call[d]]

----------------------------------------------------------------------------
(* The phone *)

\* doLogin and refreshProfile: each of them one at a time.
AsksForMe(c, op) ==
    /\ \A d \in Calls : call[d].op = op => ~call[d].waited
    /\ Calling(c, op, "", NoAvatar)
    /\ UNCHANGED <<profile, copies, stored, form, doubt, overtaken>>
DoLogin(c) == AsksForMe(c, "login")
RefreshProfile(c) == stored # NoUser /\ AsksForMe(c, "refresh")

\* onLoad: the name that stands for none is not shown.
OpenForm ==
    /\ form = Closed
    /\ form' = [nickname |-> IF stored.nickname = WechatUser THEN "" ELSE stored.nickname,
                avatarUrl |-> stored.avatarUrl, saving |-> FALSE]
    /\ UNCHANGED <<profile, copies, stored, call, made, doubt, overtaken>>

\* Skipped, or left half a second after a save: what is in progress answers a page that is gone.
CloseForm ==
    /\ form # Closed
    /\ form' = Closed
    /\ call' = [c \in Calls |-> IF OfThePhone(c) THEN [call[c] EXCEPT !.page = FALSE] ELSE call[c]]
    /\ UNCHANGED <<profile, copies, stored, made, doubt, overtaken>>

OnNicknameInput(nickname) ==
    /\ form # Closed
    /\ form' = [form EXCEPT !.nickname = nickname]
    /\ UNCHANGED <<profile, copies, stored, call, made, doubt, overtaken>>

SelectPreset(avatarUrl) ==
    /\ form # Closed
    /\ form' = [form EXCEPT !.avatarUrl = avatarUrl]
    /\ UNCHANGED <<profile, copies, stored, call, made, doubt, overtaken>>

\* The picture is uploaded at once, the rest of the page is saved by saveNickname.
UploadSelectedAvatar(c, avatarUrl) ==
    /\ form # Closed
    /\ Calling(c, "upload", "", avatarUrl)
    /\ UNCHANGED <<profile, copies, stored, form, doubt, overtaken>>

SaveNickname(c) ==
    /\ form # Closed
    /\ form.nickname # "" /\ ~form.saving
    /\ form' = [form EXCEPT !.saving = TRUE]
    /\ Calling(c, "save", form.nickname, form.avatarUrl)
    /\ UNCHANGED <<profile, copies, stored, doubt, overtaken>>

----------------------------------------------------------------------------
(* The API *)

\* The answer is the row, as it is after this step; nobody takes it if the phone gave up.
AnswersWith(c, user) ==
    call' = [call EXCEPT ![c] =
        IF call[c].waited THEN [@ EXCEPT !.at = "answered", !.nickname = user.nickname,
                                         !.avatarUrl = user.avatarUrl]
        ELSE NotCalling]

\* wxLogin finds the user by his openid and sends no profile of its own.
GetMe(c) ==
    /\ call[c].op \in {"login", "refresh"} /\ call[c].at = "sent"
    /\ AnswersWith(c, profile)
    /\ UNCHANGED <<profile, copies, stored, form, made, doubt, overtaken>>

\* Faulty: the copies are left as they were.
UpdateMeAlone(c) ==
    /\ call[c].op = "save" /\ call[c].at = "sent"
    /\ profile' = [nickname |-> call[c].nickname,
                   avatarUrl |-> IF call[c].avatarUrl = NoAvatar THEN profile.avatarUrl
                                 ELSE call[c].avatarUrl]
    /\ overtaken' = \E d \in Calls : Joining(d)
    /\ AnswersWith(c, profile')
    /\ UNCHANGED <<copies, stored, form, made, doubt>>

\* updateMe: the row and the names of the copies in one transaction.  A picture is taken over
\* if there is one, and the copies keep theirs.
UpdateMe(c) ==
    /\ call[c].op = "save" /\ call[c].at = "sent"
    /\ profile' = [nickname |-> call[c].nickname,
                   avatarUrl |-> IF call[c].avatarUrl = NoAvatar THEN profile.avatarUrl
                                 ELSE call[c].avatarUrl]
    /\ copies' = { [row EXCEPT !.displayName = call[c].nickname] : row \in copies }
    /\ overtaken' = \E d \in Calls : Joining(d)
    /\ AnswersWith(c, profile')
    /\ UNCHANGED <<stored, form, made, doubt>>

\* updateAvatar: two statements; the answer is the row of the first.
UpdateAvatar(c) ==
    /\ call[c].op = "upload" /\ call[c].at = "sent"
    /\ profile' = [profile EXCEPT !.avatarUrl = call[c].avatarUrl]
    /\ call' = [call EXCEPT ![c].at = "rows", ![c].nickname = profile.nickname]
    /\ UNCHANGED <<copies, stored, form, made, doubt, overtaken>>
UpdateAvatarRows(c) ==
    /\ call[c].op = "upload" /\ call[c].at = "rows"
    /\ copies' = { [row EXCEPT !.avatarUrl = call[c].avatarUrl] : row \in copies }
    /\ AnswersWith(c, call[c])
    /\ UNCHANGED <<profile, stored, form, made, doubt, overtaken>>

\* createRoom and joinRoom of the team ledger read the nickname before they insert the row.
JoinLedger(c, room) ==
    /\ \A row \in copies : row.room # room
    /\ call[c] = NotCalling
    /\ made < MaxCalls /\ made' = made + 1
    /\ call' = [call EXCEPT ![c] = [op |-> "join", room |-> room, nickname |-> profile.nickname]]
    /\ UNCHANGED <<profile, copies, stored, form, doubt, overtaken>>
InsertParticipant(c) ==
    /\ Joining(c)
    /\ copies' = copies \cup {[room |-> call[c].room, displayName |-> call[c].nickname,
                               avatarUrl |-> NoAvatar]}
    /\ call' = [call EXCEPT ![c] = NotCalling]
    /\ UNCHANGED <<profile, stored, form, made, doubt, overtaken>>

\* A statement fails: what was written stays and the phone hears of an error, as if it gave up.
RequestFails(c) ==
    /\ Joining(c) \/ (OfThePhone(c) /\ call[c].at # "answered")
    /\ call' = [call EXCEPT ![c] = NotCalling]
    /\ doubt' = (doubt \/ OfThePhone(c))
    /\ form' = IF call[c].op = "save" /\ call[c].page THEN [form EXCEPT !.saving = FALSE] ELSE form
    /\ UNCHANGED <<profile, copies, stored, made, overtaken>>

\* No answer in time: the API goes on with what it was asked.
PhoneGivesUp(c) ==
    /\ OfThePhone(c) /\ call[c].waited
    /\ call' = [call EXCEPT ![c] = IF @.at = "answered" THEN NotCalling
                                   ELSE [@ EXCEPT !.waited = FALSE, !.page = FALSE]]
    /\ doubt' = TRUE
    /\ form' = IF call[c].op = "save" /\ call[c].page THEN [form EXCEPT !.saving = FALSE] ELSE form
    /\ UNCHANGED <<profile, copies, stored, made, overtaken>>

----------------------------------------------------------------------------
(* The answers *)

Stores(c) ==
    /\ call[c].at = "answered"
    /\ stored' = [nickname |-> call[c].nickname, avatarUrl |-> call[c].avatarUrl]
    /\ doubt' = ~call[c].alone
    /\ call' = [call EXCEPT ![c] = NotCalling]
    /\ UNCHANGED <<profile, copies, made, overtaken>>

Refreshed(c) == call[c].op \in {"login", "refresh"} /\ Stores(c) /\ UNCHANGED form
Uploaded(c) ==
    /\ call[c].op = "upload" /\ Stores(c)
    /\ form' = IF call[c].page THEN [form EXCEPT !.avatarUrl = call[c].avatarUrl] ELSE form
Saved(c) ==
    /\ call[c].op = "save" /\ Stores(c)
    /\ form' = IF call[c].page THEN [form EXCEPT !.saving = FALSE] ELSE form

----------------------------------------------------------------------------
ProfilesNext ==
    \/ OpenForm \/ CloseForm
    \/ \E nickname \in Nicknames : OnNicknameInput(nickname)
    \/ \E avatarUrl \in Avatars : SelectPreset(avatarUrl)
    \/ \E c \in Calls :
         \/ DoLogin(c) \/ RefreshProfile(c) \/ SaveNickname(c)
         \/ \E avatarUrl \in Avatars : UploadSelectedAvatar(c, avatarUrl)
         \/ GetMe(c) \/ UpdateMe(c) \/ UpdateAvatar(c) \/ UpdateAvatarRows(c)
         \/ \E room \in LedgerRooms : JoinLedger(c, room)
         \/ InsertParticipant(c) \/ RequestFails(c) \/ PhoneGivesUp(c)
         \/ Refreshed(c) \/ Uploaded(c) \/ Saved(c)

----------------------------------------------------------------------------
(* Properties *)

PhoneCall ==
    [op : {"login", "refresh"}, at : {"sent"}, nickname : {""}, avatarUrl : {NoAvatar},
     alone : BOOLEAN, waited : BOOLEAN, page : BOOLEAN]
    \cup [op : {"upload"}, at : {"sent"}, nickname : {""}, avatarUrl : Avatars,
          alone : BOOLEAN, waited : BOOLEAN, page : BOOLEAN]
    \cup [op : {"save"}, at : {"sent"}, nickname : Names, avatarUrl : Pictures,
          alone : BOOLEAN, waited : BOOLEAN, page : BOOLEAN]
    \cup [op : {"upload"}, at : {"rows"}, nickname : Names, avatarUrl : Avatars,
          alone : BOOLEAN, waited : BOOLEAN, page : BOOLEAN]
    \cup [op : PhoneOps, at : {"answered"}, nickname : Names, avatarUrl : Pictures,
          alone : BOOLEAN, waited : {TRUE}, page : BOOLEAN]
JoinCall == [op : {"join"}, room : LedgerRooms, nickname : Names]

\* Every variable has its type.
ProfilesTypeOK ==
    /\ profile \in Profile
    /\ copies \subseteq Copy
    /\ stored \in Profile \cup {NoUser}
    /\ form \in [nickname : Names \cup {""}, avatarUrl : Pictures, saving : BOOLEAN] \cup {Closed}
    /\ call \in [Calls -> PhoneCall \cup JoinCall \cup {NotCalling}]
    /\ made \in 0 .. MaxCalls
    /\ doubt \in BOOLEAN /\ overtaken \in BOOLEAN

\* However requests of a player fail, get lost or overlap, his rows in the ledgers carry his
\* name, unless he renamed himself while he was joining one; and what his phone has stored is
\* his row again as soon as a request of it ran alone and was answered.
ProfileIsTheSameEverywhere ==
    /\ ~overtaken => \A row \in copies : row.displayName = profile.nickname
    /\ (~doubt /\ \A c \in Calls : ~OfThePhone(c)) => stored \in {profile, NoUser}
=============================================================================
