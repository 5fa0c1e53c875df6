--------------------------- MODULE ProfilesProofs ---------------------------
(***************************************************************************)
(* A player's names and his phone agree with his row, for any names,       *)
(* pictures, rooms and number of requests in progress.  The invariant says *)
(* of each request of the phone what being alone is worth: nobody else     *)
(* writes the row, so what the request carries is the row until it ends.   *)
(***************************************************************************)
EXTENDS Profiles, TLAPS

----------------------------------------------------------------------------
(* Requests of the phone *)

\* What a change of one field leaves of a request, and what it makes of it.
LEMMA PhoneCallFields ==
  ASSUME NEW q \in PhoneCall
  PROVE  /\ q.op \in PhoneOps /\ q.op # "join" /\ q # NotCalling
         /\ q.alone \in BOOLEAN /\ q.waited \in BOOLEAN
         /\ q.at = "answered" => q.waited /\ q.nickname \in Names /\ q.avatarUrl \in Pictures
<1>1. q.op \in PhoneOps /\ q.alone \in BOOLEAN /\ q.waited \in BOOLEAN
  BY DEF PhoneCall, PhoneOps
<1>2. q.op # "join" /\ q.op # "none"
  BY <1>1 DEF PhoneOps
<1>3. q # NotCalling
  BY <1>2 DEF NotCalling
<1>4. q.at = "answered" => q.waited /\ q.nickname \in Names /\ q.avatarUrl \in Pictures
  BY DEF PhoneCall
<1> QED
  BY <1>1, <1>2, <1>3, <1>4

LEMMA NotAloneCall ==
  ASSUME NEW q \in PhoneCall
  PROVE  LET p == [q EXCEPT !.alone = FALSE]
         IN  /\ p \in PhoneCall /\ p.op = q.op /\ p.waited = q.waited /\ ~p.alone
             /\ p.page = q.page /\ p.at = q.at
BY DEF PhoneCall

LEMMA PagelessCall ==
  ASSUME NEW q \in PhoneCall
  PROVE  LET p == [q EXCEPT !.page = FALSE]
         IN  /\ p \in PhoneCall /\ p.op = q.op /\ ~p.page /\ p.waited = q.waited /\ p.alone = q.alone
             /\ p.at = q.at /\ p.nickname = q.nickname /\ p.avatarUrl = q.avatarUrl
BY DEF PhoneCall

LEMMA GivenUpCall ==
  ASSUME NEW q \in PhoneCall, q.at # "answered"
  PROVE  LET p == [q EXCEPT !.waited = FALSE, !.page = FALSE]
         IN  /\ p \in PhoneCall /\ p.op = q.op /\ ~p.waited /\ ~p.page /\ p.alone = q.alone
             /\ p.at = q.at /\ p.nickname = q.nickname /\ p.avatarUrl = q.avatarUrl
BY DEF PhoneCall

LEMMA AnsweredCall ==
  ASSUME NEW q \in PhoneCall, q.waited, NEW user, user.nickname \in Names, user.avatarUrl \in Pictures
  PROVE  LET p == [q EXCEPT !.at = "answered", !.nickname = user.nickname,
                            !.avatarUrl = user.avatarUrl]
         IN  /\ p \in PhoneCall /\ p.op = q.op /\ p.waited /\ p.alone = q.alone
             /\ p.page = q.page /\ p.at = "answered"
             /\ p.nickname = user.nickname /\ p.avatarUrl = user.avatarUrl
BY DEF PhoneCall, PhoneOps

LEMMA UploadedCall ==
  ASSUME NEW q \in PhoneCall, q.op = "upload", q.at = "sent", NEW n \in Names
  PROVE  LET p == [q EXCEPT !.at = "rows", !.nickname = n]
         IN  /\ p \in PhoneCall /\ p.op = q.op /\ p.waited = q.waited /\ p.alone = q.alone
             /\ p.page = q.page /\ p.at = "rows" /\ p.nickname = n /\ p.avatarUrl = q.avatarUrl
             /\ q.avatarUrl \in Avatars
BY DEF PhoneCall

\* A request of the phone that is alone carries the row once it has read or written it, and
\* one that nobody waits for leaves a doubt.
CallAgrees(c) == OfThePhone(c) =>
  /\ call[c].alone => \A d \in Calls \ {c} : ~OfThePhone(d)
  /\ (call[c].alone /\ call[c].at \in {"rows", "answered"}) =>
       call[c].nickname = profile.nickname /\ call[c].avatarUrl = profile.avatarUrl
  /\ ~call[c].waited => doubt

\* A request that answers to the page finds it open.
PageIsOpen(c) == (call[c].op \in {"save", "upload"} /\ call[c].page) => form # Closed

NamesAgree == ~overtaken =>
  /\ \A row \in copies : row.displayName = profile.nickname
  /\ \A c \in Calls : Joining(c) => call[c].nickname = profile.nickname

StoredAgrees == (~doubt /\ \A c \in Calls : ~OfThePhone(c)) => stored \in {profile, NoUser}

ProfilesInv ==
  /\ ProfilesTypeOK
  /\ \A c \in Calls : PageIsOpen(c)
  /\ NamesAgree
  /\ \A c \in Calls : CallAgrees(c)
  /\ StoredAgrees

----------------------------------------------------------------------------
(* Every variable keeps its type *)

LEMMA CallTypes ==
  ASSUME ProfilesTypeOK, NEW c \in Calls
  PROVE  /\ call[c] \in PhoneCall \cup JoinCall \cup {NotCalling}
         /\ OfThePhone(c) => call[c] \in PhoneCall
         /\ Joining(c) => call[c] \in JoinCall
         /\ call[c].op # "none" => call[c] # NotCalling
<1>1. call[c] \in PhoneCall \cup JoinCall \cup {NotCalling}
  BY DEF ProfilesTypeOK
<1>2. \A q \in JoinCall : q.op = "join"
  BY DEF JoinCall
<1>3. NotCalling.op = "none"
  BY DEF NotCalling
<1>4. "none" \notin PhoneOps /\ "join" \notin PhoneOps
  BY DEF PhoneOps
<1> QED
  BY <1>1, <1>2, <1>3, <1>4, PhoneCallFields DEF OfThePhone, Joining

LEMMA MadeTypes ==
  ASSUME made \in 0 .. MaxCalls, made < MaxCalls, made' = made + 1
  PROVE  made' \in 0 .. MaxCalls
BY CallsAssumption

LEMMA CallingTypes ==
  ASSUME ProfilesTypeOK, NEW c \in Calls, NEW op, NEW nickname, NEW avatarUrl,
         Calling(c, op, nickname, avatarUrl),
         \/ op \in {"login", "refresh"} /\ nickname = "" /\ avatarUrl = NoAvatar
         \/ op = "upload" /\ nickname = "" /\ avatarUrl \in Avatars
         \/ op = "save" /\ nickname \in Names /\ avatarUrl \in Pictures
  PROVE  /\ call' \in [Calls -> PhoneCall \cup JoinCall \cup {NotCalling}]
         /\ made' \in 0 .. MaxCalls
<1> DEFINE new == [op |-> op, at |-> "sent", nickname |-> nickname, avatarUrl |-> avatarUrl,
                   alone |-> \A e \in Calls : ~OfThePhone(e), waited |-> TRUE, page |-> TRUE]
<1>1. new \in PhoneCall
  <2>1. (\A e \in Calls : ~OfThePhone(e)) \in BOOLEAN
    OBVIOUS
  <2> QED
    BY <2>1 DEF PhoneCall
<1> HIDE DEF new
<1>2. call' = [d \in Calls |->
           CASE d = c -> new
             [] d # c /\ OfThePhone(d) -> [call[d] EXCEPT !.alone = FALSE]
             [] OTHER -> call[d]]
  BY DEF Calling, new
<1>3. \A d \in Calls : OfThePhone(d) => [call[d] EXCEPT !.alone = FALSE] \in PhoneCall
  BY CallTypes, NotAloneCall
<1>4. call' \in [Calls -> PhoneCall \cup JoinCall \cup {NotCalling}]
  BY <1>1, <1>2, <1>3, CallTypes
<1>5. made' \in 0 .. MaxCalls
  <2>1. made < MaxCalls /\ made' = made + 1
    BY DEF Calling
  <2>2. made \in 0 .. MaxCalls
    BY DEF ProfilesTypeOK
  <2> QED
    BY <2>1, <2>2, MadeTypes
<1> QED
  BY <1>4, <1>5

LEMMA PageTypes ==
  ASSUME ProfilesTypeOK,
         \/ OpenForm \/ CloseForm
         \/ \E nickname \in Nicknames : OnNicknameInput(nickname)
         \/ \E avatarUrl \in Avatars : SelectPreset(avatarUrl)
  PROVE  ProfilesTypeOK'
<1>1. CASE OpenForm
  <2>1. stored.nickname \in Names \cup {""} /\ stored.avatarUrl \in Pictures
    <3>1. CASE stored \in Profile
      BY <3>1 DEF Profile
    <3>2. CASE stored = NoUser
      BY <3>2 DEF NoUser, Pictures
    <3> QED
      BY <3>1, <3>2 DEF ProfilesTypeOK
  <2>2. form' \in [nickname : Names \cup {""}, avatarUrl : Pictures, saving : BOOLEAN]
    BY <1>1, <2>1 DEF OpenForm
  <2> QED
    BY <1>1, <2>2 DEF OpenForm, ProfilesTypeOK
<1>2. CASE CloseForm
  <2>1. \A c \in Calls : OfThePhone(c) => [call[c] EXCEPT !.page = FALSE] \in PhoneCall
    BY CallTypes, PagelessCall
  <2>2. call' \in [Calls -> PhoneCall \cup JoinCall \cup {NotCalling}]
    BY <1>2, <2>1, CallTypes DEF CloseForm
  <2> QED
    BY <1>2, <2>2 DEF CloseForm, ProfilesTypeOK
<1>3. ASSUME NEW nickname \in Nicknames, OnNicknameInput(nickname)
      PROVE  ProfilesTypeOK'
  <2>1. form \in [nickname : Names \cup {""}, avatarUrl : Pictures, saving : BOOLEAN]
    BY <1>3 DEF ProfilesTypeOK, OnNicknameInput
  <2>2. form' \in [nickname : Names \cup {""}, avatarUrl : Pictures, saving : BOOLEAN]
    BY <1>3, <2>1 DEF OnNicknameInput, Names
  <2> QED
    BY <1>3, <2>2 DEF OnNicknameInput, ProfilesTypeOK
<1>4. ASSUME NEW avatarUrl \in Avatars, SelectPreset(avatarUrl)
      PROVE  ProfilesTypeOK'
  <2>1. form \in [nickname : Names \cup {""}, avatarUrl : Pictures, saving : BOOLEAN]
    BY <1>4 DEF ProfilesTypeOK, SelectPreset
  <2>2. form' \in [nickname : Names \cup {""}, avatarUrl : Pictures, saving : BOOLEAN]
    BY <1>4, <2>1 DEF SelectPreset, Pictures
  <2> QED
    BY <1>4, <2>2 DEF SelectPreset, ProfilesTypeOK
<1> QED
  BY <1>1, <1>2, <1>3, <1>4

LEMMA AskingTypes ==
  ASSUME ProfilesTypeOK, NEW c \in Calls,
         \/ DoLogin(c) \/ RefreshProfile(c) \/ SaveNickname(c)
         \/ \E avatarUrl \in Avatars : UploadSelectedAvatar(c, avatarUrl)
         \/ \E room \in LedgerRooms : JoinLedger(c, room)
  PROVE  ProfilesTypeOK'
<1>1. CASE DoLogin(c) \/ RefreshProfile(c)
  <2>1. PICK op \in {"login", "refresh"} : AsksForMe(c, op)
    BY <1>1 DEF DoLogin, RefreshProfile
  <2> QED
    BY <2>1, CallingTypes DEF AsksForMe, ProfilesTypeOK
<1>2. CASE SaveNickname(c)
  <2>1. /\ form \in [nickname : Names \cup {""}, avatarUrl : Pictures, saving : BOOLEAN]
        /\ form.nickname # ""
        /\ form' = [form EXCEPT !.saving = TRUE]
        /\ Calling(c, "save", form.nickname, form.avatarUrl)
    BY <1>2 DEF SaveNickname, ProfilesTypeOK
  <2>2. form.nickname \in Names /\ form.avatarUrl \in Pictures
    BY <2>1
  <2>3. form' \in [nickname : Names \cup {""}, avatarUrl : Pictures, saving : BOOLEAN]
    BY <2>1
  <2> QED
    BY <1>2, <2>1, <2>2, <2>3, CallingTypes DEF SaveNickname, ProfilesTypeOK
<1>3. ASSUME NEW avatarUrl \in Avatars, UploadSelectedAvatar(c, avatarUrl)
      PROVE  ProfilesTypeOK'
  BY <1>3, CallingTypes DEF UploadSelectedAvatar, ProfilesTypeOK
<1>4. ASSUME NEW room \in LedgerRooms, JoinLedger(c, room)
      PROVE  ProfilesTypeOK'
  <2>1. [op |-> "join", room |-> room, nickname |-> profile.nickname] \in JoinCall
    BY DEF JoinCall, ProfilesTypeOK, Profile
  <2>2. call' \in [Calls -> PhoneCall \cup JoinCall \cup {NotCalling}]
    BY <1>4, <2>1 DEF JoinLedger, ProfilesTypeOK
  <2>3. made' \in 0 .. MaxCalls
    <3>1. made < MaxCalls /\ made' = made + 1 /\ made \in 0 .. MaxCalls
      BY <1>4 DEF JoinLedger, ProfilesTypeOK
    <3> QED
      BY <3>1, MadeTypes
  <2> QED
    BY <1>4, <2>2, <2>3 DEF JoinLedger, ProfilesTypeOK
<1> QED
  BY <1>1, <1>2, <1>3, <1>4

\* One request changes, into something of its type.
LEMMA OneCallTypes ==
  ASSUME ProfilesTypeOK, NEW c \in Calls, NEW q \in PhoneCall \cup JoinCall \cup {NotCalling},
         call' = [call EXCEPT ![c] = q]
  PROVE  call' \in [Calls -> PhoneCall \cup JoinCall \cup {NotCalling}]
BY DEF ProfilesTypeOK

\* What AnswersWith makes of a request.
LEMMA Answered ==
  ASSUME ProfilesTypeOK, NEW c \in Calls, OfThePhone(c), NEW user,
         user.nickname \in Names, user.avatarUrl \in Pictures, AnswersWith(c, user)
  PROVE  \E q \in PhoneCall \cup {NotCalling} :
           /\ call' = [call EXCEPT ![c] = q]
           /\ q = NotCalling => ~call[c].waited
           /\ q # NotCalling => /\ q.op = call[c].op /\ q.waited /\ q.alone = call[c].alone
                                /\ q.page = call[c].page
                                /\ q.nickname = user.nickname /\ q.avatarUrl = user.avatarUrl
<1>1. call[c] \in PhoneCall
  BY CallTypes
<1>2. CASE call[c].waited
  <2> DEFINE q == [call[c] EXCEPT !.at = "answered", !.nickname = user.nickname,
                                  !.avatarUrl = user.avatarUrl]
  <2>1. call' = [call EXCEPT ![c] = q]
    BY <1>2 DEF AnswersWith, ProfilesTypeOK
  <2>2. /\ q \in PhoneCall /\ q.op = call[c].op /\ q.waited /\ q.alone = call[c].alone
        /\ q.page = call[c].page /\ q.nickname = user.nickname /\ q.avatarUrl = user.avatarUrl
    BY <1>1, <1>2, AnsweredCall
  <2>3. q # NotCalling
    BY <2>2, PhoneCallFields
  <2> QED
    BY <2>1, <2>2, <2>3
<1>3. CASE ~call[c].waited
  <2>1. call' = [call EXCEPT ![c] = NotCalling]
    BY <1>3 DEF AnswersWith, ProfilesTypeOK
  <2> QED
    BY <1>3, <2>1
<1> QED
  BY <1>2, <1>3

LEMMA ServingTypes ==
  ASSUME ProfilesTypeOK, NEW c \in Calls,
         GetMe(c) \/ UpdateMe(c) \/ UpdateAvatar(c) \/ UpdateAvatarRows(c) \/ InsertParticipant(c)
  PROVE  ProfilesTypeOK'
<1>1. CASE GetMe(c)
  <2>1. OfThePhone(c) /\ profile.nickname \in Names /\ profile.avatarUrl \in Pictures
    BY <1>1 DEF GetMe, OfThePhone, PhoneOps, ProfilesTypeOK, Profile
  <2>2. \E q \in PhoneCall \cup {NotCalling} : call' = [call EXCEPT ![c] = q]
    BY <1>1, <2>1, Answered DEF GetMe
  <2>3. call' \in [Calls -> PhoneCall \cup JoinCall \cup {NotCalling}]
    BY <2>2, OneCallTypes
  <2> QED
    BY <1>1, <2>3 DEF GetMe, ProfilesTypeOK
<1>2. CASE UpdateMe(c)
  <2>1. OfThePhone(c) /\ call[c].nickname \in Names /\ call[c].avatarUrl \in Pictures
    <3>1. OfThePhone(c) /\ call[c].op = "save" /\ call[c].at = "sent"
      BY <1>2 DEF UpdateMe, OfThePhone, PhoneOps
    <3> QED
      BY <3>1, CallTypes DEF PhoneCall
  <2>2. profile' \in Profile
    BY <1>2, <2>1 DEF UpdateMe, ProfilesTypeOK, Profile
  <2>3. copies' \subseteq Copy
    <3>1. \A row \in Copy : [row EXCEPT !.displayName = call[c].nickname] \in Copy
      BY <2>1 DEF Copy
    <3> QED
      BY <1>2, <3>1 DEF UpdateMe, ProfilesTypeOK
  <2>4. \E q \in PhoneCall \cup {NotCalling} : call' = [call EXCEPT ![c] = q]
    <3>1. AnswersWith(c, profile')
      BY <1>2 DEF UpdateMe
    <3>2. profile'.nickname \in Names /\ profile'.avatarUrl \in Pictures
      BY <2>2 DEF Profile
    <3> QED
      BY <2>1, <3>1, <3>2, Answered
  <2>5. call' \in [Calls -> PhoneCall \cup JoinCall \cup {NotCalling}]
    BY <2>4, OneCallTypes
  <2>6. overtaken' \in BOOLEAN
    BY <1>2 DEF UpdateMe
  <2> QED
    BY <1>2, <2>2, <2>3, <2>5, <2>6 DEF UpdateMe, ProfilesTypeOK
<1>3. CASE UpdateAvatar(c)
  <2>1. call[c] \in PhoneCall /\ call[c].op = "upload" /\ call[c].at = "sent"
    BY <1>3, CallTypes DEF UpdateAvatar, OfThePhone, PhoneOps
  <2>2. profile.nickname \in Names
    BY DEF ProfilesTypeOK, Profile
  <2> DEFINE q == [call[c] EXCEPT !.at = "rows", !.nickname = profile.nickname]
  <2>3. q \in PhoneCall /\ call[c].avatarUrl \in Avatars
    BY <2>1, <2>2, UploadedCall
  <2>4. call' = [call EXCEPT ![c] = q]
    BY <1>3 DEF UpdateAvatar, ProfilesTypeOK
  <2>5. call' \in [Calls -> PhoneCall \cup JoinCall \cup {NotCalling}]
    BY <2>3, <2>4, OneCallTypes
  <2>6. profile' \in Profile
    BY <1>3, <2>3 DEF UpdateAvatar, ProfilesTypeOK, Profile, Pictures
  <2> QED
    BY <1>3, <2>5, <2>6 DEF UpdateAvatar, ProfilesTypeOK
<1>4. CASE UpdateAvatarRows(c)
  <2>1. call[c] \in PhoneCall /\ call[c].op = "upload" /\ call[c].at = "rows" /\ OfThePhone(c)
    BY <1>4, CallTypes DEF UpdateAvatarRows, OfThePhone, PhoneOps
  <2>2. call[c].nickname \in Names /\ call[c].avatarUrl \in Pictures
    BY <2>1 DEF PhoneCall, Pictures
  <2>3. copies' \subseteq Copy
    <3>1. \A row \in Copy : [row EXCEPT !.avatarUrl = call[c].avatarUrl] \in Copy
      BY <2>2 DEF Copy
    <3> QED
      BY <1>4, <3>1 DEF UpdateAvatarRows, ProfilesTypeOK
  <2>4. \E q \in PhoneCall \cup {NotCalling} : call' = [call EXCEPT ![c] = q]
    BY <1>4, <2>1, <2>2, Answered DEF UpdateAvatarRows
  <2>5. call' \in [Calls -> PhoneCall \cup JoinCall \cup {NotCalling}]
    BY <2>4, OneCallTypes
  <2> QED
    BY <1>4, <2>3, <2>5 DEF UpdateAvatarRows, ProfilesTypeOK
<1>5. CASE InsertParticipant(c)
  <2>1. call[c] \in JoinCall
    BY <1>5, CallTypes DEF InsertParticipant
  <2>2. [room |-> call[c].room, displayName |-> call[c].nickname, avatarUrl |-> NoAvatar] \in Copy
    BY <2>1 DEF JoinCall, Copy, Pictures
  <2>3. copies' \subseteq Copy
    BY <1>5, <2>2 DEF InsertParticipant, ProfilesTypeOK
  <2>4. call' \in [Calls -> PhoneCall \cup JoinCall \cup {NotCalling}]
    BY <1>5, OneCallTypes DEF InsertParticipant
  <2> QED
    BY <1>5, <2>3, <2>4 DEF InsertParticipant, ProfilesTypeOK
<1> QED
  BY <1>1, <1>2, <1>3, <1>4, <1>5

LEMMA EndingTypes ==
  ASSUME ProfilesTypeOK, NEW c \in Calls, PageIsOpen(c),
         RequestFails(c) \/ PhoneGivesUp(c) \/ Refreshed(c) \/ Uploaded(c) \/ Saved(c)
  PROVE  ProfilesTypeOK'
<1> DEFINE Form == [nickname : Names \cup {""}, avatarUrl : Pictures, saving : BOOLEAN]
<1>1. form # Closed => form \in Form
  BY DEF ProfilesTypeOK
<1>2. CASE RequestFails(c) \/ PhoneGivesUp(c)
  <2>1. form' \in Form \cup {Closed}
    <3>1. form' = form \/ (form # Closed /\ form' = [form EXCEPT !.saving = FALSE])
      BY <1>2 DEF RequestFails, PhoneGivesUp, PageIsOpen
    <3> QED
      BY <1>1, <3>1 DEF ProfilesTypeOK
  <2>2. call' \in [Calls -> PhoneCall \cup JoinCall \cup {NotCalling}]
    <3>1. CASE call' = [call EXCEPT ![c] = NotCalling]
      BY <3>1, OneCallTypes
    <3>2. CASE PhoneGivesUp(c) /\ call[c].at # "answered"
      <4>1. [call[c] EXCEPT !.waited = FALSE, !.page = FALSE] \in PhoneCall
        BY <3>2, CallTypes, GivenUpCall DEF PhoneGivesUp
      <4>2. call' = [call EXCEPT ![c] = [call[c] EXCEPT !.waited = FALSE, !.page = FALSE]]
        BY <3>2 DEF PhoneGivesUp, ProfilesTypeOK
      <4> QED
        BY <4>1, <4>2, OneCallTypes
    <3>3. CASE PhoneGivesUp(c) /\ call[c].at = "answered"
      BY <3>1, <3>3 DEF PhoneGivesUp, ProfilesTypeOK
    <3> QED
      BY <1>2, <3>1, <3>2, <3>3 DEF RequestFails
  <2>3. doubt' \in BOOLEAN
    BY <1>2 DEF RequestFails, PhoneGivesUp, ProfilesTypeOK
  <2> QED
    BY <1>2, <2>1, <2>2, <2>3 DEF RequestFails, PhoneGivesUp, ProfilesTypeOK
<1>3. CASE Refreshed(c) \/ Uploaded(c) \/ Saved(c)
  <2>1. Stores(c) /\ OfThePhone(c)
    BY <1>3 DEF Refreshed, Uploaded, Saved, OfThePhone, PhoneOps
  <2>2. call[c].nickname \in Names /\ call[c].avatarUrl \in Pictures /\ call[c].alone \in BOOLEAN
    BY <2>1, CallTypes, PhoneCallFields DEF Stores
  <2>3. stored' \in Profile
    BY <2>1, <2>2 DEF Stores, Profile
  <2>4. form' \in Form \cup {Closed}
    <3>1. \/ form' = form
          \/ form # Closed /\ form' = [form EXCEPT !.saving = FALSE]
          \/ form # Closed /\ form' = [form EXCEPT !.avatarUrl = call[c].avatarUrl]
      BY <1>3 DEF Refreshed, Uploaded, Saved, PageIsOpen
    <3> QED
      BY <1>1, <2>2, <3>1 DEF ProfilesTypeOK
  <2>5. call' \in [Calls -> PhoneCall \cup JoinCall \cup {NotCalling}]
    BY <2>1, OneCallTypes DEF Stores
  <2>6. doubt' \in BOOLEAN
    BY <2>1, <2>2 DEF Stores
  <2> QED
    BY <2>1, <2>3, <2>4, <2>5, <2>6 DEF Stores, ProfilesTypeOK
<1> QED
  BY <1>2, <1>3

----------------------------------------------------------------------------
(* Every step keeps the rest *)

\* A request does not become one of the phone, or of another kind, by going on.
LEMMA CallKinds ==
  /\ "join" \notin PhoneOps /\ "none" \notin PhoneOps
  /\ NotCalling.op = "none"
BY DEF PhoneOps, NotCalling

\* Steps that leave the requests alone, but for the page they answer to.
LEMMA PageSteps ==
  ASSUME ProfilesInv,
         \/ OpenForm \/ CloseForm
         \/ \E nickname \in Nicknames : OnNicknameInput(nickname)
         \/ \E avatarUrl \in Avatars : SelectPreset(avatarUrl)
  PROVE  ProfilesInv'
<1>1. ProfilesTypeOK'
  BY PageTypes DEF ProfilesInv
<1>2. CASE OpenForm
  <2>1. form' # Closed /\ UNCHANGED <<profile, copies, stored, call, made, doubt, overtaken>>
    <3> DEFINE f == [nickname |-> IF stored.nickname = WechatUser THEN "" ELSE stored.nickname,
                     avatarUrl |-> stored.avatarUrl, saving |-> FALSE]
    <3>1. DOMAIN f = {"nickname", "avatarUrl", "saving"} /\ DOMAIN Closed = {"open"}
      BY DEF Closed
    <3> QED
      BY <1>2, <3>1 DEF OpenForm
  <2> QED
    BY <1>1, <2>1 DEF ProfilesInv, PageIsOpen, NamesAgree, CallAgrees, StoredAgrees, OfThePhone,
                      Joining
<1>3. CASE CloseForm
  <2>1. /\ \A c \in Calls : OfThePhone(c) =>
             /\ call'[c].op = call[c].op /\ ~call'[c].page
             /\ call'[c].waited = call[c].waited /\ call'[c].alone = call[c].alone
             /\ call'[c].at = call[c].at /\ call'[c].nickname = call[c].nickname
             /\ call'[c].avatarUrl = call[c].avatarUrl
        /\ \A c \in Calls : ~OfThePhone(c) => call'[c] = call[c]
    BY <1>3, CallTypes, PagelessCall DEF CloseForm, ProfilesInv
  <2>2. \A c \in Calls : /\ OfThePhone(c)' <=> OfThePhone(c)
                         /\ Joining(c)' <=> Joining(c)
    BY <2>1 DEF OfThePhone, Joining
  <2>3. UNCHANGED <<profile, copies, stored, made, doubt, overtaken>>
    BY <1>3 DEF CloseForm
  <2>4. \A c \in Calls : PageIsOpen(c)'
    BY <2>1, <2>2 DEF PageIsOpen, OfThePhone, PhoneOps
  <2>5. NamesAgree'
    BY <2>1, <2>2, <2>3, CallKinds DEF ProfilesInv, NamesAgree, OfThePhone, Joining
  <2>6. \A c \in Calls : CallAgrees(c)'
    BY <2>1, <2>2, <2>3 DEF ProfilesInv, CallAgrees
  <2>7. StoredAgrees'
    BY <2>2, <2>3 DEF ProfilesInv, StoredAgrees
  <2> QED
    BY <1>1, <2>4, <2>5, <2>6, <2>7 DEF ProfilesInv
<1>4. CASE \/ \E nickname \in Nicknames : OnNicknameInput(nickname)
           \/ \E avatarUrl \in Avatars : SelectPreset(avatarUrl)
  <2>1. form # Closed /\ UNCHANGED <<profile, copies, stored, call, made, doubt, overtaken>>
    BY <1>4 DEF OnNicknameInput, SelectPreset
  <2>2. form' # Closed
    <3>1. DOMAIN form' = {"nickname", "avatarUrl", "saving"}
      <4>1. form \in [nickname : Names \cup {""}, avatarUrl : Pictures, saving : BOOLEAN]
        BY <2>1 DEF ProfilesInv, ProfilesTypeOK
      <4> QED
        BY <1>4, <4>1 DEF OnNicknameInput, SelectPreset
    <3>2. DOMAIN Closed = {"open"}
      BY DEF Closed
    <3> QED
      BY <3>1, <3>2
  <2> QED
    BY <1>1, <2>1, <2>2 DEF ProfilesInv, PageIsOpen, NamesAgree, CallAgrees, StoredAgrees,
                            OfThePhone, Joining
<1> QED
  BY <1>2, <1>3, <1>4

\* A request of the phone that is sent.
LEMMA CallingStep ==
  ASSUME ProfilesInv, ProfilesTypeOK', NEW c \in Calls, NEW op \in PhoneOps, NEW nickname,
         NEW avatarUrl, Calling(c, op, nickname, avatarUrl),
         UNCHANGED <<profile, copies, stored, doubt, overtaken>>,
         form # Closed => form' # Closed,
         op \in {"save", "upload"} => form' # Closed
  PROVE  ProfilesInv'
<1>1. /\ call[c] = NotCalling
      /\ call'[c].op = op /\ call'[c].at = "sent" /\ call'[c].waited
      /\ call'[c].alone => \A d \in Calls : ~OfThePhone(d)
  BY DEF Calling
<1>2. \A d \in Calls \ {c} :
        /\ OfThePhone(d) => /\ call'[d].op = call[d].op /\ ~call'[d].alone
                            /\ call'[d].waited = call[d].waited /\ call'[d].page = call[d].page
        /\ ~OfThePhone(d) => call'[d] = call[d]
  BY CallTypes, NotAloneCall DEF Calling, ProfilesInv
<1>3. OfThePhone(c)' /\ ~Joining(c)'
  BY <1>1, CallKinds DEF OfThePhone, Joining
<1>4. \A d \in Calls \ {c} : /\ OfThePhone(d)' <=> OfThePhone(d)
                             /\ Joining(d)' <=> Joining(d)
  BY <1>2 DEF OfThePhone, Joining
<1>5. \A d \in Calls : PageIsOpen(d)'
  BY <1>1, <1>2 DEF ProfilesInv, PageIsOpen
<1>6. NamesAgree'
  BY <1>2, <1>3, <1>4, CallKinds DEF ProfilesInv, NamesAgree, OfThePhone, Joining
<1>7. \A d \in Calls : CallAgrees(d)'
  BY <1>1, <1>2, <1>3, <1>4 DEF ProfilesInv, CallAgrees
<1>8. StoredAgrees'
  BY <1>3 DEF StoredAgrees
<1> QED
  BY <1>5, <1>6, <1>7, <1>8 DEF ProfilesInv

LEMMA AskingSteps ==
  ASSUME ProfilesInv, NEW c \in Calls,
         \/ DoLogin(c) \/ RefreshProfile(c) \/ SaveNickname(c)
         \/ \E avatarUrl \in Avatars : UploadSelectedAvatar(c, avatarUrl)
         \/ \E room \in LedgerRooms : JoinLedger(c, room)
  PROVE  ProfilesInv'
<1>1. ProfilesTypeOK'
  BY AskingTypes DEF ProfilesInv
<1>2. CASE DoLogin(c) \/ RefreshProfile(c)
  <2>1. PICK op \in {"login", "refresh"} : AsksForMe(c, op)
    BY <1>2 DEF DoLogin, RefreshProfile
  <2>2. op \in PhoneOps /\ op \notin {"save", "upload"}
    BY DEF PhoneOps
  <2> QED
    BY <1>1, <2>1, <2>2, CallingStep DEF AsksForMe
<1>3. CASE SaveNickname(c)
  <2>1. form' # Closed
    <3>1. form \in [nickname : Names \cup {""}, avatarUrl : Pictures, saving : BOOLEAN]
      BY <1>3 DEF ProfilesInv, ProfilesTypeOK, SaveNickname
    <3>2. DOMAIN form' = {"nickname", "avatarUrl", "saving"} /\ DOMAIN Closed = {"open"}
      BY <1>3, <3>1 DEF SaveNickname, Closed
    <3> QED
      BY <3>2
  <2>2. "save" \in PhoneOps
    BY DEF PhoneOps
  <2> QED
    BY <1>1, <1>3, <2>1, <2>2, CallingStep DEF SaveNickname
<1>4. ASSUME NEW avatarUrl \in Avatars, UploadSelectedAvatar(c, avatarUrl)
      PROVE  ProfilesInv'
  <2>1. "upload" \in PhoneOps
    BY DEF PhoneOps
  <2> QED
    BY <1>1, <1>4, <2>1, CallingStep DEF UploadSelectedAvatar
<1>5. ASSUME NEW room \in LedgerRooms, JoinLedger(c, room)
      PROVE  ProfilesInv'
  <2>1. /\ call'[c].op = "join" /\ call'[c].nickname = profile.nickname
        /\ call[c] = NotCalling
        /\ \A d \in Calls \ {c} : call'[d] = call[d]
        /\ UNCHANGED <<profile, copies, stored, form, doubt, overtaken>>
    BY <1>5 DEF JoinLedger, ProfilesInv, ProfilesTypeOK
  <2>2. \A d \in Calls : OfThePhone(d)' <=> OfThePhone(d)
    BY <2>1, CallKinds DEF OfThePhone
  <2>3. \A d \in Calls : PageIsOpen(d)'
    BY <2>1 DEF ProfilesInv, PageIsOpen
  <2>4. NamesAgree'
    BY <2>1 DEF ProfilesInv, NamesAgree, Joining
  <2>5. \A d \in Calls : CallAgrees(d)'
    BY <2>1, <2>2, CallKinds DEF ProfilesInv, CallAgrees, OfThePhone
  <2>6. StoredAgrees'
    BY <2>1, <2>2 DEF ProfilesInv, StoredAgrees
  <2> QED
    BY <1>1, <2>3, <2>4, <2>5, <2>6 DEF ProfilesInv
<1> QED
  BY <1>2, <1>3, <1>4, <1>5

\* A step of the API for a request of the phone.  No other one is alone meanwhile.
LEMMA ServedStep ==
  ASSUME ProfilesInv, ProfilesTypeOK', NamesAgree', NEW c \in Calls, OfThePhone(c), NEW q,
         call' = [call EXCEPT ![c] = q], UNCHANGED <<stored, form, doubt>>,
         q = NotCalling => ~call[c].waited,
         q # NotCalling =>
           /\ q.op = call[c].op /\ q.page = call[c].page /\ q.alone = call[c].alone
           /\ ~q.waited => ~call[c].waited
           /\ q.alone => q.nickname = profile'.nickname /\ q.avatarUrl = profile'.avatarUrl
  PROVE  ProfilesInv'
<1>1. call'[c] = q /\ \A d \in Calls \ {c} : call'[d] = call[d]
  BY DEF ProfilesInv, ProfilesTypeOK
<1>2. \A d \in Calls \ {c} : OfThePhone(d)' <=> OfThePhone(d)
  BY <1>1 DEF OfThePhone
<1>3. \A d \in Calls : PageIsOpen(d)'
  BY <1>1, CallKinds DEF ProfilesInv, PageIsOpen, PhoneOps
<1>4. ASSUME NEW d \in Calls \ {c}
      PROVE  CallAgrees(d)'
  <2>1. OfThePhone(d) => ~call[d].alone
    BY DEF ProfilesInv, CallAgrees
  <2> QED
    BY <1>1, <1>2, <2>1 DEF ProfilesInv, CallAgrees
<1>5. CallAgrees(c)'
  <2>1. CASE q = NotCalling
    BY <1>1, <2>1, CallKinds DEF CallAgrees, OfThePhone
  <2>2. CASE q # NotCalling
    BY <1>1, <1>2, <2>2 DEF ProfilesInv, CallAgrees
  <2> QED
    BY <2>1, <2>2
<1>6. StoredAgrees'
  <2>1. CASE q = NotCalling
    BY <2>1 DEF ProfilesInv, CallAgrees, StoredAgrees
  <2>2. CASE q # NotCalling
    BY <1>1, <2>2 DEF StoredAgrees, OfThePhone
  <2> QED
    BY <2>1, <2>2
<1> QED
  BY <1>3, <1>4, <1>5, <1>6 DEF ProfilesInv

LEMMA ServingSteps ==
  ASSUME ProfilesInv, NEW c \in Calls,
         GetMe(c) \/ UpdateMe(c) \/ UpdateAvatar(c) \/ UpdateAvatarRows(c) \/ InsertParticipant(c)
  PROVE  ProfilesInv'
<1>1. ProfilesTypeOK'
  BY ServingTypes DEF ProfilesInv
<1>2. profile.nickname \in Names /\ profile.avatarUrl \in Pictures
  BY DEF ProfilesInv, ProfilesTypeOK, Profile
<1>3. ASSUME NEW q, call' = [call EXCEPT ![c] = q], ~Joining(c), q.op # "join"
      PROVE  \A d \in Calls : Joining(d)' => Joining(d) /\ call'[d] = call[d]
  BY <1>3 DEF ProfilesInv, ProfilesTypeOK, Joining
<1>4. CASE GetMe(c)
  <2>1. OfThePhone(c) /\ AnswersWith(c, profile) /\ UNCHANGED <<profile, copies, overtaken>>
    BY <1>4 DEF GetMe, OfThePhone, PhoneOps
  <2>2. PICK q \in PhoneCall \cup {NotCalling} :
           /\ call' = [call EXCEPT ![c] = q]
           /\ q = NotCalling => ~call[c].waited
           /\ q # NotCalling => /\ q.op = call[c].op /\ q.waited /\ q.alone = call[c].alone
                                /\ q.page = call[c].page
                                /\ q.nickname = profile.nickname /\ q.avatarUrl = profile.avatarUrl
    BY <1>2, <2>1, Answered DEF ProfilesInv
  <2>3. ~Joining(c) /\ q.op # "join"
    BY <2>1, <2>2, CallKinds, PhoneCallFields DEF OfThePhone, Joining
  <2>4. NamesAgree'
    BY <1>3, <2>1, <2>2, <2>3 DEF ProfilesInv, NamesAgree
  <2> QED
    BY <1>1, <1>4, <2>1, <2>2, <2>4, ServedStep DEF GetMe
<1>5. CASE UpdateMe(c)
  <2>1. /\ OfThePhone(c) /\ AnswersWith(c, profile')
        /\ overtaken' = \E d \in Calls : Joining(d)
        /\ profile'.nickname = call[c].nickname
    BY <1>5 DEF UpdateMe, OfThePhone, PhoneOps
  <2>2. profile'.nickname \in Names /\ profile'.avatarUrl \in Pictures
    BY <1>1 DEF ProfilesTypeOK, Profile
  <2>3. PICK q \in PhoneCall \cup {NotCalling} :
           /\ call' = [call EXCEPT ![c] = q]
           /\ q = NotCalling => ~call[c].waited
           /\ q # NotCalling => /\ q.op = call[c].op /\ q.waited /\ q.alone = call[c].alone
                                /\ q.page = call[c].page
                                /\ q.nickname = profile'.nickname /\ q.avatarUrl = profile'.avatarUrl
    BY <2>1, <2>2, Answered DEF ProfilesInv
  <2>4. ~Joining(c) /\ q.op # "join"
    BY <2>1, <2>3, CallKinds, PhoneCallFields DEF OfThePhone, Joining
  <2>5. \A row \in copies' : row.displayName = profile'.nickname
    <3>1. \A row \in Copy : [row EXCEPT !.displayName = call[c].nickname].displayName = call[c].nickname
      BY DEF Copy
    <3>2. /\ copies' = { [row EXCEPT !.displayName = call[c].nickname] : row \in copies }
          /\ copies \subseteq Copy
      BY <1>5 DEF UpdateMe, ProfilesInv, ProfilesTypeOK
    <3> QED
      BY <2>1, <3>1, <3>2
  <2>6. NamesAgree'
    BY <1>3, <2>1, <2>3, <2>4, <2>5 DEF NamesAgree
  <2> QED
    BY <1>1, <1>5, <2>1, <2>3, <2>6, ServedStep DEF UpdateMe
<1>6. CASE UpdateAvatar(c)
  <2>1. /\ OfThePhone(c) /\ call[c] \in PhoneCall /\ call[c].op = "upload" /\ call[c].at = "sent"
        /\ profile'.nickname = profile.nickname /\ profile'.avatarUrl = call[c].avatarUrl
    BY <1>6, CallTypes
       DEF UpdateAvatar, OfThePhone, PhoneOps, ProfilesInv, ProfilesTypeOK, Profile
  <2> DEFINE q == [call[c] EXCEPT !.at = "rows", !.nickname = profile.nickname]
  <2>2. /\ q \in PhoneCall /\ q.op = call[c].op /\ q.waited = call[c].waited
        /\ q.alone = call[c].alone /\ q.page = call[c].page /\ q.nickname = profile.nickname
        /\ q.avatarUrl = call[c].avatarUrl
    BY <1>2, <2>1, UploadedCall
  <2>3. call' = [call EXCEPT ![c] = q]
    BY <1>6 DEF UpdateAvatar, ProfilesInv, ProfilesTypeOK
  <2> HIDE DEF q
  <2>4. ~Joining(c) /\ q.op # "join" /\ q # NotCalling
    BY <2>1, <2>2, PhoneCallFields DEF Joining
  <2>5. NamesAgree'
    BY <1>3, <1>6, <2>1, <2>3, <2>4 DEF UpdateAvatar, ProfilesInv, NamesAgree
  <2> QED
    <3>1. /\ q.op = call[c].op /\ q.page = call[c].page /\ q.alone = call[c].alone
          /\ ~q.waited => ~call[c].waited
          /\ q.nickname = profile'.nickname /\ q.avatarUrl = profile'.avatarUrl
      BY <2>1, <2>2
    <3>2. UNCHANGED <<stored, form, doubt>>
      BY <1>6 DEF UpdateAvatar
    <3> QED
      BY <1>1, <2>1, <2>3, <2>4, <2>5, <3>1, <3>2, ServedStep
<1>7. CASE UpdateAvatarRows(c)
  <2>1. /\ OfThePhone(c) /\ call[c] \in PhoneCall /\ call[c].at = "rows"
        /\ AnswersWith(c, call[c]) /\ UNCHANGED <<profile, overtaken>>
        /\ copies' = { [row EXCEPT !.avatarUrl = call[c].avatarUrl] : row \in copies }
    BY <1>7, CallTypes DEF UpdateAvatarRows, OfThePhone, PhoneOps, ProfilesInv
  <2>2. call[c].nickname \in Names /\ call[c].avatarUrl \in Pictures
    BY <2>1 DEF PhoneCall, Pictures
  <2>3. PICK q \in PhoneCall \cup {NotCalling} :
           /\ call' = [call EXCEPT ![c] = q]
           /\ q = NotCalling => ~call[c].waited
           /\ q # NotCalling => /\ q.op = call[c].op /\ q.waited /\ q.alone = call[c].alone
                                /\ q.page = call[c].page
                                /\ q.nickname = call[c].nickname /\ q.avatarUrl = call[c].avatarUrl
    BY <2>1, <2>2, Answered DEF ProfilesInv
  <2>4. ~Joining(c) /\ q.op # "join"
    BY <2>1, <2>3, CallKinds, PhoneCallFields DEF OfThePhone, Joining
  <2>5. ~overtaken' => \A row \in copies' : row.displayName = profile'.nickname
    <3>1. \A row \in Copy : [row EXCEPT !.avatarUrl = call[c].avatarUrl].displayName = row.displayName
      BY DEF Copy
    <3>2. copies \subseteq Copy
      BY DEF ProfilesInv, ProfilesTypeOK
    <3> QED
      BY <2>1, <3>1, <3>2 DEF ProfilesInv, NamesAgree
  <2>6. NamesAgree'
    BY <1>3, <2>1, <2>3, <2>4, <2>5 DEF ProfilesInv, NamesAgree
  <2>7. call[c].alone => call[c].nickname = profile'.nickname /\ call[c].avatarUrl = profile'.avatarUrl
    BY <2>1 DEF ProfilesInv, CallAgrees
  <2> QED
    BY <1>1, <1>7, <2>1, <2>3, <2>6, <2>7, ServedStep DEF UpdateAvatarRows
<1>8. CASE InsertParticipant(c)
  <2>1. /\ Joining(c) /\ call'[c] = NotCalling /\ \A d \in Calls \ {c} : call'[d] = call[d]
        /\ UNCHANGED <<profile, stored, form, doubt, overtaken>>
    BY <1>8 DEF InsertParticipant, ProfilesInv, ProfilesTypeOK
  <2>2. \A d \in Calls : OfThePhone(d)' <=> OfThePhone(d)
    BY <2>1, CallKinds DEF OfThePhone, Joining
  <2>3. \A d \in Calls : PageIsOpen(d)'
    BY <2>1, CallKinds DEF ProfilesInv, PageIsOpen, PhoneOps
  <2>4. NamesAgree'
    BY <1>8, <2>1, CallKinds DEF InsertParticipant, ProfilesInv, NamesAgree, Joining
  <2>5. \A d \in Calls : CallAgrees(d)'
    BY <2>1, <2>2, CallKinds DEF ProfilesInv, CallAgrees, OfThePhone
  <2>6. StoredAgrees'
    BY <2>1, <2>2 DEF ProfilesInv, StoredAgrees
  <2> QED
    BY <1>1, <2>3, <2>4, <2>5, <2>6 DEF ProfilesInv
<1> QED
  BY <1>4, <1>5, <1>6, <1>7, <1>8

LEMMA EndingSteps ==
  ASSUME ProfilesInv, NEW c \in Calls,
         RequestFails(c) \/ PhoneGivesUp(c) \/ Refreshed(c) \/ Uploaded(c) \/ Saved(c)
  PROVE  ProfilesInv'
<1>1. ProfilesTypeOK'
  BY EndingTypes DEF ProfilesInv
<1>2. form # Closed => form' # Closed
  <2>1. \/ form' = form
        \/ form' = [form EXCEPT !.saving = FALSE]
        \/ form' = [form EXCEPT !.avatarUrl = call[c].avatarUrl]
    BY DEF RequestFails, PhoneGivesUp, Refreshed, Uploaded, Saved
  <2>2. form # Closed => DOMAIN form' = {"nickname", "avatarUrl", "saving"}
    BY <2>1 DEF ProfilesInv, ProfilesTypeOK
  <2>3. DOMAIN Closed = {"open"}
    BY DEF Closed
  <2> QED
    BY <2>2, <2>3
<1>3. UNCHANGED <<profile, copies, overtaken>>
  BY DEF RequestFails, PhoneGivesUp, Refreshed, Uploaded, Saved, Stores
<1>4. /\ \A d \in Calls \ {c} : call'[d] = call[d]
      /\ \/ call'[c] = NotCalling
         \/ PhoneGivesUp(c) /\ call[c].at # "answered"
              /\ call'[c] = [call[c] EXCEPT !.waited = FALSE, !.page = FALSE]
  BY DEF RequestFails, PhoneGivesUp, Refreshed, Uploaded, Saved, Stores, ProfilesInv, ProfilesTypeOK
<1>5. \A d \in Calls : Joining(d)' => Joining(d) /\ call'[d] = call[d]
  <2>1. call'[c].op = "none" \/ (OfThePhone(c) /\ call'[c].op = call[c].op)
    BY <1>4, CallKinds, CallTypes, GivenUpCall DEF PhoneGivesUp, ProfilesInv
  <2> QED
    BY <1>4, <2>1, CallKinds DEF Joining, OfThePhone
<1>6. NamesAgree'
  BY <1>3, <1>5 DEF ProfilesInv, NamesAgree
<1>7. CASE RequestFails(c) \/ PhoneGivesUp(c)
  <2>1. doubt => doubt'
    BY <1>7 DEF RequestFails, PhoneGivesUp
  <2>2. CASE OfThePhone(c)
    <3>1. doubt'
      BY <1>7, <2>2 DEF RequestFails, PhoneGivesUp
    <3>2. call'[c].op = "none" \/ /\ call'[c].op = call[c].op /\ ~call'[c].page
                                  /\ call'[c].alone = call[c].alone
                                  /\ call'[c].at = call[c].at
                                  /\ call'[c].nickname = call[c].nickname
                                  /\ call'[c].avatarUrl = call[c].avatarUrl
      BY <1>4, <2>2, CallKinds, CallTypes, GivenUpCall DEF ProfilesInv
    <3>3. \A d \in Calls : OfThePhone(d)' => OfThePhone(d)
      BY <1>4, <2>2, <3>2, CallKinds DEF OfThePhone
    <3>4. \A d \in Calls : PageIsOpen(d)'
      BY <1>2, <1>4, <3>2, CallKinds DEF ProfilesInv, PageIsOpen, PhoneOps
    <3>5. \A d \in Calls : CallAgrees(d)'
      BY <1>3, <1>4, <3>1, <3>2, <3>3, CallKinds DEF ProfilesInv, CallAgrees, OfThePhone
    <3> QED
      BY <1>1, <1>6, <3>1, <3>4, <3>5 DEF ProfilesInv, StoredAgrees
  <2>3. CASE ~OfThePhone(c)
    <3>1. call'[c] = NotCalling /\ UNCHANGED <<stored, doubt>>
      BY <1>4, <1>7, <2>3 DEF RequestFails, PhoneGivesUp, ProfilesInv, ProfilesTypeOK
    <3>2. \A d \in Calls : OfThePhone(d)' <=> OfThePhone(d)
      BY <1>4, <2>3, <3>1, CallKinds DEF OfThePhone
    <3>3. \A d \in Calls : PageIsOpen(d)'
      BY <1>2, <1>4, <3>1, CallKinds DEF ProfilesInv, PageIsOpen, PhoneOps
    <3>4. \A d \in Calls : CallAgrees(d)'
      BY <1>3, <1>4, <2>3, <3>1, <3>2 DEF ProfilesInv, CallAgrees
    <3>5. StoredAgrees'
      BY <1>3, <3>1, <3>2 DEF ProfilesInv, StoredAgrees
    <3> QED
      BY <1>1, <1>6, <3>3, <3>4, <3>5 DEF ProfilesInv
  <2> QED
    BY <2>2, <2>3
<1>8. CASE Refreshed(c) \/ Uploaded(c) \/ Saved(c)
  <2>1. /\ OfThePhone(c) /\ call[c].at = "answered" /\ call'[c] = NotCalling
        /\ stored' = [nickname |-> call[c].nickname, avatarUrl |-> call[c].avatarUrl]
        /\ doubt' = ~call[c].alone
    BY <1>8 DEF Refreshed, Uploaded, Saved, Stores, OfThePhone, PhoneOps, ProfilesInv, ProfilesTypeOK
  <2>2. \A d \in Calls \ {c} : OfThePhone(d)' <=> OfThePhone(d)
    BY <1>4 DEF OfThePhone
  <2>3. ~OfThePhone(c)'
    BY <2>1, CallKinds DEF OfThePhone
  <2>4. \A d \in Calls : PageIsOpen(d)'
    BY <1>2, <1>4, <2>1, CallKinds DEF ProfilesInv, PageIsOpen, PhoneOps
  <2>5. CASE call[c].alone
    <3>1. stored' = profile
      BY <2>1, <2>5 DEF ProfilesInv, ProfilesTypeOK, Profile, CallAgrees
    <3>2. \A d \in Calls : ~OfThePhone(d)'
      BY <2>1, <2>2, <2>3, <2>5 DEF ProfilesInv, CallAgrees
    <3> QED
      BY <1>1, <1>3, <1>6, <2>4, <3>1, <3>2 DEF ProfilesInv, CallAgrees, StoredAgrees
  <2>6. CASE ~call[c].alone
    <3>1. doubt'
      BY <2>1, <2>6
    <3>2. \A d \in Calls : CallAgrees(d)'
      BY <1>3, <1>4, <2>1, <2>2, <2>3, <3>1 DEF ProfilesInv, CallAgrees
    <3> QED
      BY <1>1, <1>6, <2>4, <3>1, <3>2 DEF ProfilesInv, StoredAgrees
  <2> QED
    BY <2>5, <2>6
<1> QED
  BY <1>7, <1>8

LEMMA ProfilesInitInv == ProfilesInit => ProfilesInv
<1> SUFFICES ASSUME ProfilesInit
             PROVE  ProfilesInv
  OBVIOUS
<1>1. ProfilesTypeOK
  <2>1. made \in 0 .. MaxCalls
    BY CallsAssumption DEF ProfilesInit
  <2>2. profile \in Profile
    BY DEF ProfilesInit, Profile, Names, Pictures
  <2>3. call \in [Calls -> PhoneCall \cup JoinCall \cup {NotCalling}]
    BY DEF ProfilesInit
  <2> QED
    BY <2>1, <2>2, <2>3 DEF ProfilesInit, ProfilesTypeOK
<1>2. \A c \in Calls : call[c].op = "none"
  BY CallKinds DEF ProfilesInit
<1> QED
  BY <1>1, <1>2, CallKinds
     DEF ProfilesInit, ProfilesInv, PageIsOpen, NamesAgree, CallAgrees, StoredAgrees, OfThePhone,
         Joining, PhoneOps

LEMMA ProfilesNextInv == ProfilesInv /\ ProfilesNext => ProfilesInv'
BY PageSteps, AskingSteps, ServingSteps, EndingSteps DEF ProfilesNext

LEMMA ProfilesStutter == ProfilesInv /\ UNCHANGED profilesVars => ProfilesInv'
<1> SUFFICES ASSUME ProfilesInv, UNCHANGED profilesVars
             PROVE  ProfilesInv'
  OBVIOUS
<1>1. UNCHANGED <<profile, copies, stored, form, call, made, doubt, overtaken>>
  BY DEF profilesVars
<1>2. ProfilesTypeOK'
  BY <1>1 DEF ProfilesInv, ProfilesTypeOK
<1>3. NamesAgree' /\ StoredAgrees'
  BY <1>1 DEF ProfilesInv, NamesAgree, StoredAgrees, Joining, OfThePhone
<1>4. \A c \in Calls : PageIsOpen(c)' /\ CallAgrees(c)'
  BY <1>1 DEF ProfilesInv, PageIsOpen, CallAgrees, OfThePhone
<1> QED
  BY <1>2, <1>3, <1>4 DEF ProfilesInv

LEMMA ProfilesAgree == ProfilesInv => ProfileIsTheSameEverywhere
BY DEF ProfilesInv, NamesAgree, StoredAgrees, ProfileIsTheSameEverywhere
=============================================================================
