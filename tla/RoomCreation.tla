---------------------------- MODULE RoomCreation ----------------------------
(***************************************************************************)
(* Creating practice rooms: createFriendsRoom and createSoloRoom of        *)
(* practice-room.service.ts, and the log they leave in risk_logs.  A user  *)
(* may create as many rooms as he likes; who has created too many within   *)
(* an hour is logged.  Rooms are counted, logs written and codes looked up *)
(* one await after the other, and nothing holds off another request.       *)
(*                                                                         *)
(* Nobody reads the logs but administrators, so a log is kept with the     *)
(* room whose creation wrote it, and only the one of too many rooms; those *)
(* of too many chips and of sensitive words change nothing else.  What the *)
(* room holds, by its mode, is in PracticeRoom and PracticeGame.           *)
(***************************************************************************)
EXTENDS Naturals, FiniteSets

CONSTANTS
  Creators,     \* users
  RoomCodes,    \* the codes there are
  Creations,    \* requests in progress at once, as slots
  CreateLimit   \* PRACTICE_ROOM_CREATE_LIMIT_PER_HOUR

ASSUME CodesAssumption == IsFiniteSet(RoomCodes)
ASSUME LimitAssumption == CreateLimit \in Nat

VARIABLES
  banned,    \* users whose status is BANNED
  created,   \* practiceRoom rows by their code
  creating,  \* the requests in progress
  crowded    \* history: who had rooms counted while another one of his was on its way

creationVars == <<banned, created, creating, crowded>>

NoRoom == [recent |-> FALSE]
NoRequest == [at |-> "none"]

Exists(code) == created[code] # NoRoom
\* The rooms of a user that an hour has not passed over.
RecentOf(u) == { code \in RoomCodes :
                   Exists(code) /\ created[code].ownerUserId = u /\ created[code].recent }

CreationInit ==
  /\ banned = {}
  /\ created = [code \in RoomCodes |-> NoRoom]
  /\ creating = [c \in Creations |-> NoRequest]
  /\ crowded = {}

AtStep(c, step) == creating[c].at = step
Continues(c, step) == creating' = [creating EXCEPT ![c].at = step]
Ends(c) == creating' = [creating EXCEPT ![c] = NoRequest]

\* Requests that have counted the rooms and not yet added theirs.
OnItsWay(c) == creating[c].at \in {"log", "chips", "note", "code", "insert"}

-----------------------------------------------------------------------------
CanUsePractice(u) == u \notin banned

\* Blinds out of order are refused.
CreateRoom(c, u) ==
  /\ creating[c] = NoRequest
  /\ CanUsePractice(u)
  /\ creating' = [creating EXCEPT ![c] =
       [at |-> "count", userId |-> u, logged |-> FALSE]]
  /\ UNCHANGED <<banned, created, crowded>>

\* Faulty: the room that goes beyond the limit is not counted.
TooManyShort(c) == Cardinality(RecentOf(creating[c].userId)) > CreateLimit

\* writeCreateRoomRiskLogs: as many as allowed are there already.
TooMany(c) == Cardinality(RecentOf(creating[c].userId)) >= CreateLimit

CountRecent(c) ==
  /\ AtStep(c, "count")
  /\ Continues(c, IF TooMany(c) THEN "log" ELSE "chips")
  /\ crowded' = IF \E d \in Creations : OnItsWay(d) /\ creating[d].userId = creating[c].userId
                  THEN crowded \cup {creating[c].userId} ELSE crowded
  /\ UNCHANGED <<banned, created>>

LogFrequency(c) ==
  /\ AtStep(c, "log")
  /\ creating' = [creating EXCEPT ![c].at = "chips", ![c].logged = TRUE]
  /\ UNCHANGED <<banned, created, crowded>>

\* More chips than allowed are refused.
CheckChips(c) ==
  /\ AtStep(c, "chips")
  /\ Continues(c, "note") \/ Ends(c)
  /\ UNCHANGED <<banned, created, crowded>>

\* logSensitiveContent: logged or not, the note is accepted.
CheckNote(c) ==
  /\ AtStep(c, "note")
  /\ Continues(c, "code")
  /\ UNCHANGED <<banned, created, crowded>>

\* generateUniqueRoomCode: a code nobody has, or twenty that are taken.
FindCode(c) ==
  /\ AtStep(c, "code")
  /\ \/ \E code \in RoomCodes : ~Exists(code) /\
          creating' = [creating EXCEPT ![c] =
            [at |-> "insert", userId |-> creating[c].userId, logged |-> creating[c].logged,
             code |-> code]]
     \/ (\E code \in RoomCodes : Exists(code)) /\ Ends(c)
  /\ UNCHANGED <<banned, created, crowded>>

\* The code is unique in the table.  logged is a history field.
InsertRoom(c) ==
  /\ AtStep(c, "insert")
  /\ created' = IF Exists(creating[c].code) THEN created
                 ELSE [created EXCEPT ![creating[c].code] =
                   [ownerUserId |-> creating[c].userId, recent |-> TRUE,
                    logged |-> creating[c].logged]]
  /\ Ends(c)
  /\ UNCHANGED <<banned, crowded>>

\* A statement is refused, or the process stops: what was written stays.
CreationFails(c) ==
  /\ creating[c] # NoRequest
  /\ Ends(c)
  /\ UNCHANGED <<banned, created, crowded>>

HourPasses(code) ==
  /\ Exists(code) /\ created[code].recent
  /\ created' = [created EXCEPT ![code].recent = FALSE]
  /\ UNCHANGED <<banned, creating, crowded>>

SetUserStatus(u) ==
  /\ banned' = IF u \in banned THEN banned \ {u} ELSE banned \cup {u}
  /\ UNCHANGED <<created, creating, crowded>>

CreationNext ==
  \/ \E c \in Creations :
       \/ \E u \in Creators : CreateRoom(c, u)
       \/ CountRecent(c) \/ LogFrequency(c) \/ CheckChips(c) \/ CheckNote(c)
       \/ FindCode(c) \/ InsertRoom(c) \/ CreationFails(c)
  \/ \E code \in RoomCodes : HourPasses(code)
  \/ \E u \in Creators : SetUserStatus(u)

-----------------------------------------------------------------------------
(* Properties *)

CreationRequest ==
  [at : {"count", "log", "chips", "note", "code"}, userId : Creators, logged : BOOLEAN]
    \cup [at : {"insert"}, userId : Creators, logged : BOOLEAN, code : RoomCodes]
RoomRow == [ownerUserId : Creators, recent : BOOLEAN, logged : BOOLEAN]

\* Every variable has its type.
CreationTypeOK ==
  /\ banned \subseteq Creators
  /\ created \in [RoomCodes -> RoomRow \cup {NoRoom}]
  /\ creating \in [Creations -> CreationRequest \cup {NoRequest}]
  /\ crowded \subseteq Creators

\* Within an hour nobody has created more rooms than the limit without a log, however
\* requests of others, failures and refusals interleave with his: the rooms are counted
\* several awaits before the new one is among them, and only requests of his own that
\* overlap may be counted short.
RoomsOverTheLimitAreLogged ==
  \A u \in Creators \ crowded :
    Cardinality({ code \in RecentOf(u) : ~created[code].logged }) <= CreateLimit
=============================================================================
