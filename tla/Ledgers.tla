------------------------------ MODULE Ledgers ------------------------------
(***************************************************************************)
(* The books of games played elsewhere: a room of the team ledger, a game  *)
(* of the personal and team books, and what a player is called in them.    *)
(* They share no rows but the names, and only Profiles has steps for       *)
(* these, so a run of the server examines one of the three.                *)
(***************************************************************************)
EXTENDS TeamLedger, LedgerGames, Profiles

VARIABLE part  \* what is examined

ledgersVars == <<roomVars, gameVars, req, profilesVars, part>>

\* The other parts stay as they were created.
NoGame == players = <<>> /\ members = [u \in Users |-> "none"]
Init ==
    /\ RoomInit /\ GameInit /\ ProfilesInit
    /\ part \in {"room", "game", "profile"} /\ (part # "game" => NoGame)

KeepsARoom == part = "room" /\ RoomNext /\ UNCHANGED <<gameVars, profilesVars, part>>
KeepsAGame == part = "game" /\ GameNext /\ UNCHANGED <<roomVars, profilesVars, part>>
KeepsAName == part = "profile" /\ ProfilesNext /\ UNCHANGED <<roomVars, gameVars, req, part>>
Next == KeepsARoom \/ KeepsAGame \/ KeepsAName

Spec == Init /\ [][Next]_ledgersVars

TypeOK == RoomTypeOK /\ GameTypeOK /\ ProfilesTypeOK
=============================================================================
