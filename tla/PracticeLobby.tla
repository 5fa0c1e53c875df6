---------------------------- MODULE PracticeLobby ----------------------------
(***************************************************************************)
(* The practice rooms: how many of them a user creates, and the lobby of   *)
(* one of them from its creation on.  Creating another room touches no row *)
(* of this one, so a run of the server examines one of the two.            *)
(***************************************************************************)
EXTENDS PracticeRoom, RoomCreation

VARIABLE part  \* what is examined

lobbyVars == <<vars, creationVars, part>>

LobbyInit == Init /\ CreationInit /\ part \in {"room", "rooms"}

UsesTheRoom == part = "room" /\ Next /\ UNCHANGED <<creationVars, part>>
CreatesRooms == part = "rooms" /\ CreationNext /\ UNCHANGED <<vars, part>>
LobbyNext == UsesTheRoom \/ CreatesRooms

LobbySpec == LobbyInit /\ [][LobbyNext]_lobbyVars
=============================================================================
