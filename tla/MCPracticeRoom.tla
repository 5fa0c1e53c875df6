--------------------------- MODULE MCPracticeRoom ---------------------------
(* One room with three users and two requests at once; or two of the users    *)
(* creating rooms.  Requests are interchangeable, and so are the users who do *)
(* not own the room.                                                          *)
EXTENDS PracticeLobby, TLC

CONSTANTS h1, h2, ann, bob, cleo

MCSymmetry == Permutations({h1, h2}) \cup Permutations({bob, cleo})
=============================================================================
