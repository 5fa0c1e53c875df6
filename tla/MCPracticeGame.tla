--------------------------- MODULE MCPracticeGame ---------------------------
(* PracticeGame heads-up: seat 1 is the owner, seat 2 a bot.                 *)
EXTENDS PracticeGame

CONSTANTS h1, h2

MCSeats == 1..2
MCStacks == <<3, 3>>
MCSlots == {h1, h2}
=============================================================================
