---------------------------- MODULE MCMiniProgram ----------------------------
(* Two pages at once and two requests under way, a room that changes twice, *)
(* two team ledger rooms with up to two hands each.                          *)
EXTENDS MiniProgram, TLC
=============================================================================
