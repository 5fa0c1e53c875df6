------------------------------ MODULE MCAccess ------------------------------
(* The bootstrap administrator, a second one and one user; a mini program with two  *)
(* requests under way beside a login of its own and one of a page; and the settings *)
(* in the forms of a super administrator and of another one, who have two requests  *)
(* under way.                                                                       *)
EXTENDS Access, TLC

Slots == Permutations(Requests)
=============================================================================
