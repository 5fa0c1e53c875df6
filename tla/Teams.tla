------------------------------- MODULE Teams -------------------------------
(***************************************************************************)
(* The team a game is kept in (teams.service.ts): who may see the game and *)
(* answer for it.  A membership is written over, never taken away.         *)
(***************************************************************************)
EXTENDS LedgerRequests

VARIABLE members  \* the role of each user, "none" without a row

TeamRole == {"OWNER", "ADMIN", "MEMBER"}

AssertMember(u) == members[u] # "none"
AssertAdmin(u) == members[u] \in {"OWNER", "ADMIN"}

\* Of the creator of a game: no team, one he created or one he was added to.
CreateTeam ==
    \/ members = [u \in Users |-> "none"]
    \/ members = [u \in Users |-> IF u = Owner THEN "OWNER" ELSE "none"]
    \/ members = [u \in Users |-> IF u = Owner THEN "MEMBER" ELSE "OWNER"]

\* The operator's role is looked up first; the row is then written whatever role it had.
AddMember(u, role) == [op |-> "member", user |-> u, role |-> role]
UpsertMember(r) ==
    /\ req[r].op = "member"
    /\ members' = [members EXCEPT ![req[r].user] = req[r].role]
=============================================================================
