----------------------------- MODULE MiniProgram -----------------------------
(***************************************************************************)
(* The mini program: the practice pages of one room, which is a room of    *)
(* friends or one with bots, or the team ledger page.  The two share the   *)
(* session and nothing else, so a visit of either is examined by itself.   *)
(***************************************************************************)
EXTENDS TablePages, LedgerPage

VARIABLE part  \* what the user came for

miniVars == <<tableVars, ledgerVars, part>>

Parts == {"friends", "bots", "ledger"}

\* Whether the room was being played matters to those who visit it.
Init ==
    /\ TableInit /\ LedgerInit
    /\ part \in Parts /\ (part = "ledger" => server.room = "waiting")

Practices ==
    /\ part # "ledger"
    /\ \/ part = "friends" /\ OpenPage("room")
       \/ part = "bots" /\ OpenPage("solo")
       \/ TableStep
    /\ UNCHANGED <<ledgerVars, part>>

KeepsTheLedger ==
    /\ part = "ledger"
    /\ LedgerNext
    /\ UNCHANGED <<tableVars, part>>

Next == Practices \/ KeepsTheLedger

Spec == Init /\ [][Next]_miniVars /\ TableFairness /\ LedgerFairness

----------------------------------------------------------------------------
(* Properties *)

\* The pages' state is well-formed.
TypeOK == TableTypeOK /\ LedgerTypeOK /\ part \in Parts

\* A page left open catches up with what the others do: TableIsCurrent, LedgerIsCurrent.
PagesCatchUp == <>[](TableIsWatched \/ LedgerIsWatched) => <>[](TableIsCurrent /\ LedgerIsCurrent)
=============================================================================
