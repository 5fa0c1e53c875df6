--------------------------- MODULE LedgerRequests ---------------------------
(* Requests to the ledgers: each is the statements it still has to run, with *)
(* what it read before them.                                                 *)
EXTENDS Integers

CONSTANTS
    Users,     \* the registered users
    Owner,     \* the one who created the room or the game
    Requests   \* how many requests the server handles at once, as slots

ASSUME OwnerAssumption == Owner \in Users

VARIABLE req   \* what each request is about to do

Idle == [op |-> "idle"]
Busy == {r \in Requests : req[r] # Idle}
=============================================================================
