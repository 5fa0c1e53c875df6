SPECIFICATION Spec
CONSTANTS
  MaxPages = 2
  MaxCalls = 2
  MaxMoves = 2
  MaxVisits = 2
  MaxTrouble = 1
  Rooms = {"A", "B"}
  MaxLedgerPages = 2
  MaxLedgerCalls = 2
  MaxHands = 2
  MaxEntrances = 2
  MaxLedgerTrouble = 1
CHECK_DEADLOCK FALSE
INVARIANT ClosedPagesAreQuiet
PROPERTIES ActionsAnswerTheTurnShown AmountsGoToTheirHand PagesCatchUp
