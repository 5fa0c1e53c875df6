SPECIFICATION LiveSpec
CONSTANTS
  h1 = h1
  h2 = h2
  Seats <- MCSeats
  SmallBlind = 1
  BigBlind = 2
  NoSeat = 0
  BotSeats = {2}
  BuyIn <- MCStacks
  Ranks = {1}
  BotActionMax = 300
  Slots <- MCSlots
  MaxHands = 2
  MaxTrouble = 1
INVARIANTS
  ActionsAreRecorded
  FinishedTablesAreBooked
  NoChipsAppear
  BooksAgree
  EndedRoomsHaveNoTable
PROPERTIES
  TableFollowsTheRules
  BotsMoveOn
CHECK_DEADLOCK FALSE
