SPECIFICATION EngineSpec
CONSTANTS
  Seats <- MCSeats
  SmallBlind = 1
  BigBlind = 2
  NoSeat = 0
  BuyIns = {1, 3}
  Ranks <- MCRanks
  Strengths = {}
  Table <- MCTable
  MaxInvested = 1
  MaxRank = 1
  Decks = {}
  TableSizes = {}
  Typed = {}
INVARIANTS
  ShowdownPaysThePot
CHECK_DEADLOCK FALSE
