SPECIFICATION EngineSpec
CONSTANTS
  Seats <- MCSeats
  SmallBlind = 1
  BigBlind = 2
  NoSeat = 0
  BuyIns <- MCSmallStacks
  Ranks <- MCRanks
  Strengths <- MCStrengths
  Table <- MCTable
  MaxInvested = 3
  MaxRank = 3
  Decks <- MCDecks
  TableSizes <- MCTableSizes
  Typed <- MCTyped
INVARIANTS
  TurnIsPlayable
  ChipsAccounted
  FinishedStreetsAreSquare
  OffersAreAccepted
  DecisionsAreAccepted
  ReplaysAddUp
  StatisticsCountTheHand
  ReplaysShowTheShowdown
  SeatsAreReadable
  BestCardsWin
  BetterHandsTakeTheirStakes
PROPERTIES
  HandsFinish
CHECK_DEADLOCK FALSE
