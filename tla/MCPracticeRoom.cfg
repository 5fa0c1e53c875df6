SPECIFICATION LobbySpec
CONSTANTS
  h1 = h1
  h2 = h2
  ann = ann
  bob = bob
  cleo = cleo
  Users = {ann, bob, cleo}
  Owner = ann
  PlayerCount = 3
  Stacks = {2}
  DefaultStack = 1
  Nobody = Nobody
  Slots = {h1, h2}
  MaxFaults = 1
  Creators = {bob, cleo}
  RoomCodes = {c1, c2, c3}
  Creations = {h1, h2}
  CreateLimit = 1
SYMMETRY MCSymmetry
INVARIANTS
  NobodySitsTwice
  DealtStacksWereConfirmed
  EveryMemberIsDealtIn
  RoomsOverTheLimitAreLogged
CHECK_DEADLOCK FALSE
