SPECIFICATION Spec
CONSTANTS
    Users = {owner, friend}
    Owner = owner
    Temp = temp
    Guest = temp
    Amounts <- MCAmounts
    Requests = {r1, r2}
    MaxRows = 4
    OverlapRows = 3
    MaxPlayers = 2
    MaxVolume = 2
    MaxFaults = 1
    MaxRequests = 3
    Nicknames = {"ann"}
    WechatUser = "wx"
    Avatars = {a1, a2}
    NoAvatar = none
    LedgerRooms = {l1}
    Calls = {c1, c2}
    MaxCalls = 3
SYMMETRY Slots
CHECK_DEADLOCK FALSE
INVARIANTS
    NextHandFollowsALock
    ConfirmationsAreFresh
    ProfileIsTheSameEverywhere
PROPERTIES
    SettlementsSettle
    LastConfirmationLocks
    RecalculationRepairs
    LastConfirmationCounts
