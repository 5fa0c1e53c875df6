SPECIFICATION Spec
CONSTANTS
    Users = {owner, friend}
    Owner = owner
    Temp = temp
    Guest = temp
    Amounts <- MCAmounts
    Requests = {r1}
    MaxRows = 3
    OverlapRows = 0
    MaxPlayers = 1
    MaxVolume = 1
    MaxFaults = 0
    MaxRequests = 1
    Nicknames = {"ann"}
    WechatUser = "wx"
    Avatars = {a1, a2}
    NoAvatar = none
    LedgerRooms = {l1}
    Calls = {c1}
    MaxCalls = 0
CHECK_DEADLOCK FALSE
PROPERTIES
    ConfirmedHandsLock
