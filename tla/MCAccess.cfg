SPECIFICATION FairSpec
CONSTANTS
    Admins = {root, second}
    Bootstrap = root
    Users = {player}
    Keys = {secret, blinds}
    HighRisk = {secret}
    Requests = {r1, r2}
    MaxChanges = 3
    MaxFaults = 1
    Askers = {1, 2}
    MaxTrouble = 2
    Editors = {root, second}
    SuperEditors = {root}
    Calls = {c1, c2}
    Settings = {"JWT_SECRET", "defaultBlinds"}
    Secrets = {"JWT_SECRET"}
    Typings = {"50/100"}
    MaxEdits = 1
CHECK_DEADLOCK FALSE
INVARIANTS
    OnlyARaceRemovesTheLast
    ChangesAreAudited
PROPERTIES
    OutcastsRunOut
    RetriesCarryAGoodToken
    SessionsRecover
    SavesKeepTheRest
