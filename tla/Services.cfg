SPECIFICATION Spec
CONSTANTS
    Unused = Unused
    MaxFaults = 1
    Messages <- Copies
    Batches <- Mixes
    Events = {"e"}
    Recipients = {"u"}
    Legacy = {"e"}
    Destinations = {d1, d2}
    Handlers = {h1, h2}
    Requests = {"q"}
    DeliveryLimit = 1
    Tabs = {tab1, tab2}
    NoTab = NoTab
    MaxRotations = 4
    MaxLost = 2
    MaxEdits = 2
    MaxTitles = 1
    Turns = {1, 2, 3}
    Users = {"u", "v"}
    UserOf <- TwoAndOne
    MaxConcurrent = 2
    MaxPerUser = 2
    UserLimit = 1
    WorkspaceLimit = 2
    Days = 2
    NoRow = NoRow
    OutboxBase = 1
    OutboxMax = 60
    OutboxRampCeiling = 60
    OutboxErrorCeiling = 8
    OutboxJitter = 2
    OutboxDelays = {1, 4, 30}
    RecoveryBase = 1
    RecoveryMax = 20
    RecoveryRampCeiling = 2
    RecoveryErrorCeiling = 1
    RecoveryJitter = 0
    DeliveryBase = 1
    DeliveryMax = 64
    DeliveryRampCeiling = 8
    DeliveryJitter = 2
    DeliveryDelays = {1, 5, 40}
SYMMETRY Symmetry
INVARIANTS
    AckedIsStored
    OneChannel
    ApisAgree
    NobodyIsLoggedOut
    OnlyTheInspectorCrosses
    SlotsAreTurns
    QuotaHolds
    NeverSleepsOverKnownWork
    ActiveRunKeepsTheBase
    SleepIsBounded
    WokenWorkerIsOnTime
PROPERTIES
    ReadStaysRead
CHECK_DEADLOCK FALSE
