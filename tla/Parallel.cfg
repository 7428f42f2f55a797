SPECIFICATION Spec
CONSTANTS
    Workers = {"w1"}
    Process <- OneProcess
    Definition <- Branch
    Root = "r"
    SideEffecting = {"b", "d"}
    Keyed = {"b"}
    MaxAttempts = 2
    MaxRecoveries = 1
    MaxConcurrent = 2
    Nobody = "nobody"
    Faults = {"crash", "expiry", "shutdown", "throw"}
INVARIANTS
    TypeOK
    RowsNeverContradict
    FinishedRunsAreSettled
    OneNoticePerResult
    OneRoutePerDecision
PROPERTIES
    HistoryIsKept
    LifecycleSpec
    RunEndsOrSpins
CHECK_DEADLOCK FALSE
