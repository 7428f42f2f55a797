SPECIFICATION Spec
CONSTANTS
    Workers = {"w1"}
    Process <- OneProcess
    Definition <- Fork3
    Root = "r"
    SideEffecting = {}
    Keyed = {}
    MaxAttempts = 2
    MaxRecoveries = 2
    MaxConcurrent = 2
    Nobody = "nobody"
    Faults = {}
INVARIANT
    RecoveriesNeedAFault
CHECK_DEADLOCK FALSE
