SPECIFICATION Spec
CONSTANTS
    Workers = {"w1"}
    Process <- OneProcess
    Definition <- Fork
    Root = "r"
    SideEffecting = {}
    Keyed = {}
    MaxAttempts = 2
    MaxRecoveries = 1
    MaxConcurrent = 2
    Nobody = "nobody"
    Faults = {}
PROPERTY
    StoppedRunEnds
CHECK_DEADLOCK FALSE
