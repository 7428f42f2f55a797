SPECIFICATION Spec
CONSTANTS
    Workers = {w1, w2, "w3"}
    Process <- TwoProcesses
    Definition <- Single
    Root = "r"
    SideEffecting = {"b"}
    Keyed = {}
    MaxAttempts = 2
    MaxRecoveries = 1
    MaxConcurrent = 4
    Nobody = "nobody"
    Faults = {"crash", "expiry", "shutdown", "heartbeat", "throw"}
SYMMETRY Siblings
INVARIANTS
    AtMostOneEffect
    RowsTellTheEffects
    OneWriter
    HolderSeesTheRows
PROPERTIES
    FinishedIsFinal
CHECK_DEADLOCK FALSE
