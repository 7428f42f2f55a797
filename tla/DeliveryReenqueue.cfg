SPECIFICATION Spec
CONSTANTS
    Publishers = {p1}
    Workers = {w1}
    Scanners = {c1}
    Slots = {s1, s2}
    MaxAttempts = 2
    MaxRedeliveries = 1
    MaxRecoveries = 1
    MaxMessages = 3
    MaxCounted = 2
    MaxFaults = 0
    Nobody = Nobody
    Forgotten = Forgotten
INVARIANTS ReenqueueIsCapped
CHECK_DEADLOCK FALSE
