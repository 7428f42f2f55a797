\* In units of 30 seconds, the defaults.
SPECIFICATION Spec
CONSTANTS
    Base = 1
    Max = 20
    RampCeiling = 2
    ErrorCeiling = 1
    Jitter = 0
INVARIANTS ActiveRunIsNeverSleptOver
