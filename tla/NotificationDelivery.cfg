SPECIFICATION Spec
CONSTANTS
    Workers = {"w1", "w2"}
    Rows = {"r1", "r2"}
    Ticketed = {"r1"}
    MaxAttempts = 2
    MaxFaults = 2
    Nobody = "nobody"
INVARIANTS
    TypeOK
    AcceptedOncePerReason
    SendsAreBounded
PROPERTIES
    StaleResultsChangeNothing
    EveryDeliverySettles
CHECK_DEADLOCK FALSE
