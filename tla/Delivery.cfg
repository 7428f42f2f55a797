SPECIFICATION FairSpec
CONSTANTS
    Publishers = {p1, p2}
    Workers = {w1}
    Scanners = {c1}
    Slots = {s1, s2}
    MaxAttempts = 2
    MaxRedeliveries = 1
    MaxRecoveries = 1
    MaxMessages = 1
    MaxCounted = 0
    MaxFaults = 2
    Nobody = Nobody
    Forgotten = Forgotten
INVARIANTS TypeOK JobOnItsWay SentOncePerFault
PROPERTIES LateAnswersChangeNothing DispatchSpec FinishedRunGoesQuiet
CHECK_DEADLOCK FALSE
