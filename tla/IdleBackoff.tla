----------------------------- MODULE IdleBackoff -----------------------------
(***************************************************************************)
(* IdleBackoff: how long a poller of the workflow-service sleeps between   *)
(* two polls of the database. A backoff is the current delay and the time  *)
(* left until the next poll; wall is the wall clock modulo Max, which is   *)
(* all that the aligned wake looks at. Time has any unit, the same for all *)
(* constants.                                                              *)
(***************************************************************************)
EXTENDS Integers

CONSTANTS
    Base,          \* the tick of the scheduler
    Max,           \* idle-max-delay
    RampCeiling,   \* RAMP_CEILING_MILLIS (60 s)
    ErrorCeiling,  \* ERROR_RAMP_CEILING_MILLIS (32 s)
    Jitter         \* the poller's jitter, at most MAX_JITTER_MILLIS (2 s)

BackoffAssumption ==
    /\ {Base, Max, RampCeiling, ErrorCeiling} \subseteq Nat \ {0}
    /\ Jitter \in Nat
    /\ Base <= Max

Larger(a, b)  == IF a >= b THEN a ELSE b
Smaller(a, b) == IF a <= b THEN a ELSE b

Backoffs == [delay : Nat, left : Nat]

ShouldPoll(b) == b.left = 0

Awake == [delay |-> Base, left |-> 0]

NeverSleeps == Max <= Base

FullCapDefect(wall) ==
    ((wall + Max + Max - 1) \div Max) * Max - wall + Jitter

(* The first multiple of Max at least Max / 2 away: ceilDiv and back.      *)
AlignedDelay(wall) ==
    LET earliest == wall + Max \div 2
        aligned  == ((earliest + Max - 1) \div Max) * Max
    IN  aligned - wall + Jitter

(* record(): an empty poll doubles the wait; when that would leave the     *)
(* ramp, the poller sleeps until the aligned wake.                         *)
Record(b, foundWork, wall) ==
    LET ramping == 2 * b.delay < Max /\ 2 * b.delay <= RampCeiling
    IN  IF foundWork THEN Awake
        ELSE IF NeverSleeps THEN [b EXCEPT !.left = Base]
        ELSE IF ramping THEN [delay |-> 2 * b.delay, left |-> 2 * b.delay]
        ELSE [delay |-> Max, left |-> AlignedDelay(wall)]

(* recordIdle() without a due time, and with one.                          *)
RecordIdle(b, wall) ==
    IF NeverSleeps THEN [b EXCEPT !.left = Base]
    ELSE [delay |-> Max, left |-> AlignedDelay(wall)]

RecordIdleUntil(b, wall, due) ==
    IF NeverSleeps THEN [b EXCEPT !.left = Base]
    ELSE [delay |-> Max, left |-> Smaller(AlignedDelay(wall), Larger(due, Base))]

(* recordError(): from the base interval, doubling up to the ceiling, also *)
(* after an aligned sleep.                                                 *)
RecordError(b) ==
    LET ceiling == Larger(Base, ErrorCeiling)
        delay   == IF b.delay > ceiling THEN Base ELSE b.delay
    IN  [delay |-> Smaller(2 * delay, ceiling), left |-> delay]

TimeLeft(b, passed) == [b EXCEPT !.left = Larger(@ - passed, 0)]
=============================================================================
