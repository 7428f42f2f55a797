--------------------------- MODULE RecoveryPolling ---------------------------
(***************************************************************************)
(* When ExecutionRecoveryScanner looks for stranded runs: the tick of its  *)
(* scheduler (recoverOnSchedule), the backoff, and the generation of       *)
(* ActivitySignal that an admission of this instance bumps. What a scan    *)
(* does is JobDelivery; here a run is in flight or not.                    *)
(***************************************************************************)
EXTENDS IdleBackoff

VARIABLES
    backoff,
    wall,      \* wall clock modulo Max
    pc,        \* the scheduler thread
    active,    \* a run is QUEUED or RUNNING
    seen,      \* the scanner was told of the active run, or has found it
    raising,   \* an admission has committed and its afterCommit is still to come
    unseen,    \* generation() differs from seenActivity
    failed     \* scans have failed since the last one that did not

vars == <<backoff, wall, pc, active, seen, raising, unseen, failed>>

Init ==
    /\ backoff = Awake
    /\ wall \in {t \in 0 .. Max - 1 : t % Base = 0}
    /\ pc = "due"
    /\ active \in BOOLEAN
    /\ seen = FALSE
    /\ raising = FALSE
    /\ unseen = FALSE
    /\ failed = FALSE

AdmitHere ==
    /\ ~active /\ ~raising
    /\ active' = TRUE
    /\ raising' = TRUE
    /\ UNCHANGED <<backoff, wall, pc, seen, unseen, failed>>

RaiseActivity ==
    /\ raising
    /\ raising' = FALSE
    /\ unseen' = TRUE
    /\ UNCHANGED <<backoff, wall, pc, active, seen, failed>>

AdmitElsewhere ==
    /\ ~active /\ ~raising
    /\ active' = TRUE
    /\ UNCHANGED <<backoff, wall, pc, seen, raising, unseen, failed>>

RunEnds ==
    /\ active
    /\ active' = FALSE
    /\ seen' = FALSE
    /\ UNCHANGED <<backoff, wall, pc, raising, unseen, failed>>

(* activityChanged(), wake(), shouldPoll().                                *)
Woken == IF unseen THEN Awake ELSE backoff

DeafDefect ==
    /\ pc = "due"
    /\ unseen' = FALSE
    /\ seen' = (seen \/ (unseen /\ active))
    /\ backoff' = backoff
    /\ pc' = IF ShouldPoll(backoff) THEN "scan" ELSE "slept"
    /\ UNCHANGED <<wall, active, raising, failed>>

Tick ==
    /\ pc = "due"
    /\ unseen' = FALSE
    /\ seen' = (seen \/ (unseen /\ active))
    /\ backoff' = Woken
    /\ pc' = IF ShouldPoll(Woken) THEN "scan" ELSE "slept"
    /\ UNCHANGED <<wall, active, raising, failed>>

(* A scan that enqueues, or hasActiveExecutions, is busy.                  *)
Scan ==
    /\ pc = "scan"
    /\ backoff' = Record(backoff, active, wall)
    /\ seen' = active
    /\ failed' = FALSE
    /\ pc' = "slept"
    /\ UNCHANGED <<wall, active, raising, unseen>>

(* The finally block records a scan that threw as one that found nothing.  *)
ScanFails ==
    /\ pc = "scan"
    /\ failed' = TRUE
    /\ backoff' = Record(backoff, FALSE, wall)
    /\ pc' = "slept"
    /\ UNCHANGED <<wall, active, seen, raising, unseen>>

TimePasses ==
    /\ pc = "slept"
    /\ pc' = "due"
    /\ wall' = (wall + Base) % Max
    /\ backoff' = TimeLeft(backoff, Base)
    /\ UNCHANGED <<active, seen, raising, unseen, failed>>

Next ==
    \/ AdmitHere \/ RaiseActivity \/ AdmitElsewhere \/ RunEnds
    \/ Tick \/ Scan \/ ScanFails \/ TimePasses

Spec == Init /\ [][Next]_vars

-----------------------------------------------------------------------------
(* As long as a run the scanner was told of or has found is in flight, and *)
(* its scans do not fail, it scans at every tick: an admission committed   *)
(* between the steps of a tick or during a sleep is never missed.          *)
ActiveRunKeepsTheBase ==
    pc = "slept" /\ active /\ seen /\ ~unseen /\ ~failed => backoff.left <= Base

(* "Any active run keeps it at the base interval" (Execution-              *)
(* RecoveryScanner 16); at the very least the scanner does not take the    *)
(* aligned sleep of minutes while it knows of one.                         *)
ActiveRunIsNeverSleptOver == active /\ seen => backoff.left <= RampCeiling

(* A run admitted by another instance, which raises no signal here, is     *)
(* looked for after at most one and a half times the maximum.              *)
SleepIsBounded == backoff.left <= Max + Max \div 2 + Jitter
=============================================================================
