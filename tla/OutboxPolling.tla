---------------------------- MODULE OutboxPolling ----------------------------
(***************************************************************************)
(* When ExecutionOutboxPublisher looks at the outbox: the tick of its      *)
(* scheduler (publishPendingOnSchedule), the backoff, and the signal       *)
(* (OutboxWakeup) that a transaction of this instance raises after it      *)
(* committed a row. What a poll does with the rows is JobDelivery; here    *)
(* one row is followed, and how long it is until it can be claimed.        *)
(*                                                                         *)
(* A poll takes no time, but commits fall between its steps. Time passes   *)
(* one Base at a time, after the tick.                                     *)
(***************************************************************************)
EXTENDS IdleBackoff

CONSTANTS
    Delays,    \* retry delays and leases, after which a row can be claimed again
    NoRow

PollingAssumption == BackoffAssumption /\ Delays \subseteq Nat \ {0} /\ NoRow \notin Nat

VARIABLES
    backoff,
    wall,      \* wall clock modulo Max
    pc,        \* the scheduler thread
    row,       \* NoRow, or the time until the PENDING row can be claimed
    known,     \* this instance raised its signal for the row, or read its due time
    raising,   \* a transaction has committed and its afterCommit is still to come
    signal     \* OutboxWakeup.pending

vars == <<backoff, wall, pc, row, known, raising, signal>>

Init ==
    /\ backoff = Awake
    /\ wall \in {t \in 0 .. Max - 1 : t % Base = 0}
    /\ pc = "due"
    /\ row = NoRow
    /\ known = FALSE
    /\ raising = FALSE
    /\ signal = FALSE

(* An admission, or a scan, of this instance; the callback comes later.    *)
CommitHere ==
    /\ row = NoRow /\ ~raising
    /\ row' = 0
    /\ known' = FALSE
    /\ raising' = TRUE
    /\ UNCHANGED <<backoff, wall, pc, signal>>

RaiseSignal ==
    /\ raising
    /\ raising' = FALSE
    /\ signal' = TRUE
    /\ known' = (row # NoRow)
    /\ UNCHANGED <<backoff, wall, pc, row>>

CommitElsewhere ==
    /\ row = NoRow /\ ~raising
    /\ row' = 0
    /\ known' = FALSE
    /\ UNCHANGED <<backoff, wall, pc, raising, signal>>

(* consume(), wake(), shouldPoll().                                        *)
Woken == IF signal THEN Awake ELSE backoff

Tick ==
    /\ pc = "due"
    /\ signal' = FALSE
    /\ backoff' = Woken
    /\ pc' = IF ShouldPoll(Woken) THEN "poll" ELSE "slept"
    /\ UNCHANGED <<wall, row, known, raising>>

(* publishPending: a claimable row is published, or is rescheduled; any    *)
(* other poll finds nothing.                                               *)
PollPublishes ==
    /\ pc = "poll"
    /\ row = 0
    /\ row' = NoRow
    /\ known' = FALSE
    /\ backoff' = Record(backoff, TRUE, wall)
    /\ pc' = "slept"
    /\ UNCHANGED <<wall, raising, signal>>

PollReschedules ==
    /\ pc = "poll"
    /\ row = 0
    /\ row' \in Delays
    /\ known' = FALSE
    /\ pc' = "idle"
    /\ UNCHANGED <<backoff, wall, raising, signal>>

PollFindsNothing ==
    /\ pc = "poll"
    /\ row # 0
    /\ pc' = "idle"
    /\ UNCHANGED <<backoff, wall, row, known, raising, signal>>

(* The poll fails, before or after it claimed the row.                     *)
PollFails ==
    /\ pc = "poll"
    /\ row' \in {row} \union (IF row = 0 THEN Delays ELSE {})
    /\ backoff' = RecordError(backoff)
    /\ pc' = "slept"
    /\ UNCHANGED <<wall, known, raising, signal>>

UnawareDefect ==
    /\ pc = "idle"
    /\ backoff' = RecordIdle(backoff, wall)
    /\ known' = (row # NoRow)
    /\ pc' = "slept"
    /\ UNCHANGED <<wall, row, raising, signal>>

(* recordIdle, with a look at the earliest due time.                       *)
LookUpDue ==
    /\ pc = "idle"
    /\ backoff' = IF row = NoRow THEN RecordIdle(backoff, wall) ELSE RecordIdleUntil(backoff, wall, row)
    /\ known' = (row # NoRow)
    /\ pc' = "slept"
    /\ UNCHANGED <<wall, row, raising, signal>>

LookUpFails ==
    /\ pc = "idle"
    /\ backoff' = RecordError(backoff)
    /\ pc' = "slept"
    /\ UNCHANGED <<wall, row, known, raising, signal>>

TimePasses ==
    /\ pc = "slept"
    /\ pc' = "due"
    /\ wall' = (wall + Base) % Max
    /\ backoff' = TimeLeft(backoff, Base)
    /\ row' = IF row = NoRow THEN NoRow ELSE Larger(row - Base, 0)
    /\ UNCHANGED <<known, raising, signal>>

Next ==
    \/ CommitHere \/ RaiseSignal \/ CommitElsewhere
    \/ Tick \/ PollPublishes \/ PollReschedules \/ PollFindsNothing \/ PollFails
    \/ LookUpDue \/ LookUpFails
    \/ TimePasses

Spec == Init /\ [][Next]_vars

-----------------------------------------------------------------------------
(* No sleep over known work: once this instance was signalled about the    *)
(* row, or read when it is due, its publisher sleeps no longer than until  *)
(* then, or than the longest retry after errors. Whatever polls fail, and  *)
(* whenever rows are committed around the steps of a poll, a known row     *)
(* never waits for the aligned wake, minutes away.                         *)
NeverSleepsOverKnownWork ==
    pc = "slept" /\ row # NoRow /\ known /\ ~signal =>
        backoff.left <= Larger(row, Larger(Base, ErrorCeiling))
=============================================================================
