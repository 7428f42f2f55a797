----------------------------- MODULE JobDelivery -----------------------------
(***************************************************************************)
(* How one admitted workflow run reaches a worker, and reaches one again   *)
(* when a worker is lost: the outbox rows of the run, the publishers that  *)
(* send them, the RabbitMQ queues, the listener threads that take a job    *)
(* and the recovery scanners that write a new row for a stranded run.      *)
(*                                                                         *)
(* Every transaction is one step, except the scan, whose row lock other    *)
(* transactions meet. Time is not counted: a lease, a delay, an age or a   *)
(* cooldown runs out at some moment. A message carries the run's id and    *)
(* the x-workflow-redelivery-count header, here the number k.              *)
(*                                                                         *)
(* What a worker does with the run is ExecutionRun; here it ends it or     *)
(* does not. Each thread crashes on its own, which includes the crash of a *)
(* process. Steps that need something to go wrong take from a budget of    *)
(* MaxFaults. Operators named ...Defect are mistakes the code does not     *)
(* make, each put in place of the definition after it in one run.          *)
(***************************************************************************)
EXTENDS Naturals, FiniteSets

CONSTANTS
    Publishers,       \* instances of ExecutionOutboxPublisher
    Workers,          \* consumer threads of ExecutionJobListener
    Scanners,         \* instances of ExecutionRecoveryScanner
    Slots,            \* places for outbox rows of the run that a query still reads
    MaxAttempts,      \* weav.workflow.execution-outbox.max-attempts (10)
    MaxRedeliveries,  \* worker.max-transient-redeliveries (3)
    MaxRecoveries,    \* weav.workflow.execution.max-recoveries (5)
    MaxMessages,      \* bound: copies of the job in one queue
    MaxCounted,       \* bound: how far the rows of the scanners are counted
    MaxFaults,        \* bound: failures in one behaviour
    Nobody,           \* no lease
    Forgotten         \* a lease token no publisher remembers

ASSUME DeliveryAssumption ==
    /\ IsFiniteSet(Publishers)
    /\ MaxAttempts \in Nat \ {0}
    /\ MaxRedeliveries \in Nat
    /\ MaxRecoveries \in Nat
    /\ MaxMessages \in Nat \ {0}
    /\ MaxFaults \in Nat
    /\ MaxCounted \in Nat
    /\ Nobody \notin Publishers \union Workers
    /\ Forgotten \notin Publishers \union {Nobody}

VARIABLES
    run,        \* the workflow_executions row
    events,     \* its outbox_events rows
    round,      \* per publisher: the batch it is sending and settling
    queue,      \* workflow.executions.v1: ready messages by redelivery count
    retryQueue, \* workflow.executions.v1.retry
    worker,     \* per listener thread: where onMessage is, and its message
    scan,       \* per scanner: where enqueueRecoverable is
    faults,     \* failures so far
    stranded,   \* the run lost a message or row that nothing replaced
    accepted,   \* per row: how often the broker accepted it
    enqueued    \* rows the scanners wrote while the run was QUEUED

vars == <<run, events, round, queue, retryQueue, worker, scan, faults, stranded, accepted, enqueued>>

-----------------------------------------------------------------------------
Counts  == 0 .. MaxRedeliveries

Row == [status  : {"ABSENT", "PENDING", "PUBLISHED", "FAILED"},
        holder  : Publishers \union {Nobody, Forgotten},  \* publisher_lease_token
        expired : BOOLEAN,                                \* publisher_lease_until has passed
        due     : BOOLEAN,                                \* next_attempt_at has passed
        retries : 0 .. MaxAttempts,
        recent  : BOOLEAN]                                \* younger than the cooldown

Absent == [status |-> "ABSENT", holder |-> Nobody, expired |-> FALSE, due |-> FALSE,
           retries |-> 0, recent |-> FALSE]

Fresh == [Absent EXCEPT !.status = "PENDING", !.due = TRUE, !.recent = TRUE]

(* What became of a message sent: the broker queued it, refused it (a nack *)
(* or a return), or there will be no answer.                               *)
Answers == {"none", "accepted", "refused", "lost"}

NoRound == [todo |-> {}, answer |-> [s \in Slots |-> "none"]]

Awaited(p) == {s \in Slots : round[p].answer[s] # "none"}

AtRest(p) == round[p].todo = {} /\ Awaited(p) = {}

NoQueue == [k \in Counts |-> 0]

Add(q, k)  == [q EXCEPT ![k] = @ + 1]
Drop(q, k) == [q EXCEPT ![k] = @ - 1]

Idle == [pc |-> "idle", k |-> 0, unacked |-> FALSE]

Fault == faults < MaxFaults /\ faults' = faults + 1

Init ==
    /\ run = [status |-> "QUEUED", holder |-> Nobody, recoveries |-> 0, aged |-> FALSE]
    /\ \E s \in Slots : events = [t \in Slots |-> IF t = s THEN Fresh ELSE Absent]
    /\ round = [p \in Publishers |-> NoRound]
    /\ queue = NoQueue
    /\ retryQueue = NoQueue
    /\ worker = [w \in Workers |-> Idle]
    /\ scan = [c \in Scanners |-> "idle"]
    /\ faults = 0
    /\ stranded = FALSE
    /\ accepted = [s \in Slots |-> 0]
    /\ enqueued = 0

broker == <<queue, retryQueue>>
ghosts == <<stranded, accepted, enqueued>>

-----------------------------------------------------------------------------
(* The publisher: claim a batch, send every row, settle every answer.      *)

ClaimableRowDefect(s) == events[s].status = "PENDING" /\ events[s].due

ClaimableRow(s) ==
    /\ events[s].status = "PENDING"
    /\ events[s].due
    /\ events[s].holder = Nobody \/ events[s].expired

(* claimPending: each round draws a new token, so rows the publisher still *)
(* holds from an earlier round are held under one it has forgotten.        *)
ClaimPending(p) ==
    LET batch == {s \in Slots : ClaimableRow(s)}
    IN  /\ AtRest(p)
        /\ batch # {}
        /\ events' = [s \in Slots |->
              IF s \in batch THEN [events[s] EXCEPT !.holder = p, !.expired = FALSE]
              ELSE IF events[s].holder = p THEN [events[s] EXCEPT !.holder = Forgotten]
              ELSE events[s]]
        /\ round' = [round EXCEPT ![p].todo = batch]
        /\ UNCHANGED <<run, broker, worker, scan, faults, ghosts>>

HoldsDefect(p, s) == events[s].status = "PENDING"

Holds(p, s) == events[s].status = "PENDING" /\ events[s].holder = p

CountedTwiceDefect(row) ==
    [row EXCEPT !.status  = IF row.retries + 1 >= MaxAttempts THEN "FAILED" ELSE "PENDING",
                !.retries = row.retries + 2,
                !.holder  = Nobody, !.expired = FALSE, !.due = FALSE]

(* scheduleRetry, when the row is still the publisher's: the attempt       *)
(* counts, and the last one makes the row FAILED.                          *)
Retried(row) ==
    [row EXCEPT !.status  = IF row.retries + 1 >= MaxAttempts THEN "FAILED" ELSE "PENDING",
                !.retries = row.retries + 1,
                !.holder  = Nobody, !.expired = FALSE, !.due = FALSE]

ScheduleRetry(p, s) ==
    /\ events' = IF Holds(p, s) THEN [events EXCEPT ![s] = Retried(@)] ELSE events
    /\ stranded' = (stranded \/ (Holds(p, s) /\ events[s].retries + 1 >= MaxAttempts))

(* markPublished.                                                          *)
MarkPublished(p, s) ==
    events' = IF Holds(p, s)
              THEN [events EXCEPT ![s].status = "PUBLISHED", ![s].holder = Nobody,
                                  ![s].expired = FALSE]
              ELSE events

(* The answer is decided when the message is sent. A message the broker    *)
(* queues only after the publisher stopped waiting is one it queued        *)
(* before, whose answer came too late.                                     *)
Send(p, s) ==
    /\ s \in round[p].todo
    /\ queue[0] < MaxMessages
    /\ queue' = Add(queue, 0)
    /\ accepted' = [accepted EXCEPT ![s] = @ + 1]
    /\ round' = [round EXCEPT ![p].todo = @ \ {s}, ![p].answer[s] = "accepted"]
    /\ UNCHANGED <<run, events, retryQueue, worker, scan, faults, stranded, enqueued>>

SendInVain(p, s) ==
    /\ s \in round[p].todo
    /\ Fault
    /\ \E a \in {"refused", "lost"} :
          round' = [round EXCEPT ![p].todo = @ \ {s}, ![p].answer[s] = a]
    /\ UNCHANGED <<run, events, broker, worker, scan, ghosts>>

(* convertAndSend throws: rescheduled at once, nothing to await. That the  *)
(* retry cannot be recorded is swallowed, and the lease has to run out.    *)
SendThrows(p, s) ==
    /\ s \in round[p].todo
    /\ Fault
    /\ ScheduleRetry(p, s) \/ UNCHANGED <<events, stranded>>
    /\ round' = [round EXCEPT ![p].todo = @ \ {s}]
    /\ UNCHANGED <<run, broker, worker, scan, accepted, enqueued>>

(* settle(): all rows were sent, one answer is dealt with.                 *)
Settling(p, s) ==
    /\ round[p].todo = {}
    /\ s \in Awaited(p)
    /\ round' = [round EXCEPT ![p].answer[s] = "none"]

SettleConfirmedDefect(p, s) ==
    /\ Settling(p, s)
    /\ MarkPublished(p, s)
    /\ UNCHANGED <<run, broker, worker, scan, faults, ghosts>>

SettleConfirmed(p, s) ==
    /\ Settling(p, s)
    /\ round[p].answer[s] = "accepted"
    /\ MarkPublished(p, s)
    /\ UNCHANGED <<run, broker, worker, scan, faults, ghosts>>

SettleRefused(p, s) ==
    /\ Settling(p, s)
    /\ round[p].answer[s] # "accepted"
    /\ ScheduleRetry(p, s)
    /\ UNCHANGED <<run, broker, worker, scan, faults, accepted, enqueued>>

(* The confirm of an accepted message misses the deadline, or marking the  *)
(* row fails: sent, and to be sent again.                                  *)
SettleTooLate(p, s) ==
    /\ Settling(p, s)
    /\ round[p].answer[s] = "accepted"
    /\ Fault
    /\ ScheduleRetry(p, s)
    /\ UNCHANGED <<run, broker, worker, scan, accepted, enqueued>>

(* Neither marking the row nor scheduling its retry reaches the database:  *)
(* the lease has to run out.                                               *)
SettleFails(p, s) ==
    /\ Settling(p, s)
    /\ Fault
    /\ UNCHANGED <<run, events, broker, worker, scan, ghosts>>

(* The process dies, or publishPending throws after the claim: the round   *)
(* is forgotten, its rows stay leased.                                     *)
PublisherCrashes(p) ==
    /\ ~AtRest(p)
    /\ Fault
    /\ round' = [round EXCEPT ![p] = NoRound]
    /\ UNCHANGED <<run, events, broker, worker, scan, ghosts>>

Working(p, s) == s \in round[p].todo \union Awaited(p)

RowLeaseRunsOut(s) ==
    /\ events[s].holder # Nobody
    /\ ~events[s].expired
    /\ events' = [events EXCEPT ![s].expired = TRUE]
    /\ UNCHANGED <<run, round, broker, worker, scan, ghosts>>

Attended(s) == \E p \in Publishers : events[s].holder = p /\ Working(p, s)

(* The lease outlives the round of its publisher, unless that is slow.     *)
RowLeaseEnds(s) ==
    /\ ~Attended(s)
    /\ RowLeaseRunsOut(s)
    /\ UNCHANGED faults

RoundIsSlow(s) ==
    /\ Attended(s)
    /\ RowLeaseRunsOut(s)
    /\ Fault

RowComesDue(s) ==
    /\ events[s].status = "PENDING"
    /\ ~events[s].due
    /\ events' = [events EXCEPT ![s].due = TRUE]
    /\ UNCHANGED <<run, round, broker, worker, scan, faults, ghosts>>

CooldownEnds(s) ==
    /\ events[s].recent
    /\ events' = [events EXCEPT ![s].recent = FALSE]
    /\ UNCHANGED <<run, round, broker, worker, scan, faults, ghosts>>

(* A settled row older than the cooldown is read by no query any more and  *)
(* leaves its slot.                                                        *)
RowIsHistory(s) ==
    /\ events[s].status \in {"PUBLISHED", "FAILED"}
    /\ ~events[s].recent
    /\ \A p \in Publishers : ~Working(p, s)
    /\ events' = [events EXCEPT ![s] = Absent]
    /\ accepted' = [accepted EXCEPT ![s] = 0]
    /\ UNCHANGED <<run, round, broker, worker, scan, faults, stranded, enqueued>>

-----------------------------------------------------------------------------
(* The listener thread: onMessage, with manual acknowledgement. A listener *)
(* that no longer accepts gives the message back at once, which changes    *)
(* nothing here.                                                           *)

Go(w, pc) == worker' = [worker EXCEPT ![w].pc = pc]

Rest(w) == worker' = [worker EXCEPT ![w] = Idle]

Deliver(w) ==
    /\ worker[w].pc = "idle"
    /\ \E k \in Counts :
          /\ queue[k] > 0
          /\ queue' = Drop(queue, k)
          /\ worker' = [worker EXCEPT ![w] = [pc |-> "got", k |-> k, unacked |-> TRUE]]
    /\ UNCHANGED <<run, events, round, retryQueue, scan, faults, ghosts>>

(* A scan holds the row lock of the run.                                   *)
Locked == \E c \in Scanners : scan[c] = "locked"

Unowned == run.status \in {"QUEUED", "RUNNING"} /\ run.holder = Nobody

NextRecovery == IF run.status = "RUNNING" THEN run.recoveries + 1 ELSE run.recoveries

(* claim(), see ExecutionRun, which also has the runs a claim fails for    *)
(* their inconsistent rows.                                                *)
ClaimGranted(w) ==
    /\ worker[w].pc = "got"
    /\ Unowned /\ ~Locked
    /\ NextRecovery <= MaxRecoveries
    /\ run' = [run EXCEPT !.status = "RUNNING", !.holder = w, !.recoveries = NextRecovery]
    /\ Go(w, "running")
    /\ UNCHANGED <<events, round, broker, scan, faults, ghosts>>

Ended(row) == [row EXCEPT !.status = "ENDED", !.holder = Nobody]

ClaimExhausts(w) ==
    /\ worker[w].pc = "got"
    /\ Unowned /\ ~Locked
    /\ NextRecovery > MaxRecoveries
    /\ run' = Ended([run EXCEPT !.recoveries = NextRecovery])
    /\ Rest(w)
    /\ UNCHANGED <<events, round, broker, scan, faults, ghosts>>

(* An empty claim is acknowledged.                                         *)
ClaimEmpty(w) ==
    /\ worker[w].pc = "got"
    /\ ~Unowned
    /\ Rest(w)
    /\ UNCHANGED <<run, events, round, broker, scan, faults, ghosts>>

(* FOR UPDATE SKIP LOCKED: a row locked by a scan counts as nothing to     *)
(* claim, too. A coincidence of milliseconds, it takes from the budget.    *)
ClaimSkipsLock(w) ==
    /\ worker[w].pc = "got"
    /\ Locked
    /\ Fault
    /\ Rest(w)
    /\ UNCHANGED <<run, events, round, broker, scan, ghosts>>

ClaimThrows(w) ==
    /\ worker[w].pc = "got"
    /\ Fault
    /\ \E pc \in {"deferring", "rejecting"} : Go(w, pc)
    /\ UNCHANGED <<run, events, round, broker, scan, ghosts>>

(* run() returns: the run was ended in a commit under the lease; or the    *)
(* lease was lost; or the process shuts down and the lease is released.    *)
RunEnds(w) ==
    /\ worker[w].pc = "running"
    /\ run.holder = w
    /\ run' = Ended(run)
    /\ Go(w, "done")
    /\ UNCHANGED <<events, round, broker, scan, faults, ghosts>>

RunIsLost(w) ==
    /\ worker[w].pc = "running"
    /\ run.holder # w
    /\ Go(w, "done")
    /\ UNCHANGED <<run, events, round, broker, scan, faults, ghosts>>

Released(w) == IF run.holder = w THEN [run EXCEPT !.holder = Nobody] ELSE run

RunIsReleased(w) ==
    /\ worker[w].pc = "running"
    /\ Fault
    /\ run' = Released(w)
    /\ Go(w, "done")
    /\ UNCHANGED <<events, round, broker, scan, ghosts>>

(* run() throws; its finally block releases the lease, or fails to.        *)
RunThrows(w) ==
    /\ worker[w].pc = "running"
    /\ Fault
    /\ run' \in {run, Released(w)}
    /\ \E pc \in {"deferring", "rejecting"} : Go(w, pc)
    /\ UNCHANGED <<events, round, broker, scan, ghosts>>

Acknowledge(w) ==
    /\ worker[w].pc = "done"
    /\ Rest(w)
    /\ UNCHANGED <<run, events, round, broker, scan, faults, ghosts>>

(* basicReject: to the dead-letter queue, which nothing reads.             *)
Reject(w) ==
    /\ Rest(w)
    /\ stranded' = (stranded \/ worker[w].unacked)

RejectDelivery(w) ==
    /\ \/ worker[w].pc = "rejecting"
       \/ worker[w].pc = "deferring" /\ worker[w].k >= MaxRedeliveries
    /\ Reject(w)
    /\ UNCHANGED <<run, events, round, broker, scan, faults, accepted, enqueued>>

UnconfirmedDefect(w) ==
    /\ worker[w].pc = "deferring"
    /\ Rest(w)
    /\ UNCHANGED <<run, events, round, broker, scan, faults, ghosts>>

(* deferTransientDelivery: a copy goes to the retry queue, and only when   *)
(* the broker confirmed it is the original acknowledged.                   *)
Defer(w) ==
    /\ worker[w].pc = "deferring"
    /\ worker[w].k < MaxRedeliveries
    /\ retryQueue[worker[w].k + 1] < MaxMessages
    /\ retryQueue' = Add(retryQueue, worker[w].k + 1)
    /\ Rest(w)
    /\ UNCHANGED <<run, events, round, queue, scan, faults, ghosts>>

(* No confirm in time: the copy may be there, the original is rejected.    *)
DeferFails(w) ==
    /\ worker[w].pc = "deferring"
    /\ worker[w].k < MaxRedeliveries
    /\ Fault
    /\ \/ UNCHANGED retryQueue
       \/ /\ retryQueue[worker[w].k + 1] < MaxMessages
          /\ retryQueue' = Add(retryQueue, worker[w].k + 1)
    /\ Reject(w)
    /\ UNCHANGED <<run, events, round, queue, scan, accepted, enqueued>>

(* The retry queue's time to live: dead-lettered back to the main queue.   *)
RetryComesBack(k) ==
    /\ retryQueue[k] > 0
    /\ queue[k] < MaxMessages
    /\ retryQueue' = Drop(retryQueue, k)
    /\ queue' = Add(queue, k)
    /\ UNCHANGED <<run, events, round, worker, scan, faults, ghosts>>

(* The broker gives an unacknowledged message to the queue again when the  *)
(* channel closes, which the worker notices at its next acknowledgement,   *)
(* or with the worker.                                                     *)
Requeue(w) ==
    IF worker[w].unacked
    THEN queue[worker[w].k] < MaxMessages /\ queue' = Add(queue, worker[w].k)
    ELSE UNCHANGED queue

ChannelCloses(w) ==
    /\ worker[w].unacked
    /\ Fault
    /\ Requeue(w)
    /\ worker' = [worker EXCEPT ![w].unacked = FALSE]
    /\ UNCHANGED <<run, events, round, retryQueue, scan, ghosts>>

WorkerCrashes(w) ==
    /\ worker[w].pc # "idle"
    /\ Fault
    /\ Requeue(w)
    /\ Rest(w)
    /\ UNCHANGED <<run, events, round, retryQueue, scan, ghosts>>

-----------------------------------------------------------------------------
(* The run itself.                                                         *)

RunLeaseRunsOut ==
    /\ run.holder # Nobody
    /\ run' = [run EXCEPT !.holder = Nobody]
    /\ UNCHANGED <<events, round, broker, worker, scan, ghosts>>

(* The heartbeat keeps the lease of a worker that runs.                    *)
RunLeaseEnds ==
    /\ \A w \in Workers : run.holder = w => worker[w].pc # "running"
    /\ RunLeaseRunsOut
    /\ UNCHANGED faults

HeartbeatFails ==
    /\ \E w \in Workers : run.holder = w /\ worker[w].pc = "running"
    /\ RunLeaseRunsOut
    /\ Fault

(* requestCancel of a run no worker has begun; it waits for a row lock.    *)
Withdraw ==
    /\ run.status = "QUEUED" /\ ~Locked
    /\ run' = Ended(run)
    /\ UNCHANGED <<events, round, broker, worker, scan, faults, ghosts>>

(* It is queued for longer than queuedDeliveryAge.                         *)
RunAges ==
    /\ ~run.aged
    /\ run' = [run EXCEPT !.aged = TRUE]
    /\ UNCHANGED <<events, round, broker, worker, scan, faults, ghosts>>

-----------------------------------------------------------------------------
(* The recovery scan: one transaction whose query reads a snapshot, whose  *)
(* row lock re-checks the run but not the outbox rows, and whose insert is *)
(* seen when it commits.                                                   *)

EndedTooDefect == run.holder = Nobody /\ run.aged

QueuedOnlyDefect == run.status = "QUEUED" /\ run.aged

Recoverable ==
    \/ run.status = "QUEUED" /\ run.aged
    \/ run.status = "RUNNING" /\ run.holder = Nobody

NothingOnItsWay ==
    \A s \in Slots : events[s].status # "PENDING" /\ ~events[s].recent

ScanReads(c) ==
    /\ scan[c] = "idle"
    /\ Recoverable /\ NothingOnItsWay
    /\ scan' = [scan EXCEPT ![c] = "read"]
    /\ UNCHANGED <<run, events, round, broker, worker, faults, ghosts>>

ScanLocks(c) ==
    /\ scan[c] = "read"
    /\ Recoverable /\ ~Locked
    /\ scan' = [scan EXCEPT ![c] = "locked"]
    /\ UNCHANGED <<run, events, round, broker, worker, faults, ghosts>>

ScanSkips(c) ==
    /\ scan[c] = "read"
    /\ ~Recoverable \/ Locked
    /\ scan' = [scan EXCEPT ![c] = "idle"]
    /\ UNCHANGED <<run, events, round, broker, worker, faults, ghosts>>

ScanCommits(c) ==
    /\ scan[c] = "locked"
    /\ \E s \in Slots :
          /\ events[s].status = "ABSENT"
          /\ events' = [events EXCEPT ![s] = Fresh]
    /\ scan' = [scan EXCEPT ![c] = "idle"]
    /\ enqueued' = IF run.status = "QUEUED" /\ enqueued < MaxCounted THEN enqueued + 1 ELSE enqueued
    /\ UNCHANGED <<run, round, broker, worker, faults, stranded, accepted>>

(* A delivery acknowledged while the row was locked is not replaced.       *)
ScanRollsBack(c) ==
    /\ scan[c] = "locked"
    /\ Fault
    /\ scan' = [scan EXCEPT ![c] = "idle"]
    /\ stranded' = TRUE
    /\ UNCHANGED <<run, events, round, broker, worker, accepted, enqueued>>

-----------------------------------------------------------------------------
PublisherSteps(p) ==
    \/ ClaimPending(p)
    \/ PublisherCrashes(p)
    \/ \E s \in Slots :
          \/ Send(p, s) \/ SendInVain(p, s) \/ SendThrows(p, s)
          \/ SettleConfirmed(p, s) \/ SettleRefused(p, s)
          \/ SettleTooLate(p, s) \/ SettleFails(p, s)

RowSteps(s) ==
    RowLeaseEnds(s) \/ RoundIsSlow(s) \/ RowComesDue(s) \/ CooldownEnds(s) \/ RowIsHistory(s)

WorkerSteps(w) ==
    \/ Deliver(w)
    \/ ClaimGranted(w) \/ ClaimExhausts(w) \/ ClaimEmpty(w) \/ ClaimSkipsLock(w)
    \/ ClaimThrows(w)
    \/ RunEnds(w) \/ RunIsLost(w) \/ RunIsReleased(w) \/ RunThrows(w)
    \/ Acknowledge(w) \/ RejectDelivery(w) \/ Defer(w) \/ DeferFails(w)
    \/ ChannelCloses(w) \/ WorkerCrashes(w)

ScannerSteps(c) ==
    ScanReads(c) \/ ScanLocks(c) \/ ScanSkips(c) \/ ScanCommits(c) \/ ScanRollsBack(c)

RunSteps == RunLeaseEnds \/ HeartbeatFails \/ Withdraw \/ RunAges

Next ==
    \/ \E p \in Publishers : PublisherSteps(p)
    \/ \E s \in Slots : RowSteps(s)
    \/ \E w \in Workers : WorkerSteps(w)
    \/ \E k \in Counts : RetryComesBack(k)
    \/ \E c \in Scanners : ScannerSteps(c)
    \/ RunSteps

Spec == Init /\ [][Next]_vars

(* Schedulers keep ticking, listeners keep taking messages, a round and a  *)
(* delivery go on to their end, and time passes. Failures are never fair.  *)
Fairness ==
    /\ \A p \in Publishers :
          /\ WF_vars(ClaimPending(p))
          /\ WF_vars(\E s \in Slots : Send(p, s))
          /\ WF_vars(\E s \in Slots : SettleConfirmed(p, s) \/ SettleRefused(p, s))
    /\ \A s \in Slots :
          /\ WF_vars(RowLeaseEnds(s))
          /\ WF_vars(RowComesDue(s))
          /\ WF_vars(CooldownEnds(s))
          /\ WF_vars(RowIsHistory(s))
    /\ \A w \in Workers :
          /\ WF_vars(Deliver(w))
          /\ WF_vars(ClaimGranted(w) \/ ClaimExhausts(w) \/ ClaimEmpty(w))
          /\ WF_vars(RunEnds(w) \/ RunIsLost(w))
          /\ WF_vars(Acknowledge(w) \/ RejectDelivery(w) \/ Defer(w))
    /\ \A k \in Counts : WF_vars(RetryComesBack(k))
    /\ \A c \in Scanners :
          /\ WF_vars(ScanReads(c))
          /\ WF_vars(ScanLocks(c) \/ ScanSkips(c))
          /\ WF_vars(ScanCommits(c))
    /\ WF_vars(RunLeaseEnds)
    /\ WF_vars(RunAges)

FairSpec == Spec /\ Fairness

-----------------------------------------------------------------------------
(* Types.                                                                  *)
TypeOK ==
    /\ run \in [status : {"QUEUED", "RUNNING", "ENDED"}, holder : Workers \union {Nobody},
                recoveries : 0 .. MaxRecoveries + 1, aged : BOOLEAN]
    /\ events \in [Slots -> Row]
    /\ round \in [Publishers -> [todo : SUBSET Slots, answer : [Slots -> Answers]]]
    /\ queue \in [Counts -> 0 .. MaxMessages]
    /\ retryQueue \in [Counts -> 0 .. MaxMessages]
    /\ worker \in [Workers -> [pc : {"idle", "got", "running", "done", "deferring", "rejecting"},
                               k : Counts, unacked : BOOLEAN]]
    /\ scan \in [Scanners -> {"idle", "read", "locked"}]
    /\ faults \in 0 .. MaxFaults
    /\ stranded \in BOOLEAN
    /\ accepted \in [Slots -> Nat]
    /\ enqueued \in 0 .. MaxCounted

MessageReady == \E k \in Counts : queue[k] > 0 \/ retryQueue[k] > 0

(* A run that waits for its first worker always has its job on the way: a  *)
(* row still to be sent, a message in a queue or unacknowledged in the     *)
(* hands of a listener that has not lost it, or a scan about to write a    *)
(* row. The only exceptions are the events stranded stands for: a row that *)
(* FAILED, a dead letter, and a scan that rolled back.                     *)
JobOnItsWay ==
    run.status = "QUEUED" /\ ~stranded =>
        \/ \E s \in Slots : events[s].status = "PENDING"
        \/ MessageReady
        \/ \E w \in Workers : worker[w].unacked
        \/ Locked

(* A row is handed to the broker once, and at most once more for every     *)
(* failure: the publishers of several instances never send the same row    *)
(* because of each other.                                                  *)
SentOncePerFault == \A s \in Slots : accepted[s] <= 1 + faults

(* A row is settled only by the publisher whose round claimed it last: no  *)
(* late answer of an earlier round publishes, fails or reschedules it.     *)
LateAnswersChangeNothing ==
    [][\A p \in Publishers, s \in Slots :
          round[p].answer[s] # "none" /\ round'[p].answer[s] = "none" /\ events[s].holder # p
              => events'[s] = events[s]]_vars

(* Once the run has ended its job disappears: rows, messages, deliveries.  *)
(* Neither duplicates nor the scanners keep it alive.                      *)
FinishedRunGoesQuiet ==
    [](run.status = "ENDED" =>
        <>[](/\ \A s \in Slots : events[s].status = "ABSENT"
             /\ ~MessageReady
             /\ \A w \in Workers : worker[w].pc = "idle"))

(* The scanners write a new row for a run that is still QUEUED at most as  *)
(* often as a run may be recovered (OutboxEventRepositoryAdapter 140-141). *)
ReenqueueIsCapped == enqueued <= MaxRecoveries

(* What ExecutionRun and its liveness assume of the delivery.              *)
Dispatch == INSTANCE JobDispatch WITH status <- run.status, holder <- run.holder,
                                      recoveries <- run.recoveries
DispatchSpec == Dispatch!FairSpec
=============================================================================
