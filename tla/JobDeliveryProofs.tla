------------------------- MODULE JobDeliveryProofs -------------------------
(***************************************************************************)
(* What holds of the job delivery for every number of publishers, workers, *)
(* scanners, rows and failures: its types, that late answers are ignored,  *)
(* that it implements the dispatch, that a run that waits for its first    *)
(* worker always has its job on the way, and that rows are sent once.      *)
(***************************************************************************)
EXTENDS JobDelivery, FiniteSetTheorems, TLAPS

(* The run: a claim that counts a recovery past the cap ends it, and a     *)
(* queued run has no lease.                                                *)
RunRows == [status : {"QUEUED", "RUNNING", "ENDED"}, holder : Workers \union {Nobody},
            recoveries : 0 .. MaxRecoveries + 1, aged : BOOLEAN]

SoundRun(r) ==
    /\ r \in RunRows
    /\ r.status # "ENDED" => r.recoveries <= MaxRecoveries
    /\ r.status = "QUEUED" => r.holder = Nobody

(* A row that may still be sent has an attempt left.                       *)
SoundRow(e) == e \in Row /\ (e.status = "PENDING" => e.retries < MaxAttempts)

Rounds == [todo : SUBSET Slots, answer : [Slots -> Answers]]

Places == [pc : {"idle", "got", "running", "done", "deferring", "rejecting"},
           k : Counts, unacked : BOOLEAN]

Queues == [Counts -> 0 .. MaxMessages]

RowsInv == events \in [Slots -> Row] /\ \A s \in Slots : SoundRow(events[s])

RoundsInv == round \in [Publishers -> Rounds]

BrokerInv == queue \in Queues /\ retryQueue \in Queues

WorkersInv == worker \in [Workers -> Places]

ScanInv == scan \in [Scanners -> {"idle", "read", "locked"}]

CountersInv ==
    /\ faults \in 0 .. MaxFaults
    /\ stranded \in BOOLEAN
    /\ accepted \in [Slots -> Nat]
    /\ enqueued \in 0 .. MaxCounted

TypeInv ==
    /\ SoundRun(run) /\ RowsInv /\ RoundsInv /\ BrokerInv /\ WorkersInv /\ ScanInv
    /\ CountersInv

LEMMA TypeInvImpliesTypeOK == TypeInv => TypeOK
  BY DEF TypeInv, TypeOK, SoundRun, RunRows, RowsInv, RoundsInv, Rounds, BrokerInv, Queues,
         WorkersInv, Places, ScanInv, CountersInv

-----------------------------------------------------------------------------
(* The operators that make rows, queues and threads.                       *)

LEMMA FreshRow == SoundRow(Absent) /\ SoundRow(Fresh)
  <1>1. 0 \in 0 .. MaxAttempts /\ 0 < MaxAttempts
    BY DeliveryAssumption
  <1>2. Absent \in Row /\ Absent.status = "ABSENT" /\ Absent.retries = 0
    BY <1>1 DEF Row, Absent
  <1>3. Fresh \in Row /\ Fresh.retries = 0
    BY <1>2 DEF Row, Fresh
  <1> QED
    BY <1>1, <1>2, <1>3 DEF SoundRow

LEMMA RetriedRow ==
    ASSUME NEW e, SoundRow(e), e.status = "PENDING"
    PROVE  SoundRow(Retried(e))
  <1> DEFINE n == e.retries + 1
             st == IF n >= MaxAttempts THEN "FAILED" ELSE "PENDING"
  <1>1. n \in 0 .. MaxAttempts /\ (st = "PENDING" => n < MaxAttempts)
    BY DeliveryAssumption DEF SoundRow, Row
  <1>2. st \in {"PENDING", "FAILED"}
    OBVIOUS
  <1>3. Retried(e) = [e EXCEPT !.status = st, !.retries = n, !.holder = Nobody,
                               !.expired = FALSE, !.due = FALSE]
    BY DEF Retried
  <1> HIDE DEF n, st
  <1>4. Retried(e) \in Row /\ Retried(e).status = st /\ Retried(e).retries = n
    BY <1>1, <1>2, <1>3 DEF SoundRow, Row
  <1> QED
    BY <1>1, <1>4 DEF SoundRow

(* Marks of time and of leases leave status and attempts alone.            *)
LEMMA MarkedRow ==
    ASSUME NEW e, SoundRow(e), NEW h \in Publishers \union {Nobody, Forgotten}
    PROVE  /\ SoundRow([e EXCEPT !.holder = h])
           /\ SoundRow([e EXCEPT !.holder = h, !.expired = FALSE])
           /\ SoundRow([e EXCEPT !.expired = TRUE])
           /\ SoundRow([e EXCEPT !.due = TRUE])
           /\ SoundRow([e EXCEPT !.recent = FALSE])
           /\ SoundRow([e EXCEPT !.status = "PUBLISHED", !.holder = Nobody, !.expired = FALSE])
  BY DEF SoundRow, Row

LEMMA RowChange ==
    ASSUME RowsInv, NEW s \in Slots, NEW e, SoundRow(e), events' = [events EXCEPT ![s] = e]
    PROVE  RowsInv'
  BY DEF RowsInv, SoundRow

LEMMA QueueChange ==
    ASSUME NEW q \in Queues, NEW k \in Counts
    PROVE  /\ q[k] < MaxMessages => Add(q, k) \in Queues
           /\ q[k] > 0 => Drop(q, k) \in Queues
  BY DeliveryAssumption DEF Queues, Add, Drop, Counts

LEMMA NextCount ==
    ASSUME NEW k \in Counts
    PROVE  0 \in Counts /\ (k < MaxRedeliveries => k + 1 \in Counts)
  BY DeliveryAssumption DEF Counts

LEMMA PlaceChange ==
    ASSUME WorkersInv, NEW w \in Workers, NEW x \in Places, worker' = [worker EXCEPT ![w] = x]
    PROVE  WorkersInv'
  BY DEF WorkersInv

LEMMA IdlePlace == Idle \in Places
  BY NextCount, DeliveryAssumption DEF Idle, Places, Counts

LEMMA RestTypes ==
    ASSUME WorkersInv, NEW w \in Workers, Rest(w)
    PROVE  WorkersInv'
  BY IdlePlace, PlaceChange DEF Rest

LEMMA GoTypes ==
    ASSUME WorkersInv, NEW w \in Workers,
           NEW c \in {"idle", "got", "running", "done", "deferring", "rejecting"}, Go(w, c)
    PROVE  WorkersInv'
  BY DEF WorkersInv, Places, Go

LEMMA FaultTypes ==
    ASSUME faults \in 0 .. MaxFaults, Fault
    PROVE  faults' \in 0 .. MaxFaults
  BY DeliveryAssumption DEF Fault

LEMMA RunChanges ==
    ASSUME SoundRun(run)
    PROVE  /\ SoundRun(Ended(run))
           /\ NextRecovery \in 0 .. MaxRecoveries + 1
                 => SoundRun(Ended([run EXCEPT !.recoveries = NextRecovery]))
           /\ SoundRun([run EXCEPT !.holder = Nobody])
           /\ SoundRun([run EXCEPT !.aged = TRUE])
           /\ \A w \in Workers : SoundRun(Released(w))
  BY DEF SoundRun, RunRows, Ended, Released

-----------------------------------------------------------------------------
(* Types, one lemma per actor.                                             *)

LEMMA ScheduleRetryTypes ==
    ASSUME TypeInv, NEW p \in Publishers, NEW s \in Slots, ScheduleRetry(p, s)
    PROVE  RowsInv' /\ stranded' \in BOOLEAN
  <1>1. CASE Holds(p, s)
    <2>1. SoundRow(Retried(events[s]))
      BY <1>1, RetriedRow DEF TypeInv, RowsInv, Holds
    <2> QED
      BY <1>1, <2>1, RowChange DEF ScheduleRetry, TypeInv, CountersInv
  <1>2. CASE ~Holds(p, s)
    BY <1>2 DEF ScheduleRetry, TypeInv, RowsInv, CountersInv
  <1> QED
    BY <1>1, <1>2

LEMMA MarkPublishedTypes ==
    ASSUME TypeInv, NEW p \in Publishers, NEW s \in Slots, MarkPublished(p, s)
    PROVE  RowsInv'
  <1>1. SoundRow([events[s] EXCEPT !.status = "PUBLISHED", !.holder = Nobody, !.expired = FALSE])
    BY MarkedRow DEF TypeInv, RowsInv
  <1>2. events' = [events EXCEPT ![s] = [events[s] EXCEPT !.status = "PUBLISHED", !.holder = Nobody,
                                                          !.expired = FALSE]]
        \/ events' = events
    BY DEF MarkPublished, TypeInv, RowsInv, Row
  <1> QED
    BY <1>1, <1>2, RowChange DEF TypeInv, RowsInv

LEMMA ClaimPendingTypes ==
    ASSUME TypeInv, NEW p \in Publishers, ClaimPending(p)
    PROVE  TypeInv'
  <1> DEFINE batch == {s \in Slots : ClaimableRow(s)}
             taken(s) == IF s \in batch THEN [events[s] EXCEPT !.holder = p, !.expired = FALSE]
                         ELSE IF events[s].holder = p THEN [events[s] EXCEPT !.holder = Forgotten]
                         ELSE events[s]
  <1>1. \A s \in Slots : SoundRow(taken(s))
    BY MarkedRow DEF TypeInv, RowsInv
  <1>2. events' = [s \in Slots |-> taken(s)] /\ round' = [round EXCEPT ![p].todo = batch]
    BY DEF ClaimPending
  <1>3. batch \subseteq Slots
    OBVIOUS
  <1> HIDE DEF batch, taken
  <1>4. RowsInv'
    BY <1>1, <1>2 DEF RowsInv, SoundRow
  <1>5. RoundsInv'
    BY <1>2, <1>3 DEF TypeInv, RoundsInv, Rounds
  <1> QED
    BY <1>4, <1>5 DEF ClaimPending, TypeInv, SoundRun, RowsInv, RoundsInv, BrokerInv, WorkersInv,
                      ScanInv, CountersInv, broker, ghosts

LEMMA SendTypes ==
    ASSUME TypeInv, NEW p \in Publishers, NEW s \in Slots,
           Send(p, s) \/ SendInVain(p, s) \/ SendThrows(p, s)
    PROVE  TypeInv'
  <1>1. RoundsInv'
    <2>1. CASE Send(p, s) \/ SendInVain(p, s)
      <3>1. round \in [Publishers -> Rounds]
        BY DEF TypeInv, RoundsInv
      <3>2. PICK a \in Answers :
              round' = [round EXCEPT ![p].todo = round[p].todo \ {s}, ![p].answer[s] = a]
        BY <2>1, <3>1 DEF Send, SendInVain, Answers
      <3> QED
        BY <3>1, <3>2 DEF RoundsInv, Rounds
    <2>2. CASE SendThrows(p, s)
      BY <2>2 DEF SendThrows, TypeInv, RoundsInv, Rounds
    <2> QED
      BY <2>1, <2>2
  <1>2. CASE Send(p, s)
    <2>1. queue' \in Queues
      BY <1>2, QueueChange, NextCount, DeliveryAssumption DEF Send, TypeInv, BrokerInv, Counts
    <2>2. accepted' \in [Slots -> Nat]
      BY <1>2 DEF Send, TypeInv, CountersInv
    <2> QED
      BY <1>1, <1>2, <2>1, <2>2 DEF Send, TypeInv, SoundRun, RowsInv, RoundsInv, BrokerInv,
                                    WorkersInv, ScanInv, CountersInv, broker, ghosts
  <1>3. CASE SendInVain(p, s)
    BY <1>1, <1>3, FaultTypes DEF SendInVain, TypeInv, SoundRun, RowsInv, RoundsInv, BrokerInv,
                                  WorkersInv, ScanInv, CountersInv, broker, ghosts
  <1>4. CASE SendThrows(p, s)
    <2>1. RowsInv' /\ stranded' \in BOOLEAN
      BY <1>4, ScheduleRetryTypes DEF SendThrows, TypeInv, SoundRun, RowsInv, RoundsInv,
                                      BrokerInv, WorkersInv, ScanInv, CountersInv, broker, ghosts
    <2> QED
      BY <1>1, <1>4, <2>1, FaultTypes DEF SendThrows, TypeInv, SoundRun, RowsInv, RoundsInv,
                                          BrokerInv, WorkersInv, ScanInv, CountersInv, broker,
                                          ghosts
  <1> QED
    BY <1>2, <1>3, <1>4

LEMMA SettleTypes ==
    ASSUME TypeInv, NEW p \in Publishers, NEW s \in Slots,
           \/ SettleConfirmed(p, s) \/ SettleRefused(p, s)
           \/ SettleTooLate(p, s) \/ SettleFails(p, s)
    PROVE  TypeInv'
  <1>1. RoundsInv'
    <2>1. Settling(p, s)
      BY DEF SettleConfirmed, SettleRefused, SettleTooLate, SettleFails
    <2>2. "none" \in Answers
      BY DEF Answers
    <2> QED
      BY <2>1, <2>2 DEF Settling, TypeInv, RoundsInv, Rounds
  <1>2. CASE SettleConfirmed(p, s)
    BY <1>1, <1>2, MarkPublishedTypes DEF SettleConfirmed, TypeInv, SoundRun, RowsInv, RoundsInv,
                                          BrokerInv, WorkersInv, ScanInv, CountersInv, broker,
                                          ghosts
  <1>3. CASE SettleRefused(p, s)
    BY <1>1, <1>3, ScheduleRetryTypes DEF SettleRefused, TypeInv, SoundRun, RowsInv, RoundsInv,
                                          BrokerInv, WorkersInv, ScanInv, CountersInv, broker,
                                          ghosts
  <1>4. CASE SettleTooLate(p, s)
    BY <1>1, <1>4, ScheduleRetryTypes, FaultTypes DEF SettleTooLate, TypeInv, SoundRun, RowsInv,
                                                      RoundsInv, BrokerInv, WorkersInv, ScanInv,
                                                      CountersInv, broker, ghosts
  <1>5. CASE SettleFails(p, s)
    BY <1>1, <1>5, FaultTypes DEF SettleFails, TypeInv, SoundRun, RowsInv, RoundsInv, BrokerInv,
                                  WorkersInv, ScanInv, CountersInv, broker, ghosts
  <1> QED
    BY <1>2, <1>3, <1>4, <1>5

LEMMA PublisherTypes ==
    ASSUME TypeInv, NEW p \in Publishers, PublisherSteps(p)
    PROVE  TypeInv'
  <1>1. CASE PublisherCrashes(p)
    <2>1. NoRound \in Rounds
      BY DEF NoRound, Rounds, Answers
    <2>2. RoundsInv'
      BY <1>1, <2>1 DEF PublisherCrashes, TypeInv, RoundsInv
    <2> QED
      BY <1>1, <2>2, FaultTypes DEF PublisherCrashes, TypeInv, SoundRun, RowsInv, RoundsInv,
                                    BrokerInv, WorkersInv, ScanInv, CountersInv, broker, ghosts
  <1> QED
    BY <1>1, ClaimPendingTypes, SendTypes, SettleTypes DEF PublisherSteps

LEMMA RowStepTypes ==
    ASSUME TypeInv, NEW s \in Slots, RowSteps(s)
    PROVE  TypeInv'
  <1> DEFINE e == events[s]
  <1>1. /\ SoundRow([e EXCEPT !.expired = TRUE])
        /\ SoundRow([e EXCEPT !.due = TRUE])
        /\ SoundRow([e EXCEPT !.recent = FALSE])
        /\ SoundRow(Absent)
    BY FreshRow, MarkedRow DEF TypeInv, RowsInv
  <1>2. \/ events' = [events EXCEPT ![s] = [e EXCEPT !.expired = TRUE]]
        \/ events' = [events EXCEPT ![s] = [e EXCEPT !.due = TRUE]]
        \/ events' = [events EXCEPT ![s] = [e EXCEPT !.recent = FALSE]]
        \/ events' = [events EXCEPT ![s] = Absent]
    BY DEF RowSteps, RowLeaseEnds, RoundIsSlow, RowLeaseRunsOut, RowComesDue, CooldownEnds,
           RowIsHistory
  <1>3. RowsInv'
    <2> HIDE DEF e
    <2> QED
      BY <1>1, <1>2, RowChange DEF TypeInv
  <1>4. faults' \in 0 .. MaxFaults
    BY FaultTypes DEF RowSteps, RowLeaseEnds, RoundIsSlow, RowComesDue, CooldownEnds, RowIsHistory,
                      TypeInv, CountersInv
  <1>5. accepted' \in [Slots -> Nat] /\ stranded' \in BOOLEAN /\ enqueued' = enqueued
    BY DEF RowSteps, RowLeaseEnds, RoundIsSlow, RowLeaseRunsOut, RowComesDue, CooldownEnds,
           RowIsHistory,
           TypeInv, CountersInv, ghosts
  <1>6. UNCHANGED <<run, round, queue, retryQueue, worker, scan>>
    BY DEF RowSteps, RowLeaseEnds, RoundIsSlow, RowLeaseRunsOut, RowComesDue, CooldownEnds,
           RowIsHistory,
           broker
  <1> QED
    BY <1>3, <1>4, <1>5, <1>6 DEF TypeInv, SoundRun, RowsInv, RoundsInv, BrokerInv, WorkersInv,
                                  ScanInv, CountersInv, broker, ghosts

(* The message a listener holds goes back to the queue, if it has room.    *)
LEMMA RequeueTypes ==
    ASSUME TypeInv, NEW w \in Workers, Requeue(w)
    PROVE  queue' \in Queues
  <1>1. worker[w].k \in Counts
    BY DEF TypeInv, WorkersInv, Places
  <1> QED
    BY <1>1, QueueChange DEF Requeue, TypeInv, BrokerInv

LEMMA DeliverTypes ==
    ASSUME TypeInv, NEW w \in Workers, Deliver(w)
    PROVE  TypeInv'
  <1>1. PICK k \in Counts : /\ queue[k] > 0
                            /\ queue' = Drop(queue, k)
                            /\ worker' = [worker EXCEPT ![w] = [pc |-> "got", k |-> k, unacked |-> TRUE]]
    BY DEF Deliver
  <1>2. queue' \in Queues
    BY <1>1, QueueChange DEF TypeInv, BrokerInv
  <1>3. [pc |-> "got", k |-> k, unacked |-> TRUE] \in Places
    BY DEF Places
  <1>4. WorkersInv'
    BY <1>1, <1>3, PlaceChange DEF TypeInv
  <1> QED
    BY <1>2, <1>4 DEF Deliver, TypeInv, SoundRun, RowsInv, RoundsInv, BrokerInv, WorkersInv,
                      ScanInv, CountersInv, broker, ghosts

LEMMA ClaimTypes ==
    ASSUME TypeInv, NEW w \in Workers,
           ClaimGranted(w) \/ ClaimExhausts(w) \/ ClaimEmpty(w) \/ ClaimSkipsLock(w) \/ ClaimThrows(w)
    PROVE  TypeInv'
  <1>1. WorkersInv'
    <2>1. Rest(w) \/ Go(w, "running") \/ Go(w, "deferring") \/ Go(w, "rejecting")
      BY DEF ClaimGranted, ClaimExhausts, ClaimEmpty, ClaimSkipsLock, ClaimThrows
    <2> QED
      BY <2>1, RestTypes, GoTypes DEF TypeInv
  <1>2. faults' \in 0 .. MaxFaults
    BY FaultTypes DEF ClaimGranted, ClaimExhausts, ClaimEmpty, ClaimSkipsLock, ClaimThrows,
                      TypeInv,
                      CountersInv
  <1>3. UNCHANGED <<events, round, queue, retryQueue, scan, stranded, accepted, enqueued>>
    BY DEF ClaimGranted, ClaimExhausts, ClaimEmpty, ClaimSkipsLock, ClaimThrows, broker, ghosts
  <1>4. SoundRun(run')
    <2>1. CASE ClaimGranted(w)
      <3>1. NextRecovery \in 0 .. MaxRecoveries
        BY <2>1 DEF ClaimGranted, NextRecovery, TypeInv, SoundRun, RunRows
      <3>2. run' = [run EXCEPT !.status = "RUNNING", !.holder = w, !.recoveries = NextRecovery]
        BY <2>1 DEF ClaimGranted
      <3>3. 0 .. MaxRecoveries \subseteq 0 .. MaxRecoveries + 1
        BY DeliveryAssumption
      <3> HIDE DEF NextRecovery
      <3>4. run' \in RunRows /\ run'.status = "RUNNING" /\ run'.recoveries = NextRecovery
        BY <3>1, <3>2, <3>3 DEF TypeInv, SoundRun, RunRows
      <3> QED
        BY <3>1, <3>4, DeliveryAssumption DEF SoundRun
    <2>2. CASE ClaimExhausts(w)
      <3>1. NextRecovery \in 0 .. MaxRecoveries + 1
        BY <2>2, DeliveryAssumption DEF ClaimExhausts, Unowned, NextRecovery, TypeInv, SoundRun,
                                        RunRows
      <3> QED
        BY <2>2, <3>1, RunChanges DEF ClaimExhausts, TypeInv
    <2>3. CASE ClaimEmpty(w) \/ ClaimSkipsLock(w) \/ ClaimThrows(w)
      BY <2>3 DEF ClaimEmpty, ClaimSkipsLock, ClaimThrows, TypeInv
    <2> QED
      BY <2>1, <2>2, <2>3
  <1> QED
    BY <1>1, <1>2, <1>3, <1>4 DEF TypeInv, SoundRun, RowsInv, RoundsInv, BrokerInv, WorkersInv,
                                  ScanInv, CountersInv, broker, ghosts

LEMMA RunEndTypes ==
    ASSUME TypeInv, NEW w \in Workers,
           RunEnds(w) \/ RunIsLost(w) \/ RunIsReleased(w) \/ RunThrows(w)
    PROVE  TypeInv'
  <1>1. WorkersInv'
    <2>1. Go(w, "done") \/ Go(w, "deferring") \/ Go(w, "rejecting")
      BY DEF RunEnds, RunIsLost, RunIsReleased, RunThrows
    <2> QED
      BY <2>1, GoTypes DEF TypeInv
  <1>2. SoundRun(run')
    <2>1. run' \in {run, Ended(run), Released(w)}
      BY DEF RunEnds, RunIsLost, RunIsReleased, RunThrows
    <2> QED
      BY <2>1, RunChanges DEF TypeInv
  <1>3. faults' \in 0 .. MaxFaults
    BY FaultTypes DEF RunEnds, RunIsLost, RunIsReleased, RunThrows, TypeInv, CountersInv
  <1>4. UNCHANGED <<events, round, queue, retryQueue, scan, stranded, accepted, enqueued>>
    BY DEF RunEnds, RunIsLost, RunIsReleased, RunThrows, broker, ghosts
  <1> QED
    BY <1>1, <1>2, <1>3, <1>4 DEF TypeInv, SoundRun, RowsInv, RoundsInv, BrokerInv, WorkersInv,
                                  ScanInv, CountersInv, broker, ghosts

LEMMA SettleDeliveryTypes ==
    ASSUME TypeInv, NEW w \in Workers,
           Acknowledge(w) \/ RejectDelivery(w) \/ Defer(w) \/ DeferFails(w)
    PROVE  TypeInv'
  <1>1. WorkersInv'
    <2>1. Rest(w)
      BY DEF Acknowledge, RejectDelivery, Defer, DeferFails, Reject
    <2> QED
      BY <2>1, RestTypes DEF TypeInv
  <1>2. retryQueue' \in Queues
    <2>1. worker[w].k \in Counts
      BY DEF TypeInv, WorkersInv, Places
    <2>2. \/ retryQueue' = retryQueue
          \/ /\ worker[w].k < MaxRedeliveries
             /\ retryQueue[worker[w].k + 1] < MaxMessages
             /\ retryQueue' = Add(retryQueue, worker[w].k + 1)
      BY DEF Acknowledge, RejectDelivery, Defer, DeferFails, broker
    <2> QED
      BY <2>1, <2>2, NextCount, QueueChange DEF TypeInv, BrokerInv
  <1>3. faults' \in 0 .. MaxFaults
    BY FaultTypes DEF Acknowledge, RejectDelivery, Defer, DeferFails, TypeInv, CountersInv
  <1>4. stranded' \in BOOLEAN
    BY DEF Acknowledge, RejectDelivery, Defer, DeferFails, Reject, TypeInv, CountersInv, ghosts
  <1>5. UNCHANGED <<run, events, round, queue, scan, accepted, enqueued>>
    BY DEF Acknowledge, RejectDelivery, Defer, DeferFails, broker, ghosts
  <1> QED
    BY <1>1, <1>2, <1>3, <1>4, <1>5 DEF TypeInv, SoundRun, RowsInv, RoundsInv, BrokerInv,
                                        WorkersInv, ScanInv, CountersInv, broker, ghosts

LEMMA DeliveryFailureTypes ==
    ASSUME TypeInv, NEW w \in Workers, ChannelCloses(w) \/ WorkerCrashes(w)
    PROVE  TypeInv'
  <1>1. queue' \in Queues
    BY RequeueTypes DEF ChannelCloses, WorkerCrashes
  <1>2. WorkersInv'
    <2>1. CASE ChannelCloses(w)
      BY <2>1 DEF ChannelCloses, TypeInv, WorkersInv, Places
    <2>2. CASE WorkerCrashes(w)
      BY <2>2, RestTypes DEF WorkerCrashes, TypeInv
    <2> QED
      BY <2>1, <2>2
  <1>3. faults' \in 0 .. MaxFaults
    BY FaultTypes DEF ChannelCloses, WorkerCrashes, TypeInv, CountersInv
  <1> QED
    BY <1>1, <1>2, <1>3 DEF ChannelCloses, WorkerCrashes, TypeInv, SoundRun, RowsInv, RoundsInv,
                            BrokerInv, WorkersInv, ScanInv, CountersInv, broker, ghosts

LEMMA WorkerTypes ==
    ASSUME TypeInv, NEW w \in Workers, WorkerSteps(w)
    PROVE  TypeInv'
  BY DeliverTypes, ClaimTypes, RunEndTypes, SettleDeliveryTypes, DeliveryFailureTypes DEF
                                                                                          WorkerSteps

LEMMA RetryTypes ==
    ASSUME TypeInv, NEW k \in Counts, RetryComesBack(k)
    PROVE  TypeInv'
  <1>1. queue' \in Queues /\ retryQueue' \in Queues
    BY QueueChange DEF RetryComesBack, TypeInv, BrokerInv
  <1> QED
    BY <1>1 DEF RetryComesBack, TypeInv, SoundRun, RowsInv, RoundsInv, BrokerInv, WorkersInv,
                ScanInv, CountersInv, broker, ghosts

LEMMA ScannerTypes ==
    ASSUME TypeInv, NEW c \in Scanners, ScannerSteps(c)
    PROVE  TypeInv'
  <1>1. ScanInv'
    BY DEF ScannerSteps, ScanReads, ScanLocks, ScanSkips, ScanCommits, ScanRollsBack, TypeInv,
           ScanInv
  <1>2. RowsInv'
    <2>1. \/ events' = events
          \/ \E s \in Slots : events' = [events EXCEPT ![s] = Fresh]
      BY DEF ScannerSteps, ScanReads, ScanLocks, ScanSkips, ScanCommits, ScanRollsBack
    <2>2. CASE events' = events
      BY <2>2 DEF TypeInv, RowsInv
    <2>3. CASE \E s \in Slots : events' = [events EXCEPT ![s] = Fresh]
      BY <2>3, FreshRow, RowChange DEF TypeInv
    <2> QED
      BY <2>1, <2>2, <2>3
  <1>3. CountersInv'
    <2>1. faults' \in 0 .. MaxFaults
      BY FaultTypes DEF ScannerSteps, ScanReads, ScanLocks, ScanSkips, ScanCommits, ScanRollsBack,
                        TypeInv, CountersInv
    <2>2. stranded' \in BOOLEAN /\ accepted' \in [Slots -> Nat]
      BY DEF ScannerSteps, ScanReads, ScanLocks, ScanSkips, ScanCommits, ScanRollsBack, TypeInv,
             CountersInv, ghosts
    <2>3. enqueued' = enqueued \/ (enqueued < MaxCounted /\ enqueued' = enqueued + 1)
      BY DEF ScannerSteps, ScanReads, ScanLocks, ScanSkips, ScanCommits, ScanRollsBack, ghosts
    <2>4. enqueued' \in 0 .. MaxCounted
      BY <2>3, DeliveryAssumption DEF TypeInv, CountersInv
    <2> QED
      BY <2>1, <2>2, <2>4 DEF CountersInv
  <1>4. UNCHANGED <<run, round, queue, retryQueue, worker>>
    BY DEF ScannerSteps, ScanReads, ScanLocks, ScanSkips, ScanCommits, ScanRollsBack, broker
  <1> QED
    BY <1>1, <1>2, <1>3, <1>4 DEF TypeInv, SoundRun, RoundsInv, BrokerInv, WorkersInv

LEMMA RunTypes ==
    ASSUME TypeInv, RunSteps
    PROVE  TypeInv'
  <1>1. run' \in {[run EXCEPT !.holder = Nobody], Ended(run), [run EXCEPT !.aged = TRUE]}
    BY DEF RunSteps, RunLeaseEnds, HeartbeatFails, RunLeaseRunsOut, Withdraw, RunAges
  <1>2. SoundRun(run')
    BY <1>1, RunChanges DEF TypeInv
  <1>3. faults' \in 0 .. MaxFaults
    BY FaultTypes DEF RunSteps, RunLeaseEnds, HeartbeatFails, Withdraw, RunAges, TypeInv,
                      CountersInv
  <1>4. UNCHANGED <<events, round, queue, retryQueue, worker, scan, stranded, accepted, enqueued>>
    BY DEF RunSteps, RunLeaseEnds, HeartbeatFails, RunLeaseRunsOut, Withdraw, RunAges, broker,
           ghosts
  <1> QED
    BY <1>2, <1>3, <1>4 DEF TypeInv, SoundRun, RowsInv, RoundsInv, BrokerInv, WorkersInv,
                            ScanInv, CountersInv, broker, ghosts

LEMMA TypeInit == Init => TypeInv
  <1> SUFFICES ASSUME Init PROVE TypeInv
    OBVIOUS
  <1>1. SoundRun(run)
    BY DeliveryAssumption DEF Init, SoundRun, RunRows
  <1>2. RowsInv
    BY FreshRow DEF Init, RowsInv, SoundRow
  <1>3. RoundsInv
    BY DEF Init, RoundsInv, Rounds, NoRound, Answers
  <1>4. BrokerInv
    BY DeliveryAssumption DEF Init, BrokerInv, Queues, NoQueue
  <1>5. WorkersInv
    BY IdlePlace DEF Init, WorkersInv
  <1>6. ScanInv /\ CountersInv
    <2>1. /\ scan = [c \in Scanners |-> "idle"] /\ faults = 0 /\ stranded = FALSE
          /\ accepted = [s \in Slots |-> 0] /\ enqueued = 0
      BY DEF Init
    <2>2. 0 \in 0 .. MaxFaults /\ 0 \in 0 .. MaxCounted /\ 0 \in Nat
      BY DeliveryAssumption
    <2>3. ScanInv /\ accepted \in [Slots -> Nat]
      BY <2>1, <2>2 DEF ScanInv
    <2> QED
      BY <2>1, <2>2, <2>3 DEF CountersInv
  <1> QED
    BY <1>1, <1>2, <1>3, <1>4, <1>5, <1>6 DEF TypeInv

LEMMA TypeStep == TypeInv /\ [Next]_vars => TypeInv'
  <1> SUFFICES ASSUME TypeInv, [Next]_vars PROVE TypeInv'
    OBVIOUS
  <1>1. CASE UNCHANGED vars
    BY <1>1 DEF vars, TypeInv, SoundRun, RowsInv, RoundsInv, BrokerInv, WorkersInv, ScanInv,
                CountersInv, broker, ghosts
  <1>2. CASE Next
    BY <1>2, PublisherTypes, RowStepTypes, WorkerTypes, RetryTypes, ScannerTypes, RunTypes DEF
                                                                                               Next
  <1> QED
    BY <1>1, <1>2

(* Every value stays in its type: no row is tried more often than max-     *)
(* attempts, and no claim counts more than one recovery past the cap.      *)
THEOREM DeliveryTypeCorrect == Spec => []TypeOK
  <1>1. Spec => []TypeInv
    BY TypeInit, TypeStep, PTL DEF Spec
  <1> QED
    BY <1>1, TypeInvImpliesTypeOK, PTL

-----------------------------------------------------------------------------
(* Late answers: an answer is dealt with by a settlement, whose fence is   *)
(* the row's holder, or forgotten in a crash, which leaves rows alone.     *)

Ignored(p, s) ==
    round[p].answer[s] # "none" /\ round'[p].answer[s] = "none" /\ events[s].holder # p
        => events'[s] = events[s]

LEMMA PublisherIgnores ==
    ASSUME TypeInv, NEW q \in Publishers, PublisherSteps(q),
           NEW p \in Publishers, NEW s \in Slots
    PROVE  Ignored(p, s)
  <1> DEFINE Kept == round'[p].answer[s] = "none" => round[p].answer[s] = "none"
  <1>1. round \in [Publishers -> Rounds]
    BY DEF TypeInv, RoundsInv
  <1>2. CASE ClaimPending(q)
    <2>1. Kept
      BY <1>1, <1>2 DEF ClaimPending, Rounds
    <2> QED
      BY <2>1 DEF Ignored
  <1>3. ASSUME NEW t \in Slots, Send(q, t) \/ SendInVain(q, t) \/ SendThrows(q, t)
        PROVE  Ignored(p, s)
    <2>1. CASE Send(q, t)
      <3>1. Kept
        BY <1>1, <2>1 DEF Send, Rounds
      <3> QED
        BY <3>1 DEF Ignored
    <2>2. CASE SendInVain(q, t)
      <3>1. Kept
        BY <1>1, <2>2 DEF SendInVain, Rounds
      <3> QED
        BY <3>1 DEF Ignored
    <2>3. CASE SendThrows(q, t)
      <3>1. Kept
        BY <1>1, <2>3 DEF SendThrows, Rounds
      <3> QED
        BY <3>1 DEF Ignored
    <2> QED
      BY <1>3, <2>1, <2>2, <2>3
  <1>4. ASSUME NEW t \in Slots,
               \/ SettleConfirmed(q, t) \/ SettleRefused(q, t)
               \/ SettleTooLate(q, t) \/ SettleFails(q, t)
        PROVE  Ignored(p, s)
    <2>1. Settling(q, t)
      BY <1>4 DEF SettleConfirmed, SettleRefused, SettleTooLate, SettleFails
    <2>2. q # p \/ t # s => round'[p].answer[s] = round[p].answer[s]
      BY <1>1, <2>1 DEF Settling, Rounds
    <2>3. events' = events \/ ScheduleRetry(q, t) \/ MarkPublished(q, t)
      BY <1>4 DEF SettleConfirmed, SettleRefused, SettleTooLate, SettleFails
    <2>4. events[t].holder # q => events' = events
      BY <2>3 DEF ScheduleRetry, MarkPublished, Holds
    <2> QED
      BY <2>2, <2>4 DEF Ignored
  <1>5. CASE PublisherCrashes(q)
    BY <1>5 DEF PublisherCrashes, Ignored
  <1> QED
    BY <1>2, <1>3, <1>4, <1>5 DEF PublisherSteps

(* Whatever publishers of whatever number of instances overlap in a row,   *)
(* an answer that comes after the row was claimed again changes nothing.   *)
THEOREM LateAnswersAreIgnored == Spec => LateAnswersChangeNothing
  <1>1. TypeInv /\ [Next]_vars => [\A p \in Publishers, s \in Slots : Ignored(p, s)]_vars
    <2> SUFFICES ASSUME TypeInv, Next, NEW p \in Publishers, NEW s \in Slots
                 PROVE  Ignored(p, s)
      OBVIOUS
    <2>1. CASE \E q \in Publishers : PublisherSteps(q)
      BY <2>1, PublisherIgnores
    <2>2. CASE round' = round
      BY <2>2 DEF Ignored
    <2>3. CASE ~\E q \in Publishers : PublisherSteps(q)
      <3>1. round' = round
        BY <2>3 DEF Next, RowSteps, RowLeaseEnds, RoundIsSlow, RowLeaseRunsOut, RowComesDue,
                    CooldownEnds, RowIsHistory, WorkerSteps, Deliver, ClaimGranted, ClaimExhausts,
                    ClaimEmpty, ClaimSkipsLock, ClaimThrows, RunEnds, RunIsLost, RunIsReleased,
                    RunThrows, Acknowledge, RejectDelivery, Defer, DeferFails, ChannelCloses,
                    WorkerCrashes, RetryComesBack, ScannerSteps, ScanReads, ScanLocks, ScanSkips,
                    ScanCommits, ScanRollsBack, RunSteps, RunLeaseEnds, HeartbeatFails,
                    RunLeaseRunsOut, Withdraw, RunAges
      <3> QED
        BY <2>2, <3>1
    <2> QED
      BY <2>1, <2>3
  <1>2. Spec => []TypeInv
    BY TypeInit, TypeStep, PTL DEF Spec
  <1>3. [\A p \in Publishers, s \in Slots : Ignored(p, s)]_vars
          => [\A p \in Publishers, s \in Slots :
                round[p].answer[s] # "none" /\ round'[p].answer[s] = "none" /\ events[s].holder # p
                    => events'[s] = events[s]]_vars
    BY DEF Ignored
  <1> QED
    BY <1>1, <1>2, <1>3, PTL DEF Spec, LateAnswersChangeNothing

-----------------------------------------------------------------------------
(* The delivery implements the dispatch, step by step; that it keeps on    *)
(* claiming is a matter of fairness and left to the model checker.         *)

LEMMA WorkerDispatches ==
    ASSUME TypeInv, NEW w \in Workers, WorkerSteps(w)
    PROVE  [Dispatch!Next]_(Dispatch!vars)
  <1>1. run \in RunRows
    BY DEF TypeInv, SoundRun
  <1>2. CASE ClaimGranted(w)
    <2>1. run' = [run EXCEPT !.status = "RUNNING", !.holder = w, !.recoveries = NextRecovery]
      BY <1>2 DEF ClaimGranted
    <2>2. run'.status = "RUNNING" /\ run'.holder = w /\ run'.recoveries = NextRecovery
      BY <1>1, <2>1 DEF RunRows
    <2>3. Dispatch!Used = NextRecovery /\ NextRecovery \in Nat
      BY <1>1, DeliveryAssumption DEF Dispatch!Used, NextRecovery, RunRows
    <2>4. ~(NextRecovery > MaxRecoveries) /\ Unowned
      BY <1>2, <2>3, DeliveryAssumption DEF ClaimGranted
    <2> HIDE DEF NextRecovery
    <2>5. Dispatch!Claim
      BY <2>2, <2>3, <2>4 DEF Dispatch!Claim, Dispatch!Unowned, Unowned
    <2> QED
      BY <2>5 DEF Dispatch!Next
  <1>3. CASE ClaimExhausts(w)
    <2>1. run' = Ended([run EXCEPT !.recoveries = NextRecovery])
      BY <1>3 DEF ClaimExhausts
    <2>2. run'.status = "ENDED" /\ run'.holder = Nobody /\ run'.recoveries = NextRecovery
      BY <1>1, <2>1 DEF Ended, RunRows
    <2>3. Dispatch!Used = NextRecovery
      BY DEF Dispatch!Used, NextRecovery
    <2>4. NextRecovery > MaxRecoveries /\ Unowned
      BY <1>3 DEF ClaimExhausts
    <2> HIDE DEF NextRecovery
    <2>5. Dispatch!Claim
      BY <2>2, <2>3, <2>4 DEF Dispatch!Claim, Dispatch!Unowned, Unowned
    <2> QED
      BY <2>5 DEF Dispatch!Next
  <1>4. CASE RunEnds(w)
    <2>1. run.holder # Nobody /\ run' = Ended(run)
      BY <1>4, DeliveryAssumption DEF RunEnds
    <2>2. run'.status = "ENDED" /\ run'.holder = Nobody /\ run'.recoveries = run.recoveries
      BY <1>1, <2>1 DEF Ended, RunRows
    <2> QED
      BY <2>1, <2>2 DEF Dispatch!Next, Dispatch!End
  <1>5. CASE RunIsReleased(w) \/ RunThrows(w)
    <2>1. run' = run \/ (run.holder # Nobody /\ run' = [run EXCEPT !.holder = Nobody])
      BY <1>5, DeliveryAssumption DEF RunIsReleased, RunThrows, Released
    <2>2. CASE run' = run
      BY <2>2 DEF Dispatch!vars
    <2>3. CASE run.holder # Nobody /\ run' = [run EXCEPT !.holder = Nobody]
      BY <1>1, <2>3 DEF Dispatch!Next, Dispatch!LoseOwner, RunRows
    <2> QED
      BY <2>1, <2>2, <2>3
  <1>6. CASE \/ Deliver(w) \/ ClaimEmpty(w) \/ ClaimSkipsLock(w) \/ ClaimThrows(w)
             \/ RunIsLost(w) \/ Acknowledge(w) \/ RejectDelivery(w) \/ Defer(w)
             \/ DeferFails(w) \/ ChannelCloses(w) \/ WorkerCrashes(w)
    BY <1>6 DEF Deliver, ClaimEmpty, ClaimSkipsLock, ClaimThrows, RunIsLost, Acknowledge,
                RejectDelivery, Defer, DeferFails, ChannelCloses, WorkerCrashes, Dispatch!vars
  <1> QED
    BY <1>2, <1>3, <1>4, <1>5, <1>6 DEF WorkerSteps

LEMMA RunDispatches ==
    ASSUME TypeInv, RunSteps
    PROVE  [Dispatch!Next]_(Dispatch!vars)
  <1>1. run \in RunRows
    BY DEF TypeInv, SoundRun
  <1>2. CASE RunLeaseEnds \/ HeartbeatFails
    BY <1>1, <1>2 DEF RunLeaseEnds, HeartbeatFails, RunLeaseRunsOut, Dispatch!Next,
                      Dispatch!LoseOwner, RunRows
  <1>3. CASE Withdraw
    BY <1>1, <1>3 DEF Withdraw, Ended, Dispatch!Next, Dispatch!End, RunRows
  <1>4. CASE RunAges
    BY <1>1, <1>4 DEF RunAges, Dispatch!vars, RunRows
  <1> QED
    BY <1>2, <1>3, <1>4 DEF RunSteps

LEMMA StepDispatches ==
    ASSUME TypeInv, [Next]_vars
    PROVE  [Dispatch!Next]_(Dispatch!vars)
  <1>1. CASE UNCHANGED vars
    BY <1>1 DEF vars, Dispatch!vars
  <1>2. CASE \/ \E p \in Publishers : PublisherSteps(p)
             \/ \E s \in Slots : RowSteps(s)
             \/ \E k \in Counts : RetryComesBack(k)
             \/ \E c \in Scanners : ScannerSteps(c)
    <2>1. run' = run
      BY <1>2, ZenonT(30) DEF PublisherSteps, ClaimPending, Send, SendInVain, SendThrows, SettleConfirmed,
                  SettleRefused, SettleTooLate, SettleFails, PublisherCrashes, RowSteps,
                  RowLeaseEnds, RoundIsSlow, RowLeaseRunsOut, RowComesDue, CooldownEnds,
                  RowIsHistory, RetryComesBack, ScannerSteps, ScanReads, ScanLocks, ScanSkips,
                  ScanCommits, ScanRollsBack
    <2> QED
      BY <2>1 DEF Dispatch!vars
  <1> QED
    BY <1>1, <1>2, WorkerDispatches, RunDispatches DEF Next

(* Seen from the run, the delivery does nothing but claim a run nobody     *)
(* owns, at the price of one recovery when it had begun, take the lease    *)
(* away, and let it end (JobDispatch without its fairness).                *)
THEOREM DeliveryImplementsDispatch == Spec => Dispatch!Spec
  <1>1. Init => Dispatch!Init
    BY DEF Init, Dispatch!Init
  <1>2. Spec => []TypeInv
    BY TypeInit, TypeStep, PTL DEF Spec
  <1> QED
    BY <1>1, <1>2, StepDispatches, PTL DEF Spec, Dispatch!Spec

-----------------------------------------------------------------------------
(***************************************************************************)
(* Why a run that waits for its first worker always has its job on the     *)
(* way, for every number of publishers, workers, scanners and failures:    *)
(* whoever gives the job up has handed it on first, or the run is counted  *)
(* as stranded.                                                            *)
(***************************************************************************)

(* Someone other than the outbox has the job.                              *)
Carried == MessageReady \/ (\E w \in Workers : worker[w].unacked) \/ Locked

(* A row the broker has not had yet. A row it has had may be PENDING too,  *)
(* but it may become PUBLISHED at any moment.                              *)
Unsent(s) == events[s].status = "PENDING" /\ accepted[s] = 0

CarrierInv == run.status = "QUEUED" /\ ~stranded => Carried \/ \E s \in Slots : Unsent(s)

(* An answer is "accepted" only for a row the broker has had.              *)
AnswersInv ==
    \A p \in Publishers, s \in Slots : round[p].answer[s] = "accepted" => accepted[s] > 0

(* No publisher still works on a row that left its slot.                   *)
GoneInv ==
    \A s \in Slots : events[s].status = "ABSENT" =>
        accepted[s] = 0 /\ \A p \in Publishers : ~Working(p, s)

(* A worker that has run the job acknowledges a run that is not QUEUED.    *)
BegunInv == \A w \in Workers : worker[w].pc \in {"running", "done"} => run.status # "QUEUED"

CarriersInv == TypeInv /\ AnswersInv /\ GoneInv /\ BegunInv /\ CarrierInv

-----------------------------------------------------------------------------
(* The books: which rows the broker has had.                               *)

(* A row's status changes only to PENDING, PUBLISHED or FAILED.            *)
RowsStay == \A s \in Slots : events'[s].status = "ABSENT" => events[s].status = "ABSENT"

LEMMA BooksKept ==
    ASSUME AnswersInv, GoneInv, UNCHANGED <<round, accepted>>, RowsStay
    PROVE  AnswersInv' /\ GoneInv'
  BY DEF AnswersInv, GoneInv, Working, Awaited, RowsStay

(* An answer that is dealt with, or never comes.                           *)
LEMMA BooksSettled ==
    ASSUME TypeInv, AnswersInv, GoneInv, NEW p \in Publishers, accepted' = accepted, RowsStay,
           round' \in [Publishers -> Rounds],
           \A q \in Publishers, s \in Slots :
              /\ Working(q, s)' => Working(q, s)
              /\ round'[q].answer[s] = "accepted" => round[q].answer[s] = "accepted"
    PROVE  AnswersInv' /\ GoneInv'
  BY DEF AnswersInv, GoneInv, RowsStay

LEMMA ScheduleRetryStays ==
    ASSUME TypeInv, NEW p \in Publishers, NEW s \in Slots,
           ScheduleRetry(p, s) \/ MarkPublished(p, s)
    PROVE  RowsStay
  <1>1. \A t \in Slots : t # s => events'[t] = events[t]
    BY DEF ScheduleRetry, MarkPublished, TypeInv, RowsInv
  <1>2. events'[s] = events[s] \/ events'[s].status \in {"PENDING", "PUBLISHED", "FAILED"}
    <2>1. CASE ScheduleRetry(p, s)
      <3>1. Retried(events[s]).status \in {"PENDING", "FAILED"}
        BY DEF Retried, TypeInv, RowsInv, Row
      <3> QED
        BY <2>1, <3>1 DEF ScheduleRetry, TypeInv, RowsInv
    <2>2. CASE MarkPublished(p, s)
      BY <2>2 DEF MarkPublished, TypeInv, RowsInv, Row
    <2> QED
      BY <2>1, <2>2
  <1> QED
    BY <1>1, <1>2 DEF RowsStay

LEMMA PublisherBooks ==
    ASSUME TypeInv, AnswersInv, GoneInv, NEW p \in Publishers, PublisherSteps(p)
    PROVE  AnswersInv' /\ GoneInv'
  <1>1. round \in [Publishers -> Rounds] /\ round' \in [Publishers -> Rounds]
    BY PublisherTypes DEF TypeInv, RoundsInv
  <1>2. CASE ClaimPending(p)
    <2>1. accepted' = accepted /\ RowsStay
      BY <1>2 DEF ClaimPending, ghosts, RowsStay, ClaimableRow, TypeInv, RowsInv, Row
    <2>2. \A q \in Publishers : round'[q].answer = round[q].answer
      BY <1>1, <1>2 DEF ClaimPending, Rounds
    <2>3. \A q \in Publishers : round'[q].todo = round[q].todo \/ (\A s \in round'[q].todo : events[s].status = "PENDING")
      BY <1>1, <1>2 DEF ClaimPending, ClaimableRow, Rounds
    <2>4. \A q \in Publishers, s \in Slots : Working(q, s)' => Working(q, s) \/ events[s].status = "PENDING"
      BY <2>2, <2>3 DEF Working, Awaited
    <2> QED
      BY <2>1, <2>2, <2>4 DEF AnswersInv, GoneInv, RowsStay
  <1>3. ASSUME NEW s \in Slots, Send(p, s)
        PROVE  AnswersInv' /\ GoneInv'
    <2>1. events' = events /\ Working(p, s) /\ events[s].status # "ABSENT"
      BY <1>3 DEF Send, Working, GoneInv
    <2>2. accepted' = [accepted EXCEPT ![s] = @ + 1] /\ accepted'[s] > 0
      BY <1>3 DEF Send, TypeInv, CountersInv
    <2>3. \A q \in Publishers, t \in Slots :
            q # p \/ t # s => round'[q].answer[t] = round[q].answer[t]
      BY <1>1, <1>3 DEF Send, Rounds
    <2>4. \A q \in Publishers : round'[q].todo \subseteq round[q].todo
      BY <1>1, <1>3 DEF Send, Rounds
    <2>5. \A q \in Publishers, t \in Slots : t # s => (Working(q, t)' => Working(q, t))
      BY <2>3, <2>4 DEF Working, Awaited
    <2>6. \A t \in Slots : t # s => accepted'[t] = accepted[t]
      BY <2>2 DEF TypeInv, CountersInv
    <2> HIDE DEF Working
    <2> QED
      BY <2>1, <2>2, <2>3, <2>5, <2>6 DEF AnswersInv, GoneInv
  <1>4. CASE \E s \in Slots : \/ SendInVain(p, s) \/ SendThrows(p, s)
                             \/ SettleConfirmed(p, s) \/ SettleRefused(p, s)
                             \/ SettleTooLate(p, s) \/ SettleFails(p, s)
    <2>1. PICK s \in Slots : \/ SendInVain(p, s) \/ SendThrows(p, s)
                             \/ SettleConfirmed(p, s) \/ SettleRefused(p, s)
                             \/ SettleTooLate(p, s) \/ SettleFails(p, s)
      BY <1>4
    <2>2. accepted' = accepted
      BY <2>1 DEF SendInVain, SendThrows, SettleConfirmed, SettleRefused, SettleTooLate,
                  SettleFails, ghosts
    <2>3. RowsStay
      <3>1. events' = events \/ ScheduleRetry(p, s) \/ MarkPublished(p, s)
        BY <2>1 DEF SendInVain, SendThrows, SettleConfirmed, SettleRefused, SettleTooLate,
                    SettleFails
      <3> QED
        BY <3>1, ScheduleRetryStays DEF RowsStay
    <2>4. \/ \E a \in {"refused", "lost"} :
                /\ s \in round[p].todo
                /\ round' = [round EXCEPT ![p].todo = @ \ {s}, ![p].answer[s] = a]
          \/ round' = [round EXCEPT ![p].todo = @ \ {s}]
          \/ round' = [round EXCEPT ![p].answer[s] = "none"]
      BY <2>1 DEF SendInVain, SendThrows, SettleConfirmed, SettleRefused, SettleTooLate,
                  SettleFails, Settling
    <2>5. \A q \in Publishers : round'[q].todo \subseteq round[q].todo
      BY <1>1, <2>4 DEF Rounds
    <2>6. \A q \in Publishers, t \in Slots :
            \/ round'[q].answer[t] = round[q].answer[t]
            \/ round'[q].answer[t] = "none"
            \/ round'[q].answer[t] \in {"refused", "lost"} /\ t \in round[q].todo
      <3>1. CASE round' = [round EXCEPT ![p].todo = @ \ {s}]
        BY <1>1, <3>1 DEF Rounds
      <3>2. CASE round' = [round EXCEPT ![p].answer[s] = "none"]
        BY <1>1, <3>2 DEF Rounds
      <3>3. ASSUME NEW a \in {"refused", "lost"}, s \in round[p].todo,
                   round' = [round EXCEPT ![p].todo = @ \ {s}, ![p].answer[s] = a]
            PROVE  \A q \in Publishers, t \in Slots :
                      \/ round'[q].answer[t] = round[q].answer[t]
                      \/ round'[q].answer[t] = a /\ t \in round[q].todo
        BY <1>1, <3>3 DEF Rounds
      <3> QED
        BY <2>4, <3>1, <3>2, <3>3
    <2>7. \A q \in Publishers, t \in Slots : Working(q, t)' => Working(q, t)
      BY <2>5, <2>6 DEF Working, Awaited
    <2>8. \A q \in Publishers, t \in Slots :
            round'[q].answer[t] = "accepted" => round[q].answer[t] = "accepted"
      BY <2>6
    <2> HIDE DEF Working
    <2> QED
      BY <1>1, <2>2, <2>3, <2>7, <2>8, BooksSettled
  <1>5. CASE PublisherCrashes(p)
    <2>1. accepted' = accepted /\ RowsStay
      BY <1>5 DEF PublisherCrashes, ghosts, RowsStay
    <2>2. \A q \in Publishers : round'[q] = IF q = p THEN NoRound ELSE round[q]
      BY <1>1, <1>5 DEF PublisherCrashes
    <2>3. \A t \in Slots : t \notin NoRound.todo /\ NoRound.answer[t] = "none"
      BY DEF NoRound
    <2>4. \A q \in Publishers, t \in Slots : Working(q, t)' => Working(q, t)
      BY <2>2, <2>3 DEF Working, Awaited
    <2>5. \A q \in Publishers, t \in Slots :
            round'[q].answer[t] = "accepted" => round[q].answer[t] = "accepted"
      BY <2>2, <2>3
    <2> HIDE DEF Working
    <2> QED
      BY <1>1, <2>1, <2>4, <2>5, BooksSettled
  <1> QED
    BY <1>2, <1>3, <1>4, <1>5 DEF PublisherSteps

LEMMA RowBooks ==
    ASSUME TypeInv, AnswersInv, GoneInv, NEW s \in Slots, RowSteps(s)
    PROVE  AnswersInv' /\ GoneInv'
  <1>1. CASE RowIsHistory(s)
    <2>1. /\ \A q \in Publishers : ~Working(q, s)
          /\ round' = round
          /\ \A t \in Slots : t # s => events'[t] = events[t] /\ accepted'[t] = accepted[t]
          /\ accepted'[s] = 0
      BY <1>1 DEF RowIsHistory, TypeInv, RowsInv, CountersInv
    <2>2. \A q \in Publishers, t \in Slots : Working(q, t)' = Working(q, t)
      BY <2>1 DEF Working, Awaited
    <2>3. \A q \in Publishers : round[q].answer[s] = "none"
      BY <2>1 DEF Working, Awaited
    <2> HIDE DEF Working
    <2> QED
      BY <2>1, <2>2, <2>3 DEF AnswersInv, GoneInv
  <1>2. CASE RowLeaseEnds(s) \/ RoundIsSlow(s) \/ RowComesDue(s) \/ CooldownEnds(s)
    <2>1. UNCHANGED <<round, accepted>>
      BY <1>2 DEF RowLeaseEnds, RoundIsSlow, RowLeaseRunsOut, RowComesDue, CooldownEnds, ghosts
    <2>2. RowsStay
      BY <1>2 DEF RowLeaseEnds, RoundIsSlow, RowLeaseRunsOut, RowComesDue, CooldownEnds, RowsStay,
                  TypeInv, RowsInv, Row
    <2> QED
      BY <2>1, <2>2, BooksKept
  <1> QED
    BY <1>1, <1>2 DEF RowSteps

(* The other steps leave the books alone, but for a scan's new row.        *)
LEMMA OtherBooks ==
    ASSUME TypeInv, AnswersInv, GoneInv,
           \/ \E w \in Workers : WorkerSteps(w)
           \/ \E k \in Counts : RetryComesBack(k)
           \/ \E c \in Scanners : ScannerSteps(c)
           \/ RunSteps
    PROVE  AnswersInv' /\ GoneInv'
  <1>1. CASE \E w \in Workers : WorkerSteps(w)
    <2>1. UNCHANGED <<round, accepted, events>>
      BY <1>1 DEF WorkerSteps, Deliver, ClaimGranted, ClaimExhausts, ClaimEmpty, ClaimSkipsLock,
                  ClaimThrows, RunEnds, RunIsLost, RunIsReleased, RunThrows, Acknowledge,
                  RejectDelivery, Defer, DeferFails, ChannelCloses, WorkerCrashes, ghosts
    <2> QED
      BY <2>1, BooksKept DEF RowsStay
  <1>2. CASE (\E k \in Counts : RetryComesBack(k)) \/ RunSteps
    <2>1. UNCHANGED <<round, accepted, events>>
      BY <1>2 DEF RetryComesBack, RunSteps, RunLeaseEnds, HeartbeatFails, RunLeaseRunsOut,
                  Withdraw,
                  RunAges, ghosts
    <2> QED
      BY <2>1, BooksKept DEF RowsStay
  <1>3. ASSUME NEW c \in Scanners, ScannerSteps(c)
        PROVE  AnswersInv' /\ GoneInv'
    <2>1. UNCHANGED <<round, accepted>>
      BY <1>3 DEF ScannerSteps, ScanReads, ScanLocks, ScanSkips, ScanCommits, ScanRollsBack,
                  ghosts
    <2>2. events' = events \/ \E s \in Slots : events' = [events EXCEPT ![s] = Fresh]
      BY <1>3 DEF ScannerSteps, ScanReads, ScanLocks, ScanSkips, ScanCommits, ScanRollsBack
    <2>3. Fresh.status = "PENDING"
      BY DEF Fresh, Absent
    <2>4. RowsStay
      BY <2>2, <2>3 DEF RowsStay, TypeInv, RowsInv
    <2> QED
      BY <2>1, <2>4, BooksKept
  <1> QED
    BY <1>1, <1>2, <1>3

-----------------------------------------------------------------------------
(* What never comes back: a run is not queued again, and stranded stays.   *)

Forward == (run'.status = "QUEUED" => run.status = "QUEUED") /\ (stranded => stranded')

LEMMA ForwardStep ==
    ASSUME TypeInv, Next
    PROVE  Forward
  <1>1. CASE \E p \in Publishers : PublisherSteps(p)
    <2>1. run' = run
      BY <1>1, ZenonT(30) DEF PublisherSteps, ClaimPending, Send, SendInVain, SendThrows, SettleConfirmed,
                  SettleRefused, SettleTooLate, SettleFails, PublisherCrashes
    <2>2. stranded' = stranded \/ \E p \in Publishers, s \in Slots : ScheduleRetry(p, s)
      BY <1>1, ZenonT(30) DEF PublisherSteps, ClaimPending, Send, SendInVain, SendThrows, SettleConfirmed,
                  SettleRefused, SettleTooLate, SettleFails, PublisherCrashes, ghosts
    <2>3. stranded => stranded'
      BY <2>2, Zenon DEF ScheduleRetry
    <2> QED
      BY <2>1, <2>3 DEF Forward
  <1>2. CASE (\E s \in Slots : RowSteps(s)) \/ (\E k \in Counts : RetryComesBack(k))
    <2>1. run' = run /\ stranded' = stranded
      BY <1>2 DEF RowSteps, RowLeaseEnds, RoundIsSlow, RowLeaseRunsOut, RowComesDue, CooldownEnds,
                  RowIsHistory, RetryComesBack, ghosts
    <2> QED
      BY <2>1 DEF Forward
  <1>3. ASSUME NEW w \in Workers, WorkerSteps(w) PROVE Forward
    <2>1. \/ run' = run \/ run'.status \in {"RUNNING", "ENDED"} \/ run' = Released(w)
      BY <1>3 DEF WorkerSteps, Deliver, ClaimGranted, ClaimExhausts, ClaimEmpty, ClaimSkipsLock,
                  ClaimThrows, RunEnds, RunIsLost, RunIsReleased, RunThrows, Acknowledge,
                  RejectDelivery, Defer, DeferFails, ChannelCloses, WorkerCrashes, Ended, TypeInv,
                  SoundRun, RunRows
    <2>2. Released(w).status = run.status
      BY DEF Released, TypeInv, SoundRun, RunRows
    <2>3. stranded => stranded'
      BY <1>3 DEF WorkerSteps, Deliver, ClaimGranted, ClaimExhausts, ClaimEmpty, ClaimSkipsLock,
                  ClaimThrows, RunEnds, RunIsLost, RunIsReleased, RunThrows, Acknowledge,
                  RejectDelivery, Defer, DeferFails, Reject, ChannelCloses, WorkerCrashes, ghosts
    <2> QED
      BY <2>1, <2>2, <2>3 DEF Forward
  <1>4. CASE \E c \in Scanners : ScannerSteps(c)
    BY <1>4 DEF ScannerSteps, ScanReads, ScanLocks, ScanSkips, ScanCommits, ScanRollsBack, ghosts,
                Forward
  <1>5. CASE RunSteps
    BY <1>5 DEF RunSteps, RunLeaseEnds, HeartbeatFails, RunLeaseRunsOut, Withdraw, RunAges, Ended,
                ghosts, Forward, TypeInv, SoundRun, RunRows
  <1> QED
    BY <1>1, <1>2, <1>3, <1>4, <1>5 DEF Next

(* A thread runs the job only after its claim made the run RUNNING.        *)
LEMMA BegunStep ==
    ASSUME TypeInv, BegunInv, Next
    PROVE  BegunInv'
  <1>1. Forward
    BY ForwardStep
  <1>2. CASE worker' = worker
    BY <1>1, <1>2 DEF BegunInv, Forward
  <1>3. ASSUME NEW w \in Workers, WorkerSteps(w) PROVE BegunInv'
    <2>1. \A v \in Workers : v # w => worker'[v] = worker[v]
      BY <1>3 DEF WorkerSteps, Deliver, ClaimGranted, ClaimExhausts, ClaimEmpty, ClaimSkipsLock,
                  ClaimThrows, RunEnds, RunIsLost, RunIsReleased, RunThrows, Acknowledge,
                  RejectDelivery, Defer, DeferFails, Reject, ChannelCloses, WorkerCrashes, Go, Rest,
                  TypeInv, WorkersInv
    <2>2. CASE ClaimGranted(w)
      <3>1. run'.status = "RUNNING"
        BY <2>2 DEF ClaimGranted, TypeInv, SoundRun, RunRows
      <3> QED
        BY <3>1 DEF BegunInv
    <2>3. CASE RunEnds(w) \/ RunIsLost(w) \/ RunIsReleased(w)
      BY <1>1, <2>1, <2>3 DEF RunEnds, RunIsLost, RunIsReleased, BegunInv, Forward
    <2>4. CASE ChannelCloses(w)
      <3>1. worker'[w].pc = worker[w].pc
        BY <2>4 DEF ChannelCloses, TypeInv, WorkersInv, Places
      <3> QED
        BY <1>1, <2>1, <3>1 DEF BegunInv, Forward
    <2>5. CASE \/ Deliver(w) \/ ClaimExhausts(w) \/ ClaimEmpty(w) \/ ClaimSkipsLock(w)
               \/ ClaimThrows(w) \/ RunThrows(w) \/ Acknowledge(w) \/ RejectDelivery(w)
               \/ Defer(w) \/ DeferFails(w) \/ WorkerCrashes(w)
      <3>1. worker'[w].pc \in {"idle", "got", "deferring", "rejecting"}
        BY <2>5 DEF Deliver, ClaimExhausts, ClaimEmpty, ClaimSkipsLock, ClaimThrows, RunThrows,
                    Acknowledge, RejectDelivery, Defer, DeferFails, Reject, WorkerCrashes, Go, Rest,
                    Idle, TypeInv, WorkersInv, Places
      <3> QED
        BY <1>1, <2>1, <3>1 DEF BegunInv, Forward
    <2> QED
      BY <1>3, <2>2, <2>3, <2>4, <2>5 DEF WorkerSteps
  <1>4. CASE ~\E w \in Workers : WorkerSteps(w)
    <2>1. worker' = worker
      BY <1>4, ZenonT(30) DEF Next, PublisherSteps, ClaimPending, Send, SendInVain, SendThrows,
                  SettleConfirmed, SettleRefused, SettleTooLate, SettleFails, PublisherCrashes,
                  RowSteps, RowLeaseEnds, RoundIsSlow, RowLeaseRunsOut, RowComesDue, CooldownEnds,
                  RowIsHistory, RetryComesBack, ScannerSteps, ScanReads, ScanLocks, ScanSkips,
                  ScanCommits, ScanRollsBack, RunSteps, RunLeaseEnds, HeartbeatFails,
                  RunLeaseRunsOut, Withdraw, RunAges
    <2> QED
      BY <1>2, <2>1
  <1> QED
    BY <1>3, <1>4

-----------------------------------------------------------------------------
(* Every step hands the job on: it leaves rows and carriers as they are,   *)
(* or makes a new carrier or row, or the run no longer needs one.          *)

RowsKept == \A s \in Slots : Unsent(s) => Unsent(s)'

HandsOn ==
    \/ (Carried => Carried') /\ RowsKept
    \/ Carried' \/ \E s \in Slots : Unsent(s)'
    \/ run'.status # "QUEUED"
    \/ stranded'

LEMMA NobodyCarries ==
    ASSUME UNCHANGED <<queue, retryQueue, worker, scan>>
    PROVE  Carried => Carried'
  BY DEF Carried, MessageReady, Locked

LEMMA RowsUntouched ==
    ASSUME UNCHANGED <<events, accepted>>
    PROVE  RowsKept
  BY DEF RowsKept, Unsent

(* A rescheduled row is still to be sent, unless it FAILED.                *)
LEMMA RetryHandsOn ==
    ASSUME TypeInv, NEW p \in Publishers, NEW s \in Slots, ScheduleRetry(p, s),
           accepted' = accepted
    PROVE  RowsKept \/ stranded'
  <1>1. CASE Holds(p, s)
    <2>1. \A t \in Slots : t # s => events'[t] = events[t]
      BY DEF ScheduleRetry, TypeInv, RowsInv
    <2>2. CASE events[s].retries + 1 >= MaxAttempts
      BY <1>1, <2>2, Zenon DEF ScheduleRetry
    <2>3. CASE ~(events[s].retries + 1 >= MaxAttempts)
      <3>1. Retried(events[s]).status = "PENDING"
        BY <2>3 DEF Retried, TypeInv, RowsInv, Row
      <3>2. events'[s].status = "PENDING"
        BY <1>1, <3>1 DEF ScheduleRetry, TypeInv, RowsInv
      <3> QED
        BY <2>1, <3>2 DEF RowsKept, Unsent
    <2> QED
      BY <2>2, <2>3
  <1>2. CASE ~Holds(p, s)
    BY <1>2 DEF ScheduleRetry, RowsKept, Unsent
  <1> QED
    BY <1>1, <1>2

LEMMA PublisherHandsOn ==
    ASSUME TypeInv, AnswersInv, NEW p \in Publishers, PublisherSteps(p)
    PROVE  HandsOn
  <1>1. CASE ClaimPending(p)
    <2>1. UNCHANGED <<queue, retryQueue, worker, scan, accepted>>
      BY <1>1 DEF ClaimPending, broker, ghosts
    <2>2. \A s \in Slots : events'[s].status = events[s].status
      BY <1>1 DEF ClaimPending, TypeInv, RowsInv, Row
    <2>3. RowsKept
      BY <2>1, <2>2 DEF RowsKept, Unsent
    <2> QED
      BY <2>1, <2>3, NobodyCarries DEF HandsOn
  <1>2. ASSUME NEW s \in Slots, Send(p, s) PROVE HandsOn
    <2>1. 0 \in Counts /\ queue' = Add(queue, 0)
      BY <1>2, NextCount, DeliveryAssumption DEF Send, Counts
    <2>2. queue'[0] > 0
      BY <2>1 DEF Add, TypeInv, BrokerInv, Queues
    <2> QED
      BY <2>1, <2>2 DEF HandsOn, Carried, MessageReady
  <1>3. ASSUME NEW s \in Slots,
               \/ SendInVain(p, s) \/ SendThrows(p, s) \/ SettleRefused(p, s)
               \/ SettleTooLate(p, s) \/ SettleFails(p, s)
        PROVE  HandsOn
    <2>1. UNCHANGED <<queue, retryQueue, worker, scan, accepted>>
      BY <1>3 DEF SendInVain, SendThrows, SettleRefused, SettleTooLate, SettleFails, broker,
                  ghosts
    <2>2. events' = events \/ ScheduleRetry(p, s)
      BY <1>3 DEF SendInVain, SendThrows, SettleRefused, SettleTooLate, SettleFails
    <2>3. RowsKept \/ stranded'
      BY <2>1, <2>2, RetryHandsOn, RowsUntouched
    <2> QED
      BY <2>1, <2>3, NobodyCarries DEF HandsOn
  <1>4. ASSUME NEW s \in Slots, SettleConfirmed(p, s) PROVE HandsOn
    <2>1. UNCHANGED <<queue, retryQueue, worker, scan, accepted>> /\ MarkPublished(p, s)
      BY <1>4 DEF SettleConfirmed, broker, ghosts
    <2>2. ~Unsent(s)
      BY <1>4 DEF SettleConfirmed, AnswersInv, Unsent
    <2>3. \A t \in Slots : t # s => events'[t] = events[t]
      BY <2>1 DEF MarkPublished, TypeInv, RowsInv
    <2>4. RowsKept
      BY <2>1, <2>2, <2>3 DEF RowsKept, Unsent
    <2> QED
      BY <2>1, <2>4, NobodyCarries DEF HandsOn
  <1>5. CASE PublisherCrashes(p)
    BY <1>5, NobodyCarries, RowsUntouched DEF PublisherCrashes, HandsOn, broker, ghosts
  <1> QED
    BY <1>1, <1>2, <1>3, <1>4, <1>5 DEF PublisherSteps

LEMMA RowHandsOn ==
    ASSUME TypeInv, NEW s \in Slots, RowSteps(s)
    PROVE  HandsOn
  <1>1. UNCHANGED <<queue, retryQueue, worker, scan>>
    BY DEF RowSteps, RowLeaseEnds, RoundIsSlow, RowLeaseRunsOut, RowComesDue, CooldownEnds,
           RowIsHistory, broker
  <1>2. RowsKept
    <2>1. CASE RowIsHistory(s)
      <3>1. /\ ~Unsent(s)
            /\ \A t \in Slots : t # s => events'[t] = events[t] /\ accepted'[t] = accepted[t]
        BY <2>1 DEF RowIsHistory, Unsent, TypeInv, RowsInv, CountersInv
      <3> QED
        BY <3>1 DEF RowsKept, Unsent
    <2>2. CASE ~RowIsHistory(s)
      <3>1. /\ accepted' = accepted
            /\ \A t \in Slots : events'[t].status = events[t].status
        BY <2>2 DEF RowSteps, RowLeaseEnds, RoundIsSlow, RowLeaseRunsOut, RowComesDue,
                    CooldownEnds,
                    TypeInv, RowsInv, Row, ghosts
      <3> QED
        BY <3>1 DEF RowsKept, Unsent
    <2> QED
      BY <2>1, <2>2
  <1> QED
    BY <1>1, <1>2, NobodyCarries DEF HandsOn

(* A thread that goes on still has its message.                            *)
LEMMA GoKeepsMessage ==
    ASSUME TypeInv, NEW w \in Workers, NEW c, Go(w, c), UNCHANGED <<queue, retryQueue, scan>>
    PROVE  Carried => Carried'
  <1>1. \A v \in Workers : worker'[v].unacked = worker[v].unacked
    BY DEF Go, TypeInv, WorkersInv, Places
  <1> QED
    BY <1>1 DEF Carried, MessageReady, Locked

(* A thread that rests loses no message but its own.                       *)
LEMMA RestKeepsOthers ==
    ASSUME TypeInv, NEW w \in Workers, Rest(w), ~worker[w].unacked, UNCHANGED scan,
           \A k \in Counts : /\ queue[k] > 0 => queue'[k] > 0
                             /\ retryQueue[k] > 0 => retryQueue'[k] > 0
    PROVE  Carried => Carried'
  <1>1. \A v \in Workers : worker[v].unacked => worker'[v] = worker[v]
    BY DEF Rest, TypeInv, WorkersInv
  <1> QED
    BY <1>1 DEF Carried, MessageReady, Locked

LEMMA QueueAdded ==
    ASSUME NEW q \in Queues, NEW k \in Counts
    PROVE  Add(q, k)[k] > 0 /\ \A j \in Counts : q[j] > 0 => Add(q, k)[j] > 0
  BY DeliveryAssumption DEF Queues, Add

LEMMA DeliverHandsOn ==
    ASSUME TypeInv, NEW w \in Workers, Deliver(w)
    PROVE  HandsOn
  <1>1. worker'[w].unacked
    BY DEF Deliver, TypeInv, WorkersInv
  <1> QED
    BY <1>1 DEF HandsOn, Carried

LEMMA ClaimHandsOn ==
    ASSUME TypeInv, NEW w \in Workers,
           ClaimGranted(w) \/ ClaimExhausts(w) \/ ClaimEmpty(w) \/ ClaimSkipsLock(w) \/ ClaimThrows(w)
    PROVE  HandsOn
  <1>1. CASE ClaimGranted(w) \/ ClaimExhausts(w)
    BY <1>1 DEF ClaimGranted, ClaimExhausts, Ended, HandsOn, TypeInv, SoundRun, RunRows
  <1>2. CASE ClaimEmpty(w)
    BY <1>2 DEF ClaimEmpty, Unowned, HandsOn, TypeInv, SoundRun, RunRows
  <1>3. CASE ClaimSkipsLock(w)
    BY <1>3 DEF ClaimSkipsLock, Locked, HandsOn, Carried
  <1>4. CASE ClaimThrows(w)
    <2>1. /\ \E c \in {"deferring", "rejecting"} : Go(w, c)
          /\ UNCHANGED <<queue, retryQueue, scan, events, accepted>>
      BY <1>4 DEF ClaimThrows, broker, ghosts
    <2> QED
      BY <2>1, GoKeepsMessage, RowsUntouched DEF HandsOn
  <1> QED
    BY <1>1, <1>2, <1>3, <1>4

LEMMA RunEndHandsOn ==
    ASSUME TypeInv, NEW w \in Workers,
           RunEnds(w) \/ RunIsLost(w) \/ RunIsReleased(w) \/ RunThrows(w)
    PROVE  HandsOn
  <1>1. Go(w, "done") \/ Go(w, "deferring") \/ Go(w, "rejecting")
    BY DEF RunEnds, RunIsLost, RunIsReleased, RunThrows
  <1>2. UNCHANGED <<queue, retryQueue, scan, events, accepted>>
    BY DEF RunEnds, RunIsLost, RunIsReleased, RunThrows, broker, ghosts
  <1> QED
    BY <1>1, <1>2, GoKeepsMessage, RowsUntouched DEF HandsOn

(* A message is acknowledged when the run is not queued, handed over, or   *)
(* counted as a dead letter.                                               *)
LEMMA SettleDeliveryHandsOn ==
    ASSUME TypeInv, BegunInv, NEW w \in Workers,
           Acknowledge(w) \/ RejectDelivery(w) \/ Defer(w) \/ DeferFails(w)
    PROVE  HandsOn
  <1>1. UNCHANGED <<events, accepted, queue, scan>> /\ Rest(w)
    BY DEF Acknowledge, RejectDelivery, Defer, DeferFails, Reject, broker, ghosts
  <1>2. worker[w].k \in Counts /\ worker[w].unacked \in BOOLEAN
    BY DEF TypeInv, WorkersInv, Places
  <1>3. CASE Acknowledge(w)
    BY <1>3 DEF Acknowledge, BegunInv, HandsOn
  <1>4. CASE Defer(w)
    <2>1. worker[w].k + 1 \in Counts /\ retryQueue' = Add(retryQueue, worker[w].k + 1)
      BY <1>2, <1>4, NextCount DEF Defer
    <2>2. retryQueue'[worker[w].k + 1] > 0
      BY <2>1, QueueAdded DEF TypeInv, BrokerInv
    <2> QED
      BY <2>1, <2>2 DEF HandsOn, Carried, MessageReady
  <1>5. CASE RejectDelivery(w) \/ DeferFails(w)
    <2>1. CASE worker[w].unacked
      <3>1. Reject(w)
        BY <1>5 DEF RejectDelivery, DeferFails
      <3>2. stranded'
        BY <2>1, <3>1, Zenon DEF Reject
      <3> QED
        BY <3>2 DEF HandsOn
    <2>2. CASE ~worker[w].unacked
      <3>1. \A k \in Counts : retryQueue[k] > 0 => retryQueue'[k] > 0
        <4>1. \/ retryQueue' = retryQueue
              \/ worker[w].k < MaxRedeliveries /\ retryQueue' = Add(retryQueue, worker[w].k + 1)
          BY <1>5 DEF RejectDelivery, DeferFails, broker
        <4> QED
          BY <1>2, <4>1, NextCount, QueueAdded DEF TypeInv, BrokerInv
      <3> QED
        BY <1>1, <2>2, <3>1, RestKeepsOthers, RowsUntouched DEF HandsOn
    <2> QED
      BY <1>2, <2>1, <2>2
  <1> QED
    BY <1>3, <1>4, <1>5

LEMMA DeliveryFailureHandsOn ==
    ASSUME TypeInv, NEW w \in Workers, ChannelCloses(w) \/ WorkerCrashes(w)
    PROVE  HandsOn
  <1>1. worker[w].k \in Counts /\ worker[w].unacked \in BOOLEAN
    BY DEF TypeInv, WorkersInv, Places
  <1>2. Requeue(w) /\ UNCHANGED <<events, accepted, retryQueue, scan>>
    BY DEF ChannelCloses, WorkerCrashes, ghosts
  <1>3. CASE worker[w].unacked
    <2>1. queue'[worker[w].k] > 0
      BY <1>1, <1>2, <1>3, QueueAdded DEF Requeue, TypeInv, BrokerInv
    <2> QED
      BY <1>1, <2>1 DEF HandsOn, Carried, MessageReady
  <1>4. CASE ~worker[w].unacked
    <2>1. WorkerCrashes(w) /\ queue' = queue
      BY <1>2, <1>4 DEF ChannelCloses, Requeue
    <2>2. Rest(w)
      BY <2>1 DEF WorkerCrashes
    <2> QED
      BY <1>2, <1>4, <2>1, <2>2, RestKeepsOthers, RowsUntouched DEF HandsOn
  <1> QED
    BY <1>1, <1>3, <1>4

LEMMA RetryQueueHandsOn ==
    ASSUME TypeInv, NEW k \in Counts, RetryComesBack(k)
    PROVE  HandsOn
  <1>1. queue'[k] > 0
    BY QueueAdded DEF RetryComesBack, TypeInv, BrokerInv
  <1> QED
    BY <1>1 DEF HandsOn, Carried, MessageReady

(* A scan that ends has written a row, or never held the run.              *)
LEMMA ScannerHandsOn ==
    ASSUME TypeInv, GoneInv, NEW c \in Scanners, ScannerSteps(c)
    PROVE  HandsOn
  <1>1. CASE ScanReads(c) \/ ScanSkips(c)
    <2>1. UNCHANGED <<queue, retryQueue, worker, events, accepted>>
      BY <1>1 DEF ScanReads, ScanSkips, broker, ghosts
    <2>2. \A d \in Scanners : scan[d] = "locked" => scan'[d] = "locked"
      BY <1>1 DEF ScanReads, ScanSkips, TypeInv, ScanInv
    <2> QED
      BY <2>1, <2>2, RowsUntouched DEF HandsOn, Carried, MessageReady, Locked
  <1>2. CASE ScanLocks(c)
    BY <1>2 DEF ScanLocks, HandsOn, Carried, Locked, TypeInv, ScanInv
  <1>3. CASE ScanCommits(c)
    <2>1. PICK s \in Slots : events[s].status = "ABSENT" /\ events' = [events EXCEPT ![s] = Fresh]
      BY <1>3 DEF ScanCommits
    <2>2. Fresh.status = "PENDING"
      BY DEF Fresh, Absent
    <2>3. accepted[s] = 0 /\ accepted' = accepted
      BY <1>3, <2>1 DEF ScanCommits, GoneInv
    <2>4. Unsent(s)'
      BY <2>1, <2>2, <2>3 DEF Unsent, TypeInv, RowsInv
    <2> QED
      BY <2>4 DEF HandsOn
  <1>4. CASE ScanRollsBack(c)
    BY <1>4 DEF ScanRollsBack, HandsOn
  <1> QED
    BY <1>1, <1>2, <1>3, <1>4 DEF ScannerSteps

LEMMA RunHandsOn ==
    ASSUME RunSteps
    PROVE  HandsOn
  <1>1. UNCHANGED <<queue, retryQueue, worker, scan, events, accepted>>
    BY DEF RunSteps, RunLeaseEnds, HeartbeatFails, RunLeaseRunsOut, Withdraw, RunAges, broker,
           ghosts
  <1> QED
    BY <1>1, NobodyCarries, RowsUntouched DEF HandsOn

LEMMA EveryStepHandsOn ==
    ASSUME CarriersInv, Next
    PROVE  HandsOn
  <1>1. ASSUME NEW w \in Workers, WorkerSteps(w) PROVE HandsOn
    BY <1>1, DeliverHandsOn, ClaimHandsOn, RunEndHandsOn, SettleDeliveryHandsOn,
       DeliveryFailureHandsOn DEF WorkerSteps, CarriersInv
  <1> QED
    BY <1>1, PublisherHandsOn, RowHandsOn, RetryQueueHandsOn, ScannerHandsOn, RunHandsOn
       DEF Next, CarriersInv

-----------------------------------------------------------------------------
LEMMA CarriersInit == Init => CarriersInv
  <1> SUFFICES ASSUME Init PROVE CarriersInv
    OBVIOUS
  <1>1. /\ round = [p \in Publishers |-> NoRound]
        /\ worker = [w \in Workers |-> Idle]
        /\ accepted = [s \in Slots |-> 0]
        /\ \E s \in Slots : events = [t \in Slots |-> IF t = s THEN Fresh ELSE Absent]
    BY DEF Init
  <1>2. AnswersInv /\ GoneInv
    BY <1>1 DEF AnswersInv, GoneInv, Working, Awaited, NoRound
  <1>3. BegunInv
    BY <1>1 DEF BegunInv, Idle
  <1>4. Fresh.status = "PENDING"
    BY DEF Fresh, Absent
  <1>5. CarrierInv
    BY <1>1, <1>4 DEF CarrierInv, Unsent
  <1> QED
    BY <1>2, <1>3, <1>5, TypeInit DEF CarriersInv

LEMMA CarriersStep == CarriersInv /\ [Next]_vars => CarriersInv'
  <1> SUFFICES ASSUME CarriersInv, [Next]_vars PROVE CarriersInv'
    OBVIOUS
  <1>1. CASE UNCHANGED vars
    <2>1. TypeInv'
      BY TypeStep DEF CarriersInv
    <2>2. AnswersInv' /\ GoneInv'
      BY <1>1, BooksKept DEF vars, CarriersInv, RowsStay
    <2>3. BegunInv'
      BY <1>1 DEF vars, CarriersInv, BegunInv
    <2>4. CarrierInv'
      BY <1>1 DEF vars, CarriersInv, CarrierInv, Unsent, Carried, MessageReady, Locked
    <2> QED
      BY <2>1, <2>2, <2>3, <2>4 DEF CarriersInv
  <1>2. CASE Next
    <2>1. TypeInv'
      BY TypeStep DEF CarriersInv
    <2>2. AnswersInv' /\ GoneInv'
      BY <1>2, PublisherBooks, RowBooks, OtherBooks DEF Next, CarriersInv
    <2>3. BegunInv'
      BY <1>2, BegunStep DEF CarriersInv
    <2>4. Forward /\ HandsOn
      BY <1>2, ForwardStep, EveryStepHandsOn DEF CarriersInv
    <2>5. CarrierInv'
      BY <2>4, Zenon DEF CarriersInv, CarrierInv, HandsOn, Forward, RowsKept
    <2> QED
      BY <2>1, <2>2, <2>3, <2>5 DEF CarriersInv
  <1> QED
    BY <1>1, <1>2

(* A run that waits for its first worker always has its job on the way,    *)
(* unless a row FAILED, a message was dead-lettered or a scan rolled back, *)
(* for any number of publishers, workers, scanners and failures.           *)
THEOREM AlwaysOnItsWay == Spec => []JobOnItsWay
  <1>1. Spec => []CarriersInv
    BY CarriersInit, CarriersStep, PTL DEF Spec
  <1>2. CarriersInv => JobOnItsWay
    BY DEF CarriersInv, CarrierInv, Carried, Unsent, JobOnItsWay
  <1> QED
    BY <1>1, <1>2, PTL

-----------------------------------------------------------------------------
(***************************************************************************)
(* Why a row is sent once, and once more per failure at most: the broker   *)
(* may accept it once for every publisher that is about to send it, and    *)
(* once more if another publisher may yet claim it.                        *)
(***************************************************************************)

Senders(s) == {p \in Publishers : s \in round[p].todo}

(* The row is under the lease of a publisher that sends it, or has it      *)
(* accepted.                                                               *)
Kept(p, s) ==
    /\ events[s].holder = p /\ ~events[s].expired
    /\ s \in round[p].todo \/ round[p].answer[s] = "accepted"

Open(s) == events[s].status = "PENDING" /\ \A p \in Publishers : ~Kept(p, s)

One(b) == IF b THEN 1 ELSE 0

CreditOf(s) == accepted[s] + Cardinality(Senders(s)) + One(Open(s)) <= 1 + faults

CreditInv == \A s \in Slots : CreditOf(s)

LEMMA OneRange == ASSUME NEW b PROVE One(b) \in {0, 1}
  BY DEF One

LEMMA SendersFinite ==
    ASSUME NEW s
    PROVE  IsFiniteSet(Senders(s)) /\ Cardinality(Senders(s)) \in Nat
  <1>1. Senders(s) \subseteq Publishers /\ IsFiniteSet(Publishers)
    BY DeliveryAssumption DEF Senders
  <1> QED
    BY <1>1, FS_Subset, FS_CardinalityType

(* A step of publisher p changes the senders of a row by p only.           *)
OnlyRound(p) == \A q \in Publishers \ {p} : round'[q] = round[q]

LEMMA SendersCount ==
    ASSUME NEW p \in Publishers, OnlyRound(p), NEW s \in Slots
    PROVE  /\ Cardinality(Senders(s)) \in Nat /\ Cardinality(Senders(s))' \in Nat
           /\ Cardinality(Senders(s))' + One(s \in round[p].todo)
                 = Cardinality(Senders(s)) + One(s \in round'[p].todo)
  <1> DEFINE others == Senders(s) \ {p}
  <1>1. Senders(s) = IF s \in round[p].todo THEN others \union {p} ELSE others
    BY DEF Senders
  <1>2. Senders(s)' = IF s \in round'[p].todo THEN others \union {p} ELSE others
    BY DEF Senders, OnlyRound
  <1>3. p \notin others
    OBVIOUS
  <1>4. IsFiniteSet(others) /\ Cardinality(others) \in Nat
    <2>1. others \subseteq Senders(s)
      OBVIOUS
    <2> QED
      BY <2>1, SendersFinite, FS_Subset, FS_CardinalityType
  <1> HIDE DEF others
  <1>5. Cardinality(others \union {p}) = Cardinality(others) + 1
    BY <1>3, <1>4, FS_AddElement
  <1>6. Cardinality(Senders(s)) = Cardinality(others) + One(s \in round[p].todo)
    BY <1>1, <1>4, <1>5 DEF One
  <1>7. Cardinality(Senders(s)') = Cardinality(others) + One(s \in round'[p].todo)
    BY <1>2, <1>4, <1>5 DEF One
  <1>8. Cardinality(Senders(s))' = Cardinality(Senders(s)')
    OBVIOUS
  <1>9. One(s \in round[p].todo) \in {0, 1} /\ One(s \in round'[p].todo) \in {0, 1}
    BY OneRange
  <1> QED
    BY <1>4, <1>6, <1>7, <1>8, <1>9

LEMMA CreditKept ==
    ASSUME TypeInv, TypeInv', NEW p \in Publishers, OnlyRound(p), NEW s \in Slots, CreditOf(s),
           accepted'[s] + One(s \in round'[p].todo) + One(Open(s)') + faults
              <= accepted[s] + One(s \in round[p].todo) + One(Open(s)) + faults'
    PROVE  CreditOf(s)'
  <1>1. /\ Cardinality(Senders(s)) \in Nat /\ Cardinality(Senders(s))' \in Nat
        /\ Cardinality(Senders(s))' + One(s \in round[p].todo)
              = Cardinality(Senders(s)) + One(s \in round'[p].todo)
    BY SendersCount
  <1>2. accepted[s] + Cardinality(Senders(s)) + One(Open(s)) <= 1 + faults
    BY DEF CreditOf
  <1>3. /\ One(s \in round[p].todo) \in {0, 1} /\ One(s \in round'[p].todo) \in {0, 1}
        /\ One(Open(s)) \in {0, 1} /\ One(Open(s)') \in {0, 1}
    BY OneRange
  <1>4. accepted[s] \in Nat /\ accepted'[s] \in Nat /\ faults \in Nat /\ faults' \in Nat
    BY DEF TypeInv, CountersInv
  <1>5. accepted'[s] + Cardinality(Senders(s))' + One(Open(s)') <= 1 + faults'
    BY <1>1, <1>2, <1>3, <1>4
  <1>6. One(Open(s))' = One(Open(s)')
    BY DEF One
  <1> QED
    BY <1>5, <1>6 DEF CreditOf

(* A row that stays as it is opens only when its publisher lets it go.     *)
LEMMA OpensOnlyBy ==
    ASSUME NEW p \in Publishers, OnlyRound(p), NEW s \in Slots, events'[s] = events[s],
           events[s].status = "PENDING" /\ Kept(p, s) => Kept(p, s)',
           Open(s)'
    PROVE  Open(s)
  <1> SUFFICES ASSUME NEW q \in Publishers, Kept(q, s) PROVE FALSE
    BY DEF Open
  <1>1. events[s].status = "PENDING"
    BY DEF Open
  <1>2. CASE q = p
    BY <1>1, <1>2 DEF Open
  <1>3. CASE q # p
    <2>1. round'[q] = round[q]
      BY <1>3 DEF OnlyRound
    <2>2. Kept(q, s)'
      BY <2>1 DEF Kept
    <2> QED
      BY <2>2 DEF Open
  <1> QED
    BY <1>2, <1>3

LEMMA OneMono == ASSUME NEW a, NEW b, a => b PROVE One(a) <= One(b)
  BY DEF One

(* A failure pays for whatever opens.                                      *)
LEMMA FailurePays ==
    ASSUME TypeInv, TypeInv', NEW p \in Publishers, OnlyRound(p), NEW s \in Slots, CreditOf(s),
           accepted'[s] = accepted[s], faults' = faults + 1, round'[p].todo \subseteq round[p].todo
    PROVE  CreditOf(s)'
  <1>1. One(s \in round'[p].todo) <= One(s \in round[p].todo)
    BY OneMono
  <1>2. /\ One(s \in round[p].todo) \in {0, 1} /\ One(s \in round'[p].todo) \in {0, 1}
        /\ One(Open(s)) \in {0, 1} /\ One(Open(s)') \in {0, 1}
    BY OneRange
  <1>3. accepted[s] \in Nat /\ faults \in Nat
    BY DEF TypeInv, CountersInv
  <1>4. accepted'[s] + One(s \in round'[p].todo) + One(Open(s)') + faults
          <= accepted[s] + One(s \in round[p].todo) + One(Open(s)) + faults'
    BY <1>1, <1>2, <1>3
  <1> QED
    BY <1>4, CreditKept

(* Without one, nothing may open, and a send takes its publisher off.      *)
LEMMA NothingOpens ==
    ASSUME TypeInv, TypeInv', NEW p \in Publishers, OnlyRound(p), NEW s \in Slots, CreditOf(s),
           faults' = faults, Open(s)' => Open(s),
           accepted'[s] + One(s \in round'[p].todo) <= accepted[s] + One(s \in round[p].todo)
    PROVE  CreditOf(s)'
  <1>1. One(Open(s)') <= One(Open(s))
    BY OneMono
  <1>2. /\ One(s \in round[p].todo) \in {0, 1} /\ One(s \in round'[p].todo) \in {0, 1}
        /\ One(Open(s)) \in {0, 1} /\ One(Open(s)') \in {0, 1}
    BY OneRange
  <1>3. accepted[s] \in Nat /\ accepted'[s] \in Nat /\ faults \in Nat
    BY DEF TypeInv, CountersInv
  <1>4. accepted'[s] + One(s \in round'[p].todo) + One(Open(s)') + faults
          <= accepted[s] + One(s \in round[p].todo) + One(Open(s)) + faults'
    BY <1>1, <1>2, <1>3
  <1> QED
    BY <1>4, CreditKept

(* A step that leaves publishers, rows and their counts alone.             *)
LEMMA CreditStays ==
    ASSUME TypeInv, TypeInv', NEW s \in Slots, CreditOf(s), round' = round,
           accepted'[s] = accepted[s], faults' >= faults, Open(s)' => Open(s)
    PROVE  CreditOf(s)'
  <1>1. Senders(s)' = Senders(s) /\ Cardinality(Senders(s)) \in Nat
    BY SendersFinite DEF Senders
  <1>2. One(Open(s)') <= One(Open(s)) /\ One(Open(s)) \in {0, 1} /\ One(Open(s)') \in {0, 1}
    BY OneMono, OneRange
  <1>3. accepted[s] \in Nat /\ faults \in Nat /\ faults' \in Nat
    BY DEF TypeInv, CountersInv
  <1>4. accepted[s] + Cardinality(Senders(s)) + One(Open(s)) <= 1 + faults
    BY DEF CreditOf
  <1>5. accepted'[s] + Cardinality(Senders(s)) + One(Open(s)') <= 1 + faults'
    BY <1>1, <1>2, <1>3, <1>4
  <1> QED
    BY <1>1, <1>5 DEF CreditOf, One

LEMMA SettlementCredit ==
    ASSUME TypeInv, TypeInv', NEW p \in Publishers, NEW t \in Slots,
           SettleConfirmed(p, t) \/ SettleRefused(p, t), NEW s \in Slots, CreditOf(s)
    PROVE  CreditOf(s)'
  <1>0. round \in [Publishers -> Rounds] /\ round' \in [Publishers -> Rounds] /\ events \in [Slots -> Row]
    BY DEF TypeInv, RoundsInv, RowsInv
  <1>1. /\ round[p].todo = {} /\ t \in Awaited(p)
        /\ round' = [round EXCEPT ![p].answer[t] = "none"]
        /\ accepted' = accepted /\ faults' = faults
    BY DEF SettleConfirmed, SettleRefused, Settling, ghosts
  <1>2. OnlyRound(p) /\ round'[p].todo = round[p].todo
    BY <1>0, <1>1 DEF OnlyRound, Rounds
  <1>3. Open(s)' => Open(s)
    <2>1. CASE s # t
      <3>1. events'[s] = events[s]
        BY <1>0, <2>1 DEF SettleConfirmed, SettleRefused, MarkPublished, ScheduleRetry
      <3>2. round'[p].answer[s] = round[p].answer[s]
        BY <1>0, <1>1, <2>1 DEF Rounds
      <3> QED
        BY <1>2, <3>1, <3>2, OpensOnlyBy DEF Kept
    <2>2. CASE s = t /\ ~Holds(p, t)
      <3>1. events'[s] = events[s]
        BY <2>2 DEF SettleConfirmed, SettleRefused, MarkPublished, ScheduleRetry
      <3>2. ~(events[s].status = "PENDING" /\ Kept(p, s))
        BY <2>2 DEF Holds, Kept
      <3> QED
        BY <1>2, <3>1, <3>2, OpensOnlyBy
    <2>3. CASE s = t /\ Holds(p, t) /\ SettleConfirmed(p, t)
      <3>1. events'[s].status = "PUBLISHED"
        BY <1>0, <2>3 DEF SettleConfirmed, MarkPublished, Row
      <3> QED
        BY <3>1 DEF Open
    <2>4. CASE s = t /\ Holds(p, t) /\ SettleRefused(p, t)
      <3>1. events[s].status = "PENDING" /\ events[s].holder = p /\ round[p].answer[s] # "accepted"
        BY <2>4 DEF SettleRefused, Holds
      <3>2. \A q \in Publishers : ~Kept(q, s)
        BY <1>1, <3>1 DEF Kept
      <3> QED
        BY <3>1, <3>2 DEF Open
    <2> QED
      BY <2>1, <2>2, <2>3, <2>4
  <1>4. accepted'[s] + One(s \in round'[p].todo) <= accepted[s] + One(s \in round[p].todo)
    <2>1. accepted[s] \in Nat /\ One(s \in round[p].todo) \in {0, 1}
      BY OneRange DEF TypeInv, CountersInv
    <2> QED
      BY <1>1, <1>2, <2>1
  <1> QED
    BY <1>1, <1>2, <1>3, <1>4, NothingOpens

LEMMA ClaimCredit ==
    ASSUME TypeInv, TypeInv', NEW p \in Publishers, ClaimPending(p), NEW s \in Slots, CreditOf(s)
    PROVE  CreditOf(s)'
  <1> DEFINE batch == {t \in Slots : ClaimableRow(t)}
  <1>0. round \in [Publishers -> Rounds] /\ round' \in [Publishers -> Rounds] /\ events \in [Slots -> Row]
    BY DEF TypeInv, RoundsInv, RowsInv
  <1>1. /\ round[p].todo = {} /\ round[p].answer[s] = "none"
        /\ accepted' = accepted /\ faults' = faults
    BY DEF ClaimPending, AtRest, Awaited, ghosts
  <1>2. /\ OnlyRound(p) /\ round'[p].todo = batch
        /\ events'[s] = IF s \in batch THEN [events[s] EXCEPT !.holder = p, !.expired = FALSE]
                        ELSE IF events[s].holder = p THEN [events[s] EXCEPT !.holder = Forgotten]
                        ELSE events[s]
    BY <1>0 DEF ClaimPending, OnlyRound, Rounds
  <1>3. ~Kept(p, s)
    BY <1>1 DEF Kept
  <1>4. CASE s \in batch
    <2>1. Open(s)
      BY <1>4, DeliveryAssumption DEF ClaimableRow, Open, Kept
    <2>2. ~Open(s)'
      <3>1. events'[s].holder = p /\ ~events'[s].expired
        BY <1>0, <1>2, <1>4 DEF Row
      <3>2. Kept(p, s)'
        BY <1>2, <1>4, <3>1 DEF Kept
      <3> QED
        BY <3>2 DEF Open
    <2>3. One(s \in round'[p].todo) = 1 /\ One(s \in round[p].todo) = 0 /\ One(Open(s)) = 1 /\ One(Open(s)') = 0
      BY <1>1, <1>2, <1>4, <2>1, <2>2 DEF One
    <2>4. accepted[s] \in Nat /\ faults \in Nat
      BY DEF TypeInv, CountersInv
    <2>5. accepted'[s] + One(s \in round'[p].todo) + One(Open(s)') + faults
            <= accepted[s] + One(s \in round[p].todo) + One(Open(s)) + faults'
      BY <1>1, <2>3, <2>4
    <2> QED
      BY <1>2, <2>5, CreditKept
  <1>5. CASE s \notin batch
    <2>1. Open(s)' => Open(s)
      <3>1. CASE events[s].holder = p
        <4>1. \A q \in Publishers : ~Kept(q, s)
          BY <1>3, <3>1 DEF Kept
        <4>2. events'[s].status = events[s].status
          BY <1>0, <1>2, <1>5, <3>1 DEF Row
        <4> QED
          BY <4>1, <4>2 DEF Open
      <3>2. CASE events[s].holder # p
        BY <1>2, <1>3, <1>5, <3>2, OpensOnlyBy
      <3> QED
        BY <3>1, <3>2
    <2>2. One(s \in round'[p].todo) = 0 /\ One(s \in round[p].todo) = 0 /\ accepted[s] \in Nat
      BY <1>1, <1>2, <1>5 DEF One, TypeInv, CountersInv
    <2>3. accepted'[s] + One(s \in round'[p].todo) <= accepted[s] + One(s \in round[p].todo)
      BY <1>1, <2>2
    <2> QED
      BY <1>1, <1>2, <2>1, <2>3, NothingOpens
  <1> QED
    BY <1>4, <1>5

LEMMA SendCredit ==
    ASSUME TypeInv, TypeInv', NEW p \in Publishers, NEW t \in Slots, Send(p, t), NEW s \in Slots, CreditOf(s)
    PROVE  CreditOf(s)'
  <1>0. /\ round \in [Publishers -> Rounds] /\ round' \in [Publishers -> Rounds]
        /\ accepted \in [Slots -> Nat]
    BY DEF TypeInv, RoundsInv, CountersInv
  <1>1. /\ t \in round[p].todo /\ events' = events /\ faults' = faults
        /\ accepted' = [accepted EXCEPT ![t] = @ + 1]
        /\ round' = [round EXCEPT ![p].todo = @ \ {t}, ![p].answer[t] = "accepted"]
    BY DEF Send
  <1>2. /\ OnlyRound(p) /\ round'[p].todo = round[p].todo \ {t}
        /\ round'[p].answer[t] = "accepted"
        /\ s # t => round'[p].answer[s] = round[p].answer[s]
    BY <1>0, <1>1 DEF OnlyRound, Rounds
  <1>3. Kept(p, s) => Kept(p, s)'
    BY <1>1, <1>2 DEF Kept
  <1>4. Open(s)' => Open(s)
    BY <1>1, <1>2, <1>3, OpensOnlyBy
  <1>5. accepted'[s] + One(s \in round'[p].todo) <= accepted[s] + One(s \in round[p].todo)
    BY <1>0, <1>1, <1>2 DEF One
  <1> QED
    BY <1>1, <1>2, <1>4, <1>5, NothingOpens

LEMMA PublisherCredit ==
    ASSUME TypeInv, TypeInv', NEW p \in Publishers, PublisherSteps(p), NEW s \in Slots, CreditOf(s)
    PROVE  CreditOf(s)'
  <1>0. round \in [Publishers -> Rounds] /\ round' \in [Publishers -> Rounds]
    BY DEF TypeInv, RoundsInv
  <1>1. CASE PublisherCrashes(p)
    <2>1. OnlyRound(p) /\ round'[p].todo = {} /\ accepted' = accepted /\ faults' = faults + 1
      BY <1>0, <1>1 DEF PublisherCrashes, OnlyRound, NoRound, Fault, ghosts
    <2> QED
      BY <2>1, FailurePays
  <1>2. ASSUME NEW t \in Slots, SendInVain(p, t) \/ SendThrows(p, t) \/ SettleTooLate(p, t) \/ SettleFails(p, t)
        PROVE  CreditOf(s)'
    <2>1. accepted' = accepted /\ faults' = faults + 1
      BY <1>2 DEF SendInVain, SendThrows, SettleTooLate, SettleFails, Fault, ghosts
    <2>2. \/ \E a \in {"refused", "lost"} : round' = [round EXCEPT ![p].todo = @ \ {t}, ![p].answer[t] = a]
          \/ round' = [round EXCEPT ![p].todo = @ \ {t}]
          \/ round' = [round EXCEPT ![p].answer[t] = "none"]
      BY <1>2 DEF SendInVain, SendThrows, SettleTooLate, SettleFails, Settling
    <2>3. OnlyRound(p) /\ round'[p].todo \subseteq round[p].todo
      BY <1>0, <2>2 DEF OnlyRound, Rounds
    <2> QED
      BY <2>1, <2>3, FailurePays
  <1> QED
    BY <1>1, <1>2, ClaimCredit, SendCredit, SettlementCredit DEF PublisherSteps

LEMMA RowCredit ==
    ASSUME TypeInv, TypeInv', NEW t \in Slots, RowSteps(t), NEW s \in Slots, CreditOf(s)
    PROVE  CreditOf(s)'
  <1>0. /\ events \in [Slots -> Row] /\ accepted \in [Slots -> Nat]
        /\ faults \in Nat
    BY DEF TypeInv, RowsInv, CountersInv
  <1>1. round' = round
    BY DEF RowSteps, RowLeaseEnds, RoundIsSlow, RowLeaseRunsOut, RowComesDue, CooldownEnds, RowIsHistory
  <1>2. s # t => events'[s] = events[s] /\ accepted'[s] = accepted[s]
    BY <1>0 DEF RowSteps, RowLeaseEnds, RoundIsSlow, RowLeaseRunsOut, RowComesDue, CooldownEnds,
                RowIsHistory, ghosts
  <1>3. faults' \in Nat /\ faults' >= faults
    BY <1>0 DEF RowSteps, RowLeaseEnds, RoundIsSlow, RowLeaseRunsOut, RowComesDue, CooldownEnds,
                RowIsHistory, Fault
  <1>4. CASE s # t
    <2>1. Open(s)' = Open(s)
      BY <1>1, <1>2, <1>4 DEF Open, Kept
    <2> QED
      BY <1>1, <1>2, <1>3, <1>4, <2>1, CreditStays
  <1>5. CASE s = t /\ RowIsHistory(t)
    <2>1. events'[s].status = "ABSENT" /\ accepted'[s] = 0 /\ \A p \in Publishers : ~Working(p, s)
      BY <1>0, <1>5 DEF RowIsHistory, Absent
    <2>2. Senders(s)' = {} /\ ~Open(s)'
      BY <1>1, <2>1 DEF Senders, Open, Working
    <2>3. Cardinality(Senders(s))' = 0 /\ One(Open(s))' = 0
      BY <2>2, FS_EmptySet DEF One
    <2>4. accepted'[s] = 0 /\ 0 + 0 + 0 <= 1 + faults'
      BY <1>0, <1>3, <2>1
    <2>5. accepted'[s] + Cardinality(Senders(s))' + One(Open(s))' <= 1 + faults'
      BY ONLY <2>3, <2>4
    <2> QED
      BY <2>5 DEF CreditOf
  <1>6. CASE s = t /\ RoundIsSlow(t)
    <2>1. faults' = faults + 1 /\ accepted' = accepted
      BY <1>6 DEF RoundIsSlow, RowLeaseRunsOut, Fault, ghosts
    <2>2. Senders(s)' = Senders(s) /\ Cardinality(Senders(s)) \in Nat
      BY <1>1, SendersFinite DEF Senders
    <2>3. One(Open(s)) \in {0, 1} /\ One(Open(s))' \in {0, 1}
      BY DEF One
    <2>4. accepted[s] + Cardinality(Senders(s)) + One(Open(s)) <= 1 + faults
      BY DEF CreditOf
    <2>5. accepted[s] + Cardinality(Senders(s)) + One(Open(s))' <= 1 + faults'
      BY <1>0, <2>1, <2>2, <2>3, <2>4
    <2> QED
      BY <2>1, <2>2, <2>5 DEF CreditOf
  <1>7. CASE s = t /\ (RowLeaseEnds(t) \/ RowComesDue(t) \/ CooldownEnds(t))
    <2>1. accepted' = accepted
      BY <1>7 DEF RowLeaseEnds, RowLeaseRunsOut, RowComesDue, CooldownEnds, ghosts
    <2>2. CASE RowLeaseEnds(t)
      <3>1. events'[s].status = events[s].status
        BY <1>0, <1>7, <2>2 DEF RowLeaseEnds, RowLeaseRunsOut, Row
      <3>2. \A q \in Publishers : ~Kept(q, s)
        BY <1>7, <2>2 DEF RowLeaseEnds, Attended, Kept, Working, Awaited
      <3> QED
        BY <1>1, <1>3, <2>1, <3>1, <3>2, CreditStays DEF Open
    <2>3. CASE RowComesDue(t) \/ CooldownEnds(t)
      <3>1. /\ events'[s].status = events[s].status /\ events'[s].holder = events[s].holder
            /\ events'[s].expired = events[s].expired
        BY <1>0, <1>7, <2>3 DEF RowComesDue, CooldownEnds, Row
      <3>2. Open(s)' => Open(s)
        BY <1>1, <3>1 DEF Open, Kept
      <3> QED
        BY <1>1, <1>3, <2>1, <3>2, CreditStays
    <2> QED
      BY <1>7, <2>2, <2>3
  <1> QED
    BY <1>4, <1>5, <1>6, <1>7 DEF RowSteps

(* The other steps leave rows and rounds alone, but for a scan's new row,  *)
(* for which nobody works yet.                                             *)
LEMMA OtherCredit ==
    ASSUME TypeInv, TypeInv', GoneInv, NEW s \in Slots, CreditOf(s),
           \/ \E w \in Workers : WorkerSteps(w)
           \/ \E k \in Counts : RetryComesBack(k)
           \/ \E c \in Scanners : ScannerSteps(c)
           \/ RunSteps
    PROVE  CreditOf(s)'
  <1>0. faults \in Nat /\ faults' \in Nat
    BY DEF TypeInv, CountersInv
  <1>1. CASE \/ \E w \in Workers : WorkerSteps(w)
             \/ \E k \in Counts : RetryComesBack(k)
             \/ RunSteps
    <2>1. UNCHANGED <<round, accepted, events>>
      BY <1>1 DEF WorkerSteps, Deliver, ClaimGranted, ClaimExhausts, ClaimEmpty, ClaimSkipsLock,
                  ClaimThrows, RunEnds, RunIsLost, RunIsReleased, RunThrows, Acknowledge,
                  RejectDelivery, Defer, DeferFails, ChannelCloses, WorkerCrashes, ghosts,
                  RetryComesBack, RunSteps, RunLeaseEnds, HeartbeatFails, RunLeaseRunsOut,
                  Withdraw, RunAges
    <2>2. faults' = faults \/ faults' = faults + 1
      BY <1>1 DEF WorkerSteps, Deliver, ClaimGranted, ClaimExhausts, ClaimEmpty, ClaimSkipsLock,
                  ClaimThrows, RunEnds, RunIsLost, RunIsReleased, RunThrows, Acknowledge,
                  RejectDelivery, Defer, DeferFails, ChannelCloses, WorkerCrashes, Fault,
                  RetryComesBack, RunSteps, RunLeaseEnds, HeartbeatFails,
                  Withdraw, RunAges
    <2>3. Open(s)' => Open(s)
      BY <2>1 DEF Open, Kept
    <2> QED
      BY <1>0, <2>1, <2>2, <2>3, CreditStays
  <1>2. ASSUME NEW c \in Scanners, ScannerSteps(c) PROVE CreditOf(s)'
    <2>1. /\ UNCHANGED <<round, accepted>>
          /\ faults' = faults \/ faults' = faults + 1
          /\ events' = events \/ \E t \in Slots : events[t].status = "ABSENT" /\ events' = [events EXCEPT ![t] = Fresh]
      BY <1>2 DEF ScannerSteps, ScanReads, ScanLocks, ScanSkips, ScanCommits, ScanRollsBack, ghosts, Fault
    <2>2. CASE events'[s] = events[s]
      <3>1. Open(s)' => Open(s)
        BY <2>1, <2>2 DEF Open, Kept
      <3> QED
        BY <1>0, <2>1, <3>1, CreditStays
    <2>3. CASE events'[s] # events[s]
      <3>1. events[s].status = "ABSENT"
        BY <2>1, <2>3 DEF TypeInv, RowsInv
      <3>2. accepted[s] = 0 /\ \A p \in Publishers : ~Working(p, s)
        BY <3>1 DEF GoneInv
      <3>3. Senders(s)' = {}
        BY <2>1, <3>2 DEF Senders, Working
      <3>4. Cardinality(Senders(s))' = 0 /\ One(Open(s))' \in {0, 1}
        BY <3>3, FS_EmptySet DEF One
      <3> QED
        BY <1>0, <2>1, <3>2, <3>4 DEF CreditOf
    <2> QED
      BY <2>2, <2>3
  <1> QED
    BY <1>1, <1>2

LEMMA CreditInit == Init => CreditInv
  <1> SUFFICES ASSUME Init, NEW s \in Slots PROVE CreditOf(s)
    BY DEF CreditInv
  <1>1. Senders(s) = {}
    BY DEF Init, Senders, NoRound
  <1>2. Cardinality(Senders(s)) = 0 /\ One(Open(s)) \in {0, 1}
    BY <1>1, FS_EmptySet DEF One
  <1>3. accepted[s] = 0 /\ faults = 0
    BY DEF Init
  <1> QED
    BY <1>2, <1>3 DEF CreditOf

LEMMA CreditStep == CarriersInv /\ CreditInv /\ [Next]_vars => CreditInv'
  <1> SUFFICES ASSUME CarriersInv, CreditInv, [Next]_vars, NEW s \in Slots PROVE CreditOf(s)'
    BY DEF CreditInv
  <1>1. TypeInv /\ TypeInv' /\ GoneInv /\ CreditOf(s)
    BY TypeStep DEF CarriersInv, CreditInv
  <1>2. CASE UNCHANGED vars
    BY <1>1, <1>2 DEF vars, CreditOf, Senders, Open, Kept, One
  <1>3. CASE Next
    BY <1>1, <1>3, PublisherCredit, RowCredit, OtherCredit DEF Next
  <1> QED
    BY <1>2, <1>3

(* A row is handed to the broker once, and once more per failure at most,  *)
(* for any number of publishers, rows and failures.                        *)
THEOREM RowsAreSentOnce == Spec => []SentOncePerFault
  <1>1. CarriersInv /\ CreditInv => SentOncePerFault
    <2> SUFFICES ASSUME CarriersInv, CreditInv, NEW s \in Slots PROVE accepted[s] <= 1 + faults
      BY DEF SentOncePerFault
    <2>1. accepted[s] \in Nat /\ faults \in Nat /\ Cardinality(Senders(s)) \in Nat /\ One(Open(s)) \in {0, 1}
      BY SendersFinite, OneRange DEF CarriersInv, TypeInv, CountersInv
    <2>2. accepted[s] + Cardinality(Senders(s)) + One(Open(s)) <= 1 + faults
      BY DEF CreditInv, CreditOf
    <2> QED
      BY <2>1, <2>2
  <1> QED
    BY <1>1, CarriersInit, CarriersStep, CreditInit, CreditStep, PTL DEF Spec
=============================================================================
