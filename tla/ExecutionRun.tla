---------------------------- MODULE ExecutionRun ----------------------------
(***************************************************************************)
(* One workflow execution in workflow-service: its row, its node and       *)
(* attempt rows, and the workers that may run it.                          *)
(*                                                                         *)
(* The row is changed only by transactions of ExecutionStateAdapter, which *)
(* lock it first; each is one atomic step. Between transactions a worker   *)
(* keeps its own copy of the node rows (ExecutionRunner.RuntimeState), its *)
(* lease may expire, another worker may claim the run, the process may     *)
(* stop, and the providers' calls go on.                                   *)
(*                                                                         *)
(* A lease is live or expired (lease_until > CURRENT_TIMESTAMP); when it   *)
(* expires is not constrained. A retry delay is over or not, likewise.     *)
(*                                                                         *)
(* Operators whose names end in Defect are mistakes the code does not make *)
(* (see the README): each replaces the definition after it in one run that *)
(* must then fail.                                                         *)
(***************************************************************************)
EXTENDS ReadinessPlanner, FiniteSets

CONSTANTS
    Workers,          \* consumer threads of the job queue
    Process,          \* Process[w]: the process w lives in, its lease owner name
    Definition,       \* the pinned workflow version
    Root,             \* root_node_id: the trigger that fired
    SideEffecting,    \* nodes NodeSideEffects.isSideEffecting
    Keyed,            \* nodes of type http.request (stable Idempotency-Key)
    MaxAttempts,      \* RetryPolicy.MAX_ATTEMPTS (3)
    MaxRecoveries,    \* weav.workflow.execution.max-recoveries (5)
    MaxConcurrent,    \* weav.workflow.execution.max-concurrent-nodes (4)
    Nobody,           \* lease_owner IS NULL
    Faults            \* what may go wrong in this instance, see AllFaults

Nodes     == Definition.nodes
Processes == {Process[w] : w \in Workers}

(* A process dies; a held lease runs out; a process shuts down gracefully; *)
(* a heartbeat fails; the run loop throws.                                 *)
AllFaults == {"crash", "expiry", "shutdown", "heartbeat", "throw"}

Edges == Definition.edges

(* Nodes whose call must not be repeated unless it provably was not sent.  *)
Unrepeatable == SideEffecting \ Keyed

ASSUME DefinitionAssumption ==
    /\ WellFormed(Definition)
    /\ Root \in Definition.triggers
    /\ SideEffecting \subseteq Nodes \ Definition.triggers
    /\ Keyed \subseteq Nodes

ASSUME BoundsAssumption ==
    /\ MaxAttempts \in Nat \ {0}
    /\ MaxRecoveries \in Nat
    /\ MaxConcurrent \in Nat \ {0}
    /\ Process = [w \in Workers |-> Process[w]]
    /\ Nobody \notin Processes
    /\ Faults \subseteq AllFaults

VARIABLES
    run,        \* the workflow_executions row
    saved,      \* its node_executions, node_execution_attempts and edge_states
    notices,    \* workflow.completed / workflow.failed rows of notification_outbox
    due,        \* waiting nodes whose next_attempt_at has passed
    accepting,  \* per process: listener and runner take work (no shutdown yet)
    pc,         \* per worker: where the runner is
    job,        \* per worker: lease token and the run loop's flags
    mem,        \* per worker: RuntimeState
    futures,    \* per worker: nodes in the map "running"
    done,       \* per worker: completions not yet polled
    orphans,    \* calls on the wire whose worker no longer listens
    effects     \* how often an unrepeatable node changed the outside world

vars == <<run, saved, notices, due, accepting, pc, job, mem, futures, done, orphans, effects>>

runVars  == <<run, saved, notices>>
callVars == <<orphans, effects>>

-----------------------------------------------------------------------------
(* Types.                                                                  *)

Terminal  == {"SUCCESS", "FAILED", "CANCELLED"}
RunStatus == {"QUEUED", "RUNNING"} \union Terminal
Attempt   == {"NONE", "RUNNING", "SUCCESS", "FAILED"}

(* What one commit writes: every node row, edge state and attempt row.     *)
(* next is the set of nodes with a next_attempt_at, unknown the nodes      *)
(* whose error is OUTCOME_UNKNOWN.                                         *)
Image == [node    : [Nodes -> NodeStatus],
          edge    : [Edges -> EdgeState],
          tries   : [Nodes -> 0 .. MaxAttempts],
          attempt : [Nodes -> [1 .. MaxAttempts -> Attempt]],
          next    : SUBSET Nodes,
          unknown : SUBSET Nodes]

(* How a provider call ends: it worked and selected a port, it failed      *)
(* before the request took effect (requestNotSent), it failed with a       *)
(* transient code, or with one that is never retried.                      *)
Outcomes(n) == [kind : {"ok"}, port : Definition.ports[n]]
                \union [kind : {"notSent", "transient", "permanent"}, port : {"none"}]

Completions == UNION {[node : {n}, outcome : Outcomes(n)] : n \in Nodes}

EmptyImage == [node    |-> [n \in Nodes |-> "PENDING"],
               edge    |-> [e \in Edges |-> "UNKNOWN"],
               tries   |-> [n \in Nodes |-> 0],
               attempt |-> [n \in Nodes |-> [k \in 1 .. MaxAttempts |-> "NONE"]],
               next    |-> {},
               unknown |-> {}]

NoJob == [token |-> 0, failureSeen |-> FALSE, cancelSeen |-> FALSE, leaseLost |-> FALSE]

(* Admission has committed the row, its PENDING nodes and the outbox       *)
(* intent. pinned: the version, root and registration it names still       *)
(* match (hasRecoverablePinnedState).                                      *)
Init ==
    /\ \E pinned \in BOOLEAN :
          run = [status |-> "QUEUED", owner |-> Nobody, token |-> 0, live |-> FALSE,
                 recoveries |-> 0, cancel |-> FALSE, pinned |-> pinned]
    /\ saved = EmptyImage
    /\ notices = [s \in {"SUCCESS", "FAILED"} |-> 0]
    /\ due = {}
    /\ accepting = [p \in Processes |-> TRUE]
    /\ pc = [w \in Workers |-> "idle"]
    /\ job = [w \in Workers |-> NoJob]
    /\ mem = [w \in Workers |-> EmptyImage]
    /\ futures = [w \in Workers |-> {}]
    /\ done = [w \in Workers |-> {}]
    /\ orphans = {}
    /\ effects = [n \in Unrepeatable |-> 0]

-----------------------------------------------------------------------------
(* Fenced transactions.                                                    *)

FencedDefect(w) == run.status = "RUNNING" /\ run.owner = Process[w] /\ run.live

Fenced(w) ==
    /\ run.status = "RUNNING"
    /\ run.owner = Process[w]
    /\ run.token = job[w].token
    /\ run.live

(* validateNodeStatuses: a node waits exactly when it has a retry time.    *)
Valid(img) == \A n \in Nodes : img.node[n] = "WAITING" <=> n \in img.next

Notify(status) == [notices EXCEPT ![status] = @ + 1]

Released(row) == [row EXCEPT !.owner = Nobody, !.live = FALSE]

(* The run loop is over; run()'s finally block is next.                    *)
EndLoop(w) ==
    /\ pc' = [pc EXCEPT ![w] = "exit"]
    /\ UNCHANGED <<runVars, due, accepting, job, mem, futures, done, callVars>>

(* commit(): false when the lease is gone (the runner then stops), an      *)
(* exception that ends the run loop when the transition is not valid, and  *)
(* otherwise the whole image with the execution's new status.              *)
CommitAccepted(w, img, status) ==
    /\ ~job[w].leaseLost
    /\ Fenced(w)
    /\ Valid(img)
    /\ saved' = img
    /\ due' = due \intersect img.next
    /\ run' = IF status \in Terminal THEN Released([run EXCEPT !.status = status]) ELSE run
    /\ notices' = IF status \in {"SUCCESS", "FAILED"} THEN Notify(status) ELSE notices

CommitRefused(w, img) ==
    /\ job[w].leaseLost \/ ~Fenced(w) \/ ~Valid(img)
    /\ EndLoop(w)

-----------------------------------------------------------------------------
(* claim(): what a delivery of the execution id to an idle worker does.    *)

(* isInconsistentRunningState: a RUNNING node without its RUNNING attempt, *)
(* or a RUNNING attempt that is not its node's current one.                *)
Inconsistent(img) ==
    \/ \E n \in Nodes : /\ img.node[n] = "RUNNING"
                        /\ \/ img.tries[n] = 0
                           \/ img.attempt[n][img.tries[n]] # "RUNNING"
    \/ \E n \in Nodes, k \in 1 .. MaxAttempts :
          /\ img.attempt[n][k] = "RUNNING"
          /\ img.node[n] # "RUNNING" \/ k # img.tries[n]

(* failExecution: running attempts and unfinished nodes become FAILED.     *)
FailedImage(img) ==
    [img EXCEPT
        !.attempt = [n \in Nodes |-> [k \in 1 .. MaxAttempts |->
                        IF img.attempt[n][k] = "RUNNING" THEN "FAILED" ELSE img.attempt[n][k]]],
        !.node = [n \in Nodes |-> IF img.node[n] \in {"PENDING", "READY", "RUNNING", "WAITING"}
                                  THEN "FAILED" ELSE img.node[n]],
        !.next = {n \in img.next : img.node[n] \notin {"PENDING", "READY", "RUNNING", "WAITING"}}]

InterruptedDefect(img) ==
    LET left == {n \in Nodes : img.node[n] = "RUNNING"}
    IN  [img EXCEPT !.node = [n \in Nodes |-> IF n \in left THEN "WAITING" ELSE img.node[n]],
                    !.next = img.next \union left]

RerunDefect(img) ==
    LET left  == {n \in Nodes : img.node[n] = "RUNNING"}
        again == {n \in left : img.tries[n] < MaxAttempts}
    IN  [img EXCEPT
            !.attempt = [n \in Nodes |-> [k \in 1 .. MaxAttempts |->
                            IF n \in left /\ k = img.tries[n] THEN "FAILED" ELSE img.attempt[n][k]]],
            !.node = [n \in Nodes |-> IF n \in again THEN "WAITING"
                                      ELSE IF n \in left THEN "FAILED" ELSE img.node[n]],
            !.next = (img.next \ left) \union again]

(* recordInterruptedAttempts: a side-effecting node left RUNNING fails     *)
(* with OUTCOME_UNKNOWN, any other waits for its next attempt or has none  *)
(* left.                                                                   *)
Interrupted(img) ==
    LET left  == {n \in Nodes : img.node[n] = "RUNNING"}
        again == {n \in left : n \notin SideEffecting /\ img.tries[n] < MaxAttempts}
    IN  [img EXCEPT
            !.attempt = [n \in Nodes |-> [k \in 1 .. MaxAttempts |->
                            IF n \in left /\ k = img.tries[n] /\ img.attempt[n][k] = "RUNNING"
                            THEN "FAILED" ELSE img.attempt[n][k]]],
            !.node = [n \in Nodes |-> IF n \in again THEN "WAITING"
                                      ELSE IF n \in left THEN "FAILED" ELSE img.node[n]],
            !.next = (img.next \ left) \union again,
            !.unknown = img.unknown \union (left \intersect SideEffecting)]

ClaimableDefect(w) == accepting[Process[w]] /\ pc[w] = "idle" /\ ~run.live

Claimable(w) ==
    /\ accepting[Process[w]]
    /\ pc[w] = "idle"
    /\ run.status \in {"QUEUED", "RUNNING"}
    /\ ~run.live

Recoverable == run.pinned /\ (run.status = "RUNNING" => ~Inconsistent(saved))

NextRecovery == IF run.status = "RUNNING" THEN run.recoveries + 1 ELSE run.recoveries

(* failLegacyState: the run cannot be recovered.                           *)
ClaimFailsLegacy(w) ==
    /\ Claimable(w)
    /\ ~Recoverable
    /\ run' = Released([run EXCEPT !.status = "FAILED"])
    /\ saved' = FailedImage(saved)
    /\ UNCHANGED <<notices, due, accepting, pc, job, mem, futures, done, callVars>>

SilentDefect(w) ==
    /\ Claimable(w) /\ Recoverable /\ NextRecovery > MaxRecoveries
    /\ run' = Released([run EXCEPT !.status = "FAILED", !.token = @ + 1,
                                   !.recoveries = NextRecovery])
    /\ saved' = FailedImage(saved)
    /\ UNCHANGED <<notices, due, accepting, pc, job, mem, futures, done, callVars>>

(* The recovery cap: the run fails and its failure is notified.            *)
ClaimExhausts(w) ==
    /\ Claimable(w)
    /\ Recoverable
    /\ NextRecovery > MaxRecoveries
    /\ run' = Released([run EXCEPT !.status = "FAILED", !.token = @ + 1,
                                   !.recoveries = NextRecovery])
    /\ saved' = FailedImage(saved)
    /\ notices' = Notify("FAILED")
    /\ UNCHANGED <<due, accepting, pc, job, mem, futures, done, callVars>>

SameTokenDefect(w) ==
    /\ Claimable(w) /\ Recoverable /\ NextRecovery <= MaxRecoveries
    /\ run' = [run EXCEPT !.status = "RUNNING", !.owner = Process[w], !.live = TRUE,
                          !.recoveries = NextRecovery]
    /\ saved' = IF run.status = "RUNNING" THEN Interrupted(saved) ELSE saved
    /\ due' = due \intersect saved.next
    /\ job' = [job EXCEPT ![w] = [NoJob EXCEPT !.token = run.token]]
    /\ pc' = [pc EXCEPT ![w] = "claimed"]
    /\ UNCHANGED <<notices, accepting, mem, futures, done, callVars>>

ClaimGranted(w) ==
    /\ Claimable(w)
    /\ Recoverable
    /\ NextRecovery <= MaxRecoveries
    /\ run' = [run EXCEPT !.status = "RUNNING", !.owner = Process[w], !.token = @ + 1, !.live = TRUE,
                          !.recoveries = NextRecovery]
    /\ saved' = IF run.status = "RUNNING" THEN Interrupted(saved) ELSE saved
    /\ due' = due \intersect saved.next
    /\ job' = [job EXCEPT ![w] = [NoJob EXCEPT !.token = run.token + 1]]
    /\ pc' = [pc EXCEPT ![w] = "claimed"]
    /\ UNCHANGED <<notices, accepting, mem, futures, done, callVars>>

-----------------------------------------------------------------------------
(* The run loop.                                                           *)

(* In-flight calls of w: submitted and not yet returned.                   *)
InFlight(w) == {n \in futures[w] : \A c \in done[w] : c.node # n}

Orphaned(w) == {<<n, mem[w].tries[n]>> : n \in InFlight(w) \intersect Unrepeatable}

(* Threads forget the run; calls on the wire may yet take effect.          *)
Forget(W) ==
    /\ pc' = [w \in Workers |-> IF w \in W THEN "idle" ELSE pc[w]]
    /\ job' = [w \in Workers |-> IF w \in W THEN NoJob ELSE job[w]]
    /\ mem' = [w \in Workers |-> IF w \in W THEN EmptyImage ELSE mem[w]]
    /\ futures' = [w \in Workers |-> IF w \in W THEN {} ELSE futures[w]]
    /\ done' = [w \in Workers |-> IF w \in W THEN {} ELSE done[w]]
    /\ orphans' = orphans \union UNION {Orphaned(w) : w \in W}

ReleasedIfFenced(w) == IF Fenced(w) THEN Released(run) ELSE run

(* run(): a closed runner gives the lease back at once.                    *)
RefuseRun(w) ==
    /\ pc[w] = "claimed"
    /\ ~accepting[Process[w]]
    /\ run' = ReleasedIfFenced(w)
    /\ Forget({w})
    /\ UNCHANGED <<saved, notices, due, accepting, effects>>

AllTerminal(img) == \A n \in Nodes : img.node[n] \in {"SUCCESS", "SKIPPED"}

HasFailedNode(img) == \E n \in Nodes : img.node[n] = "FAILED"

ReinitializeDefect(w) ==
    /\ pc[w] = "claimed" /\ accepting[Process[w]] /\ Fenced(w)
    /\ mem' = [mem EXCEPT ![w] = saved]
    /\ pc' = [pc EXCEPT ![w] = "init"]
    /\ UNCHANGED <<runVars, due, accepting, job, futures, done, callVars>>

(* load() and, for a run whose root already succeeded, the search for a    *)
(* node that recovery failed. A lost lease makes load() throw.             *)
Load(w) ==
    /\ pc[w] = "claimed"
    /\ accepting[Process[w]]
    /\ IF Fenced(w)
       THEN /\ mem' = [mem EXCEPT ![w] = saved]
            /\ IF saved.node[Root] = "SUCCESS"
               THEN /\ pc' = [pc EXCEPT ![w] = "turn"]
                    /\ job' = [job EXCEPT ![w].failureSeen = HasFailedNode(saved)]
               ELSE /\ pc' = [pc EXCEPT ![w] = "init"]
                    /\ UNCHANGED job
       ELSE /\ pc' = [pc EXCEPT ![w] = "exit"]
            /\ UNCHANGED <<mem, job>>
    /\ UNCHANGED <<runVars, due, accepting, futures, done, callVars>>

InitialImage(img) ==
    LET graph == Ready(Definition, Initialize(Definition, Root))
    IN  [img EXCEPT !.node = graph.node, !.edge = graph.edge, !.next = {}]

InitializeRun(w) ==
    LET img == InitialImage(mem[w]) IN
    /\ pc[w] = "init"
    /\ \/ /\ CommitAccepted(w, img, "RUNNING")
          /\ mem' = [mem EXCEPT ![w] = img]
          /\ pc' = [pc EXCEPT ![w] = "turn"]
          /\ UNCHANGED <<accepting, job, futures, done, callVars>>
       \/ CommitRefused(w, img)

Stopping(j) == j.failureSeen \/ j.cancelSeen

PromotedDefect(img) == img

(* promoteDueRetries: a waiting node whose delay is over is PENDING again. *)
Promoted(img) ==
    LET over == img.next \intersect due
    IN  [img EXCEPT !.node = [n \in Nodes |-> IF n \in over /\ img.node[n] = "WAITING"
                                              THEN "PENDING" ELSE img.node[n]],
                    !.next = img.next \ over]

Planned(img) ==
    LET graph == Ready(Definition, [node |-> img.node, edge |-> img.edge])
    IN  [img EXCEPT !.node = graph.node, !.edge = graph.edge]

(* One turn of the loop up to persistPlannerChanges: the stop request is   *)
(* read, due retries and newly ready nodes are planned and committed. Only *)
(* the commit can be told apart from outside, so the read and the planning *)
(* are one step with it.                                                   *)
Turn(w) ==
    LET seen == [job[w] EXCEPT !.cancelSeen = @ \/ (~job[w].failureSeen /\ run.cancel)]
        img  == IF Stopping(seen) THEN mem[w] ELSE Planned(Promoted(mem[w]))
    IN
    /\ pc[w] = "turn"
    /\ accepting[Process[w]]
    /\ \/ /\ CommitAccepted(w, img, "RUNNING")
          /\ job' = [job EXCEPT ![w] = seen]
          /\ mem' = [mem EXCEPT ![w] = img]
          /\ pc' = [pc EXCEPT ![w] = IF Stopping(seen) THEN "settle" ELSE "schedule"]
          /\ UNCHANGED <<accepting, futures, done, callVars>>
       \/ CommitRefused(w, img)

(* The loop condition: a closed runner or a lost lease ends the run loop.  *)
LeaveLoop(w) ==
    /\ pc[w] \in {"turn", "settle"}
    /\ job[w].leaseLost \/ (pc[w] = "turn" /\ ~accepting[Process[w]])
    /\ EndLoop(w)

(* scheduleReadyNodes starts as many READY nodes as the limit allows, in   *)
(* no particular order: the attempt is committed before the call is        *)
(* submitted. runtime.nextAttempts is cleared as the code clears it.       *)
Started(img, S) ==
    [img EXCEPT
        !.node    = [n \in Nodes |-> IF n \in S THEN "RUNNING" ELSE img.node[n]],
        !.tries   = [n \in Nodes |-> IF n \in S THEN img.tries[n] + 1 ELSE img.tries[n]],
        !.attempt = [n \in Nodes |-> [k \in 1 .. MaxAttempts |->
                        IF n \in S /\ k = img.tries[n] + 1 THEN "RUNNING" ELSE img.attempt[n][k]]],
        !.next    = {}]

ScheduleReady(w) ==
    LET ready == {n \in Nodes : mem[w].node[n] = "READY"}
        room  == MaxConcurrent - Cardinality(futures[w])
    IN
    /\ pc[w] = "schedule"
    /\ \E S \in SUBSET ready :
          /\ S # {}
          /\ Cardinality(S) <= room
          /\ S = ready \/ Cardinality(S) = room
          /\ LET img == Started(mem[w], S) IN
             \/ /\ CommitAccepted(w, img, "RUNNING")
                /\ mem' = [mem EXCEPT ![w] = img]
                /\ futures' = [futures EXCEPT ![w] = IF accepting[Process[w]] THEN @ \union S ELSE @]
                /\ pc' = [pc EXCEPT ![w] = "settle"]
                /\ UNCHANGED <<accepting, job, done, callVars>>
             \/ CommitRefused(w, img)

NothingToSchedule(w) ==
    /\ pc[w] = "schedule"
    /\ \/ \A n \in Nodes : mem[w].node[n] # "READY"
       \/ Cardinality(futures[w]) >= MaxConcurrent
    /\ pc' = [pc EXCEPT ![w] = "settle"]
    /\ UNCHANGED <<runVars, due, accepting, job, mem, futures, done, callVars>>

(* With no call in flight the run ends, waits for a retry or gives up.     *)
Settling(w) == pc[w] = "settle" /\ ~job[w].leaseLost

Finished(w, status, img) ==
    \/ /\ CommitAccepted(w, img, status)
       /\ mem' = [mem EXCEPT ![w] = img]
       /\ pc' = [pc EXCEPT ![w] = "exit"]
       /\ UNCHANGED <<accepting, job, futures, done, callVars>>
    \/ CommitRefused(w, img)

StoppedDefect(img) ==
    [img EXCEPT !.node = [n \in Nodes |-> IF img.node[n] \in {"PENDING", "WAITING"}
                                          THEN "CANCELLED" ELSE img.node[n]],
                !.next = {}]

(* finalizeStopped: nodes that never started become CANCELLED.             *)
StoppedImage(img) ==
    [img EXCEPT !.node = [n \in Nodes |-> IF img.node[n] \in {"PENDING", "READY", "WAITING"}
                                          THEN "CANCELLED" ELSE img.node[n]],
                !.next = {}]

FinalizeCancelled(w) ==
    /\ Settling(w)
    /\ futures[w] = {}
    /\ job[w].cancelSeen /\ ~AllTerminal(mem[w])
    /\ Finished(w, "CANCELLED", StoppedImage(mem[w]))

FinalizeFailure(w) ==
    /\ Settling(w)
    /\ futures[w] = {}
    /\ ~job[w].cancelSeen \/ AllTerminal(mem[w])
    /\ job[w].failureSeen
    /\ Finished(w, "FAILED", StoppedImage(mem[w]))

FinalizeSuccess(w) ==
    /\ Settling(w)
    /\ futures[w] = {}
    /\ ~job[w].failureSeen
    /\ AllTerminal(mem[w])
    /\ Finished(w, "SUCCESS", mem[w])

(* Work is left and none of it is running: wait a slice of the retry delay *)
(* and turn again, or, when nothing waits either, fail the run.            *)
WaitOrGiveUp(w) ==
    /\ Settling(w)
    /\ futures[w] = {}
    /\ ~Stopping(job[w])
    /\ ~AllTerminal(mem[w])
    /\ job' = [job EXCEPT ![w].failureSeen = mem[w].next = {}]
    /\ pc' = [pc EXCEPT ![w] = "turn"]
    /\ UNCHANGED <<runVars, due, accepting, mem, futures, done, callVars>>

(* A retry time that has passed. pollCompletion then allows itself one     *)
(* millisecond, of which toMillis leaves 0 as soon as the clock has moved. *)
Overdue(w) == mem[w].next \intersect due # {}

(* So it gives up at the earliest retry time, and without a look at the    *)
(* completion queue when that time has passed already.                     *)
PollTimesOut(w) ==
    /\ Settling(w)
    /\ futures[w] # {}
    /\ Overdue(w)
    /\ pc' = [pc EXCEPT ![w] = "turn"]
    /\ UNCHANGED <<runVars, due, accepting, job, mem, futures, done, callVars>>

BudgetDefect(img, n, kind) ==
    /\ kind \in {"notSent", "transient"}
    /\ kind = "notSent" \/ n \notin Unrepeatable
    /\ img.tries[n] <= MaxAttempts

RetryDefect(img, n, kind) == kind \in {"notSent", "transient"} /\ img.tries[n] < MaxAttempts

(* shouldRetry: a transient failure, a repeat that cannot duplicate an     *)
(* external effect, and an attempt left.                                   *)
ShouldRetry(img, n, kind) ==
    /\ kind \in {"notSent", "transient"}
    /\ kind = "notSent" \/ n \notin Unrepeatable
    /\ img.tries[n] < MaxAttempts

Closed(img, n, result) ==
    [img.attempt EXCEPT ![n] = [k \in 1 .. MaxAttempts |->
        IF k = img.tries[n] THEN result ELSE img.attempt[n][k]]]

Completed(img, n, outcome) ==
    IF outcome.kind = "ok"
    THEN LET graph == AfterSuccess(Definition, [node |-> img.node, edge |-> img.edge],
                                   n, outcome.port)
         IN  [img EXCEPT !.node = graph.node, !.edge = graph.edge,
                         !.attempt = Closed(img, n, "SUCCESS"), !.next = @ \ {n}]
    ELSE IF ShouldRetry(img, n, outcome.kind)
    THEN [img EXCEPT !.node[n] = "WAITING", !.attempt = Closed(img, n, "FAILED"),
                     !.next = @ \union {n}]
    ELSE [img EXCEPT !.node[n] = "FAILED", !.attempt = Closed(img, n, "FAILED"),
                     !.next = @ \ {n}]

(* A completion is polled before the earliest retry time, and committed,   *)
(* unless the runner was closed: the loop then ends without it.            *)
Complete(w) ==
    /\ Settling(w)
    /\ ~Overdue(w)
    /\ \E c \in done[w] :
          LET img   == Completed(mem[w], c.node, c.outcome)
              fatal == c.outcome.kind # "ok" /\ ~ShouldRetry(mem[w], c.node, c.outcome.kind)
          IN
          \/ /\ accepting[Process[w]]
             /\ CommitAccepted(w, img, "RUNNING")
             /\ mem' = [mem EXCEPT ![w] = img]
             /\ job' = [job EXCEPT ![w].failureSeen = @ \/ fatal]
             /\ futures' = [futures EXCEPT ![w] = @ \ {c.node}]
             /\ done' = [done EXCEPT ![w] = @ \ {c}]
             /\ pc' = [pc EXCEPT ![w] = "turn"]
             /\ UNCHANGED <<accepting, callVars>>
          \/ CommitRefused(w, img)
          \/ ~accepting[Process[w]] /\ EndLoop(w)

(* run()'s finally: in-flight calls are cancelled, the heartbeat stops and *)
(* the lease is given back if it is still ours.                            *)
Exit(w) ==
    /\ pc[w] = "exit"
    /\ run' = ReleasedIfFenced(w)
    /\ Forget({w})
    /\ UNCHANGED <<saved, notices, due, accepting, effects>>

-----------------------------------------------------------------------------
(* Provider calls, time, failures and users.                               *)

Affect(n, applied) ==
    effects' = IF applied /\ n \in Unrepeatable THEN [effects EXCEPT ![n] = @ + 1] ELSE effects

(* A submitted call ends. Only a call that worked surely took effect, and  *)
(* only one that was not sent surely did not.                              *)
CallReturns(w) ==
    /\ \E n \in InFlight(w) : \E o \in Outcomes(n), applied \in BOOLEAN :
          /\ o.kind = "ok" => applied
          /\ o.kind = "notSent" => ~applied
          /\ n \notin Unrepeatable => applied = (o.kind = "ok")
          /\ done' = [done EXCEPT ![w] = @ \union {[node |-> n, outcome |-> o]}]
          /\ Affect(n, applied)
    /\ UNCHANGED <<runVars, due, accepting, pc, job, mem, futures, orphans>>

(* A request already on the wire takes effect after its worker stopped     *)
(* listening; or it never does.                                            *)
OrphanLands ==
    /\ \E call \in orphans :
          /\ orphans' = orphans \ {call}
          /\ Affect(call[1], TRUE)
    /\ UNCHANGED <<runVars, due, accepting, pc, job, mem, futures, done>>

BackoffElapses(n) ==
    /\ n \in saved.next \ due
    /\ due' = due \union {n}
    /\ UNCHANGED <<runVars, accepting, pc, job, mem, futures, done, callVars>>

(* lease_until passes: its holder is gone, or its heartbeats came too late. *)
LeaseExpires ==
    /\ run.live
    /\ "expiry" \in Faults \/ \A w \in Workers : ~Fenced(w)
    /\ run' = [run EXCEPT !.live = FALSE]
    /\ UNCHANGED <<saved, notices, due, accepting, pc, job, mem, futures, done, callVars>>

(* The heartbeat cannot renew: the lease is gone, or the database is away. *)
(* A renewal that works leaves a live lease live.                          *)
HeartbeatFails(w) ==
    /\ "heartbeat" \in Faults
    /\ pc[w] # "idle"
    /\ accepting[Process[w]]
    /\ ~job[w].leaseLost
    /\ job' = [job EXCEPT ![w].leaseLost = TRUE]
    /\ UNCHANGED <<runVars, due, accepting, pc, mem, futures, done, callVars>>

(* An exception leaves the run loop: a database error, a rejected task.    *)
Throw(w) ==
    /\ "throw" \in Faults
    /\ pc[w] \notin {"idle", "exit"}
    /\ EndLoop(w)

(* A process dies: its threads forget everything and nothing is released.  *)
Crash(p) ==
    LET dead == {w \in Workers : Process[w] = p} IN
    /\ "crash" \in Faults
    /\ \E w \in dead : pc[w] # "idle"
    /\ Forget(dead)
    /\ accepting' = [accepting EXCEPT ![p] = TRUE]
    /\ UNCHANGED <<runVars, due, effects>>

(* Graceful shutdown (close, stopAdmission), and the next process.         *)
Shutdown(p) ==
    /\ "shutdown" \in Faults
    /\ accepting[p]
    /\ accepting' = [accepting EXCEPT ![p] = FALSE]
    /\ UNCHANGED <<runVars, due, pc, job, mem, futures, done, callVars>>

Restart(p) ==
    /\ ~accepting[p]
    /\ \A w \in Workers : Process[w] = p => pc[w] = "idle"
    /\ accepting' = [accepting EXCEPT ![p] = TRUE]
    /\ UNCHANGED <<runVars, due, pc, job, mem, futures, done, callVars>>

(* requestCancel: a queued run ends at once, a running one gets the flag,  *)
(* a finished one is left alone.                                           *)
RequestCancel ==
    /\ \/ /\ run.status = "QUEUED"
          /\ run' = Released([run EXCEPT !.status = "CANCELLED", !.cancel = TRUE])
          /\ saved' = [saved EXCEPT
                !.node = [n \in Nodes |-> IF saved.node[n] \in {"SUCCESS", "SKIPPED", "FAILED"}
                                          THEN saved.node[n] ELSE "CANCELLED"],
                !.next = {}]
       \/ /\ run.status = "RUNNING"
          /\ ~run.cancel
          /\ run' = [run EXCEPT !.cancel = TRUE]
          /\ UNCHANGED saved
    /\ UNCHANGED <<notices, due, accepting, pc, job, mem, futures, done, callVars>>

-----------------------------------------------------------------------------
Claim(w) == ClaimFailsLegacy(w) \/ ClaimExhausts(w) \/ ClaimGranted(w)

Finalize(w) == FinalizeCancelled(w) \/ FinalizeFailure(w) \/ FinalizeSuccess(w)

(* Everything the thread itself does for a run it has claimed.             *)
Work(w) ==
    \/ RefuseRun(w) \/ Load(w) \/ InitializeRun(w)
    \/ Turn(w) \/ LeaveLoop(w) \/ ScheduleReady(w) \/ NothingToSchedule(w)
    \/ Finalize(w) \/ WaitOrGiveUp(w) \/ PollTimesOut(w) \/ Complete(w)
    \/ Exit(w)

Next ==
    \/ \E w \in Workers : \/ Claim(w) \/ Work(w) \/ CallReturns(w)
                          \/ HeartbeatFails(w) \/ Throw(w)
    \/ \E p \in Processes : Crash(p) \/ Shutdown(p) \/ Restart(p)
    \/ \E n \in Nodes : BackoffElapses(n)
    \/ LeaseExpires \/ RequestCancel \/ OrphanLands

(* A thread that has a run works on, a call ends at its own timeout, time  *)
(* passes, a stopped process is started again, a lease nobody renews runs  *)
(* out, and the recovery scanner keeps delivering the id of a run that is  *)
(* queued or whose lease is gone.                                          *)
Fairness ==
    /\ \A w \in Workers : WF_vars(Work(w)) /\ WF_vars(CallReturns(w))
    /\ \A p \in Processes : WF_vars(Restart(p))
    /\ \A n \in Nodes : WF_vars(BackoffElapses(n))
    /\ WF_vars(LeaseExpires /\ \A w \in Workers : ~Fenced(w))
    /\ SF_vars(\E w \in Workers : Claim(w))

Spec == Init /\ [][Next]_vars /\ Fairness

-----------------------------------------------------------------------------
(* Every variable keeps the shape of the rows and objects it stands for.   *)
TypeOK ==
    /\ run \in [status : RunStatus, owner : Processes \union {Nobody}, token : Nat,
                live : BOOLEAN, recoveries : 0 .. MaxRecoveries + 1,
                cancel : BOOLEAN, pinned : BOOLEAN]
    /\ saved \in Image
    /\ notices \in [{"SUCCESS", "FAILED"} -> Nat]
    /\ due \subseteq Nodes
    /\ accepting \in [Processes -> BOOLEAN]
    /\ pc \in [Workers -> {"idle", "claimed", "init", "turn", "schedule", "settle", "exit"}]
    /\ job \in [Workers -> [token : Nat, failureSeen : BOOLEAN, cancelSeen : BOOLEAN,
                             leaseLost : BOOLEAN]]
    /\ mem \in [Workers -> Image]
    /\ futures \in [Workers -> SUBSET Nodes]
    /\ done \in [Workers -> SUBSET Completions]
    /\ orphans \subseteq Unrepeatable \X (0 .. MaxAttempts)
    /\ effects \in [Unrepeatable -> Nat]

Active(img, n) == img.node[n] \in {"PENDING", "READY", "RUNNING", "WAITING"}

(* Node rows and attempt rows never contradict each other, whatever step a *)
(* worker stopped at: claim() never has to fail a run as unrecoverable     *)
(* legacy state (ExecutionStateAdapter.isInconsistentRunningState).        *)
RowsNeverContradict == ~Inconsistent(saved)

(* An unrepeatable provider call changes the outside world at most once    *)
(* per run, however often the run is claimed, retried or abandoned (BR07). *)
AtMostOneEffect == \A n \in Unrepeatable : effects[n] <= 1

(* An unrepeatable node whose row does not say RUNNING, SUCCESS or FAILED  *)
(* has not acted: neither a node waiting for a retry nor one reported as   *)
(* cancelled or skipped hides an effect. A SUCCESS row does mean one.      *)
RowsTellTheEffects ==
    \A n \in Unrepeatable :
        /\ saved.node[n] \notin {"RUNNING", "SUCCESS", "FAILED"} => effects[n] = 0
        /\ saved.node[n] = "SUCCESS" => effects[n] = 1

(* A finished run has no node or attempt left open; a successful one ran   *)
(* or skipped every node and never hides an unknown outcome.               *)
FinishedRunsAreSettled ==
    run.status \in Terminal =>
        /\ \A n \in Nodes : ~Active(saved, n)
        /\ \A n \in Nodes, k \in 1 .. MaxAttempts : saved.attempt[n][k] # "RUNNING"
        /\ run.status = "SUCCESS" => AllTerminal(saved) /\ saved.unknown = {}
        /\ saved.unknown # {} => run.status = "FAILED"

(* Exactly one result notification per run that ended SUCCESS or FAILED,   *)
(* of that kind, none for a stopped run, none before the end. The one      *)
(* exception is a run failed as unrecoverable legacy state.                *)
OneNoticePerResult ==
    \A s \in {"SUCCESS", "FAILED"} :
        /\ notices[s] = 1 => run.status = s
        /\ notices[s] <= 1
        /\ run.status = s => notices[s] = 1 \/ ~run.pinned

(* While its lease is live, the worker's copy of the rows is the rows: a   *)
(* commit never overwrites what another worker or a recovery wrote.        *)
HolderSeesTheRows ==
    \A w \in Workers :
        Fenced(w) /\ pc[w] \in {"init", "turn", "schedule", "settle"} => mem[w] = saved

(* At most one worker can commit.                                          *)
OneWriter == \A v, w \in Workers : Fenced(v) /\ Fenced(w) => v = w

(* A finished run never changes again.                                     *)
FinishedIsFinal ==
    [][run.status \in Terminal => UNCHANGED <<saved, notices>> /\ run'.status = run.status]_vars

(* Attempts only accumulate: the budget of a node is never reset, a        *)
(* finished attempt keeps its result, a successful node stays successful.  *)
HistoryIsKept ==
    [][\A n \in Nodes :
        /\ saved.tries[n] <= saved'.tries[n]
        /\ saved.node[n] = "SUCCESS" => saved'.node[n] = "SUCCESS"
        /\ \A k \in 1 .. MaxAttempts :
              saved.attempt[n][k] \in {"SUCCESS", "FAILED"} =>
                  saved'.attempt[n][k] = saved.attempt[n][k]]_vars

(* A decision is one decision: no result and no recovery ever opens two    *)
(* ports of a node, only a successful node opens a route, and a node is    *)
(* called only when every route into it is decided and one of them open.   *)
OneRoutePerDecision ==
    /\ \A e, f \in Edges : /\ saved.edge[e] = "ACTIVE" /\ saved.edge[f] = "ACTIVE"
                           /\ e.src = f.src
                           => e.port = f.port
    /\ \A e \in Edges : saved.edge[e] = "ACTIVE" => saved.node[e.src] = "SUCCESS"
    /\ \A n \in Nodes : saved.tries[n] > 0 =>
          /\ \A e \in In(Definition, n) : saved.edge[e] # "UNKNOWN"
          /\ \E e \in In(Definition, n) : saved.edge[e] = "ACTIVE"

(* A loop that has stopped scheduling keeps the retry time of a node that  *)
(* waits (promoteDueRetries). Once it has passed, no poll looks at the     *)
(* calls in flight any more.                                               *)
Spinning(w) == Fenced(w) /\ Stopping(job[w]) /\ futures[w] # {} /\ Overdue(w)

(* Every admitted run ends, whatever retries, lost leases, crashes and     *)
(* failed parallel nodes come in its way (WF-9), with one exception: a     *)
(* worker spins beside an overdue retry for ever (see StoppedRunEnds).     *)
RunEndsOrSpins == <>(run.status \in Terminal) \/ <>[](\E w \in Workers : Spinning(w))

(* Seen from outside, the run is the abstract one: statuses, node statuses *)
(* and announcements move as ExecutionLifecycle says, through every claim, *)
(* retry, lost lease and recovery.                                         *)
Lifecycle == INSTANCE ExecutionLifecycle WITH
    Before <- [n \in Nodes |-> {e.src : e \in In(Definition, n)}],
    status <- run.status, node <- saved.node, told <- notices

LifecycleSpec == Lifecycle!Spec

-----------------------------------------------------------------------------
(* What the documents say and the code does not do; see the README.        *)

(* "Nodes already running finish; nothing new is scheduled"                *)
(* (ExecutionRunner.java:177): a run somebody asked to stop ends.          *)
StoppedRunEnds == run.cancel ~> run.status \in Terminal

(* "count crash recoveries" (V7__execution_recovery_cap_and_outbox_index.   *)
(* sql): a run whose workers meet no failure at all is never recovered.    *)
RecoveriesNeedAFault == Faults = {} => run.recoveries = 0
=============================================================================
