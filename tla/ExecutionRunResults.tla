------------------------- MODULE ExecutionRunResults -------------------------
(***************************************************************************)
(* What a run's rows and announcements promise, for every definition,      *)
(* number of workers and pattern of faults: history is kept, a finished    *)
(* run is settled and announced once, and ExecutionRun implements          *)
(* ExecutionLifecycle.                                                     *)
(***************************************************************************)
EXTENDS ExecutionRunRows

-----------------------------------------------------------------------------
(* From the rows a to the rows b: attempts are kept, nodes move as the     *)
(* lifecycle lets them and start in dependency order.                      *)
Keeps(a, b) ==
    \A n \in Nodes :
        /\ a.tries[n] <= b.tries[n]
        /\ a.node[n] = "SUCCESS" => b.node[n] = "SUCCESS"
        /\ \A k \in 1 .. MaxAttempts :
              a.attempt[n][k] \in {"SUCCESS", "FAILED"} => b.attempt[n][k] = a.attempt[n][k]

Moves(a, b) ==
    \A n \in Nodes : \/ b.node[n] = a.node[n]
                     \/ <<a.node[n], b.node[n]>> \in Lifecycle!Moves
                     \/ n = Root /\ a.node[n] = "PENDING" /\ b.node[n] = "SUCCESS"

InOrder(a, b) ==
    \A n \in Nodes : b.node[n] = "RUNNING" /\ a.node[n] # "RUNNING" =>
        \A e \in In(Definition, n) : a.node[e.src] \in {"SUCCESS", "SKIPPED"}

Progress(a, b) == Keeps(a, b) /\ Moves(a, b) /\ InOrder(a, b)

LEMMA NoProgress ==
    ASSUME NEW img \in Image
    PROVE  Progress(img, img)
  BY ImageShape DEF Progress, Keeps, Moves, InOrder

LEMMA FailedProgress ==
    ASSUME NEW img \in Image
    PROVE  Progress(img, FailedImage(img))
  <1> DEFINE after == FailedImage(img)
  <1>1. /\ after.tries = img.tries
        /\ \A n \in Nodes : after.node[n] = IF img.node[n] \in Open THEN "FAILED" ELSE img.node[n]
        /\ \A n \in Nodes, k \in 1 .. MaxAttempts : after.attempt[n][k] =
              IF img.attempt[n][k] = "RUNNING" THEN "FAILED" ELSE img.attempt[n][k]
    BY FailedRows
  <1> HIDE DEF after
  <1>2. Keeps(img, after)
    <2> SUFFICES ASSUME NEW n \in Nodes
                 PROVE  /\ after.tries[n] = img.tries[n] /\ img.tries[n] \in Nat
                        /\ img.node[n] = "SUCCESS" => after.node[n] = "SUCCESS"
                        /\ \A k \in 1 .. MaxAttempts :
                              img.attempt[n][k] \in {"SUCCESS", "FAILED"} =>
                                  after.attempt[n][k] = img.attempt[n][k]
      BY DEF Keeps
    <2>1. img.tries[n] \in Nat
      BY ImageShape
    <2>2. "SUCCESS" \notin Open
      BY DEF Open
    <2> QED
      BY <1>1, <2>1, <2>2
  <1>3. Moves(img, after)
    <2>1. \A s \in Open : <<s, "FAILED">> \in Lifecycle!Moves
      BY DEF Open, Lifecycle!Moves
    <2> QED
      BY <1>1, <2>1 DEF Moves
  <1>4. InOrder(img, after)
    BY <1>1 DEF InOrder
  <1> QED
    BY <1>2, <1>3, <1>4 DEF Progress, after

LEMMA StoppedProgress ==
    ASSUME NEW img \in Image
    PROVE  Progress(img, StoppedImage(img))
  <1> DEFINE after == StoppedImage(img)
  <1>1. /\ after.tries = img.tries /\ after.attempt = img.attempt
        /\ \A n \in Nodes : after.node[n] =
              IF img.node[n] \in {"PENDING", "READY", "WAITING"} THEN "CANCELLED" ELSE img.node[n]
    BY StoppedRows
  <1> HIDE DEF after
  <1>2. Keeps(img, after)
    BY <1>1, ImageShape DEF Keeps
  <1>3. Moves(img, after) /\ InOrder(img, after)
    BY <1>1 DEF Moves, InOrder, Lifecycle!Moves
  <1> QED
    BY <1>2, <1>3 DEF Progress, after

LEMMA InterruptedProgress ==
    ASSUME NEW img \in Image
    PROVE  Progress(img, Interrupted(img))
  <1> DEFINE after == Interrupted(img)
  <1>1. /\ after.tries = img.tries
        /\ \A n \in Nodes : after.node[n] =
              IF img.node[n] # "RUNNING" THEN img.node[n]
              ELSE IF n \notin SideEffecting /\ img.tries[n] < MaxAttempts THEN "WAITING"
              ELSE "FAILED"
        /\ \A n \in Nodes, k \in 1 .. MaxAttempts : after.attempt[n][k] =
              IF img.node[n] = "RUNNING" /\ k = img.tries[n] /\ img.attempt[n][k] = "RUNNING"
              THEN "FAILED" ELSE img.attempt[n][k]
    BY InterruptedRows
  <1> HIDE DEF after
  <1>2. Keeps(img, after)
    BY <1>1, ImageShape DEF Keeps
  <1>3. Moves(img, after) /\ InOrder(img, after)
    BY <1>1 DEF Moves, InOrder, Lifecycle!Moves
  <1> QED
    BY <1>2, <1>3 DEF Progress, after

LEMMA InitialProgress ==
    ASSUME NEW img \in TidyImage, img.node[Root] = "PENDING"
    PROVE  Progress(img, InitialImage(img))
  <1> DEFINE after == InitialImage(img)
             first == Initialize(Definition, Root)
             graph == Ready(Definition, first)
  <1>1. img \in Image /\ \A n \in Nodes : img.node[n] = "PENDING"
    BY DEF TidyImage, Tidy, SoundImage, Resting
  <1>2. after.node = graph.node /\ after.tries = img.tries /\ after.attempt = img.attempt
    BY <1>1, InitialRows
  <1>3. after.node[Root] = "SUCCESS"
    BY InitialImageSound DEF TidyImage
  <1>4. \A n \in Nodes : n # Root => graph.node[n] \in {"PENDING", "READY", "SKIPPED"}
    <2> TAKE n \in Nodes
    <2>1. n # Root => first.node[n] \in {"SKIPPED", "PENDING"}
      BY DEF Initialize, Nodes
    <2> HIDE DEF first
    <2>2. \/ graph.node[n] = first.node[n]
          \/ graph.node[n] \in {"READY", "SKIPPED"}
      BY InitializeType, ReadyMoves DEF first
    <2> QED
      BY <2>1, <2>2
  <1> HIDE DEF after, graph, first
  <1>5. Progress(img, after)
    BY <1>1, <1>2, <1>3, <1>4, ImageShape DEF Progress, Keeps, Moves, InOrder, Lifecycle!Moves
  <1> QED
    BY <1>5 DEF after

(* A retry that is due is ready in the same turn: its routes are decided.  *)
LEMMA PlanProgress ==
    ASSUME NEW img \in TidyImage, img.node[Root] = "SUCCESS"
    PROVE  Progress(img, Planned(Promoted(img)))
  <1> DEFINE mid    == Promoted(img)
             before == [node |-> mid.node, edge |-> mid.edge]
             after  == Planned(mid)
  <1>1. /\ mid \in TidyImage /\ mid \in Image /\ img \in Image
        /\ Numbered(img) /\ Called(mid) /\ Routed(mid)
    BY PromotedTidy DEF TidyImage, SoundImage, Tidy
  <1>2. /\ mid.tries = img.tries /\ mid.attempt = img.attempt
        /\ \A n \in Nodes : \/ mid.node[n] = img.node[n]
                            \/ img.node[n] = "WAITING" /\ mid.node[n] = "PENDING"
    BY <1>1, PromotedRows
  <1> HIDE DEF mid
  <1>3. before \in GraphStates(Definition) /\ before.node = mid.node /\ before.edge = mid.edge
    BY <1>1, ImageShape DEF GraphStates, Nodes, Edges
  <1>4. /\ after.node = Ready(Definition, before).node
        /\ after.tries = mid.tries /\ after.attempt = mid.attempt
    BY <1>1, PlannedRows
  <1> HIDE DEF before, after
  <1>5. \A n \in Nodes : \/ after.node[n] = mid.node[n]
                         \/ mid.node[n] = "PENDING" /\ after.node[n] \in {"READY", "SKIPPED"}
    BY <1>3, <1>4, ReadyMoves
  <1>6. ASSUME NEW n \in Nodes, img.node[n] = "WAITING", mid.node[n] = "PENDING"
        PROVE  after.node[n] = "READY"
    <2>1. Decided(mid, n)
      BY <1>1, <1>2, <1>6 DEF Numbered, Called
    <2>2. \A e \in In(Definition, n) : e \in Edges
      BY DEF In, Edges
    <2>3. n \notin Excluded(Definition, before)
      BY <1>3, <2>1, DefinitionUnfolds DEF Decided
    <2>4. ASSUME NEW e \in In(Definition, n)
          PROVE  \/ before.edge[e] = "INACTIVE"
                 \/ before.edge[e] = "ACTIVE" /\ before.node[e.src] = "SUCCESS"
      BY <1>1, <1>3, <2>1, <2>2, <2>4, ImageShape DEF Decided, Routed, EdgeState
    <2>5. Runnable(Definition, before, Excluded(Definition, before), n)
      BY <1>3, <1>6, <2>3, <2>4 DEF Runnable
    <2> QED
      BY <1>4, <2>3, <2>5, ReadyNode
  <1>7. Keeps(img, after)
    BY <1>1, <1>2, <1>4, <1>5, ImageShape DEF Keeps
  <1>8. Moves(img, after) /\ InOrder(img, after)
    BY <1>2, <1>5, <1>6 DEF Moves, InOrder, Lifecycle!Moves
  <1> QED
    BY <1>7, <1>8 DEF Progress, after, mid

LEMMA StartedProgress ==
    ASSUME NEW img \in TidyImage,
           NEW S, S \subseteq {n \in Nodes : img.node[n] = "READY"}
    PROVE  Progress(img, Started(img, S))
  <1> DEFINE after == Started(img, S)
  <1>1. img \in Image /\ Numbered(img) /\ Routed(img)
    BY DEF TidyImage, SoundImage, Tidy
  <1>2. /\ \A n \in Nodes : /\ after.node[n] = IF n \in S THEN "RUNNING" ELSE img.node[n]
                            /\ after.tries[n] = IF n \in S THEN img.tries[n] + 1 ELSE img.tries[n]
        /\ \A n \in Nodes, k \in 1 .. MaxAttempts : after.attempt[n][k] =
              IF n \in S /\ k = img.tries[n] + 1 THEN "RUNNING" ELSE img.attempt[n][k]
    BY <1>1, StartedRows
  <1>3. \A n \in S : n \in Nodes /\ img.node[n] = "READY"
    OBVIOUS
  <1>4. \A n \in Nodes : img.tries[n] \in Nat
    BY <1>1, ImageShape
  <1> HIDE DEF after
  <1>5. Keeps(img, after)
    BY <1>1, <1>2, <1>3, <1>4 DEF Keeps, Numbered
  <1>6. Moves(img, after)
    BY <1>2, <1>3 DEF Moves, Lifecycle!Moves
  <1>7. InOrder(img, after)
    <2>1. ASSUME NEW n \in S, NEW e \in In(Definition, n)
          PROVE  img.node[e.src] \in {"SUCCESS", "SKIPPED"}
      <3>1. e \in Edges /\ img.edge[e] # "UNKNOWN" /\ img.edge[e] \in EdgeState
        BY <1>1, <1>3, <2>1, ImageShape DEF Routed, Decided, In, Edges
      <3> QED
        BY <1>1, <3>1 DEF Routed, EdgeState
    <2> QED
      BY <1>2, <2>1 DEF InOrder
  <1> QED
    BY <1>5, <1>6, <1>7 DEF Progress, after

LEMMA CompletedProgress ==
    ASSUME NEW img \in TidyImage, NEW n \in Nodes, img.node[n] = "RUNNING", NEW outcome
    PROVE  Progress(img, Completed(img, n, outcome))
  <1> DEFINE after == Completed(img, n, outcome)
  <1>1. img \in Image /\ Numbered(img)
    BY DEF TidyImage, SoundImage, Tidy
  <1>2. /\ after.tries = img.tries
        /\ \A m \in Nodes : after.node[m] = IF m # n THEN img.node[m]
                                            ELSE IF outcome.kind = "ok" THEN "SUCCESS"
                                            ELSE IF ShouldRetry(img, n, outcome.kind) THEN "WAITING"
                                            ELSE "FAILED"
        /\ \A m \in Nodes, k \in 1 .. MaxAttempts : after.attempt[m][k] =
                                            IF m # n \/ k # img.tries[n] THEN img.attempt[m][k]
                                            ELSE IF outcome.kind = "ok" THEN "SUCCESS"
                                            ELSE "FAILED"
    BY <1>1, CompletedRows
  <1> HIDE DEF after
  <1>3. img.attempt[n][img.tries[n]] = "RUNNING"
    BY <1>1 DEF Numbered
  <1>4. Keeps(img, after)
    BY <1>1, <1>2, <1>3, ImageShape DEF Keeps
  <1>5. Moves(img, after) /\ InOrder(img, after)
    BY <1>2 DEF Moves, InOrder, Lifecycle!Moves
  <1> QED
    BY <1>4, <1>5 DEF Progress, after

-----------------------------------------------------------------------------
(* A worker that may commit decides on the rows as they are, and they are  *)
(* those of a run that goes on.                                            *)
LEMMA HolderCopy ==
    ASSUME RowsInv, NEW w \in Workers, Fenced(w), pc[w] \in Looping
    PROVE  /\ mem[w] = saved /\ saved \in TidyImage /\ saved \in Image
           /\ saved.node[Root] \in {"PENDING", "SUCCESS"}
           /\ pc[w] = "init" <=> saved.node[Root] = "PENDING"
  <1>1. mem[w] = saved
    BY DEF RowsInv, FencingInv, HolderSeesTheRows, Looping
  <1>2. saved \in TidyImage /\ saved \in Image
    BY DEF RowsInv, ImagesInv, TidyImage, SoundImage
  <1>3. saved.node[Root] \in {"PENDING", "SUCCESS"}
    BY DEF RowsInv, RunInv, Fenced, Terminal
  <1>4. /\ pc[w] = "init" => mem[w].node[Root] # "SUCCESS"
        /\ pc[w] \in {"turn", "schedule", "settle"} => mem[w].node[Root] = "SUCCESS"
    BY DEF RowsInv, FencingInv, TypeInv, ThreadsInv
  <1> QED
    BY <1>1, <1>2, <1>3, <1>4 DEF Looping

(* A step of the loop that ends it changes nothing.                        *)
LEMMA EndLoopProgress ==
    ASSUME RowsInv, NEW w \in Workers, EndLoop(w)
    PROVE  Progress(saved, saved')
  BY NoProgress DEF EndLoop, runVars, RowsInv, ImagesInv, TidyImage, SoundImage

LEMMA CommitProgress ==
    ASSUME RowsInv, NEW w \in Workers, NEW img, NEW status, pc[w] \in Looping,
           CommitAccepted(w, img, status) \/ CommitRefused(w, img),
           Fenced(w) => Progress(saved, img)
    PROVE  Progress(saved, saved')
  BY EndLoopProgress DEF CommitAccepted, CommitRefused

LEMMA CommittingProgress ==
    ASSUME RowsInv, NEW w \in Workers,
           InitializeRun(w) \/ Turn(w) \/ ScheduleReady(w) \/ Finalize(w)
    PROVE  Progress(saved, saved')
  <1>1. CASE InitializeRun(w)
    <2>1. pc[w] = "init" /\ pc[w] \in Looping
      BY <1>1 DEF InitializeRun, Looping
    <2>2. Fenced(w) => Progress(saved, InitialImage(mem[w]))
      BY <2>1, HolderCopy, InitialProgress
    <2> QED
      BY <1>1, <2>1, <2>2, CommitProgress DEF InitializeRun
  <1>2. CASE Turn(w)
    <2> DEFINE seen == [job[w] EXCEPT !.cancelSeen = @ \/ (~job[w].failureSeen /\ run.cancel)]
               img  == IF Stopping(seen) THEN mem[w] ELSE Planned(Promoted(mem[w]))
    <2>1. pc[w] = "turn" /\ pc[w] \in Looping
      BY <1>2 DEF Turn, Looping
    <2>2. Fenced(w) => Progress(saved, mem[w]) /\ Progress(saved, Planned(Promoted(mem[w])))
      BY <2>1, HolderCopy, NoProgress, PlanProgress
    <2>3. Fenced(w) => Progress(saved, img)
      BY <2>2
    <2>4. CommitAccepted(w, img, "RUNNING") \/ CommitRefused(w, img)
      BY <1>2 DEF Turn
    <2> HIDE DEF img, seen
    <2> QED
      BY <2>1, <2>3, <2>4, CommitProgress
  <1>3. CASE ScheduleReady(w)
    <2>1. PICK S \in SUBSET {n \in Nodes : mem[w].node[n] = "READY"} :
              \/ CommitAccepted(w, Started(mem[w], S), "RUNNING")
              \/ CommitRefused(w, Started(mem[w], S))
      BY <1>3 DEF ScheduleReady
    <2>2. pc[w] \in Looping
      BY <1>3 DEF ScheduleReady, Looping
    <2>3. Fenced(w) => Progress(saved, Started(mem[w], S))
      BY <2>2, HolderCopy, StartedProgress
    <2> QED
      BY <2>1, <2>2, <2>3, CommitProgress
  <1>4. CASE Finalize(w)
    <2>1. PICK status \in Terminal, img \in {mem[w], StoppedImage(mem[w])} :
              CommitAccepted(w, img, status) \/ CommitRefused(w, img)
      BY <1>4 DEF Finalize, FinalizeCancelled, FinalizeFailure, FinalizeSuccess, Finished, Terminal
    <2>2. pc[w] \in Looping
      BY <1>4 DEF Finalize, FinalizeCancelled, FinalizeFailure, FinalizeSuccess, Settling, Looping
    <2>3. Fenced(w) => Progress(saved, img)
      BY <2>2, HolderCopy, NoProgress, StoppedProgress
    <2> QED
      BY <2>1, <2>2, <2>3, CommitProgress
  <1> QED
    BY <1>1, <1>2, <1>3, <1>4

LEMMA CompleteProgress ==
    ASSUME RowsInv, NEW w \in Workers, Complete(w)
    PROVE  Progress(saved, saved')
  <1>1. PICK c \in done[w] : \/ CommitAccepted(w, Completed(mem[w], c.node, c.outcome), "RUNNING")
                             \/ EndLoop(w)
    BY DEF Complete, CommitRefused
  <1>2. pc[w] = "settle" /\ pc[w] \in Looping /\ pc[w] \in InLoop
    BY DEF Complete, Settling, Looping, InLoop
  <1>3. c.node \in Nodes /\ mem[w].node[c.node] = "RUNNING"
    <2>1. c.node \in RunningNodes(mem[w])
      BY <1>2 DEF RowsInv, LoopsInv, LoopInv
    <2> QED
      BY <2>1 DEF RunningNodes
  <1> DEFINE n == c.node
             outcome == c.outcome
  <1>4. n \in Nodes /\ mem[w].node[n] = "RUNNING"
    BY <1>3
  <1>5. \/ CommitAccepted(w, Completed(mem[w], n, outcome), "RUNNING")
        \/ EndLoop(w)
    BY <1>1
  <1> HIDE DEF n, outcome
  <1>6. Fenced(w) => Progress(saved, Completed(mem[w], n, outcome))
    BY <1>2, <1>4, HolderCopy, CompletedProgress
  <1> QED
    BY <1>2, <1>5, <1>6, CommitProgress, EndLoopProgress

(* The rows admission wrote are withdrawn.                                 *)
LEMMA WithdrawnRows ==
    ASSUME RowsInv, RequestCancel, run.status = "QUEUED"
    PROVE  /\ saved = EmptyImage
           /\ saved'.node = [n \in Nodes |-> "CANCELLED"]
           /\ saved'.tries = saved.tries /\ saved'.attempt = saved.attempt
           /\ saved'.unknown = {}
  <1> DEFINE node == [n \in Nodes |-> IF saved.node[n] \in {"SUCCESS", "SKIPPED", "FAILED"}
                                      THEN saved.node[n] ELSE "CANCELLED"]
  <1>1. saved = EmptyImage
    BY DEF RowsInv, RunInv
  <1>2. node = [n \in Nodes |-> "CANCELLED"] /\ saved.unknown = {}
    BY <1>1 DEF EmptyImage
  <1>3. saved' = [saved EXCEPT !.node = node, !.next = {}]
    BY DEF RequestCancel
  <1>4. saved \in Image
    BY <1>1, EmptyImageSound DEF SoundImage
  <1> HIDE DEF node
  <1> QED
    BY <1>1, <1>2, <1>3, <1>4 DEF Image

LEMMA NextProgress ==
    ASSUME RowsInv, [Next]_vars
    PROVE  Progress(saved, saved')
  <1>1. saved \in Image
    BY DEF RowsInv, ImagesInv, TidyImage, SoundImage
  <1>2. CASE UNCHANGED saved
    BY <1>1, <1>2, NoProgress
  <1>3. ASSUME NEW w \in Workers, Claim(w) PROVE Progress(saved, saved')
    BY <1>1, <1>3, NoProgress, FailedProgress, InterruptedProgress
       DEF Claim, ClaimFailsLegacy, ClaimExhausts, ClaimGranted
  <1>4. ASSUME NEW w \in Workers, Work(w) PROVE Progress(saved, saved')
    <2>1. CASE InitializeRun(w) \/ Turn(w) \/ ScheduleReady(w) \/ Finalize(w) \/ Complete(w)
      BY <2>1, CommittingProgress, CompleteProgress
    <2>2. CASE ~(InitializeRun(w) \/ Turn(w) \/ ScheduleReady(w) \/ Finalize(w) \/ Complete(w))
      BY <1>2, <1>4, <2>2 DEF Work, RefuseRun, Load, LeaveLoop, NothingToSchedule, WaitOrGiveUp,
                              PollTimesOut, Exit, EndLoop, runVars
    <2> QED
      BY <2>1, <2>2
  <1>5. CASE RequestCancel /\ run.status = "QUEUED"
    <2>1. \A n \in Nodes : saved.node[n] = "PENDING" /\ saved'.node[n] = "CANCELLED"
      BY <1>5, WithdrawnRows DEF EmptyImage
    <2> QED
      BY <1>1, <1>5, <2>1, WithdrawnRows, ImageShape
         DEF Progress, Keeps, Moves, InOrder, Lifecycle!Moves
  <1>6. CASE \/ \E w \in Workers : CallReturns(w) \/ HeartbeatFails(w) \/ Throw(w)
             \/ \E p \in Processes : Crash(p) \/ Shutdown(p) \/ Restart(p)
             \/ \E n \in Nodes : BackoffElapses(n)
             \/ LeaseExpires \/ OrphanLands \/ (RequestCancel /\ run.status # "QUEUED")
    BY <1>2, <1>6 DEF CallReturns, HeartbeatFails, Throw, EndLoop, Crash, Shutdown, Restart,
                      BackoffElapses, LeaseExpires, OrphanLands, RequestCancel, runVars
  <1> QED
    BY <1>2, <1>3, <1>4, <1>5, <1>6 DEF Next, vars

(* Attempts only accumulate: the budget of a node is never reset, a        *)
(* finished attempt keeps its result and a successful node its success,    *)
(* through every retry, recovery, lost lease and late commit.              *)
THEOREM AttemptsAreHistory == Spec => HistoryIsKept
  <1>1. RowsInv /\ [Next]_vars => \A n \in Nodes :
            /\ saved.tries[n] <= saved'.tries[n]
            /\ saved.node[n] = "SUCCESS" => saved'.node[n] = "SUCCESS"
            /\ \A k \in 1 .. MaxAttempts :
                  saved.attempt[n][k] \in {"SUCCESS", "FAILED"} =>
                      saved'.attempt[n][k] = saved.attempt[n][k]
    BY NextProgress DEF Progress, Keeps
  <1> QED
    BY <1>1, RowsAreKept, PTL DEF Spec, HistoryIsKept

-----------------------------------------------------------------------------
(* How the run's row, its rows and its announcements move together: it     *)
(* goes on or is finished, it is begun, it ends with a result that is      *)
(* announced, it is failed as unrecoverable, or it is withdrawn.           *)
Settled(img, status) ==
    /\ \A n \in Nodes : ~Active(img, n)
    /\ \A n \in Nodes, k \in 1 .. MaxAttempts : img.attempt[n][k] # "RUNNING"
    /\ status = "SUCCESS" => AllTerminal(img) /\ img.unknown = {}
    /\ img.unknown # {} => status = "FAILED"

GoesOn == /\ run'.status = run.status /\ notices' = notices
          /\ saved' = saved \/ run.status = "RUNNING"

Begins == /\ run.status = "QUEUED" /\ run'.status = "RUNNING"
          /\ UNCHANGED <<saved, notices>>

Ends == /\ run.status = "RUNNING" /\ run'.status \in Terminal
        /\ notices' = IF run'.status = "CANCELLED" THEN notices ELSE Notify(run'.status)
        /\ run'.status = "SUCCESS" => AllTerminal(saved)
        /\ Settled(saved', run'.status)

Fails == /\ run.status \in {"QUEUED", "RUNNING"} /\ run'.status = "FAILED"
         /\ ~run.pinned /\ notices' = notices
         /\ Settled(saved', "FAILED")

IsWithdrawn == /\ run.status = "QUEUED" /\ run'.status = "CANCELLED"
               /\ notices' = notices
               /\ saved'.node = [n \in Nodes |-> "CANCELLED"]
               /\ Settled(saved', "CANCELLED")

RunMoves == /\ run'.pinned = run.pinned
            /\ GoesOn \/ Begins \/ Ends \/ Fails \/ IsWithdrawn

(* failExecution settles any rows.                                         *)
LEMMA FailedSettles ==
    ASSUME NEW img \in TidyImage
    PROVE  Settled(FailedImage(img), "FAILED")
  <1> DEFINE after == FailedImage(img)
  <1>1. img \in Image
    BY DEF TidyImage, SoundImage
  <1>2. /\ \A n \in Nodes : after.node[n] = IF img.node[n] \in Open THEN "FAILED" ELSE img.node[n]
        /\ \A n \in Nodes, k \in 1 .. MaxAttempts : after.attempt[n][k] =
              IF img.attempt[n][k] = "RUNNING" THEN "FAILED" ELSE img.attempt[n][k]
    BY <1>1, FailedRows
  <1> HIDE DEF after
  <1>3. Settled(after, "FAILED")
    BY <1>2 DEF Settled, Active, Open
  <1> QED
    BY <1>3 DEF after

(* finalizeStopped settles rows of which nothing is running.               *)
LEMMA StoppedSettles ==
    ASSUME NEW img \in TidyImage, RunningNodes(img) = {},
           NEW status \in {"FAILED", "CANCELLED"},
           status = "CANCELLED" => img.unknown = {}
    PROVE  Settled(StoppedImage(img), status)
  <1> DEFINE after == StoppedImage(img)
  <1>1. img \in Image /\ Numbered(img)
    BY DEF TidyImage, SoundImage, Tidy
  <1>2. /\ after.attempt = img.attempt /\ after.unknown = img.unknown
        /\ \A n \in Nodes : after.node[n] =
              IF img.node[n] \in {"PENDING", "READY", "WAITING"} THEN "CANCELLED" ELSE img.node[n]
    BY <1>1, StoppedRows
  <1>3. \A n \in Nodes : img.node[n] # "RUNNING"
    BY DEF RunningNodes
  <1> HIDE DEF after
  <1>4. /\ \A n \in Nodes : ~Active(after, n)
        /\ \A n \in Nodes, k \in 1 .. MaxAttempts : after.attempt[n][k] # "RUNNING"
    BY <1>1, <1>2, <1>3 DEF Active, Numbered
  <1>5. Settled(after, status)
    BY <1>2, <1>4 DEF Settled
  <1> QED
    BY <1>5 DEF after

(* Rows whose every node succeeded or was skipped are settled.             *)
LEMMA SuccessSettles ==
    ASSUME NEW img \in TidyImage, AllTerminal(img), img.unknown = {}
    PROVE  Settled(img, "SUCCESS")
  BY DEF TidyImage, Tidy, Numbered, Settled, Active, AllTerminal

(* What a commit does to the run's row.                                    *)
LEMMA CommitMoves ==
    ASSUME TypeInv, NEW w \in Workers, NEW img, NEW status, CommitAccepted(w, img, status)
    PROVE  /\ run.status = "RUNNING" /\ saved' = img /\ run'.pinned = run.pinned
           /\ run'.status = IF status \in Terminal THEN status ELSE "RUNNING"
           /\ notices' = IF status \in {"SUCCESS", "FAILED"} THEN Notify(status) ELSE notices
  <1>1. run.status = "RUNNING" /\ run \in Row
    BY DEF CommitAccepted, Fenced, TypeInv, TablesInv
  <1>2. CASE status \in Terminal
    <2>1. run' = [[run EXCEPT !.status = status] EXCEPT !.owner = Nobody, !.live = FALSE]
      BY <1>2 DEF CommitAccepted, Released
    <2>2. run'.status = status /\ run'.pinned = run.pinned
      BY <1>1, <2>1 DEF Row
    <2> QED
      BY <1>1, <1>2, <2>2 DEF CommitAccepted
  <1>3. CASE status \notin Terminal
    BY <1>1, <1>3 DEF CommitAccepted, Terminal
  <1> QED
    BY <1>2, <1>3

LEMMA QuietMoves ==
    ASSUME run'.status = run.status, run'.pinned = run.pinned, UNCHANGED <<saved, notices>>
    PROVE  RunMoves
  BY DEF RunMoves, GoesOn

LEMMA EndLoopMoves ==
    ASSUME NEW w \in Workers, EndLoop(w)
    PROVE  RunMoves
  BY QuietMoves DEF EndLoop, runVars

(* The commits of a run that goes on.                                      *)
LEMMA WorkingMoves ==
    ASSUME TypeInv, NEW w \in Workers,
           InitializeRun(w) \/ Turn(w) \/ ScheduleReady(w) \/ Complete(w)
    PROVE  RunMoves
  <1>1. EndLoop(w) \/ \E img : CommitAccepted(w, img, "RUNNING")
    BY DEF InitializeRun, Turn, ScheduleReady, Complete, CommitRefused
  <1>2. ASSUME NEW img, CommitAccepted(w, img, "RUNNING") PROVE RunMoves
    <2>1. "RUNNING" \notin Terminal /\ "RUNNING" \notin {"SUCCESS", "FAILED"}
      BY DEF Terminal
    <2>2. /\ run.status = "RUNNING" /\ run'.status = "RUNNING" /\ notices' = notices
          /\ run'.pinned = run.pinned
      BY <1>2, <2>1, CommitMoves
    <2> QED
      BY <2>2 DEF RunMoves, GoesOn
  <1> QED
    BY <1>1, <1>2, EndLoopMoves

(* The end: nothing runs any more, and what is unknown is a failure.       *)
LEMMA FinalizeMoves ==
    ASSUME RowsInv, NEW w \in Workers, Finalize(w)
    PROVE  RunMoves
  <1>1. /\ pc[w] = "settle" /\ futures[w] = {} /\ pc[w] \in Looping /\ pc[w] \in InLoop
        /\ TypeInv
    BY DEF Finalize, FinalizeCancelled, FinalizeFailure, FinalizeSuccess, Settling, Looping,
           InLoop, RowsInv, FencingInv
  <1>2. LoopInv(w) /\ mem[w] \in TidyImage
    BY DEF RowsInv, LoopsInv, ImagesInv
  <1>3. /\ futures[w] = RunningNodes(mem[w]) \/ ~Stopping(job[w])
        /\ mem[w].unknown # {} => job[w].failureSeen /\ ~job[w].cancelSeen
    BY <1>1, <1>2 DEF LoopInv, AllSubmitted
  <1>4. ASSUME NEW img, NEW status \in Terminal, Finished(w, status, img),
               status = "SUCCESS" => img = mem[w] /\ AllTerminal(mem[w]),
               Settled(img, status)
        PROVE  RunMoves
    <2>1. CASE CommitRefused(w, img)
      BY <2>1, EndLoopMoves DEF CommitRefused
    <2>2. CASE CommitAccepted(w, img, status)
      <3>1. /\ run.status = "RUNNING" /\ saved' = img /\ run'.pinned = run.pinned
            /\ run'.status = status
            /\ notices' = IF status \in {"SUCCESS", "FAILED"} THEN Notify(status) ELSE notices
        BY <1>1, <2>2, CommitMoves
      <3>2. mem[w] = saved
        BY <1>1, <2>2, HolderCopy DEF CommitAccepted
      <3>3. Ends
        BY <1>4, <3>1, <3>2 DEF Ends, Terminal
      <3> QED
        BY <3>1, <3>3 DEF RunMoves
    <2> QED
      BY <1>4, <2>1, <2>2 DEF Finished
  <1>5. CASE FinalizeCancelled(w)
    <2>1. job[w].cancelSeen /\ Finished(w, "CANCELLED", StoppedImage(mem[w]))
      BY <1>5 DEF FinalizeCancelled
    <2>2. Settled(StoppedImage(mem[w]), "CANCELLED")
      BY <1>1, <1>2, <1>3, <2>1, StoppedSettles DEF Stopping
    <2> QED
      BY <1>4, <2>1, <2>2 DEF Terminal
  <1>6. CASE FinalizeFailure(w)
    <2>1. job[w].failureSeen /\ Finished(w, "FAILED", StoppedImage(mem[w]))
      BY <1>6 DEF FinalizeFailure
    <2>2. Settled(StoppedImage(mem[w]), "FAILED")
      BY <1>1, <1>2, <1>3, <2>1, StoppedSettles DEF Stopping
    <2> QED
      BY <1>4, <2>1, <2>2 DEF Terminal
  <1>7. CASE FinalizeSuccess(w)
    <2>1. ~job[w].failureSeen /\ AllTerminal(mem[w]) /\ Finished(w, "SUCCESS", mem[w])
      BY <1>7 DEF FinalizeSuccess
    <2>2. Settled(mem[w], "SUCCESS")
      BY <1>2, <1>3, <2>1, SuccessSettles
    <2> QED
      BY <1>4, <2>1, <2>2 DEF Terminal
  <1> QED
    BY <1>5, <1>6, <1>7 DEF Finalize

(* A claim begins a run, takes it over, or fails it. Rows never contradict *)
(* each other, so it fails one as unrecoverable only when it is no longer  *)
(* pinned.                                                                 *)
LEMMA ClaimMoves ==
    ASSUME RowsInv, NEW w \in Workers, Claim(w)
    PROVE  RunMoves
  <1>1. /\ run \in Row /\ run.status \in {"QUEUED", "RUNNING"}
        /\ run.recoveries <= MaxRecoveries
        /\ saved \in TidyImage /\ ~Inconsistent(saved)
    <2>1. run.status \in {"QUEUED", "RUNNING"}
      BY DEF Claim, ClaimFailsLegacy, ClaimExhausts, ClaimGranted, Claimable
    <2>2. run \in Row /\ run.recoveries <= MaxRecoveries /\ saved \in TidyImage
      BY <2>1 DEF RowsInv, FencingInv, TypeInv, TablesInv, ImagesInv, Terminal
    <2> QED
      BY <2>1, <2>2, NumberedIsConsistent DEF TidyImage, SoundImage, Tidy
  <1>2. CASE ClaimFailsLegacy(w)
    <2>1. run' = [[run EXCEPT !.status = "FAILED"] EXCEPT !.owner = Nobody, !.live = FALSE]
      BY <1>2 DEF ClaimFailsLegacy, Released
    <2>2. run'.status = "FAILED" /\ run'.pinned = run.pinned
      BY <1>1, <2>1 DEF Row
    <2>3. ~run.pinned /\ saved' = FailedImage(saved) /\ notices' = notices
      BY <1>1, <1>2 DEF ClaimFailsLegacy, Recoverable
    <2> QED
      BY <1>1, <2>2, <2>3, FailedSettles DEF RunMoves, Fails
  <1>3. CASE ClaimExhausts(w)
    <2> DEFINE token  == run.token + 1
               count  == NextRecovery
               failed == [run EXCEPT !.status = "FAILED", !.token = token, !.recoveries = count]
    <2>1. run' = [failed EXCEPT !.owner = Nobody, !.live = FALSE]
      BY <1>3 DEF ClaimExhausts, Released
    <2>2. count > MaxRecoveries /\ saved' = FailedImage(saved) /\ notices' = Notify("FAILED")
      BY <1>3 DEF ClaimExhausts
    <2>3. run.status = "RUNNING"
      <3>1. run.recoveries \in Nat /\ MaxRecoveries \in Nat
        BY <1>1, BoundsAssumption DEF Row
      <3> QED
        BY <1>1, <2>2, <3>1 DEF NextRecovery
    <2> HIDE DEF token, count
    <2>4. run'.status = "FAILED" /\ run'.pinned = run.pinned
      BY <1>1, <2>1 DEF Row
    <2> QED
      BY <1>1, <2>2, <2>3, <2>4, FailedSettles DEF RunMoves, Ends, Terminal
  <1>4. CASE ClaimGranted(w)
    <2> DEFINE token == run.token + 1
               count == NextRecovery
    <2>1. run' = [run EXCEPT !.status = "RUNNING", !.owner = Process[w],
                             !.token = token, !.live = TRUE, !.recoveries = count]
      BY <1>4 DEF ClaimGranted
    <2> HIDE DEF token, count
    <2>2. run'.status = "RUNNING" /\ run'.pinned = run.pinned
      BY <1>1, <2>1 DEF Row
    <2>3. notices' = notices /\ (run.status # "RUNNING" => saved' = saved)
      BY <1>4 DEF ClaimGranted
    <2> QED
      BY <1>1, <2>2, <2>3 DEF RunMoves, GoesOn, Begins
  <1> QED
    BY <1>2, <1>3, <1>4 DEF Claim

LEMMA WithdrawMoves ==
    ASSUME RowsInv, RequestCancel
    PROVE  RunMoves
  <1>1. run \in Row
    BY DEF RowsInv, FencingInv, TypeInv, TablesInv
  <1>2. CASE run.status = "QUEUED"
    <2>1. run' = [[run EXCEPT !.status = "CANCELLED", !.cancel = TRUE]
                   EXCEPT !.owner = Nobody, !.live = FALSE]
      BY <1>2 DEF RequestCancel, Released
    <2>2. run'.status = "CANCELLED" /\ run'.pinned = run.pinned /\ notices' = notices
      BY <1>1, <2>1 DEF Row, RequestCancel
    <2>3. Settled(saved', "CANCELLED")
      <3>1. /\ \A n \in Nodes : saved'.node[n] = "CANCELLED"
            /\ \A n \in Nodes, k \in 1 .. MaxAttempts : saved'.attempt[n][k] = "NONE"
            /\ saved'.unknown = {}
        <4>1. saved.attempt = [n \in Nodes |-> [k \in 1 .. MaxAttempts |-> "NONE"]]
          BY <1>2, WithdrawnRows DEF EmptyImage
        <4>2. /\ saved'.attempt = saved.attempt /\ saved'.unknown = {}
              /\ saved'.node = [n \in Nodes |-> "CANCELLED"]
          BY <1>2, WithdrawnRows
        <4> QED
          BY <4>1, <4>2
      <3> QED
        BY <3>1 DEF Settled, Active
    <2> QED
      BY <1>2, <2>2, <2>3, WithdrawnRows DEF RunMoves, IsWithdrawn
  <1>3. CASE run.status # "QUEUED"
    <2>1. run' = [run EXCEPT !.cancel = TRUE] /\ UNCHANGED <<saved, notices>>
      BY <1>3 DEF RequestCancel
    <2> QED
      BY <1>1, <2>1, QuietMoves DEF Row
  <1> QED
    BY <1>2, <1>3

LEMMA NextMoves ==
    ASSUME RowsInv, [Next]_vars
    PROVE  RunMoves
  <1>1. run \in Row /\ TypeInv
    BY DEF RowsInv, FencingInv, TypeInv, TablesInv
  <1>2. ASSUME NEW w \in Workers, Work(w) PROVE RunMoves
    <2>1. CASE InitializeRun(w) \/ Turn(w) \/ ScheduleReady(w) \/ Complete(w) \/ Finalize(w)
      BY <1>1, <2>1, WorkingMoves, FinalizeMoves
    <2>2. CASE RefuseRun(w) \/ Exit(w)
      <3>1. run' = ReleasedIfFenced(w) /\ UNCHANGED <<saved, notices>>
        BY <2>2 DEF RefuseRun, Exit
      <3>2. run'.status = run.status /\ run'.pinned = run.pinned
        BY <1>1, <3>1 DEF ReleasedIfFenced, Released, Row
      <3> QED
        BY <3>1, <3>2, QuietMoves
    <2>3. CASE \/ Load(w) \/ LeaveLoop(w) \/ NothingToSchedule(w) \/ WaitOrGiveUp(w)
               \/ PollTimesOut(w)
      BY <2>3, QuietMoves DEF Load, LeaveLoop, NothingToSchedule, WaitOrGiveUp, PollTimesOut,
                              EndLoop, runVars
    <2> QED
      BY <1>2, <2>1, <2>2, <2>3 DEF Work
  <1>3. CASE \/ UNCHANGED vars
             \/ \E w \in Workers : CallReturns(w) \/ HeartbeatFails(w) \/ Throw(w)
             \/ \E p \in Processes : Crash(p) \/ Shutdown(p) \/ Restart(p)
             \/ \E n \in Nodes : BackoffElapses(n)
             \/ OrphanLands
    BY <1>3, QuietMoves DEF vars, CallReturns, HeartbeatFails, Throw, EndLoop, Crash, Shutdown,
                            Restart, BackoffElapses, OrphanLands, runVars
  <1>4. CASE LeaseExpires
    <2>1. run' = [run EXCEPT !.live = FALSE] /\ UNCHANGED <<saved, notices>>
      BY <1>4 DEF LeaseExpires
    <2> QED
      BY <1>1, <2>1, QuietMoves DEF Row
  <1> QED
    BY <1>2, <1>3, <1>4, ClaimMoves, WithdrawMoves DEF Next

-----------------------------------------------------------------------------
(* A finished run has no node or attempt left open, and none that is       *)
(* reported successful hides an unfinished node or an unknown outcome.     *)
LEMMA MovesSettle ==
    ASSUME RunMoves, FinishedRunsAreSettled
    PROVE  FinishedRunsAreSettled'
  <1>1. run.status \in Terminal => Settled(saved, run.status)
    BY DEF FinishedRunsAreSettled, Settled
  <1>2. run'.status \in Terminal => Settled(saved', run'.status)
    BY <1>1 DEF RunMoves, GoesOn, Begins, Ends, Fails, IsWithdrawn, Terminal
  <1> QED
    BY <1>2 DEF FinishedRunsAreSettled, Settled, Active, AllTerminal

THEOREM FinishedIsSettled == Spec => []FinishedRunsAreSettled
  <1>1. Init => FinishedRunsAreSettled
    <2> SUFFICES ASSUME Init PROVE FinishedRunsAreSettled
      OBVIOUS
    <2>1. run.status = "QUEUED"
      BY DEF Init
    <2> QED
      BY <2>1 DEF FinishedRunsAreSettled, Terminal
  <1>2. RowsInv /\ FinishedRunsAreSettled /\ [Next]_vars => FinishedRunsAreSettled'
    BY NextMoves, MovesSettle
  <1> QED
    BY <1>1, <1>2, RowsAreKept, PTL DEF Spec

(* Exactly one announcement per run that ended SUCCESS or FAILED, in the   *)
(* transaction that ended it, none for a stopped run and none before the   *)
(* end; only a run whose pinned version is gone fails silently.            *)
LEMMA MovesNotify ==
    ASSUME TypeInv, RunMoves, OneNoticePerResult
    PROVE  OneNoticePerResult'
  <1> SUFFICES ASSUME NEW s \in {"SUCCESS", "FAILED"}
               PROVE  /\ notices'[s] = 1 => run'.status = s
                      /\ notices'[s] <= 1
                      /\ run'.status = s => notices'[s] = 1 \/ ~run'.pinned
    BY DEF OneNoticePerResult
  <1>1. notices \in [{"SUCCESS", "FAILED"} -> Nat] /\ notices[s] \in Nat
    BY DEF TypeInv, TablesInv
  <1>2. /\ notices[s] = 1 => run.status = s
        /\ notices[s] <= 1
        /\ run.status = s => notices[s] = 1 \/ ~run.pinned
        /\ run'.pinned = run.pinned
    BY DEF OneNoticePerResult, RunMoves
  <1>3. CASE GoesOn \/ Begins \/ Fails \/ IsWithdrawn
    <2>1. /\ notices'[s] = notices[s]
          /\ \/ run'.status = run.status
             \/ run.status \in {"QUEUED", "RUNNING"} /\ (run'.status = s => ~run.pinned)
      BY <1>3 DEF GoesOn, Begins, Fails, IsWithdrawn
    <2>2. run.status \in {"QUEUED", "RUNNING"} => run.status # s
      OBVIOUS
    <2> QED
      BY <1>2, <2>1, <2>2
  <1>4. CASE Ends
    <2>1. /\ run.status # s /\ run'.status \in Terminal
          /\ notices' = IF run'.status = "CANCELLED" THEN notices
                        ELSE [notices EXCEPT ![run'.status] = @ + 1]
      BY <1>4 DEF Ends, Notify
    <2>2. notices[s] = 0
      BY <1>1, <1>2, <2>1
    <2>3. notices'[s] = IF run'.status = s THEN 1 ELSE 0
      BY <1>1, <2>1, <2>2 DEF Terminal
    <2> QED
      BY <2>3
  <1> QED
    BY <1>3, <1>4 DEF RunMoves

THEOREM ResultsAreAnnouncedOnce == Spec => []OneNoticePerResult
  <1>1. Init => OneNoticePerResult
    <2> SUFFICES ASSUME Init PROVE OneNoticePerResult
      OBVIOUS
    <2>1. run.status = "QUEUED" /\ \A s \in {"SUCCESS", "FAILED"} : notices[s] = 0
      BY DEF Init
    <2> QED
      BY <2>1 DEF OneNoticePerResult
  <1>2. RowsInv /\ OneNoticePerResult /\ [Next]_vars => OneNoticePerResult'
    <2>1. RowsInv => TypeInv
      BY DEF RowsInv, FencingInv
    <2> QED
      BY <2>1, NextMoves, MovesNotify
  <1> QED
    BY <1>1, <1>2, RowsAreKept, PTL DEF Spec

-----------------------------------------------------------------------------
(* Refinement. Every step of a run is a step of its lifecycle or changes   *)
(* nothing that shows.                                                     *)
LEMMA RefinesInit == Init => Lifecycle!Init
  BY DEF Init, EmptyImage, Lifecycle!Init

LEMMA SettledIsClosed ==
    ASSUME NEW img \in Image, NEW status, Settled(img, status)
    PROVE  \A n \in Nodes : img.node[n] \in Lifecycle!Closed
  BY ImageShape DEF Settled, Active, NodeStatus, Lifecycle!Closed

LEMMA RefinesNext ==
    ASSUME RowsInv, RowsInv', OneNoticePerResult, [Next]_vars
    PROVE  [Lifecycle!Next]_(Lifecycle!vars)
  <1>1. Progress(saved, saved') /\ RunMoves
    BY NextProgress, NextMoves
  <1>2. \A n \in Nodes : Lifecycle!May(n)
    BY <1>1 DEF Progress, Moves, Lifecycle!May
  <1>3. \A n \in Nodes : saved'.node[n] = "RUNNING" /\ saved.node[n] # "RUNNING" =>
            \A m \in {e.src : e \in In(Definition, n)} : saved.node[m] \in {"SUCCESS", "SKIPPED"}
    BY <1>1 DEF Progress, InOrder
  <1>4. saved' \in Image
    BY DEF RowsInv, ImagesInv, TidyImage, SoundImage
  <1>5. CASE GoesOn
    <2>1. CASE saved' = saved
      BY <1>5, <2>1 DEF GoesOn, Lifecycle!vars
    <2>2. CASE run.status = "RUNNING"
      <3>1. Lifecycle!Advance
        BY <1>2, <1>3, <1>5, <2>2 DEF GoesOn, Lifecycle!Advance
      <3> QED
        BY <3>1 DEF Lifecycle!Next
    <2> QED
      BY <1>5, <2>1, <2>2 DEF GoesOn
  <1>6. CASE Begins
    BY <1>6 DEF Begins, Lifecycle!Begin, Lifecycle!Next
  <1>7. CASE Ends
    <2> DEFINE result == run'.status
    <2>1. result \in Terminal /\ \A n \in Nodes : saved'.node[n] \in Lifecycle!Closed
      BY <1>4, <1>7, SettledIsClosed DEF Ends
    <2>2. result = "SUCCESS" => \A n \in Nodes : saved.node[n] \in {"SUCCESS", "SKIPPED"}
      BY <1>7 DEF Ends, AllTerminal
    <2>3. result # "CANCELLED" => notices[result] = 0
      <3> HAVE result # "CANCELLED"
      <3>1. result \in {"SUCCESS", "FAILED"} /\ run.status # result
        BY <1>7, <2>1 DEF Ends, Terminal
      <3>2. notices[result] \in Nat /\ notices[result] <= 1 /\ notices[result] # 1
        BY <3>1 DEF OneNoticePerResult, RowsInv, FencingInv, TypeInv, TablesInv
      <3> QED
        BY <3>2
    <2>4. notices' = IF result = "CANCELLED" THEN notices ELSE [notices EXCEPT ![result] = 1]
      <3>1. notices' = IF result = "CANCELLED" THEN notices
                       ELSE [notices EXCEPT ![result] = notices[result] + 1]
        BY <1>7 DEF Ends, Notify
      <3>2. result # "CANCELLED" => notices[result] + 1 = 1
        BY <2>3
      <3> QED
        BY <3>1, <3>2, Zenon
    <2>5. run.status = "RUNNING" /\ run'.status = result
      BY <1>7 DEF Ends
    <2> HIDE DEF result
    <2>6. Lifecycle!End(result)
      BY <1>2, <2>1, <2>2, <2>3, <2>4, <2>5 DEF Lifecycle!End
    <2> QED
      BY <2>1, <2>6 DEF Lifecycle!Next, Terminal
  <1>8. CASE Fails
    <2>1. \A n \in Nodes : saved'.node[n] \in Lifecycle!Closed
      BY <1>4, <1>8, SettledIsClosed DEF Fails
    <2>2. Lifecycle!Abandon
      BY <1>2, <1>8, <2>1 DEF Fails, Lifecycle!Abandon
    <2> QED
      BY <2>2 DEF Lifecycle!Next
  <1>9. CASE IsWithdrawn
    BY <1>9 DEF IsWithdrawn, Lifecycle!Withdraw, Lifecycle!Next
  <1> QED
    BY <1>1, <1>5, <1>6, <1>7, <1>8, <1>9 DEF RunMoves

(* Seen from outside, every run is the abstract one: its status, its       *)
(* nodes' statuses and its announcements move as ExecutionLifecycle says,  *)
(* whatever leases, workers, retries and recoveries do inside.             *)
THEOREM RunImplementsLifecycle == Spec => LifecycleSpec
  <1>1. RowsInv /\ RowsInv' /\ OneNoticePerResult /\ [Next]_vars
            => [Lifecycle!Next]_(Lifecycle!vars)
    BY RefinesNext
  <1> QED
    BY <1>1, RefinesInit, RowsAreKept, ResultsAreAnnouncedOnce, PTL
       DEF Spec, LifecycleSpec, Lifecycle!Spec

-----------------------------------------------------------------------------
(***************************************************************************)
(* Why a provider call that must not be repeated changes the outside world *)
(* at most once per run (BR07), for every definition, number of workers,   *)
(* pattern of crashes, lost leases and retries, and whatever its callers   *)
(* get to know of it.                                                      *)
(*                                                                         *)
(* The rows alone do not show it: the call may be with a worker that lost  *)
(* its lease, or on the wire with nobody listening. The invariant follows  *)
(* the call itself: it is in one place, its node stays RUNNING or FAILED   *)
(* until its result is committed, and while it has not returned it has     *)
(* had no effect.                                                          *)
(***************************************************************************)

Callers(n) == {w \in Workers : n \in futures[w]}

Lost(n) == {c \in orphans : c[1] = n}

(* The call of node n is with one worker or is one lost call.              *)
OnePlace(n) ==
    /\ \A v, w \in Callers(n) : v = w
    /\ \A c, d \in Lost(n) : c = d
    /\ Callers(n) = {} \/ Lost(n) = {}

(* Its row says so, and nothing has happened before it returns.            *)
RowKnows(n) == Callers(n) # {} \/ Lost(n) # {} => saved.node[n] \in {"RUNNING", "FAILED"}

NotYet(n) == (\E w \in Workers : n \in InFlight(w)) \/ Lost(n) # {} => effects[n] = 0

(* What a worker is told is what happened.                                 *)
ResultKnows(n) ==
    \A w \in Workers : \A c \in done[w] : c.node = n =>
        /\ c.outcome.kind = "ok" => effects[n] = 1
        /\ c.outcome.kind = "notSent" => effects[n] = 0

Told(n) ==
    /\ effects[n] <= 1
    /\ saved.node[n] \notin {"RUNNING", "SUCCESS", "FAILED"} => effects[n] = 0
    /\ saved.node[n] = "SUCCESS" => effects[n] = 1

CallInv(n) == OnePlace(n) /\ RowKnows(n) /\ NotYet(n) /\ ResultKnows(n) /\ Told(n)

CallsInv == \A n \in Unrepeatable : CallInv(n)

LEMMA UnrepeatableIsNode ==
    ASSUME NEW n \in Unrepeatable
    PROVE  n \in Nodes /\ n # Root /\ n \in SideEffecting
  BY DefinitionAssumption DEF Unrepeatable

-----------------------------------------------------------------------------
(* Steps that leave the calls where they are and start or end none.        *)
Quiet(n) ==
    \/ saved'.node[n] = saved.node[n]
    \/ /\ saved.node[n] \notin {"RUNNING", "SUCCESS", "FAILED"}
       /\ saved'.node[n] \notin {"RUNNING", "SUCCESS"}
    \/ saved.node[n] # "SUCCESS" /\ saved'.node[n] = "FAILED"

LEMMA QuietCall ==
    ASSUME NEW n \in Unrepeatable, CallInv(n), UNCHANGED <<futures, done, orphans, effects>>, Quiet(n)
    PROVE  CallInv(n)'
  <1>1. OnePlace(n)' /\ NotYet(n)' /\ ResultKnows(n)'
    BY DEF CallInv, OnePlace, NotYet, ResultKnows, Callers, Lost, InFlight
  <1>2. RowKnows(n)'
    BY DEF CallInv, RowKnows, Callers, Lost, Quiet
  <1>3. Told(n)'
    BY DEF CallInv, Told, Quiet
  <1> QED
    BY <1>1, <1>2, <1>3 DEF CallInv

(* The lifecycle's moves are quiet unless a call starts or ends.           *)
LEMMA QuietMove ==
    ASSUME NEW n \in Unrepeatable, Moves(saved, saved'),
           saved'.node[n] = "RUNNING" => saved.node[n] = "RUNNING",
           saved.node[n] = "RUNNING" => saved'.node[n] \in {"RUNNING", "FAILED"}
    PROVE  Quiet(n)
  BY UnrepeatableIsNode DEF Moves, Quiet, Lifecycle!Moves

(* The commits that neither start nor end a call.                          *)
LEMMA LoopKeepsCalls ==
    ASSUME RowsInv, NEW w \in Workers, InitializeRun(w) \/ Turn(w) \/ Finalize(w)
    PROVE  /\ RunningNodes(saved') = RunningNodes(saved)
           /\ UNCHANGED <<futures, done, orphans, effects>>
  <1>1. ASSUME NEW img, NEW status, CommitAccepted(w, img, status),
               Fenced(w) => RunningNodes(img) = RunningNodes(saved)
        PROVE  RunningNodes(saved') = RunningNodes(saved)
    BY <1>1 DEF CommitAccepted
  <1>2. ASSUME EndLoop(w)
        PROVE  /\ RunningNodes(saved') = RunningNodes(saved)
               /\ UNCHANGED <<futures, done, orphans, effects>>
    BY <1>2 DEF EndLoop, runVars, callVars
  <1>3. CASE InitializeRun(w)
    <2> DEFINE img == InitialImage(mem[w])
    <2>1. pc[w] = "init" /\ pc[w] \in Looping
      BY <1>3 DEF InitializeRun, Looping
    <2>2. ASSUME Fenced(w) PROVE RunningNodes(img) = RunningNodes(saved)
      <3>1. mem[w] = saved /\ saved \in TidyImage /\ saved \in Image /\ saved.node[Root] = "PENDING"
        BY <2>1, <2>2, HolderCopy
      <3>2. RunningNodes(saved) = {}
        BY <3>1 DEF TidyImage, Tidy, Resting, RunningNodes
      <3>3. RunningNodes(img) = {}
        BY <3>1, InitialImageTidy, InitialRows, NothingStarted DEF RunningNodes
      <3> QED
        BY <3>2, <3>3
    <2>3. \/ EndLoop(w)
          \/ CommitAccepted(w, img, "RUNNING") /\ UNCHANGED <<futures, done, orphans, effects>>
      BY <1>3 DEF InitializeRun, CommitRefused, callVars
    <2> HIDE DEF img
    <2> QED
      BY <1>1, <1>2, <2>2, <2>3
  <1>4. CASE Turn(w)
    <2> DEFINE seen == [job[w] EXCEPT !.cancelSeen = @ \/ (~job[w].failureSeen /\ run.cancel)]
               img  == IF Stopping(seen) THEN mem[w] ELSE Planned(Promoted(mem[w]))
    <2>1. pc[w] = "turn" /\ pc[w] \in Looping
      BY <1>4 DEF Turn, Looping
    <2>2. Fenced(w) => /\ mem[w] = saved
                       /\ RunningNodes(Planned(Promoted(mem[w]))) = RunningNodes(saved)
      BY <2>1, HolderCopy, PlanKeepsCalls
    <2>3. Fenced(w) => RunningNodes(img) = RunningNodes(saved)
      BY <2>2
    <2>4. \/ EndLoop(w)
          \/ CommitAccepted(w, img, "RUNNING") /\ UNCHANGED <<futures, done, orphans, effects>>
      BY <1>4 DEF Turn, CommitRefused, callVars
    <2> HIDE DEF img, seen
    <2> QED
      BY <1>1, <1>2, <2>3, <2>4
  <1>5. CASE Finalize(w)
    <2>1. PICK status \in Terminal, img \in {mem[w], StoppedImage(mem[w])} :
              \/ EndLoop(w)
              \/ CommitAccepted(w, img, status) /\ UNCHANGED <<futures, done, orphans, effects>>
      BY <1>5 DEF Finalize, FinalizeCancelled, FinalizeFailure, FinalizeSuccess, Finished,
                  CommitRefused, Terminal, callVars
    <2>2. pc[w] \in Looping
      BY <1>5 DEF Finalize, FinalizeCancelled, FinalizeFailure, FinalizeSuccess, Settling, Looping
    <2>3. ASSUME Fenced(w) PROVE RunningNodes(img) = RunningNodes(saved)
      <3>1. mem[w] = saved /\ saved \in Image
        BY <2>2, <2>3, HolderCopy
      <3>2. \A n \in Nodes : StoppedImage(saved).node[n] =
                IF saved.node[n] \in {"PENDING", "READY", "WAITING"} THEN "CANCELLED"
                ELSE saved.node[n]
        BY <3>1, StoppedRows
      <3> QED
        BY <3>1, <3>2 DEF RunningNodes
    <2> QED
      BY <1>1, <1>2, <2>1, <2>3
  <1> QED
    BY <1>3, <1>4, <1>5

(* Everything but a start, a completion, a returning or a lost call.       *)
LEMMA QuietSteps ==
    ASSUME RowsInv, [Next]_vars, NEW n \in Unrepeatable,
           RunningNodes(saved') = RunningNodes(saved)
    PROVE  Quiet(n)
  <1>1. n \in Nodes /\ Moves(saved, saved')
    BY UnrepeatableIsNode, NextProgress DEF Progress
  <1>2. saved'.node[n] = "RUNNING" <=> saved.node[n] = "RUNNING"
    BY <1>1 DEF RunningNodes
  <1> QED
    BY <1>1, <1>2, QuietMove

LEMMA ClaimCalls ==
    ASSUME RowsInv, [Next]_vars, NEW w \in Workers, Claim(w), NEW n \in Unrepeatable, CallInv(n)
    PROVE  CallInv(n)'
  <1>1. UNCHANGED <<futures, done, orphans, effects>>
    BY DEF Claim, ClaimFailsLegacy, ClaimExhausts, ClaimGranted, callVars
  <1>2. /\ saved' \in {saved, FailedImage(saved), Interrupted(saved)}
        /\ saved \in Image /\ n \in Nodes /\ n \in SideEffecting
    BY UnrepeatableIsNode DEF Claim, ClaimFailsLegacy, ClaimExhausts, ClaimGranted,
                              RowsInv, ImagesInv, TidyImage, SoundImage
  <1>3. FailedImage(saved).node[n] = IF saved.node[n] \in Open THEN "FAILED" ELSE saved.node[n]
    BY <1>2, FailedRows
  <1>4. Interrupted(saved).node[n] = IF saved.node[n] # "RUNNING" THEN saved.node[n] ELSE "FAILED"
    BY <1>2, InterruptedRows
  <1>5. Quiet(n)
    BY <1>2, <1>3, <1>4 DEF Quiet, Open
  <1> QED
    BY <1>1, <1>5, QuietCall

-----------------------------------------------------------------------------
(* A call is submitted after its attempt is committed: its node was READY, *)
(* so no earlier call of it is anywhere and none has had an effect.        *)
LEMMA ScheduleCalls ==
    ASSUME RowsInv, NEW w \in Workers, ScheduleReady(w), NEW n \in Unrepeatable, CallInv(n)
    PROVE  CallInv(n)'
  <1>1. PICK S \in SUBSET {m \in Nodes : mem[w].node[m] = "READY"} :
            \/ EndLoop(w)
            \/ /\ CommitAccepted(w, Started(mem[w], S), "RUNNING")
               /\ futures' = [futures EXCEPT ![w] = IF accepting[Process[w]] THEN @ \union S ELSE @]
               /\ UNCHANGED <<done, callVars>>
    BY DEF ScheduleReady, CommitRefused
  <1>2. n \in Nodes /\ pc[w] \in Looping
    BY UnrepeatableIsNode DEF ScheduleReady, Looping
  <1>3. CASE EndLoop(w)
    BY <1>3, QuietCall DEF EndLoop, runVars, callVars, Quiet
  <1>4. CASE ~EndLoop(w)
    <2>1. mem[w] = saved /\ saved \in Image
      BY <1>1, <1>2, <1>4, HolderCopy DEF CommitAccepted
    <2>2. saved' = Started(saved, S) /\ UNCHANGED <<done, orphans, effects>>
      BY <1>1, <1>4, <2>1 DEF CommitAccepted, callVars
    <2>3. saved'.node[n] = IF n \in S THEN "RUNNING" ELSE saved.node[n]
      BY <1>2, <2>1, <2>2, StartedRows
    <2>4. /\ futures'[w] = IF accepting[Process[w]] THEN futures[w] \union S ELSE futures[w]
          /\ \A v \in Workers \ {w} : futures'[v] = futures[v]
      BY <1>1, <1>4 DEF RowsInv, FencingInv, TypeInv, ThreadsInv
    <2>5. CASE n \notin S
      <3>1. \A v \in Workers : n \in futures'[v] <=> n \in futures[v]
        BY <2>4, <2>5
      <3>2. OnePlace(n)' /\ RowKnows(n)' /\ NotYet(n)' /\ ResultKnows(n)' /\ Told(n)'
        BY <2>2, <2>3, <2>5, <3>1
           DEF CallInv, OnePlace, RowKnows, NotYet, ResultKnows, Told, Callers, Lost, InFlight
      <3> QED
        BY <3>2 DEF CallInv
    <2>6. CASE n \in S
      <3>1. saved.node[n] = "READY" /\ saved'.node[n] = "RUNNING"
        BY <2>1, <2>3, <2>6
      <3>2. Callers(n) = {} /\ Lost(n) = {} /\ effects[n] = 0
        BY <3>1 DEF CallInv, RowKnows, Told
      <3>3. Lost(n)' = {} /\ effects'[n] = 0 /\ Callers(n)' \subseteq {w}
        <4>1. \A v \in Workers \ {w} : n \notin futures'[v]
          BY <2>4, <3>2 DEF Callers
        <4> QED
          BY <2>2, <3>2, <4>1 DEF Callers, Lost
      <3>4. \A v \in Workers : \A c \in done'[v] : c.node # n
        BY <2>2, <3>2 DEF Callers, RowsInv, LoopsInv, LoopInv
      <3>5. OnePlace(n)' /\ RowKnows(n)' /\ NotYet(n)' /\ ResultKnows(n)' /\ Told(n)'
        BY <3>1, <3>3, <3>4 DEF OnePlace, RowKnows, NotYet, ResultKnows, Told
      <3> QED
        BY <3>5 DEF CallInv
    <2> QED
      BY <2>5, <2>6
  <1> QED
    BY <1>3, <1>4

(* A result is committed: the call is over, and only one that provably had *)
(* no effect leaves its node waiting for a repetition.                     *)
LEMMA CompleteCalls ==
    ASSUME RowsInv, NEW w \in Workers, Complete(w), NEW n \in Unrepeatable, CallInv(n)
    PROVE  CallInv(n)'
  <1>1. PICK c \in done[w] :
            \/ EndLoop(w)
            \/ /\ CommitAccepted(w, Completed(mem[w], c.node, c.outcome), "RUNNING")
               /\ futures' = [futures EXCEPT ![w] = @ \ {c.node}]
               /\ done' = [done EXCEPT ![w] = @ \ {c}]
               /\ UNCHANGED callVars
    BY DEF Complete, CommitRefused
  <1>2. n \in Nodes /\ pc[w] = "settle" /\ pc[w] \in Looping /\ pc[w] \in InLoop
    BY UnrepeatableIsNode DEF Complete, Settling, Looping, InLoop
  <1>3. CASE EndLoop(w)
    BY <1>3, QuietCall DEF EndLoop, runVars, callVars, Quiet
  <1>4. CASE ~EndLoop(w)
    <2> DEFINE m == c.node
               outcome == c.outcome
    <2>1. mem[w] = saved /\ saved \in Image
      BY <1>1, <1>2, <1>4, HolderCopy DEF CommitAccepted
    <2>2. m \in futures[w] /\ m \in Nodes /\ \A d \in done[w] : d.node = m => d = c
      <3>1. futures[w] \in SUBSET Nodes /\ LoopInv(w)
        BY DEF RowsInv, FencingInv, TypeInv, ThreadsInv, LoopsInv
      <3>2. c.node \in futures[w] /\ \A d \in done[w] : d.node = c.node => d = c
        BY <3>1 DEF LoopInv
      <3> QED
        BY <3>1, <3>2
    <2>3. saved' = Completed(saved, m, outcome) /\ UNCHANGED <<orphans, effects>>
      BY <1>1, <1>4, <2>1 DEF CommitAccepted, callVars
    <2>4. /\ futures'[w] = futures[w] \ {m} /\ done'[w] = done[w] \ {c}
          /\ \A v \in Workers \ {w} : futures'[v] = futures[v] /\ done'[v] = done[v]
      BY <1>1, <1>4 DEF RowsInv, FencingInv, TypeInv, ThreadsInv
    <2>5. n = m => /\ outcome.kind = "ok" => effects[n] = 1
                   /\ outcome.kind = "notSent" => effects[n] = 0
      BY DEF CallInv, ResultKnows
    <2>6. c.node = m
      OBVIOUS
    <2> HIDE DEF m, outcome
    <2>7. saved'.node[n] = IF n # m THEN saved.node[n]
                           ELSE IF outcome.kind = "ok" THEN "SUCCESS"
                           ELSE IF ShouldRetry(saved, m, outcome.kind) THEN "WAITING"
                           ELSE "FAILED"
      <3>1. \A k \in Nodes : Completed(saved, m, outcome).node[k] =
                IF k # m THEN saved.node[k]
                ELSE IF outcome.kind = "ok" THEN "SUCCESS"
                ELSE IF ShouldRetry(saved, m, outcome.kind) THEN "WAITING"
                ELSE "FAILED"
        BY <2>1, <2>2, CompletedRows
      <3> QED
        BY <1>2, <2>3, <3>1
    <2>8. CASE n # m
      <3>1. \A v \in Workers : n \in futures'[v] <=> n \in futures[v]
        BY <2>4, <2>8
      <3>2. \A v \in Workers : \A d \in done[v] \union done'[v] :
                d.node = n => (d \in done'[v] <=> d \in done[v])
        BY <2>4, <2>6, <2>8
      <3>3. OnePlace(n)' /\ RowKnows(n)' /\ Told(n)'
        BY <2>3, <2>7, <2>8, <3>1 DEF CallInv, OnePlace, RowKnows, Told, Callers, Lost
      <3>4. NotYet(n)' /\ ResultKnows(n)'
        BY <2>3, <3>1, <3>2 DEF CallInv, NotYet, ResultKnows, Lost, InFlight
      <3> QED
        BY <3>3, <3>4 DEF CallInv
    <2>9. CASE n = m
      <3>1. w \in Callers(n)
        BY <2>2, <2>9 DEF Callers
      <3>2. /\ \A v \in Workers \ {w} : n \notin futures[v]
            /\ Lost(n) = {}
        BY <3>1 DEF CallInv, OnePlace, Callers
      <3>3. \A v \in Workers : n \notin futures'[v]
        BY <2>4, <2>9, <3>2
      <3>4. Callers(n)' = {} /\ Lost(n)' = {}
        BY <2>3, <3>2, <3>3 DEF Callers, Lost
      <3>5. \A v \in Workers : \A d \in done'[v] : d.node # n
        <4>1. \A v \in Workers \ {w} : \A d \in done[v] : d.node # n
          BY <3>2 DEF RowsInv, LoopsInv, LoopInv
        <4> QED
          BY <2>2, <2>4, <2>9, <4>1
      <3>6. Told(n)'
        <4>1. saved'.node[n] = "SUCCESS" => outcome.kind = "ok"
          BY <2>7, <2>9
        <4>2. saved'.node[n] = "WAITING" => outcome.kind = "notSent"
          BY <2>7, <2>9 DEF ShouldRetry
        <4>3. saved'.node[n] \in {"SUCCESS", "WAITING", "FAILED"} /\ effects' = effects
          BY <2>3, <2>7, <2>9
        <4> QED
          BY <2>5, <2>9, <4>1, <4>2, <4>3 DEF CallInv, Told
      <3> QED
        BY <3>3, <3>4, <3>5, <3>6 DEF CallInv, OnePlace, RowKnows, NotYet, ResultKnows, InFlight
    <2> QED
      BY <2>8, <2>9
  <1> QED
    BY <1>3, <1>4

-----------------------------------------------------------------------------
(* Threads that forget their calls leave those on the wire behind.         *)
LEMMA ForgetCalls ==
    ASSUME RowsInv, NEW W \in SUBSET Workers, Forget(W), UNCHANGED <<saved, effects>>,
           NEW n \in Unrepeatable, CallInv(n)
    PROVE  CallInv(n)'
  <1>1. \A v \in Workers : /\ futures'[v] = IF v \in W THEN {} ELSE futures[v]
                           /\ done'[v] = IF v \in W THEN {} ELSE done[v]
    BY DEF Forget
  <1>2. Callers(n)' = Callers(n) \ W
    BY <1>1 DEF Callers
  <1>3. \A c \in Lost(n)' : \/ c \in Lost(n)
                            \/ \E v \in W : n \in InFlight(v) /\ c = <<n, mem[v].tries[n]>>
    BY DEF Forget, Lost, Orphaned
  <1>4. ASSUME NEW c \in Lost(n)', c \notin Lost(n)
        PROVE  \E v \in Workers : /\ v \in W /\ Callers(n) = {v} /\ n \in InFlight(v)
                                  /\ c = <<n, mem[v].tries[n]>>
    <2>1. PICK v \in W : n \in InFlight(v) /\ c = <<n, mem[v].tries[n]>>
      BY <1>3, <1>4
    <2>2. v \in Callers(n)
      BY <2>1 DEF InFlight, Callers
    <2> QED
      BY <2>1, <2>2 DEF CallInv, OnePlace
  <1>5. OnePlace(n)'
    <2>1. CASE Lost(n)' \subseteq Lost(n)
      BY <1>2, <2>1 DEF CallInv, OnePlace
    <2>2. CASE \E c \in Lost(n)' : c \notin Lost(n)
      <3>1. PICK v \in Workers : v \in W /\ Callers(n) = {v}
        BY <1>4, <2>2
      <3>2. Lost(n) = {} /\ Callers(n)' = {}
        BY <1>2, <3>1 DEF CallInv, OnePlace
      <3>3. \A c \in Lost(n)' : c = <<n, mem[v].tries[n]>>
        BY <1>4, <3>1, <3>2
      <3> QED
        BY <3>2, <3>3 DEF OnePlace
    <2> QED
      BY <2>1, <2>2
  <1>6. RowKnows(n)'
    BY <1>2, <1>4 DEF CallInv, RowKnows
  <1>7. NotYet(n)'
    <2>1. ASSUME NEW v \in Workers, n \in InFlight(v)' PROVE n \in InFlight(v)
      BY <1>1, <2>1 DEF InFlight
    <2> QED
      BY <1>4, <2>1 DEF CallInv, NotYet
  <1>8. ResultKnows(n)' /\ Told(n)'
    BY <1>1 DEF CallInv, ResultKnows, Told
  <1> QED
    BY <1>5, <1>6, <1>7, <1>8 DEF CallInv

(* A call returns: it had no effect before, and what its worker is told is *)
(* what it did.                                                            *)
LEMMA ReturnCalls ==
    ASSUME RowsInv, NEW w \in Workers, CallReturns(w), NEW n \in Unrepeatable, CallInv(n)
    PROVE  CallInv(n)'
  <1>1. PICK m \in InFlight(w) : \E o \in Outcomes(m), applied \in BOOLEAN :
            /\ o.kind = "ok" => applied
            /\ o.kind = "notSent" => ~applied
            /\ done' = [done EXCEPT ![w] = @ \union {[node |-> m, outcome |-> o]}]
            /\ Affect(m, applied)
    BY DEF CallReturns
  <1>2. PICK o \in Outcomes(m), applied \in BOOLEAN :
            /\ o.kind = "ok" => applied
            /\ o.kind = "notSent" => ~applied
            /\ done' = [done EXCEPT ![w] = @ \union {[node |-> m, outcome |-> o]}]
            /\ Affect(m, applied)
    BY <1>1
  <1> DEFINE c == [node |-> m, outcome |-> o]
  <1>3. c.node = m /\ c.outcome = o
    OBVIOUS
  <1>4. done'[w] = done[w] \union {c} /\ \A v \in Workers \ {w} : done'[v] = done[v]
    BY <1>2 DEF RowsInv, FencingInv, TypeInv, ThreadsInv
  <1>5. UNCHANGED <<saved, futures, orphans>> /\ effects \in [Unrepeatable -> Nat]
    BY DEF CallReturns, runVars, RowsInv, FencingInv, TypeInv, WorldInv
  <1> HIDE DEF c
  <1>6. OnePlace(n)' /\ RowKnows(n)'
    BY <1>5 DEF CallInv, OnePlace, RowKnows, Callers, Lost
  <1>7. CASE n # m
    <2>1. effects'[n] = effects[n]
      BY <1>2, <1>5, <1>7 DEF Affect
    <2>2. \A v \in Workers : n \in InFlight(v)' => n \in InFlight(v)
      BY <1>4, <1>5 DEF InFlight
    <2>3. NotYet(n)' /\ ResultKnows(n)' /\ Told(n)'
      BY <1>3, <1>4, <1>5, <1>7, <2>1, <2>2 DEF CallInv, NotYet, ResultKnows, Told, Lost
    <2> QED
      BY <1>6, <2>3 DEF CallInv
  <1>8. CASE n = m
    <2>1. n \in InFlight(w) /\ w \in Callers(n) /\ effects[n] = 0
      BY <1>1, <1>8 DEF InFlight, Callers, CallInv, NotYet
    <2>2. effects'[n] = IF applied THEN 1 ELSE 0
      BY <1>2, <1>5, <1>8, <2>1 DEF Affect
    <2>3. Callers(n) = {w} /\ Lost(n) = {} /\ saved.node[n] \in {"RUNNING", "FAILED"}
      BY <2>1 DEF CallInv, OnePlace, RowKnows
    <2>4. \A v \in Workers : n \notin InFlight(v)'
      BY <1>3, <1>4, <1>5, <1>8, <2>3 DEF InFlight, Callers
    <2>5. Lost(n)' = {}
      BY <1>5, <2>3 DEF Lost
    <2>6. \A v \in Workers : \A d \in done[v] : d.node # n
      <3>1. \A d \in done[w] : d.node # n
        BY <2>1 DEF InFlight
      <3>2. \A v \in Workers \ {w} : n \notin futures[v]
        BY <2>3 DEF Callers
      <3> QED
        BY <3>1, <3>2 DEF RowsInv, LoopsInv, LoopInv
    <2>7. ResultKnows(n)'
      BY <1>2, <1>3, <1>4, <2>2, <2>6 DEF ResultKnows
    <2>8. NotYet(n)' /\ Told(n)'
      BY <1>5, <2>2, <2>3, <2>4, <2>5 DEF NotYet, Told
    <2> QED
      BY <1>6, <2>7, <2>8 DEF CallInv
  <1> QED
    BY <1>7, <1>8

LEMMA OrphanCalls ==
    ASSUME RowsInv, OrphanLands, NEW n \in Unrepeatable, CallInv(n)
    PROVE  CallInv(n)'
  <1>1. PICK call \in orphans : orphans' = orphans \ {call} /\ Affect(call[1], TRUE)
    BY DEF OrphanLands
  <1>2. UNCHANGED <<saved, futures, done>> /\ effects \in [Unrepeatable -> Nat]
    BY DEF OrphanLands, runVars, RowsInv, FencingInv, TypeInv, WorldInv
  <1>3. Callers(n)' = Callers(n) /\ Lost(n)' = Lost(n) \ {call}
    BY <1>1, <1>2 DEF Callers, Lost
  <1>4. OnePlace(n)' /\ RowKnows(n)'
    BY <1>2, <1>3 DEF CallInv, OnePlace, RowKnows
  <1>5. CASE call[1] # n
    <2>1. effects'[n] = effects[n]
      BY <1>1, <1>2, <1>5 DEF Affect
    <2>2. NotYet(n)' /\ ResultKnows(n)' /\ Told(n)'
      BY <1>2, <1>3, <2>1 DEF CallInv, NotYet, ResultKnows, Told, InFlight
    <2> QED
      BY <1>4, <2>2 DEF CallInv
  <1>6. CASE call[1] = n
    <2>1. call \in Lost(n)
      BY <1>6 DEF Lost
    <2>2. effects[n] = 0 /\ Callers(n) = {} /\ saved.node[n] \in {"RUNNING", "FAILED"}
      BY <2>1 DEF CallInv, NotYet, OnePlace, RowKnows
    <2>3. effects'[n] = 1
      BY <1>1, <1>2, <1>6, <2>2 DEF Affect
    <2>4. Lost(n)' = {}
      BY <1>3, <2>1 DEF CallInv, OnePlace
    <2>5. \A v \in Workers : n \notin futures[v] /\ \A c \in done[v] : c.node # n
      BY <2>2 DEF Callers, RowsInv, LoopsInv, LoopInv
    <2>6. NotYet(n)' /\ ResultKnows(n)' /\ Told(n)'
      BY <1>2, <2>2, <2>3, <2>4, <2>5 DEF NotYet, ResultKnows, Told, InFlight
    <2> QED
      BY <1>4, <2>6 DEF CallInv
  <1> QED
    BY <1>5, <1>6

-----------------------------------------------------------------------------
(* The invariant.                                                          *)
LEMMA InitCalls == Init => CallsInv
  BY UnrepeatableIsNode
     DEF Init, EmptyImage, CallsInv, CallInv, OnePlace, RowKnows, NotYet, ResultKnows, Told,
         Callers, Lost, InFlight

LEMMA NextCalls == RowsInv /\ CallsInv /\ [Next]_vars => CallsInv'
  <1> SUFFICES ASSUME RowsInv, [Next]_vars, NEW n \in Unrepeatable, CallInv(n)
               PROVE  CallInv(n)'
    BY DEF CallsInv
  <1>1. ASSUME RunningNodes(saved') = RunningNodes(saved),
               UNCHANGED <<futures, done, orphans, effects>>
        PROVE  CallInv(n)'
    BY <1>1, QuietSteps, QuietCall
  <1>2. ASSUME UNCHANGED saved, UNCHANGED <<futures, done, orphans, effects>>
        PROVE  CallInv(n)'
    BY <1>1, <1>2
  <1>3. ASSUME NEW w \in Workers, Work(w) PROVE CallInv(n)'
    <2>1. CASE InitializeRun(w) \/ Turn(w) \/ Finalize(w)
      BY <1>1, <2>1, LoopKeepsCalls
    <2>2. CASE ScheduleReady(w)
      BY <2>2, ScheduleCalls
    <2>3. CASE Complete(w)
      BY <2>3, CompleteCalls
    <2>4. CASE RefuseRun(w) \/ Exit(w)
      BY <2>4, ForgetCalls DEF RefuseRun, Exit
    <2>5. CASE \/ Load(w) \/ LeaveLoop(w) \/ NothingToSchedule(w) \/ WaitOrGiveUp(w)
               \/ PollTimesOut(w)
      BY <1>2, <2>5 DEF Load, LeaveLoop, NothingToSchedule, WaitOrGiveUp, PollTimesOut, EndLoop,
                        runVars, callVars
    <2> QED
      BY <1>3, <2>1, <2>2, <2>3, <2>4, <2>5 DEF Work
  <1>4. CASE \E p \in Processes : Crash(p)
    <2>1. PICK p \in Processes : Crash(p)
      BY <1>4
    <2>2. \E W \in SUBSET Workers : Forget(W)
      BY <2>1 DEF Crash
    <2>3. UNCHANGED <<saved, effects>>
      BY <2>1 DEF Crash, runVars
    <2> QED
      BY <2>2, <2>3, ForgetCalls
  <1>5. CASE \/ UNCHANGED vars
             \/ \E w \in Workers : HeartbeatFails(w) \/ Throw(w)
             \/ \E p \in Processes : Shutdown(p) \/ Restart(p)
             \/ \E m \in Nodes : BackoffElapses(m)
             \/ LeaseExpires \/ (RequestCancel /\ run.status # "QUEUED")
    BY <1>2, <1>5 DEF vars, HeartbeatFails, Throw, EndLoop, Shutdown, Restart, BackoffElapses,
                      LeaseExpires, RequestCancel, runVars, callVars
  <1>6. CASE RequestCancel /\ run.status = "QUEUED"
    <2>1. \A m \in Nodes : saved.node[m] = "PENDING" /\ saved'.node[m] = "CANCELLED"
      BY <1>6, WithdrawnRows DEF EmptyImage
    <2>2. RunningNodes(saved') = RunningNodes(saved)
      BY <2>1 DEF RunningNodes
    <2> QED
      BY <1>1, <1>6, <2>2 DEF RequestCancel, callVars
  <1>7. ASSUME NEW w \in Workers, Claim(w) PROVE CallInv(n)'
    BY <1>7, ClaimCalls
  <1> QED
    BY <1>3, <1>4, <1>5, <1>6, <1>7, ReturnCalls, OrphanCalls DEF Next

LEMMA CallsAreFollowed == Spec => []CallsInv
  BY InitCalls, NextCalls, RowsAreKept, PTL DEF Spec

(* An unrepeatable provider call changes the outside world at most once    *)
(* per run, however often the run is claimed, retried or abandoned (BR07). *)
THEOREM OneEffectPerRun == Spec => []AtMostOneEffect
  <1>1. CallsInv => AtMostOneEffect
    BY DEF CallsInv, CallInv, Told, AtMostOneEffect
  <1> QED
    BY <1>1, CallsAreFollowed, PTL

(* The rows do not lie about it: an unrepeatable node that is waiting,     *)
(* skipped, cancelled or not started has had no effect, a successful one   *)
(* has had its one.                                                        *)
THEOREM EffectsMatchTheRows == Spec => []RowsTellTheEffects
  <1>1. CallsInv => RowsTellTheEffects
    BY DEF CallsInv, CallInv, Told, RowsTellTheEffects
  <1> QED
    BY <1>1, CallsAreFollowed, PTL
=============================================================================
