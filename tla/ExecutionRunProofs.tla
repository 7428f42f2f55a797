------------------------- MODULE ExecutionRunProofs -------------------------
(***************************************************************************)
(* Theorems about ExecutionRun for every definition, every set of workers  *)
(* and every bound, proved with TLAPS.                                     *)
(***************************************************************************)
EXTENDS ExecutionRun, TLAPS

-----------------------------------------------------------------------------
(* The planner keeps a graph state a graph state.                          *)

(* initialize() returns a state of the graph it was given.                 *)
LEMMA InitializeType == Initialize(Definition, Root) \in GraphStates(Definition)
  BY DefinitionAssumption DEF Initialize, GraphStates, NodeStatus, EdgeState

(* So does ready().                                                        *)
LEMMA ReadyType ==
    ASSUME NEW g \in GraphStates(Definition)
    PROVE  Ready(Definition, g) \in GraphStates(Definition)
  <1> DEFINE skip == Excluded(Definition, g)
             node == [n \in Nodes |-> IF n \in skip THEN "SKIPPED"
                                      ELSE IF Runnable(Definition, g, skip, n) THEN "READY"
                                      ELSE g.node[n]]
             edge == [e \in Edges |-> IF e.src \in skip /\ g.edge[e] = "UNKNOWN"
                                      THEN "INACTIVE" ELSE g.edge[e]]
  <1>1. g.node \in [Nodes -> NodeStatus] /\ g.edge \in [Edges -> EdgeState]
    BY DEF GraphStates, Nodes, Edges
  <1>2. node \in [Nodes -> NodeStatus]
    BY <1>1 DEF NodeStatus
  <1>3. edge \in [Edges -> EdgeState]
    BY <1>1 DEF EdgeState
  <1>4. Ready(Definition, g) = [node |-> node, edge |-> edge]
    BY DEF Ready, Nodes, Edges
  <1> QED
    BY <1>2, <1>3, <1>4 DEF GraphStates, Nodes, Edges

(* ready() turns PENDING nodes into READY or SKIPPED ones and leaves every *)
(* other node alone.                                                       *)
LEMMA ReadyMoves ==
    ASSUME NEW g \in GraphStates(Definition), NEW n \in Nodes
    PROVE  \/ Ready(Definition, g).node[n] = g.node[n]
           \/ g.node[n] = "PENDING" /\ Ready(Definition, g).node[n] \in {"READY", "SKIPPED"}
  <1> DEFINE skip == Excluded(Definition, g)
  <1>1. n \in skip => g.node[n] = "PENDING"
    BY DEF Excluded
  <1>2. Runnable(Definition, g, skip, n) => g.node[n] = "PENDING"
    BY DEF Runnable
  <1>3. Ready(Definition, g).node[n] = IF n \in skip THEN "SKIPPED"
                                       ELSE IF Runnable(Definition, g, skip, n) THEN "READY"
                                       ELSE g.node[n]
    BY DEF Ready, Nodes
  <1> QED
    BY <1>1, <1>2, <1>3

(* And so does afterSuccess().                                             *)
LEMMA AfterSuccessType ==
    ASSUME NEW g \in GraphStates(Definition), NEW n \in Nodes, NEW port
    PROVE  AfterSuccess(Definition, g, n, port) \in GraphStates(Definition)
  BY DEF AfterSuccess, GraphStates, NodeStatus, EdgeState, Nodes

(* A successful node stays successful, whatever the planner decides.       *)
LEMMA ReadyKeepsSuccess ==
    ASSUME NEW g \in GraphStates(Definition), NEW n \in Nodes, g.node[n] = "SUCCESS"
    PROVE  Ready(Definition, g).node[n] = "SUCCESS"
  BY ReadyMoves

-----------------------------------------------------------------------------
(* What every set of rows satisfies beyond its type: a node that may still *)
(* be started has an attempt left, and nothing was started before the root *)
(* succeeded.                                                              *)
Sound(img) ==
    /\ \A n \in Nodes : img.node[n] \in {"PENDING", "READY", "WAITING"}
                        => img.tries[n] < MaxAttempts
    /\ img.node[Root] # "SUCCESS" => \A n \in Nodes : img.tries[n] = 0

SoundImage == {img \in Image : Sound(img)}

(* The root is a node.                                                     *)
LEMMA RootIsNode == Root \in Nodes
  BY DefinitionAssumption DEF WellFormed, Nodes

(* The rows admission writes.                                              *)
LEMMA EmptyImageSound == EmptyImage \in SoundImage /\ EmptyImage.node[Root] # "SUCCESS"
  <1>1. EmptyImage \in Image
    BY BoundsAssumption DEF EmptyImage, Image, NodeStatus, EdgeState, Attempt
  <1>2. Sound(EmptyImage)
    BY BoundsAssumption DEF EmptyImage, Sound
  <1> QED
    BY <1>1, <1>2, DefinitionAssumption DEF SoundImage, EmptyImage, WellFormed, Nodes

(* failExecution closes nodes and starts none.                             *)
LEMMA FailedImageSound ==
    ASSUME NEW img \in SoundImage
    PROVE  FailedImage(img) \in SoundImage
  <1> DEFINE attempt == [n \in Nodes |-> [k \in 1 .. MaxAttempts |->
                            IF img.attempt[n][k] = "RUNNING" THEN "FAILED"
                            ELSE img.attempt[n][k]]]
             node == [n \in Nodes |-> IF img.node[n] \in {"PENDING", "READY", "RUNNING", "WAITING"}
                                      THEN "FAILED" ELSE img.node[n]]
             next == {n \in img.next :
                        img.node[n] \notin {"PENDING", "READY", "RUNNING", "WAITING"}}
  <1>1. /\ img \in Image
        /\ Sound(img)
    BY DEF SoundImage
  <1>2. attempt \in [Nodes -> [1 .. MaxAttempts -> Attempt]]
    BY <1>1 DEF Image, Attempt
  <1>3. node \in [Nodes -> NodeStatus]
    BY <1>1 DEF Image, NodeStatus
  <1>4. next \in SUBSET Nodes
    BY <1>1 DEF Image
  <1>5. FailedImage(img) = [img EXCEPT !.attempt = attempt, !.node = node, !.next = next]
    BY DEF FailedImage
  <1>6. \A n \in Nodes : /\ node[n] \notin {"PENDING", "READY", "WAITING"}
                         /\ node[n] = "SUCCESS" <=> img.node[n] = "SUCCESS"
    BY <1>1 DEF Image, NodeStatus
  <1> HIDE DEF attempt, node, next
  <1>7. /\ FailedImage(img) \in Image
        /\ FailedImage(img).node = node
        /\ FailedImage(img).tries = img.tries
    BY <1>1, <1>2, <1>3, <1>4, <1>5 DEF Image
  <1> QED
    BY <1>1, <1>6, <1>7, RootIsNode DEF SoundImage, Sound

(* finalizeStopped closes nodes and starts none.                           *)
LEMMA StoppedImageSound ==
    ASSUME NEW img \in SoundImage
    PROVE  /\ StoppedImage(img) \in SoundImage
           /\ StoppedImage(img).node[Root] = "SUCCESS" <=> img.node[Root] = "SUCCESS"
  <1> DEFINE node == [n \in Nodes |-> IF img.node[n] \in {"PENDING", "READY", "WAITING"}
                                      THEN "CANCELLED" ELSE img.node[n]]
  <1>1. /\ img \in Image
        /\ Sound(img)
    BY DEF SoundImage
  <1>2. node \in [Nodes -> NodeStatus]
    BY <1>1 DEF Image, NodeStatus
  <1>3. StoppedImage(img) = [img EXCEPT !.node = node, !.next = {}]
    BY DEF StoppedImage
  <1>4. \A n \in Nodes : /\ node[n] \notin {"PENDING", "READY", "WAITING"}
                         /\ node[n] = "SUCCESS" <=> img.node[n] = "SUCCESS"
    BY <1>1 DEF Image, NodeStatus
  <1> HIDE DEF node
  <1>5. /\ StoppedImage(img) \in Image
        /\ StoppedImage(img).node = node
        /\ StoppedImage(img).tries = img.tries
    BY <1>1, <1>2, <1>3 DEF Image
  <1> QED
    BY <1>1, <1>4, <1>5, RootIsNode DEF SoundImage, Sound

(* recordInterruptedAttempts makes a node wait only while it has attempts. *)
LEMMA InterruptedSound ==
    ASSUME NEW img \in SoundImage
    PROVE  Interrupted(img) \in SoundImage
  <1> DEFINE left  == {n \in Nodes : img.node[n] = "RUNNING"}
             again == {n \in left : n \notin SideEffecting /\ img.tries[n] < MaxAttempts}
             attempt == [n \in Nodes |-> [k \in 1 .. MaxAttempts |->
                            IF n \in left /\ k = img.tries[n] /\ img.attempt[n][k] = "RUNNING"
                            THEN "FAILED" ELSE img.attempt[n][k]]]
             node == [n \in Nodes |-> IF n \in again THEN "WAITING"
                                      ELSE IF n \in left THEN "FAILED" ELSE img.node[n]]
             next == (img.next \ left) \union again
             unknown == img.unknown \union (left \intersect SideEffecting)
  <1>1. /\ img \in Image
        /\ Sound(img)
    BY DEF SoundImage
  <1>2. attempt \in [Nodes -> [1 .. MaxAttempts -> Attempt]]
    BY <1>1 DEF Image, Attempt
  <1>3. node \in [Nodes -> NodeStatus]
    BY <1>1 DEF Image, NodeStatus
  <1>4. /\ next \in SUBSET Nodes
        /\ unknown \in SUBSET Nodes
    BY <1>1 DEF Image
  <1>5. Interrupted(img) = [img EXCEPT !.attempt = attempt, !.node = node,
                                      !.next = next, !.unknown = unknown]
    BY DEF Interrupted
  <1>6. \A n \in Nodes :
            /\ node[n] \in {"PENDING", "READY", "WAITING"} =>
                  img.node[n] \in {"PENDING", "READY", "WAITING"} \/ img.tries[n] < MaxAttempts
            /\ node[n] = "SUCCESS" <=> img.node[n] = "SUCCESS"
    BY <1>1 DEF Image, NodeStatus
  <1> HIDE DEF attempt, node, next, unknown
  <1>7. /\ Interrupted(img) \in Image
        /\ Interrupted(img).node = node
        /\ Interrupted(img).tries = img.tries
    BY <1>1, <1>2, <1>3, <1>4, <1>5 DEF Image
  <1> QED
    BY <1>1, <1>6, <1>7, RootIsNode DEF SoundImage, Sound

(* A stop request for a queued run closes every node.                      *)
LEMMA WithdrawnSound ==
    ASSUME NEW img \in SoundImage
    PROVE  [img EXCEPT
              !.node = [n \in Nodes |-> IF img.node[n] \in {"SUCCESS", "SKIPPED", "FAILED"}
                                        THEN img.node[n] ELSE "CANCELLED"],
              !.next = {}] \in SoundImage
  <1> DEFINE node == [n \in Nodes |-> IF img.node[n] \in {"SUCCESS", "SKIPPED", "FAILED"}
                                      THEN img.node[n] ELSE "CANCELLED"]
             after == [img EXCEPT !.node = node, !.next = {}]
  <1>1. /\ img \in Image
        /\ Sound(img)
    BY DEF SoundImage
  <1>2. node \in [Nodes -> NodeStatus]
    BY <1>1 DEF Image, NodeStatus
  <1>3. \A n \in Nodes : /\ node[n] \notin {"PENDING", "READY", "WAITING"}
                         /\ node[n] = "SUCCESS" <=> img.node[n] = "SUCCESS"
    BY <1>1 DEF Image, NodeStatus
  <1> SUFFICES after \in SoundImage
    OBVIOUS
  <1> HIDE DEF node
  <1>4. /\ after \in Image
        /\ after.node = node
        /\ after.tries = img.tries
    BY <1>1, <1>2 DEF Image
  <1> HIDE DEF after
  <1> QED
    BY <1>1, <1>3, <1>4, RootIsNode DEF SoundImage, Sound

(* The first commit of a run decides the root and opens its routes; it     *)
(* is made before any node was started.                                    *)
LEMMA InitialImageSound ==
    ASSUME NEW img \in SoundImage, img.node[Root] # "SUCCESS"
    PROVE  /\ InitialImage(img) \in SoundImage
           /\ InitialImage(img).node[Root] = "SUCCESS"
  <1> DEFINE graph == Ready(Definition, Initialize(Definition, Root))
  <1>1. /\ img \in Image
        /\ Sound(img)
    BY DEF SoundImage
  <1>2. graph \in GraphStates(Definition)
    BY InitializeType, ReadyType
  <1>3. /\ graph.node \in [Nodes -> NodeStatus]
        /\ graph.edge \in [Edges -> EdgeState]
    BY <1>2 DEF GraphStates, Nodes, Edges
  <1>4. Initialize(Definition, Root).node[Root] = "SUCCESS"
    BY RootIsNode DEF Initialize, Nodes
  <1>5. graph.node[Root] = "SUCCESS"
    BY <1>4, RootIsNode, InitializeType, ReadyKeepsSuccess
  <1>6. InitialImage(img) = [img EXCEPT !.node = graph.node, !.edge = graph.edge, !.next = {}]
    BY DEF InitialImage
  <1> HIDE DEF graph
  <1>7. /\ InitialImage(img) \in Image
        /\ InitialImage(img).node = graph.node
        /\ InitialImage(img).tries = img.tries
    BY <1>1, <1>3, <1>6 DEF Image
  <1>8. \A n \in Nodes : img.tries[n] < MaxAttempts
    BY <1>1, BoundsAssumption DEF Sound
  <1> QED
    BY <1>5, <1>7, <1>8 DEF SoundImage, Sound

(* promoteDueRetries makes waiting nodes pending, which have attempts left. *)
LEMMA PromotedSound ==
    ASSUME NEW img \in SoundImage
    PROVE  /\ Promoted(img) \in SoundImage
           /\ Promoted(img).node[Root] = "SUCCESS" <=> img.node[Root] = "SUCCESS"
  <1> DEFINE over == img.next \intersect due
             node == [n \in Nodes |-> IF n \in over /\ img.node[n] = "WAITING"
                                      THEN "PENDING" ELSE img.node[n]]
             next == img.next \ over
  <1>1. /\ img \in Image
        /\ Sound(img)
    BY DEF SoundImage
  <1>2. /\ node \in [Nodes -> NodeStatus]
        /\ next \in SUBSET Nodes
    BY <1>1 DEF Image, NodeStatus
  <1>3. Promoted(img) = [img EXCEPT !.node = node, !.next = next]
    BY DEF Promoted
  <1>4. \A n \in Nodes : /\ node[n] \in {"PENDING", "READY", "WAITING"}
                               => img.node[n] \in {"PENDING", "READY", "WAITING"}
                         /\ node[n] = "SUCCESS" <=> img.node[n] = "SUCCESS"
    BY <1>1 DEF Image, NodeStatus
  <1> HIDE DEF node, next
  <1>5. /\ Promoted(img) \in Image
        /\ Promoted(img).node = node
        /\ Promoted(img).tries = img.tries
    BY <1>1, <1>2, <1>3 DEF Image
  <1> QED
    BY <1>1, <1>4, <1>5, RootIsNode DEF SoundImage, Sound

(* Planning makes pending nodes ready or skipped.                          *)
LEMMA PlannedSound ==
    ASSUME NEW img \in SoundImage, img.node[Root] = "SUCCESS"
    PROVE  /\ Planned(img) \in SoundImage
           /\ Planned(img).node[Root] = "SUCCESS"
  <1> DEFINE before == [node |-> img.node, edge |-> img.edge]
             graph  == Ready(Definition, before)
  <1>1. /\ img \in Image
        /\ Sound(img)
    BY DEF SoundImage
  <1>2. before \in GraphStates(Definition)
    BY <1>1 DEF Image, GraphStates, Nodes, Edges
  <1>3. graph \in GraphStates(Definition)
    BY <1>2, ReadyType
  <1>4. /\ graph.node \in [Nodes -> NodeStatus]
        /\ graph.edge \in [Edges -> EdgeState]
    BY <1>3 DEF GraphStates, Nodes, Edges
  <1>5. \A n \in Nodes : \/ graph.node[n] = before.node[n]
                         \/ before.node[n] = "PENDING" /\ graph.node[n] \in {"READY", "SKIPPED"}
    <2> TAKE n \in Nodes
    <2> QED
      BY <1>2, ReadyMoves
  <1>6. before.node = img.node
    OBVIOUS
  <1>7. Planned(img) = [img EXCEPT !.node = graph.node, !.edge = graph.edge]
    BY DEF Planned
  <1> HIDE DEF graph, before
  <1>8. /\ Planned(img) \in Image
        /\ Planned(img).node = graph.node
        /\ Planned(img).tries = img.tries
    BY <1>1, <1>4, <1>7 DEF Image
  <1>9. graph.node[Root] = "SUCCESS"
    BY <1>5, <1>6, RootIsNode
  <1>10. \A n \in Nodes : graph.node[n] \in {"PENDING", "READY", "WAITING"}
                          => img.node[n] \in {"PENDING", "READY", "WAITING"}
    BY <1>5, <1>6
  <1> QED
    BY <1>1, <1>8, <1>9, <1>10 DEF SoundImage, Sound

(* scheduleReadyNodes uses up one attempt of the nodes it starts.          *)
LEMMA StartedSound ==
    ASSUME NEW img \in SoundImage, img.node[Root] = "SUCCESS",
           NEW S, S \subseteq {n \in Nodes : img.node[n] = "READY"}
    PROVE  /\ Started(img, S) \in SoundImage
           /\ Started(img, S).node[Root] = "SUCCESS"
  <1> DEFINE node == [n \in Nodes |-> IF n \in S THEN "RUNNING" ELSE img.node[n]]
             tries == [n \in Nodes |-> IF n \in S THEN img.tries[n] + 1 ELSE img.tries[n]]
             attempt == [n \in Nodes |-> [k \in 1 .. MaxAttempts |->
                            IF n \in S /\ k = img.tries[n] + 1 THEN "RUNNING"
                            ELSE img.attempt[n][k]]]
  <1>1. /\ img \in Image
        /\ Sound(img)
    BY DEF SoundImage
  <1>2. node \in [Nodes -> NodeStatus]
    BY <1>1 DEF Image, NodeStatus
  <1>3. tries \in [Nodes -> 0 .. MaxAttempts]
    <2>1. \A n \in S : n \in Nodes /\ img.tries[n] \in 0 .. MaxAttempts /\ img.tries[n] < MaxAttempts
      BY <1>1 DEF Image, Sound
    <2>2. \A n \in Nodes : img.tries[n] \in 0 .. MaxAttempts
      BY <1>1 DEF Image
    <2> QED
      BY <2>1, <2>2, BoundsAssumption
  <1>4. attempt \in [Nodes -> [1 .. MaxAttempts -> Attempt]]
    BY <1>1 DEF Image, Attempt
  <1>5. Started(img, S) = [img EXCEPT !.node = node, !.tries = tries,
                                     !.attempt = attempt, !.next = {}]
    BY DEF Started
  <1>6. node[Root] = "SUCCESS"
    BY RootIsNode
  <1>7. \A n \in Nodes : node[n] \in {"PENDING", "READY", "WAITING"}
                        => /\ img.node[n] \in {"PENDING", "READY", "WAITING"}
                           /\ tries[n] = img.tries[n]
    OBVIOUS
  <1> HIDE DEF node, tries, attempt
  <1>8. /\ Started(img, S) \in Image
        /\ Started(img, S).node = node
        /\ Started(img, S).tries = tries
    BY <1>1, <1>2, <1>3, <1>4, <1>5 DEF Image
  <1> QED
    BY <1>1, <1>6, <1>7, <1>8 DEF SoundImage, Sound

(* A result closes its node, or makes it wait while it has attempts.       *)
LEMMA CompletedSound ==
    ASSUME NEW img \in SoundImage, img.node[Root] = "SUCCESS",
           NEW n \in Nodes, n # Root, NEW outcome
    PROVE  /\ Completed(img, n, outcome) \in SoundImage
           /\ Completed(img, n, outcome).node[Root] = "SUCCESS"
  <1> DEFINE after == Completed(img, n, outcome)
             before == [node |-> img.node, edge |-> img.edge]
             graph == AfterSuccess(Definition, before, n, outcome.port)
  <1>1. /\ img \in Image
        /\ Sound(img)
    BY DEF SoundImage
  <1>2. \A r \in {"SUCCESS", "FAILED"} : Closed(img, n, r) \in [Nodes -> [1 .. MaxAttempts -> Attempt]]
    BY <1>1 DEF Closed, Image, Attempt
  <1>3. /\ img.next \ {n} \in SUBSET Nodes
        /\ img.next \union {n} \in SUBSET Nodes
    BY <1>1 DEF Image
  <1>4. CASE outcome.kind = "ok"
    <2>1. graph \in GraphStates(Definition)
      <3>1. before \in GraphStates(Definition)
        BY <1>1 DEF Image, GraphStates, Nodes, Edges
      <3> QED
        BY <3>1, AfterSuccessType
    <2>2. /\ graph.node \in [Nodes -> NodeStatus]
          /\ graph.edge \in [Edges -> EdgeState]
      BY <2>1 DEF GraphStates, Nodes, Edges
    <2>3. graph.node = [img.node EXCEPT ![n] = "SUCCESS"]
      BY DEF AfterSuccess
    <2>4. after = [img EXCEPT !.node = graph.node, !.edge = graph.edge,
                              !.attempt = Closed(img, n, "SUCCESS"), !.next = img.next \ {n}]
      BY <1>4, <1>1 DEF Completed
    <2> HIDE DEF graph, before, after
    <2>5. /\ after \in Image
          /\ after.node = graph.node
          /\ after.tries = img.tries
      BY <1>1, <1>2, <1>3, <2>2, <2>4 DEF Image
    <2>6. /\ graph.node[Root] = "SUCCESS"
          /\ \A m \in Nodes : graph.node[m] = IF m = n THEN "SUCCESS" ELSE img.node[m]
      BY <1>1, <2>3, RootIsNode DEF Image
    <2> QED
      BY <1>1, <2>5, <2>6 DEF SoundImage, Sound, after
  <1>5. ASSUME outcome.kind # "ok",
               NEW s \in {"WAITING", "FAILED"}, NEW next \in SUBSET Nodes,
               s = "WAITING" => img.tries[n] < MaxAttempts,
               after = [img EXCEPT !.node[n] = s, !.attempt = Closed(img, n, "FAILED"),
                                   !.next = next]
        PROVE  after \in SoundImage /\ after.node[Root] = "SUCCESS"
    <2> DEFINE node == [img.node EXCEPT ![n] = s]
    <2>1. node \in [Nodes -> NodeStatus]
      BY <1>1 DEF Image, NodeStatus
    <2>2. /\ node[Root] = "SUCCESS"
          /\ \A m \in Nodes : node[m] = IF m = n THEN s ELSE img.node[m]
      BY <1>1, RootIsNode DEF Image
    <2>3. after = [img EXCEPT !.node = node, !.attempt = Closed(img, n, "FAILED"), !.next = next]
      BY <1>5
    <2> HIDE DEF node, after
    <2>4. /\ after \in Image
          /\ after.node = node
          /\ after.tries = img.tries
      BY <1>1, <1>2, <2>1, <2>3 DEF Image
    <2> QED
      BY <1>1, <1>5, <2>2, <2>4 DEF SoundImage, Sound
  <1>6. CASE outcome.kind # "ok" /\ ShouldRetry(img, n, outcome.kind)
    <2>1. after = [img EXCEPT !.node[n] = "WAITING", !.attempt = Closed(img, n, "FAILED"),
                              !.next = img.next \union {n}]
      BY <1>6, <1>1 DEF Completed
    <2> QED
      BY <1>3, <1>5, <1>6, <2>1 DEF ShouldRetry
  <1>7. CASE outcome.kind # "ok" /\ ~ShouldRetry(img, n, outcome.kind)
    <2>1. after = [img EXCEPT !.node[n] = "FAILED", !.attempt = Closed(img, n, "FAILED"),
                              !.next = img.next \ {n}]
      BY <1>7, <1>1 DEF Completed
    <2> QED
      BY <1>3, <1>5, <1>7, <2>1
  <1> QED
    BY <1>4, <1>6, <1>7

-----------------------------------------------------------------------------
(* The inductive invariant of type correctness: TypeOK with sound rows and *)
(* copies, a recovery count that leaves room for one more, and a root that *)
(* is never called and has succeeded before the loop turns.                *)
Row == [status : RunStatus, owner : Processes \union {Nobody}, token : Nat, live : BOOLEAN,
        recoveries : 0 .. MaxRecoveries + 1, cancel : BOOLEAN, pinned : BOOLEAN]

Jobs == [token : Nat, failureSeen : BOOLEAN, cancelSeen : BOOLEAN, leaseLost : BOOLEAN]

TablesInv ==
    /\ run \in Row
    /\ run.status \notin Terminal => run.recoveries <= MaxRecoveries
    /\ saved \in SoundImage
    /\ notices \in [{"SUCCESS", "FAILED"} -> Nat]
    /\ due \subseteq Nodes

ThreadsInv ==
    /\ pc \in [Workers -> {"idle", "claimed", "init", "turn", "schedule", "settle", "exit"}]
    /\ job \in [Workers -> Jobs]
    /\ mem \in [Workers -> SoundImage]
    /\ futures \in [Workers -> SUBSET Nodes]
    /\ done \in [Workers -> SUBSET Completions]
    /\ \A w \in Workers :
          /\ pc[w] = "init" => mem[w].node[Root] # "SUCCESS"
          /\ pc[w] \in {"turn", "schedule", "settle"} => mem[w].node[Root] = "SUCCESS"
          /\ Root \notin futures[w]
          /\ \A c \in done[w] : c.node # Root

WorldInv ==
    /\ accepting \in [Processes -> BOOLEAN]
    /\ orphans \subseteq Unrepeatable \X (0 .. MaxAttempts)
    /\ effects \in [Unrepeatable -> Nat]

TypeInv == TablesInv /\ ThreadsInv /\ WorldInv

(* It implies TypeOK.                                                      *)
LEMMA TypeInvImpliesTypeOK == TypeInv => TypeOK
  <1> SUFFICES ASSUME TypeInv PROVE TypeOK
    OBVIOUS
  <1>1. saved \in Image
    BY DEF TypeInv, TablesInv, SoundImage
  <1>2. mem \in [Workers -> Image]
    BY DEF TypeInv, ThreadsInv, SoundImage
  <1> QED
    BY <1>1, <1>2 DEF TypeInv, TablesInv, ThreadsInv, WorldInv, TypeOK, Row, Jobs

(* It holds when admission has committed.                                  *)
LEMMA InitTypeInv == Init => TypeInv
  <1> SUFFICES ASSUME Init PROVE TypeInv
    OBVIOUS
  <1>1. TablesInv
    <2>1. run \in Row /\ run.recoveries = 0
      BY BoundsAssumption DEF Init, Row, RunStatus
    <2> QED
      BY <2>1, BoundsAssumption, EmptyImageSound DEF Init, TablesInv
  <1>2. ThreadsInv
    BY EmptyImageSound DEF Init, ThreadsInv, Jobs, NoJob
  <1>3. WorldInv
    BY DEF Init, WorldInv
  <1> QED
    BY <1>1, <1>2, <1>3 DEF TypeInv

-----------------------------------------------------------------------------
(* What the shared parts of the actions do to the invariant.               *)

(* An accepted commit leaves well-typed tables.                            *)
LEMMA CommitTables ==
    ASSUME TypeInv, NEW w \in Workers, NEW img \in SoundImage,
           NEW status \in {"RUNNING", "SUCCESS", "FAILED", "CANCELLED"},
           CommitAccepted(w, img, status)
    PROVE  TablesInv'
  <1>1. run' \in Row /\ (run'.status \notin Terminal => run'.recoveries <= MaxRecoveries)
    <2>1. CASE status \in Terminal
      <3>1. run' = [[run EXCEPT !.status = status] EXCEPT !.owner = Nobody, !.live = FALSE]
        BY <2>1 DEF CommitAccepted, Released
      <3> QED
        BY <2>1, <3>1 DEF TypeInv, TablesInv, Row, RunStatus
    <2>2. CASE status \notin Terminal
      BY <2>2 DEF CommitAccepted, TypeInv, TablesInv
    <2> QED
      BY <2>1, <2>2
  <1>2. notices' \in [{"SUCCESS", "FAILED"} -> Nat]
    BY DEF CommitAccepted, TypeInv, TablesInv, Notify
  <1>3. saved' \in SoundImage /\ due' \subseteq Nodes
    BY DEF CommitAccepted, TypeInv, TablesInv
  <1> QED
    BY <1>1, <1>2, <1>3 DEF TablesInv

(* Leaving the run loop changes only where the thread is.                  *)
LEMMA EndLoopInv ==
    ASSUME TypeInv, NEW w \in Workers, EndLoop(w)
    PROVE  TypeInv'
  <1>1. TablesInv'
    BY DEF TypeInv, TablesInv, EndLoop, runVars
  <1>2. ThreadsInv'
    BY DEF TypeInv, ThreadsInv, EndLoop
  <1>3. WorldInv'
    BY DEF TypeInv, WorldInv, EndLoop, callVars
  <1> QED
    BY <1>1, <1>2, <1>3 DEF TypeInv

(* Threads that forget the run are idle ones.                              *)
LEMMA ForgetThreads ==
    ASSUME TypeInv, NEW W \in SUBSET Workers, Forget(W)
    PROVE  /\ ThreadsInv'
           /\ orphans' \subseteq Unrepeatable \X (0 .. MaxAttempts)
  <1>1. NoJob \in Jobs
    BY DEF NoJob, Jobs
  <1>2. ThreadsInv'
    BY <1>1, EmptyImageSound DEF TypeInv, ThreadsInv, Forget
  <1>3. \A w \in Workers : Orphaned(w) \subseteq Unrepeatable \X (0 .. MaxAttempts)
    <2> TAKE w \in Workers
    <2>1. mem[w].tries \in [Nodes -> 0 .. MaxAttempts]
      BY DEF TypeInv, ThreadsInv, SoundImage, Image
    <2>2. Unrepeatable \subseteq Nodes
      BY DefinitionAssumption DEF Unrepeatable
    <2> QED
      BY <2>1, <2>2 DEF Orphaned
  <1> QED
    BY <1>2, <1>3 DEF TypeInv, WorldInv, Forget

(* Giving a lease back.                                                    *)
LEMMA ReleasedTables ==
    ASSUME TypeInv, NEW w \in Workers,
           run' = ReleasedIfFenced(w), UNCHANGED <<saved, notices, due>>
    PROVE  TablesInv'
  BY DEF TypeInv, TablesInv, ReleasedIfFenced, Released, Row

-----------------------------------------------------------------------------
(* Every action preserves it.                                              *)

(* A claim, whether it is granted or fails the run.                        *)
LEMMA ClaimInv ==
    ASSUME TypeInv, NEW w \in Workers, Claim(w)
    PROVE  TypeInv'
  <1>1. /\ run.status \notin Terminal
        /\ run.recoveries <= MaxRecoveries
        /\ NextRecovery \in 0 .. MaxRecoveries + 1
    <2>1. run.status \notin Terminal /\ run.recoveries <= MaxRecoveries
      BY DEF Claim, ClaimFailsLegacy, ClaimExhausts, ClaimGranted, Claimable, Terminal,
             TypeInv, TablesInv
    <2> QED
      BY <2>1, BoundsAssumption DEF NextRecovery, TypeInv, TablesInv, Row
  <1>2. FailedImage(saved) \in SoundImage /\ Interrupted(saved) \in SoundImage
    BY FailedImageSound, InterruptedSound DEF TypeInv, TablesInv
  <1>3. CASE ClaimFailsLegacy(w)
    <2>1. run' \in Row /\ run'.status = "FAILED"
      BY <1>3 DEF ClaimFailsLegacy, Released, TypeInv, TablesInv, Row, RunStatus, Terminal
    <2>2. TablesInv'
      BY <1>2, <1>3, <2>1 DEF ClaimFailsLegacy, TypeInv, TablesInv, Terminal
    <2>3. ThreadsInv'
      BY <1>3 DEF ClaimFailsLegacy, TypeInv, ThreadsInv
    <2> QED
      BY <1>3, <2>2, <2>3 DEF ClaimFailsLegacy, TypeInv, WorldInv, callVars
  <1>4. CASE ClaimExhausts(w)
    <2> DEFINE token  == run.token + 1
               count  == NextRecovery
               failed == [run EXCEPT !.status = "FAILED", !.token = token, !.recoveries = count]
    <2>1. run' \in Row /\ run'.status = "FAILED"
      <3>1. run \in Row /\ token \in Nat /\ count \in 0 .. MaxRecoveries + 1
        BY <1>1 DEF TypeInv, TablesInv, Row
      <3>2. run' = [failed EXCEPT !.owner = Nobody, !.live = FALSE]
        BY <1>4 DEF ClaimExhausts, Released
      <3> HIDE DEF token, count
      <3>3. failed \in Row /\ failed.status = "FAILED"
        BY <3>1 DEF Row, RunStatus, Terminal
      <3> HIDE DEF failed
      <3> QED
        BY <3>2, <3>3 DEF Row
    <2>2. notices' \in [{"SUCCESS", "FAILED"} -> Nat]
      BY <1>4 DEF ClaimExhausts, Notify, TypeInv, TablesInv
    <2>3. TablesInv'
      BY <1>2, <1>4, <2>1, <2>2 DEF ClaimExhausts, TypeInv, TablesInv, Terminal
    <2>4. ThreadsInv'
      BY <1>4 DEF ClaimExhausts, TypeInv, ThreadsInv
    <2> QED
      BY <1>4, <2>3, <2>4 DEF ClaimExhausts, TypeInv, WorldInv, callVars
  <1>5. CASE ClaimGranted(w)
    <2> DEFINE token == run.token + 1
               count == NextRecovery
    <2>1. run' \in Row /\ run'.recoveries <= MaxRecoveries
      <3>1. run \in Row /\ token \in Nat /\ count \in 0 .. MaxRecoveries + 1 /\ count <= MaxRecoveries
        BY <1>1, <1>5 DEF TypeInv, TablesInv, Row, ClaimGranted
      <3>2. run' = [run EXCEPT !.status = "RUNNING", !.owner = Process[w], !.token = token,
                               !.live = TRUE, !.recoveries = count]
        BY <1>5 DEF ClaimGranted
      <3> HIDE DEF token, count
      <3> QED
        BY <3>1, <3>2 DEF Row, RunStatus, Processes
    <2>2. saved' \in SoundImage /\ due' \subseteq Nodes
      BY <1>2, <1>5 DEF ClaimGranted, TypeInv, TablesInv
    <2>3. TablesInv'
      BY <1>5, <2>1, <2>2 DEF ClaimGranted, TypeInv, TablesInv
    <2>4. job' \in [Workers -> Jobs]
      <3>1. token \in Nat /\ NoJob \in Jobs
        BY DEF NoJob, Jobs, TypeInv, TablesInv, Row
      <3>2. job' = [job EXCEPT ![w] = [NoJob EXCEPT !.token = token]]
        BY <1>5 DEF ClaimGranted
      <3> HIDE DEF token
      <3>3. [NoJob EXCEPT !.token = token] \in Jobs
        BY <3>1 DEF Jobs
      <3> QED
        BY <3>2, <3>3 DEF TypeInv, ThreadsInv
    <2>5. ThreadsInv'
      BY <1>5, <2>4 DEF ClaimGranted, TypeInv, ThreadsInv
    <2> QED
      BY <1>5, <2>3, <2>5 DEF ClaimGranted, TypeInv, WorldInv, callVars
  <1> QED
    BY <1>3, <1>4, <1>5 DEF Claim

(* A closed runner gives the lease back, and so does a loop that is over.  *)
LEMMA GiveBackInv ==
    ASSUME TypeInv, NEW w \in Workers, RefuseRun(w) \/ Exit(w)
    PROVE  TypeInv'
  <1>1. /\ run' = ReleasedIfFenced(w)
        /\ Forget({w})
        /\ UNCHANGED <<saved, notices, due, accepting, effects>>
    BY DEF RefuseRun, Exit
  <1>2. TablesInv'
    BY <1>1, ReleasedTables
  <1>3. ThreadsInv' /\ orphans' \subseteq Unrepeatable \X (0 .. MaxAttempts)
    BY <1>1, ForgetThreads
  <1> QED
    BY <1>1, <1>2, <1>3 DEF TypeInv, WorldInv

(* The rows are loaded.                                                    *)
LEMMA LoadInv ==
    ASSUME TypeInv, NEW w \in Workers, Load(w)
    PROVE  TypeInv'
  <1>1. HasFailedNode(saved) \in BOOLEAN
    BY DEF HasFailedNode
  <1>2. TablesInv'
    BY DEF Load, TypeInv, TablesInv, runVars
  <1>3. job' \in [Workers -> Jobs]
    BY <1>1 DEF Load, TypeInv, ThreadsInv, Jobs
  <1>4. ThreadsInv'
    BY <1>3 DEF Load, TypeInv, TablesInv, ThreadsInv
  <1> QED
    BY <1>2, <1>4 DEF Load, TypeInv, WorldInv, callVars

(* The first commit.                                                       *)
LEMMA InitializeRunInv ==
    ASSUME TypeInv, NEW w \in Workers, InitializeRun(w)
    PROVE  TypeInv'
  <1> DEFINE img == InitialImage(mem[w])
  <1>1. img \in SoundImage /\ img.node[Root] = "SUCCESS"
    BY InitialImageSound DEF InitializeRun, TypeInv, ThreadsInv
  <1> HIDE DEF img
  <1>2. CASE CommitRefused(w, img)
    BY <1>2, EndLoopInv DEF CommitRefused
  <1>3. CASE /\ CommitAccepted(w, img, "RUNNING")
             /\ mem' = [mem EXCEPT ![w] = img]
             /\ pc' = [pc EXCEPT ![w] = "turn"]
             /\ UNCHANGED <<accepting, job, futures, done, callVars>>
    <2>1. TablesInv'
      BY <1>1, <1>3, CommitTables
    <2>2. ThreadsInv'
      BY <1>1, <1>3 DEF TypeInv, ThreadsInv
    <2> QED
      BY <1>3, <2>1, <2>2 DEF TypeInv, WorldInv, callVars
  <1> QED
    BY <1>2, <1>3 DEF InitializeRun, img

(* One turn of the loop.                                                   *)
LEMMA TurnInv ==
    ASSUME TypeInv, NEW w \in Workers, Turn(w)
    PROVE  TypeInv'
  <1> DEFINE seen == [job[w] EXCEPT !.cancelSeen = @ \/ (~job[w].failureSeen /\ run.cancel)]
             img  == IF Stopping(seen) THEN mem[w] ELSE Planned(Promoted(mem[w]))
  <1>1. mem[w] \in SoundImage /\ mem[w].node[Root] = "SUCCESS"
    BY DEF Turn, TypeInv, ThreadsInv
  <1>2. img \in SoundImage /\ img.node[Root] = "SUCCESS"
    <2>1. Promoted(mem[w]) \in SoundImage /\ Promoted(mem[w]).node[Root] = "SUCCESS"
      BY <1>1, PromotedSound
    <2>2. Planned(Promoted(mem[w])) \in SoundImage
          /\ Planned(Promoted(mem[w])).node[Root] = "SUCCESS"
      BY <2>1, PlannedSound
    <2> QED
      BY <1>1, <2>2
  <1>3. seen \in Jobs
    <2> DEFINE flag == job[w].cancelSeen \/ (~job[w].failureSeen /\ run.cancel)
    <2>1. flag \in BOOLEAN /\ job[w] \in Jobs
      BY DEF TypeInv, ThreadsInv
    <2>2. seen = [job[w] EXCEPT !.cancelSeen = flag]
      OBVIOUS
    <2> HIDE DEF flag, seen
    <2> QED
      BY <2>1, <2>2 DEF Jobs
  <1>4. \/ CommitRefused(w, img)
        \/ /\ CommitAccepted(w, img, "RUNNING")
           /\ job' = [job EXCEPT ![w] = seen]
           /\ mem' = [mem EXCEPT ![w] = img]
           /\ pc' = [pc EXCEPT ![w] = IF Stopping(seen) THEN "settle" ELSE "schedule"]
           /\ UNCHANGED <<accepting, futures, done, callVars>>
    BY DEF Turn
  <1> HIDE DEF img, seen
  <1>5. CASE CommitRefused(w, img)
    BY <1>5, EndLoopInv DEF CommitRefused
  <1>6. CASE ~CommitRefused(w, img)
    <2>1. TablesInv'
      BY <1>2, <1>4, <1>6, CommitTables
    <2>2. ThreadsInv'
      BY <1>2, <1>3, <1>4, <1>6 DEF TypeInv, ThreadsInv
    <2> QED
      BY <1>4, <1>6, <2>1, <2>2 DEF TypeInv, WorldInv, callVars
  <1> QED
    BY <1>5, <1>6

(* Nodes are started. The root is not among them: it has succeeded.        *)
LEMMA ScheduleReadyInv ==
    ASSUME TypeInv, NEW w \in Workers, ScheduleReady(w)
    PROVE  TypeInv'
  <1>1. mem[w] \in SoundImage /\ mem[w].node[Root] = "SUCCESS"
    BY DEF ScheduleReady, TypeInv, ThreadsInv
  <1>2. PICK S \in SUBSET {n \in Nodes : mem[w].node[n] = "READY"} :
            \/ CommitRefused(w, Started(mem[w], S))
            \/ /\ CommitAccepted(w, Started(mem[w], S), "RUNNING")
               /\ mem' = [mem EXCEPT ![w] = Started(mem[w], S)]
               /\ futures' = [futures EXCEPT ![w] = IF accepting[Process[w]] THEN @ \union S ELSE @]
               /\ pc' = [pc EXCEPT ![w] = "settle"]
               /\ UNCHANGED <<accepting, job, done, callVars>>
    BY DEF ScheduleReady
  <1> DEFINE img == Started(mem[w], S)
  <1>3. img \in SoundImage /\ img.node[Root] = "SUCCESS"
    BY <1>1, StartedSound
  <1>4. S \subseteq Nodes /\ Root \notin S
    BY <1>1
  <1> HIDE DEF img
  <1>5. CASE CommitRefused(w, img)
    BY <1>5, EndLoopInv DEF CommitRefused
  <1>6. CASE ~CommitRefused(w, img)
    <2>1. TablesInv'
      BY <1>2, <1>3, <1>6, CommitTables DEF img
    <2>2. futures' \in [Workers -> SUBSET Nodes] /\ \A v \in Workers : Root \notin futures'[v]
      BY <1>2, <1>4, <1>6 DEF img, TypeInv, ThreadsInv
    <2>3. ThreadsInv'
      BY <1>2, <1>3, <1>6, <2>2 DEF img, TypeInv, ThreadsInv
    <2> QED
      BY <1>2, <1>6, <2>1, <2>3 DEF img, TypeInv, WorldInv, callVars
  <1> QED
    BY <1>5, <1>6

(* The run ends.                                                           *)
LEMMA FinalizeInv ==
    ASSUME TypeInv, NEW w \in Workers, Finalize(w)
    PROVE  TypeInv'
  <1>1. mem[w] \in SoundImage /\ mem[w].node[Root] = "SUCCESS"
    BY DEF Finalize, FinalizeCancelled, FinalizeFailure, FinalizeSuccess, Settling,
           TypeInv, ThreadsInv
  <1>2. PICK status \in {"CANCELLED", "FAILED", "SUCCESS"}, img \in SoundImage :
            Finished(w, status, img)
    <2>1. StoppedImage(mem[w]) \in SoundImage
      BY <1>1, StoppedImageSound
    <2> QED
      BY <1>1, <2>1 DEF Finalize, FinalizeCancelled, FinalizeFailure, FinalizeSuccess
  <1>3. CASE CommitRefused(w, img)
    BY <1>3, EndLoopInv DEF CommitRefused
  <1>4. CASE ~CommitRefused(w, img)
    <2>1. TablesInv'
      BY <1>2, <1>4, CommitTables DEF Finished
    <2>2. ThreadsInv'
      BY <1>2, <1>4 DEF Finished, TypeInv, ThreadsInv
    <2> QED
      BY <1>2, <1>4, <2>1, <2>2 DEF Finished, TypeInv, WorldInv, callVars
  <1> QED
    BY <1>3, <1>4

(* A result is committed.                                                  *)
LEMMA CompleteInv ==
    ASSUME TypeInv, NEW w \in Workers, Complete(w)
    PROVE  TypeInv'
  <1>1. /\ mem[w] \in SoundImage
        /\ mem[w].node[Root] = "SUCCESS"
        /\ \A c \in done[w] : c.node \in Nodes \ {Root}
    BY DEF Complete, Settling, TypeInv, ThreadsInv, Completions
  <1>2. PICK c \in done[w] :
          LET img   == Completed(mem[w], c.node, c.outcome)
              fatal == c.outcome.kind # "ok" /\ ~ShouldRetry(mem[w], c.node, c.outcome.kind)
          IN
          \/ /\ accepting[Process[w]]
             /\ CommitAccepted(w, img, "RUNNING")
             /\ mem' = [mem EXCEPT ![w] = img]
             /\ job' = [job EXCEPT ![w].failureSeen = @ \/ fatal]
             /\ futures' = [futures EXCEPT ![w] = @ \ {c.node}]
             /\ done' = [done EXCEPT ![w] = @ \ {c}]
             /\ pc' = [pc EXCEPT ![w] = "turn"]
             /\ UNCHANGED <<accepting, callVars>>
          \/ CommitRefused(w, img)
          \/ ~accepting[Process[w]] /\ EndLoop(w)
    BY DEF Complete
  <1> DEFINE img   == Completed(mem[w], c.node, c.outcome)
             fatal == c.outcome.kind # "ok" /\ ~ShouldRetry(mem[w], c.node, c.outcome.kind)
  <1>3. img \in SoundImage /\ img.node[Root] = "SUCCESS"
    BY <1>1, CompletedSound
  <1>4. fatal \in BOOLEAN
    OBVIOUS
  <1> HIDE DEF img, fatal
  <1>5. CASE CommitRefused(w, img) \/ EndLoop(w)
    BY <1>5, EndLoopInv DEF CommitRefused
  <1>6. CASE ~(CommitRefused(w, img) \/ EndLoop(w))
    <2>1. TablesInv'
      BY <1>2, <1>3, <1>6, CommitTables DEF img
    <2>2. job' \in [Workers -> Jobs]
      <3>1. job' = [job EXCEPT ![w].failureSeen = @ \/ fatal]
        BY <1>2, <1>6 DEF img, fatal
      <3>2. job \in [Workers -> Jobs]
        BY DEF TypeInv, ThreadsInv
      <3> QED
        BY <1>4, <3>1, <3>2 DEF Jobs
    <2>3. /\ futures' \in [Workers -> SUBSET Nodes]
          /\ \A v \in Workers : futures'[v] \subseteq futures[v]
          /\ done' \in [Workers -> SUBSET Completions]
          /\ \A v \in Workers : done'[v] \subseteq done[v]
      BY <1>2, <1>6 DEF img, TypeInv, ThreadsInv
    <2>4. ThreadsInv'
      BY <1>2, <1>3, <1>6, <2>2, <2>3 DEF img, TypeInv, ThreadsInv
    <2> QED
      BY <1>2, <1>6, <2>1, <2>4 DEF img, TypeInv, WorldInv, callVars
  <1> QED
    BY <1>5, <1>6

(* The steps of the loop that touch no row.                                *)
LEMMA LocalStepInv ==
    ASSUME TypeInv, NEW w \in Workers,
           LeaveLoop(w) \/ NothingToSchedule(w) \/ WaitOrGiveUp(w) \/ PollTimesOut(w) \/ Throw(w)
    PROVE  TypeInv'
  <1>1. CASE LeaveLoop(w) \/ Throw(w)
    BY <1>1, EndLoopInv DEF LeaveLoop, Throw
  <1>2. CASE NothingToSchedule(w) \/ PollTimesOut(w)
    <2>1. /\ UNCHANGED <<runVars, due, accepting, job, mem, futures, done, callVars>>
          /\ \E p \in {"settle", "turn"} : pc' = [pc EXCEPT ![w] = p]
          /\ pc[w] \in {"schedule", "settle"}
      BY <1>2 DEF NothingToSchedule, PollTimesOut, Settling
    <2>2. TablesInv'
      BY <2>1 DEF TypeInv, TablesInv, runVars
    <2>3. ThreadsInv'
      BY <2>1 DEF TypeInv, ThreadsInv
    <2> QED
      BY <2>1, <2>2, <2>3 DEF TypeInv, WorldInv, callVars
  <1>3. CASE WaitOrGiveUp(w)
    <2> DEFINE stuck == (mem[w].next = {})
    <2>1. job' \in [Workers -> Jobs]
      <3>1. job' = [job EXCEPT ![w].failureSeen = stuck]
        BY <1>3 DEF WaitOrGiveUp
      <3>2. job \in [Workers -> Jobs] /\ stuck \in BOOLEAN
        BY DEF TypeInv, ThreadsInv
      <3> HIDE DEF stuck
      <3> QED
        BY <3>1, <3>2 DEF Jobs
    <2>2. TablesInv'
      BY <1>3 DEF WaitOrGiveUp, TypeInv, TablesInv, runVars
    <2>3. ThreadsInv'
      BY <1>3, <2>1 DEF WaitOrGiveUp, Settling, TypeInv, ThreadsInv
    <2> QED
      BY <1>3, <2>2, <2>3 DEF WaitOrGiveUp, TypeInv, WorldInv, callVars
  <1> QED
    BY <1>1, <1>2, <1>3

(* A call returns; what it did to the world is counted.                    *)
LEMMA CallReturnsInv ==
    ASSUME TypeInv, NEW w \in Workers, CallReturns(w)
    PROVE  TypeInv'
  <1>1. PICK n \in InFlight(w) : \E o \in Outcomes(n), applied \in BOOLEAN :
            /\ done' = [done EXCEPT ![w] = @ \union {[node |-> n, outcome |-> o]}]
            /\ Affect(n, applied)
    BY DEF CallReturns
  <1>2. PICK o \in Outcomes(n), applied \in BOOLEAN :
            /\ done' = [done EXCEPT ![w] = @ \union {[node |-> n, outcome |-> o]}]
            /\ Affect(n, applied)
    BY <1>1
  <1>3. n \in Nodes /\ n # Root
    BY DEF InFlight, TypeInv, ThreadsInv
  <1> DEFINE c == [node |-> n, outcome |-> o]
  <1>4. c \in Completions /\ c.node = n
    BY <1>3 DEF Completions
  <1>5. effects' \in [Unrepeatable -> Nat]
    BY <1>2 DEF Affect, TypeInv, WorldInv
  <1>6. TablesInv'
    BY DEF CallReturns, TypeInv, TablesInv, runVars
  <1> HIDE DEF c
  <1>7. ThreadsInv'
    BY <1>2, <1>3, <1>4 DEF CallReturns, c, TypeInv, ThreadsInv
  <1> QED
    BY <1>5, <1>6, <1>7 DEF CallReturns, TypeInv, WorldInv

(* What happens without a thread: time, heartbeats, crashes, users.        *)
LEMMA OrphanLandsInv ==
    ASSUME TypeInv, OrphanLands
    PROVE  TypeInv'
  <1>1. PICK call \in orphans : orphans' = orphans \ {call} /\ Affect(call[1], TRUE)
    BY DEF OrphanLands
  <1>2. effects' \in [Unrepeatable -> Nat]
    BY <1>1 DEF Affect, TypeInv, WorldInv
  <1>3. TablesInv'
    BY DEF OrphanLands, TypeInv, TablesInv, runVars
  <1>4. ThreadsInv'
    BY DEF OrphanLands, TypeInv, ThreadsInv
  <1> QED
    BY <1>1, <1>2, <1>3, <1>4 DEF OrphanLands, TypeInv, WorldInv

LEMMA HeartbeatFailsInv ==
    ASSUME TypeInv, NEW w \in Workers, HeartbeatFails(w)
    PROVE  TypeInv'
  <1>1. job' \in [Workers -> Jobs]
    BY DEF HeartbeatFails, TypeInv, ThreadsInv, Jobs
  <1>2. TablesInv'
    BY DEF HeartbeatFails, TypeInv, TablesInv, runVars
  <1>3. ThreadsInv'
    BY <1>1 DEF HeartbeatFails, TypeInv, ThreadsInv
  <1> QED
    BY <1>2, <1>3 DEF HeartbeatFails, TypeInv, WorldInv, callVars

LEMMA CrashInv ==
    ASSUME TypeInv, NEW p \in Processes, Crash(p)
    PROVE  TypeInv'
  <1>1. PICK dead \in SUBSET Workers : Forget(dead)
    BY DEF Crash
  <1>2. ThreadsInv' /\ orphans' \subseteq Unrepeatable \X (0 .. MaxAttempts)
    BY <1>1, ForgetThreads
  <1>3. TablesInv'
    BY DEF Crash, TypeInv, TablesInv, runVars
  <1> QED
    BY <1>2, <1>3 DEF Crash, TypeInv, WorldInv

LEMMA ProcessStepInv ==
    ASSUME TypeInv, NEW p \in Processes, Shutdown(p) \/ Restart(p)
    PROVE  TypeInv'
  <1>1. /\ UNCHANGED <<runVars, due, pc, job, mem, futures, done, callVars>>
        /\ accepting' \in [Processes -> BOOLEAN]
    BY DEF Shutdown, Restart, TypeInv, WorldInv
  <1>2. TablesInv'
    BY <1>1 DEF TypeInv, TablesInv, runVars
  <1>3. ThreadsInv'
    BY <1>1 DEF TypeInv, ThreadsInv
  <1> QED
    BY <1>1, <1>2, <1>3 DEF TypeInv, WorldInv, callVars

LEMMA TableStepInv ==
    ASSUME TypeInv,
           (\E n \in Nodes : BackoffElapses(n)) \/ LeaseExpires \/ RequestCancel
    PROVE  TypeInv'
  <1>1. UNCHANGED <<accepting, pc, job, mem, futures, done, callVars>>
    BY DEF BackoffElapses, LeaseExpires, RequestCancel
  <1>2. TablesInv'
    <2>1. CASE \E n \in Nodes : BackoffElapses(n)
      BY <2>1 DEF BackoffElapses, TypeInv, TablesInv, runVars
    <2>2. CASE LeaseExpires
      BY <2>2 DEF LeaseExpires, TypeInv, TablesInv, Row
    <2>3. CASE RequestCancel /\ run.status = "QUEUED"
      <3> DEFINE after == [saved EXCEPT
              !.node = [n \in Nodes |-> IF saved.node[n] \in {"SUCCESS", "SKIPPED", "FAILED"}
                                        THEN saved.node[n] ELSE "CANCELLED"],
              !.next = {}]
      <3>1. /\ run' = [[run EXCEPT !.status = "CANCELLED", !.cancel = TRUE]
                         EXCEPT !.owner = Nobody, !.live = FALSE]
            /\ saved' = after
            /\ UNCHANGED <<notices, due>>
        BY <2>3 DEF RequestCancel, Released
      <3>2. after \in SoundImage
        BY WithdrawnSound DEF TypeInv, TablesInv
      <3> HIDE DEF after
      <3>3. run' \in Row /\ run'.status = "CANCELLED"
        BY <3>1 DEF TypeInv, TablesInv, Row, RunStatus, Terminal
      <3> QED
        BY <3>1, <3>2, <3>3 DEF TypeInv, TablesInv, Terminal
    <2>4. CASE RequestCancel /\ run.status # "QUEUED"
      BY <2>4 DEF RequestCancel, TypeInv, TablesInv, Row
    <2> QED
      BY <2>1, <2>2, <2>3, <2>4
  <1>3. ThreadsInv'
    BY <1>1 DEF TypeInv, ThreadsInv
  <1> QED
    BY <1>1, <1>2, <1>3 DEF TypeInv, WorldInv, callVars

-----------------------------------------------------------------------------
(* So every step keeps it.                                                 *)
LEMMA NextTypeInv == TypeInv /\ [Next]_vars => TypeInv'
  <1> SUFFICES ASSUME TypeInv, [Next]_vars PROVE TypeInv'
    OBVIOUS
  <1>1. ASSUME NEW w \in Workers, Work(w) PROVE TypeInv'
    <2>1. CASE RefuseRun(w) \/ Exit(w)
      BY <2>1, GiveBackInv
    <2>2. CASE Load(w)
      BY <2>2, LoadInv
    <2>3. CASE InitializeRun(w)
      BY <2>3, InitializeRunInv
    <2>4. CASE Turn(w)
      BY <2>4, TurnInv
    <2>5. CASE ScheduleReady(w)
      BY <2>5, ScheduleReadyInv
    <2>6. CASE Finalize(w)
      BY <2>6, FinalizeInv
    <2>7. CASE Complete(w)
      BY <2>7, CompleteInv
    <2>8. CASE LeaveLoop(w) \/ NothingToSchedule(w) \/ WaitOrGiveUp(w) \/ PollTimesOut(w)
      BY <2>8, LocalStepInv
    <2> QED
      BY <1>1, <2>1, <2>2, <2>3, <2>4, <2>5, <2>6, <2>7, <2>8 DEF Work
  <1>2. ASSUME NEW w \in Workers,
               Claim(w) \/ CallReturns(w) \/ HeartbeatFails(w) \/ Throw(w)
        PROVE  TypeInv'
    BY <1>2, ClaimInv, CallReturnsInv, HeartbeatFailsInv, LocalStepInv
  <1>3. ASSUME NEW p \in Processes, Crash(p) \/ Shutdown(p) \/ Restart(p) PROVE TypeInv'
    BY <1>3, CrashInv, ProcessStepInv
  <1>4. CASE (\E n \in Nodes : BackoffElapses(n)) \/ LeaseExpires \/ RequestCancel
    BY <1>4, TableStepInv
  <1>5. CASE OrphanLands
    BY <1>5, OrphanLandsInv
  <1>6. CASE UNCHANGED vars
    <2>1. TablesInv'
      BY <1>6 DEF vars, TypeInv, TablesInv
    <2>2. ThreadsInv'
      BY <1>6 DEF vars, TypeInv, ThreadsInv
    <2> QED
      BY <1>6, <2>1, <2>2 DEF vars, TypeInv, WorldInv
  <1> QED
    BY <1>1, <1>2, <1>3, <1>4, <1>5, <1>6 DEF Next

(* Type correctness: every row, thread and in-memory copy keeps its shape, *)
(* no attempt number leaves 1 .. MAX_ATTEMPTS and no claim counts more     *)
(* than one recovery past the cap, whatever fails and however many workers *)
(* there are.                                                              *)
THEOREM TypeCorrect == Spec => []TypeOK
  <1>1. Spec => []TypeInv
    BY InitTypeInv, NextTypeInv, PTL DEF Spec
  <1> QED
    BY <1>1, TypeInvImpliesTypeOK, PTL

-----------------------------------------------------------------------------
(***************************************************************************)
(* Fencing: why two workers that both believe they hold a run never both   *)
(* write to it, for every definition, number of workers and pattern of     *)
(* lost leases.                                                            *)
(***************************************************************************)

(* Every claim takes a token no worker has had, so tokens are bounded by   *)
(* the row's, and no two workers share one that was ever handed out.       *)
TokensInv ==
    /\ \A w \in Workers : job[w].token <= run.token
    /\ \A v, w \in Workers : job[v].token = job[w].token /\ v # w => job[v].token = 0
    /\ run.status = "RUNNING" => run.token > 0

FencingInv == TypeInv /\ TokensInv /\ HolderSeesTheRows

-----------------------------------------------------------------------------
(* What every step but a granted claim does to the lease and the rows.     *)

(* Tokens never fall, no lease is made, and threads keep or drop tokens.   *)
LeaseStep ==
    /\ run'.token >= run.token
    /\ run'.status = "RUNNING" => run.status = "RUNNING"
    /\ run'.live => run.live /\ run'.owner = run.owner

JobStep == \A v \in Workers : job'[v].token \in {job[v].token, 0}

(* The rows of a run that goes on are written only by a fenced worker, and *)
(* a loop starts from the rows.                                            *)
Looping == {"init", "turn", "schedule", "settle"}

RowStep == \/ saved' = saved
           \/ run'.status # "RUNNING"
           \/ \E w \in Workers : Fenced(w) /\ saved' = mem'[w]

CopyStep == \A v \in Workers : \/ mem'[v] = mem[v] /\ (pc'[v] \in Looping => pc[v] \in Looping)
                               \/ mem'[v] = saved'
                               \/ pc'[v] \notin Looping

FinalStep == run.status \in Terminal => UNCHANGED <<saved, notices>> /\ run'.status = run.status

FencedStep == LeaseStep /\ JobStep /\ RowStep /\ CopyStep /\ FinalStep

(* A step that leaves the tables alone.                                    *)
LEMMA NoTableStep ==
    ASSUME TypeInv, UNCHANGED runVars
    PROVE  LeaseStep /\ RowStep /\ FinalStep
  BY DEF TypeInv, TablesInv, Row, runVars, LeaseStep, RowStep, FinalStep

(* Leaving the loop.                                                       *)
LEMMA EndLoopStep ==
    ASSUME TypeInv, NEW w \in Workers, EndLoop(w)
    PROVE  FencedStep
  <1>1. LeaseStep /\ RowStep /\ FinalStep
    BY NoTableStep DEF EndLoop
  <1>2. JobStep /\ CopyStep
    BY DEF EndLoop, JobStep, CopyStep, Looping, TypeInv, ThreadsInv
  <1> QED
    BY <1>1, <1>2 DEF FencedStep

(* An accepted commit writes what the worker keeps.                        *)
LEMMA CommitStep ==
    ASSUME TypeInv, NEW w \in Workers, NEW img, NEW status,
           CommitAccepted(w, img, status), mem' = [mem EXCEPT ![w] = img]
    PROVE  LeaseStep /\ RowStep /\ FinalStep
  <1>1. mem'[w] = img /\ Fenced(w)
    BY DEF CommitAccepted, TypeInv, ThreadsInv
  <1>2. LeaseStep
    <2>1. CASE status \in Terminal
      <3>1. run' = [[run EXCEPT !.status = status] EXCEPT !.owner = Nobody, !.live = FALSE]
        BY <2>1 DEF CommitAccepted, Released
      <3> QED
        BY <2>1, <3>1 DEF TypeInv, TablesInv, Row, Terminal, LeaseStep
    <2>2. CASE status \notin Terminal
      BY <2>2 DEF CommitAccepted, TypeInv, TablesInv, Row, LeaseStep
    <2> QED
      BY <2>1, <2>2
  <1>3. RowStep
    BY <1>1 DEF CommitAccepted, RowStep
  <1>4. FinalStep
    BY <1>1 DEF Fenced, FinalStep, Terminal
  <1> QED
    BY <1>2, <1>3, <1>4

(* Threads that forget the run.                                            *)
LEMMA ForgetStep ==
    ASSUME TypeInv, NEW W \in SUBSET Workers, Forget(W)
    PROVE  JobStep /\ CopyStep
  BY DEF Forget, NoJob, JobStep, CopyStep, Looping, TypeInv, ThreadsInv

LEMMA GiveBackStep ==
    ASSUME TypeInv, NEW w \in Workers, RefuseRun(w) \/ Exit(w)
    PROVE  FencedStep
  <1>1. JobStep /\ CopyStep
    BY ForgetStep DEF RefuseRun, Exit
  <1>2. /\ run' = ReleasedIfFenced(w)
        /\ UNCHANGED <<saved, notices>>
    BY DEF RefuseRun, Exit
  <1>3. LeaseStep /\ RowStep /\ FinalStep
    BY <1>2 DEF ReleasedIfFenced, Released, TypeInv, TablesInv, Row, LeaseStep, RowStep, FinalStep
  <1> QED
    BY <1>1, <1>3 DEF FencedStep

(* A claim that fails the run.                                             *)
LEMMA ClaimFailsStep ==
    ASSUME TypeInv, NEW w \in Workers, ClaimFailsLegacy(w) \/ ClaimExhausts(w)
    PROVE  FencedStep
  <1>1. /\ run.status \in {"QUEUED", "RUNNING"}
        /\ UNCHANGED <<pc, job, mem>>
    BY DEF ClaimFailsLegacy, ClaimExhausts, Claimable
  <1>2. JobStep /\ CopyStep /\ FinalStep
    BY <1>1 DEF JobStep, CopyStep, FinalStep, Terminal
  <1>3. run'.status = "FAILED" /\ ~run'.live /\ run'.token >= run.token
    <2>1. CASE ClaimFailsLegacy(w)
      <3>1. run' = [[run EXCEPT !.status = "FAILED"] EXCEPT !.owner = Nobody, !.live = FALSE]
        BY <2>1 DEF ClaimFailsLegacy, Released
      <3> QED
        BY <3>1 DEF TypeInv, TablesInv, Row
    <2>2. CASE ClaimExhausts(w)
      <3> DEFINE token  == run.token + 1
                 count  == NextRecovery
                 failed == [run EXCEPT !.status = "FAILED", !.token = token, !.recoveries = count]
      <3>1. run' = [failed EXCEPT !.owner = Nobody, !.live = FALSE]
        BY <2>2 DEF ClaimExhausts, Released
      <3>2. run \in Row /\ token \in Nat /\ token >= run.token
        BY DEF TypeInv, TablesInv, Row
      <3> HIDE DEF token, count
      <3> QED
        BY <3>1, <3>2 DEF Row
    <2> QED
      BY <2>1, <2>2
  <1>4. LeaseStep /\ RowStep
    BY <1>3 DEF LeaseStep, RowStep
  <1> QED
    BY <1>2, <1>4 DEF FencedStep

(* The steps of the loop.                                                  *)
LEMMA CommittingStep ==
    ASSUME TypeInv, NEW w \in Workers,
           InitializeRun(w) \/ Turn(w) \/ ScheduleReady(w) \/ Finalize(w) \/ Complete(w)
    PROVE  FencedStep
  <1>1. \/ EndLoop(w)
        \/ \E img, status : /\ CommitAccepted(w, img, status)
                            /\ mem' = [mem EXCEPT ![w] = img]
    BY DEF InitializeRun, Turn, ScheduleReady, Finalize, FinalizeCancelled, FinalizeFailure,
           FinalizeSuccess, Finished, Complete, CommitRefused
  <1>2. JobStep /\ CopyStep
    <2>1. pc[w] \in Looping
      BY DEF InitializeRun, Turn, ScheduleReady, Finalize, FinalizeCancelled, FinalizeFailure,
             FinalizeSuccess, Complete, Settling, Looping
    <2>2. \/ job' = job
          \/ \E f : job' = [job EXCEPT ![w].failureSeen = f]
          \/ \E f : job' = [job EXCEPT ![w] = [job[w] EXCEPT !.cancelSeen = f]]
      <3>1. CASE Turn(w)
        <4>1. EndLoop(w) \/ job' = [job EXCEPT ![w] = [job[w] EXCEPT !.cancelSeen =
                                        job[w].cancelSeen \/ (~job[w].failureSeen /\ run.cancel)]]
          BY <3>1 DEF Turn, CommitRefused
        <4> QED
          BY <4>1 DEF EndLoop
      <3>2. CASE Complete(w)
        <4>1. PICK c \in done[w] :
                 EndLoop(w) \/ job' = [job EXCEPT ![w].failureSeen = @ \/
                    (c.outcome.kind # "ok" /\ ~ShouldRetry(mem[w], c.node, c.outcome.kind))]
          BY <3>2 DEF Complete, CommitRefused
        <4>2. EndLoop(w) \/ job' = [job EXCEPT ![w].failureSeen = job[w].failureSeen \/
                    (c.outcome.kind # "ok" /\ ~ShouldRetry(mem[w], c.node, c.outcome.kind))]
          BY <4>1 DEF TypeInv, ThreadsInv
        <4> QED
          BY <4>2 DEF EndLoop
      <3>3. CASE InitializeRun(w) \/ ScheduleReady(w) \/ Finalize(w)
        BY <3>3 DEF InitializeRun, ScheduleReady, Finalize, FinalizeCancelled, FinalizeFailure,
                    FinalizeSuccess, Finished, CommitRefused, EndLoop
      <3> QED
        BY <3>1, <3>2, <3>3
    <2>3. JobStep
      BY <2>2 DEF JobStep, TypeInv, ThreadsInv, Jobs
    <2>4. CopyStep
      <3>1. \A v \in Workers \ {w} : mem'[v] = mem[v] /\ pc'[v] = pc[v]
        BY DEF InitializeRun, Turn, ScheduleReady, Finalize, FinalizeCancelled, FinalizeFailure,
               FinalizeSuccess, Finished, Complete, CommitRefused, EndLoop, TypeInv, ThreadsInv
      <3>2. CASE EndLoop(w)
        BY <3>2, EndLoopStep DEF FencedStep
      <3>3. CASE \E img, status : CommitAccepted(w, img, status) /\ mem' = [mem EXCEPT ![w] = img]
        <4>1. mem'[w] = saved'
          BY <3>3 DEF CommitAccepted, TypeInv, ThreadsInv
        <4> QED
          BY <3>1, <4>1 DEF CopyStep
      <3> QED
        BY <1>1, <3>2, <3>3
    <2> QED
      BY <2>3, <2>4
  <1>3. CASE EndLoop(w)
    BY <1>3, EndLoopStep
  <1>4. CASE \E img, status : CommitAccepted(w, img, status) /\ mem' = [mem EXCEPT ![w] = img]
    BY <1>2, <1>4, CommitStep DEF FencedStep
  <1> QED
    BY <1>1, <1>3, <1>4

LEMMA LoadStep ==
    ASSUME TypeInv, NEW w \in Workers, Load(w)
    PROVE  FencedStep
  <1>1. LeaseStep /\ RowStep /\ FinalStep
    BY NoTableStep DEF Load
  <1>2. JobStep
    BY DEF Load, JobStep, TypeInv, ThreadsInv, Jobs
  <1>3. CopyStep
    BY DEF Load, CopyStep, Looping, TypeInv, ThreadsInv, runVars
  <1> QED
    BY <1>1, <1>2, <1>3 DEF FencedStep

(* The steps that touch neither the rows nor a token.                      *)
LEMMA QuietStep ==
    ASSUME TypeInv, NEW w \in Workers,
           \/ LeaveLoop(w) \/ NothingToSchedule(w) \/ WaitOrGiveUp(w) \/ PollTimesOut(w)
           \/ Throw(w) \/ CallReturns(w) \/ HeartbeatFails(w)
    PROVE  FencedStep
  <1>1. CASE LeaveLoop(w) \/ Throw(w)
    BY <1>1, EndLoopStep DEF LeaveLoop, Throw
  <1>2. CASE \/ NothingToSchedule(w) \/ WaitOrGiveUp(w) \/ PollTimesOut(w)
             \/ CallReturns(w) \/ HeartbeatFails(w)
    <2>1. UNCHANGED runVars /\ mem' = mem
      BY <1>2 DEF NothingToSchedule, WaitOrGiveUp, PollTimesOut, CallReturns, HeartbeatFails
    <2>2. LeaseStep /\ RowStep /\ FinalStep
      BY <2>1, NoTableStep
    <2>3. JobStep
      BY <1>2, SMTT(30) DEF NothingToSchedule, WaitOrGiveUp, PollTimesOut, CallReturns, HeartbeatFails,
                  JobStep, TypeInv, ThreadsInv, Jobs
    <2>4. CopyStep
      <3>1. \A v \in Workers : pc'[v] = pc[v] \/ pc[v] \in Looping
        BY <1>2 DEF NothingToSchedule, WaitOrGiveUp, PollTimesOut, CallReturns, HeartbeatFails,
                    Settling, Looping, TypeInv, ThreadsInv
      <3> QED
        BY <2>1, <3>1 DEF CopyStep
    <2> QED
      BY <2>2, <2>3, <2>4 DEF FencedStep
  <1> QED
    BY <1>1, <1>2

(* The steps of the world.                                                 *)
LEMMA WorldStep ==
    ASSUME TypeInv,
           \/ \E p \in Processes : Crash(p) \/ Shutdown(p) \/ Restart(p)
           \/ \E n \in Nodes : BackoffElapses(n)
           \/ LeaseExpires \/ RequestCancel \/ OrphanLands
    PROVE  FencedStep
  <1>1. CASE \E p \in Processes : Crash(p)
    <2>1. UNCHANGED runVars /\ \E W \in SUBSET Workers : Forget(W)
      BY <1>1 DEF Crash
    <2>2. JobStep /\ CopyStep
      BY <2>1, ForgetStep
    <2> QED
      BY <2>1, <2>2, NoTableStep DEF FencedStep
  <1>2. CASE \/ \E p \in Processes : Shutdown(p) \/ Restart(p)
             \/ \E n \in Nodes : BackoffElapses(n)
             \/ OrphanLands
    <2>1. UNCHANGED <<runVars, pc, job, mem>>
      BY <1>2 DEF Shutdown, Restart, BackoffElapses, OrphanLands
    <2> QED
      BY <2>1, NoTableStep DEF JobStep, CopyStep, FencedStep
  <1>3. CASE LeaseExpires \/ RequestCancel
    <2>1. UNCHANGED <<notices, pc, job, mem>>
      BY <1>3 DEF LeaseExpires, RequestCancel
    <2>2. LeaseStep /\ RowStep /\ FinalStep
      <3>1. CASE LeaseExpires
        BY <3>1 DEF LeaseExpires, TypeInv, TablesInv, Row, LeaseStep, RowStep, FinalStep
      <3>2. CASE RequestCancel /\ run.status = "QUEUED"
        <4>1. run' = [[run EXCEPT !.status = "CANCELLED", !.cancel = TRUE]
                       EXCEPT !.owner = Nobody, !.live = FALSE]
          BY <3>2 DEF RequestCancel, Released
        <4>2. run'.status = "CANCELLED" /\ ~run'.live /\ run'.token = run.token
          BY <4>1 DEF TypeInv, TablesInv, Row
        <4> QED
          BY <3>2, <4>2 DEF TypeInv, TablesInv, Row, Terminal, LeaseStep, RowStep, FinalStep
      <3>3. CASE RequestCancel /\ run.status # "QUEUED"
        BY <3>3 DEF RequestCancel, TypeInv, TablesInv, Row, Terminal,
                    LeaseStep, RowStep, FinalStep
      <3> QED
        BY <1>3, <3>1, <3>2, <3>3
    <2> QED
      BY <2>1, <2>2 DEF JobStep, CopyStep, FencedStep
  <1> QED
    BY <1>1, <1>2, <1>3

(* So a step either grants a claim or respects the fence.                  *)
LEMMA NextFenced ==
    ASSUME TypeInv, [Next]_vars
    PROVE  FencedStep \/ \E w \in Workers : ClaimGranted(w)
  <1>1. CASE UNCHANGED vars
    BY <1>1, NoTableStep DEF vars, runVars, JobStep, CopyStep, FencedStep
  <1>2. ASSUME NEW w \in Workers, Work(w) PROVE FencedStep
    BY <1>2, GiveBackStep, LoadStep, CommittingStep, QuietStep DEF Work
  <1>3. ASSUME NEW w \in Workers, Claim(w) PROVE FencedStep \/ ClaimGranted(w)
    BY <1>3, ClaimFailsStep DEF Claim
  <1> QED
    BY <1>1, <1>2, <1>3, QuietStep, WorldStep DEF Next

-----------------------------------------------------------------------------
(* Tokens stay distinct, so at most one worker is fenced.                  *)
LEMMA TokensAllowOneWriter == TypeInv /\ TokensInv => OneWriter
  <1> SUFFICES ASSUME TypeInv, TokensInv, NEW v \in Workers, NEW w \in Workers,
                      Fenced(v), Fenced(w), v # w
               PROVE  FALSE
    BY DEF OneWriter
  <1>1. run.status = "RUNNING" /\ run.token = job[v].token /\ run.token = job[w].token
    BY DEF Fenced
  <1>2. run.token = 0
    BY <1>1 DEF TokensInv
  <1>3. run.token > 0
    BY <1>1 DEF TokensInv
  <1> QED
    BY <1>2, <1>3

LEMMA FencedStepTokens ==
    ASSUME TypeInv, TypeInv', TokensInv, FencedStep
    PROVE  TokensInv'
  <1> USE DEF TypeInv, TablesInv, ThreadsInv, Row, Jobs
  <1>1. ASSUME NEW w \in Workers PROVE job'[w].token <= run'.token
    BY <1>1 DEF FencedStep, JobStep, LeaseStep, TokensInv
  <1>2. ASSUME NEW v \in Workers, NEW w \in Workers, job'[v].token = job'[w].token, v # w
        PROVE  job'[v].token = 0
    BY <1>2 DEF FencedStep, JobStep, TokensInv
  <1>3. run'.status = "RUNNING" => run'.token > 0
    BY DEF FencedStep, LeaseStep, TokensInv
  <1> QED
    BY <1>1, <1>2, <1>3 DEF TokensInv

LEMMA GrantTokens ==
    ASSUME TypeInv, TypeInv', TokensInv, NEW w \in Workers, ClaimGranted(w)
    PROVE  TokensInv'
  <1> DEFINE token == run.token + 1
             count == NextRecovery
  <1>1. run \in Row /\ run' = [run EXCEPT !.status = "RUNNING", !.owner = Process[w],
                                   !.token = token, !.live = TRUE, !.recoveries = count]
    BY DEF ClaimGranted, TypeInv, TablesInv
  <1>2. token \in Nat /\ token > run.token /\ token > 0
    BY <1>1 DEF Row
  <1>3. /\ job'[w].token = token
        /\ \A v \in Workers \ {w} : job'[v] = job[v]
    BY DEF ClaimGranted, NoJob, TypeInv, ThreadsInv, Jobs
  <1> HIDE DEF token, count
  <1>4. run'.token = token
    BY <1>1 DEF Row
  <1>5. \A v \in Workers : job[v].token \in Nat /\ job[v].token <= run.token
    BY DEF TypeInv, ThreadsInv, Jobs, TokensInv
  <1>6. ASSUME NEW v \in Workers PROVE job'[v].token <= token
    BY <1>1, <1>2, <1>3, <1>5 DEF Row
  <1>7. ASSUME NEW u \in Workers, NEW v \in Workers, job'[u].token = job'[v].token, u # v
        PROVE  job'[u].token = 0
    BY <1>1, <1>2, <1>3, <1>5, <1>7 DEF Row, TokensInv
  <1> QED
    BY <1>2, <1>4, <1>6, <1>7 DEF TokensInv

(* A worker that is fenced after a step that grants no claim was fenced    *)
(* before it.                                                              *)
LEMMA FenceIsNotGained ==
    ASSUME TypeInv, TypeInv', TokensInv, TokensInv', FencedStep,
           NEW w \in Workers, Fenced(w)'
    PROVE  Fenced(w)
  <1>1. /\ run'.status = "RUNNING" /\ run'.owner = Process[w]
        /\ run'.token = job'[w].token /\ run'.live
    BY DEF Fenced
  <1>2. run'.token > 0
    BY <1>1 DEF TokensInv
  <1>3. job'[w].token = job[w].token
    BY <1>1, <1>2 DEF FencedStep, JobStep
  <1>4. run.token = job[w].token
    <2>1. run.token \in Nat /\ job[w].token \in Nat
      BY DEF TypeInv, TablesInv, ThreadsInv, Row, Jobs
    <2>2. run'.token >= run.token /\ job[w].token <= run.token
      BY DEF FencedStep, LeaseStep, TokensInv
    <2> QED
      BY <1>1, <1>3, <2>1, <2>2
  <1> QED
    BY <1>1, <1>4 DEF FencedStep, LeaseStep, Fenced

(* Its copy of the rows stays the rows.                                    *)
LEMMA FencedStepRows ==
    ASSUME TypeInv, TypeInv', TokensInv, TokensInv', HolderSeesTheRows, FencedStep
    PROVE  HolderSeesTheRows'
  <1> SUFFICES ASSUME NEW w \in Workers, Fenced(w)', pc'[w] \in Looping
               PROVE  mem'[w] = saved'
    BY DEF HolderSeesTheRows, Looping
  <1>1. Fenced(w)
    BY FenceIsNotGained
  <1>2. run'.status = "RUNNING"
    BY DEF Fenced
  <1>3. CASE mem'[w] = mem[w] /\ pc[w] \in Looping
    <2>1. mem[w] = saved
      BY <1>1, <1>3 DEF HolderSeesTheRows, Looping
    <2>2. CASE saved' = saved
      BY <1>3, <2>1, <2>2
    <2>3. CASE \E v \in Workers : Fenced(v) /\ saved' = mem'[v]
      BY <1>1, <2>3, TokensAllowOneWriter DEF OneWriter
    <2> QED
      BY <1>2, <2>2, <2>3 DEF FencedStep, RowStep
  <1> QED
    BY <1>3 DEF FencedStep, CopyStep

LEMMA GrantRows ==
    ASSUME TypeInv, TypeInv', TokensInv, TokensInv', NEW w \in Workers, ClaimGranted(w)
    PROVE  HolderSeesTheRows'
  <1> SUFFICES ASSUME NEW v \in Workers, Fenced(v)', pc'[v] \in Looping
               PROVE  FALSE
    BY DEF HolderSeesTheRows, Looping
  <1> DEFINE token == run.token + 1
             count == NextRecovery
  <1>1. v # w
    BY DEF ClaimGranted, Looping, TypeInv, ThreadsInv
  <1>2. job'[v].token <= run.token
    BY <1>1 DEF ClaimGranted, TokensInv, TypeInv, ThreadsInv
  <1>3. run \in Row /\ run' = [run EXCEPT !.status = "RUNNING", !.owner = Process[w],
                                   !.token = token, !.live = TRUE, !.recoveries = count]
    BY DEF ClaimGranted, TypeInv, TablesInv
  <1>4. token > run.token /\ run.token \in Nat
    BY <1>3 DEF Row
  <1> HIDE DEF token, count
  <1>5. run'.token = token
    BY <1>3 DEF Row
  <1>6. job'[v].token \in Nat
    BY DEF TypeInv, ThreadsInv, Jobs
  <1> HIDE DEF token
  <1> QED
    BY <1>2, <1>4, <1>5, <1>6, SMT DEF Fenced

-----------------------------------------------------------------------------
(* The invariant.                                                          *)
LEMMA InitFencing == Init => FencingInv
  <1> SUFFICES ASSUME Init PROVE FencingInv
    OBVIOUS
  <1>1. TypeInv
    BY InitTypeInv
  <1>2. run.status = "QUEUED" /\ run.token = 0 /\ \A w \in Workers : job[w].token = 0
    BY DEF Init, NoJob
  <1> QED
    BY <1>1, <1>2 DEF FencingInv, TokensInv, HolderSeesTheRows, Fenced

LEMMA NextFencing == FencingInv /\ [Next]_vars => FencingInv'
  <1> SUFFICES ASSUME FencingInv, [Next]_vars PROVE FencingInv'
    OBVIOUS
  <1>1. TypeInv /\ TypeInv' /\ TokensInv /\ HolderSeesTheRows
    BY NextTypeInv DEF FencingInv
  <1>2. CASE FencedStep
    BY <1>1, <1>2, FencedStepTokens, FencedStepRows DEF FencingInv
  <1>3. ASSUME NEW w \in Workers, ClaimGranted(w) PROVE FencingInv'
    BY <1>1, <1>3, GrantTokens, GrantRows DEF FencingInv
  <1> QED
    BY <1>1, <1>2, <1>3, NextFenced

LEMMA Fencing == Spec => []FencingInv
  BY InitFencing, NextFencing, PTL DEF Spec

(* At most one worker can commit, of any number of workers in any number   *)
(* of processes and after any number of lost leases, claims and crashes:   *)
(* commit()'s check of status, owner, token and expiry is enough.          *)
THEOREM OnlyOneWriter == Spec => []OneWriter
  <1>1. FencingInv => OneWriter
    BY TokensAllowOneWriter DEF FencingInv
  <1> QED
    BY <1>1, Fencing, PTL

(* The copy a fenced worker decides on is the rows as they are: no commit  *)
(* is made from stale state.                                               *)
THEOREM FencedWorkerSeesTheRows == Spec => []HolderSeesTheRows
  <1>1. FencingInv => HolderSeesTheRows
    BY DEF FencingInv
  <1> QED
    BY <1>1, Fencing, PTL

(* A finished run never changes: no late commit, claim or stop request     *)
(* touches its rows, its status or its announcements.                      *)
THEOREM FinishedForEver == Spec => FinishedIsFinal
  <1>1. TypeInv /\ [Next]_vars => (run.status \in Terminal =>
            UNCHANGED <<saved, notices>> /\ run'.status = run.status)
    <2> SUFFICES ASSUME TypeInv, [Next]_vars, run.status \in Terminal
                 PROVE  UNCHANGED <<saved, notices>> /\ run'.status = run.status
      OBVIOUS
    <2>1. ~\E w \in Workers : ClaimGranted(w)
      BY DEF ClaimGranted, Claimable, Terminal
    <2> QED
      BY <2>1, NextFenced DEF FencedStep, FinalStep
  <1>2. Spec => []TypeInv
    BY InitTypeInv, NextTypeInv, PTL DEF Spec
  <1> QED
    BY <1>1, <1>2, PTL DEF Spec, FinishedIsFinal
=============================================================================
