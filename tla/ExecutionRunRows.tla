-------------------------- MODULE ExecutionRunRows --------------------------
(***************************************************************************)
(* What the rows of a run say of each other, for every definition, number  *)
(* of workers and pattern of faults: no node contradicts its attempts, and *)
(* no decision is undone or taken against the routes. RowsInv adds to the  *)
(* fencing of ExecutionRunProofs what a worker's loop knows of the calls   *)
(* it has started, and what the claims and commits leave behind.           *)
(***************************************************************************)
EXTENDS ExecutionRunProofs, ReadinessPlannerProofs

-----------------------------------------------------------------------------
(* What the recursion of Excluded says of one node of the definition.      *)
LEMMA DefinitionUnfolds ==
    ASSUME NEW g, NEW n \in Nodes
    PROVE  n \in Excluded(Definition, g) <=>
              /\ g.node[n] = "PENDING"
              /\ \A e \in In(Definition, n) :
                    \/ g.edge[e] = "INACTIVE"
                    \/ g.edge[e] = "UNKNOWN" /\ e.src \in Excluded(Definition, g)
  BY DefinitionAssumption, ExcludedUnfolds DEF Nodes

-----------------------------------------------------------------------------
(* What ready() does to one node and to one edge.                          *)
LEMMA ReadyNode ==
    ASSUME NEW g, NEW n \in Nodes
    PROVE  Ready(Definition, g).node[n] =
              IF n \in Excluded(Definition, g) THEN "SKIPPED"
              ELSE IF Runnable(Definition, g, Excluded(Definition, g), n) THEN "READY"
              ELSE g.node[n]
  BY DEF Ready, Nodes

LEMMA ReadyEdge ==
    ASSUME NEW g, NEW e \in Edges
    PROVE  Ready(Definition, g).edge[e] =
              IF e.src \in Excluded(Definition, g) /\ g.edge[e] = "UNKNOWN" THEN "INACTIVE"
              ELSE g.edge[e]
  BY DEF Ready, Edges

(* The routes of a graph state: one port per decision, only successful     *)
(* nodes open routes, only nodes that are over close them, and a node is   *)
(* ready only when its routes are decided and one of them is open.         *)
Decided(g, n) == /\ \A e \in In(Definition, n) : g.edge[e] # "UNKNOWN"
                 /\ \E e \in In(Definition, n) : g.edge[e] = "ACTIVE"

Routed(g) ==
    /\ \A e, f \in Edges : g.edge[e] = "ACTIVE" /\ g.edge[f] = "ACTIVE" /\ e.src = f.src
                           => e.port = f.port
    /\ \A e \in Edges : /\ g.edge[e] = "ACTIVE" => g.node[e.src] = "SUCCESS"
                        /\ g.edge[e] = "INACTIVE" => g.node[e.src] \in {"SUCCESS", "SKIPPED"}
    /\ \A n \in Nodes : g.node[n] = "READY" => Decided(g, n)

LEMMA EdgeEnds ==
    ASSUME NEW e \in Edges
    PROVE  e.src \in Nodes /\ e \in In(Definition, e.dst)
  BY DefinitionAssumption DEF WellFormed, Nodes, Edges, In

LEMMA ReadyDecides ==
    ASSUME NEW g \in GraphStates(Definition), NEW n \in Nodes,
           Runnable(Definition, g, Excluded(Definition, g), n)
    PROVE  Decided(Ready(Definition, g), n)
  <1> DEFINE skip == Excluded(Definition, g)
  <1>1. /\ g.node[n] = "PENDING" /\ n \notin skip
        /\ \A e \in In(Definition, n) : \/ g.edge[e] = "INACTIVE"
                                        \/ g.edge[e] = "UNKNOWN" /\ e.src \in skip
                                        \/ g.edge[e] = "ACTIVE"
    BY DEF Runnable
  <1>2. PICK e \in In(Definition, n) :
            ~(g.edge[e] = "INACTIVE" \/ (g.edge[e] = "UNKNOWN" /\ e.src \in skip))
    BY <1>1, DefinitionUnfolds
  <1>3. g.edge[e] = "ACTIVE"
    BY <1>1, <1>2
  <1>4. \A d \in In(Definition, n) : d \in Edges
    BY DEF In, Edges
  <1> DEFINE r == Ready(Definition, g)
  <1>5. \A d \in Edges : r.edge[d] = IF d.src \in skip /\ g.edge[d] = "UNKNOWN" THEN "INACTIVE"
                                    ELSE g.edge[d]
    BY ReadyEdge
  <1> HIDE DEF r, skip
  <1>6. \A d \in In(Definition, n) : r.edge[d] # "UNKNOWN"
    BY <1>1, <1>4, <1>5
  <1>7. r.edge[e] = "ACTIVE"
    BY <1>3, <1>4, <1>5
  <1>8. Decided(r, n)
    BY <1>6, <1>7 DEF Decided
  <1> QED
    BY <1>8 DEF r

LEMMA ReadyRouted ==
    ASSUME NEW g \in GraphStates(Definition), Routed(g)
    PROVE  Routed(Ready(Definition, g))
  <1> DEFINE r == Ready(Definition, g)
             skip == Excluded(Definition, g)
  <1>1. \A e \in Edges : /\ r.edge[e] = "ACTIVE" <=> g.edge[e] = "ACTIVE"
                         /\ g.edge[e] # "UNKNOWN" => r.edge[e] = g.edge[e]
                         /\ r.edge[e] = "INACTIVE" => g.edge[e] = "INACTIVE" \/ e.src \in skip
    BY ReadyEdge
  <1>2. \A n \in Nodes : /\ n \in skip => r.node[n] = "SKIPPED"
                         /\ g.node[n] # "PENDING" => r.node[n] = g.node[n]
    BY ReadyNode, ReadyMoves
  <1>3. ASSUME NEW n \in Nodes, r.node[n] = "READY" PROVE Decided(r, n)
    <2>1. CASE Runnable(Definition, g, skip, n)
      BY <2>1, ReadyDecides
    <2>2. CASE g.node[n] = "READY"
      <3>1. \A e \in In(Definition, n) : e \in Edges
        BY DEF In, Edges
      <3>2. Decided(g, n)
        BY <2>2 DEF Routed
      <3> HIDE DEF r
      <3> QED
        BY <1>1, <3>1, <3>2 DEF Decided
    <2> QED
      BY <1>3, <2>1, <2>2, ReadyNode
  <1> HIDE DEF r
  <1>4. ASSUME NEW e \in Edges PROVE
              /\ r.edge[e] = "ACTIVE" => r.node[e.src] = "SUCCESS"
              /\ r.edge[e] = "INACTIVE" => r.node[e.src] \in {"SUCCESS", "SKIPPED"}
    <2>1. e.src \in Nodes
      BY EdgeEnds
    <2>2. /\ g.edge[e] = "ACTIVE" => g.node[e.src] = "SUCCESS"
          /\ g.edge[e] = "INACTIVE" => g.node[e.src] \in {"SUCCESS", "SKIPPED"}
      BY DEF Routed
    <2> QED
      BY <1>1, <1>2, <2>1, <2>2
  <1>5. \A e, f \in Edges : r.edge[e] = "ACTIVE" /\ r.edge[f] = "ACTIVE" /\ e.src = f.src
                            => e.port = f.port
    BY <1>1 DEF Routed
  <1>6. Routed(r)
    BY <1>3, <1>4, <1>5 DEF Routed
  <1> QED
    BY <1>6 DEF r

LEMMA InitializeRouted == Routed(Initialize(Definition, Root))
  <1> DEFINE g == Initialize(Definition, Root)
  <1>1. \A n \in Nodes : g.node[n] = IF n = Root THEN "SUCCESS"
                                    ELSE IF n \in Definition.triggers THEN "SKIPPED"
                                    ELSE "PENDING"
    BY DEF Initialize, Nodes
  <1>2. \A e \in Edges : g.edge[e] = IF e.src = Root THEN "ACTIVE"
                                    ELSE IF e.src \in Definition.triggers THEN "INACTIVE"
                                    ELSE "UNKNOWN"
    BY DEF Initialize, Edges
  <1>3. \A e \in Edges : e.src = Root => e.port = "none"
    BY DefinitionAssumption DEF WellFormed, Edges
  <1> HIDE DEF g
  <1>4. Routed(g)
    BY <1>1, <1>2, <1>3, EdgeEnds DEF Routed
  <1> QED
    BY <1>4 DEF g

-----------------------------------------------------------------------------
(* What each operation on the rows does to one node and one attempt.       *)
Open == {"PENDING", "READY", "RUNNING", "WAITING"}

LEMMA ImageShape ==
    ASSUME NEW img \in Image
    PROVE  /\ img.node \in [Nodes -> NodeStatus]
           /\ img.edge \in [Edges -> EdgeState]
           /\ img.tries \in [Nodes -> 0 .. MaxAttempts]
           /\ img.attempt \in [Nodes -> [1 .. MaxAttempts -> Attempt]]
           /\ img.next \subseteq Nodes
           /\ img.unknown \subseteq Nodes
  BY DEF Image

LEMMA FailedRows ==
    ASSUME NEW img \in Image
    PROVE  /\ FailedImage(img).edge = img.edge
           /\ FailedImage(img).tries = img.tries
           /\ FailedImage(img).unknown = img.unknown
           /\ \A n \in Nodes : FailedImage(img).node[n] =
                  IF img.node[n] \in Open THEN "FAILED" ELSE img.node[n]
           /\ \A n \in Nodes, k \in 1 .. MaxAttempts : FailedImage(img).attempt[n][k] =
                  IF img.attempt[n][k] = "RUNNING" THEN "FAILED" ELSE img.attempt[n][k]
  BY DEF FailedImage, Image, Open

LEMMA StoppedRows ==
    ASSUME NEW img \in Image
    PROVE  /\ StoppedImage(img).edge = img.edge
           /\ StoppedImage(img).tries = img.tries
           /\ StoppedImage(img).unknown = img.unknown
           /\ StoppedImage(img).attempt = img.attempt
           /\ \A n \in Nodes : StoppedImage(img).node[n] =
                  IF img.node[n] \in {"PENDING", "READY", "WAITING"} THEN "CANCELLED"
                  ELSE img.node[n]
  BY DEF StoppedImage, Image

LEMMA InterruptedRows ==
    ASSUME NEW img \in Image
    PROVE  /\ Interrupted(img).edge = img.edge
           /\ Interrupted(img).tries = img.tries
           /\ Interrupted(img).unknown =
                  img.unknown \union {n \in SideEffecting : n \in Nodes /\ img.node[n] = "RUNNING"}
           /\ \A n \in Nodes : Interrupted(img).node[n] =
                  IF img.node[n] # "RUNNING" THEN img.node[n]
                  ELSE IF n \notin SideEffecting /\ img.tries[n] < MaxAttempts THEN "WAITING"
                  ELSE "FAILED"
           /\ \A n \in Nodes, k \in 1 .. MaxAttempts : Interrupted(img).attempt[n][k] =
                  IF img.node[n] = "RUNNING" /\ k = img.tries[n] /\ img.attempt[n][k] = "RUNNING"
                  THEN "FAILED" ELSE img.attempt[n][k]
  BY DEF Interrupted, Image

LEMMA PromotedRows ==
    ASSUME NEW img \in Image
    PROVE  /\ Promoted(img).edge = img.edge
           /\ Promoted(img).tries = img.tries
           /\ Promoted(img).unknown = img.unknown
           /\ Promoted(img).attempt = img.attempt
           /\ \A n \in Nodes : \/ Promoted(img).node[n] = img.node[n]
                               \/ img.node[n] = "WAITING" /\ Promoted(img).node[n] = "PENDING"
  BY DEF Promoted, Image

LEMMA PlannedRows ==
    ASSUME NEW img \in Image
    PROVE  /\ Planned(img).node = Ready(Definition, [node |-> img.node, edge |-> img.edge]).node
           /\ Planned(img).edge = Ready(Definition, [node |-> img.node, edge |-> img.edge]).edge
           /\ Planned(img).tries = img.tries
           /\ Planned(img).unknown = img.unknown
           /\ Planned(img).attempt = img.attempt
  BY DEF Planned, Image

LEMMA InitialRows ==
    ASSUME NEW img \in Image
    PROVE  /\ InitialImage(img).node = Ready(Definition, Initialize(Definition, Root)).node
           /\ InitialImage(img).edge = Ready(Definition, Initialize(Definition, Root)).edge
           /\ InitialImage(img).tries = img.tries
           /\ InitialImage(img).unknown = img.unknown
           /\ InitialImage(img).attempt = img.attempt
  BY DEF InitialImage, Image

LEMMA StartedRows ==
    ASSUME NEW img \in Image, NEW S
    PROVE  /\ Started(img, S).edge = img.edge
           /\ Started(img, S).unknown = img.unknown
           /\ \A n \in Nodes : /\ Started(img, S).node[n] = IF n \in S THEN "RUNNING" ELSE img.node[n]
                               /\ Started(img, S).tries[n] = IF n \in S THEN img.tries[n] + 1
                                                             ELSE img.tries[n]
           /\ \A n \in Nodes, k \in 1 .. MaxAttempts : Started(img, S).attempt[n][k] =
                  IF n \in S /\ k = img.tries[n] + 1 THEN "RUNNING" ELSE img.attempt[n][k]
  BY DEF Started, Image

LEMMA CompletedRows ==
    ASSUME NEW img \in Image, NEW n \in Nodes, NEW outcome
    PROVE  /\ Completed(img, n, outcome).tries = img.tries
           /\ Completed(img, n, outcome).unknown = img.unknown
           /\ \A m \in Nodes : Completed(img, n, outcome).node[m] =
                  IF m # n THEN img.node[m]
                  ELSE IF outcome.kind = "ok" THEN "SUCCESS"
                  ELSE IF ShouldRetry(img, n, outcome.kind) THEN "WAITING"
                  ELSE "FAILED"
           /\ \A m \in Nodes, k \in 1 .. MaxAttempts : Completed(img, n, outcome).attempt[m][k] =
                  IF m # n \/ k # img.tries[n] THEN img.attempt[m][k]
                  ELSE IF outcome.kind = "ok" THEN "SUCCESS"
                  ELSE "FAILED"
           /\ \A e \in Edges : Completed(img, n, outcome).edge[e] =
                  IF outcome.kind # "ok" \/ e.src # n THEN img.edge[e]
                  ELSE IF e.port = outcome.port THEN "ACTIVE"
                  ELSE "INACTIVE"
  <1> DEFINE after == Completed(img, n, outcome)
             closed(s) == Closed(img, n, s)
  <1>1. \A s \in {"SUCCESS", "FAILED"}, m \in Nodes, k \in 1 .. MaxAttempts :
            closed(s)[m][k] = IF m = n /\ k = img.tries[n] THEN s ELSE img.attempt[m][k]
    BY DEF Closed, Image
  <1>2. CASE outcome.kind = "ok"
    <2> DEFINE graph == AfterSuccess(Definition, [node |-> img.node, edge |-> img.edge], n, outcome.port)
               next == img.next \ {n}
    <2>1. after = [img EXCEPT !.node = graph.node, !.edge = graph.edge,
                              !.attempt = closed("SUCCESS"), !.next = next]
      BY <1>2 DEF Completed, Image
    <2>2. /\ \A m \in Nodes : graph.node[m] = IF m = n THEN "SUCCESS" ELSE img.node[m]
          /\ \A e \in Edges : graph.edge[e] = IF e.src # n THEN img.edge[e]
                                              ELSE IF e.port = outcome.port THEN "ACTIVE"
                                              ELSE "INACTIVE"
      BY DEF AfterSuccess, Image, Edges
    <2> HIDE DEF graph, closed, next, after
    <2>3. /\ after.node = graph.node /\ after.edge = graph.edge
          /\ after.attempt = closed("SUCCESS")
          /\ after.tries = img.tries /\ after.unknown = img.unknown
      BY <2>1 DEF Image
    <2> QED
      BY <1>1, <1>2, <2>2, <2>3 DEF after
  <1>3. CASE outcome.kind # "ok"
    <2> DEFINE s == IF ShouldRetry(img, n, outcome.kind) THEN "WAITING" ELSE "FAILED"
               next == IF ShouldRetry(img, n, outcome.kind) THEN img.next \union {n} ELSE img.next \ {n}
               node == [img.node EXCEPT ![n] = s]
    <2>1. after = [img EXCEPT !.node = node, !.attempt = closed("FAILED"), !.next = next]
      BY <1>3 DEF Completed, Image
    <2>2. \A m \in Nodes : node[m] = IF m = n THEN s ELSE img.node[m]
      BY DEF Image
    <2> HIDE DEF node, closed, next, after
    <2>3. /\ after.node = node /\ after.edge = img.edge
          /\ after.attempt = closed("FAILED")
          /\ after.tries = img.tries /\ after.unknown = img.unknown
      BY <2>1 DEF Image
    <2> QED
      BY <1>1, <1>3, <2>2, <2>3 DEF after
  <1> QED
    BY <1>2, <1>3

-----------------------------------------------------------------------------
(* What every set of rows satisfies beyond Sound, the table's and every    *)
(* worker's: attempts and nodes agree, a node was called only along an     *)
(* open route, an unknown outcome is a failed attempt, and before the root *)
(* succeeds all nodes are where the root is.                               *)
Numbered(img) ==
    \A n \in Nodes :
        /\ img.node[n] = "RUNNING" => img.tries[n] > 0 /\ img.attempt[n][img.tries[n]] = "RUNNING"
        /\ img.node[n] = "WAITING" => img.tries[n] > 0
        /\ img.node[n] = "SUCCESS" /\ n # Root => img.tries[n] > 0
        /\ \A k \in 1 .. MaxAttempts :
              /\ img.attempt[n][k] = "RUNNING" => img.node[n] = "RUNNING" /\ k = img.tries[n]
              /\ k > img.tries[n] => img.attempt[n][k] = "NONE"

Called(img) == \A n \in Nodes : img.tries[n] > 0 => Decided(img, n)

Resting(img) ==
    /\ \A n \in img.unknown : img.node[n] = "FAILED" /\ img.tries[n] > 0
    /\ img.node[Root] # "SUCCESS" => \A n \in Nodes : img.node[n] = img.node[Root]

Tidy(img) == Numbered(img) /\ Routed(img) /\ Called(img) /\ Resting(img)

TidyImage == {img \in SoundImage : Tidy(img)}

(* Rows whose attempts agree with the nodes are not inconsistent.          *)
LEMMA NumberedIsConsistent ==
    ASSUME NEW img \in Image, Numbered(img)
    PROVE  ~Inconsistent(img)
  BY ImageShape DEF Numbered, Inconsistent

(* Routes stay what they are when edges are left alone and no node that    *)
(* succeeded or was skipped changes.                                       *)
LEMMA SameEdgesRouted ==
    ASSUME NEW g, NEW h, Routed(g), h.edge = g.edge,
           \A n \in Nodes : g.node[n] \in {"SUCCESS", "SKIPPED"} => h.node[n] = g.node[n],
           \A n \in Nodes : h.node[n] = "READY" => g.node[n] = "READY"
    PROVE  Routed(h)
  BY EdgeEnds DEF Routed, Decided

LEMMA SameEdgesCalled ==
    ASSUME NEW img, NEW after, Called(img), after.edge = img.edge, after.tries = img.tries
    PROVE  Called(after)
  BY DEF Called, Decided

(* Before the root succeeds no attempt was made.                           *)
LEMMA NothingStarted ==
    ASSUME NEW img \in TidyImage, img.node[Root] # "SUCCESS"
    PROVE  /\ img.unknown = {}
           /\ \A n \in Nodes : /\ img.tries[n] = 0
                               /\ img.node[n] \notin {"RUNNING", "WAITING"}
                               /\ \A k \in 1 .. MaxAttempts : img.attempt[n][k] = "NONE"
  <1>1. \A n \in Nodes : img.tries[n] = 0
    BY DEF TidyImage, SoundImage, Sound
  <1>2. img.unknown \subseteq Nodes
    BY DEF TidyImage, SoundImage, Image
  <1> QED
    BY <1>1, <1>2 DEF TidyImage, Tidy, Numbered, Resting

LEMMA EmptyImageTidy == EmptyImage \in TidyImage
  <1>1. EmptyImage \in SoundImage
    BY EmptyImageSound
  <1>2. Numbered(EmptyImage) /\ Routed(EmptyImage) /\ Called(EmptyImage) /\ Resting(EmptyImage)
    BY RootIsNode DEF EmptyImage, Numbered, Routed, Called, Resting
  <1> QED
    BY <1>1, <1>2 DEF TidyImage, Tidy

LEMMA FailedImageTidy ==
    ASSUME NEW img \in TidyImage
    PROVE  FailedImage(img) \in TidyImage
  <1> DEFINE after == FailedImage(img)
  <1>1. /\ img \in SoundImage /\ img \in Image
        /\ Numbered(img) /\ Routed(img) /\ Called(img) /\ Resting(img)
    BY DEF TidyImage, SoundImage, Tidy
  <1>2. after \in SoundImage
    BY <1>1, FailedImageSound
  <1>3. /\ after.edge = img.edge /\ after.tries = img.tries /\ after.unknown = img.unknown
        /\ \A n \in Nodes : after.node[n] = IF img.node[n] \in Open THEN "FAILED" ELSE img.node[n]
        /\ \A n \in Nodes, k \in 1 .. MaxAttempts : after.attempt[n][k] =
              IF img.attempt[n][k] = "RUNNING" THEN "FAILED" ELSE img.attempt[n][k]
    BY <1>1, FailedRows
  <1> HIDE DEF after
  <1>4. Numbered(after)
    BY <1>1, <1>3 DEF Numbered, Open
  <1>5. Routed(after) /\ Called(after)
    BY <1>1, <1>3, SameEdgesRouted, SameEdgesCalled DEF Open
  <1>6. Resting(after)
    BY <1>1, <1>3, RootIsNode, ImageShape DEF Resting, Open
  <1> QED
    BY <1>2, <1>4, <1>5, <1>6 DEF TidyImage, Tidy, after

LEMMA StoppedImageTidy ==
    ASSUME NEW img \in TidyImage
    PROVE  StoppedImage(img) \in TidyImage
  <1> DEFINE after == StoppedImage(img)
  <1>1. /\ img \in SoundImage /\ img \in Image
        /\ Numbered(img) /\ Routed(img) /\ Called(img) /\ Resting(img)
    BY DEF TidyImage, SoundImage, Tidy
  <1>2. after \in SoundImage
    BY <1>1, StoppedImageSound
  <1>3. /\ after.edge = img.edge /\ after.tries = img.tries /\ after.unknown = img.unknown
        /\ after.attempt = img.attempt
        /\ \A n \in Nodes : after.node[n] =
              IF img.node[n] \in {"PENDING", "READY", "WAITING"} THEN "CANCELLED" ELSE img.node[n]
    BY <1>1, StoppedRows
  <1> HIDE DEF after
  <1>4. Numbered(after)
    BY <1>1, <1>3 DEF Numbered
  <1>5. Routed(after) /\ Called(after)
    BY <1>1, <1>3, SameEdgesRouted, SameEdgesCalled
  <1>6. Resting(after)
    BY <1>1, <1>3, RootIsNode, ImageShape DEF Resting
  <1> QED
    BY <1>2, <1>4, <1>5, <1>6 DEF TidyImage, Tidy, after

LEMMA InterruptedTidy ==
    ASSUME NEW img \in TidyImage
    PROVE  /\ Interrupted(img) \in TidyImage
           /\ \A n \in Nodes : Interrupted(img).node[n] # "RUNNING"
  <1> DEFINE after == Interrupted(img)
  <1>1. /\ img \in SoundImage /\ img \in Image
        /\ Numbered(img) /\ Routed(img) /\ Called(img) /\ Resting(img)
    BY DEF TidyImage, SoundImage, Tidy
  <1>2. after \in SoundImage
    BY <1>1, InterruptedSound
  <1>3. /\ after.edge = img.edge /\ after.tries = img.tries
        /\ after.unknown =
              img.unknown \union {n \in SideEffecting : n \in Nodes /\ img.node[n] = "RUNNING"}
        /\ \A n \in Nodes : after.node[n] =
              IF img.node[n] # "RUNNING" THEN img.node[n]
              ELSE IF n \notin SideEffecting /\ img.tries[n] < MaxAttempts THEN "WAITING"
              ELSE "FAILED"
        /\ \A n \in Nodes, k \in 1 .. MaxAttempts : after.attempt[n][k] =
              IF img.node[n] = "RUNNING" /\ k = img.tries[n] /\ img.attempt[n][k] = "RUNNING"
              THEN "FAILED" ELSE img.attempt[n][k]
    BY <1>1, InterruptedRows
  <1> HIDE DEF after
  <1>4. Numbered(after)
    BY <1>1, <1>3 DEF Numbered
  <1>5. Routed(after) /\ Called(after)
    BY <1>1, <1>3, SameEdgesRouted, SameEdgesCalled
  <1>6. Resting(after)
    <2>1. \A n \in after.unknown : after.node[n] = "FAILED" /\ after.tries[n] > 0
      BY <1>1, <1>3, ImageShape DEF Resting, Numbered
    <2>2. CASE after.node[Root] = "SUCCESS"
      BY <2>1, <2>2 DEF Resting
    <2>3. CASE after.node[Root] # "SUCCESS"
      <3>1. img.node[Root] # "SUCCESS"
        BY <1>3, <2>3, RootIsNode
      <3>2. \A n \in Nodes : after.node[n] = img.node[n]
        BY <1>3, <3>1, NothingStarted
      <3> QED
        BY <1>1, <2>1, <3>2, RootIsNode DEF Resting
    <2> QED
      BY <2>2, <2>3
  <1>7. \A n \in Nodes : after.node[n] # "RUNNING"
    BY <1>3
  <1> QED
    BY <1>2, <1>4, <1>5, <1>6, <1>7 DEF TidyImage, Tidy, after

(* The first plan.                                                         *)
LEMMA InitialImageTidy ==
    ASSUME NEW img \in TidyImage, img.node[Root] # "SUCCESS"
    PROVE  /\ InitialImage(img) \in TidyImage
           /\ \A n \in Nodes : InitialImage(img).node[n] # "RUNNING"
  <1> DEFINE after == InitialImage(img)
             first == Initialize(Definition, Root)
             graph == Ready(Definition, first)
  <1>1. img \in SoundImage /\ img \in Image
    BY DEF TidyImage, SoundImage
  <1>2. after \in SoundImage /\ after.node[Root] = "SUCCESS"
    BY <1>1, InitialImageSound
  <1>3. /\ after.node = graph.node /\ after.edge = graph.edge
        /\ after.tries = img.tries /\ after.unknown = img.unknown /\ after.attempt = img.attempt
    BY <1>1, InitialRows
  <1>4. /\ img.unknown = {}
        /\ \A n \in Nodes : img.tries[n] = 0
        /\ \A n \in Nodes, k \in 1 .. MaxAttempts : img.attempt[n][k] = "NONE"
    BY NothingStarted
  <1>5. Routed(graph)
    BY InitializeType, InitializeRouted, ReadyRouted
  <1>6. \A n \in Nodes : /\ n # Root => graph.node[n] \in {"PENDING", "READY", "SKIPPED"}
                         /\ graph.node[n] # "RUNNING"
    <2> TAKE n \in Nodes
    <2>1. first.node[n] \in {"SUCCESS", "SKIPPED", "PENDING"} /\ (n # Root => first.node[n] # "SUCCESS")
      BY DEF Initialize, Nodes
    <2> HIDE DEF first
    <2>2. \/ graph.node[n] = first.node[n]
          \/ graph.node[n] \in {"READY", "SKIPPED"}
      BY InitializeType, ReadyMoves DEF first
    <2> QED
      BY <2>1, <2>2
  <1> HIDE DEF after, graph, first
  <1>7. Numbered(after)
    BY <1>2, <1>3, <1>4, <1>6 DEF Numbered
  <1>8. Routed(after)
    BY <1>3, <1>5 DEF Routed, Decided
  <1>9. Called(after) /\ Resting(after)
    BY <1>2, <1>3, <1>4 DEF Called, Resting
  <1> QED
    BY <1>2, <1>3, <1>6, <1>7, <1>8, <1>9 DEF TidyImage, Tidy, after

LEMMA PromotedTidy ==
    ASSUME NEW img \in TidyImage
    PROVE  Promoted(img) \in TidyImage
  <1> DEFINE after == Promoted(img)
  <1>1. /\ img \in SoundImage /\ img \in Image
        /\ Numbered(img) /\ Routed(img) /\ Called(img) /\ Resting(img)
    BY DEF TidyImage, SoundImage, Tidy
  <1>2. after \in SoundImage
    BY <1>1, PromotedSound
  <1>3. /\ after.edge = img.edge /\ after.tries = img.tries /\ after.unknown = img.unknown
        /\ after.attempt = img.attempt
        /\ \A n \in Nodes : \/ after.node[n] = img.node[n]
                            \/ img.node[n] = "WAITING" /\ after.node[n] = "PENDING"
    BY <1>1, PromotedRows
  <1> HIDE DEF after
  <1>4. Numbered(after)
    BY <1>1, <1>3 DEF Numbered
  <1>5. Routed(after) /\ Called(after)
    BY <1>1, <1>3, SameEdgesRouted, SameEdgesCalled
  <1>6. Resting(after)
    <2>1. \A n \in after.unknown : after.node[n] = "FAILED" /\ after.tries[n] > 0
      BY <1>1, <1>3, ImageShape DEF Resting
    <2>2. CASE img.node[Root] = "SUCCESS"
      BY <1>3, <2>1, <2>2, RootIsNode DEF Resting
    <2>3. CASE img.node[Root] # "SUCCESS"
      <3>1. \A n \in Nodes : after.node[n] = img.node[n]
        BY <1>3, <2>3, NothingStarted
      <3> QED
        BY <1>1, <2>1, <3>1, RootIsNode DEF Resting
    <2> QED
      BY <2>2, <2>3
  <1> QED
    BY <1>2, <1>4, <1>5, <1>6 DEF TidyImage, Tidy, after

LEMMA PlannedTidy ==
    ASSUME NEW img \in TidyImage, img.node[Root] = "SUCCESS"
    PROVE  Planned(img) \in TidyImage
  <1> DEFINE after == Planned(img)
             before == [node |-> img.node, edge |-> img.edge]
             graph == Ready(Definition, before)
  <1>1. /\ img \in SoundImage /\ img \in Image
        /\ Numbered(img) /\ Routed(img) /\ Called(img) /\ Resting(img)
    BY DEF TidyImage, SoundImage, Tidy
  <1>2. after \in SoundImage /\ after.node[Root] = "SUCCESS"
    BY <1>1, PlannedSound
  <1>3. /\ after.node = graph.node /\ after.edge = graph.edge
        /\ after.tries = img.tries /\ after.unknown = img.unknown /\ after.attempt = img.attempt
    BY <1>1, PlannedRows
  <1>4. before \in GraphStates(Definition) /\ Routed(before)
    BY <1>1, ImageShape DEF GraphStates, Nodes, Edges, Routed, Decided
  <1>5. Routed(graph)
    BY <1>4, ReadyRouted
  <1>6. \A n \in Nodes : \/ graph.node[n] = img.node[n]
                         \/ img.node[n] = "PENDING" /\ graph.node[n] \in {"READY", "SKIPPED"}
    BY <1>4, ReadyMoves
  <1>7. \A e \in Edges : img.edge[e] # "UNKNOWN" => graph.edge[e] = img.edge[e]
    BY ReadyEdge
  <1> HIDE DEF after, graph, before
  <1>8. Numbered(after)
    BY <1>1, <1>3, <1>6 DEF Numbered
  <1>9. Routed(after)
    BY <1>3, <1>5 DEF Routed, Decided
  <1>10. Called(after)
    <2>1. \A n \in Nodes : \A e \in In(Definition, n) : e \in Edges
      BY DEF In, Edges
    <2> QED
      BY <1>1, <1>3, <1>7, <2>1 DEF Called, Decided
  <1>11. Resting(after)
    BY <1>1, <1>2, <1>3, <1>6, ImageShape DEF Resting
  <1> QED
    BY <1>2, <1>8, <1>9, <1>10, <1>11 DEF TidyImage, Tidy, after

LEMMA StartedTidy ==
    ASSUME NEW img \in TidyImage, img.node[Root] = "SUCCESS",
           NEW S, S \subseteq {n \in Nodes : img.node[n] = "READY"}
    PROVE  Started(img, S) \in TidyImage
  <1> DEFINE after == Started(img, S)
  <1>1. /\ img \in SoundImage /\ img \in Image
        /\ Numbered(img) /\ Routed(img) /\ Called(img) /\ Resting(img)
    BY DEF TidyImage, SoundImage, Tidy
  <1>2. after \in SoundImage /\ after.node[Root] = "SUCCESS"
    BY <1>1, StartedSound
  <1>3. /\ after.edge = img.edge /\ after.unknown = img.unknown
        /\ \A n \in Nodes : /\ after.node[n] = IF n \in S THEN "RUNNING" ELSE img.node[n]
                            /\ after.tries[n] = IF n \in S THEN img.tries[n] + 1 ELSE img.tries[n]
        /\ \A n \in Nodes, k \in 1 .. MaxAttempts : after.attempt[n][k] =
              IF n \in S /\ k = img.tries[n] + 1 THEN "RUNNING" ELSE img.attempt[n][k]
    BY <1>1, StartedRows
  <1>4. \A n \in Nodes : img.tries[n] \in 0 .. MaxAttempts /\ (n \in S => img.tries[n] < MaxAttempts)
    BY <1>1, ImageShape DEF SoundImage, Sound
  <1>5. \A n \in S : n \in Nodes /\ img.node[n] = "READY"
    OBVIOUS
  <1> HIDE DEF after
  <1>6. Numbered(after)
    <2> SUFFICES ASSUME NEW n \in Nodes
                 PROVE  /\ after.node[n] = "RUNNING" =>
                              after.tries[n] > 0 /\ after.attempt[n][after.tries[n]] = "RUNNING"
                        /\ after.node[n] = "WAITING" => after.tries[n] > 0
                        /\ after.node[n] = "SUCCESS" /\ n # Root => after.tries[n] > 0
                        /\ \A k \in 1 .. MaxAttempts :
                              /\ after.attempt[n][k] = "RUNNING" =>
                                    after.node[n] = "RUNNING" /\ k = after.tries[n]
                              /\ k > after.tries[n] => after.attempt[n][k] = "NONE"
      BY DEF Numbered
    <2>1. CASE n \in S
      <3>1. img.tries[n] + 1 \in 1 .. MaxAttempts /\ img.tries[n] \in Nat
        BY <1>4, <2>1, BoundsAssumption
      <3>2. /\ after.node[n] = "RUNNING" /\ after.tries[n] = img.tries[n] + 1
            /\ after.attempt[n][img.tries[n] + 1] = "RUNNING"
        BY <1>3, <2>1, <3>1
      <3>3. \A k \in 1 .. MaxAttempts : k # img.tries[n] + 1 =>
                 after.attempt[n][k] = img.attempt[n][k] /\ img.attempt[n][k] # "RUNNING"
        BY <1>1, <1>3, <1>5, <2>1 DEF Numbered
      <3>4. \A k \in 1 .. MaxAttempts : k > img.tries[n] + 1 => after.attempt[n][k] = "NONE"
        BY <1>1, <3>1, <3>3 DEF Numbered
      <3> QED
        BY <3>1, <3>2, <3>3, <3>4
    <2>2. CASE n \notin S
      BY <1>1, <1>3, <2>2, <1>4 DEF Numbered
    <2> QED
      BY <2>1, <2>2
  <1>7. Routed(after)
    BY <1>1, <1>3, <1>5, SameEdgesRouted
  <1>8. Called(after)
    BY <1>1, <1>3, <1>5 DEF Called, Routed, Decided
  <1>9. Resting(after)
    BY <1>1, <1>2, <1>3, <1>5, ImageShape DEF Resting
  <1> QED
    BY <1>2, <1>6, <1>7, <1>8, <1>9 DEF TidyImage, Tidy, after

LEMMA CompletedTidy ==
    ASSUME NEW img \in TidyImage, img.node[Root] = "SUCCESS",
           NEW n \in Nodes, img.node[n] = "RUNNING", NEW outcome
    PROVE  Completed(img, n, outcome) \in TidyImage
  <1> DEFINE after == Completed(img, n, outcome)
  <1>1. /\ img \in SoundImage /\ img \in Image
        /\ Numbered(img) /\ Routed(img) /\ Called(img) /\ Resting(img)
    BY DEF TidyImage, SoundImage, Tidy
  <1>2. after \in SoundImage /\ after.node[Root] = "SUCCESS"
    BY <1>1, CompletedSound
  <1>3. after.tries = img.tries /\ after.unknown = img.unknown
    BY <1>1, CompletedRows
  <1>4. \A m \in Nodes : after.node[m] = IF m # n THEN img.node[m]
                                         ELSE IF outcome.kind = "ok" THEN "SUCCESS"
                                         ELSE IF ShouldRetry(img, n, outcome.kind) THEN "WAITING"
                                         ELSE "FAILED"
    BY <1>1, CompletedRows
  <1>5. \A m \in Nodes, k \in 1 .. MaxAttempts :
            after.attempt[m][k] = IF m # n \/ k # img.tries[n] THEN img.attempt[m][k]
                                  ELSE IF outcome.kind = "ok" THEN "SUCCESS" ELSE "FAILED"
    BY <1>1, CompletedRows
  <1>6. \A e \in Edges : IF outcome.kind # "ok" \/ e.src # n THEN after.edge[e] = img.edge[e]
                         ELSE IF e.port = outcome.port THEN after.edge[e] = "ACTIVE"
                         ELSE after.edge[e] = "INACTIVE"
    BY <1>1, CompletedRows
  <1> HIDE DEF after
  <1>7. Numbered(after)
    <2> SUFFICES ASSUME NEW m \in Nodes
                 PROVE  /\ after.node[m] = "RUNNING" =>
                              after.tries[m] > 0 /\ after.attempt[m][after.tries[m]] = "RUNNING"
                        /\ after.node[m] = "WAITING" => after.tries[m] > 0
                        /\ after.node[m] = "SUCCESS" /\ m # Root => after.tries[m] > 0
                        /\ \A k \in 1 .. MaxAttempts :
                              /\ after.attempt[m][k] = "RUNNING" => after.node[m] = "RUNNING" /\ k = after.tries[m]
                              /\ k > after.tries[m] => after.attempt[m][k] = "NONE"
      BY DEF Numbered
    <2>1. img.tries[m] \in 0 .. MaxAttempts /\ MaxAttempts \in Nat
      BY <1>1, ImageShape, BoundsAssumption
    <2>2. CASE m # n
      <3>1. after.node[m] = img.node[m] /\ after.tries[m] = img.tries[m]
        BY <1>3, <1>4, <2>2
      <3>2. \A k \in 1 .. MaxAttempts : after.attempt[m][k] = img.attempt[m][k]
        BY <1>5, <2>2
      <3> QED
        BY <1>1, <2>1, <3>1, <3>2 DEF Numbered
    <2>3. CASE m = n
      <3>1. after.node[m] # "RUNNING" /\ after.tries[m] = img.tries[m] /\ img.tries[m] > 0
        BY <1>1, <1>3, <1>4, <2>3 DEF Numbered
      <3>2. ASSUME NEW k \in 1 .. MaxAttempts
            PROVE  after.attempt[m][k] # "RUNNING" /\ (k > after.tries[m] => after.attempt[m][k] = "NONE")
        <4>1. CASE k = img.tries[m]
          BY <1>5, <2>1, <2>3, <3>1, <4>1
        <4>2. CASE k # img.tries[m]
          <5>1. after.attempt[m][k] = img.attempt[m][k]
            BY <1>5, <2>3, <4>2
          <5> QED
            BY <1>1, <2>3, <3>1, <4>2, <5>1 DEF Numbered
        <4> QED
          BY <4>1, <4>2
      <3> QED
        BY <3>1, <3>2
    <2> QED
      BY <2>2, <2>3
  <1>8. \A e \in Edges : img.edge[e] # "UNKNOWN" => e.src # n
    BY <1>1, EdgeEnds, ImageShape DEF Routed, EdgeState
  <1>9. \A m \in Nodes : Decided(img, m) => Decided(after, m)
    <2>1. \A m \in Nodes : \A e \in In(Definition, m) : e \in Edges
      BY DEF In, Edges
    <2> QED
      BY <1>6, <1>8, <2>1 DEF Decided
  <1>10. Routed(after)
    <2>1. \A e, f \in Edges : after.edge[e] = "ACTIVE" /\ after.edge[f] = "ACTIVE" /\ e.src = f.src
                              => e.port = f.port
      BY <1>1, <1>6 DEF Routed
    <2>2. \A e \in Edges : /\ after.edge[e] = "ACTIVE" => after.node[e.src] = "SUCCESS"
                           /\ after.edge[e] = "INACTIVE" => after.node[e.src] \in {"SUCCESS", "SKIPPED"}
      <3> TAKE e \in Edges
      <3>1. e.src \in Nodes
        BY EdgeEnds
      <3>2. CASE e.src = n
        BY <1>4, <1>6, <1>8, <3>1, <3>2
      <3>3. CASE e.src # n
        BY <1>1, <1>4, <1>6, <3>1, <3>3 DEF Routed
      <3> QED
        BY <3>2, <3>3
    <2>3. \A m \in Nodes : after.node[m] = "READY" => Decided(after, m)
      BY <1>1, <1>4, <1>9 DEF Routed
    <2> QED
      BY <2>1, <2>2, <2>3 DEF Routed
  <1>11. Called(after)
    BY <1>1, <1>3, <1>9 DEF Called
  <1>12. Resting(after)
    BY <1>1, <1>2, <1>3, <1>4, ImageShape DEF Resting
  <1> QED
    BY <1>2, <1>7, <1>10, <1>11, <1>12 DEF TidyImage, Tidy, after

-----------------------------------------------------------------------------
(* The loop: the calls of a worker are nodes its copy says are RUNNING,    *)
(* all of them unless a shutdown fell between the commit of a start and    *)
(* its submission; a worker that saw an unknown outcome stops as a         *)
(* failure, and one that is to start nodes is not stopping.                *)
RunningNodes(img) == {n \in Nodes : img.node[n] = "RUNNING"}

InLoop == {"turn", "schedule", "settle"}

AllSubmitted(w) ==
    \/ futures[w] = RunningNodes(mem[w])
    \/ ~accepting[Process[w]] /\ (pc[w] = "turn" \/ (pc[w] = "settle" /\ ~Stopping(job[w])))

LoopInv(w) ==
    /\ pc[w] \in {"idle", "claimed", "init"} => futures[w] = {}
    /\ pc[w] \in {"claimed", "init", "schedule"} => ~Stopping(job[w])
    /\ pc[w] \in InLoop =>
          /\ futures[w] \subseteq RunningNodes(mem[w])
          /\ AllSubmitted(w)
          /\ mem[w].unknown # {} => job[w].failureSeen /\ ~job[w].cancelSeen
    /\ \A c \in done[w] : c.node \in futures[w]
    /\ \A c, d \in done[w] : c.node = d.node => c = d

LoopsInv == \A w \in Workers : LoopInv(w)

ImagesInv == saved \in TidyImage /\ mem \in [Workers -> TidyImage]

(* A queued run's rows are as admission wrote them, a run that goes on has *)
(* a root that is decided or not yet, and a claim leaves nothing RUNNING.  *)
RunInv ==
    /\ run.status = "QUEUED" => saved = EmptyImage
    /\ run.status \notin Terminal => saved.node[Root] \in {"PENDING", "SUCCESS"}
    /\ \A w \in Workers : Fenced(w) /\ pc[w] = "claimed" => RunningNodes(saved) = {}

(* A step of one thread leaves the others alone.                           *)
Own(w) ==
    /\ accepting' = accepting
    /\ \A v \in Workers \ {w} : /\ pc'[v] = pc[v] /\ job'[v] = job[v] /\ mem'[v] = mem[v]
                                /\ futures'[v] = futures[v] /\ done'[v] = done[v]

LEMMA OwnLoops ==
    ASSUME LoopsInv, NEW w \in Workers, Own(w), LoopInv(w)'
    PROVE  LoopsInv'
  <1> SUFFICES ASSUME NEW v \in Workers, v # w PROVE LoopInv(v)'
    BY DEF LoopsInv
  <1>1. /\ pc'[v] = pc[v] /\ job'[v] = job[v] /\ mem'[v] = mem[v] /\ accepting' = accepting
        /\ futures'[v] = futures[v] /\ done'[v] = done[v]
    BY DEF Own
  <1>2. LoopInv(v)
    BY DEF LoopsInv
  <1> QED
    BY <1>1, <1>2 DEF LoopInv, AllSubmitted

LEMMA EndLoopRows ==
    ASSUME TypeInv, ImagesInv, LoopsInv, NEW w \in Workers, EndLoop(w)
    PROVE  ImagesInv' /\ LoopsInv'
  <1>1. ImagesInv'
    BY DEF EndLoop, ImagesInv, runVars
  <1>2. Own(w)
    BY DEF EndLoop, Own, TypeInv, ThreadsInv
  <1>3. pc'[w] = "exit" /\ UNCHANGED <<job, mem, futures, done>>
    BY DEF EndLoop, TypeInv, ThreadsInv
  <1>4. LoopInv(w)'
    BY <1>3 DEF LoopsInv, LoopInv, InLoop
  <1> QED
    BY <1>1, <1>2, <1>4, OwnLoops

(* Threads that forget the run have no calls.                              *)
LEMMA ForgetRows ==
    ASSUME TypeInv, ImagesInv, LoopsInv, NEW W \in SUBSET Workers, Forget(W), UNCHANGED saved,
           \A w \in Workers \ W : accepting'[Process[w]] = accepting[Process[w]]
    PROVE  ImagesInv' /\ LoopsInv'
  <1>1. ImagesInv'
    BY EmptyImageTidy DEF Forget, ImagesInv
  <1>2. ASSUME NEW w \in W PROVE LoopInv(w)'
    <2>1. pc'[w] = "idle" /\ futures'[w] = {} /\ done'[w] = {}
      BY <1>2 DEF Forget
    <2> QED
      BY <2>1 DEF LoopInv, InLoop
  <1>3. ASSUME NEW w \in Workers \ W PROVE LoopInv(w)'
    <2>1. /\ pc'[w] = pc[w] /\ job'[w] = job[w] /\ mem'[w] = mem[w]
          /\ futures'[w] = futures[w] /\ done'[w] = done[w]
      BY <1>3 DEF Forget
    <2>2. LoopInv(w)
      BY DEF LoopsInv
    <2> QED
      BY <2>1, <2>2 DEF LoopInv, AllSubmitted
  <1> QED
    BY <1>1, <1>2, <1>3 DEF LoopsInv

(* A claim.                                                                *)
LEMMA ClaimRows ==
    ASSUME TypeInv, ImagesInv, LoopsInv, NEW w \in Workers, Claim(w)
    PROVE  ImagesInv' /\ LoopsInv'
  <1>1. saved' \in {saved, FailedImage(saved), Interrupted(saved)} /\ mem' = mem
    BY DEF Claim, ClaimFailsLegacy, ClaimExhausts, ClaimGranted
  <1>2. ImagesInv'
    BY <1>1, FailedImageTidy, InterruptedTidy DEF ImagesInv
  <1>3. CASE ClaimFailsLegacy(w) \/ ClaimExhausts(w)
    <2>1. UNCHANGED <<accepting, pc, job, mem, futures, done>>
      BY <1>3 DEF ClaimFailsLegacy, ClaimExhausts
    <2> QED
      BY <1>2, <2>1 DEF LoopsInv, LoopInv, AllSubmitted
  <1>4. CASE ClaimGranted(w)
    <2>1. Own(w)
      BY <1>4 DEF ClaimGranted, Own, TypeInv, ThreadsInv
    <2>2. /\ pc[w] = "idle" /\ pc'[w] = "claimed" /\ UNCHANGED <<futures, done>>
          /\ ~job'[w].failureSeen /\ ~job'[w].cancelSeen
      BY <1>4 DEF ClaimGranted, Claimable, NoJob, TypeInv, ThreadsInv
    <2>3. LoopInv(w)'
      BY <2>2 DEF LoopsInv, LoopInv, InLoop, Stopping
    <2> QED
      BY <1>2, <2>1, <2>3, OwnLoops
  <1> QED
    BY <1>3, <1>4 DEF Claim

(* The rows are loaded.                                                    *)
LEMMA LoadRows ==
    ASSUME TypeInv, ImagesInv, LoopsInv, RunInv, NEW w \in Workers, Load(w)
    PROVE  ImagesInv' /\ LoopsInv'
  <1>1. ImagesInv'
    BY DEF Load, ImagesInv, runVars
  <1>2. Own(w)
    BY DEF Load, Own, TypeInv, ThreadsInv
  <1>3. /\ pc[w] = "claimed" /\ UNCHANGED <<futures, done>>
        /\ futures[w] = {} /\ ~Stopping(job[w]) /\ done[w] = {}
    BY DEF Load, LoopsInv, LoopInv
  <1>4. CASE ~Fenced(w)
    <2>1. pc'[w] = "exit"
      BY <1>4 DEF Load, TypeInv, ThreadsInv
    <2>2. LoopInv(w)'
      BY <1>3, <2>1 DEF LoopInv, InLoop
    <2> QED
      BY <1>1, <1>2, <2>2, OwnLoops
  <1>5. CASE Fenced(w) /\ saved.node[Root] # "SUCCESS"
    <2>1. pc'[w] = "init" /\ job' = job
      BY <1>5 DEF Load, TypeInv, ThreadsInv
    <2>2. LoopInv(w)'
      BY <1>3, <2>1 DEF LoopInv, InLoop, Stopping
    <2> QED
      BY <1>1, <1>2, <2>2, OwnLoops
  <1>6. CASE Fenced(w) /\ saved.node[Root] = "SUCCESS"
    <2> DEFINE failed == HasFailedNode(saved)
    <2>1. pc'[w] = "turn" /\ mem'[w] = saved /\ job' = [job EXCEPT ![w].failureSeen = failed]
      BY <1>6 DEF Load, TypeInv, ThreadsInv
    <2>2. RunningNodes(saved) = {}
      BY <1>3, <1>6 DEF RunInv
    <2>3. saved.unknown # {} => failed
      BY DEF ImagesInv, TidyImage, Tidy, Resting, SoundImage, Image, HasFailedNode
    <2> HIDE DEF failed
    <2>4. job'[w].failureSeen = failed /\ job'[w].cancelSeen = job[w].cancelSeen
      BY <2>1 DEF TypeInv, ThreadsInv, Jobs
    <2>5. LoopInv(w)'
      BY <1>3, <2>1, <2>2, <2>3, <2>4 DEF LoopInv, InLoop, Stopping, AllSubmitted
    <2> QED
      BY <1>1, <1>2, <2>5, OwnLoops
  <1> QED
    BY <1>4, <1>5, <1>6

(* What an accepted commit of tidy rows leaves.                            *)
LEMMA CommitTidy ==
    ASSUME ImagesInv, NEW w \in Workers, NEW img \in TidyImage, NEW status,
           CommitAccepted(w, img, status), mem' = [mem EXCEPT ![w] = img]
    PROVE  ImagesInv'
  BY DEF CommitAccepted, ImagesInv

(* The root is decided.                                                    *)
LEMMA InitializeRunRows ==
    ASSUME TypeInv, ImagesInv, LoopsInv, NEW w \in Workers, InitializeRun(w)
    PROVE  ImagesInv' /\ LoopsInv'
  <1> DEFINE img == InitialImage(mem[w])
  <1>1. mem[w] \in TidyImage /\ mem[w].node[Root] # "SUCCESS" /\ pc[w] = "init"
    BY DEF InitializeRun, ImagesInv, TypeInv, ThreadsInv
  <1>2. img \in TidyImage /\ RunningNodes(img) = {} /\ img.unknown = {}
    <2>1. mem[w] \in Image
      BY <1>1 DEF TidyImage, SoundImage
    <2> QED
      BY <1>1, <2>1, InitialImageTidy, InitialRows, NothingStarted DEF RunningNodes
  <1>3. \/ CommitRefused(w, img)
        \/ /\ CommitAccepted(w, img, "RUNNING")
           /\ mem' = [mem EXCEPT ![w] = img]
           /\ pc' = [pc EXCEPT ![w] = "turn"]
           /\ UNCHANGED <<accepting, job, futures, done, callVars>>
    BY DEF InitializeRun
  <1> HIDE DEF img
  <1>4. CASE CommitRefused(w, img)
    BY <1>4, EndLoopRows DEF CommitRefused
  <1>5. CASE ~CommitRefused(w, img)
    <2>1. ImagesInv'
      BY <1>2, <1>3, <1>5, CommitTidy
    <2>2. Own(w)
      BY <1>3, <1>5 DEF Own, TypeInv, ThreadsInv
    <2>3. mem'[w] = img /\ pc'[w] = "turn" /\ UNCHANGED <<accepting, job, futures, done>>
      BY <1>3, <1>5 DEF TypeInv, ThreadsInv
    <2>4. LoopInv(w)'
      BY <1>1, <1>2, <2>3 DEF LoopsInv, LoopInv, InLoop, AllSubmitted
    <2> QED
      BY <2>1, <2>2, <2>4, OwnLoops
  <1> QED
    BY <1>4, <1>5

(* A turn plans without touching what runs.                                *)
LEMMA PlanKeepsCalls ==
    ASSUME NEW img \in TidyImage, img.node[Root] = "SUCCESS"
    PROVE  /\ Planned(Promoted(img)) \in TidyImage
           /\ RunningNodes(Planned(Promoted(img))) = RunningNodes(img)
           /\ Planned(Promoted(img)).unknown = img.unknown
  <1> DEFINE mid == Promoted(img)
             before == [node |-> mid.node, edge |-> mid.edge]
  <1>1. /\ mid \in TidyImage /\ mid \in SoundImage /\ mid \in Image /\ mid.node[Root] = "SUCCESS"
        /\ img \in Image
    BY PromotedTidy, PromotedSound DEF TidyImage, SoundImage
  <1>2. /\ mid.unknown = img.unknown
        /\ \A n \in Nodes : \/ mid.node[n] = img.node[n]
                            \/ img.node[n] = "WAITING" /\ mid.node[n] = "PENDING"
    BY <1>1, PromotedRows
  <1> HIDE DEF mid
  <1>3. Planned(mid) \in TidyImage /\ Planned(mid).unknown = mid.unknown
    BY <1>1, PlannedTidy, PlannedRows
  <1>4. \A n \in Nodes : \/ Planned(mid).node[n] = mid.node[n]
                         \/ mid.node[n] = "PENDING" /\ Planned(mid).node[n] \in {"READY", "SKIPPED"}
    <2>1. before \in GraphStates(Definition) /\ before.node = mid.node
      BY <1>1, ImageShape DEF GraphStates, Nodes, Edges
    <2>2. Planned(mid).node = Ready(Definition, before).node
      BY <1>1, PlannedRows
    <2> HIDE DEF before
    <2> QED
      BY <2>1, <2>2, ReadyMoves
  <1>5. RunningNodes(Planned(mid)) = RunningNodes(img)
    BY <1>2, <1>4 DEF RunningNodes
  <1> QED
    BY <1>2, <1>3, <1>5 DEF mid

LEMMA TurnRows ==
    ASSUME TypeInv, ImagesInv, LoopsInv, NEW w \in Workers, Turn(w)
    PROVE  ImagesInv' /\ LoopsInv'
  <1> DEFINE flag == job[w].cancelSeen \/ (~job[w].failureSeen /\ run.cancel)
             seen == [job[w] EXCEPT !.cancelSeen = @ \/ (~job[w].failureSeen /\ run.cancel)]
             img  == IF Stopping(seen) THEN mem[w] ELSE Planned(Promoted(mem[w]))
  <1>1. /\ mem[w] \in TidyImage /\ mem[w].node[Root] = "SUCCESS"
        /\ pc[w] = "turn" /\ accepting[Process[w]]
    BY DEF Turn, ImagesInv, TypeInv, ThreadsInv
  <1>2. /\ img \in TidyImage /\ RunningNodes(img) = RunningNodes(mem[w])
        /\ img.unknown = mem[w].unknown
    BY <1>1, PlanKeepsCalls
  <1>3. job[w] \in Jobs /\ seen = [job[w] EXCEPT !.cancelSeen = flag]
    BY DEF TypeInv, ThreadsInv
  <1>4. \/ CommitRefused(w, img)
        \/ /\ CommitAccepted(w, img, "RUNNING")
           /\ job' = [job EXCEPT ![w] = seen]
           /\ mem' = [mem EXCEPT ![w] = img]
           /\ pc' = [pc EXCEPT ![w] = IF Stopping(seen) THEN "settle" ELSE "schedule"]
           /\ UNCHANGED <<accepting, futures, done, callVars>>
    BY DEF Turn
  <1>5. flag => job[w].cancelSeen \/ ~job[w].failureSeen
    OBVIOUS
  <1> HIDE DEF img, seen, flag
  <1>6. CASE CommitRefused(w, img)
    BY <1>6, EndLoopRows DEF CommitRefused
  <1>7. CASE ~CommitRefused(w, img)
    <2>1. ImagesInv'
      BY <1>2, <1>4, <1>7, CommitTidy
    <2>2. Own(w)
      BY <1>4, <1>7 DEF Own, TypeInv, ThreadsInv
    <2>3. /\ mem'[w] = img /\ job'[w] = seen /\ UNCHANGED <<accepting, futures, done>>
          /\ pc'[w] = IF Stopping(seen) THEN "settle" ELSE "schedule"
      BY <1>4, <1>7 DEF TypeInv, ThreadsInv
    <2>4. seen.failureSeen = job[w].failureSeen /\ seen.cancelSeen = flag
      BY <1>3 DEF Jobs
    <2>5. LoopInv(w)
      BY DEF LoopsInv
    <2>6. futures[w] = RunningNodes(mem[w])
      BY <1>1, <2>5 DEF LoopInv, InLoop, AllSubmitted
    <2>7. img.unknown # {} => seen.failureSeen /\ ~seen.cancelSeen
      BY <1>1, <1>2, <1>5, <2>4, <2>5 DEF LoopInv, InLoop
    <2>8. LoopInv(w)'
      BY <1>2, <2>3, <2>5, <2>6, <2>7 DEF LoopInv, InLoop, AllSubmitted
    <2> QED
      BY <2>1, <2>2, <2>8, OwnLoops
  <1> QED
    BY <1>6, <1>7

(* Nodes are started: a shutdown may keep the calls from being submitted.  *)
LEMMA ScheduleReadyRows ==
    ASSUME TypeInv, ImagesInv, LoopsInv, NEW w \in Workers, ScheduleReady(w)
    PROVE  ImagesInv' /\ LoopsInv'
  <1>1. /\ mem[w] \in TidyImage /\ mem[w] \in Image
        /\ mem[w].node[Root] = "SUCCESS" /\ pc[w] = "schedule"
    BY DEF ScheduleReady, ImagesInv, TypeInv, ThreadsInv, TidyImage, SoundImage
  <1>2. PICK S \in SUBSET {n \in Nodes : mem[w].node[n] = "READY"} :
            \/ CommitRefused(w, Started(mem[w], S))
            \/ /\ CommitAccepted(w, Started(mem[w], S), "RUNNING")
               /\ mem' = [mem EXCEPT ![w] = Started(mem[w], S)]
               /\ futures' = [futures EXCEPT ![w] = IF accepting[Process[w]] THEN @ \union S ELSE @]
               /\ pc' = [pc EXCEPT ![w] = "settle"]
               /\ UNCHANGED <<accepting, job, done, callVars>>
    BY DEF ScheduleReady
  <1> DEFINE img == Started(mem[w], S)
  <1>3. img \in TidyImage /\ img.unknown = mem[w].unknown
    BY <1>1, StartedTidy, StartedRows
  <1>4. RunningNodes(img) = RunningNodes(mem[w]) \union S
    <2>1. \A n \in Nodes : img.node[n] = IF n \in S THEN "RUNNING" ELSE mem[w].node[n]
      BY <1>1, StartedRows
    <2> QED
      BY <2>1 DEF RunningNodes
  <1> HIDE DEF img
  <1>5. CASE CommitRefused(w, img)
    BY <1>5, EndLoopRows DEF CommitRefused
  <1>6. CASE ~CommitRefused(w, img)
    <2>1. ImagesInv'
      BY <1>2, <1>3, <1>6, CommitTidy DEF img
    <2>2. Own(w)
      BY <1>2, <1>6 DEF Own, img, TypeInv, ThreadsInv
    <2>3. /\ mem'[w] = img /\ pc'[w] = "settle" /\ UNCHANGED <<accepting, job, done>>
          /\ futures'[w] = IF accepting[Process[w]] THEN futures[w] \union S ELSE futures[w]
      BY <1>2, <1>6 DEF img, TypeInv, ThreadsInv
    <2>4. LoopInv(w) /\ futures[w] = RunningNodes(mem[w]) /\ ~Stopping(job[w])
      BY <1>1 DEF LoopsInv, LoopInv, InLoop, AllSubmitted
    <2>5. LoopInv(w)'
      BY <1>1, <1>3, <1>4, <2>3, <2>4 DEF LoopInv, InLoop, AllSubmitted
    <2> QED
      BY <2>1, <2>2, <2>5, OwnLoops
  <1> QED
    BY <1>5, <1>6

(* The run ends.                                                           *)
LEMMA FinalizeRows ==
    ASSUME TypeInv, ImagesInv, LoopsInv, NEW w \in Workers, Finalize(w)
    PROVE  ImagesInv' /\ LoopsInv'
  <1>1. mem[w] \in TidyImage
    BY DEF ImagesInv
  <1>2. PICK status \in {"CANCELLED", "FAILED", "SUCCESS"}, img \in TidyImage :
            Finished(w, status, img)
    <2>1. StoppedImage(mem[w]) \in TidyImage
      BY <1>1, StoppedImageTidy
    <2> QED
      BY <1>1, <2>1 DEF Finalize, FinalizeCancelled, FinalizeFailure, FinalizeSuccess
  <1>3. CASE CommitRefused(w, img)
    BY <1>3, EndLoopRows DEF CommitRefused
  <1>4. CASE ~CommitRefused(w, img)
    <2>1. ImagesInv'
      BY <1>2, <1>4, CommitTidy DEF Finished
    <2>2. Own(w)
      BY <1>2, <1>4 DEF Finished, Own, TypeInv, ThreadsInv
    <2>3. pc'[w] = "exit" /\ UNCHANGED <<futures, done>>
      BY <1>2, <1>4 DEF Finished, TypeInv, ThreadsInv
    <2>4. LoopInv(w)'
      BY <2>3 DEF LoopsInv, LoopInv, InLoop
    <2> QED
      BY <2>1, <2>2, <2>4, OwnLoops
  <1> QED
    BY <1>3, <1>4

(* A result is committed: its node was RUNNING.                            *)
LEMMA CompletionEndsTheCall ==
    ASSUME NEW img \in Image, NEW n \in Nodes, NEW outcome
    PROVE  RunningNodes(Completed(img, n, outcome)) = RunningNodes(img) \ {n}
  <1>1. \A m \in Nodes : Completed(img, n, outcome).node[m] =
                  IF m # n THEN img.node[m]
                  ELSE IF outcome.kind = "ok" THEN "SUCCESS"
                  ELSE IF ShouldRetry(img, n, outcome.kind) THEN "WAITING"
                  ELSE "FAILED"
    BY CompletedRows
  <1> QED
    BY <1>1 DEF RunningNodes

LEMMA CompleteRows ==
    ASSUME TypeInv, ImagesInv, LoopsInv, NEW w \in Workers, Complete(w)
    PROVE  ImagesInv' /\ LoopsInv'
  <1>1. /\ mem[w] \in TidyImage /\ mem[w] \in Image
        /\ mem[w].node[Root] = "SUCCESS" /\ pc[w] = "settle"
        /\ LoopInv(w) /\ futures[w] \subseteq RunningNodes(mem[w])
    BY DEF Complete, Settling, ImagesInv, TypeInv, ThreadsInv, TidyImage, SoundImage,
           LoopsInv, LoopInv, InLoop
  <1>2. PICK c \in done[w] :
          LET img   == Completed(mem[w], c.node, c.outcome)
              fatal == c.outcome.kind # "ok" /\ ~ShouldRetry(mem[w], c.node, c.outcome.kind)
          IN
          \/ /\ accepting[Process[w]]
             /\ CommitAccepted(w, img, "RUNNING")
             /\ mem' = [mem EXCEPT ![w] = img]
             /\ job' = [job EXCEPT ![w].failureSeen = @ \/ fatal]
             /\ futures' = [futures EXCEPT ![w] = @ \ {c.node}]
             /\ done' = [done EXCEPT ![w] = @ \ {c}]
             /\ pc' = [pc EXCEPT ![w] = "turn"]
             /\ UNCHANGED <<accepting, callVars>>
          \/ CommitRefused(w, img)
          \/ ~accepting[Process[w]] /\ EndLoop(w)
    BY DEF Complete
  <1> DEFINE img   == Completed(mem[w], c.node, c.outcome)
             fatal == c.outcome.kind # "ok" /\ ~ShouldRetry(mem[w], c.node, c.outcome.kind)
             flag  == job[w].failureSeen \/ fatal
  <1>3. c.node \in Nodes /\ c.node \in futures[w] /\ mem[w].node[c.node] = "RUNNING"
    BY <1>1 DEF LoopInv, RunningNodes
  <1>4. img \in TidyImage /\ img.unknown = mem[w].unknown
    BY <1>1, <1>3, CompletedTidy, CompletedRows, SMTT(30)
  <1>5. RunningNodes(img) = RunningNodes(mem[w]) \ {c.node}
    BY <1>1, <1>3, CompletionEndsTheCall
  <1>6. CASE CommitRefused(w, img) \/ EndLoop(w)
    BY <1>6, EndLoopRows DEF CommitRefused
  <1>7. CASE ~(CommitRefused(w, img) \/ EndLoop(w))
    <2>1. /\ accepting[Process[w]]
          /\ CommitAccepted(w, img, "RUNNING")
          /\ mem' = [mem EXCEPT ![w] = img]
          /\ job' = [job EXCEPT ![w].failureSeen = flag]
          /\ futures' = [futures EXCEPT ![w] = @ \ {c.node}]
          /\ done' = [done EXCEPT ![w] = @ \ {c}]
          /\ pc' = [pc EXCEPT ![w] = "turn"]
          /\ UNCHANGED <<accepting, callVars>>
      BY <1>2, <1>7 DEF TypeInv, ThreadsInv
    <2>2. job[w].failureSeen => flag
      OBVIOUS
    <2> HIDE DEF img, fatal, flag
    <2>3. ImagesInv'
      BY <1>4, <2>1, CommitTidy
    <2>4. Own(w)
      BY <2>1 DEF Own, TypeInv, ThreadsInv
    <2>5. /\ mem'[w] = img /\ pc'[w] = "turn" /\ accepting' = accepting
          /\ futures'[w] = futures[w] \ {c.node} /\ done'[w] = done[w] \ {c}
          /\ job'[w].failureSeen = flag /\ job'[w].cancelSeen = job[w].cancelSeen
      BY <2>1 DEF TypeInv, ThreadsInv, Jobs
    <2>6. futures'[w] = RunningNodes(img)
      BY <1>1, <1>5, <2>1, <2>5 DEF LoopInv, InLoop, AllSubmitted
    <2>7. /\ \A d \in done'[w] : d.node \in futures'[w]
          /\ \A d, e \in done'[w] : d.node = e.node => d = e
      BY <1>1, <2>5 DEF LoopInv
    <2>8. img.unknown # {} => job'[w].failureSeen /\ ~job'[w].cancelSeen
      BY <1>1, <1>4, <2>2, <2>5 DEF LoopInv, InLoop
    <2>9. LoopInv(w)'
      BY <2>5, <2>6, <2>7, <2>8 DEF LoopInv, InLoop, AllSubmitted
    <2> QED
      BY <2>3, <2>4, <2>9, OwnLoops
  <1> QED
    BY <1>6, <1>7

(* The steps of the loop that touch no row.                                *)
LEMMA LocalStepRows ==
    ASSUME TypeInv, ImagesInv, LoopsInv, NEW w \in Workers,
           LeaveLoop(w) \/ NothingToSchedule(w) \/ WaitOrGiveUp(w) \/ PollTimesOut(w) \/ Throw(w)
    PROVE  ImagesInv' /\ LoopsInv'
  <1>1. CASE LeaveLoop(w) \/ Throw(w)
    BY <1>1, EndLoopRows DEF LeaveLoop, Throw
  <1>2. CASE NothingToSchedule(w) \/ WaitOrGiveUp(w) \/ PollTimesOut(w)
    <2>1. UNCHANGED <<saved, accepting, mem, futures, done>>
      BY <1>2 DEF NothingToSchedule, WaitOrGiveUp, PollTimesOut, runVars
    <2>2. ImagesInv'
      BY <2>1 DEF ImagesInv
    <2>3. Own(w)
      BY <1>2 DEF NothingToSchedule, WaitOrGiveUp, PollTimesOut, Own, TypeInv, ThreadsInv
    <2>4. LoopInv(w)
      BY DEF LoopsInv
    <2>5. CASE NothingToSchedule(w)
      <3>1. pc[w] = "schedule" /\ pc'[w] = "settle" /\ job' = job
        BY <2>5 DEF NothingToSchedule, TypeInv, ThreadsInv
      <3>2. LoopInv(w)'
        BY <2>1, <2>4, <3>1 DEF LoopInv, InLoop, AllSubmitted
      <3> QED
        BY <2>2, <2>3, <3>2, OwnLoops
    <2>6. CASE PollTimesOut(w)
      <3>1. pc[w] = "settle" /\ pc'[w] = "turn" /\ job' = job
        BY <2>6 DEF PollTimesOut, Settling, TypeInv, ThreadsInv
      <3>2. LoopInv(w)'
        BY <2>1, <2>4, <3>1 DEF LoopInv, InLoop, AllSubmitted
      <3> QED
        BY <2>2, <2>3, <3>2, OwnLoops
    <2>7. CASE WaitOrGiveUp(w)
      <3>1. pc[w] = "settle" /\ pc'[w] = "turn" /\ ~Stopping(job[w])
        BY <2>7 DEF WaitOrGiveUp, Settling, TypeInv, ThreadsInv
      <3>2. mem[w].unknown = {}
        BY <2>4, <3>1 DEF LoopInv, InLoop, Stopping
      <3>3. /\ futures[w] \subseteq RunningNodes(mem[w])
            /\ futures[w] = RunningNodes(mem[w]) \/ ~accepting[Process[w]]
            /\ \A c \in done[w] : c.node \in futures[w]
            /\ \A c, d \in done[w] : c.node = d.node => c = d
        BY <2>4, <3>1 DEF LoopInv, InLoop, AllSubmitted
      <3>4. AllSubmitted(w)'
        BY <2>1, <3>1, <3>3 DEF AllSubmitted
      <3>5. LoopInv(w)'
        BY <2>1, <3>1, <3>2, <3>3, <3>4 DEF LoopInv, InLoop
      <3> QED
        BY <2>2, <2>3, <3>5, OwnLoops
    <2> QED
      BY <1>2, <2>5, <2>6, <2>7
  <1> QED
    BY <1>1, <1>2

LEMMA CallReturnsRows ==
    ASSUME TypeInv, ImagesInv, LoopsInv, NEW w \in Workers, CallReturns(w)
    PROVE  ImagesInv' /\ LoopsInv'
  <1>1. PICK n \in InFlight(w) : \E o \in Outcomes(n) :
            done' = [done EXCEPT ![w] = @ \union {[node |-> n, outcome |-> o]}]
    BY DEF CallReturns
  <1>2. PICK o \in Outcomes(n) :
            done' = [done EXCEPT ![w] = @ \union {[node |-> n, outcome |-> o]}]
    BY <1>1
  <1> DEFINE c == [node |-> n, outcome |-> o]
  <1>3. c.node = n /\ n \in futures[w] /\ \A d \in done[w] : d.node # n
    BY DEF InFlight
  <1>4. done'[w] = done[w] \union {c} /\ \A v \in Workers \ {w} : done'[v] = done[v]
    BY <1>2 DEF TypeInv, ThreadsInv
  <1> HIDE DEF c
  <1>5. UNCHANGED <<saved, accepting, pc, job, mem, futures>>
    BY DEF CallReturns, runVars
  <1>6. ImagesInv' /\ Own(w)
    BY <1>4, <1>5 DEF ImagesInv, Own
  <1>7. LoopInv(w)'
    BY <1>3, <1>4, <1>5 DEF LoopsInv, LoopInv, AllSubmitted
  <1> QED
    BY <1>6, <1>7, OwnLoops

LEMMA HeartbeatFailsRows ==
    ASSUME TypeInv, ImagesInv, LoopsInv, NEW w \in Workers, HeartbeatFails(w)
    PROVE  ImagesInv' /\ LoopsInv'
  <1>1. UNCHANGED <<saved, accepting, pc, mem, futures, done>>
    BY DEF HeartbeatFails, runVars
  <1>2. \A v \in Workers : /\ job'[v].failureSeen = job[v].failureSeen
                           /\ job'[v].cancelSeen = job[v].cancelSeen
    BY DEF HeartbeatFails, TypeInv, ThreadsInv, Jobs
  <1> QED
    BY <1>1, <1>2 DEF ImagesInv, LoopsInv, LoopInv, AllSubmitted, Stopping

(* A process that stops forgets; the next one starts with idle threads.    *)
LEMMA ProcessRows ==
    ASSUME TypeInv, ImagesInv, LoopsInv, NEW p \in Processes, Crash(p) \/ Shutdown(p) \/ Restart(p)
    PROVE  ImagesInv' /\ LoopsInv'
  <1>1. CASE Crash(p)
    <2> DEFINE dead == {w \in Workers : Process[w] = p}
    <2>1. /\ dead \in SUBSET Workers /\ Forget(dead) /\ UNCHANGED saved
          /\ accepting' = [accepting EXCEPT ![p] = TRUE]
      BY <1>1 DEF Crash, runVars
    <2>2. \A w \in Workers \ dead : accepting'[Process[w]] = accepting[Process[w]]
      BY <2>1 DEF Processes, TypeInv, WorldInv
    <2> HIDE DEF dead
    <2> QED
      BY <2>1, <2>2, ForgetRows
  <1>2. CASE Shutdown(p) \/ Restart(p)
    <2>1. UNCHANGED <<saved, pc, job, mem, futures, done>>
      BY <1>2 DEF Shutdown, Restart, runVars
    <2>2. ASSUME NEW w \in Workers, pc[w] # "idle"
          PROVE  accepting'[Process[w]] => accepting[Process[w]]
      BY <1>2, <2>2 DEF Shutdown, Restart, Processes, TypeInv, WorldInv
    <2>3. ImagesInv'
      BY <2>1 DEF ImagesInv
    <2> QED
      BY <2>1, <2>2, <2>3 DEF LoopsInv, LoopInv, InLoop, AllSubmitted
  <1> QED
    BY <1>1, <1>2

(* Time and users.                                                         *)
LEMMA TableStepRows ==
    ASSUME TypeInv, ImagesInv, LoopsInv, RunInv,
           (\E n \in Nodes : BackoffElapses(n)) \/ LeaseExpires \/ RequestCancel \/ OrphanLands
    PROVE  ImagesInv' /\ LoopsInv'
  <1>1. UNCHANGED <<accepting, pc, job, mem, futures, done>>
    BY DEF BackoffElapses, LeaseExpires, RequestCancel, OrphanLands
  <1>2. LoopsInv'
    BY <1>1 DEF LoopsInv, LoopInv, AllSubmitted
  <1>3. CASE saved' = saved
    BY <1>1, <1>2, <1>3 DEF ImagesInv
  <1>4. CASE RequestCancel /\ run.status = "QUEUED"
    <2>1. saved = EmptyImage
      BY <1>4 DEF RunInv
    <2>2. /\ saved'.node = [n \in Nodes |-> "CANCELLED"] /\ saved'.edge = saved.edge
          /\ saved'.tries = saved.tries /\ saved'.attempt = saved.attempt
          /\ saved'.unknown = saved.unknown
      <3> DEFINE node == [n \in Nodes |-> IF saved.node[n] \in {"SUCCESS", "SKIPPED", "FAILED"}
                                          THEN saved.node[n] ELSE "CANCELLED"]
      <3>1. node = [n \in Nodes |-> "CANCELLED"]
        BY <2>1 DEF EmptyImage
      <3>2. saved' = [saved EXCEPT !.node = node, !.next = {}]
        BY <1>4 DEF RequestCancel
      <3>3. saved \in Image
        BY <2>1, EmptyImageSound DEF SoundImage
      <3> HIDE DEF node
      <3> QED
        BY <3>1, <3>2, <3>3 DEF Image
    <2>3. saved' \in SoundImage
      <3>1. TypeInv'
        BY TableStepInv, OrphanLandsInv
      <3> QED
        BY <3>1 DEF TypeInv, TablesInv
    <2>4. Tidy(saved')
      BY <2>1, <2>2, RootIsNode DEF EmptyImage, Tidy, Numbered, Routed, Called, Resting
    <2> QED
      BY <1>1, <1>2, <2>3, <2>4 DEF ImagesInv, TidyImage
  <1> QED
    BY <1>3, <1>4 DEF BackoffElapses, LeaseExpires, RequestCancel, OrphanLands, runVars

-----------------------------------------------------------------------------
(* What every step but a granted claim does to the run's state as RunInv   *)
(* describes it.                                                           *)
RunStep ==
    /\ run'.status = "QUEUED" => run.status = "QUEUED" /\ saved' = saved
    /\ run'.status \notin Terminal =>
          run.status \notin Terminal /\ saved'.node[Root] \in {saved.node[Root], "SUCCESS"}
    /\ \A v \in Workers : pc'[v] = "claimed" => pc[v] = "claimed"
    /\ \/ saved' = saved
       \/ run'.status # "RUNNING"
       \/ \E w \in Workers : Fenced(w) /\ pc[w] # "claimed"

LEMMA SameRowsRun ==
    ASSUME run'.status = run.status, UNCHANGED saved,
           \A v \in Workers : pc'[v] = "claimed" => pc[v] = "claimed"
    PROVE  RunStep
  BY DEF RunStep

LEMMA CommittingRun ==
    ASSUME TypeInv, TypeInv', NEW w \in Workers,
           InitializeRun(w) \/ Turn(w) \/ ScheduleReady(w) \/ Finalize(w) \/ Complete(w)
    PROVE  RunStep
  <1>1. pc[w] \in {"init", "turn", "schedule", "settle"}
    BY DEF InitializeRun, Turn, ScheduleReady, Finalize, FinalizeCancelled, FinalizeFailure,
           FinalizeSuccess, Complete, Settling
  <1>2. \A v \in Workers \ {w} : pc'[v] = pc[v]
    BY DEF InitializeRun, Turn, ScheduleReady, Finalize, FinalizeCancelled, FinalizeFailure,
           FinalizeSuccess, Finished, Complete, CommitRefused, EndLoop, TypeInv, ThreadsInv
  <1>3. \/ EndLoop(w)
        \/ \E img, status : /\ CommitAccepted(w, img, status)
                            /\ mem' = [mem EXCEPT ![w] = img]
                            /\ pc'[w] \in InLoop \/ (pc'[w] = "exit" /\ status \in Terminal)
    BY DEF InitializeRun, Turn, ScheduleReady, Finalize, FinalizeCancelled, FinalizeFailure,
           FinalizeSuccess, Finished, Complete, CommitRefused, InLoop, Terminal,
           TypeInv, ThreadsInv
  <1>4. CASE EndLoop(w)
    <2>1. UNCHANGED <<run, saved>> /\ pc'[w] = "exit"
      BY <1>4 DEF EndLoop, runVars, TypeInv, ThreadsInv
    <2> QED
      BY <1>2, <2>1, SameRowsRun
  <1>5. CASE ~EndLoop(w)
    <2>1. PICK img, status : /\ CommitAccepted(w, img, status)
                             /\ mem' = [mem EXCEPT ![w] = img]
                             /\ pc'[w] \in InLoop \/ (pc'[w] = "exit" /\ status \in Terminal)
      BY <1>3, <1>5
    <2>2. saved' = img /\ mem'[w] = img /\ run.status = "RUNNING" /\ Fenced(w)
      BY <2>1 DEF CommitAccepted, Fenced, TypeInv, ThreadsInv
    <2>3. IF status \in Terminal THEN run'.status = status ELSE run' = run
      <3>1. CASE status \in Terminal
        <4>1. run' = [[run EXCEPT !.status = status] EXCEPT !.owner = Nobody, !.live = FALSE]
          BY <2>1, <3>1 DEF CommitAccepted, Released
        <4> QED
          BY <3>1, <4>1 DEF TypeInv, TablesInv, Row
      <3> QED
        BY <2>1, <3>1 DEF CommitAccepted
    <2>4. pc'[w] \in InLoop => mem'[w].node[Root] = "SUCCESS"
      BY DEF InLoop, TypeInv, ThreadsInv
    <2>5. pc[w] # "claimed" /\ pc'[w] # "claimed"
      BY <1>1, <2>1 DEF InLoop
    <2> QED
      BY <1>2, <2>1, <2>2, <2>3, <2>4, <2>5 DEF RunStep, Terminal
  <1> QED
    BY <1>4, <1>5

(* A claim that fails the run, or a stop request for a queued one, ends it. *)
LEMMA EndingRun ==
    ASSUME TypeInv, TypeInv', UNCHANGED pc, run'.status \in Terminal
    PROVE  RunStep
  BY DEF RunStep, Terminal

LEMMA ClaimFailsRun ==
    ASSUME TypeInv, TypeInv', NEW w \in Workers, ClaimFailsLegacy(w) \/ ClaimExhausts(w)
    PROVE  RunStep /\ run'.status = "FAILED"
  <1>1. UNCHANGED pc
    BY DEF ClaimFailsLegacy, ClaimExhausts
  <1>2. run'.status = "FAILED"
    <2>1. CASE ClaimFailsLegacy(w)
      <3>1. run' = [[run EXCEPT !.status = "FAILED"] EXCEPT !.owner = Nobody, !.live = FALSE]
        BY <2>1 DEF ClaimFailsLegacy, Released
      <3> QED
        BY <3>1 DEF TypeInv, TablesInv, Row
    <2>2. CASE ClaimExhausts(w)
      <3> DEFINE token  == run.token + 1
                 count  == NextRecovery
                 failed == [run EXCEPT !.status = "FAILED", !.token = token, !.recoveries = count]
      <3>1. run' = [failed EXCEPT !.owner = Nobody, !.live = FALSE] /\ run \in Row
        BY <2>2 DEF ClaimExhausts, Released, TypeInv, TablesInv
      <3> HIDE DEF token, count
      <3> QED
        BY <3>1 DEF Row
    <2> QED
      BY <2>1, <2>2
  <1> QED
    BY <1>1, <1>2, EndingRun DEF Terminal

LEMMA QuietRun ==
    ASSUME TypeInv, TypeInv', NEW w \in Workers,
           \/ LeaveLoop(w) \/ NothingToSchedule(w) \/ WaitOrGiveUp(w) \/ PollTimesOut(w)
           \/ Throw(w) \/ CallReturns(w) \/ HeartbeatFails(w) \/ Load(w) \/ RefuseRun(w) \/ Exit(w)
    PROVE  RunStep
  <1>1. run'.status = run.status /\ UNCHANGED saved
    BY DEF LeaveLoop, NothingToSchedule, WaitOrGiveUp, PollTimesOut, Throw, EndLoop, CallReturns,
           HeartbeatFails, Load, RefuseRun, Exit, ReleasedIfFenced, Released, runVars,
           TypeInv, TablesInv, Row
  <1>2. \A v \in Workers : pc'[v] = "claimed" => pc[v] = "claimed"
    BY DEF LeaveLoop, NothingToSchedule, WaitOrGiveUp, PollTimesOut, Throw, EndLoop, CallReturns,
           HeartbeatFails, Load, RefuseRun, Exit, Forget, TypeInv, ThreadsInv
  <1> QED
    BY <1>1, <1>2, SameRowsRun

LEMMA WorldRun ==
    ASSUME TypeInv, TypeInv',
           \/ \E p \in Processes : Crash(p) \/ Shutdown(p) \/ Restart(p)
           \/ \E n \in Nodes : BackoffElapses(n)
           \/ LeaseExpires \/ RequestCancel \/ OrphanLands
    PROVE  RunStep
  <1>1. CASE RequestCancel /\ run.status = "QUEUED"
    <2>1. run' = [[run EXCEPT !.status = "CANCELLED", !.cancel = TRUE]
                   EXCEPT !.owner = Nobody, !.live = FALSE]
      BY <1>1 DEF RequestCancel, Released
    <2>2. run'.status = "CANCELLED" /\ UNCHANGED pc
      BY <1>1, <2>1 DEF RequestCancel, TypeInv, TablesInv, Row
    <2> QED
      BY <2>2, EndingRun DEF Terminal
  <1>2. CASE ~(RequestCancel /\ run.status = "QUEUED")
    <2>1. run'.status = run.status /\ UNCHANGED saved
      BY <1>2 DEF Crash, Shutdown, Restart, BackoffElapses, LeaseExpires, RequestCancel,
                  OrphanLands, runVars, TypeInv, TablesInv, Row
    <2>2. \A v \in Workers : pc'[v] = "claimed" => pc[v] = "claimed"
      <3>1. CASE \E p \in Processes : Crash(p)
        BY <3>1 DEF Crash, Forget, TypeInv, ThreadsInv
      <3>2. CASE ~\E p \in Processes : Crash(p)
        BY <3>2 DEF Shutdown, Restart, BackoffElapses, LeaseExpires, RequestCancel, OrphanLands
      <3> QED
        BY <3>1, <3>2
    <2> QED
      BY <2>1, <2>2, SameRowsRun
  <1> QED
    BY <1>1, <1>2

LEMMA NextRun ==
    ASSUME TypeInv, TypeInv', [Next]_vars
    PROVE  RunStep \/ \E w \in Workers : ClaimGranted(w)
  <1>1. CASE UNCHANGED vars
    BY <1>1, SameRowsRun DEF vars
  <1>2. ASSUME NEW w \in Workers, Work(w) PROVE RunStep
    BY <1>2, CommittingRun, QuietRun DEF Work
  <1>3. ASSUME NEW w \in Workers, Claim(w) PROVE RunStep \/ ClaimGranted(w)
    BY <1>3, ClaimFailsRun DEF Claim
  <1> QED
    BY <1>1, <1>2, <1>3, QuietRun, WorldRun DEF Next

(* A granted claim fences everyone else.                                   *)
LEMMA GrantFences ==
    ASSUME TypeInv, TypeInv', TokensInv, TokensInv',
           NEW w \in Workers, ClaimGranted(w), NEW v \in Workers, Fenced(v)'
    PROVE  v = w
  <1> DEFINE token == run.token + 1
             count == NextRecovery
  <1>1. v # w => job'[v].token <= run.token
    BY DEF ClaimGranted, TokensInv, TypeInv, ThreadsInv
  <1>2. run \in Row /\ run' = [run EXCEPT !.status = "RUNNING", !.owner = Process[w],
                                   !.token = token, !.live = TRUE, !.recoveries = count]
    BY DEF ClaimGranted, TypeInv, TablesInv
  <1>3. token > run.token /\ run.token \in Nat
    BY <1>2 DEF Row
  <1> HIDE DEF token, count
  <1>4. run'.token = token
    BY <1>2 DEF Row
  <1>5. job'[v].token \in Nat
    BY DEF TypeInv, ThreadsInv, Jobs
  <1> HIDE DEF token
  <1> QED
    BY <1>1, <1>3, <1>4, <1>5, SMT DEF Fenced

LEMMA GrantRun ==
    ASSUME TypeInv, TypeInv', TokensInv, TokensInv', ImagesInv, RunInv,
           NEW w \in Workers, ClaimGranted(w)
    PROVE  RunInv'
  <1>1. /\ run.status \in {"QUEUED", "RUNNING"}
        /\ saved' = IF run.status = "RUNNING" THEN Interrupted(saved) ELSE saved
    BY DEF ClaimGranted, Claimable
  <1>2. run'.status = "RUNNING"
    <2> DEFINE token == run.token + 1
               count == NextRecovery
    <2>1. run \in Row /\ run' = [run EXCEPT !.status = "RUNNING", !.owner = Process[w],
                                     !.token = token, !.live = TRUE, !.recoveries = count]
      BY DEF ClaimGranted, TypeInv, TablesInv
    <2> HIDE DEF token, count
    <2> QED
      BY <2>1 DEF Row
  <1>3. saved.node[Root] \in {"PENDING", "SUCCESS"} /\ saved \in TidyImage /\ saved \in Image
    BY <1>1 DEF RunInv, ImagesInv, TidyImage, SoundImage, Terminal
  <1>4. saved'.node[Root] \in {"PENDING", "SUCCESS"}
    BY <1>1, <1>3, InterruptedRows, RootIsNode
  <1>5. RunningNodes(saved') = {}
    <2>1. CASE run.status = "RUNNING"
      BY <1>1, <1>3, <2>1, InterruptedTidy DEF RunningNodes
    <2>2. CASE run.status = "QUEUED"
      BY <1>1, <2>2 DEF RunInv, EmptyImage, RunningNodes
    <2> QED
      BY <1>1, <2>1, <2>2
  <1> QED
    BY <1>2, <1>4, <1>5 DEF RunInv

LEMMA RunStepRun ==
    ASSUME TypeInv, TypeInv', TokensInv, TokensInv', RunInv, FencedStep, RunStep
    PROVE  RunInv'
  <1>1. run'.status = "QUEUED" => saved' = EmptyImage
    BY DEF RunStep, RunInv
  <1>2. run'.status \notin Terminal => saved'.node[Root] \in {"PENDING", "SUCCESS"}
    BY DEF RunStep, RunInv
  <1>3. ASSUME NEW w \in Workers, Fenced(w)', pc'[w] = "claimed"
        PROVE  RunningNodes(saved') = {}
    <2>1. Fenced(w) /\ pc[w] = "claimed" /\ run'.status = "RUNNING"
      BY <1>3, FenceIsNotGained DEF RunStep, Fenced
    <2>2. saved' = saved
      BY <2>1, TokensAllowOneWriter DEF RunStep, OneWriter
    <2> QED
      BY <2>1, <2>2 DEF RunInv
  <1> QED
    BY <1>1, <1>2, <1>3 DEF RunInv

-----------------------------------------------------------------------------
(* The invariant.                                                          *)
RowsInv == FencingInv /\ ImagesInv /\ LoopsInv /\ RunInv

LEMMA InitRows == Init => RowsInv
  <1> SUFFICES ASSUME Init PROVE RowsInv
    OBVIOUS
  <1>1. FencingInv
    BY InitFencing
  <1>2. ImagesInv
    BY EmptyImageTidy DEF Init, ImagesInv
  <1>3. LoopsInv
    BY DEF Init, LoopsInv, LoopInv, InLoop
  <1>4. RunInv
    <2>1. run.status = "QUEUED" /\ saved = EmptyImage
      BY DEF Init
    <2> QED
      BY <2>1, RootIsNode DEF RunInv, Fenced, EmptyImage
  <1> QED
    BY <1>1, <1>2, <1>3, <1>4 DEF RowsInv

LEMMA NextImagesLoops ==
    ASSUME TypeInv, ImagesInv, LoopsInv, RunInv, [Next]_vars
    PROVE  ImagesInv' /\ LoopsInv'
  <1>1. CASE UNCHANGED vars
    BY <1>1 DEF vars, ImagesInv, LoopsInv, LoopInv, AllSubmitted
  <1>2. ASSUME NEW w \in Workers, Work(w) PROVE ImagesInv' /\ LoopsInv'
    <2>1. CASE RefuseRun(w) \/ Exit(w)
      BY <2>1, ForgetRows DEF RefuseRun, Exit
    <2>2. CASE ~(RefuseRun(w) \/ Exit(w))
      BY <1>2, <2>2, LoadRows, InitializeRunRows, TurnRows, ScheduleReadyRows, FinalizeRows,
         CompleteRows, LocalStepRows DEF Work
    <2> QED
      BY <2>1, <2>2
  <1> QED
    BY <1>1, <1>2, ClaimRows, CallReturnsRows, HeartbeatFailsRows, LocalStepRows, ProcessRows,
       TableStepRows DEF Next

LEMMA NextRows == RowsInv /\ [Next]_vars => RowsInv'
  <1> SUFFICES ASSUME RowsInv, [Next]_vars PROVE RowsInv'
    OBVIOUS
  <1>1. FencingInv /\ FencingInv' /\ ImagesInv /\ LoopsInv /\ RunInv
    BY NextFencing DEF RowsInv
  <1>2. TypeInv /\ TypeInv' /\ TokensInv /\ TokensInv'
    BY <1>1 DEF FencingInv
  <1>3. ImagesInv' /\ LoopsInv'
    BY <1>1, <1>2, NextImagesLoops
  <1>4. RunInv'
    <2>1. CASE \E w \in Workers : ClaimGranted(w)
      BY <1>1, <1>2, <2>1, GrantRun
    <2>2. CASE ~\E w \in Workers : ClaimGranted(w)
      BY <1>1, <1>2, <2>2, NextFenced, NextRun, RunStepRun
    <2> QED
      BY <2>1, <2>2
  <1> QED
    BY <1>1, <1>3, <1>4 DEF RowsInv

LEMMA RowsAreKept == Spec => []RowsInv
  BY InitRows, NextRows, PTL DEF Spec

(* Node rows and attempt rows never contradict each other, whatever step a *)
(* worker, a recovery or a stop request was at: claim() never finds a run  *)
(* it must fail as unrecoverable legacy state.                             *)
THEOREM RowsAreConsistent == Spec => []RowsNeverContradict
  <1>1. RowsInv => RowsNeverContradict
    BY NumberedIsConsistent DEF RowsInv, ImagesInv, TidyImage, SoundImage, Tidy,
                                RowsNeverContradict
  <1> QED
    BY <1>1, RowsAreKept, PTL

(* One port of a decision at most is ever open, only successful nodes open *)
(* routes, and a node is called only along decided routes, one of them     *)
(* open.                                                                   *)
THEOREM RoutesAreDecidedOnce == Spec => []OneRoutePerDecision
  <1>1. RowsInv => OneRoutePerDecision
    BY DEF RowsInv, ImagesInv, TidyImage, Tidy, Routed, Called, Decided, OneRoutePerDecision
  <1> QED
    BY <1>1, RowsAreKept, PTL
=============================================================================
