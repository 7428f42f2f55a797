-------------------------- MODULE PlannerWalkProofs --------------------------
(***************************************************************************)
(* What holds of every walk of every well-formed acyclic graph, of any     *)
(* size: the loop of ready() computes the closed form, no walk gets stuck, *)
(* joins wait, decisions are final, and what runs is what was selected.    *)
(*                                                                         *)
(* Where a proof goes along the graph it takes a set of nodes for which    *)
(* the claim fails and looks at the first of them in the topological       *)
(* order, whose predecessors are not in the set.                           *)
(***************************************************************************)
EXTENDS PlannerWalk, ReadinessPlannerProofs, WellFoundedInduction

(* A non-empty set of numbers has a least one.                             *)
LEMMA LeastNumber ==
    ASSUME NEW T \in SUBSET Nat, T # {}
    PROVE  \E m \in T : \A k \in T : m <= k
  <1> DEFINE Less == {p \in Nat \X Nat : p[1] < p[2]}
  <1>1. IsWellFoundedOn(Less, Nat)
    BY NatLessThanWellFounded DEF OpToRel
  <1> HIDE DEF Less
  <1>2. \E m \in T : \A k \in T : <<k, m>> \notin Less
    BY <1>1, WFMin
  <1>3. \A k, m \in Nat : <<k, m>> \notin Less => m <= k
    BY DEF Less
  <1> QED
    BY <1>2, <1>3

(* The first node of a set has no predecessor in the set.                  *)
LEMMA FirstNode ==
    ASSUME NEW def, Topological(def), NEW T \in SUBSET def.nodes, T # {}
    PROVE  \E n \in T : \A e \in def.edges : e.dst = n => e.src \notin T
  <1> DEFINE P == {i \in 1 .. Len(def.order) : def.order[i] \in T}
  <1>0. Len(def.order) \in Nat
    BY DEF Topological
  <1>1. P \in SUBSET Nat /\ P # {}
    BY <1>0, SMTT(30) DEF Topological
  <1>2. PICK m \in P : \A k \in P : m <= k
    BY <1>1, LeastNumber
  <1>3. ASSUME NEW e \in def.edges, e.dst = def.order[m] PROVE e.src \notin T
    <2>1. PICK i, j \in 1 .. Len(def.order) : i < j /\ def.order[i] = e.src /\ def.order[j] = e.dst
      BY DEF Topological
    <2>2. j = m
      BY <2>1, <1>3 DEF Topological
    <2>3. i \notin P
      BY <1>0, <1>2, <2>1, <2>2
    <2> QED
      BY <2>1, <2>3
  <1> QED
    BY <1>2, <1>3

-----------------------------------------------------------------------------
(* A graph state that a walk of d may have: a route is undecided as long   *)
(* as its source may still run, and active only when it succeeded; a node  *)
(* waits for all its routes, runs for an active one, and is skipped when   *)
(* all are inactive.                                                       *)
RoutesFollow(def, x) ==
    \A e \in def.edges :
        /\ x.edge[e] = "UNKNOWN" <=> x.node[e.src] \in {"PENDING", "READY"}
        /\ x.edge[e] = "ACTIVE" => x.node[e.src] = "SUCCESS"

NodesWait(def, x) ==
    \A e \in def.edges : x.node[e.dst] # "PENDING" => x.edge[e] # "UNKNOWN"

NodesAreCalled(def, x) ==
    \A n \in def.nodes :
        /\ x.node[n] \in {"READY", "SUCCESS"} => n = Root \/ \E e \in In(def, n) : x.edge[e] = "ACTIVE"
        /\ x.node[n] = "SKIPPED" => \A e \in In(def, n) : x.edge[e] = "INACTIVE"

Statuses == {"PENDING", "READY", "SUCCESS", "SKIPPED"}

Walked(def, x) ==
    /\ x \in [node : [def.nodes -> Statuses], edge : [def.edges -> EdgeState]]
    /\ x.node[Root] = "SUCCESS"
    /\ RoutesFollow(def, x)
    /\ NodesWait(def, x)
    /\ NodesAreCalled(def, x)

(* The loop leaves node n alone.                                           *)
Passed(def, x, n) ==
    \/ x.node[n] # "PENDING"
    \/ \E e \in In(def, n) : x.edge[e] = "UNKNOWN"
    \/ \E e \in In(def, n) : x.edge[e] = "ACTIVE" /\ x.node[e.src] # "SUCCESS"

(* Half-way through ready(), every node and route is as before or as the   *)
(* closed form wants it.                                                   *)
OnTheWay(def, x, y) ==
    /\ \A n \in def.nodes :
          \/ y.node[n] = x.node[n]
          \/ n \in Excluded(def, x) /\ y.node[n] = "SKIPPED"
          \/ Runnable(def, x, Excluded(def, x), n) /\ y.node[n] = "READY"
    /\ \A e \in def.edges :
          \/ y.edge[e] = x.edge[e]
          \/ e.src \in Excluded(def, x) /\ x.edge[e] = "UNKNOWN" /\ y.edge[e] = "INACTIVE"

Positions == 1 .. Len(d.order)

(* A pass that has changed nothing yet has passed by every node so far;    *)
(* outside of the loop, all of them.                                       *)
LoopInv ==
    /\ at \in 0 .. Len(d.order) + 1
    /\ changed \in BOOLEAN
    /\ at = 0 => ~changed
    /\ ~changed => \A i \in Positions : at = 0 \/ i < at => Passed(d, g, d.order[i])

WalkInv ==
    /\ d \in Definitions
    /\ Walked(d, g) /\ Walked(d, before)
    /\ OnTheWay(d, before, g)
    /\ LoopInv

-----------------------------------------------------------------------------
(* The steps of a walk lead from walked states to walked states.           *)
LEMMA InitializeWalks ==
    ASSUME NEW def, WellFormed(def), Root \in def.triggers
    PROVE  Walked(def, Initialize(def, Root))
  <1> DEFINE x == Initialize(def, Root)
  <1>0. /\ Root \in def.nodes
        /\ \A e \in def.edges : e.src \in def.nodes /\ e.dst \in def.nodes /\ e.dst \notin def.triggers
    BY DEF WellFormed
  <1>1. x.node = [n \in def.nodes |-> IF n = Root THEN "SUCCESS" ELSE IF n \in def.triggers THEN "SKIPPED" ELSE "PENDING"]
    BY DEF Initialize
  <1>2. x.edge = [e \in def.edges |-> IF e.src = Root THEN "ACTIVE" ELSE IF e.src \in def.triggers THEN "INACTIVE" ELSE "UNKNOWN"]
    BY DEF Initialize
  <1>3. x \in [node : [def.nodes -> Statuses], edge : [def.edges -> EdgeState]]
    BY DEF Initialize, Statuses, EdgeState
  <1> HIDE DEF x
  <1>4. RoutesFollow(def, x)
    BY <1>0, <1>1, <1>2 DEF RoutesFollow
  <1>5. NodesWait(def, x)
    BY <1>0, <1>1, <1>2 DEF NodesWait
  <1>6. NodesAreCalled(def, x)
    BY <1>0, <1>1, <1>2 DEF NodesAreCalled, In
  <1>7. x.node[Root] = "SUCCESS"
    BY <1>0, <1>1
  <1> QED
    BY <1>3, <1>4, <1>5, <1>6, <1>7 DEF Walked, x

(* One node n leaves PENDING because no route is undecided.                *)
LEMMA ReadyWalks ==
    ASSUME NEW def, WellFormed(def), NEW x, Walked(def, x), NEW n \in def.nodes,
           x.node[n] = "PENDING",
           \A e \in In(def, n) : x.edge[e] # "UNKNOWN",
           \E e \in In(def, n) : x.edge[e] = "ACTIVE"
    PROVE  Walked(def, [x EXCEPT !.node[n] = "READY"])
  <1> DEFINE y == [x EXCEPT !.node[n] = "READY"]
  <1>0. \A e \in def.edges : e.src \in def.nodes /\ e.dst \in def.nodes
    BY DEF WellFormed
  <1>1. /\ y.edge = x.edge
        /\ y.node = [x.node EXCEPT ![n] = "READY"]
        /\ y \in [node : [def.nodes -> Statuses], edge : [def.edges -> EdgeState]]
    BY DEF Walked, Statuses
  <1> HIDE DEF y
  <1>2. x.node \in [def.nodes -> Statuses]
    BY DEF Walked
  <1>3. RoutesFollow(def, y)
    BY <1>0, <1>1, <1>2 DEF RoutesFollow, Walked
  <1>4. NodesWait(def, y)
    BY <1>0, <1>1, <1>2 DEF NodesWait, Walked, In
  <1>5. NodesAreCalled(def, y)
    BY <1>0, <1>1, <1>2 DEF NodesAreCalled, Walked, In
  <1>6. y.node[Root] = "SUCCESS"
    BY <1>1, <1>2 DEF Walked
  <1> QED
    BY <1>1, <1>3, <1>4, <1>5, <1>6 DEF Walked, y
Without(def, x, n) ==
    [node |-> [x.node EXCEPT ![n] = "SKIPPED"],
     edge |-> [e \in def.edges |-> IF e.src = n /\ x.edge[e] = "UNKNOWN" THEN "INACTIVE" ELSE x.edge[e]]]

LEMMA ExcludeWalks ==
    ASSUME NEW def, WellFormed(def), NEW x, Walked(def, x), NEW n \in def.nodes,
           x.node[n] = "PENDING",
           \A e \in In(def, n) : x.edge[e] = "INACTIVE"
    PROVE  Walked(def, Without(def, x, n))
  <1> DEFINE y == Without(def, x, n)
  <1>0. \A e \in def.edges : e.src \in def.nodes /\ e.dst \in def.nodes
    BY DEF WellFormed
  <1>2. /\ x.node \in [def.nodes -> Statuses]
        /\ x.edge \in [def.edges -> EdgeState]
    BY DEF Walked
  <1>1. /\ y.edge = [e \in def.edges |-> IF e.src = n /\ x.edge[e] = "UNKNOWN" THEN "INACTIVE" ELSE x.edge[e]]
        /\ y.node = [x.node EXCEPT ![n] = "SKIPPED"]
        /\ y \in [node : [def.nodes -> Statuses], edge : [def.edges -> EdgeState]]
    BY <1>2 DEF Without, Statuses, EdgeState
  <1> HIDE DEF y
  <1>3. RoutesFollow(def, y)
    BY <1>0, <1>1, <1>2 DEF RoutesFollow, Walked
  <1>4. NodesWait(def, y)
    BY <1>0, <1>1, <1>2 DEF NodesWait, Walked, In
  <1>5. NodesAreCalled(def, y)
    <2>1. \A e \in def.edges : x.edge[e] # "UNKNOWN" => y.edge[e] = x.edge[e]
      BY <1>1
    <2>2. \A m \in def.nodes : m # n => y.node[m] = x.node[m]
      BY <1>1, <1>2
    <2>3. y.node[n] = "SKIPPED"
      BY <1>1, <1>2
    <2> QED
      BY <2>1, <2>2, <2>3 DEF NodesAreCalled, Walked, In
  <1>6. y.node[Root] = "SUCCESS"
    BY <1>1, <1>2 DEF Walked
  <1> QED
    BY <1>1, <1>3, <1>4, <1>5, <1>6 DEF Walked, y

LEMMA SuccessWalks ==
    ASSUME NEW def, WellFormed(def), NEW x, Walked(def, x), NEW n \in def.nodes,
           x.node[n] = "READY", NEW p
    PROVE  Walked(def, AfterSuccess(def, x, n, p))
  <1> DEFINE y == AfterSuccess(def, x, n, p)
  <1>0. \A e \in def.edges : e.src \in def.nodes /\ e.dst \in def.nodes
    BY DEF WellFormed
  <1>2. /\ x.node \in [def.nodes -> Statuses]
        /\ x.edge \in [def.edges -> EdgeState]
    BY DEF Walked
  <1>1. /\ y.edge = [e \in def.edges |-> IF e.src # n THEN x.edge[e] ELSE IF e.port = p THEN "ACTIVE" ELSE "INACTIVE"]
        /\ y.node = [x.node EXCEPT ![n] = "SUCCESS"]
        /\ y \in [node : [def.nodes -> Statuses], edge : [def.edges -> EdgeState]]
    BY <1>2 DEF AfterSuccess, Statuses, EdgeState
  <1> HIDE DEF y
  <1>3. RoutesFollow(def, y)
    BY <1>0, <1>1, <1>2 DEF RoutesFollow, Walked
  <1>4. NodesWait(def, y)
    BY <1>0, <1>1, <1>2 DEF NodesWait, Walked, In
  <1>5. NodesAreCalled(def, y)
    <2>1. \A e \in def.edges : x.edge[e] # "UNKNOWN" => y.edge[e] = x.edge[e]
      BY <1>0, <1>1, <1>2 DEF Walked, RoutesFollow
    <2>2. \A m \in def.nodes : m # n => y.node[m] = x.node[m]
      BY <1>1, <1>2
    <2>3. y.node[n] = "SUCCESS"
      BY <1>1, <1>2
    <2> QED
      BY <2>1, <2>2, <2>3 DEF NodesAreCalled, Walked, In
  <1>6. y.node[Root] = "SUCCESS"
    BY <1>1, <1>2 DEF Walked
  <1> QED
    BY <1>1, <1>3, <1>4, <1>5, <1>6 DEF Walked, y

-----------------------------------------------------------------------------
(* The steps of ready() stay on the way to the closed form.                *)
LEMMA ExcludeIsOnTheWay ==
    ASSUME NEW def, WellFormed(def), NEW x, Walked(def, x), NEW y, Walked(def, y), OnTheWay(def, x, y),
           NEW n \in def.nodes, y.node[n] = "PENDING",
           \A e \in In(def, n) : y.edge[e] = "INACTIVE"
    PROVE  OnTheWay(def, x, Without(def, y, n))
  <1> DEFINE z == Without(def, y, n)
  <1>0. \A e \in def.edges : e.src \in def.nodes /\ e.dst \in def.nodes
    BY DEF WellFormed
  <1>2. /\ y.node \in [def.nodes -> Statuses]
        /\ y.edge \in [def.edges -> EdgeState]
    BY DEF Walked
  <1>1. /\ z.edge = [e \in def.edges |-> IF e.src = n /\ y.edge[e] = "UNKNOWN" THEN "INACTIVE" ELSE y.edge[e]]
        /\ z.node = [y.node EXCEPT ![n] = "SKIPPED"]
    BY DEF Without
  <1> HIDE DEF z
  <1>3. x.node[n] = "PENDING"
    BY DEF OnTheWay
  <1>4. n \in Excluded(def, x)
    <2>1. \A e \in In(def, n) : \/ x.edge[e] = "INACTIVE"
                                \/ x.edge[e] = "UNKNOWN" /\ e.src \in Excluded(def, x)
      BY DEF OnTheWay, In
    <2> QED
      BY <1>3, <2>1, ExcludedUnfolds
  <1>5. ASSUME NEW m \in def.nodes
        PROVE  \/ z.node[m] = x.node[m]
               \/ m \in Excluded(def, x) /\ z.node[m] = "SKIPPED"
               \/ Runnable(def, x, Excluded(def, x), m) /\ z.node[m] = "READY"
    BY <1>1, <1>2, <1>4 DEF OnTheWay
  <1>6. ASSUME NEW e \in def.edges
        PROVE  \/ z.edge[e] = x.edge[e]
               \/ e.src \in Excluded(def, x) /\ x.edge[e] = "UNKNOWN" /\ z.edge[e] = "INACTIVE"
    BY <1>1, <1>2, <1>4 DEF OnTheWay
  <1> QED
    BY <1>5, <1>6 DEF OnTheWay, z

LEMMA ReadyIsOnTheWay ==
    ASSUME NEW def, WellFormed(def), NEW x, Walked(def, x), NEW y, Walked(def, y), OnTheWay(def, x, y),
           NEW n \in def.nodes, y.node[n] = "PENDING",
           \A e \in In(def, n) : y.edge[e] # "UNKNOWN",
           \E e \in In(def, n) : y.edge[e] = "ACTIVE",
           \A e \in In(def, n) : y.edge[e] = "ACTIVE" => y.node[e.src] = "SUCCESS"
    PROVE  OnTheWay(def, x, [y EXCEPT !.node[n] = "READY"])
  <1> DEFINE z == [y EXCEPT !.node[n] = "READY"]
  <1>0. \A e \in def.edges : e.src \in def.nodes /\ e.dst \in def.nodes
    BY DEF WellFormed
  <1>2. /\ y.node \in [def.nodes -> Statuses]
        /\ y.edge \in [def.edges -> EdgeState]
    BY DEF Walked
  <1>1. z.edge = y.edge /\ z.node = [y.node EXCEPT ![n] = "READY"]
    BY DEF Walked
  <1> HIDE DEF z
  <1>3. x.node[n] = "PENDING"
    BY DEF OnTheWay
  <1>4. n \notin Excluded(def, x)
    <2>1. \E e \in In(def, n) : x.edge[e] = "ACTIVE"
      BY DEF OnTheWay, In
    <2> QED
      BY <2>1, ExcludedUnfolds
  <1>5. Runnable(def, x, Excluded(def, x), n)
    <2>1. ASSUME NEW e \in In(def, n)
          PROVE  \/ x.edge[e] = "INACTIVE"
                 \/ x.edge[e] = "UNKNOWN" /\ e.src \in Excluded(def, x)
                 \/ x.edge[e] = "ACTIVE" /\ x.node[e.src] = "SUCCESS"
      <3>1. e \in def.edges /\ y.edge[e] \in {"INACTIVE", "ACTIVE"}
        BY <1>2 DEF In, EdgeState
      <3> QED
        BY <1>0, <3>1 DEF OnTheWay
    <2> QED
      BY <1>3, <1>4, <2>1 DEF Runnable
  <1>6. ASSUME NEW m \in def.nodes
        PROVE  \/ z.node[m] = x.node[m]
               \/ m \in Excluded(def, x) /\ z.node[m] = "SKIPPED"
               \/ Runnable(def, x, Excluded(def, x), m) /\ z.node[m] = "READY"
    BY <1>1, <1>2, <1>5 DEF OnTheWay
  <1> QED
    BY <1>1, <1>6 DEF OnTheWay, z

(* When every node is passed by, the way is at its end.                    *)
LEMMA PassedEverywhere ==
    ASSUME NEW def, WellFormed(def), Topological(def),
           NEW x, Walked(def, x), NEW y, Walked(def, y), OnTheWay(def, x, y),
           \A n \in def.nodes : Passed(def, y, n)
    PROVE  y = Ready(def, x)
  <1> DEFINE skip == Excluded(def, x)
             late == {n \in def.nodes : n \in skip /\ y.node[n] # "SKIPPED"}
             z == Ready(def, x)
  <1>0. \A e \in def.edges : e.src \in def.nodes /\ e.dst \in def.nodes
    BY DEF WellFormed
  <1>1. /\ y.node \in [def.nodes -> Statuses] /\ y.edge \in [def.edges -> EdgeState]
        /\ x.node \in [def.nodes -> Statuses] /\ x.edge \in [def.edges -> EdgeState]
        /\ y = [node |-> y.node, edge |-> y.edge]
    BY DEF Walked
  <1> HIDE DEF skip
  <1>2. \A n \in def.nodes : n \in skip => ~Runnable(def, x, skip, n)
    BY DEF Runnable
  <1>3. late = {}
    <2> SUFFICES ASSUME late # {} PROVE FALSE
      OBVIOUS
    <2>1. PICK n \in late : \A e \in def.edges : e.dst = n => e.src \notin late
      BY FirstNode
    <2>2. y.node[n] = "PENDING"
      <3>1. x.node[n] = "PENDING"
        BY ExcludedUnfolds DEF skip
      <3> QED
        BY <1>2, <3>1 DEF OnTheWay, skip
    <2>3. ASSUME NEW e \in In(def, n) PROVE y.edge[e] = "INACTIVE"
      <3>1. e \in def.edges /\ e.dst = n
        BY DEF In
      <3>2. CASE x.edge[e] = "INACTIVE"
        BY <3>1, <3>2 DEF OnTheWay
      <3>3. CASE x.edge[e] = "UNKNOWN" /\ e.src \in skip
        <4>1. y.node[e.src] = "SKIPPED"
          BY <1>0, <2>1, <3>1, <3>3
        <4>2. y.edge[e] # "UNKNOWN"
          BY <3>1, <4>1 DEF Walked, RoutesFollow
        <4> QED
          BY <3>1, <3>3, <4>2 DEF OnTheWay
      <3> QED
        BY <3>2, <3>3, ExcludedUnfolds DEF skip
    <2> QED
      BY <2>2, <2>3 DEF Passed
  <1>4. ASSUME NEW n \in def.nodes, Runnable(def, x, skip, n) PROVE y.node[n] = "READY"
    <2> SUFFICES ASSUME y.node[n] # "READY" PROVE FALSE
      OBVIOUS
    <2>1. x.node[n] = "PENDING" /\ n \notin skip
      BY <1>4 DEF Runnable
    <2>2. y.node[n] = "PENDING"
      BY <2>1 DEF OnTheWay, skip
    <2>3. ASSUME NEW e \in In(def, n)
          PROVE  y.edge[e] = "INACTIVE" \/ (y.edge[e] = "ACTIVE" /\ y.node[e.src] = "SUCCESS")
      <3>1. e \in def.edges /\ e.src \in def.nodes
        BY <1>0 DEF In
      <3>2. CASE x.edge[e] = "INACTIVE"
        BY <3>1, <3>2 DEF OnTheWay
      <3>3. CASE x.edge[e] = "UNKNOWN" /\ e.src \in skip
        <4>1. y.node[e.src] = "SKIPPED"
          BY <1>3, <3>1, <3>3
        <4>2. y.edge[e] # "UNKNOWN"
          BY <3>1, <4>1 DEF Walked, RoutesFollow
        <4> QED
          BY <3>1, <3>3, <4>2 DEF OnTheWay
      <3>4. CASE x.edge[e] = "ACTIVE" /\ x.node[e.src] = "SUCCESS"
        <4>1. y.edge[e] = "ACTIVE"
          BY <3>1, <3>4 DEF OnTheWay
        <4>2. y.node[e.src] = "SUCCESS"
          BY <3>1, <4>1 DEF Walked, RoutesFollow
        <4> QED
          BY <4>1, <4>2
      <3> QED
        BY <1>4, <3>2, <3>3, <3>4 DEF Runnable
    <2>4. \A e \in In(def, n) : y.edge[e] # "UNKNOWN"
      BY <2>3
    <2> QED
      BY <2>2, <2>3, <2>4 DEF Passed
  <1>5. y.node = z.node
    <2>1. z.node = [n \in def.nodes |-> IF n \in skip THEN "SKIPPED"
                                        ELSE IF Runnable(def, x, skip, n) THEN "READY" ELSE x.node[n]]
      BY DEF Ready, skip
    <2>2. \A n \in def.nodes : n \in skip => y.node[n] = "SKIPPED"
      BY <1>3
    <2>3. \A n \in def.nodes : n \notin skip /\ ~Runnable(def, x, skip, n) => y.node[n] = x.node[n]
      BY DEF OnTheWay, skip
    <2> HIDE DEF z, late
    <2>4. \A n \in def.nodes : y.node[n] = z.node[n]
      BY <1>4, <2>1, <2>2, <2>3
    <2> QED
      BY <1>1, <2>1, <2>4
  <1>6. y.edge = z.edge
    <2>1. z.edge = [e \in def.edges |-> IF e.src \in skip /\ x.edge[e] = "UNKNOWN" THEN "INACTIVE" ELSE x.edge[e]]
      BY DEF Ready, skip
    <2>2. ASSUME NEW e \in def.edges PROVE y.edge[e] = z.edge[e]
      <3>1. CASE e.src \in skip /\ x.edge[e] = "UNKNOWN"
        <4>1. y.node[e.src] = "SKIPPED"
          BY <1>0, <1>3, <3>1
        <4>2. y.edge[e] # "UNKNOWN"
          BY <4>1 DEF Walked, RoutesFollow
        <4>3. y.edge[e] = "INACTIVE"
          BY <3>1, <4>2 DEF OnTheWay
        <4> QED
          BY <2>1, <3>1, <4>3
      <3>2. CASE ~(e.src \in skip /\ x.edge[e] = "UNKNOWN")
        <4>1. y.edge[e] = x.edge[e]
          BY <3>2 DEF OnTheWay, skip
        <4> QED
          BY <2>1, <3>2, <4>1
      <3> QED
        BY <3>1, <3>2
    <2> HIDE DEF z
    <2>3. \A e \in def.edges : y.edge[e] = z.edge[e]
      BY <2>2
    <2>4. z.edge = [e \in def.edges |-> z.edge[e]]
      BY <2>1
    <2>5. y.edge = [e \in def.edges |-> y.edge[e]]
      BY <1>1
    <2> QED
      BY <2>3, <2>4, <2>5
  <1>7. z = [node |-> z.node, edge |-> z.edge]
    BY DEF Ready
  <1> HIDE DEF z
  <1>8. y = z
    BY <1>1, <1>5, <1>6, <1>7
  <1> QED
    BY <1>8 DEF z
-----------------------------------------------------------------------------
(* The walk itself.                                                        *)
LEMMA DefinitionsAreSound ==
    ASSUME NEW def \in Definitions
    PROVE  WellFormed(def) /\ Topological(def) /\ Root \in def.triggers
  BY DefinitionsAreDags

LEMMA WalkInit == Init => WalkInv
  <1> SUFFICES ASSUME Init PROVE WalkInv
    OBVIOUS
  <1> USE DEF Init
  <1>1. d \in Definitions /\ WellFormed(d) /\ Root \in d.triggers /\ Topological(d)
    BY DefinitionsAreSound
  <1>2. Walked(d, g) /\ Walked(d, before)
    BY <1>1, InitializeWalks
  <1>3. OnTheWay(d, before, g)
    BY DEF OnTheWay
  <1>4. LoopInv
    <2>1. d.order \in Seq(d.nodes)
      BY <1>1 DEF Topological
    <2>2. Len(d.order) \in Nat
      BY <2>1
    <2>3. \A i \in Positions : ~(at = 0 \/ i < at)
      BY <2>2 DEF Positions
    <2>4. at \in 0 .. Len(d.order) + 1 /\ changed = FALSE
      BY <2>2
    <2> QED
      BY <2>3, <2>4 DEF LoopInv
  <1> QED
    BY <1>1, <1>2, <1>3, <1>4 DEF WalkInv

(* The three ways the loop has with a node are what it does to it.         *)
LEMMA LeaveAloneMeans ==
    ASSUME NEW n \in d.nodes, Walked(d, g), LeaveAlone(n)
    PROVE  Passed(d, g, n) /\ UNCHANGED <<g, changed>>
  BY DEF LeaveAlone, Passed, Activity

LEMMA ExcludeMeans ==
    ASSUME NEW n \in d.nodes, Walked(d, g), Exclude(n)
    PROVE  /\ g.node[n] = "PENDING"
           /\ \A e \in In(d, n) : g.edge[e] = "INACTIVE"
           /\ g' = Without(d, g, n)
           /\ changed' = TRUE
  BY DEF Exclude, Activity, Without

LEMMA MarkReadyMeans ==
    ASSUME NEW n \in d.nodes, Walked(d, g), MarkReady(n)
    PROVE  /\ g.node[n] = "PENDING"
           /\ \A e \in In(d, n) : g.edge[e] # "UNKNOWN"
           /\ \E e \in In(d, n) : g.edge[e] = "ACTIVE"
           /\ \A e \in In(d, n) : g.edge[e] = "ACTIVE" => g.node[e.src] = "SUCCESS"
           /\ g' = [g EXCEPT !.node[n] = "READY"]
           /\ changed' = TRUE
  BY DEF MarkReady, Activity

LEMMA WalkNext == WalkInv /\ [Next]_vars => WalkInv'
  <1> SUFFICES ASSUME WalkInv, [Next]_vars PROVE WalkInv'
    OBVIOUS
  <1>0. d \in Definitions /\ WellFormed(d) /\ Topological(d) /\ Len(d.order) \in Nat
    <2>1. d \in Definitions /\ WellFormed(d) /\ Topological(d)
      BY DefinitionsAreSound DEF WalkInv
    <2>2. d.order \in Seq(d.nodes)
      BY <2>1 DEF Topological
    <2> QED
      BY <2>1, <2>2
  <1>1. CASE Visit
    <2> DEFINE here == d.order[at]
    <2>0. /\ at \in Positions /\ at' = at + 1 /\ d' = d /\ before' = before
          /\ here \in d.nodes
      BY <1>0, <1>1 DEF Visit, Positions, Topological
    <2> HIDE DEF here
    <2>1. CASE LeaveAlone(here)
      <3>1. Passed(d, g, here) /\ g' = g /\ changed' = changed
        BY <2>0, <2>1, LeaveAloneMeans DEF WalkInv
      <3>2. LoopInv'
        <4>1. at' \in 0 .. Len(d.order) + 1 /\ at' # 0 /\ changed' \in BOOLEAN
          BY <1>0, <2>0, <3>1 DEF Positions, WalkInv, LoopInv
        <4>2. ASSUME ~changed, NEW i \in Positions, i < at' PROVE Passed(d, g, d.order[i])
          <5>1. CASE i = at
            BY <3>1, <5>1 DEF here
          <5>2. CASE i # at
            <6>1. i < at
              BY <1>0, <2>0, <4>2, <5>2 DEF Positions
            <6> QED
              BY <4>2, <6>1 DEF WalkInv, LoopInv
          <5> QED
            BY <5>1, <5>2
        <4>3. Positions' = Positions
          BY <2>0 DEF Positions
        <4> QED
          BY <2>0, <3>1, <4>1, <4>2, <4>3 DEF LoopInv
      <3> QED
        BY <2>0, <3>1, <3>2 DEF WalkInv
    <2>2. CASE Exclude(here)
      <3>1. /\ g.node[here] = "PENDING" /\ \A e \in In(d, here) : g.edge[e] = "INACTIVE"
            /\ g' = Without(d, g, here) /\ changed' = TRUE
        BY <2>0, <2>2, ExcludeMeans DEF WalkInv
      <3>2. Walked(d, g') /\ OnTheWay(d, before, g')
        BY <1>0, <2>0, <3>1, ExcludeWalks, ExcludeIsOnTheWay DEF WalkInv
      <3>3. LoopInv'
        BY <1>0, <2>0, <3>1 DEF LoopInv, Positions
      <3> QED
        BY <2>0, <3>2, <3>3 DEF WalkInv
    <2>3. CASE MarkReady(here)
      <3>1. /\ g.node[here] = "PENDING"
            /\ \A e \in In(d, here) : g.edge[e] # "UNKNOWN"
            /\ \E e \in In(d, here) : g.edge[e] = "ACTIVE"
            /\ \A e \in In(d, here) : g.edge[e] = "ACTIVE" => g.node[e.src] = "SUCCESS"
            /\ g' = [g EXCEPT !.node[here] = "READY"] /\ changed' = TRUE
        BY <2>0, <2>3, MarkReadyMeans DEF WalkInv
      <3>2. Walked(d, g') /\ OnTheWay(d, before, g')
        BY <1>0, <2>0, <3>1, ReadyWalks, ReadyIsOnTheWay DEF WalkInv
      <3>3. LoopInv'
        BY <1>0, <2>0, <3>1 DEF LoopInv, Positions
      <3> QED
        BY <2>0, <3>2, <3>3 DEF WalkInv
    <2> QED
      BY <1>1, <2>1, <2>2, <2>3 DEF Visit, here
  <1>2. CASE EndPass
    <2>1. /\ at = Len(d.order) + 1 /\ changed' = FALSE /\ d' = d /\ g' = g /\ before' = before
          /\ at' = IF changed THEN 1 ELSE 0
      BY <1>2 DEF EndPass
    <2>2. Positions' = Positions
      BY <2>1 DEF Positions
    <2>3. LoopInv'
      <3>1. CASE changed
        <4>1. \A i \in Positions : ~(at' = 0 \/ i < at')
          BY <2>1, <3>1 DEF Positions
        <4>2. at' \in 0 .. Len(d.order) + 1 /\ at' # 0
          BY <1>0, <2>1, <3>1
        <4> QED
          BY <2>1, <2>2, <4>1, <4>2 DEF LoopInv
      <3>2. CASE ~changed
        <4>1. \A i \in Positions : i < at
          BY <1>0, <2>1 DEF Positions
        <4>2. \A i \in Positions : Passed(d, g, d.order[i])
          BY <3>2, <4>1 DEF WalkInv, LoopInv
        <4>3. at' = 0 /\ at' \in 0 .. Len(d.order) + 1
          BY <1>0, <2>1, <3>2
        <4> QED
          BY <2>1, <2>2, <4>2, <4>3 DEF LoopInv
      <3> QED
        BY <3>1, <3>2 DEF WalkInv, LoopInv
    <2> QED
      BY <2>1, <2>3 DEF WalkInv
  <1>3. CASE Complete
    <2>1. PICK n \in d.nodes : \E p \in d.ports[n] : g.node[n] = "READY" /\ g' = AfterSuccess(d, g, n, p)
      BY <1>3 DEF Complete
    <2>2. at = 0 /\ at' = 1 /\ before' = g' /\ d' = d /\ changed' = changed
      BY <1>3 DEF Complete
    <2>3. Walked(d, g')
      BY <1>0, <2>1, SuccessWalks DEF WalkInv
    <2>4. OnTheWay(d, g', g')
      BY DEF OnTheWay
    <2>5. LoopInv'
      BY <1>0, <2>2 DEF LoopInv, Positions, WalkInv
    <2> QED
      BY <2>2, <2>3, <2>4, <2>5 DEF WalkInv
  <1>4. CASE UNCHANGED vars
    BY <1>4 DEF vars, WalkInv, LoopInv, Positions
  <1> QED
    BY <1>1, <1>2, <1>3, <1>4 DEF Next

LEMMA WalkAlways == Spec => []WalkInv
  BY WalkInit, WalkNext, PTL DEF Spec
-----------------------------------------------------------------------------
(* The closed form that the execution model uses is what the loop of       *)
(* ready() computes, for every graph and every walk: at the end of the     *)
(* loop the last pass left every node alone.                               *)
LEMMA PassedAtTheEnd == WalkInv /\ at = 0 => \A n \in d.nodes : Passed(d, g, n)
  <1> SUFFICES ASSUME WalkInv, at = 0, NEW n \in d.nodes PROVE Passed(d, g, n)
    OBVIOUS
  <1>1. PICK i \in Positions : d.order[i] = n
    BY DefinitionsAreSound DEF WalkInv, Topological, Positions
  <1> QED
    BY <1>1 DEF WalkInv, LoopInv

THEOREM LoopComputesReady == Spec => []LoopMatchesClosedForm
  <1>1. WalkInv => LoopMatchesClosedForm
    BY PassedAtTheEnd, PassedEverywhere, DefinitionsAreSound DEF WalkInv, LoopMatchesClosedForm
  <1> QED
    BY <1>1, WalkAlways, PTL

(* "could not make progress" never happens: of the nodes that are still    *)
(* PENDING, the first in the order would have been decided.                *)
THEOREM NoWalkGetsStuck == Spec => []NeverStuck
  <1>1. WalkInv => NeverStuck
    <2> SUFFICES ASSUME WalkInv, at = 0, \A n \in d.nodes : g.node[n] # "READY"
                 PROVE  \A n \in d.nodes : g.node[n] \in {"SUCCESS", "SKIPPED"}
      BY DEF NeverStuck
    <2> DEFINE T == {n \in d.nodes : g.node[n] = "PENDING"}
    <2>0. WellFormed(d) /\ Topological(d) /\ Walked(d, g)
      BY DefinitionsAreSound DEF WalkInv
    <2>1. g.node \in [d.nodes -> Statuses]
      BY <2>0 DEF Walked
    <2>2. T = {}
      <3> SUFFICES ASSUME T # {} PROVE FALSE
        OBVIOUS
      <3>1. PICK n \in T : \A e \in d.edges : e.dst = n => e.src \notin T
        BY <2>0, FirstNode
      <3>2. ASSUME NEW e \in In(d, n)
            PROVE  g.edge[e] # "UNKNOWN" /\ (g.edge[e] = "ACTIVE" => g.node[e.src] = "SUCCESS")
        <4>1. e \in d.edges /\ e.src \in d.nodes /\ e.src \notin T
          BY <2>0, <3>1 DEF In, WellFormed
        <4> QED
          BY <2>0, <4>1 DEF Walked, RoutesFollow
      <3> QED
        BY <3>2, PassedAtTheEnd DEF Passed
    <2> QED
      BY <2>1, <2>2 DEF Statuses
  <1> QED
    BY <1>1, WalkAlways, PTL

(* What runs was selected: of the nodes that run unselected, the first in  *)
(* the order would have an active route from a node that was selected. And *)
(* the nodes that are not skipped are closed under the active routes.      *)
THEOREM OnlySelectedNodesRun == Spec => []RunsOnlySelectedNodes
  <1>1. WalkInv => RunsOnlySelectedNodes
    <2> SUFFICES ASSUME WalkInv PROVE RunsOnlySelectedNodes
      OBVIOUS
    <2> DEFINE Closed(S) == /\ Root \in S
                            /\ \A e \in d.edges : e.src \in S /\ g.edge[e] = "ACTIVE" => e.dst \in S
               T == {n \in d.nodes : g.node[n] \in {"READY", "SUCCESS"} /\ n \notin Selected}
               R == {n \in d.nodes : g.node[n] # "SKIPPED"}
    <2>0. WellFormed(d) /\ Topological(d) /\ Root \in d.nodes /\ Walked(d, g)
      BY DefinitionsAreSound DEF WalkInv, WellFormed
    <2>1. \A n \in d.nodes : n \in Selected <=> \A S \in SUBSET d.nodes : Closed(S) => n \in S
      BY DEF Selected
    <2>2. T = {}
      <3> SUFFICES ASSUME T # {} PROVE FALSE
        OBVIOUS
      <3>1. PICK n \in T : \A e \in d.edges : e.dst = n => e.src \notin T
        BY <2>0, FirstNode
      <3>2. PICK S \in SUBSET d.nodes : Closed(S) /\ n \notin S
        BY <2>1, <3>1
      <3>3. PICK e \in d.edges : e.dst = n /\ g.edge[e] = "ACTIVE"
        BY <2>0, <3>1, <3>2 DEF Walked, NodesAreCalled, In
      <3>4. e.src \in d.nodes /\ g.node[e.src] = "SUCCESS"
        BY <2>0, <3>3 DEF Walked, RoutesFollow, WellFormed
      <3>5. e.src \in S
        BY <2>1, <3>1, <3>2, <3>3, <3>4
      <3> QED
        BY <3>2, <3>3, <3>5
    <2>3. Closed(R)
      <3>1. Root \in R
        BY <2>0 DEF Walked
      <3>2. ASSUME NEW e \in d.edges, e.src \in R, g.edge[e] = "ACTIVE" PROVE e.dst \in R
        BY <2>0, <3>2 DEF Walked, NodesAreCalled, In, WellFormed
      <3> QED
        BY <3>1, <3>2
    <2>4. \A n \in d.nodes : g.node[n] = "SKIPPED" => n \notin Selected
      BY <2>1, <2>3
    <2> QED
      BY <2>2, <2>4 DEF RunsOnlySelectedNodes
  <1> QED
    BY <1>1, WalkAlways, PTL

(* A join is decided after all its routes.                                 *)
THEOREM JoinsWait == Spec => []JoinsWaitForEveryRoute
  <1>1. WalkInv => JoinsWaitForEveryRoute
    <2> SUFFICES ASSUME WalkInv, NEW e \in d.edges, g.node[e.dst] \in {"READY", "SUCCESS", "SKIPPED"}
                 PROVE  g.edge[e] # "UNKNOWN" /\ g.node[e.src] \in {"SUCCESS", "SKIPPED"}
      BY DEF JoinsWaitForEveryRoute
    <2>0. WellFormed(d) /\ Walked(d, g)
      BY DefinitionsAreSound DEF WalkInv
    <2>1. g.edge[e] # "UNKNOWN"
      BY <2>0 DEF Walked, NodesWait
    <2>2. g.node[e.src] \in Statuses
      BY <2>0 DEF Walked, WellFormed
    <2> QED
      BY <2>0, <2>1, <2>2 DEF Walked, RoutesFollow, Statuses
  <1> QED
    BY <1>1, WalkAlways, PTL

(* markOutgoingInactive never finds an active route out of a node that it  *)
(* excludes, for which it would throw (ReadinessPlanner.java 186).         *)
THEOREM OnlySuccessSelects ==
    Spec => [](\A e \in d.edges : g.edge[e] = "ACTIVE" => g.node[e.src] = "SUCCESS")
  <1> DEFINE Selecting == \A e \in d.edges : g.edge[e] = "ACTIVE" => g.node[e.src] = "SUCCESS"
  <1>1. WalkInv => Selecting
    BY DEF WalkInv, Walked, RoutesFollow
  <1> QED
    BY <1>1, WalkAlways, PTL

(* Decisions are final: the loop decides undecided routes only, and a node *)
(* that completes was READY, so its routes were undecided.                 *)
THEOREM DecisionsStay == Spec => DecisionsAreFinal
  <1> DEFINE Final == /\ \A e \in d.edges : g.edge[e] # "UNKNOWN" => g'.edge[e] = g.edge[e]
                      /\ \A n \in d.nodes : g.node[n] \in {"SUCCESS", "SKIPPED"} => g'.node[n] = g.node[n]
  <1>1. WalkInv /\ [Next]_vars => [Final]_vars
    <2> SUFFICES ASSUME WalkInv, Next PROVE Final
      BY DEF vars
    <2>0. /\ WellFormed(d) /\ Topological(d) /\ Walked(d, g)
          /\ g.node \in [d.nodes -> Statuses] /\ g.edge \in [d.edges -> EdgeState]
      BY DefinitionsAreSound DEF WalkInv, Walked
    <2>1. CASE Visit
      <3>0. at \in Positions /\ d.order \in Seq(d.nodes)
        BY <2>0, <2>1 DEF Visit, Positions, Topological
      <3>1. PICK n \in d.nodes : LeaveAlone(n) \/ Exclude(n) \/ MarkReady(n)
        BY <2>1, <3>0 DEF Visit, Positions
      <3>2. CASE LeaveAlone(n)
        BY <2>0, <3>2, LeaveAloneMeans
      <3>3. CASE Exclude(n)
        <4>1. g.node[n] = "PENDING" /\ g' = Without(d, g, n)
          BY <2>0, <3>3, ExcludeMeans
        <4> QED
          BY <2>0, <4>1 DEF Without
      <3>4. CASE MarkReady(n)
        <4>1. g.node[n] = "PENDING" /\ g' = [g EXCEPT !.node[n] = "READY"]
          BY <2>0, <3>4, MarkReadyMeans
        <4>2. g'.node = [g.node EXCEPT ![n] = "READY"] /\ g'.edge = g.edge
          BY <2>0, <4>1 DEF Walked
        <4> QED
          BY <2>0, <4>1, <4>2
      <3> QED
        BY <3>1, <3>2, <3>3, <3>4
    <2>2. CASE EndPass
      BY <2>2 DEF EndPass
    <2>3. CASE Complete
      <3>1. PICK n \in d.nodes : g.node[n] = "READY" /\ \E p \in d.ports[n] : g' = AfterSuccess(d, g, n, p)
        BY <2>3 DEF Complete
      <3>2. \A e \in d.edges : e.src = n => g.edge[e] = "UNKNOWN"
        BY <2>0, <3>1 DEF Walked, RoutesFollow
      <3>3. /\ \A e \in d.edges : e.src # n => g'.edge[e] = g.edge[e]
            /\ \A m \in d.nodes : m # n => g'.node[m] = g.node[m]
        BY <2>0, <3>1 DEF AfterSuccess
      <3> QED
        BY <3>1, <3>2, <3>3
    <2> QED
      BY <2>1, <2>2, <2>3 DEF Next
  <1> QED
    BY <1>1, WalkAlways, PTL DEF Spec, DecisionsAreFinal
=============================================================================
