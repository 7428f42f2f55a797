----------------------- MODULE ReadinessPlannerProofs -----------------------
(***************************************************************************)
(* What the recursion of Excluded says of a node, for every well-formed    *)
(* graph. Its equation has a solution, the greatest one, whether or not    *)
(* the graph is acyclic, so the CHOOSE behind it takes a solution.         *)
(***************************************************************************)
EXTENDS ReadinessPlanner, TLAPS

(* One unfolding of the recursion.                                         *)
Hopeless(def, x, f) ==
    [n \in def.nodes |-> \A e \in In(def, n) :
        \/ x.edge[e] = "INACTIVE"
        \/ x.edge[e] = "UNKNOWN" /\ x.node[e.src] = "PENDING" /\ f[e.src]]

(* Excluded is made of a solution, if there is one.                        *)
LEMMA ExcludedIsAFixpoint ==
    ASSUME NEW def, NEW x
    PROVE  Excluded(def, x) = {n \in def.nodes : x.node[n] = "PENDING" /\ (CHOOSE f : f = Hopeless(def, x, f))[n]}
  BY DEF Excluded, Hopeless

(* The union of all sets of nodes that could be hopeless together is one.  *)
LEMMA FixpointExists ==
    ASSUME NEW def, WellFormed(def), NEW x
    PROVE  \E f : f = Hopeless(def, x, f)
  <1> DEFINE Shut(e, T) == \/ x.edge[e] = "INACTIVE"
                           \/ x.edge[e] = "UNKNOWN" /\ x.node[e.src] = "PENDING" /\ e.src \in T
             Closes(T) == \A n \in T : \A e \in In(def, n) : Shut(e, T)
             H == UNION {T \in SUBSET def.nodes : Closes(T)}
             f == [n \in def.nodes |-> n \in H]
  <1>0. \A e \in def.edges : e.src \in def.nodes
    BY DEF WellFormed
  <1>1. H \in SUBSET def.nodes
    OBVIOUS
  <1>2. ASSUME NEW n \in H, NEW e \in In(def, n) PROVE Shut(e, H)
    <2>1. PICK T \in SUBSET def.nodes : n \in T /\ Closes(T)
      BY <1>2
    <2>2. Shut(e, T)
      BY <1>2, <2>1
    <2>3. T \subseteq H
      BY <2>1
    <2> QED
      BY <2>2, <2>3
  <1>3. ASSUME NEW n \in def.nodes, \A e \in In(def, n) : Shut(e, H) PROVE n \in H
    <2> DEFINE T == H \union {n}
    <2>1. T \in SUBSET def.nodes /\ n \in T
      BY <1>1
    <2>2. Closes(T)
      BY <1>2, <1>3
    <2> QED
      BY <2>1, <2>2
  <1>4. \A n \in def.nodes : n \in H <=> \A e \in In(def, n) : Shut(e, H)
    BY <1>2, <1>3
  <1> HIDE DEF H
  <1>5. \A n \in def.nodes : \A e \in In(def, n) : f[e.src] <=> e.src \in H
    BY <1>0 DEF In
  <1>6. \A n \in def.nodes : f[n] <=> Hopeless(def, x, f)[n]
    <2> TAKE n \in def.nodes
    <2> DEFINE shut == \A e \in In(def, n) :
                  \/ x.edge[e] = "INACTIVE"
                  \/ x.edge[e] = "UNKNOWN" /\ x.node[e.src] = "PENDING" /\ f[e.src]
    <2>1. Hopeless(def, x, f)[n] = shut
      BY DEF Hopeless
    <2>2. shut <=> n \in H
      BY <1>4, <1>5
    <2>3. f[n] <=> n \in H
      OBVIOUS
    <2> HIDE DEF f, shut
    <2> QED
      BY <2>1, <2>2, <2>3
  <1>7. f \in [def.nodes -> BOOLEAN] /\ Hopeless(def, x, f) \in [def.nodes -> BOOLEAN]
    BY DEF Hopeless
  <1> HIDE DEF f
  <1>8. \A n \in def.nodes : f[n] = Hopeless(def, x, f)[n]
    BY <1>6, <1>7
  <1> QED
    BY <1>7, <1>8

(* What the recursion says of one node.                                    *)
LEMMA ExcludedUnfolds ==
    ASSUME NEW def, WellFormed(def), NEW x, NEW n \in def.nodes
    PROVE  n \in Excluded(def, x) <=>
              /\ x.node[n] = "PENDING"
              /\ \A e \in In(def, n) :
                    \/ x.edge[e] = "INACTIVE"
                    \/ x.edge[e] = "UNKNOWN" /\ e.src \in Excluded(def, x)
  <1> DEFINE f == CHOOSE h : h = Hopeless(def, x, h)
  <1>1. f = Hopeless(def, x, f)
    BY FixpointExists
  <1>2. Excluded(def, x) = {m \in def.nodes : x.node[m] = "PENDING" /\ f[m]}
    BY ExcludedIsAFixpoint
  <1> HIDE DEF f
  <1>3. f[n] <=> \A e \in In(def, n) :
                    \/ x.edge[e] = "INACTIVE"
                    \/ x.edge[e] = "UNKNOWN" /\ x.node[e.src] = "PENDING" /\ f[e.src]
    <2> DEFINE shut == \A e \in In(def, n) :
                  \/ x.edge[e] = "INACTIVE"
                  \/ x.edge[e] = "UNKNOWN" /\ x.node[e.src] = "PENDING" /\ f[e.src]
    <2>1. Hopeless(def, x, f)[n] = shut
      BY DEF Hopeless
    <2> HIDE DEF shut
    <2>2. f[n] = shut
      BY <1>1, <2>1
    <2> QED
      BY <2>2 DEF shut
  <1>4. \A e \in In(def, n) : e.src \in def.nodes
    BY DEF WellFormed, In
  <1> QED
    BY <1>2, <1>3, <1>4
=============================================================================
