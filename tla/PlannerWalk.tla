---------------------------- MODULE PlannerWalk -----------------------------
(***************************************************************************)
(* Every way one graph can be walked: ready() runs, some READY node        *)
(* completes with one of its ports, ready() runs again. The graph is a     *)
(* variable, chosen once from Definitions, so one run covers many shapes.  *)
(* ready() is the loop the code writes, a step per visited node; the rest  *)
(* of the project uses the closed form ReadinessPlanner!Ready.             *)
(***************************************************************************)
EXTENDS ReadinessPlanner, Sequences

CONSTANTS
    Definitions,    \* the graphs to walk, each with its topological order
    Root            \* the trigger that fired

VARIABLES
    d,              \* the definition of this walk
    g,              \* its graph state
    at,             \* the next position of the loop's pass, 0 outside ready()
    changed,        \* the loop's flag of the same name
    before          \* the graph state ready() was called with

vars == <<d, g, at, changed, before>>

(* index() lists every node once, in an order in which edges only lead     *)
(* forward.                                                                *)
Topological(def) ==
    /\ def.order \in Seq(def.nodes)
    /\ \A n \in def.nodes : \E i \in 1 .. Len(def.order) : def.order[i] = n
    /\ \A i, j \in 1 .. Len(def.order) : def.order[i] = def.order[j] => i = j
    /\ \A e \in def.edges : \E i, j \in 1 .. Len(def.order) :
          i < j /\ def.order[i] = e.src /\ def.order[j] = e.dst

ASSUME DefinitionsAreDags ==
    \A def \in Definitions : WellFormed(def) /\ Root \in def.triggers /\ Topological(def)

-----------------------------------------------------------------------------
Init ==
    /\ d \in Definitions
    /\ g = Initialize(d, Root)
    /\ at = 1
    /\ changed = FALSE
    /\ before = g

Activity(n) == {g.edge[e] : e \in In(d, n)}

(* The body of the loop for the node at the current position: left alone,  *)
(* excluded with its undecided routes, or READY.                           *)
LeaveAlone(n) ==
    /\ \/ g.node[n] # "PENDING"
       \/ "UNKNOWN" \in Activity(n)
       \/ /\ "ACTIVE" \in Activity(n)
          /\ \E e \in In(d, n) : g.edge[e] = "ACTIVE" /\ g.node[e.src] # "SUCCESS"
    /\ UNCHANGED <<g, changed>>

ExcludeDefect(n) ==
    /\ g.node[n] = "PENDING"
    /\ Activity(n) \subseteq {"INACTIVE"}
    /\ g' = [g EXCEPT !.node[n] = "SKIPPED"]
    /\ changed' = TRUE

Exclude(n) ==
    /\ g.node[n] = "PENDING"
    /\ Activity(n) \subseteq {"INACTIVE"}
    /\ g' = [node |-> [g.node EXCEPT ![n] = "SKIPPED"],
             edge |-> [e \in d.edges |-> IF e.src = n /\ g.edge[e] = "UNKNOWN"
                                         THEN "INACTIVE" ELSE g.edge[e]]]
    /\ changed' = TRUE

ImpatientDefect(n) ==
    /\ g.node[n] = "PENDING"
    /\ "ACTIVE" \in Activity(n)
    /\ \A e \in In(d, n) : g.edge[e] = "ACTIVE" => g.node[e.src] = "SUCCESS"
    /\ g' = [g EXCEPT !.node[n] = "READY"]
    /\ changed' = TRUE

MarkReady(n) ==
    /\ g.node[n] = "PENDING"
    /\ "UNKNOWN" \notin Activity(n)
    /\ "ACTIVE" \in Activity(n)
    /\ \A e \in In(d, n) : g.edge[e] = "ACTIVE" => g.node[e.src] = "SUCCESS"
    /\ g' = [g EXCEPT !.node[n] = "READY"]
    /\ changed' = TRUE

Visit ==
    /\ at \in 1 .. Len(d.order)
    /\ LeaveAlone(d.order[at]) \/ Exclude(d.order[at]) \/ MarkReady(d.order[at])
    /\ at' = at + 1
    /\ UNCHANGED <<d, before>>

(* do { ... } while (changed)                                              *)
EndPass ==
    /\ at = Len(d.order) + 1
    /\ at' = IF changed THEN 1 ELSE 0
    /\ changed' = FALSE
    /\ UNCHANGED <<d, g, before>>

(* afterSuccess: a node completes with one of its ports, and the runner's  *)
(* next turn calls ready() again. Which READY node completes first is up   *)
(* to the providers.                                                       *)
Complete ==
    /\ at = 0
    /\ \E n \in d.nodes : \E p \in d.ports[n] :
          /\ g.node[n] = "READY"
          /\ g' = AfterSuccess(d, g, n, p)
    /\ at' = 1
    /\ before' = g'
    /\ UNCHANGED <<d, changed>>

Next == Visit \/ EndPass \/ Complete

Spec == Init /\ [][Next]_vars /\ WF_vars(Next)

-----------------------------------------------------------------------------
(* The closed form used by the execution model computes what the loop of   *)
(* ready() computes, in every graph state a walk can reach.                *)
LoopMatchesClosedForm == at = 0 => g = Ready(d, before)

(* Once ready() has run, either some node is READY or the whole graph is   *)
(* SUCCESS or SKIPPED: the runner's "could not make progress" branch       *)
(* (ExecutionRunner 215-219) is never the fate of a valid graph.           *)
NeverStuck ==
    at = 0 => \/ \E n \in d.nodes : g.node[n] = "READY"
              \/ \A n \in d.nodes : g.node[n] \in {"SUCCESS", "SKIPPED"}

(* A node is READY or SUCCESS only if a chain of selected routes leads to  *)
(* it from the fired trigger, and SKIPPED only when no such chain exists.  *)
(* The reference is the least set closed under the active edges.           *)
Selected ==
    {n \in d.nodes : \A S \in SUBSET d.nodes :
        (/\ Root \in S
         /\ \A e \in d.edges : e.src \in S /\ g.edge[e] = "ACTIVE" => e.dst \in S)
        => n \in S}

RunsOnlySelectedNodes ==
    \A n \in d.nodes :
        /\ g.node[n] \in {"READY", "SUCCESS"} => n \in Selected
        /\ g.node[n] = "SKIPPED" => n \notin Selected

(* A node is decided, to run or to be skipped, only after every route into *)
(* it is: none of its predecessors may still succeed afterwards.           *)
JoinsWaitForEveryRoute ==
    \A e \in d.edges :
        g.node[e.dst] \in {"READY", "SUCCESS", "SKIPPED"} =>
            /\ g.edge[e] # "UNKNOWN"
            /\ g.node[e.src] \in {"SUCCESS", "SKIPPED"}

(* A route once selected or excluded is never decided differently, and a   *)
(* node that succeeded or was skipped never runs again (fenced commits     *)
(* persist each of these graph states).                                    *)
DecisionsAreFinal ==
    [][/\ \A e \in d.edges : g.edge[e] # "UNKNOWN" => g'.edge[e] = g.edge[e]
       /\ \A n \in d.nodes : g.node[n] \in {"SUCCESS", "SKIPPED"} => g'.node[n] = g.node[n]]_vars
=============================================================================
