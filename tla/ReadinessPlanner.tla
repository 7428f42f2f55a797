-------------------------- MODULE ReadinessPlanner --------------------------
(***************************************************************************)
(* The pure operators of domain/execution/ReadinessPlanner.java: which     *)
(* nodes of a workflow graph may start, and which are excluded because no  *)
(* active route can reach them any more.                                   *)
(*                                                                         *)
(* A definition d is a record                                              *)
(*   nodes    : the node ids                                               *)
(*   triggers : the nodes whose type starts with "trigger."                *)
(*   edges    : a set of [src, port, dst]; port is "none" except on the    *)
(*              edges that leave a logic.condition or a logic.switch       *)
(*   ports    : for every node the ports a successful result may select,   *)
(*              {"none"} for a node that does not branch                   *)
(* and a graph state g is [node |-> statuses, edge |-> edge states].       *)
(* A name that ends in Defect is a mistake the code does not make; it      *)
(* replaces the definition after it in a run that must then fail.          *)
(***************************************************************************)
EXTENDS Naturals

NodeStatus == {"PENDING", "READY", "RUNNING", "WAITING",
               "SUCCESS", "SKIPPED", "FAILED", "CANCELLED"}
EdgeState  == {"UNKNOWN", "ACTIVE", "INACTIVE"}

GraphStates(d) == [node : [d.nodes -> NodeStatus], edge : [d.edges -> EdgeState]]

In(d, n)  == {e \in d.edges : e.dst = n}
Out(d, n) == {e \in d.edges : e.src = n}

(* What DefinitionValidator guarantees of a published definition and this  *)
(* planner relies on: only a condition or a switch has routes with ports,  *)
(* so a trigger has none. Acyclicity is stated where it is needed.         *)
WellFormed(d) ==
    /\ d.triggers \subseteq d.nodes
    /\ \A e \in d.edges : /\ e.src \in d.nodes /\ e.dst \in d.nodes \ d.triggers
                          /\ e.src \in d.triggers => e.port = "none"

AllTriggersDefect(d, root) ==
    [node |-> [n \in d.nodes |-> IF n \in d.triggers THEN "SUCCESS" ELSE "PENDING"],
     edge |-> [e \in d.edges |-> IF e.src \in d.triggers THEN "ACTIVE" ELSE "UNKNOWN"]]

(* Every trigger but the one that fired is excluded, with its routes.      *)
Initialize(d, root) ==
    [node |-> [n \in d.nodes |-> IF n = root THEN "SUCCESS"
                                 ELSE IF n \in d.triggers THEN "SKIPPED"
                                 ELSE "PENDING"],
     edge |-> [e \in d.edges |-> IF e.src = root THEN "ACTIVE"
                                 ELSE IF e.src \in d.triggers THEN "INACTIVE"
                                 ELSE "UNKNOWN"]]

OnePassBackDefect(d, g) ==
    {n \in d.nodes : g.node[n] = "PENDING" /\ \A e \in In(d, n) : g.edge[e] = "INACTIVE"}

(* ready() loops over a topological order until nothing changes. What it   *)
(* excludes are the PENDING nodes whose incoming edges are all inactive or *)
(* undecided and leaving an excluded node; PlannerWalk checks this closed  *)
(* form against the loop itself.                                           *)
Excluded(d, g) ==
    LET hopeless[n \in d.nodes] ==
            \A e \in In(d, n) :
                \/ g.edge[e] = "INACTIVE"
                \/ g.edge[e] = "UNKNOWN" /\ g.node[e.src] = "PENDING" /\ hopeless[e.src]
    IN  {n \in d.nodes : g.node[n] = "PENDING" /\ hopeless[n]}

EagerDefect(d, g, skip, n) ==
    /\ g.node[n] = "PENDING"
    /\ n \notin skip
    /\ \A e \in In(d, n) : g.edge[e] = "ACTIVE" => g.node[e.src] = "SUCCESS"

(* A PENDING node that is not excluded starts when no incoming edge is     *)
(* undecided and every active one leaves a node that succeeded.            *)
Runnable(d, g, skip, n) ==
    /\ g.node[n] = "PENDING"
    /\ n \notin skip
    /\ \A e \in In(d, n) : \/ g.edge[e] = "INACTIVE"
                           \/ g.edge[e] = "UNKNOWN" /\ e.src \in skip
                           \/ g.edge[e] = "ACTIVE" /\ g.node[e.src] = "SUCCESS"

Ready(d, g) ==
    LET skip == Excluded(d, g) IN
    [node |-> [n \in d.nodes |-> IF n \in skip THEN "SKIPPED"
                                 ELSE IF Runnable(d, g, skip, n) THEN "READY"
                                 ELSE g.node[n]],
     edge |-> [e \in d.edges |-> IF e.src \in skip /\ g.edge[e] = "UNKNOWN"
                                 THEN "INACTIVE" ELSE g.edge[e]]]

AllPortsDefect(d, g, n, port) ==
    [node |-> [g.node EXCEPT ![n] = "SUCCESS"],
     edge |-> [e \in d.edges |-> IF e.src # n THEN g.edge[e] ELSE "ACTIVE"]]

(* The routes of the port a successful node selected become active and its *)
(* other routes inactive.                                                  *)
AfterSuccess(d, g, n, port) ==
    [node |-> [g.node EXCEPT ![n] = "SUCCESS"],
     edge |-> [e \in d.edges |-> IF e.src # n THEN g.edge[e]
                                 ELSE IF e.port = port THEN "ACTIVE"
                                 ELSE "INACTIVE"]]
=============================================================================
