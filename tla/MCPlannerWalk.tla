--------------------------- MODULE MCPlannerWalk ----------------------------
(* Two triggers (r fires, s does not), a condition a, a plain node b and   *)
(* a join c: every subset of eight candidate edges is a graph to walk.     *)
EXTENDS PlannerWalk

MCNodes == {"r", "s", "a", "b", "c"}

Edge(src, port, dst) == [src |-> src, port |-> port, dst |-> dst]

Candidates == {Edge("r", "none", "a"), Edge("r", "none", "b"),
               Edge("s", "none", "a"), Edge("s", "none", "c"),
               Edge("a", "true", "b"), Edge("a", "true", "c"),
               Edge("a", "false", "c"), Edge("b", "none", "c")}

MCDefinitions ==
    {[nodes |-> MCNodes, triggers |-> {"r", "s"}, edges |-> E,
      order |-> <<"r", "s", "a", "b", "c">>,
      ports |-> [n \in MCNodes |-> IF n = "a" THEN {"true", "false"} ELSE {"none"}]]
     : E \in SUBSET Candidates}
=============================================================================
