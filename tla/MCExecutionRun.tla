--------------------------- MODULE MCExecutionRun ---------------------------
(* Instances of ExecutionRun for TLC: a trigger r and a few nodes behind   *)
(* it: one, two side by side, a chain beside another, or a condition.      *)
EXTENDS ExecutionRun, TLC

Edge(src, port, dst) == [src |-> src, port |-> port, dst |-> dst]

(* r -> b *)
Single == [nodes |-> {"r", "b"}, triggers |-> {"r"}, edges |-> {Edge("r", "none", "b")},
           ports |-> [n \in {"r", "b"} |-> {"none"}]]

(* r -> a, r -> b *)
Fork == [nodes |-> {"r", "a", "b"}, triggers |-> {"r"},
         edges |-> {Edge("r", "none", "a"), Edge("r", "none", "b")},
         ports |-> [n \in {"r", "a", "b"} |-> {"none"}]]

(* r -> a -> b, r -> c *)
Fork3 == [nodes |-> {"r", "a", "b", "c"}, triggers |-> {"r"},
          edges |-> {Edge("r", "none", "a"), Edge("a", "none", "b"), Edge("r", "none", "c")},
          ports |-> [n \in {"r", "a", "b", "c"} |-> {"none"}]]

(* r -> a, a decides between b and c; beside them r -> d. *)
Branch == [nodes |-> {"r", "a", "b", "c", "d"}, triggers |-> {"r"},
           edges |-> {Edge("r", "none", "a"), Edge("a", "true", "b"), Edge("a", "false", "c"),
                     Edge("r", "none", "d")},
           ports |-> [n \in {"r", "a", "b", "c", "d"} |-> IF n = "a" THEN {"true", "false"}
                                                         ELSE {"none"}]]

OneProcess == [w \in Workers |-> "p"]

(* Two threads of one process, which nothing distinguishes, and a thread   *)
(* of another.                                                             *)
TwoProcesses == [w \in Workers |-> IF w = "w3" THEN "q" ELSE "p"]
Siblings     == Permutations(Workers \ {"w3"})
=============================================================================
