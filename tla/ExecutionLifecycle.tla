------------------------- MODULE ExecutionLifecycle -------------------------
(***************************************************************************)
(* What a workflow run promises to those who only see its rows and its     *)
(* notifications (the run views, the monitoring, the Notification          *)
(* service): how its status and the statuses of its nodes may move, that   *)
(* nodes run in dependency order, and that the result is announced in the  *)
(* very step that makes it durable. Leases, workers, retries, crashes and  *)
(* recoveries do not show at this level; ExecutionRun implements it.       *)
(***************************************************************************)
EXTENDS Naturals

CONSTANTS
    Nodes,      \* the nodes of the pinned version
    Before,     \* Before[n]: the sources of the edges into n
    Root        \* the trigger that fired

VARIABLES
    status,     \* of the run
    node,       \* statuses of its nodes
    told        \* the results announced so far, with how often

vars == <<status, node, told>>

Closed == {"SUCCESS", "SKIPPED", "FAILED", "CANCELLED"}

(* A node waits for its predecessors, is started, and comes back to wait   *)
(* for a retry, or is closed; a closed node stays as it is.                *)
Moves ==
    ({"PENDING"} \X {"READY", "SKIPPED", "CANCELLED", "FAILED"})
    \union ({"READY"}   \X {"RUNNING", "CANCELLED", "FAILED"})
    \union ({"RUNNING"} \X {"SUCCESS", "WAITING", "FAILED"})
    \union ({"WAITING"} \X {"READY", "CANCELLED", "FAILED"})

May(n) == \/ node'[n] = node[n]
          \/ <<node[n], node'[n]>> \in Moves
          \/ n = Root /\ node[n] = "PENDING" /\ node'[n] = "SUCCESS"

Init ==
    /\ status = "QUEUED"
    /\ node = [n \in Nodes |-> "PENDING"]
    /\ told = [s \in {"SUCCESS", "FAILED"} |-> 0]

Begin ==
    /\ status = "QUEUED"
    /\ status' = "RUNNING"
    /\ UNCHANGED <<node, told>>

(* Nodes start only when everything before them succeeded or was skipped.  *)
Advance ==
    /\ status = "RUNNING"
    /\ \A n \in Nodes : May(n)
    /\ \A n \in Nodes : node'[n] = "RUNNING" /\ node[n] # "RUNNING" =>
            \A m \in Before[n] : node[m] \in {"SUCCESS", "SKIPPED"}
    /\ UNCHANGED <<status, told>>

(* The end closes every node and is announced exactly once, with it.       *)
End(result) ==
    /\ status = "RUNNING"
    /\ status' = result
    /\ \A n \in Nodes : May(n) /\ node'[n] \in Closed
    /\ result = "SUCCESS" => \A n \in Nodes : node[n] \in {"SUCCESS", "SKIPPED"}
    /\ told' = IF result = "CANCELLED" THEN told ELSE [told EXCEPT ![result] = 1]
    /\ result # "CANCELLED" => told[result] = 0

(* A run no worker has begun may be stopped; one whose version or rows no  *)
(* longer fit together is failed without an announcement.                  *)
Withdraw ==
    /\ status = "QUEUED"
    /\ status' = "CANCELLED"
    /\ node' = [n \in Nodes |-> "CANCELLED"]
    /\ UNCHANGED told

Abandon ==
    /\ status \in {"QUEUED", "RUNNING"}
    /\ status' = "FAILED"
    /\ \A n \in Nodes : May(n) /\ node'[n] \in Closed
    /\ UNCHANGED told

Next ==
    \/ Begin \/ Advance \/ Withdraw \/ Abandon
    \/ \E result \in {"SUCCESS", "FAILED", "CANCELLED"} : End(result)

Spec == Init /\ [][Next]_vars
=============================================================================
