----------------------------- MODULE JobDispatch -----------------------------
(***************************************************************************)
(* What the job delivery promises to a run: as long as nobody owns it and  *)
(* it has not ended, a worker will come and claim it, and every claim of a *)
(* run that was already begun uses up one recovery. ExecutionRun assumes   *)
(* it (Fairness, the claim conjunct); JobDelivery implements it.           *)
(***************************************************************************)
EXTENDS Naturals

CONSTANTS Workers, Nobody, MaxRecoveries

VARIABLES status, holder, recoveries

vars == <<status, holder, recoveries>>

Init == status = "QUEUED" /\ holder = Nobody /\ recoveries = 0

Unowned == status \in {"QUEUED", "RUNNING"} /\ holder = Nobody

Used == IF status = "RUNNING" THEN recoveries + 1 ELSE recoveries

Claim ==
    /\ Unowned
    /\ recoveries' = Used
    /\ IF Used > MaxRecoveries
       THEN status' = "ENDED" /\ holder' = Nobody
       ELSE status' = "RUNNING" /\ holder' \in Workers

LoseOwner ==
    /\ holder # Nobody
    /\ holder' = Nobody
    /\ UNCHANGED <<status, recoveries>>

(* The owner ends it, or the user stops one that was not begun.            *)
End ==
    /\ holder # Nobody \/ status = "QUEUED"
    /\ status' = "ENDED"
    /\ holder' = Nobody
    /\ UNCHANGED recoveries

Next == Claim \/ LoseOwner \/ End

Spec == Init /\ [][Next]_vars

FairSpec == Spec /\ WF_vars(Claim)
=============================================================================
