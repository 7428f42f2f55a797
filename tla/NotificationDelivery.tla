------------------------- MODULE NotificationDelivery -------------------------
(***************************************************************************)
(* notification-service: how DeliveryWorker takes stored deliveries to     *)
(* Telegram, Expo or SMTP. Several instances share the table; each handles *)
(* one row at a time: claim, call the provider, write the result. Between  *)
(* the three the lease may run out, another instance may claim the row,    *)
(* the process may die, and the answer or the write may get lost.          *)
(*                                                                         *)
(* A timestamp is what the queries tell apart: a row is due now, later or  *)
(* never, a lease is held or expired, a receipt is young or 23 hours old.  *)
(* updated_at, the fence of a result, is different for every claim: holder *)
(* names the worker whose claim wrote it.                                  *)
(***************************************************************************)
EXTENDS Integers, FiniteSets

CONSTANTS
    Workers,       \* instances of the service
    Rows,          \* rows of notification_deliveries, all stored already
    Ticketed,      \* rows for Expo, which answers with a ticket; others are sent or not
    MaxAttempts,   \* NOTIFICATION_MAX_ATTEMPTS
    MaxFaults,     \* crashes, lost writes and overrun leases in a behaviour
    Nobody

ASSUME DeliveryAssumption ==
    /\ IsFiniteSet(Workers)
    /\ Nobody \notin Workers \union Rows
    /\ Ticketed \subseteq Rows
    /\ MaxAttempts \in Nat \ {0}
    /\ MaxFaults \in Nat

VARIABLES
    rows,      \* the table
    worker,    \* what each instance is doing
    calls,     \* history: sends of a row to its provider
    credit,    \* history: one, plus what may excuse another acceptance, minus acceptances
    faults     \* faults that may still happen

vars == <<rows, worker, calls, credit, faults>>

Statuses == {"PENDING", "SENDING", "SENT", "FAILED", "PURGED"}
Receipts == {"none", "young", "old"}

(* What comes back from provider.send and provider.receipt: a DeliveryError *)
(* is retry, resend (the receipt reports a failure worth a new send) or    *)
(* refused.                                                                *)
Answers == {"sent", "ticket", "pending", "retry", "resend", "refused"}

Rowset == [status : Statuses, tries : 0 .. MaxAttempts, due : {"now", "later", "never"},
           receipt : Receipts, holder : Workers \union {Nobody}, lease : {"held", "expired"}]

Idle == [pc |-> "idle", row |-> Nobody, receipt |-> FALSE, answer |-> "none"]

Fresh == [status |-> "PENDING", tries |-> 0, due |-> "now", receipt |-> "none",
          holder |-> Nobody, lease |-> "expired"]

Init ==
    /\ rows = [r \in Rows |-> Fresh]
    /\ worker = [w \in Workers |-> Idle]
    /\ calls = [r \in Rows |-> 0]
    /\ credit = [r \in Rows |-> 1]
    /\ faults = MaxFaults

-----------------------------------------------------------------------------
(* claim(): one transaction that gives up what has no attempt left and     *)
(* leases the oldest row that is due.                                      *)
Overdue(row) == row.status = "SENDING" /\ row.lease = "expired"

GivenUp(row) ==
    IF Overdue(row) /\ row.tries >= MaxAttempts /\ row.receipt = "none"
    THEN [row EXCEPT !.status = "FAILED", !.due = "never", !.holder = Nobody]
    ELSE row

ClaimableDefect(row) ==
    \/ row.status \in {"PENDING", "FAILED"} /\ row.due = "now"
    \/ Overdue(row)

Claimable(row) ==
    /\ \/ row.status \in {"PENDING", "FAILED"} /\ row.due = "now"
       \/ Overdue(row)
    /\ row.tries < MaxAttempts \/ row.receipt # "none"

LeasedDefect(row, w) == [row EXCEPT !.status = "SENDING", !.holder = w, !.lease = "held",
                                    !.tries = IF row.status = "SENDING" THEN @ ELSE @ + 1]

Leased(row, w) == [row EXCEPT !.status = "SENDING", !.holder = w, !.lease = "held",
                              !.tries = IF row.receipt = "none" THEN @ + 1 ELSE @]

(* deliver() looks at the receipt the claim returned: 23 hours are too old *)
(* to ask, a younger one is asked for, and without one the row is sent.    *)
Started(r) ==
    [pc      |-> CASE rows[r].receipt = "none" -> "send"
                   [] rows[r].receipt = "young" -> "ask"
                   [] rows[r].receipt = "old" -> "answered",
     row     |-> r,
     receipt |-> rows[r].receipt # "none",
     answer  |-> IF rows[r].receipt = "old" THEN "refused" ELSE "none"]

Claim(w) ==
    /\ worker[w].pc = "idle"
    /\ \E r \in Rows :
         /\ Claimable(rows[r])
         /\ rows' = [q \in Rows |-> IF q = r THEN Leased(rows[r], w) ELSE GivenUp(rows[q])]
         /\ worker' = [worker EXCEPT ![w] = Started(r)]
    /\ UNCHANGED <<calls, credit, faults>>

ClaimNothing(w) ==
    /\ worker[w].pc = "idle"
    /\ \A r \in Rows : ~Claimable(rows[r])
    /\ rows' = [r \in Rows |-> GivenUp(rows[r])]
    /\ UNCHANGED <<worker, calls, credit, faults>>

(* The provider answers. It may accept a message and its answer be lost:   *)
(* the call times out, which is a retryable error.                         *)
Answered(w, answer) == [worker EXCEPT ![w].pc = "answered", ![w].answer = answer]

Send(w) ==
    LET r == worker[w].row
    IN  /\ worker[w].pc = "send"
        /\ calls' = [calls EXCEPT ![r] = @ + 1]
        /\ \/ /\ worker' = Answered(w, IF r \in Ticketed THEN "ticket" ELSE "sent")
              /\ credit' = [credit EXCEPT ![r] = @ - 1]
           \/ /\ \E answer \in {"retry", "refused"} : worker' = Answered(w, answer)
              /\ UNCHANGED credit
        /\ UNCHANGED <<rows, faults>>

(* One acceptance, and one excuse for the next.                            *)
SendAndLoseTheAnswer(w) ==
    /\ worker[w].pc = "send"
    /\ calls' = [calls EXCEPT ![worker[w].row] = @ + 1]
    /\ worker' = Answered(w, "retry")
    /\ UNCHANGED <<rows, credit, faults>>

AskForReceipt(w) ==
    LET r == worker[w].row
    IN  /\ worker[w].pc = "ask"
        /\ \E answer \in {"sent", "pending", "retry", "resend", "refused"} :
             /\ worker' = Answered(w, answer)
             /\ credit' = [credit EXCEPT ![r] = IF answer = "resend" THEN @ + 1 ELSE @]
        /\ UNCHANGED <<rows, calls, faults>>

-----------------------------------------------------------------------------
(* finish() writes the result where id, SENDING and updated_at still match. *)
StatusFence(w) == rows[worker[w].row].status = "SENDING"

Fenced(w) ==
    /\ rows[worker[w].row].status = "SENDING"
    /\ rows[worker[w].row].holder = w

RetryableDefect(w) ==
    /\ worker[w].answer \in {"retry", "resend"}
    /\ rows[worker[w].row].tries <= MaxAttempts

Retryable(w) ==
    /\ worker[w].answer \in {"retry", "resend"}
    /\ \/ worker[w].receipt /\ worker[w].answer # "resend"
       \/ rows[worker[w].row].tries < MaxAttempts

ForgetfulDefect(w, row) ==
    CASE worker[w].answer = "sent" ->
           [row EXCEPT !.status = "SENT", !.due = "never", !.holder = Nobody]
      [] worker[w].answer \in {"ticket", "pending"} ->
           [row EXCEPT !.status = "PENDING", !.due = "later", !.holder = Nobody]
      [] OTHER ->
           [row EXCEPT !.status = "FAILED", !.holder = Nobody,
                       !.due = IF Retryable(w) THEN "later" ELSE "never"]

(* deliver(): SENT, PENDING for the next look at the receipt, or FAILED.   *)
Result(w, row) ==
    CASE worker[w].answer = "sent" ->
           [row EXCEPT !.status = "SENT", !.due = "never", !.holder = Nobody]
      [] worker[w].answer = "ticket" ->
           [row EXCEPT !.status = "PENDING", !.due = "later", !.holder = Nobody, !.receipt = "young"]
      [] worker[w].answer = "pending" ->
           [row EXCEPT !.status = "PENDING", !.due = "later", !.holder = Nobody]
      [] worker[w].answer \in {"retry", "resend", "refused"} ->
           [row EXCEPT !.status = "FAILED", !.holder = Nobody,
                       !.due = IF Retryable(w) THEN "later" ELSE "never",
                       !.receipt = IF worker[w].answer = "resend" THEN "none" ELSE @]

Finish(w) ==
    LET r == worker[w].row
    IN  /\ worker[w].pc = "answered"
        /\ rows' = [rows EXCEPT ![r] = IF Fenced(w) THEN Result(w, @) ELSE @]
        /\ worker' = [worker EXCEPT ![w] = Idle]
        /\ UNCHANGED <<calls, credit, faults>>

(* The worker loses its row: every try of the write fails and the tick     *)
(* throws, or the process dies and comes back. The lease runs out.         *)
Unwritten(w) ==
    worker[w].pc = "answered" /\ worker[w].answer \in {"sent", "ticket"} /\ ~worker[w].receipt /\ Fenced(w)

Drop(w) ==
    /\ worker[w].pc # "idle"
    /\ faults > 0
    /\ faults' = faults - 1
    /\ credit' = IF Unwritten(w) THEN [credit EXCEPT ![worker[w].row] = @ + 1] ELSE credit
    /\ worker' = [worker EXCEPT ![w] = Idle]
    /\ UNCHANGED <<rows, calls>>

-----------------------------------------------------------------------------
(* Time. A lease is at least three request timeouts, so that it runs out   *)
(* under a live worker only when its process stalls.                       *)
Working(r) == \E w \in Workers : worker[w].pc # "idle" /\ worker[w].row = r /\ rows[r].holder = w

LeaseExpires(r) ==
    /\ rows[r].status = "SENDING" /\ rows[r].lease = "held"
    /\ ~Working(r)
    /\ rows' = [rows EXCEPT ![r].lease = "expired"]
    /\ UNCHANGED <<worker, calls, credit, faults>>

LeaseOverrun(r) ==
    /\ rows[r].status = "SENDING" /\ rows[r].lease = "held"
    /\ Working(r)
    /\ faults > 0
    /\ faults' = faults - 1
    /\ rows' = [rows EXCEPT ![r].lease = "expired"]
    /\ credit' = [credit EXCEPT ![r] = IF worker[rows[r].holder].receipt THEN @ ELSE @ + 1]
    /\ UNCHANGED <<worker, calls>>

BecomesDue(r) ==
    /\ rows[r].due = "later"
    /\ rows' = [rows EXCEPT ![r].due = "now"]
    /\ UNCHANGED <<worker, calls, credit, faults>>

ReceiptAges(r) ==
    /\ rows[r].receipt = "young"
    /\ rows' = [rows EXCEPT ![r].receipt = "old"]
    /\ UNCHANGED <<worker, calls, credit, faults>>

(* purgeDeliveries: a row that is settled and older than the retention.    *)
Settled(row) == row.status = "SENT" \/ (row.status = "FAILED" /\ row.due = "never")

Purge(r) ==
    /\ Settled(rows[r])
    /\ rows' = [rows EXCEPT ![r].status = "PURGED"]
    /\ UNCHANGED <<worker, calls, credit, faults>>

WorkerStep(w) == Claim(w) \/ ClaimNothing(w) \/ Send(w) \/ SendAndLoseTheAnswer(w) \/ AskForReceipt(w) \/ Finish(w)

Next ==
    \/ \E w \in Workers : WorkerStep(w) \/ Drop(w)
    \/ \E r \in Rows : LeaseExpires(r) \/ LeaseOverrun(r) \/ BecomesDue(r) \/ ReceiptAges(r) \/ Purge(r)

(* Every tick runs to its end and is followed by another one, and time     *)
(* passes; nothing else is assumed, in particular no provider ever accepts. *)
Fairness ==
    /\ \A w \in Workers : WF_vars(WorkerStep(w))
    /\ \A r \in Rows : WF_vars(LeaseExpires(r)) /\ WF_vars(BecomesDue(r)) /\ WF_vars(ReceiptAges(r))

Spec == Init /\ [][Next]_vars /\ Fairness

-----------------------------------------------------------------------------
TypeOK ==
    /\ rows \in [Rows -> Rowset]
    /\ worker \in [Workers -> [pc : {"idle", "send", "ask", "answered"}, row : Rows \union {Nobody},
                               receipt : BOOLEAN, answer : Answers \union {"none"}]]
    /\ calls \in [Rows -> Nat]
    /\ credit \in [Rows -> Int]
    /\ faults \in 0 .. MaxFaults

(* A message is accepted once, and once more only for a reason: an answer  *)
(* that got lost, a crash or a failed write between the acceptance and its *)
(* row, a lease that ran out under a sender, a receipt that asks for a new *)
(* send. Crashes before the send, lost receipt checks, reads, purges and  *)
(* competing instances are no reason: "receipt persistence avoids          *)
(* unnecessary Expo resends after restart" (README 74).                    *)
AcceptedOncePerReason == \A r \in Rows : credit[r] >= 0

(* "Provider send attempts are bounded" (README 62): retries after errors, *)
(* after crashes, after overrun leases and after failed receipts all count *)
(* against the same limit, whichever instance makes them.                  *)
SendsAreBounded == \A r \in Rows : calls[r] <= MaxAttempts

(* "Lease fences stale completions" (README 68): what a worker brings back *)
(* after another one has claimed its row, or after the row was given up or *)
(* purged, changes nothing; and what is settled stays as it is.            *)
StaleResultsChangeNothing ==
    [][\A r \in Rows :
         /\ \A w \in Workers : worker[w].row = r /\ worker'[w].row # r /\ rows'[r] # rows[r] =>
                                 rows[r].holder = w
         /\ Settled(rows[r]) => /\ rows'[r].status \in {rows[r].status, "PURGED"}
                                /\ rows'[r].due = "never"]_vars

(* Every delivery is sent or given up in the end, whoever dies on the way  *)
(* and even if the provider never answers or never has a receipt.          *)
EveryDeliverySettles == \A r \in Rows : <>(Settled(rows[r]) \/ rows[r].status = "PURGED")
=============================================================================
