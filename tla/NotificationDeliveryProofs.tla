---------------------- MODULE NotificationDeliveryProofs ----------------------
(***************************************************************************)
(* What holds of the notification deliveries for every number of           *)
(* instances, rows, attempts and faults: types, the bound on the sends,    *)
(* the fence of late results, and that acceptances have reasons.           *)
(***************************************************************************)
EXTENDS NotificationDelivery, FiniteSetTheorems, TLAPS

(* What a worker is doing fits its claim: only a receipt is asked for,     *)
(* only a send gets a ticket.                                              *)
SoundWorker(v) ==
    /\ v.pc = "idle" => v = Idle
    /\ v.pc # "idle" => v.row \in Rows
    /\ v.pc = "send" => ~v.receipt
    /\ v.pc = "ask" => v.receipt
    /\ v.pc = "answered" => v.answer \in Answers
    /\ v.pc = "answered" /\ v.answer = "ticket" => ~v.receipt
    /\ v.pc = "answered" /\ v.answer \in {"pending", "resend"} => v.receipt

(* A sent row has no next try; one that waits has.                         *)
SoundRow(row) ==
    /\ row.status = "SENT" => row.due = "never"
    /\ row.status = "PENDING" => row.due # "never"

(* Worker w works on row r under the row's last claim.                     *)
Serves(w, r) ==
    /\ worker[w].pc # "idle" /\ worker[w].row = r
    /\ rows[r].status = "SENDING" /\ rows[r].holder = w

(* As long as a worker holds its row, they agree on whether there is a     *)
(* receipt.                                                                *)
AgreeInv ==
    \A w \in Workers, r \in Rows : Serves(w, r) => (worker[w].receipt <=> rows[r].receipt # "none")

TypeInv ==
    /\ TypeOK
    /\ \A w \in Workers : SoundWorker(worker[w])
    /\ \A r \in Rows : SoundRow(rows[r])
    /\ AgreeInv

(* The workers that are about to call the provider with a row.             *)
Senders(r) == {w \in Workers : worker[w].pc = "send" /\ worker[w].row = r}

(* Every claim for a send has counted a try.                               *)
SendsInv == \A r \in Rows : calls[r] + Cardinality(Senders(r)) <= rows[r].tries

-----------------------------------------------------------------------------
(* Types. First the operators that make rows and workers.                  *)

WorkerSet == [pc : {"idle", "send", "ask", "answered"}, row : Rows \union {Nobody},
              receipt : BOOLEAN, answer : Answers \union {"none"}]

LEMMA IdleSound == Idle \in WorkerSet /\ SoundWorker(Idle)
  BY DEF Idle, WorkerSet, SoundWorker

LEMMA LeasedSound ==
  ASSUME NEW row \in Rowset, NEW w \in Workers, Claimable(row)
  PROVE  /\ Leased(row, w) \in Rowset /\ SoundRow(Leased(row, w))
         /\ Leased(row, w).status = "SENDING" /\ Leased(row, w).holder = w
         /\ Leased(row, w).lease = "held" /\ Leased(row, w).receipt = row.receipt
         /\ Leased(row, w).tries = IF row.receipt = "none" THEN row.tries + 1 ELSE row.tries
  <1> DEFINE tries == IF row.receipt = "none" THEN row.tries + 1 ELSE row.tries
  <1>1. tries \in 0 .. MaxAttempts
    BY DeliveryAssumption DEF Rowset, Claimable
  <1>2. Leased(row, w) = [row EXCEPT !.status = "SENDING", !.holder = w, !.lease = "held", !.tries = tries]
    BY DEF Leased
  <1> HIDE DEF tries
  <1>3. /\ Leased(row, w) \in Rowset
        /\ Leased(row, w).status = "SENDING" /\ Leased(row, w).holder = w
        /\ Leased(row, w).lease = "held" /\ Leased(row, w).receipt = row.receipt
        /\ Leased(row, w).tries = tries
    BY <1>1, <1>2 DEF Rowset, Statuses
  <1> QED
    BY <1>3 DEF tries, SoundRow

LEMMA GivenUpSound ==
  ASSUME NEW row \in Rowset, SoundRow(row)
  PROVE  /\ GivenUp(row) \in Rowset /\ SoundRow(GivenUp(row))
         /\ GivenUp(row).tries = row.tries
         /\ GivenUp(row) = row \/ (row.status = "SENDING" /\ GivenUp(row).status = "FAILED"
                                     /\ GivenUp(row).due = "never")
  BY DEF Rowset, GivenUp, SoundRow, Overdue, Statuses, Receipts

LEMMA StartedSound ==
  ASSUME TypeInv, NEW r \in Rows
  PROVE  /\ Started(r) \in WorkerSet /\ SoundWorker(Started(r))
         /\ Started(r).pc # "idle" /\ Started(r).row = r
         /\ Started(r).receipt <=> rows[r].receipt # "none"
         /\ Started(r).pc = "send" <=> rows[r].receipt = "none"
         /\ Started(r).answer \in {"none", "refused"}
  <1>1. rows[r] \in Rowset
    BY DEF TypeInv, TypeOK
  <1>2. rows[r].receipt \in {"none", "young", "old"}
    BY <1>1 DEF Rowset, Receipts
  <1> QED
    BY <1>2 DEF Started, WorkerSet, SoundWorker, Answers

LEMMA ResultSound ==
  ASSUME NEW w \in Workers, worker[w] \in WorkerSet, SoundWorker(worker[w]),
         worker[w].pc = "answered", NEW row \in Rowset
  PROVE  /\ Result(w, row) \in Rowset /\ SoundRow(Result(w, row))
         /\ Result(w, row).status # "SENDING" /\ Result(w, row).tries = row.tries
         /\ worker[w].answer \in {"sent", "ticket", "refused"} => ~( Result(w, row).due # "never" /\ Result(w, row).receipt = "none")
         /\ row.receipt # "none" /\ worker[w].answer # "resend" => Result(w, row).receipt # "none"
  <1>1. worker[w].answer \in Answers
    BY DEF SoundWorker
  <1>2. CASE worker[w].answer = "sent"
    BY <1>2 DEF Result, Rowset, SoundRow, Statuses, Receipts
  <1>3. CASE worker[w].answer = "ticket"
    BY <1>3 DEF Result, Rowset, SoundRow, Statuses, Receipts
  <1>4. CASE worker[w].answer = "pending"
    BY <1>4 DEF Result, Rowset, SoundRow, Statuses, Receipts
  <1>5. CASE worker[w].answer \in {"retry", "resend", "refused"}
    <2>1. worker[w].answer = "refused" => ~Retryable(w)
      BY DEF Retryable
    <2>2. Result(w, row) = [row EXCEPT !.status = "FAILED", !.holder = Nobody,
                              !.due = IF Retryable(w) THEN "later" ELSE "never",
                              !.receipt = IF worker[w].answer = "resend" THEN "none" ELSE @]
      BY <1>5 DEF Result
    <2> QED
      BY <1>5, <2>1, <2>2 DEF Rowset, SoundRow, Statuses, Receipts
  <1> QED
    BY <1>1, <1>2, <1>3, <1>4, <1>5 DEF Answers

LEMMA TypeParts ==
  ASSUME TypeInv
  PROVE  /\ rows \in [Rows -> Rowset] /\ worker \in [Workers -> WorkerSet]
         /\ calls \in [Rows -> Nat] /\ credit \in [Rows -> Int] /\ faults \in 0 .. MaxFaults
  BY DEF TypeInv, TypeOK, WorkerSet

LEMMA InitTyped == Init => TypeInv
  <1> SUFFICES ASSUME Init PROVE TypeInv
    OBVIOUS
  <1>1. Fresh \in Rowset /\ SoundRow(Fresh)
    BY DeliveryAssumption DEF Fresh, Rowset, SoundRow, Statuses, Receipts
  <1>2. TypeOK
    BY <1>1, IdleSound, DeliveryAssumption DEF Init, TypeOK, WorkerSet
  <1>3. AgreeInv
    BY DEF AgreeInv, Serves, Init, Idle
  <1> QED
    BY <1>1, <1>2, <1>3, IdleSound DEF Init, TypeInv

(* A step of one worker: the others stay, and every row either stays or    *)
(* is no longer served by its holder, unless it is now served by w.        *)
LEMMA WorkerKeepsTypes ==
  ASSUME TypeInv, NEW w \in Workers, NEW v \in WorkerSet, SoundWorker(v),
         worker' = [worker EXCEPT ![w] = v],
         rows' \in [Rows -> Rowset], \A r \in Rows : SoundRow(rows'[r]),
         calls' \in [Rows -> Nat], credit' \in [Rows -> Int], faults' \in 0 .. MaxFaults,
         \A r \in Rows : rows'[r] = rows[r] \/ rows'[r].status # "SENDING" \/ rows'[r].holder = w,
         \A r \in Rows : Serves(w, r)' => (v.receipt <=> rows'[r].receipt # "none")
  PROVE  TypeInv'
  <1>1. worker' \in [Workers -> WorkerSet] /\ \A u \in Workers : SoundWorker(worker'[u])
    BY TypeParts DEF TypeInv
  <1>2. TypeOK'
    BY <1>1 DEF TypeOK, WorkerSet
  <1>3. AgreeInv'
    <2> SUFFICES ASSUME NEW u \in Workers, NEW r \in Rows, Serves(u, r)'
                 PROVE  worker'[u].receipt <=> rows'[r].receipt # "none"
      BY DEF AgreeInv
    <2>1. CASE u = w
      BY <2>1, TypeParts
    <2>2. CASE u # w
      <3>1. worker'[u] = worker[u]
        BY <2>2, TypeParts
      <3>2. rows'[r] = rows[r]
        BY <2>2 DEF Serves
      <3> QED
        BY <3>1, <3>2 DEF Serves, TypeInv, AgreeInv
    <2> QED
      BY <2>1, <2>2
  <1> QED
    BY <1>1, <1>2, <1>3 DEF TypeInv

(* Time and retention touch one row, and neither its holder nor whether    *)
(* it has a receipt.                                                       *)
LEMMA RowKeepsTypes ==
  ASSUME TypeInv, NEW r \in Rows, NEW row \in Rowset, SoundRow(row),
         row.status = "SENDING" => rows[r].status = "SENDING" /\ row.holder = rows[r].holder,
         row.receipt # "none" <=> rows[r].receipt # "none",
         rows' = [rows EXCEPT ![r] = row], UNCHANGED <<worker, calls>>,
         credit' \in [Rows -> Int], faults' \in 0 .. MaxFaults
  PROVE  TypeInv'
  <1>1. rows' \in [Rows -> Rowset] /\ \A q \in Rows : SoundRow(rows'[q])
    BY TypeParts DEF TypeInv
  <1>2. TypeOK'
    BY <1>1, TypeParts DEF TypeOK, WorkerSet
  <1>3. AgreeInv'
    BY TypeParts DEF TypeInv, AgreeInv, Serves
  <1> QED
    BY <1>1, <1>2, <1>3 DEF TypeInv

LEMMA ClaimTyped ==
  ASSUME TypeInv, NEW w \in Workers, Claim(w)
  PROVE  TypeInv'
  <1>1. PICK r \in Rows : /\ Claimable(rows[r])
                          /\ rows' = [q \in Rows |-> IF q = r THEN Leased(rows[r], w) ELSE GivenUp(rows[q])]
                          /\ worker' = [worker EXCEPT ![w] = Started(r)]
    BY DEF Claim
  <1>2. \A q \in Rows : GivenUp(rows[q]) \in Rowset /\ SoundRow(GivenUp(rows[q]))
                         /\ (GivenUp(rows[q]) = rows[q] \/ GivenUp(rows[q]).status = "FAILED")
    BY TypeParts, GivenUpSound DEF TypeInv
  <1>3. /\ Leased(rows[r], w) \in Rowset /\ SoundRow(Leased(rows[r], w))
        /\ Leased(rows[r], w).holder = w /\ Leased(rows[r], w).receipt = rows[r].receipt
    BY <1>1, TypeParts, LeasedSound
  <1>4. /\ rows' \in [Rows -> Rowset] /\ \A q \in Rows : SoundRow(rows'[q])
        /\ \A q \in Rows : rows'[q] = rows[q] \/ rows'[q].status # "SENDING" \/ rows'[q].holder = w
    BY <1>1, <1>2, <1>3
  <1>5. \A q \in Rows : Serves(w, q)' => (Started(r).receipt <=> rows'[q].receipt # "none")
    <2> SUFFICES ASSUME NEW q \in Rows, Serves(w, q)'
                 PROVE  Started(r).receipt <=> rows'[q].receipt # "none"
      OBVIOUS
    <2>1. q = r
      BY <1>1, TypeParts, StartedSound DEF Serves
    <2> QED
      BY <2>1, <1>1, <1>3, StartedSound
  <1>6. Started(r) \in WorkerSet /\ SoundWorker(Started(r))
    BY StartedSound
  <1>7. calls' \in [Rows -> Nat] /\ credit' \in [Rows -> Int] /\ faults' \in 0 .. MaxFaults
    BY TypeParts DEF Claim
  <1> QED
    BY <1>1, <1>4, <1>5, <1>6, <1>7, WorkerKeepsTypes

LEMMA ClaimNothingTyped ==
  ASSUME TypeInv, NEW w \in Workers, ClaimNothing(w)
  PROVE  TypeInv'
  <1>1. \A q \in Rows : GivenUp(rows[q]) \in Rowset /\ SoundRow(GivenUp(rows[q]))
                         /\ (GivenUp(rows[q]) = rows[q] \/ GivenUp(rows[q]).status = "FAILED")
    BY TypeParts, GivenUpSound DEF TypeInv
  <1>2. worker' = [worker EXCEPT ![w] = worker[w]] /\ worker[w] \in WorkerSet /\ SoundWorker(worker[w])
    BY TypeParts DEF ClaimNothing, TypeInv
  <1>3. \A q \in Rows : ~Serves(w, q)'
    BY DEF Serves, ClaimNothing
  <1> QED
    BY <1>1, <1>2, <1>3, TypeParts, WorkerKeepsTypes DEF ClaimNothing

(* The provider answers.                                                   *)
LEMMA AnsweredWorker ==
  ASSUME TypeInv, NEW w \in Workers, NEW answer, worker' = Answered(w, answer)
  PROVE  /\ worker' = [worker EXCEPT ![w] = worker'[w]]
         /\ worker'[w].pc = "answered" /\ worker'[w].answer = answer
         /\ worker'[w].row = worker[w].row /\ worker'[w].receipt = worker[w].receipt
  <1> DEFINE v == [worker[w] EXCEPT !.pc = "answered", !.answer = answer]
  <1>1. worker[w] \in WorkerSet
    BY TypeParts
  <1>2. worker' = [worker EXCEPT ![w] = v] /\ worker'[w] = v
    BY TypeParts DEF Answered
  <1>3. v.pc = "answered" /\ v.answer = answer /\ v.row = worker[w].row /\ v.receipt = worker[w].receipt
    BY <1>1 DEF WorkerSet
  <1> QED
    BY <1>2, <1>3

LEMMA AnswerTyped ==
  ASSUME TypeInv, NEW w \in Workers, worker[w].pc # "idle", NEW answer \in Answers,
         answer = "ticket" => ~worker[w].receipt, answer \in {"pending", "resend"} => worker[w].receipt,
         worker' = Answered(w, answer), UNCHANGED <<rows, faults>>,
         calls' \in [Rows -> Nat], credit' \in [Rows -> Int]
  PROVE  TypeInv'
  <1> DEFINE v == [worker[w] EXCEPT !.pc = "answered", !.answer = answer]
  <1>1. worker[w] \in WorkerSet /\ SoundWorker(worker[w])
    BY TypeParts DEF TypeInv
  <1>2. worker' = [worker EXCEPT ![w] = v]
    BY TypeParts DEF Answered
  <1>3. v \in WorkerSet /\ SoundWorker(v) /\ v.receipt = worker[w].receipt /\ v.row = worker[w].row
    BY <1>1 DEF WorkerSet, SoundWorker
  <1>4. worker'[w] = v
    BY <1>2, TypeParts
  <1> HIDE DEF v
  <1>5. \A q \in Rows : Serves(w, q)' => (v.receipt <=> rows'[q].receipt # "none")
    BY <1>3, <1>4 DEF Serves, TypeInv, AgreeInv
  <1> QED
    BY <1>2, <1>3, <1>5, TypeParts, WorkerKeepsTypes DEF TypeInv

LEMMA SendTyped ==
  ASSUME TypeInv, NEW w \in Workers, Send(w) \/ SendAndLoseTheAnswer(w)
  PROVE  TypeInv'
  <1>1. worker[w].pc = "send" /\ ~worker[w].receipt /\ worker[w].row \in Rows
    BY DEF Send, SendAndLoseTheAnswer, TypeInv, SoundWorker
  <1>2. \E answer \in {"sent", "ticket", "retry", "refused"} : worker' = Answered(w, answer)
    BY DEF Send, SendAndLoseTheAnswer
  <1>3. /\ calls' \in [Rows -> Nat] /\ credit' \in [Rows -> Int]
        /\ UNCHANGED <<rows, faults>>
    BY <1>1, TypeParts DEF Send, SendAndLoseTheAnswer
  <1> QED
    BY <1>1, <1>2, <1>3, AnswerTyped DEF Answers

LEMMA AskTyped ==
  ASSUME TypeInv, NEW w \in Workers, AskForReceipt(w)
  PROVE  TypeInv'
  <1>1. worker[w].pc = "ask" /\ worker[w].receipt /\ worker[w].row \in Rows
    BY DEF AskForReceipt, TypeInv, SoundWorker
  <1>2. PICK answer \in {"sent", "pending", "retry", "resend", "refused"} :
          /\ worker' = Answered(w, answer)
          /\ credit' = [credit EXCEPT ![worker[w].row] = IF answer = "resend" THEN @ + 1 ELSE @]
    BY DEF AskForReceipt
  <1>3. /\ calls' \in [Rows -> Nat] /\ credit' \in [Rows -> Int]
        /\ UNCHANGED <<rows, faults>>
    BY <1>1, <1>2, TypeParts DEF AskForReceipt
  <1> QED
    BY <1>1, <1>2, <1>3, AnswerTyped DEF Answers

LEMMA FinishTyped ==
  ASSUME TypeInv, NEW w \in Workers, Finish(w)
  PROVE  TypeInv'
  <1> DEFINE r == worker[w].row
  <1>1. worker[w] \in WorkerSet /\ SoundWorker(worker[w]) /\ worker[w].pc = "answered" /\ r \in Rows
    BY TypeParts DEF TypeInv, Finish, SoundWorker
  <1>2. rows' = [rows EXCEPT ![r] = IF Fenced(w) THEN Result(w, rows[r]) ELSE rows[r]]
    BY TypeParts DEF Finish
  <1>3. Result(w, rows[r]) \in Rowset /\ SoundRow(Result(w, rows[r])) /\ Result(w, rows[r]).status # "SENDING"
    BY <1>1, TypeParts, ResultSound
  <1>4. /\ rows' \in [Rows -> Rowset] /\ \A q \in Rows : SoundRow(rows'[q])
        /\ \A q \in Rows : rows'[q] = rows[q] \/ rows'[q].status # "SENDING"
    BY <1>1, <1>2, <1>3, TypeParts DEF TypeInv
  <1>5. worker' = [worker EXCEPT ![w] = Idle] /\ UNCHANGED <<calls, credit, faults>>
    BY DEF Finish
  <1>6. \A q \in Rows : ~Serves(w, q)'
    BY <1>5, TypeParts DEF Serves, Idle
  <1> QED
    BY <1>4, <1>5, <1>6, TypeParts, IdleSound, WorkerKeepsTypes

LEMMA DropTyped ==
  ASSUME TypeInv, NEW w \in Workers, Drop(w)
  PROVE  TypeInv'
  <1>1. worker[w].row \in Rows
    BY DEF Drop, TypeInv, SoundWorker
  <1>2. credit' \in [Rows -> Int] /\ faults' \in 0 .. MaxFaults
    BY <1>1, TypeParts, DeliveryAssumption DEF Drop
  <1>3. worker' = [worker EXCEPT ![w] = Idle] /\ UNCHANGED <<rows, calls>>
    BY DEF Drop
  <1>4. \A q \in Rows : ~Serves(w, q)'
    BY <1>3, TypeParts DEF Serves, Idle
  <1> QED
    BY <1>2, <1>3, <1>4, TypeParts, IdleSound, WorkerKeepsTypes DEF TypeInv

LEMMA LeaseOverrunTyped ==
  ASSUME TypeInv, NEW r \in Rows, LeaseOverrun(r)
  PROVE  TypeInv'
  <1>1. [rows[r] EXCEPT !.lease = "expired"] \in Rowset /\ SoundRow([rows[r] EXCEPT !.lease = "expired"])
    BY TypeParts DEF TypeInv, SoundRow, Rowset
  <1>2. credit' \in [Rows -> Int] /\ faults' \in 0 .. MaxFaults
    BY TypeParts, DeliveryAssumption DEF LeaseOverrun
  <1>3. rows' = [rows EXCEPT ![r] = [rows[r] EXCEPT !.lease = "expired"]]
    BY TypeParts DEF LeaseOverrun
  <1> QED
    BY <1>1, <1>2, <1>3, TypeParts, RowKeepsTypes DEF LeaseOverrun, Rowset

LEMMA TimeTyped ==
  ASSUME TypeInv, NEW r \in Rows, LeaseExpires(r) \/ BecomesDue(r) \/ ReceiptAges(r) \/ Purge(r)
  PROVE  TypeInv'
  <1>1. rows[r] \in Rowset /\ SoundRow(rows[r])
    BY TypeParts DEF TypeInv
  <1>2. UNCHANGED <<worker, calls, credit, faults>>
    BY DEF LeaseExpires, BecomesDue, ReceiptAges, Purge
  <1>3. CASE LeaseExpires(r)
    <2> DEFINE row == [rows[r] EXCEPT !.lease = "expired"]
    <2>1. rows' = [rows EXCEPT ![r] = row] /\ row \in Rowset /\ SoundRow(row)
          /\ row.status = rows[r].status /\ row.holder = rows[r].holder /\ row.receipt = rows[r].receipt
      BY <1>1, <1>3 DEF LeaseExpires, Rowset, SoundRow
    <2> QED
      BY <1>2, <2>1, TypeParts, RowKeepsTypes
  <1>4. CASE BecomesDue(r)
    <2> DEFINE row == [rows[r] EXCEPT !.due = "now"]
    <2>1. rows' = [rows EXCEPT ![r] = row] /\ row \in Rowset /\ SoundRow(row)
          /\ row.status = rows[r].status /\ row.holder = rows[r].holder /\ row.receipt = rows[r].receipt
      BY <1>1, <1>4 DEF BecomesDue, Rowset, SoundRow
    <2> QED
      BY <1>2, <2>1, TypeParts, RowKeepsTypes
  <1>5. CASE ReceiptAges(r)
    <2> DEFINE row == [rows[r] EXCEPT !.receipt = "old"]
    <2>1. rows' = [rows EXCEPT ![r] = row] /\ row \in Rowset /\ SoundRow(row)
          /\ row.status = rows[r].status /\ row.holder = rows[r].holder
          /\ row.receipt = "old" /\ rows[r].receipt = "young"
      BY <1>1, <1>5 DEF ReceiptAges, Rowset, SoundRow, Receipts
    <2> QED
      BY <1>2, <2>1, TypeParts, RowKeepsTypes
  <1>6. CASE Purge(r)
    <2> DEFINE row == [rows[r] EXCEPT !.status = "PURGED"]
    <2>1. rows' = [rows EXCEPT ![r] = row] /\ row \in Rowset /\ SoundRow(row)
          /\ row.status = "PURGED" /\ row.receipt = rows[r].receipt
      BY <1>1, <1>6 DEF Purge, Rowset, SoundRow, Statuses
    <2> QED
      BY <1>2, <2>1, TypeParts, RowKeepsTypes
  <1> QED
    BY <1>3, <1>4, <1>5, <1>6

LEMMA StepTyped == TypeInv /\ [Next]_vars => TypeInv'
  <1> SUFFICES ASSUME TypeInv, [Next]_vars PROVE TypeInv'
    OBVIOUS
  <1>1. ASSUME NEW w \in Workers, WorkerStep(w) PROVE TypeInv'
    BY <1>1, ClaimTyped, ClaimNothingTyped, SendTyped, AskTyped, FinishTyped DEF WorkerStep
  <1>2. ASSUME NEW w \in Workers, Drop(w) PROVE TypeInv'
    BY <1>2, DropTyped
  <1>3. ASSUME NEW r \in Rows, LeaseOverrun(r) PROVE TypeInv'
    BY <1>3, LeaseOverrunTyped
  <1>4. ASSUME NEW r \in Rows, LeaseExpires(r) \/ BecomesDue(r) \/ ReceiptAges(r) \/ Purge(r)
        PROVE TypeInv'
    BY <1>4, TimeTyped
  <1>5. CASE UNCHANGED vars
    BY <1>5 DEF vars, TypeInv, TypeOK, AgreeInv, Serves
  <1> QED
    BY <1>1, <1>2, <1>3, <1>4, <1>5 DEF Next

LEMMA Typed == Spec => []TypeInv
  BY InitTyped, StepTyped, PTL DEF Spec

(* Type correctness; no row is tried more than MaxAttempts times.          *)
THEOREM TypeCorrect == Spec => []TypeOK
  <1>1. TypeInv => TypeOK
    BY DEF TypeInv
  <1> QED
    BY <1>1, Typed, PTL

-----------------------------------------------------------------------------
(* The sends. A step of worker w changes the senders of a row by w only.   *)

Sending(v, r) == v.pc = "send" /\ v.row = r

One(b) == IF b THEN 1 ELSE 0

LEMMA SendersFinite ==
  ASSUME NEW r \in Rows
  PROVE  IsFiniteSet(Senders(r)) /\ Cardinality(Senders(r)) \in Nat
  BY DeliveryAssumption, FS_Subset, FS_CardinalityType DEF Senders

LEMMA SendersCount ==
  ASSUME TypeInv, NEW w \in Workers, NEW v \in WorkerSet, worker' = [worker EXCEPT ![w] = v],
         NEW r \in Rows
  PROVE  /\ Cardinality(Senders(r)) \in Nat /\ Cardinality(Senders(r))' \in Nat
         /\ Cardinality(Senders(r))' + One(Sending(worker[w], r)) = Cardinality(Senders(r)) + One(Sending(v, r))
  <1> DEFINE others == Senders(r) \ {w}
  <1>1. worker'[w] = v /\ \A u \in Workers : u # w => worker'[u] = worker[u]
    BY TypeParts
  <1>2. Senders(r) = IF Sending(worker[w], r) THEN others \union {w} ELSE others
    BY DEF Senders, Sending
  <1>3. Senders(r)' = IF Sending(v, r) THEN others \union {w} ELSE others
    BY <1>1 DEF Senders, Sending
  <1>4. IsFiniteSet(others) /\ Cardinality(others) \in Nat /\ w \notin others
    BY SendersFinite, FS_RemoveElement, FS_CardinalityType
  <1>5. Cardinality(others \union {w}) = Cardinality(others) + 1
    BY <1>4, FS_AddElement
  <1> HIDE DEF others
  <1> QED
    BY <1>2, <1>3, <1>4, <1>5 DEF One

LEMMA SendsKept ==
  ASSUME TypeInv, SendsInv, NEW w \in Workers, NEW v \in WorkerSet, worker' = [worker EXCEPT ![w] = v],
         rows' \in [Rows -> Rowset], calls' \in [Rows -> Nat],
         \A r \in Rows : calls'[r] + One(Sending(v, r)) + rows[r].tries
                           <= calls[r] + One(Sending(worker[w], r)) + rows'[r].tries
  PROVE  SendsInv'
  <1> SUFFICES ASSUME NEW r \in Rows PROVE (calls[r] + Cardinality(Senders(r)) <= rows[r].tries)'
    BY DEF SendsInv
  <1>1. /\ Cardinality(Senders(r)) \in Nat /\ Cardinality(Senders(r))' \in Nat
        /\ Cardinality(Senders(r))' + One(Sending(worker[w], r)) = Cardinality(Senders(r)) + One(Sending(v, r))
    BY SendersCount
  <1>2. calls[r] + Cardinality(Senders(r)) <= rows[r].tries
    BY DEF SendsInv
  <1>3. rows[r].tries \in Nat /\ rows'[r].tries \in Nat /\ calls[r] \in Nat /\ calls'[r] \in Nat
    BY TypeParts, DeliveryAssumption DEF Rowset
  <1>4. One(Sending(worker[w], r)) \in {0, 1} /\ One(Sending(v, r)) \in {0, 1}
    BY DEF One
  <1> QED
    BY <1>1, <1>2, <1>3, <1>4

LEMMA TriesKept ==
  ASSUME TypeInv, SendsInv, UNCHANGED <<worker, calls>>,
         \A r \in Rows : rows'[r].tries = rows[r].tries
  PROVE  SendsInv'
  BY DEF SendsInv, Senders

LEMMA NoSends == SendsInv /\ TypeInv => SendsAreBounded
  <1> SUFFICES ASSUME SendsInv, TypeInv, NEW r \in Rows PROVE calls[r] <= MaxAttempts
    BY DEF SendsAreBounded
  <1>1. calls[r] \in Nat /\ rows[r].tries \in 0 .. MaxAttempts
    BY TypeParts DEF Rowset
  <1>2. Cardinality(Senders(r)) \in Nat /\ calls[r] + Cardinality(Senders(r)) <= rows[r].tries
    BY SendersFinite DEF SendsInv
  <1> QED
    BY <1>1, <1>2, DeliveryAssumption

LEMMA InitSends == Init => SendsInv
  <1> SUFFICES ASSUME Init, NEW r \in Rows PROVE calls[r] + Cardinality(Senders(r)) <= rows[r].tries
    BY DEF SendsInv
  <1>1. Senders(r) = {}
    BY DEF Init, Senders, Idle
  <1> QED
    BY <1>1, FS_EmptySet DEF Init, Fresh

LEMMA StepSends == TypeInv /\ SendsInv /\ [Next]_vars => SendsInv'
  <1> SUFFICES ASSUME TypeInv, SendsInv, [Next]_vars PROVE SendsInv'
    OBVIOUS
  <1>0. TypeInv' /\ rows' \in [Rows -> Rowset] /\ calls' \in [Rows -> Nat] /\ worker' \in [Workers -> WorkerSet]
    BY StepTyped DEF TypeInv, TypeOK, WorkerSet
  <1>1. ASSUME NEW w \in Workers, Claim(w) PROVE SendsInv'
    <2>1. PICK r \in Rows : /\ Claimable(rows[r])
                            /\ rows' = [q \in Rows |-> IF q = r THEN Leased(rows[r], w) ELSE GivenUp(rows[q])]
                            /\ worker' = [worker EXCEPT ![w] = Started(r)]
      BY <1>1 DEF Claim
    <2>2. /\ Started(r) \in WorkerSet /\ Started(r).row = r
          /\ Started(r).pc = "send" <=> rows[r].receipt = "none"
      BY StartedSound
    <2>3. rows'[r].tries = rows[r].tries + One(Sending(Started(r), r))
      BY <2>1, <2>2, TypeParts, LeasedSound DEF One, Sending, Rowset
    <2>4. \A q \in Rows \ {r} : rows'[q].tries = rows[q].tries /\ ~Sending(Started(r), q)
      BY <2>1, <2>2, TypeParts, GivenUpSound DEF TypeInv, Sending
    <2>5. calls' = calls /\ \A q \in Rows : One(Sending(worker[w], q)) = 0
      BY <1>1 DEF Claim, Sending, One
    <2>6. \A q \in Rows : calls[q] \in Nat /\ rows[q].tries \in Nat
      BY TypeParts, DeliveryAssumption DEF Rowset
    <2>7. \A q \in Rows : calls'[q] + One(Sending(Started(r), q)) + rows[q].tries
                           <= calls[q] + One(Sending(worker[w], q)) + rows'[q].tries
      BY <2>3, <2>4, <2>5, <2>6 DEF One
    <2> QED
      BY <1>0, <2>1, <2>2, <2>7, SendsKept
  <1>2. ASSUME NEW w \in Workers, ClaimNothing(w) PROVE SendsInv'
    BY <1>2, TypeParts, GivenUpSound, TriesKept DEF ClaimNothing, TypeInv
  <1>3. ASSUME NEW w \in Workers, NEW r \in Rows, worker[w].pc = "send", worker[w].row = r,
               calls' = [calls EXCEPT ![r] = @ + 1], rows' = rows,
               NEW answer, worker' = Answered(w, answer)
        PROVE SendsInv'
    <2> DEFINE v == worker'[w]
    <2>1. worker' = [worker EXCEPT ![w] = v] /\ v \in WorkerSet /\ v.pc = "answered"
      BY <1>0, <1>3, AnsweredWorker
    <2>2. \A q \in Rows : calls'[q] = calls[q] + One(Sending(worker[w], q)) /\ One(Sending(v, q)) = 0
      BY <1>3, <2>1, TypeParts DEF One, Sending
    <2>3. \A q \in Rows : calls[q] \in Nat /\ rows[q].tries \in Nat
      BY TypeParts, DeliveryAssumption DEF Rowset
    <2>4. \A q \in Rows : calls'[q] + One(Sending(v, q)) + rows[q].tries
                           <= calls[q] + One(Sending(worker[w], q)) + rows'[q].tries
      BY <1>3, <2>2, <2>3 DEF One
    <2> QED
      BY <1>0, <2>1, <2>4, SendsKept
  <1>4. ASSUME NEW w \in Workers, Send(w) \/ SendAndLoseTheAnswer(w) PROVE SendsInv'
    <2>1. worker[w].pc = "send" /\ worker[w].row \in Rows
      BY <1>4 DEF Send, SendAndLoseTheAnswer, TypeInv, SoundWorker
    <2>2. /\ \E answer : worker' = Answered(w, answer)
          /\ calls' = [calls EXCEPT ![worker[w].row] = @ + 1] /\ rows' = rows
      BY <1>4 DEF Send, SendAndLoseTheAnswer
    <2> QED
      BY <2>1, <2>2, <1>3
  <1>5. ASSUME NEW w \in Workers, AskForReceipt(w) \/ Finish(w) \/ Drop(w) PROVE SendsInv'
    <2> DEFINE v == worker'[w]
    <2>1. worker' = [worker EXCEPT ![w] = v] /\ v \in WorkerSet /\ v.pc # "send" /\ calls' = calls
      <3>1. CASE AskForReceipt(w)
        <4>1. PICK answer : worker' = Answered(w, answer)
          BY <3>1 DEF AskForReceipt
        <4> QED
          BY <1>0, <3>1, <4>1, AnsweredWorker DEF AskForReceipt
      <3>2. CASE Finish(w) \/ Drop(w)
        BY <1>0, <3>2, TypeParts DEF Finish, Drop, Idle
      <3> QED
        BY <1>5, <3>1, <3>2
    <2>2. \A q \in Rows : rows'[q].tries = rows[q].tries
      <3>1. CASE Finish(w)
        <4>1. /\ worker[w] \in WorkerSet /\ SoundWorker(worker[w]) /\ worker[w].pc = "answered"
              /\ worker[w].row \in Rows
          BY <3>1, TypeParts DEF TypeInv, Finish, SoundWorker
        <4>2. Result(w, rows[worker[w].row]).tries = rows[worker[w].row].tries
          BY <4>1, TypeParts, ResultSound
        <4> QED
          BY <3>1, <4>1, <4>2, TypeParts DEF Finish
      <3> QED
        BY <1>5, <3>1 DEF AskForReceipt, Drop
    <2>3. \A q \in Rows : /\ calls[q] \in Nat /\ rows[q].tries \in Nat /\ One(Sending(v, q)) = 0
                           /\ One(Sending(worker[w], q)) \in {0, 1}
      BY <2>1, TypeParts, DeliveryAssumption DEF Rowset, One, Sending
    <2>4. \A q \in Rows : calls'[q] + One(Sending(v, q)) + rows[q].tries
                           <= calls[q] + One(Sending(worker[w], q)) + rows'[q].tries
      BY <2>1, <2>2, <2>3
    <2> QED
      BY <1>0, <2>1, <2>4, SendsKept
  <1>6. ASSUME NEW r \in Rows, LeaseExpires(r) \/ LeaseOverrun(r) \/ BecomesDue(r) \/ ReceiptAges(r) \/ Purge(r)
        PROVE SendsInv'
    <2>1. \A q \in Rows : rows'[q].tries = rows[q].tries
      BY <1>6, TypeParts DEF LeaseExpires, LeaseOverrun, BecomesDue, ReceiptAges, Purge, Rowset
    <2> QED
      BY <1>6, <2>1, TriesKept DEF LeaseExpires, LeaseOverrun, BecomesDue, ReceiptAges, Purge
  <1>7. CASE UNCHANGED vars
    BY <1>7, TriesKept DEF vars
  <1> QED
    BY <1>1, <1>2, <1>4, <1>5, <1>6, <1>7 DEF Next, WorkerStep

(* However instances crash, overrun and overlap, a row is sent at most     *)
(* MaxAttempts times.                                                      *)
THEOREM SendsBounded == Spec => []SendsAreBounded
  <1>1. Spec => []SendsInv
    BY InitSends, StepSends, Typed, PTL DEF Spec
  <1> QED
    BY <1>1, NoSends, Typed, PTL

-----------------------------------------------------------------------------
(* Late results. Only a result or a fault takes a worker off its row.      *)

OnlyHolderWrites(r) ==
    \A w \in Workers : worker[w].row = r /\ worker'[w].row # r /\ rows'[r] # rows[r] => rows[r].holder = w

SettledStays(r) ==
    Settled(rows[r]) => /\ rows'[r].status \in {rows[r].status, "PURGED"}
                        /\ rows'[r].due = "never"

LEMMA StepOnlyHolderWrites ==
  ASSUME TypeInv, Next, NEW r \in Rows
  PROVE  OnlyHolderWrites(r)
  <1> SUFFICES ASSUME NEW w \in Workers, worker[w].row = r, worker'[w].row # r, rows'[r] # rows[r]
               PROVE  rows[r].holder = w
    BY DEF OnlyHolderWrites
  <1>1. worker[w].pc # "idle"
    BY DeliveryAssumption DEF TypeInv, SoundWorker, Idle
  <1>2. ASSUME NEW u \in Workers, Claim(u) \/ ClaimNothing(u) \/ Drop(u) PROVE FALSE
    <2>1. CASE Claim(u)
      BY <1>1, <2>1, TypeParts DEF Claim
    <2>2. CASE ClaimNothing(u) \/ Drop(u)
      BY <2>2 DEF ClaimNothing, Drop
    <2> QED
      BY <1>2, <2>1, <2>2
  <1>3. ASSUME NEW u \in Workers, Send(u) \/ SendAndLoseTheAnswer(u) \/ AskForReceipt(u) PROVE FALSE
    BY <1>3 DEF Send, SendAndLoseTheAnswer, AskForReceipt
  <1>4. ASSUME NEW u \in Workers, Finish(u) PROVE rows[r].holder = w
    <2>1. u = w
      BY <1>4, TypeParts DEF Finish
    <2> QED
      BY <1>4, <2>1, TypeParts DEF Finish, Fenced
  <1>5. ASSUME NEW q \in Rows, LeaseExpires(q) \/ LeaseOverrun(q) \/ BecomesDue(q) \/ ReceiptAges(q) \/ Purge(q)
        PROVE  FALSE
    BY <1>5 DEF LeaseExpires, LeaseOverrun, BecomesDue, ReceiptAges, Purge
  <1> QED
    BY <1>2, <1>3, <1>4, <1>5 DEF Next, WorkerStep

LEMMA StepSettledStays ==
  ASSUME TypeInv, Next, NEW r \in Rows
  PROVE  SettledStays(r)
  <1> SUFFICES ASSUME Settled(rows[r])
               PROVE  rows'[r].status \in {rows[r].status, "PURGED"} /\ rows'[r].due = "never"
    BY DEF SettledStays
  <1>1. rows[r] \in Rowset /\ rows[r].status \in {"SENT", "FAILED"} /\ rows[r].due = "never"
    BY TypeParts DEF TypeInv, SoundRow, Settled
  <1>2. ~Claimable(rows[r]) /\ GivenUp(rows[r]) = rows[r]
    BY <1>1 DEF Claimable, GivenUp, Overdue
  <1>3. ASSUME NEW u \in Workers, Claim(u) \/ ClaimNothing(u) PROVE rows'[r] = rows[r]
    BY <1>2, <1>3 DEF Claim, ClaimNothing
  <1>4. ASSUME NEW u \in Workers, Finish(u) PROVE rows'[r] = rows[r]
    BY <1>1, <1>4, TypeParts DEF Finish, Fenced
  <1>5. ASSUME NEW u \in Workers, Send(u) \/ SendAndLoseTheAnswer(u) \/ AskForReceipt(u) \/ Drop(u)
        PROVE  rows'[r] = rows[r]
    BY <1>5 DEF Send, SendAndLoseTheAnswer, AskForReceipt, Drop
  <1>6. ASSUME NEW q \in Rows, LeaseExpires(q) \/ LeaseOverrun(q) \/ BecomesDue(q) PROVE rows'[r] = rows[r]
    BY <1>1, <1>6, TypeParts DEF LeaseExpires, LeaseOverrun, BecomesDue
  <1>7. ASSUME NEW q \in Rows, ReceiptAges(q) \/ Purge(q)
        PROVE  rows'[r].status \in {rows[r].status, "PURGED"} /\ rows'[r].due = "never"
    BY <1>1, <1>7, TypeParts DEF ReceiptAges, Purge, Rowset
  <1> QED
    BY <1>1, <1>3, <1>4, <1>5, <1>6, <1>7 DEF Next, WorkerStep

(* What comes back for a row that another worker has claimed, or that was  *)
(* settled, changes nothing, for any number of instances.                  *)
THEOREM LateResultsAreIgnored == Spec => StaleResultsChangeNothing
  <1>1. TypeInv /\ [Next]_vars => [\A r \in Rows : OnlyHolderWrites(r) /\ SettledStays(r)]_vars
    BY StepOnlyHolderWrites, StepSettledStays
  <1>2. [\A r \in Rows : OnlyHolderWrites(r) /\ SettledStays(r)]_vars
          => [\A r \in Rows :
                /\ \A w \in Workers : worker[w].row = r /\ worker'[w].row # r /\ rows'[r] # rows[r] =>
                                          rows[r].holder = w
                /\ Settled(rows[r]) => /\ rows'[r].status \in {rows[r].status, "PURGED"}
                                       /\ rows'[r].due = "never"]_vars
    BY DEF OnlyHolderWrites, SettledStays
  <1> QED
    BY <1>1, <1>2, Typed, PTL DEF Spec, StaleResultsChangeNothing


-----------------------------------------------------------------------------
(***************************************************************************)
(* No notification is accepted twice without a reason, for every number of *)
(* instances, rows, attempts and faults. A send may be accepted when it is *)
(* under way, or when a worker may yet be told to make it: the credit of a *)
(* row covers all of these at any time.                                    *)
(***************************************************************************)

(* The holder sends the row, or has an acceptance to write down.           *)
Carries(w, r) ==
    /\ Serves(w, r)
    /\ worker[w].pc = "send" \/ (worker[w].pc = "answered" /\ worker[w].answer \in {"sent", "ticket"})

(* Another worker may yet be told to send the row.                         *)
Open(r) ==
    \/ /\ rows[r].status \in {"PENDING", "FAILED"}
       /\ rows[r].due # "never" /\ rows[r].receipt = "none"
    \/ /\ rows[r].status = "SENDING" /\ rows[r].receipt = "none"
       /\ ~(rows[r].lease = "held" /\ \E w \in Workers : Carries(w, r))
    \/ \E w \in Workers : Serves(w, r) /\ worker[w].pc = "answered" /\ worker[w].answer = "resend"

(* Each of these sends, and one by another worker, may be accepted.        *)
CreditOf(r) == credit[r] >= Cardinality(Senders(r)) + One(Open(r))

CreditInv == \A r \in Rows : CreditOf(r)

-----------------------------------------------------------------------------
LEMMA OneRange == ASSUME NEW b PROVE One(b) \in {0, 1}
  BY DEF One

(* A step of worker w keeps the credit of r when what r loses is covered.  *)
LEMMA CreditKept ==
  ASSUME TypeInv, CreditInv, NEW w \in Workers, NEW v \in WorkerSet, worker' = [worker EXCEPT ![w] = v],
         NEW r \in Rows, credit' \in [Rows -> Int],
         credit'[r] + One(Sending(worker[w], r)) + One(Open(r)) >= credit[r] + One(Sending(v, r)) + One(Open(r)')
  PROVE  CreditOf(r)'
  <1>1. /\ Cardinality(Senders(r)) \in Nat /\ Cardinality(Senders(r))' \in Nat
        /\ Cardinality(Senders(r))' + One(Sending(worker[w], r)) = Cardinality(Senders(r)) + One(Sending(v, r))
    BY SendersCount
  <1>2. credit[r] >= Cardinality(Senders(r)) + One(Open(r))
    BY DEF CreditInv, CreditOf
  <1>3. /\ One(Sending(worker[w], r)) \in {0, 1} /\ One(Sending(v, r)) \in {0, 1}
        /\ One(Open(r)) \in {0, 1} /\ One(Open(r)') \in {0, 1}
    BY OneRange
  <1>4. credit[r] \in Int /\ credit'[r] \in Int
    BY TypeParts
  <1>5. credit'[r] >= Cardinality(Senders(r))' + One(Open(r)')
    BY <1>1, <1>2, <1>3, <1>4
  <1>6. One(Open(r))' = One(Open(r)')
    BY DEF One
  <1> QED
    BY <1>5, <1>6 DEF CreditOf

(* A step of no worker.                                                    *)
LEMMA CreditStays ==
  ASSUME TypeInv, CreditInv, worker' = worker, credit' \in [Rows -> Int], NEW r \in Rows,
         credit'[r] + One(Open(r)) >= credit[r] + One(Open(r)')
  PROVE  CreditOf(r)'
  <1>1. Senders(r)' = Senders(r) /\ Cardinality(Senders(r)) \in Nat
    BY SendersFinite DEF Senders
  <1>2. credit[r] >= Cardinality(Senders(r)) + One(Open(r))
    BY DEF CreditInv, CreditOf
  <1>3. One(Open(r)) \in {0, 1} /\ One(Open(r)') \in {0, 1}
    BY OneRange
  <1>4. credit[r] \in Int /\ credit'[r] \in Int
    BY TypeParts
  <1>5. credit'[r] >= Cardinality(Senders(r)) + One(Open(r)')
    BY <1>2, <1>3, <1>4, <1>1
  <1> QED
    BY <1>1, <1>5 DEF CreditOf, One

(* Who serves a row decides whether it is open.                            *)
LEMMA ServedByHolder ==
  ASSUME NEW u \in Workers, NEW w \in Workers, NEW r \in Rows, Serves(u, r), Serves(w, r)
  PROVE  u = w
  BY DEF Serves

LEMMA OpenElsewhere ==
  ASSUME TypeInv, NEW w \in Workers, NEW v \in WorkerSet, worker' = [worker EXCEPT ![w] = v],
         NEW r \in Rows, rows'[r] = rows[r], ~Serves(w, r), ~Serves(w, r)'
  PROVE  Open(r)' <=> Open(r)
  <1>1. \A u \in Workers : u # w => worker'[u] = worker[u]
    BY TypeParts
  <1>2. \A u \in Workers : Serves(u, r)' <=> Serves(u, r)
    BY <1>1 DEF Serves
  <1>3. \A u \in Workers : Carries(u, r)' <=> Carries(u, r)
    BY <1>1, <1>2 DEF Carries
  <1>4. (\E u \in Workers : Serves(u, r) /\ worker[u].pc = "answered" /\ worker[u].answer = "resend")'
          <=> \E u \in Workers : Serves(u, r) /\ worker[u].pc = "answered" /\ worker[u].answer = "resend"
    BY <1>1, <1>2
  <1> QED
    BY <1>3, <1>4 DEF Open

LEMMA SettledNotOpen ==
  ASSUME NEW r \in Rows, rows[r].status # "SENDING", rows[r].status \in {"PENDING", "FAILED"} => rows[r].due = "never"
  PROVE  ~Open(r)
  BY DEF Open, Serves

LEMMA OneMono == ASSUME NEW a, NEW b, a => b PROVE One(a) <= One(b)
  BY DEF One

LEMMA ClaimCredit ==
  ASSUME TypeInv, CreditInv, NEW w \in Workers, Claim(w), NEW q \in Rows
  PROVE  CreditOf(q)'
  <1>1. PICK r \in Rows : /\ Claimable(rows[r])
                          /\ rows' = [p \in Rows |-> IF p = r THEN Leased(rows[r], w) ELSE GivenUp(rows[p])]
                          /\ worker' = [worker EXCEPT ![w] = Started(r)]
    BY DEF Claim
  <1>2. /\ Started(r) \in WorkerSet /\ Started(r).row = r /\ Started(r).pc # "idle"
        /\ Started(r).pc = "send" <=> rows[r].receipt = "none"
        /\ Started(r).answer \in {"none", "refused"}
    BY StartedSound
  <1>3. credit' = credit /\ credit \in [Rows -> Int] /\ worker[w].pc = "idle" /\ worker'[w] = Started(r)
    BY <1>1, TypeParts DEF Claim
  <1>4. One(Sending(worker[w], q)) = 0
    BY <1>3 DEF Sending, One
  <1>5. One(Open(q)) >= One(Sending(Started(r), q)) + One(Open(q)') => CreditOf(q)'
    <2> SUFFICES ASSUME One(Open(q)) >= One(Sending(Started(r), q)) + One(Open(q)')
                 PROVE  CreditOf(q)'
      OBVIOUS
    <2>1. /\ One(Open(q)) \in {0, 1} /\ One(Open(q)') \in {0, 1} /\ One(Sending(Started(r), q)) \in {0, 1}
          /\ credit[q] \in Int
      BY <1>3, OneRange
    <2>2. credit'[q] + One(Sending(worker[w], q)) + One(Open(q)) >= credit[q] + One(Sending(Started(r), q)) + One(Open(q)')
      BY <1>3, <1>4, <2>1
    <2> QED
      BY <1>1, <1>2, <1>3, <2>2, CreditKept
  <1>6. CASE q = r
    <2>1. /\ rows'[r].status = "SENDING" /\ rows'[r].holder = w /\ rows'[r].lease = "held"
          /\ rows'[r].receipt = rows[r].receipt
      BY <1>1, TypeParts, LeasedSound
    <2>2. \A u \in Workers : Serves(u, r)' => u = w
      BY <2>1 DEF Serves
    <2>3. ~(\E u \in Workers : Serves(u, r) /\ worker[u].pc = "answered" /\ worker[u].answer = "resend")'
      BY <2>2, <1>2, <1>3
    <2>4. CASE rows[r].receipt = "none"
      <3>1. Open(r)
        <4>1. (rows[r].status \in {"PENDING", "FAILED"} /\ rows[r].due = "now") \/ Overdue(rows[r])
          BY <1>1 DEF Claimable
        <4> QED
          BY <2>4, <4>1 DEF Open, Overdue
      <3>2. Carries(w, r)'
        BY <1>2, <1>3, <2>1, <2>4 DEF Carries, Serves
      <3>3. ~Open(r)'
        BY <2>1, <2>3, <3>2 DEF Open
      <3>4. One(Open(q)) = 1 /\ One(Open(q)') = 0 /\ One(Sending(Started(r), q)) = 1
        BY <3>1, <3>3, <2>4, <1>2, <1>6 DEF One, Sending
      <3> QED
        BY <1>5, <3>4
    <2>5. CASE rows[r].receipt # "none"
      <3>1. ~Open(r)'
        BY <2>1, <2>3, <2>5 DEF Open
      <3>2. One(Open(q)) \in {0, 1} /\ One(Open(q)') = 0 /\ One(Sending(Started(r), q)) = 0
        BY <3>1, <2>5, <1>2, <1>6 DEF One, Sending
      <3> QED
        BY <1>5, <3>2
    <2> QED
      BY <1>6, <2>4, <2>5
  <1>7. CASE q # r
    <2>1. One(Sending(Started(r), q)) = 0 /\ ~Serves(w, q) /\ ~Serves(w, q)'
      BY <1>2, <1>3, <1>7 DEF Sending, One, Serves
    <2>2. Open(q)' => Open(q)
      <3>1. CASE rows'[q] = rows[q]
        BY <1>1, <1>2, <2>1, <3>1, OpenElsewhere
      <3>2. CASE rows'[q] # rows[q]
        <4>1. rows'[q].status = "FAILED" /\ rows'[q].due = "never"
          BY <1>1, <1>7, <3>2, TypeParts, GivenUpSound DEF TypeInv
        <4> QED
          BY <4>1 DEF Open, Serves
      <3> QED
        BY <3>1, <3>2
    <2>3. One(Open(q)') \in {0, 1} /\ One(Open(q)) \in {0, 1} /\ One(Open(q)') <= One(Open(q))
      BY <2>2 DEF One
    <2> QED
      BY <1>5, <2>1, <2>3
  <1> QED
    BY <1>6, <1>7

LEMMA ClaimNothingCredit ==
  ASSUME TypeInv, CreditInv, NEW w \in Workers, ClaimNothing(w), NEW q \in Rows
  PROVE  CreditOf(q)'
  <1>1. worker' = worker /\ credit' = credit /\ credit \in [Rows -> Int]
    BY TypeParts DEF ClaimNothing
  <1>2. Open(q)' => Open(q)
    <2>1. CASE rows'[q] = rows[q]
      BY <1>1, <2>1 DEF Open, Serves, Carries
    <2>2. CASE rows'[q] # rows[q]
      <3>1. rows'[q].status = "FAILED" /\ rows'[q].due = "never"
        BY <2>2, TypeParts, GivenUpSound DEF TypeInv, ClaimNothing
      <3> QED
        BY <3>1 DEF Open, Serves
    <2> QED
      BY <2>1, <2>2
  <1>3. One(Open(q)') \in {0, 1} /\ One(Open(q)) \in {0, 1} /\ One(Open(q)') <= One(Open(q))
    BY <1>2 DEF One
  <1> QED
    BY <1>1, <1>3, CreditStays

(* Nothing of a row changes but the answer of worker w.                    *)
LEMMA AnswerOpen ==
  ASSUME TypeInv, NEW w \in Workers, worker[w].pc # "idle", rows' = rows,
         NEW answer, worker' = Answered(w, answer), NEW r \in Rows, answer # "resend",
         \/ worker[w].receipt
         \/ worker[w].pc = "send" /\ answer \in {"sent", "ticket"}
  PROVE  Open(r)' => Open(r)
  <1>1. /\ worker' = [worker EXCEPT ![w] = worker'[w]] /\ worker'[w].pc = "answered" /\ worker'[w].answer = answer
        /\ worker'[w].row = worker[w].row /\ worker'[w].receipt = worker[w].receipt
    BY AnsweredWorker
  <1>2. \A u \in Workers : u # w => worker'[u] = worker[u]
    BY <1>1, TypeParts
  <1>3. \A u \in Workers : Serves(u, r)' <=> Serves(u, r)
    BY <1>1, <1>2 DEF Serves
  <1>4. (\E u \in Workers : Serves(u, r) /\ worker[u].pc = "answered" /\ worker[u].answer = "resend")'
          => \E u \in Workers : Serves(u, r) /\ worker[u].pc = "answered" /\ worker[u].answer = "resend"
    BY <1>1, <1>2, <1>3
  <1>5. CASE worker[w].receipt /\ Serves(w, r)
    <2>1. rows[r].receipt # "none"
      BY <1>5 DEF TypeInv, AgreeInv
    <2> QED
      BY <1>4, <2>1 DEF Open
  <1>6. CASE worker[w].receipt /\ ~Serves(w, r)
    <2>1. \A u \in Workers : Carries(u, r)' <=> Carries(u, r)
      BY <1>2, <1>3, <1>6 DEF Carries
    <2> QED
      BY <1>4, <2>1 DEF Open
  <1>7. CASE worker[w].pc = "send" /\ answer \in {"sent", "ticket"}
    <2>1. \A u \in Workers : Carries(u, r)' <=> Carries(u, r)
      BY <1>1, <1>2, <1>3, <1>7 DEF Carries
    <2> QED
      BY <1>4, <2>1 DEF Open
  <1> QED
    BY <1>5, <1>6, <1>7

LEMMA SendCredit ==
  ASSUME TypeInv, CreditInv, NEW w \in Workers, Send(w) \/ SendAndLoseTheAnswer(w), NEW q \in Rows
  PROVE  CreditOf(q)'
  <1> DEFINE r == worker[w].row  v == worker'[w]
  <1>1. worker[w].pc = "send" /\ r \in Rows /\ rows' = rows
    BY DEF Send, SendAndLoseTheAnswer, TypeInv, SoundWorker
  <1>2. \/ /\ \E answer \in {"sent", "ticket"} : worker' = Answered(w, answer)
           /\ credit' = [credit EXCEPT ![r] = @ - 1]
        \/ /\ \E answer \in {"retry", "refused"} : worker' = Answered(w, answer)
           /\ credit' = credit
    BY DEF Send, SendAndLoseTheAnswer
  <1>3. PICK answer \in {"sent", "ticket", "retry", "refused"} : worker' = Answered(w, answer)
    BY <1>2
  <1>4. /\ worker' = [worker EXCEPT ![w] = v] /\ v.pc = "answered" /\ v.row = r
        /\ v.answer = answer
    BY <1>3, AnsweredWorker
  <1>5. v \in WorkerSet /\ credit \in [Rows -> Int] /\ credit' \in [Rows -> Int]
    <2>1. TypeInv'
      BY SendTyped
    <2> QED
      BY <2>1, TypeParts DEF TypeInv, TypeOK, WorkerSet
  <1>6. /\ One(Sending(worker[w], q)) = (IF q = r THEN 1 ELSE 0) /\ One(Sending(v, q)) = 0
        /\ One(Open(q)) \in {0, 1} /\ One(Open(q)') \in {0, 1} /\ credit[q] \in Int
    BY <1>1, <1>4, <1>5, OneRange DEF Sending, One
  <1>7. ~Serves(w, q) /\ ~Serves(w, q)' => One(Open(q)') = One(Open(q))
    BY <1>1, <1>4, <1>5, OpenElsewhere DEF One
  <1>8. q # r => ~Serves(w, q) /\ ~Serves(w, q)'
    BY <1>4 DEF Serves
  <1>9. credit'[q] + One(Sending(worker[w], q)) + One(Open(q)) >= credit[q] + One(Sending(v, q)) + One(Open(q)')
    <2>1. CASE q # r
      <3>1. credit'[q] = credit[q]
        BY <1>2, <1>5, <2>1
      <3> QED
        BY <1>6, <1>7, <1>8, <2>1, <3>1
    <2>2. CASE q = r /\ credit' = credit
      BY <1>6, <2>2
    <2>3. CASE q = r /\ credit' # credit
      <3>1. credit'[q] = credit[q] - 1 /\ \E a \in {"sent", "ticket"} : worker' = Answered(w, a)
        BY <1>2, <1>5, <1>1, <2>3
      <3>2. Open(q)' => Open(q)
        BY <1>1, <3>1, AnswerOpen
      <3>3. One(Open(q)') <= One(Open(q))
        BY <3>2 DEF One
      <3> QED
        BY <1>6, <2>3, <3>1, <3>3
    <2> QED
      BY <2>1, <2>2, <2>3
  <1> HIDE DEF v
  <1> QED
    BY <1>4, <1>5, <1>9, CreditKept

LEMMA AskCredit ==
  ASSUME TypeInv, CreditInv, NEW w \in Workers, AskForReceipt(w), NEW q \in Rows
  PROVE  CreditOf(q)'
  <1> DEFINE r == worker[w].row  v == worker'[w]
  <1>1. worker[w].pc = "ask" /\ worker[w].receipt /\ r \in Rows /\ rows' = rows
    BY DEF AskForReceipt, TypeInv, SoundWorker
  <1>2. PICK answer : /\ worker' = Answered(w, answer)
                      /\ credit' = [credit EXCEPT ![r] = IF answer = "resend" THEN @ + 1 ELSE @]
    BY DEF AskForReceipt
  <1>4. /\ worker' = [worker EXCEPT ![w] = v] /\ v.pc = "answered" /\ v.row = r
        /\ v.answer = answer
    BY <1>2, AnsweredWorker
  <1>5. v \in WorkerSet /\ credit \in [Rows -> Int] /\ credit' \in [Rows -> Int]
    <2>1. TypeInv'
      BY AskTyped
    <2> QED
      BY <2>1, TypeParts DEF TypeInv, TypeOK, WorkerSet
  <1>6. /\ One(Sending(worker[w], q)) = 0 /\ One(Sending(v, q)) = 0
        /\ One(Open(q)) \in {0, 1} /\ One(Open(q)') \in {0, 1} /\ credit[q] \in Int
    BY <1>1, <1>4, <1>5, OneRange DEF Sending, One
  <1>7. credit'[q] + One(Sending(worker[w], q)) + One(Open(q)) >= credit[q] + One(Sending(v, q)) + One(Open(q)')
    <2>1. CASE q # r
      <3>1. ~Serves(w, q) /\ ~Serves(w, q)'
        BY <1>4, <2>1 DEF Serves
      <3>2. Open(q)' <=> Open(q)
        BY <1>1, <1>4, <1>5, <3>1, OpenElsewhere
      <3>3. One(Open(q)') = One(Open(q)) /\ credit'[q] = credit[q]
        BY <1>2, <1>5, <2>1, <3>2 DEF One
      <3> QED
        BY <1>6, <3>3
    <2>2. CASE q = r /\ answer = "resend"
      BY <1>2, <1>5, <1>6, <2>2
    <2>3. CASE q = r /\ answer # "resend"
      <3>1. Open(q)' => Open(q)
        BY <1>1, <1>2, <2>3, AnswerOpen
      <3>2. One(Open(q)') <= One(Open(q)) /\ credit'[q] = credit[q]
        BY <1>2, <1>5, <2>3, <3>1 DEF One
      <3> QED
        BY <1>6, <3>2
    <2> QED
      BY <2>1, <2>2, <2>3
  <1> HIDE DEF v
  <1> QED
    BY <1>4, <1>5, <1>7, CreditKept

(* A worker that leaves its row.                                           *)
LEMMA LeaveCredit ==
  ASSUME TypeInv, CreditInv, NEW w \in Workers, worker' = [worker EXCEPT ![w] = Idle], NEW q \in Rows,
         credit' \in [Rows -> Int],
         \/ credit'[q] = credit[q] /\ (Open(q)' => Open(q))
         \/ credit'[q] = credit[q] /\ Sending(worker[w], q)
         \/ credit'[q] = credit[q] + 1
  PROVE  CreditOf(q)'
  <1>1. One(Sending(Idle, q)) = 0
    BY DEF Sending, One, Idle
  <1>2. /\ One(Sending(worker[w], q)) \in {0, 1} /\ One(Open(q)) \in {0, 1} /\ One(Open(q)') \in {0, 1}
        /\ credit[q] \in Int
    BY TypeParts, OneRange
  <1>3. /\ (Open(q)' => Open(q)) => One(Open(q)') <= One(Open(q))
        /\ Sending(worker[w], q) => One(Sending(worker[w], q)) = 1
    BY DEF One
  <1>4. credit'[q] + One(Sending(worker[w], q)) + One(Open(q)) >= credit[q] + One(Sending(Idle, q)) + One(Open(q)')
    BY <1>1, <1>2, <1>3
  <1> QED
    BY <1>4, IdleSound, CreditKept

LEMMA FinishCredit ==
  ASSUME TypeInv, CreditInv, NEW w \in Workers, Finish(w), NEW q \in Rows
  PROVE  CreditOf(q)'
  <1> DEFINE r == worker[w].row
  <1>1. worker[w] \in WorkerSet /\ SoundWorker(worker[w]) /\ worker[w].pc = "answered" /\ r \in Rows
    BY TypeParts DEF TypeInv, Finish, SoundWorker
  <1>2. /\ worker' = [worker EXCEPT ![w] = Idle] /\ worker'[w] = Idle /\ credit' = credit
        /\ credit' \in [Rows -> Int]
        /\ rows' = [rows EXCEPT ![r] = IF Fenced(w) THEN Result(w, rows[r]) ELSE rows[r]]
    BY TypeParts DEF Finish
  <1>3. Open(q)' => Open(q)
    <2>1. CASE q # r \/ ~Fenced(w)
      <3>1. rows'[q] = rows[q] /\ ~Serves(w, q) /\ ~Serves(w, q)'
        BY <1>2, <2>1, TypeParts DEF Serves, Fenced, Idle
      <3> QED
        BY <1>2, <3>1, IdleSound, OpenElsewhere
    <2>2. CASE q = r /\ Fenced(w)
      <3>1. Serves(w, q)
        BY <1>1, <2>2 DEF Serves, Fenced
      <3>2. rows'[q] = Result(w, rows[q]) /\ rows[q] \in Rowset /\ rows[q].status = "SENDING"
        BY <1>1, <1>2, <2>2, TypeParts DEF Fenced
      <3>3. /\ rows'[q].status # "SENDING"
            /\ worker[w].answer \in {"sent", "ticket", "refused"}
                 => ~(rows'[q].due # "never" /\ rows'[q].receipt = "none")
            /\ rows[q].receipt # "none" /\ worker[w].answer # "resend" => rows'[q].receipt # "none"
        BY <1>1, <3>2, ResultSound
      <3>4. Open(q)' => rows'[q].due # "never" /\ rows'[q].receipt = "none"
        BY <3>3 DEF Open, Serves
      <3>5. CASE worker[w].answer = "resend"
        BY <1>1, <3>1, <3>5 DEF Open
      <3>6. CASE worker[w].answer \in {"sent", "ticket", "refused"}
        BY <3>3, <3>4, <3>6
      <3>7. CASE worker[w].answer = "pending" \/ (worker[w].answer = "retry" /\ rows[q].receipt # "none")
        <4>1. rows[q].receipt # "none"
          BY <1>1, <3>1, <3>7 DEF SoundWorker, TypeInv, AgreeInv
        <4> QED
          BY <3>3, <3>4, <3>7, <4>1
      <3>8. CASE worker[w].answer = "retry" /\ rows[q].receipt = "none"
        <4>1. \A u \in Workers : ~Carries(u, q)
          BY <1>1, <3>1, <3>8, ServedByHolder DEF Carries
        <4> QED
          BY <3>2, <3>8, <4>1 DEF Open
      <3> QED
        BY <1>1, <3>5, <3>6, <3>7, <3>8 DEF SoundWorker, Answers
    <2> QED
      BY <2>1, <2>2
  <1> QED
    BY <1>2, <1>3, LeaveCredit

LEMMA DropCredit ==
  ASSUME TypeInv, CreditInv, NEW w \in Workers, Drop(w), NEW q \in Rows
  PROVE  CreditOf(q)'
  <1> DEFINE r == worker[w].row
  <1>1. /\ worker[w] \in WorkerSet /\ SoundWorker(worker[w]) /\ r \in Rows
        /\ worker[w].pc \in {"send", "ask", "answered"}
    BY TypeParts DEF TypeInv, Drop, SoundWorker, WorkerSet
  <1>2. /\ worker' = [worker EXCEPT ![w] = Idle] /\ worker'[w] = Idle /\ rows' = rows
        /\ credit' = IF Unwritten(w) THEN [credit EXCEPT ![r] = @ + 1] ELSE credit
        /\ credit \in [Rows -> Int] /\ credit' \in [Rows -> Int]
    BY <1>1, TypeParts DEF Drop
  <1>3. CASE ~Serves(w, q)
    <2>1. ~Serves(w, q)'
      BY <1>2 DEF Serves, Idle
    <2>3. Open(q)' <=> Open(q)
      BY <1>2, <1>3, <2>1, IdleSound, OpenElsewhere
    <2>2. credit'[q] = credit[q] \/ credit'[q] = credit[q] + 1
      BY <1>2
    <2> QED
      BY <1>2, <2>2, <2>3, LeaveCredit
  <1>4. CASE Serves(w, q) /\ (worker[w].pc = "send" \/ Unwritten(w))
    <2>1. q = r
      BY <1>4 DEF Serves
    <2>2. \/ credit'[q] = credit[q] /\ Sending(worker[w], q)
          \/ credit'[q] = credit[q] + 1
      BY <1>2, <1>4, <2>1 DEF Sending
    <2> QED
      BY <1>2, <2>2, LeaveCredit
  <1>5. CASE Serves(w, q) /\ worker[w].pc # "send" /\ ~Unwritten(w)
    <2>1. q = r /\ Fenced(w) /\ credit'[q] = credit[q]
      BY <1>2, <1>5 DEF Serves, Fenced
    <2>2. \A u \in Workers : Serves(u, q)' => u # w /\ Serves(u, q) /\ worker'[u] = worker[u]
      BY <1>2, TypeParts DEF Serves, Idle
    <2>3. rows[q].receipt = "none" => ~Carries(w, q)
      <3>1. rows[q].receipt = "none" => ~worker[w].receipt
        BY <1>5 DEF TypeInv, AgreeInv
      <3>2. rows[q].receipt = "none" => worker[w].pc = "answered" /\ worker[w].answer \notin {"sent", "ticket"}
        BY <1>1, <1>5, <2>1, <3>1 DEF Unwritten, SoundWorker
      <3> QED
        BY <3>2 DEF Carries
    <2>4. rows[q].receipt = "none" => \A u \in Workers : ~Carries(u, q)
      BY <1>5, <2>3, ServedByHolder DEF Carries
    <2>5. Open(q)' => Open(q)
      BY <1>2, <2>2, <2>4 DEF Open
    <2> QED
      BY <1>2, <2>1, <2>5, LeaveCredit
  <1> QED
    BY <1>3, <1>4, <1>5

(* Time and retention.                                                     *)
LEMMA TimeCredit ==
  ASSUME TypeInv, CreditInv, NEW r \in Rows,
         LeaseExpires(r) \/ LeaseOverrun(r) \/ BecomesDue(r) \/ ReceiptAges(r) \/ Purge(r),
         NEW q \in Rows
  PROVE  CreditOf(q)'
  <1>1. /\ worker' = worker /\ rows[q] \in Rowset /\ rows[r] \in Rowset /\ credit \in [Rows -> Int]
        /\ \A p \in Rows : p # r => rows'[p] = rows[p]
    BY TypeParts DEF LeaseExpires, LeaseOverrun, BecomesDue, ReceiptAges, Purge
  <1>2. credit' \in [Rows -> Int]
    BY <1>1 DEF LeaseExpires, LeaseOverrun, BecomesDue, ReceiptAges, Purge
  <1>3. /\ One(Open(q)) \in {0, 1} /\ One(Open(q)') \in {0, 1} /\ credit[q] \in Int
        /\ (Open(q)' => Open(q)) => One(Open(q)') <= One(Open(q))
    BY <1>1, OneRange DEF One
  <1>4. SUFFICES \/ credit'[q] = credit[q] /\ (Open(q)' => Open(q))
                 \/ credit'[q] = credit[q] + 1
    <2>1. credit'[q] + One(Open(q)) >= credit[q] + One(Open(q)')
      BY <1>3, <1>4
    <2> QED
      BY <1>1, <1>2, <2>1, CreditStays
  <1>5. CASE q # r
    <2>1. rows'[q] = rows[q] /\ credit'[q] = credit[q]
      BY <1>1, <1>5 DEF LeaseExpires, LeaseOverrun, BecomesDue, ReceiptAges, Purge
    <2> QED
      BY <1>1, <2>1 DEF Open, Serves, Carries
  <1>6. CASE q = r /\ LeaseExpires(r)
    <2>1. credit'[q] = credit[q] /\ rows'[q] = [rows[q] EXCEPT !.lease = "expired"] /\ ~Working(q)
      BY <1>1, <1>6, TypeParts DEF LeaseExpires
    <2>2. \A u \in Workers : ~Serves(u, q) /\ ~Carries(u, q)
      BY <2>1 DEF Working, Serves, Carries
    <2>3. \A u \in Workers : ~Serves(u, q)'
      BY <1>1, <2>1, <2>2 DEF Serves, Rowset
    <2> QED
      BY <1>1, <2>1, <2>2, <2>3 DEF Open, Rowset
  <1>7. CASE q = r /\ LeaseOverrun(r)
    <2>1. PICK w \in Workers : worker[w].pc # "idle" /\ worker[w].row = q /\ rows[q].holder = w
      BY <1>7 DEF LeaseOverrun, Working
    <2>2. /\ rows[q].status = "SENDING" /\ rows'[q] = [rows[q] EXCEPT !.lease = "expired"]
          /\ credit'[q] = IF worker[w].receipt THEN credit[q] ELSE credit[q] + 1
      BY <1>1, <1>7, <2>1, TypeParts DEF LeaseOverrun
    <2>3. CASE worker[w].receipt
      <3>1. rows[q].receipt # "none"
        BY <2>1, <2>2, <2>3 DEF TypeInv, AgreeInv, Serves
      <3>2. \A u \in Workers : Serves(u, q)' <=> Serves(u, q)
        BY <1>1, <2>2 DEF Serves, Rowset
      <3> QED
        BY <1>1, <2>2, <2>3, <3>1, <3>2 DEF Open, Rowset
    <2> QED
      BY <2>2, <2>3
  <1>8. CASE q = r /\ (BecomesDue(r) \/ ReceiptAges(r))
    <2>1. /\ credit'[q] = credit[q] /\ rows'[q].status = rows[q].status /\ rows'[q].holder = rows[q].holder
          /\ rows'[q].lease = rows[q].lease
          /\ rows'[q].due # "never" => rows[q].due # "never"
          /\ rows'[q].receipt = "none" => rows[q].receipt = "none"
      BY <1>1, <1>8, TypeParts DEF BecomesDue, ReceiptAges, Rowset
    <2>2. \A u \in Workers : (Serves(u, q)' <=> Serves(u, q)) /\ (Carries(u, q)' <=> Carries(u, q))
      BY <1>1, <2>1 DEF Serves, Carries
    <2> QED
      BY <1>1, <2>1, <2>2 DEF Open
  <1>9. CASE q = r /\ Purge(r)
    <2>1. credit'[q] = credit[q] /\ rows'[q].status = "PURGED"
      BY <1>1, <1>9, TypeParts DEF Purge, Rowset
    <2> QED
      BY <2>1 DEF Open, Serves
  <1> QED
    BY <1>5, <1>6, <1>7, <1>8, <1>9

LEMMA InitCredit == Init => CreditInv
  <1> SUFFICES ASSUME Init, NEW r \in Rows PROVE CreditOf(r)
    BY DEF CreditInv
  <1>1. Senders(r) = {}
    BY DEF Init, Senders, Idle
  <1> QED
    BY <1>1, FS_EmptySet, OneRange DEF CreditOf, Init, One

LEMMA StepCredit == TypeInv /\ CreditInv /\ [Next]_vars => CreditInv'
  <1> SUFFICES ASSUME TypeInv, CreditInv, [Next]_vars, NEW q \in Rows PROVE CreditOf(q)'
    BY DEF CreditInv
  <1>1. ASSUME NEW w \in Workers, WorkerStep(w) \/ Drop(w) PROVE CreditOf(q)'
    BY <1>1, ClaimCredit, ClaimNothingCredit, SendCredit, AskCredit, FinishCredit, DropCredit DEF WorkerStep
  <1>2. ASSUME NEW r \in Rows,
               LeaseExpires(r) \/ LeaseOverrun(r) \/ BecomesDue(r) \/ ReceiptAges(r) \/ Purge(r)
        PROVE  CreditOf(q)'
    BY <1>2, TimeCredit
  <1>3. CASE UNCHANGED vars
    BY <1>3 DEF vars, CreditInv, CreditOf, Senders, Open, Carries, Serves
  <1> QED
    BY <1>1, <1>2, <1>3 DEF Next

LEMMA CreditSuffices == TypeInv /\ CreditInv => AcceptedOncePerReason
  <1> SUFFICES ASSUME TypeInv, CreditInv, NEW r \in Rows PROVE credit[r] >= 0
    BY DEF AcceptedOncePerReason
  <1>1. credit[r] \in Int /\ Cardinality(Senders(r)) \in Nat /\ One(Open(r)) \in {0, 1}
    BY TypeParts, SendersFinite, OneRange
  <1> QED
    BY <1>1 DEF CreditInv, CreditOf

(* A message is accepted once, and once more only for a lost answer, a     *)
(* crash or failed write after the acceptance, an overrun lease or a       *)
(* receipt that asks for it, whatever the number of instances.             *)
THEOREM AcceptedOnce == Spec => []AcceptedOncePerReason
  <1>1. Spec => []CreditInv
    BY InitCredit, StepCredit, Typed, PTL DEF Spec
  <1> QED
    BY <1>1, CreditSuffices, Typed, PTL

=============================================================================
