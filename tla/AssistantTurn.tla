---------------------------- MODULE AssistantTurn ----------------------------
(***************************************************************************)
(* ai-service: AssistantController.chat, one turn of the chat assistant.   *)
(* A turn takes an admission slot, counts against the daily quota of its   *)
(* user and workspace, stores the question, streams the answer and stores  *)
(* it. A turn that fails before any text reached the client is undone: the *)
(* unit is refunded and the question deleted, in two statements of which   *)
(* either may fail, and only then the slot is given back.                  *)
(*                                                                         *)
(* One workspace, and one conversation per user, in which every turn asks  *)
(* the same question, as a client that tries again does. A refused turn    *)
(* (AI_BUSY) has no effect and may come again, so the rate limiters are    *)
(* left out. What is said and the rounds of tool calls are left out.       *)
(***************************************************************************)
EXTENDS Naturals, FiniteSetsExt

CONSTANTS
    Turns, Users,
    UserOf,           \* who asks, per turn
    MaxConcurrent,    \* AI_ASSISTANT_MAX_CONCURRENT
    MaxPerUser,       \* AI_MAX_CONCURRENCY_PER_WORKSPACE
    UserLimit,        \* AI_ASSISTANT_DAILY_USER_LIMIT, and
    WorkspaceLimit,   \* AI_ASSISTANT_DAILY_WORKSPACE_LIMIT: 0 is no limit
    Days,             \* how many days a behaviour may touch
    MaxFaults         \* failed statements and crashes

TurnAssumption ==
    /\ IsFiniteSet(Turns) /\ IsFiniteSet(Users)
    /\ UserOf \in [Turns -> Users]
    /\ {UserLimit, WorkspaceLimit} \subseteq Nat
    /\ Days \in Nat \ {0}

VARIABLES
    today,
    turn,        \* chat(), per turn
    total,       \* Admission.total
    perUser,     \* Admission.perWorkspace, whose keys are users here
    usage,       \* assistant_usage.calls, per day and user
    questions,   \* the turns whose question is stored
    answers,     \* the turns whose answer is stored
    faults

vars == <<today, turn, total, perUser, usage, questions, answers, faults>>

Idle == [pc |-> "idle", day |-> 0, calls |-> 0, granted |-> FALSE, streamed |-> FALSE, undo |-> {}]

Holding == {t \in Turns : turn[t].pc \notin {"idle", "over"}}

Init ==
    /\ today = 1
    /\ turn = [t \in Turns |-> Idle]
    /\ total = 0
    /\ perUser = [u \in Users |-> 0]
    /\ usage = [d \in 1..Days |-> [u \in Users |-> 0]]
    /\ questions = {} /\ answers = {}
    /\ faults = MaxFaults

Metered == UserLimit > 0 \/ WorkspaceLimit > 0

-----------------------------------------------------------------------------
(* Admission.tryAcquire; the day is taken with the slot and kept.          *)
Admit(t) ==
    /\ turn[t].pc = "idle"
    /\ total < MaxConcurrent /\ perUser[UserOf[t]] < MaxPerUser
    /\ total' = total + 1
    /\ perUser' = [perUser EXCEPT ![UserOf[t]] = @ + 1]
    /\ turn' = [turn EXCEPT ![t].pc = "admitted", ![t].day = today]
    /\ UNCHANGED <<today, usage, questions, answers, faults>>

Release(t) ==
    /\ total' = total - 1
    /\ perUser' = [perUser EXCEPT ![UserOf[t]] = @ - 1]
    /\ turn' = [turn EXCEPT ![t].pc = "over"]

(* Not a member, the workspace's rate limit, or no such conversation.      *)
Leave(t) ==
    /\ turn[t].pc = "admitted"
    /\ Release(t)
    /\ UNCHANGED <<today, usage, questions, answers, faults>>

FoundDefect(t) ==
    LET d == turn[t].day  u == UserOf[t]
    IN  /\ turn[t].pc = "admitted"
        /\ usage' = IF Metered THEN [usage EXCEPT ![d][u] = @ + 1] ELSE usage
        /\ turn' = [turn EXCEPT ![t].pc = "counted", ![t].calls = usage[d][u]]
        /\ UNCHANGED <<today, total, perUser, questions, answers, faults>>

(* recordUsage: one statement counts and returns the count with this turn, *)
(* the workspace's sum is a second.                                        *)
RecordUsage(t) ==
    LET d == turn[t].day  u == UserOf[t]
    IN  /\ turn[t].pc = "admitted"
        /\ usage' = IF Metered THEN [usage EXCEPT ![d][u] = @ + 1] ELSE usage
        /\ turn' = [turn EXCEPT ![t].pc = "counted", ![t].calls = usage'[d][u]]
        /\ UNCHANGED <<today, total, perUser, questions, answers, faults>>

WorkspaceCalls(d) == MapThenSumSet(LAMBDA u : usage[d][u], Users)

OverQuota(t) ==
    \/ UserLimit > 0 /\ turn[t].calls > UserLimit
    \/ WorkspaceLimit > 0 /\ WorkspaceCalls(turn[t].day) > WorkspaceLimit

(* A refused turn keeps its unit: it is over the limit anyway.             *)
CheckQuota(t) ==
    /\ turn[t].pc = "counted"
    /\ IF OverQuota(t) THEN Release(t)
       ELSE /\ turn' = [turn EXCEPT ![t].pc = "asking", ![t].granted = TRUE]
            /\ UNCHANGED <<total, perUser>>
    /\ UNCHANGED <<today, usage, questions, answers, faults>>

(* appendMessages, and then recentMessages.                                *)
StoreQuestion(t) ==
    /\ turn[t].pc = "asking"
    /\ questions' = questions \union {t}
    /\ turn' = [turn EXCEPT ![t].pc = "asked"]
    /\ UNCHANGED <<today, total, perUser, usage, answers, faults>>

ReadHistory(t) ==
    /\ turn[t].pc = "asked"
    /\ turn' = [turn EXCEPT ![t].pc = "streaming"]
    /\ UNCHANGED <<today, total, perUser, usage, questions, answers, faults>>

(* A statement before the stream fails: the slot is given back, but what   *)
(* was counted and stored stays.                                           *)
LeakDefect(t) ==
    /\ turn[t].pc \in {"admitted", "counted", "asking", "asked"}
    /\ faults > 0
    /\ faults' = faults - 1
    /\ turn' = [turn EXCEPT ![t].pc = "over"]
    /\ UNCHANGED <<today, total, perUser, usage, questions, answers>>

FailBeforeStream(t) ==
    /\ turn[t].pc \in {"admitted", "counted", "asking", "asked"}
    /\ faults > 0
    /\ faults' = faults - 1
    /\ Release(t)
    /\ UNCHANGED <<today, usage, questions, answers>>

-----------------------------------------------------------------------------
Delta(t) ==
    /\ turn[t].pc = "streaming" /\ ~turn[t].streamed
    /\ turn' = [turn EXCEPT ![t].streamed = TRUE]
    /\ UNCHANGED <<today, total, perUser, usage, questions, answers, faults>>

(* The answer, if there is any text, is stored before `done` is sent.      *)
Done(t) ==
    /\ turn[t].pc = "streaming"
    /\ answers' = IF turn[t].streamed THEN answers \union {t} ELSE answers
    /\ turn' = [turn EXCEPT ![t].pc = "ending"]
    /\ UNCHANGED <<today, total, perUser, usage, questions, faults>>

(* The provider fails, the deadline passes or the client leaves; or the    *)
(* program fails (INTERNAL_ERROR), which is not undone. From here on the   *)
(* client knows, and may try again.                                        *)
ToUndo(t) == IF turn[t].streamed THEN {} ELSE {"refund", "delete"}

Break(t) ==
    /\ turn[t].pc = "streaming"
    /\ turn' = [turn EXCEPT ![t].pc = "ending", ![t].undo = ToUndo(t)]
    /\ UNCHANGED <<today, total, perUser, usage, questions, answers, faults>>

InternalError(t) ==
    /\ turn[t].pc = "streaming"
    /\ faults > 0
    /\ faults' = faults - 1
    /\ turn' = [turn EXCEPT ![t].pc = "ending"]
    /\ UNCHANGED <<today, total, perUser, usage, questions, answers>>

(* rollbackTurn: two statements at once. The refund is for the day of the  *)
(* turn, even after midnight.                                              *)
Less(calls) == IF calls > 0 THEN calls - 1 ELSE 0

RefundDay(t) == turn[t].day

Refund(t) ==
    /\ turn[t].pc = "ending" /\ "refund" \in turn[t].undo
    /\ usage' = IF Metered THEN [usage EXCEPT ![RefundDay(t)][UserOf[t]] = Less(@)] ELSE usage
    /\ turn' = [turn EXCEPT ![t].undo = @ \ {"refund"}, ![t].granted = FALSE]
    /\ UNCHANGED <<today, total, perUser, questions, answers, faults>>

DeleteQuestion(t) ==
    /\ turn[t].pc = "ending" /\ "delete" \in turn[t].undo
    /\ questions' = questions \ {t}
    /\ turn' = [turn EXCEPT ![t].undo = @ \ {"delete"}]
    /\ UNCHANGED <<today, total, perUser, usage, answers, faults>>

FailToUndo(t, step) ==
    /\ turn[t].pc = "ending" /\ step \in turn[t].undo
    /\ faults > 0
    /\ faults' = faults - 1
    /\ turn' = [turn EXCEPT ![t].undo = @ \ {step}]
    /\ UNCHANGED <<today, total, perUser, usage, questions, answers>>

Finished(t) == turn[t].pc = "ending" /\ turn[t].undo = {}

End(t) ==
    /\ Finished(t)
    /\ Release(t)
    /\ UNCHANGED <<today, usage, questions, answers, faults>>

-----------------------------------------------------------------------------
Midnight ==
    /\ today < Days
    /\ today' = today + 1
    /\ UNCHANGED <<turn, total, perUser, usage, questions, answers, faults>>

(* The process dies with its turns; the counters of the replica start over. *)
Crash ==
    /\ faults > 0 /\ Holding # {}
    /\ faults' = faults - 1
    /\ turn' = [t \in Turns |-> IF t \in Holding THEN [turn[t] EXCEPT !.pc = "over", !.undo = {}] ELSE turn[t]]
    /\ total' = 0
    /\ perUser' = [u \in Users |-> 0]
    /\ UNCHANGED <<today, usage, questions, answers>>

Next ==
    \/ \E t \in Turns :
         \/ Admit(t) \/ Leave(t) \/ RecordUsage(t) \/ CheckQuota(t) \/ StoreQuestion(t) \/ ReadHistory(t)
         \/ Delta(t) \/ Done(t) \/ Break(t)
         \/ Refund(t) \/ DeleteQuestion(t) \/ End(t)
         \/ FailBeforeStream(t) \/ InternalError(t) \/ \E step \in {"refund", "delete"} : FailToUndo(t, step)
    \/ Midnight
    \/ Crash

Spec == Init /\ [][Next]_vars

-----------------------------------------------------------------------------
(* The admission counters are the turns in work, on every way out of the   *)
(* handler: no slot leaks and none is given back twice.                    *)
SlotsAreTurns ==
    /\ total = Cardinality(Holding)
    /\ \A u \in Users : perUser[u] = Cardinality({t \in Holding : UserOf[t] = u})

(* The turns that may have reached the provider for a day, less those that *)
(* were refunded, stay within the limits of the user and the workspace,    *)
(* with concurrent turns that count before either adds up, and refunds     *)
(* after midnight.                                                         *)
Granted(d) == {t \in Turns : turn[t].granted /\ turn[t].day = d}

QuotaHolds ==
    \A d \in 1..Days :
        /\ WorkspaceLimit > 0 => Cardinality(Granted(d)) <= WorkspaceLimit
        /\ UserLimit > 0 => \A u \in Users : Cardinality({t \in Granted(d) : UserOf[t] = u}) <= UserLimit
=============================================================================
