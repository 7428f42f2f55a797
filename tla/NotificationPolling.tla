------------------------- MODULE NotificationPolling -------------------------
(***************************************************************************)
(* When DeliveryWorker of the notification-service looks for deliveries:   *)
(* its timer, the wait that doubles while nothing is found, and wake(),    *)
(* which RabbitConsumer calls after it stored an event. What a tick does   *)
(* with a delivery is NotificationDelivery; here one delivery is followed, *)
(* and how long it is until it can be claimed.                             *)
(*                                                                         *)
(* A tick takes no time, but events are stored between its steps, and      *)
(* wake() falls between them too. Time passes one Base at a time.          *)
(***************************************************************************)
EXTENDS Integers

CONSTANTS
    Base,          \* NOTIFICATION_POLL_MS
    Max,           \* NOTIFICATION_WORKER_IDLE_MAX_MS
    RampCeiling,   \* RAMP_CEILING_MS (60 s)
    Jitter,        \* jitterMs, less than MAX_JITTER_MS (2 s)
    Delays,        \* retry delays, receipt checks and leases
    NoRow

PollingAssumption ==
    /\ {Base, Max, RampCeiling} \subseteq Nat \ {0}
    /\ Jitter \in Nat
    /\ Delays \subseteq Nat \ {0}
    /\ NoRow \notin Nat

VARIABLES
    delay,     \* this.delay
    timer,     \* time until the timer fires; meaningless during a tick
    wall,      \* wall clock modulo Max
    pc,        \* "armed", or the steps of a tick
    row,       \* NoRow, or the time until the delivery can be claimed
    fresh,     \* scheduled_at of the row is NULL
    known,     \* history: the worker was woken for the row, or has read when it is due,
               \* and its last tick has not failed since
    raising,   \* an event is committed here, and the wake() for it to come
    woken      \* this.woken

vars == <<delay, timer, wall, pc, row, fresh, known, raising, woken>>

Larger(a, b)  == IF a >= b THEN a ELSE b
Smaller(a, b) == IF a <= b THEN a ELSE b

Cap == Larger(Base, Max)

(* idleDelay(): double, then sleep to the first multiple of the cap that   *)
(* is at least half of it away.                                            *)
IdleDelay ==
    IF 2 * delay < Smaller(Cap, RampCeiling) THEN 2 * delay
    ELSE LET earliest == wall + Cap \div 2
         IN  Larger(Base, ((earliest + Cap - 1) \div Cap) * Cap + Jitter - wall)

Init ==
    /\ delay = Base
    /\ timer = Base
    /\ wall \in {t \in 0 .. Max - 1 : t % Base = 0}
    /\ pc = "armed"
    /\ row = NoRow
    /\ fresh = FALSE
    /\ known = FALSE
    /\ raising = FALSE
    /\ woken = FALSE

(* ingest() commits; handle() acknowledges and only then calls wake().     *)
StoreHere ==
    /\ row = NoRow /\ ~raising
    /\ row' = 0 /\ fresh' = TRUE /\ known' = FALSE
    /\ raising' = TRUE
    /\ UNCHANGED <<delay, timer, wall, pc, woken>>

StoreElsewhere ==
    /\ row = NoRow /\ ~raising
    /\ row' = 0 /\ fresh' = TRUE /\ known' = FALSE
    /\ UNCHANGED <<delay, timer, wall, pc, raising, woken>>

DeafWakeDefect ==
    /\ raising
    /\ raising' = FALSE
    /\ known' = (row # NoRow)
    /\ delay' = Base
    /\ timer' = IF pc = "armed" THEN Base ELSE timer
    /\ UNCHANGED <<wall, pc, row, fresh, woken>>

Wake ==
    /\ raising
    /\ raising' = FALSE
    /\ known' = (row # NoRow)
    /\ delay' = Base
    /\ IF pc = "armed" THEN timer' = Base /\ UNCHANGED woken
       ELSE woken' = TRUE /\ UNCHANGED timer
    /\ UNCHANGED <<wall, pc, row, fresh>>

Fire ==
    /\ pc = "armed" /\ timer = 0
    /\ pc' = "tick"
    /\ UNCHANGED <<delay, timer, wall, row, fresh, known, raising, woken>>

(* The finally block of schedule(): wait for delay, or for the base        *)
(* interval when wake() came during the tick.                              *)
Rearm(wait) ==
    /\ delay' = IF woken THEN Base ELSE wait
    /\ timer' = delay'
    /\ woken' = FALSE
    /\ pc' = "armed"

(* tick() handles the delivery: it is done with, or due again later.       *)
Handles ==
    /\ pc = "tick" /\ row = 0
    /\ row' \in {NoRow} \union Delays
    /\ fresh' = FALSE
    /\ known' = FALSE
    /\ Rearm(Base)
    /\ UNCHANGED <<wall, raising>>

(* The claim reads no row; the wait is lengthened when its answer is here. *)
FindsNothing ==
    /\ pc = "tick" /\ row # 0
    /\ pc' = "empty"
    /\ UNCHANGED <<delay, timer, wall, row, fresh, known, raising, woken>>

Lengthen ==
    /\ pc = "empty"
    /\ delay' = IdleDelay
    /\ pc' = "lookup"
    /\ UNCHANGED <<timer, wall, row, fresh, known, raising, woken>>

(* tick() throws, in a claim or with a claimed row left to its lease.      *)
Throws ==
    /\ pc = "tick"
    /\ IF row = 0 THEN row' \in {0} \union Delays /\ fresh' = (fresh /\ row' = 0)
       ELSE UNCHANGED <<row, fresh>>
    /\ known' = (woken /\ row # NoRow)
    /\ Rearm(IdleDelay)
    /\ UNCHANGED <<wall, raising>>

(* nextDueInMs(): rows never tried have no schedule and are not in it.     *)
LooksUp ==
    /\ pc = "lookup"
    /\ IF row = NoRow \/ fresh THEN Rearm(delay) /\ UNCHANGED known
       ELSE Rearm(Larger(Base, Smaller(delay, row))) /\ known' = TRUE
    /\ UNCHANGED <<wall, row, fresh, raising>>

LookUpThrows ==
    /\ pc = "lookup"
    /\ known' = (woken /\ row # NoRow)
    /\ Rearm(delay)
    /\ UNCHANGED <<wall, row, fresh, raising>>

TimePasses ==
    /\ pc = "armed" /\ timer > 0
    /\ timer' = Larger(timer - Base, 0)
    /\ wall' = (wall + Base) % Max
    /\ row' = IF row = NoRow THEN NoRow ELSE Larger(row - Base, 0)
    /\ UNCHANGED <<delay, pc, fresh, known, raising, woken>>

Next ==
    \/ StoreHere \/ StoreElsewhere \/ Wake
    \/ Fire \/ Handles \/ FindsNothing \/ Lengthen \/ Throws \/ LooksUp \/ LookUpThrows
    \/ TimePasses

Spec == Init /\ [][Next]_vars

-----------------------------------------------------------------------------
(* "Sleeps ... to the earliest scheduled retry, whichever is sooner ... a  *)
(* consumed event wakes the worker at once" (README 87): whenever an event *)
(* is stored and the wake for it comes, before, in or after a tick, the    *)
(* timer is set for when the delivery is due. Excepted are a tick and a    *)
(* lookup that throw: after them the delivery may wait for the idle wake.  *)
WokenWorkerIsOnTime ==
    pc = "armed" /\ row # NoRow /\ known => timer <= Larger(row, Base)
=============================================================================
