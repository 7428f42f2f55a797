------------------------------- MODULE Services -------------------------------
(***************************************************************************)
(* What stands around the workflow engine, as one machine: each behaviour  *)
(* is one of the notification intake, of the browser's session, of the     *)
(* draft editor, of the assistant or of the three pollers. They share no   *)
(* state, so what a behaviour does not use stays Unused, and every         *)
(* property of the whole is a property of one of them.                     *)
(***************************************************************************)
EXTENDS Integers

CONSTANTS
    Unused,
    MaxFaults,      \* of the intake, the editor and the assistant
    Messages, Batches, Events, Recipients, Legacy, Destinations, Handlers, Requests, DeliveryLimit,
    Tabs, NoTab, MaxRotations,
    MaxLost,        \* answers the browser does not get
    MaxEdits, MaxTitles,
    Turns, Users, UserOf, MaxConcurrent, MaxPerUser, UserLimit, WorkspaceLimit, Days,
    NoRow,
    OutboxBase, OutboxMax, OutboxRampCeiling, OutboxErrorCeiling, OutboxJitter, OutboxDelays,
    RecoveryBase, RecoveryMax, RecoveryRampCeiling, RecoveryErrorCeiling, RecoveryJitter,
    DeliveryBase, DeliveryMax, DeliveryRampCeiling, DeliveryJitter, DeliveryDelays

VARIABLES
    service, faults,
    queue, handler, inbox, deliveries, pushes, stored, request, purged, raced,
    token, aged, mark, cookie, session, lock, tab, leaving, stray, cause,
    canvas, title, isSaved, isSavingWorkflow, workflow, server, rename, save, run,
    today, turn, total, perUser, usage, questions, answers,
    backoff, wall, pc, row, known, raising, signal,
    active, seen, unseen, failed,
    delay, timer, fresh, woken

Intake == INSTANCE NotificationIntake WITH Users <- Recipients

Session == INSTANCE WebSession WITH MaxFaults <- MaxLost

Editor == INSTANCE DraftEditor

Assistant == INSTANCE AssistantTurn

Outbox == INSTANCE OutboxPolling WITH
    Base <- OutboxBase, Max <- OutboxMax, RampCeiling <- OutboxRampCeiling,
    ErrorCeiling <- OutboxErrorCeiling, Jitter <- OutboxJitter, Delays <- OutboxDelays

Recovery == INSTANCE RecoveryPolling WITH
    Base <- RecoveryBase, Max <- RecoveryMax, RampCeiling <- RecoveryRampCeiling,
    ErrorCeiling <- RecoveryErrorCeiling, Jitter <- RecoveryJitter

Delivery == INSTANCE NotificationPolling WITH
    Base <- DeliveryBase, Max <- DeliveryMax, RampCeiling <- DeliveryRampCeiling,
    Jitter <- DeliveryJitter, Delays <- DeliveryDelays

ASSUME ServicesAssumption ==
    /\ Intake!IntakeAssumption
    /\ Session!SessionAssumption
    /\ Assistant!TurnAssumption
    /\ Outbox!PollingAssumption
    /\ Recovery!BackoffAssumption
    /\ Delivery!PollingAssumption

-----------------------------------------------------------------------------
IntakeOnly    == <<queue, handler, inbox, deliveries, pushes, stored, request, purged, raced>>
SessionOnly   == <<token, aged, mark, cookie, session, lock, tab, leaving, stray, cause>>
EditorOnly    == <<canvas, title, isSaved, isSavingWorkflow, workflow, server, rename, save, run>>
AssistantOnly == <<today, turn, total, perUser, usage, questions, answers>>
RecoveryOnly  == <<active, seen, unseen, failed>>
DeliveryOnly  == <<delay, timer, fresh, woken>>
PollersOnly   == <<backoff, wall, pc, row, known, raising, signal, RecoveryOnly, DeliveryOnly>>
ClientsOnly   == <<faults, IntakeOnly, SessionOnly, EditorOnly, AssistantOnly>>

vars == <<service, ClientsOnly, PollersOnly>>

IntakeIdle ==
    /\ queue = Unused /\ handler = Unused /\ inbox = Unused /\ deliveries = Unused
    /\ pushes = Unused /\ stored = Unused /\ request = Unused /\ purged = Unused /\ raced = Unused

SessionIdle ==
    /\ token = Unused /\ aged = Unused /\ mark = Unused /\ cookie = Unused /\ session = Unused
    /\ lock = Unused /\ tab = Unused /\ leaving = Unused /\ stray = Unused /\ cause = Unused

EditorIdle ==
    /\ canvas = Unused /\ title = Unused /\ isSaved = Unused /\ isSavingWorkflow = Unused /\ workflow = Unused
    /\ server = Unused /\ rename = Unused /\ save = Unused /\ run = Unused

AssistantIdle ==
    /\ today = Unused /\ turn = Unused /\ total = Unused /\ perUser = Unused
    /\ usage = Unused /\ questions = Unused /\ answers = Unused

ClientsIdle == faults = 0 /\ IntakeIdle /\ SessionIdle /\ EditorIdle /\ AssistantIdle

RecoveryIdle == active = Unused /\ seen = Unused /\ unseen = Unused /\ failed = Unused

DeliveryIdle == delay = Unused /\ timer = Unused /\ fresh = Unused /\ woken = Unused

PollersIdle ==
    /\ backoff = Unused /\ wall = Unused /\ pc = Unused /\ row = Unused /\ known = Unused
    /\ raising = Unused /\ signal = Unused /\ RecoveryIdle /\ DeliveryIdle

Init ==
    \/ service = "intake" /\ Intake!Init /\ SessionIdle /\ EditorIdle /\ AssistantIdle /\ PollersIdle
    \/ service = "session" /\ Session!Init /\ IntakeIdle /\ EditorIdle /\ AssistantIdle /\ PollersIdle
    \/ service = "editor" /\ Editor!Init /\ IntakeIdle /\ SessionIdle /\ AssistantIdle /\ PollersIdle
    \/ service = "assistant" /\ Assistant!Init /\ IntakeIdle /\ SessionIdle /\ EditorIdle /\ PollersIdle
    \/ service = "outbox" /\ Outbox!Init /\ ClientsIdle /\ RecoveryIdle /\ DeliveryIdle
    \/ /\ service = "recovery" /\ Recovery!Init /\ ClientsIdle /\ DeliveryIdle
       /\ row = Unused /\ known = Unused /\ signal = Unused
    \/ /\ service = "delivery" /\ Delivery!Init /\ ClientsIdle /\ RecoveryIdle
       /\ backoff = Unused /\ signal = Unused

Next ==
    /\ UNCHANGED service
    /\ \/ /\ service = "intake" /\ Intake!Next
          /\ UNCHANGED <<SessionOnly, EditorOnly, AssistantOnly, PollersOnly>>
       \/ /\ service = "session" /\ Session!Next
          /\ UNCHANGED <<IntakeOnly, EditorOnly, AssistantOnly, PollersOnly>>
       \/ /\ service = "editor" /\ Editor!Next
          /\ UNCHANGED <<IntakeOnly, SessionOnly, AssistantOnly, PollersOnly>>
       \/ /\ service = "assistant" /\ Assistant!Next
          /\ UNCHANGED <<IntakeOnly, SessionOnly, EditorOnly, PollersOnly>>
       \/ /\ service = "outbox" /\ Outbox!Next
          /\ UNCHANGED <<ClientsOnly, RecoveryOnly, DeliveryOnly>>
       \/ /\ service = "recovery" /\ Recovery!Next
          /\ UNCHANGED <<ClientsOnly, row, known, signal, DeliveryOnly>>
       \/ /\ service = "delivery" /\ Delivery!Next
          /\ UNCHANGED <<ClientsOnly, backoff, signal, RecoveryOnly>>

Spec == Init /\ [][Next]_vars

-----------------------------------------------------------------------------
(* What is acknowledged to the broker is stored.                           *)
AckedIsStored == service = "intake" => Intake!AckedIsStored

(* No user is told of an event through both of its versions.               *)
OneChannel == service = "intake" => Intake!OneChannel

(* The two notification APIs agree on what is read.                        *)
ApisAgree == service = "intake" => Intake!ApisAgree

(* What was read never turns unread.                                       *)
ReadStaysRead == [][service = "intake" => Intake!ReadKept]_vars

(* Tabs that renew one session do not log each other out.                  *)
NobodyIsLoggedOut == service = "session" => Session!NobodyIsLoggedOut

(* No rename overwrites the canvas that a button has saved.                *)
OnlyTheInspectorCrosses == service = "editor" => Editor!OnlyTheInspectorCrosses

(* No slot of the assistant leaks or is given back twice.                  *)
SlotsAreTurns == service = "assistant" => Assistant!SlotsAreTurns

(* Turns stay within the daily quota of the user and the workspace.        *)
QuotaHolds == service = "assistant" => Assistant!QuotaHolds

(* The outbox publisher never sleeps over a row it was told of.            *)
NeverSleepsOverKnownWork == service = "outbox" => Outbox!NeverSleepsOverKnownWork

(* The recovery scanner keeps its base interval while it knows of a run.   *)
ActiveRunKeepsTheBase == service = "recovery" => Recovery!ActiveRunKeepsTheBase

(* The recovery scanner sleeps at most one and a half times the maximum.   *)
SleepIsBounded == service = "recovery" => Recovery!SleepIsBounded

(* The delivery worker is on time for a delivery it knows of.              *)
WokenWorkerIsOnTime == service = "delivery" => Delivery!WokenWorkerIsOnTime
=============================================================================
