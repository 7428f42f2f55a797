-------------------------- MODULE NotificationIntake --------------------------
(***************************************************************************)
(* notification-service: how an event becomes rows, and how a user marks   *)
(* them read. RabbitConsumer hands each message to Notifications.consume,  *)
(* which stores it in one transaction, and acknowledges it afterwards. A   *)
(* version 1 event stores deliveries and the inbox item they are linked    *)
(* to, a version 2 event the items of its recipients and, in the table of  *)
(* the deliveries, rows for their devices and for the mail of an           *)
(* invitation; both versions of one event may arrive, in any order and     *)
(* more than once. The two APIs show the same notifications, one the       *)
(* deliveries and one the inbox, and each marks both tables in a           *)
(* transaction of two statements.                                          *)
(*                                                                         *)
(* Transactions are READ COMMITTED: a statement sees what is committed     *)
(* when it starts. A row lock only makes a statement wait for a mark that  *)
(* it would repeat, so locks on rows are left out; a victim of a database  *)
(* deadlock is an aborted request. What a delivery is sent to is left out. *)
(***************************************************************************)
EXTENDS Naturals, FiniteSets

CONSTANTS
    Messages,        \* copies of events: [event, version, to, type, own]
    Batches,         \* sets of messages, one of which is on the queue
    Events, Users,
    Legacy,          \* events that may have been stored before the inbox existed
    Destinations,    \* of a version 1 event, whose deliveries are those of one user
    Handlers,        \* messages in work: NOTIFICATION_CONSUMER_PREFETCH
    Requests,        \* open requests of the two read APIs
    DeliveryLimit,   \* x-delivery-limit
    MaxFaults        \* lost connections, failed transactions and aborted requests

(* A version 1 event names one user, and so do the version 2 copies of it. *)
IntakeAssumption ==
    /\ \A m \in Messages :
          /\ m.event \in Events /\ m.to \subseteq Users /\ m.version \in {1, 2}
          /\ m.version = 1 => \E u \in Users : m.to = {u}
    /\ \A m, n \in Messages :
          m.version = 1 /\ n.event = m.event =>
              /\ n.version = 1 => n.type = m.type
              /\ n.type = m.type => n.to = m.to
    /\ \A e \in Legacy : \E m \in Messages : m.event = e /\ m.version = 1

VARIABLES
    queue,       \* where each message is, and how often it was returned
    handler,     \* RabbitConsumer.handle, per message in work
    inbox,       \* notification_inbox: read state of the item of an event and a user
    deliveries,  \* notification_deliveries: read state and inbox link per destination
    pushes,      \* rows for the devices and the mail of an event's user: stored as read, linked
    stored,      \* event type of the rows and items of an event
    request,     \* open read transactions
    faults,
    purged,      \* history: events that retention has deleted something of
    raced        \* history: events whose ingestion overlapped a read transaction

db   == <<inbox, deliveries, pushes, stored>>
vars == <<queue, handler, inbox, deliveries, pushes, stored, request, faults, purged, raced>>

Missing == [read |-> FALSE, linked |-> FALSE, exists |-> FALSE]
Row(read, linked) == [read |-> read, linked |-> linked, exists |-> TRUE]

Free   == [pc |-> "free"]
Closed == [pc |-> "closed"]

Version1(e) == CHOOSE m \in Messages : m.event = e /\ m.version = 1
Owner(e)    == CHOOSE u \in Version1(e).to : TRUE

HasDeliveries(e) == \E d \in Destinations : deliveries[e][d].exists
HasItems(e)      == \E u \in Users : inbox[e][u] # "none"

Init ==
    /\ \E batch \in Batches :
         queue = [m \in Messages |-> [at |-> IF m \in batch THEN "ready" ELSE "unsent", returns |-> 0]]
    /\ handler = [h \in Handlers |-> Free]
    /\ inbox = [e \in Events |-> [u \in Users |-> "none"]]
    /\ \E old \in SUBSET Legacy, read \in [Destinations -> BOOLEAN] :
         /\ deliveries = [e \in Events |-> [d \in Destinations |-> IF e \in old THEN Row(read[d], FALSE) ELSE Missing]]
         /\ stored = [e \in Events |-> IF e \in old THEN Version1(e).type ELSE "none"]
    /\ pushes = {}
    /\ request = [q \in Requests |-> Closed]
    /\ faults = MaxFaults
    /\ purged = {}
    /\ raced = {}

-----------------------------------------------------------------------------
(* The broker hands out a message; what its handler learns of the tables   *)
(* before it writes is its view.                                           *)
Take(h, m) ==
    /\ handler[h].pc = "free"
    /\ queue[m].at = "ready"
    /\ queue' = [queue EXCEPT ![m].at = "taken"]
    /\ handler' = [handler EXCEPT ![h] = [pc |-> "taken", msg |-> m, live |-> TRUE]]
    /\ UNCHANGED <<db, request, faults, purged, raced>>

(* consume(): an actor's own action is no news to anybody.                 *)
DropOwnAction(h) ==
    /\ handler[h].pc = "taken" /\ handler[h].msg.own
    /\ handler' = [handler EXCEPT ![h].pc = "stored"]
    /\ UNCHANGED <<queue, db, request, faults, purged, raced>>

UnlockedDefect(e) == FALSE

(* ingest() takes the advisory lock of the event and reads.                *)
Locked(e) == \E h \in Handlers : handler[h].pc = "open" /\ handler[h].msg.event = e

Conflicting(m) == (HasDeliveries(m.event) \/ HasItems(m.event)) /\ stored[m.event] # m.type

BeginIngest(h) ==
    LET m == handler[h].msg
    IN  /\ handler[h].pc = "taken" /\ ~m.own
        /\ ~Locked(m.event)
        /\ ~Conflicting(m)
        /\ handler' = [handler EXCEPT ![h] = [pc |-> "open", msg |-> m, live |-> @.live,
                                              rows |-> deliveries[m.event], items |-> inbox[m.event]]]
        /\ UNCHANGED <<queue, db, request, faults, purged, raced>>

(* persistLegacyInboxGroup: the item of a user is read if all the          *)
(* deliveries were, and every delivery is linked to it.                    *)
HasRows(rows) == \E d \in Destinations : rows[d].exists

GroupItem(rows) ==
    IF \A d \in Destinations : rows[d].exists => rows[d].read THEN "read" ELSE "unread"

Linked(rows) == [d \in Destinations |-> IF rows[d].exists THEN [rows[d] EXCEPT !.linked = TRUE] ELSE Missing]

LinkGroup(e, view) ==
    /\ inbox' = [inbox EXCEPT ![e][Owner(e)] = IF view.items[Owner(e)] = "none" THEN GroupItem(view.rows) ELSE @]
    /\ deliveries' = [deliveries EXCEPT ![e] = Linked(@)]
    /\ UNCHANGED pushes

(* First stored, first served: a replay adds no destination.               *)
StoreVersion1(m, view) ==
    IF \E u \in Users : view.items[u] # "none" THEN UNCHANGED <<inbox, deliveries, pushes>>
    ELSE /\ inbox' = [inbox EXCEPT ![m.event][Owner(m.event)] = "unread"]
         /\ deliveries' = [deliveries EXCEPT ![m.event] = [d \in Destinations |-> Row(FALSE, TRUE)]]
         /\ UNCHANGED pushes

OverwriteDefect(m) ==
    /\ inbox' = [inbox EXCEPT ![m.event] = [u \in Users |-> IF u \in m.to THEN "unread" ELSE @[u]]]
    /\ UNCHANGED <<deliveries, pushes>>

(* createMany with skipDuplicates: the items of recipients that have none, *)
(* and a row for every device that is registered by then (or the mail of   *)
(* an invitation), which the list of version 1 shows as read at once.      *)
StoreVersion2(m) ==
    /\ inbox' = [inbox EXCEPT ![m.event] = [u \in Users |-> IF u \in m.to /\ @[u] = "none" THEN "unread" ELSE @[u]]]
    /\ \E reached \in SUBSET m.to : pushes' = pushes \union ({m.event} \X reached)
    /\ UNCHANGED deliveries

(* The new links are counted: a delivery that retention deleted under the  *)
(* transaction makes it fail.                                              *)
Undisturbed(h) ==
    \A d \in Destinations :
       handler[h].rows[d].exists /\ ~handler[h].rows[d].linked => deliveries[handler[h].msg.event][d].exists

OpenRequest(q) == request[q].pc = "open"

CommitIngest(h) ==
    LET m == handler[h].msg
    IN  /\ handler[h].pc = "open"
        /\ Undisturbed(h)
        /\ IF HasRows(handler[h].rows) THEN LinkGroup(m.event, handler[h])
           ELSE IF m.version = 1 THEN StoreVersion1(m, handler[h]) ELSE StoreVersion2(m)
        /\ stored' = [stored EXCEPT ![m.event] = m.type]
        /\ handler' = [handler EXCEPT ![h] = [pc |-> "stored", msg |-> m, live |-> @.live]]
        /\ raced' = IF \E q \in Requests : OpenRequest(q) THEN raced \union {m.event} ELSE raced
        /\ UNCHANGED <<queue, request, faults, purged>>

-----------------------------------------------------------------------------
(* The answer to the broker, which reaches it only on a live channel; on a *)
(* closed one it throws, and the broker has returned the message already.  *)
Answer(h, m, to) ==
    /\ handler' = [handler EXCEPT ![h] = Free]
    /\ queue' = IF handler[h].live THEN [queue EXCEPT ![m] = to] ELSE queue
    /\ UNCHANGED <<db, request, purged, raced>>

Acked       == [at |-> "acked", returns |-> 0]
DeadLetter  == [at |-> "dead", returns |-> 0]
Returned(m) == IF queue[m].returns >= DeliveryLimit THEN DeadLetter
               ELSE [at |-> "ready", returns |-> queue[m].returns + 1]

EarlyAckDefect(h) ==
    /\ handler[h].pc = "taken"
    /\ Answer(h, handler[h].msg, Acked)
    /\ UNCHANGED faults

Ack(h) ==
    /\ handler[h].pc = "stored"
    /\ Answer(h, handler[h].msg, Acked)
    /\ UNCHANGED faults

(* Permanent errors are dead-lettered, all others returned after a pause.  *)
Refuse(h) ==
    /\ handler[h].pc = "taken" /\ ~handler[h].msg.own
    /\ ~Locked(handler[h].msg.event) /\ Conflicting(handler[h].msg)
    /\ Answer(h, handler[h].msg, DeadLetter)
    /\ UNCHANGED faults

Requeue(h) ==
    /\ handler[h].pc = "open"
    /\ \/ ~Undisturbed(h) /\ UNCHANGED faults
       \/ faults > 0 /\ faults' = faults - 1
    /\ Answer(h, handler[h].msg, Returned(handler[h].msg))

(* The connection closes: the broker returns what is not acknowledged, the *)
(* handlers run on.                                                        *)
LoseConnection ==
    /\ faults > 0
    /\ faults' = faults - 1
    /\ queue' = [m \in Messages |-> IF queue[m].at = "taken" THEN Returned(m) ELSE queue[m]]
    /\ handler' = [h \in Handlers |-> IF handler[h].pc = "free" THEN Free ELSE [handler[h] EXCEPT !.live = FALSE]]
    /\ UNCHANGED <<db, request, purged, raced>>

(* The process dies with its handlers and open requests.                   *)
Crash ==
    /\ faults > 0
    /\ faults' = faults - 1
    /\ queue' = [m \in Messages |-> IF queue[m].at = "taken" THEN Returned(m) ELSE queue[m]]
    /\ handler' = [h \in Handlers |-> Free]
    /\ request' = [q \in Requests |-> Closed]
    /\ UNCHANGED <<db, purged, raced>>

-----------------------------------------------------------------------------
(* A read request names a user and one notification, or all of them. Its   *)
(* rows and items are chosen by a statement each, in the API's order.      *)
AllItems(u)      == {e \in Events : inbox[e][u] # "none"}
AllDeliveries(u) == {p \in Events \X Destinations : deliveries[p[1]][p[2]].exists /\ Owner(p[1]) = u}

(* markRead of version 1: the delivery, and its siblings by inbox_id.      *)
NoSiblingsDefect(p) == {p}

Siblings(p) ==
    {p} \union {s \in {p[1]} \X Destinations : deliveries[p[1]][p[2]].linked /\ deliveries[s[1]][s[2]].linked}

ItemOf(p) == IF deliveries[p[1]][p[2]].linked THEN {p[1]} ELSE {}

LinkedTo(e) == {p \in {e} \X Destinations : deliveries[e][p[2]].linked}

Open(q, u, second, rows, items) ==
    /\ request[q].pc = "closed"
    /\ request' = [request EXCEPT ![q] = [pc |-> "open", user |-> u, second |-> second, rows |-> rows, items |-> items]]
    /\ UNCHANGED <<queue, handler, db, faults, purged, raced>>

MarkDeliveryRead(q, p) ==
    /\ deliveries[p[1]][p[2]].exists
    /\ Open(q, Owner(p[1]), [of |-> "item", row |-> p], Siblings(p), {})

(* The same request for a row of a device, which is read already: only its *)
(* item is still to be marked.                                             *)
MarkPushRead(q, u, e) ==
    /\ <<e, u>> \in pushes
    /\ Open(q, u, [of |-> "push", event |-> e], LinkedTo(e) \intersect AllDeliveries(u), {})

MarkAllDeliveriesRead(q, u) == Open(q, u, [of |-> "items"], AllDeliveries(u), {})

MarkItemRead(q, u, e) ==
    /\ inbox[e][u] # "none"
    /\ Open(q, u, [of |-> "links", event |-> e], {}, {e})

MarkAllItemsRead(q, u) == Open(q, u, [of |-> "rows"], {}, AllItems(u))

(* The second statement, and the commit.                                   *)
SecondItems(q) ==
    CASE request[q].second.of = "item"  -> ItemOf(request[q].second.row)
      [] request[q].second.of = "push" ->
           {e \in {request[q].second.event} : <<e, request[q].user>> \in pushes}
      [] request[q].second.of = "items" -> AllItems(request[q].user)
      [] OTHER -> request[q].items

SecondRows(q) ==
    CASE request[q].second.of = "links" ->
           LinkedTo(request[q].second.event) \intersect AllDeliveries(request[q].user)
      [] request[q].second.of = "rows" -> AllDeliveries(request[q].user)
      [] OTHER -> request[q].rows

CommitRead(q) ==
    /\ OpenRequest(q)
    /\ inbox' = [e \in Events |-> [u \in Users |->
                   IF u = request[q].user /\ e \in SecondItems(q) /\ inbox[e][u] # "none" THEN "read" ELSE inbox[e][u]]]
    /\ deliveries' = [e \in Events |-> [d \in Destinations |->
                        IF <<e, d>> \in SecondRows(q) /\ deliveries[e][d].exists
                        THEN [deliveries[e][d] EXCEPT !.read = TRUE] ELSE deliveries[e][d]]]
    /\ request' = [request EXCEPT ![q] = Closed]
    /\ raced' = raced \union {e \in Events : Locked(e)}
    /\ UNCHANGED <<queue, handler, pushes, stored, faults, purged>>

AbortRead(q) ==
    /\ OpenRequest(q)
    /\ faults > 0
    /\ faults' = faults - 1
    /\ request' = [request EXCEPT ![q] = Closed]
    /\ UNCHANGED <<queue, handler, db, purged, raced>>

-----------------------------------------------------------------------------
(* RetentionPurger: old deliveries first, then items nothing refers to.    *)
PurgeDelivery(e, d) ==
    /\ deliveries[e][d].exists
    /\ deliveries' = [deliveries EXCEPT ![e][d] = Missing]
    /\ purged' = purged \union {e}
    /\ UNCHANGED <<queue, handler, inbox, pushes, stored, request, faults, raced>>

PurgePush(e, u) ==
    /\ <<e, u>> \in pushes
    /\ pushes' = pushes \ {<<e, u>>}
    /\ purged' = purged \union {e}
    /\ UNCHANGED <<queue, handler, inbox, deliveries, stored, request, faults, raced>>

PurgeItem(e, u) ==
    /\ inbox[e][u] # "none"
    /\ ~\E d \in Destinations : deliveries[e][d].exists /\ deliveries[e][d].linked /\ Owner(e) = u
    /\ <<e, u>> \notin pushes
    /\ inbox' = [inbox EXCEPT ![e][u] = "none"]
    /\ purged' = purged \union {e}
    /\ UNCHANGED <<queue, handler, deliveries, pushes, stored, request, faults, raced>>

Handle(h) == DropOwnAction(h) \/ BeginIngest(h) \/ CommitIngest(h) \/ Ack(h) \/ Refuse(h) \/ Requeue(h)

Read(q) ==
    \/ \E e \in Events, d \in Destinations : MarkDeliveryRead(q, <<e, d>>)
    \/ \E u \in Users : MarkAllDeliveriesRead(q, u) \/ MarkAllItemsRead(q, u)
    \/ \E u \in Users, e \in Events : MarkItemRead(q, u, e) \/ MarkPushRead(q, u, e)
    \/ CommitRead(q)
    \/ AbortRead(q)

Next ==
    \/ \E h \in Handlers : Handle(h) \/ \E m \in Messages : Take(h, m)
    \/ LoseConnection \/ Crash
    \/ \E q \in Requests : Read(q)
    \/ \E e \in Events : \/ \E d \in Destinations : PurgeDelivery(e, d)
                         \/ \E u \in Users : PurgeItem(e, u) \/ PurgePush(e, u)

Spec == Init /\ [][Next]_vars

-----------------------------------------------------------------------------
(* An event is acknowledged only when every recipient has an item of it,   *)
(* through lost connections whose handlers run on, crashes, failed         *)
(* transactions, twins of the other version and replays: "ack only after   *)
(* the inbox transaction commits" (rabbit.consumer.ts 186).                *)
AckedIsStored ==
    \A m \in Messages : queue[m].at = "acked" /\ ~m.own /\ m.event \notin purged =>
                          \A u \in m.to : inbox[m.event][u] # "none"

(* An event reaches a user through the destinations of its version 1 copy  *)
(* or through the devices and the mail of version 2, never through both,   *)
(* whichever copies arrive in which order and side by side: he is not told *)
(* twice (prisma.inbox.repository.ts 156-189, prisma.repository.ts 96-117).*)
OneChannel == \A e \in Events : HasDeliveries(e) => \A u \in Users : <<e, u>> \notin pushes

(* "So both APIs agree" (prisma.repository.ts 173): the item of an event   *)
(* with deliveries is read exactly when all of them are, whichever API     *)
(* marked what, and however often the event is stored again. An event with *)
(* pushes has no deliveries (OneChannel); of it the list of version 1      *)
(* shows only rows that were stored as read, beside an item that need not  *)
(* be. Excepted are events that were stored while a read transaction was   *)
(* open: a mark-all that falls between takes the new rows of one table     *)
(* only.                                                                   *)
ApisAgree ==
    \A e \in Events \ (raced \union purged) :
        HasDeliveries(e) /\ HasItems(e) =>
            (inbox[e][Owner(e)] = "read") = (\A d \in Destinations : deliveries[e][d].read)

(* What a user has read never turns unread again: not by a redelivery, a   *)
(* twin of the other version, a late commit or the linking of old rows.    *)
ReadKept ==
    /\ \A e \in Events, u \in Users : inbox[e][u] = "read" => inbox'[e][u] \in {"read", "none"}
    /\ \A e \in Events, d \in Destinations :
          deliveries[e][d].read => deliveries'[e][d].read \/ ~deliveries'[e][d].exists

ReadStaysRead == [][ReadKept]_vars
=============================================================================
