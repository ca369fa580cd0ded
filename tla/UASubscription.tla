--------------------------- MODULE UASubscription ---------------------------
(***************************************************************************)
(* The UA subscriptions of one session, each backed by one DA group:       *)
(* monitored items, the values they hold back until their sampling         *)
(* interval has passed, the queue of notifications to send, sequence       *)
(* numbers, acknowledgement and retransmission, keep-alives, and what      *)
(* happens when the DA group is rebuilt or invalidated                     *)
(* (internal/opcua/subscription.go).                                       *)
(*                                                                         *)
(* Every operation runs under SubscriptionService.mu and is one step. Held *)
(* Publish requests each run publishing cycles of their own. The session   *)
(* and its end are the subject of UASession.                               *)
(***************************************************************************)
EXTENDS Naturals, Sequences, FiniteSets, Selections

CONSTANTS
    Subscriptions,
    Items,         \* MonitoredItemIds, each assigned at most once
    DAItems,       \* items of the DA source
    Publishes,     \* Publish requests a client has outstanding at a time
    owner, itemID, clientHandle,  \* of each item, as its client requests it
    Reporting,     \* the items with MonitoringMode Reporting
    NotReadable,   \* the DA items whose access rights carry no read bit
    priority,      \* of each subscription
    keepAliveCount,
    maxNotifications,       \* notifications per Publish response
    MaxMonitoredItems, MaxRetransmissionQueue,
    MaxChanges,    \* bound: how often each DA item changes
    MaxSemantics,  \* bound: how often its semantic properties change
    None           \* no value is held

Notifications == [status : {"Good", "Bad_NotReadable", "Bad_NotConnected"},
                  value : Nat, semantic : 0 .. MaxSemantics]

ASSUME SubscriptionAssumption ==
    /\ IsFiniteSet(Items)   \* they are UInt32
    /\ owner \in [Items -> Subscriptions]
    /\ itemID \in [Items -> DAItems]
    /\ DOMAIN clientHandle = Items
    /\ Reporting \subseteq Items /\ NotReadable \subseteq DAItems
    /\ priority \in [Subscriptions -> Nat]
    /\ keepAliveCount \in Nat \ {0} /\ maxNotifications \in Nat \ {0}
    /\ MaxMonitoredItems \in Nat \ {0} /\ MaxRetransmissionQueue \in Nat \ {0, 1}
    /\ MaxChanges \in [DAItems -> Nat] /\ MaxSemantics \in Nat
    /\ None \notin Notifications

VARIABLES
    version, semantics,    \* the source: value and semantic generation per DA item
    items,         \* monitored items that exist
    used,          \* MonitoredItemIds assigned so far
    handles,       \* keys of byHandle, per subscription
    da,            \* items of the DA group, {} when da is nil
    done,          \* whether the DA subscription was invalidated
    queue,         \* what the DA subscription has to drain
    enabled,       \* publishingEnabled
    held, heldOrder,
    lastReported,  \* "never", "recent" (within the sampling interval) or "due"
    seen,          \* semanticGeneration of each item
    pending,
    sequenceNumber, retransmit, retransmitOrder,
    keepAliveTicks, messageSent,
    publish,       \* whether each Publish is outstanding
    acked,         \* history: of the newest messages, those the client acknowledged
    reported,      \* history: the values and refusals put in pending for each item
    born           \* history: the semantic generation an item started level with

sourceVars == <<version, semantics>>
itemVars   == <<items, used, handles>>
daVars     == <<da, done, queue>>
heldVars   == <<held, heldOrder, lastReported, seen, pending, reported, born>>
sendVars   == <<sequenceNumber, retransmit, retransmitOrder, keepAliveTicks, messageSent>>
clientVars == <<publish, acked>>
vars == <<sourceVars, itemVars, daVars, enabled, heldVars, sendVars, clientVars>>

ItemsOf(s) == {i \in items : owner[i] = s}

Init ==
    /\ version = [n \in DAItems |-> 0] /\ semantics = [n \in DAItems |-> 0]
    /\ items = {} /\ used = {} /\ handles = [s \in Subscriptions |-> {}]
    /\ da = [s \in Subscriptions |-> {}] /\ done = [s \in Subscriptions |-> FALSE]
    /\ queue = [s \in Subscriptions |-> <<>>]
    /\ enabled \in [Subscriptions -> BOOLEAN]
    /\ held = [i \in Items |-> None] /\ heldOrder = [s \in Subscriptions |-> <<>>]
    /\ lastReported = [i \in Items |-> "never"]
    /\ seen = [i \in Items |-> 0]
    /\ pending = [s \in Subscriptions |-> <<>>]
    /\ sequenceNumber = [s \in Subscriptions |-> 0]
    /\ retransmit = [s \in Subscriptions |-> {}]
    /\ retransmitOrder = [s \in Subscriptions |-> <<>>]
    /\ keepAliveTicks = [s \in Subscriptions |-> 0]
    /\ messageSent = [s \in Subscriptions |-> FALSE]
    /\ publish = [p \in Publishes |-> FALSE]
    /\ acked = [s \in Subscriptions |-> {}]
    /\ reported = [i \in Items |-> <<>>] /\ born = [i \in Items |-> 0]

-----------------------------------------------------------------------------
(* The source *)

\* The DA subscription coalesces per item and keeps first-seen order.
merge(q, n, v) ==
    IF \E k \in DOMAIN q : q[k].node = n
    THEN [k \in DOMAIN q |-> IF q[k].node = n THEN [node |-> n, value |-> v] ELSE q[k]]
    ELSE Append(q, [node |-> n, value |-> v])

SourceChanges(n) ==
    /\ version[n] < MaxChanges[n]
    /\ version' = [version EXCEPT ![n] = @ + 1]
    /\ queue' = [s \in Subscriptions |->
                    IF n \in da[s] /\ ~done[s] THEN merge(queue[s], n, version'[n])
                    ELSE queue[s]]
    /\ UNCHANGED <<semantics, itemVars, da, done, enabled, heldVars, sendVars, clientVars>>

SemanticsChange(n) ==
    /\ semantics[n] < MaxSemantics
    /\ semantics' = [semantics EXCEPT ![n] = @ + 1]
    /\ UNCHANGED <<version, itemVars, daVars, enabled, heldVars, sendVars, clientVars>>

\* The DA core invalidates its subscription and discards what is pending in it.
Invalidate(s) ==
    /\ da[s] # {}
    /\ ~done[s]
    /\ done' = [done EXCEPT ![s] = TRUE]
    /\ queue' = [queue EXCEPT ![s] = <<>>]
    /\ UNCHANGED <<sourceVars, itemVars, da, enabled, heldVars, sendVars, clientVars>>

-----------------------------------------------------------------------------
(* Monitored items *)

\* The DA items a group for these monitored items is created over.
GroupItems(monitored) == {itemID[i] : i \in monitored} \ NotReadable

\* rebuildDASubscription succeeds: the old group is released in favour of one
\* over the new set, or just released when there is nothing to read.
Rebuilt(s, monitored) ==
    /\ da' = [da EXCEPT ![s] = GroupItems(monitored)]
    /\ done' = [done EXCEPT ![s] = FALSE]
    /\ queue' = [queue EXCEPT ![s] = <<>>]

\* prepareMonitoredItem compares with the handles of registered items only; the
\* items of one request are registered together, and taken back together when
\* the group cannot be rebuilt.
CreateMonitoredItems(s, requested) ==
    LET accepted == {i \in requested : clientHandle[i] \notin handles[s]} IN
    /\ requested # {}
    /\ requested \subseteq {i \in Items : owner[i] = s} \ used
    /\ Cardinality(ItemsOf(s)) + Cardinality(requested) <= MaxMonitoredItems
    /\ accepted # {}
    /\ used' = used \cup accepted
    /\ seen' = [i \in Items |-> IF i \in accepted THEN semantics[itemID[i]] ELSE seen[i]]
    /\ born' = [i \in Items |-> IF i \in accepted THEN semantics[itemID[i]] ELSE born[i]]
    /\ \/ /\ Rebuilt(s, ItemsOf(s) \cup accepted)
          /\ items' = items \cup accepted
          /\ handles' = [handles EXCEPT ![s] = @ \cup {clientHandle[i] : i \in accepted}]
       \/ /\ GroupItems(ItemsOf(s) \cup accepted) # {}
          /\ UNCHANGED <<items, handles, daVars>>
    /\ UNCHANGED <<sourceVars, enabled, held, heldOrder, lastReported, pending, reported,
                   sendVars, clientVars>>

\* The items are gone either way; without a group to rebuild, the old one is
\* released. heldOrder is left to the next flush.
DeleteMonitoredItems(s, named) ==
    /\ named # {}
    /\ named \subseteq ItemsOf(s)
    /\ items' = items \ named
    /\ handles' = [handles EXCEPT ![s] = @ \ {clientHandle[i] : i \in named}]
    /\ held' = [i \in Items |-> IF i \in named THEN None ELSE held[i]]
    /\ lastReported' = [i \in Items |-> IF i \in named THEN "never" ELSE lastReported[i]]
    /\ reported' = [i \in Items |-> IF i \in named THEN <<>> ELSE reported[i]]
    /\ \/ Rebuilt(s, ItemsOf(s) \ named)
       \/ Rebuilt(s, {})
    /\ UNCHANGED <<sourceVars, used, enabled, heldOrder, seen, pending, born, sendVars,
                   clientVars>>

SetPublishingMode(s) ==
    /\ enabled' = [enabled EXCEPT ![s] = ~@]
    /\ UNCHANGED <<sourceVars, itemVars, daVars, heldVars, sendVars, clientVars>>

\* The sampling interval of an item has passed since it last reported.
SamplingDue(i) ==
    /\ lastReported[i] = "recent"
    /\ lastReported' = [lastReported EXCEPT ![i] = "due"]
    /\ UNCHANGED <<sourceVars, itemVars, daVars, enabled, held, heldOrder, seen, pending,
                   reported, born, sendVars, clientVars>>

-----------------------------------------------------------------------------
(* A publishing cycle. Its parts map a record of the variables they change:  *)
(* [held, heldOrder, lastReported, seen, pending, reported, da] of s.        *)

Notification(status, value, semantic) ==
    [status |-> status, value |-> value, semantic |-> semantic]

ToSend(i, n) == [item |-> i, notification |-> n]

\* The orders in which a map may yield a set.
Orders(S) == {o \in [1 .. Cardinality(S) -> S] : \A j, k \in DOMAIN o : o[j] = o[k] => j = k}

\* Mutation: new notifications go before the ones that wait.
QueuedFirst(c, is, value) ==
    [c EXCEPT !.pending = [k \in DOMAIN is |-> ToSend(is[k], value[is[k]])] \o @,
              !.reported = [i \in Items |-> IF i \in Listed(is) THEN <<value[i]>> \o @[i]
                                            ELSE @[i]]]

\* Puts notifications at the end of pending.
Queued(c, is, value) ==
    [c EXCEPT !.pending = @ \o [k \in DOMAIN is |-> ToSend(is[k], value[is[k]])],
              !.reported = [i \in Items |-> IF i \in Listed(is) THEN Append(@[i], value[i])
                                            ELSE @[i]]]

\* Mutation: the status is given again once it has been reported.
UnreadableAgain(s) ==
    {i \in ItemsOf(s) \cap Reporting : itemID[i] \in NotReadable /\ held[i] = None}

\* The unreadable items that have not been given their status.
Unreadable(s) ==
    {i \in ItemsOf(s) \cap Reporting : /\ itemID[i] \in NotReadable
                                       /\ lastReported[i] = "never"
                                       /\ held[i] = None}

holdUnreadable(c, o) ==
    [c EXCEPT !.heldOrder = @ \o o,
              !.held = [i \in Items |-> IF i \in Listed(o)
                                        THEN Notification("Bad_NotReadable", 0, 0)
                                        ELSE @[i]]]

\* Mutation: a value that is not due yet loses its place.
flushHeldDrops(s, c) ==
    IF ~enabled[s] THEN c
    ELSE LET holding == {i \in items : c.held[i] # None}
             ready == Selected(c.heldOrder, {i \in holding : lastReported[i] # "recent"})
         IN [Queued(c, ready, c.held) EXCEPT
                !.heldOrder = <<>>,
                !.held = [i \in Items |-> IF i \in Listed(ready) THEN None ELSE @[i]],
                !.lastReported = [i \in Items |-> IF i \in Listed(ready) THEN "recent"
                                                  ELSE @[i]]]

flushHeld(s, c) ==
    IF ~enabled[s] THEN c
    ELSE LET holding == {i \in items : c.held[i] # None}
             ready == Selected(c.heldOrder, {i \in holding : lastReported[i] # "recent"})
             still == Selected(c.heldOrder, {i \in holding : lastReported[i] = "recent"})
         IN [Queued(c, ready, c.held) EXCEPT
                !.heldOrder = still,
                !.held = [i \in Items |-> IF i \in Listed(ready) THEN None ELSE @[i]],
                !.lastReported = [i \in Items |-> IF i \in Listed(ready) THEN "recent"
                                                  ELSE @[i]]]

reportInvalidation(s, c, o) ==
    [Queued(c, Selected(o, Reporting),
            [i \in Items |-> Notification("Bad_NotConnected", 0, 0)]) EXCEPT
        !.reported = c.reported,
        !.heldOrder = <<>>,
        !.held = [i \in Items |-> IF i \in ItemsOf(s) THEN None ELSE @[i]]]

\* itemForDAItemID: some item of the subscription with that ItemID, whichever
\* the map yields first.
itemForDAItemID(s) ==
    {pick \in [{queue[s][k].node : k \in DOMAIN queue[s]} -> ItemsOf(s)] :
        \A n \in DOMAIN pick : itemID[pick[n]] = n}

\* Drained values replace what their items hold; an item that held nothing
\* joins heldOrder, and carries the semantics bit when its generation is behind.
holdValues(s, c, pick) ==
    LET drained == Selected(queue[s], {q \in Listed(queue[s]) : pick[q.node] \in Reporting})
        fedItems == {pick[q.node] : q \in Listed(drained)}
        new == Selected([k \in DOMAIN drained |-> pick[drained[k].node]],
                        {i \in fedItems : c.held[i] = None})
        valueOf(i) == (CHOOSE q \in Listed(drained) : pick[q.node] = i).value
        bit(i) == IF semantics[itemID[i]] # seen[i] THEN semantics[itemID[i]] ELSE 0
    IN  [c EXCEPT
          !.heldOrder = @ \o new,
          !.held = [i \in Items |-> IF i \in fedItems
                                    THEN Notification("Good", valueOf(i), bit(i)) ELSE @[i]],
          !.seen = [i \in Items |-> IF i \in fedItems THEN semantics[itemID[i]] ELSE @[i]]]

current(s) ==
    [held |-> held, heldOrder |-> heldOrder[s], lastReported |-> lastReported, seen |-> seen,
     pending |-> pending[s], reported |-> reported, da |-> da[s]]

\* collect, given the orders in which maps yield their keys.
collect(s, unreadable, all, pick) ==
    LET c == holdUnreadable(current(s), unreadable) IN
    CASE da[s] = {} -> flushHeld(s, c)
      [] da[s] # {} /\ done[s] -> [reportInvalidation(s, c, all) EXCEPT !.da = {}]
      [] OTHER -> flushHeld(s, holdValues(s, c, pick))

\* Drops the oldest message when the queue is full, then adds the new one.
queueForRetransmission(s) ==
    LET full == Len(retransmitOrder[s]) >= MaxRetransmissionQueue
        kept == IF full THEN Tail(retransmitOrder[s]) ELSE retransmitOrder[s]
        old == IF full THEN {Head(retransmitOrder[s])} ELSE {}
    IN  /\ retransmit' = [retransmit EXCEPT ![s] = (@ \ old) \cup {sequenceNumber[s] + 1}]
        /\ retransmitOrder' = [retransmitOrder EXCEPT ![s] =
                                 Append(kept, sequenceNumber[s] + 1)]

\* The request is answered. Whether the response arrives makes no difference to
\* the server; a message that was lost stays in the retransmission queue.
Answer(p) == publish' = [publish EXCEPT ![p] = FALSE]

\* buildMessage with nothing to send: a cycle towards the keep-alive.
KeepAliveCycle(p, s) ==
    IF messageSent[s] /\ keepAliveTicks[s] + 1 < keepAliveCount
    THEN /\ keepAliveTicks' = [keepAliveTicks EXCEPT ![s] = @ + 1]
         /\ UNCHANGED <<publish, messageSent>>
    ELSE /\ keepAliveTicks' = [keepAliveTicks EXCEPT ![s] = 0]
         /\ messageSent' = [messageSent EXCEPT ![s] = TRUE]
         /\ Answer(p)

\* buildMessage with notifications.
SendMessage(p, s) ==
    /\ keepAliveTicks' = [keepAliveTicks EXCEPT ![s] = 0]
    /\ messageSent' = [messageSent EXCEPT ![s] = TRUE]
    /\ sequenceNumber' = [sequenceNumber EXCEPT ![s] = @ + 1]
    /\ queueForRetransmission(s)
    /\ acked' = [acked EXCEPT ![s] = {n \in @ : sequenceNumber'[s] - n < MaxRetransmissionQueue}]
    /\ Answer(p)

nextPublishable ==
    {s \in Subscriptions : \A t \in Subscriptions : priority[t] <= priority[s]}

\* One publishing cycle of an outstanding Publish.
tryPublish(p) ==
    /\ publish[p]
    /\ \E s \in nextPublishable :
       \E unreadable \in Orders(Unreadable(s)), all \in Orders(ItemsOf(s)),
          pick \in itemForDAItemID(s) :
          LET c == collect(s, unreadable, all, pick)
              sends == enabled[s] /\ c.pending # <<>>
          IN /\ held' = c.held
             /\ heldOrder' = [heldOrder EXCEPT ![s] = c.heldOrder]
             /\ lastReported' = c.lastReported
             /\ seen' = c.seen
             /\ reported' = c.reported
             /\ pending' = [pending EXCEPT ![s] =
                   IF sends THEN SubSeq(c.pending, maxNotifications + 1, Len(c.pending))
                   ELSE c.pending]
             /\ da' = [da EXCEPT ![s] = c.da]
             /\ done' = [done EXCEPT ![s] = @ /\ c.da # {}]
             /\ queue' = [queue EXCEPT ![s] = <<>>]
             /\ IF sends
                THEN SendMessage(p, s)
                ELSE /\ KeepAliveCycle(p, s)
                     /\ UNCHANGED <<sequenceNumber, retransmit, retransmitOrder, acked>>
    /\ UNCHANGED <<sourceVars, itemVars, enabled, born>>

-----------------------------------------------------------------------------
(* The client *)

\* Mutation: an acknowledged message keeps its place in the order.
acknowledgeMapOnly(s, n) ==
    /\ retransmit' = [retransmit EXCEPT ![s] = @ \ {n}]
    /\ UNCHANGED retransmitOrder

acknowledge(s, n) ==
    /\ retransmit' = [retransmit EXCEPT ![s] = @ \ {n}]
    /\ retransmitOrder' = [retransmitOrder EXCEPT ![s] = Selected(@, Listed(@) \ {n})]

\* A Publish request, which may acknowledge a message that is still queued; an
\* acknowledgement of another number is refused. Republish reads the queue and
\* changes nothing.
Publish(p) ==
    /\ ~publish[p]
    /\ publish' = [publish EXCEPT ![p] = TRUE]
    /\ \/ UNCHANGED <<retransmit, retransmitOrder, acked>>
       \/ \E s \in Subscriptions : \E n \in retransmit[s] :
             /\ acknowledge(s, n)
             /\ acked' = [acked EXCEPT ![s] = @ \cup {n}]
    /\ UNCHANGED <<sourceVars, itemVars, daVars, enabled, heldVars, sequenceNumber,
                   keepAliveTicks, messageSent>>

-----------------------------------------------------------------------------

Next ==
    \/ \E n \in DAItems : SourceChanges(n) \/ SemanticsChange(n)
    \/ \E s \in Subscriptions :
          \/ Invalidate(s)
          \/ SetPublishingMode(s)
          \/ \E I \in SUBSET Items : CreateMonitoredItems(s, I) \/ DeleteMonitoredItems(s, I)
    \/ \E i \in Items : SamplingDue(i)
    \/ \E p \in Publishes : Publish(p) \/ tryPublish(p)

Spec == Init /\ [][Next]_vars

\* Tickers tick and sampling intervals pass; the client keeps publishing.
Fairness ==
    /\ \A i \in Items : WF_vars(SamplingDue(i))
    /\ \A p \in Publishes : WF_vars(Publish(p)) /\ WF_vars(tryPublish(p))

FairSpec == Spec /\ Fairness

-----------------------------------------------------------------------------
(* Properties *)

\* Every variable keeps its type and the retransmission queue its limit.
TypeOK ==
    /\ \A n \in DAItems : version[n] \in 0 .. MaxChanges[n]
    /\ semantics \in [DAItems -> 0 .. MaxSemantics]
    /\ items \subseteq used /\ used \subseteq Items
    /\ \A s \in Subscriptions : /\ Cardinality(ItemsOf(s)) <= MaxMonitoredItems
                                /\ Len(retransmitOrder[s]) <= MaxRetransmissionQueue
                                /\ da[s] \subseteq DAItems
                                /\ keepAliveTicks[s] \in 0 .. keepAliveCount
    /\ held \in [Items -> Notifications \cup {None}]
    /\ lastReported \in [Items -> {"never", "recent", "due"}]
    /\ publish \in [Publishes -> BOOLEAN]
    /\ enabled \in [Subscriptions -> BOOLEAN]

Count(i, q) == Cardinality({k \in DOMAIN q : q[k] = i})

\* No held value is stranded and none is reported twice: an existing item that
\* holds a value has exactly one place in heldOrder, and one that holds none has
\* no place, through pacing, deletion, rebuilding and invalidation.
HeldIsQueued ==
    \A i \in items : Count(i, heldOrder[owner[i]]) = IF held[i] = None THEN 0 ELSE 1

\* The map and the order of the retransmission queue name the same messages, and
\* a message a client did not acknowledge is there for Republish unless as many
\* newer ones were sent as the queue holds ("the oldest sent NotificationMessage
\* gets deleted"). Its limit is part of TypeOK.
UnacknowledgedKept ==
    /\ TypeOK
    /\ \A s \in Subscriptions :
           /\ Listed(retransmitOrder[s]) = retransmit[s]
           /\ \A n \in 1 .. sequenceNumber[s] :
                 \/ n \in retransmit[s] \cup acked[s]
                 \/ sequenceNumber[s] - n >= MaxRetransmissionQueue

Values(i) ==
    LET told == IF held[i] = None THEN reported[i] ELSE Append(reported[i], held[i])
    IN Selected(told, {n \in Listed(told) : n.status = "Good"})

Newest(i) == LET v == Values(i) IN IF v = <<>> THEN 0 ELSE v[Len(v)].value

\* A client never sees an item go back in time: what is reported for an item,
\* followed by what it holds, is in the order the source produced it.
ValuesInOrder ==
    \A i \in Items : LET v == Values(i) IN
        \A j, k \in DOMAIN v : j < k => v[j].value <= v[k].value

\* holdUnreadable: the status of an item nobody may read is reported "once
\* rather than repeated".
UnreadableOnce ==
    \A i \in Items :
        Cardinality({k \in DOMAIN reported[i] : reported[i][k].status = "Bad_NotReadable"}) <= 1

\* Each value and each refusal is reported once: held values have one place in
\* heldOrder, and Bad_NotReadable is said once (collect, pace, invalidate).
ReportedOnce == HeldIsQueued /\ UnreadableOnce

\* A value an item holds is reported once its interval has passed, unless the
\* item is deleted, the source goes away or publishing is switched off: pacing
\* "holds rather than drops".
HeldIsReported ==
    \A i \in Items : held[i] # None ~> held[i] = None \/ ~enabled[owner[i]]

\* rebuildDASubscription: of two items that name the same DA item "both are fed
\* from that one notification".
BothFed ==
    [][\A i, j \in items \cap items' \cap Reporting :
          owner[i] = owner[j] /\ itemID[i] = itemID[j] /\ Newest(i)' > Newest(i)
             => Newest(j)' = Newest(i)']_vars

\* collect: the semantics bit "goes on one data change notification per monitored
\* item": an item level with the address space has told its client of the change
\* or holds the notification that will.
SemanticsBitSent ==
    \A i \in items :
        \/ seen[i] = born[i]
        \/ held[i] # None /\ held[i].semantic = seen[i]
        \/ \E k \in DOMAIN reported[i] : reported[i][k].semantic = seen[i]

=============================================================================
