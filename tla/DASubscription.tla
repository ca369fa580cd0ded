--------------------------- MODULE DASubscription ---------------------------
(***************************************************************************)
(* One advised DA group at work: OnDataChange callbacks arriving on threads *)
(* of the server, the coalescing set they merge into (pendingUpdates), its *)
(* teardown on the DA thread, and the goroutine of a Subscribe stream that *)
(* consumes it (internal/opcda/subscribe.go, subscribe_windows.go,         *)
(* internal/frontend/grpc/subscribe.go).                                   *)
(*                                                                         *)
(* A batch is the part of an OnDataChange notification the adapter accepts *)
(* (unknown client handles are skipped before merge). A value is a number  *)
(* no other report carries; decoding is left out.                          *)
(***************************************************************************)
EXTENDS Naturals, Sequences

CONSTANTS
    Handles,      \* client handles of the active items
    Threads,      \* server threads that run callbacks
    Nobody,       \* "the mutex is free"
    MaxBatch,     \* itemCount: a longer notification is rejected as a whole
    MaxReports    \* bound: values the source reports in one behaviour

ASSUME SubscriptionAssumption ==
    /\ Nobody \notin Threads
    /\ MaxBatch \in Nat
    /\ MaxReports \in Nat

VARIABLES
    mu,           \* holder of pending.mu among the callbacks
    order,        \* pending.order
    latest,       \* pending.latest, 0 where the map has no entry
    notify,       \* the buffered notify channel holds a token
    closed,       \* pending.closed
    err,          \* pending.err is set
    done,         \* pending.done is closed
    registered,   \* the callback registry knows the subscription
    teardown,     \* progress of the teardown on the DA thread
    callback,     \* program counter of each callback thread
    batch,        \* what each callback still has to merge
    consumer,     \* program counter of the stream goroutine
    cancelled,    \* the stream context is done
    taken,        \* the batch last drained, item and value pairs
    reported,     \* the last value merged of each item (history)
    clock         \* values reported so far (history)

pendingVars == <<mu, order, latest, closed, err>>
vars == <<mu, order, latest, notify, closed, err, done, registered, teardown,
          callback, batch, consumer, cancelled, taken, reported, clock>>

CallbackStates == {"idle", "found", "merging", "merged"}
TeardownStates == {"live", "released", "unregistered", "invalidated", "ended"}
ConsumerStates == {"select", "drain", "send", "ended"}

Init ==
    /\ mu = Nobody
    /\ order = <<>>
    /\ latest = [h \in Handles |-> 0]
    /\ notify = FALSE
    /\ closed = FALSE
    /\ err = FALSE
    /\ done = FALSE
    /\ registered = TRUE
    /\ teardown = "live"
    /\ callback = [t \in Threads |-> "idle"]
    /\ batch = [t \in Threads |-> <<>>]
    /\ consumer = "select"
    /\ cancelled = FALSE
    /\ taken = <<>>
    /\ reported = [h \in Handles |-> 0]
    /\ clock = 0

-----------------------------------------------------------------------------
(* dataCallbackOnDataChange and merge *)

\* lookupCallback finds the subscription and the notification is decoded. The
\* registry lock is released before merge is called. An unregistered callback,
\* and an empty accepted batch, change nothing.
OnDataChange(t) ==
    /\ callback[t] = "idle"
    /\ registered
    /\ \E n \in 1..MaxBatch :
        /\ clock + n <= MaxReports
        /\ \E handles \in [1..n -> Handles] :
               batch' = [batch EXCEPT
                           ![t] = [i \in 1..n |-> <<handles[i], clock + i>>]]
        /\ clock' = clock + n
    /\ callback' = [callback EXCEPT ![t] = "found"]
    /\ UNCHANGED <<pendingVars, notify, done, registered, teardown, consumer,
                   cancelled, taken, reported>>

\* merge takes the mutex; a closed set swallows the batch.
MergeLocks(t) ==
    /\ callback[t] = "found"
    /\ mu = Nobody
    /\ IF closed
       THEN /\ callback' = [callback EXCEPT ![t] = "idle"]
            /\ batch' = [batch EXCEPT ![t] = <<>>]
            /\ UNCHANGED mu
       ELSE /\ callback' = [callback EXCEPT ![t] = "merging"]
            /\ mu' = t
            /\ UNCHANGED batch
    /\ UNCHANGED <<order, latest, closed, err, notify, done, registered, teardown,
                   consumer, cancelled, taken, reported, clock>>

\* Mutation: the handle moves to the back whenever it is reported.
orderedAgain(h) == Append(SelectSeq(order, LAMBDA x : x # h), h)

\* A handle already pending keeps its place.
ordered(h) == IF latest[h] = 0 THEN Append(order, h) ELSE order

\* One turn of the loop of merge.
MergeOne(t) ==
    /\ callback[t] = "merging"
    /\ batch[t] # <<>>
    /\ LET h == Head(batch[t])[1]
           v == Head(batch[t])[2] IN
        /\ order' = ordered(h)
        /\ latest' = [latest EXCEPT ![h] = v]
        /\ reported' = [reported EXCEPT ![h] = v]
    /\ batch' = [batch EXCEPT ![t] = Tail(@)]
    /\ UNCHANGED <<mu, closed, err, notify, done, registered, teardown, callback,
                   consumer, cancelled, taken, clock>>

MergeUnlocks(t) ==
    /\ callback[t] = "merging"
    /\ batch[t] = <<>>
    /\ mu' = Nobody
    /\ callback' = [callback EXCEPT ![t] = "merged"]
    /\ UNCHANGED <<order, latest, closed, err, notify, done, registered, teardown,
                   batch, consumer, cancelled, taken, reported, clock>>

\* Mutation: only the first report after a drain is signalled, and the check is
\* made without the mutex.
MergeNotifiesFirst(t) ==
    /\ callback[t] = "merged"
    /\ notify' = (notify \/ Len(order) = 1)
    /\ callback' = [callback EXCEPT ![t] = "idle"]
    /\ UNCHANGED <<pendingVars, done, registered, teardown, batch, consumer,
                   cancelled, taken, reported, clock>>

\* The non-blocking send on a channel of capacity one.
MergeNotifies(t) ==
    /\ callback[t] = "merged"
    /\ notify' = TRUE
    /\ callback' = [callback EXCEPT ![t] = "idle"]
    /\ UNCHANGED <<pendingVars, done, registered, teardown, batch, consumer,
                   cancelled, taken, reported, clock>>

-----------------------------------------------------------------------------
(* teardown on the DA thread: releaseCOM, then invalidate *)

\* Unadvise, Release and RemoveGroup; a callback may be running all the while.
ReleaseGroup ==
    /\ teardown = "live"
    /\ teardown' = "released"
    /\ UNCHANGED <<pendingVars, notify, done, registered, callback, batch, consumer,
                   cancelled, taken, reported, clock>>

UnregisterCallback ==
    /\ teardown = "released"
    /\ registered' = FALSE
    /\ teardown' = "unregistered"
    /\ UNCHANGED <<pendingVars, notify, done, callback, batch, consumer, cancelled,
                   taken, reported, clock>>

\* invalidate runs once per subscription: both callers of teardown have removed
\* the subscription from the session.
Invalidate ==
    /\ teardown = "unregistered"
    /\ mu = Nobody
    /\ closed' = TRUE
    /\ err' = TRUE
    /\ order' = <<>>
    /\ latest' = [h \in Handles |-> 0]
    /\ teardown' = "invalidated"
    /\ UNCHANGED <<mu, notify, done, registered, callback, batch, consumer,
                   cancelled, taken, reported, clock>>

\* Mutation: done is never closed.
CloseNothing ==
    /\ teardown = "invalidated"
    /\ teardown' = "ended"
    /\ UNCHANGED <<pendingVars, notify, done, registered, callback, batch, consumer,
                   cancelled, taken, reported, clock>>

CloseDone ==
    /\ teardown = "invalidated"
    /\ done' = TRUE
    /\ teardown' = "ended"
    /\ UNCHANGED <<pendingVars, notify, registered, callback, batch, consumer,
                   cancelled, taken, reported, clock>>

-----------------------------------------------------------------------------
(* The stream goroutine *)

CancelStream ==
    /\ ~cancelled
    /\ cancelled' = TRUE
    /\ UNCHANGED <<pendingVars, notify, done, registered, teardown, callback, batch,
                   consumer, taken, reported, clock>>

\* The select: context, Done and Updates, in any order when several are ready.
SelectEnds ==
    /\ consumer = "select"
    /\ cancelled \/ done
    /\ consumer' = "ended"
    /\ UNCHANGED <<pendingVars, notify, done, registered, teardown, callback, batch,
                   cancelled, taken, reported, clock>>

SelectUpdates ==
    /\ consumer = "select"
    /\ notify
    /\ notify' = FALSE
    /\ consumer' = "drain"
    /\ UNCHANGED <<pendingVars, done, registered, teardown, callback, batch,
                   cancelled, taken, reported, clock>>

\* drain; an empty set sends the loop back to the select.
Drain ==
    /\ consumer = "drain"
    /\ mu = Nobody
    /\ IF order = <<>>
       THEN consumer' = "select" /\ UNCHANGED <<order, latest, taken>>
       ELSE /\ taken' = [i \in 1..Len(order) |-> <<order[i], latest[order[i]]>>]
            /\ order' = <<>>
            /\ latest' = [h \in Handles |-> 0]
            /\ consumer' = "send"
    /\ UNCHANGED <<mu, closed, err, notify, done, registered, teardown, callback,
                   batch, cancelled, reported, clock>>

\* Send returns, after however long the client took; an error ends the stream.
Send ==
    /\ consumer = "send"
    /\ consumer' \in {"select", "ended"}
    /\ UNCHANGED <<pendingVars, notify, done, registered, teardown, callback, batch,
                   cancelled, taken, reported, clock>>

-----------------------------------------------------------------------------

MergeStep(t) == MergeLocks(t) \/ MergeOne(t) \/ MergeUnlocks(t) \/ MergeNotifies(t)

TeardownStep == UnregisterCallback \/ Invalidate \/ CloseDone

ConsumerStep == SelectEnds \/ SelectUpdates \/ Drain \/ Send

Next ==
    \/ \E t \in Threads : OnDataChange(t) \/ MergeStep(t)
    \/ ReleaseGroup \/ TeardownStep
    \/ CancelStream \/ ConsumerStep

Spec == Init /\ [][Next]_vars

\* Callbacks, once begun, the teardown, once begun, and the stream goroutine
\* run on, and the client reads what it is sent. The mutex is fair: a goroutine
\* waiting for it is not overtaken for ever.
Fairness ==
    /\ \A t \in Threads : SF_vars(MergeStep(t))
    /\ SF_vars(TeardownStep)
    /\ SF_vars(ConsumerStep)

FairSpec == Spec /\ Fairness

-----------------------------------------------------------------------------
(* Properties *)

Listed(s) == {s[i] : i \in DOMAIN s}

Batch == Seq(Handles \X (Nat \ {0}))

\* Every variable keeps its type.
TypeOK ==
    /\ mu \in Threads \cup {Nobody}
    /\ order \in Seq(Handles)
    /\ latest \in [Handles -> Nat]
    /\ notify \in BOOLEAN /\ closed \in BOOLEAN /\ err \in BOOLEAN
    /\ done \in BOOLEAN /\ registered \in BOOLEAN /\ cancelled \in BOOLEAN
    /\ teardown \in TeardownStates
    /\ callback \in [Threads -> CallbackStates]
    /\ batch \in [Threads -> Batch]
    /\ consumer \in ConsumerStates
    /\ taken \in Seq(Handles \X Nat)
    /\ reported \in [Handles -> Nat]
    /\ clock \in Nat

\* The two halves of the pending set agree, at every instant and not only when
\* the mutex is free: order lists each handle once, exactly the handles of the
\* map, and the map holds the last value merged of each. Its size is therefore
\* bounded by the active items ("it has no overflow condition").
OrderMatchesLatest ==
    /\ \A i, j \in DOMAIN order : order[i] = order[j] => i = j
    /\ \A h \in Handles : latest[h] # 0 <=> h \in Listed(order)
    /\ \A h \in Handles : latest[h] # 0 => latest[h] = reported[h]

\* A merged value never waits unannounced: while the set is not empty a token
\* is in the channel, a callback is about to put one there, or the consumer is
\* on its way to drain (merge signals after it unlocks, drain empties the set
\* without taking the token).
NothingUnannounced ==
    order # <<>> =>
        \/ notify
        \/ consumer \in {"drain", "ended"}
        \/ \E t \in Threads : callback[t] \in {"merging", "merged"}

\* "Values captured under a dead connection generation are never delivered": an
\* invalidated set stays empty although callbacks that found the subscription
\* before it was unregistered are still merging, and no callback holds the
\* mutex of a closed set.
DeadValuesNeverDrained ==
    closed => order = <<>> /\ mu = Nobody

\* The pending set is coherent: its order and its map agree, what is in it is
\* announced, and an invalidated one stays empty (merge, drain, invalidate).
PendingCoherent == OrderMatchesLatest /\ NothingUnannounced /\ DeadValuesNeverDrained

\* The coalescing set does what the Subscription interface promises.
Abstract == INSTANCE Coalescing WITH
    Items <- Handles, unread <- order, delivered <- taken, ended <- closed

\* Every drain hands over exactly the unread items in first-seen order with
\* their last values, and nothing after the end.
ImplementsCoalescing == Abstract!Spec

\* Every merged value is drained, dropped with the subscription, or left behind
\* by a stream that ended.
EventuallyDelivered ==
    \A h \in Handles :
        (h \in Listed(order)) ~> (h \notin Listed(order) \/ consumer = "ended")

\* The end of the subscription reaches the stream, which returns and releases
\* its admission slot.
StreamLearnsOfEnd == closed ~> consumer = "ended"

\* A stream gets every value or learns of the end (Subscribe of the gRPC
\* frontend over Updates, Drain and Done).
StreamDelivers == EventuallyDelivered /\ StreamLearnsOfEnd

=============================================================================
