----------------------------- MODULE DARuntime -----------------------------
(***************************************************************************)
(* The DA-native runtime: the dedicated COM thread (runDAThread), the      *)
(* bounded command queue frontends feed, the COM-call watchdogs, the       *)
(* status record every frontend reads, reconnects and shutdown             *)
(* (internal/opcda/runtime_windows.go).                                    *)
(*                                                                         *)
(* Several kinds of goroutine touch the runtime concurrently:              *)
(*   - the calls made by frontends (a call is one use of Browse, ReadBatch,*)
(*     WriteBatch, AvailableItemProperties, ItemProperties, Subscribe or   *)
(*     Unsubscribe, with its own context and reply channel);               *)
(*   - the DA thread, whose program counter is da;                         *)
(*   - one watchdog goroutine per COM call;                                *)
(*   - the caller of Shutdown.                                             *)
(* A step of the model is one access to state another goroutine can see.   *)
(* A COM call in progress is a value of da ("connect", "run", "teardown",  *)
(* "teardownLate", "disconnect", "cleanup"): the action that leaves it is  *)
(* the return of the call, which a vendor server may delay for ever. What  *)
(* the thread writes to the status after such a call is a later step.      *)
(***************************************************************************)
EXTENDS Naturals, Sequences, FiniteSets

CONSTANTS
    Calls,             \* the operations frontends invoke, each at most once
    Offered,           \* the kinds of operation this instance invokes (bound)
    NoCall,            \* "no command is running"
    Watchdogs,         \* watchdog goroutines that may exist at one time (bound)
    CommandQueue,      \* Limits.CommandQueue, the capacity of r.commands
    MaxSubscriptions,  \* Limits.MaxSubscriptions
    MaxGenerations,    \* bound: connections that succeed in one behaviour
    WakeMayFail        \* whether SetEvent on the open wake event may fail

ASSUME ConstantsAssumption ==
    /\ NoCall \notin Calls
    /\ Offered \subseteq {"read", "subscribe", "unsubscribe"}
    /\ CommandQueue \in Nat \ {0}
    /\ MaxSubscriptions \in Nat \ {0}
    /\ MaxGenerations \in Nat
    /\ WakeMayFail \in BOOLEAN

VARIABLES
    degraded,       \* r.degraded, the atomic flag
    status,         \* r.status, under statusMu
    commands,       \* r.commands: the calls whose command is queued
    wake,           \* the manual-reset wake event
    stop,           \* r.stop is closed
    stopped,        \* r.stopped is closed
    da,             \* program counter of the DA thread
    running,        \* the call whose command the DA thread runs
    dog,            \* program counter of each watchdog goroutine
    watching,       \* the watchdog of the COM call in progress
    session,        \* daThreadSession, private to the DA thread
    invalidated,    \* identifiers of subscriptions torn down so far (history)
    call,           \* program counter of each call
    op,             \* what each call does
    target,         \* the identifier an Unsubscribe names
    expired,        \* calls whose context is done
    reply,          \* each call's reply channel (buffer of one)
    owned,          \* identifiers handed to a frontend by Subscribe (history)
    shutdown        \* program counter of the Shutdown caller

threadVars == <<da, running, watching, session, invalidated, stopped>>
callVars   == <<call, op, target, expired, owned>>
vars == <<degraded, status, commands, wake, stop, stopped, da, running, dog,
          watching, session, invalidated, call, op, target, expired, reply,
          owned, shutdown>>

-----------------------------------------------------------------------------
(* Values *)

States == {"not_configured", "connecting", "connected", "disconnected",
           "reconnecting", "degraded", "stopping", "stopped"}

\* subscriptionIDFor(generation, sequence); generation 0 names no connection.
SubscriptionID == Nat \X Nat
NoID == <<0, 0>>

\* An identifier the runtime never issued.
UnknownID == <<0, 1>>
subscriptionIDFor(generation, sequence) == <<generation, sequence>>

\* caps abstracts Capabilities to "some operation is advertised"; the
\* diagnostic texts (DegradedReason, LastSourceError) are left out.
RuntimeStatus == [state : States, caps : BOOLEAN, count : Nat, generation : Nat]

\* configured: config.Source names a server. server: the source is activated.
\* subscribable: subscribeCapability is "supported". reconnectAt is the zero
\* time, ahead, or reached.
Session == [configured : BOOLEAN, server : BOOLEAN, subscribable : BOOLEAN,
            generation : Nat, lastGeneration : Nat, nextSequence : Nat,
            subscriptions : SUBSET SubscriptionID,
            reconnectAt : {"zero", "later", "due"}]

Ops == {"read", "subscribe", "unsubscribe"}

ReplyCodes == {"none", "ok", "unavailable", "failed", "limit", "deadline",
               "not_found"}
Reply == [code : ReplyCodes, id : SubscriptionID]
NoReply == [code |-> "none", id |-> NoID]
Answer(code) == [code |-> code, id |-> NoID]

DAStates == {"tryConnect", "announce", "connect", "connectFailed",
             "announceConnected", "process", "select", "run", "created",
             "teardownLate", "commit", "counting", "handOver", "teardown",
             "uncounting", "removed", "loss", "disconnect", "reschedule", "lost",
             "pump", "wait", "waitFailed", "waitDegraded", "unwind", "cleanup",
             "cleaned", "exit", "exited"}

\* The states in which the DA thread owes the running call an answer.
Serving == {"run", "created", "teardownLate", "commit", "counting", "handOver",
            "teardown", "uncounting", "removed", "loss", "disconnect",
            "reschedule", "lost"}
CallStates == {"idle", "connected?", "send", "signal",
               "markDegraded", "markStatus", "wait", "returned"}
DogStates == {"idle", "armed", "fired", "stored"}
ShutdownStates == {"running", "close", "signal", "wait", "returned"}

-----------------------------------------------------------------------------
(* Status updates, each one holds statusMu *)

\* Mutation: the state changes and the capabilities stay advertised.
setStateOnly(state) == [status EXCEPT !.state = state]

setState(state) == [status EXCEPT !.state = state, !.caps = FALSE, !.count = 0]

markDegradedStatus == [status EXCEPT !.state = "degraded", !.caps = FALSE,
                                     !.count = 0]

updateSubscriptionCount(n) == [status EXCEPT !.count = n]

-----------------------------------------------------------------------------
(* The watchdog of one COM call *)

beginCOMWatchdog ==
    \E w \in Watchdogs :
        /\ dog[w] = "idle"
        /\ dog' = [dog EXCEPT ![w] = "armed"]
        /\ watching' = w

\* timer.Stop either ends the goroutine or comes too late and leaves it alone.
finishWatchdog ==
    dog' = IF dog[watching] = "armed" THEN [dog EXCEPT ![watching] = "idle"]
                                      ELSE dog

WatchdogFires(w) ==
    /\ dog[w] = "armed"
    /\ dog' = [dog EXCEPT ![w] = "fired"]
    /\ UNCHANGED <<degraded, status, commands, wake, stop, reply, shutdown,
                   threadVars, callVars>>

\* markDegraded stores the flag and then, in a second step, the status.
WatchdogStores(w) ==
    /\ dog[w] = "fired"
    /\ dog' = [dog EXCEPT ![w] = "stored"]
    /\ degraded' = TRUE
    /\ UNCHANGED <<status, commands, wake, stop, reply, shutdown,
                   threadVars, callVars>>

WatchdogReports(w) ==
    /\ dog[w] = "stored"
    /\ dog' = [dog EXCEPT ![w] = "idle"]
    /\ status' = markDegradedStatus
    /\ UNCHANGED <<degraded, commands, wake, stop, reply, shutdown,
                   threadVars, callVars>>

-----------------------------------------------------------------------------
(* The session *)

\* What disconnect leaves once every subscription is torn down.
disconnected == [session EXCEPT !.server = FALSE, !.subscribable = FALSE,
                                !.generation = 0]

\* Mutation: a subscription is dropped and its Done channel left open.
TearsDownQuietly ==
    /\ da \in {"disconnect", "cleanup"}
    /\ \E id \in session.subscriptions :
           session' = [session EXCEPT !.subscriptions = @ \ {id}]
    /\ UNCHANGED <<degraded, status, commands, wake, stop, stopped, da, running, dog,
                   watching, invalidated, callVars, reply, shutdown>>

\* disconnect, one subscription after the other: the teardown of one returned
\* from the source and closed its Done channel.
TearsDown ==
    /\ da \in {"disconnect", "cleanup"}
    /\ \E id \in session.subscriptions :
           /\ session' = [session EXCEPT !.subscriptions = @ \ {id}]
           /\ invalidated' = invalidated \cup {id}
    /\ UNCHANGED <<degraded, status, commands, wake, stop, stopped, da, running, dog,
                   watching, callVars, reply, shutdown>>

\* Every interface is released. Only after that does the status change.
Releases ==
    /\ da \in {"disconnect", "cleanup"}
    /\ session.subscriptions = {}
    /\ session' = disconnected
    /\ da' = IF da = "disconnect" THEN "reschedule" ELSE "cleaned"
    /\ UNCHANGED <<degraded, status, commands, wake, stop, stopped, running, dog,
                   watching, invalidated, callVars, reply, shutdown>>

beginConnectionGeneration(subscribable) ==
    [configured |-> session.configured, server |-> TRUE,
     subscribable |-> subscribable,
     generation |-> session.lastGeneration + 1,
     lastGeneration |-> session.lastGeneration + 1,
     nextSequence |-> 0, subscriptions |-> {}, reconnectAt |-> "zero"]

\* Mutation: the status is left as it was.
scheduleQuietly ==
    /\ session' = [session EXCEPT !.reconnectAt = "later"]
    /\ UNCHANGED status

scheduleReconnect ==
    /\ session' = [session EXCEPT !.reconnectAt = "later"]
    /\ status' = setState("disconnected")

\* The delay computed by scheduleReconnect elapses.
ReconnectDue ==
    /\ session.reconnectAt = "later"
    /\ session' = [session EXCEPT !.reconnectAt = "due"]
    /\ UNCHANGED <<degraded, status, commands, wake, stop, stopped, da, running,
                   dog, watching, invalidated, callVars, reply, shutdown>>

-----------------------------------------------------------------------------
(* tryConnect *)

TryConnect ==
    /\ da = "tryConnect"
    /\ da' = IF degraded THEN "process" ELSE "announce"
    /\ UNCHANGED <<degraded, status, commands, wake, stop, stopped, running, dog,
                   watching, session, invalidated, callVars, reply, shutdown>>

Announce ==
    /\ da = "announce"
    /\ status' = IF session.reconnectAt = "zero"
                 THEN setState("connecting")
                 ELSE [status EXCEPT !.state = "reconnecting"]
    /\ beginCOMWatchdog
    /\ da' = "connect"
    /\ UNCHANGED <<degraded, commands, wake, stop, stopped, running, session,
                   invalidated, callVars, reply, shutdown>>

\* connect returns; finishWatchdog; the second look at degraded. A degraded
\* runtime keeps whatever connect left behind.
ConnectSucceeds ==
    /\ da = "connect"
    /\ session.lastGeneration < MaxGenerations
    /\ \E subscribable \in BOOLEAN :
           session' = beginConnectionGeneration(subscribable)
    /\ finishWatchdog
    /\ da' = IF degraded THEN "process" ELSE "announceConnected"
    /\ UNCHANGED <<degraded, status, commands, wake, stop, stopped, running,
                   watching, invalidated, callVars, reply, shutdown>>

ConnectFails ==
    /\ da = "connect"
    /\ finishWatchdog
    /\ da' = IF degraded THEN "process" ELSE "connectFailed"
    /\ UNCHANGED <<degraded, status, commands, wake, stop, stopped, running,
                   watching, session, invalidated, callVars, reply, shutdown>>

\* A failed connect released what it had opened, so the disconnect that follows
\* finds nothing to do.
ConnectFailed ==
    /\ da = "connectFailed"
    /\ scheduleReconnect
    /\ da' = "process"
    /\ UNCHANGED <<degraded, commands, wake, stop, stopped, running, dog,
                   watching, invalidated, callVars, reply, shutdown>>

AnnounceConnected ==
    /\ da = "announceConnected"
    /\ status' = [status EXCEPT !.state = "connected", !.caps = TRUE,
                                !.generation = session.generation]
    /\ da' = "process"
    /\ UNCHANGED <<degraded, commands, wake, stop, stopped, running, dog,
                   watching, session, invalidated, callVars, reply, shutdown>>

-----------------------------------------------------------------------------
(* processReadyCommands *)

\* Mutation: a degraded runtime does nothing any more.
ProcessUnlessDegraded ==
    /\ da = "process"
    /\ da' = IF degraded THEN "pump" ELSE "select"
    /\ UNCHANGED <<degraded, status, commands, wake, stop, stopped, running, dog,
                   watching, session, invalidated, callVars, reply, shutdown>>

\* A degraded runtime looks only for stop and leaves the queue alone.
ProcessReadyCommands ==
    /\ da = "process"
    /\ IF degraded
       THEN IF stop THEN /\ status' = setState("stopping")
                         /\ da' = "unwind"
                    ELSE da' = "pump" /\ UNCHANGED status
       ELSE da' = "select" /\ UNCHANGED status
    /\ UNCHANGED <<degraded, commands, wake, stop, stopped, running, dog,
                   watching, session, invalidated, callVars, reply, shutdown>>

SelectStop ==
    /\ da = "select"
    /\ stop
    /\ status' = setState("stopping")
    /\ da' = "unwind"
    /\ UNCHANGED <<degraded, commands, wake, stop, stopped, running, dog,
                   watching, session, invalidated, callVars, reply, shutdown>>

SelectNothing ==
    /\ da = "select"
    /\ ~stop
    /\ commands = <<>>
    /\ da' = "pump"
    /\ UNCHANGED <<degraded, status, commands, wake, stop, stopped, running, dog,
                   watching, session, invalidated, callVars, reply, shutdown>>

SelectCommand ==
    /\ da = "select"
    /\ commands # <<>>
    /\ Head(commands) \notin expired
    /\ commands' = Tail(commands)
    /\ running' = Head(commands)
    /\ beginCOMWatchdog
    /\ da' = "run"
    /\ UNCHANGED <<degraded, status, wake, stop, stopped, session, invalidated,
                   callVars, reply, shutdown>>

\* A command whose context is done is dropped; only Subscribe and Unsubscribe
\* set a skipped handler that answers.
SkipCommand ==
    /\ da = "select"
    /\ commands # <<>>
    /\ LET c == Head(commands) IN
           /\ c \in expired
           /\ reply' = IF op[c] = "read" THEN reply
                       ELSE [reply EXCEPT ![c] = Answer("deadline")]
    /\ commands' = Tail(commands)
    /\ da' = "process"
    /\ UNCHANGED <<degraded, status, wake, stop, stopped, running, dog, watching,
                   session, invalidated, callVars, shutdown>>

\* The command answers its caller and returns; finishWatchdog.
Respond(answer) ==
    /\ reply' = [reply EXCEPT ![running] = answer]
    /\ running' = NoCall
    /\ finishWatchdog
    /\ da' = "process"

\* The command is refused before it reaches the source.
RunUnavailable ==
    /\ da = "run"
    /\ op[running] \in {"read", "subscribe"}
    /\ ~session.server
    /\ Respond(Answer("unavailable"))
    /\ UNCHANGED <<degraded, status, commands, wake, stop, stopped, watching, session, invalidated, callVars, shutdown>>

\* Browse, Read, Write and the property calls: the source answered, with a
\* result or with an error that does not end the connection.
RunRead ==
    /\ da = "run"
    /\ op[running] = "read"
    /\ session.server
    /\ Respond(Answer("ok"))
    /\ UNCHANGED <<degraded, status, commands, wake, stop, stopped, watching, session, invalidated, callVars, shutdown>>

\* Subscribe without callback support, or at the limit.
RunSubscribeRefused ==
    /\ da = "run"
    /\ op[running] = "subscribe"
    /\ session.server
    /\ \/ ~session.subscribable
       \/ Cardinality(session.subscriptions) >= MaxSubscriptions
    /\ Respond(Answer("limit"))
    /\ UNCHANGED <<degraded, status, commands, wake, stop, stopped, watching, session, invalidated, callVars, shutdown>>

\* A Subscribe that goes on to create its group.
MayCreate ==
    /\ op[running] = "subscribe"
    /\ session.server
    /\ session.subscribable
    /\ Cardinality(session.subscriptions) < MaxSubscriptions

\* Mutation: the sequence is not advanced.
keepSequence == session

\* nextSubscriptionSequence++, before the group is created.
consumeSequence == [session EXCEPT !.nextSequence = @ + 1]

\* createSubscription returned an advised group; it is not yet in the session.
RunSubscribe ==
    /\ da = "run"
    /\ MayCreate
    /\ session' = consumeSequence
    /\ da' = "created"
    /\ UNCHANGED <<degraded, status, commands, wake, stop, stopped, running, dog,
                   watching, invalidated, callVars, reply, shutdown>>

\* createSubscription failed without losing the connection.
RunSubscribeFails ==
    /\ da = "run"
    /\ MayCreate
    /\ session' = consumeSequence
    /\ Respond(Answer("failed"))
    /\ UNCHANGED <<degraded, status, commands, wake, stop, stopped, watching, invalidated, callVars, shutdown>>

fresh == subscriptionIDFor(session.generation, session.nextSequence)

\* The deadline passed while the group was created: it is torn down here.
CreatedLate ==
    /\ da = "created"
    /\ running \in expired
    /\ da' = "teardownLate"
    /\ UNCHANGED <<degraded, status, commands, wake, stop, stopped, running, dog,
                   watching, session, invalidated, callVars, reply, shutdown>>

\* Mutation: the return after the late teardown is missing.
LateTeardownGoesOn ==
    /\ da = "teardownLate"
    /\ invalidated' = invalidated \cup {fresh}
    /\ reply' = [reply EXCEPT ![running] = Answer("deadline")]
    /\ da' = "commit"
    /\ UNCHANGED <<degraded, status, commands, wake, stop, stopped, running, dog,
                   watching, session, callVars, shutdown>>

LateTeardownReturns ==
    /\ da = "teardownLate"
    /\ invalidated' = invalidated \cup {fresh}
    /\ Respond(Answer("deadline"))
    /\ UNCHANGED <<degraded, status, commands, wake, stop, stopped, watching, session, callVars, shutdown>>

CreatedInTime ==
    /\ da = "created"
    /\ running \notin expired
    /\ da' = "commit"
    /\ UNCHANGED <<degraded, status, commands, wake, stop, stopped, running, dog,
                   watching, session, invalidated, callVars, reply, shutdown>>

\* The subscription enters the session; the count in the status follows.
CommitSubscription ==
    /\ da = "commit"
    /\ session' = [session EXCEPT !.subscriptions = @ \cup {fresh}]
    /\ da' = "counting"
    /\ UNCHANGED <<degraded, status, commands, wake, stop, stopped, running, dog,
                   watching, invalidated, callVars, reply, shutdown>>

\* The subscription leaves the session, then the source is asked to drop its
\* group, ...
RunUnsubscribe ==
    /\ da = "run"
    /\ op[running] = "unsubscribe"
    /\ target[running] \in session.subscriptions
    /\ session' = [session EXCEPT !.subscriptions = @ \ {target[running]}]
    /\ da' = "teardown"
    /\ UNCHANGED <<degraded, status, commands, wake, stop, stopped, running, dog,
                   watching, invalidated, callVars, reply, shutdown>>

\* ... then its Done channel closes, and the count follows.
TeardownReturns ==
    /\ da = "teardown"
    /\ invalidated' = invalidated \cup {target[running]}
    /\ da' = "uncounting"
    /\ UNCHANGED <<degraded, status, commands, wake, stop, stopped, running, dog,
                   watching, session, callVars, reply, shutdown>>

CountSubscriptions ==
    /\ da \in {"counting", "uncounting"}
    /\ status' = updateSubscriptionCount(Cardinality(session.subscriptions))
    /\ da' = IF da = "counting" THEN "handOver" ELSE "removed"
    /\ UNCHANGED <<degraded, commands, wake, stop, stopped, running, dog,
                   watching, session, invalidated, callVars, reply, shutdown>>

\* The answer of a command that changed the session comes last.
RespondAtLast ==
    /\ \/ da = "handOver" /\ Respond([code |-> "ok", id |-> fresh])
       \/ da = "removed" /\ Respond(Answer("ok"))
       \/ da = "lost" /\ Respond(Answer("failed"))
    /\ UNCHANGED <<degraded, status, commands, wake, stop, stopped, watching, session, invalidated, callVars, shutdown>>

\* The map is nil until the first connection and empty after a disconnect.
RunUnsubscribeUnknown ==
    /\ da = "run"
    /\ op[running] = "unsubscribe"
    /\ target[running] \notin session.subscriptions
    /\ Respond(Answer(IF session.lastGeneration = 0 THEN "unavailable"
                                                    ELSE "not_found"))
    /\ UNCHANGED <<degraded, status, commands, wake, stop, stopped, watching, session, invalidated, callVars, shutdown>>

\* The source answered with an HRESULT isConnectionLoss recognises.
RunLosesConnection ==
    /\ da = "run"
    /\ \/ op[running] = "read" /\ session.server /\ UNCHANGED session
       \/ MayCreate /\ session' = consumeSequence
    /\ da' = "loss"
    /\ UNCHANGED <<degraded, status, commands, wake, stop, stopped, running, dog,
                   watching, invalidated, callVars, reply, shutdown>>

\* handleOperationFailure: the look at degraded, then the disconnect.
LossChecked ==
    /\ da = "loss"
    /\ IF degraded THEN Respond(Answer("failed"))
                   ELSE da' = "disconnect" /\ UNCHANGED <<reply, running, dog>>
    /\ UNCHANGED <<degraded, status, commands, wake, stop, stopped, watching, session, invalidated, callVars, shutdown>>

Reschedule ==
    /\ da = "reschedule"
    /\ scheduleReconnect
    /\ da' = "lost"
    /\ UNCHANGED <<degraded, commands, wake, stop, stopped, running, dog,
                   watching, invalidated, callVars, reply, shutdown>>

-----------------------------------------------------------------------------
(* The rest of the loop of runDAThread *)

\* Mutation: the event is reset after the queue was drained.
PumpThenReset ==
    /\ da = "pump"
    /\ da' = IF ~degraded /\ session.reconnectAt = "due" THEN "tryConnect"
                                                         ELSE "wait"
    /\ wake' = FALSE
    /\ UNCHANGED <<degraded, status, commands, stop, stopped, running, dog,
                   watching, session, invalidated, callVars, reply, shutdown>>

\* Mutation: the loop never looks at reconnectAt.
PumpOnly ==
    /\ da = "pump"
    /\ da' = "wait"
    /\ UNCHANGED <<degraded, status, commands, wake, stop, stopped, running, dog,
                   watching, session, invalidated, callVars, reply, shutdown>>

PumpAndReconnect ==
    /\ da = "pump"
    /\ da' = IF ~degraded /\ session.reconnectAt = "due" THEN "tryConnect"
                                                         ELSE "wait"
    /\ UNCHANGED <<degraded, status, commands, wake, stop, stopped, running, dog,
                   watching, session, invalidated, callVars, reply, shutdown>>

\* waitForDAWork: the event (reset here, before the queue is looked at), ...
WaitWoken ==
    /\ da = "wait"
    /\ wake
    /\ wake' = FALSE
    /\ da' = "process"
    /\ UNCHANGED <<degraded, status, commands, stop, stopped, running, dog,
                   watching, session, invalidated, callVars, reply, shutdown>>

\* ... the reconnect timeout, ...
WaitTimesOut ==
    /\ da = "wait"
    /\ session.reconnectAt = "due"
    /\ da' = "process"
    /\ UNCHANGED <<degraded, status, commands, wake, stop, stopped, running, dog,
                   watching, session, invalidated, callVars, reply, shutdown>>

\* ... a window message ...
WaitPumps ==
    /\ da = "wait"
    /\ da' = "process"
    /\ UNCHANGED <<degraded, status, commands, wake, stop, stopped, running, dog,
                   watching, session, invalidated, callVars, reply, shutdown>>

\* ... or a failed wait, which marks the runtime degraded and ends the thread.
WaitFails ==
    /\ WakeMayFail
    /\ da = "wait"
    /\ da' = "waitFailed"
    /\ UNCHANGED <<degraded, status, commands, wake, stop, stopped, running, dog,
                   watching, session, invalidated, callVars, reply, shutdown>>

WaitFailureStored ==
    /\ da = "waitFailed"
    /\ degraded' = TRUE
    /\ da' = "waitDegraded"
    /\ UNCHANGED <<status, commands, wake, stop, stopped, running, dog,
                   watching, session, invalidated, callVars, reply, shutdown>>

WaitFailureReported ==
    /\ da = "waitDegraded"
    /\ status' = markDegradedStatus
    /\ da' = "unwind"
    /\ UNCHANGED <<degraded, commands, wake, stop, stopped, running, dog,
                   watching, session, invalidated, callVars, reply, shutdown>>

\* The deferred cleanup, under a watchdog of its own.
BeginCleanup ==
    /\ da = "unwind"
    /\ beginCOMWatchdog
    /\ da' = "cleanup"
    /\ UNCHANGED <<degraded, status, commands, wake, stop, stopped, running,
                   session, invalidated, callVars, reply, shutdown>>

CleanupEnds ==
    /\ da = "cleaned"
    /\ finishWatchdog
    /\ status' = setState("stopped")
    /\ da' = "exit"
    /\ UNCHANGED <<degraded, commands, wake, stop, stopped, running, watching,
                   session, invalidated, callVars, reply, shutdown>>

ExitThread ==
    /\ da = "exit"
    /\ stopped' = TRUE
    /\ da' = "exited"
    /\ UNCHANGED <<degraded, status, commands, wake, stop, running, dog,
                   watching, session, invalidated, callVars, reply, shutdown>>

-----------------------------------------------------------------------------
(* Frontend calls *)

Return(c) == call' = [call EXCEPT ![c] = "returned"]

\* A request that passed its validation enters enqueue, whose first look is at
\* degraded. enqueue then makes one shared access per step. The identifier of an
\* Unsubscribe is the caller's and may be one nobody was given.
StartCall(c) ==
    /\ call[c] = "idle"
    /\ \E o \in Offered :
        /\ op' = [op EXCEPT ![c] = o]
        /\ IF o = "unsubscribe"
           THEN \E id \in owned \cup {UnknownID} : target' = [target EXCEPT ![c] = id]
           ELSE UNCHANGED target
    /\ IF degraded THEN Return(c)
                   ELSE call' = [call EXCEPT ![c] = "connected?"]
    /\ UNCHANGED <<degraded, status, commands, wake, stop, threadVars, dog,
                   expired, reply, owned, shutdown>>

\* The caller's deadline passes or the caller cancels. Nothing looks at the
\* context before enqueue is about to send.
ContextDone(c) ==
    /\ call[c] \in {"send", "signal", "wait"}
    /\ c \notin expired
    /\ expired' = expired \cup {c}
    /\ UNCHANGED <<degraded, status, commands, wake, stop, threadVars, dog,
                   call, op, target, reply, owned, shutdown>>

EnqueueChecksState(c) ==
    /\ call[c] = "connected?"
    /\ IF status.state # "connected" THEN Return(c)
                                     ELSE call' = [call EXCEPT ![c] = "send"]
    /\ UNCHANGED <<degraded, status, commands, wake, stop, threadVars, dog,
                   op, target, expired, reply, owned, shutdown>>

queueFull == Len(commands) >= CommandQueue

\* The context check and the non-blocking send: past its deadline or with the
\* queue full the call returns at once.
EnqueueSends(c) ==
    /\ call[c] = "send"
    /\ IF c \in expired \/ queueFull
       THEN Return(c) /\ UNCHANGED commands
       ELSE /\ commands' = Append(commands, c)
            /\ call' = [call EXCEPT ![c] = "signal"]
    /\ UNCHANGED <<degraded, status, wake, stop, threadVars, dog,
                   op, target, expired, reply, owned, shutdown>>

EnqueueSignals(c) ==
    /\ call[c] = "signal"
    /\ wake' = TRUE
    /\ call' = [call EXCEPT ![c] = "wait"]
    /\ UNCHANGED <<degraded, status, commands, stop, threadVars, dog,
                   op, target, expired, reply, owned, shutdown>>

\* SetEvent fails, always possible once the thread has closed the event: the
\* caller marks the runtime degraded and returns.
EnqueueSignalFails(c) ==
    /\ call[c] = "signal"
    /\ WakeMayFail \/ stopped
    /\ call' = [call EXCEPT ![c] = "markDegraded"]
    /\ UNCHANGED <<degraded, status, commands, wake, stop, threadVars, dog,
                   op, target, expired, reply, owned, shutdown>>

EnqueueStoresDegraded(c) ==
    /\ call[c] = "markDegraded"
    /\ degraded' = TRUE
    /\ call' = [call EXCEPT ![c] = "markStatus"]
    /\ UNCHANGED <<status, commands, wake, stop, threadVars, dog,
                   op, target, expired, reply, owned, shutdown>>

EnqueueReportsDegraded(c) ==
    /\ call[c] = "markStatus"
    /\ status' = markDegradedStatus
    /\ Return(c)
    /\ UNCHANGED <<degraded, commands, wake, stop, threadVars, dog,
                   op, target, expired, reply, owned, shutdown>>

\* The select every operation ends in. A reply is always a ready case.
ReceiveReply(c) ==
    /\ call[c] = "wait"
    /\ reply[c] # NoReply
    /\ owned' = IF reply[c].id = NoID THEN owned ELSE owned \cup {reply[c].id}
    /\ reply' = [reply EXCEPT ![c] = NoReply]
    /\ Return(c)
    /\ UNCHANGED <<degraded, status, commands, wake, stop, threadVars, dog,
                   op, target, expired, shutdown>>

\* Subscribe and Unsubscribe also watch r.stopped.
SeeStopped(c) ==
    /\ call[c] = "wait"
    /\ op[c] # "read"
    /\ stopped
    /\ Return(c)
    /\ UNCHANGED <<degraded, status, commands, wake, stop, threadVars, dog,
                   op, target, expired, reply, owned, shutdown>>

\* Mutation: Subscribe and Unsubscribe wait for the DA thread whatever happens.
SeeDeadlineOfReads(c) ==
    /\ call[c] = "wait"
    /\ c \in expired
    /\ op[c] = "read"
    /\ Return(c)
    /\ UNCHANGED <<degraded, status, commands, wake, stop, threadVars, dog,
                   op, target, expired, reply, owned, shutdown>>

\* On ctx.Done, Subscribe and Unsubscribe take a reply that is already there;
\* the other operations return without looking.
SeeDeadline(c) ==
    /\ call[c] = "wait"
    /\ c \in expired
    /\ op[c] = "read" \/ reply[c] = NoReply
    /\ Return(c)
    /\ UNCHANGED <<degraded, status, commands, wake, stop, threadVars, dog,
                   op, target, expired, reply, owned, shutdown>>

-----------------------------------------------------------------------------
(* Shutdown, whose first part runs once *)

ShutdownAnnounces ==
    /\ shutdown = "running"
    /\ status' = setState("stopping")
    /\ shutdown' = "close"
    /\ UNCHANGED <<degraded, commands, wake, stop, threadVars, dog, callVars, reply>>

ShutdownCloses ==
    /\ shutdown = "close"
    /\ stop' = TRUE
    /\ shutdown' = "signal"
    /\ UNCHANGED <<degraded, status, commands, wake, threadVars, dog, callVars, reply>>

\* The result of the signal is ignored.
ShutdownSignals ==
    /\ shutdown = "signal"
    /\ \/ wake' = TRUE
       \/ (WakeMayFail \/ stopped) /\ UNCHANGED wake
    /\ shutdown' = "wait"
    /\ UNCHANGED <<degraded, status, commands, stop, threadVars, dog, callVars, reply>>

\* r.stopped closes, or the context of Shutdown expires first.
ShutdownReturns ==
    /\ shutdown = "wait"
    /\ shutdown' = "returned"
    /\ UNCHANGED <<degraded, status, commands, wake, stop, threadVars, dog, callVars, reply>>

-----------------------------------------------------------------------------

Init ==
    /\ degraded = FALSE
    /\ commands = <<>>
    /\ wake = FALSE
    /\ stop = FALSE
    /\ stopped = FALSE
    /\ running = NoCall
    /\ dog = [w \in Watchdogs |-> "idle"]
    /\ watching \in Watchdogs
    /\ invalidated = {}
    /\ \E configured \in BOOLEAN :
        /\ session = [configured |-> configured, server |-> FALSE,
                      subscribable |-> FALSE, generation |-> 0,
                      lastGeneration |-> 0, nextSequence |-> 0,
                      subscriptions |-> {}, reconnectAt |-> "zero"]
        /\ da = IF configured THEN "tryConnect" ELSE "process"
        /\ status = [state |-> IF configured THEN "connecting" ELSE "not_configured",
                     caps |-> FALSE, count |-> 0, generation |-> 0]
    /\ call = [c \in Calls |-> "idle"]
    /\ op = [c \in Calls |-> "read"]
    /\ target = [c \in Calls |-> NoID]
    /\ expired = {}
    /\ reply = [c \in Calls |-> NoReply]
    /\ owned = {}
    /\ shutdown = "running"

\* Steps the DA thread takes by itself.
ThreadStep ==
    \/ TryConnect \/ Announce \/ ConnectFailed \/ AnnounceConnected
    \/ ProcessReadyCommands \/ SelectStop \/ SelectNothing \/ SelectCommand
    \/ SkipCommand \/ RunUnavailable \/ CreatedLate \/ CreatedInTime
    \/ CommitSubscription \/ RunSubscribeRefused \/ RunUnsubscribe
    \/ RunUnsubscribeUnknown \/ CountSubscriptions \/ RespondAtLast
    \/ LossChecked \/ Reschedule \/ PumpAndReconnect \/ WaitWoken
    \/ WaitTimesOut \/ WaitFailureStored \/ WaitFailureReported
    \/ BeginCleanup \/ CleanupEnds \/ ExitThread

\* Returns of COM calls into the source, which may also never come.
SourceStep ==
    \/ ConnectSucceeds \/ ConnectFails \/ RunRead \/ RunSubscribe
    \/ RunSubscribeFails \/ RunLosesConnection
    \/ LateTeardownReturns \/ TeardownReturns \/ TearsDown \/ Releases

CallStep(c) ==
    \/ EnqueueChecksState(c) \/ EnqueueSends(c)
    \/ EnqueueSignals(c) \/ EnqueueSignalFails(c) \/ EnqueueStoresDegraded(c)
    \/ EnqueueReportsDegraded(c) \/ ReceiveReply(c) \/ SeeStopped(c)
    \/ SeeDeadline(c)

ShutdownStep == ShutdownCloses \/ ShutdownSignals \/ ShutdownReturns

DogStep(w) == WatchdogStores(w) \/ WatchdogReports(w)

Next ==
    \/ ThreadStep
    \/ SourceStep
    \/ WaitPumps
    \/ WaitFails
    \/ ReconnectDue
    \/ \E w \in Watchdogs : WatchdogFires(w) \/ DogStep(w)
    \/ \E c \in Calls : StartCall(c) \/ ContextDone(c) \/ CallStep(c)
    \/ ShutdownAnnounces
    \/ ShutdownStep

Spec == Init /\ [][Next]_vars

\* Goroutines that can run do run, timers fire, and every call made by a
\* frontend carries a deadline. The source is assumed nothing of.
GoFairness ==
    /\ WF_vars(ThreadStep)
    /\ WF_vars(ReconnectDue)
    /\ \A w \in Watchdogs : WF_vars(DogStep(w))
    /\ \A c \in Calls : WF_vars(CallStep(c)) /\ WF_vars(ContextDone(c))
    /\ WF_vars(ShutdownStep)

GoSpec == Spec /\ GoFairness

\* The source answers every call.
SourceAnswers == WF_vars(SourceStep)

-----------------------------------------------------------------------------
(* Properties *)

\* Every variable keeps its type; the queue keeps its capacity.
TypeOK ==
    /\ degraded \in BOOLEAN /\ wake \in BOOLEAN
    /\ stop \in BOOLEAN /\ stopped \in BOOLEAN
    /\ status \in RuntimeStatus
    /\ commands \in Seq(Calls) /\ Len(commands) <= CommandQueue
    /\ da \in DAStates
    /\ running \in Calls \cup {NoCall} /\ (da \in Serving => running \in Calls)
    /\ dog \in [Watchdogs -> DogStates] /\ watching \in Watchdogs
    /\ session \in Session /\ IsFiniteSet(session.subscriptions)
    /\ invalidated \subseteq SubscriptionID /\ owned \subseteq SubscriptionID
    /\ call \in [Calls -> CallStates]
    /\ op \in [Calls -> Ops] /\ target \in [Calls -> SubscriptionID]
    /\ expired \subseteq Calls
    /\ reply \in [Calls -> Reply]
    /\ shutdown \in ShutdownStates

\* The DA thread never sleeps on work: while it waits on a reset event, a
\* queued command still has its enqueue about to signal (or, when SetEvent
\* failed, about to degrade the runtime), and a closed stop channel still has
\* Shutdown about to signal (waitForDAWork resets the event before the queue is
\* drained, enqueue sends before it signals).
NoLostWakeup ==
    (da = "wait" /\ ~wake) =>
        /\ (commands # <<>> /\ ~degraded) =>
               \E c \in Calls : call[c] \in {"signal", "markDegraded"}
        /\ (stop /\ ~WakeMayFail) => shutdown = "signal"

\* The calls whose command the DA thread still has to answer.
Unanswered ==
    {commands[i] : i \in DOMAIN commands} \cup
    (IF da \in Serving THEN {running} ELSE {})

\* A reply is never sent to a channel that already holds one: the reply
\* channels have a buffer of one, so a second send would block the DA thread,
\* and with it every frontend, for ever. A command is also queued only once.
RepliesNeverBlock ==
    /\ \A c \in Unanswered : reply[c] = NoReply
    /\ \A i, j \in DOMAIN commands : commands[i] = commands[j] => i = j
    /\ \A i \in DOMAIN commands : da \in Serving => commands[i] # running

\* Everything the session holds belongs to the connection in use: subscriptions
\* exist only while the source is activated and carry its generation, and there
\* are at most MaxSubscriptions of them.
SubscriptionsAreCurrent ==
    /\ session.subscriptions # {} => session.server
    /\ \A id \in session.subscriptions :
           /\ id[1] = session.generation
           /\ id[2] \in 1..session.nextSequence
    /\ Cardinality(session.subscriptions) <= MaxSubscriptions

\* An identifier is never used again after its subscription ended, not across
\* a reconnect, an unsubscribe or a late teardown ("Identifiers are never
\* reused"): neither a subscription in the session nor the one being created
\* carries an identifier that was invalidated, and a created one is new.
IdentifiersNeverReused ==
    /\ session.subscriptions \cap invalidated = {}
    /\ da \in {"created", "teardownLate", "commit"} =>
           fresh \notin session.subscriptions \cup invalidated \cup owned

\* Identity over connections: what the session holds belongs to the connection
\* in use, and no identifier of an earlier one comes back (createSubscription,
\* invalidateSubscriptions, disconnect).
SubscriptionIdentity == SubscriptionsAreCurrent /\ IdentifiersNeverReused

\* The runtime never loses track of a subscription it handed out or is about
\* to hand out: it is in the session, or the running Unsubscribe is tearing it
\* down, or it was torn down and its Done channel closed. In particular nothing
\* handed out survives the end of the thread.
HandlesAccountedFor ==
    /\ \A id \in owned \cup {reply[c].id : c \in Calls} :
           \/ id \in {NoID} \cup session.subscriptions \cup invalidated
           \/ da = "teardown" /\ id = target[running]
    /\ stopped => session.subscriptions = {}

\* The subscriptions a status that says connected should count: those of the
\* session, less the one a Subscribe has just put there, with the one an
\* Unsubscribe has taken out, until the thread gets to updateSubscriptionCount.
Counted ==
    Cardinality(session.subscriptions) +
        (IF da \in {"teardown", "uncounting"} THEN 1 ELSE 0)
    = status.count + (IF da = "counting" THEN 1 ELSE 0)

\* How far the status may be behind the session. A status that says connected
\* names the last connection; the session still has its server, unless the thread
\* is between the last release of a disconnect and scheduleReconnect; and it
\* counts the subscriptions, unless that disconnect or the very Subscribe or
\* Unsubscribe that changes them is under way. A watchdog, Shutdown or the next
\* command never finds it further behind, and no operation is advertised in any
\* other state (disconnect, scheduleReconnect, updateSubscriptionCount, setState).
ConnectedMeansConnected ==
    /\ status.state = "connected" =>
           /\ status.generation = session.lastGeneration
           /\ da # "reschedule" => session.server
           /\ da \notin {"disconnect", "reschedule"} => Counted
    /\ status.caps => status.state = "connected"

\* The identifiers the runtime has issued: those of earlier generations and
\* those of this one up to the sequence in use.
Issued ==
    {id \in SubscriptionID :
        /\ id[1] \in 1..session.lastGeneration
        /\ id[1] = session.lastGeneration => id[2] <= session.nextSequence}

\* The inductive core of the safety properties: when the session holds a
\* server, which identifiers can be in use, and that a subscription under
\* construction has an identifier nothing else has and a place below the limit.
SessionInv ==
    /\ IF session.server
       THEN /\ session.generation = session.lastGeneration
            /\ session.lastGeneration > 0
       ELSE session.generation = 0 /\ session.subscriptions = {}
    /\ session.reconnectAt # "zero" => ~session.server
    /\ da \in {"tryConnect", "announce", "connect", "connectFailed", "reschedule",
              "lost", "cleaned", "exit", "exited"} => ~session.server
    /\ stopped => da = "exited"
    /\ session.subscriptions \cup invalidated \subseteq Issued
    /\ \A id \in session.subscriptions :
           id[1] = session.generation /\ id[2] \in 1..session.nextSequence
    /\ da \in {"created", "teardownLate", "commit"} =>
           /\ session.server /\ session.nextSequence > 0
           /\ fresh \notin session.subscriptions \cup invalidated
           /\ Cardinality(session.subscriptions) < MaxSubscriptions
    /\ da \in {"counting", "handOver"} => fresh \in session.subscriptions
    /\ da = "teardown" => target[running] \in Issued \ session.subscriptions

\* Every call returns, even when the source hangs, the runtime degrades or it
\* shuts down around the queued command: by its reply or by its deadline.
CallsReturn == \A c \in Calls : call[c] = "connected?" ~> call[c] = "returned"

\* Shutdown ends the DA thread from any state, degraded ones included, as long as
\* the source answers and the signal gets through.
ShutdownStops == SourceAnswers => (stop /\ wake ~> stopped)

\* A healthy runtime that lost the source tries it again.
KeepsReconnecting ==
    SourceAnswers =>
        ((session.reconnectAt = "later") ~> (da = "connect" \/ degraded \/ stop))

=============================================================================
