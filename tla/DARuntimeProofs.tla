-------------------------- MODULE DARuntimeProofs --------------------------
(***************************************************************************)
(* Theorems about DARuntime, for every number of calls and watchdogs and   *)
(* every limit. Each invariance proof has the usual three parts: the       *)
(* initial states, the steps (one lemma per kind of goroutine, one case    *)
(* per action) and the temporal conclusion.                                *)
(***************************************************************************)
EXTENDS DARuntime, FiniteSetTheorems, TLAPS

-----------------------------------------------------------------------------
(* Type correctness *)

\* The initial states are well typed.
LEMMA TypeInit == Init => TypeOK
<1> SUFFICES ASSUME Init PROVE TypeOK
  OBVIOUS
<1> USE DEF Init, SubscriptionID, NoID
<1>1. status \in RuntimeStatus
  BY DEF RuntimeStatus, States
<1>2. session \in Session /\ IsFiniteSet(session.subscriptions)
  BY FS_EmptySet DEF Session
<1>3. da \in DAStates
  BY DEF DAStates
<1>4. reply \in [Calls -> Reply]
  BY DEF Reply, ReplyCodes, NoReply
<1>5. commands \in Seq(Calls) /\ Len(commands) <= CommandQueue
  BY ConstantsAssumption
<1> QED
  BY <1>1, <1>2, <1>3, <1>4, <1>5
     DEF TypeOK, DogStates, CallStates, Ops, ShutdownStates, Serving

\* Status updates and session updates keep the types.
LEMMA TypeOfUpdates ==
    ASSUME TypeOK
    PROVE  /\ \A s \in States : setState(s) \in RuntimeStatus
           /\ markDegradedStatus \in RuntimeStatus
           /\ \A n \in Nat : updateSubscriptionCount(n) \in RuntimeStatus
           /\ disconnected \in Session
           /\ disconnected.subscriptions = session.subscriptions
           /\ fresh \in SubscriptionID
           /\ session.subscriptions \subseteq SubscriptionID
BY FS_EmptySet DEF TypeOK, setState, markDegradedStatus, updateSubscriptionCount,
   RuntimeStatus, States, disconnected, Session, fresh, subscriptionIDFor,
   SubscriptionID

\* Answering a command keeps the types.
LEMMA TypeOfRespond ==
    ASSUME TypeOK, NEW answer \in Reply, Respond(answer)
    PROVE  /\ reply' \in [Calls -> Reply]
           /\ running' \in Calls \cup {NoCall}
           /\ dog' \in [Watchdogs -> DogStates]
           /\ da' \in DAStates \ Serving
BY DEF TypeOK, Respond, finishWatchdog, DogStates, DAStates, Serving

\* An answer without an identifier is a reply.
LEMMA TypeOfAnswers ==
    \A code \in ReplyCodes : Answer(code) \in Reply
BY DEF Answer, Reply, NoID, SubscriptionID

\* Steps of the DA thread by itself keep the types.
LEMMA TypeThread == TypeOK /\ ThreadStep => TypeOK'
<1> SUFFICES ASSUME TypeOK, ThreadStep PROVE TypeOK'
  OBVIOUS
<1> USE DEF callVars, Serving
<1>1. CASE TryConnect \/ SelectNothing \/ CreatedInTime \/ CreatedLate
             \/ PumpAndReconnect \/ WaitWoken \/ WaitTimesOut \/ WaitFailureStored
             \/ ExitThread
  BY <1>1 DEF TypeOK, DAStates, TryConnect, SelectNothing, CreatedInTime, CreatedLate,
     PumpAndReconnect, WaitWoken, WaitTimesOut, WaitFailureStored, ExitThread
<1>2. CASE Announce
  <2>1. status' \in RuntimeStatus
    BY <1>2 DEF Announce, setState, TypeOK, RuntimeStatus, States
  <2> QED
    BY <1>2, <2>1 DEF TypeOK, Announce, beginCOMWatchdog, DogStates, DAStates
<1>3. CASE ConnectFailed \/ Reschedule
  <2>1. session' \in Session /\ session'.subscriptions = session.subscriptions
    BY <1>3 DEF ConnectFailed, Reschedule, scheduleReconnect, TypeOK, Session
  <2>2. status' \in RuntimeStatus
    <3>1. "disconnected" \in States
      BY DEF States
    <3> QED
      BY <1>3, <3>1, TypeOfUpdates DEF ConnectFailed, Reschedule, scheduleReconnect
  <2> QED
    BY <1>3, <2>1, <2>2 DEF TypeOK, ConnectFailed, Reschedule, DAStates
<1>4. CASE AnnounceConnected
  <2>1. session.generation \in Nat /\ status \in RuntimeStatus /\ "connected" \in States
    BY DEF TypeOK, Session, States
  <2>2. status' \in RuntimeStatus
    BY <1>4, <2>1 DEF AnnounceConnected, RuntimeStatus
  <2> QED
    BY <1>4, <2>2 DEF TypeOK, AnnounceConnected, DAStates
<1>5. CASE ProcessReadyCommands \/ SelectStop
  <2>1. "stopping" \in States
    BY DEF States
  <2> QED
    BY <1>5, <2>1, TypeOfUpdates
       DEF TypeOK, ProcessReadyCommands, SelectStop, DAStates
<1>6. CASE SelectCommand
  <2>1. Head(commands) \in Calls /\ Tail(commands) \in Seq(Calls)
        /\ Len(Tail(commands)) <= CommandQueue
    BY <1>6, ConstantsAssumption DEF SelectCommand, TypeOK
  <2> QED
    BY <1>6, <2>1 DEF TypeOK, SelectCommand, beginCOMWatchdog, DogStates, DAStates
<1>7. CASE SkipCommand
  <2>1. Head(commands) \in Calls /\ Tail(commands) \in Seq(Calls)
        /\ Len(Tail(commands)) <= CommandQueue
    BY <1>7, ConstantsAssumption DEF SkipCommand, TypeOK
  <2>2. Answer("deadline") \in Reply
    BY TypeOfAnswers DEF ReplyCodes
  <2> QED
    BY <1>7, <2>1, <2>2 DEF TypeOK, SkipCommand, DAStates
<1>8. CASE RunUnavailable \/ RunSubscribeRefused \/ RunUnsubscribeUnknown
  <2>1. Answer("unavailable") \in Reply /\ Answer("limit") \in Reply
        /\ Answer("not_found") \in Reply
    BY TypeOfAnswers DEF ReplyCodes
  <2>2. PICK answer \in Reply : Respond(answer)
    BY <1>8, <2>1 DEF RunUnavailable, RunSubscribeRefused, RunUnsubscribeUnknown
  <2> QED
    BY <1>8, <2>2, TypeOfRespond
       DEF TypeOK, RunUnavailable, RunSubscribeRefused, RunUnsubscribeUnknown
<1>9. CASE CommitSubscription \/ RunUnsubscribe
  <2>1. PICK id \in SubscriptionID :
            \/ session' = [session EXCEPT !.subscriptions = @ \cup {id}]
            \/ session' = [session EXCEPT !.subscriptions = @ \ {id}]
    BY <1>9, TypeOfUpdates DEF CommitSubscription, RunUnsubscribe, TypeOK
  <2>2. /\ session' \in Session
        /\ \/ session'.subscriptions = session.subscriptions \cup {id}
           \/ session'.subscriptions = session.subscriptions \ {id}
    BY <2>1 DEF TypeOK, Session
  <2>3. IsFiniteSet(session'.subscriptions)
    <3>1. IsFiniteSet(session.subscriptions)
      BY DEF TypeOK
    <3> QED
      BY <2>2, <3>1, FS_AddElement, FS_RemoveElement
  <2> QED
    BY <1>9, <2>2, <2>3 DEF TypeOK, CommitSubscription, RunUnsubscribe, DAStates
<1>10. CASE CountSubscriptions
  <2>1. Cardinality(session.subscriptions) \in Nat
    BY FS_CardinalityType DEF TypeOK
  <2> QED
    BY <1>10, <2>1, TypeOfUpdates DEF TypeOK, CountSubscriptions, DAStates
<1>14. CASE RespondAtLast
  <2>1. /\ [code |-> "ok", id |-> fresh] \in Reply
        /\ Answer("ok") \in Reply /\ Answer("failed") \in Reply
    BY TypeOfUpdates, TypeOfAnswers DEF Reply, ReplyCodes
  <2>2. PICK answer \in Reply : Respond(answer)
    BY <1>14, <2>1 DEF RespondAtLast
  <2> QED
    BY <1>14, <2>2, TypeOfRespond DEF TypeOK, RespondAtLast
<1>15. CASE CleanupEnds
  <2>1. "stopped" \in States
    BY DEF States
  <2> QED
    BY <1>15, <2>1, TypeOfUpdates
       DEF TypeOK, CleanupEnds, finishWatchdog, DogStates, DAStates
<1>11. CASE LossChecked
  <2>1. Answer("failed") \in Reply
    BY TypeOfAnswers DEF ReplyCodes
  <2>2. CASE degraded
    BY <1>11, <2>1, <2>2, TypeOfRespond DEF TypeOK, LossChecked
  <2>3. CASE ~degraded
    BY <1>11, <2>3 DEF TypeOK, LossChecked, DAStates
  <2> QED
    BY <2>2, <2>3
<1>12. CASE WaitFailureReported
  BY <1>12, TypeOfUpdates DEF TypeOK, WaitFailureReported, DAStates
<1>13. CASE BeginCleanup
  BY <1>13 DEF TypeOK, BeginCleanup, beginCOMWatchdog, DogStates, DAStates
<1> QED
  BY <1>1, <1>2, <1>3, <1>4, <1>5, <1>6, <1>7, <1>8, <1>9, <1>10, <1>11,
     <1>12, <1>13, <1>14, <1>15 DEF ThreadStep

\* Returns of COM calls keep the types.
LEMMA TypeSource == TypeOK /\ SourceStep => TypeOK'
<1> SUFFICES ASSUME TypeOK, SourceStep PROVE TypeOK'
  OBVIOUS
<1> USE DEF callVars, Serving
<1>0. Answer("ok") \in Reply /\ Answer("failed") \in Reply
  BY TypeOfAnswers DEF ReplyCodes
<1>1. CASE ConnectSucceeds
  <2>1. PICK subscribable \in BOOLEAN :
            session' = beginConnectionGeneration(subscribable)
    BY <1>1 DEF ConnectSucceeds
  <2>3. session' \in Session /\ session'.subscriptions = {}
    BY <2>1 DEF beginConnectionGeneration, TypeOK, Session
  <2>2. IsFiniteSet(session'.subscriptions)
    BY <2>3, FS_EmptySet
  <2> QED
    BY <1>1, <2>3, <2>2
       DEF TypeOK, ConnectSucceeds, finishWatchdog, DogStates, DAStates
<1>2. CASE ConnectFails
  BY <1>2 DEF TypeOK, ConnectFails, finishWatchdog, DogStates, DAStates
<1>3. CASE RunRead
  BY <1>0, <1>3, TypeOfRespond DEF TypeOK, RunRead
<1>4. CASE RunSubscribe
  BY <1>4 DEF TypeOK, RunSubscribe, consumeSequence, Session, DAStates
<1>5. CASE RunSubscribeFails
  <2>1. session' \in Session /\ IsFiniteSet(session'.subscriptions)
    BY <1>5 DEF TypeOK, RunSubscribeFails, consumeSequence, Session
  <2> QED
    BY <1>0, <1>5, <2>1, TypeOfRespond DEF TypeOK, RunSubscribeFails
<1>6. CASE LateTeardownReturns
  <2>1. Answer("deadline") \in Reply
    BY TypeOfAnswers DEF ReplyCodes
  <2> QED
    BY <1>6, <2>1, TypeOfRespond, TypeOfUpdates DEF TypeOK, LateTeardownReturns
<1>7. CASE RunLosesConnection
  <2>1. session' \in Session /\ session'.subscriptions = session.subscriptions
    BY <1>7 DEF TypeOK, RunLosesConnection, consumeSequence, Session
  <2> QED
    BY <1>7, <2>1 DEF TypeOK, RunLosesConnection, DAStates
<1>8. CASE TeardownReturns
  <2>1. target[running] \in SubscriptionID
    BY <1>8 DEF TypeOK, TeardownReturns
  <2> QED
    BY <1>8, <2>1 DEF TypeOK, TeardownReturns, DAStates
<1>9. CASE TearsDown
  <2>1. PICK id \in session.subscriptions :
            /\ session' = [session EXCEPT !.subscriptions = @ \ {id}]
            /\ invalidated' = invalidated \cup {id}
    BY <1>9 DEF TearsDown
  <2>2. session' \in Session /\ session'.subscriptions = session.subscriptions \ {id}
    BY <2>1 DEF TypeOK, Session
  <2>3. IsFiniteSet(session'.subscriptions)
    <3>1. IsFiniteSet(session.subscriptions)
      BY DEF TypeOK
    <3> QED
      BY <2>2, <3>1, FS_RemoveElement
  <2> QED
    BY <1>9, <2>1, <2>2, <2>3, TypeOfUpdates DEF TypeOK, TearsDown
<1>10. CASE Releases
  BY <1>10, TypeOfUpdates DEF TypeOK, Releases, DAStates
<1> QED
  BY <1>1, <1>2, <1>3, <1>4, <1>5, <1>6, <1>7, <1>8, <1>9, <1>10 DEF SourceStep

\* Steps of frontend calls keep the types.
LEMMA TypeCall ==
    ASSUME TypeOK, NEW c \in Calls,
           StartCall(c) \/ ContextDone(c) \/ CallStep(c)
    PROVE  TypeOK'
<1> USE DEF threadVars, Return
<1>1. CASE StartCall(c)
  <2>1. owned \cup {UnknownID} \subseteq SubscriptionID
    BY DEF TypeOK, UnknownID, SubscriptionID
  <2> QED
    BY <1>1, <2>1, ConstantsAssumption DEF TypeOK, StartCall, CallStates, Ops
<1>2. CASE ContextDone(c)
  BY <1>2 DEF TypeOK, ContextDone
<1>3. CASE EnqueueChecksState(c) \/ EnqueueSignals(c) \/ EnqueueSignalFails(c)
             \/ EnqueueStoresDegraded(c) \/ SeeStopped(c) \/ SeeDeadline(c)
  BY <1>3 DEF TypeOK, CallStates, EnqueueChecksState, EnqueueSignals,
     EnqueueSignalFails, EnqueueStoresDegraded, SeeStopped, SeeDeadline
<1>4. CASE EnqueueSends(c)
  <2>0. commands \in Seq(Calls) /\ Len(commands) \in Nat /\ CommandQueue \in Nat
    BY ConstantsAssumption DEF TypeOK
  <2>1. commands' \in Seq(Calls) /\ Len(commands') <= CommandQueue
    <3>1. CASE commands' = commands
      BY <3>1 DEF TypeOK
    <3>2. CASE commands' = Append(commands, c) /\ ~(Len(commands) >= CommandQueue)
      BY <3>2, <2>0
    <3> QED
      BY <1>4, <3>1, <3>2 DEF EnqueueSends, queueFull
  <2> QED
    BY <1>4, <2>1 DEF TypeOK, EnqueueSends, CallStates
<1>5. CASE EnqueueReportsDegraded(c)
  BY <1>5, TypeOfUpdates DEF TypeOK, EnqueueReportsDegraded, CallStates
<1>6. CASE ReceiveReply(c)
  <2>1. NoReply \in Reply /\ reply[c].id \in SubscriptionID
    BY DEF TypeOK, Reply, ReplyCodes, NoReply, NoID, SubscriptionID
  <2>2. reply' \in [Calls -> Reply] /\ owned' \subseteq SubscriptionID
    BY <1>6, <2>1 DEF TypeOK, ReceiveReply
  <2> QED
    BY <1>6, <2>2 DEF TypeOK, ReceiveReply, CallStates
<1> QED
  BY <1>1, <1>2, <1>3, <1>4, <1>5, <1>6 DEF CallStep

\* All other steps keep the types.
LEMMA TypeRest ==
    ASSUME TypeOK,
           \/ WaitPumps \/ WaitFails \/ ReconnectDue
           \/ \E w \in Watchdogs : WatchdogFires(w) \/ DogStep(w)
           \/ ShutdownAnnounces \/ ShutdownStep
    PROVE  TypeOK'
<1> USE DEF callVars
<1>1. CASE WaitPumps \/ WaitFails \/ ReconnectDue
  BY <1>1 DEF TypeOK, WaitPumps, WaitFails, ReconnectDue, DAStates, Session, Serving
<1>2. CASE \E w \in Watchdogs : WatchdogFires(w) \/ DogStep(w)
  BY <1>2, TypeOfUpdates DEF TypeOK, WatchdogFires, DogStep, WatchdogStores,
     WatchdogReports, DogStates, threadVars
<1>3. CASE ShutdownAnnounces \/ ShutdownStep
  <2>1. "stopping" \in States
    BY DEF States
  <2> QED
    BY <1>3, <2>1, TypeOfUpdates DEF TypeOK, ShutdownAnnounces, ShutdownStep,
       ShutdownCloses, ShutdownSignals, ShutdownReturns, ShutdownStates, threadVars
<1> QED
  BY <1>1, <1>2, <1>3

\* Every step keeps the types.
LEMMA TypeStep == TypeOK /\ [Next]_vars => TypeOK'
<1> SUFFICES ASSUME TypeOK, [Next]_vars PROVE TypeOK'
  OBVIOUS
<1>1. CASE UNCHANGED vars
  BY <1>1 DEF TypeOK, vars
<1>2. CASE Next
  BY <1>2, TypeThread, TypeSource, TypeCall, TypeRest DEF Next
<1> QED
  BY <1>1, <1>2

\* The runtime keeps its types and the queue its capacity, for every instance.
THEOREM TypeCorrect == Spec => []TypeOK
BY TypeInit, TypeStep, PTL DEF Spec

-----------------------------------------------------------------------------
(* Replies *)

\* The states of a call whose command has been sent.
Sent == {"signal", "markDegraded", "markStatus", "wait", "returned"}

\* RepliesNeverBlock, and why it holds: a command in the queue or running belongs
\* to a call past its one send, and before that send no answer exists.
QueueInv ==
    /\ \A i \in DOMAIN commands :
           call[commands[i]] \in Sent /\ reply[commands[i]] = NoReply
    /\ \A i, j \in DOMAIN commands : commands[i] = commands[j] => i = j
    /\ da \in Serving =>
           /\ running \in Calls /\ call[running] \in Sent /\ reply[running] = NoReply
           /\ \A i \in DOMAIN commands : commands[i] # running
    /\ \A c \in Calls : call[c] \notin Sent => reply[c] = NoReply

\* What is left of a queue is what it held behind its head.
LEMMA TailOfQueue ==
    ASSUME NEW s \in Seq(Calls), s # <<>>
    PROVE  /\ Head(s) \in Calls /\ 1 \in DOMAIN s /\ Head(s) = s[1]
           /\ \A i \in DOMAIN Tail(s) :
                  i + 1 \in DOMAIN s /\ i \in Nat \ {0} /\ Tail(s)[i] = s[i + 1]
OBVIOUS

\* The DA thread takes a command out of the queue before it answers it, and
\* answers it once.
LEMMA QueueThread ==
    ASSUME TypeOK, QueueInv, ThreadStep \/ SourceStep \/ WaitPumps \/ WaitFails
    PROVE  QueueInv'
<1> USE DEF callVars
<1>0. commands \in Seq(Calls) /\ reply \in [Calls -> Reply] /\ call \in [Calls -> CallStates]
  BY DEF TypeOK
<1>c. \A i \in DOMAIN commands : commands[i] \in Calls
  BY <1>0
<1>1. CASE SelectCommand
  <2>1. /\ commands # <<>> /\ commands' = Tail(commands) /\ running' = Head(commands)
        /\ UNCHANGED <<reply, call>>
    BY <1>1 DEF SelectCommand
  <2> QED
    BY <1>0, <2>1, TailOfQueue DEF QueueInv
<1>2. CASE SkipCommand
  <2>1. /\ commands # <<>> /\ commands' = Tail(commands) /\ UNCHANGED call
        /\ da' = "process"
        /\ \A c \in Calls : c # Head(commands) => reply'[c] = reply[c]
    BY <1>0, <1>2, TailOfQueue DEF SkipCommand
  <2> QED
    BY <1>0, <2>1, TailOfQueue DEF QueueInv, Serving
<1>3. ASSUME NEW answer, da \in Serving, Respond(answer), UNCHANGED <<commands, call>>
      PROVE  QueueInv'
  <2>1. /\ running \in Calls /\ call[running] \in Sent
        /\ \A i \in DOMAIN commands : commands[i] # running
    BY <1>3 DEF QueueInv
  <2>2. /\ da' = "process"
        /\ \A c \in Calls : c # running => reply'[c] = reply[c]
    BY <1>0, <1>3, <2>1 DEF Respond
  <2> QED
    BY <1>c, <1>3, <2>1, <2>2 DEF QueueInv, Serving
<1>4. CASE \/ RunUnavailable \/ RunSubscribeRefused \/ RunUnsubscribeUnknown \/ RunRead
           \/ RunSubscribeFails \/ LateTeardownReturns \/ RespondAtLast
           \/ (LossChecked /\ degraded)
  <2>1. /\ da \in Serving /\ UNCHANGED <<commands, call>>
        /\ \E answer : Respond(answer)
    BY <1>4 DEF RunUnavailable, RunSubscribeRefused, RunUnsubscribeUnknown, RunRead,
       RunSubscribeFails, LateTeardownReturns, RespondAtLast, LossChecked, Serving
  <2> QED
    BY <1>3, <2>1
<1>5. CASE \/ CreatedInTime \/ CreatedLate \/ CommitSubscription \/ RunSubscribe
           \/ RunUnsubscribe \/ TeardownReturns \/ CountSubscriptions
           \/ RunLosesConnection \/ Reschedule \/ (LossChecked /\ ~degraded)
           \/ ((TearsDown \/ Releases) /\ da = "disconnect")
  <2>1. da \in Serving /\ UNCHANGED <<commands, call, running, reply>>
    BY <1>5 DEF CreatedInTime, CreatedLate, CommitSubscription, RunSubscribe,
       RunUnsubscribe, TeardownReturns, CountSubscriptions, RunLosesConnection,
       Reschedule, LossChecked, TearsDown, Releases, Serving
  <2> QED
    BY <2>1 DEF QueueInv
<1>6. CASE \/ TryConnect \/ Announce \/ ConnectFailed \/ AnnounceConnected
           \/ ProcessReadyCommands \/ SelectStop \/ SelectNothing \/ PumpAndReconnect
           \/ WaitWoken \/ WaitTimesOut \/ WaitFailureStored \/ WaitFailureReported
           \/ BeginCleanup \/ ExitThread \/ ConnectSucceeds \/ ConnectFails
           \/ CleanupEnds \/ WaitPumps \/ WaitFails
           \/ ((TearsDown \/ Releases) /\ da # "disconnect")
  <2>1. da' \notin Serving /\ UNCHANGED <<commands, call, reply>>
    BY <1>6 DEF TryConnect, Announce, ConnectFailed, AnnounceConnected,
       ProcessReadyCommands, SelectStop, SelectNothing, PumpAndReconnect, WaitWoken,
       WaitTimesOut, WaitFailureStored, WaitFailureReported, BeginCleanup, ExitThread,
       ConnectSucceeds, ConnectFails, CleanupEnds, TearsDown, Releases, WaitPumps,
       WaitFails, Serving
  <2> QED
    BY <2>1 DEF QueueInv
<1> QED
  BY <1>1, <1>2, <1>4, <1>5, <1>6 DEF ThreadStep, SourceStep

\* A call sends its command once, and takes a reply only off its own channel.
LEMMA QueueCall ==
    ASSUME TypeOK, QueueInv, NEW c \in Calls,
           StartCall(c) \/ ContextDone(c) \/ CallStep(c)
    PROVE  QueueInv'
<1> USE DEF threadVars, Return
<1>0. commands \in Seq(Calls) /\ reply \in [Calls -> Reply] /\ call \in [Calls -> CallStates]
  BY DEF TypeOK
<1>c. \A i \in DOMAIN commands : commands[i] \in Calls
  BY <1>0
<1>1. CASE EnqueueSends(c) /\ commands' = Append(commands, c)
  <2>1. /\ call[c] = "send" /\ UNCHANGED <<reply, da, running>>
        /\ call' = [call EXCEPT ![c] = "signal"] \/ call' = [call EXCEPT ![c] = "returned"]
    BY <1>1 DEF EnqueueSends
  <2>2. /\ \A i \in DOMAIN commands : commands[i] # c
        /\ da \in Serving => running # c
        /\ reply[c] = NoReply
    BY <2>1 DEF QueueInv, Sent
  <2>3. /\ \A i \in DOMAIN commands' :
               \/ i \in DOMAIN commands /\ commands'[i] = commands[i]
               \/ i = Len(commands) + 1 /\ commands'[i] = c
    BY <1>0, <1>1
  <2>4. /\ call'[c] \in Sent /\ \A d \in Calls : d # c => call'[d] = call[d]
    BY <1>0, <2>1 DEF Sent
  <2> QED
    BY <1>c, <2>1, <2>2, <2>3, <2>4 DEF QueueInv
<1>2. CASE ~(EnqueueSends(c) /\ commands' = Append(commands, c)) /\ ~ReceiveReply(c)
  <2>1. UNCHANGED <<commands, reply, da, running>>
    BY <1>2 DEF CallStep, StartCall, ContextDone, EnqueueChecksState, EnqueueSends,
       EnqueueSignals, EnqueueSignalFails, EnqueueStoresDegraded,
       EnqueueReportsDegraded, SeeStopped, SeeDeadline
  <2>2. \A d \in Calls : /\ call[d] \in Sent => call'[d] \in Sent
                         /\ call'[d] \notin Sent => call[d] \notin Sent
    BY <1>0, <1>2 DEF CallStep, StartCall, ContextDone, EnqueueChecksState, EnqueueSends,
       EnqueueSignals, EnqueueSignalFails, EnqueueStoresDegraded,
       EnqueueReportsDegraded, SeeStopped, SeeDeadline, Sent
  <2> QED
    BY <1>c, <2>1, <2>2 DEF QueueInv
<1>3. CASE ReceiveReply(c)
  <2>1. /\ UNCHANGED <<commands, da, running>>
        /\ \A d \in Calls : reply'[d] = reply[d] \/ reply'[d] = NoReply
        /\ \A d \in Calls : call'[d] = call[d] \/ call'[d] \in Sent
    BY <1>0, <1>3 DEF ReceiveReply, Sent
  <2> QED
    BY <1>c, <2>1 DEF QueueInv
<1> QED
  BY <1>1, <1>2, <1>3

\* QueueInv holds throughout.
LEMMA QueueAlways == Spec => []QueueInv
<1>1. Init => QueueInv
  BY DEF Init, QueueInv, Serving, Sent
<1>2. TypeOK /\ QueueInv /\ [Next]_vars => QueueInv'
  <2> SUFFICES ASSUME TypeOK, QueueInv, [Next]_vars PROVE QueueInv'
    OBVIOUS
  <2>1. CASE \/ ReconnectDue
             \/ \E w \in Watchdogs : WatchdogFires(w) \/ DogStep(w)
             \/ ShutdownAnnounces \/ ShutdownStep \/ UNCHANGED vars
    <3>1. UNCHANGED <<commands, call, reply, da, running>>
      BY <2>1 DEF ReconnectDue, WatchdogFires, DogStep, WatchdogStores, WatchdogReports,
         ShutdownAnnounces, ShutdownStep, ShutdownCloses, ShutdownSignals,
         ShutdownReturns, vars, callVars, threadVars
    <3> QED
      BY <3>1 DEF QueueInv
  <2> QED
    BY <2>1, QueueThread, QueueCall DEF Next
<1> QED
  BY <1>1, <1>2, TypeCorrect, PTL DEF Spec

\* The DA thread never blocks on a reply channel: every command in the queue or
\* running finds its caller's channel empty, and no command is queued twice.
THEOREM RepliesNeverBlockAlways == Spec => []RepliesNeverBlock
<1>1. QueueInv => RepliesNeverBlock
  BY DEF QueueInv, RepliesNeverBlock, Unanswered
<1> QED
  BY <1>1, QueueAlways, PTL

-----------------------------------------------------------------------------
(* Subscriptions: who holds which identifier *)

SafeInv == /\ TypeOK
           /\ SessionInv
           /\ SubscriptionsAreCurrent
           /\ IdentifiersNeverReused
           /\ HandlesAccountedFor

\* The states of the DA thread in which the session has no server.
Serverless == {"tryConnect", "announce", "connect", "connectFailed", "reschedule",
               "lost", "cleaned", "exit"}

\* A step that leaves alone what the session holds and the handles, and enters a
\* state that needs a session property only from one that had it, keeps SafeInv.
LEMMA Frame ==
    ASSUME SafeInv, TypeOK', UNCHANGED <<invalidated, owned, stopped>>,
           session'.server = session.server,
           session'.generation = session.generation,
           session'.lastGeneration = session.lastGeneration,
           session'.nextSequence = session.nextSequence,
           session'.subscriptions = session.subscriptions,
           session'.reconnectAt # "zero" =>
               session.reconnectAt # "zero" \/ ~session.server,
           \A c \in Calls : reply'[c].id \in {NoID, reply[c].id} \cup session.subscriptions,
           da' = "teardown" => da = "teardown" /\ target'[running'] = target[running],
           \/ da' = da
           \/ /\ da \notin {"exited", "teardown"}
              /\ da' \notin {"created", "counting", "exited"}
              /\ da' \in Serverless => ~session.server
              /\ da' \in {"teardownLate", "commit"} => da = "created"
              /\ da' = "handOver" => da = "counting"
    PROVE  SafeInv'
<1> USE DEF SafeInv
<1>0. fresh' = fresh /\ Issued' = Issued
  BY DEF Issued, fresh, subscriptionIDFor
<1>1. SessionInv'
  BY <1>0 DEF SessionInv, Serverless
<1>2. SubscriptionsAreCurrent'
  BY DEF SubscriptionsAreCurrent
<1>3. IdentifiersNeverReused'
  BY <1>0 DEF IdentifiersNeverReused
<1>4. HandlesAccountedFor'
  BY DEF HandlesAccountedFor, TypeOK
<1> QED
  BY <1>1, <1>2, <1>3, <1>4

\* A subscription that leaves the session, to be torn down or already torn down,
\* keeps SafeInv.
LEMMA SafeRemove ==
    ASSUME SafeInv, TypeOK', UNCHANGED <<owned, stopped, reply>>,
           NEW id \in session.subscriptions,
           session' = [session EXCEPT !.subscriptions = @ \ {id}],
           \/ /\ da' = "teardown" /\ UNCHANGED invalidated
              /\ target'[running'] = id
           \/ /\ da' = da
              /\ invalidated' = invalidated \cup {id},
           da \in {"run", "disconnect", "cleanup"}
    PROVE  SafeInv'
<1> USE DEF SafeInv
<1>1. /\ session'.subscriptions = session.subscriptions \ {id}
      /\ session'.server = session.server
      /\ session'.generation = session.generation
      /\ session'.lastGeneration = session.lastGeneration
      /\ session'.nextSequence = session.nextSequence
      /\ session'.reconnectAt = session.reconnectAt
  BY DEF TypeOK, Session
<1>2. id \in Issued /\ Issued' = Issued
  BY <1>1 DEF SessionInv, Issued
<1>3. SessionInv'
  BY <1>1, <1>2 DEF SessionInv
<1>4. Cardinality(session'.subscriptions) <= MaxSubscriptions
  <2>1. /\ Cardinality(session.subscriptions \ {id}) = Cardinality(session.subscriptions) - 1
        /\ Cardinality(session.subscriptions) \in Nat
    BY FS_RemoveElement, FS_CardinalityType DEF TypeOK
  <2> QED
    BY <1>1, <2>1, ConstantsAssumption DEF SubscriptionsAreCurrent
<1>5. SubscriptionsAreCurrent'
  BY <1>1, <1>4 DEF SubscriptionsAreCurrent
<1>6. IdentifiersNeverReused'
  BY <1>1 DEF IdentifiersNeverReused
<1>7. HandlesAccountedFor'
  BY <1>1 DEF HandlesAccountedFor
<1> QED
  BY <1>3, <1>5, <1>6, <1>7

\* Nothing is held before the first connection.
LEMMA SafeInit == Init => SafeInv
<1> SUFFICES ASSUME Init PROVE SafeInv
  OBVIOUS
<1>1. TypeOK
  BY TypeInit
<1>2. SessionInv
  <2>1. session.subscriptions = {} /\ session.server = FALSE /\ session.generation = 0
        /\ session.reconnectAt = "zero"
    BY DEF Init
  <2>2. da \in {"tryConnect", "process"} /\ stopped = FALSE /\ invalidated = {}
    BY DEF Init
  <2> QED
    BY <2>1, <2>2 DEF SessionInv
<1>3. SubscriptionsAreCurrent
  BY FS_EmptySet, ConstantsAssumption DEF Init, SubscriptionsAreCurrent
<1>4. IdentifiersNeverReused /\ HandlesAccountedFor
  <2>1. session.subscriptions = {} /\ da \in {"tryConnect", "process"}
        /\ owned = {} /\ \A c \in Calls : reply[c].id = NoID
    BY DEF Init, NoReply
  <2> QED
    BY <2>1 DEF IdentifiersNeverReused, HandlesAccountedFor
<1> QED
  BY <1>1, <1>2, <1>3, <1>4 DEF SafeInv

\* Answers that carry no identifier.
LEMMA PlainAnswer ==
    ASSUME TypeOK, NEW code, Respond(Answer(code)), NEW c \in Calls
    PROVE  reply'[c].id \in {NoID, reply[c].id} \cup session.subscriptions
BY DEF Respond, Answer, TypeOK, Reply

\* The return of a COM call keeps SafeInv.
LEMMA SafeSource == SafeInv /\ SourceStep => SafeInv'
<1> SUFFICES ASSUME SafeInv, SourceStep PROVE SafeInv'
  OBVIOUS
<1>t. TypeOK /\ TypeOK'
  BY TypeSource DEF SafeInv
<1> USE DEF callVars
<1>1. CASE ConnectSucceeds
  <2>1. PICK subscribable \in BOOLEAN :
            session' = beginConnectionGeneration(subscribable)
    BY <1>1 DEF ConnectSucceeds
  <2>2. /\ session'.server = TRUE /\ session'.subscriptions = {}
        /\ session'.generation = session.lastGeneration + 1
        /\ session'.lastGeneration = session.lastGeneration + 1
        /\ session'.reconnectAt = "zero" /\ session'.nextSequence = 0
    BY <2>1 DEF beginConnectionGeneration
  <2>3. /\ ~session.server /\ session.subscriptions = {} /\ stopped' = stopped
        /\ invalidated' = invalidated /\ owned' = owned /\ reply' = reply
        /\ da = "connect" /\ da' \in {"process", "announceConnected"} /\ ~stopped
    BY <1>1 DEF ConnectSucceeds, SafeInv, SessionInv
  <2>4. session.lastGeneration \in Nat /\ invalidated \subseteq Issued
    BY <1>t, <2>3 DEF TypeOK, Session, SafeInv, SessionInv
  <2>5. Issued \subseteq Issued'
    BY <2>2, <2>4 DEF Issued, SubscriptionID
  <2>6. SessionInv'
    BY <2>2, <2>3, <2>4, <2>5 DEF SessionInv
  <2>7. SubscriptionsAreCurrent'
    BY <2>2, FS_EmptySet, ConstantsAssumption DEF SubscriptionsAreCurrent
  <2>8. IdentifiersNeverReused' /\ HandlesAccountedFor'
    BY <2>2, <2>3 DEF SafeInv, IdentifiersNeverReused, HandlesAccountedFor
  <2> QED
    BY <1>t, <2>6, <2>7, <2>8 DEF SafeInv
<1>2. CASE ConnectFails
  <2>1. ~session.server
    BY <1>2 DEF ConnectFails, SafeInv, SessionInv
  <2> QED
    BY <1>t, <1>2, <2>1, Frame DEF ConnectFails, Serverless
<1>3. CASE RunRead
  <2>1. \A c \in Calls : reply'[c].id \in {NoID, reply[c].id} \cup session.subscriptions
    BY <1>t, <1>3, PlainAnswer DEF RunRead
  <2> QED
    BY <1>t, <1>3, <2>1, Frame DEF RunRead, Respond, Serverless
<1>4. CASE \/ RunSubscribe
           \/ RunSubscribeFails
           \/ /\ RunLosesConnection
              /\ MayCreate
              /\ session' = consumeSequence
  <2>1. /\ session'.server = session.server
        /\ session'.subscriptions = session.subscriptions
        /\ session'.generation = session.generation
        /\ session'.lastGeneration = session.lastGeneration
        /\ session'.nextSequence = session.nextSequence + 1
        /\ session'.reconnectAt = session.reconnectAt
        /\ session.nextSequence \in Nat /\ session.lastGeneration \in Nat
    BY <1>4, <1>t DEF RunSubscribe, RunSubscribeFails, consumeSequence, TypeOK, Session
  <2>2. /\ UNCHANGED <<invalidated, owned, stopped>> /\ da = "run"
        /\ da' \in {"created", "process", "loss"}
    BY <1>4 DEF RunSubscribe, RunSubscribeFails, RunLosesConnection, Respond
  <2>3. /\ session.server /\ Cardinality(session.subscriptions) < MaxSubscriptions
    BY <1>4 DEF RunSubscribe, RunSubscribeFails, RunLosesConnection, MayCreate
  <2>4. \A c \in Calls : reply'[c].id \in {NoID, reply[c].id} \cup session.subscriptions
    BY <1>4, <1>t, PlainAnswer DEF RunSubscribe, RunSubscribeFails, RunLosesConnection
  <2>5. fresh' \notin Issued /\ Issued \subseteq Issued'
    BY <2>1, <2>3 DEF Issued, fresh, subscriptionIDFor, SubscriptionID, SafeInv,
       SessionInv
  <2>6. SessionInv'
    BY <2>1, <2>2, <2>3, <2>5 DEF SafeInv, SessionInv
  <2>7. SubscriptionsAreCurrent'
    BY <2>1 DEF SafeInv, SubscriptionsAreCurrent
  <2>8. owned \subseteq Issued \cup {NoID}
    BY DEF SafeInv, SessionInv, HandlesAccountedFor
  <2>9. fresh' # NoID
    BY <2>1, <2>3 DEF fresh, subscriptionIDFor, NoID, SafeInv, SessionInv
  <2>10. IdentifiersNeverReused'
    BY <2>1, <2>2, <2>5, <2>8, <2>9 DEF SafeInv, SessionInv, IdentifiersNeverReused
  <2>11. HandlesAccountedFor'
    BY <2>1, <2>2, <2>4, <1>t DEF SafeInv, HandlesAccountedFor, TypeOK
  <2> QED
    BY <1>t, <2>6, <2>7, <2>10, <2>11 DEF SafeInv
<1>5. CASE RunLosesConnection /\ UNCHANGED session
  BY <1>t, <1>5, Frame DEF RunLosesConnection, Serverless
<1>6. CASE LateTeardownReturns
  <2>1. /\ UNCHANGED <<session, owned, stopped>> /\ da = "teardownLate"
        /\ da' = "process" /\ invalidated' = invalidated \cup {fresh}
    BY <1>6 DEF LateTeardownReturns, Respond
  <2>2. \A c \in Calls : reply'[c].id \in {NoID, reply[c].id} \cup session.subscriptions
    BY <1>t, <1>6, PlainAnswer DEF LateTeardownReturns
  <2>3. fresh \in Issued /\ fresh \notin session.subscriptions
    BY <1>t, <2>1 DEF SafeInv, SessionInv, Issued, fresh, subscriptionIDFor,
       SubscriptionID, TypeOK, Session
  <2>4. SessionInv' /\ SubscriptionsAreCurrent'
    BY <2>1, <2>3 DEF SafeInv, SessionInv, Issued, SubscriptionsAreCurrent
  <2>5. IdentifiersNeverReused'
    BY <2>1, <2>3 DEF SafeInv, IdentifiersNeverReused
  <2>6. HandlesAccountedFor'
    BY <1>t, <2>1, <2>2 DEF SafeInv, HandlesAccountedFor, TypeOK
  <2> QED
    BY <1>t, <2>4, <2>5, <2>6 DEF SafeInv
<1>7. CASE TeardownReturns
  <2>1. /\ UNCHANGED <<session, owned, stopped, reply>> /\ da = "teardown"
        /\ da' = "uncounting" /\ invalidated' = invalidated \cup {target[running]}
    BY <1>7 DEF TeardownReturns
  <2>2. target[running] \in Issued \ session.subscriptions
    BY <2>1 DEF SafeInv, SessionInv
  <2>3. SessionInv' /\ SubscriptionsAreCurrent'
    BY <2>1, <2>2 DEF SafeInv, SessionInv, Issued, SubscriptionsAreCurrent
  <2>4. IdentifiersNeverReused'
    BY <2>1, <2>2 DEF SafeInv, IdentifiersNeverReused
  <2>5. HandlesAccountedFor'
    BY <2>1 DEF SafeInv, HandlesAccountedFor
  <2> QED
    BY <1>t, <2>3, <2>4, <2>5 DEF SafeInv
<1>8. CASE TearsDown
  BY <1>t, <1>8, SafeRemove DEF TearsDown
<1>11. CASE Releases
  <2>1. /\ session'.server = FALSE /\ session'.generation = 0
        /\ session'.subscriptions = {}
        /\ session'.lastGeneration = session.lastGeneration
        /\ session'.nextSequence = session.nextSequence
    BY <1>t, <1>11 DEF Releases, disconnected, TypeOK, Session
  <2>2. /\ UNCHANGED <<invalidated, owned, stopped, reply>> /\ session.subscriptions = {}
        /\ da \in {"disconnect", "cleanup"} /\ da' \in {"reschedule", "cleaned"}
    BY <1>11 DEF Releases
  <2>3. SessionInv'
    BY <2>1, <2>2 DEF SafeInv, SessionInv, Issued
  <2>4. SubscriptionsAreCurrent'
    <3>1. Cardinality(session'.subscriptions) = 0
      BY <2>1, FS_EmptySet
    <3> QED
      BY <2>1, <3>1, ConstantsAssumption DEF SubscriptionsAreCurrent
  <2>5. IdentifiersNeverReused' /\ HandlesAccountedFor'
    BY <2>1, <2>2 DEF SafeInv, IdentifiersNeverReused, HandlesAccountedFor
  <2> QED
    BY <1>t, <2>3, <2>4, <2>5 DEF SafeInv
<1>9. RunLosesConnection => (MayCreate /\ session' = consumeSequence)
                            \/ UNCHANGED session
  BY DEF RunLosesConnection
<1>10. CASE RunLosesConnection
  BY <1>4, <1>5, <1>9, <1>10
<1> QED
  BY <1>1, <1>2, <1>3, <1>4, <1>6, <1>7, <1>8, <1>10, <1>11 DEF SourceStep

\* A step of the DA thread by itself keeps SafeInv.
LEMMA SafeThread == SafeInv /\ ThreadStep => SafeInv'
<1> SUFFICES ASSUME SafeInv, ThreadStep PROVE SafeInv'
  OBVIOUS
<1>t. TypeOK /\ TypeOK'
  BY TypeThread DEF SafeInv
<1> USE DEF callVars
<1>1. CASE \/ ProcessReadyCommands \/ SelectStop \/ SelectNothing \/ SelectCommand
           \/ AnnounceConnected \/ WaitWoken \/ WaitTimesOut \/ WaitFailureStored
           \/ WaitFailureReported \/ BeginCleanup
  <2>1. /\ UNCHANGED <<session, invalidated, owned, stopped, reply>>
        /\ da # "exited"
        /\ da' \in {"process", "select", "pump", "unwind", "run", "waitDegraded",
                    "cleanup"}
    BY <1>1 DEF ProcessReadyCommands, SelectStop, SelectNothing, SelectCommand,
       AnnounceConnected, WaitWoken, WaitTimesOut, WaitFailureStored,
       WaitFailureReported, BeginCleanup
  <2>2. da' \notin Serverless /\ da \notin {"teardown"}
    BY <1>1, <2>1 DEF Serverless, ProcessReadyCommands, SelectStop, SelectNothing,
       SelectCommand, AnnounceConnected, WaitWoken, WaitTimesOut, WaitFailureStored,
       WaitFailureReported, BeginCleanup
  <2> QED
    BY <1>t, <2>1, <2>2, Frame
<1>2. CASE TryConnect \/ Announce \/ CreatedInTime \/ CreatedLate
  <2>1. /\ UNCHANGED <<session, invalidated, owned, stopped, reply>>
        /\ da # "exited"
        /\ \/ da \in {"tryConnect", "announce"} /\ da' \in {"process", "announce", "connect"}
           \/ da = "created" /\ da' \in {"commit", "teardownLate"}
    BY <1>2 DEF TryConnect, Announce, CreatedInTime, CreatedLate
  <2>2. da \in {"tryConnect", "announce"} => ~session.server
    BY DEF SafeInv, SessionInv
  <2> QED
    BY <1>t, <2>1, <2>2, Frame DEF Serverless
<1>3. CASE PumpAndReconnect
  <2>1. da' = "tryConnect" => ~session.server
    BY <1>3 DEF PumpAndReconnect, SafeInv, SessionInv
  <2>2. /\ UNCHANGED <<session, invalidated, owned, stopped, reply>>
        /\ da = "pump" /\ da' \in {"tryConnect", "wait"}
    BY <1>3 DEF PumpAndReconnect
  <2> QED
    BY <1>t, <2>1, <2>2, Frame DEF Serverless
<1>4. CASE ConnectFailed \/ Reschedule
  <2>1. /\ session' = [session EXCEPT !.reconnectAt = "later"]
        /\ UNCHANGED <<invalidated, owned, stopped, reply>>
        /\ da \in {"connectFailed", "reschedule"} /\ da' \in {"process", "lost"}
    BY <1>4 DEF ConnectFailed, Reschedule, scheduleReconnect
  <2>2. ~session.server
    BY <2>1 DEF SafeInv, SessionInv
  <2>3. /\ session'.server = session.server /\ session'.generation = session.generation
        /\ session'.lastGeneration = session.lastGeneration
        /\ session'.nextSequence = session.nextSequence
        /\ session'.subscriptions = session.subscriptions
    BY <1>t, <2>1 DEF TypeOK, Session
  <2> QED
    BY <1>t, <2>1, <2>2, <2>3, Frame
<1>5. CASE SkipCommand
  <2>1. Head(commands) \in Calls
    BY <1>t, <1>5 DEF SkipCommand, TypeOK
  <2>2. \A c \in Calls : reply'[c].id \in {NoID, reply[c].id} \cup session.subscriptions
    BY <1>t, <1>5, <2>1 DEF SkipCommand, TypeOK, Answer, Reply
  <2>3. /\ UNCHANGED <<session, invalidated, owned, stopped>>
        /\ da = "select" /\ da' = "process"
    BY <1>5 DEF SkipCommand
  <2> QED
    BY <1>t, <2>2, <2>3, Frame DEF Serverless
<1>6. CASE RunUnavailable \/ RunSubscribeRefused \/ RunUnsubscribeUnknown
  <2>1. PICK code : Respond(Answer(code))
    BY <1>6 DEF RunUnavailable, RunSubscribeRefused, RunUnsubscribeUnknown
  <2>2. \A c \in Calls : reply'[c].id \in {NoID, reply[c].id} \cup session.subscriptions
    BY <1>t, <2>1, PlainAnswer
  <2>3. /\ UNCHANGED <<session, invalidated, owned, stopped>>
        /\ da = "run" /\ da' = "process"
    BY <1>6 DEF RunUnavailable, RunSubscribeRefused, RunUnsubscribeUnknown, Respond
  <2> QED
    BY <1>t, <2>2, <2>3, Frame DEF Serverless
<1>7. CASE LossChecked
  <2>1. \A c \in Calls : reply'[c].id \in {NoID, reply[c].id} \cup session.subscriptions
    BY <1>t, <1>7, PlainAnswer DEF LossChecked
  <2>2. /\ UNCHANGED <<session, invalidated, owned, stopped>>
        /\ da = "loss" /\ da' \in {"process", "disconnect"}
    BY <1>7 DEF LossChecked, Respond
  <2> QED
    BY <1>t, <2>1, <2>2, Frame DEF Serverless
<1>8. CASE RunUnsubscribe
  BY <1>t, <1>8, SafeRemove DEF RunUnsubscribe
<1>9. CASE CommitSubscription
  <2>1. /\ session'.subscriptions = session.subscriptions \cup {fresh}
        /\ session'.server = session.server
        /\ session'.generation = session.generation
        /\ session'.lastGeneration = session.lastGeneration
        /\ session'.nextSequence = session.nextSequence
        /\ session'.reconnectAt = session.reconnectAt
    BY <1>9, <1>t DEF CommitSubscription, TypeOK, Session
  <2>2. /\ UNCHANGED <<invalidated, owned, stopped, reply>>
        /\ da = "commit" /\ da' = "counting"
    BY <1>9 DEF CommitSubscription
  <2>3. fresh' = fresh
    BY <2>1 DEF fresh, subscriptionIDFor
  <2>4. fresh \in Issued /\ fresh \notin session.subscriptions \cup invalidated
        /\ fresh[1] = session.generation /\ fresh[2] \in 1..session.nextSequence
    <3>1. /\ session.server /\ session.nextSequence > 0
          /\ fresh \notin session.subscriptions \cup invalidated
          /\ session.generation = session.lastGeneration /\ session.lastGeneration > 0
      BY <2>2 DEF SafeInv, SessionInv
    <3>2. session.generation \in Nat /\ session.nextSequence \in Nat
      BY <1>t DEF TypeOK, Session
    <3>3. fresh = <<session.generation, session.nextSequence>>
      BY DEF fresh, subscriptionIDFor
    <3>4. fresh \in SubscriptionID /\ fresh[1] = session.generation
          /\ fresh[2] = session.nextSequence
      BY <3>2, <3>3 DEF SubscriptionID
    <3>5. fresh \in Issued
      BY <3>1, <3>2, <3>4 DEF Issued
    <3> QED
      BY <3>1, <3>2, <3>4, <3>5
  <2>5. SessionInv'
    BY <2>1, <2>2, <2>3, <2>4 DEF SafeInv, SessionInv, Issued
  <2>6. Cardinality(session'.subscriptions) <= MaxSubscriptions
    <3>1. /\ Cardinality(session.subscriptions \cup {fresh})
                 = Cardinality(session.subscriptions) + 1
          /\ Cardinality(session.subscriptions) \in Nat
      BY <1>t, <2>4, FS_AddElement, FS_CardinalityType DEF TypeOK
    <3>2. Cardinality(session.subscriptions) < MaxSubscriptions
      BY <2>2 DEF SafeInv, SessionInv
    <3> QED
      BY <2>1, <3>1, <3>2, ConstantsAssumption
  <2>7. SubscriptionsAreCurrent'
    BY <2>1, <2>2, <2>4, <2>6 DEF SafeInv, SessionInv, SubscriptionsAreCurrent
  <2>8. IdentifiersNeverReused'
    BY <2>1, <2>2, <2>4 DEF SafeInv, IdentifiersNeverReused
  <2>9. HandlesAccountedFor'
    BY <2>1, <2>2 DEF SafeInv, SessionInv, HandlesAccountedFor
  <2> QED
    BY <1>t, <2>5, <2>7, <2>8, <2>9 DEF SafeInv
<1>11. CASE CountSubscriptions \/ CleanupEnds
  <2>1. /\ UNCHANGED <<session, invalidated, owned, stopped, reply>>
        /\ \/ da = "counting" /\ da' = "handOver"
           \/ da = "uncounting" /\ da' = "removed"
           \/ da = "cleaned" /\ da' = "exit"
    BY <1>11 DEF CountSubscriptions, CleanupEnds
  <2>2. da = "cleaned" => ~session.server
    BY DEF SafeInv, SessionInv
  <2> QED
    BY <1>t, <2>1, <2>2, Frame DEF Serverless
<1>12. CASE RespondAtLast
  <2>1. /\ UNCHANGED <<session, invalidated, owned, stopped>>
        /\ da \in {"handOver", "removed", "lost"} /\ da' = "process"
    BY <1>12 DEF RespondAtLast, Respond
  <2>2. CASE da = "handOver"
    <3>1. reply' = [reply EXCEPT ![running] = [code |-> "ok", id |-> fresh]]
      BY <1>12, <2>2 DEF RespondAtLast, Respond
    <3>2. fresh \in session.subscriptions
      BY <2>2 DEF SafeInv, SessionInv
    <3>3. \A c \in Calls : reply'[c].id \in {NoID, reply[c].id} \cup session.subscriptions
      BY <1>t, <3>1, <3>2 DEF TypeOK
    <3> QED
      BY <1>t, <2>1, <2>2, <3>3, Frame DEF Serverless
  <2>3. CASE da # "handOver"
    <3>1. PICK code : Respond(Answer(code))
      BY <1>12, <2>3 DEF RespondAtLast
    <3>2. \A c \in Calls : reply'[c].id \in {NoID, reply[c].id} \cup session.subscriptions
      BY <1>t, <3>1, PlainAnswer
    <3> QED
      BY <1>t, <2>1, <2>3, <3>2, Frame DEF Serverless
  <2> QED
    BY <2>2, <2>3
<1>10. CASE ExitThread
  <2>1. /\ UNCHANGED <<session, invalidated, owned, reply>> /\ da = "exit"
        /\ da' = "exited" /\ stopped' = TRUE
    BY <1>10 DEF ExitThread
  <2>2. ~session.server /\ session.subscriptions = {}
    BY <2>1 DEF SafeInv, SessionInv
  <2>3. SessionInv' /\ SubscriptionsAreCurrent' /\ IdentifiersNeverReused'
    BY <2>1, <2>2 DEF SafeInv, SessionInv, Issued, SubscriptionsAreCurrent,
       IdentifiersNeverReused
  <2>4. HandlesAccountedFor'
    BY <2>1, <2>2 DEF SafeInv, HandlesAccountedFor
  <2> QED
    BY <1>t, <2>3, <2>4 DEF SafeInv
<1> QED
  BY <1>1, <1>2, <1>3, <1>4, <1>5, <1>6, <1>7, <1>8, <1>9, <1>10, <1>11, <1>12
     DEF ThreadStep

\* A step of a frontend call keeps SafeInv: only a call that has not begun
\* chooses the subscription it would end.
LEMMA SafeCall ==
    ASSUME SafeInv, QueueInv, NEW c \in Calls,
           StartCall(c) \/ ContextDone(c) \/ CallStep(c)
    PROVE  SafeInv'
<1>t. TypeOK /\ TypeOK'
  BY TypeCall DEF SafeInv
<1> USE DEF threadVars
<1>1. CASE ReceiveReply(c)
  <2>1. /\ UNCHANGED <<session, invalidated, stopped, da, running, target>>
        /\ owned' \subseteq owned \cup ({reply[c].id} \ {NoID})
    BY <1>1 DEF ReceiveReply
  <2>2. \A d \in Calls : reply'[d].id \in {NoID, reply[d].id}
    BY <1>t, <1>1 DEF ReceiveReply, TypeOK, NoReply
  <2>3. SessionInv' /\ SubscriptionsAreCurrent'
    BY <2>1 DEF SafeInv, SessionInv, Issued, SubscriptionsAreCurrent, fresh,
       subscriptionIDFor
  <2>4. HandlesAccountedFor'
    <3>1. reply \in [Calls -> Reply] /\ reply' \in [Calls -> Reply]
      BY <1>t DEF TypeOK
    <3> QED
      BY <3>1, <2>1, <2>2 DEF SafeInv, HandlesAccountedFor
  <2>5. da # "teardown" =>
            owned' \subseteq session.subscriptions \cup invalidated \cup {NoID}
    BY <2>1, <2>4 DEF HandlesAccountedFor
  <2>6. da \in {"created", "teardownLate", "commit"} => fresh # NoID
    BY DEF SafeInv, SessionInv, fresh, subscriptionIDFor, NoID
  <2>7. IdentifiersNeverReused'
    BY <2>1, <2>5, <2>6 DEF SafeInv, SessionInv, IdentifiersNeverReused, fresh,
       subscriptionIDFor
  <2> QED
    BY <1>t, <2>3, <2>4, <2>7 DEF SafeInv
<1>2. CASE ~ReceiveReply(c)
  <2>1. UNCHANGED <<session, invalidated, stopped, da, running, owned, reply>>
    BY <1>2 DEF CallStep, StartCall, ContextDone, EnqueueChecksState, EnqueueSends,
       EnqueueSignals, EnqueueSignalFails, EnqueueStoresDegraded,
       EnqueueReportsDegraded, SeeStopped, SeeDeadline
  <2>2. da = "teardown" => target'[running] = target[running]
    <3>1. CASE StartCall(c)
      <4>1. da = "teardown" => running \in Calls /\ call[running] # "idle"
        BY DEF QueueInv, Serving, Sent
      <4>2. call[c] = "idle" /\ \A d \in Calls \ {c} : target'[d] = target[d]
        BY <1>t, <3>1 DEF StartCall, TypeOK
      <4> QED
        BY <4>1, <4>2
    <3>2. CASE ~StartCall(c)
      BY <1>2, <3>2 DEF CallStep, ContextDone, EnqueueChecksState, EnqueueSends,
         EnqueueSignals, EnqueueSignalFails, EnqueueStoresDegraded,
         EnqueueReportsDegraded, SeeStopped, SeeDeadline
    <3> QED
      BY <3>1, <3>2
  <2> QED
    BY <1>t, <2>1, <2>2, Frame
<1> QED
  BY <1>1, <1>2

\* Every other step keeps SafeInv.
LEMMA SafeRest ==
    ASSUME SafeInv,
           \/ WaitPumps \/ WaitFails \/ ReconnectDue
           \/ \E w \in Watchdogs : WatchdogFires(w) \/ DogStep(w)
           \/ ShutdownAnnounces \/ ShutdownStep
    PROVE  SafeInv'
<1>t. TypeOK /\ TypeOK'
  BY TypeRest DEF SafeInv
<1> USE DEF callVars, threadVars
<1>1. CASE WaitPumps \/ WaitFails
  BY <1>t, <1>1, Frame DEF WaitPumps, WaitFails, Serverless
<1>2. CASE ReconnectDue
  <2>1. /\ session'.subscriptions = session.subscriptions
        /\ session'.server = session.server
        /\ session'.generation = session.generation
        /\ session'.lastGeneration = session.lastGeneration
        /\ session'.nextSequence = session.nextSequence
        /\ session.reconnectAt # "zero"
    BY <1>2, <1>t DEF ReconnectDue, TypeOK, Session
  <2>2. UNCHANGED <<invalidated, owned, stopped, da, reply, target, running>>
    BY <1>2 DEF ReconnectDue
  <2> QED
    BY <1>t, <2>1, <2>2, Frame
<1>3. CASE (\E w \in Watchdogs : WatchdogFires(w) \/ DogStep(w))
           \/ ShutdownAnnounces \/ ShutdownStep
  <2>1. UNCHANGED <<session, invalidated, stopped, da, running, target, owned, reply>>
    BY <1>3 DEF WatchdogFires, DogStep, WatchdogStores, WatchdogReports,
       ShutdownAnnounces, ShutdownStep, ShutdownCloses, ShutdownSignals,
       ShutdownReturns
  <2> QED
    BY <1>t, <2>1, Frame
<1> QED
  BY <1>1, <1>2, <1>3

\* Every step keeps SafeInv.
LEMMA SafeStep == SafeInv /\ QueueInv /\ [Next]_vars => SafeInv'
<1> SUFFICES ASSUME SafeInv, QueueInv, [Next]_vars PROVE SafeInv'
  OBVIOUS
<1>1. CASE UNCHANGED vars
  <2>1. TypeOK'
    BY <1>1 DEF SafeInv, TypeOK, vars
  <2> QED
    BY <1>1, <2>1, Frame DEF vars
<1>2. CASE Next
  BY <1>2, SafeThread, SafeSource, SafeCall, SafeRest DEF Next
<1> QED
  BY <1>1, <1>2

\* SafeInv holds throughout.
LEMMA SafeAlways == Spec => []SafeInv
BY SafeInit, SafeStep, QueueAlways, PTL DEF Spec

\* No identifier is used again after its subscription ended, across any number
\* of reconnects, for every limit.
THEOREM NeverReused == Spec => []IdentifiersNeverReused
BY SafeAlways, PTL DEF SafeInv

\* Every subscription a frontend was handed is in the session, was torn down or is
\* just being torn down by the Unsubscribe that names it; none survives the DA
\* thread.
THEOREM AllHandlesAccountedFor == Spec => []HandlesAccountedFor
BY SafeAlways, PTL DEF SafeInv

\* The session holds subscriptions of the connection in use only, and never
\* more than MaxSubscriptions.
THEOREM OnlyCurrentSubscriptions == Spec => []SubscriptionsAreCurrent
BY SafeAlways, PTL DEF SafeInv

\* Both together: what a connection's subscriptions are called and where they
\* are kept, for every number of calls, watchdogs and reconnects.
THEOREM IdentityKept == Spec => []SubscriptionIdentity
BY NeverReused, OnlyCurrentSubscriptions, PTL DEF SubscriptionIdentity

-----------------------------------------------------------------------------
(* Wake-ups *)

\* NoLostWakeup holds already when the thread has found nothing to do and is
\* about to wait, and a thread that exited no longer waits.
WakeInv ==
    /\ stopped => da = "exited"
    /\ (da \in {"pump", "wait"} /\ ~wake) =>
        /\ (commands # <<>> /\ ~degraded) =>
               \E c \in Calls : call[c] \in {"signal", "markDegraded"}
        /\ (stop /\ ~WakeMayFail) => shutdown = "signal"

\* A step of the thread keeps WakeInv: it goes to sleep only after it saw the
\* queue empty (or the runtime degraded) and stop open.
LEMMA WakeThread ==
    ASSUME WakeInv, ThreadStep \/ SourceStep \/ WaitPumps \/ WaitFails
    PROVE  WakeInv'
<1> USE DEF WakeInv, callVars
<1>1. CASE ProcessReadyCommands \/ SelectNothing \/ PumpAndReconnect
  BY <1>1 DEF ProcessReadyCommands, SelectNothing, PumpAndReconnect
<1>2. CASE ~(ProcessReadyCommands \/ SelectNothing \/ PumpAndReconnect \/ ExitThread)
  <2>1. da' \notin {"pump", "wait"} /\ stopped' = stopped /\ da # "exited"
    BY <1>2 DEF ThreadStep, SourceStep, WaitPumps, WaitFails, TryConnect, Announce,
       ConnectFailed, AnnounceConnected, SelectStop, SelectCommand, SkipCommand,
       RunUnavailable, CreatedLate, CreatedInTime, CommitSubscription,
       RunSubscribeRefused, RunUnsubscribeUnknown, LossChecked, WaitWoken,
       WaitTimesOut, WaitFailureStored, WaitFailureReported, BeginCleanup,
       ConnectSucceeds, ConnectFails, RunRead, RunSubscribe, RunSubscribeFails,
       RunUnsubscribe, RunLosesConnection, LateTeardownReturns, TeardownReturns,
       TearsDown, Releases, CountSubscriptions, RespondAtLast, Reschedule, CleanupEnds,
       Respond
  <2> QED
    BY <2>1
<1>3. CASE ExitThread
  BY <1>3 DEF ExitThread
<1> QED
  BY <1>1, <1>2, <1>3

\* A step of anyone else keeps WakeInv: what adds work signals afterwards.
LEMMA WakeRest ==
    ASSUME WakeInv, TypeOK,
           \/ ReconnectDue
           \/ \E w \in Watchdogs : WatchdogFires(w) \/ DogStep(w)
           \/ \E c \in Calls : StartCall(c) \/ ContextDone(c) \/ CallStep(c)
           \/ ShutdownAnnounces \/ ShutdownStep
    PROVE  WakeInv'
<1> USE DEF WakeInv, callVars, threadVars
<1>1. CASE ReconnectDue
  BY <1>1 DEF ReconnectDue
<1>2. CASE \E w \in Watchdogs : WatchdogFires(w) \/ DogStep(w)
  BY <1>2 DEF WatchdogFires, DogStep, WatchdogStores, WatchdogReports
<1>3. CASE ShutdownAnnounces \/ ShutdownStep
  BY <1>3 DEF ShutdownAnnounces, ShutdownStep, ShutdownCloses, ShutdownSignals,
     ShutdownReturns
<1>4. ASSUME NEW c \in Calls, StartCall(c) \/ ContextDone(c) \/ CallStep(c)
      PROVE  WakeInv'
  <2>0. call \in [Calls -> CallStates]
    BY DEF TypeOK
  <2>1. CASE EnqueueSignals(c)
    BY <2>1 DEF EnqueueSignals
  <2>2. CASE EnqueueSends(c) \/ EnqueueSignalFails(c)
    <3>1. UNCHANGED <<stop, stopped, da, wake, degraded, shutdown>>
      BY <2>2 DEF EnqueueSends, EnqueueSignalFails
    <3>2. \/ commands' = commands /\ call[c] = "send" /\ call'[c] = "returned"
             /\ \A d \in Calls \ {c} : call'[d] = call[d]
          \/ call'[c] \in {"signal", "markDegraded"}
      BY <2>0, <2>2 DEF EnqueueSends, EnqueueSignalFails, Return
    <3> QED
      BY <3>1, <3>2
  <2>3. CASE EnqueueStoresDegraded(c)
    BY <2>0, <2>3 DEF EnqueueStoresDegraded
  <2>4. CASE ~(EnqueueSignals(c) \/ EnqueueSends(c) \/ EnqueueSignalFails(c)
               \/ EnqueueStoresDegraded(c))
    <3>1. UNCHANGED <<stop, stopped, da, wake, degraded, shutdown, commands>>
      BY <1>4, <2>4 DEF CallStep, StartCall, ContextDone, EnqueueChecksState,
         EnqueueReportsDegraded, ReceiveReply, SeeStopped, SeeDeadline
    <3>2. \A d \in Calls : call[d] \in {"signal", "markDegraded"} => call'[d] = call[d]
      BY <1>4, <2>0, <2>4 DEF CallStep, StartCall, ContextDone, EnqueueChecksState,
         EnqueueReportsDegraded, ReceiveReply, SeeStopped, SeeDeadline, Return
    <3> QED
      BY <3>1, <3>2
  <2> QED
    BY <2>1, <2>2, <2>3, <2>4
<1> QED
  BY <1>1, <1>2, <1>3, <1>4

\* The DA thread never sleeps on queued work or on a closed stop channel.
THEOREM WakeupNeverLost == Spec => []NoLostWakeup
<1>1. Init => WakeInv
  BY DEF Init, WakeInv
<1>2. TypeOK /\ WakeInv /\ [Next]_vars => WakeInv'
  <2>1. WakeInv /\ UNCHANGED vars => WakeInv'
    BY DEF WakeInv, vars
  <2> QED
    BY <2>1, WakeThread, WakeRest DEF Next
<1>3. WakeInv => NoLostWakeup
  BY DEF WakeInv, NoLostWakeup
<1> QED
  BY <1>1, <1>2, <1>3, TypeCorrect, PTL DEF Spec

-----------------------------------------------------------------------------
(* Status *)

\* The states in which the status lags behind the session, and those in which
\* the thread unwinds.
Lagging == {"counting", "teardown", "uncounting", "disconnect", "reschedule", "cleaned"}
Ending == {"unwind", "cleanup", "cleaned"}

\* ConnectedMeansConnected, with what the next announcement needs: nothing is
\* counted without a server, but where a disconnect has just let go of it, nor
\* while the new connection is still unannounced; and a thread that unwinds has
\* withdrawn the connection.
StatusInv ==
    /\ ConnectedMeansConnected
    /\ ~session.server /\ da \notin {"reschedule", "cleaned"} => status.count = 0
    /\ da = "announceConnected" =>
           session.server /\ session.subscriptions = {} /\ status.count = 0
    /\ da \in Ending => status.state # "connected"

\* Every status update but the announcement withdraws the connection: no
\* capability stays advertised and nothing stays counted.
LEMMA WithdrawnStatus ==
    ASSUME TypeOK
    PROVE  /\ \A s \in States \ {"connected"} :
                  /\ setState(s).state # "connected"
                  /\ setState(s).caps = FALSE /\ setState(s).count = 0
           /\ markDegradedStatus.state # "connected"
           /\ markDegradedStatus.caps = FALSE /\ markDegradedStatus.count = 0
BY DEF TypeOK, RuntimeStatus, setState, markDegradedStatus

\* A status that withdraws the connection satisfies StatusInv whatever the
\* session holds.
LEMMA StatusWithdrawn ==
    ASSUME status'.state # "connected", status'.caps = FALSE, status'.count = 0,
           da' # "announceConnected" \/ (da' = da /\ StatusInv
               /\ session'.server = session.server
               /\ session'.subscriptions = session.subscriptions)
    PROVE  StatusInv'
BY DEF StatusInv, ConnectedMeansConnected

\* A step that leaves the session alone and writes no status but one that
\* withdraws the connection keeps StatusInv, unless it leaves or enters a state
\* in which the two differ.
LEMMA StatusFrame ==
    ASSUME TypeOK, StatusInv,
           /\ session'.server = session.server
           /\ session'.lastGeneration = session.lastGeneration
           /\ session'.subscriptions = session.subscriptions,
           \/ status' = status
           \/ \E s \in States \ {"connected"} : status' = setState(s)
           \/ status' = markDegradedStatus,
           \/ da' = da
           \/ /\ da \notin Lagging /\ da' # "announceConnected"
              /\ da' \notin Lagging \ {"disconnect"}
              /\ da' \in Ending => da \in Ending \/ status'.state # "connected"
    PROVE  StatusInv'
<1>1. CASE status'.state # "connected" /\ status'.caps = FALSE /\ status'.count = 0
  BY <1>1, StatusWithdrawn
<1>2. CASE status' = status
  <2>1. CASE da' = da
    BY <1>2, <2>1 DEF StatusInv, ConnectedMeansConnected, Counted
  <2>2. CASE da' # da
    <3>1. ConnectedMeansConnected'
      BY <1>2, <2>2 DEF StatusInv, ConnectedMeansConnected, Counted, Lagging
    <3> QED
      BY <1>2, <2>2, <3>1 DEF StatusInv, Lagging
  <2> QED
    BY <2>1, <2>2
<1> QED
  BY <1>1, <1>2, WithdrawnStatus

\* A step of the DA thread keeps StatusInv: the count follows the subscriptions,
\* the state follows a disconnect, and a connection is announced before anything
\* can be counted in it.
LEMMA StatusThread ==
    ASSUME SafeInv, StatusInv, ThreadStep \/ SourceStep \/ WaitPumps \/ WaitFails
    PROVE  StatusInv'
<1>t. TypeOK /\ SessionInv
  BY DEF SafeInv
<1>s. /\ "stopping" \in States \ {"connected"} /\ "stopped" \in States \ {"connected"}
      /\ "disconnected" \in States \ {"connected"}
  BY DEF States
<1>c. Cardinality(session.subscriptions) \in Nat /\ status.count \in Nat
      /\ IsFiniteSet(session.subscriptions)
  BY <1>t, FS_CardinalityType DEF TypeOK, RuntimeStatus
<1>1. CASE Announce
  <2>1. ~session.server /\ UNCHANGED session /\ da = "announce" /\ da' = "connect"
    BY <1>1, <1>t DEF Announce, SessionInv
  <2>2. status.state # "connected" /\ status.caps = FALSE /\ status.count = 0
    BY <1>t, <2>1 DEF StatusInv, ConnectedMeansConnected, TypeOK, RuntimeStatus
  <2>3. status'.state # "connected" /\ status'.caps = FALSE /\ status'.count = 0
    BY <1>1, <1>t, <2>2 DEF Announce, setState, TypeOK, RuntimeStatus
  <2> QED
    BY <2>1, <2>3, StatusWithdrawn
<1>2. CASE ConnectSucceeds
  <2>1. ~session.server /\ UNCHANGED status /\ da = "connect"
        /\ da' \in {"process", "announceConnected"}
    BY <1>2, <1>t DEF ConnectSucceeds, SessionInv
  <2>2. status.state # "connected" /\ status.caps = FALSE /\ status.count = 0
    BY <1>t, <2>1 DEF StatusInv, ConnectedMeansConnected, TypeOK, RuntimeStatus
  <2>3. session'.server = TRUE /\ session'.subscriptions = {}
    BY <1>2 DEF ConnectSucceeds, beginConnectionGeneration
  <2> QED
    BY <2>1, <2>2, <2>3 DEF StatusInv, ConnectedMeansConnected, Ending
<1>3. CASE AnnounceConnected
  <2>1. /\ session' = session /\ da' = "process"
        /\ session.server /\ session.subscriptions = {} /\ status.count = 0
    BY <1>3 DEF AnnounceConnected, StatusInv
  <2>2. /\ status'.state = "connected" /\ status'.generation = session.lastGeneration
        /\ status'.count = 0
    BY <1>3, <1>t, <2>1 DEF AnnounceConnected, TypeOK, RuntimeStatus, SessionInv
  <2>3. Cardinality(session'.subscriptions) = 0
    BY <2>1, FS_EmptySet
  <2> QED
    BY <2>1, <2>2, <2>3 DEF StatusInv, ConnectedMeansConnected, Counted, Ending
<1>4. CASE CommitSubscription
  <2>1. /\ da = "commit" /\ da' = "counting" /\ UNCHANGED status
        /\ session.server /\ session'.server = session.server
        /\ session'.lastGeneration = session.lastGeneration
        /\ session'.subscriptions = session.subscriptions \cup {fresh}
        /\ fresh \notin session.subscriptions
    BY <1>4, <1>t DEF CommitSubscription, SessionInv, TypeOK, Session
  <2>2. Cardinality(session'.subscriptions) = Cardinality(session.subscriptions) + 1
    BY <1>c, <2>1, FS_AddElement
  <2> QED
    BY <1>c, <2>1, <2>2 DEF StatusInv, ConnectedMeansConnected, Counted, Ending
<1>5. CASE RunUnsubscribe
  <2>1. /\ da = "run" /\ da' = "teardown" /\ UNCHANGED status
        /\ session'.server = session.server
        /\ session'.lastGeneration = session.lastGeneration
        /\ session'.subscriptions = session.subscriptions \ {target[running]}
        /\ target[running] \in session.subscriptions
    BY <1>5, <1>t DEF RunUnsubscribe, TypeOK, Session
  <2>2. Cardinality(session'.subscriptions) + 1 = Cardinality(session.subscriptions)
    <3> DEFINE id == target[running]
    <3>1. id \in session.subscriptions /\ session'.subscriptions = session.subscriptions \ {id}
      BY <2>1
    <3> HIDE DEF id
    <3>2. Cardinality(session.subscriptions \ {id}) = Cardinality(session.subscriptions) - 1
      BY <1>c, <3>1, FS_RemoveElement
    <3> QED
      BY <1>c, <3>1, <3>2
  <2> QED
    BY <1>c, <2>1, <2>2 DEF StatusInv, ConnectedMeansConnected, Counted, Ending
<1>6. CASE TeardownReturns
  <2>1. da = "teardown" /\ da' = "uncounting" /\ UNCHANGED <<status, session>>
    BY <1>6 DEF TeardownReturns
  <2> QED
    BY <2>1 DEF StatusInv, ConnectedMeansConnected, Counted, Ending
<1>7. CASE CountSubscriptions
  <2>1. /\ da \in {"counting", "uncounting"} /\ da' \in {"handOver", "removed"}
        /\ UNCHANGED session
    BY <1>7 DEF CountSubscriptions
  <2>2. /\ status'.state = status.state /\ status'.generation = status.generation
        /\ status'.caps = status.caps
        /\ status'.count = Cardinality(session.subscriptions)
    BY <1>7, <1>t DEF CountSubscriptions, updateSubscriptionCount, TypeOK, RuntimeStatus
  <2>3. ~session.server => status'.count = 0
    BY <1>t, <2>2, FS_EmptySet DEF SessionInv
  <2> QED
    BY <1>c, <2>1, <2>2, <2>3 DEF StatusInv, ConnectedMeansConnected, Counted, Ending
<1>8. CASE TearsDown
  <2>1. /\ da \in {"disconnect", "cleanup"} /\ UNCHANGED <<status, da>>
        /\ session'.server = session.server
        /\ session'.lastGeneration = session.lastGeneration
    BY <1>8, <1>t DEF TearsDown, TypeOK, Session
  <2> QED
    BY <2>1 DEF StatusInv, ConnectedMeansConnected, Ending
<1>9. CASE Releases
  <2>1. /\ UNCHANGED status /\ session'.lastGeneration = session.lastGeneration
        /\ \/ da = "disconnect" /\ da' = "reschedule"
           \/ da = "cleanup" /\ da' = "cleaned"
    BY <1>9, <1>t DEF Releases, disconnected, TypeOK, Session
  <2> QED
    BY <2>1 DEF StatusInv, ConnectedMeansConnected, Ending
<1>10. CASE ConnectFailed \/ Reschedule \/ CleanupEnds
  <2>1. /\ status' \in {setState("disconnected"), setState("stopped")}
        /\ da' # "announceConnected"
    BY <1>10 DEF ConnectFailed, Reschedule, CleanupEnds, scheduleReconnect
  <2>2. status'.state # "connected" /\ status'.caps = FALSE /\ status'.count = 0
    BY <1>t, <1>s, <2>1, WithdrawnStatus
  <2> QED
    BY <2>1, <2>2, StatusWithdrawn
<1>11. CASE RunSubscribe \/ RunSubscribeFails \/ RunLosesConnection
  <2>1. /\ session'.server = session.server
        /\ session'.lastGeneration = session.lastGeneration
        /\ session'.subscriptions = session.subscriptions
    BY <1>11, <1>t DEF RunSubscribe, RunSubscribeFails, RunLosesConnection,
       consumeSequence, TypeOK, Session
  <2>2. UNCHANGED status /\ da = "run" /\ da' \in {"created", "process", "loss"}
    BY <1>11 DEF RunSubscribe, RunSubscribeFails, RunLosesConnection, Respond
  <2> QED
    BY <1>t, <2>1, <2>2, StatusFrame DEF Lagging, Ending
<1>12. CASE ProcessReadyCommands \/ SelectStop \/ WaitFailureReported
  <2>1. /\ UNCHANGED session /\ da \in {"process", "select", "waitDegraded"}
        /\ \/ status' = status /\ da' \in {"pump", "select"}
           \/ status' \in {setState("stopping"), markDegradedStatus} /\ da' = "unwind"
    BY <1>12 DEF ProcessReadyCommands, SelectStop, WaitFailureReported
  <2>2. \/ status' = status
        \/ \E s \in States \ {"connected"} : status' = setState(s)
        \/ status' = markDegradedStatus
    BY <1>s, <2>1
  <2>3. /\ da \notin Lagging /\ da' # "announceConnected"
        /\ da' \notin Lagging \ {"disconnect"}
        /\ da' \in Ending => status'.state # "connected"
    <3>1. status'.state = "connected" => da' \in {"pump", "select"}
      BY <1>t, <1>s, <2>1, WithdrawnStatus
    <3> QED
      BY <2>1, <3>1 DEF Lagging, Ending
  <2> QED
    BY <1>t, <2>1, <2>2, <2>3, StatusFrame
<1>13. CASE \/ TryConnect \/ SelectNothing \/ SelectCommand \/ SkipCommand
            \/ RunUnavailable \/ CreatedLate \/ CreatedInTime \/ RunSubscribeRefused
            \/ RunUnsubscribeUnknown \/ LossChecked \/ PumpAndReconnect \/ WaitWoken
            \/ WaitTimesOut \/ WaitFailureStored \/ BeginCleanup \/ ExitThread
            \/ ConnectFails \/ RunRead \/ WaitPumps \/ WaitFails
            \/ LateTeardownReturns \/ RespondAtLast
  <2>1. /\ UNCHANGED <<session, status>> /\ da \notin Lagging
        /\ da' \in {"process", "announce", "pump", "run", "teardownLate", "commit",
                    "disconnect", "tryConnect", "wait", "waitDegraded", "cleanup",
                    "exited", "connectFailed", "waitFailed"}
        /\ da' = "cleanup" => da = "unwind"
    BY <1>13 DEF TryConnect, SelectNothing, SelectCommand, SkipCommand, RunUnavailable,
       CreatedLate, CreatedInTime, RunSubscribeRefused, RunUnsubscribeUnknown,
       LossChecked, PumpAndReconnect, WaitWoken, WaitTimesOut, WaitFailureStored,
       BeginCleanup, ExitThread, ConnectFails, RunRead, WaitPumps, WaitFails,
       LateTeardownReturns, RespondAtLast, Respond, Lagging
  <2> QED
    BY <1>t, <2>1, StatusFrame DEF Lagging, Ending
<1> QED
  BY <1>1, <1>2, <1>3, <1>4, <1>5, <1>6, <1>7, <1>8, <1>9, <1>10, <1>11, <1>12, <1>13
     DEF ThreadStep, SourceStep

\* Everyone else keeps StatusInv: watchdogs, callers and Shutdown only ever
\* withdraw a connection.
LEMMA StatusRest ==
    ASSUME TypeOK, StatusInv,
           \/ ReconnectDue
           \/ \E w \in Watchdogs : WatchdogFires(w) \/ DogStep(w)
           \/ \E c \in Calls : StartCall(c) \/ ContextDone(c) \/ CallStep(c)
           \/ ShutdownAnnounces \/ ShutdownStep
    PROVE  StatusInv'
<1>1. /\ session'.server = session.server
      /\ session'.lastGeneration = session.lastGeneration
      /\ session'.subscriptions = session.subscriptions /\ da' = da
  <2>1. CASE ReconnectDue
    BY <2>1 DEF ReconnectDue, TypeOK, Session
  <2>2. CASE ~ReconnectDue
    BY <2>2 DEF WatchdogFires, DogStep, WatchdogStores, WatchdogReports, CallStep,
       StartCall, ContextDone, EnqueueChecksState, EnqueueSends, EnqueueSignals,
       EnqueueSignalFails, EnqueueStoresDegraded, EnqueueReportsDegraded,
       ReceiveReply, SeeStopped, SeeDeadline, ShutdownAnnounces, ShutdownStep,
       ShutdownCloses, ShutdownSignals, ShutdownReturns, threadVars
  <2> QED
    BY <2>1, <2>2
<1>2. status' \in {status, markDegradedStatus, setState("stopping")}
  BY DEF ReconnectDue, WatchdogFires, DogStep, WatchdogStores, WatchdogReports, CallStep,
     StartCall, ContextDone, EnqueueChecksState, EnqueueSends, EnqueueSignals,
     EnqueueSignalFails, EnqueueStoresDegraded, EnqueueReportsDegraded,
     ReceiveReply, SeeStopped, SeeDeadline, ShutdownAnnounces, ShutdownStep,
     ShutdownCloses, ShutdownSignals, ShutdownReturns
<1>3. "stopping" \in States \ {"connected"}
  BY DEF States
<1> QED
  BY <1>1, <1>2, <1>3, StatusFrame

\* A status that says connected is behind the session by no more than the
\* operation the DA thread is in the middle of, and only such a status advertises
\* operations, for every order in which watchdogs, callers, Shutdown and the DA
\* thread write it.
THEOREM ConnectedMeansConnectedAlways == Spec => []ConnectedMeansConnected
<1>1. Init => StatusInv
  BY DEF Init, StatusInv, ConnectedMeansConnected, Ending
<1>2. SafeInv /\ StatusInv /\ [Next]_vars => StatusInv'
  <2>1. StatusInv /\ UNCHANGED vars => StatusInv'
    BY DEF StatusInv, ConnectedMeansConnected, Counted, vars
  <2> QED
    BY <2>1, StatusThread, StatusRest DEF Next, SafeInv
<1>3. StatusInv => ConnectedMeansConnected
  BY DEF StatusInv
<1> QED
  BY <1>1, <1>2, <1>3, SafeAlways, PTL DEF Spec

=============================================================================
