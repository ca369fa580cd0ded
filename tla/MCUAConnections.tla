-------------------------- MODULE MCUAConnections ---------------------------
(* A small instance of what serves a UA client for as long as it is there:  *)
(* the listener with its connections (UAListener), the sessions and held    *)
(* Publish requests (UASession), and a subscription that paces an item's    *)
(* values (UASubscription). They share no variable, so each behaviour       *)
(* follows one of them, the focus, and leaves the others as they began.     *)
EXTENDS UASession, UAListener, UASubscription

CONSTANTS s1, ch1, ch2, r1, r2, k1, k2, k3, u1, i1, d1, p1

VARIABLE focus

OneSession == {s1}
TwoChannels == {ch1, ch2}
TwoRequests == {r1, r2}
ThreeConns == {k1, k2, k3}
OneSubscription == {u1}
OneItem == {i1}
OneDAItem == {d1}
OnePublish == {p1}
OwnedByIt == [i \in OneItem |-> u1]
NamedByIt == [i \in OneItem |-> d1]
OwnHandle == [i \in OneItem |-> i]
NoDAItem == {}
Equal == [s \in OneSubscription |-> 0]
Twice == [n \in OneDAItem |-> 2]

ConnectionsInit ==
    /\ focus \in {"sessions", "listener", "subscription"}
    /\ SessionInit /\ ListenerInit /\ Init
    /\ focus # "subscription" => enabled = [s \in Subscriptions |-> TRUE]

ConnectionsNext ==
    /\ \/ focus = "sessions" /\ SessionNext /\ UNCHANGED <<listenerVars, vars>>
       \/ focus = "listener" /\ ListenerNext /\ UNCHANGED <<sessionVars, vars>>
       \/ focus = "subscription" /\ Next /\ UNCHANGED <<sessionVars, listenerVars>>
    /\ UNCHANGED focus

\* SessionFairness, ListenerFairness and Fairness of the component in focus.
ConnectionsFairness ==
    /\ \A s \in Sessions : WF_sessionVars(focus = "sessions" /\ EndHook(s))
    /\ \A r \in Requests :
           /\ WF_sessionVars(focus = "sessions" /\ RequestStep(r))
           /\ WF_sessionVars(focus = "sessions" /\ PublishTick(r))
           /\ WF_sessionVars(focus = "sessions" /\ Watcher(r))
           /\ WF_sessionVars(focus = "sessions" /\ SubscriptionExpires(r))
    /\ WF_listenerVars(focus = "listener" /\ LoopStep)
    /\ WF_listenerVars(focus = "listener" /\ ~socket /\ AcceptReturns)
    /\ WF_listenerVars(focus = "listener" /\ ShutdownStep)
    /\ WF_listenerVars(focus = "listener" /\ watch = "working" /\ Tick)
    /\ SF_listenerVars(focus = "listener" /\ WatchStops)
    /\ \A c \in Conns :
           /\ WF_listenerVars(focus = "listener" /\ c \in shut /\ ServeConnectionReturns(c))
           /\ WF_listenerVars(focus = "listener" /\ conn[c] # "serving" /\ HoldEnds(c))
           /\ WF_listenerVars(focus = "listener" /\ ConnStep(c))
    /\ \A i \in Items : WF_vars(focus = "subscription" /\ SamplingDue(i))
    /\ \A p \in Publishes :
           /\ WF_vars(focus = "subscription" /\ Publish(p))
           /\ WF_vars(focus = "subscription" /\ tryPublish(p))

ConnectionsSpec ==
    /\ ConnectionsInit
    /\ [][ConnectionsNext]_<<focus, sessionVars, listenerVars, vars>>
    /\ ConnectionsFairness
=============================================================================
