----------------------------- MODULE UASession -----------------------------
(***************************************************************************)
(* Sessions of the OPC UA frontend and what hangs on them: the registry    *)
(* (internal/opcua/session.go), the channel a session is bound to, the     *)
(* requests that check a session and then act outside the registry's lock, *)
(* Publish requests held open, and the UA subscriptions and DA groups a    *)
(* session owns (internal/opcua/listener.go, subscription.go).             *)
(*                                                                         *)
(* A connection carries one SecureChannel and handles its requests one at  *)
(* a time, except that a Publish waits in a goroutine of its own. Time is  *)
(* abstracted: quiet holds the sessions whose last activity is a timeout   *)
(* or longer ago.                                                          *)
(***************************************************************************)
EXTENDS Naturals, FiniteSets

CONSTANTS
    Sessions,      \* authentication tokens, each issued at most once
    Channels,      \* secure channels, one connection each
    Requests,      \* service requests, each made at most once
    NoSession,     \* "no CreateSession is being handled"
    MaxSessions,   \* SessionLimits.MaxSessions
    MaxSubscriptions, \* SubscriptionLimits.MaxSubscriptions
    MaxPublishes   \* maxOutstandingPublishesPerConnection

ASSUME SessionAssumption ==
    /\ NoSession \notin Sessions
    /\ Sessions # {} /\ Channels # {}
    /\ MaxSessions \in Nat \ {0}
    /\ MaxSubscriptions \in Nat \ {0}
    /\ MaxPublishes \in Nat \ {0}

VARIABLES
    live,          \* registry.sessions
    ended,         \* sessions whose ended channel is closed
    timedOut,      \* sessions ended by the timeout (history)
    createdOn, bound, activated,
    quiet,         \* sessions whose idle clock has run out
    inFlight,      \* Session.inFlight
    hooks,         \* ended sessions whose end hook has not run yet
    subs,          \* UA subscriptions, named by the request that created them
    groups,        \* those whose da refers to a DA group
    sourceGroups,  \* those of which a DA group is open at the source
    failed,        \* those for which Subscribe or Unsubscribe failed (history)
    open,          \* channels whose connection is open
    creating,      \* the CreateSession each connection is handling
    pc, kind, sess, chan, target,   \* of each request
    terminated,    \* held Publishes whose watcher saw the session end
    cancelled,     \* held Publishes whose context is cancelled
    answer,        \* what each Publish was answered
    shutdown       \* progress of Listener.Shutdown

registryVars == <<live, ended, timedOut, createdOn, bound, activated, hooks>>
requestVars  == <<kind, sess, chan, target>>
publishVars  == <<terminated, cancelled, answer>>
daGroups     == <<groups, sourceGroups, failed>>
sessionVars == <<registryVars, quiet, inFlight, subs, daGroups, open, creating, pc,
          requestVars, publishVars, shutdown>>

Kinds == {"create", "monitor", "delete", "publish"}
PCs == {"idle", "checked", "counted", "begun", "watched", "unwatched", "failed",
        "answered", "done"}
Answers == {"none", "response", "refused", "noSubscription", "sessionClosed"}

\* What a session or a request that has not begun is bound to does not matter.
AnyChannel == CHOOSE c \in Channels : TRUE

SessionInit ==
    /\ live = {} /\ ended = {} /\ timedOut = {} /\ activated = {}
    /\ createdOn = [s \in Sessions |-> AnyChannel] /\ bound = createdOn
    /\ quiet = {}
    /\ inFlight = [s \in Sessions |-> 0]
    /\ hooks = {}
    /\ subs = {} /\ groups = {} /\ sourceGroups = {} /\ failed = {}
    /\ open = Channels
    /\ creating = [c \in Channels |-> NoSession]
    /\ pc = [r \in Requests |-> "idle"]
    /\ kind = [r \in Requests |-> "create"]
    /\ sess = [r \in Requests |-> CHOOSE s \in Sessions : TRUE]
    /\ chan = [r \in Requests |-> AnyChannel]
    /\ target = [r \in Requests |-> r]
    /\ terminated = {} /\ cancelled = {}
    /\ answer = [r \in Requests |-> "none"]
    /\ shutdown = "running"

SubsOf(s) == {r \in subs : sess[r] = s}
Held(c) == {r \in Requests : pc[r] \in {"counted", "begun", "watched", "unwatched",
                                        "failed", "answered"} /\ chan[r] = c}

\* A connection that is in the middle of a request.
Busy(c) ==
    \/ creating[c] # NoSession
    \/ \E r \in Requests : pc[r] \in {"checked", "counted", "begun"} /\ chan[r] = c

-----------------------------------------------------------------------------
(* The registry *)

\* Mutation: requests being served do not count.
expiredByClock(s) == s \in quiet

expired(s) == inFlight[s] = 0 /\ s \in quiet

\* terminateLocked: the end hook is left to run after the lock is released.
terminateLocked(gone) ==
    /\ live' = live \ gone
    /\ ended' = ended \cup gone
    /\ hooks' = hooks \cup gone

\* The idle clock of a session runs out.
TimePasses(s) ==
    /\ s \in live \ quiet
    /\ quiet' = quiet \cup {s}
    /\ UNCHANGED <<registryVars, inFlight, subs, daGroups, open, creating, pc,
                   requestVars, publishVars, shutdown>>

BeginCreateSession(c, s) ==
    /\ c \in open
    /\ ~Busy(c)
    /\ s \notin live \cup ended
    /\ \A d \in Channels : creating[d] # s
    /\ creating' = [creating EXCEPT ![c] = s]
    /\ UNCHANGED <<registryVars, quiet, inFlight, subs, daGroups, open, pc,
                   requestVars, publishVars, shutdown>>

Create(c) ==
    /\ creating[c] # NoSession
    /\ IF Cardinality(live) >= MaxSessions
       THEN UNCHANGED <<live, createdOn, bound>>
       ELSE /\ live' = live \cup {creating[c]}
            /\ createdOn' = [createdOn EXCEPT ![creating[c]] = c]
            /\ bound' = [bound EXCEPT ![creating[c]] = c]
    /\ creating' = [creating EXCEPT ![c] = NoSession]
    /\ UNCHANGED <<ended, timedOut, activated, hooks, quiet, inFlight, subs, daGroups,
                   open, pc, requestVars, publishVars, shutdown>>

\* resolveLocked, on behalf of whichever request names the session, finds that
\* it timed out and ends it.
ResolveExpired(s) ==
    /\ \E c \in open : ~Busy(c)
    /\ s \in live
    /\ expired(s)
    /\ terminateLocked({s})
    /\ timedOut' = timedOut \cup {s}
    /\ UNCHANGED <<createdOn, bound, activated, quiet, inFlight, subs, daGroups, open,
                   creating, pc, requestVars, publishVars, shutdown>>

\* Activate and bindToChannel; every channel has the security of the endpoint.
Activate(c, s) ==
    /\ c \in open
    /\ ~Busy(c)
    /\ s \in live
    /\ ~expired(s)
    /\ s \in activated \/ c = createdOn[s]
    /\ bound' = [bound EXCEPT ![s] = c]
    /\ activated' = activated \cup {s}
    /\ quiet' = quiet \ {s}
    /\ UNCHANGED <<live, ended, timedOut, createdOn, hooks, inFlight, subs, daGroups,
                   open, creating, pc, requestVars, publishVars, shutdown>>

\* CloseSession; an expired session goes the way of ResolveExpired.
Close(c, s) ==
    /\ c \in open
    /\ ~Busy(c)
    /\ s \in live
    /\ ~expired(s)
    /\ bound[s] = c
    /\ terminateLocked({s})
    /\ UNCHANGED <<timedOut, createdOn, bound, activated, quiet, inFlight, subs,
                   daGroups, open, creating, pc, requestVars, publishVars, shutdown>>

\* Called from the application's housekeeping tick, which the application stops
\* before it shuts the listener down.
ExpireStale ==
    LET gone == {s \in live : expired(s)} IN
    /\ shutdown = "running"
    /\ gone # {}
    /\ terminateLocked(gone)
    /\ timedOut' = timedOut \cup gone
    /\ UNCHANGED <<createdOn, bound, activated, quiet, inFlight, subs, daGroups, open,
                   creating, pc, requestVars, publishVars, shutdown>>

\* releaseDASubscription drops the reference to a group whatever Unsubscribe
\* answers; a call that failed (the queue is full, the deadline passed, the source
\* is not connected) may leave the group at the source. The loss of the DA
\* connection, which takes every group with it, is DARuntime's and left out.
releaseDASubscription(gone) ==
    LET held == gone \cap groups IN
    /\ groups' = groups \ gone
    /\ \E errors \in SUBSET held : failed' = failed \cup errors
    /\ \E left \in SUBSET (held \cap failed') :
           sourceGroups' = sourceGroups \ (held \ left)

\* notifyEnded runs the hook: SubscriptionService.ReleaseSession.
EndHook(s) ==
    /\ s \in hooks
    /\ hooks' = hooks \ {s}
    /\ subs' = subs \ SubsOf(s)
    /\ releaseDASubscription(SubsOf(s))
    /\ UNCHANGED <<live, ended, timedOut, createdOn, bound, activated, quiet, inFlight,
                   open, creating, pc, requestVars, publishVars, shutdown>>

-----------------------------------------------------------------------------
(* Requests: activatedSession first, the service afterwards *)

\* The subscription identifiers a client can name.
Known(s) == {r \in Requests : kind[r] = "create" /\ pc[r] = "done" /\ sess[r] = s}

\* Lookup succeeds on an activated session and restarts the idle clock. A
\* Publish is then counted against its connection, or refused.
StartRequest(r, k, s, c) ==
    /\ pc[r] = "idle"
    /\ c \in open
    /\ ~Busy(c)
    /\ s \in live \cap activated
    /\ ~expired(s)
    /\ bound[s] = c
    /\ IF k \in {"monitor", "delete"}
       THEN \E t \in Known(s) : target' = [target EXCEPT ![r] = t]
       ELSE UNCHANGED target
    /\ kind' = [kind EXCEPT ![r] = k]
    /\ sess' = [sess EXCEPT ![r] = s]
    /\ chan' = [chan EXCEPT ![r] = c]
    /\ quiet' = quiet \ {s}
    /\ pc' = [pc EXCEPT ![r] = IF k # "publish" THEN "checked"
                               ELSE IF Cardinality(Held(c)) >= MaxPublishes THEN "done"
                               ELSE "counted"]
    /\ answer' = IF k = "publish" /\ Cardinality(Held(c)) >= MaxPublishes
                 THEN [answer EXCEPT ![r] = "refused"] ELSE answer
    /\ UNCHANGED <<registryVars, inFlight, subs, daGroups, open, creating, terminated,
                   cancelled, shutdown>>

Done(r) == pc' = [pc EXCEPT ![r] = "done"]

\* CreateSubscription does not ask whether the session still exists.
CreateSubscription(r) ==
    /\ pc[r] = "checked"
    /\ kind[r] = "create"
    /\ subs' = IF Cardinality(subs) >= MaxSubscriptions THEN subs ELSE subs \cup {r}
    /\ Done(r)
    /\ UNCHANGED <<registryVars, quiet, inFlight, daGroups, open, creating,
                   requestVars, publishVars, shutdown>>

\* Mutation: the subscription is found by its identifier alone and revived.
MonitorWithoutLookup(r) ==
    /\ pc[r] = "checked"
    /\ kind[r] = "monitor"
    /\ groups' = groups \cup {target[r]}
    /\ sourceGroups' = sourceGroups \cup {target[r]}
    /\ subs' = subs \cup {target[r]}
    /\ Done(r)
    /\ UNCHANGED <<registryVars, quiet, inFlight, failed, open, creating, requestVars,
                   publishVars, shutdown>>

\* rebuildDASubscription: the new group replaces the old one once Subscribe has
\* answered, or there is no readable item left. A Subscribe that fails leaves the
\* old group in place; past its deadline it may leave the new one at the source.
rebuildDASubscription(t) ==
    \/ /\ groups' = groups \cup {t}
       /\ sourceGroups' = sourceGroups \cup {t}
       /\ failed' \in {failed, failed \cup ({t} \cap groups)}
    \/ releaseDASubscription({t})
    \/ /\ failed' = failed \cup {t}
       /\ sourceGroups' \in {sourceGroups, sourceGroups \cup {t}}
       /\ UNCHANGED groups

\* CreateMonitoredItems: lookup, then, where an item is accepted, the rebuild.
CreateItems(r) ==
    /\ pc[r] = "checked"
    /\ kind[r] = "monitor"
    /\ \/ target[r] \in SubsOf(sess[r]) /\ rebuildDASubscription(target[r])
       \/ UNCHANGED daGroups
    /\ Done(r)
    /\ UNCHANGED <<registryVars, quiet, inFlight, subs, open, creating, requestVars,
                   publishVars, shutdown>>

DeleteSubscriptions(r) ==
    /\ pc[r] = "checked"
    /\ kind[r] = "delete"
    /\ subs' = subs \ {target[r]}
    /\ releaseDASubscription({target[r]})
    /\ Done(r)
    /\ UNCHANGED <<registryVars, quiet, inFlight, open, creating, requestVars,
                   publishVars, shutdown>>

\* Mutation: a subscription expires only under a session that is still there.
SubscriptionExpiresLive(r) ==
    /\ shutdown = "running"
    /\ r \in subs
    /\ sess[r] \in live
    /\ ~ \E p \in Requests : pc[p] \in {"watched", "unwatched"} /\ sess[p] = sess[r]
    /\ subs' = subs \ {r}
    /\ releaseDASubscription({r})
    /\ UNCHANGED <<registryVars, quiet, inFlight, open, creating, pc, requestVars,
                   publishVars, shutdown>>

\* SubscriptionService.ExpireStale, from the housekeeping tick: a subscription is
\* deleted when no Publish was available to it for its lifetime.
SubscriptionExpires(r) ==
    /\ shutdown = "running"
    /\ r \in subs
    /\ ~ \E p \in Requests : pc[p] \in {"watched", "unwatched"} /\ sess[p] = sess[r]
    /\ subs' = subs \ {r}
    /\ releaseDASubscription({r})
    /\ UNCHANGED <<registryVars, quiet, inFlight, open, creating, pc, requestVars,
                   publishVars, shutdown>>

-----------------------------------------------------------------------------
(* handlePublish *)

BeginRequest(r) ==
    /\ pc[r] = "counted"
    /\ IF sess[r] \in live
       THEN /\ inFlight' = [inFlight EXCEPT ![sess[r]] = @ + 1]
            /\ pc' = [pc EXCEPT ![r] = "begun"]
            /\ UNCHANGED answer
       ELSE /\ answer' = [answer EXCEPT ![r] = "refused"]
            /\ Done(r)
            /\ UNCHANGED inFlight
    /\ UNCHANGED <<registryVars, quiet, subs, daGroups, open, creating, requestVars,
                   terminated, cancelled, shutdown>>

\* Ended, under a lock of its own: a session that ended since BeginRequest
\* leaves the goroutine without a channel to watch.
Ended(r) ==
    /\ pc[r] = "begun"
    /\ pc' = [pc EXCEPT ![r] = IF sess[r] \in live THEN "watched" ELSE "unwatched"]
    /\ UNCHANGED <<registryVars, quiet, inFlight, subs, daGroups, open, creating,
                   requestVars, publishVars, shutdown>>

WatcherSeesEnd(r) ==
    /\ pc[r] = "watched"
    /\ sess[r] \in ended
    /\ r \notin cancelled
    /\ terminated' = terminated \cup {r}
    /\ cancelled' = cancelled \cup {r}
    /\ UNCHANGED <<registryVars, quiet, inFlight, subs, daGroups, open, creating, pc,
                   requestVars, answer, shutdown>>

WatcherSeesDisconnect(r) ==
    /\ pc[r] \in {"watched", "unwatched"}
    /\ chan[r] \notin open
    /\ r \notin cancelled
    /\ cancelled' = cancelled \cup {r}
    /\ UNCHANGED <<registryVars, quiet, inFlight, subs, daGroups, open, creating, pc,
                   requestVars, terminated, answer, shutdown>>

\* Mutation: no subscription is taken for nothing to report yet.
TryPublishWaits(r) ==
    /\ pc[r] \in {"watched", "unwatched"}
    /\ SubsOf(sess[r]) = {}
    /\ UNCHANGED sessionVars

\* A publishing cycle that finds no subscription fails the request.
TryPublishFails(r) ==
    /\ pc[r] \in {"watched", "unwatched"}
    /\ SubsOf(sess[r]) = {}
    /\ pc' = [pc EXCEPT ![r] = "failed"]
    /\ UNCHANGED <<registryVars, quiet, inFlight, subs, daGroups, open, creating,
                   requestVars, publishVars, shutdown>>

\* Notifications, or a keep-alive that has come due.
TryPublishReady(r) ==
    /\ pc[r] \in {"watched", "unwatched"}
    /\ SubsOf(sess[r]) # {}
    /\ pc' = [pc EXCEPT ![r] = "answered"]
    /\ answer' = [answer EXCEPT ![r] = "response"]
    /\ UNCHANGED <<registryVars, quiet, inFlight, subs, daGroups, open, creating,
                   requestVars, terminated, cancelled, shutdown>>

PublishCancelled(r) ==
    /\ pc[r] \in {"watched", "unwatched"}
    /\ r \in cancelled
    /\ pc' = [pc EXCEPT ![r] = "failed"]
    /\ UNCHANGED <<registryVars, quiet, inFlight, subs, daGroups, open, creating,
                   requestVars, publishVars, shutdown>>

PublishFault(r) ==
    /\ pc[r] = "failed"
    /\ answer' = [answer EXCEPT ![r] =
                    IF r \in terminated THEN "sessionClosed"
                    ELSE IF r \in cancelled THEN "none" ELSE "noSubscription"]
    /\ pc' = [pc EXCEPT ![r] = "answered"]
    /\ UNCHANGED <<registryVars, quiet, inFlight, subs, daGroups, open, creating,
                   requestVars, terminated, cancelled, shutdown>>

\* releaseRequest: the idle clock restarts when the request is answered.
ReleaseRequest(r) ==
    /\ pc[r] = "answered"
    /\ inFlight' = [inFlight EXCEPT ![sess[r]] = IF @ > 0 THEN @ - 1 ELSE 0]
    /\ quiet' = quiet \ {sess[r]}
    /\ Done(r)
    /\ UNCHANGED <<registryVars, subs, daGroups, open, creating, requestVars,
                   publishVars, shutdown>>

-----------------------------------------------------------------------------
(* Connections and shutdown *)

\* The client goes away; its session stays, to be activated on a new channel.
Disconnect(c) ==
    /\ c \in open
    /\ ~Busy(c)
    /\ open' = open \ {c}
    /\ UNCHANGED <<registryVars, quiet, inFlight, subs, daGroups, creating, pc,
                   requestVars, publishVars, shutdown>>

\* Listener.Close drops every connection, also one that is busy.
ShutdownCloses ==
    /\ shutdown = "running"
    /\ open' = {}
    /\ shutdown' = "closed"
    /\ UNCHANGED <<registryVars, quiet, inFlight, subs, daGroups, creating, pc,
                   requestVars, publishVars>>

TerminateAll ==
    /\ shutdown = "closed"
    /\ terminateLocked(live)
    /\ shutdown' = "terminated"
    /\ UNCHANGED <<timedOut, createdOn, bound, activated, quiet, inFlight, subs,
                   daGroups, open, creating, pc, requestVars, publishVars>>

-----------------------------------------------------------------------------

RequestStep(r) ==
    \/ CreateSubscription(r) \/ CreateItems(r) \/ DeleteSubscriptions(r)
    \/ BeginRequest(r) \/ Ended(r) \/ PublishFault(r) \/ ReleaseRequest(r)
    \/ PublishCancelled(r)

PublishTick(r) == TryPublishFails(r) \/ TryPublishReady(r)

Watcher(r) == WatcherSeesEnd(r) \/ WatcherSeesDisconnect(r)

SessionNext ==
    \/ \E s \in Sessions : TimePasses(s) \/ ResolveExpired(s) \/ EndHook(s)
    \/ \E c \in Channels, s \in Sessions :
           BeginCreateSession(c, s) \/ Activate(c, s) \/ Close(c, s)
    \/ \E c \in Channels : Create(c) \/ Disconnect(c)
    \/ ExpireStale
    \/ \E r \in Requests, k \in Kinds, s \in Sessions, c \in Channels :
           StartRequest(r, k, s, c)
    \/ \E r \in Requests : RequestStep(r) \/ PublishTick(r) \/ Watcher(r)
                           \/ SubscriptionExpires(r)
    \/ ShutdownCloses \/ TerminateAll

SessionSpec == SessionInit /\ [][SessionNext]_sessionVars

\* Goroutines run, publishing tickers tick, keep-alives come due, and the
\* application calls ExpireStaleChannels periodically.
SessionFairness ==
    /\ \A s \in Sessions : WF_sessionVars(EndHook(s))
    /\ \A r \in Requests :
           /\ WF_sessionVars(RequestStep(r))
           /\ WF_sessionVars(PublishTick(r))
           /\ WF_sessionVars(Watcher(r))
           /\ WF_sessionVars(SubscriptionExpires(r))

FairSessionSpec == SessionSpec /\ SessionFairness

-----------------------------------------------------------------------------
(* Properties *)

\* Every variable keeps its type and the two registries their limits.
SessionTypeOK ==
    /\ live \subseteq Sessions /\ ended \subseteq Sessions
    /\ timedOut \subseteq ended /\ hooks \subseteq ended /\ live \cap ended = {}
    /\ activated \subseteq live \cup ended /\ quiet \subseteq Sessions
    /\ Cardinality(live) <= MaxSessions /\ Cardinality(subs) <= MaxSubscriptions
    /\ inFlight \in [Sessions -> Nat]
    /\ createdOn \in [Sessions -> Channels] /\ bound \in [Sessions -> Channels]
    /\ groups \subseteq subs /\ subs \subseteq Requests
    /\ open \subseteq Channels
    /\ creating \in [Channels -> Sessions \cup {NoSession}]
    /\ pc \in [Requests -> PCs] /\ kind \in [Requests -> Kinds]
    /\ sess \in [Requests -> Sessions] /\ chan \in [Requests -> Channels]
    /\ target \in [Requests -> Requests]
    /\ terminated \subseteq cancelled /\ cancelled \subseteq Requests
    /\ answer \in [Requests -> Answers]
    /\ shutdown \in {"running", "closed", "terminated"}

Serving(s) == {r \in Requests :
    sess[r] = s /\ pc[r] \in {"begun", "watched", "unwatched", "failed", "answered"}}

\* BeginRequest and its release balance: the in-flight count of a session is
\* the number of Publishes being served for it, whichever way each one ends, so
\* the count neither pins a session for ever nor drops below a held request.
HeldPublishKeepsSession ==
    \A s \in live : inFlight[s] = Cardinality(Serving(s))

\* A session never times out underneath a Publish the server is holding
\* (BeginRequest: "holding the session open for as long as it takes"), neither
\* by the housekeeping tick nor by a request that looks the session up.
NotTimedOutWhileServed ==
    [][\A s \in timedOut' \ timedOut : Serving(s) = {}]_sessionVars

\* A DA group open at the source is one a subscription refers to, unless a call
\* of the runtime about it failed: nothing else loses a group.
GroupsAccounted ==
    /\ groups \subseteq sourceGroups
    /\ sourceGroups \subseteq groups \cup failed
    /\ failed \subseteq Requests

\* "A closed session must not leave DA groups open on the source": once the end
\* hook has run, no group of the session is referred to or comes into existence,
\* although requests that checked the session before it ended are still being
\* handled; one is open at the source only where its own call failed, which
\* releaseDASubscription ignores.
NoGroupOutlivesSession ==
    \A s \in ended \ hooks :
        /\ SubsOf(s) \cap groups = {}
        /\ \A r \in sourceGroups : sess[r] = s => r \in failed

\* Sessions own what they should and no more: the in-flight count is that of the
\* held Publishes, the registries keep their limits, and the DA groups of an
\* ended session are gone but for those the source was not reached about
\* (BeginRequest, Create, the end hook, releaseDASubscription).
SessionOwnership ==
    /\ SessionTypeOK
    /\ HeldPublishKeepsSession
    /\ GroupsAccounted
    /\ NoGroupOutlivesSession

\* Every held Publish is answered: by a notification or keep-alive, by a fault,
\* or not at all because its connection went away.
PublishReturns ==
    \A r \in Requests : pc[r] = "counted" ~> pc[r] = "done"

\* What a session owned is gone some time after its end, also a subscription
\* that CreateSubscription made for a session that ended under it, as long as
\* the housekeeping tick runs.
EndedSessionsReclaimed ==
    \A s \in Sessions : s \in ended ~> SubsOf(s) = {} \/ shutdown # "running"

=============================================================================
