----------------------------- MODULE MCPSession -----------------------------
(***************************************************************************)
(* One stdio session of the MCP frontend (internal/frontend/mcp): the      *)
(* bounded connection under the protocol SDK, the tools that hold or       *)
(* change the session's DA groups, and the end of the session up to the    *)
(* runtime's shutdown (internal/app/mcp.go).                               *)
(*                                                                         *)
(* The SDK and the DA runtime are external. The SDK runs the handlers of   *)
(* the accepted requests concurrently and may return from Run before they  *)
(* do. The runtime's Subscribe leaves a group or none; its Unsubscribe     *)
(* releases a group, fails and leaves it, or knows it no longer. A         *)
(* request's context can be done (deadline, notifications/cancelled, end   *)
(* of the session) wherever a handler looks at it. A tool's result is kept *)
(* below the bound of the connection by result(); responses of the SDK     *)
(* itself that pass the bound are left out.                                *)
(***************************************************************************)
EXTENDS Naturals, FiniteSets

CONSTANTS
    Ids,                \* request identifiers, used once each, in order
    Groups,             \* DA groups the runtime can make, numbered
    MaxInflight,        \* MaxInflight of server.go
    MaxOwned            \* Limits.MaxSubscriptions

ASSUME SessionLimits ==
    /\ MaxInflight \in Nat /\ MaxOwned \in Nat
    /\ Ids \cup Groups \subseteq Nat \ {0}

VARIABLES
    request,      \* of each identifier: [stage, tool, group]
    pending,      \* boundedConnection.pending
    transport,    \* "open" or "ended"
    holder,       \* the request that holds Server.mu across steps, or nobody
    closed,       \* Server.closed
    owned,        \* Server.subscriptions
    reader,       \* of each group: the request that holds ownedSubscription.mu
    source,       \* external: of each group "none", "live", "ended", "released"
    news,         \* external: the group has values nobody drained
    run,          \* where Run is
    toRelease,    \* the groups closeSubscriptions has still to release
    failed,       \* closeSubscriptions met a release that failed
    abandoned     \* history: groups whose release failed after a refused subscribe

mcpVars == <<request, pending, transport, holder, closed, owned,
             reader, source, news, run, toRelease, failed, abandoned>>

Nobody == 0
NoGroup == 0
Tools == {"subscribe", "next", "unsubscribe", "other"}

MCPInit ==
    /\ request = [i \in Ids |-> [stage |-> "unsent", tool |-> "other", group |-> NoGroup]]
    /\ pending = {} /\ transport = "open"
    /\ holder = Nobody /\ closed = FALSE /\ owned = {}
    /\ reader = [g \in Groups |-> Nobody]
    /\ source = [g \in Groups |-> "none"] /\ news = [g \in Groups |-> FALSE]
    /\ run = "serving" /\ toRelease = {} /\ failed = FALSE /\ abandoned = {}

Stands(i, tool, stage) == request[i].tool = tool /\ request[i].stage = stage
Goes(i, stage) == request' = [request EXCEPT ![i].stage = stage]
Answers(i) == request' = [request EXCEPT ![i] =
                             [stage |-> "answering", tool |-> "other", group |-> NoGroup]]
Live == {g \in Groups : source[g] = "live"}
Ended(g) == source[g] \in {"ended", "released"}

sourceVars == <<source, news>>
runVars == <<run, toRelease, failed>>
serverVars == <<holder, closed, owned, reader, abandoned>>

-----------------------------------------------------------------------------
(* boundedConnection *)

\* Read: a request is let through to the SDK, or told QUEUE_FULL at once.
Receive(i, tool, g) ==
    /\ transport = "open" /\ request[i].stage = "unsent"
    /\ \A j \in Ids : j < i => request[j].stage # "unsent"
    /\ g \in Groups <=> tool \in {"next", "unsubscribe"}
    /\ LET full == Cardinality(pending) >= MaxInflight
       IN  /\ request' = [request EXCEPT ![i] = [stage |-> IF full THEN "turned_away" ELSE "queued",
                                                 tool |-> tool, group |-> g]]
           /\ pending' = IF full THEN pending ELSE pending \cup {i}
    /\ UNCHANGED <<transport, serverVars, sourceVars, runVars>>

\* The input ends, a frame or an outstanding identifier is refused, or Run's
\* context is cancelled.
TransportEnds ==
    /\ transport = "open" /\ transport' = "ended"
    /\ UNCHANGED <<request, pending, serverVars, sourceVars, runVars>>

\* Write: the response goes out first, and the place is given back after it.
Write(i) ==
    \/ /\ request[i].stage = "answering"
       /\ Goes(i, IF transport = "open" THEN "written" ELSE "done")
       /\ UNCHANGED <<pending, transport, serverVars, sourceVars, runVars>>
    \/ /\ request[i].stage = "written"
       /\ Goes(i, "done") /\ pending' = pending \ {i}
       /\ UNCHANGED <<transport, serverVars, sourceVars, runVars>>

\* The tools that keep nothing, and the arguments that are refused.
Call(i) ==
    /\ request[i].stage = "queued" /\ Answers(i)
    /\ UNCHANGED <<pending, transport, serverVars, sourceVars, runVars>>

-----------------------------------------------------------------------------
(* da_subscribe: Server.mu is held from the check of the limit to the      *)
(* commit or to the end of the release that replaces it.                   *)

\* Mutation: a session that is closing admits another subscription.
FullWithoutClosed(subscriptions) == Cardinality(subscriptions) >= MaxOwned

Full(subscriptions) == closed \/ Cardinality(subscriptions) >= MaxOwned

SubscribeAdmit(i) ==
    /\ Stands(i, "subscribe", "queued") /\ holder = Nobody
    /\ owned' = {g \in owned : ~Ended(g)}
    /\ IF Full(owned')
       THEN Answers(i) /\ UNCHANGED holder
       ELSE Goes(i, "creating") /\ holder' = i
    /\ UNCHANGED <<pending, transport, closed, reader, abandoned, sourceVars, runVars>>

SubscribeReturns(i) ==
    /\ Stands(i, "subscribe", "creating")
    /\ \/ /\ Answers(i) /\ holder' = Nobody
          /\ UNCHANGED source
       \/ \E g \in Groups :
             /\ run # "stopped" /\ source[g] = "none"
             /\ \A h \in Groups : h < g => source[h] # "none"
             /\ source' = [source EXCEPT ![g] = "live"]
             /\ request' = [request EXCEPT ![i].stage = "created", ![i].group = g]
             /\ UNCHANGED holder
    /\ UNCHANGED <<pending, transport, closed, owned, reader, abandoned, news, runVars>>

SubscribeCommits(i) ==
    /\ Stands(i, "subscribe", "created")
    /\ owned' = owned \cup {request[i].group}
    /\ holder' = Nobody /\ Answers(i)
    /\ UNCHANGED <<pending, transport, closed, reader, abandoned, sourceVars, runVars>>

\* Mutation: the release that replaces the commit keeps the lock.
SubscribeUndoesUnlocked(i) ==
    /\ Stands(i, "subscribe", "created") /\ Answers(i)
    /\ source' = [source EXCEPT ![request[i].group] = IF @ = "live" THEN "released" ELSE @]
    /\ UNCHANGED <<pending, transport, holder, closed, owned, reader, abandoned, news, runVars>>

\* A mismatch, a response too large or a context that is done: the deferred
\* Unsubscribe runs, its error is ignored, and only then is the lock released.
SubscribeUndoes(i) ==
    /\ Stands(i, "subscribe", "created")
    /\ LET g == request[i].group
       IN  \/ /\ source' = [source EXCEPT ![g] = IF @ = "live" THEN "released" ELSE @]
              /\ UNCHANGED abandoned
           \/ /\ source[g] = "live"
              /\ abandoned' = abandoned \cup {g} /\ UNCHANGED source
    /\ holder' = Nobody /\ Answers(i)
    /\ UNCHANGED <<pending, transport, closed, owned, reader, news, runVars>>

-----------------------------------------------------------------------------
(* da_subscription_next and da_unsubscribe *)

Lookup(i) ==
    /\ request[i].tool \in {"next", "unsubscribe"} /\ request[i].stage = "queued"
    /\ holder = Nobody
    /\ IF request[i].group \notin owned \/ closed THEN Answers(i) ELSE Goes(i, "found")
    /\ UNCHANGED <<pending, transport, serverVars, sourceVars, runVars>>

\* TryLock: a second reader of a subscription is refused.
NextLocks(i) ==
    /\ Stands(i, "next", "found")
    /\ LET g == request[i].group
       IN  IF reader[g] # Nobody
           THEN Answers(i) /\ UNCHANGED reader
           ELSE Goes(i, "draining") /\ reader' = [reader EXCEPT ![g] = i]
    /\ UNCHANGED <<pending, transport, holder, closed, owned, abandoned, sourceVars, runVars>>

\* The first Drain: an empty one waits, if the client asked for that.
NextDrains(i) ==
    /\ Stands(i, "next", "draining")
    /\ LET g == request[i].group
       IN  \/ /\ Ended(g)
              /\ Answers(i) /\ reader' = [reader EXCEPT ![g] = Nobody]
              /\ UNCHANGED news
           \/ /\ ~Ended(g)
              /\ news' = [news EXCEPT ![g] = FALSE]
              /\ \/ Goes(i, IF news[g] THEN "drained" ELSE "empty")
                 \/ ~news[g] /\ Goes(i, "waiting")
              /\ UNCHANGED reader
    /\ UNCHANGED <<pending, transport, holder, closed, owned, abandoned, source, runVars>>

\* The wait: for the context, the group's end, the timer or values.
NextWaits(i) ==
    /\ Stands(i, "next", "waiting")
    /\ LET g == request[i].group
       IN  \/ /\ Answers(i) /\ reader' = [reader EXCEPT ![g] = Nobody]
              /\ UNCHANGED news
           \/ /\ Goes(i, "empty") /\ UNCHANGED <<reader, news>>
           \/ /\ news[g] /\ Goes(i, "drained")
              /\ news' = [news EXCEPT ![g] = FALSE] /\ UNCHANGED reader
    /\ UNCHANGED <<pending, transport, holder, closed, owned, abandoned, source, runVars>>

\* The group is looked at again before the values are answered.
NextAnswers(i) ==
    /\ request[i].stage \in {"drained", "empty"} /\ Answers(i)
    /\ reader' = [reader EXCEPT ![request[i].group] = Nobody]
    /\ UNCHANGED <<pending, transport, holder, closed, owned, abandoned, sourceVars, runVars>>

UnsubscribeReleases(i) ==
    /\ Stands(i, "unsubscribe", "found")
    /\ LET g == request[i].group
       IN  \/ /\ source[g] = "live" /\ Goes(i, "releasing")
              /\ source' = [source EXCEPT ![g] = "released"]
           \/ Answers(i) /\ UNCHANGED source
    /\ UNCHANGED <<pending, transport, serverVars, news, runVars>>

UnsubscribeForgets(i) ==
    /\ Stands(i, "unsubscribe", "releasing") /\ holder = Nobody
    /\ owned' = owned \ {request[i].group} /\ Answers(i)
    /\ UNCHANGED <<pending, transport, holder, closed, reader, abandoned, sourceVars, runVars>>

-----------------------------------------------------------------------------
(* Run, closeSubscriptions, and the runtime's shutdown in RunMCP *)

CloseTakes ==
    /\ run = "serving" /\ transport = "ended" /\ holder = Nobody
    /\ closed' = TRUE /\ owned' = {} /\ toRelease' = owned /\ run' = "releasing"
    /\ UNCHANGED <<request, pending, transport, holder, reader, abandoned, sourceVars, failed>>

\* SUBSCRIPTION_NOT_FOUND is no failure.
CloseReleases ==
    /\ run = "releasing"
    /\ \E g \in toRelease :
          /\ toRelease' = toRelease \ {g}
          /\ \/ source[g] = "live" /\ source' = [source EXCEPT ![g] = "released"] /\ UNCHANGED failed
             \/ source[g] = "live" /\ failed' = TRUE /\ UNCHANGED source
             \/ Ended(g) /\ UNCHANGED <<source, failed>>
    /\ UNCHANGED <<request, pending, transport, serverVars, news, run>>

RunReturns ==
    /\ run = "releasing" /\ toRelease = {} /\ run' = "returned"
    /\ UNCHANGED <<request, pending, transport, serverVars, sourceVars, toRelease, failed>>

\* Shutdown of the DA runtime removes every group that is left.
RuntimeShutdown ==
    /\ run = "returned" /\ run' = "stopped"
    /\ source' = [g \in Groups |-> IF source[g] = "live" THEN "ended" ELSE source[g]]
    /\ UNCHANGED <<request, pending, transport, serverVars, news, toRelease, failed>>

(* External: values arrive, and a lost connection ends the groups. *)

SourceUpdates ==
    /\ \E g \in Live : ~news[g] /\ news' = [news EXCEPT ![g] = TRUE]
    /\ UNCHANGED <<request, pending, transport, serverVars, source, runVars>>

SourceLost ==
    /\ Live # {}
    /\ source' = [g \in Groups |-> IF source[g] = "live" THEN "ended" ELSE source[g]]
    /\ UNCHANGED <<request, pending, transport, serverVars, news, runVars>>

-----------------------------------------------------------------------------
Handler(i) ==
    \/ Call(i) \/ SubscribeAdmit(i) \/ SubscribeReturns(i) \/ SubscribeCommits(i)
    \/ SubscribeUndoes(i) \/ Lookup(i) \/ NextLocks(i) \/ NextDrains(i)
    \/ NextWaits(i) \/ NextAnswers(i) \/ UnsubscribeReleases(i) \/ UnsubscribeForgets(i)

Closing == CloseTakes \/ CloseReleases \/ RunReturns

MCPNext ==
    \/ \E i \in Ids : \/ \E tool \in Tools, g \in Groups \cup {NoGroup} : Receive(i, tool, g)
                      \/ Handler(i) \/ Write(i)
    \/ TransportEnds \/ Closing \/ RuntimeShutdown \/ SourceUpdates \/ SourceLost

MCPSpec == MCPInit /\ [][MCPNext]_mcpVars

\* Goroutines run, runtime calls return within their deadline, and a client
\* that keeps the pipe open reads it.
MCPFairness ==
    /\ \A i \in Ids : WF_mcpVars(Handler(i)) /\ WF_mcpVars(Write(i))
    /\ WF_mcpVars(Closing)

-----------------------------------------------------------------------------
\* Every live DA group has somebody who will release it: the session's table,
\* the subscribe that holds it, or closeSubscriptions; the exception is a
\* release that failed. So a Run that reports no cleanup failure leaves none
\* behind but those a refused subscribe could not release, and at no time does
\* a session hold more groups than its limit.
GroupsAccounted ==
    LET held == {request[i].group : i \in {j \in Ids : Stands(j, "subscribe", "created")}}
    IN  /\ run = "serving" => Live \subseteq owned \cup held \cup abandoned
        /\ run = "returned" /\ ~failed => Live \subseteq abandoned
        /\ Cardinality(Live \ abandoned) <= MaxOwned

\* What the SDK holds is bounded: every request it has not answered on the wire
\* keeps its place in pending, and there are at most MaxInflight of them.
InflightBounded ==
    LET unanswered == {i \in Ids : request[i].stage \notin
                                     {"unsent", "turned_away", "written", "done"}}
    IN  /\ unanswered \subseteq pending
        /\ Cardinality(pending) <= MaxInflight

\* Every request the connection accepted is answered while the client stays, and
\* Run returns once the transport ends, whatever the handlers hold at that time.
SessionsFinish ==
    /\ \A i \in Ids : request[i].stage = "queued" ~> request[i].stage \in {"written", "done"}
    /\ transport = "ended" ~> run \in {"returned", "stopped"}

\* A session's groups and requests are accounted for (reserve, commit,
\* closeSubscriptions; boundedConnection's pending ids).
MCPAccounted == GroupsAccounted /\ InflightBounded
=============================================================================
