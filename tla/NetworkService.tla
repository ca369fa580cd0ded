--------------------------- MODULE NetworkService ---------------------------
(***************************************************************************)
(* The life of an adapter that serves HTTP or gRPC: Start and Shutdown     *)
(* (internal/app/service.go), the bounded TCP listener, the goroutine that *)
(* serves, and the handlers it runs with their admission slots             *)
(* (internal/frontend/http/server.go, internal/frontend/grpc/server.go and *)
(* subscribe.go).                                                          *)
(*                                                                         *)
(* net/http, grpc-go and the DA runtime are external. Both servers refuse  *)
(* what arrives after they began to stop. net/http's Shutdown returns when *)
(* no call is left or its context is done; grpc's GracefulStop returns     *)
(* when no handler is left, and Stop cancels the contexts of the rest.     *)
(***************************************************************************)
EXTENDS Naturals, FiniteSets

CONSTANTS
    Calls,              \* calls of clients, numbered
    Connections,        \* connections of clients, numbered
    MaxConcurrent,      \* slots of Server.requests
    MaxStreams,         \* slots of the gRPC Server.subscriptions
    MaxPermits          \* connections the bounded listener admits

ASSUME ServiceLimits ==
    /\ MaxConcurrent \in Nat /\ MaxStreams \in Nat /\ MaxPermits \in Nat
    /\ Calls \cup Connections \subseteq Nat

VARIABLES
    frontend,     \* "http" or "grpc"
    phase,        \* of the Service: new, started, failed, stopping, stopped, down
    serving,      \* the goroutine that serves: none, starting, entering, serving, ended
    server,       \* external: open, draining, cut
    listening,    \* Server.listening, what Status reports
    deadline,     \* Shutdown's context is done
    frontendErr,  \* what the frontend's stop returned
    connection,   \* of each connection: none, open, closed, closed_again
    permits,      \* boundedListener.permits in use
    handler,      \* of each call: idle, unary, creating, streaming, releasing, done
    requests,     \* Server.requests in use
    subscriptions,\* Server.subscriptions in use
    daGroup,      \* external: of each call's DA group: none, live, ended, released
    unreleased    \* history: calls whose Unsubscribe failed

callVars == <<handler, requests, subscriptions, daGroup, unreleased>>
connectionVars == <<connection, permits>>
lifeVars == <<phase, serving, server, listening, deadline, frontendErr>>
serviceVars == <<frontend, lifeVars, connectionVars, callVars>>

ServiceInit ==
    /\ frontend \in {"http", "grpc"}
    /\ phase = "new" /\ serving = "none" /\ server = "open" /\ listening = FALSE
    /\ deadline = FALSE /\ frontendErr = FALSE
    /\ connection = [n \in Connections |-> "none"] /\ permits = 0
    /\ handler = [c \in Calls |-> "idle"] /\ requests = 0 /\ subscriptions = 0
    /\ daGroup = [c \in Calls |-> "none"] /\ unreleased = {}

InHandler == {c \in Calls : handler[c] \notin {"idle", "done"}}
LiveGroups == {c \in Calls : daGroup[c] = "live"}
GroupsEnd == daGroup' = [c \in Calls |-> IF daGroup[c] = "live" THEN "ended" ELSE daGroup[c]]

-----------------------------------------------------------------------------
(* Service.Start and the goroutine it leaves *)

Start ==
    /\ phase = "new"
    /\ \/ /\ phase' = "started" /\ serving' = "starting"
          /\ listening' = (frontend = "http")
       \/ /\ phase' = "failed" /\ UNCHANGED <<serving, listening>>
    /\ UNCHANGED <<frontend, server, deadline, frontendErr, connectionVars, callVars>>

ServeBegins ==
    /\ serving = "starting" /\ serving' = "entering"
    /\ listening' = (listening \/ frontend = "grpc")
    /\ UNCHANGED <<frontend, phase, server, deadline, frontendErr, connectionVars, callVars>>

ServeAccepts ==
    /\ serving = "entering" /\ server = "open" /\ serving' = "serving"
    /\ UNCHANGED <<frontend, phase, server, listening, deadline, frontendErr, connectionVars, callVars>>

\* Mutation: a server that has stopped is still reported as listening.
ServeKeepsListening ==
    /\ serving \in {"entering", "serving"} /\ server # "open"
    /\ serving' = "ended"
    /\ UNCHANGED <<frontend, phase, server, listening, deadline, frontendErr, connectionVars, callVars>>

\* Serve returns because the server was stopped, perhaps before it was called.
ServeReturns ==
    /\ serving \in {"entering", "serving"} /\ server # "open"
    /\ serving' = "ended" /\ listening' = FALSE
    /\ UNCHANGED <<frontend, phase, server, deadline, frontendErr, connectionVars, callVars>>

\* The listener fails and reportListenerError wakes the process.
ListenerFails ==
    /\ serving = "serving" /\ server = "open"
    /\ serving' = "ended" /\ listening' = FALSE
    /\ UNCHANGED <<frontend, phase, server, deadline, frontendErr, connectionVars, callVars>>

-----------------------------------------------------------------------------
(* boundedListener *)

Accept(n) ==
    /\ serving = "serving" /\ server = "open"
    /\ connection[n] = "none" /\ \A m \in Connections : m < n => connection[m] # "none"
    /\ IF permits < MaxPermits
       THEN connection' = [connection EXCEPT ![n] = "open"] /\ permits' = permits + 1
       ELSE connection' = [connection EXCEPT ![n] = "closed_again"] /\ UNCHANGED permits
    /\ UNCHANGED <<frontend, lifeVars, callVars>>

\* Close may be called again; the permit is given back once.
Close(n) ==
    /\ connection[n] \in {"open", "closed"}
    /\ connection' = [connection EXCEPT ![n] = IF @ = "open" THEN "closed" ELSE "closed_again"]
    /\ permits' = IF connection[n] = "open" THEN permits - 1 ELSE permits
    /\ UNCHANGED <<frontend, lifeVars, callVars>>

-----------------------------------------------------------------------------
(* Handlers *)

\* ServeHTTP and boundUnary: a slot or a refusal, never a queue. A connection
\* goes on carrying calls after the listener has failed, until Shutdown.
ArriveUnary(c) ==
    /\ handler[c] = "idle" /\ \A d \in Calls : d < c => handler[d] # "idle"
    /\ server = "open" /\ \E n \in Connections : connection[n] = "open"
    /\ IF requests < MaxConcurrent
       THEN handler' = [handler EXCEPT ![c] = "unary"] /\ requests' = requests + 1
       ELSE handler' = [handler EXCEPT ![c] = "done"] /\ UNCHANGED requests
    /\ UNCHANGED <<frontend, lifeVars, connectionVars, subscriptions, daGroup, unreleased>>

UnaryReturns(c) ==
    /\ handler[c] = "unary" /\ handler' = [handler EXCEPT ![c] = "done"]
    /\ requests' = requests - 1
    /\ UNCHANGED <<frontend, lifeVars, connectionVars, subscriptions, daGroup, unreleased>>

ArriveStream(c) ==
    /\ frontend = "grpc"
    /\ handler[c] = "idle" /\ \A d \in Calls : d < c => handler[d] # "idle"
    /\ server = "open" /\ \E n \in Connections : connection[n] = "open"
    /\ IF subscriptions < MaxStreams
       THEN handler' = [handler EXCEPT ![c] = "creating"] /\ subscriptions' = subscriptions + 1
       ELSE handler' = [handler EXCEPT ![c] = "done"] /\ UNCHANGED subscriptions
    /\ UNCHANGED <<frontend, lifeVars, connectionVars, requests, daGroup, unreleased>>

\* The request is refused or the runtime fails, or there is a DA group.
StreamCreates(c) ==
    /\ handler[c] = "creating"
    /\ \/ /\ handler' = [handler EXCEPT ![c] = "done"]
          /\ subscriptions' = subscriptions - 1 /\ UNCHANGED daGroup
       \/ /\ phase # "down"
          /\ handler' = [handler EXCEPT ![c] = "streaming"]
          /\ daGroup' = [daGroup EXCEPT ![c] = "live"] /\ UNCHANGED subscriptions
    /\ UNCHANGED <<frontend, lifeVars, connectionVars, requests, unreleased>>

\* The loop ends with the stream's context or with the group.
StreamEnds(c) ==
    /\ handler[c] = "streaming" /\ (server = "cut" \/ daGroup[c] # "live")
    /\ handler' = [handler EXCEPT ![c] = "releasing"]
    /\ UNCHANGED <<frontend, lifeVars, connectionVars, requests, subscriptions, daGroup, unreleased>>

\* The client leaves, or a response cannot be encoded or sent.
StreamBreaks(c) ==
    /\ handler[c] = "streaming"
    /\ handler' = [handler EXCEPT ![c] = "releasing"]
    /\ UNCHANGED <<frontend, lifeVars, connectionVars, requests, subscriptions, daGroup, unreleased>>

\* Mutation: the slot of a stream is given back before its group.
StreamReleasesLate(c) ==
    \/ /\ handler[c] = "releasing" /\ handler' = [handler EXCEPT ![c] = "done"]
       /\ subscriptions' = subscriptions - 1
       /\ UNCHANGED <<frontend, lifeVars, connectionVars, requests, daGroup, unreleased>>
    \/ /\ handler[c] = "done" /\ daGroup[c] = "live"
       /\ daGroup' = [daGroup EXCEPT ![c] = "released"]
       /\ UNCHANGED <<frontend, lifeVars, connectionVars, requests, subscriptions, handler, unreleased>>

\* The deferred Unsubscribe, whose error is ignored, comes before the deferred
\* release of the slot.
StreamReleases(c) ==
    /\ handler[c] = "releasing" /\ handler' = [handler EXCEPT ![c] = "done"]
    /\ \/ /\ daGroup' = [daGroup EXCEPT ![c] = IF @ = "live" THEN "released" ELSE @]
          /\ UNCHANGED unreleased
       \/ /\ daGroup[c] = "live" /\ unreleased' = unreleased \cup {c}
          /\ UNCHANGED daGroup
    /\ subscriptions' = subscriptions - 1
    /\ UNCHANGED <<frontend, lifeVars, connectionVars, requests>>

ConnectionToSourceLost ==
    /\ LiveGroups # {} /\ GroupsEnd
    /\ UNCHANGED <<frontend, lifeVars, connectionVars, handler, requests, subscriptions, unreleased>>

-----------------------------------------------------------------------------
(* Service.Shutdown: the frontend first, then the runtime *)

ShutdownBegins ==
    /\ phase \in {"new", "started"}
    /\ phase' = "stopping" /\ server' = "draining" /\ listening' = FALSE
    /\ UNCHANGED <<frontend, serving, deadline, frontendErr, connectionVars, callVars>>

DeadlinePasses ==
    /\ phase = "stopping" /\ ~deadline /\ deadline' = TRUE
    /\ UNCHANGED <<frontend, phase, serving, server, listening, frontendErr, connectionVars, callVars>>

FrontendDrained ==
    /\ phase = "stopping" /\ InHandler = {} /\ phase' = "stopped"
    /\ frontendErr' = (server = "cut")
    /\ UNCHANGED <<frontend, serving, server, listening, deadline, connectionVars, callVars>>

\* At the deadline HTTP leaves its handlers behind and says so; gRPC cancels
\* them and still waits.
GivesUp ==
    /\ phase = "stopping" /\ deadline /\ server = "draining"
    /\ IF frontend = "grpc"
       THEN server' = "cut" /\ UNCHANGED <<phase, frontendErr>>
       ELSE phase' = "stopped" /\ frontendErr' = TRUE /\ UNCHANGED server
    /\ UNCHANGED <<frontend, serving, listening, deadline, connectionVars, callVars>>

RuntimeStops ==
    /\ phase = "stopped" /\ phase' = "down" /\ GroupsEnd
    /\ UNCHANGED <<frontend, serving, server, listening, deadline, frontendErr, connectionVars,
                   handler, requests, subscriptions, unreleased>>

-----------------------------------------------------------------------------
Serving == ServeBegins \/ ServeAccepts \/ ServeReturns
Handling(c) == UnaryReturns(c) \/ StreamCreates(c) \/ StreamEnds(c) \/ StreamReleases(c)
Stopping == DeadlinePasses \/ FrontendDrained \/ GivesUp \/ RuntimeStops

ServiceNext ==
    \/ Start \/ Serving \/ ListenerFails
    \/ \E n \in Connections : Accept(n) \/ Close(n)
    \/ \E c \in Calls : ArriveUnary(c) \/ ArriveStream(c) \/ Handling(c) \/ StreamBreaks(c)
    \/ ConnectionToSourceLost \/ ShutdownBegins \/ Stopping

ServiceSpec == ServiceInit /\ [][ServiceNext]_serviceVars

\* Goroutines run, handlers return from the runtime within the request
\* deadline and honour cancellation, and Shutdown's context has a deadline.
ServiceFairness ==
    /\ WF_serviceVars(Serving) /\ WF_serviceVars(Stopping)
    /\ \A c \in Calls : WF_serviceVars(Handling(c))

-----------------------------------------------------------------------------
\* The admission bounds hold through every way a call or a connection can end:
\* slots and permits in use are those of the calls and connections there are,
\* and the groups of gRPC streams, failed releases aside, never outnumber the
\* stream slots.
AdmissionBounded ==
    /\ requests = Cardinality({c \in Calls : handler[c] = "unary"}) /\ requests <= MaxConcurrent
    /\ subscriptions = Cardinality(InHandler) - requests /\ subscriptions <= MaxStreams
    /\ permits = Cardinality({n \in Connections : connection[n] = "open"}) /\ permits <= MaxPermits
    /\ Cardinality(LiveGroups \ unreleased) <= MaxStreams

\* The runtime is shut down under no call of a client, unless an HTTP Shutdown
\* ran out of time and reports that.
RuntimeStopsLast ==
    phase \in {"stopped", "down"} /\ InHandler # {} => frontend = "http" /\ frontendErr

\* Shutdown comes to an end with streams open, and the frontend is not left
\* reported as listening, even when it overtakes the goroutine that serves.
ShutdownCompletes ==
    /\ phase = "stopping" ~> phase = "down"
    /\ phase = "down" ~> [](~listening)

\* The gRPC and HTTP frontends admit within their limits and are gone before
\* the runtime they call is.
ServiceSound == AdmissionBounded /\ RuntimeStopsLast
=============================================================================
