----------------------------- MODULE UAListener -----------------------------
(***************************************************************************)
(* The life of the OPC UA listener inside the application: the accept loop *)
(* over the bounded listener, one goroutine per connection, the goroutines *)
(* that hold Publish requests, Close and Shutdown racing all of them, the  *)
(* housekeeping tick, and the order in which the service takes its parts   *)
(* down (internal/opcua/listener.go, internal/app/service.go).             *)
(***************************************************************************)
EXTENDS Naturals, FiniteSets

CONSTANTS
    Conns,         \* TCP connections, each opened at most once
    NoConn,        \* "the accept loop has no connection in hand"
    MaxPermits,    \* the ceiling of boundedListener
    MaxSlots       \* ListenerConfig.MaxConnections

ASSUME ListenerAssumption ==
    /\ NoConn \notin Conns
    /\ MaxPermits \in Nat \ {0}
    /\ MaxSlots \in Nat \ {0}

VARIABLES
    socket,        \* whether the net.Listener is open
    loop, hand,    \* the goroutine running Serve, and the connection it holds
    registered,    \* l.listener # nil
    closed, listening, drained,    \* fields of Listener
    permits,       \* number of permits taken from boundedListener
    slots,         \* number of values in l.slots
    tracked,       \* l.conns
    active,        \* the counter of the WaitGroup l.active
    conn,          \* where each connection's goroutine is
    shut,          \* connections whose Close was called
    holding,       \* connections with a held Publish in a goroutine of its own
    watch,         \* the housekeeping goroutine
    service,       \* progress of Service.Shutdown
    toClose,       \* connections Close has still to close
    failure        \* an Accept error on its way to Service.Errors

loopVars  == <<loop, hand>>
fieldVars == <<registered, closed, listening, drained>>
boundVars == <<permits, slots, tracked>>
connVars  == <<conn, shut>>
serviceVars == <<watch, service, toClose>>
listenerVars == <<socket, loopVars, fieldVars, boundVars, active, connVars, holding,
          serviceVars, failure>>

LoopPCs == {"unscheduled", "registered", "accepting", "accepted", "slotted", "tracked",
            "returning", "settled", "stopped"}
ConnPCs == {"new", "refused", "accepted", "serving", "finished", "untracked", "released",
            "gone"}
ServicePCs == {"up", "stopping", "closing", "dropping", "closed", "terminated", "waiting",
               "returned", "down"}

\* Start has opened the socket and started Serve and the housekeeping tick.
ListenerInit ==
    /\ socket = TRUE
    /\ loop = "unscheduled" /\ hand = NoConn
    /\ registered = FALSE /\ closed = FALSE /\ listening = FALSE /\ drained = FALSE
    /\ permits = 0 /\ slots = 0 /\ tracked = {}
    /\ active = 0
    /\ conn = [c \in Conns |-> "new"] /\ shut = {}
    /\ holding = {}
    /\ watch = "idle" /\ service = "up" /\ toClose = {}
    /\ failure = "none"

-----------------------------------------------------------------------------
(* boundedConnection.Close *)

\* Close is called by whoever is done with the connection; the permit is given
\* back once.
Closing(c) ==
    /\ shut' = shut \cup {c}
    /\ permits' = IF c \in shut THEN permits ELSE permits - 1

-----------------------------------------------------------------------------
(* Serve *)

\* A Serve that runs after Close returns at once and touches nothing.
ServeBegins ==
    /\ loop = "unscheduled"
    /\ IF closed
       THEN loop' = "stopped" /\ UNCHANGED registered
       ELSE loop' = "registered" /\ registered' = TRUE
    /\ UNCHANGED <<socket, hand, closed, listening, drained, boundVars, active, connVars,
                   holding, serviceVars, failure>>

\* listening.Store(true), after the lock has been released.
ServeListens ==
    /\ loop = "registered"
    /\ loop' = "accepting"
    /\ listening' = TRUE
    /\ UNCHANGED <<socket, hand, registered, closed, drained, boundVars, active, connVars,
                   holding, serviceVars, failure>>

\* boundedListener.Accept: a connection beyond the ceiling is closed.
Accept(c) ==
    /\ loop = "accepting"
    /\ socket
    /\ conn[c] = "new"
    /\ IF permits >= MaxPermits
       THEN /\ conn' = [conn EXCEPT ![c] = "refused"]
            /\ UNCHANGED <<loopVars, permits>>
       ELSE /\ conn' = [conn EXCEPT ![c] = "accepted"]
            /\ permits' = permits + 1
            /\ loop' = "accepted"
            /\ hand' = c
    /\ UNCHANGED <<socket, fieldVars, slots, tracked, active, shut, holding, serviceVars,
                   failure>>

\* The socket was closed, or Accept failed for a reason of its own.
AcceptReturns ==
    /\ loop = "accepting"
    /\ \/ ~socket /\ UNCHANGED failure
       \/ socket /\ failure' = IF closed THEN failure ELSE "pending"
    /\ loop' = "returning"
    /\ UNCHANGED <<socket, hand, fieldVars, boundVars, active, connVars, holding,
                   serviceVars>>

TakeSlot ==
    /\ loop = "accepted"
    /\ IF slots >= MaxSlots
       THEN /\ Closing(hand)
            /\ conn' = [conn EXCEPT ![hand] = "refused"]
            /\ loop' = "accepting"
            /\ hand' = NoConn
            /\ UNCHANGED slots
       ELSE /\ slots' = slots + 1
            /\ loop' = "slotted"
            /\ UNCHANGED <<hand, permits, connVars>>
    /\ UNCHANGED <<socket, fieldVars, tracked, active, holding, serviceVars, failure>>

\* Mutation: track does not look at closed.
TrackAlways ==
    /\ loop = "slotted"
    /\ tracked' = tracked \cup {hand}
    /\ loop' = "tracked"
    /\ UNCHANGED <<socket, hand, fieldVars, permits, slots, active, connVars, holding,
                   serviceVars, failure>>

Track ==
    /\ loop = "slotted"
    /\ IF closed
       THEN /\ Closing(hand)
            /\ conn' = [conn EXCEPT ![hand] = "refused"]
            /\ slots' = slots - 1
            /\ loop' = "accepting"
            /\ hand' = NoConn
            /\ UNCHANGED tracked
       ELSE /\ tracked' = tracked \cup {hand}
            /\ loop' = "tracked"
            /\ UNCHANGED <<hand, permits, slots, connVars>>
    /\ UNCHANGED <<socket, fieldVars, active, holding, serviceVars, failure>>

Spawn ==
    /\ loop = "tracked"
    /\ active' = active + 1
    /\ conn' = [conn EXCEPT ![hand] = "serving"]
    /\ loop' = "accepting"
    /\ hand' = NoConn
    /\ UNCHANGED <<socket, fieldVars, boundVars, shut, holding, serviceVars, failure>>

\* The deferred function of Serve: active.Wait, then listening.Store(false).
ServeSettles ==
    /\ loop = "returning"
    /\ active = 0
    /\ loop' = "settled"
    /\ listening' = FALSE
    /\ UNCHANGED <<socket, hand, registered, closed, drained, boundVars, active, connVars,
                   holding, serviceVars, failure>>

\* drained is closed and Serve returns; its error goes to Service.Errors.
ServeReturns ==
    /\ loop = "settled"
    /\ loop' = "stopped"
    /\ drained' = TRUE
    /\ failure' = IF failure = "pending" THEN "reported" ELSE failure
    /\ UNCHANGED <<socket, hand, registered, closed, listening, boundVars, active, connVars,
                   holding, serviceVars>>

-----------------------------------------------------------------------------
(* Connections *)

\* handlePublish starts a goroutine (one at a time per connection here).
Hold(c) ==
    /\ conn[c] = "serving"
    /\ c \notin holding
    /\ active' = active + 1
    /\ holding' = holding \cup {c}
    /\ UNCHANGED <<socket, loopVars, fieldVars, boundVars, connVars, serviceVars, failure>>

\* The Publish is answered, or its connection's done channel is closed.
HoldEnds(c) ==
    /\ c \in holding
    /\ holding' = holding \ {c}
    /\ active' = active - 1
    /\ UNCHANGED <<socket, loopVars, fieldVars, boundVars, connVars, serviceVars, failure>>

\* serveConnection returns: the client left, timed out or broke the protocol, or
\* Close closed the connection under it. done is closed.
ServeConnectionReturns(c) ==
    /\ conn[c] = "serving"
    /\ conn' = [conn EXCEPT ![c] = "finished"]
    /\ UNCHANGED <<socket, loopVars, fieldVars, boundVars, active, shut, holding,
                   serviceVars, failure>>

Untrack(c) ==
    /\ conn[c] = "finished"
    /\ tracked' = tracked \ {c}
    /\ Closing(c)
    /\ conn' = [conn EXCEPT ![c] = "untracked"]
    /\ UNCHANGED <<socket, loopVars, fieldVars, slots, active, holding, serviceVars,
                   failure>>

GiveSlotBack(c) ==
    /\ conn[c] = "untracked"
    /\ slots' = slots - 1
    /\ conn' = [conn EXCEPT ![c] = "released"]
    /\ UNCHANGED <<socket, loopVars, fieldVars, permits, tracked, active, shut, holding,
                   serviceVars, failure>>

ConnectionDone(c) ==
    /\ conn[c] = "released"
    /\ active' = active - 1
    /\ conn' = [conn EXCEPT ![c] = "gone"]
    /\ UNCHANGED <<socket, loopVars, fieldVars, boundVars, shut, holding, serviceVars,
                   failure>>

-----------------------------------------------------------------------------
(* The application: the housekeeping tick and Service.Shutdown *)

\* The tick calls InvalidateAddressSpace and ExpireStaleChannels.
Tick ==
    /\ watch \in {"idle", "working"}
    /\ watch' = IF watch = "idle" THEN "working" ELSE "idle"
    /\ UNCHANGED <<socket, loopVars, fieldVars, boundVars, active, connVars, holding,
                   service, toClose, failure>>

WatchStops ==
    /\ watch = "idle"
    /\ service = "stopping"
    /\ watch' = "stopped"
    /\ UNCHANGED <<socket, loopVars, fieldVars, boundVars, active, connVars, holding,
                   service, toClose, failure>>

\* stopAddressSpaceWatch closes the stop channel.
StopWatch ==
    /\ service = "up"
    /\ service' = "stopping"
    /\ UNCHANGED <<socket, loopVars, fieldVars, boundVars, active, connVars, holding,
                   watch, toClose, failure>>

\* ... and waits for the goroutine to have gone.
WatchAwaited ==
    /\ service = "stopping"
    /\ watch = "stopped"
    /\ service' = "closing"
    /\ UNCHANGED <<socket, loopVars, fieldVars, boundVars, active, connVars, holding,
                   watch, toClose, failure>>

\* Close, under the lock: what it will close is read here.
CloseMarks ==
    /\ service = "closing"
    /\ service' = "dropping"
    /\ closed' = TRUE
    /\ listening' = FALSE
    /\ toClose' = tracked
    /\ socket' = (socket /\ ~registered)
    /\ UNCHANGED <<loopVars, registered, drained, boundVars, active, connVars, holding,
                   watch, failure>>

CloseDrops(c) ==
    /\ service = "dropping"
    /\ c \in toClose
    /\ toClose' = toClose \ {c}
    /\ Closing(c)
    /\ UNCHANGED <<socket, loopVars, fieldVars, slots, tracked, active, conn, holding,
                   watch, service, failure>>

CloseReturns ==
    /\ service = "dropping"
    /\ toClose = {}
    /\ service' = "closed"
    /\ UNCHANGED <<socket, loopVars, fieldVars, boundVars, active, connVars, holding,
                   watch, toClose, failure>>

\* Shutdown goes on with TerminateAll of the sessions (UASession).
TerminateSessions ==
    /\ service = "closed"
    /\ service' = "terminated"
    /\ UNCHANGED <<socket, loopVars, fieldVars, boundVars, active, connVars, holding,
                   watch, toClose, failure>>

\* Mutation: only Serve raises the signal.
SkipDrainNever ==
    /\ service = "terminated"
    /\ service' = "waiting"
    /\ UNCHANGED <<socket, loopVars, fieldVars, boundVars, active, connVars, holding, watch,
                   toClose, failure>>

\* A listener that is not listening is taken for one that was never started.
SkipDrain ==
    /\ service = "terminated"
    /\ service' = "waiting"
    /\ drained' = (drained \/ ~listening)
    /\ UNCHANGED <<socket, loopVars, registered, closed, listening, boundVars, active,
                   connVars, holding, watch, toClose, failure>>

AwaitDrained ==
    /\ service = "waiting"
    /\ drained
    /\ service' = "returned"
    /\ UNCHANGED <<socket, loopVars, fieldVars, boundVars, active, connVars, holding,
                   watch, toClose, failure>>

\* Whatever the listener returned, the runtime is shut down after it.
RuntimeShutdown ==
    /\ service = "returned"
    /\ service' = "down"
    /\ UNCHANGED <<socket, loopVars, fieldVars, boundVars, active, connVars, holding,
                   watch, toClose, failure>>

\* The context of Shutdown expires first.
ShutdownTimesOut ==
    /\ service = "waiting"
    /\ service' = "down"
    /\ UNCHANGED <<socket, loopVars, fieldVars, boundVars, active, connVars, holding,
                   watch, toClose, failure>>

-----------------------------------------------------------------------------

LoopStep ==
    \/ ServeBegins \/ ServeListens \/ TakeSlot \/ Track \/ Spawn
    \/ ServeSettles \/ ServeReturns

ConnStep(c) == Untrack(c) \/ GiveSlotBack(c) \/ ConnectionDone(c)

ShutdownStep ==
    \/ WatchAwaited \/ CloseMarks \/ (\E c \in Conns : CloseDrops(c)) \/ CloseReturns
    \/ TerminateSessions \/ SkipDrain \/ AwaitDrained \/ RuntimeShutdown

ListenerNext ==
    \/ LoopStep \/ AcceptReturns
    \/ \E c \in Conns : Accept(c) \/ Hold(c) \/ HoldEnds(c) \/ ServeConnectionReturns(c)
                        \/ ConnStep(c)
    \/ Tick \/ StopWatch \/ WatchStops
    \/ ShutdownStep \/ ShutdownTimesOut

ListenerSpec == ListenerInit /\ [][ListenerNext]_listenerVars

\* Goroutines run; a read on a closed connection fails; a Publish whose
\* connection is done returns; an Accept on a closed socket returns. Clients are
\* free to stay.
ListenerFairness ==
    /\ WF_listenerVars(LoopStep)
    /\ WF_listenerVars(~socket /\ AcceptReturns)
    /\ WF_listenerVars(ShutdownStep)
    /\ WF_listenerVars(watch = "working" /\ Tick)
    /\ SF_listenerVars(WatchStops)
    /\ \A c \in Conns :
           /\ WF_listenerVars(c \in shut /\ ServeConnectionReturns(c))
           /\ WF_listenerVars(conn[c] # "serving" /\ HoldEnds(c))
           /\ WF_listenerVars(ConnStep(c))

FairListenerSpec == ListenerSpec /\ ListenerFairness

-----------------------------------------------------------------------------
(* Properties *)

\* Every variable keeps its type.
ListenerTypeOK ==
    /\ socket \in BOOLEAN
    /\ loop \in LoopPCs /\ hand \in Conns \cup {NoConn}
    /\ registered \in BOOLEAN /\ closed \in BOOLEAN
    /\ listening \in BOOLEAN /\ drained \in BOOLEAN
    /\ permits \in 0 .. MaxPermits /\ slots \in 0 .. MaxSlots
    /\ tracked \subseteq Conns /\ toClose \subseteq Conns
    /\ active \in Nat
    /\ conn \in [Conns -> ConnPCs] /\ shut \subseteq Conns /\ holding \subseteq Conns
    /\ watch \in {"idle", "working", "stopped"} /\ service \in ServicePCs
    /\ failure \in {"none", "pending", "reported"}

Slotted == {c \in Conns : conn[c] \in {"serving", "finished", "untracked"}}

\* The two connection bounds count what they bound: a permit for every accepted
\* connection that nobody closed, a slot for every connection between admission
\* and the end of its goroutine, although Close, untrack and a refusal may all
\* close the same connection; and neither exceeds its limit (ListenerTypeOK).
BoundsBalanced ==
    /\ ListenerTypeOK
    /\ permits = Cardinality({c \in Conns : conn[c] \notin {"new", "refused"}} \ shut)
    /\ slots = Cardinality(Slotted) + (IF loop \in {"slotted", "tracked"} THEN 1 ELSE 0)

\* Close "drops every live connection": one that the accept loop admits while
\* Close runs is either in the set Close drops or refused by track.
NoConnectionEscapesClose ==
    service \in {"closed", "terminated", "waiting", "returned", "down"}
        => tracked \subseteq shut

\* "everything an observer of the signal may check is settled before the signal
\* is raised": once Serve has passed its wait nothing it started is running, and
\* the WaitGroup is never added to again.
NothingRunsAfterServe ==
    loop \in {"settled", "stopped"}
        => /\ active = 0 /\ ~listening
           /\ holding = {}
           /\ \A c \in Conns : conn[c] \in {"new", "refused", "gone"}

\* The listener accounts for every connection: within its bounds while it
\* serves, dropped by Close, and gone once Serve has returned.
ConnectionsAccounted ==
    BoundsBalanced /\ NoConnectionEscapesClose /\ NothingRunsAfterServe

\* A listener that is closed comes to rest, whatever its clients do: connections
\* are dropped, held Publishes return and Serve ends.
ComesToRest == closed ~> loop = "stopped"

\* Shutdown returns without the help of its context's deadline: also when the
\* housekeeping tick is at work, and when Serve was never scheduled and so will
\* never raise the signal Shutdown waits for.
ShutdownReturns == service = "stopping" ~> service = "down"

\* Close and Shutdown come to an end, each without the clients' help.
ListenerStops == ComesToRest /\ ShutdownReturns

=============================================================================
