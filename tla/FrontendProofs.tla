--------------------------- MODULE FrontendProofs ---------------------------
(***************************************************************************)
(* Proofs about the frontends besides OPC UA, for any number of requests,  *)
(* DA groups, calls and connections: the groups and places of an MCP       *)
(* session, and the slots of the gRPC and HTTP service. And the scanner of *)
(* HTTP bodies, for bodies and numbers of any length.                      *)
(***************************************************************************)
EXTENDS MCPSession, NetworkService, JSONScan, SelectionTheorems, FiniteSetTheorems,
        SequenceTheorems, TLAPS

-----------------------------------------------------------------------------
(* The invariant of an MCP session *)

\* A request under way is at one of these stages, with its place in pending.
Underway == {"queued", "creating", "created", "found", "draining", "waiting", "drained",
             "empty", "releasing", "answering"}
Stages == Underway \cup {"unsent", "turned_away", "written", "done"}

\* A request names a group it was given or made.
MCPTypeOK ==
    /\ request \in [Ids -> [stage : Stages, tool : Tools, group : Groups \cup {NoGroup}]]
    /\ \A i \in Ids : request[i].tool \in {"next", "unsubscribe"} => request[i].group \in Groups
    /\ owned \subseteq Groups
    /\ source \in [Groups -> {"none", "live", "ended", "released"}]

\* What is under way has its place, and no more than MaxInflight have one.
PlacesHeld ==
    /\ IsFiniteSet(pending) /\ Cardinality(pending) <= MaxInflight
    /\ \A i \in Ids : request[i].stage \in Underway => i \in pending

\* Server.mu is held across the steps of one subscribe, and while it is there is
\* room in the table and the session is not closing.
LockHeld ==
    /\ \A i \in Ids : request[i].stage \in {"creating", "created"} =>
          /\ request[i].tool = "subscribe" /\ holder = i
          /\ run = "serving" /\ Cardinality(owned) < MaxOwned
    /\ \A i \in Ids : request[i].stage = "created" => request[i].group \in Groups
    /\ \A i \in Ids : request[i].stage = "releasing" =>
          /\ request[i].tool = "unsubscribe" /\ source[request[i].group] = "released"
    /\ closed <=> run # "serving"

\* The groups a subscribe has made and not yet handed over.
Made == {request[i].group : i \in {j \in Ids : Stands(j, "subscribe", "created")}}

\* Every live group has somebody who will release it, at each stage of the run.
OwnersKnown ==
    /\ IsFiniteSet(owned) /\ Cardinality(owned) <= MaxOwned
    /\ IsFiniteSet(Live \ abandoned) /\ Cardinality(Live \ abandoned) <= MaxOwned
    /\ run \in {"serving", "releasing", "returned", "stopped"}
    /\ run = "serving" => Live \subseteq owned \cup Made \cup abandoned
    /\ run = "releasing" => failed \/ Live \subseteq toRelease \cup abandoned
    /\ run = "returned" => failed \/ Live \subseteq abandoned

MCPInv == MCPTypeOK /\ PlacesHeld /\ LockHeld /\ OwnersKnown

-----------------------------------------------------------------------------
(* The invariant of the gRPC and HTTP service *)

Unary == {c \in Calls : handler[c] = "unary"}
Streams == {c \in Calls : handler[c] \in {"creating", "streaming", "releasing"}}
OpenConnections == {n \in Connections : connection[n] = "open"}

ServiceTypeOK ==
    /\ frontend \in {"http", "grpc"}
    /\ phase \in {"new", "started", "failed", "stopping", "stopped", "down"}
    /\ connection \in [Connections -> {"none", "open", "closed", "closed_again"}]
    /\ handler \in [Calls -> {"idle", "unary", "creating", "streaming", "releasing", "done"}]
    /\ daGroup \in [Calls -> {"none", "live", "ended", "released"}]

\* The slots and permits in use are those of the calls and connections there are.
SlotsTaken ==
    /\ IsFiniteSet(Unary) /\ requests = Cardinality(Unary) /\ requests <= MaxConcurrent
    /\ IsFiniteSet(Streams) /\ subscriptions = Cardinality(Streams)
    /\ subscriptions <= MaxStreams
    /\ IsFiniteSet(OpenConnections) /\ permits = Cardinality(OpenConnections)
    /\ permits <= MaxPermits

\* A group is live while its stream is, unless its release failed.
GroupsOfStreams ==
    \A c \in Calls : daGroup[c] = "live" =>
        handler[c] \in {"streaming", "releasing"} \/ c \in unreleased

\* Once the frontend begins to stop nothing more arrives, and what is left when
\* the runtime is shut down is what HTTP gave up and reported.
StoppedInOrder ==
    /\ phase \in {"stopping", "stopped", "down"} => server # "open"
    /\ phase \in {"stopped", "down"} => InHandler = {} \/ (frontend = "http" /\ frontendErr)

ServiceInv == ServiceTypeOK /\ SlotsTaken /\ GroupsOfStreams /\ StoppedInOrder

-----------------------------------------------------------------------------
(* Slots *)

\* One more takes a slot, when there is one.
LEMMA SlotTaken ==
    ASSUME NEW S, IsFiniteSet(S), NEW x, x \notin S, NEW n \in Nat, NEW T, T = S \cup {x},
           Cardinality(S) < n
    PROVE  IsFiniteSet(T) /\ Cardinality(T) = Cardinality(S) + 1 /\ Cardinality(T) <= n
<1>1. IsFiniteSet(T) /\ Cardinality(T) = Cardinality(S) + 1
    BY FS_AddElement
<1>2. Cardinality(S) \in Nat
    BY FS_CardinalityType
<1> QED BY <1>1, <1>2

\* One less gives a slot back.
LEMMA SlotGiven ==
    ASSUME NEW S, IsFiniteSet(S), NEW x, x \in S, NEW n \in Nat, NEW T, T = S \ {x},
           Cardinality(S) <= n
    PROVE  IsFiniteSet(T) /\ Cardinality(T) = Cardinality(S) - 1 /\ Cardinality(T) <= n
<1>1. IsFiniteSet(T) /\ Cardinality(T) = Cardinality(S) - 1
    BY FS_RemoveElement
<1>2. Cardinality(S) \in Nat
    BY FS_CardinalityType
<1> QED BY <1>1, <1>2

\* What is left of a finite set is no larger.
LEMMA Fewer ==
    ASSUME NEW S, IsFiniteSet(S), NEW T \in SUBSET S, NEW n \in Nat, Cardinality(S) <= n
    PROVE  IsFiniteSet(T) /\ Cardinality(T) <= n
<1>1. IsFiniteSet(T) /\ Cardinality(T) <= Cardinality(S)
    BY FS_Subset
<1>2. Cardinality(S) \in Nat /\ Cardinality(T) \in Nat
    BY <1>1, FS_CardinalityType
<1> QED BY <1>1, <1>2

-----------------------------------------------------------------------------
(* The service keeps its invariant *)

\* At first nothing is admitted.
LEMMA ServiceInvInit == ServiceInit => ServiceInv
<1> SUFFICES ASSUME ServiceInit PROVE ServiceInv
    OBVIOUS
<1> USE DEF ServiceInit
<1>1. Unary = {} /\ Streams = {} /\ OpenConnections = {} /\ InHandler = {}
    BY DEF Unary, Streams, OpenConnections, InHandler
<1>2. IsFiniteSet({}) /\ Cardinality({}) = 0
    BY FS_EmptySet
<1>3. SlotsTaken
    BY <1>1, <1>2, ServiceLimits DEF SlotsTaken
<1> QED BY <1>3 DEF ServiceInv, ServiceTypeOK, GroupsOfStreams, StoppedInOrder

\* Start, Shutdown and the goroutine that serves leave what is admitted alone.
LEMMA LifeKeepsInv ==
    ASSUME ServiceInv,
           Start \/ Serving \/ ListenerFails \/ ShutdownBegins \/ Stopping
    PROVE  ServiceInv'
<1> USE DEF ServiceInv, lifeVars, connectionVars, callVars
<1>1. UNCHANGED <<frontend, connection, permits, handler, requests, subscriptions, unreleased>>
    BY DEF Start, Serving, ServeBegins, ServeAccepts, ServeReturns, ListenerFails,
       ShutdownBegins, Stopping, DeadlinePasses, FrontendDrained, GivesUp, RuntimeStops
<1>2. UNCHANGED daGroup \/ GroupsEnd
    BY DEF Start, Serving, ServeBegins, ServeAccepts, ServeReturns, ListenerFails,
       ShutdownBegins, Stopping, DeadlinePasses, FrontendDrained, GivesUp, RuntimeStops
<1>3. SlotsTaken'
    BY <1>1 DEF SlotsTaken, Unary, Streams, OpenConnections
<1>4. GroupsOfStreams' /\ daGroup' \in [Calls -> {"none", "live", "ended", "released"}]
    BY <1>1, <1>2 DEF GroupsOfStreams, GroupsEnd, ServiceTypeOK
<1>5. phase' \in {"new", "started", "failed", "stopping", "stopped", "down"}
    BY DEF ServiceTypeOK, Start, Serving, ServeBegins, ServeAccepts, ServeReturns,
       ListenerFails, ShutdownBegins, Stopping, DeadlinePasses, FrontendDrained, GivesUp,
       RuntimeStops
<1>6. ServiceTypeOK'
    BY <1>1, <1>4, <1>5 DEF ServiceTypeOK
<1>7. InHandler' = InHandler
    BY <1>1 DEF InHandler
<1>8. StoppedInOrder'
    BY <1>1, <1>7 DEF ServiceTypeOK, StoppedInOrder, Start, Serving, ServeBegins, ServeAccepts,
       ServeReturns, ListenerFails, ShutdownBegins, Stopping, DeadlinePasses, FrontendDrained,
       GivesUp, RuntimeStops
<1> QED BY <1>3, <1>4, <1>6, <1>8

\* A connection takes a permit, or none, and gives it back once.
LEMMA ConnectionsKeepInv ==
    ASSUME ServiceInv, NEW n \in Connections, Accept(n) \/ Close(n)
    PROVE  ServiceInv'
<1> USE DEF ServiceInv, lifeVars, callVars
<1>1. /\ UNCHANGED <<frontend, phase, server, frontendErr, handler, requests, subscriptions,
                     daGroup, unreleased>>
      /\ Unary' = Unary /\ Streams' = Streams /\ InHandler' = InHandler
    BY DEF Accept, Close, Unary, Streams, InHandler
<1>2. /\ connection' \in [Connections -> {"none", "open", "closed", "closed_again"}]
      /\ IsFiniteSet(OpenConnections') /\ permits' = Cardinality(OpenConnections')
      /\ permits' <= MaxPermits
    <2>1. /\ IsFiniteSet(OpenConnections) /\ permits = Cardinality(OpenConnections)
          /\ permits <= MaxPermits /\ permits \in Nat /\ MaxPermits \in Nat
        BY ServiceLimits, FS_CardinalityType DEF SlotsTaken
    <2>2. CASE connection[n] = "none" /\ permits < MaxPermits /\ permits' = permits + 1
               /\ connection' = [connection EXCEPT ![n] = "open"]
        <3>1. n \notin OpenConnections /\ OpenConnections' = OpenConnections \cup {n}
            BY <2>2 DEF OpenConnections, ServiceTypeOK
        <3> QED BY <2>1, <2>2, <3>1, SlotTaken DEF ServiceTypeOK
    <2>3. CASE connection[n] = "open" /\ permits' = permits - 1
               /\ connection' = [connection EXCEPT ![n] = "closed"]
        <3>1. n \in OpenConnections /\ OpenConnections' = OpenConnections \ {n}
            BY <2>3 DEF OpenConnections, ServiceTypeOK
        <3> QED BY <2>1, <2>3, <3>1, SlotGiven DEF ServiceTypeOK
    <2>4. CASE connection[n] # "open" /\ permits' = permits
               /\ connection' = [connection EXCEPT ![n] = "closed_again"]
        <3>1. OpenConnections' = OpenConnections
            BY <2>4 DEF OpenConnections, ServiceTypeOK
        <3> QED BY <2>1, <2>4, <3>1 DEF ServiceTypeOK
    <2> QED BY <2>1, <2>2, <2>3, <2>4 DEF Accept, Close
<1>3. SlotsTaken'
    BY <1>1, <1>2 DEF SlotsTaken
<1> QED BY <1>1, <1>2, <1>3 DEF ServiceTypeOK, GroupsOfStreams, StoppedInOrder

\* Handlers take a slot or are refused, and give it back once, after the group.
LEMMA HandlersKeepInv ==
    ASSUME ServiceInv, NEW c \in Calls,
           ArriveUnary(c) \/ ArriveStream(c) \/ Handling(c) \/ StreamBreaks(c)
    PROVE  ServiceInv'
<1> USE DEF ServiceInv, lifeVars, connectionVars
<1>1. /\ UNCHANGED <<frontend, phase, server, frontendErr, connection, permits>>
      /\ OpenConnections' = OpenConnections
    BY DEF ArriveUnary, ArriveStream, Handling, UnaryReturns, StreamCreates, StreamEnds,
       StreamReleases, StreamBreaks, OpenConnections
<1>2. /\ IsFiniteSet(Unary) /\ requests = Cardinality(Unary) /\ requests <= MaxConcurrent
      /\ requests \in Nat /\ MaxConcurrent \in Nat
      /\ IsFiniteSet(Streams) /\ subscriptions = Cardinality(Streams)
      /\ subscriptions <= MaxStreams /\ subscriptions \in Nat /\ MaxStreams \in Nat
    BY ServiceLimits, FS_CardinalityType DEF SlotsTaken
<1>3. ASSUME NEW h \in {"idle", "unary", "creating", "streaming", "releasing", "done"},
             handler' = [handler EXCEPT ![c] = h]
      PROVE  /\ handler' \in [Calls -> {"idle", "unary", "creating", "streaming", "releasing",
                                        "done"}]
             /\ handler'[c] = h /\ \A d \in Calls : d # c => handler'[d] = handler[d]
             /\ Unary' = IF h = "unary" THEN Unary \cup {c} ELSE Unary \ {c}
             /\ Streams' = IF h \in {"creating", "streaming", "releasing"}
                           THEN Streams \cup {c} ELSE Streams \ {c}
             /\ InHandler' = IF h \in {"idle", "done"} THEN InHandler \ {c}
                             ELSE InHandler \cup {c}
    BY <1>3 DEF ServiceTypeOK, Unary, Streams, InHandler
<1>4. ASSUME handler' = [handler EXCEPT ![c] = "done"], handler[c] = "idle",
             UNCHANGED <<requests, subscriptions, daGroup, unreleased>>
      PROVE  ServiceInv'
    <2>1. Unary' = Unary /\ Streams' = Streams /\ InHandler' \subseteq InHandler
        BY <1>3, <1>4 DEF Unary, Streams
    <2> QED BY <1>1, <1>3, <1>4, <2>1
            DEF ServiceTypeOK, SlotsTaken, GroupsOfStreams, StoppedInOrder
<1>5. CASE ArriveUnary(c)
    <2>1. CASE requests < MaxConcurrent
        <3>1. /\ handler[c] = "idle" /\ handler' = [handler EXCEPT ![c] = "unary"]
              /\ requests' = requests + 1 /\ UNCHANGED <<subscriptions, daGroup, unreleased>>
              /\ server = "open"
            BY <1>5, <2>1 DEF ArriveUnary
        <3>2. Unary' = Unary \cup {c} /\ c \notin Unary /\ Streams' = Streams
            BY <1>3, <3>1 DEF Unary, Streams
        <3>3. /\ IsFiniteSet(Unary') /\ Cardinality(Unary') = Cardinality(Unary) + 1
              /\ Cardinality(Unary') <= MaxConcurrent
            BY <1>2, <2>1, <3>2, SlotTaken
        <3>4. SlotsTaken'
            BY <1>1, <1>2, <3>1, <3>2, <3>3 DEF SlotsTaken
        <3> QED BY <1>1, <1>3, <3>1, <3>4 DEF ServiceTypeOK, GroupsOfStreams, StoppedInOrder
    <2>2. CASE ~(requests < MaxConcurrent)
        BY <1>4, <1>5, <2>2 DEF ArriveUnary
    <2> QED BY <2>1, <2>2
<1>6. CASE UnaryReturns(c)
    <2>1. /\ handler[c] = "unary" /\ handler' = [handler EXCEPT ![c] = "done"]
          /\ requests' = requests - 1 /\ UNCHANGED <<subscriptions, daGroup, unreleased>>
        BY <1>6 DEF UnaryReturns
    <2>2. /\ Unary' = Unary \ {c} /\ c \in Unary /\ Streams' = Streams
          /\ InHandler' \subseteq InHandler
        BY <1>3, <2>1 DEF Unary, Streams
    <2>3. /\ IsFiniteSet(Unary') /\ Cardinality(Unary') = Cardinality(Unary) - 1
          /\ Cardinality(Unary') <= MaxConcurrent
        BY <1>2, <2>2, SlotGiven
    <2>4. SlotsTaken'
        BY <1>1, <1>2, <2>1, <2>2, <2>3 DEF SlotsTaken
    <2> QED BY <1>1, <1>3, <2>1, <2>2, <2>4 DEF ServiceTypeOK, GroupsOfStreams, StoppedInOrder
<1>7. CASE ArriveStream(c)
    <2>1. CASE subscriptions < MaxStreams
        <3>1. /\ handler[c] = "idle" /\ handler' = [handler EXCEPT ![c] = "creating"]
              /\ subscriptions' = subscriptions + 1 /\ UNCHANGED <<requests, daGroup, unreleased>>
              /\ server = "open"
            BY <1>7, <2>1 DEF ArriveStream
        <3>2. Streams' = Streams \cup {c} /\ c \notin Streams /\ Unary' = Unary
            BY <1>3, <3>1 DEF Unary, Streams
        <3>3. /\ IsFiniteSet(Streams') /\ Cardinality(Streams') = Cardinality(Streams) + 1
              /\ Cardinality(Streams') <= MaxStreams
            BY <1>2, <2>1, <3>2, SlotTaken
        <3>4. SlotsTaken'
            BY <1>1, <1>2, <3>1, <3>2, <3>3 DEF SlotsTaken
        <3> QED BY <1>1, <1>3, <3>1, <3>4 DEF ServiceTypeOK, GroupsOfStreams, StoppedInOrder
    <2>2. CASE ~(subscriptions < MaxStreams)
        BY <1>4, <1>7, <2>2 DEF ArriveStream
    <2> QED BY <2>1, <2>2
\* A stream that ends its handler gives its slot back.
<1>8. ASSUME handler[c] \in {"creating", "releasing"},
             handler' = [handler EXCEPT ![c] = "done"],
             subscriptions' = subscriptions - 1, UNCHANGED requests,
             daGroup' \in [Calls -> {"none", "live", "ended", "released"}],
             \A d \in Calls : daGroup'[d] = "live" => daGroup[d] = "live",
             daGroup'[c] = "live" => c \in unreleased', unreleased \subseteq unreleased'
      PROVE  ServiceInv'
    <2>1. /\ Streams' = Streams \ {c} /\ c \in Streams /\ Unary' = Unary
          /\ InHandler' \subseteq InHandler
        BY <1>3, <1>8 DEF Unary, Streams
    <2>2. /\ IsFiniteSet(Streams') /\ Cardinality(Streams') = Cardinality(Streams) - 1
          /\ Cardinality(Streams') <= MaxStreams
        BY <1>2, <2>1, SlotGiven
    <2>3. SlotsTaken'
        BY <1>1, <1>2, <1>8, <2>1, <2>2 DEF SlotsTaken
    <2>4. GroupsOfStreams'
        BY <1>3, <1>8 DEF GroupsOfStreams
    <2> QED BY <1>1, <1>3, <1>8, <2>1, <2>3, <2>4 DEF ServiceTypeOK, StoppedInOrder
\* A stream that keeps its handler keeps its slot.
<1>9. ASSUME handler[c] \in {"creating", "streaming"},
             NEW h \in {"streaming", "releasing"}, handler' = [handler EXCEPT ![c] = h],
             UNCHANGED <<subscriptions, requests, unreleased>>,
             daGroup' = daGroup \/ daGroup' = [daGroup EXCEPT ![c] = "live"]
      PROVE  ServiceInv'
    <2>1. Streams' = Streams /\ Unary' = Unary /\ InHandler' = InHandler
        BY <1>3, <1>9 DEF Unary, Streams, InHandler
    <2>2. GroupsOfStreams' /\ daGroup' \in [Calls -> {"none", "live", "ended", "released"}]
        BY <1>3, <1>9 DEF GroupsOfStreams, ServiceTypeOK
    <2> QED BY <1>1, <1>3, <1>9, <2>1, <2>2 DEF ServiceTypeOK, SlotsTaken, StoppedInOrder
<1>10. CASE StreamCreates(c)
    BY <1>8, <1>9, <1>10 DEF StreamCreates, GroupsOfStreams, ServiceTypeOK
<1>11. CASE StreamEnds(c) \/ StreamBreaks(c)
    BY <1>9, <1>11 DEF StreamEnds, StreamBreaks
<1>12. CASE StreamReleases(c)
    BY <1>8, <1>12 DEF StreamReleases, ServiceTypeOK
<1> QED BY <1>5, <1>6, <1>7, <1>10, <1>11, <1>12 DEF Handling

\* The invariant holds whatever clients, the source and Shutdown do.
LEMMA ServiceInvAlways == ServiceSpec => []ServiceInv
<1>1. ServiceInv /\ [ServiceNext]_serviceVars => ServiceInv'
    <2> SUFFICES ASSUME ServiceInv, [ServiceNext]_serviceVars PROVE ServiceInv'
        OBVIOUS
    <2>1. CASE ConnectionToSourceLost
        <3>1. /\ UNCHANGED <<frontend, phase, server, frontendErr, connection, permits, handler,
                             requests, subscriptions, unreleased>>
              /\ GroupsEnd
            BY <2>1 DEF ConnectionToSourceLost, lifeVars, connectionVars
        <3>2. SlotsTaken' /\ InHandler' = InHandler
            BY <3>1 DEF ServiceInv, SlotsTaken, Unary, Streams, OpenConnections, InHandler
        <3>3. GroupsOfStreams' /\ daGroup' \in [Calls -> {"none", "live", "ended", "released"}]
            BY <3>1 DEF ServiceInv, GroupsOfStreams, GroupsEnd, ServiceTypeOK
        <3> QED BY <3>1, <3>2, <3>3 DEF ServiceInv, ServiceTypeOK, StoppedInOrder
    <2>2. CASE UNCHANGED serviceVars
        <3>1. UNCHANGED <<frontend, phase, server, frontendErr, connection, permits, handler,
                          requests, subscriptions, daGroup, unreleased>>
            BY <2>2 DEF serviceVars, lifeVars, connectionVars, callVars
        <3>2. SlotsTaken' /\ InHandler' = InHandler
            BY <3>1 DEF ServiceInv, SlotsTaken, Unary, Streams, OpenConnections, InHandler
        <3> QED BY <3>1, <3>2 DEF ServiceInv, ServiceTypeOK, GroupsOfStreams, StoppedInOrder
    <2> QED BY <2>1, <2>2, LifeKeepsInv, ConnectionsKeepInv, HandlersKeepInv DEF ServiceNext
<1> QED BY <1>1, ServiceInvInit, PTL DEF ServiceSpec

\* The gRPC and HTTP frontends admit within their limits: slots and permits in
\* use are those of the calls and connections there are, live groups never
\* outnumber the stream slots, failed releases aside; and the runtime is shut
\* down under no call unless HTTP ran out of time and said so.
THEOREM ServiceSoundAlways == ServiceSpec => []ServiceSound
<1>1. ServiceInv => ServiceSound
    <2> SUFFICES ASSUME ServiceInv PROVE ServiceSound
        OBVIOUS
    <2> USE DEF ServiceInv
    <2>1. /\ IsFiniteSet(Unary) /\ requests = Cardinality(Unary) /\ requests \in Nat
          /\ IsFiniteSet(Streams) /\ subscriptions = Cardinality(Streams) /\ subscriptions \in Nat
          /\ subscriptions <= MaxStreams /\ MaxStreams \in Nat
        BY ServiceLimits, FS_CardinalityType DEF SlotsTaken
    <2>2. InHandler = Unary \cup Streams /\ Unary \cap Streams = {}
        BY DEF InHandler, Unary, Streams, ServiceTypeOK
    <2>3. Cardinality(Unary \cup Streams) =
            Cardinality(Unary) + Cardinality(Streams) - Cardinality(Unary \cap Streams)
        BY <2>1, FS_Union, Zenon
    <2>4. Cardinality(Unary \cap Streams) = 0
        BY <2>2, FS_EmptySet, Zenon
    <2>5. Cardinality(InHandler) = requests + subscriptions
        BY <2>1, <2>2, <2>3, <2>4
    <2>6. Cardinality(LiveGroups \ unreleased) <= MaxStreams
        <3>1. LiveGroups \ unreleased \in SUBSET Streams
            BY DEF LiveGroups, Streams, GroupsOfStreams
        <3> QED BY <2>1, <3>1, Fewer
    <2>7. AdmissionBounded
        BY <2>1, <2>5, <2>6 DEF AdmissionBounded, SlotsTaken, Unary, OpenConnections
    <2>8. RuntimeStopsLast
        BY DEF RuntimeStopsLast, StoppedInOrder
    <2> QED BY <2>7, <2>8 DEF ServiceSound
<1> QED BY <1>1, ServiceInvAlways, PTL

-----------------------------------------------------------------------------
(* The MCP session keeps its invariant *)

\* At first nothing is asked for and nothing is held.
LEMMA MCPInvInit == MCPInit => MCPInv
<1> SUFFICES ASSUME MCPInit PROVE MCPInv
    OBVIOUS
<1> USE SessionLimits DEF MCPInit
<1>1. MCPTypeOK
    BY DEF MCPTypeOK, Tools, Stages, Underway
<1>2. Live \ abandoned = {} /\ Live = {}
    BY DEF Live
<1>3. IsFiniteSet({}) /\ Cardinality({}) = 0
    BY FS_EmptySet
<1>4. PlacesHeld
    BY <1>3 DEF PlacesHeld, Underway
<1>5. OwnersKnown
    BY <1>2, <1>3 DEF OwnersKnown
<1>6. LockHeld
    BY DEF LockHeld
<1> QED BY <1>1, <1>4, <1>5, <1>6 DEF MCPInv

Request == [stage : Stages, tool : Tools, group : Groups \cup {NoGroup}]

\* One request is replaced: the others keep what they are, and what is under way
\* keeps its place.
Becomes(i, r) ==
    /\ r \in Request
    /\ r.tool \in {"next", "unsubscribe"} => r.group \in Groups
    /\ request' = [request EXCEPT ![i] = r]

\* What follows for the requests when one of them moves on.
LEMMA RequestMoves ==
    ASSUME MCPInv, NEW i \in Ids, NEW r, Becomes(i, r)
    PROVE  /\ request' \in [Ids -> Request]
           /\ \A j \in Ids : request'[j].tool \in {"next", "unsubscribe"} =>
                 request'[j].group \in Groups
           /\ request'[i] = r /\ \A j \in Ids : j # i => request'[j] = request[j]
BY DEF MCPInv, MCPTypeOK, Becomes, Request

\* A request that goes on or is answered is replaced by one of the same kind.
LEMMA GoesBecomes ==
    ASSUME MCPInv, NEW i \in Ids, NEW stage \in Stages, Goes(i, stage)
    PROVE  Becomes(i, [stage |-> stage, tool |-> request[i].tool, group |-> request[i].group])
<1>1. /\ request \in [Ids -> Request] /\ request[i] \in Request
      /\ request[i].tool \in {"next", "unsubscribe"} => request[i].group \in Groups
    BY DEF MCPInv, MCPTypeOK, Request
<1>2. [request[i] EXCEPT !.stage = stage] =
        [stage |-> stage, tool |-> request[i].tool, group |-> request[i].group]
    BY <1>1 DEF Request
<1>3. request' = [request EXCEPT ![i] = [request[i] EXCEPT !.stage = stage]]
    BY DEF Goes
<1>4. [stage |-> stage, tool |-> request[i].tool, group |-> request[i].group] \in Request
    BY <1>1 DEF Request
<1> QED BY <1>1, <1>2, <1>3, <1>4 DEF Becomes

Answered == [stage |-> "answering", tool |-> "other", group |-> NoGroup]

\* The same of a request that is answered.
LEMMA AnswersBecomes ==
    ASSUME MCPInv, NEW i \in Ids, Answers(i)
    PROVE  Becomes(i, Answered)
BY DEF Becomes, Answers, Answered, Request, Stages, Underway, Tools

\* A request under way that stays so keeps its place.
LEMMA PlacesKept ==
    ASSUME MCPInv, NEW i \in Ids, NEW r, Becomes(i, r), request[i].stage \in Underway,
           UNCHANGED pending
    PROVE  PlacesHeld'
<1>1. \A j \in Ids : j # i => request'[j] = request[j]
    BY RequestMoves
<1> QED BY <1>1 DEF MCPInv, PlacesHeld

\* While nobody holds Server.mu across steps no subscribe is between its check
\* and its commit; while one does, it is the only one.
LEMMA OnlyHolder ==
    ASSUME MCPInv, NEW i \in Ids, request[i].stage \in {"creating", "created"}
    PROVE  i = holder /\ holder # Nobody
BY SessionLimits DEF MCPInv, LockHeld, Nobody

\* With nobody at "created" there is no group between subscribe and table, and
\* with one there its group is the only such group.
LEMMA MadeWhich ==
    ASSUME MCPInv
    PROVE  /\ holder = Nobody => Made = {}
           /\ \A i \in Ids : request[i].stage = "creating" => Made = {}
           /\ \A i \in Ids : request[i].stage = "created" => Made = {request[i].group}
<1>1. \A i \in Ids : request[i].stage = "created" => request[i].tool = "subscribe"
    BY DEF MCPInv, LockHeld
<1> QED BY <1>1, OnlyHolder DEF Made, Stands

\* A step of one request that leaves groups, table and lock alone.
LEMMA MovesKeepInv ==
    ASSUME MCPInv, NEW i \in Ids, NEW r, Becomes(i, r), PlacesHeld',
           request[i].stage \notin {"creating", "created"},
           r.stage \notin {"creating", "created", "releasing"},
           UNCHANGED <<holder, closed, owned, abandoned, source, run, toRelease, failed>>
    PROVE  MCPInv'
<1>1. /\ request' \in [Ids -> Request]
      /\ \A j \in Ids : request'[j].tool \in {"next", "unsubscribe"} =>
            request'[j].group \in Groups
      /\ request'[i] = r /\ \A j \in Ids : j # i => request'[j] = request[j]
    BY RequestMoves
<1>2. Made' = Made /\ Live' = Live
    BY <1>1 DEF Made, Stands, Live
<1>3. MCPTypeOK'
    BY <1>1 DEF MCPInv, MCPTypeOK, Request
<1>4. LockHeld'
    BY <1>1 DEF MCPInv, LockHeld
<1>5. OwnersKnown'
    BY <1>2 DEF MCPInv, OwnersKnown
<1> QED BY <1>3, <1>4, <1>5 DEF MCPInv

\* A frame is let through to the SDK, and takes a place, or is turned away.
LEMMA ReceiveKeepsInv ==
    ASSUME MCPInv, NEW i \in Ids, NEW tool \in Tools, NEW g \in Groups \cup {NoGroup},
           Receive(i, tool, g)
    PROVE  MCPInv'
<1> DEFINE full == Cardinality(pending) >= MaxInflight
           r == [stage |-> IF full THEN "turned_away" ELSE "queued", tool |-> tool, group |-> g]
<1>1. /\ request[i].stage = "unsent"
      /\ request' = [request EXCEPT ![i] = r]
      /\ g \in Groups <=> tool \in {"next", "unsubscribe"}
      /\ UNCHANGED <<holder, closed, owned, abandoned, source, run, toRelease, failed>>
      /\ pending' = IF full THEN pending ELSE pending \cup {i}
    BY DEF Receive, serverVars, sourceVars, runVars
<1>2. r.stage \in Stages /\ r.stage \in {"turned_away", "queued"} /\ r \in Request
      /\ r.tool = tool /\ r.group = g /\ (full => r.stage = "turned_away")
    BY DEF Request, Stages, Underway
<1>3. Becomes(i, r)
    BY <1>1, <1>2 DEF Becomes
<1> HIDE DEF r
<1>4. request'[i] = r /\ \A j \in Ids : j # i => request'[j] = request[j]
    BY <1>3, RequestMoves
<1>5. IsFiniteSet(pending') /\ Cardinality(pending') <= MaxInflight
    <2>1. /\ IsFiniteSet(pending) /\ Cardinality(pending) <= MaxInflight
          /\ MaxInflight \in Nat /\ Cardinality(pending) \in Nat
        BY SessionLimits, FS_CardinalityType DEF MCPInv, PlacesHeld
    <2>2. CASE full
        BY <1>1, <2>1, <2>2
    <2>3. CASE ~full
        <3>1. /\ IsFiniteSet(pending \cup {i})
              /\ Cardinality(pending \cup {i}) = IF i \in pending THEN Cardinality(pending)
                                                 ELSE Cardinality(pending) + 1
            BY <2>1, FS_AddElement, Zenon
        <3> QED BY <1>1, <2>1, <2>3, <3>1
    <2> QED BY <2>2, <2>3
<1>6. PlacesHeld'
    BY <1>1, <1>2, <1>4, <1>5 DEF MCPInv, PlacesHeld, Underway
<1> QED BY <1>1, <1>2, <1>3, <1>6, MovesKeepInv

\* A response is written, and its place given back after it.
LEMMA WriteKeepsInv ==
    ASSUME MCPInv, NEW i \in Ids, Write(i)
    PROVE  MCPInv'
<1>1. UNCHANGED <<holder, closed, owned, abandoned, source, run, toRelease, failed>>
    BY DEF Write, serverVars, sourceVars, runVars
<1>2. PICK stage \in {"written", "done"} :
        /\ Goes(i, stage) /\ request[i].stage \in {"answering", "written"}
        /\ pending' = pending \/ (stage = "done" /\ pending' = pending \ {i})
    <2>1. \/ \E stage \in {"written", "done"} : Goes(i, stage) /\ UNCHANGED pending
                                                /\ request[i].stage = "answering"
          \/ Goes(i, "done") /\ pending' = pending \ {i} /\ request[i].stage = "written"
        BY DEF Write
    <2> QED BY <2>1, Zenon
<1>3. stage \in Stages
    BY DEF Stages
<1> DEFINE r == [stage |-> stage, tool |-> request[i].tool, group |-> request[i].group]
<1>4. Becomes(i, r) /\ r.stage = stage
    BY <1>2, <1>3, GoesBecomes
<1> HIDE DEF r
<1>5. request'[i] = r /\ \A j \in Ids : j # i => request'[j] = request[j]
    BY <1>4, RequestMoves
<1>6. IsFiniteSet(pending') /\ Cardinality(pending') <= MaxInflight
    <2>1. IsFiniteSet(pending) /\ Cardinality(pending) <= MaxInflight /\ MaxInflight \in Nat
        BY SessionLimits DEF MCPInv, PlacesHeld
    <2>2. pending' \in SUBSET pending
        BY <1>2
    <2> QED BY <2>1, <2>2, Fewer
<1>7. PlacesHeld'
    BY <1>2, <1>4, <1>5, <1>6 DEF MCPInv, PlacesHeld, Underway
<1> QED BY <1>1, <1>2, <1>4, <1>7, MovesKeepInv

\* The handlers that only move their own request.
LEMMA PlainHandlersKeepInv ==
    ASSUME MCPInv, NEW i \in Ids,
           Call(i) \/ Lookup(i) \/ NextLocks(i) \/ NextDrains(i) \/ NextWaits(i) \/ NextAnswers(i)
    PROVE  MCPInv'
<1>1. /\ UNCHANGED <<holder, closed, owned, abandoned, source, run, toRelease, failed>>
      /\ UNCHANGED pending
    BY DEF Call, Lookup, NextLocks, NextDrains, NextWaits, NextAnswers, serverVars, sourceVars,
       runVars
<1>2. request[i].stage \in Underway \ {"creating", "created"}
    BY DEF Call, Lookup, NextLocks, NextDrains, NextWaits, NextAnswers, Stands, Underway
<1>3. \/ Answers(i)
      \/ \E stage \in {"found", "draining", "drained", "empty", "waiting"} : Goes(i, stage)
    BY DEF Call, Lookup, NextLocks, NextDrains, NextWaits, NextAnswers
<1>4. CASE Answers(i)
    <2>1. Becomes(i, Answered) /\ Answered.stage = "answering"
        BY <1>4, AnswersBecomes DEF Answered
    <2>2. PlacesHeld'
        BY <1>1, <1>2, <2>1, PlacesKept
    <2> QED BY <1>1, <1>2, <2>1, <2>2, MovesKeepInv
<1>5. CASE \E stage \in {"found", "draining", "drained", "empty", "waiting"} : Goes(i, stage)
    <2>1. PICK stage \in {"found", "draining", "drained", "empty", "waiting"} : Goes(i, stage)
        BY <1>5
    <2>2. PICK r : r = [stage |-> stage, tool |-> request[i].tool, group |-> request[i].group]
        OBVIOUS
    <2>3. stage \in Stages
        BY DEF Stages, Underway
    <2>4. Becomes(i, r) /\ r.stage = stage
        BY <2>1, <2>2, <2>3, GoesBecomes
    <2>5. PlacesHeld'
        BY <1>1, <1>2, <2>4, PlacesKept
    <2> QED BY <1>1, <1>2, <2>4, <2>5, MovesKeepInv
<1> QED BY <1>3, <1>4, <1>5

\* Fewer live groups, or more that were given up, leave no more to account for.
LEMMA NoMoreLive ==
    ASSUME MCPInv, Live' \ abandoned' \subseteq Live \ abandoned
    PROVE  IsFiniteSet(Live' \ abandoned') /\ Cardinality(Live' \ abandoned') <= MaxOwned
<1>1. /\ IsFiniteSet(Live \ abandoned) /\ Cardinality(Live \ abandoned) <= MaxOwned
      /\ MaxOwned \in Nat
    BY SessionLimits DEF MCPInv, OwnersKnown
<1> QED BY <1>1, Fewer

\* A subscribe takes Server.mu when there is room in the table, having dropped
\* the groups that ended from it.
LEMMA SubscribeAdmitKeepsInv ==
    ASSUME MCPInv, NEW i \in Ids, SubscribeAdmit(i)
    PROVE  MCPInv'
<1>1. /\ request[i].tool = "subscribe" /\ request[i].stage = "queued" /\ holder = Nobody
      /\ owned' = {g \in owned : ~Ended(g)}
      /\ UNCHANGED <<pending, closed, abandoned, source, run, toRelease, failed>>
    BY DEF SubscribeAdmit, Stands, sourceVars, runVars
<1>2. /\ IsFiniteSet(owned') /\ Cardinality(owned') <= MaxOwned /\ Cardinality(owned') \in Nat
      /\ owned' \subseteq owned /\ MaxOwned \in Nat
    <2>1. IsFiniteSet(owned) /\ Cardinality(owned) <= MaxOwned /\ MaxOwned \in Nat
        BY SessionLimits DEF MCPInv, OwnersKnown
    <2>2. owned' \in SUBSET owned
        BY <1>1
    <2> QED BY <2>1, <2>2, Fewer, FS_CardinalityType
<1>3. \A j \in Ids : request[j].stage \notin {"creating", "created"}
    BY <1>1, OnlyHolder
<1>4. Live' = Live
    BY <1>1 DEF Live
<1>5. run = "serving" => Live \subseteq owned' \cup abandoned
    <2>1. run = "serving" => Live \subseteq owned \cup abandoned
        BY <1>1, MadeWhich DEF MCPInv, OwnersKnown
    <2>2. \A g \in Live : ~Ended(g)
        BY DEF Live, Ended
    <2> QED BY <1>1, <2>1, <2>2
<1>6. ASSUME NEW r, Becomes(i, r), r.stage \notin {"created", "releasing"},
             r.stage = "creating" => /\ r.tool = "subscribe" /\ holder' = i
                                     /\ run = "serving" /\ Cardinality(owned') < MaxOwned
      PROVE  MCPInv'
    <2>1. /\ request' \in [Ids -> Request]
          /\ \A j \in Ids : request'[j].tool \in {"next", "unsubscribe"} =>
                request'[j].group \in Groups
          /\ request'[i] = r /\ \A j \in Ids : j # i => request'[j] = request[j]
        BY <1>6, RequestMoves
    <2>2. PlacesHeld'
        BY <1>1, <1>6, PlacesKept DEF Underway
    <2>3. MCPTypeOK'
        BY <1>1, <1>2, <2>1 DEF MCPInv, MCPTypeOK, Request
    <2>4. LockHeld'
        BY <1>1, <1>3, <1>6, <2>1 DEF MCPInv, LockHeld
    <2>5. OwnersKnown'
        BY <1>1, <1>2, <1>4, <1>5 DEF MCPInv, OwnersKnown
    <2> QED BY <2>2, <2>3, <2>4, <2>5 DEF MCPInv
<1>7. CASE Full(owned')
    <2>1. Becomes(i, Answered)
        BY <1>7, AnswersBecomes DEF SubscribeAdmit
    <2> QED BY <1>6, <2>1 DEF Answered
<1>8. CASE ~Full(owned')
    <2>1. PICK r : r = [stage |-> "creating", tool |-> request[i].tool, group |-> request[i].group]
        OBVIOUS
    <2>2. Goes(i, "creating") /\ holder' = i
        BY <1>8 DEF SubscribeAdmit
    <2>3. Becomes(i, r) /\ r.stage = "creating" /\ r.tool = "subscribe"
        BY <1>1, <2>1, <2>2, GoesBecomes DEF Stages, Underway
    <2>4. run = "serving" /\ Cardinality(owned') < MaxOwned
        BY <1>2, <1>8 DEF Full, MCPInv, LockHeld
    <2> QED BY <1>6, <2>2, <2>3, <2>4
<1> QED BY <1>7, <1>8

\* The end of a subscribe, with its group in the table, released or given up.
LEMMA SubscribeEndsKeepsInv ==
    ASSUME MCPInv, NEW i \in Ids, Answers(i), holder' = Nobody,
           request[i].stage \in {"creating", "created"},
           UNCHANGED <<pending, closed, run, toRelease, failed>>,
           owned' \subseteq Groups, IsFiniteSet(owned'), Cardinality(owned') <= MaxOwned,
           source' \in [Groups -> {"none", "live", "ended", "released"}],
           \A g \in Groups : source[g] = "released" => source'[g] = "released",
           Live' \subseteq Live, abandoned \subseteq abandoned',
           Live' \subseteq owned' \cup abandoned'
    PROVE  MCPInv'
<1>1. Becomes(i, Answered) /\ Answered.stage = "answering"
    BY AnswersBecomes DEF Answered
<1>2. /\ request' \in [Ids -> Request]
      /\ \A j \in Ids : request'[j].tool \in {"next", "unsubscribe"} =>
            request'[j].group \in Groups
      /\ request'[i] = Answered /\ \A j \in Ids : j # i => request'[j] = request[j]
    BY <1>1, RequestMoves
<1>3. PlacesHeld'
    BY <1>1, PlacesKept DEF Underway
<1>4. MCPTypeOK'
    BY <1>2 DEF MCPTypeOK, Request
<1>5. i = holder /\ \A j \in Ids : request'[j].stage \notin {"creating", "created"}
    BY <1>1, <1>2, OnlyHolder
<1>6. \A j \in Ids : request'[j].stage = "releasing" => request'[j] = request[j]
    BY <1>1, <1>2
<1>7. LockHeld'
    BY <1>5, <1>6 DEF MCPInv, MCPTypeOK, LockHeld
<1>8. run = "serving"
    BY DEF MCPInv, LockHeld
<1>9. OwnersKnown'
    BY <1>8, NoMoreLive DEF MCPInv, OwnersKnown
<1> QED BY <1>3, <1>4, <1>7, <1>9 DEF MCPInv

\* The runtime refuses the subscribe, or makes a group of it.
LEMMA SubscribeReturnsKeepsInv ==
    ASSUME MCPInv, NEW i \in Ids, SubscribeReturns(i)
    PROVE  MCPInv'
<1>1. /\ request[i].tool = "subscribe" /\ request[i].stage = "creating"
      /\ UNCHANGED <<pending, closed, owned, abandoned, run, toRelease, failed>>
    BY DEF SubscribeReturns, Stands, runVars
<1>2. /\ owned \subseteq Groups /\ IsFiniteSet(owned) /\ Cardinality(owned) < MaxOwned
      /\ MaxOwned \in Nat /\ run = "serving" /\ holder = i /\ Made = {}
      /\ Live \subseteq owned \cup abandoned
      /\ source \in [Groups -> {"none", "live", "ended", "released"}]
    BY <1>1, MadeWhich, SessionLimits DEF MCPInv, MCPTypeOK, LockHeld, OwnersKnown
<1>3. CASE Answers(i) /\ holder' = Nobody /\ UNCHANGED source
    <2>1. Live' = Live
        BY <1>3 DEF Live
    <2>2. Cardinality(owned) <= MaxOwned
        BY DEF MCPInv, OwnersKnown
    <2> QED BY <1>1, <1>2, <1>3, <2>1, <2>2, SubscribeEndsKeepsInv
<1>4. ASSUME NEW g \in Groups, source[g] = "none", source' = [source EXCEPT ![g] = "live"],
             request' = [request EXCEPT ![i].stage = "created", ![i].group = g],
             UNCHANGED holder
      PROVE  MCPInv'
    <2>1. PICK r : r = [stage |-> "created", tool |-> "subscribe", group |-> g]
        OBVIOUS
    <2>2. Becomes(i, r) /\ r.stage = "created" /\ r.tool = "subscribe" /\ r.group = g
        <3>1. request[i] \in Request
            BY DEF MCPInv, MCPTypeOK, Request
        <3>2. [[request[i] EXCEPT !.stage = "created"] EXCEPT !.group = g] = r
            <4>1. PICK stage, tool, group :
                        request[i] = [stage |-> stage, tool |-> tool, group |-> group]
                BY <3>1 DEF Request
            <4>2. tool = "subscribe"
                BY <1>1, <4>1
            <4>3. PICK x : x = [request[i] EXCEPT !.stage = "created"]
                OBVIOUS
            <4>4. x = [stage |-> "created", tool |-> "subscribe", group |-> group]
                BY <4>1, <4>2, <4>3
            <4>5. [x EXCEPT !.group = g] = r
                BY <2>1, <4>4
            <4> QED BY <4>3, <4>5, Zenon
        <3>3. request' = [request EXCEPT ![i] = r]
            BY <1>4, <3>2
        <3>4. r \in Request
            BY <2>1 DEF Request, Stages, Underway, Tools
        <3> QED BY <2>1, <3>3, <3>4 DEF Becomes
    <2>3. /\ request' \in [Ids -> Request]
          /\ \A j \in Ids : request'[j].tool \in {"next", "unsubscribe"} =>
                request'[j].group \in Groups
          /\ request'[i] = r /\ \A j \in Ids : j # i => request'[j] = request[j]
        BY <2>2, RequestMoves
    <2>4. PlacesHeld'
        BY <1>1, <2>2, PlacesKept DEF Underway
    <2>5. MCPTypeOK'
        BY <1>1, <1>2, <1>4, <2>3 DEF MCPTypeOK, Request
    <2>6. \A j \in Ids : request'[j].stage \in {"creating", "created"} => j = i
        BY <1>2, <2>3, OnlyHolder
    <2>7. \A j \in Ids : request'[j].stage = "releasing" =>
              request'[j] = request[j] /\ request[j].group \in Groups
        BY <2>2, <2>3 DEF MCPInv, MCPTypeOK, LockHeld
    <2>8. LockHeld'
        BY <1>1, <1>2, <1>4, <2>2, <2>3, <2>6, <2>7 DEF MCPInv, LockHeld
    <2>9. Live' = Live \cup {g} /\ Made' = {g}
        <3>1. Live' = Live \cup {g}
            BY <1>2, <1>4 DEF Live
        <3>2. {j \in Ids : request'[j].tool = "subscribe" /\ request'[j].stage = "created"} = {i}
            BY <2>2, <2>3, <2>6
        <3>3. Made' = {request'[j].group : j \in {i}}
            BY <3>2 DEF Made, Stands
        <3> QED BY <2>2, <2>3, <3>1, <3>3
    <2>10. IsFiniteSet(owned \cup {g}) /\ Cardinality(owned \cup {g}) <= MaxOwned
        <3>1. /\ IsFiniteSet(owned \cup {g})
              /\ Cardinality(owned \cup {g}) = IF g \in owned THEN Cardinality(owned)
                                               ELSE Cardinality(owned) + 1
            BY <1>2, FS_AddElement, Zenon
        <3>2. Cardinality(owned) \in Nat
            BY <1>2, FS_CardinalityType
        <3> QED BY <1>2, <3>1, <3>2
    <2>11. IsFiniteSet(Live' \ abandoned') /\ Cardinality(Live' \ abandoned') <= MaxOwned
        <3>1. Live' \ abandoned' \in SUBSET (owned \cup {g})
            BY <1>1, <1>2, <2>9
        <3> QED BY <1>2, <2>10, <3>1, Fewer
    <2>12. OwnersKnown'
        BY <1>1, <1>2, <2>9, <2>11 DEF MCPInv, OwnersKnown
    <2> QED BY <2>4, <2>5, <2>8, <2>12 DEF MCPInv
<1> QED BY <1>3, <1>4 DEF SubscribeReturns

\* The group is handed to the table, or released, or given up.
LEMMA SubscribeSettlesKeepsInv ==
    ASSUME MCPInv, NEW i \in Ids, SubscribeCommits(i) \/ SubscribeUndoes(i)
    PROVE  MCPInv'
<1> DEFINE g == request[i].group
<1>1. /\ request[i].tool = "subscribe" /\ request[i].stage = "created"
      /\ Answers(i) /\ holder' = Nobody
      /\ UNCHANGED <<pending, closed, run, toRelease, failed>>
    BY DEF SubscribeCommits, SubscribeUndoes, Stands, sourceVars, runVars
<1>2. /\ owned \subseteq Groups /\ IsFiniteSet(owned) /\ Cardinality(owned) < MaxOwned
      /\ Cardinality(owned) \in Nat /\ MaxOwned \in Nat /\ run = "serving" /\ Made = {g}
      /\ g \in Groups
      /\ source \in [Groups -> {"none", "live", "ended", "released"}]
    BY <1>1, MadeWhich, SessionLimits, FS_CardinalityType
       DEF MCPInv, MCPTypeOK, LockHeld, OwnersKnown
<1>3. Live \subseteq owned \cup {g} \cup abandoned
    BY <1>2 DEF MCPInv, OwnersKnown
<1> HIDE DEF g
<1>4. IsFiniteSet(owned \cup {g}) /\ Cardinality(owned \cup {g}) <= MaxOwned
    <2>1. /\ IsFiniteSet(owned \cup {g})
          /\ Cardinality(owned \cup {g}) = IF g \in owned THEN Cardinality(owned)
                                           ELSE Cardinality(owned) + 1
        BY <1>2, FS_AddElement, Zenon
    <2> QED BY <1>2, <2>1
<1>5. CASE SubscribeCommits(i)
    <2>1. owned' = owned \cup {g} /\ UNCHANGED <<source, abandoned>>
        BY <1>5 DEF SubscribeCommits, sourceVars, g
    <2>2. Live' = Live
        BY <2>1 DEF Live
    <2> QED BY <1>1, <1>2, <1>3, <1>4, <2>1, <2>2, SubscribeEndsKeepsInv
<1>6. CASE SubscribeUndoes(i)
    <2>1. /\ owned' = owned
          /\ \/ /\ source' = [source EXCEPT ![g] = IF @ = "live" THEN "released" ELSE @]
                /\ UNCHANGED abandoned
             \/ UNCHANGED source /\ abandoned' = abandoned \cup {g}
        BY <1>6 DEF SubscribeUndoes, g
    <2>2. CASE /\ source' = [source EXCEPT ![g] = IF @ = "live" THEN "released" ELSE @]
               /\ UNCHANGED abandoned
        <3>1. /\ source' \in [Groups -> {"none", "live", "ended", "released"}]
              /\ Live' = Live \ {g}
              /\ \A h \in Groups : source[h] = "released" => source'[h] = "released"
            BY <1>2, <2>2 DEF Live
        <3>2. Live' \subseteq owned' \cup abandoned' /\ Cardinality(owned') <= MaxOwned
            BY <1>2, <1>3, <2>1, <2>2, <3>1
        <3> QED BY <1>1, <1>2, <2>1, <2>2, <3>1, <3>2, SubscribeEndsKeepsInv
    <2>3. CASE UNCHANGED source /\ abandoned' = abandoned \cup {g}
        <3>1. Live' = Live
            BY <2>3 DEF Live
        <3>2. Live' \subseteq owned' \cup abandoned' /\ Cardinality(owned') <= MaxOwned
            BY <1>2, <1>3, <2>1, <2>3, <3>1
        <3> QED BY <1>1, <1>2, <2>1, <2>3, <3>1, <3>2, SubscribeEndsKeepsInv
    <2> QED BY <2>1, <2>2, <2>3
<1> QED BY <1>5, <1>6

\* da_unsubscribe releases the group at the source.
LEMMA UnsubscribeReleasesKeepsInv ==
    ASSUME MCPInv, NEW i \in Ids, UnsubscribeReleases(i)
    PROVE  MCPInv'
<1> DEFINE g == request[i].group
<1>1. /\ request[i].tool = "unsubscribe" /\ request[i].stage = "found" /\ g \in Groups
      /\ UNCHANGED <<pending, holder, closed, owned, abandoned, run, toRelease, failed>>
    BY DEF UnsubscribeReleases, Stands, serverVars, runVars, MCPInv, MCPTypeOK
<1>2. CASE Answers(i) /\ UNCHANGED source
    <2>1. Becomes(i, Answered) /\ Answered.stage = "answering"
        BY <1>2, AnswersBecomes DEF Answered
    <2>2. PlacesHeld'
        BY <1>1, <2>1, PlacesKept DEF Underway
    <2> QED BY <1>1, <1>2, <2>1, <2>2, MovesKeepInv
<1>3. CASE /\ source[g] = "live" /\ Goes(i, "releasing")
           /\ source' = [source EXCEPT ![g] = "released"]
    <2>1. PICK r : r = [stage |-> "releasing", tool |-> request[i].tool, group |-> g]
        OBVIOUS
    <2>2. Becomes(i, r) /\ r.stage = "releasing" /\ r.tool = "unsubscribe" /\ r.group = g
        BY <1>1, <1>3, <2>1, GoesBecomes DEF Stages, Underway
    <2> HIDE DEF g
    <2>3. /\ request' \in [Ids -> Request]
          /\ \A j \in Ids : request'[j].tool \in {"next", "unsubscribe"} =>
                request'[j].group \in Groups
          /\ request'[i] = r /\ \A j \in Ids : j # i => request'[j] = request[j]
        BY <2>2, RequestMoves
    <2>4. PlacesHeld'
        BY <1>1, <2>2, PlacesKept DEF Underway
    <2>5. MCPTypeOK'
        BY <1>1, <1>3, <2>3 DEF MCPInv, MCPTypeOK, Request
    <2>6. /\ source \in [Groups -> {"none", "live", "ended", "released"}]
          /\ \A h \in Groups : source[h] = "released" => source'[h] = "released"
          /\ source'[g] = "released"
        BY <1>1, <1>3 DEF MCPInv, MCPTypeOK
    <2>7. LockHeld'
        <3>1. ASSUME NEW j \in Ids, request'[j].stage = "releasing"
              PROVE  request'[j].tool = "unsubscribe" /\ source'[request'[j].group] = "released"
            <4>1. CASE j = i
                BY <2>2, <2>3, <2>6, <4>1
            <4>2. CASE j # i
                BY <2>3, <2>6, <3>1, <4>2 DEF MCPInv, MCPTypeOK, LockHeld
            <4> QED BY <4>1, <4>2
        <3> QED BY <1>1, <2>2, <2>3, <3>1 DEF MCPInv, LockHeld
    <2>8. Made' = Made /\ Live' \subseteq Live
        BY <1>1, <1>3, <2>2, <2>3, <2>6 DEF Made, Stands, Live
    <2>9. OwnersKnown'
        <3>1. IsFiniteSet(Live' \ abandoned') /\ Cardinality(Live' \ abandoned') <= MaxOwned
            BY <1>1, <2>8, NoMoreLive
        <3> QED BY <1>1, <2>8, <3>1 DEF MCPInv, OwnersKnown
    <2> QED BY <2>4, <2>5, <2>7, <2>9 DEF MCPInv
<1> QED BY <1>2, <1>3 DEF UnsubscribeReleases

\* and forgets it, once it may take Server.mu.
LEMMA UnsubscribeForgetsKeepsInv ==
    ASSUME MCPInv, NEW i \in Ids, UnsubscribeForgets(i)
    PROVE  MCPInv'
<1> DEFINE g == request[i].group
<1>1. /\ request[i].stage = "releasing" /\ holder = Nobody /\ Answers(i)
      /\ owned' = owned \ {g} /\ g \notin Live
      /\ UNCHANGED <<pending, holder, closed, abandoned, source, run, toRelease, failed>>
    BY DEF UnsubscribeForgets, Stands, sourceVars, runVars, MCPInv, LockHeld, Live
<1> HIDE DEF g
<1>2. Becomes(i, Answered) /\ Answered.stage = "answering"
    BY <1>1, AnswersBecomes DEF Answered
<1>3. /\ request' \in [Ids -> Request]
      /\ \A j \in Ids : request'[j].tool \in {"next", "unsubscribe"} =>
            request'[j].group \in Groups
      /\ request'[i] = Answered /\ \A j \in Ids : j # i => request'[j] = request[j]
    BY <1>2, RequestMoves
<1>4. PlacesHeld'
    BY <1>1, <1>2, PlacesKept DEF Underway
<1>5. MCPTypeOK'
    BY <1>1, <1>3 DEF MCPInv, MCPTypeOK, Request
<1>6. \A j \in Ids : request[j].stage \notin {"creating", "created"}
    BY <1>1, OnlyHolder
<1>7. LockHeld'
    BY <1>1, <1>2, <1>3, <1>6 DEF MCPInv, LockHeld
<1>8. Made = {} /\ Live' = Live
    BY <1>1, MadeWhich DEF Live
<1>9. IsFiniteSet(owned') /\ Cardinality(owned') <= MaxOwned
    <2>1. /\ IsFiniteSet(owned) /\ Cardinality(owned) <= MaxOwned /\ MaxOwned \in Nat
          /\ owned' \in SUBSET owned
        BY <1>1, SessionLimits DEF MCPInv, OwnersKnown
    <2> QED BY <2>1, Fewer
<1>10. OwnersKnown'
    BY <1>1, <1>8, <1>9 DEF MCPInv, OwnersKnown
<1> QED BY <1>4, <1>5, <1>7, <1>10 DEF MCPInv

\* The transport, the source and the end of the run leave the requests alone.
LEMMA RunKeepsInv ==
    ASSUME MCPInv,
           TransportEnds \/ Closing \/ RuntimeShutdown \/ SourceUpdates \/ SourceLost
    PROVE  MCPInv'
<1>1. UNCHANGED <<request, pending, holder, abandoned>>
    BY DEF TransportEnds, Closing, CloseTakes, CloseReleases, RunReturns, RuntimeShutdown,
       SourceUpdates, SourceLost, serverVars
<1>2. /\ source' \in [Groups -> {"none", "live", "ended", "released"}]
      /\ \A g \in Groups : source[g] = "released" => source'[g] = "released"
      /\ \A g \in Groups : source'[g] = "live" => source[g] = "live"
    <2>1. source \in [Groups -> {"none", "live", "ended", "released"}]
        BY DEF MCPInv, MCPTypeOK
    <2>2. \/ UNCHANGED source
          \/ source' = [g \in Groups |-> IF source[g] = "live" THEN "ended" ELSE source[g]]
          \/ \E g \in Groups : source[g] = "live" /\ source' = [source EXCEPT ![g] = "released"]
        <3>1. CASE CloseReleases
            <4>1. PICK g \in toRelease :
                    \/ UNCHANGED source
                    \/ source[g] = "live" /\ source' = [source EXCEPT ![g] = "released"]
                BY <3>1 DEF CloseReleases
            <4>2. CASE g \in Groups
                BY <4>1, <4>2
            <4>3. CASE g \notin Groups
                BY <2>1, <4>1, <4>3
            <4> QED BY <4>2, <4>3
        <3> QED BY <3>1 DEF TransportEnds, Closing, CloseTakes, RunReturns, RuntimeShutdown,
                SourceUpdates, SourceLost, sourceVars
    <2> QED BY <2>1, <2>2
<1>3. PlacesHeld'
    BY <1>1 DEF MCPInv, PlacesHeld
<1>4. owned' = owned \/ owned' = {}
    BY DEF TransportEnds, Closing, CloseTakes, CloseReleases, RunReturns, RuntimeShutdown,
       SourceUpdates, SourceLost, serverVars
<1>5. MCPTypeOK'
    BY <1>1, <1>2, <1>4 DEF MCPInv, MCPTypeOK
<1>6. Made' = Made /\ Live' \subseteq Live
    BY <1>1, <1>2 DEF Made, Stands, Live
<1>7. \/ UNCHANGED <<run, closed, owned>>
      \/ holder = Nobody /\ closed' /\ run' = "releasing"
      \/ run # "serving" /\ run' # "serving" /\ UNCHANGED <<closed, owned>>
    BY DEF TransportEnds, Closing, CloseTakes, CloseReleases, RunReturns, RuntimeShutdown,
       SourceUpdates, SourceLost, serverVars, runVars
<1>8. LockHeld'
    <2>1. \A j \in Ids : request[j].stage = "releasing" => request[j].group \in Groups
        BY DEF MCPInv, MCPTypeOK, LockHeld
    <2>2. \A j \in Ids : request'[j].stage = "releasing" =>
              request'[j].tool = "unsubscribe" /\ source'[request'[j].group] = "released"
        BY <1>1, <1>2, <2>1 DEF MCPInv, LockHeld
    <2>3. \A j \in Ids : request'[j].stage \in {"creating", "created"} =>
              UNCHANGED <<run, closed, owned>>
        BY <1>1, <1>7, OnlyHolder DEF MCPInv, LockHeld
    <2>4. closed' <=> run' # "serving"
        BY <1>7 DEF MCPInv, LockHeld
    <2> QED BY <1>1, <2>2, <2>3, <2>4 DEF MCPInv, LockHeld
<1>9. IsFiniteSet(owned') /\ Cardinality(owned') <= MaxOwned
    <2>1. IsFiniteSet({}) /\ Cardinality({}) = 0 /\ MaxOwned \in Nat
        BY FS_EmptySet, SessionLimits
    <2> QED BY <1>4, <2>1 DEF MCPInv, OwnersKnown
<1>10. IsFiniteSet(Live' \ abandoned') /\ Cardinality(Live' \ abandoned') <= MaxOwned
    BY <1>1, <1>6, NoMoreLive
<1>11. OwnersKnown'
    <2> USE DEF MCPInv, OwnersKnown
    <2>1. CASE TransportEnds \/ SourceUpdates \/ SourceLost
        BY <1>1, <1>6, <1>9, <1>10, <2>1
           DEF TransportEnds, SourceUpdates, SourceLost, serverVars, runVars
    <2>2. CASE CloseTakes
        <3>1. Made = {} /\ run = "serving" /\ toRelease' = owned /\ run' = "releasing"
            BY <2>2, MadeWhich DEF CloseTakes
        <3> QED BY <1>1, <1>6, <1>9, <1>10, <3>1
    <2>3. CASE CloseReleases
        <3>1. PICK g \in toRelease :
                /\ toRelease' = toRelease \ {g} /\ run = "releasing" /\ run' = run
                /\ \/ source[g] = "live" /\ source' = [source EXCEPT ![g] = "released"]
                      /\ UNCHANGED failed
                   \/ failed' = TRUE
                   \/ Ended(g) /\ UNCHANGED <<source, failed>>
            BY <2>3 DEF CloseReleases
        <3>2. failed' \/ (failed' = failed /\ g \notin Live')
            BY <3>1 DEF Live, Ended, MCPTypeOK
        <3> QED BY <1>1, <1>6, <1>9, <1>10, <3>1, <3>2
    <2>4. CASE RunReturns
        BY <1>1, <1>6, <1>9, <1>10, <2>4 DEF RunReturns
    <2>5. CASE RuntimeShutdown
        BY <1>1, <1>6, <1>9, <1>10, <2>5 DEF RuntimeShutdown
    <2> QED BY <2>1, <2>2, <2>3, <2>4, <2>5 DEF Closing
<1> QED BY <1>3, <1>5, <1>8, <1>11 DEF MCPInv

\* The invariant holds whatever the client, the SDK and the runtime do.
LEMMA MCPInvAlways == MCPSpec => []MCPInv
<1>1. MCPInv /\ [MCPNext]_mcpVars => MCPInv'
    <2> SUFFICES ASSUME MCPInv, [MCPNext]_mcpVars PROVE MCPInv'
        OBVIOUS
    <2>1. ASSUME NEW i \in Ids, NEW tool \in Tools, NEW g \in Groups \cup {NoGroup},
                 Receive(i, tool, g)
          PROVE  MCPInv'
        BY <2>1, ReceiveKeepsInv
    <2>2. ASSUME NEW i \in Ids, Handler(i) PROVE MCPInv'
        BY <2>2, PlainHandlersKeepInv, SubscribeAdmitKeepsInv, SubscribeReturnsKeepsInv,
           SubscribeSettlesKeepsInv, UnsubscribeReleasesKeepsInv, UnsubscribeForgetsKeepsInv
           DEF Handler
    <2>3. ASSUME NEW i \in Ids, Write(i) PROVE MCPInv'
        BY <2>3, WriteKeepsInv
    <2>4. CASE UNCHANGED mcpVars
        <3>1. UNCHANGED <<request, pending, holder, closed, owned, source, run, toRelease,
                          failed, abandoned>>
            BY <2>4 DEF mcpVars
        <3> QED BY <3>1 DEF MCPInv, MCPTypeOK, PlacesHeld, LockHeld, OwnersKnown, Made, Stands, Live
    <2> QED BY <2>1, <2>2, <2>3, <2>4, RunKeepsInv DEF MCPNext
<1> QED BY <1>1, MCPInvInit, PTL DEF MCPSpec

\* Every live DA group of an MCP session has somebody who will release it, failed
\* releases aside, a session never holds more groups than its limit, and every
\* request that is not answered on the wire keeps its place among at most
\* MaxInflight (da_subscribe, da_unsubscribe, closeSubscriptions,
\* boundedConnection).
THEOREM MCPAccountedAlways == MCPSpec => []MCPAccounted
<1>1. MCPInv => MCPAccounted
    <2> SUFFICES ASSUME MCPInv PROVE MCPAccounted
        OBVIOUS
    <2> USE DEF MCPInv
    <2>1. GroupsAccounted
        BY DEF GroupsAccounted, OwnersKnown, Made
    <2>2. \A i \in Ids : request[i].stage \in Stages
        BY DEF MCPTypeOK
    <2>3. InflightBounded
        BY <2>2 DEF InflightBounded, PlacesHeld, Stages, Underway
    <2> QED BY <2>1, <2>3 DEF MCPAccounted
<1> QED BY <1>1, MCPInvAlways, PTL

-----------------------------------------------------------------------------
(* The scanner of JSON bodies: its calls *)

Codes == {"none", "syntax", "depth", "spelling", "duplicate"}
Results == [code : Codes, at : Nat]

\* What calls return.
LEMMA ResultsAre ==
    /\ \A p \in Nat : Fine(p) \in Results /\ Fine(p).code = "none" /\ Fine(p).at = p
    /\ \A code \in Codes : Rejected(code) \in Results /\ Rejected(code).code = code
BY DEF Results, Codes, Fine, Rejected

\* The token at a place, and the key a string is.
LEMMA TokensAre ==
    ASSUME NEW t \in Seq(Tokens), NEW p \in Nat \ {0}
    PROVE  /\ Is(t, p) \in Marks \cup {"string", "end"}
           /\ Is(t, p) = "end" <=> p > Len(t)
           /\ Is(t, p) = "string" => jsonKeyValue(t[p]) = t[p].means /\ t[p].means \in JSONKeys
<1>0. Len(t) \in Nat /\ DOMAIN t = 1 .. Len(t) /\ \A n \in DOMAIN t : t[n] \in Tokens
    OBVIOUS
<1>1. CASE p > Len(t)
  <2>1. Is(t, p) = "end"
    BY <1>0, <1>1 DEF Is
  <2> QED
    BY <1>1, <2>1
<1>2. CASE p <= Len(t)
  <2>1. t[p] \in Tokens /\ Is(t, p) = t[p].is
    BY <1>0, <1>2 DEF Is
  <2>2. CASE \E m \in Marks : t[p] = Mark(m)
    <3>1. PICK m \in Marks : t[p] = Mark(m)
      BY <2>2
    <3>2. Is(t, p) = m
      BY <2>1, <3>1 DEF Mark
    <3>3. ~(p > Len(t))
      BY <1>0, <1>2
    <3> QED
      BY <3>2, <3>3 DEF Marks
  <2>3. CASE \E s \in Spellings : t[p] = [is |-> "string", raw |-> s.raw, means |-> s.means]
    <3>1. PICK s \in Spellings : t[p] = [is |-> "string", raw |-> s.raw, means |-> s.means]
      BY <2>3
    <3>2. t[p].is = "string" /\ t[p].raw = s.raw /\ t[p].means = s.means
      BY <3>1
    <3>3. s.means \in JSONKeys
      BY DEF JSONKeys
    <3>4. ~(p > Len(t)) /\ Is(t, p) = "string"
      BY <1>0, <1>2, <2>1, <3>2
    <3> QED
      BY <3>2, <3>3, <3>4 DEF jsonKeyValue
  <2> QED
    BY <2>1, <2>2, <2>3 DEF Tokens
<1> QED
    BY <1>0, <1>1, <1>2

\* The keys of an object so far.
Held(keys) == keys.spill \cup {keys.inline[n] : n \in DOMAIN keys.inline}

\* An added key is held, whether inline or spilled, and no other is.
LEMMA KeysAre ==
    ASSUME NEW keys \in KeySets, NEW key \in JSONKeys
    PROVE  /\ InSet(keys, key) <=> key \in Held(keys)
           /\ Added(keys, key) \in KeySets
           /\ Held(Added(keys, key)) = Held(keys) \cup {key}
           /\ ~IsNoKeys(Added(keys, key))
<1>1. keys.inline \in Seq(JSONKeys) /\ keys.spill \in SUBSET JSONKeys
    BY DEF KeySets
<1>2. InSet(keys, key) <=> key \in Held(keys)
    BY DEF InSet, Held
<1>3. CASE keys.spill = {} /\ Len(keys.inline) < InlineKeys
  <2> DEFINE more == Append(keys.inline, key)
  <2>1. Added(keys, key) = [inline |-> more, spill |-> keys.spill]
    BY <1>3 DEF Added, KeySets
  <2>2. more \in Seq(JSONKeys) /\ more # <<>> /\ Len(more) = Len(keys.inline) + 1
        /\ more[Len(keys.inline) + 1] = key
        /\ \A n \in 1 .. Len(keys.inline) : more[n] = keys.inline[n]
    BY <1>1
  <2>3. DOMAIN more = 1 .. Len(keys.inline) + 1 /\ DOMAIN keys.inline = 1 .. Len(keys.inline)
        /\ Len(keys.inline) \in Nat
    BY <1>1, <2>2
  <2> HIDE DEF more
  <2>4. {more[n] : n \in DOMAIN more} = {keys.inline[n] : n \in DOMAIN keys.inline} \cup {key}
    <3>1. \A x : (\E n \in 1 .. Len(keys.inline) + 1 : x = more[n])
                    <=> (\E n \in 1 .. Len(keys.inline) : x = keys.inline[n]) \/ x = key
      BY <2>2, <2>3
    <3> QED
      BY <2>3, <3>1, Zenon
  <2> DEFINE set == Added(keys, key)
  <2>5. set.inline = more /\ set.spill = keys.spill
    BY <2>1
  <2>6. set \in KeySets
    BY <1>1, <2>1, <2>2 DEF KeySets
  <2> HIDE DEF set
  <2>7. Held(set) = Held(keys) \cup {key}
    <3> DEFINE A == {more[n] : n \in DOMAIN more}
               B == {keys.inline[n] : n \in DOMAIN keys.inline}
    <3>1. Held(set) = keys.spill \cup A /\ Held(keys) = keys.spill \cup B
      BY <2>5 DEF Held
    <3>2. A = B \cup {key}
      BY <2>4
    <3> HIDE DEF A, B
    <3> QED
      BY <3>1, <3>2
  <2>8. ~IsNoKeys(set)
    BY <2>2, <2>5, Zenon DEF IsNoKeys
  <2> QED
    BY <1>2, <2>6, <2>7, <2>8, Zenon DEF set
<1>4. CASE ~(keys.spill = {} /\ Len(keys.inline) < InlineKeys)
  <2>1. Added(keys, key) = [inline |-> keys.inline, spill |-> keys.spill \cup {key}]
    BY <1>4 DEF Added, KeySets
  <2> QED
    BY <1>1, <1>2, <2>1 DEF KeySets, Held, IsNoKeys
<1> QED
    BY <1>3, <1>4

LEMMA NoKeysAre ==
    /\ NoKeys \in KeySets /\ Held(NoKeys) = {} /\ IsNoKeys(NoKeys)
    /\ \A keys \in KeySets : IsNoKeys(keys) <=> keys = NoKeys
BY DEF NoKeys, KeySets, Held, IsNoKeys

LEMMA CallsAre ==
    ASSUME NEW p \in Nat \ {0}, NEW depth \in Nat
    PROVE  /\ ValueAt(p, depth) \in ScanCalls
           /\ \A keys \in KeySets : ObjectAt(p, depth, keys) \in ScanCalls
           /\ \A elements \in Nat : ArrayAt(p, depth, elements) \in ScanCalls
BY DEF ValueAt, ObjectAt, ArrayAt, ScanCalls

\* A call returns a position or a code.
LEMMA ScanTyped ==
    ASSUME NEW t \in Seq(Tokens), NEW c \in ScanCalls, NEW scan \in [ScanCalls -> Results]
    PROVE  Scanned(t, c, scan) \in Results
<1>1. c.at \in Nat \ {0} /\ c.depth \in Nat /\ c.to \in {"value", "object", "array"}
      /\ (c.to = "object" => c.keys \in KeySets) /\ (c.to = "array" => c.elements \in Nat)
    BY DEF ScanCalls
<1> DEFINE p == c.at
           q == c.depth
<1>2. /\ p \in Nat \ {0} /\ p + 1 \in Nat \ {0} /\ p + 2 \in Nat \ {0}
      /\ q \in Nat /\ q + 1 \in Nat
    BY <1>1
<1>3. \A x \in Nat \ {0}, y \in Nat :
         /\ scan[ValueAt(x, y)] \in Results
         /\ \A keys \in KeySets : scan[ObjectAt(x, y, keys)] \in Results
         /\ \A elements \in Nat : scan[ArrayAt(x, y, elements)] \in Results
    BY CallsAre
<1>4. \A v \in Results : v.at \in Nat /\ v.at + 1 \in Nat \ {0}
    BY DEF Results
<1>5. /\ Fine(p + 1) \in Results /\ \A v \in Results : Fine(v.at + 1) \in Results
      /\ Rejected("depth") \in Results /\ Rejected("syntax") \in Results
      /\ Rejected("spelling") \in Results /\ Rejected("duplicate") \in Results
    BY <1>2, <1>4, ResultsAre DEF Codes
<1>6. CASE c.to = "value"
  <2>1. scan[ObjectAt(p + 1, q, NoKeys)] \in Results /\ scan[ArrayAt(p + 1, q, 0)] \in Results
    BY <1>2, <1>3, NoKeysAre
  <2>2. ScanValue(t, c, scan) \in Results
    BY <1>5, <2>1 DEF ScanValue
  <2> QED
    BY <1>6, <2>2 DEF Scanned
<1>7. CASE c.to = "object"
  <2>1. c.keys \in KeySets
    BY <1>1, <1>7
  <2>2. ASSUME NEW key \in JSONKeys
        PROVE  ScanMember(t, c, key, scan) \in Results
    <3> DEFINE v == scan[ValueAt(p + 2, q + 1)]
    <3>1. v \in Results
      BY <1>2, <1>3
    <3>2. scan[ObjectAt(v.at + 1, q, Added(c.keys, key))] \in Results
      <4>1. Added(c.keys, key) \in KeySets
        BY <2>1, KeysAre
      <4>2. v.at + 1 \in Nat \ {0}
        BY <1>4, <3>1
      <4> QED
        BY <1>2, <1>3, <4>1, <4>2
    <3>3. Fine(v.at + 1) \in Results
      BY <1>5, <3>1
    <3> QED
      BY <1>5, <3>1, <3>2, <3>3, Zenon DEF ScanMember
  <2>3. Is(t, p) = "string" => jsonKeyValue(t[p]) \in JSONKeys
    BY <1>2, TokensAre
  <2>4. ScanObject(t, c, scan) \in Results
    BY <1>5, <2>2, <2>3, Zenon DEF ScanObject
  <2> QED
    BY <1>7, <2>4 DEF Scanned
<1>8. CASE c.to = "array"
  <2> DEFINE v == scan[ValueAt(p, q + 1)]
  <2>1. v \in Results
    BY <1>2, <1>3
  <2>2. scan[ArrayAt(v.at + 1, q, c.elements + 1)] \in Results
    <3>1. c.elements + 1 \in Nat /\ v.at + 1 \in Nat \ {0}
      BY <1>1, <1>4, <1>8, <2>1
    <3> QED
      BY <1>2, <1>3, <3>1
  <2>3. Fine(v.at + 1) \in Results
    BY <1>5, <2>1
  <2>4. ScanArray(t, c, scan) \in Results
    BY <1>5, <2>1, <2>2, <2>3, Zenon DEF ScanArray
  <2> QED
    BY <1>8, <2>4 DEF Scanned
<1> QED
    BY <1>1, <1>6, <1>7, <1>8

\* What a call returns is what its loop makes of the calls it makes.
LEMMA ScansAre ==
    ASSUME NEW t \in Seq(Tokens)
    PROVE  /\ Deepest(t) \in Nat
           /\ \A n \in 0 .. Deepest(t) : Scans(t)[n] \in [ScanCalls -> Results]
           /\ \A n \in 1 .. Deepest(t) : \A c \in ScanCalls :
                 Scans(t)[n][c] = Scanned(t, c, Scans(t)[n - 1])
<1> DEFINE N == Deepest(t)
           S == [ScanCalls -> Results]
           b == [c \in ScanCalls |-> Rejected("syntax")]
           step == [x \in (1 .. N) \X S |-> [c \in ScanCalls |-> Scanned(t, c, x[2])]]
<1>1. N \in Nat
    BY DEF Deepest
<1>2. b \in S
    BY ResultsAre DEF Codes
<1>3. step \in [(1 .. N) \X S -> S]
  <2>1. ASSUME NEW x \in (1 .. N) \X S
        PROVE  [c \in ScanCalls |-> Scanned(t, c, x[2])] \in S
    <3>1. x[2] \in [ScanCalls -> Results]
      BY <2>1
    <3> QED
      BY <3>1, ScanTyped
  <2> QED
    BY <2>1
<1> HIDE DEF N, b, step, S
<1>4. PICK f \in [0 .. N -> S] : Iterates(f, N, b, step)
    BY <1>1, <1>2, <1>3, Recursion
<1>5. ASSUME NEW n \in 0 .. N
      PROVE  f[n] = [c \in ScanCalls |->
                        IF n = 0 THEN Rejected("syntax") ELSE Scanned(t, c, f[n - 1])]
  <2>1. CASE n = 0
    <3>1. f[n] = b
      BY <1>4, <2>1 DEF Iterates
    <3> QED
      BY <2>1, <3>1 DEF b
  <2>2. CASE n # 0
    <3>1. n \in 1 .. N /\ n - 1 \in 0 .. N
      BY <1>1, <2>2
    <3>2. f[n] = step[<<n, f[n - 1]>>] /\ f[n - 1] \in S
      BY <1>4, <2>2, <3>1 DEF Iterates
    <3>3. step[<<n, f[n - 1]>>] = [c \in ScanCalls |-> Scanned(t, c, f[n - 1])]
      BY <3>1, <3>2 DEF step
    <3> QED
      BY <2>2, <3>2, <3>3
  <2> QED
    BY <2>1, <2>2
<1>6. f = [n \in 0 .. N |-> [c \in ScanCalls |->
              IF n = 0 THEN Rejected("syntax") ELSE Scanned(t, c, f[n - 1])]]
    BY <1>4, <1>5
<1> DEFINE g == Scans(t)
<1>7. g = [n \in 0 .. N |-> [c \in ScanCalls |->
              IF n = 0 THEN Rejected("syntax") ELSE Scanned(t, c, g[n - 1])]]
    BY <1>6, Zenon DEF Scans, N
<1> HIDE DEF g
<1>8. ASSUME NEW n \in 1 .. N, NEW c \in ScanCalls
      PROVE  g[n][c] = Scanned(t, c, g[n - 1])
  <2>1. n # 0 /\ n \in 0 .. N
    BY <1>1
  <2>2. g[n] = [x \in ScanCalls |->
                   IF n = 0 THEN Rejected("syntax") ELSE Scanned(t, x, g[n - 1])]
    BY <1>7, <2>1
  <2> QED
    BY <2>1, <2>2
<1>9. \A n \in 0 .. N : g[n] \in S
  <2> DEFINE T == {n \in 0 .. N : g[n] \in S}
  <2>1. 0 \in T
    <3>1. 0 \in 0 .. N
      BY <1>1
    <3>2. g[0] = b
      BY <1>7, <3>1, Zenon DEF b
    <3> QED
      BY <1>2, <3>1, <3>2
  <2>2. ASSUME NEW n \in 0 .. N - 1, n \in T
        PROVE  n + 1 \in T
    <3>1. n + 1 \in 1 .. N /\ n + 1 \in 0 .. N /\ (n + 1) - 1 = n /\ n + 1 # 0
      BY <1>1
    <3>2. g[n] \in [ScanCalls -> Results]
      BY <2>2 DEF S
    <3>3. g[n + 1] = [c \in ScanCalls |-> Scanned(t, c, g[n])]
      BY <1>7, <3>1
    <3>4. g[n + 1] \in [ScanCalls -> Results]
      BY <3>2, <3>3, ScanTyped
    <3> QED
      BY <3>1, <3>4 DEF S
  <2> HIDE DEF T
  <2>3. 0 .. N \subseteq T
    BY <1>1, <2>1, <2>2, Induction
  <2> QED
    BY <2>3 DEF T
<1> QED
    BY <1>1, <1>8, <1>9 DEF g, N, S

-----------------------------------------------------------------------------
(* The Decoder, token by token *)

Opened == [kind : {"lbrace", "lbracket"}, keys : SUBSET JSONKeys]

LEMMA EmptyIs ==
    ASSUME NEW S, NEW o \in Seq(S)
    PROVE  Len(o) \in Nat /\ (Len(o) = 0 <=> o = <<>>)
OBVIOUS

\* An open container.
LEMMA ContainerIs ==
    ASSUME NEW kind \in {"lbrace", "lbracket"}, NEW keys \in SUBSET JSONKeys
    PROVE  /\ Container(kind, keys) \in Opened
           /\ Container(kind, keys).kind = kind /\ Container(kind, keys).keys = keys
BY DEF Container, Opened

\* The Decoder at a place, a field at a time.
LEMMA ExpectingOpen ==
    ASSUME NEW o, NEW e
    PROVE  Expecting(o, e).open = o
BY DEF Expecting

LEMMA ExpectingNext ==
    ASSUME NEW o, NEW e
    PROVE  Expecting(o, e).expects = e
BY DEF Expecting

LEMMA ExpectingOn ==
    ASSUME NEW o, NEW e
    PROVE  Expecting(o, e).code = "none"
BY DEF Expecting

LEMMA StopIs ==
    ASSUME NEW o, NEW e, NEW x
    PROVE  Stop(Expecting(o, e), x).code = x
<1> DEFINE none == "none"
<1>1. Expecting(o, e) = [open |-> o, expects |-> e, code |-> none]
    BY DEF Expecting
<1> HIDE DEF none
<1>2. [[open |-> o, expects |-> e, code |-> none] EXCEPT !.code = x].code = x
    OBVIOUS
<1> QED
    BY <1>1, <1>2 DEF Stop

\* What is on top of the stack and what is under it.
LEMMA TopIs ==
    ASSUME NEW o \in Seq(Opened), NEW x \in Opened, NEW e
    PROVE  /\ Len(o) \in Nat /\ Append(o, x) \in Seq(Opened) /\ Append(o, x) # <<>>
           /\ Len(Append(o, x)) = Len(o) + 1
           /\ Inner(Expecting(Append(o, x), e)) = x
           /\ Outer(Expecting(Append(o, x), e)) = o
<1> DEFINE s == Append(o, x)
           d == Expecting(s, e)
<1>1. /\ s \in Seq(Opened) /\ Len(o) \in Nat /\ Len(s) = Len(o) + 1
      /\ s[Len(o) + 1] = x /\ SubSeq(s, 1, Len(o)) = o
    OBVIOUS
<1>2. s # <<>>
    BY <1>1
<1>3. d.open = s
    BY ExpectingOpen, ExpectingNext, ExpectingOn
<1> HIDE DEF s, d
<1>4. Depth(d) = Len(o) + 1 /\ Depth(d) - 1 = Len(o)
    BY <1>1, <1>3 DEF Depth
<1>5. Inner(d) = x
    BY <1>1, <1>3, <1>4 DEF Inner
<1>6. Outer(d) = o
    BY <1>1, <1>3, <1>4 DEF Outer
<1> QED
    BY <1>1, <1>2, <1>5, <1>6 DEF s, d

\* A body the Decoder has taken: D[i] is where it was before token i.
Run(t, D) ==
    /\ t \in Seq(Tokens) /\ DOMAIN D = 1 .. Len(t) + 1 /\ D[1] = Fresh
    /\ \A i \in 1 .. Len(t) : D[i].code = "none" /\ D[i + 1] = Takes(D[i], t[i])

\* What a run says of its tokens.
LEMMA RunIs ==
    ASSUME NEW t, NEW D, Run(t, D)
    PROVE  /\ t \in Seq(Tokens) /\ Len(t) \in Nat
           /\ \A i \in 1 .. Len(t) : D[i].code = "none" /\ D[i + 1] = Takes(D[i], t[i])
<1>1. t \in Seq(Tokens)
    BY Zenon DEF Run
<1>2. Len(t) \in Nat
    BY <1>1
<1>3. \A i \in 1 .. Len(t) : D[i].code = "none" /\ D[i + 1] = Takes(D[i], t[i])
    BY Zenon DEF Run
<1> QED
    BY <1>1, <1>2, <1>3, Zenon

Verdict(t, D) == Outcome(D[Len(t) + 1])

\* The one disagreement.
OddKey(t, D) == D[Len(t) + 1].code = "spelling" /\ ~Misspelled(t[Len(t)].means)

LEMMA LastIs ==
    ASSUME NEW n \in Nat, NEW p \in 1 .. n
    PROVE  p # n + 1 /\ (p + 1 \notin 1 .. n => p = n)
OBVIOUS

Refusals == {"syntax", "depth", "spelling", "duplicate"}

\* Where the Decoder cannot go on it has its verdict.
LEMMA StopsThere ==
    ASSUME NEW t, NEW D, Run(t, D), NEW p \in 1 .. Len(t) + 1, NEW o, NEW e,
           NEW why \in Refusals, D[p] = Expecting(o, e), e # "nothing",
           IF p = Len(t) + 1 THEN why = "syntax" ELSE Takes(D[p], t[p]) = Stop(D[p], why)
    PROVE  Verdict(t, D) = why
<1>1. Len(t) \in Nat
    BY RunIs
<1>2. CASE p = Len(t) + 1
  <2>1. D[p].code = "none" /\ D[p].expects # "nothing"
    BY ExpectingOpen, ExpectingNext, ExpectingOn
  <2> QED
    BY <1>2, <2>1 DEF Verdict, Outcome
<1>3. CASE p # Len(t) + 1
  <2>1. p \in 1 .. Len(t) /\ p + 1 \in 1 .. Len(t) + 1
    BY <1>1, <1>3
  <2>2. D[p + 1].code = why
    BY <1>3, <2>1, StopIs, RunIs
  <2>3. p + 1 = Len(t) + 1
    <3>1. ~ (p + 1 \in 1 .. Len(t))
      BY <2>2, RunIs DEF Refusals
    <3> QED
      BY <1>1, <2>1, <3>1
  <2> QED
    BY <2>2, <2>3 DEF Verdict, Outcome, Refusals
<1> QED
    BY <1>2, <1>3

\* A token that is there is taken.
LEMMA GoesOnThere ==
    ASSUME NEW t, NEW D, Run(t, D), NEW p \in 1 .. Len(t) + 1, Is(t, p) # "end"
    PROVE  /\ p \in 1 .. Len(t) /\ p + 1 \in 1 .. Len(t) + 1
           /\ t[p].is = Is(t, p) /\ D[p + 1] = Takes(D[p], t[p])
<1>1. Len(t) \in Nat
    BY RunIs
<1>2. p <= Len(t)
    BY DEF Is
<1> QED
    BY <1>1, <1>2, RunIs DEF Is

\* A token that is not there is past the last.
LEMMA EndsThere ==
    ASSUME NEW t, NEW D, Run(t, D), NEW p \in 1 .. Len(t) + 1, Is(t, p) = "end"
    PROVE  p = Len(t) + 1
<1>1. t \in Seq(Tokens) /\ p \in Nat \ {0} /\ Len(t) \in Nat
    BY RunIs
<1>2. p > Len(t)
    BY <1>1, TokensAre
<1> QED
    BY <1>1, <1>2

\* Both see an error in the syntax.
LEMMA SyntaxThere ==
    ASSUME NEW t, NEW D, Run(t, D), NEW p \in 1 .. Len(t) + 1, NEW o, NEW e,
           D[p] = Expecting(o, e), e # "nothing",
           Is(t, p) # "end" => Takes(D[p], t[p]) = Stop(D[p], "syntax")
    PROVE  Verdict(t, D) = "syntax"
<1>1. Len(t) \in Nat
    BY RunIs
<1>2. CASE Is(t, p) = "end"
  <2>1. p = Len(t) + 1
    BY <1>2, EndsThere
  <2> QED
    BY <2>1, StopsThere DEF Refusals
<1>3. CASE Is(t, p) # "end"
  <2>1. p # Len(t) + 1
    BY <1>1, <1>3, GoesOnThere
  <2> QED
    BY <1>3, <2>1, StopsThere DEF Refusals
<1> QED
    BY <1>2, <1>3

\* Where a value may begin, unless an empty array ends there.
Begins == {"value", "first value"}
EmptyArray(t, p, e) == e = "first value" /\ Is(t, p) = "rbracket"

LEMMA AtValue ==
    ASSUME NEW t, NEW D, Run(t, D), NEW p \in 1 .. Len(t) + 1, NEW o \in Seq(Opened),
           NEW e \in Begins, D[p] = Expecting(o, e),
           ~EmptyArray(t, p, e)
    PROVE  /\ Is(t, p) \in {"lbrace", "lbracket"} =>
                 IF Len(o) >= MaxJSONDepth THEN Verdict(t, D) = "depth"
                 ELSE D[p + 1] = Expecting(Append(o, Container(Is(t, p), {})),
                                   IF Is(t, p) = "lbrace" THEN "first key" ELSE "first value")
           /\ Is(t, p) \in {"string", "scalar"} => D[p + 1] = AfterValue(o)
           /\ Is(t, p) \notin {"lbrace", "lbracket", "string", "scalar"} =>
                 Verdict(t, D) = "syntax"
<1> DEFINE m == Is(t, p)
<1>a. e \in {"value", "first value"} /\ ~(e = "first value" /\ Is(t, p) = "rbracket")
      /\ e # "nothing"
    BY DEF Begins, EmptyArray
<1>0. D[p].open = o
    BY ExpectingOpen
<1>1. D[p].open = o /\ D[p].expects = e /\ Depth(D[p]) = Len(o)
  <2>1. D[p].expects = e
    BY ExpectingNext
  <2>2. Depth(D[p]) = Len(o)
    BY <1>0 DEF Depth
  <2> QED
    BY <1>0, <2>1, <2>2, Zenon
<1>2. m # "end" => Takes(D[p], t[p]) = TakesValue(D[p], m) /\ D[p + 1] = Takes(D[p], t[p])
                   /\ p # Len(t) + 1
  <2>1. ASSUME m # "end"
        PROVE  t[p].is = m /\ D[p + 1] = Takes(D[p], t[p]) /\ p \in 1 .. Len(t)
    BY <2>1, GoesOnThere
  <2>2. Len(t) \in Nat
    BY RunIs
  <2>3. Takes(D[p], t[p]) = TakesValue(D[p], t[p].is)
    <3>1. D[p].expects = e
      BY <1>1
    <3> QED
      BY <3>1 DEF Takes, Begins
  <2>4. p \in 1 .. Len(t) => p # Len(t) + 1
    BY <2>2, LastIs, Zenon
  <2> HIDE DEF m
  <2> QED
    BY <2>1, <2>3, <2>4
<1> HIDE DEF m
<1>3. CASE m \in {"lbrace", "lbracket"}
  <2>1. TakesValue(D[p], m) = Opens(D[p], m)
    BY <1>3 DEF TakesValue
  <2>2. CASE Len(o) >= MaxJSONDepth
    <3>1. Takes(D[p], t[p]) = Stop(D[p], "depth")
      BY <1>1, <1>2, <1>3, <2>1, <2>2 DEF Opens
    <3>2. Verdict(t, D) = "depth"
      BY <1>a, <1>2, <1>3, <3>1, StopsThere DEF Refusals
    <3> QED
      BY <1>3, <2>2, <3>2 DEF m
  <2>3. CASE ~(Len(o) >= MaxJSONDepth)
    <3>1. D[p + 1] = Expecting(Append(o, Container(m, {})),
                               IF m = "lbrace" THEN "first key" ELSE "first value")
      BY <1>1, <1>2, <1>3, <2>1, <2>3 DEF Opens
    <3> QED
      BY <1>3, <2>3, <3>1 DEF m
  <2> QED
    BY <2>2, <2>3
<1>4. CASE m \in {"string", "scalar"}
  <2>1. D[p + 1] = AfterValue(o)
    BY <1>1, <1>2, <1>4 DEF TakesValue
  <2> QED
    BY <1>4, <2>1 DEF m
<1>5. CASE m \notin {"lbrace", "lbracket", "string", "scalar"}
  <2>1. m # "end" => Takes(D[p], t[p]) = Stop(D[p], "syntax")
    BY <1>a, <1>1, <1>2, <1>5 DEF TakesValue, m
  <2>2. Verdict(t, D) = "syntax"
    BY <1>a, <2>1, SyntaxThere DEF m
  <2> QED
    BY <1>5, <2>2 DEF m
<1> QED
    BY <1>3, <1>4, <1>5

\* An object opens, below the limit of depth.
LEMMA AtObject ==
    ASSUME NEW t, NEW D, Run(t, D), NEW p \in 1 .. Len(t) + 1, NEW o \in Seq(Opened),
           NEW e \in Begins, D[p] = Expecting(o, e),
           Is(t, p) = "lbrace", ~(Len(o) >= MaxJSONDepth)
    PROVE  D[p + 1] = Expecting(Append(o, Container("lbrace", {})), "first key")
<1>0. ~EmptyArray(t, p, e)
    BY DEF EmptyArray
<1> DEFINE opens(m) == Expecting(Append(o, Container(m, {})),
                                 IF m = "lbrace" THEN "first key" ELSE "first value")
<1>1. D[p + 1] = opens(Is(t, p))
  <2> HIDE DEF opens
  <2>1. Is(t, p) \in {"lbrace", "lbracket"} =>
           IF Len(o) >= MaxJSONDepth THEN Verdict(t, D) = "depth"
           ELSE D[p + 1] = opens(Is(t, p))
    BY <1>0, AtValue DEF opens
  <2> QED
    BY <2>1
<1>2. opens("lbrace") = Expecting(Append(o, Container("lbrace", {})), "first key")
    OBVIOUS
<1> HIDE DEF opens
<1> QED
    BY <1>1, <1>2

\* An array opens, below the limit of depth.
LEMMA AtArray ==
    ASSUME NEW t, NEW D, Run(t, D), NEW p \in 1 .. Len(t) + 1, NEW o \in Seq(Opened),
           NEW e \in Begins, D[p] = Expecting(o, e),
           Is(t, p) = "lbracket", ~(Len(o) >= MaxJSONDepth)
    PROVE  D[p + 1] = Expecting(Append(o, Container("lbracket", {})), "first value")
<1>0. ~EmptyArray(t, p, e)
    BY DEF EmptyArray
<1> DEFINE opens(m) == Expecting(Append(o, Container(m, {})),
                                 IF m = "lbrace" THEN "first key" ELSE "first value")
<1>1. D[p + 1] = opens(Is(t, p))
  <2> HIDE DEF opens
  <2>1. Is(t, p) \in {"lbrace", "lbracket"} =>
           IF Len(o) >= MaxJSONDepth THEN Verdict(t, D) = "depth"
           ELSE D[p + 1] = opens(Is(t, p))
    BY <1>0, AtValue DEF opens
  <2> QED
    BY <2>1
<1>2. opens("lbracket") = Expecting(Append(o, Container("lbracket", {})), "first value")
    OBVIOUS
<1> HIDE DEF opens
<1> QED
    BY <1>1, <1>2

\* A value of one token.
LEMMA AtScalar ==
    ASSUME NEW t, NEW D, Run(t, D), NEW p \in 1 .. Len(t) + 1, NEW o \in Seq(Opened),
           NEW e \in Begins, D[p] = Expecting(o, e),
           Is(t, p) \in {"string", "scalar"}
    PROVE  D[p + 1] = AfterValue(o)
<1>1. ~EmptyArray(t, p, e)
    BY DEF EmptyArray
<1> QED
    BY <1>1, AtValue

\* An array that ends where its first value might have begun.
LEMMA AtEmpty ==
    ASSUME NEW t, NEW D, Run(t, D), NEW p \in 1 .. Len(t) + 1, NEW o \in Seq(Opened),
           D[p] = Expecting(Append(o, Container("lbracket", {})), "first value"),
           Is(t, p) = "rbracket"
    PROVE  D[p + 1] = AfterValue(o)
<1> DEFINE top == Container("lbracket", {})
           d == Expecting(Append(o, top), "first value")
<1>1. t[p].is = "rbracket" /\ D[p + 1] = Takes(D[p], t[p])
    BY GoesOnThere
<1>2. d.expects = "first value"
    BY ExpectingOpen, ExpectingNext, ExpectingOn
<1>3. Outer(d) = o
  <2>1. top \in Opened
    BY ContainerIs
  <2> HIDE DEF top
  <2> QED
    BY <2>1, TopIs
<1> HIDE DEF d
<1> QED
    BY <1>1, <1>2, <1>3 DEF Takes, TakesValue, d

\* Where a key may begin, or an empty object end.
Names == {"key", "first key"}

MemberTaken(t, D, p, o, keys, e) ==
    /\ Is(t, p) = "string" =>
          IF Misspelled(t[p].means) THEN Verdict(t, D) = "spelling"
          ELSE IF t[p].means \in keys THEN Verdict(t, D) = "duplicate"
          ELSE D[p + 1] = Expecting(Append(o, Container("lbrace", keys \cup {t[p].means})),
                                    "colon")
    /\ Is(t, p) = "rbrace" /\ e = "first key" => D[p + 1] = AfterValue(o)
    /\ Is(t, p) # "string" /\ ~(Is(t, p) = "rbrace" /\ e = "first key") =>
          Verdict(t, D) = "syntax"

\* A key the Decoder takes or refuses, as the scanner does.
LEMMA AtMember ==
    ASSUME NEW t, NEW D, Run(t, D), ~OddKey(t, D), NEW p \in 1 .. Len(t) + 1,
           NEW o \in Seq(Opened), NEW keys \in SUBSET JSONKeys, NEW e \in Names,
           D[p] = Expecting(Append(o, Container("lbrace", keys)), e)
    PROVE  MemberTaken(t, D, p, o, keys, e)
<1>a. e \in {"key", "first key"} /\ e # "nothing"
    BY DEF Names
<1> USE DEF MemberTaken
<1> DEFINE m == Is(t, p)
           key == t[p].means
           top == Container("lbrace", keys)
           d == Expecting(Append(o, top), e)
           folds == \E f \in Fields : key # f /\ Folded[key] = Folded[f]
<1>1. top \in Opened /\ top.keys = keys
    BY ContainerIs
<1> HIDE DEF top
<1>2. d.expects = e /\ Inner(d) = top /\ Outer(d) = o
    BY <1>1, ExpectingOpen, ExpectingNext, ExpectingOn, TopIs
<1>3. D[p] = d
    BY DEF top
<1>4. Len(t) \in Nat
    BY RunIs
<1>0. \A x : Stop(d, x).code = x
    BY StopIs
<1> HIDE DEF d
<1>5. m # "end" => /\ t[p].is = m /\ D[p + 1] = Takes(d, t[p]) /\ p \in 1 .. Len(t)
                   /\ p # Len(t) + 1 /\ Takes(d, t[p]) = TakesKey(d, t[p])
  <2>1. ASSUME m # "end"
        PROVE  t[p].is = m /\ D[p + 1] = Takes(d, t[p]) /\ p \in 1 .. Len(t)
    BY <1>3, <2>1, GoesOnThere
  <2>2. Takes(d, t[p]) = TakesKey(d, t[p])
    BY <1>2 DEF Takes, Names
  <2>3. p \in 1 .. Len(t) => p # Len(t) + 1
    BY <1>4, LastIs, Zenon
  <2> HIDE DEF m
  <2> QED
    BY <2>1, <2>2, <2>3
<1>6. ASSUME NEW why \in Refusals, m # "end", Takes(d, t[p]) = Stop(d, why)
      PROVE  Verdict(t, D) = why
    BY <1>a, <1>3, <1>5, <1>6, StopsThere DEF d
<1>7. ASSUME m # "end", Takes(d, t[p]) = Stop(d, "spelling")
      PROVE  Misspelled(key)
  <2>1. D[p + 1].code = "spelling"
    BY <1>5, <1>7, <1>0
  <2>2. p + 1 \in 1 .. Len(t) => D[p + 1].code = "none"
    BY RunIs
  <2>3. p = Len(t)
    <3>1. p \in 1 .. Len(t)
      BY <1>5, <1>7
    <3>2. ~ (p + 1 \in 1 .. Len(t))
      BY <2>1, <2>2
    <3> QED
      BY <1>4, <3>1, <3>2, LastIs, Zenon
  <2> QED
    BY <2>1, <2>3 DEF OddKey
<1> HIDE DEF m, key
<1>8. Misspelled(key) => folds
    BY DEF Misspelled
<1> HIDE DEF folds
<1>9. CASE m = "string"
  <2>1. Takes(d, t[p]) = TakesName(d, key)
    BY <1>5, <1>9 DEF TakesKey, key
  <2>2. TakesName(d, key) = IF folds THEN Stop(d, "spelling")
                        ELSE IF key \in keys THEN Stop(d, "duplicate")
                        ELSE Expecting(Append(o, Container("lbrace", keys \cup {key})), "colon")
    BY <1>1, <1>2 DEF TakesName, folds
  <2>3. CASE folds
    <3>1. Takes(d, t[p]) = Stop(d, "spelling") /\ m # "end"
      BY <1>9, <2>1, <2>2, <2>3
    <3>2. Misspelled(key)
      BY <1>7, <3>1
    <3>3. Verdict(t, D) = "spelling"
      BY <1>6, <3>1 DEF Refusals
    <3> QED
      BY <1>9, <3>2, <3>3 DEF m, key
  <2>4. CASE ~folds /\ key \in keys
    <3>1. Takes(d, t[p]) = Stop(d, "duplicate") /\ m # "end"
      BY <1>9, <2>1, <2>2, <2>4
    <3>2. Verdict(t, D) = "duplicate"
      BY <1>6, <3>1 DEF Refusals
    <3> QED
      BY <1>8, <1>9, <2>4, <3>2 DEF m, key
  <2>5. CASE ~folds /\ key \notin keys
    <3>1. D[p + 1] = Expecting(Append(o, Container("lbrace", keys \cup {key})), "colon")
      BY <1>5, <1>9, <2>1, <2>2, <2>5
    <3> QED
      BY <1>8, <1>9, <2>5, <3>1 DEF m, key
  <2> QED
    BY <2>3, <2>4, <2>5
<1>10. CASE m = "rbrace" /\ e = "first key"
  <2>1. D[p + 1] = AfterValue(o)
    BY <1>2, <1>5, <1>10 DEF TakesKey
  <2> QED
    BY <1>10, <2>1 DEF m
<1>11. CASE m # "string" /\ ~(m = "rbrace" /\ e = "first key")
  <2>1. m # "end" => Takes(d, t[p]) = Stop(d, "syntax")
    BY <1>2, <1>5, <1>11 DEF TakesKey
  <2>2. Verdict(t, D) = "syntax"
    BY <1>a, <1>3, <2>1, SyntaxThere DEF d, m
  <2> QED
    BY <1>11, <2>2 DEF m
<1> QED
    BY <1>9, <1>10, <1>11

\* Between the name of a member and its value.
LEMMA AtColon ==
    ASSUME NEW t, NEW D, Run(t, D), NEW p \in 1 .. Len(t) + 1, NEW o, D[p] = Expecting(o, "colon")
    PROVE  IF Is(t, p) = "colon" THEN D[p + 1] = Expecting(o, "value")
           ELSE Verdict(t, D) = "syntax"
<1> DEFINE m == Is(t, p)
<1>1. D[p].expects = "colon"
    BY ExpectingNext
<1>2. D[p].open = o
    BY ExpectingOpen
<1>3. ASSUME m # "end"
      PROVE  t[p].is = m /\ D[p + 1] = Takes(D[p], t[p])
    BY <1>3, GoesOnThere
<1> HIDE DEF m
<1>4. CASE m = "colon"
  <2>1. D[p + 1] = Expecting(D[p].open, "value")
    BY <1>1, <1>3, <1>4 DEF Takes
  <2>2. D[p + 1] = Expecting(o, "value")
    BY <1>2, <2>1
  <2> QED
    BY <1>4, <2>2 DEF m
<1>5. CASE m # "colon"
  <2>1. ASSUME m # "end"
        PROVE  Takes(D[p], t[p]) = Stop(D[p], "syntax")
    BY <1>1, <1>3, <1>5, <2>1 DEF Takes
  <2>2. Verdict(t, D) = "syntax"
    BY <2>1, SyntaxThere DEF m
  <2> QED
    BY <1>5, <2>2 DEF m
<1> QED
    BY <1>4, <1>5

\* After a member or an element.
LEMMA AtNext ==
    ASSUME NEW t, NEW D, Run(t, D), NEW p \in 1 .. Len(t) + 1, NEW o \in Seq(Opened),
           NEW kind \in {"lbrace", "lbracket"}, NEW keys \in SUBSET JSONKeys,
           D[p] = Expecting(Append(o, Container(kind, keys)), "comma")
    PROVE  LET last == IF kind = "lbrace" THEN "rbrace" ELSE "rbracket"
           IN  /\ Is(t, p) = "comma" =>
                     D[p + 1] = Expecting(Append(o, Container(kind, keys)),
                                          IF kind = "lbrace" THEN "key" ELSE "value")
               /\ Is(t, p) = last => D[p + 1] = AfterValue(o)
               /\ Is(t, p) \notin {"comma", last} => Verdict(t, D) = "syntax"
<1> DEFINE m == Is(t, p)
           last == IF kind = "lbrace" THEN "rbrace" ELSE "rbracket"
           top == Container(kind, keys)
           s == Append(o, top)
<1>1. top \in Opened /\ top.kind = kind
    BY ContainerIs
<1> HIDE DEF top
<1>2. Inner(Expecting(s, "comma")) = top /\ Outer(Expecting(s, "comma")) = o
    BY <1>1, TopIs
<1> HIDE DEF s
<1>3. D[p] = Expecting(s, "comma")
    BY DEF s, top
<1>4. D[p].expects = "comma"
    BY <1>3, ExpectingNext
<1>5. D[p].open = s
    BY <1>3, ExpectingOpen
<1>6. Inner(D[p]).kind = kind /\ Outer(D[p]) = o
    BY <1>1, <1>2, <1>3
<1>7. ASSUME m # "end"
      PROVE  t[p].is = m /\ D[p + 1] = Takes(D[p], t[p])
    BY <1>7, GoesOnThere
<1> HIDE DEF m
<1>8. Takes(D[p], t[p]) = TakesNext(D[p], t[p].is)
    BY <1>4 DEF Takes
<1>9. CASE m = "comma"
  <2>1. D[p + 1] = TakesNext(D[p], m)
    BY <1>7, <1>8, <1>9
  <2>2. D[p + 1] = Expecting(D[p].open, IF Inner(D[p]).kind = "lbrace" THEN "key" ELSE "value")
    BY <1>9, <2>1 DEF TakesNext
  <2>3. D[p + 1] = Expecting(s, IF kind = "lbrace" THEN "key" ELSE "value")
    BY <1>5, <1>6, <2>2
  <2> QED
    BY <1>9, <2>3 DEF m, s, top
<1>10. CASE m = last
  <2>1. m # "end" /\ m # "comma"
    BY <1>10
  <2>2. D[p + 1] = TakesNext(D[p], m)
    BY <1>7, <1>8, <2>1
  <2>3. D[p + 1] = AfterValue(o)
    BY <1>6, <1>10, <2>1, <2>2 DEF TakesNext
  <2> QED
    BY <1>10, <2>1, <2>3 DEF m
<1>11. CASE m \notin {"comma", last}
  <2>1. ASSUME m # "end"
        PROVE  Takes(D[p], t[p]) = Stop(D[p], "syntax")
    <3>1. Takes(D[p], t[p]) = TakesNext(D[p], m)
      BY <1>7, <1>8, <2>1
    <3> QED
      BY <1>6, <1>11, <3>1 DEF TakesNext
  <2>2. Verdict(t, D) = "syntax"
    BY <1>3, <2>1, SyntaxThere DEF m
  <2> QED
    BY <1>11, <2>2 DEF m
<1> QED
    BY <1>9, <1>10, <1>11

\* After the value a body is.
LEMMA AtNothing ==
    ASSUME NEW t, NEW D, Run(t, D), NEW p \in 1 .. Len(t) + 1, NEW o, D[p] = Expecting(o, "nothing")
    PROVE  Verdict(t, D) = IF p = Len(t) + 1 THEN "none" ELSE "syntax"
<1>0. Len(t) \in Nat
    BY RunIs
<1>1. D[p].expects = "nothing"
    BY ExpectingNext
<1>2. D[p].code = "none"
    BY ExpectingOn
<1>3. CASE p = Len(t) + 1
    BY <1>1, <1>2, <1>3 DEF Verdict, Outcome
<1>4. CASE p # Len(t) + 1
  <2>1. p \in 1 .. Len(t)
    BY <1>0, <1>4
  <2>2. D[p + 1] = Takes(D[p], t[p])
    BY <2>1, RunIs
  <2>3. Takes(D[p], t[p]) = Stop(D[p], "syntax")
    BY <1>1 DEF Takes
  <2>4. D[p + 1].code = "syntax"
    BY <2>2, <2>3, StopIs
  <2>5. p = Len(t)
    <3>1. ~ (p + 1 \in 1 .. Len(t))
      BY <2>4, RunIs
    <3> QED
      BY <1>0, <2>1, <3>1, LastIs, Zenon
  <2> QED
    BY <1>4, <2>4, <2>5 DEF Verdict, Outcome
<1> QED
    BY <1>3, <1>4

-----------------------------------------------------------------------------
(* The scanner follows the Decoder *)

\* What a call made at p, below the containers o, comes back with.
Follows(t, D, r, p, o) ==
    IF r.code = "none"
    THEN r.at \in p + 1 .. Len(t) + 1 /\ D[r.at] = AfterValue(o)
    ELSE r.code = Verdict(t, D)

NextKey(keys) == IF IsNoKeys(keys) THEN "first key" ELSE "key"
NextElement(elements) == IF elements = 0 THEN "first value" ELSE "value"

ValueFollows(t, D, n) ==
    \A p \in 1 .. Len(t) + 1, o \in Seq(Opened), e \in Begins :
       2 * (Len(t) + 1 - p) + 1 <= n /\ D[p] = Expecting(o, e)
       /\ ~EmptyArray(t, p, e) =>
          Follows(t, D, Scans(t)[n][ValueAt(p, Len(o))], p, o)

ObjectFollows(t, D, n) ==
    \A p \in 1 .. Len(t) + 1, o \in Seq(Opened), keys \in KeySets :
       2 * (Len(t) + 1 - p) + 2 <= n
       /\ D[p] = Expecting(Append(o, Container("lbrace", Held(keys))),
                           NextKey(keys)) =>
          Follows(t, D, Scans(t)[n][ObjectAt(p, Len(o), keys)], p, o)

ArrayFollows(t, D, n) ==
    \A p \in 1 .. Len(t) + 1, o \in Seq(Opened), elements \in Nat :
       2 * (Len(t) + 1 - p) + 2 <= n
       /\ D[p] = Expecting(Append(o, Container("lbracket", {})),
                           NextElement(elements)) =>
          Follows(t, D, Scans(t)[n][ArrayAt(p, Len(o), elements)], p, o)

\* What a call may return and follow the Decoder.
LEMMA FollowsFine ==
    ASSUME NEW t, NEW D, NEW p \in Nat, NEW o, NEW q \in p + 1 .. Len(t) + 1,
           D[q] = AfterValue(o)
    PROVE  Follows(t, D, Fine(q), p, o)
BY DEF Follows, Fine

LEMMA FollowsRejected ==
    ASSUME NEW t, NEW D, NEW p, NEW o, NEW why \in Refusals, Verdict(t, D) = why
    PROVE  Follows(t, D, Rejected(why), p, o)
BY DEF Follows, Rejected, Refusals

\* What began earlier follows too.
LEMMA FollowsBefore ==
    ASSUME NEW t, Len(t) \in Nat, NEW D, NEW p \in Nat, NEW q \in Nat, p <= q, NEW o, NEW r,
           Follows(t, D, r, q, o)
    PROVE  Follows(t, D, r, p, o)
BY DEF Follows

LEMMA ValueCall ==
    ASSUME NEW p, NEW depth
    PROVE  /\ ValueAt(p, depth).to = "value" /\ ValueAt(p, depth).at = p
           /\ ValueAt(p, depth).depth = depth
BY DEF ValueAt

\* A call is what its loop makes of calls nested one less deep.
LEMMA CallIs ==
    ASSUME NEW t \in Seq(Tokens), NEW n \in 1 .. Deepest(t), NEW c \in ScanCalls
    PROVE  Scans(t)[n][c] = Scanned(t, c, Scans(t)[n - 1])
BY ScansAre

LEMMA PlaceIs ==
    ASSUME NEW L \in Nat, NEW p \in 1 .. L + 1
    PROVE  p \in Nat /\ p \in Nat \ {0} /\ p + 1 \in Nat /\ p <= p + 1
OBVIOUS

LEMMA DeeperIs ==
    ASSUME NEW L \in Nat, NEW n \in Nat, NEW p \in 1 .. L, 2 * (L + 1 - p) + 1 <= n
    PROVE  /\ p + 1 \in 1 .. L + 1 /\ p + 1 \in p + 1 .. L + 1
           /\ 2 * (L + 1 - (p + 1)) + 2 <= n - 1
OBVIOUS

\* One call of value, given the calls it makes.
LEMMA ValueStep ==
    ASSUME NEW t, NEW D, Run(t, D), NEW n \in 1 .. Deepest(t),
           ObjectFollows(t, D, n - 1), ArrayFollows(t, D, n - 1)
    PROVE  ValueFollows(t, D, n)
<1> DEFINE L == Len(t)
<1>1. t \in Seq(Tokens) /\ L \in Nat /\ n \in Nat
    BY RunIs, ScansAre
<1> SUFFICES ASSUME NEW p \in 1 .. L + 1, NEW o \in Seq(Opened), NEW e \in Begins,
                    2 * (L + 1 - p) + 1 <= n, D[p] = Expecting(o, e),
                    ~EmptyArray(t, p, e)
             PROVE  Follows(t, D, Scans(t)[n][ValueAt(p, Len(o))], p, o)
    BY DEF ValueFollows
<1> DEFINE scan == Scans(t)[n - 1]
           m == Is(t, p)
           c == ValueAt(p, Len(o))
           r == Scans(t)[n][c]
<1>2. Len(o) \in Nat /\ p \in Nat \ {0} /\ p \in Nat /\ p + 1 \in Nat /\ p <= p + 1
  <2>1. Len(o) \in Nat
    BY EmptyIs
  <2> QED
    BY <1>1, <2>1, PlaceIs, Zenon
<1>3. c.at = p /\ c.depth = Len(o) /\ c.to = "value" /\ c \in ScanCalls
  <2>1. c \in ScanCalls
    BY <1>2, CallsAre, Zenon
  <2>2. c.at = p
    BY ValueCall
  <2>3. c.depth = Len(o)
    BY ValueCall
  <2>4. c.to = "value"
    BY Zenon DEF ValueAt
  <2> HIDE DEF c
  <2> QED
    BY <2>1, <2>2, <2>3, <2>4
<1>4. r = ScanValue(t, c, scan)
    BY <1>1, <1>3, CallIs DEF Scanned
<1> HIDE DEF c, r, scan
<1>5. m # "end" => p + 1 \in 1 .. L + 1 /\ p + 1 \in p + 1 .. L + 1
                   /\ 2 * (L + 1 - (p + 1)) + 2 <= n - 1
  <2>1. ASSUME m # "end"
        PROVE  p \in 1 .. L
    BY <2>1, GoesOnThere
  <2> HIDE DEF m, L
  <2> QED
    BY <1>1, <2>1, DeeperIs, Zenon
<1>6. Follows(t, D, r, p, o)
  <2>1. CASE m \in {"lbrace", "lbracket"} /\ Len(o) >= MaxJSONDepth
    <3>1. r = Rejected("depth")
      BY <1>3, <1>4, <2>1 DEF ScanValue
    <3>2. Verdict(t, D) = "depth"
      BY <2>1, AtValue
    <3> QED
      BY <3>1, <3>2, FollowsRejected DEF Refusals
  <2>2. CASE m = "lbrace" /\ ~(Len(o) >= MaxJSONDepth)
    <3>1. r = scan[ObjectAt(p + 1, Len(o), NoKeys)]
      BY <1>3, <1>4, <2>2 DEF ScanValue
    <3>2. D[p + 1] = Expecting(Append(o, Container("lbrace", {})), "first key")
      BY <2>2, AtObject
    <3>3. Follows(t, D, r, p + 1, o)
      <4>1. D[p + 1] = Expecting(Append(o, Container("lbrace", Held(NoKeys))),
                                 NextKey(NoKeys))
        BY <3>2, NoKeysAre DEF NextKey
      <4>2. NoKeys \in KeySets
        BY NoKeysAre
      <4>3. p + 1 \in 1 .. L + 1 /\ 2 * (L + 1 - (p + 1)) + 2 <= n - 1
        BY <1>5, <2>2
      <4> QED
        BY <3>1, <4>1, <4>2, <4>3, Zenon DEF ObjectFollows, scan
    <3> QED
      BY <1>1, <1>2, <3>3, FollowsBefore, Zenon
  <2>3. CASE m = "lbracket" /\ ~(Len(o) >= MaxJSONDepth)
    <3>1. r = scan[ArrayAt(p + 1, Len(o), 0)]
      BY <1>3, <1>4, <2>3 DEF ScanValue
    <3>2. D[p + 1] = Expecting(Append(o, Container("lbracket", {})), "first value")
      BY <2>3, AtArray DEF m
    <3>3. Follows(t, D, r, p + 1, o)
      <4>1. D[p + 1] = Expecting(Append(o, Container("lbracket", {})),
                                 NextElement(0))
        BY <3>2 DEF NextElement
      <4>2. 0 \in Nat
        OBVIOUS
      <4>3. p + 1 \in 1 .. L + 1 /\ 2 * (L + 1 - (p + 1)) + 2 <= n - 1
        BY <1>5, <2>3
      <4> QED
        BY <3>1, <4>1, <4>2, <4>3, Zenon DEF ArrayFollows, scan
    <3> QED
      BY <1>1, <1>2, <3>3, FollowsBefore, Zenon
  <2>4. CASE m \in {"string", "scalar"}
    <3>1. r = Fine(p + 1)
      BY <1>3, <1>4, <2>4 DEF ScanValue
    <3>2. D[p + 1] = AfterValue(o)
      <4>1. Is(t, p) \in {"string", "scalar"}
        BY <2>4
      <4> HIDE DEF m
      <4> QED
        BY <4>1, AtScalar
    <3>3. p + 1 \in p + 1 .. L + 1
      BY <1>5, <2>4
    <3> QED
      BY <1>2, <3>1, <3>2, <3>3, FollowsFine
  <2>5. CASE m \notin {"lbrace", "lbracket", "string", "scalar"}
    <3>1. r = Rejected("syntax")
      BY <1>3, <1>4, <2>5 DEF ScanValue
    <3>2. Verdict(t, D) = "syntax"
      BY <2>5, AtValue
    <3> QED
      BY <3>1, <3>2, FollowsRejected DEF Refusals
  <2> HIDE DEF m
  <2> QED
    BY <2>1, <2>2, <2>3, <2>4, <2>5
<1> QED
    BY <1>6 DEF r, c

LEMMA FurtherIs ==
    ASSUME NEW L \in Nat, NEW n \in Nat, NEW p \in 1 .. L + 1, NEW q \in p + 1 .. L + 1,
           2 * (L + 1 - p) + 2 <= n
    PROVE  /\ q \in 1 .. L + 1
           /\ q \in 1 .. L => /\ q + 1 \in 1 .. L + 1 /\ q + 1 \in p + 1 .. L + 1
                              /\ q + 1 \in Nat /\ p <= q + 1
                              /\ 2 * (L + 1 - (q + 1)) + 2 <= n - 1
OBVIOUS

\* The Decoder after a value in a container.
LEMMA AfterContainer ==
    ASSUME NEW o \in Seq(Opened), NEW x \in Opened
    PROVE  AfterValue(Append(o, x)) = Expecting(Append(o, x), "comma")
<1>1. Append(o, x) # <<>>
    BY TopIs
<1> QED
    BY <1>1, Zenon DEF AfterValue

\* After a member the loop goes on as the Decoder does.
LEMMA MemberFollows ==
    ASSUME NEW t, NEW D, Run(t, D), NEW n \in 1 .. Deepest(t), ObjectFollows(t, D, n - 1),
           NEW p \in 1 .. Len(t) + 1, NEW o \in Seq(Opened), NEW keys \in KeySets,
           2 * (Len(t) + 1 - p) + 2 <= n, ~IsNoKeys(keys), Held(keys) \in SUBSET JSONKeys,
           NEW q \in p + 1 .. Len(t) + 1,
           D[q] = AfterValue(Append(o, Container("lbrace", Held(keys))))
    PROVE  /\ Is(t, q) = "comma" =>
                 Follows(t, D, Scans(t)[n - 1][ObjectAt(q + 1, Len(o), keys)], p, o)
           /\ Is(t, q) = "rbrace" => Follows(t, D, Fine(q + 1), p, o)
           /\ Is(t, q) \notin {"comma", "rbrace"} => Follows(t, D, Rejected("syntax"), p, o)
<1> DEFINE L == Len(t)
           m == Is(t, q)
           top == Container("lbrace", Held(keys))
<1>1. L \in Nat /\ n \in Nat
    BY RunIs, ScansAre
<1>2. p \in Nat /\ q \in 1 .. L + 1
    BY <1>1, PlaceIs, FurtherIs, Zenon
<1>3. ASSUME m # "end"
      PROVE  q \in 1 .. L
    BY <1>2, <1>3, GoesOnThere
<1> HIDE DEF L, m
<1>4. ASSUME m # "end"
      PROVE  /\ q + 1 \in 1 .. L + 1 /\ q + 1 \in p + 1 .. L + 1 /\ q + 1 \in Nat /\ p <= q + 1
             /\ 2 * (L + 1 - (q + 1)) + 2 <= n - 1
  <2>1. q \in 1 .. L
    BY <1>3, <1>4
  <2> QED
    BY <1>1, <2>1, FurtherIs, Zenon DEF L
<1>5. D[q] = Expecting(Append(o, top), "comma")
  <2>1. top \in Opened
    BY ContainerIs
  <2> HIDE DEF top
  <2>2. AfterValue(Append(o, top)) = Expecting(Append(o, top), "comma")
    BY <2>1, AfterContainer
  <2> QED
    BY <2>2, Zenon DEF top
<1>6. /\ m = "comma" => D[q + 1] = Expecting(Append(o, top), "key")
      /\ m = "rbrace" => D[q + 1] = AfterValue(o)
      /\ m \notin {"comma", "rbrace"} => Verdict(t, D) = "syntax"
    BY <1>2, <1>5, AtNext DEF m, L
<1>7. ASSUME m = "comma"
      PROVE  Follows(t, D, Scans(t)[n - 1][ObjectAt(q + 1, Len(o), keys)], p, o)
  <2>1. NextKey(keys) = "key"
    BY DEF NextKey
  <2>2. D[q + 1] = Expecting(Append(o, Container("lbrace", Held(keys))), NextKey(keys))
    BY <1>6, <1>7, <2>1
  <2>3. m # "end"
    BY <1>7
  <2>4. Follows(t, D, Scans(t)[n - 1][ObjectAt(q + 1, Len(o), keys)], q + 1, o)
    BY <1>4, <2>2, <2>3, Zenon DEF ObjectFollows, L
  <2> QED
    BY <1>1, <1>2, <1>4, <2>3, <2>4, FollowsBefore, Zenon DEF L
<1>8. ASSUME m = "rbrace"
      PROVE  Follows(t, D, Fine(q + 1), p, o)
  <2>1. m # "end"
    BY <1>8
  <2> QED
    BY <1>2, <1>4, <1>6, <1>8, <2>1, FollowsFine, Zenon DEF L
<1>9. ASSUME m \notin {"comma", "rbrace"}
      PROVE  Follows(t, D, Rejected("syntax"), p, o)
  <2>1. "syntax" \in Refusals
    BY DEF Refusals
  <2> QED
    BY <1>6, <1>9, <2>1, FollowsRejected, Zenon
<1> QED
    BY <1>7, <1>8, <1>9 DEF m

\* After an element as well.
LEMMA ElementFollows ==
    ASSUME NEW t, NEW D, Run(t, D), NEW n \in 1 .. Deepest(t), ArrayFollows(t, D, n - 1),
           NEW p \in 1 .. Len(t) + 1, NEW o \in Seq(Opened), NEW elements \in Nat,
           2 * (Len(t) + 1 - p) + 2 <= n,
           NEW q \in p + 1 .. Len(t) + 1,
           D[q] = AfterValue(Append(o, Container("lbracket", {})))
    PROVE  /\ Is(t, q) = "comma" =>
                 Follows(t, D, Scans(t)[n - 1][ArrayAt(q + 1, Len(o), elements + 1)], p, o)
           /\ Is(t, q) = "rbracket" => Follows(t, D, Fine(q + 1), p, o)
           /\ Is(t, q) \notin {"comma", "rbracket"} => Follows(t, D, Rejected("syntax"), p, o)
<1> DEFINE L == Len(t)
           m == Is(t, q)
           top == Container("lbracket", {})
<1>1. L \in Nat /\ n \in Nat
    BY RunIs, ScansAre
<1>2. p \in Nat /\ q \in 1 .. L + 1
    BY <1>1, PlaceIs, FurtherIs, Zenon
<1>3. ASSUME m # "end"
      PROVE  q \in 1 .. L
    BY <1>2, <1>3, GoesOnThere
<1> HIDE DEF L, m
<1>4. ASSUME m # "end"
      PROVE  /\ q + 1 \in 1 .. L + 1 /\ q + 1 \in p + 1 .. L + 1 /\ q + 1 \in Nat /\ p <= q + 1
             /\ 2 * (L + 1 - (q + 1)) + 2 <= n - 1
  <2>1. q \in 1 .. L
    BY <1>3, <1>4
  <2> QED
    BY <1>1, <2>1, FurtherIs, Zenon DEF L
<1>5. D[q] = Expecting(Append(o, top), "comma")
  <2>1. top \in Opened
    BY ContainerIs
  <2> HIDE DEF top
  <2>2. AfterValue(Append(o, top)) = Expecting(Append(o, top), "comma")
    BY <2>1, AfterContainer
  <2> QED
    BY <2>2, Zenon DEF top
<1>6. /\ m = "comma" => D[q + 1] = Expecting(Append(o, top), "value")
      /\ m = "rbracket" => D[q + 1] = AfterValue(o)
      /\ m \notin {"comma", "rbracket"} => Verdict(t, D) = "syntax"
    BY <1>2, <1>5, AtNext DEF m, L
<1>7. ASSUME m = "comma"
      PROVE  Follows(t, D, Scans(t)[n - 1][ArrayAt(q + 1, Len(o), elements + 1)], p, o)
  <2>1. NextElement(elements + 1) = "value" /\ elements + 1 \in Nat
    BY DEF NextElement
  <2>2. D[q + 1] = Expecting(Append(o, Container("lbracket", {})), NextElement(elements + 1))
    BY <1>6, <1>7, <2>1
  <2>3. m # "end"
    BY <1>7
  <2>4. Follows(t, D, Scans(t)[n - 1][ArrayAt(q + 1, Len(o), elements + 1)], q + 1, o)
    BY <1>4, <2>1, <2>2, <2>3, Zenon DEF ArrayFollows, L
  <2> QED
    BY <1>1, <1>2, <1>4, <2>3, <2>4, FollowsBefore, Zenon DEF L
<1>8. ASSUME m = "rbracket"
      PROVE  Follows(t, D, Fine(q + 1), p, o)
  <2>1. m # "end"
    BY <1>8
  <2> QED
    BY <1>2, <1>4, <1>6, <1>8, <2>1, FollowsFine, Zenon DEF L
<1>9. ASSUME m \notin {"comma", "rbracket"}
      PROVE  Follows(t, D, Rejected("syntax"), p, o)
  <2>1. "syntax" \in Refusals
    BY DEF Refusals
  <2> QED
    BY <1>6, <1>9, <2>1, FollowsRejected, Zenon
<1> QED
    BY <1>7, <1>8, <1>9 DEF m

LEMMA InnerIs ==
    ASSUME NEW L \in Nat, NEW n \in Nat, NEW p \in 1 .. L + 1, 2 * (L + 1 - p) + 2 <= n
    PROVE  /\ 2 * (L + 1 - p) + 1 <= n - 1
           /\ p \in 1 .. L => p + 1 \in 1 .. L + 1 /\ p + 1 \in p + 1 .. L + 1
           /\ p \in 1 .. L /\ p + 1 \in 1 .. L =>
                 /\ p + 2 \in 1 .. L + 1 /\ p + 2 \in Nat /\ p <= p + 2
                 /\ 2 * (L + 1 - (p + 2)) + 1 <= n - 1
                 /\ \A q \in (p + 2) + 1 .. L + 1 : q \in p + 1 .. L + 1
OBVIOUS

\* One turn of the loop of array.
LEMMA ArrayStep ==
    ASSUME NEW t, NEW D, Run(t, D), NEW n \in 1 .. Deepest(t),
           ValueFollows(t, D, n - 1), ArrayFollows(t, D, n - 1)
    PROVE  ArrayFollows(t, D, n)
<1> DEFINE L == Len(t)
<1>1. t \in Seq(Tokens) /\ L \in Nat /\ n \in Nat
    BY RunIs, ScansAre
<1> SUFFICES ASSUME NEW p \in 1 .. L + 1, NEW o \in Seq(Opened), NEW elements \in Nat,
                    2 * (L + 1 - p) + 2 <= n,
                    D[p] = Expecting(Append(o, Container("lbracket", {})), NextElement(elements))
             PROVE  Follows(t, D, Scans(t)[n][ArrayAt(p, Len(o), elements)], p, o)
    BY DEF ArrayFollows
<1> DEFINE scan == Scans(t)[n - 1]
           m == Is(t, p)
           c == ArrayAt(p, Len(o), elements)
           r == Scans(t)[n][c]
           v == scan[ValueAt(p, Len(o) + 1)]
           open == Append(o, Container("lbracket", {}))
<1>2. /\ Len(o) \in Nat /\ p \in Nat \ {0} /\ p \in Nat
      /\ 2 * (L + 1 - p) + 1 <= n - 1 /\ (p \in 1 .. L => p + 1 \in p + 1 .. L + 1)
  <2>1. Len(o) \in Nat
    BY EmptyIs
  <2> QED
    BY <1>1, <2>1, PlaceIs, InnerIs, Zenon
<1>3. c.at = p /\ c.depth = Len(o) /\ c.to = "array" /\ c.elements = elements /\ c \in ScanCalls
  <2>1. c \in ScanCalls
    BY <1>2, CallsAre, Zenon
  <2>2. c.to = "array" /\ c.at = p /\ c.depth = Len(o) /\ c.elements = elements
    BY Zenon DEF ArrayAt
  <2> QED
    BY <2>1, <2>2, Zenon
<1>4. r = ScanArray(t, c, scan)
    BY <1>1, <1>3, CallIs DEF Scanned
<1>5. open \in Seq(Opened) /\ Len(open) = Len(o) + 1
  <2>1. Container("lbracket", {}) \in Opened
    BY ContainerIs
  <2> QED
    BY <2>1, TopIs, Zenon
<1>6. NextElement(elements) \in Begins
    BY DEF NextElement, Begins
<1> HIDE DEF c, r, scan, v
<1>7. r = IF m = "rbracket" THEN IF elements = 0 THEN Fine(p + 1) ELSE Rejected("syntax")
          ELSE IF v.code # "none" THEN v
          ELSE IF Is(t, v.at) = "comma" THEN scan[ArrayAt(v.at + 1, Len(o), elements + 1)]
          ELSE IF Is(t, v.at) = "rbracket" THEN Fine(v.at + 1)
          ELSE Rejected("syntax")
    BY <1>3, <1>4, Zenon DEF ScanArray, v
<1> HIDE DEF m
<1>8. CASE m = "rbracket" /\ elements = 0
  <2>1. r = Fine(p + 1)
    BY <1>7, <1>8
  <2>2. NextElement(elements) = "first value"
    BY <1>8 DEF NextElement
  <2>3. D[p + 1] = AfterValue(o)
    <3>1. D[p] = Expecting(Append(o, Container("lbracket", {})), "first value")
      BY <2>2
    <3> QED
      BY <1>8, <3>1, AtEmpty, Zenon DEF m, L
  <2>4. p \in 1 .. L
    BY <1>8, GoesOnThere DEF m
  <2> QED
    BY <1>2, <2>1, <2>3, <2>4, FollowsFine DEF r, c
<1>9. CASE m = "rbracket" /\ elements # 0
  <2>1. r = Rejected("syntax")
    BY <1>7, <1>9
  <2>2. NextElement(elements) = "value"
    BY <1>9 DEF NextElement
  <2>3. ~EmptyArray(t, p, NextElement(elements))
    BY <2>2 DEF EmptyArray
  <2>4. m \notin {"lbrace", "lbracket", "string", "scalar"}
    BY <1>9
  <2>5. Verdict(t, D) = "syntax"
    <3> HIDE DEF open
    <3>1. D[p] = Expecting(open, NextElement(elements))
      BY DEF open
    <3> QED
      BY <1>5, <1>6, <2>3, <2>4, <3>1, AtValue, Zenon DEF m
  <2> QED
    BY <2>1, <2>5, FollowsRejected DEF Refusals, r, c
<1>10. CASE m # "rbracket"
  <2>1. ~EmptyArray(t, p, NextElement(elements))
    BY <1>10 DEF EmptyArray, m
  <2>2. Follows(t, D, v, p, open)
    <3>1. Follows(t, D, scan[ValueAt(p, Len(open))], p, open)
      <4> HIDE DEF open
      <4>1. D[p] = Expecting(open, NextElement(elements))
        BY DEF open
      <4> QED
        BY <1>2, <1>5, <1>6, <2>1, <4>1, Zenon DEF ValueFollows, scan
    <3> QED
      BY <1>5, <3>1, Zenon DEF v
  <2>3. CASE v.code # "none"
    <3>1. r = v
      BY <1>7, <1>10, <2>3
    <3> QED
      BY <2>2, <2>3, <3>1 DEF Follows, r, c
  <2>4. CASE v.code = "none"
    <3>1. v.at \in p + 1 .. L + 1 /\ D[v.at] = AfterValue(open)
      BY <2>2, <2>4 DEF Follows
    <3> DEFINE q == v.at
               k == Is(t, q)
    <3>2. /\ k = "comma" => Follows(t, D, scan[ArrayAt(q + 1, Len(o), elements + 1)], p, o)
          /\ k = "rbracket" => Follows(t, D, Fine(q + 1), p, o)
          /\ k \notin {"comma", "rbracket"} => Follows(t, D, Rejected("syntax"), p, o)
      BY <3>1, ElementFollows, Zenon DEF scan
    <3>3. r = IF k = "comma" THEN scan[ArrayAt(q + 1, Len(o), elements + 1)]
              ELSE IF k = "rbracket" THEN Fine(q + 1) ELSE Rejected("syntax")
      BY <1>7, <1>10, <2>4
    <3> HIDE DEF q, k
    <3> QED
      BY <3>2, <3>3 DEF r, c
  <2> QED
    BY <2>3, <2>4
<1> QED
    BY <1>8, <1>9, <1>10 DEF r, c

LEMMA HeldIs ==
    ASSUME NEW keys \in KeySets
    PROVE  Held(keys) \in SUBSET JSONKeys
<1>1. keys.inline \in Seq(JSONKeys) /\ keys.spill \in SUBSET JSONKeys
    BY DEF KeySets
<1>2. \A n \in DOMAIN keys.inline : keys.inline[n] \in JSONKeys
    BY <1>1
<1> QED
    BY <1>1, <1>2 DEF Held

\* One turn of the loop of object.
LEMMA ObjectStep ==
    ASSUME NEW t, NEW D, Run(t, D), ~OddKey(t, D), NEW n \in 1 .. Deepest(t),
           ValueFollows(t, D, n - 1), ObjectFollows(t, D, n - 1)
    PROVE  ObjectFollows(t, D, n)
<1> DEFINE L == Len(t)
<1>1. t \in Seq(Tokens) /\ L \in Nat /\ n \in Nat
    BY RunIs, ScansAre
<1> SUFFICES ASSUME NEW p \in 1 .. L + 1, NEW o \in Seq(Opened), NEW keys \in KeySets,
                    2 * (L + 1 - p) + 2 <= n,
                    D[p] = Expecting(Append(o, Container("lbrace", Held(keys))), NextKey(keys))
             PROVE  Follows(t, D, Scans(t)[n][ObjectAt(p, Len(o), keys)], p, o)
    BY DEF ObjectFollows
<1> DEFINE scan == Scans(t)[n - 1]
           m == Is(t, p)
           key == t[p].means
           more == Added(keys, key)
           c == ObjectAt(p, Len(o), keys)
           r == Scans(t)[n][c]
           v == scan[ValueAt(p + 2, Len(o) + 1)]
           open == Append(o, Container("lbrace", Held(more)))
<1>2. /\ Len(o) \in Nat /\ p \in Nat \ {0} /\ p \in Nat
      /\ p \in 1 .. L => p + 1 \in 1 .. L + 1 /\ p + 1 \in p + 1 .. L + 1
      /\ p \in 1 .. L /\ p + 1 \in 1 .. L =>
            /\ p + 2 \in 1 .. L + 1 /\ p + 2 \in Nat /\ p <= p + 2
            /\ 2 * (L + 1 - (p + 2)) + 1 <= n - 1
            /\ \A q \in (p + 2) + 1 .. L + 1 : q \in p + 1 .. L + 1
  <2>1. Len(o) \in Nat
    BY EmptyIs
  <2> QED
    BY <1>1, <2>1, PlaceIs, InnerIs, Zenon
<1>3. c.at = p /\ c.depth = Len(o) /\ c.to = "object" /\ c.keys = keys /\ c \in ScanCalls
  <2>1. c \in ScanCalls
    BY <1>2, CallsAre, Zenon
  <2>2. c.to = "object" /\ c.at = p /\ c.depth = Len(o) /\ c.keys = keys
    BY Zenon DEF ObjectAt
  <2> QED
    BY <2>1, <2>2, Zenon
<1>4. r = ScanObject(t, c, scan)
    BY <1>1, <1>3, CallIs DEF Scanned
<1>5. Held(keys) \in SUBSET JSONKeys
    BY HeldIs
<1>6. NextKey(keys) \in {"key", "first key"}
      /\ (NextKey(keys) = "first key" <=> IsNoKeys(keys))
    BY DEF NextKey
<1>7. m = "string" => jsonKeyValue(t[p]) = key /\ key \in JSONKeys
    BY <1>1, <1>2, TokensAre, Zenon
<1> HIDE DEF c, r, scan, v, open, more
<1>8. /\ m = "string" =>
            IF Misspelled(key) THEN Verdict(t, D) = "spelling"
            ELSE IF key \in Held(keys) THEN Verdict(t, D) = "duplicate"
            ELSE D[p + 1] = Expecting(Append(o, Container("lbrace", Held(keys) \cup {key})),
                                      "colon")
      /\ m = "rbrace" /\ NextKey(keys) = "first key" => D[p + 1] = AfterValue(o)
      /\ m # "string" /\ ~(m = "rbrace" /\ NextKey(keys) = "first key") =>
            Verdict(t, D) = "syntax"
  <2>1. NextKey(keys) \in Names
    BY <1>6 DEF Names
  <2>2. MemberTaken(t, D, p, o, Held(keys), NextKey(keys))
    BY <1>5, <2>1, AtMember, Zenon
  <2> QED
    BY <2>2, Zenon DEF MemberTaken
<1>9. m # "end" => p \in 1 .. L
    BY GoesOnThere, Zenon
<1> HIDE DEF m, key, L
<1>10. r = IF m = "rbrace" /\ IsNoKeys(keys) THEN Fine(p + 1)
           ELSE IF m = "string" THEN ScanMember(t, c, key, scan)
           ELSE Rejected("syntax")
    BY <1>3, <1>4, <1>7, Zenon DEF ScanObject, m
<1>11. CASE m = "rbrace" /\ IsNoKeys(keys)
  <2>1. r = Fine(p + 1) /\ D[p + 1] = AfterValue(o) /\ p \in 1 .. L
    BY <1>6, <1>8, <1>9, <1>10, <1>11
  <2> QED
    BY <1>2, <2>1, FollowsFine, Zenon DEF r, c, L
<1>12. CASE m # "string" /\ ~(m = "rbrace" /\ IsNoKeys(keys))
  <2>1. r = Rejected("syntax") /\ Verdict(t, D) = "syntax" /\ "syntax" \in Refusals
    BY <1>6, <1>8, <1>10, <1>12 DEF Refusals
  <2> QED
    BY <2>1, FollowsRejected, Zenon DEF r, c
<1>13. CASE m = "string"
  <2>1. key \in JSONKeys /\ p \in 1 .. L
    BY <1>7, <1>9, <1>13
  <2>2. /\ InSet(keys, key) <=> key \in Held(keys)
        /\ more \in KeySets /\ Held(more) = Held(keys) \cup {key} /\ ~IsNoKeys(more)
    BY <2>1, KeysAre, Zenon DEF more
  <2>3. r = IF Misspelled(key) THEN Rejected("spelling")
            ELSE IF InSet(keys, key) THEN Rejected("duplicate")
            ELSE IF Is(t, p + 1) # "colon" THEN Rejected("syntax")
            ELSE IF v.code # "none" THEN v
            ELSE IF Is(t, v.at) = "comma" THEN scan[ObjectAt(v.at + 1, Len(o), more)]
            ELSE IF Is(t, v.at) = "rbrace" THEN Fine(v.at + 1)
            ELSE Rejected("syntax")
    <3>1. r = ScanMember(t, c, key, scan)
      BY <1>10, <1>13
    <3> QED
      BY <1>3, <3>1, Zenon DEF ScanMember, v, more
  <2>4. CASE Misspelled(key)
    <3>1. r = Rejected("spelling") /\ Verdict(t, D) = "spelling" /\ "spelling" \in Refusals
      BY <1>8, <1>13, <2>3, <2>4 DEF Refusals
    <3> QED
      BY <3>1, FollowsRejected, Zenon DEF r, c
  <2>5. CASE ~Misspelled(key) /\ key \in Held(keys)
    <3>1. r = Rejected("duplicate") /\ Verdict(t, D) = "duplicate" /\ "duplicate" \in Refusals
      BY <1>8, <1>13, <2>2, <2>3, <2>5 DEF Refusals
    <3> QED
      BY <3>1, FollowsRejected, Zenon DEF r, c
  <2>6. CASE ~Misspelled(key) /\ key \notin Held(keys)
    <3>1. D[p + 1] = Expecting(open, "colon")
      BY <1>8, <1>13, <2>2, <2>6, Zenon DEF open
    <3>2. p + 1 \in 1 .. L + 1
      BY <1>2, <2>1
    <3>3. IF Is(t, p + 1) = "colon" THEN D[p + 1 + 1] = Expecting(open, "value")
          ELSE Verdict(t, D) = "syntax"
      BY <3>1, <3>2, AtColon, Zenon DEF L
    <3>4. CASE Is(t, p + 1) # "colon"
      <4>1. r = Rejected("syntax") /\ Verdict(t, D) = "syntax" /\ "syntax" \in Refusals
        BY <2>2, <2>3, <2>6, <3>3, <3>4 DEF Refusals
      <4> QED
        BY <4>1, FollowsRejected, Zenon DEF r, c
    <3>5. CASE Is(t, p + 1) = "colon"
      <4>1. p + 1 + 1 = p + 2
        BY <1>2
      <4>2. D[p + 2] = Expecting(open, "value")
        BY <3>3, <3>5, <4>1
      <4>3. p + 1 \in 1 .. L
        <5>1. Is(t, p + 1) # "end"
          BY <3>5
        <5> QED
          BY <3>2, <5>1, GoesOnThere, Zenon DEF L
      <4>4. open \in Seq(Opened) /\ Len(open) = Len(o) + 1
        <5>1. Held(more) \in SUBSET JSONKeys
          BY <2>2, HeldIs
        <5>2. Container("lbrace", Held(more)) \in Opened
          BY <5>1, ContainerIs
        <5> QED
          BY <5>2, TopIs, Zenon DEF open
      <4>5. Follows(t, D, v, p + 2, open)
        <5>1. "value" \in Begins /\ ~EmptyArray(t, p + 2, "value")
          BY DEF Begins, EmptyArray
        <5>2. Follows(t, D, scan[ValueAt(p + 2, Len(open))], p + 2, open)
          BY <1>2, <2>1, <4>2, <4>3, <4>4, <5>1, Zenon DEF ValueFollows, scan, L
        <5> QED
          BY <4>4, <5>2, Zenon DEF v
      <4>6. CASE v.code # "none"
        <5>1. r = v
          BY <2>2, <2>3, <2>6, <3>5, <4>6
        <5> QED
          BY <4>5, <4>6, <5>1 DEF Follows, r, c
      <4>7. CASE v.code = "none"
        <5>1. v.at \in (p + 2) + 1 .. L + 1 /\ D[v.at] = AfterValue(open)
          BY <4>5, <4>7, Zenon DEF Follows, L
        <5>2. v.at \in p + 1 .. L + 1
          BY <1>2, <2>1, <4>3, <5>1, Zenon
        <5> DEFINE q == v.at
                   k == Is(t, q)
        <5>3. Held(more) \in SUBSET JSONKeys
          BY <2>2, HeldIs
        <5>4. /\ k = "comma" => Follows(t, D, scan[ObjectAt(q + 1, Len(o), more)], p, o)
              /\ k = "rbrace" => Follows(t, D, Fine(q + 1), p, o)
              /\ k \notin {"comma", "rbrace"} => Follows(t, D, Rejected("syntax"), p, o)
          BY <2>2, <5>1, <5>2, <5>3, MemberFollows, Zenon DEF scan, open, L
        <5>5. r = IF k = "comma" THEN scan[ObjectAt(q + 1, Len(o), more)]
                  ELSE IF k = "rbrace" THEN Fine(q + 1) ELSE Rejected("syntax")
          BY <2>2, <2>3, <2>6, <3>5, <4>7
        <5> HIDE DEF q, k
        <5> QED
          BY <5>4, <5>5 DEF r, c
      <4> QED
        BY <4>6, <4>7
    <3> QED
      BY <3>4, <3>5
  <2> QED
    BY <2>4, <2>5, <2>6
<1> QED
  <2>1. Follows(t, D, r, p, o)
    BY <1>11, <1>12, <1>13 DEF r, c
  <2> QED
    BY <2>1 DEF r, c

\* Every call follows the Decoder, however deep its own calls are.
LEMMA AllFollow ==
    ASSUME NEW t, NEW D, Run(t, D), ~OddKey(t, D)
    PROVE  \A n \in 0 .. Deepest(t) :
              ValueFollows(t, D, n) /\ ObjectFollows(t, D, n) /\ ArrayFollows(t, D, n)
<1> DEFINE N == Deepest(t)
           T == {n \in 0 .. N :
                    ValueFollows(t, D, n) /\ ObjectFollows(t, D, n) /\ ArrayFollows(t, D, n)}
<1>1. N \in Nat /\ Len(t) \in Nat
    BY RunIs, ScansAre
<1>2. 0 \in T
  <2>1. \A p \in 1 .. Len(t) + 1 :
           ~(2 * (Len(t) + 1 - p) + 1 <= 0) /\ ~(2 * (Len(t) + 1 - p) + 2 <= 0)
    BY <1>1
  <2>2. ValueFollows(t, D, 0) /\ ObjectFollows(t, D, 0) /\ ArrayFollows(t, D, 0)
    BY <2>1, Zenon DEF ValueFollows, ObjectFollows, ArrayFollows
  <2>3. 0 \in 0 .. N
    BY <1>1
  <2> QED
    BY <2>2, <2>3
<1>3. ASSUME NEW n \in 0 .. N - 1, n \in T
      PROVE  n + 1 \in T
  <2>1. n + 1 \in 1 .. N /\ n + 1 \in 0 .. N /\ (n + 1) - 1 = n
    BY <1>1
  <2>2. ValueFollows(t, D, n) /\ ObjectFollows(t, D, n) /\ ArrayFollows(t, D, n)
    BY <1>3
  <2> HIDE DEF N
  <2>3. ValueFollows(t, D, n + 1)
    BY <2>1, <2>2, ValueStep DEF N
  <2>4. ObjectFollows(t, D, n + 1)
    BY <2>1, <2>2, ObjectStep DEF N
  <2>5. ArrayFollows(t, D, n + 1)
    BY <2>1, <2>2, ArrayStep DEF N
  <2> QED
    BY <2>1, <2>3, <2>4, <2>5
<1> HIDE DEF T, N
<1>4. 0 .. N \subseteq T
    BY <1>1, <1>2, <1>3, Induction
<1> QED
    BY <1>4 DEF T, N

\* The scanner's verdict on a body is the Decoder's.
LEMMA ScannerFollows ==
    ASSUME NEW t, NEW D, Run(t, D), ~OddKey(t, D)
    PROVE  scanJSONStructure(t) = Verdict(t, D)
<1> DEFINE v == Scans(t)[Deepest(t)][ValueAt(1, 0)]
           L == Len(t)
<1>1. L \in Nat /\ Deepest(t) = 2 * L + 2 /\ Deepest(t) \in 0 .. Deepest(t)
    BY RunIs DEF Deepest
<1>2. D[1] = Expecting(<<>>, "value") /\ <<>> \in Seq(Opened) /\ Len(<<>>) = 0
  <2>1. D[1] = Expecting(<<>>, "value")
    BY Zenon DEF Run, Fresh
  <2> QED
    BY <2>1
<1>3. ValueFollows(t, D, Deepest(t))
    BY <1>1, AllFollow, Zenon
<1>4. Follows(t, D, v, 1, <<>>)
  <2>1. "value" \in Begins /\ ~EmptyArray(t, 1, "value")
    BY DEF Begins, EmptyArray
  <2>2. 1 \in 1 .. L + 1 /\ 2 * (L + 1 - 1) + 1 <= Deepest(t)
    BY <1>1
  <2>3. Follows(t, D, Scans(t)[Deepest(t)][ValueAt(1, Len(<<>>))], 1, <<>>)
    BY <1>2, <1>3, <2>1, <2>2, Zenon DEF ValueFollows
  <2> QED
    BY <1>2, <2>3
<1> HIDE DEF v
<1>5. scanJSONStructure(t) = IF v.code # "none" THEN v.code
                             ELSE IF v.at = L + 1 THEN "none" ELSE "syntax"
    BY Zenon DEF scanJSONStructure, v
<1> HIDE DEF L
<1>6. CASE v.code # "none"
  <2>1. v.code = Verdict(t, D)
    BY <1>4, <1>6, Zenon DEF Follows
  <2> QED
    BY <1>5, <1>6, <2>1, Zenon
<1>7. CASE v.code = "none"
  <2>1. v.at \in 1 + 1 .. L + 1 /\ D[v.at] = AfterValue(<<>>)
    BY <1>4, <1>7, Zenon DEF Follows, L
  <2>2. D[v.at] = Expecting(<<>>, "nothing")
    BY <2>1, Zenon DEF AfterValue
  <2>3. v.at \in 1 .. L + 1
    BY <1>1, <2>1
  <2>4. Verdict(t, D) = IF v.at = L + 1 THEN "none" ELSE "syntax"
    BY <2>2, <2>3, AtNothing, Zenon DEF L
  <2> QED
    BY <1>5, <1>7, <2>4, Zenon
<1> QED
    BY <1>6, <1>7

-----------------------------------------------------------------------------
(* Every body *)

\* The Decoder is where the tokens of the body have brought it.
ScanInv ==
    /\ \E D : Run(body, D) /\ decoder = D[Len(body) + 1]
    /\ numeral \in Seq(Characters)

\* A run goes on with each token the Decoder takes.
LEMMA RunGrows ==
    ASSUME NEW t, NEW D, Run(t, D), D[Len(t) + 1].code = "none", NEW token \in Tokens
    PROVE  \E E : /\ Run(Append(t, token), E)
                  /\ E[Len(Append(t, token)) + 1] = Takes(D[Len(t) + 1], token)
<1> DEFINE L == Len(t)
           u == Append(t, token)
           E == [i \in 1 .. L + 2 |-> IF i = L + 2 THEN Takes(D[L + 1], token) ELSE D[i]]
<1>1. t \in Seq(Tokens) /\ L \in Nat
    BY RunIs
<1>2. /\ u \in Seq(Tokens) /\ Len(u) = L + 1 /\ u[L + 1] = token
      /\ \A i \in 1 .. L : u[i] = t[i]
    BY <1>1
<1> HIDE DEF u
<1>3. E[L + 2] = Takes(D[L + 1], token) /\ \A i \in 1 .. L + 1 : E[i] = D[i]
    BY <1>1
<1>4. DOMAIN E = 1 .. L + 2
    OBVIOUS
<1>5. D[1] = Fresh
    BY Zenon DEF Run
<1> HIDE DEF E
<1>6. E[1] = Fresh
    BY <1>1, <1>3, <1>5
<1>7. ASSUME NEW i \in 1 .. L + 1
      PROVE  E[i].code = "none" /\ E[i + 1] = Takes(E[i], u[i])
  <2>1. CASE i = L + 1
    <3>1. E[i] = D[L + 1] /\ i + 1 = L + 2 /\ u[i] = token
      BY <1>1, <1>2, <1>3, <2>1
    <3> QED
      BY <1>3, <3>1
  <2>2. CASE i # L + 1
    <3>1. i \in 1 .. L /\ i + 1 \in 1 .. L + 1
      BY <1>1, <2>2
    <3>2. E[i] = D[i] /\ E[i + 1] = D[i + 1] /\ u[i] = t[i]
      BY <1>2, <1>3, <3>1
    <3>3. D[i].code = "none" /\ D[i + 1] = Takes(D[i], t[i])
      BY <3>1, RunIs
    <3> QED
      BY <3>2, <3>3
  <2> QED
    BY <2>1, <2>2
<1>8. Len(u) + 1 = L + 2
    BY <1>1, <1>2
<1> HIDE DEF L
<1>9. Run(u, E)
    BY <1>2, <1>4, <1>6, <1>7, <1>8, Zenon DEF Run
<1> QED
    BY <1>3, <1>8, <1>9 DEF u, L

LEMMA ScanInvStep ==
    ASSUME ScanInv, [ScanNext]_scanVars
    PROVE  ScanInv'
<1>1. PICK D : Run(body, D) /\ decoder = D[Len(body) + 1]
    BY Zenon DEF ScanInv
<1>2. CASE ReadToken
  <2>1. PICK token \in Tokens : body' = Append(body, token) /\ decoder' = Takes(decoder, token)
    BY <1>2 DEF ReadToken
  <2>2. decoder.code = "none" /\ numeral' = numeral
    BY <1>2 DEF ReadToken
  <2>3. PICK E : /\ Run(Append(body, token), E)
                 /\ E[Len(Append(body, token)) + 1] = Takes(D[Len(body) + 1], token)
    BY <1>1, <2>2, RunGrows
  <2>4. Run(body', E) /\ decoder' = E[Len(body') + 1]
    BY <1>1, <2>1, <2>3
  <2> QED
    BY <2>2, <2>4 DEF ScanInv
<1>3. CASE ReadCharacter
  <2>1. PICK c \in Characters : numeral' = Append(numeral, c)
    BY <1>3 DEF ReadCharacter
  <2>2. numeral' \in Seq(Characters)
    BY <2>1 DEF ScanInv
  <2>3. body' = body /\ decoder' = decoder
    BY <1>3 DEF ReadCharacter
  <2> QED
    BY <1>1, <2>2, <2>3 DEF ScanInv
<1>4. CASE UNCHANGED scanVars
    BY <1>4 DEF ScanInv, scanVars
<1> QED
    BY <1>2, <1>3, <1>4 DEF ScanNext

LEMMA ScanInvInit ==
    ASSUME ScanInit
    PROVE  ScanInv
<1> DEFINE D == [i \in 1 .. 1 |-> Fresh]
<1>1. body = <<>> /\ decoder = Fresh /\ numeral = <<>>
    BY DEF ScanInit
<1>2. D[1] = Fresh /\ DOMAIN D = 1 .. 1
    OBVIOUS
<1>3. <<>> \in Seq(Tokens) /\ Len(<<>>) = 0 /\ <<>> \in Seq(Characters)
    OBVIOUS
<1> HIDE DEF D
<1>4. 0 + 1 = 1 /\ ~ \E i \in 1 .. 0 : TRUE
    OBVIOUS
<1>5. Run(body, D) /\ decoder = D[Len(body) + 1]
  <2>1. \A i \in 1 .. Len(body) : D[i].code = "none" /\ D[i + 1] = Takes(D[i], body[i])
    BY <1>1, <1>3, <1>4, Zenon
  <2>2. Len(body) + 1 = 1
    BY <1>1, <1>3
  <2> QED
    BY <1>1, <1>2, <1>3, <2>1, <2>2, Zenon DEF Run
<1> QED
    BY <1>1, <1>3, <1>5 DEF ScanInv

\* What the invariant says of the two scanners.
LEMMA ScannerAgreesHere ==
    ASSUME ScanInv
    PROVE  ScannerAgrees
<1>1. PICK D : Run(body, D) /\ decoder = D[Len(body) + 1]
    BY Zenon DEF ScanInv
<1>2. CASE OddKey(body, D)
    BY <1>1, <1>2 DEF ScannerAgrees, OddKey
<1>3. CASE ~OddKey(body, D)
  <2>1. scanJSONStructure(body) = Outcome(decoder)
    BY <1>1, <1>3, ScannerFollows DEF Verdict
  <2> QED
    BY <2>1 DEF ScannerAgrees
<1> QED
    BY <1>2, <1>3

-----------------------------------------------------------------------------
(* Numbers *)

\* A part of a number, character by character.
LEMMA PartIs ==
    ASSUME NEW s \in Seq(Characters), NEW a \in 0 .. Len(s), NEW b \in a .. Len(s)
    PROVE  /\ Len(Part(s, a, b)) = b - a /\ DOMAIN Part(s, a, b) = 1 .. b - a
           /\ \A k \in 1 .. b - a : Part(s, a, b)[k] = s[a + k]
           /\ Part(s, a, b) = <<>> <=> a = b
<1> DEFINE u == Part(s, a, b)
<1>1. Len(s) \in Nat /\ a \in Nat /\ b \in Nat /\ a <= b
    OBVIOUS
<1>2. CASE a < b
  <2>1. /\ Len(u) = b - a /\ DOMAIN u = 1 .. b - a
        /\ \A k \in 1 .. b - a : u[k] = s[a + k]
    BY <1>1, <1>2 DEF Part
  <2>2. u # <<>>
    BY <1>1, <1>2, <2>1
  <2> QED
    BY <1>1, <1>2, <2>1, <2>2
<1>3. CASE a = b
  <2>1. u = <<>>
    BY <1>1, <1>3 DEF Part
  <2>2. b - a = 0
    BY <1>1, <1>3
  <2> QED
    BY <1>3, <2>1, <2>2
<1> QED
    BY <1>1, <1>2, <1>3

LEMMA RestIs ==
    ASSUME NEW s \in Seq(Characters), NEW a \in 0 .. Len(s), NEW b \in a .. Len(s), a < b
    PROVE  Part(s, a, b)[1] = s[a + 1] /\ Tail(Part(s, a, b)) = Part(s, a + 1, b)
<1>1. a + 1 \in 1 .. Len(s) /\ b \in a + 1 .. Len(s)
    OBVIOUS
<1>2. Tail(SubSeq(s, a + 1, b)) = SubSeq(s, a + 1 + 1, b)
    BY <1>1, HeadTailOfSubSeq, Zenon
<1>3. 1 \in 1 .. b - a
    OBVIOUS
<1> QED
    BY <1>2, <1>3, PartIs DEF Part

\* Digits from one place to before another.
AllFrom(s, p, q) == p < q /\ \A k \in p .. q - 1 : s[k] \in Digits

\* A part is digits where the number is.
LEMMA AllDigitsIs ==
    ASSUME NEW s \in Seq(Characters), NEW a \in 0 .. Len(s), NEW b \in a .. Len(s)
    PROVE  AllDigits(Part(s, a, b)) <=> AllFrom(s, a + 1, b + 1)
<1> DEFINE u == Part(s, a, b)
<1>1. /\ DOMAIN u = 1 .. b - a /\ \A k \in 1 .. b - a : u[k] = s[a + k]
      /\ u = <<>> <=> a = b
    BY PartIs
<1> HIDE DEF u
<1>2. (\A n \in DOMAIN u : u[n] \in Digits) <=> \A k \in a + 1 .. b : s[k] \in Digits
  <2>1. ASSUME \A n \in DOMAIN u : u[n] \in Digits, NEW k \in a + 1 .. b
        PROVE  s[k] \in Digits
    <3>1. k - a \in 1 .. b - a /\ a + (k - a) = k
      OBVIOUS
    <3> QED
      BY <1>1, <2>1, <3>1
  <2>2. ASSUME \A k \in a + 1 .. b : s[k] \in Digits, NEW n \in DOMAIN u
        PROVE  u[n] \in Digits
    <3>1. n \in 1 .. b - a
      BY <1>1
    <3>2. a + n \in a + 1 .. b
      BY <3>1
    <3> QED
      BY <1>1, <2>2, <3>1, <3>2
  <2> QED
    BY <2>1, <2>2
<1>3. (b + 1) - 1 = b /\ (a + 1 < b + 1 <=> a # b)
    OBVIOUS
<1> QED
    BY <1>1, <1>2, <1>3 DEF AllDigits, AllFrom, u

\* The digits from p reach to before q.
RunTo(s, p, q) ==
    /\ q \in p + 1 .. Len(s) + 1 /\ AllFrom(s, p, q)
    /\ q = Len(s) + 1 \/ s[q] \notin Digits

\* digits stops at the first character that is none.
LEMMA DigitsAre ==
    ASSUME NEW s \in Seq(Characters), NEW p \in 1 .. Len(s) + 1
    PROVE  /\ digits(s, p) \in p .. Len(s) + 1
           /\ \A k \in p .. digits(s, p) - 1 : s[k] \in Digits
           /\ digits(s, p) = Len(s) + 1 \/ s[digits(s, p)] \notin Digits
<1> DEFINE N == Len(s)
           S == {q \in p .. N + 1 : ~Digit(s, q)}
<1>1. N \in Nat
    OBVIOUS
<1>2. N + 1 \in S /\ S \subseteq Nat
    BY <1>1 DEF Digit
<1>3. \E q \in S : \A r \in S : q <= r
    BY <1>2, Least, Zenon
<1>4. digits(s, p) \in S /\ \A r \in S : digits(s, p) <= r
    BY <1>3, Zenon DEF digits, Min
<1> DEFINE d == digits(s, p)
<1> HIDE DEF d
<1>5. d \in p .. N + 1 /\ ~Digit(s, d)
    BY <1>4 DEF d
<1>6. ASSUME NEW k \in p .. d - 1
      PROVE  s[k] \in Digits
  <2>1. k \in p .. N + 1 /\ ~(d <= k)
    BY <1>1, <1>5
  <2>2. k \notin S
    BY <1>4, <2>1 DEF d
  <2>3. Digit(s, k)
    BY <2>1, <2>2
  <2> QED
    BY <2>3 DEF Digit
<1>7. d = N + 1 \/ s[d] \notin Digits
    BY <1>1, <1>5 DEF Digit
<1> QED
    BY <1>5, <1>6, <1>7 DEF d

\* At least one digit, and all there are.
LEMMA SomeDigitsIs ==
    ASSUME NEW s \in Seq(Characters), NEW p \in 1 .. Len(s) + 1
    PROVE  SomeDigits(s, p) = 0 \/ (SomeDigits(s, p) = digits(s, p) /\ RunTo(s, p, SomeDigits(s, p)))
<1> DEFINE d == digits(s, p)
<1>1. /\ d \in p .. Len(s) + 1 /\ \A k \in p .. d - 1 : s[k] \in Digits
      /\ d = Len(s) + 1 \/ s[d] \notin Digits
    BY DigitsAre
<1> HIDE DEF d
<1>2. CASE ~Digit(s, p)
    BY <1>2 DEF SomeDigits
<1>3. CASE Digit(s, p)
  <2>1. SomeDigits(s, p) = d
    BY <1>3 DEF SomeDigits, d
  <2>2. s[p] \in Digits /\ p <= Len(s)
    BY <1>3 DEF Digit
  <2>3. d # p
    BY <1>1, <2>2
  <2>4. RunTo(s, p, d)
    BY <1>1, <2>3 DEF RunTo, AllFrom
  <2> QED
    BY <2>1, <2>4 DEF d
<1> QED
    BY <1>2, <1>3

\* Digits reach to one place only.
LEMMA RunToIs ==
    ASSUME NEW s \in Seq(Characters), NEW p \in 1 .. Len(s) + 1, NEW q, RunTo(s, p, q)
    PROVE  SomeDigits(s, p) = q /\ digits(s, p) = q
<1> DEFINE d == digits(s, p)
<1>1. /\ d \in p .. Len(s) + 1 /\ \A k \in p .. d - 1 : s[k] \in Digits
      /\ d = Len(s) + 1 \/ s[d] \notin Digits
    BY DigitsAre
<1> HIDE DEF d
<1>2. /\ q \in p + 1 .. Len(s) + 1 /\ \A k \in p .. q - 1 : s[k] \in Digits
      /\ q = Len(s) + 1 \/ s[q] \notin Digits
    BY DEF RunTo, AllFrom
<1>3. Digit(s, p)
  <2>1. p \in p .. q - 1 /\ p <= Len(s)
    BY <1>2
  <2> QED
    BY <1>2, <2>1 DEF Digit
<1>4. d = q
  <2>1. ~(d < q)
    <3> SUFFICES ASSUME d < q PROVE FALSE
      OBVIOUS
    <3>1. d \in p .. q - 1 /\ d # Len(s) + 1
      BY <1>1, <1>2
    <3> QED
      BY <1>1, <1>2, <3>1
  <2>2. ~(q < d)
    <3> SUFFICES ASSUME q < d PROVE FALSE
      OBVIOUS
    <3>1. q \in p .. d - 1 /\ q # Len(s) + 1
      BY <1>1, <1>2
    <3> QED
      BY <1>1, <1>2, <3>1
  <2> QED
    BY <1>1, <1>2, <2>1, <2>2
<1> QED
    BY <1>3, <1>4 DEF SomeDigits, d

LEMMA NoDigits == "point" \notin Digits /\ "e" \notin Digits /\ "minus" \notin Digits
BY Zenon DEF Digits

\* The parts of the grammar, by the places they lie between.
LEMMA IntegerPart ==
    ASSUME NEW s \in Seq(Characters), NEW a \in 0 .. Len(s), NEW b \in a .. Len(s)
    PROVE  IntegerText(Part(s, a, b)) <=>
               AllFrom(s, a + 1, b + 1) /\ (b = a + 1 \/ s[a + 1] # "0")
<1> DEFINE u == Part(s, a, b)
<1>1. AllDigits(u) <=> AllFrom(s, a + 1, b + 1)
    BY AllDigitsIs
<1>2. Len(u) = b - a
    BY PartIs
<1>3. CASE a < b
  <2>1. u[1] = s[a + 1]
    BY <1>3, RestIs
  <2>2. Len(u) = 1 <=> b = a + 1
    BY <1>2
  <2> HIDE DEF u
  <2> QED
    BY <1>1, <2>1, <2>2, Zenon DEF IntegerText, u
<1>4. CASE ~(a < b)
  <2>1. ~AllFrom(s, a + 1, b + 1)
    BY <1>4 DEF AllFrom
  <2> HIDE DEF u
  <2> QED
    BY <1>1, <2>1, Zenon DEF IntegerText, u
<1> QED
    BY <1>3, <1>4

LEMMA FractionPart ==
    ASSUME NEW s \in Seq(Characters), NEW b \in 0 .. Len(s), NEW c \in b .. Len(s)
    PROVE  FractionText(Part(s, b, c)) <=>
               b = c \/ (b < c /\ s[b + 1] = "point" /\ AllFrom(s, b + 2, c + 1))
<1> DEFINE u == Part(s, b, c)
<1>1. u = <<>> <=> b = c
    BY PartIs
<1>2. CASE b < c
  <2>1. u[1] = s[b + 1] /\ Tail(u) = Part(s, b + 1, c)
    BY <1>2, RestIs
  <2>2. b + 1 \in 0 .. Len(s) /\ c \in b + 1 .. Len(s) /\ (b + 1) + 1 = b + 2 /\ b # c
    BY <1>2
  <2>3. AllDigits(Tail(u)) <=> AllFrom(s, b + 2, c + 1)
    <3> HIDE DEF u
    <3> DEFINE m == b + 1
    <3>1. m \in 0 .. Len(s) /\ c \in m .. Len(s) /\ m + 1 = b + 2
      BY <2>2
    <3>2. Tail(u) = Part(s, m, c)
      BY <2>1
    <3> HIDE DEF m
    <3>3. AllDigits(Part(s, m, c)) <=> AllFrom(s, m + 1, c + 1)
      BY <3>1, AllDigitsIs, Zenon
    <3> QED
      BY <3>1, <3>2, <3>3
  <2> HIDE DEF u
  <2> QED
    BY <1>1, <1>2, <2>1, <2>2, <2>3, Zenon DEF FractionText, u
<1>3. CASE ~(b < c)
  <2>1. b = c
    BY <1>3
  <2> HIDE DEF u
  <2> QED
    BY <1>1, <2>1, Zenon DEF FractionText, u
<1> QED
    BY <1>2, <1>3

Signs == {"plus", "minus"}

LEMMA SignedPart ==
    ASSUME NEW s \in Seq(Characters), NEW a \in 0 .. Len(s)
    PROVE  SignedText(Part(s, a, Len(s))) <=>
               AllFrom(s, IF Char(s, a + 1, Signs) THEN a + 2 ELSE a + 1, Len(s) + 1)
<1> DEFINE n == Len(s)
           u == Part(s, a, n)
<1>0. n \in a .. Len(s) /\ n \in Nat
    OBVIOUS
<1>1. u = <<>> <=> a = n
  <2> HIDE DEF n
  <2> QED
    BY <1>0, PartIs, Zenon
<1>2. AllDigits(u) <=> AllFrom(s, a + 1, n + 1)
    BY <1>0, AllDigitsIs
<1>3. CASE a < n
  <2>1. u[1] = s[a + 1] /\ Tail(u) = Part(s, a + 1, n)
    BY <1>0, <1>3, RestIs
  <2>2. AllDigits(Tail(u)) <=> AllFrom(s, a + 2, n + 1)
    <3> DEFINE m == a + 1
    <3>1. m \in 0 .. Len(s) /\ n \in m .. Len(s) /\ m + 1 = a + 2
      BY <1>0, <1>3
    <3>2. Tail(u) = Part(s, m, n)
      BY <2>1
    <3> HIDE DEF m, u, n
    <3>3. AllDigits(Part(s, m, n)) <=> AllFrom(s, m + 1, n + 1)
      BY <3>1, AllDigitsIs, Zenon
    <3> QED
      BY <3>1, <3>2, <3>3
  <2>3. Char(s, a + 1, Signs) <=> s[a + 1] \in Signs
    BY <1>3 DEF Char
  <2>4. u # <<>>
    BY <1>1, <1>3
  <2> HIDE DEF u, n
  <2>5. SignedText(u) <=> AllDigits(IF s[a + 1] \in Signs THEN Tail(u) ELSE u)
    BY <2>1, <2>4, Zenon DEF SignedText, Signs
  <2>6. CASE s[a + 1] \in Signs
    BY <2>2, <2>3, <2>5, <2>6, Zenon DEF u, n
  <2>7. CASE s[a + 1] \notin Signs
    BY <1>2, <2>3, <2>5, <2>7, Zenon DEF u, n
  <2> QED
    BY <2>6, <2>7
<1>4. CASE ~(a < n)
  <2>1. ~Char(s, a + 1, Signs)
    BY <1>0, <1>4 DEF Char
  <2>2. u = <<>>
    BY <1>0, <1>1, <1>4
  <2> HIDE DEF u, n
  <2> QED
    BY <1>2, <2>1, <2>2, Zenon DEF SignedText, u, n
<1> QED
    BY <1>3, <1>4

\* Where the digits of an exponent begin, of which the letter is at f.
Power(s, f) == f + (IF Char(s, f + 1, Signs) THEN 2 ELSE 1)

LEMMA PowerIs ==
    ASSUME NEW s \in Seq(Characters), NEW f \in 1 .. Len(s)
    PROVE  Power(s, f) \in f + 1 .. Len(s) + 1
BY DEF Power, Char

LEMMA ExponentPart ==
    ASSUME NEW s \in Seq(Characters), NEW c \in 0 .. Len(s)
    PROVE  ExponentText(Part(s, c, Len(s))) <=>
               c = Len(s) \/ (c < Len(s) /\ s[c + 1] = "e" /\ AllFrom(s, Power(s, c + 1), Len(s) + 1))
<1> DEFINE n == Len(s)
           u == Part(s, c, n)
<1>0. n \in c .. Len(s) /\ n \in Nat
    OBVIOUS
<1>1. u = <<>> <=> c = n
  <2> HIDE DEF n
  <2> QED
    BY <1>0, PartIs, Zenon
<1>2. CASE c < n
  <2>1. u[1] = s[c + 1] /\ Tail(u) = Part(s, c + 1, n)
    BY <1>0, <1>2, RestIs
  <2>2. SignedText(Tail(u)) <=> AllFrom(s, Power(s, c + 1), n + 1)
    <3> DEFINE m == c + 1
    <3>1. m \in 0 .. Len(s)
      BY <1>0, <1>2
    <3>2. Power(s, m) = IF Char(s, m + 1, Signs) THEN m + 2 ELSE m + 1
      BY <3>1 DEF Power
    <3>3. Tail(u) = Part(s, m, Len(s))
      BY <2>1
    <3> HIDE DEF m, u
    <3>4. SignedText(Part(s, m, Len(s))) <=> AllFrom(s, Power(s, m), Len(s) + 1)
      BY <3>1, <3>2, SignedPart, Zenon
    <3> QED
      BY <3>3, <3>4, Zenon DEF m, n
  <2>3. c # n
    BY <1>2
  <2> HIDE DEF u, n
  <2> QED
    BY <1>1, <1>2, <2>1, <2>2, <2>3, Zenon DEF ExponentText, u, n
<1>3. CASE ~(c < n)
  <2>1. c = n
    BY <1>0, <1>3
  <2> HIDE DEF u, n
  <2> QED
    BY <1>1, <2>1, Zenon DEF ExponentText, u, n
<1> QED
    BY <1>2, <1>3

LEMMA SignPart ==
    ASSUME NEW s \in Seq(Characters), NEW a \in 0 .. Len(s)
    PROVE  Part(s, 0, a) \in {<<>>, <<"minus">>} <=> a = 0 \/ (a = 1 /\ s[1] = "minus")
<1> DEFINE u == Part(s, 0, a)
<1>1. /\ 0 \in 0 .. Len(s) /\ a \in 0 .. Len(s) /\ a \in Nat
    OBVIOUS
<1>2. /\ Len(u) = a /\ DOMAIN u = 1 .. a /\ \A k \in 1 .. a : u[k] = s[k]
      /\ u = <<>> <=> a = 0
    BY <1>1, PartIs
<1>3. u = <<"minus">> <=> a = 1 /\ s[1] = "minus"
  <2> HIDE DEF u
  <2>1. ASSUME u = <<"minus">> PROVE a = 1 /\ s[1] = "minus"
    BY <1>1, <1>2, <2>1
  <2>2. ASSUME a = 1, s[1] = "minus" PROVE u = <<"minus">>
    <3>1. u \in Seq(Characters) /\ Len(u) = 1 /\ u[1] = "minus"
      BY <1>2, <2>2 DEF u, Part
    <3> QED
      BY <3>1
  <2> QED
    BY <2>1, <2>2
<1> HIDE DEF u
<1> QED
    BY <1>2, <1>3, Zenon DEF u

\* The three parts of a number by the places they end before.
IsWhole(s, p, w) == RunTo(s, p, w) /\ (w = p + 1 \/ s[p] # "0")
IsFraction(s, w, f) == f = w \/ (w <= Len(s) /\ s[w] = "point" /\ RunTo(s, w + 1, f))
IsExponent(s, f, e) == e = f \/ (f <= Len(s) /\ s[f] = "e" /\ RunTo(s, Power(s, f), e))

\* What number takes is a part, and it takes the part that is there.
LEMMA WholeGives ==
    ASSUME NEW s \in Seq(Characters), NEW p \in 1 .. Len(s) + 1, Whole(s, p) # 0
    PROVE  IsWhole(s, p, Whole(s, p))
<1>1. ~(digits(s, p) - p > 1 /\ s[p] = "0") /\ Whole(s, p) = SomeDigits(s, p)
    BY Zenon DEF Whole
<1>2. SomeDigits(s, p) = digits(s, p) /\ RunTo(s, p, digits(s, p))
    BY <1>1, SomeDigitsIs
<1> DEFINE d == digits(s, p)
<1>3. d \in p + 1 .. Len(s) + 1
    BY <1>2 DEF RunTo
<1> HIDE DEF d
<1>4. ~(d - p > 1) => d = p + 1
    BY <1>3
<1> QED
    BY <1>1, <1>2, <1>4, Zenon DEF IsWhole, d

LEMMA WholeTakes ==
    ASSUME NEW s \in Seq(Characters), NEW p \in 1 .. Len(s) + 1, NEW w, IsWhole(s, p, w)
    PROVE  Whole(s, p) = w
<1>1. SomeDigits(s, p) = w /\ digits(s, p) = w
    BY RunToIs, Zenon DEF IsWhole
<1>2. w = p + 1 => ~(w - p > 1)
    OBVIOUS
<1> QED
    BY <1>1, <1>2, Zenon DEF IsWhole, Whole

LEMMA FractionGives ==
    ASSUME NEW s \in Seq(Characters), NEW w \in 1 .. Len(s) + 1, AfterFraction(s, w) # 0
    PROVE  IsFraction(s, w, AfterFraction(s, w))
<1>0. Len(s) \in Nat /\ w # 0
    OBVIOUS
<1>1. CASE Char(s, w, {"point"})
  <2>1. w + 1 \in 1 .. Len(s) + 1 /\ w <= Len(s) /\ s[w] = "point"
    BY <1>0, <1>1 DEF Char
  <2>2. AfterFraction(s, w) = SomeDigits(s, w + 1)
    BY <1>0, <1>1, Zenon DEF AfterFraction
  <2>3. RunTo(s, w + 1, SomeDigits(s, w + 1))
    BY <2>1, <2>2, SomeDigitsIs, Zenon
  <2> QED
    BY <2>1, <2>2, <2>3, Zenon DEF IsFraction
<1>2. CASE ~Char(s, w, {"point"})
  <2>1. AfterFraction(s, w) = w
    BY <1>2, Zenon DEF AfterFraction
  <2> QED
    BY <2>1, Zenon DEF IsFraction
<1> QED
    BY <1>1, <1>2

\* A fraction ends where no other can begin.
LEMMA FractionTakes ==
    ASSUME NEW s \in Seq(Characters), NEW w \in 1 .. Len(s) + 1, NEW f, IsFraction(s, w, f),
           f = w => ~Char(s, w, {"point"})
    PROVE  AfterFraction(s, w) = f
<1>0. Len(s) \in Nat /\ w # 0
    OBVIOUS
<1>1. CASE f = w
    BY <1>1, Zenon DEF AfterFraction
<1>2. CASE f # w
  <2>1. w <= Len(s) /\ s[w] = "point" /\ RunTo(s, w + 1, f)
    BY <1>2, Zenon DEF IsFraction
  <2>2. Char(s, w, {"point"}) /\ w + 1 \in 1 .. Len(s) + 1
    BY <1>0, <2>1 DEF Char
  <2>3. SomeDigits(s, w + 1) = f
    BY <2>1, <2>2, RunToIs, Zenon
  <2> QED
    BY <1>0, <2>2, <2>3, Zenon DEF AfterFraction
<1> QED
    BY <1>1, <1>2

LEMMA ExponentIs ==
    ASSUME NEW s \in Seq(Characters), NEW f \in 1 .. Len(s) + 1
    PROVE  AfterExponent(s, f) = IF Char(s, f, {"e"}) THEN SomeDigits(s, Power(s, f)) ELSE f
<1>1. f # 0
    OBVIOUS
<1>2. CASE Char(s, f + 1, {"plus", "minus"})
  <2>1. Power(s, f) = f + 2
    BY <1>2, Zenon DEF Power, Signs
  <2> QED
    BY <1>1, <1>2, <2>1, Zenon DEF AfterExponent
<1>3. CASE ~Char(s, f + 1, {"plus", "minus"})
  <2>1. Power(s, f) = f + 1
    BY <1>3, Zenon DEF Power, Signs
  <2> QED
    BY <1>1, <1>3, <2>1, Zenon DEF AfterExponent
<1> QED
    BY <1>2, <1>3

LEMMA ExponentGives ==
    ASSUME NEW s \in Seq(Characters), NEW f \in 1 .. Len(s) + 1, AfterExponent(s, f) # 0
    PROVE  IsExponent(s, f, AfterExponent(s, f))
<1>1. CASE Char(s, f, {"e"})
  <2>1. f \in 1 .. Len(s) /\ f <= Len(s) /\ s[f] = "e"
    BY <1>1 DEF Char
  <2>2. Power(s, f) \in f + 1 .. Len(s) + 1
    BY <2>1, PowerIs
  <2>3. Power(s, f) \in 1 .. Len(s) + 1
    BY <2>1, <2>2
  <2>4. AfterExponent(s, f) = SomeDigits(s, Power(s, f))
    BY <1>1, ExponentIs, Zenon
  <2>5. RunTo(s, Power(s, f), SomeDigits(s, Power(s, f)))
    BY <2>3, <2>4, SomeDigitsIs, Zenon
  <2> QED
    BY <2>1, <2>4, <2>5, Zenon DEF IsExponent
<1>2. CASE ~Char(s, f, {"e"})
    BY <1>2, ExponentIs, Zenon DEF IsExponent
<1> QED
    BY <1>1, <1>2

LEMMA ExponentTakes ==
    ASSUME NEW s \in Seq(Characters), NEW f \in 1 .. Len(s) + 1, IsExponent(s, f, Len(s) + 1)
    PROVE  AfterExponent(s, f) = Len(s) + 1
<1>1. CASE f = Len(s) + 1
  <2>1. ~Char(s, f, {"e"})
    BY <1>1 DEF Char
  <2> QED
    BY <1>1, <2>1, ExponentIs, Zenon
<1>2. CASE f # Len(s) + 1
  <2>1. f <= Len(s) /\ s[f] = "e" /\ RunTo(s, Power(s, f), Len(s) + 1)
    BY <1>2, Zenon DEF IsExponent
  <2>2. Char(s, f, {"e"}) /\ f \in 1 .. Len(s)
    BY <2>1 DEF Char
  <2>3. Power(s, f) \in f + 1 .. Len(s) + 1
    BY <2>2, PowerIs
  <2>4. Power(s, f) \in 1 .. Len(s) + 1
    BY <2>2, <2>3
  <2>5. SomeDigits(s, Power(s, f)) = Len(s) + 1
    BY <2>1, <2>4, RunToIs, Zenon
  <2> QED
    BY <2>2, <2>5, ExponentIs, Zenon
<1> QED
    BY <1>1, <1>2

\* Where the digits of a number begin.
First(s) == IF Char(s, 1, {"minus"}) THEN 2 ELSE 1

\* The sign of a number.
LEMMA FirstIs ==
    ASSUME NEW s \in Seq(Characters)
    PROVE  First(s) \in 1 .. Len(s) + 1 /\ First(s) - 1 \in 0 .. Len(s)
           /\ (First(s) - 1 = 0 \/ (First(s) - 1 = 1 /\ s[1] = "minus"))
<1>1. CASE Char(s, 1, {"minus"})
  <2>1. First(s) = 2 /\ 1 <= Len(s) /\ s[1] = "minus"
    BY <1>1 DEF First, Char
  <2> QED
    BY <2>1
<1>2. CASE ~Char(s, 1, {"minus"})
  <2>1. First(s) = 1
    BY <1>2, Zenon DEF First
  <2> QED
    BY <2>1
<1> QED
    BY <1>1, <1>2

LEMMA NumberIs ==
    ASSUME NEW s
    PROVE  number(s) = AfterExponent(s, AfterFraction(s, Whole(s, First(s))))
BY Zenon DEF number, First

LEMMA NothingAfter ==
    ASSUME NEW s
    PROVE  AfterFraction(s, 0) = 0 /\ AfterExponent(s, 0) = 0
BY Zenon DEF AfterFraction, AfterExponent

\* The parts of a number, of which the sign ends at a, the integer at b and
\* the fraction at c.
Cut(s, a, b, c) ==
    /\ a = 0 \/ (a = 1 /\ s[1] = "minus")
    /\ AllFrom(s, a + 1, b + 1) /\ (b = a + 1 \/ s[a + 1] # "0")
    /\ b = c \/ (b < c /\ s[b + 1] = "point" /\ AllFrom(s, b + 2, c + 1))
    /\ c = Len(s) \/ (c < Len(s) /\ s[c + 1] = "e" /\ AllFrom(s, Power(s, c + 1), Len(s) + 1))

LEMMA IsNumberIs ==
    ASSUME NEW s \in Seq(Characters)
    PROVE  IsNumber(s) <=> \E a, b, c \in 0 .. Len(s) : a <= b /\ b <= c /\ Cut(s, a, b, c)
<1>1. ASSUME NEW a \in 0 .. Len(s), NEW b \in 0 .. Len(s), NEW c \in 0 .. Len(s), a <= b, b <= c
      PROVE  (/\ Part(s, 0, a) \in {<<>>, <<"minus">>} /\ IntegerText(Part(s, a, b))
              /\ FractionText(Part(s, b, c)) /\ ExponentText(Part(s, c, Len(s)))) <=> Cut(s, a, b, c)
  <2>1. b \in a .. Len(s) /\ c \in b .. Len(s)
    BY <1>1
  <2>2. Part(s, 0, a) \in {<<>>, <<"minus">>} <=> a = 0 \/ (a = 1 /\ s[1] = "minus")
    BY SignPart
  <2>3. IntegerText(Part(s, a, b)) <=> AllFrom(s, a + 1, b + 1) /\ (b = a + 1 \/ s[a + 1] # "0")
    BY <2>1, IntegerPart
  <2>4. FractionText(Part(s, b, c)) <=>
            b = c \/ (b < c /\ s[b + 1] = "point" /\ AllFrom(s, b + 2, c + 1))
    BY <2>1, FractionPart
  <2>5. ExponentText(Part(s, c, Len(s))) <=>
            c = Len(s) \/ (c < Len(s) /\ s[c + 1] = "e" /\ AllFrom(s, Power(s, c + 1), Len(s) + 1))
    BY ExponentPart
  <2> QED
    BY <2>2, <2>3, <2>4, <2>5, Zenon DEF Cut
<1> QED
    BY <1>1, Zenon DEF IsNumber

\* Where number ends a number, the grammar has its parts.
LEMMA NumberCuts ==
    ASSUME NEW s \in Seq(Characters), number(s) = Len(s) + 1
    PROVE  \E a, b, c \in 0 .. Len(s) : a <= b /\ b <= c /\ Cut(s, a, b, c)
<1> DEFINE N == Len(s)
           p == First(s)
           w == Whole(s, p)
           f == AfterFraction(s, w)
<1>0. N \in Nat /\ AfterExponent(s, f) = N + 1 /\ N + 1 # 0
    BY NumberIs
<1>1. p \in 1 .. N + 1 /\ p - 1 \in 0 .. N /\ (p - 1 = 0 \/ (p - 1 = 1 /\ s[1] = "minus"))
    BY FirstIs
<1> HIDE DEF p
<1>2. f # 0
  <2> HIDE DEF f
  <2> QED
    BY <1>0, NothingAfter, Zenon
<1>3. w # 0
  <2> HIDE DEF w
  <2> QED
    BY <1>2, NothingAfter, Zenon
<1>4. IsWhole(s, p, w)
    BY <1>1, <1>3, WholeGives, Zenon
<1> HIDE DEF w
<1>5. w \in p + 1 .. N + 1 /\ AllFrom(s, p, w) /\ (w = p + 1 \/ s[p] # "0")
    BY <1>4, Zenon DEF IsWhole, RunTo
<1>6. w \in 1 .. N + 1
    BY <1>0, <1>1, <1>5
<1>7. IsFraction(s, w, f)
    BY <1>2, <1>6, FractionGives, Zenon
<1> HIDE DEF f
<1>8. f = w \/ (s[w] = "point" /\ f \in w + 2 .. N + 1 /\ AllFrom(s, w + 1, f))
  <2>1. (w + 1) + 1 = w + 2
    BY <1>6
  <2> QED
    BY <1>7, <2>1, Zenon DEF IsFraction, RunTo
<1>9. f \in w .. N + 1
    BY <1>0, <1>6, <1>8
<1>10. f \in 1 .. N + 1
    BY <1>6, <1>9
<1>11. IsExponent(s, f, N + 1)
    BY <1>0, <1>10, ExponentGives, Zenon
<1>12. N + 1 = f \/ (f <= N /\ s[f] = "e" /\ AllFrom(s, Power(s, f), N + 1))
    BY <1>11, Zenon DEF IsExponent, RunTo
<1> DEFINE a == p - 1
           b == w - 1
           c == f - 1
<1>13. /\ a \in 0 .. N /\ b \in 0 .. N /\ c \in 0 .. N /\ a <= b /\ b <= c
       /\ a + 1 = p /\ b + 1 = w /\ c + 1 = f /\ b + 2 = w + 1
       /\ (w = p + 1 => b = a + 1) /\ (f = w => b = c) /\ (f \in w + 2 .. N + 1 => b < c)
       /\ (N + 1 = f => c = N) /\ (f <= N => c < N)
    BY <1>0, <1>1, <1>5, <1>6, <1>9, <1>10
<1>14. a = 0 \/ (a = 1 /\ s[1] = "minus")
    BY <1>1
<1> HIDE DEF a, b, c, N
<1>15. AllFrom(s, a + 1, b + 1) /\ (b = a + 1 \/ s[a + 1] # "0")
    BY <1>5, <1>13, Zenon
<1>16. b = c \/ (b < c /\ s[b + 1] = "point" /\ AllFrom(s, b + 2, c + 1))
    BY <1>8, <1>13, Zenon
<1>17. c = N \/ (c < N /\ s[c + 1] = "e" /\ AllFrom(s, Power(s, c + 1), N + 1))
    BY <1>12, <1>13, Zenon
<1>18. Cut(s, a, b, c)
    BY <1>14, <1>15, <1>16, <1>17, Zenon DEF Cut, N
<1> QED
    BY <1>13, <1>18, Zenon DEF N

\* The parts of the grammar are those number takes.
LEMMA CutNumbers ==
    ASSUME NEW s \in Seq(Characters), NEW a \in 0 .. Len(s), NEW b \in 0 .. Len(s), NEW c \in 0 .. Len(s),
           a <= b, b <= c, Cut(s, a, b, c)
    PROVE  number(s) = Len(s) + 1
<1> DEFINE N == Len(s)
<1>0. N \in Nat /\ a \in Nat /\ b \in Nat /\ c \in Nat /\ b <= N /\ c <= N
    OBVIOUS
<1>1. AllFrom(s, a + 1, b + 1) /\ (b = a + 1 \/ s[a + 1] # "0")
    BY Zenon DEF Cut
<1>2. a + 1 < b + 1 /\ s[a + 1] \in Digits
  <2>1. a + 1 < b + 1 /\ \A k \in a + 1 .. (b + 1) - 1 : s[k] \in Digits
    BY <1>1, Zenon DEF AllFrom
  <2>2. a + 1 \in a + 1 .. (b + 1) - 1
    BY <1>0, <2>1
  <2> QED
    BY <2>1, <2>2
<1>3. First(s) = a + 1
  <2>1. CASE a = 0
    <3>1. s[1] \in Digits
      BY <1>2, <2>1
    <3>2. ~Char(s, 1, {"minus"})
      BY <3>1, NoDigits, Zenon DEF Char
    <3>3. First(s) = 1
      BY <3>2, Zenon DEF First
    <3> QED
      BY <2>1, <3>3
  <2>2. CASE a = 1 /\ s[1] = "minus"
    <3>1. 1 <= Len(s)
      BY <1>0, <2>2
    <3>2. First(s) = 2
      BY <2>2, <3>1, Zenon DEF First, Char
    <3> QED
      BY <2>2, <3>2
  <2> QED
    BY <2>1, <2>2, Zenon DEF Cut
<1>4. c = N \/ (c < N /\ s[c + 1] = "e" /\ AllFrom(s, Power(s, c + 1), N + 1))
    BY Zenon DEF Cut
<1>5. c + 1 = N + 1 \/ (s[c + 1] \notin Digits /\ ~Char(s, c + 1, {"point"}))
  <2>1. CASE c = N
    BY <2>1
  <2>2. CASE s[c + 1] = "e"
    <3>1. s[c + 1] \notin Digits
      BY <2>2, NoDigits, Zenon
    <3>2. s[c + 1] # "point"
      BY <2>2
    <3> QED
      BY <3>1, <3>2, Zenon DEF Char
  <2> QED
    BY <1>4, <2>1, <2>2
<1>6. ~Char(s, c + 1, {"point"})
  <2>1. CASE c + 1 = N + 1
    BY <1>0, <2>1 DEF Char
  <2> QED
    BY <1>5, <2>1
<1>7. b = c \/ (b < c /\ s[b + 1] = "point" /\ AllFrom(s, b + 2, c + 1))
    BY Zenon DEF Cut
<1>8. b + 1 = N + 1 \/ s[b + 1] \notin Digits
  <2>1. CASE b = c
    BY <1>5, <2>1
  <2>2. CASE s[b + 1] = "point"
    BY <2>2, NoDigits, Zenon
  <2> QED
    BY <1>7, <2>1, <2>2
<1>9. IsWhole(s, a + 1, b + 1)
  <2>1. b + 1 \in (a + 1) + 1 .. N + 1
    BY <1>0, <1>2
  <2>2. b = a + 1 => b + 1 = (a + 1) + 1
    OBVIOUS
  <2> QED
    BY <1>1, <1>8, <2>1, <2>2, Zenon DEF IsWhole, RunTo
<1>10. Whole(s, First(s)) = b + 1
  <2>1. a + 1 \in 1 .. Len(s) + 1
    BY <1>0, <1>2
  <2> QED
    BY <1>3, <1>9, <2>1, WholeTakes, Zenon
<1>11. IsFraction(s, b + 1, c + 1)
  <2>1. CASE b = c
    BY <2>1, Zenon DEF IsFraction
  <2>2. CASE b < c /\ s[b + 1] = "point" /\ AllFrom(s, b + 2, c + 1)
    <3>1. (b + 1) + 1 = b + 2 /\ b + 1 <= N
      BY <1>0, <2>2
    <3>2. b + 2 < c + 1
      BY <2>2, Zenon DEF AllFrom
    <3>3. c + 1 \in (b + 2) + 1 .. N + 1
      BY <1>0, <3>2
    <3>4. RunTo(s, b + 2, c + 1)
      BY <1>5, <2>2, <3>3, Zenon DEF RunTo
    <3> QED
      BY <2>2, <3>1, <3>4, Zenon DEF IsFraction
  <2> QED
    BY <1>7, <2>1, <2>2
<1>12. AfterFraction(s, b + 1) = c + 1
  <2>1. b + 1 \in 1 .. Len(s) + 1
    BY <1>0
  <2>2. c + 1 = b + 1 => ~Char(s, b + 1, {"point"})
    BY <1>6, Zenon
  <2> QED
    BY <1>11, <2>1, <2>2, FractionTakes, Zenon
<1>13. IsExponent(s, c + 1, N + 1)
  <2>1. CASE c = N
    BY <2>1, Zenon DEF IsExponent
  <2>2. CASE c < N /\ s[c + 1] = "e" /\ AllFrom(s, Power(s, c + 1), N + 1)
    <3>1. c + 1 \in 1 .. Len(s) /\ c + 1 <= N
      BY <1>0, <2>2
    <3>2. Power(s, c + 1) \in (c + 1) + 1 .. Len(s) + 1
      BY <3>1, PowerIs, Zenon
    <3>3. Power(s, c + 1) < N + 1
      BY <2>2, Zenon DEF AllFrom
    <3> DEFINE q == Power(s, c + 1)
    <3>4. N + 1 \in q + 1 .. Len(s) + 1
      <4> HIDE DEF q
      <4>1. q \in (c + 1) + 1 .. Len(s) + 1 /\ q < N + 1
        BY <3>2, <3>3 DEF q
      <4> QED
        BY <1>0, <4>1
    <3>5. RunTo(s, Power(s, c + 1), N + 1)
      BY <2>2, <3>4, Zenon DEF RunTo
    <3> QED
      BY <2>2, <3>1, <3>5, Zenon DEF IsExponent
  <2> QED
    BY <1>4, <2>1, <2>2
<1>14. AfterExponent(s, c + 1) = N + 1
  <2>1. c + 1 \in 1 .. Len(s) + 1
    BY <1>0
  <2> QED
    BY <1>13, <2>1, ExponentTakes, Zenon
<1> QED
    BY <1>10, <1>12, <1>14, NumberIs, Zenon

\* number takes the whole of what the grammar calls a number, and nothing else.
LEMMA NumbersFollow ==
    ASSUME NEW s \in Seq(Characters)
    PROVE  number(s) = Len(s) + 1 <=> IsNumber(s)
<1>1. ASSUME number(s) = Len(s) + 1
      PROVE  \E a, b, c \in 0 .. Len(s) : a <= b /\ b <= c /\ Cut(s, a, b, c)
    BY <1>1, NumberCuts, Zenon
<1>2. ASSUME \E a, b, c \in 0 .. Len(s) : a <= b /\ b <= c /\ Cut(s, a, b, c)
      PROVE  number(s) = Len(s) + 1
    BY <1>2, CutNumbers, Zenon
<1> QED
    BY <1>1, <1>2, IsNumberIs, Zenon

\* ScanningExact is invariant: scanJSONStructure answers every body as the
\* Decoder-driven walk did, but for a key whose folding alone is a field's, and
\* its numbers are those of the JSON grammar, whatever the limit of depth, the
\* documented fields, and the lengths of the body and of the number.
THEOREM ScanningExactAlways == ScanSpec => []ScanningExact
<1>1. ScanInit => ScanInv
    BY ScanInvInit
<1>2. ScanInv /\ [ScanNext]_scanVars => ScanInv'
    BY ScanInvStep
<1>3. ScanInv => ScanningExact
  <2> SUFFICES ASSUME ScanInv PROVE ScanningExact
    OBVIOUS
  <2>1. ScannerAgrees
    BY ScannerAgreesHere
  <2>2. numeral \in Seq(Characters)
    BY Zenon DEF ScanInv
  <2>3. NumbersAgree
    BY <2>2, NumbersFollow, Zenon DEF NumbersAgree
  <2> QED
    BY <2>1, <2>3 DEF ScanningExact
<1> QED
    BY <1>1, <1>2, <1>3, PTL DEF ScanSpec

=============================================================================
