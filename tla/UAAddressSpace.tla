--------------------------- MODULE UAAddressSpace ---------------------------
(***************************************************************************)
(* The UA address space as clients browse it: branches are filled from DA  *)
(* Browse on demand and item properties from IOPCItemProperties, one call  *)
(* to the source per branch or item at a time, within a node budget        *)
(* (internal/opcua/population.go, addressspace.go, itemproperties.go).     *)
(*                                                                         *)
(* AddressSpace.mu orders changes to the space and Populator.mu the        *)
(* bookkeeping; neither is held across a call to the source. A Browse      *)
(* takes the pointer to its node under the lock and reads the node's       *)
(* references after releasing it, which races with PopulateBranch.         *)
(***************************************************************************)
EXTENDS Naturals, Sequences, FiniteSets, SequencesExt, Selections

CONSTANTS
    Clients,
    Root,              \* the source folder
    Branches, ItemKeys, \* what the source may list
    children,          \* of each branch: everything the source ever lists there
    depth,             \* length of each branch's browse path
    PropertyCount,     \* property nodes the source offers for an item
    MaxNodes, MaxDepth, RefreshInterval,
    MaxTime,           \* bound on the clock
    MaxEvents,         \* bound: changes of the source's address space and reconnects
    Never              \* not browsed

Folders == Branches \cup {Root}
Keys    == Folders \cup ItemKeys

ASSUME SpaceAssumption ==
    /\ Root \notin Branches \cup ItemKeys /\ Branches \cap ItemKeys = {}
    /\ children \in [Folders -> Seq(Branches \cup ItemKeys)]
    /\ depth \in [Folders -> Nat]
    /\ {PropertyCount, MaxNodes, MaxDepth, RefreshInterval, MaxTime, MaxEvents} \subseteq Nat
    /\ Never \notin Nat
    /\ IsFiniteSet(Clients) /\ IsFiniteSet(Keys)

VARIABLES
    clock,
    listed,            \* what the source lists now
    events,            \* changes and reconnects so far
    object,            \* the current node object of each key, 0 when there is none
    refs,              \* forward references of every object a key has had
    properties,        \* items whose property nodes exist
    browsed,           \* when each key was last browsed
    inflight,          \* keys being browsed
    populating,        \* clients inside PopulateBranch, holding AddressSpace.mu
    browsing           \* the Browse each client has outstanding

envVars    == <<clock, listed, events>>
spaceState == <<object, refs, properties, browsed, inflight, populating>>
spaceVars  == <<envVars, spaceState, browsing>>

\* A bound: node objects of a key before a listing that breaks after it.
MaxBroken == 2
MaxObjects == 1 + MaxBroken + MaxTime + MaxEvents + Cardinality(Clients)

NoBrowse == [pc |-> "idle", key |-> Root, now |-> 0, entries |-> <<>>, object |-> 0]

Listing(b) == Selected(children[b], listed)

SpaceInit ==
    /\ clock = 0
    /\ listed = Keys \ {Root} /\ events = 0
    /\ object = [k \in Keys |-> IF k = Root THEN 1 ELSE 0]
    /\ refs = [k \in Keys |-> [o \in 1..MaxObjects |-> <<>>]]
    /\ properties = {}
    /\ browsed = [k \in Keys |-> Never]
    /\ inflight = {} /\ populating = {}
    /\ browsing = [c \in Clients |-> NoBrowse]

-----------------------------------------------------------------------------
(* The environment *)

Tick ==
    /\ clock < MaxTime
    /\ clock' = clock + 1
    /\ UNCHANGED <<listed, events, spaceState, browsing>>

SourceRelists(k) ==
    /\ events < MaxEvents
    /\ events' = events + 1
    /\ listed' = IF k \in listed THEN listed \ {k} ELSE listed \cup {k}
    /\ UNCHANGED <<clock, spaceState, browsing>>

\* A reconnect; a browse in flight is not interrupted.
Invalidate ==
    /\ events < MaxEvents
    /\ events' = events + 1
    /\ browsed' = [k \in Keys |-> Never]
    /\ UNCHANGED <<clock, listed, object, refs, properties, inflight, populating, browsing>>

-----------------------------------------------------------------------------
(* EnsureBranch and EnsureItemProperties: the same discipline over one map *)

SourceNodeCount ==
    Cardinality({k \in Keys \ {Root} : object[k] # 0})
        + PropertyCount * Cardinality(properties)

Fresh(k, now) == browsed[k] # Never /\ now - browsed[k] < RefreshInterval

Go(c, pc) == browsing' = [browsing EXCEPT ![c].pc = pc]

\* What a call still needs once it is past the source; a refusal is answered.
Past(c, pc) == IF pc = "refused" THEN NoBrowse
               ELSE [NoBrowse EXCEPT !.pc = pc, !.key = browsing[c].key]

\* One Browse of one node. An unknown item is not discovered; a path that is too
\* deep is refused before anything is looked up, which changes nothing.
Browse(c, k) ==
    /\ browsing[c].pc = "idle"
    /\ k \in Folders => depth[k] <= MaxDepth
    /\ LET ready   == (k \in ItemKeys /\ object[k] = 0) \/ Fresh(k, clock)
           pc == CASE ready          -> "reading"
                   [] k \in inflight -> "waiting"
                   [] OTHER          -> "calling"
       IN  /\ browsing' = [browsing EXCEPT ![c] =
                 [NoBrowse EXCEPT !.pc = pc, !.key = k,
                                !.now = IF pc \in {"calling", "waiting"} THEN clock ELSE 0]]
           /\ inflight' = IF pc = "calling" THEN inflight \cup {k} ELSE inflight
    /\ UNCHANGED <<envVars, object, refs, properties, browsed, populating>>

\* Mutation: those who wait for the flight are not woken.
LandSilently(c, pc) ==
    /\ inflight' = inflight \ {browsing[c].key}
    /\ browsing' = [browsing EXCEPT ![c] = Past(c, pc)]

\* The end of a flight: the key leaves inflight and everyone waiting wakes.
Land(c, pc) ==
    /\ inflight' = inflight \ {browsing[c].key}
    /\ browsing' = [d \in Clients |->
                   IF d = c THEN Past(c, pc)
                   ELSE IF browsing[d].pc = "waiting" /\ browsing[d].key = browsing[c].key
                   THEN [browsing[d] EXCEPT !.pc = "woken"] ELSE browsing[d]]

\* runtime.Browse or the property calls fail, or time out.
SourceFails(c) ==
    /\ browsing[c].pc = "calling"
    /\ Land(c, "refused")
    /\ UNCHANGED <<envVars, object, refs, properties, browsed, populating>>

\* The listing arrives and is held against the node budget, which is read
\* here and used in PopulateBranch.
SourceLists(c) ==
    LET b == browsing[c].key
        entries == Listing(b)
    IN  /\ browsing[c].pc = "calling" /\ b \in Folders
        /\ populating = {}
        /\ IF SourceNodeCount + Len(entries) > MaxNodes
           THEN Land(c, "refused")
           ELSE /\ browsing' = [browsing EXCEPT ![c] =
                                 [@ EXCEPT !.pc = "checked", !.entries = entries]]
                /\ UNCHANGED inflight
        /\ UNCHANGED <<envVars, object, refs, properties, browsed, populating>>

\* PopulateBranch finds the parent, or fails when the path has no node, and
\* drops the parent's forward references; the lock stays held.
PopulateBegins(c) ==
    LET b == browsing[c].key
    IN  /\ browsing[c].pc = "checked" /\ populating = {}
        /\ IF object[b] = 0
           THEN Land(c, "refused") /\ UNCHANGED <<refs, populating>>
           ELSE /\ refs' = [refs EXCEPT ![b][object[b]] = <<>>]
                /\ populating' = {c}
                /\ Go(c, "filling")
                /\ UNCHANGED inflight
        /\ UNCHANGED <<envVars, object, properties, browsed>>

\* Every entry gets a new node object, which replaces the one it had, and a
\* reference from the parent; the lock is released.
Fill(c, added) ==
    LET b == browsing[c].key
    IN  /\ browsing[c].pc = "filling"
        /\ object' = [k \in Keys |-> IF k \in ToSet(added) THEN object[k] + 1 ELSE object[k]]
        /\ refs' = [refs EXCEPT ![b][object[b]] = added]
        /\ populating' = {}
        /\ UNCHANGED <<envVars, properties, browsed>>

PopulateEnds(c) ==
    /\ Fill(c, browsing[c].entries)
    /\ browsing' = [browsing EXCEPT ![c] = [@ EXCEPT !.pc = "filled", !.entries = <<>>]]
    /\ UNCHANGED inflight

\* nodeForEntry refuses an entry without a name or ItemID: what comes before it
\* has been added, and the references there were are gone. No browse is recorded,
\* so it may happen any number of times.
PopulateBreaks(c) ==
    \E n \in 1..Len(browsing[c].entries) :
        LET added == SubSeq(browsing[c].entries, 1, n - 1)
        IN  /\ \A k \in ToSet(added) : object[k] < MaxBroken
            /\ Fill(c, added)
            /\ Land(c, "refused")

\* The branch or item is recorded as browsed at the time its request began.
Recorded(c) ==
    /\ browsed' = [browsed EXCEPT ![browsing[c].key] = browsing[c].now]
    /\ Land(c, "reading")

RecordBrowsed(c) ==
    /\ browsing[c].pc = "filled"
    /\ Recorded(c)
    /\ UNCHANGED <<envVars, object, refs, properties, populating>>

\* Mutation: property nodes are not held against the budget.
AttachUnchecked(c) ==
    LET i == browsing[c].key
    IN  /\ browsing[c].pc = "calling" /\ i \in ItemKeys /\ populating = {}
        /\ properties' = properties \cup {i}
        /\ refs' = [refs EXCEPT ![i][object[i]] = <<i>>]
        /\ Go(c, "filled")
        /\ UNCHANGED <<envVars, object, browsed, populating, inflight>>

\* AttachItemProperties checks the budget and adds the nodes under one lock.
Attach(c) ==
    LET i == browsing[c].key
        needed == IF i \in properties THEN 0 ELSE PropertyCount
    IN  /\ browsing[c].pc = "calling" /\ i \in ItemKeys /\ populating = {}
        /\ IF SourceNodeCount + needed > MaxNodes
           THEN Land(c, "refused") /\ UNCHANGED <<properties, refs>>
           ELSE /\ properties' = properties \cup {i}
                /\ refs' = [refs EXCEPT ![i][object[i]] = <<i>>]
                /\ Go(c, "filled")
                /\ UNCHANGED inflight
        /\ UNCHANGED <<envVars, object, browsed, populating>>

\* A source without IOPCItemProperties: the answer is remembered too.
PropertiesUnsupported(c) ==
    /\ browsing[c].pc = "calling" /\ browsing[c].key \in ItemKeys
    /\ Recorded(c)
    /\ UNCHANGED <<envVars, object, refs, properties, populating>>

\* A waiter judges the flight it waited for by what it recorded.
Wake(c) ==
    /\ browsing[c].pc = "woken"
    /\ browsing' = [browsing EXCEPT ![c] =
          Past(c, IF Fresh(browsing[c].key, browsing[c].now) THEN "reading" ELSE "refused")]
    /\ UNCHANGED <<envVars, spaceState>>

-----------------------------------------------------------------------------
(* browseNode *)

\* Node(id) under the lock.
Point(c) ==
    /\ browsing[c].pc = "reading" /\ populating = {}
    /\ LET o == object[browsing[c].key]
       IN  browsing' = [browsing EXCEPT ![c] =
              IF o = 0 THEN NoBrowse ELSE [@ EXCEPT !.pc = "pointed", !.object = o]]
    /\ UNCHANGED <<envVars, spaceState>>

\* The references of the object pointed to, without the lock: while a
\* population rewrites that very object, any part of the new list is seen.
Seen(c) ==
    LET k == browsing[c].key
        o == browsing[c].object
        writer == {d \in populating : browsing[d].key = k /\ object[k] = o}
    IN  {refs[k][o]} \cup UNION {
            {SubSeq(browsing[d].entries, 1, n) : n \in 0..Len(browsing[d].entries)} : d \in writer}

ReadReferences(c) ==
    /\ browsing[c].pc = "pointed"
    /\ \E answer \in Seen(c) :
          browsing' = [browsing EXCEPT ![c] =
              [@ EXCEPT !.pc = "answered", !.entries = answer, !.object = 0]]
    /\ UNCHANGED <<envVars, spaceState>>

Respond(c) ==
    /\ browsing[c].pc = "answered"
    /\ browsing' = [browsing EXCEPT ![c] = NoBrowse]
    /\ UNCHANGED <<envVars, spaceState>>

\* A Read, Write or subscription names an item nobody browsed: it becomes a
\* node outside the hierarchy, within the budget.
ResolveVariable(i) ==
    /\ object[i] = 0 /\ populating = {}
    /\ SourceNodeCount < MaxNodes
    /\ object' = [object EXCEPT ![i] = 1]
    /\ UNCHANGED <<envVars, refs, properties, browsed, inflight, populating, browsing>>

Progress(c) ==
    \/ SourceFails(c) \/ SourceLists(c) \/ PopulateBegins(c) \/ PopulateEnds(c)
    \/ PopulateBreaks(c) \/ RecordBrowsed(c) \/ Attach(c) \/ PropertiesUnsupported(c) \/ Wake(c)
    \/ Point(c) \/ ReadReferences(c) \/ Respond(c)

SpaceNext ==
    \/ Tick \/ Invalidate
    \/ \E b \in Folders : \E k \in ToSet(children[b]) : SourceRelists(k)
    \/ \E i \in ItemKeys : ResolveVariable(i)
    \/ \E c \in Clients : Progress(c) \/ \E k \in Keys : Browse(c, k)

SpaceSpec == SpaceInit /\ [][SpaceNext]_spaceVars

\* Every DA call ends, by its timeout at the latest, and the goroutines run; a
\* sync.RWMutex lets in whoever waits for it, however often others take it.
SpaceFairness == \A c \in Clients : SF_spaceVars(Progress(c))

FairSpaceSpec == SpaceSpec /\ SpaceFairness

-----------------------------------------------------------------------------
(* Properties *)

InFlight == {"calling", "checked", "filling", "filled"}

\* However browses interleave with failures, wake-ups and reconnects, a branch
\* or item has at most one call to the source outstanding, and it is marked in
\* flight exactly as long as its one caller is on the way: a key left marked
\* would make every later Browse of it wait for nobody.
OneFlight ==
    \A k \in Keys :
        LET callers == {c \in Clients : browsing[c].pc \in InFlight /\ browsing[c].key = k}
        IN  Cardinality(callers) = IF k \in inflight THEN 1 ELSE 0

\* The node budget is read before PopulateBranch takes the lock, so browses of
\* different branches, and items that requests name, can pass it together. The
\* space then exceeds MaxNodes, but never by more than one listing for each
\* client that browses.
OvershootBounded ==
    \E b \in Folders :
        SourceNodeCount <= MaxNodes + Cardinality(Clients) * Len(children[b])

\* Every Browse is answered, whether its own call succeeds or fails, and
\* whether the flight it waits for succeeds, fails or is overtaken by a
\* reconnect.
BrowsesEnd == \A c \in Clients : (browsing[c].pc # "idle") ~> (browsing[c].pc = "idle")

\* With a source that never changes, what a Browse returns for a branch is what
\* the source lists there: EnsureBranch "returns once the address space
\* reflects it". (Violated: browsing the parent again replaces the branch's
\* node, and with it its references, while the branch still counts as fresh.)
BrowseReflectsSource ==
    \A c \in Clients :
        (browsing[c].pc = "answered" /\ browsing[c].key \in Folders)
            => browsing[c].entries = Listing(browsing[c].key)

\* Population keeps its discipline under concurrent browses: one call to the
\* source for each branch or item, and a bounded number of nodes (EnsureBranch,
\* EnsureItemProperties, the MaxNodes check).
PopulationSound == OneFlight /\ OvershootBounded
=============================================================================
