---------------------------- MODULE UADataProofs ----------------------------
(***************************************************************************)
(* Proofs about what OPC UA clients browse, read and write, for any number *)
(* of clients, branches and items. The address space: one call to the      *)
(* source per branch or item at a time, and a node budget that is passed   *)
(* by one listing per client at most.                                      *)
(***************************************************************************)
EXTENDS UAAddressSpace, UABrowse, UADataAccess, SelectionTheorems, FiniteSetTheorems, SequenceTheorems, TLAPS

-----------------------------------------------------------------------------
(* The address space *)

\* Clients whose listing was held against the budget and is yet to be added.
Awaiting == {c \in Clients : browsing[c].pc \in {"checked", "filling"}}

\* The length of the longest listing there is.
Longest == CHOOSE n \in {Len(children[b]) : b \in Folders} :
               \A b \in Folders : Len(children[b]) <= n

IsBrowse(r) ==
    /\ r = [pc |-> r.pc, key |-> r.key, now |-> r.now, entries |-> r.entries,
            object |-> r.object]
    /\ r.key \in Keys

SpaceTypes ==
    /\ object \in [Keys -> Nat] /\ properties \subseteq ItemKeys /\ inflight \subseteq Keys
    /\ DOMAIN browsing = Clients
    /\ \A c \in Clients : IsBrowse(browsing[c])

\* A client is on the way for a key exactly if the key is marked, and alone.
FlightsMatch ==
    /\ \A c \in Clients : browsing[c].pc \in InFlight => browsing[c].key \in inflight
    /\ \A c, d \in Clients :
           /\ browsing[c].pc \in InFlight /\ browsing[d].pc \in InFlight
           /\ browsing[c].key = browsing[d].key
           => c = d
    /\ \A k \in inflight : \E c \in Clients :
           browsing[c].pc \in InFlight /\ browsing[c].key = k

IsListing(entries) ==
    /\ entries \in Seq(Branches \cup ItemKeys)
    /\ Len(entries) <= Longest

ListingsKnown == \A c \in Awaiting : IsListing(browsing[c].entries)

\* The budget with what is yet to be added: a listing that was held against
\* the budget takes the place its client has in the bound.
BudgetKept ==
    SourceNodeCount <= MaxNodes + (Cardinality(Clients) - Cardinality(Awaiting)) * Longest

SpaceInv == SpaceTypes /\ FlightsMatch /\ ListingsKnown /\ BudgetKept

\* There is a longest listing.
LEMMA LongestIs ==
    /\ Longest \in Nat
    /\ \E b \in Folders : Len(children[b]) = Longest
    /\ \A b \in Folders : Len(children[b]) <= Longest
<1> DEFINE S == {Len(children[b]) : b \in Folders}
           n == At(S, Cardinality(S))
           f == [b \in Folders |-> Len(children[b])]
<1>1. \A b \in Folders : Len(children[b]) \in Nat
  BY SpaceAssumption
<1>2. IsFiniteSet(Folders)
  <2>1. Folders \in SUBSET Keys /\ IsFiniteSet(Keys)
    BY SpaceAssumption DEF Keys
  <2> QED BY <2>1, FS_Subset, Zenon
<1>3. S \in SUBSET Nat /\ S # {}
  BY <1>1 DEF Folders
<1>4. f \in Surjection(Folders, S)
  BY DEF Surjection
<1>5. IsFiniteSet(S)
  BY <1>2, <1>4, FS_Surjection, Zenon
<1>6. Cardinality(S) \in Nat /\ Cardinality(S) # 0
  BY <1>3, <1>5, FS_CardinalityType, FS_EmptySet, Zenon
<1>7. Cardinality(S) \in 1 .. Cardinality(S)
  BY <1>6
<1> HIDE DEF S
<1>8. n \in S /\ Place(S, n) = Cardinality(S)
  BY <1>3, <1>5, <1>7, EveryPlace, Zenon
<1> HIDE DEF n
<1>9. ASSUME NEW m \in S PROVE m <= n
  <2>1. Place(S, m) \in 1 .. Cardinality(S)
    BY <1>3, <1>5, PlaceType, Zenon
  <2>2. n < m => Place(S, n) < Place(S, m)
    BY <1>3, <1>5, <1>8, PlaceGap
  <2> QED BY <2>1, <2>2, <1>3, <1>6, <1>8
<1>10. \A b \in Folders : Len(children[b]) \in S
  BY DEF S
<1>11. \E m \in S : \A b \in Folders : Len(children[b]) <= m
  BY <1>8, <1>9, <1>10
<1>12. Longest \in S /\ \A b \in Folders : Len(children[b]) <= Longest
  BY <1>11 DEF Longest, S
<1> QED BY <1>12, <1>3 DEF S

\* Finitely many clients, those waiting to add among them.
LEMMA ClientsCounted ==
    /\ Cardinality(Clients) \in Nat
    /\ \A A \in SUBSET Clients : /\ IsFiniteSet(A) /\ Cardinality(A) \in Nat
                                 /\ Cardinality(A) <= Cardinality(Clients)
<1>1. IsFiniteSet(Clients)
  BY SpaceAssumption
<1> QED BY <1>1, FS_Subset, FS_CardinalityType, Zenon

\* The number of nodes is a number.
LEMMA NodesCounted ==
    ASSUME NEW o, NEW p \in SUBSET ItemKeys
    PROVE  LET nodes == {k \in Keys \ {Root} : o[k] # 0}
           IN  /\ IsFiniteSet(nodes) /\ Cardinality(nodes) \in Nat
               /\ IsFiniteSet(p) /\ Cardinality(p) \in Nat
               /\ Cardinality(nodes) + PropertyCount * Cardinality(p) \in Nat
<1> DEFINE nodes == {k \in Keys \ {Root} : o[k] # 0}
<1>1. IsFiniteSet(Keys) /\ nodes \in SUBSET Keys /\ p \in SUBSET Keys
  BY SpaceAssumption DEF Keys
<1>2. /\ IsFiniteSet(nodes) /\ Cardinality(nodes) \in Nat
      /\ IsFiniteSet(p) /\ Cardinality(p) \in Nat
  BY <1>1, FS_Subset, FS_CardinalityType, Zenon
<1>3. PropertyCount \in Nat
  BY SpaceAssumption
<1> HIDE DEF nodes
<1>4. Cardinality(nodes) + PropertyCount * Cardinality(p) \in Nat
  BY <1>2, <1>3
<1> QED BY <1>2, <1>4 DEF nodes

\* More of the same length is longer.
LEMMA Monotone ==
    ASSUME NEW m \in Nat, NEW n \in Nat, NEW l \in Nat, m <= n
    PROVE  m * l <= n * l
<1>1. n - m \in Nat /\ (n - m) * l \in Nat
  OBVIOUS
<1>2. n * l = m * l + (n - m) * l
  OBVIOUS
<1> QED BY <1>1, <1>2

\* The bound is a bound on the nodes alone, and it only grows when clients are
\* done adding.
LEMMA BudgetKeeps ==
    ASSUME SpaceTypes, SpaceTypes', BudgetKept,
           \/ SourceNodeCount' = SourceNodeCount /\ Awaiting' \subseteq Awaiting
           \/ SourceNodeCount' <= MaxNodes
           \/ \E c \in Awaiting : /\ SourceNodeCount' <= SourceNodeCount + Longest
                                  /\ Awaiting' = Awaiting \ {c}
    PROVE  BudgetKept'
<1> DEFINE N == Cardinality(Clients)
           a == Cardinality(Awaiting)
           b == Cardinality(Awaiting')
<1>1. SourceNodeCount \in Nat /\ SourceNodeCount' \in Nat
  <2>1. properties \in SUBSET ItemKeys /\ properties' \in SUBSET ItemKeys
    BY DEF SpaceTypes
  <2> QED BY <2>1, NodesCounted DEF SourceNodeCount
<1>2. Longest \in Nat /\ MaxNodes \in Nat
  BY LongestIs, SpaceAssumption
<1>3. Awaiting \in SUBSET Clients /\ Awaiting' \in SUBSET Clients
  BY DEF Awaiting
<1>4. N \in Nat /\ a \in Nat /\ b \in Nat /\ a <= N /\ b <= N /\ IsFiniteSet(Awaiting)
  BY <1>3, ClientsCounted, Zenon
<1>5. SourceNodeCount <= MaxNodes + (N - a) * Longest
  BY DEF BudgetKept
<1>6. SUFFICES SourceNodeCount' <= MaxNodes + (N - b) * Longest
  BY DEF BudgetKept
<1> HIDE DEF N
<1>7. CASE SourceNodeCount' = SourceNodeCount /\ Awaiting' \subseteq Awaiting
  <2>1. b <= a
    BY <1>4, <1>7, FS_Subset, Zenon
  <2> HIDE DEF a, b
  <2>2. (N - a) * Longest <= (N - b) * Longest
    BY <2>1, <1>2, <1>4, Monotone
  <2> QED BY <2>2, <1>1, <1>2, <1>4, <1>5, <1>7
<1>8. CASE SourceNodeCount' <= MaxNodes
  <2> HIDE DEF a, b
  <2>1. 0 * Longest <= (N - b) * Longest
    BY <1>2, <1>4, Monotone
  <2> QED BY <2>1, <1>1, <1>2, <1>4, <1>8
<1>9. ASSUME NEW c \in Awaiting, SourceNodeCount' <= SourceNodeCount + Longest,
             Awaiting' = Awaiting \ {c}
      PROVE  SourceNodeCount' <= MaxNodes + (N - b) * Longest
  <2>1. b = a - 1
    BY <1>4, <1>9, FS_RemoveElement, Zenon
  <2> HIDE DEF a, b
  <2>2. (N - b) * Longest = (N - a) * Longest + Longest
    BY <2>1, <1>2, <1>4
  <2>3. (N - a) * Longest \in Int
    BY <1>2, <1>4
  <2> QED BY <2>2, <2>3, <1>1, <1>2, <1>4, <1>5, <1>9
<1> QED BY <1>7, <1>8, <1>9

FlightPart ==
    /\ DOMAIN browsing = Clients /\ inflight \subseteq Keys
    /\ \A c \in Clients : IsBrowse(browsing[c])
    /\ FlightsMatch /\ ListingsKnown

\* What is left of a Browse that is past the source.
LEMMA PastIs ==
    ASSUME NEW c \in Clients, NEW pc
    PROVE  Past(c, pc) = IF pc = "refused" THEN NoBrowse
                         ELSE [pc |-> pc, key |-> browsing[c].key, now |-> 0,
                               entries |-> <<>>, object |-> 0]
<1> DEFINE k == browsing[c].key
           r == [NoBrowse EXCEPT !.pc = pc]
<1>1. r = [pc |-> pc, key |-> Root, now |-> 0, entries |-> <<>>, object |-> 0]
  BY DEF NoBrowse
<1>2. Past(c, pc) = IF pc = "refused" THEN NoBrowse ELSE [r EXCEPT !.key = k]
  BY DEF Past
<1> HIDE DEF k, r
<1>3. [r EXCEPT !.key = k] =
          [pc |-> pc, key |-> k, now |-> 0, entries |-> <<>>, object |-> 0]
  BY <1>1
<1> QED BY <1>2, <1>3 DEF k

\* The end of a flight takes its one client off the way and wakes the others,
\* which were not on the way.
LEMMA LandKeeps ==
    ASSUME FlightPart, NEW c \in Clients, browsing[c].pc \in InFlight,
           NEW pc \in {"refused", "reading"}, Land(c, pc)
    PROVE  FlightPart' /\ Awaiting' = Awaiting \ {c}
<1> USE DEF FlightPart
<1>1. /\ inflight' = inflight \ {browsing[c].key}
      /\ DOMAIN browsing' = Clients
      /\ browsing'[c] = Past(c, pc)
      /\ \A d \in Clients \ {c} :
            browsing'[d] = IF browsing[d].pc = "waiting" /\ browsing[d].key = browsing[c].key
                           THEN [browsing[d] EXCEPT !.pc = "woken"] ELSE browsing[d]
  BY DEF Land
<1>2. /\ IsBrowse(browsing'[c])
      /\ browsing'[c].pc \in {"idle", "reading"}
  <2>1. Root \in Keys /\ browsing[c].key \in Keys
    BY DEF IsBrowse, Keys, Folders
  <2>2. Past(c, pc) \in {[pc |-> "idle", key |-> Root, now |-> 0, entries |-> <<>>,
                          object |-> 0],
                         [pc |-> "reading", key |-> browsing[c].key, now |-> 0,
                          entries |-> <<>>, object |-> 0]}
    BY PastIs DEF NoBrowse
  <2>3. \A r : r \in {[pc |-> "idle", key |-> Root, now |-> 0, entries |-> <<>>,
                       object |-> 0],
                      [pc |-> "reading", key |-> browsing[c].key, now |-> 0,
                       entries |-> <<>>, object |-> 0]}
             => IsBrowse(r) /\ r.pc \in {"idle", "reading"}
    BY <2>1 DEF IsBrowse
  <2>4. IsBrowse(Past(c, pc)) /\ Past(c, pc).pc \in {"idle", "reading"}
    BY <2>2, <2>3, Zenon
  <2> QED BY <1>1, <2>4, Zenon
<1>3. ASSUME NEW d \in Clients \ {c}
      PROVE  /\ IsBrowse(browsing'[d])
             /\ browsing'[d].key = browsing[d].key
             /\ browsing'[d].entries = browsing[d].entries
             /\ \/ browsing'[d].pc = browsing[d].pc
                \/ browsing[d].pc = "waiting" /\ browsing'[d].pc = "woken"
  <2>1. CASE browsing'[d] = browsing[d]
    <3>1. IsBrowse(browsing[d])
      OBVIOUS
    <3> QED BY <2>1, <3>1, Zenon
  <2>2. CASE /\ browsing[d].pc = "waiting"
             /\ browsing'[d] = [browsing[d] EXCEPT !.pc = "woken"]
    <3> DEFINE r == browsing[d]
    <3>1. r = [pc |-> r.pc, key |-> r.key, now |-> r.now, entries |-> r.entries,
               object |-> r.object] /\ r.key \in Keys
      BY DEF IsBrowse
    <3> HIDE DEF r
    <3>2. [r EXCEPT !.pc = "woken"] =
             [pc |-> "woken", key |-> r.key, now |-> r.now, entries |-> r.entries,
              object |-> r.object]
      BY <3>1
    <3>3. browsing'[d] = [r EXCEPT !.pc = "woken"] /\ r.pc = "waiting"
      BY <2>2 DEF r
    <3>4. /\ browsing'[d].pc = "woken" /\ browsing'[d].key = r.key
          /\ browsing'[d].entries = r.entries /\ IsBrowse(browsing'[d])
      BY <3>1, <3>2, <3>3 DEF IsBrowse
    <3> QED BY <3>3, <3>4 DEF r
  <2> QED BY <2>1, <2>2, <1>1
<1>4. \A d \in Clients : browsing'[d].pc \in InFlight <=> d # c /\ browsing[d].pc \in InFlight
  BY <1>2, <1>3 DEF InFlight
<1>5. Awaiting' = Awaiting \ {c}
  BY <1>2, <1>3 DEF Awaiting
<1>6. FlightsMatch'
  <2>1. \A d \in Clients : browsing'[d].pc \in InFlight => browsing'[d].key \in inflight'
    BY <1>1, <1>3, <1>4 DEF FlightsMatch
  <2>2. \A d, e \in Clients : browsing'[d].pc \in InFlight /\ browsing'[e].pc \in InFlight
                                 /\ browsing'[d].key = browsing'[e].key => d = e
    BY <1>3, <1>4 DEF FlightsMatch
  <2>3. ASSUME NEW k \in inflight'
        PROVE  \E d \in Clients : browsing'[d].pc \in InFlight /\ browsing'[d].key = k
    <3>1. PICK d \in Clients : browsing[d].pc \in InFlight /\ browsing[d].key = k
      BY <1>1 DEF FlightsMatch
    <3>2. d # c
      BY <3>1, <1>1
    <3> QED BY <3>1, <3>2, <1>3, <1>4
  <2> QED BY <2>1, <2>2, <2>3 DEF FlightsMatch
<1>7. ListingsKnown'
  BY <1>3, <1>5 DEF ListingsKnown, Awaiting, IsListing
<1>8. inflight' \subseteq Keys /\ \A d \in Clients : IsBrowse(browsing'[d])
  BY <1>1, <1>2, <1>3
<1> QED BY <1>1, <1>5, <1>6, <1>7, <1>8

\* A client that sets out, goes on, or does something that is no flight.
LEMMA MoveKeeps ==
    ASSUME FlightPart, NEW c \in Clients, NEW r, IsBrowse(r),
           browsing' = [browsing EXCEPT ![c] = r],
           \/ /\ browsing[c].pc \in InFlight /\ r.pc \in InFlight
              /\ r.key = browsing[c].key /\ inflight' = inflight
           \/ browsing[c].pc \notin InFlight /\ r.pc \notin InFlight /\ inflight' = inflight
           \/ /\ browsing[c].pc \notin InFlight /\ r.pc \in InFlight
              /\ r.key \notin inflight /\ inflight' = inflight \cup {r.key},
           r.pc \in {"checked", "filling"} => IsListing(r.entries)
    PROVE  /\ FlightPart'
           /\ r.pc \notin {"checked", "filling"} => Awaiting' = Awaiting \ {c}
           /\ browsing[c].pc \in {"checked", "filling"} => Awaiting' \subseteq Awaiting
<1> USE DEF FlightPart
<1>1. /\ DOMAIN browsing' = Clients
      /\ browsing'[c] = r
      /\ \A d \in Clients \ {c} : browsing'[d] = browsing[d]
  OBVIOUS
<1>2. r.key \in Keys
  BY DEF IsBrowse
<1>3. inflight' \subseteq Keys /\ \A d \in Clients : IsBrowse(browsing'[d])
  BY <1>1, <1>2
<1>4. FlightsMatch'
  <2>1. \A d \in Clients : browsing'[d].pc \in InFlight => browsing'[d].key \in inflight'
    BY <1>1 DEF FlightsMatch
  <2>2. \A d, e \in Clients : browsing'[d].pc \in InFlight /\ browsing'[e].pc \in InFlight
                                 /\ browsing'[d].key = browsing'[e].key => d = e
    BY <1>1 DEF FlightsMatch
  <2>3. ASSUME NEW k \in inflight'
        PROVE  \E d \in Clients : browsing'[d].pc \in InFlight /\ browsing'[d].key = k
    BY <1>1, <2>3 DEF FlightsMatch
  <2> QED BY <2>1, <2>2, <2>3 DEF FlightsMatch
<1>5. ListingsKnown'
  BY <1>1 DEF ListingsKnown, Awaiting, IsListing
<1>6. /\ r.pc \notin {"checked", "filling"} => Awaiting' = Awaiting \ {c}
      /\ browsing[c].pc \in {"checked", "filling"} => Awaiting' \subseteq Awaiting
  BY <1>1 DEF Awaiting
<1> QED BY <1>1, <1>3, <1>4, <1>5, <1>6

\* A Browse with another program counter, other entries or another object.
Put(b, p, e, o) == [pc |-> p, key |-> b.key, now |-> b.now, entries |-> e, object |-> o]

\* Put gives a Browse of the same key.
LEMMA PutTyped ==
    ASSUME NEW b, IsBrowse(b), NEW p, NEW e, NEW o
    PROVE  /\ IsBrowse(Put(b, p, e, o))
           /\ Put(b, p, e, o).pc = p /\ Put(b, p, e, o).key = b.key
           /\ Put(b, p, e, o).entries = e
<1>1. b.key \in Keys
  BY DEF IsBrowse
<1> QED BY <1>1 DEF Put, IsBrowse

\* How the steps write the Browse of a client.
Moved(b, p) == [b EXCEPT !.pc = p]
MovedEntries(b, p, e) == [b EXCEPT !.pc = p, !.entries = e]
MovedObject(b, p, o) == [b EXCEPT !.pc = p, !.object = o]
MovedBoth(b, p, e, o) == [b EXCEPT !.pc = p, !.entries = e, !.object = o]

\* All of them are a Put.
LEMMA MovedIs ==
    ASSUME NEW b, IsBrowse(b), NEW p, NEW e, NEW o
    PROVE  /\ Moved(b, p) = Put(b, p, b.entries, b.object)
           /\ MovedEntries(b, p, e) = Put(b, p, e, b.object)
           /\ MovedObject(b, p, o) = Put(b, p, b.entries, o)
           /\ MovedBoth(b, p, e, o) = Put(b, p, e, o)
<1> DEFINE x == b.pc  k == b.key  n == b.now  f == b.entries  g == b.object
<1>1. b = [pc |-> x, key |-> k, now |-> n, entries |-> f, object |-> g]
  BY DEF IsBrowse
<1> HIDE DEF x, k, n, f, g
<1>2. /\ [b EXCEPT !.pc = p] =
            [pc |-> p, key |-> k, now |-> n, entries |-> f, object |-> g]
      /\ b.key = k /\ b.now = n /\ b.entries = f /\ b.object = g
  BY <1>1
<1> DEFINE c == [b EXCEPT !.pc = p]
<1>3. c = [pc |-> p, key |-> k, now |-> n, entries |-> f, object |-> g]
  BY <1>2
<1>4. /\ [b EXCEPT !.pc = p, !.entries = e] = [c EXCEPT !.entries = e]
      /\ [b EXCEPT !.pc = p, !.object = o] = [c EXCEPT !.object = o]
      /\ [b EXCEPT !.pc = p, !.entries = e, !.object = o] =
             [[c EXCEPT !.entries = e] EXCEPT !.object = o]
  OBVIOUS
<1> HIDE DEF c
<1> DEFINE d == [c EXCEPT !.entries = e]
<1>5. d = [pc |-> p, key |-> k, now |-> n, entries |-> e, object |-> g]
  BY <1>3
<1>6. [c EXCEPT !.object = o] = [pc |-> p, key |-> k, now |-> n, entries |-> f, object |-> o]
  BY <1>3
<1>7. /\ [b EXCEPT !.pc = p, !.entries = e] = d
      /\ [b EXCEPT !.pc = p, !.entries = e, !.object = o] = [d EXCEPT !.object = o]
  BY <1>4
<1> HIDE DEF d
<1>8. [d EXCEPT !.object = o] = [pc |-> p, key |-> k, now |-> n, entries |-> e, object |-> o]
  BY <1>5
<1> QED
  BY <1>2, <1>4, <1>5, <1>6, <1>7, <1>8
     DEF Put, Moved, MovedEntries, MovedObject, MovedBoth

\* A client that goes on with its Browse, on the way or off it.
LEMMA GoesOn ==
    ASSUME FlightPart, NEW c \in Clients, NEW p, NEW e, NEW o,
           browsing' = [browsing EXCEPT ![c] = Put(browsing[c], p, e, o)],
           inflight' = inflight, browsing[c].pc \in InFlight <=> p \in InFlight,
           p \in {"checked", "filling"} => IsListing(e)
    PROVE  /\ FlightPart'
           /\ p \notin {"checked", "filling"} => Awaiting' = Awaiting \ {c}
           /\ browsing[c].pc \in {"checked", "filling"} => Awaiting' \subseteq Awaiting
<1> DEFINE r == Put(browsing[c], p, e, o)
<1>1. IsBrowse(browsing[c])
  BY DEF FlightPart
<1>2. IsBrowse(r) /\ r.pc = p /\ r.key = browsing[c].key /\ r.entries = e
  BY <1>1, PutTyped
<1>3. browsing' = [browsing EXCEPT ![c] = r]
  OBVIOUS
<1> HIDE DEF r
<1>4. r.pc \in {"checked", "filling"} => IsListing(r.entries)
  BY <1>2
<1> QED BY <1>2, <1>3, <1>4, MoveKeeps

\* What the source lists is a listing.
LEMMA ListingIs ==
    ASSUME NEW b \in Folders
    PROVE  IsListing(Listing(b))
<1>1. children[b] \in Seq(Branches \cup ItemKeys)
  BY SpaceAssumption
<1>2. /\ Selected(children[b], listed) \in Seq(Branches \cup ItemKeys)
      /\ Len(Selected(children[b], listed)) <= Len(children[b])
  BY <1>1, SelectedFrom, Zenon
<1>3. Len(children[b]) <= Longest /\ Longest \in Nat
  BY LongestIs
<1>4. Len(Selected(children[b], listed)) \in Nat /\ Len(children[b]) \in Nat
  BY <1>1, <1>2
<1> QED BY <1>2, <1>3, <1>4 DEF Listing, IsListing

\* The invariant in the two parts the steps disturb.
LEMMA SpaceInvParts ==
    SpaceInv <=> /\ FlightPart /\ BudgetKept
                 /\ object \in [Keys -> Nat] /\ properties \subseteq ItemKeys
BY DEF SpaceInv, FlightPart, SpaceTypes

\* Steps that end a flight without adding a node.
LEMMA FlightEndsKeepInv ==
    ASSUME SpaceInv, NEW c \in Clients,
           SourceFails(c) \/ RecordBrowsed(c) \/ PropertiesUnsupported(c)
    PROVE  SpaceInv'
<1>1. /\ browsing[c].pc \in InFlight
      /\ object' = object /\ properties' = properties
      /\ Land(c, "refused") \/ Land(c, "reading")
  BY DEF SourceFails, RecordBrowsed, PropertiesUnsupported, Recorded, InFlight
<1>2. FlightPart /\ BudgetKept /\ object \in [Keys -> Nat] /\ properties \subseteq ItemKeys
  BY SpaceInvParts
<1>3. FlightPart' /\ Awaiting' = Awaiting \ {c}
  BY <1>1, <1>2, LandKeeps
<1>4. SpaceTypes /\ SpaceTypes'
  BY <1>1, <1>2, <1>3 DEF SpaceTypes, FlightPart
<1>5. SourceNodeCount' = SourceNodeCount
  BY <1>1 DEF SourceNodeCount
<1>6. BudgetKept'
  BY <1>2, <1>3, <1>4, <1>5, BudgetKeeps
<1> QED BY <1>3, <1>4, <1>6 DEF SpaceInv, FlightPart

\* Steps of browseNode, and waiters.
LEMMA ReadingKeepsInv ==
    ASSUME SpaceInv, NEW c \in Clients,
           Wake(c) \/ Point(c) \/ ReadReferences(c) \/ Respond(c)
    PROVE  SpaceInv'
<1>1. FlightPart /\ BudgetKept /\ object \in [Keys -> Nat] /\ properties \subseteq ItemKeys
  BY SpaceInvParts
<1>2. object' = object /\ properties' = properties /\ inflight' = inflight
  <2>1. UNCHANGED spaceState
    BY Zenon DEF Wake, Point, ReadReferences, Respond
  <2> QED BY <2>1 DEF spaceState
<1>3. IsBrowse(browsing[c]) /\ DOMAIN browsing = Clients
  BY <1>1 DEF FlightPart
<1>4. browsing[c].pc \notin InFlight
  <2>1. browsing[c].pc \in {"woken", "reading", "pointed", "answered"}
    BY Zenon DEF Wake, Point, ReadReferences, Respond
  <2> QED BY <2>1 DEF InFlight
<1>5. IsBrowse(NoBrowse) /\ NoBrowse.pc \notin InFlight
  BY DEF NoBrowse, IsBrowse, InFlight, Keys, Folders
<1>6. \E r : IsBrowse(r) /\ r.pc \notin InFlight /\ browsing' = [browsing EXCEPT ![c] = r]
  <2>1. CASE Wake(c)
    <3>1. PICK p \in {"refused", "reading"} :
              browsing' = [browsing EXCEPT ![c] = Past(c, p)]
      BY <2>1 DEF Wake
    <3> DEFINE k == browsing[c].key
               q == [pc |-> "reading", key |-> k, now |-> 0, entries |-> <<>>, object |-> 0]
    <3>2. k \in Keys
      BY <1>3 DEF IsBrowse
    <3>3. Past(c, p) \in {NoBrowse, q}
      BY <3>1, PastIs
    <3> HIDE DEF k
    <3>4. IsBrowse(q) /\ q.pc \notin InFlight
      BY <3>2 DEF IsBrowse, InFlight
    <3> HIDE DEF q
    <3> QED BY <3>1, <3>3, <3>4, <1>5
  <2>2. CASE Point(c)
    <3> DEFINE o == object[browsing[c].key]
               q == Put(browsing[c], "pointed", browsing[c].entries, o)
    <3>1. MovedObject(browsing[c], "pointed", o) = q
      BY <1>3, MovedIs
    <3>2. browsing' = [browsing EXCEPT ![c] =
              IF o = 0 THEN NoBrowse ELSE MovedObject(browsing[c], "pointed", o)]
      BY <2>2, Zenon DEF Point, MovedObject
    <3>4. IsBrowse(q) /\ q.pc = "pointed"
      BY <1>3, PutTyped
    <3> HIDE DEF q, o
    <3>3. \/ browsing' = [browsing EXCEPT ![c] = NoBrowse]
          \/ browsing' = [browsing EXCEPT ![c] = q]
      BY <3>1, <3>2
    <3> QED BY <3>3, <3>4, <1>5 DEF InFlight
  <2>3. CASE ReadReferences(c)
    <3>1. PICK answer :
              browsing' = [browsing EXCEPT ![c] =
                               MovedBoth(browsing[c], "answered", answer, 0)]
      BY <2>3, Zenon DEF ReadReferences, MovedBoth
    <3> DEFINE q == Put(browsing[c], "answered", answer, 0)
    <3>2. MovedBoth(browsing[c], "answered", answer, 0) = q
      BY <1>3, MovedIs
    <3>4. IsBrowse(q) /\ q.pc = "answered"
      BY <1>3, PutTyped
    <3> HIDE DEF q
    <3>3. browsing' = [browsing EXCEPT ![c] = q]
      BY <3>1, <3>2, Zenon
    <3> QED BY <3>3, <3>4 DEF InFlight
  <2>4. CASE Respond(c)
    BY <2>4, <1>5 DEF Respond
  <2> QED BY <2>1, <2>2, <2>3, <2>4
<1>7. PICK r : IsBrowse(r) /\ r.pc \notin InFlight /\ browsing' = [browsing EXCEPT ![c] = r]
  BY <1>6
<1>8. FlightPart' /\ Awaiting' = Awaiting \ {c}
  <2>1. r.pc \notin {"checked", "filling"}
    BY <1>7 DEF InFlight
  <2> QED BY <2>1, <1>1, <1>2, <1>4, <1>7, MoveKeeps
<1>9. SpaceTypes /\ SpaceTypes'
  BY <1>1, <1>2, <1>8 DEF SpaceTypes, FlightPart
<1>10. SourceNodeCount' = SourceNodeCount
  BY <1>2 DEF SourceNodeCount
<1>11. BudgetKept'
  BY <1>1, <1>8, <1>9, <1>10, BudgetKeeps
<1> QED BY <1>8, <1>9, <1>11 DEF SpaceInv, FlightPart

\* Setting out: the branch or item may be fresh, in flight, or is marked now.
LEMMA BrowseKeepsInv ==
    ASSUME SpaceInv, NEW c \in Clients, NEW k \in Keys, Browse(c, k)
    PROVE  SpaceInv'
<1>1. FlightPart /\ BudgetKept /\ object \in [Keys -> Nat] /\ properties \subseteq ItemKeys
  BY SpaceInvParts
<1>2. /\ browsing[c].pc = "idle"
      /\ UNCHANGED <<object, properties>>
      /\ \E pc \in {"reading", "waiting", "calling"}, n \in {0, clock} :
            /\ pc = "calling" => k \notin inflight
            /\ browsing' = [browsing EXCEPT ![c] =
                               [NoBrowse EXCEPT !.pc = pc, !.key = k, !.now = n]]
            /\ inflight' = IF pc = "calling" THEN inflight \cup {k} ELSE inflight
  <2> DEFINE ready == (k \in ItemKeys /\ object[k] = 0) \/ Fresh(k, clock)
             pc == CASE ready          -> "reading"
                     [] k \in inflight -> "waiting"
                     [] OTHER          -> "calling"
             n == IF pc \in {"calling", "waiting"} THEN clock ELSE 0
  <2>1. /\ browsing[c].pc = "idle"
        /\ UNCHANGED <<object, properties>>
        /\ browsing' = [browsing EXCEPT ![c] =
                            [NoBrowse EXCEPT !.pc = pc, !.key = k, !.now = n]]
        /\ inflight' = IF pc = "calling" THEN inflight \cup {k} ELSE inflight
    BY Zenon DEF Browse
  <2>2. pc \in {"reading", "waiting", "calling"} /\ (pc = "calling" => k \notin inflight)
    <3> HIDE DEF ready
    <3> QED BY SMT
  <2>3. n \in {0, clock}
    BY Zenon
  <2> HIDE DEF pc, n
  <2> QED BY <2>1, <2>2, <2>3, Zenon
<1>3. PICK pc \in {"reading", "waiting", "calling"}, n \in {0, clock} :
          /\ pc = "calling" => k \notin inflight
          /\ browsing' = [browsing EXCEPT ![c] =
                             [NoBrowse EXCEPT !.pc = pc, !.key = k, !.now = n]]
          /\ inflight' = IF pc = "calling" THEN inflight \cup {k} ELSE inflight
  BY <1>2, Zenon
<1> DEFINE r == [pc |-> pc, key |-> k, now |-> n, entries |-> <<>>, object |-> 0]
<1>4. [NoBrowse EXCEPT !.pc = pc, !.key = k, !.now = n] = r
  <2> DEFINE x == [NoBrowse EXCEPT !.pc = pc]
             y == [x EXCEPT !.key = k]
  <2>1. x = [pc |-> pc, key |-> Root, now |-> 0, entries |-> <<>>, object |-> 0]
    BY DEF NoBrowse
  <2> HIDE DEF x
  <2>2. y = [pc |-> pc, key |-> k, now |-> 0, entries |-> <<>>, object |-> 0]
    BY <2>1
  <2> HIDE DEF y
  <2>3. [y EXCEPT !.now = n] = r
    BY <2>2
  <2> QED BY <2>3, Zenon DEF x, y
<1>5. browsing' = [browsing EXCEPT ![c] = r]
  BY <1>3, <1>4, Zenon
<1>6. IsBrowse(r) /\ r.key = k /\ r.pc = pc
  BY DEF IsBrowse
<1> HIDE DEF r
<1>7. /\ browsing[c].pc \notin InFlight
      /\ pc \notin {"checked", "filling"}
      /\ pc \in InFlight <=> pc = "calling"
  BY <1>2, <1>3 DEF InFlight
<1>8. FlightPart' /\ Awaiting' = Awaiting \ {c}
  BY <1>1, <1>3, <1>5, <1>6, <1>7, MoveKeeps
<1>9. object' = object /\ properties' = properties
  BY <1>2
<1>10. SpaceTypes /\ SpaceTypes'
  BY <1>1, <1>8, <1>9 DEF SpaceTypes, FlightPart
<1>11. SourceNodeCount' = SourceNodeCount
  BY <1>9 DEF SourceNodeCount
<1>12. BudgetKept'
  BY <1>1, <1>8, <1>10, <1>11, BudgetKeeps
<1> QED BY <1>8, <1>10, <1>12 DEF SpaceInv, FlightPart

\* The listing arrives: it is too much, or waits to be added.
LEMMA ListingKeepsInv ==
    ASSUME SpaceInv, NEW c \in Clients, SourceLists(c)
    PROVE  SpaceInv'
<1> DEFINE b == browsing[c].key
           e == Listing(b)
           q == Put(browsing[c], "checked", e, browsing[c].object)
<1>1. FlightPart /\ BudgetKept /\ object \in [Keys -> Nat] /\ properties \subseteq ItemKeys
  BY SpaceInvParts
<1>2. /\ browsing[c].pc = "calling" /\ b \in Folders
      /\ object' = object /\ properties' = properties
      /\ IF SourceNodeCount + Len(e) > MaxNodes
         THEN Land(c, "refused")
         ELSE /\ browsing' = [browsing EXCEPT ![c] = MovedEntries(browsing[c], "checked", e)]
              /\ inflight' = inflight
  BY Zenon DEF SourceLists, MovedEntries
<1>3. IsListing(e) /\ browsing[c].pc \in InFlight /\ IsBrowse(browsing[c])
  BY <1>1, <1>2, ListingIs DEF InFlight, FlightPart
<1>4. MovedEntries(browsing[c], "checked", e) = q
  BY <1>3, MovedIs
<1>5. SourceNodeCount' = SourceNodeCount /\ SourceNodeCount \in Nat /\ MaxNodes \in Nat
  <2>1. SourceNodeCount' = SourceNodeCount
    BY <1>2 DEF SourceNodeCount
  <2>2. SourceNodeCount \in Nat
    BY <1>1, NodesCounted DEF SourceNodeCount
  <2>3. MaxNodes \in Nat
    BY SpaceAssumption
  <2> QED BY <2>1, <2>2, <2>3
<1>6. CASE SourceNodeCount + Len(e) > MaxNodes
  <2>1. FlightPart' /\ Awaiting' = Awaiting \ {c}
    BY <1>1, <1>2, <1>3, <1>6, LandKeeps
  <2>2. SpaceTypes /\ SpaceTypes'
    BY <1>1, <1>2, <2>1 DEF SpaceTypes, FlightPart
  <2>3. BudgetKept'
    BY <1>1, <1>5, <2>1, <2>2, BudgetKeeps
  <2> QED BY <2>1, <2>2, <2>3 DEF SpaceInv, FlightPart
<1>7. CASE ~(SourceNodeCount + Len(e) > MaxNodes)
  <2>1. browsing' = [browsing EXCEPT ![c] = q] /\ inflight' = inflight
    BY <1>2, <1>4, <1>7
  <2>2. FlightPart'
    <3>1. "checked" \in InFlight
      BY DEF InFlight
    <3> HIDE DEF e
    <3> QED BY <3>1, <2>1, <1>1, <1>3, GoesOn
  <2>3. SpaceTypes /\ SpaceTypes'
    BY <1>1, <1>2, <2>2 DEF SpaceTypes, FlightPart
  <2>4. SourceNodeCount' <= MaxNodes
    <3>1. Len(e) \in Nat
      BY <1>3 DEF IsListing
    <3> HIDE DEF e
    <3> QED BY <3>1, <1>5, <1>7
  <2>5. BudgetKept'
    BY <1>1, <2>3, <2>4, BudgetKeeps
  <2> QED BY <2>2, <2>3, <2>5 DEF SpaceInv, FlightPart
<1> QED BY <1>6, <1>7

\* The lock is taken: the parent is gone, or loses its references.
LEMMA BeginningKeepsInv ==
    ASSUME SpaceInv, NEW c \in Clients, PopulateBegins(c)
    PROVE  SpaceInv'
<1> DEFINE q == Put(browsing[c], "filling", browsing[c].entries, browsing[c].object)
<1>1. FlightPart /\ BudgetKept /\ object \in [Keys -> Nat] /\ properties \subseteq ItemKeys
  BY SpaceInvParts
<1>2. /\ browsing[c].pc = "checked"
      /\ object' = object /\ properties' = properties
      /\ \/ Land(c, "refused")
         \/ /\ browsing' = [browsing EXCEPT ![c].pc = "filling"]
            /\ inflight' = inflight
  BY Zenon DEF PopulateBegins, Go
<1>3. /\ browsing[c].pc \in InFlight /\ IsBrowse(browsing[c])
      /\ IsListing(browsing[c].entries)
  BY <1>1, <1>2 DEF InFlight, FlightPart, ListingsKnown, Awaiting
<1>4. FlightPart' /\ Awaiting' \subseteq Awaiting
  <2>1. CASE Land(c, "refused")
    BY <1>1, <1>3, <2>1, LandKeeps
  <2>2. CASE /\ browsing' = [browsing EXCEPT ![c].pc = "filling"]
             /\ inflight' = inflight
    <3>1. browsing' = [browsing EXCEPT ![c] = Moved(browsing[c], "filling")]
      BY <2>2, Zenon DEF Moved
    <3>2. Moved(browsing[c], "filling") = q
      BY <1>3, MovedIs
    <3>3. browsing' = [browsing EXCEPT ![c] = q]
      BY <3>1, <3>2, Zenon
    <3>4. "filling" \in InFlight
      BY DEF InFlight
    <3> QED BY <3>3, <3>4, <2>2, <1>1, <1>2, <1>3, GoesOn
  <2> QED BY <1>2, <2>1, <2>2
<1>5. SpaceTypes /\ SpaceTypes'
  BY <1>1, <1>2, <1>4 DEF SpaceTypes, FlightPart
<1>6. SourceNodeCount' = SourceNodeCount
  BY <1>2 DEF SourceNodeCount
<1>7. BudgetKept'
  BY <1>1, <1>4, <1>5, <1>6, BudgetKeeps
<1> QED BY <1>4, <1>5, <1>7 DEF SpaceInv, FlightPart

\* A listing has no more different entries than its length.
LEMMA EntriesCounted ==
    ASSUME NEW e, IsListing(e)
    PROVE  /\ IsFiniteSet(ToSet(e)) /\ Cardinality(ToSet(e)) \in Nat
           /\ Cardinality(ToSet(e)) <= Longest
           /\ ToSet(e) \subseteq Keys \ {Root}
<1> DEFINE D == 1 .. Len(e)
           f == [k \in D |-> e[k]]
<1>1. e \in Seq(Branches \cup ItemKeys) /\ Len(e) \in Nat /\ DOMAIN e = D
  BY DEF IsListing
<1>2. IsFiniteSet(D) /\ Cardinality(D) = Len(e)
  <2>1. 1 \in Int /\ Len(e) \in Int
    BY <1>1
  <2>2. IsFiniteSet(D) /\ Cardinality(D) = IF 1 > Len(e) THEN 0 ELSE Len(e) - 1 + 1
    BY <2>1, FS_Interval, Zenon
  <2> QED BY <2>2, <1>1
<1>3. f \in Surjection(D, ToSet(e))
  BY <1>1 DEF Surjection, ToSet
<1> HIDE DEF D, f
<1>4. /\ IsFiniteSet(ToSet(e)) /\ Cardinality(ToSet(e)) <= Cardinality(D)
  BY <1>2, <1>3, FS_Surjection, Zenon
<1>5. Cardinality(ToSet(e)) \in Nat
  BY <1>4, FS_CardinalityType, Zenon
<1>6. Len(e) <= Longest /\ Longest \in Nat
  BY LongestIs DEF IsListing
<1>7. \A k \in D : e[k] \in Keys \ {Root}
  <2>1. \A k \in D : e[k] \in Branches \cup ItemKeys
    BY <1>1 DEF D
  <2> QED BY <2>1, SpaceAssumption DEF Keys, Folders
<1>8. ToSet(e) \subseteq Keys \ {Root}
  BY <1>1, <1>7 DEF ToSet
<1> QED BY <1>1, <1>2, <1>4, <1>5, <1>6, <1>8

\* What comes before an entry is part of the listing.
LEMMA PrefixListed ==
    ASSUME NEW e, IsListing(e), NEW n \in 1 .. Len(e)
    PROVE  ToSet(SubSeq(e, 1, n - 1)) \subseteq ToSet(e)
<1> DEFINE p == SubSeq(e, 1, n - 1)
<1>1. e \in Seq(Branches \cup ItemKeys) /\ Len(e) \in Nat /\ DOMAIN e = 1 .. Len(e)
  BY DEF IsListing
<1>2. DOMAIN p = 1 .. (n - 1) /\ \A k \in DOMAIN p : k \in DOMAIN e /\ p[k] = e[k]
  BY <1>1
<1> HIDE DEF p
<1> QED BY <1>2 DEF ToSet, p

\* The nodes of a listing, or of a part of it: no more come than it has entries.
LEMMA FillCounted ==
    ASSUME SpaceInv, NEW c \in Clients, NEW added, IsListing(browsing[c].entries),
           ToSet(added) \subseteq ToSet(browsing[c].entries), Fill(c, added)
    PROVE  /\ object' \in [Keys -> Nat]
           /\ SourceNodeCount' <= SourceNodeCount + Longest
<1> DEFINE E == ToSet(added)
           N == {k \in Keys \ {Root} : object[k] # 0}
           M == {k \in Keys \ {Root} : object'[k] # 0}
<1>1. object \in [Keys -> Nat] /\ properties \subseteq ItemKeys
  BY SpaceInvParts
<1>2. /\ properties' = properties
      /\ object' = [k \in Keys |-> IF k \in E THEN object[k] + 1 ELSE object[k]]
  BY Zenon DEF Fill
<1>3. object' \in [Keys -> Nat]
  BY <1>1, <1>2
<1>4. IsFiniteSet(E) /\ Cardinality(E) \in Nat /\ Cardinality(E) <= Longest
  <2> DEFINE A == ToSet(browsing[c].entries)
  <2>1. IsFiniteSet(A) /\ Cardinality(A) \in Nat /\ Cardinality(A) <= Longest
    BY EntriesCounted
  <2>2. E \in SUBSET A
    OBVIOUS
  <2> HIDE DEF A, E
  <2>3. IsFiniteSet(E) /\ Cardinality(E) <= Cardinality(A)
    BY <2>1, <2>2, FS_Subset, Zenon
  <2>4. Cardinality(E) \in Nat
    BY <2>3, FS_CardinalityType, Zenon
  <2>5. Longest \in Nat
    BY LongestIs
  <2> QED BY <2>1, <2>3, <2>4, <2>5
<1>5. M \subseteq N \cup E
  BY <1>1, <1>2
<1>6. IsFiniteSet(N) /\ Cardinality(N) \in Nat
  BY <1>1, NodesCounted
<1>7. IsFiniteSet(M) /\ Cardinality(M) \in Nat
  BY <1>1, NodesCounted
<1>8. IsFiniteSet(N \cap E) /\ IsFiniteSet(N \cup E)
      /\ Cardinality(N \cup E) = Cardinality(N) + Cardinality(E) - Cardinality(N \cap E)
  BY <1>6, <1>4, FS_Union, FS_Intersection, Zenon
<1>9. Cardinality(M) <= Cardinality(N \cup E) /\ Cardinality(N \cap E) \in Nat
  BY <1>5, <1>8, FS_Subset, FS_CardinalityType, Zenon
<1>10. PropertyCount * Cardinality(properties) \in Nat
  <2>1. PropertyCount \in Nat /\ Cardinality(properties) \in Nat
    BY <1>1, NodesCounted, SpaceAssumption
  <2> QED BY <2>1
<1>11. /\ SourceNodeCount = Cardinality(N) + PropertyCount * Cardinality(properties)
       /\ SourceNodeCount' = Cardinality(M) + PropertyCount * Cardinality(properties)
  BY <1>2 DEF SourceNodeCount
<1>12. Longest \in Nat
  BY LongestIs
<1> HIDE DEF N, M, E
<1> QED BY <1>3, <1>4, <1>6, <1>7, <1>8, <1>9, <1>10, <1>11, <1>12

\* The whole listing is added, and its client goes on.
LEMMA FillingKeepsInv ==
    ASSUME SpaceInv, NEW c \in Clients, PopulateEnds(c)
    PROVE  SpaceInv'
<1> DEFINE e == browsing[c].entries
           q == Put(browsing[c], "filled", <<>>, browsing[c].object)
<1>1. FlightPart /\ BudgetKept /\ object \in [Keys -> Nat] /\ properties \subseteq ItemKeys
  BY SpaceInvParts
<1>2. /\ browsing[c].pc = "filling" /\ Fill(c, e)
      /\ properties' = properties /\ inflight' = inflight
      /\ browsing' = [browsing EXCEPT ![c] = MovedEntries(browsing[c], "filled", <<>>)]
  BY Zenon DEF PopulateEnds, Fill, MovedEntries
<1>3. /\ browsing[c].pc \in InFlight /\ "filled" \in InFlight /\ IsBrowse(browsing[c])
      /\ c \in Awaiting /\ IsListing(e)
  BY <1>1, <1>2 DEF InFlight, FlightPart, ListingsKnown, Awaiting
<1>4. MovedEntries(browsing[c], "filled", <<>>) = q
  BY <1>3, MovedIs
<1>5. FlightPart' /\ Awaiting' = Awaiting \ {c}
  <2>1. browsing' = [browsing EXCEPT ![c] = q]
    BY <1>2, <1>4, Zenon
  <2>2. inflight' = inflight /\ "filled" \notin {"checked", "filling"}
    BY <1>2
  <2> QED BY <2>1, <2>2, <1>1, <1>3, GoesOn
<1>6. object' \in [Keys -> Nat] /\ SourceNodeCount' <= SourceNodeCount + Longest
  BY <1>2, <1>3, FillCounted
<1>7. SpaceTypes /\ SpaceTypes'
  BY <1>1, <1>2, <1>5, <1>6 DEF SpaceTypes, FlightPart
<1>8. BudgetKept'
  BY <1>1, <1>3, <1>5, <1>6, <1>7, BudgetKeeps
<1> QED BY <1>5, <1>7, <1>8 DEF SpaceInv, FlightPart

\* A part of the listing is added, and its client's flight ends.
LEMMA BreakingKeepsInv ==
    ASSUME SpaceInv, NEW c \in Clients, PopulateBreaks(c)
    PROVE  SpaceInv'
<1> DEFINE e == browsing[c].entries
<1>1. FlightPart /\ BudgetKept /\ object \in [Keys -> Nat] /\ properties \subseteq ItemKeys
  BY SpaceInvParts
<1>2. PICK n \in 1 .. Len(e) : Fill(c, SubSeq(e, 1, n - 1)) /\ Land(c, "refused")
  BY DEF PopulateBreaks
<1>3. browsing[c].pc = "filling" /\ properties' = properties
  BY <1>2, Zenon DEF Fill
<1>4. browsing[c].pc \in InFlight /\ c \in Awaiting /\ IsListing(e)
  BY <1>1, <1>3 DEF InFlight, FlightPart, ListingsKnown, Awaiting
<1>5. FlightPart' /\ Awaiting' = Awaiting \ {c}
  BY <1>1, <1>2, <1>4, LandKeeps
<1>6. object' \in [Keys -> Nat] /\ SourceNodeCount' <= SourceNodeCount + Longest
  <2>1. ToSet(SubSeq(e, 1, n - 1)) \subseteq ToSet(e)
    BY <1>4, PrefixListed
  <2> QED BY <2>1, <1>2, <1>4, FillCounted
<1>7. SpaceTypes /\ SpaceTypes'
  BY <1>1, <1>3, <1>5, <1>6 DEF SpaceTypes, FlightPart
<1>8. BudgetKept'
  BY <1>1, <1>4, <1>5, <1>6, <1>7, BudgetKeeps
<1> QED BY <1>5, <1>7, <1>8 DEF SpaceInv, FlightPart

\* The property nodes of an item are added within the budget or not at all.
LEMMA AttachKeepsInv ==
    ASSUME SpaceInv, NEW c \in Clients, Attach(c)
    PROVE  SpaceInv'
<1> DEFINE i == browsing[c].key
           needed == IF i \in properties THEN 0 ELSE PropertyCount
           nodes == Cardinality({k \in Keys \ {Root} : object[k] # 0})
           q == Put(browsing[c], "filled", browsing[c].entries, browsing[c].object)
<1>1. FlightPart /\ BudgetKept /\ object \in [Keys -> Nat] /\ properties \subseteq ItemKeys
  BY SpaceInvParts
<1>2. /\ browsing[c].pc = "calling" /\ i \in ItemKeys /\ object' = object
      /\ IF SourceNodeCount + needed > MaxNodes
         THEN Land(c, "refused") /\ properties' = properties
         ELSE /\ properties' = properties \cup {i}
              /\ browsing' = [browsing EXCEPT ![c].pc = "filled"]
              /\ inflight' = inflight
  BY Zenon DEF Attach, Go
<1>3. /\ browsing[c].pc \in InFlight /\ "filled" \in InFlight /\ IsBrowse(browsing[c])
  BY <1>1, <1>2 DEF InFlight, FlightPart
<1>4. CASE SourceNodeCount + needed > MaxNodes
  <2>1. FlightPart' /\ Awaiting' = Awaiting \ {c}
    <3>1. Land(c, "refused")
      BY <1>2, <1>4, Zenon
    <3> QED BY <3>1, <1>1, <1>3, LandKeeps
  <2>2. properties' = properties
    BY <1>2, <1>4, Zenon
  <2>3. SpaceTypes /\ SpaceTypes'
    BY <1>1, <1>2, <2>1, <2>2 DEF SpaceTypes, FlightPart
  <2>4. SourceNodeCount' = SourceNodeCount
    BY <1>2, <2>2 DEF SourceNodeCount
  <2>5. BudgetKept'
    BY <1>1, <2>1, <2>3, <2>4, BudgetKeeps
  <2> QED BY <2>1, <2>3, <2>5 DEF SpaceInv, FlightPart
<1>5. CASE ~(SourceNodeCount + needed > MaxNodes)
  <2>1. /\ properties' = properties \cup {i}
        /\ browsing' = [browsing EXCEPT ![c] = Moved(browsing[c], "filled")]
        /\ inflight' = inflight
    BY <1>2, <1>5, Zenon DEF Moved
  <2>2. Moved(browsing[c], "filled") = q
    BY <1>3, MovedIs
  <2>3. browsing' = [browsing EXCEPT ![c] = q]
    BY <2>1, <2>2, Zenon
  <2>4. FlightPart'
    <3>1. "filled" \notin {"checked", "filling"}
      OBVIOUS
    <3> QED BY <3>1, <2>1, <2>3, <1>1, <1>3, GoesOn
  <2>5. properties' \subseteq ItemKeys
    BY <1>1, <1>2, <2>1
  <2>6. SpaceTypes /\ SpaceTypes'
    BY <1>1, <1>2, <2>4, <2>5 DEF SpaceTypes, FlightPart
  <2>7. SourceNodeCount' = SourceNodeCount + needed /\ SourceNodeCount \in Nat
    <3>1. IsFiniteSet(properties) /\ Cardinality(properties) \in Nat /\ nodes \in Nat
      BY <1>1, NodesCounted
    <3>2. IF i \in properties THEN Cardinality(properties') = Cardinality(properties)
          ELSE Cardinality(properties') = Cardinality(properties) + 1
      <4>1. CASE i \in properties
        <5>1. properties' = properties
          BY <2>1, <4>1
        <5> QED BY <5>1, <4>1
      <4>2. CASE i \notin properties
        BY <2>1, <3>1, <4>2, FS_AddElement, Zenon
      <4> QED BY <4>1, <4>2
    <3>3. /\ SourceNodeCount = nodes + PropertyCount * Cardinality(properties)
          /\ SourceNodeCount' = nodes + PropertyCount * Cardinality(properties')
      BY <1>2 DEF SourceNodeCount
    <3>4. PropertyCount \in Nat
      BY SpaceAssumption
    <3>5. PropertyCount * Cardinality(properties) \in Nat
      BY <3>1, <3>4
    <3>6. PropertyCount * (Cardinality(properties) + 1)
             = PropertyCount * Cardinality(properties) + PropertyCount
      BY <3>1, <3>4
    <3> HIDE DEF nodes, i
    <3> QED BY <3>1, <3>2, <3>3, <3>4, <3>5, <3>6
  <2>8. SourceNodeCount' <= MaxNodes
    <3>1. MaxNodes \in Nat /\ needed \in Nat
      BY SpaceAssumption
    <3> HIDE DEF needed
    <3> QED BY <3>1, <2>7, <1>5
  <2>9. BudgetKept'
    BY <1>1, <2>6, <2>8, BudgetKeeps
  <2> QED BY <2>4, <2>6, <2>9 DEF SpaceInv, FlightPart
<1> QED BY <1>4, <1>5

\* An item a request names becomes a node while there is room for one.
LEMMA ResolvingKeepsInv ==
    ASSUME SpaceInv, NEW i \in ItemKeys, ResolveVariable(i)
    PROVE  SpaceInv'
<1> DEFINE N == {k \in Keys \ {Root} : object[k] # 0}
           M == {k \in Keys \ {Root} : object'[k] # 0}
<1>1. FlightPart /\ BudgetKept /\ object \in [Keys -> Nat] /\ properties \subseteq ItemKeys
  BY SpaceInvParts
<1>2. /\ object[i] = 0 /\ SourceNodeCount < MaxNodes
      /\ object' = [object EXCEPT ![i] = 1]
      /\ UNCHANGED <<properties, inflight, browsing>>
  BY DEF ResolveVariable
<1>3. i \in Keys \ {Root}
  BY SpaceAssumption DEF Keys
<1>4. object' \in [Keys -> Nat]
  BY <1>1, <1>2
<1>5. FlightPart'
  BY <1>1, <1>2 DEF FlightPart, FlightsMatch, ListingsKnown, Awaiting
<1>6. SpaceTypes /\ SpaceTypes'
  BY <1>1, <1>2, <1>4, <1>5 DEF SpaceTypes, FlightPart
<1>7. M = N \cup {i} /\ i \notin N
  BY <1>1, <1>2, <1>3
<1>8. SourceNodeCount' = SourceNodeCount + 1 /\ SourceNodeCount \in Nat
  <2>1. IsFiniteSet(N) /\ Cardinality(N) \in Nat
        /\ Cardinality(N) + PropertyCount * Cardinality(properties) \in Nat
    BY <1>1, NodesCounted
  <2>2. PropertyCount * Cardinality(properties) \in Nat
    <3>1. PropertyCount \in Nat /\ Cardinality(properties) \in Nat
      BY <1>1, NodesCounted, SpaceAssumption
    <3> QED BY <3>1
  <2>3. Cardinality(M) = Cardinality(N) + 1
    BY <1>7, <2>1, FS_AddElement, Zenon
  <2>4. /\ SourceNodeCount = Cardinality(N) + PropertyCount * Cardinality(properties)
        /\ SourceNodeCount' = Cardinality(M) + PropertyCount * Cardinality(properties)
    BY <1>2 DEF SourceNodeCount
  <2> HIDE DEF N, M
  <2> QED BY <2>1, <2>2, <2>3, <2>4
<1>9. SourceNodeCount' <= MaxNodes
  <2>1. MaxNodes \in Nat
    BY SpaceAssumption
  <2> QED BY <2>1, <1>2, <1>8
<1>10. BudgetKept'
  BY <1>1, <1>6, <1>9, BudgetKeeps
<1> QED BY <1>5, <1>6, <1>10 DEF SpaceInv, FlightPart

\* The space is empty at first.
LEMMA SpaceInvInit == SpaceInit => SpaceInv
<1> SUFFICES ASSUME SpaceInit PROVE SpaceInv
  OBVIOUS
<1>1. /\ object = [k \in Keys |-> IF k = Root THEN 1 ELSE 0]
      /\ properties = {} /\ inflight = {} /\ browsing = [c \in Clients |-> NoBrowse]
  BY DEF SpaceInit
<1>2. IsBrowse(NoBrowse) /\ NoBrowse.pc = "idle"
  BY DEF NoBrowse, IsBrowse, Keys, Folders
<1>3. SpaceTypes
  BY <1>1, <1>2 DEF SpaceTypes
<1>4. Awaiting = {}
  BY <1>1, <1>2 DEF Awaiting
<1>5. FlightsMatch /\ ListingsKnown
  BY <1>1, <1>2, <1>4 DEF FlightsMatch, ListingsKnown, InFlight
<1>6. BudgetKept
  <2>1. {k \in Keys \ {Root} : object[k] # 0} = {}
    BY <1>1
  <2>2. Cardinality({}) = 0
    BY FS_EmptySet, Zenon
  <2>3. SourceNodeCount = 0
    <3>1. SourceNodeCount = 0 + PropertyCount * 0
      BY <1>1, <2>1, <2>2 DEF SourceNodeCount
    <3> QED BY <3>1, SpaceAssumption
  <2>4. (Cardinality(Clients) - 0) * Longest \in Nat
    BY ClientsCounted, LongestIs
  <2>5. MaxNodes \in Nat
    BY SpaceAssumption
  <2> QED BY <1>4, <2>2, <2>3, <2>4, <2>5 DEF BudgetKept
<1> QED BY <1>3, <1>5, <1>6 DEF SpaceInv

\* Every step keeps the invariant.
LEMMA SpaceInvStep == SpaceInv /\ [SpaceNext]_spaceVars => SpaceInv'
<1> SUFFICES ASSUME SpaceInv, [SpaceNext]_spaceVars PROVE SpaceInv'
  OBVIOUS
<1>1. ASSUME UNCHANGED <<object, properties, inflight, browsing>>
      PROVE  SpaceInv'
  BY <1>1 DEF SpaceInv, SpaceTypes, FlightsMatch, ListingsKnown, BudgetKept, Awaiting,
              SourceNodeCount
<1>2. CASE UNCHANGED spaceVars
  BY <1>1, <1>2 DEF spaceVars, spaceState
<1>3. CASE Tick \/ Invalidate \/ \E k : SourceRelists(k)
  BY <1>1, <1>3 DEF Tick, Invalidate, SourceRelists, spaceState
<1>4. ASSUME NEW i \in ItemKeys, ResolveVariable(i) PROVE SpaceInv'
  BY <1>4, ResolvingKeepsInv
<1>5. ASSUME NEW c \in Clients, NEW k \in Keys, Browse(c, k) PROVE SpaceInv'
  BY <1>5, BrowseKeepsInv
<1>6. ASSUME NEW c \in Clients, Progress(c) PROVE SpaceInv'
  <2>1. CASE SourceFails(c) \/ RecordBrowsed(c) \/ PropertiesUnsupported(c)
    BY <2>1, FlightEndsKeepInv
  <2>2. CASE SourceLists(c)
    BY <2>2, ListingKeepsInv
  <2>3. CASE PopulateBegins(c)
    BY <2>3, BeginningKeepsInv
  <2>4. CASE PopulateEnds(c)
    BY <2>4, FillingKeepsInv
  <2>5. CASE Attach(c)
    BY <2>5, AttachKeepsInv
  <2>6. CASE Wake(c) \/ Point(c) \/ ReadReferences(c) \/ Respond(c)
    BY <2>6, ReadingKeepsInv
  <2>7. CASE PopulateBreaks(c)
    BY <2>7, BreakingKeepsInv
  <2> QED BY <1>6, <2>1, <2>2, <2>3, <2>4, <2>5, <2>6, <2>7 DEF Progress
<1> QED BY <1>2, <1>3, <1>4, <1>5, <1>6 DEF SpaceNext

\* The invariant holds at all times.
LEMMA SpaceInvAlways == SpaceSpec => []SpaceInv
BY SpaceInvInit, SpaceInvStep, PTL DEF SpaceSpec

\* However browses interleave with failures, wake-ups and reconnects, a branch
\* or item has at most one call to the source outstanding, is marked for as long
\* as that, and the node budget is passed by one listing per client at most.
THEOREM PopulationSoundAlways == SpaceSpec => []PopulationSound
<1>1. SpaceInv => OneFlight
  <2> SUFFICES ASSUME SpaceInv, NEW k \in Keys
               PROVE  Cardinality({c \in Clients : browsing[c].pc \in InFlight
                                                      /\ browsing[c].key = k})
                          = IF k \in inflight THEN 1 ELSE 0
    BY DEF OneFlight
  <2> DEFINE callers == {c \in Clients : browsing[c].pc \in InFlight /\ browsing[c].key = k}
  <2>1. CASE k \in inflight
    <3>1. PICK c \in Clients : browsing[c].pc \in InFlight /\ browsing[c].key = k
      BY <2>1 DEF SpaceInv, FlightsMatch
    <3>2. callers = {c}
      BY <3>1 DEF SpaceInv, FlightsMatch
    <3>3. Cardinality(callers) = 1
      BY <3>2, FS_Singleton, Zenon
    <3> QED BY <2>1, <3>3
  <2>2. CASE k \notin inflight
    <3>1. callers = {}
      BY <2>2 DEF SpaceInv, FlightsMatch
    <3>2. Cardinality(callers) = 0
      BY <3>1, FS_EmptySet, Zenon
    <3> QED BY <2>2, <3>2
  <2> QED BY <2>1, <2>2
<1>2. SpaceInv => OvershootBounded
  <2> SUFFICES ASSUME SpaceInv PROVE OvershootBounded
    OBVIOUS
  <2> DEFINE N == Cardinality(Clients)
             a == Cardinality(Awaiting)
  <2>1. PICK b \in Folders : Len(children[b]) = Longest
    BY LongestIs
  <2>2. Longest \in Nat /\ MaxNodes \in Nat
    BY LongestIs, SpaceAssumption
  <2>3. Awaiting \in SUBSET Clients
    BY DEF Awaiting
  <2>4. N \in Nat /\ a \in Nat /\ a <= N
    BY <2>3, ClientsCounted, Zenon
  <2>5. SourceNodeCount <= MaxNodes + (N - a) * Longest /\ SourceNodeCount \in Nat
    BY NodesCounted DEF SpaceInv, BudgetKept, SpaceTypes, SourceNodeCount
  <2> HIDE DEF N, a
  <2>6. (N - a) * Longest <= N * Longest
    BY <2>2, <2>4, Monotone
  <2>7. (N - a) * Longest \in Nat /\ N * Longest \in Nat
    BY <2>2, <2>4
  <2>8. SourceNodeCount <= MaxNodes + N * Longest
    BY <2>2, <2>5, <2>6, <2>7
  <2> QED BY <2>1, <2>8 DEF OvershootBounded, N
<1> QED BY <1>1, <1>2, SpaceInvAlways, PTL DEF PopulationSound

-----------------------------------------------------------------------------
(* Continuation points *)

IsPoint(x) ==
    /\ x.session \in Sessions /\ x.remaining \in Seq(Nat)
    /\ x.maximum \in Nat /\ x.createdAt \in Nat

\* What a client has received and what a point holds are all that matched.
Whole(has, x) ==
    LET all == has \o x.remaining
    IN  all = [k \in 1..Len(all) |-> k] /\ Len(all) \in Matching

Requests == [open : BOOLEAN, now : Nat, left : Nat, maximum : Nat, given : SUBSET Nat]

PointTypes ==
    /\ time \in Nat /\ handed \in Nat
    /\ DOMAIN points \subseteq 1..handed
    /\ received \in Seq(Seq(Nat)) /\ Len(received) = handed
    /\ request \in [Sessions -> Requests]

\* No point is from the future.
PointsFit ==
    \A p \in DOMAIN points :
        /\ IsPoint(points[p]) /\ points[p].createdAt <= time
        /\ Whole(received[p], points[p])

PointsLimited == \A s \in Sessions : Cardinality(Own(DOMAIN points, s)) <= MaxContinuationPoints

\* A point of the response being built bears the time of its request: it is not
\* older than the request, so room is never made at its expense, and it has
\* expired only when the request took that long.
IsGiven(s, p) ==
    /\ p \in 1..handed
    /\ p \in DOMAIN points => /\ points[p].session = s
                              /\ points[p].createdAt = request[s].now
    /\ p \notin DOMAIN points => time - request[s].now >= ContinuationPointExpiry

GivenKept ==
    \A s \in Sessions :
        /\ request[s].now <= time
        /\ ~request[s].open => request[s].given = {}
        /\ \A p \in request[s].given : IsGiven(s, p)

PointsInv == PointTypes /\ PointsFit /\ PointsLimited /\ GivenKept

\* Appending sequences of numbers may start at either end.
LEMMA Associative ==
    \A F, G, H \in Seq(Nat) : (F \o G) \o H = F \o (G \o H)
BY ConcatAssociative

\* Appending one more answer to those received.
LEMMA Appended ==
    \A R \in Seq(Seq(Nat)), a \in Seq(Nat) :
        /\ Append(R, a) \in Seq(Seq(Nat))
        /\ Len(Append(R, a)) = Len(R) + 1
        /\ \A i \in 1..Len(R) : Append(R, a)[i] = R[i]
        /\ Append(R, a)[Len(R) + 1] = a
BY AppendProperties

\* Extending one of them.
LEMMA Extended ==
    \A R \in Seq(Seq(Nat)), a \in Seq(Nat) : \A i \in 1..Len(R) :
        /\ [R EXCEPT ![i] = a] \in Seq(Seq(Nat))
        /\ Len([R EXCEPT ![i] = a]) = Len(R)
        /\ \A j \in 1..Len(R) : j # i => [R EXCEPT ![i] = a][j] = R[j]
BY ExceptSeq

\* Moving the first entries of the rest to what was received leaves the whole.
LEMMA SpliceKeeps ==
    ASSUME NEW A \in Seq(Nat), NEW B \in Seq(Nat), NEW m \in Nat, m <= Len(B)
    PROVE  /\ SubSeq(B, 1, m) \in Seq(Nat)
           /\ SubSeq(B, m + 1, Len(B)) \in Seq(Nat)
           /\ A \o SubSeq(B, 1, m) \in Seq(Nat)
           /\ (A \o SubSeq(B, 1, m)) \o SubSeq(B, m + 1, Len(B)) = A \o B
<1> DEFINE X == SubSeq(B, 1, m)
           Y == SubSeq(B, m + 1, Len(B))
           n == Len(B)
<1>0. /\ n \in Nat /\ m \in Int /\ n \in Int /\ 1 \in Int /\ m + 1 \in Int
      /\ 1 \in 1..(n + 1) /\ m \in (1 - 1)..n /\ n \in m..n
      /\ \A i \in 1..m : B[i] \in Nat
      /\ \A i \in (m + 1)..n : B[i] \in Nat
    OBVIOUS
<1>1. X \in Seq(Nat)
    BY <1>0, SubSeqProperties, Zenon
<1>2. Y \in Seq(Nat)
    BY <1>0, SubSeqProperties, Zenon
<1>3. X \o Y = SubSeq(B, 1, n)
    BY <1>0, ConcatAdjacentSubSeq, Zenon
<1>4. SubSeq(B, 1, n) = B
    BY SubSeqFull, Zenon
<1> HIDE DEF X, Y, n
<1>5. (A \o X) \o Y = A \o (X \o Y)
    BY <1>1, <1>2, Associative, Zenon
<1>6. A \o X \in Seq(Nat)
    BY <1>1, ConcatProperties, Zenon
<1> QED BY <1>1, <1>2, <1>3, <1>4, <1>5, <1>6, Zenon DEF X, Y, n

\* The points a session holds are finitely many.
LEMMA OwnFinite ==
    ASSUME PointTypes, NEW ids \in SUBSET DOMAIN points, NEW s
    PROVE  /\ IsFiniteSet(ids) /\ IsFiniteSet(Own(ids, s))
           /\ Own(ids, s) \in SUBSET ids
           /\ Cardinality(Own(ids, s)) \in Nat
<1>1. IsFiniteSet(1..handed)
    <2>1. 1 \in Int /\ handed \in Int
        BY DEF PointTypes
    <2> QED BY <2>1, FS_Interval, Zenon
<1>2. ids \in SUBSET (1..handed) /\ Own(ids, s) \in SUBSET ids
    BY DEF PointTypes, Own
<1>3. IsFiniteSet(ids)
    BY <1>1, <1>2, FS_Subset, Zenon
<1>4. IsFiniteSet(Own(ids, s))
    BY <1>3, <1>2, FS_Subset, Zenon
<1> QED BY <1>2, <1>3, <1>4, FS_CardinalityType, Zenon

\* Points that are kept as they are stay what the client relies on.
LEMMA PointsKept ==
    ASSUME PointsInv, NEW K \in SUBSET DOMAIN points, points' = Keep(K),
           handed' = handed, time' = time,
           received' \in Seq(Seq(Nat)), Len(received') = handed,
           \A q \in K : received'[q] = received[q]
    PROVE  /\ DOMAIN points' = K /\ \A q \in K : points'[q] = points[q]
           /\ DOMAIN points' \subseteq 1..handed'
           /\ PointsFit' /\ PointsLimited'
<1>1. DOMAIN points' = K /\ \A q \in K : points'[q] = points[q]
    BY Zenon DEF Keep
<1>2. DOMAIN points' \subseteq 1..handed'
    BY <1>1 DEF PointsInv, PointTypes
<1>3. PointsFit'
    <2> SUFFICES ASSUME NEW p \in K
                 PROVE  /\ IsPoint(points'[p]) /\ points'[p].createdAt <= time'
                        /\ Whole(received'[p], points'[p])
        BY <1>1, Zenon DEF PointsFit, IsPoint, Whole
    <2>1. points'[p] = points[p] /\ received'[p] = received[p] /\ p \in DOMAIN points
        BY <1>1
    <2> QED BY <2>1, Zenon DEF PointsInv, PointsFit
<1>4. ASSUME NEW s \in Sessions PROVE Cardinality(Own(DOMAIN points, s)') <= MaxContinuationPoints
    <2> DEFINE S == Own(DOMAIN points, s)
               T == Own(DOMAIN points, s)'
    <2>1. T \in SUBSET S
        BY <1>1 DEF Own
    <2>2. IsFiniteSet(S) /\ Cardinality(S) \in Nat
        BY OwnFinite DEF PointsInv
    <2>3. Cardinality(S) <= MaxContinuationPoints
        BY DEF PointsInv, PointsLimited
    <2>4. IsFiniteSet(T) /\ Cardinality(T) <= Cardinality(S)
        <3> HIDE DEF S, T
        <3> QED BY <2>1, <2>2, FS_Subset, Zenon
    <2>5. Cardinality(T) \in Nat
        BY <2>4, FS_CardinalityType, Zenon
    <2>6. MaxContinuationPoints \in Nat
        BY BrowseAssumption
    <2> HIDE DEF S, T
    <2>7. Cardinality(T) <= MaxContinuationPoints
        BY <2>2, <2>3, <2>4, <2>5, <2>6
    <2> QED BY <2>7 DEF T
<1> QED BY <1>1, <1>2, <1>3, <1>4, Zenon DEF PointsLimited

\* So does a point that takes one of the places a session has.
LEMMA PointsJoined ==
    ASSUME PointsInv, NEW K \in SUBSET DOMAIN points, NEW x, NEW has \in Seq(Nat),
           points' = [p \in K \cup {handed + 1} |-> IF p = handed + 1 THEN x ELSE points[p]],
           handed' = handed + 1, time' = time, received' = Append(received, has),
           IsPoint(x), x.createdAt <= time, Whole(has, x),
           Cardinality(Own(K, x.session)) < MaxContinuationPoints
    PROVE  /\ DOMAIN points' = K \cup {handed + 1} /\ handed + 1 \notin DOMAIN points
           /\ points'[handed + 1] = x /\ \A q \in K : points'[q] = points[q]
           /\ DOMAIN points' \subseteq 1..handed'
           /\ handed' \in Nat /\ received' \in Seq(Seq(Nat)) /\ Len(received') = handed'
           /\ PointsFit' /\ PointsLimited'
<1> DEFINE h == handed + 1
<1>0. /\ handed \in Nat /\ h \in Nat /\ DOMAIN points \subseteq 1..handed /\ h \notin 1..handed
      /\ received \in Seq(Seq(Nat)) /\ Len(received) = handed
    BY DEF PointsInv, PointTypes
<1>1. /\ DOMAIN points' = K \cup {h} /\ h \notin DOMAIN points
      /\ points'[h] = x /\ \A q \in K : points'[q] = points[q]
    BY <1>0
<1>2. DOMAIN points' \subseteq 1..handed' /\ handed' \in Nat
    BY <1>0, <1>1
<1>3. /\ received' \in Seq(Seq(Nat)) /\ Len(received') = h
      /\ \A i \in 1..handed : received'[i] = received[i]
      /\ received'[h] = has
    <2> HIDE DEF h
    <2>1. h = Len(received) + 1
        BY <1>0 DEF h
    <2>2. /\ Append(received, has) \in Seq(Seq(Nat))
          /\ Len(Append(received, has)) = Len(received) + 1
          /\ \A i \in 1..Len(received) : Append(received, has)[i] = received[i]
          /\ Append(received, has)[Len(received) + 1] = has
        BY <1>0, Appended, Zenon
    <2> QED BY <2>1, <2>2, <1>0
<1>4. PointsFit'
    <2> SUFFICES ASSUME NEW p \in K \cup {h}
                 PROVE  /\ IsPoint(points'[p]) /\ points'[p].createdAt <= time'
                        /\ Whole(received'[p], points'[p])
        BY <1>1, Zenon DEF PointsFit, IsPoint, Whole
    <2>1. CASE p \in K
        <3>1. points'[p] = points[p] /\ received'[p] = received[p] /\ p \in DOMAIN points
            BY <1>0, <1>1, <1>3, <2>1
        <3> QED BY <3>1, Zenon DEF PointsInv, PointsFit
    <2>2. CASE p = h
        BY <2>2, <1>1, <1>3, Zenon
    <2> QED BY <2>1, <2>2, Zenon
<1>5. ASSUME NEW s \in Sessions PROVE Cardinality(Own(DOMAIN points, s)') <= MaxContinuationPoints
    <2> DEFINE S == Own(K, s)
               T == Own(DOMAIN points, s)'
    <2>0. MaxContinuationPoints \in Nat
        BY BrowseAssumption
    <2>1. IsFiniteSet(S) /\ Cardinality(S) \in Nat
        BY OwnFinite DEF PointsInv
    <2>2. CASE s = x.session
        <3>1. T = S \cup {h}
            BY <1>1, <2>2 DEF Own
        <3>2. h \notin S
            BY <1>1 DEF Own
        <3>3. Cardinality(S) < MaxContinuationPoints
            BY <2>2
        <3> HIDE DEF S, T, h
        <3>4. Cardinality(T) = Cardinality(S) + 1
            BY <2>1, <3>1, <3>2, FS_AddElement
        <3>5. Cardinality(T) <= MaxContinuationPoints
            BY <3>3, <3>4, <2>0, <2>1
        <3> QED BY <3>5 DEF T
    <2>3. CASE s # x.session
        <3>1. T = S
            BY <1>1, <2>3 DEF Own
        <3> DEFINE U == Own(DOMAIN points, s)
        <3>2. S \in SUBSET U
            BY DEF Own
        <3>3. IsFiniteSet(U) /\ Cardinality(U) \in Nat
            BY OwnFinite DEF PointsInv
        <3>4. Cardinality(U) <= MaxContinuationPoints
            BY DEF PointsInv, PointsLimited
        <3> HIDE DEF S, T, U
        <3>5. Cardinality(S) <= Cardinality(U)
            BY <3>2, <3>3, FS_Subset, Zenon
        <3>6. Cardinality(T) <= MaxContinuationPoints
            BY <3>1, <3>3, <3>4, <3>5, <2>0, <2>1
        <3> QED BY <3>6 DEF T
    <2> QED BY <2>2, <2>3, Zenon
<1> QED BY <1>1, <1>2, <1>3, <1>4, <1>5, Zenon DEF PointsLimited

\* Making room never takes a place from another session or from the response
\* being built, and when there is room afterwards, there is.
LEMMA RoomMade ==
    ASSUME PointsInv, NEW s \in Sessions, NEW now \in Nat,
           NEW gone \in FreeOldest(Live(now), s, now)
    PROVE  /\ Live(now) \ gone \in SUBSET DOMAIN points
           /\ gone \subseteq Prior(Live(now), s, now)
           /\ HasRoom(Live(now), s, now) =>
                 Cardinality(Own(Live(now) \ gone, s)) < MaxContinuationPoints
<1> DEFINE live == Live(now)
           S == Own(live, s)
           P == Prior(live, s, now)
<1>1. live \in SUBSET DOMAIN points /\ P \in SUBSET S /\ gone \in SUBSET P
    BY DEF Live, Prior, FreeOldest
<1>2. IsFiniteSet(S) /\ Cardinality(S) \in Nat
    BY <1>1, OwnFinite DEF PointsInv
<1>3. ASSUME HasRoom(live, s, now) PROVE Cardinality(Own(live \ gone, s)) < MaxContinuationPoints
    <2>1. Cardinality(gone) = Needed(live, s)
        BY <1>3 DEF FreeOldest
    <2>2. Own(live \ gone, s) = S \ gone /\ S \cap gone = gone
        BY <1>1 DEF Own
    <2>3. Cardinality(S \ gone) = Cardinality(S) - Cardinality(gone)
        <3> HIDE DEF S
        <3>1. Cardinality(S \ gone) = Cardinality(S) - Cardinality(S \cap gone)
            BY <1>2, FS_Difference, Zenon
        <3> QED BY <3>1, <2>2
    <2>4. Needed(live, s) = IF Cardinality(S) < MaxContinuationPoints THEN 0
                            ELSE Cardinality(S) - MaxContinuationPoints + 1
        BY DEF Needed
    <2>5. MaxContinuationPoints \in Nat \ {0}
        BY BrowseAssumption
    <2> HIDE DEF S
    <2>6. Cardinality(S) - Needed(live, s) < MaxContinuationPoints
        BY <2>4, <2>5, <1>2
    <2> QED BY <2>1, <2>2, <2>3, <2>6
<1> QED BY <1>1, <1>3, Zenon

\* A point of the response being built stays what it is, unless it goes because
\* the response took too long.
LEMMA GivenStays ==
    ASSUME PointsInv, NEW K \in SUBSET DOMAIN points, NEW N,
           DOMAIN points' = K \cup N, \A q \in K : points'[q] = points[q],
           \A q \in N : q > handed,
           time' = time, handed' \in Nat, handed' >= handed,
           NEW s \in Sessions, request'[s].now = request[s].now,
           NEW p \in request[s].given,
           p \in DOMAIN points \ K => time - request[s].now >= ContinuationPointExpiry
    PROVE  IsGiven(s, p)'
<1>1. IsGiven(s, p)
    BY Zenon DEF PointsInv, GivenKept
<1>2. handed \in Nat
    BY DEF PointsInv, PointTypes
<1> QED BY <1>1, <1>2 DEF IsGiven

\* Expiry takes a point of the response being built only when that took too long.
LEMMA ExpiredGiven ==
    ASSUME PointsInv, NEW now \in Nat, now <= time,
           NEW s \in Sessions, NEW p \in request[s].given, p \in DOMAIN points, p \notin Live(now)
    PROVE  time - request[s].now >= ContinuationPointExpiry
<1>1. points[p].createdAt = request[s].now
    BY Zenon DEF PointsInv, GivenKept, IsGiven
<1>2. ~(now - points[p].createdAt < ContinuationPointExpiry)
    BY DEF Live
<1>3. request[s].now \in Nat /\ time \in Nat /\ ContinuationPointExpiry \in Nat
    BY BrowseAssumption DEF PointsInv, PointTypes, Requests
<1> QED BY <1>1, <1>2, <1>3

\* Making room takes none of them.
LEMMA GoneNotGiven ==
    ASSUME PointsInv, NEW r \in Sessions, NEW s \in Sessions,
           NEW p \in request[s].given, p \in DOMAIN points,
           p \in Prior(Live(request[r].now), r, request[r].now)
    PROVE  FALSE
<1>1. points[p].session = s /\ points[p].createdAt = request[s].now
    BY Zenon DEF PointsInv, GivenKept, IsGiven
<1>2. points[p].session = r /\ points[p].createdAt < request[r].now
    BY DEF Prior, Own
<1>3. request[s].now \in Nat
    BY DEF PointsInv, PointTypes, Requests
<1> QED BY <1>1, <1>2, <1>3

\* One more answered node, and the point its answer may have brought.
LEMMA AnsweredIs ==
    ASSUME NEW r \in Requests, r.left > 0, NEW g \in SUBSET Nat
    PROVE  /\ NodeAnswered(r, g) \in Requests
           /\ NodeAnswered(r, g).now = r.now /\ NodeAnswered(r, g).open = r.open
           /\ NodeAnswered(r, g).given = r.given \cup g
<1> DEFINE q == [open |-> r.open, now |-> r.now, left |-> r.left - 1, maximum |-> r.maximum,
                 given |-> r.given \cup g]
<1>1. /\ r = [open |-> r.open, now |-> r.now, left |-> r.left, maximum |-> r.maximum,
              given |-> r.given]
      /\ r.open \in BOOLEAN /\ r.now \in Nat /\ r.left \in Nat /\ r.maximum \in Nat
      /\ r.given \in SUBSET Nat
    BY DEF Requests
<1>2. r.left - 1 \in Nat
    BY <1>1
<1>3. r.given \cup g \in SUBSET Nat
    BY <1>1, Zenon
<1>4. NodeAnswered(r, g) = q
    <2> DEFINE a == [r EXCEPT !.left = r.left - 1]
               x == r.given \cup g
               y == r.left - 1
    <2>1. a = [open |-> r.open, now |-> r.now, left |-> y, maximum |-> r.maximum,
               given |-> r.given]
        <3> HIDE DEF y
        <3>1. [r EXCEPT !.left = y] = [open |-> r.open, now |-> r.now, left |-> y,
                                       maximum |-> r.maximum, given |-> r.given]
            BY <1>1
        <3> QED BY <3>1 DEF y
    <2>2. [a EXCEPT !.given = x] = [open |-> r.open, now |-> r.now, left |-> y,
                                    maximum |-> r.maximum, given |-> x]
        <3> HIDE DEF a, x, y
        <3> QED BY <2>1
    <2> QED BY <2>2, Zenon DEF NodeAnswered
<1>5. q \in Requests /\ q.now = r.now /\ q.open = r.open /\ q.given = r.given \cup g
    BY <1>1, <1>2, <1>3 DEF Requests
<1> QED BY <1>4, <1>5, Zenon

\* What it does to the requests.
LEMMA RequestAnswered ==
    ASSUME PointTypes, NEW s \in Sessions, request[s].left > 0, NEW g \in SUBSET Nat,
           request' = [request EXCEPT ![s] = NodeAnswered(request[s], g)]
    PROVE  /\ request' \in [Sessions -> Requests]
           /\ request'[s].now = request[s].now /\ request'[s].open = request[s].open
           /\ request'[s].given = request[s].given \cup g
           /\ \A t \in Sessions : t # s => request'[t] = request[t]
<1> DEFINE q == NodeAnswered(request[s], g)
<1>1. request \in [Sessions -> Requests]
    BY Zenon DEF PointTypes
<1>2. request[s] \in Requests
    BY <1>1, Zenon
<1>3. /\ q \in Requests
      /\ q.now = request[s].now /\ q.open = request[s].open
      /\ q.given = request[s].given \cup g
    BY <1>2, AnsweredIs, Zenon
<1> HIDE DEF q
<1>4. /\ request' \in [Sessions -> Requests] /\ request'[s] = q
      /\ \A t \in Sessions : t # s => request'[t] = request[t]
    BY <1>1, <1>3, Zenon DEF q
<1> QED BY <1>3, <1>4, Zenon

\* The numbers of the references that match.
LEMMA MatchedIs ==
    ASSUME NEW n \in Matching
    PROVE  LET matched == [k \in 1..n |-> k]
           IN  /\ matched \in Seq(Nat) /\ Len(matched) = n /\ n \in Nat
               /\ <<>> \o matched = matched
<1> DEFINE matched == [k \in 1..n |-> k]
<1>1. n \in Nat
    BY BrowseAssumption
<1>2. matched \in Seq(Nat) /\ Len(matched) = n
    BY <1>1
<1> HIDE DEF matched
<1>3. <<>> \o matched = matched
    BY <1>2, ConcatEmptySeq
<1> QED BY <1>1, <1>2, <1>3 DEF matched

\* A Browse that opens.
LEMMA BrowseOpensKeeps ==
    ASSUME PointsInv, NEW s \in Sessions, NEW n \in 1..MaxNodesPerBrowse, NEW most \in Requested,
           BrowseOpens(s, n, most)
    PROVE  PointsInv'
<1> DEFINE R == Requests
           m == IF most > 0 /\ most < MaxReferencesPerNode THEN most ELSE MaxReferencesPerNode
           q == [open |-> TRUE, now |-> time, left |-> n, given |-> {}, maximum |-> m]
<1>1. request' = [request EXCEPT ![s] = q] /\ UNCHANGED <<time, points, handed, received>>
    BY Zenon DEF BrowseOpens
<1>2. m \in Nat /\ n \in Nat /\ time \in Nat /\ request \in [Sessions -> R]
    BY BrowseAssumption DEF PointsInv, PointTypes
<1>3. q \in R /\ q.now = time /\ q.given = {} /\ q.open
    BY <1>2 DEF Requests
<1> HIDE DEF q, m, R
<1>4. /\ request' \in [Sessions -> R] /\ request'[s] = q
      /\ \A t \in Sessions : t # s => request'[t] = request[t]
    BY <1>1, <1>2, <1>3
<1>5. PointTypes'
    BY <1>1, <1>4, Zenon DEF PointsInv, PointTypes, R
<1>6. PointsFit' /\ PointsLimited'
    BY <1>1, Zenon DEF PointsInv, PointsFit, PointsLimited, Own, IsPoint, Whole
<1>7. ASSUME NEW t \in Sessions
      PROVE  /\ request'[t].now <= time'
             /\ ~request'[t].open => request'[t].given = {}
             /\ \A p \in request'[t].given : IsGiven(t, p)'
    <2>1. CASE t = s
        BY <1>1, <1>2, <1>3, <1>4, <2>1
    <2>2. CASE t # s
        <3>1. request'[t] = request[t]
            BY <1>4, <2>2
        <3>2. /\ request[t].now <= time
              /\ ~request[t].open => request[t].given = {}
              /\ \A p \in request[t].given : IsGiven(t, p)
            BY Zenon DEF PointsInv, GivenKept
        <3>3. \A p \in request[t].given : IsGiven(t, p)'
            BY <3>1, <3>2, <1>1 DEF IsGiven
        <3> QED BY <3>1, <3>2, <3>3, <1>1, Zenon
    <2> QED BY <2>1, <2>2
<1> QED BY <1>5, <1>6, <1>7, Zenon DEF PointsInv, GivenKept

\* After a step that leaves the requests alone but for what one session was given.
LEMMA GivenFollows ==
    ASSUME PointsInv, NEW K \in SUBSET DOMAIN points, NEW N,
           DOMAIN points' = K \cup N, \A q \in K : points'[q] = points[q],
           \A q \in N : q > handed,
           time' = time, handed' \in Nat, handed' >= handed,
           NEW s \in Sessions,
           \A t \in Sessions : t # s => request'[t] = request[t],
           \A t \in Sessions : \A p \in request[t].given :
               p \in DOMAIN points \ K =>
                   \/ time - request[t].now >= ContinuationPointExpiry
                   \/ t = s /\ p \notin request'[s].given,
           request'[s].now <= time, ~request'[s].open => request'[s].given = {},
           \A p \in request'[s].given :
               \/ IsGiven(s, p)'
               \/ p \in request[s].given /\ request'[s].now = request[s].now
    PROVE  GivenKept'
<1> SUFFICES ASSUME NEW t \in Sessions
             PROVE  /\ request'[t].now <= time'
                    /\ ~request'[t].open => request'[t].given = {}
                    /\ \A p \in request'[t].given : IsGiven(t, p)'
    BY Zenon DEF GivenKept
<1>1. /\ request[t].now <= time
      /\ ~request[t].open => request[t].given = {}
    BY Zenon DEF PointsInv, GivenKept
<1>2. CASE t = s
    <2>1. request'[t].now <= time' /\ (~request'[t].open => request'[t].given = {})
        BY <1>2, Zenon
    <2>2. ASSUME NEW p \in request'[s].given PROVE IsGiven(s, p)'
        <3>1. CASE p \in request[s].given /\ request'[s].now = request[s].now
            <4>1. p \in DOMAIN points \ K => time - request[s].now >= ContinuationPointExpiry
                BY <3>1, <2>2, Zenon
            <4>2. request'[s].now = request[s].now /\ p \in request[s].given
                BY <3>1, Zenon
            <4> QED BY <4>1, <4>2, GivenStays, Zenon
        <3> QED BY <3>1, Zenon
    <2> QED BY <1>2, <2>1, <2>2, Zenon
<1>3. CASE t # s
    <2>1. request'[t] = request[t]
        BY <1>3, Zenon
    <2>2. ASSUME NEW p \in request[t].given PROVE IsGiven(t, p)'
        <3>1. p \in DOMAIN points \ K => time - request[t].now >= ContinuationPointExpiry
            BY <1>3, Zenon
        <3>2. request'[t].now = request[t].now
            BY <2>1, Zenon
        <3> QED BY <3>1, <3>2, GivenStays, Zenon
    <2> QED BY <2>1, <2>2, <1>1, Zenon
<1> QED BY <1>2, <1>3, Zenon

\* The same when no point is added.
LEMMA GivenRemains ==
    ASSUME PointsInv, NEW K \in SUBSET DOMAIN points,
           DOMAIN points' = K, \A q \in K : points'[q] = points[q],
           time' = time, handed' = handed,
           NEW s \in Sessions,
           \A t \in Sessions : t # s => request'[t] = request[t],
           \A t \in Sessions : \A p \in request[t].given :
               p \in DOMAIN points \ K =>
                   \/ time - request[t].now >= ContinuationPointExpiry
                   \/ t = s /\ p \notin request'[s].given,
           request'[s].now = request[s].now, request'[s].open = request[s].open,
           request'[s].given \subseteq request[s].given
    PROVE  GivenKept'
<1> DEFINE N == {}
<1>1. DOMAIN points' = K \cup N /\ \A q \in N : q > handed
    OBVIOUS
<1>2. handed' \in Nat /\ handed' >= handed
    BY DEF PointsInv, PointTypes
<1>3. /\ request[s].now <= time
      /\ ~request[s].open => request[s].given = {}
    BY Zenon DEF PointsInv, GivenKept
<1>4. /\ request'[s].now <= time
      /\ ~request'[s].open => request'[s].given = {}
      /\ \A p \in request'[s].given :
            \/ IsGiven(s, p)'
            \/ p \in request[s].given /\ request'[s].now = request[s].now
    BY <1>3
<1> HIDE DEF N
<1> QED BY <1>1, <1>2, <1>4, GivenFollows, Zenon

\* One node of a Browse.
LEMMA BrowseNodeKeeps ==
    ASSUME PointsInv, NEW s \in Sessions, NEW matching \in Matching, BrowseNode(s, matching)
    PROVE  PointsInv'
<1> DEFINE r == request[s]
           matched == [k \in 1..matching |-> k]
           live == Live(r.now)
<1>0. /\ time \in Nat /\ handed \in Nat /\ received \in Seq(Seq(Nat)) /\ Len(received) = handed
      /\ DOMAIN points \subseteq 1..handed /\ request \in [Sessions -> Requests]
      /\ PointTypes /\ GivenKept
    BY DEF PointsInv, PointTypes
<1>1. /\ r.open /\ r.left > 0 /\ time' = time /\ r \in Requests /\ r.now <= time
    BY <1>0, Zenon DEF BrowseNode, GivenKept
<1>2. r.now \in Nat /\ r.maximum \in Nat
    BY <1>1 DEF Requests
<1>3. matched \in Seq(Nat) /\ Len(matched) = matching /\ matching \in Nat
      /\ <<>> \o matched = matched
    BY MatchedIs
<1>4. live \in SUBSET DOMAIN points
    BY DEF Live
<1>5. ASSUME NEW g \in SUBSET Nat, request' = [request EXCEPT ![s] = NodeAnswered(r, g)]
      PROVE  /\ request' \in [Sessions -> Requests]
             /\ request'[s].now = r.now /\ request'[s].open = r.open
             /\ request'[s].given = r.given \cup g
             /\ \A t \in Sessions : t # s => request'[t] = request[t]
    BY <1>0, <1>1, <1>5, RequestAnswered, Zenon
<1>6. ASSUME NEW K \in SUBSET live, live \ K \subseteq Prior(live, s, r.now),
             NEW t \in Sessions, NEW p \in request[t].given, p \in DOMAIN points \ K
      PROVE  time - request[t].now >= ContinuationPointExpiry
    <2>1. CASE p \notin live
        BY <1>1, <1>2, <1>6, <2>1, ExpiredGiven, Zenon
    <2>2. CASE p \in live
        <3>1. p \in Prior(live, s, r.now)
            BY <1>6, <2>2, Zenon
        <3> QED BY <1>6, <3>1, GoneNotGiven, Zenon
    <2> QED BY <2>1, <2>2, Zenon
<1>7. CASE /\ request' = [request EXCEPT ![s] = NodeAnswered(r, {})]
           /\ UNCHANGED <<points, handed, received>>
    <2>1. {} \in SUBSET Nat /\ r.given \cup {} = r.given
        OBVIOUS
    <2>2. /\ request' \in [Sessions -> Requests]
          /\ request'[s].now = r.now /\ request'[s].open = r.open
          /\ request'[s].given = r.given
          /\ \A t \in Sessions : t # s => request'[t] = request[t]
        BY <1>5, <1>7, <2>1, Zenon
    <2>3. PointTypes'
        BY <1>0, <1>1, <1>7, <2>2, Zenon DEF PointTypes
    <2>4. PointsFit' /\ PointsLimited'
        BY <1>1, <1>7, Zenon DEF PointsInv, PointsFit, PointsLimited, Own, IsPoint, Whole
    <2>5. GivenKept'
        <3> SUFFICES ASSUME NEW t \in Sessions
                     PROVE  /\ request'[t].now <= time'
                            /\ ~request'[t].open => request'[t].given = {}
                            /\ \A p \in request'[t].given : IsGiven(t, p)'
            BY Zenon DEF GivenKept
        <3>1. /\ request'[t].now = request[t].now /\ request'[t].open = request[t].open
              /\ request'[t].given = request[t].given
            BY <2>2, Zenon
        <3>2. \A p \in request[t].given : IsGiven(t, p)
            BY <1>0, Zenon DEF GivenKept
        <3>3. \A p \in request[t].given : IsGiven(t, p)'
            BY <3>1, <3>2, <1>1, <1>7 DEF IsGiven
        <3> QED BY <3>1, <3>3, <1>0, <1>1, Zenon DEF GivenKept
    <2> QED BY <2>3, <2>4, <2>5, Zenon DEF PointsInv
<1>8. ASSUME NEW gone \in FreeOldest(live, s, r.now), HasRoom(live, s, r.now),
             matching > r.maximum,
             points' = NewPoint(live \ gone, s, SubSeq(matched, r.maximum + 1, matching),
                                r.maximum, r.now),
             handed' = handed + 1,
             received' = Append(received, SubSeq(matched, 1, r.maximum)),
             request' = [request EXCEPT ![s] = NodeAnswered(r, {handed + 1})]
      PROVE  PointsInv'
    <2> DEFINE K == live \ gone
               has == SubSeq(matched, 1, r.maximum)
               rest == SubSeq(matched, r.maximum + 1, matching)
               x == [session |-> s, remaining |-> rest, maximum |-> r.maximum,
                     createdAt |-> r.now]
    <2>1. /\ K \in SUBSET DOMAIN points /\ gone \subseteq Prior(live, s, r.now)
          /\ Cardinality(Own(K, s)) < MaxContinuationPoints
        BY <1>2, <1>8, RoomMade, Zenon
    <2>2. has \in Seq(Nat) /\ rest \in Seq(Nat) /\ has \o rest = matched
        <3>1. <<>> \in Seq(Nat) /\ r.maximum <= Len(matched)
            BY <1>2, <1>3, <1>8
        <3> HIDE DEF matched
        <3>4. matched \in Seq(Nat) /\ matching = Len(matched)
            BY <1>3, Zenon
        <3>5. /\ SubSeq(matched, 1, r.maximum) \in Seq(Nat)
              /\ SubSeq(matched, r.maximum + 1, Len(matched)) \in Seq(Nat)
              /\ (<<>> \o SubSeq(matched, 1, r.maximum))
                     \o SubSeq(matched, r.maximum + 1, Len(matched)) = <<>> \o matched
            BY <1>2, <3>4, <3>1, SpliceKeeps, Zenon
        <3>2. /\ has \in Seq(Nat) /\ rest \in Seq(Nat)
              /\ (<<>> \o has) \o rest = <<>> \o matched
            BY <3>4, <3>5, Zenon
        <3> HIDE DEF has, rest
        <3>3. <<>> \o has = has
            BY <3>2, ConcatEmptySeq
        <3> QED BY <1>3, <3>2, <3>3, Zenon
    <2>3. /\ points' = [p \in K \cup {handed + 1} |-> IF p = handed + 1 THEN x ELSE points[p]]
        BY <1>8, Zenon DEF NewPoint
    <2>4. IsPoint(x) /\ x.createdAt <= time /\ x.session = s
        BY <1>1, <1>2, <2>2 DEF IsPoint
    <2>5. Whole(has, x)
        <3>1. has \o x.remaining = matched /\ Len(matched) = matching
            BY <2>2, <1>3, Zenon
        <3> HIDE DEF has, x
        <3> QED BY <3>1, Zenon DEF Whole
    <2>6. {handed + 1} \in SUBSET Nat /\ handed + 1 \in Nat /\ handed + 1 > handed
        BY <1>0
    <2> HIDE DEF has, x, rest, matched
    <2>7. received' = Append(received, has)
        BY <1>8, Zenon DEF has, matched
    <2>8. /\ DOMAIN points' = K \cup {handed + 1} /\ handed + 1 \notin DOMAIN points
          /\ points'[handed + 1] = x /\ \A q \in K : points'[q] = points[q]
          /\ DOMAIN points' \subseteq 1..handed'
          /\ handed' \in Nat /\ received' \in Seq(Seq(Nat)) /\ Len(received') = handed'
          /\ PointsFit' /\ PointsLimited'
        BY <1>1, <1>8, <2>1, <2>2, <2>3, <2>4, <2>5, <2>7, PointsJoined, Zenon
    <2>9. /\ request' \in [Sessions -> Requests]
          /\ request'[s].now = r.now /\ request'[s].open = r.open
          /\ request'[s].given = r.given \cup {handed + 1}
          /\ \A t \in Sessions : t # s => request'[t] = request[t]
        BY <1>5, <1>8, <2>6, Zenon
    <2>10. PointTypes'
        BY <1>0, <1>1, <2>8, <2>9, Zenon DEF PointTypes
    <2>11. \A h : h = handed + 1 => IsGiven(s, h)'
        <3>1. handed + 1 \in 1..handed' /\ handed' = handed + 1
            BY <1>0, <1>8
        <3>2. x.session = s /\ x.createdAt = r.now
            BY DEF x
        <3>3. handed + 1 \in DOMAIN points'
            BY <2>8, Zenon
        <3>4. /\ points'[handed + 1].session = s
              /\ points'[handed + 1].createdAt = request'[s].now
            BY <2>8, <2>9, <3>2, Zenon
        <3>5. ASSUME NEW h, h = handed + 1 PROVE IsGiven(s, h)'
            <4>1. h \in 1..handed' /\ h \in DOMAIN points'
                BY <3>1, <3>3, <3>5
            <4>2. points'[h].session = s /\ points'[h].createdAt = request'[s].now
                BY <3>4, <3>5, Zenon
            <4> QED BY <4>1, <4>2, Zenon DEF IsGiven
        <3> QED BY <3>5, Zenon
    <2>12. live \ K \subseteq Prior(live, s, r.now)
        BY <2>1
    <2>13. K \in SUBSET live
        OBVIOUS
    <2> HIDE DEF K
    <2>14. \A t \in Sessions : \A p \in request[t].given :
               p \in DOMAIN points \ K =>
                   \/ time - request[t].now >= ContinuationPointExpiry
                   \/ t = s /\ p \notin request'[s].given
        BY <1>6, <2>12, <2>13, Zenon
    <2>15. /\ handed' >= handed /\ \A q \in {handed + 1} : q > handed
           /\ request'[s].now <= time /\ (~request'[s].open => request'[s].given = {})
        <3>1. request'[s].now <= time /\ (~request'[s].open => request'[s].given = {})
            BY <1>1, <2>9, Zenon
        <3>2. handed' = handed + 1 /\ handed \in Nat
            BY <1>0, <1>8, Zenon
        <3>3. handed' >= handed /\ \A q \in {handed + 1} : q > handed
            BY ONLY <3>2
        <3> QED BY <3>1, <3>3, Zenon
    <2>16. \A p \in request'[s].given :
               \/ IsGiven(s, p)'
               \/ p \in request[s].given /\ request'[s].now = request[s].now
        BY <2>9, <2>11, Zenon
    <2>17. GivenKept'
        BY <1>1, <2>1, <2>8, <2>9, <2>14, <2>15, <2>16, GivenFollows, Zenon
    <2> QED BY <2>8, <2>10, <2>17, Zenon DEF PointsInv
<1>9. ASSUME NEW gone \in FreeOldest(live, s, r.now),
             points' = Keep(live \ gone), UNCHANGED <<handed, received>>,
             request' = [request EXCEPT ![s] = NodeAnswered(r, {})]
      PROVE  PointsInv'
    <2> DEFINE K == live \ gone
    <2>1. K \in SUBSET DOMAIN points /\ gone \subseteq Prior(live, s, r.now)
        BY <1>2, <1>9, RoomMade, Zenon
    <2>2. K \in SUBSET live /\ live \ K \subseteq Prior(live, s, r.now)
        BY <2>1
    <2>3. points' = Keep(K)
        BY <1>9
    <2> HIDE DEF K
    <2>4. \A q \in K : received'[q] = received[q]
        BY <1>9, Zenon
    <2>5. received' \in Seq(Seq(Nat)) /\ Len(received') = handed /\ handed' = handed
        BY <1>0, <1>9, Zenon
    <2>6. /\ DOMAIN points' = K /\ \A q \in K : points'[q] = points[q]
          /\ DOMAIN points' \subseteq 1..handed'
          /\ PointsFit' /\ PointsLimited'
        BY <1>1, <2>1, <2>3, <2>4, <2>5, PointsKept, Zenon
    <2>7. {} \in SUBSET Nat /\ r.given \cup {} = r.given
        OBVIOUS
    <2>8. /\ request' \in [Sessions -> Requests]
          /\ request'[s].now = r.now /\ request'[s].open = r.open
          /\ request'[s].given = r.given
          /\ \A t \in Sessions : t # s => request'[t] = request[t]
        BY <1>5, <1>9, <2>7, Zenon
    <2>9. PointTypes'
        BY <1>0, <1>1, <2>5, <2>6, <2>8, Zenon DEF PointTypes
    <2>10. \A t \in Sessions : \A p \in request[t].given :
               p \in DOMAIN points \ K =>
                   \/ time - request[t].now >= ContinuationPointExpiry
                   \/ t = s /\ p \notin request'[s].given
        BY <1>6, <2>2, Zenon
    <2>11. request'[s].given \subseteq request[s].given
        BY <2>8, Zenon
    <2>13. GivenKept'
        BY <1>1, <2>1, <2>5, <2>6, <2>8, <2>10, <2>11, GivenRemains, Zenon
    <2> QED BY <2>6, <2>9, <2>13, Zenon DEF PointsInv
<1>10. CASE matching <= r.maximum
    BY <1>7, <1>10, Zenon DEF BrowseNode
<1>11. CASE ~(matching <= r.maximum)
    <2>1. matching > r.maximum
        BY <1>2, <1>3, <1>11
    <2>2. PICK gone \in FreeOldest(live, s, r.now) :
              IF HasRoom(live, s, r.now)
              THEN /\ points' = NewPoint(live \ gone, s,
                                  SubSeq(matched, r.maximum + 1, matching), r.maximum, r.now)
                   /\ handed' = handed + 1
                   /\ received' = Append(received, SubSeq(matched, 1, r.maximum))
                   /\ request' = [request EXCEPT ![s] = NodeAnswered(r, {handed + 1})]
              ELSE /\ points' = Keep(live \ gone)
                   /\ request' = [request EXCEPT ![s] = NodeAnswered(r, {})]
                   /\ UNCHANGED <<handed, received>>
        BY <1>11, Zenon DEF BrowseNode
    <2> QED BY <1>8, <1>9, <2>1, <2>2, Zenon
<1> QED BY <1>10, <1>11, Zenon

\* A session that is building no response takes points only from itself, or
\* those that have expired.
LEMMA TakenFrom ==
    ASSUME PointsInv, NEW s \in Sessions, ~request[s].open, NEW K \in SUBSET DOMAIN points,
           \A q \in DOMAIN points \ K : q \notin Live(time) \/ points[q].session = s
    PROVE  \A t \in Sessions : \A p \in request[t].given :
               p \in DOMAIN points \ K => time - request[t].now >= ContinuationPointExpiry
<1> SUFFICES ASSUME NEW t \in Sessions, NEW p \in request[t].given, p \in DOMAIN points \ K
             PROVE  time - request[t].now >= ContinuationPointExpiry
    BY Zenon
<1>1. time \in Nat /\ time <= time
    BY DEF PointsInv, PointTypes
<1>2. CASE p \notin Live(time)
    BY <1>1, <1>2, ExpiredGiven, Zenon
<1>3. CASE points[p].session = s
    <2>1. points[p].session = t
        BY Zenon DEF PointsInv, GivenKept, IsGiven
    <2>2. request[t].given = {}
        BY <1>3, <2>1, Zenon DEF PointsInv, GivenKept
    <2> QED BY <2>2, Zenon
<1> QED BY <1>2, <1>3, Zenon

\* Points go, and the requests stay.
LEMMA OnlyKept ==
    ASSUME PointsInv, NEW s \in Sessions, ~request[s].open, NEW K \in SUBSET DOMAIN points,
           \A q \in DOMAIN points \ K : q \notin Live(time) \/ points[q].session = s,
           points' = Keep(K), UNCHANGED <<time, handed, request>>,
           received' \in Seq(Seq(Nat)), Len(received') = handed,
           \A q \in K : received'[q] = received[q]
    PROVE  PointsInv'
<1>1. /\ DOMAIN points' = K /\ \A q \in K : points'[q] = points[q]
      /\ DOMAIN points' \subseteq 1..handed'
      /\ PointsFit' /\ PointsLimited'
    BY PointsKept, Zenon
<1>2. PointTypes'
    BY <1>1, Zenon DEF PointsInv, PointTypes
<1>3. \A t \in Sessions : \A p \in request[t].given :
          p \in DOMAIN points \ K =>
              \/ time - request[t].now >= ContinuationPointExpiry
              \/ t = s /\ p \notin request'[s].given
    BY TakenFrom, Zenon
<1>4. /\ \A t \in Sessions : t # s => request'[t] = request[t]
      /\ request'[s].now = request[s].now /\ request'[s].open = request[s].open
      /\ request'[s].given \subseteq request[s].given
    BY Zenon
<1>5. time' = time /\ handed' = handed
    OBVIOUS
<1>6. GivenKept'
    BY <1>1, <1>3, <1>4, <1>5, GivenRemains, Zenon
<1> QED BY <1>1, <1>2, <1>6, Zenon DEF PointsInv

\* BrowseNext with one point.
LEMMA BrowseNextKeeps ==
    ASSUME PointsInv, NEW s \in Sessions, NEW p \in 1..handed, BrowseNext(s, p)
    PROVE  PointsInv'
<1> DEFINE live == Live(time)
           stored == points[p]
           done == Len(stored.remaining) <= stored.maximum
<1>0. /\ time \in Nat /\ handed \in Nat /\ received \in Seq(Seq(Nat)) /\ Len(received) = handed
      /\ DOMAIN points \subseteq 1..handed /\ request \in [Sessions -> Requests]
      /\ PointTypes /\ GivenKept
    BY DEF PointsInv, PointTypes
<1>1. ~request[s].open /\ UNCHANGED <<time, request>>
    BY Zenon DEF BrowseNext
<1>2. live \in SUBSET DOMAIN points
    BY DEF Live
<1>3. CASE p \notin live \/ points[p].session # s
    <2>1. points' = Keep(live) /\ UNCHANGED <<handed, received>>
        BY <1>3, Zenon DEF BrowseNext
    <2>2. \A q \in DOMAIN points \ live : q \notin Live(time) \/ points[q].session = s
        OBVIOUS
    <2>3. /\ received' \in Seq(Seq(Nat)) /\ Len(received') = handed
          /\ \A q \in live : received'[q] = received[q]
        BY <2>1, <1>0, Zenon
    <2> HIDE DEF live
    <2> QED BY <1>1, <1>2, <2>1, <2>2, <2>3, OnlyKept, Zenon
<1>4. CASE p \in live /\ points[p].session = s
    <2> DEFINE K == live \ {p}
    <2>0. /\ K \in SUBSET DOMAIN points /\ p \in DOMAIN points /\ p \notin K
          /\ \A q \in DOMAIN points \ K : q \notin Live(time) \/ points[q].session = s
        BY <1>4, <1>2
    <2>1. /\ IsPoint(stored) /\ Whole(received[p], stored) /\ stored.session = s
          /\ received[p] \in Seq(Nat)
        <3>1. p \in 1..Len(received)
            BY <1>0, <2>0, Zenon
        <3>2. received[p] \in Seq(Nat)
            BY <3>1, <1>0, ElementOfSeq, Zenon
        <3> QED BY <3>2, <1>4, <2>0, Zenon DEF PointsInv, PointsFit
    <2>2. CASE done
        <3>1. /\ points' = Keep(K) /\ handed' = handed
              /\ received' = [received EXCEPT ![p] = received[p] \o stored.remaining]
            BY <1>4, <2>2, Zenon DEF BrowseNext
        <3>2. received[p] \o stored.remaining \in Seq(Nat)
            BY <2>1, ConcatProperties, Zenon DEF IsPoint
        <3>3. /\ received' \in Seq(Seq(Nat)) /\ Len(received') = handed
              /\ \A q \in K : received'[q] = received[q]
            <4> DEFINE e == received[p] \o stored.remaining
                       X == [received EXCEPT ![p] = e]
            <4>1. e \in Seq(Nat) /\ p \in 1..Len(received)
                BY <3>2, <1>0
            <4>4. received' = X
                BY <3>1
            <4> HIDE DEF e, K
            <4>5. /\ X \in Seq(Seq(Nat)) /\ Len(X) = Len(received)
                  /\ \A q \in 1..Len(received) : q # p => X[q] = received[q]
                BY <4>1, <1>0, Extended, Zenon
            <4> HIDE DEF X
            <4>2. /\ received' \in Seq(Seq(Nat)) /\ Len(received') = Len(received)
                  /\ \A q \in 1..Len(received) : q # p => received'[q] = received[q]
                BY <4>4, <4>5, Zenon
            <4>3. \A q \in K : q \in 1..Len(received) /\ q # p
                BY <2>0, <1>0
            <4> QED BY <4>2, <4>3, <1>0, Zenon
        <3> HIDE DEF K
        <3> QED BY <1>1, <2>0, <3>1, <3>3, OnlyKept, Zenon
    <2>3. CASE ~done
        <3> DEFINE B == stored.remaining
                   m == stored.maximum
                   rest == SubSeq(B, m + 1, Len(B))
                   has == received[p] \o SubSeq(B, 1, m)
                   x == [session |-> s, remaining |-> rest, maximum |-> m, createdAt |-> time]
        <3>1. /\ points' = NewPoint(K, s, rest, m, time) /\ handed' = handed + 1
              /\ received' = Append(received, has)
            BY <1>4, <2>3, Zenon DEF BrowseNext
        <3>2. B \in Seq(Nat) /\ m \in Nat /\ m <= Len(B)
            <4>1. B \in Seq(Nat) /\ m \in Nat
                BY <2>1, Zenon DEF IsPoint
            <4>2. Len(B) \in Nat /\ ~(Len(B) <= m)
                BY <4>1, <2>3, LenProperties, Zenon
            <4>3. m <= Len(B)
                BY <4>1, <4>2
            <4> QED BY <4>1, <4>3, Zenon
        <3>3. /\ rest \in Seq(Nat) /\ has \in Seq(Nat) /\ has \o rest = received[p] \o B
            BY <3>2, <2>1, SpliceKeeps, Zenon
        <3>4. IsPoint(x) /\ x.createdAt <= time /\ x.session = s /\ x.remaining = rest
            <4> HIDE DEF rest, B, m
            <4>1. time <= time
                BY <1>0
            <4> QED BY <3>2, <3>3, <4>1, <1>0, Zenon DEF IsPoint
        <3>5. points' = [q \in K \cup {handed + 1} |->
                             IF q = handed + 1 THEN x ELSE points[q]]
            BY <3>1, Zenon DEF NewPoint
        <3>6. Whole(has, x)
            <4>1. has \o x.remaining = received[p] \o B
                BY <3>3, <3>4, Zenon
            <4> HIDE DEF has, x
            <4> QED BY <4>1, <2>1, Zenon DEF Whole
        <3>7. Cardinality(Own(K, s)) < MaxContinuationPoints
            <4> DEFINE S == Own(DOMAIN points, s)
                       T == Own(K, s)
            <4>1. T \in SUBSET (S \ {p}) /\ p \in S
                BY <2>0, <1>4 DEF Own
            <4>2. IsFiniteSet(S) /\ Cardinality(S) \in Nat
                BY OwnFinite DEF PointsInv
            <4>3. Cardinality(S) <= MaxContinuationPoints
                BY DEF PointsInv, PointsLimited
            <4>4. MaxContinuationPoints \in Nat
                BY BrowseAssumption
            <4> HIDE DEF S, T
            <4>5. IsFiniteSet(S \ {p}) /\ Cardinality(S \ {p}) = Cardinality(S) - 1
                BY <4>1, <4>2, FS_RemoveElement
            <4>6. IsFiniteSet(T) /\ Cardinality(T) <= Cardinality(S \ {p})
                BY <4>1, <4>5, FS_Subset, Zenon
            <4>7. Cardinality(T) \in Nat
                BY <4>6, FS_CardinalityType, Zenon
            <4>8. Cardinality(T) < MaxContinuationPoints
                BY <4>2, <4>3, <4>4, <4>5, <4>6, <4>7
            <4> QED BY <4>8 DEF T
        <3> HIDE DEF K, x, has, rest, B, m
        <3>8. /\ DOMAIN points' = K \cup {handed + 1} /\ handed + 1 \notin DOMAIN points
              /\ points'[handed + 1] = x /\ \A q \in K : points'[q] = points[q]
              /\ DOMAIN points' \subseteq 1..handed'
              /\ handed' \in Nat /\ received' \in Seq(Seq(Nat)) /\ Len(received') = handed'
              /\ PointsFit' /\ PointsLimited'
            BY <1>1, <2>0, <3>1, <3>3, <3>4, <3>5, <3>6, <3>7, PointsJoined, Zenon
        <3>9. PointTypes'
            BY <1>0, <1>1, <3>8, Zenon DEF PointTypes
        <3>10. \A t \in Sessions : \A q \in request[t].given :
                   q \in DOMAIN points \ K =>
                       \/ time - request[t].now >= ContinuationPointExpiry
                       \/ t = s /\ q \notin request'[s].given
            BY <1>1, <2>0, TakenFrom, Zenon
        <3>11. /\ \A t \in Sessions : t # s => request'[t] = request[t]
               /\ request'[s].now <= time /\ (~request'[s].open => request'[s].given = {})
               /\ \A q \in request'[s].given :
                     \/ IsGiven(s, q)'
                     \/ q \in request[s].given /\ request'[s].now = request[s].now
            BY <1>0, <1>1, Zenon DEF GivenKept
        <3>12. handed' >= handed /\ \A q \in {handed + 1} : q > handed
            <4>1. handed' = handed + 1 /\ handed \in Nat
                BY <1>0, <3>1, Zenon
            <4> QED BY ONLY <4>1
        <3> DEFINE N == {handed + 1}
        <3>14. time' = time /\ handed' \in Nat /\ K \in SUBSET DOMAIN points
            BY <1>1, <2>0, <3>8, Zenon
        <3>15. /\ DOMAIN points' = K \cup N /\ \A q \in N : q > handed
               /\ \A q \in K : points'[q] = points[q]
               /\ handed' >= handed
            BY <3>8, <3>12, Zenon
        <3> HIDE DEF N
        <3>13. GivenKept'
            BY <3>14, <3>10, <3>11, <3>15, GivenFollows, Zenon
        <3> QED BY <3>8, <3>9, <3>13, Zenon DEF PointsInv
    <2> QED BY <2>2, <2>3, Zenon
<1> QED BY <1>3, <1>4, Zenon

\* BrowseNext with releaseContinuationPoints.
LEMMA ReleasePointKeeps ==
    ASSUME PointsInv, NEW s \in Sessions, NEW p \in 1..handed, ReleasePoint(s, p)
    PROVE  PointsInv'
<1> DEFINE K == DOMAIN points \ {p}
<1>1. /\ ~request[s].open /\ points[p].session = s /\ points' = Keep(K)
      /\ UNCHANGED <<time, handed, request>> /\ received' = received
    BY Zenon DEF ReleasePoint
<1>2. /\ K \in SUBSET DOMAIN points
      /\ \A q \in DOMAIN points \ K : q \notin Live(time) \/ points[q].session = s
    BY <1>1
<1>3. /\ received' \in Seq(Seq(Nat)) /\ Len(received') = handed
      /\ \A q \in K : received'[q] = received[q]
    BY <1>1, Zenon DEF PointsInv, PointTypes
<1> HIDE DEF K
<1> QED BY <1>1, <1>2, <1>3, OnlyKept, Zenon

\* The session of a request ends: what the request has handed out goes with it.
LEMMA ReleaseSessionKeeps ==
    ASSUME PointsInv, NEW s \in Sessions, ReleaseSession(s)
    PROVE  PointsInv'
<1> DEFINE K == {p \in DOMAIN points : points[p].session # s}
           q == [request[s] EXCEPT !.given = {}]
<1>0. PointTypes /\ GivenKept /\ request \in [Sessions -> Requests] /\ request[s] \in Requests
    BY Zenon DEF PointsInv, PointTypes
<1>1. /\ points' = Keep(K) /\ time' = time /\ handed' = handed /\ received' = received
      /\ request' = [request EXCEPT ![s] = q]
    BY Zenon DEF ReleaseSession
<1>2. q \in Requests /\ q.now = request[s].now /\ q.open = request[s].open /\ q.given = {}
    <2> DEFINE r == request[s]
    <2>1. r \in Requests
        BY <1>0
    <2> HIDE DEF r
    <2>2. [r EXCEPT !.given = {}] \in Requests
          /\ [r EXCEPT !.given = {}].now = r.now
          /\ [r EXCEPT !.given = {}].open = r.open
          /\ [r EXCEPT !.given = {}].given = {}
        BY <2>1 DEF Requests
    <2> QED BY <2>2, Zenon DEF r
<1> HIDE DEF q
<1>3. /\ request' \in [Sessions -> Requests] /\ request'[s] = q
      /\ \A t \in Sessions : t # s => request'[t] = request[t]
    BY <1>0, <1>1, <1>2, Zenon
<1>4. /\ K \in SUBSET DOMAIN points
      /\ \A p \in DOMAIN points \ K : points[p].session = s
    OBVIOUS
<1>5. /\ received' \in Seq(Seq(Nat)) /\ Len(received') = handed
      /\ \A p \in K : received'[p] = received[p]
    BY <1>0, <1>1, Zenon DEF PointTypes
<1> HIDE DEF K
<1>6. /\ DOMAIN points' = K /\ \A p \in K : points'[p] = points[p]
      /\ DOMAIN points' \subseteq 1..handed'
      /\ PointsFit' /\ PointsLimited'
    BY <1>1, <1>4, <1>5, PointsKept, Zenon
<1>7. PointTypes'
    BY <1>0, <1>1, <1>3, <1>5, <1>6, Zenon DEF PointTypes
<1>8. \A t \in Sessions : \A p \in request[t].given :
          p \in DOMAIN points \ K =>
              \/ time - request[t].now >= ContinuationPointExpiry
              \/ t = s /\ p \notin request'[s].given
    <2> SUFFICES ASSUME NEW t \in Sessions, NEW p \in request[t].given,
                        p \in DOMAIN points \ K
                 PROVE  t = s /\ p \notin request'[s].given
        BY Zenon
    <2>1. points[p].session = s /\ points[p].session = t
        BY <1>0, <1>4, Zenon DEF GivenKept, IsGiven
    <2> QED BY <2>1, <1>2, <1>3
<1>9. /\ request'[s].now = request[s].now /\ request'[s].open = request[s].open
      /\ request'[s].given \subseteq request[s].given
    BY <1>2, <1>3, Zenon
<1>10. GivenKept'
    BY <1>1, <1>3, <1>4, <1>6, <1>8, <1>9, GivenRemains, Zenon
<1> QED BY <1>6, <1>7, <1>10, Zenon DEF PointsInv

\* The answer of a Browse has left.
LEMMA BrowseClosesKeeps ==
    ASSUME PointsInv, NEW s \in Sessions, BrowseCloses(s)
    PROVE  PointsInv'
<1>0. PointTypes /\ GivenKept /\ time \in Nat /\ request \in [Sessions -> Requests]
    BY Zenon DEF PointsInv, PointTypes
<1>1. UNCHANGED <<time, points, handed, received>> /\ request' = [request EXCEPT ![s] = NoRequest]
    BY Zenon DEF BrowseCloses
<1>2. /\ NoRequest \in Requests /\ NoRequest.now = 0 /\ NoRequest.given = {} /\ 0 <= time
    BY <1>0 DEF NoRequest, Requests
<1>3. /\ request' \in [Sessions -> Requests] /\ request'[s] = NoRequest
      /\ \A t \in Sessions : t # s => request'[t] = request[t]
    BY <1>0, <1>1, <1>2, Zenon
<1>4. PointTypes'
    BY <1>0, <1>1, <1>3, Zenon DEF PointTypes
<1>5. PointsFit' /\ PointsLimited'
    BY <1>1, Zenon DEF PointsInv, PointsFit, PointsLimited, Own, IsPoint, Whole
<1>6. ASSUME NEW t \in Sessions
      PROVE  /\ request'[t].now <= time'
             /\ ~request'[t].open => request'[t].given = {}
             /\ \A p \in request'[t].given : IsGiven(t, p)'
    <2>1. CASE t = s
        BY <1>1, <1>2, <1>3, <2>1, Zenon
    <2>2. CASE t # s
        <3>1. request'[t] = request[t]
            BY <1>3, <2>2, Zenon
        <3>2. /\ request[t].now <= time
              /\ ~request[t].open => request[t].given = {}
              /\ \A p \in request[t].given : IsGiven(t, p)
            BY <1>0, Zenon DEF GivenKept
        <3>3. \A p \in request[t].given : IsGiven(t, p)'
            BY <3>1, <3>2, <1>1 DEF IsGiven
        <3> QED BY <3>1, <3>2, <3>3, <1>1, Zenon
    <2> QED BY <2>1, <2>2, Zenon
<1> QED BY <1>4, <1>5, <1>6, Zenon DEF PointsInv, GivenKept

\* Expiry is checked without a request.
LEMMA ExpireKeeps ==
    ASSUME PointsInv, ExpireContinuationPoints
    PROVE  PointsInv'
<1> DEFINE K == Live(time)
<1>0. PointTypes /\ GivenKept /\ time \in Nat /\ time <= time
    BY DEF PointsInv, PointTypes
<1>1. points' = Keep(K) /\ time' = time /\ handed' = handed /\ request' = request
      /\ received' = received
    BY Zenon DEF ExpireContinuationPoints
<1>2. K \in SUBSET DOMAIN points
    BY DEF Live
<1>3. /\ received' \in Seq(Seq(Nat)) /\ Len(received') = handed
      /\ \A p \in K : received'[p] = received[p]
    BY <1>0, <1>1, Zenon DEF PointTypes
<1>4. \A t \in Sessions : \A p \in request[t].given :
          p \in DOMAIN points \ K => time - request[t].now >= ContinuationPointExpiry
    BY <1>0, ExpiredGiven, Zenon
<1> HIDE DEF K
<1>5. /\ DOMAIN points' = K /\ \A p \in K : points'[p] = points[p]
      /\ DOMAIN points' \subseteq 1..handed'
      /\ PointsFit' /\ PointsLimited'
    BY <1>1, <1>2, <1>3, PointsKept, Zenon
<1>6. PointTypes'
    BY <1>0, <1>1, <1>5, Zenon DEF PointTypes
<1>7. GivenKept'
    <2> SUFFICES ASSUME NEW t \in Sessions
                 PROVE  /\ request'[t].now <= time'
                        /\ ~request'[t].open => request'[t].given = {}
                        /\ \A p \in request'[t].given : IsGiven(t, p)'
        BY Zenon DEF GivenKept
    <2>1. /\ \A u \in Sessions : u # t => request'[u] = request[u]
          /\ request'[t].now = request[t].now /\ request'[t].open = request[t].open
          /\ request'[t].given \subseteq request[t].given
          /\ \A u \in Sessions : \A p \in request[u].given :
                p \in DOMAIN points \ K =>
                    \/ time - request[u].now >= ContinuationPointExpiry
                    \/ u = t /\ p \notin request'[t].given
        BY <1>1, <1>4, Zenon
    <2>2. GivenKept'
        BY <1>1, <1>2, <1>5, <2>1, GivenRemains, Zenon
    <2> QED BY <2>2, Zenon DEF GivenKept
<1> QED BY <1>5, <1>6, <1>7, Zenon DEF PointsInv

\* Time passes: a response that took long stays one that took long.
LEMMA TimeKeeps ==
    ASSUME PointsInv, TimePasses
    PROVE  PointsInv'
<1>0. PointTypes /\ PointsFit /\ GivenKept /\ time \in Nat /\ request \in [Sessions -> Requests]
    BY Zenon DEF PointsInv, PointTypes
<1>1. time' = time + 1 /\ UNCHANGED <<points, handed, request, received>>
    BY Zenon DEF TimePasses
<1>2. PointTypes'
    BY <1>0, <1>1 DEF PointTypes
<1>3. PointsLimited'
    BY <1>1, Zenon DEF PointsInv, PointsLimited, Own
<1>4. PointsFit'
    <2> SUFFICES ASSUME NEW p \in DOMAIN points
                 PROVE  /\ IsPoint(points[p]) /\ points[p].createdAt <= time'
                        /\ Whole(received[p], points[p])
        BY <1>1, Zenon DEF PointsFit, IsPoint, Whole
    <2>1. /\ IsPoint(points[p]) /\ points[p].createdAt <= time
          /\ Whole(received[p], points[p])
        BY <1>0, Zenon DEF PointsFit
    <2>2. points[p].createdAt \in Nat
        BY <2>1, Zenon DEF IsPoint
    <2>3. points[p].createdAt <= time'
        BY <2>1, <2>2, <1>0, <1>1
    <2> QED BY <2>1, <2>3, Zenon
<1>5. ASSUME NEW t \in Sessions
      PROVE  /\ request'[t].now <= time'
             /\ ~request'[t].open => request'[t].given = {}
             /\ \A p \in request'[t].given : IsGiven(t, p)'
    <2>1. /\ request[t].now <= time
          /\ ~request[t].open => request[t].given = {}
          /\ \A p \in request[t].given : IsGiven(t, p)
        BY <1>0, Zenon DEF GivenKept
    <2>2. request[t].now \in Nat /\ ContinuationPointExpiry \in Nat
        BY <1>0, BrowseAssumption DEF Requests
    <2>3. request[t].now <= time'
        BY <2>1, <2>2, <1>0, <1>1
    <2>4. time - request[t].now >= ContinuationPointExpiry =>
              time' - request[t].now >= ContinuationPointExpiry
        BY <2>2, <1>0, <1>1
    <2>5. \A p \in request[t].given : IsGiven(t, p)'
        BY <2>1, <2>4, <1>1, Zenon DEF IsGiven
    <2> QED BY <2>1, <2>3, <2>5, <1>1, Zenon
<1> QED BY <1>2, <1>3, <1>4, <1>5, Zenon DEF PointsInv, GivenKept

\* What is kept of continuation points holds at first and after every step.
THEOREM PointsInvariant == PointsSpec => []PointsInv
<1>1. PointsInit => PointsInv
    <2> SUFFICES ASSUME PointsInit PROVE PointsInv
        OBVIOUS
    <2>1. /\ time = 0 /\ points = <<>> /\ handed = 0 /\ received = <<>>
          /\ request = [s \in Sessions |-> NoRequest]
        BY Zenon DEF PointsInit
    <2>2. DOMAIN points = {}
        BY <2>1
    <2>3. NoRequest \in Requests /\ NoRequest.now = 0 /\ NoRequest.given = {}
        BY DEF NoRequest, Requests
    <2>4. PointTypes
        <3>1. received \in Seq(Seq(Nat)) /\ Len(received) = 0 /\ time \in Nat /\ handed \in Nat
            BY <2>1
        <3>2. request \in [Sessions -> Requests]
            BY <2>1, <2>3, Zenon
        <3> QED BY <2>1, <2>2, <3>1, <3>2, Zenon DEF PointTypes
    <2>5. PointsFit
        BY <2>2, Zenon DEF PointsFit
    <2>6. PointsLimited
        <3>1. \A s \in Sessions : Own(DOMAIN points, s) = {}
            BY <2>2 DEF Own
        <3>2. Cardinality({}) = 0
            BY FS_EmptySet, Zenon
        <3>3. 0 <= MaxContinuationPoints
            BY BrowseAssumption
        <3> QED BY <3>1, <3>2, <3>3, Zenon DEF PointsLimited
    <2>7. GivenKept
        <3>1. \A s \in Sessions : request[s].now = 0 /\ request[s].given = {}
            BY <2>1, <2>3, Zenon
        <3>2. 0 <= time
            BY <2>1
        <3> QED BY <3>1, <3>2, Zenon DEF GivenKept
    <2> QED BY <2>4, <2>5, <2>6, <2>7, Zenon DEF PointsInv
<1>2. PointsInv /\ [PointsNext]_pointVars => PointsInv'
    <2> SUFFICES ASSUME PointsInv, [PointsNext]_pointVars PROVE PointsInv'
        OBVIOUS
    <2>1. CASE TimePasses
        BY <2>1, TimeKeeps, Zenon
    <2>2. CASE ExpireContinuationPoints
        BY <2>2, ExpireKeeps, Zenon
    <2>3. ASSUME NEW s \in Sessions, NEW n \in 1..MaxNodesPerBrowse, NEW most \in Requested,
                 BrowseOpens(s, n, most)
          PROVE  PointsInv'
        BY <2>3, BrowseOpensKeeps, Zenon
    <2>4. ASSUME NEW s \in Sessions, NEW matching \in Matching, BrowseNode(s, matching)
          PROVE  PointsInv'
        BY <2>4, BrowseNodeKeeps, Zenon
    <2>5. ASSUME NEW s \in Sessions, BrowseCloses(s) \/ ReleaseSession(s)
          PROVE  PointsInv'
        BY <2>5, BrowseClosesKeeps, ReleaseSessionKeeps, Zenon
    <2>6. ASSUME NEW s \in Sessions, NEW p \in 1..handed, BrowseNext(s, p) \/ ReleasePoint(s, p)
          PROVE  PointsInv'
        BY <2>6, BrowseNextKeeps, ReleasePointKeeps, Zenon
    <2>7. CASE UNCHANGED pointVars
        BY <2>7, Zenon DEF pointVars, PointsInv, PointTypes, PointsFit, PointsLimited, GivenKept,
           IsGiven, IsPoint, Whole, Own
    <2> QED BY <2>1, <2>2, <2>3, <2>4, <2>5, <2>6, <2>7, Zenon DEF PointsNext
<1> QED BY <1>1, <1>2, PTL DEF PointsSpec

\* Continuation points continue where their response ended, a session keeps to
\* its limit, and the points of a response outlive the making of it unless that
\* takes longer than a point lives (browse.go, BrowseNode and BrowseNext).
THEOREM ContinuationSoundAlways == PointsSpec => []ContinuationSound
<1>1. PointsInv => ContinuationSound
    <2> SUFFICES ASSUME PointsInv PROVE ContinuationSound
        OBVIOUS
    <2>1. NothingLostBetween
        BY Zenon DEF PointsInv, PointsFit, Whole, NothingLostBetween
    <2>2. ASSUME NEW s \in Sessions
          PROVE  \/ request[s].given \subseteq DOMAIN points
                 \/ time - request[s].now >= ContinuationPointExpiry
        BY Zenon DEF PointsInv, GivenKept, IsGiven
    <2>3. ResponsePointsLive
        BY <2>2, Zenon DEF PointsInv, PointsLimited, ResponsePointsLive
    <2> QED BY <2>1, <2>3, Zenon DEF ContinuationSound
<1> QED BY <1>1, PointsInvariant, PTL

-----------------------------------------------------------------------------
(* Read and Write *)

JobKinds == {"read", "write", "property", "description"}

\* A job of a request: some of its slots, over items when it is a batch.
Tasks(r) ==
    {e \in [kind : JobKinds, at : Seq(Nat)] :
        /\ e.at # <<>> /\ Range(e.at) \subseteq DOMAIN r.slots
        /\ e.kind \in {"read", "write"} => \A k \in Range(e.at) : r.targets[k].node \in ItemIDs
        /\ e.kind = "write" <=> r.kind = "write"}

\* The slots jobs are about, and that no two jobs are about the same.
Left(q) == UNION {Range(q[a].at) : a \in DOMAIN q}
Apart(q) == \A a, b \in DOMAIN q : a # b => Range(q[a].at) \cap Range(q[b].at) = {}

IsCall(r) ==
    /\ r = [n |-> r.n, kind |-> r.kind, targets |-> r.targets, slots |-> r.slots,
            todo |-> r.todo, reply |-> r.reply, phase |-> r.phase]
    /\ r.n \in Nat /\ r.phase \in {"done", "serving", "waiting", "replied"}
    /\ r.todo \in Seq(Tasks(r)) /\ Apart(r.todo)
    /\ r.phase \in {"waiting", "replied"} => r.todo # <<>>

\* Of the writes W the source took, one is that of slot k of this request.
Wrote(W, c, r, k) == \E w \in W : w.slot = <<c, r.n, k>> /\ w.item = r.targets[k].node

\* What a slot may say of a write, and of a read, given the writes W and the
\* values S items had since the request began.
Stored(W, c, r, k, s) == r.kind = "write" /\ s.status = "Good" => Wrote(W, c, r, k)
Recent(S, r, k, s) ==
    r.kind = "read" /\ "value" \in DOMAIN s =>
        s.from = r.targets[k].node /\ <<r.targets[k].node, s.value>> \in S

\* A slot is true unless a job for it is still to be done.
SlotsHold(W, S, c, r) ==
    r.phase # "done" => \A k \in DOMAIN r.slots :
        /\ Recent(S, r, k, r.slots[k])
        /\ k \notin Left(r.todo) => Stored(W, c, r, k, r.slots[k])

\* A reply is about the slots of the job at hand, and what it makes of them is true.
ReplyHolds(W, S, c, r) ==
    r.phase = "replied" /\ r.reply # <<>> =>
        /\ DOMAIN r.reply = Range(r.todo[1].at)
        /\ \A k \in DOMAIN r.reply :
              /\ Recent(S, r, k, SlotFor(r.reply[k]))
              /\ Stored(W, c, r, k, SlotFor(r.reply[k]))

CallsHold ==
    /\ DOMAIN call = Callers
    /\ \A c \in Callers :
          /\ IsCall(call[c])
          /\ SlotsHold(written, standing[c], c, call[c])
          /\ ReplyHolds(written, standing[c], c, call[c])

\* A command of the request r that is being answered is its job at hand or one
\* it has given up: never a later one.
Accounted(j, r) ==
    \/ /\ r.phase \in {"waiting", "replied"}
       /\ j.kind = r.todo[1].kind /\ j.at = r.todo[1].at
    \/ Range(j.at) \cap Left(r.todo) = {}

Alive(j, r) == r.n = j.n /\ r.phase # "done"

IsCommand(j) ==
    /\ j.kind \in JobKinds /\ j.at \in Seq(Nat) /\ j.at # <<>>
    /\ j.caller \in Callers /\ j.n \in Nat

Follows(j, r) == j.n <= r.n /\ (Alive(j, r) => Accounted(j, r))

CommandsKnown ==
    /\ DOMAIN commands = 1..Len(commands) /\ commands \in Seq(Range(commands))
    /\ \A a \in DOMAIN commands :
          IsCommand(commands[a]) /\ Follows(commands[a], call[commands[a].caller])

\* A handle names an item in the group of the connection that is up.
HandleNames(h, i) == h \in DOMAIN group /\ group[h] = i

\* The handles a job has resolved name its items.
Resolved(j) ==
    j.step = "transfer" => \A k \in Range(j.at) :
        j.handle[k] # 0 => HandleNames(j.handle[k], j.targets[k].node)

IsJob(j) ==
    /\ j = [caller |-> j.caller, n |-> j.n, kind |-> j.kind, at |-> j.at, targets |-> j.targets,
            step |-> j.step, handle |-> j.handle, limited |-> j.limited]
    /\ IsCommand(j)
    /\ j.kind \in {"read", "write"} => \A k \in Range(j.at) : j.targets[k].node \in ItemIDs

JobKnown ==
    job # NoJob =>
        /\ IsJob(job) /\ Resolved(job)
        /\ Follows(job, call[job.caller])
        /\ Alive(job, call[job.caller]) => job.targets = call[job.caller].targets

\* Cache and group are inverse to each other, within the limit.
GroupKept ==
    /\ cache \in [ItemIDs -> Nat] /\ group \in Seq(ItemIDs)
    /\ \A i \in ItemIDs : cache[i] # 0 => HandleNames(cache[i], i)
    /\ \A h \in DOMAIN group : cache[group[h]] = h
    /\ Len(group) <= MaxRegisteredItems

\* The values items have now are among those of every open request.
StandingKept ==
    /\ DOMAIN standing = Callers
    /\ \A c \in Callers :
          call[c].phase # "done" => \A i \in ItemIDs : <<i, value[i]>> \in standing[c]

AccessInv == CallsHold /\ CommandsKnown /\ JobKnown /\ GroupKept /\ StandingKept

\* Two lists of jobs one after the other.
LEMMA LeftJoined ==
    ASSUME NEW T, NEW p \in Seq(T), NEW q \in Seq(T)
    PROVE  /\ p \o q \in Seq(T)
           /\ Left(p \o q) = Left(p) \cup Left(q)
           /\ Apart(p) /\ Apart(q) /\ Left(p) \cap Left(q) = {} => Apart(p \o q)
<1> DEFINE m == Len(p)
           n == Len(q)
           j == p \o q
<1>1. /\ m \in Nat /\ n \in Nat /\ DOMAIN p = 1..m /\ DOMAIN q = 1..n
    BY LenProperties, Zenon
<1>2. /\ j \in Seq(T) /\ Len(j) = m + n
      /\ \A i \in 1..m + n : j[i] = IF i <= m THEN p[i] ELSE q[i - m]
    BY ConcatProperties, Zenon
<1>3. DOMAIN j = 1..m + n
    BY <1>2, LenProperties, Zenon
<1> HIDE DEF j, m, n
<1>4. \A i \in 1..m : i \in DOMAIN j /\ j[i] = p[i]
    BY <1>1, <1>2, <1>3
<1>5. \A i \in 1..n : m + i \in DOMAIN j /\ j[m + i] = q[i]
    BY <1>1, <1>2, <1>3
<1>6. \A i \in DOMAIN j : \/ i \in 1..m
                          \/ i - m \in 1..n /\ i = m + (i - m)
    BY <1>1, <1>3
<1>7. Left(j) = Left(p) \cup Left(q)
    <2>1. ASSUME NEW x \in Left(j) PROVE x \in Left(p) \cup Left(q)
        <3>1. PICK i \in DOMAIN j : x \in Range(j[i].at)
            BY Zenon DEF Left
        <3>2. CASE i \in 1..m
            BY <3>1, <3>2, <1>1, <1>4, Zenon DEF Left
        <3>3. CASE i - m \in 1..n /\ i = m + (i - m)
            <4>1. j[i] = q[i - m]
                BY <3>3, <1>5, Zenon
            <4> QED BY <3>1, <3>3, <4>1, <1>1, Zenon DEF Left
        <3> QED BY <3>2, <3>3, <1>6, Zenon
    <2>2. ASSUME NEW x \in Left(p) PROVE x \in Left(j)
        BY <1>1, <1>4, Zenon DEF Left
    <2>3. ASSUME NEW x \in Left(q) PROVE x \in Left(j)
        BY <1>1, <1>5, Zenon DEF Left
    <2> QED BY <2>1, <2>2, <2>3, Zenon
<1>8. ASSUME Apart(p), Apart(q), Left(p) \cap Left(q) = {} PROVE Apart(j)
    <2> SUFFICES ASSUME NEW a \in DOMAIN j, NEW b \in DOMAIN j, a # b
                 PROVE  Range(j[a].at) \cap Range(j[b].at) = {}
        BY Zenon DEF Apart
    <2>1. \A i \in 1..m : Range(p[i].at) \subseteq Left(p)
        BY <1>1, Zenon DEF Left
    <2>2. \A i \in 1..n : Range(q[i].at) \subseteq Left(q)
        BY <1>1, Zenon DEF Left
    <2>3. CASE a \in 1..m /\ b \in 1..m
        BY <2>3, <1>1, <1>4, <1>8, Zenon DEF Apart
    <2>4. CASE a \in 1..m /\ b - m \in 1..n /\ b = m + (b - m)
        <3>1. j[a] = p[a] /\ j[b] = q[b - m]
            BY <2>4, <1>4, <1>5, Zenon
        <3>2. Range(j[a].at) \subseteq Left(p) /\ Range(j[b].at) \subseteq Left(q)
            BY <2>1, <2>2, <2>4, <3>1, Zenon
        <3> QED BY <3>2, <1>8, Zenon
    <2>5. CASE b \in 1..m /\ a - m \in 1..n /\ a = m + (a - m)
        <3>1. j[b] = p[b] /\ j[a] = q[a - m]
            BY <2>5, <1>4, <1>5, Zenon
        <3>2. Range(j[b].at) \subseteq Left(p) /\ Range(j[a].at) \subseteq Left(q)
            BY <2>1, <2>2, <2>5, <3>1, Zenon
        <3> QED BY <3>2, <1>8, Zenon
    <2>6. CASE a - m \in 1..n /\ a = m + (a - m) /\ b - m \in 1..n /\ b = m + (b - m)
        <3>1. j[a] = q[a - m] /\ j[b] = q[b - m]
            BY <2>6, <1>5, Zenon
        <3>2. a - m # b - m
            BY <2>6
        <3> QED BY <3>1, <3>2, <2>6, <1>1, <1>8, Zenon DEF Apart
    <2> QED BY <2>3, <2>4, <2>5, <2>6, <1>6, Zenon
<1> QED BY <1>2, <1>7, <1>8, Zenon DEF j

\* The positions a verdict is about.
LEMMA WhereIs ==
    ASSUME NEW n \in Nat, NEW verdicts, DOMAIN verdicts = 1..n, NEW v
    PROVE  /\ Where(verdicts, v) \in Seq(Nat)
           /\ Range(Where(verdicts, v)) = {k \in DOMAIN verdicts : verdicts[k] = v}
           /\ \A a, b \in DOMAIN Where(verdicts, v) :
                  a # b => Where(verdicts, v)[a] # Where(verdicts, v)[b]
<1> DEFINE P == {k \in DOMAIN verdicts : verdicts[k] = v}
           q == Ordered(P)
<1>1. P \in SUBSET Nat /\ P \in SUBSET (1..n)
    OBVIOUS
<1>2. IsFiniteSet(1..n)
    <2>1. 1 \in Int /\ n \in Int
        OBVIOUS
    <2> QED BY <2>1, FS_Interval, Zenon
<1>3. IsFiniteSet(P)
    BY <1>1, <1>2, FS_Subset, Zenon
<1> HIDE DEF P
<1>4. /\ q \in Seq(Nat) /\ Listed(q) = P /\ DOMAIN q = 1..Cardinality(P) /\ Cardinality(P) \in Nat
      /\ \A j, k \in DOMAIN q : j < k => q[j] < q[k]
    BY <1>1, <1>3, OrderedIs, Zenon
<1>5. \A j \in DOMAIN q : q[j] \in Nat
    BY <1>4
<1> HIDE DEF q
<1>6. ASSUME NEW a \in DOMAIN q, NEW b \in DOMAIN q, a # b PROVE q[a] # q[b]
    <2>1. a \in Nat /\ b \in Nat
        BY <1>4
    <2>2. a < b \/ b < a
        BY <2>1, <1>6
    <2>3. q[a] < q[b] \/ q[b] < q[a]
        BY <2>2, <1>4, Zenon
    <2>4. q[a] \in Nat /\ q[b] \in Nat
        BY <1>5, Zenon
    <2> QED BY <2>3, <2>4
<1>7. Where(verdicts, v) = q
    BY Zenon DEF Where, q, P
<1>8. Range(q) = P
    BY <1>4, Zenon DEF Range, Listed
<1> QED BY <1>4, <1>6, <1>7, <1>8, Zenon DEF P

\* One job for each of some slots.
LEMMA EachAloneIs ==
    ASSUME NEW T, NEW kind, NEW at \in Seq(Nat),
           \A a, b \in DOMAIN at : a # b => at[a] # at[b],
           \A k \in Range(at) : [kind |-> kind, at |-> <<k>>] \in T
    PROVE  /\ EachAlone(kind, at) \in Seq(T)
           /\ Left(EachAlone(kind, at)) = Range(at) /\ Apart(EachAlone(kind, at))
<1> DEFINE q == EachAlone(kind, at)
           n == Len(at)
           e(k) == [kind |-> kind, at |-> <<at[k]>>]
<1>1. n \in Nat /\ DOMAIN at = 1..n
    BY LenProperties, Zenon
<1>2. DOMAIN q = 1..n /\ \A k \in 1..n : q[k] = e(k)
    BY <1>1, Zenon DEF EachAlone
<1>3. \A k \in 1..n : at[k] \in Range(at) /\ e(k) \in T
    BY <1>1, Zenon DEF Range
<1>4. q \in Seq(T)
    <2>1. q = [k \in 1..n |-> e(k)]
        BY <1>1, Zenon DEF EachAlone
    <2>2. \A k \in 1..n : e(k) \in T
        BY <1>3, Zenon
    <2> HIDE DEF q, n
    <2>3. [k \in 1..n |-> e(k)] \in Seq(T)
        <3> HIDE DEF e
        <3> QED BY <1>1, <2>2
    <2> QED BY <2>1, <2>3, Zenon
<1>5. \A k \in 1..n : Range(q[k].at) = {at[k]}
    <2> SUFFICES ASSUME NEW k \in 1..n PROVE Range(q[k].at) = {at[k]}
        BY Zenon
    <2> DEFINE x == at[k]
    <2>1. q[k].at = <<x>>
        BY <1>2
    <2> HIDE DEF x, q
    <2>2. Range(<<x>>) = {x}
        BY DEF Range
    <2> QED BY <2>1, <2>2, Zenon DEF x
<1> HIDE DEF q, n, e
<1>6. Left(q) = Range(at)
    <2>1. \A x \in Left(q) : x \in Range(at)
        BY <1>2, <1>3, <1>5 DEF Left
    <2>2. ASSUME NEW x \in Range(at) PROVE x \in Left(q)
        <3>1. PICK k \in 1..n : at[k] = x
            BY <1>1, Zenon DEF Range
        <3>2. x \in Range(q[k].at) /\ k \in DOMAIN q
            BY <3>1, <1>2, <1>5, Zenon
        <3> QED BY <3>2, Zenon DEF Left
    <2> QED BY <2>1, <2>2, Zenon
<1>7. Apart(q)
    <2> SUFFICES ASSUME NEW a \in 1..n, NEW b \in 1..n, a # b
                 PROVE  Range(q[a].at) \cap Range(q[b].at) = {}
        BY <1>2, Zenon DEF Apart
    <2>1. Range(q[a].at) = {at[a]} /\ Range(q[b].at) = {at[b]} /\ at[a] # at[b]
        BY <1>1, <1>5, Zenon
    <2> QED BY <2>1, Zenon
<1> QED BY <1>4, <1>6, <1>7, Zenon DEF q

\* One job for all of some slots, if there are any.
LEMMA BatchIs ==
    ASSUME NEW T, NEW kind, NEW at \in Seq(Nat),
           at # <<>> => [kind |-> kind, at |-> at] \in T
    PROVE  /\ Batch(kind, at) \in Seq(T)
           /\ Left(Batch(kind, at)) = Range(at) /\ Apart(Batch(kind, at))
<1>1. CASE at = <<>>
    <2>1. Batch(kind, at) = <<>>
        BY <1>1 DEF Batch
    <2>2. Range(at) = {}
        BY <1>1 DEF Range
    <2>3. <<>> \in Seq(T) /\ Left(<<>>) = {} /\ Apart(<<>>)
        BY DEF Left, Apart
    <2> QED BY <2>1, <2>2, <2>3, Zenon
<1>2. CASE at # <<>>
    <2> DEFINE e == [kind |-> kind, at |-> at]
    <2>1. Batch(kind, at) = <<e>> /\ e \in T /\ e.at = at
        BY <1>2 DEF Batch
    <2> HIDE DEF e
    <2>2. <<e>> \in Seq(T) /\ DOMAIN <<e>> = {1} /\ <<e>>[1] = e
        BY <2>1
    <2>3. Left(<<e>>) = Range(e.at) /\ Apart(<<e>>)
        BY <2>2, Zenon DEF Left, Apart
    <2> QED BY <2>1, <2>2, <2>3, Zenon
<1> QED BY <1>1, <1>2, Zenon

\* The commands of a request stay accounted for when it becomes the second.
Carried(r, r2) ==
    \A j : IsCommand(j) /\ Follows(j, r) =>
        Follows(j, r2) /\ (Alive(j, r2) => Alive(j, r) /\ r2.targets = r.targets)

\* The first job of a list and the rest of them.
LEMMA LeftFirst ==
    ASSUME NEW T, NEW q \in Seq(T), q # <<>>
    PROVE  /\ q[1] \in T /\ Tail(q) \in Seq(T)
           /\ Left(q) = Range(q[1].at) \cup Left(Tail(q))
           /\ Apart(q) => Apart(Tail(q)) /\ Range(q[1].at) \cap Left(Tail(q)) = {}
<1> DEFINE n == Len(q)
           t == Tail(q)
<1>1. n \in Nat /\ n >= 1 /\ DOMAIN q = 1..n /\ q[1] \in T
    BY EmptySeq, LenProperties
<1>2. t \in Seq(T) /\ Len(t) = n - 1 /\ \A i \in 1..Len(t) : t[i] = q[i + 1]
    BY HeadTailProperties, Zenon
<1>3. DOMAIN t = 1..(n - 1)
    BY <1>2, LenProperties, Zenon
<1> HIDE DEF n, t
<1>4. \A i \in DOMAIN t : i + 1 \in DOMAIN q /\ t[i] = q[i + 1] /\ i + 1 # 1
    BY <1>1, <1>2, <1>3
<1>5. \A i \in DOMAIN q : i # 1 => i - 1 \in DOMAIN t /\ t[i - 1] = q[i]
    <2> SUFFICES ASSUME NEW i \in DOMAIN q, i # 1 PROVE i - 1 \in DOMAIN t /\ t[i - 1] = q[i]
        BY Zenon
    <2>1. i - 1 \in DOMAIN t /\ (i - 1) + 1 = i
        BY <1>1, <1>3
    <2>2. t[i - 1] = q[(i - 1) + 1]
        BY <2>1, <1>4, Zenon
    <2> QED BY <2>1, <2>2, Zenon
<1>6. Left(q) = Range(q[1].at) \cup Left(t)
    <2>1. ASSUME NEW x \in Left(q) PROVE x \in Range(q[1].at) \cup Left(t)
        <3>1. PICK i \in DOMAIN q : x \in Range(q[i].at)
            BY Zenon DEF Left
        <3> QED BY <3>1, <1>5, Zenon DEF Left
    <2>2. ASSUME NEW x \in Left(t) PROVE x \in Left(q)
        <3>1. PICK i \in DOMAIN t : x \in Range(t[i].at)
            BY Zenon DEF Left
        <3> QED BY <3>1, <1>4, Zenon DEF Left
    <2>3. ASSUME NEW x \in Range(q[1].at) PROVE x \in Left(q)
        <3>1. 1 \in DOMAIN q
            BY <1>1
        <3> QED BY <3>1, Zenon DEF Left
    <2> QED BY <2>1, <2>2, <2>3, Zenon
<1>7. ASSUME Apart(q) PROVE Apart(t) /\ Range(q[1].at) \cap Left(t) = {}
    <2>1. ASSUME NEW a \in DOMAIN t, NEW b \in DOMAIN t, a # b
          PROVE  Range(t[a].at) \cap Range(t[b].at) = {}
        <3>1. a + 1 # b + 1
            BY <2>1, <1>1, <1>3
        <3> QED BY <3>1, <1>4, <1>7, Zenon DEF Apart
    <2>2. ASSUME NEW a \in DOMAIN t PROVE Range(q[1].at) \cap Range(t[a].at) = {}
        <3>1. 1 \in DOMAIN q
            BY <1>1
        <3> QED BY <3>1, <1>4, <1>7, Zenon DEF Apart
    <2>3. Range(q[1].at) \cap Left(t) = {}
        BY <2>2, Zenon DEF Left
    <2> QED BY <2>1, <2>3, Zenon DEF Apart
<1> QED BY <1>1, <1>2, <1>6, <1>7, Zenon DEF t

\* The positions of a job are some.
LEMMA SomeAt ==
    ASSUME NEW at \in Seq(Nat), at # <<>>
    PROVE  Range(at) # {} /\ Range(at) \subseteq Nat
<1>1. 1 \in DOMAIN at /\ \A k \in DOMAIN at : at[k] \in Nat
    BY EmptySeq, LenProperties
<1> QED BY <1>1, Zenon DEF Range

\* Going on to the next job.
LEMMA NextJobIs ==
    ASSUME NEW r, IsCall(r), r.todo # <<>>, NEW slots, DOMAIN slots = DOMAIN r.slots,
           r.phase # "done"
    PROVE  LET r2 == NextJob(r, slots)
           IN  /\ IsCall(r2) /\ Carried(r, r2)
               /\ r2.n = r.n /\ r2.kind = r.kind /\ r2.targets = r.targets /\ r2.slots = slots
               /\ r2.phase = "serving" /\ r2.todo = Tail(r.todo) /\ r2.reply = <<>>
               /\ Left(r.todo) = Range(r.todo[1].at) \cup Left(r2.todo)
<1> DEFINE r2 == NextJob(r, slots)
<1>1. /\ r2.n = r.n /\ r2.kind = r.kind /\ r2.targets = r.targets /\ r2.slots = slots
      /\ r2.phase = "serving" /\ r2.todo = Tail(r.todo) /\ r2.reply = <<>>
      /\ r2 = [n |-> r2.n, kind |-> r2.kind, targets |-> r2.targets, slots |-> r2.slots,
               todo |-> r2.todo, reply |-> r2.reply, phase |-> r2.phase]
    BY DEF NextJob
<1> HIDE DEF r2
<1>2. Tasks(r2) = Tasks(r)
    BY <1>1, Zenon DEF Tasks
<1>3. /\ r.n \in Nat /\ r.todo \in Seq(Tasks(r)) /\ Apart(r.todo)
    BY Zenon DEF IsCall
<1>4. /\ r.todo[1] \in Tasks(r) /\ r2.todo \in Seq(Tasks(r))
      /\ Left(r.todo) = Range(r.todo[1].at) \cup Left(r2.todo)
      /\ Apart(r2.todo) /\ Range(r.todo[1].at) \cap Left(r2.todo) = {}
    <2> DEFINE T == Tasks(r)
               q == r.todo
    <2>1. q \in Seq(T) /\ q # <<>> /\ Apart(q)
        BY <1>3
    <2> HIDE DEF T, q
    <2>2. /\ q[1] \in T /\ Tail(q) \in Seq(T)
          /\ Left(q) = Range(q[1].at) \cup Left(Tail(q))
          /\ Apart(Tail(q)) /\ Range(q[1].at) \cap Left(Tail(q)) = {}
        BY <2>1, LeftFirst, Zenon
    <2> QED BY <1>1, <2>2, Zenon DEF T, q
<1>5. IsCall(r2)
    <2>1. r2.phase \in {"done", "serving", "waiting", "replied"}
          /\ r2.phase \notin {"waiting", "replied"}
        BY <1>1
    <2> QED BY <1>1, <1>2, <1>3, <1>4, <2>1, Zenon DEF IsCall
<1>6. Carried(r, r2)
    <2> SUFFICES ASSUME NEW j, IsCommand(j), Follows(j, r)
                 PROVE  Follows(j, r2) /\ (Alive(j, r2) => Alive(j, r) /\ r2.targets = r.targets)
        BY Zenon DEF Carried
    <2>1. Alive(j, r2) => Alive(j, r)
        BY <1>1, Zenon DEF Alive
    <2>2. Accounted(j, r) => Range(j.at) \cap Left(r2.todo) = {}
        BY <1>4, Zenon DEF Accounted
    <2> QED BY <1>1, <2>1, <2>2, Zenon DEF Follows, Accounted
<1> QED BY <1>1, <1>4, <1>5, <1>6, Zenon DEF r2

\* A phase of the job at hand follows another one.
LEMMA PhaseCarries ==
    ASSUME NEW r, NEW r2, r.phase # "done",
           r2.n = r.n, r2.targets = r.targets, r2.todo = r.todo,
           r2.phase \in {"waiting", "replied"}
    PROVE  Carried(r, r2)
<1> SUFFICES ASSUME NEW j, IsCommand(j), Follows(j, r)
             PROVE  Follows(j, r2) /\ (Alive(j, r2) => Alive(j, r) /\ r2.targets = r.targets)
    BY Zenon DEF Carried
<1>1. Alive(j, r2) => Alive(j, r)
    BY Zenon DEF Alive
<1>2. Accounted(j, r) => Accounted(j, r2)
    BY Zenon DEF Accounted
<1> QED BY <1>1, <1>2, Zenon DEF Follows

\* A request that is over, or a later one, has no commands.
LEMMA LaterCarries ==
    ASSUME NEW r, NEW r2, r.n \in Nat, r2.n \in Nat,
           r2.n > r.n \/ (r2.n = r.n /\ r2.phase = "done")
    PROVE  Carried(r, r2)
<1> SUFFICES ASSUME NEW j, IsCommand(j), Follows(j, r)
             PROVE  Follows(j, r2) /\ (Alive(j, r2) => Alive(j, r) /\ r2.targets = r.targets)
    BY Zenon DEF Carried
<1>1. j.n \in Nat /\ j.n <= r.n
    BY Zenon DEF IsCommand, Follows
<1>2. j.n <= r2.n /\ ~Alive(j, r2)
    BY <1>1 DEF Alive
<1> QED BY <1>2, Zenon DEF Follows

\* What is true of a request stays true when the source takes writes and items
\* get values, and when the writes of others are forgotten.
LEMMA TrueStays ==
    ASSUME NEW W, NEW W2, NEW S, NEW S2, NEW t, NEW r,
           \A w \in W : w.slot[1] = t => w \in W2, S \subseteq S2
    PROVE  /\ SlotsHold(W, S, t, r) => SlotsHold(W2, S2, t, r)
           /\ ReplyHolds(W, S, t, r) => ReplyHolds(W2, S2, t, r)
<1>1. \A k : Wrote(W, t, r, k) => Wrote(W2, t, r, k)
    <2> SUFFICES ASSUME NEW k, Wrote(W, t, r, k) PROVE Wrote(W2, t, r, k)
        BY Zenon
    <2>1. PICK w \in W : w.slot = <<t, r.n, k>> /\ w.item = r.targets[k].node
        BY Zenon DEF Wrote
    <2>2. <<t, r.n, k>>[1] = t
        OBVIOUS
    <2>3. w.slot[1] = t
        BY <2>1, <2>2, Zenon
    <2> QED BY <2>1, <2>3, Zenon DEF Wrote
<1>2. \A k, s : Stored(W, t, r, k, s) => Stored(W2, t, r, k, s)
    BY <1>1, Zenon DEF Stored
<1>3. \A k, s : Recent(S, r, k, s) => Recent(S2, r, k, s)
    BY Zenon DEF Recent
<1>4. SlotsHold(W, S, t, r) => SlotsHold(W2, S2, t, r)
    BY <1>2, <1>3, Zenon DEF SlotsHold
<1>5. ReplyHolds(W, S, t, r) => ReplyHolds(W2, S2, t, r)
    BY <1>2, <1>3, Zenon DEF ReplyHolds
<1> QED BY <1>4, <1>5, Zenon

\* A step that changes one request, and may forget its writes and its values.
LEMMA OneCall ==
    ASSUME CallsHold, NEW c \in Callers, NEW r2, call' = [call EXCEPT ![c] = r2],
           IsCall(r2), SlotsHold(written', standing'[c], c, r2),
           ReplyHolds(written', standing'[c], c, r2), Carried(call[c], r2),
           \A w \in written : w.slot[1] # c => w \in written',
           \A t \in Callers : t # c => standing[t] \subseteq standing'[t]
    PROVE  /\ CallsHold'
           /\ \A t \in Callers : Carried(call[t], call'[t])
           /\ call'[c] = r2 /\ \A t \in Callers : t # c => call'[t] = call[t]
<1>1. DOMAIN call = Callers
    BY Zenon DEF CallsHold
<1>2. /\ DOMAIN call' = Callers /\ call'[c] = r2
      /\ \A t \in Callers : t # c => call'[t] = call[t]
    BY <1>1
<1>3. ASSUME NEW t \in Callers
      PROVE  /\ IsCall(call'[t])
             /\ SlotsHold(written', standing'[t], t, call'[t])
             /\ ReplyHolds(written', standing'[t], t, call'[t])
    <2>1. CASE t = c
        BY <1>2, <2>1, Zenon
    <2>2. CASE t # c
        <3> DEFINE r == call[t]
        <3>1. /\ IsCall(r) /\ SlotsHold(written, standing[t], t, r)
              /\ ReplyHolds(written, standing[t], t, r) /\ call'[t] = r
            BY <1>2, <2>2, Zenon DEF CallsHold
        <3>2. \A w \in written : w.slot[1] = t => w \in written'
            BY <2>2, Zenon
        <3>3. standing[t] \subseteq standing'[t]
            BY <2>2, Zenon
        <3> HIDE DEF r
        <3>4. SlotsHold(written', standing'[t], t, r) /\ ReplyHolds(written', standing'[t], t, r)
            BY <3>1, <3>2, <3>3, TrueStays, Zenon
        <3> QED BY <3>1, <3>4, Zenon
    <2> QED BY <2>1, <2>2, Zenon
<1>4. ASSUME NEW t \in Callers PROVE Carried(call[t], call'[t])
    <2>1. CASE t = c
        BY <1>2, <2>1, Zenon
    <2>2. CASE t # c
        BY <1>2, <2>2, Zenon DEF Carried
    <2> QED BY <2>1, <2>2, Zenon
<1> QED BY <1>2, <1>3, <1>4, Zenon DEF CallsHold

\* Commands and the job that are left alone stay known.
LEMMA CommandsStay ==
    ASSUME CommandsKnown, \A t \in Callers : Carried(call[t], call'[t]), commands' = commands
    PROVE  CommandsKnown'
<1> SUFFICES ASSUME NEW a \in DOMAIN commands
             PROVE  IsCommand(commands[a]) /\ Follows(commands[a], call'[commands[a].caller])
    BY Zenon DEF CommandsKnown, IsCommand
<1> DEFINE j == commands[a]
<1>1. IsCommand(j) /\ Follows(j, call[j.caller])
    BY Zenon DEF CommandsKnown
<1> HIDE DEF j
<1>2. j.caller \in Callers
    BY <1>1, Zenon DEF IsCommand
<1>3. IsCommand(j) /\ Follows(j, call'[j.caller])
    BY <1>1, <1>2, Zenon DEF Carried
<1> QED BY <1>3, Zenon DEF j

\* The job of the DA thread, too.
LEMMA JobStays ==
    ASSUME JobKnown, \A t \in Callers : Carried(call[t], call'[t]), job' = job, group' = group
    PROVE  JobKnown'
<1> SUFFICES ASSUME job # NoJob
             PROVE  /\ IsJob(job)' /\ Resolved(job)' /\ Follows(job, call[job.caller])'
                    /\ Alive(job, call[job.caller])' => job'.targets = call'[job'.caller].targets
    BY Zenon DEF JobKnown, NoJob
<1>1. /\ IsJob(job) /\ Resolved(job) /\ Follows(job, call[job.caller])
      /\ Alive(job, call[job.caller]) => job.targets = call[job.caller].targets
    BY Zenon DEF JobKnown
<1>2. IsCommand(job) /\ job.caller \in Callers
    BY <1>1, Zenon DEF IsJob, IsCommand
<1>3. /\ Follows(job, call'[job.caller])
      /\ Alive(job, call'[job.caller]) =>
             Alive(job, call[job.caller]) /\ call'[job.caller].targets = call[job.caller].targets
    BY <1>1, <1>2, Zenon DEF Carried
<1>4. IsJob(job)' /\ Resolved(job)'
    BY <1>1, Zenon DEF IsJob, IsCommand, Resolved, HandleNames
<1>5. Follows(job, call[job.caller])'
    BY <1>3, Zenon DEF Follows, Alive, Accounted, Left
<1>6. Alive(job, call[job.caller])' => job'.targets = call'[job'.caller].targets
    BY <1>1, <1>3, Zenon DEF Alive
<1> QED BY <1>4, <1>5, <1>6, Zenon

\* A slot that carries a status carries no value.
LEMMA StatusIs == \A x : Status(x).status = x /\ "value" \notin DOMAIN Status(x)
BY DEF Status

\* A request that begins.
LEMMA OpenKeeps ==
    ASSUME AccessInv, NEW c \in Callers, NEW kind \in {"read", "write"}, NEW targets,
           NEW verdicts, NEW todo, Open(c, kind, targets, verdicts, todo),
           NEW T, todo \in Seq(T), Apart(todo),
           \A e \in T : /\ e \in [kind : JobKinds, at : Seq(Nat)] /\ e.at # <<>>
                        /\ Range(e.at) \subseteq DOMAIN verdicts
                        /\ e.kind \in {"read", "write"} =>
                              \A k \in Range(e.at) : targets[k].node \in ItemIDs
                        /\ e.kind = "write" <=> kind = "write",
           kind = "write" => \A k \in DOMAIN verdicts :
               /\ verdicts[k] \notin {"property", "description", "local", "Good"}
               /\ verdicts[k] = "batch" => k \in Left(todo)
    PROVE  AccessInv'
<1> DEFINE st(k) == Status(IF verdicts[k] \in {"batch", "property", "description", "local"}
                           THEN "Good" ELSE verdicts[k])
           r2 == [n |-> call[c].n + 1, kind |-> kind, targets |-> targets, todo |-> todo,
                  reply |-> <<>>, phase |-> "serving",
                  slots |-> [k \in DOMAIN verdicts |-> st(k)]]
           S == {<<i, value[i]>> : i \in ItemIDs}
<1>1. /\ call[c].phase = "done" /\ call' = [call EXCEPT ![c] = r2]
      /\ standing' = [standing EXCEPT ![c] = S]
      /\ UNCHANGED <<commands, job, cache, link, group, value, learned, written>>
    BY Zenon DEF Open
<1>2. /\ r2.n = call[c].n + 1 /\ r2.kind = kind /\ r2.targets = targets /\ r2.todo = todo
      /\ r2.reply = <<>> /\ r2.phase = "serving" /\ r2.slots = [k \in DOMAIN verdicts |-> st(k)]
      /\ r2 = [n |-> r2.n, kind |-> r2.kind, targets |-> r2.targets, slots |-> r2.slots,
               todo |-> r2.todo, reply |-> r2.reply, phase |-> r2.phase]
    OBVIOUS
<1> HIDE DEF r2, S, st
<1>3. DOMAIN r2.slots = DOMAIN verdicts /\ \A k \in DOMAIN verdicts : r2.slots[k] = st(k)
    BY <1>2, Zenon
<1>4. call[c].n \in Nat
    BY Zenon DEF AccessInv, CallsHold, IsCall
<1>5. r2.n \in Nat /\ r2.n > call[c].n
    BY <1>2, <1>4
<1>6. IsCall(r2)
    <2>1. \A e \in T : e \in Tasks(r2)
        BY <1>2, <1>3, Zenon DEF Tasks
    <2>2. todo \in Seq(Tasks(r2))
        BY <2>1, SeqMonotonic, Zenon
    <2>3. r2.phase \in {"done", "serving", "waiting", "replied"}
          /\ r2.phase \notin {"waiting", "replied"}
        BY <1>2
    <2> QED BY <1>2, <1>5, <2>2, <2>3, Zenon DEF IsCall
<1>7. SlotsHold(written', standing'[c], c, r2)
    <2> SUFFICES ASSUME NEW k \in DOMAIN verdicts
                 PROVE  /\ Recent(standing'[c], r2, k, st(k))
                        /\ k \notin Left(todo) => Stored(written', c, r2, k, st(k))
        BY <1>2, <1>3, Zenon DEF SlotsHold
    <2>1. "value" \notin DOMAIN st(k)
        BY StatusIs, Zenon DEF st
    <2>2. ASSUME kind = "write", k \notin Left(todo) PROVE st(k).status # "Good"
        <3>1. verdicts[k] \notin {"batch", "property", "description", "local"}
              /\ verdicts[k] # "Good"
            BY <2>2
        <3>2. st(k) = Status(verdicts[k])
            BY <3>1, Zenon DEF st
        <3> QED BY <3>1, <3>2, StatusIs, Zenon
    <2> QED BY <2>1, <2>2, <1>2, Zenon DEF Recent, Stored
<1>8. ReplyHolds(written', standing'[c], c, r2)
    BY <1>2 DEF ReplyHolds
<1>9. Carried(call[c], r2)
    BY <1>4, <1>5, LaterCarries, Zenon
<1>10. /\ DOMAIN standing' = Callers /\ standing'[c] = S
       /\ \A t \in Callers : t # c => standing'[t] = standing[t]
    BY <1>1 DEF AccessInv, StandingKept
<1>11. /\ CallsHold'
       /\ \A t \in Callers : Carried(call[t], call'[t])
       /\ call'[c] = r2 /\ \A t \in Callers : t # c => call'[t] = call[t]
    <2>1. /\ \A w \in written : w.slot[1] # c => w \in written'
          /\ \A t \in Callers : t # c => standing[t] \subseteq standing'[t]
        BY <1>1, <1>10, Zenon
    <2>2. CallsHold
        BY Zenon DEF AccessInv
    <2> QED BY <1>1, <1>6, <1>7, <1>8, <1>9, <2>1, <2>2, OneCall, Zenon
<1>12. CommandsKnown'
    BY <1>1, <1>11, CommandsStay, Zenon DEF AccessInv
<1>13. JobKnown'
    BY <1>1, <1>11, JobStays, Zenon DEF AccessInv
<1>14. GroupKept'
    BY <1>1, Zenon DEF AccessInv, GroupKept, HandleNames
<1>15. StandingKept'
    <2>1. \A i \in ItemIDs : <<i, value[i]>> \in S
        BY Zenon DEF S
    <2> QED BY <1>1, <1>10, <1>11, <2>1, Zenon DEF AccessInv, StandingKept
<1> QED BY <1>11, <1>12, <1>13, <1>14, <1>15, Zenon DEF AccessInv

\* Only items are read from or written to the source, and every slot of a Write
\* is refused or waits for the batch.
LEMMA VerdictsAre ==
    ASSUME NEW t
    PROVE  /\ ReadVerdict(t) = "batch" => t.kind = "item"
           /\ WriteVerdict(t) = "batch" => t.kind \in {"item", "propertyItem"}
           /\ WriteVerdict(t) \notin {"property", "description", "local", "Good"}
<1>1. ReadVerdict(t) = "batch" => t.kind = "item"
    BY DEF ReadVerdict
<1>2. WriteVerdict(t) = "batch" => t.kind \in {"item", "propertyItem"}
    BY DEF WriteVerdict
<1>3. WriteVerdict(t) \in {"Bad_WriteNotSupported", "Bad_NodeIdUnknown", "Bad_NotWritable",
                           "Bad_AttributeIdInvalid", "Bad_TypeMismatch", "batch"}
    BY DEF WriteVerdict
<1>4. WriteVerdict(t) \notin {"property", "description", "local", "Good"}
    BY <1>3
<1> QED BY <1>1, <1>2, <1>4, Zenon

\* A Read request begins.
LEMMA ReadKeeps ==
    ASSUME AccessInv, NEW c \in Callers, NEW targets \in ReadRequests, Read(c, targets)
    PROVE  AccessInv'
<1> DEFINE verdicts == [k \in DOMAIN targets |-> ReadVerdict(targets[k])]
           n == Len(targets)
           D == Where(verdicts, "description")
           B == Where(verdicts, "batch")
           P == Where(verdicts, "property")
           d == EachAlone("description", D)
           b == Batch("read", B)
           p == EachAlone("property", P)
           todo == d \o b \o p
           T == {e \in [kind : JobKinds, at : Seq(Nat)] :
                    /\ e.at # <<>> /\ Range(e.at) \subseteq DOMAIN verdicts
                    /\ e.kind \in {"read", "write"} =>
                           \A k \in Range(e.at) : targets[k].node \in ItemIDs
                    /\ e.kind = "write" <=> "read" = "write"}
<1>1. targets \in Seq(Range(targets))
      /\ \A k \in DOMAIN targets : targets[k].kind = "item" => targets[k].node \in ItemIDs
    BY DataAccessAssumption
<1>2. n \in Nat /\ DOMAIN targets = 1..n
    BY <1>1, LenProperties, Zenon
<1>3. DOMAIN verdicts = 1..n /\ \A k \in DOMAIN verdicts : verdicts[k] = ReadVerdict(targets[k])
    BY <1>2
<1>4. Open(c, "read", targets, verdicts, todo)
    BY Zenon DEF Read
<1> HIDE DEF verdicts, n
<1>5. \A v : /\ Where(verdicts, v) \in Seq(Nat)
             /\ Range(Where(verdicts, v)) = {k \in DOMAIN verdicts : verdicts[k] = v}
             /\ \A i, j \in DOMAIN Where(verdicts, v) :
                    i # j => Where(verdicts, v)[i] # Where(verdicts, v)[j]
    BY <1>2, <1>3, WhereIs
<1>6. /\ D \in Seq(Nat) /\ Range(D) = {k \in DOMAIN verdicts : verdicts[k] = "description"}
      /\ B \in Seq(Nat) /\ Range(B) = {k \in DOMAIN verdicts : verdicts[k] = "batch"}
      /\ P \in Seq(Nat) /\ Range(P) = {k \in DOMAIN verdicts : verdicts[k] = "property"}
      /\ \A i, j \in DOMAIN D : i # j => D[i] # D[j]
      /\ \A i, j \in DOMAIN P : i # j => P[i] # P[j]
    BY <1>5, Zenon
<1> HIDE DEF D, B, P
<1>7. ASSUME NEW kind \in {"description", "property"}, NEW k \in DOMAIN verdicts
      PROVE  [kind |-> kind, at |-> <<k>>] \in T
    <2>1. k \in Nat
        BY <1>3, <1>2
    <2>2. <<k>> \in Seq(Nat) /\ <<k>> # <<>> /\ Range(<<k>>) = {k}
        BY <2>1 DEF Range
    <2>3. kind \in JobKinds /\ kind \notin {"read", "write"}
        BY DEF JobKinds
    <2> QED BY <2>2, <2>3
<1>8. B # <<>> => [kind |-> "read", at |-> B] \in T
    <2>1. \A k \in Range(B) : k \in DOMAIN verdicts /\ targets[k].node \in ItemIDs
        BY <1>1, <1>2, <1>3, <1>6, VerdictsAre, Zenon
    <2>2. "read" \in JobKinds
        BY DEF JobKinds
    <2> QED BY <2>1, <2>2, <1>6
<1>9. /\ d \in Seq(T) /\ Left(d) = Range(D) /\ Apart(d)
    <2>1. \A k \in Range(D) : [kind |-> "description", at |-> <<k>>] \in T
        BY <1>6, <1>7, Zenon
    <2>2. D \in Seq(Nat) /\ \A i, j \in DOMAIN D : i # j => D[i] # D[j]
        BY <1>6, Zenon
    <2> HIDE DEF T
    <2> QED BY <2>1, <2>2, EachAloneIs
<1>10. /\ p \in Seq(T) /\ Left(p) = Range(P) /\ Apart(p)
    <2>1. \A k \in Range(P) : [kind |-> "property", at |-> <<k>>] \in T
        BY <1>6, <1>7, Zenon
    <2>2. P \in Seq(Nat) /\ \A i, j \in DOMAIN P : i # j => P[i] # P[j]
        BY <1>6, Zenon
    <2> HIDE DEF T
    <2> QED BY <2>1, <2>2, EachAloneIs
<1>11. /\ b \in Seq(T) /\ Left(b) = Range(B) /\ Apart(b)
    <2>1. B \in Seq(Nat)
        BY <1>6, Zenon
    <2> HIDE DEF T
    <2> QED BY <2>1, <1>8, BatchIs
<1>12. \A e \in T : /\ e \in [kind : JobKinds, at : Seq(Nat)] /\ e.at # <<>>
                    /\ Range(e.at) \subseteq DOMAIN verdicts
                    /\ e.kind \in {"read", "write"} =>
                          \A k \in Range(e.at) : targets[k].node \in ItemIDs
                    /\ e.kind = "write" <=> "read" = "write"
    BY Zenon
<1> HIDE DEF T, d, b, p
<1>13. d \o b \in Seq(T) /\ Apart(d \o b) /\ Left(d \o b) = Left(d) \cup Left(b)
    <2>1. Left(d) \cap Left(b) = {}
        BY <1>6, <1>9, <1>11
    <2> QED BY <2>1, <1>9, <1>11, LeftJoined
<1>14. todo \in Seq(T) /\ Apart(todo)
    <2>1. Left(d \o b) \cap Left(p) = {}
        BY <1>6, <1>9, <1>10, <1>11, <1>13
    <2> DEFINE db == d \o b
    <2>2. db \in Seq(T) /\ Apart(db) /\ Left(db) \cap Left(p) = {}
        BY <1>13, <2>1
    <2> HIDE DEF db
    <2>3. db \o p \in Seq(T) /\ Apart(db \o p)
        BY <2>2, <1>10, LeftJoined
    <2> QED BY <2>3 DEF db
<1> HIDE DEF todo
<1>15. /\ "read" \in {"read", "write"}
       /\ "read" = "write" => \A k \in DOMAIN verdicts :
              /\ verdicts[k] \notin {"property", "description", "local", "Good"}
              /\ verdicts[k] = "batch" => k \in Left(todo)
    OBVIOUS
<1> QED BY <1>4, <1>12, <1>14, <1>15, OpenKeeps

\* A Write request begins.
LEMMA WriteKeeps ==
    ASSUME AccessInv, NEW c \in Callers, NEW targets \in WriteRequests, Write(c, targets)
    PROVE  AccessInv'
<1> DEFINE verdicts == [k \in DOMAIN targets |-> WriteVerdict(targets[k])]
           n == Len(targets)
           B == Where(verdicts, "batch")
           todo == Batch("write", B)
           T == {e \in [kind : JobKinds, at : Seq(Nat)] :
                    /\ e.at # <<>> /\ Range(e.at) \subseteq DOMAIN verdicts
                    /\ e.kind \in {"read", "write"} =>
                           \A k \in Range(e.at) : targets[k].node \in ItemIDs
                    /\ e.kind = "write" <=> "write" = "write"}
<1>1. /\ targets \in Seq(Range(targets))
      /\ \A k \in DOMAIN targets :
            targets[k].kind \in {"item", "propertyItem"} => targets[k].node \in ItemIDs
    BY DataAccessAssumption
<1>2. n \in Nat /\ DOMAIN targets = 1..n
    BY <1>1, LenProperties, Zenon
<1>3. DOMAIN verdicts = 1..n /\ \A k \in DOMAIN verdicts : verdicts[k] = WriteVerdict(targets[k])
    BY <1>2
<1>4. Open(c, "write", targets, verdicts, todo)
    BY Zenon DEF Write
<1> HIDE DEF verdicts, n
<1>5. B \in Seq(Nat) /\ Range(B) = {k \in DOMAIN verdicts : verdicts[k] = "batch"}
    BY <1>2, <1>3, WhereIs
<1> HIDE DEF B
<1>6. B # <<>> => [kind |-> "write", at |-> B] \in T
    <2>1. \A k \in Range(B) : k \in DOMAIN verdicts /\ targets[k].node \in ItemIDs
        BY <1>1, <1>2, <1>3, <1>5, VerdictsAre, Zenon
    <2>2. "write" \in JobKinds
        BY DEF JobKinds
    <2> QED BY <2>1, <2>2, <1>5
<1>7. \A e \in T : /\ e \in [kind : JobKinds, at : Seq(Nat)] /\ e.at # <<>>
                   /\ Range(e.at) \subseteq DOMAIN verdicts
                   /\ e.kind \in {"read", "write"} =>
                         \A k \in Range(e.at) : targets[k].node \in ItemIDs
                   /\ e.kind = "write" <=> "write" = "write"
    BY Zenon
<1> HIDE DEF T
<1>8. todo \in Seq(T) /\ Left(todo) = Range(B) /\ Apart(todo)
    BY <1>5, <1>6, BatchIs
<1> HIDE DEF todo
<1>9. \A k \in DOMAIN verdicts :
          /\ verdicts[k] \notin {"property", "description", "local", "Good"}
          /\ verdicts[k] = "batch" => k \in Left(todo)
    BY <1>3, <1>5, <1>8, VerdictsAre, Zenon
<1>10. "write" \in {"read", "write"}
    OBVIOUS
<1> QED BY <1>4, <1>7, <1>8, <1>9, <1>10, OpenKeeps

\* A step of one request, while the source and the DA thread stand still.
LEMMA CallStep ==
    ASSUME AccessInv, NEW c \in Callers, NEW r2, call' = [call EXCEPT ![c] = r2],
           call[c].phase # "done", IsCall(r2), Carried(call[c], r2),
           SlotsHold(written, standing[c], c, r2), ReplyHolds(written, standing[c], c, r2),
           UNCHANGED <<job, cache, link, group, value, standing, written>>
    PROVE  /\ CallsHold' /\ JobKnown' /\ GroupKept' /\ StandingKept'
           /\ \A t \in Callers : Carried(call[t], call'[t])
           /\ call'[c] = r2 /\ \A t \in Callers : t # c => call'[t] = call[t]
           /\ commands' = commands => AccessInv'
<1>1. /\ job' = job /\ cache' = cache /\ group' = group /\ value' = value
      /\ standing' = standing /\ written' = written
    OBVIOUS
<1>2. CallsHold /\ CommandsKnown /\ JobKnown /\ GroupKept /\ StandingKept
    BY Zenon DEF AccessInv
<1>3. SlotsHold(written', standing'[c], c, r2) /\ ReplyHolds(written', standing'[c], c, r2)
    BY <1>1, Zenon
<1>4. /\ CallsHold'
      /\ \A t \in Callers : Carried(call[t], call'[t])
      /\ call'[c] = r2 /\ \A t \in Callers : t # c => call'[t] = call[t]
    <2>1. /\ \A w \in written : w.slot[1] # c => w \in written'
          /\ \A t \in Callers : t # c => standing[t] \subseteq standing'[t]
        BY <1>1, Zenon
    <2> QED BY <1>2, <1>3, <2>1, OneCall, Zenon
<1>5. JobKnown'
    BY <1>1, <1>2, <1>4, JobStays, Zenon
<1>6. GroupKept'
    BY <1>1, <1>2, Zenon DEF GroupKept, HandleNames
<1>7. StandingKept'
    <2> SUFFICES ASSUME NEW t \in Callers, call'[t].phase # "done", NEW i \in ItemIDs
                 PROVE  <<i, value[i]>> \in standing[t]
        BY <1>1, <1>2, Zenon DEF StandingKept
    <2>1. call[t].phase # "done"
        BY <1>4, Zenon
    <2> QED BY <1>2, <2>1, Zenon DEF StandingKept
<1>8. commands' = commands => CommandsKnown'
    BY <1>2, <1>4, CommandsStay, Zenon
<1> QED BY <1>4, <1>5, <1>6, <1>7, <1>8, Zenon DEF AccessInv

\* What holds of a request that is being answered.
LEMMA CallIs ==
    ASSUME AccessInv, NEW c \in Callers
    PROVE  /\ IsCall(call[c]) /\ SlotsHold(written, standing[c], c, call[c])
           /\ ReplyHolds(written, standing[c], c, call[c])
BY Zenon DEF AccessInv, CallsHold

\* The job at hand is settled, with slots that are true.
LEMMA SettleKeeps ==
    ASSUME AccessInv, NEW c \in Callers, call[c].phase # "done", call[c].todo # <<>>,
           NEW slots, DOMAIN slots = DOMAIN call[c].slots,
           \A k \in DOMAIN slots :
               \/ slots[k] = call[c].slots[k] /\ k \notin Range(call[c].todo[1].at)
               \/ /\ Recent(standing[c], call[c], k, slots[k])
                  /\ Stored(written, c, call[c], k, slots[k]),
           call' = [call EXCEPT ![c] = NextJob(call[c], slots)],
           UNCHANGED <<commands, job, cache, link, group, value, standing, written>>
    PROVE  AccessInv'
<1> DEFINE r == call[c]
           r2 == NextJob(r, slots)
           W == written
           S == standing[c]
<1>1. IsCall(r) /\ SlotsHold(W, S, c, r)
    BY CallIs, Zenon
<1>2. /\ IsCall(r2) /\ Carried(r, r2)
      /\ r2.n = r.n /\ r2.kind = r.kind /\ r2.targets = r.targets /\ r2.slots = slots
      /\ r2.phase = "serving" /\ r2.todo = Tail(r.todo) /\ r2.reply = <<>>
      /\ Left(r.todo) = Range(r.todo[1].at) \cup Left(r2.todo)
    BY <1>1, NextJobIs, Zenon
<1>3. /\ call[c].phase # "done" /\ call' = [call EXCEPT ![c] = r2]
      /\ \A k \in DOMAIN slots :
            \/ slots[k] = r.slots[k] /\ k \notin Range(r.todo[1].at)
            \/ Recent(S, r, k, slots[k]) /\ Stored(W, c, r, k, slots[k])
    BY Zenon
<1>4. r.phase # "done" /\ DOMAIN slots = DOMAIN r.slots
    OBVIOUS
<1>5. UNCHANGED <<commands, job, cache, link, group, value, standing, written>>
    OBVIOUS
<1> HIDE DEF r, r2
<1>6. SlotsHold(W, S, c, r2)
    <2> SUFFICES ASSUME NEW k \in DOMAIN slots
                 PROVE  /\ Recent(S, r2, k, slots[k])
                        /\ k \notin Left(r2.todo) => Stored(W, c, r2, k, slots[k])
        BY <1>2, Zenon DEF SlotsHold
    <2>1. /\ Recent(S, r, k, slots[k])
          /\ k \notin Left(r2.todo) => Stored(W, c, r, k, slots[k])
        BY <1>1, <1>2, <1>3, <1>4, Zenon DEF SlotsHold
    <2> QED BY <1>2, <2>1, Zenon DEF Recent, Stored, Wrote
<1>7. ReplyHolds(W, S, c, r2)
    BY <1>2 DEF ReplyHolds
<1>8. Carried(call[c], r2)
    BY <1>2 DEF r
<1> QED BY <1>2, <1>3, <1>5, <1>6, <1>7, <1>8, CallStep, Zenon

\* Every slot of the job at hand gets a bad status.
LEMMA FailJobKeeps ==
    ASSUME AccessInv, NEW c \in Callers, call[c].phase # "done", call[c].todo # <<>>,
           NEW s, s # "Good", FailJob(c, s),
           UNCHANGED <<commands, job, cache, link, group, value, standing, written>>
    PROVE  AccessInv'
<1> DEFINE slots == [k \in DOMAIN call[c].slots |->
                IF k \in Range(call[c].todo[1].at) THEN Status(s) ELSE call[c].slots[k]]
<1>1. call' = [call EXCEPT ![c] = NextJob(call[c], slots)]
    BY Zenon DEF FailJob
<1>2. DOMAIN slots = DOMAIN call[c].slots
      /\ \A k \in DOMAIN slots :
            \/ slots[k] = call[c].slots[k] /\ k \notin Range(call[c].todo[1].at)
            \/ slots[k] = Status(s)
    OBVIOUS
<1> HIDE DEF slots
<1>3. \A k : /\ Recent(standing[c], call[c], k, Status(s))
             /\ Stored(written, c, call[c], k, Status(s))
    BY StatusIs, Zenon DEF Recent, Stored
<1>4. \A k \in DOMAIN slots :
            \/ slots[k] = call[c].slots[k] /\ k \notin Range(call[c].todo[1].at)
            \/ /\ Recent(standing[c], call[c], k, slots[k])
               /\ Stored(written, c, call[c], k, slots[k])
    BY <1>2, <1>3, Zenon
<1> QED BY <1>1, <1>2, <1>4, SettleKeeps, Zenon

\* The runtime refuses a command.
LEMMA RefuseKeeps == ASSUME AccessInv, NEW c \in Callers, Refuse(c) PROVE AccessInv'
<1>1. "serving" # "done" /\ "Bad_TooManyOperations" # "Good"
    OBVIOUS
<1>2. /\ call[c].phase = "serving" /\ call[c].todo # <<>> /\ FailJob(c, "Bad_TooManyOperations")
      /\ UNCHANGED <<commands, job, cache, link, group, value, standing, written>>
    BY Zenon DEF Refuse
<1> QED BY <1>1, <1>2, FailJobKeeps, Zenon

\* A caller gives a batch up.
LEMMA TimeOutKeeps == ASSUME AccessInv, NEW c \in Callers, TimeOut(c) PROVE AccessInv'
<1>1. call[c].phase \in {"waiting", "replied"} /\ FailJob(c, "Bad_Timeout")
      /\ UNCHANGED <<commands, job, cache, link, group, value, standing, written>>
    BY Zenon DEF TimeOut
<1>2. call[c].phase # "done" /\ "Bad_Timeout" # "Good"
    BY <1>1
<1>3. call[c].todo # <<>>
    BY <1>1, CallIs, Zenon DEF IsCall
<1> QED BY <1>1, <1>2, <1>3, FailJobKeeps, Zenon

\* A caller gets the reply to its job at hand.
LEMMA ReceiveKeeps == ASSUME AccessInv, NEW c \in Callers, Receive(c) PROVE AccessInv'
<1> DEFINE reply == call[c].reply
<1>1. /\ call[c].phase = "replied" /\ call[c].phase # "done"
      /\ UNCHANGED <<commands, job, cache, link, group, value, standing, written>>
    BY DEF Receive
<1>2. call[c].todo # <<>>
    BY <1>1, CallIs DEF IsCall
<1>3. CASE reply = <<>>
    <2>1. FailJob(c, "Bad_Source") /\ "Bad_Source" # "Good"
        BY <1>3 DEF Receive
    <2> QED BY <1>1, <1>2, <2>1, FailJobKeeps, Zenon
<1>4. CASE reply # <<>>
    <2> DEFINE slots == [k \in DOMAIN call[c].slots |->
                          IF k \in DOMAIN reply THEN SlotFor(reply[k]) ELSE call[c].slots[k]]
    <2>1. call' = [call EXCEPT ![c] = NextJob(call[c], slots)]
        BY <1>4, Zenon DEF Receive
    <2>2. /\ DOMAIN reply = Range(call[c].todo[1].at)
          /\ \A k \in DOMAIN reply :
                /\ Recent(standing[c], call[c], k, SlotFor(reply[k]))
                /\ Stored(written, c, call[c], k, SlotFor(reply[k]))
        BY <1>1, <1>4, CallIs, Zenon DEF ReplyHolds
    <2> HIDE DEF reply
    <2>3. DOMAIN slots = DOMAIN call[c].slots
          /\ \A k \in DOMAIN slots :
                \/ slots[k] = call[c].slots[k] /\ k \notin DOMAIN reply
                \/ slots[k] = SlotFor(reply[k]) /\ k \in DOMAIN reply
        OBVIOUS
    <2> HIDE DEF slots
    <2>4. \A k \in DOMAIN slots :
            \/ slots[k] = call[c].slots[k] /\ k \notin Range(call[c].todo[1].at)
            \/ /\ Recent(standing[c], call[c], k, slots[k])
               /\ Stored(written, c, call[c], k, slots[k])
        BY <2>2, <2>3, Zenon
    <2> QED BY <1>1, <1>2, <2>1, <2>3, <2>4, SettleKeeps, Zenon
<1> QED BY <1>3, <1>4, Zenon

\* A request in another phase of its job at hand, with or without a reply.
LEMMA InPhase ==
    ASSUME NEW r, IsCall(r), NEW p, NEW q
    PROVE  /\ [r EXCEPT !.phase = p] =
                 [n |-> r.n, kind |-> r.kind, targets |-> r.targets, slots |-> r.slots,
                  todo |-> r.todo, reply |-> r.reply, phase |-> p]
           /\ [r EXCEPT !.reply = q, !.phase = p] =
                 [n |-> r.n, kind |-> r.kind, targets |-> r.targets, slots |-> r.slots,
                  todo |-> r.todo, reply |-> q, phase |-> p]
<1> DEFINE n == r.n
           kind == r.kind
           targets == r.targets
           slots == r.slots
           todo == r.todo
           reply == r.reply
           phase == r.phase
<1>1. r = [n |-> n, kind |-> kind, targets |-> targets, slots |-> slots, todo |-> todo,
           reply |-> reply, phase |-> phase]
    BY Zenon DEF IsCall
<1> HIDE DEF n, kind, targets, slots, todo, reply, phase
<1>2. [r EXCEPT !.phase = p] =
         [n |-> n, kind |-> kind, targets |-> targets, slots |-> slots, todo |-> todo,
          reply |-> reply, phase |-> p]
    BY <1>1
<1>3. [r EXCEPT !.reply = q, !.phase = p] =
         [n |-> n, kind |-> kind, targets |-> targets, slots |-> slots, todo |-> todo,
          reply |-> q, phase |-> p]
    <2> DEFINE e == [r EXCEPT !.reply = q]
    <2>1. e = [n |-> n, kind |-> kind, targets |-> targets, slots |-> slots, todo |-> todo,
               reply |-> q, phase |-> phase]
        BY <1>1
    <2> HIDE DEF e
    <2>2. [e EXCEPT !.phase = p] =
             [n |-> n, kind |-> kind, targets |-> targets, slots |-> slots, todo |-> todo,
              reply |-> q, phase |-> p]
        BY <2>1
    <2> QED BY <2>2 DEF e
<1> QED BY <1>2, <1>3, Zenon DEF n, kind, targets, slots, todo, reply, phase

\* In another phase of its job at hand a request is still one.
LEMMA PhaseMoves ==
    ASSUME NEW r, IsCall(r), r.phase # "done", r.todo # <<>>, NEW r2,
           r2.n = r.n, r2.kind = r.kind, r2.targets = r.targets, r2.slots = r.slots,
           r2.todo = r.todo, r2.phase \in {"waiting", "replied"},
           r2 = [n |-> r2.n, kind |-> r2.kind, targets |-> r2.targets, slots |-> r2.slots,
                 todo |-> r2.todo, reply |-> r2.reply, phase |-> r2.phase],
           NEW W, NEW S, NEW c, SlotsHold(W, S, c, r)
    PROVE  IsCall(r2) /\ Carried(r, r2) /\ SlotsHold(W, S, c, r2)
<1>1. Tasks(r2) = Tasks(r)
    BY Zenon DEF Tasks
<1>2. r2.phase \in {"done", "serving", "waiting", "replied"} /\ r2.phase # "done"
    OBVIOUS
<1>3. IsCall(r2)
    BY <1>1, <1>2, Zenon DEF IsCall
<1>4. SlotsHold(W, S, c, r2)
    BY <1>2, Zenon DEF SlotsHold, Recent, Stored, Wrote
<1>5. Carried(r, r2)
    BY PhaseCarries
<1> QED BY <1>3, <1>4, <1>5, Zenon

\* A command goes to the DA thread.
LEMMA SendKeeps == ASSUME AccessInv, NEW c \in Callers, Send(c) PROVE AccessInv'
<1> DEFINE r == call[c]
           r2 == [r EXCEPT !.phase = "waiting"]
           e == [caller |-> c, n |-> r.n, kind |-> r.todo[1].kind, at |-> r.todo[1].at]
           W == written
           S == standing[c]
<1>1. /\ r.phase = "serving" /\ r.todo # <<>> /\ commands' = Append(commands, e)
      /\ UNCHANGED <<job, cache, link, group, value, standing, written>>
    BY Zenon DEF Send
<1>2. call' = [call EXCEPT ![c] = r2]
    BY DEF Send
<1>3. IsCall(r) /\ SlotsHold(W, S, c, r)
    BY CallIs, Zenon
<1>4. /\ r2.n = r.n /\ r2.kind = r.kind /\ r2.targets = r.targets
      /\ r2.slots = r.slots /\ r2.todo = r.todo /\ r2.phase = "waiting"
      /\ r2.reply = r.reply
      /\ r2 = [n |-> r2.n, kind |-> r2.kind, targets |-> r2.targets,
               slots |-> r2.slots, todo |-> r2.todo, reply |-> r2.reply,
               phase |-> r2.phase]
    <2>1. r2 = [n |-> r.n, kind |-> r.kind, targets |-> r.targets, slots |-> r.slots,
                todo |-> r.todo, reply |-> r.reply, phase |-> "waiting"]
        BY <1>3, InPhase, Zenon
    <2> HIDE DEF r2
    <2> QED BY <2>1
<1>5. e.caller = c /\ e.n = r.n /\ e.kind = r.todo[1].kind /\ e.at = r.todo[1].at
    OBVIOUS
<1>6. call[c] = r
    OBVIOUS
<1> HIDE DEF r, r2, e
<1>7. r.phase # "done" /\ r2.phase \in {"waiting", "replied"} /\ r2.phase # "replied"
    BY <1>1, <1>4
<1>8. IsCall(r2) /\ Carried(r, r2) /\ SlotsHold(W, S, c, r2)
    BY <1>1, <1>3, <1>4, <1>7, PhaseMoves, Zenon
<1>9. ReplyHolds(W, S, c, r2)
    BY <1>7, Zenon DEF ReplyHolds
<1>10. /\ CallsHold' /\ JobKnown' /\ GroupKept' /\ StandingKept'
       /\ \A t \in Callers : Carried(call[t], call'[t])
       /\ call'[c] = r2 /\ \A t \in Callers : t # c => call'[t] = call[t]
    <2>1. call[c].phase # "done" /\ Carried(call[c], r2)
        BY <1>6, <1>7, <1>8, Zenon
    <2> QED BY <1>1, <1>2, <2>1, <1>8, <1>9, CallStep, Zenon
<1>11. IsCommand(e) /\ Follows(e, r2)
    <2>1. r.todo[1] \in Tasks(r) /\ r.n \in Nat
        <3> DEFINE q == r.todo
                   T == Tasks(r)
        <3>1. q \in Seq(T) /\ q # <<>>
            BY <1>1, <1>3, Zenon DEF IsCall
        <3> HIDE DEF q, T
        <3>2. q[1] \in T
            BY <3>1, LeftFirst, Zenon
        <3> QED BY <3>2, <1>3, Zenon DEF IsCall, q, T
    <2>2. r.todo[1].kind \in JobKinds /\ r.todo[1].at \in Seq(Nat) /\ r.todo[1].at # <<>>
        BY <2>1 DEF Tasks
    <2>3. IsCommand(e)
        BY <1>5, <2>1, <2>2, Zenon DEF IsCommand
    <2>4. e.n <= r2.n
        BY <1>4, <1>5, <2>1
    <2>5. Accounted(e, r2)
        BY <1>4, <1>5, <1>7, Zenon DEF Accounted
    <2> QED BY <2>3, <2>4, <2>5, Zenon DEF Follows
<1>12. CommandsKnown'
    <2> DEFINE q == commands
               T == Range(q) \cup {e}
               n == Len(q)
    <2>1. q \in Seq(Range(q)) /\ DOMAIN q = 1..n
          /\ \A a \in DOMAIN q : IsCommand(q[a]) /\ Follows(q[a], call[q[a].caller])
        BY Zenon DEF AccessInv, CommandsKnown
    <2>2. q \in Seq(T) /\ e \in T
        BY <2>1, SeqMonotonic, Zenon
    <2>3. n \in Nat
        BY <2>2, LenProperties, Zenon
    <2> HIDE DEF T
    <2>4. /\ Append(q, e) \in Seq(T) /\ Len(Append(q, e)) = n + 1
          /\ \A i \in 1..n : Append(q, e)[i] = q[i]
          /\ Append(q, e)[n + 1] = e
        BY <2>2 DEF T
    <2> DEFINE q2 == Append(q, e)
    <2> HIDE DEF q2
    <2>5. DOMAIN q2 = 1..(n + 1) /\ Len(q2) = n + 1
        <3>1. q2 \in Seq(T)
            BY <2>4, Zenon DEF q2
        <3> QED BY <2>4, <3>1, LenProperties, Zenon DEF q2
    <2>6. \A i \in 1..(n + 1) : i \in 1..n \/ i = n + 1
        BY <2>3
    <2>7. q2 \in Seq(Range(q2))
        <3>1. q2 \in Seq(T)
            BY <2>4, Zenon DEF q2
        <3>2. \A i \in 1..Len(q2) : q2[i] \in Range(q2)
            BY <2>5, Zenon DEF Range
        <3> QED BY <3>1, <3>2
    <2>8. ASSUME NEW a \in DOMAIN q2
          PROVE  IsCommand(q2[a]) /\ Follows(q2[a], call'[q2[a].caller])
        <3>1. CASE a = n + 1
            BY <3>1, <2>4, <1>5, <1>10, <1>11, Zenon DEF q2
        <3>2. CASE a \in 1..n
            <4> DEFINE j == q[a]
            <4>1. q2[a] = j /\ IsCommand(j) /\ Follows(j, call[j.caller])
                BY <3>2, <2>1, <2>4, Zenon DEF q2
            <4> HIDE DEF j
            <4>2. j.caller \in Callers
                BY <4>1, Zenon DEF IsCommand
            <4>3. Carried(call[j.caller], call'[j.caller])
                BY <4>2, <1>10, Zenon
            <4> QED BY <4>1, <4>3, Zenon DEF Carried
        <3> QED BY <3>1, <3>2, <2>5, <2>6, Zenon
    <2>9. commands' = q2
        BY <1>1, Zenon DEF q2
    <2> QED BY <2>5, <2>7, <2>8, <2>9, Zenon DEF CommandsKnown, IsCommand
<1> QED BY <1>10, <1>12, Zenon DEF AccessInv

\* A request is over, and what was written for it is forgotten.
LEMMA FinishKeeps == ASSUME AccessInv, NEW c \in Callers, Finish(c) PROVE AccessInv'
<1> DEFINE r2 == [NoCall EXCEPT !.n = call[c].n]
<1>1. /\ call' = [call EXCEPT ![c] = r2]
      /\ standing' = [standing EXCEPT ![c] = {}]
      /\ written' = {w \in written : w.slot[1] # c}
      /\ UNCHANGED <<commands, job, cache, link, group, value, learned>>
    BY Zenon DEF Finish
<1>2. /\ r2.n = call[c].n /\ r2.phase = "done" /\ r2.todo = <<>> /\ r2.reply = <<>>
      /\ r2 = [n |-> r2.n, kind |-> r2.kind, targets |-> r2.targets, slots |-> r2.slots,
               todo |-> r2.todo, reply |-> r2.reply, phase |-> r2.phase]
    BY DEF NoCall
<1>3. IsCall(call[c]) /\ call[c].n \in Nat
    BY CallIs, Zenon DEF IsCall
<1> HIDE DEF r2
<1>4. IsCall(r2)
    <2>1. <<>> \in Seq(Tasks(r2)) /\ Apart(<<>>)
        BY DEF Apart
    <2>2. r2.phase \in {"done", "serving", "waiting", "replied"}
          /\ r2.phase \notin {"waiting", "replied"}
        BY <1>2
    <2> QED BY <1>2, <1>3, <2>1, <2>2, Zenon DEF IsCall
<1>5. SlotsHold(written', standing'[c], c, r2) /\ ReplyHolds(written', standing'[c], c, r2)
    BY <1>2 DEF SlotsHold, ReplyHolds
<1>6. Carried(call[c], r2)
    <2>1. r2.n \in Nat
        BY <1>2, <1>3, Zenon
    <2> QED BY <1>2, <1>3, <2>1, LaterCarries, Zenon
<1>7. /\ DOMAIN standing' = Callers /\ \A t \in Callers : t # c => standing'[t] = standing[t]
    BY <1>1 DEF AccessInv, StandingKept
<1>8. /\ CallsHold'
      /\ \A t \in Callers : Carried(call[t], call'[t])
      /\ call'[c] = r2 /\ \A t \in Callers : t # c => call'[t] = call[t]
    <2>1. /\ \A w \in written : w.slot[1] # c => w \in written'
          /\ \A t \in Callers : t # c => standing[t] \subseteq standing'[t]
        BY <1>1, <1>7, Zenon
    <2>2. CallsHold
        BY Zenon DEF AccessInv
    <2> QED BY <1>1, <1>4, <1>5, <1>6, <2>1, <2>2, OneCall, Zenon
<1>9. CommandsKnown' /\ JobKnown'
    BY <1>1, <1>8, CommandsStay, JobStays, Zenon DEF AccessInv
<1>10. GroupKept'
    BY <1>1, Zenon DEF AccessInv, GroupKept, HandleNames
<1>11. StandingKept'
    BY <1>1, <1>2, <1>7, <1>8, Zenon DEF AccessInv, StandingKept
<1> QED BY <1>8, <1>9, <1>10, <1>11, Zenon DEF AccessInv

\* The command a caller still waits for is its job at hand.
LEMMA AtHand ==
    ASSUME NEW r, IsCall(r), NEW j, IsCommand(j), Follows(j, r), r.n = j.n,
           r.phase = "waiting", r.todo[1].at = j.at
    PROVE  /\ r.todo # <<>> /\ r.phase # "done" /\ j.kind = r.todo[1].kind
           /\ j.kind \in {"read", "write"} => \A k \in Range(j.at) : r.targets[k].node \in ItemIDs
           /\ j.kind = "write" <=> r.kind = "write"
           /\ Range(j.at) \subseteq DOMAIN r.slots
<1> DEFINE q == r.todo
           T == Tasks(r)
<1>1. q \in Seq(T) /\ q # <<>> /\ r.phase # "done"
    <2>1. r.phase \in {"waiting", "replied"} /\ r.phase # "done"
        OBVIOUS
    <2> QED BY <2>1, Zenon DEF IsCall
<1>2. /\ j.at \in Seq(Nat) /\ j.at # <<>> /\ Accounted(j, r)
    BY <1>1, Zenon DEF IsCommand, Follows, Alive
<1>3. q[1].at = j.at
    OBVIOUS
<1> HIDE DEF q, T
<1>4. q[1] \in T /\ Left(q) = Range(q[1].at) \cup Left(Tail(q))
    BY <1>1, LeftFirst, Zenon
<1>5. Range(j.at) \cap Left(q) # {}
    BY <1>2, <1>3, <1>4, SomeAt, Zenon
<1>6. j.kind = q[1].kind
    BY <1>2, <1>5, Zenon DEF Accounted, q
<1>7. /\ Range(q[1].at) \subseteq DOMAIN r.slots
      /\ q[1].kind \in {"read", "write"} => \A k \in Range(q[1].at) : r.targets[k].node \in ItemIDs
      /\ q[1].kind = "write" <=> r.kind = "write"
    BY <1>4, Zenon DEF T, Tasks
<1>8. r.todo # <<>> /\ j.kind = r.todo[1].kind
    BY <1>1, <1>6, Zenon DEF q
<1> QED BY <1>1, <1>3, <1>6, <1>7, <1>8, Zenon

\* The DA thread answers its command; the source may have taken writes for it.
LEMMA ReplyKeeps ==
    ASSUME AccessInv, job # NoJob, NEW results, Reply(results), commands' = commands,
           written \subseteq written', \A t \in Callers : standing[t] \subseteq standing'[t],
           StillWaiting(job) /\ results # <<>> =>
               /\ DOMAIN results = Range(job.at)
               /\ \A k \in DOMAIN results :
                     /\ Recent(standing'[job.caller], call[job.caller], k, SlotFor(results[k]))
                     /\ Stored(written', job.caller, call[job.caller], k, SlotFor(results[k]))
    PROVE  /\ CallsHold' /\ CommandsKnown' /\ JobKnown'
           /\ \A t \in Callers : call'[t].phase # "done" => call[t].phase # "done"
<1>1. CallsHold /\ CommandsKnown /\ JobKnown
    BY Zenon DEF AccessInv
<1>2. job' = NoJob
    BY Zenon DEF Reply
<1>3. JobKnown'
    BY <1>2, Zenon DEF JobKnown, NoJob
<1>4. /\ IsCommand(job) /\ job.caller \in Callers
      /\ Follows(job, call[job.caller])
    BY <1>1, Zenon DEF JobKnown, IsJob, IsCommand
<1>5. \A w \in written, t \in Callers : w.slot[1] = t => w \in written'
    BY Zenon
<1>6. CASE ~StillWaiting(job)
    <2>1. call' = call
        BY <1>6, Zenon DEF Reply
    <2>2. \A t : Carried(call[t], call'[t])
        BY <2>1, Zenon DEF Carried
    <2>3. CommandsKnown'
        BY <1>1, <2>2, CommandsStay, Zenon
    <2>4. ASSUME NEW t \in Callers
          PROVE  /\ IsCall(call[t]) /\ SlotsHold(written', standing'[t], t, call[t])
                 /\ ReplyHolds(written', standing'[t], t, call[t])
        <3> DEFINE r == call[t]
        <3>1. /\ IsCall(r) /\ SlotsHold(written, standing[t], t, r)
              /\ ReplyHolds(written, standing[t], t, r)
            BY <1>1, Zenon DEF CallsHold
        <3>2. \A w \in written : w.slot[1] = t => w \in written'
            BY Zenon
        <3>3. standing[t] \subseteq standing'[t]
            BY Zenon
        <3> HIDE DEF r
        <3>4. SlotsHold(written', standing'[t], t, r) /\ ReplyHolds(written', standing'[t], t, r)
            BY <3>1, <3>2, <3>3, TrueStays, Zenon
        <3> QED BY <3>1, <3>4, Zenon DEF r
    <2>5. CallsHold'
        BY <1>1, <2>1, <2>4, Zenon DEF CallsHold
    <2> QED BY <1>3, <2>1, <2>3, <2>5, Zenon
<1>7. CASE StillWaiting(job)
    <2> DEFINE c == job.caller
               r == call[c]
               r2 == [r EXCEPT !.reply = results, !.phase = "replied"]
               W2 == written'
               S2 == standing'[c]
    <2>1. call' = [call EXCEPT ![c] = r2]
        BY <1>7 DEF Reply
    <2>2. IsCall(r) /\ SlotsHold(written, standing[c], c, r)
        BY <1>4, CallIs, Zenon
    <2>3. /\ c \in Callers
          /\ r.n = job.n /\ r.phase = "waiting" /\ r.todo[1].at = job.at
        BY <1>4, <1>7, Zenon DEF StillWaiting
    <2>4. /\ r2.n = r.n /\ r2.kind = r.kind /\ r2.targets = r.targets
          /\ r2.slots = r.slots /\ r2.todo = r.todo /\ r2.phase = "replied"
          /\ r2.reply = results
          /\ r2 = [n |-> r2.n, kind |-> r2.kind, targets |-> r2.targets,
                   slots |-> r2.slots, todo |-> r2.todo, reply |-> r2.reply,
                   phase |-> r2.phase]
        <3>1. r2 = [n |-> r.n, kind |-> r.kind, targets |-> r.targets, slots |-> r.slots,
                    todo |-> r.todo, reply |-> results, phase |-> "replied"]
            BY <2>2, InPhase, Zenon
        <3> HIDE DEF r2
        <3> QED BY <3>1
    <2>5. results # <<>> =>
               /\ DOMAIN results = Range(job.at)
               /\ \A k \in DOMAIN results :
                     /\ Recent(S2, r, k, SlotFor(results[k]))
                     /\ Stored(W2, c, r, k, SlotFor(results[k]))
        BY <1>7, Zenon
    <2>6. call[c] = r /\ standing[c] \subseteq S2 /\ Follows(job, r)
        BY <1>4, <2>3, Zenon
    <2> HIDE DEF r, r2, S2, c
    <2>7. r.todo # <<>> /\ r.phase # "done" /\ r2.phase \in {"waiting", "replied"}
          /\ r2.phase # "done"
        <3>1. r.todo # <<>> /\ r.phase # "done"
            BY <1>4, <2>2, <2>3, <2>6, AtHand, Zenon
        <3> QED BY <3>1, <2>4
    <2>8. \A w \in written : w.slot[1] = c => w \in W2
        BY Zenon
    <2>9. SlotsHold(W2, S2, c, r)
        BY <2>2, <2>6, <2>8, TrueStays, Zenon
    <2>10. IsCall(r2) /\ Carried(r, r2) /\ SlotsHold(W2, S2, c, r2)
        BY <2>2, <2>4, <2>7, <2>9, PhaseMoves, Zenon
    <2>11. ReplyHolds(W2, S2, c, r2)
        BY <2>3, <2>4, <2>5, Zenon DEF ReplyHolds, Recent, Stored, Wrote
    <2>12. /\ CallsHold'
           /\ \A t \in Callers : Carried(call[t], call'[t])
           /\ call'[c] = r2 /\ \A t \in Callers : t # c => call'[t] = call[t]
        <3>1. Carried(call[c], r2) /\ SlotsHold(written', standing'[c], c, r2)
              /\ ReplyHolds(written', standing'[c], c, r2)
            BY <2>6, <2>10, <2>11, Zenon DEF S2
        <3>2. /\ \A w \in written : w.slot[1] # c => w \in written'
              /\ \A t \in Callers : t # c => standing[t] \subseteq standing'[t]
            BY Zenon
        <3> QED BY <1>1, <2>1, <2>3, <2>10, <3>1, <3>2, OneCall, Zenon
    <2>13. CommandsKnown'
        BY <1>1, <2>12, CommandsStay, Zenon
    <2>14. \A t \in Callers : call'[t].phase # "done" => call[t].phase # "done"
        BY <2>6, <2>7, <2>12, Zenon
    <2> QED BY <1>3, <2>12, <2>13, <2>14, Zenon
<1> QED BY <1>6, <1>7, Zenon

\* A reply while the group and the values stand still.
LEMMA PlainReplyKeeps ==
    ASSUME AccessInv, job # NoJob, NEW results, Reply(results),
           UNCHANGED <<commands, value, standing, written>>, GroupKept',
           StillWaiting(job) /\ results # <<>> =>
               /\ DOMAIN results = Range(job.at)
               /\ \A k \in DOMAIN results :
                     /\ Recent(standing[job.caller], call[job.caller], k, SlotFor(results[k]))
                     /\ Stored(written, job.caller, call[job.caller], k, SlotFor(results[k]))
    PROVE  AccessInv'
<1>1. commands' = commands /\ value' = value /\ standing' = standing /\ written' = written
    OBVIOUS
<1>2. /\ written \subseteq written' /\ \A t \in Callers : standing[t] \subseteq standing'[t]
      /\ StillWaiting(job) /\ results # <<>> =>
               /\ DOMAIN results = Range(job.at)
               /\ \A k \in DOMAIN results :
                     /\ Recent(standing'[job.caller], call[job.caller], k, SlotFor(results[k]))
                     /\ Stored(written', job.caller, call[job.caller], k, SlotFor(results[k]))
    BY <1>1, Zenon
<1>3. /\ CallsHold' /\ CommandsKnown' /\ JobKnown'
      /\ \A t \in Callers : call'[t].phase # "done" => call[t].phase # "done"
    BY <1>1, <1>2, ReplyKeeps, Zenon
<1>4. StandingKept'
    BY <1>1, <1>3, Zenon DEF AccessInv, StandingKept
<1> QED BY <1>3, <1>4, Zenon DEF AccessInv

\* The group of an ended connection, and of a new one, is empty.
LEMMA GroupClears == ASSUME cache' = [i \in ItemIDs |-> 0], group' = <<>> PROVE GroupKept'
<1>1. cache' \in [ItemIDs -> Nat] /\ \A i \in ItemIDs : cache'[i] = 0
    OBVIOUS
<1>2. group' \in Seq(ItemIDs) /\ DOMAIN group' = {} /\ Len(group') = 0
    OBVIOUS
<1>3. Len(group') <= MaxRegisteredItems
    BY <1>2, DataAccessAssumption
<1> QED BY <1>1, <1>2, <1>3, Zenon DEF GroupKept

\* A call to the source fails as a whole.
LEMMA FailKeeps == ASSUME AccessInv, NEW lost, Fail(lost) PROVE AccessInv'
<1>1. /\ job # NoJob /\ Reply(<<>>) /\ UNCHANGED <<commands, value, standing, written>>
    BY Zenon DEF Fail
<1>2. GroupKept'
    <2>1. CASE cache' = cache /\ group' = group
        BY <2>1, Zenon DEF AccessInv, GroupKept, HandleNames
    <2>2. CASE Lose
        BY <2>2, GroupClears, Zenon DEF Lose
    <2> QED BY <2>1, <2>2, Zenon DEF Fail
<1> QED BY <1>1, <1>2, PlainReplyKeeps, Zenon

\* An item's properties are read: nothing of them is a value or a write.
LEMMA ReadPropertiesKeeps == ASSUME AccessInv, ReadProperties PROVE AccessInv'
<1> DEFINE results == [k \in Range(job.at) |->
                 [kind |-> job.kind, registered |-> FALSE, outcome |-> "property"]]
<1>1. /\ job # NoJob /\ job.kind \in {"property", "description"} /\ Reply(results)
      /\ cache' = cache /\ group' = group /\ UNCHANGED <<commands, value, standing, written>>
    BY Zenon DEF ReadProperties
<1>2. GroupKept'
    BY <1>1, Zenon DEF AccessInv, GroupKept, HandleNames
<1>3. DOMAIN results = Range(job.at)
      /\ \A k \in DOMAIN results :
             results[k] = [kind |-> job.kind, registered |-> FALSE, outcome |-> "property"]
    OBVIOUS
<1> HIDE DEF results
<1>4. \A k \in DOMAIN results : SlotFor(results[k]) = Status("Good")
    BY <1>3 DEF SlotFor
<1>5. ASSUME StillWaiting(job) PROVE call[job.caller].kind # "write"
    <2>1. /\ IsCommand(job) /\ job.caller \in Callers /\ Follows(job, call[job.caller])
        BY <1>1, Zenon DEF AccessInv, JobKnown, IsJob, IsCommand
    <2>2. job.kind = "write" <=> call[job.caller].kind = "write"
        BY <1>5, <2>1, CallIs, AtHand, Zenon DEF StillWaiting
    <2> QED BY <1>1, <2>2
<1>6. ASSUME StillWaiting(job), NEW k \in DOMAIN results
      PROVE  /\ Recent(standing[job.caller], call[job.caller], k, SlotFor(results[k]))
             /\ Stored(written, job.caller, call[job.caller], k, SlotFor(results[k]))
    BY <1>4, <1>5, <1>6, StatusIs, Zenon DEF Recent, Stored
<1> QED BY <1>1, <1>2, <1>3, <1>6, PlainReplyKeeps, Zenon

\* A new connection.
LEMMA ReconnectKeeps == ASSUME AccessInv, Reconnect PROVE AccessInv'
<1>1. /\ job = NoJob /\ cache' = [i \in ItemIDs |-> 0] /\ group' = <<>>
      /\ call' = call /\ commands' = commands /\ job' = job /\ value' = value
      /\ standing' = standing /\ written' = written
    BY Zenon DEF Reconnect
<1>2. GroupKept'
    BY <1>1, GroupClears, Zenon
<1>3. CallsHold' /\ CommandsKnown' /\ StandingKept'
    BY <1>1, Zenon DEF AccessInv, CallsHold, CommandsKnown, StandingKept, IsCommand
<1>4. JobKnown'
    BY <1>1, Zenon DEF JobKnown, NoJob
<1> QED BY <1>2, <1>3, <1>4, Zenon DEF AccessInv

\* The DA thread takes a command up, or drops it.
LEMMA TakeKeeps == ASSUME AccessInv, Take PROVE AccessInv'
<1> DEFINE q == commands
           q2 == Tail(q)
           n == Len(q)
           T == Range(q)
           j == Head(q)
<1>1. /\ job = NoJob /\ q # <<>> /\ commands' = q2
      /\ job' = IF ~StillWaiting(j) THEN NoJob
                ELSE [caller |-> j.caller, n |-> j.n, kind |-> j.kind, at |-> j.at,
                      targets |-> call[j.caller].targets,
                      step |-> "resolve", handle |-> <<>>, limited |-> {}]
      /\ call' = call /\ cache' = cache /\ group' = group /\ value' = value
      /\ standing' = standing /\ written' = written
    BY DEF Take
<1>2. CallsHold' /\ GroupKept' /\ StandingKept'
    BY <1>1, Zenon DEF AccessInv, CallsHold, GroupKept, HandleNames, StandingKept
<1>3. /\ q \in Seq(T) /\ DOMAIN q = 1..n
      /\ \A a \in DOMAIN q : IsCommand(q[a]) /\ Follows(q[a], call[q[a].caller])
    BY Zenon DEF AccessInv, CommandsKnown
<1> HIDE DEF q2, T, n, j, q
<1>4. n \in Nat /\ n >= 1 /\ j = q[1]
    <2>1. q # <<>> /\ q \in Seq(T)
        BY <1>1, <1>3, Zenon
    <2> QED BY <2>1, EmptySeq, LenProperties, HeadTailProperties DEF j, n
<1>5. q2 \in Seq(T) /\ Len(q2) = n - 1 /\ \A i \in 1..Len(q2) : q2[i] = q[i + 1]
    BY <1>1, <1>3, HeadTailProperties, Zenon DEF q2, n
<1>6. DOMAIN q2 = 1..Len(q2) /\ \A a \in DOMAIN q2 : a + 1 \in DOMAIN q /\ q2[a] = q[a + 1]
    <2>1. DOMAIN q2 = 1..Len(q2)
        BY <1>5, LenProperties, Zenon
    <2> QED BY <2>1, <1>3, <1>4, <1>5
<1>7. CommandsKnown'
    <2>1. q2 \in Seq(Range(q2))
        <3>1. \A i \in 1..Len(q2) : q2[i] \in Range(q2)
            BY <1>6, Zenon DEF Range
        <3> QED BY <1>5, <3>1
    <2>2. ASSUME NEW a \in DOMAIN q2
          PROVE  IsCommand(q2[a]) /\ Follows(q2[a], call[q2[a].caller])
        <3>1. a + 1 \in DOMAIN q /\ q2[a] = q[a + 1]
            BY <1>6, Zenon
        <3> DEFINE b == a + 1
        <3> HIDE DEF b
        <3>2. IsCommand(q[b]) /\ Follows(q[b], call[q[b].caller]) /\ q2[a] = q[b]
            BY <3>1, <1>3, Zenon DEF b
        <3> QED BY <3>2, Zenon
    <2> QED BY <1>1, <1>6, <2>1, <2>2, Zenon DEF CommandsKnown, IsCommand
<1>8. IsCommand(j) /\ Follows(j, call[j.caller]) /\ j.caller \in Callers
    <2>1. 1 \in DOMAIN q
        BY <1>3, <1>4
    <2> QED BY <2>1, <1>3, <1>4, Zenon DEF IsCommand
<1>9. JobKnown'
    <2>1. CASE ~StillWaiting(j)
        BY <1>1, <2>1, Zenon DEF JobKnown, NoJob
    <2>2. CASE StillWaiting(j)
        <3> DEFINE r == call[j.caller]
                   e == job'
        <3>1. IsCall(r) /\ r.n = j.n /\ r.phase = "waiting" /\ r.todo[1].at = j.at
            BY <2>2, <1>8, CallIs, Zenon DEF StillWaiting
        <3>2. /\ r.phase # "done"
              /\ j.kind \in {"read", "write"} => \A k \in Range(j.at) : r.targets[k].node \in ItemIDs
            BY <3>1, <1>8, AtHand, Zenon
        <3>3. e = [caller |-> j.caller, n |-> j.n, kind |-> j.kind, at |-> j.at,
                   targets |-> r.targets,
                   step |-> "resolve", handle |-> <<>>, limited |-> {}]
            BY <1>1, <2>2, Zenon
        <3>4. call'[j.caller] = r
            BY <1>1, Zenon
        <3> HIDE DEF r, e
        <3>5. /\ e.caller = j.caller /\ e.n = j.n /\ e.kind = j.kind /\ e.at = j.at
              /\ e.targets = r.targets /\ e.step = "resolve"
              /\ e = [caller |-> e.caller, n |-> e.n, kind |-> e.kind, at |-> e.at,
                      targets |-> e.targets,
                      step |-> e.step, handle |-> e.handle, limited |-> e.limited]
            BY <3>3
        <3>6. IsCommand(e) /\ Follows(e, r)
            BY <1>8, <3>5, Zenon DEF IsCommand, Follows, Accounted, Alive, r
        <3>7. IsJob(e)
            BY <3>2, <3>5, <3>6, Zenon DEF IsJob
        <3>8. e.step # "transfer"
            BY <3>5
        <3>9. /\ IsJob(job)' /\ Resolved(job)' /\ Follows(job, call[job.caller])'
              /\ job'.targets = call'[job'.caller].targets
            BY <3>4, <3>5, <3>6, <3>7, <3>8, Zenon
               DEF e, IsJob, IsCommand, Resolved, Follows, Alive, Accounted, Left
        <3> QED BY <3>9, Zenon DEF JobKnown, NoJob
    <2> QED BY <2>1, <2>2, Zenon
<1> QED BY <1>2, <1>7, <1>9, Zenon DEF AccessInv

\* The cache has as many items as the group.
LEMMA GroupCounted ==
    ASSUME GroupKept
    PROVE  Len(group) \in Nat /\ Cardinality({i \in ItemIDs : cache[i] # 0}) = Len(group)
<1> DEFINE C == {i \in ItemIDs : cache[i] # 0}
           n == Len(group)
<1>1. /\ group \in Seq(ItemIDs) /\ cache \in [ItemIDs -> Nat]
      /\ \A i \in ItemIDs : cache[i] # 0 => cache[i] \in DOMAIN group /\ group[cache[i]] = i
      /\ \A h \in DOMAIN group : cache[group[h]] = h
    BY Zenon DEF GroupKept, HandleNames
<1>2. n \in Nat /\ DOMAIN group = 1..n /\ group \in [1..n -> ItemIDs]
    BY <1>1, LenProperties
<1>3. \A h \in 1..n : group[h] \in C
    <2>1. \A h \in 1..n : h # 0
        BY <1>2
    <2> QED BY <2>1, <1>1, <1>2, Zenon
<1> HIDE DEF n
<1>4. group \in [1..n -> C]
    BY <1>2, <1>3, Zenon
<1>5. ASSUME NEW a \in 1..n, NEW b \in 1..n, group[a] = group[b] PROVE a = b
    <2>1. cache[group[a]] = a /\ cache[group[b]] = b
        BY <1>1, <1>2, Zenon
    <2> QED BY <2>1, <1>5
<1>6. \A i \in C : \E h \in 1..n : group[h] = i
    BY <1>1, <1>2, Zenon
<1> HIDE DEF C
<1>7. ExistsBijection(1..n, C)
    <2> DEFINE g == group
    <2>1. /\ g \in [1..n -> C] /\ \A a, b \in 1..n : g[a] = g[b] => a = b
          /\ \A i \in C : \E h \in 1..n : g[h] = i
        BY <1>4, <1>5, <1>6, Zenon
    <2> HIDE DEF g
    <2>2. g \in Injection(1..n, C)
        BY <2>1 DEF Injection, IsInjective
    <2>3. g \in Surjection(1..n, C)
        BY <2>1 DEF Surjection
    <2> QED BY <2>2, <2>3, Zenon DEF ExistsBijection, Bijection
<1> QED BY <1>2, <1>7, FS_CountingElements, Zenon DEF C, n

\* The items to register are distinct, and none has a handle.
LEMMA PendingIs ==
    ASSUME NEW j, j.at \in Seq(Nat), \A k \in Range(j.at) : j.targets[k].node \in ItemIDs
    PROVE  /\ Pending(j) \in Seq(ItemIDs) /\ Once(Pending(j))
           /\ \A a \in DOMAIN Pending(j) : cache[Pending(j)[a]] = 0
<1> DEFINE n == Len(j.at)
           node(k) == j.targets[j.at[k]].node
           firsts == {k \in DOMAIN j.at :
                        cache[node(k)] = 0 /\ \A l \in 1..(k - 1) : node(l) # node(k)}
           order == Ordered(firsts)
           p == [k \in DOMAIN order |-> node(order[k])]
<1>1. n \in Nat /\ DOMAIN j.at = 1..n
    BY LenProperties, Zenon
<1>2. Pending(j) = p
    BY Zenon DEF Pending
<1>3. firsts \in SUBSET Nat /\ firsts \in SUBSET (1..n)
    BY <1>1
<1>4. \A k \in 1..n : node(k) \in ItemIDs
    BY <1>1, Zenon DEF Range
<1>5. \A k \in firsts : cache[node(k)] = 0 /\ \A l \in 1..(k - 1) : node(l) # node(k)
    BY Zenon
<1> HIDE DEF n, firsts
<1>6. IsFiniteSet(firsts)
    <2>1. 1 \in Int /\ n \in Int
        BY <1>1
    <2>2. IsFiniteSet(1..n)
        BY <2>1, FS_Interval, Zenon
    <2> QED BY <1>3, <2>2, FS_Subset, Zenon
<1>7. /\ order \in Seq(Nat) /\ Listed(order) = firsts
      /\ DOMAIN order = 1..Cardinality(firsts) /\ Cardinality(firsts) \in Nat
      /\ \A a, b \in DOMAIN order : a < b => order[a] < order[b]
    BY <1>3, <1>6, OrderedIs, Zenon
<1> HIDE DEF order, node
<1>8. \A a \in DOMAIN order : order[a] \in firsts /\ order[a] \in 1..n
    BY <1>3, <1>7, Zenon DEF Listed
<1>9. DOMAIN p = DOMAIN order /\ \A a \in DOMAIN order : p[a] = node(order[a])
    BY Zenon
<1>10. p \in Seq(ItemIDs)
    <2>1. \A a \in DOMAIN order : node(order[a]) \in ItemIDs
        BY <1>4, <1>8, Zenon
    <2> DEFINE c == Cardinality(firsts)
    <2>2. c \in Nat /\ DOMAIN order = 1..c
        BY <1>7, Zenon
    <2> HIDE DEF c
    <2> QED BY <2>1, <2>2
<1> HIDE DEF p
<1>11. ASSUME NEW a \in DOMAIN order, NEW b \in DOMAIN order, a < b PROVE p[a] # p[b]
    <2>1. order[a] < order[b] /\ order[a] \in 1..n /\ order[b] \in 1..n
        BY <1>7, <1>8, <1>11, Zenon
    <2>2. order[a] \in 1..(order[b] - 1)
        BY <2>1, <1>1
    <2>3. node(order[a]) # node(order[b])
        BY <2>2, <1>5, <1>8, Zenon
    <2> QED BY <2>3, <1>9, Zenon
<1>12. Once(p)
    <2> SUFFICES ASSUME NEW a \in DOMAIN order, NEW b \in DOMAIN order, p[a] = p[b] PROVE a = b
        BY <1>9, Zenon DEF Once
    <2>1. a \in Nat /\ b \in Nat
        BY <1>7
    <2>2. ~(a < b) /\ ~(b < a)
        BY <1>11, Zenon
    <2> QED BY <2>1, <2>2
<1>13. \A a \in DOMAIN p : cache[p[a]] = 0
    BY <1>5, <1>8, <1>9
<1> QED BY <1>2, <1>10, <1>12, <1>13, Zenon

\* The source takes some of the first so many.
LEMMA TakenIs ==
    ASSUME NEW p \in Seq(ItemIDs), Once(p), NEW room \in Nat, room <= Len(p), NEW taken
    PROVE  LET added == Selected(SubSeq(p, 1, room), taken)
           IN  /\ added \in Seq(ItemIDs) /\ Len(added) \in Nat /\ Len(added) <= room
               /\ Once(added)
               /\ \A k \in DOMAIN added : \E a \in DOMAIN p : added[k] = p[a]
<1> DEFINE asked == SubSeq(p, 1, room)
           added == Selected(asked, taken)
<1>1. Len(p) \in Nat /\ DOMAIN p = 1..Len(p)
    BY LenProperties, Zenon
<1>2. /\ asked \in Seq(ItemIDs) /\ Len(asked) = room
      /\ \A k \in 1..room : k \in DOMAIN p /\ asked[k] = p[k]
    <2>1. 1..room \subseteq DOMAIN p
        BY <1>1
    <2>2. asked = [k \in 1..room |-> p[k]]
        BY <1>1, SMT
    <2>3. \A k \in 1..room : p[k] \in ItemIDs
        BY <1>1, <2>1, ElementOfSeq, Zenon
    <2> HIDE DEF asked
    <2>4. asked \in Seq(ItemIDs) /\ Len(asked) = room
        BY <2>2, <2>3
    <2>5. \A k \in 1..room : asked[k] = p[k]
        BY <2>2, Zenon
    <2> QED BY <2>1, <2>4, <2>5, Zenon
<1> HIDE DEF asked
<1>3. DOMAIN asked = 1..room
    BY <1>2, LenProperties, Zenon
<1>4. Once(asked)
    BY <1>2, <1>3, Zenon DEF Once
<1>5. /\ added \in Seq(ItemIDs) /\ Len(added) <= Len(asked)
      /\ Listed(added) \subseteq Listed(asked)
    <2>1. asked \in Seq(ItemIDs)
        BY <1>2, Zenon
    <2>2. Selected(asked, taken) \in Seq(ItemIDs)
        BY <2>1, SelectedFrom, Zenon
    <2>3. Len(Selected(asked, taken)) <= Len(asked)
        BY <2>1, SelectedFrom, Zenon
    <2>4. Listed(Selected(asked, taken)) = Listed(asked) \cap taken
        BY <2>1, SelectedListed, Zenon
    <2> QED BY <2>2, <2>3, <2>4, Zenon
<1>6. Once(added)
    BY <1>2, <1>4, SelectedOnce, Zenon
<1> HIDE DEF added
<1>7. Len(added) \in Nat /\ Len(added) <= room
    BY <1>2, <1>5, LenProperties, Zenon
<1>8. ASSUME NEW k \in DOMAIN added PROVE \E a \in DOMAIN p : added[k] = p[a]
    <2>1. added[k] \in Listed(asked)
        BY <1>5, Zenon DEF Listed
    <2> QED BY <2>1, <1>2, <1>3, Zenon DEF Listed
<1> QED BY <1>5, <1>6, <1>7, <1>8, Zenon DEF asked, added

\* New items at the end of the group, their handles in the cache.
LEMMA GroupGrows ==
    ASSUME GroupKept, NEW added \in Seq(ItemIDs), Once(added),
           \A k \in DOMAIN added : cache[added[k]] = 0,
           Len(group) + Len(added) <= MaxRegisteredItems,
           group' = group \o added,
           cache' = [i \in ItemIDs |->
                        IF \E k \in DOMAIN added : added[k] = i
                        THEN Len(group) + CHOOSE k \in DOMAIN added : added[k] = i
                        ELSE cache[i]]
    PROVE  GroupKept'
<1> DEFINE m == Len(group)
           n == Len(added)
           g2 == group \o added
           at(i) == CHOOSE k \in DOMAIN added : added[k] = i
<1>1. /\ group \in Seq(ItemIDs) /\ cache \in [ItemIDs -> Nat]
      /\ \A i \in ItemIDs : cache[i] # 0 => cache[i] \in DOMAIN group /\ group[cache[i]] = i
      /\ \A h \in DOMAIN group : cache[group[h]] = h
    BY Zenon DEF GroupKept, HandleNames
<1>2. m \in Nat /\ n \in Nat /\ DOMAIN group = 1..m /\ DOMAIN added = 1..n
    BY <1>1, LenProperties, Zenon
<1>3. /\ g2 \in Seq(ItemIDs) /\ Len(g2) = m + n
      /\ \A i \in 1..(m + n) : g2[i] = IF i <= m THEN group[i] ELSE added[i - m]
    <2>1. group \in Seq(ItemIDs)
        BY <1>1, Zenon
    <2> QED BY <2>1, ConcatProperties
<1>4. DOMAIN g2 = 1..(m + n)
    BY <1>3, LenProperties, Zenon
<1>5. \A i \in ItemIDs : cache'[i] = IF \E k \in DOMAIN added : added[k] = i
                                      THEN m + at(i) ELSE cache[i]
    <2> DEFINE f == [i \in ItemIDs |-> IF \E k \in DOMAIN added : added[k] = i
                                       THEN m + at(i) ELSE cache[i]]
    <2>1. cache' = f
        BY Zenon
    <2>2. \A i \in ItemIDs : f[i] = IF \E k \in DOMAIN added : added[k] = i
                                     THEN m + at(i) ELSE cache[i]
        <3> HIDE DEF m, at
        <3> QED OBVIOUS
    <2> QED BY <2>1, <2>2, Zenon
<1>6. DOMAIN cache' = ItemIDs /\ cache' = [i \in ItemIDs |-> cache'[i]]
    OBVIOUS
<1>7. m + n <= MaxRegisteredItems /\ group' = g2
    OBVIOUS
<1>8. \A i : (\E k \in DOMAIN added : added[k] = i) => at(i) \in 1..n /\ added[at(i)] = i
    BY <1>2, Zenon
<1>9. \A k \in 1..n : at(added[k]) = k
    <2> SUFFICES ASSUME NEW k \in 1..n PROVE at(added[k]) = k
        BY Zenon
    <2> DEFINE a == at(added[k])
    <2>1. a \in DOMAIN added /\ added[a] = added[k] /\ k \in DOMAIN added
        BY <1>2, <1>8, Zenon
    <2> HIDE DEF a
    <2>2. a = k
        BY <2>1, Zenon DEF Once
    <2> QED BY <2>2, Zenon DEF a
<1> HIDE DEF m, n, g2, at
<1>10. \A i \in 1..m : i \in DOMAIN g2 /\ g2[i] = group[i]
    BY <1>2, <1>3, <1>4
<1>11. \A k \in 1..n : m + k \in DOMAIN g2 /\ g2[m + k] = added[k] /\ m + k # 0 /\ m + k \in Nat
    BY <1>2, <1>3, <1>4
<1>12. \A h \in DOMAIN g2 : h \in 1..m \/ (h - m \in 1..n /\ h = m + (h - m))
    BY <1>2, <1>4
<1>13. ASSUME NEW i \in ItemIDs
       PROVE  cache'[i] \in Nat /\ (cache'[i] # 0 => cache'[i] \in DOMAIN g2 /\ g2[cache'[i]] = i)
    <2>1. CASE \E k \in DOMAIN added : added[k] = i
        <3>1. cache'[i] = m + at(i)
            BY <2>1, <1>5, Zenon
        <3>2. at(i) \in 1..n /\ added[at(i)] = i
            BY <2>1, <1>8, Zenon
        <3> QED BY <3>1, <3>2, <1>11, Zenon
    <2>2. CASE ~ \E k \in DOMAIN added : added[k] = i
        <3>1. cache'[i] = cache[i] /\ cache[i] \in Nat
            BY <2>2, <1>1, <1>5, Zenon
        <3>2. cache[i] # 0 => cache[i] \in DOMAIN g2 /\ g2[cache[i]] = group[cache[i]]
            BY <1>1, <1>2, <1>10, Zenon
        <3>3. cache[i] # 0 => group[cache[i]] = i
            BY <1>1, Zenon
        <3> QED BY <3>1, <3>2, <3>3
    <2> QED BY <2>1, <2>2, Zenon
<1>14. ASSUME NEW h \in DOMAIN g2 PROVE cache'[g2[h]] = h
    <2>1. CASE h \in 1..m
        <3> DEFINE i == group[h]
        <3>1. i \in ItemIDs /\ cache[i] = h /\ h # 0
            <4>1. h # 0
                BY <2>1, <1>2
            <4> QED BY <2>1, <4>1, <1>1, <1>2, ElementOfSeq, Zenon DEF m
        <3>2. ~ \E k \in DOMAIN added : added[k] = i
            BY <3>1, Zenon
        <3> HIDE DEF i
        <3>3. cache'[i] = h
            BY <3>1, <3>2, <1>5, Zenon
        <3> QED BY <3>3, <2>1, <1>10, Zenon DEF i
    <2>2. CASE h - m \in 1..n /\ h = m + (h - m)
        <3> DEFINE k == h - m
        <3>1. k \in DOMAIN added /\ g2[h] = added[k] /\ h = m + k
            BY <2>2, <1>2, <1>11, Zenon
        <3> HIDE DEF k
        <3>2. added[k] \in ItemIDs /\ at(added[k]) = k
            BY <3>1, <1>2, <1>9, ElementOfSeq, Zenon DEF n
        <3> QED BY <3>1, <3>2, <1>5, Zenon
    <2> QED BY <2>1, <2>2, <1>12, Zenon
<1>15. cache' \in [ItemIDs -> Nat]
    BY <1>6, <1>13, Zenon
<1> QED BY <1>3, <1>7, <1>13, <1>14, <1>15, Zenon DEF GroupKept, HandleNames

\* A job whose items are registered.
LEMMA Registered ==
    ASSUME NEW j, IsJob(j), NEW s, NEW l, NEW h
    PROVE  [j EXCEPT !.step = s, !.limited = l, !.handle = h] =
              [caller |-> j.caller, n |-> j.n, kind |-> j.kind, at |-> j.at,
               targets |-> j.targets, step |-> s, handle |-> h, limited |-> l]
<1> DEFINE caller == j.caller
           n == j.n
           kind == j.kind
           at == j.at
           targets == j.targets
           step == j.step
           handle == j.handle
           limited == j.limited
           j1 == [j EXCEPT !.step = s]
           j2 == [j1 EXCEPT !.limited = l]
<1>1. j = [caller |-> caller, n |-> n, kind |-> kind, at |-> at, targets |-> targets,
           step |-> step, handle |-> handle, limited |-> limited]
    BY Zenon DEF IsJob
<1> HIDE DEF caller, n, kind, at, targets, step, handle, limited
<1>2. j1 = [caller |-> caller, n |-> n, kind |-> kind, at |-> at, targets |-> targets,
            step |-> s, handle |-> handle, limited |-> limited]
    BY <1>1
<1> HIDE DEF j1
<1>3. j2 = [caller |-> caller, n |-> n, kind |-> kind, at |-> at, targets |-> targets,
            step |-> s, handle |-> handle, limited |-> l]
    BY <1>2
<1> HIDE DEF j2
<1>4. [j2 EXCEPT !.handle = h] =
           [caller |-> caller, n |-> n, kind |-> kind, at |-> at, targets |-> targets,
            step |-> s, handle |-> h, limited |-> l]
    BY <1>3
<1> QED BY <1>4, Zenon DEF j1, j2, caller, n, kind, at, targets

\* What is known of the job of the DA thread.
LEMMA JobIs ==
    ASSUME AccessInv, job # NoJob
    PROVE  /\ IsJob(job) /\ IsCommand(job) /\ job.caller \in Callers /\ job.at \in Seq(Nat)
           /\ Resolved(job) /\ Follows(job, call[job.caller])
           /\ Alive(job, call[job.caller]) => job.targets = call[job.caller].targets
           /\ job.kind \in {"read", "write"} => \A k \in Range(job.at) : job.targets[k].node \in ItemIDs
BY Zenon DEF AccessInv, JobKnown, IsJob, IsCommand

\* The items of a batch are registered.
LEMMA ResolveKeeps == ASSUME AccessInv, NEW taken, Resolve(taken) PROVE AccessInv'
<1> DEFINE p == Pending(job)
           m == Len(group)
           room == IF Len(p) <= Remaining THEN Len(p) ELSE Remaining
           asked == SubSeq(p, 1, room)
           added == Selected(asked, taken)
           known == [i \in ItemIDs |-> IF \E k \in DOMAIN added : added[k] = i
                                       THEN Len(group) + CHOOSE k \in DOMAIN added : added[k] = i
                                       ELSE cache[i]]
           h == [k \in Range(job.at) |-> known[job.targets[k].node]]
           l == Range(p) \ Range(asked)
           e == job'
<1>1. /\ job # NoJob /\ job.kind \in {"read", "write"}
      /\ group' = group \o added /\ cache' = known
      /\ job' = [job EXCEPT !.step = "transfer", !.limited = l, !.handle = h]
      /\ call' = call /\ commands' = commands /\ value' = value
      /\ standing' = standing /\ written' = written
    BY Zenon DEF Resolve
<1>2. /\ IsJob(job) /\ IsCommand(job) /\ job.at \in Seq(Nat)
      /\ Follows(job, call[job.caller])
      /\ Alive(job, call[job.caller]) => job.targets = call[job.caller].targets
      /\ \A k \in Range(job.at) : job.targets[k].node \in ItemIDs
    BY <1>1, JobIs, Zenon
<1>3. CallsHold' /\ CommandsKnown' /\ StandingKept'
    BY <1>1, Zenon DEF AccessInv, CallsHold, CommandsKnown, StandingKept, IsCommand
<1>4. /\ p \in Seq(ItemIDs) /\ Once(p)
      /\ \A a \in DOMAIN p : cache[p[a]] = 0
    BY <1>2, PendingIs, Zenon
<1>5. GroupKept /\ m \in Nat /\ m <= MaxRegisteredItems /\ Remaining = MaxRegisteredItems - m
    BY GroupCounted, Zenon DEF AccessInv, GroupKept, Remaining
<1>6. room \in Nat /\ room <= Len(p) /\ room <= Remaining
    <2>1. Len(p) \in Nat
        BY <1>4, LenProperties, Zenon
    <2>2. Remaining \in Nat
        BY <1>5, DataAccessAssumption
    <2> HIDE DEF p
    <2> QED BY <2>1, <2>2
<1> HIDE DEF p, room
<1>7. /\ added \in Seq(ItemIDs) /\ Len(added) \in Nat /\ Len(added) <= room
      /\ Once(added)
      /\ \A k \in DOMAIN added : \E a \in DOMAIN p : added[k] = p[a]
    <2>1. p \in Seq(ItemIDs) /\ Once(p) /\ room \in Nat /\ room <= Len(p)
        BY <1>4, <1>6, Zenon
    <2> QED BY <2>1, TakenIs
<1> HIDE DEF asked, added
<1>8. m + Len(added) <= MaxRegisteredItems
    <2> DEFINE n == Len(added)
    <2>1. n \in Nat /\ n <= room
        BY <1>7, Zenon
    <2> HIDE DEF n, m
    <2>2. m + n <= MaxRegisteredItems
        BY <2>1, <1>5, <1>6, DataAccessAssumption
    <2> QED BY <2>2, Zenon DEF n
<1>9. \A k \in DOMAIN added : cache[added[k]] = 0
    BY <1>4, <1>7
<1>10. GroupKept'
    BY <1>1, <1>5, <1>7, <1>8, <1>9, GroupGrows, Zenon
<1>11. e = [caller |-> job.caller, n |-> job.n, kind |-> job.kind, at |-> job.at,
            targets |-> job.targets, step |-> "transfer", handle |-> h, limited |-> l]
    BY <1>1, <1>2, Registered, Zenon
<1>12. \A k \in Range(job.at) : h[k] = cache'[job.targets[k].node]
    BY <1>1, Zenon
<1> HIDE DEF known, h, l, e
<1>13. /\ e.caller = job.caller /\ e.n = job.n /\ e.kind = job.kind /\ e.at = job.at
       /\ e.targets = job.targets /\ e.handle = h
       /\ e = [caller |-> e.caller, n |-> e.n, kind |-> e.kind, at |-> e.at,
               targets |-> e.targets, step |-> e.step, handle |-> e.handle,
               limited |-> e.limited]
    BY <1>11
<1>14. IsJob(e)
    BY <1>2, <1>13, Zenon DEF IsJob, IsCommand
<1>15. \A k \in Range(e.at) : e.handle[k] # 0 =>
          /\ e.handle[k] \in DOMAIN group' /\ group'[e.handle[k]] = e.targets[k].node
    <2> SUFFICES ASSUME NEW k \in Range(job.at), h[k] # 0
                 PROVE  h[k] \in DOMAIN group' /\ group'[h[k]] = job.targets[k].node
        BY <1>13, Zenon
    <2> DEFINE i == job.targets[k].node
    <2>1. i \in ItemIDs /\ h[k] = cache'[i]
        BY <1>2, <1>12, Zenon
    <2> HIDE DEF i
    <2>2. cache'[i] # 0 => cache'[i] \in DOMAIN group' /\ group'[cache'[i]] = i
        BY <2>1, <1>10, Zenon DEF GroupKept, HandleNames
    <2> QED BY <2>1, <2>2 DEF i
<1>16. Follows(e, call[e.caller]) /\ (Alive(e, call[e.caller]) => e.targets = call[e.caller].targets)
    BY <1>2, <1>13, Zenon DEF Follows, Alive, Accounted
<1>17. JobKnown'
    <2>1. IsJob(job)' /\ Resolved(job)'
        BY <1>14, <1>15, Zenon DEF IsJob, IsCommand, Resolved, HandleNames, e
    <2>2. Follows(job, call[job.caller])'
          /\ (Alive(job, call[job.caller])' => job'.targets = call'[job'.caller].targets)
        <3>1. call'[e.caller] = call[e.caller]
            BY <1>1, Zenon
        <3>2. /\ Follows(e, call'[e.caller])
              /\ Alive(e, call'[e.caller]) => e.targets = call'[e.caller].targets
            BY <1>16, <3>1, Zenon
        <3> QED BY <3>2, Zenon DEF Follows, Alive, Accounted, Left, e
    <2> QED BY <2>1, <2>2, Zenon DEF JobKnown, NoJob
<1> QED BY <1>3, <1>10, <1>17, Zenon DEF AccessInv

\* What becomes of the outcomes of a device call.
LEMMA OutcomeIs ==
    ASSUME NEW r
    PROVE  /\ r.outcome \in {"failed", "limit", "mismatch"} =>
                 SlotFor(r).status # "Good" /\ "value" \notin DOMAIN SlotFor(r)
           /\ r.outcome \in {"stored", "clamped"} => SlotFor(r) = Status("Good")
           /\ r.outcome = "read" =>
                 SlotFor(r) = [status |-> "Good", from |-> r.from, value |-> r.value]
<1>1. r.outcome \in {"failed", "limit", "mismatch"} =>
         SlotFor(r) \in {Status("Bad_Source"), Status("Bad_TypeMismatch"), Status("Bad_InternalError")}
    BY DEF SlotFor
<1>2. r.outcome \in {"failed", "limit", "mismatch"} =>
         SlotFor(r).status # "Good" /\ "value" \notin DOMAIN SlotFor(r)
    BY <1>1, StatusIs
<1>3. r.outcome \in {"stored", "clamped"} => SlotFor(r) = Status("Good")
    BY DEF SlotFor
<1>4. r.outcome = "read" => SlotFor(r) = [status |-> "Good", from |-> r.from, value |-> r.value]
    BY DEF SlotFor
<1> QED BY <1>2, <1>3, <1>4, Zenon

\* The slots of a job that go to the source are some of its own.
LEMMA SentIs ==
    ASSUME NEW at \in Seq(Nat), NEW H \in SUBSET Range(at)
    PROVE  /\ \A k \in H : \E p \in DOMAIN Selected(at, H) : Selected(at, H)[p] = k
           /\ Range(Selected(at, H)) = H
           /\ \A p \in DOMAIN Selected(at, H) : Selected(at, H)[p] \in H
<1>1. Listed(Selected(at, H)) = Listed(at) \cap H
    BY SelectedListed, Zenon
<1>2. \A q : Range(q) = Listed(q)
    BY Zenon DEF Range, Listed
<1>3. Range(Selected(at, H)) = H
    BY <1>1, <1>2, Zenon
<1> QED BY <1>3, Zenon DEF Range

\* The values of a batch are read from the source.
LEMMA ReadDeviceKeeps == ASSUME AccessInv, ReadDevice PROVE AccessInv'
<1> DEFINE H == {k \in Range(job.at) : job.handle[k] # 0}
           sent == Selected(job.at, H)
           answers == [p \in DOMAIN sent |->
               LET i == group[job.handle[sent[p]]]
               IN  IF "read" \in Rights[i]
                   THEN [kind |-> "read", registered |-> TRUE, outcome |-> "read",
                         from |-> i, value |-> value[i]]
                   ELSE [kind |-> "read", registered |-> TRUE, outcome |-> "failed"]]
           results == [k \in Range(job.at) |->
              IF job.handle[k] = 0 THEN Unregistered(k)
              ELSE answers[CHOOSE p \in DOMAIN sent : sent[p] = k]]
           c == job.caller
           r == call[job.caller]
           S == standing[c]
<1>1. /\ job # NoJob /\ job.step = "transfer" /\ job.kind = "read" /\ Reply(results)
      /\ cache' = cache /\ group' = group /\ UNCHANGED <<commands, value, standing, written>>
    BY Zenon DEF ReadDevice
<1>2. /\ IsJob(job) /\ IsCommand(job) /\ c \in Callers /\ job.at \in Seq(Nat)
      /\ Resolved(job) /\ Follows(job, r)
      /\ Alive(job, r) => job.targets = r.targets
      /\ job.kind \in {"read", "write"} => \A k \in Range(job.at) : job.targets[k].node \in ItemIDs
    BY <1>1, JobIs, Zenon
<1>3. \A k \in Range(job.at) : job.targets[k].node \in ItemIDs
    <2>1. job.kind \in {"read", "write"}
        BY <1>1, Zenon
    <2> QED BY <1>2, <2>1, Zenon
<1>4. GroupKept'
    BY <1>1, Zenon DEF AccessInv, GroupKept, HandleNames
<1>5. ASSUME StillWaiting(job), NEW k \in Range(job.at)
      PROVE  Recent(S, r, k, SlotFor(results[k])) /\ Stored(written, c, r, k, SlotFor(results[k]))
    <2> DEFINE i == job.targets[k].node
               e == results[k]
    <2>1. /\ IsCall(r) /\ r.n = job.n /\ r.phase = "waiting" /\ r.todo[1].at = job.at
        BY <1>2, <1>5, CallIs, Zenon DEF StillWaiting
    <2>2. r.kind # "write" /\ r.phase # "done"
        <3>1. (job.kind = "write" <=> r.kind = "write") /\ r.phase # "done"
            BY <1>2, <2>1, AtHand, Zenon
        <3>2. job.kind = "read"
            BY <1>1, Zenon
        <3> QED BY <3>1, <3>2
    <2>3. r.targets[k].node = i
        BY <1>2, <2>1, <2>2, Zenon DEF Alive
    <2>4. <<i, value[i]>> \in S
        BY <1>2, <1>3, <2>2, Zenon DEF AccessInv, StandingKept
    <2>5. CASE job.handle[k] = 0
        <3>1. e = Unregistered(k)
            BY <2>5, Zenon
        <3> HIDE DEF e
        <3>2. e.outcome \in {"failed", "limit", "mismatch"}
            BY <3>1 DEF Unregistered
        <3> QED BY <3>2, <2>2, OutcomeIs, Zenon DEF Recent, Stored, e
    <2>6. CASE job.handle[k] # 0
        <3> DEFINE p == CHOOSE p \in DOMAIN sent : sent[p] = k
                   o == group[job.handle[sent[p]]]
        <3>1. H \in SUBSET Range(job.at) /\ k \in H
            BY <2>6, Zenon
        <3> HIDE DEF H
        <3>2. \E q \in DOMAIN sent : sent[q] = k
            <4>1. job.at \in Seq(Nat)
                BY <1>2, Zenon
            <4> QED BY <3>1, <4>1, SentIs, Zenon
        <3>3. p \in DOMAIN sent /\ sent[p] = k
            BY <3>2, Zenon
        <3>4. e = answers[p]
            BY <2>6, Zenon
        <3>5. e = IF "read" \in Rights[o]
                  THEN [kind |-> "read", registered |-> TRUE, outcome |-> "read",
                        from |-> o, value |-> value[o]]
                  ELSE [kind |-> "read", registered |-> TRUE, outcome |-> "failed"]
            BY <3>3, <3>4, Zenon
        <3>6. o = i
            <4>1. job.handle[sent[p]] = job.handle[k]
                BY <3>3, Zenon
            <4>2. group[job.handle[k]] = i
                BY <1>1, <1>2, <2>6, Zenon DEF Resolved, HandleNames
            <4> QED BY <4>1, <4>2, Zenon
        <3> HIDE DEF e, o, i, p
        <3>7. CASE "read" \in Rights[o]
            <4>1. e.outcome = "read" /\ e.from = o /\ e.value = value[o]
                BY <3>5, <3>7
            <4> DEFINE s == SlotFor(e)
            <4>2. s = [status |-> "Good", from |-> o, value |-> value[o]]
                BY <4>1, OutcomeIs, Zenon
            <4> HIDE DEF s
            <4>3. s.from = i /\ s.value = value[i]
                BY <4>2, <3>6
            <4> QED BY <4>3, <2>2, <2>3, <2>4, Zenon DEF Recent, Stored, e, s
        <3>8. CASE "read" \notin Rights[o]
            <4>1. e.outcome \in {"failed", "limit", "mismatch"}
                BY <3>5, <3>8
            <4> QED BY <4>1, <2>2, OutcomeIs, Zenon DEF Recent, Stored, e
        <3> QED BY <3>7, <3>8, Zenon
    <2> QED BY <2>5, <2>6, Zenon
<1>6. DOMAIN results = Range(job.at)
    BY Zenon
<1> HIDE DEF results
<1> QED BY <1>1, <1>4, <1>5, <1>6, PlainReplyKeeps, Zenon

\* The values of a batch are written to the source.
LEMMA WriteValuesKeeps ==
    ASSUME AccessInv, NEW N, NEW how \in [N -> {"stored", "clamped", "failed"}], WriteValues(how)
    PROVE  AccessInv'
<1> DEFINE H == {k \in Range(job.at) :
                       /\ job.handle[k] # 0
                       /\ Canonical[job.targets[k].node] = job.targets[k].type}
           sent == Selected(job.at, H)
           item(p) == group[job.handle[sent[p]]]
           took == {p \in DOMAIN sent : how[p] # "failed" /\ "write" \in Rights[item(p)]}
           slot(p) == <<job.caller, job.n, sent[p]>>
           last(i) == CHOOSE p \in took : item(p) = i
                         /\ \A q \in took : item(q) = i => q <= p
           stored == [i \in ItemIDs |-> IF \E p \in took : item(p) = i
                                      THEN slot(last(i)) ELSE value[i]]
           done == {[slot |-> slot(p), item |-> item(p), how |-> how[p]] : p \in took}
           at(k) == CHOOSE p \in DOMAIN sent : sent[p] = k
           results == [k \in Range(job.at) |->
                 IF job.handle[k] = 0 THEN Unregistered(k)
                 ELSE [kind |-> "write", registered |-> TRUE,
                       outcome |->
                          IF k \notin Range(sent) THEN "mismatch"
                          ELSE IF at(k) \in took THEN how[at(k)] ELSE "failed"]]
           c == job.caller
           r == call[job.caller]
           S2 == standing'[c]
<1>0. \A q \in DOMAIN how : how[q] \in {"stored", "clamped", "failed"}
    OBVIOUS
<1>1. /\ job # NoJob /\ job.step = "transfer" /\ job.kind = "write" /\ Reply(results)
      /\ DOMAIN how = DOMAIN sent /\ value' = stored /\ written' = written \cup done
      /\ standing' = [t \in Callers |->
                 IF call[t].phase = "done" THEN standing[t]
                 ELSE standing[t] \cup {<<i, stored[i]>> : i \in ItemIDs}]
      /\ cache' = cache /\ group' = group /\ commands' = commands
    BY Zenon DEF WriteValues
<1>2. /\ IsJob(job) /\ IsCommand(job) /\ c \in Callers /\ job.at \in Seq(Nat)
      /\ Resolved(job) /\ Follows(job, r)
      /\ Alive(job, r) => job.targets = r.targets
    BY <1>1, JobIs, Zenon
<1>3. GroupKept'
    BY <1>1, Zenon DEF AccessInv, GroupKept, HandleNames
<1>4. H \in SUBSET Range(job.at) /\ \A k \in H : job.handle[k] # 0
    BY Zenon
<1>5. DOMAIN results = Range(job.at)
    BY Zenon
<1>6. \A t \in Callers : standing[t] \subseteq standing'[t]
    <2> HIDE DEF stored
    <2> QED BY <1>1, Zenon
<1>7. written \subseteq written' /\ done \subseteq written'
    BY <1>1, Zenon
<1>8. ASSUME StillWaiting(job), NEW k \in Range(job.at)
      PROVE  Recent(S2, r, k, SlotFor(results[k])) /\ Stored(written', c, r, k, SlotFor(results[k]))
    <2> DEFINE e == results[k]
    <2>1. /\ IsCall(r) /\ r.n = job.n /\ r.phase = "waiting" /\ r.todo[1].at = job.at
        BY <1>2, <1>8, CallIs, Zenon DEF StillWaiting
    <2>2. r.kind # "read" /\ r.phase # "done"
        <3>1. (job.kind = "write" <=> r.kind = "write") /\ r.phase # "done"
            BY <1>2, <2>1, AtHand, Zenon
        <3>2. job.kind = "write"
            BY <1>1, Zenon
        <3> QED BY <3>1, <3>2
    <2>3. job.targets = r.targets
        BY <1>2, <2>1, <2>2, Zenon DEF Alive
    <2>4. CASE job.handle[k] = 0
        <3>1. e = Unregistered(k)
            BY <2>4, Zenon
        <3> HIDE DEF e
        <3>2. e.outcome \in {"failed", "limit", "mismatch"}
            BY <3>1 DEF Unregistered
        <3> QED BY <3>2, <2>2, OutcomeIs, Zenon DEF Recent, Stored, e
    <2>5. CASE job.handle[k] # 0
        <3> DEFINE o == IF k \notin Range(sent) THEN "mismatch"
                        ELSE IF at(k) \in took THEN how[at(k)] ELSE "failed"
        <3>1. e = [kind |-> "write", registered |-> TRUE, outcome |-> o]
            BY <2>5, Zenon
        <3> HIDE DEF e
        <3>2. e.outcome = o
            <4> HIDE DEF o
            <4> QED BY <3>1
        <3>3. CASE k \in Range(sent) /\ at(k) \in took
            <4> DEFINE p == at(k)
                       w == [slot |-> slot(p), item |-> item(p), how |-> how[p]]
            <4>1. \E q \in DOMAIN sent : sent[q] = k
                BY <3>3, Zenon DEF Range
            <4>2. p \in DOMAIN sent /\ sent[p] = k
                BY <4>1, Zenon
            <4>3. p \in took /\ how[p] # "failed" /\ p \in DOMAIN how
                BY <3>3, <4>2, <1>1, Zenon
            <4>4. how[p] \in {"stored", "clamped"} /\ e.outcome = how[p]
                <5>1. how[p] \in {"stored", "clamped", "failed"} /\ how[p] # "failed"
                    BY <4>3, <1>0, Zenon
                <5>2. e.outcome = how[p]
                    BY <3>2, <3>3, Zenon
                <5> HIDE DEF p, e
                <5> QED BY <5>1, <5>2
            <4>5. item(p) = job.targets[k].node
                <5>1. item(p) = group[job.handle[k]]
                    BY <4>2, Zenon
                <5> QED BY <5>1, <1>1, <1>2, <2>5, Zenon DEF Resolved, HandleNames
            <4>6. w \in written'
                BY <1>7, <4>3, Zenon
            <4>7. slot(p) = <<c, r.n, k>>
                BY <4>2, <2>1, Zenon
            <4>8. w.slot = slot(p) /\ w.item = item(p)
                <5> HIDE DEF p, item, slot
                <5> QED OBVIOUS
            <4> HIDE DEF w, p, slot, item
            <4>9. Wrote(written', c, r, k)
                BY <2>3, <4>5, <4>6, <4>7, <4>8, Zenon DEF Wrote
            <4> QED BY <4>9, <2>2, Zenon DEF Recent, Stored
        <3>4. CASE ~(k \in Range(sent) /\ at(k) \in took)
            <4> HIDE DEF took, at, sent
            <4>1. o = "mismatch" \/ o = "failed"
                BY <3>4, Zenon
            <4>2. o \in {"failed", "limit", "mismatch"}
                BY <4>1, Zenon
            <4> QED BY <4>2, <3>2, <2>2, OutcomeIs, Zenon DEF Recent, Stored, e
        <3> QED BY <3>3, <3>4, Zenon
    <2> QED BY <2>4, <2>5, Zenon
<1>9. ASSUME NEW t \in Callers, call[t].phase # "done", NEW i \in ItemIDs
      PROVE  <<i, value'[i]>> \in standing'[t]
    <2> HIDE DEF stored
    <2> QED BY <1>1, <1>9, Zenon
<1>10. DOMAIN standing' = Callers
    BY <1>1, Zenon
<1> HIDE DEF results, done, stored
<1>11. /\ CallsHold' /\ CommandsKnown' /\ JobKnown'
       /\ \A t \in Callers : call'[t].phase # "done" => call[t].phase # "done"
    BY <1>1, <1>5, <1>6, <1>7, <1>8, ReplyKeeps, Zenon
<1>12. StandingKept'
    BY <1>9, <1>10, <1>11, Zenon DEF StandingKept
<1> QED BY <1>3, <1>11, <1>12, Zenon DEF AccessInv

\* Nothing happens.
LEMMA AccessStutters == ASSUME AccessInv, UNCHANGED accessVars PROVE AccessInv'
<1>1. /\ call' = call /\ commands' = commands /\ job' = job /\ cache' = cache
      /\ group' = group /\ value' = value /\ standing' = standing /\ written' = written
    BY Zenon DEF accessVars
<1>2. CallsHold' /\ CommandsKnown' /\ GroupKept' /\ StandingKept'
    BY <1>1, Zenon DEF AccessInv, CallsHold, CommandsKnown, IsCommand, GroupKept, HandleNames,
                       StandingKept
<1>3. JobKnown'
    <2>1. \A t \in Callers : Carried(call[t], call'[t])
        BY <1>1, Zenon DEF Carried
    <2> QED BY <1>1, <2>1, JobStays, Zenon DEF AccessInv
<1> QED BY <1>2, <1>3, Zenon DEF AccessInv

\* What readwrite.go, da_windows.go and registration.go keep between them: a
\* slot is true or waits for a job, a command is the job at hand of its caller
\* or one given up, a resolved handle names its item, and cache and group are
\* inverse to each other.
THEOREM AccessInvariant == AccessSpec => []AccessInv
<1>1. AccessInit => AccessInv
    <2> SUFFICES ASSUME AccessInit PROVE AccessInv
        OBVIOUS
    <2>1. /\ NoCall.n = 0 /\ NoCall.phase = "done" /\ NoCall.todo = <<>> /\ NoCall.reply = <<>>
          /\ NoCall = [n |-> NoCall.n, kind |-> NoCall.kind, targets |-> NoCall.targets,
                       slots |-> NoCall.slots, todo |-> NoCall.todo, reply |-> NoCall.reply,
                       phase |-> NoCall.phase]
        BY DEF NoCall
    <2>2. IsCall(NoCall)
        <3>1. <<>> \in Seq(Tasks(NoCall)) /\ Apart(<<>>)
            BY DEF Apart
        <3>2. NoCall.phase \in {"done", "serving", "waiting", "replied"}
              /\ NoCall.phase \notin {"waiting", "replied"} /\ NoCall.n \in Nat
            BY <2>1
        <3> QED BY <2>1, <3>1, <3>2, Zenon DEF IsCall
    <2>3. DOMAIN call = Callers /\ \A c \in Callers : call[c] = NoCall
        BY DEF AccessInit
    <2>4. \A c \in Callers : SlotsHold(written, standing[c], c, NoCall)
                             /\ ReplyHolds(written, standing[c], c, NoCall)
        BY <2>1 DEF SlotsHold, ReplyHolds
    <2>5. CallsHold
        BY <2>2, <2>3, <2>4, Zenon DEF CallsHold
    <2>6. CommandsKnown
        <3>1. commands = <<>>
            BY Zenon DEF AccessInit
        <3>2. DOMAIN <<>> = {} /\ Len(<<>>) = 0 /\ <<>> \in Seq(Range(<<>>)) /\ 1..0 = {}
            OBVIOUS
        <3> QED BY <3>1, <3>2, Zenon DEF CommandsKnown
    <2>7. JobKnown
        BY Zenon DEF AccessInit, JobKnown
    <2>8. GroupKept
        <3>1. cache = [i \in ItemIDs |-> 0] /\ group = <<>>
            BY Zenon DEF AccessInit
        <3>2. cache \in [ItemIDs -> Nat] /\ \A i \in ItemIDs : cache[i] = 0
            BY <3>1
        <3>3. group \in Seq(ItemIDs) /\ DOMAIN group = {} /\ Len(group) = 0
            BY <3>1
        <3>4. Len(group) <= MaxRegisteredItems
            BY <3>3, DataAccessAssumption
        <3> QED BY <3>2, <3>3, <3>4, Zenon DEF GroupKept
    <2>9. StandingKept
        <3>1. DOMAIN standing = Callers
            BY DEF AccessInit
        <3> QED BY <3>1, <2>1, <2>3, Zenon DEF StandingKept
    <2> QED BY <2>5, <2>6, <2>7, <2>8, <2>9, Zenon DEF AccessInv
<1>2. AccessInv /\ [AccessNext]_accessVars => AccessInv'
    <2> SUFFICES ASSUME AccessInv, [AccessNext]_accessVars PROVE AccessInv'
        OBVIOUS
    <2>1. CASE \E c \in Callers, r \in ReadRequests : Read(c, r)
        BY <2>1, ReadKeeps, Zenon
    <2>2. CASE \E c \in Callers, r \in WriteRequests : Write(c, r)
        BY <2>2, WriteKeeps, Zenon
    <2>3. ASSUME NEW c \in Callers,
                 Send(c) \/ Refuse(c) \/ TimeOut(c) \/ Receive(c) \/ Finish(c)
          PROVE  AccessInv'
        BY <2>3, SendKeeps, RefuseKeeps, TimeOutKeeps, ReceiveKeeps, FinishKeeps, Zenon
    <2>4. CASE Take \/ ReadDevice \/ ReadProperties \/ Reconnect
        BY <2>4, TakeKeeps, ReadDeviceKeeps, ReadPropertiesKeeps, ReconnectKeeps, Zenon
    <2>5. CASE \E lost \in BOOLEAN : Fail(lost)
        BY <2>5, FailKeeps, Zenon
    <2>6. CASE \E taken \in SUBSET ItemIDs : Resolve(taken)
        BY <2>6, ResolveKeeps, Zenon
    <2>7. ASSUME NEW n \in 0..Len(job.at), NEW how \in [1..n -> {"stored", "clamped", "failed"}],
                 WriteValues(how)
          PROVE  AccessInv'
        BY <2>7, WriteValuesKeeps, Zenon
    <2>8. CASE UNCHANGED accessVars
        BY <2>8, AccessStutters, Zenon
    <2> QED BY <2>1, <2>2, <2>3, <2>4, <2>5, <2>6, <2>7, <2>8, Zenon DEF AccessNext
<1> QED BY <1>1, <1>2, PTL DEF AccessSpec

\* For a Write slot that answers Good the source took a write of this very slot to
\* the item it names, whatever was refused, repeated, timed out or cut off on the
\* way, and whatever value it stored (readwrite.go Write, write_windows.go
\* writeValues).
THEOREM GoodMeansWrittenAlways == AccessSpec => []GoodMeansWritten
<1>1. AccessInv => GoodMeansWritten
    <2> SUFFICES ASSUME AccessInv, NEW c \in Callers, NEW k \in DOMAIN call[c].slots,
                        Answered(c, "write", k)
                 PROVE  \E w \in written : w.slot = <<c, call[c].n, k>>
                                           /\ w.item = call[c].targets[k].node
        BY Zenon DEF GoodMeansWritten
    <2>1. /\ call[c].phase # "done" /\ call[c].todo = <<>> /\ call[c].kind = "write"
          /\ call[c].slots[k].status = "Good"
        BY DEF Answered, Settled
    <2>2. k \notin Left(call[c].todo)
        BY <2>1 DEF Left
    <2>3. Stored(written, c, call[c], k, call[c].slots[k])
        BY <2>1, <2>2, CallIs, Zenon DEF SlotsHold
    <2> QED BY <2>1, <2>3, Zenon DEF Stored, Wrote
<1> QED BY <1>1, AccessInvariant, PTL

\* A value a Read returns is the named item's own and was the source's during
\* this request, and the handles are those of the group of the connection that
\* is up, within the registration limit (da_windows.go readDevice,
\* registration.go).
THEOREM ReadsAreSoundAlways == AccessSpec => []ReadsAreSound
<1>1. AccessInv => ReadsAreSound
    <2> SUFFICES ASSUME AccessInv PROVE ReadsAreSound
        OBVIOUS
    <2>1. ReadsAreFresh
        <3> SUFFICES ASSUME NEW c \in Callers, NEW k \in DOMAIN call[c].slots,
                            Answered(c, "read", k), "value" \in DOMAIN call[c].slots[k]
                     PROVE  /\ call[c].slots[k].from = call[c].targets[k].node
                            /\ <<call[c].targets[k].node, call[c].slots[k].value>> \in standing[c]
            BY Zenon DEF ReadsAreFresh
        <3>1. call[c].phase # "done" /\ call[c].kind = "read"
            BY DEF Answered, Settled
        <3>2. Recent(standing[c], call[c], k, call[c].slots[k])
            BY <3>1, CallIs, Zenon DEF SlotsHold
        <3> QED BY <3>1, <3>2, Zenon DEF Recent
    <2>2. CacheMatchesGroup
        <3>1. /\ cache \in [ItemIDs -> Nat] /\ group \in Seq(ItemIDs)
              /\ \A i \in ItemIDs : cache[i] # 0 => cache[i] \in DOMAIN group /\ group[cache[i]] = i
              /\ \A h \in DOMAIN group : cache[group[h]] = h
              /\ Len(group) <= MaxRegisteredItems
            BY Zenon DEF AccessInv, GroupKept, HandleNames
        <3>2. \A h \in DOMAIN group : h # 0 /\ group[h] \in ItemIDs
            BY <3>1
        <3>3. Range(group) = {i \in ItemIDs : cache[i] # 0}
            <4>1. ASSUME NEW i \in Range(group) PROVE i \in ItemIDs /\ cache[i] # 0
                <5>1. PICK h \in DOMAIN group : group[h] = i
                    BY Zenon DEF Range
                <5>2. cache[group[h]] = h /\ h # 0 /\ group[h] \in ItemIDs
                    BY <3>1, <3>2, Zenon
                <5> QED BY <5>1, <5>2
            <4>2. \A i \in ItemIDs : cache[i] # 0 => i \in Range(group)
                BY <3>1, Zenon DEF Range
            <4> QED BY <4>1, <4>2, Zenon
        <3> QED BY <3>1, <3>3, Zenon DEF CacheMatchesGroup
    <2> QED BY <2>1, <2>2, Zenon DEF ReadsAreSound
<1> QED BY <1>1, AccessInvariant, PTL

=============================================================================
