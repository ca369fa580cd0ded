------------------------------ MODULE UABrowse ------------------------------
(***************************************************************************)
(* Browse and BrowseNext: answers too long for one response, and the       *)
(* continuation points sessions hold for the rest of them                  *)
(* (internal/opcua/browse.go). The nodes of one Browse are answered one    *)
(* after the other, with time and other sessions' requests in between.     *)
(***************************************************************************)
EXTENDS Naturals, Sequences, FiniteSets

CONSTANTS
    Sessions,
    MaxNodesPerBrowse, MaxReferencesPerNode, MaxContinuationPoints,
    ContinuationPointExpiry,
    Matching,      \* how many references may match a description
    Requested,     \* values of requestedMaxReferencesPerNode, 0 for no limit
    MaxPoints,     \* bound: continuation points ever handed out
    BrowseTime     \* bound on the clock

ASSUME BrowseAssumption ==
    /\ {MaxNodesPerBrowse, MaxReferencesPerNode, MaxContinuationPoints,
        ContinuationPointExpiry} \subseteq Nat \ {0}
    /\ Matching \subseteq Nat /\ Requested \subseteq Nat

VARIABLES
    time,
    points,     \* id -> what it continues, for the points that are held
    handed,     \* how many points were ever handed out: the next random id
    request,    \* of each session: the Browse being answered
    received    \* history: what the client has of each point's answer

pointVars == <<time, points, handed, request, received>>

NoRequest == [open |-> FALSE, now |-> 0, left |-> 0, maximum |-> 0, given |-> {}]

PointsInit ==
    /\ time = 0
    /\ points = <<>> /\ handed = 0
    /\ request = [s \in Sessions |-> NoRequest]
    /\ received = <<>>

-----------------------------------------------------------------------------

Keep(ids) == [p \in ids |-> points[p]]

Live(now) == {p \in DOMAIN points : now - points[p].createdAt < ContinuationPointExpiry}

\* What a session holds, and what of it is older than the request of this time:
\* a point created at the request's own time is not touched.
Own(ids, s) == {p \in ids : points[p].session = s}
Prior(ids, s, now) == {p \in Own(ids, s) : points[p].createdAt < now}

\* How many of a session's points have to go for one more.
Needed(ids, s) ==
    LET held == Cardinality(Own(ids, s))
    IN  IF held < MaxContinuationPoints THEN 0 ELSE held - MaxContinuationPoints + 1

HasRoom(ids, s, now) == Cardinality(Prior(ids, s, now)) >= Needed(ids, s)

\* freeOldestLocked: the points that go, oldest first, until there is room or no
\* older one is left. Of points of one time the order of a Go map decides.
FreeOldest(ids, s, now) ==
    LET prior == Prior(ids, s, now)
        many  == IF HasRoom(ids, s, now) THEN Needed(ids, s) ELSE Cardinality(prior)
    IN  {gone \in SUBSET prior :
            /\ Cardinality(gone) = many
            /\ \A p \in gone, q \in prior \ gone : points[p].createdAt <= points[q].createdAt}

\* Mutation: the rest begins one reference too late.
NewPointSkips(kept, s, remaining, maximum, now) ==
    [p \in kept \cup {handed + 1} |->
        IF p = handed + 1
        THEN [session |-> s, remaining |-> Tail(remaining), maximum |-> maximum,
              createdAt |-> now]
        ELSE points[p]]

NewPoint(kept, s, remaining, maximum, now) ==
    [p \in kept \cup {handed + 1} |->
        IF p = handed + 1
        THEN [session |-> s, remaining |-> remaining, maximum |-> maximum, createdAt |-> now]
        ELSE points[p]]

\* Browse: an empty or too long list of nodes, or a view, is refused whole.
BrowseOpens(s, n, most) ==
    /\ ~request[s].open
    /\ n > 0 /\ n <= MaxNodesPerBrowse
    /\ request' = [request EXCEPT ![s] =
          [open |-> TRUE, now |-> time, left |-> n, given |-> {},
           maximum |-> IF most > 0 /\ most < MaxReferencesPerNode
                       THEN most ELSE MaxReferencesPerNode]]
    /\ UNCHANGED <<time, points, handed, received>>

NodeAnswered(r, given) == [r EXCEPT !.left = @ - 1, !.given = @ \cup given]

\* One node of it. An answer that does not fit gets a continuation point, or
\* fails whole when the session has no room for one.
BrowseNode(s, matching) ==
    LET r == request[s]
        matched == [k \in 1..matching |-> k]
        live == Live(r.now)
        answered(given) == [request EXCEPT ![s] = NodeAnswered(r, given)]
    IN  /\ r.open /\ r.left > 0
        /\ handed < MaxPoints
        /\ IF matching <= r.maximum
           THEN request' = answered({}) /\ UNCHANGED <<points, handed, received>>
           ELSE \E gone \in FreeOldest(live, s, r.now) :
                IF HasRoom(live, s, r.now)
                THEN /\ points' = NewPoint(live \ gone, s,
                                    SubSeq(matched, r.maximum + 1, matching), r.maximum, r.now)
                     /\ handed' = handed + 1
                     /\ received' = Append(received, SubSeq(matched, 1, r.maximum))
                     /\ request' = answered({handed + 1})
                ELSE /\ points' = Keep(live \ gone)
                     /\ request' = answered({})
                     /\ UNCHANGED <<handed, received>>
        /\ UNCHANGED time

BrowseCloses(s) ==
    /\ request[s].open /\ request[s].left = 0
    /\ request' = [request EXCEPT ![s] = NoRequest]
    /\ UNCHANGED <<time, points, handed, received>>

\* BrowseNext with one point: it is consumed, and continued by a new one when
\* more is left. A point of another session is not valid here.
BrowseNext(s, p) ==
    /\ ~request[s].open /\ handed < MaxPoints
    /\ LET live == Live(time)
       IN  IF p \notin live \/ points[p].session # s
           THEN points' = Keep(live) /\ UNCHANGED <<handed, received>>
           ELSE LET stored == points[p]
                    done == Len(stored.remaining) <= stored.maximum
                IN  /\ points' = IF done THEN Keep(live \ {p})
                                 ELSE NewPoint(live \ {p}, s,
                                        SubSeq(stored.remaining, stored.maximum + 1,
                                               Len(stored.remaining)),
                                        stored.maximum, time)
                    /\ handed' = IF done THEN handed ELSE handed + 1
                    /\ received' = IF done
                          THEN [received EXCEPT ![p] = @ \o stored.remaining]
                          ELSE Append(received,
                                  received[p] \o SubSeq(stored.remaining, 1, stored.maximum))
    /\ UNCHANGED <<time, request>>

\* BrowseNext with releaseContinuationPoints.
ReleasePoint(s, p) ==
    /\ ~request[s].open
    /\ p \in DOMAIN points /\ points[p].session = s
    /\ points' = Keep(DOMAIN points \ {p})
    /\ UNCHANGED <<time, handed, request, received>>

\* The session ends, possibly while a request of it is being answered: that
\* request goes on, and what it stores from then on only expiry removes.
ReleaseSession(s) ==
    /\ points' = Keep({p \in DOMAIN points : points[p].session # s})
    /\ request' = [request EXCEPT ![s] = [@ EXCEPT !.given = {}]]
    /\ UNCHANGED <<time, handed, received>>

ExpireContinuationPoints ==
    /\ points' = Keep(Live(time))
    /\ UNCHANGED <<time, handed, request, received>>

TimePasses ==
    /\ time < BrowseTime
    /\ time' = time + 1
    /\ UNCHANGED <<points, handed, request, received>>

PointsNext ==
    \/ TimePasses \/ ExpireContinuationPoints
    \/ \E s \in Sessions :
          \/ \E n \in 1..MaxNodesPerBrowse, most \in Requested : BrowseOpens(s, n, most)
          \/ \E matching \in Matching : BrowseNode(s, matching)
          \/ BrowseCloses(s) \/ ReleaseSession(s)
          \/ \E p \in 1..handed : BrowseNext(s, p) \/ ReleasePoint(s, p)

PointsSpec == PointsInit /\ [][PointsNext]_pointVars

-----------------------------------------------------------------------------
(* Properties *)

\* What a client has received through a chain of continuation points, followed
\* by what the chain's live point still holds, is everything that matched, each
\* reference once and in order: no reference is lost or repeated where one
\* response ends and the next begins.
NothingLostBetween ==
    \A p \in DOMAIN points :
        LET all == received[p] \o points[p].remaining
        IN  all = [k \in 1..Len(all) |-> k] /\ Len(all) \in Matching

\* A session never holds more points than its limit, and making room never
\* revokes a point handed out in the response being built: such a point is
\* gone before the response only if building it took longer than a point lives.
ResponsePointsLive ==
    \A s \in Sessions :
        /\ Cardinality(Own(DOMAIN points, s)) <= MaxContinuationPoints
        /\ request[s].given \subseteq DOMAIN points
              \/ time - request[s].now >= ContinuationPointExpiry

\* Continuation points do what a client relies on: they continue where their
\* response ended, and the ones in a response are there when it arrives.
ContinuationSound == NothingLostBetween /\ ResponsePointsLive
=============================================================================
