--------------------------- MODULE UAServerProofs ---------------------------
(***************************************************************************)
(* Proofs about what serves OPC UA clients.                                *)
(*                                                                         *)
(* The sessions, for any number of sessions, channels and requests: the    *)
(* in-flight count of a session, the limits of the registries, and the DA  *)
(* groups of a session that ended. The listener, for any number of         *)
(* connections, which may go on for ever: the connection bounds count      *)
(* exactly what they bound, Close misses no connection, and nothing runs   *)
(* once Serve has returned.                                                *)
(*                                                                         *)
(* The subscriptions: a message stays in the retransmission queue until it *)
(* is acknowledged or too old, what an item holds is queued once and       *)
(* reported once, and the values of an item are in order.                  *)
(***************************************************************************)
EXTENDS UASession, UAListener, UASubscription, SelectionTheorems, FiniteSetTheorems, TLAPS

-----------------------------------------------------------------------------
(* Sessions *)

\* The states in which a Publish is counted in its session's inFlight.
InService == {"begun", "watched", "unwatched", "failed", "answered"}

\* A CreateSession being handled has a token of its own that nobody has used.
TokensFresh ==
    /\ \A c \in Channels : creating[c] # NoSession => creating[c] \notin live \cup ended
    /\ \A c, d \in Channels : creating[c] = creating[d] /\ creating[c] # NoSession => c = d

\* BeginRequest and releaseRequest balance for every session, also an ended one.
CountsBalance == \A s \in Sessions : inFlight[s] = Cardinality(Serving(s))

\* A subscription keeps the request that made it; the one a request under way
\* names is of the same session, and gone once the session's end hook has run.
TargetsOwned ==
    /\ \A r \in subs : pc[r] = "done"
    /\ \A r \in Requests : pc[r] = "checked" /\ kind[r] \in {"monitor", "delete"} =>
           /\ pc[target[r]] = "done"
           /\ sess[target[r]] = sess[r]
           /\ sess[r] \in ended \ hooks => target[r] \notin subs

\* A session whose end hook has run is referred to by no subscription with a group.
UnreferencedAfterHook == \A s \in ended \ hooks : SubsOf(s) \cap groups = {}

\* At any time finitely many requests have been made.
Started == {r \in Requests : pc[r] # "idle"}

OwnershipInv ==
    /\ SessionTypeOK
    /\ IsFiniteSet(live) /\ IsFiniteSet(Started)
    /\ TokensFresh
    /\ CountsBalance
    /\ TargetsOwned
    /\ UnreferencedAfterHook

-----------------------------------------------------------------------------
(* Cardinalities *)

\* A finite set grows by at most one element at a time.
LEMMA OneMore ==
    ASSUME NEW S, NEW x, IsFiniteSet(S), NEW n \in Nat, Cardinality(S) < n
    PROVE  IsFiniteSet(S \cup {x}) /\ Cardinality(S \cup {x}) <= n
<1>1. /\ IsFiniteSet(S \cup {x})
      /\ Cardinality(S \cup {x}) = Cardinality(S) \/ Cardinality(S \cup {x}) = Cardinality(S) + 1
  BY FS_AddElement
<1>2. Cardinality(S) \in Nat
  BY FS_CardinalityType
<1> QED
  BY <1>1, <1>2

\* What is left of a finite set is no larger.
LEMMA NoMore ==
    ASSUME NEW S, NEW T, IsFiniteSet(S), T \subseteq S, NEW n \in Nat, Cardinality(S) <= n
    PROVE  IsFiniteSet(T) /\ Cardinality(T) <= n
BY FS_Subset, FS_CardinalityType

\* The Publishes being served for a session are finitely many, and so are the
\* subscriptions.
LEMMA OwnedFinite ==
    ASSUME OwnershipInv
    PROVE  /\ \A s : IsFiniteSet(Serving(s)) /\ Cardinality(Serving(s)) \in Nat
           /\ IsFiniteSet(subs) /\ Cardinality(subs) \in Nat
<1>1. subs \subseteq Started /\ IsFiniteSet(Started)
  BY DEF OwnershipInv, SessionTypeOK, TargetsOwned, Started
<1>2. IsFiniteSet(subs)
  BY <1>1, FS_Subset
<1>3. ASSUME NEW s PROVE IsFiniteSet(Serving(s))
  <2>1. Serving(s) \subseteq Started
    BY DEF Serving, Started
  <2> QED
    BY <1>1, <2>1, FS_Subset
<1> QED
  BY <1>2, <1>3, FS_CardinalityType

-----------------------------------------------------------------------------

\* Before the first CreateSession nothing is owned.
LEMMA OwnershipInit == SessionInit => OwnershipInv
<1> SUFFICES ASSUME SessionInit PROVE OwnershipInv
  OBVIOUS
<1>1. /\ IsFiniteSet(live) /\ Cardinality(live) = 0 /\ Cardinality(subs) = 0
      /\ IsFiniteSet(Started)
  <2>1. live = {} /\ subs = {} /\ Started = {}
    BY DEF SessionInit, Started
  <2> QED
    BY <2>1, FS_EmptySet
<1>2. AnyChannel \in Channels /\ (CHOOSE s \in Sessions : TRUE) \in Sessions
  BY SessionAssumption DEF AnyChannel
<1>3. SessionTypeOK
  BY <1>1, <1>2, SessionAssumption DEF SessionInit, SessionTypeOK, PCs, Kinds, Answers
<1>4. \A s \in Sessions : Serving(s) = {}
  BY DEF SessionInit, Serving
<1>5. CountsBalance
  BY <1>4, FS_EmptySet DEF SessionInit, CountsBalance
<1> QED
  BY <1>1, <1>3, <1>5
     DEF OwnershipInv, SessionInit, TokensFresh, TargetsOwned, UnreferencedAfterHook

\* The registry's own steps: sessions come and go, requests are left alone.
LEMMA RegistryKeepsOwnership ==
    ASSUME OwnershipInv,
           \/ \E s \in Sessions : TimePasses(s) \/ ResolveExpired(s) \/ EndHook(s)
           \/ \E c \in Channels, s \in Sessions :
                  BeginCreateSession(c, s) \/ Activate(c, s) \/ Close(c, s)
           \/ \E c \in Channels : Create(c) \/ Disconnect(c)
           \/ ExpireStale \/ ShutdownCloses \/ TerminateAll
    PROVE  OwnershipInv'
<1> USE DEF OwnershipInv, registryVars, requestVars, publishVars, daGroups, releaseDASubscription
<1>0. UNCHANGED <<inFlight, pc, kind, sess, chan, target, answer, terminated, cancelled>>
  BY DEF TimePasses, ResolveExpired, EndHook, BeginCreateSession, Activate, Close, Create,
     Disconnect, ExpireStale, ShutdownCloses, TerminateAll
<1>1. CountsBalance' /\ IsFiniteSet(Started')
  <2>1. \A s \in Sessions : Serving(s)' = Serving(s)
    BY <1>0 DEF Serving
  <2>2. Started' = Started
    BY <1>0 DEF Started
  <2> QED
    BY <1>0, <2>1, <2>2 DEF CountsBalance
<1>2. ASSUME NEW s \in Sessions, TimePasses(s)
      PROVE  OwnershipInv'
  BY <1>0, <1>1, <1>2 DEF TimePasses, SessionTypeOK, TokensFresh, TargetsOwned,
     UnreferencedAfterHook, SubsOf
<1>3. ASSUME NEW gone, gone \subseteq live, terminateLocked(gone),
             UNCHANGED <<subs, groups, open, creating, createdOn, bound, activated, quiet>>,
             timedOut' \subseteq timedOut \cup gone,
             shutdown' \in {"running", "closed", "terminated"}
      PROVE  OwnershipInv'
  <2>1. /\ live' = live \ gone /\ ended' = ended \cup gone /\ hooks' = hooks \cup gone
        /\ ended' \ hooks' \subseteq ended \ hooks
    BY <1>3 DEF terminateLocked
  <2>2. IsFiniteSet(live') /\ Cardinality(live') <= MaxSessions
    <3>1. live' \subseteq live /\ IsFiniteSet(live) /\ Cardinality(live) <= MaxSessions
          /\ MaxSessions \in Nat
      BY <2>1, SessionAssumption DEF SessionTypeOK
    <3> QED
      BY <3>1, NoMore
  <2>3. SessionTypeOK'
    BY <1>0, <1>3, <2>1, <2>2 DEF SessionTypeOK
  <2>4. TokensFresh' /\ TargetsOwned' /\ UnreferencedAfterHook'
    BY <1>0, <1>3, <2>1 DEF SessionTypeOK, TokensFresh, TargetsOwned,
       UnreferencedAfterHook, SubsOf
  <2> QED
    BY <1>1, <2>2, <2>3, <2>4
<1>4. CASE \/ \E s \in Sessions : ResolveExpired(s)
           \/ \E c \in Channels, s \in Sessions : Close(c, s)
           \/ ExpireStale \/ TerminateAll
  <2>1. shutdown \in {"running", "closed", "terminated"}
    BY DEF SessionTypeOK
  <2>2. ASSUME NEW s \in Sessions, ResolveExpired(s) PROVE OwnershipInv'
    BY <1>3, <2>1, <2>2 DEF ResolveExpired
  <2>3. ASSUME NEW c \in Channels, NEW s \in Sessions, Close(c, s) PROVE OwnershipInv'
    BY <1>3, <2>1, <2>3 DEF Close
  <2>4. CASE ExpireStale
    BY <1>3, <2>1, <2>4 DEF ExpireStale
  <2>5. CASE TerminateAll
    BY <1>3, <2>1, <2>5 DEF TerminateAll
  <2> QED
    BY <1>4, <2>2, <2>3, <2>4, <2>5
<1>5. ASSUME NEW s \in Sessions, EndHook(s)
      PROVE  OwnershipInv'
  <2>1. subs' \subseteq subs /\ groups' \subseteq groups /\ groups' \subseteq subs'
        /\ hooks' = hooks \ {s} /\ subs' = {r \in subs : sess[r] # s}
    BY <1>5 DEF EndHook, SubsOf, SessionTypeOK
  <2>2. Cardinality(subs') <= MaxSubscriptions
    <3>1. IsFiniteSet(subs) /\ Cardinality(subs) <= MaxSubscriptions /\ MaxSubscriptions \in Nat
      BY SessionAssumption, OwnedFinite DEF SessionTypeOK
    <3> QED
      BY <2>1, <3>1, NoMore
  <2>3. SessionTypeOK'
    BY <1>0, <1>5, <2>1, <2>2 DEF EndHook, SessionTypeOK
  <2>4. TokensFresh' /\ IsFiniteSet(live')
    BY <1>5 DEF EndHook, TokensFresh
  <2>5. TargetsOwned'
    BY <1>0, <1>5, <2>1 DEF EndHook, TargetsOwned
  <2>6. UnreferencedAfterHook'
    BY <1>0, <1>5, <2>1 DEF EndHook, UnreferencedAfterHook, SubsOf
  <2> QED
    BY <1>1, <2>3, <2>4, <2>5, <2>6
<1>6. ASSUME NEW c \in Channels, NEW s \in Sessions, BeginCreateSession(c, s)
      PROVE  OwnershipInv'
  <2>1. TokensFresh'
    BY <1>6 DEF BeginCreateSession, TokensFresh, SessionTypeOK
  <2> QED
    BY <1>0, <1>1, <1>6, <2>1 DEF BeginCreateSession, SessionTypeOK, TargetsOwned,
       UnreferencedAfterHook, SubsOf
<1>7. ASSUME NEW c \in Channels, NEW s \in Sessions, Activate(c, s)
      PROVE  OwnershipInv'
  BY <1>0, <1>1, <1>7 DEF Activate, SessionTypeOK, TokensFresh, TargetsOwned,
     UnreferencedAfterHook, SubsOf
<1>8. ASSUME NEW c \in Channels, Create(c)
      PROVE  OwnershipInv'
  <2>1. creating[c] \in Sessions /\ creating[c] \notin live \cup ended
    BY <1>8 DEF Create, TokensFresh, SessionTypeOK
  <2>2. live' \subseteq live \cup {creating[c]}
        /\ IsFiniteSet(live') /\ Cardinality(live') <= MaxSessions
    <3>1. CASE Cardinality(live) >= MaxSessions
      BY <1>8, <3>1 DEF Create, SessionTypeOK
    <3>2. CASE ~(Cardinality(live) >= MaxSessions)
      <4>1. Cardinality(live) \in Nat /\ MaxSessions \in Nat /\ Cardinality(live) < MaxSessions
        BY <3>2, SessionAssumption, FS_CardinalityType
      <4>2. live' = live \cup {creating[c]}
        BY <1>8, <3>2 DEF Create
      <4> QED
        BY <4>1, <4>2, OneMore
    <3> QED
      BY <3>1, <3>2
  <2>3. /\ createdOn' \in [Sessions -> Channels] /\ bound' \in [Sessions -> Channels]
        /\ creating' \in [Channels -> Sessions \cup {NoSession}]
        /\ live \subseteq live'
    BY <1>8, <2>1 DEF Create, SessionTypeOK
  <2>4. SessionTypeOK'
    BY <1>0, <1>8, <2>1, <2>2, <2>3 DEF Create, SessionTypeOK
  <2>5. TokensFresh'
    BY <1>8, <2>1, <2>2 DEF Create, TokensFresh, SessionTypeOK
  <2>6. TargetsOwned' /\ UnreferencedAfterHook'
    BY <1>0, <1>8 DEF Create, TargetsOwned, UnreferencedAfterHook, SubsOf
  <2> QED
    BY <1>1, <2>2, <2>4, <2>5, <2>6
<1>9. CASE ShutdownCloses \/ \E c \in Channels : Disconnect(c)
  BY <1>0, <1>1, <1>9 DEF ShutdownCloses, Disconnect, SessionTypeOK, TokensFresh,
     TargetsOwned, UnreferencedAfterHook, SubsOf
<1> QED
  BY <1>2, <1>4, <1>5, <1>6, <1>7, <1>8, <1>9

\* Requests that check a session and then act on its subscriptions.
LEMMA ServicesKeepOwnership ==
    ASSUME OwnershipInv, NEW r \in Requests,
           \/ \E k \in Kinds, s \in Sessions, c \in Channels : StartRequest(r, k, s, c)
           \/ CreateSubscription(r) \/ CreateItems(r) \/ DeleteSubscriptions(r)
           \/ SubscriptionExpires(r)
    PROVE  OwnershipInv'
<1> USE DEF OwnershipInv, registryVars, requestVars, publishVars, daGroups, releaseDASubscription
<1>0. /\ UNCHANGED <<live, ended, timedOut, createdOn, bound, activated, hooks, inFlight,
                     open, creating, terminated, cancelled, shutdown>>
      /\ IsFiniteSet(live') /\ TokensFresh'
  BY DEF StartRequest, CreateSubscription, CreateItems, DeleteSubscriptions,
     SubscriptionExpires, TokensFresh
<1>1. IsFiniteSet(subs) /\ Cardinality(subs) \in Nat /\ Cardinality(subs) <= MaxSubscriptions
      /\ MaxSubscriptions \in Nat
  BY SessionAssumption, OwnedFinite DEF SessionTypeOK
<1>s. IsFiniteSet(Started')
  <2>1. Started' \subseteq Started \cup {r}
    <3>1. \A q \in Requests : q # r => pc'[q] = pc[q]
      BY DEF StartRequest, CreateSubscription, CreateItems, DeleteSubscriptions,
         SubscriptionExpires, Done, SessionTypeOK
    <3> QED
      BY <3>1 DEF Started
  <2>2. IsFiniteSet(Started \cup {r})
    BY FS_AddElement
  <2> QED
    BY <2>1, <2>2, FS_Subset
<1>2. ASSUME NEW k \in Kinds, NEW s \in Sessions, NEW c \in Channels,
             StartRequest(r, k, s, c)
      PROVE  OwnershipInv'
  <2>1. /\ pc[r] = "idle" /\ s \in live /\ UNCHANGED <<subs, groups>>
        /\ pc' = [pc EXCEPT ![r] = pc'[r]] /\ pc'[r] \in {"checked", "done", "counted"}
        /\ sess' = [sess EXCEPT ![r] = s] /\ kind' = [kind EXCEPT ![r] = k]
        /\ \A q \in Requests \ {r} : target'[q] = target[q]
        /\ k \in {"monitor", "delete"} =>
               /\ target'[r] \in Requests
               /\ pc[target'[r]] = "done" /\ sess[target'[r]] = s
    BY <1>2 DEF StartRequest, Known, SessionTypeOK
  <2>2. SessionTypeOK'
    <3>1. /\ kind' \in [Requests -> Kinds] /\ sess' \in [Requests -> Sessions]
          /\ chan' \in [Requests -> Channels] /\ target' \in [Requests -> Requests]
          /\ quiet' \subseteq Sessions /\ answer' \in [Requests -> Answers]
      BY <1>2 DEF StartRequest, SessionTypeOK, Known, Answers
    <3>2. pc' \in [Requests -> PCs]
      BY <1>2, <2>1 DEF StartRequest, SessionTypeOK, PCs
    <3> QED
      BY <1>0, <2>1, <3>1, <3>2 DEF SessionTypeOK
  <2>3. CountsBalance'
    <3>1. \A t \in Sessions : Serving(t)' = Serving(t)
      BY <2>1 DEF Serving, SessionTypeOK
    <3> QED
      BY <1>0, <3>1 DEF CountsBalance
  <2>4. TargetsOwned'
    <3>1. r \notin subs /\ \A q \in Requests : pc[q] = "done" => q # r
      BY <2>1 DEF TargetsOwned
    <3>2. s \notin ended
      BY <2>1 DEF SessionTypeOK
    <3>3. \A q \in Requests \ {r} : pc'[q] = pc[q] /\ sess'[q] = sess[q] /\ kind'[q] = kind[q]
                                    /\ target[q] \in Requests
      BY <2>1 DEF SessionTypeOK
    <3>4. \A q \in subs' : pc'[q] = "done"
      BY <2>1, <3>1, <3>3 DEF TargetsOwned, SessionTypeOK
    <3>5. ASSUME NEW q \in Requests \ {r}, pc'[q] = "checked", kind'[q] \in {"monitor", "delete"}
          PROVE  /\ pc'[target'[q]] = "done" /\ sess'[target'[q]] = sess'[q]
                 /\ sess'[q] \in ended' \ hooks' => target'[q] \notin subs'
      BY <1>0, <2>1, <3>1, <3>3, <3>5 DEF TargetsOwned
    <3>6. ASSUME pc'[r] = "checked", kind'[r] \in {"monitor", "delete"}
          PROVE  /\ pc'[target'[r]] = "done" /\ sess'[target'[r]] = sess'[r]
                 /\ sess'[r] \notin ended'
      BY <1>0, <2>1, <3>1, <3>2, <3>3, <3>6 DEF SessionTypeOK
    <3> QED
      BY <3>4, <3>5, <3>6 DEF TargetsOwned
  <2>5. UnreferencedAfterHook'
    <3>1. \A q \in subs : sess'[q] = sess[q]
      BY <2>1 DEF TargetsOwned, SessionTypeOK
    <3> QED
      BY <1>0, <2>1, <3>1 DEF UnreferencedAfterHook, SubsOf
  <2> QED
    BY <1>0, <1>s, <2>2, <2>3, <2>4, <2>5
<1>3. CASE CreateSubscription(r) \/ CreateItems(r) \/ DeleteSubscriptions(r)
  <2>1. /\ UNCHANGED <<kind, sess, chan, target, answer, quiet>> /\ pc[r] = "checked"
        /\ pc' = [pc EXCEPT ![r] = "done"]
    BY <1>3 DEF CreateSubscription, CreateItems, DeleteSubscriptions, Done
  <2>2. CountsBalance'
    <3>1. \A t \in Sessions : Serving(t)' = Serving(t)
      BY <2>1 DEF Serving, SessionTypeOK
    <3> QED
      BY <1>0, <3>1 DEF CountsBalance
  <2>3. CASE CreateSubscription(r)
    <3>1. Cardinality(subs') <= MaxSubscriptions
      <4>1. CASE subs' = subs
        BY <1>1, <4>1
      <4>2. CASE subs' = subs \cup {r} /\ Cardinality(subs) < MaxSubscriptions
        BY <1>1, <4>2, OneMore
      <4> QED
        BY <1>1, <2>3, <4>1, <4>2 DEF CreateSubscription
    <3>2. subs \subseteq subs' /\ subs' \subseteq subs \cup {r} /\ groups' = groups
      BY <2>3 DEF CreateSubscription
    <3>3. SessionTypeOK'
      BY <1>0, <2>1, <3>1, <3>2 DEF SessionTypeOK, PCs
    <3>4. TargetsOwned'
      BY <1>0, <2>1, <3>2 DEF TargetsOwned, SessionTypeOK
    <3>5. UnreferencedAfterHook'
      BY <1>0, <2>1, <3>2 DEF UnreferencedAfterHook, SubsOf, SessionTypeOK
    <3> QED
      BY <1>0, <1>s, <2>2, <3>3, <3>4, <3>5
  <2>4. CASE CreateItems(r)
    <3>1. /\ subs' = subs
          /\ \/ groups' = groups
             \/ target[r] \in SubsOf(sess[r]) /\ groups' = groups \cup {target[r]}
             \/ groups' = groups \ {target[r]}
          /\ kind[r] = "monitor"
      BY <2>4 DEF CreateItems, rebuildDASubscription
    <3>2. SessionTypeOK'
      BY <1>0, <2>1, <3>1 DEF SessionTypeOK, PCs, SubsOf
    <3>3. TargetsOwned'
      BY <1>0, <2>1, <3>1 DEF TargetsOwned, SessionTypeOK
    <3>4. UnreferencedAfterHook'
      BY <1>0, <2>1, <3>1 DEF UnreferencedAfterHook, SubsOf, TargetsOwned
    <3> QED
      BY <1>0, <1>s, <2>2, <3>2, <3>3, <3>4
  <2>5. CASE DeleteSubscriptions(r)
    <3>1. subs' = subs \ {target[r]} /\ groups' = groups \ {target[r]}
      BY <2>5 DEF DeleteSubscriptions
    <3>2. Cardinality(subs') <= MaxSubscriptions
      BY <1>1, <3>1, NoMore
    <3>3. SessionTypeOK'
      BY <1>0, <2>1, <3>1, <3>2 DEF SessionTypeOK, PCs
    <3>4. TargetsOwned'
      BY <1>0, <2>1, <3>1 DEF TargetsOwned, SessionTypeOK
    <3>5. UnreferencedAfterHook'
      BY <1>0, <2>1, <3>1 DEF UnreferencedAfterHook, SubsOf
    <3> QED
      BY <1>0, <1>s, <2>2, <3>3, <3>4, <3>5
  <2> QED
    BY <1>3, <2>3, <2>4, <2>5
<1>4. CASE SubscriptionExpires(r)
  <2>1. /\ UNCHANGED <<kind, sess, chan, target, answer, quiet, pc>>
        /\ subs' = subs \ {r} /\ groups' = groups \ {r}
    BY <1>4 DEF SubscriptionExpires
  <2>2. Cardinality(subs') <= MaxSubscriptions
    BY <1>1, <2>1, NoMore
  <2>3. SessionTypeOK'
    BY <1>0, <2>1, <2>2 DEF SessionTypeOK
  <2>4. CountsBalance'
    <3>1. \A t \in Sessions : Serving(t)' = Serving(t)
      BY <2>1 DEF Serving
    <3> QED
      BY <1>0, <3>1 DEF CountsBalance
  <2>5. TargetsOwned' /\ UnreferencedAfterHook'
    BY <1>0, <2>1 DEF TargetsOwned, UnreferencedAfterHook, SubsOf
  <2> QED
    BY <1>0, <1>s, <2>3, <2>4, <2>5
<1> QED
  BY <1>2, <1>3, <1>4

\* A held Publish, from BeginRequest to its release, is counted exactly once.
LEMMA PublishKeepsOwnership ==
    ASSUME OwnershipInv, NEW r \in Requests,
           \/ BeginRequest(r) \/ Ended(r) \/ PublishFault(r) \/ ReleaseRequest(r)
           \/ PublishCancelled(r) \/ PublishTick(r) \/ Watcher(r)
    PROVE  OwnershipInv'
<1> USE DEF OwnershipInv, registryVars, requestVars, publishVars, daGroups, releaseDASubscription
<1>0. UNCHANGED <<live, ended, timedOut, createdOn, bound, activated, hooks, subs, groups,
                  open, creating, kind, sess, chan, target, shutdown>>
  BY DEF BeginRequest, Ended, PublishFault, ReleaseRequest, PublishCancelled, PublishTick,
     TryPublishFails, TryPublishReady, Watcher, WatcherSeesEnd, WatcherSeesDisconnect
<1>1. /\ pc[r] \in InService \cup {"counted"}
      /\ pc' = [pc EXCEPT ![r] = pc'[r]] /\ pc'[r] \in InService \cup {"done"}
  BY DEF BeginRequest, Ended, PublishFault, ReleaseRequest, PublishCancelled, PublishTick,
     TryPublishFails, TryPublishReady, Watcher, WatcherSeesEnd, WatcherSeesDisconnect,
     Done, InService, SessionTypeOK
<1>2. answer' \in [Requests -> Answers] /\ quiet' \subseteq Sessions
      /\ terminated' \subseteq cancelled' /\ cancelled' \subseteq Requests
  BY DEF BeginRequest, Ended, PublishFault, ReleaseRequest, PublishCancelled, PublishTick,
     TryPublishFails, TryPublishReady, Watcher, WatcherSeesEnd, WatcherSeesDisconnect,
     SessionTypeOK, Answers
<1>3. TokensFresh' /\ TargetsOwned' /\ UnreferencedAfterHook' /\ IsFiniteSet(live')
  <2>1. TokensFresh' /\ IsFiniteSet(live')
    BY <1>0 DEF TokensFresh
  <2>2. TargetsOwned'
    BY <1>0, <1>1 DEF TargetsOwned, SessionTypeOK, InService
  <2>3. UnreferencedAfterHook'
    BY <1>0 DEF UnreferencedAfterHook, SubsOf
  <2> QED
    BY <2>1, <2>2, <2>3
<1>4. inFlight' \in [Sessions -> Nat] /\ CountsBalance'
  <2>0. inFlight \in [Sessions -> Nat] /\ sess[r] \in Sessions /\ pc \in [Requests -> PCs]
        /\ \A t \in Sessions : inFlight[t] = Cardinality(Serving(t))
    BY DEF SessionTypeOK, CountsBalance
  <2>1. \A t \in Sessions : t # sess[r] => Serving(t)' = Serving(t)
    BY <1>0, <1>1, <2>0 DEF Serving
  <2>2. CASE BeginRequest(r) /\ sess[r] \in live
    <3>1. r \notin Serving(sess[r]) /\ Serving(sess[r])' = Serving(sess[r]) \cup {r}
      BY <1>0, <2>0, <2>2 DEF BeginRequest, Serving
    <3>2. Cardinality(Serving(sess[r]) \cup {r}) = Cardinality(Serving(sess[r])) + 1
      BY <3>1, OwnedFinite, FS_AddElement
    <3>3. inFlight' = [inFlight EXCEPT ![sess[r]] = @ + 1]
      BY <2>2 DEF BeginRequest
    <3>4. /\ inFlight' \in [Sessions -> Nat] /\ inFlight'[sess[r]] = inFlight[sess[r]] + 1
          /\ \A t \in Sessions : t # sess[r] => inFlight'[t] = inFlight[t]
      BY <2>0, <3>3
    <3> QED
      BY <1>0, <2>0, <2>1, <3>1, <3>2, <3>4 DEF CountsBalance
  <2>3. CASE ReleaseRequest(r)
    <3>1. r \in Serving(sess[r]) /\ Serving(sess[r])' = Serving(sess[r]) \ {r}
      BY <1>0, <2>0, <2>3 DEF ReleaseRequest, Done, Serving
    <3>2. /\ Cardinality(Serving(sess[r]) \ {r}) = Cardinality(Serving(sess[r])) - 1
          /\ Cardinality(Serving(sess[r])) \in Nat
          /\ Cardinality(Serving(sess[r]) \ {r}) \in Nat
      BY <3>1, OwnedFinite, FS_RemoveElement, FS_CardinalityType
    <3>3. inFlight' = [inFlight EXCEPT ![sess[r]] = IF @ > 0 THEN @ - 1 ELSE 0]
      BY <2>3 DEF ReleaseRequest
    <3>4. /\ inFlight[sess[r]] = Cardinality(Serving(sess[r])) /\ inFlight[sess[r]] > 0
      BY <2>0, <3>2
    <3>5. /\ inFlight' \in [Sessions -> Nat] /\ inFlight'[sess[r]] = inFlight[sess[r]] - 1
          /\ \A t \in Sessions : t # sess[r] => inFlight'[t] = inFlight[t]
      BY <2>0, <3>3, <3>4
    <3> QED
      BY <1>0, <2>0, <2>1, <3>1, <3>2, <3>4, <3>5 DEF CountsBalance
  <2>4. CASE ~(BeginRequest(r) /\ sess[r] \in live) /\ ~ReleaseRequest(r)
    <3>1. /\ inFlight' = inFlight
          /\ \/ pc[r] = "counted" /\ pc'[r] = "done"
             \/ pc[r] \in InService /\ pc'[r] \in InService
      BY <2>0, <2>4 DEF BeginRequest, Ended, PublishFault, PublishCancelled, PublishTick,
         TryPublishFails, TryPublishReady, Watcher, WatcherSeesEnd, WatcherSeesDisconnect,
         Done, InService
    <3>2. Serving(sess[r])' = Serving(sess[r])
      BY <1>0, <1>1, <2>0, <3>1 DEF Serving, InService
    <3> QED
      BY <1>0, <2>0, <2>1, <3>1, <3>2 DEF CountsBalance
  <2> QED
    BY <2>2, <2>3, <2>4
<1>5. pc' \in [Requests -> PCs] /\ Started' = Started
  BY <1>1 DEF SessionTypeOK, InService, PCs, Started
<1> QED
  BY <1>0, <1>2, <1>3, <1>4, <1>5 DEF SessionTypeOK

\* Every step keeps the invariant.
LEMMA OwnershipStep == OwnershipInv /\ [SessionNext]_sessionVars => OwnershipInv'
<1> SUFFICES ASSUME OwnershipInv, [SessionNext]_sessionVars PROVE OwnershipInv'
  OBVIOUS
<1>1. CASE SessionNext
  BY <1>1, RegistryKeepsOwnership, ServicesKeepOwnership, PublishKeepsOwnership
     DEF SessionNext, RequestStep
<1>2. CASE UNCHANGED sessionVars
  <2>1. Started' = Started /\ \A s \in Sessions : Serving(s)' = Serving(s)
    BY <1>2 DEF sessionVars, requestVars, Serving, Started
  <2> QED
    BY <1>2, <2>1 DEF OwnershipInv, SessionTypeOK, TokensFresh, CountsBalance,
       TargetsOwned, UnreferencedAfterHook, SubsOf, sessionVars, daGroups, registryVars,
       requestVars, publishVars
<1> QED
  BY <1>1, <1>2

\* The invariant holds throughout.
LEMMA OwnershipAlways == SessionSpec => []OwnershipInv
BY OwnershipInit, OwnershipStep, PTL DEF SessionSpec

\* A release drops references and, of the groups it releases, leaves at the source
\* only those it failed for.
LEMMA ReleaseAccounts ==
    ASSUME GroupsAccounted, groups \subseteq Requests, NEW gone, releaseDASubscription(gone)
    PROVE  GroupsAccounted'
<1>1. PICK errors \in SUBSET (gone \cap groups) : failed' = failed \cup errors
  BY DEF releaseDASubscription
<1>2. PICK left \in SUBSET ((gone \cap groups) \cap failed') :
          sourceGroups' = sourceGroups \ ((gone \cap groups) \ left)
  BY DEF releaseDASubscription
<1>3. groups' = groups \ gone
  BY DEF releaseDASubscription
<1> QED
  BY <1>1, <1>2, <1>3 DEF GroupsAccounted

\* Every step accounts for the groups at the source.
LEMMA AccountedStep == OwnershipInv /\ GroupsAccounted /\ [SessionNext]_sessionVars => GroupsAccounted'
<1> SUFFICES ASSUME OwnershipInv, GroupsAccounted, [SessionNext]_sessionVars
             PROVE  GroupsAccounted'
  OBVIOUS
<1>1. groups \subseteq Requests /\ target \in [Requests -> Requests]
  BY DEF OwnershipInv, SessionTypeOK
<1>2. ASSUME NEW gone, releaseDASubscription(gone) PROVE GroupsAccounted'
  BY <1>1, <1>2, ReleaseAccounts
<1>3. ASSUME UNCHANGED daGroups PROVE GroupsAccounted'
  BY <1>3 DEF GroupsAccounted, daGroups
<1>4. CASE \E s \in Sessions : EndHook(s)
  BY <1>2, <1>4 DEF EndHook
<1>5. ASSUME NEW r \in Requests, CreateItems(r) PROVE GroupsAccounted'
  <2>1. target[r] \in Requests
    BY <1>1
  <2>2. CASE rebuildDASubscription(target[r])
    <3>1. CASE releaseDASubscription({target[r]})
      BY <1>2, <3>1
    <3>2. CASE ~releaseDASubscription({target[r]})
      BY <1>1, <2>1, <2>2, <3>2 DEF rebuildDASubscription, GroupsAccounted
    <3> QED
      BY <3>1, <3>2
  <2> QED
    BY <1>3, <1>5, <2>2 DEF CreateItems
<1>6. ASSUME NEW r \in Requests, DeleteSubscriptions(r) \/ SubscriptionExpires(r)
      PROVE  GroupsAccounted'
  BY <1>2, <1>6 DEF DeleteSubscriptions, SubscriptionExpires
<1>7. CASE \/ \E s \in Sessions : TimePasses(s) \/ ResolveExpired(s)
           \/ \E c \in Channels, s \in Sessions :
                  BeginCreateSession(c, s) \/ Activate(c, s) \/ Close(c, s)
           \/ \E c \in Channels : Create(c) \/ Disconnect(c)
           \/ ExpireStale \/ ShutdownCloses \/ TerminateAll
  BY <1>3, <1>7 DEF TimePasses, ResolveExpired, BeginCreateSession, Activate, Close, Create,
     Disconnect, ExpireStale, ShutdownCloses, TerminateAll
<1>8. ASSUME NEW r \in Requests,
             \/ \E k \in Kinds, s \in Sessions, c \in Channels : StartRequest(r, k, s, c)
             \/ CreateSubscription(r) \/ BeginRequest(r) \/ Ended(r) \/ PublishFault(r)
             \/ ReleaseRequest(r) \/ PublishCancelled(r) \/ PublishTick(r) \/ Watcher(r)
      PROVE  GroupsAccounted'
  BY <1>3, <1>8 DEF StartRequest, CreateSubscription, BeginRequest, Ended, PublishFault,
     ReleaseRequest, PublishCancelled, PublishTick, TryPublishFails, TryPublishReady, Watcher,
     WatcherSeesEnd, WatcherSeesDisconnect
<1>9. CASE UNCHANGED sessionVars
  BY <1>3, <1>9 DEF sessionVars
<1> QED
  BY <1>4, <1>5, <1>6, <1>7, <1>8, <1>9 DEF SessionNext, RequestStep

\* For any number of sessions, channels and requests: the in-flight count of a
\* session is that of the Publishes held for it, the registries keep their limits,
\* and a session whose end hook has run has no DA group but one whose Subscribe or
\* Unsubscribe failed, although requests that looked the session up before it ended
\* are still acting.
THEOREM SessionOwnershipAlways == SessionSpec => []SessionOwnership
<1>1. SessionInit => GroupsAccounted
  BY DEF SessionInit, GroupsAccounted
<1>2. ASSUME OwnershipInv, GroupsAccounted PROVE NoGroupOutlivesSession
  <2>1. groups \subseteq subs
    BY <1>2 DEF OwnershipInv, SessionTypeOK
  <2>2. ASSUME NEW s \in ended \ hooks, NEW r \in sourceGroups, sess[r] = s
        PROVE  r \in failed
    <3>1. SubsOf(s) \cap groups = {}
      BY <1>2 DEF OwnershipInv, UnreferencedAfterHook
    <3>2. r \notin groups
      BY <2>1, <2>2, <3>1 DEF SubsOf
    <3> QED
      BY <1>2, <3>2 DEF GroupsAccounted
  <2> QED
    BY <1>2, <2>2 DEF OwnershipInv, UnreferencedAfterHook, NoGroupOutlivesSession
<1>3. OwnershipInv /\ GroupsAccounted => SessionOwnership
  <2> SUFFICES ASSUME OwnershipInv, GroupsAccounted PROVE SessionOwnership
    OBVIOUS
  <2>1. SessionTypeOK /\ HeldPublishKeepsSession
    BY DEF OwnershipInv, CountsBalance, HeldPublishKeepsSession, SessionTypeOK
  <2> QED
    BY <1>2, <2>1 DEF SessionOwnership
<1> QED
  BY <1>1, <1>3, AccountedStep, OwnershipAlways, PTL DEF SessionSpec

\* No session times out while the server holds a Publish for it, neither by the
\* housekeeping tick nor by a request that looks it up: the count is exact.
THEOREM NeverTimedOutWhileServed == SessionSpec => NotTimedOutWhileServed
<1> DEFINE Untouched == \A s \in timedOut' \ timedOut : Serving(s) = {}
<1>1. ASSUME OwnershipInv, SessionNext, NEW s \in timedOut' \ timedOut
      PROVE  Serving(s) = {}
  <2>1. s \in live /\ expired(s)
    <3> USE DEF registryVars
    <3>1. CASE \/ \E t \in Sessions : TimePasses(t) \/ EndHook(t)
               \/ \E c \in Channels, t \in Sessions :
                      BeginCreateSession(c, t) \/ Activate(c, t) \/ Close(c, t)
               \/ \E c \in Channels : Create(c) \/ Disconnect(c)
               \/ ShutdownCloses \/ TerminateAll
      BY <1>1, <3>1 DEF TimePasses, EndHook, BeginCreateSession, Activate, Close, Create,
         Disconnect, ShutdownCloses, TerminateAll
    <3>2. CASE \E r \in Requests, k \in Kinds, t \in Sessions, c \in Channels :
                   StartRequest(r, k, t, c)
      BY <1>1, <3>2 DEF StartRequest
    <3>3. CASE \E r \in Requests : RequestStep(r) \/ PublishTick(r) \/ Watcher(r)
                                  \/ SubscriptionExpires(r)
      BY <1>1, <3>3 DEF RequestStep, CreateSubscription, CreateItems, DeleteSubscriptions,
         BeginRequest, Ended, PublishFault, ReleaseRequest, PublishCancelled, PublishTick,
         TryPublishFails, TryPublishReady, Watcher, WatcherSeesEnd, WatcherSeesDisconnect,
         SubscriptionExpires
    <3>4. CASE ExpireStale \/ \E t \in Sessions : ResolveExpired(t)
      BY <1>1, <3>4 DEF ExpireStale, ResolveExpired
    <3> QED
      BY <1>1, <3>1, <3>2, <3>3, <3>4 DEF SessionNext
  <2>2. Cardinality(Serving(s)) = 0
    BY <1>1, <2>1 DEF OwnershipInv, SessionTypeOK, CountsBalance, expired
  <2> QED
    BY <1>1, <2>2, OwnedFinite, FS_EmptySet
<1>2. OwnershipInv /\ [SessionNext]_sessionVars => [Untouched]_sessionVars
  BY <1>1
<1> QED
  BY <1>2, OwnershipAlways, PTL DEF SessionSpec, NotTimedOutWhileServed

-----------------------------------------------------------------------------
(* The listener *)

\* Connections that reached Accept, those that hold a permit, and those whose
\* goroutine the WaitGroup counts.
Touched == {c \in Conns : conn[c] # "new"}
Permitted == {c \in Conns : conn[c] \notin {"new", "refused"}} \ shut
Working == {c \in Conns : conn[c] \in {"serving", "finished", "untracked", "released"}}

\* The counters count: permits, slots and the WaitGroup.
Counted ==
    /\ IsFiniteSet(Touched)
    /\ permits = Cardinality(Permitted)
    /\ slots = Cardinality(Slotted) + (IF loop \in {"slotted", "tracked"} THEN 1 ELSE 0)
    /\ active = Cardinality(Working) + Cardinality(holding)

\* The accept loop holds the one connection that is accepted and not yet served.
HandHeld ==
    /\ loop \in {"accepted", "slotted", "tracked"} => hand \in Conns /\ conn[hand] = "accepted"
    /\ \A c \in Conns : conn[c] = "accepted" =>
           c = hand /\ loop \in {"accepted", "slotted", "tracked"}

\* What is tracked, to be closed, closed or holding was admitted.
Admitted ==
    /\ \A c \in tracked : \/ conn[c] \in {"serving", "finished"}
                          \/ c = hand /\ loop = "tracked"
    /\ \A c \in toClose : \/ conn[c] \notin {"new", "refused", "accepted"}
                          \/ c = hand /\ loop = "tracked"
    /\ \A c \in shut \cup holding : conn[c] # "new"

\* Close marks the listener closed and reads what it will close in one step.
AfterClose == {"closed", "terminated", "waiting", "returned", "down"}
CloseCovers ==
    /\ closed <=> service \in AfterClose \cup {"dropping"}
    /\ service = "dropping" => tracked \subseteq shut \cup toClose
    /\ service \in AfterClose => tracked \subseteq shut

\* Nothing runs before Serve accepts.
NothingRunsBeforeServe ==
    loop \in {"unscheduled", "registered"} =>
        ~listening /\ holding = {} /\ \A c \in Conns : conn[c] = "new"

ListenerInv ==
    /\ ListenerTypeOK /\ Counted /\ HandHeld /\ Admitted /\ CloseCovers
    /\ NothingRunsBeforeServe /\ NothingRunsAfterServe

-----------------------------------------------------------------------------
(* The counters *)

\* One element more counts one more.
LEMMA OneAdded ==
    ASSUME NEW S, IsFiniteSet(S), NEW x, x \notin S
    PROVE  /\ IsFiniteSet(S \cup {x}) /\ Cardinality(S) \in Nat
           /\ Cardinality(S \cup {x}) = Cardinality(S) + 1
BY FS_AddElement, FS_CardinalityType

\* One element less counts one less.
LEMMA OneRemoved ==
    ASSUME NEW S, IsFiniteSet(S), NEW x, x \in S
    PROVE  /\ IsFiniteSet(S \ {x}) /\ Cardinality(S \ {x}) \in Nat
           /\ Cardinality(S) = Cardinality(S \ {x}) + 1
<1>1. IsFiniteSet(S \ {x}) /\ Cardinality(S \ {x}) = Cardinality(S) - 1
  BY FS_RemoveElement
<1>2. Cardinality(S) \in Nat /\ Cardinality(S \ {x}) \in Nat
  BY <1>1, FS_CardinalityType
<1> QED
  BY <1>1, <1>2

\* The sets the counters stand for are finite.
LEMMA CountedFinite ==
    ASSUME ListenerInv
    PROVE  /\ IsFiniteSet(Permitted) /\ IsFiniteSet(Slotted) /\ IsFiniteSet(Working)
           /\ IsFiniteSet(holding)
           /\ Cardinality(Permitted) \in Nat /\ Cardinality(Slotted) \in Nat
           /\ Cardinality(Working) \in Nat /\ Cardinality(holding) \in Nat
<1>1. /\ Permitted \subseteq Touched /\ Slotted \subseteq Touched
      /\ Working \subseteq Touched /\ holding \subseteq Touched /\ IsFiniteSet(Touched)
  BY DEF ListenerInv, ListenerTypeOK, Counted, Admitted, Permitted, Slotted, Working, Touched
<1>2. /\ IsFiniteSet(Permitted) /\ IsFiniteSet(Slotted) /\ IsFiniteSet(Working)
      /\ IsFiniteSet(holding)
  BY <1>1, FS_Subset
<1> QED
  BY <1>2, FS_CardinalityType

\* Closing a connection that holds a permit gives back that one permit, and a
\* second Close of it gives back nothing, whoever calls it.
LEMMA ClosingReturnsPermit ==
    ASSUME ListenerInv, NEW c \in Conns, conn[c] \notin {"new", "refused"}, Closing(c),
           Permitted' = Permitted \ {c}
    PROVE  permits' = Cardinality(Permitted)' /\ permits' \in 0 .. MaxPermits
<1>0. permits = Cardinality(Permitted) /\ permits \in 0 .. MaxPermits /\ MaxPermits \in Nat
      /\ IsFiniteSet(Permitted)
  BY CountedFinite, ListenerAssumption DEF ListenerInv, Counted, ListenerTypeOK
<1>1. CASE c \in shut
  BY <1>0, <1>1 DEF Closing, Permitted
<1>2. CASE c \notin shut
  <2>1. c \in Permitted /\ permits' = permits - 1
    BY <1>2 DEF Closing, Permitted
  <2> QED
    <3>1. /\ Cardinality(Permitted) = Cardinality(Permitted \ {c}) + 1
          /\ Cardinality(Permitted \ {c}) \in Nat
      BY <1>0, <2>1, OneRemoved
    <3> QED
      BY <1>0, <2>1, <3>1
<1> QED
  BY <1>1, <1>2

\* A step that moves no connection in or out of what is counted keeps the counts.
LEMMA CountsUntouched ==
    ASSUME ListenerInv, UNCHANGED <<permits, slots, active, holding>>,
           Touched' = Touched, Permitted' = Permitted, Slotted' = Slotted, Working' = Working,
           loop' \in {"slotted", "tracked"} <=> loop \in {"slotted", "tracked"}
    PROVE  Counted'
BY DEF ListenerInv, Counted

-----------------------------------------------------------------------------

\* Before Serve is scheduled nothing is counted.
LEMMA ListenerInvInit == ListenerInit => ListenerInv
<1> SUFFICES ASSUME ListenerInit PROVE ListenerInv
  OBVIOUS
<1>1. Touched = {} /\ Permitted = {} /\ Slotted = {} /\ Working = {}
  BY DEF ListenerInit, Touched, Permitted, Slotted, Working
<1>2. Counted
  BY <1>1, FS_EmptySet DEF ListenerInit, Counted
<1>3. ListenerTypeOK
  <2>1. permits \in 0 .. MaxPermits /\ slots \in 0 .. MaxSlots /\ active \in Nat
    BY ListenerAssumption DEF ListenerInit
  <2> QED
    BY <2>1 DEF ListenerInit, ListenerTypeOK, LoopPCs, ConnPCs, ServicePCs
<1> QED
  BY <1>2, <1>3 DEF ListenerInit, ListenerInv, HandHeld, Admitted, CloseCovers, AfterClose,
     NothingRunsBeforeServe, NothingRunsAfterServe

\* The accept loop, from a connection's arrival to its goroutine.
LEMMA LoopKeepsInv ==
    ASSUME ListenerInv, LoopStep \/ AcceptReturns \/ \E c \in Conns : Accept(c)
    PROVE  ListenerInv'
<1> USE DEF loopVars, fieldVars, boundVars, connVars, serviceVars
<1>t. ListenerTypeOK /\ HandHeld /\ Admitted /\ CloseCovers /\ Counted
  BY DEF ListenerInv
<1>p. MaxPermits \in Nat /\ MaxSlots \in Nat /\ permits \in Nat /\ slots \in Nat
  BY ListenerAssumption DEF ListenerInv, ListenerTypeOK
<1>1. CASE ServeBegins \/ ServeListens \/ AcceptReturns \/ ServeReturns
  <2>1. Counted'
    <3>1. /\ UNCHANGED <<permits, slots, active, holding, conn, shut>>
          /\ loop' \notin {"slotted", "tracked"} /\ loop \notin {"slotted", "tracked"}
      BY <1>1 DEF ServeBegins, ServeListens, AcceptReturns, ServeReturns
    <3> QED
      BY <3>1, CountsUntouched DEF Touched, Permitted, Slotted, Working
  <2>2. CASE ServeBegins
    <3>1. active = 0
      <4>1. Working = {} /\ holding = {}
        BY <2>2 DEF ServeBegins, ListenerInv, NothingRunsBeforeServe, Working
      <4> QED
        BY <4>1, <1>t, FS_EmptySet DEF Counted
    <3>2. ListenerTypeOK'
      BY <1>t, <2>2 DEF ServeBegins, ListenerTypeOK, LoopPCs
    <3>3. HandHeld' /\ Admitted' /\ CloseCovers'
      BY <1>t, <2>2 DEF ServeBegins, HandHeld, Admitted, CloseCovers
    <3>4. NothingRunsBeforeServe' /\ NothingRunsAfterServe'
      BY <2>2, <3>1 DEF ServeBegins, ListenerInv, NothingRunsBeforeServe,
         NothingRunsAfterServe
    <3> QED
      BY <2>1, <3>2, <3>3, <3>4 DEF ListenerInv
  <2>3. CASE ServeListens \/ AcceptReturns \/ ServeReturns
    <3>1. ListenerTypeOK'
      BY <1>t, <2>3 DEF ServeListens, AcceptReturns, ServeReturns, ListenerTypeOK, LoopPCs
    <3>2. HandHeld' /\ Admitted' /\ CloseCovers'
      BY <1>t, <2>3 DEF ServeListens, AcceptReturns, ServeReturns, HandHeld, Admitted,
         CloseCovers
    <3>3. NothingRunsBeforeServe' /\ NothingRunsAfterServe'
      BY <2>3 DEF ServeListens, AcceptReturns, ServeReturns, ListenerInv,
         NothingRunsBeforeServe, NothingRunsAfterServe
    <3> QED
      BY <2>1, <3>1, <3>2, <3>3 DEF ListenerInv
  <2> QED
    BY <1>1, <2>2, <2>3
<1>2. ASSUME NEW c \in Conns, Accept(c)
      PROVE  ListenerInv'
  <2>1. Counted'
    <3>1. IsFiniteSet(Touched')
      <4>1. Touched' = Touched \cup {c}
        BY <1>2, <1>t DEF Accept, Touched, ListenerTypeOK
      <4> QED
        BY <4>1, <1>t, FS_AddElement DEF Counted
    <3>2. permits' = Cardinality(Permitted)'
      <4>1. CASE permits >= MaxPermits
        <5>1. Permitted' = Permitted /\ permits' = permits
          BY <1>2, <1>t, <4>1 DEF Accept, Permitted, ListenerTypeOK
        <5> QED
          BY <5>1, <1>t DEF Counted
      <4>2. CASE ~(permits >= MaxPermits)
        <5>1. Permitted' = Permitted \cup {c} /\ permits' = permits + 1 /\ c \notin Permitted
          BY <1>2, <1>t, <4>2 DEF Accept, Permitted, ListenerTypeOK, Admitted
        <5> QED
          BY <5>1, <1>t, CountedFinite, OneAdded DEF Counted
      <4> QED
        BY <4>1, <4>2
    <3>3. /\ Slotted' = Slotted /\ Working' = Working /\ UNCHANGED <<slots, active, holding>>
          /\ loop \notin {"slotted", "tracked"} /\ loop' \notin {"slotted", "tracked"}
      BY <1>2, <1>t DEF Accept, Slotted, Working, ListenerTypeOK
    <3> QED
      BY <1>t, <3>1, <3>2, <3>3 DEF Counted
  <2>2. ListenerTypeOK'
    BY <1>2, <1>p, <1>t DEF Accept, ListenerTypeOK, ConnPCs, LoopPCs
  <2>3. HandHeld' /\ Admitted'
    BY <1>2, <1>t DEF Accept, HandHeld, Admitted, ListenerTypeOK
  <2>4. CloseCovers' /\ NothingRunsBeforeServe' /\ NothingRunsAfterServe'
    BY <1>2, <1>t DEF Accept, CloseCovers, NothingRunsBeforeServe, NothingRunsAfterServe
  <2> QED
    BY <2>1, <2>2, <2>3, <2>4 DEF ListenerInv
<1>3. ASSUME hand \in Conns, conn[hand] = "accepted", Closing(hand),
             conn' = [conn EXCEPT ![hand] = "refused"], loop' = "accepting", hand' = NoConn,
             loop \in {"accepted", "slotted"},
             slots' = IF loop = "slotted" THEN slots - 1 ELSE slots,
             UNCHANGED <<socket, fieldVars, tracked, active, holding, serviceVars, failure>>
      PROVE  ListenerInv'
  <2>1. /\ Touched' = Touched /\ Slotted' = Slotted /\ Working' = Working
        /\ Permitted' = Permitted \ {hand}
    BY <1>3, <1>t DEF Touched, Slotted, Working, Permitted, Closing, ListenerTypeOK
  <2>2. permits' = Cardinality(Permitted)' /\ permits' \in 0 .. MaxPermits
    BY <1>3, <2>1, ClosingReturnsPermit
  <2>3. slots' = Cardinality(Slotted)' /\ slots' \in 0 .. MaxSlots
    BY <1>3, <1>t, <1>p, <2>1, CountedFinite DEF Counted, ListenerTypeOK
  <2>4. Counted'
    BY <1>3, <1>t, <2>1, <2>2, <2>3, CountedFinite DEF Counted
  <2>5. ListenerTypeOK'
    BY <1>3, <1>t, <2>2, <2>3 DEF ListenerTypeOK, ConnPCs, LoopPCs, Closing
  <2>6. HandHeld' /\ Admitted'
    BY <1>3, <1>t, ListenerAssumption DEF HandHeld, Admitted, ListenerTypeOK, Closing
  <2>7. CloseCovers' /\ NothingRunsBeforeServe' /\ NothingRunsAfterServe'
    BY <1>3, <1>t DEF CloseCovers, NothingRunsBeforeServe, NothingRunsAfterServe, Closing
  <2> QED
    BY <2>4, <2>5, <2>6, <2>7 DEF ListenerInv
<1>4. CASE TakeSlot
  <2>1. hand \in Conns /\ conn[hand] = "accepted" /\ loop = "accepted"
    BY <1>4, <1>t DEF TakeSlot, HandHeld
  <2>2. CASE slots >= MaxSlots
    BY <1>3, <1>4, <2>1, <2>2 DEF TakeSlot
  <2>3. CASE ~(slots >= MaxSlots)
    <3>1. /\ slots' = slots + 1 /\ loop' = "slotted"
          /\ UNCHANGED <<hand, permits, connVars, socket, fieldVars, tracked, active,
                         holding, serviceVars, failure>>
      BY <1>4, <2>3 DEF TakeSlot
    <3>2. Counted'
      <4>1. /\ Touched' = Touched /\ Slotted' = Slotted /\ Working' = Working
            /\ Permitted' = Permitted
        BY <3>1 DEF Touched, Slotted, Working, Permitted
      <4> QED
        BY <1>t, <2>1, <3>1, <4>1, CountedFinite DEF Counted
    <3>3. ListenerTypeOK'
      BY <1>t, <1>p, <2>3, <3>1 DEF ListenerTypeOK, LoopPCs
    <3> QED
      BY <2>1, <3>1, <3>2, <3>3 DEF ListenerInv, HandHeld, Admitted, CloseCovers,
         NothingRunsBeforeServe, NothingRunsAfterServe
  <2> QED
    BY <2>2, <2>3
<1>5. CASE Track
  <2>1. hand \in Conns /\ conn[hand] = "accepted" /\ loop = "slotted"
    BY <1>5, <1>t DEF Track, HandHeld
  <2>2. CASE closed
    BY <1>3, <1>5, <2>1, <2>2 DEF Track
  <2>3. CASE ~closed
    <3>1. /\ tracked' = tracked \cup {hand} /\ loop' = "tracked"
          /\ UNCHANGED <<hand, permits, slots, connVars, socket, fieldVars, active, holding,
                         serviceVars, failure>>
      BY <1>5, <2>3 DEF Track
    <3>2. Counted'
      BY <2>1, <3>1, CountsUntouched DEF Touched, Slotted, Working, Permitted
    <3>3. ListenerTypeOK'
      BY <1>t, <2>1, <3>1 DEF ListenerTypeOK, LoopPCs
    <3>4. HandHeld' /\ Admitted'
      BY <1>t, <2>1, <3>1 DEF HandHeld, Admitted
    <3>5. CloseCovers' /\ NothingRunsBeforeServe' /\ NothingRunsAfterServe'
      BY <1>t, <2>3, <3>1 DEF CloseCovers, NothingRunsBeforeServe, NothingRunsAfterServe
    <3> QED
      BY <3>2, <3>3, <3>4, <3>5 DEF ListenerInv
  <2> QED
    BY <2>2, <2>3
<1>6. CASE Spawn
  <2>1. hand \in Conns /\ conn[hand] = "accepted" /\ loop = "tracked"
    BY <1>6, <1>t DEF Spawn, HandHeld
  <2>2. /\ Touched' = Touched /\ Permitted' = Permitted
        /\ Slotted' = Slotted \cup {hand} /\ Working' = Working \cup {hand}
        /\ hand \notin Slotted /\ hand \notin Working
    BY <1>6, <1>t, <2>1 DEF Spawn, Touched, Permitted, Slotted, Working, ListenerTypeOK
  <2>3. /\ Cardinality(Slotted)' = Cardinality(Slotted) + 1
        /\ Cardinality(Working)' = Cardinality(Working) + 1
    BY <2>2, CountedFinite, OneAdded
  <2>4. Counted'
    BY <1>6, <1>t, <2>1, <2>2, <2>3, CountedFinite DEF Spawn, Counted
  <2>5. ListenerTypeOK'
    <3>1. active' \in Nat /\ hand' \in Conns \cup {NoConn}
      BY <1>6, <1>t DEF Spawn, ListenerTypeOK
    <3>2. conn' \in [Conns -> ConnPCs]
      BY <1>6, <1>t DEF Spawn, ListenerTypeOK, ConnPCs
    <3> QED
      BY <1>6, <1>t, <3>1, <3>2 DEF Spawn, ListenerTypeOK, LoopPCs
  <2>6. HandHeld' /\ Admitted'
    BY <1>6, <1>t, <2>1 DEF Spawn, HandHeld, Admitted, ListenerTypeOK
  <2>7. CloseCovers' /\ NothingRunsBeforeServe' /\ NothingRunsAfterServe'
    BY <1>6, <1>t DEF Spawn, CloseCovers, NothingRunsBeforeServe, NothingRunsAfterServe
  <2> QED
    BY <2>4, <2>5, <2>6, <2>7 DEF ListenerInv
<1>7. CASE ServeSettles
  <2>1. Counted'
    BY <1>7, CountsUntouched DEF ServeSettles, Touched, Slotted, Working, Permitted
  <2>2. Cardinality(Working) = 0 /\ Cardinality(holding) = 0
    BY <1>7, <1>t, CountedFinite DEF ServeSettles, Counted
  <2>3. Working = {} /\ holding = {}
    BY <2>2, CountedFinite, FS_EmptySet
  <2>4. \A c \in Conns : conn[c] \in {"new", "refused", "gone"}
    BY <1>7, <1>t, <2>3 DEF ServeSettles, Working, HandHeld, ListenerTypeOK, ConnPCs
  <2> QED
    <3>1. ListenerTypeOK'
      BY <1>7, <1>t DEF ServeSettles, ListenerTypeOK, LoopPCs
    <3>2. HandHeld' /\ Admitted' /\ CloseCovers'
      BY <1>7, <1>t DEF ServeSettles, HandHeld, Admitted, CloseCovers
    <3>3. NothingRunsBeforeServe' /\ NothingRunsAfterServe'
      BY <1>7, <2>3, <2>4 DEF ServeSettles, NothingRunsBeforeServe, NothingRunsAfterServe
    <3> QED
      BY <2>1, <3>1, <3>2, <3>3 DEF ListenerInv
<1> QED
  BY <1>1, <1>2, <1>4, <1>5, <1>6, <1>7 DEF LoopStep

\* A connection's goroutine and the Publish it may leave behind.
LEMMA ConnKeepsInv ==
    ASSUME ListenerInv, NEW c \in Conns,
           Hold(c) \/ HoldEnds(c) \/ ServeConnectionReturns(c) \/ ConnStep(c)
    PROVE  ListenerInv'
<1> USE DEF loopVars, fieldVars, boundVars, connVars, serviceVars
<1>t. /\ ListenerTypeOK /\ HandHeld /\ Admitted /\ CloseCovers /\ Counted
      /\ NothingRunsBeforeServe /\ NothingRunsAfterServe
  BY DEF ListenerInv
<1>1. CASE Hold(c) \/ HoldEnds(c)
  <2>1. /\ Touched' = Touched /\ Permitted' = Permitted /\ Slotted' = Slotted
        /\ Working' = Working /\ UNCHANGED <<permits, slots, loop>>
    BY <1>1 DEF Hold, HoldEnds, Touched, Permitted, Slotted, Working
  <2>2. CASE Hold(c)
    <3>1. Cardinality(holding)' = Cardinality(holding) + 1
      BY <2>2, CountedFinite, OneAdded DEF Hold
    <3>2. Counted' /\ active' \in Nat
      BY <1>t, <2>1, <2>2, <3>1, CountedFinite DEF Hold, Counted
    <3> QED
      BY <1>t, <2>2, <3>2 DEF Hold, ListenerInv, ListenerTypeOK, HandHeld, Admitted,
         CloseCovers, NothingRunsBeforeServe, NothingRunsAfterServe
  <2>3. CASE HoldEnds(c)
    <3>1. /\ Cardinality(holding) = Cardinality(holding)' + 1
          /\ Cardinality(holding)' \in Nat
      BY <2>3, CountedFinite, OneRemoved DEF HoldEnds
    <3>2. Counted' /\ active' \in Nat
      BY <1>t, <2>1, <2>3, <3>1, CountedFinite DEF HoldEnds, Counted
    <3> QED
      BY <1>t, <2>3, <3>2 DEF HoldEnds, ListenerInv, ListenerTypeOK, HandHeld, Admitted,
         CloseCovers, NothingRunsBeforeServe, NothingRunsAfterServe
  <2> QED
    BY <1>1, <2>2, <2>3
<1>2. CASE ServeConnectionReturns(c)
  <2>1. Counted'
    <3>1. /\ Touched' = Touched /\ Permitted' = Permitted /\ Slotted' = Slotted
          /\ Working' = Working
      BY <1>2, <1>t DEF ServeConnectionReturns, Touched, Permitted, Slotted, Working,
         ListenerTypeOK
    <3> QED
      BY <1>2, <3>1, CountsUntouched DEF ServeConnectionReturns
  <2> QED
    BY <1>2, <1>t, <2>1 DEF ServeConnectionReturns, ListenerInv, ListenerTypeOK, HandHeld,
       Admitted, CloseCovers, NothingRunsBeforeServe, NothingRunsAfterServe, ConnPCs
<1>3. CASE Untrack(c)
  <2>1. /\ Touched' = Touched /\ Permitted' = Permitted \ {c} /\ Slotted' = Slotted
        /\ Working' = Working
    BY <1>3, <1>t DEF Untrack, Closing, Touched, Permitted, Slotted, Working, ListenerTypeOK
  <2>2. permits' = Cardinality(Permitted)' /\ permits' \in 0 .. MaxPermits
    BY <1>3, <2>1, ClosingReturnsPermit DEF Untrack
  <2>3. Counted'
    BY <1>3, <1>t, <2>1, <2>2 DEF Untrack, Counted
  <2>4. ListenerTypeOK'
    BY <1>3, <1>t, <2>2 DEF Untrack, Closing, ListenerTypeOK, ConnPCs
  <2>5. HandHeld' /\ Admitted'
    BY <1>3, <1>t DEF Untrack, Closing, HandHeld, Admitted, ListenerTypeOK
  <2>6. CloseCovers' /\ NothingRunsBeforeServe' /\ NothingRunsAfterServe'
    BY <1>3, <1>t DEF Untrack, Closing, CloseCovers, NothingRunsBeforeServe,
       NothingRunsAfterServe
  <2> QED
    BY <2>3, <2>4, <2>5, <2>6 DEF ListenerInv
<1>4. CASE GiveSlotBack(c)
  <2>1. /\ Touched' = Touched /\ Permitted' = Permitted /\ Slotted' = Slotted \ {c}
        /\ Working' = Working /\ c \in Slotted
    BY <1>4, <1>t DEF GiveSlotBack, Touched, Permitted, Slotted, Working, ListenerTypeOK
  <2>2. /\ Cardinality(Slotted) = Cardinality(Slotted)' + 1 /\ Cardinality(Slotted)' \in Nat
    BY <2>1, CountedFinite, OneRemoved
  <2>3. Counted' /\ slots' \in 0 .. MaxSlots
    BY <1>4, <1>t, <2>1, <2>2, ListenerAssumption DEF GiveSlotBack, Counted, ListenerTypeOK
  <2> QED
    BY <1>4, <1>t, <2>3 DEF GiveSlotBack, ListenerInv, ListenerTypeOK, HandHeld, Admitted,
       CloseCovers, NothingRunsBeforeServe, NothingRunsAfterServe, ConnPCs
<1>5. CASE ConnectionDone(c)
  <2>1. /\ Touched' = Touched /\ Permitted' = Permitted /\ Slotted' = Slotted
        /\ Working' = Working \ {c} /\ c \in Working
    BY <1>5, <1>t DEF ConnectionDone, Touched, Permitted, Slotted, Working, ListenerTypeOK
  <2>2. /\ Cardinality(Working) = Cardinality(Working)' + 1 /\ Cardinality(Working)' \in Nat
    BY <2>1, CountedFinite, OneRemoved
  <2>3. Counted' /\ active' \in Nat
    BY <1>5, <1>t, <2>1, <2>2, CountedFinite DEF ConnectionDone, Counted
  <2> QED
    BY <1>5, <1>t, <2>3 DEF ConnectionDone, ListenerInv, ListenerTypeOK, HandHeld, Admitted,
       CloseCovers, NothingRunsBeforeServe, NothingRunsAfterServe, ConnPCs
<1> QED
  BY <1>1, <1>2, <1>3, <1>4, <1>5 DEF ConnStep

\* The housekeeping tick and Service.Shutdown, Close included.
LEMMA ServiceKeepsInv ==
    ASSUME ListenerInv,
           Tick \/ StopWatch \/ WatchStops \/ ShutdownStep \/ ShutdownTimesOut
    PROVE  ListenerInv'
<1> USE DEF loopVars, fieldVars, boundVars, connVars, serviceVars
<1>t. /\ ListenerTypeOK /\ HandHeld /\ Admitted /\ CloseCovers /\ Counted
      /\ NothingRunsBeforeServe /\ NothingRunsAfterServe
  BY DEF ListenerInv
<1>1. ASSUME NEW c \in Conns, CloseDrops(c)
      PROVE  ListenerInv'
  <2>1. conn[c] \notin {"new", "refused"} /\ Permitted' = Permitted \ {c}
    BY <1>1, <1>t DEF CloseDrops, Closing, Admitted, HandHeld, Permitted
  <2>2. permits' = Cardinality(Permitted)' /\ permits' \in 0 .. MaxPermits
    BY <1>1, <2>1, ClosingReturnsPermit DEF CloseDrops
  <2>3. Touched' = Touched /\ Slotted' = Slotted /\ Working' = Working
    BY <1>1 DEF CloseDrops, Touched, Slotted, Working
  <2>4. Counted'
    BY <1>1, <1>t, <2>2, <2>3 DEF CloseDrops, Counted
  <2> QED
    BY <1>1, <1>t, <2>1, <2>2, <2>4 DEF CloseDrops, Closing, ListenerInv, ListenerTypeOK,
       HandHeld, Admitted, CloseCovers, AfterClose, NothingRunsBeforeServe,
       NothingRunsAfterServe
<1>2. CASE \/ Tick \/ StopWatch \/ WatchStops \/ ShutdownTimesOut \/ WatchAwaited
           \/ CloseMarks \/ CloseReturns \/ TerminateSessions \/ SkipDrain \/ AwaitDrained
           \/ RuntimeShutdown
  <2>1. UNCHANGED <<conn, shut, permits, slots, active, holding, loop, hand, tracked, failure,
                    registered>>
    BY <1>2 DEF Tick, StopWatch, WatchStops, ShutdownTimesOut, WatchAwaited, CloseMarks,
       CloseReturns, TerminateSessions, SkipDrain, AwaitDrained, RuntimeShutdown
  <2>2. Counted'
    BY <2>1, CountsUntouched DEF Touched, Slotted, Working, Permitted
  <2>3. /\ ListenerTypeOK' /\ CloseCovers' /\ toClose' \subseteq toClose \cup tracked
        /\ listening' => listening
    <3>1. CASE CloseMarks
      <4>1. ListenerTypeOK' /\ toClose' = tracked /\ ~listening'
        BY <1>t, <2>1, <3>1 DEF CloseMarks, ListenerTypeOK, ServicePCs
      <4> QED
        BY <4>1, <1>t, <2>1, <3>1 DEF CloseMarks, CloseCovers, AfterClose
    <3>2. CASE ~CloseMarks
      <4>1. UNCHANGED <<socket, closed, listening, toClose>>
        BY <1>2, <3>2 DEF Tick, StopWatch, WatchStops, ShutdownTimesOut, WatchAwaited,
           CloseReturns, TerminateSessions, SkipDrain, AwaitDrained, RuntimeShutdown
      <4>2. /\ watch' \in {"idle", "working", "stopped"} /\ service' \in ServicePCs
            /\ drained' \in BOOLEAN
        BY <1>2, <1>t, <3>2 DEF Tick, StopWatch, WatchStops, ShutdownTimesOut, WatchAwaited,
           CloseReturns, TerminateSessions, SkipDrain, AwaitDrained, RuntimeShutdown,
           ListenerTypeOK, ServicePCs
      <4>3. ListenerTypeOK'
        BY <1>t, <2>1, <4>1, <4>2 DEF ListenerTypeOK
      <4>4. CloseCovers'
        BY <1>2, <1>t, <2>1, <3>2, <4>1 DEF Tick, StopWatch, WatchStops, ShutdownTimesOut,
           WatchAwaited, CloseReturns, TerminateSessions, SkipDrain, AwaitDrained,
           RuntimeShutdown, CloseCovers, AfterClose
      <4> QED
        BY <4>1, <4>3, <4>4
    <3> QED
      BY <3>1, <3>2
  <2>4. HandHeld' /\ Admitted' /\ NothingRunsBeforeServe' /\ NothingRunsAfterServe'
    BY <1>t, <2>1, <2>3 DEF HandHeld, Admitted, NothingRunsBeforeServe, NothingRunsAfterServe
  <2> QED
    BY <2>2, <2>3, <2>4 DEF ListenerInv
<1> QED
  BY <1>1, <1>2 DEF ShutdownStep

\* The invariant holds whatever clients, Close and Shutdown do.
LEMMA ListenerInvAlways == ListenerSpec => []ListenerInv
<1>1. ListenerInv /\ [ListenerNext]_listenerVars => ListenerInv'
  <2> SUFFICES ASSUME ListenerInv, [ListenerNext]_listenerVars PROVE ListenerInv'
    OBVIOUS
  <2>1. CASE ListenerNext
    BY <2>1, LoopKeepsInv, ConnKeepsInv, ServiceKeepsInv DEF ListenerNext
  <2>2. CASE UNCHANGED listenerVars
    <3> USE DEF listenerVars, loopVars, fieldVars, boundVars, connVars, serviceVars
    <3>1. Counted'
      BY <2>2, CountsUntouched DEF Touched, Slotted, Working, Permitted
    <3> QED
      BY <2>2, <3>1 DEF ListenerInv, ListenerTypeOK, HandHeld, Admitted, CloseCovers,
         NothingRunsBeforeServe, NothingRunsAfterServe
  <2> QED
    BY <2>1, <2>2
<1> QED
  BY <1>1, ListenerInvInit, PTL DEF ListenerSpec

\* The listener accounts for every connection: permits and slots are exactly
\* those in use although several parties may close the same connection, Close
\* misses none that the accept loop admits while it runs, and when Serve is past
\* its wait nothing it started is running.
THEOREM ConnectionsAccountedAlways == ListenerSpec => []ConnectionsAccounted
<1>1. ListenerInv => ConnectionsAccounted
  BY DEF ListenerInv, ConnectionsAccounted, BoundsBalanced, Counted, Permitted, CloseCovers,
     AfterClose, NoConnectionEscapesClose
<1> QED
  BY <1>1, ListenerInvAlways, PTL

-----------------------------------------------------------------------------
(* The parts of a publishing cycle, field by field *)

Fields == {"held", "heldOrder", "lastReported", "seen", "pending", "reported", "da"}
Shaped(c) == c = [f \in Fields |-> c[f]]
PerItem(f) == f = [i \in Items |-> f[i]]

ReportedIn(c, d, is, value) ==
    /\ Shaped(d)
    /\ d.held = c.held /\ d.heldOrder = c.heldOrder
    /\ d.lastReported = c.lastReported /\ d.da = c.da
    /\ PerItem(d.reported)
    /\ \A i \in Items : d.reported[i] = IF i \in Listed(is)
                                        THEN Append(c.reported[i], value[i])
                                        ELSE c.reported[i]

\* Queued changes pending and reported alone.
LEMMA QueuedFields ==
    ASSUME NEW c, Shaped(c), NEW is, NEW value
    PROVE  ReportedIn(c, Queued(c, is, value), is, value)
BY DEF Queued, Fields, Shaped, PerItem, ReportedIn

\* holdUnreadable puts items at the end of heldOrder and gives them their status.
LEMMA HoldUnreadableFields ==
    ASSUME NEW c, Shaped(c), NEW o
    PROVE  LET d == holdUnreadable(c, o) IN
           /\ Shaped(d)
           /\ d.heldOrder = c.heldOrder \o o
           /\ d.lastReported = c.lastReported /\ d.da = c.da /\ d.reported = c.reported
           /\ PerItem(d.held)
           /\ \A i \in Items : d.held[i] = IF i \in Listed(o)
                                           THEN Notification("Bad_NotReadable", 0, 0)
                                           ELSE c.held[i]
BY DEF holdUnreadable, Fields, Shaped, PerItem

\* The items that have a value, and those of them a flush sends and keeps.
Holding(c) == {i \in items : c.held[i] # None}
Ready(c) == Selected(c.heldOrder, {i \in Holding(c) : lastReported[i] # "recent"})
Still(c) == Selected(c.heldOrder, {i \in Holding(c) : lastReported[i] = "recent"})

\* flushHeld, when publishing is enabled, reports what is ready and keeps the rest.
LEMMA FlushFields ==
    ASSUME NEW c, Shaped(c), NEW s, enabled[s]
    PROVE  LET d == flushHeld(s, c) IN
           /\ Shaped(d)
           /\ d.heldOrder = Still(c) /\ d.da = c.da
           /\ PerItem(d.held) /\ PerItem(d.lastReported) /\ PerItem(d.reported)
           /\ \A i \in Items : d.held[i] = IF i \in Listed(Ready(c)) THEN None ELSE c.held[i]
           /\ \A i \in Items : d.lastReported[i] = IF i \in Listed(Ready(c)) THEN "recent"
                                                   ELSE c.lastReported[i]
           /\ \A i \in Items : d.reported[i] = IF i \in Listed(Ready(c))
                                               THEN Append(c.reported[i], c.held[i])
                                               ELSE c.reported[i]
<1> DEFINE e == Queued(c, Ready(c), c.held)
           h == [i \in Items |-> IF i \in Listed(Ready(c)) THEN None ELSE e.held[i]]
           l == [i \in Items |-> IF i \in Listed(Ready(c)) THEN "recent"
                                 ELSE e.lastReported[i]]
<1>1. /\ Shaped(e)
      /\ e.held = c.held /\ e.heldOrder = c.heldOrder
      /\ e.lastReported = c.lastReported /\ e.da = c.da
      /\ PerItem(e.reported)
      /\ \A i \in Items : e.reported[i] = IF i \in Listed(Ready(c))
                                          THEN Append(c.reported[i], c.held[i])
                                          ELSE c.reported[i]
    <2>1. ReportedIn(c, e, Ready(c), c.held)
        BY QueuedFields, Zenon
    <2> HIDE DEF e
    <2> QED BY <2>1 DEF ReportedIn
<1>2. flushHeld(s, c) = [e EXCEPT !.heldOrder = Still(c), !.held = h, !.lastReported = l]
    BY Zenon DEF flushHeld, Ready, Still, Holding
<1>3. PerItem(h) /\ PerItem(l)
    BY DEF PerItem
<1>4. \A i \in Items : h[i] = IF i \in Listed(Ready(c)) THEN None ELSE c.held[i]
    BY <1>1
<1>5. \A i \in Items : l[i] = IF i \in Listed(Ready(c)) THEN "recent" ELSE c.lastReported[i]
    BY <1>1
<1> HIDE DEF e, h, l
<1>6. LET d == flushHeld(s, c) IN
      /\ Shaped(d)
      /\ d.heldOrder = Still(c) /\ d.da = e.da /\ d.held = h /\ d.lastReported = l
      /\ d.reported = e.reported
    BY <1>1, <1>2 DEF Fields, Shaped
<1> QED BY <1>1, <1>3, <1>4, <1>5, <1>6, Zenon

EmptiedIn(s, c, d) ==
    /\ Shaped(d)
    /\ d.heldOrder = <<>> /\ d.da = {}
    /\ PerItem(d.held)
    /\ \A i \in Items : d.held[i] = IF i \in ItemsOf(s) THEN None ELSE c.held[i]
    /\ d.lastReported = c.lastReported
    /\ d.reported = c.reported

\* reportInvalidation empties what the items hold, and reports nothing the
\* source produced.
LEMMA InvalidationFields ==
    ASSUME NEW c, Shaped(c), NEW s, NEW o
    PROVE  EmptiedIn(s, c, [reportInvalidation(s, c, o) EXCEPT !.da = {}])
<1> DEFINE is == Selected(o, Reporting)
           v == [i \in Items |-> Notification("Bad_NotConnected", 0, 0)]
           e == Queued(c, is, v)
           h == [i \in Items |-> IF i \in ItemsOf(s) THEN None ELSE e.held[i]]
<1>1. /\ Shaped(e) /\ e.held = c.held /\ e.lastReported = c.lastReported
    <2>1. ReportedIn(c, e, is, v)
        BY QueuedFields, Zenon
    <2> HIDE DEF e
    <2> QED BY <2>1 DEF ReportedIn
<1>2. reportInvalidation(s, c, o) =
        [e EXCEPT !.reported = c.reported, !.heldOrder = <<>>, !.held = h]
    BY Zenon DEF reportInvalidation
<1>3. PerItem(h) /\ \A i \in Items : h[i] = IF i \in ItemsOf(s) THEN None ELSE c.held[i]
    BY <1>1 DEF PerItem
<1> HIDE DEF e, h
<1>4. LET d == [reportInvalidation(s, c, o) EXCEPT !.da = {}] IN
      /\ Shaped(d)
      /\ d.heldOrder = <<>> /\ d.da = {} /\ d.held = h /\ d.lastReported = e.lastReported
      /\ d.reported = c.reported
    BY <1>1, <1>2 DEF Fields, Shaped
<1> QED BY <1>1, <1>3, <1>4, Zenon DEF EmptiedIn

\* What the values drained for a subscription are, whose items they are, which of
\* these are new to heldOrder, and what an item is to hold.
Drained(s, pick) ==
    Selected(queue[s], {q \in Listed(queue[s]) : pick[q.node] \in Reporting})
FedItems(s, pick) == {pick[q.node] : q \in Listed(Drained(s, pick))}
Feeding(s, pick) == [k \in DOMAIN Drained(s, pick) |-> pick[Drained(s, pick)[k].node]]
NewlyFed(s, c, pick) ==
    Selected(Feeding(s, pick), {i \in FedItems(s, pick) : c.held[i] = None})
FedValue(s, pick, i) ==
    Notification("Good",
                 (CHOOSE q \in Listed(Drained(s, pick)) : pick[q.node] = i).value,
                 IF semantics[itemID[i]] # seen[i] THEN semantics[itemID[i]] ELSE 0)

FedIn(s, pick, c, d) ==
    /\ Shaped(d)
    /\ d.heldOrder = c.heldOrder \o NewlyFed(s, c, pick) /\ d.da = c.da
    /\ PerItem(d.held)
    /\ \A i \in Items : d.held[i] = IF i \in FedItems(s, pick) THEN FedValue(s, pick, i)
                                    ELSE c.held[i]
    /\ d.lastReported = c.lastReported
    /\ d.reported = c.reported

\* holdValues replaces what the fed items hold and queues those that held nothing.
LEMMA HoldValuesFields ==
    ASSUME NEW c, Shaped(c), NEW s, NEW pick
    PROVE  FedIn(s, pick, c, holdValues(s, c, pick))
<1> DEFINE h == [i \in Items |-> IF i \in FedItems(s, pick) THEN FedValue(s, pick, i)
                                 ELSE c.held[i]]
           g == [i \in Items |-> IF i \in FedItems(s, pick) THEN semantics[itemID[i]]
                                 ELSE c.seen[i]]
           o == c.heldOrder \o NewlyFed(s, c, pick)
<1>1. holdValues(s, c, pick) = [c EXCEPT !.heldOrder = o, !.held = h, !.seen = g]
    BY DEF holdValues, NewlyFed, Feeding, FedItems, FedValue, Drained
<1>2. PerItem(h) /\ \A i \in Items : h[i] = IF i \in FedItems(s, pick)
                                             THEN FedValue(s, pick, i)
                                             ELSE c.held[i]
    BY DEF PerItem
<1> HIDE DEF h, g, o
<1>3. LET d == holdValues(s, c, pick) IN
      /\ Shaped(d) /\ d.heldOrder = o /\ d.held = h /\ d.da = c.da
      /\ d.lastReported = c.lastReported /\ d.reported = c.reported
    BY <1>1 DEF Fields, Shaped
<1> QED BY <1>2, <1>3, Zenon DEF o, FedIn

-----------------------------------------------------------------------------
(* The inductive invariant *)

\* Variables TypeOK leaves out, and those it gives values but no domain.
Entries == [node : DAItems, value : Nat]

SubscriptionTypes ==
    /\ version \in [DAItems -> Nat]
    /\ da \in [Subscriptions -> SUBSET DAItems]
    /\ done \in [Subscriptions -> BOOLEAN]
    /\ queue \in [Subscriptions -> Seq(Entries)]
    /\ heldOrder \in [Subscriptions -> Seq(Items)]
    /\ reported \in [Items -> Seq(Notifications)]
    /\ sequenceNumber \in [Subscriptions -> Nat]
    /\ retransmit \in [Subscriptions -> SUBSET Nat]
    /\ retransmitOrder \in [Subscriptions -> Seq(Nat)]
    /\ keepAliveTicks \in [Subscriptions -> Nat]
    /\ acked \in [Subscriptions -> SUBSET Nat]

\* The retransmission queue of one subscription: its messages by number, in
\* order and none after the newest, so that the oldest of a full queue is as many
\* messages old as the queue holds.
RetransmissionSound(sn, map, order, told) ==
    /\ Listed(order) = map
    /\ \A k \in DOMAIN order : order[k] <= sn
    /\ \A j, k \in DOMAIN order : j < k => order[k] - order[j] >= k - j
    /\ \A n \in 1 .. sn : n \in map \cup told \/ sn - n >= MaxRetransmissionQueue

RetransmissionInv ==
    \A s \in Subscriptions :
        RetransmissionSound(sequenceNumber[s], retransmit[s], retransmitOrder[s], acked[s])

\* What the DA subscription has to drain: one value of each DA item, no newer
\* than the source.
QueueSound(q) ==
    /\ \A j, k \in DOMAIN q : q[j].node = q[k].node => j = k
    /\ \A k \in DOMAIN q : q[k].value <= version[q[k].node]

\* heldOrder names each item once, and of the items there are those that hold.
QueuedOnce(s, order, h) ==
    /\ Once(order)
    /\ \A i \in Listed(order) : owner[i] = s /\ i \in used
    /\ \A i \in ItemsOf(s) : i \in Listed(order) <=> h[i] # None

HeldOrderInv ==
    /\ \A s \in Subscriptions : QueueSound(queue[s])
    /\ \A s \in Subscriptions : QueuedOnce(s, heldOrder[s], held)
    /\ \A i \in Items \ items : held[i] = None

\* No value an item has told or holds is newer than v.
TellsUpTo(h, r, v) ==
    /\ h # None /\ h.status = "Good" => h.value <= v
    /\ \A k \in DOMAIN r : r[k].status = "Good" => r[k].value <= v

\* One item: what it has told is in order, what it holds is later, and its
\* refusal is told once, or not at all while the item never reported.
ItemSound(h, l, r, v) ==
    /\ TellsUpTo(h, r, v)
    /\ \A j, k \in DOMAIN r : j < k /\ r[j].status = "Good" /\ r[k].status = "Good"
                                => r[j].value <= r[k].value
    /\ h # None /\ h.status = "Good" => TellsUpTo(None, r, h.value)
    /\ \A j, k \in DOMAIN r :
          r[j].status = "Bad_NotReadable" /\ r[k].status = "Bad_NotReadable" => j = k
    /\ \A k \in DOMAIN r : r[k].status = "Bad_NotReadable" => l # "never"
    /\ h # None /\ h.status = "Bad_NotReadable" => l = "never"

ItemInv ==
    /\ \A i \in Items : ItemSound(held[i], lastReported[i], reported[i], version[itemID[i]])
    /\ \A s \in Subscriptions : \A k \in DOMAIN queue[s] : \A i \in ItemsOf(s) :
          itemID[i] = queue[s][k].node => TellsUpTo(held[i], reported[i], queue[s][k].value)

-----------------------------------------------------------------------------
(* What happens to one item *)

\* An item that holds nothing and never reported may hold the refusal.
LEMMA ItemRefused ==
    ASSUME NEW r, NEW v, ItemSound(None, "never", r, v)
    PROVE  ItemSound(Notification("Bad_NotReadable", 0, 0), "never", r, v)
<1> DEFINE n == Notification("Bad_NotReadable", 0, 0)
<1>1. n.status = "Bad_NotReadable"
    BY DEF Notification
<1> HIDE DEF n
<1>2. n.status # "Good"
    BY <1>1
<1>3. TellsUpTo(n, r, v)
    BY <1>2 DEF ItemSound, TellsUpTo
<1>4. ItemSound(n, "never", r, v)
    BY <1>2, <1>3 DEF ItemSound
<1> QED BY <1>4 DEF n

\* An item may hold a value as new as all it told, and no newer than the source.
LEMMA ItemHolds ==
    ASSUME NEW h, NEW l, NEW r, NEW v, ItemSound(h, l, r, v),
           NEW n \in Notifications, n.status = "Good", TellsUpTo(None, r, n.value), n.value <= v
    PROVE  ItemSound(n, l, r, v)
BY SubscriptionAssumption DEF ItemSound, TellsUpTo

\* An item that reports what it holds has told it once, in order.
LEMMA ItemReports ==
    ASSUME NEW h \in Notifications, NEW l, NEW r \in Seq(Notifications), NEW v,
           ItemSound(h, l, r, v)
    PROVE  ItemSound(None, "recent", Append(r, h), v)
<1> DEFINE a == Append(r, h)
<1>1. /\ DOMAIN a = 1 .. Len(r) + 1 /\ Len(r) \in Nat /\ DOMAIN r = 1 .. Len(r)
      /\ \A k \in 1 .. Len(r) : a[k] = r[k]
      /\ a[Len(r) + 1] = h
    OBVIOUS
<1>2. h # None
    BY SubscriptionAssumption
<1> HIDE DEF a
<1>3. \A k \in DOMAIN a : \/ k \in DOMAIN r /\ a[k] = r[k]
                          \/ k = Len(r) + 1 /\ a[k] = h
    BY <1>1
<1>4. \A k \in DOMAIN r : k < Len(r) + 1 /\ ~(Len(r) + 1 < k)
    BY <1>1
<1>5. TellsUpTo(None, a, v)
    BY <1>2, <1>3 DEF ItemSound, TellsUpTo
<1>6. ASSUME NEW j \in DOMAIN a, NEW k \in DOMAIN a, j < k,
             a[j].status = "Good", a[k].status = "Good"
      PROVE  a[j].value <= a[k].value
    <2>1. CASE k = Len(r) + 1 /\ a[k] = h
        <3>1. j \in DOMAIN r /\ a[j] = r[j]
            BY <1>3, <1>6, <2>1, <1>1
        <3> QED BY <1>2, <1>6, <2>1, <3>1 DEF ItemSound, TellsUpTo
    <2>2. CASE k \in DOMAIN r /\ a[k] = r[k]
        <3>1. j \in DOMAIN r /\ a[j] = r[j]
            BY <1>3, <1>4, <1>6, <2>2
        <3> QED BY <1>6, <2>2, <3>1 DEF ItemSound
    <2> QED BY <1>3, <2>1, <2>2
<1>7. ASSUME NEW j \in DOMAIN a, NEW k \in DOMAIN a,
             a[j].status = "Bad_NotReadable", a[k].status = "Bad_NotReadable"
      PROVE  j = k
    <2>1. CASE h.status = "Bad_NotReadable"
        <3>1. \A m \in DOMAIN r : r[m].status # "Bad_NotReadable"
            BY <1>2, <2>1 DEF ItemSound
        <3>2. j = Len(r) + 1
            BY <1>3, <1>7, <3>1
        <3>3. k = Len(r) + 1
            BY <1>3, <1>7, <3>1
        <3> QED BY <3>2, <3>3
    <2>2. CASE h.status # "Bad_NotReadable"
        <3>1. j \in DOMAIN r /\ k \in DOMAIN r /\ a[j] = r[j] /\ a[k] = r[k]
            BY <1>3, <1>7, <2>2
        <3>2. r[j].status = "Bad_NotReadable" /\ r[k].status = "Bad_NotReadable"
            BY <1>7, <3>1
        <3>3. \A m, n \in DOMAIN r :
                 r[m].status = "Bad_NotReadable" /\ r[n].status = "Bad_NotReadable" => m = n
            BY DEF ItemSound
        <3> QED BY <3>1, <3>2, <3>3
    <2> QED BY <2>1, <2>2
<1>8. ItemSound(None, "recent", a, v)
    BY <1>5, <1>6, <1>7 DEF ItemSound
<1> QED BY <1>8 DEF a

\* An item that loses what it holds is still sound, one whose sampling interval
\* passes, one whose source moves on, and one that starts again.
LEMMA ItemKept ==
    ASSUME NEW h, NEW l, NEW r \in Seq(Notifications), NEW v \in Nat, ItemSound(h, l, r, v)
    PROVE  /\ ItemSound(None, l, r, v)
           /\ l = "recent" => ItemSound(h, "due", r, v)
           /\ ItemSound(None, "never", <<>>, v)
<1>1. ItemSound(None, l, r, v)
    BY DEF ItemSound, TellsUpTo
<1>2. l = "recent" => ItemSound(h, "due", r, v)
    BY DEF ItemSound, TellsUpTo
<1>3. ItemSound(None, "never", <<>>, v)
    <2>1. DOMAIN <<>> = {}
        OBVIOUS
    <2> QED BY <2>1 DEF ItemSound, TellsUpTo
<1> QED BY <1>1, <1>2, <1>3

\* What is no newer than a value is no newer than a later one.
LEMMA TellsUpToMore ==
    ASSUME NEW h \in Notifications \cup {None}, NEW r \in Seq(Notifications),
           NEW v \in Nat, NEW w \in Nat, v <= w, TellsUpTo(h, r, v)
    PROVE  TellsUpTo(h, r, w)
<1>1. \A k \in DOMAIN r : r[k] \in Notifications
    OBVIOUS
<1>2. \A n \in Notifications : n.value \in Nat
    BY DEF Notifications
<1> QED BY <1>1, <1>2 DEF TellsUpTo

-----------------------------------------------------------------------------
(* A publishing cycle keeps what it works on sound *)

\* One sequence after another lists what both list, each once when neither
\* repeats anything or has anything of the other.
LEMMA ConcatListed ==
    ASSUME NEW T, NEW p \in Seq(T), NEW q \in Seq(T)
    PROVE  /\ p \o q \in Seq(T)
           /\ Listed(p \o q) = Listed(p) \cup Listed(q)
           /\ Once(p) /\ Once(q) /\ Listed(p) \cap Listed(q) = {} => Once(p \o q)
<1> DEFINE a == p \o q
<1>1. /\ a \in Seq(T) /\ Len(p) \in Nat /\ Len(q) \in Nat
      /\ DOMAIN a = 1 .. Len(p) + Len(q)
      /\ DOMAIN p = 1 .. Len(p) /\ DOMAIN q = 1 .. Len(q)
    OBVIOUS
<1>2. /\ \A k \in 1 .. Len(p) : a[k] = p[k]
      /\ \A k \in 1 .. Len(q) : a[k + Len(p)] = q[k]
    OBVIOUS
<1> HIDE DEF a
<1>3. ASSUME NEW k \in DOMAIN a
      PROVE  \/ k \in DOMAIN p /\ a[k] = p[k]
             \/ k - Len(p) \in DOMAIN q /\ a[k] = q[k - Len(p)]
    <2>1. CASE k <= Len(p)
        BY <1>1, <1>2, <1>3, <2>1
    <2>2. CASE ~(k <= Len(p))
        <3>1. k - Len(p) \in 1 .. Len(q) /\ (k - Len(p)) + Len(p) = k
            BY <1>1, <1>3, <2>2
        <3> QED BY <1>1, <1>2, <3>1
    <2> QED BY <2>1, <2>2
<1>4. Listed(a) = Listed(p) \cup Listed(q)
    <2>1. ASSUME NEW x \in Listed(a) PROVE x \in Listed(p) \cup Listed(q)
        BY <1>3 DEF Listed
    <2>2. ASSUME NEW x \in Listed(p) PROVE x \in Listed(a)
        <3>1. PICK k \in DOMAIN p : p[k] = x
            BY <2>2 DEF Listed
        <3>2. k \in DOMAIN a /\ a[k] = x
            BY <1>1, <1>2, <3>1
        <3> QED BY <3>2 DEF Listed
    <2>3. ASSUME NEW x \in Listed(q) PROVE x \in Listed(a)
        <3>1. PICK k \in DOMAIN q : q[k] = x
            BY <2>3 DEF Listed
        <3>2. k + Len(p) \in DOMAIN a /\ a[k + Len(p)] = x
            BY <1>1, <1>2, <3>1
        <3> QED BY <3>2 DEF Listed
    <2> QED BY <2>1, <2>2, <2>3
<1>5. ASSUME Once(p), Once(q), Listed(p) \cap Listed(q) = {},
             NEW j \in DOMAIN a, NEW k \in DOMAIN a, a[j] = a[k]
      PROVE  j = k
    <2>1. CASE k \in DOMAIN p /\ a[k] = p[k] /\ j \in DOMAIN p /\ a[j] = p[j]
        BY <1>5, <2>1 DEF Once
    <2>2. CASE /\ k - Len(p) \in DOMAIN q /\ a[k] = q[k - Len(p)]
               /\ j - Len(p) \in DOMAIN q /\ a[j] = q[j - Len(p)]
        <3>1. k - Len(p) = j - Len(p)
            BY <1>5, <2>2 DEF Once
        <3> QED BY <3>1, <1>1
    <2>3. \/ k \in DOMAIN p /\ a[k] = p[k]
          \/ k - Len(p) \in DOMAIN q /\ a[k] = q[k - Len(p)]
        BY <1>3
    <2>4. \/ j \in DOMAIN p /\ a[j] = p[j]
          \/ j - Len(p) \in DOMAIN q /\ a[j] = q[j - Len(p)]
        BY <1>3
    <2>5. a[j] \in Listed(p) /\ a[j] \in Listed(q) => FALSE
        BY <1>5
    <2> QED BY <1>5, <2>1, <2>2, <2>3, <2>4, <2>5 DEF Listed
<1> QED BY <1>1, <1>4, <1>5 DEF a, Once

\* What a cycle for subscription s works on is sound, and of the items of other
\* subscriptions nothing has changed.
CycleSound(s, c) ==
    /\ Shaped(c)
    /\ PerItem(c.held) /\ PerItem(c.lastReported) /\ PerItem(c.reported)
    /\ c.heldOrder \in Seq(Items)
    /\ \A i \in Items : /\ c.held[i] \in Notifications \cup {None}
                        /\ c.reported[i] \in Seq(Notifications)
                        /\ c.lastReported[i] \in {"never", "recent", "due"}
    /\ QueuedOnce(s, c.heldOrder, c.held)
    /\ \A i \in Items \ items : c.held[i] = None
    /\ \A i \in Items :
          ItemSound(c.held[i], c.lastReported[i], c.reported[i], version[itemID[i]])
    /\ \A i \in Items : owner[i] # s =>
          c.held[i] = held[i] /\ c.reported[i] = reported[i] /\ c.lastReported[i] = lastReported[i]

\* No value of an item is newer than what waits to be drained for it.
FedSound(s, c) ==
    \A k \in DOMAIN queue[s] : \A i \in ItemsOf(s) :
        itemID[i] = queue[s][k].node => TellsUpTo(c.held[i], c.reported[i], queue[s][k].value)

SubscriptionInv ==
    /\ TypeOK
    /\ SubscriptionTypes
    /\ RetransmissionInv
    /\ HeldOrderInv
    /\ ItemInv

\* A cycle begins with what the subscription has.
LEMMA CycleBegins ==
    ASSUME SubscriptionInv, NEW s \in Subscriptions
    PROVE  /\ CycleSound(s, current(s)) /\ FedSound(s, current(s))
           /\ current(s).lastReported = lastReported /\ current(s).da = da[s]
<1> DEFINE c == current(s)
<1>1. /\ c.held = held /\ c.heldOrder = heldOrder[s] /\ c.lastReported = lastReported
      /\ c.reported = reported /\ c.da = da[s] /\ Shaped(c)
    BY DEF current, Shaped, Fields
<1> HIDE DEF c
<1>2. /\ held \in [Items -> Notifications \cup {None}]
      /\ lastReported \in [Items -> {"never", "recent", "due"}]
      /\ reported \in [Items -> Seq(Notifications)]
      /\ heldOrder[s] \in Seq(Items)
    BY DEF SubscriptionInv, TypeOK, SubscriptionTypes
<1>3. PerItem(c.held) /\ PerItem(c.lastReported) /\ PerItem(c.reported)
    BY <1>1, <1>2 DEF PerItem
<1>4. CycleSound(s, c)
    BY <1>1, <1>2, <1>3 DEF CycleSound, SubscriptionInv, HeldOrderInv, ItemInv
<1>5. FedSound(s, c)
    BY <1>1 DEF FedSound, SubscriptionInv, ItemInv
<1> QED BY <1>1, <1>4, <1>5 DEF c

\* The items of a subscription are among the items there are.
LEMMA ItemsThere ==
    ASSUME SubscriptionInv
    PROVE  /\ items \subseteq Items /\ items \subseteq used /\ used \subseteq Items
           /\ \A s : ItemsOf(s) \subseteq items /\ \A i \in ItemsOf(s) : owner[i] = s
BY DEF SubscriptionInv, TypeOK, ItemsOf

\* The unreadable items go to the end of heldOrder and hold their refusal.
LEMMA HoldUnreadableKeeps ==
    ASSUME SubscriptionInv, NEW s \in Subscriptions, NEW o \in Orders(Unreadable(s))
    PROVE  LET c == holdUnreadable(current(s), o) IN
           /\ CycleSound(s, c) /\ FedSound(s, c)
           /\ c.lastReported = lastReported /\ c.da = da[s]
<1> DEFINE b == current(s)
           c == holdUnreadable(b, o)
           refusal == Notification("Bad_NotReadable", 0, 0)
<1>1. /\ CycleSound(s, b) /\ FedSound(s, b) /\ b.lastReported = lastReported /\ b.da = da[s]
      /\ b.held = held
    BY CycleBegins DEF current
<1>2. /\ Shaped(c)
      /\ c.heldOrder = b.heldOrder \o o
      /\ c.lastReported = b.lastReported /\ c.da = b.da /\ c.reported = b.reported
      /\ PerItem(c.held)
      /\ \A i \in Items : c.held[i] = IF i \in Listed(o) THEN refusal ELSE b.held[i]
    <2>1. Shaped(b)
        BY <1>1 DEF CycleSound
    <2> HIDE DEF b
    <2> QED BY <2>1, HoldUnreadableFields, Zenon
<1> HIDE DEF b, c
<1>3. /\ o \in Seq(Items) /\ Once(o) /\ Listed(o) \subseteq Unreadable(s)
    <2>1. Unreadable(s) \in SUBSET Items
        BY ItemsThere DEF Unreadable
    <2>2. Cardinality(Unreadable(s)) \in Nat
        BY <2>1, SubscriptionAssumption, FS_Subset, FS_CardinalityType
    <2>3. o \in [1 .. Cardinality(Unreadable(s)) -> Unreadable(s)] /\ Once(o)
        BY DEF Orders, Once
    <2> HIDE DEF Unreadable
    <2> QED BY <2>1, <2>2, <2>3 DEF Listed
<1>4. /\ refusal \in Notifications /\ refusal # None /\ refusal.status = "Bad_NotReadable"
    BY SubscriptionAssumption DEF Notification, Notifications
<1>5. \A i \in Listed(o) : /\ i \in ItemsOf(s) /\ i \in items /\ i \in Items /\ i \in used
                           /\ b.lastReported[i] = "never" /\ b.held[i] = None
                           /\ owner[i] = s
    BY <1>1, <1>3, ItemsThere DEF Unreadable
<1> HIDE DEF refusal
<1>6. QueuedOnce(s, c.heldOrder, c.held)
    <2>1. QueuedOnce(s, b.heldOrder, b.held) /\ b.heldOrder \in Seq(Items)
        BY <1>1 DEF CycleSound
    <2>2. Listed(b.heldOrder) \cap Listed(o) = {}
        BY <1>5, <2>1 DEF QueuedOnce
    <2>3. /\ Once(c.heldOrder)
          /\ Listed(c.heldOrder) = Listed(b.heldOrder) \cup Listed(o)
        BY <1>2, <1>3, <2>1, <2>2, ConcatListed DEF QueuedOnce
    <2>4. \A i \in ItemsOf(s) : i \in Listed(c.heldOrder) <=> c.held[i] # None
        BY <1>2, <1>4, <2>1, <2>3, ItemsThere DEF QueuedOnce
    <2> QED BY <1>5, <2>1, <2>3, <2>4 DEF QueuedOnce
<1>7. ASSUME NEW i \in Items
      PROVE  /\ c.held[i] \in Notifications \cup {None}
             /\ ItemSound(c.held[i], c.lastReported[i], c.reported[i], version[itemID[i]])
    <2>1. /\ ItemSound(b.held[i], b.lastReported[i], b.reported[i], version[itemID[i]])
          /\ b.held[i] \in Notifications \cup {None}
        BY <1>1 DEF CycleSound
    <2>2. CASE i \in Listed(o)
        <3>1. ItemSound(None, "never", b.reported[i], version[itemID[i]])
            BY <1>5, <2>1, <2>2
        <3>2. ItemSound(refusal, "never", b.reported[i], version[itemID[i]])
            BY <3>1, ItemRefused DEF refusal
        <3> QED BY <1>2, <1>4, <1>5, <2>2, <3>2
    <2>3. CASE i \notin Listed(o)
        BY <1>2, <2>1, <2>3
    <2> QED BY <2>2, <2>3
<1>8. c.heldOrder \in Seq(Items)
    BY <1>1, <1>2, <1>3, ConcatListed DEF CycleSound
<1>9. CycleSound(s, c)
    <2>1. \A i \in Items : owner[i] # s =>
             c.held[i] = held[i] /\ c.reported[i] = reported[i] /\ c.lastReported[i] = lastReported[i]
        BY <1>1, <1>2, <1>5 DEF CycleSound
    <2>2. \A i \in Items \ items : c.held[i] = None
        BY <1>1, <1>2, <1>5 DEF CycleSound
    <2>3. \A i \in Items : /\ c.reported[i] \in Seq(Notifications)
                           /\ c.lastReported[i] \in {"never", "recent", "due"}
        BY <1>1, <1>2 DEF CycleSound
    <2>4. PerItem(c.lastReported) /\ PerItem(c.reported)
        BY <1>1, <1>2 DEF CycleSound
    <2> QED BY <1>2, <1>6, <1>7, <1>8, <2>1, <2>2, <2>3, <2>4 DEF CycleSound
<1>10. FedSound(s, c)
    <2> SUFFICES ASSUME NEW k \in DOMAIN queue[s], NEW i \in ItemsOf(s),
                        itemID[i] = queue[s][k].node
                 PROVE  TellsUpTo(c.held[i], c.reported[i], queue[s][k].value)
        BY DEF FedSound
    <2>1. TellsUpTo(b.held[i], b.reported[i], queue[s][k].value)
        BY <1>1 DEF FedSound
    <2>2. i \in Items
        BY ItemsThere
    <2> QED BY <1>2, <1>4, <2>1, <2>2 DEF TellsUpTo
<1>11. c.lastReported = lastReported /\ c.da = da[s]
    BY <1>1, <1>2
<1> QED BY <1>9, <1>10, <1>11 DEF b, c

\* What is drained is in the queue, and feeds each item once with a value that
\* waits for it there.
LEMMA FedOnce ==
    ASSUME SubscriptionInv, NEW s \in Subscriptions, NEW pick \in itemForDAItemID(s)
    PROVE  /\ Feeding(s, pick) \in Seq(Items) /\ Once(Feeding(s, pick))
           /\ Listed(Feeding(s, pick)) = FedItems(s, pick)
           /\ FedItems(s, pick) \subseteq ItemsOf(s)
           /\ \A i \in FedItems(s, pick) :
                 /\ FedValue(s, pick, i) \in Notifications
                 /\ FedValue(s, pick, i).status = "Good"
                 /\ \E k \in DOMAIN queue[s] :
                       /\ queue[s][k].node = itemID[i]
                       /\ FedValue(s, pick, i).value = queue[s][k].value
<1> DEFINE q == queue[s]
           D == Drained(s, pick)
           S == {e \in Listed(q) : pick[e.node] \in Reporting}
<1>1. /\ q \in Seq(Entries)
      /\ \A j, k \in DOMAIN q : q[j].node = q[k].node => j = k
    BY DEF SubscriptionInv, SubscriptionTypes, HeldOrderInv, QueueSound
<1>2. Once(q)
    BY <1>1 DEF Once
<1>3. D = Selected(q, S)
    BY DEF Drained
<1>4. /\ pick \in [{q[k].node : k \in DOMAIN q} -> ItemsOf(s)]
      /\ \A n \in DOMAIN pick : itemID[pick[n]] = n
    BY DEF itemForDAItemID
<1> HIDE DEF q, D, S
<1>5. /\ D \in Seq(Entries) /\ Once(D)
      /\ Listed(D) \subseteq Listed(q)
    <2>1. Selected(q, S) \in Seq(Entries)
        BY <1>1, SelectedFrom, Zenon
    <2>2. Once(Selected(q, S))
        BY <1>1, <1>2, SelectedOnce, Zenon
    <2>3. Listed(Selected(q, S)) = Listed(q) \cap S
        BY <1>1, SelectedListed, Zenon
    <2> QED BY <1>3, <2>1, <2>2, <2>3
<1>6. ASSUME NEW j \in DOMAIN D
      PROVE  /\ D[j] \in Listed(q) /\ D[j].node \in DOMAIN pick
             /\ pick[D[j].node] \in ItemsOf(s) /\ itemID[pick[D[j].node]] = D[j].node
             /\ \E k \in DOMAIN q : D[j] = q[k]
    <2>1. D[j] \in Listed(q)
        BY <1>5 DEF Listed
    <2>2. PICK k \in DOMAIN q : D[j] = q[k]
        BY <2>1 DEF Listed
    <2>3. D[j].node \in DOMAIN pick
        BY <1>4, <2>2
    <2> QED BY <1>4, <2>1, <2>2, <2>3
<1>7. ASSUME NEW j \in DOMAIN D, NEW k \in DOMAIN D, pick[D[j].node] = pick[D[k].node]
      PROVE  j = k
    <2>1. D[j].node = D[k].node
        BY <1>6, <1>7
    <2>2. PICK a \in DOMAIN q, b \in DOMAIN q : D[j] = q[a] /\ D[k] = q[b]
        BY <1>6
    <2>3. a = b
        BY <1>1, <2>1, <2>2
    <2> QED BY <1>5, <2>2, <2>3 DEF Once
<1> DEFINE F == Feeding(s, pick)
<1>8. F = [k \in DOMAIN D |-> pick[D[k].node]]
    BY DEF Feeding, D
<1>9. FedItems(s, pick) = {pick[e.node] : e \in Listed(D)}
    BY DEF FedItems, D
<1> HIDE DEF F
<1>10. F \in Seq(Items)
    <2>1. DOMAIN D = 1 .. Len(D) /\ Len(D) \in Nat
        BY <1>5
    <2>2. ItemsOf(s) \subseteq Items
        BY ItemsThere
    <2>3. F \in [1 .. Len(D) -> Items]
        BY <1>6, <1>8, <2>1, <2>2
    <2> QED BY <2>1, <2>3
<1>11. Once(F)
    BY <1>7, <1>8 DEF Once
<1>12. Listed(F) = FedItems(s, pick)
    <2>1. DOMAIN F = DOMAIN D /\ \A k \in DOMAIN D : F[k] = pick[D[k].node]
        BY <1>8
    <2> QED BY <1>9, <2>1 DEF Listed
<1>13. FedItems(s, pick) \subseteq ItemsOf(s)
    BY <1>6, <1>9 DEF Listed
<1>14. ASSUME NEW i \in FedItems(s, pick)
       PROVE  /\ FedValue(s, pick, i) \in Notifications
              /\ FedValue(s, pick, i).status = "Good"
              /\ \E k \in DOMAIN q : /\ q[k].node = itemID[i]
                                     /\ FedValue(s, pick, i).value = q[k].value
    <2> DEFINE e == CHOOSE x \in Listed(D) : pick[x.node] = i
               bit == IF semantics[itemID[i]] # seen[i] THEN semantics[itemID[i]] ELSE 0
    <2>1. e \in Listed(D) /\ pick[e.node] = i
        BY <1>9, <1>14
    <2>2. FedValue(s, pick, i) = Notification("Good", e.value, bit)
        BY DEF FedValue, D
    <2>3. bit \in 0 .. MaxSemantics
        <3>1. semantics \in [DAItems -> 0 .. MaxSemantics] /\ itemID[i] \in DAItems
            BY <1>13, ItemsThere, SubscriptionAssumption DEF SubscriptionInv, TypeOK
        <3> QED BY <3>1, SubscriptionAssumption
    <2> HIDE DEF e, bit
    <2>4. PICK j \in DOMAIN D : D[j] = e
        BY <2>1 DEF Listed
    <2>5. PICK k \in DOMAIN q : e = q[k]
        BY <1>6, <2>4
    <2>6. itemID[i] = e.node /\ e.value \in Nat
        <3>1. e \in Entries
            BY <1>1, <2>5
        <3> QED BY <1>6, <2>1, <2>4, <3>1 DEF Entries
    <2>7. /\ FedValue(s, pick, i) \in Notifications
          /\ FedValue(s, pick, i).status = "Good" /\ FedValue(s, pick, i).value = e.value
        BY <2>2, <2>3, <2>6 DEF Notification, Notifications
    <2> QED BY <2>5, <2>6, <2>7
<1> QED BY <1>10, <1>11, <1>12, <1>13, <1>14 DEF F, q

\* The drained values take their places.
LEMMA HoldValuesKeeps ==
    ASSUME SubscriptionInv, NEW s \in Subscriptions, NEW pick \in itemForDAItemID(s),
           NEW b, CycleSound(s, b), FedSound(s, b), b.lastReported = lastReported
    PROVE  LET c == holdValues(s, b, pick) IN
           CycleSound(s, c) /\ c.lastReported = lastReported /\ c.da = b.da
<1> DEFINE c == holdValues(s, b, pick)
           fed == FedItems(s, pick)
           new == NewlyFed(s, b, pick)
<1>1. /\ Shaped(c)
      /\ c.heldOrder = b.heldOrder \o new /\ c.da = b.da
      /\ PerItem(c.held)
      /\ \A i \in Items : c.held[i] = IF i \in fed THEN FedValue(s, pick, i) ELSE b.held[i]
      /\ c.lastReported = b.lastReported
      /\ c.reported = b.reported
    <2>1. Shaped(b)
        BY DEF CycleSound
    <2>2. FedIn(s, pick, b, c)
        BY <2>1, HoldValuesFields, Zenon
    <2> HIDE DEF c
    <2> QED BY <2>2 DEF FedIn
<1>2. /\ Feeding(s, pick) \in Seq(Items) /\ Once(Feeding(s, pick))
      /\ Listed(Feeding(s, pick)) = fed
      /\ fed \subseteq ItemsOf(s)
      /\ \A i \in fed :
            /\ FedValue(s, pick, i) \in Notifications
            /\ FedValue(s, pick, i).status = "Good"
            /\ \E k \in DOMAIN queue[s] : /\ queue[s][k].node = itemID[i]
                                          /\ FedValue(s, pick, i).value = queue[s][k].value
    BY FedOnce
<1> HIDE DEF c, fed
<1>3. new \in Seq(Items) /\ Once(new) /\ Listed(new) = {i \in fed : b.held[i] = None}
    <2> DEFINE S == {i \in fed : b.held[i] = None}
    <2>1. new = Selected(Feeding(s, pick), S)
        BY DEF NewlyFed, fed
    <2> HIDE DEF S, new
    <2>2. Selected(Feeding(s, pick), S) \in Seq(Items)
        BY <1>2, SelectedFrom, Zenon
    <2>3. Once(Selected(Feeding(s, pick), S))
        BY <1>2, SelectedOnce, Zenon
    <2>4. Listed(Selected(Feeding(s, pick), S)) = Listed(Feeding(s, pick)) \cap S
        BY <1>2, SelectedListed, Zenon
    <2> QED BY <1>2, <2>1, <2>2, <2>3, <2>4 DEF S
<1> HIDE DEF new
<1>4. \A i \in fed : /\ i \in ItemsOf(s) /\ i \in items /\ i \in Items /\ i \in used
                     /\ owner[i] = s /\ FedValue(s, pick, i) # None
    BY <1>2, ItemsThere, SubscriptionAssumption
<1>5. QueuedOnce(s, c.heldOrder, c.held) /\ c.heldOrder \in Seq(Items)
    <2>1. QueuedOnce(s, b.heldOrder, b.held) /\ b.heldOrder \in Seq(Items)
        BY DEF CycleSound
    <2>2. Listed(b.heldOrder) \cap Listed(new) = {}
        BY <1>3, <1>4, <2>1 DEF QueuedOnce
    <2>3. /\ Once(c.heldOrder) /\ c.heldOrder \in Seq(Items)
          /\ Listed(c.heldOrder) = Listed(b.heldOrder) \cup Listed(new)
        BY <1>1, <1>3, <2>1, <2>2, ConcatListed DEF QueuedOnce
    <2>4. ASSUME NEW i \in ItemsOf(s) PROVE i \in Listed(c.heldOrder) <=> c.held[i] # None
        <3>1. i \in Items /\ (i \in Listed(b.heldOrder) <=> b.held[i] # None)
            BY <2>1, ItemsThere DEF QueuedOnce
        <3>2. CASE i \in fed
            <4>1. c.held[i] # None
                BY <1>1, <1>4, <3>1, <3>2
            <4>2. i \in Listed(b.heldOrder) \/ i \in Listed(new)
                BY <1>3, <3>1, <3>2
            <4> QED BY <2>3, <4>1, <4>2
        <3>3. CASE i \notin fed
            BY <1>1, <1>3, <2>3, <3>1, <3>3
        <3> QED BY <3>2, <3>3
    <2>5. \A i \in Listed(c.heldOrder) : owner[i] = s /\ i \in used
        BY <1>3, <1>4, <2>1, <2>3 DEF QueuedOnce
    <2> QED BY <2>3, <2>4, <2>5 DEF QueuedOnce
<1>6. ASSUME NEW i \in Items
      PROVE  /\ c.held[i] \in Notifications \cup {None}
             /\ ItemSound(c.held[i], c.lastReported[i], c.reported[i], version[itemID[i]])
    <2>1. /\ ItemSound(b.held[i], b.lastReported[i], b.reported[i], version[itemID[i]])
          /\ b.held[i] \in Notifications \cup {None}
        BY DEF CycleSound
    <2>2. CASE i \in fed
        <3> DEFINE n == FedValue(s, pick, i)
        <3>1. PICK k \in DOMAIN queue[s] : /\ queue[s][k].node = itemID[i]
                                           /\ n.value = queue[s][k].value
            BY <1>2, <2>2
        <3>2. n \in Notifications /\ n.status = "Good" /\ c.held[i] = n
            BY <1>1, <1>2, <2>2
        <3> HIDE DEF n
        <3>3. TellsUpTo(b.held[i], b.reported[i], n.value)
            BY <1>4, <2>2, <3>1 DEF FedSound
        <3>4. TellsUpTo(None, b.reported[i], n.value)
            BY <3>3 DEF TellsUpTo
        <3>5. n.value <= version[itemID[i]]
            BY <3>1 DEF SubscriptionInv, HeldOrderInv, QueueSound
        <3>6. ItemSound(n, b.lastReported[i], b.reported[i], version[itemID[i]])
            BY <2>1, <3>2, <3>4, <3>5, ItemHolds
        <3> QED BY <1>1, <3>2, <3>6
    <2>3. CASE i \notin fed
        BY <1>1, <2>1, <2>3
    <2> QED BY <2>2, <2>3
<1>7. CycleSound(s, c)
    <2>1. \A i \in Items : owner[i] # s =>
             c.held[i] = held[i] /\ c.reported[i] = reported[i] /\ c.lastReported[i] = lastReported[i]
        BY <1>1, <1>4 DEF CycleSound
    <2>2. \A i \in Items \ items : c.held[i] = None
        BY <1>1, <1>4 DEF CycleSound
    <2>3. \A i \in Items : /\ c.reported[i] \in Seq(Notifications)
                           /\ c.lastReported[i] \in {"never", "recent", "due"}
        BY <1>1 DEF CycleSound
    <2>4. PerItem(c.lastReported) /\ PerItem(c.reported)
        BY <1>1 DEF CycleSound
    <2> QED BY <1>1, <1>5, <1>6, <2>1, <2>2, <2>3, <2>4 DEF CycleSound
<1> QED BY <1>1, <1>7 DEF c

\* A flush reports what is ready and keeps the place of the rest.
LEMMA FlushKeeps ==
    ASSUME SubscriptionInv, NEW s \in Subscriptions,
           NEW b, CycleSound(s, b), b.lastReported = lastReported
    PROVE  LET c == flushHeld(s, b) IN CycleSound(s, c) /\ c.da = b.da
<1>0. CASE ~enabled[s]
    BY <1>0 DEF flushHeld
<1> SUFFICES ASSUME enabled[s]
             PROVE  LET c == flushHeld(s, b) IN CycleSound(s, c) /\ c.da = b.da
    BY <1>0
<1> DEFINE c == flushHeld(s, b)
           ready == Listed(Ready(b))
<1>1. /\ Shaped(c)
      /\ c.heldOrder = Still(b) /\ c.da = b.da
      /\ PerItem(c.held) /\ PerItem(c.lastReported) /\ PerItem(c.reported)
      /\ \A i \in Items : c.held[i] = IF i \in ready THEN None ELSE b.held[i]
      /\ \A i \in Items : c.lastReported[i] = IF i \in ready THEN "recent"
                                              ELSE b.lastReported[i]
      /\ \A i \in Items : c.reported[i] = IF i \in ready
                                          THEN Append(b.reported[i], b.held[i])
                                          ELSE b.reported[i]
    <2>1. Shaped(b)
        BY DEF CycleSound
    <2> QED BY <2>1, FlushFields, Zenon
<1>2. b.heldOrder \in Seq(Items) /\ QueuedOnce(s, b.heldOrder, b.held) /\ Once(b.heldOrder)
    BY DEF CycleSound, QueuedOnce
<1>3. ready = Listed(b.heldOrder) \cap {i \in Holding(b) : lastReported[i] # "recent"}
    BY <1>2, SelectedListed, Zenon DEF Ready
<1>4. /\ Still(b) \in Seq(Items) /\ Once(Still(b))
      /\ Listed(Still(b)) =
            Listed(b.heldOrder) \cap {i \in Holding(b) : lastReported[i] = "recent"}
    <2>1. Still(b) \in Seq(Items)
        BY <1>2, SelectedFrom, Zenon DEF Still
    <2>2. Once(Still(b))
        BY <1>2, SelectedOnce, Zenon DEF Still
    <2>3. Listed(Still(b)) =
            Listed(b.heldOrder) \cap {i \in Holding(b) : lastReported[i] = "recent"}
        BY <1>2, SelectedListed, Zenon DEF Still
    <2> QED BY <2>1, <2>2, <2>3
<1> HIDE DEF c, ready
<1>5. \A i \in ready : /\ i \in items /\ i \in Items /\ i \in ItemsOf(s) /\ owner[i] = s
                       /\ b.held[i] # None /\ b.lastReported[i] # "recent"
    BY <1>2, <1>3, ItemsThere DEF Holding, QueuedOnce, ItemsOf
<1>6. QueuedOnce(s, c.heldOrder, c.held)
    <2>1. ASSUME NEW i \in ItemsOf(s) PROVE i \in Listed(c.heldOrder) <=> c.held[i] # None
        <3>1. /\ i \in Items /\ i \in items
              /\ i \in Listed(b.heldOrder) <=> b.held[i] # None
            BY <1>2, ItemsThere DEF QueuedOnce
        <3>2. i \in Holding(b) <=> b.held[i] # None
            BY <3>1 DEF Holding
        <3> QED BY <1>1, <1>3, <1>4, <3>1, <3>2
    <2>2. \A i \in Listed(c.heldOrder) : owner[i] = s /\ i \in used
        BY <1>1, <1>2, <1>4 DEF QueuedOnce
    <2> QED BY <1>1, <1>4, <2>1, <2>2 DEF QueuedOnce
<1>7. ASSUME NEW i \in Items
      PROVE  /\ c.held[i] \in Notifications \cup {None}
             /\ c.reported[i] \in Seq(Notifications)
             /\ c.lastReported[i] \in {"never", "recent", "due"}
             /\ ItemSound(c.held[i], c.lastReported[i], c.reported[i], version[itemID[i]])
    <2>1. /\ ItemSound(b.held[i], b.lastReported[i], b.reported[i], version[itemID[i]])
          /\ b.held[i] \in Notifications \cup {None}
          /\ b.reported[i] \in Seq(Notifications)
          /\ b.lastReported[i] \in {"never", "recent", "due"}
        BY DEF CycleSound
    <2>2. CASE i \in ready
        <3>1. b.held[i] \in Notifications
            BY <1>5, <2>1, <2>2
        <3>2. ItemSound(None, "recent", Append(b.reported[i], b.held[i]), version[itemID[i]])
            BY <2>1, <3>1, ItemReports
        <3>3. Append(b.reported[i], b.held[i]) \in Seq(Notifications)
            BY <2>1, <3>1
        <3> QED BY <1>1, <2>2, <3>2, <3>3
    <2>3. CASE i \notin ready
        BY <1>1, <2>1, <2>3
    <2> QED BY <2>2, <2>3
<1>8. CycleSound(s, c)
    <2>1. \A i \in Items : owner[i] # s =>
             c.held[i] = held[i] /\ c.reported[i] = reported[i] /\ c.lastReported[i] = lastReported[i]
        BY <1>1, <1>5 DEF CycleSound
    <2>2. \A i \in Items \ items : c.held[i] = None
        BY <1>1, <1>5 DEF CycleSound
    <2> QED BY <1>1, <1>4, <1>6, <1>7, <2>1, <2>2 DEF CycleSound
<1> QED BY <1>1, <1>8 DEF c

\* An invalidation leaves nothing held and nothing queued.
LEMMA InvalidationKeeps ==
    ASSUME SubscriptionInv, NEW s \in Subscriptions, NEW o, NEW b, CycleSound(s, b)
    PROVE  LET c == [reportInvalidation(s, b, o) EXCEPT !.da = {}] IN
           CycleSound(s, c) /\ c.da = {}
<1> DEFINE c == [reportInvalidation(s, b, o) EXCEPT !.da = {}]
<1>1. /\ Shaped(c)
      /\ c.heldOrder = <<>> /\ c.da = {}
      /\ PerItem(c.held)
      /\ \A i \in Items : c.held[i] = IF i \in ItemsOf(s) THEN None ELSE b.held[i]
      /\ c.lastReported = b.lastReported
      /\ c.reported = b.reported
    <2>1. Shaped(b)
        BY DEF CycleSound
    <2>2. EmptiedIn(s, b, c)
        BY <2>1, InvalidationFields, Zenon
    <2> HIDE DEF c
    <2> QED BY <2>2 DEF EmptiedIn
<1> HIDE DEF c
<1>2. \A i \in ItemsOf(s) : i \in items /\ i \in Items /\ owner[i] = s
    BY ItemsThere
<1>3. QueuedOnce(s, c.heldOrder, c.held)
    <2>1. Listed(<<>>) = {} /\ Once(<<>>)
        BY DEF Listed, Once
    <2> QED BY <1>1, <1>2, <2>1 DEF QueuedOnce
<1>4. ASSUME NEW i \in Items
      PROVE  /\ c.held[i] \in Notifications \cup {None}
             /\ c.reported[i] \in Seq(Notifications)
             /\ c.lastReported[i] \in {"never", "recent", "due"}
             /\ ItemSound(c.held[i], c.lastReported[i], c.reported[i], version[itemID[i]])
    <2>1. /\ ItemSound(b.held[i], b.lastReported[i], b.reported[i], version[itemID[i]])
          /\ b.held[i] \in Notifications \cup {None}
          /\ b.reported[i] \in Seq(Notifications)
          /\ b.lastReported[i] \in {"never", "recent", "due"}
        BY DEF CycleSound
    <2>2. version[itemID[i]] \in Nat
        BY SubscriptionAssumption DEF SubscriptionInv, SubscriptionTypes
    <2>3. ItemSound(None, b.lastReported[i], b.reported[i], version[itemID[i]])
        BY <2>1, <2>2, ItemKept
    <2> QED BY <1>1, <2>1, <2>3
<1>5. CycleSound(s, c)
    <2>1. \A i \in Items : owner[i] # s =>
             c.held[i] = held[i] /\ c.reported[i] = reported[i] /\ c.lastReported[i] = lastReported[i]
        BY <1>1, <1>2 DEF CycleSound
    <2>2. \A i \in Items \ items : c.held[i] = None
        BY <1>1 DEF CycleSound
    <2>3. PerItem(c.lastReported) /\ PerItem(c.reported)
        BY <1>1 DEF CycleSound
    <2>4. c.heldOrder \in Seq(Items)
        BY <1>1
    <2> QED BY <1>1, <1>3, <1>4, <2>1, <2>2, <2>3, <2>4 DEF CycleSound
<1> QED BY <1>1, <1>5 DEF c

\* Whatever a cycle collects, what it works on stays sound.
LEMMA CollectKeeps ==
    ASSUME SubscriptionInv, NEW s \in Subscriptions, NEW unreadable \in Orders(Unreadable(s)),
           NEW all, NEW pick \in itemForDAItemID(s)
    PROVE  LET c == collect(s, unreadable, all, pick) IN
           CycleSound(s, c) /\ c.da \in {da[s], {}}
<1> DEFINE b == holdUnreadable(current(s), unreadable)
           c == collect(s, unreadable, all, pick)
<1>1. CycleSound(s, b) /\ FedSound(s, b) /\ b.lastReported = lastReported /\ b.da = da[s]
    BY HoldUnreadableKeeps
<1>2. CASE da[s] = {}
    <2>1. c = flushHeld(s, b)
        BY <1>2 DEF collect
    <2> HIDE DEF b, c
    <2> QED BY <1>1, <2>1, FlushKeeps DEF c
<1>3. CASE da[s] # {} /\ done[s]
    <2>1. c = [reportInvalidation(s, b, all) EXCEPT !.da = {}]
        BY <1>3 DEF collect
    <2> HIDE DEF b, c
    <2> QED BY <1>1, <2>1, InvalidationKeeps DEF c
<1>4. CASE da[s] # {} /\ ~done[s]
    <2>1. c = flushHeld(s, holdValues(s, b, pick))
        BY <1>4 DEF collect
    <2> HIDE DEF b, c
    <2> DEFINE h == holdValues(s, b, pick)
    <2>2. CycleSound(s, h) /\ h.lastReported = lastReported /\ h.da = b.da
        BY <1>1, HoldValuesKeeps
    <2> HIDE DEF h
    <2>3. CycleSound(s, flushHeld(s, h)) /\ flushHeld(s, h).da = h.da
        BY <2>2, FlushKeeps
    <2> QED BY <1>1, <2>1, <2>2, <2>3 DEF c, h
<1> QED BY <1>2, <1>3, <1>4

-----------------------------------------------------------------------------
(* What happens to the retransmission queue *)

\* The queue without its oldest message, if it is full, and that message.
Kept(order) == IF Len(order) >= MaxRetransmissionQueue THEN Tail(order) ELSE order
Oldest(order) == IF Len(order) >= MaxRetransmissionQueue THEN {Head(order)} ELSE {}

\* The acknowledgements of the messages that are not too old once n is sent.
Recent(told, n) == {m \in told : n - m < MaxRetransmissionQueue}

\* A message joins the queue; the one that makes room is too old to be kept.
LEMMA RetransmissionSends ==
    ASSUME NEW sn \in Nat, NEW map \in SUBSET Nat, NEW order \in Seq(Nat),
           NEW told \in SUBSET Nat, RetransmissionSound(sn, map, order, told),
           Len(order) <= MaxRetransmissionQueue
    PROVE  LET sent == Append(Kept(order), sn + 1) IN
           /\ sent \in Seq(Nat) /\ Len(sent) <= MaxRetransmissionQueue
           /\ RetransmissionSound(sn + 1, (map \ Oldest(order)) \cup {sn + 1}, sent,
                                  Recent(told, sn + 1))
<1> DEFINE M == MaxRetransmissionQueue
           K == Kept(order)
           sent == Append(K, sn + 1)
           L == Len(order)
           off == IF L >= M THEN 1 ELSE 0
<1>1. M \in Nat /\ M >= 2 /\ L \in Nat /\ L <= M /\ DOMAIN order = 1 .. L
    BY SubscriptionAssumption
<1>2. /\ K \in Seq(Nat) /\ Len(K) = L - off /\ off \in Nat
      /\ \A k \in 1 .. L - off : K[k] = order[k + off]
    <2>1. CASE L >= M
        <3>1. order # <<>>
            BY <1>1, <2>1
        <3>2. /\ Tail(order) \in Seq(Nat) /\ Len(Tail(order)) = L - 1
              /\ \A k \in 1 .. L - 1 : Tail(order)[k] = order[k + 1]
            BY <3>1
        <3> QED BY <2>1, <3>2 DEF Kept
    <2>2. CASE ~(L >= M)
        BY <1>1, <2>2 DEF Kept
    <2> QED BY <2>1, <2>2
<1>4. /\ \A k \in 1 .. L : order[k] \in Nat /\ order[k] <= sn
      /\ \A j, k \in 1 .. L : j < k => order[k] - order[j] >= k - j
      /\ Listed(order) = map
      /\ \A n \in 1 .. sn : n \in map \cup told \/ sn - n >= M
    <2>1. \A k \in 1 .. L : order[k] \in Nat
        BY <1>1
    <2>2. \A k \in 1 .. L : order[k] <= sn
        BY <1>1 DEF RetransmissionSound
    <2>3. \A j, k \in 1 .. L : j < k => order[k] - order[j] >= k - j
        BY <1>1 DEF RetransmissionSound
    <2>4. Listed(order) = map /\ \A n \in 1 .. sn : n \in map \cup told \/ sn - n >= M
        BY Zenon DEF RetransmissionSound
    <2> QED BY <2>1, <2>2, <2>3, <2>4
<1>5. Oldest(order) = {order[k] : k \in 1 .. off}
    <2>1. CASE L >= M
        BY <1>1, <2>1 DEF Oldest
    <2>2. CASE ~(L >= M)
        BY <1>1, <2>2 DEF Oldest
    <2> QED BY <2>1, <2>2
<1> HIDE DEF M, K, L
<1>3. off = 1 => L = M
    BY <1>1 DEF off
<1>6. /\ sent \in Seq(Nat) /\ Len(sent) = Len(K) + 1 /\ DOMAIN sent = 1 .. Len(K) + 1
      /\ \A k \in 1 .. Len(K) : sent[k] = K[k]
      /\ sent[Len(K) + 1] = sn + 1
    BY <1>2
<1> HIDE DEF off, sent
<1>7. off \in {0, 1}
    BY DEF off
<1>8. /\ DOMAIN sent = 1 .. L - off + 1
      /\ \A k \in 1 .. L - off : sent[k] = order[k + off] /\ k + off \in 1 .. L
      /\ sent[L - off + 1] = sn + 1
    BY <1>1, <1>2, <1>6, <1>7
<1>9. Len(sent) <= M
    BY <1>1, <1>2, <1>6, <1>7 DEF off
<1>10. \A k \in DOMAIN sent : sent[k] <= sn + 1
    <2> TAKE k \in DOMAIN sent
    <2>1. CASE k \in 1 .. L - off
        BY <1>4, <1>8, <2>1
    <2>2. CASE k = L - off + 1
        BY <1>8, <2>2
    <2> QED BY <1>1, <1>7, <1>8, <2>1, <2>2
<1>11. ASSUME NEW j \in DOMAIN sent, NEW k \in DOMAIN sent, j < k
       PROVE  sent[k] - sent[j] >= k - j
    <2>1. j \in 1 .. L - off
        BY <1>1, <1>7, <1>8, <1>11
    <2>2. CASE k \in 1 .. L - off
        <3>0. /\ j + off \in 1 .. L /\ k + off \in 1 .. L
              /\ sent[j] = order[j + off] /\ sent[k] = order[k + off]
            BY <1>8, <2>1, <2>2
        <3>1. /\ j + off \in 1 .. L /\ k + off \in 1 .. L /\ j + off < k + off
              /\ sent[j] = order[j + off] /\ sent[k] = order[k + off]
            BY <1>1, <1>7, <1>11, <2>1, <2>2, <3>0
        <3>2. order[k + off] - order[j + off] >= (k + off) - (j + off)
            BY <1>4, <3>1
        <3> QED BY <1>7, <3>1, <3>2, <2>1, <2>2, <1>1
    <2>3. CASE k = L - off + 1
        <3>1. /\ j + off \in 1 .. L /\ L \in 1 .. L
              /\ sent[j] = order[j + off] /\ sent[k] = sn + 1
            <4>1. j + off \in 1 .. L /\ sent[j] = order[j + off]
                BY <1>8, <2>1
            <4>2. sent[k] = sn + 1
                BY <1>8, <2>3
            <4>3. L \in 1 .. L
                BY <1>1, <4>1
            <4> QED BY <4>1, <4>2, <4>3
        <3>2. order[L] <= sn /\ order[L] \in Nat /\ order[j + off] \in Nat
            BY <1>4, <3>1
        <3>3. order[L] - order[j + off] >= L - (j + off)
            <4>1. CASE j + off = L
                BY <1>1, <3>2, <4>1
            <4>2. CASE j + off < L
                BY <1>4, <3>1, <4>2
            <4> QED BY <1>1, <1>7, <3>1, <4>1, <4>2
        <3> DEFINE x == order[L]
                   y == order[j + off]
        <3>4. x \in Nat /\ y \in Nat /\ x <= sn /\ x - y >= L - (j + off)
            BY <3>2, <3>3
        <3>5. sent[k] = sn + 1 /\ sent[j] = y
            BY <3>1
        <3> HIDE DEF x, y
        <3>6. (sn + 1) - y >= (L - off + 1) - j
            <4>1. off \in Nat /\ L \in Nat
                BY <1>1, <1>7
            <4>2. j \in Nat
                BY <2>1, <4>1
            <4> HIDE DEF L, off
            <4>3. L - (j + off) = (L - off) - j /\ (L - off) - j \in Int
                BY <4>1, <4>2
            <4>4. sn - y >= (L - off) - j
                BY <3>4, <4>3
            <4>5. (sn + 1) - y = (sn - y) + 1 /\ (L - off + 1) - j = ((L - off) - j) + 1
                BY <3>4, <4>1, <4>2
            <4> QED BY <3>4, <4>3, <4>4, <4>5
        <3> QED BY <2>3, <3>5, <3>6
    <2> QED BY <1>1, <1>7, <1>8, <2>2, <2>3
<1>12. Listed(sent) = (map \ Oldest(order)) \cup {sn + 1}
    <2>1. ASSUME NEW x \in Listed(sent) PROVE x \in (map \ Oldest(order)) \cup {sn + 1}
        <3>1. PICK k \in DOMAIN sent : sent[k] = x
            BY <2>1 DEF Listed
        <3>2. CASE k \in 1 .. L - off
            <4>1. k + off \in 1 .. L /\ x = order[k + off]
                BY <1>8, <3>1, <3>2
            <4>2. x \in map
                BY <1>1, <1>4, <4>1 DEF Listed
            <4>3. ASSUME NEW m \in 1 .. off PROVE x # order[m]
                <5>1. m \in 1 .. L /\ m < k + off
                    BY <1>1, <1>7, <3>2, <4>1, <4>3
                <5>2. order[k + off] - order[m] >= (k + off) - m
                    BY <1>4, <4>1, <5>1
                <5>3. order[m] \in Nat /\ order[k + off] \in Nat
                    BY <1>4, <4>1, <5>1
                <5> QED BY <4>1, <5>1, <5>2, <5>3
            <4> QED BY <1>5, <4>2, <4>3
        <3>3. CASE k = L - off + 1
            BY <1>8, <3>1, <3>3
        <3> QED BY <1>1, <1>7, <1>8, <3>2, <3>3
    <2>2. ASSUME NEW x \in map \ Oldest(order) PROVE x \in Listed(sent)
        <3>1. PICK m \in 1 .. L : order[m] = x
            BY <1>1, <1>4, <2>2 DEF Listed
        <3>2. m \notin 1 .. off
            BY <1>5, <2>2, <3>1
        <3>3. m - off \in 1 .. L - off /\ (m - off) + off = m
            BY <1>1, <1>7, <3>2
        <3>4. m - off \in DOMAIN sent /\ sent[m - off] = x
            BY <1>1, <1>7, <1>8, <3>1, <3>3
        <3> QED BY <3>4 DEF Listed
    <2>3. sn + 1 \in Listed(sent)
        <3>1. L - off + 1 \in DOMAIN sent
            BY <1>1, <1>2, <1>6, <1>8
        <3> QED BY <1>8, <3>1 DEF Listed
    <2> QED BY <2>1, <2>2, <2>3
<1>13. ASSUME NEW n \in 1 .. sn + 1
       PROVE  \/ n \in ((map \ Oldest(order)) \cup {sn + 1}) \cup Recent(told, sn + 1)
              \/ (sn + 1) - n >= M
    <2>1. CASE n = sn + 1
        BY <2>1
    <2>2. CASE n \in 1 .. sn /\ sn - n >= M
        BY <1>1, <2>2
    <2>3. CASE n \in told
        BY <1>1, <2>3 DEF Recent, M
    <2>4. CASE n \in Oldest(order)
        <3>1. off = 1 /\ n = order[1] /\ L = M
            BY <1>3, <1>5, <1>7, <2>4
        <3>2. order[L] <= sn /\ order[L] - order[1] >= L - 1 /\ order[L] \in Nat /\ order[1] \in Nat
            BY <1>1, <1>4, <3>1
        <3> QED BY <1>1, <3>1, <3>2
    <2>5. CASE n \in map \ Oldest(order)
        BY <2>5
    <2> QED BY <1>4, <2>1, <2>2, <2>3, <2>4, <2>5
<1> QED BY <1>6, <1>9, <1>10, <1>11, <1>12, <1>13 DEF RetransmissionSound, sent, K, M

\* An acknowledged message leaves the map and the order of the queue.
LEMMA RetransmissionAcknowledges ==
    ASSUME NEW sn \in Nat, NEW map \in SUBSET Nat, NEW order \in Seq(Nat),
           NEW told \in SUBSET Nat, RetransmissionSound(sn, map, order, told),
           Len(order) <= MaxRetransmissionQueue, NEW n
    PROVE  LET left == Selected(order, Listed(order) \ {n}) IN
           /\ left \in Seq(Nat) /\ Len(left) <= MaxRetransmissionQueue
           /\ RetransmissionSound(sn, map \ {n}, left, told \cup {n})
<1> DEFINE S == Listed(order) \ {n}
           left == Selected(order, S)
           at(k) == At(Positions(order, S), k)
<1>1. /\ left \in Seq(Nat) /\ Len(left) <= Len(order)
      /\ DOMAIN left = 1 .. Len(left)
    <2>1. left \in Seq(Nat)
        BY SelectedFrom, Zenon
    <2>2. Len(left) <= Len(order)
        BY SelectedFrom, Zenon
    <2> HIDE DEF left
    <2>3. DOMAIN left = 1 .. Len(left)
        BY <2>1
    <2> QED BY <2>1, <2>2, <2>3, Zenon
<1>2. \A k \in DOMAIN left : /\ at(k) \in DOMAIN order
                             /\ left[k] = order[at(k)]
                             /\ left[k] \in S
    BY SelectedFrom, Zenon
<1>3. \A j, k \in DOMAIN left : j < k => at(k) - at(j) >= k - j
    BY SelectedFrom, Zenon
<1>4. Listed(left) = Listed(order) \cap S
    BY SelectedListed, Zenon
<1>5. /\ Len(left) \in Nat /\ Len(order) \in Nat /\ MaxRetransmissionQueue \in Nat
      /\ DOMAIN order = 1 .. Len(order) /\ \A k \in DOMAIN order : order[k] \in Nat
    BY <1>1, SubscriptionAssumption
<1>6. Listed(order) = map
    BY DEF RetransmissionSound
<1> HIDE DEF left, at
<1>7. \A k \in DOMAIN left : left[k] <= sn
    BY <1>2 DEF RetransmissionSound
<1>8. ASSUME NEW j \in DOMAIN left, NEW k \in DOMAIN left, j < k
      PROVE  left[k] - left[j] >= k - j
    <2> DEFINE a == at(j)
               b == at(k)
    <2>1. a \in DOMAIN order /\ b \in DOMAIN order /\ left[j] = order[a] /\ left[k] = order[b]
        BY <1>2
    <2>2. b - a >= k - j
        BY <1>3, <1>8, Zenon
    <2> HIDE DEF a, b
    <2>5. a \in Nat /\ b \in Nat /\ j \in Nat /\ k \in Nat
        BY <1>1, <1>5, <1>8, <2>1
    <2>3. a < b
        BY <1>8, <2>2, <2>5
    <2>4. order[b] - order[a] >= b - a /\ order[a] \in Nat /\ order[b] \in Nat
        BY <1>5, <2>1, <2>3 DEF RetransmissionSound
    <2> DEFINE x == order[a]
               y == order[b]
    <2>6. y - x >= b - a /\ x \in Nat /\ y \in Nat /\ left[j] = x /\ left[k] = y
        BY <2>1, <2>4
    <2> HIDE DEF x, y
    <2>7. y - x >= k - j
        BY <2>2, <2>5, <2>6
    <2> QED BY <2>6, <2>7
<1>9. Listed(left) = map \ {n}
    BY <1>4, <1>6
<1>10. \A m \in 1 .. sn : m \in (map \ {n}) \cup (told \cup {n}) \/ sn - m >= MaxRetransmissionQueue
    BY DEF RetransmissionSound
<1>11. Len(left) <= MaxRetransmissionQueue
    BY <1>1, <1>5
<1> QED BY <1>1, <1>7, <1>8, <1>9, <1>10, <1>11 DEF RetransmissionSound, left

-----------------------------------------------------------------------------
(* Every step keeps the invariant *)

\* Nothing is held, queued or sent at first.
LEMMA SubscriptionInit ==
    Init => SubscriptionInv
<1> SUFFICES ASSUME Init PROVE SubscriptionInv
    OBVIOUS
<1> USE SubscriptionAssumption
<1>1. \A s : ItemsOf(s) = {}
    BY DEF Init, ItemsOf
<1>2. TypeOK
    <2>1. \A s : Cardinality(ItemsOf(s)) = 0
        BY <1>1, FS_EmptySet
    <2>2. /\ \A n \in DAItems : version[n] \in 0 .. MaxChanges[n]
          /\ semantics \in [DAItems -> 0 .. MaxSemantics]
          /\ items \subseteq used /\ used \subseteq Items
        BY DEF Init
    <2>3. \A s \in Subscriptions : /\ Cardinality(ItemsOf(s)) <= MaxMonitoredItems
                                   /\ Len(retransmitOrder[s]) <= MaxRetransmissionQueue
                                   /\ da[s] \subseteq DAItems
                                   /\ keepAliveTicks[s] \in 0 .. keepAliveCount
        BY <2>1 DEF Init
    <2>4. /\ held \in [Items -> Notifications \cup {None}]
          /\ lastReported \in [Items -> {"never", "recent", "due"}]
          /\ publish \in [Publishes -> BOOLEAN]
          /\ enabled \in [Subscriptions -> BOOLEAN]
        BY DEF Init
    <2> QED BY <2>2, <2>3, <2>4 DEF TypeOK
<1>3. SubscriptionTypes
    BY DEF Init, SubscriptionTypes
<1>4. RetransmissionInv
    <2>1. Listed(<<>>) = {}
        BY DEF Listed
    <2> SUFFICES ASSUME NEW s \in Subscriptions
                 PROVE  RetransmissionSound(0, {}, <<>>, {})
        BY DEF Init, RetransmissionInv
    <2> QED BY <2>1 DEF RetransmissionSound
<1>5. HeldOrderInv
    <2>1. Listed(<<>>) = {} /\ Once(<<>>) /\ QueueSound(<<>>)
        BY DEF Listed, Once, QueueSound
    <2> QED BY <1>1, <2>1 DEF Init, HeldOrderInv, QueuedOnce
<1>6. ItemInv
    <2>1. \A v : ItemSound(None, "never", <<>>, v)
        BY DEF ItemSound, TellsUpTo
    <2> QED BY <2>1 DEF Init, ItemInv
<1> QED BY <1>2, <1>3, <1>4, <1>5, <1>6 DEF SubscriptionInv

\* A DA queue takes the newest value of an item, in the item's place.
LEMMA MergeSound ==
    ASSUME NEW q \in Seq(Entries), NEW n \in DAItems, NEW v \in Nat,
           \A j, k \in DOMAIN q : q[j].node = q[k].node => j = k
    PROVE  LET m == merge(q, n, v) IN
           /\ m \in Seq(Entries)
           /\ \A j, k \in DOMAIN m : m[j].node = m[k].node => j = k
           /\ \A k \in DOMAIN m :
                 \/ m[k].node = n /\ m[k].value = v
                 \/ \E j \in DOMAIN q : m[k] = q[j] /\ q[j].node # n
<1> DEFINE m == merge(q, n, v)
           e == [node |-> n, value |-> v]
<1>1. e \in Entries /\ e.node = n /\ e.value = v
    BY DEF Entries
<1>2. DOMAIN q = 1 .. Len(q) /\ Len(q) \in Nat
    OBVIOUS
<1> HIDE DEF e
<1>3. CASE \E k \in DOMAIN q : q[k].node = n
    <2>1. m = [k \in DOMAIN q |-> IF q[k].node = n THEN e ELSE q[k]]
        BY <1>3 DEF merge, e
    <2> HIDE DEF m
    <2>2. /\ DOMAIN m = DOMAIN q
          /\ \A k \in DOMAIN q : m[k] = IF q[k].node = n THEN e ELSE q[k]
        BY <2>1
    <2>3. m \in Seq(Entries)
        <3>1. \A k \in 1 .. Len(q) : m[k] \in Entries
            BY <1>1, <1>2, <2>2
        <3>2. m \in [1 .. Len(q) -> Entries]
            BY <1>2, <2>1, <3>1
        <3> QED BY <1>2, <3>2
    <2>4. \A k \in DOMAIN q : m[k].node = q[k].node
        BY <1>1, <2>2
    <2>5. \A j, k \in DOMAIN m : m[j].node = m[k].node => j = k
        BY <2>2, <2>4
    <2>6. \A k \in DOMAIN m : \/ m[k].node = n /\ m[k].value = v
                              \/ \E j \in DOMAIN q : m[k] = q[j] /\ q[j].node # n
        BY <1>1, <2>2
    <2> QED BY <2>3, <2>5, <2>6 DEF m
<1>4. CASE ~\E k \in DOMAIN q : q[k].node = n
    <2>1. m = Append(q, e)
        BY <1>4 DEF merge, e
    <2> HIDE DEF m
    <2>2. /\ m \in Seq(Entries) /\ DOMAIN m = 1 .. Len(q) + 1
          /\ m[Len(q) + 1] = e /\ \A k \in 1 .. Len(q) : m[k] = q[k]
        BY <1>1, <2>1
    <2>3. ASSUME NEW k \in DOMAIN m
          PROVE  \/ k = Len(q) + 1 /\ m[k] = e
                 \/ k \in DOMAIN q /\ m[k] = q[k] /\ q[k].node # n
        BY <1>2, <1>4, <2>2
    <2>4. ASSUME NEW j \in DOMAIN m, NEW k \in DOMAIN m, m[j].node = m[k].node
          PROVE  j = k
        <3>1. \/ k = Len(q) + 1 /\ m[k].node = n
              \/ k \in DOMAIN q /\ m[k] = q[k] /\ q[k].node # n
            BY <1>1, <2>3
        <3>2. \/ j = Len(q) + 1 /\ m[j].node = n
              \/ j \in DOMAIN q /\ m[j] = q[j] /\ q[j].node # n
            BY <1>1, <2>3
        <3> QED BY <2>4, <3>1, <3>2, Zenon
    <2>5. \A k \in DOMAIN m : \/ m[k].node = n /\ m[k].value = v
                              \/ \E j \in DOMAIN q : m[k] = q[j] /\ q[j].node # n
        BY <1>1, <2>3
    <2> QED BY <2>2, <2>4, <2>5 DEF m
<1> QED BY <1>3, <1>4

\* The source changes: what waits to be drained is as new as it, and later than
\* all the item told.
LEMMA SourceChangesKeeps ==
    ASSUME SubscriptionInv, NEW n \in DAItems, SourceChanges(n)
    PROVE  SubscriptionInv'
<1> DEFINE v == version[n] + 1
<1>1. /\ version[n] < MaxChanges[n] /\ version[n] \in 0 .. MaxChanges[n] /\ MaxChanges[n] \in Nat
      /\ version \in [DAItems -> Nat]
    BY SubscriptionAssumption DEF SourceChanges, SubscriptionInv, TypeOK, SubscriptionTypes
<1>2. /\ v \in Nat /\ v \in 0 .. MaxChanges[n]
    BY <1>1
<1>3. /\ version' = [version EXCEPT ![n] = v]
      /\ UNCHANGED <<semantics, items, used, handles, da, done, enabled, held, heldOrder,
                     lastReported, seen, pending, reported, born, sequenceNumber, retransmit,
                     retransmitOrder, keepAliveTicks, messageSent, publish, acked>>
    BY DEF SourceChanges, itemVars, heldVars, sendVars, clientVars
<1>4. /\ version'[n] = v /\ \A x \in DAItems : x # n => version'[x] = version[x]
      /\ version' \in [DAItems -> Nat]
    BY <1>1, <1>2, <1>3
<1>5. \A x \in DAItems : version[x] <= version'[x] /\ version[x] \in Nat /\ version'[x] \in Nat
    BY <1>1, <1>2, <1>4
<1>6. queue' = [s \in Subscriptions |-> IF n \in da[s] /\ ~done[s] THEN merge(queue[s], n, v)
                                        ELSE queue[s]]
    BY <1>4 DEF SourceChanges
<1> HIDE DEF v
<1>7. \A s \in Subscriptions : ItemsOf(s)' = ItemsOf(s)
    BY <1>3 DEF ItemsOf
<1>8. \A s \in Subscriptions : queue[s] \in Seq(Entries) /\ QueueSound(queue[s])
    BY DEF SubscriptionInv, SubscriptionTypes, HeldOrderInv
<1>9. ASSUME NEW s \in Subscriptions
      PROVE  /\ queue'[s] \in Seq(Entries)
             /\ \A j, k \in DOMAIN queue'[s] : queue'[s][j].node = queue'[s][k].node => j = k
             /\ \A k \in DOMAIN queue'[s] :
                   \/ queue'[s][k].node = n /\ queue'[s][k].value = v
                   \/ \E j \in DOMAIN queue[s] : queue'[s][k] = queue[s][j]
    <2> DEFINE m == merge(queue[s], n, v)
    <2>1. /\ m \in Seq(Entries)
          /\ \A j, k \in DOMAIN m : m[j].node = m[k].node => j = k
          /\ \A k \in DOMAIN m :
                \/ m[k].node = n /\ m[k].value = v
                \/ \E j \in DOMAIN queue[s] : m[k] = queue[s][j] /\ queue[s][j].node # n
        BY <1>2, <1>8, MergeSound DEF QueueSound
    <2>2. queue'[s] = m \/ queue'[s] = queue[s]
        BY <1>6
    <2> HIDE DEF m
    <2>3. CASE queue'[s] = m
        BY <2>1, <2>3
    <2>4. CASE queue'[s] = queue[s]
        BY <1>8, <2>4 DEF QueueSound
    <2> QED BY <2>2, <2>3, <2>4
<1>10. TypeOK'
    <2>1. \A x \in DAItems : version'[x] \in 0 .. MaxChanges[x]
        BY <1>2, <1>4 DEF SubscriptionInv, TypeOK
    <2> QED BY <1>3, <1>7, <2>1 DEF SubscriptionInv, TypeOK
<1>11. SubscriptionTypes'
    <2>1. queue' \in [Subscriptions -> Seq(Entries)]
        BY <1>6, <1>9
    <2> QED BY <1>3, <1>4, <2>1 DEF SubscriptionInv, SubscriptionTypes
<1>12. RetransmissionInv'
    BY <1>3 DEF SubscriptionInv, RetransmissionInv
<1>13. HeldOrderInv'
    <2>1. ASSUME NEW s \in Subscriptions PROVE QueueSound(queue[s])'
        <3>1. ASSUME NEW k \in DOMAIN queue'[s]
              PROVE  queue'[s][k].value <= version'[queue'[s][k].node]
            <4>1. CASE queue'[s][k].node = n /\ queue'[s][k].value = v
                BY <1>2, <1>4, <4>1
            <4>2. CASE \E j \in DOMAIN queue[s] : queue'[s][k] = queue[s][j]
                <5>1. PICK j \in DOMAIN queue[s] : queue'[s][k] = queue[s][j]
                    BY <4>2
                <5>2. queue[s][j].value <= version[queue[s][j].node] /\ queue[s][j] \in Entries
                    BY <1>8 DEF QueueSound
                <5>3. queue[s][j].node \in DAItems /\ queue[s][j].value \in Nat
                    BY <5>2 DEF Entries
                <5> QED BY <1>5, <5>1, <5>2, <5>3
            <4> QED BY <1>9, <3>1, <4>1, <4>2
        <3> QED BY <1>9, <3>1 DEF QueueSound
    <2>2. ASSUME NEW s \in Subscriptions PROVE QueuedOnce(s, heldOrder[s], held)'
        BY <1>3, <1>7 DEF SubscriptionInv, HeldOrderInv, QueuedOnce
    <2>3. \A i \in Items' \ items' : held'[i] = None
        BY <1>3 DEF SubscriptionInv, HeldOrderInv
    <2> QED BY <2>1, <2>2, <2>3 DEF HeldOrderInv
<1>14. ASSUME NEW i \in Items
       PROVE  /\ held[i] \in Notifications \cup {None} /\ reported[i] \in Seq(Notifications)
              /\ itemID[i] \in DAItems
              /\ TellsUpTo(held[i], reported[i], version[itemID[i]])
              /\ TellsUpTo(held[i], reported[i], version'[itemID[i]])
              /\ ItemSound(held[i], lastReported[i], reported[i], version[itemID[i]])
    <2>1. /\ held[i] \in Notifications \cup {None} /\ reported[i] \in Seq(Notifications)
          /\ itemID[i] \in DAItems
        BY SubscriptionAssumption DEF SubscriptionInv, TypeOK, SubscriptionTypes
    <2>2. ItemSound(held[i], lastReported[i], reported[i], version[itemID[i]])
        BY DEF SubscriptionInv, ItemInv
    <2>3. TellsUpTo(held[i], reported[i], version[itemID[i]])
        BY <2>2 DEF ItemSound
    <2>4. TellsUpTo(held[i], reported[i], version'[itemID[i]])
        BY <1>5, <2>1, <2>3, TellsUpToMore
    <2> QED BY <2>1, <2>2, <2>3, <2>4
<1>15. ItemInv'
    <2>1. ASSUME NEW i \in Items
          PROVE  ItemSound(held'[i], lastReported'[i], reported'[i], version'[itemID[i]])
        BY <1>3, <1>14 DEF ItemSound
    <2>2. ASSUME NEW s \in Subscriptions, NEW k \in DOMAIN queue'[s], NEW i \in ItemsOf(s),
                 itemID[i] = queue'[s][k].node
          PROVE  TellsUpTo(held'[i], reported'[i], queue'[s][k].value)
        <3>0. i \in Items
            BY ItemsThere
        <3>1. CASE queue'[s][k].node = n /\ queue'[s][k].value = v
            BY <1>3, <1>4, <1>14, <2>2, <3>0, <3>1
        <3>2. CASE \E j \in DOMAIN queue[s] : queue'[s][k] = queue[s][j]
            <4>1. PICK j \in DOMAIN queue[s] : queue'[s][k] = queue[s][j]
                BY <3>2
            <4>2. TellsUpTo(held[i], reported[i], queue[s][j].value)
                BY <2>2, <4>1 DEF SubscriptionInv, ItemInv
            <4> QED BY <1>3, <4>1, <4>2
        <3> QED BY <1>9, <2>2, <3>1, <3>2
    <2> QED BY <1>7, <2>1, <2>2 DEF ItemInv
<1> QED BY <1>10, <1>11, <1>12, <1>13, <1>15 DEF SubscriptionInv

\* A semantic change of the source is nothing the subscription holds.
LEMMA SemanticsChangeKeeps ==
    ASSUME SubscriptionInv, NEW n \in DAItems, SemanticsChange(n)
    PROVE  SubscriptionInv'
<1>1. /\ semantics[n] < MaxSemantics
      /\ semantics' = [semantics EXCEPT ![n] = @ + 1]
      /\ UNCHANGED <<version, items, used, handles, da, done, queue, enabled, held, heldOrder,
                     lastReported, seen, pending, reported, born, sequenceNumber, retransmit,
                     retransmitOrder, keepAliveTicks, messageSent, publish, acked>>
    BY DEF SemanticsChange, itemVars, daVars, heldVars, sendVars, clientVars
<1>2. \A s \in Subscriptions : ItemsOf(s)' = ItemsOf(s)
    BY <1>1 DEF ItemsOf
<1>3. semantics' \in [DAItems -> 0 .. MaxSemantics]
    <2>1. semantics \in [DAItems -> 0 .. MaxSemantics]
        BY DEF SubscriptionInv, TypeOK
    <2>2. semantics[n] + 1 \in 0 .. MaxSemantics
        BY <1>1, <2>1, SubscriptionAssumption
    <2> QED BY <1>1, <2>1, <2>2
<1>4. TypeOK'
    BY <1>1, <1>2, <1>3 DEF SubscriptionInv, TypeOK
<1>5. SubscriptionTypes'
    BY <1>1 DEF SubscriptionInv, SubscriptionTypes
<1>6. RetransmissionInv'
    BY <1>1 DEF SubscriptionInv, RetransmissionInv
<1>7. HeldOrderInv'
    BY <1>1, <1>2 DEF SubscriptionInv, HeldOrderInv, QueueSound, QueuedOnce
<1>8. ItemInv'
    BY <1>1, <1>2 DEF SubscriptionInv, ItemInv
<1> QED BY <1>4, <1>5, <1>6, <1>7, <1>8 DEF SubscriptionInv

\* An empty queue holds nothing to be drained.
LEMMA EmptyQueueSound ==
    /\ DOMAIN <<>> = {} /\ <<>> \in Seq(Entries)
    /\ QueueSound(<<>>) /\ QueueSound(<<>>)'
BY DEF QueueSound

\* An invalidation discards what was to be drained.
LEMMA InvalidateKeeps ==
    ASSUME SubscriptionInv, NEW s \in Subscriptions, Invalidate(s)
    PROVE  SubscriptionInv'
<1>1. /\ done' = [done EXCEPT ![s] = TRUE]
      /\ queue' = [queue EXCEPT ![s] = <<>>]
      /\ UNCHANGED <<version, semantics, items, used, handles, da, enabled, held, heldOrder,
                     lastReported, seen, pending, reported, born, sequenceNumber, retransmit,
                     retransmitOrder, keepAliveTicks, messageSent, publish, acked>>
    BY DEF Invalidate, sourceVars, itemVars, heldVars, sendVars, clientVars
<1>2. \A t \in Subscriptions : ItemsOf(t)' = ItemsOf(t)
    BY <1>1 DEF ItemsOf
<1>3. /\ queue' \in [Subscriptions -> Seq(Entries)]
      /\ queue'[s] = <<>> /\ \A t \in Subscriptions : t # s => queue'[t] = queue[t]
    BY <1>1, EmptyQueueSound DEF SubscriptionInv, SubscriptionTypes
<1>4. TypeOK'
    BY <1>1, <1>2 DEF SubscriptionInv, TypeOK
<1>5. SubscriptionTypes'
    BY <1>1, <1>3 DEF SubscriptionInv, SubscriptionTypes
<1>6. RetransmissionInv'
    BY <1>1 DEF SubscriptionInv, RetransmissionInv
<1>7. HeldOrderInv'
    <2>1. \A t \in Subscriptions : QueueSound(queue[t])'
        BY <1>1, <1>3, EmptyQueueSound DEF SubscriptionInv, HeldOrderInv, QueueSound
    <2> QED BY <1>1, <1>2, <2>1 DEF SubscriptionInv, HeldOrderInv, QueuedOnce
<1>8. ItemInv'
    <2>1. \A t \in Subscriptions : \A k \in DOMAIN queue'[t] : t # s
        BY <1>3, EmptyQueueSound
    <2> QED BY <1>1, <1>2, <1>3, <2>1 DEF SubscriptionInv, ItemInv
<1> QED BY <1>4, <1>5, <1>6, <1>7, <1>8 DEF SubscriptionInv

\* Publishing is switched on or off.
LEMMA SetPublishingModeKeeps ==
    ASSUME SubscriptionInv, NEW s \in Subscriptions, SetPublishingMode(s)
    PROVE  SubscriptionInv'
<1>1. /\ enabled' = [enabled EXCEPT ![s] = ~@]
      /\ UNCHANGED <<version, semantics, items, used, handles, da, done, queue, held,
                     heldOrder, lastReported, seen, pending, reported, born, sequenceNumber,
                     retransmit, retransmitOrder, keepAliveTicks, messageSent, publish, acked>>
    BY DEF SetPublishingMode, sourceVars, itemVars, daVars, heldVars, sendVars, clientVars
<1>2. \A t \in Subscriptions : ItemsOf(t)' = ItemsOf(t)
    BY <1>1 DEF ItemsOf
<1>3. enabled' \in [Subscriptions -> BOOLEAN]
    BY <1>1 DEF SubscriptionInv, TypeOK
<1>4. TypeOK'
    BY <1>1, <1>2, <1>3 DEF SubscriptionInv, TypeOK
<1>5. SubscriptionTypes'
    BY <1>1 DEF SubscriptionInv, SubscriptionTypes
<1>6. RetransmissionInv'
    BY <1>1 DEF SubscriptionInv, RetransmissionInv
<1>7. HeldOrderInv'
    BY <1>1, <1>2 DEF SubscriptionInv, HeldOrderInv, QueueSound, QueuedOnce
<1>8. ItemInv'
    BY <1>1, <1>2 DEF SubscriptionInv, ItemInv
<1> QED BY <1>4, <1>5, <1>6, <1>7, <1>8 DEF SubscriptionInv

\* The sampling interval of an item passes.
LEMMA SamplingDueKeeps ==
    ASSUME SubscriptionInv, NEW i \in Items, SamplingDue(i)
    PROVE  SubscriptionInv'
<1>1. /\ lastReported[i] = "recent"
      /\ lastReported' = [lastReported EXCEPT ![i] = "due"]
      /\ UNCHANGED <<version, semantics, items, used, handles, da, done, queue, enabled, held,
                     heldOrder, seen, pending, reported, born, sequenceNumber,
                     retransmit, retransmitOrder, keepAliveTicks, messageSent, publish, acked>>
    BY DEF SamplingDue, sourceVars, itemVars, daVars, sendVars, clientVars
<1>2. \A t \in Subscriptions : ItemsOf(t)' = ItemsOf(t)
    BY <1>1 DEF ItemsOf
<1>3. /\ lastReported' \in [Items -> {"never", "recent", "due"}]
      /\ lastReported'[i] = "due"
      /\ \A x \in Items : x # i => lastReported'[x] = lastReported[x]
    BY <1>1 DEF SubscriptionInv, TypeOK
<1>4. TypeOK'
    BY <1>1, <1>2, <1>3 DEF SubscriptionInv, TypeOK
<1>5. SubscriptionTypes'
    BY <1>1 DEF SubscriptionInv, SubscriptionTypes
<1>6. RetransmissionInv'
    BY <1>1 DEF SubscriptionInv, RetransmissionInv
<1>7. HeldOrderInv'
    BY <1>1, <1>2 DEF SubscriptionInv, HeldOrderInv, QueueSound, QueuedOnce
<1>8. ItemInv'
    <2>1. ASSUME NEW x \in Items
          PROVE  ItemSound(held'[x], lastReported'[x], reported'[x], version'[itemID[x]])
        <3>1. /\ ItemSound(held[x], lastReported[x], reported[x], version[itemID[x]])
              /\ reported[x] \in Seq(Notifications) /\ version[itemID[x]] \in Nat
            BY SubscriptionAssumption DEF SubscriptionInv, ItemInv, SubscriptionTypes
        <3>2. CASE x = i
            <4>1. ItemSound(held[x], "due", reported[x], version[itemID[x]])
                BY <1>1, <3>1, <3>2, ItemKept
            <4> QED BY <1>1, <1>3, <3>2, <4>1
        <3>3. CASE x # i
            BY <1>1, <1>3, <3>1, <3>3
        <3> QED BY <3>2, <3>3
    <2> QED BY <1>1, <1>2, <2>1 DEF SubscriptionInv, ItemInv
<1> QED BY <1>4, <1>5, <1>6, <1>7, <1>8 DEF SubscriptionInv

\* A rebuilt group has nothing to drain.
LEMMA RebuiltSound ==
    ASSUME SubscriptionInv, NEW s \in Subscriptions, NEW monitored \in SUBSET Items,
           Rebuilt(s, monitored), UNCHANGED version
    PROVE  /\ da' \in [Subscriptions -> SUBSET DAItems] /\ done' \in [Subscriptions -> BOOLEAN]
           /\ queue' \in [Subscriptions -> Seq(Entries)]
           /\ queue'[s] = <<>> /\ \A t \in Subscriptions : t # s => queue'[t] = queue[t]
           /\ \A t \in Subscriptions : QueueSound(queue[t])'
<1>1. GroupItems(monitored) \in SUBSET DAItems
    BY SubscriptionAssumption DEF GroupItems
<1>2. /\ da' \in [Subscriptions -> SUBSET DAItems] /\ done' \in [Subscriptions -> BOOLEAN]
    BY <1>1 DEF Rebuilt, SubscriptionInv, SubscriptionTypes
<1>3. /\ queue' \in [Subscriptions -> Seq(Entries)]
      /\ queue'[s] = <<>> /\ \A t \in Subscriptions : t # s => queue'[t] = queue[t]
    BY EmptyQueueSound DEF Rebuilt, SubscriptionInv, SubscriptionTypes
<1>4. \A t \in Subscriptions : QueueSound(queue[t])'
    BY <1>3, EmptyQueueSound DEF SubscriptionInv, HeldOrderInv, QueueSound
<1> QED BY <1>2, <1>3, <1>4

\* New items hold nothing and have no place, and the limit on items is kept.
LEMMA CreateKeeps ==
    ASSUME SubscriptionInv, NEW s \in Subscriptions, NEW requested \in SUBSET Items,
           CreateMonitoredItems(s, requested)
    PROVE  SubscriptionInv'
<1> DEFINE accepted == {i \in requested : clientHandle[i] \notin handles[s]}
<1>1. /\ requested \subseteq {i \in Items : owner[i] = s} \ used
      /\ Cardinality(ItemsOf(s)) + Cardinality(requested) <= MaxMonitoredItems
      /\ used' = used \cup accepted
      /\ \/ Rebuilt(s, ItemsOf(s) \cup accepted) /\ items' = items \cup accepted
         \/ UNCHANGED <<items, handles, da, done, queue>>
      /\ UNCHANGED <<version, semantics, enabled, held, heldOrder, lastReported, pending,
                     reported, sequenceNumber, retransmit, retransmitOrder, keepAliveTicks,
                     messageSent, publish, acked>>
    BY Zenon DEF CreateMonitoredItems, sourceVars, daVars, sendVars, clientVars
<1>2. accepted \subseteq requested /\ accepted \subseteq Items
      /\ \A i \in accepted : owner[i] = s /\ i \notin used /\ i \notin items
    BY <1>1, ItemsThere
<1> HIDE DEF accepted
<1>3. /\ items' \subseteq used' /\ used' \subseteq Items /\ used \subseteq used'
      /\ items \subseteq items' /\ items' \subseteq items \cup accepted
    BY <1>1, <1>2, ItemsThere
<1>4. /\ \A t \in Subscriptions : t # s => ItemsOf(t)' = ItemsOf(t)
      /\ ItemsOf(s)' \subseteq ItemsOf(s) \cup accepted /\ ItemsOf(s) \subseteq ItemsOf(s)'
    BY <1>2, <1>3 DEF ItemsOf
<1>5. Cardinality(ItemsOf(s)') <= MaxMonitoredItems
    <2> DEFINE both == ItemsOf(s) \cup requested
    <2>1. ItemsOf(s) \in SUBSET Items /\ requested \in SUBSET Items
        BY ItemsThere
    <2>2. IsFiniteSet(ItemsOf(s)) /\ IsFiniteSet(requested)
        BY <2>1, SubscriptionAssumption, FS_Subset, Zenon
    <2>3. /\ IsFiniteSet(both)
          /\ Cardinality(both) = Cardinality(ItemsOf(s)) + Cardinality(requested)
                                   - Cardinality(ItemsOf(s) \cap requested)
        BY <2>2, FS_Union, Zenon
    <2>4. ItemsOf(s) \cap requested = {}
        BY <1>1, ItemsThere
    <2>5. Cardinality(ItemsOf(s) \cap requested) = 0
        BY <2>4, FS_EmptySet, Zenon
    <2>6. Cardinality(ItemsOf(s)) \in Nat /\ Cardinality(requested) \in Nat
        BY <2>2, FS_CardinalityType, Zenon
    <2>7. ItemsOf(s)' \in SUBSET both
        BY <1>2, <1>4
    <2> HIDE DEF both
    <2>8. Cardinality(ItemsOf(s)') <= Cardinality(both) /\ IsFiniteSet(ItemsOf(s)')
        BY <2>3, <2>7, FS_Subset, Zenon
    <2>9. Cardinality(ItemsOf(s)') \in Nat
        BY <2>8, FS_CardinalityType, Zenon
    <2> QED BY <1>1, <2>3, <2>5, <2>6, <2>8, <2>9, SubscriptionAssumption
<1>6. /\ da' \in [Subscriptions -> SUBSET DAItems] /\ done' \in [Subscriptions -> BOOLEAN]
      /\ queue' \in [Subscriptions -> Seq(Entries)]
      /\ \A t \in Subscriptions : t # s => queue'[t] = queue[t]
      /\ \A t \in Subscriptions : QueueSound(queue[t])'
      /\ queue'[s] = <<>> \/ UNCHANGED <<items, queue>>
    <2>1. CASE Rebuilt(s, ItemsOf(s) \cup accepted)
        <3>1. ItemsOf(s) \cup accepted \in SUBSET Items
            BY <1>2, ItemsThere
        <3>2. UNCHANGED version
            BY <1>1
        <3> QED BY <2>1, <3>1, <3>2, RebuiltSound
    <2>2. CASE UNCHANGED <<items, handles, da, done, queue>>
        <3>1. \A t \in Subscriptions : QueueSound(queue[t])'
            BY <1>1, <2>2 DEF SubscriptionInv, HeldOrderInv, QueueSound
        <3> QED BY <2>2, <3>1 DEF SubscriptionInv, SubscriptionTypes
    <2> QED BY <1>1, <2>1, <2>2
<1>7. TypeOK'
    <2>1. ASSUME NEW t \in Subscriptions
          PROVE  /\ Cardinality(ItemsOf(t)') <= MaxMonitoredItems
                 /\ Len(retransmitOrder'[t]) <= MaxRetransmissionQueue
                 /\ da'[t] \subseteq DAItems /\ keepAliveTicks'[t] \in 0 .. keepAliveCount
        BY <1>1, <1>4, <1>5, <1>6 DEF SubscriptionInv, TypeOK
    <2> QED BY <1>1, <1>3, <2>1 DEF SubscriptionInv, TypeOK
<1>8. SubscriptionTypes'
    BY <1>1, <1>6 DEF SubscriptionInv, SubscriptionTypes
<1>9. RetransmissionInv'
    BY <1>1 DEF SubscriptionInv, RetransmissionInv
<1>10. HeldOrderInv'
    <2>1. \A i \in accepted : held[i] = None /\ \A t \in Subscriptions : i \notin Listed(heldOrder[t])
        BY <1>2 DEF SubscriptionInv, HeldOrderInv, QueuedOnce
    <2>2. ASSUME NEW t \in Subscriptions PROVE QueuedOnce(t, heldOrder[t], held)'
        <3>1. QueuedOnce(t, heldOrder[t], held)
            BY DEF SubscriptionInv, HeldOrderInv
        <3>2. \A i \in ItemsOf(t)' : i \in Listed(heldOrder[t]) <=> held[i] # None
            <4>1. CASE t = s
                BY <1>4, <2>1, <3>1, <4>1 DEF QueuedOnce
            <4>2. CASE t # s
                BY <1>4, <3>1, <4>2 DEF QueuedOnce
            <4> QED BY <4>1, <4>2
        <3> QED BY <1>1, <1>3, <3>1, <3>2 DEF QueuedOnce
    <2>3. \A i \in Items \ items' : held'[i] = None
        BY <1>1, <1>3 DEF SubscriptionInv, HeldOrderInv
    <2> QED BY <1>6, <2>2, <2>3 DEF HeldOrderInv
<1>11. ItemInv'
    <2>1. \A i \in Items : ItemSound(held[i], lastReported[i], reported[i], version[itemID[i]])'
        BY <1>1 DEF SubscriptionInv, ItemInv
    <2>2. ASSUME NEW t \in Subscriptions, NEW k \in DOMAIN queue'[t], NEW i \in ItemsOf(t)',
                 itemID[i] = queue'[t][k].node
          PROVE  TellsUpTo(held'[i], reported'[i], queue'[t][k].value)
        <3>1. CASE t # s
            BY <1>1, <1>4, <1>6, <2>2, <3>1 DEF SubscriptionInv, ItemInv
        <3>2. CASE t = s /\ queue'[s] = <<>>
            BY <2>2, <3>2
        <3>3. CASE t = s /\ UNCHANGED <<items, queue>>
            <4>1. ItemsOf(t)' = ItemsOf(t)
                BY <3>3 DEF ItemsOf
            <4> QED BY <1>1, <2>2, <3>3, <4>1 DEF SubscriptionInv, ItemInv
        <3> QED BY <1>6, <3>1, <3>2, <3>3
    <2> QED BY <2>1, <2>2 DEF ItemInv
<1> QED BY <1>7, <1>8, <1>9, <1>10, <1>11 DEF SubscriptionInv

\* Deleted items hold nothing; their places in heldOrder are left to the next flush.
LEMMA DeleteKeeps ==
    ASSUME SubscriptionInv, NEW s \in Subscriptions, NEW named \in SUBSET Items,
           DeleteMonitoredItems(s, named)
    PROVE  SubscriptionInv'
<1>1. /\ named \subseteq ItemsOf(s)
      /\ items' = items \ named
      /\ held' = [i \in Items |-> IF i \in named THEN None ELSE held[i]]
      /\ lastReported' = [i \in Items |-> IF i \in named THEN "never" ELSE lastReported[i]]
      /\ reported' = [i \in Items |-> IF i \in named THEN <<>> ELSE reported[i]]
      /\ Rebuilt(s, ItemsOf(s) \ named) \/ Rebuilt(s, {})
      /\ UNCHANGED <<version, semantics, used, enabled, heldOrder, seen, pending, born,
                     sequenceNumber, retransmit, retransmitOrder, keepAliveTicks, messageSent,
                     publish, acked>>
    BY Zenon DEF DeleteMonitoredItems, sourceVars, sendVars, clientVars
<1>2. \A i \in named : i \in items /\ i \in Items /\ owner[i] = s
    BY <1>1, ItemsThere
<1>3. items' \subseteq used' /\ used' \subseteq Items /\ items' \subseteq items
    BY <1>1, ItemsThere
<1>4. /\ \A t \in Subscriptions : ItemsOf(t)' = ItemsOf(t) \ named
      /\ \A t \in Subscriptions : t # s => ItemsOf(t)' = ItemsOf(t)
    BY <1>1, <1>2 DEF ItemsOf
<1>5. /\ da' \in [Subscriptions -> SUBSET DAItems] /\ done' \in [Subscriptions -> BOOLEAN]
      /\ queue' \in [Subscriptions -> Seq(Entries)]
      /\ queue'[s] = <<>> /\ \A t \in Subscriptions : t # s => queue'[t] = queue[t]
      /\ \A t \in Subscriptions : QueueSound(queue[t])'
    <2>1. ItemsOf(s) \ named \in SUBSET Items /\ {} \in SUBSET Items
        BY ItemsThere
    <2>2. UNCHANGED version
        BY <1>1
    <2> QED BY <1>1, <2>1, <2>2, RebuiltSound
<1>6. ASSUME NEW t \in Subscriptions PROVE Cardinality(ItemsOf(t)') <= MaxMonitoredItems
    <2>1. ItemsOf(t) \in SUBSET Items /\ ItemsOf(t)' \in SUBSET ItemsOf(t)
        BY <1>4, ItemsThere
    <2>2. IsFiniteSet(ItemsOf(t))
        BY <2>1, SubscriptionAssumption, FS_Subset, Zenon
    <2>3. IsFiniteSet(ItemsOf(t)') /\ Cardinality(ItemsOf(t)') <= Cardinality(ItemsOf(t))
        BY <2>1, <2>2, FS_Subset, Zenon
    <2>4. Cardinality(ItemsOf(t)) \in Nat /\ Cardinality(ItemsOf(t)') \in Nat
        BY <2>2, <2>3, FS_CardinalityType, Zenon
    <2>5. Cardinality(ItemsOf(t)) <= MaxMonitoredItems
        BY DEF SubscriptionInv, TypeOK
    <2> QED BY <2>3, <2>4, <2>5, SubscriptionAssumption
<1>7. TypeOK'
    <2>1. ASSUME NEW t \in Subscriptions
          PROVE  /\ Cardinality(ItemsOf(t)') <= MaxMonitoredItems
                 /\ Len(retransmitOrder'[t]) <= MaxRetransmissionQueue
                 /\ da'[t] \subseteq DAItems /\ keepAliveTicks'[t] \in 0 .. keepAliveCount
        BY <1>1, <1>5, <1>6 DEF SubscriptionInv, TypeOK
    <2>2. /\ held' \in [Items -> Notifications \cup {None}]
          /\ lastReported' \in [Items -> {"never", "recent", "due"}]
        BY <1>1 DEF SubscriptionInv, TypeOK
    <2> QED BY <1>1, <1>3, <2>1, <2>2 DEF SubscriptionInv, TypeOK
<1>8. SubscriptionTypes'
    <2>1. reported' \in [Items -> Seq(Notifications)]
        BY <1>1 DEF SubscriptionInv, SubscriptionTypes
    <2> QED BY <1>1, <1>5, <2>1 DEF SubscriptionInv, SubscriptionTypes
<1>9. RetransmissionInv'
    BY <1>1 DEF SubscriptionInv, RetransmissionInv
<1>10. HeldOrderInv'
    <2>1. ASSUME NEW t \in Subscriptions PROVE QueuedOnce(t, heldOrder[t], held)'
        <3>1. QueuedOnce(t, heldOrder[t], held)
            BY DEF SubscriptionInv, HeldOrderInv
        <3>2. ASSUME NEW i \in ItemsOf(t)' PROVE i \in Listed(heldOrder[t]) <=> held'[i] # None
            <4>1. i \in ItemsOf(t) /\ i \notin named /\ i \in Items
                BY <1>4, ItemsThere
            <4> QED BY <1>1, <3>1, <4>1 DEF QueuedOnce
        <3> QED BY <1>1, <3>1, <3>2 DEF QueuedOnce
    <2>2. \A i \in Items \ items' : held'[i] = None
        BY <1>1, <1>2 DEF SubscriptionInv, HeldOrderInv
    <2> QED BY <1>5, <2>1, <2>2 DEF HeldOrderInv
<1>11. ItemInv'
    <2>1. ASSUME NEW i \in Items
          PROVE  ItemSound(held'[i], lastReported'[i], reported'[i], version'[itemID[i]])
        <3>1. /\ ItemSound(held[i], lastReported[i], reported[i], version[itemID[i]])
              /\ reported[i] \in Seq(Notifications) /\ version[itemID[i]] \in Nat
            BY SubscriptionAssumption DEF SubscriptionInv, ItemInv, SubscriptionTypes
        <3>2. CASE i \in named
            <4>1. ItemSound(None, "never", <<>>, version[itemID[i]])
                BY <3>1, ItemKept
            <4> QED BY <1>1, <3>2, <4>1
        <3>3. CASE i \notin named
            BY <1>1, <3>1, <3>3
        <3> QED BY <3>2, <3>3
    <2>2. ASSUME NEW t \in Subscriptions, NEW k \in DOMAIN queue'[t], NEW i \in ItemsOf(t)',
                 itemID[i] = queue'[t][k].node
          PROVE  TellsUpTo(held'[i], reported'[i], queue'[t][k].value)
        <3>1. t # s
            BY <1>5, <2>2, EmptyQueueSound
        <3>2. i \in ItemsOf(t) /\ i \in Items /\ i \notin named /\ queue'[t] = queue[t]
            BY <1>4, <1>5, <2>2, <3>1, ItemsThere
        <3>3. TellsUpTo(held[i], reported[i], queue[t][k].value)
            BY <2>2, <3>2 DEF SubscriptionInv, ItemInv
        <3> QED BY <1>1, <3>2, <3>3
    <2> QED BY <2>1, <2>2 DEF ItemInv
<1> QED BY <1>7, <1>8, <1>9, <1>10, <1>11 DEF SubscriptionInv

\* A Publish request comes in, and may acknowledge a message.
LEMMA PublishKeeps ==
    ASSUME SubscriptionInv, NEW p \in Publishes, Publish(p)
    PROVE  SubscriptionInv'
<1>1. /\ publish' = [publish EXCEPT ![p] = TRUE]
      /\ UNCHANGED <<version, semantics, items, used, handles, da, done, queue, enabled, held,
                     heldOrder, lastReported, seen, pending, reported, born, sequenceNumber,
                     keepAliveTicks, messageSent>>
      /\ \/ UNCHANGED <<retransmit, retransmitOrder, acked>>
         \/ \E s \in Subscriptions : \E n \in retransmit[s] :
               /\ acknowledge(s, n)
               /\ acked' = [acked EXCEPT ![s] = @ \cup {n}]
    BY Zenon DEF Publish, sourceVars, itemVars, daVars, heldVars
<1>2. \A t \in Subscriptions : ItemsOf(t)' = ItemsOf(t)
    BY <1>1 DEF ItemsOf
<1>3. publish' \in [Publishes -> BOOLEAN]
    BY <1>1 DEF SubscriptionInv, TypeOK
<1>4. \A t \in Subscriptions :
        /\ sequenceNumber[t] \in Nat /\ retransmit[t] \in SUBSET Nat
        /\ retransmitOrder[t] \in Seq(Nat) /\ acked[t] \in SUBSET Nat
        /\ Len(retransmitOrder[t]) <= MaxRetransmissionQueue
        /\ RetransmissionSound(sequenceNumber[t], retransmit[t], retransmitOrder[t], acked[t])
    BY DEF SubscriptionInv, SubscriptionTypes, TypeOK, RetransmissionInv
<1>5. /\ retransmit' \in [Subscriptions -> SUBSET Nat]
      /\ retransmitOrder' \in [Subscriptions -> Seq(Nat)]
      /\ acked' \in [Subscriptions -> SUBSET Nat]
      /\ \A t \in Subscriptions :
            /\ Len(retransmitOrder'[t]) <= MaxRetransmissionQueue
            /\ RetransmissionSound(sequenceNumber[t], retransmit'[t], retransmitOrder'[t], acked'[t])
    <2>1. CASE UNCHANGED <<retransmit, retransmitOrder, acked>>
        BY <1>4, <2>1 DEF SubscriptionInv, SubscriptionTypes
    <2>2. ASSUME NEW s \in Subscriptions, NEW n \in retransmit[s], acknowledge(s, n),
                 acked' = [acked EXCEPT ![s] = @ \cup {n}]
          PROVE  /\ retransmit' \in [Subscriptions -> SUBSET Nat]
                 /\ retransmitOrder' \in [Subscriptions -> Seq(Nat)]
                 /\ acked' \in [Subscriptions -> SUBSET Nat]
                 /\ \A t \in Subscriptions :
                       /\ Len(retransmitOrder'[t]) <= MaxRetransmissionQueue
                       /\ RetransmissionSound(sequenceNumber[t], retransmit'[t],
                                              retransmitOrder'[t], acked'[t])
        <3> DEFINE left == Selected(retransmitOrder[s], Listed(retransmitOrder[s]) \ {n})
        <3>1. /\ left \in Seq(Nat) /\ Len(left) <= MaxRetransmissionQueue
              /\ RetransmissionSound(sequenceNumber[s], retransmit[s] \ {n}, left,
                                     acked[s] \cup {n})
            BY <1>4, RetransmissionAcknowledges
        <3>2. /\ retransmit' = [retransmit EXCEPT ![s] = @ \ {n}]
              /\ retransmitOrder' = [retransmitOrder EXCEPT ![s] = left]
            BY <2>2 DEF acknowledge
        <3> HIDE DEF left
        <3>3. n \in Nat /\ acked[s] \cup {n} \in SUBSET Nat /\ retransmit[s] \ {n} \in SUBSET Nat
            BY <1>4
        <3>4. /\ retransmit' \in [Subscriptions -> SUBSET Nat]
              /\ retransmitOrder' \in [Subscriptions -> Seq(Nat)]
              /\ acked' \in [Subscriptions -> SUBSET Nat]
            BY <2>2, <3>1, <3>2, <3>3 DEF SubscriptionInv, SubscriptionTypes
        <3>5. /\ retransmit'[s] = retransmit[s] \ {n} /\ retransmitOrder'[s] = left
              /\ acked'[s] = acked[s] \cup {n}
              /\ \A t \in Subscriptions : t # s =>
                    /\ retransmit'[t] = retransmit[t] /\ retransmitOrder'[t] = retransmitOrder[t]
                    /\ acked'[t] = acked[t]
            BY <2>2, <3>2 DEF SubscriptionInv, SubscriptionTypes
        <3> QED BY <1>4, <3>1, <3>4, <3>5
    <2> QED BY <1>1, <2>1, <2>2
<1>6. TypeOK'
    BY <1>1, <1>2, <1>3, <1>5 DEF SubscriptionInv, TypeOK
<1>7. SubscriptionTypes'
    BY <1>1, <1>5 DEF SubscriptionInv, SubscriptionTypes
<1>8. RetransmissionInv'
    BY <1>1, <1>5 DEF RetransmissionInv
<1>9. HeldOrderInv'
    BY <1>1, <1>2 DEF SubscriptionInv, HeldOrderInv, QueueSound, QueuedOnce
<1>10. ItemInv'
    BY <1>1, <1>2 DEF SubscriptionInv, ItemInv
<1> QED BY <1>6, <1>7, <1>8, <1>9, <1>10 DEF SubscriptionInv

\* A cycle that sends or does not: what it does to what is sent and kept.
LEMMA CycleSends ==
    ASSUME SubscriptionInv, NEW p \in Publishes, NEW s \in Subscriptions,
           \/ SendMessage(p, s)
           \/ /\ KeepAliveCycle(p, s)
              /\ UNCHANGED <<sequenceNumber, retransmit, retransmitOrder, acked>>
    PROVE  /\ sequenceNumber' \in [Subscriptions -> Nat]
           /\ retransmit' \in [Subscriptions -> SUBSET Nat]
           /\ retransmitOrder' \in [Subscriptions -> Seq(Nat)]
           /\ acked' \in [Subscriptions -> SUBSET Nat]
           /\ keepAliveTicks' \in [Subscriptions -> Nat]
           /\ publish' \in [Publishes -> BOOLEAN]
           /\ \A t \in Subscriptions :
                 /\ Len(retransmitOrder'[t]) <= MaxRetransmissionQueue
                 /\ keepAliveTicks'[t] \in 0 .. keepAliveCount
                 /\ RetransmissionSound(sequenceNumber'[t], retransmit'[t], retransmitOrder'[t],
                                        acked'[t])
<1> DEFINE n == sequenceNumber[s] + 1
           sent == Append(Kept(retransmitOrder[s]), n)
           old == Oldest(retransmitOrder[s])
           told == Recent(acked[s], n)
<1>1. \A t \in Subscriptions :
        /\ sequenceNumber[t] \in Nat /\ retransmit[t] \in SUBSET Nat
        /\ retransmitOrder[t] \in Seq(Nat) /\ acked[t] \in SUBSET Nat
        /\ Len(retransmitOrder[t]) <= MaxRetransmissionQueue
        /\ RetransmissionSound(sequenceNumber[t], retransmit[t], retransmitOrder[t], acked[t])
        /\ keepAliveTicks[t] \in 0 .. keepAliveCount /\ keepAliveTicks[t] \in Nat
    BY DEF SubscriptionInv, SubscriptionTypes, TypeOK, RetransmissionInv
<1>2. keepAliveCount \in Nat \ {0}
    BY SubscriptionAssumption
<1>3. /\ sequenceNumber \in [Subscriptions -> Nat]
      /\ retransmit \in [Subscriptions -> SUBSET Nat]
      /\ retransmitOrder \in [Subscriptions -> Seq(Nat)]
      /\ acked \in [Subscriptions -> SUBSET Nat]
      /\ keepAliveTicks \in [Subscriptions -> Nat]
      /\ publish \in [Publishes -> BOOLEAN]
    BY DEF SubscriptionInv, SubscriptionTypes, TypeOK
<1>4. CASE SendMessage(p, s)
    <2>1. /\ keepAliveTicks' = [keepAliveTicks EXCEPT ![s] = 0]
          /\ sequenceNumber' = [sequenceNumber EXCEPT ![s] = n]
          /\ publish' = [publish EXCEPT ![p] = FALSE]
        BY <1>4 DEF SendMessage, Answer
    <2>2. sequenceNumber'[s] = n
        BY <1>3, <2>1
    <2>3. acked' = [acked EXCEPT ![s] = told]
        BY <1>4, <2>2 DEF SendMessage, Recent
    <2>4. /\ retransmit' = [retransmit EXCEPT ![s] = (@ \ old) \cup {n}]
          /\ retransmitOrder' = [retransmitOrder EXCEPT ![s] = sent]
        BY <1>4 DEF SendMessage, queueForRetransmission, Kept, Oldest
    <2>5. /\ sent \in Seq(Nat) /\ Len(sent) <= MaxRetransmissionQueue
          /\ RetransmissionSound(n, (retransmit[s] \ old) \cup {n}, sent, told)
        BY <1>1, RetransmissionSends, Zenon
    <2>6. n \in Nat /\ told \in SUBSET Nat /\ (retransmit[s] \ old) \cup {n} \in SUBSET Nat
        BY <1>1 DEF Recent
    <2> HIDE DEF n, sent, old, told
    <2>7. /\ sequenceNumber' \in [Subscriptions -> Nat]
          /\ retransmit' \in [Subscriptions -> SUBSET Nat]
          /\ retransmitOrder' \in [Subscriptions -> Seq(Nat)]
          /\ acked' \in [Subscriptions -> SUBSET Nat]
        BY <1>3, <2>1, <2>3, <2>4, <2>5, <2>6
    <2>8. /\ keepAliveTicks' \in [Subscriptions -> Nat]
          /\ publish' \in [Publishes -> BOOLEAN]
          /\ \A t \in Subscriptions : keepAliveTicks'[t] \in 0 .. keepAliveCount
        BY <1>1, <1>2, <1>3, <2>1
    <2>9. /\ retransmit'[s] = (retransmit[s] \ old) \cup {n} /\ retransmitOrder'[s] = sent
          /\ acked'[s] = told
          /\ \A t \in Subscriptions : t # s =>
                /\ retransmit'[t] = retransmit[t] /\ retransmitOrder'[t] = retransmitOrder[t]
                /\ acked'[t] = acked[t] /\ sequenceNumber'[t] = sequenceNumber[t]
        BY <1>3, <2>1, <2>3, <2>4
    <2> QED BY <1>1, <2>2, <2>5, <2>7, <2>8, <2>9
<1>5. CASE KeepAliveCycle(p, s) /\ UNCHANGED <<sequenceNumber, retransmit, retransmitOrder, acked>>
    <2>1. /\ publish' \in [Publishes -> BOOLEAN]
          /\ keepAliveTicks' \in [Subscriptions -> Nat]
          /\ \A t \in Subscriptions : keepAliveTicks'[t] \in 0 .. keepAliveCount
        <3>1. CASE messageSent[s] /\ keepAliveTicks[s] + 1 < keepAliveCount
            <4>1. /\ keepAliveTicks' = [keepAliveTicks EXCEPT ![s] = @ + 1]
                  /\ UNCHANGED publish
                BY <1>5, <3>1 DEF KeepAliveCycle
            <4>2. keepAliveTicks[s] + 1 \in Nat /\ keepAliveTicks[s] + 1 \in 0 .. keepAliveCount
                BY <1>1, <1>2, <3>1
            <4> QED BY <1>1, <1>3, <4>1, <4>2
        <3>2. CASE ~(messageSent[s] /\ keepAliveTicks[s] + 1 < keepAliveCount)
            <4>1. /\ keepAliveTicks' = [keepAliveTicks EXCEPT ![s] = 0]
                  /\ publish' = [publish EXCEPT ![p] = FALSE]
                BY <1>5, <3>2 DEF KeepAliveCycle, Answer
            <4> QED BY <1>1, <1>2, <1>3, <4>1
        <3> QED BY <3>1, <3>2
    <2> QED BY <1>1, <1>3, <1>5, <2>1
<1> QED BY <1>4, <1>5

\* What becomes of what a cycle worked on.
CycleEnds(p, s, c) ==
    LET sends == enabled[s] /\ c.pending # <<>>
    IN /\ held' = c.held
       /\ heldOrder' = [heldOrder EXCEPT ![s] = c.heldOrder]
       /\ lastReported' = c.lastReported
       /\ seen' = c.seen
       /\ reported' = c.reported
       /\ pending' = [pending EXCEPT ![s] =
             IF sends THEN SubSeq(c.pending, maxNotifications + 1, Len(c.pending))
             ELSE c.pending]
       /\ da' = [da EXCEPT ![s] = c.da]
       /\ done' = [done EXCEPT ![s] = @ /\ c.da # {}]
       /\ queue' = [queue EXCEPT ![s] = <<>>]
       /\ IF sends
          THEN SendMessage(p, s)
          ELSE /\ KeepAliveCycle(p, s)
               /\ UNCHANGED <<sequenceNumber, retransmit, retransmitOrder, acked>>

\* One publishing cycle.
LEMMA TryPublishKeeps ==
    ASSUME SubscriptionInv, NEW p \in Publishes, tryPublish(p)
    PROVE  SubscriptionInv'
<1>1. PICK s \in nextPublishable :
          \E unreadable \in Orders(Unreadable(s)), all \in Orders(ItemsOf(s)),
             pick \in itemForDAItemID(s) : CycleEnds(p, s, collect(s, unreadable, all, pick))
    BY Zenon DEF tryPublish, CycleEnds
<1>2. s \in Subscriptions
    BY DEF nextPublishable
<1>3. PICK unreadable \in Orders(Unreadable(s)), all \in Orders(ItemsOf(s)),
           pick \in itemForDAItemID(s) : CycleEnds(p, s, collect(s, unreadable, all, pick))
    BY <1>1
<1> DEFINE d == collect(s, unreadable, all, pick)
<1>4. CycleSound(s, d) /\ d.da \in {da[s], {}}
    BY <1>2, CollectKeeps
<1>5. PICK c : c = d
    OBVIOUS
<1>6. /\ held' = c.held
      /\ heldOrder' = [heldOrder EXCEPT ![s] = c.heldOrder]
      /\ lastReported' = c.lastReported
      /\ reported' = c.reported
      /\ da' = [da EXCEPT ![s] = c.da]
      /\ done' = [done EXCEPT ![s] = @ /\ c.da # {}]
      /\ queue' = [queue EXCEPT ![s] = <<>>]
      /\ CycleSound(s, c) /\ c.da \in {da[s], {}}
    BY <1>3, <1>4, <1>5 DEF CycleEnds
<1>7. \/ SendMessage(p, s)
      \/ /\ KeepAliveCycle(p, s)
         /\ UNCHANGED <<sequenceNumber, retransmit, retransmitOrder, acked>>
    BY <1>3 DEF CycleEnds
<1>8. UNCHANGED <<version, semantics, items, used, handles, enabled, born>>
    BY DEF tryPublish, sourceVars, itemVars
<1> HIDE DEF d
<1>9. \A t \in Subscriptions : ItemsOf(t)' = ItemsOf(t)
    BY <1>8 DEF ItemsOf
<1>10. /\ sequenceNumber' \in [Subscriptions -> Nat]
       /\ retransmit' \in [Subscriptions -> SUBSET Nat]
       /\ retransmitOrder' \in [Subscriptions -> Seq(Nat)]
       /\ acked' \in [Subscriptions -> SUBSET Nat]
       /\ keepAliveTicks' \in [Subscriptions -> Nat]
       /\ publish' \in [Publishes -> BOOLEAN]
       /\ \A t \in Subscriptions :
             /\ Len(retransmitOrder'[t]) <= MaxRetransmissionQueue
             /\ keepAliveTicks'[t] \in 0 .. keepAliveCount
             /\ RetransmissionSound(sequenceNumber'[t], retransmit'[t], retransmitOrder'[t],
                                    acked'[t])
    BY <1>2, <1>7, CycleSends
<1>11. \A i \in Items : /\ held'[i] \in Notifications \cup {None}
                        /\ reported'[i] \in Seq(Notifications)
                        /\ lastReported'[i] \in {"never", "recent", "due"}
                        /\ ItemSound(held'[i], lastReported'[i], reported'[i], version[itemID[i]])
    BY <1>6 DEF CycleSound
<1>12. /\ held' \in [Items -> Notifications \cup {None}]
       /\ lastReported' \in [Items -> {"never", "recent", "due"}]
       /\ reported' \in [Items -> Seq(Notifications)]
    <2>1. PerItem(held') /\ PerItem(lastReported') /\ PerItem(reported')
        BY <1>6 DEF CycleSound
    <2>2. held' \in [Items -> Notifications \cup {None}]
        BY <1>11, <2>1 DEF PerItem
    <2>3. lastReported' \in [Items -> {"never", "recent", "due"}]
        BY <1>11, <2>1 DEF PerItem
    <2>4. reported' \in [Items -> Seq(Notifications)]
        BY <1>11, <2>1 DEF PerItem
    <2> QED BY <2>2, <2>3, <2>4
<1>13. /\ da' \in [Subscriptions -> SUBSET DAItems] /\ done' \in [Subscriptions -> BOOLEAN]
       /\ queue' \in [Subscriptions -> Seq(Entries)]
       /\ heldOrder' \in [Subscriptions -> Seq(Items)]
    <2>1. c.da \in SUBSET DAItems
        BY <1>2, <1>6 DEF SubscriptionInv, SubscriptionTypes
    <2>2. da' \in [Subscriptions -> SUBSET DAItems]
        BY <1>6, <2>1 DEF SubscriptionInv, SubscriptionTypes
    <2>3. done' \in [Subscriptions -> BOOLEAN]
        BY <1>6 DEF SubscriptionInv, SubscriptionTypes
    <2>4. queue' \in [Subscriptions -> Seq(Entries)]
        BY <1>6, EmptyQueueSound DEF SubscriptionInv, SubscriptionTypes
    <2>5. heldOrder' \in [Subscriptions -> Seq(Items)]
        BY <1>6 DEF SubscriptionInv, SubscriptionTypes, CycleSound
    <2> QED BY <2>2, <2>3, <2>4, <2>5
<1>14. /\ heldOrder'[s] = c.heldOrder /\ queue'[s] = <<>>
       /\ \A t \in Subscriptions : t # s => heldOrder'[t] = heldOrder[t] /\ queue'[t] = queue[t]
    BY <1>2, <1>6 DEF SubscriptionInv, SubscriptionTypes
<1>15. TypeOK'
    <2>1. ASSUME NEW t \in Subscriptions
          PROVE  /\ Cardinality(ItemsOf(t)') <= MaxMonitoredItems
                 /\ Len(retransmitOrder'[t]) <= MaxRetransmissionQueue
                 /\ da'[t] \subseteq DAItems /\ keepAliveTicks'[t] \in 0 .. keepAliveCount
        BY <1>9, <1>10, <1>13 DEF SubscriptionInv, TypeOK
    <2> QED BY <1>8, <1>10, <1>12, <2>1 DEF SubscriptionInv, TypeOK
<1>16. SubscriptionTypes'
    BY <1>8, <1>10, <1>12, <1>13 DEF SubscriptionInv, SubscriptionTypes
<1>17. RetransmissionInv'
    BY <1>10 DEF RetransmissionInv
<1>18. HeldOrderInv'
    <2>1. \A t \in Subscriptions : QueueSound(queue[t])'
        BY <1>8, <1>14, EmptyQueueSound DEF SubscriptionInv, HeldOrderInv, QueueSound
    <2>2. ASSUME NEW t \in Subscriptions PROVE QueuedOnce(t, heldOrder[t], held)'
        <3>1. CASE t = s
            BY <1>6, <1>8, <1>9, <1>14, <3>1 DEF CycleSound, QueuedOnce
        <3>2. CASE t # s
            <4>1. \A i \in ItemsOf(t) : held'[i] = held[i]
                BY <1>6, <3>2, ItemsThere DEF CycleSound
            <4> QED BY <1>8, <1>9, <1>14, <3>2, <4>1 DEF SubscriptionInv, HeldOrderInv, QueuedOnce
        <3> QED BY <3>1, <3>2
    <2>3. \A i \in Items \ items' : held'[i] = None
        BY <1>6, <1>8 DEF CycleSound
    <2> QED BY <2>1, <2>2, <2>3 DEF HeldOrderInv
<1>19. ItemInv'
    <2>1. ASSUME NEW t \in Subscriptions, NEW k \in DOMAIN queue'[t], NEW i \in ItemsOf(t)',
                 itemID[i] = queue'[t][k].node
          PROVE  TellsUpTo(held'[i], reported'[i], queue'[t][k].value)
        <3>1. t # s
            BY <1>14, <2>1, EmptyQueueSound
        <3>2. i \in ItemsOf(t) /\ i \in Items /\ owner[i] # s /\ queue'[t] = queue[t]
            BY <1>9, <1>14, <2>1, <3>1, ItemsThere
        <3>3. TellsUpTo(held[i], reported[i], queue[t][k].value)
            BY <2>1, <3>2 DEF SubscriptionInv, ItemInv
        <3>4. held'[i] = held[i] /\ reported'[i] = reported[i]
            BY <1>6, <3>2 DEF CycleSound
        <3> QED BY <3>2, <3>3, <3>4
    <2> QED BY <1>8, <1>11, <2>1 DEF ItemInv
<1> QED BY <1>15, <1>16, <1>17, <1>18, <1>19 DEF SubscriptionInv

\* The invariant holds whatever the source, the client and the cycles do.
THEOREM SubscriptionInvariant == Spec => []SubscriptionInv
<1>1. SubscriptionInv /\ [Next]_vars => SubscriptionInv'
    <2> SUFFICES ASSUME SubscriptionInv, [Next]_vars PROVE SubscriptionInv'
        OBVIOUS
    <2>1. ASSUME NEW n \in DAItems, SourceChanges(n) \/ SemanticsChange(n)
          PROVE  SubscriptionInv'
        BY <2>1, SourceChangesKeeps, SemanticsChangeKeeps
    <2>2. ASSUME NEW s \in Subscriptions, Invalidate(s) \/ SetPublishingMode(s)
          PROVE  SubscriptionInv'
        BY <2>2, InvalidateKeeps, SetPublishingModeKeeps
    <2>3. ASSUME NEW s \in Subscriptions, NEW I \in SUBSET Items,
                 CreateMonitoredItems(s, I) \/ DeleteMonitoredItems(s, I)
          PROVE  SubscriptionInv'
        BY <2>3, CreateKeeps, DeleteKeeps
    <2>4. ASSUME NEW i \in Items, SamplingDue(i) PROVE SubscriptionInv'
        BY <2>4, SamplingDueKeeps
    <2>5. ASSUME NEW p \in Publishes, Publish(p) \/ tryPublish(p) PROVE SubscriptionInv'
        BY <2>5, PublishKeeps, TryPublishKeeps
    <2>6. CASE UNCHANGED vars
        <3>1. /\ UNCHANGED <<version, semantics, items, used, handles, da, done, queue, enabled>>
              /\ UNCHANGED <<held, heldOrder, lastReported, seen, pending, reported, born>>
              /\ UNCHANGED <<sequenceNumber, retransmit, retransmitOrder, keepAliveTicks,
                             messageSent, publish, acked>>
            BY <2>6 DEF vars, sourceVars, itemVars, daVars, heldVars, sendVars, clientVars
        <3>2. \A s : ItemsOf(s)' = ItemsOf(s)
            BY <3>1 DEF ItemsOf
        <3>3. TypeOK'
            BY <3>1, <3>2 DEF SubscriptionInv, TypeOK
        <3>4. SubscriptionTypes' /\ RetransmissionInv'
            BY <3>1 DEF SubscriptionInv, SubscriptionTypes, RetransmissionInv
        <3>5. HeldOrderInv'
            BY <3>1, <3>2 DEF SubscriptionInv, HeldOrderInv, QueueSound, QueuedOnce
        <3>6. ItemInv'
            BY <3>1, <3>2 DEF SubscriptionInv, ItemInv
        <3> QED BY <3>3, <3>4, <3>5, <3>6 DEF SubscriptionInv
    <2> QED BY <2>1, <2>2, <2>3, <2>4, <2>5, <2>6 DEF Next
<1> QED BY <1>1, SubscriptionInit, PTL DEF Spec

-----------------------------------------------------------------------------
(* What the runs check *)

\* A message a client did not acknowledge is kept for Republish until as many
\* newer ones were sent as the queue holds, the queue names each message it keeps
\* and none besides, and every variable keeps its type (queueForRetransmission,
\* acknowledge).
THEOREM UnacknowledgedKeptAlways == Spec => []UnacknowledgedKept
<1>1. SubscriptionInv => UnacknowledgedKept
    BY DEF SubscriptionInv, RetransmissionInv, RetransmissionSound, UnacknowledgedKept
<1> QED BY <1>1, SubscriptionInvariant, PTL

\* A set of positions no two of which differ has at most one.
LEMMA AtMostOne ==
    ASSUME NEW n \in Nat, NEW S \in SUBSET (1 .. n), \A j, k \in S : j = k
    PROVE  /\ Cardinality(S) <= 1
           /\ S # {} => Cardinality(S) = 1
           /\ S = {} => Cardinality(S) = 0
<1>1. CASE S = {}
    <2>1. Cardinality(S) = 0
        BY <1>1, FS_EmptySet, Zenon
    <2> QED BY <1>1, <2>1
<1>2. CASE S # {}
    <2>1. PICK x \in S : TRUE
        BY <1>2
    <2>2. S = {x}
        BY <2>1
    <2>3. Cardinality(S) = 1
        BY <2>2, FS_Singleton, Zenon
    <2>4. 1 <= 1
        OBVIOUS
    <2> QED BY <1>2, <2>3, <2>4
<1> QED BY <1>1, <1>2

\* Each held value has one place in heldOrder and an item that holds none has no
\* place, through pacing, deletion, rebuilding and invalidation; the status of an
\* unreadable item is reported once (collect, flushHeld, reportInvalidation).
THEOREM ReportedOnceAlways == Spec => []ReportedOnce
<1>1. SubscriptionInv => ReportedOnce
    <2> SUFFICES ASSUME SubscriptionInv PROVE ReportedOnce
        OBVIOUS
    <2>1. HeldIsQueued
        <3> SUFFICES ASSUME NEW i \in items
                     PROVE  Count(i, heldOrder[owner[i]]) = IF held[i] = None THEN 0 ELSE 1
            BY DEF HeldIsQueued
        <3> DEFINE s == owner[i]
                   q == heldOrder[s]
                   S == {k \in DOMAIN q : q[k] = i}
        <3>1. i \in Items /\ s \in Subscriptions /\ i \in ItemsOf(s)
            BY SubscriptionAssumption DEF SubscriptionInv, TypeOK, ItemsOf
        <3>2. q \in Seq(Items) /\ QueuedOnce(s, q, held)
            BY <3>1 DEF SubscriptionInv, SubscriptionTypes, HeldOrderInv
        <3> HIDE DEF q
        <3>3. Len(q) \in Nat /\ S \in SUBSET (1 .. Len(q)) /\ \A j, k \in S : j = k
            BY <3>2 DEF QueuedOnce, Once
        <3>4. S = {} <=> held[i] = None
            BY <3>1, <3>2 DEF QueuedOnce, Listed
        <3>5. (S # {} => Cardinality(S) = 1) /\ (S = {} => Cardinality(S) = 0)
            BY <3>3, AtMostOne, Zenon
        <3>6. Count(i, q) = Cardinality(S)
            BY DEF Count
        <3> HIDE DEF S
        <3> QED BY <3>4, <3>5, <3>6 DEF q
    <2>2. UnreadableOnce
        <3> SUFFICES ASSUME NEW i \in Items
                     PROVE  Cardinality({k \in DOMAIN reported[i] :
                                reported[i][k].status = "Bad_NotReadable"}) <= 1
            BY DEF UnreadableOnce
        <3> DEFINE r == reported[i]
                   S == {k \in DOMAIN r : r[k].status = "Bad_NotReadable"}
        <3>1. r \in Seq(Notifications) /\ \A j, k \in S : j = k
            BY DEF SubscriptionInv, SubscriptionTypes, ItemInv, ItemSound
        <3> HIDE DEF r
        <3>2. Len(r) \in Nat /\ S \in SUBSET (1 .. Len(r))
            BY <3>1
        <3>3. Cardinality(S) <= 1
            BY <3>1, <3>2, AtMostOne, Zenon
        <3> QED BY <3>3 DEF r
    <2> QED BY <2>1, <2>2 DEF ReportedOnce
<1> QED BY <1>1, SubscriptionInvariant, PTL

\* What is reported for an item, followed by what it holds, is in the order the
\* source produced it: a client never sees an item go back in time (merge,
\* holdValues, flushHeld).
THEOREM ValuesInOrderAlways == Spec => []ValuesInOrder
<1>1. SubscriptionInv => ValuesInOrder
    <2> SUFFICES ASSUME SubscriptionInv, NEW i \in Items,
                        NEW j \in DOMAIN Values(i), NEW k \in DOMAIN Values(i), j < k
                 PROVE  Values(i)[j].value <= Values(i)[k].value
        BY DEF ValuesInOrder
    <2> DEFINE r == reported[i]
               h == held[i]
               told == IF h = None THEN r ELSE Append(r, h)
               S == {n \in Listed(told) : n.status = "Good"}
               P == Positions(told, S)
    <2>1. /\ r \in Seq(Notifications) /\ h \in Notifications \cup {None}
          /\ ItemSound(h, lastReported[i], r, version[itemID[i]])
        BY DEF SubscriptionInv, SubscriptionTypes, TypeOK, ItemInv
    <2>2. Values(i) = Selected(told, S)
        BY DEF Values
    <2> HIDE DEF r, h
    <2>3. told \in Seq(Notifications)
        BY <2>1
    <2>4. \A a, b \in DOMAIN told : a < b /\ told[a].status = "Good" /\ told[b].status = "Good"
                                       => told[a].value <= told[b].value
        <3> SUFFICES ASSUME NEW a \in DOMAIN told, NEW b \in DOMAIN told, a < b,
                            told[a].status = "Good", told[b].status = "Good"
                     PROVE  told[a].value <= told[b].value
            OBVIOUS
        <3>1. CASE h = None
            BY <2>1, <3>1 DEF ItemSound
        <3>2. CASE h # None
            <4>1. /\ told = Append(r, h) /\ h \in Notifications
                  /\ DOMAIN told = 1 .. Len(r) + 1 /\ Len(r) \in Nat /\ DOMAIN r = 1 .. Len(r)
                  /\ \A n \in 1 .. Len(r) : told[n] = r[n]
                  /\ told[Len(r) + 1] = h
                BY <2>1, <3>2
            <4> HIDE DEF told
            <4>2. a \in DOMAIN r /\ told[a] = r[a]
                BY <4>1
            <4>3. CASE b \in DOMAIN r
                BY <2>1, <4>1, <4>2, <4>3 DEF ItemSound
            <4>4. CASE b = Len(r) + 1
                BY <2>1, <3>2, <4>1, <4>2, <4>4 DEF ItemSound, TellsUpTo
            <4> QED BY <4>1, <4>3, <4>4
        <3> QED BY <3>1, <3>2
    <2> HIDE DEF told
    <2>5. /\ \A n \in DOMAIN Selected(told, S) :
               /\ At(Positions(told, S), n) \in DOMAIN told
               /\ Selected(told, S)[n] = told[At(Positions(told, S), n)]
               /\ Selected(told, S)[n] \in S
          /\ \A m, n \in DOMAIN Selected(told, S) : m < n =>
               At(Positions(told, S), n) - At(Positions(told, S), m) >= n - m
          /\ DOMAIN Selected(told, S) = 1 .. Len(Selected(told, S))
          /\ Selected(told, S) \in Seq(Notifications)
        BY <2>3, SelectedFrom, Zenon
    <2>6. PICK a \in DOMAIN told, b \in DOMAIN told :
               /\ Values(i)[j] = told[a] /\ Values(i)[k] = told[b]
               /\ b - a >= k - j
               /\ told[a] \in S /\ told[b] \in S
        <3> HIDE DEF S
        <3>1. j \in DOMAIN Selected(told, S) /\ k \in DOMAIN Selected(told, S)
            BY <2>2, Zenon
        <3>2. /\ At(P, j) \in DOMAIN told /\ At(P, k) \in DOMAIN told
              /\ Values(i)[j] = told[At(P, j)] /\ Values(i)[k] = told[At(P, k)]
              /\ told[At(P, j)] \in S /\ told[At(P, k)] \in S
            BY <2>2, <2>5, <3>1, Zenon
        <3>3. At(P, k) - At(P, j) >= k - j
            BY <2>5, <3>1, Zenon
        <3> QED BY <3>2, <3>3, Zenon
    <2>7. told[a].status = "Good" /\ told[b].status = "Good"
        BY <2>6
    <2>8. j \in Nat /\ k \in Nat /\ a \in Nat /\ b \in Nat
        <3>1. a \in Nat /\ b \in Nat
            BY <2>3
        <3>2. Len(Values(i)) \in Nat /\ DOMAIN Values(i) = 1 .. Len(Values(i))
            BY <2>2, <2>5
        <3> QED BY <3>1, <3>2
    <2>9. a < b
        BY <2>6, <2>8
    <2> QED BY <2>4, <2>6, <2>7, <2>9
<1> QED BY <1>1, SubscriptionInvariant, PTL

=============================================================================
