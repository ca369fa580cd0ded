------------------------ MODULE DASubscriptionProofs ------------------------
(***************************************************************************)
(* For any number of items, callback threads and reports: the coalescing   *)
(* set keeps its two halves in step, never holds an unannounced value,     *)
(* stays empty once invalidated, and implements Coalescing. And of the     *)
(* callback object the values come through: it is safe to call whenever    *)
(* the server can.                                                         *)
(***************************************************************************)
EXTENDS DASubscription, CallbackLifetime, TLAPS

USE SubscriptionAssumption DEF pendingVars

-----------------------------------------------------------------------------
(* Type correctness *)

\* Every step keeps the types.
LEMMA TypeStep == TypeOK /\ [Next]_vars => TypeOK'
<1> SUFFICES ASSUME TypeOK, [Next]_vars PROVE TypeOK'
  OBVIOUS
<1> USE DEF TypeOK
<1>1. ASSUME NEW t \in Threads, OnDataChange(t) PROVE TypeOK'
  <2>1. PICK n \in 1..MaxBatch : \E handles \in [1..n -> Handles] :
            /\ batch' = [batch EXCEPT
                           ![t] = [i \in 1..n |-> <<handles[i], clock + i>>]]
            /\ clock' = clock + n
    BY <1>1 DEF OnDataChange
  <2>2. PICK handles \in [1..n -> Handles] :
            batch' = [batch EXCEPT
                           ![t] = [i \in 1..n |-> <<handles[i], clock + i>>]]
    BY <2>1
  <2>3. [i \in 1..n |-> <<handles[i], clock + i>>] \in Batch
    <3>1. n \in Nat /\ clock \in Nat
      BY SubscriptionAssumption
    <3>2. \A i \in 1..n : <<handles[i], clock + i>> \in Handles \X (Nat \ {0})
      BY <3>1
    <3> QED
      BY <3>1, <3>2 DEF Batch
  <2>4. batch' \in [Threads -> Batch]
    BY <2>2, <2>3
  <2>5. clock' \in Nat
    <3>1. n \in Nat
      OBVIOUS
    <3> QED
      BY <2>1, <3>1
  <2> QED
    BY <1>1, <2>4, <2>5 DEF OnDataChange, CallbackStates
<1>2. ASSUME NEW t \in Threads, MergeLocks(t) PROVE TypeOK'
  <2>1. <<>> \in Batch
    BY DEF Batch
  <2> QED
    BY <1>2, <2>1 DEF MergeLocks, CallbackStates
<1>3. ASSUME NEW t \in Threads, MergeOne(t) PROVE TypeOK'
  <2>1. batch[t] \in Batch /\ batch[t] # <<>>
    BY <1>3 DEF MergeOne
  <2>2. Head(batch[t])[1] \in Handles /\ Head(batch[t])[2] \in Nat
        /\ Tail(batch[t]) \in Batch
    BY <2>1 DEF Batch
  <2>3. ordered(Head(batch[t])[1]) \in Seq(Handles)
    BY <2>2 DEF ordered
  <2>4. /\ order' \in Seq(Handles)
        /\ latest' \in [Handles -> Nat]
        /\ reported' \in [Handles -> Nat]
        /\ batch' \in [Threads -> Batch]
    BY <1>3, <2>2, <2>3 DEF MergeOne
  <2> QED
    BY <1>3, <2>4 DEF MergeOne
<1>4. ASSUME NEW t \in Threads, MergeUnlocks(t) \/ MergeNotifies(t) PROVE TypeOK'
  BY <1>4 DEF MergeUnlocks, MergeNotifies, CallbackStates
<1>5. CASE ReleaseGroup \/ TeardownStep
  <2>1. CASE ReleaseGroup \/ UnregisterCallback \/ CloseDone
    BY <2>1 DEF ReleaseGroup, UnregisterCallback, CloseDone, TeardownStates
  <2>2. CASE Invalidate
    <3>1. order' \in Seq(Handles) /\ latest' \in [Handles -> Nat]
      BY <2>2 DEF Invalidate
    <3> QED
      BY <2>2, <3>1 DEF Invalidate, TeardownStates
  <2> QED
    BY <1>5, <2>1, <2>2 DEF TeardownStep
<1>6. CASE CancelStream \/ SelectEnds \/ SelectUpdates \/ Send
  BY <1>6 DEF CancelStream, SelectEnds, SelectUpdates, Send, ConsumerStates
<1>7. CASE Drain
  <2>1. [i \in 1..Len(order) |-> <<order[i], latest[order[i]]>>] \in Seq(Handles \X Nat)
    OBVIOUS
  <2>2. /\ order' \in Seq(Handles)
        /\ latest' \in [Handles -> Nat]
        /\ taken' \in Seq(Handles \X Nat)
        /\ consumer' \in ConsumerStates
    <3>1. CASE order = <<>>
      BY <1>7, <3>1 DEF Drain, ConsumerStates
    <3>2. CASE order # <<>>
      <4>1. /\ taken' = [i \in 1..Len(order) |-> <<order[i], latest[order[i]]>>]
            /\ order' = <<>>
            /\ latest' = [h \in Handles |-> 0]
            /\ consumer' = "send"
        BY <1>7, <3>2 DEF Drain
      <4>2. taken' \in Seq(Handles \X Nat)
        BY <2>1, <4>1
      <4>3. latest' \in [Handles -> Nat]
        BY <4>1
      <4> QED
        BY <4>1, <4>2, <4>3 DEF ConsumerStates
    <3> QED
      BY <3>1, <3>2
  <2> QED
    BY <1>7, <2>2 DEF Drain
<1>8. CASE UNCHANGED vars
  BY <1>8 DEF vars
<1> QED
  BY <1>1, <1>2, <1>3, <1>4, <1>5, <1>6, <1>7, <1>8
     DEF Next, MergeStep, ConsumerStep

\* The initial state is well typed.
LEMMA TypeInit == Init => TypeOK
<1> SUFFICES ASSUME Init PROVE TypeOK
  OBVIOUS
<1>1. batch \in [Threads -> Batch]
  <2>1. <<>> \in Batch
    BY DEF Batch
  <2> QED
    BY <2>1 DEF Init
<1>2. order \in Seq(Handles) /\ taken \in Seq(Handles \X Nat)
  BY DEF Init
<1>3. latest \in [Handles -> Nat] /\ reported \in [Handles -> Nat] /\ clock \in Nat
  BY DEF Init
<1> QED
  BY <1>1, <1>2, <1>3
     DEF Init, TypeOK, CallbackStates, TeardownStates, ConsumerStates

\* The types are kept throughout.
THEOREM SubscriptionTypeCorrect == Spec => []TypeOK
BY TypeInit, TypeStep, PTL DEF Spec

-----------------------------------------------------------------------------
(* The inductive invariant *)

\* The mutex is what the callbacks take it for, and the teardown is what closes
\* the set.
LockDiscipline ==
    /\ \A t \in Threads : callback[t] = "merging" <=> mu = t
    /\ closed <=> teardown \in {"invalidated", "ended"}

Inv ==
    /\ TypeOK
    /\ LockDiscipline
    /\ OrderMatchesLatest
    /\ NothingUnannounced
    /\ DeadValuesNeverDrained

\* Merging one entry keeps the halves of the pending set in step.
LEMMA MergeKeepsAgreement ==
    ASSUME TypeOK, OrderMatchesLatest, NEW t \in Threads, MergeOne(t)
    PROVE  OrderMatchesLatest'
<1> DEFINE h == Head(batch[t])[1]
           v == Head(batch[t])[2]
<1>1. batch[t] \in Batch /\ batch[t] # <<>>
  BY DEF MergeOne, TypeOK
<1>2. h \in Handles /\ v \in Nat \ {0}
  BY <1>1 DEF Batch
<1>3. /\ order' = ordered(h)
      /\ latest' = [latest EXCEPT ![h] = v]
      /\ reported' = [reported EXCEPT ![h] = v]
  BY DEF MergeOne
<1>4. order \in Seq(Handles) /\ latest \in [Handles -> Nat]
      /\ reported \in [Handles -> Nat]
  BY DEF TypeOK
<1> HIDE DEF h, v
<1>5. \A k \in Handles : latest'[k] # 0 => latest'[k] = reported'[k]
  BY <1>2, <1>3, <1>4 DEF OrderMatchesLatest
<1>6. CASE latest[h] # 0
  <2>1. order' = order
    BY <1>3, <1>6 DEF ordered
  <2>2. h \in Listed(order)
    BY <1>2, <1>6 DEF OrderMatchesLatest
  <2>3. \A k \in Handles : latest'[k] # 0 <=> latest[k] # 0
    BY <1>2, <1>3, <1>4, <1>6
  <2> QED
    BY <1>5, <2>1, <2>3 DEF OrderMatchesLatest, Listed
<1>7. CASE latest[h] = 0
  <2>1. order' = Append(order, h)
    BY <1>3, <1>7 DEF ordered
  <2>2. h \notin Listed(order)
    BY <1>2, <1>7 DEF OrderMatchesLatest
  <2>3. /\ Len(order') = Len(order) + 1
        /\ DOMAIN order' = 1..(Len(order) + 1)
        /\ DOMAIN order = 1..Len(order)
        /\ Len(order) \in Nat
        /\ \A i \in 1..Len(order) : order'[i] = order[i]
        /\ order'[Len(order) + 1] = h
    BY <1>2, <1>4, <2>1
  <2>4. \A i \in 1..Len(order) : order[i] # h
    BY <2>2, <2>3 DEF Listed
  <2>5. \A i, j \in DOMAIN order' : order'[i] = order'[j] => i = j
    BY <2>3, <2>4 DEF OrderMatchesLatest
  <2>6. \A k \in Handles : k \in Listed(order') <=> (k = h \/ k \in Listed(order))
    <3>1. SUFFICES ASSUME NEW k \in Handles
                   PROVE  k \in Listed(order') <=> (k = h \/ k \in Listed(order))
      OBVIOUS
    <3>2. ASSUME k \in Listed(order') PROVE k = h \/ k \in Listed(order)
      <4>1. PICK i \in DOMAIN order' : k = order'[i]
        BY <3>2 DEF Listed
      <4>2. CASE i = Len(order) + 1
        BY <4>1, <4>2, <2>3
      <4>3. CASE i \in 1..Len(order)
        BY <4>1, <4>3, <2>3 DEF Listed
      <4> QED
        BY <4>2, <4>3, <2>3
    <3>3. ASSUME k = h PROVE k \in Listed(order')
      BY <3>3, <2>3 DEF Listed
    <3>4. ASSUME k \in Listed(order) PROVE k \in Listed(order')
      <4>1. PICK i \in 1..Len(order) : k = order[i]
        BY <3>4, <2>3 DEF Listed
      <4>2. i \in DOMAIN order' /\ k = order'[i]
        BY <4>1, <2>3
      <4> QED
        BY <4>2 DEF Listed
    <3> QED
      BY <3>2, <3>3, <3>4
  <2>7. \A k \in Handles : latest'[k] # 0 <=> (k = h \/ latest[k] # 0)
    BY <1>2, <1>3, <1>4
  <2>8. \A k \in Handles : latest'[k] # 0 <=> k \in Listed(order')
    BY <2>6, <2>7 DEF OrderMatchesLatest
  <2> QED
    BY <1>5, <2>5, <2>8 DEF OrderMatchesLatest
<1> QED
  BY <1>6, <1>7, <1>2, <1>4

\* An empty pending set has matching halves.
LEMMA EmptyAgrees ==
    ASSUME order' = <<>>, latest' = [h \in Handles |-> 0]
    PROVE  OrderMatchesLatest'
<1>1. DOMAIN order' = {}
  OBVIOUS
<1> QED
  BY <1>1 DEF OrderMatchesLatest, Listed

\* Every step keeps the invariant.
LEMMA InvStep == Inv /\ [Next]_vars => Inv'
<1> SUFFICES ASSUME Inv, [Next]_vars PROVE Inv'
  OBVIOUS
<1>0. TypeOK /\ TypeOK'
  BY TypeStep DEF Inv
<1> USE DEF Inv
<1>1. ASSUME NEW t \in Threads, OnDataChange(t) PROVE Inv'
  <2>1. LockDiscipline' /\ DeadValuesNeverDrained'
    BY <1>0, <1>1 DEF OnDataChange, TypeOK, LockDiscipline, DeadValuesNeverDrained
  <2>2. OrderMatchesLatest'
    BY <1>1 DEF OnDataChange, OrderMatchesLatest, Listed
  <2>3. NothingUnannounced'
    BY <1>0, <1>1 DEF OnDataChange, NothingUnannounced, TypeOK
  <2> QED
    BY <1>0, <2>1, <2>2, <2>3
<1>2. ASSUME NEW t \in Threads, MergeLocks(t) PROVE Inv'
  <2>1. LockDiscipline' /\ DeadValuesNeverDrained'
    BY <1>0, <1>2 DEF MergeLocks, TypeOK, LockDiscipline, DeadValuesNeverDrained
  <2>2. OrderMatchesLatest'
    BY <1>2 DEF MergeLocks, OrderMatchesLatest, Listed
  <2>3. NothingUnannounced'
    BY <1>0, <1>2 DEF MergeLocks, NothingUnannounced, TypeOK
  <2> QED
    BY <1>0, <2>1, <2>2, <2>3
<1>3. ASSUME NEW t \in Threads, MergeOne(t) PROVE Inv'
  <2>1. OrderMatchesLatest'
    BY <1>0, <1>3, MergeKeepsAgreement
  <2>2. mu = t /\ ~closed
    BY <1>3 DEF MergeOne, LockDiscipline, DeadValuesNeverDrained
  <2>3. LockDiscipline' /\ DeadValuesNeverDrained'
    BY <1>3, <2>2 DEF MergeOne, LockDiscipline, DeadValuesNeverDrained
  <2>4. NothingUnannounced'
    BY <1>3 DEF MergeOne, NothingUnannounced
  <2> QED
    BY <1>0, <2>1, <2>3, <2>4
<1>4. ASSUME NEW t \in Threads, MergeUnlocks(t) \/ MergeNotifies(t) PROVE Inv'
  <2>1. LockDiscipline' /\ DeadValuesNeverDrained'
    BY <1>0, <1>4
       DEF MergeUnlocks, MergeNotifies, TypeOK, LockDiscipline, DeadValuesNeverDrained
  <2>2. OrderMatchesLatest'
    BY <1>4 DEF MergeUnlocks, MergeNotifies, OrderMatchesLatest, Listed
  <2>3. NothingUnannounced'
    BY <1>0, <1>4 DEF MergeUnlocks, MergeNotifies, NothingUnannounced, TypeOK
  <2> QED
    BY <1>0, <2>1, <2>2, <2>3
<1>5. CASE ReleaseGroup \/ UnregisterCallback \/ CloseDone
  BY <1>0, <1>5 DEF ReleaseGroup, UnregisterCallback, CloseDone, LockDiscipline,
     OrderMatchesLatest, NothingUnannounced, DeadValuesNeverDrained, Listed
<1>6. CASE Invalidate
  <2>1. OrderMatchesLatest'
    BY <1>6, EmptyAgrees DEF Invalidate
  <2> QED
    BY <1>0, <1>6, <2>1 DEF Invalidate, LockDiscipline, NothingUnannounced,
       DeadValuesNeverDrained
<1>7. CASE CancelStream \/ SelectEnds \/ SelectUpdates \/ Send
  BY <1>0, <1>7 DEF CancelStream, SelectEnds, SelectUpdates, Send, LockDiscipline,
     OrderMatchesLatest, NothingUnannounced, DeadValuesNeverDrained, Listed
<1>8. CASE Drain
  <2>1. CASE order = <<>>
    BY <1>0, <1>8, <2>1 DEF Drain, LockDiscipline, OrderMatchesLatest,
       NothingUnannounced, DeadValuesNeverDrained, Listed
  <2>2. CASE order # <<>>
    <3>1. OrderMatchesLatest'
      BY <1>8, <2>2, EmptyAgrees DEF Drain
    <3> QED
      BY <1>0, <1>8, <2>2, <3>1 DEF Drain, LockDiscipline, NothingUnannounced,
         DeadValuesNeverDrained
  <2> QED
    BY <2>1, <2>2
<1>9. CASE UNCHANGED vars
  BY <1>0, <1>9 DEF vars, LockDiscipline, OrderMatchesLatest, NothingUnannounced,
     DeadValuesNeverDrained, Listed
<1> QED
  BY <1>1, <1>2, <1>3, <1>4, <1>5, <1>6, <1>7, <1>8, <1>9
     DEF Next, MergeStep, TeardownStep, ConsumerStep

\* The invariant holds throughout.
LEMMA InvAlways == Spec => []Inv
<1>1. Init => Inv
  <2> SUFFICES ASSUME Init PROVE Inv
    OBVIOUS
  <2>1. TypeOK
    BY TypeInit
  <2>2. DOMAIN order = {}
    BY DEF Init
  <2>3. OrderMatchesLatest
    BY <2>2 DEF Init, OrderMatchesLatest, Listed
  <2> QED
    BY <2>1, <2>3 DEF Init, Inv, LockDiscipline, NothingUnannounced,
       DeadValuesNeverDrained
<1> QED
  BY <1>1, InvStep, PTL DEF Spec

\* order and latest agree at every instant, for any number of items.
THEOREM HalvesAgree == Spec => []OrderMatchesLatest
BY InvAlways, PTL DEF Inv

\* A value is never left in the set without a signal, for any number of threads.
THEOREM AlwaysAnnounced == Spec => []NothingUnannounced
BY InvAlways, PTL DEF Inv

\* An invalidated set stays empty whatever callbacks are still running.
THEOREM DeadStaysDead == Spec => []DeadValuesNeverDrained
BY InvAlways, PTL DEF Inv

\* The pending set is coherent throughout, for any number of items and threads.
THEOREM CoherentAlways == Spec => []PendingCoherent
BY HalvesAgree, AlwaysAnnounced, DeadStaysDead, PTL DEF PendingCoherent

-----------------------------------------------------------------------------
(* Refinement *)

\* Merging one entry is a report.
LEMMA MergeReports ==
    ASSUME Inv, Inv', NEW t \in Threads, MergeOne(t)
    PROVE  Abstract!Report
<1> DEFINE h == Head(batch[t])[1]
           v == Head(batch[t])[2]
<1>1. batch[t] \in Batch /\ batch[t] # <<>>
  BY DEF MergeOne, TypeOK, Inv
<1>2. h \in Handles /\ v \in Nat \ {0}
  BY <1>1 DEF Batch
<1>3. /\ order' = ordered(h)
      /\ latest' = [latest EXCEPT ![h] = v]
      /\ reported' = [reported EXCEPT ![h] = v]
      /\ UNCHANGED <<taken, closed>>
  BY DEF MergeOne
<1>4. /\ order \in Seq(Handles) /\ order' \in Seq(Handles)
      /\ latest \in [Handles -> Nat]
      /\ reported \in [Handles -> Nat] /\ reported' \in [Handles -> Nat]
  BY DEF Inv, TypeOK
<1>5. ~closed
  BY DEF MergeOne, Inv, LockDiscipline, DeadValuesNeverDrained
<1> HIDE DEF h, v
<1>6. /\ Len(order') >= Len(order)
      /\ \A i \in 1..Len(order) : order'[i] = order[i]
  BY <1>2, <1>3, <1>4 DEF ordered
<1>7. \A i, j \in 1..Len(order') : order'[i] = order'[j] => i = j
  <2>1. DOMAIN order' = 1..Len(order')
    BY <1>4
  <2> QED
    BY <2>1 DEF Inv, OrderMatchesLatest
<1>8. latest'[h] # 0
  BY <1>2, <1>3, <1>4
<1>9. h \in Listed(order')
  BY <1>2, <1>8 DEF Inv, OrderMatchesLatest
<1>10. \A k \in Handles : reported'[k] # reported[k] => k \in Listed(order')
  BY <1>2, <1>3, <1>4, <1>9
<1> QED
  BY <1>3, <1>4, <1>5, <1>6, <1>7, <1>10 DEF Abstract!Report, Abstract!Listed, Listed

\* A drain that finds something is a delivery.
LEMMA DrainDelivers ==
    ASSUME Inv, Drain, order # <<>>
    PROVE  Abstract!Deliver
<1>1. /\ taken' = [i \in 1..Len(order) |-> <<order[i], latest[order[i]]>>]
      /\ order' = <<>>
      /\ UNCHANGED <<reported, closed>>
  BY DEF Drain
<1>2. \A i \in 1..Len(order) : latest[order[i]] = reported[order[i]]
  <2> SUFFICES ASSUME NEW i \in 1..Len(order)
               PROVE  latest[order[i]] = reported[order[i]]
    OBVIOUS
  <2>1. order \in Seq(Handles)
    BY DEF Inv, TypeOK
  <2>2. order[i] \in Handles /\ order[i] \in Listed(order)
    BY <2>1 DEF Listed
  <2> QED
    BY <2>2 DEF Inv, OrderMatchesLatest
<1>3. taken' = [i \in 1..Len(order) |-> <<order[i], reported[order[i]]>>]
  BY <1>1, <1>2
<1> QED
  BY <1>1, <1>3 DEF Abstract!Deliver

\* Every step of the subscription is a step of Coalescing or leaves it alone.
LEMMA StepRefines ==
    Inv /\ Inv' /\ [Next]_vars => [Abstract!Next]_(Abstract!coalescingVars)
<1> SUFFICES ASSUME Inv, Inv', [Next]_vars
             PROVE  Abstract!Next \/ UNCHANGED <<reported, order, taken, closed>>
  BY DEF Abstract!coalescingVars
<1>1. ASSUME NEW t \in Threads, MergeOne(t) PROVE Abstract!Next
  BY <1>1, MergeReports DEF Abstract!Next
<1>2. CASE Drain
  <2>1. CASE order = <<>>
    BY <1>2, <2>1 DEF Drain
  <2>2. CASE order # <<>>
    BY <1>2, <2>2, DrainDelivers DEF Abstract!Next
  <2> QED
    BY <2>1, <2>2
<1>3. CASE Invalidate
  <2>1. ~closed
    BY <1>3 DEF Invalidate, Inv, LockDiscipline
  <2> QED
    BY <1>3, <2>1 DEF Invalidate, Abstract!Next, Abstract!End
<1>4. ASSUME NEW t \in Threads,
             OnDataChange(t) \/ MergeLocks(t) \/ MergeUnlocks(t) \/ MergeNotifies(t)
      PROVE  UNCHANGED <<reported, order, taken, closed>>
  BY <1>4 DEF OnDataChange, MergeLocks, MergeUnlocks, MergeNotifies
<1>5. CASE ReleaseGroup \/ UnregisterCallback \/ CloseDone \/ CancelStream
             \/ SelectEnds \/ SelectUpdates \/ Send
  BY <1>5 DEF ReleaseGroup, UnregisterCallback, CloseDone, CancelStream, SelectEnds,
     SelectUpdates, Send
<1>6. CASE UNCHANGED vars
  BY <1>6 DEF vars
<1> QED
  BY <1>1, <1>2, <1>3, <1>4, <1>5, <1>6
     DEF Next, MergeStep, TeardownStep, ConsumerStep

\* The subscription implements Coalescing: what a consumer drains is every
\* unread item in first-seen order with its last value, for any number of
\* items, callback threads and reports.
THEOREM Refinement == Spec => ImplementsCoalescing
<1>1. Init => Abstract!Init
  BY DEF Init, Abstract!Init
<1> QED
  BY <1>1, InvAlways, StepRefines, PTL DEF Spec, Abstract!Spec, ImplementsCoalescing

-----------------------------------------------------------------------------
(* The callback object: it stays pinned and leads to a whole subscription  *)
(* whenever the server can call it, and a finished command leaves nothing  *)
(* behind, for any set of groups and any limits.                           *)

CallbackTypes ==
    /\ phase \in [Groups -> Phases]
    /\ pinned \subseteq Groups /\ registry \subseteq Groups /\ complete \subseteq Groups
    /\ calling \subseteq Groups /\ serverGroups \subseteq Groups
    /\ refs \in [Groups -> Nat]
    /\ held \in [Groups -> Nat]

\* The phases between the making of the group and the end of RemoveGroup, which
\* never comes for an orphan.
InServer == {"group", "items", "advising", "live", "unadvise", "removeGroup",
             "orphaned"}

\* The phases in which a subscription that was published is registered.
Registered == {"advising", "live", "unadvise", "removeGroup", "unregister"}

\* A subscription is complete from Publish on.
PublishedWhole(g) ==
    /\ phase[g] \in {"new", "group", "items", "orphaned"} => g \notin complete
    /\ phase[g] \in {"advising", "live", "unadvise"} => g \in complete

\* The count is the adapter's own reference and those of the server, and the
\* server has no way to the object before it is published.
CountBalances(g) ==
    /\ g \in complete => refs[g] = held[g] + 1
    /\ g \notin complete => held[g] = 0
    /\ g \in calling => held[g] > 0

\* A published object is unpinned only at the end, and not while it is held.
PinnedWhileHeld(g) ==
    g \in complete /\ (phase[g] # "gone" \/ held[g] > 0) => g \in pinned

\* The server and the registry hold what the phase says.
PhaseTells(g) ==
    /\ g \in serverGroups <=> phase[g] \in InServer
    /\ g \in registry <=> g \in complete /\ phase[g] \in Registered

CallbackInv ==
    /\ CallbackTypes
    /\ \A g \in Groups : /\ PublishedWhole(g) /\ CountBalances(g)
                         /\ PinnedWhileHeld(g) /\ PhaseTells(g)

\* The initial state of the registry and of every group satisfies the invariant.
LEMMA CallbackInvInit == CallbackInit => CallbackInv
BY DEF CallbackInit, CallbackInv, CallbackTypes, Phases, InServer, Registered,
       PublishedWhole, CountBalances, PinnedWhileHeld, PhaseTells

\* Every step of createSubscription preserves the invariant, also when one of
\* its calls fails and it leaves through releaseCOM.
LEMMA CreateKeepsInv ==
    ASSUME CallbackInv, NEW g \in Groups,
           AddGroup(g) \/ AddActiveItems(g) \/ Publish(g) \/ Advise(g)
    PROVE  CallbackInv'
<1> USE DEF CallbackInv, CallbackTypes, Phases, InServer, Registered, Go,
            PublishedWhole, CountBalances, PinnedWhileHeld, PhaseTells
<1>1. CASE AddGroup(g)
  BY <1>1 DEF AddGroup
<1>2. CASE AddActiveItems(g)
  BY <1>2 DEF AddActiveItems
<1>3. CASE Publish(g)
  BY <1>3 DEF Publish
<1>4. CASE Advise(g)
  BY <1>4 DEF Advise
<1> QED BY <1>1, <1>2, <1>3, <1>4

\* Every step of releaseCOM preserves the invariant: the registry entry goes
\* before the pin, and the pin only when the server holds nothing.
LEMMA ReleaseKeepsInv ==
    ASSUME CallbackInv, NEW g \in Groups,
           \/ Teardown(g) \/ Unadvise(g) \/ RemoveGroup(g) \/ Unregister(g) \/ Unpin(g)
    PROVE  CallbackInv'
<1> USE DEF CallbackInv, CallbackTypes, Phases, InServer, Registered, Go,
            PublishedWhole, CountBalances, PinnedWhileHeld, PhaseTells
<1>1. CASE Teardown(g)
  BY <1>1 DEF Teardown
<1>2. CASE Unadvise(g)
  BY <1>2 DEF Unadvise
<1>3. CASE RemoveGroup(g)
  BY <1>3 DEF RemoveGroup
<1>4. CASE Unregister(g)
  BY <1>4 DEF Unregister
<1>5. CASE Unpin(g)
  BY <1>5 DEF Unpin
<1> QED BY <1>1, <1>2, <1>3, <1>4, <1>5

\* Whatever the server does with the object preserves the invariant: references
\* it takes during Advise, keeps past Unadvise, and calls it makes through them.
LEMMA ServerKeepsInv ==
    ASSUME CallbackInv, NEW g \in Groups,
           AddRef(g) \/ Release(g) \/ CallsBack(g) \/ CallReturns(g)
    PROVE  CallbackInv'
<1> USE DEF CallbackInv, CallbackTypes, Phases, InServer, Registered,
            PublishedWhole, CountBalances, PinnedWhileHeld, PhaseTells
<1>1. CASE AddRef(g)
  BY <1>1, LifetimeAssumption DEF AddRef
<1>2. CASE Release(g)
  BY <1>2 DEF Release
<1>3. CASE CallsBack(g)
  BY <1>3 DEF CallsBack
<1>4. CASE CallReturns(g)
  BY <1>4 DEF CallReturns
<1> QED BY <1>1, <1>2, <1>3, <1>4

\* The invariant holds of createSubscription, releaseCOM and any server.
LEMMA CallbackInvAlways == CallbackSpec => []CallbackInv
<1>1. CallbackInv /\ [CallbackNext]_callbackVars => CallbackInv'
  <2> SUFFICES ASSUME CallbackInv, [CallbackNext]_callbackVars PROVE CallbackInv'
    OBVIOUS
  <2>1. CASE CallbackNext
    BY <2>1, CreateKeepsInv, ReleaseKeepsInv, ServerKeepsInv DEF CallbackNext
  <2>2. CASE UNCHANGED callbackVars
    BY <2>2 DEF callbackVars, CallbackInv, CallbackTypes, PublishedWhole,
                CountBalances, PinnedWhileHeld, PhaseTells
  <2> QED BY <2>1, <2>2
<1> QED BY <1>1, CallbackInvInit, PTL DEF CallbackSpec

\* Whenever the server can call the object (it holds a reference or a call is in
\* progress) the allocation is pinned and the subscription behind it complete,
\* whichever of Advise, Unadvise and the server's references comes last.
THEOREM ObjectSafeAlways == CallbackSpec => []CallbackObjectSafe
<1>1. CallbackInv => CallbackObjectSafe
  BY DEF CallbackInv, CallbackTypes, CallbackObjectSafe, ReachableIsPinned, CountBalances,
         CallbacksMeetWholeSubscriptions, PublishedWhole, PinnedWhileHeld, PhaseTells,
         Registered
<1> QED BY <1>1, CallbackInvAlways, PTL

\* Between commands the registry is that of the live subscriptions, and so are
\* the server's groups but for those that addSubscriptionGroup gave up because
\* they came without an interface: no other failure of createSubscription, at any
\* of its steps, and no teardown leaves a group or an entry.
THEOREM NothingLeftAlways == CallbackSpec => []NothingLeftBehind
<1>1. CallbackInv => NothingLeftBehind
  BY DEF CallbackInv, CallbackTypes, NothingLeftBehind, Idle, Live, Orphaned, PublishedWhole,
         PhaseTells, InServer, Registered
<1> QED BY <1>1, CallbackInvAlways, PTL

=============================================================================
