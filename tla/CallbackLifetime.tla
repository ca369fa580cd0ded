-------------------------- MODULE CallbackLifetime --------------------------
(***************************************************************************)
(* The COM object the adapter hands to the DA server for each subscription *)
(* (internal/opcda/subscribe_windows.go): its reference count, the pinned  *)
(* allocation behind it, the callback registry, and createSubscription and *)
(* releaseCOM that build and dismantle a group on the DA thread.           *)
(*                                                                         *)
(* The server is external. It may call the object only while it holds a    *)
(* reference, may keep a reference past Unadvise for as long as it likes,  *)
(* and may call back before Advise has returned.                           *)
(***************************************************************************)
EXTENDS Naturals, FiniteSets

CONSTANTS
    Groups,            \* the subscriptions of one process, each created once
    MaxSubscriptions,  \* Limits.MaxSubscriptions
    MaxRefs            \* bound: references the server holds on one object

ASSUME LifetimeAssumption ==
    /\ IsFiniteSet(Groups)
    /\ MaxSubscriptions \in Nat \ {0}
    /\ MaxRefs \in Nat \ {0}

VARIABLES
    phase,        \* where createSubscription or releaseCOM stands, per group
    pinned,       \* callback objects whose allocation is pinned
    registry,     \* callbackRegistry
    complete,     \* subscriptions whose registrations and pending set exist
    refs,         \* dataCallbackObject.refs
    held,         \* references the server holds (external)
    calling,      \* groups with an OnDataChange in progress (external)
    serverGroups  \* groups the server made and was not yet told to remove

callbackVars == <<phase, pinned, registry, complete, refs, held, calling, serverGroups>>

Phases == {"new", "group", "items", "advising", "live",
           "unadvise", "removeGroup", "unregister", "unpin", "gone", "orphaned"}

CallbackInit ==
    /\ phase = [g \in Groups |-> "new"]
    /\ pinned = {}
    /\ registry = {}
    /\ complete = {}
    /\ refs = [g \in Groups |-> 0]
    /\ held = [g \in Groups |-> 0]
    /\ calling = {}
    /\ serverGroups = {}

\* The DA thread works on one group at a time.
Idle == \A g \in Groups : phase[g] \in {"new", "live", "gone", "orphaned"}

Live == {g \in Groups : phase[g] = "live"}

\* The groups addSubscriptionGroup gave up after the server had made them.
Orphaned == {g \in Groups : phase[g] = "orphaned"}

Go(g, p) == phase' = [phase EXCEPT ![g] = p]

-----------------------------------------------------------------------------
(* createSubscription *)

\* IOPCServer::AddGroup makes the group, refuses, or makes it and hands out no
\* IOPCItemMgt: then the error drops the group's handle, and the group stays.
AddGroup(g) ==
    /\ Idle
    /\ phase[g] = "new"
    /\ Cardinality(Live) < MaxSubscriptions
    /\ \/ Go(g, "group") /\ serverGroups' = serverGroups \cup {g}
       \/ Go(g, "orphaned") /\ serverGroups' = serverGroups \cup {g}
       \/ Go(g, "gone") /\ UNCHANGED serverGroups
    /\ UNCHANGED <<pinned, registry, complete, refs, held, calling>>

\* Mutation: the group is left in the server when its items are refused.
AddActiveItemsReturns(g) ==
    /\ phase[g] = "group"
    /\ Go(g, "items") \/ Go(g, "gone")
    /\ UNCHANGED <<pinned, registry, complete, refs, held, calling, serverGroups>>

\* A failed AddItems goes through releaseCOM, with nothing advised.
AddActiveItems(g) ==
    /\ phase[g] = "group"
    /\ Go(g, "items") \/ Go(g, "removeGroup")
    /\ UNCHANGED <<pinned, registry, complete, refs, held, calling, serverGroups>>

\* The subscription is filled in, its callback object pinned and registered:
\* all before Advise.
Publish(g) ==
    /\ phase[g] = "items"
    /\ complete' = complete \cup {g}
    /\ refs' = [refs EXCEPT ![g] = 1]
    /\ pinned' = pinned \cup {g}
    /\ registry' = registry \cup {g}
    /\ Go(g, "advising")
    /\ UNCHANGED <<held, calling, serverGroups>>

\* IConnectionPoint::Advise returns; a server that accepts keeps a reference.
Advise(g) ==
    /\ phase[g] = "advising"
    /\ \/ held[g] > 0 /\ Go(g, "live")
       \/ Go(g, "removeGroup")
    /\ UNCHANGED <<pinned, registry, complete, refs, held, calling, serverGroups>>

-----------------------------------------------------------------------------
(* releaseCOM; the results of Unadvise and RemoveGroup are ignored *)

Teardown(g) ==
    /\ Idle
    /\ phase[g] = "live"
    /\ Go(g, "unadvise")
    /\ UNCHANGED <<pinned, registry, complete, refs, held, calling, serverGroups>>

Unadvise(g) ==
    /\ phase[g] = "unadvise"
    /\ Go(g, "removeGroup")
    /\ UNCHANGED <<pinned, registry, complete, refs, held, calling, serverGroups>>

RemoveGroup(g) ==
    /\ phase[g] = "removeGroup"
    /\ serverGroups' = serverGroups \ {g}
    /\ Go(g, "unregister")
    /\ UNCHANGED <<pinned, registry, complete, refs, held, calling>>

Unregister(g) ==
    /\ phase[g] = "unregister"
    /\ registry' = registry \ {g}
    /\ Go(g, "unpin")
    /\ UNCHANGED <<pinned, complete, refs, held, calling, serverGroups>>

\* Mutation: the allocation is unpinned whatever the server still holds.
UnpinAlways(g) ==
    /\ phase[g] = "unpin"
    /\ pinned' = pinned \ {g}
    /\ Go(g, "gone")
    /\ UNCHANGED <<registry, complete, refs, held, calling, serverGroups>>

\* Unpinned only when no reference but the adapter's own is left.
Unpin(g) ==
    /\ phase[g] = "unpin"
    /\ pinned' = IF refs[g] <= 1 THEN pinned \ {g} ELSE pinned
    /\ Go(g, "gone")
    /\ UNCHANGED <<registry, complete, refs, held, calling, serverGroups>>

-----------------------------------------------------------------------------
(* The server's calls on the object *)

\* AddRef, or QueryInterface: during Advise or through a reference it has.
AddRef(g) ==
    /\ phase[g] = "advising" \/ held[g] > 0
    /\ held[g] < MaxRefs
    /\ held' = [held EXCEPT ![g] = @ + 1]
    /\ refs' = [refs EXCEPT ![g] = @ + 1]
    /\ UNCHANGED <<phase, pinned, registry, complete, calling, serverGroups>>

\* Release: the count stops at zero. A call in progress keeps one reference.
Release(g) ==
    /\ held[g] > (IF g \in calling THEN 1 ELSE 0)
    /\ held' = [held EXCEPT ![g] = @ - 1]
    /\ refs' = [refs EXCEPT ![g] = IF @ < 1 THEN 0 ELSE @ - 1]
    /\ UNCHANGED <<phase, pinned, registry, complete, calling, serverGroups>>

CallsBack(g) ==
    /\ held[g] > 0
    /\ g \notin calling
    /\ calling' = calling \cup {g}
    /\ UNCHANGED <<phase, pinned, registry, complete, refs, held, serverGroups>>

CallReturns(g) ==
    /\ g \in calling
    /\ calling' = calling \ {g}
    /\ UNCHANGED <<phase, pinned, registry, complete, refs, held, serverGroups>>

-----------------------------------------------------------------------------

CallbackNext == \E g \in Groups :
    \/ AddGroup(g) \/ AddActiveItems(g) \/ Publish(g) \/ Advise(g)
    \/ Teardown(g) \/ Unadvise(g) \/ RemoveGroup(g) \/ Unregister(g) \/ Unpin(g)
    \/ AddRef(g) \/ Release(g) \/ CallsBack(g) \/ CallReturns(g)

CallbackSpec == CallbackInit /\ [][CallbackNext]_callbackVars

-----------------------------------------------------------------------------
(* Properties *)

\* "Unpinning is safe only once the server can no longer reach the object":
\* while the server holds a reference, or is inside a callback, the allocation
\* is pinned, also when the reference outlives Unadvise or Advise failed.
ReachableIsPinned ==
    \A g \in Groups : held[g] > 0 \/ g \in calling => g \in pinned

\* A callback, even one made while Advise is still running, never meets a
\* half-built subscription: what the registry resolves is complete and what it
\* is resolved through is pinned.
CallbacksMeetWholeSubscriptions ==
    /\ \A g \in registry : g \in complete /\ g \in pinned
    /\ \A g \in calling : g \in complete

\* Whenever the server can call, the object is there and what it leads to is
\* whole (newSubscriptionCallback, createSubscription, releaseCallback).
CallbackObjectSafe == ReachableIsPinned /\ CallbacksMeetWholeSubscriptions

\* A failure of createSubscription once addSubscriptionGroup has returned a group,
\* and the end of a subscription, leave nothing: whenever the DA thread is between
\* commands, the entries of the registry are those of the live subscriptions, and
\* the groups of the server are theirs and those a server made without handing out
\* their IOPCItemMgt, which addSubscriptionGroup leaves behind.
NothingLeftBehind ==
    Idle => serverGroups = Live \cup Orphaned /\ registry = Live

=============================================================================
