----------------------------- MODULE Coalescing -----------------------------
(***************************************************************************)
(* What a DA subscription promises its consumer, without threads, locks or *)
(* signals (the contract of the Subscription interface in                  *)
(* internal/opcda/subscribe.go): between two deliveries the consumer       *)
(* misses intermediate values of an item but never an item; a delivery     *)
(* hands over every item with an unread report, in first-seen order, each  *)
(* with the last value reported; nothing is delivered once it ended.       *)
(***************************************************************************)
EXTENDS Naturals, Sequences

CONSTANT Items

VARIABLES
    reported,    \* the last value reported of each item, 0 before the first
    unread,      \* the items reported since the last delivery, oldest first
    delivered,   \* the last delivery: item and value pairs
    ended

coalescingVars == <<reported, unread, delivered, ended>>

Listed(s) == {s[i] : i \in DOMAIN s}

Init ==
    /\ reported = [i \in Items |-> 0]
    /\ unread = <<>>
    /\ delivered = <<>>
    /\ ended = FALSE

\* A report changes some values. Every item it touches is unread afterwards,
\* items that already were keep their places, and nothing is listed twice.
Report ==
    /\ ~ended
    /\ reported' \in [Items -> Nat]
    /\ unread' \in Seq(Items)
    /\ Len(unread') >= Len(unread)
    /\ \A i \in 1..Len(unread) : unread'[i] = unread[i]
    /\ \A i, j \in 1..Len(unread') : unread'[i] = unread'[j] => i = j
    /\ \A item \in Items :
           reported'[item] # reported[item] => item \in Listed(unread')
    /\ UNCHANGED <<delivered, ended>>

Deliver ==
    /\ unread # <<>>
    /\ delivered' = [i \in 1..Len(unread) |-> <<unread[i], reported[unread[i]]>>]
    /\ unread' = <<>>
    /\ UNCHANGED <<reported, ended>>

End ==
    /\ ~ended
    /\ ended' = TRUE
    /\ unread' = <<>>
    /\ UNCHANGED <<reported, delivered>>

Next == Report \/ Deliver \/ End

Spec == Init /\ [][Next]_coalescingVars

=============================================================================
