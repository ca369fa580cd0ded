-------------------------- MODULE MCUASubscription --------------------------
(* Small instances of UASubscription for TLC: one item, or two over the     *)
(* same DA item.                                                            *)
EXTENDS UASubscription

CONSTANTS u1, i1, i2, d1, p1

OneSubscription == {u1}
FirstOnly == {i1}
TwoItems == {i1, i2}
OneDAItem == {d1}
OnePublish == {p1}

AllOnFirst == [i \in Items |-> u1]
Same == [i \in Items |-> d1]
OwnHandles == [i \in Items |-> i]
Once == [n \in DAItems |-> 1]
Twice == [n \in DAItems |-> 2]
NoneOfThem == {}
Equal == [s \in Subscriptions |-> 0]
=============================================================================
