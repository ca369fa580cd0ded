----------------------------- MODULE Selections -----------------------------
(***************************************************************************)
(* Loops that pass over a list and keep some of its entries, in the order  *)
(* they have: what SelectSeq and SetToSortSeq give, in a form that can be  *)
(* reasoned about without induction over the sequence.                     *)
(***************************************************************************)
EXTENDS Naturals, Sequences, FiniteSets

\* The place of a number among a set of numbers, and the one with a place.
Place(P, p) == Cardinality({x \in P : x <= p})
At(P, k) == CHOOSE p \in P : Place(P, p) = k

\* The numbers of a finite set in their order.
Ordered(P) == [k \in 1 .. Cardinality(P) |-> At(P, k)]

\* The positions of a sequence whose entries are in a set, and those entries in
\* their order.
Positions(q, S) == {k \in DOMAIN q : q[k] \in S}
Selected(q, S) ==
    LET P == Positions(q, S)
    IN  [k \in 1 .. Cardinality(P) |-> q[At(P, k)]]

\* What a sequence lists.
Listed(q) == {q[k] : k \in DOMAIN q}
=============================================================================
