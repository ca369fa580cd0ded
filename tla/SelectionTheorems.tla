------------------------- MODULE SelectionTheorems --------------------------
(***************************************************************************)
(* What the proofs of several components need beyond the library:          *)
(* induction and recursion over numbers, stated about sets and functions   *)
(* rather than about operators; and what Ordered and Selected return, for  *)
(* every finite set of numbers and every sequence.                         *)
(***************************************************************************)
EXTENDS Selections, Integers, FiniteSetTheorems, WellFoundedInduction, TLAPS

-----------------------------------------------------------------------------
(* Induction *)

\* A set of numbers that is not empty has a least member.
LEMMA Least ==
    ASSUME NEW S, S \subseteq Nat, S # {}
    PROVE  \E n \in S : \A m \in S : n <= m
<1> DEFINE R == OpToRel(<, Nat)
<1>1. IsWellFoundedOn(R, Nat)
    BY NatLessThanWellFounded
<1>2. \A x, y \in S : y < x => <<y, x>> \in R
    BY DEF OpToRel
<1> HIDE DEF R
<1>3. PICK x \in S : \A y \in S : ~ (<<y, x>> \in R)
    BY <1>1, WFMin
<1>4. \A y \in S : ~ (y < x)
    BY <1>2, <1>3
<1>5. \A y \in S : x <= y
    BY <1>4
<1> QED
    BY <1>5

\* What holds of a number, and of the next one whenever it holds of one, holds up
\* to any other: S is the set of numbers it holds of.
LEMMA Induction ==
    ASSUME NEW a \in Nat, NEW b \in Nat, NEW S, a \in S,
           \A n \in a .. b - 1 : n \in S => n + 1 \in S
    PROVE  a .. b \subseteq S
<1> DEFINE T == {n \in a .. b : n \notin S}
<1>1. T \subseteq Nat
    OBVIOUS
<1> SUFFICES ASSUME T # {} PROVE FALSE
    OBVIOUS
<1>2. PICK n \in T : \A m \in T : n <= m
    BY <1>1, Least
<1>3. n - 1 \in a .. b - 1 /\ n - 1 \notin T /\ n = (n - 1) + 1
    BY <1>1, <1>2
<1> QED
    BY <1>2, <1>3

-----------------------------------------------------------------------------
(* Recursion. A recursive function is whatever function satisfies its      *)
(* equation, so that there is one has to be shown before it can be used.   *)

\* f starts at b, and step gives each later value from the one before.
Iterates(f, N, b, step) ==
    f = [k \in 0 .. N |-> IF k = 0 THEN b ELSE step[<<k, f[k - 1]>>]]

\* A function can be defined by recursion over the numbers up to N.
LEMMA Recursion ==
    ASSUME NEW N \in Nat, NEW S, NEW b \in S, NEW step \in [(1 .. N) \X S -> S]
    PROVE  \E f \in [0 .. N -> S] : Iterates(f, N, b, step)
<1> DEFINE Upto(n) == \E f \in [0 .. n -> S] : Iterates(f, n, b, step)
           T == {n \in Nat : Upto(n)}
<1>1. 0 \in T
  <2> DEFINE g == [k \in 0 .. 0 |-> b]
  <2>1. g \in [0 .. 0 -> S] /\ Iterates(g, 0, b, step)
    BY DEF Iterates
  <2> HIDE DEF g
  <2>2. Upto(0)
    BY <2>1
  <2> QED
    BY <2>2
<1>2. ASSUME NEW n \in 0 .. N - 1, n \in T
      PROVE  n + 1 \in T
  <2>1. PICK f \in [0 .. n -> S] : Iterates(f, n, b, step)
    BY <1>2
  <2> DEFINE g == [k \in 0 .. n + 1 |-> IF k <= n THEN f[k] ELSE step[<<k, f[n]>>]]
  <2>2. g \in [0 .. n + 1 -> S]
    BY <2>1
  <2>3. ASSUME NEW k \in 0 .. n + 1
        PROVE  g[k] = IF k = 0 THEN b ELSE step[<<k, g[k - 1]>>]
    BY <2>1, <2>3 DEF Iterates
  <2>4. g = [k \in 0 .. n + 1 |-> g[k]]
    OBVIOUS
  <2> HIDE DEF g
  <2>5. Iterates(g, n + 1, b, step)
    BY <2>3, <2>4 DEF Iterates
  <2>6. Upto(n + 1)
    BY <2>2, <2>5
  <2> QED
    BY <2>6, n + 1 \in Nat
<1> HIDE DEF T
<1>3. 0 .. N \subseteq T
    BY <1>1, <1>2, Induction
<1>4. N \in T
    BY <1>3
<1> QED
    BY <1>4 DEF T

-----------------------------------------------------------------------------
(* Places and selections *)

\* The place of a member of a finite set of numbers is from one to its size.
LEMMA PlaceType ==
    ASSUME NEW P \in SUBSET Nat, IsFiniteSet(P), NEW p \in P
    PROVE  /\ Cardinality(P) \in Nat
           /\ Place(P, p) \in 1 .. Cardinality(P)
<1> DEFINE L == {x \in P : x <= p}
<1>1. L \in SUBSET P /\ p \in L /\ L # {}
    OBVIOUS
<1>2. IsFiniteSet(L) /\ Cardinality(L) <= Cardinality(P)
    BY <1>1, FS_Subset, Zenon
<1>3. Cardinality(L) \in Nat /\ Cardinality(P) \in Nat
    BY <1>2, FS_CardinalityType, Zenon
<1>4. Cardinality(L) # 0
    BY <1>1, <1>2, FS_EmptySet, Zenon
<1> QED
    BY <1>2, <1>3, <1>4 DEF Place

\* Later numbers have later places, no further apart than the numbers are.
LEMMA PlaceGap ==
    ASSUME NEW P \in SUBSET Nat, IsFiniteSet(P), NEW p \in P, NEW q \in P, p < q
    PROVE  /\ Place(P, p) < Place(P, q)
           /\ Place(P, q) - Place(P, p) <= q - p
<1> DEFINE L == {x \in P : x <= p}
           U == {x \in P : x <= q}
           M == {x \in P : p < x /\ x <= q}
           R == (p + 1) .. q
<1>0. \A x \in P : x \in Nat
    OBVIOUS
<1>1. L \in SUBSET P /\ U \in SUBSET P /\ M \in SUBSET P /\ M \in SUBSET R
    <2>1. L \in SUBSET P /\ U \in SUBSET P /\ M \in SUBSET P
        OBVIOUS
    <2>2. ASSUME NEW x \in M PROVE x \in R
        <3>1. x \in Nat /\ p \in Nat /\ q \in Nat /\ p < x /\ x <= q
            BY <1>0, <2>2
        <3> QED BY <3>1
    <2> QED BY <2>1, <2>2
<1>2. U = L \cup M /\ L \cap M = {} /\ q \in M
    <2>1. ASSUME NEW x \in P PROVE x \in U <=> x \in L \cup M
        <3>1. x \in Nat /\ p \in Nat /\ q \in Nat
            BY <1>0, <2>1
        <3> QED BY <3>1
    <2>2. ASSUME NEW x \in P PROVE ~(x \in L /\ x \in M)
        <3>1. x \in Nat /\ p \in Nat /\ q \in Nat
            BY <1>0, <2>2
        <3> QED BY <3>1
    <2>3. q \in M
        <3>1. p \in Nat /\ q \in Nat
            BY <1>0
        <3> QED BY <3>1
    <2> HIDE DEF U, L, M
    <2> QED BY <1>1, <2>1, <2>2, <2>3
<1>3. IsFiniteSet(L) /\ IsFiniteSet(U) /\ IsFiniteSet(M)
    BY <1>1, FS_Subset, Zenon
<1>4. Cardinality(L) \in Nat /\ Cardinality(U) \in Nat /\ Cardinality(M) \in Nat
    BY <1>3, FS_CardinalityType, Zenon
<1>5. Cardinality(L \cup M) = Cardinality(L) + Cardinality(M) - Cardinality(L \cap M)
    BY <1>3, FS_Union, Zenon
<1> HIDE DEF L, U, M
<1>6. Cardinality(L \cap M) = 0
    BY <1>2, FS_EmptySet, Zenon
<1>7. Cardinality(U) = Cardinality(L) + Cardinality(M)
    <2>1. Cardinality(U) = Cardinality(L) + Cardinality(M) - Cardinality(L \cap M)
        BY <1>2, <1>5
    <2> QED BY <2>1, <1>4, <1>6
<1>8. Cardinality(M) # 0
    BY <1>2, <1>3, FS_EmptySet, Zenon
<1>9. IsFiniteSet(R) /\ Cardinality(R) = q - p
    <2>1. p + 1 \in Int /\ q \in Int /\ ~(p + 1 > q) /\ q - (p + 1) + 1 = q - p
        OBVIOUS
    <2>2. IsFiniteSet(R) /\ Cardinality(R) = IF p + 1 > q THEN 0 ELSE q - (p + 1) + 1
        BY <2>1, FS_Interval, Zenon
    <2> QED BY <2>1, <2>2
<1>10. Cardinality(M) <= q - p
    BY <1>1, <1>9, FS_Subset, Zenon
<1> QED
    BY <1>4, <1>7, <1>8, <1>10 DEF Place, L, U

\* Every place is taken, by one number.
LEMMA EveryPlace ==
    ASSUME NEW P \in SUBSET Nat, IsFiniteSet(P), NEW k \in 1 .. Cardinality(P)
    PROVE  At(P, k) \in P /\ Place(P, At(P, k)) = k
<1> DEFINE n == Cardinality(P)
           f == [p \in P |-> Place(P, p)]
<1>1. n \in Nat /\ f \in [P -> 1 .. n]
    BY PlaceType, FS_CardinalityType
<1>2. ASSUME NEW p \in P, NEW q \in P, f[p] = f[q] PROVE p = q
    <2>1. f[p] \in Nat /\ Place(P, p) = Place(P, q)
        BY <1>1, <1>2
    <2>2. ~(p < q) /\ ~(q < p)
        BY <2>1, <1>1, PlaceGap
    <2> QED BY <2>2
<1>3. f \in Injection(P, 1 .. n)
    BY <1>1, <1>2 DEF Injection, IsInjective
<1>4. IsFiniteSet(1 .. n) /\ Cardinality(1 .. n) = n
    <2>1. 1 \in Int /\ n \in Int
        BY <1>1
    <2>2. IsFiniteSet(1 .. n) /\ Cardinality(1 .. n) = IF 1 > n THEN 0 ELSE n - 1 + 1
        BY <2>1, FS_Interval, Zenon
    <2> QED BY <2>2, <1>1
<1> HIDE DEF f
<1>5. f \in Surjection(P, 1 .. n)
    BY <1>3, <1>4, FS_Injection, Zenon
<1>6. PICK p \in P : f[p] = k
    BY <1>5 DEF Surjection
<1>7. Place(P, p) = k
    BY <1>6 DEF f
<1> QED
    BY <1>7, Zenon DEF At

\* A later place is a later number, at least as far as the places are apart.
LEMMA PlacesInOrder ==
    ASSUME NEW P \in SUBSET Nat, IsFiniteSet(P),
           NEW j \in 1 .. Cardinality(P), NEW k \in 1 .. Cardinality(P), j < k
    PROVE  At(P, k) - At(P, j) >= k - j
<1> DEFINE a == At(P, j)
           b == At(P, k)
<1>1. a \in P /\ b \in P /\ Place(P, a) = j /\ Place(P, b) = k
    BY EveryPlace, Zenon
<1> HIDE DEF a, b
<1>2. Cardinality(P) \in Nat
    BY FS_CardinalityType, Zenon
<1>3. ~(b < a) /\ a # b
    BY <1>1, <1>2, PlaceGap
<1>4. a < b
    BY <1>1, <1>3
<1>5. k - j <= b - a
    BY <1>1, <1>4, PlaceGap
<1> QED
    BY <1>5, <1>2, <1>1 DEF a, b

\* The positions of a sequence are a finite set of numbers.
LEMMA PositionsFinite ==
    ASSUME NEW T, NEW q \in Seq(T), NEW S
    PROVE  /\ Positions(q, S) \in SUBSET Nat
           /\ Positions(q, S) \subseteq 1 .. Len(q)
           /\ IsFiniteSet(Positions(q, S))
           /\ Cardinality(Positions(q, S)) \in Nat
           /\ Cardinality(Positions(q, S)) <= Len(q)
<1>1. Positions(q, S) \in SUBSET (1 .. Len(q)) /\ Len(q) \in Nat
    BY DEF Positions
<1>2. IsFiniteSet(1 .. Len(q)) /\ Cardinality(1 .. Len(q)) = Len(q)
    <2>1. 1 \in Int /\ Len(q) \in Int
        BY <1>1
    <2>2. IsFiniteSet(1 .. Len(q)) /\ Cardinality(1 .. Len(q)) =
              IF 1 > Len(q) THEN 0 ELSE Len(q) - 1 + 1
        BY <2>1, FS_Interval, Zenon
    <2> QED BY <2>2, <1>1
<1>3. /\ IsFiniteSet(Positions(q, S))
      /\ Cardinality(Positions(q, S)) <= Cardinality(1 .. Len(q))
    BY <1>1, <1>2, FS_Subset, Zenon
<1>4. Cardinality(Positions(q, S)) \in Nat
    BY <1>3, FS_CardinalityType, Zenon
<1> QED BY <1>1, <1>2, <1>3, <1>4

\* A selection is a sequence of members of the set, no longer than what it is
\* taken from; each entry comes from a position of its own, later ones from
\* later positions at least as far apart.
LEMMA SelectedFrom ==
    ASSUME NEW T, NEW q \in Seq(T), NEW S
    PROVE  /\ Selected(q, S) \in Seq(T)
           /\ Selected(q, S) \in Seq(T \cap S)
           /\ Len(Selected(q, S)) <= Len(q)
           /\ Len(Selected(q, S)) = Cardinality(Positions(q, S))
           /\ DOMAIN Selected(q, S) = 1 .. Len(Selected(q, S))
           /\ \A k \in DOMAIN Selected(q, S) :
                 /\ At(Positions(q, S), k) \in DOMAIN q
                 /\ Selected(q, S)[k] = q[At(Positions(q, S), k)]
                 /\ Selected(q, S)[k] \in S
           /\ \A j, k \in DOMAIN Selected(q, S) : j < k =>
                 At(Positions(q, S), k) - At(Positions(q, S), j) >= k - j
<1> DEFINE P == Positions(q, S)
           n == Cardinality(P)
<1>1. P \in SUBSET Nat /\ IsFiniteSet(P) /\ n \in Nat /\ n <= Len(q)
    BY PositionsFinite
<1>2. Selected(q, S) = [k \in 1 .. n |-> q[At(P, k)]]
    BY DEF Selected, Positions
<1>3. \A k \in 1 .. n : At(P, k) \in P
    BY <1>1, EveryPlace
<1>4. \A k \in 1 .. n : At(P, k) \in DOMAIN q /\ q[At(P, k)] \in S
    BY <1>3 DEF Positions
<1>5. \A k \in 1 .. n : q[At(P, k)] \in T \cap S
    BY <1>4
<1>6. \A j, k \in 1 .. n : j < k => At(P, k) - At(P, j) >= k - j
    BY <1>1, PlacesInOrder
<1> HIDE DEF P, n
<1>7. Selected(q, S) \in [1 .. n -> T \cap S]
    BY <1>2, <1>5
<1>8. Selected(q, S) \in Seq(T \cap S) /\ Len(Selected(q, S)) = n
    BY <1>7, <1>1
<1>9. Selected(q, S) \in Seq(T)
    BY <1>7, <1>1
<1>10. DOMAIN Selected(q, S) = 1 .. n
    BY <1>7
<1>11. \A k \in 1 .. n : Selected(q, S)[k] = q[At(P, k)]
    BY <1>2
<1> USE DEF P
<1>12. n = Cardinality(Positions(q, S))
    BY DEF n
<1> QED
    BY <1>1, <1>4, <1>6, <1>8, <1>9, <1>10, <1>11, <1>12

\* Every entry of the sequence that is in the set is selected.
LEMMA SelectedAll ==
    ASSUME NEW T, NEW q \in Seq(T), NEW S, NEW k \in DOMAIN q, q[k] \in S
    PROVE  \E j \in DOMAIN Selected(q, S) :
              At(Positions(q, S), j) = k /\ Selected(q, S)[j] = q[k]
<1> DEFINE P == Positions(q, S)
           j == Place(P, k)
<1>1. P \in SUBSET Nat /\ IsFiniteSet(P) /\ Cardinality(P) \in Nat
    BY PositionsFinite
<1>2. k \in P
    BY DEF Positions
<1>3. j \in 1 .. Cardinality(P)
    BY <1>1, <1>2, PlaceType, Zenon
<1>4. At(P, j) \in P /\ Place(P, At(P, j)) = j
    BY <1>1, <1>3, EveryPlace, Zenon
<1>5. At(P, j) = k
    <2> DEFINE a == At(P, j)
    <2>1. a \in P /\ Place(P, a) = Place(P, k) /\ Place(P, k) \in Nat
        BY <1>3, <1>4
    <2> HIDE DEF a
    <2>2. ~(a < k) /\ ~(k < a)
        BY <2>1, <1>1, <1>2, PlaceGap
    <2>3. a = k
        BY <2>1, <2>2, <1>1, <1>2
    <2> QED BY <2>3 DEF a
<1>6. DOMAIN Selected(q, S) = 1 .. Cardinality(P)
    <2>1. /\ DOMAIN Selected(q, S) = 1 .. Len(Selected(q, S))
          /\ Len(Selected(q, S)) = Cardinality(P)
        BY SelectedFrom, Zenon
    <2> QED BY <2>1, Zenon
<1>7. \A i \in DOMAIN Selected(q, S) : /\ At(P, i) \in DOMAIN q
                                       /\ Selected(q, S)[i] = q[At(P, i)]
                                       /\ Selected(q, S)[i] \in S
    BY SelectedFrom, Zenon
<1> HIDE DEF P, j
<1>8. j \in DOMAIN Selected(q, S) /\ Selected(q, S)[j] = q[k]
    BY <1>3, <1>5, <1>6, <1>7
<1> QED BY <1>5, <1>8, Zenon DEF P

\* What is in a selection: what is in the sequence and in the set.
LEMMA SelectedListed ==
    ASSUME NEW T, NEW q \in Seq(T), NEW S
    PROVE  Listed(Selected(q, S)) = Listed(q) \cap S
<1>1. ASSUME NEW x \in Listed(Selected(q, S)) PROVE x \in Listed(q) \cap S
    <2>1. \A k \in DOMAIN Selected(q, S) :
              /\ At(Positions(q, S), k) \in DOMAIN q
              /\ Selected(q, S)[k] = q[At(Positions(q, S), k)]
              /\ Selected(q, S)[k] \in S
        BY SelectedFrom, Zenon
    <2> QED BY <2>1, Zenon DEF Listed
<1>2. ASSUME NEW x \in Listed(q) \cap S PROVE x \in Listed(Selected(q, S))
    <2>1. PICK k \in DOMAIN q : q[k] = x
        BY DEF Listed
    <2>2. PICK j \in DOMAIN Selected(q, S) : Selected(q, S)[j] = q[k]
        BY <2>1, SelectedAll, Zenon
    <2> QED BY <2>1, <2>2, Zenon DEF Listed
<1> QED BY <1>1, <1>2

\* No entry of the sequence occurs twice.
Once(q) == \A j, k \in DOMAIN q : q[j] = q[k] => j = k

\* A selection from a sequence without repetitions has none.
LEMMA SelectedOnce ==
    ASSUME NEW T, NEW q \in Seq(T), NEW S, Once(q)
    PROVE  Once(Selected(q, S))
<1> SUFFICES ASSUME NEW j \in DOMAIN Selected(q, S), NEW k \in DOMAIN Selected(q, S),
                    Selected(q, S)[j] = Selected(q, S)[k]
             PROVE  j = k
    BY DEF Once
<1> DEFINE a == At(Positions(q, S), j)
           b == At(Positions(q, S), k)
<1>0. \A i \in DOMAIN Selected(q, S) : /\ At(Positions(q, S), i) \in DOMAIN q
                                       /\ Selected(q, S)[i] = q[At(Positions(q, S), i)]
                                       /\ Selected(q, S)[i] \in S
    BY SelectedFrom, Zenon
<1>1. a \in DOMAIN q /\ b \in DOMAIN q /\ q[a] = q[b]
    BY <1>0, Zenon
<1>2. a = b
    BY <1>1, Zenon DEF Once
<1>3. /\ j < k => b - a >= k - j
      /\ k < j => a - b >= j - k
    BY SelectedFrom, Zenon
<1>4. /\ DOMAIN Selected(q, S) = 1 .. Len(Selected(q, S))
      /\ Selected(q, S) \in Seq(T)
    BY SelectedFrom, Zenon
<1>5. j \in Nat /\ k \in Nat /\ a \in Nat
    <2>1. Len(Selected(q, S)) \in Nat /\ DOMAIN q = 1 .. Len(q) /\ Len(q) \in Nat
        BY <1>4
    <2> HIDE DEF a
    <2> QED BY <1>1, <1>4, <2>1
<1> HIDE DEF a, b
<1> QED BY <1>2, <1>3, <1>5

\* The numbers of a finite set in their order: each of them, and once.
LEMMA OrderedIs ==
    ASSUME NEW P \in SUBSET Nat, IsFiniteSet(P)
    PROVE  /\ Ordered(P) \in Seq(P) /\ Ordered(P) \in Seq(Nat)
           /\ Len(Ordered(P)) = Cardinality(P) /\ Cardinality(P) \in Nat
           /\ DOMAIN Ordered(P) = 1 .. Cardinality(P)
           /\ Listed(Ordered(P)) = P
           /\ \A j, k \in DOMAIN Ordered(P) : j < k => Ordered(P)[j] < Ordered(P)[k]
<1> DEFINE n == Cardinality(P)
           q == Ordered(P)
<1>1. n \in Nat
    BY FS_CardinalityType, Zenon
<1>2. q = [k \in 1 .. n |-> At(P, k)] /\ \A k \in 1 .. n : At(P, k) \in P
    BY EveryPlace, Zenon DEF Ordered
<1>3. \A k \in 1 .. n : q[k] = At(P, k) /\ q[k] \in P /\ q[k] \in Nat
    BY <1>2
<1>4. DOMAIN q = 1 .. n
    BY <1>2
<1>5. ASSUME NEW p \in P PROVE \E k \in 1 .. n : q[k] = p
    <2> DEFINE k == Place(P, p)
    <2>1. k \in 1 .. n
        BY PlaceType, Zenon
    <2>2. At(P, k) \in P /\ Place(P, At(P, k)) = k
        BY <2>1, EveryPlace, Zenon
    <2>3. At(P, k) = p
        <3> DEFINE a == At(P, k)
        <3>1. a \in P /\ Place(P, a) = Place(P, p)
            BY <2>2
        <3> HIDE DEF a, k
        <3>2. Place(P, a) \in Nat /\ Place(P, p) \in Nat
            BY <3>1, <1>1, PlaceType
        <3>3. ~(a < p) /\ ~(p < a)
            BY <3>1, <3>2, PlaceGap
        <3>4. a \in Nat /\ p \in Nat
            BY <3>1
        <3>5. a = p
            BY <3>3, <3>4
        <3> QED BY <3>5 DEF a, k
    <2> QED BY <2>1, <2>3, <1>3
<1>6. ASSUME NEW j \in 1 .. n, NEW k \in 1 .. n, j < k PROVE q[j] < q[k]
    <2>1. At(P, k) - At(P, j) >= k - j
        BY <1>6, PlacesInOrder, Zenon
    <2>2. At(P, k) \in Nat /\ At(P, j) \in Nat
        BY <1>2
    <2>3. At(P, j) < At(P, k)
        BY <2>1, <2>2, <1>6
    <2> QED BY <2>3, <1>3
<1> HIDE DEF n
<1>7. q \in Seq(P) /\ q \in Seq(Nat) /\ Len(q) = n
    <2> DEFINE f == [k \in 1 .. n |-> At(P, k)]
    <2>1. \A k \in 1 .. n : At(P, k) \in P /\ At(P, k) \in Nat
        BY <1>2
    <2>2. f \in Seq(P) /\ f \in Seq(Nat) /\ Len(f) = n
        BY <2>1, <1>1
    <2> HIDE DEF f, q
    <2>3. q = f
        BY <1>2 DEF f
    <2> QED BY <2>2, <2>3
<1>8. Listed(q) = P
    <2>1. \A x \in Listed(q) : x \in P
        BY <1>3, <1>4, Zenon DEF Listed
    <2>2. \A x \in P : x \in Listed(q)
        BY <1>5, <1>4, Zenon DEF Listed
    <2> QED BY <2>1, <2>2, Zenon
<1> QED BY <1>1, <1>4, <1>6, <1>7, <1>8, Zenon DEF n

=============================================================================
