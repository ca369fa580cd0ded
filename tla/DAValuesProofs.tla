--------------------------- MODULE DAValuesProofs ---------------------------
(***************************************************************************)
(* Proofs about the values on their way through the adapter, for integers  *)
(* of any width, any limits, and arrays of any shape.                      *)
(***************************************************************************)
EXTENDS DAValues, SelectionTheorems, FiniteSetTheorems, FunctionTheorems, TLAPS

-----------------------------------------------------------------------------
(* Arithmetic *)

\* A remainder of what is less than the modulus.
LEMMA SmallRemainder ==
    ASSUME NEW x \in Nat, NEW m \in Nat, x < m
    PROVE  x % m = x
OBVIOUS

LEMMA ProductBound ==
    ASSUME NEW x \in Nat, NEW y \in Nat, NEW a \in Nat, NEW b \in Nat, x <= a, y <= b
    PROVE  x * y \in Nat /\ x * y <= a * b
<1>1. x * y \in Nat /\ a * b \in Nat /\ x * b \in Nat
    OBVIOUS
<1>2. x * y <= x * b
    OBVIOUS
<1>3. x * b <= a * b
    OBVIOUS
<1> QED
    BY <1>1, <1>2, <1>3

\* A product of positive numbers is no less than either.
LEMMA ProductGrows ==
    ASSUME NEW x \in Nat, NEW y \in Nat, y # 0
    PROVE  x * y \in Nat /\ x <= x * y /\ (x # 0 => x * y # 0)
OBVIOUS

\* int32 arithmetic on what fits.
LEMMA NotWrapped ==
    ASSUME NEW x \in -Halves[4] .. (Halves[4] - 1)
    PROVE  Wrapped32(x) = x
<1>1. Halves[4] \in Nat \ {0}
    BY ValuesAssumption DEF Widths
<1>2. x + Halves[4] \in Nat /\ Modulus(4) \in Nat /\ x + Halves[4] < Modulus(4)
    BY <1>1 DEF Modulus
<1>3. (x + Halves[4]) % Modulus(4) = x + Halves[4]
    BY <1>2, SmallRemainder
<1> QED
    BY <1>1, <1>3 DEF Wrapped32

-----------------------------------------------------------------------------
(* The product of the lengths *)

\* Dimensions with lengths a uint32 holds.
Measured(d) ==
    /\ Len(d) \in Nat
    /\ \A p \in 1 .. Len(d) : d[p].length \in 0 .. (Modulus(4) - 1)

LEMMA Moduli ==
    /\ Modulus(4) \in Nat /\ Modulus(8) \in Nat /\ Modulus(8) > 0
    /\ Modulus(4) * Modulus(4) <= Modulus(8)
    /\ MaxArrayElements \in 1 .. (Modulus(4) - 1)
BY ValuesAssumption DEF Modulus, Widths

LEMMA DescribedIs ==
    ASSUME NEW d, Measured(d)
    PROVE  /\ Described(d) \in [0 .. Len(d) -> Nat]
           /\ Described(d)[0] = 1
           /\ \A k \in 1 .. Len(d) : Described(d)[k] = Described(d)[k - 1] * d[k].length
<1> DEFINE N == Len(d)
           step == [x \in (1 .. N) \X Nat |-> x[2] * d[x[1]].length]
<1>1. step \in [(1 .. N) \X Nat -> Nat]
    BY Moduli DEF Measured
<1>2. N \in Nat /\ 1 \in Nat
    BY DEF Measured
<1> HIDE DEF N, step
<1>3. PICK f \in [0 .. N -> Nat] : Iterates(f, N, 1, step)
    BY <1>1, <1>2, Recursion
<1>4. ASSUME NEW k \in 0 .. N, k # 0
      PROVE  step[<<k, f[k - 1]>>] = f[k - 1] * d[k].length
  <2>1. k \in 1 .. N /\ f[k - 1] \in Nat
    BY <1>2, <1>3, <1>4
  <2> QED
    BY <2>1 DEF step
<1>5. f = [k \in 0 .. N |-> IF k = 0 THEN 1 ELSE f[k - 1] * d[k].length]
    BY <1>3, <1>4 DEF Iterates
<1> DEFINE g == Described(d)
<1>6. g = [k \in 0 .. N |-> IF k = 0 THEN 1 ELSE g[k - 1] * d[k].length]
    BY <1>5 DEF Described, N
<1> HIDE DEF g
<1>7. g[0] = 1 /\ \A k \in 1 .. N : g[k] = g[k - 1] * d[k].length
    BY <1>2, <1>6
<1>8. \A k \in 1 .. N : d[k].length \in Nat
    BY Moduli DEF Measured, N
<1> DEFINE T == {k \in 0 .. N : g[k] \in Nat}
<1>9. 0 \in T /\ \A k \in 0 .. N - 1 : k \in T => k + 1 \in T
    BY <1>2, <1>7, <1>8
<1> HIDE DEF T
<1>10. 0 .. N \subseteq T
    BY <1>2, <1>9, Induction
<1> QED
    BY <1>2, <1>6, <1>7, <1>10 DEF T, g, N

\* The loop of ElementCount and MatchesItsShape satisfies its equation.
LEMMA CountedIs ==
    ASSUME NEW d, Measured(d), NEW maximum \in Nat
    PROVE  /\ Counted(d, maximum)[0] = 1
           /\ \A k \in 1 .. Len(d) :
                 LET m == (Counted(d, maximum)[k - 1] * d[k].length) % Modulus(8)
                 IN  Counted(d, maximum)[k] = IF m > maximum THEN 0 ELSE m
<1> DEFINE N == Len(d)
           Next(x) == LET m == (x[2] * d[x[1]].length) % Modulus(8)
                      IN  IF m > maximum THEN 0 ELSE m
           step == [x \in (1 .. N) \X Nat |-> Next(x)]
<1>1. step \in [(1 .. N) \X Nat -> Nat]
  <2> SUFFICES ASSUME NEW x \in (1 .. N) \X Nat
               PROVE  Next(x) \in Nat
    OBVIOUS
  <2>1. x[2] * d[x[1]].length \in Nat
    BY Moduli DEF Measured
  <2> QED
    BY <2>1, Moduli
<1>2. N \in Nat /\ 1 \in Nat
    BY DEF Measured
<1> HIDE DEF N, step
<1>3. PICK f \in [0 .. N -> Nat] : Iterates(f, N, 1, step)
    BY <1>1, <1>2, Recursion
<1>4. ASSUME NEW k \in 0 .. N, k # 0
      PROVE  step[<<k, f[k - 1]>>] = Next(<<k, f[k - 1]>>)
  <2>1. k \in 1 .. N /\ f[k - 1] \in Nat
    BY <1>2, <1>3, <1>4
  <2> HIDE DEF Next
  <2> QED
    BY <2>1 DEF step
<1>5. f = [k \in 0 .. N |->
              IF k = 0 THEN 1
              ELSE LET m == (f[k - 1] * d[k].length) % Modulus(8)
                   IN  IF m > maximum THEN 0 ELSE m]
    BY <1>3, <1>4 DEF Iterates
<1> DEFINE g == Counted(d, maximum)
<1>6. g = [k \in 0 .. N |->
              IF k = 0 THEN 1
              ELSE LET m == (g[k - 1] * d[k].length) % Modulus(8)
                   IN  IF m > maximum THEN 0 ELSE m]
    BY <1>5 DEF Counted, N
<1> HIDE DEF g
<1>7. g[0] = 1
    BY <1>2, <1>6
<1>8. ASSUME NEW k \in 1 .. N
      PROVE  LET m == (g[k - 1] * d[k].length) % Modulus(8)
             IN  g[k] = IF m > maximum THEN 0 ELSE m
  <2>1. k \in 0 .. N /\ k # 0
    BY <1>2
  <2> QED
    BY <1>6, <2>1, Zenon
<1> QED
    BY <1>7, <1>8 DEF g, N

\* Once a product is nothing it stays nothing.
LEMMA EmptyStays ==
    ASSUME NEW d, Measured(d), NEW k \in 0 .. Len(d), Described(d)[k] = 0
    PROVE  Described(d)[Len(d)] = 0
<1> DEFINE T == {j \in 0 .. Len(d) : Described(d)[j] = 0}
<1>1. ASSUME NEW j \in k .. Len(d) - 1, j \in T
      PROVE  j + 1 \in T
  <2>1. j + 1 \in 1 .. Len(d) /\ (j + 1) - 1 = j
    BY DEF Measured
  <2>2. d[j + 1].length \in Nat
    BY <2>1, Moduli DEF Measured
  <2> QED
    BY <1>1, <2>1, <2>2, DescribedIs
<1>2. k \in T /\ k \in Nat /\ Len(d) \in Nat
    BY DEF Measured
<1> HIDE DEF T
<1>3. k .. Len(d) \subseteq T
    BY <1>1, <1>2, Induction
<1> QED
    BY <1>2, <1>3 DEF T

\* Counting in uint64 and giving up in time gives the product of the lengths
\* whenever it is within the bound, and nothing else.
LEMMA CountedExact ==
    ASSUME NEW d, Measured(d), NEW maximum \in 1 .. Modulus(4)
    PROVE  \A k \in 0 .. Len(d) :
              Counted(d, maximum)[k] =
                 IF Described(d)[k] \in 1 .. maximum THEN Described(d)[k] ELSE 0
<1> DEFINE g == Counted(d, maximum)
           f == Described(d)
           T == {k \in 0 .. Len(d) : g[k] = IF f[k] \in 1 .. maximum THEN f[k] ELSE 0}
<1>1. maximum \in Nat /\ Len(d) \in Nat /\ Modulus(4) \in Nat /\ Modulus(8) \in Nat
    BY Moduli DEF Measured
<1>2. /\ f \in [0 .. Len(d) -> Nat] /\ f[0] = 1 /\ g[0] = 1
      /\ \A k \in 1 .. Len(d) : f[k] = f[k - 1] * d[k].length
    BY <1>1, DescribedIs, CountedIs
<1> HIDE DEF f
<1>3. 0 \in T
    BY <1>1, <1>2
<1>4. ASSUME NEW k \in 0 .. Len(d) - 1, k \in T
      PROVE  k + 1 \in T
  <2> DEFINE l == d[k + 1].length
             m == (g[k] * l) % Modulus(8)
  <2>1. k + 1 \in 1 .. Len(d) /\ (k + 1) - 1 = k
    BY <1>1
  <2>2. l \in 0 .. (Modulus(4) - 1) /\ l \in Nat
    BY <1>1, <2>1 DEF Measured
  <2>3. g[k + 1] = IF m > maximum THEN 0 ELSE m
    BY <1>1, <2>1, CountedIs
  <2>4. f[k + 1] = f[k] * l /\ f[k] \in Nat
    BY <1>1, <1>2, <2>1
  <2>5. g[k] = IF f[k] \in 1 .. maximum THEN f[k] ELSE 0
    BY <1>4
  <2> HIDE DEF g, l
  <2>6. CASE f[k] \in 1 .. maximum
    <3>1. f[k] * l \in Nat /\ f[k] * l <= maximum * l /\ maximum * l \in Nat
      BY <1>1, <2>2, <2>6, ProductBound
    <3>2. l = 0 \/ f[k] * l < Modulus(8)
      <4>1. CASE l = 0
        BY <4>1
      <4>2. CASE l # 0
        <5>1. maximum * l <= maximum * (Modulus(4) - 1)
          <6>1. Modulus(4) - 1 \in Nat /\ l <= Modulus(4) - 1 /\ maximum <= maximum
            BY <1>1, <2>2
          <6> QED
            BY <1>1, <2>2, <6>1, ProductBound
        <5>3. maximum * (Modulus(4) - 1) = maximum * Modulus(4) - maximum
          BY <1>1
        <5>2. maximum * Modulus(4) <= Modulus(4) * Modulus(4)
          BY <1>1, ProductBound
        <5> QED
          BY <1>1, <3>1, <5>1, <5>2, <5>3, Moduli
      <4> QED
        BY <4>1, <4>2
    <3>3. m = f[k] * l
      <4>1. f[k] * l < Modulus(8)
        BY <1>1, <2>4, <3>2, Moduli
      <4> QED
        BY <1>1, <2>5, <2>6, <3>1, <4>1, SmallRemainder
    <3> QED
      BY <1>1, <2>1, <2>3, <2>4, <3>1, <3>3
  <2>7. CASE f[k] \notin 1 .. maximum
    <3>1. m = 0
      <4>1. g[k] * l = 0
        BY <2>2, <2>5, <2>7
      <4> QED
        BY <4>1, Moduli
    <3>2. f[k + 1] \notin 1 .. maximum
      <4>1. f[k] = 0 \/ f[k] > maximum
        BY <1>1, <2>4, <2>7
      <4>2. l = 0 \/ f[k] <= f[k] * l
        BY <2>2, <2>4, ProductGrows
      <4>3. l = 0 => f[k] * l = 0
        BY <2>4
      <4>4. f[k] = 0 => f[k] * l = 0
        BY <2>2
      <4> QED
        BY <1>1, <2>2, <2>4, <4>1, <4>2, <4>3, <4>4
    <3> QED
      BY <1>1, <2>1, <2>3, <3>1, <3>2
  <2> QED
    BY <2>6, <2>7
<1> HIDE DEF T
<1>5. 0 .. Len(d) \subseteq T
    BY <1>1, <1>3, <1>4, Induction
<1> QED
    BY <1>5 DEF T, f

-----------------------------------------------------------------------------
(* The walk over the elements *)

Upper(d, p) == d[p].lower + d[p].length - 1

\* Dimensions whose indices int32 holds, the one past the last included.
Walkable(d) ==
    /\ Measured(d) /\ DOMAIN d = 1 .. Len(d)
    /\ \A p \in DOMAIN d : /\ d[p].lower \in -Halves[4] .. (Halves[4] - 1)
                           /\ d[p].length # 0
                           /\ Upper(d, p) < Halves[4] - 1

\* The index vectors of an array.
Box(d) == {v \in [DOMAIN d -> Int] : \A p \in DOMAIN d : v[p] \in d[p].lower .. Upper(d, p)}

LEMMA WalkableIs ==
    ASSUME NEW d, Walkable(d), NEW p \in DOMAIN d
    PROVE  /\ Halves[4] \in Nat /\ d[p].lower \in Int /\ d[p].length \in Nat
           /\ d[p].lower \in -Halves[4] .. (Halves[4] - 1) /\ d[p].length # 0
           /\ Upper(d, p) < Halves[4] - 1 /\ Upper(d, p) \in Int
<1>1. Halves[4] \in Nat
    BY ValuesAssumption DEF Widths
<1>2. d[p].length \in Nat
  <2>1. p \in 1 .. Len(d)
    BY DEF Walkable
  <2>2. d[p].length \in 0 .. (Modulus(4) - 1)
    BY <2>1 DEF Walkable, Measured
  <2> QED
    BY <2>2, Moduli
<1>3. d[p].lower \in -Halves[4] .. (Halves[4] - 1) /\ d[p].length # 0
      /\ Upper(d, p) < Halves[4] - 1
    BY DEF Walkable
<1>4. d[p].lower \in Int
    BY <1>1, <1>3
<1> QED
    BY <1>1, <1>2, <1>3, <1>4 DEF Upper

LEMMA BoxIs ==
    ASSUME NEW d, Walkable(d), NEW v \in Box(d), NEW p \in DOMAIN d
    PROVE  /\ v[p] \in Int /\ v[p] \in d[p].lower .. Upper(d, p)
           /\ d[p].lower <= v[p] /\ v[p] <= Upper(d, p)
BY WalkableIs DEF Box

\* The last position that can still go up is where the carry stops.
CanRise(v, d) == {p \in DOMAIN d : v[p] < Upper(d, p)}

\* The greatest of some numbers.
LEMMA Greatest ==
    ASSUME NEW n \in Nat, NEW S, S \subseteq 1 .. n, S # {}
    PROVE  \E p \in S : \A q \in S : q <= p
<1> DEFINE T == {n - p : p \in S}
<1>1. T \subseteq Nat /\ T # {}
  <2>1. \A p \in S : n - p \in Nat
    OBVIOUS
  <2> QED
    BY <2>1
<1>2. PICK t \in T : \A u \in T : t <= u
    BY <1>1, Least
<1>3. PICK p \in S : t = n - p
    BY <1>2
<1>4. ASSUME NEW q \in S
      PROVE  q <= p
  <2>1. n - q \in T
    OBVIOUS
  <2>2. p \in Nat /\ q \in Nat
    OBVIOUS
  <2> QED
    BY <1>2, <1>3, <2>1, <2>2
<1> QED
    BY <1>4

\* In int32 arithmetic, advanceArrayIndices raises the last position that can
\* rise, leaves those before it and starts those behind it again.
LEMMA AdvanceIs ==
    ASSUME NEW d, Walkable(d), NEW v \in Box(d)
    PROVE  /\ Advance(v, d) \in Box(d)
           /\ CanRise(v, d) # {} =>
                 \E at \in CanRise(v, d) :
                    /\ \A p \in DOMAIN d : p > at => v[p] = Upper(d, p)
                    /\ \A p \in DOMAIN d :
                          Advance(v, d)[p] = IF p < at THEN v[p]
                                             ELSE IF p = at THEN v[p] + 1
                                             ELSE d[p].lower
<1> DEFINE upper(p) == Wrapped32(Wrapped32(d[p].lower + d[p].length) - 1)
           next(p) == Wrapped32(v[p] + 1)
           stays == {p \in DOMAIN d : next(p) <= upper(p)}
           at == IF stays = {} THEN 0 ELSE CHOOSE p \in stays : \A q \in stays : q <= p
<1>1. ASSUME NEW p \in DOMAIN d
      PROVE  /\ upper(p) = Upper(d, p) /\ next(p) = v[p] + 1
             /\ v[p] \in Int /\ d[p].lower \in Int /\ Upper(d, p) \in Int
             /\ d[p].lower <= v[p] /\ v[p] <= Upper(d, p)
  <2>1. /\ Halves[4] \in Nat /\ d[p].lower \in Int /\ d[p].length \in Nat
        /\ d[p].lower \in -Halves[4] .. (Halves[4] - 1) /\ d[p].length # 0
        /\ Upper(d, p) < Halves[4] - 1 /\ v[p] \in d[p].lower .. Upper(d, p)
        /\ v[p] \in Int
    BY WalkableIs, BoxIs
  <2>2. /\ d[p].lower + d[p].length \in -Halves[4] .. (Halves[4] - 1)
        /\ d[p].lower + d[p].length - 1 \in -Halves[4] .. (Halves[4] - 1)
        /\ v[p] + 1 \in -Halves[4] .. (Halves[4] - 1)
    BY <2>1 DEF Upper
  <2>3. upper(p) = Upper(d, p)
    <3> DEFINE x == d[p].lower + d[p].length
    <3>1. upper(p) = Wrapped32(Wrapped32(x) - 1)
      OBVIOUS
    <3>2. Upper(d, p) = x - 1
      BY <2>1 DEF Upper
    <3>3. /\ x \in -Halves[4] .. (Halves[4] - 1)
          /\ x - 1 \in -Halves[4] .. (Halves[4] - 1)
      BY <2>1, <2>2
    <3> HIDE DEF x, upper
    <3>4. Wrapped32(x) = x /\ Wrapped32(x - 1) = x - 1
      BY <3>3, NotWrapped
    <3> QED
      BY <3>1, <3>2, <3>4
  <2>4. next(p) = v[p] + 1
    BY <2>2, NotWrapped
  <2> QED
    BY <2>1, <2>3, <2>4 DEF Upper
<1>2. stays = CanRise(v, d)
  <2>1. \A p \in DOMAIN d : next(p) <= upper(p) <=> v[p] < Upper(d, p)
    BY <1>1
  <2> HIDE DEF next, upper
  <2> QED
    BY <2>1 DEF CanRise
<1>3. ASSUME NEW p \in DOMAIN d
      PROVE  Advance(v, d)[p] = IF p < at THEN v[p] ELSE IF p = at THEN next(p) ELSE d[p].lower
  <2>1. Advance(v, d) = [q \in DOMAIN d |-> CASE q < at -> v[q]
                                              [] q = at -> next(q)
                                              [] OTHER -> d[q].lower]
    BY Zenon DEF Advance
  <2>2. p \in Nat
    BY DEF Walkable, Measured
  <2> HIDE DEF at, next
  <2>3. p < at => p # at
    BY <2>2
  <2> QED
    BY <2>1, <2>3
<1>4. DOMAIN Advance(v, d) = DOMAIN d
    BY DEF Advance
<1>5. stays \subseteq 1 .. Len(d) /\ Len(d) \in Nat
    BY DEF Walkable, Measured
<1>6. stays # {} => at \in stays /\ \A q \in stays : q <= at
    BY <1>5, Greatest
<1>7. Advance(v, d) = [p \in DOMAIN d |-> Advance(v, d)[p]]
    BY DEF Advance
<1> HIDE DEF stays, at, next, upper
<1>8. Advance(v, d) \in Box(d)
  <2>1. ASSUME NEW p \in DOMAIN d
        PROVE  Advance(v, d)[p] \in d[p].lower .. Upper(d, p)
    <3>1. p = at => p \in stays \/ stays = {}
      BY <1>6
    <3>2. CASE p = at
      <4>1. stays # {}
        BY <3>2, <1>5 DEF at, Walkable
      <4> QED
        BY <1>1, <1>2, <1>3, <3>1, <3>2, <4>1 DEF CanRise
    <3>3. CASE p # at
      BY <1>1, <1>3, <3>3
    <3> QED
      BY <3>2, <3>3
  <2>2. \A p \in DOMAIN d : Advance(v, d)[p] \in Int
    BY <1>1, <2>1
  <2> QED
    BY <1>7, <2>1, <2>2 DEF Box
<1>9. ASSUME stays # {}
      PROVE  \A p \in DOMAIN d : p > at => v[p] = Upper(d, p)
  <2> SUFFICES ASSUME NEW p \in DOMAIN d, p > at
               PROVE  v[p] = Upper(d, p)
    OBVIOUS
  <2>1. p \in 1 .. Len(d) /\ at \in 1 .. Len(d)
    BY <1>5, <1>6, <1>9 DEF Walkable
  <2>2. p \notin stays
    BY <1>5, <1>6, <1>9, <2>1
  <2>3. ~ (v[p] < Upper(d, p))
    BY <1>2, <2>2 DEF CanRise
  <2> QED
    BY <1>1, <2>3
<1> QED
    BY <1>1, <1>2, <1>3, <1>6, <1>8, <1>9

\* The number of an index vector among those of its array: what the first k
\* indices, counted from their lower bounds, are as digits.
Rank(d, v) ==
    LET n[k \in 0 .. Len(d)] ==
            IF k = 0 THEN 0 ELSE n[k - 1] * d[k].length + (v[k] - d[k].lower)
    IN  n

LEMMA RankIs ==
    ASSUME NEW d, Walkable(d), NEW v \in Box(d)
    PROVE  /\ Rank(d, v) \in [0 .. Len(d) -> Nat]
           /\ Rank(d, v)[0] = 0
           /\ \A k \in 1 .. Len(d) :
                 Rank(d, v)[k] = Rank(d, v)[k - 1] * d[k].length + (v[k] - d[k].lower)
<1> DEFINE N == Len(d)
           digit == [k \in 1 .. N |-> v[k] - d[k].lower]
           step == [x \in (1 .. N) \X Nat |-> x[2] * d[x[1]].length + digit[x[1]]]
<1>1. ASSUME NEW k \in 1 .. N
      PROVE  digit[k] \in Nat /\ d[k].length \in Nat /\ digit[k] = v[k] - d[k].lower
  <2>1. k \in DOMAIN d
    BY DEF Walkable
  <2>2. /\ v[k] \in d[k].lower .. Upper(d, k) /\ v[k] \in Int
        /\ d[k].lower \in Int /\ d[k].length \in Nat
    BY <2>1, WalkableIs, BoxIs
  <2> QED
    BY <2>2 DEF Upper
<1>2. N \in Nat /\ 0 \in Nat
    BY DEF Walkable, Measured
<1> HIDE DEF N, digit
<1>3. step \in [(1 .. N) \X Nat -> Nat]
    BY <1>1
<1> HIDE DEF step
<1>4. PICK f \in [0 .. N -> Nat] : Iterates(f, N, 0, step)
    BY <1>2, <1>3, Recursion
<1>5. ASSUME NEW k \in 0 .. N, k # 0
      PROVE  step[<<k, f[k - 1]>>] = f[k - 1] * d[k].length + (v[k] - d[k].lower)
  <2>1. k \in 1 .. N /\ f[k - 1] \in Nat
    BY <1>2, <1>4, <1>5
  <2> QED
    BY <1>1, <2>1 DEF step
<1>6. f = [k \in 0 .. N |->
              IF k = 0 THEN 0 ELSE f[k - 1] * d[k].length + (v[k] - d[k].lower)]
    BY <1>4, <1>5 DEF Iterates
<1> DEFINE g == Rank(d, v)
<1>7. g = [k \in 0 .. N |->
              IF k = 0 THEN 0 ELSE g[k - 1] * d[k].length + (v[k] - d[k].lower)]
    BY <1>6 DEF Rank, N
<1> HIDE DEF g
<1>8. g[0] = 0 /\ \A k \in 1 .. N : g[k] = g[k - 1] * d[k].length + (v[k] - d[k].lower)
    BY <1>2, <1>7
<1> DEFINE T == {k \in 0 .. N : g[k] \in Nat}
<1>9. 0 \in T
    BY <1>2, <1>8
<1>10. ASSUME NEW k \in 0 .. N - 1, k \in T
       PROVE  k + 1 \in T
  <2>1. k + 1 \in 1 .. N /\ k + 1 \in 0 .. N /\ (k + 1) - 1 = k /\ g[k] \in Nat
    BY <1>2, <1>10
  <2>2. g[k + 1] = g[k] * d[k + 1].length + digit[k + 1]
    BY <1>1, <1>8, <2>1
  <2>3. d[k + 1].length \in Nat /\ digit[k + 1] \in Nat
    BY <1>1, <2>1
  <2>4. g[k] * d[k + 1].length \in Nat
    BY <2>1, <2>3
  <2> QED
    BY <2>1, <2>2, <2>3, <2>4
<1> HIDE DEF T
<1>11. 0 .. N \subseteq T
    BY <1>2, <1>9, <1>10, Induction
<1> QED
    BY <1>2, <1>7, <1>8, <1>11 DEF T, g, N

\* The first vector has number 0.
LEMMA RankFirst ==
    ASSUME NEW d, Walkable(d)
    PROVE  LET v == [p \in DOMAIN d |-> d[p].lower]
           IN  v \in Box(d) /\ Rank(d, v)[Len(d)] = 0
<1> DEFINE v == [p \in DOMAIN d |-> d[p].lower]
           g == Rank(d, v)
           N == Len(d)
<1>1. \A p \in DOMAIN d : d[p].lower \in Int /\ d[p].length \in Nat \ {0}
    BY WalkableIs
<1>2. \A p \in DOMAIN d : d[p].lower \in d[p].lower .. Upper(d, p)
    BY <1>1 DEF Upper
<1>3. v \in Box(d)
    BY <1>1, <1>2 DEF Box
<1>4. N \in Nat /\ DOMAIN d = 1 .. N
    BY DEF Walkable, Measured
<1>5. \A k \in 1 .. N : v[k] = d[k].lower
    BY <1>4
<1> HIDE DEF v
<1>6. g[0] = 0 /\ \A k \in 1 .. N : g[k] = g[k - 1] * d[k].length + (v[k] - d[k].lower)
    BY <1>3, RankIs
<1> HIDE DEF g, N
<1> DEFINE T == {k \in 0 .. N : g[k] = 0}
<1>7. 0 \in T
    BY <1>4, <1>6
<1>8. ASSUME NEW k \in 0 .. N - 1, k \in T
      PROVE  k + 1 \in T
  <2>1. k + 1 \in 1 .. N /\ k + 1 \in 0 .. N /\ (k + 1) - 1 = k /\ g[k] = 0
    BY <1>4, <1>8
  <2>2. g[k + 1] = g[k] * d[k + 1].length + (v[k + 1] - d[k + 1].lower)
    BY <1>6, <2>1
  <2>3. d[k + 1].length \in Nat /\ d[k + 1].lower \in Int /\ v[k + 1] = d[k + 1].lower
    BY <1>1, <1>4, <1>5, <2>1
  <2> QED
    BY <2>1, <2>2, <2>3
<1> HIDE DEF T
<1>9. 0 .. N \subseteq T
    BY <1>4, <1>7, <1>8, Induction
<1>10. g[N] = 0
    BY <1>4, <1>9 DEF T
<1> QED
    BY <1>3, <1>10 DEF g, N, v

\* The vector that can rise nowhere has the last number.
LEMMA RankLast ==
    ASSUME NEW d, Walkable(d), NEW v \in Box(d), CanRise(v, d) = {}
    PROVE  Rank(d, v)[Len(d)] = Described(d)[Len(d)] - 1
<1> DEFINE N == Len(d)
           g == Rank(d, v)
           f == Described(d)
<1>1. N \in Nat /\ DOMAIN d = 1 .. N
    BY DEF Walkable, Measured
<1>2. ASSUME NEW k \in 1 .. N
      PROVE  /\ d[k].length \in Nat /\ v[k] - d[k].lower = d[k].length - 1
  <2>1. k \in DOMAIN d
    BY <1>1
  <2>2. /\ v[k] \in d[k].lower .. Upper(d, k) /\ v[k] \in Int
        /\ d[k].lower \in Int /\ d[k].length \in Nat
    BY <2>1, WalkableIs, BoxIs
  <2>3. ~ (v[k] < Upper(d, k))
    BY <2>1 DEF CanRise
  <2> QED
    BY <2>2, <2>3 DEF Upper
<1>3. /\ g[0] = 0
      /\ \A k \in 1 .. N : g[k] = g[k - 1] * d[k].length + (v[k] - d[k].lower)
      /\ g \in [0 .. N -> Nat]
    BY RankIs
<1>4. /\ f[0] = 1
      /\ \A k \in 1 .. N : f[k] = f[k - 1] * d[k].length
      /\ f \in [0 .. N -> Nat]
    BY DescribedIs DEF Walkable
<1> HIDE DEF g, f, N
<1> DEFINE T == {k \in 0 .. N : g[k] = f[k] - 1}
<1>5. 0 \in T
    BY <1>1, <1>3, <1>4
<1>6. ASSUME NEW k \in 0 .. N - 1, k \in T
      PROVE  k + 1 \in T
  <2>1. /\ k + 1 \in 1 .. N /\ k + 1 \in 0 .. N /\ (k + 1) - 1 = k
        /\ g[k] = f[k] - 1 /\ f[k] \in Nat
    BY <1>1, <1>4, <1>6
  <2> DEFINE l == d[k + 1].length
  <2>2. l \in Nat /\ v[k + 1] - d[k + 1].lower = l - 1
    BY <1>2, <2>1
  <2>3. g[k + 1] = g[k] * l + (l - 1)
    BY <1>3, <2>1, <2>2
  <2>4. f[k + 1] = f[k] * l
    BY <1>4, <2>1
  <2> HIDE DEF l
  <2>5. (f[k] - 1) * l + (l - 1) = f[k] * l - 1
    BY <2>1, <2>2
  <2> QED
    BY <2>1, <2>3, <2>4, <2>5
<1> HIDE DEF T
<1>7. 0 .. N \subseteq T
    BY <1>1, <1>5, <1>6, Induction
<1>8. g[N] = f[N] - 1
    BY <1>1, <1>7 DEF T
<1> QED
    BY <1>8 DEF g, f, N

\* u comes before v in the order in which the last index runs fastest.
Before(u, v) == \E p \in DOMAIN u : u[p] < v[p] /\ \A q \in 1 .. (p - 1) : u[q] = v[q]

\* A vector that can rise is followed by the one with the next number.
LEMMA RankRises ==
    ASSUME NEW d, Walkable(d), NEW v \in Box(d), CanRise(v, d) # {}
    PROVE  /\ Rank(d, Advance(v, d))[Len(d)] = Rank(d, v)[Len(d)] + 1
           /\ Before(v, Advance(v, d))
<1> DEFINE N == Len(d)
           w == Advance(v, d)
           g == Rank(d, v)
           h == Rank(d, w)
<1>1. N \in Nat /\ DOMAIN d = 1 .. N
    BY DEF Walkable, Measured
<1>2. PICK at \in CanRise(v, d) :
         /\ \A p \in DOMAIN d : p > at => v[p] = Upper(d, p)
         /\ \A p \in DOMAIN d : w[p] = IF p < at THEN v[p]
                                        ELSE IF p = at THEN v[p] + 1
                                        ELSE d[p].lower
    BY AdvanceIs
<1>3. at \in 1 .. N /\ w \in Box(d) /\ DOMAIN v = 1 .. N
    BY <1>1, AdvanceIs DEF CanRise, Box
<1> HIDE DEF w
<1>4. ASSUME NEW k \in 1 .. N
      PROVE  /\ d[k].length \in Nat /\ d[k].lower \in Int /\ v[k] \in Int /\ w[k] \in Int
             /\ k > at => v[k] - d[k].lower = d[k].length - 1
             /\ w[k] = IF k < at THEN v[k] ELSE IF k = at THEN v[k] + 1 ELSE d[k].lower
  <2>1. k \in DOMAIN d
    BY <1>1
  <2>2. /\ v[k] \in Int /\ w[k] \in Int /\ d[k].lower \in Int /\ d[k].length \in Nat
    <3>1. v[k] \in Int /\ w[k] \in Int
      BY <1>3, <2>1 DEF Box
    <3>2. d[k].lower \in Int /\ d[k].length \in Nat
      BY <2>1, WalkableIs
    <3> QED
      BY <3>1, <3>2
  <2>3. k > at => v[k] - d[k].lower = d[k].length - 1
    BY <1>2, <2>1, <2>2 DEF Upper
  <2> QED
    BY <1>2, <2>1, <2>2, <2>3
<1>5. /\ g[0] = 0
      /\ \A k \in 1 .. N : g[k] = g[k - 1] * d[k].length + (v[k] - d[k].lower)
      /\ g \in [0 .. N -> Nat]
    BY RankIs
<1>6. /\ h[0] = 0
      /\ \A k \in 1 .. N : h[k] = h[k - 1] * d[k].length + (w[k] - d[k].lower)
      /\ h \in [0 .. N -> Nat]
    BY <1>3, RankIs
<1>7. Before(v, w)
  <2>1. v[at] < w[at]
    BY <1>3, <1>4
  <2>2. \A q \in 1 .. (at - 1) : v[q] = w[q]
    BY <1>3, <1>4
  <2> QED
    BY <1>3, <2>1, <2>2 DEF Before
<1> HIDE DEF g, h, N
<1> DEFINE T == {k \in 0 .. N : h[k] = IF k < at THEN g[k] ELSE g[k] + 1}
<1>8. 0 \in T
    BY <1>1, <1>3, <1>5, <1>6
<1>9. ASSUME NEW k \in 0 .. N - 1, k \in T
      PROVE  k + 1 \in T
  <2> DEFINE l == d[k + 1].length
             a == v[k + 1] - d[k + 1].lower
             b == w[k + 1] - d[k + 1].lower
  <2>1. /\ k + 1 \in 1 .. N /\ k + 1 \in 0 .. N /\ (k + 1) - 1 = k
        /\ g[k] \in Nat /\ h[k] \in Nat /\ at \in Nat
    BY <1>1, <1>3, <1>5, <1>6, <1>9
  <2>2. h[k] = IF k < at THEN g[k] ELSE g[k] + 1
    BY <1>9
  <2>3. l \in Nat /\ a \in Int /\ b \in Int
    BY <1>4, <2>1
  <2>4. /\ g[k + 1] = g[k] * l + a
        /\ h[k + 1] = h[k] * l + b
    BY <1>5, <1>6, <2>1
  <2>5. /\ k + 1 < at => a = b
        /\ k + 1 = at => b = a + 1
        /\ k + 1 > at => a = l - 1 /\ b = 0
    BY <1>4, <2>1
  <2> HIDE DEF l, a, b
  <2>6. CASE k + 1 < at
    BY <2>1, <2>2, <2>3, <2>4, <2>5, <2>6
  <2>7. CASE k + 1 = at
    BY <2>1, <2>2, <2>3, <2>4, <2>5, <2>7
  <2>8. CASE k + 1 > at
    <3>1. h[k] = g[k] + 1
      BY <2>1, <2>2, <2>8
    <3>2. h[k + 1] = (g[k] + 1) * l + 0 /\ g[k + 1] = g[k] * l + (l - 1)
      BY <2>4, <2>5, <2>8, <3>1
    <3>3. (g[k] + 1) * l = g[k] * l + l /\ g[k] * l \in Nat
      BY <2>1, <2>3
    <3> QED
      BY <2>1, <2>3, <2>8, <3>2, <3>3
  <2> QED
    BY <2>1, <2>6, <2>7, <2>8
<1> HIDE DEF T
<1>10. 0 .. N \subseteq T
    BY <1>1, <1>8, <1>9, Induction
<1>11. h[N] = g[N] + 1
    BY <1>1, <1>3, <1>10 DEF T
<1> QED
    BY <1>7, <1>11 DEF g, h, w, N

\* The walk: it starts at the first vector and advances.
LEMMA WalkIs ==
    ASSUME NEW d, Walkable(d)
    PROVE  \E walk \in [0 .. MaxArrayElements -> Box(d)] :
              /\ walk[0] = [p \in DOMAIN d |-> d[p].lower]
              /\ \A k \in 1 .. MaxArrayElements : walk[k] = Advance(walk[k - 1], d)
              /\ Walk(d) = [k \in 1 .. ElementCount(d, MaxArrayElements) |-> walk[k - 1]]
<1> DEFINE M == MaxArrayElements
           first == [p \in DOMAIN d |-> d[p].lower]
           step == [x \in (1 .. M) \X Box(d) |-> Advance(x[2], d)]
<1>1. M \in Nat
    BY Moduli
<1>2. first \in Box(d)
    BY RankFirst
<1>3. step \in [(1 .. M) \X Box(d) -> Box(d)]
    BY AdvanceIs
<1> HIDE DEF M, first, step
<1>4. PICK f \in [0 .. M -> Box(d)] : Iterates(f, M, first, step)
    BY <1>1, <1>2, <1>3, Recursion
<1>5. ASSUME NEW k \in 0 .. M, k # 0
      PROVE  step[<<k, f[k - 1]>>] = Advance(f[k - 1], d)
  <2>1. k \in 1 .. M /\ f[k - 1] \in Box(d)
    BY <1>1, <1>4, <1>5
  <2> QED
    BY <2>1 DEF step
<1>6. f = [k \in 0 .. M |-> IF k = 0 THEN first ELSE Advance(f[k - 1], d)]
    BY <1>4, <1>5 DEF Iterates
<1> DEFINE g == CHOOSE walk : walk = [k \in 0 .. M |-> IF k = 0 THEN first
                                                       ELSE Advance(walk[k - 1], d)]
<1>7. g = [k \in 0 .. M |-> IF k = 0 THEN first ELSE Advance(g[k - 1], d)]
    BY <1>6, Zenon
<1>8. Walk(d) = [k \in 1 .. ElementCount(d, M) |-> g[k - 1]]
    BY Zenon DEF Walk, M, first
<1> HIDE DEF g
<1>9. g[0] = first /\ \A k \in 1 .. M : g[k] = Advance(g[k - 1], d)
    BY <1>1, <1>7
<1> DEFINE T == {k \in 0 .. M : g[k] \in Box(d)}
<1>10. 0 \in T
    BY <1>1, <1>2, <1>9
<1>11. ASSUME NEW k \in 0 .. M - 1, k \in T
       PROVE  k + 1 \in T
  <2>1. k + 1 \in 1 .. M /\ k + 1 \in 0 .. M /\ (k + 1) - 1 = k /\ g[k] \in Box(d)
    BY <1>1, <1>11
  <2> QED
    BY <1>9, <2>1, AdvanceIs
<1> HIDE DEF T
<1>12. 0 .. M \subseteq T
    BY <1>1, <1>10, <1>11, Induction
<1>13. g \in [0 .. M -> Box(d)]
    BY <1>7, <1>12 DEF T
<1> QED
    BY <1>8, <1>9, <1>13 DEF M, first

-----------------------------------------------------------------------------
(* The shapes *)

\* A walk of P vectors whose numbers are 0 to P - 1.
LEMMA WalkCounts ==
    ASSUME NEW d, Walkable(d), NEW P \in 1 .. MaxArrayElements,
           P = Described(d)[Len(d)], P = ElementCount(d, MaxArrayElements)
    PROVE  /\ DOMAIN Walk(d) = 1 .. P
           /\ \A k \in 1 .. P : Walk(d)[k] \in Box(d) /\ Rank(d, Walk(d)[k])[Len(d)] = k - 1
           /\ \A k \in 1 .. (P - 1) : Before(Walk(d)[k], Walk(d)[k + 1])
<1> DEFINE M == MaxArrayElements
           R(v) == Rank(d, v)[Len(d)]
<1>1. PICK walk \in [0 .. M -> Box(d)] :
         /\ walk[0] = [p \in DOMAIN d |-> d[p].lower]
         /\ \A k \in 1 .. M : walk[k] = Advance(walk[k - 1], d)
         /\ Walk(d) = [k \in 1 .. P |-> walk[k - 1]]
    BY WalkIs
<1>2. P \in Nat /\ M \in Nat /\ P <= M /\ P - 1 \in Nat
    BY Moduli
<1>3. ASSUME NEW k \in 0 .. P - 2, R(walk[k]) = k
      PROVE  /\ R(walk[k + 1]) = k + 1
             /\ Before(walk[k], walk[k + 1])
  <2>1. k + 1 \in 1 .. M /\ (k + 1) - 1 = k /\ walk[k] \in Box(d)
    BY <1>1, <1>2
  <2>2. walk[k + 1] = Advance(walk[k], d)
    BY <1>1, <2>1
  <2>3. CanRise(walk[k], d) # {}
    <3>1. k # P - 1
      BY <1>2
    <3> QED
      BY <1>3, <2>1, <3>1, RankLast
  <2> QED
    BY <1>3, <2>1, <2>2, <2>3, RankRises
<1> DEFINE T == {k \in 0 .. P - 1 : R(walk[k]) = k}
<1>4. 0 \in T
    BY <1>1, <1>2, RankFirst
<1>5. ASSUME NEW k \in 0 .. (P - 1) - 1, k \in T
      PROVE  k + 1 \in T
  <2>1. k \in 0 .. P - 2 /\ k + 1 \in 0 .. P - 1
    BY <1>2
  <2> QED
    BY <1>3, <1>5, <2>1
<1> HIDE DEF T
<1>6. 0 .. P - 1 \subseteq T
    BY <1>2, <1>4, <1>5, Induction
<1>7. \A k \in 0 .. P - 1 : R(walk[k]) = k
    BY <1>6 DEF T
<1> HIDE DEF R
<1>8. ASSUME NEW k \in 1 .. P
      PROVE  Walk(d)[k] \in Box(d) /\ R(Walk(d)[k]) = k - 1
  <2>1. k - 1 \in 0 .. P - 1 /\ k - 1 \in 0 .. M
    BY <1>2
  <2> QED
    BY <1>1, <1>7, <2>1
<1>9. ASSUME NEW k \in 1 .. (P - 1)
      PROVE  Before(Walk(d)[k], Walk(d)[k + 1])
  <2>1. /\ k - 1 \in 0 .. P - 2 /\ k - 1 \in 0 .. P - 1
        /\ k \in 1 .. P /\ k + 1 \in 1 .. P /\ (k - 1) + 1 = k /\ (k + 1) - 1 = k
    BY <1>2
  <2>2. Before(walk[k - 1], walk[k])
    BY <1>3, <1>7, <2>1
  <2> QED
    BY <1>1, <2>1, <2>2
<1> QED
    BY <1>1, <1>8, <1>9 DEF R

\* The shapes a sample is of.
LEMMA ShapeIs ==
    ASSUME NEW d \in Shapes
    PROVE  /\ Measured(d) /\ DOMAIN d = 1 .. Len(d) /\ Len(d) \in 1 .. MaxDimensions
           /\ d # <<>>
           /\ \A p \in DOMAIN d : d[p].lower \in -Halves[4] .. (Halves[4] - 1)
<1>1. PICK n \in 1 .. MaxDimensions : d \in [1 .. n -> [lower : Lowers, length : Lengths]]
    BY DEF Shapes
<1>2. n \in Nat /\ n # 0
    BY ValuesAssumption
<1> DEFINE Dimension == [lower : Lowers, length : Lengths]
<1>3. \A p \in 1 .. n : d[p].lower \in Lowers /\ d[p].length \in Lengths
    BY <1>1
<1>4. \A p \in 1 .. n : /\ d[p].length \in 0 .. (Modulus(4) - 1)
                        /\ d[p].lower \in -Halves[4] .. (Halves[4] - 1)
    BY <1>3, ValuesAssumption
<1>5. d \in [1 .. n -> Dimension]
    BY <1>1
<1> HIDE DEF Dimension
<1>6. d \in Seq(Dimension) /\ Len(d) = n /\ DOMAIN d = 1 .. n /\ d # <<>>
    BY <1>2, <1>5
<1> QED
    BY <1>2, <1>4, <1>6 DEF Measured

\* Validate accepts the shape whose lengths have the elements carried as their
\* true product, within the limit, and no other.
LEMMA ValidShapeExact ==
    ASSUME NEW d \in Shapes, NEW carried \in 0 .. (MaxArrayElements + 1)
    PROVE  ValidShape(d, carried) <=>
              /\ carried = Described(d)[Len(d)]
              /\ carried \in 1 .. MaxArrayElements
<1> DEFINE product == Described(d)[Len(d)]
<1>1. /\ Measured(d) /\ Len(d) \in Nat /\ Len(d) <= MaxDimensions /\ d # <<>>
      /\ Len(d) \in 0 .. Len(d)
    BY ShapeIs DEF Measured
<1>2. product \in Nat
    BY <1>1, DescribedIs
<1>3. \A maximum \in 1 .. Modulus(4) :
         ElementCount(d, maximum) = IF product \in 1 .. maximum THEN product ELSE 0
    BY <1>1, CountedExact DEF ElementCount
<1>4. MaxArrayElements \in 1 .. Modulus(4)
    BY Moduli
<1>5. carried # 0 => carried \in 1 .. Modulus(4)
    BY Moduli
<1> HIDE DEF product
<1>6. ElementCount(d, MaxArrayElements) # 0 <=> product \in 1 .. MaxArrayElements
    BY <1>2, <1>3, <1>4
<1>7. carried # 0 => (ElementCount(d, carried) = carried <=> product = carried)
    BY <1>2, <1>3, <1>5
<1>8. ValidShape(d, carried) <=>
         /\ product \in 1 .. MaxArrayElements
         /\ carried # 0 /\ ElementCount(d, carried) = carried
    BY <1>1, <1>6 DEF ValidShape, MatchesItsShape
<1>9. ValidShape(d, carried) <=> carried = product /\ carried \in 1 .. MaxArrayElements
    BY <1>2, <1>7, <1>8
<1> QED
    BY <1>9 DEF product

\* The walk of a shape visits each index vector once, in order.
LEMMA WalkExact ==
    ASSUME NEW d \in Shapes, Described(d)[Len(d)] \in 1 .. MaxArrayElements,
           \A p \in DOMAIN d : Upper(d, p) < Halves[4] - 1
    PROVE  /\ Cardinality(Range(Walk(d))) = Described(d)[Len(d)]
           /\ \A v \in Range(Walk(d)) : \A p \in DOMAIN d : v[p] \in d[p].lower .. Upper(d, p)
           /\ Len(Walk(d)) = Described(d)[Len(d)]
           /\ \A k \in 1 .. (Len(Walk(d)) - 1) : Before(Walk(d)[k], Walk(d)[k + 1])
<1> DEFINE P == Described(d)[Len(d)]
           w == Walk(d)
<1>1. Measured(d) /\ DOMAIN d = 1 .. Len(d) /\ Len(d) \in Nat
    BY ShapeIs DEF Measured
<1>2. \A p \in DOMAIN d : d[p].length # 0
  <2> SUFFICES ASSUME NEW p \in DOMAIN d, d[p].length = 0
               PROVE  FALSE
    OBVIOUS
  <2>1. p \in 1 .. Len(d) /\ p \in 0 .. Len(d) /\ p - 1 \in 0 .. Len(d)
    BY <1>1
  <2>2. Described(d)[p] = Described(d)[p - 1] * d[p].length /\ Described(d)[p - 1] \in Nat
    BY <1>1, <2>1, DescribedIs
  <2>3. Described(d)[p] = 0
    BY <2>2
  <2>4. P = 0
    BY <1>1, <2>1, <2>3, EmptyStays
  <2> QED
    BY <2>4
<1>3. Walkable(d)
    BY <1>1, <1>2, ShapeIs DEF Walkable
<1>4. P = ElementCount(d, MaxArrayElements)
  <2>1. MaxArrayElements \in 1 .. Modulus(4) /\ Len(d) \in 0 .. Len(d)
    BY <1>1, Moduli
  <2> QED
    BY <1>1, <2>1, CountedExact DEF ElementCount
<1>5. P \in 1 .. MaxArrayElements /\ P \in Nat
    OBVIOUS
<1> HIDE DEF P, w
<1>6. /\ DOMAIN w = 1 .. P
      /\ \A k \in 1 .. P : w[k] \in Box(d) /\ Rank(d, w[k])[Len(d)] = k - 1
      /\ \A k \in 1 .. (P - 1) : Before(w[k], w[k + 1])
    BY <1>3, <1>4, <1>5, WalkCounts DEF P, w
<1>7. w = [k \in 1 .. P |-> w[k]]
  <2>1. w = [k \in 1 .. ElementCount(d, MaxArrayElements) |-> w[k]]
    BY DEF Walk, w
  <2> QED
    BY <1>4, <2>1
<1>8. Len(w) = P
    BY <1>5, <1>7
<1>9. w \in [1 .. P -> Range(w)]
    BY <1>6, <1>7 DEF Range
<1>10. ASSUME NEW j \in 1 .. P, NEW k \in 1 .. P, w[j] = w[k]
       PROVE  j = k
  <2>1. Rank(d, w[j])[Len(d)] = j - 1 /\ Rank(d, w[k])[Len(d)] = k - 1
    BY <1>6
  <2>2. j - 1 = k - 1
    BY <1>10, <2>1
  <2> QED
    BY <1>5, <2>2
<1>11. \A v \in Range(w) : \E k \in 1 .. P : w[k] = v
    BY <1>6 DEF Range
<1>12. w \in Bijection(1 .. P, Range(w))
  <2>1. w \in Injection(1 .. P, Range(w))
    BY <1>9, <1>10, Fun_IsInj
  <2>2. w \in Surjection(1 .. P, Range(w))
    BY <1>9, <1>11, Fun_IsSurj
  <2> QED
    BY <2>1, <2>2, Fun_IsBij
<1>13. Cardinality(Range(w)) = P
  <2>1. ExistsBijection(1 .. P, Range(w))
    BY <1>12, Fun_ExistsBij
  <2> QED
    BY <1>5, <2>1, FS_CountingElements
<1>14. \A v \in Range(w) : \A p \in DOMAIN d : v[p] \in d[p].lower .. Upper(d, p)
    BY <1>6, <1>11 DEF Box
<1> QED
    BY <1>6, <1>8, <1>13, <1>14 DEF P, w

\* What a sample is, by its kind.
LEMMA SampleIs ==
    ASSUME ValuesInit
    PROVE  /\ sample.kind = "shape" => sample.dims \in Shapes
           /\ sample.kind = "value" =>
                 sample.vt \in Carried /\ sample.value \in GoValues(sample.vt)
           /\ sample.kind = "sent" =>
                 /\ sample.vt \in Integral
                 /\ sample.n \in IntRange(TRUE, 8) \cup IntRange(FALSE, 8)
           /\ sample.kind = "result" => sample.result \in ReadOutcomes
           /\ sample.kind = "quality" => sample.raw \in 0 .. 255
           /\ sample.kind = "exchange" => sample.exchange \in Exchanges
<1>1. CASE \E vt \in Carried : \E x \in GoValues(vt) :
              sample = [kind |-> "value", vt |-> vt, value |-> x]
    BY <1>1
<1>2. CASE \E vt \in Integral, n \in IntRange(TRUE, 8) \cup IntRange(FALSE, 8) :
              sample = [kind |-> "sent", vt |-> vt, n |-> n]
  <2>1. PICK vt \in Integral, n \in IntRange(TRUE, 8) \cup IntRange(FALSE, 8) :
           sample = [kind |-> "sent", vt |-> vt, n |-> n]
    BY <1>2
  <2>2. sample.kind = "sent" /\ sample.vt = vt /\ sample.n = n
    BY <2>1
  <2> QED
    BY <2>1, <2>2
<1>3. CASE \E d \in Shapes : sample = [kind |-> "shape", dims |-> d]
    BY <1>3
<1>4. CASE \E r \in ReadOutcomes : sample = [kind |-> "result", result |-> r]
    BY <1>4
<1>5. CASE \E raw \in 0..255 : sample = [kind |-> "quality", raw |-> raw]
    BY <1>5
<1>6. CASE \E x \in Exchanges : sample = [kind |-> "exchange", exchange |-> x]
    BY <1>6
<1> QED
    BY <1>1, <1>2, <1>3, <1>4, <1>5, <1>6 DEF ValuesInit

\* ElementCount, MatchesItsShape, advanceArrayIndices: whatever the limits and the
\* shape, a shape is accepted only if the true product of its lengths is what it
\* carries, and its walk visits every index vector once, in order.
LEMMA ShapeExact ==
    ASSUME ValuesInit
    PROVE  ShapesAreExact
<1> SUFFICES ASSUME sample.kind = "shape"
             PROVE  ShapesAreExact
    BY DEF ShapesAreExact
<1> DEFINE d == sample.dims
           product == Described(d)[Len(d)]
           upper(p) == d[p].lower + d[p].length - 1
           before(u, v) == \E p \in DOMAIN u :
                              u[p] < v[p] /\ \A q \in 1..(p - 1) : u[q] = v[q]
<1>1. d \in Shapes
    BY SampleIs
<1> HIDE DEF d
<1>2. \A carried \in 0..(MaxArrayElements + 1) :
         ValidShape(d, carried) <=> carried = product /\ carried \in 1..MaxArrayElements
    BY <1>1, ValidShapeExact
<1>3. ASSUME product \in 1..MaxArrayElements,
             \A p \in DOMAIN d : upper(p) < Halves[4] - 1
      PROVE  LET w == Walk(d)
             IN  /\ Cardinality(Range(w)) = product
                 /\ \A v \in Range(w) : \A p \in DOMAIN d : v[p] \in d[p].lower..upper(p)
                 /\ \A k \in 1..(Len(w) - 1) : before(w[k], w[k + 1])
    BY <1>1, <1>3, WalkExact DEF Upper, Before
<1> QED
    BY <1>2, <1>3 DEF ShapesAreExact, d

\* Conversions in any order, each of a shape of any dimensions.
THEOREM ShapesAreExactAlways == ValuesSpec => []ShapesAreExact
<1>1. ValuesInit => ShapesAreExact
    BY ShapeExact
<1>2. ValuesInit' => ShapesAreExact'
    BY <1>1, PTL
<1>3. ShapesAreExact /\ [ValuesInit']_sample => ShapesAreExact'
  <2>1. CASE UNCHANGED sample
    BY <2>1 DEF ShapesAreExact
  <2> QED
    BY <1>2, <2>1
<1> QED
    BY <1>1, <1>3, PTL DEF ValuesSpec

-----------------------------------------------------------------------------
(* Scalars *)

\* The VARTYPEs the core carries fall into these groups.
LEMMA CarriedIs ==
    /\ DOMAIN Signed = {"I1", "I2", "I4", "I8", "INT", "ERROR"}
    /\ DOMAIN Unsigned = {"UI1", "UI2", "UI4", "UI8", "UINT"}
    /\ DOMAIN Floats = {"R4", "R8"}
    /\ Carried = DOMAIN Signed \cup DOMAIN Unsigned \cup DOMAIN Floats
                 \cup {"EMPTY", "NULL", "BOOL", "BSTR"}
    /\ Integral = DOMAIN Signed \cup DOMAIN Unsigned
BY DEF Signed, Unsigned, Floats, Carried, Integral

\* The Go type of each group.
LEMMA SignedGoIs ==
    ASSUME NEW vt \in DOMAIN Signed
    PROVE  /\ GoType(vt) = SignedGo[Signed[vt]] /\ Signed[vt] \in Widths
           /\ Holds(vt) = IntRange(TRUE, Signed[vt])
           /\ GoType(vt) \in {"int8", "int16", "int32", "int64"}
           /\ VarTypeForUA(GoType(vt)) = DecodesAs(vt)
           /\ VarTypeForNode(vt) = DecodesAs(vt)
           /\ DecodesAs(vt) # "none"
<1>1. GoType(vt) = SignedGo[Signed[vt]] /\ Holds(vt) = IntRange(TRUE, Signed[vt])
  <2>1. /\ vt \in DOMAIN Signed /\ vt \notin DOMAIN Unsigned /\ vt \notin DOMAIN Floats
        /\ vt # "BOOL" /\ vt # "BSTR" /\ vt \notin {"EMPTY", "NULL"}
    BY CarriedIs
  <2>2. GoType(vt) = SignedGo[Signed[vt]]
    BY <2>1, Zenon DEF GoType
  <2>3. Holds(vt) = IntRange(TRUE, Signed[vt])
    BY <2>1, Zenon DEF Holds
  <2> QED
    BY <2>2, <2>3
<1>2. /\ vt = "I1" => Signed[vt] = 1 /\ SignedGo[1] = "int8"
      /\ vt = "I2" => Signed[vt] = 2 /\ SignedGo[2] = "int16"
      /\ vt = "I4" => Signed[vt] = 4 /\ SignedGo[4] = "int32"
      /\ vt = "I8" => Signed[vt] = 8 /\ SignedGo[8] = "int64"
      /\ vt = "INT" => Signed[vt] = 4
      /\ vt = "ERROR" => Signed[vt] = 4
      /\ SignedGo[4] = "int32"
    BY DEF Signed, SignedGo
<1>3. vt \in {"I1", "I2", "I4", "I8", "INT", "ERROR"}
    BY CarriedIs
<1>4. DecodesAs(vt) = IF vt \in {"INT", "ERROR"} THEN "I4" ELSE vt
    BY <1>3 DEF DecodesAs
<1>5. DecodesAs(vt) \in Carried \ {"EMPTY", "NULL"} /\ DecodesAs(vt) # "DATE"
    BY <1>3, <1>4, CarriedIs
<1>6. VarTypeForNode(vt) = DecodesAs(vt)
    BY <1>5 DEF VarTypeForNode
<1>7. VarTypeForUA(GoType(vt)) = DecodesAs(vt)
    BY <1>1, <1>2, <1>3, <1>4 DEF VarTypeForUA
<1> QED
    BY <1>1, <1>2, <1>3, <1>4, <1>6, <1>7 DEF Widths

LEMMA UnsignedGoIs ==
    ASSUME NEW vt \in DOMAIN Unsigned
    PROVE  /\ GoType(vt) = UnsignedGo[Unsigned[vt]] /\ Unsigned[vt] \in Widths
           /\ Holds(vt) = IntRange(FALSE, Unsigned[vt])
           /\ GoType(vt) \in {"uint8", "uint16", "uint32", "uint64"}
           /\ VarTypeForUA(GoType(vt)) = DecodesAs(vt)
           /\ VarTypeForNode(vt) = DecodesAs(vt)
           /\ DecodesAs(vt) # "none"
<1>1. vt \in {"UI1", "UI2", "UI4", "UI8", "UINT"} /\ vt \notin DOMAIN Signed
    BY CarriedIs
<1>2. GoType(vt) = UnsignedGo[Unsigned[vt]] /\ Holds(vt) = IntRange(FALSE, Unsigned[vt])
  <2>1. /\ vt \in DOMAIN Unsigned /\ vt \notin DOMAIN Signed /\ vt \notin DOMAIN Floats
        /\ vt # "BOOL" /\ vt # "BSTR" /\ vt \notin {"EMPTY", "NULL"}
    BY CarriedIs
  <2>2. GoType(vt) = UnsignedGo[Unsigned[vt]]
    BY <2>1, Zenon DEF GoType
  <2>3. Holds(vt) = IntRange(FALSE, Unsigned[vt])
    BY <2>1, Zenon DEF Holds
  <2> QED
    BY <2>2, <2>3
<1>3. /\ vt = "UI1" => Unsigned[vt] = 1 /\ UnsignedGo[1] = "uint8"
      /\ vt = "UI2" => Unsigned[vt] = 2 /\ UnsignedGo[2] = "uint16"
      /\ vt = "UI4" => Unsigned[vt] = 4
      /\ vt = "UI8" => Unsigned[vt] = 8 /\ UnsignedGo[8] = "uint64"
      /\ vt = "UINT" => Unsigned[vt] = 4
      /\ UnsignedGo[4] = "uint32"
    BY DEF Unsigned, UnsignedGo
<1>4. DecodesAs(vt) = IF vt = "UINT" THEN "UI4" ELSE vt
    BY <1>1 DEF DecodesAs
<1>5. DecodesAs(vt) \in Carried \ {"EMPTY", "NULL"} /\ DecodesAs(vt) # "DATE"
    BY <1>1, <1>4, CarriedIs
<1>6. VarTypeForNode(vt) = DecodesAs(vt)
    BY <1>5 DEF VarTypeForNode
<1>7. VarTypeForUA(GoType(vt)) = DecodesAs(vt)
    BY <1>1, <1>2, <1>3, <1>4 DEF VarTypeForUA
<1> QED
    BY <1>1, <1>2, <1>3, <1>4, <1>6, <1>7 DEF Widths

LEMMA OtherGoIs ==
    ASSUME NEW vt \in {"R4", "R8", "BOOL", "BSTR"}
    PROVE  /\ GoType(vt) = CASE vt = "R4" -> "float32" [] vt = "R8" -> "float64"
                             [] vt = "BOOL" -> "bool" [] vt = "BSTR" -> "string"
           /\ Holds(vt) = CASE vt \in {"R4", "R8"} -> FloatValues
                            [] vt = "BOOL" -> {TRUE, FALSE} [] vt = "BSTR" -> Texts
           /\ VarTypeForUA(GoType(vt)) = vt
           /\ VarTypeForNode(vt) = vt /\ DecodesAs(vt) = vt
<1>1. vt \notin DOMAIN Signed /\ vt \notin DOMAIN Unsigned /\ vt \in Carried
    BY CarriedIs
<1>2. Floats["R4"] = "float32" /\ Floats["R8"] = "float64"
      /\ (vt \in DOMAIN Floats <=> vt \in {"R4", "R8"})
    BY CarriedIs DEF Floats
<1>3. GoType(vt) = CASE vt = "R4" -> "float32" [] vt = "R8" -> "float64"
                     [] vt = "BOOL" -> "bool" [] vt = "BSTR" -> "string"
    BY <1>1, <1>2 DEF GoType
<1>4. Holds(vt) = CASE vt \in {"R4", "R8"} -> FloatValues
                    [] vt = "BOOL" -> {TRUE, FALSE} [] vt = "BSTR" -> Texts
    BY <1>1, <1>2 DEF Holds
<1>5. DecodesAs(vt) = vt
    BY DEF DecodesAs
<1>6. VarTypeForNode(vt) = vt
    BY <1>1, <1>5 DEF VarTypeForNode
<1>7. VarTypeForUA(GoType(vt)) = vt
    BY <1>3 DEF VarTypeForUA
<1> QED
    BY <1>3, <1>4, <1>5, <1>6, <1>7

LEMMA NilGoIs ==
    ASSUME NEW vt \in {"EMPTY", "NULL"}
    PROVE  /\ GoType(vt) = "nil" /\ Holds(vt) = {0} /\ VarTypeForUA("nil") = "none"
           /\ VarTypeForNode(vt) = "none" /\ DecodesAs(vt) = vt
<1>1. vt \notin DOMAIN Signed /\ vt \notin DOMAIN Unsigned /\ vt \notin DOMAIN Floats
    BY CarriedIs
<1>2. DecodesAs(vt) = vt
    BY DEF DecodesAs
<1> QED
    BY <1>1, <1>2, CarriedIs DEF GoType, Holds, VarTypeForUA, VarTypeForNode

-----------------------------------------------------------------------------
(* The handlers of requests answered once *)

\* A list: its elements are in some set.
IsList(s) == \E S : s \in Seq(S)

\* The positions of a list.
LEMMA ListedIs ==
    ASSUME NEW s, IsList(s)
    PROVE  /\ Len(s) \in Nat /\ DOMAIN s = 1 .. Len(s) /\ DOMAIN s \subseteq Nat
           /\ s = <<>> <=> Len(s) = 0
<1>1. PICK S : s \in Seq(S)
    BY DEF IsList
<1> QED
    BY <1>1

\* What is built from a list has the length of the list.
LEMMA BuiltIs ==
    ASSUME NEW n \in Nat, NEW f, f = [i \in 1 .. n |-> f[i]]
    PROVE  IsList(f) /\ Len(f) = n
<1> DEFINE S == {f[i] : i \in 1 .. n}
<1>1. f \in Seq(S)
  <2>1. f \in [1 .. n -> S]
    BY Zenon
  <2> QED
    BY <2>1 DEF S
<1>2. DOMAIN f = 1 .. n
    OBVIOUS
<1> HIDE DEF S
<1> QED
    BY <1>1, <1>2 DEF IsList

\* A check answers its code exactly on the fault.
LEMMA CheckIs == \A fault, code : code # "" => (Check(fault, code) = "" <=> ~fault)
BY DEF Check

\* The first fault is no fault exactly if there is none.
LEMMA FirstIs ==
    ASSUME NEW s, DOMAIN s \subseteq Nat
    PROVE  First(s) = "" <=> \A i \in DOMAIN s : s[i] = ""
<1> DEFINE faults == {i \in DOMAIN s : s[i] # ""}
<1>1. CASE faults = {}
    BY <1>1, Zenon DEF First
<1>2. CASE faults # {}
  <2>1. \E i \in faults : \A j \in faults : i <= j
    BY <1>2, Least
  <2> DEFINE i == CHOOSE i \in faults : \A j \in faults : i <= j
  <2>2. i \in faults
    BY <2>1, Zenon
  <2>3. First(s) = s[i]
    BY <1>2, Zenon DEF First
  <2> HIDE DEF i
  <2> QED
    BY <2>2, <2>3
<1> QED
    BY <1>1, <1>2

\* The first fault of two, three and four checks.
LEMMA First2 ==
    ASSUME NEW a, NEW b
    PROVE  First(<<a, b>>) = "" <=> a = "" /\ b = ""
<1> DEFINE s == <<a, b>>
<1>1. DOMAIN s = 1 .. 2 /\ s[1] = a /\ s[2] = b
    OBVIOUS
<1> HIDE DEF s
<1>2. DOMAIN s \subseteq Nat /\ \A i : i \in DOMAIN s <=> i = 1 \/ i = 2
    BY <1>1
<1>3. First(s) = "" <=> s[1] = "" /\ s[2] = ""
    BY <1>2, FirstIs, Zenon
<1> QED
    BY <1>1, <1>3 DEF s

LEMMA First3 ==
    ASSUME NEW a, NEW b, NEW c
    PROVE  First(<<a, b, c>>) = "" <=> a = "" /\ b = "" /\ c = ""
<1> DEFINE s == <<a, b, c>>
<1>1. DOMAIN s = 1 .. 3 /\ s[1] = a /\ s[2] = b /\ s[3] = c
    OBVIOUS
<1> HIDE DEF s
<1>2. DOMAIN s \subseteq Nat /\ \A i : i \in DOMAIN s <=> i = 1 \/ i = 2 \/ i = 3
    BY <1>1
<1>3. First(s) = "" <=> s[1] = "" /\ s[2] = "" /\ s[3] = ""
    BY <1>2, FirstIs, Zenon
<1> QED
    BY <1>1, <1>3 DEF s

LEMMA First4 ==
    ASSUME NEW a, NEW b, NEW c, NEW d
    PROVE  First(<<a, b, c, d>>) = "" <=> a = "" /\ b = "" /\ c = "" /\ d = ""
<1> DEFINE s == <<a, b, c, d>>
<1>1. DOMAIN s = 1 .. 4 /\ s[1] = a /\ s[2] = b /\ s[3] = c /\ s[4] = d
    OBVIOUS
<1> HIDE DEF s
<1>2. DOMAIN s \subseteq Nat /\ \A i : i \in DOMAIN s <=> i = 1 \/ i = 2 \/ i = 3 \/ i = 4
    BY <1>1
<1>3. First(s) = "" <=> s[1] = "" /\ s[2] = "" /\ s[3] = "" /\ s[4] = ""
    BY <1>2, FirstIs, Zenon
<1> QED
    BY <1>1, <1>3 DEF s

\* The call is made unless the request is refused, and what is answered is what
\* was made of an answer without a flaw.
Handled(h, refusal, flaw, results) ==
    /\ h.called \in BOOLEAN /\ (h.called <=> refusal = "")
    /\ h.called /\ h.code = "" => flaw = "" /\ h.results = results

\* How an exchange comes to an end.
LEMMA HandleIs ==
    \A refusal, answer, flaw, results :
        Handled(Handle(refusal, answer, flaw, results), refusal, flaw, results)
<1> SUFFICES ASSUME NEW refusal, NEW answer, NEW flaw, NEW results
             PROVE  Handled(Handle(refusal, answer, flaw, results), refusal, flaw, results)
    BY Zenon
<1> DEFINE h == Handle(refusal, answer, flaw, results)
<1>1. CASE refusal # ""
  <2>1. h = [called |-> FALSE, code |-> refusal, results |-> <<>>]
    BY <1>1, Zenon DEF Handle
  <2>2. h.called = FALSE
    BY <2>1
  <2> HIDE DEF h
  <2> QED
    BY <1>1, <2>2 DEF Handled, h
<1>2. CASE refusal = "" /\ (answer.error # "" \/ flaw # "")
  <2>1. h.called = TRUE /\ h.code # ""
    BY <1>2 DEF Handle
  <2> HIDE DEF h
  <2> QED
    BY <1>2, <2>1 DEF Handled, h
<1>3. CASE refusal = "" /\ answer.error = "" /\ flaw = ""
  <2>1. h = [called |-> TRUE, code |-> "", results |-> results]
    BY <1>3, Zenon DEF Handle
  <2> HIDE DEF h
  <2>2. h.called = TRUE
    BY <2>1
  <2>3. h.results = results
    BY <2>1
  <2> QED
    BY <1>3, <2>2, <2>3 DEF Handled, h
<1> QED
    BY <1>1, <1>2, <1>3, Zenon

-----------------------------------------------------------------------------
(* Texts: the frontends refuse the same ones *)

\* A text no frontend refuses.
Flawless(t) == t.flaws \cap {"empty", "nul", "long"} = {}

\* What each frontend makes of a text.
LEMMA TextsAre ==
    ASSUME NEW t, "utf8" \notin t.flaws
    PROVE  /\ GRPCText(t) = "" <=> Flawless(t)
           /\ HTTPItem(t) = "" <=> Flawless(t)
           /\ HTTPText(t) = "" <=> Flawless(t)
           /\ MCPText(t) = "" <=> Flawless(t)
<1> DEFINE empty == "empty" \in t.flaws
           nul == "nul" \in t.flaws
           long == "long" \in t.flaws
           utf8 == "utf8" \in t.flaws
<1>0. Flawless(t) <=> ~empty /\ ~nul /\ ~long
    BY DEF Flawless
<1>1. Invalid # "" /\ TooLong # ""
    BY DEF Invalid, TooLong
<1>2. GRPCText(t) = "" <=> Flawless(t)
  <2> DEFINE a == Check(empty, Invalid)
             b == Check(utf8, Invalid)
             c == Check(long, TooLong)
             d == Check(nul, Invalid)
  <2>1. GRPCText(t) = First(<<a, b, c, d>>)
    BY DEF GRPCText
  <2>2. (a = "" <=> ~empty) /\ (b = "" <=> ~utf8) /\ (c = "" <=> ~long) /\ (d = "" <=> ~nul)
    BY <1>1 DEF Check
  <2> HIDE DEF a, b, c, d
  <2>3. First(<<a, b, c, d>>) = "" <=> a = "" /\ b = "" /\ c = "" /\ d = ""
    BY First4
  <2>4. ~utf8
    OBVIOUS
  <2> HIDE DEF empty, nul, long, utf8
  <2> QED
    BY <1>0, <2>1, <2>2, <2>3, <2>4
<1>3. HTTPItem(t) = "" <=> Flawless(t)
  <2>1. HTTPItem(t) = "" <=> /\ Check(empty, Invalid) = "" /\ Check(nul, Invalid) = ""
                             /\ Check(long, TooLong) = ""
    BY First3, Zenon DEF HTTPItem
  <2> QED
    BY <1>0, <1>1, <2>1 DEF Check
<1>4. HTTPText(t) = "" <=> Flawless(t)
  <2>1. HTTPText(t) = "" <=> /\ Check(empty, Invalid) = "" /\ Check(long, TooLong) = ""
                             /\ Check(nul, Invalid) = ""
    BY First3, Zenon DEF HTTPText
  <2> QED
    BY <1>0, <1>1, <2>1 DEF Check
<1>5. MCPText(t) = "" <=> Flawless(t)
  <2> DEFINE unfit == t.flaws \cap {"empty", "utf8", "nul"} # {}
             a == Check(unfit, Invalid)
             b == Check(long, TooLong)
  <2>1. MCPText(t) = First(<<a, b>>)
    BY DEF MCPText
  <2>2. (a = "" <=> ~empty /\ ~nul) /\ (b = "" <=> ~long)
    BY <1>1 DEF Check
  <2> HIDE DEF a, b
  <2> QED
    BY <1>0, <2>1, <2>2, First2
<1> QED
    BY <1>2, <1>3, <1>4, <1>5

\* A loop over texts refuses the list with a text that is refused.
LEMMA TextListsAre ==
    ASSUME NEW s, IsList(s), \A i \in DOMAIN s : "utf8" \notin s[i].flaws
    PROVE  LET fits == \A i \in DOMAIN s : Flawless(s[i])
           IN  /\ FirstOf(GRPCText, s) = "" <=> fits
               /\ FirstOf(HTTPItem, s) = "" <=> fits
               /\ FirstOf(HTTPText, s) = "" <=> fits
               /\ FirstOf(MCPText, s) = "" <=> fits
<1> DEFINE g == [i \in DOMAIN s |-> GRPCText(s[i])]
           h == [i \in DOMAIN s |-> HTTPItem(s[i])]
           t == [i \in DOMAIN s |-> HTTPText(s[i])]
           m == [i \in DOMAIN s |-> MCPText(s[i])]
<1>1. DOMAIN s \subseteq Nat
    BY ListedIs
<1>2. FirstOf(GRPCText, s) = First(g) /\ FirstOf(HTTPItem, s) = First(h)
    BY Zenon DEF FirstOf, Each
<1>3. FirstOf(HTTPText, s) = First(t) /\ FirstOf(MCPText, s) = First(m)
    BY Zenon DEF FirstOf, Each
<1>4. /\ DOMAIN g = DOMAIN s /\ \A i \in DOMAIN s : g[i] = "" <=> Flawless(s[i])
      /\ DOMAIN h = DOMAIN s /\ \A i \in DOMAIN s : h[i] = "" <=> Flawless(s[i])
    BY TextsAre
<1>5. /\ DOMAIN t = DOMAIN s /\ \A i \in DOMAIN s : t[i] = "" <=> Flawless(s[i])
      /\ DOMAIN m = DOMAIN s /\ \A i \in DOMAIN s : m[i] = "" <=> Flawless(s[i])
    BY TextsAre
<1> HIDE DEF g, h, t, m
<1>6. /\ First(g) = "" <=> \A i \in DOMAIN s : g[i] = ""
      /\ First(h) = "" <=> \A i \in DOMAIN s : h[i] = ""
      /\ First(t) = "" <=> \A i \in DOMAIN s : t[i] = ""
      /\ First(m) = "" <=> \A i \in DOMAIN s : m[i] = ""
    BY <1>1, <1>4, <1>5, FirstIs
<1> QED
    BY <1>2, <1>3, <1>4, <1>5, <1>6, Zenon

\* What a schema and the size of a batch leave.
LEMMA SizesAre ==
    ASSUME NEW n \in Nat
    PROVE  /\ BatchSize(n) = "" <=> n \in 1 .. MaxBatch
           /\ MCPBatchSize(n) = "" <=> n \in 1 .. MaxBatch
<1> DEFINE a == Check(n = 0, Invalid)
           b == Check(n > MaxBatch, Limit)
<1>1. (a = "" <=> n # 0) /\ (b = "" <=> ~(n > MaxBatch))
    BY DEF Check, Invalid, Limit
<1>2. BatchSize(n) = First(<<a, b>>)
    BY DEF BatchSize
<1> HIDE DEF a, b
<1>3. BatchSize(n) = "" <=> a = "" /\ b = ""
    BY <1>2, First2
<1>4. MaxBatch \in Nat
    BY HandlersAssumption
<1>5. BatchSize(n) = "" <=> n \in 1 .. MaxBatch
  <2>1. n \in 1 .. MaxBatch <=> n # 0 /\ ~(n > MaxBatch)
    BY <1>4
  <2> QED
    BY <1>1, <1>3, <2>1, Zenon
<1>6. MCPBatchSize(n) = "" <=> n \in 1 .. MaxBatch
    BY <1>4 DEF MCPBatchSize, Check, Limit
<1> QED
    BY <1>5, <1>6

\* A list with something in it.
LEMMA NonEmptyIs ==
    ASSUME NEW s, \A i \in DOMAIN s : Flawless(s[i])
    PROVE  NonEmpty(s)
BY DEF NonEmpty, Flawless

-----------------------------------------------------------------------------
(* Read *)

\* A Read of a list of texts of a body that is UTF-8, and any list of results
\* the runtime's interface can carry.
ReadExchange(x) ==
    /\ x.op = "read" /\ IsList(x.q.items) /\ IsList(x.a.results)
    /\ \A i \in DOMAIN x.q.items : "utf8" \notin x.q.items[i].flaws
    /\ \A i \in DOMAIN x.a.results : x.a.results[i].value.fits \in BOOLEAN

\* The three frontends refuse the same reads.
LEMMA ReadsAdmitAlike ==
    ASSUME NEW x, ReadExchange(x)
    PROVE  /\ GRPCRead(x.q, x.a).called = HTTPRead(x.q, x.a).called
           /\ HTTPRead(x.q, x.a).called = MCPRead(x.q, x.a).called
<1> DEFINE items == x.q.items
           n == Len(items)
           fits == \A i \in DOMAIN items : Flawless(items[i])
           size == BatchSize(n)
           mcp == MCPBatchSize(n)
           schema == Schema(items # <<>> /\ NonEmpty(items))
           g == FirstOf(GRPCText, items)
           h == FirstOf(HTTPItem, items)
           m == FirstOf(MCPText, items)
           flaw == Check(~Aligned(Asked(x.q), x.a.results, ReadSound), Mismatch)
           mcpFlaw == Check(~Aligned(Asked(x.q), x.a.results, MCPReadSound), Mismatch)
           shown == Each(GRPCReadResult, x.a.results)
           jsonShown == Each(JSONReadResult, x.a.results)
<1>1. /\ GRPCRead(x.q, x.a) = Handle(First(<<size, g>>), x.a, flaw, shown)
      /\ HTTPRead(x.q, x.a) = Handle(First(<<size, h>>), x.a, flaw, jsonShown)
      /\ MCPRead(x.q, x.a) = Handle(First(<<schema, mcp, m>>), x.a, mcpFlaw, jsonShown)
    BY Zenon DEF GRPCRead, HTTPRead, MCPRead
<1>2. (g = "" <=> fits) /\ (h = "" <=> fits) /\ (m = "" <=> fits)
    BY TextListsAre, Zenon DEF ReadExchange
<1>3. n \in Nat /\ (items = <<>> <=> n = 0)
    BY ListedIs DEF ReadExchange
<1>4. (size = "" <=> n \in 1 .. MaxBatch) /\ (mcp = "" <=> n \in 1 .. MaxBatch)
    BY <1>3, SizesAre
<1>5. schema = "" <=> items # <<>> /\ NonEmpty(items)
    BY DEF Schema, Check, Invalid
<1>6. fits => NonEmpty(items)
    BY NonEmptyIs
<1> HIDE DEF size, mcp, schema, g, h, m, fits, n, items, flaw, mcpFlaw, shown, jsonShown
<1>7. /\ First(<<size, g>>) = "" <=> size = "" /\ g = ""
      /\ First(<<size, h>>) = "" <=> size = "" /\ h = ""
      /\ First(<<schema, mcp, m>>) = "" <=> schema = "" /\ mcp = "" /\ m = ""
    BY First2, First3
<1>8. n \in 1 .. MaxBatch => n # 0
    OBVIOUS
<1>9. /\ Handled(GRPCRead(x.q, x.a), First(<<size, g>>), flaw, shown)
      /\ Handled(HTTPRead(x.q, x.a), First(<<size, h>>), flaw, jsonShown)
      /\ Handled(MCPRead(x.q, x.a), First(<<schema, mcp, m>>), mcpFlaw, jsonShown)
    BY <1>1, HandleIs, Zenon
<1> QED
    BY <1>2, <1>3, <1>4, <1>5, <1>6, <1>7, <1>8, <1>9 DEF Handled

-----------------------------------------------------------------------------
(* What an exact exchange comes to, frontend by frontend *)

\* The runtime was called and its answer passed on.
Answered(h) == h.called /\ h.code = ""

\* An answer with a timestamp that only one encoding refuses.
Late(x) == x.op = "read" /\ \E i \in DOMAIN x.a.results : x.a.results[i].value.late

\* One handler, right about what it was asked.
Right(x, h) ==
    /\ Len(h.results) = Len(AskedFor(x))
    /\ \A i \in DOMAIN h.results :
          /\ h.results[i].item = AskedFor(x)[i]
          /\ (x.op \in {"read", "write"} /\ h.results[i].ok) =>
                /\ x.a.results[i].hresult = "ok" /\ x.a.results[i].code = ""
                /\ x.op = "read" => x.a.results[i].value.item = AskedFor(x)[i]

\* Two handlers that both answer, answer the same.
Alike(x, h, k) == Answered(h) /\ Answered(k) => Late(x) \/ h.results = k.results

\* The frontends, by number.
LEMMA Three == \A f \in 1 .. 3 : f = 1 \/ f = 2 \/ f = 3
OBVIOUS

\* What is right for each frontend and alike for each two is exact.
LEMMA ExactFrom ==
    ASSUME NEW x, NEW h, NEW j, NEW k,
           Responses(x.op, x.q, x.a) = <<h, j, k>>,
           h.called = j.called, j.called = k.called,
           Answered(h) => Right(x, h),
           Answered(j) => Right(x, j),
           Answered(k) => Right(x, k),
           Alike(x, h, j), Alike(x, h, k), Alike(x, j, k)
    PROVE  HandlersExact(x)
<1> DEFINE r == Responses(x.op, x.q, x.a)
           answered == {f \in 1 .. 3 : r[f].called /\ r[f].code = ""}
<1>1. r[1] = h /\ r[2] = j /\ r[3] = k
    OBVIOUS
<1> HIDE DEF r
<1>2. ASSUME NEW f \in answered
      PROVE  Answered(r[f]) /\ Right(x, r[f])
  <2>0. f \in 1 .. 3
    BY Zenon
  <2>1. f = 1 \/ f = 2 \/ f = 3
    BY <2>0, Three, Zenon
  <2>2. Answered(r[f])
    BY DEF Answered
  <2> QED
    BY <1>1, <2>1, <2>2
<1>3. ASSUME NEW f \in answered, NEW g \in answered
      PROVE  Late(x) \/ r[f].results = r[g].results
  <2>0. f \in 1 .. 3 /\ g \in 1 .. 3
    BY Zenon
  <2>1. (f = 1 \/ f = 2 \/ f = 3) /\ (g = 1 \/ g = 2 \/ g = 3)
    BY <2>0, Three, Zenon
  <2>2. Answered(r[f]) /\ Answered(r[g])
    BY <1>2
  <2>3. f = g \/ Alike(x, r[f], r[g]) \/ Alike(x, r[g], r[f])
    <3>1. Alike(x, r[1], r[2]) /\ Alike(x, r[1], r[3]) /\ Alike(x, r[2], r[3])
        BY <1>1, Zenon
    <3>2. CASE f = 1
        BY <2>1, <3>1, <3>2, Zenon
    <3>3. CASE f = 2
        BY <2>1, <3>1, <3>3, Zenon
    <3>4. CASE f = 3
        BY <2>1, <3>1, <3>4, Zenon
    <3> QED
        BY <2>1, <3>2, <3>3, <3>4, Zenon
  <2> QED
    BY <2>2, <2>3 DEF Alike
<1>4. r[1].called = r[2].called /\ r[2].called = r[3].called
    BY <1>1
<1> HIDE DEF answered
<1> QED
    BY <1>2, <1>3, <1>4, Zenon DEF HandlersExact, Right, Late, r, answered

\* An answered Read answers what was asked, and shows the results of the source.
ReadAnswered(h, q, a, Sound(_), Shown(_)) ==
    Answered(h) => /\ Aligned(Asked(q), a.results, Sound)
                   /\ h.results = [i \in DOMAIN a.results |-> Shown(a.results[i])]

\* A read that is answered has one result for each item, of the answer.
ReadAnswers(q, a) ==
    /\ ReadAnswered(GRPCRead(q, a), q, a, ReadSound, GRPCReadResult)
    /\ ReadAnswered(HTTPRead(q, a), q, a, ReadSound, JSONReadResult)
    /\ ReadAnswered(MCPRead(q, a), q, a, MCPReadSound, JSONReadResult)

\* What the frontends make of the answer to a read.
LEMMA ReadsAnswer == \A q, a : ReadAnswers(q, a)
<1> SUFFICES ASSUME NEW q, NEW a
             PROVE  ReadAnswers(q, a)
    BY Zenon
<1> DEFINE aligned == Aligned(Asked(q), a.results, ReadSound)
           mcpAligned == Aligned(Asked(q), a.results, MCPReadSound)
           flaw == Check(~aligned, Mismatch)
           mcpFlaw == Check(~mcpAligned, Mismatch)
           shown == [i \in DOMAIN a.results |-> GRPCReadResult(a.results[i])]
           jsonShown == [i \in DOMAIN a.results |-> JSONReadResult(a.results[i])]
           g == First(<<BatchSize(Len(q.items)), FirstOf(GRPCText, q.items)>>)
           h == First(<<BatchSize(Len(q.items)), FirstOf(HTTPItem, q.items)>>)
           m == First(<<Schema(q.items # <<>> /\ NonEmpty(q.items)),
                        MCPBatchSize(Len(q.items)), FirstOf(MCPText, q.items)>>)
<1>1. /\ GRPCRead(q, a) = Handle(g, a, flaw, shown)
      /\ HTTPRead(q, a) = Handle(h, a, flaw, jsonShown)
      /\ MCPRead(q, a) = Handle(m, a, mcpFlaw, jsonShown)
    BY Zenon DEF GRPCRead, HTTPRead, MCPRead, Each
<1> HIDE DEF g, h, m, aligned, mcpAligned, shown, jsonShown
<1>2. (flaw = "" <=> aligned) /\ (mcpFlaw = "" <=> mcpAligned)
    BY DEF Check, Mismatch
<1> HIDE DEF flaw, mcpFlaw
<1>3. /\ Handled(GRPCRead(q, a), g, flaw, shown)
      /\ Handled(HTTPRead(q, a), h, flaw, jsonShown)
      /\ Handled(MCPRead(q, a), m, mcpFlaw, jsonShown)
    BY <1>1, HandleIs, Zenon
<1> QED
    BY <1>2, <1>3, Zenon DEF Handled, Answered, ReadAnswers, ReadAnswered,
                             aligned, mcpAligned, shown, jsonShown

\* No value is a value that cannot be encoded.
LEMMA NoValueIs == NoValue.fits = FALSE
BY DEF NoValue

\* Whatever is read and whatever the runtime answers, the handlers are exact.
LEMMA ReadExact ==
    ASSUME NEW x, ReadExchange(x)
    PROVE  HandlersExact(x)
<1> DEFINE res == x.a.results
           n == Len(res)
           ask == Asked(x.q)
           h == GRPCRead(x.q, x.a)
           j == HTTPRead(x.q, x.a)
           k == MCPRead(x.q, x.a)
<1>1. Responses(x.op, x.q, x.a) = <<h, j, k>> /\ AskedFor(x) = ask /\ x.op = "read"
    BY DEF ReadExchange, Responses, AskedFor
<1>2. h.called = j.called /\ j.called = k.called
    BY ReadsAdmitAlike
<1>3. n \in Nat /\ DOMAIN res = 1 .. n
    BY ListedIs DEF ReadExchange
<1>4. /\ IsList(ask) /\ Len(ask) \in Nat /\ DOMAIN ask = 1 .. Len(ask)
      /\ \A i \in DOMAIN res : res[i].value.fits \in BOOLEAN
  <2>1. Len(x.q.items) \in Nat /\ DOMAIN x.q.items = 1 .. Len(x.q.items)
    BY ListedIs DEF ReadExchange
  <2>2. ask = [i \in 1 .. Len(x.q.items) |-> ask[i]]
    BY <2>1 DEF Asked
  <2>3. IsList(ask)
    BY <2>1, <2>2, BuiltIs
  <2> QED
    BY <2>3, ListedIs DEF ReadExchange
<1>5. /\ Answered(h) => /\ Aligned(ask, res, ReadSound)
                        /\ h.results = [i \in 1 .. n |-> GRPCReadResult(res[i])]
      /\ Answered(j) => /\ Aligned(ask, res, ReadSound)
                        /\ j.results = [i \in 1 .. n |-> JSONReadResult(res[i])]
      /\ Answered(k) => /\ Aligned(ask, res, MCPReadSound)
                        /\ k.results = [i \in 1 .. n |-> JSONReadResult(res[i])]
  <2>1. /\ Answered(h) => /\ Aligned(ask, res, ReadSound)
                          /\ h.results = [i \in DOMAIN res |-> GRPCReadResult(res[i])]
        /\ Answered(j) => /\ Aligned(ask, res, ReadSound)
                          /\ j.results = [i \in DOMAIN res |-> JSONReadResult(res[i])]
        /\ Answered(k) => /\ Aligned(ask, res, MCPReadSound)
                          /\ k.results = [i \in DOMAIN res |-> JSONReadResult(res[i])]
    <3>1. ReadAnswers(x.q, x.a)
        BY ReadsAnswer, Zenon
    <3> QED
        BY <3>1, Zenon DEF ReadAnswers, ReadAnswered
  <2> HIDE DEF h, j, k, ask, res, n
  <2> QED
    BY <1>3, <2>1, Zenon
<1> HIDE DEF h, j, k, ask, n
<1>6. Answered(h) => Right(x, h)
  <2> SUFFICES ASSUME Answered(h)
               PROVE  Right(x, h)
    OBVIOUS
  <2>1. /\ n = Len(ask)
        /\ \A i \in 1 .. n : res[i].item = ask[i] /\ ReadSound(res[i])
    BY <1>4, <1>5 DEF Aligned, n
  <2>2. h.results = [i \in 1 .. n |-> GRPCReadResult(res[i])]
    BY <1>5
  <2>3. Len(h.results) = n /\ DOMAIN h.results = 1 .. n
    BY <1>3, <2>2, BuiltIs
  <2>4. ASSUME NEW i \in 1 .. n
        PROVE  /\ h.results[i].item = ask[i]
               /\ h.results[i].ok => /\ res[i].hresult = "ok" /\ res[i].code = ""
                                     /\ res[i].value.item = ask[i]
    <3>1. h.results[i].item = res[i].item /\ h.results[i].ok = res[i].value.fits
        BY <2>2 DEF GRPCReadResult
    <3>2. res[i].value.fits => res[i].value # NoValue
        BY NoValueIs
    <3> QED
        BY <2>1, <3>1, <3>2 DEF ReadSound, Repeats
  <2> QED
    BY <1>1, <2>1, <2>3, <2>4 DEF Right
<1>7. ASSUME NEW f \in {j, k}, Answered(f)
      PROVE  Right(x, f)
  <2>1. /\ n = Len(ask)
        /\ \A i \in 1 .. n : res[i].item = ask[i] /\ (ReadSound(res[i]) \/ MCPReadSound(res[i]))
    BY <1>4, <1>5, <1>7 DEF Aligned, n
  <2>2. f.results = [i \in 1 .. n |-> JSONReadResult(res[i])]
    BY <1>5, <1>7
  <2>3. Len(f.results) = n /\ DOMAIN f.results = 1 .. n
    BY <1>3, <2>2, BuiltIs
  <2>4. ASSUME NEW i \in 1 .. n
        PROVE  /\ f.results[i].item = ask[i]
               /\ f.results[i].ok => /\ res[i].hresult = "ok" /\ res[i].code = ""
                                     /\ res[i].value.item = ask[i]
    <3> DEFINE ok == res[i].value.fits /\ ~res[i].value.late
                     /\ res[i].code = "" /\ res[i].hresult = "ok"
    <3>0. f.results[i] = [item |-> res[i].item, ok |-> ok, valued |-> ok]
        BY <2>2 DEF JSONReadResult
    <3>1. /\ f.results[i].item = res[i].item
          /\ f.results[i].ok => /\ res[i].value.fits
                                /\ res[i].hresult = "ok" /\ res[i].code = ""
      <4> HIDE DEF ok
      <4>1. f.results[i].item = res[i].item /\ f.results[i].ok = ok
        BY <3>0
      <4> QED
        BY <4>1 DEF ok
    <3>2. res[i].value.fits => res[i].value # NoValue
        BY NoValueIs
    <3> QED
        BY <2>1, <3>1, <3>2 DEF ReadSound, MCPReadSound, Repeats
  <2> QED
    BY <1>1, <2>1, <2>3, <2>4 DEF Right
<1>8. ASSUME NEW f \in {j, k}
      PROVE  Alike(x, h, f)
  <2> SUFFICES ASSUME Answered(h), Answered(f), ~Late(x)
               PROVE  h.results = f.results
    BY DEF Alike
  <2>1. \A i \in 1 .. n : ReadSound(res[i]) /\ ~res[i].value.late
    <3>1. /\ Len(res) = Len(ask)
          /\ \A i \in DOMAIN ask : res[i].item = ask[i] /\ ReadSound(res[i])
        BY <1>5 DEF Aligned
    <3>2. DOMAIN ask = 1 .. n
        BY <1>4, <3>1 DEF n
    <3> QED
        BY <1>1, <1>3, <3>1, <3>2 DEF Late
  <2>2. ASSUME NEW i \in 1 .. n
        PROVE  GRPCReadResult(res[i]) = JSONReadResult(res[i])
    <3>1. res[i].value.fits \in BOOLEAN
        BY <1>3, <1>4
    <3>2. res[i].value.fits => res[i].hresult = "ok" /\ res[i].code = ""
        BY <2>1, NoValueIs DEF ReadSound
    <3> DEFINE ok == res[i].value.fits /\ ~res[i].value.late
                     /\ res[i].code = "" /\ res[i].hresult = "ok"
    <3>3. ok = res[i].value.fits
        BY <2>1, <3>1, <3>2
    <3>4. JSONReadResult(res[i]) = [item |-> res[i].item, ok |-> ok, valued |-> ok]
        BY Zenon DEF JSONReadResult
    <3> HIDE DEF ok
    <3> QED
        BY <3>3, <3>4 DEF GRPCReadResult
  <2> QED
    BY <1>5, <2>2
<1>9. Alike(x, j, k)
    BY <1>5 DEF Alike
<1> QED
    BY <1>1, <1>2, <1>6, <1>7, <1>8, <1>9, ExactFrom

-----------------------------------------------------------------------------
(* Write *)

\* A write of a list of texts with values.
WriteExchange(x) ==
    /\ x.op = "write" /\ IsList(x.q.items) /\ IsList(x.a.results)
    /\ \A i \in DOMAIN x.q.items : /\ "utf8" \notin x.q.items[i].item.flaws
                                   /\ x.q.items[i].value \in {"", "misfit", "fits"}

\* A write no frontend refuses.
FitsWrite(w) == w.type # "" /\ w.value = "fits" /\ Flawless(w.item)

\* What each frontend makes of an item to write.
LEMMA WriteItemsAre ==
    ASSUME NEW w, "utf8" \notin w.item.flaws, w.value \in {"", "misfit", "fits"}
    PROVE  /\ GRPCWriteItem(w) = "" <=> FitsWrite(w)
           /\ HTTPWriteItem(w) = "" <=> FitsWrite(w)
           /\ MCPWriteItem(w) = "" <=> FitsWrite(w)
<1> DEFINE a == Check(w.type = "" \/ w.value = "", Invalid)
           b == Check(w.value = "misfit", "TYPE_MISMATCH")
           c == Check(w.type = "", Invalid)
           d == Check(w.value = "", Invalid)
           e == Check(w.value = "misfit", "INVALID_VALUE")
           f == Check(w.value # "fits", "INVALID_VALUE")
           g == GRPCText(w.item)
           h == HTTPItem(w.item)
           m == MCPText(w.item)
<1>1. /\ a = "" <=> w.type # "" /\ w.value # ""
      /\ b = "" <=> w.value # "misfit"
      /\ c = "" <=> w.type # ""
      /\ d = "" <=> w.value # ""
      /\ e = "" <=> w.value # "misfit"
      /\ f = "" <=> w.value = "fits"
    BY DEF Check, Invalid
<1>2. (g = "" <=> Flawless(w.item)) /\ (h = "" <=> Flawless(w.item))
      /\ (m = "" <=> Flawless(w.item))
    BY TextsAre
<1>3. /\ GRPCWriteItem(w) = First(<<a, g, b>>)
      /\ HTTPWriteItem(w) = First(<<h, c, d, e>>)
      /\ MCPWriteItem(w) = First(<<m, c, f>>)
    BY Zenon DEF GRPCWriteItem, HTTPWriteItem, MCPWriteItem
<1> HIDE DEF a, b, c, d, e, f, g, h, m
<1>4. /\ First(<<a, g, b>>) = "" <=> a = "" /\ g = "" /\ b = ""
      /\ First(<<h, c, d, e>>) = "" <=> h = "" /\ c = "" /\ d = "" /\ e = ""
      /\ First(<<m, c, f>>) = "" <=> m = "" /\ c = "" /\ f = ""
  <2>1. First(<<a, g, b>>) = "" <=> a = "" /\ g = "" /\ b = ""
    BY First3, Zenon
  <2>2. First(<<h, c, d, e>>) = "" <=> h = "" /\ c = "" /\ d = "" /\ e = ""
    BY First4, Zenon
  <2>3. First(<<m, c, f>>) = "" <=> m = "" /\ c = "" /\ f = ""
    BY First3, Zenon
  <2> QED
    BY <2>1, <2>2, <2>3
<1>5. w.value = "" \/ w.value = "misfit" \/ w.value = "fits"
    OBVIOUS
<1> QED
    BY <1>1, <1>2, <1>3, <1>4, <1>5 DEF FitsWrite

\* A loop over the items to write.
LEMMA WriteListsAre ==
    ASSUME NEW s, IsList(s),
           \A i \in DOMAIN s : "utf8" \notin s[i].item.flaws
                               /\ s[i].value \in {"", "misfit", "fits"}
    PROVE  LET fits == \A i \in DOMAIN s : FitsWrite(s[i])
           IN  /\ FirstOf(GRPCWriteItem, s) = "" <=> fits
               /\ FirstOf(HTTPWriteItem, s) = "" <=> fits
               /\ FirstOf(MCPWriteItem, s) = "" <=> fits
<1> DEFINE g == [i \in DOMAIN s |-> GRPCWriteItem(s[i])]
           h == [i \in DOMAIN s |-> HTTPWriteItem(s[i])]
           m == [i \in DOMAIN s |-> MCPWriteItem(s[i])]
<1>1. DOMAIN s \subseteq Nat
    BY ListedIs, Zenon
<1>2. /\ FirstOf(GRPCWriteItem, s) = First(g) /\ FirstOf(HTTPWriteItem, s) = First(h)
      /\ FirstOf(MCPWriteItem, s) = First(m)
    BY Zenon DEF FirstOf, Each
<1>3. /\ DOMAIN g = DOMAIN s /\ \A i \in DOMAIN s : g[i] = "" <=> FitsWrite(s[i])
      /\ DOMAIN h = DOMAIN s /\ \A i \in DOMAIN s : h[i] = "" <=> FitsWrite(s[i])
      /\ DOMAIN m = DOMAIN s /\ \A i \in DOMAIN s : m[i] = "" <=> FitsWrite(s[i])
    BY WriteItemsAre
<1> HIDE DEF g, h, m
<1>4. /\ First(g) = "" <=> \A i \in DOMAIN s : g[i] = ""
      /\ First(h) = "" <=> \A i \in DOMAIN s : h[i] = ""
      /\ First(m) = "" <=> \A i \in DOMAIN s : m[i] = ""
  <2>1. First(g) = "" <=> \A i \in DOMAIN s : g[i] = ""
    BY <1>1, <1>3, FirstIs, Zenon
  <2>2. First(h) = "" <=> \A i \in DOMAIN s : h[i] = ""
    BY <1>1, <1>3, FirstIs, Zenon
  <2>3. First(m) = "" <=> \A i \in DOMAIN s : m[i] = ""
    BY <1>1, <1>3, FirstIs, Zenon
  <2> QED
    BY <2>1, <2>2, <2>3
<1> QED
    BY <1>2, <1>3, <1>4, Zenon

\* The three frontends refuse the same writes.
LEMMA WritesAdmitAlike ==
    ASSUME NEW x, WriteExchange(x)
    PROVE  /\ GRPCWrite(x.q, x.a).called = HTTPWrite(x.q, x.a).called
           /\ HTTPWrite(x.q, x.a).called = MCPWrite(x.q, x.a).called
<1> DEFINE items == x.q.items
           n == Len(items)
           fits == \A i \in DOMAIN items : FitsWrite(items[i])
           given == \A i \in DOMAIN items : /\ items[i].type # "" /\ items[i].value # ""
                                            /\ "empty" \notin items[i].item.flaws
           off == Disabled(x.q)
           size == BatchSize(n)
           mcp == MCPBatchSize(n)
           schema == Schema(items # <<>> /\ given)
           g == FirstOf(GRPCWriteItem, items)
           h == FirstOf(HTTPWriteItem, items)
           m == FirstOf(MCPWriteItem, items)
           flaw == Check(~Aligned(WrittenIDs(x.q), x.a.results, WriteSound), Mismatch)
           shown == Each(WriteResult, x.a.results)
<1>1. /\ GRPCWrite(x.q, x.a) = Handle(First(<<off, size, g>>), x.a, flaw, shown)
      /\ HTTPWrite(x.q, x.a) = Handle(First(<<off, size, h>>), x.a, flaw, shown)
      /\ MCPWrite(x.q, x.a) = Handle(First(<<schema, off, mcp, m>>), x.a, flaw, shown)
    BY Zenon DEF GRPCWrite, HTTPWrite, MCPWrite
<1>2. (g = "" <=> fits) /\ (h = "" <=> fits) /\ (m = "" <=> fits)
    BY WriteListsAre, Zenon DEF WriteExchange
<1>3. n \in Nat /\ (items = <<>> <=> n = 0)
    BY ListedIs DEF WriteExchange
<1>4. (size = "" <=> n \in 1 .. MaxBatch) /\ (mcp = "" <=> n \in 1 .. MaxBatch)
    BY <1>3, SizesAre
<1>6. fits => given
    BY DEF FitsWrite, Flawless
<1> HIDE DEF size, mcp, g, h, m, fits, given, n, items, flaw, shown, off
<1>5. schema = "" <=> items # <<>> /\ given
    BY DEF Schema, Check, Invalid
<1> HIDE DEF schema
<1>7. /\ First(<<off, size, g>>) = "" <=> off = "" /\ size = "" /\ g = ""
      /\ First(<<off, size, h>>) = "" <=> off = "" /\ size = "" /\ h = ""
      /\ First(<<schema, off, mcp, m>>) = "" <=> schema = "" /\ off = "" /\ mcp = "" /\ m = ""
  <2>1. First(<<off, size, g>>) = "" <=> off = "" /\ size = "" /\ g = ""
    BY First3, Zenon
  <2>2. First(<<off, size, h>>) = "" <=> off = "" /\ size = "" /\ h = ""
    BY First3, Zenon
  <2>3. First(<<schema, off, mcp, m>>) = "" <=>
           schema = "" /\ off = "" /\ mcp = "" /\ m = ""
    BY First4, Zenon
  <2> QED
    BY <2>1, <2>2, <2>3
<1>8. n \in 1 .. MaxBatch => n # 0
    OBVIOUS
<1>9. /\ Handled(GRPCWrite(x.q, x.a), First(<<off, size, g>>), flaw, shown)
      /\ Handled(HTTPWrite(x.q, x.a), First(<<off, size, h>>), flaw, shown)
      /\ Handled(MCPWrite(x.q, x.a), First(<<schema, off, mcp, m>>), flaw, shown)
    BY <1>1, HandleIs, Zenon
<1> QED
    BY <1>2, <1>3, <1>4, <1>5, <1>6, <1>7, <1>8, <1>9 DEF Handled

\* A write that is answered has one result for each item.
WriteAnswered(h, q, a) ==
    Answered(h) => /\ Aligned(WrittenIDs(q), a.results, WriteSound)
                   /\ h.results = [i \in DOMAIN a.results |-> WriteResult(a.results[i])]

\* What the frontends make of the answer to a write.
LEMMA WritesAnswer ==
    \A q, a : /\ WriteAnswered(GRPCWrite(q, a), q, a)
              /\ WriteAnswered(HTTPWrite(q, a), q, a)
              /\ WriteAnswered(MCPWrite(q, a), q, a)
<1> SUFFICES ASSUME NEW q, NEW a
             PROVE  /\ WriteAnswered(GRPCWrite(q, a), q, a)
                    /\ WriteAnswered(HTTPWrite(q, a), q, a)
                    /\ WriteAnswered(MCPWrite(q, a), q, a)
    BY Zenon
<1> DEFINE aligned == Aligned(WrittenIDs(q), a.results, WriteSound)
           flaw == Check(~aligned, Mismatch)
           shown == [i \in DOMAIN a.results |-> WriteResult(a.results[i])]
           given == \A i \in DOMAIN q.items : /\ q.items[i].type # "" /\ q.items[i].value # ""
                                              /\ "empty" \notin q.items[i].item.flaws
           g == First(<<Disabled(q), BatchSize(Len(q.items)), FirstOf(GRPCWriteItem, q.items)>>)
           h == First(<<Disabled(q), BatchSize(Len(q.items)), FirstOf(HTTPWriteItem, q.items)>>)
           m == First(<<Schema(q.items # <<>> /\ given), Disabled(q),
                        MCPBatchSize(Len(q.items)), FirstOf(MCPWriteItem, q.items)>>)
<1>1. /\ GRPCWrite(q, a) = Handle(g, a, flaw, shown)
      /\ HTTPWrite(q, a) = Handle(h, a, flaw, shown)
      /\ MCPWrite(q, a) = Handle(m, a, flaw, shown)
    BY Zenon DEF GRPCWrite, HTTPWrite, MCPWrite, Each
<1> HIDE DEF g, h, m, aligned, shown
<1>2. flaw = "" <=> aligned
    BY DEF Check, Mismatch
<1> HIDE DEF flaw
<1>3. /\ Handled(GRPCWrite(q, a), g, flaw, shown)
      /\ Handled(HTTPWrite(q, a), h, flaw, shown)
      /\ Handled(MCPWrite(q, a), m, flaw, shown)
    BY <1>1, HandleIs, Zenon
<1> QED
    BY <1>2, <1>3, Zenon DEF Handled, Answered, WriteAnswered, aligned, shown

\* Whatever is written and whatever the runtime answers, the handlers are exact.
LEMMA WriteExact ==
    ASSUME NEW x, WriteExchange(x)
    PROVE  HandlersExact(x)
<1> DEFINE res == x.a.results
           n == Len(res)
           ask == WrittenIDs(x.q)
           h == GRPCWrite(x.q, x.a)
           j == HTTPWrite(x.q, x.a)
           k == MCPWrite(x.q, x.a)
<1>1. Responses(x.op, x.q, x.a) = <<h, j, k>> /\ AskedFor(x) = ask /\ x.op = "write"
    BY DEF WriteExchange, Responses, AskedFor
<1>2. h.called = j.called /\ j.called = k.called
    BY WritesAdmitAlike
<1>3. n \in Nat /\ DOMAIN res = 1 .. n
    BY ListedIs DEF WriteExchange
<1>4. Len(ask) \in Nat /\ DOMAIN ask = 1 .. Len(ask)
  <2>1. Len(x.q.items) \in Nat /\ DOMAIN x.q.items = 1 .. Len(x.q.items)
    BY ListedIs DEF WriteExchange
  <2>2. ask = [i \in 1 .. Len(x.q.items) |-> ask[i]]
    BY <2>1 DEF WrittenIDs
  <2>3. IsList(ask)
    BY <2>1, <2>2, BuiltIs
  <2> QED
    BY <2>3, ListedIs
<1>5. WriteAnswered(h, x.q, x.a) /\ WriteAnswered(j, x.q, x.a) /\ WriteAnswered(k, x.q, x.a)
    BY WritesAnswer, Zenon
<1> HIDE DEF h, j, k, n
<1>6. ASSUME NEW f \in {h, j, k}, Answered(f)
      PROVE  /\ Aligned(ask, res, WriteSound)
             /\ f.results = [i \in 1 .. n |-> WriteResult(res[i])]
             /\ Right(x, f)
  <2>1. /\ Aligned(ask, res, WriteSound)
        /\ f.results = [i \in DOMAIN res |-> WriteResult(res[i])]
    BY <1>5, <1>6 DEF WriteAnswered
  <2>2. f.results = [i \in 1 .. n |-> WriteResult(res[i])]
    BY <1>3, <2>1
  <2> HIDE DEF ask
  <2>3. n = Len(ask) /\ \A i \in 1 .. n : res[i].item = ask[i]
    BY <1>4, <2>1 DEF Aligned, n
  <2>4. Len(f.results) = n /\ DOMAIN f.results = 1 .. n
    BY <1>3, <2>2, BuiltIs
  <2>5. ASSUME NEW i \in 1 .. n
        PROVE  /\ f.results[i].item = ask[i]
               /\ f.results[i].ok => res[i].hresult = "ok" /\ res[i].code = ""
    <3> DEFINE ok == res[i].code = "" /\ res[i].hresult = "ok"
    <3>1. f.results[i] = [item |-> res[i].item, ok |-> ok, valued |-> FALSE]
        BY <2>2 DEF WriteResult
    <3>2. f.results[i].item = res[i].item /\ (f.results[i].ok => ok)
      <4> HIDE DEF ok
      <4> QED
        BY <3>1
    <3> QED
        BY <2>3, <3>2
  <2>6. ask = AskedFor(x)
    BY <1>1 DEF ask
  <2>7. Right(x, f)
    <3> HIDE DEF res
    <3>1. Len(f.results) = Len(AskedFor(x)) /\ DOMAIN f.results = 1 .. n
      BY <2>3, <2>4, <2>6
    <3>2. \A i \in 1 .. n : f.results[i].item = AskedFor(x)[i]
      BY <2>5, <2>6
    <3>3. \A i \in 1 .. n : f.results[i].ok =>
                x.a.results[i].hresult = "ok" /\ x.a.results[i].code = ""
      BY <2>5 DEF res
    <3>4. x.op # "read"
      BY <1>1
    <3> QED
      BY <3>1, <3>2, <3>3, <3>4 DEF Right
  <2> QED
    BY <2>1, <2>2, <2>7
<1>7. Alike(x, h, j) /\ Alike(x, h, k) /\ Alike(x, j, k)
    BY <1>6 DEF Alike
<1> QED
    BY <1>1, <1>2, <1>6, <1>7, ExactFrom

-----------------------------------------------------------------------------
(* Properties of an item *)

\* A query of the available properties of an item.
AvailableExchange(x) ==
    /\ x.op = "available" /\ "utf8" \notin x.q.item.flaws /\ IsList(x.a.results)

\* One text is a list of one for the schema.
LEMMA SchemaOfOne ==
    ASSUME NEW t
    PROVE  NonEmpty(<<t>>) <=> "empty" \notin t.flaws
<1> DEFINE s == <<t>>
<1>1. DOMAIN s = {1} /\ s[1] = t
    OBVIOUS
<1> HIDE DEF s
<1>2. NonEmpty(s) <=> "empty" \notin t.flaws
    BY <1>1 DEF NonEmpty
<1> QED
    BY <1>2 DEF s

\* Whatever properties are available, the handlers are exact.
LEMMA AvailableExact ==
    ASSUME NEW x, AvailableExchange(x)
    PROVE  HandlersExact(x)
<1> DEFINE res == x.a.results
           t == x.q.item
           g == GRPCText(t)
           p == HTTPText(t)
           schema == Schema(NonEmpty(<<t>>))
           m == MCPText(t)
           flaw == Check(Len(res) > MaxBatch, Limit)
           ask == [i \in DOMAIN res |-> res[i].item]
           h == GRPCAvailable(x.q, x.a)
           j == HTTPAvailable(x.q, x.a)
           k == MCPAvailable(x.q, x.a)
<1>1. Responses(x.op, x.q, x.a) = <<h, j, k>> /\ AskedFor(x) = ask /\ x.op = "available"
    BY DEF AvailableExchange, Responses, AskedFor
<1>2. /\ h = Handle(g, x.a, "", res)
      /\ j = Handle(p, x.a, flaw, res)
      /\ k = Handle(First(<<schema, m>>), x.a, flaw, res)
    BY Zenon DEF GRPCAvailable, HTTPAvailable, MCPAvailable
<1>3. (g = "" <=> Flawless(t)) /\ (p = "" <=> Flawless(t)) /\ (m = "" <=> Flawless(t))
    BY TextsAre DEF AvailableExchange
<1>4. schema = "" <=> "empty" \notin t.flaws
  <2>1. NonEmpty(<<t>>) <=> "empty" \notin t.flaws
    BY SchemaOfOne, Zenon
  <2> QED
    BY <2>1 DEF Schema, Check, Invalid
<1>5. Flawless(t) => "empty" \notin t.flaws
    BY DEF Flawless
<1>6. Len(res) \in Nat /\ DOMAIN res = 1 .. Len(res)
    BY ListedIs DEF AvailableExchange
<1>7. Len(ask) = Len(res)
  <2>1. ask = [i \in 1 .. Len(res) |-> ask[i]]
    BY <1>6
  <2> HIDE DEF ask
  <2> QED
    BY <1>6, <2>1, BuiltIs
<1>8. DOMAIN ask = DOMAIN res /\ \A i \in DOMAIN res : res[i].item = ask[i]
    OBVIOUS
<1> HIDE DEF h, j, k, g, p, m, schema, flaw, t, ask, res
<1>9. First(<<schema, m>>) = "" <=> schema = "" /\ m = ""
    BY First2, Zenon
<1>10. /\ Handled(h, g, "", res) /\ Handled(j, p, flaw, res)
       /\ Handled(k, First(<<schema, m>>), flaw, res)
    BY <1>2, HandleIs, Zenon
<1>11. h.called = j.called /\ j.called = k.called
    BY <1>3, <1>4, <1>5, <1>9, <1>10 DEF Handled
<1>12. ASSUME NEW f \in {h, j, k}, Answered(f)
       PROVE  f.results = res /\ Right(x, f)
  <2>1. f.results = res
    BY <1>10, <1>12 DEF Handled, Answered
  <2> QED
    BY <1>1, <1>7, <1>8, <2>1 DEF Right
<1>13. Alike(x, h, j) /\ Alike(x, h, k) /\ Alike(x, j, k)
    BY <1>12 DEF Alike
<1> QED
    BY <1>1, <1>11, <1>12, <1>13, ExactFrom

\* A read of properties of an item.
PropertiesExchange(x) ==
    /\ x.op = "properties" /\ "utf8" \notin x.q.item.flaws
    /\ IsList(x.q.ids) /\ IsList(x.a.results)

\* Whatever properties are read, the handlers are exact.
LEMMA PropertiesExact ==
    ASSUME NEW x, PropertiesExchange(x)
    PROVE  HandlersExact(x)
<1> DEFINE res == x.a.results
           t == x.q.item
           ask == x.q.ids
           n == Len(ask)
           g == GRPCText(t)
           p == HTTPText(t)
           m == MCPText(t)
           size == BatchSize(n)
           mcp == MCPBatchSize(n)
           schema == Schema(NonEmpty(<<t>>) /\ ask # <<>>)
           aligned == Aligned(ask, res, AnyResult)
           flaw == Check(~aligned, Mismatch)
           shown == [i \in DOMAIN res |-> PropertyResult(res[i])]
           h == GRPCProperties(x.q, x.a)
           j == HTTPProperties(x.q, x.a)
           k == MCPProperties(x.q, x.a)
<1>1. Responses(x.op, x.q, x.a) = <<h, j, k>> /\ AskedFor(x) = ask /\ x.op = "properties"
    BY DEF PropertiesExchange, Responses, AskedFor
<1>2. /\ h = Handle(First(<<g, size>>), x.a, flaw, shown)
      /\ j = Handle(First(<<p, size>>), x.a, flaw, shown)
      /\ k = Handle(First(<<schema, m, mcp>>), x.a, flaw, shown)
    BY Zenon DEF GRPCProperties, HTTPProperties, MCPProperties, Each
<1>3. (g = "" <=> Flawless(t)) /\ (p = "" <=> Flawless(t)) /\ (m = "" <=> Flawless(t))
    BY TextsAre DEF PropertiesExchange
<1>4. schema = "" <=> "empty" \notin t.flaws /\ ask # <<>>
  <2>1. NonEmpty(<<t>>) <=> "empty" \notin t.flaws
    BY SchemaOfOne, Zenon
  <2> QED
    BY <2>1 DEF Schema, Check, Invalid
<1>5. Flawless(t) => "empty" \notin t.flaws
    BY DEF Flawless
<1>6. n \in Nat /\ (ask = <<>> <=> n = 0) /\ DOMAIN ask = 1 .. n
    BY ListedIs DEF PropertiesExchange
<1>7. Len(res) \in Nat /\ DOMAIN res = 1 .. Len(res)
    BY ListedIs DEF PropertiesExchange
<1>8. (size = "" <=> n \in 1 .. MaxBatch) /\ (mcp = "" <=> n \in 1 .. MaxBatch)
    BY <1>6, SizesAre
<1> HIDE DEF aligned
<1>9. flaw = "" <=> aligned
    BY DEF Check, Mismatch
<1>10. shown = [i \in 1 .. Len(res) |-> PropertyResult(res[i])]
    BY <1>7, Zenon
<1> HIDE DEF h, j, k, g, p, m, size, mcp, schema, flaw, t, ask, res, n, shown
<1>11. /\ First(<<g, size>>) = "" <=> g = "" /\ size = ""
       /\ First(<<p, size>>) = "" <=> p = "" /\ size = ""
       /\ First(<<schema, m, mcp>>) = "" <=> schema = "" /\ m = "" /\ mcp = ""
  <2>1. First(<<g, size>>) = "" <=> g = "" /\ size = ""
    BY First2, Zenon
  <2>2. First(<<p, size>>) = "" <=> p = "" /\ size = ""
    BY First2, Zenon
  <2>3. First(<<schema, m, mcp>>) = "" <=> schema = "" /\ m = "" /\ mcp = ""
    BY First3, Zenon
  <2> QED
    BY <2>1, <2>2, <2>3
<1>12. /\ Handled(h, First(<<g, size>>), flaw, shown)
       /\ Handled(j, First(<<p, size>>), flaw, shown)
       /\ Handled(k, First(<<schema, m, mcp>>), flaw, shown)
    BY <1>2, HandleIs, Zenon
<1>13. n \in 1 .. MaxBatch => n # 0
    OBVIOUS
<1>14. h.called = j.called /\ j.called = k.called
    BY <1>3, <1>4, <1>5, <1>6, <1>8, <1>11, <1>12, <1>13 DEF Handled
<1>15. ASSUME NEW f \in {h, j, k}, Answered(f)
       PROVE  f.results = shown /\ Right(x, f)
  <2>1. f.results = shown /\ aligned
    BY <1>9, <1>12, <1>15 DEF Handled, Answered
  <2>2. Len(res) = n /\ \A i \in 1 .. n : res[i].item = ask[i]
    BY <1>6, <2>1 DEF aligned, Aligned, n
  <2>3. Len(shown) = n /\ DOMAIN shown = 1 .. n
    BY <1>6, <1>10, <2>2, BuiltIs
  <2>4. \A i \in 1 .. n : shown[i].item = ask[i]
    BY <1>10, <2>2 DEF PropertyResult
  <2> QED
    BY <1>1, <2>1, <2>3, <2>4 DEF Right, n
<1>16. Alike(x, h, j) /\ Alike(x, h, k) /\ Alike(x, j, k)
    BY <1>15 DEF Alike
<1> QED
    BY <1>1, <1>14, <1>15, <1>16, ExactFrom

-----------------------------------------------------------------------------
(* Browse *)

\* A browse of a position.
BrowseExchange(x) ==
    /\ x.op = "browse" /\ IsList(x.q.path) /\ IsList(x.a.entries)
    /\ \A i \in DOMAIN x.q.path : "utf8" \notin x.q.path[i].flaws

\* Whatever is browsed, the handlers are exact.
LEMMA BrowseExact ==
    ASSUME NEW x, BrowseExchange(x)
    PROVE  HandlersExact(x)
<1> DEFINE res == x.a.entries
           path == x.q.path
           fits == \A i \in DOMAIN path : Flawless(path[i])
           ask == [i \in DOMAIN res |-> res[i].item.id]
           deep == Check(Len(path) > MaxBrowseDepth, Limit)
           odd == Check(x.q.filter \notin Filters, Invalid)
           g == FirstOf(GRPCText, path)
           p == FirstOf(HTTPText, path)
           m == FirstOf(MCPText, path)
           schema == Schema(NonEmpty(path) /\ x.q.filter \in Filters)
           shown == [i \in DOMAIN res |-> Entry(res[i])]
           h == GRPCBrowse(x.q, x.a)
           j == HTTPBrowse(x.q, x.a)
           k == MCPBrowse(x.q, x.a)
<1>1. Responses(x.op, x.q, x.a) = <<h, j, k>> /\ AskedFor(x) = ask /\ x.op = "browse"
    BY DEF BrowseExchange, Responses, AskedFor
<1>2. \E a, b, c : /\ h = Handle(First(<<deep, g, odd>>), x.a, a, shown)
                   /\ j = Handle(First(<<odd, deep, p>>), x.a, b, shown)
                   /\ k = Handle(First(<<schema, deep, m>>), x.a, c, shown)
  <2>1. \E a : h = Handle(First(<<deep, g, odd>>), x.a, a, shown)
    BY Zenon DEF GRPCBrowse, Each
  <2>2. \E b : j = Handle(First(<<odd, deep, p>>), x.a, b, shown)
    BY Zenon DEF HTTPBrowse, Each
  <2>3. \E c : k = Handle(First(<<schema, deep, m>>), x.a, c, shown)
    BY Zenon DEF MCPBrowse, Each
  <2> HIDE DEF h, j, k, deep, odd, g, p, m, schema, shown
  <2> QED
    BY <2>1, <2>2, <2>3
<1>3. (g = "" <=> fits) /\ (p = "" <=> fits) /\ (m = "" <=> fits)
    BY TextListsAre, Zenon DEF BrowseExchange
<1>4. (odd = "" <=> x.q.filter \in Filters)
      /\ (schema = "" <=> NonEmpty(path) /\ x.q.filter \in Filters)
    BY DEF Schema, Check, Invalid
<1>5. fits => NonEmpty(path)
    BY NonEmptyIs
<1>6. Len(res) \in Nat /\ DOMAIN res = 1 .. Len(res)
    BY ListedIs DEF BrowseExchange
<1>7. ask = [i \in 1 .. Len(res) |-> res[i].item.id]
      /\ shown = [i \in 1 .. Len(res) |-> Entry(res[i])]
    BY <1>6, Zenon
<1>8. PICK a, b, c : /\ h = Handle(First(<<deep, g, odd>>), x.a, a, shown)
                     /\ j = Handle(First(<<odd, deep, p>>), x.a, b, shown)
                     /\ k = Handle(First(<<schema, deep, m>>), x.a, c, shown)
    BY <1>2, Zenon
<1> HIDE DEF h, j, k, g, p, m, deep, odd, schema, fits, path, ask, res, shown
<1>9. /\ Handled(h, First(<<deep, g, odd>>), a, shown)
      /\ Handled(j, First(<<odd, deep, p>>), b, shown)
      /\ Handled(k, First(<<schema, deep, m>>), c, shown)
    BY <1>8, HandleIs, Zenon
<1>10. /\ First(<<deep, g, odd>>) = "" <=> deep = "" /\ g = "" /\ odd = ""
       /\ First(<<odd, deep, p>>) = "" <=> odd = "" /\ deep = "" /\ p = ""
       /\ First(<<schema, deep, m>>) = "" <=> schema = "" /\ deep = "" /\ m = ""
  <2>1. First(<<deep, g, odd>>) = "" <=> deep = "" /\ g = "" /\ odd = ""
    BY First3, Zenon
  <2>2. First(<<odd, deep, p>>) = "" <=> odd = "" /\ deep = "" /\ p = ""
    BY First3, Zenon
  <2>3. First(<<schema, deep, m>>) = "" <=> schema = "" /\ deep = "" /\ m = ""
    BY First3, Zenon
  <2> QED
    BY <2>1, <2>2, <2>3
<1>11. h.called = j.called /\ j.called = k.called
    BY <1>3, <1>4, <1>5, <1>9, <1>10 DEF Handled
<1>12. ASSUME NEW f \in {h, j, k}, Answered(f)
       PROVE  f.results = shown /\ Right(x, f)
  <2>1. f.results = shown
    BY <1>9, <1>12 DEF Handled, Answered
  <2>2. Len(shown) = Len(res) /\ Len(ask) = Len(res) /\ DOMAIN shown = 1 .. Len(res)
    BY <1>6, <1>7, BuiltIs
  <2>3. \A i \in 1 .. Len(res) : shown[i].item = ask[i]
    BY <1>7 DEF Entry
  <2> QED
    BY <1>1, <2>1, <2>2, <2>3 DEF Right
<1>13. Alike(x, h, j) /\ Alike(x, h, k) /\ Alike(x, j, k)
    BY <1>12 DEF Alike
<1> QED
    BY <1>1, <1>11, <1>12, <1>13, ExactFrom

-----------------------------------------------------------------------------
(* The exchanges tried are such exchanges *)

\* The bounded lists of a run are lists.
LEMMA UpToListed ==
    ASSUME NEW n, NEW S, NEW s \in UpTo(n, S)
    PROVE  IsList(s) /\ \A i \in DOMAIN s : s[i] \in S
<1>1. PICK k \in 0 .. n : s \in [1 .. k -> S]
    BY Zenon DEF UpTo
<1>2. k \in Nat
    BY <1>1
<1>3. s \in Seq(S)
    BY <1>1, <1>2
<1> QED
    BY <1>1, <1>3 DEF IsList

\* The texts of a request are sets of flaws.
LEMMA RequestTextsAre ==
    ASSUME NEW t \in RequestTexts
    PROVE  "utf8" \notin t.flaws
<1>1. PICK id, f : t = [id |-> id, flaws |-> f]
                   /\ f \in {{}, {"empty"}, {"nul"}, {"long"}, {"nul", "long"}}
    BY DEF RequestTexts, Text, PlainA
<1> QED
    BY <1>1

\* A list of texts is a list.
LEMMA RequestListed ==
    ASSUME NEW n, NEW s \in UpTo(n, RequestTexts)
    PROVE  IsList(s) /\ \A i \in DOMAIN s : "utf8" \notin s[i].flaws
BY UpToListed, RequestTextsAre, Zenon

\* Lists of one and of two.
LEMMA ShortLists ==
    ASSUME NEW S, NEW a \in S, NEW b \in S
    PROVE  <<>> \in UpTo(2, S) /\ <<a>> \in UpTo(2, S) /\ <<a, b>> \in UpTo(2, S)
<1>1. <<>> \in [1 .. 0 -> S] /\ <<a>> \in [1 .. 1 -> S] /\ <<a, b>> \in [1 .. 2 -> S]
    OBVIOUS
<1>2. 0 \in 0 .. 2 /\ 1 \in 0 .. 2 /\ 2 \in 0 .. 2
    OBVIOUS
<1> QED
    BY <1>1, <1>2, Zenon DEF UpTo

\* The answers without a value are lists.
LEMMA PlainListed ==
    ASSUME NEW s \in {<<>>, <<PlainA>>, <<PlainB>>, <<PlainA, PlainB>>, <<PlainB, PlainA>>}
    PROVE  IsList(s) /\ \A i \in DOMAIN s : "utf8" \notin s[i].flaws
<1> DEFINE S == {PlainA, PlainB}
<1>1. PlainA \in S /\ PlainB \in S
    OBVIOUS
<1>2. \A t \in S : "utf8" \notin t.flaws
    BY DEF PlainA, PlainB, Text
<1> HIDE DEF S
<1>3. s \in UpTo(2, S)
    BY <1>1, ShortLists
<1>4. IsList(s) /\ \A i \in DOMAIN s : s[i] \in S
    BY <1>3, UpToListed
<1> QED
    BY <1>2, <1>4

\* The empty list is a list.
LEMMA EmptyListed == IsList(<<>>)
BY DEF IsList

\* The exchanges a run tries are exchanges of the lemmas above: browse,
LEMMA BrowsesAre ==
    ASSUME NEW x \in BrowseExchanges
    PROVE  BrowseExchange(x)
<1> DEFINE entries == [name : AnswerTexts, kind : Kinds \cup {"odd"}, item : AnswerTexts]
<1>1. /\ x.op = "browse"
      /\ \/ x.q.path \in UpTo(MaxBrowseDepth + 1, RequestTexts)
         \/ x.q.path \in {<<>>, <<PlainA>>}
      /\ x.a.entries = <<>> \/ x.a.entries \in UpTo(1, entries)
  <2> HIDE DEF entries
  <2> QED
    BY DEF BrowseExchanges, NoReply, Replies, Branches, entries
<1> HIDE DEF entries
<1>2. IsList(x.a.entries)
    BY <1>1, EmptyListed, UpToListed
<1>3. IsList(x.q.path) /\ \A i \in DOMAIN x.q.path : "utf8" \notin x.q.path[i].flaws
    BY <1>1, RequestListed, PlainListed
<1> QED
    BY <1>1, <1>2, <1>3 DEF BrowseExchange

\* read,
LEMMA ReadsAre ==
    ASSUME NEW x \in ReadExchanges
    PROVE  ReadExchange(x)
<1> DEFINE P == PlainResults
           S == ReadResults \cup P
<1>1. /\ x.op = "read"
      /\ \/ x.q.items \in UpTo(MaxBatch + 1, RequestTexts)
         \/ x.q.items \in {<<PlainA>>, <<PlainB>>, <<PlainA, PlainB>>, <<PlainB, PlainA>>}
      /\ \/ x.a.results = <<>> \/ x.a.results \in UpTo(1, ReadResults)
         \/ x.a.results \in UpTo(2, P)
  <2> HIDE DEF S
  <2> DEFINE A == Replies({"", "E"}, {<<>>})
             B == Replies({""}, UpTo(1, ReadResults))
             C == Replies({""}, UpTo(2, P))
             Q == [items : UpTo(MaxBatch + 1, RequestTexts)]
             R == [items : {<<PlainA>>, <<PlainB>>}]
             T == [items : {<<PlainA>>, <<PlainA, PlainB>>, <<PlainB, PlainA>>}]
  <2>1. x \in [op : {"read"}, a : A, q : Q] \cup [op : {"read"}, a : B, q : R]
             \cup [op : {"read"}, q : T, a : C]
    BY Zenon DEF ReadExchanges
  <2> HIDE DEF P, A, B, C, Q, R, T
  <2>2. x.op = "read" /\ x.a \in A \cup B \cup C /\ x.q \in Q \cup R \cup T
    BY <2>1
  <2>3. x.a.results = <<>> \/ x.a.results \in UpTo(1, ReadResults) \/ x.a.results \in UpTo(2, P)
    BY <2>2 DEF A, B, C, Replies
  <2>4. \/ x.q.items \in UpTo(MaxBatch + 1, RequestTexts)
        \/ x.q.items \in {<<PlainA>>, <<PlainB>>, <<PlainA, PlainB>>, <<PlainB, PlainA>>}
    <3>1. CASE x.q \in Q
        BY <3>1 DEF Q
    <3>2. CASE x.q \in R
        BY <3>2 DEF R
    <3>3. CASE x.q \in T
        BY <3>3 DEF T
    <3> QED
        BY <2>2, <3>1, <3>2, <3>3
  <2> QED
    BY <2>2, <2>3, <2>4
<1>2. ASSUME NEW r \in S
      PROVE  r.value.fits \in BOOLEAN
  <2>1. CASE r \in ReadResults
    <3>1. r.value \in {NoValue} \cup ReadValues
        BY <2>1 DEF ReadResults
    <3>2. CASE r.value \in ReadValues
        BY <3>2 DEF ReadValues
    <3> QED
        BY <3>1, <3>2, NoValueIs
  <2>2. CASE r \in P
    <3>1. PICK i, v \in {"a", "b"} : r = Plainly(i, ValueOf(v))
        BY <2>2 DEF PlainResults
    <3>2. r.value = ValueOf(v)
        BY <3>1 DEF Plainly
    <3>3. ValueOf(v).fits = TRUE
        BY DEF ValueOf
    <3> QED
        BY <3>2, <3>3
  <2> QED
    BY <2>1, <2>2
<1>3. ReadResults \subseteq S /\ P \subseteq S
    OBVIOUS
<1> HIDE DEF P, S
<1>4. IsList(x.a.results) /\ \A i \in DOMAIN x.a.results : x.a.results[i] \in S
  <2>1. CASE x.a.results = <<>>
    <3>1. DOMAIN x.a.results = {}
        BY <2>1
    <3> QED
        BY <2>1, <3>1, EmptyListed
  <2>2. CASE x.a.results \in UpTo(1, ReadResults)
    BY <1>3, <2>2, UpToListed
  <2>3. CASE x.a.results \in UpTo(2, P)
    BY <1>3, <2>3, UpToListed
  <2> QED
    BY <1>1, <2>1, <2>2, <2>3
<1>5. IsList(x.q.items) /\ \A i \in DOMAIN x.q.items : "utf8" \notin x.q.items[i].flaws
    BY <1>1, RequestListed, PlainListed
<1> QED
    BY <1>1, <1>2, <1>4, <1>5 DEF ReadExchange

\* write,
LEMMA WritesAre ==
    ASSUME NEW x \in WriteExchanges
    PROVE  WriteExchange(x)
<1> DEFINE item(T) == [item : T, type : {"", "t"}, value : {"", "misfit", "fits"}]
           tried == item(RequestTexts)
           plain == item({PlainA, PlainB})
           result == [item : {"a", "b"}, hresult : {"absent", "ok", "failed"}, code : {"", "E"}]
           a == [item |-> PlainA, type |-> "t", value |-> "fits"]
           b == [item |-> PlainB, type |-> "t", value |-> "fits"]
<1>1. /\ x.op = "write"
      /\ x.q.items \in UpTo(2, tried) \/ x.q.items = <<a, b>>
      /\ x.a.results = <<>> \/ x.a.results \in UpTo(2, result)
  <2> HIDE DEF tried, result, a, b
  <2> QED
    BY DEF WriteExchanges, NoReply, Replies, tried, result, a, b
<1>2. a \in plain /\ b \in plain
    OBVIOUS
<1>3. ASSUME NEW w \in tried \cup plain
      PROVE  "utf8" \notin w.item.flaws /\ w.value \in {"", "misfit", "fits"}
  <2>1. w.item \in RequestTexts \cup {PlainA, PlainB} /\ w.value \in {"", "misfit", "fits"}
    OBVIOUS
  <2>2. "utf8" \notin PlainA.flaws /\ "utf8" \notin PlainB.flaws
    BY DEF PlainA, PlainB, Text
  <2> QED
    BY <2>1, <2>2, RequestTextsAre
<1> HIDE DEF tried, plain, result, a, b
<1>4. x.q.items \in UpTo(2, tried) \/ x.q.items \in UpTo(2, plain)
    BY <1>1, <1>2, ShortLists
<1>5. IsList(x.a.results)
    BY <1>1, EmptyListed, UpToListed
<1>6. IsList(x.q.items) /\ \A i \in DOMAIN x.q.items : x.q.items[i] \in tried \cup plain
    BY <1>4, UpToListed
<1> QED
    BY <1>1, <1>3, <1>5, <1>6 DEF WriteExchange

\* the properties available,
LEMMA AvailablesAre ==
    ASSUME NEW x \in AvailableExchanges
    PROVE  AvailableExchange(x)
<1> DEFINE S == {[item |-> 1, ok |-> TRUE, valued |-> FALSE]}
<1> HIDE DEF S
<1>1. /\ x.op = "available" /\ x.q.item \in RequestTexts
      /\ x.a.results \in UpTo(MaxBatch + 1, S)
    BY DEF AvailableExchanges, Replies, S
<1> QED
    BY <1>1, RequestTextsAre, UpToListed DEF AvailableExchange

\* and properties read.
LEMMA PropertiesAre ==
    ASSUME NEW x \in PropertiesExchanges
    PROVE  PropertiesExchange(x)
<1> DEFINE result == [item : {1, 2}, ok : BOOLEAN, value : {"", "misfit", "fits"}]
           N == {1, 2}
<1> HIDE DEF result, N
<1>1. /\ x.op = "properties" /\ x.q.item \in RequestTexts \cup {PlainA}
      /\ x.q.ids \in UpTo(MaxBatch + 1, N) \/ x.q.ids = <<1, 2>>
      /\ x.a.results \in UpTo(1, result) \cup UpTo(2, result)
    BY DEF PropertiesExchanges, Replies, result, N
<1>2. 1 \in N /\ 2 \in N
    BY DEF N
<1>3. IsList(x.q.ids)
  <2>1. CASE x.q.ids \in UpTo(MaxBatch + 1, N)
    BY <2>1, UpToListed
  <2>2. CASE x.q.ids = <<1, 2>>
    <3>1. <<1, 2>> \in UpTo(2, N)
        BY <1>2, ShortLists
    <3> QED
        BY <2>2, <3>1, UpToListed
  <2> QED
    BY <1>1, <2>1, <2>2
<1>4. "utf8" \notin x.q.item.flaws
    BY <1>1, RequestTextsAre DEF RequestTexts
<1> QED
    BY <1>1, <1>3, <1>4, UpToListed DEF PropertiesExchange

\* The handlers of Browse, Read, Write and the item properties: the frontends
\* admit the same requests, and answer what was asked.
LEMMA ExchangesExact ==
    ASSUME NEW x \in Exchanges
    PROVE  HandlersExact(x)
BY BrowsesAre, ReadsAre, WritesAre, AvailablesAre, PropertiesAre,
   BrowseExact, ReadExact, WriteExact, AvailableExact, PropertiesExact DEF Exchanges

-----------------------------------------------------------------------------
(* What goes out and comes back *)

\* The remainder of a negative number is counted from the modulus.
LEMMA NegativeRemainder ==
    ASSUME NEW m \in Nat, NEW x \in Int, -m <= x, x < 0
    PROVE  x % m = x + m
<1>1. x + m \in Nat /\ x + m < m /\ m > 0
    OBVIOUS
<1>2. x = m * (-1) + (x + m)
    OBVIOUS
<1> QED
    BY <1>1, <1>2

\* Two's complement: what is stored comes back.
LEMMA StoredSigned ==
    ASSUME NEW h \in Nat, NEW x \in -h .. (h - 1)
    PROVE  LET raw == x % (2 * h)
           IN  (IF raw >= h THEN raw - 2 * h ELSE raw) = x
<1> DEFINE m == 2 * h
<1>1. m \in Nat /\ x \in Int /\ -h <= x /\ x <= h - 1
    OBVIOUS
<1>2. CASE x < 0
  <2>1. -m <= x
    BY <1>1
  <2> HIDE DEF m
  <2>2. x % m = x + m
    BY <1>1, <1>2, <2>1, NegativeRemainder
  <2>3. x + m >= h /\ x + m - m = x
    BY <1>1, <1>2 DEF m
  <2> QED
    BY <2>2, <2>3 DEF m
<1>3. CASE x >= 0
  <2>1. x \in Nat /\ x < m
    BY <1>1, <1>3
  <2> HIDE DEF m
  <2>2. x % m = x
    BY <1>1, <2>1, SmallRemainder
  <2> QED
    BY <1>1, <2>2 DEF m
<1> QED
    BY <1>1, <1>2, <1>3

\* A value as it is held.
LEMMA ValueIs ==
    ASSUME NEW vt \in Carried, NEW value \in GoValues(vt)
    PROVE  /\ value = [go |-> GoType(vt), v |-> value.v]
           /\ value.go = GoType(vt) /\ value.v \in Holds(vt)
           /\ ValidScalar(vt, value)
<1>1. PICK x \in Holds(vt) : value = [go |-> GoType(vt), v |-> x]
    BY Zenon DEF GoValues
<1>2. value.go = GoType(vt) /\ value.v = x
    BY <1>1
<1> QED
    BY <1>1, <1>2 DEF ValidScalar

\* What is carried is neither without a type nor an object.
LEMMA CarriedKinds ==
    ASSUME NEW vt \in Carried
    PROVE  /\ vt \in DOMAIN Signed \/ vt \in DOMAIN Unsigned \/ vt \in {"R4", "R8"}
              \/ vt = "BOOL" \/ vt = "BSTR" \/ vt \in {"EMPTY", "NULL"}
           /\ vt # "" /\ vt # "object" /\ vt # "none"
BY CarriedIs

\* encodeWriteVariant and decodeVariant.
LEMMA VariantComesBack ==
    ASSUME NEW vt \in Carried, NEW value \in GoValues(vt)
    PROVE  FromVariant(ToVariant(vt, value)) = value
<1> DEFINE variant == ToVariant(vt, value)
<1>1. value = [go |-> GoType(vt), v |-> value.v] /\ value.v \in Holds(vt)
      /\ ValidScalar(vt, value)
    BY ValueIs
<1>2. CASE vt \in DOMAIN Signed
  <2> DEFINE h == Halves[Signed[vt]]
             x == value.v
             raw == x % (2 * h)
  <2>1. h \in Nat /\ x \in -h .. (h - 1)
    BY <1>1, <1>2, SignedGoIs, ValuesAssumption DEF IntRange
  <2>2. ToVariant(vt, value) = [vt |-> vt, raw |-> raw]
    BY <1>1, <1>2, Zenon DEF ToVariant, Modulus
  <2>3. variant.vt = vt /\ variant.raw = raw
    BY <2>2
  <2>4. vt \in Carried /\ ~(vt \notin Carried) /\ vt # "BOOL"
    BY <1>2, CarriedIs
  <2>5. FromVariant(variant) =
           [go |-> GoType(vt), v |-> IF raw >= h THEN raw - 2 * h ELSE raw]
    BY <1>2, <2>3, <2>4, Zenon DEF FromVariant, Modulus
  <2>6. (IF raw >= h THEN raw - 2 * h ELSE raw) = x
    BY <2>1, StoredSigned, Zenon
  <2> QED
    BY <1>1, <2>5, <2>6, Zenon
<1>3. CASE vt = "BOOL"
  <2>1. vt \notin DOMAIN Signed /\ GoType(vt) = "bool" /\ Holds(vt) = {TRUE, FALSE}
    BY <1>3, CarriedIs, OtherGoIs
  <2>2. Modulus(2) - 1 # 0
    BY ValuesAssumption DEF Modulus, Widths
  <2> DEFINE raw == IF value.v THEN Modulus(2) - 1 ELSE 0
  <2>3. ToVariant(vt, value) = [vt |-> vt, raw |-> raw]
    BY <1>1, <1>3, <2>1, Zenon DEF ToVariant
  <2>4. variant.vt = vt /\ variant.raw = raw
    BY <2>3
  <2>5. FromVariant(variant) = [go |-> "bool", v |-> raw # 0]
    BY <1>3, <2>1, <2>4, Zenon DEF FromVariant
  <2>6. (raw # 0) = value.v
    BY <1>1, <2>1, <2>2
  <2> QED
    BY <1>1, <2>1, <2>5, <2>6, Zenon
<1>4. CASE vt \notin DOMAIN Signed /\ vt # "BOOL"
  <2>1. ToVariant(vt, value) = [vt |-> vt, raw |-> value.v]
    BY <1>1, <1>4, Zenon DEF ToVariant
  <2>2. variant.vt = vt /\ variant.raw = value.v
    BY <2>1
  <2>3. FromVariant(variant) = [go |-> GoType(vt), v |-> value.v]
    BY <1>4, <2>2, Zenon DEF FromVariant
  <2> QED
    BY <1>1, <2>3, Zenon
<1> QED
    BY <1>2, <1>3, <1>4

\* EncodeValue and DecodeValue, and the element of an array.
LEMMA JSONComesBack ==
    ASSUME NEW vt \in Carried, NEW value \in GoValues(vt)
    PROVE  /\ DecodeJSON(vt, EncodeJSON(vt, value)) = value
           /\ DecodeJSONElement(vt, EncodeJSON(vt, value)) = value
           /\ EncodeJSON(vt, value).encoding # "refused"
<1> DEFINE j == EncodeJSON(vt, value)
           special == vt \in DOMAIN Floats /\ value.v # "0.5"
           form == JSONForm(vt)
<1>1. value = [go |-> GoType(vt), v |-> value.v] /\ value.v \in Holds(vt)
      /\ ValidScalar(vt, value)
    BY ValueIs
<1>2. vt \in DOMAIN Floats => form = "number"
    BY CarriedIs DEF JSONForm
<1>3. CASE special
  <2>1. j = [encoding |-> "float-special", json |-> "string", v |-> value.v]
    BY <1>1, <1>3, Zenon DEF EncodeJSON
  <2>2. Holds(vt) = FloatValues
    BY <1>3, CarriedIs, OtherGoIs
  <2>3. /\ j.encoding = "float-special" /\ j.json = "string" /\ j.v = value.v
        /\ [j EXCEPT !.encoding = "float-special"] = j
    BY <2>1
  <2> HIDE DEF j
  <2>4. DecodeJSON(vt, j) = [go |-> GoType(vt), v |-> value.v]
    BY <1>1, <1>3, <2>2, <2>3 DEF DecodeJSON
  <2>5. DecodeJSONElement(vt, j) = DecodeJSON(vt, [j EXCEPT !.encoding = "float-special"])
    BY <1>3, <2>3, Zenon DEF DecodeJSONElement
  <2> QED
    BY <1>1, <2>3, <2>4, <2>5 DEF j
<1>4. CASE ~special
  <2>1. j = [encoding |-> "json", json |-> form, v |-> value.v]
    BY <1>1, <1>4, Zenon DEF EncodeJSON
  <2>2. /\ j.encoding = "json" /\ j.json = form /\ j.v = value.v
        /\ [j EXCEPT !.encoding = "json"] = j
    BY <2>1
  <2>3. ~(vt \in DOMAIN Floats /\ j.json = "string")
    BY <1>2, <2>2
  <2> HIDE DEF j
  <2>4. DecodeJSON(vt, j) = [go |-> GoType(vt), v |-> value.v]
    BY <1>1, <2>2 DEF DecodeJSON
  <2>5. DecodeJSONElement(vt, j) = DecodeJSON(vt, [j EXCEPT !.encoding = "json"])
    BY <2>3, Zenon DEF DecodeJSONElement
  <2> QED
    BY <1>1, <2>2, <2>4, <2>5 DEF j
<1> QED
    BY <1>3, <1>4

\* encodeScalar and decodeScalar of the gRPC frontend.
LEMMA ProtoComesBack ==
    ASSUME NEW vt \in Carried, NEW value \in GoValues(vt)
    PROVE  /\ DecodeProto(vt, EncodeProto(vt, value)) = value
           /\ EncodeProto(vt, value).field # "none"
<1> DEFINE field == IF vt = "NULL" THEN "EMPTY" ELSE vt
           p == EncodeProto(vt, value)
<1>1. value = [go |-> GoType(vt), v |-> value.v] /\ value.v \in Holds(vt)
      /\ ValidScalar(vt, value)
    BY ValueIs
<1>2. field # "none"
    BY CarriedKinds
<1> HIDE DEF field
<1>3. p = [field |-> field, v |-> value.v]
    BY <1>1, Zenon DEF EncodeProto, field
<1>4. p.field = field /\ p.v = value.v
    BY <1>3
<1> HIDE DEF p
<1>5. DecodeProto(vt, p) = [go |-> GoType(vt), v |-> value.v]
    BY <1>1, <1>4, Zenon DEF DecodeProto, field
<1> QED
    BY <1>1, <1>2, <1>4, <1>5 DEF p

\* EncodeUA and writeItemForNode: only what is its own storage class comes back.
LEMMA UAComesBack ==
    ASSUME NEW vt \in Carried, NEW value \in GoValues(vt), NEW known \in BOOLEAN
    PROVE  WriteUA(vt, known, EncodeUA(value)) =
              IF DecodesAs(vt) = vt /\ vt \notin {"EMPTY", "NULL"} THEN value ELSE Refused
<1> DEFINE u == EncodeUA(value)
           as == IF known /\ VarTypeForNode(vt) # "none"
                 THEN VarTypeForNode(vt) ELSE VarTypeForUA(u.type)
<1>1. value = [go |-> GoType(vt), v |-> value.v] /\ value.go = GoType(vt)
    BY ValueIs
<1>2. u.type = GoType(vt) /\ u.v = value.v
    BY <1>1 DEF EncodeUA
<1> HIDE DEF u
<1>3. WriteUA(vt, known, u) =
         IF as # "none" /\ GoType(as) = u.type /\ as = vt
         THEN [go |-> u.type, v |-> u.v] ELSE Refused
    BY Zenon DEF WriteUA
<1>4. CASE vt \in {"EMPTY", "NULL"}
  <2>1. as = "none"
    BY <1>2, <1>4, NilGoIs
  <2> QED
    BY <1>3, <1>4, <2>1 DEF u
<1>5. CASE vt \notin {"EMPTY", "NULL"}
  <2>1. VarTypeForNode(vt) = DecodesAs(vt) /\ VarTypeForUA(GoType(vt)) = DecodesAs(vt)
    <3>1. CASE vt \in DOMAIN Signed
      BY <3>1, SignedGoIs, Zenon
    <3>2. CASE vt \in DOMAIN Unsigned
      BY <3>2, UnsignedGoIs, Zenon
    <3>3. CASE vt \in {"R4", "R8", "BOOL", "BSTR"}
      BY <3>3, OtherGoIs, Zenon
    <3>4. vt \in DOMAIN Signed \/ vt \in DOMAIN Unsigned
          \/ vt \in {"R4", "R8", "BOOL", "BSTR"}
      BY <1>5, CarriedIs
    <3> QED
      BY <3>1, <3>2, <3>3, <3>4, Zenon
  <2>2. as = DecodesAs(vt)
    BY <1>2, <2>1
  <2>3. vt # "none"
    BY CarriedKinds
  <2> HIDE DEF as
  <2>4. CASE DecodesAs(vt) = vt
    BY <1>1, <1>2, <1>3, <1>5, <2>2, <2>3, <2>4 DEF u
  <2>5. CASE DecodesAs(vt) # vt
    BY <1>3, <2>2, <2>5 DEF u
  <2> QED
    BY <2>4, <2>5
<1> QED
    BY <1>4, <1>5

\* The name of no Go type stands for a refusal.
LEMMA GoNames ==
    ASSUME NEW vt \in Carried
    PROVE  GoType(vt) # "refused"
BY CarriedKinds, SignedGoIs, UnsignedGoIs, OtherGoIs, NilGoIs

-----------------------------------------------------------------------------
(* Arrays of two *)

\* The bounds of two elements fit two elements and not one.
LEMMA PairOfTwo ==
    LET d == <<[lower |-> 2, length |-> 2]>>
    IN  MatchesItsShape(d, 2) /\ ~MatchesItsShape(d, 1)
<1> DEFINE d == <<[lower |-> 2, length |-> 2]>>
           f == Described(d)
<1>1. Len(d) = 1 /\ d # <<>> /\ d[1].length = 2
    OBVIOUS
<1> HIDE DEF d
<1>2. Modulus(4) \in Nat /\ Modulus(4) >= 4
    BY ValuesAssumption DEF Modulus, Widths
<1>3. Measured(d)
    BY <1>1, <1>2 DEF Measured
<1>4. f[1] = 2
  <2>1. f[0] = 1 /\ f[1] = f[1 - 1] * d[1].length
    BY <1>1, <1>3, DescribedIs
  <2> HIDE DEF f
  <2> QED
    BY <1>1, <2>1
<1> HIDE DEF f
<1>5. ElementCount(d, 2) = 2 /\ ElementCount(d, 1) = 0
  <2>1. 1 \in 1 .. Modulus(4) /\ 2 \in 1 .. Modulus(4)
    BY <1>2
  <2>2. /\ Counted(d, 2)[1] = IF f[1] \in 1 .. 2 THEN f[1] ELSE 0
        /\ Counted(d, 1)[1] = IF f[1] \in 1 .. 1 THEN f[1] ELSE 0
    BY <1>1, <1>3, <2>1, CountedExact DEF f
  <2> QED
    BY <1>1, <1>4, <2>2 DEF ElementCount
<1> QED
    BY <1>1, <1>5 DEF MatchesItsShape, d

\* fillArrayValues and decodeArray of the gRPC frontend.
LEMMA ProtoArrayComesBack ==
    ASSUME NEW vt \in Carried, NEW value \in GoValues(vt)
    PROVE  LET array == [type |-> vt, dims |-> <<[lower |-> 2, length |-> 2]>>,
                         elements |-> <<value, value>>]
               short == [array EXCEPT !.elements = <<value>>]
           IN  /\ DecodeProtoArray(vt, EncodeProtoArray(array)) = array
               /\ DecodeProtoArray(vt, EncodeProtoArray(short)) = NoArray
<1> DEFINE d == <<[lower |-> 2, length |-> 2]>>
           array == [type |-> vt, dims |-> d, elements |-> <<value, value>>]
           short == [type |-> vt, dims |-> d, elements |-> <<value>>]
           e == EncodeProto(vt, value)
           sent == [type |-> vt, dims |-> d, elements |-> <<e, e>>]
           few == [type |-> vt, dims |-> d, elements |-> <<e>>]
<1>1. DecodeProto(vt, e) = value /\ e.field # "none"
    BY ProtoComesBack
<1>2. value.go # "refused"
    BY ValueIs, GoNames
<1>3. MatchesItsShape(d, 2) /\ ~MatchesItsShape(d, 1)
    BY PairOfTwo
<1> HIDE DEF d, e
<1>4. EncodeProtoArray(array) = sent
  <2>1. FillProtoArray(vt, <<value, value>>) = <<e, e>>
    BY DEF FillProtoArray, e
  <2>2. array.type = vt /\ array.elements = <<value, value>>
    OBVIOUS
  <2>3. ~\E i \in DOMAIN <<e, e>> : <<e, e>>[i].field = "none"
    BY <1>1
  <2>4. [array EXCEPT !.elements = <<e, e>>] = sent
    OBVIOUS
  <2> HIDE DEF array, sent
  <2> QED
    BY <2>1, <2>2, <2>3, <2>4 DEF EncodeProtoArray
<1>5. EncodeProtoArray(short) = few
  <2>1. FillProtoArray(vt, <<value>>) = <<e>>
    BY DEF FillProtoArray, e
  <2>2. short.type = vt /\ short.elements = <<value>>
    OBVIOUS
  <2>3. ~\E i \in DOMAIN <<e>> : <<e>>[i].field = "none"
    BY <1>1
  <2>4. [short EXCEPT !.elements = <<e>>] = few
    OBVIOUS
  <2> HIDE DEF short, few
  <2> QED
    BY <2>1, <2>2, <2>3, <2>4 DEF EncodeProtoArray
<1>6. DecodeProtoArray(vt, sent) = array
  <2> DEFINE elements == [i \in DOMAIN sent.elements |-> DecodeProto(vt, sent.elements[i])]
  <2>1. elements = <<value, value>>
    BY <1>1
  <2>2. sent.type = vt /\ sent.dims = d
    OBVIOUS
  <2>3. Len(elements) = 2 /\ \A i \in DOMAIN elements : elements[i].go # "refused"
    BY <1>2, <2>1
  <2>4. DecodeProtoArray(vt, sent) =
           IF /\ sent.type \in {"", vt} /\ (\A i \in DOMAIN elements : elements[i].go # "refused")
              /\ MatchesItsShape(sent.dims, Len(elements))
           THEN [type |-> vt, dims |-> sent.dims, elements |-> elements] ELSE NoArray
    BY Zenon DEF DecodeProtoArray
  <2> HIDE DEF elements, sent
  <2> QED
    BY <1>3, <2>1, <2>2, <2>3, <2>4
<1>7. DecodeProtoArray(vt, few) = NoArray
  <2> DEFINE elements == [i \in DOMAIN few.elements |-> DecodeProto(vt, few.elements[i])]
  <2>1. elements = <<value>>
    BY <1>1
  <2>2. few.dims = d /\ Len(elements) = 1
    BY <2>1
  <2>3. DecodeProtoArray(vt, few) =
           IF /\ few.type \in {"", vt} /\ (\A i \in DOMAIN elements : elements[i].go # "refused")
              /\ MatchesItsShape(few.dims, Len(elements))
           THEN [type |-> vt, dims |-> few.dims, elements |-> elements] ELSE NoArray
    BY Zenon DEF DecodeProtoArray
  <2> HIDE DEF elements, few
  <2> QED
    BY <1>3, <2>2, <2>3
<1>8. [array EXCEPT !.elements = <<value>>] = short
    OBVIOUS
<1> HIDE DEF sent, few
<1> QED
    BY <1>4, <1>5, <1>6, <1>7, <1>8 DEF d

-----------------------------------------------------------------------------
(* Results and quality *)

\* What the core answers for an item, the frontends take alike.
LEMMA ResultsAgree ==
    ASSUME NEW r \in ReadOutcomes
    PROVE  /\ GRPCResult(r) # "internal"
           /\ GRPCResult(r) = "ok" <=> JSONResult(r) = "ok"
           /\ JSONResult(r) = "ok" <=> UAResult(r) = "ok"
<1>1. CASE r = [hresult |-> "absent", code |-> "code", value |-> "none"]
  <2>1. r.hresult = "absent" /\ r.code = "code" /\ r.value = "none"
    BY <1>1
  <2> QED
    BY <2>1 DEF GRPCResult, JSONResult, UAResult
<1>2. CASE r = [hresult |-> "failed", code |-> "", value |-> "none"]
  <2>1. r.hresult = "failed" /\ r.code = "" /\ r.value = "none"
    BY <1>2
  <2> QED
    BY <2>1 DEF GRPCResult, JSONResult, UAResult
<1>3. CASE r = [hresult |-> "ok", code |-> "code", value |-> "none"]
  <2>1. r.hresult = "ok" /\ r.code = "code" /\ r.value = "none"
    BY <1>3
  <2> QED
    BY <2>1 DEF GRPCResult, JSONResult, UAResult
<1>4. CASE r = [hresult |-> "ok", code |-> "", value |-> "value"]
  <2>1. r.hresult = "ok" /\ r.code = "" /\ r.value = "value"
    BY <1>4
  <2> QED
    BY <2>1 DEF GRPCResult, JSONResult, UAResult
<1> QED
    BY <1>1, <1>2, <1>3, <1>4 DEF ReadOutcomes

\* A quality keeps the severity of its main status, unless it is LAST_KNOWN.
LEMMA SeverityKept ==
    ASSUME NEW raw \in 0 .. 255, raw - (raw % 4) # LastKnown
    PROVE  SeverityForQuality(raw) = MainSeverity(raw - (raw % 4))
<1> DEFINE sub == raw - (raw % 4)
<1>1. (raw % 256) - (raw % 4) = sub /\ sub \in 0 .. 255
    OBVIOUS
<1>2. /\ DOMAIN Named = {"Good", "Uncertain", "Bad"}
      /\ Named["Good"] = {192, 216}
      /\ Named["Uncertain"] = {64, 68, 80, 84, 88, 20}
      /\ Named["Bad"] = {0, 4, 8, 12, 16, 24, 28, 32}
    BY DEF Named, LastKnown
<1>3. ASSUME NEW s \in DOMAIN Named, sub \in Named[s]
      PROVE  s = MainSeverity(sub)
  <2>1. CASE s = "Good"
    <3>1. sub \in {192, 216}
        BY <1>2, <1>3, <2>1
    <3>2. sub \div 64 = 3
        BY <3>1
    <3> QED
        BY <2>1, <3>2 DEF MainSeverity
  <2>2. CASE s = "Uncertain"
    <3>1. sub \in {64, 68, 80, 84, 88}
        BY <1>2, <1>3, <2>2 DEF LastKnown
    <3>2. sub \div 64 = 1
        BY <3>1
    <3> QED
        BY <2>2, <3>2 DEF MainSeverity
  <2>3. CASE s = "Bad"
    <3>1. sub \in {0, 4, 8, 12, 16, 24, 28, 32}
        BY <1>2, <1>3, <2>3
    <3>2. sub \div 64 = 0
        BY <3>1
    <3> QED
        BY <2>3, <3>2 DEF MainSeverity
  <2> QED
    BY <1>2, <1>3, <2>1, <2>2, <2>3
<1>4. SeverityForQuality(raw) =
         IF \E s \in DOMAIN Named : sub \in Named[s]
         THEN CHOOSE s \in DOMAIN Named : sub \in Named[s] ELSE MainSeverity(sub)
    BY <1>1, Zenon DEF SeverityForQuality
<1> HIDE DEF sub
<1>5. CASE \E s \in DOMAIN Named : sub \in Named[s]
  <2> DEFINE c == CHOOSE s \in DOMAIN Named : sub \in Named[s]
  <2>1. c \in DOMAIN Named /\ sub \in Named[c]
    BY <1>5, Zenon
  <2> QED
    BY <1>3, <1>4, <1>5, <2>1, Zenon DEF sub
<1>6. CASE ~\E s \in DOMAIN Named : sub \in Named[s]
    BY <1>4, <1>6, Zenon DEF sub
<1> QED
    BY <1>5, <1>6

-----------------------------------------------------------------------------
(* Values that come in *)

\* What is accepted for an integral VARTYPE is a value it holds.
LEMMA SentExact ==
    ASSUME NEW vt \in Integral, NEW n
    PROVE  /\ \A json \in {"number", "string"} :
                 LET value == DecodeJSON(vt, [encoding |-> "json", json |-> json, v |-> n])
                 IN  value = Refused \/ (value \in GoValues(vt) /\ ValidScalar(vt, value))
           /\ \A field \in Integral :
                 LET value == DecodeProto(vt, [field |-> field, v |-> n])
                 IN  value = Refused \/ (value \in GoValues(vt) /\ ValidScalar(vt, value))
<1>1. vt \in Carried /\ vt \in DOMAIN Signed \cup DOMAIN Unsigned
    BY CarriedIs
<1>2. vt \notin {"EMPTY", "NULL"} /\ vt \notin DOMAIN Floats /\ vt # "BOOL"
    BY CarriedIs
<1> DEFINE accepted == [go |-> GoType(vt), v |-> n]
<1>3. n \in Holds(vt) => accepted \in GoValues(vt) /\ ValidScalar(vt, accepted)
  <2>1. accepted.go = GoType(vt)
    OBVIOUS
  <2> HIDE DEF accepted
  <2>2. ValidScalar(vt, accepted)
    BY <1>1, <2>1 DEF ValidScalar
  <2>3. n \in Holds(vt) => accepted \in GoValues(vt)
    BY Zenon DEF accepted, GoValues
  <2> QED
    BY <2>2, <2>3
<1>4. ASSUME NEW json \in {"number", "string"}
      PROVE  LET value == DecodeJSON(vt, [encoding |-> "json", json |-> json, v |-> n])
             IN  value = Refused \/ (value = accepted /\ n \in Holds(vt))
  <2> DEFINE j == [encoding |-> "json", json |-> json, v |-> n]
  <2>1. j.encoding = "json" /\ j.json = json /\ j.v = n
    OBVIOUS
  <2> HIDE DEF j
  <2> QED
    BY <2>1 DEF DecodeJSON, j
<1>5. ASSUME NEW field \in Integral
      PROVE  LET value == DecodeProto(vt, [field |-> field, v |-> n])
             IN  value = Refused \/ (value = accepted /\ n \in Holds(vt))
    BY <1>1 DEF DecodeProto
<1> HIDE DEF accepted
<1> QED
    BY <1>3, <1>4, <1>5, Zenon

\* A pair of one element twice.
LEMMA PairOfOne ==
    ASSUME NEW x
    PROVE  Len(<<x, x>>) = 2 /\ \A i \in DOMAIN <<x, x>> : <<x, x>>[i] = x
OBVIOUS

\* Its elements, each decoded.
LEMMA PairMapped ==
    ASSUME NEW x, NEW vt
    PROVE  [i \in DOMAIN <<x, x>> |-> DecodeJSONElement(vt, <<x, x>>[i])]
              = <<DecodeJSONElement(vt, x), DecodeJSONElement(vt, x)>>
OBVIOUS

\* EncodeArray and decodeWriteArray of the JSON frontends.
LEMMA JSONArrayComesBack ==
    ASSUME NEW vt \in Carried, NEW value \in GoValues(vt)
    PROVE  LET array == [type |-> vt, dims |-> <<[lower |-> 2, length |-> 2]>>,
                         elements |-> <<value, value>>]
               short == [array EXCEPT !.elements = <<value>>]
               json == EncodeJSONArray(array)
           IN  /\ DecodeJSONArray(vt, json) = NoArray
               /\ \A type \in {"", vt} : DecodeJSONArray(vt, [json EXCEPT !.type = type]) = array
               /\ DecodeJSONArray(vt, [EncodeJSONArray(short) EXCEPT !.type = vt]) = NoArray
<1> DEFINE d == <<[lower |-> 2, length |-> 2]>>
           array == [type |-> vt, dims |-> d, elements |-> <<value, value>>]
           short == [type |-> vt, dims |-> d, elements |-> <<value>>]
           e == EncodeJSON(vt, value)
           sent == [type |-> "object", dims |-> d, elements |-> <<e, e>>]
           few == [type |-> "object", dims |-> d, elements |-> <<e>>]
           fixed(type) == [type |-> type, dims |-> d, elements |-> <<e, e>>]
           typed == [type |-> vt, dims |-> d, elements |-> <<e>>]
<1>1. DecodeJSONElement(vt, e) = value /\ e.encoding # "refused"
    BY JSONComesBack
<1>2. value.go # "refused" /\ vt # "" /\ vt # "object"
    BY ValueIs, GoNames, CarriedKinds
<1>3. MatchesItsShape(d, 2) /\ ~MatchesItsShape(d, 1)
    BY PairOfTwo
<1> HIDE DEF d, e
<1>4. EncodeJSONArray(array) = sent
  <2> DEFINE filled == [i \in DOMAIN array.elements |-> EncodeJSON(array.type, array.elements[i])]
  <2>1. filled = <<e, e>> /\ array.dims = d
    BY DEF e
  <2>2. ~\E i \in DOMAIN <<e, e>> : <<e, e>>[i].encoding = "refused"
    BY <1>1
  <2>3. EncodeJSONArray(array) =
           IF \E i \in DOMAIN filled : filled[i].encoding = "refused" THEN NoArray
           ELSE [type |-> "object", dims |-> array.dims, elements |-> filled]
    BY Zenon DEF EncodeJSONArray
  <2> HIDE DEF array, filled
  <2> QED
    BY <2>1, <2>2, <2>3
<1>5. EncodeJSONArray(short) = few
  <2> DEFINE filled == [i \in DOMAIN short.elements |-> EncodeJSON(short.type, short.elements[i])]
  <2>1. filled = <<e>> /\ short.dims = d
    BY DEF e
  <2>2. ~\E i \in DOMAIN <<e>> : <<e>>[i].encoding = "refused"
    BY <1>1
  <2>3. EncodeJSONArray(short) =
           IF \E i \in DOMAIN filled : filled[i].encoding = "refused" THEN NoArray
           ELSE [type |-> "object", dims |-> short.dims, elements |-> filled]
    BY Zenon DEF EncodeJSONArray
  <2> HIDE DEF short, filled
  <2> QED
    BY <2>1, <2>2, <2>3
<1>6. DecodeJSONArray(vt, sent) = NoArray
  <2>1. sent.type \notin {"", vt}
    BY <1>2
  <2> HIDE DEF sent
  <2> QED
    BY <2>1, Zenon DEF DecodeJSONArray
<1>7. ASSUME NEW type \in {"", vt}
      PROVE  DecodeJSONArray(vt, fixed(type)) = array
  <2> DEFINE j == fixed(type)
             elements == [i \in DOMAIN j.elements |-> DecodeJSONElement(vt, j.elements[i])]
  <2>2. j.type = type /\ j.dims = d /\ j.elements = <<e, e>>
    OBVIOUS
  <2> HIDE DEF j
  <2>1. elements = <<value, value>>
    <3>1. elements = [i \in DOMAIN <<e, e>> |-> DecodeJSONElement(vt, <<e, e>>[i])]
      BY <2>2, Zenon
    <3> HIDE DEF elements
    <3>2. [i \in DOMAIN <<e, e>> |-> DecodeJSONElement(vt, <<e, e>>[i])]
          = <<DecodeJSONElement(vt, e), DecodeJSONElement(vt, e)>>
      BY PairMapped, Zenon
    <3> QED
      BY <1>1, <3>1, <3>2
  <2>3. Len(elements) = 2 /\ \A i \in DOMAIN elements : elements[i].go # "refused"
    <3> HIDE DEF elements
    <3> QED
      BY <1>2, <2>1, PairOfOne
  <2>4. DecodeJSONArray(vt, j) =
           IF /\ j.type \in {"", vt} /\ (\A i \in DOMAIN elements : elements[i].go # "refused")
              /\ MatchesItsShape(j.dims, Len(elements))
           THEN [type |-> vt, dims |-> j.dims, elements |-> elements] ELSE NoArray
    BY Zenon DEF DecodeJSONArray
  <2> HIDE DEF elements, j
  <2>5. DecodeJSONArray(vt, j) = array
    BY <1>3, <2>1, <2>2, <2>3, <2>4
  <2> QED
    BY <2>5 DEF j
<1>8. DecodeJSONArray(vt, typed) = NoArray
  <2> DEFINE elements == [i \in DOMAIN typed.elements |-> DecodeJSONElement(vt, typed.elements[i])]
  <2>1. elements = <<value>>
    BY <1>1
  <2>2. typed.dims = d /\ Len(elements) = 1
    BY <2>1
  <2>3. DecodeJSONArray(vt, typed) =
           IF /\ typed.type \in {"", vt} /\ (\A i \in DOMAIN elements : elements[i].go # "refused")
              /\ MatchesItsShape(typed.dims, Len(elements))
           THEN [type |-> vt, dims |-> typed.dims, elements |-> elements] ELSE NoArray
    BY Zenon DEF DecodeJSONArray
  <2> HIDE DEF elements, typed
  <2> QED
    BY <1>3, <2>2, <2>3
<1>9. [array EXCEPT !.elements = <<value>>] = short
    OBVIOUS
<1>10. [few EXCEPT !.type = vt] = typed /\ \A type : [sent EXCEPT !.type = type] = fixed(type)
    OBVIOUS
<1> HIDE DEF sent, few, fixed, typed, short
<1>11. \A type \in {"", vt} : DecodeJSONArray(vt, [EncodeJSONArray(array) EXCEPT !.type = type]) = array
    BY <1>4, <1>7, <1>10
<1>12. DecodeJSONArray(vt, [EncodeJSONArray([array EXCEPT !.elements = <<value>>]) EXCEPT !.type = vt])
          = NoArray
    BY <1>5, <1>8, <1>9, <1>10
<1>13. DecodeJSONArray(vt, EncodeJSONArray(array)) = NoArray
    BY <1>4, <1>6
<1> QED
    BY <1>11, <1>12, <1>13, Zenon DEF d

-----------------------------------------------------------------------------
(* Everything that comes in *)

\* What is written comes back, of every type and over every way.
LEMMA ReadBackExact ==
    ASSUME ValuesInit
    PROVE  ReadBackWrites
<1> SUFFICES ASSUME sample.kind = "value"
             PROVE  ReadBackWrites
    BY DEF ReadBackWrites
<1> DEFINE vt == sample.vt
           value == sample.value
<1>1. vt \in Carried /\ value \in GoValues(vt)
    BY SampleIs
<1> HIDE DEF vt, value
<1>2. FromVariant(ToVariant(vt, value)) = value
    BY <1>1, VariantComesBack
<1>3. /\ DecodeJSON(vt, EncodeJSON(vt, value)) = value
      /\ DecodeJSONElement(vt, EncodeJSON(vt, value)) = value
    BY <1>1, JSONComesBack
<1>4. DecodeProto(vt, EncodeProto(vt, value)) = value
    BY <1>1, ProtoComesBack
<1>5. \A known \in BOOLEAN :
         WriteUA(vt, known, EncodeUA(value)) =
            IF DecodesAs(vt) = vt /\ vt \notin {"EMPTY", "NULL"} THEN value ELSE Refused
    BY <1>1, UAComesBack
<1> DEFINE array == [type |-> vt, dims |-> <<[lower |-> 2, length |-> 2]>>,
                     elements |-> <<value, value>>]
           short == [array EXCEPT !.elements = <<value>>]
           json == EncodeJSONArray(array)
<1>6. /\ DecodeProtoArray(vt, EncodeProtoArray(array)) = array
      /\ DecodeProtoArray(vt, EncodeProtoArray(short)) = NoArray
    BY <1>1, ProtoArrayComesBack, Zenon
<1>7. /\ DecodeJSONArray(vt, json) = NoArray
      /\ \A type \in {"", vt} : DecodeJSONArray(vt, [json EXCEPT !.type = type]) = array
      /\ DecodeJSONArray(vt, [EncodeJSONArray(short) EXCEPT !.type = vt]) = NoArray
    BY <1>1, JSONArrayComesBack, Zenon
<1> QED
    BY <1>2, <1>3, <1>4, <1>5, <1>6, <1>7, Zenon DEF ReadBackWrites, vt, value

\* No integral value is coerced.
LEMMA NothingCoercedExact ==
    ASSUME ValuesInit
    PROVE  NothingCoerced
<1> SUFFICES ASSUME sample.kind = "sent"
             PROVE  NothingCoerced
    BY DEF NothingCoerced
<1>1. sample.vt \in Integral
    BY SampleIs
<1> QED
    BY <1>1, SentExact, Zenon DEF NothingCoerced

\* Results and quality: the frontends agree.
LEMMA FrontendsExact ==
    ASSUME ValuesInit
    PROVE  FrontendsAgree
<1>1. ASSUME sample.kind = "result"
      PROVE  /\ GRPCResult(sample.result) # "internal"
             /\ GRPCResult(sample.result) = "ok" <=> JSONResult(sample.result) = "ok"
             /\ JSONResult(sample.result) = "ok" <=> UAResult(sample.result) = "ok"
    BY <1>1, SampleIs, ResultsAgree
<1>2. ASSUME sample.kind = "quality"
      PROVE  \/ sample.raw - (sample.raw % 4) = LastKnown
             \/ SeverityForQuality(sample.raw) = MainSeverity(sample.raw)
  <2> DEFINE raw == sample.raw
  <2>1. raw \in 0 .. 255
    BY <1>2, SampleIs
  <2> HIDE DEF raw
  <2>2. MainSeverity(raw - (raw % 4)) = MainSeverity(raw)
    <3>1. (raw - (raw % 4)) \div 64 = raw \div 64
        BY <2>1
    <3> QED
        BY <3>1 DEF MainSeverity
  <2>3. \/ raw - (raw % 4) = LastKnown
        \/ SeverityForQuality(raw) = MainSeverity(raw)
    BY <2>1, <2>2, SeverityKept
  <2> QED
    BY <2>3 DEF raw
<1> QED
    BY <1>1, <1>2, Zenon DEF FrontendsAgree

\* The conversions and the handlers: whatever is converted, what comes back is
\* what was sent, nothing is coerced and the frontends agree.
THEOREM ValuesSurviveAlways == ValuesSpec => []ValuesSurvive
<1>1. ValuesInit => ValuesSurvive
  <2> SUFFICES ASSUME ValuesInit
               PROVE  ValuesSurvive
    OBVIOUS
  <2>1. sample.kind = "exchange" => HandlersExact(sample.exchange)
    BY SampleIs, ExchangesExact
  <2> QED
    BY <2>1, ReadBackExact, NothingCoercedExact, FrontendsExact DEF ValuesSurvive
<1>2. ValuesInit' => ValuesSurvive'
    BY <1>1, PTL
<1>3. ValuesSurvive /\ [ValuesInit']_sample => ValuesSurvive'
  <2>1. CASE UNCHANGED sample
    BY <2>1 DEF ValuesSurvive, ReadBackWrites, NothingCoerced, FrontendsAgree
  <2> QED
    BY <1>2, <2>1
<1> QED
    BY <1>1, <1>3, PTL DEF ValuesSpec

=============================================================================
