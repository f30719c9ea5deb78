--------------------------- MODULE Orders_proofs ---------------------------
(***************************************************************************)
(* What the models rely on when they sort, sum or take the least of a set. *)
(***************************************************************************)
EXTENDS Orders, Integers, Sequences, FiniteSetsExt, Functions, FiniteSetTheorems, WellFoundedInduction, TLAPS

\* The elements before x are counted by a number below the size of the set,
\* and an element further on has more of them.
LEMMA Ranks ==
  ASSUME NEW S, NEW before, IsFiniteSet(S), StrictlyOrders(before, S)
  PROVE  /\ \A x \in S : Cardinality(Before(x, S, before)) \in 0..(Cardinality(S) - 1)
         /\ \A x, y \in S : <<x, y>> \in before =>
               Cardinality(Before(x, S, before)) < Cardinality(Before(y, S, before))
<1>0. Cardinality(S) \in Nat
  BY FS_CardinalityType
<1>1. ASSUME NEW x \in S
      PROVE  /\ IsFiniteSet(Before(x, S, before))
             /\ Cardinality(Before(x, S, before)) \in Nat
             /\ IsFiniteSet(Before(x, S, before) \cup {x})
             /\ Cardinality(Before(x, S, before) \cup {x}) = Cardinality(Before(x, S, before)) + 1
             /\ Before(x, S, before) \cup {x} \subseteq S
  <2>1. Before(x, S, before) \subseteq S /\ x \notin Before(x, S, before)
    BY DEF Before, StrictlyOrders
  <2>2. IsFiniteSet(Before(x, S, before))
    BY <2>1, FS_Subset
  <2>3. QED
    BY <2>1, <2>2, FS_CardinalityType, FS_AddElement
<1>2. ASSUME NEW x \in S
      PROVE  Cardinality(Before(x, S, before)) \in 0..(Cardinality(S) - 1)
  <2>1. Cardinality(Before(x, S, before) \cup {x}) <= Cardinality(S)
    BY <1>1, FS_Subset
  <2>2. /\ Cardinality(Before(x, S, before)) \in Nat
        /\ Cardinality(Before(x, S, before) \cup {x}) = Cardinality(Before(x, S, before)) + 1
    BY <1>1
  <2>3. QED
    BY <1>0, <2>1, <2>2
<1>3. ASSUME NEW x \in S, NEW y \in S, <<x, y>> \in before
      PROVE  Cardinality(Before(x, S, before)) < Cardinality(Before(y, S, before))
  <2>1. Before(x, S, before) \cup {x} \subseteq Before(y, S, before)
    BY <1>3 DEF Before, StrictlyOrders
  <2>2. Cardinality(Before(x, S, before) \cup {x}) <= Cardinality(Before(y, S, before))
    BY <1>1, <2>1, FS_Subset
  <2>3. /\ Cardinality(Before(x, S, before)) \in Nat
        /\ Cardinality(Before(y, S, before)) \in Nat
        /\ Cardinality(Before(x, S, before) \cup {x}) = Cardinality(Before(x, S, before)) + 1
    BY <1>1
  <2>4. QED
    BY <2>2, <2>3
<1>4. QED
  BY <1>2, <1>3

\* SortedBy lists every element of the set, each after those before it.
LEMMA SortedByLists ==
  ASSUME NEW S, NEW before, IsFiniteSet(S), StrictlyOrders(before, S)
  PROVE  /\ Cardinality(S) \in Nat
         /\ SortedBy(S, before) \in [1..Cardinality(S) -> S]
         /\ \A x \in S : \E k \in 1..Cardinality(S) : SortedBy(S, before)[k] = x
         /\ \A k \in 1..Cardinality(S) :
               Cardinality(Before(SortedBy(S, before)[k], S, before)) = k - 1
<1> DEFINE n == Cardinality(S)
           rank == [x \in S |-> Cardinality(Before(x, S, before)) + 1]
<1>1. n \in Nat
  BY FS_CardinalityType
<1>2. IsFiniteSet(1..n) /\ Cardinality(1..n) = n
  BY <1>1, FS_Interval
<1>3. rank \in [S -> 1..n]
  BY <1>1, Ranks
<1>4. ASSUME NEW x \in S, NEW y \in S, rank[x] = rank[y]
      PROVE  x = y
  <2>1. /\ Cardinality(Before(x, S, before)) \in 0..(n - 1)
        /\ Cardinality(Before(y, S, before)) \in 0..(n - 1)
    BY Ranks
  <2>2. Cardinality(Before(x, S, before)) = Cardinality(Before(y, S, before))
    BY <1>1, <1>4, <2>1
  <2>3. <<x, y>> \notin before /\ <<y, x>> \notin before
    BY <1>1, <2>1, <2>2, Ranks
  <2>4. QED
    BY <2>3 DEF StrictlyOrders
<1>5. rank \in Injection(S, 1..n)
  BY <1>3, <1>4 DEF Injection, IsInjective
<1>6. rank \in Surjection(S, 1..n)
  BY <1>1, <1>2, <1>5, FS_Injection
<1>7. ASSUME NEW k \in 1..n
      PROVE  \E x \in S : Cardinality(Before(x, S, before)) = k - 1
  <2>1. PICK x \in S : rank[x] = k
    BY <1>6 DEF Surjection
  <2>2. Cardinality(Before(x, S, before)) \in 0..(n - 1)
    BY Ranks
  <2>3. QED
    BY <1>1, <2>1, <2>2
<1>8. ASSUME NEW k \in 1..n
      PROVE  /\ SortedBy(S, before)[k] \in S
             /\ Cardinality(Before(SortedBy(S, before)[k], S, before)) = k - 1
  BY <1>7 DEF SortedBy
<1>9. ASSUME NEW x \in S
      PROVE  \E k \in 1..n : SortedBy(S, before)[k] = x
  <2>1. Cardinality(Before(x, S, before)) \in 0..(n - 1)
    BY Ranks
  <2> DEFINE k == Cardinality(Before(x, S, before)) + 1
  <2>2. k \in 1..n
    BY <1>1, <2>1
  <2>3. rank[SortedBy(S, before)[k]] = rank[x]
    BY <1>1, <1>8, <2>1, <2>2
  <2>4. SortedBy(S, before)[k] = x
    BY <1>4, <1>8, <2>2, <2>3
  <2>5. QED
    BY <2>2, <2>4
<1>10. QED
  BY <1>1, <1>8, <1>9 DEF SortedBy

\* What SortedBy lists earlier comes before what it lists later.
LEMMA SortedByOrdered ==
  ASSUME NEW S, NEW before, IsFiniteSet(S), StrictlyOrders(before, S),
         NEW k \in 1..Cardinality(S), NEW l \in 1..Cardinality(S), k < l
  PROVE  <<SortedBy(S, before)[k], SortedBy(S, before)[l]>> \in before
<1> DEFINE x == SortedBy(S, before)[k]
           y == SortedBy(S, before)[l]
<1>1. /\ Cardinality(S) \in Nat
      /\ x \in S /\ y \in S
      /\ Cardinality(Before(x, S, before)) = k - 1
      /\ Cardinality(Before(y, S, before)) = l - 1
  BY SortedByLists
<1> HIDE DEF x, y
<1>2. x # y
  BY <1>1
<1>3. <<y, x>> \notin before
  <2>1. <<y, x>> \in before => l - 1 < k - 1
    BY <1>1, Ranks
  <2>2. QED
    BY <1>1, <2>1
<1>4. <<x, y>> \in before
  BY <1>1, <1>2, <1>3 DEF StrictlyOrders
<1>5. QED
  BY <1>4 DEF x, y

\* AtPlaces gives a sequence of what stands there.
LEMMA AtPlacesLists ==
  ASSUME NEW S, NEW s \in Seq(S), NEW at \in SUBSET DOMAIN s
  PROVE  /\ AtPlaces(s, at) \in Seq(S)
         /\ Range(AtPlaces(s, at)) = {s[i] : i \in at}
<1> DEFINE n == Cardinality(at)
           order == {p \in at \X at : p[1] < p[2]}
           places == SortedBy(at, order)
<1>1. Len(s) \in Nat /\ DOMAIN s = 1..Len(s)
  OBVIOUS
<1>2. IsFiniteSet(at)
  <2>1. IsFiniteSet(1..Len(s))
    BY <1>1, FS_Interval
  <2>2. QED
    BY <1>1, <2>1, FS_Subset
<1>3. StrictlyOrders(order, at)
  <2>1. \A x, y \in at : <<x, y>> \in order <=> x < y
    OBVIOUS
  <2>2. \A x \in at : x \in Int
    BY <1>1
  <2> HIDE DEF order
  <2>3. \A x \in at : <<x, x>> \notin order
    BY <2>1, <2>2
  <2>4. \A x, y, z \in at : <<x, y>> \in order /\ <<y, z>> \in order => <<x, z>> \in order
    BY <2>1, <2>2
  <2>5. ASSUME NEW x \in at, NEW y \in at
        PROVE  x = y \/ <<x, y>> \in order \/ <<y, x>> \in order
    <3>1. x = y \/ x < y \/ y < x
      BY <2>2
    <3>2. QED
      BY <2>1, <3>1
  <2>6. QED
    BY <2>3, <2>4, <2>5 DEF StrictlyOrders
<1> HIDE DEF order
<1>4. /\ n \in Nat /\ places \in [1..n -> at]
      /\ \A i \in at : \E k \in 1..n : places[k] = i
  BY <1>2, <1>3, SortedByLists
<1>5. AtPlaces(s, at) = [k \in 1..n |-> s[places[k]]]
  BY DEF AtPlaces, order
<1> HIDE DEF places, n
<1>6. \A k \in 1..n : s[places[k]] \in S
  BY <1>1, <1>4
<1>7. AtPlaces(s, at) \in Seq(S)
  BY <1>4, <1>5, <1>6
<1>8. Range(AtPlaces(s, at)) = {s[i] : i \in at}
  <2> DEFINE l == AtPlaces(s, at)
  <2>1. /\ DOMAIN l = 1..n
        /\ \A k \in 1..n : l[k] = s[places[k]]
    BY <1>5
  <2>2. Range(l) = {l[k] : k \in 1..n}
    BY <2>1 DEF Range
  <2> HIDE DEF l
  <2>3. ASSUME NEW k \in 1..n
        PROVE  l[k] \in {s[i] : i \in at}
    BY <1>4, <2>1
  <2>4. ASSUME NEW i \in at
        PROVE  s[i] \in {l[k] : k \in 1..n}
    <3>1. PICK k \in 1..n : places[k] = i
      BY <1>4
    <3>2. l[k] = s[i]
      BY <2>1, <3>1
    <3>3. QED
      BY <3>2
  <2>5. {s[i] : i \in at} \subseteq {l[k] : k \in 1..n}
    BY <2>4
  <2>6. Range(l) = {s[i] : i \in at}
    BY <2>2, <2>3, <2>5
  <2>7. QED
    BY <2>6 DEF l
<1>9. QED
  BY <1>7, <1>8

\* A set of numbers has a least one.
LEMMA MinOf ==
  ASSUME NEW S \in SUBSET Nat, S # {}
  PROVE  Min(S) \in S /\ \A y \in S : Min(S) <= y
<1> DEFINE below == OpToRel(<, Nat)
<1>1. \A x, y \in Nat : y < x => <<y, x>> \in below
  BY DEF OpToRel
<1>2. IsWellFoundedOn(below, Nat)
  BY NatLessThanWellFounded
<1> HIDE DEF below
<1>3. PICK x \in S : \A y \in S : ~(<<y, x>> \in below)
  BY <1>2, WFMin
<1>4. \A y \in S : x <= y
  <2>1. ASSUME NEW y \in S, ~(x <= y)
        PROVE  FALSE
    <3>1. y < x /\ x \in Nat /\ y \in Nat
      BY <2>1
    <3>2. <<y, x>> \in below
      BY <1>1, <3>1
    <3>3. QED
      BY <1>3, <3>2
  <2>2. QED
    BY <2>1
<1>5. QED
  BY <1>4 DEF Min

\* A bounded one has a greatest one.
LEMMA MaxOf ==
  ASSUME NEW n \in Nat, NEW S \in SUBSET (0..n), S # {}
  PROVE  Max(S) \in S /\ \A y \in S : Max(S) >= y
<1> DEFINE T == {k \in 0..n : n - k \in S}
<1>1. T \subseteq Nat /\ T # {}
  <2>1. PICK x \in S : TRUE
    OBVIOUS
  <2>2. n - x \in 0..n /\ n - (n - x) = x
    BY <2>1
  <2>3. n - x \in T
    BY <2>1, <2>2
  <2>4. T \subseteq Nat
    OBVIOUS
  <2> HIDE DEF T
  <2>5. QED
    BY <2>3, <2>4
<1>2. PICK k \in T : \A j \in T : k <= j
  <2> HIDE DEF T
  <2>1. QED
    BY <1>1, MinOf
<1>3. ASSUME NEW y \in S
      PROVE  n - k >= y
  <2>1. y \in 0..n /\ n - y \in 0..n /\ n - (n - y) = y /\ k \in Nat
    BY <1>3
  <2>2. n - y \in T
    BY <1>3, <2>1
  <2>3. k <= n - y
    BY <1>2, <2>2
  <2>4. QED
    BY <2>1, <2>3
<1>4. n - k \in S
  OBVIOUS
<1>5. QED
  BY <1>3, <1>4 DEF Max

\* The lesser and the greater of two numbers.
LEMMA MinOfTwo ==
  ASSUME NEW m \in Nat, NEW n \in Nat
  PROVE  /\ Min({m, n}) \in Nat /\ Min({m, n}) <= m /\ Min({m, n}) <= n
         /\ Min({m, n}) \in {m, n}
  BY MinOf

\* The greater of two numbers.
LEMMA MaxOfTwo ==
  ASSUME NEW m \in Nat, NEW n \in Nat
  PROVE  /\ Max({m, n}) \in Nat /\ Max({m, n}) >= m /\ Max({m, n}) >= n
         /\ Max({m, n}) \in {m, n}
<1>1. \E x \in {m, n} : \A y \in {m, n} : x >= y
  OBVIOUS
<1>2. QED
  BY <1>1 DEF Max

\* The start of the block of length n that x lies in.
LEMMA BlockStart ==
  ASSUME NEW x \in Nat, NEW n \in Nat, n > 0
  PROVE  x % n \in 0..(n - 1) /\ x % n <= x /\ (x - (x % n)) % n = 0
<1>1. x % n \in 0..(n - 1) /\ x % n <= x
  OBVIOUS
<1>2. PICK q \in Nat : x - (x % n) = n * q
  <2>1. x \div n \in Nat
    OBVIOUS
  <2>2. x - (x % n) = n * (x \div n)
    OBVIOUS
  <2>3. QED
    BY <2>1, <2>2
<1>3. (n * q) % n = 0
  OBVIOUS
<1>4. QED
  BY <1>1, <1>2, <1>3

=============================================================================
