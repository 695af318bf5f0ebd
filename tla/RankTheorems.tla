------------------------------ MODULE RankTheorems ------------------------------
(***************************************************************************)
(* What the proofs of the components share: the least element of a set of  *)
(* naturals, and what counting the elements before an element does.        *)
(* "The first n" of an order are those with fewer than n before them; the  *)
(* specifications say so wherever the code sorts and cuts.                 *)
(***************************************************************************)
EXTENDS Integers, FiniteSetTheorems, FunctionTheorems, WellFoundedInduction, TLAPS

\* A set of naturals has a least element.
LEMMA LeastElement ==
  ASSUME NEW S, S \subseteq Nat, S # {}
  PROVE  \E x \in S : \A y \in S : x <= y
<1> DEFINE R == {ss \in Nat \X Nat : ss[1] < ss[2]}
<1>1. IsWellFoundedOn(R, Nat)
  BY NatLessThanWellFounded DEF OpToRel
<1>2. PICK x \in S : \A y \in S : ~ (<<y, x>> \in R)
  <2> HIDE DEF R
  <2>1. QED
    BY <1>1, WFMin
<1>3. ASSUME NEW y \in S PROVE x <= y
  <2>1. <<y, x>> \in Nat \X Nat /\ <<y, x>>[1] = y /\ <<y, x>>[2] = x
    OBVIOUS
  <2>2. ~ (y < x)
    BY <2>1, <1>2
  <2>3. QED
    BY <2>2
<1>4. QED
  BY <1>3

\* A bounded set of integers that is not empty has a greatest element.
LEMMA GreatestElement ==
  ASSUME NEW S, S \subseteq Int, S # {}, NEW b \in Int, \A x \in S : x <= b
  PROVE  \E x \in S : \A y \in S : y <= x
<1> DEFINE T == {b - x : x \in S}
<1>1. T \subseteq Nat /\ T # {}
  <2>1. \A x \in S : b - x \in Nat
    OBVIOUS
  <2>2. PICK x \in S : TRUE
    OBVIOUS
  <2>3. b - x \in T
    OBVIOUS
  <2>4. QED
    BY <2>1, <2>3
<1>2. PICK t \in T : \A u \in T : t <= u
  <2> HIDE DEF T
  <2>1. QED
    BY <1>1, LeastElement
<1>3. PICK x \in S : t = b - x
  OBVIOUS
<1>4. ASSUME NEW y \in S PROVE y <= x
  <2>1. b - x <= b - y
    BY <1>2, <1>3
  <2>2. QED
    BY <2>1
<1>5. QED
  BY <1>4

\* What holds of 0, and of each number after one it holds of, holds up to n.
LEMMA Steps ==
  ASSUME NEW n \in Nat, NEW P, 0 \in P, \A k \in 1..n : k - 1 \in P => k \in P
  PROVE  0..n \subseteq P
<1> DEFINE bad == (0..n) \ P
<1>1. CASE bad # {}
  <2>1. bad \subseteq Nat
    OBVIOUS
  <2>2. PICK k \in bad : \A m \in bad : k <= m
    <3> HIDE DEF bad
    <3>1. QED
      BY <1>1, <2>1, LeastElement
  <2>3. k # 0 /\ k \in 0..n /\ k \notin P
    OBVIOUS
  <2>4. k - 1 \in 0..n /\ k - 1 \notin bad
    BY <2>2, <2>3
  <2>5. k - 1 \in P
    BY <2>4
  <2>6. QED
    BY <2>3, <2>5
<1>2. CASE bad = {}
  BY <1>2
<1>3. QED
  BY <1>1, <1>2

\* Each value is made of the one before it.
Follows(g, n, v0, Step) ==
  g[0] = v0 /\ \A k \in 1..n : g[k] = Step[<<k, g[k - 1]>>]

\* Such values exist.
LEMMA Sequel ==
  ASSUME NEW n \in Nat, NEW V, NEW v0 \in V, NEW Step \in [(1..n) \X V -> V]
  PROVE  \E g \in [0..n -> V] : Follows(g, n, v0, Step)
<1> DEFINE P == {k \in 0..n : \E g \in [0..k -> V] : Follows(g, k, v0, Step)}
<1>1. 0 \in P
  <2> DEFINE g == [k \in 0..0 |-> v0]
  <2>1. g \in [0..0 -> V] /\ Follows(g, 0, v0, Step)
    BY DEF Follows
  <2>2. QED
    BY <2>1
<1>2. ASSUME NEW k \in 1..n, k - 1 \in P PROVE k \in P
  <2>1. PICK g \in [0..(k - 1) -> V] : Follows(g, k - 1, v0, Step)
    BY <1>2
  <2> DEFINE h == [m \in 0..k |-> IF m = k THEN Step[<<k, g[k - 1]>>] ELSE g[m]]
  <2>2. <<k, g[k - 1]>> \in (1..n) \X V
    OBVIOUS
  <2>3. h \in [0..k -> V]
    BY <2>2
  <2>4. \A m \in 0..(k - 1) : h[m] = g[m]
    OBVIOUS
  <2>5. h[k] = Step[<<k, g[k - 1]>>] /\ h[k - 1] = g[k - 1]
    OBVIOUS
  <2>6. Follows(h, k, v0, Step)
    <3> HIDE DEF h
    <3>1. h[0] = v0
      BY <2>1, <2>4 DEF Follows
    <3>2. ASSUME NEW m \in 1..k PROVE h[m] = Step[<<m, h[m - 1]>>]
      <4>1. CASE m = k
        BY <4>1, <2>5
      <4>2. CASE m # k
        BY <4>2, <2>1, <2>4 DEF Follows
      <4>3. QED
        BY <4>1, <4>2
    <3>3. QED
      BY <3>1, <3>2 DEF Follows
  <2>7. QED
    <3> HIDE DEF h
    <3>1. QED
      BY <2>3, <2>6
<1>3. n \in P
  <2> HIDE DEF P
  <2>1. 0..n \subseteq P
    BY <1>1, <1>2, Steps
  <2>2. QED
    BY <2>1
<1>4. QED
  BY <1>3

\* Whole division of a natural is natural.
LEMMA Quotient ==
  ASSUME NEW a \in Nat, NEW n \in Nat, n > 0
  PROVE  a \div n \in Nat /\ (a = 0 => a \div n = 0)
<1>1. a \div n \in Int
  OBVIOUS
<1>2. n * (a \div n) <= a /\ a < n * (a \div n + 1)
  OBVIOUS
<1> DEFINE q == a \div n
<1> HIDE DEF q
<1>3. q \in Int /\ n * q <= a /\ a < n * (q + 1)
  BY <1>1, <1>2 DEF q
<1>4. q >= 0
  <2>1. q <= -1 => n * (q + 1) <= 0
    BY <1>3, Z3
  <2>2. QED
    BY <1>3, <2>1
<1>5. a = 0 => q <= 0
  <2>1. q >= 1 => n * q >= 1
    BY <1>3, Z3
  <2>2. QED
    BY <1>3, <2>1
<1>6. QED
  BY <1>3, <1>4, <1>5 DEF q

\* What is before what, as sets: a strict total order of S.
IsOrder(Below, S) ==
  /\ Below \in [S -> SUBSET S]
  /\ \A c \in S : c \notin Below[c]
  /\ \A c, d \in S : d \in Below[c] => Below[d] \subseteq Below[c]
  /\ \A c, d \in S : c = d \/ c \in Below[d] \/ d \in Below[c]

\* Numbers of elements before: one element has 0 before it, the next 1, and
\* so on to the last.
LEMMA Ranks ==
  ASSUME NEW S, IsFiniteSet(S), NEW Below, IsOrder(Below, S)
  PROVE  /\ \A c \in S : Cardinality(Below[c]) \in 0..(Cardinality(S) - 1)
         /\ \A c, d \in S : d \in Below[c] <=> Cardinality(Below[d]) < Cardinality(Below[c])
         /\ \A c, d \in S : Cardinality(Below[c]) = Cardinality(Below[d]) => c = d
         /\ \A n \in 0..(Cardinality(S) - 1) : \E c \in S : Cardinality(Below[c]) = n
<1> DEFINE rank == [c \in S |-> Cardinality(Below[c])]
           All == 0..(Cardinality(S) - 1)
<1>1. Cardinality(S) \in Nat
  BY FS_CardinalityType
<1>2. ASSUME NEW c \in S
      PROVE  IsFiniteSet(Below[c]) /\ Cardinality(Below[c]) \in All
  <2>1. Below[c] \in SUBSET S /\ c \notin Below[c]
    BY DEF IsOrder
  <2>2. /\ IsFiniteSet(Below[c]) /\ Cardinality(Below[c]) <= Cardinality(S)
        /\ Cardinality(S) = Cardinality(Below[c]) => S = Below[c]
    BY <2>1, FS_Subset
  <2>3. Cardinality(Below[c]) \in Nat
    BY <2>2, FS_CardinalityType
  <2>4. QED
    BY <1>1, <2>1, <2>2, <2>3
<1>3. ASSUME NEW c \in S, NEW d \in S, d \in Below[c]
      PROVE  Cardinality(Below[d]) < Cardinality(Below[c])
  <2>1. Below[d] \in SUBSET Below[c] /\ d \notin Below[d]
    BY <1>3 DEF IsOrder
  <2>2. /\ Cardinality(Below[d]) <= Cardinality(Below[c])
        /\ Cardinality(Below[c]) = Cardinality(Below[d]) => Below[c] = Below[d]
    BY <1>2, <2>1, FS_Subset
  <2>3. Cardinality(Below[d]) \in Nat /\ Cardinality(Below[c]) \in Nat
    BY <1>2, <1>1
  <2>4. QED
    BY <1>3, <2>1, <2>2, <2>3
<1>4. rank \in [S -> All]
  BY <1>2
<1>5. \A c, d \in S : rank[c] \in Int /\ (d \in Below[c] => rank[d] < rank[c])
  BY <1>3, <1>4, <1>1
<1>6. \A c, d \in S : c = d \/ c \in Below[d] \/ d \in Below[c]
  BY DEF IsOrder
<1>7. \A c, d \in S : rank[c] = rank[d] => c = d
  <2> HIDE DEF rank
  <2>1. QED
    BY <1>5, <1>6
<1>8. \A c, d \in S : d \in Below[c] <=> rank[d] < rank[c]
  <2> HIDE DEF rank
  <2>1. QED
    BY <1>5, <1>6
<1>9. IsFiniteSet(All) /\ Cardinality(All) = Cardinality(S)
  BY <1>1, FS_Interval
<1>10. rank \in Surjection(S, All)
  <2> HIDE DEF rank, All
  <2>1. rank \in Injection(S, All)
    BY <1>4, <1>7, Fun_IsInj
  <2>2. QED
    BY <2>1, <1>9, FS_Injection
<1>11. \A n \in All : \E c \in S : rank[c] = n
  <2> HIDE DEF rank, All
  <2>1. QED
    BY <1>10, Fun_SurjectionProperties
<1>12. \A c \in S : rank[c] = Cardinality(Below[c])
  OBVIOUS
<1>13. QED
  <2> HIDE DEF rank
  <2>1. QED
    BY <1>2, <1>7, <1>8, <1>11, <1>12

\* The first n are n, or all there are; whatever is left out comes after each
\* of them.
LEMMA FirstN ==
  ASSUME NEW S, IsFiniteSet(S), NEW Below, IsOrder(Below, S), NEW n \in Nat
  PROVE  LET First == {c \in S : Cardinality(Below[c]) < n}
         IN /\ IsFiniteSet(First) /\ Cardinality(First) <= n
            /\ First # S => Cardinality(First) = n
            /\ \A c \in S \ First, d \in First : d \in Below[c]
<1> DEFINE rank == [c \in S |-> Cardinality(Below[c])]
           First == {c \in S : Cardinality(Below[c]) < n}
           part == [c \in First |-> rank[c]]
<1>1. /\ \A c \in S : rank[c] \in 0..(Cardinality(S) - 1)
      /\ \A c, d \in S : d \in Below[c] <=> rank[d] < rank[c]
      /\ \A c, d \in S : rank[c] = rank[d] => c = d
      /\ \A m \in 0..(Cardinality(S) - 1) : \E c \in S : rank[c] = m
  BY Ranks
<1>2. First = {c \in S : rank[c] < n} /\ First \subseteq S
  OBVIOUS
<1>3. Cardinality(S) \in Nat
  BY FS_CardinalityType
<1> HIDE DEF rank, First
<1>4. part \in [First -> 0..(n - 1)] /\ \A c, d \in First : part[c] = part[d] => c = d
  BY <1>1, <1>2, <1>3
<1>5. IsFiniteSet(0..(n - 1)) /\ Cardinality(0..(n - 1)) = n
  BY FS_Interval
<1>6. part \in Injection(First, 0..(n - 1))
  <2> HIDE DEF part
  <2>1. QED
    BY <1>4, Fun_IsInj
<1>7. /\ IsFiniteSet(First) /\ Cardinality(First) <= n
      /\ Cardinality(First) = n <=> part \in Surjection(First, 0..(n - 1))
  <2> HIDE DEF part
  <2>1. QED
    BY <1>5, <1>6, FS_Injection
<1>8. ASSUME First # S PROVE Cardinality(First) = n
  <2>1. PICK c \in S : ~ (rank[c] < n)
    BY <1>2, <1>8
  <2>2. n <= Cardinality(S) - 1
    BY <1>1, <1>3, <2>1
  <2>3. \A m \in 0..(n - 1) : \E d \in First : part[d] = m
    BY <1>1, <1>2, <1>3, <2>2
  <2>4. part \in Surjection(First, 0..(n - 1))
    <3> HIDE DEF part
    <3>1. QED
      BY <1>4, <2>3, Fun_IsSurj
  <2>5. QED
    BY <1>7, <2>4
<1>9. \A c \in S \ First, d \in First : d \in Below[c]
  BY <1>1, <1>2, <1>3
<1>10. QED
  BY <1>7, <1>8, <1>9 DEF First

\* A set with an injection into another counts no more.
LEMMA AtMost ==
  ASSUME NEW S, NEW T, IsFiniteSet(T), S \subseteq T
  PROVE  /\ IsFiniteSet(S) /\ Cardinality(S) \in Nat /\ Cardinality(T) \in Nat
         /\ Cardinality(S) <= Cardinality(T)
BY FS_Subset, FS_CardinalityType

=================================================================================
