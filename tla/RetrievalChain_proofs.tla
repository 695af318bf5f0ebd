------------------------- MODULE RetrievalChain_proofs -------------------------
(***************************************************************************)
(* Proofs about RetrievalChain and WebSearch.                              *)
(***************************************************************************)
EXTENDS RetrievalChain, RankTheorems, SequenceTheorems

-----------------------------------------------------------------------------
(* Places: sets of naturals, in their own order.                           *)

\* The places of a set before one of them order it.
LEMMA BeforeIsOrder ==
  ASSUME NEW P, P \subseteq Nat
  PROVE  IsOrder([i \in P |-> Before(P, i)], P)
<1> DEFINE B == [i \in P |-> Before(P, i)]
<1>1. \A i \in P : B[i] = {j \in P : j < i}
  BY DEF Before
<1>2. B \in [P -> SUBSET P]
  BY DEF Before
<1> HIDE DEF B
<1>3. \A c \in P : c \notin B[c]
  BY <1>1
<1>4. ASSUME NEW c \in P, NEW d \in P, d \in B[c] PROVE B[d] \subseteq B[c]
  <2>1. c \in Int /\ d \in Int /\ d < c
    BY <1>1, <1>4
  <2>2. ASSUME NEW i \in B[d] PROVE i \in B[c]
    <3>1. i \in P /\ i < d
      BY <1>1, <1>4
    <3>2. i \in Int /\ i < c
      BY <2>1, <3>1
    <3>3. QED
      BY <1>1, <3>1, <3>2
  <2>3. QED
    BY <2>2
<1>5. ASSUME NEW c \in P, NEW d \in P PROVE c = d \/ c \in B[d] \/ d \in B[c]
  <2>1. c = d \/ c < d \/ d < c
    OBVIOUS
  <2>2. QED
    BY <1>1, <2>1
<1>6. QED
  BY <1>2, <1>3, <1>4, <1>5 DEF IsOrder, B

\* The first n places.
LEMMA FirstPlaces ==
  ASSUME NEW P, P \subseteq Nat, IsFiniteSet(P), NEW n \in Nat
  PROVE  LET First == {i \in P : Cardinality(Before(P, i)) < n}
         IN /\ IsFiniteSet(First) /\ Cardinality(First) <= n
            /\ First # P => Cardinality(First) = n
            /\ \A c \in P \ First, d \in First : d < c
<1> DEFINE B == [i \in P |-> Before(P, i)]
           F == {i \in P : Cardinality(B[i]) < n}
           First == {i \in P : Cardinality(Before(P, i)) < n}
<1>1. IsOrder(B, P)
  BY BeforeIsOrder
<1>2. First = F
  OBVIOUS
<1>3. \A c, d \in P : d \in B[c] => d < c
  BY DEF Before
<1> HIDE DEF B
<1>4. /\ IsFiniteSet(F) /\ Cardinality(F) <= n
      /\ F # P => Cardinality(F) = n
      /\ \A c \in P \ F, d \in F : d \in B[c]
  BY <1>1, FirstN
<1>5. F \subseteq P
  OBVIOUS
<1>6. /\ IsFiniteSet(First) /\ Cardinality(First) <= n
      /\ First # P => Cardinality(First) = n
      /\ \A c \in P \ First, d \in First : d < c
  <2> HIDE DEF F, First
  <2>1. QED
    BY <1>2, <1>3, <1>4, <1>5
<1>7. QED
  BY <1>6 DEF First

\* Ranks of places go from 1 to their number, in their order.
LEMMA PlaceRanks ==
  ASSUME NEW P, P \subseteq Nat, IsFiniteSet(P)
  PROVE  /\ \A i \in P : Rank(P, i) \in 1..Cardinality(P)
         /\ \A i, j \in P : i < j <=> Rank(P, i) < Rank(P, j)
         /\ \A n \in 1..Cardinality(P) : \E i \in P : Rank(P, i) = n
<1> DEFINE B == [i \in P |-> Before(P, i)]
<1>1. IsOrder(B, P)
  BY BeforeIsOrder
<1>2. \A i \in P : Rank(P, i) = Cardinality(B[i]) + 1
  BY DEF Rank
<1>3. \A i, j \in P : i \in B[j] <=> i < j
  BY DEF Before
<1>4. Cardinality(P) \in Nat
  BY FS_CardinalityType
<1> HIDE DEF B
<1>5. /\ \A c \in P : Cardinality(B[c]) \in 0..(Cardinality(P) - 1)
      /\ \A c, d \in P : d \in B[c] <=> Cardinality(B[d]) < Cardinality(B[c])
      /\ \A n \in 0..(Cardinality(P) - 1) : \E c \in P : Cardinality(B[c]) = n
  BY <1>1, Ranks
<1>6. \A i \in P : Rank(P, i) \in 1..Cardinality(P)
  BY <1>2, <1>4, <1>5
<1>7. \A i, j \in P : i < j <=> Rank(P, i) < Rank(P, j)
  BY <1>2, <1>3, <1>4, <1>5
<1>8. ASSUME NEW n \in 1..Cardinality(P) PROVE \E i \in P : Rank(P, i) = n
  <2>1. n - 1 \in 0..(Cardinality(P) - 1)
    BY <1>4
  <2>2. PICK i \in P : Cardinality(B[i]) = n - 1
    BY <1>5, <2>1
  <2>3. QED
    BY <1>2, <2>2
<1>9. QED
  BY <1>6, <1>7, <1>8

-----------------------------------------------------------------------------
(* One web search.                                                         *)

\* What the engine offered: places of readable rows, no more than asked for.
LEMMA Offered ==
  ASSUME NEW rows \in Seq(Urls \cup {Junk})
  PROVE  /\ Coerced(rows) \subseteq DOMAIN rows /\ Coerced(rows) \subseteq Nat
         /\ IsFiniteSet(Coerced(rows)) /\ Cardinality(Coerced(rows)) <= MaxResults
         /\ \A i \in Coerced(rows) : rows[i] \in Urls
<1> DEFINE usable == {i \in DOMAIN rows : rows[i] \in Urls}
           first == {i \in usable : Cardinality(Before(usable, i)) < MaxResults}
<1>1. DOMAIN rows = 1..Len(rows) /\ Len(rows) \in Nat
  OBVIOUS
<1>2. IsFiniteSet(1..Len(rows))
  BY <1>1, FS_Interval
<1>3. usable \subseteq 1..Len(rows)
  BY <1>1
<1>4. usable \subseteq Nat /\ IsFiniteSet(usable)
  BY <1>2, <1>3, FS_Subset
<1>5. Coerced(rows) = first
  BY DEF Coerced
<1>6. MaxResults \in Nat
  BY WebAssumption
<1>7. Coerced(rows) \subseteq usable
  BY <1>5
<1>8. IsFiniteSet(Coerced(rows)) /\ Cardinality(Coerced(rows)) <= MaxResults
  <2> HIDE DEF usable
  <2>1. /\ IsFiniteSet(first) /\ Cardinality(first) <= MaxResults
        /\ first # usable => Cardinality(first) = MaxResults
        /\ \A c \in usable \ first, d \in first : d < c
    BY <1>4, <1>6, FirstPlaces
  <2>2. QED
    BY <1>5, <2>1
<1>9. QED
  BY <1>1, <1>4, <1>7, <1>8

\* After deduplication a page has one place: its first.
LEMMA Deduped ==
  ASSUME NEW rows, NEW P, P \subseteq Nat
  PROVE  LET D == DedupeByUrl(rows, P)
         IN /\ D \subseteq P
            /\ \A i, j \in D : rows[i] = rows[j] => i = j
            /\ \A i \in P : \E j \in D : j <= i /\ rows[j] = rows[i]
<1> DEFINE D == DedupeByUrl(rows, P)
<1>1. D = {i \in P : \A j \in P : j < i => rows[j] # rows[i]}
  BY DEF DedupeByUrl, Before
<1> HIDE DEF D
<1>2. \A i, j \in D : rows[i] = rows[j] => i = j
  BY <1>1
<1>3. ASSUME NEW i \in P PROVE \E j \in D : j <= i /\ rows[j] = rows[i]
  <2> DEFINE same == {j \in P : rows[j] = rows[i]}
  <2>1. same \subseteq Nat /\ i \in same
    OBVIOUS
  <2>2. PICK j \in same : \A k \in same : j <= k
    <3> HIDE DEF same
    <3>1. QED
      BY <2>1, LeastElement
  <2>3. \A k \in P : k < j => rows[k] # rows[j]
    BY <2>2
  <2>4. j \in D
    BY <1>1, <2>2, <2>3
  <2>5. QED
    BY <2>1, <2>2, <2>4
<1>4. QED
  BY <1>1, <1>2, <1>3 DEF D

\* The cap keeps the first places of each domain.
LEMMA Capped ==
  ASSUME NEW rows, NEW P, P \subseteq Nat, IsFiniteSet(P),
         MaxPerDomain \in Int, MaxPerDomain > 0
  PROVE  LET K == CapByDomain(rows, P)
         IN /\ K \subseteq P
            /\ \A d : d # NoDomain => Cardinality(FromDomain(rows, K, d)) <= MaxPerDomain
            /\ \A i \in P \ K :
                 LET d == Domain[rows[i]]
                 IN /\ d # NoDomain
                    /\ Cardinality(FromDomain(rows, K, d)) = MaxPerDomain
                    /\ \A j \in FromDomain(rows, K, d) : j < i
<1> DEFINE K == CapByDomain(rows, P)
           F(d) == FromDomain(rows, P, d)
           G(d) == FromDomain(rows, K, d)
<1>1. K = {i \in P : \/ Domain[rows[i]] = NoDomain
                     \/ Cardinality(Before(F(Domain[rows[i]]), i)) < MaxPerDomain}
  BY DEF CapByDomain
<1>2. ASSUME NEW d, d # NoDomain
      PROVE  /\ G(d) = {i \in F(d) : Cardinality(Before(F(d), i)) < MaxPerDomain}
             /\ F(d) \subseteq Nat /\ IsFiniteSet(F(d))
  <2>1. F(d) = {i \in P : Domain[rows[i]] = d}
    BY DEF FromDomain
  <2>2. G(d) = {i \in K : Domain[rows[i]] = d}
    BY DEF FromDomain
  <2>3. F(d) \subseteq P
    BY <2>1
  <2>4. IsFiniteSet(F(d))
    BY <2>3, FS_Subset
  <2> HIDE DEF K, F, G
  <2>5. G(d) = {i \in F(d) : Cardinality(Before(F(d), i)) < MaxPerDomain}
    BY <1>1, <1>2, <2>1, <2>2
  <2>6. QED
    BY <2>3, <2>4, <2>5
<1>3. ASSUME NEW d, d # NoDomain
      PROVE  /\ Cardinality(G(d)) <= MaxPerDomain
             /\ G(d) # F(d) => Cardinality(G(d)) = MaxPerDomain
             /\ \A c \in F(d) \ G(d), e \in G(d) : e < c
  <2> DEFINE Fd == F(d)
             Gd == G(d)
             first == {i \in Fd : Cardinality(Before(Fd, i)) < MaxPerDomain}
  <2>1. Gd = first /\ Fd \subseteq Nat /\ IsFiniteSet(Fd)
    BY <1>2, <1>3
  <2>2. MaxPerDomain \in Nat
    OBVIOUS
  <2> HIDE DEF Fd, Gd
  <2>3. /\ Cardinality(first) <= MaxPerDomain
        /\ first # Fd => Cardinality(first) = MaxPerDomain
        /\ \A c \in Fd \ first, e \in first : e < c
    BY <2>1, <2>2, FirstPlaces
  <2> HIDE DEF first
  <2>4. QED
    BY <2>1, <2>3 DEF Fd, Gd
<1>4. ASSUME NEW i \in P \ K, NEW d, d = Domain[rows[i]]
      PROVE  d # NoDomain /\ i \in F(d) \ G(d)
  <2>1. d # NoDomain
    BY <1>1, <1>4
  <2>2. i \in F(d) /\ i \notin G(d)
    BY <1>4 DEF FromDomain
  <2>3. QED
    BY <2>1, <2>2
<1>5. K \subseteq P
  BY <1>1
<1> HIDE DEF F
<1>6. \A i \in P \ K : LET d == Domain[rows[i]]
                       IN d # NoDomain /\ Cardinality(G(d)) = MaxPerDomain /\ \A j \in G(d) : j < i
  <2> HIDE DEF G, K
  <2>1. QED
    BY <1>3, <1>4
<1>7. QED
  BY <1>3, <1>5, <1>6

\* Whole division keeps order, and a whole divisor apart it tells apart.
LEMMA QuotientOrder ==
  ASSUME NEW a \in Nat, NEW b \in Nat, NEW m \in Nat, m > 0
  PROVE  /\ a <= b => a \div m <= b \div m
         /\ a + m <= b => a \div m < b \div m
<1>1. /\ a \div m \in Int /\ m * (a \div m) <= a /\ a < m * (a \div m + 1)
      /\ b \div m \in Int /\ m * (b \div m) <= b /\ b < m * (b \div m + 1)
  OBVIOUS
<1> DEFINE q == a \div m
           p == b \div m
<1> HIDE DEF q, p
<1>2. /\ q \in Int /\ m * q <= a /\ a < m * (q + 1)
      /\ p \in Int /\ m * p <= b /\ b < m * (p + 1)
  BY <1>1 DEF q, p
<1>3. ASSUME a <= b PROVE q <= p
  <2>1. m * q < m * (p + 1)
    BY <1>2, <1>3
  <2>2. q >= p + 1 => m * q >= m * (p + 1)
    BY <1>2, Z3
  <2>3. QED
    BY <1>2, <2>1, <2>2
<1>4. ASSUME a + m <= b PROVE q < p
  <2>1. m * (q + 1) = m * q + m
    BY <1>2, Z3
  <2>2. m * (q + 1) < m * (p + 1)
    BY <1>2, <1>4, <2>1
  <2>3. q >= p => m * (q + 1) >= m * (p + 1)
    BY <1>2, Z3
  <2>4. QED
    BY <1>2, <2>2, <2>3
<1>5. QED
  BY <1>3, <1>4 DEF q, p

\* Whole division undoes a product.
LEMMA WholeQuotient ==
  ASSUME NEW a \in Nat, NEW m \in Nat, m > 0
  PROVE  (m * a) \div m = a
<1> DEFINE b == m * a
<1>1. b \in Int
  OBVIOUS
<1> HIDE DEF b
<1>2. b \div m \in Int /\ m * (b \div m) <= b /\ b < m * (b \div m + 1)
  BY <1>1
<1> DEFINE q == b \div m
<1> HIDE DEF q
<1>3. q \in Int /\ m * q <= m * a /\ m * a < m * (q + 1)
  BY <1>2 DEF q, b
<1>4. q >= a + 1 => m * q >= m * a + m
  BY <1>3, Z3
<1>5. q + 1 <= a => m * (q + 1) <= m * a
  BY <1>3, Z3
<1>6. q = a
  <2>1. m * a \in Int /\ m * q \in Int /\ m * (q + 1) \in Int
    BY <1>3
  <2>2. ~ (q >= a + 1)
    BY <1>3, <1>4, <2>1
  <2>3. ~ (q + 1 <= a)
    BY <1>3, <1>5, <2>1
  <2>4. QED
    BY <1>3, <2>2, <2>3
<1>7. QED
  BY <1>6 DEF q, b

\* Scores fall from one end of the band to the other, strictly where the band
\* has room.
LEMMA Scored ==
  ASSUME NEW total \in 1..MaxResults
  PROVE  /\ \A r, q \in 1..total : r < q =>
              /\ RankToScore(r, total) >= RankToScore(q, total)
              /\ Roomy => RankToScore(r, total) > RankToScore(q, total)
         /\ total >= 2 => {WebMinScore, WebMaxScore} =
                          {RankToScore(1, total), RankToScore(total, total)}
<1> DEFINE lo == IF WebMinScore <= WebMaxScore THEN WebMinScore ELSE WebMaxScore
           hi == IF WebMinScore <= WebMaxScore THEN WebMaxScore ELSE WebMinScore
           Drop(r) == ((r - 1) * (hi - lo)) \div (total - 1)
<1>1. /\ MaxResults \in Nat \ {0} /\ total \in Nat
      /\ WebMinScore \in 0..10000 /\ WebMaxScore \in 0..10000
  BY WebAssumption
<1>2. lo \in Nat /\ hi \in Nat /\ lo <= hi /\ {WebMinScore, WebMaxScore} = {hi, lo}
  BY <1>1
<1>3. \A r : RankToScore(r, total) = IF total <= 1 THEN hi ELSE hi - Drop(r)
  BY DEF RankToScore
<1>4. Roomy => hi - lo >= MaxResults - 1
  <2> DEFINE gap == hi - lo
  <2>1. gap = WebMaxScore - WebMinScore \/ gap = WebMinScore - WebMaxScore
    BY <1>1
  <2>2. gap \in Nat
    BY <1>2
  <2> HIDE DEF gap, lo, hi
  <2>3. Roomy => gap \notin 0..(MaxResults - 2)
    BY <2>1 DEF Roomy
  <2>4. Roomy => gap >= MaxResults - 1
    BY <1>1, <2>2, <2>3
  <2>5. QED
    BY <2>4 DEF gap
<1>5. ASSUME total >= 2
      PROVE  /\ Drop(1) = 0 /\ Drop(total) = hi - lo
             /\ \A r, q \in 1..total : r < q => Drop(r) \in Int /\ Drop(q) \in Int /\ Drop(r) <= Drop(q)
                                                /\ (Roomy => Drop(r) < Drop(q))
  <2> DEFINE s == hi - lo
             m == total - 1
  <2>1. s \in Nat /\ m \in Nat /\ m > 0 /\ (Roomy => s >= m)
    BY <1>1, <1>2, <1>4, <1>5
  <2>2. \A r : Drop(r) = ((r - 1) * s) \div m
    OBVIOUS
  <2>3. total = m + 1
    BY <1>1
  <2> HIDE DEF s, m, Drop, lo, hi
  <2>4. Drop(1) = 0
    <3>1. (1 - 1) * s = 0
      BY <2>1
    <3>2. 0 \div m = 0
      BY <2>1, Quotient
    <3>3. QED
      BY <2>2, <3>1, <3>2
  <2>5. Drop(total) = s
    <3>1. (total - 1) * s = m * s
      BY <2>1, <2>3
    <3>2. (m * s) \div m = s
      BY <2>1, WholeQuotient
    <3>3. QED
      BY <2>2, <3>1, <3>2
  <2>6. ASSUME NEW r \in 1..total, NEW q \in 1..total, r < q
        PROVE  Drop(r) \in Int /\ Drop(q) \in Int /\ Drop(r) <= Drop(q) /\ (Roomy => Drop(r) < Drop(q))
    <3> DEFINE a == (r - 1) * s
               b == (q - 1) * s
    <3>1. r \in Int /\ q \in Int /\ r - 1 \in Nat /\ q - 1 \in Nat /\ r <= q - 1
      BY <1>1, <2>6
    <3>2. a \in Nat /\ b \in Nat
      BY <2>1, <3>1, Z3
    <3>3. a + s <= b
      <4>1. a + s = r * s
        BY <2>1, <3>1, Z3
      <4>2. r * s <= (q - 1) * s
        BY <2>1, <3>1, Z3
      <4>3. QED
        BY <4>1, <4>2
    <3>4. Drop(r) = a \div m /\ Drop(q) = b \div m
      BY <2>2
    <3> HIDE DEF a, b
    <3>5. a <= b /\ (Roomy => a + m <= b)
      BY <2>1, <3>2, <3>3
    <3>6. a \div m \in Int /\ b \div m \in Int
      BY <2>1, <3>2
    <3>7. QED
      BY <2>1, <3>2, <3>4, <3>5, <3>6, QuotientOrder
  <2>7. QED
    BY <2>4, <2>5, <2>6 DEF s
<1> HIDE DEF Drop, lo, hi
<1>6. ASSUME NEW r \in 1..total, NEW q \in 1..total, r < q
      PROVE  /\ RankToScore(r, total) >= RankToScore(q, total)
             /\ Roomy => RankToScore(r, total) > RankToScore(q, total)
  <2>1. total >= 2
    BY <1>1, <1>6
  <2>2. RankToScore(r, total) = hi - Drop(r) /\ RankToScore(q, total) = hi - Drop(q)
    BY <1>1, <1>3, <2>1
  <2>3. Drop(r) \in Int /\ Drop(q) \in Int /\ Drop(r) <= Drop(q) /\ (Roomy => Drop(r) < Drop(q))
    BY <1>5, <1>6, <2>1
  <2>4. QED
    BY <1>2, <2>2, <2>3
<1>7. ASSUME total >= 2
      PROVE  {WebMinScore, WebMaxScore} = {RankToScore(1, total), RankToScore(total, total)}
  <2>1. RankToScore(1, total) = hi /\ RankToScore(total, total) = lo
    BY <1>1, <1>2, <1>3, <1>5, <1>7
  <2>2. QED
    BY <1>2, <2>1
<1>8. QED
  BY <1>6, <1>7

\* Pages kept, once each: as many of a domain as places.
LEMMA KinCount ==
  ASSUME NEW rows, NEW K, IsFiniteSet(K), \A i, j \in K : rows[i] = rows[j] => i = j,
         NEW u, Domain[u] # NoDomain
  PROVE  Cardinality(Kin({rows[i] : i \in K}, u)) = Cardinality(FromDomain(rows, K, Domain[u]))
<1> DEFINE kept == {rows[i] : i \in K}
           kin == Kin(kept, u)
           from == FromDomain(rows, K, Domain[u])
           page == [i \in from |-> rows[i]]
<1>1. from = {i \in K : Domain[rows[i]] = Domain[u]}
  BY DEF FromDomain
<1>2. kin = {v \in kept : Domain[v] = Domain[u]}
  BY DEF Kin
<1>3. from \subseteq K
  BY <1>1
<1>4. IsFiniteSet(from)
  <2> HIDE DEF from
  <2>1. QED
    BY <1>3, FS_Subset
<1>5. \A v : v \in kin <=> \E i \in from : v = rows[i]
  BY <1>1, <1>2
<1>6. page \in [from -> kin]
  <2> HIDE DEF from, kin
  <2>1. QED
    BY <1>5
<1>7. \A v \in kin : \E i \in from : page[i] = v
  <2> HIDE DEF from, kin
  <2>1. QED
    BY <1>5
<1>8. \A i, j \in from : page[i] = page[j] => i = j
  <2> HIDE DEF from
  <2>1. QED
    BY <1>3
<1> HIDE DEF from, kin, page
<1>9. page \in Surjection(from, kin)
  BY <1>6, <1>7, Fun_IsSurj
<1>10. page \in Injection(from, kin)
  BY <1>6, <1>8, Fun_IsInj
<1>11. IsFiniteSet(kin) /\ Cardinality(kin) <= Cardinality(from)
  BY <1>4, <1>9, FS_Surjection
<1>12. Cardinality(from) <= Cardinality(kin)
  BY <1>10, <1>11, FS_Injection
<1>13. Cardinality(kin) \in Nat /\ Cardinality(from) \in Nat
  BY <1>4, <1>11, FS_CardinalityType
<1>14. QED
  BY <1>11, <1>12, <1>13 DEF kin, from

\* One search: what hits_for_query makes of any rows is spread.
LEMMA SpreadHolds ==
  ASSUME NEW rows \in Seq(Urls \cup {Junk}), MaxPerDomain > 0
  PROVE  Spread(rows, HitsForQuery(rows))
<1> DEFINE O == Coerced(rows)
           D == DedupeByUrl(rows, O)
           K == CapByDomain(rows, D)
           n == Cardinality(K)
           Score(i) == RankToScore(Rank(K, i), n)
           Hit(i) == [id |-> rows[i], score |-> Score(i)]
           found == {Hit(i) : i \in K}
           kept == {e.id : e \in found}
<1>1. /\ O \subseteq Nat /\ IsFiniteSet(O) /\ Cardinality(O) <= MaxResults
  BY Offered
<1>2. MaxPerDomain \in Int /\ MaxResults \in Nat
  BY WebAssumption
<1>3. /\ D \subseteq O
      /\ \A i, j \in D : rows[i] = rows[j] => i = j
      /\ \A i \in O : \E j \in D : j <= i /\ rows[j] = rows[i]
  <2> HIDE DEF O
  <2>1. QED
    BY <1>1, Deduped
<1>4. D \subseteq Nat /\ IsFiniteSet(D)
  <2> HIDE DEF O, D
  <2>1. QED
    BY <1>1, <1>3, FS_Subset
<1>5. /\ K \subseteq D
      /\ \A d : d # NoDomain => Cardinality(FromDomain(rows, K, d)) <= MaxPerDomain
      /\ \A i \in D \ K :
           /\ Domain[rows[i]] # NoDomain
           /\ Cardinality(FromDomain(rows, K, Domain[rows[i]])) = MaxPerDomain
           /\ \A j \in FromDomain(rows, K, Domain[rows[i]]) : j < i
  <2> HIDE DEF D
  <2>1. QED
    BY <1>2, <1>4, Capped
<1>6. HitsForQuery(rows) = found
  BY DEF HitsForQuery
<1>7. /\ K \subseteq Nat /\ IsFiniteSet(K) /\ n \in Nat /\ n <= MaxResults
      /\ \A i, j \in K : rows[i] = rows[j] => i = j
  <2> HIDE DEF O, D, K
  <2>1. K \subseteq Nat /\ K \subseteq O
    BY <1>1, <1>3, <1>5
  <2>2. IsFiniteSet(K) /\ n \in Nat /\ Cardinality(O) \in Nat /\ n <= Cardinality(O)
    BY <1>1, <2>1, AtMost
  <2>3. n <= MaxResults
    BY <1>1, <1>2, <2>2
  <2>4. QED
    BY <1>3, <1>5, <2>1, <2>2, <2>3
<1> HIDE DEF O, D, K
<1>8. /\ \A i \in K : Rank(K, i) \in 1..n
      /\ \A i, j \in K : i < j <=> Rank(K, i) < Rank(K, j)
      /\ \A m \in 1..n : \E i \in K : Rank(K, i) = m
  BY <1>7, PlaceRanks
<1>9. \A e \in found : \E i \in K : e = Hit(i)
  OBVIOUS
<1>10. \A i \in K : Hit(i) \in found /\ Hit(i).id = rows[i] /\ Hit(i).score = Score(i)
  OBVIOUS
<1>11. kept = {rows[i] : i \in K}
  <2> HIDE DEF Hit, found
  <2>1. \A e \in found : \E i \in K : e.id = rows[i]
    BY <1>9, <1>10
  <2>2. \A i \in K : \E e \in found : e.id = rows[i]
    BY <1>10
  <2>3. QED
    BY <2>1, <2>2
<1> HIDE DEF n, Score, Hit, found, kept
<1>12. \A e, f \in found : e.id = f.id => e = f
  BY <1>7, <1>9, <1>10
<1>13. ASSUME NEW u, Domain[u] # NoDomain
       PROVE  Cardinality(Kin(kept, u)) = Cardinality(FromDomain(rows, K, Domain[u]))
  BY <1>7, <1>11, <1>13, KinCount
<1>14. ASSUME NEW u PROVE Cardinality(Kin(kept, u)) <= MaxPerDomain
  <2>1. CASE Domain[u] # NoDomain
    BY <1>5, <1>13, <2>1
  <2>2. CASE Domain[u] = NoDomain
    <3>1. Kin(kept, u) = {}
      BY <2>2 DEF Kin
    <3>2. QED
      BY <1>2, <3>1, FS_EmptySet
  <2>3. QED
    BY <2>1, <2>2
<1>15. ASSUME NEW i \in O, rows[i] \notin kept
       PROVE  /\ Cardinality(Kin(kept, rows[i])) = MaxPerDomain
              /\ \A v \in Kin(kept, rows[i]) : \E j \in O : rows[j] = v /\ j < i
  <2>1. PICK j \in D : j <= i /\ rows[j] = rows[i]
    BY <1>3
  <2>2. j \in D \ K
    BY <1>11, <1>15, <2>1
  <2> DEFINE d == Domain[rows[i]]
             from == FromDomain(rows, K, d)
  <2>3. d # NoDomain /\ Cardinality(from) = MaxPerDomain /\ \A k \in from : k < j
    BY <1>5, <2>1, <2>2
  <2>4. Cardinality(Kin(kept, rows[i])) = MaxPerDomain
    BY <1>13, <2>3
  <2>5. ASSUME NEW v \in Kin(kept, rows[i]) PROVE \E k \in O : rows[k] = v /\ k < i
    <3>1. v \in kept /\ Domain[v] = d
      BY DEF Kin
    <3>2. PICK k \in K : v = rows[k]
      BY <1>11, <3>1
    <3>3. k \in from
      BY <3>1, <3>2 DEF FromDomain
    <3>4. k \in O /\ k \in Int /\ j \in Int /\ i \in Int
      BY <1>1, <1>3, <1>4, <1>5, <2>1
    <3>5. k < i
      BY <2>1, <2>3, <3>3, <3>4
    <3>6. QED
      BY <3>2, <3>4, <3>5
  <2>6. QED
    BY <2>4, <2>5
<1>16. ASSUME NEW e \in found, NEW f \in found, Above(rows, e.id, f.id)
       PROVE  e.score >= f.score /\ (Roomy => e.score > f.score)
  <2>1. PICK i \in K, j \in K : e = Hit(i) /\ f = Hit(j)
    BY <1>9
  <2>2. e.id = rows[i] /\ e.score = Score(i) /\ f.id = rows[j] /\ f.score = Score(j)
    BY <1>10, <2>1
  <2>3. PICK p \in O : rows[p] = rows[i] /\ \A q \in O : rows[q] = rows[j] => p < q
    BY <1>16, <2>2 DEF Above, O
  <2>4. i \in D /\ j \in D /\ i \in O /\ j \in O
    BY <1>3, <1>5
  <2>5. PICK k \in D : k <= p /\ rows[k] = rows[p]
    BY <1>3
  <2>6. k = i
    BY <1>3, <2>3, <2>4, <2>5
  <2>7. i < j
    BY <1>1, <2>3, <2>4, <2>5, <2>6
  <2>8. Rank(K, i) \in 1..n /\ Rank(K, j) \in 1..n /\ Rank(K, i) < Rank(K, j)
    BY <1>8, <2>7
  <2>9. n \in 1..MaxResults
    BY <1>2, <1>7, <2>8
  <2>10. /\ RankToScore(Rank(K, i), n) >= RankToScore(Rank(K, j), n)
         /\ Roomy => RankToScore(Rank(K, i), n) > RankToScore(Rank(K, j), n)
    BY <2>8, <2>9, Scored
  <2>11. QED
    BY <2>2, <2>10 DEF Score
<1>17. ASSUME Cardinality(found) >= 2
       PROVE  {WebMinScore, WebMaxScore} \subseteq {e.score : e \in found}
  <2> DEFINE hits == [i \in K |-> Hit(i)]
  <2>1. hits \in Surjection(K, found)
    <3>1. hits \in [K -> found] /\ \A e \in found : \E i \in K : hits[i] = e
      BY <1>9, <1>10
    <3> HIDE DEF hits
    <3>2. QED
      BY <3>1, Fun_IsSurj
  <2>2. IsFiniteSet(found) /\ Cardinality(found) <= n
    <3> HIDE DEF hits
    <3>1. QED
      BY <1>7, <2>1, FS_Surjection DEF n
  <2>3. Cardinality(found) \in Nat
    BY <2>2, FS_CardinalityType
  <2>4. n >= 2 /\ n \in 1..MaxResults
    BY <1>2, <1>7, <1>17, <2>2, <2>3
  <2>5. {WebMinScore, WebMaxScore} = {RankToScore(1, n), RankToScore(n, n)}
    BY <2>4, Scored
  <2>6. PICK i \in K : Rank(K, i) = 1
    BY <1>7, <1>8, <2>4
  <2>7. PICK j \in K : Rank(K, j) = n
    BY <1>7, <1>8, <2>4
  <2>8. Hit(i).score = RankToScore(1, n) /\ Hit(j).score = RankToScore(n, n)
    BY <1>10, <2>6, <2>7 DEF Score
  <2>9. RankToScore(1, n) \in {e.score : e \in found} /\ RankToScore(n, n) \in {e.score : e \in found}
    BY <1>10, <2>8
  <2>10. QED
    BY <2>5, <2>9
<1>18. Spread(rows, found)
  BY <1>12, <1>14, <1>15, <1>16, <1>17 DEF Spread, kept, O
<1>19. QED
  BY <1>6, <1>18

-----------------------------------------------------------------------------
(* The ladder.                                                             *)

WiredIn(s, tier) == IF tier \in s.tiers THEN <<tier>> ELSE <<>>
Retry(s, t) == IF s.reformulate /\ t.short # NoShort THEN <<"reformulated">> ELSE <<>>

\* The ladder of a setup for a task; Ladder(w) is that of w's.
LadderOf(s, t) ==
  <<"corpus">> \o Retry(s, t) \o WiredIn(s, "mcp") \o WiredIn(s, "web") \o WiredIn(s, "model")

LEMMA LadderIsOf ==
  ASSUME NEW w PROVE Ladder(w) = LadderOf(setup, task[w])
BY DEF Ladder, Wired, LadderOf, WiredIn, Retry

\* One more tier at the end of a ladder, or none.
LEMMA OneMore ==
  ASSUME NEW s \in Seq(Tiers), NEW r, NEW tier \in Tiers, r = <<>> \/ r = <<tier>>
  PROVE  /\ s \o r \in Seq(Tiers)
         /\ Len(s \o r) >= Len(s)
         /\ \A i \in 1..Len(s) : (s \o r)[i] = s[i]
         /\ \A i \in 1..Len(s \o r) : i > Len(s) =>
              i = Len(s) + 1 /\ Len(s \o r) = Len(s) + 1 /\ (s \o r)[i] = tier
<1>1. Len(s) \in Nat /\ <<>> \in Seq(Tiers) /\ Len(<<>>) = 0
  BY EmptySeq
<1>2. <<tier>> \in Seq(Tiers) /\ Len(<<tier>>) = 1 /\ <<tier>>[1] = tier
  OBVIOUS
<1>3. r \in Seq(Tiers) /\ Len(r) \in {0, 1} /\ (Len(r) = 1 => r[1] = tier)
  <2>1. CASE r = <<>>
    BY <1>1, <2>1
  <2>2. CASE r = <<tier>>
    BY <1>2, <2>2
  <2>3. QED
    BY <2>1, <2>2
<1> DEFINE c == s \o r
<1>4. /\ c \in Seq(Tiers) /\ Len(c) = Len(s) + Len(r)
      /\ \A i \in 1..(Len(s) + Len(r)) : c[i] = IF i <= Len(s) THEN s[i] ELSE r[i - Len(s)]
  <2>1. /\ s \o r \in Seq(Tiers) /\ Len(s \o r) = Len(s) + Len(r)
        /\ \A i \in 1 .. Len(s) + Len(r) :
             (s \o r)[i] = IF i <= Len(s) THEN s[i] ELSE r[i - Len(s)]
    BY <1>3, ConcatProperties
  <2>2. QED
    BY <2>1
<1> HIDE DEF c
<1>5. \A i \in 1..Len(s) : c[i] = s[i]
  BY <1>1, <1>3, <1>4
<1>6. ASSUME NEW i \in 1..Len(c), i > Len(s)
      PROVE  i = Len(s) + 1 /\ Len(c) = Len(s) + 1 /\ c[i] = tier
  <2>1. Len(r) = 1 /\ i = Len(s) + 1 /\ Len(c) = Len(s) + 1
    BY <1>1, <1>3, <1>4, <1>6
  <2>2. c[i] = r[i - Len(s)] /\ i - Len(s) = 1
    BY <1>1, <1>4, <2>1
  <2>3. QED
    BY <1>3, <2>1, <2>2
<1>7. QED
  BY <1>1, <1>3, <1>4, <1>5, <1>6 DEF c

\* The corpus comes first, its short form second at most, the model last.
LEMMA LadderShape ==
  ASSUME NEW s, NEW t
  PROVE  LET L == LadderOf(s, t)
         IN /\ L \in Seq(Tiers) /\ Len(L) >= 1
            /\ \A i \in 1..Len(L) :
                 /\ L[i] \in {"corpus", "reformulated"} => i <= 2
                 /\ L[i] = "reformulated" => t.short # NoShort
                 /\ L[i] = "model" => i = Len(L)
<1> DEFINE r1 == Retry(s, t)
           r2 == WiredIn(s, "mcp")
           r3 == WiredIn(s, "web")
           r4 == WiredIn(s, "model")
           s0 == <<"corpus">>
           s1 == s0 \o r1
           s2 == s1 \o r2
           s3 == s2 \o r3
           s4 == s3 \o r4
<1>1. LadderOf(s, t) = s4
  BY DEF LadderOf
<1>2. /\ "corpus" \in Tiers /\ "reformulated" \in Tiers
      /\ "mcp" \in Tiers /\ "web" \in Tiers /\ "model" \in Tiers
  BY DEF Tiers, Optional
<1>3. /\ r1 = <<>> \/ r1 = <<"reformulated">>
      /\ r1 = <<>> \/ t.short # NoShort
      /\ r2 = <<>> \/ r2 = <<"mcp">>
      /\ r3 = <<>> \/ r3 = <<"web">>
      /\ r4 = <<>> \/ r4 = <<"model">>
  BY DEF Retry, WiredIn
<1>4. s0 \in Seq(Tiers) /\ Len(s0) = 1 /\ s0[1] = "corpus"
  BY <1>2
<1> HIDE DEF r1, r2, r3, r4, s0
<1>5. /\ s1 \in Seq(Tiers) /\ Len(s1) >= Len(s0)
      /\ \A i \in 1..Len(s0) : s1[i] = s0[i]
      /\ \A i \in 1..Len(s1) : i > Len(s0) =>
           i = Len(s0) + 1 /\ Len(s1) = Len(s0) + 1 /\ s1[i] = "reformulated"
  BY <1>2, <1>3, <1>4, OneMore
<1>6. \A i \in 1..Len(s1) : i > Len(s0) => t.short # NoShort
  <2>1. ASSUME r1 = <<>> PROVE Len(s1) = Len(s0)
    <3>1. s1 = s0
      BY <1>4, <2>1, ConcatEmptySeq
    <3>2. QED
      BY <3>1
  <2>2. QED
    BY <1>3, <1>4, <1>5, <2>1
<1> HIDE DEF s1
<1>7. /\ s2 \in Seq(Tiers) /\ Len(s2) >= Len(s1)
      /\ \A i \in 1..Len(s1) : s2[i] = s1[i]
      /\ \A i \in 1..Len(s2) : i > Len(s1) =>
           i = Len(s1) + 1 /\ Len(s2) = Len(s1) + 1 /\ s2[i] = "mcp"
  BY <1>2, <1>3, <1>5, OneMore
<1> HIDE DEF s2
<1>8. /\ s3 \in Seq(Tiers) /\ Len(s3) >= Len(s2)
      /\ \A i \in 1..Len(s2) : s3[i] = s2[i]
      /\ \A i \in 1..Len(s3) : i > Len(s2) =>
           i = Len(s2) + 1 /\ Len(s3) = Len(s2) + 1 /\ s3[i] = "web"
  BY <1>2, <1>3, <1>7, OneMore
<1> HIDE DEF s3
<1>9. /\ s4 \in Seq(Tiers) /\ Len(s4) >= Len(s3)
      /\ \A i \in 1..Len(s3) : s4[i] = s3[i]
      /\ \A i \in 1..Len(s4) : i > Len(s3) =>
           i = Len(s3) + 1 /\ Len(s4) = Len(s3) + 1 /\ s4[i] = "model"
  BY <1>2, <1>3, <1>8, OneMore
<1> HIDE DEF s4
<1>10. Len(s0) \in Int /\ Len(s1) \in Int /\ Len(s2) \in Int /\ Len(s3) \in Int /\ Len(s4) \in Int
  BY <1>4, <1>5, <1>7, <1>8, <1>9
<1>11. ASSUME NEW i \in 1..Len(s4)
       PROVE  /\ s4[i] \in {"corpus", "reformulated"} => i <= 2
              /\ s4[i] = "reformulated" => t.short # NoShort
              /\ s4[i] = "model" => i = Len(s4)
  <2>1. CASE i > Len(s3)
    BY <1>9, <2>1
  <2>2. CASE i <= Len(s3) /\ i > Len(s2)
    BY <1>8, <1>9, <1>10, <2>2
  <2>3. CASE i <= Len(s2) /\ i > Len(s1)
    <3>1. s4[i] = s2[i] /\ s2[i] = "mcp"
      BY <1>7, <1>8, <1>9, <1>10, <2>3
    <3>2. QED
      BY <3>1
  <2>4. CASE i <= Len(s1)
    <3>1. s4[i] = s1[i] /\ i \in 1..Len(s1)
      BY <1>7, <1>8, <1>9, <1>10, <2>4
    <3>2. CASE i > Len(s0)
      BY <1>4, <1>5, <1>6, <3>1, <3>2
    <3>3. CASE i <= Len(s0)
      <4>1. i = 1 /\ s4[i] = "corpus"
        BY <1>4, <1>5, <1>10, <3>1, <3>3
      <4>2. QED
        BY <4>1
    <3>4. QED
      BY <1>10, <3>2, <3>3
  <2>5. QED
    BY <1>10, <2>1, <2>2, <2>3, <2>4
<1>12. Len(s4) >= 1
  BY <1>4, <1>5, <1>7, <1>8, <1>9, <1>10
<1>13. QED
  BY <1>1, <1>9, <1>11, <1>12

-----------------------------------------------------------------------------
(* The two legs, and the gate.                                             *)

CorpusTiers == {"corpus", "reformulated"}

\* A leg as a store returned it, with some of its places.
IsLeg(leg) == leg.hits \in Seq(Docs) /\ leg.places \subseteq DOMAIN leg.hits

\* One leg alone scores half of the scale at most.
LEMMA LegBound ==
  ASSUME NEW leg, IsLeg(leg), NEW d
  PROVE  LegScore(leg, d) \in 0..5000 /\ (Rows(leg, d) = {} => LegScore(leg, d) = 0)
<1> DEFINE above == {i \in leg.places : \A j \in Rows(leg, d) : i < j}
           image == {leg.hits[i] : i \in above}
           hit == [i \in above |-> leg.hits[i]]
           n == Cardinality(image)
<1>1. IsFiniteSet(1..Len(leg.hits)) /\ DOMAIN leg.hits = 1..Len(leg.hits)
  <2>1. Len(leg.hits) \in Nat /\ DOMAIN leg.hits = 1..Len(leg.hits)
    BY DEF IsLeg
  <2>2. QED
    BY <2>1, FS_Interval
<1>2. above \subseteq 1..Len(leg.hits)
  BY <1>1 DEF IsLeg
<1>3. IsFiniteSet(above)
  <2> HIDE DEF above
  <2>1. QED
    BY <1>1, <1>2, FS_Subset
<1>4. hit \in Surjection(above, image)
  <2>1. hit \in [above -> image] /\ \A x \in image : \E i \in above : hit[i] = x
    <3> HIDE DEF above
    <3>1. QED
      OBVIOUS
  <2> HIDE DEF hit, above, image
  <2>2. QED
    BY <2>1, Fun_IsSurj
<1>5. n \in Nat
  <2> HIDE DEF hit, above, image
  <2>1. IsFiniteSet(image)
    BY <1>3, <1>4, FS_Surjection
  <2>2. QED
    BY <2>1, FS_CardinalityType
<1>6. LegScore(leg, d) = IF Rows(leg, d) = {} THEN 0 ELSE 300000 \div (60 + n)
  BY DEF LegScore
<1> HIDE DEF n
<1>7. 300000 \div (60 + n) \in 0..5000
  <2> DEFINE m == 60 + n
             q == 300000 \div m
  <2>1. m \in Nat /\ m >= 60
    BY <1>5
  <2>2. q \in Nat /\ m * q <= 300000
    <3> HIDE DEF m
    <3>1. q \in Nat
      BY <2>1, Quotient
    <3>2. m * q <= 300000
      BY <2>1
    <3>3. QED
      BY <3>1, <3>2
  <2> HIDE DEF m, q
  <2>3. 60 * q <= m * q
    BY <2>1, <2>2, Z3
  <2>4. m * q \in Int
    BY <2>1, <2>2
  <2>5. q \in 0..5000
    BY <2>2, <2>3, <2>4
  <2>6. QED
    BY <2>5 DEF m, q
<1>8. QED
  BY <1>6, <1>7

\* What passes half of the scale was in both legs.
LEMMA FusedAgrees ==
  ASSUME NEW dense, NEW keyword, IsLeg(dense), IsLeg(keyword), NEW e \in Fused(dense, keyword)
  PROVE  /\ e.id \in Docs /\ e.score \in Int
         /\ e.score > 5000 => /\ \E k \in DOMAIN dense.hits : dense.hits[k] = e.id
                              /\ \E k \in DOMAIN keyword.hits : keyword.hits[k] = e.id
<1> DEFINE all == {dense.hits[i] : i \in dense.places} \cup {keyword.hits[i] : i \in keyword.places}
           Score(d) == LegScore(dense, d) + LegScore(keyword, d)
           Seen(d, f) == Rows(dense, d) \cup Rows(dense, f) # {}
           Met(d, f) == Leads(dense, d, f) \/ (~Seen(d, f) /\ Leads(keyword, d, f))
           Better(d, f) == Score(d) > Score(f) \/ (Score(d) = Score(f) /\ Met(d, f))
           top == {d \in all : Cardinality({f \in all : f # d /\ Better(f, d)}) < TopK}
<1>0. Fused(dense, keyword) = {[id |-> d, score |-> Least(10000, Score(d))] : d \in top}
  BY DEF Fused
<1>1. PICK d \in all : e = [id |-> d, score |-> Least(10000, Score(d))]
  <2>1. top \subseteq all
    OBVIOUS
  <2> HIDE DEF top, all, Score
  <2>2. QED
    BY <1>0, <2>1
<1>2. e.id = d /\ e.score = Least(10000, Score(d))
  BY <1>1
<1>3. d \in Docs
  <2>1. \A i \in dense.places : dense.hits[i] \in Docs
    BY DEF IsLeg
  <2>2. \A i \in keyword.places : keyword.hits[i] \in Docs
    BY DEF IsLeg
  <2>3. QED
    BY <2>1, <2>2
<1>4. /\ LegScore(dense, d) \in 0..5000 /\ (Rows(dense, d) = {} => LegScore(dense, d) = 0)
      /\ LegScore(keyword, d) \in 0..5000 /\ (Rows(keyword, d) = {} => LegScore(keyword, d) = 0)
  BY LegBound
<1>5. e.score \in Int /\ (e.score > 5000 => Rows(dense, d) # {} /\ Rows(keyword, d) # {})
  <2> DEFINE a == LegScore(dense, d)
             b == LegScore(keyword, d)
  <2>1. /\ a \in 0..5000 /\ (Rows(dense, d) = {} => a = 0)
        /\ b \in 0..5000 /\ (Rows(keyword, d) = {} => b = 0)
    BY <1>4
  <2>2. e.score = Least(10000, a + b)
    BY <1>2
  <2> HIDE DEF a, b
  <2>3. e.score = IF 10000 <= a + b THEN 10000 ELSE a + b
    BY <2>2 DEF Least
  <2>4. a \in Int /\ b \in Int /\ a <= 5000 /\ b <= 5000
    BY <2>1
  <2>5. e.score \in Int
    BY <2>3, <2>4
  <2>6. e.score > 5000 => a # 0 /\ b # 0
    BY <2>3, <2>4
  <2>7. QED
    BY <2>1, <2>5, <2>6
<1>6. ASSUME NEW leg, IsLeg(leg), Rows(leg, d) # {}
      PROVE  \E k \in DOMAIN leg.hits : leg.hits[k] = d
  BY <1>6 DEF Rows, IsLeg
<1>7. QED
  BY <1>2, <1>3, <1>5, <1>6

\* Nothing to fuse, nothing found.
LEMMA FusedOfNothing ==
  ASSUME NEW dense, NEW keyword, dense.places = {}, keyword.places = {}
  PROVE  Fused(dense, keyword) = {}
BY DEF Fused

\* What covers a goal shares two terms with it, or all there are.
LEMMA GateIsTight ==
  ASSUME NEW found, NEW terms \in Nat, \A e \in found : Overlap[e.id] \in Nat,
         Sufficient(found, terms)
  PROVE  \E e \in found : e.score > EvidenceFloor /\ Shared(e.id, terms) >= Least(2, terms)
<1>1. PICK e \in found : e.score > EvidenceFloor /\ (terms = 0 \/ Shared(e.id, terms) >= Need(terms))
  BY DEF Sufficient
<1>2. Shared(e.id, terms) \in Nat
  BY DEF Shared, Least
<1>3. CASE terms = 0
  BY <1>1, <1>2, <1>3 DEF Least
<1>4. CASE terms # 0
  <2> DEFINE q == terms \div 4
  <2>1. q \in Nat
    BY Quotient
  <2>2. Need(terms) = Least(3, Least(terms, IF q >= 2 THEN q ELSE 2))
    BY DEF Need
  <2> HIDE DEF q
  <2>3. Need(terms) \in Int /\ Need(terms) >= Least(2, terms)
    BY <2>1, <2>2 DEF Least
  <2>4. QED
    BY <1>1, <1>2, <1>4, <2>3 DEF Least
<1>5. QED
  BY <1>3, <1>4

-----------------------------------------------------------------------------
(* The inductive invariant.  Its parts are about one worker and take what  *)
(* they are about as parameters, so that a step of another worker leaves   *)
(* them alone.                                                             *)

Tries == [tier : Tiers, answered : BOOLEAN, dead : BOOLEAN, lost : Nat]

TriedIn(tr, tiers) == {i \in DOMAIN tr : tr[i].tier \in tiers}
AnsweringIn(tr) == {i \in DOMAIN tr : tr[i].answered}
DeadIn(tr) == {i \in TriedIn(tr, Optional) : tr[i].dead}
LostIn(tr, i) == IF i \in TriedIn(tr, CorpusTiers) THEN tr[i].lost ELSE 0
TermsOf(t, tier) == IF tier = "reformulated" THEN t.short ELSE t.terms

\* Where the worker is on its ladder.
Climbs(s, t, tr, st) ==
  /\ tr \in Seq(Tries) /\ Len(tr) <= Len(LadderOf(s, t))
  /\ st = "climbing" => Len(tr) < Len(LadderOf(s, t))
  /\ st \in {"over", "reported"} => AnsweringIn(tr) # {} \/ Len(tr) = Len(LadderOf(s, t))
  /\ \A i \in DOMAIN tr : tr[i].tier = LadderOf(s, t)[i]

\* An answer ends the climb, and what the last tier found is why.
Ends(t, tr, st, la) ==
  \A i \in AnsweringIn(tr) :
    /\ i = Len(tr) /\ st # "climbing" /\ la.tier = tr[i].tier
    /\ Sufficient(la.found, TermsOf(t, tr[i].tier))

\* What a tier may have found, by tier.
Silent(la) ==
  la.tier \in CorpusTiers /\ la.got[1] # <<>> =>
    \/ la.found = {}
    \/ \E i \in DOMAIN la.got[1] : la.got[1][i] \in Close[Text(la.tier)]
Agreed(la) ==
  la.tier \in CorpusTiers => \A e \in la.found :
    e.score > EvidenceFloor /\ EvidenceFloor >= 5000 =>
      \A leg \in {1, 2} : \E k \in DOMAIN la.got[leg] : la.got[leg][k] = e.id
Found(la) ==
  /\ Silent(la) /\ Agreed(la)
  /\ la.tier = "mcp" => \A e \in la.found : ~ (e.score > EvidenceFloor)
  /\ la.tier = "web" => la.got \in Seq(Urls \cup {Junk}) /\ la.found = HitsForQuery(la.got)
  /\ \A e \in la.found : Overlap[e.id] \in Nat

\* The counters that name how a ladder ended, and those that count tiers.
Verdicts == {AnsweredBy[t] : t \in Tiers} \cup {"chain_model_insufficient", "chain_exhausted"}
Tallies == {"retrieval_calls", "retrieval_leg_unavailable",
            "retrieval_keyword_dropped_off_topic", "chain_tier_failed", "llm_provider_calls"}

Said(tr, over) ==
  IF AnsweringIn(tr) # {} THEN {AnsweredBy[tr[i].tier] : i \in AnsweringIn(tr)}
  ELSE IF ~ over THEN {}
  ELSE IF TriedIn(tr, {"model"}) # {} THEN {"chain_model_insufficient"}
  ELSE {"chain_exhausted"}

Tells(c, tr, over) ==
  /\ c["retrieval_calls"] = Cardinality(TriedIn(tr, CorpusTiers))
  /\ c["retrieval_leg_unavailable"] = LostIn(tr, 1) + LostIn(tr, 2)
  /\ c["chain_tier_failed"] = Cardinality(DeadIn(tr))
  /\ c["llm_provider_calls"] = Cardinality(TriedIn(tr, {"model"}))
  /\ \A n \in Verdicts : c[n] = IF n \in Said(tr, over) THEN 1 ELSE 0

\* A thread's counters are about its task until they are sent with its result.
Counted(tr, st, c, r) ==
  /\ st \in {"climbing", "over"} => Tells(c, tr, st = "over")
  /\ st \in {"idle", "reported"} => c = NoCounts
  /\ st = "reported" => Tells(r, tr, TRUE)

WorkerInv(s, t, tr, st, c, r, la) ==
  Climbs(s, t, tr, st) /\ Ends(t, tr, st, la) /\ Found(la) /\ Counted(tr, st, c, r)

\* Only the types: what the functions of the state are functions of.
Types ==
  /\ setup \in Setups /\ task \in [Workers -> Tasks]
  /\ trail \in [Workers -> Seq(Tries)]
  /\ stage \in [Workers -> {"idle", "climbing", "over", "reported"}]
  /\ counts \in [Workers -> [Counters -> Nat]]
  /\ reported \in [Workers -> [Counters -> Nat]]
  /\ outcome \in [Workers -> {"none", "completed", "failed"}]
  /\ last = [w \in Workers |-> last[w]]

LadderInv ==
  /\ Types
  /\ \A w \in Workers :
       WorkerInv(setup, task[w], trail[w], stage[w], counts[w], reported[w], last[w])

-----------------------------------------------------------------------------
(* Counters.                                                               *)

LEMMA CounterNames ==
  /\ Counters = Verdicts \cup Tallies /\ Verdicts \cap Tallies = {}
  /\ \A t \in Tiers : AnsweredBy[t] \in Verdicts
BY DEF Counters, Verdicts, Tallies, AnsweredBy, Tiers, Optional

LEMMA VerdictIsOne ==
  ASSUME NEW tier \in Tiers, NEW answered \in BOOLEAN, NEW over \in BOOLEAN
  PROVE  Verdict(tier, answered, over) \subseteq Verdicts
BY CounterNames DEF Verdict, Verdicts

\* The tiers tried, after one more.
LEMMA TriedMore ==
  ASSUME NEW tr \in Seq(Tries), NEW x \in Tries
  PROVE  LET p == Len(tr) + 1
             new == Append(tr, x)
         IN /\ new \in Seq(Tries) /\ Len(new) = p /\ DOMAIN new = DOMAIN tr \cup {p}
            /\ p \notin DOMAIN tr /\ new[p] = x /\ \A i \in DOMAIN tr : new[i] = tr[i]
            /\ \A T : TriedIn(new, T) = IF x.tier \in T THEN TriedIn(tr, T) \cup {p} ELSE TriedIn(tr, T)
            /\ DeadIn(new) = IF x.dead /\ x.tier \in Optional THEN DeadIn(tr) \cup {p} ELSE DeadIn(tr)
            /\ AnsweringIn(new) = IF x.answered THEN AnsweringIn(tr) \cup {p} ELSE AnsweringIn(tr)
            /\ \A T : IsFiniteSet(TriedIn(tr, T))
            /\ IsFiniteSet(DeadIn(tr))
<1> DEFINE p == Len(tr) + 1
           new == Append(tr, x)
<1>1. Len(tr) \in Nat /\ DOMAIN tr = 1..Len(tr)
  OBVIOUS
<1>2. /\ new \in Seq(Tries) /\ Len(new) = p /\ DOMAIN new = DOMAIN tr \cup {p}
      /\ p \notin DOMAIN tr /\ new[p] = x /\ \A i \in DOMAIN tr : new[i] = tr[i]
  <2>1. new \in Seq(Tries) /\ Len(new) = p /\ new[p] = x /\ \A i \in 1..Len(tr) : new[i] = tr[i]
    OBVIOUS
  <2>2. DOMAIN new = 1..p
    BY <2>1
  <2> HIDE DEF new
  <2>3. QED
    BY <1>1, <2>1, <2>2
<1> HIDE DEF p, new
<1>3. ASSUME NEW T
      PROVE  TriedIn(new, T) = IF x.tier \in T THEN TriedIn(tr, T) \cup {p} ELSE TriedIn(tr, T)
  BY <1>2 DEF TriedIn
<1>4. DeadIn(new) = IF x.dead /\ x.tier \in Optional THEN DeadIn(tr) \cup {p} ELSE DeadIn(tr)
  BY <1>2 DEF DeadIn, TriedIn
<1>5. AnsweringIn(new) = IF x.answered THEN AnsweringIn(tr) \cup {p} ELSE AnsweringIn(tr)
  BY <1>2 DEF AnsweringIn
<1>6. IsFiniteSet(DOMAIN tr)
  BY <1>1, FS_Interval
<1>7. \A T : IsFiniteSet(TriedIn(tr, T))
  <2>1. ASSUME NEW T PROVE TriedIn(tr, T) \subseteq DOMAIN tr
    BY DEF TriedIn
  <2>2. QED
    BY <1>6, <2>1, FS_Subset
<1>8. IsFiniteSet(DeadIn(tr))
  <2>1. DeadIn(tr) \subseteq DOMAIN tr
    BY DEF DeadIn, TriedIn
  <2>2. QED
    BY <1>6, <2>1, FS_Subset
<1>9. QED
  BY <1>2, <1>3, <1>4, <1>5, <1>7, <1>8 DEF p, new

\* What a tier of a kind may count.
SpentFits(spent, tier, dead) ==
  /\ \A n \in Counters : Adds(spent, n) \in Nat
  /\ \A n \in Verdicts : Adds(spent, n) = 0
  /\ Adds(spent, "retrieval_calls") = IF tier \in CorpusTiers THEN 1 ELSE 0
  /\ tier \notin CorpusTiers => Adds(spent, "retrieval_leg_unavailable") = 0
  /\ Adds(spent, "chain_tier_failed") = IF dead /\ tier \in Optional THEN 1 ELSE 0
  /\ Adds(spent, "llm_provider_calls") = IF tier = "model" THEN 1 ELSE 0

\* Counters that told the trail so far tell it with the tier that ended.
LEMMA TellsMore ==
  ASSUME NEW tr \in Seq(Tries), AnsweringIn(tr) = {}, NEW c \in [Counters -> Nat], Tells(c, tr, FALSE),
         NEW x \in Tries, NEW over \in BOOLEAN, NEW spent, SpentFits(spent, x.tier, x.dead),
         x.lost = Adds(spent, "retrieval_leg_unavailable"),
         x.answered => over, x.tier = "model" => over,
         x.tier \in CorpusTiers => Len(tr) + 1 <= 2,
         over /\ x.tier # "model" => TriedIn(tr, {"model"}) = {}
  PROVE  LET told == Plus(Plus(c, spent), Once(Verdict(x.tier, x.answered, over)))
         IN told \in [Counters -> Nat] /\ Tells(told, Append(tr, x), over)
<1> DEFINE tier == x.tier
           answered == x.answered
           dead == x.dead
           lost == x.lost
           new == Append(tr, x)
           p == Len(tr) + 1
           V == Verdict(tier, answered, over)
           told == Plus(Plus(c, spent), Once(V))
<1>0. /\ tier \in Tiers /\ answered \in BOOLEAN /\ dead \in BOOLEAN /\ lost \in Nat
      /\ lost = Adds(spent, "retrieval_leg_unavailable")
      /\ tier = "model" => over
      /\ over /\ tier # "model" => TriedIn(tr, {"model"}) = {}
  BY DEF Tries
<1> HIDE DEF tier, answered, dead, lost
<1>1. /\ Counters = Verdicts \cup Tallies /\ Verdicts \cap Tallies = {}
      /\ \A t \in Tiers : AnsweredBy[t] \in Verdicts
  BY CounterNames
<1>2. V \subseteq Verdicts
  BY <1>0, VerdictIsOne
<1>3. \A n \in Counters : c[n] \in Nat /\ Adds(spent, n) \in Nat
  BY DEF SpentFits
<1>4. \A n : Adds(Once(V), n) = IF n \in V THEN 1 ELSE 0
  BY DEF Adds, Once
<1>5. /\ told \in [Counters -> Nat]
      /\ \A n \in Tallies : told[n] = c[n] + Adds(spent, n)
      /\ \A n \in Verdicts : told[n] = c[n] + (IF n \in V THEN 1 ELSE 0)
  <2>1. told = [n \in Counters |-> c[n] + Adds(spent, n) + Adds(Once(V), n)]
    BY DEF Plus
  <2> HIDE DEF V, told
  <2>2. \A n \in Counters : told[n] = c[n] + Adds(spent, n) + (IF n \in V THEN 1 ELSE 0)
    BY <1>4, <2>1
  <2>3. told \in [Counters -> Nat]
    BY <1>3, <1>4, <2>1
  <2>4. \A n \in Tallies : n \notin V /\ n \in Counters
    BY <1>1, <1>2
  <2>5. \A n \in Verdicts : n \in Counters /\ Adds(spent, n) = 0
    BY <1>1 DEF SpentFits
  <2>6. QED
    BY <1>3, <2>2, <2>3, <2>4, <2>5
<1>6. SpentFits(spent, tier, dead)
  BY DEF tier, dead
<1>7. x.tier = tier /\ x.answered = answered /\ x.dead = dead /\ x.lost = lost
  BY DEF tier, answered, dead, lost
<1>8. /\ DOMAIN new = DOMAIN tr \cup {p}
      /\ p \notin DOMAIN tr /\ new[p] = x /\ \A i \in DOMAIN tr : new[i] = tr[i]
      /\ \A T : TriedIn(new, T) = IF tier \in T THEN TriedIn(tr, T) \cup {p} ELSE TriedIn(tr, T)
      /\ DeadIn(new) = IF dead /\ tier \in Optional THEN DeadIn(tr) \cup {p} ELSE DeadIn(tr)
      /\ AnsweringIn(new) = IF answered THEN AnsweringIn(tr) \cup {p} ELSE AnsweringIn(tr)
      /\ \A T : IsFiniteSet(TriedIn(tr, T))
      /\ IsFiniteSet(DeadIn(tr))
  <2>1. LET q == Len(tr) + 1
            s == Append(tr, x)
        IN /\ DOMAIN s = DOMAIN tr \cup {q}
           /\ q \notin DOMAIN tr /\ s[q] = x /\ \A i \in DOMAIN tr : s[i] = tr[i]
           /\ \A T : TriedIn(s, T) = IF x.tier \in T THEN TriedIn(tr, T) \cup {q} ELSE TriedIn(tr, T)
           /\ DeadIn(s) = IF x.dead /\ x.tier \in Optional THEN DeadIn(tr) \cup {q} ELSE DeadIn(tr)
           /\ AnsweringIn(s) = IF x.answered THEN AnsweringIn(tr) \cup {q} ELSE AnsweringIn(tr)
           /\ \A T : IsFiniteSet(TriedIn(tr, T))
           /\ IsFiniteSet(DeadIn(tr))
    BY <1>7, TriedMore
  <2>2. QED
    BY <1>7, <2>1
<1>9. Len(tr) \in Nat /\ p \in Nat /\ p >= 1
  OBVIOUS
<1> HIDE DEF new, p, V, told
<1>10. \A T : p \notin TriedIn(tr, T) /\ p \notin DeadIn(tr)
  BY <1>8 DEF TriedIn, DeadIn
<1>11. \A T : /\ Cardinality(TriedIn(tr, T)) \in Nat
              /\ Cardinality(TriedIn(new, T)) =
                   Cardinality(TriedIn(tr, T)) + (IF tier \in T THEN 1 ELSE 0)
  <2>1. TAKE T
  <2>2. TriedIn(new, T) = IF tier \in T THEN TriedIn(tr, T) \cup {p} ELSE TriedIn(tr, T)
    BY <1>8
  <2>3. IsFiniteSet(TriedIn(tr, T)) /\ p \notin TriedIn(tr, T)
    BY <1>8, <1>10
  <2>4. /\ Cardinality(TriedIn(tr, T)) \in Nat
        /\ Cardinality(TriedIn(tr, T) \cup {p}) = Cardinality(TriedIn(tr, T)) + 1
    BY <2>3, FS_CardinalityType, FS_AddElement
  <2>5. CASE tier \in T
    BY <2>2, <2>4, <2>5
  <2>6. CASE tier \notin T
    BY <2>2, <2>4, <2>6
  <2>7. QED
    BY <2>5, <2>6
<1>12. /\ Cardinality(DeadIn(tr)) \in Nat
       /\ Cardinality(DeadIn(new)) =
            Cardinality(DeadIn(tr)) + (IF dead /\ tier \in Optional THEN 1 ELSE 0)
  <2>1. /\ Cardinality(DeadIn(tr)) \in Nat
        /\ Cardinality(DeadIn(tr) \cup {p}) = Cardinality(DeadIn(tr)) + 1
    BY <1>8, <1>10, FS_CardinalityType, FS_AddElement
  <2>2. CASE dead /\ tier \in Optional
    BY <1>8, <2>1, <2>2
  <2>3. CASE ~(dead /\ tier \in Optional)
    BY <1>8, <2>1, <2>3
  <2>4. QED
    BY <2>2, <2>3
<1>13. LostIn(new, 1) + LostIn(new, 2) = LostIn(tr, 1) + LostIn(tr, 2) + lost
       /\ LostIn(tr, 1) \in Nat /\ LostIn(tr, 2) \in Nat
  <2>1. ASSUME NEW i \in DOMAIN tr PROVE tr[i].lost \in Nat
    <3>1. tr[i] \in Tries
      OBVIOUS
    <3>2. QED
      BY <3>1 DEF Tries
  <2>2. LostIn(tr, 1) \in Nat /\ LostIn(tr, 2) \in Nat
    BY <2>1 DEF LostIn, TriedIn
  <2>3. ASSUME NEW i, i # p PROVE LostIn(new, i) = LostIn(tr, i)
    BY <1>8, <2>3 DEF LostIn, TriedIn
  <2>4. CASE tier \notin CorpusTiers
    <3>1. lost = 0
      BY <1>0, <1>6, <2>4 DEF SpentFits
    <3>2. LostIn(new, p) = LostIn(tr, p)
      BY <1>8, <1>10, <2>4 DEF LostIn
    <3>3. QED
      BY <2>2, <2>3, <3>1, <3>2
  <2>5. CASE tier \in CorpusTiers
    <3>1. p = 1 \/ p = 2
      BY <1>9, <2>5 DEF p, tier
    <3>2. LostIn(new, p) = lost /\ LostIn(tr, p) = 0
      BY <1>7, <1>8, <1>10, <2>5 DEF LostIn
    <3>3. QED
      BY <1>0, <2>2, <2>3, <3>1, <3>2
  <2>6. QED
    BY <2>4, <2>5
<1>14. ASSUME NEW n \in Verdicts
       PROVE  told[n] = IF n \in Said(new, over) THEN 1 ELSE 0
  <2>1. c[n] = 0
    BY DEF Tells, Said
  <2>2. Said(new, over) = V
    <3>1. CASE answered
      <4>1. AnsweringIn(new) = {p}
        BY <1>8, <3>1
      <4>2. Said(new, over) = {AnsweredBy[new[i].tier] : i \in {p}}
        BY <4>1 DEF Said
      <4>3. V = {AnsweredBy[tier]}
        BY <3>1 DEF V, Verdict
      <4>4. QED
        BY <1>7, <1>8, <4>2, <4>3
    <3>2. CASE ~ answered /\ tier = "model"
      <4>1. p \in TriedIn(new, {"model"}) /\ AnsweringIn(new) = {}
        BY <1>8, <3>2
      <4>2. QED
        BY <1>0, <3>2, <4>1 DEF Said, V, Verdict
    <3>3. CASE ~ answered /\ tier # "model" /\ over
      <4>1. TriedIn(new, {"model"}) = {} /\ AnsweringIn(new) = {}
        BY <1>0, <1>8, <3>3
      <4>2. QED
        BY <3>3, <4>1 DEF Said, V, Verdict
    <3>4. CASE ~ answered /\ tier # "model" /\ ~over
      <4>1. AnsweringIn(new) = {}
        BY <1>8, <3>4
      <4>2. QED
        BY <3>4, <4>1 DEF Said, V, Verdict
    <3>5. QED
      BY <3>1, <3>2, <3>3, <3>4
  <2>3. QED
    BY <1>5, <2>1, <2>2
<1>15. Tells(told, new, over)
  <2>1. {"retrieval_calls", "retrieval_leg_unavailable", "chain_tier_failed", "llm_provider_calls"}
          \subseteq Tallies
    BY DEF Tallies
  <2>2. told["retrieval_calls"] = Cardinality(TriedIn(new, CorpusTiers))
    BY <1>5, <1>6, <1>11, <2>1 DEF Tells, SpentFits
  <2>3. told["retrieval_leg_unavailable"] = LostIn(new, 1) + LostIn(new, 2)
    BY <1>0, <1>5, <1>13, <2>1 DEF Tells
  <2>4. told["chain_tier_failed"] = Cardinality(DeadIn(new))
    BY <1>5, <1>6, <1>12, <2>1 DEF Tells, SpentFits
  <2>5. told["llm_provider_calls"] = Cardinality(TriedIn(new, {"model"}))
    <3>1. Adds(spent, "llm_provider_calls") = IF tier \in {"model"} THEN 1 ELSE 0
      BY <1>6 DEF SpentFits
    <3>2. QED
      BY <1>5, <1>11, <2>1, <3>1 DEF Tells
  <2>6. QED
    BY <1>14, <2>2, <2>3, <2>4, <2>5 DEF Tells
<1>16. QED
  BY <1>5, <1>15 DEF told, new, V, tier, answered


-----------------------------------------------------------------------------
(* Steps.                                                                  *)

\* The tier a climbing worker asks next.
LEMMA TierAsked ==
  ASSUME LadderInv, NEW w \in Workers, stage[w] = "climbing"
  PROVE  LET L == LadderOf(setup, task[w])
             p == Len(trail[w]) + 1
         IN /\ L \in Seq(Tiers) /\ p \in 1..Len(L) /\ TierOf(w) = L[p] /\ TierOf(w) \in Tiers
            /\ TermsOf(task[w], TierOf(w)) \in Nat
            /\ TierOf(w) \in CorpusTiers => p <= 2
            /\ TierOf(w) = "model" => p = Len(L)
            /\ \A i \in DOMAIN trail[w] : trail[w][i].tier = "model" => i = Len(L)
            /\ AnsweringIn(trail[w]) = {}
<1> DEFINE L == LadderOf(setup, task[w])
           p == Len(trail[w]) + 1
<1>1. /\ setup \in Setups /\ task[w] \in Tasks /\ trail[w] \in Seq(Tries)
      /\ Climbs(setup, task[w], trail[w], stage[w]) /\ Ends(task[w], trail[w], stage[w], last[w])
  BY DEF LadderInv, Types, WorkerInv
<1>2. /\ L \in Seq(Tiers) /\ Len(L) >= 1
      /\ \A i \in 1..Len(L) :
           /\ L[i] \in {"corpus", "reformulated"} => i <= 2
           /\ L[i] = "reformulated" => task[w].short # NoShort
           /\ L[i] = "model" => i = Len(L)
  BY LadderShape
<1> HIDE DEF L
<1>3. Len(trail[w]) \in Nat /\ DOMAIN trail[w] = 1..Len(trail[w]) /\ Len(L) \in Nat
  BY <1>1, <1>2
<1>4. Len(trail[w]) < Len(L) /\ \A i \in DOMAIN trail[w] : trail[w][i].tier = L[i]
  BY <1>1 DEF Climbs, L
<1>5. p \in 1..Len(L)
  BY <1>3, <1>4
<1>6. TierOf(w) = L[p]
  BY LadderIsOf DEF TierOf, L
<1>7. TierOf(w) \in Tiers
  BY <1>2, <1>5, <1>6
<1>8. TermsOf(task[w], TierOf(w)) \in Nat
  <2>1. task[w].terms \in Nat /\ task[w].short \in Nat \cup {NoShort}
    BY <1>1, ChainAssumption
  <2>2. QED
    BY <1>2, <1>5, <1>6, <2>1 DEF TermsOf
<1>9. \A i \in DOMAIN trail[w] : trail[w][i].tier = "model" => i = Len(L)
  BY <1>2, <1>3, <1>4
<1>10. AnsweringIn(trail[w]) = {}
  BY <1>1 DEF Ends
<1>11. QED
  BY <1>2, <1>5, <1>6, <1>7, <1>8, <1>9, <1>10 DEF L, CorpusTiers

\* A tier that ends keeps the invariant, if what it found and counted fits it.
LEMMA TierStep ==
  ASSUME LadderInv, NEW w \in Workers, stage[w] = "climbing",
         NEW got, NEW found, NEW dead \in BOOLEAN, NEW spent,
         TierEnds(w, got, found, dead, spent), SpentFits(spent, TierOf(w), dead),
         Found([tier |-> TierOf(w), got |-> got, found |-> found])
  PROVE  LadderInv'
<1> DEFINE L == LadderOf(setup, task[w])
           tr == trail[w]
           p == Len(tr) + 1
           tier == TierOf(w)
           answered == Sufficient(found, Terms(w, tier))
           over == Over(w, answered)
           x == [tier |-> tier, answered |-> answered, dead |-> dead,
                 lost |-> Adds(spent, "retrieval_leg_unavailable")]
           new == Append(tr, x)
           told == Plus(Plus(counts[w], spent), Once(Verdict(tier, answered, over)))
           la == [tier |-> tier, got |-> got, found |-> found]
           st == IF over THEN "over" ELSE "climbing"
<1>1. Types /\ \A v \in Workers :
        WorkerInv(setup, task[v], trail[v], stage[v], counts[v], reported[v], last[v])
  BY DEF LadderInv
<1>2. /\ tr \in Seq(Tries) /\ counts[w] \in [Counters -> Nat]
      /\ Climbs(setup, task[w], tr, "climbing") /\ Counted(tr, "climbing", counts[w], reported[w])
  BY <1>1 DEF Types, WorkerInv
<1>3. /\ L \in Seq(Tiers) /\ p \in 1..Len(L) /\ tier = L[p] /\ tier \in Tiers
      /\ TermsOf(task[w], tier) \in Nat
      /\ tier \in CorpusTiers => p <= 2
      /\ tier = "model" => p = Len(L)
      /\ \A i \in DOMAIN tr : tr[i].tier = "model" => i = Len(L)
      /\ AnsweringIn(tr) = {}
  BY TierAsked
<1>4. /\ answered \in BOOLEAN /\ over \in BOOLEAN
      /\ over <=> answered \/ p = Len(L)
      /\ answered = Sufficient(found, TermsOf(task[w], tier))
  <2>1. answered \in BOOLEAN
    BY DEF Sufficient
  <2>2. Terms(w, tier) = TermsOf(task[w], tier)
    BY DEF Terms, TermsOf
  <2>3. Ladder(w) = L
    BY LadderIsOf
  <2>4. over = (answered \/ p = Len(L))
    BY <2>3 DEF Over
  <2>5. QED
    BY <2>1, <2>2, <2>4
<1>5. /\ setup' = setup /\ task' = task /\ reported' = reported /\ outcome' = outcome
      /\ trail' = [trail EXCEPT ![w] = new] /\ stage' = [stage EXCEPT ![w] = st]
      /\ counts' = [counts EXCEPT ![w] = told] /\ last' = [last EXCEPT ![w] = la]
  BY DEF TierEnds, Slot
<1>6. SpentFits(spent, tier, dead) /\ Found(la)
  OBVIOUS
<1>7. \A i \in DOMAIN tr : i < Len(L) /\ tr[i].tier = L[i]
  <2>1. DOMAIN tr = 1..Len(tr) /\ Len(tr) \in Nat /\ Len(L) \in Nat
    BY <1>2, <1>3
  <2>2. Len(tr) < Len(L)
    BY <1>3, <2>1
  <2>3. QED
    BY <1>2, <2>1, <2>2 DEF Climbs
<1> HIDE DEF L, tier, answered, over
<1>9. x \in Tries /\ x.tier = tier /\ x.answered = answered /\ x.dead = dead
      /\ x.lost = Adds(spent, "retrieval_leg_unavailable")
  <2>1. "retrieval_leg_unavailable" \in Counters
    BY DEF Counters
  <2>2. Adds(spent, "retrieval_leg_unavailable") \in Nat
    BY <1>6, <2>1 DEF SpentFits
  <2>3. QED
    BY <1>3, <1>4, <2>2 DEF Tries
<1>8. told \in [Counters -> Nat] /\ Tells(told, new, over)
  <2>1. Tells(counts[w], tr, FALSE)
    BY <1>2 DEF Counted
  <2>2. TriedIn(tr, {"model"}) = {}
    BY <1>3, <1>7 DEF TriedIn
  <2>3. answered => over
    BY <1>4
  <2>4. tier = "model" => over
    BY <1>3, <1>4
  <2>5. tier \in CorpusTiers => Len(tr) + 1 <= 2
    BY <1>3
  <2> DEFINE c == counts[w]
  <2>6. /\ tr \in Seq(Tries) /\ AnsweringIn(tr) = {} /\ c \in [Counters -> Nat] /\ Tells(c, tr, FALSE)
        /\ over \in BOOLEAN /\ SpentFits(spent, x.tier, x.dead)
        /\ x.answered => over
        /\ x.tier = "model" => over
        /\ x.tier \in CorpusTiers => Len(tr) + 1 <= 2
        /\ TriedIn(tr, {"model"}) = {}
    BY <1>2, <1>3, <1>4, <1>6, <1>9, <2>1, <2>2, <2>3, <2>4, <2>5
  <2> HIDE DEF tr, c, x
  <2>7. LET d == Plus(Plus(c, spent), Once(Verdict(x.tier, x.answered, over)))
        IN d \in [Counters -> Nat] /\ Tells(d, Append(tr, x), over)
    BY <1>9, <2>6, TellsMore
  <2>8. QED
    BY <1>9, <2>7 DEF c
<1> HIDE DEF x
<1>10. /\ new \in Seq(Tries) /\ Len(new) = p /\ DOMAIN new = DOMAIN tr \cup {p}
       /\ new[p] = x /\ \A i \in DOMAIN tr : new[i] = tr[i]
       /\ AnsweringIn(new) = IF answered THEN {p} ELSE {}
  <2>1. LET q == Len(tr) + 1
            s == Append(tr, x)
        IN /\ s \in Seq(Tries) /\ Len(s) = q /\ DOMAIN s = DOMAIN tr \cup {q}
           /\ s[q] = x /\ \A i \in DOMAIN tr : s[i] = tr[i]
           /\ AnsweringIn(s) = IF x.answered THEN AnsweringIn(tr) \cup {q} ELSE AnsweringIn(tr)
    <3> HIDE DEF tr
    <3>1. QED
      BY <1>2, <1>9, TriedMore
  <2>2. QED
    BY <1>3, <1>9, <2>1
<1> HIDE DEF new, told, p, tr
<1>11. Climbs(setup, task[w], new, st)
  <2>1. p \in Int /\ Len(L) \in Int /\ p <= Len(L)
    BY <1>3
  <2>2. \A i \in DOMAIN new : new[i].tier = L[i]
    BY <1>3, <1>7, <1>9, <1>10
  <2>3. Len(new) <= Len(L) /\ (st = "climbing" => Len(new) < Len(L))
    BY <1>4, <1>10, <2>1
  <2>4. st \in {"over", "reported"} => AnsweringIn(new) # {} \/ Len(new) = Len(L)
    BY <1>4, <1>10
  <2>5. QED
    BY <1>10, <2>2, <2>3, <2>4 DEF Climbs, L
<1>12. Ends(task[w], new, st, la)
  <2>1. SUFFICES ASSUME NEW i \in AnsweringIn(new)
                 PROVE  /\ i = Len(new) /\ st # "climbing" /\ la.tier = new[i].tier
                        /\ Sufficient(la.found, TermsOf(task[w], new[i].tier))
    BY DEF Ends
  <2>2. answered /\ i = p /\ new[i].tier = tier
    BY <1>9, <1>10
  <2>3. la.tier = tier /\ la.found = found
    OBVIOUS
  <2>4. QED
    BY <1>4, <1>10, <2>2, <2>3
<1>13. Counted(new, st, told, reported[w])
  <2>1. over = (st = "over")
    BY <1>4
  <2>2. QED
    BY <1>8, <2>1 DEF Counted
<1> HIDE DEF la, st
<1>14. WorkerInv(setup, task[w], new, st, told, reported[w], la)
  BY <1>6, <1>11, <1>12, <1>13 DEF WorkerInv
<1>15. st \in {"idle", "climbing", "over", "reported"}
  BY DEF st
<1>16. Types'
  <2>1. last' = [v \in Workers |-> last'[v]]
    BY <1>1, <1>5 DEF Types
  <2>2. QED
    BY <1>1, <1>5, <1>8, <1>10, <1>15, <2>1 DEF Types
<1>17. ASSUME NEW v \in Workers
       PROVE  WorkerInv(setup', task'[v], trail'[v], stage'[v], counts'[v], reported'[v], last'[v])
  <2>1. CASE v = w
    <3>1. trail'[w] = new /\ stage'[w] = st /\ counts'[w] = told /\ last'[w] = la
      BY <1>1, <1>5 DEF Types
    <3>2. QED
      BY <1>5, <1>14, <2>1, <3>1
  <2>2. CASE v # w
    <3>1. trail'[v] = trail[v] /\ stage'[v] = stage[v] /\ counts'[v] = counts[v] /\ last'[v] = last[v]
      BY <1>1, <1>5, <2>2 DEF Types
    <3>2. QED
      BY <1>1, <1>5, <3>1
  <2>3. QED
    BY <2>1, <2>2
<1>18. QED
  BY <1>16, <1>17 DEF LadderInv

\* No counter is spent before a search.
LEMMA NothingTold ==
  Tells(NoCounts, <<>>, FALSE) /\ NoCounts \in [Counters -> Nat]
<1>1. \A T : TriedIn(<<>>, T) = {}
  BY DEF TriedIn
<1>2. DeadIn(<<>>) = {} /\ AnsweringIn(<<>>) = {}
  BY DEF DeadIn, TriedIn, AnsweringIn
<1>3. \A n \in Counters : NoCounts[n] = 0
  BY DEF NoCounts
<1>4. Cardinality({}) = 0
  BY FS_EmptySet
<1>5. Verdicts \subseteq Counters /\ Tallies \subseteq Counters
  BY CounterNames
<1>6. LostIn(<<>>, 1) = 0 /\ LostIn(<<>>, 2) = 0
  BY <1>1 DEF LostIn
<1>7. Said(<<>>, FALSE) = {}
  BY <1>2 DEF Said
<1>8. NoCounts \in [Counters -> Nat]
  BY DEF NoCounts
<1>9. {"retrieval_calls", "retrieval_leg_unavailable", "chain_tier_failed", "llm_provider_calls"}
        \subseteq Counters
  BY DEF Counters
<1>10. \A n \in Verdicts : NoCounts[n] = IF n \in Said(<<>>, FALSE) THEN 1 ELSE 0
  BY <1>3, <1>5, <1>7
<1> DEFINE zero == NoCounts
<1>11. /\ zero["retrieval_calls"] = 0 /\ zero["retrieval_leg_unavailable"] = 0
       /\ zero["chain_tier_failed"] = 0 /\ zero["llm_provider_calls"] = 0
  BY <1>3, <1>9
<1>12. Tells(NoCounts, <<>>, FALSE)
  <2> DEFINE none == TriedIn(<<>>, CorpusTiers)
             modelled == TriedIn(<<>>, {"model"})
             died == DeadIn(<<>>)
  <2>1. Cardinality(none) = 0 /\ Cardinality(modelled) = 0 /\ Cardinality(died) = 0
    BY <1>1, <1>2, <1>4
  <2> HIDE DEF none, modelled, died, zero
  <2>2. /\ zero["retrieval_calls"] = Cardinality(none)
        /\ zero["retrieval_leg_unavailable"] = LostIn(<<>>, 1) + LostIn(<<>>, 2)
        /\ zero["chain_tier_failed"] = Cardinality(died)
        /\ zero["llm_provider_calls"] = Cardinality(modelled)
    BY <1>6, <1>11, <2>1
  <2>3. QED
    BY <1>10, <2>2 DEF Tells, none, modelled, died, zero
<1>13. QED
  BY <1>8, <1>12

LEMMA LadderInit == Init => LadderInv
<1>1. SUFFICES ASSUME Init PROVE LadderInv
  OBVIOUS
<1>2. <<>> \in Seq(Tries) /\ Len(<<>>) = 0 /\ DOMAIN <<>> = {}
  BY EmptySeq
<1>3. (CHOOSE t \in Tasks : TRUE) \in Tasks
  BY ChainAssumption
<1>4. Types
  BY <1>1, <1>2, <1>3, NothingTold DEF Init, Types
<1>5. ASSUME NEW w \in Workers
      PROVE  WorkerInv(setup, task[w], trail[w], stage[w], counts[w], reported[w], last[w])
  <2>1. trail[w] = <<>> /\ stage[w] = "idle" /\ counts[w] = NoCounts /\ last[w] = Nothing
    BY <1>1 DEF Init
  <2>2. Climbs(setup, task[w], <<>>, "idle")
    <3>1. LadderOf(setup, task[w]) \in Seq(Tiers) /\ Len(LadderOf(setup, task[w])) >= 1
      BY LadderShape
    <3>2. QED
      BY <1>2, <3>1 DEF Climbs
  <2>3. Ends(task[w], <<>>, "idle", Nothing)
    BY <1>2 DEF Ends, AnsweringIn
  <2>4. Found(Nothing)
    BY DEF Found, Silent, Agreed, Nothing, CorpusTiers
  <2>5. Counted(<<>>, "idle", NoCounts, reported[w])
    BY DEF Counted
  <2>6. QED
    BY <2>1, <2>2, <2>3, <2>4, <2>5 DEF WorkerInv
<1>6. QED
  BY <1>4, <1>5 DEF LadderInv

LEMMA StartStep ==
  ASSUME LadderInv, NEW w \in Workers, Start(w)
  PROVE  LadderInv'
<1>1. Types /\ \A v \in Workers :
        WorkerInv(setup, task[v], trail[v], stage[v], counts[v], reported[v], last[v])
  BY DEF LadderInv
<1>2. PICK t \in Tasks : task' = [task EXCEPT ![w] = t]
  BY DEF Start
<1>3. /\ stage[w] \in {"idle", "reported"}
      /\ trail' = [trail EXCEPT ![w] = <<>>] /\ stage' = [stage EXCEPT ![w] = "climbing"]
      /\ reported' = [reported EXCEPT ![w] = NoCounts] /\ outcome' = [outcome EXCEPT ![w] = "none"]
      /\ last' = [last EXCEPT ![w] = Nothing] /\ setup' = setup /\ counts' = counts
  BY DEF Start
<1>4. <<>> \in Seq(Tries) /\ Len(<<>>) = 0 /\ DOMAIN <<>> = {}
  BY EmptySeq
<1>5. counts[w] = NoCounts
  BY <1>1, <1>3 DEF WorkerInv, Counted
<1>6. WorkerInv(setup, t, <<>>, "climbing", NoCounts, NoCounts, Nothing)
  <2>1. Climbs(setup, t, <<>>, "climbing")
    <3>1. LadderOf(setup, t) \in Seq(Tiers) /\ Len(LadderOf(setup, t)) >= 1
      BY LadderShape
    <3>2. QED
      BY <1>4, <3>1 DEF Climbs
  <2>2. Ends(t, <<>>, "climbing", Nothing)
    BY <1>4 DEF Ends, AnsweringIn
  <2>3. Found(Nothing)
    BY DEF Found, Silent, Agreed, Nothing, CorpusTiers
  <2>4. Counted(<<>>, "climbing", NoCounts, NoCounts)
    BY NothingTold DEF Counted
  <2>5. QED
    BY <2>1, <2>2, <2>3, <2>4 DEF WorkerInv
<1>7. Types'
  <2>1. last' = [v \in Workers |-> last'[v]]
    BY <1>1, <1>3 DEF Types
  <2>2. QED
    BY <1>1, <1>2, <1>3, <1>4, <2>1, NothingTold DEF Types
<1>8. ASSUME NEW v \in Workers
      PROVE  WorkerInv(setup', task'[v], trail'[v], stage'[v], counts'[v], reported'[v], last'[v])
  <2>1. CASE v = w
    <3>1. /\ task'[w] = t /\ trail'[w] = <<>> /\ stage'[w] = "climbing" /\ reported'[w] = NoCounts
          /\ last'[w] = Nothing
      BY <1>1, <1>2, <1>3 DEF Types
    <3>2. QED
      BY <1>3, <1>5, <1>6, <2>1, <3>1
  <2>2. CASE v # w
    <3>1. /\ task'[v] = task[v] /\ trail'[v] = trail[v] /\ stage'[v] = stage[v]
          /\ reported'[v] = reported[v] /\ last'[v] = last[v]
      BY <1>1, <1>2, <1>3, <2>2 DEF Types
    <3>2. QED
      BY <1>1, <1>3, <3>1
  <2>3. QED
    BY <2>1, <2>2
<1>9. QED
  BY <1>7, <1>8 DEF LadderInv

LEMMA ReportStep ==
  ASSUME LadderInv, NEW w \in Workers, Report(w)
  PROVE  LadderInv'
<1>1. Types /\ \A v \in Workers :
        WorkerInv(setup, task[v], trail[v], stage[v], counts[v], reported[v], last[v])
  BY DEF LadderInv
<1>2. /\ stage[w] = "over"
      /\ reported' = [reported EXCEPT ![w] = counts[w]] /\ counts' = [counts EXCEPT ![w] = NoCounts]
      /\ stage' = [stage EXCEPT ![w] = "reported"] /\ outcome' = [outcome EXCEPT ![w] = "completed"]
      /\ setup' = setup /\ task' = task /\ trail' = trail /\ last' = last
  BY DEF Report, Slot
<1>3. WorkerInv(setup, task[w], trail[w], "over", counts[w], reported[w], last[w])
  BY <1>1, <1>2
<1>4. WorkerInv(setup, task[w], trail[w], "reported", NoCounts, counts[w], last[w])
  <2>1. Climbs(setup, task[w], trail[w], "reported")
    BY <1>3 DEF WorkerInv, Climbs
  <2>2. Ends(task[w], trail[w], "reported", last[w])
    BY <1>3 DEF WorkerInv, Ends
  <2>3. Counted(trail[w], "reported", NoCounts, counts[w])
    <3>1. Tells(counts[w], trail[w], TRUE)
      BY <1>3 DEF WorkerInv, Counted
    <3>2. QED
      BY <3>1 DEF Counted
  <2>4. QED
    BY <1>3, <2>1, <2>2, <2>3 DEF WorkerInv
<1>5. Types'
  BY <1>1, <1>2, NothingTold DEF Types
<1>6. ASSUME NEW v \in Workers
      PROVE  WorkerInv(setup', task'[v], trail'[v], stage'[v], counts'[v], reported'[v], last'[v])
  <2>1. CASE v = w
    <3>1. stage'[w] = "reported" /\ counts'[w] = NoCounts /\ reported'[w] = counts[w]
      BY <1>1, <1>2 DEF Types
    <3>2. QED
      BY <1>2, <1>4, <2>1, <3>1
  <2>2. CASE v # w
    <3>1. stage'[v] = stage[v] /\ counts'[v] = counts[v] /\ reported'[v] = reported[v]
      BY <1>1, <1>2, <2>2 DEF Types
    <3>2. QED
      BY <1>1, <1>2, <3>1
  <2>3. QED
    BY <2>1, <2>2
<1>7. QED
  BY <1>5, <1>6 DEF LadderInv


\* What the tiers beyond the corpus count: the model its call, a tier that
\* raised its failure.
LEMMA SpentBeyond ==
  ASSUME NEW tier \in Optional, NEW S,
         S = IF tier = "model" THEN {"llm_provider_calls"} ELSE {}
  PROVE  /\ SpentFits(Once(S), tier, FALSE)
         /\ SpentFits([n \in DOMAIN Once(S) \cup {"chain_tier_failed"} |-> 1], tier, TRUE)
<1> DEFINE dead == [n \in DOMAIN Once(S) \cup {"chain_tier_failed"} |-> 1]
<1>1. \A n : Adds(Once(S), n) = IF n \in S THEN 1 ELSE 0
  BY DEF Adds, Once
<1>2. \A n : Adds(dead, n) = IF n \in S \cup {"chain_tier_failed"} THEN 1 ELSE 0
  BY DEF Adds, Once
<1> HIDE DEF dead
<1>3. tier \notin CorpusTiers
  BY DEF CorpusTiers, Optional
<1>4. Verdicts \cap Tallies = {} /\ S \cup {"chain_tier_failed"} \subseteq Tallies
  BY CounterNames DEF Tallies
<1>5. SpentFits(Once(S), tier, FALSE)
  BY <1>1, <1>3, <1>4 DEF SpentFits
<1>6. SpentFits(dead, tier, TRUE)
  BY <1>2, <1>3, <1>4 DEF SpentFits
<1>7. QED
  BY <1>5, <1>6 DEF dead

\* A search of no rows finds nothing.
LEMMA NoRows ==
  <<>> \in Seq(Urls \cup {Junk}) /\ HitsForQuery(<<>>) = {}
<1>1. <<>> \in Seq(Urls \cup {Junk})
  BY EmptySeq
<1>2. Coerced(<<>>) = {}
  <2>1. Coerced(<<>>) \subseteq DOMAIN <<>>
    BY DEF Coerced
  <2>2. QED
    BY <2>1
<1>3. CapByDomain(<<>>, DedupeByUrl(<<>>, {})) = {}
  BY DEF CapByDomain, DedupeByUrl
<1>4. HitsForQuery(<<>>) = {}
  BY <1>2, <1>3 DEF HitsForQuery
<1>5. QED
  BY <1>1, <1>4

LEMMA FloorIsWhole == EvidenceFloor \in Int
BY ChainAssumption

LEMMA EngineRowsAreRows == \A rows \in EngineRows : rows \in Seq(Urls \cup {Junk})
<1>1. \A rows \in Pages : rows \in Seq(Urls \cup {Junk})
  BY ChainAssumption
<1>2. QED
  <2> DEFINE S == Seq(Urls \cup {Junk})
  <2>1. <<>> \in S /\ \A rows \in Pages : rows \in S
    BY <1>1, NoRows
  <2> HIDE DEF S
  <2>2. \A rows \in EngineRows : rows \in S
    BY <2>1 DEF EngineRows
  <2>3. QED
    BY <2>2 DEF S

\* A tool beyond the corpus that raised.
LEMMA RaiseStep ==
  ASSUME LadderInv, NEW w \in Workers, stage[w] = "climbing", TierOf(w) \in Optional,
         NEW S, S = IF TierOf(w) = "model" THEN {"llm_provider_calls"} ELSE {},
         TierRaises(w, Once(S))
  PROVE  LadderInv'
<1> DEFINE tier == TierOf(w)
           spent == [n \in DOMAIN Once(S) \cup {"chain_tier_failed"} |-> 1]
<1>1. TierEnds(w, <<>>, {}, TRUE, spent)
  BY DEF TierRaises
<1>2. SpentFits(spent, tier, TRUE)
  <2> HIDE DEF tier
  <2>1. tier \in Optional /\ S = IF tier = "model" THEN {"llm_provider_calls"} ELSE {}
    BY DEF tier
  <2>2. QED
    BY <2>1, SpentBeyond
<1>3. Found([tier |-> tier, got |-> <<>>, found |-> {}])
  <2>1. tier \notin CorpusTiers
    BY DEF CorpusTiers, Optional
  <2> HIDE DEF tier
  <2>2. QED
    BY <2>1, NoRows DEF Found, Silent, Agreed
<1> HIDE DEF spent
<1>4. QED
  BY <1>1, <1>2, <1>3, TierStep

\* A tool beyond the corpus that answered.
LEMMA AnswerStep ==
  ASSUME LadderInv, NEW w \in Workers, stage[w] = "climbing", TierOf(w) \in Optional,
         NEW S, S = IF TierOf(w) = "model" THEN {"llm_provider_calls"} ELSE {},
         NEW got, NEW found, TierEnds(w, got, found, FALSE, Once(S)),
         TierOf(w) = "mcp" => \A e \in found : ~ (e.score > EvidenceFloor),
         TierOf(w) = "web" => got \in Seq(Urls \cup {Junk}) /\ found = HitsForQuery(got),
         \A e \in found : Overlap[e.id] \in Nat
  PROVE  LadderInv'
<1> DEFINE tier == TierOf(w)
<1>1. SpentFits(Once(S), tier, FALSE)
  <2> HIDE DEF tier
  <2>1. tier \in Optional /\ S = IF tier = "model" THEN {"llm_provider_calls"} ELSE {}
    BY DEF tier
  <2>2. QED
    BY <2>1, SpentBeyond
<1>2. Found([tier |-> tier, got |-> got, found |-> found])
  <2>1. tier \notin CorpusTiers
    BY DEF CorpusTiers, Optional
  <2> HIDE DEF tier
  <2>2. /\ tier = "mcp" => \A e \in found : ~ (e.score > EvidenceFloor)
        /\ tier = "web" => got \in Seq(Urls \cup {Junk}) /\ found = HitsForQuery(got)
    BY DEF tier
  <2>3. QED
    BY <2>1, <2>2 DEF Found, Silent, Agreed
<1>3. QED
  BY <1>1, <1>2, TierStep

LEMMA AskMcpStep ==
  ASSUME LadderInv, NEW w \in Workers, AskMcp(w)
  PROVE  LadderInv'
<1>1. stage[w] = "climbing" /\ TierOf(w) = "mcp" /\ TierOf(w) \in Optional
  BY DEF AskMcp, AtTier, Optional
<1>2. CASE TierRaises(w, Once({}))
  BY <1>1, <1>2, RaiseStep
<1>3. ASSUME NEW texts \in ServerTexts,
             TierEnds(w, <<>>, {[id |-> d, score |-> EvidenceFloor] : d \in texts}, FALSE, Once({}))
      PROVE  LadderInv'
  <2> DEFINE found == {[id |-> d, score |-> EvidenceFloor] : d \in texts}
  <2>1. texts \subseteq Docs
    <3>1. PICK r \in Rankings : texts = {r[i] : i \in DOMAIN r}
      BY DEF ServerTexts
    <3>2. r \in Seq(Docs)
      BY ChainAssumption
    <3>3. QED
      BY <3>1, <3>2
  <2>2. ASSUME NEW e \in found PROVE e.score = EvidenceFloor /\ Overlap[e.id] \in Nat
    <3>1. PICK d \in texts : e = [id |-> d, score |-> EvidenceFloor]
      OBVIOUS
    <3>2. e.id = d /\ e.score = EvidenceFloor /\ d \in Docs
      BY <2>1, <3>1
    <3>3. QED
      BY <3>2, ChainAssumption
  <2>3. \A e \in found : ~ (e.score > EvidenceFloor) /\ Overlap[e.id] \in Nat
    <3> HIDE DEF found
    <3>1. QED
      BY <2>2, FloorIsWhole
  <2>4. TierEnds(w, <<>>, found, FALSE, Once({}))
    BY <1>3
  <2> HIDE DEF found
  <2>5. QED
    BY <1>1, <2>3, <2>4, AnswerStep
<1>4. QED
  BY <1>2, <1>3 DEF AskMcp

LEMMA SearchWebStep ==
  ASSUME LadderInv, NEW w \in Workers, SearchWeb(w)
  PROVE  LadderInv'
<1>1. stage[w] = "climbing" /\ TierOf(w) = "web" /\ TierOf(w) \in Optional
  BY DEF SearchWeb, AtTier, Optional
<1>2. CASE TierRaises(w, Once({}))
  BY <1>1, <1>2, RaiseStep
<1>3. ASSUME NEW rows \in EngineRows, TierEnds(w, rows, HitsForQuery(rows), FALSE, Once({}))
      PROVE  LadderInv'
  <2> DEFINE found == HitsForQuery(rows)
  <2>1. rows \in Seq(Urls \cup {Junk})
    BY EngineRowsAreRows
  <2>2. ASSUME NEW e \in found PROVE Overlap[e.id] \in Nat
    <3> DEFINE K == CapByDomain(rows, DedupeByUrl(rows, Coerced(rows)))
    <3>1. K \subseteq Coerced(rows)
      BY DEF CapByDomain, DedupeByUrl
    <3>2. PICK i \in K : e = [id |-> rows[i], score |-> RankToScore(Rank(K, i), Cardinality(K))]
      BY DEF HitsForQuery
    <3> HIDE DEF K
    <3>3. e.id = rows[i] /\ rows[i] \in Urls
      BY <2>1, <3>1, <3>2, Offered
    <3>4. QED
      BY <3>3, ChainAssumption
  <2>3. TierEnds(w, rows, found, FALSE, Once({}))
    BY <1>3
  <2>4. QED
    BY <1>1, <2>1, <2>2, <2>3, AnswerStep
<1>4. QED
  BY <1>2, <1>3 DEF SearchWeb

LEMMA AskModelStep ==
  ASSUME LadderInv, NEW w \in Workers, AskModel(w)
  PROVE  LadderInv'
<1>1. stage[w] = "climbing" /\ TierOf(w) = "model" /\ TierOf(w) \in Optional
  BY DEF AskModel, AtTier, Optional
<1>2. CASE TierRaises(w, Once({"llm_provider_calls"}))
  BY <1>1, <1>2, RaiseStep
<1>3. ASSUME NEW claims \in SUBSET Claims,
             TierEnds(w, <<>>, Admitted(claims), FALSE, Once({"llm_provider_calls"}))
      PROVE  LadderInv'
  <2>1. ASSUME NEW e \in Admitted(claims) PROVE Overlap[e.id] \in Nat
    <3>1. PICK c \in claims : e = [id |-> c, score |-> ClaimScore(c)]
      BY DEF Admitted
    <3>2. e.id \in Claims
      BY <3>1
    <3>3. QED
      BY <3>2, ChainAssumption
  <2>2. QED
    BY <1>1, <1>3, <2>1, AnswerStep
<1>4. QED
  BY <1>2, <1>3 DEF AskModel

LEMMA SearchCorpusStep ==
  ASSUME LadderInv, NEW w \in Workers, SearchCorpus(w)
  PROVE  LadderInv'
<1> DEFINE tier == TierOf(w)
           text == Text(tier)
<1>1. stage[w] = "climbing" /\ tier \in CorpusTiers
  BY DEF SearchCorpus, AtTier, CorpusTiers
<1>2. PICK dense \in StoreSearch(setup.dense), keyword \in StoreSearch(setup.keyword) :
        LET off == OffTopic(dense.hits, text)
            lost == Lost(setup.dense, dense) + Lost(setup.keyword, keyword)
        IN TierEnds(w, <<dense.hits, keyword.hits>>,
                    Fused([hits |-> dense.hits, places |-> AboveFloor(dense.hits, text)],
                          [hits |-> keyword.hits,
                           places |-> IF off THEN {} ELSE DOMAIN keyword.hits]),
                    lost = 2,
                    [retrieval_calls |-> 1, retrieval_leg_unavailable |-> lost,
                     retrieval_keyword_dropped_off_topic |->
                       IF off THEN Len(keyword.hits) ELSE 0])
  BY DEF SearchCorpus
<1> DEFINE off == OffTopic(dense.hits, text)
           lost == Lost(setup.dense, dense) + Lost(setup.keyword, keyword)
           left == [hits |-> dense.hits, places |-> AboveFloor(dense.hits, text)]
           right == [hits |-> keyword.hits, places |-> IF off THEN {} ELSE DOMAIN keyword.hits]
           got == <<dense.hits, keyword.hits>>
           found == Fused(left, right)
           dead == lost = 2
           dropped == IF off THEN Len(keyword.hits) ELSE 0
           spent == [retrieval_calls |-> 1, retrieval_leg_unavailable |-> lost,
                     retrieval_keyword_dropped_off_topic |-> dropped]
<1>3. TierEnds(w, got, found, dead, spent)
  BY <1>2
<1>4. dense.hits \in Seq(Docs) /\ keyword.hits \in Seq(Docs)
  <2>1. <<>> \in Seq(Docs) /\ \A r \in Rankings : r \in Seq(Docs)
    BY ChainAssumption, EmptySeq
  <2>2. ASSUME NEW b, NEW leg \in StoreSearch(b) PROVE leg.hits \in Rankings \cup {<<>>}
    <3>1. CASE b
      <4>1. leg \in [failed : {FALSE}, hits : Rankings] \/ leg = [failed |-> TRUE, hits |-> <<>>]
        BY <3>1 DEF StoreSearch
      <4>2. CASE leg \in [failed : {FALSE}, hits : Rankings]
        BY <4>2
      <4>3. CASE leg = [failed |-> TRUE, hits |-> <<>>]
        BY <4>3
      <4>4. QED
        BY <4>1, <4>2, <4>3
    <3>2. CASE ~ b
      BY <3>2 DEF StoreSearch
    <3>3. QED
      BY <3>1, <3>2
  <2>3. QED
    BY <2>1, <2>2
<1>5. lost \in Nat /\ dropped \in Nat
  <2>1. Lost(setup.dense, dense) \in Nat /\ Lost(setup.keyword, keyword) \in Nat
    BY DEF Lost
  <2>2. Len(keyword.hits) \in Nat
    BY <1>4
  <2>3. QED
    BY <2>1, <2>2
<1>6. IsLeg(left) /\ IsLeg(right)
  BY <1>4 DEF IsLeg, AboveFloor
<1>7. SpentFits(spent, tier, dead)
  <2> HIDE DEF tier, dead, lost, dropped
  <2>1. DOMAIN spent = {"retrieval_calls", "retrieval_leg_unavailable",
                        "retrieval_keyword_dropped_off_topic"}
    OBVIOUS
  <2>2. /\ spent["retrieval_calls"] = 1 /\ spent["retrieval_leg_unavailable"] = lost
        /\ spent["retrieval_keyword_dropped_off_topic"] = dropped
    OBVIOUS
  <2> HIDE DEF spent
  <2>3. \A n : Adds(spent, n) \in Nat
    BY <1>5, <2>1, <2>2 DEF Adds
  <2>4. \A n \in Verdicts : Adds(spent, n) = 0
    <3>1. DOMAIN spent \subseteq Tallies
      BY <2>1 DEF Tallies
    <3>2. QED
      BY <3>1, CounterNames DEF Adds
  <2>5. tier # "model" /\ tier \notin Optional
    BY <1>1 DEF CorpusTiers, Optional
  <2>6. /\ Adds(spent, "retrieval_calls") = 1
        /\ Adds(spent, "chain_tier_failed") = 0 /\ Adds(spent, "llm_provider_calls") = 0
    BY <2>1, <2>2 DEF Adds
  <2>7. QED
    BY <1>1, <2>3, <2>4, <2>5, <2>6 DEF SpentFits
<1>8. Found([tier |-> tier, got |-> got, found |-> found])
  <2> DEFINE la == [tier |-> tier, got |-> got, found |-> found]
  <2>1. la.tier = tier /\ la.got[1] = dense.hits /\ la.got[2] = keyword.hits /\ la.found = found
    OBVIOUS
  <2>2. \A e \in found :
          /\ e.id \in Docs /\ e.score \in Int
          /\ e.score > 5000 => /\ \E k \in DOMAIN left.hits : left.hits[k] = e.id
                               /\ \E k \in DOMAIN right.hits : right.hits[k] = e.id
    <3> HIDE DEF left, right
    <3>1. QED
      BY <1>6, FusedAgrees
  <2>3. left.hits = dense.hits /\ right.hits = keyword.hits
    OBVIOUS
  <2>4. ASSUME dense.hits # <<>>, \A i \in DOMAIN dense.hits : dense.hits[i] \notin Close[text]
        PROVE  found = {}
    <3>1. AboveFloor(dense.hits, text) = {}
      BY <2>4 DEF AboveFloor
    <3>2. off
      BY <2>4, <3>1 DEF OffTopic
    <3>3. left.places = {} /\ right.places = {}
      BY <3>1, <3>2
    <3> HIDE DEF left, right
    <3>4. QED
      BY <3>3, FusedOfNothing
  <2>5. EvidenceFloor \in Int /\ \A d \in Docs : Overlap[d] \in Nat
    BY ChainAssumption
  <2> HIDE DEF la, found, left, right, got
  <2>6. Silent(la)
    BY <2>1, <2>4 DEF Silent
  <2>7. Agreed(la)
    <3>1. SUFFICES ASSUME NEW e \in found, e.score > EvidenceFloor, EvidenceFloor >= 5000,
                          NEW leg \in {1, 2}
                   PROVE  \E k \in DOMAIN la.got[leg] : la.got[leg][k] = e.id
      BY <2>1 DEF Agreed
    <3>2. e.score > 5000
      BY <2>2, <2>5, <3>1
    <3>3. CASE leg = 1
      BY <2>1, <2>2, <2>3, <3>2, <3>3
    <3>4. CASE leg = 2
      BY <2>1, <2>2, <2>3, <3>2, <3>4
    <3>5. QED
      BY <3>3, <3>4
  <2>8. tier # "mcp" /\ tier # "web"
    BY <1>1 DEF CorpusTiers
  <2>9. Found(la)
    BY <2>1, <2>2, <2>5, <2>6, <2>7, <2>8 DEF Found
  <2>10. QED
    BY <2>9 DEF la
<1>9. dead \in BOOLEAN
  OBVIOUS
<1> HIDE DEF got, found, dead, spent
<1>10. QED
  BY <1>1, <1>3, <1>7, <1>8, <1>9, TierStep

\* The invariant is inductive.
LEMMA LadderNext == LadderInv /\ [Next]_vars => LadderInv'
<1>1. SUFFICES ASSUME LadderInv, [Next]_vars PROVE LadderInv'
  OBVIOUS
<1>2. ASSUME NEW w \in Workers, Start(w) PROVE LadderInv'
  BY <1>1, <1>2, StartStep
<1>3. ASSUME NEW w \in Workers, SearchCorpus(w) PROVE LadderInv'
  BY <1>1, <1>3, SearchCorpusStep
<1>4. ASSUME NEW w \in Workers, AskMcp(w) PROVE LadderInv'
  BY <1>1, <1>4, AskMcpStep
<1>5. ASSUME NEW w \in Workers, SearchWeb(w) PROVE LadderInv'
  BY <1>1, <1>5, SearchWebStep
<1>6. ASSUME NEW w \in Workers, AskModel(w) PROVE LadderInv'
  BY <1>1, <1>6, AskModelStep
<1>7. ASSUME NEW w \in Workers, Report(w) PROVE LadderInv'
  BY <1>1, <1>7, ReportStep
<1>8. CASE UNCHANGED vars
  BY <1>1, <1>8 DEF vars, LadderInv, Types
<1>9. QED
  BY <1>1, <1>2, <1>3, <1>4, <1>5, <1>6, <1>7, <1>8 DEF Next

LEMMA LadderHolds == Spec => []LadderInv
BY LadderInit, LadderNext, PTL DEF Spec


-----------------------------------------------------------------------------
(* What follows.                                                           *)

LEMMA TypeFollows == LadderInv => TypeOK
<1>1. SUFFICES ASSUME LadderInv PROVE TypeOK
  OBVIOUS
<1>2. Types
  BY <1>1 DEF LadderInv
<1>3. ASSUME NEW w \in Workers
      PROVE  /\ Len(trail[w]) <= Len(Ladder(w))
             /\ stage[w] = "climbing" => Len(trail[w]) < Len(Ladder(w))
             /\ \A i \in DOMAIN trail[w] : trail[w][i].tier = Ladder(w)[i]
  <2>1. Climbs(setup, task[w], trail[w], stage[w])
    BY <1>1 DEF LadderInv, WorkerInv
  <2>2. Ladder(w) = LadderOf(setup, task[w])
    BY LadderIsOf
  <2>3. QED
    BY <2>1, <2>2 DEF Climbs
<1>4. QED
  BY <1>2, <1>3 DEF TypeOK, Types

LEMMA EarnedFollows == LadderInv => AnswersAreEarned
<1>1. SUFFICES ASSUME LadderInv, NEW w \in Workers, NEW i \in Answering(w),
                      NEW tier, tier = trail[w][i].tier, NEW terms, terms = Terms(w, tier)
               PROVE  /\ i = Len(trail[w]) /\ tier # "mcp"
                      /\ \E e \in last[w].found :
                           /\ e.score > EvidenceFloor
                           /\ Shared(e.id, terms) >= Least(2, terms)
                           /\ tier \in {"corpus", "reformulated"} /\ EvidenceFloor >= 5000 =>
                                \A leg \in {1, 2} : \E k \in DOMAIN last[w].got[leg] :
                                  last[w].got[leg][k] = e.id
  BY DEF AnswersAreEarned
<1> DEFINE la == last[w]
           tr == trail[w]
           L == LadderOf(setup, task[w])
<1>2. /\ task[w] \in Tasks /\ tr \in Seq(Tries) /\ Climbs(setup, task[w], tr, stage[w])
      /\ Ends(task[w], tr, stage[w], la) /\ Found(la)
  BY <1>1 DEF LadderInv, Types, WorkerInv
<1>3. i \in AnsweringIn(tr) /\ i \in DOMAIN tr
  BY <1>1 DEF Answering, AnsweringIn
<1> HIDE DEF la, tr
<1>4. terms = TermsOf(task[w], tier) /\ tier = tr[i].tier
  BY <1>1 DEF Terms, TermsOf, tr
<1>5. i = Len(tr) /\ la.tier = tier /\ Sufficient(la.found, terms)
  BY <1>2, <1>3, <1>4 DEF Ends
<1>6. terms \in Nat
  <2>1. task[w].terms \in Nat /\ task[w].short \in Nat \cup {NoShort}
    BY <1>2, ChainAssumption
  <2>2. L[i] = "reformulated" /\ i \in 1..Len(L) => task[w].short # NoShort
    BY LadderShape
  <2>3. L \in Seq(Tiers)
    BY LadderShape
  <2> HIDE DEF L
  <2>4. i \in 1..Len(L) /\ tier = L[i]
    <3>1. DOMAIN tr = 1..Len(tr) /\ Len(tr) \in Nat /\ Len(L) \in Nat
      BY <1>2, <2>3
    <3>2. Len(tr) <= Len(L) /\ \A j \in DOMAIN tr : tr[j].tier = L[j]
      BY <1>2 DEF Climbs, L
    <3>3. QED
      BY <1>3, <1>4, <3>1, <3>2
  <2>5. QED
    BY <1>4, <2>1, <2>2, <2>4 DEF TermsOf
<1>7. tier # "mcp"
  BY <1>2, <1>5 DEF Found, Sufficient
<1>8. \A e \in la.found : Overlap[e.id] \in Nat
  BY <1>2 DEF Found
<1>9. PICK e \in la.found : e.score > EvidenceFloor /\ Shared(e.id, terms) >= Least(2, terms)
  BY <1>5, <1>6, <1>8, GateIsTight
<1>10. tier \in {"corpus", "reformulated"} /\ EvidenceFloor >= 5000 =>
         \A leg \in {1, 2} : \E k \in DOMAIN la.got[leg] : la.got[leg][k] = e.id
  BY <1>2, <1>5, <1>9 DEF Found, Agreed, CorpusTiers
<1>11. QED
  BY <1>5, <1>7, <1>9, <1>10 DEF la, tr

LEMMA SilentFollows == LadderInv => OffTopicCorpusIsSilent
<1>1. SUFFICES ASSUME LadderInv, NEW w \in Workers, last[w].tier \in {"corpus", "reformulated"},
                      last[w].got[1] # <<>>
               PROVE  \/ last[w].found = {}
                      \/ \E i \in DOMAIN last[w].got[1] :
                           last[w].got[1][i] \in Close[Text(last[w].tier)]
  BY DEF OffTopicCorpusIsSilent
<1>2. Silent(last[w])
  BY <1>1 DEF LadderInv, WorkerInv, Found
<1>3. QED
  BY <1>1, <1>2 DEF Silent, CorpusTiers

LEMMA CountersFollow == LadderInv => CountersAreTheTasks
<1>1. SUFFICES ASSUME LadderInv, NEW w \in Workers, stage[w] = "reported",
                      NEW said, said = reported[w],
                      NEW verdicts, verdicts = {n \in Counters \ {"chain_tier_failed"} :
                        n \notin {"retrieval_calls", "retrieval_leg_unavailable",
                                  "retrieval_keyword_dropped_off_topic",
                                  "llm_provider_calls"} /\ said[n] > 0},
                      NEW corpus, corpus = Tried(w, {"corpus", "reformulated"})
               PROVE  /\ verdicts = IF Answering(w) # {}
                                    THEN {AnsweredBy[trail[w][i].tier] : i \in Answering(w)}
                                    ELSE IF Tried(w, {"model"}) # {} THEN {"chain_model_insufficient"}
                                    ELSE {"chain_exhausted"}
                      /\ \A n \in verdicts : said[n] = 1
                      /\ said["retrieval_calls"] = Cardinality(corpus)
                      /\ said["retrieval_leg_unavailable"] =
                           (IF 1 \in corpus THEN trail[w][1].lost ELSE 0)
                           + (IF 2 \in corpus THEN trail[w][2].lost ELSE 0)
                      /\ said["chain_tier_failed"] =
                           Cardinality({i \in Tried(w, Optional) : trail[w][i].dead})
                      /\ said["llm_provider_calls"] = Cardinality(Tried(w, {"model"}))
  BY DEF CountersAreTheTasks
<1> DEFINE tr == trail[w]
<1>2. Tells(said, tr, TRUE) /\ tr \in Seq(Tries) /\ Climbs(setup, task[w], tr, "reported")
  BY <1>1 DEF LadderInv, WorkerInv, Counted, Types
<1>3. /\ Answering(w) = AnsweringIn(tr) /\ \A T : Tried(w, T) = TriedIn(tr, T)
      /\ {i \in Tried(w, Optional) : trail[w][i].dead} = DeadIn(tr)
  BY DEF Answering, AnsweringIn, Tried, TriedIn, DeadIn
<1>4. corpus = TriedIn(tr, CorpusTiers)
  BY <1>1, <1>3 DEF CorpusTiers
<1>5. /\ Counters = Verdicts \cup Tallies /\ Verdicts \cap Tallies = {}
      /\ \A t \in Tiers : AnsweredBy[t] \in Verdicts
  BY CounterNames
<1>6. verdicts = {n \in Verdicts : said[n] > 0}
  <2>1. \A n \in Counters : n \in Verdicts <=> n # "chain_tier_failed" /\
          n \notin {"retrieval_calls", "retrieval_leg_unavailable",
                    "retrieval_keyword_dropped_off_topic", "llm_provider_calls"}
    BY <1>5 DEF Tallies
  <2>2. QED
    BY <1>1, <1>5, <2>1
<1> HIDE DEF tr
<1>7. Said(tr, TRUE) \subseteq Verdicts
  <2>1. ASSUME NEW i \in DOMAIN tr PROVE AnsweredBy[tr[i].tier] \in Verdicts
    <3>1. tr[i] \in Tries
      BY <1>2
    <3>2. tr[i].tier \in Tiers
      BY <3>1 DEF Tries
    <3>3. QED
      BY <1>5, <3>2
  <2>2. {"chain_model_insufficient", "chain_exhausted"} \subseteq Verdicts
    BY DEF Verdicts
  <2>3. QED
    BY <2>1, <2>2 DEF Said, AnsweringIn
<1>8. \A n \in Verdicts : said[n] = IF n \in Said(tr, TRUE) THEN 1 ELSE 0
  BY <1>2 DEF Tells
<1>9. verdicts = Said(tr, TRUE) /\ \A n \in verdicts : said[n] = 1
  <2> DEFINE all == Said(tr, TRUE)
  <2>1. all \subseteq Verdicts /\ \A n \in Verdicts : said[n] = IF n \in all THEN 1 ELSE 0
    BY <1>7, <1>8
  <2> HIDE DEF all
  <2>2. \A n : n \in verdicts <=> n \in all
    BY <1>6, <2>1
  <2>3. \A n \in all : said[n] = 1
    BY <2>1
  <2>4. verdicts = all
    BY <2>2
  <2>5. QED
    BY <2>3, <2>4 DEF all
<1>10. verdicts = IF Answering(w) # {}
                  THEN {AnsweredBy[trail[w][i].tier] : i \in Answering(w)}
                  ELSE IF Tried(w, {"model"}) # {} THEN {"chain_model_insufficient"}
                  ELSE {"chain_exhausted"}
  BY <1>3, <1>9 DEF Said, tr
<1>11. /\ said["retrieval_calls"] = Cardinality(corpus)
       /\ said["retrieval_leg_unavailable"] = LostIn(tr, 1) + LostIn(tr, 2)
       /\ said["chain_tier_failed"] = Cardinality(DeadIn(tr))
       /\ said["llm_provider_calls"] = Cardinality(TriedIn(tr, {"model"}))
  BY <1>2, <1>4 DEF Tells
<1>12. said["retrieval_leg_unavailable"] =
         (IF 1 \in corpus THEN trail[w][1].lost ELSE 0)
         + (IF 2 \in corpus THEN trail[w][2].lost ELSE 0)
  BY <1>4, <1>11 DEF LostIn, tr
<1>13. QED
  BY <1>3, <1>9, <1>10, <1>11, <1>12

LEMMA SpreadFollows == LadderInv => WebResultsAreSpread
<1>1. SUFFICES ASSUME LadderInv, NEW w \in Workers, last[w].tier = "web", MaxPerDomain > 0
               PROVE  Spread(last[w].got, last[w].found)
  BY DEF WebResultsAreSpread
<1>2. last[w].got \in Seq(Urls \cup {Junk}) /\ last[w].found = HitsForQuery(last[w].got)
  BY <1>1 DEF LadderInv, WorkerInv, Found
<1>3. QED
  BY <1>1, <1>2, SpreadHolds

-----------------------------------------------------------------------------
(* The theorems.                                                           *)

\* A worker's trail is a beginning of its ladder, and it never climbs past
\* the end; every counter stays a natural number.
THEOREM TypesHold == Spec => []TypeOK
BY LadderHolds, TypeFollows, PTL

\* A tier ends a search only with an item that can cover a goal and shares two
\* terms with the query, or all it has; from the corpus, one both legs
\* returned; over MCP, never.
THEOREM EarnedAnswers == Spec => []AnswersAreEarned
BY LadderHolds, EarnedFollows, PTL

\* What the dense index knows to be off topic does not come in through the
\* keyword leg.
THEOREM SilentOffTopic == Spec => []OffTopicCorpusIsSilent
BY LadderHolds, SilentFollows, PTL

\* What a worker reports is what this task's search did.
THEOREM CountersTell == Spec => []CountersAreTheTasks
BY LadderHolds, CountersFollow, PTL

\* Web results list a page once, keep the best rows of each domain up to the
\* cap, and are scored from one end of the band to the other.
THEOREM ResultsSpread == Spec => []WebResultsAreSpread
BY LadderHolds, SpreadFollows, PTL

=================================================================================
