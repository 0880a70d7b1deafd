--------------------------- MODULE WorkQueueProofs ---------------------------
(* What the queue operations of WorkQueue preserve, for every queue.       *)
EXTENDS WorkQueue, FiniteSetTheorems, SequenceTheorems, TLAPS

(* Ranking the elements of a finite set of positions numbers them 1, 2, ... *)
(* in increasing order and misses no number.                               *)
LEMMA RankBijective ==
  ASSUME NEW n \in Nat, NEW K \in SUBSET (1 .. n)
  PROVE  /\ Cardinality(K) \in Nat
         /\ \A k \in K : RankIn(K, k) \in 1 .. Cardinality(K)
         /\ \A j, k \in K : j < k => RankIn(K, j) < RankIn(K, k)
         /\ \A m \in 1 .. Cardinality(K) : \E k \in K : RankIn(K, k) = m
<1>1. IsFiniteSet(1 .. n)
  BY FS_Interval
<1>2. IsFiniteSet(K) /\ Cardinality(K) \in Nat
  BY <1>1, FS_Subset, FS_CardinalityType
<1> DEFINE Upto(k) == {j \in K : j <= k}
<1>3. ASSUME NEW k \in K
      PROVE  /\ IsFiniteSet(Upto(k)) /\ Cardinality(Upto(k)) \in Nat
             /\ Cardinality(Upto(k)) <= Cardinality(K)
             /\ Cardinality(Upto(k)) # 0
  <2>1. Upto(k) \in SUBSET K /\ k \in Upto(k)
    OBVIOUS
  <2>2. IsFiniteSet(Upto(k)) /\ Cardinality(Upto(k)) <= Cardinality(K)
    BY <1>2, <2>1, FS_Subset
  <2>3. Cardinality(Upto(k)) \in Nat
    BY <2>2, FS_CardinalityType
  <2>4. Cardinality(Upto(k)) # 0
    BY <2>1, <2>2, FS_EmptySet
  <2> QED BY <2>2, <2>3, <2>4
<1>4. \A k \in K : RankIn(K, k) \in 1 .. Cardinality(K)
  BY <1>2, <1>3 DEF RankIn
<1>5. ASSUME NEW j \in K, NEW k \in K, j < k
      PROVE  RankIn(K, j) < RankIn(K, k)
  <2>0. \A i \in K : i \in Nat
    OBVIOUS
  <2>1. Upto(j) \in SUBSET Upto(k) /\ k \in Upto(k) /\ k \notin Upto(j)
    <3>1. ASSUME NEW i \in K, i <= j
          PROVE  i <= k
      BY <1>5, <2>0, <3>1
    <3>2. k \in Upto(k) /\ k \notin Upto(j)
      BY <1>5, <2>0
    <3> QED BY <3>1, <3>2, Zenon
  <2>2. Cardinality(Upto(j)) <= Cardinality(Upto(k))
    BY <1>3, <2>1, FS_Subset
  <2>3. Cardinality(Upto(j)) # Cardinality(Upto(k))
    BY <1>3, <2>1, FS_Subset
  <2> QED BY <1>3, <2>2, <2>3 DEF RankIn
<1>6. ASSUME NEW m \in 1 .. Cardinality(K)
      PROVE  \E k \in K : RankIn(K, k) = m
  <2> DEFINE f == [k \in K |-> RankIn(K, k)]
             T == 1 .. Cardinality(K)
  <2>1. f \in [K -> T]
    BY <1>4
  <2>2. \A j, k \in K : f[j] = f[k] => j = k
    <3> SUFFICES ASSUME NEW j \in K, NEW k \in K, f[j] = f[k], j # k
                 PROVE  FALSE
      OBVIOUS
    <3>1. j < k \/ k < j
      OBVIOUS
    <3> QED BY <1>4, <1>5, <3>1
  <2>3. f \in Injection(K, T)
    BY <2>1, <2>2 DEF Injection, IsInjective
  <2>4. IsFiniteSet(T) /\ Cardinality(T) = Cardinality(K)
    BY <1>2, FS_Interval
  <2>5. f \in Surjection(K, T)
    BY <2>3, <2>4, FS_Injection
  <2> QED BY <2>5 DEF Surjection
<1> QED BY <1>2, <1>4, <1>5, <1>6

(* The k-th element Without keeps: the position it comes from.             *)
LEMMA WithoutAt ==
  ASSUME NEW T, NEW q \in Seq(T), NEW S
  PROVE  LET K == KeptAt(q, S)
             w == Without(q, S)
         IN  /\ Cardinality(K) \in Nat
             /\ DOMAIN w = 1 .. Cardinality(K)
             /\ \A m \in DOMAIN w : \E k \in K : RankIn(K, k) = m /\ w[m] = q[k]
             /\ \A k \in K : RankIn(K, k) \in DOMAIN w
                             /\ w[RankIn(K, k)] = q[k]
<1> DEFINE K == KeptAt(q, S)
           w == Without(q, S)
           n == Len(q)
<1>1. n \in Nat /\ DOMAIN q = 1 .. n
  BY LenProperties
<1>2. K \in SUBSET (1 .. n)
  BY <1>1 DEF KeptAt
<1>3. /\ Cardinality(K) \in Nat
      /\ \A k \in K : RankIn(K, k) \in 1 .. Cardinality(K)
      /\ \A j, k \in K : j < k => RankIn(K, j) < RankIn(K, k)
      /\ \A m \in 1 .. Cardinality(K) : \E k \in K : RankIn(K, k) = m
  BY <1>1, <1>2, RankBijective
<1>4. /\ DOMAIN w = 1 .. Cardinality(K)
      /\ \A m \in DOMAIN w : w[m] = q[CHOOSE k \in K : RankIn(K, k) = m]
  BY DEF Without
<1> HIDE DEF w, K
<1>5. ASSUME NEW m \in DOMAIN w
      PROVE  \E k \in K : RankIn(K, k) = m /\ w[m] = q[k]
  <2>1. \E k \in K : RankIn(K, k) = m
    BY <1>3, <1>4
  <2> DEFINE c == CHOOSE k \in K : RankIn(K, k) = m
  <2>2. c \in K /\ RankIn(K, c) = m
    BY <2>1
  <2> QED BY <1>4, <2>2
<1>6. ASSUME NEW k \in K
      PROVE  RankIn(K, k) \in DOMAIN w /\ w[RankIn(K, k)] = q[k]
  <2>1. RankIn(K, k) \in DOMAIN w
    BY <1>3, <1>4
  <2>2. PICK j \in K : RankIn(K, j) = RankIn(K, k) /\ w[RankIn(K, k)] = q[j]
    BY <1>5, <2>1
  <2>3. j \in Nat /\ k \in Nat
    BY <1>2 DEF K
  <2>4. ~(j < k) /\ ~(k < j)
    BY <1>3, <2>2
  <2>5. j = k
    BY <2>3, <2>4
  <2> QED BY <2>1, <2>2, <2>5
<1> QED BY <1>3, <1>4, <1>5, <1>6 DEF w, K

(* retain keeps exactly the elements outside S, repeats none that was not  *)
(* repeated, and keeps creation order.                                     *)
LEMMA WithoutProperties ==
  ASSUME NEW T, NEW q \in Seq(T), NEW S
  PROVE  /\ Without(q, S) \in Seq(T)
         /\ Range(Without(q, S)) = Range(q) \ S
         /\ IsInjective(q) => IsInjective(Without(q, S))
         /\ Ascending(q) => Ascending(Without(q, S))
<1> DEFINE K == KeptAt(q, S)
           w == Without(q, S)
           n == Cardinality(K)
<1>1. /\ n \in Nat
      /\ DOMAIN w = 1 .. n
      /\ \A m \in DOMAIN w : \E k \in K : RankIn(K, k) = m /\ w[m] = q[k]
      /\ \A k \in K : RankIn(K, k) \in DOMAIN w /\ w[RankIn(K, k)] = q[k]
  BY WithoutAt
<1>2. \A k \in K : k \in DOMAIN q /\ q[k] \notin S
  BY DEF KeptAt
<1>3. \A k \in DOMAIN q : q[k] \notin S => k \in K
  BY DEF KeptAt
<1>4. \A k \in DOMAIN q : q[k] \in T
  BY LenProperties
<1>5. w = [m \in 1 .. n |-> w[m]]
  BY DEF Without
<1> HIDE DEF K, w, n
<1>6. \A m \in 1 .. n : w[m] \in T
  BY <1>1, <1>2, <1>4
<1>7. w \in [1 .. n -> T]
  BY <1>5, <1>6
<1>8. w \in Seq(T)
  BY <1>1, <1>7
<1>9. Range(w) = Range(q) \ S
  BY <1>1, <1>2, <1>3 DEF Range
<1>10. ASSUME IsInjective(q)
       PROVE  IsInjective(w)
  BY <1>1, <1>2, <1>10 DEF IsInjective
<1>11. ASSUME Ascending(q)
       PROVE  Ascending(w)
  <2> SUFFICES ASSUME NEW l \in DOMAIN w, NEW m \in DOMAIN w, l < m
               PROVE  w[l] < w[m]
    BY DEF Ascending
  <2>1. PICK j \in K : RankIn(K, j) = l /\ w[l] = q[j]
    BY <1>1
  <2>2. PICK k \in K : RankIn(K, k) = m /\ w[m] = q[k]
    BY <1>1
  <2>3. j \in 1 .. Len(q) /\ k \in 1 .. Len(q) /\ Len(q) \in Nat
    BY <1>2, LenProperties
  <2>4. K \in SUBSET (1 .. Len(q))
    BY <1>2, LenProperties
  <2>5. k < j => RankIn(K, k) < RankIn(K, j)
    BY <2>3, <2>4, RankBijective
  <2>6. l \in Nat /\ m \in Nat
    BY <1>1
  <2>7. j < k
    BY <2>1, <2>2, <2>3, <2>5, <2>6
  <2> QED BY <1>2, <1>11, <2>1, <2>2, <2>7 DEF Ascending
<1> QED BY <1>8, <1>9, <1>10, <1>11 DEF w

(* push_back of a new id.                                                  *)
LEMMA AppendProps ==
  ASSUME NEW T, NEW q \in Seq(T), NEW x \in T
  PROVE  /\ Append(q, x) \in Seq(T)
         /\ Range(Append(q, x)) = Range(q) \cup {x}
         /\ IsInjective(q) /\ x \notin Range(q) => IsInjective(Append(q, x))
<1> DEFINE n == Len(q)
           w == Append(q, x)
<1>1. /\ n \in Nat /\ DOMAIN q = 1 .. n
      /\ w \in Seq(T) /\ DOMAIN w = 1 .. (n + 1)
      /\ \A k \in 1 .. n : w[k] = q[k]
      /\ w[n + 1] = x
  BY LenProperties, AppendProperties
<1> HIDE DEF n, w
<1>2. Range(w) = Range(q) \cup {x}
  <2>1. \A k \in DOMAIN w : k \in DOMAIN q \/ k = n + 1
    BY <1>1
  <2>2. \A k \in DOMAIN q : k \in DOMAIN w
    BY <1>1
  <2>3. n + 1 \in DOMAIN w
    BY <1>1
  <2> QED BY <1>1, <2>1, <2>2, <2>3 DEF Range
<1>3. ASSUME IsInjective(q), x \notin Range(q)
      PROVE  IsInjective(w)
  <2> SUFFICES ASSUME NEW j \in DOMAIN w, NEW k \in DOMAIN w, w[j] = w[k]
               PROVE  j = k
    BY DEF IsInjective
  <2>1. \A i \in DOMAIN w : i \in DOMAIN q \/ i = n + 1
    BY <1>1
  <2> QED BY <1>1, <1>3, <2>1 DEF IsInjective, Range
<1> QED BY <1>1, <1>2, <1>3 DEF w

(* push_front, or push_back, of several ids.                               *)
LEMMA ConcatProps ==
  ASSUME NEW T, NEW p \in Seq(T), NEW q \in Seq(T)
  PROVE  /\ p \o q \in Seq(T)
         /\ Range(p \o q) = Range(p) \cup Range(q)
         /\ IsInjective(p) /\ IsInjective(q) /\ Range(p) \cap Range(q) = {}
              => IsInjective(p \o q)
<1> DEFINE m == Len(p)
           n == Len(q)
           w == p \o q
<1>1. /\ m \in Nat /\ DOMAIN p = 1 .. m
      /\ n \in Nat /\ DOMAIN q = 1 .. n
      /\ w \in Seq(T) /\ DOMAIN w = 1 .. (m + n)
      /\ \A k \in 1 .. (m + n) : w[k] = IF k <= m THEN p[k] ELSE q[k - m]
  BY LenProperties, ConcatProperties
<1>2. Range(w) = Range(p) \cup Range(q)
  BY RangeConcatenation
<1> HIDE DEF m, n, w
<1>3. ASSUME IsInjective(p), IsInjective(q), Range(p) \cap Range(q) = {}
      PROVE  IsInjective(w)
  <2> SUFFICES ASSUME NEW j \in DOMAIN w, NEW k \in DOMAIN w, w[j] = w[k],
                      j <= k
               PROVE  j = k
    BY <1>1 DEF IsInjective
  <2>1. CASE k <= m
    BY <1>1, <1>3, <2>1 DEF IsInjective
  <2>2. CASE j > m
    <3>1. j - m \in DOMAIN q /\ k - m \in DOMAIN q
      BY <1>1, <2>2
    <3>2. q[j - m] = q[k - m]
      BY <1>1, <2>2
    <3>3. j - m = k - m
      BY <1>3, <3>1, <3>2 DEF IsInjective
    <3> QED BY <1>1, <3>3
  <2>3. CASE j <= m /\ k > m
    <3>1. j \in DOMAIN p /\ k - m \in DOMAIN q
      BY <1>1, <2>3
    <3>2. p[j] = q[k - m]
      BY <1>1, <2>3
    <3> QED BY <1>3, <3>1, <3>2 DEF Range
  <2> QED BY <1>1, <2>1, <2>2, <2>3
<1> QED BY <1>1, <1>2, <1>3 DEF w

(* Draining a finite set in any order.                                     *)
LEMMA EnumerationProps ==
  ASSUME NEW T, NEW S \in SUBSET T, IsFiniteSet(S), NEW e \in Enumerations(S)
  PROVE  /\ e \in Seq(T)
         /\ Range(e) = S
         /\ IsInjective(e)
<1> DEFINE n == Cardinality(S)
<1>1. n \in Nat
  BY FS_CardinalityType
<1>2. e \in SetToSeqs(S) /\ Range(e) = S
  BY DEF Enumerations
<1>3. e \in [1 .. n -> S]
  BY <1>2 DEF SetToSeqs
<1>4. \A i, j \in 1 .. n : i # j => e[i] # e[j]
  BY <1>2 DEF SetToSeqs
<1> HIDE DEF n
<1>5. e \in [1 .. n -> T]
  BY <1>3
<1>6. e \in Seq(T)
  BY <1>1, <1>5
<1>7. IsInjective(e)
  BY <1>3, <1>4 DEF IsInjective
<1> QED BY <1>2, <1>6, <1>7

(* A non-empty set of naturals has a least element.                        *)
LEMMA LeastOfNats ==
  ASSUME NEW T \in SUBSET Nat, T # {}
  PROVE  \E m \in T : \A n \in T : m <= n
<1> DEFINE R == OpToRel(<, Nat)
<1>1. \A x, y \in Nat : x < y => <<x, y>> \in R
  BY DEF OpToRel
<1>2. IsWellFoundedOn(R, Nat)
  BY NatLessThanWellFounded
<1> HIDE DEF R
<1>3. PICK m \in T : \A n \in T : ~(<<n, m>> \in R)
  BY <1>2, WFMin
<1>4. \A n \in T : ~(n < m)
  BY <1>1, <1>3
<1> QED BY <1>4
==============================================================================
