--------------------------- MODULE PlaybackProofs ---------------------------
(***************************************************************************)
(* Proofs about Playback, for any sheets and times to start at: what the   *)
(* steps of the thread and of the window keep true of a sheet that plays.  *)
(* PlayNowProofs draws the theorems from them, for the playback of a sheet *)
(* that takes turns with the playback of notes.                            *)
(***************************************************************************)
EXTENDS Playback, FiniteSetTheorems, WellFoundedInduction, SequenceTheorems, TLAPS

-----------------------------------------------------------------------------
(* Numbers, lists and orders.                                              *)

\* A set of natural numbers that is not empty has a least element.
LEMMA Least ==
  ASSUME NEW S \in SUBSET Nat, S # {}
  PROVE  \E m \in S : \A k \in S : m <= k
<1> DEFINE R == OpToRel(<, Nat)
<1>1. IsWellFoundedOn(R, Nat)
  BY NatLessThanWellFounded
<1>2. \A x, y \in Nat : x < y => <<x, y>> \in R
  BY DEF OpToRel
<1> HIDE DEF R
<1>3. S \subseteq Nat
  OBVIOUS
<1>4. PICK m \in S : \A k \in S : <<k, m>> \notin R
  BY <1>1, <1>3, WFMin
<1>5. ASSUME NEW k \in S PROVE m <= k
  <2>1. m \in Nat /\ k \in Nat /\ ~(k < m)
    BY <1>2, <1>3, <1>4
  <2> QED
    BY <2>1
<1> QED
  BY <1>5

\* What Min and Max choose.
LEMMA MinIs ==
  ASSUME NEW S \in SUBSET Nat, S # {}
  PROVE  Min(S) \in S /\ \A k \in S : Min(S) <= k
BY Least DEF Min

LEMMA MaxIs ==
  ASSUME NEW n \in Nat, NEW S \in SUBSET (0 .. n), S # {}
  PROVE  Max(S) \in S /\ \A k \in S : k <= Max(S)
<1> DEFINE T == {n - k : k \in S}
<1>1. T \in SUBSET Nat
  OBVIOUS
<1>2. T # {}
  OBVIOUS
<1>3. PICK m \in T : \A k \in T : m <= k
  <2> HIDE DEF T
  <2> QED BY <1>1, <1>2, Least
<1>4. PICK x \in S : m = n - x
  BY <1>3
<1>5. \A k \in S : x >= k
  BY <1>3, <1>4
<1> QED
  BY <1>5 DEF Max

\* A function on 1 .. n is a sequence.
LEMMA IsSequence ==
  ASSUME NEW S, NEW n \in Nat, NEW f \in [1 .. n -> S]
  PROVE  f \in Seq(S) /\ Len(f) = n
<1>1. f \in Seq(S)
  BY SeqDef
<1>2. Len(f) \in Nat /\ DOMAIN f = 1 .. Len(f)
  BY <1>1, LenProperties
<1> QED
  BY <1>1, <1>2

\* Without its k-th element a list is the elements before and behind it.
LEMMA WithoutOne ==
  ASSUME NEW S, NEW s \in Seq(S), NEW k \in 1 .. Len(s)
  PROVE  /\ RemoveAt(s, k) \in Seq(S)
         /\ Len(RemoveAt(s, k)) = Len(s) - 1
         /\ \A j \in 1 .. Len(s) - 1 :
              RemoveAt(s, k)[j] = IF j < k THEN s[j] ELSE s[j + 1]
<1> DEFINE before == SubSeq(s, 1, k - 1)
           behind == SubSeq(s, k + 1, Len(s))
<1>1. /\ before \in Seq(S) /\ Len(before) = k - 1
      /\ \A j \in 1 .. k - 1 : before[j] = s[j]
  OBVIOUS
<1>2. /\ behind \in Seq(S) /\ Len(behind) = Len(s) - k
      /\ \A j \in 1 .. Len(s) - k : behind[j] = s[k + j]
  OBVIOUS
<1> HIDE DEF before, behind
<1>3. /\ before \o behind \in Seq(S)
      /\ Len(before \o behind) = Len(s) - 1
  <2>1. /\ before \o behind \in Seq(S)
        /\ Len(before \o behind) = Len(before) + Len(behind)
    BY <1>1, <1>2, ConcatProperties
  <2> QED
    BY <1>1, <1>2, <2>1
<1>4. ASSUME NEW j \in 1 .. Len(s) - 1
      PROVE  (before \o behind)[j] = IF j < k THEN s[j] ELSE s[j + 1]
  <2>1. CASE j < k
    BY <1>1, <1>2, <2>1
  <2>2. CASE ~(j < k)
    <3>1. (before \o behind)[j] = behind[j - (k - 1)]
      BY <1>1, <1>2, <2>2
    <3>2. j - (k - 1) \in 1 .. Len(s) - k /\ k + (j - (k - 1)) = j + 1
      BY <2>2
    <3>3. behind[j - (k - 1)] = s[k + (j - (k - 1))]
      BY <1>2, <3>2
    <3>4. behind[j - (k - 1)] = s[j + 1]
      BY <3>2, <3>3, Zenon
    <3> QED
      BY <2>2, <3>1, <3>4
  <2> QED
    BY <2>1, <2>2
<1> QED
  BY <1>3, <1>4 DEF RemoveAt, before, behind

\* What is left of a list was in it, and what was at another place is left.
LEMMA LeftOver ==
  ASSUME NEW S, NEW s \in Seq(S), NEW k \in 1 .. Len(s)
  PROVE  /\ Range(RemoveAt(s, k)) \subseteq Range(s)
         /\ \A x \in Range(s) : x # s[k] => x \in Range(RemoveAt(s, k))
<1> DEFINE r == RemoveAt(s, k)
<1>1. /\ r \in Seq(S) /\ Len(r) = Len(s) - 1
      /\ \A j \in 1 .. Len(s) - 1 : r[j] = IF j < k THEN s[j] ELSE s[j + 1]
  BY WithoutOne
<1> HIDE DEF r
<1>2. Range(r) \subseteq Range(s)
  BY <1>1 DEF Range
<1>3. ASSUME NEW x \in Range(s), x # s[k]
      PROVE  x \in Range(r)
  <2>1. PICK j \in 1 .. Len(s) : x = s[j] /\ j # k
    BY <1>3 DEF Range
  <2>2. CASE j < k
    <3>1. j \in 1 .. Len(s) - 1 /\ r[j] = x
      BY <1>1, <2>1, <2>2
    <3> QED
      BY <1>1, <3>1 DEF Range
  <2>3. CASE j > k
    <3>1. j - 1 \in 1 .. Len(s) - 1 /\ r[j - 1] = x
      BY <1>1, <2>1, <2>3
    <3> QED
      BY <1>1, <3>1 DEF Range
  <2> QED
    BY <2>1, <2>2, <2>3
<1> QED
  BY <1>2, <1>3 DEF r

\* How many of S stand up to x in the order R.
Rank(S, R, x) == Cardinality({y \in S : <<y, x>> \in R})

\* R is an order of S in which any two can be compared.
IsOrder(S, R) ==
  /\ \A x \in S : <<x, x>> \in R
  /\ \A x, y \in S : <<x, y>> \in R /\ <<y, x>> \in R => x = y
  /\ \A x, y, z \in S : <<x, y>> \in R /\ <<y, z>> \in R => <<x, z>> \in R
  /\ \A x, y \in S : <<x, y>> \in R \/ <<y, x>> \in R

\* Each element has a rank of its own.
Ranked(S, R) ==
  /\ Cardinality(S) \in Nat
  /\ \A x \in S : Rank(S, R, x) \in 1 .. Cardinality(S)
  /\ \A x, y \in S : <<x, y>> \in R /\ x # y => Rank(S, R, x) < Rank(S, R, y)
  /\ \A x, y \in S : Rank(S, R, x) = Rank(S, R, y) => x = y
  /\ \A k \in 1 .. Cardinality(S) : \E x \in S : Rank(S, R, x) = k

\* In an order of a finite set there is one element for every rank.
LEMMA Ranks ==
  ASSUME NEW S, IsFiniteSet(S), NEW R, IsOrder(S, R)
  PROVE  Ranked(S, R)
<1> USE DEF IsOrder
<1> DEFINE UpToX(x) == {y \in S : <<y, x>> \in R}
           n == Cardinality(S)
<1>0. \A x : Rank(S, R, x) = Cardinality(UpToX(x))
  BY DEF Rank
<1>1. n \in Nat
  BY FS_CardinalityType
<1>2. ASSUME NEW x \in S
      PROVE  /\ UpToX(x) \in SUBSET S /\ x \in UpToX(x) /\ IsFiniteSet(UpToX(x))
             /\ Rank(S, R, x) \in 1 .. n
  <2>1. UpToX(x) \in SUBSET S /\ x \in UpToX(x)
    OBVIOUS
  <2> HIDE DEF UpToX
  <2>2. IsFiniteSet(UpToX(x)) /\ Rank(S, R, x) <= n
    BY <1>0, <2>1, FS_Subset
  <2>3. Rank(S, R, x) \in Nat /\ Rank(S, R, x) # 0
    BY <1>0, <2>1, <2>2, FS_CardinalityType, FS_EmptySet
  <2> QED
    BY <1>1, <2>1, <2>2, <2>3
<1>3. ASSUME NEW x \in S, NEW y \in S, <<x, y>> \in R, x # y
      PROVE  Rank(S, R, x) < Rank(S, R, y)
  <2>1. UpToX(x) \in SUBSET UpToX(y) /\ UpToX(x) # UpToX(y)
    <3>1. y \in UpToX(y) /\ y \notin UpToX(x)
      BY <1>3
    <3>2. UpToX(x) \subseteq UpToX(y)
      BY <1>3
    <3> QED
      BY <3>1, <3>2
  <2> HIDE DEF UpToX
  <2>2. IsFiniteSet(UpToX(y)) /\ Rank(S, R, x) \in 1 .. n /\ Rank(S, R, y) \in 1 .. n
    BY <1>2
  <2>3. Rank(S, R, x) <= Rank(S, R, y) /\ Rank(S, R, x) # Rank(S, R, y)
    BY <1>0, <2>1, <2>2, FS_Subset
  <2> QED
    BY <1>1, <2>2, <2>3
<1>4. ASSUME NEW x \in S, NEW y \in S, Rank(S, R, x) = Rank(S, R, y) PROVE x = y
  <2> SUFFICES ASSUME x # y PROVE FALSE
    OBVIOUS
  <2>1. Rank(S, R, x) < Rank(S, R, y) \/ Rank(S, R, y) < Rank(S, R, x)
    BY <1>3
  <2>2. Rank(S, R, x) \in 1 .. n /\ Rank(S, R, y) \in 1 .. n
    BY <1>2
  <2> QED
    BY <1>1, <1>4, <2>1, <2>2
<1>5. ASSUME NEW k \in 1 .. n PROVE \E x \in S : Rank(S, R, x) = k
  <2> DEFINE rank == [x \in S |-> Rank(S, R, x)]
  <2>1. rank \in [S -> 1 .. n]
    BY <1>2
  <2>2. \A x, y \in S : rank[x] = rank[y] => x = y
    BY <1>4
  <2>3. rank \in Injection(S, 1 .. n)
    BY <2>1, <2>2 DEF Injection, IsInjective
  <2>4. IsFiniteSet(1 .. n) /\ Cardinality(1 .. n) = n
    <3>1. IsFiniteSet(1 .. n) /\ Cardinality(1 .. n) = IF 1 > n THEN 0 ELSE n - 1 + 1
      BY <1>1, FS_Interval
    <3> QED
      BY <1>1, <3>1
  <2>5. rank \in Surjection(S, 1 .. n)
    <3> HIDE DEF rank
    <3> QED BY <2>3, <2>4, FS_Injection
  <2>6. PICK x \in S : rank[x] = k
    BY <2>5 DEF Surjection
  <2> QED
    BY <2>6
<1> QED
  BY <1>1, <1>2, <1>3, <1>4, <1>5 DEF Ranked

\* The two ways to sort.
Listed(S) == Sorted(S, UpTo)
Ascending(S) == Sorted(S, <=)

UpToIn(S, x) == {y \in S : y <= x}

\* Positions that are sorted are all there, each once.
LEMMA PositionsSorted ==
  ASSUME NEW S \in SUBSET (Nat \X Nat), IsFiniteSet(S)
  PROVE  /\ Listed(S) \in Seq(S)
         /\ Range(Listed(S)) = S
<1> DEFINE R == {pq \in S \X S : UpTo(pq[1], pq[2])}
           n == Cardinality(S)
           s == Listed(S)
           Low(x) == {y \in S : UpTo(y, x)}
<1>1. \A p, q \in S : <<p, q>> \in R <=> UpTo(p, q)
  OBVIOUS
<1>2. IsOrder(S, R)
  BY <1>1 DEF UpTo, IsOrder
<1>3. \A x \in S : {y \in S : UpTo(y, x)} = {y \in S : <<y, x>> \in R}
  BY <1>1
<1>4. s = [k \in 1 .. n |-> CHOOSE x \in S : Cardinality(Low(x)) = k]
  BY DEF Sorted, Listed
<1>10. \A x \in S : Rank(S, R, x) = Cardinality(Low(x))
  BY <1>3 DEF Rank
<1> HIDE DEF R, s, Low
<1>5. /\ n \in Nat
      /\ \A x \in S : Rank(S, R, x) \in 1 .. n
      /\ \A x, y \in S : Rank(S, R, x) = Rank(S, R, y) => x = y
      /\ \A k \in 1 .. n : \E x \in S : Rank(S, R, x) = k
  BY <1>2, Ranks DEF Ranked
<1>6. \A k \in 1 .. n : s[k] \in S /\ Rank(S, R, s[k]) = k
  BY <1>4, <1>5, <1>10
<1>7. s \in [1 .. n -> S]
  BY <1>4, <1>5, <1>6
<1>8. s \in Seq(S)
  BY <1>5, <1>7, IsSequence
<1>9. ASSUME NEW x \in S PROVE x \in Range(s)
  <2> DEFINE k == Rank(S, R, x)
  <2>1. k \in 1 .. n
    BY <1>5
  <2>2. s[k] \in S /\ Rank(S, R, s[k]) = k
    BY <1>6, <2>1
  <2>3. s[k] = x
    BY <1>5, <2>2
  <2> QED
    BY <1>7, <2>1, <2>3 DEF Range
<1> QED
  BY <1>7, <1>8, <1>9 DEF Range, s

\* Numbers that are sorted are all there, each once, the smaller before the larger.
LEMMA NumbersSorted ==
  ASSUME NEW S \in SUBSET Nat, IsFiniteSet(S)
  PROVE  /\ Cardinality(S) \in Nat
         /\ Ascending(S) \in [1 .. Cardinality(S) -> S]
         /\ \A j, k \in 1 .. Cardinality(S) : j < k => Ascending(S)[j] < Ascending(S)[k]
         /\ \A x \in S : \E k \in 1 .. Cardinality(S) : Ascending(S)[k] = x
         /\ \A k \in 1 .. Cardinality(S), x \in S :
              Cardinality(UpToIn(S, x)) = k => Ascending(S)[k] = x
<1> DEFINE R == {pq \in S \X S : pq[1] <= pq[2]}
           n == Cardinality(S)
           s == Ascending(S)
           Low(x) == {y \in S : y <= x}
<1>1. \A p, q \in S : <<p, q>> \in R <=> p <= q
  OBVIOUS
<1>2. IsOrder(S, R)
  BY <1>1 DEF IsOrder
<1>3. \A x \in S : {y \in S : y <= x} = {y \in S : <<y, x>> \in R}
  BY <1>1
<1>4. s = [k \in 1 .. n |-> CHOOSE x \in S : Cardinality(Low(x)) = k]
  BY DEF Sorted, Ascending
<1>5. \A x \in S : Cardinality(Low(x)) = Rank(S, R, x)
  BY <1>3 DEF Rank
<1> HIDE DEF R, s, Low
<1>11. Ranked(S, R)
  BY <1>2, Ranks
<1>6. /\ n \in Nat
      /\ \A x \in S : Rank(S, R, x) \in 1 .. n
      /\ \A x, y \in S : Rank(S, R, x) = Rank(S, R, y) => x = y
      /\ \A k \in 1 .. n : \E x \in S : Rank(S, R, x) = k
  BY <1>11 DEF Ranked
<1>7. ASSUME NEW k \in 1 .. n PROVE s[k] \in S /\ Rank(S, R, s[k]) = k
  <2>1. s[k] = CHOOSE x \in S : Cardinality(Low(x)) = k
    BY <1>4
  <2>2. \E x \in S : Cardinality(Low(x)) = k
    BY <1>5, <1>6
  <2>3. s[k] \in S /\ Cardinality(Low(s[k])) = k
    BY <2>1, <2>2
  <2> QED
    BY <1>5, <2>3
<1>8. s \in [1 .. n -> S]
  BY <1>4, <1>7
<1>9. ASSUME NEW j \in 1 .. n, NEW k \in 1 .. n, j < k PROVE s[j] < s[k]
  <2>1. /\ s[j] \in Nat /\ s[k] \in Nat /\ s[j] \in S /\ s[k] \in S
        /\ Rank(S, R, s[j]) = j /\ Rank(S, R, s[k]) = k
    BY <1>7
  <2>2. ~(<<s[k], s[j]>> \in R)
    BY <1>9, <1>11, <2>1 DEF Ranked
  <2> QED
    BY <1>1, <2>1, <2>2
<1>10. ASSUME NEW k \in 1 .. n, NEW x \in S, Rank(S, R, x) = k PROVE s[k] = x
  BY <1>6, <1>7, <1>10
<1> QED
  BY <1>5, <1>6, <1>8, <1>9, <1>10 DEF s, Low, UpToIn

\* There is no other way to sort them.
LEMMA SortedOnce ==
  ASSUME NEW S \in SUBSET Nat, NEW n \in Nat, NEW f \in [1 .. n -> S],
         \A j, k \in 1 .. n : j < k => f[j] < f[k],
         \A x \in S : \E k \in 1 .. n : f[k] = x
  PROVE  IsFiniteSet(S) /\ f = Ascending(S)
<1>1. \A j, k \in 1 .. n : f[j] = f[k] => j = k
  <2> SUFFICES ASSUME NEW j \in 1 .. n, NEW k \in 1 .. n, f[j] = f[k] PROVE j = k
    OBVIOUS
  <2>1. j < k => f[j] < f[k]
    OBVIOUS
  <2>2. k < j => f[k] < f[j]
    OBVIOUS
  <2>3. f[j] \in Nat /\ f[k] \in Nat
    OBVIOUS
  <2> QED
    BY <2>1, <2>2, <2>3
<1>2. f \in Bijection(1 .. n, S)
  BY <1>1 DEF Bijection, Injection, Surjection, IsInjective
<1>3. IsFiniteSet(S) /\ Cardinality(S) = n
  <2>1. ExistsBijection(1 .. n, S)
    BY <1>2 DEF ExistsBijection
  <2> QED
    BY <2>1, FS_CountingElements, FS_NatBijection
<1>4. ASSUME NEW k \in 1 .. n PROVE Ascending(S)[k] = f[k]
  <2> DEFINE T == {y \in S : y <= f[k]}
             g == [j \in 1 .. k |-> f[j]]
  <2>1. \A j \in 1 .. n : f[j] <= f[k] <=> j <= k
    <3> SUFFICES ASSUME NEW j \in 1 .. n PROVE f[j] <= f[k] <=> j <= k
      OBVIOUS
    <3>1. f[j] \in Nat /\ f[k] \in Nat /\ (j < k => f[j] < f[k]) /\ (k < j => f[k] < f[j])
      OBVIOUS
    <3> QED
      BY <3>1
  <2>2. g \in [1 .. k -> T]
    BY <2>1
  <2>3. \A x \in T : \E j \in 1 .. k : g[j] = x
    BY <2>1
  <2>4. g \in Bijection(1 .. k, T)
    BY <1>1, <2>2, <2>3 DEF Bijection, Injection, Surjection, IsInjective
  <2>5. Cardinality(T) = k
    <3>1. k \in Nat
      OBVIOUS
    <3>2. ExistsBijection(1 .. k, T)
      BY <2>4 DEF ExistsBijection
    <3> QED
      BY <3>1, <3>2, FS_CountingElements
  <2>6. T = UpToIn(S, f[k])
    BY DEF UpToIn
  <2>7. Cardinality(UpToIn(S, f[k])) = k
    BY <2>5, <2>6
  <2>8. k \in 1 .. Cardinality(S) /\ f[k] \in S
    BY <1>3
  <2>9. \A j \in 1 .. Cardinality(S), x \in S :
          Cardinality(UpToIn(S, x)) = j => Ascending(S)[j] = x
    BY <1>3, NumbersSorted
  <2> QED
    BY <2>7, <2>8, <2>9
<1>5. Ascending(S) \in [1 .. n -> S]
  BY <1>3, NumbersSorted
<1> QED
  BY <1>3, <1>4, <1>5

LEMMA Joined ==
  ASSUME NEW S, NEW s \in Seq(S), NEW t \in Seq(S)
  PROVE  s \o t \in Seq(S) /\ Range(s \o t) = Range(s) \cup Range(t)
<1> DEFINE u == s \o t
<1>1. /\ u \in Seq(S) /\ Len(u) = Len(s) + Len(t)
      /\ \A j \in 1 .. Len(s) + Len(t) :
           u[j] = IF j <= Len(s) THEN s[j] ELSE t[j - Len(s)]
  OBVIOUS
<1>2. Len(s) \in Nat /\ Len(t) \in Nat
  OBVIOUS
<1> HIDE DEF u
<1>3. ASSUME NEW j \in 1 .. Len(s) + Len(t)
      PROVE  u[j] \in Range(s) \cup Range(t)
  <2>1. CASE j <= Len(s)
    BY <1>1, <2>1 DEF Range
  <2>2. CASE j > Len(s)
    <3>1. j - Len(s) \in 1 .. Len(t) /\ u[j] = t[j - Len(s)]
      BY <1>1, <2>2
    <3> QED
      BY <3>1 DEF Range
  <2> QED
    BY <1>2, <2>1, <2>2
<1>4. ASSUME NEW j \in 1 .. Len(s) PROVE s[j] \in Range(u)
  <2>1. j \in 1 .. Len(u) /\ u[j] = s[j]
    BY <1>1, <1>2
  <2> QED
    BY <1>1, <2>1, SMTT(30) DEF Range
<1>5. ASSUME NEW j \in 1 .. Len(t) PROVE t[j] \in Range(u)
  <2>1. j + Len(s) \in 1 .. Len(u) /\ u[j + Len(s)] = t[j]
    BY <1>1, <1>2
  <2> QED
    BY <1>1, <2>1 DEF Range
<1>6. Range(u) \subseteq Range(s) \cup Range(t)
  BY <1>1, <1>3 DEF Range
<1>7. Range(s) \subseteq Range(u) /\ Range(t) \subseteq Range(u)
  BY <1>4, <1>5 DEF Range
<1> QED
  BY <1>1, <1>6, <1>7 DEF u

\* A run of numbers from a on: as long as it has elements.
LEMMA RunIs ==
  ASSUME NEW a \in Nat, NEW n \in Nat, NEW S \in SUBSET (a .. n),
         \A j \in S : \A k \in a .. j : k \in S
  PROVE  /\ Cardinality(S) \in Nat
         /\ S = a .. a + Cardinality(S) - 1
         /\ S # {} => a + Cardinality(S) - 1 <= n /\ Cardinality(S) > 0
<1>1. CASE S = {}
  <2>1. Cardinality(S) = 0
    BY <1>1, FS_EmptySet
  <2> QED
    BY <1>1, <2>1
<1>2. CASE S # {}
  <2>1. S \in SUBSET (0 .. n)
    OBVIOUS
  <2>2. Max(S) \in S /\ \A k \in S : k <= Max(S)
    BY <1>2, <2>1, MaxIs
  <2> DEFINE m == Max(S)
  <2> HIDE DEF m
  <2>3. m \in S /\ m \in a .. n /\ \A k \in S : k <= m
    BY <2>2 DEF m
  <2>5. \A k \in S : k \in a .. m
    BY <2>3
  <2>6. \A k \in a .. m : k \in S
    BY <2>3
  <2>7. S = a .. m
    BY <2>5, <2>6
  <2>4. Cardinality(a .. m) = m - a + 1
    <3>1. Cardinality(a .. m) = IF a > m THEN 0 ELSE m - a + 1
      BY <2>3, FS_Interval
    <3> QED
      BY <2>3, <3>1
  <2> QED
    BY <2>3, <2>4, <2>7
<1> QED
  BY <1>1, <1>2

\* The last of a set of numbers, or the default.
LEMMA LastIs ==
  ASSUME NEW n \in Nat, NEW S \in SUBSET (0 .. n), NEW d
  PROVE  /\ S = {} => LastOf(S, d) = d
         /\ S # {} => LastOf(S, d) \in S
         /\ \A k \in S : k <= LastOf(S, d)
BY MaxIs DEF LastOf

-----------------------------------------------------------------------------
(* The sheet and the walk over a voice.                                    *)

\* What is known of a sheet, its voices and their elements.
LEMMA SheetIs ==
  ASSUME sheet \in Sheets
  PROVE  /\ Len(sheet) \in Nat /\ Voices = 1 .. Len(sheet)
         /\ \A i \in Voices :
              /\ sheet[i] \in Seq(Element) /\ TimesInOrder(sheet[i])
              /\ Len(sheet[i]) \in Nat /\ DOMAIN sheet[i] = 1 .. Len(sheet[i])
              /\ \A j \in 1 .. Len(sheet[i]) :
                   /\ sheet[i][j] \in Element
                   /\ sheet[i][j].start \in Nat /\ sheet[i][j].end \in Nat
                   /\ sheet[i][j].pitch \in Nat
                   /\ sheet[i][j].start <= sheet[i][j].end
                   /\ \A k \in 1 .. j : sheet[i][k].start <= sheet[i][j].start
<1>1. sheet \in Seq(Seq(Element)) /\ \A i \in DOMAIN sheet : TimesInOrder(sheet[i])
  BY SheetsAssumption
<1>2. Len(sheet) \in Nat /\ Voices = 1 .. Len(sheet)
  BY <1>1 DEF Voices
<1>3. ASSUME NEW i \in Voices
      PROVE  /\ sheet[i] \in Seq(Element) /\ TimesInOrder(sheet[i])
             /\ Len(sheet[i]) \in Nat /\ DOMAIN sheet[i] = 1 .. Len(sheet[i])
  BY <1>1, <1>2 DEF Voices
<1>4. ASSUME NEW i \in Voices, NEW j \in 1 .. Len(sheet[i])
      PROVE  /\ sheet[i][j] \in Element
             /\ sheet[i][j].start \in Nat /\ sheet[i][j].end \in Nat
             /\ sheet[i][j].pitch \in Nat
             /\ sheet[i][j].start <= sheet[i][j].end
  <2>1. sheet[i][j] \in Element
    BY <1>3
  <2>2. sheet[i][j].start <= sheet[i][j].end
    BY <1>3 DEF TimesInOrder
  <2> QED
    BY <2>1, <2>2 DEF Element
<1>5. ASSUME NEW i \in Voices, NEW j \in 1 .. Len(sheet[i]), NEW k \in 1 .. j
      PROVE  sheet[i][k].start <= sheet[i][j].start
  <2>1. k \in 1 .. Len(sheet[i]) /\ (k = j \/ k < j)
    BY <1>3
  <2>2. k < j => sheet[i][k].start <= sheet[i][j].start
    BY <1>3, <2>1 DEF TimesInOrder
  <2>3. sheet[i][j].start \in Nat
    BY <1>4
  <2> QED
    BY <2>1, <2>2, <2>3
<1> QED
  BY <1>2, <1>3, <1>4, <1>5

LEMMA PositionsAre ==
  ASSUME sheet \in Sheets
  PROVE  /\ \A p : p \in Positions <=>
              p \in Nat \X Nat /\ p[1] \in Voices /\ p[2] \in 1 .. Len(sheet[p[1]])
         /\ IsFiniteSet(Positions)
<1> DEFINE Of(i) == {<<i, j>> : j \in DOMAIN sheet[i]}
           All == {Of(i) : i \in Voices}
<1>1. \A p : p \in Positions <=>
        p \in Nat \X Nat /\ p[1] \in Voices /\ p[2] \in 1 .. Len(sheet[p[1]])
  <2>1. ASSUME NEW p \in Positions
        PROVE  p \in Nat \X Nat /\ p[1] \in Voices /\ p[2] \in 1 .. Len(sheet[p[1]])
    <3>1. PICK i \in Voices : \E j \in DOMAIN sheet[i] : p = <<i, j>>
      BY DEF Positions
    <3> QED
      BY <3>1, SheetIs
  <2>2. ASSUME NEW p \in Nat \X Nat, p[1] \in Voices, p[2] \in 1 .. Len(sheet[p[1]])
        PROVE  p \in Positions
    <3>1. p[2] \in DOMAIN sheet[p[1]] /\ p = <<p[1], p[2]>>
      BY <2>2, SheetIs
    <3> QED
      BY <2>2, <3>1 DEF Positions
  <2> QED
    BY <2>1, <2>2
<1>2. ASSUME NEW i \in Voices PROVE IsFiniteSet(Of(i))
  <2> DEFINE f == [j \in DOMAIN sheet[i] |-> <<i, j>>]
  <2>1. f \in Surjection(DOMAIN sheet[i], Of(i))
    BY DEF Surjection
  <2>2. IsFiniteSet(DOMAIN sheet[i])
    <3> DEFINE n == Len(sheet[i])
    <3>1. DOMAIN sheet[i] = 1 .. n /\ n \in Int /\ 1 \in Int
      BY SheetIs
    <3> HIDE DEF n
    <3>2. IsFiniteSet(1 .. n)
      BY <3>1, FS_Interval, Zenon
    <3> QED
      BY <3>1, <3>2
  <2> HIDE DEF f
  <2> QED
    BY <2>1, <2>2, FS_Surjection
<1>3. IsFiniteSet(All)
  <2> DEFINE f == [i \in Voices |-> Of(i)]
  <2>1. f \in Surjection(Voices, All)
    BY DEF Surjection
  <2>2. IsFiniteSet(Voices)
    BY SheetIs, FS_Interval
  <2> HIDE DEF f
  <2> QED
    BY <2>1, <2>2, FS_Surjection
<1>4. \A T \in All : IsFiniteSet(T)
  BY <1>2
<1>5. IsFiniteSet(UNION All)
  <2> HIDE DEF All
  <2> QED
    BY <1>3, <1>4, FS_UNION
<1> QED
  BY <1>1, <1>5 DEF Positions

\* The loop passes over a run of elements that have started.
LEMMA PassedIs ==
  ASSUME sheet \in Sheets, NEW i \in Voices, NEW a \in Nat \ {0}, NEW t \in Nat
  PROVE  /\ Passed(i, a, t) \in SUBSET (a .. Len(sheet[i]))
         /\ Passed(i, a, t) \in SUBSET (1 .. Len(sheet[i]))
         /\ Passed(i, a, t) \in SUBSET (0 .. Len(sheet[i]))
         /\ \A j \in Passed(i, a, t) : \A k \in a .. j : k \in Passed(i, a, t)
         /\ \A j \in Passed(i, a, t) : sheet[i][j].start <= t
<1>1. Len(sheet[i]) \in Nat
  BY SheetIs
<1>2. Passed(i, a, t) \in SUBSET (a .. Len(sheet[i]))
  BY DEF Passed
<1>3. ASSUME NEW j \in Passed(i, a, t), NEW k \in a .. j
      PROVE  k \in Passed(i, a, t)
  <2>1. j \in a .. Len(sheet[i]) /\ \A l \in a .. j : Passes(i, l, t)
    BY DEF Passed
  <2>2. k \in a .. Len(sheet[i]) /\ \A l \in a .. k : Passes(i, l, t)
    BY <1>1, <2>1
  <2> QED
    BY <2>2 DEF Passed
<1>4. ASSUME NEW j \in Passed(i, a, t) PROVE sheet[i][j].start <= t
  <2>1. j \in a .. Len(sheet[i]) /\ Passes(i, j, t)
    BY DEF Passed
  <2>2. sheet[i][j].start \in Nat
    BY <1>1, <2>1, SheetIs
  <2> QED
    BY <2>1, <2>2 DEF Passes
<1>5. \A j \in a .. Len(sheet[i]) : j \in 1 .. Len(sheet[i]) /\ j \in 0 .. Len(sheet[i])
  BY <1>1
<1> QED
  BY <1>2, <1>3, <1>4, <1>5

\* The beginning of a repeat that was passed last, in voice i at element j, or 0.
OpenOrNone(i, o, j) ==
  /\ o \in 0 .. j
  /\ o # 0 => o \in 1 .. Len(sheet[i]) /\ sheet[i][o].kind = "repeatOpen"

\* A walk in voice i that passes what has started by t from b on.
WalksOn(i, a, b, t, o) ==
  LET S == Passed(i, b, t)
  IN /\ SeekFrom(i, a, S) \in a .. Len(sheet[i]) + 1
     /\ OpenOrNone(i, LastOf(OfKind(i, S, "repeatOpen"), o), SeekFrom(i, a, S))

\* The walk goes on to an element of the voice, or behind its last.
LEMMA SeekFromIs ==
  ASSUME sheet \in Sheets, NEW i \in Voices, NEW a \in 1 .. Len(sheet[i]) + 1,
         NEW b \in Nat, a <= b, NEW t \in Nat, NEW o, OpenOrNone(i, o, a)
  PROVE  WalksOn(i, a, b, t, o)
<1> DEFINE S == Passed(i, b, t)
           Opens == OfKind(i, S, "repeatOpen")
           n == Len(sheet[i])
<1>1. n \in Nat /\ a \in Nat \ {0} /\ b \in Nat \ {0}
  BY SheetIs
<1>2. S \in SUBSET (b .. n) /\ S \in SUBSET (0 .. n) /\ S \in SUBSET (1 .. n)
  BY <1>1, PassedIs
<1>3. Opens \in SUBSET S /\ \A k \in Opens : sheet[i][k].kind = "repeatOpen"
  BY DEF OfKind
<1> HIDE DEF S, Opens
<1>4. /\ S = {} => LastOf(S, a) = a
      /\ S # {} => LastOf(S, a) \in S
      /\ \A k \in S : k <= LastOf(S, a)
  BY <1>1, <1>2, LastIs
<1>5. LastOf(S, a) \in a .. n \/ LastOf(S, a) = a
  <2>1. CASE S # {}
    <3>1. LastOf(S, a) \in b .. n
      BY <1>2, <1>4, <2>1
    <3> QED
      BY <1>1, <3>1
  <2> QED
    BY <1>4, <2>1
<1>6. SeekFrom(i, a, S) \in {LastOf(S, a), LastOf(S, a) + 1}
  BY DEF SeekFrom, SkipLast
<1>7. SeekFrom(i, a, S) = LastOf(S, a) \/ (LastOf(S, a) = n /\ SeekFrom(i, a, S) = n + 1)
  BY DEF SeekFrom, SkipLast
<1>8. SeekFrom(i, a, S) \in a .. n + 1 /\ SeekFrom(i, a, S) >= LastOf(S, a)
  BY <1>1, <1>5, <1>7
<1>9. /\ Opens = {} => LastOf(Opens, o) = o
      /\ Opens # {} => LastOf(Opens, o) \in Opens
  <2>1. Opens \in SUBSET (0 .. n)
    BY <1>2, <1>3
  <2> QED
    BY <1>1, <2>1, LastIs
<1>10. CASE Opens = {}
  <2>1. OpenOrNone(i, LastOf(Opens, o), SeekFrom(i, a, S))
    BY <1>1, <1>8, <1>9, <1>10 DEF OpenOrNone
  <2> QED
    BY <1>8, <2>1 DEF Opens, S, WalksOn
<1>11. CASE Opens # {}
  <2>1. LastOf(Opens, o) \in S /\ LastOf(Opens, o) \in 1 .. n
    BY <1>2, <1>3, <1>9, <1>11
  <2>2. LastOf(Opens, o) <= SeekFrom(i, a, S)
    <3>1. LastOf(Opens, o) <= LastOf(S, a) /\ LastOf(S, a) \in S
      BY <1>4, <2>1
    <3>2. LastOf(Opens, o) \in Nat /\ LastOf(S, a) \in 0 .. n
      <4>1. LastOf(S, a) \in 0 .. n
        BY <1>2, <3>1
      <4>2. LastOf(Opens, o) \in Nat
        BY <1>1, <2>1
      <4> QED
        BY <4>1, <4>2
    <3>3. SeekFrom(i, a, S) \in Nat
      BY <1>1, <1>8
    <3> QED
      BY <1>1, <1>8, <3>1, <3>2, <3>3
  <2>3. sheet[i][LastOf(Opens, o)].kind = "repeatOpen"
    BY <1>3, <1>9, <1>11
  <2>4. LastOf(Opens, o) \in 0 .. SeekFrom(i, a, S)
    BY <1>1, <1>8, <2>1, <2>2
  <2>5. OpenOrNone(i, LastOf(Opens, o), SeekFrom(i, a, S))
    BY <2>1, <2>3, <2>4 DEF OpenOrNone
  <2> QED
    BY <1>8, <2>5 DEF Opens, S, WalksOn
<1> QED
  BY <1>10, <1>11

-----------------------------------------------------------------------------
(* The invariant of every sheet.                                           *)

\* A run has set the streams.
Present == streamIdx # << >> \/ thread \notin {"none", "begin"}

\* The positions of the walk are in the voices or just behind them.
Streams ==
  /\ streamIdx \in [Voices -> Nat \ {0}] /\ lastRepeatOpenIdx \in [Voices -> Nat]
  /\ \A i \in Voices : /\ streamIdx[i] <= Len(sheet[i]) + 1
                       /\ OpenOrNone(i, lastRepeatOpenIdx[i], streamIdx[i])

Fresh ==
  /\ streamIdx = << >> /\ lastRepeatOpenIdx = << >>
  /\ curPlaying = << >> /\ sounding = {}
  /\ performed = [i \in Voices |-> << >>]
  /\ ~repeating

StreamsOK == IF Present THEN Streams ELSE Fresh

Values ==
  /\ sheet \in Sheets
  /\ thread \in Running \cup {"none", "finished"}
  /\ initTime \in Nat /\ curTime \in Nat /\ next \in Nat \ {0}
  /\ repeating \in BOOLEAN /\ asked \in BOOLEAN
  /\ elapsed \in Nat
  /\ export \in [time : Nat, written : Nat, elapsed : Nat]

Flags == stop \in BOOLEAN /\ stopLock \in BOOLEAN /\ posted \in BOOLEAN

ListsOK ==
  /\ curPlaying \in Seq(Positions)
  /\ performed \in [Voices -> Seq(Nat)]
  /\ sounding \subseteq Voices \X Nat
  /\ deleted \subseteq Positions

\* What was looked at, and what plays when the streams move, is not over; a
\* thread that has ended left nothing playing, and a new one begins anew.
NoneOver ==
  /\ thread \in {"none", "begin", "finished"} => curPlaying = << >>
  /\ thread = "none" => ~Present /\ ~asked
  /\ repeating => Voices # {}
  /\ \A k \in 1 .. Len(curPlaying) :
       (thread = "off" /\ k < next) \/ thread \in {"seek", "check", "on"} =>
         At(curPlaying[k]).end > curTime

SheetInv == Values /\ ListsOK /\ StreamsOK /\ NoneOver

\* The types of the lists of a playback.
LEMMA SheetTypes == SheetInv /\ Flags => TypeOK
<1> SUFFICES ASSUME SheetInv, Flags PROVE TypeOK
  OBVIOUS
<1>1. Len(sheet) \in Nat /\ Voices = 1 .. Len(sheet)
  BY SheetIs DEF SheetInv, Values
<1>2. streamIdx \in Seq(Nat \ {0}) /\ lastRepeatOpenIdx \in Seq(Nat)
  <2>1. CASE Present
    <3>1. streamIdx \in [1 .. Len(sheet) -> Nat \ {0}]
      BY <1>1, <2>1 DEF SheetInv, StreamsOK, Streams
    <3>2. lastRepeatOpenIdx \in [1 .. Len(sheet) -> Nat]
      BY <1>1, <2>1 DEF SheetInv, StreamsOK, Streams
    <3> QED
      BY <1>1, <3>1, <3>2, IsSequence
  <2>2. CASE ~Present
    BY <2>2 DEF SheetInv, StreamsOK, Fresh
  <2> QED
    BY <2>1, <2>2
<1>3. performed \in Seq(Seq(Nat))
  <2>1. performed \in [1 .. Len(sheet) -> Seq(Nat)]
    BY <1>1 DEF SheetInv, ListsOK
  <2> QED
    BY <1>1, <2>1, IsSequence
<1>4. Positions \subseteq Nat \X Nat /\ Voices \X Nat \subseteq Nat \X Nat
  BY <1>1, PositionsAre DEF SheetInv, Values
<1>5. curPlaying \in Seq(Nat \X Nat)
  BY <1>4 DEF SheetInv, ListsOK
<1>6. sounding \subseteq Nat \X Nat /\ deleted \subseteq Nat \X Nat
  BY <1>4 DEF SheetInv, ListsOK
<1> QED
  BY <1>2, <1>3, <1>5, <1>6 DEF TypeOK, SheetInv, Values, Flags

\* What a state says of its sheet stays as long as the sheet does.
LEMMA SameSheet ==
  ASSUME sheet' = sheet
  PROVE  /\ Voices' = Voices /\ Positions' = Positions
         /\ \A p : At(p)' = At(p)
         /\ \A i, o, j : OpenOrNone(i, o, j)' = OpenOrNone(i, o, j)
BY DEF Voices, Positions, At, OpenOrNone

LEMMA SheetInit == Init => SheetInv
<1> SUFFICES ASSUME Init PROVE SheetInv
  OBVIOUS
<1>1. sheet \in Sheets
  BY DEF Init
<1>2. Values
  <2>1. export \in [time : Nat, written : Nat, elapsed : Nat]
    BY DEF Init
  <2>2. thread = "none" /\ initTime = 0 /\ curTime = 0 /\ next = 1 /\ elapsed = 0
    BY DEF Init
  <2>3. repeating \in BOOLEAN /\ asked \in BOOLEAN
    BY Zenon DEF Init
  <2> QED
    BY <1>1, <2>1, <2>2, <2>3 DEF Values
<1>3. ListsOK
  BY DEF Init, ListsOK
<1>4. ~Present /\ Fresh
  BY DEF Init, Present, Fresh
<1>5. NoneOver
  BY <1>4 DEF Init, NoneOver
<1> QED
  BY <1>2, <1>3, <1>4, <1>5 DEF SheetInv, StreamsOK

\* The lists stay right when the sheet, the streams and the lists are left alone.
LEMMA ListsStay ==
  ASSUME SheetInv, Present' <=> Present,
         UNCHANGED <<sheet, streamIdx, lastRepeatOpenIdx, repeating, curPlaying,
                     sounding, performed>>,
         deleted' \subseteq Positions
  PROVE  ListsOK' /\ StreamsOK' /\ Voices' = Voices /\ Positions' = Positions
         /\ \A p : At(p)' = At(p)
<1>1. /\ Voices' = Voices /\ Positions' = Positions
      /\ \A p : At(p)' = At(p)
      /\ \A i, o, j : OpenOrNone(i, o, j)' = OpenOrNone(i, o, j)
  BY SameSheet
<1>2. Streams' <=> Streams
  BY <1>1 DEF Streams
<1>3. ~Present => (Fresh' <=> Fresh)
  BY <1>1 DEF Fresh
<1>4. StreamsOK'
  BY <1>2, <1>3 DEF StreamsOK, SheetInv
<1>5. ListsOK'
  BY <1>1 DEF ListsOK, SheetInv
<1> QED
  BY <1>1, <1>4, <1>5

\* The steps that change no more than where the thread is, and the flags.
LEMMA ThreadGoesOn ==
  ASSUME SheetInv, Test \/ LeaveOn \/ AllLookedAt \/ SoughtAll \/ Check
  PROVE  SheetInv'
<1> USE DEF threadVars, windowVars
<1>1. UNCHANGED <<sheet, streamIdx, lastRepeatOpenIdx, repeating, curPlaying,
                  sounding, performed, deleted, curTime, initTime, asked, elapsed, export>>
  BY DEF Test, LeaveOn, AllLookedAt, SoughtAll, Check
<1>2. thread \notin {"none", "begin"} /\ thread' \notin {"none", "begin"}
  BY DEF Test, LeaveOn, AllLookedAt, SoughtAll, Check
<1>3. Present' <=> Present
  BY <1>2 DEF Present
<1>4. ListsOK' /\ StreamsOK' /\ Voices' = Voices /\ \A p : At(p)' = At(p)
  <2>1. deleted' \subseteq Positions
    BY <1>1 DEF SheetInv, ListsOK
  <2> QED
    BY <1>1, <1>3, <2>1, ListsStay
<1>5. next \in Nat \ {0} /\ next' \in Nat \ {0}
  BY DEF SheetInv, Values, Test, LeaveOn, AllLookedAt, SoughtAll, Check
<1>6. Values'
  BY <1>1, <1>5 DEF SheetInv, Values, Test, LeaveOn, AllLookedAt, SoughtAll, Check, Running
<1>7. curPlaying \in Seq(Positions) /\ Len(curPlaying) \in Nat
  BY DEF SheetInv, ListsOK
<1>8. NoneOver'
  <2>1. thread' = "finished" => curPlaying' = << >>
    BY <1>1 DEF Test, LeaveOn, AllLookedAt, SoughtAll, Check
  <2>2. ASSUME NEW k \in 1 .. Len(curPlaying'),
               (thread' = "off" /\ k < next') \/ thread' \in {"seek", "check", "on"}
        PROVE  (At(curPlaying[k]).end > curTime)'
    <3>1. (At(curPlaying[k]).end > curTime)' <=> At(curPlaying[k]).end > curTime
      BY <1>1, <1>4
    <3>2. k \in 1 .. Len(curPlaying) /\ k \in Nat
      BY <1>1, <1>7, <2>2
    <3>3. (thread = "off" /\ k < next) \/ thread \in {"seek", "check", "on"} =>
            At(curPlaying[k]).end > curTime
      BY <3>2 DEF SheetInv, NoneOver
    <3>4. CASE Test
      BY <2>2, <3>2, <3>4 DEF Test
    <3>5. CASE LeaveOn
      <4>1. k < next \/ k = next
        BY <1>5, <2>2, <3>2, <3>5 DEF LeaveOn
      <4>2. curTime \in Nat /\ curPlaying[k] \in Positions /\ At(curPlaying[k]).end \in Nat
        <5>1. curPlaying[k] \in Positions
          BY <1>7, <3>2
        <5> QED
          BY <5>1, PositionsAre, SheetIs DEF SheetInv, Values, At
      <4>3. k = next => At(curPlaying[k]).end > curTime
        BY <3>5, <4>2 DEF LeaveOn, Over
      <4> QED
        BY <3>1, <3>3, <3>5, <4>1, <4>3 DEF LeaveOn
    <3>6. CASE AllLookedAt
      BY <1>5, <1>7, <3>1, <3>2, <3>3, <3>6 DEF AllLookedAt
    <3>7. CASE SoughtAll \/ Check
      BY <3>1, <3>3, <3>7 DEF SoughtAll, Check
    <3> QED
      BY <3>4, <3>5, <3>6, <3>7
  <2> QED
    BY <1>1, <1>2, <1>4, <2>1, <2>2 DEF NoneOver, SheetInv
<1> QED
  BY <1>4, <1>6, <1>8 DEF SheetInv

\* The steps of the window, but for a new playback and the end of one.
LEMMA WindowMoves ==
  ASSUME SheetInv,
         Stop \/ StopNow \/ InsertNote \/ FinishedLate \/ CloseDocument
           \/ \E p \in Positions : DeleteElement(p)
  PROVE  SheetInv'
<1> USE DEF threadVars, windowVars
<1>1. UNCHANGED <<sheet, streamIdx, lastRepeatOpenIdx, repeating, curPlaying,
                  sounding, performed, curTime, initTime, elapsed, export, next>>
  BY DEF Stop, StopNow, InsertNote, FinishedLate, CloseDocument, DeleteElement
<1>2. thread # "none" /\ thread' # "none"
  BY DEF Stop, StopNow, InsertNote, FinishedLate, CloseDocument, DeleteElement, Running
<1>3. asked' \in BOOLEAN
  BY DEF Stop, StopNow, InsertNote, FinishedLate, CloseDocument, DeleteElement,
         SheetInv, Values
<1>4. thread' = thread \/ (thread = "finished" /\ thread' = "begin" /\ InsertNote)
  BY DEF Stop, StopNow, InsertNote, FinishedLate, CloseDocument, DeleteElement
<1>5. Values'
  BY <1>1, <1>3, <1>4 DEF SheetInv, Values, Running
<1>6. deleted' = deleted \/ deleted' \subseteq Positions
  BY DEF Stop, StopNow, InsertNote, FinishedLate, CloseDocument, DeleteElement
<1>7. ListsOK' /\ StreamsOK' /\ Voices' = Voices /\ \A p : At(p)' = At(p)
  <2>1. /\ Voices' = Voices /\ Positions' = Positions
        /\ \A p : At(p)' = At(p)
        /\ \A i, o, j : OpenOrNone(i, o, j)' = OpenOrNone(i, o, j)
    BY <1>1, SameSheet
  <2>2. ListsOK'
    BY <1>1, <1>6, <2>1 DEF ListsOK, SheetInv
  <2>3. Streams' <=> Streams
    BY <1>1, <2>1 DEF Streams
  <2>4. ASSUME Present, Present' PROVE StreamsOK'
    BY <2>3, <2>4 DEF StreamsOK, SheetInv
  <2>5. ASSUME Present, ~Present' PROVE StreamsOK'
    <3>1. streamIdx = << >> /\ curPlaying = << >> /\ thread = "finished"
      BY <1>1, <1>2, <1>4, <2>5 DEF Present, SheetInv, NoneOver
    <3>2. Streams
      BY <2>5 DEF StreamsOK, SheetInv
    <3>3. Voices = {}
      BY <3>1, <3>2, SheetIs DEF Streams, SheetInv, Values
    <3>4. sounding = {}
      BY <3>3 DEF SheetInv, ListsOK
    <3>6. lastRepeatOpenIdx = << >>
      <4>1. DOMAIN lastRepeatOpenIdx = {} /\ lastRepeatOpenIdx \in [{} -> Nat]
        BY <3>2, <3>3 DEF Streams
      <4>2. lastRepeatOpenIdx \in [1 .. 0 -> Nat]
        BY <4>1
      <4>3. lastRepeatOpenIdx \in Seq(Nat) /\ Len(lastRepeatOpenIdx) = 0
        BY <4>2, IsSequence
      <4> QED
        BY <4>3
    <3>7. performed = [i \in Voices |-> << >>] /\ ~repeating
      <4>1. performed \in [{} -> Seq(Nat)]
        BY <3>3 DEF SheetInv, ListsOK
      <4> QED
        BY <3>3, <4>1 DEF SheetInv, NoneOver
    <3> QED
      BY <1>1, <2>1, <2>5, <3>1, <3>4, <3>6, <3>7 DEF StreamsOK, Fresh
  <2>6. ASSUME ~Present PROVE StreamsOK'
    <3>1. thread = "begin" /\ streamIdx = << >>
      BY <1>2, <2>6 DEF Present
    <3>2. ~Present'
      BY <1>1, <1>4, <3>1 DEF Present
    <3> QED
      BY <1>1, <2>1, <2>6, <3>2 DEF StreamsOK, Fresh, SheetInv
  <2> QED
    BY <2>1, <2>2, <2>4, <2>5, <2>6
<1>8. NoneOver'
  <2>1. curPlaying \in Seq(Positions)
    BY DEF SheetInv, ListsOK
  <2>2. thread # thread' => curPlaying = << >>
    BY <1>4 DEF SheetInv, NoneOver
  <2>3. \A k \in 1 .. Len(curPlaying) : curPlaying'[k] = curPlaying[k] /\ At(curPlaying[k])' = At(curPlaying[k])
    BY <1>1, <1>7
  <2> QED
    BY <1>1, <1>2, <1>4, <1>7, <2>1, <2>2, <2>3 DEF SheetInv, NoneOver
<1> QED
  BY <1>5, <1>7, <1>8 DEF SheetInv

\* A new playback, and the end of one: the fields are those of a new object.
LEMMA NewPlayback ==
  ASSUME SheetInv, (\E t \in InitTimes : Play(t)) \/ PlaybackFinished
  PROVE  SheetInv'
<1>1. /\ sheet' = sheet
      /\ curTime' = 0 /\ next' = 1 /\ elapsed' = 0
      /\ export' = [time |-> 0, written |-> 0, elapsed |-> 0]
      /\ streamIdx' = << >> /\ lastRepeatOpenIdx' = << >>
      /\ ~repeating' /\ curPlaying' = << >> /\ sounding' = {} /\ deleted' = {}
      /\ ~asked'
      /\ performed' = [i \in Voices |-> << >>]
  BY DEF Play, PlaybackFinished, InitPlayback
<1>2. initTime' \in Nat /\ thread' \in {"none", "begin"}
  BY SheetsAssumption DEF Play, PlaybackFinished
<1>3. Voices' = Voices /\ Positions' = Positions
  BY <1>1, SameSheet
<1>4. Values'
  <2>1. export' \in [time : Nat, written : Nat, elapsed : Nat]
    BY <1>1
  <2>2. repeating' \in BOOLEAN /\ asked' \in BOOLEAN
    <3>1. repeating' = FALSE /\ asked' = FALSE
      BY Zenon DEF Play, PlaybackFinished, InitPlayback
    <3> QED
      BY <3>1, Zenon
  <2> QED
    BY <1>1, <1>2, <2>1, <2>2 DEF Values, SheetInv, Running
<1>5. ListsOK'
  BY <1>1, <1>3 DEF ListsOK
<1>6. ~Present' /\ Fresh'
  BY <1>1, <1>2, <1>3 DEF Present, Fresh
<1>7. NoneOver'
  BY <1>1, <1>6 DEF NoneOver
<1> QED
  BY <1>4, <1>5, <1>6, <1>7 DEF SheetInv, StreamsOK

\* The streams at the start.
LEMMA StreamsInit ==
  ASSUME SheetInv, InitStreams, sheet' = sheet
  PROVE  Streams'
<1>1. Len(sheet) \in Nat /\ Voices = 1 .. Len(sheet) /\ sheet \in Sheets /\ initTime \in Nat
  BY SheetIs DEF SheetInv, Values
<1> DEFINE S(i) == Passed(i, 1, initTime)
<1>2. /\ streamIdx' = [i \in Voices |-> SeekFrom(i, 1, S(i))]
      /\ lastRepeatOpenIdx' = [i \in Voices |-> LastOf(OfKind(i, S(i), "repeatOpen"), 0)]
  BY DEF InitStreams
<1>3. ASSUME NEW i \in Voices
      PROVE  /\ SeekFrom(i, 1, S(i)) \in 1 .. Len(sheet[i]) + 1
             /\ OpenOrNone(i, LastOf(OfKind(i, S(i), "repeatOpen"), 0), SeekFrom(i, 1, S(i)))
  <2>1. Len(sheet[i]) \in Nat
    BY <1>1, SheetIs
  <2>2. OpenOrNone(i, 0, 1)
    BY DEF OpenOrNone
  <2>3. 1 \in 1 .. Len(sheet[i]) + 1 /\ 1 \in Nat /\ 1 <= 1
    BY <2>1
  <2>4. WalksOn(i, 1, 1, initTime, 0)
    BY <1>1, <2>2, <2>3, SeekFromIs
  <2> QED
    BY <2>4 DEF WalksOn
<1>4. \A i \in Voices : /\ Len(sheet[i]) \in Nat
                        /\ LastOf(OfKind(i, S(i), "repeatOpen"), 0) \in Nat
  BY <1>1, <1>3, SheetIs DEF OpenOrNone
<1> HIDE DEF S
<1>5. /\ streamIdx' \in [Voices -> Nat \ {0}] /\ lastRepeatOpenIdx' \in [Voices -> Nat]
      /\ \A i \in Voices : /\ streamIdx'[i] <= Len(sheet[i]) + 1
                           /\ OpenOrNone(i, lastRepeatOpenIdx'[i], streamIdx'[i])
  BY <1>2, <1>3, <1>4
<1>6. Voices' = Voices /\ \A i, o, j : OpenOrNone(i, o, j)' = OpenOrNone(i, o, j)
  BY SameSheet
<1>7. \A i \in Voices : OpenOrNone(i, lastRepeatOpenIdx[i], streamIdx[i])'
        <=> OpenOrNone(i, lastRepeatOpenIdx'[i], streamIdx'[i])
  BY DEF OpenOrNone
<1> QED
  BY <1>5, <1>6, <1>7 DEF Streams

LEMMA BeginInvariant == ASSUME SheetInv, Begin PROVE SheetInv'
<1> USE DEF threadVars, windowVars
<1>1. /\ UNCHANGED <<sheet, initTime, curPlaying, sounding, performed, deleted, asked,
                     next, elapsed, export>>
      /\ thread = "begin" /\ thread' = "test"
  BY DEF Begin, InitStreams
<1>2. curTime' \in Nat /\ (repeating' = FALSE \/ repeating' = repeating)
  BY DEF Begin, InitStreams, SheetInv, Values
<1>3. Voices' = Voices /\ Positions' = Positions /\ \A p : At(p)' = At(p)
  BY <1>1, SameSheet
<1>4. Present' /\ curPlaying = << >>
  BY <1>1 DEF Present, SheetInv, NoneOver
<1>5. Streams'
  <2>1. CASE streamIdx = << >>
    BY <1>1, <2>1, StreamsInit DEF Begin
  <2>2. CASE streamIdx # << >>
    <3>1. Streams /\ UNCHANGED <<streamIdx, lastRepeatOpenIdx>>
      BY <2>2 DEF Begin, Present, SheetInv, StreamsOK
    <3>2. \A i, o, j : OpenOrNone(i, o, j)' = OpenOrNone(i, o, j)
      BY <1>1, SameSheet
    <3> QED
      BY <1>1, <1>3, <3>1, <3>2 DEF Streams
  <2> QED
    BY <2>1, <2>2
<1>6. Values'
  <2>1. repeating' \in BOOLEAN
    BY <1>2 DEF SheetInv, Values
  <2> QED
    BY <1>1, <1>2, <2>1 DEF SheetInv, Values, Running
<1>7. ListsOK'
  BY <1>1, <1>3 DEF SheetInv, ListsOK
<1>8. NoneOver'
  BY <1>1, <1>2, <1>3, <1>4 DEF SheetInv, NoneOver
<1> QED
  BY <1>4, <1>5, <1>6, <1>7, <1>8 DEF SheetInv, StreamsOK

\* What the thread sends has a time.
LEMMA SentIs ==
  ASSUME SheetInv
  PROVE  Sent(curTime) \in [time : Nat, written : Nat, elapsed : Nat]
<1>1. curTime \in Nat /\ elapsed \in Nat /\ export \in [time : Nat, written : Nat, elapsed : Nat]
  BY DEF SheetInv, Values
<1>2. export.time \in Nat /\ export.written \in Nat
  BY <1>1
<1>3. TimeIncrement(curTime, export.time) \in Nat
  BY <1>1, <1>2 DEF TimeIncrement
<1> QED
  BY <1>1, <1>2, <1>3 DEF Sent

LEMMA TurnOffInvariant == ASSUME SheetInv, TurnOff PROVE SheetInv'
<1> USE DEF windowVars
<1> DEFINE list == RemoveAt(curPlaying, next)
<1>1. /\ UNCHANGED <<thread, sheet, initTime, curTime, streamIdx, lastRepeatOpenIdx, repeating,
                     next, performed, elapsed, asked, deleted>>
      /\ thread = "off" /\ curPlaying' = list /\ sounding' \subseteq sounding
      /\ export' = Sent(curTime) \/ export' = export
  BY DEF TurnOff
<1>2. curPlaying \in Seq(Positions) /\ Len(curPlaying) \in Nat /\ next \in 1 .. Len(curPlaying)
  BY DEF TurnOff, SheetInv, ListsOK, Values
<1>3. /\ list \in Seq(Positions) /\ Len(list) = Len(curPlaying) - 1
      /\ \A j \in 1 .. Len(curPlaying) - 1 :
           list[j] = IF j < next THEN curPlaying[j] ELSE curPlaying[j + 1]
  BY <1>2, WithoutOne
<1> HIDE DEF list
<1>4. /\ Voices' = Voices /\ Positions' = Positions
      /\ \A p : At(p)' = At(p)
      /\ \A i, o, j : OpenOrNone(i, o, j)' = OpenOrNone(i, o, j)
  BY <1>1, SameSheet
<1>5. Values'
  BY <1>1, SentIs DEF SheetInv, Values
<1>6. ListsOK'
  BY <1>1, <1>3, <1>4 DEF SheetInv, ListsOK
<1>7. Present /\ Present' /\ Streams'
  BY <1>1, <1>4 DEF Present, SheetInv, StreamsOK, Streams
<1>8. NoneOver'
  <2>1. ASSUME NEW k \in 1 .. Len(list), k < next
        PROVE  (At(curPlaying[k]).end > curTime)'
    <3>1. k \in 1 .. Len(curPlaying) - 1 /\ k \in 1 .. Len(curPlaying)
      BY <1>2, <1>3
    <3>2. list[k] = curPlaying[k]
      BY <1>3, <2>1, <3>1
    <3>3. At(curPlaying[k]).end > curTime
      BY <1>1, <2>1, <3>1 DEF SheetInv, NoneOver
    <3>4. (At(curPlaying[k]))' = At(curPlaying[k])
      BY <1>1, <3>2 DEF At
    <3> QED
      BY <1>1, <3>3, <3>4
  <2>2. \A k \in 1 .. Len(curPlaying') :
          (thread' = "off" /\ k < next') \/ thread' \in {"seek", "check", "on"} =>
            (At(curPlaying[k]).end > curTime)'
    BY <1>1, <2>1
  <2> QED
    BY <1>1, <1>4, <1>7, <2>2 DEF SheetInv, NoneOver
<1> QED
  BY <1>5, <1>6, <1>7, <1>8 DEF SheetInv, StreamsOK

\* What plays while the streams move is not over, nor will it be at a time
\* before.
LEMMA NoneOverStays ==
  ASSUME SheetInv, thread = "seek", thread' = "seek",
         UNCHANGED <<sheet, curPlaying>>, curTime' \in Nat, curTime' <= curTime,
         repeating' => Voices # {}
  PROVE  NoneOver'
<1>1. curPlaying \in Seq(Positions) /\ Len(curPlaying) \in Nat
  BY DEF SheetInv, ListsOK
<1>2. Voices' = Voices /\ \A p : At(p)' = At(p)
  BY SameSheet
<1>3. ASSUME NEW k \in 1 .. Len(curPlaying) PROVE (At(curPlaying[k]).end > curTime)'
  <2>1. At(curPlaying[k]).end > curTime
    BY DEF SheetInv, NoneOver
  <2>2. At(curPlaying[k]).end \in Nat /\ curTime \in Nat
    <3>1. curPlaying[k] \in Positions
      BY <1>1
    <3> QED
      BY <3>1, PositionsAre, SheetIs DEF SheetInv, Values, At
  <2>3. (At(curPlaying[k]))' = At(curPlaying[k])
    BY DEF At
  <2> QED
    BY <2>1, <2>2, <2>3
<1> QED
  BY <1>2, <1>3 DEF NoneOver

LEMMA SeekOnInvariant == ASSUME SheetInv, SeekOn PROVE SheetInv'
<1> USE DEF windowVars
<1> DEFINE i == next
           S == Passed(i, streamIdx[i], curTime)
<1>1. /\ UNCHANGED <<thread, sheet, initTime, curTime, repeating, curPlaying, sounding,
                     performed, elapsed, export, asked, deleted>>
      /\ thread = "seek" /\ i \in Voices
      /\ streamIdx' = [streamIdx EXCEPT ![i] = SeekFrom(i, streamIdx[i], S)]
      /\ lastRepeatOpenIdx' = [lastRepeatOpenIdx EXCEPT ![i] =
                                 LastOf(OfKind(i, S, "repeatOpen"), lastRepeatOpenIdx[i])]
      /\ next' = i + 1
  BY DEF SeekOn
<1>2. sheet \in Sheets /\ curTime \in Nat /\ i \in Nat \ {0}
  BY DEF SheetInv, Values
<1>3. Streams
  BY <1>1 DEF SheetInv, StreamsOK, Present
<1>4. \A k \in Voices : /\ Len(sheet[k]) \in Nat /\ streamIdx[k] \in Nat \ {0}
                        /\ streamIdx[k] <= Len(sheet[k]) + 1
                        /\ OpenOrNone(k, lastRepeatOpenIdx[k], streamIdx[k])
  BY <1>2, <1>3, SheetIs DEF Streams
<1>5. WalksOn(i, streamIdx[i], streamIdx[i], curTime, lastRepeatOpenIdx[i])
  <2>1. /\ streamIdx[i] \in 1 .. Len(sheet[i]) + 1 /\ streamIdx[i] \in Nat
        /\ streamIdx[i] <= streamIdx[i]
    BY <1>1, <1>4
  <2> QED
    BY <1>1, <1>2, <1>4, <2>1, SeekFromIs
<1>6. /\ SeekFrom(i, streamIdx[i], S) \in streamIdx[i] .. Len(sheet[i]) + 1
      /\ OpenOrNone(i, LastOf(OfKind(i, S, "repeatOpen"), lastRepeatOpenIdx[i]),
                    SeekFrom(i, streamIdx[i], S))
  BY <1>5 DEF WalksOn
<1> HIDE DEF S, i
<1>7. /\ SeekFrom(i, streamIdx[i], S) \in Nat \ {0}
      /\ SeekFrom(i, streamIdx[i], S) <= Len(sheet[i]) + 1
      /\ LastOf(OfKind(i, S, "repeatOpen"), lastRepeatOpenIdx[i]) \in Nat
  BY <1>1, <1>4, <1>6 DEF OpenOrNone
<1>8. Streams'
  <2>1. streamIdx' \in [Voices -> Nat \ {0}] /\ lastRepeatOpenIdx' \in [Voices -> Nat]
    BY <1>1, <1>3, <1>7 DEF Streams
  <2>2. \A k \in Voices : /\ streamIdx'[k] <= Len(sheet[k]) + 1
                          /\ OpenOrNone(k, lastRepeatOpenIdx'[k], streamIdx'[k])
    BY <1>1, <1>3, <1>4, <1>6, <1>7 DEF Streams
  <2>3. Voices' = Voices
    BY <1>1, SameSheet
  <2>4. \A k \in Voices : OpenOrNone(k, lastRepeatOpenIdx[k], streamIdx[k])'
          <=> OpenOrNone(k, lastRepeatOpenIdx'[k], streamIdx'[k])
    BY <1>1 DEF OpenOrNone
  <2> QED
    BY <1>1, <2>1, <2>2, <2>3, <2>4 DEF Streams
<1>9. Values'
  BY <1>1, <1>2 DEF SheetInv, Values
<1>10. ListsOK'
  BY <1>1, SameSheet DEF SheetInv, ListsOK
<1>11. NoneOver'
  BY <1>1, <1>2, NoneOverStays DEF SheetInv, NoneOver
<1>12. Present'
  BY <1>1 DEF Present
<1> QED
  BY <1>8, <1>9, <1>10, <1>11, <1>12 DEF SheetInv, StreamsOK

\* The end of a repeat that the walk meets in voice i, the beginning that was
\* passed last before that, and the element it jumps to.
Closes(i) == OfKind(i, Passed(i, streamIdx[i], curTime), "repeatClose")

OpenBefore(i) ==
  LastOf(OfKind(i, {j \in Passed(i, streamIdx[i], curTime) : j < Min(Closes(i))},
                "repeatOpen"), lastRepeatOpenIdx[i])

\* A jump goes back, to an element up to the end of the repeat.
LEMMA JumpIs ==
  ASSUME sheet \in Sheets, curTime \in Nat, Streams, NEW i \in Voices, Closes(i) # {}
  PROVE  /\ Min(Closes(i)) \in Closes(i)
         /\ Min(Closes(i)) \in 1 .. Len(sheet[i])
         /\ streamIdx[i] <= Min(Closes(i))
         /\ \A j \in Closes(i) : Min(Closes(i)) <= j
         /\ OpenBefore(i) \in 0 .. Min(Closes(i)) - 1
         /\ OpenOrNone(i, OpenBefore(i), OpenBefore(i) + 1)
         /\ sheet[i][OpenBefore(i) + 1].start \in Nat
         /\ sheet[i][OpenBefore(i) + 1].start <= sheet[i][Min(Closes(i))].start
         /\ sheet[i][OpenBefore(i) + 1].start <= curTime
<1> DEFINE S == Passed(i, streamIdx[i], curTime)
           n == Len(sheet[i])
           c == Min(Closes(i))
           Before == {j \in S : j < c}
           Opens == OfKind(i, Before, "repeatOpen")
           o == OpenBefore(i)
<1>1. /\ n \in Nat /\ streamIdx[i] \in Nat \ {0}
      /\ OpenOrNone(i, lastRepeatOpenIdx[i], streamIdx[i])
  BY SheetIs DEF Streams
<1>2. /\ S \in SUBSET (streamIdx[i] .. n) /\ S \in SUBSET (1 .. n) /\ S \in SUBSET (0 .. n)
      /\ \A j \in S : sheet[i][j].start <= curTime
  BY <1>1, PassedIs
<1>3. Closes(i) \in SUBSET S /\ \A j \in Closes(i) : sheet[i][j].kind = "repeatClose"
  BY DEF Closes, OfKind
<1>4. c \in Closes(i) /\ \A j \in Closes(i) : c <= j
  <2>1. Closes(i) \in SUBSET Nat
    BY <1>2, <1>3
  <2> QED
    BY <2>1, MinIs
<1>5. Opens \in SUBSET S /\ \A j \in Opens : j < c /\ sheet[i][j].kind = "repeatOpen"
  BY DEF OfKind
<1>6. o = LastOf(Opens, lastRepeatOpenIdx[i])
  BY DEF OpenBefore
<1> HIDE DEF S, Opens, o, c
<1>7. c \in 1 .. n /\ streamIdx[i] <= c /\ sheet[i][c].kind = "repeatClose"
      /\ sheet[i][c].start <= curTime
  <2>1. c \in S /\ sheet[i][c].kind = "repeatClose"
    BY <1>3, <1>4
  <2>2. c \in 1 .. n /\ c \in streamIdx[i] .. n
    BY <1>2, <2>1
  <2> QED
    BY <1>1, <1>2, <2>1, <2>2
<1>8. /\ Opens = {} => o = lastRepeatOpenIdx[i]
      /\ Opens # {} => o \in Opens
  <2>1. Opens \in SUBSET (0 .. n)
    BY <1>2, <1>5
  <2> QED
    BY <1>1, <1>6, <2>1, LastIs
<1>9. o \in 0 .. c - 1 /\ (o # 0 => o \in 1 .. n /\ sheet[i][o].kind = "repeatOpen")
  <2>1. CASE Opens # {}
    <3>1. o \in S /\ o < c /\ sheet[i][o].kind = "repeatOpen"
      BY <1>5, <1>8, <2>1
    <3>2. o \in 1 .. n
      BY <1>2, <3>1
    <3> QED
      BY <1>1, <1>7, <3>1, <3>2
  <2>2. CASE Opens = {}
    <3>1. o \in 0 .. streamIdx[i] /\ (o # 0 => o \in 1 .. n /\ sheet[i][o].kind = "repeatOpen")
      BY <1>1, <1>8, <2>2 DEF OpenOrNone
    <3>2. o # c
      BY <1>7, <3>1
    <3> QED
      BY <1>1, <1>7, <3>1, <3>2
  <2> QED
    BY <2>1, <2>2
<1>10. o + 1 \in 1 .. c /\ o + 1 \in 1 .. n
  BY <1>1, <1>7, <1>9
<1>11. /\ sheet[i][o + 1].start \in Nat /\ sheet[i][c].start \in Nat
       /\ sheet[i][o + 1].start <= sheet[i][c].start
  BY <1>7, <1>10, SheetIs
<1>12. sheet[i][o + 1].start <= curTime
  BY <1>7, <1>11
<1>13. OpenOrNone(i, o, o + 1)
  BY <1>1, <1>9 DEF OpenOrNone
<1> QED
  BY <1>4, <1>7, <1>9, <1>11, <1>12, <1>13 DEF c, o

\* The jump in other words: voice i, that met the end, walks on.
JumpsFrom(i) ==
  LET b == OpenBefore(i) + 1
      t == sheet[i][b].start
      S == Passed(i, b + 1, t)
  IN /\ i \in Voices /\ Closes(i) # {} /\ ~repeating
     /\ curTime' = t /\ repeating' /\ next' = i + 1
     /\ streamIdx' = [k \in Voices |-> IF k = i THEN SeekFrom(i, b, S)
                                                ELSE lastRepeatOpenIdx[k] + 1]
     /\ lastRepeatOpenIdx' = [k \in Voices |->
          IF k = i THEN LastOf(OfKind(i, S, "repeatOpen"), OpenBefore(i))
                   ELSE lastRepeatOpenIdx[k]]
     /\ UNCHANGED <<thread, curPlaying, sounding, performed, elapsed, export, stop,
                    posted, sheet, initTime, stopLock, asked, deleted>>

LEMMA BackIs == ASSUME SheetInv, SeekBack PROVE JumpsFrom(next)
<1> DEFINE i == next
           S == Passed(i, streamIdx[i], curTime)
           closes == OfKind(i, S, "repeatClose")
           before == {j \in S : j < Min(closes)}
           opened == [lastRepeatOpenIdx EXCEPT ![i] =
                        LastOf(OfKind(i, before, "repeatOpen"), lastRepeatOpenIdx[i])]
           back == [k \in Voices |-> opened[k] + 1]
           t == sheet[i][back[i]].start
           S2 == Passed(i, back[i] + 1, t)
<1>1. /\ thread = "seek" /\ i \in Voices /\ ~repeating /\ closes # {}
      /\ curTime' = t /\ repeating' /\ next' = i + 1
      /\ streamIdx' = [back EXCEPT ![i] = SeekFrom(i, back[i], S2)]
      /\ lastRepeatOpenIdx' = [opened EXCEPT ![i] =
                                 LastOf(OfKind(i, S2, "repeatOpen"), opened[i])]
      /\ UNCHANGED <<thread, curPlaying, sounding, performed, elapsed, export, stop,
                     posted, windowVars>>
  BY DEF SeekBack, JumpsBack
<1>2. Closes(i) = closes /\ OpenBefore(i) = LastOf(OfKind(i, before, "repeatOpen"), lastRepeatOpenIdx[i])
  BY DEF Closes, OpenBefore
<1>3. lastRepeatOpenIdx \in [Voices -> Nat]
  BY <1>1 DEF SheetInv, StreamsOK, Present, Streams
<1>4. opened = [k \in Voices |-> IF k = i THEN OpenBefore(i) ELSE lastRepeatOpenIdx[k]]
  BY <1>1, <1>2, <1>3
<1> HIDE DEF opened
<1>5. back = [k \in Voices |-> IF k = i THEN OpenBefore(i) + 1 ELSE lastRepeatOpenIdx[k] + 1]
  BY <1>4
<1>6. back[i] = OpenBefore(i) + 1 /\ opened[i] = OpenBefore(i)
  BY <1>1, <1>4, <1>5
<1> HIDE DEF back
<1>7. streamIdx' = [k \in Voices |-> IF k = i THEN SeekFrom(i, back[i], S2)
                                            ELSE lastRepeatOpenIdx[k] + 1]
  BY <1>1, <1>5
<1>8. lastRepeatOpenIdx' = [k \in Voices |->
          IF k = i THEN LastOf(OfKind(i, S2, "repeatOpen"), opened[i])
                   ELSE lastRepeatOpenIdx[k]]
  BY <1>1, <1>4
<1> QED
  BY <1>1, <1>2, <1>6, <1>7, <1>8 DEF JumpsFrom, windowVars

LEMMA SeekBackInvariant == ASSUME SheetInv, SeekBack PROVE SheetInv'
<1> DEFINE i == next
           b == OpenBefore(i) + 1
           t == sheet[i][b].start
           S == Passed(i, b + 1, t)
<1>1. /\ i \in Voices /\ Closes(i) # {} /\ ~repeating
      /\ curTime' = t /\ repeating' /\ next' = i + 1
      /\ streamIdx' = [k \in Voices |-> IF k = i THEN SeekFrom(i, b, S)
                                                ELSE lastRepeatOpenIdx[k] + 1]
      /\ lastRepeatOpenIdx' = [k \in Voices |->
           IF k = i THEN LastOf(OfKind(i, S, "repeatOpen"), OpenBefore(i))
                    ELSE lastRepeatOpenIdx[k]]
      /\ UNCHANGED <<thread, curPlaying, sounding, performed, elapsed, export, stop,
                     posted, sheet, initTime, stopLock, asked, deleted>>
  BY BackIs DEF JumpsFrom
<1>2. thread = "seek" /\ repeating' = TRUE
  BY DEF SeekBack
<1>3. sheet \in Sheets /\ curTime \in Nat /\ i \in Nat \ {0}
  BY DEF SheetInv, Values
<1>4. Streams
  BY <1>2 DEF SheetInv, StreamsOK, Present
<1>5. /\ OpenBefore(i) \in 0 .. Min(Closes(i)) - 1 /\ Min(Closes(i)) \in 1 .. Len(sheet[i])
      /\ OpenOrNone(i, OpenBefore(i), b) /\ t \in Nat /\ t <= curTime
  BY <1>1, <1>3, <1>4, JumpIs
<1>6. \A k \in Voices : /\ Len(sheet[k]) \in Nat
                        /\ lastRepeatOpenIdx[k] \in Nat
                        /\ lastRepeatOpenIdx[k] <= Len(sheet[k])
                        /\ OpenOrNone(k, lastRepeatOpenIdx[k], lastRepeatOpenIdx[k] + 1)
  <2> SUFFICES ASSUME NEW k \in Voices
               PROVE  /\ Len(sheet[k]) \in Nat
                      /\ lastRepeatOpenIdx[k] \in Nat
                      /\ lastRepeatOpenIdx[k] <= Len(sheet[k])
                      /\ OpenOrNone(k, lastRepeatOpenIdx[k], lastRepeatOpenIdx[k] + 1)
    OBVIOUS
  <2>1. Len(sheet[k]) \in Nat /\ lastRepeatOpenIdx[k] \in Nat
        /\ OpenOrNone(k, lastRepeatOpenIdx[k], streamIdx[k])
    BY <1>3, <1>4, SheetIs DEF Streams
  <2> QED
    BY <2>1 DEF OpenOrNone
<1>7. /\ SeekFrom(i, b, S) \in Nat \ {0} /\ SeekFrom(i, b, S) <= Len(sheet[i]) + 1
      /\ OpenOrNone(i, LastOf(OfKind(i, S, "repeatOpen"), OpenBefore(i)), SeekFrom(i, b, S))
  <2>1. Len(sheet[i]) \in Nat
    BY <1>1, <1>6
  <2>2. b \in 1 .. Len(sheet[i]) + 1 /\ b + 1 \in Nat /\ b <= b + 1 /\ b \in Nat
    BY <1>5, <2>1
  <2> HIDE DEF b, t
  <2>3. WalksOn(i, b, b + 1, t, OpenBefore(i))
    BY <1>1, <1>3, <1>5, <2>2, SeekFromIs
  <2>4. /\ SeekFrom(i, b, S) \in b .. Len(sheet[i]) + 1
        /\ OpenOrNone(i, LastOf(OfKind(i, S, "repeatOpen"), OpenBefore(i)), SeekFrom(i, b, S))
    BY <2>3 DEF WalksOn
  <2> QED
    BY <2>1, <2>2, <2>4
<1> HIDE DEF S, b, t
<1>8. Streams'
  <2>1. LastOf(OfKind(i, S, "repeatOpen"), OpenBefore(i)) \in Nat
    BY <1>7 DEF OpenOrNone
  <2>2. \A k \in Voices : /\ lastRepeatOpenIdx[k] + 1 \in Nat \ {0}
                          /\ lastRepeatOpenIdx[k] + 1 <= Len(sheet[k]) + 1
    BY <1>6
  <2>3. streamIdx' \in [Voices -> Nat \ {0}] /\ lastRepeatOpenIdx' \in [Voices -> Nat]
    BY <1>1, <1>6, <1>7, <2>1, <2>2
  <2>4. \A k \in Voices : /\ streamIdx'[k] <= Len(sheet[k]) + 1
                          /\ OpenOrNone(k, lastRepeatOpenIdx'[k], streamIdx'[k])
    BY <1>1, <1>6, <1>7, <2>2
  <2>5. Voices' = Voices
    BY <1>1, SameSheet
  <2>6. \A k \in Voices : OpenOrNone(k, lastRepeatOpenIdx[k], streamIdx[k])'
          <=> OpenOrNone(k, lastRepeatOpenIdx'[k], streamIdx'[k])
    BY <1>1 DEF OpenOrNone
  <2> QED
    BY <1>1, <2>3, <2>4, <2>5, <2>6 DEF Streams
<1>9. Values'
  <2>1. next' \in Nat \ {0}
    BY <1>1, <1>3
  <2> QED
    BY <1>1, <1>2, <1>5, <2>1 DEF SheetInv, Values
<1>10. ListsOK'
  BY <1>1, SameSheet DEF SheetInv, ListsOK
<1>11. NoneOver'
  <2>1. Voices # {}
    BY <1>1
  <2> QED
    BY <1>1, <1>2, <1>3, <1>5, <2>1, NoneOverStays
<1>12. Present'
  BY <1>1, <1>2 DEF Present
<1> QED
  BY <1>8, <1>9, <1>10, <1>11, <1>12 DEF SheetInv, StreamsOK

\* What starts now is a run of elements of each voice.
LEMMA StartingIs ==
  ASSUME sheet \in Sheets, curTime \in Nat, Streams, NEW i \in Voices
  PROVE  /\ Cardinality(Starting(i)) \in Nat
         /\ Starting(i) = streamIdx[i] .. streamIdx[i] + Cardinality(Starting(i)) - 1
         /\ Starting(i) # {} => streamIdx[i] + Cardinality(Starting(i)) - 1 <= Len(sheet[i])
         /\ streamIdx[i] + Cardinality(Starting(i)) <= Len(sheet[i]) + 1
         /\ streamIdx[i] + Cardinality(Starting(i)) \in Nat \ {0}
         /\ Starting(i) \subseteq 1 .. Len(sheet[i])
         /\ \A j \in Starting(i) : sheet[i][j].start = curTime
<1> DEFINE a == streamIdx[i]
           n == Len(sheet[i])
           S == Starting(i)
<1>1. n \in Nat /\ a \in Nat \ {0} /\ a <= n + 1
  BY SheetIs DEF Streams
<1>2. S \in SUBSET (a .. n)
  BY DEF Starting
<1>3. ASSUME NEW j \in S, NEW k \in a .. j PROVE k \in S
  <2>1. j \in a .. n /\ \A l \in a .. j : sheet[i][l].start = curTime
    BY DEF Starting
  <2>2. k \in a .. n /\ \A l \in a .. k : sheet[i][l].start = curTime
    BY <1>1, <2>1
  <2> QED
    BY <2>2 DEF Starting
<1>4. \A j \in S : sheet[i][j].start = curTime
  <2> SUFFICES ASSUME NEW j \in S PROVE sheet[i][j].start = curTime
    OBVIOUS
  <2>1. j \in a .. n /\ \A l \in a .. j : sheet[i][l].start = curTime
    BY DEF Starting
  <2> QED
    BY <1>1, <2>1
<1> HIDE DEF S
<1>5. /\ Cardinality(S) \in Nat
      /\ S = a .. a + Cardinality(S) - 1
      /\ S # {} => a + Cardinality(S) - 1 <= n /\ Cardinality(S) > 0
  <2>1. a \in Nat
    BY <1>1
  <2> HIDE DEF a, n
  <2> QED
    BY <1>1, <1>2, <1>3, <2>1, RunIs
<1>6. a + Cardinality(S) <= n + 1
  <2>1. CASE S = {}
    <3>1. Cardinality(S) = 0
      BY <2>1, FS_EmptySet
    <3> QED
      BY <1>1, <3>1
  <2>2. CASE S # {}
    BY <1>1, <1>5, <2>2
  <2> QED
    BY <2>1, <2>2
<1>7. S \subseteq 1 .. n
  BY <1>1, <1>2
<1>8. a + Cardinality(S) \in Nat \ {0}
  BY <1>1, <1>5
<1> QED
  BY <1>4, <1>5, <1>6, <1>7, <1>8 DEF S

\* The elements that start now, in all the voices, and those of them that play.
Started == UNION {{<<i, j>> : j \in Starting(i)} : i \in Voices}

StartedNotes == {p \in Started : Playable(At(p))}

LEMMA StartedIs ==
  ASSUME sheet \in Sheets, curTime \in Nat, Streams
  PROVE  /\ \A p : p \in Started <=> p \in Positions /\ p[2] \in Starting(p[1])
         /\ Started \subseteq Positions
         /\ \A p \in Started : At(p).start = curTime
         /\ StartedNotes \in SUBSET Positions
         /\ StartedNotes \in SUBSET (Nat \X Nat)
         /\ IsFiniteSet(StartedNotes)
<1>1. ASSUME NEW p \in Started
      PROVE  p \in Positions /\ p[2] \in Starting(p[1]) /\ At(p).start = curTime
  <2>1. PICK i \in Voices : \E j \in Starting(i) : p = <<i, j>>
    BY DEF Started
  <2>2. PICK j \in Starting(i) : p = <<i, j>>
    BY <2>1
  <2>3. j \in 1 .. Len(sheet[i]) /\ sheet[i][j].start = curTime
    BY StartingIs
  <2>4. i \in Nat /\ j \in Nat
    BY <2>3, SheetIs
  <2>5. p \in Positions
    BY <2>2, <2>3, <2>4, PositionsAre
  <2> QED
    BY <2>2, <2>3, <2>5 DEF At
<1>2. ASSUME NEW p \in Positions, p[2] \in Starting(p[1])
      PROVE  p \in Started
  <2>1. p[1] \in Voices /\ p = <<p[1], p[2]>>
    BY PositionsAre
  <2> QED
    BY <1>2, <2>1 DEF Started
<1>3. StartedNotes \in SUBSET Positions
  BY <1>1 DEF StartedNotes
<1>4. Positions \subseteq Nat \X Nat /\ IsFiniteSet(Positions)
  BY PositionsAre
<1>5. IsFiniteSet(StartedNotes)
  BY <1>3, <1>4, FS_Subset
<1> QED
  BY <1>1, <1>2, <1>3, <1>4, <1>5

\* What turning on does to the list and to the time.
TurnsOn ==
  /\ curPlaying' \in Seq(Positions)
  /\ Range(curPlaying') = Range(curPlaying) \cup StartedNotes
  /\ \/ /\ Started = {} /\ curPlaying = << >> /\ curPlaying' = << >>
        /\ stop' = TRUE /\ curTime' = curTime /\ elapsed' = elapsed
     \/ /\ stop' = stop
        /\ curTime' \in Nat /\ curTime' >= curTime
        /\ elapsed' \in Nat /\ elapsed' - elapsed = curTime' - curTime
        /\ \A p \in Started \cup Range(curPlaying) : At(p).end >= curTime'
        /\ \E p \in Started \cup Range(curPlaying) : At(p).end = curTime'

LEMMA TurnsOnIs == ASSUME SheetInv, TurnOn PROVE TurnsOn
<1> DEFINE new == Listed(StartedNotes)
           playing == curPlaying \o new
           all == Started \cup Range(playing)
           lengths == {At(p).end - curTime : p \in all}
<1>1. /\ thread = "on" /\ curPlaying' = playing
      /\ IF lengths = {}
         THEN stop' = TRUE /\ UNCHANGED <<curTime, elapsed>>
         ELSE /\ curTime' = curTime + Min(lengths)
              /\ elapsed' = elapsed + Min(lengths)
              /\ UNCHANGED stop
  BY DEF TurnOn, Started, StartedNotes, Listed
<1>2. sheet \in Sheets /\ curTime \in Nat /\ elapsed \in Nat /\ Streams
  BY <1>1 DEF SheetInv, Values, StreamsOK, Present
<1>3. new \in Seq(StartedNotes) /\ Range(new) = StartedNotes
  <2>1. StartedNotes \in SUBSET (Nat \X Nat) /\ IsFiniteSet(StartedNotes)
    BY <1>2, StartedIs
  <2> QED
    BY <2>1, PositionsSorted
<1> HIDE DEF new
<1>4. curPlaying \in Seq(Positions) /\ new \in Seq(Positions)
  BY <1>2, <1>3, StartedIs DEF SheetInv, ListsOK
<1>5. playing \in Seq(Positions) /\ Range(playing) = Range(curPlaying) \cup StartedNotes
  BY <1>3, <1>4, Joined
<1>6. all = Started \cup Range(curPlaying)
  BY <1>5 DEF StartedNotes
<1> HIDE DEF playing, all
<1>7. ASSUME NEW p \in all PROVE At(p).end \in Nat /\ At(p).end - curTime \in Nat
  <2>1. p \in Positions
    <3>1. Started \subseteq Positions /\ Range(curPlaying) \subseteq Positions
      BY <1>2, <1>4, StartedIs DEF Range
    <3> QED
      BY <1>6, <3>1
  <2>2. At(p).start \in Nat /\ At(p).end \in Nat /\ At(p).start <= At(p).end
    BY <1>2, <2>1, PositionsAre, SheetIs DEF At
  <2>3. At(p).end >= curTime
    <3>1. CASE p \in Started
      BY <1>2, <2>2, <3>1, StartedIs
    <3>2. CASE p \in Range(curPlaying)
      <4>1. PICK k \in 1 .. Len(curPlaying) : p = curPlaying[k]
        BY <1>4, <3>2 DEF Range
      <4>2. At(p).end > curTime
        BY <1>1, <4>1 DEF SheetInv, NoneOver
      <4> QED
        BY <1>2, <2>2, <4>2
    <3> QED
      BY <1>6, <3>1, <3>2
  <2> QED
    BY <1>2, <2>2, <2>3
<1>8. CASE lengths = {}
  <2>1. all = {}
    BY <1>8
  <2>2. Started = {} /\ Range(curPlaying) = {} /\ Range(playing) = {}
    BY <1>5, <1>6, <2>1 DEF StartedNotes
  <2>3. \A s \in Seq(Positions) : Range(s) = {} => s = << >>
    <3> SUFFICES ASSUME NEW s \in Seq(Positions), s # << >> PROVE Range(s) # {}
      OBVIOUS
    <3>1. s[1] \in Range(s)
      BY DEF Range
    <3> QED
      BY <3>1
  <2>4. curPlaying = << >> /\ playing = << >>
    BY <1>4, <1>5, <2>2, <2>3
  <2> QED
    BY <1>1, <1>5, <1>8, <2>2, <2>4 DEF TurnsOn
<1>9. CASE lengths # {}
  <2>1. lengths \in SUBSET Nat
    BY <1>7
  <2> DEFINE m == Min(lengths)
  <2>2. m \in lengths /\ \A k \in lengths : m <= k
    BY <1>9, <2>1, MinIs
  <2>3. PICK p \in all : m = At(p).end - curTime
    BY <2>2
  <2>5. \A q \in all : m <= At(q).end - curTime
    BY <2>2
  <2>6. curTime' = curTime + m /\ elapsed' = elapsed + m /\ stop' = stop /\ m \in Nat
    BY <1>1, <1>9, <2>1, <2>2
  <2> HIDE DEF m, lengths
  <2>4. curTime' \in Nat /\ curTime' >= curTime /\ At(p).end = curTime'
        /\ elapsed' \in Nat /\ elapsed' - elapsed = curTime' - curTime
    BY <1>2, <1>7, <2>3, <2>6
  <2>7. \A q \in all : At(q).end >= curTime'
    BY <1>2, <1>7, <2>5, <2>6
  <2> QED
    BY <1>1, <1>5, <1>6, <2>3, <2>4, <2>6, <2>7 DEF TurnsOn
<1> QED
  BY <1>8, <1>9

\* What is played of a voice in one step: the starting elements that play.
LEMMA InOrderIs ==
  ASSUME sheet \in Sheets, NEW i, NEW S \in SUBSET (1 .. Len(sheet[i])), i \in Voices
  PROVE  LET T == {j \in S : Playable(sheet[i][j])}
         IN /\ InOrder(i, S) = Ascending(T)
            /\ T \in SUBSET Nat /\ IsFiniteSet(T)
            /\ InOrder(i, S) \in Seq(Nat)
<1> DEFINE T == {j \in S : Playable(sheet[i][j])}
<1>1. Len(sheet[i]) \in Nat
  BY SheetIs
<1>2. InOrder(i, S) = Ascending(T)
  BY DEF InOrder, Ascending
<1>3. T \in SUBSET (1 .. Len(sheet[i])) /\ T \in SUBSET Nat
  <2>1. T \in SUBSET (1 .. Len(sheet[i]))
    OBVIOUS
  <2> HIDE DEF T
  <2>2. \A k \in 1 .. Len(sheet[i]) : k \in Nat
    BY <1>1
  <2> QED
    BY <2>1, <2>2
<1> HIDE DEF T
<1>4. IsFiniteSet(T)
  <2>1. IsFiniteSet(1 .. Len(sheet[i]))
    BY <1>1, FS_Interval
  <2> QED
    BY <1>3, <2>1, FS_Subset
<1>5. Cardinality(T) \in Nat /\ Ascending(T) \in [1 .. Cardinality(T) -> Nat]
  <2>1. Cardinality(T) \in Nat /\ Ascending(T) \in [1 .. Cardinality(T) -> T]
    BY <1>3, <1>4, NumbersSorted
  <2> QED
    BY <1>3, <2>1
<1>6. Ascending(T) \in Seq(Nat)
  BY <1>5, IsSequence
<1> QED
  BY <1>2, <1>3, <1>4, <1>6 DEF T

LEMMA TurnOnInvariant == ASSUME SheetInv, TurnOn PROVE SheetInv'
<1> USE DEF windowVars
<1>1. /\ UNCHANGED <<sheet, initTime, lastRepeatOpenIdx, repeating, next, asked, deleted>>
      /\ thread = "on" /\ thread' = "test"
      /\ export' = Sent(curTime) \/ export' = export
      /\ performed' = [i \in Voices |-> performed[i] \o InOrder(i, Starting(i))]
      /\ streamIdx' = [i \in Voices |-> streamIdx[i] + Cardinality(Starting(i))]
  BY DEF TurnOn
<1>2. sheet \in Sheets /\ curTime \in Nat /\ elapsed \in Nat /\ Streams
  BY <1>1 DEF SheetInv, Values, StreamsOK, Present
<1>3. TurnsOn
  BY TurnsOnIs
<1>4. /\ Voices' = Voices /\ Positions' = Positions
      /\ \A i, o, j : OpenOrNone(i, o, j)' = OpenOrNone(i, o, j)
  BY <1>1, SameSheet
<1>5. Values'
  <2>1. curTime' \in Nat /\ elapsed' \in Nat
    BY <1>2, <1>3 DEF TurnsOn
  <2> QED
    BY <1>1, <2>1, SentIs DEF SheetInv, Values, Running
<1>6. ListsOK'
  <2>1. performed' \in [Voices -> Seq(Nat)]
    <3> SUFFICES ASSUME NEW i \in Voices
                 PROVE  performed[i] \o InOrder(i, Starting(i)) \in Seq(Nat)
      BY <1>1
    <3>1. performed[i] \in Seq(Nat)
      BY DEF SheetInv, ListsOK
    <3>2. Starting(i) \in SUBSET (1 .. Len(sheet[i]))
      BY <1>2, StartingIs
    <3>3. InOrder(i, Starting(i)) \in Seq(Nat)
      BY <1>2, <3>2, InOrderIs
    <3> QED
      BY <3>1, <3>3
  <2>2. sounding' \subseteq Voices \X Nat
    <3>1. ASSUME NEW p \in Started PROVE <<p[1], At(p).pitch>> \in Voices \X Nat
      <4>1. p \in Positions
        BY <1>2, StartedIs
      <4> QED
        BY <1>2, <4>1, PositionsAre, SheetIs DEF At
    <3>2. sounding' \subseteq sounding \cup {<<p[1], At(p).pitch>> : p \in Started}
      BY DEF TurnOn, Started
    <3> QED
      BY <3>1, <3>2 DEF SheetInv, ListsOK
  <2>3. curPlaying' \in Seq(Positions)
    BY <1>3 DEF TurnsOn
  <2> QED
    BY <1>1, <1>4, <2>1, <2>2, <2>3 DEF SheetInv, ListsOK
<1>7. Streams'
  <2>1. \A i \in Voices : /\ Len(sheet[i]) \in Nat /\ streamIdx[i] \in Nat \ {0}
                          /\ lastRepeatOpenIdx[i] \in Nat
                          /\ OpenOrNone(i, lastRepeatOpenIdx[i], streamIdx[i])
    BY <1>2, SheetIs DEF Streams
  <2>2. \A i \in Voices :
          /\ Cardinality(Starting(i)) \in Nat
          /\ streamIdx[i] + Cardinality(Starting(i)) \in Nat \ {0}
          /\ streamIdx[i] + Cardinality(Starting(i)) <= Len(sheet[i]) + 1
    BY <1>2, StartingIs
  <2>3. ASSUME NEW i \in Voices
        PROVE  OpenOrNone(i, lastRepeatOpenIdx[i], streamIdx'[i])
    <3>1. streamIdx'[i] = streamIdx[i] + Cardinality(Starting(i))
      BY <1>1
    <3>2. lastRepeatOpenIdx[i] \in 0 .. streamIdx'[i]
      BY <2>1, <2>2, <3>1 DEF OpenOrNone
    <3> QED
      BY <2>1, <3>2 DEF OpenOrNone
  <2>4. \A i \in Voices : OpenOrNone(i, lastRepeatOpenIdx[i], streamIdx[i])'
          <=> OpenOrNone(i, lastRepeatOpenIdx'[i], streamIdx'[i])
    BY <1>1 DEF OpenOrNone
  <2>5. streamIdx' \in [Voices -> Nat \ {0}]
    BY <1>1, <2>2
  <2> QED
    BY <1>1, <1>2, <1>4, <2>2, <2>3, <2>4, <2>5 DEF Streams
<1>8. NoneOver'
  BY <1>1, <1>4 DEF SheetInv, NoneOver
<1>9. Present'
  BY <1>1 DEF Present
<1> QED
  BY <1>5, <1>6, <1>7, <1>8, <1>9 DEF SheetInv, StreamsOK

\* Every step keeps the invariant.
LEMMA SheetStep == SheetInv /\ Next => SheetInv'
<1> SUFFICES ASSUME SheetInv, Next PROVE SheetInv'
  OBVIOUS
<1>1. CASE Thread
  BY <1>1, BeginInvariant, ThreadGoesOn, TurnOffInvariant, SeekOnInvariant,
     SeekBackInvariant, TurnOnInvariant DEF Thread
<1>2. CASE Window
  BY <1>2, NewPlayback, WindowMoves DEF Window
<1> QED
  BY <1>1, <1>2 DEF Next

LEMMA FlagsStep == Flags /\ Next => Flags'
<1> SUFFICES ASSUME Flags, Next PROVE Flags'
  OBVIOUS
<1>1. stop' \in BOOLEAN
  <2>1. stop' = stop \/ stop' = TRUE \/ stop' = FALSE \/ stop' = (sheet = << >>)
    BY DEF Next, Thread, Window, Begin, Test, TurnOff, LeaveOn, AllLookedAt, SeekOn, SeekBack,
           SoughtAll, Check, TurnOn, Play, Stop, StopNow, InsertNote, PlaybackFinished,
           FinishedLate, DeleteElement, CloseDocument, InitPlayback
  <2> QED
    BY <2>1 DEF Flags
<1>2. (stopLock' = stopLock \/ stopLock' = TRUE \/ stopLock' = FALSE)
      /\ (posted' = posted \/ posted' = TRUE \/ posted' = FALSE)
  BY DEF Next, Thread, Window, Begin, Test, TurnOff, LeaveOn, AllLookedAt, SeekOn, SeekBack,
         SoughtAll, Check, TurnOn, Play, Stop, StopNow, InsertNote, PlaybackFinished,
         FinishedLate, DeleteElement, CloseDocument, InitPlayback, windowVars
<1>3. stopLock' \in BOOLEAN /\ posted' \in BOOLEAN
  BY <1>2 DEF Flags
<1> QED
  BY <1>1, <1>3 DEF Flags

-----------------------------------------------------------------------------
(* What sounds is playing, and what was deleted is behind.                 *)

\* The note p is what makes n sound.
Makes(p, n) == p[1] = n[1] /\ At(p).pitch = n[2] /\ At(p).kind = "note"

SoundingInv ==
  \A n \in sounding : InTie(n) \/ \E p \in Range(curPlaying) : Makes(p, n)

LEMMA SoundingImplies == SoundingInv => SoundingIsPlaying
BY DEF SoundingInv, SoundingIsPlaying, Makes

\* A step that turns nothing on or off.
LEMMA SoundingStays ==
  ASSUME SoundingInv, UNCHANGED <<sheet, curPlaying, sounding>>
  PROVE  SoundingInv'
BY DEF SoundingInv, Makes, InTie, At

LEMMA SoundingStep == SheetInv /\ SoundingInv /\ Next => SoundingInv'
<1> SUFFICES ASSUME SheetInv, SoundingInv, Next PROVE SoundingInv'
  OBVIOUS
<1>1. CASE Begin \/ Test \/ LeaveOn \/ AllLookedAt \/ SeekOn \/ SeekBack \/ SoughtAll \/ Check
           \/ Stop \/ StopNow \/ InsertNote \/ FinishedLate \/ CloseDocument
           \/ \E p \in Positions : DeleteElement(p)
  <2>1. UNCHANGED <<sheet, curPlaying, sounding>>
    BY <1>1 DEF Begin, InitStreams, Test, LeaveOn, AllLookedAt, SeekOn, SeekBack, SoughtAll,
                Check, Stop, StopNow, InsertNote, FinishedLate, CloseDocument, DeleteElement,
                threadVars, windowVars
  <2> QED
    BY <2>1, SoundingStays
<1>2. CASE (\E t \in InitTimes : Play(t)) \/ PlaybackFinished
  BY <1>2 DEF Play, PlaybackFinished, InitPlayback, SoundingInv
<1>3. CASE TurnOff
  <2> DEFINE q == curPlaying[next]
  <2>1. /\ curPlaying' = RemoveAt(curPlaying, next) /\ sheet' = sheet
        /\ sounding' = sounding \ NoteOff(q)
    BY <1>3 DEF TurnOff, windowVars
  <2>2. curPlaying \in Seq(Positions) /\ next \in 1 .. Len(curPlaying) /\ q \in Positions
    BY <1>3 DEF TurnOff, SheetInv, ListsOK, Values
  <2>3. \A x \in Range(curPlaying) : x # q => x \in Range(curPlaying')
    BY <2>1, <2>2, LeftOver
  <2>4. q[1] \in Voices /\ q[2] \in 1 .. Len(sheet[q[1]]) /\ DOMAIN sheet[q[1]] = 1 .. Len(sheet[q[1]])
    BY <2>2, PositionsAre, SheetIs DEF SheetInv, Values
  <2> HIDE DEF q
  <2>5. ASSUME NEW n \in sounding'
        PROVE  InTie(n) \/ \E p \in Range(curPlaying') : Makes(p, n)
    <3>1. n \in sounding /\ n \notin NoteOff(q) /\ n = <<n[1], n[2]>>
      BY <2>1 DEF SheetInv, ListsOK
    <3>2. CASE InTie(n)
      BY <3>2
    <3>3. CASE \E p \in Range(curPlaying) : Makes(p, n)
      <4>1. PICK p \in Range(curPlaying) : Makes(p, n)
        BY <3>3
      <4>2. CASE p = q
        <5>1. At(q).tied
          BY <3>1, <4>1, <4>2 DEF Makes, NoteOff
        <5>2. InTie(n)
          BY <2>4, <4>1, <4>2, <5>1 DEF Makes, InTie, At
        <5> QED
          BY <5>2
      <4> QED
        BY <2>3, <4>1, <4>2
    <3> QED
      BY <3>1, <3>2, <3>3 DEF SoundingInv
  <2>6. \A n, p : (InTie(n)' <=> InTie(n)) /\ (Makes(p, n)' <=> Makes(p, n))
    BY <2>1 DEF InTie, Makes, At
  <2> QED
    BY <2>5, <2>6 DEF SoundingInv
<1>4. CASE TurnOn
  <2>1. /\ sheet' = sheet
        /\ sounding' = sounding \cup
             {<<p[1], At(p).pitch>> : p \in {q \in Started : At(q).kind = "note" /\ ~At(q).held}}
    BY <1>4 DEF TurnOn, Started, windowVars
  <2>2. Range(curPlaying') = Range(curPlaying) \cup StartedNotes
    BY <1>4, TurnsOnIs DEF TurnsOn
  <2>3. ASSUME NEW n \in sounding'
        PROVE  InTie(n) \/ \E p \in Range(curPlaying') : Makes(p, n)
    <3>1. CASE n \in sounding
      BY <2>2, <3>1 DEF SoundingInv
    <3>2. CASE n \notin sounding
      <4>1. PICK p \in Started : n = <<p[1], At(p).pitch>> /\ At(p).kind = "note"
        BY <2>1, <3>2
      <4>2. p \in StartedNotes /\ Makes(p, n)
        BY <4>1 DEF StartedNotes, Playable, Makes
      <4> QED
        BY <2>2, <4>2
    <3> QED
      BY <3>1, <3>2
  <2>4. \A n, p : (InTie(n)' <=> InTie(n)) /\ (Makes(p, n)' <=> Makes(p, n))
    BY <2>1 DEF InTie, Makes, At
  <2> QED
    BY <2>3, <2>4 DEF SoundingInv
<1> QED
  BY <1>1, <1>2, <1>3, <1>4 DEF Next, Thread, Window

\* The walk only goes on, but for the jump.
LEMMA StreamsGoOn ==
  ASSUME SheetInv, SeekOn \/ TurnOn
  PROVE  \A i \in Voices : /\ streamIdx[i] \in Nat \ {0} /\ streamIdx'[i] \in Nat \ {0}
                           /\ streamIdx[i] <= streamIdx'[i]
                           /\ Len(sheet[i]) \in Nat
<1>1. sheet \in Sheets /\ curTime \in Nat /\ Streams /\ next \in Nat
  BY DEF SheetInv, Values, StreamsOK, Present, SeekOn, TurnOn
<1>2. \A i \in Voices : /\ Len(sheet[i]) \in Nat /\ streamIdx[i] \in Nat \ {0}
                        /\ streamIdx[i] <= Len(sheet[i]) + 1
                        /\ OpenOrNone(i, lastRepeatOpenIdx[i], streamIdx[i])
  BY <1>1, SheetIs DEF Streams
<1>3. CASE SeekOn
  <2> DEFINE S == Passed(next, streamIdx[next], curTime)
  <2>1. /\ next \in Voices
        /\ streamIdx' = [streamIdx EXCEPT ![next] = SeekFrom(next, streamIdx[next], S)]
    BY <1>3 DEF SeekOn
  <2>2. streamIdx[next] \in 1 .. Len(sheet[next]) + 1 /\ streamIdx[next] <= streamIdx[next]
    BY <1>2, <2>1
  <2>3. WalksOn(next, streamIdx[next], streamIdx[next], curTime, lastRepeatOpenIdx[next])
    BY <1>1, <1>2, <2>1, <2>2, SeekFromIs
  <2>4. SeekFrom(next, streamIdx[next], S) \in streamIdx[next] .. Len(sheet[next]) + 1
    BY <2>3 DEF WalksOn
  <2> HIDE DEF S
  <2>5. /\ SeekFrom(next, streamIdx[next], S) \in Nat \ {0}
        /\ streamIdx[next] <= SeekFrom(next, streamIdx[next], S)
    BY <1>2, <2>1, <2>4
  <2> QED
    BY <1>1, <1>2, <2>1, <2>5 DEF Streams
<1>4. CASE TurnOn
  <2>1. streamIdx' = [i \in Voices |-> streamIdx[i] + Cardinality(Starting(i))]
    BY <1>4 DEF TurnOn
  <2>2. \A i \in Voices : /\ Cardinality(Starting(i)) \in Nat
                          /\ streamIdx[i] + Cardinality(Starting(i)) \in Nat \ {0}
    BY <1>1, StartingIs
  <2> QED
    BY <1>2, <2>1, <2>2
<1> QED
  BY <1>3, <1>4

\* What was deleted is behind the walk, and no repeat will come back to it.
DeletedInv ==
  /\ ~Present => deleted = {}
  /\ \A p \in deleted :
       /\ p \notin Range(curPlaying)
       /\ p[2] < streamIdx[p[1]]
       /\ ~repeating => \A i \in Voices :
            OfKind(i, streamIdx[i] .. Len(sheet[i]), "repeatClose") = {}

LEMMA DeletedImplies == DeletedInv => NothingDeletedAhead
BY DEF DeletedInv, NothingDeletedAhead

LEMMA DeletedStep == ~EditAhead /\ SheetInv /\ DeletedInv /\ Next => DeletedInv'
<1> SUFFICES ASSUME ~EditAhead, SheetInv, DeletedInv, Next PROVE DeletedInv'
  OBVIOUS
<1>0. \A p \in Positions : p \in Nat \X Nat /\ p[1] \in Voices /\ p[2] \in Nat
  <2>1. sheet \in Sheets
    BY DEF SheetInv, Values
  <2> QED
    BY <2>1, PositionsAre
<1>1. CASE Begin
  <2>1. CASE streamIdx = << >>
    <3>1. ~Present /\ deleted' = deleted
      BY <1>1, <2>1 DEF Begin, Present, windowVars
    <3> QED
      BY <1>1, <3>1 DEF DeletedInv, Begin, Present
  <2>2. CASE streamIdx # << >>
    <3>1. UNCHANGED <<sheet, curPlaying, streamIdx, repeating, deleted>> /\ Present'
      BY <1>1, <2>2 DEF Begin, Present, threadVars, windowVars
    <3> QED
      BY <3>1 DEF DeletedInv, OfKind, Voices
  <2> QED
    BY <2>1, <2>2
<1>2. CASE Test \/ LeaveOn \/ AllLookedAt \/ SoughtAll \/ Check \/ Stop \/ StopNow \/ FinishedLate
  <2>1. UNCHANGED <<sheet, curPlaying, streamIdx, repeating, deleted>> /\ (Present' <=> Present)
    BY <1>2 DEF Test, LeaveOn, AllLookedAt, SoughtAll, Check, Stop, StopNow, FinishedLate,
                Present, threadVars, windowVars, Running
  <2> QED
    BY <2>1 DEF DeletedInv, OfKind, Voices
<1>3. CASE InsertNote
  <2>1. UNCHANGED <<sheet, curPlaying, streamIdx, repeating, deleted>> /\ thread = "finished"
    BY <1>3 DEF InsertNote, threadVars, windowVars
  <2>2. ASSUME ~Present' PROVE deleted' = {}
    <3>1. streamIdx = << >> /\ Streams
      BY <2>1, <2>2 DEF Present, SheetInv, StreamsOK
    <3>2. Voices = {}
      BY <3>1, SheetIs DEF Streams, SheetInv, Values
    <3>3. Positions = {}
      BY <3>2 DEF Positions
    <3> QED
      BY <2>1, <3>3 DEF SheetInv, ListsOK
  <2> QED
    BY <2>1, <2>2 DEF DeletedInv, OfKind, Voices
<1>4. CASE (\E t \in InitTimes : Play(t)) \/ PlaybackFinished
  BY <1>4 DEF Play, PlaybackFinished, InitPlayback, DeletedInv
<1>5. CASE CloseDocument \/ \E p \in Positions : DeleteElement(p)
  <2>1. UNCHANGED <<sheet, curPlaying, streamIdx, repeating, thread>>
        /\ thread \in Running \cup {"finished"}
    BY <1>5 DEF CloseDocument, DeleteElement, threadVars
  <2>2. \A p \in deleted' : Behind(p)
    BY <1>5 DEF CloseDocument, DeleteElement
  <2>3. ASSUME ~Present' PROVE deleted' = {}
    <3>1. thread = "begin"
      BY <2>1, <2>3 DEF Present, Running
    <3> QED
      BY <2>2, <3>1 DEF Behind
  <2> QED
    BY <2>1, <2>2, <2>3 DEF DeletedInv, Behind, OfKind, Voices
<1>6. CASE TurnOff
  <2>1. /\ curPlaying \in Seq(Positions) /\ next \in 1 .. Len(curPlaying)
        /\ curPlaying' = RemoveAt(curPlaying, next) /\ thread' = "off"
        /\ UNCHANGED <<sheet, streamIdx, repeating, deleted>>
    BY <1>6 DEF TurnOff, SheetInv, ListsOK, Values, windowVars
  <2>2. Range(curPlaying') \subseteq Range(curPlaying)
    BY <2>1, LeftOver
  <2> QED
    BY <2>1, <2>2 DEF DeletedInv, OfKind, Voices, Present
<1>7. CASE SeekOn \/ TurnOn
  <2>1. UNCHANGED <<sheet, repeating, deleted>> /\ Present'
    BY <1>7 DEF SeekOn, TurnOn, windowVars, Present
  <2>2. \A i \in Voices : /\ streamIdx[i] \in Nat \ {0} /\ streamIdx'[i] \in Nat \ {0}
                          /\ streamIdx[i] <= streamIdx'[i] /\ Len(sheet[i]) \in Nat
    BY <1>7, StreamsGoOn
  <2>3. ASSUME NEW p \in deleted
        PROVE  p \notin Range(curPlaying') /\ p[2] < streamIdx'[p[1]]
    <3>1. /\ p \in Positions /\ p \notin Range(curPlaying) /\ p[2] < streamIdx[p[1]]
          /\ p[1] \in Voices /\ p[2] \in Nat
      BY <1>0 DEF SheetInv, ListsOK, DeletedInv
    <3>2. p[2] < streamIdx'[p[1]]
      BY <2>2, <3>1
    <3>3. p \notin Range(curPlaying')
      <4>1. CASE SeekOn
        BY <3>1, <4>1 DEF SeekOn
      <4>2. CASE TurnOn
        <5>1. Range(curPlaying') = Range(curPlaying) \cup StartedNotes
          BY <4>2, TurnsOnIs DEF TurnsOn
        <5>2. sheet \in Sheets /\ curTime \in Nat /\ Streams
          BY <4>2 DEF SheetInv, Values, StreamsOK, Present, TurnOn
        <5>3. p \in Started => p[2] \in Starting(p[1])
          BY <5>2, StartedIs
        <5>4. p[2] \notin Starting(p[1])
          BY <2>2, <3>1 DEF Starting
        <5> QED
          BY <3>1, <5>1, <5>3, <5>4 DEF StartedNotes
      <4> QED
        BY <1>7, <4>1, <4>2
    <3> QED
      BY <3>2, <3>3
  <2>4. ASSUME NEW i \in Voices, OfKind(i, streamIdx[i] .. Len(sheet[i]), "repeatClose") = {}
        PROVE  OfKind(i, streamIdx'[i] .. Len(sheet[i]), "repeatClose") = {}
    <3>1. streamIdx'[i] .. Len(sheet[i]) \subseteq streamIdx[i] .. Len(sheet[i])
      BY <2>2
    <3> QED
      BY <2>4, <3>1 DEF OfKind
  <2> QED
    BY <2>1, <2>3, <2>4 DEF DeletedInv, OfKind, Voices
<1>8. CASE SeekBack
  <2>1. JumpsFrom(next) /\ thread = "seek"
    BY <1>8, BackIs DEF SeekBack
  <2>2. /\ next \in Voices /\ Closes(next) # {} /\ ~repeating /\ deleted' = deleted
        /\ thread' = thread
    BY <2>1 DEF JumpsFrom
  <2>3. Closes(next) \subseteq OfKind(next, streamIdx[next] .. Len(sheet[next]), "repeatClose")
    BY DEF Closes, OfKind, Passed
  <2>4. deleted = {}
    BY <2>2, <2>3 DEF DeletedInv
  <2> QED
    BY <2>1, <2>2, <2>4 DEF DeletedInv
<1> QED
  BY <1>1, <1>2, <1>3, <1>4, <1>5, <1>6, <1>7, <1>8 DEF Next, Thread, Window

-----------------------------------------------------------------------------
(* Voices without gaps.                                                    *)

\* Of two elements of a voice the second begins when the first has ended, or
\* they are notes of a chord.
LEMMA Apart ==
  ASSUME sheet \in Sheets, NEW i \in Voices, NoGaps(sheet[i]),
         NEW j \in 1 .. Len(sheet[i]), NEW k \in 1 .. Len(sheet[i]), j < k
  PROVE  sheet[i][j].end <= sheet[i][k].start \/ Mates(sheet[i][j], sheet[i][k])
<1> DEFINE v == sheet[i]
           Fits(m) == v[j].end <= v[m].start \/ Mates(v[j], v[m])
           Bad == {m \in j + 1 .. Len(v) : ~Fits(m)}
<1>1. Len(v) \in Nat /\ DOMAIN v = 1 .. Len(v)
  BY SheetIs
<1>2. \A m \in 1 .. Len(v) : /\ v[m].start \in Nat /\ v[m].end \in Nat /\ v[m].start <= v[m].end
                            /\ \A l \in 1 .. m : v[l].start <= v[m].start
  BY SheetIs
<1>3. \A m \in 1 .. Len(v) - 1 : v[m + 1].start = v[m].end \/ Mates(v[m], v[m + 1])
  BY DEF NoGaps
<1> HIDE DEF v
<1> SUFFICES ASSUME Bad # {} PROVE FALSE
  <2>1. k \in j + 1 .. Len(v)
    BY <1>1 DEF v
  <2> QED
    BY <2>1 DEF v
<1>4. Bad \in SUBSET Nat
  BY <1>1
<1>5. PICK m \in Bad : \A l \in Bad : m <= l
  <2> HIDE DEF Bad
  <2> QED
    BY <1>4, Least
<1>6. m \in j + 1 .. Len(v) /\ ~Fits(m)
  OBVIOUS
<1>7. /\ m \in 1 .. Len(v) /\ m - 1 \in 1 .. Len(v) - 1 /\ m - 1 \in 1 .. Len(v)
      /\ (m - 1) + 1 = m /\ j <= m - 1 /\ m - 1 \in 1 .. m
  BY <1>1, <1>6 DEF v
<1>8. j = m - 1 \/ Fits(m - 1)
  <2>1. j = m - 1 \/ m - 1 \in j + 1 .. Len(v)
    BY <1>1, <1>7 DEF v
  <2>2. m - 1 \notin Bad
    <3>1. ~(m <= m - 1)
      BY <1>6
    <3> HIDE DEF Bad
    <3> QED
      BY <1>5, <3>1
  <2> QED
    BY <2>1, <2>2
<1>9. v[m].start = v[m - 1].end \/ Mates(v[m - 1], v[m])
  BY <1>3, <1>7
<1>10. /\ v[m - 1].start \in Nat /\ v[m - 1].end \in Nat /\ v[m - 1].start <= v[m - 1].end
       /\ v[m].start \in Nat /\ v[j].end \in Nat /\ v[m - 1].start <= v[m].start
  BY <1>2, <1>7 DEF v
<1> HIDE DEF Bad
<1>11. CASE j = m - 1
  BY <1>6, <1>9, <1>10, <1>11
<1>12. CASE v[j].end <= v[m - 1].start
  BY <1>6, <1>10, <1>12
<1>13. CASE Mates(v[j], v[m - 1])
  <2>1. CASE Mates(v[m - 1], v[m])
    BY <1>6, <1>13, <2>1 DEF Mates
  <2>2. CASE v[m].start = v[m - 1].end
    BY <1>6, <1>10, <1>13, <2>2 DEF Mates
  <2> QED
    BY <1>9, <2>1, <2>2
<1> QED
  BY <1>8, <1>11, <1>12, <1>13

\* What stands at the same time before an element that is no other note of a
\* chord does not play.
LEMMA QuietBefore ==
  ASSUME sheet \in Sheets, NEW i \in Voices, NoGaps(sheet[i]),
         NEW j \in 1 .. Len(sheet[i]), NEW m \in 1 .. Len(sheet[i]), j < m,
         sheet[i][j].start = sheet[i][m].start,
         sheet[i][m].kind = "note" => FirstInChord(i, m)
  PROVE  ~Playable(sheet[i][j])
<1> DEFINE v == sheet[i]
<1>1. Len(v) \in Nat /\ DOMAIN v = 1 .. Len(v)
  BY SheetIs
<1>2. \A l \in 1 .. Len(v) : /\ v[l].start \in Nat /\ v[l].end \in Nat /\ v[l].start <= v[l].end
                            /\ \A x \in 1 .. l : v[x].start <= v[l].start
  BY SheetIs
<1>3. Playable(v[j]) <=> v[j].start < v[j].end
  BY <1>1 DEF NoGaps
<1> SUFFICES ASSUME v[j].start < v[j].end PROVE FALSE
  BY <1>3
<1>4. /\ m - 1 \in 1 .. Len(v) /\ m - 1 \in 1 .. m /\ j \in 1 .. m - 1 /\ m > 1
      /\ (j = m - 1 \/ j < m - 1)
  BY <1>1
<1>5. v[m - 1].start = v[j].start
  <2>1. v[j].start <= v[m - 1].start /\ v[m - 1].start <= v[m].start
    BY <1>2, <1>4
  <2> QED
    BY <1>2, <1>4, <2>1
<1>6. Mates(v[j], v[m])
  <2>1. v[j].end <= v[m].start \/ Mates(v[j], v[m])
    BY Apart
  <2>2. v[j].end \in Nat /\ v[j].start \in Nat /\ v[m].start = v[j].start
    BY <1>2
  <2> QED
    BY <2>1, <2>2
<1>7. v[m - 1].kind = "note"
  <2>1. CASE j = m - 1
    BY <1>6, <2>1 DEF Mates
  <2>2. CASE j < m - 1
    <3>1. v[j].end <= v[m - 1].start \/ Mates(v[j], v[m - 1])
      BY <1>4, <2>2, Apart
    <3> QED
      BY <1>2, <1>4, <1>5, <3>1 DEF Mates
  <2> QED
    BY <1>4, <2>1, <2>2
<1> QED
  BY <1>4, <1>5, <1>6, <1>7 DEF Mates, FirstInChord

\* The walk passes up to whatever is not a note and stands no later.
LEMMA PassesUpTo ==
  ASSUME sheet \in Sheets, NEW i \in Voices, NoGaps(sheet[i]),
         NEW a \in Nat \ {0}, NEW t \in Nat, NEW c \in a .. Len(sheet[i]),
         sheet[i][c].kind # "note", sheet[i][c].start <= t
  PROVE  c \in Passed(i, a, t)
<1>1. Len(sheet[i]) \in Nat /\ c \in 1 .. Len(sheet[i])
  BY SheetIs
<1>2. ASSUME NEW k \in a .. c PROVE Passes(i, k, t)
  <2>1. k \in 1 .. Len(sheet[i]) /\ k \in 1 .. c /\ (k = c \/ k < c)
    BY <1>1
  <2>2. sheet[i][k].start \in Nat /\ sheet[i][c].start \in Nat
        /\ sheet[i][k].start <= sheet[i][c].start
    BY <1>1, <2>1, SheetIs
  <2>3. CASE sheet[i][k].start < t
    BY <2>3 DEF Passes
  <2>4. CASE ~(sheet[i][k].start < t)
    <3>1. sheet[i][k].start = t /\ sheet[i][c].start = t
      BY <2>2, <2>4
    <3>2. sheet[i][k].kind # "note"
      <4>1. CASE k < c
        <5>1. ~Playable(sheet[i][k])
          BY <1>1, <2>1, <3>1, <4>1, QuietBefore
        <5> QED
          BY <5>1 DEF Playable
      <4> QED
        BY <2>1, <4>1
    <3> QED
      BY <3>1, <3>2 DEF Passes
  <2> QED
    BY <2>3, <2>4
<1> QED
  BY <1>1, <1>2 DEF Passed

\* The walk from a, where all that is ahead has yet to come.
WalksQuietly(i, a, s) ==
  /\ s \in a .. Len(sheet[i]) + 1
  /\ \A j \in a .. s - 1 : ~Playable(sheet[i][j])
  /\ s <= Len(sheet[i]) => /\ sheet[i][s].start = sheet[i][a].start
                           /\ sheet[i][s].kind = "note" => FirstInChord(i, s)

LEMMA WalkIsQuiet ==
  ASSUME sheet \in Sheets, NEW i \in Voices, NoGaps(sheet[i]),
         NEW a \in 1 .. Len(sheet[i]) + 1, NEW b \in {a, a + 1}, NEW t \in Nat,
         \A j \in a .. Len(sheet[i]) : sheet[i][j].start >= t,
         a <= Len(sheet[i]) /\ sheet[i][a].kind = "note" => FirstInChord(i, a)
  PROVE  WalksQuietly(i, a, SeekFrom(i, a, Passed(i, b, t)))
<1> DEFINE n == Len(sheet[i])
           S == Passed(i, b, t)
           m == LastOf(S, a)
           s == SeekFrom(i, a, S)
<1>1. n \in Nat /\ a \in Nat \ {0} /\ b \in Nat \ {0} /\ a <= b
  BY SheetIs
<1>2. /\ S \in SUBSET (b .. n) /\ S \in SUBSET (0 .. n)
      /\ \A j \in S : sheet[i][j].start <= t
  BY <1>1, PassedIs
<1>3. \A j \in S : Passes(i, j, t)
  <2> SUFFICES ASSUME NEW j \in S PROVE Passes(i, j, t)
    OBVIOUS
  <2>1. j \in b .. n /\ \A k \in b .. j : Passes(i, k, t)
    BY DEF Passed
  <2> QED
    BY <1>1, <2>1
<1> HIDE DEF S
<1>4. m = a \/ m \in S
  BY <1>1, <1>2, LastIs
<1>5. s = m \/ (m = n /\ ~Playable(sheet[i][m]) /\ s = n + 1)
  BY DEF SeekFrom, SkipLast
<1>6. m \in a .. n + 1
  <2>1. CASE m \in S
    <3>1. m \in b .. n /\ (b = a \/ b = a + 1)
      BY <1>2, <2>1
    <3> QED
      BY <1>1, <3>1
  <2>2. CASE m = a
    BY <1>1, <2>2
  <2> QED
    BY <1>4, <2>1, <2>2
<1> HIDE DEF m, s
<1>7. \A j \in 1 .. n : sheet[i][j].start \in Nat
  BY SheetIs
<1>8. m <= n => /\ sheet[i][m].start = sheet[i][a].start
                /\ sheet[i][m].kind = "note" => FirstInChord(i, m)
  <2> SUFFICES ASSUME m <= n, m # a
               PROVE  /\ sheet[i][m].start = sheet[i][a].start
                      /\ sheet[i][m].kind = "note" => FirstInChord(i, m)
    <3>1. m <= n /\ m = a => a <= n
      OBVIOUS
    <3> QED
      BY <3>1
  <2>1. m \in S /\ m \in 1 .. n /\ m \in a .. n /\ a \in 1 .. m /\ a \in 1 .. n /\ a \in a .. n
    BY <1>1, <1>4, <1>6
  <2>2. sheet[i][a].start <= sheet[i][m].start
    BY <2>1, SheetIs
  <2>3. sheet[i][m].start = t /\ sheet[i][a].start = t
    BY <1>2, <1>7, <2>1, <2>2
  <2>4. Passes(i, m, t)
    BY <1>3, <2>1
  <2> QED
    BY <2>3, <2>4 DEF Passes
<1>9. ASSUME NEW j \in a .. m - 1 PROVE ~Playable(sheet[i][j])
  <2>1. m # a /\ m \in S
    BY <1>1, <1>4, <1>6
  <2>2. m \in 1 .. n /\ j \in 1 .. n /\ j < m /\ j \in a .. n /\ a \in 1 .. j /\ j \in 1 .. m
    BY <1>1, <1>2, <1>6, <2>1
  <2>3. sheet[i][j].start <= sheet[i][m].start /\ sheet[i][j].start >= t
        /\ sheet[i][m].start <= t
    BY <1>2, <2>1, <2>2, SheetIs
  <2>4. sheet[i][j].start = sheet[i][m].start
    BY <1>7, <2>2, <2>3, SMTT(30)
  <2> QED
    BY <1>8, <2>2, <2>4, QuietBefore
<1>10. CASE s = m
  BY <1>6, <1>8, <1>9, <1>10 DEF WalksQuietly, s, S
<1>11. CASE m = n /\ ~Playable(sheet[i][m]) /\ s = n + 1
  <2>1. \A j \in a .. s - 1 : ~Playable(sheet[i][j])
    <3> SUFFICES ASSUME NEW j \in a .. s - 1 PROVE ~Playable(sheet[i][j])
      OBVIOUS
    <3>1. j = m \/ j \in a .. m - 1
      BY <1>1, <1>6, <1>11
    <3> QED
      BY <1>9, <1>11, <3>1
  <2>2. s \in a .. n + 1 /\ ~(s <= n)
    BY <1>1, <1>6, <1>11
  <2> QED
    BY <2>1, <2>2 DEF WalksQuietly, s, S
<1> QED
  BY <1>5, <1>10, <1>11

\* The run of elements that start now ends with one that plays until the next
\* begins, unless it ends with the voice.
Beyond(i) == streamIdx[i] + Cardinality(Starting(i))

LEMMA RunEnds ==
  ASSUME sheet \in Sheets, curTime \in Nat, Streams, NEW i \in Voices, NoGaps(sheet[i]),
         Starting(i) # {}, Beyond(i) <= Len(sheet[i])
  PROVE  /\ Beyond(i) \in 1 .. Len(sheet[i]) /\ Beyond(i) - 1 \in Starting(i)
         /\ Playable(sheet[i][Beyond(i) - 1])
         /\ FirstInChord(i, Beyond(i))
         /\ \A j \in Starting(i) :
              Playable(sheet[i][j]) => sheet[i][j].end = sheet[i][Beyond(i)].start
<1> DEFINE v == sheet[i]
           s == Beyond(i)
           a == streamIdx[i]
           l == s - 1
<1>1. Len(v) \in Nat /\ a \in Nat \ {0} /\ DOMAIN v = 1 .. Len(v)
  BY SheetIs DEF Streams
<1>2. /\ Cardinality(Starting(i)) \in Nat /\ Starting(i) = a .. s - 1
      /\ Starting(i) \subseteq 1 .. Len(v)
      /\ \A j \in Starting(i) : v[j].start = curTime
  <2>1. /\ Cardinality(Starting(i)) \in Nat
        /\ Starting(i) = a .. a + Cardinality(Starting(i)) - 1
        /\ Starting(i) \subseteq 1 .. Len(v)
        /\ \A j \in Starting(i) : v[j].start = curTime
    BY StartingIs
  <2>2. s - 1 = a + Cardinality(Starting(i)) - 1
    <3>1. a \in Nat /\ Cardinality(Starting(i)) \in Nat
      BY <1>1, <2>1
    <3> QED
      BY <3>1 DEF Beyond
  <2> QED
    BY <2>1, <2>2
<1>3. \A j \in 1 .. Len(v) : v[j].start \in Nat /\ v[j].end \in Nat /\ v[j].start <= v[j].end
  BY SheetIs
<1>4. s \in Nat /\ a <= s - 1 /\ s \in 1 .. Len(v) /\ l \in 1 .. Len(v) - 1 /\ l + 1 = s
      /\ l \in 1 .. Len(v) /\ l \in a .. s - 1
  <2>1. s \in Nat
    BY <1>1, <1>2 DEF Beyond
  <2>2. a <= s - 1
    <3>1. a .. s - 1 # {}
      BY <1>2
    <3> QED
      BY <1>1, <2>1, <3>1
  <2> QED
    BY <1>1, <2>1, <2>2
<1>5. v[s].start # curTime
  <2> SUFFICES ASSUME v[s].start = curTime PROVE FALSE
    OBVIOUS
  <2>1. s \in a .. Len(v) /\ \A k \in a .. s : k \in a .. s - 1 \/ k = s
    BY <1>1, <1>4
  <2>4. \A k \in a .. s - 1 : v[k].start = curTime
    BY <1>2
  <2>2. \A k \in a .. s : v[k].start = curTime
    BY <2>1, <2>4
  <2>3. s \in Starting(i)
    BY <2>1, <2>2 DEF Starting
  <2>5. s \in a .. s - 1
    BY <1>2, <2>3
  <2> QED
    BY <1>1, <1>4, <2>5
<1>6. l \in Starting(i) /\ v[l].start = curTime
  BY <1>2, <1>4
<1>7. v[s].start = v[l].end \/ Mates(v[l], v[s])
  BY <1>4 DEF NoGaps
<1>8. v[s].start = v[l].end /\ v[l].start < v[l].end
  <2>1. ~Mates(v[l], v[s])
    BY <1>5, <1>6 DEF Mates
  <2> QED
    BY <1>3, <1>4, <1>5, <1>6, <1>7, <2>1
<1>9. Playable(v[l])
  BY <1>1, <1>4, <1>8 DEF NoGaps
<1>10. FirstInChord(i, s)
  BY <1>5, <1>6 DEF FirstInChord
<1>11. ASSUME NEW j \in Starting(i), Playable(v[j]) PROVE v[j].end = v[s].start
  <2>1. j \in 1 .. Len(v) /\ v[j].start = curTime /\ (j = l \/ j < l)
    <3>1. j \in a .. s - 1 /\ j \in 1 .. Len(v) /\ v[j].start = curTime
      BY <1>2
    <3> QED
      BY <1>1, <1>4, <3>1
  <2>2. v[j].start < v[j].end
    BY <1>1, <1>11, <2>1 DEF NoGaps
  <2>3. CASE j < l
    <3>1. v[j].end <= v[l].start \/ Mates(v[j], v[l])
      BY <1>4, <2>1, <2>3, Apart
    <3>2. Mates(v[j], v[l])
      BY <1>3, <1>4, <1>6, <2>1, <2>2, <3>1
    <3> QED
      BY <1>8, <3>2 DEF Mates
  <2> QED
    BY <1>8, <2>1, <2>3
<1> QED
  BY <1>4, <1>6, <1>9, <1>10, <1>11

-----------------------------------------------------------------------------
(* The section that is repeated.                                           *)

\* When it ends, and where voice i says so; does it end after the start?
RepeatEnd == CHOOSE t \in EndTimes : TRUE
CloseAt(i) == CHOOSE c \in DOMAIN sheet[i] : sheet[i][c].kind = "repeatClose"
Far == \E t \in EndTimes : initTime < t

LEMMA NoRepeat ==
  ASSUME sheet \in Sheets, EndTimes = {}
  PROVE  \A i \in Voices : \A j \in 1 .. Len(sheet[i]) : sheet[i][j].kind # "repeatClose"
<1> SUFFICES ASSUME NEW i \in Voices, NEW j \in 1 .. Len(sheet[i]),
                    sheet[i][j].kind = "repeatClose"
             PROVE  FALSE
  OBVIOUS
<1>1. <<i, j>> \in Positions
  BY SheetIs DEF Positions
<1>2. At(<<i, j>>).start \in EndTimes
  BY <1>1 DEF EndTimes, At
<1> QED
  BY <1>2

LEMMA RepeatIs ==
  ASSUME sheet \in Sheets, WellMade(sheet), EndTimes # {}
  PROVE  /\ RepeatEnd \in Nat /\ EndTimes = {RepeatEnd} /\ Voices # {}
         /\ \A i \in Voices :
              /\ CloseAt(i) \in 1 .. Len(sheet[i])
              /\ sheet[i][CloseAt(i)].kind = "repeatClose"
              /\ sheet[i][CloseAt(i)].start = RepeatEnd
              /\ \A d \in 1 .. Len(sheet[i]) : sheet[i][d].kind = "repeatClose" => d = CloseAt(i)
<1>1. \A i \in Voices : DOMAIN sheet[i] = 1 .. Len(sheet[i])
  BY SheetIs
<1>2. \A t \in EndTimes : \E i \in Voices : \E c \in DOMAIN sheet[i] :
        sheet[i][c].kind = "repeatClose" /\ t = sheet[i][c].start
  <2> SUFFICES ASSUME NEW t \in EndTimes
               PROVE  \E i \in Voices : \E c \in DOMAIN sheet[i] :
                        sheet[i][c].kind = "repeatClose" /\ t = sheet[i][c].start
    OBVIOUS
  <2>1. PICK p \in Positions : At(p).kind = "repeatClose" /\ t = At(p).start
    BY DEF EndTimes
  <2>2. p[1] \in Voices /\ p[2] \in DOMAIN sheet[p[1]]
    BY <1>1, PositionsAre
  <2> QED
    BY <2>1, <2>2 DEF At
<1>3. RepeatEnd \in EndTimes
  BY DEF RepeatEnd
<1>4. PICK m \in Voices : \E c \in DOMAIN sheet[m] :
        sheet[m][c].kind = "repeatClose" /\ RepeatEnd = sheet[m][c].start
  BY <1>2, <1>3
<1>5. PICK c \in DOMAIN sheet[m] :
        sheet[m][c].kind = "repeatClose" /\ RepeatEnd = sheet[m][c].start
  BY <1>4
<1>6. \A i, k \in Voices : \A d \in DOMAIN sheet[i] : sheet[i][d].kind = "repeatClose" =>
        /\ \A e \in DOMAIN sheet[i] : sheet[i][e].kind = "repeatClose" => e = d
        /\ \E e \in DOMAIN sheet[k] :
             sheet[k][e].kind = "repeatClose" /\ sheet[k][e].start = sheet[i][d].start
  BY DEF WellMade, OneRepeat, Voices
<1>7. ASSUME NEW i \in Voices
      PROVE  /\ CloseAt(i) \in DOMAIN sheet[i]
             /\ sheet[i][CloseAt(i)].kind = "repeatClose"
             /\ sheet[i][CloseAt(i)].start = RepeatEnd
             /\ \A d \in DOMAIN sheet[i] : sheet[i][d].kind = "repeatClose" => d = CloseAt(i)
  <2>1. PICK d \in DOMAIN sheet[i] :
          sheet[i][d].kind = "repeatClose" /\ sheet[i][d].start = RepeatEnd
    BY <1>5, <1>6
  <2>2. \A e \in DOMAIN sheet[i] : sheet[i][e].kind = "repeatClose" => e = d
    BY <1>6, <2>1
  <2>3. CloseAt(i) = d
    BY <2>1, <2>2 DEF CloseAt
  <2> QED
    BY <2>1, <2>2, <2>3
<1>8. EndTimes = {RepeatEnd}
  <2>1. ASSUME NEW t \in EndTimes PROVE t = RepeatEnd
    BY <1>2, <1>7
  <2> QED
    BY <1>3, <2>1
<1>9. RepeatEnd \in Nat
  BY <1>1, <1>5, SheetIs
<1> QED
  BY <1>1, <1>4, <1>7, <1>8, <1>9

\* Element o of voice i is the last that may begin the section, or there is none.
BeginsAfter(i, o) ==
  /\ o \in 0 .. CloseAt(i) - 1
  /\ o # 0 => sheet[i][o].kind = "repeatOpen"
  /\ \A q \in 1 .. CloseAt(i) : sheet[i][q].kind = "repeatOpen" => q <= o

\* In every voice the section begins at the same time.
LEMMA BeginTimeIs ==
  ASSUME sheet \in Sheets, WellMade(sheet), EndTimes # {}, NEW i \in Voices,
         NEW o, BeginsAfter(i, o)
  PROVE  /\ o + 1 \in 1 .. CloseAt(i) /\ o + 1 \in 1 .. Len(sheet[i])
         /\ sheet[i][o + 1].start = BeginTime(RepeatEnd)
         /\ o # 0 => sheet[i][o].start = BeginTime(RepeatEnd) /\ ~Playable(sheet[i][o])
         /\ BeginTime(RepeatEnd) <= RepeatEnd
<1> DEFINE R == RepeatEnd
           Opens == {q \in Positions : At(q).kind = "repeatOpen" /\ At(q).start < R}
           T == {At(p).start : p \in Opens}
<1>1. /\ R \in Nat
      /\ \A k \in Voices : /\ CloseAt(k) \in 1 .. Len(sheet[k])
                           /\ sheet[k][CloseAt(k)].kind = "repeatClose"
                           /\ sheet[k][CloseAt(k)].start = R
  BY RepeatIs
<1>2. \A k \in Voices :
        /\ Len(sheet[k]) \in Nat /\ DOMAIN sheet[k] = 1 .. Len(sheet[k])
        /\ \A j \in 1 .. Len(sheet[k]) :
             /\ sheet[k][j].start \in Nat /\ sheet[k][j].end \in Nat
             /\ sheet[k][j].start <= sheet[k][j].end
             /\ \A l \in 1 .. j : sheet[k][l].start <= sheet[k][j].start
  BY SheetIs
<1>3. NoGaps(sheet[i])
  BY DEF WellMade, Voices
<1>4. o \in Nat /\ o + 1 \in 1 .. CloseAt(i) /\ o + 1 \in 1 .. Len(sheet[i])
      /\ CloseAt(i) \in Nat /\ Len(sheet[i]) \in Nat
  BY <1>1, <1>2 DEF BeginsAfter
<1>5. BeginTime(R) = LastOf(T, 0)
  BY DEF BeginTime
<1> HIDE DEF R
<1>6. \A p \in Opens : /\ p[1] \in Voices /\ p[2] \in 1 .. Len(sheet[p[1]])
                       /\ sheet[p[1]][p[2]].kind = "repeatOpen"
                       /\ sheet[p[1]][p[2]].start < R
  BY PositionsAre DEF At
<1>7. \A k \in Voices : \A c \in DOMAIN sheet[k] : sheet[k][c].kind = "repeatClose" =>
        \A q \in 1 .. c : sheet[k][q].kind = "repeatOpen" =>
          /\ sheet[k][q].start < sheet[k][c].start
          /\ \E l \in DOMAIN sheet[i] :
               sheet[i][l].kind = "repeatOpen" /\ sheet[i][l].start = sheet[k][q].start
  BY DEF WellMade, OneRepeat, Voices
<1>8. ASSUME NEW t \in T
      PROVE  t \in Nat /\ t < R /\ o # 0 /\ t <= sheet[i][o].start
  <2>1. PICK p \in Opens : t = At(p).start
    OBVIOUS
  <2> DEFINE k == p[1]
             q == p[2]
  <2>2. /\ k \in Voices /\ q \in 1 .. Len(sheet[k])
        /\ sheet[k][q].kind = "repeatOpen" /\ sheet[k][q].start < R /\ t = sheet[k][q].start
    BY <1>6, <2>1 DEF At
  <2> HIDE DEF k, q
  <2>3. q \in 1 .. CloseAt(k)
    <3> SUFFICES ASSUME ~(q <= CloseAt(k)) PROVE FALSE
      BY <1>1, <1>2, <2>2
    <3>1. CloseAt(k) \in 1 .. q
      BY <1>1, <1>2, <2>2
    <3>2. R <= sheet[k][q].start
      BY <1>1, <1>2, <2>2, <3>1
    <3> QED
      BY <1>1, <1>2, <2>2, <3>2
  <2>4. PICK l \in DOMAIN sheet[i] :
          sheet[i][l].kind = "repeatOpen" /\ sheet[i][l].start = t
    BY <1>1, <1>2, <1>7, <2>2, <2>3
  <2>5. l \in 1 .. Len(sheet[i]) /\ l \in Nat
    BY <1>2
  <2>6. l \in 1 .. CloseAt(i)
    <3> SUFFICES ASSUME ~(l <= CloseAt(i)) PROVE FALSE
      BY <1>4, <2>5
    <3>1. CloseAt(i) \in 1 .. l
      BY <1>1, <1>4, <2>5
    <3>2. R <= sheet[i][l].start
      BY <1>1, <1>2, <2>5, <3>1
    <3> QED
      BY <1>1, <1>2, <2>2, <2>4, <3>2
  <2>7. l <= o
    BY <2>4, <2>6 DEF BeginsAfter
  <2>8. o # 0 /\ o \in 1 .. Len(sheet[i]) /\ l \in 1 .. o
    BY <1>4, <2>5, <2>7
  <2>9. sheet[i][l].start <= sheet[i][o].start
    BY <1>2, <2>8
  <2> QED
    BY <1>2, <2>2, <2>4, <2>5, <2>8, <2>9
<1>9. T \in SUBSET (0 .. R)
  <2> HIDE DEF T
  <2> QED
    BY <1>1, <1>8
<1>10. /\ T = {} => BeginTime(R) = 0
       /\ T # {} => BeginTime(R) \in T
       /\ \A t \in T : t <= BeginTime(R)
  <2> HIDE DEF T
  <2>1. R \in Nat
    BY <1>1
  <2>2. /\ T = {} => LastOf(T, 0) = 0
        /\ T # {} => LastOf(T, 0) \in T
        /\ \A t \in T : t <= LastOf(T, 0)
    BY <1>9, <2>1, LastIs
  <2> QED
    BY <1>5, <2>2
<1>11. CASE o = 0
  <2>1. BeginTime(R) = 0
    <3> HIDE DEF T
    <3> QED
      BY <1>8, <1>10, <1>11
  <2>2. sheet[i][1].start = 0 /\ 1 \in 1 .. Len(sheet[i])
    <3>1. sheet[i] # << >>
      BY <1>4
    <3> QED
      BY <1>3, <1>4, <1>11, <3>1 DEF NoGaps
  <2> QED
    BY <1>1, <1>4, <1>11, <2>1, <2>2 DEF R
<1>12. CASE o # 0
  <2>1. o \in 1 .. Len(sheet[i]) /\ o \in 1 .. CloseAt(i) /\ sheet[i][o].kind = "repeatOpen"
        /\ o \in 1 .. Len(sheet[i]) - 1
    BY <1>4, <1>12 DEF BeginsAfter
  <2>2. sheet[i][o].start < R
    BY <1>1, <1>2, <1>7, <2>1
  <2>3. sheet[i][o].start \in T
    <3>1. <<i, o>> \in Positions
      BY <1>2, <2>1 DEF Positions
    <3> QED
      BY <2>1, <2>2, <3>1 DEF At
  <2>4. sheet[i][o].start = BeginTime(R)
    <3>1. BeginTime(R) \in T /\ sheet[i][o].start <= BeginTime(R)
      BY <1>10, <2>3
    <3>2. BeginTime(R) \in Nat /\ BeginTime(R) <= sheet[i][o].start
      <4> HIDE DEF T
      <4> QED
        BY <1>8, <3>1
    <3> QED
      BY <1>2, <2>1, <3>1, <3>2
  <2>5. ~Playable(sheet[i][o]) /\ sheet[i][o].start = sheet[i][o].end
    <3>1. ~Playable(sheet[i][o])
      BY <2>1 DEF Playable
    <3>2. ~(sheet[i][o].start < sheet[i][o].end)
      BY <1>2, <1>3, <2>1, <3>1 DEF NoGaps
    <3> QED
      BY <1>2, <2>1, <3>1, <3>2
  <2>6. sheet[i][o + 1].start = sheet[i][o].end
    BY <1>3, <2>1 DEF NoGaps, Mates
  <2> QED
    BY <1>1, <1>2, <1>4, <2>1, <2>2, <2>4, <2>5, <2>6 DEF R
<1> QED
  BY <1>11, <1>12

-----------------------------------------------------------------------------
(* The walk over a voice without gaps.                                     *)

PlayingOf(i) == {p \in Range(curPlaying) : p[1] = i}

\* Voice i is played as it is written: nothing ahead is late, and what plays
\* ends when the next begins.
InStep(i) ==
  /\ \A j \in streamIdx[i] .. Len(sheet[i]) : sheet[i][j].start >= curTime
  /\ \A p \in PlayingOf(i) : p[2] < streamIdx[i] /\ Playable(At(p))
  /\ streamIdx[i] <= Len(sheet[i]) =>
       /\ sheet[i][streamIdx[i]].start = curTime \/ PlayingOf(i) # {}
       /\ \A p \in PlayingOf(i) : At(p).end = sheet[i][streamIdx[i]].start
       /\ sheet[i][streamIdx[i]].kind = "note" => FirstInChord(i, streamIdx[i])

LEMMA InStepStays ==
  ASSUME NEW i, UNCHANGED <<sheet, curTime, streamIdx, curPlaying>>
  PROVE  InStep(i)' <=> InStep(i)
BY DEF InStep, PlayingOf, At, FirstInChord

\* What is known of what plays and of the streams.
LEMMA ListsAre ==
  ASSUME SheetInv
  PROVE  /\ sheet \in Sheets /\ curTime \in Nat
         /\ curPlaying \in Seq(Positions) /\ Len(curPlaying) \in Nat
         /\ Range(curPlaying) \subseteq Positions
         /\ \A p \in Range(curPlaying) :
              /\ p[1] \in Voices /\ p[2] \in 1 .. Len(sheet[p[1]])
              /\ At(p).start \in Nat /\ At(p).end \in Nat
              /\ thread \in {"seek", "check", "on"} => At(p).end > curTime
<1>1. sheet \in Sheets /\ curTime \in Nat /\ curPlaying \in Seq(Positions)
  BY DEF SheetInv, Values, ListsOK
<1>2. Len(curPlaying) \in Nat /\ Range(curPlaying) \subseteq Positions
  BY <1>1 DEF Range
<1>3. ASSUME NEW p \in Range(curPlaying)
      PROVE  /\ p[1] \in Voices /\ p[2] \in 1 .. Len(sheet[p[1]])
             /\ At(p).start \in Nat /\ At(p).end \in Nat
             /\ thread \in {"seek", "check", "on"} => At(p).end > curTime
  <2>1. p[1] \in Voices /\ p[2] \in 1 .. Len(sheet[p[1]])
    BY <1>1, <1>2, PositionsAre
  <2>2. At(p).start \in Nat /\ At(p).end \in Nat
    BY <1>1, <2>1, SheetIs DEF At
  <2>3. PICK k \in 1 .. Len(curPlaying) : p = curPlaying[k]
    BY <1>1 DEF Range
  <2>4. thread \in {"seek", "check", "on"} => At(p).end > curTime
    BY <2>3 DEF SheetInv, NoneOver
  <2> QED
    BY <2>1, <2>2, <2>4
<1> QED
  BY <1>1, <1>2, <1>3

LEMMA StreamsAre ==
  ASSUME SheetInv, Present
  PROVE  /\ Streams
         /\ \A i \in Voices :
              /\ Len(sheet[i]) \in Nat /\ DOMAIN sheet[i] = 1 .. Len(sheet[i])
              /\ streamIdx[i] \in Nat \ {0} /\ streamIdx[i] <= Len(sheet[i]) + 1
              /\ streamIdx[i] \in 1 .. Len(sheet[i]) + 1
              /\ lastRepeatOpenIdx[i] \in Nat
              /\ OpenOrNone(i, lastRepeatOpenIdx[i], streamIdx[i])
<1>1. sheet \in Sheets /\ Streams
  BY DEF SheetInv, Values, StreamsOK
<1>2. \A i \in Voices : Len(sheet[i]) \in Nat /\ DOMAIN sheet[i] = 1 .. Len(sheet[i])
  BY <1>1, SheetIs
<1> QED
  BY <1>1, <1>2 DEF Streams

\* A note that ends makes room for the next.
LEMMA InStepTurnOff ==
  ASSUME SheetInv, TurnOff, ~stop, NEW i \in Voices, InStep(i)
  PROVE  InStep(i)'
<1> DEFINE q == curPlaying[next]
           s == streamIdx[i]
<1>1. /\ UNCHANGED <<sheet, curTime, streamIdx>> /\ thread = "off"
      /\ curPlaying' = RemoveAt(curPlaying, next) /\ next \in 1 .. Len(curPlaying)
      /\ At(q).end <= curTime
  BY DEF TurnOff, Over, windowVars, SheetInv, Values, ListsOK
<1>2. /\ curPlaying \in Seq(Positions) /\ curTime \in Nat /\ sheet \in Sheets
      /\ q \in Range(curPlaying)
  BY <1>1, ListsAre DEF Range
<1>3. /\ Range(curPlaying') \subseteq Range(curPlaying)
      /\ \A x \in Range(curPlaying) : x # q => x \in Range(curPlaying')
  BY <1>1, <1>2, LeftOver
<1>4. Len(sheet[i]) \in Nat /\ s \in Nat \ {0} /\ s \in s .. s
  BY <1>1, StreamsAre DEF Present
<1>5. PlayingOf(i)' \subseteq PlayingOf(i)
  BY <1>3 DEF PlayingOf
<1> HIDE DEF q
<1>6. ASSUME s <= Len(sheet[i])
      PROVE  sheet[i][s].start = curTime \/ PlayingOf(i)' # {}
  <2>1. CASE q[1] = i
    <3>1. At(q).end = sheet[i][s].start
      BY <1>2, <1>6, <2>1 DEF InStep, PlayingOf
    <3>2. s \in 1 .. Len(sheet[i]) /\ s \in s .. Len(sheet[i])
      BY <1>4, <1>6
    <3>3. sheet[i][s].start >= curTime /\ sheet[i][s].start \in Nat
      BY <1>2, <3>2, SheetIs DEF InStep
    <3> QED
      BY <1>1, <1>2, <3>1, <3>3
  <2>2. CASE q[1] # i
    <3>1. PlayingOf(i)' = PlayingOf(i)
      BY <1>3, <2>2 DEF PlayingOf
    <3> QED
      BY <1>6, <3>1 DEF InStep
  <2> QED
    BY <2>1, <2>2
<1>7. \A p : At(p)' = At(p)
  BY <1>1, SameSheet
<1>8. \A j : FirstInChord(i, j)' = FirstInChord(i, j)
  BY <1>1 DEF FirstInChord
<1> QED
  BY <1>1, <1>5, <1>6, <1>7, <1>8 DEF InStep

\* The walk goes on to what starts next.
LEMMA InStepSeekOn ==
  ASSUME SheetInv, SeekOn, NEW i \in Voices, NoGaps(sheet[i]), InStep(i)
  PROVE  /\ InStep(i)'
         /\ WalksQuietly(i, streamIdx[i], streamIdx'[i])
<1> DEFINE a == streamIdx[i]
           s == SeekFrom(i, a, Passed(i, a, curTime))
<1>1. /\ UNCHANGED <<sheet, curTime, curPlaying>> /\ thread = "seek"
      /\ streamIdx' = [streamIdx EXCEPT ![next] =
                         SeekFrom(next, streamIdx[next], Passed(next, streamIdx[next], curTime))]
  BY DEF SeekOn, windowVars
<1>2. /\ sheet \in Sheets /\ curTime \in Nat /\ Streams
      /\ Len(sheet[i]) \in Nat /\ a \in 1 .. Len(sheet[i]) + 1 /\ a \in Nat \ {0}
  BY <1>1, ListsAre, StreamsAre DEF Present
<1>3. \A p : At(p)' = At(p)
  BY <1>1, SameSheet
<1>4. \A j : FirstInChord(i, j)' = FirstInChord(i, j)
  BY <1>1 DEF FirstInChord
<1>5. PlayingOf(i)' = PlayingOf(i)
  BY <1>1 DEF PlayingOf
<1>6. a <= Len(sheet[i]) /\ sheet[i][a].kind = "note" => FirstInChord(i, a)
  BY DEF InStep
<1>7. CASE i # next
  <2>1. streamIdx'[i] = a
    BY <1>1, <1>2, <1>7 DEF Streams
  <2>2. InStep(i)'
    BY <1>1, <1>3, <1>4, <1>5, <2>1 DEF InStep
  <2>3. WalksQuietly(i, a, a)
    BY <1>2, <1>6 DEF WalksQuietly
  <2> QED
    BY <2>1, <2>2, <2>3
<1>8. CASE i = next
  <2>1. streamIdx'[i] = s
    BY <1>1, <1>2, <1>8 DEF Streams
  <2>2. WalksQuietly(i, a, s)
    <3>1. \A j \in a .. Len(sheet[i]) : sheet[i][j].start >= curTime
      BY DEF InStep
    <3> QED
      BY <1>2, <1>6, <3>1, WalkIsQuiet
  <2> HIDE DEF s
  <2>3. /\ s \in a .. Len(sheet[i]) + 1 /\ s \in Nat
        /\ s <= Len(sheet[i]) => /\ a <= Len(sheet[i])
                                 /\ sheet[i][s].start = sheet[i][a].start
                                 /\ sheet[i][s].kind = "note" => FirstInChord(i, s)
    BY <1>2, <2>2 DEF WalksQuietly
  <2>4. \A j \in s .. Len(sheet[i]) : sheet[i][j].start >= curTime
    <3>1. \A j \in s .. Len(sheet[i]) : j \in a .. Len(sheet[i])
      BY <1>2, <2>3
    <3> QED
      BY <3>1 DEF InStep
  <2>5. \A p \in PlayingOf(i) : p[2] < s /\ Playable(At(p))
    <3> SUFFICES ASSUME NEW p \in PlayingOf(i) PROVE p[2] < s /\ Playable(At(p))
      OBVIOUS
    <3>1. p[2] < a /\ Playable(At(p)) /\ p[2] \in 1 .. Len(sheet[i])
      BY ListsAre DEF InStep, PlayingOf
    <3> QED
      BY <1>2, <2>3, <3>1
  <2>6. s <= Len(sheet[i]) =>
          /\ sheet[i][s].start = curTime \/ PlayingOf(i) # {}
          /\ \A p \in PlayingOf(i) : At(p).end = sheet[i][s].start
    BY <2>3 DEF InStep
  <2>7. InStep(i)'
    BY <1>1, <1>3, <1>4, <1>5, <2>1, <2>3, <2>4, <2>5, <2>6 DEF InStep
  <2> QED
    BY <2>1, <2>2, <2>7
<1> QED
  BY <1>7, <1>8

\* What starts in a voice is in step, and plays until the next starts.
LEMMA InStepTurnOn ==
  ASSUME SheetInv, TurnOn, NEW i \in Voices, NoGaps(sheet[i]),
         InStep(i) \/ (PlayingOf(i) = {} /\ Starting(i) # {})
  PROVE  InStep(i)'
<1> DEFINE v == sheet[i]
           a == streamIdx[i]
           s == Beyond(i)
           New == {p \in StartedNotes : p[1] = i}
<1>1. /\ sheet' = sheet /\ thread = "on"
      /\ streamIdx' = [k \in Voices |-> streamIdx[k] + Cardinality(Starting(k))]
  BY DEF TurnOn, windowVars
<1>2. /\ sheet \in Sheets /\ curTime \in Nat /\ Streams /\ Present
      /\ Len(v) \in Nat /\ DOMAIN v = 1 .. Len(v)
      /\ a \in 1 .. Len(v) + 1 /\ a \in Nat \ {0}
  BY <1>1, ListsAre, StreamsAre DEF Present
<1>3. TurnsOn
  BY TurnsOnIs
<1>4. PlayingOf(i)' = PlayingOf(i) \cup New
  BY <1>3 DEF TurnsOn, PlayingOf
<1>5. /\ s \in Nat \ {0} /\ a <= s /\ s <= Len(v) + 1 /\ streamIdx'[i] = s
      /\ Starting(i) = a .. s - 1
      /\ \A j \in Starting(i) : v[j].start = curTime /\ j \in 1 .. Len(v)
  <2>1. /\ Cardinality(Starting(i)) \in Nat
        /\ Starting(i) = a .. a + Cardinality(Starting(i)) - 1
        /\ a + Cardinality(Starting(i)) <= Len(v) + 1
        /\ Starting(i) \subseteq 1 .. Len(v)
        /\ \A j \in Starting(i) : v[j].start = curTime
    BY <1>2, StartingIs
  <2> DEFINE c == Cardinality(Starting(i))
  <2> HIDE DEF c
  <2>2. s = a + c
    BY DEF Beyond, c
  <2>3. s - 1 = a + c - 1 /\ s \in Nat \ {0} /\ a <= s
    BY <1>2, <2>1, <2>2 DEF c
  <2> QED
    BY <1>1, <2>1, <2>2, <2>3 DEF c
<1>6. ASSUME NEW p \in New
      PROVE  /\ p \in Started /\ p[2] \in Starting(i) /\ p[2] < s
             /\ Playable(At(p)) /\ At(p) = v[p[2]]
  <2>1. p \in Started /\ p[1] = i /\ Playable(At(p))
    BY DEF StartedNotes
  <2>2. p[2] \in Starting(i)
    BY <1>2, <2>1, StartedIs
  <2> QED
    BY <1>2, <1>5, <2>1, <2>2 DEF At
<1>7. \A j \in 1 .. Len(v) : /\ v[j].start \in Nat
                            /\ \A k \in 1 .. j : v[k].start <= v[j].start
  BY <1>2, SheetIs
<1>8. \A p \in PlayingOf(i) : /\ p[2] < a /\ p[2] \in Nat /\ Playable(At(p))
                              /\ At(p).end \in Nat /\ At(p).end > curTime
  <2> SUFFICES ASSUME NEW p \in PlayingOf(i)
               PROVE  /\ p[2] < a /\ p[2] \in Nat /\ Playable(At(p))
                      /\ At(p).end \in Nat /\ At(p).end > curTime
    OBVIOUS
  <2>1. InStep(i) /\ p \in Range(curPlaying)
    BY DEF PlayingOf
  <2>2. p[2] < a /\ Playable(At(p))
    BY <2>1 DEF InStep
  <2> QED
    BY <1>1, <2>1, <2>2, ListsAre
<1>9. \A p \in PlayingOf(i)' : p[2] < s /\ Playable(At(p))
  BY <1>2, <1>4, <1>5, <1>6, <1>8
<1>10. /\ curTime' \in Nat /\ curTime' >= curTime
       /\ \A p \in PlayingOf(i)' : At(p).end >= curTime'
       /\ Started # {} \/ curPlaying # << >> => stop' = stop
  <2>1. PlayingOf(i)' \subseteq Started \cup Range(curPlaying)
    BY <1>4 DEF PlayingOf, StartedNotes
  <2>2. Started = {} /\ curPlaying = << >> => PlayingOf(i)' = {}
    BY <2>1 DEF Range
  <2> QED
    BY <1>2, <1>3, <2>1, <2>2 DEF TurnsOn
<1> HIDE DEF s, New, v
<1>11. ASSUME s <= Len(v)
       PROVE  /\ PlayingOf(i)' # {}
              /\ \A p \in PlayingOf(i)' : At(p).end = v[s].start
              /\ v[s].kind = "note" => FirstInChord(i, s)
  <2>1. CASE Starting(i) # {}
    <3>1. /\ s \in 1 .. Len(v) /\ s - 1 \in Starting(i)
          /\ Playable(v[s - 1]) /\ FirstInChord(i, s)
          /\ \A j \in Starting(i) : Playable(v[j]) => v[j].end = v[s].start
      BY <1>2, <1>11, <2>1, RunEnds DEF s, v
    <3>2. <<i, s - 1>> \in New
      <4>1. <<i, s - 1>> \in Started
        BY <3>1 DEF Started
      <4>2. At(<<i, s - 1>>) = v[s - 1]
        BY DEF At, v
      <4> QED
        BY <3>1, <4>1, <4>2 DEF StartedNotes, New
    <3>3. PlayingOf(i) = {}
      <4> SUFFICES ASSUME NEW p \in PlayingOf(i) PROVE FALSE
        OBVIOUS
      <4>1. InStep(i)
        OBVIOUS
      <4>2. a \in Starting(i)
        <5>1. a .. s - 1 # {}
          BY <1>5, <2>1
        <5> QED
          BY <1>2, <1>5, <5>1
      <4>3. v[a].start = curTime /\ a <= Len(v)
        BY <1>2, <1>5, <4>2
      <4>4. At(p).end = v[a].start
        BY <4>1, <4>3 DEF InStep, v
      <4> QED
        BY <1>2, <1>8, <4>3, <4>4
    <3>4. \A p \in PlayingOf(i)' : At(p).end = v[s].start
      BY <1>4, <1>6, <3>1, <3>3
    <3> QED
      BY <1>4, <3>1, <3>2, <3>4
  <2>2. CASE Starting(i) = {}
    <3>1. InStep(i) /\ s = a /\ a <= Len(v) /\ New = {}
      <4>1. s = a
        <5>1. Cardinality(Starting(i)) = 0
          BY <2>2, FS_EmptySet
        <5> QED
          BY <1>2, <5>1 DEF s, Beyond
      <4> QED
        BY <1>6, <1>11, <2>2, <4>1
    <3>2. v[a].start # curTime
      <4> SUFFICES ASSUME v[a].start = curTime PROVE FALSE
        OBVIOUS
      <4>1. a \in a .. Len(v) /\ \A k \in a .. a : k = a
        BY <1>2, <3>1
      <4>2. a \in Starting(i)
        BY <4>1 DEF Starting, v
      <4> QED
        BY <2>2, <4>2
    <3>3. /\ PlayingOf(i) # {}
          /\ \A p \in PlayingOf(i) : At(p).end = v[a].start
          /\ v[a].kind = "note" => FirstInChord(i, a)
      BY <3>1, <3>2 DEF InStep, v
    <3> QED
      BY <1>4, <3>1, <3>3
  <2> QED
    BY <2>1, <2>2
<1>12. ASSUME NEW j \in s .. Len(v) PROVE v[j].start >= curTime'
  <2>1. s <= Len(v) /\ s \in 1 .. j /\ j \in 1 .. Len(v) /\ s \in 1 .. Len(v)
    BY <1>2, <1>5 DEF v
  <2>2. PICK p \in PlayingOf(i)' : TRUE
    BY <1>11, <2>1
  <2>3. v[s].start >= curTime'
    BY <1>10, <1>11, <2>1, <2>2
  <2> QED
    BY <1>7, <1>10, <2>1, <2>3
<1>13. \A p : At(p)' = At(p)
  BY <1>1, SameSheet
<1>14. \A j : FirstInChord(i, j)' = FirstInChord(i, j)
  BY <1>1 DEF FirstInChord
<1> QED
  BY <1>1, <1>5, <1>9, <1>11, <1>12, <1>13, <1>14 DEF InStep, v

-----------------------------------------------------------------------------
(* The walk of a playback nobody stopped.                                  *)

\* The walk lands on something that plays, or behind the voice.
Lands(i, a, t) ==
  LET S == Passed(i, a, t)
      s == SeekFrom(i, a, S)
  IN /\ \A c \in S : ~Playable(sheet[i][c]) => c < s
     /\ s <= Len(sheet[i]) /\ sheet[i][s].start <= t => Playable(sheet[i][s])

LEMMA SeekLands ==
  ASSUME sheet \in Sheets, NEW i \in Voices, NoGaps(sheet[i]),
         NEW a \in 1 .. Len(sheet[i]) + 1, NEW t \in Nat
  PROVE  Lands(i, a, t)
<1> DEFINE n == Len(sheet[i])
           S == Passed(i, a, t)
           m == LastOf(S, a)
           s == SeekFrom(i, a, S)
<1>1. n \in Nat /\ a \in Nat \ {0} /\ DOMAIN sheet[i] = 1 .. n
  BY SheetIs
<1>2. /\ S \in SUBSET (a .. n) /\ S \in SUBSET (1 .. n) /\ S \in SUBSET (0 .. n)
      /\ \A j \in S : sheet[i][j].start <= t
  BY <1>1, PassedIs
<1>3. \A j \in 1 .. n : /\ sheet[i][j].start \in Nat /\ sheet[i][j].end \in Nat
                        /\ sheet[i][j].start <= sheet[i][j].end
  BY SheetIs
<1>4. ASSUME NEW x \in S, ~Playable(sheet[i][x]), x < n PROVE x + 1 \in S
  <2>1. /\ x \in 1 .. n /\ x \in 1 .. n - 1 /\ x + 1 \in 1 .. n /\ x + 1 \in a .. n
        /\ \A k \in a .. x + 1 : k \in a .. x \/ k = x + 1
    BY <1>1, <1>2, <1>4
  <2>2. sheet[i][x].kind # "note" /\ sheet[i][x].start = sheet[i][x].end
    <3>1. ~(sheet[i][x].start < sheet[i][x].end)
      BY <1>1, <1>4, <2>1 DEF NoGaps
    <3> QED
      BY <1>3, <1>4, <2>1, <3>1 DEF Playable
  <2>3. sheet[i][x + 1].start = sheet[i][x].start
    BY <2>1, <2>2 DEF NoGaps, Mates
  <2>4. FirstInChord(i, x + 1)
    <3>1. (x + 1) - 1 = x
      BY <2>1
    <3> QED
      BY <2>2, <3>1 DEF FirstInChord
  <2>5. Passes(i, x + 1, t)
    <3>1. sheet[i][x].start <= t /\ sheet[i][x].start \in Nat
      BY <1>2, <1>3, <2>1
    <3> QED
      BY <2>3, <2>4, <3>1 DEF Passes
  <2>6. \A k \in a .. x : Passes(i, k, t)
    BY DEF Passed
  <2> QED
    BY <2>1, <2>5, <2>6 DEF Passed
<1>5. a <= n /\ ~Playable(sheet[i][a]) /\ sheet[i][a].start <= t => a \in S
  <2> SUFFICES ASSUME a <= n, ~Playable(sheet[i][a]), sheet[i][a].start <= t PROVE a \in S
    OBVIOUS
  <2>1. a \in 1 .. n /\ a \in a .. n /\ \A k \in a .. a : k = a
    BY <1>1
  <2>2. Passes(i, a, t)
    BY <1>3, <2>1 DEF Passes, Playable
  <2> QED
    BY <2>1, <2>2 DEF Passed
<1> HIDE DEF S
<1>6. /\ S = {} => m = a
      /\ S # {} => m \in S
      /\ \A k \in S : k <= m
  BY <1>1, <1>2, LastIs
<1>7. s = IF m = n /\ ~Playable(sheet[i][m]) THEN m + 1 ELSE m
  BY DEF SeekFrom, SkipLast
<1> HIDE DEF m, s
<1>8. m \in Nat
  <2>1. m = a \/ m \in 1 .. n
    BY <1>2, <1>6
  <2> QED
    BY <1>1, <2>1
<1>9. ASSUME NEW c \in S, ~Playable(sheet[i][c]) PROVE c < s
  <2>1. c <= m /\ c \in 1 .. n /\ m \in S /\ m \in 1 .. n
    BY <1>2, <1>6
  <2>2. CASE c = m
    <3>1. m + 1 \notin S
      BY <1>6, <1>8
    <3>2. m = n
      BY <1>1, <1>4, <1>9, <2>1, <2>2, <3>1
    <3> QED
      BY <1>1, <1>7, <1>9, <2>2, <3>2
  <2> QED
    BY <1>7, <1>8, <2>1, <2>2
<1>10. ASSUME s <= n, sheet[i][s].start <= t PROVE Playable(sheet[i][s])
  <2> SUFFICES ASSUME ~Playable(sheet[i][s]) PROVE FALSE
    OBVIOUS
  <2>1. s = m /\ m < n
    BY <1>1, <1>7, <1>8, <1>10
  <2>2. m \in S
    BY <1>5, <1>6, <1>10, <2>1
  <2> QED
    BY <1>9, <1>8, <2>1, <2>2
<1> QED
  BY <1>9, <1>10 DEF Lands, S, s, m

\* A voice in which nothing plays or sounds.
Silent(i) == PlayingOf(i) = {} /\ \A n \in sounding : n[1] # i

Walks == Present => \A i \in Voices : InStep(i) \/ Silent(i)

\* The thread stops itself when there is nothing left of what is in step.
EndsAlone ==
  /\ thread = "finished" => stop
  /\ stop /\ thread # "none" =>
       /\ thread \in {"begin", "test", "finished"} /\ curPlaying = << >>
       /\ Present => \A i \in Voices : InStep(i) => streamIdx[i] = Len(sheet[i]) + 1

\* What sounds will be turned off: by a note that plays, or by one to come.
Comes(n, j) ==
  sheet[n[1]][j].kind = "note" /\ ~sheet[n[1]][j].tied /\ sheet[n[1]][j].pitch = n[2]

Heard ==
  \A n \in sounding :
    \/ \E p \in Range(curPlaying) : Makes(p, n) /\ ~At(p).tied
    \/ \E j \in streamIdx[n[1]] .. Len(sheet[n[1]]) : Comes(n, j)

\* The walk through the voices has been in voice i at this time.
Settled(i) == thread \in {"check", "on"} \/ (thread = "seek" /\ i < next)

\* Before the jump the walk has not passed the end of the section, but for a
\* voice that ends there, and knows the beginnings that it has passed.
NotPast(i) ==
  \/ streamIdx[i] <= CloseAt(i)
  \/ /\ streamIdx[i] = CloseAt(i) + 1 /\ CloseAt(i) = Len(sheet[i])
     /\ \A p \in PlayingOf(i) : At(p).end = RepeatEnd

Recorded(i) ==
  \A o \in 1 .. CloseAt(i) :
    /\ sheet[i][o].kind = "repeatOpen"
    /\ o < streamIdx[i] \/ (Settled(i) /\ sheet[i][o].start <= curTime)
    => o <= lastRepeatOpenIdx[i]

Landed(i) ==
  Settled(i) /\ streamIdx[i] <= Len(sheet[i]) /\ sheet[i][streamIdx[i]].start = curTime =>
    Playable(sheet[i][streamIdx[i]])

PlaysBefore == \A p \in Range(curPlaying) : p[2] < CloseAt(p[1])

\* When the time comes, some voice meets the end.
Meets ==
  /\ curTime <= RepeatEnd
  /\ curTime < RepeatEnd => \E m \in Voices : streamIdx[m] < CloseAt(m)
  /\ curTime = RepeatEnd =>
       /\ thread \notin {"check", "on"}
       /\ \E m \in Voices : streamIdx[m] <= CloseAt(m) /\ (thread = "seek" => next <= m)

NotYet ==
  Meets /\ PlaysBefore /\ \A i \in Voices : NotPast(i) /\ Recorded(i) /\ Landed(i)

\* After the section there is no end of one ahead.
AllPassed ==
  \A i \in Voices : \A c \in 1 .. Len(sheet[i]) :
    sheet[i][c].kind = "repeatClose" => c < streamIdx[i]

RepeatInv ==
  Present => IF Far THEN ~repeating => NotYet ELSE ~repeating /\ AllPassed

WalkParts == Walks /\ EndsAlone /\ Heard /\ RepeatInv

WalkInv == ~asked => WalkParts

LEMMA SameRepeat ==
  ASSUME sheet' = sheet
  PROVE  /\ EndTimes' = EndTimes /\ RepeatEnd' = RepeatEnd
         /\ \A i : CloseAt(i)' = CloseAt(i)
         /\ initTime' = initTime => (Far' <=> Far)
         /\ \A n, j : Comes(n, j)' <=> Comes(n, j)
         /\ \A n, p : Makes(p, n)' <=> Makes(p, n)
         /\ WellMade(sheet)' <=> WellMade(sheet)
<1>1. EndTimes' = EndTimes
  BY DEF EndTimes, Positions, At, Voices
<1>2. RepeatEnd' = RepeatEnd
  BY <1>1 DEF RepeatEnd
<1>3. \A i : CloseAt(i)' = CloseAt(i)
  BY DEF CloseAt
<1>4. initTime' = initTime => (Far' <=> Far)
  BY <1>1 DEF Far
<1>5. \A n, j : Comes(n, j)' <=> Comes(n, j)
  BY DEF Comes
<1>6. \A n, p : Makes(p, n)' <=> Makes(p, n)
  BY DEF Makes, At
<1> QED
  BY <1>1, <1>2, <1>3, <1>4, <1>5, <1>6

\* Without a playback there is nothing to say.
LEMMA NothingYet ==
  ASSUME SheetInv, ~Present
  PROVE  WalkParts
<1>1. curPlaying = << >> /\ sounding = {} /\ thread \in {"none", "begin"}
  BY DEF SheetInv, StreamsOK, Fresh, Present
<1> QED
  BY <1>1 DEF WalkParts, Walks, EndsAlone, Heard, RepeatInv

\* The thread goes on to where it has been, or from the last voice to the next part.
GoesOn ==
  /\ \A i \in Voices : Settled(i)' => Settled(i)
  /\ thread' \in {"check", "on"} =>
       thread \in {"check", "on"} \/ (thread = "seek" /\ next \notin Voices)
  /\ thread' = "seek" => next' = 1 \/ (thread = "seek" /\ next' = next)

LEMMA WalkStays ==
  ASSUME SheetInv, WalkParts, Present, GoesOn,
         UNCHANGED <<sheet, initTime, curTime, streamIdx, lastRepeatOpenIdx, repeating,
                     curPlaying, sounding>>
  PROVE  Walks' /\ Heard' /\ RepeatInv'
<1>1. /\ Voices' = Voices /\ \A p : At(p)' = At(p)
      /\ RepeatEnd' = RepeatEnd /\ \A i : CloseAt(i)' = CloseAt(i)
      /\ (Far' <=> Far)
      /\ \A n, j : Comes(n, j)' <=> Comes(n, j)
      /\ \A n, p : Makes(p, n)' <=> Makes(p, n)
  BY SameSheet, SameRepeat
<1>2. \A i : (InStep(i)' <=> InStep(i)) /\ PlayingOf(i)' = PlayingOf(i)
  BY InStepStays DEF PlayingOf
<1>3. Walks'
  BY <1>1, <1>2 DEF WalkParts, Walks, Silent
<1>4. Heard'
  BY <1>1 DEF WalkParts, Heard
<1>5. AllPassed' <=> AllPassed
  BY <1>1 DEF AllPassed
<1>6. ASSUME NotYet PROVE NotYet'
  <2>1. PlaysBefore' /\ \A i \in Voices : NotPast(i)'
    BY <1>1, <1>2, <1>6 DEF NotYet, PlaysBefore, NotPast
  <2>2. \A i \in Voices : Recorded(i)' /\ Landed(i)'
    BY <1>1, <1>6 DEF NotYet, GoesOn, Recorded, Landed
  <2>3. Voices = 1 .. Len(sheet) /\ Len(sheet) \in Nat /\ next \in Nat \ {0}
    BY SheetIs DEF SheetInv, Values
  <2>4. Meets'
    <3>1. curTime <= RepeatEnd /\ (curTime < RepeatEnd => \E m \in Voices : streamIdx[m] < CloseAt(m))
      BY <1>6 DEF NotYet, Meets
    <3>2. ASSUME curTime = RepeatEnd
          PROVE  /\ thread' \notin {"check", "on"}
                 /\ \E m \in Voices : streamIdx[m] <= CloseAt(m) /\ (thread' = "seek" => next' <= m)
      <4>1. PICK m \in Voices : streamIdx[m] <= CloseAt(m) /\ (thread = "seek" => next <= m)
        BY <1>6, <3>2 DEF NotYet, Meets
      <4>2. thread \notin {"check", "on"}
        BY <1>6, <3>2 DEF NotYet, Meets
      <4>3. thread = "seek" => next \in Voices
        BY <2>3, <4>1
      <4>4. thread' = "seek" => next' <= m
        BY <2>3, <4>1 DEF GoesOn
      <4> QED
        BY <4>1, <4>2, <4>3, <4>4 DEF GoesOn
    <3> QED
      BY <1>1, <3>1, <3>2 DEF Meets
  <2> QED
    BY <1>1, <2>1, <2>2, <2>4 DEF NotYet
<1>7. RepeatInv'
  BY <1>1, <1>5, <1>6 DEF WalkParts, RepeatInv
<1> QED
  BY <1>3, <1>4, <1>7

\* The steps that change no more than where the thread is.
LEMMA WalkGoesOn ==
  ASSUME SheetInv, WalkParts, Test \/ LeaveOn \/ AllLookedAt \/ SoughtAll \/ Check
  PROVE  WalkParts'
<1> USE DEF threadVars, windowVars
<1>1. /\ UNCHANGED <<sheet, initTime, curTime, streamIdx, lastRepeatOpenIdx, repeating,
                     curPlaying, sounding, stop>>
      /\ thread \notin {"none", "begin"} /\ thread' \notin {"none", "begin"}
  BY DEF Test, LeaveOn, AllLookedAt, SoughtAll, Check
<1>2. Present /\ Present'
  BY <1>1 DEF Present
<1>3. GoesOn
  <2>1. Voices = 1 .. Len(sheet) /\ Len(sheet) \in Nat /\ next \in Nat \ {0}
    BY SheetIs DEF SheetInv, Values
  <2>2. thread = "seek" /\ next \notin Voices => \A i \in Voices : i < next
    BY <2>1
  <2>3. \A i \in Voices : ~(i < 1)
    BY <2>1
  <2> QED
    BY <2>2, <2>3 DEF GoesOn, Settled, Test, LeaveOn, AllLookedAt, SoughtAll, Check
<1>4. Walks' /\ Heard' /\ RepeatInv'
  BY <1>1, <1>2, <1>3, WalkStays
<1>5. \A i : InStep(i)' <=> InStep(i)
  BY <1>1, InStepStays
<1>6. EndsAlone'
  <2>1. EndsAlone
    BY DEF WalkParts
  <2>2. Voices' = Voices
    BY <1>1, SameSheet
  <2>3. CASE Test
    BY <1>1, <1>2, <1>5, <2>1, <2>2, <2>3 DEF EndsAlone, Test
  <2>4. CASE LeaveOn \/ AllLookedAt \/ SoughtAll \/ Check
    <3>1. ~stop
      BY <2>1, <2>4 DEF EndsAlone, LeaveOn, AllLookedAt, SoughtAll, Check
    <3>2. thread' # "finished"
      BY <2>4, <3>1 DEF LeaveOn, AllLookedAt, SoughtAll, Check
    <3> QED
      BY <1>1, <3>1, <3>2 DEF EndsAlone
  <2> QED
    BY <2>3, <2>4
<1> QED
  BY <1>4, <1>6 DEF WalkParts

\* The steps of the window that end nothing.
LEMMA WalkWindow ==
  ASSUME SheetInv, WalkParts,
         InsertNote \/ CloseDocument \/ \E p \in Positions : DeleteElement(p)
  PROVE  WalkParts'
<1> USE DEF threadVars, windowVars
<1>0. SheetInv'
  BY WindowMoves
<1>1. CASE ~Present'
  BY <1>0, <1>1, NothingYet, PTL
<1>2. CASE Present'
  <2>1. /\ UNCHANGED <<sheet, initTime, curTime, streamIdx, lastRepeatOpenIdx, repeating,
                       curPlaying, sounding, stop, next>>
        /\ thread' = thread \/ (thread = "finished" /\ thread' = "begin")
        /\ thread # "none"
    BY DEF InsertNote, CloseDocument, DeleteElement, Running
  <2>2. Present
    BY <1>2, <2>1 DEF Present
  <2>3. GoesOn
    BY <2>1 DEF GoesOn, Settled
  <2>4. Walks' /\ Heard' /\ RepeatInv'
    BY <2>1, <2>2, <2>3, WalkStays
  <2>5. \A i : InStep(i)' <=> InStep(i)
    BY <2>1, InStepStays
  <2>6. EndsAlone'
    <3>1. EndsAlone /\ Voices' = Voices
      BY <2>1, SameSheet DEF WalkParts
    <3> QED
      BY <1>2, <2>1, <2>2, <2>5, <3>1 DEF EndsAlone
  <2> QED
    BY <2>4, <2>6 DEF WalkParts
<1> QED
  BY <1>1, <1>2

\* A walk from a that does not pass the end of the section knows the beginnings
\* that it passes, and all that have started by t.
SeeksRight(i, a, t, last) ==
  LET S == Passed(i, a, t)
      s == SeekFrom(i, a, S)
  IN /\ \A o \in 1 .. CloseAt(i) :
          sheet[i][o].kind = "repeatOpen" /\ (o < s \/ sheet[i][o].start <= t) =>
            o <= LastOf(OfKind(i, S, "repeatOpen"), last)
     /\ \/ s <= CloseAt(i)
        \/ s = CloseAt(i) + 1 /\ CloseAt(i) = Len(sheet[i]) /\ a >= CloseAt(i)
     /\ a < CloseAt(i) => s < CloseAt(i)
     /\ S # {} => s < CloseAt(i)

LEMMA SeekRecords ==
  ASSUME sheet \in Sheets, WellMade(sheet), EndTimes # {}, NEW i \in Voices,
         NEW a \in 1 .. Len(sheet[i]) + 1, NEW t \in Nat, NEW last \in Nat,
         a <= CloseAt(i) \/ (a = CloseAt(i) + 1 /\ CloseAt(i) = Len(sheet[i])),
         CloseAt(i) \notin Passed(i, a, t),
         \A o \in 1 .. CloseAt(i) :
           sheet[i][o].kind = "repeatOpen" /\ o < a => o <= last
  PROVE  SeeksRight(i, a, t, last)
<1> DEFINE n == Len(sheet[i])
           c == CloseAt(i)
           S == Passed(i, a, t)
           m == LastOf(S, a)
           s == SeekFrom(i, a, S)
           Opens == OfKind(i, S, "repeatOpen")
           last2 == LastOf(Opens, last)
<1>1. /\ n \in Nat /\ a \in Nat \ {0} /\ c \in 1 .. n /\ sheet[i][c].kind = "repeatClose"
      /\ NoGaps(sheet[i])
  BY SheetIs, RepeatIs DEF WellMade, Voices
<1>2. /\ S \in SUBSET (a .. n) /\ S \in SUBSET (0 .. n)
      /\ \A j \in S : \A k \in a .. j : k \in S
  BY <1>1, PassedIs
<1>3. \A o \in a .. n : sheet[i][o].kind = "repeatOpen" /\ sheet[i][o].start <= t => o \in S
  BY <1>1, PassesUpTo
<1>4. s = IF m = n /\ ~Playable(sheet[i][m]) THEN m + 1 ELSE m
  BY DEF SeekFrom, SkipLast
<1>5. Opens = {j \in S : sheet[i][j].kind = "repeatOpen"}
  BY DEF OfKind
<1>6. /\ c \notin S
      /\ a <= c \/ (a = c + 1 /\ c = n)
      /\ \A o \in 1 .. c : sheet[i][o].kind = "repeatOpen" /\ o < a => o <= last
  OBVIOUS
<1> HIDE DEF S, c, n, Opens
<1>7. \A x \in S : x < c /\ a <= x /\ x \in Nat
  <2> SUFFICES ASSUME NEW x \in S PROVE x < c /\ a <= x /\ x \in Nat
    OBVIOUS
  <2>1. x \in a .. n
    BY <1>2
  <2>2. x < c
    <3> SUFFICES ASSUME ~(x < c) PROVE FALSE
      OBVIOUS
    <3>1. c \in a .. x
      BY <1>1, <1>6, <2>1
    <3> QED
      BY <1>2, <1>6, <3>1
  <2> QED
    BY <1>1, <2>1, <2>2
<1>8. /\ S = {} => m = a
      /\ S # {} => m \in S
  BY <1>1, <1>2, LastIs
<1>9. /\ Opens = {} => last2 = last
      /\ Opens # {} => last2 \in Opens
      /\ \A k \in Opens : k <= last2
  <2>1. Opens \in SUBSET (0 .. n)
    BY <1>2, <1>5
  <2> QED
    BY <1>1, <2>1, LastIs
<1> HIDE DEF m, s, last2
<1>10. S # {} => s = m /\ s \in S /\ s < c
  BY <1>1, <1>4, <1>7, <1>8
<1>11. S = {} => \/ s = a
                 \/ a = n /\ s = n + 1
  BY <1>4, <1>8
<1>12. /\ s <= c \/ (s = c + 1 /\ c = n /\ a >= c)
       /\ a < c => s < c
       /\ S # {} => s < c
  <2>1. CASE S = {}
    BY <1>1, <1>6, <1>11, <2>1
  <2>2. CASE S # {}
    <3>1. s < c /\ s \in Nat
      BY <1>7, <1>10, <2>2
    <3> QED
      BY <1>1, <3>1
  <2> QED
    BY <2>1, <2>2
<1>13. ASSUME NEW o \in 1 .. c, sheet[i][o].kind = "repeatOpen", o < s \/ sheet[i][o].start <= t
       PROVE  o <= last2
  <2>1. o \in Nat /\ o < c /\ o <= n
    BY <1>1, <1>13
  <2>2. CASE o < a
    <3>1. o <= last
      BY <1>6, <1>13, <2>2
    <3>2. CASE Opens = {}
      BY <1>9, <3>1, <3>2
    <3>3. CASE Opens # {}
      <4>1. last2 \in S
        BY <1>5, <1>9, <3>3
      <4>2. a <= last2 /\ last2 \in Nat
        BY <1>7, <4>1
      <4> QED
        BY <1>1, <2>1, <2>2, <4>2
    <3> QED
      BY <3>2, <3>3
  <2>3. CASE ~(o < a)
    <3>1. o \in a .. n
      BY <1>1, <2>1, <2>3
    <3>2. CASE sheet[i][o].start <= t
      BY <1>3, <1>5, <1>9, <1>13, <3>1, <3>2
    <3>3. CASE o < s
      <4>1. S # {}
        BY <1>1, <1>6, <1>11, <2>1, <2>3, <3>3
      <4>2. o \in a .. s /\ s \in S
        BY <1>1, <1>7, <1>10, <3>1, <3>3, <4>1
      <4>3. o \in S
        BY <1>2, <4>2
      <4> QED
        BY <1>5, <1>9, <1>13, <4>3
    <3> QED
      BY <1>13, <3>2, <3>3
  <2> QED
    BY <2>2, <2>3
<1> QED
  BY <1>12, <1>13 DEF SeeksRight, S, s, last2, Opens, c, n

\* No note is left behind.
KeepsNotes(i) ==
  /\ streamIdx'[i] \in Nat
  /\ \A j \in streamIdx[i] .. Len(sheet[i]) : j < streamIdx'[i] => ~Playable(sheet[i][j])

LEMMA HeardStays ==
  ASSUME SheetInv, Present, Heard, UNCHANGED <<sheet, curPlaying, sounding>>,
         \A i \in Voices : Silent(i) \/ KeepsNotes(i)
  PROVE  Heard'
<1>1. /\ \A p : At(p)' = At(p)
      /\ \A n, j : Comes(n, j)' <=> Comes(n, j)
      /\ \A n, p : Makes(p, n)' <=> Makes(p, n)
  BY SameSheet, SameRepeat
<1>2. ASSUME NEW n \in sounding, NEW j \in streamIdx[n[1]] .. Len(sheet[n[1]]), Comes(n, j)
      PROVE  j \in streamIdx'[n[1]] .. Len(sheet[n[1]])
  <2>1. n[1] \in Voices
    BY DEF SheetInv, ListsOK
  <2>2. /\ KeepsNotes(n[1])
        /\ streamIdx[n[1]] \in Nat /\ Len(sheet[n[1]]) \in Nat
    BY <2>1, StreamsAre DEF Silent
  <2>3. ~(j < streamIdx'[n[1]])
    BY <1>2, <2>2 DEF KeepsNotes, Comes, Playable
  <2> QED
    BY <2>2, <2>3 DEF KeepsNotes
<1>3. ASSUME NEW n \in sounding
      PROVE  \/ \E p \in Range(curPlaying) : Makes(p, n) /\ ~At(p).tied
             \/ \E j \in streamIdx'[n[1]] .. Len(sheet[n[1]]) : Comes(n, j)
  BY <1>2 DEF Heard
<1> QED
  BY <1>1, <1>3 DEF Heard

LEMMA WalkSeekOn ==
  ASSUME SheetInv, WellMade(sheet), WalkParts, SeekOn
  PROVE  WalkParts'
<1> DEFINE i == next
           a == streamIdx[i]
           S == Passed(i, a, curTime)
           s == SeekFrom(i, a, S)
           last2 == LastOf(OfKind(i, S, "repeatOpen"), lastRepeatOpenIdx[i])
<1>1. /\ UNCHANGED <<sheet, initTime, curTime, repeating, curPlaying, sounding, stop, thread>>
      /\ thread = "seek" /\ i \in Voices /\ ~JumpsBack(i, S) /\ next' = i + 1
      /\ streamIdx' = [streamIdx EXCEPT ![i] = s]
      /\ lastRepeatOpenIdx' = [lastRepeatOpenIdx EXCEPT ![i] = last2]
  BY DEF SeekOn, windowVars
<1>2. Present /\ Present'
  BY <1>1 DEF Present
<1>3. /\ sheet \in Sheets /\ curTime \in Nat /\ Streams /\ i \in Nat
      /\ \A k \in Voices : /\ Len(sheet[k]) \in Nat /\ streamIdx[k] \in 1 .. Len(sheet[k]) + 1
                           /\ streamIdx[k] \in Nat /\ k \in Nat
                           /\ lastRepeatOpenIdx[k] \in Nat
                           /\ NoGaps(sheet[k])
  BY <1>1, <1>2, ListsAre, StreamsAre, SheetIs DEF WellMade, Voices
<1> HIDE DEF s, last2, S, i
<1>4. /\ streamIdx'[i] = s /\ lastRepeatOpenIdx'[i] = last2
      /\ \A k \in Voices : k # i => /\ streamIdx'[k] = streamIdx[k]
                                    /\ lastRepeatOpenIdx'[k] = lastRepeatOpenIdx[k]
  BY <1>1, <1>3 DEF Streams
<1>5. /\ Voices' = Voices /\ \A p : At(p)' = At(p)
      /\ RepeatEnd' = RepeatEnd /\ \A k : CloseAt(k)' = CloseAt(k)
      /\ (Far' <=> Far)
      /\ \A k : PlayingOf(k)' = PlayingOf(k) /\ (Silent(k)' <=> Silent(k))
  BY <1>1, SameSheet, SameRepeat DEF PlayingOf, Silent
<1>6. \A k \in Voices : InStep(k) \/ Silent(k)
  BY <1>2 DEF WalkParts, Walks
<1>7. \A k \in Voices : InStep(k) => InStep(k)' /\ WalksQuietly(k, streamIdx[k], streamIdx'[k])
  BY <1>3, InStepSeekOn
<1>8. Walks'
  BY <1>5, <1>6, <1>7 DEF Walks
<1>9. Heard'
  <2>1. ASSUME NEW k \in Voices, InStep(k) PROVE KeepsNotes(k)
    <3>1. /\ streamIdx'[k] \in streamIdx[k] .. Len(sheet[k]) + 1
          /\ \A j \in streamIdx[k] .. streamIdx'[k] - 1 : ~Playable(sheet[k][j])
      BY <1>7, <2>1 DEF WalksQuietly
    <3> QED
      BY <1>3, <3>1 DEF KeepsNotes
  <2> QED
    BY <1>1, <1>2, <1>6, <2>1, HeardStays DEF WalkParts
<1>10. EndsAlone'
  <2>1. ~stop
    BY <1>1 DEF WalkParts, EndsAlone
  <2> QED
    BY <1>1, <2>1 DEF EndsAlone
<1>11. RepeatInv'
  <2>1. CASE ~Far
    <3>1. ~repeating /\ AllPassed
      BY <1>2, <2>1 DEF WalkParts, RepeatInv
    <3>2. \A k \in Voices : streamIdx[k] <= streamIdx'[k] /\ streamIdx'[k] \in Nat
      BY StreamsGoOn
    <3>3. AllPassed'
      BY <1>1, <1>3, <1>5, <3>1, <3>2 DEF AllPassed
    <3> QED
      BY <1>1, <1>5, <2>1, <3>1, <3>3 DEF RepeatInv
  <2>2. CASE Far /\ ~repeating
    <3>1. NotYet
      BY <1>2, <2>2 DEF WalkParts, RepeatInv
    <3>2. EndTimes # {}
      BY <2>2 DEF Far
    <3>3. /\ RepeatEnd \in Nat
          /\ \A k \in Voices : /\ CloseAt(k) \in 1 .. Len(sheet[k]) /\ CloseAt(k) \in Nat
                               /\ sheet[k][CloseAt(k)].kind = "repeatClose"
                               /\ sheet[k][CloseAt(k)].start = RepeatEnd
      BY <1>3, <3>2, RepeatIs
    <3>4. CloseAt(i) \notin S
      BY <1>1, <2>2, <3>3 DEF JumpsBack, OfKind
    <3>5. SeeksRight(i, a, curTime, lastRepeatOpenIdx[i])
      <4>1. \A o \in 1 .. CloseAt(i) :
              sheet[i][o].kind = "repeatOpen" /\ o < a => o <= lastRepeatOpenIdx[i]
        BY <1>1, <3>1 DEF NotYet, Recorded
      <4>2. a <= CloseAt(i) \/ (a = CloseAt(i) + 1 /\ CloseAt(i) = Len(sheet[i]))
        BY <1>1, <3>1 DEF NotYet, NotPast
      <4> QED
        BY <1>1, <1>3, <3>2, <3>4, <4>1, <4>2, SeekRecords DEF S
    <3>6. /\ \A o \in 1 .. CloseAt(i) :
               sheet[i][o].kind = "repeatOpen" /\ (o < s \/ sheet[i][o].start <= curTime) =>
                 o <= last2
          /\ \/ s <= CloseAt(i)
             \/ s = CloseAt(i) + 1 /\ CloseAt(i) = Len(sheet[i]) /\ a >= CloseAt(i)
          /\ a < CloseAt(i) => s < CloseAt(i)
      BY <3>5 DEF SeeksRight, S, s, last2
    <3>7. PlaysBefore'
      BY <1>1, <1>5, <3>1 DEF NotYet, PlaysBefore
    <3>8. ASSUME NEW k \in Voices PROVE Recorded(k)'
      <4>1. CASE k = i
        BY <1>1, <1>4, <1>5, <3>6, <4>1 DEF Recorded
      <4>2. CASE k # i
        <5>1. Settled(k)' => Settled(k)
          BY <1>1, <1>3, <4>2 DEF Settled, i
        <5> QED
          BY <1>1, <1>4, <1>5, <3>1, <4>2, <5>1 DEF NotYet, Recorded
      <4> QED
        BY <4>1, <4>2
    <3>9. ASSUME NEW k \in Voices PROVE Landed(k)'
      <4>1. CASE k = i
        <5>1. Lands(i, a, curTime)
          BY <1>1, <1>3, SeekLands
        <5>2. s <= Len(sheet[i]) /\ sheet[i][s].start <= curTime => Playable(sheet[i][s])
          BY <5>1 DEF Lands, S, s
        <5>3. s <= Len(sheet[i]) /\ sheet[i][s].start = curTime => Playable(sheet[i][s])
          BY <1>3, <5>2
        <5> QED
          BY <1>1, <1>4, <4>1, <5>3 DEF Landed
      <4>2. CASE k # i
        <5>1. Settled(k)' => Settled(k)
          BY <1>1, <1>3, <4>2 DEF Settled, i
        <5> QED
          BY <1>1, <1>4, <3>1, <4>2, <5>1 DEF NotYet, Landed
      <4> QED
        BY <4>1, <4>2
    <3>10. ASSUME NEW k \in Voices PROVE NotPast(k)'
      <4>1. CASE k = i
        <5>1. CASE s <= CloseAt(i)
          BY <1>4, <1>5, <4>1, <5>1 DEF NotPast
        <5>2. CASE s = CloseAt(i) + 1 /\ CloseAt(i) = Len(sheet[i]) /\ a >= CloseAt(i)
          <6>1. \A p \in PlayingOf(i) : At(p).end = RepeatEnd
            <7>1. CASE Silent(i)
              BY <7>1 DEF Silent
            <7>2. CASE InStep(i) /\ a = CloseAt(i)
              BY <1>1, <1>3, <3>3, <5>2, <7>2 DEF InStep
            <7>3. CASE a # CloseAt(i)
              BY <1>1, <1>3, <3>1, <3>3, <5>2, <7>3 DEF NotYet, NotPast
            <7> QED
              BY <1>1, <1>6, <7>1, <7>2, <7>3
          <6> QED
            BY <1>1, <1>4, <1>5, <4>1, <5>2, <6>1 DEF NotPast
        <5> QED
          BY <3>6, <5>1, <5>2
      <4>2. CASE k # i
        BY <1>1, <1>4, <1>5, <3>1, <4>2 DEF NotYet, NotPast
      <4> QED
        BY <4>1, <4>2
    <3>11. Meets'
      <4>1. curTime <= RepeatEnd
        BY <3>1 DEF NotYet, Meets
      <4>2. ASSUME curTime < RepeatEnd PROVE \E m \in Voices : streamIdx'[m] < CloseAt(m)
        <5>1. PICK m \in Voices : streamIdx[m] < CloseAt(m)
          BY <3>1, <4>2 DEF NotYet, Meets
        <5>2. streamIdx'[m] < CloseAt(m)
          BY <1>4, <3>6, <5>1
        <5> QED
          BY <5>2
      <4>3. ASSUME curTime = RepeatEnd
            PROVE  \E m \in Voices : streamIdx'[m] <= CloseAt(m) /\ next' <= m
        <5>1. PICK m \in Voices : streamIdx[m] <= CloseAt(m) /\ i <= m
          BY <1>1, <3>1, <4>3 DEF NotYet, Meets, i
        <5>2. m # i
          <6> SUFFICES ASSUME m = i PROVE FALSE
            OBVIOUS
          <6>1. CloseAt(i) \in a .. Len(sheet[i]) /\ a \in Nat \ {0}
            BY <1>1, <1>3, <3>3, <5>1
          <6>2. CloseAt(i) \in S
            BY <1>1, <1>3, <3>3, <4>3, <6>1, PassesUpTo DEF S
          <6> QED
            BY <3>4, <6>2
        <5> QED
          BY <1>1, <1>3, <1>4, <5>1, <5>2
      <4> QED
        BY <1>1, <1>5, <4>1, <4>2, <4>3 DEF Meets
    <3> QED
      BY <1>5, <2>2, <3>7, <3>8, <3>9, <3>10, <3>11 DEF RepeatInv, NotYet
  <2>3. CASE Far /\ repeating
    BY <1>1, <1>5, <2>3 DEF RepeatInv
  <2> QED
    BY <2>1, <2>2, <2>3
<1> QED
  BY <1>8, <1>9, <1>10, <1>11 DEF WalkParts

LEMMA WalkBegin ==
  ASSUME SheetInv, WellMade(sheet), WalkParts, Begin
  PROVE  WalkParts'
<1> USE DEF windowVars, threadVars
<1>1. /\ UNCHANGED <<sheet, initTime, curPlaying, sounding>>
      /\ thread = "begin" /\ thread' = "test" /\ stop' = (sheet = << >>)
      /\ curPlaying = << >>
  BY DEF Begin, InitStreams, SheetInv, NoneOver
<1>2. EndsAlone'
  <2>1. stop' => Voices' = {}
    <3>1. stop' => sheet = << >>
      BY <1>1, Zenon
    <3>2. sheet = << >> => DOMAIN sheet = {}
      OBVIOUS
    <3> QED
      BY <1>1, <3>1, <3>2 DEF Voices
  <2> QED
    BY <1>1, <2>1 DEF EndsAlone
<1>3. CASE streamIdx # << >>
  <2>1. Present /\ UNCHANGED <<curTime, streamIdx, lastRepeatOpenIdx, repeating>>
    BY <1>3 DEF Begin, Present
  <2>2. GoesOn
    BY <1>1 DEF GoesOn, Settled
  <2> QED
    BY <1>1, <1>2, <2>1, <2>2, WalkStays DEF WalkParts
<1>4. CASE streamIdx = << >>
  <2> DEFINE S(i) == Passed(i, 1, initTime)
             s(i) == SeekFrom(i, 1, S(i))
  <2>1. /\ curTime' = initTime /\ repeating' = FALSE
        /\ streamIdx' = [i \in Voices |-> s(i)]
        /\ lastRepeatOpenIdx' = [i \in Voices |-> LastOf(OfKind(i, S(i), "repeatOpen"), 0)]
    BY <1>4 DEF Begin, InitStreams
  <2>2. sounding = {}
    BY <1>1, <1>4 DEF SheetInv, StreamsOK, Present, Fresh
  <2>3. Walks' /\ Heard'
    BY <1>1, <2>2 DEF Walks, Heard, Silent, PlayingOf, Range
  <2>4. /\ Voices' = Voices /\ RepeatEnd' = RepeatEnd /\ \A k : CloseAt(k)' = CloseAt(k)
        /\ (Far' <=> Far)
    BY <1>1, SameSheet, SameRepeat
  <2>5. /\ sheet \in Sheets /\ initTime \in Nat
        /\ \A k \in Voices : /\ Len(sheet[k]) \in Nat /\ 1 \in 1 .. Len(sheet[k]) + 1
                             /\ DOMAIN sheet[k] = 1 .. Len(sheet[k])
                             /\ NoGaps(sheet[k]) /\ k \in Nat
    BY SheetIs DEF SheetInv, Values, WellMade, Voices
  <2>6. CASE ~Far
    <3>1. ASSUME NEW i \in Voices, NEW c \in 1 .. Len(sheet[i]),
                 sheet[i][c].kind = "repeatClose"
          PROVE  c < s(i)
      <4>1. sheet[i][c].start <= initTime
        <5>1. <<i, c>> \in Positions
          BY <2>5, PositionsAre
        <5>2. sheet[i][c].start \in EndTimes
          BY <3>1, <5>1 DEF EndTimes, At
        <5>3. sheet[i][c].start \in Nat
          BY <2>5, SheetIs
        <5> QED
          BY <2>5, <2>6, <5>2, <5>3 DEF Far
      <4>2. c \in S(i)
        <5>1. sheet[i][c].kind # "note" /\ 1 \in Nat \ {0}
          BY <3>1
        <5>2. c \in Passed(i, 1, initTime)
          BY <2>5, <4>1, <5>1, PassesUpTo
        <5> QED
          BY <5>2
      <4>3. Lands(i, 1, initTime)
        BY <2>5, SeekLands
      <4> QED
        BY <3>1, <4>2, <4>3 DEF Lands, Playable
    <3> HIDE DEF s
    <3>2. AllPassed'
      BY <1>1, <2>1, <2>4, <3>1 DEF AllPassed
    <3> QED
      BY <1>2, <2>1, <2>3, <2>4, <2>6, <3>2 DEF WalkParts, RepeatInv
  <2>7. CASE Far
    <3>1. EndTimes # {}
      BY <2>7 DEF Far
    <3>2. /\ RepeatEnd \in Nat /\ Voices # {} /\ EndTimes = {RepeatEnd}
          /\ \A k \in Voices : /\ CloseAt(k) \in 1 .. Len(sheet[k]) /\ CloseAt(k) \in Nat
                               /\ sheet[k][CloseAt(k)].kind = "repeatClose"
                               /\ sheet[k][CloseAt(k)].start = RepeatEnd
      BY <2>5, <3>1, RepeatIs
    <3>3. initTime < RepeatEnd
      BY <2>7, <3>2 DEF Far
    <3>4. ASSUME NEW i \in Voices
          PROVE  /\ SeeksRight(i, 1, initTime, 0) /\ S(i) # {}
      <4>1. CloseAt(i) \notin S(i)
        <5>1. CloseAt(i) \in S(i) => sheet[i][CloseAt(i)].start <= initTime
          BY <2>5, PassedIs
        <5> QED
          BY <2>5, <3>2, <3>3, <5>1
      <4>2. SeeksRight(i, 1, initTime, 0)
        <5>1. \A o \in 1 .. CloseAt(i) : ~(o < 1)
          BY <3>2
        <5>2. 1 <= CloseAt(i)
          BY <3>2
        <5> QED
          BY <2>5, <3>1, <4>1, <5>1, <5>2, SeekRecords
      <4>3. 1 \in S(i)
        <5>1. sheet[i][1].start = 0 /\ 1 \in 1 .. Len(sheet[i]) /\ \A k \in 1 .. 1 : k = 1
          <6>1. Len(sheet[i]) >= 1 /\ sheet[i] # << >>
            BY <2>5, <3>2
          <6> QED
            BY <2>5, <6>1 DEF NoGaps
        <5>2. Passes(i, 1, initTime)
          BY <2>5, <5>1 DEF Passes, FirstInChord
        <5> QED
          BY <5>1, <5>2 DEF Passed
      <4> QED
        BY <4>2, <4>3
    <3>5. ASSUME NEW i \in Voices
          PROVE  /\ \A o \in 1 .. CloseAt(i) :
                      sheet[i][o].kind = "repeatOpen" /\ o < s(i) =>
                        o <= LastOf(OfKind(i, S(i), "repeatOpen"), 0)
                 /\ s(i) < CloseAt(i)
      BY <3>4 DEF SeeksRight
    <3> HIDE DEF s, S
    <3>6. ASSUME NEW i \in Voices PROVE NotPast(i)' /\ Recorded(i)' /\ Landed(i)'
      <4>1. ~Settled(i)'
        BY <1>1 DEF Settled
      <4>2. s(i) <= CloseAt(i)
        <5>1. s(i) \in 1 .. Len(sheet[i]) + 1
          <6>1. 1 \in Nat /\ 1 <= 1 /\ OpenOrNone(i, 0, 1)
            BY DEF OpenOrNone
          <6>2. WalksOn(i, 1, 1, initTime, 0)
            BY <2>5, <6>1, SeekFromIs
          <6> QED
            BY <6>2 DEF WalksOn, s, S
        <5> QED
          BY <2>5, <3>2, <3>5, <5>1
      <4>3. NotPast(i)'
        BY <2>1, <2>4, <4>2 DEF NotPast
      <4>4. Recorded(i)'
        BY <1>1, <2>1, <2>4, <3>5, <4>1 DEF Recorded
      <4> QED
        BY <4>1, <4>3, <4>4 DEF Landed
    <3>7. Meets'
      <4>1. initTime <= RepeatEnd /\ initTime # RepeatEnd
        BY <2>5, <3>2, <3>3
      <4>2. \E m \in Voices : streamIdx'[m] < CloseAt(m)
        BY <2>1, <3>2, <3>5
      <4> QED
        BY <2>1, <2>4, <4>1, <4>2 DEF Meets
    <3>8. PlaysBefore'
      BY <1>1 DEF PlaysBefore, Range
    <3>9. NotYet'
      BY <2>4, <3>6, <3>7, <3>8 DEF NotYet
    <3> QED
      BY <1>2, <2>3, <2>4, <2>7, <3>9 DEF WalkParts, RepeatInv
  <2> QED
    BY <2>6, <2>7
<1> QED
  BY <1>3, <1>4

LEMMA WalkTurnOff ==
  ASSUME SheetInv, WalkParts, TurnOff
  PROVE  WalkParts'
<1> DEFINE q == curPlaying[next]
<1>1. /\ UNCHANGED <<sheet, initTime, curTime, streamIdx, lastRepeatOpenIdx, repeating, stop,
                     next, thread>>
      /\ thread = "off" /\ next \in 1 .. Len(curPlaying)
      /\ curPlaying' = RemoveAt(curPlaying, next)
      /\ sounding' = sounding \ NoteOff(q)
  BY DEF TurnOff, windowVars, SheetInv, Values, ListsOK
<1>2. Present /\ Present'
  BY <1>1 DEF Present
<1>3. /\ curPlaying \in Seq(Positions) /\ q \in Range(curPlaying)
  BY <1>1, ListsAre DEF Range
<1>4. /\ Range(curPlaying') \subseteq Range(curPlaying)
      /\ \A x \in Range(curPlaying) : x # q => x \in Range(curPlaying')
  BY <1>1, <1>3, LeftOver
<1> HIDE DEF q
<1>5. ~stop /\ EndsAlone'
  BY <1>1 DEF WalkParts, EndsAlone
<1>6. /\ Voices' = Voices /\ \A p : At(p)' = At(p)
      /\ RepeatEnd' = RepeatEnd /\ \A k : CloseAt(k)' = CloseAt(k)
      /\ (Far' <=> Far)
      /\ \A n, j : Comes(n, j)' <=> Comes(n, j)
      /\ \A n, p : Makes(p, n)' <=> Makes(p, n)
  BY <1>1, SameSheet, SameRepeat
<1>7. \A i : PlayingOf(i)' \subseteq PlayingOf(i)
  BY <1>4 DEF PlayingOf
<1>8. Walks'
  <2>1. \A i \in Voices : InStep(i) => InStep(i)'
    BY <1>5, InStepTurnOff
  <2>2. \A i : Silent(i) => Silent(i)'
    BY <1>1, <1>7 DEF Silent
  <2> QED
    BY <1>2, <1>6, <2>1, <2>2 DEF WalkParts, Walks
<1>9. Heard'
  <2>1. ASSUME NEW n \in sounding', NEW p \in Range(curPlaying), Makes(p, n), ~At(p).tied
        PROVE  p \in Range(curPlaying')
    <3>1. n = <<n[1], n[2]>> /\ n \notin NoteOff(q)
      BY <1>1 DEF SheetInv, ListsOK
    <3>2. p # q
      BY <2>1, <3>1 DEF NoteOff, Makes
    <3> QED
      BY <1>4, <3>2
  <2> QED
    BY <1>1, <1>6, <2>1 DEF WalkParts, Heard
<1>10. RepeatInv'
  <2>1. \A i : Settled(i)' <=> Settled(i)
    BY <1>1 DEF Settled
  <2>2. NotYet => NotYet'
    BY <1>1, <1>4, <1>6, <1>7, <2>1 DEF NotYet, Meets, PlaysBefore, NotPast, Recorded, Landed
  <2>3. AllPassed' <=> AllPassed
    BY <1>1, <1>6 DEF AllPassed
  <2> QED
    BY <1>1, <1>2, <1>6, <2>2, <2>3 DEF WalkParts, RepeatInv
<1> QED
  BY <1>5, <1>8, <1>9, <1>10 DEF WalkParts

\* What starts in voice i when the notes are turned on.
RunIn(i) ==
  /\ streamIdx[i] \in Nat \ {0} /\ streamIdx'[i] \in Nat \ {0} /\ Len(sheet[i]) \in Nat
  /\ streamIdx[i] <= streamIdx'[i] /\ streamIdx'[i] <= Len(sheet[i]) + 1
  /\ streamIdx'[i] = Beyond(i)
  /\ Starting(i) = streamIdx[i] .. streamIdx'[i] - 1
  /\ \A j \in Starting(i) : j \in 1 .. Len(sheet[i]) /\ sheet[i][j].start = curTime
  /\ PlayingOf(i)' = PlayingOf(i) \cup {p \in StartedNotes : p[1] = i}

LEMMA RunInIs ==
  ASSUME SheetInv, TurnOn, NEW i \in Voices
  PROVE  RunIn(i)
<1>1. /\ streamIdx' = [k \in Voices |-> Beyond(k)] /\ thread = "on"
  BY DEF TurnOn, Beyond
<1>2. sheet \in Sheets /\ curTime \in Nat /\ Streams /\ streamIdx[i] \in Nat \ {0}
      /\ Len(sheet[i]) \in Nat
  BY <1>1, ListsAre, StreamsAre DEF Present
<1> DEFINE c == Cardinality(Starting(i))
<1>3. /\ c \in Nat /\ Starting(i) = streamIdx[i] .. streamIdx[i] + c - 1
      /\ streamIdx[i] + c <= Len(sheet[i]) + 1
      /\ Starting(i) \subseteq 1 .. Len(sheet[i])
      /\ \A j \in Starting(i) : sheet[i][j].start = curTime
  BY <1>2, StartingIs
<1>4. Beyond(i) = streamIdx[i] + c /\ streamIdx'[i] = Beyond(i)
  BY <1>1 DEF Beyond
<1> HIDE DEF c
<1>5. /\ Beyond(i) \in Nat \ {0} /\ streamIdx[i] <= Beyond(i) /\ Beyond(i) <= Len(sheet[i]) + 1
      /\ Beyond(i) - 1 = streamIdx[i] + c - 1
  <2>1. c \in Nat /\ streamIdx[i] + c <= Len(sheet[i]) + 1
    BY <1>3
  <2> DEFINE a == streamIdx[i]
             b == Beyond(i)
  <2>2. a \in Nat \ {0} /\ b = a + c
    BY <1>2, <1>4
  <2> HIDE DEF a, b
  <2>3. b \in Nat \ {0} /\ a <= b /\ b - 1 = a + c - 1
    BY <2>1, <2>2
  <2> QED
    BY <1>4, <2>1, <2>3 DEF a, b
<1>6. PlayingOf(i)' = PlayingOf(i) \cup {p \in StartedNotes : p[1] = i}
  BY TurnsOnIs DEF TurnsOn, PlayingOf
<1> QED
  BY <1>2, <1>3, <1>4, <1>5, <1>6 DEF RunIn

LEMMA WalksTurnOn ==
  ASSUME SheetInv, WellMade(sheet), WalkParts, TurnOn
  PROVE  Walks' /\ \A i \in Voices : InStep(i)' \/ Silent(i)'
<1>1. /\ thread = "on" /\ sheet' = sheet
      /\ sounding' = sounding \cup
           {<<p[1], At(p).pitch>> : p \in {q \in Started : At(q).kind = "note" /\ ~At(q).held}}
  BY DEF TurnOn, Started, windowVars
<1>2. Voices' = Voices /\ sheet \in Sheets /\ curTime \in Nat /\ Streams /\ Present
  BY <1>1, ListsAre, StreamsAre, SameSheet DEF Present
<1>3. ASSUME NEW i \in Voices PROVE InStep(i)' \/ Silent(i)'
  <2>1. InStep(i) \/ Silent(i)
    BY <1>2 DEF WalkParts, Walks
  <2>2. NoGaps(sheet[i])
    BY DEF WellMade, Voices
  <2>3. CASE InStep(i) \/ (PlayingOf(i) = {} /\ Starting(i) # {})
    BY <2>2, <2>3, InStepTurnOn
  <2>4. CASE Silent(i) /\ Starting(i) = {}
    <3>1. \A p \in Started : p[1] # i
      BY <1>2, <2>4, StartedIs
    <3>2. PlayingOf(i)' = PlayingOf(i) \cup {p \in StartedNotes : p[1] = i}
      BY RunInIs DEF RunIn
    <3>3. PlayingOf(i)' = {}
      BY <2>4, <3>1, <3>2 DEF StartedNotes, Silent
    <3>4. \A n \in sounding' : n[1] # i
      BY <1>1, <2>4, <3>1 DEF Silent
    <3> QED
      BY <3>3, <3>4 DEF Silent
  <2> QED
    BY <2>1, <2>3, <2>4 DEF Silent
<1> QED
  BY <1>2, <1>3 DEF Walks

LEMMA EndsAloneTurnOn ==
  ASSUME SheetInv, WalkParts, TurnOn
  PROVE  EndsAlone'
<1>1. thread = "on" /\ thread' = "test" /\ sheet' = sheet
  BY DEF TurnOn, windowVars
<1>2. ~stop
  BY <1>1 DEF WalkParts, EndsAlone
<1>3. SUFFICES ASSUME stop'
               PROVE  /\ curPlaying' = << >>
                      /\ \A i \in Voices' : InStep(i)' => streamIdx'[i] = Len(sheet[i]) + 1
  BY <1>1 DEF EndsAlone
<1>4. Started = {} /\ curPlaying' = << >> /\ curTime' = curTime
  BY <1>2, <1>3, TurnsOnIs DEF TurnsOn
<1>5. ASSUME NEW i \in Voices', InStep(i)'
      PROVE  streamIdx'[i] = Len(sheet[i]) + 1
  <2>0. i \in Voices
    BY <1>1, SameSheet
  <2>1. RunIn(i)
    BY <2>0, RunInIs
  <2>2. Starting(i) = {}
    <3> SUFFICES ASSUME NEW j \in Starting(i) PROVE FALSE
      OBVIOUS
    <3>1. <<i, j>> \in Started
      BY <2>0 DEF Started
    <3> QED
      BY <1>4, <3>1
  <2>3. streamIdx'[i] = streamIdx[i]
    <3>1. ~(streamIdx[i] <= streamIdx'[i] - 1)
      <4> SUFFICES ASSUME streamIdx[i] <= streamIdx'[i] - 1 PROVE FALSE
        OBVIOUS
      <4>1. streamIdx[i] \in Starting(i)
        BY <2>1 DEF RunIn
      <4> QED
        BY <2>2, <4>1
    <3> QED
      BY <2>1, <3>1 DEF RunIn
  <2> SUFFICES ASSUME streamIdx[i] <= Len(sheet[i]) PROVE FALSE
    BY <2>1, <2>3 DEF RunIn
  <2>4. PlayingOf(i)' = {}
    BY <1>4 DEF PlayingOf, Range
  <2>5. sheet[i][streamIdx[i]].start = curTime
    BY <1>1, <1>4, <1>5, <2>3, <2>4 DEF InStep
  <2>6. streamIdx[i] \in Starting(i)
    <3>1. streamIdx[i] \in streamIdx[i] .. Len(sheet[i])
          /\ \A k \in streamIdx[i] .. streamIdx[i] : k = streamIdx[i]
      BY <2>1 DEF RunIn
    <3> QED
      BY <2>5, <3>1 DEF Starting
  <2> QED
    BY <2>2, <2>6
<1> QED
  BY <1>4, <1>5

LEMMA HeardTurnOn ==
  ASSUME SheetInv, WellMade(sheet), WalkParts, TurnOn
  PROVE  Heard'
<1>1. /\ thread = "on" /\ sheet' = sheet
      /\ sounding' = sounding \cup
           {<<p[1], At(p).pitch>> : p \in {q \in Started : At(q).kind = "note" /\ ~At(q).held}}
  BY DEF TurnOn, Started, windowVars
<1>2. Voices' = Voices /\ sheet \in Sheets /\ curTime \in Nat /\ Streams /\ Present
  BY <1>1, ListsAre, StreamsAre, SameSheet DEF Present
<1>3. Range(curPlaying') = Range(curPlaying) \cup StartedNotes
  BY TurnsOnIs DEF TurnsOn
<1>4. /\ \A p : At(p)' = At(p)
      /\ \A n, j : Comes(n, j)' <=> Comes(n, j)
      /\ \A n, p : Makes(p, n)' <=> Makes(p, n)
  BY <1>1, SameSheet, SameRepeat
<1> DEFINE Ends(n) == \/ \E p \in Range(curPlaying') : Makes(p, n) /\ ~At(p).tied
                      \/ \E j \in streamIdx'[n[1]] .. Len(sheet[n[1]]) : Comes(n, j)
<1>5. ASSUME NEW n, n[1] \in Voices,
             NEW j \in streamIdx[n[1]] .. Len(sheet[n[1]]), Comes(n, j)
      PROVE  Ends(n)
  <2>1. RunIn(n[1])
    BY <1>5, RunInIs
  <2>2. CASE j \in Starting(n[1])
    <3>1. <<n[1], j>> \in Started /\ At(<<n[1], j>>) = sheet[n[1]][j]
      BY <1>5, <2>2 DEF Started, At
    <3>2. <<n[1], j>> \in StartedNotes /\ Makes(<<n[1], j>>, n) /\ ~At(<<n[1], j>>).tied
      BY <1>5, <3>1 DEF StartedNotes, Comes, Makes, Playable
    <3> QED
      BY <1>3, <3>2
  <2>3. CASE j \notin Starting(n[1])
    <3>1. j \in streamIdx'[n[1]] .. Len(sheet[n[1]])
      BY <1>5, <2>1, <2>3 DEF RunIn
    <3> QED
      BY <1>5, <3>1
  <2> QED
    BY <2>2, <2>3
<1>6. ASSUME NEW n \in sounding PROVE Ends(n)
  <2>1. n[1] \in Voices
    BY DEF SheetInv, ListsOK
  <2>2. CASE \E p \in Range(curPlaying) : Makes(p, n) /\ ~At(p).tied
    BY <1>3, <2>2
  <2>3. CASE \E j \in streamIdx[n[1]] .. Len(sheet[n[1]]) : Comes(n, j)
    <3> HIDE DEF Ends
    <3> QED
      BY <1>5, <2>1, <2>3
  <2> QED
    BY <2>2, <2>3 DEF WalkParts, Heard
<1>7. ASSUME NEW p \in Started, At(p).kind = "note", NEW n, n = <<p[1], At(p).pitch>>
      PROVE  Ends(n)
  <2>1. /\ p \in Positions /\ p[2] \in Starting(p[1]) /\ p[1] \in Voices
        /\ p[2] \in 1 .. Len(sheet[p[1]])
    BY <1>2, StartedIs, PositionsAre
  <2>2. RunIn(p[1])
    BY <2>1, RunInIs
  <2>3. CASE ~At(p).tied
    <3>1. p \in StartedNotes /\ Makes(p, n)
      BY <1>7 DEF StartedNotes, Makes, Playable
    <3> QED
      BY <1>3, <2>3, <3>1
  <2>4. CASE At(p).tied
    <3>1. DOMAIN sheet[p[1]] = 1 .. Len(sheet[p[1]])
      BY <1>2, <2>1, SheetIs
    <3>2. TiesEnd(sheet[p[1]])
      BY <2>1 DEF WellMade, Voices
    <3>3. PICK k \in 1 .. Len(sheet[p[1]]) :
            /\ p[2] < k /\ sheet[p[1]][k].kind = "note" /\ ~sheet[p[1]][k].tied
            /\ sheet[p[1]][k].pitch = sheet[p[1]][p[2]].pitch
      BY <2>1, <2>4, <3>1, <3>2 DEF TiesEnd, At
    <3>4. n[1] = p[1] /\ k \in streamIdx[n[1]] .. Len(sheet[n[1]]) /\ Comes(n, k)
      <4>1. n[1] = p[1] /\ n[2] = sheet[p[1]][p[2]].pitch
        BY <1>7 DEF At
      <4>2. streamIdx[p[1]] <= p[2] /\ p[2] \in Nat
        BY <2>1, <2>2 DEF RunIn
      <4>3. k \in streamIdx[p[1]] .. Len(sheet[p[1]])
        BY <2>2, <3>3, <4>2 DEF RunIn
      <4> QED
        BY <3>3, <4>1, <4>3 DEF Comes
    <3> HIDE DEF Ends
    <3> QED
      BY <1>5, <2>1, <3>4
  <2> QED
    BY <2>3, <2>4
<1>8. \A n \in sounding' : Ends(n)
  <2> HIDE DEF Ends
  <2> QED
    BY <1>1, <1>6, <1>7
<1> QED
  BY <1>1, <1>4, <1>8 DEF Heard

LEMMA RepeatTurnOn ==
  ASSUME SheetInv, WellMade(sheet), WalkParts, TurnOn
  PROVE  RepeatInv'
<1>1. /\ thread = "on" /\ thread' = "test"
      /\ UNCHANGED <<sheet, initTime, lastRepeatOpenIdx, repeating>>
  BY DEF TurnOn, windowVars
<1>2. /\ sheet \in Sheets /\ curTime \in Nat /\ Streams /\ Present
      /\ \A k \in Voices : /\ Len(sheet[k]) \in Nat /\ DOMAIN sheet[k] = 1 .. Len(sheet[k])
                           /\ NoGaps(sheet[k]) /\ RunIn(k)
  BY <1>1, ListsAre, StreamsAre, RunInIs DEF Present, WellMade, Voices
<1>3. /\ Voices' = Voices /\ \A p : At(p)' = At(p)
      /\ RepeatEnd' = RepeatEnd /\ \A k : CloseAt(k)' = CloseAt(k)
      /\ (Far' <=> Far)
  BY <1>1, SameSheet, SameRepeat
<1>4. \A i \in Voices : InStep(i)' \/ Silent(i)'
  BY WalksTurnOn
<1>5. CASE ~Far
  <2>1. ~repeating /\ AllPassed
    BY <1>2, <1>5 DEF WalkParts, RepeatInv
  <2>2. \A k \in Voices : streamIdx[k] <= streamIdx'[k] /\ streamIdx'[k] \in Nat /\ streamIdx[k] \in Nat
    BY StreamsGoOn
  <2>3. AllPassed'
    BY <1>1, <1>2, <1>3, <2>1, <2>2 DEF AllPassed
  <2> QED
    BY <1>1, <1>3, <1>5, <2>1, <2>3 DEF RepeatInv
<1>6. CASE Far /\ repeating
  BY <1>1, <1>3, <1>6 DEF RepeatInv
<1>7. CASE Far /\ ~repeating
  <2>1. NotYet
    BY <1>2, <1>7 DEF WalkParts, RepeatInv
  <2>2. EndTimes # {}
    BY <1>7 DEF Far
  <2>3. /\ RepeatEnd \in Nat
        /\ \A k \in Voices : /\ CloseAt(k) \in 1 .. Len(sheet[k]) /\ CloseAt(k) \in Nat
                             /\ sheet[k][CloseAt(k)].kind = "repeatClose"
                             /\ sheet[k][CloseAt(k)].start = RepeatEnd
    BY <1>2, <2>2, RepeatIs
  <2>4. /\ curTime < RepeatEnd
        /\ \E m \in Voices : streamIdx[m] < CloseAt(m)
    BY <1>1, <1>2, <2>1, <2>3 DEF NotYet, Meets
  <2>5. \A k \in Voices : \A j \in 1 .. Len(sheet[k]) :
          /\ sheet[k][j].start \in Nat /\ sheet[k][j].end \in Nat
          /\ \A l \in 1 .. j : sheet[k][l].start <= sheet[k][j].start
    BY <1>2, SheetIs
  \* The run of what starts is before the end of the section.
  <2>6. ASSUME NEW k \in Voices
        PROVE  /\ CloseAt(k) \notin Starting(k)
               /\ \A j \in Starting(k) : j < CloseAt(k)
               /\ streamIdx[k] <= CloseAt(k) => streamIdx'[k] <= CloseAt(k)
               /\ streamIdx[k] = CloseAt(k) + 1 /\ CloseAt(k) = Len(sheet[k]) =>
                    streamIdx'[k] = streamIdx[k] /\ Starting(k) = {}
    <3>1. /\ streamIdx[k] \in Nat \ {0} /\ streamIdx'[k] \in Nat \ {0} /\ Len(sheet[k]) \in Nat
          /\ streamIdx[k] <= streamIdx'[k] /\ streamIdx'[k] <= Len(sheet[k]) + 1
          /\ Starting(k) = streamIdx[k] .. streamIdx'[k] - 1
          /\ \A j \in Starting(k) : j \in 1 .. Len(sheet[k]) /\ sheet[k][j].start = curTime
      BY <1>2 DEF RunIn
    <3>2. CloseAt(k) \notin Starting(k)
      BY <1>2, <2>3, <2>4, <3>1
    <3>3. ASSUME NEW j \in Starting(k) PROVE j < CloseAt(k)
      <4> SUFFICES ASSUME ~(j < CloseAt(k)) PROVE FALSE
        OBVIOUS
      <4>1. j \in 1 .. Len(sheet[k]) /\ sheet[k][j].start = curTime
        BY <3>1
      <4>2. CloseAt(k) \in 1 .. j
        BY <2>3, <3>1, <4>1
      <4>3. RepeatEnd <= curTime
        BY <2>3, <2>5, <4>1, <4>2
      <4> QED
        BY <1>2, <2>3, <2>4, <4>3
    <3>4. streamIdx[k] <= CloseAt(k) => streamIdx'[k] <= CloseAt(k)
      <4> SUFFICES ASSUME streamIdx[k] <= CloseAt(k), ~(streamIdx'[k] <= CloseAt(k)) PROVE FALSE
        OBVIOUS
      <4>1. CloseAt(k) \in streamIdx[k] .. streamIdx'[k] - 1
        BY <2>3, <3>1
      <4> QED
        BY <3>1, <3>2, <4>1
    <3>5. streamIdx[k] = CloseAt(k) + 1 /\ CloseAt(k) = Len(sheet[k]) =>
            streamIdx'[k] = streamIdx[k] /\ Starting(k) = {}
      BY <2>3, <3>1
    <3> QED
      BY <3>2, <3>3, <3>4, <3>5
  <2>7. \A p \in Started : /\ p \in Positions /\ p[1] \in Voices /\ p[2] \in Starting(p[1])
                           /\ p[2] \in 1 .. Len(sheet[p[1]])
    BY <1>2, StartedIs, PositionsAre
  <2>8. ASSUME NEW p \in Started PROVE Playable(At(p))
    <3> DEFINE m == p[1]
               a == streamIdx[m]
    <3>1. /\ m \in Voices /\ p[2] \in Starting(m) /\ p[2] \in 1 .. Len(sheet[m])
      BY <2>7
    <3>2. /\ a \in Nat \ {0} /\ Starting(m) = a .. streamIdx'[m] - 1 /\ streamIdx'[m] \in Nat
          /\ \A j \in Starting(m) : j \in 1 .. Len(sheet[m]) /\ sheet[m][j].start = curTime
      BY <1>2, <3>1 DEF RunIn
    <3>3. a \in Starting(m) /\ a <= p[2]
      BY <3>1, <3>2
    <3>4. a \in 1 .. Len(sheet[m]) /\ sheet[m][a].start = curTime /\ sheet[m][p[2]].start = curTime
      BY <3>1, <3>2, <3>3
    <3>5. Playable(sheet[m][a])
      BY <1>1, <1>2, <2>1, <3>1, <3>4 DEF NotYet, Landed, Settled
    <3>6. CASE a = p[2]
      BY <3>5, <3>6 DEF At
    <3>7. CASE a # p[2]
      <4>1. sheet[m][a].end <= sheet[m][p[2]].start \/ Mates(sheet[m][a], sheet[m][p[2]])
        <5>1. a < p[2]
          BY <3>1, <3>2, <3>3, <3>7
        <5> HIDE DEF a, m
        <5> QED
          BY <1>2, <3>1, <3>4, <5>1, Apart
      <4>2. sheet[m][a].start < sheet[m][a].end
        BY <1>2, <3>1, <3>4, <3>5 DEF NoGaps
      <4>3. Mates(sheet[m][a], sheet[m][p[2]])
        BY <1>2, <2>5, <3>1, <3>4, <4>1, <4>2
      <4> QED
        BY <4>3 DEF Mates, Playable, At
    <3> QED
      BY <3>6, <3>7
  <2>9. Range(curPlaying') = Range(curPlaying) \cup StartedNotes
    BY TurnsOnIs DEF TurnsOn
  <2>10. ASSUME NEW p \in Started \cup Range(curPlaying)
         PROVE  /\ p[1] \in Voices /\ p[2] \in 1 .. Len(sheet[p[1]]) /\ p[2] < CloseAt(p[1])
                /\ Playable(At(p)) /\ p \in PlayingOf(p[1])'
                /\ At(p).end \in Nat /\ At(p).end <= RepeatEnd
    <3>1. /\ p[1] \in Voices /\ p[2] \in 1 .. Len(sheet[p[1]]) /\ p[2] < CloseAt(p[1])
          /\ Playable(At(p))
      <4>1. CASE p \in Started
        BY <2>6, <2>7, <2>8, <4>1
      <4>2. CASE p \in Range(curPlaying)
        <5>1. p[1] \in Voices /\ p[2] \in 1 .. Len(sheet[p[1]]) /\ p[2] < CloseAt(p[1])
          BY <2>1, <4>2, ListsAre DEF NotYet, PlaysBefore
        <5>2. p \in PlayingOf(p[1])
          BY <4>2 DEF PlayingOf
        <5>3. InStep(p[1])
          BY <1>2, <5>1, <5>2 DEF WalkParts, Walks, Silent
        <5> QED
          BY <5>1, <5>2, <5>3 DEF InStep
      <4> QED
        BY <4>1, <4>2
    <3>2. p \in PlayingOf(p[1])'
      BY <2>9, <3>1 DEF PlayingOf, StartedNotes
    <3>3. At(p).end \in Nat
      BY <2>5, <3>1 DEF At
    <3>4. At(p).end <= sheet[p[1]][CloseAt(p[1])].start \/ Mates(At(p), sheet[p[1]][CloseAt(p[1])])
      BY <1>2, <2>3, <3>1, Apart DEF At
    <3> QED
      BY <2>3, <3>1, <3>2, <3>3, <3>4 DEF Mates
  <2>11. PlaysBefore'
    BY <1>1, <1>3, <2>9, <2>10 DEF PlaysBefore, StartedNotes
  <2>12. ASSUME NEW k \in Voices PROVE NotPast(k)' /\ Recorded(k)' /\ Landed(k)'
    <3>1. ~Settled(k)' /\ Settled(k)
      BY <1>1 DEF Settled
    <3>2. NotPast(k)'
      <4>1. CASE streamIdx[k] <= CloseAt(k)
        BY <1>1, <1>3, <2>6, <4>1 DEF NotPast
      <4>2. CASE ~(streamIdx[k] <= CloseAt(k))
        <5>1. /\ streamIdx[k] = CloseAt(k) + 1 /\ CloseAt(k) = Len(sheet[k])
              /\ \A p \in PlayingOf(k) : At(p).end = RepeatEnd
          BY <2>1, <4>2 DEF NotYet, NotPast
        <5>2. streamIdx'[k] = streamIdx[k] /\ Starting(k) = {}
          BY <2>6, <5>1
        <5>3. PlayingOf(k)' = PlayingOf(k)
          BY <1>2, <2>7, <5>2 DEF RunIn, StartedNotes
        <5> QED
          BY <1>1, <1>3, <5>1, <5>2, <5>3 DEF NotPast
      <4> QED
        BY <4>1, <4>2
    <3>3. Recorded(k)'
      <4>1. ASSUME NEW o \in 1 .. CloseAt(k), sheet[k][o].kind = "repeatOpen", o < streamIdx'[k]
            PROVE  o <= lastRepeatOpenIdx[k]
        <5>1. \A q \in 1 .. CloseAt(k) :
                sheet[k][q].kind = "repeatOpen" /\ (q < streamIdx[k] \/ sheet[k][q].start <= curTime) =>
                  q <= lastRepeatOpenIdx[k]
          BY <2>1, <3>1 DEF NotYet, Recorded
        <5>2. o < streamIdx[k] \/ o \in Starting(k)
          BY <1>2, <2>3, <4>1 DEF RunIn
        <5>3. o \in Starting(k) => sheet[k][o].start <= curTime
          BY <1>2 DEF RunIn
        <5> QED
          BY <4>1, <5>1, <5>2, <5>3
      <4> QED
        BY <1>1, <1>3, <3>1, <4>1 DEF Recorded
    <3> QED
      BY <3>1, <3>2, <3>3 DEF Landed
  <2>13. PICK m0 \in Voices : streamIdx[m0] < CloseAt(m0)
    BY <2>4
  <2>14. streamIdx'[m0] <= CloseAt(m0)
    <3>1. streamIdx[m0] <= CloseAt(m0)
      BY <1>2, <2>3, <2>13 DEF RunIn
    <3> QED
      BY <2>6, <3>1
  <2>15. Meets'
    <3>1. ASSUME Started = {}, curTime' = curTime PROVE Meets'
      <4>1. Starting(m0) = {}
        <5> SUFFICES ASSUME NEW j \in Starting(m0) PROVE FALSE
          OBVIOUS
        <5>1. <<m0, j>> \in Started
          BY DEF Started
        <5> QED
          BY <3>1, <5>1
      <4>2. streamIdx'[m0] = streamIdx[m0]
        <5>1. ~(streamIdx[m0] <= streamIdx'[m0] - 1)
          <6> SUFFICES ASSUME streamIdx[m0] <= streamIdx'[m0] - 1 PROVE FALSE
            OBVIOUS
          <6>1. streamIdx[m0] \in Starting(m0)
            BY <1>2 DEF RunIn
          <6> QED
            BY <4>1, <6>1
        <5> QED
          BY <1>2, <5>1 DEF RunIn
      <4>3. curTime' <= RepeatEnd /\ curTime' # RepeatEnd
        BY <1>2, <2>3, <2>4, <3>1
      <4>4. streamIdx'[m0] < CloseAt(m0)
        BY <2>13, <4>2
      <4> QED
        BY <1>3, <4>3, <4>4 DEF Meets
    <3>2. ASSUME NEW p \in Started \cup Range(curPlaying), At(p).end = curTime' PROVE Meets'
      <4> DEFINE m == p[1]
      <4>1. /\ m \in Voices /\ p \in PlayingOf(m)' /\ curTime' \in Nat /\ curTime' <= RepeatEnd
        BY <2>10, <3>2
      <4>2. ASSUME curTime' < RepeatEnd PROVE streamIdx'[m] < CloseAt(m)
        <5>1. InStep(m)'
          BY <1>4, <4>1 DEF Silent
        <5>2. streamIdx'[m] <= CloseAt(m)
          BY <1>3, <2>3, <2>12, <3>2, <4>1, <4>2 DEF NotPast
        <5>3. streamIdx'[m] <= Len(sheet[m]) /\ streamIdx'[m] \in Nat
          BY <1>2, <2>3, <4>1, <5>2 DEF RunIn
        <5>4. sheet[m][streamIdx'[m]].start = curTime'
          BY <1>1, <1>3, <3>2, <4>1, <5>1, <5>3 DEF InStep
        <5>5. streamIdx'[m] # CloseAt(m)
          BY <2>3, <4>1, <4>2, <5>4
        <5> QED
          BY <2>3, <4>1, <5>2, <5>3, <5>5
      <4>3. curTime' < RepeatEnd => \E k \in Voices : streamIdx'[k] < CloseAt(k)
        BY <4>1, <4>2
      <4> QED
        BY <1>1, <1>3, <2>14, <4>1, <4>3 DEF Meets
    <3> QED
      BY <3>1, <3>2, TurnsOnIs DEF TurnsOn
  <2>16. NotYet'
    BY <1>3, <2>11, <2>12, <2>15 DEF NotYet
  <2> QED
    BY <1>3, <1>7, <2>16 DEF RepeatInv
<1> QED
  BY <1>5, <1>6, <1>7

LEMMA WalkTurnOn ==
  ASSUME SheetInv, WellMade(sheet), WalkParts, TurnOn
  PROVE  WalkParts'
BY WalksTurnOn, EndsAloneTurnOn, HeardTurnOn, RepeatTurnOn DEF WalkParts

\* A jump happens when the section ends, when nothing plays, and every voice
\* knows where the section begins.
JumpsRight(i) ==
  /\ Far /\ ~repeating /\ i \in Voices /\ curTime = RepeatEnd
  /\ streamIdx[i] <= CloseAt(i) /\ CloseAt(i) \in Passed(i, streamIdx[i], curTime)
  /\ OpenBefore(i) < CloseAt(i)
  /\ \A k \in Voices : PlayingOf(k) = {}
  /\ BeginsAfter(i, OpenBefore(i))
  /\ \A k \in Voices : InStep(k) => BeginsAfter(k, lastRepeatOpenIdx[k])

LEMMA JumpsRightIs ==
  ASSUME SheetInv, WellMade(sheet), WalkParts, SeekBack
  PROVE  JumpsRight(next)
<1> DEFINE i == next
           a == streamIdx[i]
           S == Passed(i, a, curTime)
<1>1. /\ thread = "seek" /\ i \in Voices /\ Closes(i) # {} /\ ~repeating
  BY BackIs DEF SeekBack, JumpsFrom
<1>2. /\ sheet \in Sheets /\ curTime \in Nat /\ Streams /\ Present
      /\ \A k \in Voices : /\ Len(sheet[k]) \in Nat /\ DOMAIN sheet[k] = 1 .. Len(sheet[k])
                           /\ streamIdx[k] \in 1 .. Len(sheet[k]) + 1 /\ streamIdx[k] \in Nat \ {0}
                           /\ lastRepeatOpenIdx[k] \in Nat
                           /\ OpenOrNone(k, lastRepeatOpenIdx[k], streamIdx[k])
                           /\ NoGaps(sheet[k])
  BY <1>1, ListsAre, StreamsAre DEF Present, WellMade, Voices
<1>3. Closes(i) = {j \in S : sheet[i][j].kind = "repeatClose"}
  BY DEF Closes, OfKind
<1>4. /\ S \in SUBSET (a .. Len(sheet[i])) /\ S \in SUBSET (1 .. Len(sheet[i]))
      /\ S \in SUBSET (0 .. Len(sheet[i]))
      /\ \A j \in S : \A k \in a .. j : k \in S
      /\ \A j \in S : sheet[i][j].start <= curTime
  BY <1>1, <1>2, PassedIs
<1> HIDE DEF i, S
<1>5. Far
  <2> SUFFICES ASSUME ~Far PROVE FALSE
    OBVIOUS
  <2>1. AllPassed
    BY <1>2 DEF WalkParts, RepeatInv
  <2>2. PICK c \in Closes(i) : TRUE
    BY <1>1
  <2>3. c \in 1 .. Len(sheet[i]) /\ c \in a .. Len(sheet[i]) /\ sheet[i][c].kind = "repeatClose"
    BY <1>3, <1>4, <2>2
  <2> QED
    BY <1>1, <1>2, <2>1, <2>3 DEF AllPassed
<1>6. NotYet
  BY <1>1, <1>2, <1>5 DEF WalkParts, RepeatInv
<1>7. EndTimes # {}
  BY <1>5 DEF Far
<1>8. /\ RepeatEnd \in Nat
      /\ \A k \in Voices : /\ CloseAt(k) \in 1 .. Len(sheet[k]) /\ CloseAt(k) \in Nat
                           /\ sheet[k][CloseAt(k)].kind = "repeatClose"
                           /\ sheet[k][CloseAt(k)].start = RepeatEnd
                           /\ \A d \in 1 .. Len(sheet[k]) :
                                sheet[k][d].kind = "repeatClose" => d = CloseAt(k)
  BY <1>2, <1>7, RepeatIs
<1>9. /\ Min(Closes(i)) \in Closes(i) /\ Min(Closes(i)) \in 1 .. Len(sheet[i])
      /\ OpenBefore(i) \in 0 .. Min(Closes(i)) - 1
      /\ OpenOrNone(i, OpenBefore(i), OpenBefore(i) + 1)
  BY <1>1, <1>2, JumpIs
<1>10. Min(Closes(i)) = CloseAt(i) /\ CloseAt(i) \in S
  BY <1>1, <1>3, <1>8, <1>9
<1>11. curTime = RepeatEnd
  <2>1. RepeatEnd <= curTime
    BY <1>1, <1>4, <1>8, <1>10
  <2>2. curTime <= RepeatEnd
    BY <1>6 DEF NotYet, Meets
  <2> QED
    BY <1>2, <1>8, <2>1, <2>2
<1>12. a <= CloseAt(i) /\ OpenBefore(i) < CloseAt(i)
  BY <1>1, <1>4, <1>8, <1>9, <1>10
<1>13. ASSUME NEW k \in Voices, NEW p \in PlayingOf(k) PROVE FALSE
  <2>1. p \in Range(curPlaying) /\ p[1] = k
    BY DEF PlayingOf
  <2>2. /\ p[2] \in 1 .. Len(sheet[k]) /\ p[2] < CloseAt(k)
        /\ At(p).end \in Nat /\ At(p).end > curTime
    BY <1>1, <1>6, <2>1, ListsAre DEF NotYet, PlaysBefore
  <2>3. At(p).end <= sheet[k][CloseAt(k)].start \/ Mates(At(p), sheet[k][CloseAt(k)])
    BY <1>2, <1>8, <2>1, <2>2, Apart DEF At
  <2> QED
    BY <1>8, <1>11, <2>2, <2>3 DEF Mates
\* The beginnings stand before the end, in step or not.
<1>14. \A k \in Voices : \A q \in 1 .. CloseAt(k) :
         sheet[k][q].kind = "repeatOpen" => sheet[k][q].start < RepeatEnd
  <2>1. \A k \in Voices : \A c \in DOMAIN sheet[k] : sheet[k][c].kind = "repeatClose" =>
          \A o \in 1 .. c : sheet[k][o].kind = "repeatOpen" => sheet[k][o].start < sheet[k][c].start
    BY DEF WellMade, OneRepeat, Voices
  <2> QED
    BY <1>2, <1>8, <2>1
<1>15. \A k \in Voices : \A q \in 1 .. CloseAt(k) :
         sheet[k][q].kind = "repeatOpen" /\ q < streamIdx[k] => q <= lastRepeatOpenIdx[k]
  BY <1>6 DEF NotYet, Recorded
<1>16. ASSUME NEW k \in Voices, InStep(k)
       PROVE  BeginsAfter(k, lastRepeatOpenIdx[k])
  <2> DEFINE o == lastRepeatOpenIdx[k]
             c == CloseAt(k)
  <2>1. /\ o \in 0 .. streamIdx[k]
        /\ o # 0 => o \in 1 .. Len(sheet[k]) /\ sheet[k][o].kind = "repeatOpen"
        /\ o \in Nat /\ c \in 1 .. Len(sheet[k]) /\ c \in Nat
        /\ sheet[k][c].kind = "repeatClose" /\ Len(sheet[k]) \in Nat /\ streamIdx[k] \in Nat
    BY <1>2, <1>8 DEF OpenOrNone
  <2>2. streamIdx[k] <= c \/ c = Len(sheet[k])
    BY <1>6 DEF NotYet, NotPast
  <2>3. o \in 0 .. c - 1
    <3>1. o <= c
      BY <2>1, <2>2
    <3>2. o # c
      BY <2>1
    <3> QED
      BY <2>1, <3>1, <3>2
  <2>4. ASSUME NEW q \in 1 .. c, sheet[k][q].kind = "repeatOpen" PROVE q <= o
    <3>1. q \in streamIdx[k] .. Len(sheet[k]) => sheet[k][q].start >= curTime
      BY <1>16 DEF InStep
    <3>2. q \in 1 .. Len(sheet[k]) /\ sheet[k][q].start < RepeatEnd
      BY <1>14, <2>1, <2>4
    <3>3. sheet[k][q].start \in Nat
      BY <1>2, <3>2, SheetIs
    <3>4. q < streamIdx[k]
      BY <1>8, <1>11, <2>1, <3>1, <3>2, <3>3
    <3> QED
      BY <1>15, <2>4, <3>4
  <2> QED
    BY <2>1, <2>3, <2>4 DEF BeginsAfter
<1>17. BeginsAfter(i, OpenBefore(i))
  <2> DEFINE o == OpenBefore(i)
             c == CloseAt(i)
             Opens == OfKind(i, {j \in Passed(i, streamIdx[i], curTime) : j < Min(Closes(i))},
                             "repeatOpen")
  <2>1. o \in 0 .. c - 1 /\ (o # 0 => sheet[i][o].kind = "repeatOpen") /\ o \in Nat
    BY <1>1, <1>8, <1>9, <1>10 DEF OpenOrNone
  <2>2. o = LastOf(Opens, lastRepeatOpenIdx[i])
    BY DEF OpenBefore
  <2>3. Opens = {j \in S : j < c /\ sheet[i][j].kind = "repeatOpen"}
    BY <1>10 DEF OfKind, S
  <2> HIDE DEF Opens, o
  <2>4. /\ Opens = {} => o = lastRepeatOpenIdx[i]
        /\ Opens # {} => o \in Opens
        /\ \A j \in Opens : j <= o
    <3>1. Opens \in SUBSET (0 .. Len(sheet[i]))
      BY <1>4, <2>3
    <3> QED
      BY <1>1, <1>2, <2>2, <3>1, LastIs
  <2>5. ASSUME NEW q \in 1 .. c, sheet[i][q].kind = "repeatOpen" PROVE q <= o
    <3>1. q < c /\ q \in Nat
      BY <1>1, <1>8, <2>5
    <3>2. CASE q < a
      <4>1. q <= lastRepeatOpenIdx[i]
        BY <1>1, <1>15, <2>5, <3>2
      <4>2. CASE Opens = {}
        BY <2>4, <4>1, <4>2
      <4>3. CASE Opens # {}
        <5>1. o \in a .. Len(sheet[i])
          BY <1>4, <2>3, <2>4, <4>3
        <5> QED
          BY <1>1, <1>2, <2>1, <3>1, <3>2, <5>1
      <4> QED
        BY <4>2, <4>3
    <3>3. CASE ~(q < a)
      <4>1. q \in a .. c
        BY <1>1, <1>2, <1>8, <3>1, <3>3
      <4>2. q \in S
        BY <1>4, <1>10, <4>1
      <4> QED
        BY <2>3, <2>4, <2>5, <3>1, <4>2
    <3> QED
      BY <3>2, <3>3
  <2> QED
    BY <2>1, <2>5 DEF BeginsAfter, o
<1> QED
  BY <1>1, <1>5, <1>10, <1>11, <1>12, <1>13, <1>16, <1>17 DEF JumpsRight, i, S

\* After a jump every voice that was in step goes on at the beginning of the section.
BeginsAgain(i) ==
  /\ streamIdx'[i] \in Nat
  /\ \A j \in streamIdx'[i] .. Len(sheet[i]) : sheet[i][j].start >= curTime'
  /\ \A j \in 1 .. streamIdx'[i] - 1 : sheet[i][j].start >= curTime' => ~Playable(sheet[i][j])
  /\ streamIdx'[i] <= Len(sheet[i]) =>
       /\ sheet[i][streamIdx'[i]].start = curTime'
       /\ sheet[i][streamIdx'[i]].kind = "note" => FirstInChord(i, streamIdx'[i])

LEMMA BeginsAgainIs ==
  ASSUME SheetInv, WellMade(sheet), WalkParts, SeekBack
  PROVE  /\ curTime' = BeginTime(RepeatEnd)
         /\ BeginsAgain(next)
         /\ \A k \in Voices : InStep(k) => BeginsAgain(k) /\ KeepsNotes(k)
<1> DEFINE i == next
           b == OpenBefore(i) + 1
           s == SeekFrom(i, b, Passed(i, b + 1, sheet[i][b].start))
<1>1. JumpsRight(i)
  BY JumpsRightIs
<1>2. /\ i \in Voices /\ curTime' = sheet[i][b].start /\ thread = "seek"
      /\ streamIdx' = [k \in Voices |-> IF k = i THEN s ELSE lastRepeatOpenIdx[k] + 1]
  BY BackIs DEF JumpsFrom, SeekBack
<1>3. /\ sheet \in Sheets /\ curTime \in Nat /\ Present /\ EndTimes # {}
      /\ \A k \in Voices : /\ Len(sheet[k]) \in Nat
                           /\ streamIdx[k] \in 1 .. Len(sheet[k]) + 1 /\ streamIdx[k] \in Nat \ {0}
                           /\ lastRepeatOpenIdx[k] \in Nat
                           /\ OpenOrNone(k, lastRepeatOpenIdx[k], streamIdx[k])
                           /\ NoGaps(sheet[k])
  BY <1>1, <1>2, ListsAre, StreamsAre DEF Present, WellMade, Voices, JumpsRight, Far
<1>4. /\ RepeatEnd \in Nat
      /\ \A k \in Voices : /\ CloseAt(k) \in 1 .. Len(sheet[k]) /\ CloseAt(k) \in Nat
                           /\ sheet[k][CloseAt(k)].kind = "repeatClose"
                           /\ sheet[k][CloseAt(k)].start = RepeatEnd
  BY <1>3, RepeatIs
<1>5. \A k \in Voices : \A j \in 1 .. Len(sheet[k]) :
        /\ sheet[k][j].start \in Nat
        /\ \A l \in 1 .. j : sheet[k][l].start <= sheet[k][j].start
  BY <1>3, SheetIs
<1> HIDE DEF s, i, b
<1>6. ASSUME NEW k \in Voices, NEW o, BeginsAfter(k, o)
      PROVE  /\ o \in Nat /\ o + 1 \in 1 .. Len(sheet[k])
             /\ sheet[k][o + 1].start = BeginTime(RepeatEnd)
             /\ FirstInChord(k, o + 1)
             /\ \A j \in o + 1 .. Len(sheet[k]) : sheet[k][j].start >= BeginTime(RepeatEnd)
             /\ \A j \in 1 .. o :
                  sheet[k][j].start >= BeginTime(RepeatEnd) => ~Playable(sheet[k][j])
  <2>1. /\ o + 1 \in 1 .. Len(sheet[k])
        /\ sheet[k][o + 1].start = BeginTime(RepeatEnd)
    BY <1>3, <1>6, BeginTimeIs
  <2>2. o \in Nat /\ (o # 0 => sheet[k][o].kind = "repeatOpen")
    BY <1>4, <1>6 DEF BeginsAfter
  <2>3. FirstInChord(k, o + 1)
    <3>1. (o + 1) - 1 = o /\ (o + 1 > 1 => o # 0)
      BY <2>2
    <3> QED
      BY <2>2, <3>1 DEF FirstInChord
  <2>4. ASSUME NEW j \in o + 1 .. Len(sheet[k])
        PROVE  sheet[k][j].start >= BeginTime(RepeatEnd)
    <3>1. j \in 1 .. Len(sheet[k]) /\ o + 1 \in 1 .. j
      BY <1>3, <2>1, <2>2
    <3>2. sheet[k][o + 1].start <= sheet[k][j].start /\ sheet[k][o + 1].start \in Nat
          /\ sheet[k][j].start \in Nat
      BY <1>5, <2>1, <3>1
    <3> QED
      BY <2>1, <3>2
  <2>5. ASSUME NEW j \in 1 .. o, sheet[k][j].start >= BeginTime(RepeatEnd)
        PROVE  ~Playable(sheet[k][j])
    <3>1. j \in 1 .. Len(sheet[k]) /\ j < o + 1 /\ j \in 1 .. o + 1
      BY <1>3, <2>1, <2>2
    <3>2. sheet[k][j].start <= sheet[k][o + 1].start /\ sheet[k][o + 1].start \in Nat
          /\ sheet[k][j].start \in Nat
      BY <1>5, <2>1, <3>1
    <3>3. sheet[k][j].start = sheet[k][o + 1].start
      BY <2>1, <2>5, <3>2
    <3> QED
      BY <1>3, <2>1, <2>3, <3>1, <3>3, QuietBefore
  <2> QED
    BY <2>1, <2>2, <2>3, <2>4, <2>5
<1>7. /\ OpenBefore(i) \in Nat /\ b \in 1 .. Len(sheet[i]) /\ b = OpenBefore(i) + 1
      /\ sheet[i][b].start = BeginTime(RepeatEnd) /\ FirstInChord(i, b)
      /\ \A j \in b .. Len(sheet[i]) : sheet[i][j].start >= BeginTime(RepeatEnd)
      /\ \A j \in 1 .. OpenBefore(i) :
           sheet[i][j].start >= BeginTime(RepeatEnd) => ~Playable(sheet[i][j])
  <2>1. BeginsAfter(i, OpenBefore(i))
    BY <1>1 DEF JumpsRight
  <2> QED
    BY <1>2, <1>6, <2>1 DEF b
<1>8. curTime' = BeginTime(RepeatEnd)
  BY <1>2, <1>7
<1>9. WalksQuietly(i, b, s)
  <2>1. sheet[i][b].start \in Nat /\ b \in 1 .. Len(sheet[i]) + 1 /\ b + 1 \in {b, b + 1}
    BY <1>2, <1>3, <1>5, <1>7
  <2> QED
    BY <1>2, <1>3, <1>7, <2>1, WalkIsQuiet DEF s
<1>10. /\ s \in b .. Len(sheet[i]) + 1 /\ s \in Nat
       /\ \A j \in b .. s - 1 : ~Playable(sheet[i][j])
       /\ s <= Len(sheet[i]) => /\ sheet[i][s].start = sheet[i][b].start
                                /\ sheet[i][s].kind = "note" => FirstInChord(i, s)
  BY <1>2, <1>3, <1>7, <1>9 DEF WalksQuietly
<1>11. streamIdx'[i] = s
  BY <1>2
<1>12. BeginsAgain(i)
  <2>1. \A j \in s .. Len(sheet[i]) : j \in b .. Len(sheet[i])
    BY <1>2, <1>3, <1>7, <1>10
  <2>2. ASSUME NEW j \in 1 .. s - 1, sheet[i][j].start >= BeginTime(RepeatEnd)
        PROVE  ~Playable(sheet[i][j])
    <3>1. j \in 1 .. OpenBefore(i) \/ j \in b .. s - 1
      BY <1>7, <1>10
    <3> QED
      BY <1>7, <1>10, <2>2, <3>1
  <2> QED
    BY <1>2, <1>7, <1>8, <1>10, <1>11, <2>1, <2>2 DEF BeginsAgain
<1>13. ASSUME NEW k \in Voices, InStep(k), k # i
       PROVE  BeginsAgain(k) /\ KeepsNotes(k)
  <2> DEFINE o == lastRepeatOpenIdx[k]
  <2>1. BeginsAfter(k, o)
    BY <1>1, <1>13 DEF JumpsRight
  <2>2. streamIdx'[k] = o + 1 /\ o \in Nat /\ o <= streamIdx[k]
        /\ (o # 0 => sheet[k][o].kind = "repeatOpen")
    BY <1>2, <1>3, <1>13 DEF OpenOrNone
  <2>3. BeginsAgain(k)
    <3>1. (o + 1) - 1 = o /\ o + 1 \in Nat
      BY <2>2
    <3> QED
      BY <1>6, <1>8, <2>1, <2>2, <3>1 DEF BeginsAgain
  <2>4. KeepsNotes(k)
    <3> SUFFICES ASSUME NEW j \in streamIdx[k] .. Len(sheet[k]), j < o + 1
                 PROVE  ~Playable(sheet[k][j])
      BY <2>2 DEF KeepsNotes
    <3>1. j = o /\ o # 0
      BY <1>3, <2>2
    <3> QED
      BY <2>2, <3>1 DEF Playable
  <2> QED
    BY <2>3, <2>4
<1>14. ASSUME InStep(i) PROVE KeepsNotes(i)
  <2> SUFFICES ASSUME NEW j \in streamIdx[i] .. Len(sheet[i]), j < s
               PROVE  ~Playable(sheet[i][j])
    BY <1>10, <1>11 DEF KeepsNotes
  <2>1. j \in 1 .. Len(sheet[i]) /\ j \in Nat
    BY <1>2, <1>3
  <2>2. CASE j < b
    <3>1. j < CloseAt(i) /\ j \in 1 .. CloseAt(i)
      BY <1>1, <1>2, <1>4, <1>7, <2>1, <2>2 DEF JumpsRight
    <3>2. sheet[i][j].start >= curTime /\ curTime = RepeatEnd
      BY <1>1, <1>14 DEF InStep, JumpsRight
    <3>3. sheet[i][j].start <= sheet[i][CloseAt(i)].start /\ sheet[i][j].start \in Nat
      BY <1>2, <1>4, <1>5, <2>1, <3>1
    <3>4. sheet[i][j].start = sheet[i][CloseAt(i)].start
      BY <1>2, <1>4, <3>2, <3>3
    <3> QED
      BY <1>2, <1>3, <1>4, <2>1, <3>1, <3>4, QuietBefore
  <2>3. CASE ~(j < b)
    <3>1. j \in b .. s - 1
      BY <1>2, <1>3, <1>7, <1>10, <2>1, <2>3
    <3> QED
      BY <1>10, <3>1
  <2> QED
    BY <2>2, <2>3
<1> QED
  BY <1>8, <1>12, <1>13, <1>14 DEF i

LEMMA WalkSeekBack ==
  ASSUME SheetInv, WellMade(sheet), WalkParts, SeekBack
  PROVE  WalkParts'
<1>1. JumpsRight(next) /\ JumpsFrom(next)
  BY JumpsRightIs, BackIs
<1>2. /\ UNCHANGED <<sheet, initTime, curPlaying, sounding, stop, thread>>
      /\ thread = "seek" /\ repeating'
  BY <1>1 DEF JumpsFrom, SeekBack
<1>3. Present /\ Present'
  BY <1>2 DEF Present
<1>4. /\ Voices' = Voices /\ \A p : At(p)' = At(p)
      /\ (Far' <=> Far)
  BY <1>2, SameSheet, SameRepeat
<1>5. /\ \A k : PlayingOf(k)' = PlayingOf(k) /\ (Silent(k)' <=> Silent(k))
      /\ \A k, j : FirstInChord(k, j)' = FirstInChord(k, j)
  BY <1>2 DEF PlayingOf, Silent, FirstInChord
<1>6. ASSUME NEW k \in Voices, BeginsAgain(k) PROVE InStep(k)'
  BY <1>1, <1>2, <1>4, <1>5, <1>6 DEF BeginsAgain, InStep, JumpsRight
<1>7. Walks'
  <2>1. \A k \in Voices : InStep(k) => InStep(k)'
    BY <1>6, BeginsAgainIs
  <2> QED
    BY <1>3, <1>4, <1>5, <2>1 DEF WalkParts, Walks
<1>8. EndsAlone'
  <2>1. ~stop
    BY <1>2 DEF WalkParts, EndsAlone
  <2> QED
    BY <1>2, <2>1 DEF EndsAlone
<1>9. Heard'
  <2>1. \A k \in Voices : Silent(k) \/ KeepsNotes(k)
    BY <1>3, BeginsAgainIs DEF WalkParts, Walks
  <2> QED
    BY <1>2, <1>3, <2>1, HeardStays DEF WalkParts
<1>10. RepeatInv'
  BY <1>1, <1>2, <1>4 DEF RepeatInv, JumpsRight
<1> QED
  BY <1>7, <1>8, <1>9, <1>10 DEF WalkParts

\* Every step keeps the invariant of a playback nobody stopped.
LEMMA WalkStep == WellMade(sheet) /\ SheetInv /\ WalkInv /\ Next => WalkInv'
<1> SUFFICES ASSUME WellMade(sheet), SheetInv, WalkInv, Next, ~asked' PROVE WalkParts'
  BY DEF WalkInv
<1>1. CASE Thread
  <2>1. ~asked
    BY <1>1 DEF Thread, Begin, Test, TurnOff, LeaveOn, AllLookedAt, SeekOn, SeekBack, SoughtAll,
                Check, TurnOn, windowVars
  <2> QED
    BY <1>1, <2>1, WalkBegin, WalkGoesOn, WalkTurnOff, WalkSeekOn, WalkSeekBack, WalkTurnOn
       DEF Thread, WalkInv
<1>2. CASE (\E t \in InitTimes : Play(t)) \/ PlaybackFinished
  <2>1. ~Present'
    BY <1>2 DEF Play, PlaybackFinished, InitPlayback, Present
  <2>2. SheetInv'
    BY SheetStep
  <2> QED
    BY <2>1, <2>2, NothingYet, PTL
<1>3. CASE InsertNote \/ CloseDocument \/ \E p \in Positions : DeleteElement(p)
  <2>1. ~asked
    BY <1>3 DEF InsertNote, CloseDocument, DeleteElement, windowVars
  <2> QED
    BY <1>3, <2>1, WalkWindow DEF WalkInv
<1>4. CASE Stop \/ StopNow \/ FinishedLate
  BY <1>4 DEF Stop, StopNow, FinishedLate
<1> QED
  BY <1>1, <1>2, <1>3, <1>4 DEF Next, Window

LEMMA SilentImplies == SheetInv /\ WalkInv => EndsSilent
<1> SUFFICES ASSUME SheetInv, WalkInv, thread = "finished", ~asked, NEW n \in sounding
             PROVE  FALSE
  BY DEF EndsSilent
<1>1. WalkParts /\ Present
  BY DEF WalkInv, Present
<1>2. stop /\ curPlaying = << >>
      /\ \A i \in Voices : InStep(i) => streamIdx[i] = Len(sheet[i]) + 1
  BY <1>1 DEF WalkParts, EndsAlone
<1>3. n[1] \in Voices
  BY DEF SheetInv, ListsOK
<1>4. streamIdx[n[1]] = Len(sheet[n[1]]) + 1 /\ Len(sheet[n[1]]) \in Nat
  BY <1>1, <1>2, <1>3, StreamsAre DEF WalkParts, Walks, Silent
<1>5. \E j \in streamIdx[n[1]] .. Len(sheet[n[1]]) : Comes(n, j)
  BY <1>1, <1>2 DEF WalkParts, Heard, Range
<1> QED
  BY <1>4, <1>5

-----------------------------------------------------------------------------
(* What has been played.                                                   *)

\* Of two sets of numbers, all of the first below those of the second, the lists
\* in order follow one another.
LEMMA AscendingJoined ==
  ASSUME NEW A \in SUBSET Nat, NEW B \in SUBSET Nat, IsFiniteSet(A), IsFiniteSet(B),
         \A x \in A, y \in B : x < y
  PROVE  Ascending(A) \o Ascending(B) = Ascending(A \cup B)
<1> DEFINE n == Cardinality(A)
           m == Cardinality(B)
           s == Ascending(A)
           t == Ascending(B)
           f == s \o t
<1>1. /\ n \in Nat /\ s \in [1 .. n -> A]
      /\ \A j, k \in 1 .. n : j < k => s[j] < s[k]
      /\ \A x \in A : \E k \in 1 .. n : s[k] = x
  BY NumbersSorted
<1>2. /\ m \in Nat /\ t \in [1 .. m -> B]
      /\ \A j, k \in 1 .. m : j < k => t[j] < t[k]
      /\ \A x \in B : \E k \in 1 .. m : t[k] = x
  BY NumbersSorted
<1> HIDE DEF n, m, s, t
<1>3. s \in Seq(A) /\ Len(s) = n /\ t \in Seq(B) /\ Len(t) = m
  BY <1>1, <1>2, IsSequence
<1>4. s \in Seq(A \cup B) /\ t \in Seq(A \cup B)
  BY <1>3
<1>5. /\ f \in Seq(A \cup B) /\ Len(f) = n + m
      /\ \A k \in 1 .. n + m : f[k] = IF k <= n THEN s[k] ELSE t[k - n]
  BY <1>3, <1>4
<1> HIDE DEF f
<1>6. f \in [1 .. n + m -> A \cup B] /\ n + m \in Nat
  BY <1>1, <1>2, <1>5
<1>7. ASSUME NEW j \in 1 .. n + m, NEW k \in 1 .. n + m, j < k
      PROVE  f[j] < f[k]
  <2>1. CASE k <= n
    <3>1. j \in 1 .. n /\ k \in 1 .. n
      BY <1>1, <1>7, <2>1
    <3>2. f[j] = s[j] /\ f[k] = s[k]
      BY <1>5, <1>7, <3>1
    <3> QED
      BY <1>1, <1>7, <3>1, <3>2
  <2>2. CASE k > n /\ j <= n
    <3>1. j \in 1 .. n /\ k - n \in 1 .. m
      BY <1>1, <1>2, <1>7, <2>2
    <3>2. f[j] = s[j] /\ f[k] = t[k - n]
      BY <1>1, <1>5, <1>7, <2>2
    <3>3. s[j] \in A /\ t[k - n] \in B
      BY <1>1, <1>2, <3>1
    <3> QED
      BY <3>2, <3>3
  <2>3. CASE j > n
    <3>1. j - n \in 1 .. m /\ k - n \in 1 .. m /\ j - n < k - n
      BY <1>1, <1>2, <1>7, <2>3
    <3>2. f[j] = t[j - n] /\ f[k] = t[k - n]
      BY <1>1, <1>5, <1>7, <2>3
    <3> QED
      BY <1>2, <3>1, <3>2
  <2> QED
    BY <1>1, <1>7, <2>1, <2>2, <2>3
<1>8. ASSUME NEW x \in A \cup B
      PROVE  \E k \in 1 .. n + m : f[k] = x
  <2>1. CASE x \in A
    <3>1. PICK k \in 1 .. n : s[k] = x
      BY <1>1, <2>1
    <3>2. k \in 1 .. n + m /\ k <= n
      BY <1>1, <1>2
    <3>3. f[k] = x
      BY <1>5, <3>1, <3>2
    <3> QED
      BY <3>2, <3>3
  <2>2. CASE x \in B
    <3>1. PICK k \in 1 .. m : t[k] = x
      BY <1>2, <2>2
    <3>2. n + k \in 1 .. n + m /\ ~(n + k <= n) /\ (n + k) - n = k
      BY <1>1, <1>2
    <3>3. f[n + k] = t[(n + k) - n]
      BY <1>5, <3>2
    <3>4. f[n + k] = x
      BY <3>1, <3>2, <3>3, Zenon
    <3> QED
      BY <3>2, <3>4
  <2> QED
    BY <2>1, <2>2
<1>9. A \cup B \in SUBSET Nat
  OBVIOUS
<1>10. f = Ascending(A \cup B)
  BY <1>6, <1>7, <1>8, <1>9, SortedOnce
<1> QED
  BY <1>10 DEF f, s, t

\* The elements of a voice that play, in two parts, one behind the other.
LEMMA PlayedJoined ==
  ASSUME sheet \in Sheets, NEW i \in Voices,
         NEW A \in SUBSET (1 .. Len(sheet[i])), NEW B \in SUBSET (1 .. Len(sheet[i])),
         \A x \in A, y \in B : x < y
  PROVE  InOrder(i, A) \o InOrder(i, B) = InOrder(i, A \cup B)
<1> DEFINE T(S) == {j \in S : Playable(sheet[i][j])}
<1>1. /\ InOrder(i, A) = Ascending(T(A)) /\ T(A) \in SUBSET Nat /\ IsFiniteSet(T(A))
      /\ InOrder(i, B) = Ascending(T(B)) /\ T(B) \in SUBSET Nat /\ IsFiniteSet(T(B))
  BY InOrderIs
<1>2. A \cup B \in SUBSET (1 .. Len(sheet[i]))
  OBVIOUS
<1>3. InOrder(i, A \cup B) = Ascending(T(A \cup B))
  BY <1>2, InOrderIs
<1>4. T(A \cup B) = T(A) \cup T(B)
  OBVIOUS
<1>5. \A x \in T(A), y \in T(B) : x < y
  OBVIOUS
<1> HIDE DEF T
<1>6. Ascending(T(A)) \o Ascending(T(B)) = Ascending(T(A) \cup T(B))
  BY <1>1, <1>5, AscendingJoined
<1> QED
  BY <1>1, <1>3, <1>4, <1>6

\* Only the elements that play count.
LEMMA PlayedAlike ==
  ASSUME NEW i, NEW A, NEW B,
         \A j : Playable(sheet[i][j]) => (j \in A <=> j \in B)
  PROVE  InOrder(i, A) = InOrder(i, B)
<1>1. {j \in A : Playable(sheet[i][j])} = {j \in B : Playable(sheet[i][j])}
  OBVIOUS
<1> QED
  BY <1>1 DEF InOrder

\* A voice that had ended where the playback starts.
EndedBefore(i) ==
  /\ PlayingOf(i) = {} /\ streamIdx[i] >= Len(sheet[i])
  /\ \A j \in 1 .. Len(sheet[i]) : sheet[i][j].end <= initTime

AllInStep == \A i \in Voices : InStep(i) \/ EndedBefore(i)

\* The elements of voice i that play and start at these times.
Part(i, from, to) ==
  {j \in 1 .. Len(sheet[i]) :
     Playable(sheet[i][j]) /\ from <= sheet[i][j].start /\ sheet[i][j].start < to}

\* Since the start, or since the jump: the time, and what has been passed.
BeginsAt == BeginTime(RepeatEnd)
From == IF repeating THEN BeginsAt ELSE initTime
Ready(i) ==
  {j \in 1 .. streamIdx[i] - 1 : Playable(sheet[i][j]) /\ From <= sheet[i][j].start}

\* What was played before the jump.
BeforeJump(i) ==
  IF repeating THEN Ascending(Part(i, initTime, RepeatEnd)) ELSE << >>

Performed ==
  /\ From \in Nat /\ curTime >= From
  /\ \A i \in Voices : performed[i] = BeforeJump(i) \o Ascending(Ready(i))

PlayParts == Present => AllInStep /\ Performed

PlayInv == ~asked /\ NothingAcross => PlayParts

LEMMA SameParts ==
  ASSUME sheet' = sheet, initTime' = initTime
  PROVE  /\ BeginsAt' = BeginsAt
         /\ repeating' = repeating => /\ From' = From
                                      /\ \A i : BeforeJump(i)' = BeforeJump(i)
         /\ \A i, f, t : Part(i, f, t)' = Part(i, f, t)
         /\ NothingAcross' <=> NothingAcross
<1>1. /\ Voices' = Voices /\ Positions' = Positions /\ \A p : At(p)' = At(p)
      /\ RepeatEnd' = RepeatEnd
  BY SameSheet, SameRepeat
<1>2. BeginsAt' = BeginsAt
  BY <1>1 DEF BeginsAt, BeginTime
<1>3. \A i, f, t : Part(i, f, t)' = Part(i, f, t)
  BY DEF Part
<1>4. repeating' = repeating => From' = From
  BY <1>2 DEF From
<1>5. repeating' = repeating => \A i : BeforeJump(i)' = BeforeJump(i)
  BY <1>1 DEF BeforeJump, Part
<1>6. NothingAcross' <=> NothingAcross
  BY <1>1 DEF NothingAcross
<1> QED
  BY <1>2, <1>3, <1>4, <1>5, <1>6

\* A voice has an end of the section, so none had ended before the start.
LEMMA FarInStep ==
  ASSUME SheetInv, WellMade(sheet), Far, AllInStep
  PROVE  \A i \in Voices : InStep(i)
<1> SUFFICES ASSUME NEW i \in Voices PROVE ~EndedBefore(i)
  BY DEF AllInStep
<1>1. EndTimes # {} /\ sheet \in Sheets /\ initTime \in Nat
  BY DEF Far, SheetInv, Values
<1>2. /\ RepeatEnd \in Nat /\ EndTimes = {RepeatEnd}
      /\ CloseAt(i) \in 1 .. Len(sheet[i]) /\ sheet[i][CloseAt(i)].start = RepeatEnd
  BY <1>1, RepeatIs
<1>3. initTime < RepeatEnd
  BY <1>2 DEF Far
<1>4. /\ sheet[i][CloseAt(i)].start <= sheet[i][CloseAt(i)].end
      /\ sheet[i][CloseAt(i)].end \in Nat
  BY <1>1, <1>2, SheetIs
<1> QED
  BY <1>1, <1>2, <1>3, <1>4 DEF EndedBefore

\* Nothing of a voice that ended before is played.
LEMMA NothingReady ==
  ASSUME SheetInv, WellMade(sheet), WalkParts, Present, Performed,
         NEW i \in Voices, EndedBefore(i), AllInStep
  PROVE  /\ From = initTime
         /\ \A j \in 1 .. Len(sheet[i]) :
              Playable(sheet[i][j]) => sheet[i][j].start < initTime
<1>1. ~repeating
  <2>1. CASE Far
    <3>1. /\ sheet[i][CloseAt(i)].end <= initTime
          /\ sheet[i][CloseAt(i)].start = RepeatEnd /\ CloseAt(i) \in 1 .. Len(sheet[i])
          /\ EndTimes = {RepeatEnd} /\ RepeatEnd \in Nat
      BY <2>1, RepeatIs DEF EndedBefore, Far, SheetInv, Values
    <3>2. /\ sheet[i][CloseAt(i)].start <= sheet[i][CloseAt(i)].end
          /\ sheet[i][CloseAt(i)].end \in Nat /\ initTime \in Nat
      BY <3>1, SheetIs DEF SheetInv, Values
    <3> QED
      BY <2>1, <3>1, <3>2 DEF Far
  <2>2. CASE ~Far
    BY <2>2 DEF WalkParts, RepeatInv
  <2> QED
    BY <2>1, <2>2
<1>2. From = initTime
  BY <1>1 DEF From
<1>3. ASSUME NEW j \in 1 .. Len(sheet[i]), Playable(sheet[i][j])
      PROVE  sheet[i][j].start < initTime
  <2>1. sheet \in Sheets /\ initTime \in Nat /\ NoGaps(sheet[i])
    BY DEF SheetInv, Values, WellMade, Voices
  <2>2. /\ sheet[i][j].start \in Nat /\ sheet[i][j].end \in Nat
        /\ DOMAIN sheet[i] = 1 .. Len(sheet[i])
    BY <2>1, SheetIs
  <2>3. sheet[i][j].start < sheet[i][j].end
    BY <1>3, <2>1, <2>2 DEF NoGaps
  <2>4. sheet[i][j].end <= initTime
    BY DEF EndedBefore
  <2> QED
    BY <2>1, <2>2, <2>3, <2>4
<1> QED
  BY <1>2, <1>3

\* Steps that play nothing and move nothing.
LEMMA PlayStays ==
  ASSUME PlayParts, Present,
         UNCHANGED <<sheet, initTime, curTime, streamIdx, repeating, curPlaying, performed>>
  PROVE  PlayParts'
<1>1. /\ Voices' = Voices /\ From' = From /\ \A i : BeforeJump(i)' = BeforeJump(i)
  BY SameSheet, SameParts
<1>2. \A i : InStep(i)' <=> InStep(i)
  BY InStepStays
<1>3. \A i : EndedBefore(i)' <=> EndedBefore(i)
  BY DEF EndedBefore, PlayingOf
<1>4. \A i : Ready(i)' = Ready(i)
  BY <1>1 DEF Ready
<1>5. AllInStep'
  BY <1>1, <1>2, <1>3 DEF PlayParts, AllInStep
<1>6. Performed'
  BY <1>1, <1>4 DEF PlayParts, Performed
<1> QED
  BY <1>5, <1>6 DEF PlayParts

LEMMA PlayTurnOff ==
  ASSUME SheetInv, WalkParts, PlayParts, TurnOff
  PROVE  PlayParts'
<1>1. /\ UNCHANGED <<sheet, initTime, curTime, streamIdx, repeating, performed>>
      /\ thread = "off" /\ next \in 1 .. Len(curPlaying)
      /\ curPlaying' = RemoveAt(curPlaying, next)
  BY DEF TurnOff, windowVars, SheetInv, Values, ListsOK
<1>2. Present /\ ~stop
  BY <1>1 DEF Present, WalkParts, EndsAlone
<1>3. /\ Voices' = Voices /\ From' = From /\ \A i : BeforeJump(i)' = BeforeJump(i)
  BY <1>1, SameSheet, SameParts
<1>4. \A i : PlayingOf(i)' \subseteq PlayingOf(i)
  <2>1. curPlaying \in Seq(Positions)
    BY ListsAre
  <2>2. Range(curPlaying') \subseteq Range(curPlaying)
    BY <1>1, <2>1, LeftOver
  <2> QED
    BY <2>2 DEF PlayingOf
<1>5. \A i : Ready(i)' = Ready(i)
  BY <1>1, <1>3 DEF Ready
<1>6. Performed'
  BY <1>1, <1>2, <1>3, <1>5 DEF PlayParts, Performed
<1>7. \A i \in Voices : InStep(i) => InStep(i)'
  BY <1>2, InStepTurnOff
<1>8. \A i \in Voices : EndedBefore(i) => EndedBefore(i)'
  BY <1>1, <1>4 DEF EndedBefore
<1>9. AllInStep'
  BY <1>2, <1>3, <1>7, <1>8 DEF PlayParts, AllInStep
<1> QED
  BY <1>6, <1>9 DEF PlayParts

\* What comes to what has been passed: nothing, if none of it plays from there on.
LEMMA ReadyStays ==
  ASSUME UNCHANGED <<sheet, initTime, repeating>>, NEW i \in Voices,
         streamIdx[i] \in Nat \ {0}, streamIdx'[i] \in Nat \ {0}, streamIdx[i] <= streamIdx'[i],
         \A j \in streamIdx[i] .. streamIdx'[i] - 1 :
           Playable(sheet[i][j]) => ~(From <= sheet[i][j].start)
  PROVE  Ready(i)' = Ready(i)
<1>1. From' = From
  BY SameParts
<1> DEFINE a == streamIdx[i]
           b == streamIdx'[i]
<1>2. a \in Nat \ {0} /\ b \in Nat \ {0} /\ a <= b
  OBVIOUS
<1> HIDE DEF a, b
<1>3. \A j \in 1 .. b - 1 : j \in 1 .. a - 1 \/ j \in a .. b - 1
  BY <1>2
<1>4. \A j \in 1 .. a - 1 : j \in 1 .. b - 1
  BY <1>2
<1>5. \A j \in a .. b - 1 : Playable(sheet[i][j]) => ~(From <= sheet[i][j].start)
  BY DEF a, b
<1>6. {j \in 1 .. b - 1 : Playable(sheet[i][j]) /\ From <= sheet[i][j].start}
        = {j \in 1 .. a - 1 : Playable(sheet[i][j]) /\ From <= sheet[i][j].start}
  BY <1>3, <1>4, <1>5
<1> QED
  BY <1>1, <1>6 DEF Ready, a, b

LEMMA PlaySeekOn ==
  ASSUME SheetInv, WellMade(sheet), WalkParts, PlayParts, SeekOn
  PROVE  PlayParts'
<1>1. /\ UNCHANGED <<sheet, initTime, curTime, repeating, curPlaying, performed>>
      /\ thread = "seek" /\ thread' = "seek"
  BY DEF SeekOn, windowVars
<1>2. Present /\ Present'
  BY <1>1 DEF Present
<1>3. /\ Voices' = Voices /\ From' = From /\ \A i : BeforeJump(i)' = BeforeJump(i)
  BY <1>1, SameSheet, SameParts
<1>4. \A i \in Voices : /\ streamIdx[i] \in Nat \ {0} /\ streamIdx'[i] \in Nat \ {0}
                        /\ streamIdx[i] <= streamIdx'[i]
                        /\ Len(sheet[i]) \in Nat
  BY StreamsGoOn
<1>5. SheetInv'
  BY SeekOnInvariant
<1>6. \A i \in Voices : streamIdx'[i] <= Len(sheet[i]) + 1
  <2>1. Streams'
    BY <1>2, <1>5 DEF SheetInv, StreamsOK
  <2> QED
    BY <1>1, <1>3, <2>1 DEF Streams
<1>7. AllInStep /\ Performed
  BY <1>2 DEF PlayParts
<1>8. ASSUME NEW i \in Voices, InStep(i)
      PROVE  InStep(i)' /\ Ready(i)' = Ready(i)
  <2>1. NoGaps(sheet[i])
    BY DEF WellMade, Voices
  <2>2. InStep(i)' /\ WalksQuietly(i, streamIdx[i], streamIdx'[i])
    BY <1>8, <2>1, InStepSeekOn
  <2>3. \A j \in streamIdx[i] .. streamIdx'[i] - 1 :
           Playable(sheet[i][j]) => ~(From <= sheet[i][j].start)
    BY <2>2 DEF WalksQuietly
  <2> QED
    BY <1>1, <1>4, <2>2, <2>3, ReadyStays
<1>9. ASSUME NEW i \in Voices, EndedBefore(i)
      PROVE  EndedBefore(i)' /\ Ready(i)' = Ready(i)
  <2>1. /\ From = initTime
        /\ \A j \in 1 .. Len(sheet[i]) :
             Playable(sheet[i][j]) => sheet[i][j].start < initTime
    BY <1>2, <1>7, <1>9, NothingReady
  <2>2. \A j \in streamIdx[i] .. streamIdx'[i] - 1 : j \in 1 .. Len(sheet[i])
    BY <1>4, <1>6
  <2>3. /\ sheet \in Sheets /\ initTime \in Nat
        /\ \A j \in 1 .. Len(sheet[i]) : sheet[i][j].start \in Nat
    BY SheetIs DEF SheetInv, Values
  <2>4. \A j \in streamIdx[i] .. streamIdx'[i] - 1 :
           Playable(sheet[i][j]) => ~(From <= sheet[i][j].start)
    BY <2>1, <2>2, <2>3
  <2>5. Ready(i)' = Ready(i)
    BY <1>1, <1>4, <2>4, ReadyStays
  <2>6. PlayingOf(i)' = PlayingOf(i)
    BY <1>1 DEF PlayingOf
  <2>7. streamIdx'[i] >= Len(sheet[i])
    BY <1>4, <1>9 DEF EndedBefore
  <2> QED
    BY <1>1, <1>9, <2>5, <2>6, <2>7 DEF EndedBefore
<1>10. AllInStep'
  BY <1>3, <1>7, <1>8, <1>9 DEF AllInStep
<1>11. Performed'
  BY <1>1, <1>3, <1>7, <1>8, <1>9 DEF AllInStep, Performed
<1> QED
  BY <1>10, <1>11 DEF PlayParts

\* A set of elements of a voice, in order, is a list of numbers.
LEMMA PartsAre ==
  ASSUME SheetInv, Present, NEW i \in Voices
  PROVE  /\ Ready(i) \in SUBSET Nat /\ IsFiniteSet(Ready(i)) /\ Ascending(Ready(i)) \in Seq(Nat)
         /\ \A f, t : /\ Part(i, f, t) \in SUBSET Nat /\ IsFiniteSet(Part(i, f, t))
                      /\ Ascending(Part(i, f, t)) \in Seq(Nat)
         /\ BeforeJump(i) \in Seq(Nat)
<1>1. sheet \in Sheets /\ Len(sheet[i]) \in Nat /\ streamIdx[i] \in Nat \ {0}
  BY StreamsAre DEF SheetInv, Values
<1>2. ASSUME NEW S \in SUBSET Nat, IsFiniteSet(S)
      PROVE  Ascending(S) \in Seq(Nat)
  <2> DEFINE n == Cardinality(S)
             f == Ascending(S)
  <2>1. n \in Nat /\ f \in [1 .. n -> S]
    BY <1>2, NumbersSorted
  <2> HIDE DEF n, f
  <2>2. f \in [1 .. n -> Nat]
    BY <2>1
  <2>3. f \in Seq(Nat)
    BY <2>1, <2>2, IsSequence
  <2> QED
    BY <2>3 DEF f
<1>3. /\ Ready(i) \in SUBSET Nat /\ IsFiniteSet(Ready(i))
  <2>1. Ready(i) \subseteq 1 .. streamIdx[i] - 1 /\ streamIdx[i] - 1 \in Nat
    BY <1>1 DEF Ready
  <2>2. IsFiniteSet(1 .. streamIdx[i] - 1)
    BY <2>1, FS_Interval
  <2>3. IsFiniteSet(Ready(i))
    BY <2>1, <2>2, FS_Subset
  <2> QED
    BY <2>1, <2>3
<1>4. ASSUME NEW f, NEW t
      PROVE  Part(i, f, t) \in SUBSET Nat /\ IsFiniteSet(Part(i, f, t))
  <2>1. Part(i, f, t) \subseteq 1 .. Len(sheet[i])
    BY DEF Part
  <2>2. IsFiniteSet(1 .. Len(sheet[i]))
    BY <1>1, FS_Interval
  <2>3. IsFiniteSet(Part(i, f, t))
    BY <2>1, <2>2, FS_Subset
  <2> QED
    BY <2>1, <2>3
<1>5. Ascending(Ready(i)) \in Seq(Nat)
  BY <1>2, <1>3
<1>6. \A f, t : Ascending(Part(i, f, t)) \in Seq(Nat)
  BY <1>2, <1>4
<1>7. BeforeJump(i) \in Seq(Nat)
  BY <1>6 DEF BeforeJump
<1> QED
  BY <1>3, <1>4, <1>5, <1>6, <1>7

\* What has been passed grows by what starts.
LEMMA ReadyGrows ==
  ASSUME SheetInv, Performed, TurnOn, NEW i \in Voices
  PROVE  Ascending(Ready(i)) \o InOrder(i, Starting(i)) = Ascending(Ready(i)')
<1> DEFINE T == {j \in Starting(i) : Playable(sheet[i][j])}
<1>1. Present /\ RunIn(i) /\ sheet \in Sheets /\ UNCHANGED <<sheet, initTime, repeating>>
  BY RunInIs DEF TurnOn, Present, SheetInv, Values, windowVars
<1>2. /\ InOrder(i, Starting(i)) = Ascending(T) /\ T \in SUBSET Nat /\ IsFiniteSet(T)
  <2>1. Starting(i) \in SUBSET (1 .. Len(sheet[i]))
    BY <1>1 DEF RunIn
  <2> QED
    BY <1>1, <2>1, InOrderIs
<1>3. Ready(i) \in SUBSET Nat /\ IsFiniteSet(Ready(i))
  BY <1>1, PartsAre
<1>4. \A x \in Ready(i), y \in T : x < y
  <2>1. /\ streamIdx[i] \in Nat \ {0} /\ streamIdx'[i] \in Nat \ {0}
        /\ Starting(i) = streamIdx[i] .. streamIdx'[i] - 1
    BY <1>1 DEF RunIn
  <2>2. \A x \in Ready(i) : x \in Nat /\ x < streamIdx[i]
    BY <2>1 DEF Ready
  <2>3. \A y \in T : y \in Nat /\ y >= streamIdx[i]
    BY <2>1
  <2> QED
    BY <2>1, <2>2, <2>3
<1>5. Ready(i) \cup T = Ready(i)'
  <2>1. From' = From
    BY <1>1, SameParts
  <2> DEFINE a == streamIdx[i]
             b == streamIdx'[i]
             P(j) == Playable(sheet[i][j]) /\ From <= sheet[i][j].start
  <2>2. /\ a \in Nat \ {0} /\ b \in Nat \ {0} /\ a <= b
        /\ Starting(i) = a .. b - 1
        /\ \A j \in Starting(i) : sheet[i][j].start = curTime
    BY <1>1 DEF RunIn
  <2>3. \A j \in Starting(i) : P(j) <=> Playable(sheet[i][j])
    <3>1. From <= curTime
      BY DEF Performed
    <3> QED
      BY <2>2, <3>1
  <2>4. T = {j \in a .. b - 1 : P(j)}
    BY <2>2, <2>3
  <2>5. Ready(i) = {j \in 1 .. a - 1 : P(j)} /\ Ready(i)' = {j \in 1 .. b - 1 : P(j)}
    BY <1>1, <2>1 DEF Ready
  <2> HIDE DEF a, b, P, T
  <2>6. \A j : j \in 1 .. b - 1 <=> j \in 1 .. a - 1 \/ j \in a .. b - 1
    BY <2>2
  <2> QED
    BY <2>4, <2>5, <2>6
<1> HIDE DEF T
<1>6. Ascending(Ready(i)) \o Ascending(T) = Ascending(Ready(i) \cup T)
  BY <1>2, <1>3, <1>4, AscendingJoined
<1> QED
  BY <1>2, <1>5, <1>6

LEMMA PlayTurnOn ==
  ASSUME SheetInv, WellMade(sheet), WalkParts, PlayParts, TurnOn
  PROVE  PlayParts'
<1>1. /\ UNCHANGED <<sheet, initTime, repeating>> /\ thread = "on"
      /\ performed' = [i \in Voices |-> performed[i] \o InOrder(i, Starting(i))]
  BY DEF TurnOn, windowVars
<1>2. Present
  BY <1>1 DEF Present
<1>3. /\ Voices' = Voices /\ From' = From /\ \A i : BeforeJump(i)' = BeforeJump(i)
      /\ \A p : At(p)' = At(p)
  BY <1>1, SameSheet, SameParts
<1>4. AllInStep /\ Performed
  BY <1>2 DEF PlayParts
<1>5. ASSUME NEW i \in Voices, InStep(i) PROVE InStep(i)'
  <2>1. NoGaps(sheet[i])
    BY DEF WellMade, Voices
  <2> QED
    BY <1>5, <2>1, InStepTurnOn
<1>6. ASSUME NEW i \in Voices, EndedBefore(i) PROVE EndedBefore(i)'
  <2>1. /\ From = initTime
        /\ \A j \in 1 .. Len(sheet[i]) :
             Playable(sheet[i][j]) => sheet[i][j].start < initTime
    BY <1>2, <1>4, <1>6, NothingReady
  <2>2. RunIn(i) /\ initTime \in Nat /\ curTime \in Nat
    BY RunInIs DEF SheetInv, Values
  <2>3. \A p \in StartedNotes : p[1] # i
    <3> SUFFICES ASSUME NEW p \in StartedNotes, p[1] = i PROVE FALSE
      OBVIOUS
    <3>1. sheet \in Sheets /\ Streams
      BY <1>2, ListsAre, StreamsAre
    <3>2. p[2] \in Starting(i) /\ Playable(sheet[i][p[2]])
      BY <2>2, <3>1, StartedIs DEF StartedNotes, At
    <3>3. p[2] \in 1 .. Len(sheet[i]) /\ sheet[i][p[2]].start = curTime
      BY <2>2, <3>2 DEF RunIn
    <3> QED
      BY <1>4, <2>1, <2>2, <3>2, <3>3 DEF Performed
  <2>4. PlayingOf(i)' = {}
    BY <1>6, <2>2, <2>3 DEF RunIn, EndedBefore
  <2>5. streamIdx'[i] >= Len(sheet[i])
    BY <1>6, <2>2 DEF RunIn, EndedBefore
  <2> QED
    BY <1>1, <1>6, <2>4, <2>5 DEF EndedBefore
<1>7. AllInStep'
  BY <1>3, <1>4, <1>5, <1>6 DEF AllInStep
<1>8. curTime' >= From
  <2>1. curTime' >= curTime /\ curTime' \in Nat /\ curTime \in Nat /\ curTime >= From
    <3>1. curTime \in Nat /\ curTime >= From
      BY <1>4 DEF Performed, SheetInv, Values
    <3>2. TurnsOn
      BY TurnsOnIs
    <3> QED
      BY <3>1, <3>2 DEF TurnsOn
  <2>2. From \in Nat
    BY <1>4 DEF Performed
  <2> QED
    BY <2>1, <2>2
<1>9. ASSUME NEW i \in Voices
      PROVE  performed'[i] = BeforeJump(i) \o Ascending(Ready(i)')
  <2> DEFINE a == BeforeJump(i)
             b == Ascending(Ready(i))
             c == InOrder(i, Starting(i))
  <2>1. a \in Seq(Nat) /\ b \in Seq(Nat) /\ c \in Seq(Nat)
    <3>1. Starting(i) \in SUBSET (1 .. Len(sheet[i])) /\ sheet \in Sheets
      BY RunInIs DEF RunIn, SheetInv, Values
    <3> QED
      BY <1>2, <3>1, PartsAre, InOrderIs
  <2>2. performed'[i] = (a \o b) \o c
    BY <1>1, <1>4 DEF Performed
  <2>3. b \o c = Ascending(Ready(i)')
    BY <1>4, ReadyGrows
  <2> HIDE DEF a, b, c
  <2>4. (a \o b) \o c = a \o (b \o c)
    BY <2>1, ConcatAssociative, SMTT(30)
  <2> QED
    BY <2>2, <2>3, <2>4 DEF a
<1>10. Performed'
  <2>1. \A i \in Voices : Ascending(Ready(i)') = Ascending(Ready(i))'
    OBVIOUS
  <2> QED
    BY <1>3, <1>4, <1>8, <1>9, <2>1 DEF Performed
<1> QED
  BY <1>7, <1>10 DEF PlayParts

\* Nothing in order is the empty list, which adds nothing to another.
LEMMA NoneInOrder ==
  /\ Ascending({}) = << >>
  /\ \A s \in Seq(Nat) : << >> \o s = s /\ s \o << >> = s
<1>1. Ascending({}) = << >>
  <2> DEFINE S == {}
             f == << >>
  <2>1. /\ S \in SUBSET Nat /\ f \in [1 .. 0 -> S]
        /\ (\A j, k \in 1 .. 0 : j < k => f[j] < f[k])
        /\ (\A x \in S : \E k \in 1 .. 0 : f[k] = x)
    OBVIOUS
  <2> HIDE DEF S, f
  <2>2. f = Ascending(S)
    BY <2>1, SortedOnce
  <2> QED
    BY <2>2 DEF S, f
<1>2. \A s \in Seq(Nat) : << >> \o s = s /\ s \o << >> = s
  OBVIOUS
<1> QED
  BY <1>1, <1>2

\* When the walk jumps, it has passed what starts before the end of the section.
LEMMA ReadyAtEnd ==
  ASSUME SheetInv, WellMade(sheet), WalkParts, SeekBack, NEW i \in Voices, InStep(i)
  PROVE  Ready(i) = Part(i, initTime, RepeatEnd)
<1>1. JumpsRight(next) /\ thread = "seek"
  BY JumpsRightIs DEF SeekBack
<1>2. ~repeating /\ curTime = RepeatEnd /\ Far /\ Present /\ From = initTime
  BY <1>1 DEF JumpsRight, Present, From
<1>3. sheet \in Sheets /\ EndTimes # {} /\ NoGaps(sheet[i]) /\ initTime \in Nat
  BY <1>2 DEF Far, SheetInv, Values, WellMade, Voices
<1> DEFINE c == CloseAt(i)
           a == streamIdx[i]
           n == Len(sheet[i])
<1>4. /\ RepeatEnd \in Nat /\ c \in 1 .. n /\ sheet[i][c].kind = "repeatClose"
      /\ sheet[i][c].start = RepeatEnd
  BY <1>3, RepeatIs
<1>5. a \in Nat \ {0} /\ n \in Nat /\ a <= n + 1
  BY <1>2, StreamsAre
<1>6. \A j \in 1 .. n : /\ sheet[i][j].start \in Nat
                        /\ \A k \in 1 .. j : sheet[i][k].start <= sheet[i][j].start
  BY <1>3, SheetIs
<1>7. NotPast(i)
  BY <1>2 DEF WalkParts, RepeatInv, NotYet
<1>8. a <= c \/ (a = c + 1 /\ c = n)
  BY <1>7 DEF NotPast
<1>9. \A j \in a .. n : sheet[i][j].start >= RepeatEnd
  BY <1>2 DEF InStep
<1> HIDE DEF a, c, n
<1>10. ASSUME NEW j \in 1 .. a - 1, Playable(sheet[i][j])
       PROVE  j \in 1 .. n /\ sheet[i][j].start < RepeatEnd
  <2>1. j \in 1 .. n /\ j \in 1 .. c /\ c \in 1 .. n
    BY <1>4, <1>5, <1>8
  <2>2. j # c
    BY <1>4, <1>10 DEF Playable
  <2>3. j < c
    BY <2>1, <2>2
  <2>4. sheet[i][j].start <= sheet[i][c].start
    BY <1>6, <2>1
  <2>5. sheet[i][j].start # sheet[i][c].start
    <3>1. sheet[i][c].kind # "note"
      BY <1>4
    <3> QED
      BY <1>3, <1>10, <2>1, <2>3, <3>1, QuietBefore DEF n
  <2> QED
    BY <1>4, <1>6, <2>1, <2>4, <2>5
<1>11. ASSUME NEW j \in 1 .. n, sheet[i][j].start < RepeatEnd
       PROVE  j \in 1 .. a - 1
  <2>1. j \notin a .. n
    BY <1>4, <1>6, <1>9, <1>11
  <2> QED
    BY <1>5, <2>1
<1>12. {j \in 1 .. a - 1 : Playable(sheet[i][j]) /\ initTime <= sheet[i][j].start}
         = {j \in 1 .. n : /\ Playable(sheet[i][j]) /\ initTime <= sheet[i][j].start
                           /\ sheet[i][j].start < RepeatEnd}
  BY <1>10, <1>11
<1> QED
  BY <1>2, <1>12 DEF Ready, Part, a, n

LEMMA PlaySeekBack ==
  ASSUME SheetInv, WellMade(sheet), WalkParts, PlayParts, SeekBack
  PROVE  PlayParts'
<1>1. JumpsRight(next) /\ JumpsFrom(next)
  BY JumpsRightIs, BackIs
<1>2. /\ UNCHANGED <<sheet, initTime, curPlaying, performed>>
      /\ thread = "seek" /\ ~repeating /\ repeating'
  BY <1>1 DEF JumpsFrom, SeekBack
<1>3. Present /\ From = initTime
  BY <1>2 DEF Present, From
<1>4. AllInStep /\ Performed
  BY <1>3 DEF PlayParts
<1>5. \A i \in Voices : InStep(i)
  BY <1>1, <1>4, FarInStep DEF JumpsRight
<1>6. \A i \in Voices : BeginsAgain(i)
  BY <1>5, BeginsAgainIs
<1>7. /\ Voices' = Voices /\ BeginsAt' = BeginsAt /\ RepeatEnd' = RepeatEnd
      /\ \A i, f, t : Part(i, f, t)' = Part(i, f, t)
      /\ \A p : At(p)' = At(p)
  BY <1>2, SameSheet, SameParts, SameRepeat
<1>8. From' = curTime' /\ curTime' \in Nat
  <2>1. curTime' = BeginTime(RepeatEnd)
    BY BeginsAgainIs
  <2>2. From' = BeginsAt'
    BY <1>2 DEF From
  <2>3. SheetInv'
    BY SeekBackInvariant
  <2> QED
    BY <1>7, <2>1, <2>2, <2>3 DEF BeginsAt, SheetInv, Values
<1>9. ASSUME NEW i \in Voices PROVE InStep(i)'
  <2>1. /\ PlayingOf(i)' = {} /\ \A j : FirstInChord(i, j)' = FirstInChord(i, j)
    BY <1>1, <1>2 DEF JumpsRight, PlayingOf, FirstInChord
  <2> QED
    BY <1>2, <1>6, <1>7, <2>1 DEF BeginsAgain, InStep
<1>10. ASSUME NEW i \in Voices
       PROVE  performed[i] = Ascending(Part(i, initTime, RepeatEnd)) /\ Ready(i)' = {}
  <2>1. Ready(i) = Part(i, initTime, RepeatEnd)
    BY <1>5, ReadyAtEnd
  <2>2. performed[i] = << >> \o Ascending(Ready(i))
    BY <1>2, <1>4 DEF Performed, BeforeJump
  <2>3. performed[i] = Ascending(Ready(i))
    BY <1>3, <2>2, PartsAre, NoneInOrder
  <2>4. \A j \in 1 .. streamIdx'[i] - 1 :
          sheet[i][j].start >= curTime' => ~Playable(sheet[i][j])
    BY <1>6 DEF BeginsAgain
  <2>5. ASSUME NEW j \in Ready(i)' PROVE FALSE
    <3>1. /\ j \in 1 .. streamIdx'[i] - 1 /\ Playable(sheet[i][j])
          /\ curTime' <= sheet[i][j].start
      BY <1>2, <1>8, <2>5 DEF Ready
    <3> QED
      BY <2>4, <3>1
  <2> QED
    BY <2>1, <2>3, <2>5
<1>11. ASSUME NEW i \in Voices
       PROVE  performed'[i] = BeforeJump(i)' \o Ascending(Ready(i)')
  <2>1. BeforeJump(i)' = Ascending(Part(i, initTime, RepeatEnd))
    BY <1>2, <1>7 DEF BeforeJump
  <2> DEFINE s == Ascending(Part(i, initTime, RepeatEnd))
  <2>2. s \in Seq(Nat)
    BY <1>3, PartsAre
  <2>3. performed'[i] = s /\ Ascending(Ready(i)') = << >>
    BY <1>2, <1>10, NoneInOrder
  <2> HIDE DEF s
  <2>4. s = s \o << >>
    BY <2>2, NoneInOrder
  <2> QED
    BY <2>1, <2>3, <2>4 DEF s
<1>12. Performed'
  <2>1. \A i \in Voices : Ascending(Ready(i)') = Ascending(Ready(i))'
    OBVIOUS
  <2> QED
    BY <1>7, <1>8, <1>11, <2>1 DEF Performed
<1>13. AllInStep'
  BY <1>7, <1>9 DEF AllInStep
<1> QED
  BY <1>12, <1>13 DEF PlayParts

\* Where a voice begins when nothing sounds across the start: with what starts
\* there, or not at all.
BeginsThere(i, s) ==
  /\ \A j \in s .. Len(sheet[i]) : sheet[i][j].start >= initTime
  /\ s <= Len(sheet[i]) =>
       /\ sheet[i][s].start = initTime
       /\ sheet[i][s].kind = "note" => FirstInChord(i, s)
EndsBefore(i, s) ==
  s >= Len(sheet[i]) /\ \A j \in 1 .. Len(sheet[i]) : sheet[i][j].end <= initTime
QuietFrom(i, s) ==
  \A j \in 1 .. s - 1 : Playable(sheet[i][j]) => ~(initTime <= sheet[i][j].start)
BeginsRight(i, s) ==
  s \in Nat /\ QuietFrom(i, s) /\ (BeginsThere(i, s) \/ EndsBefore(i, s))

\* What starts at the start time and is no later note of a chord is where a
\* voice may begin.
LEMMA BeginsAtStart ==
  ASSUME SheetInv, NEW i \in Voices, NoGaps(sheet[i]), NEW m \in 1 .. Len(sheet[i]),
         sheet[i][m].start = initTime, sheet[i][m].kind = "note" => FirstInChord(i, m)
  PROVE  BeginsRight(i, m)
<1>1. /\ sheet \in Sheets /\ initTime \in Nat /\ Len(sheet[i]) \in Nat
      /\ \A j \in 1 .. Len(sheet[i]) :
           /\ sheet[i][j].start \in Nat
           /\ \A k \in 1 .. j : sheet[i][k].start <= sheet[i][j].start
  BY SheetIs DEF SheetInv, Values
<1>2. \A j \in m .. Len(sheet[i]) : sheet[i][j].start >= initTime
  <2>1. \A j \in m .. Len(sheet[i]) : j \in 1 .. Len(sheet[i]) /\ m \in 1 .. j
    BY <1>1
  <2> QED
    BY <1>1, <2>1
<1>3. ASSUME NEW j \in 1 .. m - 1, Playable(sheet[i][j])
      PROVE  ~(initTime <= sheet[i][j].start)
  <2>1. j \in 1 .. Len(sheet[i]) /\ j \in 1 .. m /\ j < m
    BY <1>1
  <2>2. sheet[i][j].start <= initTime /\ sheet[i][j].start \in Nat
    BY <1>1, <2>1
  <2>3. sheet[i][j].start # sheet[i][m].start
    BY <1>1, <1>3, <2>1, QuietBefore
  <2> QED
    BY <1>1, <2>2, <2>3
<1> QED
  BY <1>1, <1>2, <1>3 DEF BeginsRight, BeginsThere, QuietFrom

LEMMA BeginsRightIs ==
  ASSUME SheetInv, NEW i \in Voices, NoGaps(sheet[i]), NothingAcross
  PROVE  BeginsRight(i, SeekFrom(i, 1, Passed(i, 1, initTime)))
<1> DEFINE n == Len(sheet[i])
           t == initTime
           S == Passed(i, 1, t)
           m == LastOf(S, 1)
           v == sheet[i]
           st(j) == v[j].start
           en(j) == v[j].end
           s == SeekFrom(i, 1, S)
<1>1. /\ sheet \in Sheets /\ t \in Nat /\ n \in Nat
      /\ \A j \in 1 .. n : /\ st(j) \in Nat /\ en(j) \in Nat /\ st(j) <= en(j)
                           /\ \A k \in 1 .. j : st(k) <= st(j)
  BY SheetIs DEF SheetInv, Values
<1>2. s = IF m = n /\ ~Playable(v[m]) THEN m + 1 ELSE m
  BY DEF SeekFrom, SkipLast
<1>3. /\ S \in SUBSET (0 .. n) /\ S \in SUBSET (1 .. n)
      /\ \A j \in S : \A k \in 1 .. j : k \in S
      /\ \A j \in S : st(j) <= t
  BY <1>1, PassedIs
<1>4. \A j : j \in S <=> j \in 1 .. n /\ \A k \in 1 .. j : Passes(i, k, t)
  BY DEF Passed
<1>5. /\ S = {} => m = 1
      /\ S # {} => m \in S
      /\ \A k \in S : k <= m
  <2> HIDE DEF S
  <2> QED
    BY <1>1, <1>3, LastIs
<1>6. ASSUME NEW j \in 1 .. n PROVE ~(st(j) < t /\ t < en(j))
  <2>1. <<i, j>> \in Positions
    <3>1. i \in Nat
      BY <1>1, SheetIs
    <3> QED
      BY <1>1, <3>1, PositionsAre, SMTT(30)
  <2> QED
    BY <2>1 DEF NothingAcross, At
<1> HIDE DEF S, m, s
<1>7. CASE n = 0
  <2>1. S = {}
    BY <1>3, <1>7
  <2>2. s = 1
    BY <1>2, <1>5, <1>7, <2>1
  <2>3. BeginsRight(i, 1)
    BY <1>7 DEF BeginsRight, BeginsThere, QuietFrom
  <2> QED
    BY <2>2, <2>3 DEF s, S
<1>8. CASE n # 0
  <2>1. 1 \in 1 .. n /\ st(1) = 0 /\ \A k \in 1 .. 1 : k = 1
    <3>1. n >= 1 /\ v # << >>
      BY <1>1, <1>8
    <3> QED
      BY <1>1, <3>1 DEF NoGaps
  <2>2. 1 \in S
    <3>1. Passes(i, 1, t)
      BY <1>1, <2>1 DEF Passes, FirstInChord
    <3> QED
      BY <1>4, <2>1, <3>1
  <2>3. m \in S /\ m \in 1 .. n /\ m \in Nat
    <3>1. m \in S
      BY <1>5, <2>2, Zenon
    <3>2. m \in 1 .. n
      BY <1>3, <3>1, Zenon
    <3> QED
      BY <3>1, <3>2
  <2>4. /\ \A k \in 1 .. m : Passes(i, k, t)
        /\ st(m) <= t /\ Passes(i, m, t)
    BY <1>3, <1>4, <2>3
  <2>5. ASSUME st(m) = t PROVE BeginsRight(i, m)
    <3>1. v[m].kind = "note" => FirstInChord(i, m)
      BY <1>1, <2>4, <2>5 DEF Passes
    <3> QED
      BY <2>3, <2>5, <3>1, BeginsAtStart
  <2>6. CASE m < n
    <3>1. m + 1 \in 1 .. n /\ m + 1 \notin S /\ m \in 1 .. n - 1
      BY <1>1, <1>5, <2>3, <2>6
    <3>2. ~Passes(i, m + 1, t)
      <4>1. \A k \in 1 .. m + 1 : k \in 1 .. m \/ k = m + 1
        BY <2>3
      <4> QED
        BY <1>4, <2>4, <3>1, <4>1
    <3>3. ~(st(m + 1) < t)
      BY <3>2 DEF Passes
    <3>4. v[m + 1].start = v[m].end \/ Mates(v[m], v[m + 1])
      BY <3>1 DEF NoGaps
    <3>5. st(m) = t
      <4> SUFFICES ASSUME st(m) < t PROVE FALSE
        BY <1>1, <2>3, <2>4
      <4>1. ~Mates(v[m], v[m + 1])
        BY <3>3 DEF Mates
      <4>2. st(m + 1) = en(m)
        BY <3>4, <4>1
      <4>3. en(m) = t
        BY <1>1, <1>6, <2>3, <3>3, <4>2
      <4>4. v[m + 1].kind = "note" /\ ~FirstInChord(i, m + 1)
        BY <3>2, <4>2, <4>3 DEF Passes
      <4>5. (m + 1) - 1 = m
        BY <2>3
      <4>6. sheet[i][m].start = sheet[i][m + 1].start
        BY <4>4, <4>5 DEF FirstInChord
      <4> QED
        BY <1>1, <2>3, <4>2, <4>3, <4>6
    <3>6. s = m
      BY <1>2, <2>6
    <3> QED
      BY <2>5, <3>5, <3>6 DEF s, S
  <2>7. CASE m = n /\ ~Playable(v[n])
    <3>1. s = n + 1
      BY <1>2, <2>7
    <3>2. ASSUME NEW j \in 1 .. (n + 1) - 1, Playable(v[j])
          PROVE  ~(t <= st(j))
      <4>1. j \in 1 .. n /\ n \in 1 .. n
        BY <1>1, <1>8
      <4>2. j # n /\ j < n
        BY <2>7, <3>2, <4>1
      <4>3. st(j) <= st(n) /\ st(n) <= t /\ st(j) \in Nat /\ st(n) \in Nat
        BY <1>1, <2>4, <2>7, <4>1
      <4>4. st(j) # st(n)
        <5>1. v[n].kind # "note"
          BY <2>7 DEF Playable
        <5> QED
          BY <1>1, <3>2, <4>1, <4>2, <5>1, QuietBefore
      <4> QED
        BY <1>1, <4>3, <4>4
    <3>3. BeginsRight(i, n + 1)
      BY <1>1, <3>2 DEF BeginsRight, BeginsThere, QuietFrom
    <3> QED
      BY <3>1, <3>3 DEF s, S
  <2>8. CASE m = n /\ Playable(v[n]) /\ st(n) = t
    <3>1. s = m
      BY <1>2, <2>8
    <3> QED
      BY <2>5, <2>8, <3>1 DEF s, S
  <2>9. CASE m = n /\ Playable(v[n]) /\ st(n) # t
    <3>1. s = n
      BY <1>2, <2>9
    <3>2. n \in 1 .. n /\ st(n) < t /\ en(n) <= t
      BY <1>1, <1>6, <1>8, <2>4, <2>9
    <3>3. ASSUME NEW j \in 1 .. n PROVE en(j) <= t
      <4>1. CASE j = n
        BY <3>2, <4>1
      <4>2. CASE j < n
        <5>1. en(j) <= st(n) \/ Mates(v[j], v[n])
          BY <1>1, <3>2, <4>2, Apart
        <5>2. en(j) <= st(n) \/ en(j) = en(n)
          BY <5>1 DEF Mates
        <5> QED
          BY <1>1, <3>2, <5>2
      <4> QED
        BY <1>1, <4>1, <4>2
    <3>4. ASSUME NEW j \in 1 .. n - 1 PROVE ~(t <= st(j))
      <4>1. j \in 1 .. n
        BY <1>1
      <4> QED
        BY <1>1, <3>2, <4>1
    <3>5. BeginsRight(i, n)
      BY <1>1, <3>3, <3>4 DEF BeginsRight, EndsBefore, QuietFrom
    <3> QED
      BY <3>1, <3>5 DEF s, S
  <2> QED
    BY <1>1, <2>3, <2>6, <2>7, <2>8, <2>9
<1> QED
  BY <1>7, <1>8

LEMMA PlayBegin ==
  ASSUME SheetInv, WellMade(sheet), NothingAcross, PlayParts, Begin
  PROVE  PlayParts'
<1> USE DEF windowVars, threadVars
<1>1. /\ UNCHANGED <<sheet, initTime, curPlaying, performed>> /\ curPlaying = << >>
  BY DEF Begin, InitStreams, SheetInv, NoneOver
<1>2. CASE streamIdx # << >>
  <2>1. Present /\ UNCHANGED <<curTime, streamIdx, repeating>>
    BY <1>2 DEF Begin, Present
  <2> QED
    BY <1>1, <2>1, PlayStays
<1>3. CASE streamIdx = << >>
  <2>1. /\ curTime' = initTime /\ ~repeating' /\ initTime \in Nat
        /\ streamIdx' = [i \in Voices |-> SeekFrom(i, 1, Passed(i, 1, initTime))]
    BY <1>3 DEF Begin, InitStreams, SheetInv, Values
  <2>2. performed = [i \in Voices |-> << >>]
    <3>1. ~Present
      BY <1>3 DEF Present, Begin
    <3> QED
      BY <3>1 DEF SheetInv, StreamsOK, Fresh
  <2>3. Voices' = Voices /\ From' = initTime /\ \A i : BeforeJump(i)' = << >>
    BY <1>1, <2>1, SameSheet DEF From, BeforeJump
  <2>4. ASSUME NEW i \in Voices PROVE BeginsRight(i, streamIdx'[i])
    BY <2>1, BeginsRightIs DEF WellMade, Voices
  <2>5. ASSUME NEW i \in Voices PROVE Ready(i)' = {}
    BY <1>1, <2>3, <2>4 DEF Ready, BeginsRight, QuietFrom
  <2>6. ASSUME NEW i \in Voices PROVE InStep(i)' \/ EndedBefore(i)'
    <3>1. PlayingOf(i)' = {} /\ \A j : FirstInChord(i, j)' = FirstInChord(i, j)
      BY <1>1 DEF PlayingOf, Range, FirstInChord
    <3>2. BeginsThere(i, streamIdx'[i]) => InStep(i)'
      BY <1>1, <2>1, <3>1 DEF BeginsThere, InStep
    <3>3. EndsBefore(i, streamIdx'[i]) => EndedBefore(i)'
      BY <1>1, <3>1 DEF EndsBefore, EndedBefore
    <3> QED
      BY <2>4, <3>2, <3>3 DEF BeginsRight
  <2>7. AllInStep'
    BY <2>3, <2>6 DEF AllInStep
  <2>8. ASSUME NEW i \in Voices
        PROVE  performed'[i] = BeforeJump(i)' \o Ascending(Ready(i))'
    <3>1. Ascending(Ready(i))' = << >>
      BY <2>5, NoneInOrder
    <3>2. << >> = << >> \o << >>
      OBVIOUS
    <3> QED
      BY <1>1, <2>2, <2>3, <3>1, <3>2
  <2>9. Performed'
    BY <2>1, <2>3, <2>8 DEF Performed
  <2> QED
    BY <2>7, <2>9 DEF PlayParts
<1> QED
  BY <1>2, <1>3

LEMMA PlayStep ==
  WellMade(sheet) /\ SheetInv /\ WalkInv /\ PlayInv /\ Next => PlayInv'
<1> SUFFICES ASSUME WellMade(sheet), SheetInv, WalkInv, PlayInv, Next, ~asked', NothingAcross'
             PROVE  PlayParts'
  BY DEF PlayInv
<1>1. CASE Thread
  <2>1. /\ ~asked /\ UNCHANGED <<sheet, initTime>>
    BY <1>1, SMTT(30) DEF Thread, Begin, Test, TurnOff, LeaveOn, AllLookedAt, SeekOn, SeekBack, SoughtAll,
                Check, TurnOn, windowVars
  <2>2. NothingAcross
    BY <2>1, SameParts
  <2>3. WalkParts /\ PlayParts
    BY <2>1, <2>2 DEF WalkInv, PlayInv
  <2>4. CASE Test \/ LeaveOn \/ AllLookedAt \/ SoughtAll \/ Check
    <3>1. /\ UNCHANGED <<sheet, initTime, curTime, streamIdx, repeating, curPlaying, performed>>
          /\ Present
      BY <2>4 DEF Test, LeaveOn, AllLookedAt, SoughtAll, Check, threadVars, windowVars, Present
    <3> QED
      BY <2>3, <3>1, PlayStays
  <2> QED
    BY <1>1, <2>2, <2>3, <2>4, PlayBegin, PlayTurnOff, PlaySeekOn, PlaySeekBack, PlayTurnOn
       DEF Thread
<1>2. CASE (\E t \in InitTimes : Play(t)) \/ PlaybackFinished
  <2>1. ~Present'
    BY <1>2 DEF Play, PlaybackFinished, InitPlayback, Present
  <2> QED
    BY <2>1 DEF PlayParts
<1>3. CASE InsertNote \/ CloseDocument \/ \E p \in Positions : DeleteElement(p)
  <2>1. /\ UNCHANGED <<sheet, initTime, curTime, streamIdx, repeating, curPlaying, performed>>
        /\ asked' = asked /\ (Present' => Present)
    BY <1>3 DEF InsertNote, CloseDocument, DeleteElement, threadVars, windowVars, Present
  <2>2. PlayParts
    BY <2>1, SameParts DEF PlayInv
  <2>3. CASE Present
    BY <2>1, <2>2, <2>3, PlayStays
  <2>4. CASE ~Present
    BY <2>1, <2>4 DEF PlayParts
  <2> QED
    BY <2>3, <2>4
<1>4. CASE Stop \/ StopNow \/ FinishedLate
  BY <1>4 DEF Stop, StopNow, FinishedLate
<1> QED
  BY <1>1, <1>2, <1>3, <1>4 DEF Next, Window

-----------------------------------------------------------------------------
(* How it is written.                                                      *)

\* A list of one list, laid out.
LEMMA FlatOne ==
  ASSUME NEW x
  PROVE  FlattenSeq(<<x>>) = x
<1> DEFINE s == <<x>>
           Unfolded(f) == [i \in 1 .. Len(s) |-> IF i = 1 THEN s[i] ELSE f[i - 1] \o s[i]]
           g == [i \in 1 .. Len(s) |-> s[i]]
           h == CHOOSE f : f = Unfolded(f)
<1>1. Len(s) = 1 /\ s[1] = x
  OBVIOUS
<1>2. \A i \in 1 .. Len(s) : i = 1
  BY <1>1
<1>3. g = Unfolded(g)
  BY <1>2
<1>4. h = Unfolded(h)
  BY <1>3
<1>5. h[Len(s)] = x
  BY <1>1, <1>4
<1>6. FlattenSeq(s) = h[Len(s)]
  BY <1>1 DEF FlattenSeq
<1> QED
  BY <1>5, <1>6

\* A finite set of numbers that has one has a largest.
LEMMA LargestIs ==
  ASSUME NEW S \in SUBSET Nat, IsFiniteSet(S), S # {}
  PROVE  Max(S) \in Nat /\ \A k \in S : k <= Max(S)
<1> DEFINE n == Cardinality(S)
           f == Ascending(S)
<1>1. /\ n \in Nat /\ f \in [1 .. n -> S]
      /\ \A j, k \in 1 .. n : j < k => f[j] < f[k]
      /\ \A x \in S : \E k \in 1 .. n : f[k] = x
  BY NumbersSorted
<1> HIDE DEF n, f
<1>2. n \in 1 .. n
  <2>1. PICK x \in S : TRUE
    OBVIOUS
  <2>2. PICK k \in 1 .. n : f[k] = x
    BY <1>1, <2>1
  <2> QED
    BY <1>1, <2>2
<1> DEFINE m == f[n]
<1>3. m \in S /\ m \in Nat
  BY <1>1, <1>2
<1>4. ASSUME NEW x \in S PROVE x <= m
  <2>1. PICK k \in 1 .. n : f[k] = x
    BY <1>1
  <2>2. k = n \/ k < n
    BY <1>1
  <2>3. x \in Nat
    OBVIOUS
  <2> QED
    BY <1>1, <1>2, <1>3, <2>1, <2>2, <2>3
<1> HIDE DEF m
<1>5. S \in SUBSET (0 .. m)
  BY <1>3, <1>4
<1> QED
  BY <1>3, <1>5, MaxIs

\* A section of a voice is what plays and starts in it.
LEMMA SectionIs ==
  ASSUME sheet \in Sheets, NEW i \in Voices, NEW a \in Nat, NEW b \in Nat
  PROVE  Section(i, a, b) = Ascending(Part(i, a, b))
<1> DEFINE S == {j \in DOMAIN sheet[i] : sheet[i][j].start \in a .. b - 1}
           T == {j \in S : Playable(sheet[i][j])}
<1>1. /\ DOMAIN sheet[i] = 1 .. Len(sheet[i])
      /\ \A j \in 1 .. Len(sheet[i]) : sheet[i][j].start \in Nat
  BY SheetIs
<1>2. S \in SUBSET (1 .. Len(sheet[i]))
  BY <1>1
<1>3. T = Part(i, a, b)
  <2>1. \A j \in 1 .. Len(sheet[i]) :
          sheet[i][j].start \in a .. b - 1 <=> a <= sheet[i][j].start /\ sheet[i][j].start < b
    BY <1>1
  <2> QED
    BY <1>1, <2>1 DEF Part
<1>4. Section(i, a, b) = InOrder(i, S)
  BY DEF Section
<1> HIDE DEF S
<1>5. InOrder(i, S) = Ascending({j \in S : Playable(sheet[i][j])})
  BY <1>2, InOrderIs
<1> QED
  BY <1>3, <1>4, <1>5

\* When all the voices have ended.
Total == Max({At(p).end : p \in Positions} \cup {0}) + 1

LEMMA TotalIs ==
  ASSUME sheet \in Sheets
  PROVE  /\ Total \in Nat
         /\ \A i \in Voices : \A j \in 1 .. Len(sheet[i]) : sheet[i][j].start < Total
<1> DEFINE S == {At(p).end : p \in Positions}
           T == S \cup {0}
<1>1. \A p \in Positions : At(p).end \in Nat
  BY PositionsAre, SheetIs DEF At
<1>2. IsFiniteSet(S)
  <2>1. IsFiniteSet(Positions)
    BY PositionsAre
  <2> DEFINE f == [p \in Positions |-> At(p).end]
  <2>2. f \in Surjection(Positions, S)
    BY DEF Surjection
  <2> HIDE DEF f, S
  <2> QED
    BY <2>1, <2>2, FS_Surjection
<1>3. IsFiniteSet(T) /\ T \in SUBSET Nat /\ T # {}
  BY <1>1, <1>2, FS_AddElement
<1> HIDE DEF S, T
<1>4. Max(T) \in Nat /\ \A k \in T : k <= Max(T)
  BY <1>3, LargestIs
<1>5. Total = Max(T) + 1
  BY DEF Total, T, S
<1>6. ASSUME NEW i \in Voices, NEW j \in 1 .. Len(sheet[i])
      PROVE  sheet[i][j].start < Total
  <2>1. /\ i \in Nat /\ j \in Nat
        /\ sheet[i][j].start \in Nat /\ sheet[i][j].end \in Nat
        /\ sheet[i][j].start <= sheet[i][j].end
    BY SheetIs
  <2>2. <<i, j>> \in Positions
    BY <2>1, PositionsAre
  <2>3. sheet[i][j].end \in T
    BY <2>2 DEF T, S, At
  <2> QED
    BY <1>4, <1>5, <2>1, <2>3
<1> QED
  BY <1>4, <1>5, <1>6

\* Without the end of a section ahead, everything once; with one, the section
\* twice.
WrittenParts(i) ==
  IF Far
  THEN (Ascending(Part(i, initTime, RepeatEnd)) \o Ascending(Part(i, BeginsAt, RepeatEnd)))
         \o Ascending(Part(i, RepeatEnd, Total))
  ELSE Ascending(Part(i, initTime, Total))

LEMMA SectionBegins ==
  ASSUME sheet \in Sheets, WellMade(sheet), Far
  PROVE  BeginsAt \in Nat /\ RepeatEnd \in Nat /\ BeginsAt <= RepeatEnd
<1> DEFINE S == {At(p).start : p \in {q \in Positions : /\ At(q).kind = "repeatOpen"
                                                      /\ At(q).start < RepeatEnd}}
<1>1. RepeatEnd \in Nat
  BY RepeatIs DEF Far
<1>2. \A p \in Positions : At(p).start \in Nat
  BY PositionsAre, SheetIs DEF At
<1>3. S \in SUBSET (0 .. RepeatEnd)
  BY <1>1, <1>2
<1>4. BeginsAt = LastOf(S, 0)
  BY DEF BeginsAt, BeginTime
<1> HIDE DEF S
<1>5. (S = {} => LastOf(S, 0) = 0) /\ (S # {} => LastOf(S, 0) \in S)
  BY <1>1, <1>3, LastIs
<1>6. BeginsAt \in 0 .. RepeatEnd
  <2>1. CASE S = {}
    BY <1>1, <1>4, <1>5, <2>1
  <2>2. CASE S # {}
    BY <1>3, <1>4, <1>5, <2>2, Zenon
  <2> QED
    BY <2>1, <2>2
<1> QED
  BY <1>1, <1>6

LEMMA WrittenIs ==
  ASSUME SheetInv, WellMade(sheet), Present, NEW i \in Voices
  PROVE  AsWritten(i) = WrittenParts(i)
<1> DEFINE E == {t \in EndTimes : t > initTime}
           ends == Ascending(E)
           last == IF ends = << >> THEN initTime ELSE Last(ends)
           Twice(n) == Section(i, IF n = 1 THEN initTime ELSE ends[n - 1], ends[n])
                         \o Section(i, BeginTime(ends[n]), ends[n])
           first == [n \in DOMAIN ends |-> Twice(n)]
<1>1. AsWritten(i) = FlattenSeq(first) \o Section(i, last, Total)
  BY DEF AsWritten, Total, Ascending
<1>2. sheet \in Sheets /\ initTime \in Nat /\ Total \in Nat
  BY TotalIs DEF SheetInv, Values
<1>3. CASE ~Far
  <2>1. E = {}
    BY <1>2, <1>3 DEF Far, EndTimes
  <2> HIDE DEF E
  <2>2. ends = << >>
    BY <2>1, NoneInOrder
  <2> HIDE DEF ends
  <2>3. last = initTime /\ first = << >>
    BY <2>2
  <2>4. FlattenSeq(<< >>) = << >>
    BY DEF FlattenSeq
  <2>5. Section(i, initTime, Total) = Ascending(Part(i, initTime, Total))
    BY <1>2, SectionIs
  <2>6. Ascending(Part(i, initTime, Total)) \in Seq(Nat)
    BY PartsAre
  <2> HIDE DEF first, last
  <2>7. AsWritten(i) = << >> \o Ascending(Part(i, initTime, Total))
    BY <1>1, <2>3, <2>4, <2>5
  <2> QED
    BY <1>3, <2>6, <2>7, NoneInOrder DEF WrittenParts
<1>4. CASE Far
  <2>1. /\ BeginsAt \in Nat /\ RepeatEnd \in Nat /\ EndTimes = {RepeatEnd}
        /\ initTime < RepeatEnd
    BY <1>2, <1>4, SectionBegins, RepeatIs DEF Far
  <2>2. E = {RepeatEnd}
    BY <2>1, <1>2
  <2> HIDE DEF E
  <2>3. ends = <<RepeatEnd>>
    <3> DEFINE f == <<RepeatEnd>>
    <3>1. /\ f \in [1 .. 1 -> E] /\ E \in SUBSET Nat
          /\ (\A j, k \in 1 .. 1 : j < k => f[j] < f[k])
          /\ (\A x \in E : \E k \in 1 .. 1 : f[k] = x)
      BY <2>1, <2>2
    <3> HIDE DEF f
    <3>2. f = Ascending(E)
      BY <3>1, SortedOnce
    <3> QED
      BY <3>2 DEF f
  <2> HIDE DEF ends
  <2>4. ends # << >> /\ Len(ends) = 1 /\ ends[1] = RepeatEnd /\ DOMAIN ends = 1 .. 1
    BY <2>3
  <2>5. last = RepeatEnd
    BY <2>4 DEF Last
  <2> DEFINE a == Ascending(Part(i, initTime, RepeatEnd))
             b == Ascending(Part(i, BeginsAt, RepeatEnd))
             c == Ascending(Part(i, RepeatEnd, Total))
  <2>6. Twice(1) = a \o b
    <3>1. Section(i, initTime, RepeatEnd) = a
      BY <1>2, <2>1, SectionIs
    <3>2. Section(i, BeginsAt, RepeatEnd) = b
      BY <1>2, <2>1, SectionIs
    <3> HIDE DEF a, b
    <3> QED
      BY <2>4, <3>1, <3>2 DEF BeginsAt
  <2>7. first = <<Twice(1)>>
    <3> HIDE DEF Twice
    <3>1. \A n \in 1 .. 1 : n = 1
      OBVIOUS
    <3> QED
      BY <2>4, <3>1
  <2>8. Section(i, last, Total) = c
    BY <1>2, <2>1, <2>5, SectionIs
  <2> HIDE DEF a, b, c, Twice, first, last
  <2>9. FlattenSeq(<<a \o b>>) = a \o b
    BY FlatOne
  <2>10. AsWritten(i) = (a \o b) \o c
    BY <1>1, <2>6, <2>7, <2>8, <2>9
  <2> QED
    BY <1>4, <2>10 DEF WrittenParts, a, b, c
<1> QED
  BY <1>3, <1>4

\* A voice whose walk is through has passed all that plays from the start, or
\* from the jump, on.
LEMMA ReadyThrough ==
  ASSUME SheetInv, Present, NEW i \in Voices, streamIdx[i] = Len(sheet[i]) + 1
  PROVE  Ready(i) = Part(i, From, Total)
<1>1. /\ sheet \in Sheets /\ Len(sheet[i]) \in Nat /\ Total \in Nat
      /\ \A j \in 1 .. Len(sheet[i]) : sheet[i][j].start < Total
  BY SheetIs, TotalIs DEF SheetInv, Values
<1>2. 1 .. streamIdx[i] - 1 = 1 .. Len(sheet[i])
  BY <1>1
<1> QED
  BY <1>1, <1>2 DEF Ready, Part

\* The section again, and what comes after it, are all from its beginning on.
LEMMA PartsJoined ==
  ASSUME SheetInv, WellMade(sheet), Present, Far, NEW i \in Voices
  PROVE  Ascending(Part(i, BeginsAt, RepeatEnd)) \o Ascending(Part(i, RepeatEnd, Total))
           = Ascending(Part(i, BeginsAt, Total))
<1> DEFINE A == Part(i, BeginsAt, RepeatEnd)
           B == Part(i, RepeatEnd, Total)
<1>1. /\ sheet \in Sheets /\ BeginsAt \in Nat /\ RepeatEnd \in Nat /\ BeginsAt <= RepeatEnd
      /\ Total \in Nat /\ Len(sheet[i]) \in Nat
      /\ \A j \in 1 .. Len(sheet[i]) : /\ sheet[i][j].start \in Nat
                                       /\ sheet[i][j].start < Total
                                       /\ \A k \in 1 .. j : sheet[i][k].start <= sheet[i][j].start
  BY SectionBegins, TotalIs, SheetIs DEF SheetInv, Values
<1>2. A \in SUBSET Nat /\ IsFiniteSet(A) /\ B \in SUBSET Nat /\ IsFiniteSet(B)
  BY PartsAre
<1>3. ASSUME NEW x \in A, NEW y \in B PROVE x < y
  <2>1. /\ x \in 1 .. Len(sheet[i]) /\ sheet[i][x].start < RepeatEnd
        /\ y \in 1 .. Len(sheet[i]) /\ RepeatEnd <= sheet[i][y].start
    BY DEF Part
  <2>2. y \notin 1 .. x
    BY <1>1, <2>1
  <2> QED
    BY <2>1, <2>2
<1>4. A \cup B = Part(i, BeginsAt, Total)
  <2>1. \A j \in 1 .. Len(sheet[i]) :
          BeginsAt <= sheet[i][j].start /\ sheet[i][j].start < Total
            <=> \/ BeginsAt <= sheet[i][j].start /\ sheet[i][j].start < RepeatEnd
                \/ RepeatEnd <= sheet[i][j].start /\ sheet[i][j].start < Total
    <3> SUFFICES ASSUME NEW j \in 1 .. Len(sheet[i])
                 PROVE  BeginsAt <= sheet[i][j].start /\ sheet[i][j].start < Total
            <=> \/ BeginsAt <= sheet[i][j].start /\ sheet[i][j].start < RepeatEnd
                \/ RepeatEnd <= sheet[i][j].start /\ sheet[i][j].start < Total
      OBVIOUS
    <3> DEFINE s == sheet[i][j].start
    <3>1. s \in Nat /\ s < Total
      BY <1>1
    <3> HIDE DEF s
    <3>2. BeginsAt <= s /\ s < Total
            <=> (BeginsAt <= s /\ s < RepeatEnd) \/ (RepeatEnd <= s /\ s < Total)
      BY <1>1, <3>1
    <3> QED
      BY <3>2 DEF s
  <2> QED
    BY <2>1 DEF Part
<1> HIDE DEF A, B
<1>5. Ascending(A) \o Ascending(B) = Ascending(A \cup B)
  BY <1>2, <1>3, AscendingJoined
<1> QED
  BY <1>4, <1>5 DEF A, B

LEMMA WrittenImplies ==
  WellMade(sheet) /\ SheetInv /\ WalkInv /\ PlayInv => PlaysAsWritten
<1> SUFFICES ASSUME WellMade(sheet), SheetInv, WalkInv, PlayInv, NothingAcross,
                    thread = "finished", ~asked, NEW i \in Voices
             PROVE  performed[i] = WrittenParts(i)
  BY WrittenIs DEF PlaysAsWritten, Present
<1>1. WalkParts /\ Present /\ PlayParts
  BY DEF WalkInv, PlayInv, Present
<1>2. AllInStep /\ Performed /\ performed[i] = BeforeJump(i) \o Ascending(Ready(i))
  BY <1>1 DEF PlayParts, Performed
<1>3. \A k \in Voices : InStep(k) => streamIdx[k] = Len(sheet[k]) + 1
  BY <1>1 DEF WalkParts, EndsAlone
<1>4. sheet \in Sheets /\ initTime \in Nat /\ curTime \in Nat
  BY DEF SheetInv, Values
<1>5. CASE ~Far
  <2>1. ~repeating /\ From = initTime
    BY <1>1, <1>5 DEF WalkParts, RepeatInv, From
  <2>2. performed[i] = Ascending(Ready(i))
    BY <1>1, <1>2, <2>1, PartsAre, NoneInOrder DEF BeforeJump
  <2>3. Ready(i) = Part(i, initTime, Total)
    <3>1. CASE InStep(i)
      BY <1>1, <1>3, <2>1, <3>1, ReadyThrough
    <3>2. CASE EndedBefore(i)
      <4>1. \A j \in 1 .. Len(sheet[i]) :
              Playable(sheet[i][j]) => ~(initTime <= sheet[i][j].start)
        <5>1. \A j \in 1 .. Len(sheet[i]) :
                Playable(sheet[i][j]) => sheet[i][j].start < initTime
          BY <1>1, <1>2, <3>2, NothingReady
        <5>2. \A j \in 1 .. Len(sheet[i]) : sheet[i][j].start \in Nat
          BY <1>4, SheetIs
        <5> QED
          BY <1>4, <5>1, <5>2
      <4>2. \A j \in 1 .. streamIdx[i] - 1 : j \in 1 .. Len(sheet[i])
        BY <1>1, StreamsAre
      <4>3. Ready(i) = {}
        BY <2>1, <4>1, <4>2 DEF Ready
      <4>4. Part(i, initTime, Total) = {}
        BY <4>1 DEF Part
      <4> QED
        BY <4>3, <4>4
    <3> QED
      BY <1>2, <3>1, <3>2 DEF AllInStep
  <2> QED
    BY <1>5, <2>2, <2>3 DEF WrittenParts
<1>6. CASE Far
  <2>1. \A k \in Voices : streamIdx[k] = Len(sheet[k]) + 1
    BY <1>2, <1>3, <1>6, FarInStep
  <2>2. repeating
    <3> SUFFICES ASSUME ~repeating PROVE FALSE
      OBVIOUS
    <3>1. Meets
      BY <1>1, <1>6 DEF WalkParts, RepeatInv, NotYet
    <3>2. /\ RepeatEnd \in Nat
          /\ \A k \in Voices : CloseAt(k) \in 1 .. Len(sheet[k]) /\ Len(sheet[k]) \in Nat
      BY <1>4, <1>6, RepeatIs, SheetIs DEF Far
    <3>3. PICK m \in Voices : streamIdx[m] <= CloseAt(m)
      <4>1. curTime < RepeatEnd \/ curTime = RepeatEnd
        BY <1>4, <3>1, <3>2 DEF Meets
      <4>2. \A m \in Voices : streamIdx[m] < CloseAt(m) => streamIdx[m] <= CloseAt(m)
        BY <2>1, <3>2
      <4> QED
        BY <3>1, <4>1, <4>2 DEF Meets
    <3> QED
      BY <2>1, <3>2, <3>3
  <2>3. From = BeginsAt
    BY <2>2 DEF From
  <2> DEFINE a == Ascending(Part(i, initTime, RepeatEnd))
             b == Ascending(Part(i, BeginsAt, RepeatEnd))
             c == Ascending(Part(i, RepeatEnd, Total))
  <2>4. a \in Seq(Nat) /\ b \in Seq(Nat) /\ c \in Seq(Nat)
    BY <1>1, PartsAre
  <2>5. Ascending(Ready(i)) = b \o c
    BY <1>1, <1>6, <2>1, <2>3, ReadyThrough, PartsJoined
  <2>6. performed[i] = a \o (b \o c)
    BY <1>2, <2>2, <2>5 DEF BeforeJump
  <2> HIDE DEF a, b, c
  <2>7. a \o (b \o c) = (a \o b) \o c
    BY <2>4, ConcatAssociative, SMTT(30)
  <2> QED
    BY <1>6, <2>6, <2>7 DEF WrittenParts, a, b, c
<1> QED
  BY <1>5, <1>6

-----------------------------------------------------------------------------
(* What is written to a MIDI file.                                         *)

\* The time played is k ahead of the time of the sheet, now and at the last
\* event, which is not ahead of the time.
Level(k) ==
  elapsed = curTime + k /\ export.elapsed = export.time + k /\ export.time <= curTime

Unsent == elapsed = 0 /\ export = [time |-> 0, written |-> 0, elapsed |-> 0]

\* Before the jump: what ends the section is heard when it is over.
EndIsSent ==
  \A p \in Positions : At(p).end = RepeatEnd /\ NoteOff(p) # {} =>
    \/ export.time = RepeatEnd
    \/ p \in Range(curPlaying)
    \/ p[2] >= streamIdx[p[1]]
Once == Level(0) /\ (Far => EndIsSent)

\* Behind the jump: nothing has been sent before the first note of the section,
\* or the time of the sheet is behind by the length of the section.
BeginComes ==
  \E p \in Positions : /\ At(p).start = BeginsAt /\ At(p).kind = "note" /\ ~At(p).held
                       /\ p[2] >= streamIdx[p[1]]
JustJumped ==
  /\ curPlaying = << >> /\ curTime = BeginsAt
  /\ elapsed = RepeatEnd /\ export.time = RepeatEnd /\ export.elapsed = RepeatEnd
  /\ BeginComes
Again == JustJumped \/ Level(RepeatEnd - BeginsAt)

ExportParts ==
  /\ export.written = export.elapsed
  /\ IF streamIdx = << >> THEN Unsent ELSE IF repeating THEN Again ELSE Once

Exports == initTime = 0 /\ JumpsAreHeard
ExportInv == ~asked /\ Exports => ExportParts

LEMMA ExportImplies == ExportInv => ExportKeepsTime
BY DEF ExportInv, Exports, ExportParts, ExportKeepsTime

\* Nothing lasts across the beginning of the sheet.
LEMMA NothingBeforeZero ==
  ASSUME SheetInv, initTime = 0
  PROVE  NothingAcross
<1>1. \A p \in Positions : At(p).start \in Nat
  BY PositionsAre, SheetIs DEF SheetInv, Values, At
<1> QED
  BY <1>1 DEF NothingAcross

\* What a state says of the sheet only.
LEMMA SameExport ==
  ASSUME sheet' = sheet, initTime' = initTime
  PROVE  /\ Exports' <=> Exports
         /\ \A p : NoteOff(p)' = NoteOff(p)
         /\ Positions' = Positions /\ (\A p : At(p)' = At(p))
         /\ RepeatEnd' = RepeatEnd /\ BeginsAt' = BeginsAt /\ (Far' <=> Far)
<1>1. /\ Positions' = Positions /\ (\A p : At(p)' = At(p)) /\ EndTimes' = EndTimes
      /\ RepeatEnd' = RepeatEnd /\ BeginsAt' = BeginsAt /\ (Far' <=> Far)
  BY SameSheet, SameRepeat, SameParts
<1>2. \A p : NoteOff(p)' = NoteOff(p)
  BY <1>1 DEF NoteOff
<1>3. \A t : BeginTime(t)' = BeginTime(t)
  BY <1>1 DEF BeginTime
<1>4. JumpsAreHeard' <=> JumpsAreHeard
  BY <1>1, <1>2, <1>3 DEF JumpsAreHeard
<1> QED
  BY <1>1, <1>2, <1>4 DEF Exports

\* Steps that send nothing and move nothing.
LEMMA ExportStays ==
  ASSUME ExportParts,
         UNCHANGED <<sheet, initTime, curTime, streamIdx, repeating, curPlaying, elapsed, export>>
  PROVE  ExportParts'
<1>1. /\ \A p : NoteOff(p)' = NoteOff(p)
      /\ Positions' = Positions /\ (\A p : At(p)' = At(p))
      /\ RepeatEnd' = RepeatEnd /\ BeginsAt' = BeginsAt /\ (Far' <=> Far)
  BY SameExport
<1>2. Level(0) => Level(0)'
  BY DEF Level
<1>3. EndIsSent => EndIsSent'
  BY <1>1 DEF EndIsSent
<1>4. Once => Once'
  BY <1>1, <1>2, <1>3 DEF Once
<1>5. JustJumped => JustJumped'
  BY <1>1 DEF JustJumped, BeginComes
<1>6. Level(RepeatEnd - BeginsAt) => Level(RepeatEnd - BeginsAt)'
  BY <1>1 DEF Level
<1>7. Again => Again'
  BY <1>5, <1>6 DEF Again
<1>8. Unsent => Unsent'
  BY DEF Unsent
<1> QED
  BY <1>4, <1>7, <1>8 DEF ExportParts

\* An event keeps the level.
LEMMA SentOnTime ==
  ASSUME SheetInv, export.written = export.elapsed, NEW k \in Int, Level(k)
  PROVE  /\ Sent(curTime).time = curTime
         /\ Sent(curTime).elapsed = elapsed
         /\ Sent(curTime).written = elapsed
<1>1. /\ curTime \in Nat /\ elapsed \in Nat /\ export.time \in Nat
      /\ export.written \in Nat /\ export.elapsed \in Nat
  BY DEF SheetInv, Values
<1>2. TimeIncrement(curTime, export.time) = curTime - export.time
  BY <1>1 DEF TimeIncrement, Level
<1>3. export.written + (curTime - export.time) = elapsed
  BY <1>1 DEF Level
<1> QED
  BY <1>2, <1>3 DEF Sent

LEMMA NotEmpty == ASSUME NEW f, NEW i \in DOMAIN f PROVE f # << >>
OBVIOUS

\* An event, or none, keeps the level.
LEMMA LevelKept ==
  ASSUME SheetInv, export.written = export.elapsed, NEW k \in Int, Level(k),
         export' = export \/ export' = Sent(curTime),
         curTime' \in Nat, elapsed' \in Nat, curTime' >= curTime,
         elapsed' - elapsed = curTime' - curTime
  PROVE  /\ export'.written = export'.elapsed /\ elapsed' = curTime' + k
         /\ export'.elapsed = export'.time + k /\ export'.time <= curTime'
<1>1. /\ curTime \in Nat /\ elapsed \in Nat /\ export.time \in Nat
      /\ export.written \in Nat /\ export.elapsed \in Nat
  BY DEF SheetInv, Values
<1>2. /\ Sent(curTime).time = curTime /\ Sent(curTime).elapsed = elapsed
      /\ Sent(curTime).written = elapsed
  BY SentOnTime
<1>3. elapsed = curTime + k /\ export.elapsed = export.time + k /\ export.time <= curTime
  BY DEF Level
<1>4. elapsed' = curTime' + k
  <2> DEFINE c == curTime'
             e == elapsed'
  <2>1. c \in Nat /\ e \in Nat /\ e - elapsed = c - curTime
    OBVIOUS
  <2> HIDE DEF c, e
  <2>2. e = c + k
    BY <1>1, <1>3, <2>1
  <2> QED
    BY <2>2 DEF c, e
<1>5. CASE export' = export
  BY <1>1, <1>3, <1>4, <1>5
<1>6. CASE export' = Sent(curTime)
  BY <1>1, <1>2, <1>3, <1>4, <1>6
<1> QED
  BY <1>5, <1>6

\* By how much the time of the sheet is behind after the jump.
LEMMA BehindIs ==
  ASSUME SheetInv, WellMade(sheet), WalkParts, Present, repeating
  PROVE  /\ Far /\ BeginsAt \in Nat /\ RepeatEnd \in Nat /\ BeginsAt <= RepeatEnd
         /\ RepeatEnd - BeginsAt \in Int
<1>1. Far /\ sheet \in Sheets
  BY DEF WalkParts, RepeatInv, SheetInv, Values
<1>2. BeginsAt \in Nat /\ RepeatEnd \in Nat /\ BeginsAt <= RepeatEnd
  BY <1>1, SectionBegins
<1> QED
  BY <1>1, <1>2

\* The last notes of the section are turned off when it ends, not before.
LEMMA ExportTurnOff ==
  ASSUME SheetInv, WellMade(sheet), WalkParts, ExportParts, TurnOff
  PROVE  ExportParts'
<1> DEFINE q == curPlaying[next]
<1>1. /\ UNCHANGED <<sheet, initTime, curTime, streamIdx, repeating, elapsed>>
      /\ thread = "off" /\ next \in 1 .. Len(curPlaying) /\ Over(q)
      /\ curPlaying' = RemoveAt(curPlaying, next)
      /\ export' = IF NoteOff(q) # {} THEN Sent(curTime) ELSE export
  BY DEF TurnOff, windowVars, SheetInv, Values, ListsOK
<1>2. Present /\ curPlaying # << >> /\ ~stop
  BY <1>1 DEF Present, WalkParts, EndsAlone
<1>3. curPlaying \in Seq(Positions) /\ curTime \in Nat /\ sheet \in Sheets
  BY DEF SheetInv, Values, ListsOK
<1>4. /\ At(q).end <= curTime
      /\ \A x \in Range(curPlaying) : x # q => x \in Range(curPlaying')
  BY <1>1, <1>2, <1>3, LeftOver DEF Over
<1>5. streamIdx # << >>
  <2>1. q \in Positions
    BY <1>1, <1>3
  <2>2. q[1] \in Voices /\ streamIdx \in [Voices -> Nat \ {0}]
    BY <1>2, <1>3, <2>1, PositionsAre, StreamsAre DEF Streams
  <2> QED
    BY <2>2, NotEmpty
<1>6. /\ \A p : NoteOff(p)' = NoteOff(p)
      /\ Positions' = Positions /\ (\A p : At(p)' = At(p))
      /\ RepeatEnd' = RepeatEnd /\ BeginsAt' = BeginsAt /\ (Far' <=> Far)
  BY <1>1, SameExport
<1>7. ASSUME NEW k \in Int, Level(k)
      PROVE  export'.written = export'.elapsed /\ Level(k)'
  <2>1. curTime' \in Nat /\ elapsed' \in Nat /\ curTime' >= curTime
        /\ elapsed' - elapsed = curTime' - curTime
    BY <1>1 DEF SheetInv, Values
  <2>2. export.written = export.elapsed
    BY DEF ExportParts
  <2>3. export' = export \/ export' = Sent(curTime)
    BY <1>1
  <2> QED
    BY <1>7, <2>1, <2>2, <2>3, LevelKept DEF Level
<1>8. CASE repeating
  <2>1. Level(RepeatEnd - BeginsAt)
    BY <1>2, <1>5, <1>8 DEF ExportParts, Again, JustJumped
  <2>2. RepeatEnd - BeginsAt \in Int
    BY <1>2, <1>8, BehindIs
  <2>3. export'.written = export'.elapsed /\ Level(RepeatEnd - BeginsAt)'
    BY <1>6, <1>7, <2>1, <2>2 DEF Level
  <2> QED
    BY <1>1, <1>5, <1>8, <2>3 DEF ExportParts, Again
<1>9. CASE ~repeating
  <2>1. Level(0) /\ (Far => EndIsSent)
    BY <1>5, <1>9 DEF ExportParts, Once
  <2>2. export'.written = export'.elapsed /\ Level(0)'
    BY <1>7, <2>1
  <2>3. ASSUME Far, NEW p \in Positions, At(p).end = RepeatEnd, NoteOff(p) # {}
        PROVE  \/ export'.time = RepeatEnd
               \/ p \in Range(curPlaying')
               \/ p[2] >= streamIdx[p[1]]
    <3>1. curTime <= RepeatEnd
      BY <1>2, <1>9, <2>3 DEF WalkParts, RepeatInv, NotYet, Meets
    <3>2. RepeatEnd \in Nat /\ export.time \in Nat /\ export.time <= curTime
      BY <1>3, <2>1, <2>3, RepeatIs DEF Far, Level, SheetInv, Values
    <3>3. Sent(curTime).time = curTime
      BY DEF Sent
    <3>4. CASE export.time = RepeatEnd
      <4>1. curTime = RepeatEnd
        BY <1>3, <3>1, <3>2, <3>4
      <4> QED
        BY <1>1, <3>3, <3>4, <4>1
    <3>5. CASE p \in Range(curPlaying)
      <4>1. CASE p = q
        <5>1. curTime = RepeatEnd
          BY <1>3, <1>4, <2>3, <3>1, <3>2, <4>1
        <5> QED
          BY <1>1, <2>3, <3>3, <4>1, <5>1
      <4> QED
        BY <1>4, <3>5, <4>1
    <3> QED
      BY <2>1, <2>3, <3>4, <3>5 DEF EndIsSent
  <2>4. Far => EndIsSent'
    BY <1>1, <1>6, <2>3 DEF EndIsSent
  <2> QED
    BY <1>1, <1>5, <1>6, <1>9, <2>2, <2>4 DEF ExportParts, Once
<1> QED
  BY <1>8, <1>9

\* The walk passes no note that is to be heard.
LEMMA ExportSeekOn ==
  ASSUME SheetInv, WellMade(sheet), WalkParts, PlayParts, ExportParts, SeekOn
  PROVE  ExportParts'
<1>1. /\ UNCHANGED <<sheet, initTime, curTime, repeating, curPlaying, elapsed, export>>
      /\ thread = "seek" /\ next \in Voices
      /\ streamIdx' = [streamIdx EXCEPT ![next] =
                         SeekFrom(next, streamIdx[next], Passed(next, streamIdx[next], curTime))]
  BY DEF SeekOn, windowVars
<1>2. Present /\ sheet \in Sheets
  BY <1>1 DEF Present, SheetInv, Values
<1>3. streamIdx # << >> /\ streamIdx' # << >>
  <2>1. next \in DOMAIN streamIdx
    BY <1>1, <1>2, StreamsAre DEF Streams
  <2> QED
    BY <1>1, <2>1, NotEmpty
<1>4. /\ \A p : NoteOff(p)' = NoteOff(p)
      /\ Positions' = Positions /\ (\A p : At(p)' = At(p))
      /\ RepeatEnd' = RepeatEnd /\ BeginsAt' = BeginsAt /\ (Far' <=> Far)
  BY <1>1, SameExport
<1>5. ASSUME Far, NEW p \in Positions, At(p).kind = "note", p[2] >= streamIdx[p[1]]
      PROVE  p[2] >= streamIdx'[p[1]]
  <2> DEFINE i == p[1]
  <2>1. i \in Voices /\ p[2] \in 1 .. Len(sheet[i])
    BY <1>2, PositionsAre
  <2>2. InStep(i) /\ NoGaps(sheet[i])
    BY <1>2, <1>5, <2>1, FarInStep DEF PlayParts, WellMade, Voices
  <2>3. WalksQuietly(i, streamIdx[i], streamIdx'[i])
    BY <2>1, <2>2, InStepSeekOn
  <2>4. streamIdx[i] \in Nat /\ Len(sheet[i]) \in Nat
    BY <1>2, <2>1, StreamsAre
  <2>5. Playable(sheet[i][p[2]])
    BY <1>5 DEF At, Playable
  <2> HIDE DEF i
  <2>6. streamIdx'[i] \in Nat /\ \A j \in streamIdx[i] .. streamIdx'[i] - 1 : ~Playable(sheet[i][j])
    BY <2>3, <2>4 DEF WalksQuietly
  <2>7. p[2] >= streamIdx'[i]
    BY <1>5, <2>1, <2>4, <2>5, <2>6 DEF i
  <2> QED
    BY <2>7 DEF i
<1>6. Level(0) => Level(0)'
  BY <1>1 DEF Level
<1>7. EndIsSent /\ Far => EndIsSent'
  <2>1. \A p : NoteOff(p) # {} => At(p).kind = "note"
    BY DEF NoteOff
  <2> QED
    BY <1>1, <1>4, <1>5, <2>1 DEF EndIsSent
<1>8. Once => Once'
  BY <1>4, <1>6, <1>7 DEF Once
<1>9. Level(RepeatEnd - BeginsAt) => Level(RepeatEnd - BeginsAt)'
  BY <1>1, <1>4 DEF Level
<1>10. JustJumped /\ Far => JustJumped'
  BY <1>1, <1>4, <1>5 DEF JustJumped, BeginComes
<1>11. repeating => Far
  BY <1>2 DEF WalkParts, RepeatInv
<1> QED
  BY <1>1, <1>3, <1>8, <1>9, <1>10, <1>11 DEF ExportParts, Again

\* The end of the section has been sent when the time is set back, and nothing
\* plays then.
LEMMA ExportSeekBack ==
  ASSUME SheetInv, WellMade(sheet), WalkParts, PlayParts, ExportParts, JumpsAreHeard, SeekBack
  PROVE  ExportParts'
<1>1. /\ JumpsFrom(next) /\ JumpsRight(next) /\ curTime' = BeginsAt
      /\ \A k \in Voices : InStep(k) => BeginsAgain(k)
  BY BackIs, JumpsRightIs, BeginsAgainIs DEF BeginsAt
<1>2. /\ UNCHANGED <<sheet, initTime, curPlaying, elapsed, export>>
      /\ Far /\ ~repeating /\ repeating' /\ curTime = RepeatEnd /\ next \in Voices
      /\ \A k \in Voices : PlayingOf(k) = {}
      /\ thread = "seek"
  BY <1>1 DEF JumpsFrom, JumpsRight, SeekBack
<1>3. Present /\ sheet \in Sheets /\ EndTimes = {RepeatEnd} /\ RepeatEnd \in Nat
  BY <1>2, RepeatIs DEF Present, SheetInv, Values, Far
<1>4. streamIdx # << >> /\ streamIdx' # << >>
  <2>1. next \in DOMAIN streamIdx /\ next \in DOMAIN streamIdx'
    BY <1>1, <1>2, <1>3, StreamsAre DEF Streams, JumpsFrom
  <2> QED
    BY <2>1, NotEmpty
<1>5. /\ Positions' = Positions /\ (\A p : At(p)' = At(p))
      /\ RepeatEnd' = RepeatEnd /\ BeginsAt' = BeginsAt
  BY <1>2, SameExport
<1>6. \A i \in Voices : InStep(i) /\ NoGaps(sheet[i])
  BY <1>2, <1>3, FarInStep DEF PlayParts, WellMade, Voices
<1>7. Level(0) /\ EndIsSent
  BY <1>2, <1>4 DEF ExportParts, Once
<1>8. curPlaying = << >>
  <2>1. curPlaying \in Seq(Positions) /\ Range(curPlaying) \subseteq Positions
    BY ListsAre
  <2>2. Range(curPlaying) = {}
    BY <1>2, <1>3, <2>1, PositionsAre DEF PlayingOf
  <2> QED
    BY <2>1, <2>2 DEF Range
<1>9. export.time = RepeatEnd
  <2>1. PICK p \in Positions : At(p).end = RepeatEnd /\ NoteOff(p) # {}
    BY <1>3 DEF JumpsAreHeard
  <2> DEFINE i == p[1]
             j == p[2]
  <2>2. i \in Voices /\ j \in 1 .. Len(sheet[i]) /\ Playable(sheet[i][j])
    BY <1>3, <2>1, PositionsAre DEF NoteOff, At, Playable
  <2>3. /\ DOMAIN sheet[i] = 1 .. Len(sheet[i]) /\ sheet[i][j].start \in Nat
        /\ Len(sheet[i]) \in Nat
    BY <1>3, <2>2, SheetIs
  <2>4. sheet[i][j].start < RepeatEnd
    BY <1>6, <2>1, <2>2, <2>3 DEF NoGaps, At
  <2>5. streamIdx[i] \in Nat
    BY <1>3, <2>2, StreamsAre
  <2>6. \A k \in streamIdx[i] .. Len(sheet[i]) : sheet[i][k].start >= RepeatEnd
    BY <1>2, <1>6, <2>2 DEF InStep
  <2>7. ~(j >= streamIdx[i])
    BY <1>3, <2>2, <2>3, <2>4, <2>5, <2>6
  <2>8. p \notin Range(curPlaying)
    BY <1>8 DEF Range
  <2> QED
    BY <1>7, <2>1, <2>7, <2>8 DEF EndIsSent
<1>10. elapsed = RepeatEnd /\ export.elapsed = RepeatEnd
  BY <1>2, <1>3, <1>7, <1>9 DEF Level
<1>11. BeginComes'
  <2>1. PICK q \in Positions : /\ At(q).start = BeginsAt
                               /\ At(q).kind = "note" /\ ~At(q).held
    BY <1>3 DEF JumpsAreHeard, BeginsAt
  <2> DEFINE i == q[1]
             j == q[2]
  <2>2. i \in Voices /\ j \in 1 .. Len(sheet[i]) /\ Playable(sheet[i][j])
    BY <1>3, <2>1, PositionsAre DEF At, Playable
  <2>3. sheet[i][j].start \in Nat /\ sheet[i][j].start = BeginsAt
    BY <1>3, <2>1, <2>2, SheetIs DEF At
  <2>4. BeginsAgain(i)
    BY <1>1, <1>6, <2>2
  <2>5. /\ streamIdx'[i] \in Nat
        /\ \A k \in 1 .. streamIdx'[i] - 1 : sheet[i][k].start >= BeginsAt => ~Playable(sheet[i][k])
    BY <1>1, <2>4 DEF BeginsAgain
  <2> HIDE DEF i, j
  <2>6. j >= streamIdx'[i]
    <3>1. j \in Nat \ {0}
      BY <2>2
    <3>2. sheet[i][j].start >= BeginsAt
      BY <2>3
    <3> QED
      BY <2>2, <2>5, <3>1, <3>2
  <2> QED
    BY <1>5, <2>1, <2>6 DEF BeginComes, i, j
<1>12. JustJumped'
  BY <1>1, <1>2, <1>5, <1>8, <1>9, <1>10, <1>11 DEF JustJumped
<1> QED
  BY <1>2, <1>4, <1>12 DEF ExportParts, Again

\* A playback from the beginning of the sheet has not sent anything.
LEMMA ExportBegin ==
  ASSUME SheetInv, WellMade(sheet), ExportParts, initTime = 0, Begin
  PROVE  ExportParts'
<1> USE DEF windowVars, threadVars
<1>1. UNCHANGED <<sheet, initTime, elapsed, export>>
  BY DEF Begin, InitStreams
<1>2. CASE streamIdx # << >>
  BY <1>2, ExportStays DEF Begin
<1>3. CASE streamIdx = << >>
  <2>1. /\ curTime' = 0 /\ ~repeating' /\ Unsent
        /\ streamIdx' = [i \in Voices |-> SeekFrom(i, 1, Passed(i, 1, initTime))]
    BY <1>3 DEF Begin, InitStreams, ExportParts
  <2>2. Unsent' /\ export'.written = export'.elapsed
    BY <1>1, <2>1 DEF Unsent
  <2>3. Level(0)'
    BY <2>1, <2>2 DEF Level, Unsent
  <2>4. /\ \A p : NoteOff(p)' = NoteOff(p)
        /\ Positions' = Positions /\ (\A p : At(p)' = At(p))
        /\ RepeatEnd' = RepeatEnd
    BY <1>1, SameExport
  <2>5. ASSUME NEW p \in Positions, NoteOff(p) # {}
        PROVE  p[2] >= streamIdx'[p[1]]
    <3> DEFINE i == p[1]
               j == p[2]
    <3>1. /\ sheet \in Sheets /\ i \in Voices /\ j \in 1 .. Len(sheet[i])
          /\ Playable(sheet[i][j])
      BY <2>5, PositionsAre DEF SheetInv, Values, NoteOff, At, Playable
    <3>2. sheet[i][j].start \in Nat
      BY <3>1, SheetIs
    <3>3. BeginsRight(i, streamIdx'[i])
      BY <2>1, <3>1, BeginsRightIs, NothingBeforeZero DEF WellMade, Voices
    <3>4. streamIdx'[i] \in Nat /\ \A k \in 1 .. streamIdx'[i] - 1 :
             Playable(sheet[i][k]) => ~(0 <= sheet[i][k].start)
      BY <3>3 DEF BeginsRight, QuietFrom
    <3> HIDE DEF i, j
    <3>5. j >= streamIdx'[i]
      <4>1. j \in Nat \ {0} /\ 0 <= sheet[i][j].start
        BY <3>1, <3>2
      <4> QED
        BY <3>1, <3>4, <4>1
    <3> QED
      BY <3>5 DEF i, j
  <2>6. EndIsSent'
    BY <2>4, <2>5 DEF EndIsSent
  <2> QED
    BY <2>1, <2>2, <2>3, <2>6 DEF ExportParts, Once
<1> QED
  BY <1>2, <1>3

\* What is heard when the elements that start now are turned on.
StartedHeard == {p \in Started : At(p).kind = "note" /\ ~At(p).held}

\* The time of the sheet and the time played go on together.
LEMMA TimeGoesOn ==
  ASSUME SheetInv, TurnOn
  PROVE  /\ curTime' \in Nat /\ elapsed' \in Nat /\ curTime' >= curTime
         /\ elapsed' - elapsed = curTime' - curTime
<1>1. curTime \in Nat /\ elapsed \in Nat
  BY DEF SheetInv, Values
<1>2. TurnsOn
  BY TurnsOnIs
<1>3. CASE curTime' = curTime /\ elapsed' = elapsed
  BY <1>1, <1>3
<1> QED
  BY <1>2, <1>3 DEF TurnsOn

\* What starts is sent at its time, and then the time goes on by what is played.
LEMMA TurnOnSends ==
  ASSUME SheetInv, TurnOn, export.written = export.elapsed, NEW k \in Int, Level(k)
  PROVE  export'.written = export'.elapsed /\ Level(k)'
<1>1. /\ curTime' \in Nat /\ elapsed' \in Nat /\ curTime' >= curTime
      /\ elapsed' - elapsed = curTime' - curTime
  BY TimeGoesOn
<1>2. export' = export \/ export' = Sent(curTime)
  BY DEF TurnOn
<1> QED
  BY <1>1, <1>2, LevelKept DEF Level

\* The first note after the jump is sent before the end of the section, which is
\* no time of its own, and the time played is ahead from then on.
LEMMA SentAgain ==
  ASSUME SheetInv, WellMade(sheet), WalkParts, PlayParts, TurnOn, repeating,
         export.written = export.elapsed, JustJumped
  PROVE  export'.written = export'.elapsed /\ Level(RepeatEnd - BeginsAt)'
<1>1. /\ UNCHANGED <<sheet, initTime>> /\ thread = "on"
      /\ export' = IF StartedHeard # {} THEN Sent(curTime) ELSE export
  BY DEF TurnOn, Started, StartedHeard, windowVars
<1>2. Present /\ sheet \in Sheets /\ curTime \in Nat /\ Streams
  BY <1>1, StreamsAre DEF Present, SheetInv, Values
<1>3. Far /\ BeginsAt \in Nat /\ RepeatEnd \in Nat /\ BeginsAt <= RepeatEnd
  BY <1>2, BehindIs
<1>4. /\ curTime = BeginsAt /\ elapsed = RepeatEnd
      /\ export.time = RepeatEnd /\ export.elapsed = RepeatEnd
  BY DEF JustJumped
<1>5. PICK q \in Positions : /\ At(q).start = BeginsAt /\ At(q).kind = "note" /\ ~At(q).held
                             /\ q[2] >= streamIdx[q[1]]
  BY DEF JustJumped, BeginComes
<1>6. q \in StartedHeard
  <2> DEFINE i == q[1]
             j == q[2]
  <2>1. i \in Voices /\ j \in 1 .. Len(sheet[i])
    BY <1>2, PositionsAre
  <2>2. InStep(i)
    BY <1>2, <1>3, <2>1, FarInStep DEF PlayParts
  <2>3. /\ Len(sheet[i]) \in Nat /\ DOMAIN sheet[i] = 1 .. Len(sheet[i])
        /\ TimesInOrder(sheet[i]) /\ streamIdx[i] \in Nat \ {0}
        /\ \A k \in 1 .. Len(sheet[i]) : sheet[i][k].start \in Nat
    BY <1>2, <2>1, SheetIs, StreamsAre
  <2>4. sheet[i][j].start = BeginsAt
    BY <1>5 DEF At
  <2>5. \A k \in streamIdx[i] .. j : sheet[i][k].start = curTime
    <3> SUFFICES ASSUME NEW k \in streamIdx[i] .. j PROVE sheet[i][k].start = curTime
      OBVIOUS
    <3>1. k \in 1 .. Len(sheet[i]) /\ k \in streamIdx[i] .. Len(sheet[i]) /\ (k < j \/ k = j)
      BY <2>1, <2>3
    <3>2. sheet[i][k].start <= sheet[i][j].start
      BY <2>1, <2>3, <3>1 DEF TimesInOrder
    <3>3. sheet[i][k].start >= curTime
      BY <2>2, <3>1 DEF InStep
    <3> QED
      BY <1>3, <1>4, <2>3, <2>4, <3>1, <3>2, <3>3
  <2>6. j \in streamIdx[i] .. Len(sheet[i])
    BY <1>5, <2>1, <2>3
  <2>7. j \in Starting(i)
    BY <2>5, <2>6 DEF Starting
  <2> QED
    BY <1>2, <1>5, <2>7, StartedIs DEF StartedHeard
<1>7. TimeIncrement(curTime, export.time) = 0
  BY <1>3, <1>4 DEF TimeIncrement
<1>8. export'.time = BeginsAt /\ export'.written = RepeatEnd /\ export'.elapsed = RepeatEnd
  BY <1>1, <1>3, <1>4, <1>6, <1>7 DEF Sent
<1>9. /\ curTime' \in Nat /\ elapsed' \in Nat /\ curTime' >= curTime
      /\ elapsed' - elapsed = curTime' - curTime
  BY TimeGoesOn
<1>10. RepeatEnd' = RepeatEnd /\ BeginsAt' = BeginsAt
  BY <1>1, SameExport
<1> DEFINE c == curTime'
           e == elapsed'
<1>11. c \in Nat /\ e \in Nat /\ c >= BeginsAt /\ e - RepeatEnd = c - BeginsAt
  BY <1>4, <1>9
<1> HIDE DEF c, e
<1>12. e = c + (RepeatEnd - BeginsAt) /\ RepeatEnd = BeginsAt + (RepeatEnd - BeginsAt)
       /\ BeginsAt <= c
  BY <1>3, <1>11
<1> QED
  BY <1>8, <1>10, <1>12 DEF Level, c, e

LEMMA ExportTurnOn ==
  ASSUME SheetInv, WellMade(sheet), WalkParts, PlayParts, ExportParts, TurnOn
  PROVE  ExportParts'
<1>1. /\ UNCHANGED <<sheet, initTime, repeating>> /\ thread = "on"
      /\ export' = IF StartedHeard # {} THEN Sent(curTime) ELSE export
      /\ streamIdx' = [i \in Voices |-> streamIdx[i] + Cardinality(Starting(i))]
  BY DEF TurnOn, Started, StartedHeard, windowVars
<1>2. Present /\ sheet \in Sheets /\ curTime \in Nat /\ Streams
  BY <1>1, StreamsAre DEF Present, SheetInv, Values
<1>3. TurnsOn
  BY TurnsOnIs
<1>4. DOMAIN streamIdx = Voices /\ DOMAIN streamIdx' = Voices
  BY <1>1, <1>2 DEF Streams
<1>5. streamIdx # << >> => Voices # {}
  <2> SUFFICES ASSUME Voices = {} PROVE streamIdx = << >>
    OBVIOUS
  <2>1. streamIdx = [i \in Voices |-> streamIdx[i]]
    BY <1>2 DEF Streams
  <2> QED
    BY <2>1
<1>6. CASE streamIdx = << >>
  <2>1. Voices = {}
    BY <1>4, <1>6
  <2>2. Started = {} /\ Range(curPlaying) = {}
    BY <1>2, <2>1, ListsAre, PositionsAre DEF Started
  <2>3. elapsed' = elapsed /\ export' = export
    BY <1>1, <1>3, <2>2 DEF TurnsOn, StartedHeard
  <2>4. streamIdx' = << >>
    BY <1>1, <2>1
  <2> QED
    BY <1>6, <2>3, <2>4 DEF ExportParts, Unsent
<1>7. CASE streamIdx # << >> /\ repeating
  <2>1. streamIdx' # << >>
    BY <1>4, <1>7, <1>5, NotEmpty
  <2>2. RepeatEnd - BeginsAt \in Int /\ RepeatEnd' = RepeatEnd /\ BeginsAt' = BeginsAt
    BY <1>1, <1>2, <1>7, BehindIs, SameExport
  <2>3. export.written = export.elapsed /\ Again
    BY <1>7 DEF ExportParts
  <2>4. CASE JustJumped
    BY <1>1, <1>7, <2>1, <2>3, <2>4, SentAgain DEF ExportParts, Again
  <2>5. CASE Level(RepeatEnd - BeginsAt)
    <3> DEFINE k == RepeatEnd - BeginsAt
    <3>1. export'.written = export'.elapsed /\ Level(k)'
      <4>1. k \in Int /\ Level(k)
        BY <2>2, <2>5
      <4>2. k' = k
        BY <2>2
      <4> HIDE DEF k
      <4>3. export'.written = export'.elapsed /\ elapsed' = curTime' + k
            /\ export'.elapsed = export'.time + k /\ export'.time <= curTime'
        BY <2>3, <4>1, TurnOnSends DEF Level
      <4> QED
        BY <4>2, <4>3 DEF Level
    <3> QED
      BY <1>1, <1>7, <2>1, <3>1 DEF ExportParts, Again
  <2> QED
    BY <2>3, <2>4, <2>5 DEF Again
<1>8. CASE streamIdx # << >> /\ ~repeating
  <2>1. streamIdx' # << >>
    BY <1>4, <1>8, <1>5, NotEmpty
  <2>2. export.written = export.elapsed /\ Level(0) /\ (Far => EndIsSent)
    BY <1>8 DEF ExportParts, Once
  <2>3. export'.written = export'.elapsed /\ Level(0)'
    BY <2>2, TurnOnSends
  <2>4. /\ \A p : NoteOff(p)' = NoteOff(p)
        /\ Positions' = Positions /\ (\A p : At(p)' = At(p))
        /\ RepeatEnd' = RepeatEnd /\ (Far' <=> Far)
    BY <1>1, SameExport
  <2>5. ASSUME Far, NEW p \in Positions, At(p).end = RepeatEnd, NoteOff(p) # {}
        PROVE  p \in Range(curPlaying') \/ p[2] >= streamIdx'[p[1]]
    <3>1. curTime < RepeatEnd
      <4>1. Meets /\ RepeatEnd \in Nat
        BY <1>2, <1>8, <2>5, RepeatIs DEF WalkParts, RepeatInv, NotYet, Far
      <4> QED
        BY <1>1, <1>2, <4>1 DEF Meets
    <3>2. export.time # RepeatEnd
      BY <1>2, <2>2, <2>5, <3>1, RepeatIs DEF Level, SheetInv, Values, Far
    <3>3. p \in Range(curPlaying) \/ p[2] >= streamIdx[p[1]]
      BY <2>2, <2>5, <3>2 DEF EndIsSent
    <3>4. CASE p \in Range(curPlaying)
      BY <1>3, <3>4 DEF TurnsOn
    <3>5. CASE p[2] >= streamIdx[p[1]]
      <4> DEFINE i == p[1]
                 j == p[2]
                 c == Cardinality(Starting(i))
      <4>1. i \in Voices /\ j \in 1 .. Len(sheet[i])
        BY <1>2, PositionsAre
      <4>2. c \in Nat /\ Starting(i) = streamIdx[i] .. streamIdx[i] + c - 1
            /\ streamIdx[i] \in Nat
        BY <1>2, <4>1, StartingIs DEF Streams
      <4>3. streamIdx'[i] = streamIdx[i] + c
        BY <1>1, <4>1
      <4>4. j \in Starting(i) => p \in Range(curPlaying')
        BY <1>2, <1>3, <2>5, StartedIs DEF TurnsOn, StartedNotes, NoteOff, Playable
      <4>5. j \in Starting(i) \/ j >= streamIdx[i] + c
        <5> HIDE DEF c, i, j
        <5> QED
          BY <3>5, <4>1, <4>2 DEF i, j
      <4> QED
        BY <4>3, <4>4, <4>5
    <3> QED
      BY <3>3, <3>4, <3>5
  <2>6. Far => EndIsSent'
    BY <2>4, <2>5 DEF EndIsSent
  <2> QED
    BY <1>1, <1>8, <2>1, <2>3, <2>4, <2>6 DEF ExportParts, Once
<1> QED
  BY <1>6, <1>7, <1>8

\* Every step of an export that nobody stopped keeps its times.
LEMMA ExportStep ==
  WellMade(sheet) /\ SheetInv /\ WalkInv /\ PlayInv /\ ExportInv /\ Next => ExportInv'
<1> SUFFICES ASSUME WellMade(sheet), SheetInv, WalkInv, PlayInv, ExportInv, Next,
                    ~asked', Exports'
             PROVE  ExportParts'
  BY DEF ExportInv
<1>1. CASE Thread
  <2>1. ~asked /\ UNCHANGED <<sheet, initTime>>
    BY <1>1, SMTT(30) DEF Thread, Begin, Test, TurnOff, LeaveOn, AllLookedAt, SeekOn, SeekBack,
                          SoughtAll, Check, TurnOn, windowVars
  <2>2. Exports
    BY <2>1, SameExport
  <2>3. initTime = 0 /\ JumpsAreHeard /\ WalkParts /\ ExportParts
    BY <2>1, <2>2 DEF Exports, WalkInv, ExportInv
  <2>4. PlayParts
    BY <2>1, <2>3, NothingBeforeZero DEF PlayInv
  <2>5. CASE Test \/ LeaveOn \/ AllLookedAt \/ SoughtAll \/ Check
    <3>1. UNCHANGED <<sheet, initTime, curTime, streamIdx, repeating, curPlaying, elapsed, export>>
      BY <2>5 DEF Test, LeaveOn, AllLookedAt, SoughtAll, Check, threadVars, windowVars
    <3> QED
      BY <2>3, <3>1, ExportStays
  <2> QED
    BY <1>1, <2>3, <2>4, <2>5, ExportBegin, ExportTurnOff, ExportSeekOn, ExportSeekBack, ExportTurnOn
       DEF Thread
<1>2. CASE (\E t \in InitTimes : Play(t)) \/ PlaybackFinished
  BY <1>2 DEF Play, PlaybackFinished, InitPlayback, ExportParts, Unsent
<1>3. CASE InsertNote \/ CloseDocument \/ \E p \in Positions : DeleteElement(p)
  <2>1. /\ UNCHANGED <<sheet, initTime, curTime, streamIdx, repeating, curPlaying, elapsed, export>>
        /\ asked' = asked
    BY <1>3 DEF InsertNote, CloseDocument, DeleteElement, threadVars, windowVars
  <2>2. ExportParts
    BY <2>1, SameExport DEF ExportInv
  <2> QED
    BY <2>1, <2>2, ExportStays
<1>4. CASE Stop \/ StopNow \/ FinishedLate
  BY <1>4 DEF Stop, StopNow, FinishedLate
<1> QED
  BY <1>1, <1>2, <1>3, <1>4 DEF Next, Window

=============================================================================
