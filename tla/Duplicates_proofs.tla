-------------------------- MODULE Duplicates_proofs --------------------------
(***************************************************************************)
(* Proofs about the detections of Jobs for any points, similarities, size  *)
(* of batches, order of labels and verdicts.                               *)
(*                                                                         *)
(* Picking places of a list keeps its order, flattening lists keeps their  *)
(* elements, and a list that was cut into batches and classified is the    *)
(* list of the verdicts of its elements.                                   *)
(***************************************************************************)
EXTENDS Jobs_proofs

-----------------------------------------------------------------------------
(* Some places of a list.                                                  *)

\* A list t is made of the elements of s at these places, in their order.
Picks(t, s, places) ==
  \E n \in Nat : \E at \in [1 .. n -> places] :
    /\ t = [k \in 1 .. n |-> s[at[k]]]
    /\ \A i, j \in 1 .. n : i < j => at[i] < at[j]
    /\ \A p \in places : \E k \in 1 .. n : at[k] = p

\* Counting the places below each of them numbers the places in their order.
LEMMA AtPicks ==
  ASSUME NEW m \in Nat, NEW places, places \subseteq 1 .. m, NEW s
  PROVE  Picks(Dup!At(s, places), s, places)
<1> DEFINE below(p) == {j \in places : j < p}
           n == Cardinality(places)
           count == [p \in places |-> Cardinality(below(p))]
           at == [k \in 1 .. n |-> CHOOSE p \in places : Cardinality(below(p)) = k - 1]
<1>0. \A p \in places : p \in Int
  OBVIOUS
<1>1. IsFiniteSet(places) /\ n \in Nat
  <2>1. IsFiniteSet(1 .. m)
    BY FS_Interval
  <2>2. QED
    BY <2>1, FS_Subset, FS_CardinalityType
<1>2. ASSUME NEW p \in places
      PROVE  /\ IsFiniteSet(below(p))
             /\ count[p] = Cardinality(below(p))
             /\ count[p] \in 0 .. n - 1
             /\ count[p] \in Int
  <2>1. below(p) \in SUBSET places /\ p \notin below(p)
    BY <1>0
  <2>2. IsFiniteSet(below(p)) /\ Cardinality(below(p)) <= n /\ below(p) # places
    BY <1>1, <1>2, <2>1, FS_Subset
  <2>3. Cardinality(below(p)) # n
    BY <1>1, <2>1, <2>2, FS_Subset
  <2>4. Cardinality(below(p)) \in Nat
    BY <2>2, FS_CardinalityType
  <2>5. QED
    BY <1>1, <2>2, <2>3, <2>4
<1>3. Dup!At(s, places) =
        [k \in 1 .. n |-> s[CHOOSE p \in places : Cardinality(below(p)) = k - 1]]
  BY DEF Dup!At, Dup!Cardinality, Cardinality
<1> HIDE DEF n, count, below
<1>4. ASSUME NEW p \in places, NEW q \in places, p < q
      PROVE  count[p] < count[q]
  <2>1. below(p) \in SUBSET below(q)
    <3>1. ASSUME NEW j \in places, j < p
          PROVE  j < q
      BY <1>0, <1>4, <3>1
    <3>2. QED
      BY <3>1 DEF below
  <2>2. p \in below(q) /\ p \notin below(p)
    BY <1>0, <1>4 DEF below
  <2>3. /\ Cardinality(below(p)) <= Cardinality(below(q))
        /\ Cardinality(below(p)) # Cardinality(below(q))
    BY <1>2, <2>1, <2>2, FS_Subset
  <2>4. QED
    BY <1>2, <2>3
<1>5. \A p, q \in places : count[p] = count[q] => p = q
  <2> SUFFICES ASSUME NEW p \in places, NEW q \in places, count[p] = count[q], p # q
               PROVE  FALSE
    OBVIOUS
  <2>1. count[p] \in Int /\ count[q] \in Int
    BY <1>2
  <2>2. p < q \/ q < p
    BY <1>0
  <2>3. count[p] < count[q] \/ count[q] < count[p]
    BY <1>4, <2>2
  <2>4. QED
    BY <2>1, <2>3
<1>6. \A k \in 0 .. n - 1 : \E p \in places : count[p] = k
  <2>1. count \in [places -> 0 .. n - 1]
    BY <1>2 DEF count
  <2>2. count \in Injection(places, 0 .. n - 1)
    BY <1>5, <2>1, Fun_IsInj
  <2>3. IsFiniteSet(0 .. n - 1) /\ Cardinality(0 .. n - 1) = n
    BY <1>1, FS_Interval
  <2>4. Cardinality(places) = n
    BY DEF n
  <2>5. count \in Surjection(places, 0 .. n - 1)
    BY <1>1, <2>2, <2>3, <2>4, FS_Injection
  <2>6. QED
    BY <2>5 DEF Surjection
<1>7. ASSUME NEW k \in 1 .. n
      PROVE  at[k] \in places /\ count[at[k]] = k - 1
  <2>1. k - 1 \in 0 .. n - 1
    BY <1>1
  <2>2. PICK p \in places : count[p] = k - 1
    BY <1>6, <2>1
  <2>3. Cardinality(below(p)) = k - 1
    BY <1>2, <2>2
  <2>4. at[k] \in places /\ Cardinality(below(at[k])) = k - 1
    BY <1>7, <2>3
  <2>5. QED
    BY <1>2, <2>4
<1>8. Dup!At(s, places) = [k \in 1 .. n |-> s[at[k]]]
  BY <1>3
<1> HIDE DEF at
<1>9. \A i, j \in 1 .. n : i < j => at[i] < at[j]
  <2> SUFFICES ASSUME NEW i \in 1 .. n, NEW j \in 1 .. n, i < j
               PROVE  at[i] < at[j]
    OBVIOUS
  <2>1. at[i] \in places /\ at[j] \in places /\ count[at[i]] = i - 1 /\ count[at[j]] = j - 1
    BY <1>7
  <2>2. i \in Int /\ j \in Int /\ ~(j - 1 < i - 1) /\ i - 1 # j - 1
    BY <1>1
  <2>3. at[i] # at[j]
    BY <2>1, <2>2
  <2>4. ~(at[j] < at[i])
    BY <1>4, <2>1, <2>2
  <2>5. at[i] \in Int /\ at[j] \in Int
    BY <1>0, <2>1
  <2>6. QED
    BY <2>3, <2>4, <2>5
<1>10. \A p \in places : \E k \in 1 .. n : at[k] = p
  <2> SUFFICES ASSUME NEW p \in places
               PROVE  \E k \in 1 .. n : at[k] = p
    OBVIOUS
  <2>1. count[p] + 1 \in 1 .. n /\ count[p] \in Int
    BY <1>1, <1>2
  <2>2. at[count[p] + 1] \in places /\ count[at[count[p] + 1]] = count[p]
    BY <1>7, <2>1
  <2>3. QED
    BY <1>5, <2>1, <2>2
<1>11. at \in [1 .. n -> places]
  BY <1>7 DEF at
<1>12. QED
  BY <1>1, <1>8, <1>9, <1>10, <1>11 DEF Picks

-----------------------------------------------------------------------------
(* Lists of lists.                                                         *)

\* The lists from the first on, one after the other.
Joins(f, ss, n) ==
  \A i \in 1 .. n : f[i] = IF i = 1 THEN ss[i] ELSE f[i - 1] \o ss[i]

LEMMA JoinsExist ==
  ASSUME NEW S, NEW N \in Nat \ {0}, NEW ss \in [1 .. N -> Seq(S)]
  PROVE  \E f \in [1 .. N -> Seq(S)] : Joins(f, ss, N)
<1> DEFINE With == {n \in 1 .. N : \E f \in [1 .. n -> Seq(S)] : Joins(f, ss, n)}
<1>1. ASSUME NEW n \in 1 .. N, n = 1
      PROVE  n \in With
  <2>1. [i \in 1 .. 1 |-> ss[i]] \in [1 .. n -> Seq(S)] /\ Joins([i \in 1 .. 1 |-> ss[i]], ss, n)
    BY <1>1 DEF Joins
  <2>2. QED
    BY <2>1
<1>2. ASSUME NEW n \in 1 .. N, n # 1, n - 1 \in With
      PROVE  n \in With
  <2>1. n - 1 \in 1 .. N
    BY <1>2
  <2>2. PICK f \in [1 .. n - 1 -> Seq(S)] : Joins(f, ss, n - 1)
    BY <1>2
  <2> DEFINE g == [i \in 1 .. n |-> IF i = n THEN f[n - 1] \o ss[n] ELSE f[i]]
  <2>3. f[n - 1] \in Seq(S) /\ ss[n] \in Seq(S)
    BY <2>1
  <2>4. f[n - 1] \o ss[n] \in Seq(S)
    BY <2>3
  <2>5. ASSUME NEW i \in 1 .. n
        PROVE  g[i] \in Seq(S) /\ g[i] = IF i = 1 THEN ss[i] ELSE g[i - 1] \o ss[i]
    <3>1. CASE i = n
      <4>1. g[n - 1] = f[n - 1] /\ g[n] = f[n - 1] \o ss[n]
        BY <1>2
      <4>2. QED
        BY <1>2, <2>4, <3>1, <4>1
    <3>2. CASE i # n
      <4>1. i \in 1 .. n - 1
        BY <3>2
      <4>2. f[i] = IF i = 1 THEN ss[i] ELSE f[i - 1] \o ss[i]
        BY <2>2, <4>1 DEF Joins
      <4>3. g[i] = f[i] /\ (i # 1 => g[i - 1] = f[i - 1])
        BY <4>1
      <4>4. QED
        BY <2>2, <4>1, <4>2, <4>3
    <3>3. QED
      BY <3>1, <3>2
  <2>6. g \in [1 .. n -> Seq(S)] /\ Joins(g, ss, n)
    BY <2>5 DEF Joins
  <2>7. QED
    BY <2>6
<1> HIDE DEF With
<1>3. 1 .. N \subseteq With
  BY <1>1, <1>2, Stepwise
<1>4. QED
  BY <1>3 DEF With

LEMMA FlattenJoins ==
  ASSUME NEW S, NEW N \in Nat \ {0}, NEW ss \in [1 .. N -> Seq(S)]
  PROVE  \E f : DOMAIN f = 1 .. N /\ Joins(f, ss, N) /\ Dup!FlattenSeq(ss) = f[N]
<1> DEFINE rec(f) == [i \in 1 .. N |-> IF i = 1 THEN ss[i] ELSE f[i - 1] \o ss[i]]
           h == CHOOSE f : f = rec(f)
<1>1. ss \in Seq(Seq(S)) /\ Len(ss) = N
  OBVIOUS
<1>2. Dup!FlattenSeq(ss) = h[N]
  BY <1>1 DEF Dup!FlattenSeq
<1>3. PICK f \in [1 .. N -> Seq(S)] : Joins(f, ss, N)
  BY JoinsExist
<1>4. f = rec(f)
  BY <1>3 DEF Joins
<1>5. h = rec(h)
  BY <1>4
<1> HIDE DEF h
<1>6. DOMAIN h = 1 .. N /\ Joins(h, ss, N)
  BY <1>5 DEF Joins
<1>7. QED
  BY <1>2, <1>6

LEMMA UnionOfMore ==
  ASSUME NEW f, NEW A, NEW x
  PROVE  UNION {f[i] : i \in A \union {x}} = (UNION {f[i] : i \in A}) \union f[x]
OBVIOUS

LEMMA FlattenKeeps ==
  ASSUME NEW S, NEW N \in Nat, NEW ss \in [1 .. N -> Seq(S)]
  PROVE  /\ Dup!FlattenSeq(ss) \in Seq(S)
         /\ Range(Dup!FlattenSeq(ss)) = UNION {Range(ss[i]) : i \in 1 .. N}
<1>1. CASE N = 0
  <2>1. ss = <<>>
    BY <1>1
  <2>2. Dup!FlattenSeq(ss) = <<>>
    BY <2>1 DEF Dup!FlattenSeq
  <2>3. Range(Dup!FlattenSeq(ss)) = {}
    BY <2>2 DEF Range
  <2>4. QED
    BY <1>1, <2>2, <2>3
<1>2. CASE N # 0
  <2>1. PICK f : DOMAIN f = 1 .. N /\ Joins(f, ss, N) /\ Dup!FlattenSeq(ss) = f[N]
    BY <1>2, FlattenJoins
  <2> DEFINE Kept(n) == f[n] \in Seq(S) /\ Range(f[n]) = UNION {Range(ss[i]) : i \in 1 .. n}
             Good == {n \in 1 .. N : Kept(n)}
  <2>2. ASSUME NEW n \in 1 .. N, n # 1 => Kept(n - 1)
        PROVE  Kept(n)
    <3>1. CASE n = 1
      <4>1. f[n] = ss[1]
        BY <2>1, <3>1 DEF Joins
      <4>2. UNION {Range(ss[i]) : i \in 1 .. 1} = Range(ss[1])
        OBVIOUS
      <4>3. QED
        BY <3>1, <4>1, <4>2
    <3>2. CASE n # 1
      <4>1. f[n] = f[n - 1] \o ss[n] /\ f[n - 1] \in Seq(S) /\ ss[n] \in Seq(S)
        BY <2>1, <2>2, <3>2 DEF Joins
      <4>2. f[n] \in Seq(S) /\ Range(f[n]) = Range(f[n - 1]) \union Range(ss[n])
        BY <4>1, ConcatProperties, RangeConcatenation
      <4>3. Range(f[n - 1]) = UNION {Range(ss[i]) : i \in 1 .. n - 1}
        BY <2>2, <3>2
      <4>4. 1 .. n = (1 .. n - 1) \union {n}
        OBVIOUS
      <4>5. UNION {Range(ss[i]) : i \in (1 .. n - 1) \union {n}}
              = (UNION {Range(ss[i]) : i \in 1 .. n - 1}) \union Range(ss[n])
        <5> DEFINE r == [i \in Nat |-> Range(ss[i])]
        <5>1. UNION {r[i] : i \in (1 .. n - 1) \union {n}} = (UNION {r[i] : i \in 1 .. n - 1}) \union r[n]
          BY UnionOfMore
        <5>2. \A i \in 1 .. n : r[i] = Range(ss[i])
          OBVIOUS
        <5>3. (1 .. n - 1) \union {n} = 1 .. n
          OBVIOUS
        <5> HIDE DEF r
        <5>4. {r[i] : i \in 1 .. n - 1} = {Range(ss[i]) : i \in 1 .. n - 1}
          BY <5>2
        <5>5. {r[i] : i \in 1 .. n} = {Range(ss[i]) : i \in 1 .. n}
          BY <5>2
        <5>6. r[n] = Range(ss[n])
          BY <5>2
        <5>7. QED
          BY <5>1, <5>3, <5>4, <5>5, <5>6
      <4>6. QED
        BY <4>2, <4>3, <4>4, <4>5
    <3>3. QED
      BY <3>1, <3>2
  <2> HIDE DEF Kept
  <2>3. 1 .. N \subseteq Good
    BY <2>2, Stepwise
  <2>4. Kept(N)
    BY <1>2, <2>3
  <2>5. QED
    BY <2>1, <2>4 DEF Kept
<1>3. QED
  BY <1>1, <1>2

-----------------------------------------------------------------------------
(* The classifier.                                                         *)

\* The batches cover a list, and every batch but the last is full.
LEMMA BatchesCover ==
  ASSUME NEW B \in Nat \ {0}, NEW L \in Nat, NEW N, N = (L + B - 1) \div B
  PROVE  /\ N \in Nat
         /\ L <= N * B
         /\ \A n \in 1 .. N : n * B \in Nat /\ (n - 1) * B \in Nat /\ (n - 1) * B < L
<1>1. /\ N \in Int /\ B * N <= L + B - 1 /\ L + B - 1 < B * N + B
  OBVIOUS
<1>2. N \in Nat
  <2>1. CASE N < 0
    <3>1. B * N <= -B
      BY <1>1, <2>1
    <3>2. QED
      BY <1>1, <3>1
  <2>2. QED
    BY <1>1, <2>1
<1>3. N * B = B * N
  BY <1>1
<1>4. ASSUME NEW n \in 1 .. N
      PROVE  n * B \in Nat /\ (n - 1) * B \in Nat /\ (n - 1) * B < L
  <2>1. (n - 1) * B = n * B - B /\ n * B \in Nat /\ (n - 1) * B \in Nat
    BY <1>2
  <2>2. n * B <= N * B
    BY <1>2
  <2>3. QED
    BY <1>1, <1>2, <1>3, <2>1, <2>2
<1>5. QED
  BY <1>1, <1>2, <1>3, <1>4

LEMMA RunsJoin ==
  ASSUME NEW R, NEW a \in Nat, NEW b \in Nat, a <= b
  PROVE  [i \in 1 .. a |-> R[i]] \o [i \in 1 .. b - a |-> R[i + a]] = [i \in 1 .. b |-> R[i]]
<1> DEFINE s == [i \in 1 .. a |-> R[i]]
           t == [i \in 1 .. b - a |-> R[i + a]]
           S == {R[i] : i \in 1 .. b}
<1>1. PICK c \in Nat : c = b - a
  OBVIOUS
<1>2. s \in Seq(S) /\ Len(s) = a
  OBVIOUS
<1>3. t \in Seq(S) /\ Len(t) = c
  BY <1>1
<1>4. s \o t \in Seq(S) /\ Len(s \o t) = b
  BY <1>1, <1>2, <1>3, ConcatProperties
<1>5. ASSUME NEW i \in 1 .. b
      PROVE  (s \o t)[i] = R[i]
  <2>1. CASE i <= a
    <3>1. (s \o t)[i] = s[i]
      BY <1>2, <1>3, <1>4, <2>1, ConcatProperties
    <3>2. QED
      BY <2>1, <3>1
  <2>2. CASE ~(i <= a)
    <3>1. (s \o t)[i] = t[i - a] /\ i - a \in 1 .. b - a
      BY <1>2, <1>3, <1>4, <2>2, ConcatProperties
    <3>2. QED
      BY <2>2, <3>1
  <2>3. QED
    BY <2>1, <2>2
<1>6. DOMAIN (s \o t) = 1 .. b /\ s \o t = [i \in DOMAIN (s \o t) |-> (s \o t)[i]]
  BY <1>4
<1> HIDE DEF s, t
<1>7. s \o t = [i \in 1 .. b |-> R[i]]
  BY <1>5, <1>6
<1>8. QED
  BY <1>7 DEF s, t

\* Batching is not seen in the results.
LEMMA ClassifiedInOrder ==
  ASSUME BatchSize \in Nat \ {0}, NEW P, NEW pairs \in Seq(P), NEW verdict, NEW order
  PROVE  Dup!ClassifyBatch(pairs, verdict, order) =
           [i \in 1 .. Len(pairs) |-> Dup!Result(pairs[i], verdict, order)]
<1> DEFINE L == Len(pairs)
           N == (L + BatchSize - 1) \div BatchSize
           R == [i \in 1 .. L |-> Dup!Result(pairs[i], verdict, order)]
           hi(n) == IF n * BatchSize <= L THEN n * BatchSize ELSE L
           lo(n) == (n - 1) * BatchSize
           ss == [n \in 1 .. N |-> [i \in 1 .. hi(n) - lo(n) |-> R[i + lo(n)]]]
<1>1. L \in Nat
  OBVIOUS
<1>2. /\ N \in Nat
      /\ L <= N * BatchSize
      /\ \A n \in 1 .. N : n * BatchSize \in Nat /\ lo(n) \in Nat /\ lo(n) < L
  BY <1>1, BatchesCover
<1> HIDE DEF L, N, R
<1>3. \A n \in 1 .. N : lo(n) < hi(n) /\ hi(n) <= L /\ hi(n) \in Nat
  <2> SUFFICES ASSUME NEW n \in 1 .. N
               PROVE  lo(n) < hi(n) /\ hi(n) <= L /\ hi(n) \in Nat
    OBVIOUS
  <2>1. lo(n) = n * BatchSize - BatchSize
    BY <1>2
  <2>2. QED
    BY <1>1, <1>2, <2>1
<1>4. \A n \in 1 .. N : Dup!Min({n * BatchSize, L}) = hi(n)
  <2> SUFFICES ASSUME NEW n \in 1 .. N
               PROVE  Dup!Min({n * BatchSize, L}) = hi(n)
    OBVIOUS
  <2>1. n * BatchSize \in Nat /\ hi(n) \in {n * BatchSize, L}
        /\ \A y \in {n * BatchSize, L} : hi(n) <= y
    BY <1>1, <1>2
  <2>2. \A x \in {n * BatchSize, L} : (\A y \in {n * BatchSize, L} : x <= y) => x = hi(n)
    BY <1>1, <2>1
  <2> HIDE DEF hi
  <2>3. QED
    BY <2>1, <2>2 DEF Dup!Min
<1>5. Dup!Batched(pairs) =
        [n \in 1 .. N |-> SubSeq(pairs, lo(n) + 1, hi(n))]
  BY <1>4 DEF Dup!Batched, L, N
<1>6. ASSUME NEW n \in 1 .. N
      PROVE  /\ DOMAIN SubSeq(pairs, lo(n) + 1, hi(n)) = 1 .. hi(n) - lo(n)
             /\ \A i \in 1 .. hi(n) - lo(n) :
                  /\ i + lo(n) \in 1 .. L
                  /\ SubSeq(pairs, lo(n) + 1, hi(n))[i] = pairs[i + lo(n)]
  <2>1. lo(n) \in Nat /\ hi(n) \in Nat /\ lo(n) < hi(n) /\ hi(n) <= L
    BY <1>2, <1>3
  <2> HIDE DEF lo, hi
  <2>2. SubSeq(pairs, lo(n) + 1, hi(n)) =
          [i \in 1 .. hi(n) - lo(n) |-> pairs[i + lo(n)]]
    BY <2>1 DEF L
  <2>3. QED
    BY <1>1, <2>1, <2>2
<1> HIDE DEF lo, hi
<1>7. Dup!ClassifyBatch(pairs, verdict, order) = Dup!FlattenSeq(ss)
  <2> DEFINE b == Dup!Batched(pairs)
             classified == [n \in DOMAIN b |-> [i \in DOMAIN b[n] |-> Dup!Result(b[n][i], verdict, order)]]
  <2>1. Dup!ClassifyBatch(pairs, verdict, order) = Dup!FlattenSeq(classified)
    BY DEF Dup!ClassifyBatch
  <2>2. DOMAIN b = 1 .. N /\ \A n \in 1 .. N : b[n] = SubSeq(pairs, lo(n) + 1, hi(n))
    BY <1>5
  <2> HIDE DEF b
  <2>3. ASSUME NEW n \in 1 .. N
        PROVE  [i \in DOMAIN b[n] |-> Dup!Result(b[n][i], verdict, order)]
                 = [i \in 1 .. hi(n) - lo(n) |-> R[i + lo(n)]]
    <3>1. /\ DOMAIN b[n] = 1 .. hi(n) - lo(n)
          /\ \A i \in 1 .. hi(n) - lo(n) : i + lo(n) \in 1 .. L /\ b[n][i] = pairs[i + lo(n)]
      BY <1>6, <2>2
    <3>2. \A i \in 1 .. L : R[i] = Dup!Result(pairs[i], verdict, order)
      BY DEF R
    <3>3. QED
      BY <3>1, <3>2
  <2>4. classified = ss
    BY <2>2, <2>3
  <2>5. QED
    BY <2>1, <2>4
<1>8. CASE N = 0
  <2>1. L = 0
    BY <1>1, <1>2, <1>8
  <2>2. ss = <<>> /\ R = <<>>
    BY <1>8, <2>1 DEF R
  <2>3. Dup!FlattenSeq(ss) = R
    BY <2>2 DEF Dup!FlattenSeq
  <2>4. QED
    BY <1>7, <2>3 DEF R, L
<1>9. CASE N # 0
  <2>1. ss \in [1 .. N -> Seq(Range(R))]
    <3>1. DOMAIN R = 1 .. L
      BY DEF R
    <3>2. ASSUME NEW n \in 1 .. N
          PROVE  [i \in 1 .. hi(n) - lo(n) |-> R[i + lo(n)]] \in Seq(Range(R))
      <4>1. lo(n) \in Nat /\ hi(n) \in Nat /\ hi(n) - lo(n) \in Nat
        BY <1>2, <1>3 DEF lo
      <4>2. \A i \in 1 .. hi(n) - lo(n) : R[i + lo(n)] \in Range(R)
        BY <1>6, <3>1 DEF Range
      <4>3. PICK m \in Nat : m = hi(n) - lo(n)
        BY <4>1
      <4>4. QED
        BY <4>2, <4>3
    <3>3. QED
      BY <3>2
  <2>2. PICK f : DOMAIN f = 1 .. N /\ Joins(f, ss, N) /\ Dup!FlattenSeq(ss) = f[N]
    BY <1>2, <1>9, <2>1, FlattenJoins
  <2> DEFINE Good == {n \in 1 .. N : f[n] = [i \in 1 .. hi(n) |-> R[i]]}
  <2>3. ASSUME NEW n \in 1 .. N, n = 1
        PROVE  n \in Good
    <3>1. f[1] = ss[1] /\ lo(1) = 0 /\ hi(1) \in Nat
      <4>1. lo(1) = 0
        <5>1. (1 - 1) * BatchSize = 0
          OBVIOUS
        <5>2. QED
          BY <5>1 DEF lo
      <4>2. QED
        BY <1>3, <2>2, <2>3, <4>1 DEF Joins
    <3>2. ss[1] = [i \in 1 .. hi(1) |-> R[i]]
      BY <2>3, <3>1
    <3>3. QED
      BY <2>3, <3>1, <3>2
  <2>4. ASSUME NEW n \in 1 .. N, n # 1, n - 1 \in Good
        PROVE  n \in Good
    <3>1. f[n] = f[n - 1] \o ss[n] /\ f[n - 1] = [i \in 1 .. hi(n - 1) |-> R[i]]
      BY <2>2, <2>4 DEF Joins
    <3>2. hi(n - 1) = lo(n) /\ lo(n) \in Nat /\ hi(n) \in Nat /\ lo(n) < hi(n)
      <4>1. lo(n) = (n - 1) * BatchSize
        BY DEF lo
      <4>2. hi(n - 1) = IF lo(n) <= L THEN lo(n) ELSE L
        BY <4>1 DEF hi
      <4>3. lo(n) \in Nat /\ lo(n) < L
        BY <1>2, <4>1
      <4>4. QED
        BY <1>1, <1>3, <4>2, <4>3
    <3>3. f[n] = [i \in 1 .. hi(n) |-> R[i]]
      <4>1. ss[n] = [i \in 1 .. hi(n) - lo(n) |-> R[i + lo(n)]] /\ lo(n) <= hi(n)
        BY <3>2
      <4>2. QED
        BY <3>1, <3>2, <4>1, RunsJoin
    <3>4. QED
      BY <3>3
  <2> HIDE DEF Good
  <2>5. 1 .. N \subseteq Good
    BY <1>2, <2>3, <2>4, Stepwise
  <2>6. f[N] = [i \in 1 .. hi(N) |-> R[i]] /\ hi(N) = L
    <3>1. N \in 1 .. N
      BY <1>2, <1>9
    <3>2. f[N] = [i \in 1 .. hi(N) |-> R[i]]
      BY <2>5, <3>1 DEF Good
    <3>3. N * BatchSize \in Nat /\ L <= N * BatchSize
      BY <1>2, <3>1
    <3>4. hi(N) = L
      BY <1>1, <3>3 DEF hi
    <3>5. QED
      BY <3>2, <3>4
  <2>7. f[N] = R
    BY <2>6 DEF R
  <2>8. QED
    BY <1>7, <2>2, <2>7 DEF R, L
<1>10. QED
  BY <1>8, <1>9

\* Whatever the order of the model's labels, the label read off its vector is
\* the one to which it gave the most.
LEMMA ResultIsVerdict ==
  ASSUME NEW order, Range(order) = Range(Dup!Labels),
         NEW verdict, NEW pair, verdict[pair] \in Range(Dup!Labels)
  PROVE  /\ Dup!Result(pair, verdict, order).label = verdict[pair]
         /\ Dup!Result(pair, verdict, order).entailment = 2 <=> verdict[pair] = "entailment"
<1> DEFINE v == verdict[pair]
           score == [l \in Range(Dup!Labels) |->
                       Dup!Probabilities(pair, verdict, order)[Dup!LabelMapping(order)[l]]]
           best == {i \in DOMAIN Dup!Labels :
                      \A l \in Range(Dup!Labels) : score[l] <= score[Dup!Labels[i]]}
<1>1. /\ Range(Dup!Labels) = {"entailment", "neutral", "contradiction"}
      /\ DOMAIN Dup!Labels = 1 .. 3
      /\ Dup!Labels[1] = "entailment" /\ Dup!Labels[2] = "neutral"
      /\ Dup!Labels[3] = "contradiction"
  BY DEF Dup!Labels, Range
<1>2. ASSUME NEW l \in Range(Dup!Labels)
      PROVE  score[l] = IF l = v THEN 2 ELSE 1
  <2>1. PICK i \in DOMAIN order : order[i] = l
    BY DEF Range
  <2>2. Dup!LabelMapping(order)[l] \in DOMAIN order /\ order[Dup!LabelMapping(order)[l]] = l
    BY <2>1 DEF Dup!LabelMapping, Dup!Range, Range
  <2>3. QED
    BY <2>2 DEF Dup!Probabilities
<1>3. Dup!Result(pair, verdict, order) = [label |-> Dup!Labels[Dup!Min(best)], entailment |-> score["entailment"]]
  BY DEF Dup!Result, Dup!Range, Range
<1> HIDE DEF score
<1>4. PICK n \in DOMAIN Dup!Labels : Dup!Labels[n] = v
  BY DEF Range
<1>5. best = {n}
  <2>1. n \in best
    BY <1>2, <1>4
  <2>2. ASSUME NEW i \in best
        PROVE  i = n
    <3>1. score[v] <= score[Dup!Labels[i]] /\ i \in DOMAIN Dup!Labels
      OBVIOUS
    <3>2. Dup!Labels[i] \in Range(Dup!Labels)
      BY <3>1 DEF Range
    <3>3. Dup!Labels[i] = v
      BY <1>2, <3>1, <3>2
    <3>4. QED
      BY <1>1, <1>4, <3>1, <3>3
  <2>3. QED
    BY <2>1, <2>2
<1> HIDE DEF best
<1>6. Dup!Min(best) = n
  BY <1>1, <1>4, <1>5 DEF Dup!Min
<1>7. "entailment" \in Range(Dup!Labels)
  BY <1>1
<1>8. QED
  BY <1>2, <1>3, <1>4, <1>6, <1>7

LEMMA ConceptStep ==
  ASSUME Dup!ConstantsOK, Dup!DetectConcept
  PROVE  Dup!ConceptsScored' /\ result'.job = "concept"
<1>1. PICK n \in DOMAIN SectionTexts, c \in Concept, order \in Orders :
        \E verdict \in [{<<SectionTexts[i], c>> : i \in 1 .. n} -> Verdicts] :
          LET pairs == [i \in 1 .. n |-> <<SectionTexts[i], c>>]
              raw == Dup!ClassifyBatch(pairs, verdict, order)
          IN  result' = [job |-> "concept", pairs |-> pairs, verdict |-> verdict,
                         printed |-> [i \in DOMAIN raw |-> raw[i].entailment]]
  BY DEF Dup!DetectConcept
<1> DEFINE P == {<<SectionTexts[i], c>> : i \in 1 .. n}
           pairs == [i \in 1 .. n |-> <<SectionTexts[i], c>>]
<1>11. PICK verdict \in [P -> Verdicts] :
         result' = [job |-> "concept", pairs |-> pairs, verdict |-> verdict,
                    printed |-> [i \in DOMAIN Dup!ClassifyBatch(pairs, verdict, order) |->
                                  Dup!ClassifyBatch(pairs, verdict, order)[i].entailment]]
  BY <1>1
<1> DEFINE raw == Dup!ClassifyBatch(pairs, verdict, order)
<1>2. n \in Nat
  BY DEF Dup!ConstantsOK
<1>3. pairs \in Seq(P) /\ Len(pairs) = n
  <2>1. pairs \in [1 .. n -> P]
    OBVIOUS
  <2> HIDE DEF pairs, P
  <2>2. QED
    BY <1>2, <2>1
<1>4. \A i \in 1 .. n : pairs[i] \in P
  OBVIOUS
<1>5. raw = [i \in 1 .. n |-> Dup!Result(pairs[i], verdict, order)]
  <2>1. BatchSize \in Nat \ {0}
    BY DEF Dup!ConstantsOK
  <2> HIDE DEF pairs, P
  <2>2. raw = [i \in 1 .. Len(pairs) |-> Dup!Result(pairs[i], verdict, order)]
    BY <1>3, <2>1, ClassifiedInOrder
  <2> HIDE DEF raw
  <2>3. QED
    BY <1>3, <2>2
<1>6. result' = [job |-> "concept", pairs |-> pairs, verdict |-> verdict,
                 printed |-> [i \in DOMAIN raw |-> raw[i].entailment]]
  BY <1>11
<1> HIDE DEF raw, pairs
<1>7. ASSUME NEW i \in 1 .. n
      PROVE  raw[i].entailment = 2 <=> verdict[pairs[i]] = "entailment"
  <2>1. Range(order) = Range(Dup!Labels)
    BY DEF Dup!ConstantsOK, Dup!Range, Range
  <2>2. verdict[pairs[i]] \in Range(Dup!Labels)
    BY <1>4 DEF Dup!ConstantsOK, Dup!Range, Range
  <2>3. QED
    BY <1>5, <2>1, <2>2, ResultIsVerdict
<1>8. /\ result'.printed = [i \in 1 .. n |-> raw[i].entailment]
      /\ result'.pairs = pairs /\ result'.verdict = verdict
  BY <1>5, <1>6
<1>9. Len(result'.printed) = n
  BY <1>2, <1>8
<1>10. QED
  BY <1>3, <1>6, <1>7, <1>8, <1>9 DEF Dup!ConceptsScored

-----------------------------------------------------------------------------
(* Duplicates.                                                             *)

\* A list t holds the elements of s at these places, and no two of its positions
\* come from one place.
Chosen(t, s, places) ==
  /\ Range(t) = {s[i] : i \in places}
  /\ \A i, j \in DOMAIN t : i # j =>
       \E p, q \in places : (p < q \/ q < p) /\ t[i] = s[p] /\ t[j] = s[q]

LEMMA PickedList ==
  ASSUME NEW S, NEW s \in Seq(S), NEW places, places \subseteq DOMAIN s
  PROVE  Dup!At(s, places) \in Seq(S) /\ Chosen(Dup!At(s, places), s, places)
<1>1. PICK m \in Nat : DOMAIN s = 1 .. m
  OBVIOUS
<1>2. PICK t : t = Dup!At(s, places)
  OBVIOUS
<1>3. Picks(t, s, places)
  <2>1. places \subseteq 1 .. m
    BY <1>1
  <2>2. QED
    BY <1>2, <2>1, AtPicks
<1>4. PICK n \in Nat : \E at \in [1 .. n -> places] :
         /\ t = [k \in 1 .. n |-> s[at[k]]]
         /\ \A i, j \in 1 .. n : i < j => at[i] < at[j]
         /\ \A p \in places : \E k \in 1 .. n : at[k] = p
  BY <1>3 DEF Picks
<1>5. PICK at \in [1 .. n -> places] :
         /\ t = [k \in 1 .. n |-> s[at[k]]]
         /\ \A i, j \in 1 .. n : i < j => at[i] < at[j]
         /\ \A p \in places : \E k \in 1 .. n : at[k] = p
  BY <1>4
<1>6. /\ DOMAIN t = 1 .. n
      /\ \A k \in 1 .. n : at[k] \in places /\ t[k] = s[at[k]]
  BY <1>5
<1>7. \A k \in 1 .. n : t[k] \in S
  BY <1>6
<1>8. t \in Seq(S)
  BY <1>5, <1>7
<1>9. Range(t) = {s[i] : i \in places}
  <2>1. Range(t) \subseteq {s[i] : i \in places}
    BY <1>6 DEF Range
  <2>2. \A p \in places : \E k \in DOMAIN t : t[k] = s[p]
    BY <1>5, <1>6
  <2>3. {s[i] : i \in places} \subseteq Range(t)
    BY <2>2 DEF Range
  <2>4. QED
    BY <2>1, <2>3
<1>10. ASSUME NEW i \in DOMAIN t, NEW j \in DOMAIN t, i # j
       PROVE  \E p, q \in places : (p < q \/ q < p) /\ t[i] = s[p] /\ t[j] = s[q]
  <2>1. i \in 1 .. n /\ j \in 1 .. n /\ (i < j \/ j < i)
    BY <1>6, <1>10
  <2>2. at[i] < at[j] \/ at[j] < at[i]
    BY <1>5, <2>1
  <2>3. QED
    BY <1>6, <2>1, <2>2
<1>11. QED
  BY <1>2, <1>8, <1>9, <1>10 DEF Chosen

LEMMA PointsFinite ==
  ASSUME Dup!ConstantsOK
  PROVE  IsFiniteSet(Range(Points))
<1>1. PICK n \in Nat : DOMAIN Points = 1 .. n
  BY DEF Dup!ConstantsOK
<1>2. Points \in Surjection(1 .. n, Range(Points))
  BY <1>1 DEF Dup!ConstantsOK, Dup!Range, Range, Surjection
<1>3. QED
  BY <1>2, FS_Interval, FS_Surjection

\* What the index answers is a list of points.
LEMMA NearestList ==
  ASSUME Dup!ConstantsOK, NEW sim, NEW p, NEW r \in Dup!Nearest(sim, p)
  PROVE  r \in Seq(Range(Points))
<1>1. PICK k : r \in UNION {Dup!SetToSeqs(s) : s \in Dup!kSubset(k, Dup!Range(Points))}
  BY DEF Dup!Nearest
<1>2. PICK s \in SUBSET Range(Points) : r \in Dup!SetToSeqs(s)
  BY <1>1 DEF Dup!kSubset, Dup!Range, Range
<1>3. IsFiniteSet(s)
  BY PointsFinite, FS_Subset
<1>4. Cardinality(s) \in Nat
  BY <1>3, FS_CardinalityType
<1>5. r \in [1 .. Cardinality(s) -> s]
  BY <1>2 DEF Dup!SetToSeqs, Dup!Cardinality, Cardinality
<1>6. QED
  BY <1>4, <1>5

LEMMA NeighboursFound ==
  ASSUME NEW sim, NEW near, NEW p \in Range(Points), near[p] \in Seq(Range(Points))
  PROVE  /\ Dup!NearDuplicates(sim, near, p) \in Seq(Range(Points) \X Range(Points))
         /\ Range(Dup!NearDuplicates(sim, near, p)) =
              {<<p, q>> : q \in {x \in Range(near[p]) : x # p /\ sim[{p, x}] >= Threshold}}
<1> DEFINE found == [i \in DOMAIN near[p] |-> <<p, near[p][i]>>]
           places == {i \in DOMAIN found :
                        found[i][2] # p /\ Dup!Similarity(sim, p, found[i][2]) >= Threshold}
           chosen == {<<p, q>> : q \in {x \in Range(near[p]) : x # p /\ sim[{p, x}] >= Threshold}}
<1>1. Dup!NearDuplicates(sim, near, p) = Dup!At(found, places)
  BY DEF Dup!NearDuplicates
<1>2. found \in Seq(Range(Points) \X Range(Points))
  OBVIOUS
<1>3. {found[i] : i \in places} = chosen
  <2>1. places = {i \in DOMAIN near[p] : near[p][i] # p /\ sim[{p, near[p][i]}] >= Threshold}
    BY DEF Dup!Similarity
  <2>2. {found[i] : i \in places} = {<<p, near[p][i]>> : i \in places}
    OBVIOUS
  <2> HIDE DEF places, found
  <2>3. ASSUME NEW i \in places
        PROVE  <<p, near[p][i]>> \in chosen
    BY <2>1 DEF Range
  <2>4. ASSUME NEW x \in Range(near[p]), x # p, sim[{p, x}] >= Threshold
        PROVE  <<p, x>> \in {<<p, near[p][i]>> : i \in places}
    <3>1. PICK i \in DOMAIN near[p] : near[p][i] = x
      BY DEF Range
    <3>2. QED
      BY <2>1, <2>4, <3>1
  <2>5. QED
    BY <2>2, <2>3, <2>4
<1>4. places \subseteq DOMAIN found
  OBVIOUS
<1> HIDE DEF found, places, chosen
<1>5. Dup!At(found, places) \in Seq(Range(Points) \X Range(Points))
      /\ Range(Dup!At(found, places)) = {found[i] : i \in places}
  BY <1>2, <1>4, PickedList DEF Chosen
<1>6. QED
  BY <1>1, <1>3, <1>5 DEF chosen

\* The ordered pairs one of which finds the other near enough.
NearPairs(sim, near) ==
  {c \in Range(Points) \X Range(Points) :
     c[1] # c[2] /\ c[2] \in Range(near[c[1]]) /\ sim[{c[1], c[2]}] >= Threshold}

LEMMA AllFound ==
  ASSUME Dup!ConstantsOK, NEW sim, NEW near,
         \A p \in Range(Points) : near[p] \in Seq(Range(Points)),
         NEW all, all = Dup!FlattenSeq([n \in DOMAIN Points |-> Dup!NearDuplicates(sim, near, Points[n])])
  PROVE  all \in Seq(Range(Points) \X Range(Points)) /\ Range(all) = NearPairs(sim, near)
<1> DEFINE R == Range(Points)
           ss == [n \in DOMAIN Points |-> Dup!NearDuplicates(sim, near, Points[n])]
<1>1. PICK N \in Nat : DOMAIN Points = 1 .. N
  BY DEF Dup!ConstantsOK
<1>2. \A n \in 1 .. N : Points[n] \in R
  BY <1>1 DEF Range
<1>3. \A n \in 1 .. N :
        /\ ss[n] \in Seq(R \X R)
        /\ Range(ss[n]) = {<<Points[n], q>> : q \in {x \in Range(near[Points[n]]) :
                              x # Points[n] /\ sim[{Points[n], x}] >= Threshold}}
  BY <1>1, <1>2, NeighboursFound
<1>4. ss \in [1 .. N -> Seq(R \X R)]
  BY <1>1, <1>3
<1>5. all = Dup!FlattenSeq(ss)
  OBVIOUS
<1> HIDE DEF ss
<1>6. all \in Seq(R \X R) /\ Range(all) = UNION {Range(ss[i]) : i \in 1 .. N}
  BY <1>4, <1>5, FlattenKeeps
<1>7. ASSUME NEW c \in NearPairs(sim, near)
      PROVE  c \in UNION {Range(ss[i]) : i \in 1 .. N}
  <2>1. /\ c = <<c[1], c[2]>> /\ c[1] \in R /\ c[1] # c[2]
        /\ c[2] \in Range(near[c[1]]) /\ sim[{c[1], c[2]}] >= Threshold
    BY DEF NearPairs
  <2>2. PICK n \in 1 .. N : Points[n] = c[1]
    BY <1>1, <2>1 DEF Range
  <2>3. c \in Range(ss[n])
    BY <1>3, <2>1, <2>2
  <2>4. QED
    BY <2>3
<1>8. ASSUME NEW n \in 1 .. N, NEW c \in Range(ss[n])
      PROVE  c \in NearPairs(sim, near)
  <2>1. PICK x \in Range(near[Points[n]]) :
          c = <<Points[n], x>> /\ x # Points[n] /\ sim[{Points[n], x}] >= Threshold
    BY <1>3
  <2>2. Points[n] \in R /\ near[Points[n]] \in Seq(R)
    BY <1>2
  <2>3. x \in R
    BY <2>2 DEF Range
  <2>4. QED
    BY <2>1, <2>2, <2>3 DEF NearPairs
<1>9. QED
  BY <1>6, <1>7, <1>8

\* Deduplication keeps one candidate of each key.
LEMMA OneOfEach ==
  ASSUME NEW S, NEW all \in Seq(S)
  PROVE  /\ Dup!Deduplicated(all) \in Seq(S)
         /\ Range(Dup!Deduplicated(all)) \subseteq Range(all)
         /\ \A c \in Range(all) : \E d \in Range(Dup!Deduplicated(all)) : Dup!Key(d) = Dup!Key(c)
         /\ \A i, j \in DOMAIN Dup!Deduplicated(all) :
              Dup!Key(Dup!Deduplicated(all)[i]) = Dup!Key(Dup!Deduplicated(all)[j]) => i = j
<1> DEFINE firsts == {i \in DOMAIN all :
                        \A j \in DOMAIN all : j < i => Dup!Key(all[j]) # Dup!Key(all[i])}
<1>1. firsts \subseteq DOMAIN all
  OBVIOUS
<1>2. PICK kept : kept = Dup!At(all, firsts)
  OBVIOUS
<1>3. Dup!Deduplicated(all) = kept
  BY <1>2 DEF Dup!Deduplicated
<1>4. /\ kept \in Seq(S)
      /\ Range(kept) = {all[i] : i \in firsts}
      /\ \A i, j \in DOMAIN kept : i # j =>
           \E p, q \in firsts : (p < q \/ q < p) /\ kept[i] = all[p] /\ kept[j] = all[q]
  <2> HIDE DEF firsts
  <2>1. QED
    BY <1>1, <1>2, PickedList DEF Chosen
<1>5. Range(kept) \subseteq Range(all)
  BY <1>4 DEF Range
<1>6. ASSUME NEW c \in Range(all)
      PROVE  \E d \in Range(kept) : Dup!Key(d) = Dup!Key(c)
  <2> DEFINE same == {i \in DOMAIN all : Dup!Key(all[i]) = Dup!Key(c)}
  <2>1. same \subseteq Nat /\ same # {}
    BY DEF Range
  <2>2. PICK m \in same : \A i \in same : m <= i
    BY <2>1, LeastNumber
  <2>3. m \in firsts
    <3>1. ASSUME NEW j \in DOMAIN all, j < m, Dup!Key(all[j]) = Dup!Key(all[m])
          PROVE  FALSE
      <4>1. j \in same /\ m \in Nat /\ j \in Nat
        BY <3>1
      <4>2. m <= j
        BY <2>2, <4>1
      <4>3. QED
        BY <3>1, <4>1, <4>2
    <3>2. QED
      BY <3>1
  <2>4. QED
    BY <1>4, <2>3
<1>7. ASSUME NEW i \in DOMAIN kept, NEW j \in DOMAIN kept, Dup!Key(kept[i]) = Dup!Key(kept[j]), i # j
      PROVE  FALSE
  <2>1. PICK p \in firsts, q \in firsts : (p < q \/ q < p) /\ kept[i] = all[p] /\ kept[j] = all[q]
    BY <1>4, <1>7
  <2>2. Dup!Key(all[p]) = Dup!Key(all[q])
    BY <1>7, <2>1
  <2>3. QED
    BY <2>1, <2>2
<1> HIDE DEF firsts
<1>8. QED
  BY <1>3, <1>4, <1>5, <1>6, <1>7

\* The results 2 * i - 1 and 2 * i are those of pair i, forward and backward.
LEMMA BothDirections ==
  ASSUME Dup!ConstantsOK, NEW pairs \in Seq(Range(Points) \X Range(Points)),
         NEW verdict, NEW order, Range(order) = Range(Dup!Labels),
         \A i \in DOMAIN pairs :
           /\ verdict[pairs[i]] \in Range(Dup!Labels)
           /\ verdict[<<pairs[i][2], pairs[i][1]>>] \in Range(Dup!Labels),
         NEW both,
         both = Dup!Grouped(pairs, Dup!ClassifyBatch(Dup!Expanded(pairs), verdict, order))
  PROVE  /\ DOMAIN both = DOMAIN pairs
         /\ both \in Seq(Range(both))
         /\ \A i \in DOMAIN pairs :
              /\ both[i].pair = pairs[i]
              /\ Dup!BothEntailment(both[i]) <=>
                   /\ verdict[pairs[i]] = "entailment"
                   /\ verdict[<<pairs[i][2], pairs[i][1]>>] = "entailment"
<1> DEFINE L == Len(pairs)
           expanded == Dup!Expanded(pairs)
           raw == Dup!ClassifyBatch(expanded, verdict, order)
<1>1. L \in Nat /\ DOMAIN pairs = 1 .. L
  OBVIOUS
<1>2. expanded = [i \in 1 .. 2 * L |->
                    IF i % 2 = 1 THEN pairs[(i + 1) \div 2]
                    ELSE <<pairs[(i + 1) \div 2][2], pairs[(i + 1) \div 2][1]>>]
  BY DEF Dup!Expanded
<1>3. both = [i \in DOMAIN pairs |-> [pair |-> pairs[i], forward |-> raw[2 * i - 1], backward |-> raw[2 * i]]]
  BY DEF Dup!Grouped
<1> HIDE DEF expanded, raw, L
<1>4. PICK m \in Nat : m = 2 * L
  BY <1>1
<1>5. expanded \in Seq(Range(expanded)) /\ Len(expanded) = m
  <2>1. DOMAIN expanded = 1 .. m
    BY <1>2, <1>4
  <2>2. expanded = [i \in 1 .. m |-> expanded[i]] /\ \A i \in 1 .. m : expanded[i] \in Range(expanded)
    BY <1>2, <2>1 DEF Range
  <2>3. QED
    BY <2>2
<1>6. raw = [i \in 1 .. m |-> Dup!Result(expanded[i], verdict, order)]
  <2>1. BatchSize \in Nat \ {0}
    BY DEF Dup!ConstantsOK
  <2>2. raw = [i \in 1 .. Len(expanded) |-> Dup!Result(expanded[i], verdict, order)]
    BY <1>5, <2>1, ClassifiedInOrder DEF raw
  <2>3. QED
    BY <1>5, <2>2
<1>7. ASSUME NEW i \in 1 .. L
      PROVE  /\ raw[2 * i - 1] = Dup!Result(pairs[i], verdict, order)
             /\ raw[2 * i] = Dup!Result(<<pairs[i][2], pairs[i][1]>>, verdict, order)
  <2>1. /\ 2 * i - 1 \in 1 .. m /\ 2 * i \in 1 .. m
        /\ (2 * i - 1) % 2 = 1 /\ (2 * i - 1 + 1) \div 2 = i
        /\ (2 * i) % 2 # 1 /\ (2 * i + 1) \div 2 = i
    BY <1>1, <1>4
  <2>2. expanded[2 * i - 1] = pairs[i] /\ expanded[2 * i] = <<pairs[i][2], pairs[i][1]>>
    BY <1>2, <1>4, <2>1
  <2>3. QED
    BY <1>6, <2>1, <2>2
<1>8. ASSUME NEW i \in 1 .. L
      PROVE  /\ both[i].pair = pairs[i]
             /\ Dup!BothEntailment(both[i]) <=>
                   /\ verdict[pairs[i]] = "entailment"
                   /\ verdict[<<pairs[i][2], pairs[i][1]>>] = "entailment"
  <2>1. /\ both[i].pair = pairs[i]
        /\ both[i].forward = Dup!Result(pairs[i], verdict, order)
        /\ both[i].backward = Dup!Result(<<pairs[i][2], pairs[i][1]>>, verdict, order)
    BY <1>1, <1>3, <1>7
  <2>2. /\ Dup!Result(pairs[i], verdict, order).label = verdict[pairs[i]]
        /\ Dup!Result(<<pairs[i][2], pairs[i][1]>>, verdict, order).label
             = verdict[<<pairs[i][2], pairs[i][1]>>]
    BY <1>1, ResultIsVerdict
  <2>3. QED
    BY <2>1, <2>2 DEF Dup!BothEntailment
<1>9. DOMAIN both = 1 .. L /\ both = [i \in 1 .. L |-> both[i]]
  BY <1>1, <1>3
<1>10. both \in Seq(Range(both))
  <2>1. \A i \in 1 .. L : both[i] \in Range(both)
    BY <1>9 DEF Range
  <2>2. both \in [1 .. L -> Range(both)]
    BY <1>9, <2>1
  <2>3. \A n \in Nat : \A S : \A f \in [1 .. n -> S] : f \in Seq(S)
    OBVIOUS
  <2>4. QED
    BY <1>1, <2>2, <2>3, Zenon
<1>11. QED
  BY <1>1, <1>8, <1>9, <1>10

LEMMA TwoPoints ==
  ASSUME Dup!ConstantsOK, NEW s
  PROVE  s \in Dup!kSubset(2, Dup!Range(Points)) <=>
           \E p, q \in Range(Points) : p # q /\ s = {p, q}
<1>1. ASSUME NEW p, NEW q, p # q
      PROVE  Cardinality({p, q}) = 2
  <2>1. IsFiniteSet({p}) /\ Cardinality({p}) = 1
    BY FS_Singleton
  <2>2. Cardinality({p} \union {q}) = 2
    BY <1>1, <2>1, FS_AddElement
  <2>3. {p, q} = {p} \union {q}
    OBVIOUS
  <2>4. QED
    BY <2>2, <2>3
<1>2. ASSUME s \in SUBSET Range(Points), Cardinality(s) = 2
      PROVE  \E p, q \in Range(Points) : p # q /\ s = {p, q}
  <2>1. IsFiniteSet(s)
    <3>1. IsFiniteSet(Range(Points))
      BY PointsFinite
    <3>2. QED
      BY <1>2, <3>1, FS_Subset
  <2>2. s # {}
    BY <1>2, <2>1, FS_EmptySet
  <2>3. PICK p \in s : TRUE
    BY <2>2
  <2>4. IsFiniteSet(s \ {p}) /\ Cardinality(s \ {p}) = 1
    BY <1>2, <2>1, <2>3, FS_RemoveElement
  <2>5. PICK q : s \ {p} = {q}
    BY <2>4, FS_Singleton
  <2>6. s = {p, q} /\ p # q
    BY <2>3, <2>5
  <2>7. QED
    BY <1>2, <2>6
<1>3. s \in Dup!kSubset(2, Dup!Range(Points)) <=> s \in SUBSET Range(Points) /\ Cardinality(s) = 2
  BY DEF Dup!kSubset, Dup!Range, Range, Dup!Cardinality, Cardinality
<1>4. QED
  BY <1>1, <1>2, <1>3

\* A pair and its reverse have one key, and no other pair has it.
LEMMA Keys ==
  ASSUME NEW S, NEW c \in S \X S, NEW d \in S \X S
  PROVE  /\ Dup!Key(c) = {c[1], c[2]} /\ Dup!Range(c) = {c[1], c[2]}
         /\ Dup!Key(c) = Dup!Key(d) <=> c = d \/ (c[1] = d[2] /\ c[2] = d[1])
<1>1. /\ c = <<c[1], c[2]>> /\ d = <<d[1], d[2]>>
      /\ DOMAIN c = 1 .. 2
  OBVIOUS
<1>2. Dup!Key(c) = {c[1], c[2]} /\ Dup!Key(d) = {d[1], d[2]}
  BY DEF Dup!Key
<1>3. Dup!Range(c) = {c[1], c[2]}
  BY <1>1 DEF Dup!Range, Range
<1>4. {c[1], c[2]} = {d[1], d[2]} <=>
        (c[1] = d[1] /\ c[2] = d[2]) \/ (c[1] = d[2] /\ c[2] = d[1])
  OBVIOUS
<1>5. QED
  BY <1>1, <1>2, <1>3, <1>4

\* The pairs of points that the model may be asked about, each in both orders.
Ordered == {c \in Range(Points) \X Range(Points) : c[1] # c[2]}

\* The places of the results that entail in both directions.
Entailed(both) == {i \in DOMAIN both : Dup!BothEntailment(both[i])}

\* Of each near pair that entails both ways one result is printed, and no other.
PrintsExactly(printed, sim, near, verdict) ==
  /\ \A r \in Range(printed) :
       /\ r.pair \in NearPairs(sim, near)
       /\ verdict[r.pair] = "entailment"
       /\ verdict[<<r.pair[2], r.pair[1]>>] = "entailment"
  /\ \A c \in NearPairs(sim, near) :
       /\ verdict[c] = "entailment" /\ verdict[<<c[2], c[1]>>] = "entailment"
       => \E r \in Range(printed) : Dup!Key(r.pair) = Dup!Key(c)
  /\ \A i, j \in DOMAIN printed :
       Dup!Key(printed[i].pair) = Dup!Key(printed[j].pair) => i = j

LEMMA Printed ==
  ASSUME Dup!ConstantsOK, NEW sim, NEW near,
         \A p \in Range(Points) : near[p] \in Seq(Range(Points)),
         NEW pairs, pairs = Dup!Candidates(sim, near),
         NEW verdict \in [Ordered -> Verdicts],
         NEW order \in Orders,
         NEW both,
         both = Dup!Grouped(pairs, Dup!ClassifyBatch(Dup!Expanded(pairs), verdict, order)),
         NEW printed,
         printed = Dup!At(both, Entailed(both))
  PROVE  PrintsExactly(printed, sim, near, verdict)
<1> DEFINE R == Range(Points)
           places == Entailed(both)
<1>1. PICK all : all = Dup!FlattenSeq([n \in DOMAIN Points |-> Dup!NearDuplicates(sim, near, Points[n])])
  OBVIOUS
<1>2. all \in Seq(R \X R) /\ Range(all) = NearPairs(sim, near)
  BY <1>1, AllFound
<1>3. pairs = Dup!Deduplicated(all)
  BY <1>1 DEF Dup!Candidates
<1>4. /\ pairs \in Seq(R \X R)
      /\ Range(pairs) \subseteq NearPairs(sim, near)
      /\ \A c \in NearPairs(sim, near) : \E d \in Range(pairs) : Dup!Key(d) = Dup!Key(c)
      /\ \A i, j \in DOMAIN pairs : Dup!Key(pairs[i]) = Dup!Key(pairs[j]) => i = j
  BY <1>2, <1>3, OneOfEach
<1>5. ASSUME NEW c \in NearPairs(sim, near)
      PROVE  /\ c \in R \X R /\ c = <<c[1], c[2]>> /\ c[1] # c[2]
             /\ verdict[c] \in Range(Dup!Labels)
             /\ verdict[<<c[2], c[1]>>] \in Range(Dup!Labels)
  <2>1. c \in R \X R /\ c[1] # c[2] /\ c = <<c[1], c[2]>>
    BY DEF NearPairs
  <2>2. {c, <<c[2], c[1]>>} \subseteq {x \in R \X R : x[1] # x[2]}
    BY <2>1
  <2>3. Verdicts \subseteq Range(Dup!Labels)
    BY DEF Dup!ConstantsOK, Dup!Range, Range
  <2>4. QED
    BY <2>1, <2>2, <2>3 DEF Ordered
<1>6. \A i \in DOMAIN pairs :
        /\ pairs[i] \in NearPairs(sim, near)
        /\ verdict[pairs[i]] \in Range(Dup!Labels)
        /\ verdict[<<pairs[i][2], pairs[i][1]>>] \in Range(Dup!Labels)
  BY <1>4, <1>5 DEF Range
<1>7. Range(order) = Range(Dup!Labels)
  BY DEF Dup!ConstantsOK, Dup!Range, Range
<1>8. /\ DOMAIN both = DOMAIN pairs
      /\ both \in Seq(Range(both))
      /\ \A i \in DOMAIN pairs :
           /\ both[i].pair = pairs[i]
           /\ Dup!BothEntailment(both[i]) <=>
                /\ verdict[pairs[i]] = "entailment"
                /\ verdict[<<pairs[i][2], pairs[i][1]>>] = "entailment"
  <2>1. \A i \in DOMAIN pairs :
          /\ verdict[pairs[i]] \in Range(Dup!Labels)
          /\ verdict[<<pairs[i][2], pairs[i][1]>>] \in Range(Dup!Labels)
    BY <1>6
  <2>2. pairs \in Seq(R \X R)
    BY <1>4
  <2>3. QED
    BY <1>7, <2>1, <2>2, BothDirections
<1>9. /\ Range(printed) = {both[i] : i \in places}
      /\ \A i, j \in DOMAIN printed : i # j =>
           \E p, q \in places : (p < q \/ q < p) /\ printed[i] = both[p] /\ printed[j] = both[q]
  <2>1. places \subseteq DOMAIN both /\ printed = Dup!At(both, places)
    BY DEF Entailed
  <2> HIDE DEF places
  <2>2. PICK S : S = Range(both)
    OBVIOUS
  <2>3. both \in Seq(S)
    BY <1>8, <2>2
  <2>4. Chosen(printed, both, places)
    BY <2>1, <2>3, PickedList
  <2>5. QED
    BY <2>4 DEF Chosen
<1>10. places = {i \in DOMAIN pairs : /\ verdict[pairs[i]] = "entailment"
                                      /\ verdict[<<pairs[i][2], pairs[i][1]>>] = "entailment"}
  BY <1>8 DEF Entailed
<1> HIDE DEF places
<1>11. ASSUME NEW r \in Range(printed)
       PROVE  /\ r.pair \in NearPairs(sim, near)
              /\ verdict[r.pair] = "entailment"
              /\ verdict[<<r.pair[2], r.pair[1]>>] = "entailment"
  <2>1. PICK i \in places : r = both[i]
    BY <1>9
  <2>2. r.pair = pairs[i] /\ i \in DOMAIN pairs
    BY <1>8, <1>10, <2>1
  <2>3. QED
    BY <1>6, <1>10, <2>1, <2>2
<1>12. ASSUME NEW c \in NearPairs(sim, near),
              verdict[c] = "entailment", verdict[<<c[2], c[1]>>] = "entailment"
       PROVE  \E r \in Range(printed) : Dup!Key(r.pair) = Dup!Key(c)
  <2>1. PICK d \in Range(pairs) : Dup!Key(d) = Dup!Key(c)
    BY <1>4
  <2>2. d \in NearPairs(sim, near)
    BY <1>4, <2>1
  <2>3. d \in R \X R /\ d = <<d[1], d[2]>> /\ c \in R \X R /\ c = <<c[1], c[2]>>
    BY <1>5, <2>2
  <2>4. d = c \/ (d[1] = c[2] /\ d[2] = c[1])
    BY <2>1, <2>3, Keys
  <2>5. d = c \/ (d = <<c[2], c[1]>> /\ <<d[2], d[1]>> = c)
    BY <2>3, <2>4
  <2>6. verdict[d] = "entailment" /\ verdict[<<d[2], d[1]>>] = "entailment"
    BY <1>12, <2>5
  <2>7. PICK i \in DOMAIN pairs : pairs[i] = d
    BY DEF Range
  <2>8. i \in places /\ both[i].pair = d
    BY <1>8, <1>10, <2>6, <2>7
  <2>9. QED
    BY <1>9, <2>1, <2>8
<1>13. ASSUME NEW i \in DOMAIN printed, NEW j \in DOMAIN printed, i # j,
              Dup!Key(printed[i].pair) = Dup!Key(printed[j].pair)
       PROVE  FALSE
  <2>1. PICK p \in places, q \in places :
          (p < q \/ q < p) /\ printed[i] = both[p] /\ printed[j] = both[q]
    BY <1>9, <1>13
  <2>2. /\ p \in DOMAIN pairs /\ q \in DOMAIN pairs /\ p # q
        /\ printed[i].pair = pairs[p] /\ printed[j].pair = pairs[q]
    <3>1. p \in DOMAIN pairs /\ q \in DOMAIN pairs
      BY <1>10
    <3>2. p \in Int /\ q \in Int
      BY <1>4, <3>1
    <3>3. p # q
      BY <2>1, <3>2
    <3>4. QED
      BY <1>8, <2>1, <3>1, <3>3
  <2>3. QED
    BY <1>4, <1>13, <2>2
<1>14. QED
  BY <1>11, <1>12, <1>13 DEF PrintsExactly

LEMMA DetectStep ==
  ASSUME Dup!ConstantsOK, Dup!Detect
  PROVE  Dup!DuplicatesExact' /\ Dup!PairsOnce' /\ result'.job = "duplicates"
<1> DEFINE R == Range(Points)
           DR == Dup!Range(Points)
           DetectOrdered == {c \in DR \X DR : c[1] # c[2]}
           Nearests(sim) ==
             {n \in [DR -> UNION {Dup!Nearest(sim, p) : p \in DR}] :
                \A p \in DR : n[p] \in Dup!Nearest(sim, p)}
           Result(sim, near, verdict, both) ==
             [job |-> "duplicates", sim |-> sim, near |-> near, verdict |-> verdict,
              printed |-> Dup!At(both, {i \in DOMAIN both : Dup!BothEntailment(both[i])})]
           Both(pairs, verdict, order) ==
             Dup!Grouped(pairs, Dup!ClassifyBatch(Dup!Expanded(pairs), verdict, order))
<1>0. \A f : Dup!Range(f) = Range(f)
  BY DEF Dup!Range, Range
<1>1. PICK sim \in [Dup!kSubset(2, DR) -> Levels] : \E near \in Nearests(sim) :
        \E pairs \in {Dup!Candidates(sim, near)}, order \in Orders, verdict \in [DetectOrdered -> Verdicts] :
        \E raw \in {Dup!ClassifyBatch(Dup!Expanded(pairs), verdict, order)} :
          result' = Result(sim, near, verdict, Dup!Grouped(pairs, raw))
  BY Zenon DEF Dup!Detect
<1>2. PICK near \in Nearests(sim) :
        \E pairs \in {Dup!Candidates(sim, near)}, order \in Orders, verdict \in [DetectOrdered -> Verdicts] :
        \E raw \in {Dup!ClassifyBatch(Dup!Expanded(pairs), verdict, order)} :
          result' = Result(sim, near, verdict, Dup!Grouped(pairs, raw))
  BY <1>1
<1> HIDE DEF Result
<1>3. PICK order \in Orders, verdict \in [DetectOrdered -> Verdicts] :
        result' = Result(sim, near, verdict, Both(Dup!Candidates(sim, near), verdict, order))
  BY <1>2
<1>4. PICK pairs : pairs = Dup!Candidates(sim, near)
  OBVIOUS
<1>5. PICK both : both = Both(pairs, verdict, order)
  OBVIOUS
<1>6. PICK printed : printed = Dup!At(both, Entailed(both))
  OBVIOUS
<1>7. result' = [job |-> "duplicates", sim |-> sim, near |-> near, verdict |-> verdict,
                 printed |-> printed]
  BY <1>3, <1>4, <1>5, <1>6 DEF Result, Entailed
<1>8. \A p \in R : near[p] \in Seq(R)
  <2>1. \A p \in R : near[p] \in Dup!Nearest(sim, p)
    BY <1>0
  <2>2. QED
    BY <2>1, NearestList
<1>9. PrintsExactly(printed, sim, near, verdict)
  <2>1. verdict \in [Ordered -> Verdicts]
    BY <1>0 DEF Ordered
  <2>2. both = Dup!Grouped(pairs, Dup!ClassifyBatch(Dup!Expanded(pairs), verdict, order))
    BY <1>5
  <2> HIDE DEF Nearests, DetectOrdered
  <2>3. QED
    BY <1>4, <1>6, <1>8, <2>1, <2>2, Printed
<1>10. \A c \in NearPairs(sim, near) :
         /\ c \in R \X R /\ c = <<c[1], c[2]>> /\ c[1] # c[2]
         /\ Dup!Key(c) = {c[1], c[2]} /\ Dup!Range(c) = {c[1], c[2]}
  BY Keys DEF NearPairs
<1> DEFINE exact ==
             {s \in Dup!kSubset(2, Dup!Range(Points)) :
                /\ sim[s] >= Threshold
                /\ \E p \in s : s \subseteq Dup!Range(near[p]) \union {p}
                /\ \A p, q \in s : p # q => verdict[<<p, q>>] = "entailment"}
<1>11. ASSUME NEW r \in Range(printed)
       PROVE  Dup!Key(r.pair) \in exact
  <2>1. PICK c \in NearPairs(sim, near) : c = r.pair
    BY <1>9 DEF PrintsExactly
  <2>2. /\ c[1] \in R /\ c[2] \in R /\ c = <<c[1], c[2]>> /\ c[1] # c[2]
        /\ Dup!Key(r.pair) = {c[1], c[2]}
    BY <1>10, <2>1
  <2>3. c[2] \in Range(near[c[1]]) /\ sim[{c[1], c[2]}] >= Threshold
    BY DEF NearPairs
  <2>4. verdict[<<c[1], c[2]>>] = "entailment" /\ verdict[<<c[2], c[1]>>] = "entailment"
    BY <1>9, <2>1, <2>2 DEF PrintsExactly
  <2>5. {c[1], c[2]} \in Dup!kSubset(2, Dup!Range(Points))
    BY <2>2, TwoPoints
  <2>6. QED
    BY <1>0, <2>2, <2>3, <2>4, <2>5
<1>12. ASSUME NEW s \in exact
       PROVE  \E r \in Range(printed) : Dup!Key(r.pair) = s
  <2>1. PICK x \in R, y \in R : x # y /\ s = {x, y}
    BY TwoPoints
  <2>2. PICK p \in s : s \subseteq Range(near[p]) \union {p}
    BY <1>0
  <2>3. PICK q \in s : q # p /\ s = {p, q}
    BY <2>1, <2>2
  <2>4. <<p, q>> \in NearPairs(sim, near)
    BY <2>1, <2>2, <2>3 DEF NearPairs
  <2>5. verdict[<<p, q>>] = "entailment" /\ verdict[<<q, p>>] = "entailment"
    BY <2>3
  <2>6. PICK c \in NearPairs(sim, near) : c = <<p, q>>
    BY <2>4
  <2>7. verdict[c] = "entailment" /\ verdict[<<c[2], c[1]>>] = "entailment"
    BY <2>5, <2>6
  <2>8. PICK r \in Range(printed) : Dup!Key(r.pair) = Dup!Key(c)
    BY <1>9, <2>7 DEF PrintsExactly
  <2>9. Dup!Key(c) = s
    BY <1>10, <2>3, <2>6
  <2>10. QED
    BY <2>8, <2>9
<1>13. {Dup!Key(r.pair) : r \in Dup!Range(printed)} = exact
  <2> HIDE DEF exact
  <2>1. QED
    BY <1>0, <1>11, <1>12
<1>14. ASSUME NEW i \in DOMAIN printed, NEW j \in DOMAIN printed,
              Dup!Range(printed[i].pair) = Dup!Range(printed[j].pair)
       PROVE  i = j
  <2>1. printed[i] \in Range(printed) /\ printed[j] \in Range(printed)
    BY DEF Range
  <2>2. printed[i].pair \in NearPairs(sim, near) /\ printed[j].pair \in NearPairs(sim, near)
    BY <1>9, <2>1 DEF PrintsExactly
  <2>3. Dup!Key(printed[i].pair) = Dup!Key(printed[j].pair)
    BY <1>10, <1>14, <2>2
  <2>4. QED
    BY <1>9, <2>3 DEF PrintsExactly
<1>15. /\ result'.sim = sim /\ result'.near = near /\ result'.verdict = verdict
       /\ result'.printed = printed /\ result'.job = "duplicates"
  BY <1>7
<1>16. Dup!DuplicatesExact'
  <2>1. exact = {s \in Dup!kSubset(2, Dup!Range(Points)) :
                   /\ result'.sim[s] >= Threshold
                   /\ \E p \in s : s \subseteq Dup!Range(result'.near[p]) \union {p}
                   /\ \A p, q \in s : p # q => result'.verdict[<<p, q>>] = "entailment"}
    BY <1>15
  <2> HIDE DEF exact
  <2>2. {Dup!Key(r.pair) : r \in Dup!Range(result'.printed)} = exact
    BY <1>13, <1>15
  <2>3. QED
    BY <2>1, <2>2 DEF Dup!DuplicatesExact
<1>17. Dup!PairsOnce'
  BY <1>14, <1>15 DEF Dup!PairsOnce
<1>18. QED
  BY <1>15, <1>16, <1>17

\* What is kept while a detection is the program that runs.
Detecting == job = "detect" => Dup!DuplicatesExact /\ Dup!PairsOnce /\ Dup!ConceptsScored

LEMMA DetectingKept == Spec => []Detecting
<1>1. Init => Detecting
  BY DEF Init, Dup!Init, Detecting, Dup!DuplicatesExact, Dup!PairsOnce, Dup!ConceptsScored
<1>2. Detecting /\ [Next]_vars => Detecting'
  <2> SUFFICES ASSUME Detecting, [Next]_vars, job' = "detect"
               PROVE  Dup!DuplicatesExact' /\ Dup!PairsOnce' /\ Dup!ConceptsScored'
    BY DEF Detecting
  <2>1. job = "detect" /\ (Dup!Next \/ UNCHANGED result)
    BY DEF Next, vars, ImportStep, MigrationStep, DiffStep, DetectionStep, ScanStep, detecting
  <2>2. CASE Dup!Detect
    BY <2>2, ConstantsOK, DetectStep DEF Dup!ConceptsScored
  <2>3. CASE Dup!DetectConcept
    <3>1. Dup!ConceptsScored' /\ result'.job = "concept"
      BY <2>3, ConstantsOK, ConceptStep
    <3>2. QED
      BY <3>1 DEF Dup!DuplicatesExact, Dup!PairsOnce
  <2>4. CASE UNCHANGED result
    BY <2>1, <2>4 DEF Detecting, Dup!DuplicatesExact, Dup!PairsOnce, Dup!ConceptsScored
  <2>5. QED
    BY <2>1, <2>2, <2>3, <2>4 DEF Dup!Next
<1>3. QED
  BY <1>1, <1>2, PTL DEF Spec

\* A detection prints the near pairs whose texts entail each other and no other
\* pair, whatever the neighbours, the size of a batch and the order of the
\* labels (DuplicateDetection.detect, classify_bidirectional_batch).
THEOREM DetectionIsExact == Spec => []DuplicatesExact
<1>1. Detecting => DuplicatesExact
  BY DEF Detecting, DuplicatesExact
<1>2. QED
  BY <1>1, DetectingKept, PTL

\* It prints no pair twice, in either order (_deduplicate_candidates).
THEOREM PairsReportedOnce == Spec => []PairsOnce
<1>1. Detecting => PairsOnce
  BY DEF Detecting, PairsOnce
<1>2. QED
  BY <1>1, DetectingKept, PTL

\* A text keeps its own score through batching (classify_batch).
THEOREM ConceptsAreScored == Spec => []ConceptsScored
<1>1. Detecting => ConceptsScored
  BY DEF Detecting, ConceptsScored
<1>2. QED
  BY <1>1, DetectingKept, PTL
=============================================================================
