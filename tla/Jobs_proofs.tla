---------------------------- MODULE Jobs_proofs ----------------------------
(***************************************************************************)
(* Proofs about three programs of Jobs, for all values of its constants:   *)
(* the import of a video, the index diff and the scanner; and the          *)
(* induction over numbers that these and the other proofs about Jobs use.  *)
(***************************************************************************)
EXTENDS Jobs, SequencesExt, FiniteSetTheorems, FunctionTheorems, SequenceTheorems,
        WellFoundedInduction, TLAPS

\* A set of numbers has a least one.
LEMMA LeastNumber ==
  ASSUME NEW S, S \subseteq Nat, S # {}
  PROVE  \E m \in S : \A i \in S : m <= i
<1>1. \A i, j \in Nat : i < j => <<i, j>> \in OpToRel(<, Nat)
  <2> SUFFICES ASSUME NEW i \in Nat, NEW j \in Nat, i < j
               PROVE  <<i, j>> \in {p \in Nat \X Nat : p[1] < p[2]}
    BY Zenon DEF OpToRel
  <2>1. QED
    OBVIOUS
<1>2. PICK R : IsWellFoundedOn(R, Nat) /\ \A i, j \in Nat : i < j => <<i, j>> \in R
  BY <1>1, NatLessThanWellFounded, Zenon
<1>3. PICK m \in S : \A i \in S : ~(<<i, m>> \in R)
  BY <1>2, WFMin
<1>4. ASSUME NEW i \in S
      PROVE  m <= i
  <2>1. i \in Nat /\ m \in Nat
    OBVIOUS
  <2>2. ~(i < m)
    BY <1>2, <1>3, <2>1
  <2>3. QED
    BY <2>1, <2>2
<1>5. QED
  BY <1>4

\* Induction up to a number, for a set.
LEMMA Stepwise ==
  ASSUME NEW N \in Nat, NEW Good,
         \A n \in 1 .. N : n = 1 \/ n - 1 \in Good => n \in Good
  PROVE  1 .. N \subseteq Good
<1> SUFFICES ASSUME (1 .. N) \ Good # {}
             PROVE  FALSE
  OBVIOUS
<1>1. (1 .. N) \ Good \subseteq Nat
  OBVIOUS
<1>2. PICK n \in (1 .. N) \ Good : \A i \in (1 .. N) \ Good : n <= i
  BY <1>1, LeastNumber
<1>3. n # 1 => n - 1 \in 1 .. N /\ ~(n <= n - 1)
  OBVIOUS
<1>4. QED
  BY <1>2, <1>3

\* The same from 0.
LEMMA Induced ==
  ASSUME NEW N \in Nat, NEW Good, 0 \in Good,
         \A n \in 1 .. N : n - 1 \in Good => n \in Good
  PROVE  0 .. N \subseteq Good
<1>1. \A n \in 1 .. N : n = 1 \/ n - 1 \in Good => n \in Good
  OBVIOUS
<1>2. 1 .. N \subseteq Good
  BY <1>1, Stepwise
<1>3. QED
  BY <1>2

-----------------------------------------------------------------------------
(* The import.  A list of chapters is accepted only if no two begin at one *)
(* time; then key and chapter of a position are the same, and the key of a *)
(* subtitle is the chapter that was the last to begin.                     *)

LEMMA UpToIsFinite ==
  ASSUME NEW n \in Nat
  PROVE  IsFiniteSet(1 .. n) /\ Cardinality(1 .. n) = n
<1>1. Cardinality(1 .. n) = IF 1 > n THEN 0 ELSE n - 1 + 1
  BY FS_Interval
<1>2. QED
  BY <1>1, FS_Interval

\* The number of places before one.
LEMMA PlacesBefore ==
  ASSUME NEW n \in Nat, NEW i \in 1 .. n
  PROVE  Cardinality({j \in 1 .. n : j < i}) = i - 1
<1>1. {j \in 1 .. n : j < i} = 1 .. i - 1
  OBVIOUS
<1>2. i - 1 \in Nat
  OBVIOUS
<1>3. Cardinality(1 .. i - 1) = i - 1
  BY <1>2, UpToIsFinite
<1>4. QED
  BY <1>1, <1>3

\* zip pairs every chapter with its own key, if there are as many.
LEMMA KeysOfAccepted ==
  ASSUME NEW starts \in Seq(Int), Len(Imp!Keys(starts)) = Len(starts)
  PROVE  /\ Imp!Keys(starts) = [i \in DOMAIN starts |-> starts[i]]
         /\ \A i, j \in DOMAIN starts : starts[i] = starts[j] => i = j
<1> DEFINE first == {i \in DOMAIN starts :
                       \A j \in DOMAIN starts : j < i => starts[j] # starts[i]}
           n == Len(starts)
<1>1. n \in Nat /\ DOMAIN starts = 1 .. n
  OBVIOUS
<1>2. /\ IsFiniteSet(1 .. n) /\ Cardinality(1 .. n) = n
  BY <1>1, UpToIsFinite
<1>3. /\ first \in SUBSET (1 .. n)
      /\ IsFiniteSet(first)
      /\ Cardinality(first) \in Nat
  BY <1>1, <1>2, FS_Subset, FS_CardinalityType
<1>4. Imp!Keys(starts) = [m \in 1 .. Cardinality(first) |->
         starts[CHOOSE i \in first : Cardinality({j \in first : j < i}) = m - 1]]
  BY DEF Imp!Keys, Imp!Cardinality, Cardinality
<1> HIDE DEF first
<1>5. Cardinality(first) = n
  BY <1>3, <1>4
<1>6. first = 1 .. n
  BY <1>2, <1>3, <1>5, FS_Subset
<1>9. \A i, j \in 1 .. n : j < i => starts[j] # starts[i]
  BY <1>1, <1>6 DEF first
<1>7. ASSUME NEW m \in 1 .. n
      PROVE  (CHOOSE i \in first : Cardinality({j \in first : j < i}) = m - 1) = m
  <2>1. \A i \in first : Cardinality({j \in first : j < i}) = i - 1
    BY <1>1, <1>6, PlacesBefore
  <2>2. \A i \in first : Cardinality({j \in first : j < i}) = m - 1 <=> i = m
    BY <1>1, <1>6, <2>1
  <2>3. m \in first
    BY <1>6
  <2>4. QED
    BY <2>2, <2>3
<1>8. Imp!Keys(starts) = [i \in DOMAIN starts |-> starts[i]]
  BY <1>1, <1>4, <1>5, <1>7
<1>10. \A i, j \in DOMAIN starts : starts[i] = starts[j] => i = j
  BY <1>1, <1>9
<1>11. QED
  BY <1>8, <1>10

\* A subtitle has one key at most.
LEMMA OneKey ==
  ASSUME NEW starts \in Seq(Int), NEW t, NEW x \in Imp!KeyOf(t, starts), NEW y \in Imp!KeyOf(t, starts)
  PROVE  x = y
<1>1. DOMAIN starts \subseteq Int
  OBVIOUS
<1> DEFINE begun == {i \in DOMAIN starts : starts[i] <= t}
<1>2. PICK i \in begun : x = starts[i] /\ \A k \in begun : k <= i
  BY DEF Imp!KeyOf
<1>3. PICK j \in begun : y = starts[j] /\ \A k \in begun : k <= j
  BY DEF Imp!KeyOf
<1>4. i = j
  BY <1>1, <1>2, <1>3
<1>5. QED
  BY <1>2, <1>3, <1>4

\* Of chapters in order, the one that was the last to begin.
LEMMA KeyOfOrdered ==
  ASSUME NEW starts \in Seq(Int), Imp!Increasing(starts), NEW t \in Int, NEW i \in DOMAIN starts
  PROVE  starts[i] \in Imp!KeyOf(t, starts) <=>
           starts[i] <= t /\ (i < Len(starts) => t < starts[i + 1])
<1> DEFINE begun == {j \in DOMAIN starts : starts[j] <= t}
           last == {j \in begun : \A k \in begun : k <= j}
<1>1. /\ Len(starts) \in Nat /\ DOMAIN starts = 1 .. Len(starts)
      /\ \A j \in DOMAIN starts : starts[j] \in Int
  OBVIOUS
<1>2. \A j, k \in DOMAIN starts : starts[j] = starts[k] => j = k
  BY <1>1 DEF Imp!Increasing
<1>3. starts[i] \in Imp!KeyOf(t, starts) <=> i \in last
  <2>1. starts[i] \in Imp!KeyOf(t, starts) <=> \E j \in last : starts[i] = starts[j]
    BY DEF Imp!KeyOf
  <2>2. QED
    BY <1>2, <2>1
<1>4. ASSUME i \in last
      PROVE  starts[i] <= t /\ (i < Len(starts) => t < starts[i + 1])
  <2>1. starts[i] <= t
    BY <1>4
  <2>2. ASSUME i < Len(starts)
        PROVE  t < starts[i + 1]
    <3>1. i + 1 \in DOMAIN starts /\ ~(i + 1 <= i)
      BY <1>1, <2>2
    <3>2. i + 1 \notin begun
      BY <1>4, <3>1
    <3>3. QED
      BY <1>1, <3>1, <3>2
  <2>3. QED
    BY <2>1, <2>2
<1>5. ASSUME starts[i] <= t, i < Len(starts) => t < starts[i + 1]
      PROVE  i \in last
  <2>1. ASSUME NEW k \in begun, ~(k <= i)
        PROVE  FALSE
    <3>1. k \in DOMAIN starts /\ starts[k] <= t /\ i < Len(starts) /\ i + 1 \in DOMAIN starts
      BY <1>1, <2>1
    <3>2. k = i + 1 \/ i + 1 < k
      BY <1>1, <2>1, <3>1
    <3>3. starts[i + 1] <= starts[k]
      BY <1>1, <3>1, <3>2 DEF Imp!Increasing
    <3>4. QED
      BY <1>1, <1>5, <3>1, <3>3
  <2>2. QED
    BY <1>5, <2>1
<1>6. QED
  BY <1>3, <1>4, <1>5

-----------------------------------------------------------------------------

\* What an import that goes through leaves in the table.
Cut(starts, subs) ==
  /\ starts \in Seq(Int)
  /\ \A i, j \in DOMAIN starts : starts[i] = starts[j] => i = j
  /\ DOMAIN sections' = DOMAIN sections \union DOMAIN starts
  /\ \A i \in DOMAIN sections : sections'[i] = sections[i]
  /\ \A i \in DOMAIN starts \ DOMAIN sections :
       sections'[i] = [cut |-> starts,
                       text |-> {t \in subs : starts[i] \in Imp!KeyOf(t, starts)}]

LEMMA ImportCuts ==
  ASSUME Imp!ConstantsOK, Imp!ImportVideo
  PROVE  \E starts \in Descriptions, subs \in {Transcript, {}} : Cut(starts, subs)
<1>1. PICK starts \in Descriptions, subs \in Imp!Fetched :
        /\ Imp!Accepted(Imp!Segmented(starts, subs), starts)
        /\ sections' = Imp!Saved(Imp!Segmented(starts, subs), starts)
  BY DEF Imp!ImportVideo
<1> DEFINE text == Imp!Segmented(starts, subs)
           keys == Imp!Keys(starts)
<1>2. starts \in Seq(Int) /\ subs \in {Transcript, {}}
  BY DEF Imp!ConstantsOK, Imp!Fetched
<1>3. text = [i \in DOMAIN keys |-> {t \in subs : keys[i] \in Imp!KeyOf(t, starts)}]
  BY DEF Imp!Segmented
<1>4. Len(text) = Len(starts)
  BY <1>1 DEF Imp!Accepted
<1>5. Len(keys) = Len(starts)
  <2> DEFINE m == Cardinality({i \in DOMAIN starts :
                     \A j \in DOMAIN starts : j < i => starts[j] # starts[i]})
  <2>1. DOMAIN keys = 1 .. m
    BY DEF Imp!Keys, Imp!Cardinality, Cardinality
  <2>2. DOMAIN text = 1 .. m
    BY <1>3, <2>1
  <2>3. m \in Nat
    <3>1. IsFiniteSet(DOMAIN starts)
      BY <1>2, FS_Interval
    <3>2. QED
      BY <3>1, FS_Subset, FS_CardinalityType
  <2> HIDE DEF m, keys, text
  <2>4. Len(keys) = m /\ Len(text) = m
    BY <2>1, <2>2, <2>3
  <2>5. QED
    BY <1>4, <2>4
<1>6. /\ keys = [i \in DOMAIN starts |-> starts[i]]
      /\ \A i, j \in DOMAIN starts : starts[i] = starts[j] => i = j
  BY <1>2, <1>5, KeysOfAccepted
<1>7. /\ DOMAIN text = DOMAIN starts
      /\ \A i \in DOMAIN starts : text[i] = {t \in subs : starts[i] \in Imp!KeyOf(t, starts)}
  BY <1>3, <1>6
<1> HIDE DEF text, keys
<1>8. /\ DOMAIN sections' = DOMAIN sections \union DOMAIN starts
      /\ \A i \in DOMAIN sections : sections'[i] = sections[i]
      /\ \A i \in DOMAIN starts \ DOMAIN sections :
           sections'[i] = [cut |-> starts, text |-> text[i]]
  <2>1. sections' = Imp!Saved(text, starts)
    BY <1>1 DEF text
  <2>2. QED
    BY <1>7, <2>1 DEF Imp!Saved
<1>9. Cut(starts, subs)
  BY <1>2, <1>6, <1>7, <1>8 DEF Cut
<1>10. QED
  BY <1>2, <1>9

LEMMA SectionsStep ==
  Imp!ConstantsOK /\ Imp!SectionsHoldTheirTime /\ [Imp!ImportVideo]_sections => Imp!SectionsHoldTheirTime'
<1> SUFFICES ASSUME Imp!ConstantsOK, Imp!SectionsHoldTheirTime, [Imp!ImportVideo]_sections
             PROVE  Imp!SectionsHoldTheirTime'
  OBVIOUS
<1>1. CASE UNCHANGED sections
  BY <1>1 DEF Imp!SectionsHoldTheirTime
<1>2. CASE Imp!ImportVideo
  <2>1. PICK starts \in Descriptions, subs \in {Transcript, {}} : Cut(starts, subs)
    BY <1>2, ImportCuts
  <2>2. starts \in Seq(Int) /\ subs \subseteq Int
    BY <2>1 DEF Imp!ConstantsOK, Cut
  <2> DEFINE text(i) == {t \in subs : starts[i] \in Imp!KeyOf(t, starts)}
  <2>3. ASSUME NEW i \in DOMAIN starts, Imp!Increasing(starts)
        PROVE  text(i) \in {{}, {t \in Transcript :
                                   starts[i] <= t /\ (i < Len(starts) => t < starts[i + 1])}}
    <3>1. text(i) = {t \in subs : starts[i] <= t /\ (i < Len(starts) => t < starts[i + 1])}
      BY <2>2, <2>3, KeyOfOrdered
    <3>2. QED
      BY <3>1
  <2>4. /\ DOMAIN sections' = DOMAIN sections \union DOMAIN starts
        /\ \A i \in DOMAIN sections : sections'[i] = sections[i]
        /\ \A i \in DOMAIN starts \ DOMAIN sections :
             sections'[i] = [cut |-> starts, text |-> text(i)]
    BY <2>1 DEF Cut
  <2> HIDE DEF text
  <2>5. QED
    BY <2>3, <2>4 DEF Imp!SectionsHoldTheirTime
<1>3. QED
  BY <1>1, <1>2

\* The positions in the table are those from one on, without a gap: a chapter
\* list that has a row there has all of them, so that it adds none again.
WholeInv ==
  /\ \E n \in Nat : DOMAIN sections = 1 .. n
  /\ \A i \in DOMAIN sections : sections[i].cut \in Seq(Int)
  /\ Imp!EditsStoredWhole

LEMMA WholeStep ==
  Imp!ConstantsOK /\ WholeInv /\ [Imp!ImportVideo]_sections => WholeInv'
<1> SUFFICES ASSUME Imp!ConstantsOK, WholeInv, [Imp!ImportVideo]_sections
             PROVE  WholeInv'
  OBVIOUS
<1>1. CASE UNCHANGED sections
  BY <1>1 DEF WholeInv, Imp!EditsStoredWhole
<1>2. CASE Imp!ImportVideo
  <2>1. PICK starts \in Descriptions, subs \in {Transcript, {}} : Cut(starts, subs)
    BY <1>2, ImportCuts
  <2>2. PICK n \in Nat : DOMAIN sections = 1 .. n
    BY DEF WholeInv
  <2> DEFINE m == Len(starts)
             told == [i \in DOMAIN starts |-> {t \in subs : starts[i] \in Imp!KeyOf(t, starts)}]
  <2>3. /\ m \in Nat /\ DOMAIN starts = 1 .. m /\ starts \in Seq(Int)
        /\ \A i, j \in 1 .. m : starts[i] = starts[j] => i = j
    BY <2>1 DEF Cut
  <2>4. /\ DOMAIN sections' = 1 .. n \union 1 .. m
        /\ \A i \in 1 .. n : sections'[i] = sections[i]
        /\ \A i \in (1 .. m) \ (1 .. n) : sections'[i].cut = starts /\ sections'[i].text = told[i]
    <3>1. /\ DOMAIN sections' = DOMAIN sections \union DOMAIN starts
          /\ \A i \in DOMAIN sections : sections'[i] = sections[i]
      BY <2>1 DEF Cut
    <3>2. ASSUME NEW i \in DOMAIN starts \ DOMAIN sections
          PROVE  sections'[i].cut = starts /\ sections'[i].text = told[i]
      <4>1. sections'[i] = [cut |-> starts,
                            text |-> {t \in subs : starts[i] \in Imp!KeyOf(t, starts)}]
        BY <2>1 DEF Cut
      <4>2. QED
        BY <4>1
    <3> HIDE DEF told, m
    <3>3. QED
      BY <2>2, <2>3, <3>1, <3>2
  <2>5. \A i \in 1 .. n :
          /\ sections[i].cut \in Seq(Int)
          /\ i \in DOMAIN sections[i].cut
          /\ \A j \in DOMAIN sections[i].cut : i < j => j \in 1 .. n /\ sections[j].cut = sections[i].cut
          /\ \A j \in 1 .. n : j # i /\ sections[j].cut = sections[i].cut =>
               sections[i].text \intersect sections[j].text = {}
    BY <2>2 DEF WholeInv, Imp!EditsStoredWhole
  <2>6. ASSUME NEW i \in 1 .. n, sections[i].cut = starts
        PROVE  m <= n
    <3>1. i \in 1 .. m /\ \A j \in 1 .. m : i < j => j \in 1 .. n
      BY <2>3, <2>5, <2>6
    <3> HIDE DEF m
    <3>2. i <= m /\ m \in 1 .. m
      BY <2>3, <3>1
    <3>3. CASE i < m
      BY <2>3, <3>1, <3>2, <3>3
    <3>4. CASE i = m
      BY <3>4
    <3>5. QED
      BY <2>3, <3>2, <3>3, <3>4
  <2>7. ASSUME NEW i \in 1 .. m, NEW j \in 1 .. m, i # j
        PROVE  told[i] \intersect told[j] = {}
    <3>1. starts[i] # starts[j]
      BY <2>3, <2>7
    <3>2. ASSUME NEW t \in told[i] \intersect told[j]
          PROVE  FALSE
      <4>1. starts[i] \in Imp!KeyOf(t, starts) /\ starts[j] \in Imp!KeyOf(t, starts)
        BY <2>3, <3>2
      <4>2. QED
        BY <2>3, <3>1, <4>1, OneKey
    <3>3. QED
      BY <3>2
  <2> HIDE DEF m, told
  <2>8. \E k \in Nat : DOMAIN sections' = 1 .. k
    <3>1. CASE m <= n
      BY <2>3, <2>4, <3>1
    <3>2. CASE n < m
      BY <2>3, <2>4, <3>2
    <3>3. QED
      BY <2>3, <3>1, <3>2
  <2>9. \A i \in DOMAIN sections' : sections'[i].cut \in Seq(Int)
    BY <2>3, <2>4, <2>5
  <2>10. ASSUME NEW i \in DOMAIN sections'
         PROVE  LET cut == sections'[i].cut
                    rest == {j \in DOMAIN sections' : j # i /\ sections'[j].cut = cut}
                IN  /\ i \in DOMAIN cut
                    /\ {j \in DOMAIN cut : j > i} \subseteq rest
                    /\ \A j \in rest : sections'[i].text \intersect sections'[j].text = {}
    <3>1. CASE i \in 1 .. n
      <4> DEFINE cut == sections[i].cut
      <4>1. sections'[i] = sections[i]
        BY <2>4, <3>1
      <4>2. i \in DOMAIN cut
        BY <2>5, <3>1
      <4>3. ASSUME NEW j \in DOMAIN cut, j > i
            PROVE  j \in DOMAIN sections' /\ j # i /\ sections'[j].cut = cut
        <5>1. cut \in Seq(Int) /\ j \in Nat /\ i \in Nat
          BY <2>5, <3>1
        <5>2. j \in 1 .. n /\ sections[j].cut = cut
          BY <2>5, <3>1, <4>3, <5>1
        <5>3. QED
          BY <2>4, <4>3, <5>1, <5>2
      <4>4. ASSUME NEW j \in DOMAIN sections', j # i, sections'[j].cut = cut
            PROVE  sections[i].text \intersect sections'[j].text = {}
        <5>1. j \in 1 .. n
          <6>1. CASE j \in (1 .. m) \ (1 .. n)
            <7>1. cut = starts
              BY <2>4, <4>4, <6>1
            <7>2. m <= n
              BY <2>6, <3>1, <7>1
            <7>3. QED
              BY <2>3, <6>1, <7>2
          <6>2. QED
            BY <2>4, <6>1
        <5>2. QED
          BY <2>4, <2>5, <3>1, <4>4, <5>1
      <4>5. QED
        BY <4>1, <4>2, <4>3, <4>4
    <3>2. CASE i \in (1 .. m) \ (1 .. n)
      <4>1. sections'[i].cut = starts /\ sections'[i].text = told[i] /\ ~(m <= n)
        BY <2>3, <2>4, <3>2
      <4>2. i \in DOMAIN starts
        BY <2>3, <3>2
      <4>3. ASSUME NEW j \in DOMAIN starts, j > i
            PROVE  j \in DOMAIN sections' /\ j # i /\ sections'[j].cut = starts
        <5>1. j \in (1 .. m) \ (1 .. n)
          BY <2>3, <3>2, <4>3
        <5>2. QED
          BY <2>3, <2>4, <3>2, <4>3, <5>1
      <4>4. ASSUME NEW j \in DOMAIN sections', j # i, sections'[j].cut = starts
            PROVE  told[i] \intersect sections'[j].text = {}
        <5>1. j \in (1 .. m) \ (1 .. n)
          <6>1. CASE j \in 1 .. n
            <7>1. sections[j].cut = starts
              BY <2>4, <4>4, <6>1
            <7>2. QED
              BY <2>6, <4>1, <6>1, <7>1
          <6>2. QED
            BY <2>4, <6>1
        <5>2. QED
          BY <2>4, <2>7, <3>2, <4>4, <5>1
      <4>5. QED
        BY <4>1, <4>2, <4>3, <4>4
    <3>3. QED
      BY <2>4, <3>1, <3>2
  <2>11. Imp!EditsStoredWhole'
    BY <2>10 DEF Imp!EditsStoredWhole
  <2>12. QED
    BY <2>8, <2>9, <2>11 DEF WholeInv
<1>3. QED
  BY <1>1, <1>2

LEMMA ImportSteps == [Next]_vars => [Imp!ImportVideo]_sections
BY DEF Next, vars, ImportStep, MigrationStep, DiffStep, DetectionStep, ScanStep, importing

\* Whatever chapters are edited and transcripts refused between imports, a
\* section of chapters in order has the subtitles of its time, or none.
THEOREM SectionsAreCutInTime == Spec => []SectionsHoldTheirTime
<1>1. Init => Imp!SectionsHoldTheirTime
  BY DEF Init, Imp!Init, Imp!SectionsHoldTheirTime
<1>2. Imp!SectionsHoldTheirTime /\ [Next]_vars => Imp!SectionsHoldTheirTime'
  BY ConstantsOK, ImportSteps, SectionsStep
<1>3. Imp!SectionsHoldTheirTime => SectionsHoldTheirTime
  BY DEF SectionsHoldTheirTime
<1>4. QED
  BY <1>1, <1>2, <1>3, PTL DEF Spec

\* The rows of one edit are a tail of its chapters without a gap, and no
\* subtitle is under two of them, whatever edits and refused transcripts the
\* imports meet in whatever order.
THEOREM EditsAreWhole == Spec => []EditsStoredWhole
<1>1. Init => WholeInv
  BY DEF Init, Imp!Init, WholeInv, Imp!EditsStoredWhole
<1>2. WholeInv /\ [Next]_vars => WholeInv'
  BY ConstantsOK, ImportSteps, WholeStep
<1>3. WholeInv => EditsStoredWhole
  BY DEF WholeInv, EditsStoredWhole
<1>4. QED
  BY <1>1, <1>2, <1>3, PTL DEF Spec

-----------------------------------------------------------------------------
(* The index diff.  What an index held when the comparison began has been  *)
(* fetched from it, or is still ahead of the reader; what was fetched is   *)
(* there.                                                                  *)

DiffType ==
  /\ es \subseteq Id /\ qdr \subseteq Id
  /\ offset \in Id \union {0, Diff!None}
  /\ hits \in [opened : BOOLEAN, left : SUBSET Id]
  /\ seen \in [es : SUBSET Id, qdr : SUBSET Id]
  /\ start \in [es : SUBSET Id, qdr : SUBSET Id]
  /\ report \subseteq [qdr : SUBSET Id, es : SUBSET Id]

DiffInv ==
  /\ start.es \subseteq es /\ start.qdr \subseteq qdr
  /\ seen.es \union hits.left \subseteq es /\ seen.qdr \subseteq qdr
  /\ \A i \in start.qdr \ seen.qdr : offset # Diff!None /\ offset <= i
  /\ hits.opened => start.es \subseteq seen.es \union hits.left
  /\ Diff!DiffBracketed

LEMMA MinIsLeast ==
  ASSUME NEW S, S \subseteq Nat, S # {}
  PROVE  Min(S) \in S /\ \A i \in S : Min(S) <= i
BY LeastNumber DEF Min

LEMMA DiffTypeInit == Diff!ConstantsOK /\ Diff!Init => DiffType
BY DEF Diff!ConstantsOK, Diff!Init, DiffType

LEMMA PagesOf ==
  ASSUME Diff!ConstantsOK, NEW S, S \subseteq Id
  PROVE  /\ Diff!PageOf(S) \subseteq S
         /\ Diff!NextOffset(S) \in Id \union {Diff!None}
         /\ \A i \in S \ Diff!PageOf(S) : Diff!NextOffset(S) # Diff!None /\ Diff!NextOffset(S) <= i
<1>1. Diff!PageOf(S) \subseteq S
  BY DEF Diff!PageOf
<1>2. CASE S \ Diff!PageOf(S) = {}
  BY <1>1, <1>2 DEF Diff!NextOffset
<1>3. CASE S \ Diff!PageOf(S) # {}
  <2>1. S \ Diff!PageOf(S) \subseteq Nat /\ S \ Diff!PageOf(S) \subseteq Id
    BY DEF Diff!ConstantsOK
  <2>2. /\ Min(S \ Diff!PageOf(S)) \in S \ Diff!PageOf(S)
        /\ \A i \in S \ Diff!PageOf(S) : Min(S \ Diff!PageOf(S)) <= i
    BY <1>3, <2>1, MinIsLeast
  <2>3. Diff!NextOffset(S) = Min(S \ Diff!PageOf(S))
    BY <1>3 DEF Diff!NextOffset, Diff!Min, Min
  <2>4. Diff!NextOffset(S) # Diff!None
    BY <2>2, <2>3 DEF Diff!ConstantsOK, Diff!None
  <2>5. QED
    BY <1>1, <2>1, <2>2, <2>3, <2>4
<1>4. QED
  BY <1>2, <1>3

LEMMA DiffTypeStep == Diff!ConstantsOK /\ DiffType /\ [Diff!Next]_Diff!vars => DiffType'
<1> SUFFICES ASSUME Diff!ConstantsOK, DiffType, [Diff!Next]_Diff!vars
             PROVE  DiffType'
  OBVIOUS
<1>1. ASSUME NEW i \in Id, Diff!WriteEs(i) \/ Diff!WriteQdr(i)
      PROVE  DiffType'
  BY <1>1 DEF Diff!WriteEs, Diff!WriteQdr, DiffType
<1>2. CASE Diff!QdrantPage
  <2> DEFINE ahead == {i \in qdr : i >= offset}
  <2>1. Diff!PageOf(ahead) \subseteq Id /\ Diff!NextOffset(ahead) \in Id \union {Diff!None}
    BY PagesOf DEF DiffType
  <2>2. QED
    BY <1>2, <2>1 DEF Diff!QdrantPage, DiffType
<1>3. CASE Diff!EsPage
  <2>1. Diff!PageOf(hits.left) \subseteq Id
    BY PagesOf DEF DiffType
  <2>2. QED
    BY <1>3, <2>1 DEF Diff!EsPage, DiffType
<1>4. CASE Diff!Report
  <2>1. [qdr |-> seen.qdr \ seen.es, es |-> seen.es \ seen.qdr]
          \in [qdr : SUBSET Id, es : SUBSET Id]
    BY DEF DiffType
  <2>2. QED
    BY <1>4, <2>1 DEF Diff!Report, DiffType
<1>5. CASE Diff!OpenScroll
  BY <1>5 DEF Diff!OpenScroll, DiffType
<1>6. CASE UNCHANGED Diff!vars
  BY <1>6 DEF Diff!vars, DiffType
<1>7. QED
  BY <1>1, <1>2, <1>3, <1>4, <1>5, <1>6 DEF Diff!Next

LEMMA DiffInvInit == Diff!ConstantsOK /\ Diff!Init => DiffInv
BY DEF Diff!ConstantsOK, Diff!Init, DiffInv, Diff!DiffBracketed, Diff!None

LEMMA DiffInvStep == Diff!ConstantsOK /\ DiffType /\ DiffInv /\ [Diff!Next]_Diff!vars => DiffInv'
<1> SUFFICES ASSUME Diff!ConstantsOK, DiffType, DiffInv, [Diff!Next]_Diff!vars
             PROVE  DiffInv'
  OBVIOUS
<1>1. ASSUME NEW i \in Id, Diff!WriteEs(i)
      PROVE  DiffInv'
  BY <1>1 DEF Diff!WriteEs, DiffInv, Diff!DiffBracketed
<1>2. ASSUME NEW i \in Id, Diff!WriteQdr(i)
      PROVE  DiffInv'
  BY <1>2 DEF Diff!WriteQdr, DiffInv, Diff!DiffBracketed
<1>3. CASE Diff!QdrantPage
  <2> DEFINE ahead == {i \in qdr : i >= offset}
  <2>1. /\ Diff!PageOf(ahead) \subseteq ahead
        /\ \A i \in ahead \ Diff!PageOf(ahead) : Diff!NextOffset(ahead) # Diff!None /\ Diff!NextOffset(ahead) <= i
    BY PagesOf DEF DiffType
  <2>2. /\ seen' = [seen EXCEPT !.qdr = @ \union Diff!PageOf(ahead)]
        /\ offset' = Diff!NextOffset(ahead)
        /\ UNCHANGED <<es, qdr, hits, start, report>>
    BY <1>3 DEF Diff!QdrantPage
  <2>3. seen'.es = seen.es /\ seen'.qdr = seen.qdr \union Diff!PageOf(ahead)
    BY <2>2 DEF DiffType
  <2>4. \A i \in start.qdr \ seen.qdr : i \in ahead
    BY DEF DiffInv, DiffType, Diff!ConstantsOK, Diff!None
  <2> HIDE DEF ahead
  <2>5. \A i \in start'.qdr \ seen'.qdr : offset' # Diff!None /\ offset' <= i
    BY <2>1, <2>2, <2>3, <2>4
  <2>6. seen'.qdr \subseteq qdr'
    BY <2>1, <2>2, <2>3 DEF DiffInv, ahead
  <2>7. QED
    BY <2>2, <2>3, <2>5, <2>6 DEF DiffInv, Diff!DiffBracketed
<1>4. CASE Diff!OpenScroll
  BY <1>4 DEF Diff!OpenScroll, DiffInv, Diff!DiffBracketed
<1>5. CASE Diff!EsPage
  <2>1. Diff!PageOf(hits.left) \subseteq hits.left
    BY DEF Diff!PageOf
  <2>2. /\ seen'.es = seen.es \union Diff!PageOf(hits.left) /\ seen'.qdr = seen.qdr
        /\ hits'.left = hits.left \ Diff!PageOf(hits.left) /\ hits'.opened = hits.opened
        /\ UNCHANGED <<es, qdr, offset, start, report>>
    BY <1>5 DEF Diff!EsPage, DiffType
  <2>3. QED
    BY <2>1, <2>2 DEF DiffInv, Diff!DiffBracketed
<1>6. CASE Diff!Report
  <2>1. /\ offset = Diff!None /\ hits.opened /\ hits.left = {}
        /\ report' = {[qdr |-> seen.qdr \ seen.es, es |-> seen.es \ seen.qdr]}
        /\ UNCHANGED <<es, qdr, offset, hits, seen, start>>
    BY <1>6 DEF Diff!Report
  <2>2. start.qdr \subseteq seen.qdr /\ start.es \subseteq seen.es
    BY <2>1 DEF DiffInv
  <2>3. Diff!DiffBracketed'
    BY <2>1, <2>2 DEF DiffInv, Diff!DiffBracketed
  <2>4. QED
    BY <2>1, <2>3 DEF DiffInv
<1>7. CASE UNCHANGED Diff!vars
  BY <1>7 DEF Diff!vars, DiffInv, Diff!DiffBracketed
<1>8. QED
  BY <1>1, <1>2, <1>3, <1>4, <1>5, <1>6, <1>7 DEF Diff!Next

\* What is kept while the comparison is the program that runs.
Comparing == job = "compare" => DiffType /\ DiffInv

\* Whatever is written while the two indexes are paged through, the diff has
\* every id that stayed in one of them only, and none that the other one had
\* when it began.
THEOREM DiffIsBracketed == Spec => []DiffBracketed
<1>1. Init => Comparing
  BY ConstantsOK, DiffTypeInit, DiffInvInit DEF Init, Comparing
<1>2. Comparing /\ [Next]_vars => Comparing'
  <2>1. [Next]_vars => [Diff!Next]_Diff!vars /\ job' = job
    BY DEF Next, vars, ImportStep, MigrationStep, DiffStep, DetectionStep, ScanStep,
           comparing, Diff!vars
  <2>2. QED
    BY <2>1, ConstantsOK, DiffTypeStep, DiffInvStep DEF Comparing
<1>3. Comparing => DiffBracketed
  BY DEF Comparing, DiffInv, DiffBracketed
<1>4. QED
  BY <1>1, <1>2, <1>3, PTL DEF Spec

-----------------------------------------------------------------------------
(* The scanner.  The queue's count of unfinished puts is what lies in it   *)
(* and in the hands of workers, and whatever was found is there, inserted  *)
(* or refused; a join that returns has therefore left nothing behind.      *)

Busy == {w \in Worker : hand[w] # <<>>}
Held == UNION {Range(hand[w]) : w \in Worker}
Found == UNION {page[p].found : p \in {q \in Page : page[q].at = "read"}}

ScanType ==
  /\ page \in [Page -> [at : {"asked"}, tries : 0 .. MaxTries]
                         \union [at : {"read"}, found : SUBSET Recipe] \union [at : {"lost"}]]
  /\ queue \in Seq(Recipe)
  /\ unfinished \in Int
  /\ hand \in [Worker -> {<<>>} \union {<<u>> : u \in Recipe}]
  /\ pending \subseteq Recipe /\ refused \subseteq Recipe
  /\ main \in {"fetch", "join", "done"}

ScanInv ==
  /\ unfinished = Len(queue) + Cardinality(Busy)
  /\ Found = Range(queue) \union Held \union pending \union refused
  /\ main # "fetch" => \A p \in Page : page[p].at \in {"read", "lost"}
  /\ main = "done" => queue = <<>> /\ Busy = {}
LEMMA SublistType ==
  ASSUME NEW S, NEW s \in Seq(S), NEW list \in Scan!Sublists(s)
  PROVE  list \in Seq(S)
<1>1. PICK n \in 0 .. Len(s) : \E a \in [1 .. n -> DOMAIN s] :
        list = [i \in DOMAIN a |-> s[a[i]]]
  BY DEF Scan!Sublists
<1>2. PICK a \in [1 .. n -> DOMAIN s] : list = [i \in DOMAIN a |-> s[a[i]]]
  BY <1>1
<1>3. n \in Nat /\ \A i \in 1 .. n : s[a[i]] \in S
  BY LenProperties
<1>4. QED
  BY <1>2, <1>3

LEMMA RangeOfHead ==
  ASSUME NEW S, NEW s \in Seq(S), s # <<>>
  PROVE  Range(s) = {Head(s)} \union Range(Tail(s))
<1>1. /\ Tail(s) \in Seq(S) /\ Len(Tail(s)) = Len(s) - 1 /\ Len(s) \in Nat \ {0}
      /\ \A i \in 1 .. Len(Tail(s)) : Tail(s)[i] = s[i + 1]
      /\ Head(s) = s[1]
  BY HeadTailProperties, EmptySeq
<1>2. /\ Range(s) = {s[i] : i \in 1 .. Len(s)}
      /\ Range(Tail(s)) = {Tail(s)[i] : i \in 1 .. Len(Tail(s))}
  BY <1>1, RangeEquality
<1>3. ASSUME NEW i \in 1 .. Len(s)
      PROVE  s[i] = Head(s) \/ \E j \in 1 .. Len(Tail(s)) : s[i] = Tail(s)[j]
  <2>1. CASE i = 1
    BY <1>1, <2>1
  <2>2. CASE i # 1
    <3>1. i - 1 \in 1 .. Len(Tail(s)) /\ (i - 1) + 1 = i
      BY <1>1, <2>2
    <3>2. QED
      BY <1>1, <3>1
  <2>3. QED
    BY <2>1, <2>2
<1>4. 1 \in 1 .. Len(s) /\ \A j \in 1 .. Len(Tail(s)) : j + 1 \in 1 .. Len(s)
  BY <1>1
<1>5. QED
  BY <1>1, <1>2, <1>3, <1>4

LEMMA RangeOfOne == ASSUME NEW u PROVE Range(<<u>>) = {u}
<1>1. DOMAIN <<u>> = {1} /\ <<u>>[1] = u
  OBVIOUS
<1>2. QED
  BY <1>1 DEF Range

LEMMA ScanTypeInit == Scan!ConstantsOK /\ Scan!Init => ScanType
BY DEF Scan!ConstantsOK, Scan!Init, ScanType

LEMMA ScanTypeStep == Scan!ConstantsOK /\ ScanType /\ [Scan!Next]_Scan!vars => ScanType'
<1> SUFFICES ASSUME Scan!ConstantsOK, ScanType, [Scan!Next]_Scan!vars
             PROVE  ScanType'
  OBVIOUS
<1>1. ASSUME NEW p \in Page, Scan!Fetched(p)
      PROVE  ScanType'
  <2>1. PICK list \in Scan!Sublists(Links[p]) :
          /\ queue' = queue \o list
          /\ unfinished' = unfinished + Len(list)
          /\ page' = [page EXCEPT ![p] = [at |-> "read", found |-> Range(list)]]
    BY <1>1 DEF Scan!Fetched, Scan!Range, Range
  <2>2. list \in Seq(Recipe)
    BY SublistType DEF Scan!ConstantsOK
  <2>3. Range(list) \subseteq Recipe /\ Len(list) \in Nat
    BY <2>2, RangeOfSeq, LenProperties
  <2>4. queue' \in Seq(Recipe)
    BY <2>1, <2>2, ConcatProperties DEF ScanType
  <2>5. QED
    BY <1>1, <2>1, <2>3, <2>4 DEF Scan!Fetched, ScanType
<1>2. ASSUME NEW p \in Page, Scan!RequestFails(p)
      PROVE  ScanType'
  <2>1. page[p] \in [at : {"asked"}, tries : 0 .. MaxTries]
    BY <1>2 DEF Scan!RequestFails, ScanType
  <2>2. page[p].tries + 1 < MaxTries =>
          [page[p] EXCEPT !.tries = @ + 1] \in [at : {"asked"}, tries : 0 .. MaxTries]
    BY <2>1 DEF Scan!ConstantsOK
  <2>3. QED
    BY <1>2, <2>2 DEF Scan!RequestFails, ScanType
<1>3. ASSUME NEW w \in Worker, Scan!Take(w)
      PROVE  ScanType'
  <2>1. Head(queue) \in Recipe /\ Tail(queue) \in Seq(Recipe)
    BY <1>3, HeadTailProperties DEF Scan!Take, ScanType
  <2>2. QED
    BY <1>3, <2>1 DEF Scan!Take, ScanType
<1>4. ASSUME NEW w \in Worker, Scan!Insert(w) \/ Scan!InsertFails(w)
      PROVE  ScanType'
  <2>1. Range(hand[w]) \subseteq Recipe
    BY <1>4, RangeOfOne DEF Scan!Insert, Scan!InsertFails, ScanType
  <2>2. QED
    BY <1>4, <2>1 DEF Scan!Insert, Scan!InsertFails, ScanType, Scan!Range, Range
<1>5. CASE Scan!AllFetched \/ Scan!Joined \/ UNCHANGED Scan!vars
  BY <1>5 DEF Scan!AllFetched, Scan!Joined, Scan!vars, ScanType
<1>6. QED
  BY <1>1, <1>2, <1>3, <1>4, <1>5 DEF Scan!Next

-----------------------------------------------------------------------------

LEMMA BusyIsCounted ==
  ASSUME Scan!ConstantsOK
  PROVE  IsFiniteSet(Busy) /\ Cardinality(Busy) \in Nat
<1>1. IsFiniteSet(Busy)
  <2>1. IsFiniteSet(Worker)
    BY DEF Scan!ConstantsOK, Scan!IsFiniteSet, IsFiniteSet
  <2>2. QED
    BY <2>1, FS_Subset DEF Busy
<1>2. QED
  BY <1>1, FS_CardinalityType

LEMMA ScanInvInit == Scan!ConstantsOK /\ Scan!Init => ScanInv
<1> SUFFICES ASSUME Scan!ConstantsOK, Scan!Init
             PROVE  ScanInv
  OBVIOUS
<1>1. Busy = {} /\ Held = {} /\ Found = {}
  BY DEF Scan!Init, Busy, Held, Found, Range
<1>2. Len(queue) = 0 /\ Range(queue) = {} /\ Cardinality(Busy) = 0
  BY <1>1, FS_EmptySet DEF Scan!Init, Range
<1>3. QED
  BY <1>1, <1>2 DEF Scan!Init, ScanInv

LEMMA ScanInvStep == Scan!ConstantsOK /\ ScanType /\ ScanInv /\ [Scan!Next]_Scan!vars => ScanInv'
<1> SUFFICES ASSUME Scan!ConstantsOK, ScanType, ScanInv, [Scan!Next]_Scan!vars
             PROVE  ScanInv'
  OBVIOUS
<1>0. Len(queue) \in Nat /\ IsFiniteSet(Busy) /\ Cardinality(Busy) \in Nat
  BY BusyIsCounted, LenProperties DEF ScanType
<1>1. ASSUME NEW p \in Page, Scan!Fetched(p)
      PROVE  ScanInv'
  <2>1. PICK list \in Scan!Sublists(Links[p]) :
          /\ queue' = queue \o list
          /\ unfinished' = unfinished + Len(list)
          /\ page' = [page EXCEPT ![p] = [at |-> "read", found |-> Range(list)]]
    BY <1>1 DEF Scan!Fetched, Scan!Range, Range
  <2>2. list \in Seq(Recipe) /\ queue \in Seq(Recipe)
    BY SublistType DEF Scan!ConstantsOK, ScanType
  <2>3. /\ Len(queue') = Len(queue) + Len(list) /\ Len(list) \in Nat
        /\ Range(queue') = Range(queue) \union Range(list)
    BY <2>1, <2>2, ConcatProperties, LenProperties, RangeConcatenation
  <2>4. page[p].at = "asked" /\ UNCHANGED <<hand, pending, refused, main>>
    BY <1>1 DEF Scan!Fetched
  <2>5. Busy' = Busy /\ Held' = Held
    BY <2>4 DEF Busy, Held
  <2>6. Found' = Found \union Range(list)
    BY <2>1, <2>4 DEF Found, ScanType
  <2>7. main' = "fetch"
    BY <2>4 DEF ScanInv, ScanType
  <2>8. QED
    BY <1>0, <2>1, <2>3, <2>4, <2>5, <2>6, <2>7 DEF ScanInv
<1>2. ASSUME NEW p \in Page, Scan!RequestFails(p)
      PROVE  ScanInv'
  <2>1. /\ page[p].at = "asked"
        /\ page'[p].at # "read"
        /\ \A q \in Page \ {p} : page'[q] = page[q]
        /\ UNCHANGED <<queue, unfinished, hand, pending, refused, main>>
    BY <1>2 DEF Scan!RequestFails, ScanType
  <2>2. Found' = Found
    BY <2>1 DEF Found
  <2>3. Busy' = Busy /\ Held' = Held
    BY <2>1 DEF Busy, Held
  <2>4. main = "fetch"
    BY <2>1 DEF ScanInv, ScanType
  <2>5. QED
    BY <2>1, <2>2, <2>3, <2>4 DEF ScanInv
<1>3. ASSUME NEW w \in Worker, Scan!Take(w)
      PROVE  ScanInv'
  <2>1. /\ main # "done" /\ hand[w] = <<>> /\ queue # <<>>
        /\ hand' = [hand EXCEPT ![w] = <<Head(queue)>>]
        /\ queue' = Tail(queue)
        /\ UNCHANGED <<page, unfinished, pending, refused, main>>
    BY <1>3 DEF Scan!Take
  <2>2. Len(queue') = Len(queue) - 1
    BY <2>1, HeadTailProperties DEF ScanType
  <2>3. Range(queue) = {Head(queue)} \union Range(queue')
    BY <2>1, RangeOfHead DEF ScanType
  <2>4. Busy' = Busy \union {w} /\ w \notin Busy
    BY <2>1 DEF Busy, ScanType
  <2>5. Cardinality(Busy') = Cardinality(Busy) + 1
    BY <1>0, <2>4, FS_AddElement
  <2>6. Held' = Held \union {Head(queue)}
    <3>1. Range(hand'[w]) = {Head(queue)} /\ Range(hand[w]) = {}
      BY <2>1, RangeOfOne DEF ScanType, Range
    <3>2. \A v \in Worker \ {w} : hand'[v] = hand[v]
      BY <2>1 DEF ScanType
    <3>3. QED
      BY <3>1, <3>2 DEF Held
  <2>7. Found' = Found
    BY <2>1 DEF Found
  <2>8. QED
    BY <1>0, <2>1, <2>2, <2>3, <2>5, <2>6, <2>7 DEF ScanInv
<1>4. ASSUME NEW w \in Worker, Scan!Insert(w) \/ Scan!InsertFails(w)
      PROVE  ScanInv'
  <2>1. /\ main # "done" /\ hand[w] # <<>>
        /\ hand' = [hand EXCEPT ![w] = <<>>]
        /\ unfinished' = unfinished - 1
        /\ pending' \union refused' = pending \union refused \union Range(hand[w])
        /\ UNCHANGED <<page, queue, main>>
    BY <1>4 DEF Scan!Insert, Scan!InsertFails, Scan!Range, Range
  <2>2. Busy' = Busy \ {w} /\ w \in Busy
    BY <2>1 DEF Busy, ScanType
  <2>3. Cardinality(Busy') = Cardinality(Busy) - 1
    BY <1>0, <2>2, FS_RemoveElement
  <2>4. Held = Held' \union Range(hand[w])
    <3>1. Range(hand'[w]) = {}
      BY <2>1 DEF ScanType, Range
    <3>2. \A v \in Worker \ {w} : hand'[v] = hand[v]
      BY <2>1 DEF ScanType
    <3>3. QED
      BY <3>1, <3>2 DEF Held
  <2>5. Found' = Found
    BY <2>1 DEF Found
  <2>6. QED
    BY <1>0, <2>1, <2>3, <2>4, <2>5 DEF ScanInv
<1>5. CASE Scan!AllFetched
  <2>1. Busy' = Busy /\ Held' = Held /\ Found' = Found
    BY <1>5 DEF Scan!AllFetched, Busy, Held, Found
  <2>2. QED
    BY <1>5, <2>1 DEF Scan!AllFetched, ScanInv
<1>6. CASE Scan!Joined
  <2>1. Busy' = Busy /\ Held' = Held /\ Found' = Found
    BY <1>6 DEF Scan!Joined, Busy, Held, Found
  <2>2. Len(queue) = 0 /\ Cardinality(Busy) = 0
    BY <1>0, <1>6 DEF Scan!Joined, ScanInv
  <2>3. queue = <<>> /\ Busy = {}
    BY <1>0, <2>2, EmptySeq, FS_EmptySet DEF ScanType
  <2>4. QED
    BY <1>6, <2>1, <2>3 DEF Scan!Joined, ScanInv
<1>7. CASE UNCHANGED Scan!vars
  BY <1>7 DEF Scan!vars, ScanInv, Busy, Held, Found
<1>8. QED
  BY <1>1, <1>2, <1>3, <1>4, <1>5, <1>6, <1>7 DEF Scan!Next

\* What is kept while the scanner is the program that runs.
Scanning == job = "scan" => ScanType /\ ScanInv

\* The join of the scanner returns only when every recipe that was found has a
\* row or its insert was refused, however requests, puts and inserts overlap.
THEOREM ScanLeavesNothing == Spec => []ScanComplete
<1>1. Init => Scanning
  BY ConstantsOK, ScanTypeInit, ScanInvInit DEF Init, Scanning
<1>2. Scanning /\ [Next]_vars => Scanning'
  <2>1. [Next]_vars => [Scan!Next]_Scan!vars /\ job' = job
    BY DEF Next, vars, ImportStep, MigrationStep, DiffStep, DetectionStep, ScanStep,
           scanning, Scan!vars
  <2>2. QED
    BY <2>1, ConstantsOK, ScanTypeStep, ScanInvStep DEF Scanning
<1>3. ScanInv => Scan!ScanComplete
  <2> SUFFICES ASSUME ScanInv, main = "done"
               PROVE  Found = pending \union refused
    BY DEF Scan!ScanComplete, Found
  <2>1. queue = <<>> /\ Busy = {}
    BY DEF ScanInv
  <2>2. Range(queue) = {} /\ Held = {}
    BY <2>1 DEF Range, Busy, Held
  <2>3. QED
    BY <2>2 DEF ScanInv
<1>4. Scanning => ScanComplete
  BY <1>3 DEF Scanning, ScanComplete
<1>5. QED
  BY <1>1, <1>2, <1>4, PTL DEF Spec
=============================================================================
