----------------------------- MODULE Duplicates -----------------------------
(***************************************************************************)
(* Duplicate and concept detection: near neighbours among the points of an *)
(* index (app/services/duplicate_detection.py), and texts compared by a    *)
(* model of inference in batches (app/inference/nli).  A point stands for  *)
(* the text of its answer.  What the index and the model say is any        *)
(* choice.                                                                 *)
(***************************************************************************)
EXTENDS Integers, SequencesExt

Labels == <<"entailment", "neutral", "contradiction">>

CONSTANTS
  Points,      \* the points, in the order Qdrant gives them
  SectionTexts, \* the answers of a section, in order
  Concept,     \* texts of the golden set
  Levels,      \* similarities
  Threshold,   \* the similarity that makes a candidate (0.92)
  QueryLimit,  \* neighbours asked for, the point itself among them (10)
  BatchSize,   \* texts per call of the model (16)
  Verdicts,    \* what the model may say of a text and another
  Orders       \* orders of the labels the model may come with

ConstantsOK ==
  /\ Points \in Seq(Range(Points))
  /\ SectionTexts \in Seq(Range(SectionTexts))
  /\ BatchSize \in Nat \ {0}
  /\ Verdicts \subseteq Range(Labels)
  /\ \A o \in Orders : o \in Seq(Range(Labels)) /\ Range(o) = Range(Labels)

VARIABLE result   \* what the last detection was given, and what it printed

Init == result = [job |-> "none"]

\* The elements of a sequence at some of its places, in their order.
At(s, places) ==
  [n \in 1 .. Cardinality(places) |->
     s[CHOOSE i \in places : Cardinality({j \in places : j < i}) = n - 1]]

-----------------------------------------------------------------------------
(* The classifier.  verdict[<<p, h>>] is the label to which the model gives *)
(* the most; it comes as a vector in the model's own order of labels.      *)

Probabilities(pair, verdict, order) ==
  [i \in DOMAIN order |-> IF order[i] = verdict[pair] THEN 2 ELSE 1]

\* _build_label_mapping
LabelMapping(order) ==
  [l \in Range(Labels) |-> CHOOSE i \in DOMAIN order : order[i] = l]

\* _build_result and _argmax_label: the first of the labels with the most.
Result(pair, verdict, order) ==
  LET score == [l \in Range(Labels) |->
                  Probabilities(pair, verdict, order)[LabelMapping(order)[l]]]
      best == {i \in DOMAIN Labels : \A l \in Range(Labels) : score[l] <= score[Labels[i]]}
  IN  [label |-> Labels[Min(best)], entailment |-> score["entailment"]]

\* mutant: a batch takes one more text than the step to the next
LongBatches(s) ==
  [n \in 1 .. (Len(s) + BatchSize - 1) \div BatchSize |->
     SubSeq(s, (n - 1) * BatchSize + 1, Min({n * BatchSize + 1, Len(s)}))]

\* _batched
Batched(s) ==
  [n \in 1 .. (Len(s) + BatchSize - 1) \div BatchSize |->
     SubSeq(s, (n - 1) * BatchSize + 1, Min({n * BatchSize, Len(s)}))]

ClassifyBatch(pairs, verdict, order) ==
  LET batches == Batched(pairs)
  IN  FlattenSeq([n \in DOMAIN batches |->
        [i \in DOMAIN batches[n] |-> Result(batches[n][i], verdict, order)]])

\* classify_bidirectional_batch: each pair forward and backward.
Expanded(pairs) ==
  [i \in 1 .. 2 * Len(pairs) |->
     LET p == pairs[(i + 1) \div 2] IN IF i % 2 = 1 THEN p ELSE <<p[2], p[1]>>]

\* mutant: idx and idx + 1 for idx * 2 and idx * 2 + 1
GroupedAdjacent(pairs, raw) ==
  [i \in DOMAIN pairs |-> [pair |-> pairs[i], forward |-> raw[i], backward |-> raw[i + 1]]]

Grouped(pairs, raw) ==
  [i \in DOMAIN pairs |->
     [pair |-> pairs[i], forward |-> raw[2 * i - 1], backward |-> raw[2 * i]]]

BothEntailment(r) ==
  r.forward.label = "entailment" /\ r.backward.label = "entailment"

-----------------------------------------------------------------------------
(* Duplicates.                                                             *)

Similarity(sim, p, q) == IF p = q THEN Max(Levels) ELSE sim[{p, q}]

\* What query_points may answer: the nearest points, the nearest first.
Nearest(sim, p) ==
  {r \in UNION {SetToSeqs(s) : s \in kSubset(Min({QueryLimit, Len(Points)}), Range(Points))} :
     /\ \A i, j \in DOMAIN r : i < j => Similarity(sim, p, r[i]) >= Similarity(sim, p, r[j])
     /\ \A q \in Range(Points) \ Range(r) : \A i \in DOMAIN r :
          Similarity(sim, p, r[i]) >= Similarity(sim, p, q)}

\* find_near_duplicates
NearDuplicates(sim, near, p) ==
  LET found == [i \in DOMAIN near[p] |-> <<p, near[p][i]>>]
  IN  At(found, {i \in DOMAIN found : found[i][2] # p /\ Similarity(sim, p, found[i][2]) >= Threshold})

\* mutant: the ids of a key are not sorted
KeyAsFound(c) == c

\* pair_key
Key(c) == {c[1], c[2]}

\* _deduplicate_candidates.  Both times a pair is found it has one score, so
\* that the first stays.
Deduplicated(candidates) ==
  At(candidates, {i \in DOMAIN candidates :
                    \A j \in DOMAIN candidates : j < i => Key(candidates[j]) # Key(candidates[i])})

Candidates(sim, near) ==
  Deduplicated(FlattenSeq([n \in DOMAIN Points |-> NearDuplicates(sim, near, Points[n])]))

\* DuplicateDetection.detect: the pairs it prints.
Detect ==
  \E sim \in [kSubset(2, Range(Points)) -> Levels] :
  \E near \in {n \in [Range(Points) -> UNION {Nearest(sim, p) : p \in Range(Points)}] :
                 \A p \in Range(Points) : n[p] \in Nearest(sim, p)} :
  \E pairs \in {Candidates(sim, near)}, order \in Orders,
     verdict \in [{c \in Range(Points) \X Range(Points) : c[1] # c[2]} -> Verdicts] :
  \E raw \in {ClassifyBatch(Expanded(pairs), verdict, order)} :
    LET both == Grouped(pairs, raw)
    IN  result' = [job |-> "duplicates", sim |-> sim, near |-> near, verdict |-> verdict,
                   printed |-> At(both, {i \in DOMAIN both : BothEntailment(both[i])})]

\* ConceptDetectionStage, for the answers of one section and one concept: the
\* scores it prints.
DetectConcept ==
  \E n \in DOMAIN SectionTexts, c \in Concept, order \in Orders :
  \E verdict \in [{<<SectionTexts[i], c>> : i \in 1 .. n} -> Verdicts] :
    LET pairs == [i \in 1 .. n |-> <<SectionTexts[i], c>>]
        raw == ClassifyBatch(pairs, verdict, order)
    IN  result' = [job |-> "concept", pairs |-> pairs, verdict |-> verdict,
                   printed |-> [i \in DOMAIN raw |-> raw[i].entailment]]

\* A run of either program ends with its output.
Next == result.job = "none" /\ (Detect \/ DetectConcept)

Spec == Init /\ [][Next]_result

-----------------------------------------------------------------------------
(* Properties.                                                             *)

\* A pair is printed if one of its points finds the other near enough and the
\* model says that each entails the other; no other pair is.
DuplicatesExact ==
  result.job = "duplicates" =>
    {Key(r.pair) : r \in Range(result.printed)} =
      {s \in kSubset(2, Range(Points)) :
         /\ result.sim[s] >= Threshold
         /\ \E p \in s : s \subseteq Range(result.near[p]) \union {p}
         /\ \A p, q \in s : p # q => result.verdict[<<p, q>>] = "entailment"}

\* No pair is printed twice, though each of its points may find the other.
PairsOnce ==
  result.job = "duplicates" =>
    \A i, j \in DOMAIN result.printed :
      Range(result.printed[i].pair) = Range(result.printed[j].pair) => i = j

\* Every answer of a section gets its own score for a concept.
ConceptsScored ==
  result.job = "concept" =>
    /\ Len(result.printed) = Len(result.pairs)
    /\ \A i \in DOMAIN result.printed :
         result.printed[i] = 2 <=> result.verdict[result.pairs[i]] = "entailment"
=============================================================================
