----------------------------- MODULE Retrieval -----------------------------
(***************************************************************************)
(* Fusion of the two searches (app/retriever): rankings of chunk ids, best *)
(* first, from Elasticsearch and Qdrant, each without repetition.          *)
(***************************************************************************)
EXTENDS Integers, SequencesExt

\* The elements of a finite set, each behind those that R, a strict total
\* order of the set, puts before it.
InOrder(S, R) ==
  [n \in 1 .. Cardinality(S) |->
     CHOOSE x \in S : Cardinality({y \in S : <<y, x>> \in R}) = n - 1]

\* The rank of an id in a list; 0 is "not found".
RankIn(list, id) ==
  LET at == {n \in DOMAIN list : list[n] = id}
  IN  IF at = {} THEN 0 ELSE CHOOSE n \in at : TRUE

\* _dynamic_weight, in tenths.  Softmax of no score is no score, of one score
\* certainty; of more, the first may or may not reach a half.
Weights(trusted) ==
  IF trusted THEN [es |-> 10, qdr |-> 10] ELSE [es |-> 4, qdr |-> 6]

Trust(list) == IF Len(list) = 0 THEN {FALSE}
               ELSE IF Len(list) = 1 THEN {TRUE} ELSE BOOLEAN

k == 60

\* Scores are fractions: weight / (k + rank), rank counted from one, for an id
\* that was found.
Share(weight, list, id) ==
  [num |-> IF RankIn(list, id) = 0 THEN 0 ELSE weight, den |-> k + RankIn(list, id)]

Plus(x, y) == [num |-> x.num * y.den + y.num * x.den, den |-> x.den * y.den]
Exceeds(x, y) == x.num * y.den > y.num * x.den

\* mutant: setdefault, which keeps the share of the first list
FirstShare(es, qdr, trusted, id) ==
  LET w == Weights(trusted)
  IN  IF RankIn(es, id) > 0 THEN Share(w.es, es, id) ELSE Share(w.qdr, qdr, id)

\* fused_scores[id]
Score(es, qdr, trusted, id) ==
  LET w == Weights(trusted)
  IN  Plus(Share(w.es, es, id), Share(w.qdr, qdr, id))

\* Position of an id in the dictionary of scores: order of first appearance.
Entered(es, qdr, id) ==
  IF RankIn(es, id) > 0 THEN RankIn(es, id) ELSE Len(es) + RankIn(qdr, id)

\* sorted by score, reverse.  It is stable: ids with one score keep the order
\* of the dictionary.
Precedes(es, qdr, trusted, a, b) ==
  LET sa == Score(es, qdr, trusted, a)  sb == Score(es, qdr, trusted, b)
  IN  \/ Exceeds(sa, sb)
      \/ ~Exceeds(sb, sa) /\ Entered(es, qdr, a) < Entered(es, qdr, b)

\* reciprocal_rank_fusion
Fused(es, qdr, trusted) ==
  LET ids == Range(es) \union Range(qdr)
  IN  InOrder(ids, {p \in ids \X ids : Precedes(es, qdr, trusted, p[1], p[2])})

\* The first n elements, or all of them.
Top(n, s) == SubSeq(s, 1, IF Len(s) < n THEN Len(s) ELSE n)
=============================================================================
