----------------------------- MODULE IndexDiff -----------------------------
(***************************************************************************)
(* The index diff checker (qdrant_es_diff.py): both indexes are paged      *)
(* through at once, Elasticsearch as it was at the first request, Qdrant   *)
(* as it is at each, and what only one of them holds is reported.  The     *)
(* worker tasks go on writing meanwhile.  The points of a recipe count as  *)
(* one, at the place where Qdrant's order of points has it.                *)
(***************************************************************************)
EXTENDS Integers, FiniteSetsExt

CONSTANTS
  Id,          \* recipes, as numbers in the order of their points
  PageSize     \* points or hits per request (256, 500)

ConstantsOK == Id \subseteq Nat \ {0} /\ PageSize \in Nat \ {0}

VARIABLES
  es, qdr,     \* the ids in the two indexes
  offset,      \* next_page_offset; 0 before the first page, None after the last
  hits,        \* what the Elasticsearch scroll has still to give, once opened
  seen,        \* ids fetched from either
  start,       \* history: the indexes when run_diff was called
  report       \* only_in_qdrant and only_in_es, once there

vars == <<es, qdr, offset, hits, seen, start, report>>

None == -1

Init ==
  /\ es \in SUBSET Id /\ qdr \in SUBSET Id
  /\ offset = 0
  /\ hits = [opened |-> FALSE, left |-> {}]
  /\ seen = [es |-> {}, qdr |-> {}]
  /\ start = [es |-> es, qdr |-> qdr]
  /\ report = {}

\* sync_to_distributed_db writes to Elasticsearch and then to Qdrant.
WriteEs(i) ==
  /\ es' = es \union {i}
  /\ UNCHANGED <<qdr, offset, hits, seen, start, report>>

WriteQdr(i) ==
  /\ i \in es
  /\ qdr' = qdr \union {i}
  /\ UNCHANGED <<es, offset, hits, seen, start, report>>

\* The first elements of a set of numbers, and where the next page starts.
PageOf(s) == {i \in s : Cardinality({j \in s : j < i}) < PageSize}
NextOffset(s) == IF s \ PageOf(s) = {} THEN None ELSE Min(s \ PageOf(s))

\* mutant: a page is added only if another one follows
QdrantPageLast ==
  LET ahead == {i \in qdr : i >= offset}
  IN  /\ offset # None
      /\ seen' = [seen EXCEPT !.qdr = IF NextOffset(ahead) = None THEN @
                                      ELSE @ \union PageOf(ahead)]
      /\ offset' = NextOffset(ahead)
      /\ UNCHANGED <<es, qdr, hits, start, report>>

\* One scroll request to Qdrant.
QdrantPage ==
  LET ahead == {i \in qdr : i >= offset}
  IN  /\ offset # None
      /\ seen' = [seen EXCEPT !.qdr = @ \union PageOf(ahead)]
      /\ offset' = NextOffset(ahead)
      /\ UNCHANGED <<es, qdr, hits, start, report>>

\* search, which fixes what the scroll will give.
OpenScroll ==
  /\ ~hits.opened
  /\ hits' = [opened |-> TRUE, left |-> es]
  /\ UNCHANGED <<es, qdr, offset, seen, start, report>>

\* The hits of a response are added and the next ones asked for.
EsPage ==
  /\ hits.left # {}
  /\ seen' = [seen EXCEPT !.es = @ \union PageOf(hits.left)]
  /\ hits' = [hits EXCEPT !.left = @ \ PageOf(@)]
  /\ UNCHANGED <<es, qdr, offset, start, report>>

\* gather returns; the scroll ends at a response without hits.
Report ==
  /\ report = {}
  /\ offset = None /\ hits.opened /\ hits.left = {}
  /\ report' = {[qdr |-> seen.qdr \ seen.es, es |-> seen.es \ seen.qdr]}
  /\ UNCHANGED <<es, qdr, offset, hits, seen, start>>

Next ==
  \/ \E i \in Id : WriteEs(i) \/ WriteQdr(i)
  \/ QdrantPage \/ OpenScroll \/ EsPage \/ Report

Spec == Init /\ [][Next]_vars

-----------------------------------------------------------------------------
(* Properties.                                                             *)

\* Whatever is written meanwhile, an id that was in one index from the start
\* and is still not in the other is reported, and an id that is reported was
\* not in the other one at the start (run_diff).
DiffBracketed ==
  \A r \in report :
    /\ start.qdr \ es \subseteq r.qdr /\ r.qdr \subseteq qdr \ start.es
    /\ start.es \ qdr \subseteq r.es /\ r.es \subseteq es \ start.qdr
=============================================================================
