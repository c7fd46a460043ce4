--------------------------- MODULE EventDelivery ---------------------------
(***************************************************************************)
(* What the outbox pipeline promises to the two search indexes.            *)
(*                                                                         *)
(* A recipe event is accepted once, with the transaction that stores the   *)
(* recipe.  Its document then becomes searchable in Elasticsearch, after   *)
(* that its chunks become searchable in Qdrant, and only then may the      *)
(* event be reported as delivered.  Nothing is ever taken back: a document *)
(* stays indexed and a delivered event stays delivered.  How many times a  *)
(* document is written, by whom, and how often work is lost and repeated   *)
(* is not visible here.                                                    *)
(***************************************************************************)
CONSTANT Event

VARIABLES accepted,   \* events whose recipe is stored
          inEs,       \* events whose document is in Elasticsearch
          inQdrant,   \* events whose chunks are in Qdrant
          delivered   \* events reported as completed

vars == <<accepted, inEs, inQdrant, delivered>>

Init ==
  /\ accepted = {}
  /\ inEs = {}
  /\ inQdrant = {}
  /\ delivered = {}

Accept(S) ==
  /\ accepted' = accepted \union S
  /\ UNCHANGED <<inEs, inQdrant, delivered>>

IndexDocuments(S) ==
  /\ S \subseteq accepted
  /\ inEs' = inEs \union S
  /\ UNCHANGED <<accepted, inQdrant, delivered>>

IndexChunks(S) ==
  /\ S \subseteq inEs
  /\ inQdrant' = inQdrant \union S
  /\ UNCHANGED <<accepted, inEs, delivered>>

Report(S) ==
  /\ S \subseteq inEs \intersect inQdrant
  /\ delivered' = delivered \union S
  /\ UNCHANGED <<accepted, inEs, inQdrant>>

Next ==
  \E S \in SUBSET Event :
    \/ Accept(S)
    \/ IndexDocuments(S)
    \/ IndexChunks(S)
    \/ Report(S)

Spec == Init /\ [][Next]_vars
=============================================================================
