----------------------------- MODULE Interview -----------------------------
(***************************************************************************)
(* The interview pipeline (src/youtube) on a saved video: language models  *)
(* turn its sections into artifacts of two stages, the question-answer     *)
(* artifacts become chunks, and the chunks go to Elasticsearch and Qdrant. *)
(*                                                                         *)
(* Pipeline.run carries one document through a list of stages, put         *)
(* together by hand for a saved video.  Every stage works from the tables  *)
(* and the section ids of the document alone, so a list of stages is a     *)
(* succession of runs of one stage each, on the same document.  Runs are   *)
(* processes of their own and may overlap.                                 *)
(*                                                                         *)
(* The video's speaker is assumed to have been named in the sources table, *)
(* which no stage does.  A call to a language model is answered, fails     *)
(* after its retries (None), or is answered in a form that the stage       *)
(* cannot parse, which ends the run like any other exception (Stop).       *)
(***************************************************************************)
EXTENDS Integers, SequencesExt

CONSTANTS
  Run,            \* processes that run a pipeline
  NumSections,    \* sections of the video
  Pairs,          \* numbers of question-answer pairs one call may return
  MaxSaves,       \* bound: transactions that add artifacts
  MaxConversions, \* bound: transactions that replace chunks
  MaxIndexed,     \* bound: saves after which no index stage starts
  Index,          \* the indexes: Elasticsearch, Qdrant
  BatchSize,      \* chunks per request to an index (10)
  RowsUnordered   \* whether a query without ORDER BY may reorder its rows

ASSUME ConstantsOK ==
  /\ NumSections \in Nat
  /\ Pairs \subseteq Nat
  /\ BatchSize \in Nat \ {0}
  /\ RowsUnordered \in BOOLEAN

VARIABLES
  artifacts,   \* rows of llm_artifacts
  current,     \* those of them whose is_current is set
  saves,       \* how many transactions have added artifacts
  chunks,      \* rows of chunks
  conversions, \* how many transactions have replaced chunks
  indexed,     \* indexed[x]: the chunks in index x
  overlapped,  \* history: sections whose chunks two runs replaced at once
  run          \* run[r]: the stage r is in and what it holds

vars == <<artifacts, current, saves, chunks, conversions, indexed,
          overlapped, run>>

tables == <<artifacts, current, saves>>

Section == 1 .. NumSections
Stages == {"transcript normalize", "qa pair"}

(***************************************************************************)
(* An artifact is the output of one model call: version is its uuid, which *)
(* the number of its transaction stands for, from the section whose text   *)
(* the model was given, pairs the length of its result list.  A chunk      *)
(* names its section and its artifact; its own uuid is fresh in every      *)
(* conversion, which conv and nr stand for.                                *)
(***************************************************************************)
Artifact == [stage : Stages, section : Section, from : Section,
             version : Nat, pairs : Nat]
Chunk == [section : Section, artifact : Nat, conv : Nat, nr : Nat]

Idle == [at |-> "idle"]

Init ==
  /\ artifacts = {} /\ current = {} /\ saves = 0
  /\ chunks = {} /\ conversions = 0
  /\ indexed = [x \in Index |-> {}]
  /\ overlapped = {}
  /\ run = [r \in Run |-> Idle]

-----------------------------------------------------------------------------
(* Artifacts.                                                              *)

\* FetchVideoFromDB: the saved sections, by order_index.
Chapters == [i \in Section |-> i]

\* SelectChapterStage: those that the run asks for, in the same order.
Documents ==
  {d \in SeqOf(Range(Chapters), NumSections) :
     \A i, j \in DOMAIN d : i < j => d[i] < d[j]}

\* Hands rows for llm_artifacts to insert_bulk_llm_artifact, if there are any.
Keep(r, rows) ==
  /\ rows # {}
  /\ run' = [run EXCEPT ![r] = [at |-> "save", rows |-> rows]]
  /\ UNCHANGED <<tables, chunks, conversions, indexed, overlapped>>

\* Sections are fetched in the order asked for and paired with the results
\* of their own calls.
Normalize(r) ==
  /\ run[r] = Idle
  /\ \E doc \in Documents : \E answered \in SUBSET Range(doc) :
       Keep(r, {[stage |-> "transcript normalize", section |-> s, from |-> s,
                 pairs |-> 0] : s \in answered})

\* fetch_current_artifacts, in the order its rows come.
CurrentRows(stage, doc) ==
  LET rows == {a \in current : a.stage = stage /\ a.section \in Range(doc)}
  IN  {o \in SetToSeqs(rows) :
         RowsUnordered \/ \A i, j \in DOMAIN o : i < j => o[i].section < o[j].section}

None == -1

\* The n-th result is filed under the n-th section asked for.
AskQuestions(r) ==
  /\ run[r] = Idle
  /\ \E doc \in Documents :
     \E rows \in CurrentRows("transcript normalize", doc) :
     \E pairs \in [DOMAIN rows -> {None} \union Pairs] :
       Keep(r, {[stage |-> "qa pair", section |-> doc[n],
                 from |-> rows[n].section, pairs |-> pairs[n]] :
                n \in {m \in DOMAIN rows \cap DOMAIN doc : pairs[m] # None}})

\* mutant: the UPDATE does not ask for the stage
ReplacedInAnyStage(rows) ==
  {a \in current : \E b \in rows : a.section = b.section}

\* The rows an insert of the given rows replaces.
Replaced(rows) ==
  {a \in current : \E b \in rows : a.stage = b.stage /\ a.section = b.section}

\* mutant: the UPDATE is committed before the INSERT
UnsetAndCommit(r) ==
  /\ run[r].at = "save"
  /\ current' = current \ Replaced(run[r].rows)
  /\ run' = [run EXCEPT ![r] = [at |-> "add", rows |-> run[r].rows, seen |-> {}]]
  /\ UNCHANGED <<artifacts, saves, chunks, conversions, indexed, overlapped>>

\* The UPDATE sees the rows committed before it.
Unset(r) ==
  /\ run[r].at = "save"
  /\ run' = [run EXCEPT ![r] = [at |-> "add", rows |-> run[r].rows,
                                seen |-> Replaced(run[r].rows)]]
  /\ UNCHANGED <<tables, chunks, conversions, indexed, overlapped>>

\* mutant: the flags are set, the rows never added to the session
AddNothing(r) ==
  /\ run[r].at = "add"
  /\ saves < MaxSaves
  /\ current' = (current \ run[r].seen) \union
       {[stage |-> b.stage, section |-> b.section, from |-> b.from,
         version |-> saves + 1, pairs |-> b.pairs] : b \in run[r].rows}
  /\ saves' = saves + 1
  /\ run' = [run EXCEPT ![r] = Idle]
  /\ UNCHANGED <<artifacts, chunks, conversions, indexed, overlapped>>

\* The INSERT and the commit.  A current row of one of the sections that
\* the UPDATE did not see makes the unique index refuse the transaction.
AddArtifacts(r) ==
  /\ run[r].at = "add"
  /\ saves < MaxSaves
  /\ Replaced(run[r].rows) \subseteq run[r].seen
  /\ LET new == {[stage |-> b.stage, section |-> b.section, from |-> b.from,
                  version |-> saves + 1, pairs |-> b.pairs] : b \in run[r].rows}
     IN  /\ artifacts' = artifacts \union new
         /\ current' = (current \ run[r].seen) \union new
  /\ saves' = saves + 1
  /\ run' = [run EXCEPT ![r] = Idle]
  /\ UNCHANGED <<chunks, conversions, indexed, overlapped>>

-----------------------------------------------------------------------------
(* Chunks.                                                                 *)

\* ChunkMapper: a row for each pair of an answer.
ChunksOf(a) ==
  {[section |-> a.section, artifact |-> a.version, nr |-> n] : n \in 1 .. a.pairs}

\* A session of its own reads the answers; nothing is done about none.
ReadAnswers(r) ==
  /\ run[r] = Idle
  /\ \E doc \in Documents :
     LET answers == {a \in current : a.stage = "qa pair" /\ a.section \in Range(doc)}
         rows == UNION {ChunksOf(a) : a \in answers}
     IN  /\ rows # {}
         /\ run' = [run EXCEPT ![r] = [at |-> "delete", rows |-> rows]]
  /\ UNCHANGED <<tables, chunks, conversions, indexed, overlapped>>

SectionsOf(rows) == {c.section : c \in rows}

\* mutant: the DELETE names the artifact instead of the section
DeleteByArtifact(r) ==
  /\ run[r].at = "delete"
  /\ run' = [run EXCEPT ![r] =
       [at |-> "insert", rows |-> run[r].rows,
        seen |-> {c \in chunks : \E b \in run[r].rows : b.artifact = c.artifact}]]
  /\ UNCHANGED <<tables, chunks, conversions, indexed, overlapped>>

\* The DELETE sees the rows committed before it.
DeleteChunks(r) ==
  /\ run[r].at = "delete"
  /\ run' = [run EXCEPT ![r] =
       [at |-> "insert", rows |-> run[r].rows,
        seen |-> {c \in chunks : c.section \in SectionsOf(run[r].rows)}]]
  /\ UNCHANGED <<tables, chunks, conversions, indexed, overlapped>>

\* mutant: every chunk is given the section of the loop's last pair
InsertUnderLast(r) ==
  /\ run[r].at = "insert"
  /\ conversions < MaxConversions
  /\ conversions' = conversions + 1
  /\ chunks' = (chunks \ run[r].seen) \union
       {[section |-> CHOOSE s \in SectionsOf(run[r].rows) : TRUE,
         artifact |-> c.artifact, conv |-> conversions', nr |-> c.nr] :
        c \in run[r].rows}
  /\ run' = [run EXCEPT ![r] = Idle]
  /\ UNCHANGED <<tables, indexed, overlapped>>

\* The INSERT and the commit.
InsertChunks(r) ==
  /\ run[r].at = "insert"
  /\ conversions < MaxConversions
  /\ conversions' = conversions + 1
  /\ chunks' = (chunks \ run[r].seen) \union
       {[section |-> c.section, artifact |-> c.artifact, conv |-> conversions',
         nr |-> c.nr] : c \in run[r].rows}
  /\ overlapped' = overlapped \union
       {s \in SectionsOf(run[r].rows) :
          \E q \in Run \ {r} : /\ run[q].at = "insert"
                              /\ s \in SectionsOf(run[q].rows)}
  /\ run' = [run EXCEPT ![r] = Idle]
  /\ UNCHANGED <<tables, indexed>>

\* An index stage takes every chunk there is, whatever the document.
ReadChunks(r, x) ==
  /\ run[r] = Idle
  /\ saves <= MaxIndexed
  /\ chunks # {}
  /\ run' = [run EXCEPT ![r] = [at |-> "index", x |-> x,
                                seen |-> chunks, left |-> chunks]]
  /\ UNCHANGED <<tables, chunks, conversions, indexed, overlapped>>

\* The batches that itertools.batched may make of the chunks left.
Batches(left) ==
  {b \in SUBSET left : Cardinality(b) = IF Cardinality(left) < BatchSize
                                        THEN Cardinality(left) ELSE BatchSize}

\* mutant: zip stops at the shorter list, and too few vectors came back
WriteAnswered(r) ==
  /\ run[r].at = "index"
  /\ run[r].left # {}
  /\ \E batch \in Batches(run[r].left) : \E part \in SUBSET batch :
       /\ indexed' = [indexed EXCEPT ![run[r].x] = @ \union part]
       /\ run' = [run EXCEPT ![r].left = @ \ batch]
  /\ UNCHANGED <<tables, chunks, conversions, overlapped>>

\* One request to the index; chunks come under their own ids.
WriteBatch(r) ==
  /\ run[r].at = "index"
  /\ run[r].left # {}
  /\ \E batch \in Batches(run[r].left) :
       /\ indexed' = [indexed EXCEPT ![run[r].x] = @ \union batch]
       /\ run' = [run EXCEPT ![r].left = @ \ batch]
  /\ UNCHANGED <<tables, chunks, conversions, overlapped>>

\* A request that fails may have taken effect in part; it ends the run.
BatchFails(r) ==
  /\ run[r].at = "index"
  /\ run[r].left # {}
  /\ \E batch \in Batches(run[r].left) : \E part \in SUBSET batch :
       indexed' = [indexed EXCEPT ![run[r].x] = @ \union part]
  /\ run' = [run EXCEPT ![r] = Idle]
  /\ UNCHANGED <<tables, chunks, conversions, overlapped>>

\* The run is over: its stage is done, or an exception (a database error, the
\* unique index, an answer that does not parse) or the end of its process
\* stopped it.  What it had not committed is rolled back.
Stop(r) ==
  /\ run[r] # Idle
  /\ run' = [run EXCEPT ![r] = Idle]
  /\ UNCHANGED <<artifacts, current, saves, chunks, conversions,
                 indexed, overlapped>>

Next == \E r \in Run :
  \/ Normalize(r) \/ AskQuestions(r) \/ Unset(r) \/ AddArtifacts(r)
  \/ ReadAnswers(r) \/ DeleteChunks(r) \/ InsertChunks(r)
  \/ \E x \in Index : ReadChunks(r, x)
  \/ WriteBatch(r) \/ BatchFails(r) \/ Stop(r)

Spec == Init /\ [][Next]_vars

-----------------------------------------------------------------------------
(* Properties.                                                             *)

RowToAdd == [stage : Stages, section : Section, from : Section, pairs : Nat]
RowToShow == [section : Section, artifact : Nat, nr : Nat]

RunState ==
  {Idle}
  \union [at : {"save"}, rows : SUBSET RowToAdd]
  \union [at : {"add"}, rows : SUBSET RowToAdd, seen : SUBSET Artifact]
  \union [at : {"delete"}, rows : SUBSET RowToShow]
  \union [at : {"insert"}, rows : SUBSET RowToShow, seen : SUBSET Chunk]
  \union [at : {"index"}, x : Index, seen : SUBSET Chunk, left : SUBSET Chunk]

\* Every variable has its type: a saved row has the fields its table wants,
\* and a run holds what its stage works with.
TypeOK ==
  /\ artifacts \subseteq Artifact /\ current \subseteq artifacts
  /\ saves \in Nat /\ conversions \in Nat
  /\ chunks \subseteq Chunk /\ indexed \in [Index -> SUBSET Chunk]
  /\ overlapped \subseteq Section
  /\ run \in [Run -> RunState]

\* Once a section has artifacts of a stage, exactly one of them is current,
\* however the saves of several runs interleave (insert_bulk_llm_artifact and
\* the partial unique index of llm_artifacts).
OneCurrentArtifact ==
  \A a \in artifacts : \E b \in current :
    {c \in current : c.stage = a.stage /\ c.section = a.section} = {b}

\* Every chunk, stored or found in an index, comes from a question-answer
\* artifact of its own section (the foreign keys of chunks; the indexes have
\* none).
ChunksTraceable ==
  \A c \in chunks \union UNION Range(indexed) : \E a \in artifacts :
    /\ a.stage = "qa pair" /\ a.section = c.section
    /\ a.version = c.artifact /\ c.nr <= a.pairs

\* The chunks of a section come from one conversion of one artifact, unless
\* two runs replaced them at once (ConvertArtifactsToChunksStage,
\* insert_bulk_chunk).
OneVoice ==
  \A c, d \in chunks :
    (c.section = d.section /\ c.section \notin overlapped) =>
      (c.conv = d.conv /\ c.artifact = d.artifact)

\* An index stage that goes through has written every chunk that was stored
\* when it began (IndexChunksStage, EmbeddingChunksStage; the embedding
\* service answers every text).
StageCovers ==
  \A r \in Run :
    (run[r].at = "index" /\ run[r].left = {}) =>
      run[r].seen \subseteq indexed[run[r].x]

\* What the current question-answer artifacts say is what Answers promises:
\* replaced together, only by newer ones, never withdrawn.
PublishedAnswers ==
  [s \in Section |-> {a.version : a \in {b \in current : b.stage = "qa pair"
                                                      /\ b.section = s}}]

Abstract == INSTANCE Answers WITH Part <- Section, answer <- PublishedAnswers

AnswersReplaced == Abstract!Spec

\* The failure of one call does not touch the answers of other sections: an
\* answer is filed under the section whose text was asked about.
\* (semantic_qa_pair.py:59, transcript_normalize.py:51)
FailuresStayLocal ==
  \A a \in artifacts : a.from = a.section
=============================================================================
