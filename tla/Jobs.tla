-------------------------------- MODULE Jobs --------------------------------
(***************************************************************************)
(* The programs that are run by hand, each with an instance of its own.    *)
(* They share no state here: one behaviour runs one of them, while the     *)
(* variables of the others stand still.                                    *)
(***************************************************************************)
EXTENDS Integers

CONSTANTS
  Descriptions, Transcript,                  \* Import
  MaxPopulated,                              \* Migrations
  Id, PageSize,                              \* IndexDiff
  Points, SectionTexts, Concept, Levels,     \* Duplicates
  Threshold, QueryLimit, BatchSize,
  Verdicts, Orders,
  Page, Worker, Recipe, Links, MaxTries      \* Scanner

VARIABLES
  job,
  sections,
  version, db,
  es, qdr, offset, hits, seen, start, report,
  result,
  page, queue, unfinished, hand, pending, refused, main

importing == <<sections>>
migrating == <<version, db>>
comparing == <<es, qdr, offset, hits, seen, start, report>>
detecting == <<result>>
scanning == <<page, queue, unfinished, hand, pending, refused, main>>
vars == <<job, importing, migrating, comparing, detecting, scanning>>

Imp == INSTANCE Import
Mig == INSTANCE Migrations
Diff == INSTANCE IndexDiff
Dup == INSTANCE Duplicates
Scan == INSTANCE Scanner

ASSUME ConstantsOK ==
  Imp!ConstantsOK /\ Diff!ConstantsOK /\ Dup!ConstantsOK /\ Scan!ConstantsOK

Init ==
  /\ job \in {"import", "migrate", "compare", "detect", "scan"}
  /\ IF job = "import" THEN Imp!Init ELSE sections = <<>>
  /\ IF job = "migrate" THEN Mig!Init ELSE version = 0 /\ db = "idle"
  /\ IF job = "compare" THEN Diff!Init
     ELSE /\ es = "idle" /\ qdr = "idle" /\ offset = "idle" /\ hits = "idle"
          /\ seen = "idle" /\ start = "idle" /\ report = "idle"
  /\ IF job = "detect" THEN Dup!Init ELSE result = "idle"
  /\ IF job = "scan" THEN Scan!Init
     ELSE /\ page = "idle" /\ queue = "idle" /\ unfinished = "idle" /\ hand = "idle"
          /\ pending = "idle" /\ refused = "idle" /\ main = "idle"

ImportStep ==
  /\ job = "import" /\ Imp!ImportVideo
  /\ UNCHANGED <<job, migrating, comparing, detecting, scanning>>
MigrationStep ==
  /\ job = "migrate" /\ Mig!Next
  /\ UNCHANGED <<job, importing, comparing, detecting, scanning>>
DiffStep ==
  /\ job = "compare" /\ Diff!Next
  /\ UNCHANGED <<job, importing, migrating, detecting, scanning>>
DetectionStep ==
  /\ job = "detect" /\ Dup!Next
  /\ UNCHANGED <<job, importing, migrating, comparing, scanning>>
ScanStep ==
  /\ job = "scan" /\ Scan!Next
  /\ UNCHANGED <<job, importing, migrating, comparing, detecting>>

Next == ImportStep \/ MigrationStep \/ DiffStep \/ DetectionStep \/ ScanStep

\* The event loop of the scanner runs every task, and requests and inserts
\* return or time out.  The other programs may be interrupted.
Spec == Init /\ [][Next]_vars /\ WF_vars(ScanStep)

-----------------------------------------------------------------------------
(* Properties.                                                             *)

\* A section cut from a transcript holds exactly the subtitles between its
\* start and the next chapter's (TranscriptSegmenter, SaveRawData).
SectionsHoldTheirTime == job = "import" => Imp!SectionsHoldTheirTime

\* The rows that one edit of the chapters has left in the table are a tail of
\* its chapter list, without a gap and without a subtitle twice (SectionMapper,
\* insert_bulk_section).
EditsStoredWhole == job = "import" => Imp!EditsStoredWhole

\* A database at the last revision has exactly the tables that the models
\* declare but for the outbox's primary key (migrations/versions,
\* app/domain/models).
HeadLacksOneKey == job = "migrate" => Mig!HeadLacksOneKey

\* A downgrade that goes through gives back the schema that its upgrade
\* changed, but for that key (downgrade of each revision).
DowngradeLosesOneKey == Mig!DowngradeLosesOneKey

\* An upgrade that goes through drops no text that a column of its table holds
\* (upgrade of each revision).
TextsKept == Mig!TextsKept

\* The index diff reports every recipe that stayed in one index only and none
\* that both indexes held from the start (QdrantESDiffChecker.run_diff).
DiffBracketed == job = "compare" => Diff!DiffBracketed

\* The duplicates printed are exactly the near pairs whose two directions are
\* classified as entailment (DuplicateDetection.detect).
DuplicatesExact == job = "detect" => Dup!DuplicatesExact

\* No pair is printed twice, though each of its points may find the other
\* (DuplicateDetection._deduplicate_candidates).
PairsOnce == job = "detect" => Dup!PairsOnce

\* Every answer of a section gets its own score for a concept, whatever the
\* batches (ConceptDetectionStage, classify_batch).
ConceptsScored == job = "detect" => Dup!ConceptsScored

\* When the scan is over, every recipe found has a row or its insert was
\* logged as failed (urlscanner.main).
ScanComplete == job = "scan" => Scan!ScanComplete

\* The scan ends, whatever requests and inserts fail (urlscanner.main).
ScanEnds == job = "scan" => Scan!ScanEnds

-----------------------------------------------------------------------------
(* What the models say and the revisions do not do.                        *)

\* outbox_model.py:10: event_id is the primary key, at the last revision too.
HeadMatchesModels == job = "migrate" => Mig!HeadMatchesModels
=============================================================================
