# A verified model of recipe_chatbot

This directory models recipe_chatbot in TLA+: how a recipe page becomes a row of the `recipes` table, an event of the
`outbox` table and documents in two indexes; how an interview video becomes sections, artifacts, chunks and index
entries; how a chat request finds them again; and the programs that are run by hand around these. TLC checks the
models on small instances, and TLAPS proves every safety property of the passing runs for every instance.

Paths below are relative to the repository root.

## 1. The system

| part | code | state | operations |
|---|---|---|---|
| URL scanner | `web_crawler/urlscanner.py`, `app/worker/ingest_pending_event_worker.py` | its queue | fetch list pages, insert pending rows, join, cancel |
| recipes table | `app/repositories/pg_repository.py`, `app/domain/models/pg_model.py` | `status`, `updated_at`, recipe columns | insert, fetch batch, reset stale, store outcome |
| crawler process | `web_crawler/service/crawler_app.py`, `app/worker/*`, `web_crawler/consumer/*` | two bounded queues, what its tasks hold | fetch, crawl, store, reset, graceful shutdown |
| outbox table | `app/repositories/outbox_repository.py` | `status`, `created_at`, `updated_at` | insert, fetch with locks, dispatch, claim, complete, reset stale |
| outbox poller | `tasks/outbox_poller.py` | the batch it fetched | poll loop: reset, fetch, build payloads, commit, send |
| TaskIQ worker | `tasks/tasks.py` | its message and claim | claim, write Elasticsearch, write Qdrant, complete, fail and retry |
| indexes | `app/repositories/es_repository.py`, `qdr_repository.py` | documents, points | batch upserts, searches |
| interview pipeline | `youtube/`, `app/repositories/yt_repository.py` | sections, LLM artifacts, chunks | import, normalize, ask, convert, index |
| retrieval | `app/retriever/`, `app/hydrator/` | none | weights, fusion, hydration, metrics |
| chat API | `app/main.py`, `app/agent/`, `app/services/rag_service.py` | `sessions` | search, chat |
| duplicate and concept detection | `app/services/*_detection.py`, `app/inference/nli/` | none | candidates, deduplication, batched classification |
| index diff checker | `qdrant_es_diff.py` | its scroll positions | page through both indexes, compare |
| schema | `migrations/`, the ORM models, `create_all` in `app/main.py` | tables, version | upgrade, downgrade, server start |

How they interact. The scanner and the crawler share only the recipes table. Inside a crawler process, tasks of one
event loop talk through `url_queue` and `result_queue`; `STOP_SIGNAL` values and one `asyncio.Event` stop them. The
storage worker writes a recipe and its outbox event in one transaction, which is the only link from the crawler to the
indexing pipeline. Poller and workers share the outbox table and a Redis list. The stages of the interview pipeline
share nothing but the tables: each reads what an earlier one committed. Search reads the two indexes and hydrates from
Postgres, so it depends on both pipelines keeping indexes and rows together.

What is hard. Rows are marked, committed and only then handed on, so every hand-over can be interrupted by a crash.
Stale resets give rows back that may only be late. Messages are delivered again after a failure and never after a
crash, because the Redis list broker keeps no unacknowledged message. Several tasks start at once in the crawler and
nothing orders the first reset and the first fetch. Shutdown waits on bounded queues, partly with timeouts. Two
indexes are written one after the other with no transaction around them. Interview runs may overlap, and each
replaces rows it read in an earlier statement. Chat requests share a dictionary across an await.

What makes each part correct:

* outbox, poller, workers: nothing completed that is not in both indexes; no event handled by two owners unless a
  stale reset paid for it; no event silently left behind; every event delivered if messages are punctual;
* crawler: a page is held once and settled once; table and outbox agree; shutdown ends and loses nothing that it does
  not abandon openly; across restarts every row is crawled;
* interview pipeline: an answer stays with the section it came from; a section has one current artifact and is never
  without once it had one; chunks come from one conversion; an index stage leaves no chunk out;
* retrieval and chat: fusion keeps what both searches agree on, the ranking survives hydration, a session's history is
  its own and a turn is lost only to an overlapping request;
* programs run by hand: they end, they leave nothing out, and the schema they leave is the one the models declare.

`PROJECT.json` lists every component, also those not modelled, every hazard at its line, and for each definition of
the models the lines it stands for.

## 2. Modules

| module | what it is |
|---|---|
| `EventDelivery` | abstract: an event is accepted, gets into Elasticsearch, then Qdrant, then is reported as delivered, never the other way round |
| `Outbox` | the outbox table, pollers, the Redis list and the TaskIQ workers; implements `EventDelivery` |
| `Crawler` | the recipes table and the crawler processes |
| `Answers` | abstract: the current answers of an interview, replaced together, only by newer ones, never withdrawn |
| `Interview` | artifacts, chunks and indexes of a saved video under overlapping runs; implements `Answers` |
| `Retrieval` | weights and rank fusion, as operators |
| `Assistant` | `/chat`, its sessions and the agent's retrieval tool, beside the interview pipeline; extends `Retrieval` |
| `Import` | a video's chapters and subtitles become sections, again and again |
| `Scanner` | the URL scanner |
| `IndexDiff` | the index diff checker beside the worker task |
| `Duplicates` | duplicate and concept detection through the batched classifier |
| `Migrations` | every Alembic revision, `create_all` and rows, on tables of columns, nullability, types and keys |
| `Jobs` | instances of `Import`, `Migrations`, `IndexDiff`, `Duplicates` and `Scanner`, one of them in a behaviour, and their properties |
| `Outbox_proofs`, `Crawler_proofs`, `Interview_proofs`, `Assistant_proofs` | theorems about the module of that name, checked by TLAPS |
| `Jobs_proofs` | theorems about `Jobs` when it runs `Import`, `IndexDiff` or `Scanner`, and induction over numbers |
| `Duplicates_proofs` | theorems about `Jobs` when it runs `Duplicates` |
| `Schema_proofs` | lemmas about the operations and revisions of `Migrations`: the tables of every version |
| `Migrations_proofs` | theorems about `Jobs` when it runs `Migrations` |
| `MCOutbox`, `MCCrawler`, `MCInterview`, `MCAssistant`, `MCJobs` | symmetry and values for TLC |

Definitions whose comment begins with "mutant:" are plausible bugs of the definition below them; no specification uses
them. They show that each property can fail.

### Outbox

One row per `Event`; `status`, `created` (order of `created_at`) and `age` (time since `updated_at`, up to `StaleAge`)
are its columns. A poller goes through `reset -> fetch -> build -> dispatch`: the fetch takes row locks, which
other pollers skip, and holds them until the commit, so fetch (`Fetch`) and commit (`CommitBatch`) are two steps and
the payloads are built between them. A payload a DTO rejects (`Unbuildable`) rolls the transaction back
(`RollbackBatch`). The batch is any one the query may return: the oldest `BatchLimit` unlocked pending rows, ties in
any order. A worker receives a message, claims, indexes, embeds and marks; `wpc` is the await the task
has reached. `TaskFails` and `WorkerCrashes` happen at any await and may leave any part of a bulk request written.
`Fail` is TaskIQ's retry: the message goes back to the list or is given up. `SmartRetryMiddleware` as configured
retries only tasks that carry a retry label, so `MaxRetries = 0` is the deployed value and larger ones model the
intention. `resolves`, chosen once, says whether the dependencies of a task can be built; where they cannot,
`InjectionFails` ends every task before its body, as the deployed `get_qdrant` does.

The stale reset of one poll and the next fetch are separate transactions and separate steps. `Tick` ages dispatched
rows; 30 minutes are one or a few ticks.

### Crawler

One row per `Url`. Per process: `phase` is the line `CrawlerApp.run` has reached, `ppc`/`pbatch` the producer,
`rpc` the reset worker, `urlq` and `resq` the queues, `hand` the consumers, `spc`/`sbatch` the storage worker;
`clean` records that no task of its run was cut short so far. `Start` makes queues and tasks anew.
`due` is the set of rows not newer than the cutoff of a process's next reset. The startup reset takes the
present as its cutoff when its task starts, before the producer's first fetch, so `Start` sets `due` to all rows then
in processing; the fetch renews `updated_at` and so takes rows out of every `due`. When the interval of 30 minutes
elapses any processing rows may be older (`IntervalElapses`). A fetch that finds nothing ends the producer, the end
of the producer starts the shutdown, and each phase of the shutdown is an action; `Slow` says which of its timeouts
may strike. An exception of the producer or of the reset worker cancels the TaskGroup (`TaskFails`), a killed process
looks the same from outside (`Crash`), and both lose what was in memory. `Page` says which URL a page names as its
own, which is where `update_recipe` and `update_bulk_recipe` store it. A page may also name a URL without a row
(`Nowhere`): the update then changes nothing and the event is still inserted. No instance below takes that case.

Left out on purpose: SKIP LOCKED in the crawler's queries only hides rows whose owner's transaction is open, which
is the same as that transaction coming first; a commit whose answer is lost; clock skew between process and database;
HTTP codes and retries, which end in one of four outcomes.

### Interview

`Pipeline.run` takes one document through a list of stages. Every stage reads and writes the tables by the section ids
of that document, so a list of stages is a succession of one-stage runs, and `run[r]` is the stage process `r`
is in. A transaction of two statements is two steps (`Unset` and `AddArtifacts`, `DeleteChunks` and `InsertChunks`):
the first fixes the committed rows it sees, the second commits. `AddArtifacts` is refused by the partial unique index
when a current row has appeared that the `UPDATE` did not see; nothing refuses `InsertChunks`, so two conversions of a
section can leave it with the chunks of both, which `overlapped` records. A model call is answered or not; an answer
that cannot be parsed, an exception and the end of the process are all `Stop`. Chunks are identified by the
conversion that inserted them, as their uuids are new every time, and indexes only ever add.

The model assumes a speaker in the `sources` row, which nothing in the repository writes. Three facts that it shows
and that a reader of the code may not expect: a section whose new answer has no pairs keeps its old chunks, as the
`DELETE` names only the sections that get new ones; an index keeps the chunks of every earlier conversion; and the
results of `SemanticQaPair` are filed by position (see `interview_local`).

### Assistant and Retrieval

A request reads its session's history when it begins and writes it back when it is answered; between them the agent
may call its tool any number of times. The two searches answer in either order with any ranking of at most `2 * TopK`
ids that their index holds. `Weights` keeps of the softmax only whether the first Elasticsearch score reaches a half.
Scores are sums of fractions `weight / (60 + rank)`, kept as numerator and denominator and compared by
cross-multiplication (`Exceeds`), so that comparisons are exact, where the code adds floating-point numbers; `Fused`
lists the ids found in the order of their scores and, as `sorted` is stable, equal scores in the order in which the
dictionary got them (`Precedes`, `InOrder`). `Convert` and `IndexChunks` are the interview pipeline as seen from here. The
test `is None` in `main.py` never holds, so that a missing hydration is always the 404 of the tool.

### Programs run by hand

`Import` gives a subtitle to the last chapter begun by its time. A second import finds section ids taken and leaves
those rows alone. `Scanner` fetches all pages at once, with retries; `unfinished` is the queue's count of items
that no worker has acknowledged, and main waits for it. `IndexDiff` reads Elasticsearch as of the first request and
Qdrant page by page, while the task of `Outbox` writes. `Duplicates` runs both services on given similarities,
with `Orders` for the label order of a model and any verdict for a pair; `At` is a list filtered by the places that
pass. `Migrations` applies the operations of the revisions on
the way (`Ups`, `Downs`) one after the other (`Applied`, `Ran`); `Possible` is what PostgreSQL or SQLAlchemy refuses, a
refused operation rolls all of them back, and `StartServer` is `create_all` at whatever version the database has.

A key is a primary key, an index, a unique constraint or a foreign key, with the columns it is on and the tables it
refers to: PostgreSQL drops it with any of its columns (`KeysAfter`) and drops no table that another one refers to.

Facts about the schema that `Migrations` makes visible, and that its properties are worded around:

* `26c58609cc5b` renames the outbox's `evnet_id` by adding `event_id` and dropping the old column, and the primary key
  goes with it. No revision makes another, so a migrated outbox has none, where `OutboxModel` declares one and both
  inserts name `event_id` in ON CONFLICT (`schema_head`); the downgrade does not give the old one back;
* a server started on a database at an older version creates tables that later revisions create, so that the upgrade
  then fails every time; on an empty database the baseline revision creates nothing and the next one fails;
* the downgrade of `ede290e354d4` drops a constraint `None` and never goes through, that of `440eb3f39b5c`
  needs a cast PostgreSQL does not make by itself, and that of `bbaba5c1b652` leaves an enum type behind which its
  next upgrade trips over, and does not go through at all where a server has made `llm_artifacts`, which refers to
  `sections`;
* `26c58609cc5b` adds a column that must not be NULL and fails on an outbox with rows; several others fail on
  rows with NULLs.

## 3. What is checked

Every passing run is exhaustive. "Bounds" names what was made small and why the interesting cases still occur.

| run | question | bounds |
|---|---|---|
| `outbox_safety` | are completed events in both indexes, is nothing left behind without a fault, and does the pipeline implement `EventDelivery` (`IndexesBackCompletion`, `NothingStranded`, `DeliveryPromise`) | 2 events in batches of 2, 2 workers, 1 poller as in the Procfile, a retry, an error, a crash; up to 2 messages wait, so copies overlap |
| `outbox_pollers` | do locks and status guards keep deliveries, claims and the life of a row in order (`DeliveriesPaidFor`, `ClaimsDisjoint`, `RowLifecycle`) | 2 pollers, 2 workers, two resets, so three copies of a delivery exist |
| `outbox_delivery` | is a dispatched row always freed or claimed (`StaleRecovered`), what becomes of a pending event (`DeliveredOrLost`), and do retries stay within their limit (`TypeOK`) | 3 events in batches of 2, one of which cannot be built, so that batches with and without it occur; an error, a retry and a crash, so that a delivery ends both ways: retried, and lost after its claim; both states of the dependency factory |
| `crawler_crossed` | is every processing row in somebody's hands while no run is cut short (`Accounted`), and has a completed row its event (`CompletedHasEvent`) | one page names the other's row; one interval elapses, so rows are crawled twice; both drain timeouts, the storage fallback |
| `crawler_fair` | is a page held once and settled once, do table and outbox agree, does shutdown end, and is every row crawled in the end (`OneCopy`, `OutcomeFinal`, `RowsAndEventsAgree`, `RunEnds`, `EveryRowCrawled`, `TypeOK`) | queues of one place, so that every put blocks at times; every timeout, two errors, a crash, restarts |
| `interview` | are artifacts, chunks and index consistent under overlapping runs, and do the answers keep the promise of `Answers` (`OneCurrentArtifact`, `ChunksTraceable`, `OneVoice`, `StageCovers`, `AnswersReplaced`, `TypeOK`) | 2 runs, 2 sections, 3 saves, so that both stages have one and one is replaced; 2 conversions; one index, as the two are written alike; batches of one |
| `assistant` | what may a history lose, and what do fusion and hydration keep (`SessionsTrue`, `LostOnlyToOverlap`, `FusionSound`, `RankKept`, `TypeOK`) | 3 requests of 2 sessions, so that two overlap in one; 3 chunk ids, `TopK` 2, so that the ranking is cut; one request calls the tool |
| `jobs` | the programs run by hand, one per behaviour (`SectionsHoldTheirTime`, `EditsStoredWhole`; `HeadLacksOneKey`, `DowngradeLosesOneKey`, `TextsKept`; `DiffBracketed`; `DuplicatesExact`, `PairsOnce`, `ConceptsScored`; `ScanComplete`, `ScanEnds`) | five edits of the chapters; rows in one table at a time; 4 ids in pages of 2; 3 points at all similarities of two levels, so up to 3 pairs, whose 6 results batches of 3 split in the middle of a pair; 4 texts, so that the last batch is short; 2 pages, 2 workers, 2 tries |

The storage fallback needs two errors to skip a result (the batch, then the single one), hence `MaxErrors = 2`.
In `interview`, `Pairs = {1}` because numbers of pairs only multiply chunks, `MaxIndexed` stops index stages from
starting late, and `RowsUnordered = FALSE` lets rows come in one order, as no property of that run depends on it.
Two tables with rows at a time in `Migrations` (`MaxPopulated = 2`) pass too and take longer. `Jobs` gives each
program's variables a fixed value while another runs, so a behaviour is one program's.
Deadlock is not checked in `assistant` and `jobs`: requests and programs end.

Runs that TLC must find violated, each a disagreement between the code and what is said of it
(quoted in `PROJECT.json`):

* `outbox_stuck`: a failed task's rows stay in processing; `reset_stale_events`, to which a comment in `tasks.py`
  leaves them, frees only dispatching rows;
* `crawler_race`: the producer may stop with "all crawled" before the startup reset has freed the rows of the last run;
* `interview_local`: when a section's normalize call has failed, the next section's question-answer pairs are stored
  under it, although a comment says that one failure does not affect the rest;
* `schema_head`: at the last revision the outbox lacks the primary key that its model declares.

Other behaviour of the code that a reader of the models meets, and that the properties are worded around (see the
hazards): a task that claimed nothing goes on, as `claim_events` returns a list and never `None`; with the deployed
`get_qdrant` (`resolves = FALSE`) no event is ever completed; an event whose payload cannot be built rolls its whole
batch back at every poll (`Unbuildable`); a row in `retry` is never selected again; the event id ignores the
recipe's content, so that a recipe crawled again does not reach the indexes; `update_bulk_recipe` overwrites
`created_at`, `retry_count` and `last_error` with NULL (those columns are not modelled); ids that outlive their rows
fill places of the `top_k`, and the tool may answer 404 although rows exist.

### Fairness

`Outbox`: the poller loop and the TaskIQ workers run for ever and the clock advances, so each has weak fairness; the
crawler's inserts and all faults have none. `DeliveredOrLost` states its premises in the formula:
`resolves`, and `Punctual` (a message is claimed before its row is stale). Without the latter a reset can precede every
claim, for ever, which the code does not exclude. It makes no assumption on retries, of which the deployed code has
none, nor that nothing crashes: it names instead the two ends other than completion, a row left in processing by a task
that failed or died after its claim (`Lost`) and a row kept behind one that cannot be built (`Blocked`), and says that
there is no third: no event is lost between commit and dispatch, in the Redis list, or before its claim.

`Crawler`: weak fairness for each task's own steps, since the event loop runs every ready task, the HTTP client has
timeouts and the retry decorators stop; for the shutdown, whose waits end or time out; and for `Start`, since the
crawler is a batch job that is run again. `RunEnds` does not need that last one. No fault has fairness.
`EveryRowCrawled` is conditional: a run whose shutdown times out every time may leave rows for ever.
Errors, crashes and elapsed intervals are finite in number (`MaxErrors`, `MaxCrashes`, `MaxElapses`), which is also
what the liveness properties need to be true.

`Jobs`: weak fairness for the scanner alone: its event loop runs every task, and requests and inserts return or
time out. The other programs may be interrupted anywhere, and nothing is claimed of their ends. `Interview` and
`Assistant` have no liveness property: a model call may hang, and no stage or route bounds it.

## 4. What is proved

`Outbox_proofs` holds for every finite set of events, pollers and workers, `Crawler_proofs` for any table, processes,
consumers, queue and batch sizes, `Interview_proofs` for any runs, number of sections, numbers of pairs and indexes,
all three for any other constants that satisfy `ConstantsOK`; TLC evaluates that assumption in each run.
`Assistant_proofs` holds for any requests, sessions and chunk ids and any natural number `TopK`. The theorems about
`Jobs` hold for any constants that satisfy the `ConstantsOK` of the four modules: any chapter lists and subtitles, any
ids and size of page, any points, similarities, size of batch and orders of the labels, any pages with any links and
any finite set of workers, any number of tables with rows. TLC evaluates these assumptions too.

| theorem | property |
|---|---|
| `Outbox_proofs!TypeCorrect` | `TypeOK` |
| `RowsFollowLifecycle` | `RowLifecycle` |
| `CompletionIsBacked` | `IndexesBackCompletion` |
| `ClaimsAreExclusive` | `ClaimsDisjoint` |
| `NoEventLeftBehind` | `NothingStranded` |
| `PipelineImplementsDelivery` | `DeliveryPromise` |
| `NoUnpaidDelivery` | `DeliveriesPaidFor` |
| `Crawler_proofs!TypeCorrect` | `TypeOK` |
| `EventsCommitted` | `CompletedHasEvent` |
| `NothingLost` | `Accounted` |
| `PagesHeldOnce` | `OneCopy`, if `Alone` |
| `TableAndOutboxAgree` | `RowsAndEventsAgree`, if `Alone` |
| `PagesSettledOnce` | `OutcomeFinal`, if `Alone` |
| `Interview_proofs!TypeCorrect` | `TypeOK` |
| `OneIsCurrent` | `OneCurrentArtifact` |
| `PipelineKeepsAnswers` | `AnswersReplaced` |
| `ChunksAreTraceable` | `ChunksTraceable` |
| `SectionsHaveOneVoice` | `OneVoice` |
| `StagesCover` | `StageCovers` |
| `Assistant_proofs!TypeCorrect` | `TypeOK` |
| `TurnsLostOnlyToOverlap` | `LostOnlyToOverlap` |
| `HistoriesAreTrue` | `SessionsTrue` |
| `FusionIsSound` | `FusionSound` |
| `HydrationKeepsRanking` | `RankKept` |
| `Jobs_proofs!SectionsAreCutInTime` | `SectionsHoldTheirTime` |
| `EditsAreWhole` | `EditsStoredWhole` |
| `DiffIsBracketed` | `DiffBracketed` |
| `ScanLeavesNothing` | `ScanComplete` |
| `Duplicates_proofs!DetectionIsExact` | `DuplicatesExact` |
| `PairsReportedOnce` | `PairsOnce` |
| `ConceptsAreScored` | `ConceptsScored` |
| `Migrations_proofs!HeadIsDeclaredButOneKey` | `HeadLacksOneKey` |
| `DowngradesLoseOneKey` | `DowngradeLosesOneKey` |
| `UpgradesKeepTexts` | `TextsKept` |

Hardly any of these invariants is inductive alone. For `Outbox` the argument climbs:

1. `TypeOK`.
2. `LocksHold`: rows a poller has fetched and not committed are pending and belong to no other poller. It
   turns the commit, which overwrites `status` without a guard, into a step from pending to dispatching, and gives
   `RowLifecycle`.
3. `CarriedAccepted`: whatever a poller, a message or a worker carries is an event of the table.
4. The index invariant: a worker past its Elasticsearch write has its whole message in Elasticsearch, one past its
   Qdrant write in both; so `mark` completes only what is indexed. With 3 it gives `IndexesBackCompletion` and the
   refinement.
5. The claim invariant: a claimed row is processing or completed, and claims are disjoint, because a claim takes
   dispatching rows only and no step returns a processing row.
6. The strand invariant: a dispatching event outside `dropped` still waits for a claim, a processing one is
   carried; a mark completes the whole message it carries.
7. `PaidInv`: of an event whose row waits (`absent`, `pending`) at most as many copies are in flight (`InFlight`: with
   pollers, in the queue, with workers) as stale resets have happened, of any other event one more. A commit turns the
   one into the other, and a reset, which turns it back, has raised the count by one. `DeliveriesPaidFor` alone is not
   inductive: it does not say that a waiting row has one copy less, so a commit would break it. Retries and
   redeliveries move a copy and make none.

For `Crawler`:

1. `TypeInv`: `TypeOK` with the two facts it rests on, that the shutdown has STOP_SIGNALs left to put while it puts
   them, and that the fallback of the storage worker has a result left.
2. `StoredRow`: a transaction leaves a row with its last failure, or completed, or as it was. It gives
   `CompletedHasEvent`.
3. `AccountInv`: what is queued for storage has an outcome, so a row whose result leaves the batch is settled; every
   other step moves a URL on (`At`), and a step that abandons one ends `clean`. It gives `Accounted`.
4. `SoleInv`, for one process, no elapsed interval and pages that name themselves (`Alone`, the conditions of
   `crawler_fair`): URLs are kept once in each place and in one place only, what is kept is in processing, and a
   startup reset will not free it. Then no transaction touches a row twice or one that is settled (`StoredApart`,
   `StoredOnce`), which gives `OneCopy`, `RowsAndEventsAgree` and `OutcomeFinal`.

For `Interview`:

1. `TypeOK`, from what each stage holds (`Held`) and the lists of sections a document may be (`DocumentList`).
2. `SaveInv`: a run saves one row for a place of the unique index, which needs the document to list no section twice;
   what the `UPDATE` has seen is in those places; so the insert, which wants every current row of its places to have
   been seen, takes all of them out. It gives `OneCurrentArtifact`, and, as artifacts are numbered by their saves,
   the refinement of `Answers`.
3. `ChunkInv`: what is on its way to a table or an index comes from an artifact; a conversion takes one artifact for
   a section (from 2, at the moment it read the current ones) and has seen every chunk of its sections that no
   overlapping conversion added; an index stage has written what it has left behind. It gives `ChunksTraceable`,
   `OneVoice` and `StageCovers`.

For `Assistant`:

1. `TypeInv`: `TypeOK` with what a request holds from its beginning on (`Begun`); every step but `Begin` takes one
   request on and keeps that (`Goes`).
2. `LossInv`: turns in the log are of requests that will not move again, and a turn that a running request's history
   lacks was overtaken before that request began (`PastsExplained`). The answer that overwrites a history then loses
   turns of two kinds: those its own history lacked, and those answered while it ran, which it overtakes itself. It
   gives `LostOnlyToOverlap`.
3. `HistoryInv`: the history a running request was given recalls the log up to the moment it began, and the stored one
   recalls all of it; "recalls" (turns of this session, once each, in the order of their answers) survives the one
   turn an answer appends, because that turn is new to the log. It gives `SessionsTrue`.
4. `RetrievalInv`: a request that waits for hydration holds the fusion of the two rankings it was given. What fusion
   returns is a lemma about operators: `InOrder` lists a finite set with a strict total order once each and in order;
   `Precedes` is such an order, as fractions with positive denominators are totally preordered and no two ids entered
   the dictionary at one place; and an id ranked before another by one search, and not behind it by the other, has no
   smaller score. `RowsOf` and `Top` keep order. It gives `FusionSound` and `RankKept`.

For `Jobs`, each theorem says that the job that runs satisfies the invariant of its module:

* `Import`: a list of chapters is accepted only if it has as many keys as chapters, so that no two begin at one time;
  key and chapter of a position are then the same (`KeysOfAccepted`), and the key of a subtitle is the last chapter
  begun, so no subtitle is in two positions. What an import adds is the end of its own list of chapters behind the rows
  there are, whichever lists those were cut by; with rows numbered without a gap this is `EditsStoredWhole`. A list
  with two chapters at one time has fewer keys than chapters, and would be stored cut short were it not refused.
* `IndexDiff` (`DiffInv`): what was in Qdrant at the start is fetched or not before the offset, what was in
  Elasticsearch is fetched or among the hits to come, and what is fetched was there.
* `Scanner` (`ScanInv`): the count of unfinished items is the length of the queue plus the number of busy workers, and
  what was found is in the queue, in a hand, a row or refused. A count of zero therefore leaves nothing to lose.
* `Duplicates`: the detections take one step, and the proof is about lists. `PickedList` says that picking places keeps
  order and elements (counting the places below each is a bijection), `FlattenKeeps` that flattening keeps elements,
  `OneOfEach` that deduplication keeps one candidate of each key, `ClassifiedInOrder` that classifying in batches is
  classifying each text, `ResultIsVerdict` that the label is the verdict in any order of labels, and `BothDirections`
  that results 2i - 1 and 2i are those of pair i. `Printed` puts them together. `FlattenSeq` of the library is a
  recursive function; that one exists is shown by induction over its length, as a set of good lengths (`Stepwise`).

For `Migrations` the tables of all 22 versions have to be known exactly, which is proved in two layers. `Schema_proofs`
runs the operations on the tables alone:

1. An operation touches one table, or makes or drops some (`Do` by cases); a revision is its operations one after the
   other (`AppliedSteps`).
2. `Stage(n)` is written down for every version, and `StageUp` shows, revision by revision, that the upgrade turns
   `Stage(n - 1)` into `Stage(n)`; `StageDown` shows the way back. `LastStage` compares the last with the models.
   `Revisions` is checked entry by entry in the same way (`RevisionsAre`), so a revision changed, left out or out of
   place breaks a leaf. `LastStage` is the models less the outbox's primary key; the keys a dropped column takes along
   are known by their columns (`KeysLeft`, `KeysStay`), the referring tables by `Unreferred`.

`Migrations_proofs` adds what else can be in a database:

3. Servers may have created tables of later versions. A database `Agree`s with the tables of its version if it has
   each of them as it is there; an operation that goes through keeps two databases in agreement (`AgreeApplied`), so
   an upgrade or a downgrade that goes through does to the database what it does to `Stage`. This is `SchemaInv`. The
   baseline revision asks nothing of the database, so an empty one is at version 0 or 1 only (`Fits`): the next
   revision wants `recipes`. That is why `DowngradeLosesOneKey` starts above
   version 1. Version 4 has two outboxes, with the key of `evnet_id` and, after a downgrade, without it (`Unkeyed`):
   `Stands` allows both, and a downgrade always ends in the second (`Given`, `DownAgrees`).
4. At the last version `create_all` makes no other tables, so agreement is equality (`HeadIsLastStage`).
5. Two downgrades never go through, whatever the database holds (`NoWayBackToJson`, `NoWayBackToTextChunks`): the
   first casts a text column to JSON without saying how, the second drops a constraint that has no name. So no
   downgrade crosses versions 16 or 18, and the others are those of 2.
6. `TextInv` says which columns a text can be in (`InPlace`). Each upgrade leaves texts where they are
   (`QuietUps`), or copies them before their place goes (`DescriptionsFilled`, `SpeakersMoved`).
   `ChunksDropped` loses the table `recipe_chunks`, which copies nothing. It is harmless only because from version 8 on
   what is in `recipe_chunks` is in `recipes` too (`Moved`), and because nothing writes `recipe_chunks` after that;
   `TextsKept` alone says neither, and a downgrade that brings an older version back gives up `Moved` with it.

Only model-checked: the liveness properties (`StaleRecovered`, `DeliveredOrLost`, `RunEnds`, `EveryRowCrawled`,
`ScanEnds`), as liveness under fairness is out of the prover's reach.

## 5. Not modelled, and the plan

Not modelled, and why:

* language models, prompts, golden sets and the scripts that produce them: texts around external services, whose
  answers are arbitrary here;
* retrieval metrics and their reports: averages of floating-point numbers, computed once and read by people;
* speaker diarization stages and the reranker: no program calls them;
* the routes of the API other than `/chat`: each reads an index, or a row by its id, and keeps no state;
* HTTP and HTML of the crawled site, index mappings and settings, start-up waiting loops: input and output, or
  configuration;
* `mark_event_failed` and other statements without a caller;
* the browser frontend: it holds no state of the pipelines.

Next:

1. `Ingestion`: `Crawler` composed with `Outbox`, `StoreBatch` being the only writer of `Insert`, with recipe versions,
   for the event id that ignores content.
2. `Interview` composed with `Assistant` in place of `Convert` and `IndexChunks`.
3. Theorems about the composed modules: the abstract outbox of `Ingestion` from the theorems of its parts.
