------------------------------ MODULE Crawler ------------------------------
(***************************************************************************)
(* The recipe crawler: the status column of the recipes table              *)
(* (app/repositories/pg_repository.py) and the crawler processes that work *)
(* on it, each one asyncio TaskGroup of a producer, a stale-row reset      *)
(* worker, some consumers and a storage worker, joined by two bounded      *)
(* queues and stopped by CrawlerApp.graceful_shutdown.                     *)
(*                                                                         *)
(* A database transaction is one step, and so is everything a task does    *)
(* between two awaits.  SKIP LOCKED only hides rows another transaction is *)
(* changing, which is as if that transaction had come first.               *)
(***************************************************************************)
EXTENDS Naturals, Sequences, FiniteSets

CONSTANTS
  Url,         \* detail pages of the site, one row each
  Nowhere,     \* a URL that has no row
  STOP,        \* STOP_SIGNAL
  App,         \* crawler processes (make crawler starts one)
  Consumer,    \* consumer tasks of a process (max_workers=2)
  UrlCap,      \* maxsize of url_queue (100)
  ResultCap,   \* maxsize of result_queue (50)
  FetchSize,   \* batch_size of get_next_url_batch (50)
  StoreSize,   \* batch_size of the storage worker (50)
  Page,        \* Page[u]: the URL that the page at u says is its own
  Slow,        \* shutdown phases whose timeout may strike
  MaxErrors,   \* bound: database errors that outlast their retries
  MaxCrashes,  \* bound: processes killed while they run
  MaxElapses   \* bound: 30 minute intervals that elapse during runs

ASSUME ConstantsOK ==
  /\ IsFiniteSet(Url)
  /\ App # {}
  /\ IsFiniteSet(Consumer) /\ Consumer # {}
  /\ Nowhere \notin Url
  /\ STOP \notin Url
  /\ UrlCap \in Nat \ {0}
  /\ ResultCap \in Nat \ {0}
  /\ FetchSize \in Nat \ {0}
  /\ StoreSize \in Nat \ {0}
  /\ Page \in [Url -> Url \union {Nowhere}]
  /\ Slow \subseteq {"drain_urls", "await_consumers", "drain_results"}
  /\ MaxErrors \in Nat
  /\ MaxCrashes \in Nat
  /\ MaxElapses \in Nat

VARIABLES
  status,   \* the status column of each row, "absent" before its insert
  events,   \* URLs whose recipe.created event is in the outbox table
  due,      \* rows no newer than the cutoff of each process's next reset
  phase,    \* where each process is in CrawlerApp.run
  clean,    \* history: no task of the current run was cut short
  stops,    \* STOP_SIGNALs put on url_queue so far
  ppc,      \* where each producer is
  pbatch,   \* the fetched URLs it has yet to put
  rpc,      \* where each reset worker is
  urlq,     \* url_queue
  hand,     \* the result each consumer is working on
  resq,     \* result_queue
  spc,      \* where each storage worker is
  sbatch,   \* the results it has collected and not acknowledged
  errors,   \* database errors so far
  crashes,  \* crashes so far
  elapses   \* elapsed intervals so far

table == <<status, events, due>>
main == <<phase, clean, stops>>
producer == <<ppc, pbatch>>
storage == <<spc, sbatch>>
faults == <<errors, crashes, elapses>>
vars == <<table, main, producer, rpc, urlq, hand, resq, storage, faults>>

Outcome == {"completed", "failed", "retry", "parsing_error"}
RowStatus == {"pending", "processing"} \union Outcome

\* A CrawlResult; status "processing" while the page is being fetched.
CrawlResult == [url : Url, status : Outcome \union {"processing"}]
StopResult == [url |-> STOP, status |-> "stop"]
Idle == [url |-> STOP, status |-> "idle"]
Stopped == [url |-> STOP, status |-> "stopped"]

InStatus(s) == {u \in Url : status[u] = s}
Stopping(a) == phase[a] \notin {"down", "run"}
Holding(a) == {c \in Consumer : hand[a][c].url # STOP}
SmallerOf(m, n) == IF m < n THEN m ELSE n

TypeOK ==
  /\ status \in [Url -> RowStatus \union {"absent"}]
  /\ events \subseteq Url \union {Nowhere}
  /\ due \in [App -> SUBSET Url]
  /\ phase \in [App -> {"down", "run", "drain_urls", "stop_consumers",
                        "await_consumers", "drain_results", "stop_storage",
                        "await_storage"}]
  /\ clean \in [App -> BOOLEAN]
  /\ stops \in [App -> 0..Cardinality(Consumer)]
  /\ ppc \in [App -> {"fetch", "put", "done"}]
  /\ pbatch \in [App -> SUBSET Url]
  /\ rpc \in [App -> {"startup", "wait", "reset", "done"}]
  /\ urlq \in [App -> Seq(Url \union {STOP})]
  /\ hand \in [App -> [Consumer -> CrawlResult \union {Idle, Stopped}]]
  /\ resq \in [App -> Seq(CrawlResult \union {StopResult})]
  /\ spc \in [App -> {"batch", "single", "done"}]
  /\ sbatch \in [App -> Seq(CrawlResult \union {StopResult})]
  /\ \A a \in App : /\ Len(urlq[a]) <= UrlCap
                    /\ Len(resq[a]) <= ResultCap
                    /\ Len(sbatch[a]) <= StoreSize
  /\ errors \in 0..MaxErrors
  /\ crashes \in 0..MaxCrashes
  /\ elapses \in 0..MaxElapses

\* No process runs; the table is what earlier runs, ended in any way, left.
Init ==
  /\ status \in [Url -> {"absent", "pending", "processing"}]
  /\ events = {}
  /\ due = [a \in App |-> {}]
  /\ phase = [a \in App |-> "down"]
  /\ clean = [a \in App |-> FALSE]
  /\ stops = [a \in App |-> 0]
  /\ ppc = [a \in App |-> "done"]
  /\ pbatch = [a \in App |-> {}]
  /\ rpc = [a \in App |-> "done"]
  /\ urlq = [a \in App |-> <<>>]
  /\ hand = [a \in App |-> [c \in Consumer |-> Stopped]]
  /\ resq = [a \in App |-> <<>>]
  /\ spc = [a \in App |-> "done"]
  /\ sbatch = [a \in App |-> <<>>]
  /\ errors = 0
  /\ crashes = 0
  /\ elapses = 0

-----------------------------------------------------------------------------
(* A process.                                                              *)

\* mutant: the startup reset spares rows younger than the interval too
StartLenient(a) ==
  /\ phase[a] = "down"
  /\ phase' = [phase EXCEPT ![a] = "run"]
  /\ clean' = [clean EXCEPT ![a] = TRUE]
  /\ stops' = [stops EXCEPT ![a] = 0]
  /\ ppc' = [ppc EXCEPT ![a] = "fetch"]
  /\ pbatch' = [pbatch EXCEPT ![a] = {}]
  /\ rpc' = [rpc EXCEPT ![a] = "startup"]
  /\ urlq' = [urlq EXCEPT ![a] = <<>>]
  /\ hand' = [hand EXCEPT ![a] = [c \in Consumer |-> Idle]]
  /\ resq' = [resq EXCEPT ![a] = <<>>]
  /\ spc' = [spc EXCEPT ![a] = "batch"]
  /\ sbatch' = [sbatch EXCEPT ![a] = <<>>]
  /\ due' = [due EXCEPT ![a] = {}]
  /\ UNCHANGED <<status, events, faults>>

\* main and CrawlerApp.run: fresh queues and tasks.  The reset worker takes
\* its cutoff, the present, before the producer runs, so it will find every
\* row that is in processing now.
Start(a) ==
  /\ phase[a] = "down"
  /\ phase' = [phase EXCEPT ![a] = "run"]
  /\ clean' = [clean EXCEPT ![a] = TRUE]
  /\ stops' = [stops EXCEPT ![a] = 0]
  /\ ppc' = [ppc EXCEPT ![a] = "fetch"]
  /\ pbatch' = [pbatch EXCEPT ![a] = {}]
  /\ rpc' = [rpc EXCEPT ![a] = "startup"]
  /\ urlq' = [urlq EXCEPT ![a] = <<>>]
  /\ hand' = [hand EXCEPT ![a] = [c \in Consumer |-> Idle]]
  /\ resq' = [resq EXCEPT ![a] = <<>>]
  /\ spc' = [spc EXCEPT ![a] = "batch"]
  /\ sbatch' = [sbatch EXCEPT ![a] = <<>>]
  /\ due' = [due EXCEPT ![a] = InStatus("processing")]
  /\ UNCHANGED <<status, events, faults>>

\* Every task is gone, and with it what the process held in memory.
Halt(a) ==
  /\ phase' = [phase EXCEPT ![a] = "down"]
  /\ clean' = [clean EXCEPT ![a] = FALSE]
  /\ stops' = [stops EXCEPT ![a] = 0]
  /\ ppc' = [ppc EXCEPT ![a] = "done"]
  /\ pbatch' = [pbatch EXCEPT ![a] = {}]
  /\ rpc' = [rpc EXCEPT ![a] = "done"]
  /\ urlq' = [urlq EXCEPT ![a] = <<>>]
  /\ hand' = [hand EXCEPT ![a] = [c \in Consumer |-> Stopped]]
  /\ resq' = [resq EXCEPT ![a] = <<>>]
  /\ spc' = [spc EXCEPT ![a] = "done"]
  /\ sbatch' = [sbatch EXCEPT ![a] = <<>>]
  /\ due' = [due EXCEPT ![a] = {}]
  /\ UNCHANGED <<status, events, elapses>>

\* An error the producer or the reset worker raises makes the TaskGroup
\* cancel every other task; run only logs it.
TaskFails(a) ==
  /\ ppc[a] = "fetch" \/ rpc[a] \in {"startup", "reset"}
  /\ errors < MaxErrors
  /\ errors' = errors + 1
  /\ UNCHANGED crashes
  /\ Halt(a)

Crash(a) ==
  /\ phase[a] # "down"
  /\ crashes < MaxCrashes
  /\ crashes' = crashes + 1
  /\ UNCHANGED errors
  /\ Halt(a)

-----------------------------------------------------------------------------
(* The rows: discovery, the producer and the reset worker.                 *)

\* The scanner's insert_pending_url; ON CONFLICT DO NOTHING otherwise.
InsertPending(u) ==
  /\ status[u] = "absent"
  /\ status' = [status EXCEPT ![u] = "pending"]
  /\ UNCHANGED <<events, due, main, producer, rpc, urlq, hand, resq, storage,
                 faults>>

\* mutant: the UPDATE of get_next_url_batch is a plain SELECT
FetchUnmarked(a) ==
  /\ ppc[a] = "fetch"
  /\ \E batch \in SUBSET InStatus("pending") :
       /\ Cardinality(batch) =
            SmallerOf(FetchSize, Cardinality(InStatus("pending")))
       /\ ppc' = [ppc EXCEPT ![a] = IF batch = {} THEN "done" ELSE "put"]
       /\ pbatch' = [pbatch EXCEPT ![a] = batch]
  /\ UNCHANGED <<table, main, rpc, urlq, hand, resq, storage, faults>>

\* get_next_url_batch; an empty batch ends the producer.  The UPDATE renews
\* updated_at, which puts the rows past every pending cutoff.
Fetch(a) ==
  /\ ppc[a] = "fetch"
  /\ \E batch \in SUBSET InStatus("pending") :
       /\ Cardinality(batch) =
            SmallerOf(FetchSize, Cardinality(InStatus("pending")))
       /\ status' = [u \in Url |-> IF u \in batch THEN "processing"
                                                  ELSE status[u]]
       /\ due' = [b \in App |-> due[b] \ batch]
       /\ ppc' = [ppc EXCEPT ![a] = IF batch = {} THEN "done" ELSE "put"]
       /\ pbatch' = [pbatch EXCEPT ![a] = batch]
  /\ UNCHANGED <<events, main, rpc, urlq, hand, resq, storage, faults>>

PutUrl(a) ==
  /\ ppc[a] = "put"
  /\ Len(urlq[a]) < UrlCap
  /\ \E u \in pbatch[a] :
       /\ urlq' = [urlq EXCEPT ![a] = Append(@, u)]
       /\ pbatch' = [pbatch EXCEPT ![a] = @ \ {u}]
       /\ ppc' = [ppc EXCEPT ![a] = IF pbatch[a] = {u} THEN "fetch" ELSE "put"]
  /\ UNCHANGED <<table, main, rpc, hand, resq, storage, faults>>

\* 30 minutes are over before the stop event: any rows may be that old.
IntervalElapses(a) ==
  /\ rpc[a] = "wait"
  /\ ~Stopping(a)
  /\ elapses < MaxElapses
  /\ elapses' = elapses + 1
  /\ rpc' = [rpc EXCEPT ![a] = "reset"]
  /\ \E old \in SUBSET InStatus("processing") : due' = [due EXCEPT ![a] = old]
  /\ UNCHANGED <<status, events, main, producer, urlq, hand, resq, storage,
                 errors, crashes>>

\* mutant: reset_stale_events forgets the cutoff
ResetAnyAge(a) ==
  /\ rpc[a] \in {"startup", "reset"}
  /\ status' = [u \in Url |-> IF status[u] = "processing" THEN "pending"
                                                          ELSE status[u]]
  /\ due' = [due EXCEPT ![a] = {}]
  /\ rpc' = [rpc EXCEPT ![a] = IF Stopping(a) THEN "done" ELSE "wait"]
  /\ UNCHANGED <<events, main, producer, urlq, hand, resq, storage, faults>>

\* reset_stale_events
Reset(a) ==
  /\ rpc[a] \in {"startup", "reset"}
  /\ status' = [u \in Url |->
                  IF u \in due[a] /\ status[u] = "processing" THEN "pending"
                                                              ELSE status[u]]
  /\ due' = [due EXCEPT ![a] = {}]
  /\ rpc' = [rpc EXCEPT ![a] = IF Stopping(a) THEN "done" ELSE "wait"]
  /\ UNCHANGED <<events, main, producer, urlq, hand, resq, storage, faults>>

\* The reset worker sees the stop event.
StopResetting(a) ==
  /\ rpc[a] = "wait"
  /\ Stopping(a)
  /\ rpc' = [rpc EXCEPT ![a] = "done"]
  /\ UNCHANGED <<table, main, producer, urlq, hand, resq, storage, faults>>

-----------------------------------------------------------------------------
(* Consumers.                                                              *)

TakeUrl(a, c) ==
  /\ hand[a][c] = Idle
  /\ urlq[a] # <<>>
  /\ LET u == Head(urlq[a])
     IN  hand' = [hand EXCEPT ![a][c] =
                    IF u = STOP THEN Stopped
                                ELSE [url |-> u, status |-> "processing"]]
  /\ urlq' = [urlq EXCEPT ![a] = Tail(@)]
  /\ UNCHANGED <<table, main, producer, rpc, resq, storage, faults>>

\* The request and the parser give a recipe or one of the mapped errors.
Crawl(a, c) ==
  /\ hand[a][c].status = "processing"
  /\ \E s \in Outcome : hand' = [hand EXCEPT ![a][c].status = s]
  /\ UNCHANGED <<table, main, producer, rpc, urlq, resq, storage, faults>>

PutResult(a, c) ==
  /\ hand[a][c].status \in Outcome
  /\ Len(resq[a]) < ResultCap
  /\ resq' = [resq EXCEPT ![a] = Append(@, hand[a][c])]
  /\ hand' = [hand EXCEPT ![a][c] = Idle]
  /\ UNCHANGED <<table, main, producer, rpc, urlq, storage, faults>>

-----------------------------------------------------------------------------
(* The storage worker.                                                     *)

\* mutant: while len(batch) <= batch_size
TakeOneMore(a) ==
  /\ spc[a] = "batch"
  /\ resq[a] # <<>>
  /\ Len(sbatch[a]) <= StoreSize
  /\ sbatch' = [sbatch EXCEPT ![a] = Append(@, Head(resq[a]))]
  /\ resq' = [resq EXCEPT ![a] = Tail(@)]
  /\ UNCHANGED <<table, main, producer, rpc, urlq, hand, spc, faults>>

\* collect_batch takes one more result; it may stop at any size.
TakeResult(a) ==
  /\ spc[a] = "batch"
  /\ resq[a] # <<>>
  /\ Len(sbatch[a]) < StoreSize
  /\ sbatch' = [sbatch EXCEPT ![a] = Append(@, Head(resq[a]))]
  /\ resq' = [resq EXCEPT ![a] = Tail(@)]
  /\ UNCHANGED <<table, main, producer, rpc, urlq, hand, spc, faults>>

\* The pages that the completed results in s name as their own.
Recipes(s) == {Page[s[i].url] : i \in {j \in DOMAIN s : s[j].status = "completed"}}

\* The positions of the results in s that report a failure for row u.
FailuresOf(s, u) ==
  {i \in DOMAIN s : s[i].url = u /\ s[i].status \in Outcome \ {"completed"}}

\* The status column after a transaction has stored s: recipes first, each to
\* the row its page names, then failures in order, each to the row asked for.
Stored(s) ==
  [u \in Url |->
     IF FailuresOf(s, u) # {}
       THEN LET last == CHOOSE i \in FailuresOf(s, u) :
                          \A j \in FailuresOf(s, u) : j <= i
            IN  s[last].status
       ELSE IF u \in Recipes(s) THEN "completed" ELSE status[u]]

\* mutant: the recipes are stored, their events are not
StoreSilently(a) ==
  /\ spc[a] = "batch"
  /\ sbatch[a] # <<>>
  /\ status' = Stored(sbatch[a])
  /\ spc' = [spc EXCEPT ![a] = IF StopResult = sbatch[a][Len(sbatch[a])]
                                 THEN "done" ELSE "batch"]
  /\ sbatch' = [sbatch EXCEPT ![a] = <<>>]
  /\ UNCHANGED <<events, due, main, producer, rpc, urlq, hand, resq, faults>>

\* mutant: the events are not restricted to the completed results
StoreAsCompleted(a) ==
  /\ spc[a] = "batch"
  /\ sbatch[a] # <<>>
  /\ status' = Stored(sbatch[a])
  /\ events' = events \union {Page[sbatch[a][i].url] : i \in
                                {j \in DOMAIN sbatch[a] : sbatch[a][j] # StopResult}}
  /\ spc' = [spc EXCEPT ![a] = IF StopResult = sbatch[a][Len(sbatch[a])]
                                 THEN "done" ELSE "batch"]
  /\ sbatch' = [sbatch EXCEPT ![a] = <<>>]
  /\ UNCHANGED <<due, main, producer, rpc, urlq, hand, resq, faults>>

\* mutant: STOP_SIGNAL is looked for in a batch of its own only
StopWhenAlone(a) ==
  /\ spc[a] = "batch"
  /\ sbatch[a] # <<>>
  /\ status' = Stored(sbatch[a])
  /\ events' = events \union Recipes(sbatch[a])
  /\ spc' = [spc EXCEPT ![a] = IF sbatch[a] = <<StopResult>> THEN "done" ELSE "batch"]
  /\ sbatch' = [sbatch EXCEPT ![a] = <<>>]
  /\ UNCHANGED <<due, main, producer, rpc, urlq, hand, resq, faults>>

\* _ingest_batch commits: rows and events together.  STOP_SIGNAL, which
\* nothing follows, ends the worker.
StoreBatch(a) ==
  /\ spc[a] = "batch"
  /\ sbatch[a] # <<>>
  /\ status' = Stored(sbatch[a])
  /\ events' = events \union Recipes(sbatch[a])
  /\ spc' = [spc EXCEPT ![a] = IF StopResult = sbatch[a][Len(sbatch[a])]
                                 THEN "done" ELSE "batch"]
  /\ sbatch' = [sbatch EXCEPT ![a] = <<>>]
  /\ UNCHANGED <<due, main, producer, rpc, urlq, hand, resq, faults>>

\* mutant: a failed batch is only logged
ForgetBatch(a) ==
  /\ spc[a] = "batch"
  /\ \E i \in DOMAIN sbatch[a] : sbatch[a][i] # StopResult
  /\ errors < MaxErrors
  /\ errors' = errors + 1
  /\ spc' = [spc EXCEPT ![a] = IF StopResult = sbatch[a][Len(sbatch[a])]
                                 THEN "done" ELSE "batch"]
  /\ sbatch' = [sbatch EXCEPT ![a] = <<>>]
  /\ UNCHANGED <<table, main, producer, rpc, urlq, hand, resq, crashes, elapses>>

\* _ingest_batch fails for good: the results are stored one at a time.
BatchFails(a) ==
  /\ spc[a] = "batch"
  /\ \E i \in DOMAIN sbatch[a] : sbatch[a][i] # StopResult
  /\ errors < MaxErrors
  /\ errors' = errors + 1
  /\ spc' = [spc EXCEPT ![a] = "single"]
  /\ UNCHANGED <<table, main, producer, rpc, urlq, hand, resq, sbatch, crashes,
                 elapses>>

\* The fallback leaves its first result behind it.
NextSingle(a) ==
  /\ sbatch' = [sbatch EXCEPT ![a] = Tail(@)]
  /\ spc' = [spc EXCEPT ![a] = IF Len(sbatch[a]) > 1 THEN "single"
                               ELSE IF Head(sbatch[a]) = StopResult THEN "done"
                               ELSE "batch"]

\* _ingest_single_result commits.
StoreSingle(a) ==
  /\ spc[a] = "single"
  /\ status' = Stored(<<Head(sbatch[a])>>)
  /\ events' = events \union Recipes(<<Head(sbatch[a])>>)
  /\ NextSingle(a)
  /\ UNCHANGED <<due, main, producer, rpc, urlq, hand, resq, faults>>

\* _ingest_single_result fails for good: the result is logged and skipped.
SkipSingle(a) ==
  /\ spc[a] = "single"
  /\ Head(sbatch[a]) # StopResult
  /\ errors < MaxErrors
  /\ errors' = errors + 1
  /\ clean' = [clean EXCEPT ![a] = FALSE]
  /\ NextSingle(a)
  /\ UNCHANGED <<table, phase, stops, producer, rpc, urlq, hand, resq, crashes,
                 elapses>>

-----------------------------------------------------------------------------
(* CrawlerApp.run after the producer, and graceful_shutdown.               *)

\* Queue.join returns: every item that was put has been acknowledged.
UrlsJoined(a) == urlq[a] = <<>> /\ Holding(a) = {}
ResultsJoined(a) == resq[a] = <<>> /\ sbatch[a] = <<>>

MoveTo(a, p) == phase' = [phase EXCEPT ![a] = p]

\* The producer is awaited, the stop event set.
BeginShutdown(a) ==
  /\ phase[a] = "run"
  /\ ppc[a] = "done"
  /\ MoveTo(a, "drain_urls")
  /\ UNCHANGED <<table, clean, stops, producer, rpc, urlq, hand, resq, storage,
                 faults>>

\* _drain_url_queue
DrainUrls(a) ==
  /\ phase[a] = "drain_urls"
  /\ UrlsJoined(a) \/ "drain_urls" \in Slow
  /\ MoveTo(a, "stop_consumers")
  /\ UNCHANGED <<table, clean, stops, producer, rpc, urlq, hand, resq, storage,
                 faults>>

\* _stop_consumers puts a STOP_SIGNAL; the put has no timeout.
PutStop(a) ==
  /\ phase[a] = "stop_consumers"
  /\ Len(urlq[a]) < UrlCap
  /\ urlq' = [urlq EXCEPT ![a] = Append(@, STOP)]
  /\ stops' = [stops EXCEPT ![a] = @ + 1]
  /\ MoveTo(a, IF stops[a] + 1 = Cardinality(Consumer) THEN "await_consumers"
                                                       ELSE "stop_consumers")
  /\ UNCHANGED <<table, clean, producer, rpc, hand, resq, storage, faults>>

\* gather returns: every consumer took its STOP_SIGNAL.
ConsumersDone(a) ==
  /\ phase[a] = "await_consumers"
  /\ \A c \in Consumer : hand[a][c] = Stopped
  /\ MoveTo(a, "drain_results")
  /\ UNCHANGED <<table, clean, stops, producer, rpc, urlq, hand, resq, storage,
                 faults>>

\* gather times out: consumers are cancelled, their URLs and the queued ones
\* are abandoned.
CancelConsumers(a) ==
  /\ phase[a] = "await_consumers"
  /\ "await_consumers" \in Slow
  /\ hand' = [hand EXCEPT ![a] = [c \in Consumer |-> Stopped]]
  /\ urlq' = [urlq EXCEPT ![a] = <<>>]
  /\ clean' = [clean EXCEPT ![a] = FALSE]
  /\ MoveTo(a, "drain_results")
  /\ UNCHANGED <<table, stops, producer, rpc, resq, storage, faults>>

\* _drain_result_queue
DrainResults(a) ==
  /\ phase[a] = "drain_results"
  /\ ResultsJoined(a) \/ "drain_results" \in Slow
  /\ MoveTo(a, "stop_storage")
  /\ UNCHANGED <<table, clean, stops, producer, rpc, urlq, hand, resq, storage,
                 faults>>

\* _stop_storage puts the STOP_SIGNAL.
StopStorage(a) ==
  /\ phase[a] = "stop_storage"
  /\ Len(resq[a]) < ResultCap
  /\ resq' = [resq EXCEPT ![a] = Append(@, StopResult)]
  /\ MoveTo(a, "await_storage")
  /\ UNCHANGED <<table, clean, stops, producer, rpc, urlq, hand, storage, faults>>

\* The TaskGroup is empty: the process ends.
Finish(a) ==
  /\ phase[a] = "await_storage"
  /\ spc[a] = "done"
  /\ rpc[a] = "done"
  /\ MoveTo(a, "down")
  /\ stops' = [stops EXCEPT ![a] = 0]
  /\ UNCHANGED <<table, clean, producer, rpc, urlq, hand, resq, storage, faults>>

-----------------------------------------------------------------------------
ProducerStep(a) == Fetch(a) \/ PutUrl(a)
ResetStep(a) == Reset(a) \/ StopResetting(a)
ConsumerStep(a, c) == TakeUrl(a, c) \/ Crawl(a, c) \/ PutResult(a, c)
StorageStep(a) ==
  TakeResult(a) \/ StoreBatch(a) \/ BatchFails(a) \/ StoreSingle(a) \/ SkipSingle(a)
MainStep(a) ==
  \/ BeginShutdown(a) \/ DrainUrls(a) \/ PutStop(a) \/ ConsumersDone(a)
  \/ CancelConsumers(a) \/ DrainResults(a) \/ StopStorage(a) \/ Finish(a)

Next ==
  \/ \E u \in Url : InsertPending(u)
  \/ \E a \in App :
       \/ Start(a) \/ TaskFails(a) \/ Crash(a)
       \/ ProducerStep(a) \/ ResetStep(a) \/ IntervalElapses(a)
       \/ \E c \in Consumer : ConsumerStep(a, c)
       \/ StorageStep(a) \/ MainStep(a)

Spec == Init /\ [][Next]_vars

\* The event loop runs every ready task, requests and transactions return
\* (the client and the retry decorators bound them), and the crawler is run
\* again and again.  A wait of the shutdown ends, or times out if it may.  No
\* task need fail.
Fairness ==
  \A a \in App :
    /\ WF_vars(Start(a))
    /\ WF_vars(ProducerStep(a))
    /\ WF_vars(ResetStep(a))
    /\ \A c \in Consumer : WF_vars(ConsumerStep(a, c))
    /\ WF_vars(TakeResult(a) \/ StoreBatch(a) \/ StoreSingle(a))
    /\ WF_vars(MainStep(a))

FairSpec == Spec /\ Fairness

-----------------------------------------------------------------------------
(* What the crawler is for.                                                *)

\* The places where process a keeps a copy of u.
PlacesIn(a, u) ==
  {<<a, "batch", v>> : v \in pbatch[a] \intersect {u}}
  \union {<<a, "urls", i>> : i \in {j \in DOMAIN urlq[a] : urlq[a][j] = u}}
  \union {<<a, "hand", c>> : c \in {d \in Consumer : hand[a][d].url = u}}
  \union {<<a, "results", i>> : i \in {j \in DOMAIN resq[a] : resq[a][j].url = u}}
  \union {<<a, "store", i>> : i \in {j \in DOMAIN sbatch[a] : sbatch[a][j].url = u}}
Places(u) == UNION {PlacesIn(a, u) : a \in App}

Held == {u \in Url : Places(u) # {}}

\* Rows that the startup reset of a process is still going to free.
ToBeFreed == UNION {due[a] : a \in {b \in App : rpc[b] = "startup"}}

\* Rows no crawl can settle: their page names another URL.
Misnamed == {u \in Url : Page[u] # u}

\* A completed row has its event in the outbox: _ingest_batch and
\* _ingest_single_result write both in one transaction, whatever is retried,
\* split up, skipped or crawled twice.
CompletedHasEvent == InStatus("completed") \subseteq events

\* The converse too: no row with an event is or becomes anything but
\* completed, so recipes and outbox tell the same story.  One process whose
\* rows never outlive the 30 minutes.
RowsAndEventsAgree == InStatus("completed") = events

\* While no run was cut short, every processing row is in the hands of some
\* task or is about to be freed by a startup reset: shutdown, its two drain
\* timeouts included, and the fallback of the storage worker lose nothing.
Accounted ==
  (\A a \in App : clean[a]) =>
    InStatus("processing") \subseteq Held \union ToBeFreed \union Misnamed

\* A process never holds a URL twice, so no page is fetched twice and no
\* result overwrites another.  One process, rows younger than 30 minutes.
OneCopy == \A u \in Url : \A p, q \in Places(u) : p = q

\* No step takes a row out of an outcome: a page is settled once.  One
\* process, rows younger than 30 minutes.
OutcomeFinal ==
  [][\A u \in Url : status[u] \in Outcome => status'[u] = status[u]]_vars

\* graceful_shutdown ends, although both queues are bounded, the puts of
\* STOP_SIGNAL and the storage worker's end have no timeout, and the other
\* timeouts may strike with work undone.
RunEnds == \A a \in App : phase[a] = "run" ~> phase[a] = "down"

\* A timeout of the shutdown strikes: a phase ends before its work is done.
TimesOut(a) ==
  /\ phase'[a] # phase[a]
  /\ \/ phase[a] = "drain_urls" /\ ~UrlsJoined(a)
     \/ phase[a] = "await_consumers" /\ \E c \in Consumer : hand[a][c] # Stopped
     \/ phase[a] = "drain_results" /\ ~ResultsJoined(a)

\* Whatever a crash, an error or a timeout leaves in processing, a later run
\* takes up again: every row the scanner inserts is crawled in the end, unless
\* timeouts cut the shutdowns short for ever.
EveryRowCrawled ==
  (\A a \in App : <>[][~TimesOut(a)]_vars) =>
    \A u \in Url : status[u] = "pending" ~> status[u] \in Outcome

-----------------------------------------------------------------------------
(* What a comment says of the code and the code does not do.               *)

\* url_producer.py: an empty batch means that everything has been crawled.
\* False: the batch may be fetched before the startup reset has freed the
\* rows of an earlier run.
StopsWhenAllCrawled ==
  [][\A a \in App :
       ppc[a] = "fetch" /\ ppc'[a] = "done" /\ phase'[a] = "run" =>
         InStatus("processing") \subseteq Held]_vars

=============================================================================
