------------------------------- MODULE Outbox -------------------------------
(***************************************************************************)
(* The transactional outbox of the recipe pipeline: the outbox table       *)
(* (app/repositories/outbox_repository.py), the poller that moves events   *)
(* from the table to a Redis list (tasks/outbox_poller.py), and the TaskIQ *)
(* workers that write a message's recipes to Elasticsearch and Qdrant      *)
(* (tasks/tasks.py).                                                       *)
(*                                                                         *)
(* A database transaction is one step, except the poller's fetch: its row  *)
(* locks are held while the payloads are built, so fetch and commit are    *)
(* two steps.  Everything between two awaits of a task is one step.        *)
(***************************************************************************)
EXTENDS Naturals, Sequences, FiniteSets

CONSTANTS
  Event,        \* events the crawler may insert
  Poller,       \* poller processes (the Procfile starts one)
  Worker,       \* TaskIQ worker processes (the Makefile starts two)
  BatchLimit,   \* get_pending_events(limit=10)
  StaleAge,     \* age of a dispatched row, in ticks, that stands for 30 min
  Unbuildable,  \* events whose stored payload a DTO constructor rejects
  MaxRetries,   \* deliveries TaskIQ adds after a failed one
  QueueBound,   \* bound: messages the poller may leave waiting in Redis
  MaxErrors,    \* bound: transient errors of a database, Redis or an index
  MaxCrashes,   \* bound: worker processes killed during a task
  MaxResets     \* bound: value at which the history variable resets stops

ASSUME ConstantsOK ==
  /\ IsFiniteSet(Event)
  /\ IsFiniteSet(Poller)
  /\ IsFiniteSet(Worker)
  /\ BatchLimit \in Nat \ {0}
  /\ StaleAge \in Nat \ {0}
  /\ Unbuildable \subseteq Event
  /\ MaxRetries \in Nat
  /\ QueueBound \in Nat
  /\ MaxErrors \in Nat
  /\ MaxCrashes \in Nat
  /\ MaxResets \in Nat

VARIABLES
  status,    \* the outbox row's status, "absent" before it is inserted
  created,   \* the row's created_at, as the number of the insert
  age,       \* ticks since updated_at, of a dispatching row
  ppc,       \* where each poller is in poll_outbox
  pbatch,    \* the events each poller has fetched
  queue,     \* the Redis list
  wpc,       \* where each worker is in sync_to_distributed_db
  msg,       \* the message each worker holds
  claimed,   \* the rows its claim_events returned
  es,        \* events whose document is in Elasticsearch
  qdr,       \* events whose chunks are in Qdrant
  errors,    \* transient errors so far
  crashes,   \* worker crashes so far
  resolves,  \* TRUE iff TaskIQ can build the task's repositories
  resets,    \* history: stale resets of each event, up to MaxResets
  dropped    \* history: events whose last copy of a delivery was given up

rows == <<status, created, age>>
pollers == <<ppc, pbatch>>
workers == <<wpc, msg, claimed>>
indexes == <<es, qdr>>
faults == <<errors, crashes, resolves>>
history == <<resets, dropped>>
vars == <<rows, pollers, queue, workers, indexes, faults, history>>

EventStatus == {"pending", "dispatching", "processing", "completed", "failed"}
Message == [batch : SUBSET Event, tries : 0..MaxRetries]
NoMessage == [batch |-> {}, tries |-> 0]

InStatus(s) == {e \in Event : status[e] = s}
Accepted == {e \in Event : status[e] # "absent"}

TypeOK ==
  /\ status \in [Event -> EventStatus \union {"absent"}]
  /\ created \in [Event -> Nat]
  /\ age \in [Event -> 0..StaleAge]
  /\ ppc \in [Poller -> {"reset", "fetch", "build", "dispatch"}]
  /\ pbatch \in [Poller -> SUBSET Event]
  /\ queue \in Seq(Message)
  /\ wpc \in [Worker -> {"idle", "claim", "index", "embed", "mark"}]
  /\ msg \in [Worker -> Message]
  /\ claimed \in [Worker -> SUBSET Event]
  /\ es \subseteq Event
  /\ qdr \subseteq Event
  /\ errors \in 0..MaxErrors
  /\ crashes \in 0..MaxCrashes
  /\ resolves \in BOOLEAN
  /\ resets \in [Event -> 0..MaxResets]
  /\ dropped \subseteq Event

Init ==
  /\ status = [e \in Event |-> "absent"]
  /\ created = [e \in Event |-> 0]
  /\ age = [e \in Event |-> 0]
  /\ ppc = [p \in Poller |-> "reset"]
  /\ pbatch = [p \in Poller |-> {}]
  /\ queue = <<>>
  /\ wpc = [w \in Worker |-> "idle"]
  /\ msg = [w \in Worker |-> NoMessage]
  /\ claimed = [w \in Worker |-> {}]
  /\ es = {}
  /\ qdr = {}
  /\ errors = 0
  /\ crashes = 0
  /\ resolves \in BOOLEAN
  /\ resets = [e \in Event |-> 0]
  /\ dropped = {}

-----------------------------------------------------------------------------
(* The outbox table.                                                       *)

\* The status column after the rows in S are updated to s.
WithStatus(S, s) == [e \in Event |-> IF e \in S THEN s ELSE status[e]]

\* The ages after the rows in S were updated now.
Touched(S) == [e \in Event |-> IF e \in S THEN 0 ELSE age[e]]

\* created_at of the next insert: later than that of every row.
NextStamp == 1 + Cardinality(Accepted)

\* Fault for DeliveryPromise: the insert overwrites on conflict.
InsertOverwriting(S) ==
  /\ status' = WithStatus(S, "pending")
  /\ created' = [e \in Event |-> IF e \in S THEN NextStamp ELSE created[e]]
  /\ UNCHANGED <<age, pollers, queue, workers, indexes, faults, history>>

\* insert_event, insert_bulk_event: rows that exist already stay as they are.
\* created_at is the transaction's start, so a bulk insert makes ties.
Insert(S) ==
  LET fresh == S \ Accepted IN
  /\ status' = WithStatus(fresh, "pending")
  /\ created' = [e \in Event |-> IF e \in fresh THEN NextStamp ELSE created[e]]
  /\ UNCHANGED <<age, pollers, queue, workers, indexes, faults, history>>

\* Time passes for the rows that wait for a worker.
Tick ==
  LET young == {e \in InStatus("dispatching") : age[e] < StaleAge} IN
  /\ young # {}
  /\ age' = [e \in Event |-> IF e \in young THEN age[e] + 1 ELSE age[e]]
  /\ UNCHANGED <<status, created, pollers, queue, workers, indexes, faults, history>>

-----------------------------------------------------------------------------
(* The poller: reset stale rows, fetch a batch, build it, commit, dispatch. *)

\* Fault for StaleRecovered: the cutoff is one tick too far in the past.
ResetTooOld(p) ==
  LET stale == {e \in InStatus("dispatching") : age[e] > StaleAge} IN
  /\ ppc[p] = "reset"
  /\ status' = WithStatus(stale, "pending")
  /\ age' = Touched(stale)
  /\ ppc' = [ppc EXCEPT ![p] = "fetch"]
  /\ UNCHANGED <<created, pbatch, queue, workers, indexes, faults, history>>

\* reset_stale_events
ResetStale(p) ==
  LET stale == {e \in InStatus("dispatching") : age[e] >= StaleAge} IN
  /\ ppc[p] = "reset"
  /\ status' = WithStatus(stale, "pending")
  /\ age' = Touched(stale)
  /\ resets' = [e \in Event |-> IF e \in stale /\ resets[e] < MaxResets
                                THEN resets[e] + 1 ELSE resets[e]]
  /\ ppc' = [ppc EXCEPT ![p] = "fetch"]
  /\ UNCHANGED <<created, pbatch, queue, workers, indexes, faults, dropped>>

\* Fault for DeliveriesPaidFor: the fetch neither locks nor skips locked rows.
NothingLocked == {}

\* Rows another poller's open transaction has locked are skipped.
Locked == UNION {pbatch[p] : p \in {r \in Poller : ppc[r] = "build"}}
Available == InStatus("pending") \ Locked

\* The batches that ORDER BY created_at LIMIT may return.
OldestBatches ==
  {S \in SUBSET Available :
     /\ S # {}
     /\ Cardinality(S) <= BatchLimit
     /\ Cardinality(S) = BatchLimit \/ S = Available
     /\ \A e \in S, f \in Available \ S : created[e] <= created[f]}

\* get_pending_events; the transaction stays open.
Fetch(p) ==
  /\ ppc[p] = "fetch"
  /\ \E S \in OldestBatches : pbatch' = [pbatch EXCEPT ![p] = S]
  /\ ppc' = [ppc EXCEPT ![p] = "build"]
  /\ UNCHANGED <<rows, queue, workers, indexes, faults, history>>

FetchNothing(p) ==
  /\ ppc[p] = "fetch"
  /\ Available = {}
  /\ ppc' = [ppc EXCEPT ![p] = "reset"]
  /\ UNCHANGED <<rows, pbatch, queue, workers, indexes, faults, history>>

\* Every payload of the batch was built: the transaction commits.
CommitBatch(p) ==
  /\ ppc[p] = "build"
  /\ pbatch[p] \intersect Unbuildable = {}
  /\ status' = WithStatus(pbatch[p], "dispatching")
  /\ age' = Touched(pbatch[p])
  /\ ppc' = [ppc EXCEPT ![p] = "dispatch"]
  /\ UNCHANGED <<created, pbatch, queue, workers, indexes, faults, history>>

\* One payload is rejected: the exception rolls the whole batch back and
\* run_poller logs it.
RollbackBatch(p) ==
  /\ ppc[p] = "build"
  /\ pbatch[p] \intersect Unbuildable # {}
  /\ ppc' = [ppc EXCEPT ![p] = "reset"]
  /\ pbatch' = [pbatch EXCEPT ![p] = {}]
  /\ UNCHANGED <<rows, queue, workers, indexes, faults, history>>

\* dispatch_fn: one message for the batch.
Dispatch(p) ==
  /\ ppc[p] = "dispatch"
  /\ Len(queue) < QueueBound
  /\ queue' = Append(queue, [batch |-> pbatch[p], tries |-> 0])
  /\ ppc' = [ppc EXCEPT ![p] = "reset"]
  /\ pbatch' = [pbatch EXCEPT ![p] = {}]
  /\ UNCHANGED <<rows, workers, indexes, faults, history>>

\* An error, or the end of the process: before the commit nothing happened,
\* after it the batch is marked dispatching and no message carries it.
PollerFails(p) ==
  /\ ppc[p] \in {"build", "dispatch"}
  /\ errors < MaxErrors
  /\ errors' = errors + 1
  /\ dropped' = IF ppc[p] = "dispatch" THEN dropped \union pbatch[p] ELSE dropped
  /\ ppc' = [ppc EXCEPT ![p] = "reset"]
  /\ pbatch' = [pbatch EXCEPT ![p] = {}]
  /\ UNCHANGED <<rows, queue, workers, indexes, crashes, resolves, resets>>

-----------------------------------------------------------------------------
(* The worker: sync_to_distributed_db.                                     *)

Release(w) ==
  /\ wpc' = [wpc EXCEPT ![w] = "idle"]
  /\ msg' = [msg EXCEPT ![w] = NoMessage]
  /\ claimed' = [claimed EXCEPT ![w] = {}]

\* BRPOP: the message leaves Redis when a worker takes it.
Receive(w) ==
  /\ wpc[w] = "idle"
  /\ queue # <<>>
  /\ msg' = [msg EXCEPT ![w] = Head(queue)]
  /\ queue' = Tail(queue)
  /\ wpc' = [wpc EXCEPT ![w] = "claim"]
  /\ UNCHANGED <<rows, pollers, claimed, indexes, faults, history>>

\* Fault for ClaimsDisjoint: the claim takes unfinished rows as well.
ClaimUnfinished(w) ==
  LET mine == msg[w].batch \intersect (InStatus("dispatching") \union InStatus("processing")) IN
  /\ wpc[w] = "claim"
  /\ resolves
  /\ status' = WithStatus(mine, "processing")
  /\ age' = Touched(mine)
  /\ claimed' = [claimed EXCEPT ![w] = mine]
  /\ wpc' = [wpc EXCEPT ![w] = "index"]
  /\ UNCHANGED <<created, pollers, queue, msg, indexes, faults, history>>

\* Fault for NothingStranded: a task that claims no row returns.
ClaimOrStop(w) ==
  LET mine == msg[w].batch \intersect InStatus("dispatching") IN
  /\ wpc[w] = "claim"
  /\ resolves
  /\ status' = WithStatus(mine, "processing")
  /\ age' = Touched(mine)
  /\ IF mine = {}
       THEN Release(w)
       ELSE /\ claimed' = [claimed EXCEPT ![w] = mine]
            /\ wpc' = [wpc EXCEPT ![w] = "index"]
            /\ UNCHANGED msg
  /\ UNCHANGED <<created, pollers, queue, indexes, faults, history>>

\* claim_events returns a list, never None: a task that claims no row goes on.
Claim(w) ==
  LET mine == msg[w].batch \intersect InStatus("dispatching") IN
  /\ wpc[w] = "claim"
  /\ resolves
  /\ status' = WithStatus(mine, "processing")
  /\ age' = Touched(mine)
  /\ claimed' = [claimed EXCEPT ![w] = mine]
  /\ wpc' = [wpc EXCEPT ![w] = "index"]
  /\ UNCHANGED <<created, pollers, queue, msg, indexes, faults, history>>

\* Fault for IndexesBackCompletion: only the claimed documents are indexed.
IndexClaimed(w) ==
  /\ wpc[w] = "index"
  /\ es' = es \union claimed[w]
  /\ wpc' = [wpc EXCEPT ![w] = "embed"]
  /\ UNCHANGED <<rows, pollers, queue, msg, claimed, qdr, faults, history>>

\* index_batch_document: every document of the message, claimed or not.
IndexDocuments(w) ==
  /\ wpc[w] = "index"
  /\ es' = es \union msg[w].batch
  /\ wpc' = [wpc EXCEPT ![w] = "embed"]
  /\ UNCHANGED <<rows, pollers, queue, msg, claimed, qdr, faults, history>>

\* upsert_batch_chunk: one upsert of all chunks of the message.
UpsertChunks(w) ==
  /\ wpc[w] = "embed"
  /\ qdr' = qdr \union msg[w].batch
  /\ wpc' = [wpc EXCEPT ![w] = "mark"]
  /\ UNCHANGED <<rows, pollers, queue, msg, claimed, es, faults, history>>

\* Fault for DeliveredOrLost: a task marks only what it claimed itself.
MarkClaimed(w) ==
  LET done == claimed[w] \intersect InStatus("processing") IN
  /\ wpc[w] = "mark"
  /\ status' = WithStatus(done, "completed")
  /\ age' = Touched(done)
  /\ Release(w)
  /\ UNCHANGED <<created, pollers, queue, indexes, faults, history>>

\* mark_event_completed: only rows in processing.
MarkCompleted(w) ==
  LET done == msg[w].batch \intersect InStatus("processing") IN
  /\ wpc[w] = "mark"
  /\ status' = WithStatus(done, "completed")
  /\ age' = Touched(done)
  /\ Release(w)
  /\ UNCHANGED <<created, pollers, queue, indexes, faults, history>>

\* Fault for TypeOK: one retry more than TaskIQ allows.
FailOnceMore(w) ==
  /\ IF msg[w].tries <= MaxRetries
       THEN /\ queue' = Append(queue, [msg[w] EXCEPT !.tries = @ + 1])
            /\ UNCHANGED dropped
       ELSE /\ dropped' = dropped \union msg[w].batch
            /\ UNCHANGED queue
  /\ Release(w)
  /\ UNCHANGED <<rows, pollers, crashes, resolves, resets>>

\* The task raised: TaskIQ sends the message again or gives it up.
Fail(w) ==
  /\ IF msg[w].tries < MaxRetries
       THEN /\ queue' = Append(queue, [msg[w] EXCEPT !.tries = @ + 1])
            /\ UNCHANGED dropped
       ELSE /\ dropped' = dropped \union msg[w].batch
            /\ UNCHANGED queue
  /\ Release(w)
  /\ UNCHANGED <<rows, pollers, crashes, resolves, resets>>

\* get_qdrant raises before the task body runs.
InjectionFails(w) ==
  /\ wpc[w] = "claim"
  /\ ~resolves
  /\ Fail(w)
  /\ UNCHANGED <<indexes, errors>>

\* What an index call of the message may have written when it ends early:
\* any documents of the bulk request, all chunks of the upsert or none.
PartialWrites(w) ==
  CASE wpc[w] = "index" -> [es : SUBSET msg[w].batch, qdr : {{}}]
    [] wpc[w] = "embed" -> [es : {{}}, qdr : {{}, msg[w].batch}]
    [] OTHER            -> [es : {{}}, qdr : {{}}]

WritePart(w) ==
  \E part \in PartialWrites(w) :
    /\ es' = es \union part.es
    /\ qdr' = qdr \union part.qdr

\* A database, Elasticsearch, the embedding service or Qdrant fails; the
\* exception leaves the task and the rows keep their status.
TaskFails(w) ==
  /\ wpc[w] # "idle"
  /\ resolves
  /\ errors < MaxErrors
  /\ errors' = errors + 1
  /\ WritePart(w)
  /\ Fail(w)

\* The process dies with the only copy of the message.
WorkerCrashes(w) ==
  /\ wpc[w] # "idle"
  /\ crashes < MaxCrashes
  /\ crashes' = crashes + 1
  /\ WritePart(w)
  /\ dropped' = dropped \union msg[w].batch
  /\ Release(w)
  /\ UNCHANGED <<rows, pollers, queue, errors, resolves, resets>>

-----------------------------------------------------------------------------
PollStep(p) ==
  \/ ResetStale(p)
  \/ Fetch(p)
  \/ FetchNothing(p)
  \/ CommitBatch(p)
  \/ RollbackBatch(p)
  \/ Dispatch(p)

TaskStep(w) ==
  \/ Receive(w)
  \/ Claim(w)
  \/ InjectionFails(w)
  \/ IndexDocuments(w)
  \/ UpsertChunks(w)
  \/ MarkCompleted(w)

Next ==
  \/ \E S \in SUBSET Event \ {{}} : Insert(S)
  \/ Tick
  \/ \E p \in Poller : PollStep(p) \/ PollerFails(p)
  \/ \E w \in Worker : TaskStep(w) \/ TaskFails(w) \/ WorkerCrashes(w)

\* run_poller and the TaskIQ workers loop for ever and the clock advances;
\* nothing is assumed about the crawler's inserts or about faults.
Fairness ==
  /\ WF_vars(Tick)
  /\ \A p \in Poller : WF_vars(PollStep(p))
  /\ \A w \in Worker : WF_vars(TaskStep(w))

Spec == Init /\ [][Next]_vars
FairSpec == Spec /\ Fairness

-----------------------------------------------------------------------------
(* Properties.                                                             *)

\* A completed event is searchable in both indexes, whichever worker marked
\* it; an event is in Qdrant only if its document is in Elasticsearch
\* (tasks.py writes Elasticsearch first); only stored events are indexed.
IndexesBackCompletion ==
  /\ InStatus("completed") \subseteq es \intersect qdr
  /\ qdr \subseteq es
  /\ es \subseteq Accepted

\* A delivery of e is on its way to a claim, or in the hands of a task.
Waiting(e) ==
  \/ \E p \in Poller : ppc[p] = "dispatch" /\ e \in pbatch[p]
  \/ \E i \in DOMAIN queue : e \in queue[i].batch
  \/ \E w \in Worker : wpc[w] = "claim" /\ e \in msg[w].batch
Carried(e) == Waiting(e) \/ \E w \in Worker : e \in msg[w].batch

\* A dispatched event has a delivery that will still reach a claim; an event
\* that a task has claimed, or that is in one index and not in the other (what
\* qdrant_es_diff.py reports), has a carrier; or a fault took the last one.
\* The guards of claim, reset and mark leave no event behind by themselves.
NothingStranded ==
  \A e \in Event \ dropped :
    /\ status[e] = "dispatching" => Waiting(e)
    /\ status[e] = "processing" \/ e \in es \ qdr => Carried(e)

\* Copies of e between the commit of a fetch and the end of a task.
InFlight(e) ==
  Cardinality({p \in Poller : ppc[p] = "dispatch" /\ e \in pbatch[p]})
  + Cardinality({i \in DOMAIN queue : e \in queue[i].batch})
  + Cardinality({w \in Worker : e \in msg[w].batch})

\* Locks and statuses let one delivery of an event exist at a time; every
\* further one was paid for by a stale reset.  (outbox_repository.py:73: SKIP
\* LOCKED keeps several pollers from handling an event twice.)
DeliveriesPaidFor ==
  \A e \in Event : resets[e] < MaxResets => InFlight(e) <= 1 + resets[e]

\* The life of a row, across every interleaving of pollers and tasks: a commit
\* never takes back a claim or a completion that another process made since
\* the fetch.
Lifecycle ==
  { <<"absent", "pending">>, <<"pending", "dispatching">>,
    <<"dispatching", "pending">>, <<"dispatching", "processing">>,
    <<"processing", "completed">> }
RowStep ==
  \A e \in Event :
    status'[e] = status[e] \/ <<status[e], status'[e]>> \in Lifecycle
RowLifecycle == [][RowStep]_vars

\* Two tasks never hold a claim on one event, however often it is delivered.
ClaimsDisjoint ==
  \A v, w \in Worker : v # w => claimed[v] \intersect claimed[w] = {}

\* The pipeline implements the delivery promise.
Delivery == INSTANCE EventDelivery
              WITH accepted <- Accepted, inEs <- es, inQdrant <- qdr,
                   delivered <- InStatus("completed")
DeliveryPromise == Delivery!Spec

\* The stale reset frees every dispatched row that no worker claims: a lost
\* message delays an event, it does not hold it.
StaleRecovered ==
  \A e \in Event : status[e] = "dispatching" ~> status[e] # "dispatching"

\* From some time on no delivery that still exists grows stale: a message is
\* claimed within the 30 minutes of reset_stale_events.
Punctual ==
  <>[](\A e \in InStatus("dispatching") : age[e] >= StaleAge => InFlight(e) = 0)

\* A task claimed e and an error without a retry left, or a crash, ended the
\* last delivery before it was marked: nothing sends e again.
Lost(e) == e \in dropped /\ status[e] = "processing" /\ ~Carried(e)

\* A pending row that cannot be built rolls back every batch it is in.
Blocked == \E u \in Unbuildable : status[u] = "pending"

\* What becomes of a pending event where tasks.py's dependencies can be built
\* and messages are punctual, for any number of retries (none is deployed) and
\* finitely many errors and crashes: it is completed, or stays in processing
\* because a fault ended its last delivery between claim and mark, or waits
\* behind a row that cannot be built.  It is lost in no other place, neither
\* between commit and dispatch nor in the Redis list.  Without Punctual a
\* message can be reset just before each claim, for ever: the claim finds the
\* row pending, the task indexes the recipe and marks nothing.
DeliveredOrLost ==
  resolves /\ Punctual =>
    \A e \in Event \ Unbuildable :
      status[e] = "pending" ~> status[e] = "completed" \/ Lost(e) \/ Blocked

-----------------------------------------------------------------------------
(* What comments and tests say and the code does not do.                   *)

\* tasks.py:80, on a failed task: reset_stale_events lets the event go back to
\* pending and run again.
FailedTaskRunsAgain ==
  \A e \in Event : status[e] = "processing" ~> status[e] # "processing"
=============================================================================
