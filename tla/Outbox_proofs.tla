--------------------------- MODULE Outbox_proofs ---------------------------
(***************************************************************************)
(* Proofs about Outbox for any sets of events, pollers and workers, any    *)
(* batch limit and any number of faults.                                   *)
(*                                                                         *)
(* The invariants are layered: types, then what a poller's row locks       *)
(* guarantee, then how a row's status may change, then what is in the      *)
(* messages, in the indexes and in the claims, and last how many copies of *)
(* an event there are.  Each layer's step lemma uses the layers before it. *)
(***************************************************************************)
EXTENDS Outbox, FiniteSetTheorems, FunctionTheorems, TLAPS

\* The next created_at is a number, as the table is finite.
LEMMA StampIsNat == Accepted \subseteq Event /\ NextStamp \in Nat
<1>1. Accepted \subseteq Event
  BY DEF Accepted
<1>2. IsFiniteSet(Accepted)
  BY <1>1, ConstantsOK, FS_Subset
<1>3. QED
  BY <1>1, <1>2, FS_CardinalityType DEF NextStamp

-----------------------------------------------------------------------------
(* Types.                                                                  *)

LEMMA TypeInit == Init => TypeOK
BY ConstantsOK DEF Init, TypeOK, NoMessage, Message

LEMMA TypeStep == TypeOK /\ [Next]_vars => TypeOK'
<1> SUFFICES ASSUME TypeOK, [Next]_vars
             PROVE  TypeOK'
  OBVIOUS
<1> USE ConstantsOK DEF TypeOK
<1>1. ASSUME NEW S \in SUBSET Event, Insert(S)
      PROVE  TypeOK'
  BY <1>1, StampIsNat
     DEF Insert, WithStatus, EventStatus, pollers, workers, indexes, faults, history
<1>2. CASE Tick
  BY <1>2 DEF Tick, pollers, workers, indexes, faults, history
<1>3. ASSUME NEW p \in Poller, ResetStale(p)
      PROVE  TypeOK'
  BY <1>3 DEF ResetStale, WithStatus, Touched, EventStatus, workers, indexes, faults
<1>4. ASSUME NEW p \in Poller, Fetch(p)
      PROVE  TypeOK'
  BY <1>4 DEF Fetch, OldestBatches, Available, InStatus,
              rows, workers, indexes, faults, history
<1>5. ASSUME NEW p \in Poller, FetchNothing(p)
      PROVE  TypeOK'
  BY <1>5 DEF FetchNothing, rows, workers, indexes, faults, history
<1>6. ASSUME NEW p \in Poller, CommitBatch(p)
      PROVE  TypeOK'
  BY <1>6 DEF CommitBatch, WithStatus, Touched, EventStatus,
              workers, indexes, faults, history
<1>7. ASSUME NEW p \in Poller, RollbackBatch(p)
      PROVE  TypeOK'
  BY <1>7 DEF RollbackBatch, rows, workers, indexes, faults, history
<1>8. ASSUME NEW p \in Poller, Dispatch(p)
      PROVE  TypeOK'
  BY <1>8 DEF Dispatch, Message, rows, workers, indexes, faults, history
<1>9. ASSUME NEW p \in Poller, PollerFails(p)
      PROVE  TypeOK'
  BY <1>9 DEF PollerFails, rows, workers, indexes
<1>10. ASSUME NEW w \in Worker, Receive(w)
       PROVE  TypeOK'
  BY <1>10 DEF Receive, rows, pollers, indexes, faults, history
<1>11. ASSUME NEW w \in Worker, Claim(w)
       PROVE  TypeOK'
  BY <1>11 DEF Claim, InStatus, WithStatus, Touched, EventStatus,
               pollers, indexes, faults, history
<1>12. ASSUME NEW w \in Worker, IndexDocuments(w)
       PROVE  TypeOK'
  BY <1>12 DEF IndexDocuments, Message, rows, pollers, faults, history
<1>13. ASSUME NEW w \in Worker, UpsertChunks(w)
       PROVE  TypeOK'
  BY <1>13 DEF UpsertChunks, Message, rows, pollers, faults, history
<1>14. ASSUME NEW w \in Worker, MarkCompleted(w)
       PROVE  TypeOK'
  BY <1>14 DEF MarkCompleted, Release, NoMessage, Message, WithStatus, Touched,
               EventStatus, pollers, indexes, faults, history
<1>15. ASSUME NEW w \in Worker, Fail(w)
       PROVE  /\ queue' \in Seq(Message)
              /\ dropped' \subseteq Event
              /\ wpc' \in [Worker -> {"idle", "claim", "index", "embed", "mark"}]
              /\ msg' \in [Worker -> Message]
              /\ claimed' \in [Worker -> SUBSET Event]
              /\ UNCHANGED <<rows, pollers, crashes, resolves, resets>>
  <2>1. /\ wpc' \in [Worker -> {"idle", "claim", "index", "embed", "mark"}]
        /\ msg' \in [Worker -> Message]
        /\ claimed' \in [Worker -> SUBSET Event]
        /\ UNCHANGED <<rows, pollers, crashes, resolves, resets>>
    BY <1>15 DEF Fail, Release, NoMessage, Message
  <2>2. CASE msg[w].tries < MaxRetries
    <3>1. /\ msg[w].batch \in SUBSET Event
          /\ msg[w].tries + 1 \in 0..MaxRetries
      BY <2>2 DEF Message
    <3>2. [msg[w] EXCEPT !.tries = @ + 1] \in Message
      BY <3>1 DEF Message
    <3>3. queue' = Append(queue, [msg[w] EXCEPT !.tries = @ + 1]) /\ dropped' = dropped
      BY <1>15, <2>2 DEF Fail
    <3>4. QED
      BY <2>1, <3>2, <3>3
  <2>3. CASE ~(msg[w].tries < MaxRetries)
    BY <1>15, <2>1, <2>3 DEF Fail, Message
  <2>4. QED
    BY <2>2, <2>3
<1>16. ASSUME NEW w \in Worker, WritePart(w)
       PROVE  es' \subseteq Event /\ qdr' \subseteq Event
  BY <1>16 DEF WritePart, PartialWrites, Message
<1>17. ASSUME NEW w \in Worker, InjectionFails(w)
       PROVE  TypeOK'
  BY <1>15, <1>17 DEF InjectionFails, rows, pollers, indexes
<1>18. ASSUME NEW w \in Worker, TaskFails(w)
       PROVE  TypeOK'
  <2>1. errors' \in 0..MaxErrors /\ WritePart(w) /\ Fail(w)
    BY <1>18 DEF TaskFails
  <2>2. es' \subseteq Event /\ qdr' \subseteq Event
    BY <1>16, <2>1
  <2>3. QED
    BY <1>15, <2>1, <2>2 DEF rows, pollers
<1>19. ASSUME NEW w \in Worker, WorkerCrashes(w)
       PROVE  TypeOK'
  BY <1>16, <1>19 DEF WorkerCrashes, Release, NoMessage, Message, rows, pollers
<1>20. CASE UNCHANGED vars
  BY <1>20 DEF vars, rows, pollers, workers, indexes, faults, history
<1>21. QED
  BY <1>1, <1>2, <1>3, <1>4, <1>5, <1>6, <1>7, <1>8, <1>9, <1>10, <1>11, <1>12,
     <1>13, <1>14, <1>17, <1>18, <1>19, <1>20 DEF Next, PollStep, TaskStep

\* Every reachable state has the declared types, whatever the constants.
THEOREM TypeCorrect == Spec => []TypeOK
BY TypeInit, TypeStep, PTL DEF Spec

-----------------------------------------------------------------------------
(* Row locks: what an open fetch transaction can rely on until it commits.  *)

LocksHold ==
  /\ \A p \in Poller : ppc[p] = "build" => pbatch[p] \subseteq InStatus("pending")
  /\ \A p, q \in Poller :
       p # q /\ ppc[p] = "build" /\ ppc[q] = "build"
         => pbatch[p] \intersect pbatch[q] = {}

LEMMA LocksInit == Init => LocksHold
BY DEF Init, LocksHold

LEMMA LocksStep == TypeOK /\ LocksHold /\ [Next]_vars => LocksHold'
<1> SUFFICES ASSUME TypeOK, LocksHold, [Next]_vars
             PROVE  LocksHold'
  OBVIOUS
<1> USE DEF TypeOK, LocksHold, InStatus
<1>1. ASSUME NEW S \in SUBSET Event, Insert(S)
      PROVE  LocksHold'
  BY <1>1 DEF Insert, Accepted, WithStatus, pollers
<1>2. CASE Tick
  BY <1>2 DEF Tick, pollers
<1>3. ASSUME NEW p \in Poller, ResetStale(p)
      PROVE  LocksHold'
  BY <1>3 DEF ResetStale, WithStatus
<1>4. ASSUME NEW p \in Poller, Fetch(p)
      PROVE  LocksHold'
  <2>1. PICK S \in OldestBatches : pbatch' = [pbatch EXCEPT ![p] = S]
    BY <1>4 DEF Fetch
  <2>2. S \subseteq InStatus("pending") /\ S \intersect Locked = {}
    BY <2>1 DEF OldestBatches, Available
  <2>3. \A q \in Poller : ppc[q] = "build" => S \intersect pbatch[q] = {}
    BY <2>2 DEF Locked
  <2>4. QED
    BY <1>4, <2>1, <2>2, <2>3 DEF Fetch, rows
<1>5. ASSUME NEW p \in Poller, FetchNothing(p)
      PROVE  LocksHold'
  BY <1>5 DEF FetchNothing, rows
<1>6. ASSUME NEW p \in Poller, CommitBatch(p)
      PROVE  LocksHold'
  BY <1>6 DEF CommitBatch, WithStatus
<1>7. ASSUME NEW p \in Poller,
             RollbackBatch(p) \/ Dispatch(p) \/ PollerFails(p)
      PROVE  LocksHold'
  BY <1>7 DEF RollbackBatch, Dispatch, PollerFails, rows
<1>8. ASSUME NEW w \in Worker, Claim(w)
      PROVE  LocksHold'
  BY <1>8 DEF Claim, WithStatus, pollers
<1>9. ASSUME NEW w \in Worker, MarkCompleted(w)
      PROVE  LocksHold'
  BY <1>9 DEF MarkCompleted, WithStatus, pollers
<1>10. ASSUME NEW w \in Worker,
              \/ Receive(w) \/ IndexDocuments(w) \/ UpsertChunks(w)
              \/ InjectionFails(w) \/ TaskFails(w) \/ WorkerCrashes(w)
       PROVE  LocksHold'
  BY <1>10 DEF Receive, IndexDocuments, UpsertChunks, InjectionFails, TaskFails,
               WorkerCrashes, Fail, rows, pollers
<1>11. CASE UNCHANGED vars
  BY <1>11 DEF vars, rows, pollers
<1>12. QED
  BY <1>1, <1>2, <1>3, <1>4, <1>5, <1>6, <1>7, <1>8, <1>9, <1>10, <1>11
     DEF Next, PollStep, TaskStep

LEMMA LocksInvariant == Spec => [](TypeOK /\ LocksHold)
BY TypeInit, TypeStep, LocksInit, LocksStep, PTL DEF Spec

-----------------------------------------------------------------------------
(* The life of a row.                                                      *)

LEMMA RowStepLemma == TypeOK /\ LocksHold /\ [Next]_vars => RowStep
<1> SUFFICES ASSUME TypeOK, LocksHold, [Next]_vars
             PROVE  RowStep
  OBVIOUS
<1> USE DEF TypeOK, RowStep, Lifecycle, InStatus
<1>1. ASSUME NEW S \in SUBSET Event, Insert(S)
      PROVE  RowStep
  BY <1>1 DEF Insert, Accepted, WithStatus
<1>2. CASE Tick
  BY <1>2 DEF Tick
<1>3. ASSUME NEW p \in Poller, ResetStale(p)
      PROVE  RowStep
  BY <1>3 DEF ResetStale, WithStatus
<1>4. ASSUME NEW p \in Poller, CommitBatch(p)
      PROVE  RowStep
  BY <1>4 DEF CommitBatch, WithStatus, LocksHold
<1>5. ASSUME NEW p \in Poller,
             \/ Fetch(p) \/ FetchNothing(p) \/ RollbackBatch(p)
             \/ Dispatch(p) \/ PollerFails(p)
      PROVE  RowStep
  BY <1>5 DEF Fetch, FetchNothing, RollbackBatch, Dispatch, PollerFails, rows
<1>6. ASSUME NEW w \in Worker, Claim(w)
      PROVE  RowStep
  BY <1>6 DEF Claim, WithStatus
<1>7. ASSUME NEW w \in Worker, MarkCompleted(w)
      PROVE  RowStep
  BY <1>7 DEF MarkCompleted, WithStatus
<1>8. ASSUME NEW w \in Worker,
             \/ Receive(w) \/ IndexDocuments(w) \/ UpsertChunks(w)
             \/ InjectionFails(w) \/ TaskFails(w) \/ WorkerCrashes(w)
      PROVE  RowStep
  BY <1>8 DEF Receive, IndexDocuments, UpsertChunks, InjectionFails, TaskFails,
              WorkerCrashes, Fail, rows
<1>9. CASE UNCHANGED vars
  BY <1>9 DEF vars, rows
<1>10. QED
  BY <1>1, <1>2, <1>3, <1>4, <1>5, <1>6, <1>7, <1>8, <1>9 DEF Next, PollStep, TaskStep

\* A row only moves along Lifecycle: no poller or task takes back what another
\* one did to the row in the meantime.
THEOREM RowsFollowLifecycle == Spec => RowLifecycle
<1>1. TypeOK /\ LocksHold /\ [Next]_vars => [RowStep]_vars
  BY RowStepLemma
<1>2. QED
  BY LocksInvariant, <1>1, PTL DEF Spec, RowLifecycle

-----------------------------------------------------------------------------
(* What messages and processes carry was accepted.                         *)

CarriedAccepted ==
  /\ \A p \in Poller : ppc[p] = "dispatch" => pbatch[p] \subseteq Accepted
  /\ \A i \in DOMAIN queue : queue[i].batch \subseteq Accepted
  /\ \A w \in Worker : msg[w].batch \subseteq Accepted

LEMMA AcceptedGrows == TypeOK /\ LocksHold /\ [Next]_vars => Accepted \subseteq Accepted'
BY RowStepLemma DEF RowStep, Lifecycle, Accepted

LEMMA CarriedInit == Init => CarriedAccepted
BY DEF Init, CarriedAccepted, NoMessage

LEMMA CarriedStep ==
  TypeOK /\ LocksHold /\ CarriedAccepted /\ [Next]_vars => CarriedAccepted'
<1> SUFFICES ASSUME TypeOK, LocksHold, CarriedAccepted, [Next]_vars
             PROVE  CarriedAccepted'
  OBVIOUS
<1> USE DEF TypeOK, CarriedAccepted
<1>0. Accepted \subseteq Accepted'
  BY AcceptedGrows
<1>1. ASSUME NEW S \in SUBSET Event, Insert(S)
      PROVE  CarriedAccepted'
  BY <1>0, <1>1 DEF Insert, pollers, workers
<1>2. CASE Tick
  BY <1>0, <1>2 DEF Tick, pollers, workers
<1>3. ASSUME NEW p \in Poller,
             ResetStale(p) \/ Fetch(p) \/ FetchNothing(p) \/ RollbackBatch(p) \/ PollerFails(p)
      PROVE  CarriedAccepted'
  BY <1>0, <1>3 DEF ResetStale, Fetch, FetchNothing, RollbackBatch, PollerFails, workers
<1>4. ASSUME NEW p \in Poller, CommitBatch(p)
      PROVE  CarriedAccepted'
  BY <1>0, <1>4 DEF CommitBatch, LocksHold, InStatus, Accepted, workers
<1>5. ASSUME NEW p \in Poller, Dispatch(p)
      PROVE  CarriedAccepted'
  <2>1. /\ queue' = Append(queue, [batch |-> pbatch[p], tries |-> 0])
        /\ [batch |-> pbatch[p], tries |-> 0] \in Message
        /\ pbatch[p] \subseteq Accepted'
    BY <1>0, <1>5, ConstantsOK DEF Dispatch, Message
  <2>2. \A i \in DOMAIN queue' : queue'[i].batch \subseteq Accepted'
    BY <1>0, <2>1
  <2>3. QED
    BY <1>0, <1>5, <2>2 DEF Dispatch, workers
<1>6. ASSUME NEW w \in Worker, Receive(w)
      PROVE  CarriedAccepted'
  <2>1. /\ \A i \in DOMAIN queue' : queue'[i].batch \subseteq Accepted'
        /\ Head(queue).batch \subseteq Accepted'
    BY <1>0, <1>6 DEF Receive
  <2>2. QED
    BY <1>0, <1>6, <2>1 DEF Receive, pollers
<1>7. ASSUME NEW w \in Worker, Claim(w) \/ IndexDocuments(w) \/ UpsertChunks(w)
      PROVE  CarriedAccepted'
  BY <1>0, <1>7 DEF Claim, IndexDocuments, UpsertChunks, pollers
<1>8. ASSUME NEW w \in Worker, MarkCompleted(w) \/ WorkerCrashes(w)
      PROVE  CarriedAccepted'
  <2>1. Release(w) /\ UNCHANGED <<pollers, queue>>
    BY <1>8 DEF MarkCompleted, WorkerCrashes
  <2>2. \A v \in Worker : msg'[v].batch \subseteq Accepted'
    BY <1>0, <2>1 DEF Release, NoMessage
  <2>3. QED
    BY <1>0, <2>1, <2>2 DEF pollers
<1>9. ASSUME NEW w \in Worker, Fail(w)
      PROVE  CarriedAccepted'
  <2>1. CASE queue' = Append(queue, [msg[w] EXCEPT !.tries = @ + 1])
    <3>1. [msg[w] EXCEPT !.tries = @ + 1].batch = msg[w].batch
      BY DEF Message
    <3>2. \A i \in DOMAIN queue' : queue'[i].batch \subseteq Accepted'
      BY <1>0, <2>1, <3>1
    <3>3. QED
      BY <1>0, <1>9, <3>2 DEF Fail, Release, NoMessage, pollers
  <2>2. CASE queue' = queue
    BY <1>0, <1>9, <2>2 DEF Fail, Release, NoMessage, pollers
  <2>3. QED
    BY <1>9, <2>1, <2>2 DEF Fail
<1>10. CASE UNCHANGED vars
  BY <1>10 DEF vars, rows, pollers, workers, Accepted
<1>11. QED
  BY <1>1, <1>2, <1>3, <1>4, <1>5, <1>6, <1>7, <1>8, <1>9, <1>10
     DEF Next, PollStep, TaskStep, InjectionFails, TaskFails

-----------------------------------------------------------------------------
(* The indexes.                                                            *)

\* What a task has written by the time it reaches a line.
TaskProgress ==
  \A w \in Worker :
    /\ wpc[w] \in {"embed", "mark"} => msg[w].batch \subseteq es
    /\ wpc[w] = "mark" => msg[w].batch \subseteq qdr

IndexInv == TaskProgress /\ IndexesBackCompletion

LEMMA IndexInit == Init => IndexInv
BY DEF Init, IndexInv, TaskProgress, IndexesBackCompletion, InStatus

LEMMA IndexStep ==
  TypeOK /\ LocksHold /\ CarriedAccepted /\ IndexInv /\ [Next]_vars => IndexInv'
<1> SUFFICES ASSUME TypeOK, LocksHold, CarriedAccepted, IndexInv, [Next]_vars
             PROVE  IndexInv'
  OBVIOUS
<1> USE DEF TypeOK, IndexInv, TaskProgress
<1>0. Accepted \subseteq Accepted'
  BY AcceptedGrows
<1>a. ASSUME UNCHANGED indexes,
             InStatus("completed")' \subseteq InStatus("completed")
      PROVE  IndexesBackCompletion'
  BY <1>0, <1>a DEF IndexesBackCompletion, indexes
<1>1. ASSUME NEW S \in SUBSET Event, Insert(S)
      PROVE  IndexInv'
  BY <1>a, <1>1 DEF Insert, WithStatus, InStatus, workers, indexes
<1>2. ASSUME NEW p \in Poller, ResetStale(p)
      PROVE  IndexInv'
  BY <1>a, <1>2 DEF ResetStale, WithStatus, InStatus, workers, indexes
<1>3. ASSUME NEW p \in Poller, CommitBatch(p)
      PROVE  IndexInv'
  BY <1>a, <1>3 DEF CommitBatch, WithStatus, InStatus, workers, indexes
<1>4. ASSUME Tick \/ \E p \in Poller :
               \/ Fetch(p) \/ FetchNothing(p) \/ RollbackBatch(p)
               \/ Dispatch(p) \/ PollerFails(p)
      PROVE  IndexInv'
  <2>1. UNCHANGED <<status, workers, indexes>>
    BY <1>4 DEF Tick, Fetch, FetchNothing, RollbackBatch, Dispatch, PollerFails, rows
  <2>2. QED
    BY <1>a, <2>1 DEF InStatus, workers, indexes
<1>5. ASSUME NEW w \in Worker, Receive(w)
      PROVE  IndexInv'
  BY <1>a, <1>5 DEF Receive, InStatus, rows, indexes
<1>6. ASSUME NEW w \in Worker, Claim(w)
      PROVE  IndexInv'
  BY <1>a, <1>6 DEF Claim, WithStatus, InStatus, indexes
<1>7. ASSUME NEW w \in Worker, IndexDocuments(w)
      PROVE  IndexInv'
  BY <1>0, <1>7 DEF IndexDocuments, IndexesBackCompletion, CarriedAccepted, InStatus, rows
<1>8. ASSUME NEW w \in Worker, UpsertChunks(w)
      PROVE  IndexInv'
  BY <1>0, <1>8 DEF UpsertChunks, IndexesBackCompletion, InStatus, rows
<1>9. ASSUME NEW w \in Worker, MarkCompleted(w)
      PROVE  IndexInv'
  <2>1. TaskProgress'
    BY <1>9 DEF MarkCompleted, Release, indexes
  <2>2. InStatus("completed")' \subseteq InStatus("completed") \union msg[w].batch
    BY <1>9 DEF MarkCompleted, WithStatus, InStatus
  <2>3. msg[w].batch \subseteq es \intersect qdr
    BY <1>9 DEF MarkCompleted
  <2>4. QED
    BY <1>0, <1>9, <2>1, <2>2, <2>3 DEF MarkCompleted, IndexesBackCompletion, indexes
<1>10. ASSUME NEW w \in Worker, Release(w), UNCHANGED status,
              WritePart(w) \/ UNCHANGED indexes
       PROVE  IndexInv'
  <2>1. /\ es \subseteq es' /\ qdr \subseteq qdr'
        /\ es' \subseteq es \union msg[w].batch
        /\ qdr' \subseteq es
    BY <1>10 DEF WritePart, PartialWrites, IndexesBackCompletion, indexes
  <2>2. TaskProgress'
    BY <1>10, <2>1 DEF Release
  <2>3. IndexesBackCompletion'
    BY <1>0, <1>10, <2>1 DEF IndexesBackCompletion, CarriedAccepted, InStatus
  <2>4. QED
    BY <2>2, <2>3
<1>11. ASSUME NEW w \in Worker, InjectionFails(w) \/ TaskFails(w) \/ WorkerCrashes(w)
       PROVE  IndexInv'
  BY <1>10, <1>11 DEF InjectionFails, TaskFails, WorkerCrashes, Fail, rows
<1>12. CASE UNCHANGED vars
  BY <1>a, <1>12 DEF vars, rows, workers, indexes, InStatus
<1>13. QED
  BY <1>1, <1>2, <1>3, <1>4, <1>5, <1>6, <1>7, <1>8, <1>9, <1>11, <1>12
     DEF Next, PollStep, TaskStep

LEMMA IndexInvariant == Spec => [](TypeOK /\ LocksHold /\ CarriedAccepted /\ IndexInv)
BY TypeInit, TypeStep, LocksInit, LocksStep, CarriedInit, CarriedStep,
   IndexInit, IndexStep, PTL DEF Spec

\* An event reported as completed is in both indexes, and no event is in
\* Qdrant only: for any number of duplicates, retries, faults and crashes.
THEOREM CompletionIsBacked == Spec => []IndexesBackCompletion
<1>1. IndexInv => IndexesBackCompletion
  BY DEF IndexInv
<1>2. QED
  BY IndexInvariant, <1>1, PTL

-----------------------------------------------------------------------------
(* Claims.                                                                 *)

ClaimInv ==
  /\ \A w \in Worker :
       claimed[w] \subseteq InStatus("processing") \union InStatus("completed")
  /\ ClaimsDisjoint

LEMMA ClaimInit == Init => ClaimInv
BY DEF Init, ClaimInv, ClaimsDisjoint

LEMMA ClaimStep == TypeOK /\ LocksHold /\ ClaimInv /\ [Next]_vars => ClaimInv'
<1> SUFFICES ASSUME TypeOK, LocksHold, ClaimInv, [Next]_vars
             PROVE  ClaimInv'
  OBVIOUS
<1> USE DEF TypeOK, ClaimInv, ClaimsDisjoint
<1>0. InStatus("processing") \union InStatus("completed")
        \subseteq (InStatus("processing") \union InStatus("completed"))'
  BY RowStepLemma DEF RowStep, Lifecycle, InStatus
<1>1. ASSUME NEW w \in Worker, Claim(w)
      PROVE  ClaimInv'
  <2>1. /\ claimed' = [claimed EXCEPT ![w] = msg[w].batch \intersect InStatus("dispatching")]
        /\ msg[w].batch \intersect InStatus("dispatching") \subseteq InStatus("processing")'
    BY <1>1 DEF Claim, WithStatus, InStatus
  <2>2. \A v \in Worker : claimed[v] \intersect InStatus("dispatching") = {}
    BY DEF InStatus
  <2>3. QED
    BY <1>0, <2>1, <2>2
<1>2. ASSUME NEW w \in Worker, Release(w)
      PROVE  ClaimInv'
  BY <1>0, <1>2 DEF Release
<1>3. ASSUME UNCHANGED claimed
      PROVE  ClaimInv'
  BY <1>0, <1>3
<1>4. ASSUME NEW w \in Worker,
             MarkCompleted(w) \/ InjectionFails(w) \/ TaskFails(w) \/ WorkerCrashes(w)
      PROVE  Release(w)
  BY <1>4 DEF MarkCompleted, InjectionFails, TaskFails, WorkerCrashes, Fail
<1>5. ASSUME NEW w \in Worker, Receive(w) \/ IndexDocuments(w) \/ UpsertChunks(w)
      PROVE  UNCHANGED claimed
  BY <1>5 DEF Receive, IndexDocuments, UpsertChunks
<1>6. ASSUME Tick \/ (\E S \in SUBSET Event : Insert(S))
             \/ \E p \in Poller : PollStep(p) \/ PollerFails(p)
      PROVE  UNCHANGED claimed
  BY <1>6 DEF Insert, Tick, PollStep, ResetStale, Fetch, FetchNothing, CommitBatch,
              RollbackBatch, Dispatch, PollerFails, workers
<1>7. QED
  BY <1>1, <1>2, <1>3, <1>4, <1>5, <1>6 DEF Next, TaskStep, vars, workers

\* However often an event is delivered, at most one running task has claimed it.
THEOREM ClaimsAreExclusive == Spec => []ClaimsDisjoint
<1>1. Spec => [](TypeOK /\ LocksHold /\ ClaimInv)
  BY TypeInit, TypeStep, LocksInit, LocksStep, ClaimInit, ClaimStep, PTL DEF Spec
<1>2. ClaimInv => ClaimsDisjoint
  BY DEF ClaimInv
<1>3. QED
  BY <1>1, <1>2, PTL

-----------------------------------------------------------------------------
(* Refinement: the pipeline implements EventDelivery.                      *)

LEMMA DeliveryInit == Init => Delivery!Init
BY DEF Init, Delivery!Init, Accepted, InStatus

LEMMA DeliveryStep ==
  TypeOK /\ LocksHold /\ CarriedAccepted /\ IndexInv /\ [Next]_vars
    => [Delivery!Next]_(Delivery!vars)
<1> SUFFICES ASSUME TypeOK, LocksHold, CarriedAccepted, IndexInv, [Next]_vars
             PROVE  [Delivery!Next]_(Delivery!vars)
  OBVIOUS
<1> USE DEF TypeOK, Delivery!Next, Delivery!vars
<1>1. ASSUME NEW S \in SUBSET Event, Insert(S)
      PROVE  Delivery!Accept(S)
  BY <1>1 DEF Insert, Delivery!Accept, Accepted, WithStatus, InStatus, indexes
<1>2. ASSUME UNCHANGED indexes,
             Tick \/ UNCHANGED vars
             \/ (\E p \in Poller : PollStep(p) \/ PollerFails(p))
             \/ (\E w \in Worker : Receive(w) \/ Claim(w) \/ InjectionFails(w))
      PROVE  UNCHANGED Delivery!vars
  <2> DEFINE SameEnds ==
        \A e \in Event :
          /\ status'[e] = "absent" <=> status[e] = "absent"
          /\ status'[e] = "completed" <=> status[e] = "completed"
  <2>1. SameEnds
    <3>1. CASE UNCHANGED status
      BY <3>1
    <3>2. ASSUME NEW p \in Poller, ResetStale(p)
          PROVE  SameEnds
      BY <3>2 DEF ResetStale, WithStatus, InStatus
    <3>3. ASSUME NEW p \in Poller, CommitBatch(p)
          PROVE  SameEnds
      BY <3>3 DEF CommitBatch, WithStatus, InStatus, LocksHold
    <3>4. ASSUME NEW w \in Worker, Claim(w)
          PROVE  SameEnds
      BY <3>4 DEF Claim, WithStatus, InStatus
    <3>5. QED
      BY <1>2, <3>1, <3>2, <3>3, <3>4
         DEF Tick, PollStep, Fetch, FetchNothing, RollbackBatch, Dispatch, PollerFails,
             Receive, InjectionFails, Fail, rows, vars
  <2>2. Accepted' = Accepted /\ InStatus("completed")' = InStatus("completed")
    BY <2>1 DEF Accepted, InStatus
  <2>3. QED
    BY <1>2, <2>2 DEF indexes
<1>3. ASSUME NEW w \in Worker, IndexDocuments(w)
      PROVE  Delivery!IndexDocuments(msg[w].batch)
  BY <1>3 DEF IndexDocuments, Delivery!IndexDocuments, CarriedAccepted, Accepted, InStatus, rows
<1>4. ASSUME NEW w \in Worker, UpsertChunks(w)
      PROVE  Delivery!IndexChunks(msg[w].batch)
  BY <1>4 DEF UpsertChunks, Delivery!IndexChunks, IndexInv, TaskProgress, Accepted, InStatus, rows
<1>5. ASSUME NEW w \in Worker, MarkCompleted(w)
      PROVE  Delivery!Report(msg[w].batch \intersect InStatus("processing"))
  BY <1>5 DEF MarkCompleted, Delivery!Report, IndexInv, TaskProgress, Accepted, InStatus,
              WithStatus, indexes
<1>6. ASSUME NEW w \in Worker, TaskFails(w) \/ WorkerCrashes(w)
      PROVE  [Delivery!Next]_(Delivery!vars)
  <2>1. UNCHANGED status /\ WritePart(w)
    BY <1>6 DEF TaskFails, WorkerCrashes, Fail, rows
  <2>2. UNCHANGED <<Accepted, InStatus("completed")>>
    BY <2>1 DEF Accepted, InStatus
  <2>3. PICK part \in PartialWrites(w) : es' = es \union part.es /\ qdr' = qdr \union part.qdr
    BY <2>1 DEF WritePart
  <2>4. CASE wpc[w] = "index"
    <3>1. part.es \in SUBSET msg[w].batch /\ part.qdr = {}
      BY <2>3, <2>4 DEF PartialWrites
    <3>2. Delivery!IndexDocuments(part.es)
      BY <2>2, <2>3, <3>1 DEF Delivery!IndexDocuments, CarriedAccepted
    <3>3. part.es \in SUBSET Event
      BY <3>1 DEF Message
    <3>4. QED
      BY <3>2, <3>3
  <2>5. CASE wpc[w] = "embed"
    <3>1. part.es = {} /\ part.qdr \in {{}, msg[w].batch}
      BY <2>3, <2>5 DEF PartialWrites
    <3>2. Delivery!IndexChunks(part.qdr)
      BY <2>2, <2>3, <2>5, <3>1 DEF Delivery!IndexChunks, IndexInv, TaskProgress
    <3>3. part.qdr \in SUBSET Event
      BY <3>1 DEF Message
    <3>4. QED
      BY <3>2, <3>3
  <2>6. CASE wpc[w] \notin {"index", "embed"}
    <3>1. part.es = {} /\ part.qdr = {}
      BY <2>3, <2>6 DEF PartialWrites
    <3>2. QED
      BY <2>2, <2>3, <3>1
  <2>7. QED
    BY <2>4, <2>5, <2>6
<1>7. ASSUME NEW w \in Worker, Receive(w) \/ Claim(w) \/ InjectionFails(w)
      PROVE  UNCHANGED indexes
  BY <1>7 DEF Receive, Claim, InjectionFails
<1>8. ASSUME Tick \/ UNCHANGED vars \/ \E p \in Poller : PollStep(p) \/ PollerFails(p)
      PROVE  UNCHANGED indexes
  BY <1>8 DEF Tick, PollStep, ResetStale, Fetch, FetchNothing, CommitBatch,
              RollbackBatch, Dispatch, PollerFails, vars
<1>9. ASSUME NEW w \in Worker
      PROVE  msg[w].batch \in SUBSET Event
  BY <1>9 DEF Message
<1>10. QED
  BY <1>1, <1>2, <1>3, <1>4, <1>5, <1>6, <1>7, <1>8, <1>9 DEF Next, TaskStep

\* The outbox pipeline implements EventDelivery: documents before chunks before
\* the report, nothing taken back, nothing indexed that was not accepted.
THEOREM PipelineImplementsDelivery == Spec => DeliveryPromise
<1>1. Spec => Delivery!Init /\ [][Delivery!Next]_(Delivery!vars)
  BY IndexInvariant, DeliveryInit, DeliveryStep, PTL DEF Spec
<1>2. QED
  BY <1>1 DEF DeliveryPromise, Delivery!Spec

-----------------------------------------------------------------------------
(* No event is left behind.                                                *)

StrandInv ==
  /\ \A w \in Worker : wpc[w] = "idle" => msg[w].batch = {}
  /\ NothingStranded

LEMMA StrandInit == Init => StrandInv
BY DEF Init, StrandInv, NothingStranded, NoMessage

\* A step that keeps every carrier and puts no event underway by itself.
LEMMA CarriersKept ==
  ASSUME TypeOK, NothingStranded, dropped \subseteq dropped',
         \A e \in Event \ dropped' : (Waiting(e) => Waiting(e)') /\ (Carried(e) => Carried(e)'),
         InStatus("dispatching")' \subseteq InStatus("dispatching"),
         InStatus("processing")' \subseteq InStatus("processing"),
         es' \ qdr' \subseteq es \ qdr
  PROVE  NothingStranded'
BY DEF NothingStranded, InStatus, TypeOK

LEMMA StrandStep ==
  TypeOK /\ IndexInv /\ StrandInv /\ [Next]_vars => StrandInv'
<1> SUFFICES ASSUME TypeOK, IndexInv, StrandInv, [Next]_vars
             PROVE  StrandInv'
  OBVIOUS
<1> USE DEF TypeOK, StrandInv
<1>1. ASSUME UNCHANGED <<ppc, pbatch, queue, workers, indexes, dropped>>,
             InStatus("dispatching")' \subseteq InStatus("dispatching"),
             InStatus("processing")' \subseteq InStatus("processing")
      PROVE  StrandInv'
  BY <1>1, CarriersKept DEF Waiting, Carried, workers, indexes
<1>2. ASSUME NEW S \in SUBSET Event, Insert(S)
      PROVE  StrandInv'
  BY <1>1, <1>2 DEF Insert, WithStatus, InStatus, pollers, workers, history
<1>3. CASE Tick
  BY <1>1, <1>3 DEF Tick, InStatus, pollers, workers, history
<1>4. ASSUME NEW p \in Poller, ResetStale(p)
      PROVE  StrandInv'
  <2>1. \A e \in Event : (Waiting(e) => Waiting(e)') /\ (Carried(e) => Carried(e)')
    BY <1>4 DEF ResetStale, Waiting, Carried, workers
  <2>2. /\ InStatus("dispatching")' \subseteq InStatus("dispatching")
        /\ InStatus("processing")' \subseteq InStatus("processing")
    BY <1>4 DEF ResetStale, WithStatus, InStatus
  <2>3. QED
    BY <1>4, <2>1, <2>2, CarriersKept DEF ResetStale, workers, indexes
<1>5. ASSUME NEW p \in Poller,
             \/ Fetch(p) \/ FetchNothing(p) \/ RollbackBatch(p)
             \/ Dispatch(p) \/ PollerFails(p)
      PROVE  StrandInv'
  <2>1. UNCHANGED <<rows, workers, indexes>> /\ dropped \subseteq dropped'
    BY <1>5 DEF Fetch, FetchNothing, RollbackBatch, Dispatch, PollerFails, history
  <2>2. ASSUME NEW e \in Event \ dropped', Waiting(e)
        PROVE  Waiting(e)'
    <3>1. CASE Dispatch(p)
      <4>1. queue' = Append(queue, [batch |-> pbatch[p], tries |-> 0])
        BY <3>1 DEF Dispatch
      <4>2. /\ Len(queue') = Len(queue) + 1
            /\ queue'[Len(queue) + 1].batch = pbatch[p]
            /\ \A i \in DOMAIN queue : i \in DOMAIN queue' /\ queue'[i] = queue[i]
            /\ Len(queue) + 1 \in DOMAIN queue'
        BY <4>1
      <4>3. QED
        BY <2>1, <2>2, <3>1, <4>2 DEF Dispatch, Waiting, workers
    <3>2. CASE ~Dispatch(p)
      BY <1>5, <2>1, <2>2, <3>2
         DEF Fetch, FetchNothing, RollbackBatch, PollerFails, Waiting, workers
    <3>3. QED
      BY <3>1, <3>2
  <2>3. QED
    BY <2>1, <2>2, CarriersKept DEF Carried, InStatus, rows, workers, indexes
<1>6. ASSUME NEW p \in Poller, CommitBatch(p)
      PROVE  StrandInv'
  <2>1. /\ UNCHANGED <<pbatch, queue, workers, indexes, dropped>>
        /\ InStatus("dispatching")' \subseteq InStatus("dispatching") \union pbatch[p]
        /\ InStatus("processing")' \subseteq InStatus("processing")
        /\ ppc' = [ppc EXCEPT ![p] = "dispatch"]
    BY <1>6 DEF CommitBatch, WithStatus, InStatus, history
  <2>2. \A e \in Event : (Waiting(e) => Waiting(e)') /\ (Carried(e) => Carried(e)')
    BY <2>1 DEF Waiting, Carried, workers
  <2>3. \A e \in pbatch[p] : Waiting(e)'
    BY <2>1 DEF Waiting
  <2>4. QED
    BY <2>1, <2>2, <2>3 DEF NothingStranded, InStatus, workers, indexes
<1>7. ASSUME NEW w \in Worker, Receive(w)
      PROVE  StrandInv'
  <2>1. /\ UNCHANGED <<rows, pollers, indexes, dropped>>
        /\ msg' = [msg EXCEPT ![w] = queue[1]]
        /\ wpc' = [wpc EXCEPT ![w] = "claim"]
        /\ msg[w].batch = {}
        /\ queue' = Tail(queue) /\ queue # <<>>
    BY <1>7 DEF Receive, history
  <2>2. \A i \in DOMAIN queue : i # 1 => i - 1 \in DOMAIN queue' /\ queue'[i - 1] = queue[i]
    BY <2>1
  <2>3. ASSUME NEW e \in Event, Waiting(e)
        PROVE  Waiting(e)'
    BY <2>1, <2>2, <2>3 DEF Waiting, pollers
  <2>4. ASSUME NEW e \in Event, Carried(e)
        PROVE  Carried(e)'
    BY <2>1, <2>3, <2>4 DEF Carried
  <2>5. QED
    BY <2>1, <2>3, <2>4, CarriersKept DEF InStatus, rows, indexes
<1>8. ASSUME NEW w \in Worker, Claim(w)
      PROVE  StrandInv'
  <2>1. /\ UNCHANGED <<pollers, queue, msg, indexes, dropped>>
        /\ wpc' = [wpc EXCEPT ![w] = "index"]
        /\ InStatus("dispatching")' \subseteq InStatus("dispatching") \ msg[w].batch
        /\ InStatus("processing")' \subseteq InStatus("processing") \union msg[w].batch
    BY <1>8 DEF Claim, WithStatus, InStatus, history
  <2>2. \A e \in Event : e \notin msg[w].batch /\ Waiting(e) => Waiting(e)'
    BY <2>1 DEF Waiting, pollers
  <2>3. \A e \in Event : e \in msg[w].batch \/ Carried(e) => Carried(e)'
    BY <2>1, <2>2 DEF Carried
  <2>4. QED
    BY <2>1, <2>2, <2>3 DEF NothingStranded, InStatus, indexes
<1>9. ASSUME NEW w \in Worker, IndexDocuments(w) \/ UpsertChunks(w)
      PROVE  StrandInv'
  <2>1. /\ UNCHANGED <<rows, pollers, queue, msg, dropped>>
        /\ \E s \in {"embed", "mark"} : wpc' = [wpc EXCEPT ![w] = s]
        /\ wpc[w] # "claim"
        /\ es' \ qdr' \subseteq (es \ qdr) \union msg[w].batch
    BY <1>9 DEF IndexDocuments, UpsertChunks, history
  <2>2. \A e \in Event : Waiting(e) => Waiting(e)'
    BY <2>1 DEF Waiting, pollers
  <2>3. \A e \in Event : e \in msg[w].batch \/ Carried(e) => Carried(e)'
    BY <2>1, <2>2 DEF Carried
  <2>4. QED
    BY <2>1, <2>2, <2>3 DEF NothingStranded, rows
<1>10. ASSUME NEW w \in Worker, MarkCompleted(w)
       PROVE  StrandInv'
  <2>1. /\ UNCHANGED <<pollers, queue, indexes, dropped>>
        /\ Release(w) /\ wpc[w] = "mark"
        /\ InStatus("dispatching")' \subseteq InStatus("dispatching")
        /\ InStatus("processing")' \subseteq InStatus("processing") \ msg[w].batch
        /\ msg[w].batch \subseteq qdr
    BY <1>10 DEF MarkCompleted, WithStatus, InStatus, IndexInv, TaskProgress, history
  <2>2. \A e \in Event : Waiting(e) => Waiting(e)'
    BY <2>1 DEF Waiting, Release, pollers
  <2>3. \A e \in Event : Carried(e) /\ e \notin msg[w].batch => Carried(e)'
    BY <2>1, <2>2 DEF Carried, Release
  <2>4. \A v \in Worker : wpc'[v] = "idle" => msg'[v].batch = {}
    BY <2>1 DEF Release, NoMessage
  <2>5. QED
    BY <2>1, <2>2, <2>3, <2>4 DEF NothingStranded, InStatus, indexes
<1>11. ASSUME NEW w \in Worker, Release(w), UNCHANGED <<status, pollers>>,
              WritePart(w) \/ UNCHANGED indexes,
              dropped \subseteq dropped',
              \A i \in DOMAIN queue : i \in DOMAIN queue' /\ queue'[i] = queue[i],
              \/ msg[w].batch \subseteq dropped'
              \/ \E i \in DOMAIN queue' : queue'[i].batch = msg[w].batch
       PROVE  StrandInv'
  <2>1. es' \ qdr' \subseteq (es \ qdr) \union msg[w].batch
    BY <1>11 DEF WritePart, PartialWrites, indexes
  <2>2. \A e \in Event \ dropped' : e \in msg[w].batch \/ Waiting(e) => Waiting(e)'
    BY <1>11 DEF Waiting, Release, pollers
  <2>3. \A e \in Event \ dropped' : e \in msg[w].batch \/ Carried(e) => Carried(e)'
    BY <1>11, <2>2 DEF Carried, Release
  <2>4. \A v \in Worker : wpc'[v] = "idle" => msg'[v].batch = {}
    BY <1>11 DEF Release, NoMessage
  <2>5. QED
    BY <1>11, <2>1, <2>2, <2>3, <2>4 DEF NothingStranded
<1>12. ASSUME NEW w \in Worker, WorkerCrashes(w)
       PROVE  StrandInv'
  BY <1>11, <1>12 DEF WorkerCrashes, rows
<1>13. ASSUME NEW w \in Worker, InjectionFails(w) \/ TaskFails(w)
       PROVE  StrandInv'
  <2>1. /\ Release(w) /\ UNCHANGED <<status, pollers>>
        /\ WritePart(w) \/ UNCHANGED indexes
    BY <1>13 DEF InjectionFails, TaskFails, Fail, rows
  <2>2. CASE queue' = Append(queue, [msg[w] EXCEPT !.tries = @ + 1]) /\ UNCHANGED dropped
    <3>1. [msg[w] EXCEPT !.tries = @ + 1].batch = msg[w].batch
      BY DEF Message
    <3>2. /\ \A i \in DOMAIN queue : i \in DOMAIN queue' /\ queue'[i] = queue[i]
          /\ Len(queue) + 1 \in DOMAIN queue'
          /\ queue'[Len(queue) + 1].batch = msg[w].batch
      BY <2>2, <3>1
    <3>3. QED
      BY <1>11, <2>1, <2>2, <3>2
  <2>3. CASE dropped' = dropped \union msg[w].batch /\ UNCHANGED queue
    BY <1>11, <2>1, <2>3
  <2>4. QED
    BY <1>13, <2>2, <2>3 DEF InjectionFails, TaskFails, Fail
<1>14. CASE UNCHANGED vars
  BY <1>1, <1>14 DEF vars, rows, pollers, history, InStatus
<1>15. QED
  BY <1>2, <1>3, <1>4, <1>5, <1>6, <1>7, <1>8, <1>9, <1>10, <1>12, <1>13, <1>14
     DEF Next, PollStep, TaskStep

\* Only a fault takes the last carrier of an event that is underway or that
\* the two indexes disagree on.
THEOREM NoEventLeftBehind == Spec => []NothingStranded
<1>1. Spec => [](TypeOK /\ LocksHold /\ CarriedAccepted /\ IndexInv /\ StrandInv)
  BY TypeInit, TypeStep, LocksInit, LocksStep, CarriedInit, CarriedStep,
     IndexInit, IndexStep, StrandInit, StrandStep, PTL DEF Spec
<1>2. StrandInv => NothingStranded
  BY DEF StrandInv
<1>3. QED
  BY <1>1, <1>2, PTL

-----------------------------------------------------------------------------
(* Deliveries: counting the copies of an event.                            *)

AtPollers(e) == {p \in Poller : ppc[p] = "dispatch" /\ e \in pbatch[p]}
InQueue(e) == {i \in DOMAIN queue : e \in queue[i].batch}
AtWorkers(e) == {w \in Worker : e \in msg[w].batch}

LEMMA CopiesFinite ==
  ASSUME TypeOK, NEW e
  PROVE  /\ IsFiniteSet(AtPollers(e)) /\ Cardinality(AtPollers(e)) \in Nat
         /\ IsFiniteSet(InQueue(e)) /\ Cardinality(InQueue(e)) \in Nat
         /\ IsFiniteSet(AtWorkers(e)) /\ Cardinality(AtWorkers(e)) \in Nat
         /\ InFlight(e) = Cardinality(AtPollers(e)) + Cardinality(InQueue(e))
                            + Cardinality(AtWorkers(e))
<1>1. IsFiniteSet(AtPollers(e))
  BY ConstantsOK, FS_Subset DEF AtPollers
<1>2. IsFiniteSet(AtWorkers(e))
  BY ConstantsOK, FS_Subset DEF AtWorkers
<1>3. DOMAIN queue = 1 .. Len(queue) /\ Len(queue) \in Nat
  BY DEF TypeOK
<1>4. IsFiniteSet(1 .. Len(queue))
  BY <1>3, FS_Interval
<1>5. IsFiniteSet(InQueue(e))
  BY <1>3, <1>4, FS_Subset DEF InQueue
<1>6. QED
  BY <1>1, <1>2, <1>5, FS_CardinalityType DEF InFlight, AtPollers, InQueue, AtWorkers

\* A set with one element more, or one less.
LEMMA OneMore ==
  ASSUME NEW S, IsFiniteSet(S), NEW x, x \notin S
  PROVE  Cardinality(S \union {x}) = Cardinality(S) + 1
BY FS_AddElement

LEMMA OneLess ==
  ASSUME NEW S, IsFiniteSet(S), NEW x
  PROVE  /\ x \in S => Cardinality(S \ {x}) = Cardinality(S) - 1
         /\ x \notin S => Cardinality(S \ {x}) = Cardinality(S)
BY FS_RemoveElement

\* A message put at the end of the list is one copy more of what it carries.
LEMMA QueueGrows ==
  ASSUME TypeOK, NEW m \in Message, queue' = Append(queue, m), NEW e
  PROVE  Cardinality(InQueue(e)') = Cardinality(InQueue(e)) + (IF e \in m.batch THEN 1 ELSE 0)
<1>1. /\ DOMAIN queue' = DOMAIN queue \union {Len(queue) + 1}
      /\ \A i \in DOMAIN queue : queue'[i] = queue[i]
      /\ queue'[Len(queue) + 1] = m
      /\ Len(queue) + 1 \notin DOMAIN queue
  BY DEF TypeOK
<1>2. CASE e \in m.batch
  <2>1. InQueue(e)' = InQueue(e) \union {Len(queue) + 1} /\ Len(queue) + 1 \notin InQueue(e)
    BY <1>1, <1>2 DEF InQueue
  <2>2. QED
    BY <1>2, <2>1, CopiesFinite, OneMore
<1>3. CASE e \notin m.batch
  <2>1. InQueue(e)' = InQueue(e)
    BY <1>1, <1>3 DEF InQueue
  <2>2. QED
    BY <1>3, <2>1, CopiesFinite
<1>4. QED
  BY <1>2, <1>3

\* A message taken from the head of the list is one copy less.
LEMMA QueueShrinks ==
  ASSUME TypeOK, queue # <<>>, queue' = Tail(queue), NEW e
  PROVE  Cardinality(InQueue(e)') =
           Cardinality(InQueue(e)) - (IF e \in Head(queue).batch THEN 1 ELSE 0)
<1>1. /\ Len(queue) \in Nat \ {0}
      /\ DOMAIN queue = 1 .. Len(queue)
      /\ DOMAIN queue' = 1 .. Len(queue) - 1
      /\ \A i \in 1 .. Len(queue) - 1 : queue'[i] = queue[i + 1]
      /\ Head(queue) = queue[1]
  BY DEF TypeOK
<1> DEFINE rest == InQueue(e) \ {1}
           shift == [i \in rest |-> i - 1]
<1>2. IsFiniteSet(rest)
  BY CopiesFinite, FS_RemoveElement
<1>3. Cardinality(InQueue(e)') = Cardinality(rest)
  <2>1. \A i \in rest : i \in 2 .. Len(queue) /\ e \in queue[i].batch
    BY <1>1 DEF InQueue
  <2>2. \A i \in rest : i - 1 \in InQueue(e)'
    BY <1>1, <2>1 DEF InQueue
  <2>3. shift \in [rest -> InQueue(e)']
    BY <2>2
  <2>4. \A a, b \in rest : shift[a] = shift[b] => a = b
    BY <2>1
  <2>5. \A j \in InQueue(e)' : j + 1 \in rest /\ shift[j + 1] = j
    BY <1>1 DEF InQueue
  <2>6. shift \in Bijection(rest, InQueue(e)')
    <3> HIDE DEF shift, rest
    <3>1. QED
      BY <2>3, <2>4, <2>5, Fun_IsBij
  <2>7. QED
    BY <1>2, <2>6, FS_Bijection DEF ExistsBijection
<1>4. 1 \in InQueue(e) <=> e \in Head(queue).batch
  BY <1>1 DEF InQueue
<1>5. CASE 1 \in InQueue(e)
  BY <1>3, <1>4, <1>5, CopiesFinite, OneLess
<1>6. CASE 1 \notin InQueue(e)
  BY <1>3, <1>4, <1>6, CopiesFinite, OneLess
<1>7. QED
  BY <1>5, <1>6

\* A process that gets a message, or has its own taken.
LEMMA WorkerTakes ==
  ASSUME TypeOK, NEW w \in Worker, NEW m \in Message, msg[w].batch = {},
         msg' = [msg EXCEPT ![w] = m], NEW e
  PROVE  Cardinality(AtWorkers(e)') = Cardinality(AtWorkers(e)) + (IF e \in m.batch THEN 1 ELSE 0)
<1>1. CASE e \in m.batch
  <2>1. AtWorkers(e)' = AtWorkers(e) \union {w} /\ w \notin AtWorkers(e)
    BY <1>1 DEF AtWorkers, TypeOK
  <2>2. QED
    BY <1>1, <2>1, CopiesFinite, OneMore
<1>2. CASE e \notin m.batch
  <2>1. AtWorkers(e)' = AtWorkers(e)
    BY <1>2 DEF AtWorkers, TypeOK
  <2>2. QED
    BY <1>2, <2>1, CopiesFinite
<1>3. QED
  BY <1>1, <1>2

LEMMA WorkerReleases ==
  ASSUME TypeOK, NEW w \in Worker, Release(w), NEW e
  PROVE  Cardinality(AtWorkers(e)') =
           Cardinality(AtWorkers(e)) - (IF e \in msg[w].batch THEN 1 ELSE 0)
<1>1. AtWorkers(e)' = AtWorkers(e) \ {w}
  BY DEF Release, NoMessage, AtWorkers, TypeOK
<1>2. w \in AtWorkers(e) <=> e \in msg[w].batch
  BY DEF AtWorkers
<1>3. CASE w \in AtWorkers(e)
  BY <1>1, <1>2, <1>3, CopiesFinite, OneLess
<1>4. CASE w \notin AtWorkers(e)
  BY <1>1, <1>2, <1>4, CopiesFinite, OneLess
<1>5. QED
  BY <1>3, <1>4

\* The same for pollers.
LEMMA PollerCommits ==
  ASSUME TypeOK, NEW p \in Poller, ppc[p] = "build",
         ppc' = [ppc EXCEPT ![p] = "dispatch"], pbatch' = pbatch, NEW e
  PROVE  Cardinality(AtPollers(e)') =
           Cardinality(AtPollers(e)) + (IF e \in pbatch[p] THEN 1 ELSE 0)
<1>1. CASE e \in pbatch[p]
  <2>1. AtPollers(e)' = AtPollers(e) \union {p} /\ p \notin AtPollers(e)
    BY <1>1 DEF AtPollers, TypeOK
  <2>2. QED
    BY <1>1, <2>1, CopiesFinite, OneMore
<1>2. CASE e \notin pbatch[p]
  <2>1. AtPollers(e)' = AtPollers(e)
    BY <1>2 DEF AtPollers, TypeOK
  <2>2. QED
    BY <1>2, <2>1, CopiesFinite
<1>3. QED
  BY <1>1, <1>2

LEMMA PollerReleases ==
  ASSUME TypeOK, NEW p \in Poller, ppc' = [ppc EXCEPT ![p] = "reset"],
         pbatch' = [pbatch EXCEPT ![p] = {}], NEW e
  PROVE  Cardinality(AtPollers(e)') =
           Cardinality(AtPollers(e))
             - (IF ppc[p] = "dispatch" /\ e \in pbatch[p] THEN 1 ELSE 0)
<1>1. AtPollers(e)' = AtPollers(e) \ {p}
  BY DEF AtPollers, TypeOK
<1>2. p \in AtPollers(e) <=> ppc[p] = "dispatch" /\ e \in pbatch[p]
  BY DEF AtPollers
<1>3. CASE p \in AtPollers(e)
  BY <1>1, <1>2, <1>3, CopiesFinite, OneLess
<1>4. CASE p \notin AtPollers(e)
  BY <1>1, <1>2, <1>4, CopiesFinite, OneLess
<1>5. QED
  BY <1>3, <1>4

\* A row that waits has at most as many copies as stale resets, any other row
\* one more: the reset that makes a row wait again pays for its next copy.
Paid(e) ==
  resets[e] < MaxResets =>
    InFlight(e) <= resets[e] + (IF status[e] \in {"absent", "pending"} THEN 0 ELSE 1)
PaidInv ==
  /\ \A w \in Worker : wpc[w] = "idle" => msg[w].batch = {}
  /\ \A e \in Event : Paid(e)

LEMMA PaidInit == Init => PaidInv
<1> SUFFICES ASSUME Init
             PROVE  PaidInv
  OBVIOUS
<1>1. \A w \in Worker : msg[w].batch = {}
  BY DEF Init, NoMessage
<1>2. ASSUME NEW e \in Event
      PROVE  Paid(e)
  <2>1. TypeOK
    BY TypeInit
  <2>2. AtPollers(e) = {} /\ InQueue(e) = {} /\ AtWorkers(e) = {}
    BY <1>1 DEF Init, AtPollers, InQueue, AtWorkers
  <2>3. InFlight(e) = 0
    BY <2>1, <2>2, CopiesFinite, FS_EmptySet
  <2>4. QED
    BY <2>3 DEF Init, Paid
<1>3. QED
  BY <1>1, <1>2 DEF PaidInv

\* A step that makes no copy of e, and does not let its row wait again.
LEMMA PaidKept ==
  ASSUME TypeOK, NEW e \in Event, Paid(e),
         InFlight(e)' \in Int, InFlight(e)' <= InFlight(e),
         resets'[e] = resets[e],
         status'[e] \in {"absent", "pending"} => status[e] \in {"absent", "pending"}
  PROVE  Paid(e)'
<1>1. InFlight(e) \in Int
  BY CopiesFinite
<1>2. QED
  BY <1>1, ConstantsOK DEF Paid, TypeOK

\* The copies after a step, by the three places where they may be.
LEMMA CopiesNext ==
  ASSUME TypeOK, NEW e
  PROVE  /\ InFlight(e)' = Cardinality(AtPollers(e)') + Cardinality(InQueue(e)')
                            + Cardinality(AtWorkers(e)')
         /\ UNCHANGED pollers => AtPollers(e)' = AtPollers(e)
         /\ UNCHANGED queue => InQueue(e)' = InQueue(e)
         /\ UNCHANGED msg => AtWorkers(e)' = AtWorkers(e)
BY DEF InFlight, AtPollers, InQueue, AtWorkers, pollers

LEMMA PaidStep == TypeOK /\ LocksHold /\ PaidInv /\ [Next]_vars => PaidInv'
<1> SUFFICES ASSUME TypeOK, LocksHold, PaidInv, [Next]_vars
             PROVE  PaidInv'
  OBVIOUS
<1> DEFINE Free(e) == status[e] \in {"absent", "pending"}
           IdleEmpty == \A w \in Worker : wpc[w] = "idle" => msg[w].batch = {}
<1>0. /\ \A e \in Event : status[e] \in EventStatus \union {"absent"}
      /\ \A e \in Event : resets[e] \in Nat
      /\ MaxResets \in Nat
  BY ConstantsOK DEF TypeOK
\* Steps that move no copy.
<1>1. ASSUME UNCHANGED <<queue, workers, resets>>, NEW e \in Event,
             AtPollers(e)' = AtPollers(e), Free(e)' => Free(e)
      PROVE  Paid(e)'
  <2>1. InFlight(e)' = InFlight(e) /\ InFlight(e) \in Int
    BY <1>1, CopiesFinite, CopiesNext DEF workers
  <2>2. QED
    BY <1>1, <2>1, PaidKept DEF PaidInv
<1>2. ASSUME NEW S \in SUBSET Event, Insert(S)
      PROVE  PaidInv'
  <2>1. UNCHANGED <<pollers, queue, workers, resets>>
    BY <1>2 DEF Insert, history
  <2>2. \A e \in Event : Free(e)' => Free(e)
    BY <1>2 DEF Insert, WithStatus, Accepted, TypeOK
  <2>3. \A e \in Event : Paid(e)'
    BY <1>1, <2>1, <2>2, CopiesNext
  <2>4. QED
    BY <2>1, <2>3 DEF PaidInv, workers
<1>3. CASE Tick
  <2>1. UNCHANGED <<status, pollers, queue, workers, resets>>
    BY <1>3 DEF Tick, history
  <2>2. \A e \in Event : Paid(e)'
    BY <1>1, <2>1, CopiesNext
  <2>3. QED
    BY <2>1, <2>2 DEF PaidInv, workers
<1>4. ASSUME NEW p \in Poller, ResetStale(p)
      PROVE  PaidInv'
  <2>1. /\ ppc[p] = "reset" /\ ppc' = [ppc EXCEPT ![p] = "fetch"]
        /\ UNCHANGED <<pbatch, queue, workers>>
    BY <1>4 DEF ResetStale
  <2>2. \A e \in Event : AtPollers(e)' = AtPollers(e)
    BY <2>1 DEF AtPollers, TypeOK
  <2>3. ASSUME NEW e \in Event
        PROVE  Paid(e)'
    <3>1. InFlight(e)' = InFlight(e) /\ InFlight(e) \in Int
      BY <2>1, <2>2, CopiesFinite, CopiesNext DEF workers
    <3>2. CASE status'[e] = status[e] /\ resets'[e] = resets[e]
      BY <3>1, <3>2, PaidKept DEF PaidInv
    <3>3. CASE e \in InStatus("dispatching") /\ age[e] >= StaleAge
      <4>1. /\ status[e] = "dispatching"
            /\ status'[e] = "pending"
            /\ resets'[e] = IF resets[e] < MaxResets THEN resets[e] + 1 ELSE resets[e]
        BY <1>4, <3>3 DEF ResetStale, WithStatus, InStatus
      <4>2. QED
        BY <1>0, <3>1, <4>1 DEF PaidInv, Paid
    <3>4. QED
      BY <1>4, <3>2, <3>3 DEF ResetStale, WithStatus
  <2>4. QED
    BY <2>1, <2>3 DEF PaidInv, workers
<1>5. ASSUME NEW p \in Poller, Fetch(p) \/ FetchNothing(p)
      PROVE  PaidInv'
  <2>1. /\ ppc[p] = "fetch" /\ UNCHANGED <<status, queue, workers, resets>>
        /\ \E s \in {"build", "reset"} : ppc' = [ppc EXCEPT ![p] = s]
        /\ \A q \in Poller \ {p} : pbatch'[q] = pbatch[q]
    BY <1>5 DEF Fetch, FetchNothing, rows, history, TypeOK
  <2>2. \A e \in Event : AtPollers(e)' = AtPollers(e)
    BY <2>1 DEF AtPollers, TypeOK
  <2>3. \A e \in Event : Paid(e)'
    BY <1>1, <2>1, <2>2
  <2>4. QED
    BY <2>1, <2>3 DEF PaidInv, workers
\* A batch that is committed is one copy more of rows that waited.
<1>6. ASSUME NEW p \in Poller, CommitBatch(p)
      PROVE  PaidInv'
  <2>1. /\ ppc[p] = "build" /\ ppc' = [ppc EXCEPT ![p] = "dispatch"]
        /\ UNCHANGED <<pbatch, queue, workers, resets>>
    BY <1>6 DEF CommitBatch, history
  <2>2. ASSUME NEW e \in Event
        PROVE  Paid(e)'
    <3>0. /\ Cardinality(AtPollers(e)') =
               Cardinality(AtPollers(e)) + (IF e \in pbatch[p] THEN 1 ELSE 0)
          /\ InQueue(e)' = InQueue(e) /\ AtWorkers(e)' = AtWorkers(e)
      BY <2>1, CopiesNext, PollerCommits DEF workers
    <3>1. InFlight(e)' = InFlight(e) + (IF e \in pbatch[p] THEN 1 ELSE 0)
      BY <3>0, CopiesFinite, CopiesNext
    <3>2. CASE e \in pbatch[p]
      <4>1. status[e] = "pending" /\ status'[e] = "dispatching"
        BY <1>6, <2>1, <3>2 DEF CommitBatch, WithStatus, LocksHold, InStatus
      <4>2. QED
        BY <1>0, <2>1, <3>1, <3>2, <4>1, CopiesFinite DEF PaidInv, Paid
    <3>3. CASE e \notin pbatch[p]
      <4>1. status'[e] = status[e]
        BY <1>6, <3>3 DEF CommitBatch, WithStatus
      <4>2. QED
        BY <2>1, <3>1, <3>3, <4>1, CopiesFinite, PaidKept DEF PaidInv
    <3>4. QED
      BY <3>2, <3>3
  <2>3. QED
    BY <2>1, <2>2 DEF PaidInv, workers
<1>7. ASSUME NEW p \in Poller, Dispatch(p)
      PROVE  PaidInv'
  <2>1. /\ ppc[p] = "dispatch" /\ UNCHANGED <<status, workers, resets>>
        /\ queue' = Append(queue, [batch |-> pbatch[p], tries |-> 0])
        /\ ppc' = [ppc EXCEPT ![p] = "reset"] /\ pbatch' = [pbatch EXCEPT ![p] = {}]
    BY <1>7 DEF Dispatch, rows, history
  <2>2. [batch |-> pbatch[p], tries |-> 0] \in Message
    BY ConstantsOK DEF Message, TypeOK
  <2>3. ASSUME NEW e \in Event
        PROVE  Paid(e)'
    <3>1. /\ Cardinality(InQueue(e)') = Cardinality(InQueue(e)) + (IF e \in pbatch[p] THEN 1 ELSE 0)
          /\ Cardinality(AtPollers(e)') = Cardinality(AtPollers(e)) - (IF e \in pbatch[p] THEN 1 ELSE 0)
          /\ AtWorkers(e)' = AtWorkers(e)
      BY <2>1, <2>2, QueueGrows, PollerReleases, CopiesNext DEF workers
    <3>2. InFlight(e)' = InFlight(e) /\ InFlight(e) \in Int
      BY <3>1, CopiesFinite, CopiesNext
    <3>3. QED
      BY <2>1, <3>2, PaidKept DEF PaidInv
  <2>4. QED
    BY <2>1, <2>3 DEF PaidInv, workers
<1>8. ASSUME NEW p \in Poller, RollbackBatch(p) \/ PollerFails(p)
      PROVE  PaidInv'
  <2>1. /\ UNCHANGED <<status, queue, workers, resets>>
        /\ ppc' = [ppc EXCEPT ![p] = "reset"] /\ pbatch' = [pbatch EXCEPT ![p] = {}]
    BY <1>8 DEF RollbackBatch, PollerFails, rows, history
  <2>2. ASSUME NEW e \in Event
        PROVE  Paid(e)'
    <3>0. /\ Cardinality(AtPollers(e)') = Cardinality(AtPollers(e))
               - (IF ppc[p] = "dispatch" /\ e \in pbatch[p] THEN 1 ELSE 0)
          /\ InQueue(e)' = InQueue(e) /\ AtWorkers(e)' = AtWorkers(e)
      BY <2>1, CopiesNext, PollerReleases DEF workers
    <3>1. InFlight(e)' \in Int /\ InFlight(e)' <= InFlight(e)
      BY <3>0, CopiesFinite, CopiesNext
    <3>2. QED
      BY <2>1, <3>1, PaidKept DEF PaidInv
  <2>3. QED
    BY <2>1, <2>2 DEF PaidInv, workers
<1>9. ASSUME NEW w \in Worker, Receive(w)
      PROVE  PaidInv'
  <2>1. /\ UNCHANGED <<status, pollers, resets>> /\ wpc' = [wpc EXCEPT ![w] = "claim"]
        /\ queue # <<>> /\ queue' = Tail(queue) /\ msg' = [msg EXCEPT ![w] = Head(queue)]
        /\ msg[w].batch = {}
    BY <1>9 DEF Receive, rows, history, PaidInv
  <2>2. Head(queue) \in Message
    BY <2>1 DEF TypeOK
  <2>3. ASSUME NEW e \in Event
        PROVE  Paid(e)'
    <3>0. /\ Cardinality(InQueue(e)') =
               Cardinality(InQueue(e)) - (IF e \in Head(queue).batch THEN 1 ELSE 0)
          /\ Cardinality(AtWorkers(e)') =
               Cardinality(AtWorkers(e)) + (IF e \in Head(queue).batch THEN 1 ELSE 0)
          /\ AtPollers(e)' = AtPollers(e)
      BY <2>1, <2>2, QueueShrinks, WorkerTakes, CopiesNext
    <3>1. InFlight(e)' = InFlight(e) /\ InFlight(e) \in Int
      BY <3>0, CopiesFinite, CopiesNext
    <3>2. QED
      BY <2>1, <3>1, PaidKept DEF PaidInv
  <2>4. IdleEmpty'
    BY <2>1 DEF PaidInv, TypeOK
  <2>5. QED
    BY <2>3, <2>4 DEF PaidInv
<1>10. ASSUME NEW w \in Worker, Claim(w) \/ IndexDocuments(w) \/ UpsertChunks(w)
       PROVE  PaidInv'
  <2>1. /\ UNCHANGED <<pollers, queue, msg, resets>>
        /\ \E s \in {"index", "embed", "mark"} : wpc' = [wpc EXCEPT ![w] = s]
    BY <1>10 DEF Claim, IndexDocuments, UpsertChunks, history
  <2>2. \A e \in Event : Free(e)' => Free(e)
    BY <1>10 DEF Claim, IndexDocuments, UpsertChunks, WithStatus, rows
  <2>3. ASSUME NEW e \in Event
        PROVE  Paid(e)'
    <3>1. InFlight(e)' = InFlight(e) /\ InFlight(e) \in Int
      BY <2>1, CopiesFinite, CopiesNext
    <3>2. QED
      BY <2>1, <2>2, <3>1, PaidKept DEF PaidInv
  <2>4. IdleEmpty'
    BY <2>1 DEF PaidInv, TypeOK
  <2>5. QED
    BY <2>3, <2>4 DEF PaidInv
<1>11. ASSUME NEW w \in Worker, Release(w), UNCHANGED <<pollers, resets>>,
              \A e \in Event : Free(e)' => Free(e),
              \/ UNCHANGED queue
              \/ /\ [msg[w] EXCEPT !.tries = @ + 1] \in Message
                 /\ queue' = Append(queue, [msg[w] EXCEPT !.tries = @ + 1])
       PROVE  PaidInv'
  <2>1. [msg[w] EXCEPT !.tries = @ + 1].batch = msg[w].batch
    BY DEF TypeOK, Message
  <2>2. ASSUME NEW e \in Event
        PROVE  Paid(e)'
    <3> DEFINE carried == IF e \in msg[w].batch THEN 1 ELSE 0
    <3>1. /\ Cardinality(InQueue(e)') \in Int
          /\ Cardinality(InQueue(e)') <= Cardinality(InQueue(e)) + carried
      <4>1. CASE UNCHANGED queue
        BY <4>1, CopiesFinite, CopiesNext
      <4>2. CASE ~UNCHANGED queue
        <5>1. Cardinality(InQueue(e)') = Cardinality(InQueue(e)) + carried
          BY <1>11, <2>1, <4>2, QueueGrows
        <5>2. QED
          BY <5>1, CopiesFinite
      <4>3. QED
        BY <4>1, <4>2
    <3>2. InFlight(e)' \in Int /\ InFlight(e)' <= InFlight(e)
      BY <1>11, <3>1, WorkerReleases, CopiesFinite, CopiesNext
    <3>3. QED
      BY <1>11, <3>2, PaidKept DEF PaidInv
  <2>3. IdleEmpty'
    BY <1>11 DEF PaidInv, Release, NoMessage, TypeOK
  <2>4. QED
    BY <2>2, <2>3 DEF PaidInv
<1>12. ASSUME NEW w \in Worker, MarkCompleted(w) \/ WorkerCrashes(w)
       PROVE  PaidInv'
  <2>1. Release(w) /\ UNCHANGED <<pollers, queue, resets>>
    BY <1>12 DEF MarkCompleted, WorkerCrashes, history
  <2>2. \A e \in Event : Free(e)' => Free(e)
    BY <1>12 DEF MarkCompleted, WorkerCrashes, WithStatus, rows
  <2>3. QED
    BY <1>11, <2>1, <2>2
<1>13. ASSUME NEW w \in Worker, InjectionFails(w) \/ TaskFails(w)
       PROVE  PaidInv'
  <2>1. Fail(w)
    BY <1>13 DEF InjectionFails, TaskFails
  <2>2. Release(w) /\ UNCHANGED <<status, pollers, resets>>
    BY <2>1 DEF Fail, rows
  <2>3. CASE msg[w].tries < MaxRetries
    <3>0. /\ msg[w].batch \in SUBSET Event
          /\ msg[w].tries + 1 \in 0 .. MaxRetries
          /\ msg[w] \in Message
      BY <2>3, ConstantsOK DEF TypeOK, Message
    <3>1. [msg[w] EXCEPT !.tries = @ + 1] \in Message
      BY <3>0 DEF Message
    <3>2. QED
      BY <1>11, <2>1, <2>2, <2>3, <3>1 DEF Fail
  <2>4. CASE ~(msg[w].tries < MaxRetries)
    BY <1>11, <2>1, <2>2, <2>4 DEF Fail
  <2>5. QED
    BY <2>3, <2>4
<1>14. CASE UNCHANGED vars
  <2>1. UNCHANGED <<status, pollers, queue, workers, resets>>
    BY <1>14 DEF vars, rows, history
  <2>2. \A e \in Event : Paid(e)'
    BY <1>1, <2>1, CopiesNext
  <2>3. QED
    BY <2>1, <2>2 DEF PaidInv, workers
<1>15. QED
  BY <1>2, <1>3, <1>4, <1>5, <1>6, <1>7, <1>8, <1>9, <1>10, <1>12, <1>13, <1>14
     DEF Next, PollStep, TaskStep

\* Whatever pollers, workers and retries overlap, an event has one delivery
\* underway, and one more for each stale reset it has been through.
THEOREM NoUnpaidDelivery == Spec => []DeliveriesPaidFor
<1>1. Spec => [](TypeOK /\ LocksHold /\ PaidInv)
  BY TypeInit, TypeStep, LocksInit, LocksStep, PaidInit, PaidStep, PTL DEF Spec
<1>2. TypeOK /\ PaidInv => DeliveriesPaidFor
  <2> SUFFICES ASSUME TypeOK, PaidInv, NEW e \in Event, resets[e] < MaxResets
               PROVE  InFlight(e) <= 1 + resets[e]
    BY DEF DeliveriesPaidFor
  <2>1. InFlight(e) \in Int /\ resets[e] \in Nat
    BY CopiesFinite, ConstantsOK DEF TypeOK
  <2>2. QED
    BY <2>1 DEF PaidInv, Paid
<1>3. QED
  BY <1>1, <1>2, PTL
=============================================================================
