--------------------------- MODULE Crawler_proofs ---------------------------
(***************************************************************************)
(* Proofs about Crawler for any table, number of processes and consumers,  *)
(* sizes of the queues and the batches, and any number of faults.          *)
(*                                                                         *)
(* Types come first, with the two facts they rest on; then what one        *)
(* transaction of the storage worker makes of a row, from which the events *)
(* of completed rows follow; then where the URL of a processing row is;    *)
(* and last what one process, as deployed, keeps apart.                    *)
(***************************************************************************)
EXTENDS Crawler, SequenceTheorems, FiniteSetTheorems, WellFoundedInduction, TLAPS

Item == CrawlResult \union {StopResult}

-----------------------------------------------------------------------------
(* Sequences and results.                                                  *)

\* The members of a sequence.
In(x, s) == \E i \in DOMAIN s : s[i] = x

LEMMA AppendIn ==
  ASSUME NEW S, NEW s \in Seq(S), NEW e \in S
  PROVE  /\ Append(s, e) \in Seq(S)
         /\ Len(Append(s, e)) = Len(s) + 1
         /\ \A x : In(x, Append(s, e)) <=> In(x, s) \/ x = e
<1>1. /\ Append(s, e) \in Seq(S)
      /\ Len(Append(s, e)) = Len(s) + 1
      /\ Len(s) \in Nat
      /\ \A i \in 1 .. Len(s) : Append(s, e)[i] = s[i]
      /\ Append(s, e)[Len(s) + 1] = e
  OBVIOUS
<1>2. DOMAIN s = 1 .. Len(s) /\ DOMAIN Append(s, e) = 1 .. Len(s) + 1
  BY <1>1, LenProperties
<1>3. QED
  BY <1>1, <1>2 DEF In

\* An empty sequence has no members.
LEMMA EmptyIn == \A x : ~In(x, <<>>)
<1>1. ASSUME NEW i \in DOMAIN <<>>
      PROVE  FALSE
  BY EmptySeq, LenProperties
<1>2. QED
  BY <1>1 DEF In

LEMMA TailIn ==
  ASSUME NEW S, NEW s \in Seq(S), s # <<>>
  PROVE  /\ Head(s) \in S
         /\ Tail(s) \in Seq(S)
         /\ Len(s) \in Nat \ {0}
         /\ Len(Tail(s)) = Len(s) - 1
         /\ Len(s) > 1 => Tail(s) # <<>>
         /\ \A x : In(x, s) <=> x = Head(s) \/ In(x, Tail(s))
<1>1. /\ Head(s) \in S
      /\ Tail(s) \in Seq(S)
      /\ Len(s) \in Nat \ {0}
      /\ Len(Tail(s)) = Len(s) - 1
  BY HeadTailProperties, EmptySeq
<1>2. ASSUME NEW i \in DOMAIN s
      PROVE  s[i] = Head(s) \/ In(s[i], Tail(s))
  <2>1. CASE i = 1
    BY <2>1
  <2>2. CASE i # 1
    <3>1. i - 1 \in 1 .. Len(Tail(s)) /\ i = (i - 1) + 1
      BY <1>1, <1>2, <2>2, LenProperties
    <3>2. Tail(s)[i - 1] = s[i]
      BY <3>1, HeadTailProperties
    <3>3. QED
      BY <1>1, <3>1, <3>2, LenProperties DEF In
  <2>3. QED
    BY <2>1, <2>2
<1>3. ASSUME Len(s) > 1
      PROVE  Tail(s) # <<>>
  <2>1. Len(Tail(s)) # 0
    BY <1>1, <1>3
  <2>2. Len(<<>>) = 0
    BY EmptySeq
  <2>3. QED
    BY <2>1, <2>2
<1>4. ASSUME NEW i \in DOMAIN Tail(s)
      PROVE  In(Tail(s)[i], s)
  <2>1. i \in 1 .. Len(Tail(s)) /\ i + 1 \in DOMAIN s
    BY <1>1, LenProperties
  <2>2. Tail(s)[i] = s[i + 1]
    BY <2>1, HeadTailProperties
  <2>3. QED
    BY <2>1, <2>2 DEF In
<1>5. In(Head(s), s)
  <2>1. 1 \in DOMAIN s
    BY <1>1, LenProperties
  <2>2. QED
    BY <2>1 DEF In
<1>6. ASSUME NEW x
      PROVE  In(x, s) <=> x = Head(s) \/ In(x, Tail(s))
  BY <1>2, <1>4, <1>5 DEF In
<1>7. QED
  BY <1>1, <1>3, <1>6

\* No result of a crawl is the mark that ends the storage worker.
LEMMA StopIsNoResult == StopResult \notin CrawlResult
BY DEF StopResult, CrawlResult, Outcome

\* A set of positions has a last one.
LEMMA LastPosition ==
  ASSUME NEW n \in Nat, NEW S \in SUBSET (1 .. n), S # {}
  PROVE  \E i \in S : \A j \in S : j <= i
<1> DEFINE T == {n - i : i \in S}
<1>1. T \subseteq Nat /\ T # {}
  <2>1. ASSUME NEW i \in S
        PROVE  n - i \in Nat
    <3>1. i \in 1 .. n
      OBVIOUS
    <3>2. QED
      BY <3>1
  <2>2. QED
    BY <2>1
<1>2. PICK m \in T : \A k \in T : <<k, m>> \notin OpToRel(<, Nat)
  BY <1>1, WFMin, NatLessThanWellFounded
<1>3. \A k \in T : ~ (k < m)
  BY <1>1, <1>2 DEF OpToRel
<1>4. PICK i \in S : m = n - i
  BY DEF T
<1>5. ASSUME NEW j \in S
      PROVE  j <= i
  <2>1. ~ (n - j < n - i)
    BY <1>3, <1>4
  <2>2. j \in Nat /\ i \in Nat
    OBVIOUS
  <2>3. QED
    BY <2>1, <2>2
<1>6. QED
  BY <1>5

\* What one transaction of the storage worker makes of the rows.
LEMMA StoredRow ==
  ASSUME NEW s \in Seq(Item), NEW u \in Url
  PROVE  \/ /\ FailuresOf(s, u) # {}
            /\ Stored(s)[u] \in Outcome \ {"completed"}
         \/ /\ FailuresOf(s, u) = {}
            /\ u \in Recipes(s)
            /\ Stored(s)[u] = "completed"
         \/ /\ FailuresOf(s, u) = {}
            /\ u \notin Recipes(s)
            /\ Stored(s)[u] = status[u]
<1>1. CASE FailuresOf(s, u) # {}
  <2> DEFINE last == CHOOSE i \in FailuresOf(s, u) :
                       \A j \in FailuresOf(s, u) : j <= i
  <2>1. FailuresOf(s, u) \subseteq 1 .. Len(s) /\ Len(s) \in Nat
    BY LenProperties DEF FailuresOf
  <2>2. \E i \in FailuresOf(s, u) : \A j \in FailuresOf(s, u) : j <= i
    BY <1>1, <2>1, LastPosition
  <2>3. last \in FailuresOf(s, u)
    BY <2>2
  <2>4. s[last].status \in Outcome \ {"completed"}
    BY <2>3 DEF FailuresOf
  <2>5. Stored(s)[u] = s[last].status
    BY <1>1 DEF Stored
  <2>6. QED
    BY <1>1, <2>4, <2>5
<1>2. CASE FailuresOf(s, u) = {}
  BY <1>2 DEF Stored
<1>3. QED
  BY <1>1, <1>2

LEMMA StoredType ==
  ASSUME NEW s \in Seq(Item), status \in [Url -> RowStatus \union {"absent"}]
  PROVE  Stored(s) \in [Url -> RowStatus \union {"absent"}]
<1>1. ASSUME NEW u \in Url
      PROVE  Stored(s)[u] \in RowStatus \union {"absent"}
  BY StoredRow DEF RowStatus, Outcome
<1>2. Stored(s) = [u \in Url |-> Stored(s)[u]]
  BY DEF Stored
<1>3. QED
  BY <1>1, <1>2

LEMMA RecipesType ==
  ASSUME NEW s \in Seq(Item)
  PROVE  Recipes(s) \subseteq Url \union {Nowhere}
<1>1. ASSUME NEW j \in DOMAIN s, s[j].status = "completed"
      PROVE  s[j].url \in Url
  <2>1. s[j] \in Item
    BY LenProperties, ElementOfSeq
  <2>2. QED
    BY <1>1, <2>1 DEF Item, StopResult, CrawlResult
<1>2. QED
  BY <1>1, ConstantsOK DEF Recipes

-----------------------------------------------------------------------------
(* Types.                                                                  *)

\* The sizes and bounds are numbers.
LEMMA Sizes == /\ UrlCap \in Nat \ {0}
               /\ ResultCap \in Nat \ {0}
               /\ StoreSize \in Nat \ {0}
               /\ MaxErrors \in Nat
               /\ MaxCrashes \in Nat
               /\ MaxElapses \in Nat
BY ConstantsOK

\* Consumers still lack a STOP_SIGNAL while the shutdown puts them.
StopsCounted ==
  \A a \in App :
    /\ phase[a] \in {"run", "drain_urls"} => stops[a] = 0
    /\ phase[a] = "stop_consumers" => stops[a] < Cardinality(Consumer)

\* The fallback of the storage worker has a result to store.
FallbackHasWork == \A a \in App : spc[a] = "single" => sbatch[a] # <<>>

TypeInv == TypeOK /\ StopsCounted /\ FallbackHasWork

LEMMA ConsumersCounted == Cardinality(Consumer) \in Nat \ {0}
BY ConstantsOK, FS_CardinalityType, FS_EmptySet

LEMMA ResultInHand ==
  ASSUME TypeOK, NEW a \in App, NEW c \in Consumer,
         hand[a][c].status \in Outcome \union {"processing"}
  PROVE  hand[a][c] \in CrawlResult
<1>1. hand[a][c] \in CrawlResult \union {Idle, Stopped}
  BY DEF TypeOK
<1>2. hand[a][c].status # "idle" /\ hand[a][c].status # "stopped"
  BY DEF Outcome
<1>3. Idle.status = "idle" /\ Stopped.status = "stopped"
  BY DEF Idle, Stopped
<1>4. QED
  BY <1>1, <1>2, <1>3

\* The part of TypeOK that is about the storage worker.
StorageTypes ==
  /\ spc \in [App -> {"batch", "single", "done"}]
  /\ sbatch \in [App -> Seq(CrawlResult \union {StopResult})]
  /\ \A a \in App : Len(sbatch[a]) <= StoreSize

LEMMA NextSingleType ==
  ASSUME TypeInv, NEW a \in App, spc[a] = "single", NextSingle(a)
  PROVE  StorageTypes' /\ FallbackHasWork'
<1>1. sbatch[a] \in Seq(CrawlResult \union {StopResult}) /\ sbatch[a] # <<>>
  BY DEF TypeInv, TypeOK, FallbackHasWork
<1>2. /\ Tail(sbatch[a]) \in Seq(CrawlResult \union {StopResult})
      /\ Len(sbatch[a]) \in Nat
      /\ Len(Tail(sbatch[a])) = Len(sbatch[a]) - 1
  BY <1>1, TailIn
<1>3. Len(Tail(sbatch[a])) <= StoreSize
  BY <1>2, ConstantsOK DEF TypeInv, TypeOK
<1>4. StorageTypes'
  BY <1>2, <1>3 DEF TypeInv, TypeOK, StorageTypes, NextSingle
<1>5. Len(sbatch[a]) > 1 => Tail(sbatch[a]) # <<>>
  BY <1>1, TailIn
<1>6. FallbackHasWork'
  BY <1>5 DEF TypeInv, TypeOK, FallbackHasWork, NextSingle
<1>7. QED
  BY <1>4, <1>6

LEMMA FirstResult ==
  ASSUME TypeInv, NEW a \in App, spc[a] = "single"
  PROVE  <<Head(sbatch[a])>> \in Seq(Item)
<1>1. sbatch[a] \in Seq(Item) /\ sbatch[a] # <<>>
  BY DEF TypeInv, TypeOK, FallbackHasWork, Item
<1>2. QED
  BY <1>1, TailIn

LEMMA TypeInit == Init => TypeInv
<1> SUFFICES ASSUME Init
             PROVE  TypeInv
  OBVIOUS
<1> USE ConstantsOK, ConsumersCounted DEF Init
<1>1. TypeOK
  BY DEF TypeOK, RowStatus
<1>2. StopsCounted /\ FallbackHasWork
  BY DEF StopsCounted, FallbackHasWork
<1>3. QED
  BY <1>1, <1>2 DEF TypeInv

LEMMA TypeStep == TypeInv /\ [Next]_vars => TypeInv'
<1> SUFFICES ASSUME TypeInv, [Next]_vars
             PROVE  TypeInv'
  OBVIOUS
<1> USE Sizes, ConsumersCounted
    DEF TypeInv, TypeOK, StopsCounted, FallbackHasWork, table, main, producer,
        storage, faults
<1>1. ASSUME NEW u \in Url, InsertPending(u)
      PROVE  TypeInv'
  BY <1>1 DEF InsertPending, RowStatus
<1>2. ASSUME NEW a \in App, TaskFails(a) \/ Crash(a)
      PROVE  TypeInv'
  <2>1. Halt(a) /\ errors' \in 0 .. MaxErrors /\ crashes' \in 0 .. MaxCrashes
    BY <1>2 DEF TaskFails, Crash
  <2>2. hand' \in [App -> [Consumer -> CrawlResult \union {Idle, Stopped}]]
    BY <2>1 DEF Halt
  <2>3. TypeOK'
    <3>1. UNCHANGED <<status, events, elapses>>
      BY <2>1 DEF Halt
    <3>2. /\ due' \in [App -> SUBSET Url]
          /\ clean' \in [App -> BOOLEAN]
          /\ stops' \in [App -> 0..Cardinality(Consumer)]
          /\ pbatch' \in [App -> SUBSET Url]
      BY <2>1 DEF Halt
    <3>3. /\ phase' \in [App -> {"down", "run", "drain_urls", "stop_consumers",
                                 "await_consumers", "drain_results", "stop_storage",
                                 "await_storage"}]
          /\ ppc' \in [App -> {"fetch", "put", "done"}]
          /\ rpc' \in [App -> {"startup", "wait", "reset", "done"}]
          /\ spc' \in [App -> {"batch", "single", "done"}]
      BY <2>1 DEF Halt
    <3>4. /\ urlq' \in [App -> Seq(Url \union {STOP})]
          /\ resq' \in [App -> Seq(CrawlResult \union {StopResult})]
          /\ sbatch' \in [App -> Seq(CrawlResult \union {StopResult})]
      BY <2>1 DEF Halt
    <3>5. \A b \in App : /\ Len(urlq'[b]) <= UrlCap
                         /\ Len(resq'[b]) <= ResultCap
                         /\ Len(sbatch'[b]) <= StoreSize
      BY <2>1 DEF Halt
    <3>6. QED
      BY <2>1, <2>2, <3>1, <3>2, <3>3, <3>4, <3>5
  <2>4. StopsCounted' /\ FallbackHasWork'
    BY <2>1 DEF Halt
  <2>5. QED
    BY <2>3, <2>4
<1>3. ASSUME NEW a \in App, Start(a)
      PROVE  TypeInv'
  <2>1. hand' \in [App -> [Consumer -> CrawlResult \union {Idle, Stopped}]]
    BY <1>3 DEF Start
  <2>2. /\ due' \in [App -> SUBSET Url]
        /\ clean' \in [App -> BOOLEAN]
        /\ stops' \in [App -> 0..Cardinality(Consumer)]
        /\ pbatch' \in [App -> SUBSET Url]
    BY <1>3 DEF Start, InStatus
  <2>3. /\ urlq' \in [App -> Seq(Url \union {STOP})]
        /\ resq' \in [App -> Seq(CrawlResult \union {StopResult})]
        /\ sbatch' \in [App -> Seq(CrawlResult \union {StopResult})]
        /\ \A b \in App : /\ Len(urlq'[b]) <= UrlCap
                         /\ Len(resq'[b]) <= ResultCap
                         /\ Len(sbatch'[b]) <= StoreSize
    BY <1>3 DEF Start
  <2>4. TypeOK'
    BY <1>3, <2>1, <2>2, <2>3 DEF Start
  <2>5. StopsCounted' /\ FallbackHasWork'
    BY <1>3 DEF Start
  <2>6. QED
    BY <2>4, <2>5
<1>4. ASSUME NEW a \in App, Fetch(a)
      PROVE  TypeInv'
  <2>1. PICK batch \in SUBSET InStatus("pending") :
           /\ status' = [u \in Url |-> IF u \in batch THEN "processing"
                                                      ELSE status[u]]
           /\ due' = [b \in App |-> due[b] \ batch]
           /\ ppc' = [ppc EXCEPT ![a] = IF batch = {} THEN "done" ELSE "put"]
           /\ pbatch' = [pbatch EXCEPT ![a] = batch]
    BY <1>4 DEF Fetch
  <2>2. batch \in SUBSET Url
    BY DEF InStatus
  <2>3. status' \in [Url -> RowStatus \union {"absent"}]
    BY <2>1 DEF RowStatus
  <2>4. /\ due' \in [App -> SUBSET Url]
        /\ ppc' \in [App -> {"fetch", "put", "done"}]
        /\ pbatch' \in [App -> SUBSET Url]
    BY <2>1, <2>2
  <2>5. QED
    BY <1>4, <2>3, <2>4 DEF Fetch
<1>5. ASSUME NEW a \in App, PutUrl(a)
      PROVE  TypeInv'
  BY <1>5 DEF PutUrl
<1>6. ASSUME NEW a \in App, Reset(a)
      PROVE  TypeInv'
  <2>1. status' \in [Url -> RowStatus \union {"absent"}]
    BY <1>6 DEF Reset, RowStatus
  <2>2. due' \in [App -> SUBSET Url]
    BY <1>6 DEF Reset
  <2>3. QED
    BY <1>6, <2>1, <2>2 DEF Reset
<1>7. ASSUME NEW a \in App, StopResetting(a)
      PROVE  TypeInv'
  BY <1>7 DEF StopResetting
<1>8. ASSUME NEW a \in App, IntervalElapses(a)
      PROVE  TypeInv'
  <2>1. due' \in [App -> SUBSET Url]
    BY <1>8 DEF IntervalElapses, InStatus
  <2>2. elapses' \in 0 .. MaxElapses
    BY <1>8 DEF IntervalElapses
  <2>3. QED
    BY <1>8, <2>1, <2>2 DEF IntervalElapses
<1>9. ASSUME NEW a \in App, TakeResult(a)
      PROVE  TypeInv'
  BY <1>9 DEF TakeResult
<1>10. ASSUME NEW a \in App, StoreBatch(a)
      PROVE  TypeInv'
  <2>1. sbatch[a] \in Seq(Item)
    BY DEF Item
  <2>2. status' \in [Url -> RowStatus \union {"absent"}]
    BY <1>10, <2>1, StoredType DEF StoreBatch
  <2>3. events' \subseteq Url \union {Nowhere}
    BY <1>10, <2>1, RecipesType DEF StoreBatch
  <2>4. sbatch' \in [App -> Seq(CrawlResult \union {StopResult})]
    BY <1>10 DEF StoreBatch
  <2>5. \A b \in App : Len(sbatch'[b]) <= StoreSize
    BY <1>10 DEF StoreBatch
  <2>6. spc' \in [App -> {"batch", "single", "done"}]
    BY <1>10 DEF StoreBatch
  <2>7. FallbackHasWork'
    BY <1>10 DEF StoreBatch
  <2>8. QED
    BY <1>10, <2>2, <2>3, <2>4, <2>5, <2>6, <2>7 DEF StoreBatch
<1>11. ASSUME NEW a \in App, BatchFails(a)
      PROVE  TypeInv'
  BY <1>11 DEF BatchFails
<1>12. ASSUME NEW a \in App, StoreSingle(a)
      PROVE  TypeInv'
  <2>1. <<Head(sbatch[a])>> \in Seq(Item)
    BY <1>12, FirstResult DEF StoreSingle
  <2>2. status' \in [Url -> RowStatus \union {"absent"}]
    BY <1>12, <2>1, StoredType DEF StoreSingle
  <2>3. events' \subseteq Url \union {Nowhere}
    BY <1>12, <2>1, RecipesType DEF StoreSingle
  <2>4. StorageTypes' /\ FallbackHasWork'
    BY <1>12, NextSingleType DEF StoreSingle
  <2>5. QED
    BY <1>12, <2>2, <2>3, <2>4 DEF StoreSingle, StorageTypes
<1>13. ASSUME NEW a \in App, SkipSingle(a)
      PROVE  TypeInv'
  <2>1. StorageTypes' /\ FallbackHasWork'
    BY <1>13, NextSingleType DEF SkipSingle
  <2>2. clean' \in [App -> BOOLEAN] /\ errors' \in 0 .. MaxErrors
    BY <1>13 DEF SkipSingle
  <2>3. StopsCounted'
    BY <1>13 DEF SkipSingle
  <2>4. TypeOK'
    BY <1>13, <2>1, <2>2 DEF SkipSingle, StorageTypes
  <2>5. QED
    BY <2>1, <2>3, <2>4
<1>14. ASSUME NEW a \in App, BeginShutdown(a)
      PROVE  TypeInv'
  BY <1>14 DEF BeginShutdown, MoveTo
<1>15. ASSUME NEW a \in App, DrainUrls(a)
      PROVE  TypeInv'
  BY <1>15 DEF DrainUrls, MoveTo
<1>16. ASSUME NEW a \in App, PutStop(a)
      PROVE  TypeInv'
  BY <1>16 DEF PutStop, MoveTo
<1>17. ASSUME NEW a \in App, ConsumersDone(a)
      PROVE  TypeInv'
  BY <1>17 DEF ConsumersDone, MoveTo
<1>18. ASSUME NEW a \in App, CancelConsumers(a)
      PROVE  TypeInv'
  BY <1>18 DEF CancelConsumers, MoveTo
<1>19. ASSUME NEW a \in App, DrainResults(a)
      PROVE  TypeInv'
  BY <1>19 DEF DrainResults, MoveTo
<1>20. ASSUME NEW a \in App, StopStorage(a)
      PROVE  TypeInv'
  BY <1>20 DEF StopStorage, MoveTo
<1>21. ASSUME NEW a \in App, Finish(a)
      PROVE  TypeInv'
  BY <1>21 DEF Finish, MoveTo
<1>22. ASSUME NEW a \in App, NEW c \in Consumer, TakeUrl(a, c)
      PROVE  TypeInv'
  <2>1. urlq[a] \in Seq(Url \union {STOP}) /\ urlq[a] # <<>>
    BY <1>22 DEF TakeUrl
  <2>2. /\ Head(urlq[a]) \in Url \union {STOP}
        /\ Tail(urlq[a]) \in Seq(Url \union {STOP})
        /\ Len(Tail(urlq[a])) <= UrlCap
    BY <2>1, TailIn
  <2>3. /\ urlq' \in [App -> Seq(Url \union {STOP})]
        /\ \A b \in App : Len(urlq'[b]) <= UrlCap
    BY <1>22, <2>2 DEF TakeUrl
  <2>4. hand' \in [App -> [Consumer -> CrawlResult \union {Idle, Stopped}]]
    BY <1>22, <2>2 DEF TakeUrl, CrawlResult
  <2>5. QED
    BY <1>22, <2>3, <2>4 DEF TakeUrl
<1>23. ASSUME NEW a \in App, NEW c \in Consumer, Crawl(a, c)
      PROVE  TypeInv'
  <2>1. PICK s \in Outcome : hand' = [hand EXCEPT ![a][c].status = s]
    BY <1>23 DEF Crawl
  <2>2. hand[a][c] \in CrawlResult
    BY <1>23, ResultInHand DEF Crawl
  <2>3. [hand[a][c] EXCEPT !.status = s] \in CrawlResult
    BY <2>2 DEF CrawlResult
  <2>4. hand' = [hand EXCEPT ![a] = [hand[a] EXCEPT ![c] =
                    [hand[a][c] EXCEPT !.status = s]]]
    BY <2>1
  <2>5. hand' \in [App -> [Consumer -> CrawlResult \union {Idle, Stopped}]]
    BY <2>3, <2>4
  <2>6. QED
    BY <1>23, <2>5 DEF Crawl
<1>24. ASSUME NEW a \in App, NEW c \in Consumer, PutResult(a, c)
      PROVE  TypeInv'
  <2>1. hand[a][c] \in CrawlResult
    BY <1>24, ResultInHand DEF PutResult
  <2>2. /\ Append(resq[a], hand[a][c]) \in Seq(CrawlResult \union {StopResult})
        /\ Len(Append(resq[a], hand[a][c])) <= ResultCap
    BY <1>24, <2>1, AppendIn DEF PutResult
  <2>3. /\ resq' \in [App -> Seq(CrawlResult \union {StopResult})]
        /\ \A b \in App : Len(resq'[b]) <= ResultCap
    BY <1>24, <2>2 DEF PutResult
  <2>4. hand' \in [App -> [Consumer -> CrawlResult \union {Idle, Stopped}]]
    BY <1>24 DEF PutResult
  <2>5. QED
    BY <1>24, <2>3, <2>4 DEF PutResult
<1>25. CASE UNCHANGED vars
  BY <1>25 DEF vars
<1>26. QED
  BY <1>1, <1>2, <1>3, <1>4, <1>5, <1>6, <1>7, <1>8, <1>9, <1>10, <1>11,
     <1>12, <1>13, <1>14, <1>15, <1>16, <1>17, <1>18, <1>19, <1>20, <1>21,
     <1>22, <1>23, <1>24, <1>25
     DEF Next, ProducerStep, ResetStep, ConsumerStep, StorageStep, MainStep

\* Whatever the crawler's processes do, fail at or die of, its state has the
\* types declared: no queue and no batch outgrows its bound, no consumer is
\* sent a second STOP_SIGNAL.
THEOREM TypeCorrect == Spec => []TypeOK
<1>1. TypeInv => TypeOK
  BY DEF TypeInv
<1>2. QED
  BY TypeInit, TypeStep, <1>1, PTL DEF Spec

-----------------------------------------------------------------------------
(* Rows and events.                                                        *)

LEMMA StoreKeepsEvents ==
  ASSUME TypeInv, CompletedHasEvent, NEW s \in Seq(Item),
         status' = Stored(s), events' = events \union Recipes(s)
  PROVE  CompletedHasEvent'
<1>1. ASSUME NEW u \in Url, status'[u] = "completed"
      PROVE  u \in events'
  <2>1. CASE u \in Recipes(s)
    BY <2>1
  <2>2. CASE status[u] = "completed"
    BY <2>2 DEF CompletedHasEvent, InStatus
  <2>3. u \in Recipes(s) \/ status[u] = "completed"
    BY <1>1, StoredRow
  <2>4. QED
    BY <2>1, <2>2, <2>3
<1>2. QED
  BY <1>1 DEF CompletedHasEvent, InStatus

LEMMA EventsStep ==
  TypeInv /\ CompletedHasEvent /\ [Next]_vars => CompletedHasEvent'
<1> SUFFICES ASSUME TypeInv, CompletedHasEvent, [Next]_vars
             PROVE  CompletedHasEvent'
  OBVIOUS
<1>1. CASE UNCHANGED <<status, events>>
  BY <1>1 DEF CompletedHasEvent, InStatus
<1>2. ASSUME UNCHANGED events,
             \A u \in Url : status'[u] = "completed" => status[u] = "completed"
      PROVE  CompletedHasEvent'
  BY <1>2 DEF CompletedHasEvent, InStatus
<1>3. ASSUME NEW u \in Url, InsertPending(u)
      PROVE  CompletedHasEvent'
  <2>1. status' = [status EXCEPT ![u] = "pending"] /\ UNCHANGED events
    BY <1>3 DEF InsertPending
  <2>2. status \in [Url -> RowStatus \union {"absent"}]
    BY DEF TypeInv, TypeOK
  <2>3. QED
    BY <1>2, <2>1, <2>2
<1>4. ASSUME NEW a \in App, Fetch(a)
      PROVE  CompletedHasEvent'
  BY <1>2, <1>4 DEF Fetch
<1>5. ASSUME NEW a \in App, Reset(a)
      PROVE  CompletedHasEvent'
  BY <1>2, <1>5 DEF Reset
<1>6. ASSUME NEW a \in App, StoreBatch(a)
      PROVE  CompletedHasEvent'
  <2>1. sbatch[a] \in Seq(Item)
    BY DEF TypeInv, TypeOK, Item
  <2>2. QED
    BY <1>6, <2>1, StoreKeepsEvents DEF StoreBatch
<1>7. ASSUME NEW a \in App, StoreSingle(a)
      PROVE  CompletedHasEvent'
  <2>1. <<Head(sbatch[a])>> \in Seq(Item)
    BY <1>7, FirstResult DEF StoreSingle
  <2>2. QED
    BY <1>7, <2>1, StoreKeepsEvents DEF StoreSingle
<1>8. ASSUME NEW a \in App,
             \/ Start(a) \/ TaskFails(a) \/ Crash(a) \/ PutUrl(a)
             \/ StopResetting(a) \/ IntervalElapses(a) \/ TakeResult(a)
             \/ BatchFails(a) \/ SkipSingle(a) \/ MainStep(a)
      PROVE  CompletedHasEvent'
  <2>1. UNCHANGED <<status, events>>
    BY <1>8
       DEF Start, TaskFails, Crash, Halt, PutUrl, StopResetting, IntervalElapses,
           TakeResult, BatchFails, SkipSingle, MainStep, BeginShutdown, DrainUrls,
           PutStop, ConsumersDone, CancelConsumers, DrainResults, StopStorage,
           Finish, table
  <2>2. QED
    BY <1>1, <2>1
<1>9. ASSUME NEW a \in App, NEW c \in Consumer, ConsumerStep(a, c)
      PROVE  CompletedHasEvent'
  BY <1>1, <1>9 DEF ConsumerStep, TakeUrl, Crawl, PutResult, table
<1>10. CASE UNCHANGED vars
  BY <1>1, <1>10 DEF vars, table
<1>11. QED
  BY <1>3, <1>4, <1>5, <1>6, <1>7, <1>8, <1>9, <1>10
     DEF Next, ProducerStep, ResetStep, StorageStep

\* _ingest_batch and _ingest_single_result write a recipe, its row and its
\* event in one transaction, so a completed row has its event in the outbox
\* whatever fails, is retried, split up, skipped or crawled twice.
THEOREM EventsCommitted == Spec => []CompletedHasEvent
<1>1. Init => CompletedHasEvent
  BY DEF Init, CompletedHasEvent, InStatus
<1>2. QED
  BY TypeInit, TypeStep, <1>1, EventsStep, PTL DEF Spec

-----------------------------------------------------------------------------
(* Where the URL of a processing row is.                                   *)

\* Process a keeps u at some place, its result queue or batch the last.
At(a, u) ==
  \/ u \in pbatch[a]
  \/ In(u, urlq[a])
  \/ \E c \in Consumer : hand[a][c].url = u
  \/ \E x \in Item : x.url = u /\ (In(x, resq[a]) \/ In(x, sbatch[a]))

Found(u) ==
  \/ \E a \in App : At(a, u)
  \/ \E a \in App : rpc[a] = "startup" /\ u \in due[a]
  \/ Page[u] # u

\* A producer that is not putting URLs holds none, and shutdown awaits it.
ProducerEmpty ==
  \A a \in App : /\ ppc[a] # "put" => pbatch[a] = {}
                 /\ phase[a] # "run" => ppc[a] = "done"

\* Only a consumer has a result whose page is still being fetched.
ResultsKnown ==
  \A a \in App : \A x \in Item :
    In(x, resq[a]) \/ In(x, sbatch[a]) => x.status # "processing"

AccountInv == ProducerEmpty /\ ResultsKnown /\ Accounted

LEMMA PlacesAt ==
  ASSUME TypeInv, NEW a \in App, NEW u \in Url
  PROVE  PlacesIn(a, u) # {} <=> At(a, u)
<1>1. /\ DOMAIN resq[a] = 1 .. Len(resq[a])
      /\ \A i \in DOMAIN resq[a] : resq[a][i] \in Item
  BY LenProperties, ElementOfSeq DEF TypeInv, TypeOK, Item
<1>2. /\ DOMAIN sbatch[a] = 1 .. Len(sbatch[a])
      /\ \A i \in DOMAIN sbatch[a] : sbatch[a][i] \in Item
  BY LenProperties, ElementOfSeq DEF TypeInv, TypeOK, Item
<1>3. PlacesIn(a, u) # {} <=>
        \/ u \in pbatch[a]
        \/ \E i \in DOMAIN urlq[a] : urlq[a][i] = u
        \/ \E c \in Consumer : hand[a][c].url = u
        \/ \E i \in DOMAIN resq[a] : resq[a][i].url = u
        \/ \E i \in DOMAIN sbatch[a] : sbatch[a][i].url = u
  BY DEF PlacesIn
<1>4. (\E i \in DOMAIN resq[a] : resq[a][i].url = u) <=>
        \E x \in Item : x.url = u /\ In(x, resq[a])
  BY <1>1 DEF In
<1>5. (\E i \in DOMAIN sbatch[a] : sbatch[a][i].url = u) <=>
        \E x \in Item : x.url = u /\ In(x, sbatch[a])
  BY <1>2 DEF In
<1>6. QED
  BY <1>3, <1>4, <1>5 DEF At, In

AllFound ==
  (\A a \in App : clean[a]) =>
    \A u \in Url : status[u] = "processing" => Found(u)

LEMMA AccountedFound == TypeInv => (Accounted <=> AllFound)
<1> SUFFICES ASSUME TypeInv
             PROVE  Accounted <=> AllFound
  OBVIOUS
<1>1. ASSUME NEW u \in Url
      PROVE  u \in Held \union ToBeFreed \union Misnamed <=> Found(u)
  <2>1. u \in Held <=> \E a \in App : At(a, u)
    BY PlacesAt DEF Held, Places
  <2>2. u \in ToBeFreed <=> \E a \in App : rpc[a] = "startup" /\ u \in due[a]
    BY DEF ToBeFreed
  <2>3. QED
    BY <2>1, <2>2 DEF Misnamed, Found
<1>2. QED
  BY <1>1 DEF Accounted, AllFound, InStatus

LEMMA AccountedFoundNext == TypeInv' => (Accounted' <=> AllFound')
BY AccountedFound, PTL

\* A transaction with the outcome of u's page leaves no processing row.
LEMMA StoredSettles ==
  ASSUME NEW s \in Seq(Item), NEW u \in Url, NEW x \in Item, In(x, s),
         x.url = u, x.status # "processing", Page[u] = u
  PROVE  Stored(s)[u] # "processing"
<1>1. x \in CrawlResult /\ x.status \in Outcome
  BY ConstantsOK DEF Item, StopResult, CrawlResult
<1>2. PICK i \in DOMAIN s : s[i] = x
  BY DEF In
<1>3. CASE x.status = "completed"
  <2>1. u \in Recipes(s)
    BY <1>2, <1>3 DEF Recipes
  <2>2. QED
    BY <2>1, StoredRow DEF Outcome
<1>4. CASE x.status # "completed"
  <2>1. i \in FailuresOf(s, u)
    BY <1>1, <1>2, <1>4 DEF FailuresOf
  <2>2. QED
    BY <2>1, StoredRow DEF Outcome
<1>5. QED
  BY <1>3, <1>4

\* A transaction makes no row processing.
LEMMA StoredNotTaken ==
  ASSUME NEW s \in Seq(Item), NEW u \in Url, Stored(s)[u] = "processing"
  PROVE  status[u] = "processing"
BY StoredRow DEF Outcome

\* What there is to show of a step that keeps the queues' contents somewhere.
LEMMA KeptFound ==
  ASSUME TypeInv, TypeInv', Accounted,
         (\A a \in App : clean'[a]) => \A a \in App : clean[a],
         \A u \in Url : status'[u] = "processing" /\ Page[u] = u =>
           \/ \E a \in App : At(a, u)'
           \/ /\ status[u] = "processing"
              /\ \A a \in App : At(a, u) => At(a, u)'
              /\ \A a \in App : rpc[a] = "startup" /\ u \in due[a] =>
                   rpc'[a] = "startup" /\ u \in due'[a]
  PROVE  Accounted'
<1>1. SUFFICES ASSUME \A a \in App : clean'[a], NEW u \in Url,
                      status'[u] = "processing", Page[u] = u
               PROVE  Found(u)'
  <2>1. \A u \in Url : Page[u] # u => Found(u)'
    BY DEF Found
  <2>2. QED
    BY <2>1, AccountedFoundNext DEF AllFound
<1>2. CASE \E a \in App : At(a, u)'
  BY <1>2 DEF Found
<1>3. CASE /\ status[u] = "processing"
           /\ \A a \in App : At(a, u) => At(a, u)'
           /\ \A a \in App : rpc[a] = "startup" /\ u \in due[a] =>
                rpc'[a] = "startup" /\ u \in due'[a]
  <2>1. Found(u)
    BY <1>1, <1>3, AccountedFound DEF AllFound
  <2>2. QED
    BY <1>1, <1>3, <2>1 DEF Found
<1>4. QED
  BY <1>1, <1>2, <1>3

LEMMA ProducerStepKeeps ==
  TypeInv /\ ProducerEmpty /\ [Next]_vars => ProducerEmpty'
<1> SUFFICES ASSUME TypeInv, ProducerEmpty, [Next]_vars
             PROVE  ProducerEmpty'
  OBVIOUS
<1> USE DEF ProducerEmpty, main, producer
<1>1. CASE UNCHANGED <<ppc, pbatch, phase>>
  BY <1>1
<1>2. /\ phase \in [App -> {"down", "run", "drain_urls", "stop_consumers",
                            "await_consumers", "drain_results", "stop_storage",
                            "await_storage"}]
      /\ ppc \in [App -> {"fetch", "put", "done"}]
      /\ pbatch \in [App -> SUBSET Url]
  BY DEF TypeInv, TypeOK
<1>3. ASSUME NEW a \in App, Start(a)
      PROVE  ProducerEmpty'
  BY <1>2, <1>3 DEF Start
<1>4. ASSUME NEW a \in App, TaskFails(a) \/ Crash(a)
      PROVE  ProducerEmpty'
  BY <1>2, <1>4 DEF TaskFails, Crash, Halt
<1>5. ASSUME NEW a \in App, Fetch(a)
      PROVE  ProducerEmpty'
  BY <1>2, <1>5 DEF Fetch
<1>6. ASSUME NEW a \in App, PutUrl(a)
      PROVE  ProducerEmpty'
  BY <1>2, <1>6 DEF PutUrl
<1>7. ASSUME NEW a \in App, BeginShutdown(a)
      PROVE  ProducerEmpty'
  BY <1>2, <1>7 DEF BeginShutdown, MoveTo
<1>8. ASSUME NEW a \in App,
             \/ DrainUrls(a) \/ PutStop(a) \/ ConsumersDone(a)
             \/ CancelConsumers(a) \/ DrainResults(a) \/ StopStorage(a) \/ Finish(a)
      PROVE  ProducerEmpty'
  <2>1. /\ UNCHANGED <<ppc, pbatch>>
        /\ phase[a] # "run"
        /\ \A b \in App \ {a} : phase'[b] = phase[b]
    BY <1>2, <1>8
       DEF DrainUrls, PutStop, ConsumersDone, CancelConsumers, DrainResults,
           StopStorage, Finish, MoveTo
  <2>2. QED
    BY <2>1
<1>9. ASSUME NEW a \in App,
             ResetStep(a) \/ IntervalElapses(a) \/ StorageStep(a)
      PROVE  ProducerEmpty'
  <2>1. UNCHANGED <<ppc, pbatch, phase>>
    BY <1>9
       DEF ResetStep, Reset, StopResetting, IntervalElapses, StorageStep, TakeResult,
           StoreBatch, BatchFails, StoreSingle, SkipSingle
  <2>2. QED
    BY <1>1, <2>1
<1>10. ASSUME NEW u \in Url, InsertPending(u)
       PROVE  ProducerEmpty'
  BY <1>1, <1>10 DEF InsertPending
<1>11. ASSUME NEW a \in App, NEW c \in Consumer, ConsumerStep(a, c)
       PROVE  ProducerEmpty'
  BY <1>1, <1>11 DEF ConsumerStep, TakeUrl, Crawl, PutResult
<1>12. CASE UNCHANGED vars
  BY <1>1, <1>12 DEF vars
<1>13. QED
  BY <1>3, <1>4, <1>5, <1>6, <1>7, <1>8, <1>9, <1>10, <1>11, <1>12
     DEF Next, ProducerStep, MainStep

\* What a step may do to the results that are queued and collected.
LEMMA ResultsStep ==
  TypeInv /\ ResultsKnown /\ [Next]_vars => ResultsKnown'
<1> SUFFICES ASSUME TypeInv, ResultsKnown, [Next]_vars
             PROVE  ResultsKnown'
  OBVIOUS
<1>1. /\ resq \in [App -> Seq(Item)]
      /\ sbatch \in [App -> Seq(Item)]
  BY DEF TypeInv, TypeOK, Item
<1>2. ASSUME \A a \in App : \A x \in Item :
               In(x, resq'[a]) \/ In(x, sbatch'[a]) =>
                 In(x, resq[a]) \/ In(x, sbatch[a]) \/ x.status # "processing"
      PROVE  ResultsKnown'
  BY <1>2 DEF ResultsKnown
<1>3. CASE UNCHANGED <<resq, sbatch>>
  BY <1>2, <1>3
<1>4. ASSUME NEW a \in App, Start(a) \/ TaskFails(a) \/ Crash(a)
      PROVE  ResultsKnown'
  <2>1. resq' = [resq EXCEPT ![a] = <<>>] /\ sbatch' = [sbatch EXCEPT ![a] = <<>>]
    BY <1>4 DEF Start, TaskFails, Crash, Halt
  <2>2. QED
    BY <1>1, <1>2, <2>1, EmptyIn
<1>5. ASSUME NEW a \in App, TakeResult(a)
      PROVE  ResultsKnown'
  <2>1. /\ resq[a] # <<>>
        /\ sbatch' = [sbatch EXCEPT ![a] = Append(@, Head(resq[a]))]
        /\ resq' = [resq EXCEPT ![a] = Tail(@)]
    BY <1>5 DEF TakeResult
  <2>2. \A x : In(x, resq[a]) <=> x = Head(resq[a]) \/ In(x, Tail(resq[a]))
    BY <1>1, <2>1, TailIn
  <2>3. Head(resq[a]) \in Item
    BY <1>1, <2>1, TailIn
  <2>4. \A x : In(x, Append(sbatch[a], Head(resq[a]))) <=>
               In(x, sbatch[a]) \/ x = Head(resq[a])
    BY <1>1, <2>3, AppendIn
  <2>5. QED
    BY <1>1, <1>2, <2>1, <2>2, <2>4
<1>6. ASSUME NEW a \in App, StoreBatch(a)
      PROVE  ResultsKnown'
  <2>1. UNCHANGED resq /\ sbatch' = [sbatch EXCEPT ![a] = <<>>]
    BY <1>6 DEF StoreBatch
  <2>2. QED
    BY <1>1, <1>2, <2>1, EmptyIn
<1>7. ASSUME NEW a \in App, StoreSingle(a) \/ SkipSingle(a)
      PROVE  ResultsKnown'
  <2>1. /\ UNCHANGED resq
        /\ sbatch' = [sbatch EXCEPT ![a] = Tail(@)]
        /\ sbatch[a] # <<>>
    BY <1>7 DEF StoreSingle, SkipSingle, NextSingle, TypeInv, FallbackHasWork
  <2>2. \A x : In(x, Tail(sbatch[a])) => In(x, sbatch[a])
    BY <1>1, <2>1, TailIn
  <2>3. QED
    BY <1>1, <1>2, <2>1, <2>2
<1>8. ASSUME NEW a \in App, NEW c \in Consumer, PutResult(a, c)
      PROVE  ResultsKnown'
  <2>1. /\ resq' = [resq EXCEPT ![a] = Append(@, hand[a][c])]
        /\ UNCHANGED sbatch
        /\ hand[a][c].status \in Outcome
    BY <1>8 DEF PutResult, storage
  <2>2. hand[a][c] \in Item
    BY <2>1, ResultInHand DEF TypeInv, Item
  <2>3. hand[a][c].status # "processing"
    BY <2>1 DEF Outcome
  <2>4. \A x : In(x, Append(resq[a], hand[a][c])) <=> In(x, resq[a]) \/ x = hand[a][c]
    BY <1>1, <2>2, AppendIn
  <2>5. QED
    BY <1>1, <1>2, <2>1, <2>3, <2>4
<1>9. ASSUME NEW a \in App, StopStorage(a)
      PROVE  ResultsKnown'
  <2>1. resq' = [resq EXCEPT ![a] = Append(@, StopResult)] /\ UNCHANGED sbatch
    BY <1>9 DEF StopStorage, storage
  <2>2. \A x : In(x, Append(resq[a], StopResult)) <=> In(x, resq[a]) \/ x = StopResult
    BY <1>1, AppendIn DEF Item
  <2>3. StopResult.status # "processing"
    BY DEF StopResult
  <2>4. QED
    BY <1>1, <1>2, <2>1, <2>2, <2>3
<1>10. ASSUME NEW a \in App,
              \/ ProducerStep(a) \/ ResetStep(a) \/ IntervalElapses(a)
              \/ BatchFails(a) \/ BeginShutdown(a) \/ DrainUrls(a) \/ PutStop(a)
              \/ ConsumersDone(a) \/ CancelConsumers(a) \/ DrainResults(a)
              \/ Finish(a)
       PROVE  ResultsKnown'
  <2>1. UNCHANGED <<resq, sbatch>>
    BY <1>10
       DEF ProducerStep, Fetch, PutUrl, ResetStep, Reset, StopResetting,
           IntervalElapses, BatchFails, BeginShutdown, DrainUrls, PutStop,
           ConsumersDone, CancelConsumers, DrainResults, Finish, storage
  <2>2. QED
    BY <1>3, <2>1
<1>11. ASSUME NEW u \in Url, InsertPending(u)
       PROVE  ResultsKnown'
  BY <1>3, <1>11 DEF InsertPending, storage
<1>12. ASSUME NEW a \in App, NEW c \in Consumer, TakeUrl(a, c) \/ Crawl(a, c)
       PROVE  ResultsKnown'
  BY <1>3, <1>12 DEF TakeUrl, Crawl, storage
<1>13. CASE UNCHANGED vars
  BY <1>3, <1>13 DEF vars, storage
<1>14. QED
  BY <1>4, <1>5, <1>6, <1>7, <1>8, <1>9, <1>10, <1>11, <1>12, <1>13
     DEF Next, ConsumerStep, StorageStep, MainStep

\* A step that touches neither a row nor a reset, and loses no URL.
LEMMA MovedFound ==
  ASSUME TypeInv, TypeInv', Accounted, UNCHANGED <<status, clean, due>>,
         \A a \in App : rpc[a] = "startup" => rpc'[a] = "startup",
         \A a \in App : \A u \in Url : At(a, u) => At(a, u)'
  PROVE  Accounted'
<1>1. (\A a \in App : clean'[a]) => \A a \in App : clean[a]
  OBVIOUS
<1>2. ASSUME NEW u \in Url, status'[u] = "processing"
      PROVE  /\ status[u] = "processing"
             /\ \A a \in App : At(a, u) => At(a, u)'
             /\ \A a \in App : rpc[a] = "startup" /\ u \in due[a] =>
                  rpc'[a] = "startup" /\ u \in due'[a]
  BY <1>2
<1>3. QED
  BY <1>1, <1>2, KeptFound

\* The rows: discovery, the producer and the reset worker.
LEMMA RowStepAccounted ==
  ASSUME TypeInv, TypeInv', ProducerEmpty, Accounted,
         \/ \E u \in Url : InsertPending(u)
         \/ \E a \in App : \/ Fetch(a) \/ PutUrl(a) \/ Reset(a) \/ StopResetting(a)
                           \/ IntervalElapses(a)
  PROVE  Accounted'
<1> USE DEF At, main, producer, storage, table
<1>0. /\ status \in [Url -> RowStatus \union {"absent"}]
      /\ due \in [App -> SUBSET Url]
      /\ ppc \in [App -> {"fetch", "put", "done"}]
      /\ pbatch \in [App -> SUBSET Url]
      /\ rpc \in [App -> {"startup", "wait", "reset", "done"}]
      /\ urlq \in [App -> Seq(Url \union {STOP})]
  BY DEF TypeInv, TypeOK
<1>1. ASSUME NEW v \in Url, InsertPending(v)
      PROVE  Accounted'
  <2>1. /\ UNCHANGED <<clean, due, rpc, pbatch, urlq, hand, resq, sbatch>>
        /\ status' = [status EXCEPT ![v] = "pending"]
    BY <1>1 DEF InsertPending
  <2>2. ASSUME NEW u \in Url, status'[u] = "processing"
        PROVE  status[u] = "processing"
    BY <1>0, <2>1, <2>2
  <2>3. QED
    BY <2>1, <2>2, KeptFound
<1>2. ASSUME NEW a \in App, Fetch(a)
      PROVE  Accounted'
  <2>1. PICK batch \in SUBSET InStatus("pending") :
           /\ status' = [u \in Url |-> IF u \in batch THEN "processing"
                                                      ELSE status[u]]
           /\ due' = [b \in App |-> due[b] \ batch]
           /\ pbatch' = [pbatch EXCEPT ![a] = batch]
    BY <1>2 DEF Fetch
  <2>2. UNCHANGED <<clean, rpc, urlq, hand, resq, sbatch>>
    BY <1>2 DEF Fetch
  <2>3. pbatch[a] = {}
    BY <1>2 DEF Fetch, ProducerEmpty
  <2>4. ASSUME NEW u \in Url, NEW b \in App, At(b, u)
        PROVE  At(b, u)'
    BY <1>0, <2>1, <2>2, <2>3, <2>4
  <2>5. ASSUME NEW u \in Url, u \in batch
        PROVE  At(a, u)'
    BY <1>0, <2>1, <2>5
  <2>6. ASSUME NEW u \in Url, u \notin batch, status'[u] = "processing"
        PROVE  /\ status[u] = "processing"
               /\ \A b \in App : u \in due[b] => u \in due'[b]
    BY <2>1, <2>6
  <2>7. (\A b \in App : clean'[b]) => \A b \in App : clean[b]
    BY <2>2
  <2>8. \A b \in App : rpc[b] = "startup" => rpc'[b] = "startup"
    BY <2>2
  <2> HIDE DEF At
  <2>9. ASSUME NEW u \in Url, status'[u] = "processing"
        PROVE  \/ \E b \in App : At(b, u)'
               \/ /\ status[u] = "processing"
                  /\ \A b \in App : At(b, u) => At(b, u)'
                  /\ \A b \in App : rpc[b] = "startup" /\ u \in due[b] =>
                       rpc'[b] = "startup" /\ u \in due'[b]
    BY <2>4, <2>5, <2>6, <2>8, <2>9
  <2>10. QED
    BY <2>7, <2>9, KeptFound
<1>3. ASSUME NEW a \in App, PutUrl(a)
      PROVE  Accounted'
  <2>1. PICK v \in pbatch[a] :
           /\ urlq' = [urlq EXCEPT ![a] = Append(@, v)]
           /\ pbatch' = [pbatch EXCEPT ![a] = @ \ {v}]
    BY <1>3 DEF PutUrl
  <2>2. UNCHANGED <<status, clean, due, rpc, hand, resq, sbatch>>
    BY <1>3 DEF PutUrl
  <2>3. \A x : In(x, Append(urlq[a], v)) <=> In(x, urlq[a]) \/ x = v
    BY <1>0, AppendIn
  <2>4. ASSUME NEW u \in Url, NEW b \in App, At(b, u)
        PROVE  At(b, u)'
    BY <1>0, <2>1, <2>2, <2>3, <2>4
  <2>5. QED
    BY <2>2, <2>4, MovedFound
<1>4. ASSUME NEW a \in App, Reset(a)
      PROVE  Accounted'
  <2>1. /\ UNCHANGED <<clean, pbatch, urlq, hand, resq, sbatch>>
        /\ status' = [u \in Url |->
                        IF u \in due[a] /\ status[u] = "processing" THEN "pending"
                                                                   ELSE status[u]]
        /\ due' = [due EXCEPT ![a] = {}]
        /\ \A b \in App \ {a} : rpc'[b] = rpc[b]
    BY <1>0, <1>4 DEF Reset
  <2>2. ASSUME NEW u \in Url, status'[u] = "processing"
        PROVE  /\ status[u] = "processing"
               /\ \A b \in App : rpc[b] = "startup" /\ u \in due[b] =>
                    rpc'[b] = "startup" /\ u \in due'[b]
    <3>1. status[u] = "processing" /\ u \notin due[a]
      BY <2>1, <2>2
    <3>2. QED
      BY <1>0, <2>1, <3>1
  <2>3. QED
    BY <2>1, <2>2, KeptFound
<1>5. ASSUME NEW a \in App, StopResetting(a)
      PROVE  Accounted'
  <2>1. /\ UNCHANGED <<status, clean, due, pbatch, urlq, hand, resq, sbatch>>
        /\ \A b \in App : rpc[b] = "startup" => rpc'[b] = "startup"
    BY <1>0, <1>5 DEF StopResetting
  <2>2. QED
    BY <2>1, MovedFound
<1>6. ASSUME NEW a \in App, IntervalElapses(a)
      PROVE  Accounted'
  <2>1. /\ UNCHANGED <<status, clean, pbatch, urlq, hand, resq, sbatch>>
        /\ \A b \in App : rpc[b] = "startup" =>
             rpc'[b] = "startup" /\ due'[b] = due[b]
    BY <1>0, <1>6 DEF IntervalElapses
  <2>2. QED
    BY <2>1, KeptFound
<1>7. QED
  BY <1>1, <1>2, <1>3, <1>4, <1>5, <1>6

\* Consumers: a URL goes from url_queue into a hand and on into result_queue.
LEMMA ConsumerStepAccounted ==
  ASSUME TypeInv, TypeInv', Accounted,
         NEW a \in App, NEW c \in Consumer, ConsumerStep(a, c)
  PROVE  Accounted'
<1> USE DEF At, main, producer, storage, table
<1>0. /\ urlq \in [App -> Seq(Url \union {STOP})]
      /\ hand \in [App -> [Consumer -> CrawlResult \union {Idle, Stopped}]]
      /\ resq \in [App -> Seq(Item)]
  BY DEF TypeInv, TypeOK, Item
<1>1. CASE TakeUrl(a, c)
  <2> DEFINE v == Head(urlq[a])
             taken == IF v = STOP THEN Stopped
                                  ELSE [url |-> v, status |-> "processing"]
  <2>1. /\ hand[a][c] = Idle
        /\ urlq[a] # <<>>
        /\ hand' = [hand EXCEPT ![a][c] = taken]
        /\ urlq' = [urlq EXCEPT ![a] = Tail(@)]
        /\ UNCHANGED <<status, clean, due, rpc, pbatch, resq, sbatch>>
    BY <1>1 DEF TakeUrl
  <2>2. \A x : In(x, urlq[a]) <=> x = v \/ In(x, Tail(urlq[a]))
    BY <1>0, <2>1, TailIn
  <2>3. \A u \in Url : Idle.url # u
    BY ConstantsOK DEF Idle
  <2>4. \A u \in Url : u = v => taken.url = u
    BY ConstantsOK
  <2> HIDE DEF taken, v
  <2>5. hand'[a][c] = taken /\ urlq'[a] = Tail(urlq[a])
    BY <1>0, <2>1
  <2>6. \A d \in Consumer \ {c} : hand'[a][d] = hand[a][d]
    BY <1>0, <2>1
  <2>7. \A b \in App \ {a} : hand'[b] = hand[b] /\ urlq'[b] = urlq[b]
    BY <1>0, <2>1
  <2>8. ASSUME NEW u \in Url, At(a, u)
        PROVE  At(a, u)'
    <3>1. CASE In(u, urlq[a])
      BY <2>2, <2>4, <2>5, <3>1
    <3>2. CASE \E d \in Consumer : hand[a][d].url = u
      BY <2>1, <2>3, <2>6, <3>2
    <3>3. QED
      BY <2>1, <2>8, <3>1, <3>2
  <2>9. ASSUME NEW u \in Url, NEW b \in App, At(b, u)
        PROVE  At(b, u)'
    BY <2>1, <2>7, <2>8, <2>9
  <2>10. QED
    BY <2>1, <2>9, MovedFound
<1>2. CASE Crawl(a, c)
  <2>1. PICK s \in Outcome : hand' = [hand EXCEPT ![a][c].status = s]
    BY <1>2 DEF Crawl
  <2>2. UNCHANGED <<status, clean, due, rpc, pbatch, urlq, resq, sbatch>>
    BY <1>2 DEF Crawl
  <2>3. hand[a][c] \in CrawlResult
    BY <1>2, ResultInHand DEF Crawl, TypeInv
  <2>4. [hand[a][c] EXCEPT !.status = s].url = hand[a][c].url
    BY <2>3 DEF CrawlResult
  <2>5. hand' = [hand EXCEPT ![a] = [hand[a] EXCEPT ![c] =
                    [hand[a][c] EXCEPT !.status = s]]]
    BY <2>1
  <2>6. \A b \in App : \A d \in Consumer : hand'[b][d].url = hand[b][d].url
    BY <1>0, <2>4, <2>5
  <2>7. ASSUME NEW u \in Url, NEW b \in App, At(b, u)
        PROVE  At(b, u)'
    BY <2>2, <2>6, <2>7
  <2>8. QED
    BY <2>2, <2>7, MovedFound
<1>3. CASE PutResult(a, c)
  <2>1. /\ hand[a][c].status \in Outcome
        /\ resq' = [resq EXCEPT ![a] = Append(@, hand[a][c])]
        /\ hand' = [hand EXCEPT ![a][c] = Idle]
        /\ UNCHANGED <<status, clean, due, rpc, pbatch, urlq, sbatch>>
    BY <1>3 DEF PutResult
  <2>2. hand[a][c] \in Item
    BY <2>1, ResultInHand DEF TypeInv, Item
  <2>3. \A x : In(x, Append(resq[a], hand[a][c])) <=> In(x, resq[a]) \/ x = hand[a][c]
    BY <1>0, <2>2, AppendIn
  <2>4. resq'[a] = Append(resq[a], hand[a][c])
    BY <1>0, <2>1
  <2>5. \A d \in Consumer \ {c} : hand'[a][d] = hand[a][d]
    BY <1>0, <2>1
  <2>6. \A b \in App \ {a} : hand'[b] = hand[b] /\ resq'[b] = resq[b]
    BY <1>0, <2>1
  <2>7. ASSUME NEW u \in Url, At(a, u)
        PROVE  At(a, u)'
    <3>1. CASE \E d \in Consumer : hand[a][d].url = u
      BY <2>2, <2>3, <2>4, <2>5, <3>1
    <3>2. CASE \E x \in Item : x.url = u /\ (In(x, resq[a]) \/ In(x, sbatch[a]))
      BY <2>1, <2>3, <2>4, <3>2
    <3>3. QED
      BY <2>1, <2>7, <3>1, <3>2
  <2>8. ASSUME NEW u \in Url, NEW b \in App, At(b, u)
        PROVE  At(b, u)'
    BY <2>1, <2>6, <2>7, <2>8
  <2>9. QED
    BY <2>1, <2>8, MovedFound
<1>4. QED
  BY <1>1, <1>2, <1>3 DEF ConsumerStep

\* The storage worker: what leaves its batch is settled, unless a result is
\* skipped, which marks the run.
LEMMA StorageStepAccounted ==
  ASSUME TypeInv, TypeInv', ResultsKnown, Accounted, NEW a \in App, StorageStep(a)
  PROVE  Accounted'
<1> USE DEF main, producer, storage, table
<1>0. /\ resq \in [App -> Seq(Item)]
      /\ sbatch \in [App -> Seq(Item)]
      /\ clean \in [App -> BOOLEAN]
  BY DEF TypeInv, TypeOK, Item
<1>1. CASE TakeResult(a)
  <2>1. /\ resq[a] # <<>>
        /\ sbatch' = [sbatch EXCEPT ![a] = Append(@, Head(resq[a]))]
        /\ resq' = [resq EXCEPT ![a] = Tail(@)]
        /\ UNCHANGED <<status, clean, due, rpc, pbatch, urlq, hand>>
    BY <1>1 DEF TakeResult
  <2>2. /\ Head(resq[a]) \in Item
        /\ \A x : In(x, resq[a]) <=> x = Head(resq[a]) \/ In(x, Tail(resq[a]))
    BY <1>0, <2>1, TailIn
  <2>3. \A x : In(x, Append(sbatch[a], Head(resq[a]))) <=>
               In(x, sbatch[a]) \/ x = Head(resq[a])
    BY <1>0, <2>2, AppendIn
  <2>4. ASSUME NEW b \in App, NEW x, In(x, resq[b]) \/ In(x, sbatch[b])
        PROVE  In(x, resq'[b]) \/ In(x, sbatch'[b])
    BY <1>0, <2>1, <2>2, <2>3, <2>4
  <2>5. ASSUME NEW u \in Url, NEW b \in App, At(b, u)
        PROVE  At(b, u)'
    BY <2>1, <2>4, <2>5 DEF At
  <2>6. QED
    BY <2>1, <2>5, MovedFound
<1>2. ASSUME NEW s \in Seq(Item), status' = Stored(s),
             UNCHANGED <<clean, due, rpc, pbatch, urlq, hand, resq>>,
             \A b \in App \ {a} : sbatch'[b] = sbatch[b],
             \A x : In(x, sbatch[a]) => In(x, s) \/ In(x, sbatch'[a]),
             \A x : In(x, s) => In(x, sbatch[a])
      PROVE  Accounted'
  <2>1. ASSUME NEW u \in Url, status'[u] = "processing", Page[u] = u
        PROVE  /\ status[u] = "processing"
               /\ \A b \in App : At(b, u) => At(b, u)'
    <3>1. status[u] = "processing"
      BY <1>2, <2>1, StoredNotTaken
    <3>2. ASSUME NEW x \in Item, x.url = u, In(x, sbatch[a])
          PROVE  In(x, sbatch'[a])
      <4>1. x.status # "processing"
        BY <3>2 DEF ResultsKnown
      <4>2. ~In(x, s)
        BY <1>2, <2>1, <3>2, <4>1, StoredSettles
      <4>3. QED
        BY <1>2, <3>2, <4>2
    <3>3. ASSUME NEW b \in App, At(b, u)
          PROVE  At(b, u)'
      <4>1. CASE b = a
        BY <1>2, <3>2, <3>3, <4>1 DEF At
      <4>2. CASE b # a
        BY <1>2, <3>3, <4>2 DEF At
      <4>3. QED
        BY <4>1, <4>2
    <3>4. QED
      BY <3>1, <3>3
  <2>2. QED
    BY <1>2, <2>1, KeptFound
<1>3. CASE StoreBatch(a)
  <2>1. /\ status' = Stored(sbatch[a])
        /\ UNCHANGED <<clean, due, rpc, pbatch, urlq, hand, resq>>
        /\ \A b \in App \ {a} : sbatch'[b] = sbatch[b]
    BY <1>0, <1>3 DEF StoreBatch
  <2>2. QED
    BY <1>0, <1>2, <2>1
<1>4. CASE BatchFails(a)
  <2>1. UNCHANGED <<status, clean, due, rpc, pbatch, urlq, hand, resq, sbatch>>
    BY <1>4 DEF BatchFails
  <2>2. QED
    BY <2>1, MovedFound DEF At
<1>5. CASE StoreSingle(a)
  <2> DEFINE s == <<Head(sbatch[a])>>
  <2>1. /\ status' = Stored(s)
        /\ UNCHANGED <<clean, due, rpc, pbatch, urlq, hand, resq>>
        /\ sbatch' = [sbatch EXCEPT ![a] = Tail(@)]
        /\ sbatch[a] # <<>>
    BY <1>5 DEF StoreSingle, NextSingle, TypeInv, FallbackHasWork
  <2>2. \A x : In(x, sbatch[a]) <=> x = Head(sbatch[a]) \/ In(x, Tail(sbatch[a]))
    BY <1>0, <2>1, TailIn
  <2>3. s \in Seq(Item)
    BY <1>5, FirstResult DEF StoreSingle
  <2>4. \A x : In(x, s) <=> x = Head(sbatch[a])
    BY DEF In
  <2>5. /\ sbatch'[a] = Tail(sbatch[a])
        /\ \A b \in App \ {a} : sbatch'[b] = sbatch[b]
    BY <1>0, <2>1
  <2> HIDE DEF s
  <2>6. QED
    BY <1>2, <2>1, <2>2, <2>3, <2>4, <2>5
<1>6. CASE SkipSingle(a)
  <2>1. clean'[a] = FALSE
    BY <1>0, <1>6 DEF SkipSingle
  <2>2. QED
    BY <2>1 DEF Accounted
<1>7. QED
  BY <1>1, <1>3, <1>4, <1>5, <1>6 DEF StorageStep

\* A process starts, fails or dies.
LEMMA ProcessStepAccounted ==
  ASSUME TypeInv, TypeInv', Accounted, NEW a \in App,
         Start(a) \/ TaskFails(a) \/ Crash(a)
  PROVE  Accounted'
<1>0. /\ clean \in [App -> BOOLEAN]
      /\ rpc \in [App -> {"startup", "wait", "reset", "done"}]
      /\ due \in [App -> SUBSET Url]
  BY DEF TypeInv, TypeOK
<1>1. CASE Start(a)
  <2>1. rpc'[a] = "startup" /\ due'[a] = InStatus("processing") /\ UNCHANGED status
    BY <1>0, <1>1 DEF Start
  <2>2. InStatus("processing")' \subseteq ToBeFreed'
    BY <2>1 DEF InStatus, ToBeFreed
  <2>3. QED
    BY <2>2 DEF Accounted
<1>2. CASE TaskFails(a) \/ Crash(a)
  <2>1. clean'[a] = FALSE
    BY <1>0, <1>2 DEF TaskFails, Crash, Halt
  <2>2. QED
    BY <2>1 DEF Accounted
<1>3. QED
  BY <1>1, <1>2

\* The shutdown puts STOP_SIGNALs, which are no URLs; consumers that are cut
\* short mark the run.
LEMMA MainStepAccounted ==
  ASSUME TypeInv, TypeInv', Accounted, NEW a \in App, MainStep(a)
  PROVE  Accounted'
<1> USE DEF main, producer, storage, table
<1>0. /\ urlq \in [App -> Seq(Url \union {STOP})]
      /\ resq \in [App -> Seq(Item)]
      /\ clean \in [App -> BOOLEAN]
  BY DEF TypeInv, TypeOK, Item
<1>1. CASE PutStop(a)
  <2>1. /\ urlq' = [urlq EXCEPT ![a] = Append(@, STOP)]
        /\ UNCHANGED <<status, clean, due, rpc, pbatch, hand, resq, sbatch>>
    BY <1>1 DEF PutStop
  <2>2. \A x : In(x, Append(urlq[a], STOP)) <=> In(x, urlq[a]) \/ x = STOP
    BY <1>0, AppendIn
  <2>3. \A b \in App : \A x : In(x, urlq[b]) => In(x, urlq'[b])
    BY <1>0, <2>1, <2>2
  <2>4. QED
    BY <2>1, <2>3, MovedFound DEF At
<1>2. CASE StopStorage(a)
  <2>1. /\ resq' = [resq EXCEPT ![a] = Append(@, StopResult)]
        /\ UNCHANGED <<status, clean, due, rpc, pbatch, urlq, hand, sbatch>>
    BY <1>2 DEF StopStorage
  <2>2. \A x : In(x, Append(resq[a], StopResult)) <=> In(x, resq[a]) \/ x = StopResult
    BY <1>0, AppendIn DEF Item
  <2>3. \A b \in App : \A x : In(x, resq[b]) => In(x, resq'[b])
    BY <1>0, <2>1, <2>2
  <2>4. QED
    BY <2>1, <2>3, MovedFound DEF At
<1>3. CASE CancelConsumers(a)
  <2>1. clean'[a] = FALSE
    BY <1>0, <1>3 DEF CancelConsumers
  <2>2. QED
    BY <2>1 DEF Accounted
<1>4. CASE \/ BeginShutdown(a) \/ DrainUrls(a) \/ ConsumersDone(a)
           \/ DrainResults(a) \/ Finish(a)
  <2>1. UNCHANGED <<status, clean, due, rpc, pbatch, urlq, hand, resq, sbatch>>
    BY <1>4 DEF BeginShutdown, DrainUrls, ConsumersDone, DrainResults, Finish
  <2>2. QED
    BY <2>1, MovedFound DEF At
<1>5. QED
  BY <1>1, <1>2, <1>3, <1>4 DEF MainStep

LEMMA AccountStep == TypeInv /\ AccountInv /\ [Next]_vars => AccountInv'
<1> SUFFICES ASSUME TypeInv, AccountInv, [Next]_vars
             PROVE  AccountInv'
  OBVIOUS
<1>1. TypeInv'
  BY TypeStep
<1>2. ProducerEmpty' /\ ResultsKnown'
  BY ProducerStepKeeps, ResultsStep DEF AccountInv
<1> USE <1>1 DEF AccountInv
<1>3. ASSUME UNCHANGED vars
      PROVE  Accounted'
  <2>1. UNCHANGED <<status, clean, due, rpc, pbatch, urlq, hand, resq, sbatch>>
    BY <1>3 DEF vars, table, main, producer, storage
  <2>2. QED
    BY <2>1, MovedFound DEF At
<1>4. ASSUME Next
      PROVE  Accounted'
  <2>1. ASSUME NEW u \in Url, InsertPending(u)
        PROVE  Accounted'
    BY <2>1, RowStepAccounted
  <2>2. ASSUME NEW a \in App, ProducerStep(a) \/ ResetStep(a) \/ IntervalElapses(a)
        PROVE  Accounted'
    BY <2>2, RowStepAccounted DEF ProducerStep, ResetStep
  <2>3. ASSUME NEW a \in App, Start(a) \/ TaskFails(a) \/ Crash(a)
        PROVE  Accounted'
    BY <2>3, ProcessStepAccounted
  <2>4. ASSUME NEW a \in App, NEW c \in Consumer, ConsumerStep(a, c)
        PROVE  Accounted'
    BY <2>4, ConsumerStepAccounted
  <2>5. ASSUME NEW a \in App, StorageStep(a)
        PROVE  Accounted'
    BY <2>5, StorageStepAccounted
  <2>6. ASSUME NEW a \in App, MainStep(a)
        PROVE  Accounted'
    BY <2>6, MainStepAccounted
  <2>7. QED
    BY <1>4, <2>1, <2>2, <2>3, <2>4, <2>5, <2>6 DEF Next
<1>5. QED
  BY <1>2, <1>3, <1>4

\* As long as no run was cut short, a processing row is in the hands of a task
\* of some process, or a startup reset is about to free it, or its page names
\* another URL: the shutdown, in any of its drain timeouts, and the storage
\* worker's fallback lose nothing, however many processes run.
THEOREM NothingLost == Spec => []Accounted
<1>1. Init => AccountInv
  <2>1. ASSUME Init
        PROVE  ProducerEmpty /\ ResultsKnown
    BY <2>1, EmptyIn DEF Init, ProducerEmpty, ResultsKnown
  <2>2. ASSUME Init
        PROVE  Accounted
    BY <2>2, ConstantsOK DEF Init, Accounted
  <2>3. QED
    BY <2>1, <2>2 DEF AccountInv
<1>2. AccountInv => Accounted
  BY DEF AccountInv
<1>3. QED
  BY TypeInit, TypeStep, <1>1, AccountStep, <1>2, PTL DEF Spec

-----------------------------------------------------------------------------
(* One process whose rows never outlive the interval.                      *)

\* As deployed: one process, no elapsed interval, and pages that name
\* themselves.
Alone ==
  /\ \A a, b \in App : a = b
  /\ MaxElapses = 0
  /\ \A u \in Url : Page[u] = u

HasUrl(s, u) == \E i \in DOMAIN s : s[i].url = u

InHand(a, u) == \E c \in Consumer : hand[a][c].url = u

\* No URL comes twice in a queue of URLs, in a sequence of results.
OnceIn(s) == \A i, j \in DOMAIN s : s[i] \in Url /\ s[i] = s[j] => i = j
OnceBy(s) == \A i, j \in DOMAIN s : s[i].url \in Url /\ s[i].url = s[j].url => i = j

\* Process a has u at one place at most.
EachOnce(a) ==
  /\ OnceIn(urlq[a])
  /\ \A c, d \in Consumer :
       hand[a][c].url \in Url /\ hand[a][c].url = hand[a][d].url => c = d
  /\ OnceBy(resq[a])
  /\ OnceBy(sbatch[a])

PlacesApart(a) ==
  \A u \in Url :
    /\ u \in pbatch[a] =>
         ~In(u, urlq[a]) /\ ~InHand(a, u) /\ ~HasUrl(resq[a], u) /\ ~HasUrl(sbatch[a], u)
    /\ In(u, urlq[a]) =>
         ~InHand(a, u) /\ ~HasUrl(resq[a], u) /\ ~HasUrl(sbatch[a], u)
    /\ InHand(a, u) => ~HasUrl(resq[a], u) /\ ~HasUrl(sbatch[a], u)
    /\ HasUrl(resq[a], u) => ~HasUrl(sbatch[a], u)

Keeps(a, u) ==
  \/ u \in pbatch[a]
  \/ In(u, urlq[a])
  \/ InHand(a, u)
  \/ HasUrl(resq[a], u)
  \/ HasUrl(sbatch[a], u)

\* A URL that is kept has its row in processing, and no reset will free it.
KeptIsProcessing(a) ==
  \A u \in Url : Keeps(a, u) =>
    /\ status[u] = "processing"
    /\ rpc[a] = "startup" => u \notin due[a]

SoleInv ==
  \A a \in App : /\ EachOnce(a)
                 /\ PlacesApart(a)
                 /\ KeptIsProcessing(a)
                 /\ rpc[a] # "reset"

LEMMA AppendOnceIn ==
  ASSUME NEW S, NEW s \in Seq(S), OnceIn(s), NEW v \in S, v \in Url => ~In(v, s)
  PROVE  OnceIn(Append(s, v))
<1>1. /\ Len(s) \in Nat
      /\ DOMAIN s = 1 .. Len(s)
      /\ DOMAIN Append(s, v) = 1 .. Len(s) + 1
      /\ \A i \in 1 .. Len(s) : Append(s, v)[i] = s[i]
      /\ Append(s, v)[Len(s) + 1] = v
  BY LenProperties
<1>2. SUFFICES ASSUME NEW i \in DOMAIN Append(s, v), NEW j \in DOMAIN Append(s, v),
                      Append(s, v)[i] \in Url, Append(s, v)[i] = Append(s, v)[j]
               PROVE  i = j
  BY DEF OnceIn
<1>3. CASE i \in DOMAIN s /\ j \in DOMAIN s
  BY <1>1, <1>2, <1>3 DEF OnceIn
<1>4. CASE i \in DOMAIN s /\ j = Len(s) + 1
  BY <1>1, <1>2, <1>4 DEF In
<1>5. CASE i = Len(s) + 1 /\ j \in DOMAIN s
  BY <1>1, <1>2, <1>5 DEF In
<1>6. QED
  BY <1>1, <1>3, <1>4, <1>5

LEMMA AppendOnceBy ==
  ASSUME NEW S, NEW s \in Seq(S), OnceBy(s), NEW x \in S,
         x.url \in Url => ~HasUrl(s, x.url)
  PROVE  /\ OnceBy(Append(s, x))
         /\ \A u : HasUrl(Append(s, x), u) <=> HasUrl(s, u) \/ x.url = u
<1>1. /\ Len(s) \in Nat
      /\ DOMAIN s = 1 .. Len(s)
      /\ DOMAIN Append(s, x) = 1 .. Len(s) + 1
      /\ \A i \in 1 .. Len(s) : Append(s, x)[i] = s[i]
      /\ Append(s, x)[Len(s) + 1] = x
  BY LenProperties
<1>2. ASSUME NEW i \in DOMAIN Append(s, x), NEW j \in DOMAIN Append(s, x),
             Append(s, x)[i].url \in Url, Append(s, x)[i].url = Append(s, x)[j].url
      PROVE  i = j
  <2>1. CASE i \in DOMAIN s /\ j \in DOMAIN s
    BY <1>1, <1>2, <2>1 DEF OnceBy
  <2>2. CASE i \in DOMAIN s /\ j = Len(s) + 1
    BY <1>1, <1>2, <2>2 DEF HasUrl
  <2>3. CASE i = Len(s) + 1 /\ j \in DOMAIN s
    BY <1>1, <1>2, <2>3 DEF HasUrl
  <2>4. QED
    BY <1>1, <2>1, <2>2, <2>3
<1>3. OnceBy(Append(s, x))
  BY <1>2 DEF OnceBy
<1>4. \A u : HasUrl(Append(s, x), u) <=> HasUrl(s, u) \/ x.url = u
  BY <1>1 DEF HasUrl
<1>5. QED
  BY <1>3, <1>4

LEMMA TailOnceIn ==
  ASSUME NEW S, NEW s \in Seq(S), s # <<>>, OnceIn(s)
  PROVE  /\ OnceIn(Tail(s))
         /\ Head(s) \in Url => ~In(Head(s), Tail(s))
<1>1. /\ Len(s) \in Nat \ {0}
      /\ DOMAIN s = 1 .. Len(s)
      /\ DOMAIN Tail(s) = 1 .. Len(s) - 1
      /\ \A i \in 1 .. Len(s) - 1 : Tail(s)[i] = s[i + 1]
      /\ Head(s) = s[1]
  BY HeadTailProperties, LenProperties, EmptySeq
<1>2. \A i \in DOMAIN Tail(s) : i + 1 \in DOMAIN s /\ i + 1 # 1
  BY <1>1
<1>3. OnceIn(Tail(s))
  <2>1. SUFFICES ASSUME NEW i \in DOMAIN Tail(s), NEW j \in DOMAIN Tail(s),
                        Tail(s)[i] \in Url, Tail(s)[i] = Tail(s)[j]
                 PROVE  i = j
    BY DEF OnceIn
  <2>2. i + 1 = j + 1
    BY <1>1, <1>2, <2>1 DEF OnceIn
  <2>3. QED
    BY <1>1, <2>2
<1>4. Head(s) \in Url => ~In(Head(s), Tail(s))
  <2>1. 1 \in DOMAIN s
    BY <1>1
  <2>2. QED
    BY <1>1, <1>2, <2>1 DEF In, OnceIn
<1>5. QED
  BY <1>3, <1>4

LEMMA TailOnceBy ==
  ASSUME NEW S, NEW s \in Seq(S), s # <<>>, OnceBy(s)
  PROVE  /\ OnceBy(Tail(s))
         /\ Head(s).url \in Url => ~HasUrl(Tail(s), Head(s).url)
         /\ \A u : HasUrl(s, u) <=> Head(s).url = u \/ HasUrl(Tail(s), u)
<1>1. /\ Len(s) \in Nat \ {0}
      /\ DOMAIN s = 1 .. Len(s)
      /\ DOMAIN Tail(s) = 1 .. Len(s) - 1
      /\ \A i \in 1 .. Len(s) - 1 : Tail(s)[i] = s[i + 1]
      /\ Head(s) = s[1]
  BY HeadTailProperties, LenProperties, EmptySeq
<1>2. \A i \in DOMAIN Tail(s) : i + 1 \in DOMAIN s /\ i + 1 # 1
  BY <1>1
<1>3. 1 \in DOMAIN s
  BY <1>1
<1>4. OnceBy(Tail(s))
  <2>1. SUFFICES ASSUME NEW i \in DOMAIN Tail(s), NEW j \in DOMAIN Tail(s),
                        Tail(s)[i].url \in Url, Tail(s)[i].url = Tail(s)[j].url
                 PROVE  i = j
    BY DEF OnceBy
  <2>2. i + 1 = j + 1
    BY <1>1, <1>2, <2>1 DEF OnceBy
  <2>3. QED
    BY <1>1, <2>2
<1>5. Head(s).url \in Url => ~HasUrl(Tail(s), Head(s).url)
  BY <1>1, <1>2, <1>3 DEF HasUrl, OnceBy
<1>6. ASSUME NEW u, HasUrl(s, u)
      PROVE  Head(s).url = u \/ HasUrl(Tail(s), u)
  <2>1. PICK i \in DOMAIN s : s[i].url = u
    BY <1>6 DEF HasUrl
  <2>2. CASE i = 1
    BY <1>1, <2>1, <2>2
  <2>3. CASE i # 1
    <3>1. i - 1 \in DOMAIN Tail(s) /\ (i - 1) + 1 = i
      BY <1>1, <2>3
    <3>2. Tail(s)[i - 1] = s[i]
      BY <1>1, <3>1
    <3>3. QED
      BY <2>1, <3>1, <3>2 DEF HasUrl
  <2>4. QED
    BY <2>2, <2>3
<1>7. ASSUME NEW u, Head(s).url = u \/ HasUrl(Tail(s), u)
      PROVE  HasUrl(s, u)
  BY <1>1, <1>2, <1>3, <1>7 DEF HasUrl
<1>8. QED
  BY <1>4, <1>5, <1>6, <1>7

\* A transaction leaves rows alone that none of its results is about.
LEMMA StoredApart ==
  ASSUME Alone, NEW s \in Seq(Item), NEW u \in Url, ~HasUrl(s, u)
  PROVE  Stored(s)[u] = status[u] /\ u \notin Recipes(s)
<1>1. FailuresOf(s, u) = {}
  BY DEF HasUrl, FailuresOf
<1>2. u \notin Recipes(s)
  <2>1. ASSUME NEW j \in DOMAIN s, s[j].status = "completed", Page[s[j].url] = u
        PROVE  FALSE
    <3>1. s[j] \in Item
      BY LenProperties, ElementOfSeq
    <3>2. s[j].url \in Url
      BY <2>1, <3>1 DEF Item, StopResult, CrawlResult
    <3>3. QED
      BY <2>1, <3>2 DEF Alone, HasUrl
  <2>2. QED
    BY <2>1 DEF Recipes
<1>3. QED
  BY <1>1, <1>2, StoredRow, StopIsNoResult

\* Nothing overwrites a recipe's row when no URL comes twice.
LEMMA StoredOnce ==
  ASSUME Alone, NEW s \in Seq(Item), OnceBy(s), NEW u \in Url, u \in Recipes(s)
  PROVE  Stored(s)[u] = "completed"
<1>1. PICK j \in DOMAIN s : s[j].status = "completed" /\ Page[s[j].url] = u
  BY DEF Recipes
<1>2. s[j] \in Item
  BY LenProperties, ElementOfSeq
<1>3. s[j].url = u
  BY <1>1, <1>2 DEF Item, StopResult, CrawlResult, Alone
<1>4. FailuresOf(s, u) = {}
  BY <1>1, <1>3 DEF FailuresOf, OnceBy
<1>5. QED
  BY <1>4, StoredRow

-----------------------------------------------------------------------------
(* Every step keeps URLs at one place.                                     *)

QueueTypes ==
  /\ status \in [Url -> RowStatus \union {"absent"}]
  /\ due \in [App -> SUBSET Url]
  /\ pbatch \in [App -> SUBSET Url]
  /\ rpc \in [App -> {"startup", "wait", "reset", "done"}]
  /\ urlq \in [App -> Seq(Url \union {STOP})]
  /\ hand \in [App -> [Consumer -> CrawlResult \union {Idle, Stopped}]]
  /\ resq \in [App -> Seq(Item)]
  /\ sbatch \in [App -> Seq(Item)]

LEMMA Queues == TypeInv => QueueTypes
BY DEF TypeInv, TypeOK, QueueTypes, Item

LEMMA NoUrlInEmpty ==
  /\ OnceIn(<<>>)
  /\ OnceBy(<<>>)
  /\ \A u : ~In(u, <<>>) /\ ~HasUrl(<<>>, u)
<1>1. ASSUME NEW i \in DOMAIN <<>>
      PROVE  FALSE
  BY EmptySeq, LenProperties
<1>2. QED
  BY <1>1 DEF OnceIn, OnceBy, In, HasUrl

\* A process that holds nothing.
LEMMA EmptyHanded ==
  ASSUME NEW a \in App, pbatch'[a] = {}, urlq'[a] = <<>>, resq'[a] = <<>>,
         sbatch'[a] = <<>>, \A c \in Consumer : hand'[a][c].url = STOP
  PROVE  EachOnce(a)' /\ PlacesApart(a)' /\ KeptIsProcessing(a)'
<1>1. \A u \in Url : ~Keeps(a, u)'
  BY NoUrlInEmpty, ConstantsOK DEF Keeps, InHand
<1>2. EachOnce(a)'
  BY NoUrlInEmpty, ConstantsOK DEF EachOnce
<1>3. QED
  BY <1>1, <1>2 DEF Keeps, PlacesApart, KeptIsProcessing

\* A process that keeps no URL it did not keep before.
LEMMA KeepsFewer ==
  ASSUME NEW a \in App, KeptIsProcessing(a), UNCHANGED <<status, due>>,
         rpc'[a] = "startup" => rpc[a] = "startup",
         \A u \in Url : Keeps(a, u)' => Keeps(a, u)
  PROVE  KeptIsProcessing(a)'
BY DEF KeptIsProcessing

Sole(a) ==
  EachOnce(a) /\ PlacesApart(a) /\ KeptIsProcessing(a) /\ rpc[a] # "reset"

LEMMA RowStepSole ==
  ASSUME Alone, TypeInv, ProducerEmpty, NEW a \in App, Sole(a),
         \/ \E u \in Url : InsertPending(u)
         \/ Fetch(a) \/ PutUrl(a) \/ Reset(a) \/ StopResetting(a) \/ IntervalElapses(a)
  PROVE  Sole(a)'
<1> USE Queues DEF QueueTypes, Sole, main, producer, storage, table
<1>1. ASSUME UNCHANGED <<pbatch, urlq, hand, resq, sbatch>>
      PROVE  /\ EachOnce(a)' /\ PlacesApart(a)'
             /\ \A u \in Url : Keeps(a, u)' <=> Keeps(a, u)
  BY <1>1 DEF EachOnce, PlacesApart, Keeps, InHand
<1>2. ASSUME NEW v \in Url, InsertPending(v)
      PROVE  Sole(a)'
  <2>1. /\ status[v] = "absent"
        /\ status' = [status EXCEPT ![v] = "pending"]
        /\ UNCHANGED <<due, rpc, pbatch, urlq, hand, resq, sbatch>>
    BY <1>2 DEF InsertPending
  <2>2. KeptIsProcessing(a)'
    BY <1>1, <2>1 DEF KeptIsProcessing
  <2>3. QED
    BY <1>1, <2>1, <2>2
<1>3. CASE Fetch(a)
  <2>1. PICK batch \in SUBSET InStatus("pending") :
           /\ status' = [u \in Url |-> IF u \in batch THEN "processing"
                                                      ELSE status[u]]
           /\ due' = [b \in App |-> due[b] \ batch]
           /\ pbatch' = [pbatch EXCEPT ![a] = batch]
    BY <1>3 DEF Fetch
  <2>2. UNCHANGED <<rpc, urlq, hand, resq, sbatch>>
    BY <1>3 DEF Fetch
  <2>3. pbatch[a] = {} /\ pbatch'[a] = batch
    BY <1>3, <2>1 DEF Fetch, ProducerEmpty
  <2>4. \A u \in Url : u \in batch => ~Keeps(a, u)
    BY DEF KeptIsProcessing, InStatus
  <2>5. EachOnce(a)'
    BY <2>2 DEF EachOnce
  <2>6. PlacesApart(a)'
    BY <2>2, <2>3, <2>4 DEF PlacesApart, Keeps, InHand
  <2>7. \A u \in Url : Keeps(a, u)' => u \in batch \/ Keeps(a, u)
    BY <2>2, <2>3 DEF Keeps, InHand
  <2>8. KeptIsProcessing(a)'
    BY <2>1, <2>2, <2>7 DEF KeptIsProcessing
  <2>9. QED
    BY <2>2, <2>5, <2>6, <2>8
<1>4. CASE PutUrl(a)
  <2>1. PICK v \in pbatch[a] :
           /\ urlq' = [urlq EXCEPT ![a] = Append(@, v)]
           /\ pbatch' = [pbatch EXCEPT ![a] = @ \ {v}]
    BY <1>4 DEF PutUrl
  <2>2. UNCHANGED <<status, due, rpc, hand, resq, sbatch>>
    BY <1>4 DEF PutUrl
  <2>3. v \in Url
    OBVIOUS
  <2>4. ~In(v, urlq[a]) /\ ~InHand(a, v) /\ ~HasUrl(resq[a], v) /\ ~HasUrl(sbatch[a], v)
    BY <2>3 DEF PlacesApart
  <2>5. /\ OnceIn(Append(urlq[a], v))
        /\ \A x : In(x, Append(urlq[a], v)) <=> In(x, urlq[a]) \/ x = v
    BY <2>3, <2>4, AppendOnceIn, AppendIn DEF EachOnce
  <2>6. urlq'[a] = Append(urlq[a], v) /\ pbatch'[a] = pbatch[a] \ {v}
    BY <2>1
  <2>7. EachOnce(a)'
    BY <2>2, <2>5, <2>6 DEF EachOnce
  <2>8. PlacesApart(a)'
    BY <2>2, <2>4, <2>5, <2>6 DEF PlacesApart, InHand
  <2>9. \A u \in Url : Keeps(a, u)' => Keeps(a, u)
    BY <2>2, <2>5, <2>6 DEF Keeps, InHand
  <2>10. QED
    BY <2>2, <2>7, <2>8, <2>9, KeepsFewer
<1>5. CASE Reset(a)
  <2>1. /\ UNCHANGED <<pbatch, urlq, hand, resq, sbatch>>
        /\ status' = [u \in Url |->
                        IF u \in due[a] /\ status[u] = "processing" THEN "pending"
                                                                   ELSE status[u]]
        /\ rpc[a] = "startup"
        /\ rpc'[a] \in {"wait", "done"}
    BY <1>5 DEF Reset
  <2>2. KeptIsProcessing(a)'
    BY <1>1, <2>1 DEF KeptIsProcessing
  <2>3. QED
    BY <1>1, <2>1, <2>2
<1>6. CASE StopResetting(a)
  <2>1. /\ UNCHANGED <<status, due, pbatch, urlq, hand, resq, sbatch>>
        /\ rpc'[a] = "done"
    BY <1>6 DEF StopResetting
  <2>2. QED
    BY <1>1, <2>1, KeepsFewer
<1>7. CASE IntervalElapses(a)
  <2>1. elapses \in 0 .. MaxElapses /\ elapses < MaxElapses
    BY <1>7 DEF IntervalElapses, TypeInv, TypeOK
  <2>2. QED
    BY <2>1 DEF Alone
<1>8. QED
  BY <1>2, <1>3, <1>4, <1>5, <1>6, <1>7

LEMMA ConsumerStepSole ==
  ASSUME Alone, TypeInv, NEW a \in App, Sole(a), NEW c \in Consumer, ConsumerStep(a, c)
  PROVE  Sole(a)'
<1> USE Queues DEF QueueTypes, Sole, main, producer, storage, table
<1>1. CASE TakeUrl(a, c)
  <2> DEFINE v == Head(urlq[a])
             taken == IF v = STOP THEN Stopped
                                  ELSE [url |-> v, status |-> "processing"]
  <2>1. /\ hand[a][c] = Idle
        /\ urlq[a] # <<>>
        /\ hand' = [hand EXCEPT ![a][c] = taken]
        /\ urlq' = [urlq EXCEPT ![a] = Tail(@)]
        /\ UNCHANGED <<status, due, rpc, pbatch, resq, sbatch>>
    BY <1>1 DEF TakeUrl
  <2>2. \A x : In(x, urlq[a]) <=> x = v \/ In(x, Tail(urlq[a]))
    BY <2>1, TailIn
  <2>3. OnceIn(Tail(urlq[a])) /\ (v \in Url => ~In(v, Tail(urlq[a])))
    BY <2>1, TailOnceIn DEF EachOnce
  <2>4. taken.url \in Url => taken.url = v
    BY ConstantsOK DEF Stopped
  <2> HIDE DEF taken, v
  <2>5. /\ hand'[a][c] = taken
        /\ \A d \in Consumer \ {c} : hand'[a][d] = hand[a][d]
        /\ urlq'[a] = Tail(urlq[a])
    BY <2>1
  <2>6. \A u \in Url : InHand(a, u)' => InHand(a, u) \/ (u = v /\ In(u, urlq[a]))
    BY <2>2, <2>4, <2>5 DEF InHand
  <2>7. \A u \in Url : u = v => ~In(u, Tail(urlq[a]))
    BY <2>3
  <2>8. \A u \in Url : In(u, urlq'[a]) => In(u, urlq[a]) /\ u # v
    BY <2>2, <2>5, <2>7
  <2>9. ASSUME NEW d \in Consumer, NEW e \in Consumer, hand'[a][d].url \in Url,
               hand'[a][d].url = hand'[a][e].url
        PROVE  d = e
    <3>1. \A f \in Consumer : hand[a][f].url = v /\ v \in Url => FALSE
      <4>1. ASSUME NEW f \in Consumer, hand[a][f].url = v, v \in Url
            PROVE  FALSE
        <5>1. In(v, urlq[a]) /\ InHand(a, v)
          BY <2>2, <4>1 DEF InHand
        <5>2. QED
          BY <4>1, <5>1 DEF PlacesApart
      <4>2. QED
        BY <4>1
    <3>2. CASE d = c /\ e # c
      BY <2>4, <2>5, <2>9, <3>1, <3>2
    <3>3. CASE d # c /\ e = c
      BY <2>4, <2>5, <2>9, <3>1, <3>3
    <3>4. CASE d # c /\ e # c
      BY <2>5, <2>9, <3>4 DEF EachOnce
    <3>5. QED
      BY <3>2, <3>3, <3>4
  <2>10. EachOnce(a)'
    BY <2>1, <2>3, <2>5, <2>9 DEF EachOnce
  <2>11. PlacesApart(a)'
    BY <2>1, <2>6, <2>8 DEF PlacesApart
  <2>12. \A u \in Url : Keeps(a, u)' => Keeps(a, u)
    BY <2>1, <2>6, <2>8 DEF Keeps
  <2>13. QED
    BY <2>1, <2>10, <2>11, <2>12, KeepsFewer
<1>2. CASE Crawl(a, c)
  <2>1. PICK s \in Outcome : hand' = [hand EXCEPT ![a][c].status = s]
    BY <1>2 DEF Crawl
  <2>2. UNCHANGED <<status, due, rpc, pbatch, urlq, resq, sbatch>>
    BY <1>2 DEF Crawl
  <2>3. hand[a][c] \in CrawlResult
    BY <1>2, ResultInHand DEF Crawl, TypeInv
  <2>4. [hand[a][c] EXCEPT !.status = s].url = hand[a][c].url
    BY <2>3 DEF CrawlResult
  <2>5. hand' = [hand EXCEPT ![a] = [hand[a] EXCEPT ![c] =
                    [hand[a][c] EXCEPT !.status = s]]]
    BY <2>1
  <2>6. \A d \in Consumer : hand'[a][d].url = hand[a][d].url
    BY <2>4, <2>5
  <2>7. \A u : InHand(a, u)' <=> InHand(a, u)
    BY <2>6 DEF InHand
  <2>8. EachOnce(a)'
    BY <2>2, <2>6 DEF EachOnce
  <2>9. PlacesApart(a)' /\ \A u \in Url : Keeps(a, u)' => Keeps(a, u)
    BY <2>2, <2>7 DEF PlacesApart, Keeps
  <2>10. QED
    BY <2>2, <2>8, <2>9, KeepsFewer
<1>3. CASE PutResult(a, c)
  <2> DEFINE x == hand[a][c]
  <2>1. /\ x.status \in Outcome
        /\ resq' = [resq EXCEPT ![a] = Append(@, x)]
        /\ hand' = [hand EXCEPT ![a][c] = Idle]
        /\ UNCHANGED <<status, due, rpc, pbatch, urlq, sbatch>>
    BY <1>3 DEF PutResult
  <2>2. x \in Item /\ x.url \in Url
    BY <2>1, ResultInHand DEF TypeInv, Item, CrawlResult
  <2>3. InHand(a, x.url)
    BY DEF InHand
  <2>4. ~HasUrl(resq[a], x.url)
    BY <2>2, <2>3 DEF PlacesApart
  <2>5. /\ OnceBy(Append(resq[a], x))
        /\ \A u : HasUrl(Append(resq[a], x), u) <=> HasUrl(resq[a], u) \/ x.url = u
    BY <2>2, <2>4, AppendOnceBy DEF EachOnce
  <2>6. \A d \in Consumer \ {c} : hand[a][d].url # x.url
    BY <2>2 DEF EachOnce
  <2> HIDE DEF x
  <2>7. /\ resq'[a] = Append(resq[a], x)
        /\ hand'[a][c] = Idle
        /\ \A d \in Consumer \ {c} : hand'[a][d] = hand[a][d]
    BY <2>1
  <2>8. Idle.url \notin Url
    BY ConstantsOK DEF Idle
  <2>9. \A u \in Url : InHand(a, u)' => InHand(a, u) /\ u # x.url
    BY <2>6, <2>7, <2>8 DEF InHand
  <2>10. EachOnce(a)'
    BY <2>1, <2>5, <2>7, <2>8 DEF EachOnce
  <2>11. \A u \in Url : HasUrl(resq'[a], u) => HasUrl(resq[a], u) \/ (u = x.url /\ InHand(a, u))
    BY <2>3, <2>5, <2>7
  <2>12. PlacesApart(a)'
    BY <2>1, <2>4, <2>5, <2>7, <2>9, <2>11 DEF PlacesApart
  <2>13. \A u \in Url : Keeps(a, u)' => Keeps(a, u)
    BY <2>1, <2>9, <2>11 DEF Keeps
  <2>14. QED
    BY <2>1, <2>10, <2>12, <2>13, KeepsFewer
<1>4. QED
  BY <1>1, <1>2, <1>3 DEF ConsumerStep

\* What leaves the storage worker's batch takes its URL with it.
LEMMA SettledSole ==
  ASSUME Alone, TypeInv, NEW a \in App, Sole(a),
         NEW s \in Seq(Item), status' = Stored(s), UNCHANGED <<due, rpc, pbatch, urlq, hand, resq>>,
         OnceBy(sbatch'[a]),
         \A u \in Url : HasUrl(s, u) => HasUrl(sbatch[a], u),
         \A u \in Url : HasUrl(sbatch'[a], u) => HasUrl(sbatch[a], u) /\ ~HasUrl(s, u)
  PROVE  Sole(a)'
<1>1. EachOnce(a)'
  BY DEF Sole, EachOnce
<1>2. \A u \in Url : InHand(a, u)' <=> InHand(a, u)
  BY DEF InHand
<1>3. PlacesApart(a)'
  BY <1>2 DEF Sole, PlacesApart
<1>4. ASSUME NEW u \in Url, Keeps(a, u)'
      PROVE  Keeps(a, u) /\ ~HasUrl(s, u)
  <2>1. Keeps(a, u)
    BY <1>2, <1>4 DEF Keeps
  <2>2. CASE HasUrl(sbatch'[a], u)
    BY <2>1, <2>2
  <2>3. CASE ~HasUrl(sbatch'[a], u)
    <3>1. u \in pbatch[a] \/ In(u, urlq[a]) \/ InHand(a, u) \/ HasUrl(resq[a], u)
      BY <1>2, <1>4, <2>3 DEF Keeps
    <3>2. ~HasUrl(sbatch[a], u)
      BY <3>1 DEF Sole, PlacesApart
    <3>3. QED
      BY <2>1, <3>2
  <2>4. QED
    BY <2>2, <2>3
<1>5. KeptIsProcessing(a)'
  <2>1. ASSUME NEW u \in Url, Keeps(a, u)'
        PROVE  status'[u] = "processing" /\ (rpc'[a] = "startup" => u \notin due'[a])
    <3>1. status'[u] = status[u]
      BY <1>4, <2>1, StoredApart
    <3>2. status[u] = "processing" /\ (rpc[a] = "startup" => u \notin due[a])
      BY <1>4, <2>1 DEF Sole, KeptIsProcessing
    <3>3. QED
      BY <3>1, <3>2
  <2>2. QED
    BY <2>1 DEF KeptIsProcessing
<1>6. QED
  BY <1>1, <1>3, <1>5 DEF Sole

LEMMA StorageStepSole ==
  ASSUME Alone, TypeInv, NEW a \in App, Sole(a), StorageStep(a)
  PROVE  Sole(a)'
<1> USE Queues DEF QueueTypes, main, producer, storage, table
<1>1. CASE TakeResult(a)
  <2> DEFINE x == Head(resq[a])
  <2>1. /\ resq[a] # <<>>
        /\ sbatch' = [sbatch EXCEPT ![a] = Append(@, x)]
        /\ resq' = [resq EXCEPT ![a] = Tail(@)]
        /\ UNCHANGED <<status, due, rpc, pbatch, urlq, hand>>
    BY <1>1 DEF TakeResult
  <2>2. /\ OnceBy(Tail(resq[a]))
        /\ x.url \in Url => ~HasUrl(Tail(resq[a]), x.url)
        /\ \A u : HasUrl(resq[a], u) <=> x.url = u \/ HasUrl(Tail(resq[a]), u)
    BY <2>1, TailOnceBy DEF Sole, EachOnce
  <2>3. x \in Item
    BY <2>1, TailIn
  <2>4. x.url \in Url => ~HasUrl(sbatch[a], x.url)
    BY <2>2 DEF Sole, PlacesApart
  <2>5. /\ OnceBy(Append(sbatch[a], x))
        /\ \A u : HasUrl(Append(sbatch[a], x), u) <=> HasUrl(sbatch[a], u) \/ x.url = u
    BY <2>3, <2>4, AppendOnceBy DEF Sole, EachOnce
  <2> HIDE DEF x
  <2>6. resq'[a] = Tail(resq[a]) /\ sbatch'[a] = Append(sbatch[a], x)
    BY <2>1
  <2>7. EachOnce(a)'
    BY <2>1, <2>2, <2>5, <2>6 DEF Sole, EachOnce
  <2>8. \A u \in Url : HasUrl(resq'[a], u) => HasUrl(resq[a], u) /\ u # x.url
    BY <2>2, <2>6
  <2>9. \A u \in Url : HasUrl(sbatch'[a], u) =>
          HasUrl(sbatch[a], u) \/ (u = x.url /\ HasUrl(resq[a], u))
    BY <2>2, <2>5, <2>6
  <2>10. \A u \in Url : InHand(a, u)' <=> InHand(a, u)
    BY <2>1 DEF InHand
  <2>11. PlacesApart(a)'
    BY <2>1, <2>8, <2>9, <2>10 DEF Sole, PlacesApart
  <2>12. \A u \in Url : Keeps(a, u)' => Keeps(a, u)
    BY <2>1, <2>8, <2>9, <2>10 DEF Keeps
  <2>13. QED
    BY <2>1, <2>7, <2>11, <2>12, KeepsFewer DEF Sole
<1>2. CASE StoreBatch(a)
  <2>1. /\ status' = Stored(sbatch[a])
        /\ UNCHANGED <<due, rpc, pbatch, urlq, hand, resq>>
        /\ sbatch'[a] = <<>>
    BY <1>2 DEF StoreBatch
  <2>2. QED
    BY <2>1, NoUrlInEmpty, SettledSole
<1>3. CASE BatchFails(a)
  <2>1. UNCHANGED <<status, due, rpc, pbatch, urlq, hand, resq, sbatch>>
    BY <1>3 DEF BatchFails
  <2>2. QED
    BY <2>1 DEF Sole, EachOnce, PlacesApart, KeptIsProcessing, Keeps, InHand
<1>4. CASE StoreSingle(a) \/ SkipSingle(a)
  <2> DEFINE s == <<Head(sbatch[a])>>
  <2>1. /\ UNCHANGED <<due, rpc, pbatch, urlq, hand, resq>>
        /\ sbatch'[a] = Tail(sbatch[a])
        /\ sbatch[a] # <<>>
    BY <1>4 DEF StoreSingle, SkipSingle, NextSingle, TypeInv, FallbackHasWork
  <2>2. s \in Seq(Item)
    BY <1>4, FirstResult DEF StoreSingle, SkipSingle
  <2>3. \A u : HasUrl(s, u) <=> Head(sbatch[a]).url = u
    BY DEF HasUrl
  <2> HIDE DEF s
  <2>4. /\ OnceBy(sbatch'[a])
        /\ \A u \in Url : HasUrl(s, u) => HasUrl(sbatch[a], u)
        /\ \A u \in Url : HasUrl(sbatch'[a], u) => HasUrl(sbatch[a], u) /\ ~HasUrl(s, u)
    BY <2>1, <2>3, TailOnceBy DEF Sole, EachOnce
  <2>5. CASE StoreSingle(a)
    <3>1. status' = Stored(s)
      BY <2>5 DEF StoreSingle, s
    <3>2. QED
      BY <2>1, <2>2, <2>4, <3>1, SettledSole
  <2>6. CASE SkipSingle(a)
    <3>1. UNCHANGED status
      BY <2>6 DEF SkipSingle
    <3>2. \A u \in Url : InHand(a, u)' <=> InHand(a, u)
      BY <2>1 DEF InHand
    <3>3. EachOnce(a)'
      BY <2>1, <2>4 DEF Sole, EachOnce
    <3>4. PlacesApart(a)'
      BY <2>1, <2>4, <3>2 DEF Sole, PlacesApart
    <3>5. \A u \in Url : Keeps(a, u)' => Keeps(a, u)
      BY <2>1, <2>4, <3>2 DEF Keeps
    <3>6. QED
      BY <2>1, <3>1, <3>3, <3>4, <3>5, KeepsFewer DEF Sole
  <2>7. QED
    BY <1>4, <2>5, <2>6
<1>5. QED
  BY <1>1, <1>2, <1>3, <1>4 DEF StorageStep

LEMMA ProcessStepSole ==
  ASSUME TypeInv, NEW a \in App, Start(a) \/ TaskFails(a) \/ Crash(a)
  PROVE  Sole(a)'
<1>1. /\ pbatch'[a] = {}
      /\ urlq'[a] = <<>>
      /\ resq'[a] = <<>>
      /\ sbatch'[a] = <<>>
      /\ \A c \in Consumer : hand'[a][c].url = STOP
      /\ rpc'[a] # "reset"
  BY Queues DEF QueueTypes, TypeInv, TypeOK, Start, TaskFails, Crash, Halt, Idle, Stopped
<1>2. QED
  BY <1>1, EmptyHanded DEF Sole

LEMMA MainStepSole ==
  ASSUME Alone, TypeInv, NEW a \in App, Sole(a), MainStep(a)
  PROVE  Sole(a)'
<1> USE Queues DEF QueueTypes, main, producer, storage, table
<1>1. UNCHANGED <<status, due, rpc, pbatch, sbatch>>
  BY DEF MainStep, BeginShutdown, DrainUrls, PutStop, ConsumersDone, CancelConsumers,
         DrainResults, StopStorage, Finish
<1>2. /\ OnceIn(urlq'[a])
      /\ \A u \in Url : In(u, urlq'[a]) => In(u, urlq[a])
  <2>1. CASE PutStop(a)
    <3>1. urlq'[a] = Append(urlq[a], STOP)
      BY <2>1 DEF PutStop
    <3>2. /\ OnceIn(Append(urlq[a], STOP))
          /\ \A u : In(u, Append(urlq[a], STOP)) <=> In(u, urlq[a]) \/ u = STOP
      BY AppendOnceIn, AppendIn, ConstantsOK DEF Sole, EachOnce
    <3>3. QED
      BY <3>1, <3>2, ConstantsOK
  <2>2. CASE CancelConsumers(a)
    BY <2>2, NoUrlInEmpty DEF CancelConsumers
  <2>3. CASE UNCHANGED urlq
    BY <2>3 DEF Sole, EachOnce
  <2>4. QED
    BY <2>1, <2>2, <2>3
       DEF MainStep, BeginShutdown, DrainUrls, ConsumersDone, DrainResults,
           StopStorage, Finish
<1>3. /\ OnceBy(resq'[a])
      /\ \A u \in Url : HasUrl(resq'[a], u) => HasUrl(resq[a], u)
  <2>1. CASE StopStorage(a)
    <3>1. resq'[a] = Append(resq[a], StopResult)
      BY <2>1 DEF StopStorage
    <3>2. StopResult \in Item /\ StopResult.url \notin Url
      BY ConstantsOK DEF Item, StopResult
    <3>3. /\ OnceBy(Append(resq[a], StopResult))
          /\ \A u : HasUrl(Append(resq[a], StopResult), u) <=>
                      HasUrl(resq[a], u) \/ StopResult.url = u
      BY <3>2, AppendOnceBy DEF Sole, EachOnce
    <3>4. QED
      BY <3>1, <3>2, <3>3
  <2>2. CASE UNCHANGED resq
    BY <2>2 DEF Sole, EachOnce
  <2>3. QED
    BY <2>1, <2>2
       DEF MainStep, BeginShutdown, DrainUrls, PutStop, ConsumersDone,
           CancelConsumers, DrainResults, Finish
<1>4. \A c \in Consumer : hand'[a][c] = hand[a][c] \/ hand'[a][c].url = STOP
  BY DEF MainStep, BeginShutdown, DrainUrls, PutStop, ConsumersDone, CancelConsumers,
         DrainResults, StopStorage, Finish, Stopped
<1>5. EachOnce(a)'
  BY <1>1, <1>2, <1>3, <1>4, ConstantsOK DEF Sole, EachOnce
<1>6. \A u \in Url : InHand(a, u)' => InHand(a, u)
  BY <1>4, ConstantsOK DEF InHand
<1>7. PlacesApart(a)'
  BY <1>1, <1>2, <1>3, <1>6 DEF Sole, PlacesApart
<1>8. \A u \in Url : Keeps(a, u)' => Keeps(a, u)
  BY <1>1, <1>2, <1>3, <1>6 DEF Keeps
<1>9. QED
  BY <1>1, <1>5, <1>7, <1>8, KeepsFewer DEF Sole

LEMMA SoleStep ==
  TypeInv /\ ProducerEmpty /\ (Alone => SoleInv) /\ [Next]_vars => (Alone => SoleInv)'
<1> SUFFICES ASSUME TypeInv, ProducerEmpty, Alone, SoleInv, [Next]_vars
             PROVE  SoleInv'
  BY DEF Alone
<1>1. ASSUME NEW a \in App, Sole(a)'
      PROVE  SoleInv'
  <2>1. \A b \in App : b = a
    BY DEF Alone
  <2>2. QED
    BY <1>1, <2>1 DEF Sole, SoleInv
<1>2. \A a \in App : Sole(a)
  BY DEF Sole, SoleInv
<1>3. ASSUME NEW u \in Url, InsertPending(u)
      PROVE  SoleInv'
  <2>1. PICK a : a \in App
    BY ConstantsOK
  <2>2. Sole(a)'
    BY <1>2, <1>3, <2>1, RowStepSole
  <2>3. QED
    BY <1>1, <2>1, <2>2
<1>4. ASSUME NEW a \in App, ProducerStep(a) \/ ResetStep(a) \/ IntervalElapses(a)
      PROVE  SoleInv'
  BY <1>1, <1>2, <1>4, RowStepSole DEF ProducerStep, ResetStep
<1>5. ASSUME NEW a \in App, NEW c \in Consumer, ConsumerStep(a, c)
      PROVE  SoleInv'
  BY <1>1, <1>2, <1>5, ConsumerStepSole
<1>6. ASSUME NEW a \in App, StorageStep(a)
      PROVE  SoleInv'
  BY <1>1, <1>2, <1>6, StorageStepSole
<1>7. ASSUME NEW a \in App, Start(a) \/ TaskFails(a) \/ Crash(a)
      PROVE  SoleInv'
  BY <1>1, <1>7, ProcessStepSole
<1>8. ASSUME NEW a \in App, MainStep(a)
      PROVE  SoleInv'
  BY <1>1, <1>2, <1>8, MainStepSole
<1>9. CASE UNCHANGED vars
  BY <1>9
     DEF vars, table, main, producer, storage, SoleInv, EachOnce, PlacesApart,
         KeptIsProcessing, Keeps, InHand
<1>10. QED
  BY <1>3, <1>4, <1>5, <1>6, <1>7, <1>8, <1>9 DEF Next

LEMMA SoleInit == Init => (Alone => SoleInv)
<1> SUFFICES ASSUME Init, NEW a \in App
             PROVE  /\ EachOnce(a)
                    /\ PlacesApart(a)
                    /\ KeptIsProcessing(a)
                    /\ rpc[a] # "reset"
  BY DEF SoleInv
<1>1. /\ pbatch[a] = {}
      /\ urlq[a] = <<>>
      /\ resq[a] = <<>>
      /\ sbatch[a] = <<>>
      /\ \A c \in Consumer : hand[a][c].url = STOP
      /\ rpc[a] # "reset"
  BY DEF Init, Stopped
<1>2. \A u \in Url : ~Keeps(a, u)
  BY <1>1, NoUrlInEmpty, ConstantsOK DEF Keeps, InHand
<1>3. EachOnce(a)
  BY <1>1, NoUrlInEmpty, ConstantsOK DEF EachOnce
<1>4. QED
  BY <1>1, <1>2, <1>3 DEF Keeps, PlacesApart, KeptIsProcessing

LEMMA SoleAtOnePlace == TypeInv /\ SoleInv /\ Alone => OneCopy
<1> SUFFICES ASSUME TypeInv, SoleInv, Alone, NEW u \in Url,
                    NEW p \in Places(u), NEW q \in Places(u)
             PROVE  p = q
  BY DEF OneCopy
<1>1. PICK a \in App : p \in PlacesIn(a, u) /\ q \in PlacesIn(a, u)
  BY DEF Places, Alone
<1> DEFINE In5(r) ==
      \/ r = <<a, "batch", u>> /\ u \in pbatch[a]
      \/ \E i \in DOMAIN urlq[a] : r = <<a, "urls", i>> /\ urlq[a][i] = u
      \/ \E c \in Consumer : r = <<a, "hand", c>> /\ hand[a][c].url = u
      \/ \E i \in DOMAIN resq[a] : r = <<a, "results", i>> /\ resq[a][i].url = u
      \/ \E i \in DOMAIN sbatch[a] : r = <<a, "store", i>> /\ sbatch[a][i].url = u
<1>2. In5(p) /\ In5(q)
  BY <1>1 DEF PlacesIn
<1>3. EachOnce(a) /\ PlacesApart(a)
  BY DEF SoleInv
<1>4. CASE u \in pbatch[a]
  BY <1>2, <1>3, <1>4 DEF PlacesApart, In, InHand, HasUrl
<1>5. CASE In(u, urlq[a])
  BY <1>2, <1>3, <1>5 DEF EachOnce, OnceIn, PlacesApart, In, InHand, HasUrl
<1>6. CASE InHand(a, u)
  BY <1>2, <1>3, <1>6 DEF EachOnce, PlacesApart, In, InHand, HasUrl
<1>7. CASE HasUrl(resq[a], u)
  BY <1>2, <1>3, <1>7 DEF EachOnce, OnceBy, PlacesApart, In, InHand, HasUrl
<1>8. CASE HasUrl(sbatch[a], u)
  BY <1>2, <1>3, <1>8 DEF EachOnce, OnceBy, PlacesApart, In, InHand, HasUrl
<1>9. QED
  BY <1>2, <1>4, <1>5, <1>6, <1>7, <1>8 DEF In, InHand, HasUrl

\* One process whose rows stay younger than the reset's interval never holds a
\* URL twice, through restarts, retries, the storage fallback and any timeout
\* of the shutdown.
THEOREM PagesHeldOnce == Spec /\ Alone => []OneCopy
<1>1. Init => ProducerEmpty
  BY DEF Init, ProducerEmpty
<1>2. Alone => Alone'
  BY DEF Alone
<1>3. QED
  BY TypeInit, TypeStep, <1>1, <1>2, ProducerStepKeeps, SoleInit, SoleStep,
     SoleAtOnePlace, PTL DEF Spec

-----------------------------------------------------------------------------
(* What follows for rows and events.                                       *)

\* Every step of a lone process stores results of rows in processing, or
\* changes rows in no other way than discovery, fetch and reset do.
LEMMA RowChanges ==
  ASSUME TypeInv, Alone, SoleInv, [Next]_vars
  PROVE  \/ /\ UNCHANGED events
            /\ \A u \in Url : status'[u] # status[u] =>
                 status[u] \notin Outcome /\ status'[u] \notin Outcome
         \/ \E s \in Seq(Item) :
              /\ OnceBy(s)
              /\ \A u \in Url : HasUrl(s, u) => status[u] = "processing"
              /\ status' = Stored(s)
              /\ events' = events \union Recipes(s)
<1> DEFINE Unsettled ==
      /\ UNCHANGED events
      /\ \A v \in Url : status'[v] # status[v] =>
           status[v] \notin Outcome /\ status'[v] \notin Outcome
    Stores(s) ==
      /\ OnceBy(s)
      /\ \A u \in Url : HasUrl(s, u) => status[u] = "processing"
      /\ status' = Stored(s)
      /\ events' = events \union Recipes(s)
<1>1. ASSUME UNCHANGED <<status, events>>
      PROVE  Unsettled
  BY <1>1
<1>2. status \in [Url -> RowStatus \union {"absent"}] /\ sbatch \in [App -> Seq(Item)]
  BY Queues DEF QueueTypes
<1>3. ASSUME NEW u \in Url, InsertPending(u)
      PROVE  Unsettled
  BY <1>2, <1>3 DEF InsertPending, Outcome
<1>4. ASSUME NEW a \in App, Fetch(a)
      PROVE  Unsettled
  BY <1>2, <1>4 DEF Fetch, InStatus, Outcome
<1>5. ASSUME NEW a \in App, Reset(a)
      PROVE  Unsettled
  BY <1>2, <1>5 DEF Reset, Outcome
<1>6. ASSUME NEW a \in App
      PROVE  /\ OnceBy(sbatch[a])
             /\ \A u \in Url : HasUrl(sbatch[a], u) => status[u] = "processing"
  BY DEF SoleInv, EachOnce, KeptIsProcessing, Keeps
<1>7. ASSUME NEW a \in App, StoreBatch(a)
      PROVE  \E s \in Seq(Item) : Stores(s)
  <2>1. Stores(sbatch[a])
    BY <1>6, <1>7 DEF StoreBatch
  <2>2. QED
    BY <1>2, <2>1
<1>8. ASSUME NEW a \in App, StoreSingle(a)
      PROVE  \E s \in Seq(Item) : Stores(s)
  <2> DEFINE s == <<Head(sbatch[a])>>
  <2>1. s \in Seq(Item)
    BY <1>8, FirstResult DEF StoreSingle
  <2>2. sbatch[a] # <<>>
    BY <1>8 DEF StoreSingle, TypeInv, FallbackHasWork
  <2>3. OnceBy(s) /\ \A u : HasUrl(s, u) <=> Head(sbatch[a]).url = u
    BY DEF HasUrl, OnceBy
  <2>4. \A u \in Url : HasUrl(s, u) => HasUrl(sbatch[a], u)
    BY <1>2, <1>6, <2>2, <2>3, TailOnceBy
  <2>5. status' = Stored(s) /\ events' = events \union Recipes(s)
    BY <1>8 DEF StoreSingle
  <2> HIDE DEF s
  <2>6. Stores(s)
    BY <1>6, <2>3, <2>4, <2>5
  <2>7. QED
    BY <2>1, <2>6
<1>9. ASSUME NEW a \in App,
             \/ Start(a) \/ TaskFails(a) \/ Crash(a) \/ PutUrl(a)
             \/ StopResetting(a) \/ IntervalElapses(a) \/ TakeResult(a)
             \/ BatchFails(a) \/ SkipSingle(a) \/ MainStep(a)
      PROVE  Unsettled
  BY <1>1, <1>9
     DEF Start, TaskFails, Crash, Halt, PutUrl, StopResetting, IntervalElapses,
         TakeResult, BatchFails, SkipSingle, MainStep, BeginShutdown, DrainUrls,
         PutStop, ConsumersDone, CancelConsumers, DrainResults, StopStorage,
         Finish, table
<1>10. ASSUME NEW a \in App, NEW c \in Consumer, ConsumerStep(a, c)
       PROVE  Unsettled
  BY <1>1, <1>10 DEF ConsumerStep, TakeUrl, Crawl, PutResult, table
<1>11. ASSUME UNCHANGED vars
       PROVE  Unsettled
  BY <1>1, <1>11 DEF vars, table
<1> HIDE DEF Unsettled, Stores
<1>12. Unsettled \/ \E s \in Seq(Item) : Stores(s)
  BY <1>3, <1>4, <1>5, <1>7, <1>8, <1>9, <1>10, <1>11
     DEF Next, ProducerStep, ResetStep, StorageStep
<1>13. QED
  BY <1>12 DEF Unsettled, Stores

LEMMA AgreeStep ==
  TypeInv /\ (Alone => SoleInv /\ RowsAndEventsAgree) /\ [Next]_vars
    => (Alone => RowsAndEventsAgree)'
<1> SUFFICES ASSUME TypeInv, Alone, SoleInv, RowsAndEventsAgree, [Next]_vars
             PROVE  RowsAndEventsAgree'
  BY DEF Alone
<1>1. ASSUME UNCHANGED events,
             \A u \in Url : status'[u] # status[u] =>
               status[u] \notin Outcome /\ status'[u] \notin Outcome
      PROVE  RowsAndEventsAgree'
  <2>1. \A u \in Url : status'[u] = "completed" <=> status[u] = "completed"
    BY <1>1 DEF Outcome
  <2>2. QED
    BY <1>1, <2>1 DEF RowsAndEventsAgree, InStatus
<1>2. ASSUME NEW s \in Seq(Item), OnceBy(s),
             \A u \in Url : HasUrl(s, u) => status[u] = "processing",
             status' = Stored(s), events' = events \union Recipes(s)
      PROVE  RowsAndEventsAgree'
  <2>1. Recipes(s) \subseteq Url
    <3>1. ASSUME NEW j \in DOMAIN s, s[j].status = "completed"
          PROVE  Page[s[j].url] \in Url
      <4>1. s[j] \in Item
        BY LenProperties, ElementOfSeq
      <4>2. s[j].url \in Url
        BY <3>1, <4>1 DEF Item, StopResult, CrawlResult
      <4>3. QED
        BY <4>2 DEF Alone
    <3>2. QED
      BY <3>1 DEF Recipes
  <2>2. ASSUME NEW u \in Url
        PROVE  status'[u] = "completed" <=> u \in events \/ u \in Recipes(s)
    <3>1. u \in events <=> status[u] = "completed"
      BY DEF RowsAndEventsAgree, InStatus
    <3>2. CASE u \in Recipes(s)
      BY <1>2, <3>2, StoredOnce
    <3>3. CASE u \notin Recipes(s) /\ ~HasUrl(s, u)
      BY <1>2, <3>1, <3>3, StoredApart
    <3>4. CASE u \notin Recipes(s) /\ HasUrl(s, u)
      BY <1>2, <3>1, <3>4, StoredRow
    <3>5. QED
      BY <3>2, <3>3, <3>4
  <2>3. events \subseteq Url
    BY DEF RowsAndEventsAgree, InStatus
  <2>4. QED
    BY <1>2, <2>1, <2>2, <2>3 DEF RowsAndEventsAgree, InStatus
<1>3. QED
  BY <1>1, <1>2, RowChanges

LEMMA SettledStep ==
  ASSUME TypeInv, Alone, SoleInv, [Next]_vars
  PROVE  \A u \in Url : status[u] \in Outcome => status'[u] = status[u]
<1>1. ASSUME NEW s \in Seq(Item), NEW u \in Url, status[u] \in Outcome,
             \A v \in Url : HasUrl(s, v) => status[v] = "processing"
      PROVE  Stored(s)[u] = status[u]
  <2>1. ~HasUrl(s, u)
    BY <1>1 DEF Outcome
  <2>2. QED
    BY <2>1, StoredApart
<1>2. QED
  BY <1>1, RowChanges

\* For such a process the outbox holds the events of the completed rows and
\* no others: no result comes late, twice or after another one's failure.
THEOREM TableAndOutboxAgree == Spec /\ Alone => []RowsAndEventsAgree
<1>1. Init => ProducerEmpty
  BY DEF Init, ProducerEmpty
<1>2. Init => RowsAndEventsAgree
  BY DEF Init, RowsAndEventsAgree, InStatus
<1>3. Alone => Alone'
  BY DEF Alone
<1>4. QED
  BY TypeInit, TypeStep, <1>1, <1>2, <1>3, ProducerStepKeeps, SoleInit, SoleStep,
     AgreeStep, PTL DEF Spec

\* For such a process a row that has an outcome keeps it.
THEOREM PagesSettledOnce == Spec /\ Alone => OutcomeFinal
<1>1. Init => ProducerEmpty
  BY DEF Init, ProducerEmpty
<1>2. TypeInv /\ Alone /\ SoleInv /\ [Next]_vars
        => [\A u \in Url : status[u] \in Outcome => status'[u] = status[u]]_vars
  BY SettledStep
<1>3. Alone => Alone'
  BY DEF Alone
<1>4. QED
  BY TypeInit, TypeStep, <1>1, <1>2, <1>3, ProducerStepKeeps, SoleInit, SoleStep,
     PTL DEF Spec, OutcomeFinal

=============================================================================
