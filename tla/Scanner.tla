------------------------------ MODULE Scanner ------------------------------
(***************************************************************************)
(* The URL scanner (web_crawler/urlscanner.py): list pages are fetched at  *)
(* once, the recipes they link to go through an unbounded queue, and five  *)
(* workers insert them; main joins the queue and cancels the workers.      *)
(***************************************************************************)
EXTENDS Integers, SequencesExt

CONSTANTS
  Page,        \* list pages
  Worker,      \* IngestPendingEventWorker tasks (5)
  Recipe,      \* recipes of the site
  Links,       \* Links[p]: the recipes page p links to, in its order
  MaxTries     \* requests for a page before it is given up (3)

ConstantsOK ==
  /\ IsFiniteSet(Worker)
  /\ Links \in [Page -> Seq(Recipe)]
  /\ MaxTries \in Nat

VARIABLES
  page,        \* page[p]: requests that have failed, or what p has come to
  queue,       \* url_queue
  unfinished,  \* the queue's count of puts without their task_done
  hand,        \* hand[w]: what w is inserting, as a sequence of at most one
  pending,     \* the rows inserted
  refused,     \* history: recipes whose insert raised, which is logged
  main         \* "fetch", "join" or "done"

vars == <<page, queue, unfinished, hand, pending, refused, main>>

Init ==
  /\ page = [p \in Page |-> [at |-> "asked", tries |-> 0]]
  /\ queue = <<>> /\ unfinished = 0
  /\ hand = [w \in Worker |-> <<>>]
  /\ pending = {} /\ refused = {}
  /\ main = "fetch"

\* A list may skip elements of another, whose places are the others.
Sublists(s) ==
  {[i \in DOMAIN at |-> s[at[i]]] :
     at \in UNION {{a \in [1 .. n -> DOMAIN s] : \A i, j \in 1 .. n : i < j => a[i] < a[j]} :
                  n \in 0 .. Len(s)}}

\* A request, and the page parsed; links that do not parse are skipped.  No
\* put waits, for the queue has no limit.
Fetched(p) ==
  /\ page[p].at = "asked"
  /\ \E recipes \in Sublists(Links[p]) :
       /\ queue' = queue \o recipes
       /\ unfinished' = unfinished + Len(recipes)
       /\ page' = [page EXCEPT ![p] = [at |-> "read", found |-> Range(recipes)]]
  /\ UNCHANGED <<hand, pending, refused, main>>

\* A timeout, 429 or 5xx is tried again; the last time, or with another
\* status or a page without its container, the page is logged and lost.
RequestFails(p) ==
  /\ page[p].at = "asked"
  /\ \/ /\ page[p].tries + 1 < MaxTries
        /\ page' = [page EXCEPT ![p].tries = @ + 1]
     \/ page' = [page EXCEPT ![p] = [at |-> "lost"]]
  /\ UNCHANGED <<queue, unfinished, hand, pending, refused, main>>

\* fetch_urls gathers the pages.
AllFetched ==
  /\ main = "fetch"
  /\ \A p \in Page : page[p].at \in {"read", "lost"}
  /\ main' = "join"
  /\ UNCHANGED <<page, queue, unfinished, hand, pending, refused>>

Take(w) ==
  /\ main # "done"
  /\ hand[w] = <<>> /\ queue # <<>>
  /\ hand' = [hand EXCEPT ![w] = <<Head(queue)>>]
  /\ queue' = Tail(queue)
  /\ UNCHANGED <<page, unfinished, pending, refused, main>>

\* insert_pending_url, which leaves a row with this URL as it is, and commit.
Insert(w) ==
  /\ main # "done"
  /\ hand[w] # <<>>
  /\ pending' = pending \union Range(hand[w])
  /\ hand' = [hand EXCEPT ![w] = <<>>]
  /\ unfinished' = unfinished - 1
  /\ UNCHANGED <<page, queue, refused, main>>

\* mutant: task_done is not in the finally block
InsertLeftOpen(w) ==
  /\ main # "done"
  /\ hand[w] # <<>>
  /\ refused' = refused \union Range(hand[w])
  /\ hand' = [hand EXCEPT ![w] = <<>>]
  /\ UNCHANGED <<page, queue, unfinished, pending, main>>

\* The database, or another row with the same id, refuses; the worker logs
\* it and goes on.
InsertFails(w) ==
  /\ main # "done"
  /\ hand[w] # <<>>
  /\ refused' = refused \union Range(hand[w])
  /\ hand' = [hand EXCEPT ![w] = <<>>]
  /\ unfinished' = unfinished - 1
  /\ UNCHANGED <<page, queue, pending, main>>

\* mutant: the workers are cancelled as soon as the queue is empty
StopOnEmpty ==
  /\ main = "join"
  /\ queue = <<>>
  /\ main' = "done"
  /\ UNCHANGED <<page, queue, unfinished, hand, pending, refused>>

\* join returns, and the workers are cancelled.
Joined ==
  /\ main = "join"
  /\ unfinished = 0
  /\ main' = "done"
  /\ UNCHANGED <<page, queue, unfinished, hand, pending, refused>>

Next ==
  \/ \E p \in Page : Fetched(p) \/ RequestFails(p)
  \/ \E w \in Worker : Take(w) \/ Insert(w) \/ InsertFails(w)
  \/ AllFetched \/ Joined

Spec == Init /\ [][Next]_vars

-----------------------------------------------------------------------------
(* Properties.                                                             *)

\* When the scan is over, every recipe found on a page that could be read has
\* a row, or its insert raised and was logged (urlscanner.py:25-29).
ScanComplete ==
  main = "done" =>
    UNION {page[p].found : p \in {q \in Page : page[q].at = "read"}} = pending \union refused

\* The scan ends, whatever fails.
ScanEnds == <>(main = "done")
=============================================================================
