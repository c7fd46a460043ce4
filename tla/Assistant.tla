----------------------------- MODULE Assistant -----------------------------
(***************************************************************************)
(* The chat endpoint (app/main.py): requests of the same server process,   *)
(* interleaved at their awaits, the agent's retrieval tool (RagService),   *)
(* and the chunk rows and indexes that the interview pipeline changes      *)
(* meanwhile.  What the language models decide or say is any choice.       *)
(***************************************************************************)
EXTENDS Retrieval

CONSTANTS
  Request,     \* requests to /chat
  Session,     \* session ids of the clients
  Id,          \* chunk ids
  TopK,        \* top_k of the retrieval (5)
  Searching    \* bound: requests whose agent may call the retrieval tool

ASSUME ConstantsOK == TopK \in Nat

VARIABLES
  rows,        \* ids of the rows of chunks
  used,        \* ids that some row has ever had
  es, qdr,     \* ids in the two indexes
  sessions,    \* sessions[s]: the turns of the stored history
  req,         \* req[r]: where r is, and what it holds
  log          \* history: the requests answered, in order

vars == <<rows, used, es, qdr, sessions, req, log>>
chunks == <<rows, used, es, qdr>>
Nothing == [at |-> "new"]

Init ==
  /\ rows = {} /\ used = {} /\ es = {} /\ qdr = {}
  /\ sessions = [s \in Session |-> <<>>]
  /\ req = [r \in Request |-> Nothing]
  /\ log = <<>>

-----------------------------------------------------------------------------
(* The interview pipeline, as this component sees it.                      *)

\* mutant: ids made of the question, the same again in a later conversion
ConvertSameIds ==
  /\ \E gone \in SUBSET rows, new \in (SUBSET Id) \ {{}} :
       rows' = (rows \ gone) \union new
  /\ UNCHANGED <<used, es, qdr, sessions, req, log>>

\* A conversion: fresh ids for some rows, or for more of them.
Convert ==
  /\ \E gone \in SUBSET rows, new \in (SUBSET (Id \ used)) \ {{}} :
       /\ rows' = (rows \ gone) \union new
       /\ used' = used \union new
  /\ UNCHANGED <<es, qdr, sessions, req, log>>

\* An index stage, or the part of it that was done.
IndexChunks ==
  /\ \E some \in SUBSET rows :
       \/ es' = es \union some /\ qdr' = qdr
       \/ qdr' = qdr \union some /\ es' = es
  /\ UNCHANGED <<rows, used, sessions, req, log>>

-----------------------------------------------------------------------------
(* One request.                                                            *)

\* The history is read, and the agent starts.  began is only history.
Begin(r) ==
  /\ req[r] = Nothing
  /\ \E s \in Session :
       req' = [req EXCEPT ![r] = [at |-> "agent", session |-> s, began |-> Len(log),
                                  past |-> sessions[s]]]
  /\ UNCHANGED <<chunks, sessions, log>>

\* Request r goes on with more, and keeps what it began with.
Base == {"session", "began", "past"}
Move(r, more) ==
  req' = [req EXCEPT ![r] = [f \in DOMAIN more \union Base |->
                               IF f \in DOMAIN more THEN more[f] ELSE req[r][f]]]

\* The agent calls get_interview_information: the query is translated, or
\* replaced by a notice that is searched for in its place, and both searches
\* start.
CallTool(r) ==
  /\ req[r].at = "agent"
  /\ r \in Searching
  /\ Move(r, [at |-> "search", es |-> {}, qdr |-> {}])
  /\ UNCHANGED <<chunks, sessions, log>>

\* Rankings of at most 2 * TopK of the ids in an index.
Rankings(index) == UNION {Injection(1 .. n, index) : n \in 0 .. 2 * TopK}

\* One of the two searches answers; the set holds the ranking once it has.
SearchEs(r) ==
  /\ req[r].at = "search" /\ req[r].es = {}
  /\ \E list \in Rankings(es) : Move(r, [req[r] EXCEPT !.es = {list}])
  /\ UNCHANGED <<chunks, sessions, log>>

SearchQdr(r) ==
  /\ req[r].at = "search" /\ req[r].qdr = {}
  /\ \E list \in Rankings(qdr) : Move(r, [req[r] EXCEPT !.qdr = {list}])
  /\ UNCHANGED <<chunks, sessions, log>>

\* gather returns when both searches have answered.
Fuse(r) ==
  /\ req[r].at = "search"
  /\ \E e \in req[r].es, q \in req[r].qdr : \E trusted \in Trust(e) :
       Move(r, [at |-> "hydrate", es |-> e, qdr |-> q,
                fused |-> Fused(e, q, trusted)])
  /\ UNCHANGED <<chunks, sessions, log>>

\* mutant: WHERE id IN (...) without the ORDER BY
HydrateUnordered(r) ==
  /\ req[r].at = "hydrate"
  /\ \E found \in SetToSeqs(Range(Top(TopK, req[r].fused)) \intersect rows) :
       /\ found # <<>>
       /\ Move(r, [at |-> "agent", fused |-> req[r].fused, found |-> found,
                   rows |-> rows])
  /\ UNCHANGED <<chunks, sessions, log>>

\* YtHydrator: the ids that have a row, in the order asked for.
RowsOf(ids) ==
  LET kept == Range(ids) \intersect rows
  IN  InOrder(kept, {p \in kept \X kept : RankIn(ids, p[1]) < RankIn(ids, p[2])})

\* The rows of the best ids.  With some, the answers are translated and the
\* tool returns; without, it raises 404.
Hydrate(r) ==
  /\ req[r].at = "hydrate"
  /\ LET found == RowsOf(Top(TopK, req[r].fused))
     IN  /\ found # <<>>
         /\ Move(r, [at |-> "agent", fused |-> req[r].fused, found |-> found,
                     rows |-> rows])
  /\ UNCHANGED <<chunks, sessions, log>>

\* mutant: new_messages_json for all_messages_json
AnswerAlone(r) ==
  /\ req[r].at = "agent"
  /\ sessions' = [sessions EXCEPT ![req[r].session] = <<r>>]
  /\ Move(r, [at |-> "answered"])
  /\ log' = Append(log, r)
  /\ UNCHANGED chunks

\* The agent's run ends with a response or a question back; its messages,
\* those of the past first, become the history.
Answer(r) ==
  /\ req[r].at = "agent"
  /\ sessions' = [sessions EXCEPT ![req[r].session] = Append(req[r].past, r)]
  /\ Move(r, [at |-> "answered"])
  /\ log' = Append(log, r)
  /\ UNCHANGED chunks

\* mutant: the history is stored in a finally block
FailAndStore(r) ==
  /\ req[r].at \in {"agent", "search", "hydrate"}
  /\ sessions' = [sessions EXCEPT ![req[r].session] = Append(req[r].past, r)]
  /\ Move(r, [at |-> "failed"])
  /\ UNCHANGED <<chunks, log>>

\* Any exception: 404 when nothing was found (or hydration failed, which
\* counts as nothing), a guardrail, a model, a search or a translation.
Fail(r) ==
  /\ req[r].at \in {"agent", "search", "hydrate"}
  /\ Move(r, [at |-> "failed"])
  /\ UNCHANGED <<chunks, sessions, log>>

Next ==
  \/ Convert \/ IndexChunks
  \/ \E r \in Request :
       \/ Begin(r) \/ CallTool(r) \/ SearchEs(r) \/ SearchQdr(r) \/ Fuse(r)
       \/ Hydrate(r) \/ Answer(r) \/ Fail(r)

Spec == Init /\ [][Next]_vars

-----------------------------------------------------------------------------
(* Properties.                                                             *)

\* Every variable has its type; rows and indexes hold ids that were given.
TypeOK ==
  /\ used \subseteq Id
  /\ rows \subseteq used /\ es \subseteq used /\ qdr \subseteq used
  /\ sessions \in [Session -> Seq(Request)]
  /\ DOMAIN req = Request
  /\ log \in Seq(Request)

\* History h consists of requests of session s among the first n answers, once
\* each and in the order of their answers.
Recalls(h, s, n) ==
  \E at \in [DOMAIN h -> 1 .. n] :
    /\ \A i \in DOMAIN h : h[i] = log[at[i]] /\ req[h[i]].session = s
    /\ \A i, j \in DOMAIN h : i < j => at[i] < at[j] /\ h[i] # h[j]

\* A history holds requests of its own session that were answered, once each
\* and in the order of their answers; a request that fails leaves no trace.
SessionsTrue == \A s \in Session : Recalls(sessions[s], s, Len(log))

\* A turn is missing from its session's history only if another request of
\* the session began before that turn was answered and was answered after it.
\* (main.py:110-122: read, await, overwrite)
LostOnlyToOverlap ==
  \A s \in Session : \A m \in DOMAIN log :
    (req[log[m]].session = s /\ log[m] \notin Range(sessions[s])) =>
      \E n \in m + 1 .. Len(log) : req[log[n]].session = s /\ req[log[n]].began < m

Above(list, a, b) ==
  RankIn(list, a) > 0 /\ (RankIn(list, b) = 0 \/ RankIn(list, a) < RankIn(list, b))

\* The fused ranking lists what either search found, once; an id that one
\* search puts above another and the other does not put below it is above.
FusionSound ==
  \A r \in Request : req[r].at = "hydrate" =>
    LET f == req[r].fused  e == req[r].es  q == req[r].qdr
    IN  /\ Range(f) = Range(e) \union Range(q)
        /\ \A i, j \in DOMAIN f : (i < j) =>
             /\ f[i] # f[j]
             /\ ~(Above(e, f[j], f[i]) /\ ~Above(q, f[i], f[j]))
             /\ ~(Above(q, f[j], f[i]) /\ ~Above(e, f[i], f[j]))

\* What the tool returns are the best ids that still had a row when it
\* looked, in the order of the fused ranking, and never more than TopK.
RankKept ==
  \A r \in Request : (req[r].at = "agent" /\ "found" \in DOMAIN req[r]) =>
    LET f == req[r].fused  g == req[r].found
    IN  /\ Len(g) <= TopK
        /\ \A i, j \in DOMAIN g : i < j => RankIn(f, g[i]) < RankIn(f, g[j])
        /\ \A i \in DOMAIN f : (i <= TopK /\ f[i] \in req[r].rows) => f[i] \in Range(g)
=============================================================================
