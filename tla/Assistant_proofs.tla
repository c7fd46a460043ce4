-------------------------- MODULE Assistant_proofs --------------------------
(***************************************************************************)
(* Proofs about Assistant for any requests, sessions and chunk ids and any *)
(* natural number TopK.                                                    *)
(*                                                                         *)
(* A request's record only ever grows around the session, the history and  *)
(* the moment it began with; from that follow the types, which turns a     *)
(* session may lose, and which it keeps.  The retrieval tool rests on      *)
(* lemmas about ordering a finite set, about fractions and about ranks.    *)
(***************************************************************************)
EXTENDS Assistant, SequenceTheorems, FiniteSetTheorems, FunctionTheorems, TLAPS

Running == {"agent", "search", "hydrate"}

\* What a request holds from its beginning on.
Begun(q) ==
  /\ Base \union {"at"} \subseteq DOMAIN q
  /\ q.at \in Running \union {"answered", "failed"}
  /\ q.session \in Session
  /\ q.began \in 0 .. Len(log)
  /\ q.past \in Seq(Request)

RequestsBegun == \A r \in Request : req[r] = Nothing \/ Begun(req[r])

TypeInv == TypeOK /\ RequestsBegun

\* Request r goes from one of the places in from to another, or stays.
Goes(r, from, to) ==
  /\ DOMAIN req' = Request
  /\ req[r].at \in from
  /\ Base \union {"at"} \subseteq DOMAIN req'[r]
  /\ req'[r].at = to
  /\ \A f \in Base : req'[r][f] = req[r][f]
  /\ \A q \in Request \ {r} : req'[q] = req[q]

LEMMA MoveGoes ==
  ASSUME NEW r \in Request, DOMAIN req = Request,
         NEW more, "at" \in DOMAIN more, DOMAIN more \intersect Base = {},
         Move(r, more)
  PROVE  Goes(r, {req[r].at}, more.at)
<1>1. /\ req'[r] = [f \in DOMAIN more \union Base |->
                      IF f \in DOMAIN more THEN more[f] ELSE req[r][f]]
      /\ DOMAIN req' = Request
      /\ \A q \in Request \ {r} : req'[q] = req[q]
  BY DEF Move
<1>2. QED
  BY <1>1 DEF Goes

\* The same for a request that notes the answer of a search.
LEMMA NoteGoes ==
  ASSUME TypeInv, NEW r \in Request, req[r].at = "search",
         NEW more, DOMAIN more = DOMAIN req[r], more.at = req[r].at,
         \A f \in Base : more[f] = req[r][f],
         Move(r, more)
  PROVE  Goes(r, {"search"}, "search")
<1>1. Base \union {"at"} \subseteq DOMAIN more
  BY DEF TypeInv, RequestsBegun, Nothing, Begun
<1>2. /\ req'[r] = [f \in DOMAIN more \union Base |->
                      IF f \in DOMAIN more THEN more[f] ELSE req[r][f]]
      /\ DOMAIN req' = Request
      /\ \A q \in Request \ {r} : req'[q] = req[q]
  BY DEF Move, TypeInv, TypeOK
<1>3. QED
  BY <1>1, <1>2 DEF Goes

\* Every step but Begin takes one request on, or none.
LEMMA RequestStep ==
  ASSUME TypeInv, NEW r \in Request,
         \/ CallTool(r) \/ SearchEs(r) \/ SearchQdr(r) \/ Fuse(r) \/ Hydrate(r)
         \/ Answer(r) \/ Fail(r)
  PROVE  \/ \E to \in Running \union {"failed"} :
              Goes(r, Running, to) /\ UNCHANGED <<sessions, log>>
         \/ Answer(r) /\ Goes(r, {"agent"}, "answered")
<1> USE DEF Running
<1>0. DOMAIN req = Request
  BY DEF TypeInv, TypeOK
<1>1. CASE CallTool(r)
  <2>1. Goes(r, {req[r].at}, "search")
    BY <1>0, <1>1, MoveGoes DEF CallTool, Base
  <2>2. QED
    BY <1>1, <2>1 DEF CallTool, Goes
<1>2. CASE SearchEs(r)
  <2>1. PICK list : Move(r, [req[r] EXCEPT !.es = {list}])
    BY <1>2 DEF SearchEs
  <2>2. req[r].at = "search"
    BY <1>2 DEF SearchEs
  <2>3. Goes(r, {"search"}, "search")
    BY <2>1, <2>2, NoteGoes DEF TypeInv, RequestsBegun, Nothing, Begun, Base
  <2>4. QED
    BY <1>2, <2>3 DEF SearchEs, Goes
<1>3. CASE SearchQdr(r)
  <2>1. PICK list : Move(r, [req[r] EXCEPT !.qdr = {list}])
    BY <1>3 DEF SearchQdr
  <2>2. req[r].at = "search"
    BY <1>3 DEF SearchQdr
  <2>3. Goes(r, {"search"}, "search")
    BY <2>1, <2>2, NoteGoes DEF TypeInv, RequestsBegun, Nothing, Begun, Base
  <2>4. QED
    BY <1>3, <2>3 DEF SearchQdr, Goes
<1>4. CASE Fuse(r)
  <2>1. PICK e, q, fused : Move(r, [at |-> "hydrate", es |-> e, qdr |-> q, fused |-> fused])
    BY <1>4 DEF Fuse
  <2>2. Goes(r, {req[r].at}, "hydrate")
    BY <1>0, <2>1, MoveGoes DEF Base
  <2>3. QED
    BY <1>4, <2>2 DEF Fuse, Goes
<1>5. CASE Hydrate(r)
  <2>1. PICK found : Move(r, [at |-> "agent", fused |-> req[r].fused, found |-> found,
                              rows |-> rows])
    BY <1>5 DEF Hydrate
  <2>2. Goes(r, {req[r].at}, "agent")
    BY <1>0, <2>1, MoveGoes DEF Base
  <2>3. QED
    BY <1>5, <2>2 DEF Hydrate, Goes
<1>6. CASE Answer(r)
  <2>1. Goes(r, {req[r].at}, "answered")
    BY <1>0, <1>6, MoveGoes DEF Answer, Base
  <2>2. QED
    BY <1>6, <2>1 DEF Answer
<1>7. CASE Fail(r)
  <2>1. Goes(r, {req[r].at}, "failed")
    BY <1>0, <1>7, MoveGoes DEF Fail, Base
  <2>2. QED
    BY <1>7, <2>1 DEF Fail, Goes
<1>8. QED
  BY <1>1, <1>2, <1>3, <1>4, <1>5, <1>6, <1>7

-----------------------------------------------------------------------------
(* Types.                                                                  *)

LEMMA NothingIsNew == Nothing.at = "new" /\ DOMAIN Nothing = {"at"}
BY DEF Nothing

\* What Begin and Answer do, in the terms of the other lemmas.
LEMMA BeginTakes ==
  ASSUME TypeInv, NEW r \in Request, Begin(r)
  PROVE  /\ req[r] = Nothing
         /\ DOMAIN req' = Request
         /\ Base \union {"at"} \subseteq DOMAIN req'[r]
         /\ req'[r].at = "agent"
         /\ req'[r].session \in Session
         /\ req'[r].began = Len(log)
         /\ req'[r].past = sessions[req'[r].session]
         /\ \A q \in Request \ {r} : req'[q] = req[q]
         /\ UNCHANGED <<rows, used, es, qdr, sessions, log>>
<1>1. PICK s \in Session :
         req' = [req EXCEPT ![r] = [at |-> "agent", session |-> s, began |-> Len(log),
                                    past |-> sessions[s]]]
  BY DEF Begin
<1>2. DOMAIN req = Request
  BY DEF TypeInv, TypeOK
<1>3. QED
  BY <1>1, <1>2 DEF Begin, Base, chunks

LEMMA TypeStep == TypeInv /\ [Next]_vars => TypeInv'
<1> SUFFICES ASSUME TypeInv, [Next]_vars
             PROVE  TypeInv'
  OBVIOUS
<1>1. /\ sessions \in [Session -> Seq(Request)]
      /\ DOMAIN req = Request
      /\ log \in Seq(Request)
      /\ used \subseteq Id
      /\ rows \subseteq used /\ es \subseteq used /\ qdr \subseteq used
  BY DEF TypeInv, TypeOK
<1>2. ASSUME UNCHANGED <<sessions, req, log>>,
             used' \subseteq Id, rows' \subseteq used', es' \subseteq used', qdr' \subseteq used'
      PROVE  TypeInv'
  BY <1>1, <1>2 DEF TypeInv, TypeOK, RequestsBegun, Begun
<1>3. CASE Convert
  BY <1>1, <1>2, <1>3 DEF Convert
<1>4. CASE IndexChunks
  BY <1>1, <1>2, <1>4 DEF IndexChunks
<1>5. CASE UNCHANGED vars
  BY <1>1, <1>2, <1>5 DEF vars
<1>6. ASSUME NEW r \in Request, Begin(r)
      PROVE  TypeInv'
  <2>1. TypeOK'
    BY <1>1, <1>6, BeginTakes DEF TypeOK
  <2>2. Begun(req[r])'
    <3>1. Len(log) \in Nat
      BY <1>1, LenProperties
    <3>2. QED
      BY <1>1, <1>6, <3>1, BeginTakes DEF Begun, Running
  <2>3. ASSUME NEW q \in Request
        PROVE  req'[q] = Nothing \/ Begun(req[q])'
    <3>1. CASE q = r
      BY <2>2, <3>1
    <3>2. CASE q # r
      BY <1>6, <3>2, BeginTakes DEF TypeInv, RequestsBegun, Begun
    <3>3. QED
      BY <3>1, <3>2
  <2>4. QED
    BY <2>1, <2>3 DEF TypeInv, RequestsBegun
<1>7. ASSUME NEW r \in Request, NEW from \in SUBSET Running,
             NEW to \in Running \union {"answered", "failed"}, Goes(r, from, to),
             UNCHANGED chunks, sessions' \in [Session -> Seq(Request)],
             log' \in Seq(Request), Len(log) \in Nat, Len(log') \in Nat,
             Len(log) <= Len(log')
      PROVE  TypeInv'
  <2>1. TypeOK'
    BY <1>1, <1>7 DEF TypeOK, Goes, chunks
  <2>2. Begun(req[r])
    BY <1>7, NothingIsNew DEF TypeInv, RequestsBegun, Goes, Running
  <2>3. Begun(req[r])'
    <3>1. req'[r].session = req[r].session /\ req'[r].past = req[r].past
          /\ req'[r].began = req[r].began
      BY <1>7 DEF Goes, Base
    <3>2. req'[r].began \in 0 .. Len(log')
      BY <1>7, <2>2, <3>1 DEF Begun
    <3>3. QED
      BY <1>7, <2>2, <3>1, <3>2 DEF Begun, Goes
  <2>4. ASSUME NEW q \in Request \ {r}, Begun(req[q])
        PROVE  Begun(req[q])'
    <3>1. req[q].began \in 0 .. Len(log')
      BY <1>7, <2>4 DEF Begun
    <3>2. req'[q] = req[q]
      BY <1>7 DEF Goes
    <3>3. QED
      BY <2>4, <3>1, <3>2 DEF Begun
  <2>5. ASSUME NEW q \in Request \ {r}
        PROVE  req'[q] = Nothing \/ Begun(req[q])'
    BY <1>7, <2>4 DEF TypeInv, RequestsBegun, Goes
  <2>6. QED
    BY <2>1, <2>3, <2>5 DEF TypeInv, RequestsBegun
<1>8. ASSUME NEW r \in Request,
             \/ CallTool(r) \/ SearchEs(r) \/ SearchQdr(r) \/ Fuse(r) \/ Hydrate(r)
             \/ Answer(r) \/ Fail(r)
      PROVE  TypeInv'
  <2>0. UNCHANGED chunks
    BY <1>8 DEF CallTool, SearchEs, SearchQdr, Fuse, Hydrate, Answer, Fail
  <2>1. Len(log) \in Nat
    BY <1>1, LenProperties
  <2>2. ASSUME NEW to \in Running \union {"failed"},
               Goes(r, Running, to), UNCHANGED <<sessions, log>>
        PROVE  TypeInv'
    <3>1. /\ sessions' \in [Session -> Seq(Request)]
          /\ log' \in Seq(Request)
          /\ Len(log') \in Nat /\ Len(log) <= Len(log')
      BY <1>1, <2>1, <2>2
    <3>2. QED
      BY <1>7, <2>0, <2>1, <2>2, <3>1
  <2>3. ASSUME Answer(r), Goes(r, {"agent"}, "answered")
        PROVE  TypeInv'
    <3>1. Begun(req[r])
      BY <2>3, NothingIsNew DEF TypeInv, RequestsBegun, Goes
    <3>2. /\ Append(req[r].past, r) \in Seq(Request)
          /\ Append(log, r) \in Seq(Request)
          /\ Len(Append(log, r)) = Len(log) + 1
      BY <1>1, <3>1 DEF Begun
    <3>3. sessions' \in [Session -> Seq(Request)] /\ log' = Append(log, r)
      BY <1>1, <2>3, <3>1, <3>2 DEF Answer, Begun
    <3>4. {"agent"} \in SUBSET Running
      BY DEF Running
    <3>5. QED
      BY <1>7, <2>0, <2>1, <2>3, <3>2, <3>3, <3>4
  <2>4. QED
    BY <1>8, <2>2, <2>3, RequestStep
<1>9. QED
  BY <1>3, <1>4, <1>5, <1>6, <1>8 DEF Next

LEMMA TypeInit == Init => TypeInv
BY DEF Init, TypeInv, TypeOK, RequestsBegun

\* Whatever requests, conversions and index stages overlap, every variable of
\* the chat server keeps its type, and rows and indexes hold ids given once.
THEOREM TypeCorrect == Spec => []TypeOK
<1>1. TypeInv => TypeOK
  BY DEF TypeInv
<1>2. QED
  BY TypeInit, TypeStep, <1>1, PTL DEF Spec

-----------------------------------------------------------------------------
(* Lost turns.                                                             *)

\* A request of s was answered after turn m and had begun before it.
Overtaken(s, m) ==
  \E n \in m + 1 .. Len(log) : req[log[n]].session = s /\ req[log[n]].began < m

\* Whatever a running request's history lacks was lost before it began.
PastsExplained ==
  \A r \in Request, s \in Session :
    (req[r] # Nothing /\ req[r].at \in Running /\ req[r].session = s) =>
      \A m \in 1 .. req[r].began :
        (req[log[m]].session = s /\ log[m] \notin Range(req[r].past)) => Overtaken(s, m)

LogAnswered == \A m \in DOMAIN log : req[log[m]].at = "answered"

LossInv == LogAnswered /\ PastsExplained /\ LostOnlyToOverlap

LEMMA LogType ==
  ASSUME TypeInv
  PROVE  /\ Len(log) \in Nat
         /\ DOMAIN log = 1 .. Len(log)
         /\ \A m \in 1 .. Len(log) : log[m] \in Request
BY LenProperties, ElementOfSeq DEF TypeInv, TypeOK

\* Turns that are in the log stay as they are, and so does what overtook them.
LEMMA LossKept ==
  ASSUME TypeInv, LogAnswered, NEW r \in Request, req[r].at # "answered",
         \A q \in Request \ {r} : req'[q] = req[q],
         UNCHANGED log
  PROVE  /\ \A m \in DOMAIN log : req'[log'[m]] = req[log[m]]
         /\ LogAnswered'
         /\ \A s \in Session : \A m \in DOMAIN log :
              Overtaken(s, m) => Overtaken(s, m)'
<1>1. \A m \in DOMAIN log : log[m] \in Request \ {r}
  BY LogType DEF LogAnswered
<1>2. \A m \in DOMAIN log : req'[log'[m]] = req[log[m]]
  BY <1>1
<1>3. LogAnswered'
  BY <1>2 DEF LogAnswered
<1>4. ASSUME NEW s \in Session, NEW m \in DOMAIN log, Overtaken(s, m)
      PROVE  Overtaken(s, m)'
  <2>1. PICK n \in m + 1 .. Len(log) : req[log[n]].session = s /\ req[log[n]].began < m
    BY <1>4 DEF Overtaken
  <2>2. n \in DOMAIN log
    BY <2>1, LogType
  <2>3. QED
    BY <1>2, <2>1, <2>2 DEF Overtaken
<1>5. QED
  BY <1>2, <1>3, <1>4

LEMMA LossStep == TypeInv /\ LossInv /\ [Next]_vars => LossInv'
<1> SUFFICES ASSUME TypeInv, LossInv, [Next]_vars
             PROVE  LossInv'
  OBVIOUS
<1>1. CASE UNCHANGED <<sessions, req, log>>
  BY <1>1 DEF LossInv, LogAnswered, PastsExplained, LostOnlyToOverlap, Overtaken
<1>2. ASSUME NEW r \in Request, Begin(r)
      PROVE  LossInv'
  <2>1. PICK s \in Session :
        /\ req[r].at # "answered"
        /\ req'[r].session = s
        /\ req'[r].began = Len(log)
        /\ req'[r].past = sessions[s]
        /\ \A q \in Request \ {r} : req'[q] = req[q]
        /\ UNCHANGED <<sessions, log>>
    BY <1>2, BeginTakes, NothingIsNew
  <2>2. /\ \A m \in DOMAIN log : req'[log'[m]] = req[log[m]]
        /\ LogAnswered'
        /\ \A t \in Session : \A m \in DOMAIN log : Overtaken(t, m) => Overtaken(t, m)'
    BY <2>1, LossKept DEF LossInv
  <2>3. LostOnlyToOverlap'
    BY <2>1, <2>2 DEF LossInv, LostOnlyToOverlap, Overtaken
  <2>4. ASSUME NEW m \in 1 .. Len(log), req'[log'[m]].session = s,
               log'[m] \notin Range(sessions[s])
        PROVE  Overtaken(s, m)'
    <3>1. m \in DOMAIN log
      BY LogType
    <3>2. Overtaken(s, m)
      BY <2>1, <2>2, <2>4, <3>1 DEF LossInv, LostOnlyToOverlap, Overtaken
    <3>3. QED
      BY <2>1, <2>2, <3>1, <3>2
  <2>5. ASSUME NEW q \in Request \ {r}, NEW t \in Session,
               req'[q] # Nothing, req'[q].at \in Running, req'[q].session = t,
               NEW m \in 1 .. req'[q].began, req'[log'[m]].session = t,
               log'[m] \notin Range(req'[q].past)
        PROVE  Overtaken(t, m)'
    <3>1. req'[q] = req[q] /\ Begun(req[q])
      BY <2>1, <2>5 DEF TypeInv, RequestsBegun
    <3>2. m \in DOMAIN log
      BY <2>5, <3>1, LogType DEF Begun
    <3>3. Overtaken(t, m)
      BY <2>1, <2>2, <2>5, <3>1, <3>2 DEF LossInv, PastsExplained
    <3>4. QED
      BY <2>2, <3>1, <3>2, <3>3 DEF Begun
  <2>6. PastsExplained'
    BY <2>1, <2>4, <2>5 DEF PastsExplained
  <2>7. QED
    BY <2>2, <2>3, <2>6 DEF LossInv
<1>3. ASSUME NEW r \in Request, NEW to \in Running \union {"failed"},
             Goes(r, Running, to), UNCHANGED <<sessions, log>>
      PROVE  LossInv'
  <2>1. /\ req[r].at \in Running
        /\ \A q \in Request \ {r} : req'[q] = req[q]
        /\ req'[r].session = req[r].session
        /\ req'[r].began = req[r].began
        /\ req'[r].past = req[r].past
    BY <1>3 DEF Goes, Base
  <2>2. /\ \A m \in DOMAIN log : req'[log'[m]] = req[log[m]]
        /\ LogAnswered'
        /\ \A t \in Session : \A m \in DOMAIN log : Overtaken(t, m) => Overtaken(t, m)'
    BY <1>3, <2>1, LossKept DEF LossInv, Running
  <2>3. LostOnlyToOverlap'
    BY <1>3, <2>2 DEF LossInv, LostOnlyToOverlap, Overtaken
  <2>4. ASSUME NEW q \in Request, NEW t \in Session,
               req'[q] # Nothing, req'[q].at \in Running, req'[q].session = t,
               NEW m \in 1 .. req'[q].began, req'[log'[m]].session = t,
               log'[m] \notin Range(req'[q].past)
        PROVE  Overtaken(t, m)'
    <3>1. /\ req'[q].session = req[q].session
          /\ req'[q].began = req[q].began
          /\ req'[q].past = req[q].past
          /\ req[q].at \in Running
      BY <2>1, <2>4
    <3>2. req[q] # Nothing /\ Begun(req[q])
      BY <3>1, NothingIsNew DEF TypeInv, RequestsBegun, Running
    <3>3. m \in DOMAIN log
      BY <2>4, <3>1, <3>2, LogType DEF Begun
    <3>4. Overtaken(t, m)
      BY <1>3, <2>2, <2>4, <3>1, <3>2, <3>3 DEF LossInv, PastsExplained
    <3>5. QED
      BY <2>2, <3>1, <3>2, <3>3, <3>4 DEF Begun
  <2>5. PastsExplained'
    BY <2>4 DEF PastsExplained
  <2>6. QED
    BY <2>2, <2>3, <2>5 DEF LossInv
<1>4. ASSUME NEW r \in Request, Answer(r), Goes(r, {"agent"}, "answered")
      PROVE  LossInv'
  <2> DEFINE s == req[r].session
             last == Len(log) + 1
  <2>1. /\ req[r].at = "agent"
        /\ req'[r].at = "answered"
        /\ \A q \in Request \ {r} : req'[q] = req[q]
        /\ req'[r].session = s
        /\ req'[r].began = req[r].began
    BY <1>4 DEF Goes, Base
  <2>2. req[r] # Nothing /\ Begun(req[r])
    BY <2>1, NothingIsNew DEF TypeInv, RequestsBegun
  <2>3. /\ sessions' = [sessions EXCEPT ![s] = Append(req[r].past, r)]
        /\ log' = Append(log, r)
    BY <1>4 DEF Answer
  <2>4. /\ Len(log) \in Nat
        /\ Len(log') = last
        /\ DOMAIN log' = 1 .. last
        /\ log'[last] = r
        /\ \A m \in 1 .. Len(log) : log'[m] = log[m] /\ log[m] \in Request
    BY <2>3, LogType, LenProperties DEF TypeInv, TypeOK
  <2>5. \A m \in 1 .. Len(log) : log[m] # r /\ req'[log'[m]] = req[log[m]]
    BY <2>1, <2>4, LogType DEF LossInv, LogAnswered
  <2>6. LogAnswered'
    BY <2>1, <2>4, <2>5, LogType DEF LossInv, LogAnswered
  <2>7. ASSUME NEW t \in Session, NEW m \in 1 .. Len(log), Overtaken(t, m)
        PROVE  Overtaken(t, m)'
    <3>1. PICK n \in m + 1 .. Len(log) : req[log[n]].session = t /\ req[log[n]].began < m
      BY <2>7 DEF Overtaken
    <3>2. n \in 1 .. Len(log) /\ n \in m + 1 .. Len(log')
      BY <2>4, <3>1
    <3>3. req'[log'[n]] = req[log[n]]
      BY <2>5, <3>2
    <3>4. QED
      BY <3>1, <3>2, <3>3 DEF Overtaken
  <2>8. Range(Append(req[r].past, r)) = Range(req[r].past) \union {r}
    <3>1. req[r].past \in Seq(Request)
      BY <2>2 DEF Begun
    <3>2. /\ DOMAIN req[r].past = 1 .. Len(req[r].past)
          /\ DOMAIN Append(req[r].past, r) = 1 .. Len(req[r].past) + 1
          /\ Len(req[r].past) \in Nat
          /\ \A n \in 1 .. Len(req[r].past) : Append(req[r].past, r)[n] = req[r].past[n]
          /\ Append(req[r].past, r)[Len(req[r].past) + 1] = r
      BY <3>1, AppendProperties, LenProperties
    <3> DEFINE p == req[r].past
               a == Append(req[r].past, r)
               l == Len(req[r].past)
    <3>3. /\ DOMAIN p = 1 .. l
          /\ DOMAIN a = 1 .. l + 1
          /\ l \in Nat
          /\ \A n \in 1 .. l : a[n] = p[n]
          /\ a[l + 1] = r
      BY <3>2
    <3> HIDE DEF p, a, l
    <3>4. \A x : (\E n \in 1 .. l + 1 : x = a[n]) <=> (\E n \in 1 .. l : x = p[n]) \/ x = r
      BY <3>3
    <3>5. {a[n] : n \in DOMAIN a} = {p[n] : n \in DOMAIN p} \union {r}
      BY <3>3, <3>4
    <3>6. QED
      BY <3>5 DEF Range, p, a
  <2>9. PastsExplained'
    <3>1. ASSUME NEW q \in Request, NEW t \in Session,
                 req'[q] # Nothing, req'[q].at \in Running, req'[q].session = t,
                 NEW m \in 1 .. req'[q].began, req'[log'[m]].session = t,
                 log'[m] \notin Range(req'[q].past)
          PROVE  Overtaken(t, m)'
      <4>1. q # r
        BY <2>1, <3>1 DEF Running
      <4>2. req'[q] = req[q]
        BY <2>1, <4>1
      <4>3. Begun(req[q])
        BY <3>1, <4>2 DEF TypeInv, RequestsBegun
      <4>4. m \in 1 .. Len(log)
        BY <2>4, <3>1, <4>2, <4>3 DEF Begun
      <4>5. Overtaken(t, m)
        BY <2>4, <2>5, <3>1, <4>2, <4>4 DEF LossInv, PastsExplained
      <4>6. QED
        BY <2>7, <4>2, <4>3, <4>4, <4>5 DEF Begun
    <3>2. QED
      BY <3>1 DEF PastsExplained
  <2>10. LostOnlyToOverlap'
    <3>1. ASSUME NEW t \in Session, NEW m \in 1 .. last,
                 req'[log'[m]].session = t, log'[m] \notin Range(sessions'[t])
          PROVE  Overtaken(t, m)'
      <4>1. CASE t = s
        <5>1. sessions'[t] = Append(req[r].past, r)
          BY <2>3, <4>1 DEF TypeInv, TypeOK
        <5>2. log'[m] # r /\ log'[m] \notin Range(req[r].past)
          BY <2>8, <3>1, <5>1
        <5>3. m \in 1 .. Len(log)
          BY <2>4, <5>2
        <5>4. CASE m <= req[r].began
          <6>1. m \in 1 .. req[r].began
            BY <2>2, <5>3, <5>4 DEF Begun
          <6>2. req[log[m]].session = s /\ log[m] \notin Range(req[r].past)
            BY <2>4, <2>5, <3>1, <4>1, <5>2, <5>3
          <6>3. Overtaken(s, m)
            BY <2>1, <2>2, <6>1, <6>2 DEF LossInv, PastsExplained, Running, Begun
          <6>4. QED
            BY <2>7, <4>1, <5>3, <6>3
        <5>5. CASE ~(m <= req[r].began)
          <6>1. req[r].began < m
            BY <2>2, <2>4, <5>3, <5>5 DEF Begun
          <6>2. last \in m + 1 .. Len(log')
            BY <2>4, <5>3
          <6>3. QED
            BY <2>1, <2>4, <4>1, <6>1, <6>2 DEF Overtaken
        <5>6. QED
          BY <5>4, <5>5
      <4>2. CASE t # s
        <5>1. sessions'[t] = sessions[t]
          BY <2>3, <4>2 DEF TypeInv, TypeOK
        <5>2. m \in 1 .. Len(log)
          BY <2>1, <2>4, <3>1, <4>2
        <5>3. Overtaken(t, m)
          BY <2>4, <2>5, <3>1, <5>1, <5>2, LogType
             DEF LossInv, LostOnlyToOverlap, Overtaken
        <5>4. QED
          BY <2>7, <5>2, <5>3
      <4>3. QED
        BY <4>1, <4>2
    <3>2. QED
      BY <2>4, <3>1 DEF LostOnlyToOverlap, Overtaken
  <2>11. QED
    BY <2>6, <2>9, <2>10 DEF LossInv
<1>5. ASSUME NEW r \in Request,
             \/ CallTool(r) \/ SearchEs(r) \/ SearchQdr(r) \/ Fuse(r) \/ Hydrate(r)
             \/ Answer(r) \/ Fail(r)
      PROVE  LossInv'
  BY <1>3, <1>4, <1>5, RequestStep
<1>6. CASE Convert \/ IndexChunks \/ UNCHANGED vars
  BY <1>1, <1>6 DEF Convert, IndexChunks, vars
<1>7. QED
  BY <1>2, <1>5, <1>6 DEF Next

\* /chat reads a history, awaits the agent and overwrites the history; a turn
\* is lost to that only if another request of its session overlapped it.
THEOREM TurnsLostOnlyToOverlap == Spec => []LostOnlyToOverlap
<1>1. Init => LossInv
  <2>1. ASSUME Init
        PROVE  DOMAIN log = {} /\ \A r \in Request : req[r] = Nothing
    BY <2>1, EmptySeq, LenProperties DEF Init
  <2>2. QED
    BY <2>1 DEF LossInv, LogAnswered, PastsExplained, LostOnlyToOverlap
<1>2. LossInv => LostOnlyToOverlap
  BY DEF LossInv
<1>3. QED
  BY TypeInit, TypeStep, <1>1, LossStep, <1>2, PTL DEF Spec

-----------------------------------------------------------------------------
(* Histories.                                                              *)

\* A running request holds a history of its session as of when it began.
PastsTrue ==
  \A r \in Request :
    (req[r] # Nothing /\ req[r].at \in Running) =>
      Recalls(req[r].past, req[r].session, req[r].began)

HistoryInv == PastsTrue /\ SessionsTrue

\* What a history recalls, it recalls as the log grows.
LEMMA RecallsKept ==
  ASSUME TypeInv,
         \A i \in 1 .. Len(log) : log'[i] = log[i] /\ req'[log[i]].session = req[log[i]].session,
         NEW h, NEW s, NEW n \in 0 .. Len(log), NEW m \in Nat, n <= m,
         Recalls(h, s, n)
  PROVE  Recalls(h, s, m)'
<1>1. PICK at \in [DOMAIN h -> 1 .. n] :
        /\ \A i \in DOMAIN h : h[i] = log[at[i]] /\ req[h[i]].session = s
        /\ \A i, j \in DOMAIN h : i < j => at[i] < at[j] /\ h[i] # h[j]
  BY DEF Recalls
<1>2. at \in [DOMAIN h -> 1 .. m]
  BY LogType
<1>3. \A i \in DOMAIN h : at[i] \in 1 .. Len(log)
  BY LogType
<1>4. \A i \in DOMAIN h : h[i] = log'[at[i]] /\ req'[h[i]].session = s
  BY <1>1, <1>3
<1>5. QED
  BY <1>1, <1>2, <1>4 DEF Recalls

\* A request that ends appends itself, which the log has not had, as the last.
LEMMA RecallsMore ==
  ASSUME TypeInv, NEW r \in Request, NEW s,
         NEW h \in Seq(Request), NEW n \in 0 .. Len(log), Recalls(h, s, n),
         NEW last, last = Len(log) + 1,
         \A i \in 1 .. Len(log) :
           /\ log'[i] = log[i] /\ log[i] # r
           /\ req'[log[i]].session = req[log[i]].session,
         log'[last] = r, req'[r].session = s
  PROVE  Recalls(Append(h, r), s, last)'
<1> DEFINE a == Append(h, r)
           l == Len(h)
<1>1. PICK at \in [DOMAIN h -> 1 .. n] :
        /\ \A i \in DOMAIN h : h[i] = log[at[i]] /\ req[h[i]].session = s
        /\ \A i, j \in DOMAIN h : i < j => at[i] < at[j] /\ h[i] # h[j]
  BY DEF Recalls
<1>2. /\ l \in Nat /\ DOMAIN h = 1 .. l /\ DOMAIN a = 1 .. l + 1
      /\ \A i \in 1 .. l : a[i] = h[i]
      /\ a[l + 1] = r
  BY AppendProperties, LenProperties
<1>3. /\ last \in Nat
      /\ \A i \in 1 .. l : at[i] \in 1 .. Len(log) /\ at[i] < last
  BY <1>2, LogType
<1> HIDE DEF a, l
<1> DEFINE at2 == [i \in DOMAIN a |-> IF i = l + 1 THEN last ELSE at[i]]
<1>4. /\ at2 \in [DOMAIN a -> 1 .. last]
      /\ \A i \in 1 .. l : at2[i] = at[i]
      /\ at2[l + 1] = last
  BY <1>2, <1>3
<1>5. ASSUME NEW i \in DOMAIN a
      PROVE  a[i] = log'[at2[i]] /\ req'[a[i]].session = s
  <2>1. CASE i = l + 1
    BY <1>2, <1>4, <2>1
  <2>2. CASE i \in 1 .. l
    <3>1. a[i] = h[i] /\ at2[i] = at[i] /\ at[i] \in 1 .. Len(log)
      BY <1>2, <1>3, <1>4, <2>2
    <3>2. h[i] = log[at[i]] /\ req[h[i]].session = s
      BY <1>1, <1>2, <2>2
    <3>3. QED
      BY <3>1, <3>2
  <2>3. QED
    BY <1>2, <1>5, <2>1, <2>2
<1>6. ASSUME NEW i \in DOMAIN a, NEW j \in DOMAIN a, i < j
      PROVE  at2[i] < at2[j] /\ a[i] # a[j]
  <2>0. i \in 1 .. l
    BY <1>2, <1>6
  <2>1. CASE j = l + 1
    BY <1>1, <1>2, <1>3, <1>4, <2>0, <2>1
  <2>2. CASE j \in 1 .. l
    BY <1>1, <1>2, <1>4, <1>6, <2>0, <2>2
  <2>3. QED
    BY <1>2, <1>6, <2>1, <2>2
<1> HIDE DEF at2
<1>7. \E f \in [DOMAIN a -> 1 .. last] :
        /\ \A i \in DOMAIN a : a[i] = log'[f[i]] /\ req'[a[i]].session = s
        /\ \A i, j \in DOMAIN a : i < j => f[i] < f[j] /\ a[i] # a[j]
  BY <1>4, <1>5, <1>6
<1>8. QED
  BY <1>7 DEF Recalls, a

\* The two invariants, with what they are about by name.
LEMMA HistoriesAre ==
  ASSUME TypeInv, HistoryInv
  PROVE  /\ \A s \in Session : \A h, n :
              h = sessions[s] /\ n = Len(log) => Recalls(h, s, n)
         /\ \A r \in Request : \A s, h, n :
              /\ req[r] # Nothing /\ req[r].at \in Running
              /\ s = req[r].session /\ h = req[r].past /\ n = req[r].began
              => Recalls(h, s, n)
BY DEF HistoryInv, PastsTrue, SessionsTrue

\* They are kept by a step that only takes a request on, or begins one.
LEMMA HistoriesKept ==
  ASSUME TypeInv, LossInv, HistoryInv, NEW r \in Request, req[r].at # "answered",
         \A q \in Request \ {r} : req'[q] = req[q],
         UNCHANGED <<sessions, log>>,
         NEW s, NEW h, NEW n \in 0 .. Len(log), Recalls(h, s, n),
         req'[r].session = s, req'[r].past = h, req'[r].began = n
  PROVE  HistoryInv'
<1>0. Len(log) \in Nat /\ \A i \in 1 .. Len(log) : log[i] \in Request
  BY LogType
<1>1. \A i \in 1 .. Len(log) : log'[i] = log[i] /\ req'[log[i]] = req[log[i]]
  BY <1>0, LogType DEF LossInv, LogAnswered
<1>2. ASSUME NEW s2, NEW h2, NEW n2 \in 0 .. Len(log), Recalls(h2, s2, n2)
      PROVE  Recalls(h2, s2, n2)'
  BY <1>0, <1>1, <1>2, RecallsKept
<1>3. SessionsTrue'
  <2> SUFFICES ASSUME NEW t \in Session
               PROVE  Recalls(sessions[t], t, Len(log))'
    BY DEF SessionsTrue
  <2>1. PICK g, l : g = sessions[t] /\ l = Len(log)
    OBVIOUS
  <2>2. Recalls(g, t, l)'
    BY <1>0, <1>2, <2>1, HistoriesAre
  <2>3. g = sessions'[t] /\ l = Len(log')
    BY <2>1
  <2>4. QED
    BY <2>2, <2>3 DEF Recalls
<1>4. PastsTrue'
  <2> SUFFICES ASSUME NEW q \in Request, req'[q] # Nothing, req'[q].at \in Running
               PROVE  Recalls(req[q].past, req[q].session, req[q].began)'
    BY DEF PastsTrue, Running
  <2>1. CASE q = r
    <3>1. Recalls(h, s, n)'
      BY <1>2
    <3>2. QED
      BY <2>1, <3>1 DEF Recalls
  <2>2. CASE q # r
    <3>1. PICK g, t, l : g = req[q].past /\ t = req[q].session /\ l = req[q].began
      OBVIOUS
    <3>2. req'[q] = req[q] /\ Begun(req[q])
      BY <2>2 DEF TypeInv, RequestsBegun
    <3>3. l \in 0 .. Len(log) /\ Recalls(g, t, l)
      BY <3>1, <3>2, HistoriesAre DEF Begun
    <3>4. Recalls(g, t, l)'
      BY <1>2, <3>3
    <3>5. g = req'[q].past /\ t = req'[q].session /\ l = req'[q].began
      BY <3>1, <3>2
    <3>6. QED
      BY <3>4, <3>5 DEF Recalls
  <2>3. QED
    BY <2>1, <2>2
<1>5. QED
  BY <1>3, <1>4 DEF HistoryInv

LEMMA HistoryStep == TypeInv /\ LossInv /\ HistoryInv /\ [Next]_vars => HistoryInv'
<1> SUFFICES ASSUME TypeInv, LossInv, HistoryInv, [Next]_vars
             PROVE  HistoryInv'
  OBVIOUS
<1>0. Len(log) \in Nat /\ \A i \in 1 .. Len(log) : log[i] \in Request
  BY LogType
<1>1. CASE UNCHANGED <<sessions, req, log>>
  BY <1>1 DEF HistoryInv, PastsTrue, SessionsTrue, Recalls
<1>2. ASSUME NEW r \in Request, Begin(r)
      PROVE  HistoryInv'
  <2>1. PICK s, h, n : s = req'[r].session /\ h = sessions[s] /\ n = Len(log)
    OBVIOUS
  <2>2. s \in Session /\ req'[r].past = h /\ req'[r].began = n /\ n \in 0 .. Len(log)
    BY <1>0, <1>2, <2>1, BeginTakes
  <2>3. Recalls(h, s, n)
    BY <2>1, <2>2, HistoriesAre
  <2>4. QED
    BY <1>2, <2>1, <2>2, <2>3, BeginTakes, NothingIsNew, HistoriesKept
<1>3. ASSUME NEW r \in Request, NEW to \in Running \union {"failed"},
             Goes(r, Running, to), UNCHANGED <<sessions, log>>
      PROVE  HistoryInv'
  <2>1. /\ req[r].at \in Running
        /\ \A q \in Request \ {r} : req'[q] = req[q]
        /\ req'[r].session = req[r].session
        /\ req'[r].began = req[r].began
        /\ req'[r].past = req[r].past
    BY <1>3 DEF Goes, Base
  <2>2. req[r] # Nothing /\ Begun(req[r])
    BY <2>1, NothingIsNew DEF TypeInv, RequestsBegun, Running
  <2>3. PICK s, h, n : s = req[r].session /\ h = req[r].past /\ n = req[r].began
    OBVIOUS
  <2>4. n \in 0 .. Len(log) /\ Recalls(h, s, n)
    BY <2>1, <2>2, <2>3, HistoriesAre DEF Begun
  <2>5. req[r].at # "answered"
    BY <2>1 DEF Running
  <2>6. QED
    BY <1>3, <2>1, <2>3, <2>4, <2>5, HistoriesKept
<1>4. ASSUME NEW r \in Request, Answer(r), Goes(r, {"agent"}, "answered")
      PROVE  HistoryInv'
  <2>1. PICK s, h, n, last : /\ s = req[r].session /\ h = req[r].past
                             /\ n = req[r].began /\ last = Len(log) + 1
    OBVIOUS
  <2>2. /\ req[r].at = "agent" /\ req'[r].at = "answered"
        /\ \A q \in Request \ {r} : req'[q] = req[q]
        /\ req'[r].session = s
    BY <1>4, <2>1 DEF Goes, Base
  <2>3. req[r] # Nothing /\ Begun(req[r])
    BY <2>2, NothingIsNew DEF TypeInv, RequestsBegun
  <2>4. h \in Seq(Request) /\ n \in 0 .. Len(log) /\ Recalls(h, s, n) /\ s \in Session
    BY <2>1, <2>2, <2>3, HistoriesAre DEF Begun, Running
  <2>5. /\ sessions' = [sessions EXCEPT ![s] = Append(h, r)]
        /\ log' = Append(log, r)
    BY <1>4, <2>1 DEF Answer
  <2>6. /\ Len(log') = last /\ log'[last] = r /\ last \in Nat
        /\ \A i \in 1 .. Len(log) : log'[i] = log[i]
    BY <1>0, <2>1, <2>5, LogType DEF TypeInv, TypeOK
  <2>7. \A i \in 1 .. Len(log) : log[i] # r /\ req'[log[i]] = req[log[i]]
    BY <1>0, <2>2, LogType DEF LossInv, LogAnswered
  <2>8. Recalls(Append(h, r), s, last)'
    BY <2>1, <2>2, <2>4, <2>6, <2>7, RecallsMore
  <2>9. ASSUME NEW s2, NEW h2, NEW n2 \in 0 .. Len(log), Recalls(h2, s2, n2),
               NEW m \in Nat, n2 <= m
        PROVE  Recalls(h2, s2, m)'
    BY <2>6, <2>7, <2>9, RecallsKept
  <2>10. SessionsTrue'
    <3> SUFFICES ASSUME NEW t \in Session
                 PROVE  Recalls(sessions[t], t, Len(log))'
      BY DEF SessionsTrue
    <3>1. CASE t = s
      <4>1. sessions'[t] = Append(h, r)
        BY <2>4, <2>5, <3>1 DEF TypeInv, TypeOK
      <4>2. QED
        BY <2>6, <2>8, <3>1, <4>1 DEF Recalls
    <3>2. CASE t # s
      <4>1. PICK g, l : g = sessions[t] /\ l = Len(log)
        OBVIOUS
      <4>2. g = sessions'[t]
        BY <2>4, <2>5, <3>2, <4>1 DEF TypeInv, TypeOK
      <4>3. l \in 0 .. Len(log) /\ l <= last /\ Recalls(g, t, l)
        BY <1>0, <2>1, <4>1, HistoriesAre
      <4>4. Recalls(g, t, last)'
        BY <2>6, <2>9, <4>3
      <4>5. QED
        BY <2>6, <4>2, <4>4 DEF Recalls
    <3>3. QED
      BY <3>1, <3>2
  <2>11. PastsTrue'
    <3> SUFFICES ASSUME NEW q \in Request, req'[q] # Nothing, req'[q].at \in Running
                 PROVE  Recalls(req[q].past, req[q].session, req[q].began)'
      BY DEF PastsTrue, Running
    <3>1. q # r
      BY <2>2 DEF Running
    <3>2. PICK g, t, l : g = req[q].past /\ t = req[q].session /\ l = req[q].began
      OBVIOUS
    <3>3. req'[q] = req[q] /\ Begun(req[q])
      BY <2>2, <3>1 DEF TypeInv, RequestsBegun
    <3>4. l \in 0 .. Len(log) /\ l \in Nat /\ Recalls(g, t, l)
      BY <1>0, <3>2, <3>3, HistoriesAre DEF Begun
    <3>5. Recalls(g, t, l)'
      BY <2>9, <3>4
    <3>6. g = req'[q].past /\ t = req'[q].session /\ l = req'[q].began
      BY <3>2, <3>3
    <3>7. QED
      BY <3>5, <3>6 DEF Recalls
  <2>12. QED
    BY <2>10, <2>11 DEF HistoryInv
<1>5. ASSUME NEW r \in Request,
             \/ CallTool(r) \/ SearchEs(r) \/ SearchQdr(r) \/ Fuse(r) \/ Hydrate(r)
             \/ Answer(r) \/ Fail(r)
      PROVE  HistoryInv'
  BY <1>3, <1>4, <1>5, RequestStep
<1>6. CASE Convert \/ IndexChunks \/ UNCHANGED vars
  BY <1>1, <1>6 DEF Convert, IndexChunks, vars
<1>7. QED
  BY <1>2, <1>5, <1>6 DEF Next

\* Every exception leaves the histories alone, and an answer adds its turn to
\* the history that its request was given: what is in a history was answered,
\* in that session and in that order.
THEOREM HistoriesAreTrue == Spec => []SessionsTrue
<1>1. ASSUME Init
      PROVE  LossInv /\ HistoryInv
  <2>1. /\ DOMAIN log = {} /\ \A r \in Request : req[r] = Nothing
        /\ \A s \in Session : sessions[s] = <<>>
    BY <1>1, EmptySeq, LenProperties DEF Init
  <2>2. LossInv /\ PastsTrue
    BY <2>1 DEF LossInv, LogAnswered, PastsExplained, LostOnlyToOverlap, PastsTrue
  <2>3. \A n : [i \in {} |-> 0] \in [{} -> 1 .. n]
    OBVIOUS
  <2>4. DOMAIN <<>> = {}
    OBVIOUS
  <2>5. SessionsTrue
    BY <2>1, <2>3, <2>4 DEF SessionsTrue, Recalls
  <2>6. QED
    BY <2>2, <2>5 DEF HistoryInv
<1>2. HistoryInv => SessionsTrue
  BY DEF HistoryInv
<1>3. QED
  BY TypeInit, TypeStep, <1>1, LossStep, HistoryStep, <1>2, PTL DEF Spec

-----------------------------------------------------------------------------
(* A finite set in order.                                                  *)

StrictTotal(S, R) ==
  /\ \A x, y \in S : <<x, y>> \in R => x # y
  /\ \A x, y \in S : x = y \/ <<x, y>> \in R \/ <<y, x>> \in R
  /\ \A x, y, z \in S : <<x, y>> \in R /\ <<y, z>> \in R => <<x, z>> \in R

LEMMA UpToIsFinite ==
  ASSUME NEW n \in Nat
  PROVE  IsFiniteSet(1 .. n) /\ Cardinality(1 .. n) = n
<1>1. Cardinality(1 .. n) = IF 1 > n THEN 0 ELSE n - 1 + 1
  BY FS_Interval
<1>2. QED
  BY <1>1, FS_Interval

\* An element has fewer before it than every element behind it, so that the
\* numbers of elements before one are all those below the size of the set.
LEMMA InOrderLists ==
  ASSUME NEW S, IsFiniteSet(S), NEW R, StrictTotal(S, R)
  PROVE  /\ Cardinality(S) \in Nat
         /\ InOrder(S, R) \in [1 .. Cardinality(S) -> S]
         /\ Range(InOrder(S, R)) = S
         /\ \A i, j \in 1 .. Cardinality(S) :
              i < j => <<InOrder(S, R)[i], InOrder(S, R)[j]>> \in R
<1> DEFINE before(x) == {y \in S : <<y, x>> \in R}
           n == Cardinality(S)
           count == [x \in S |-> Cardinality(before(x))]
           f == InOrder(S, R)
<1>1. n \in Nat
  BY FS_CardinalityType
<1>2. ASSUME NEW x \in S
      PROVE  /\ IsFiniteSet(before(x))
             /\ count[x] = Cardinality(before(x))
             /\ count[x] \in 0 .. n - 1
             /\ count[x] \in Int
  <2>1. before(x) \in SUBSET S /\ x \notin before(x)
    BY DEF StrictTotal
  <2>2. IsFiniteSet(before(x)) /\ Cardinality(before(x)) <= n /\ before(x) # S
    BY <1>2, <2>1, FS_Subset
  <2>3. Cardinality(before(x)) # n
    BY <2>1, <2>2, FS_Subset
  <2>4. Cardinality(before(x)) \in Nat
    BY <2>2, FS_CardinalityType
  <2>5. QED
    BY <1>1, <2>2, <2>3, <2>4
<1> HIDE DEF n, count, before
<1>3. ASSUME NEW x \in S, NEW y \in S, <<x, y>> \in R
      PROVE  count[x] < count[y]
  <2>1. before(x) \in SUBSET before(y)
    BY <1>3 DEF StrictTotal, before
  <2>2. x \in before(y) /\ x \notin before(x)
    BY <1>3 DEF StrictTotal, before
  <2>3. /\ Cardinality(before(x)) <= Cardinality(before(y))
        /\ Cardinality(before(x)) # Cardinality(before(y))
    BY <1>2, <2>1, <2>2, FS_Subset
  <2>4. QED
    BY <1>2, <2>3
<1>4. \A x, y \in S : count[x] = count[y] => x = y
  <2> SUFFICES ASSUME NEW x \in S, NEW y \in S, count[x] = count[y], x # y
               PROVE  FALSE
    OBVIOUS
  <2>1. count[x] \in Int /\ count[y] \in Int
    BY <1>1, <1>2
  <2>2. <<x, y>> \in R \/ <<y, x>> \in R
    BY DEF StrictTotal
  <2>3. count[x] < count[y] \/ count[y] < count[x]
    BY <1>3, <2>2
  <2>4. QED
    BY <2>1, <2>3
<1>5. \A m \in 0 .. n - 1 : \E x \in S : count[x] = m
  <2>1. count \in [S -> 0 .. n - 1]
    BY <1>2 DEF count
  <2>2. count \in Injection(S, 0 .. n - 1)
    BY <1>4, <2>1, Fun_IsInj
  <2>3. IsFiniteSet(0 .. n - 1) /\ Cardinality(0 .. n - 1) = n
    BY <1>1, FS_Interval
  <2>4. Cardinality(S) = n
    BY DEF n
  <2>5. count \in Surjection(S, 0 .. n - 1)
    BY <2>2, <2>3, <2>4, FS_Injection
  <2>6. QED
    BY <2>5, Fun_SurjectionProperties
<1>6. ASSUME NEW i \in 1 .. n
      PROVE  f[i] \in S /\ count[f[i]] = i - 1
  <2>1. i - 1 \in 0 .. n - 1
    BY <1>1
  <2>2. \E x \in S : Cardinality(before(x)) = i - 1
    BY <1>5, <2>1 DEF count
  <2>3. f[i] = CHOOSE x \in S : Cardinality(before(x)) = i - 1
    BY <1>6 DEF InOrder, n, before
  <2>4. f[i] \in S /\ Cardinality(before(f[i])) = i - 1
    BY <2>2, <2>3
  <2>5. QED
    BY <2>4 DEF count
<1>7. f \in [1 .. n -> S]
  <2>1. f = [i \in 1 .. n |-> CHOOSE x \in S : Cardinality(before(x)) = i - 1]
    BY DEF InOrder, n, before
  <2>2. QED
    BY <1>6, <2>1
<1> HIDE DEF f
<1>8. Range(f) = S
  <2>1. ASSUME NEW x \in S
        PROVE  \E i \in 1 .. n : f[i] = x
    <3>1. count[x] + 1 \in 1 .. n /\ count[x] \in Int
      BY <1>1, <1>2
    <3>2. f[count[x] + 1] \in S /\ count[f[count[x] + 1]] = count[x]
      BY <1>6, <3>1
    <3>3. QED
      BY <1>4, <3>1, <3>2
  <2>2. QED
    BY <1>7, <2>1 DEF Range
<1>9. ASSUME NEW i \in 1 .. n, NEW j \in 1 .. n, i < j
      PROVE  <<f[i], f[j]>> \in R
  <2>1. f[i] \in S /\ f[j] \in S /\ count[f[i]] = i - 1 /\ count[f[j]] = j - 1
    BY <1>6
  <2>2. f[i] # f[j]
    BY <1>1, <1>9, <2>1
  <2>3. ~(<<f[j], f[i]>> \in R)
    <3>1. SUFFICES ASSUME <<f[j], f[i]>> \in R
                   PROVE  FALSE
      OBVIOUS
    <3>2. count[f[j]] < count[f[i]]
      BY <1>3, <2>1, <3>1
    <3>3. QED
      BY <1>1, <1>9, <2>1, <3>2
  <2>4. QED
    BY <2>1, <2>2, <2>3 DEF StrictTotal
<1>10. QED
  BY <1>1, <1>7, <1>8, <1>9 DEF f, n
-----------------------------------------------------------------------------
(* Fractions.                                                              *)

Fraction == [num : Nat, den : Nat \ {0}]

LEMMA TimesMonotone ==
  ASSUME NEW a \in Int, NEW b \in Int, NEW c \in Nat \ {0}
  PROVE  (a > b <=> a * c > b * c) /\ (a >= b <=> a * c >= b * c)
OBVIOUS

\* If y does not exceed x and z does not exceed y, z does not exceed x.
LEMMA NotExceeded ==
  ASSUME NEW x \in Fraction, NEW y \in Fraction, NEW z \in Fraction,
         ~Exceeds(y, x), ~Exceeds(z, y)
  PROVE  ~Exceeds(z, x)
<1> DEFINE a == x.num  b == x.den  c == y.num  d == y.den  e == z.num  f == z.den
<1>1. /\ a \in Int /\ c \in Int /\ e \in Int
      /\ b \in Nat \ {0} /\ d \in Nat \ {0} /\ f \in Nat \ {0}
  BY DEF Fraction
<1>2. a * d >= c * b /\ c * f >= e * d
  BY <1>1 DEF Exceeds
<1> SUFFICES a * f >= e * b
  BY <1>1 DEF Exceeds
<1> HIDE DEF a, b, c, d, e, f
<1>3. (a * d) * f >= (c * b) * f
  BY <1>1, <1>2, TimesMonotone
<1>4. (c * f) * b >= (e * d) * b
  BY <1>1, <1>2, TimesMonotone
<1>5. /\ (a * d) * f = (a * f) * d
      /\ (c * b) * f = (c * f) * b
      /\ (e * d) * b = (e * b) * d
  BY <1>1
<1>6. (a * f) * d >= (e * b) * d
  BY <1>1, <1>3, <1>4, <1>5
<1>7. QED
  BY <1>1, <1>6, TimesMonotone

\* A sum exceeds another if one summand exceeds and the other is not exceeded.
LEMMA PlusExceeds ==
  ASSUME NEW x \in Fraction, NEW y \in Fraction, NEW u \in Fraction, NEW v \in Fraction
  PROVE  /\ Plus(x, y) \in Fraction
         /\ Exceeds(x, u) /\ ~Exceeds(v, y) => Exceeds(Plus(x, y), Plus(u, v))
         /\ Exceeds(y, v) /\ ~Exceeds(u, x) => Exceeds(Plus(x, y), Plus(u, v))
<1> DEFINE xn == x.num  xd == x.den  yn == y.num  yd == y.den
           un == u.num  ud == u.den  vn == v.num  vd == v.den
<1>1. /\ xn \in Nat /\ yn \in Nat /\ un \in Nat /\ vn \in Nat
      /\ xd \in Nat \ {0} /\ yd \in Nat \ {0} /\ ud \in Nat \ {0} /\ vd \in Nat \ {0}
  BY DEF Fraction
<1>2. /\ Plus(x, y) = [num |-> xn * yd + yn * xd, den |-> xd * yd]
      /\ Plus(u, v) = [num |-> un * vd + vn * ud, den |-> ud * vd]
  BY DEF Plus
<1>3. /\ Exceeds(x, u) <=> xn * ud > un * xd
      /\ Exceeds(y, v) <=> yn * vd > vn * yd
      /\ Exceeds(u, x) <=> un * xd > xn * ud
      /\ Exceeds(v, y) <=> vn * yd > yn * vd
      /\ Exceeds(Plus(x, y), Plus(u, v)) <=>
           (xn * yd + yn * xd) * (ud * vd) > (un * vd + vn * ud) * (xd * yd)
  BY <1>2 DEF Exceeds
<1> HIDE DEF xn, xd, yn, yd, un, ud, vn, vd
<1>4. /\ xn * yd + yn * xd \in Nat /\ xd * yd \in Nat \ {0}
      /\ yd * vd \in Nat \ {0} /\ xd * ud \in Nat \ {0}
      /\ xn * ud \in Int /\ un * xd \in Int /\ yn * vd \in Int /\ vn * yd \in Int
  BY <1>1
<1>5. /\ (xn * yd + yn * xd) * (ud * vd) = (xn * ud) * (yd * vd) + (yn * vd) * (xd * ud)
      /\ (un * vd + vn * ud) * (xd * yd) = (un * xd) * (yd * vd) + (vn * yd) * (xd * ud)
  BY <1>1
<1>6. Plus(x, y) \in Fraction
  BY <1>2, <1>4 DEF Fraction
<1> DEFINE p == xn * ud  q == un * xd  r == yn * vd  s == vn * yd
           g == yd * vd  h == xd * ud
<1>7. /\ p > q /\ ~(s > r) => p * g + r * h > q * g + s * h
      /\ r > s /\ ~(q > p) => p * g + r * h > q * g + s * h
  <2>1. p \in Int /\ q \in Int /\ r \in Int /\ s \in Int /\ g \in Nat \ {0} /\ h \in Nat \ {0}
    BY <1>4
  <2> HIDE DEF p, q, r, s, g, h
  <2>2. /\ p > q <=> p * g > q * g
        /\ r > s <=> r * h > s * h
        /\ p >= q <=> p * g >= q * g
        /\ r >= s <=> r * h >= s * h
    BY <2>1, TimesMonotone
  <2>3. p * g \in Int /\ q * g \in Int /\ r * h \in Int /\ s * h \in Int
    BY <2>1
  <2>4. QED
    BY <2>1, <2>2, <2>3
<1>8. QED
  BY <1>3, <1>5, <1>6, <1>7
-----------------------------------------------------------------------------
(* Ranks and scores.                                                       *)

LEMMA RankType ==
  ASSUME NEW S, NEW list \in Seq(S), NEW id
  PROVE  /\ RankIn(list, id) \in 0 .. Len(list)
         /\ RankIn(list, id) > 0 <=> id \in Range(list)
         /\ RankIn(list, id) > 0 => list[RankIn(list, id)] = id
<1> DEFINE at == {n \in DOMAIN list : list[n] = id}
<1>1. DOMAIN list = 1 .. Len(list) /\ Len(list) \in Nat
  BY LenProperties
<1>2. RankIn(list, id) = IF at = {} THEN 0 ELSE CHOOSE n \in at : TRUE
  BY DEF RankIn
<1>3. at # {} <=> id \in Range(list)
  BY DEF Range
<1>4. CASE at = {}
  <2>1. RankIn(list, id) = 0
    BY <1>2, <1>4
  <2>2. QED
    BY <1>1, <1>3, <1>4, <2>1
<1>5. CASE at # {}
  <2>1. RankIn(list, id) \in at
    BY <1>2, <1>5
  <2>2. RankIn(list, id) \in 1 .. Len(list) /\ list[RankIn(list, id)] = id
    BY <1>1, <2>1
  <2>3. QED
    BY <1>1, <1>3, <1>5, <2>2
<1>6. QED
  BY <1>4, <1>5

\* A better rank is a greater share.
LEMMA ShareFollowsRank ==
  ASSUME NEW S, NEW list \in Seq(S), NEW a, NEW b, NEW w \in Nat \ {0}
  PROVE  /\ Share(w, list, a) \in Fraction
         /\ Above(list, a, b) => Exceeds(Share(w, list, a), Share(w, list, b))
         /\ ~Above(list, b, a) => ~Exceeds(Share(w, list, b), Share(w, list, a))
<1> DEFINE ra == RankIn(list, a)  rb == RankIn(list, b)
<1>1. ra \in Nat /\ rb \in Nat
  BY RankType, LenProperties
<1>2. /\ Share(w, list, a) = [num |-> IF ra = 0 THEN 0 ELSE w, den |-> 60 + ra]
      /\ Share(w, list, b) = [num |-> IF rb = 0 THEN 0 ELSE w, den |-> 60 + rb]
  BY DEF Share, k
<1>3. Above(list, a, b) <=> ra > 0 /\ (rb = 0 \/ ra < rb)
  BY DEF Above
<1>4. Above(list, b, a) <=> rb > 0 /\ (ra = 0 \/ rb < ra)
  BY DEF Above
<1> HIDE DEF ra, rb
<1>5. Share(w, list, a) \in Fraction
  BY <1>1, <1>2 DEF Fraction
<1>6. /\ ra < rb <=> w * (60 + ra) < w * (60 + rb)
      /\ rb < ra <=> w * (60 + rb) < w * (60 + ra)
      /\ w * (60 + ra) > 0 /\ w * (60 + rb) > 0
      /\ 0 * (60 + ra) = 0 /\ 0 * (60 + rb) = 0
  BY <1>1
<1>7. Exceeds(Share(w, list, a), Share(w, list, b)) <=>
        (IF ra = 0 THEN 0 ELSE w) * (60 + rb) > (IF rb = 0 THEN 0 ELSE w) * (60 + ra)
  BY <1>2 DEF Exceeds
<1>8. Exceeds(Share(w, list, b), Share(w, list, a)) <=>
        (IF rb = 0 THEN 0 ELSE w) * (60 + ra) > (IF ra = 0 THEN 0 ELSE w) * (60 + rb)
  BY <1>2 DEF Exceeds
<1>9. CASE ra = 0 /\ rb = 0
  BY <1>3, <1>4, <1>5, <1>7, <1>8, <1>9
<1>10. CASE ra = 0 /\ rb # 0
  BY <1>1, <1>3, <1>4, <1>5, <1>6, <1>7, <1>8, <1>10
<1>11. CASE ra # 0 /\ rb = 0
  BY <1>1, <1>3, <1>4, <1>5, <1>6, <1>7, <1>8, <1>11
<1>12. CASE ra # 0 /\ rb # 0
  BY <1>1, <1>3, <1>4, <1>5, <1>6, <1>7, <1>8, <1>12
<1>13. QED
  BY <1>9, <1>10, <1>11, <1>12

\* An id that one search puts above another, and the other search does not put
\* below it, has the greater score.
LEMMA ScoreFollowsRanks ==
  ASSUME NEW S, NEW e \in Seq(S), NEW q \in Seq(S), NEW trusted \in BOOLEAN, NEW a, NEW b
  PROVE  /\ Score(e, q, trusted, a) \in Fraction
         /\ Above(e, a, b) /\ ~Above(q, b, a) =>
              Exceeds(Score(e, q, trusted, a), Score(e, q, trusted, b))
         /\ Above(q, a, b) /\ ~Above(e, b, a) =>
              Exceeds(Score(e, q, trusted, a), Score(e, q, trusted, b))
<1> DEFINE w == Weights(trusted)
<1>1. w.es \in Nat \ {0} /\ w.qdr \in Nat \ {0}
  BY DEF Weights
<1>2. \A id : Score(e, q, trusted, id) = Plus(Share(w.es, e, id), Share(w.qdr, q, id))
  BY DEF Score
<1> HIDE DEF w
<1>3. /\ Share(w.es, e, a) \in Fraction /\ Share(w.es, e, b) \in Fraction
      /\ Share(w.qdr, q, a) \in Fraction /\ Share(w.qdr, q, b) \in Fraction
  BY <1>1, ShareFollowsRank
<1>4. Plus(Share(w.es, e, a), Share(w.qdr, q, a)) \in Fraction
  BY <1>3, PlusExceeds
<1>5. ASSUME Above(e, a, b), ~Above(q, b, a)
      PROVE  Exceeds(Score(e, q, trusted, a), Score(e, q, trusted, b))
  <2>1. /\ Exceeds(Share(w.es, e, a), Share(w.es, e, b))
        /\ ~Exceeds(Share(w.qdr, q, b), Share(w.qdr, q, a))
    BY <1>1, <1>5, ShareFollowsRank
  <2>2. QED
    BY <1>2, <1>3, <2>1, PlusExceeds
<1>6. ASSUME Above(q, a, b), ~Above(e, b, a)
      PROVE  Exceeds(Score(e, q, trusted, a), Score(e, q, trusted, b))
  <2>1. /\ Exceeds(Share(w.qdr, q, a), Share(w.qdr, q, b))
        /\ ~Exceeds(Share(w.es, e, b), Share(w.es, e, a))
    BY <1>1, <1>6, ShareFollowsRank
  <2>2. QED
    BY <1>2, <1>3, <2>1, PlusExceeds
<1>7. QED
  BY <1>2, <1>4, <1>5, <1>6

\* Different ids entered the dictionary at different times.
LEMMA EnteredOnce ==
  ASSUME NEW S, NEW e \in Seq(S), NEW q \in Seq(S),
         NEW a \in Range(e) \union Range(q), NEW b \in Range(e) \union Range(q)
  PROVE  /\ Entered(e, q, a) \in Nat
         /\ Entered(e, q, a) = Entered(e, q, b) => a = b
<1> DEFINE ea == RankIn(e, a)  eb == RankIn(e, b)  qa == RankIn(q, a)  qb == RankIn(q, b)
<1>1. /\ Len(e) \in Nat /\ Len(q) \in Nat
      /\ ea \in 0 .. Len(e) /\ eb \in 0 .. Len(e)
      /\ qa \in 0 .. Len(q) /\ qb \in 0 .. Len(q)
  BY RankType, LenProperties
<1>2. /\ ea > 0 => e[ea] = a
      /\ eb > 0 => e[eb] = b
      /\ ~(ea > 0) => qa > 0 /\ q[qa] = a
      /\ ~(eb > 0) => qb > 0 /\ q[qb] = b
  BY RankType
<1>3. /\ Entered(e, q, a) = IF ea > 0 THEN ea ELSE Len(e) + qa
      /\ Entered(e, q, b) = IF eb > 0 THEN eb ELSE Len(e) + qb
  BY DEF Entered
<1> HIDE DEF ea, eb, qa, qb
<1>4. Entered(e, q, a) \in Nat
  BY <1>1, <1>3
<1>5. ASSUME Entered(e, q, a) = Entered(e, q, b)
      PROVE  a = b
  <2>1. CASE ea > 0 /\ eb > 0
    BY <1>2, <1>3, <1>5, <2>1
  <2>2. CASE ~(ea > 0) /\ ~(eb > 0)
    <3>1. qa = qb
      BY <1>1, <1>3, <1>5, <2>2
    <3>2. QED
      BY <1>2, <2>2, <3>1
  <2>3. CASE (ea > 0) # (eb > 0)
    BY <1>1, <1>2, <1>3, <1>5, <2>3
  <2>4. QED
    BY <2>1, <2>2, <2>3
<1>6. QED
  BY <1>4, <1>5
\* The ids of both searches, each before those that it precedes.
LEMMA FusedLists ==
  ASSUME NEW S, NEW e \in Seq(S), NEW q \in Seq(S), NEW trusted \in BOOLEAN
  PROVE  /\ Fused(e, q, trusted) \in Seq(S)
         /\ Range(Fused(e, q, trusted)) = Range(e) \union Range(q)
         /\ \A i, j \in DOMAIN Fused(e, q, trusted) :
              i < j => /\ Fused(e, q, trusted)[i] # Fused(e, q, trusted)[j]
                       /\ Precedes(e, q, trusted, Fused(e, q, trusted)[i],
                                   Fused(e, q, trusted)[j])
<1> DEFINE ids == Range(e) \union Range(q)
           R == {p \in ids \X ids : Precedes(e, q, trusted, p[1], p[2])}
           f == InOrder(ids, R)
           score(a) == Score(e, q, trusted, a)
           entered(a) == Entered(e, q, a)
<1>1. ids \subseteq S /\ IsFiniteSet(ids)
  <2>1. /\ e \in Surjection(1 .. Len(e), Range(e)) /\ Len(e) \in Nat /\ Range(e) \subseteq S
        /\ q \in Surjection(1 .. Len(q), Range(q)) /\ Len(q) \in Nat /\ Range(q) \subseteq S
    BY LenProperties, Fun_RangeProperties
  <2>2. IsFiniteSet(1 .. Len(e)) /\ IsFiniteSet(1 .. Len(q))
    BY <2>1, FS_Interval
  <2>3. IsFiniteSet(Range(e)) /\ IsFiniteSet(Range(q))
    BY <2>1, <2>2, FS_Surjection
  <2>4. QED
    BY <2>1, <2>3, FS_Union
<1>2. \A a \in ids : score(a) \in Fraction /\ entered(a) \in Nat
  BY ScoreFollowsRanks, EnteredOnce
<1>3. \A a, b \in ids : entered(a) = entered(b) => a = b
  BY EnteredOnce
<1>4. \A a, b \in ids : Exceeds(score(a), score(b)) => ~Exceeds(score(b), score(a))
  <2>1. \A x, y \in Fraction : Exceeds(x, y) => ~Exceeds(y, x)
    <3> SUFFICES ASSUME NEW x \in Fraction, NEW y \in Fraction, Exceeds(x, y)
                 PROVE  ~Exceeds(y, x)
      OBVIOUS
    <3>1. x.num * y.den \in Int /\ y.num * x.den \in Int
      BY DEF Fraction
    <3>2. QED
      BY <3>1 DEF Exceeds
  <2>2. QED
    BY <1>2, <2>1
<1>5. \A a, b, c \in ids :
        ~Exceeds(score(b), score(a)) /\ ~Exceeds(score(c), score(b))
          => ~Exceeds(score(c), score(a))
  BY <1>2, NotExceeded
<1>6. \A a, b \in ids : <<a, b>> \in R <=>
        \/ Exceeds(score(a), score(b))
        \/ ~Exceeds(score(b), score(a)) /\ entered(a) < entered(b)
  BY DEF Precedes
<1>7. R = {p \in ids \X ids : <<p[1], p[2]>> \in R}
  OBVIOUS
<1> HIDE DEF score, entered, R
<1>8. StrictTotal(ids, R)
  <2>1. \A a, b \in ids : <<a, b>> \in R => a # b
    BY <1>2, <1>4, <1>6
  <2>2. \A a, b \in ids : a = b \/ <<a, b>> \in R \/ <<b, a>> \in R
    <3> SUFFICES ASSUME NEW a \in ids, NEW b \in ids, a # b
                 PROVE  <<a, b>> \in R \/ <<b, a>> \in R
      OBVIOUS
    <3>1. entered(a) < entered(b) \/ entered(b) < entered(a)
      BY <1>2, <1>3
    <3>2. QED
      BY <1>6, <3>1
  <2>3. \A a, b, c \in ids : <<a, b>> \in R /\ <<b, c>> \in R => <<a, c>> \in R
    <3> SUFFICES ASSUME NEW a \in ids, NEW b \in ids, NEW c \in ids,
                        <<a, b>> \in R, <<b, c>> \in R
                 PROVE  <<a, c>> \in R
      OBVIOUS
    <3>1. ~Exceeds(score(b), score(a)) /\ ~Exceeds(score(c), score(b))
      BY <1>4, <1>6
    <3>2. ~Exceeds(score(c), score(a))
      BY <1>5, <3>1
    <3>3. CASE Exceeds(score(a), score(c))
      BY <1>6, <3>3
    <3>4. CASE ~Exceeds(score(a), score(c))
      <4>1. ~Exceeds(score(a), score(b)) /\ ~Exceeds(score(b), score(c))
        BY <1>5, <3>1, <3>4
      <4>2. entered(a) < entered(b) /\ entered(b) < entered(c)
        BY <1>6, <4>1
      <4>3. entered(a) < entered(c)
        BY <1>2, <4>2
      <4>4. QED
        BY <1>6, <3>2, <4>3
    <3>5. QED
      BY <3>3, <3>4
  <2>4. QED
    BY <2>1, <2>2, <2>3 DEF StrictTotal
<1>9. /\ Cardinality(ids) \in Nat /\ f \in [1 .. Cardinality(ids) -> ids] /\ Range(f) = ids
      /\ \A i, j \in 1 .. Cardinality(ids) : i < j => <<f[i], f[j]>> \in R
  BY <1>1, <1>8, InOrderLists
<1>10. Fused(e, q, trusted) = f
  BY DEF Fused, R
<1> HIDE DEF f, ids
<1>11. f \in Seq(S) /\ DOMAIN f = 1 .. Cardinality(ids)
  BY <1>1, <1>9
<1>12. \A i, j \in DOMAIN f : i < j => f[i] # f[j] /\ Precedes(e, q, trusted, f[i], f[j])
  <2> SUFFICES ASSUME NEW i \in DOMAIN f, NEW j \in DOMAIN f, i < j
               PROVE  f[i] # f[j] /\ Precedes(e, q, trusted, f[i], f[j])
    OBVIOUS
  <2>1. <<f[i], f[j]>> \in R /\ f[i] \in ids /\ f[j] \in ids
    BY <1>9, <1>11
  <2>2. f[i] # f[j]
    BY <1>8, <2>1 DEF StrictTotal
  <2>3. QED
    BY <2>1, <2>2 DEF R
<1>13. QED
  BY <1>9, <1>10, <1>11, <1>12 DEF ids

\* Precedence agrees with the searches.
LEMMA PrecedesFollowsRanks ==
  ASSUME NEW S, NEW e \in Seq(S), NEW q \in Seq(S), NEW trusted \in BOOLEAN, NEW a, NEW b,
         Precedes(e, q, trusted, a, b)
  PROVE  /\ ~(Above(e, b, a) /\ ~Above(q, a, b))
         /\ ~(Above(q, b, a) /\ ~Above(e, a, b))
<1> DEFINE sa == Score(e, q, trusted, a)  sb == Score(e, q, trusted, b)
<1>1. sa \in Fraction /\ sb \in Fraction
  BY ScoreFollowsRanks
<1>2. ~Exceeds(sb, sa)
  <2>1. Exceeds(sa, sb) \/ ~Exceeds(sb, sa)
    BY DEF Precedes
  <2>2. sa.num * sb.den \in Int /\ sb.num * sa.den \in Int
    BY <1>1 DEF Fraction
  <2>3. QED
    BY <2>1, <2>2 DEF Exceeds
<1>3. QED
  BY <1>2, ScoreFollowsRanks
-----------------------------------------------------------------------------
(* The retrieval tool.                                                     *)

\* What a request has from the searches, and what became of it.
Retrieved(r) ==
  /\ req[r].at = "search" =>
       /\ {"es", "qdr"} \subseteq DOMAIN req[r]
       /\ req[r].es \subseteq Seq(Id) /\ req[r].qdr \subseteq Seq(Id)
  /\ req[r].at = "hydrate" =>
       \E e, q \in Seq(Id), trusted \in BOOLEAN :
         req[r].es = e /\ req[r].qdr = q /\ req[r].fused = Fused(e, q, trusted)

RetrievalInv == (\A r \in Request : Retrieved(r)) /\ RankKept

\* Of the rest of a step: other requests are as they were.
LEMMA OthersKept ==
  ASSUME RetrievalInv, NEW r \in Request, \A q \in Request \ {r} : req'[q] = req[q],
         Retrieved(r)',
         req'[r].at = "agent" => "found" \notin DOMAIN req'[r]
  PROVE  RetrievalInv'
<1>1. \A q \in Request : Retrieved(q)'
  BY DEF RetrievalInv, Retrieved
<1>2. RankKept'
  BY DEF RetrievalInv, RankKept
<1>3. QED
  BY <1>1, <1>2 DEF RetrievalInv

\* The first elements of a list without repetitions keep their ranks.
LEMMA TopKeepsRanks ==
  ASSUME NEW S, NEW f \in Seq(S), \A i, j \in DOMAIN f : i < j => f[i] # f[j],
         NEW n \in Nat
  PROVE  /\ Top(n, f) \in Seq(S) /\ Len(Top(n, f)) <= n
         /\ \A x \in Range(Top(n, f)) : RankIn(Top(n, f), x) = RankIn(f, x)
         /\ \A i \in DOMAIN f : i <= n => f[i] \in Range(Top(n, f))
<1> DEFINE l == IF Len(f) < n THEN Len(f) ELSE n
           t == Top(n, f)
<1>1. /\ Len(f) \in Nat /\ DOMAIN f = 1 .. Len(f)
      /\ l \in Nat /\ l <= n /\ l <= Len(f)
      /\ \A i \in 1 .. l : f[i] \in S
  BY LenProperties
<1>2. t \in Seq(S) /\ Len(t) = l /\ \A i \in 1 .. l : t[i] = f[i]
  <2>1. t = SubSeq(f, 1, l)
    BY DEF Top
  <2>2. /\ SubSeq(f, 1, l) \in Seq(S)
        /\ Len(SubSeq(f, 1, l)) = IF 1 <= l THEN l - 1 + 1 ELSE 0
        /\ \A i \in 1 .. l - 1 + 1 : SubSeq(f, 1, l)[i] = f[1 + i - 1]
    BY <1>1, SubSeqProperties
  <2>3. QED
    BY <1>1, <2>1, <2>2
<1>3. \A i \in 1 .. Len(f) : i <= n => i \in 1 .. l
  BY <1>1
<1> HIDE DEF l, t
<1>4. DOMAIN t = 1 .. l
  BY <1>2, LenProperties
<1>5. ASSUME NEW x \in Range(t)
      PROVE  RankIn(t, x) = RankIn(f, x)
  <2>1. /\ RankIn(t, x) \in 1 .. l /\ t[RankIn(t, x)] = x
    BY <1>1, <1>2, <1>5, RankType
  <2>2. RankIn(t, x) \in DOMAIN f /\ f[RankIn(t, x)] = x
    BY <1>1, <1>2, <2>1
  <2>3. x \in Range(f)
    BY <2>2 DEF Range
  <2>4. RankIn(f, x) \in DOMAIN f /\ f[RankIn(f, x)] = x
    BY <1>1, <2>3, RankType
  <2>5. ~(RankIn(f, x) < RankIn(t, x)) /\ ~(RankIn(t, x) < RankIn(f, x))
    BY <2>2, <2>4
  <2>6. QED
    BY <1>1, <2>2, <2>4, <2>5
<1>6. \A i \in DOMAIN f : i <= n => f[i] \in Range(t)
  BY <1>1, <1>2, <1>3, <1>4 DEF Range
<1>7. QED
  BY <1>1, <1>2, <1>5, <1>6 DEF t

\* The rows of the first ids are in the order of the whole ranking.
LEMMA HydrationKeepsRanks ==
  ASSUME ConstantsOK, NEW S, NEW f \in Seq(S), \A i, j \in DOMAIN f : i < j => f[i] # f[j],
         NEW g, g = RowsOf(Top(TopK, f))
  PROVE  /\ Len(g) <= TopK
         /\ \A i, j \in DOMAIN g : i < j => RankIn(f, g[i]) < RankIn(f, g[j])
         /\ \A i \in DOMAIN f : (i <= TopK /\ f[i] \in rows) => f[i] \in Range(g)
<1> DEFINE t == Top(TopK, f)
           kept == Range(t) \intersect rows
           R == {p \in kept \X kept : RankIn(t, p[1]) < RankIn(t, p[2])}
<1>1. /\ t \in Seq(S) /\ Len(t) <= TopK
      /\ \A x \in Range(t) : RankIn(t, x) = RankIn(f, x)
      /\ \A i \in DOMAIN f : i <= TopK => f[i] \in Range(t)
  BY ConstantsOK, TopKeepsRanks
<1> HIDE DEF t
<1>2. /\ IsFiniteSet(kept) /\ Cardinality(kept) <= TopK
  <2>1. t \in Surjection(1 .. Len(t), Range(t)) /\ Len(t) \in Nat
    BY <1>1, LenProperties, Fun_RangeProperties
  <2>2. IsFiniteSet(1 .. Len(t)) /\ Cardinality(1 .. Len(t)) = Len(t)
    BY <2>1, UpToIsFinite
  <2>3. IsFiniteSet(Range(t)) /\ Cardinality(Range(t)) <= Len(t)
    BY <2>1, <2>2, FS_Surjection
  <2>4. IsFiniteSet(kept) /\ Cardinality(kept) <= Cardinality(Range(t))
    BY <2>3, FS_Subset
  <2>5. Cardinality(kept) \in Nat /\ Cardinality(Range(t)) \in Nat
    BY <2>3, <2>4, FS_CardinalityType
  <2>6. QED
    BY <1>1, <2>1, <2>3, <2>4, <2>5, ConstantsOK DEF ConstantsOK
<1>3. \A a \in kept : RankIn(t, a) \in Nat /\ RankIn(t, a) = RankIn(f, a)
                      /\ RankIn(t, a) > 0 /\ t[RankIn(t, a)] = a
  BY <1>1, RankType, LenProperties
<1>4. \A a, b \in kept : <<a, b>> \in R <=> RankIn(t, a) < RankIn(t, b)
  OBVIOUS
<1>5. RowsOf(t) = InOrder(kept, R)
  BY DEF RowsOf
<1> HIDE DEF kept, R
<1>6. StrictTotal(kept, R)
  <2>1. \A a, b \in kept : RankIn(t, a) = RankIn(t, b) => a = b
    BY <1>3
  <2>2. QED
    BY <1>3, <1>4, <2>1 DEF StrictTotal
<1>7. /\ Cardinality(kept) \in Nat /\ g \in [1 .. Cardinality(kept) -> kept] /\ Range(g) = kept
      /\ \A i, j \in 1 .. Cardinality(kept) : i < j => <<g[i], g[j]>> \in R
  BY <1>2, <1>5, <1>6, InOrderLists DEF t
<1>8. Len(g) = Cardinality(kept) /\ DOMAIN g = 1 .. Cardinality(kept)
  BY <1>7
<1>9. \A i, j \in DOMAIN g : i < j => RankIn(f, g[i]) < RankIn(f, g[j])
  BY <1>3, <1>4, <1>7, <1>8
<1>10. QED
  BY <1>1, <1>2, <1>7, <1>8, <1>9 DEF kept
LEMMA RankingsAreLists ==
  ASSUME ConstantsOK, NEW index, index \subseteq Id, NEW list \in Rankings(index)
  PROVE  list \in Seq(Id)
<1>1. PICK n \in 0 .. 2 * TopK : list \in Injection(1 .. n, index)
  BY DEF Rankings
<1>2. n \in Nat /\ list \in [1 .. n -> Id]
  BY <1>1, ConstantsOK, Fun_InjectionProperties DEF ConstantsOK
<1>3. QED
  BY <1>2

\* What Move leaves of a request.
LEMMA MoveMakes ==
  ASSUME TypeOK, NEW r \in Request, NEW more, Move(r, more)
  PROVE  /\ DOMAIN req'[r] = DOMAIN more \union Base
         /\ \A f \in DOMAIN more : req'[r][f] = more[f]
         /\ \A q \in Request \ {r} : req'[q] = req[q]
BY DEF Move, TypeOK

LEMMA RetrievalStep == TypeInv /\ RetrievalInv /\ [Next]_vars => RetrievalInv'
<1> SUFFICES ASSUME TypeInv, RetrievalInv, [Next]_vars
             PROVE  RetrievalInv'
  OBVIOUS
<1>0. TypeOK /\ es \subseteq Id /\ qdr \subseteq Id
  BY DEF TypeInv, TypeOK
<1>1. CASE UNCHANGED req
  BY <1>1 DEF RetrievalInv, Retrieved, RankKept
<1>2. ASSUME NEW r \in Request, Begin(r)
      PROVE  RetrievalInv'
  <2>1. \A q \in Request \ {r} : req'[q] = req[q]
    BY <1>2, BeginTakes
  <2>2. req'[r].at = "agent" /\ "found" \notin DOMAIN req'[r]
    BY <1>0, <1>2 DEF Begin, TypeOK
  <2>3. QED
    BY <2>1, <2>2, OthersKept DEF Retrieved
<1>3. ASSUME NEW r \in Request, CallTool(r)
      PROVE  RetrievalInv'
  <2> DEFINE more == [at |-> "search", es |-> {}, qdr |-> {}]
  <2>1. /\ DOMAIN req'[r] = {"at", "es", "qdr"} \union Base
        /\ req'[r].at = "search" /\ req'[r].es = {} /\ req'[r].qdr = {}
        /\ \A q \in Request \ {r} : req'[q] = req[q]
    <3>1. Move(r, more)
      BY <1>3 DEF CallTool
    <3>2. QED
      BY <1>0, <3>1, MoveMakes
  <2>2. Retrieved(r)'
    BY <2>1 DEF Retrieved
  <2>3. QED
    BY <2>1, <2>2, OthersKept
<1>4. ASSUME NEW r \in Request, SearchEs(r)
      PROVE  RetrievalInv'
  <2>1. PICK list \in Rankings(es) : Move(r, [req[r] EXCEPT !.es = {list}])
    BY <1>4 DEF SearchEs
  <2>2. /\ req[r].at = "search" /\ {"es", "qdr"} \subseteq DOMAIN req[r]
        /\ req[r].qdr \subseteq Seq(Id)
        /\ "at" \in DOMAIN req[r]
    BY <1>4, NothingIsNew DEF SearchEs, RetrievalInv, Retrieved, TypeInv, RequestsBegun, Begun
  <2>3. /\ {"es", "qdr"} \subseteq DOMAIN req'[r]
        /\ req'[r].at = "search" /\ req'[r].es = {list} /\ req'[r].qdr = req[r].qdr
        /\ \A q \in Request \ {r} : req'[q] = req[q]
    BY <1>0, <2>1, <2>2, MoveMakes
  <2>4. list \in Seq(Id)
    BY <1>0, ConstantsOK, RankingsAreLists
  <2>5. Retrieved(r)'
    BY <2>2, <2>3, <2>4 DEF Retrieved
  <2>6. QED
    BY <2>3, <2>5, OthersKept
<1>5. ASSUME NEW r \in Request, SearchQdr(r)
      PROVE  RetrievalInv'
  <2>1. PICK list \in Rankings(qdr) : Move(r, [req[r] EXCEPT !.qdr = {list}])
    BY <1>5 DEF SearchQdr
  <2>2. /\ req[r].at = "search" /\ {"es", "qdr"} \subseteq DOMAIN req[r]
        /\ req[r].es \subseteq Seq(Id)
        /\ "at" \in DOMAIN req[r]
    BY <1>5, NothingIsNew DEF SearchQdr, RetrievalInv, Retrieved, TypeInv, RequestsBegun, Begun
  <2>3. /\ {"es", "qdr"} \subseteq DOMAIN req'[r]
        /\ req'[r].at = "search" /\ req'[r].qdr = {list} /\ req'[r].es = req[r].es
        /\ \A q \in Request \ {r} : req'[q] = req[q]
    BY <1>0, <2>1, <2>2, MoveMakes
  <2>4. list \in Seq(Id)
    BY <1>0, ConstantsOK, RankingsAreLists
  <2>5. Retrieved(r)'
    BY <2>2, <2>3, <2>4 DEF Retrieved
  <2>6. QED
    BY <2>3, <2>5, OthersKept
<1>6. ASSUME NEW r \in Request, Fuse(r)
      PROVE  RetrievalInv'
  <2>1. PICK e \in req[r].es, q \in req[r].qdr : \E trusted \in Trust(e) :
          Move(r, [at |-> "hydrate", es |-> e, qdr |-> q, fused |-> Fused(e, q, trusted)])
    BY <1>6 DEF Fuse
  <2>0. PICK trusted \in Trust(e) :
          Move(r, [at |-> "hydrate", es |-> e, qdr |-> q, fused |-> Fused(e, q, trusted)])
    BY <2>1
  <2>2. e \in Seq(Id) /\ q \in Seq(Id)
    BY <1>6, <2>1 DEF Fuse, RetrievalInv, Retrieved
  <2>3. trusted \in BOOLEAN
    BY DEF Trust
  <2>4. /\ req'[r].at = "hydrate" /\ req'[r].es = e /\ req'[r].qdr = q
        /\ req'[r].fused = Fused(e, q, trusted)
        /\ \A p \in Request \ {r} : req'[p] = req[p]
    BY <1>0, <2>0, MoveMakes
  <2>5. Retrieved(r)'
    BY <2>2, <2>3, <2>4 DEF Retrieved
  <2>6. QED
    BY <2>4, <2>5, OthersKept
<1>7. ASSUME NEW r \in Request, Hydrate(r)
      PROVE  RetrievalInv'
  <2>1. PICK f, g : f = req[r].fused /\ g = RowsOf(Top(TopK, f))
    OBVIOUS
  <2>2. Move(r, [at |-> "agent", fused |-> f, found |-> g, rows |-> rows])
    BY <1>7, <2>1 DEF Hydrate
  <2>3. f \in Seq(Id) /\ \A i, j \in DOMAIN f : i < j => f[i] # f[j]
    <3>1. PICK e \in Seq(Id), q \in Seq(Id), trusted \in BOOLEAN : f = Fused(e, q, trusted)
      BY <1>7, <2>1 DEF Hydrate, RetrievalInv, Retrieved
    <3>2. QED
      BY <3>1, FusedLists
  <2>4. /\ Len(g) <= TopK
        /\ \A i, j \in DOMAIN g : i < j => RankIn(f, g[i]) < RankIn(f, g[j])
        /\ \A i \in DOMAIN f : (i <= TopK /\ f[i] \in rows) => f[i] \in Range(g)
    BY <2>1, <2>3, ConstantsOK, HydrationKeepsRanks
  <2>5. /\ req'[r].at = "agent" /\ req'[r].fused = f /\ req'[r].found = g
        /\ req'[r].rows = rows
        /\ \A q \in Request \ {r} : req'[q] = req[q]
    BY <1>0, <2>2, MoveMakes
  <2>6. \A q \in Request : Retrieved(q)'
    BY <2>5 DEF RetrievalInv, Retrieved
  <2>7. RankKept'
    BY <2>4, <2>5 DEF RetrievalInv, RankKept
  <2>8. QED
    BY <2>6, <2>7 DEF RetrievalInv
<1>8. ASSUME NEW r \in Request, Answer(r) \/ Fail(r)
      PROVE  RetrievalInv'
  <2>1. PICK to \in {"answered", "failed"} : Move(r, [at |-> to])
    BY <1>8 DEF Answer, Fail
  <2>2. req'[r].at = to /\ \A q \in Request \ {r} : req'[q] = req[q]
    BY <1>0, <2>1, MoveMakes
  <2>3. QED
    BY <2>2, OthersKept DEF Retrieved
<1>9. CASE Convert \/ IndexChunks \/ UNCHANGED vars
  BY <1>1, <1>9 DEF Convert, IndexChunks, vars
<1>10. QED
  BY <1>2, <1>3, <1>4, <1>5, <1>6, <1>7, <1>8, <1>9 DEF Next

LEMMA RetrievalInit == Init => RetrievalInv
BY NothingIsNew DEF Init, RetrievalInv, Retrieved, RankKept

\* Reciprocal rank fusion, for any rankings of the two searches: it ranks what
\* either found, once, and never against a search that the other does not
\* contradict.
THEOREM FusionIsSound == Spec => []FusionSound
<1>1. RetrievalInv => FusionSound
  <2> SUFFICES ASSUME RetrievalInv, NEW r \in Request, req[r].at = "hydrate"
               PROVE  LET f == req[r].fused  e == req[r].es  q == req[r].qdr
                      IN  /\ Range(f) = Range(e) \union Range(q)
                          /\ \A i, j \in DOMAIN f : (i < j) =>
                               /\ f[i] # f[j]
                               /\ ~(Above(e, f[j], f[i]) /\ ~Above(q, f[i], f[j]))
                               /\ ~(Above(q, f[j], f[i]) /\ ~Above(e, f[i], f[j]))
    BY DEF FusionSound
  <2>1. PICK e \in Seq(Id), q \in Seq(Id), trusted \in BOOLEAN :
          req[r].es = e /\ req[r].qdr = q /\ req[r].fused = Fused(e, q, trusted)
    BY DEF RetrievalInv, Retrieved
  <2>2. PICK f : f = Fused(e, q, trusted)
    OBVIOUS
  <2>3. Range(f) = Range(e) \union Range(q)
    <3>1. Range(Fused(e, q, trusted)) = Range(e) \union Range(q)
      BY FusedLists
    <3>2. QED
      BY <2>2, <3>1
  <2>4. \A i, j \in DOMAIN f :
          i < j => f[i] # f[j] /\ Precedes(e, q, trusted, f[i], f[j])
    BY <2>2, FusedLists
  <2>5. \A i, j \in DOMAIN f : i < j =>
          /\ ~(Above(e, f[j], f[i]) /\ ~Above(q, f[i], f[j]))
          /\ ~(Above(q, f[j], f[i]) /\ ~Above(e, f[i], f[j]))
    BY <2>4, PrecedesFollowsRanks
  <2>6. QED
    BY <2>1, <2>2, <2>3, <2>4, <2>5
<1>2. QED
  BY TypeInit, TypeStep, RetrievalInit, RetrievalStep, <1>1, PTL DEF Spec

\* Hydration, whatever rows went or came meanwhile: the tool returns the best
\* ids that have a row, in the order of the ranking, and TopK at most.
THEOREM HydrationKeepsRanking == Spec => []RankKept
<1>1. RetrievalInv => RankKept
  BY DEF RetrievalInv
<1>2. QED
  BY TypeInit, TypeStep, RetrievalInit, RetrievalStep, <1>1, PTL DEF Spec
=============================================================================
