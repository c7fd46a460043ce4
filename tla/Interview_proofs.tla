-------------------------- MODULE Interview_proofs --------------------------
(***************************************************************************)
(* Proofs about Interview for any runs, sections, numbers of pairs and     *)
(* indexes.                                                                *)
(*                                                                         *)
(* Types come first; then what a run holds of the artifacts it is to save, *)
(* from which one current artifact and the refinement of Answers follow;   *)
(* then where chunks come from, and what a conversion has seen of them.    *)
(***************************************************************************)
EXTENDS Interview, TLAPS

\* A run that is in a stage holds what that stage works with.
LEMMA Held ==
  ASSUME TypeOK, NEW r \in Run
  PROVE  /\ run[r].at = "save" => run[r].rows \subseteq RowToAdd
         /\ run[r].at = "add" => /\ run[r].rows \subseteq RowToAdd
                                 /\ run[r].seen \subseteq Artifact
         /\ run[r].at = "delete" => run[r].rows \subseteq RowToShow
         /\ run[r].at = "insert" => /\ run[r].rows \subseteq RowToShow
                                    /\ run[r].seen \subseteq Chunk
         /\ run[r].at = "index" => /\ run[r].x \in Index
                                   /\ run[r].seen \subseteq Chunk
                                   /\ run[r].left \subseteq Chunk
<1>1. run[r] \in RunState
  BY DEF TypeOK
<1>2. CASE run[r] = Idle
  BY <1>2 DEF Idle
<1>3. CASE run[r] \in [at : {"save"}, rows : SUBSET RowToAdd]
  BY <1>3
<1>4. CASE run[r] \in [at : {"add"}, rows : SUBSET RowToAdd, seen : SUBSET Artifact]
  BY <1>4
<1>5. CASE run[r] \in [at : {"delete"}, rows : SUBSET RowToShow]
  BY <1>5
<1>6. CASE run[r] \in [at : {"insert"}, rows : SUBSET RowToShow, seen : SUBSET Chunk]
  BY <1>6
<1>7. CASE run[r] \in [at : {"index"}, x : Index, seen : SUBSET Chunk,
                       left : SUBSET Chunk]
  BY <1>7
<1>8. QED
  BY <1>1, <1>2, <1>3, <1>4, <1>5, <1>6, <1>7 DEF RunState

\* A document lists sections, each once, in order.
LEMMA DocumentList ==
  ASSUME NEW doc \in Documents
  PROVE  \E n \in Nat : /\ DOMAIN doc = 1 .. n
                        /\ \A i \in 1 .. n : doc[i] \in Section
                        /\ \A i, j \in 1 .. n : i < j => doc[i] < doc[j]
<1>1. Range(Chapters) = Section
  BY DEF Range, Chapters
<1>2. PICK n \in 0 .. NumSections : doc \in [1 .. n -> Section]
  BY <1>1 DEF Documents, SeqOf
<1>3. QED
  BY <1>2 DEF Documents

\* A document lists no section twice.
LEMMA DocumentDistinct ==
  ASSUME NEW doc \in Documents, NEW m \in DOMAIN doc, NEW n \in DOMAIN doc,
         doc[m] = doc[n]
  PROVE  m = n
<1>1. PICK k \in Nat : /\ DOMAIN doc = 1 .. k
                       /\ \A i \in 1 .. k : doc[i] \in Section
                       /\ \A i, j \in 1 .. k : i < j => doc[i] < doc[j]
  BY DocumentList
<1>2. doc[m] \in Int /\ doc[n] \in Int
  BY <1>1, ConstantsOK DEF Section
<1>3. ~(m < n) /\ ~(n < m)
  BY <1>1, <1>2
<1>4. QED
  BY <1>1, <1>3

-----------------------------------------------------------------------------
(* Types.                                                                  *)

LEMMA TypeInit == Init => TypeOK
<1> SUFFICES ASSUME Init PROVE TypeOK
  OBVIOUS
<1>1. run \in [Run -> RunState]
  BY DEF Init, RunState
<1>2. QED
  BY <1>1 DEF Init, TypeOK

\* A run that leaves its stage, or enters one, has its type.
LEMMA RunStep ==
  ASSUME TypeOK, NEW r \in Run, NEW state \in RunState,
         run' = [run EXCEPT ![r] = state]
  PROVE  run' \in [Run -> RunState]
BY DEF TypeOK

LEMMA IdleIsState == Idle \in RunState
BY DEF RunState

LEMMA TypeStep == TypeOK /\ [Next]_vars => TypeOK'
<1> SUFFICES ASSUME TypeOK, [Next]_vars
             PROVE  TypeOK'
  OBVIOUS
<1>1. ASSUME NEW r \in Run, Normalize(r)
      PROVE  TypeOK'
  <2> DEFINE Row(s) == [stage |-> "transcript normalize", section |-> s,
                        from |-> s, pairs |-> 0]
  <2>1. PICK doc \in Documents :
          \E answered \in SUBSET Range(doc) : Keep(r, {Row(s) : s \in answered})
    BY <1>1 DEF Normalize
  <2>2. PICK answered \in SUBSET Range(doc) : Keep(r, {Row(s) : s \in answered})
    BY <2>1
  <2>3. answered \subseteq Section
    BY DocumentList DEF Range
  <2>4. \A s \in Section : Row(s) \in RowToAdd
    BY DEF RowToAdd, Stages
  <2>5. {Row(s) : s \in answered} \subseteq RowToAdd
    BY <2>3, <2>4
  <2> HIDE DEF Row
  <2>6. run' \in [Run -> RunState]
    BY <2>2, <2>5, RunStep DEF Keep, RunState
  <2>7. QED
    BY <2>2, <2>6 DEF Keep, TypeOK, tables
<1>2. ASSUME NEW r \in Run, AskQuestions(r)
      PROVE  TypeOK'
  <2> DEFINE Row(doc, rows, pairs, n) ==
               [stage |-> "qa pair", section |-> doc[n],
                from |-> rows[n].section, pairs |-> pairs[n]]
             Asked(doc, rows, pairs) ==
               {m \in DOMAIN rows \cap DOMAIN doc : pairs[m] # None}
  <2>1. PICK doc \in Documents :
          \E rows \in CurrentRows("transcript normalize", doc) :
          \E pairs \in [DOMAIN rows -> {None} \union Pairs] :
            Keep(r, {Row(doc, rows, pairs, n) : n \in Asked(doc, rows, pairs)})
    BY <1>2 DEF AskQuestions
  <2>2. PICK rows \in CurrentRows("transcript normalize", doc) :
          \E pairs \in [DOMAIN rows -> {None} \union Pairs] :
            Keep(r, {Row(doc, rows, pairs, n) : n \in Asked(doc, rows, pairs)})
    BY <2>1
  <2>3. PICK pairs \in [DOMAIN rows -> {None} \union Pairs] :
          Keep(r, {Row(doc, rows, pairs, n) : n \in Asked(doc, rows, pairs)})
    BY <2>2
  <2>4. \A n \in DOMAIN rows : rows[n] \in current
    BY DEF CurrentRows, SetToSeqs
  <2>5. \A n \in DOMAIN rows : rows[n].section \in Section
    BY <2>4 DEF TypeOK, Artifact
  <2>6. \A n \in DOMAIN doc : doc[n] \in Section
    BY DocumentList
  <2>7. \A n \in DOMAIN rows : pairs[n] # None => pairs[n] \in Nat
    BY <2>3, ConstantsOK
  <2>8. ASSUME NEW n \in Asked(doc, rows, pairs)
        PROVE  Row(doc, rows, pairs, n) \in RowToAdd
    <3>1. /\ doc[n] \in Section
          /\ rows[n].section \in Section
          /\ pairs[n] \in Nat
      BY <2>5, <2>6, <2>7
    <3>2. QED
      BY <3>1 DEF RowToAdd, Stages
  <2>9. {Row(doc, rows, pairs, n) : n \in Asked(doc, rows, pairs)} \subseteq RowToAdd
    BY <2>8
  <2> HIDE DEF Row, Asked
  <2>10. run' \in [Run -> RunState]
    BY <2>3, <2>9, RunStep DEF Keep, RunState
  <2>11. QED
    BY <2>3, <2>10 DEF Keep, TypeOK, tables
<1>3. ASSUME NEW r \in Run, Unset(r)
      PROVE  TypeOK'
  <2>1. [at |-> "add", rows |-> run[r].rows, seen |-> Replaced(run[r].rows)] \in RunState
    BY <1>3, Held DEF Unset, RunState, Replaced, TypeOK
  <2>2. run' \in [Run -> RunState]
    BY <1>3, <2>1, RunStep DEF Unset
  <2>3. QED
    BY <1>3, <2>2 DEF Unset, TypeOK, tables
<1>4. ASSUME NEW r \in Run, AddArtifacts(r)
      PROVE  TypeOK'
  <2>1. {[stage |-> b.stage, section |-> b.section, from |-> b.from,
          version |-> saves + 1, pairs |-> b.pairs] : b \in run[r].rows}
          \subseteq Artifact
    BY <1>4, Held DEF AddArtifacts, RowToAdd, Artifact, TypeOK
  <2>2. run' \in [Run -> RunState]
    BY <1>4, IdleIsState, RunStep DEF AddArtifacts
  <2>3. QED
    BY <1>4, <2>1, <2>2 DEF AddArtifacts, TypeOK
<1>5. ASSUME NEW r \in Run, ReadAnswers(r)
      PROVE  TypeOK'
  <2>1. PICK answers \in SUBSET current :
          run' = [run EXCEPT ![r] = [at |-> "delete",
                                     rows |-> UNION {ChunksOf(a) : a \in answers}]]
    BY <1>5 DEF ReadAnswers
  <2>2. \A a \in answers : ChunksOf(a) \subseteq RowToShow
    BY DEF ChunksOf, RowToShow, TypeOK, Artifact
  <2>3. UNION {ChunksOf(a) : a \in answers} \subseteq RowToShow
    BY <2>2
  <2>4. run' \in [Run -> RunState]
    BY <2>1, <2>3, RunStep DEF RunState
  <2>5. QED
    BY <1>5, <2>4 DEF ReadAnswers, TypeOK, tables
<1>6. ASSUME NEW r \in Run, DeleteChunks(r)
      PROVE  TypeOK'
  <2>1. [at |-> "insert", rows |-> run[r].rows,
         seen |-> {c \in chunks : c.section \in SectionsOf(run[r].rows)}] \in RunState
    BY <1>6, Held DEF DeleteChunks, RunState, TypeOK
  <2>2. run' \in [Run -> RunState]
    BY <1>6, <2>1, RunStep DEF DeleteChunks
  <2>3. QED
    BY <1>6, <2>2 DEF DeleteChunks, TypeOK, tables
<1>7. ASSUME NEW r \in Run, InsertChunks(r)
      PROVE  TypeOK'
  <2>1. {[section |-> c.section, artifact |-> c.artifact, conv |-> conversions',
          nr |-> c.nr] : c \in run[r].rows} \subseteq Chunk
    BY <1>7, Held DEF InsertChunks, RowToShow, Chunk, TypeOK
  <2>2. SectionsOf(run[r].rows) \subseteq Section
    BY <1>7, Held DEF InsertChunks, RowToShow, SectionsOf
  <2>3. run' \in [Run -> RunState]
    BY <1>7, IdleIsState, RunStep DEF InsertChunks
  <2>4. QED
    BY <1>7, <2>1, <2>2, <2>3 DEF InsertChunks, TypeOK, tables
<1>8. ASSUME NEW r \in Run, NEW x \in Index, ReadChunks(r, x)
      PROVE  TypeOK'
  <2>1. run' \in [Run -> RunState]
    BY <1>8, RunStep DEF ReadChunks, RunState, TypeOK
  <2>2. QED
    BY <1>8, <2>1 DEF ReadChunks, TypeOK, tables
<1>9. ASSUME NEW r \in Run, WriteBatch(r)
      PROVE  TypeOK'
  <2>1. PICK batch \in Batches(run[r].left) :
          /\ indexed' = [indexed EXCEPT ![run[r].x] = @ \union batch]
          /\ run' = [run EXCEPT ![r].left = @ \ batch]
    BY <1>9 DEF WriteBatch
  <2>2. batch \subseteq Chunk
    BY <1>9, Held DEF WriteBatch, Batches
  <2>3. indexed' \in [Index -> SUBSET Chunk]
    BY <1>9, <2>1, <2>2, Held DEF WriteBatch, TypeOK
  <2>4. run[r] \in [at : {"index"}, x : Index, seen : SUBSET Chunk, left : SUBSET Chunk]
    BY <1>9 DEF WriteBatch, TypeOK, RunState, Idle
  <2>5. run' \in [Run -> RunState]
    BY <2>1, <2>4 DEF TypeOK, RunState
  <2>6. QED
    BY <1>9, <2>3, <2>5 DEF WriteBatch, TypeOK, tables
<1>10. ASSUME NEW r \in Run, BatchFails(r)
       PROVE  TypeOK'
  <2>1. PICK part \in SUBSET run[r].left :
          indexed' = [indexed EXCEPT ![run[r].x] = @ \union part]
    BY <1>10 DEF BatchFails, Batches
  <2>2. part \subseteq Chunk
    BY <1>10, Held DEF BatchFails
  <2>3. indexed' \in [Index -> SUBSET Chunk]
    BY <1>10, <2>1, <2>2, Held DEF BatchFails, TypeOK
  <2>4. run' \in [Run -> RunState]
    BY <1>10, IdleIsState, RunStep DEF BatchFails
  <2>5. QED
    BY <1>10, <2>3, <2>4 DEF BatchFails, TypeOK, tables
<1>11. ASSUME NEW r \in Run, Stop(r)
       PROVE  TypeOK'
  BY <1>11, IdleIsState, RunStep DEF Stop, TypeOK
<1>12. CASE UNCHANGED vars
  BY <1>12 DEF vars, TypeOK
<1>13. QED
  BY <1>1, <1>2, <1>3, <1>4, <1>5, <1>6, <1>7, <1>8, <1>9, <1>10, <1>11, <1>12
     DEF Next

\* Every variable keeps its type.
THEOREM TypeCorrect == Spec => []TypeOK
BY TypeInit, TypeStep, PTL DEF Spec

-----------------------------------------------------------------------------
(* Saves.                                                                  *)

\* Two rows that the unique index of llm_artifacts keeps apart.
SamePlace(a, b) == a.stage = b.stage /\ a.section = b.section

\* Artifacts are numbered by their saves; a place of the table has one current
\* artifact as soon as it has any; and a run is to save one row for a place,
\* in places of what its UPDATE has seen.
SaveInv ==
  /\ \A a \in artifacts : a.version <= saves
  /\ \A a, b \in current : SamePlace(a, b) => a = b
  /\ \A a \in artifacts : \E b \in current : SamePlace(a, b)
  /\ \A r \in Run : run[r].at \in {"save", "add"} =>
       \A a, b \in run[r].rows : SamePlace(a, b) => a = b
  /\ \A r \in Run : run[r].at = "add" =>
       \A a \in run[r].seen : \E b \in run[r].rows : SamePlace(a, b)

LEMMA SaveInit == Init => SaveInv
BY DEF Init, SaveInv, Idle

\* A step that adds no artifact keeps SaveInv if the run it moves is none of
\* the saving ones afterwards.
LEMMA NotSaving ==
  ASSUME TypeOK, SaveInv, NEW r \in Run, NEW state,
         state.at \notin {"save", "add"},
         run' = [run EXCEPT ![r] = state],
         UNCHANGED tables
  PROVE  SaveInv'
BY DEF SaveInv, TypeOK, tables

\* A run that begins to save has one row for a place.
LEMMA Keeping ==
  ASSUME TypeOK, SaveInv, NEW r \in Run, NEW rows, Keep(r, rows),
         \A a, b \in rows : SamePlace(a, b) => a = b
  PROVE  SaveInv'
BY DEF SaveInv, TypeOK, Keep, tables

LEMMA SaveStep == TypeOK /\ SaveInv /\ [Next]_vars => SaveInv'
<1> SUFFICES ASSUME TypeOK, SaveInv, [Next]_vars
             PROVE  SaveInv'
  OBVIOUS
<1>1. ASSUME NEW r \in Run, Normalize(r)
      PROVE  SaveInv'
  <2> DEFINE Row(s) == [stage |-> "transcript normalize", section |-> s,
                        from |-> s, pairs |-> 0]
  <2>1. PICK doc \in Documents :
          \E answered \in SUBSET Range(doc) : Keep(r, {Row(s) : s \in answered})
    BY <1>1 DEF Normalize
  <2>2. PICK answered \in SUBSET Range(doc) : Keep(r, {Row(s) : s \in answered})
    BY <2>1
  <2>3. ASSUME NEW s, NEW t, SamePlace(Row(s), Row(t))
        PROVE  s = t
    BY <2>3 DEF SamePlace
  <2> HIDE DEF Row
  <2>4. QED
    BY <2>2, <2>3, Keeping
<1>2. ASSUME NEW r \in Run, AskQuestions(r)
      PROVE  SaveInv'
  <2> DEFINE Row(doc, rows, pairs, n) ==
               [stage |-> "qa pair", section |-> doc[n],
                from |-> rows[n].section, pairs |-> pairs[n]]
             Asked(doc, rows, pairs) ==
               {m \in DOMAIN rows \cap DOMAIN doc : pairs[m] # None}
  <2>1. PICK doc \in Documents :
          \E rows \in CurrentRows("transcript normalize", doc) :
          \E pairs \in [DOMAIN rows -> {None} \union Pairs] :
            Keep(r, {Row(doc, rows, pairs, n) : n \in Asked(doc, rows, pairs)})
    BY <1>2 DEF AskQuestions
  <2>2. PICK rows \in CurrentRows("transcript normalize", doc) :
          \E pairs \in [DOMAIN rows -> {None} \union Pairs] :
            Keep(r, {Row(doc, rows, pairs, n) : n \in Asked(doc, rows, pairs)})
    BY <2>1
  <2>3. PICK pairs \in [DOMAIN rows -> {None} \union Pairs] :
          Keep(r, {Row(doc, rows, pairs, n) : n \in Asked(doc, rows, pairs)})
    BY <2>2
  <2>5. ASSUME NEW m \in Asked(doc, rows, pairs), NEW n \in Asked(doc, rows, pairs),
               SamePlace(Row(doc, rows, pairs, m), Row(doc, rows, pairs, n))
        PROVE  m = n
    <3>1. doc[m] = doc[n]
      BY <2>5 DEF SamePlace
    <3>2. QED
      BY <3>1, DocumentDistinct
  <2> HIDE DEF Row, Asked
  <2>6. \A a, b \in {Row(doc, rows, pairs, n) : n \in Asked(doc, rows, pairs)} :
          SamePlace(a, b) => a = b
    BY <2>5
  <2>7. QED
    BY <2>3, <2>6, Keeping
<1>3. ASSUME NEW r \in Run, Unset(r)
      PROVE  SaveInv'
  BY <1>3 DEF Unset, SaveInv, TypeOK, tables, Replaced, SamePlace
<1>4. ASSUME NEW r \in Run, AddArtifacts(r)
      PROVE  SaveInv'
  <2> DEFINE Rows == run[r].rows
             Row(b) == [stage |-> b.stage, section |-> b.section, from |-> b.from,
                        version |-> saves + 1, pairs |-> b.pairs]
             New == {Row(b) : b \in Rows}
  <2>1. /\ artifacts' = artifacts \union New
        /\ current' = (current \ run[r].seen) \union New
        /\ saves' = saves + 1
        /\ run' = [run EXCEPT ![r] = Idle]
        /\ Replaced(Rows) \subseteq run[r].seen
        /\ run[r].at = "add"
    BY <1>4 DEF AddArtifacts
  <2>2. \A b \in Rows : /\ SamePlace(Row(b), b)
                        /\ Row(b).version = saves + 1
    BY DEF SamePlace
  <2> HIDE DEF Row
  <2>3. \A a \in artifacts' : a.version <= saves'
    BY <2>1, <2>2 DEF SaveInv, TypeOK, Artifact
  <2>4. \A a \in current, b \in Rows : SamePlace(a, b) => a \in run[r].seen
    BY <2>1 DEF Replaced, SamePlace
  <2>5. \A a, b \in New : SamePlace(a, b) => a = b
    BY <2>1, <2>2 DEF SaveInv, SamePlace
  <2>6. \A a, b \in current' : SamePlace(a, b) => a = b
    BY <2>1, <2>2, <2>4, <2>5 DEF SaveInv, SamePlace
  <2>7. ASSUME NEW a \in artifacts
        PROVE  \E b \in current' : SamePlace(a, b)
    <3>1. PICK b \in current : SamePlace(a, b)
      BY DEF SaveInv
    <3>2. CASE b \in run[r].seen
      BY <2>1, <2>2, <3>1, <3>2 DEF SaveInv, SamePlace
    <3>3. CASE b \notin run[r].seen
      BY <2>1, <3>1, <3>3
    <3>4. QED
      BY <3>2, <3>3
  <2>8. \A a \in artifacts' : \E b \in current' : SamePlace(a, b)
    BY <2>1, <2>7 DEF SamePlace
  <2>9. \A q \in Run : run'[q].at \in {"save", "add"} => q # r /\ run'[q] = run[q]
    BY <2>1 DEF Idle, TypeOK
  <2>10. QED
    BY <2>3, <2>6, <2>8, <2>9 DEF SaveInv
<1>5. ASSUME NEW r \in Run, ReadAnswers(r)
      PROVE  SaveInv'
  BY <1>5, NotSaving DEF ReadAnswers
<1>6. ASSUME NEW r \in Run, DeleteChunks(r)
      PROVE  SaveInv'
  BY <1>6, NotSaving DEF DeleteChunks
<1>7. ASSUME NEW r \in Run, InsertChunks(r)
      PROVE  SaveInv'
  BY <1>7, NotSaving DEF InsertChunks, Idle
<1>8. ASSUME NEW r \in Run, NEW x \in Index, ReadChunks(r, x)
      PROVE  SaveInv'
  BY <1>8, NotSaving DEF ReadChunks
<1>9. ASSUME NEW r \in Run, WriteBatch(r)
      PROVE  SaveInv'
  <2>1. PICK left \in SUBSET run[r].left : run' = [run EXCEPT ![r].left = left]
    BY <1>9 DEF WriteBatch
  <2>2. \A q \in Run : run'[q].at \in {"save", "add"} => run'[q] = run[q]
    BY <1>9, <2>1 DEF WriteBatch, TypeOK
  <2>3. QED
    BY <1>9, <2>2 DEF WriteBatch, SaveInv, tables
<1>10. ASSUME NEW r \in Run, BatchFails(r)
       PROVE  SaveInv'
  BY <1>10, NotSaving DEF BatchFails, Idle
<1>11. ASSUME NEW r \in Run, Stop(r)
       PROVE  SaveInv'
  BY <1>11, NotSaving DEF Stop, Idle, tables
<1>12. CASE UNCHANGED vars
  BY <1>12 DEF vars, SaveInv
<1>13. QED
  BY <1>1, <1>2, <1>3, <1>4, <1>5, <1>6, <1>7, <1>8, <1>9, <1>10, <1>11, <1>12
     DEF Next

\* Once a section has artifacts of a stage, exactly one of them is current,
\* whatever saves overlap: insert_bulk_llm_artifact and its unique index.
THEOREM OneIsCurrent == Spec => []OneCurrentArtifact
<1>1. TypeOK /\ SaveInv => OneCurrentArtifact
  <2> SUFFICES ASSUME TypeOK, SaveInv, NEW a \in artifacts
               PROVE  \E b \in current :
                 {c \in current : c.stage = a.stage /\ c.section = a.section} = {b}
    BY DEF OneCurrentArtifact
  <2>1. PICK b \in current : SamePlace(a, b)
    BY DEF SaveInv
  <2>2. {c \in current : c.stage = a.stage /\ c.section = a.section} = {b}
    BY <2>1 DEF SaveInv, SamePlace
  <2>3. QED
    BY <2>2
<1>2. QED
  BY <1>1, TypeInit, TypeStep, SaveInit, SaveStep, PTL DEF Spec

-----------------------------------------------------------------------------
(* The refinement of Answers.                                              *)

LEMMA AnswersInit == Init => Abstract!Init
BY DEF Init, Abstract!Init, PublishedAnswers

\* A save gives the sections of its question-answer rows the one answer that
\* it is numbered after, and leaves the others as they are.
LEMMA SaveReplaces ==
  ASSUME TypeOK, SaveInv, NEW r \in Run, AddArtifacts(r)
  PROVE  [Abstract!Next]_PublishedAnswers
<1> DEFINE Rows == run[r].rows
           Row(b) == [stage |-> b.stage, section |-> b.section, from |-> b.from,
                      version |-> saves + 1, pairs |-> b.pairs]
           New == {Row(b) : b \in Rows}
           P == {s \in Section : \E b \in Rows : b.stage = "qa pair" /\ b.section = s}
           Of(s) == {b \in current : b.stage = "qa pair" /\ b.section = s}
<1>1. /\ current' = (current \ run[r].seen) \union New
      /\ Replaced(Rows) \subseteq run[r].seen
      /\ \A a \in run[r].seen : \E b \in Rows : SamePlace(a, b)
      /\ Rows \subseteq RowToAdd
  BY Held DEF AddArtifacts, SaveInv
<1>2. \A b \in Rows : /\ Row(b).stage = b.stage /\ Row(b).section = b.section
                      /\ Row(b).version = saves + 1
  OBVIOUS
<1> HIDE DEF Row
<1>3. ASSUME NEW s \in P
      PROVE  PublishedAnswers'[s] = {saves + 1}
  <2>1. Of(s)' = {a \in New : a.stage = "qa pair" /\ a.section = s}
    BY <1>1, <1>3 DEF Replaced
  <2>2. \A a \in Of(s)' : a.version = saves + 1
    BY <1>2, <2>1
  <2>3. Of(s)' # {}
    BY <1>2, <1>3, <2>1
  <2>4. PublishedAnswers'[s] = {a.version : a \in Of(s)'}
    BY <1>3 DEF PublishedAnswers
  <2>5. QED
    BY <2>2, <2>3, <2>4
<1>4. ASSUME NEW s \in Section \ P
      PROVE  PublishedAnswers'[s] = PublishedAnswers[s]
  <2>1. \A b \in Rows : ~(b.stage = "qa pair" /\ b.section = s)
    BY <1>4
  <2>2. \A a \in New : ~(a.stage = "qa pair" /\ a.section = s)
    BY <1>2, <2>1
  <2>3. \A a \in run[r].seen : ~(a.stage = "qa pair" /\ a.section = s)
    BY <1>1, <2>1 DEF SamePlace
  <2>4. Of(s)' = Of(s)
    BY <1>1, <2>2, <2>3
  <2>5. QED
    BY <2>4 DEF PublishedAnswers
<1>5. ASSUME NEW s \in Section, NEW v \in PublishedAnswers[s]
      PROVE  v < saves + 1
  <2>1. PICK a \in current : v = a.version
    BY <1>5 DEF PublishedAnswers
  <2>2. a \in Artifact /\ a.version <= saves
    BY <2>1 DEF SaveInv, TypeOK
  <2>3. QED
    BY <2>1, <2>2 DEF TypeOK, Artifact
<1>6. PublishedAnswers' = [s \in Section |-> IF s \in P THEN {saves + 1}
                                                        ELSE PublishedAnswers[s]]
  <2>1. PublishedAnswers' = [s \in Section |-> PublishedAnswers'[s]]
    BY DEF PublishedAnswers
  <2>2. QED
    BY <1>3, <1>4, <2>1
<1>7. Abstract!Replace(P, saves + 1)
  BY <1>5, <1>6 DEF Abstract!Replace
<1>8. CASE P = {}
  <2>1. PublishedAnswers = [s \in Section |-> PublishedAnswers[s]]
    BY DEF PublishedAnswers
  <2>2. QED
    BY <1>6, <1>8, <2>1
<1>9. CASE P # {}
  <2>1. saves + 1 \in UNION {PublishedAnswers'[s] : s \in P}
    BY <1>3, <1>9
  <2>2. QED
    BY <1>7, <2>1 DEF Abstract!Next
<1>10. QED
  BY <1>8, <1>9

LEMMA AnswersStep ==
  TypeOK /\ SaveInv /\ [Next]_vars => [Abstract!Next]_PublishedAnswers
<1> SUFFICES ASSUME TypeOK, SaveInv, [Next]_vars
             PROVE  [Abstract!Next]_PublishedAnswers
  OBVIOUS
<1>1. CASE current' = current
  BY <1>1 DEF PublishedAnswers
<1>2. CASE \E r \in Run : AddArtifacts(r)
  BY <1>2, SaveReplaces
<1>3. current' = current \/ \E r \in Run : AddArtifacts(r)
  BY DEF Next, vars, tables, Normalize, AskQuestions, Keep, Unset, ReadAnswers,
         DeleteChunks, InsertChunks, ReadChunks, WriteBatch, BatchFails, Stop
<1>4. QED
  BY <1>1, <1>2, <1>3

\* The pipeline implements Answers: the current question-answer artifacts of a
\* save are replaced together, by newer ones, and never withdrawn.
THEOREM PipelineKeepsAnswers == Spec => AnswersReplaced
<1>1. Spec => [](TypeOK /\ SaveInv)
  BY TypeInit, TypeStep, SaveInit, SaveStep, PTL DEF Spec
<1>2. QED
  BY <1>1, AnswersInit, AnswersStep, PTL DEF Spec, AnswersReplaced, Abstract!Spec

-----------------------------------------------------------------------------
(* Conversions and index stages.                                           *)

\* c is one of the pairs of a question-answer artifact of its section.
Traced(c) ==
  \E a \in artifacts : /\ a.stage = "qa pair" /\ a.section = c.section
                      /\ a.version = c.artifact /\ c.nr <= a.pairs

\* What is stored, indexed, or on its way to either is traced; a conversion
\* takes one artifact for a section, and has seen the chunks of its sections
\* that no other conversion added at once; an index stage has written what it
\* has left behind.
ChunkInv ==
  /\ \A c \in chunks : Traced(c)
  /\ \A x \in Index : \A c \in indexed[x] : Traced(c)
  /\ \A c, d \in chunks :
       c.section = d.section /\ c.section \notin overlapped =>
         c.conv = d.conv /\ c.artifact = d.artifact
  /\ \A r \in Run : run[r].at \in {"delete", "insert"} =>
       /\ \A c \in run[r].rows : Traced(c)
       /\ \A c, d \in run[r].rows : c.section = d.section => c.artifact = d.artifact
  /\ \A r \in Run : run[r].at = "insert" =>
       \A c \in chunks :
         c.section \in SectionsOf(run[r].rows) /\ c.section \notin overlapped =>
           c \in run[r].seen
  /\ \A r \in Run : run[r].at = "index" =>
       /\ \A c \in run[r].left : Traced(c)
       /\ run[r].seen \ run[r].left \subseteq indexed[run[r].x]

LEMMA ChunkInit == Init => ChunkInv
BY DEF Init, ChunkInv, Idle

\* Artifacts stay, and what is traced to one stays traced.
LEMMA StillTraced ==
  ASSUME TypeOK, [Next]_vars
  PROVE  /\ artifacts \subseteq artifacts'
         /\ \A c : Traced(c) => Traced(c)'
<1>1. artifacts \subseteq artifacts'
  BY DEF Next, vars, tables, Normalize, AskQuestions, Keep, Unset, AddArtifacts,
         ReadAnswers, DeleteChunks, InsertChunks, ReadChunks, WriteBatch,
         BatchFails, Stop
<1>2. QED
  BY <1>1 DEF Traced

\* A step that leaves chunks and indexes alone keeps ChunkInv if the run that
\* it moves neither converts nor indexes afterwards.
LEMMA NotShowing ==
  ASSUME TypeOK, ChunkInv, [Next]_vars, NEW r \in Run, NEW state,
         state.at \notin {"delete", "insert", "index"},
         run' = [run EXCEPT ![r] = state],
         UNCHANGED <<chunks, indexed, overlapped>>
  PROVE  ChunkInv'
<1>1. \A q \in Run : run'[q].at \in {"delete", "insert", "index"} => run'[q] = run[q]
  BY DEF TypeOK
<1>2. QED
  BY <1>1, StillTraced DEF ChunkInv, SectionsOf

\* A fact of arithmetic, apart from the records it is needed for.
LEMMA UpToIsBelow == \A p \in Nat : \A n \in 1 .. p : n <= p
OBVIOUS

LEMMA ChunkStep == TypeOK /\ SaveInv /\ ChunkInv /\ [Next]_vars => ChunkInv'
<1> SUFFICES ASSUME TypeOK, SaveInv, ChunkInv, [Next]_vars
             PROVE  ChunkInv'
  OBVIOUS
<1>1. ASSUME NEW r \in Run, Normalize(r) \/ AskQuestions(r)
      PROVE  ChunkInv'
  <2>1. \E rows : Keep(r, rows)
    BY <1>1 DEF Normalize, AskQuestions
  <2>2. QED
    BY <2>1, NotShowing DEF Keep
<1>2. ASSUME NEW r \in Run, Unset(r)
      PROVE  ChunkInv'
  BY <1>2, NotShowing DEF Unset
<1>3. ASSUME NEW r \in Run, AddArtifacts(r)
      PROVE  ChunkInv'
  BY <1>3, NotShowing DEF AddArtifacts, Idle
<1>4. ASSUME NEW r \in Run, ReadAnswers(r)
      PROVE  ChunkInv'
  <2>1. PICK answers \in SUBSET {a \in current : a.stage = "qa pair"} :
          run' = [run EXCEPT ![r] = [at |-> "delete",
                                     rows |-> UNION {ChunksOf(a) : a \in answers}]]
    BY <1>4 DEF ReadAnswers
  <2> DEFINE Rows == UNION {ChunksOf(a) : a \in answers}
  <2>2. \A a \in answers : /\ a \in current /\ a \in artifacts
                           /\ a.stage = "qa pair" /\ a.pairs \in Nat
    BY DEF TypeOK, Artifact
  <2>3. ASSUME NEW c \in Rows
        PROVE  \E a \in answers : /\ c.section = a.section /\ c.artifact = a.version
                                 /\ c.nr <= a.pairs
    <3>1. PICK a \in answers : c \in ChunksOf(a)
      OBVIOUS
    <3>2. PICK n \in 1 .. a.pairs :
            c = [section |-> a.section, artifact |-> a.version, nr |-> n]
      BY <3>1 DEF ChunksOf
    <3>3. n <= a.pairs
      BY <2>2, UpToIsBelow
    <3>4. c.section = a.section /\ c.artifact = a.version /\ c.nr = n
      BY <3>2
    <3>5. QED
      BY <3>3, <3>4
  <2> HIDE DEF Rows
  <2>4. \A c \in Rows : Traced(c)
    BY <2>2, <2>3 DEF Traced
  <2>5. ASSUME NEW c \in Rows, NEW d \in Rows, c.section = d.section
         PROVE  c.artifact = d.artifact
    <3>1. PICK a \in answers : c.section = a.section /\ c.artifact = a.version
      BY <2>3
    <3>2. PICK b \in answers : d.section = b.section /\ d.artifact = b.version
      BY <2>3
    <3>3. SamePlace(a, b) => a = b
      BY <2>2 DEF SaveInv
    <3>4. SamePlace(a, b)
      BY <2>2, <2>5, <3>1, <3>2 DEF SamePlace
    <3>5. QED
      BY <3>1, <3>2, <3>3, <3>4
  <2>6. \A q \in Run \ {r} : run'[q] = run[q]
    BY <2>1 DEF TypeOK
  <2>7. run'[r].at = "delete" /\ run'[r].rows = Rows
    BY <2>1 DEF TypeOK, Rows
  <2>8. /\ run'[r].at = "delete"
        /\ \A c \in run'[r].rows : Traced(c)
        /\ \A c, d \in run'[r].rows : c.section = d.section => c.artifact = d.artifact
    BY <2>4, <2>7, <2>5
  <2>9. UNCHANGED <<chunks, indexed, overlapped>>
    BY <1>4 DEF ReadAnswers
  <2>10. ASSUME NEW q \in Run, run'[q].at \in {"delete", "insert"}
        PROVE  /\ \A c \in run'[q].rows : Traced(c)'
               /\ \A c, d \in run'[q].rows :
                    c.section = d.section => c.artifact = d.artifact
    <3>1. CASE q = r
      BY <2>8, <3>1, StillTraced
    <3>2. CASE q # r
      <4>1. run'[q] = run[q] /\ run[q].at \in {"delete", "insert"}
        BY <2>6, <2>10, <3>2
      <4>2. /\ \A c \in run[q].rows : Traced(c)
            /\ \A c, d \in run[q].rows : c.section = d.section => c.artifact = d.artifact
        BY <4>1 DEF ChunkInv
      <4>3. QED
        BY <4>1, <4>2, StillTraced
    <3>3. QED
      BY <3>1, <3>2
  <2>11. \A q \in Run : run'[q].at \in {"insert", "index"} => run'[q] = run[q]
    BY <2>6, <2>8
  <2>12. QED
    BY <2>9, <2>10, <2>11, StillTraced DEF ChunkInv, SectionsOf
<1>5. ASSUME NEW r \in Run, DeleteChunks(r)
      PROVE  ChunkInv'
  <2>1. run'[r] = [at |-> "insert", rows |-> run[r].rows,
                   seen |-> {c \in chunks : c.section \in SectionsOf(run[r].rows)}]
    BY <1>5 DEF DeleteChunks, TypeOK
  <2>2. \A q \in Run \ {r} : run'[q] = run[q]
    BY <1>5 DEF DeleteChunks, TypeOK
  <2>3. QED
    BY <1>5, <2>1, <2>2, StillTraced DEF DeleteChunks, ChunkInv, SectionsOf
<1>6. ASSUME NEW r \in Run, InsertChunks(r)
      PROVE  ChunkInv'
  <2> DEFINE Row(c) == [section |-> c.section, artifact |-> c.artifact,
                        conv |-> conversions', nr |-> c.nr]
             New == {Row(c) : c \in run[r].rows}
  <2>1. /\ chunks' = (chunks \ run[r].seen) \union New
        /\ indexed' = indexed
        /\ run[r].at = "insert"
        /\ run' = [run EXCEPT ![r] = Idle]
        /\ overlapped \subseteq overlapped'
        /\ \A q \in Run \ {r} : run[q].at = "insert" =>
             SectionsOf(run[q].rows) \intersect SectionsOf(run[r].rows)
               \subseteq overlapped'
    BY <1>6 DEF InsertChunks
  <2>2. \A c \in New : \E b \in run[r].rows :
          /\ c.section = b.section /\ c.artifact = b.artifact /\ c.nr = b.nr
          /\ c.conv = conversions'
    OBVIOUS
  <2> HIDE DEF Row, New
  <2>3. \A q \in Run \ {r} : run'[q] = run[q]
    BY <2>1 DEF TypeOK
  <2>4. run'[r] = Idle
    BY <2>1 DEF TypeOK
  <2>5. ASSUME NEW c \in New
        PROVE  Traced(c)
    <3>1. PICK b \in run[r].rows :
            c.section = b.section /\ c.artifact = b.artifact /\ c.nr = b.nr
      BY <2>2
    <3>2. Traced(b)
      BY <2>1 DEF ChunkInv
    <3>3. QED
      BY <3>1, <3>2 DEF Traced
  <2>6. \A c \in New : c.section \in SectionsOf(run[r].rows)
    BY <2>2 DEF SectionsOf
  <2>7. ASSUME NEW c \in chunks', NEW d \in chunks',
               c.section = d.section, c.section \notin overlapped'
        PROVE  c.conv = d.conv /\ c.artifact = d.artifact
    <3>1. CASE c \in New /\ d \in New
      BY <2>1, <2>2, <2>7, <3>1 DEF ChunkInv
    <3>2. CASE c \in New /\ d \in chunks \ run[r].seen
      BY <2>1, <2>6, <2>7, <3>2 DEF ChunkInv
    <3>3. CASE d \in New /\ c \in chunks \ run[r].seen
      BY <2>1, <2>6, <2>7, <3>3 DEF ChunkInv
    <3>4. CASE c \in chunks /\ d \in chunks
      BY <2>1, <2>7, <3>4 DEF ChunkInv
    <3>5. QED
      BY <2>1, <3>1, <3>2, <3>3, <3>4
  <2>8. ASSUME NEW q \in Run, run'[q].at = "insert", NEW c \in chunks',
               c.section \in SectionsOf(run'[q].rows), c.section \notin overlapped'
        PROVE  c \in run'[q].seen
    <3>1. q # r /\ run'[q] = run[q]
      BY <2>3, <2>4, <2>8 DEF Idle
    <3>2. c \in chunks
      BY <2>1, <2>6, <2>8, <3>1
    <3>3. QED
      BY <2>1, <2>8, <3>1, <3>2 DEF ChunkInv
  <2>9. \A q \in Run : run'[q].at \in {"delete", "insert", "index"} =>
                         run'[q] = run[q]
    BY <2>3, <2>4 DEF Idle
  <2>10. QED
    BY <2>1, <2>5, <2>7, <2>8, <2>9, StillTraced DEF ChunkInv, SectionsOf
<1>7. ASSUME NEW r \in Run, NEW x \in Index, ReadChunks(r, x)
      PROVE  ChunkInv'
  <2>1. run'[r] = [at |-> "index", x |-> x, seen |-> chunks, left |-> chunks]
    BY <1>7 DEF ReadChunks, TypeOK
  <2>2. \A q \in Run \ {r} : run'[q] = run[q]
    BY <1>7 DEF ReadChunks, TypeOK
  <2>3. QED
    BY <1>7, <2>1, <2>2, StillTraced DEF ReadChunks, ChunkInv, SectionsOf
<1>8. ASSUME NEW r \in Run, WriteBatch(r)
      PROVE  ChunkInv'
  <2>1. PICK batch \in SUBSET run[r].left :
          /\ indexed' = [indexed EXCEPT ![run[r].x] = @ \union batch]
          /\ run' = [run EXCEPT ![r].left = @ \ batch]
    BY <1>8 DEF WriteBatch, Batches
  <2>2. /\ run[r].at = "index"
        /\ run[r].x \in Index
        /\ UNCHANGED <<chunks, overlapped>>
    BY <1>8, Held DEF WriteBatch
  <2>3. /\ run'[r].at = "index" /\ run'[r].x = run[r].x
        /\ run'[r].seen = run[r].seen /\ run'[r].left = run[r].left \ batch
    BY <2>1, <2>2 DEF TypeOK, RunState, Idle
  <2>4. \A q \in Run \ {r} : run'[q] = run[q]
    BY <2>1 DEF TypeOK
  <2>5. \A x \in Index : indexed[x] \subseteq indexed'[x]
    BY <2>1, <2>2 DEF TypeOK
  <2>6. indexed'[run[r].x] = indexed[run[r].x] \union batch
    BY <2>1, <2>2 DEF TypeOK
  <2>7. \A x \in Index : \A c \in indexed'[x] : c \in indexed[x] \/ c \in batch
    BY <2>1, <2>2 DEF TypeOK
  <2>8. QED
    BY <2>1, <2>2, <2>3, <2>4, <2>5, <2>6, <2>7, StillTraced, Held
       DEF ChunkInv, SectionsOf
<1>9. ASSUME NEW r \in Run, BatchFails(r)
      PROVE  ChunkInv'
  <2>1. PICK part \in SUBSET run[r].left :
          indexed' = [indexed EXCEPT ![run[r].x] = @ \union part]
    BY <1>9 DEF BatchFails, Batches
  <2>2. /\ run[r].at = "index"
        /\ run[r].x \in Index
        /\ run' = [run EXCEPT ![r] = Idle]
        /\ UNCHANGED <<chunks, overlapped>>
    BY <1>9, Held DEF BatchFails
  <2>3. \A q \in Run : run'[q].at \in {"delete", "insert", "index"} =>
                         run'[q] = run[q]
    BY <2>2 DEF Idle, TypeOK
  <2>4. \A x \in Index : indexed[x] \subseteq indexed'[x]
    BY <2>1, <2>2 DEF TypeOK
  <2>5. \A x \in Index : \A c \in indexed'[x] : c \in indexed[x] \/ c \in run[r].left
    BY <2>1, <2>2 DEF TypeOK
  <2>6. \A q \in Run : run[q].at = "index" => run[q].x \in Index
    BY Held
  <2>7. QED
    BY <2>2, <2>3, <2>4, <2>5, <2>6, StillTraced DEF ChunkInv, SectionsOf
<1>10. ASSUME NEW r \in Run, Stop(r)
       PROVE  ChunkInv'
  BY <1>10, NotShowing DEF Stop, Idle
<1>11. CASE UNCHANGED vars
  BY <1>11, StillTraced DEF vars, ChunkInv, SectionsOf
<1>12. QED
  BY <1>1, <1>2, <1>3, <1>4, <1>5, <1>6, <1>7, <1>8, <1>9, <1>10, <1>11 DEF Next

LEMMA ChunkInvariant == Spec => [](TypeOK /\ SaveInv /\ ChunkInv)
BY TypeInit, TypeStep, SaveInit, SaveStep, ChunkInit, ChunkStep, PTL DEF Spec

\* Every chunk, stored or found in an index, comes from a question-answer
\* artifact of its own section.
THEOREM ChunksAreTraceable == Spec => []ChunksTraceable
<1>1. TypeOK /\ ChunkInv => ChunksTraceable
  <2> SUFFICES ASSUME TypeOK, ChunkInv, NEW c \in chunks \union UNION Range(indexed)
               PROVE  Traced(c)
    BY DEF ChunksTraceable, Traced
  <2>1. c \in chunks \/ \E x \in Index : c \in indexed[x]
    BY DEF Range, TypeOK
  <2>2. QED
    BY <2>1 DEF ChunkInv
<1>2. QED
  BY <1>1, ChunkInvariant, PTL

\* The chunks of a section come from one conversion of one artifact, unless
\* two runs replaced them at once.
THEOREM SectionsHaveOneVoice == Spec => []OneVoice
<1>1. ChunkInv => OneVoice
  BY DEF ChunkInv, OneVoice
<1>2. QED
  BY <1>1, ChunkInvariant, PTL

\* An index stage that goes through has written every chunk that was stored
\* when it began, whatever its batches.
THEOREM StagesCover == Spec => []StageCovers
<1>1. ChunkInv => StageCovers
  BY DEF ChunkInv, StageCovers
<1>2. QED
  BY <1>1, ChunkInvariant, PTL
=============================================================================
