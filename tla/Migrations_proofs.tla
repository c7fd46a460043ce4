--------------------------- MODULE Migrations_proofs ---------------------------
(***************************************************************************)
(* Proofs about the migrations of Jobs, for any number of populated tables *)
(* and any sequence of upgrades, downgrades, server starts and inserts.    *)
(*                                                                         *)
(* A database agrees with the tables of its version, or after a downgrade  *)
(* to version 4 with these but the outbox's primary key; servers may only  *)
(* have added tables that the models declare.  A revision that goes through     *)
(* does to it what it does to those tables alone.  The texts of recipes    *)
(* and the names of speakers are in known columns, and from version 8 on   *)
(* the texts of recipe_chunks are in recipes too.                          *)
(***************************************************************************)
EXTENDS Schema_proofs

-----------------------------------------------------------------------------
(* Two databases that agree on tables agree on them after an operation.    *)

Db(d) == DOMAIN d = Fields /\ d.tables = [t \in DOMAIN d.tables |-> d.tables[t]]

\* An operation leaves a database, and what has failed has failed for good.
LEMMA DbDo ==
  ASSUME NEW d, NEW op, Db(d)
  PROVE  Db(Mig!Do(d, op)) /\ (Mig!Do(d, op).ok => d.ok /\ Mig!Possible(d, op))
<1>1. CASE d.ok /\ Mig!Possible(d, op)
  <2>1. DOMAIN Mig!Do(d, op) = Fields /\ Mig!Do(d, op).tables = Mig!TablesAfter(d, op)
    BY <1>1, DoGoes
  <2>2. Mig!TablesAfter(d, op) =
          [t \in DOMAIN Mig!TablesAfter(d, op) |-> Mig!TablesAfter(d, op)[t]]
    BY DEF Mig!TablesAfter, Db, Mig!With, Mig!Restrict
  <2>3. QED
    BY <1>1, <2>1, <2>2 DEF Db
<1>2. CASE ~(d.ok /\ Mig!Possible(d, op))
  BY <1>2, DoStops DEF Db
<1>3. QED
  BY <1>1, <1>2

LEMMA DbApplied ==
  ASSUME NEW d, NEW ops, Len(ops) \in Nat, Db(d)
  PROVE  Db(Mig!Applied(d, ops)) /\ (Mig!Applied(d, ops).ok => d.ok)
<1> DEFINE N == Len(ops)
<1>0. N \in Nat
  OBVIOUS
<1>1. PICK at : Steps(at, d, ops, N) /\ Mig!Applied(d, ops) = at[N]
  BY AppliedSteps
<1> DEFINE Good == {i \in 0 .. N : Db(at[i]) /\ (at[i].ok => d.ok)}
<1>2. 0 \in Good
  BY <1>1 DEF Steps
<1>3. \A n \in 1 .. N : n - 1 \in Good => n \in Good
  <2> SUFFICES ASSUME NEW n \in 1 .. N, n - 1 \in Good
               PROVE  n \in Good
    OBVIOUS
  <2>1. at[n] = Mig!Do(at[n - 1], ops[n])
    BY <1>1 DEF Steps
  <2>2. QED
    BY <2>1, DbDo
<1> HIDE DEF Good, N
<1>4. N \in Good
  BY <1>0, <1>2, <1>3, Induced
<1>5. QED
  BY <1>1, <1>4 DEF Good

\* A database has the tables, whatever else a server created in it.
Agree(tables, d) ==
  /\ Db(d)
  /\ DOMAIN tables \subseteq DOMAIN d.tables
  /\ \A t \in DOMAIN tables : d.tables[t] = tables[t]
  /\ DOMAIN d.tables \subseteq DOMAIN tables \union DOMAIN Mig!Models

\* An operation possible on both keeps two databases in agreement.
LEMMA AgreeDo ==
  ASSUME NEW c, NEW d, NEW op, Agree(c.tables, d), Db(c), Mig!Do(c, op).ok,
         Mig!Do(d, op).ok
  PROVE  Agree(Mig!Do(c, op).tables, Mig!Do(d, op))
<1>1. c.ok /\ Mig!Possible(c, op) /\ d.ok /\ Mig!Possible(d, op)
  BY DbDo DEF Agree
<1>2. /\ Mig!Do(c, op).tables = Mig!TablesAfter(c, op)
      /\ Mig!Do(d, op).tables = Mig!TablesAfter(d, op)
  BY <1>1, DoGoes
<1>3. Db(Mig!Do(d, op))
  BY DbDo DEF Agree
<1>4. /\ DOMAIN c.tables \subseteq DOMAIN d.tables
      /\ \A t \in DOMAIN c.tables : d.tables[t] = c.tables[t]
      /\ DOMAIN d.tables \subseteq DOMAIN c.tables \union DOMAIN Mig!Models
  BY DEF Agree
<1> DEFINE u == Mig!TablesAfter(c, op)
           v == Mig!TablesAfter(d, op)
<1>5. /\ DOMAIN u \subseteq DOMAIN v
      /\ \A t \in DOMAIN u : v[t] = u[t]
      /\ DOMAIN v \subseteq DOMAIN u \union DOMAIN Mig!Models
  <2>1. CASE op.op = "create"
    <3>1. u = Mig!With(op.tables, c.tables) /\ v = Mig!With(op.tables, d.tables)
      BY <2>1, TablesCases
    <3>2. QED
      BY <3>1, <1>4 DEF Mig!With
  <2>2. CASE op.op = "drop tables"
    <3>1. /\ u = Mig!Restrict(c.tables, DOMAIN c.tables \ op.names)
          /\ v = Mig!Restrict(d.tables, DOMAIN d.tables \ op.names)
      BY <2>2, TablesCases
    <3>2. QED
      BY <3>1, <1>4 DEF Mig!Restrict
  <2>3. CASE op.op = "copy"
    <3>1. u = c.tables /\ v = d.tables
      BY <2>3, TablesCases
    <3>2. QED
      BY <3>1, <1>4
  <2>4. CASE op.op \notin {"create", "drop tables", "copy"}
    <3>1. /\ u = Put(c.tables, op.t, Mig!Altered(c.tables[op.t], op))
          /\ v = Put(d.tables, op.t, Mig!Altered(d.tables[op.t], op))
      BY <2>4 DEF Mig!TablesAfter, Put
    <3>2. op.t \in DOMAIN c.tables
      BY <1>1, <2>4 DEF Mig!Possible
    <3>3. d.tables[op.t] = c.tables[op.t]
      BY <1>4, <3>2
    <3> HIDE DEF u, v
    <3>4. QED
      BY <3>1, <3>2, <3>3, <1>4 DEF Put
  <2>5. QED
    BY <2>1, <2>2, <2>3, <2>4
<1> HIDE DEF u, v
<1>6. QED
  BY <1>2, <1>3, <1>5 DEF Agree, u, v

\* So does a revision that goes through.
LEMMA AgreeApplied ==
  ASSUME NEW c, NEW d, NEW ops, Len(ops) \in Nat, Agree(c.tables, d), Db(c),
         Mig!Applied(c, ops).ok, Mig!Applied(d, ops).ok
  PROVE  Agree(Mig!Applied(c, ops).tables, Mig!Applied(d, ops))
<1> DEFINE N == Len(ops)
<1>0. N \in Nat
  OBVIOUS
<1>1. PICK at : Steps(at, c, ops, N) /\ Mig!Applied(c, ops) = at[N]
  BY AppliedSteps
<1>2. PICK bt : Steps(bt, d, ops, N) /\ Mig!Applied(d, ops) = bt[N]
  BY AppliedSteps
<1> DEFINE Fine(i) == at[i].ok /\ bt[i].ok => Agree(at[i].tables, bt[i])
           Good == {i \in 0 .. N : Db(at[i]) /\ Db(bt[i]) /\ Fine(i)}
<1>3. 0 \in Good
  BY <1>1, <1>2 DEF Steps, Agree
<1>4. \A n \in 1 .. N : n - 1 \in Good => n \in Good
  <2> SUFFICES ASSUME NEW n \in 1 .. N, n - 1 \in Good
               PROVE  n \in Good
    OBVIOUS
  <2>1. at[n] = Mig!Do(at[n - 1], ops[n]) /\ bt[n] = Mig!Do(bt[n - 1], ops[n])
    BY <1>1, <1>2 DEF Steps
  <2>2. Db(at[n]) /\ Db(bt[n])
    BY <2>1, DbDo
  <2>3. Fine(n)
    <3> SUFFICES ASSUME at[n].ok, bt[n].ok
                 PROVE  Agree(at[n].tables, bt[n])
      OBVIOUS
    <3>1. at[n - 1].ok /\ bt[n - 1].ok
      BY <2>1, DbDo
    <3>2. Agree(at[n - 1].tables, bt[n - 1]) /\ Db(at[n - 1])
      BY <3>1
    <3>3. QED
      BY <2>1, <3>2, AgreeDo
  <2> HIDE DEF Fine
  <2>4. QED
    BY <2>2, <2>3
<1> HIDE DEF Good, Fine, N
<1>5. N \in Good
  BY <1>0, <1>3, <1>4, Induced
<1>6. QED
  BY <1>1, <1>2, <1>5 DEF Good, Fine

Route(at, d, route, N) ==
  /\ at[0] = d
  /\ \A i \in 1 .. N : at[i] = Mig!Applied(at[i - 1], route[i])

\* The databases on the way of several revisions.
LEMMA RanSteps ==
  ASSUME NEW d, NEW route, NEW N \in Nat, Len(route) = N
  PROVE  \E at : Route(at, d, route, N) /\ Mig!Ran(d, route) = at[N]
<1> DEFINE rec(f, n) == [i \in 0 .. n |->
                        IF i = 0 THEN d ELSE Mig!Applied(f[i - 1], route[i])]
           Good == {n \in 0 .. N : \E f : f = rec(f, n)}
           h == CHOOSE f : f = rec(f, N)
<1>1. 0 \in Good
  <2> DEFINE g == [i \in 0 .. 0 |-> d]
  <2>1. g = rec(g, 0)
    OBVIOUS
  <2> HIDE DEF g
  <2>2. \E f : f = rec(f, 0)
    BY <2>1, Zenon
  <2>3. QED
    BY <2>2
<1>2. ASSUME NEW n \in 1 .. N, n - 1 \in Good
      PROVE  n \in Good
  <2>1. PICK f : f = rec(f, n - 1)
    BY <1>2
  <2> DEFINE g == [i \in 0 .. n |->
                     IF i = n THEN Mig!Applied(f[n - 1], route[n]) ELSE f[i]]
  <2>2. \A i \in 0 .. n : g[i] = IF i = 0 THEN d ELSE Mig!Applied(g[i - 1], route[i])
    BY <2>1
  <2>3. g = rec(g, n)
    BY <2>2
  <2> HIDE DEF g
  <2>4. \E k : k = rec(k, n)
    BY <2>3, Zenon
  <2>5. QED
    BY <2>4
<1>3. N \in Good
  <2> HIDE DEF Good
  <2>1. QED
    BY <1>1, <1>2, Induced
<1>4. PICK f : f = rec(f, N)
  BY <1>3
<1>5. h = rec(h, N)
  BY <1>4
<1>6. Mig!Ran(d, route) = h[N]
  BY DEF Mig!Ran
<1> HIDE DEF h
<1>7. Route(h, d, route, N)
  BY <1>5 DEF Route
<1>8. QED
  BY <1>6, <1>7

-----------------------------------------------------------------------------
(* One revision, for a database that a server may have added tables to.    *)

\* An empty database with the tables.
Plain(tables) == [tables |-> tables, types |-> {}, facts |-> {}, ok |-> TRUE]

LEMMA PlainIs ==
  ASSUME NEW tables
  PROVE  Is(Plain(tables), tables, {})
BY DEF Is, Plain, Fields

LEMMA StagesAreFunctions ==
  ASSUME NEW n \in 0 .. 21
  PROVE  Stage(n) = [t \in DOMAIN Stage(n) |-> Stage(n)[t]]
<1> DEFINE F(x) == x = [t \in DOMAIN x |-> x[t]]
<1>1. /\ \A r : F(Early(r))
      /\ \A r, o : F(Middle(r, o))
      /\ F(Short)
      /\ \A s, x : F(Late(s, x))
      /\ \A s, x, c, a : F(Full(s, x, c, a))
  BY DEF Early, Middle, Short, Late, Full
<1> HIDE DEF F
<1>2. F(Stage(n))
  BY <1>1, StagesAre
<1>3. QED
  BY <1>2 DEF F

LEMMA PlainDb ==
  ASSUME NEW n \in 0 .. 21
  PROVE  Db(Plain(Stage(n))) /\ Plain(Stage(n)).tables = Stage(n)
BY StagesAreFunctions DEF Db, Plain, Fields

LEMMA Lengths ==
  ASSUME NEW n \in 1 .. 21
  PROVE  Len(Mig!Revisions[n].up) \in Nat /\ Len(Mig!Revisions[n].down) \in Nat
<1> DEFINE P(x) == Len(x.up) \in Nat /\ Len(x.down) \in Nat
<1>1. P(Mig!Baseline)
  BY DEF Mig!Baseline
<1>2. P(Mig!AddUrl)
  BY DEF Mig!AddUrl
<1>3. P(Mig!NameMayBeNull)
  BY DEF Mig!NameMayBeNull
<1>4. P(Mig!InitialOutbox)
  BY DEF Mig!InitialOutbox
<1>5. P(Mig!RenameEventId)
  BY DEF Mig!RenameEventId
<1>6. P(Mig!TimeZones)
  BY DEF Mig!TimeZones
<1>7. P(Mig!DeclareColumns)
  BY DEF Mig!DeclareColumns
<1>8. P(Mig!AddDescription)
  BY DEF Mig!AddDescription
<1>9. P(Mig!AddSource)
  BY DEF Mig!AddSource
<1>10. P(Mig!RemoveChunks)
  BY DEF Mig!RemoveChunks
<1>11. P(Mig!CreateYt)
  BY DEF Mig!CreateYt
<1>12. P(Mig!AddVideoId)
  BY DEF Mig!AddVideoId
<1>13. P(Mig!VideoIdNotNull)
  BY DEF Mig!VideoIdNotNull
<1>14. P(Mig!CleanedToJson)
  BY DEF Mig!CleanedToJson
<1>15. P(Mig!AddArtifacts)
  BY DEF Mig!AddArtifacts
<1>16. P(Mig!CleanedToText)
  BY DEF Mig!CleanedToText
<1>17. P(Mig!CurrentIndex)
  BY DEF Mig!CurrentIndex
<1>18. P(Mig!ChunkFields)
  BY DEF Mig!ChunkFields
<1>19. P(Mig!AddSpeaker)
  BY DEF Mig!AddSpeaker
<1>20. P(Mig!RemoveCleaned)
  BY DEF Mig!RemoveCleaned
<1>21. P(Mig!RenameSpeaker)
  BY DEF Mig!RenameSpeaker
<1> HIDE DEF P
<1>22. P(Mig!Revisions[n])
  BY <1>1, <1>2, <1>3, <1>4, <1>5, <1>6, <1>7, <1>8, <1>9, <1>10, <1>11, <1>12, <1>13,
     <1>14, <1>15, <1>16, <1>17, <1>18, <1>19, <1>20, <1>21, RevisionsAre
<1>23. QED
  BY <1>22 DEF P

\* Operations that go through do to a database that agrees with tables what they do
\* to these tables alone.
LEMMA Follows ==
  ASSUME NEW tables, tables = [t \in DOMAIN tables |-> tables[t]], NEW after, NEW ops,
         Len(ops) \in Nat, NEW types, Is(Mig!Applied(Plain(tables), ops), after, types),
         NEW d, Agree(tables, d), Mig!Applied(d, ops).ok
  PROVE  Agree(after, Mig!Applied(d, ops))
<1> DEFINE c == Plain(tables)
<1>1. Db(c) /\ c.tables = tables
  BY DEF Db, Plain, Fields
<1> HIDE DEF c
<1>2. Mig!Applied(c, ops).ok /\ Mig!Applied(c, ops).tables = after
  BY DEF Is, c
<1>3. QED
  BY <1>1, <1>2, AgreeApplied

\* What is kept of a database with the tables of a version, and what a downgrade to
\* a version gives.
Stands(n, d) == Agree(Stage(n), d) \/ (n = 4 /\ Agree(Unkeyed, d))
Given(n) == IF n = 4 THEN Unkeyed ELSE Stage(n)

LEMMA GivenStands ==
  ASSUME NEW n, NEW d, Agree(Given(n), d)
  PROVE  Stands(n, d)
BY DEF Given, Stands

LEMMA UnkeyedIsFunction == Unkeyed = [t \in DOMAIN Unkeyed |-> Unkeyed[t]]
BY DEF Unkeyed, Middle

\* An upgrade that goes through makes of a database that agrees with its version
\* one that agrees with the next.
LEMMA UpAgrees ==
  ASSUME NEW n \in 0 .. 20, NEW d, Stands(n, d),
         Mig!Applied(d, Mig!Revisions[n + 1].up).ok
  PROVE  Agree(Stage(n + 1), Mig!Applied(d, Mig!Revisions[n + 1].up))
<1> DEFINE ops == Mig!Revisions[n + 1].up
<1>1. Len(ops) \in Nat
  <2>1. n + 1 \in 1 .. 21
    OBVIOUS
  <2>2. QED
    BY <2>1, Lengths
<1>2. CASE Agree(Stage(n), d)
  <2>1. PICK types : Is(Mig!Applied(Plain(Stage(n)), ops), Stage(n + 1), types)
    BY PlainIs, StageUp
  <2>2. Stage(n) = [t \in DOMAIN Stage(n) |-> Stage(n)[t]]
    BY StagesAreFunctions
  <2>3. Mig!Applied(d, ops).ok
    OBVIOUS
  <2> HIDE DEF ops
  <2>4. Agree(Stage(n + 1), Mig!Applied(d, ops))
    BY <1>1, <1>2, <2>1, <2>2, <2>3, Follows
  <2>5. QED
    BY <2>4 DEF ops
<1>3. CASE n = 4 /\ Agree(Unkeyed, d)
  <2>1. Is(Mig!Applied(Plain(Unkeyed), ops), Stage(n + 1), {})
    BY <1>3, PlainIs, UnkeyedGoes
  <2>2. Mig!Applied(d, ops).ok
    OBVIOUS
  <2> HIDE DEF ops
  <2>3. Agree(Stage(n + 1), Mig!Applied(d, ops))
    BY <1>1, <1>3, <2>1, <2>2, UnkeyedIsFunction, Follows
  <2>4. QED
    BY <2>3 DEF ops
<1>4. QED
  BY <1>2, <1>3 DEF Stands

\* Text cannot be made JSON without a cast.
LEMMA NoWayBackToJson ==
  ASSUME NEW d, Agree(Stage(16), d)
  PROVE  ~Mig!Applied(d, Mig!CleanedToText.down).ok
<1> DEFINE op == Mig!CleanedToText.down[1]
<1>1. Len(Mig!CleanedToText.down) = 1
  BY DEF Mig!CleanedToText
<1>2. /\ op.op = "retype" /\ op.t = "sections" /\ op.names = {"cleaned_content"}
      /\ op.type = "json"
  BY DEF Mig!CleanedToText, Mig!Retype
<1>3. Stage(16)["sections"] = Sections11 /\ "sections" \in DOMAIN Stage(16)
  BY StagesAre DEF Full
<1>4. Sections11.cols["cleaned_content"] = "text"
  BY DEF Sections11, SectionCols11, Mig!YtTables, Mig!Table
<1>5. Db(d) /\ d.tables["sections"] = Sections11
  BY <1>3 DEF Agree
<1> HIDE DEF op
<1>6. ~Mig!Possible(d, op)
  BY <1>2, <1>4, <1>5 DEF Mig!Possible
<1>7. ~Mig!Do(d, op).ok
  BY <1>5, <1>6, DbDo
<1>8. QED
  BY <1>1, <1>7, Applied1 DEF op

\* A constraint without a name cannot be dropped.
LEMMA NoWayBackToTextChunks ==
  ASSUME NEW d, Db(d)
  PROVE  ~Mig!Applied(d, Mig!ChunkFields.down).ok
<1> DEFINE op == Mig!ChunkFields.down[2]
           e == Mig!Do(d, Mig!ChunkFields.down[1])
<1>1. Len(Mig!ChunkFields.down) = 2
  BY DEF Mig!ChunkFields
<1>2. op.op = "drop constraint None"
  BY DEF Mig!ChunkFields, Mig!Unnamed
<1>3. Db(e)
  BY DbDo
<1> HIDE DEF op, e
<1>4. ~Mig!Possible(e, op)
  BY <1>2 DEF Mig!Possible
<1>5. ~Mig!Do(e, op).ok
  BY <1>3, <1>4, DbDo
<1>6. QED
  BY <1>1, <1>5, Applied2 DEF op, e

\* The same the other way, with what it loses.
LEMMA DownAgrees ==
  ASSUME NEW n \in 0 .. 20, NEW d, Stands(n + 1, d),
         Mig!Applied(d, Mig!Revisions[n + 1].down).ok
  PROVE  Agree(Given(n), Mig!Applied(d, Mig!Revisions[n + 1].down))
<1> DEFINE ops == Mig!Revisions[n + 1].down
<1>1. Len(ops) \in Nat
  <2>1. n + 1 \in 1 .. 21
    OBVIOUS
  <2>2. QED
    BY <2>1, Lengths
<1>2. CASE Agree(Stage(n + 1), d)
  <2>1. n # 15
    BY <1>2, NoWayBackToJson, RevisionsAre
  <2>2. n # 17
    <3>1. Db(d)
      BY <1>2 DEF Agree
    <3>2. QED
      BY <3>1, NoWayBackToTextChunks, RevisionsAre
  <2>3. Is(Plain(Stage(n + 1)), Stage(n + 1), {})
    BY PlainIs
  <2>4. Is(Mig!Applied(Plain(Stage(n + 1)), ops), Given(n), {})
    <3>1. CASE n = 4
      BY <2>3, <3>1, UnkeyedGoes DEF Given
    <3>2. CASE n # 4
      BY <2>1, <2>2, <2>3, <3>2, StageDown DEF Given
    <3>3. QED
      BY <3>1, <3>2
  <2>5. Stage(n + 1) = [t \in DOMAIN Stage(n + 1) |-> Stage(n + 1)[t]]
    <3>1. n + 1 \in 0 .. 21
      OBVIOUS
    <3>2. QED
      BY <3>1, StagesAreFunctions
  <2>6. Mig!Applied(d, ops).ok
    OBVIOUS
  <2> HIDE DEF ops
  <2>7. Agree(Given(n), Mig!Applied(d, ops))
    BY <1>1, <1>2, <2>4, <2>5, <2>6, Follows
  <2>8. QED
    BY <2>7 DEF ops
<1>3. CASE n + 1 = 4 /\ Agree(Unkeyed, d)
  <2>1. n = 3
    BY <1>3
  <2>2. Is(Mig!Applied(Plain(Unkeyed), ops), Given(n), {})
    BY <2>1, PlainIs, UnkeyedGoes DEF Given
  <2>3. Mig!Applied(d, ops).ok
    OBVIOUS
  <2> HIDE DEF ops
  <2>4. Agree(Given(n), Mig!Applied(d, ops))
    BY <1>1, <1>3, <2>2, <2>3, UnkeyedIsFunction, Follows
  <2>5. QED
    BY <2>4 DEF ops
<1>4. QED
  BY <1>2, <1>3 DEF Stands

\* A server was the first to create tables, if any.
Fresh(d) == Db(d) /\ d.tables \in {Mig!NoTables, Mig!Models}

\* On an empty database the second revision fails.
LEMMA FreshStays ==
  ASSUME NEW d, Fresh(d)
  PROVE  /\ Mig!Applied(d, Mig!Baseline.up) = d /\ Mig!Applied(d, Mig!Baseline.down) = d
         /\ ~Mig!Applied(d, Mig!AddUrl.up).ok
<1> DEFINE op == Mig!AddUrl.up[1]
           then == Mig!AddUrl.up[2]
<1>1. Len(Mig!Baseline.up) = 0 /\ Len(Mig!Baseline.down) = 0
  BY DEF Mig!Baseline
<1>2. Len(Mig!AddUrl.up) = 2
  BY DEF Mig!AddUrl
<1>3. op.op = "add" /\ op.t = "recipes" /\ "source_url" \in DOMAIN op.cols
  BY DEF Mig!AddUrl, Mig!Add, Mig!UrlColumns
<1>4. "recipes" \notin DOMAIN Mig!NoTables
  BY DEF Mig!NoTables
<1>5. "source_url" \in DOMAIN Mig!Models["recipes"].cols
  BY DEF Mig!Models, Mig!RecipeModel, Mig!Table
<1>6. Db(d) /\ (d.tables = Mig!NoTables \/ d.tables = Mig!Models)
  BY DEF Fresh
<1> HIDE DEF op, then
<1>7. ~Mig!Possible(d, op)
  BY <1>3, <1>4, <1>5, <1>6 DEF Mig!Possible
<1>8. Db(Mig!Do(d, op)) /\ ~Mig!Do(d, op).ok
  BY <1>6, <1>7, DbDo
<1>9. ~Mig!Do(Mig!Do(d, op), then).ok
  BY <1>8, DbDo
<1>10. QED
  BY <1>1, <1>2, <1>9, Applied0, Applied2 DEF op, then

\* What is kept of a database at a version.
Fits(n, d) == Stands(n, d) \/ (n <= 1 /\ Fresh(d))

\* One revision up, and one down.
LEMMA FitsUp ==
  ASSUME NEW n \in 0 .. 20, NEW d, Fits(n, d),
         Mig!Applied(d, Mig!Revisions[n + 1].up).ok
  PROVE  Fits(n + 1, Mig!Applied(d, Mig!Revisions[n + 1].up))
<1>1. CASE Stands(n, d)
  BY <1>1, UpAgrees DEF Fits, Stands
<1>2. CASE n <= 1 /\ Fresh(d)
  <2>1. n = 0 \/ n = 1
    BY <1>2
  <2>2. n # 1
    BY <1>2, FreshStays, RevisionsAre
  <2>3. Fresh(Mig!Applied(d, Mig!Revisions[n + 1].up))
    BY <1>2, <2>1, <2>2, FreshStays, RevisionsAre
  <2>4. QED
    BY <2>1, <2>2, <2>3 DEF Fits
<1>3. QED
  BY <1>1, <1>2 DEF Fits

LEMMA FitsDown ==
  ASSUME NEW n \in 0 .. 20, NEW d, Fits(n + 1, d),
         Mig!Applied(d, Mig!Revisions[n + 1].down).ok
  PROVE  Fits(n, Mig!Applied(d, Mig!Revisions[n + 1].down))
<1>1. CASE Stands(n + 1, d)
  BY <1>1, DownAgrees, GivenStands DEF Fits
<1>2. CASE n + 1 <= 1 /\ Fresh(d)
  <2>1. n = 0
    BY <1>2
  <2>2. Fresh(Mig!Applied(d, Mig!Revisions[n + 1].down))
    BY <1>2, <2>1, FreshStays, RevisionsAre
  <2>3. QED
    BY <2>1, <2>2 DEF Fits
<1>3. QED
  BY <1>1, <1>2 DEF Fits

LEMMA FitsDb ==
  ASSUME NEW n, NEW d, Fits(n, d)
  PROVE  Db(d)
BY DEF Fits, Stands, Fresh, Agree

\* A way up that goes through leaves a database of the version it leads to.
LEMMA RouteUp ==
  ASSUME NEW m \in 0 .. 21, NEW n \in 0 .. 21, m <= n, NEW d, Fits(m, d)
  PROVE  Mig!Ran(d, Mig!Ups(m, n)).ok => Fits(n, Mig!Ran(d, Mig!Ups(m, n)))
<1> DEFINE N == n - m
           route == Mig!Ups(m, n)
<1>1. /\ N \in Nat /\ Len(route) = N
      /\ \A i \in 1 .. N : route[i] = Mig!Revisions[m + i].up
  BY DEF Mig!Ups
<1> HIDE DEF route
<1>2. PICK at : Route(at, d, route, N) /\ Mig!Ran(d, route) = at[N]
  <2> HIDE DEF N
  <2>1. QED
    BY <1>1, RanSteps
<1> DEFINE Good == {i \in 0 .. N : Db(at[i]) /\ (at[i].ok => Fits(m + i, at[i]))}
<1>3. 0 \in Good
  BY <1>1, <1>2, FitsDb DEF Route
<1>4. \A i \in 1 .. N : i - 1 \in Good => i \in Good
  <2> SUFFICES ASSUME NEW i \in 1 .. N, i - 1 \in Good
               PROVE  i \in Good
    OBVIOUS
  <2> DEFINE k == m + (i - 1)
  <2>1. k \in 0 .. 20 /\ k + 1 = m + i
    OBVIOUS
  <2> HIDE DEF k
  <2>2. at[i] = Mig!Applied(at[i - 1], Mig!Revisions[k + 1].up)
    BY <1>1, <1>2, <2>1 DEF Route
  <2>3. Len(Mig!Revisions[k + 1].up) \in Nat
    <3>1. k + 1 \in 1 .. 21
      BY <2>1
    <3>2. QED
      BY <3>1, Lengths
  <2>4. Db(at[i]) /\ (at[i].ok => at[i - 1].ok)
    BY <2>2, <2>3, DbApplied
  <2>5. at[i].ok => Fits(k + 1, at[i])
    <3>1. at[i - 1].ok => Fits(k, at[i - 1])
      BY DEF k
    <3>2. QED
      BY <2>1, <2>2, <2>4, <3>1, FitsUp
  <2>6. QED
    BY <2>1, <2>4, <2>5
<1> HIDE DEF Good
<1>5. N \in Good
  <2>1. N \in Nat
    BY <1>1
  <2> HIDE DEF N
  <2>2. QED
    BY <2>1, <1>3, <1>4, Induced
<1>6. QED
  BY <1>2, <1>5 DEF Good, route

\* The same for a way down.
LEMMA RouteDown ==
  ASSUME NEW m \in 0 .. 21, NEW n \in 0 .. 21, n <= m, NEW d, Fits(m, d)
  PROVE  Mig!Ran(d, Mig!Downs(m, n)).ok =>
           /\ Fits(n, Mig!Ran(d, Mig!Downs(m, n)))
           /\ (Stands(m, d) /\ n < m) => Agree(Given(n), Mig!Ran(d, Mig!Downs(m, n)))
<1> DEFINE N == m - n
           route == Mig!Downs(m, n)
<1>1. /\ N \in Nat /\ Len(route) = N
      /\ \A i \in 1 .. N : route[i] = Mig!Revisions[m + 1 - i].down
  BY DEF Mig!Downs
<1> HIDE DEF route
<1>2. PICK at : Route(at, d, route, N) /\ Mig!Ran(d, route) = at[N]
  <2> HIDE DEF N
  <2>1. QED
    BY <1>1, RanSteps
<1> DEFINE Kept(i) ==
             /\ Fits(m - i, at[i])
             /\ Stands(m, d) => Stands(m - i, at[i]) /\ (i > 0 => Agree(Given(m - i), at[i]))
           Good == {i \in 0 .. N : Db(at[i]) /\ (at[i].ok => Kept(i))}
<1>3. 0 \in Good
  BY <1>1, <1>2, FitsDb DEF Route
<1>4. \A i \in 1 .. N : i - 1 \in Good => i \in Good
  <2> SUFFICES ASSUME NEW i \in 1 .. N, i - 1 \in Good
               PROVE  i \in Good
    OBVIOUS
  <2> DEFINE k == m - i
  <2>1. k \in 0 .. 20 /\ k + 1 = m - (i - 1) /\ k + 1 = m + 1 - i /\ k + 1 \in 1 .. 21
    OBVIOUS
  <2> HIDE DEF k
  <2>2. at[i] = Mig!Applied(at[i - 1], Mig!Revisions[k + 1].down)
    BY <1>1, <1>2, <2>1 DEF Route
  <2>3. Len(Mig!Revisions[k + 1].down) \in Nat
    BY <2>1, Lengths
  <2>4. Db(at[i]) /\ (at[i].ok => at[i - 1].ok)
    BY <2>2, <2>3, DbApplied
  <2>5. at[i].ok =>
          Fits(k, at[i]) /\ (Stands(m, d) => Stands(k, at[i]) /\ Agree(Given(k), at[i]))
    <3>1. at[i - 1].ok =>
            Fits(k + 1, at[i - 1]) /\ (Stands(m, d) => Stands(k + 1, at[i - 1]))
      BY <2>1
    <3>2. QED
      BY <2>1, <2>2, <2>4, <3>1, FitsDown, DownAgrees, GivenStands
  <2>6. QED
    BY <2>4, <2>5 DEF k
<1> HIDE DEF Good, Kept
<1>5. N \in Good
  <2>1. N \in Nat
    BY <1>1
  <2> HIDE DEF N
  <2>2. QED
    BY <2>1, <1>3, <1>4, Induced
<1>6. m - N = n
  OBVIOUS
<1>7. at[N].ok => Kept(N)
  BY <1>5 DEF Good
<1>8. Kept(N) =>
        Fits(n, at[N]) /\ ((Stands(m, d) /\ n < m) => Agree(Given(n), at[N]))
  BY <1>6 DEF Kept
<1> HIDE DEF N
<1>9. QED
  BY <1>2, <1>7, <1>8 DEF route

\* The upgrades give each version its tables.
LEMMA CourseIs ==
  ASSUME NEW n \in 0 .. 21
  PROVE  Mig!Course[n].tables = Stage(n)
<1> DEFINE d == Plain(Mig!Legacy)
           route == Mig!Ups(0, n)
<1>1. n \in Nat /\ Len(route) = n /\ \A i \in 1 .. n : route[i] = Mig!Revisions[i].up
  BY DEF Mig!Ups
<1>2. Mig!Course[n] = Mig!Ran(d, route)
  BY RevisionsAre DEF Mig!Course, Plain
<1>3. Mig!Legacy = Stage(0)
  BY StagesAre DEF Mig!Legacy, Early, Recipes0, RecipeCols0, RecipeNull0,
         RecipeKeys0, Mig!Table
<1> HIDE DEF route
<1>4. PICK at : Route(at, d, route, n) /\ Mig!Ran(d, route) = at[n]
  <2> HIDE DEF d
  <2>1. QED
    BY <1>1, RanSteps
<1> DEFINE Exact(i) == \E types : Is(at[i], Stage(i), types) /\ (i <= 10 => types = {})
           Good == {i \in 0 .. n : Exact(i)}
<1>5. 0 \in Good
  <2>1. Is(d, Stage(0), {})
    BY <1>3, PlainIs
  <2>2. at[0] = d
    BY <1>4 DEF Route
  <2> HIDE DEF d
  <2>3. QED
    BY <2>1, <2>2
<1>6. \A i \in 1 .. n : i - 1 \in Good => i \in Good
  <2> SUFFICES ASSUME NEW i \in 1 .. n, i - 1 \in Good
               PROVE  i \in Good
    OBVIOUS
  <2> DEFINE k == i - 1
  <2>1. k \in 0 .. 20 /\ k + 1 = i /\ k \in Good
    OBVIOUS
  <2> HIDE DEF k
  <2>2. at[k + 1] = Mig!Applied(at[k], Mig!Revisions[k + 1].up)
    BY <1>1, <1>4, <2>1 DEF Route, k
  <2>3. PICK types : Is(at[k], Stage(k), types) /\ (k <= 10 => types = {})
    BY <2>1
  <2>4. PICK new : Is(at[k + 1], Stage(k + 1), new) /\ (k < 10 => new = {})
    BY <2>1, <2>2, <2>3, StageUp
  <2>5. Exact(k + 1)
    BY <2>1, <2>4
  <2> HIDE DEF Exact
  <2>6. QED
    BY <2>1, <2>5
<1> HIDE DEF Good, Exact
<1>7. n \in Good
  BY <1>1, <1>5, <1>6, Induced
<1>8. QED
  BY <1>2, <1>4, <1>7 DEF Good, Exact, Is

-----------------------------------------------------------------------------
(* The invariant of the schema.                                            *)

\* The database has the tables of its version, and others that the models declare.
SchemaInv == version \in 0 .. 21 /\ db.ok /\ Fits(version, db)

\* The invariant holds at first, and every step keeps it.
LEMMA SchemaInit == Mig!Init => SchemaInv
<1> SUFFICES ASSUME Mig!Init
             PROVE  SchemaInv
  OBVIOUS
<1>1. PICK tables \in {Mig!NoTables, Mig!Legacy} : db = Plain(tables)
  BY DEF Mig!Init, Plain
<1>2. version = 0
  BY DEF Mig!Init
<1>3. Mig!Legacy = Stage(0)
  BY StagesAre DEF Mig!Legacy, Early, Recipes0, RecipeCols0, RecipeNull0,
         RecipeKeys0, Mig!Table
<1>4. db.ok
  BY <1>1 DEF Plain
<1>5. CASE tables = Mig!NoTables
  <2>1. Db(Plain(Mig!NoTables)) /\ Plain(Mig!NoTables).tables = Mig!NoTables
    BY DEF Db, Plain, Fields, Mig!NoTables
  <2>2. QED
    BY <1>1, <1>2, <1>4, <1>5, <2>1 DEF SchemaInv, Fits, Fresh
<1>6. CASE tables = Mig!Legacy
  <2>1. Db(db) /\ db.tables = Stage(0)
    BY <1>1, <1>3, <1>6, PlainDb
  <2>2. Agree(Stage(0), db)
    BY <2>1 DEF Agree
  <2>3. QED
    BY <1>2, <1>4, <2>2 DEF SchemaInv, Fits, Stands
<1>7. QED
  BY <1>1, <1>5, <1>6

LEMMA SchemaStep == SchemaInv /\ [Mig!Next]_Mig!vars => SchemaInv'
<1> SUFFICES ASSUME SchemaInv, [Mig!Next]_Mig!vars
             PROVE  SchemaInv'
  OBVIOUS
<1>1. version \in 0 .. 21 /\ db.ok /\ Fits(version, db) /\ Mig!Latest = 21
  BY RevisionsAre DEF SchemaInv
<1>2. CASE Mig!Upgrade
  <2>1. PICK n \in version + 1 .. 21 :
          /\ Mig!Ran(db, Mig!Ups(version, n)).ok
          /\ version' = n
          /\ db' = Mig!Ran(db, Mig!Ups(version, n))
    BY <1>1, <1>2 DEF Mig!Upgrade
  <2>2. n \in 0 .. 21 /\ version <= n
    BY <1>1
  <2>3. Fits(n, Mig!Ran(db, Mig!Ups(version, n)))
    BY <1>1, <2>1, <2>2, RouteUp
  <2>4. QED
    BY <2>1, <2>2, <2>3 DEF SchemaInv
<1>3. CASE Mig!Downgrade
  <2>1. PICK n \in 0 .. version - 1 :
          /\ Mig!Ran(db, Mig!Downs(version, n)).ok
          /\ version' = n
          /\ db' = Mig!Ran(db, Mig!Downs(version, n))
    BY <1>3 DEF Mig!Downgrade
  <2>2. n \in 0 .. 21 /\ n <= version
    BY <1>1
  <2>3. Fits(n, Mig!Ran(db, Mig!Downs(version, n)))
    BY <1>1, <2>1, <2>2, RouteDown
  <2>4. QED
    BY <2>1, <2>2, <2>3 DEF SchemaInv
<1>4. CASE Mig!StartServer
  <2> DEFINE missing == Mig!Restrict(Mig!Models, DOMAIN Mig!Models \ DOMAIN db.tables)
             more == Mig!With(missing, db.tables)
  <2>1. /\ db' = [db EXCEPT !.tables = more, !.types = @ \union Mig!EnumsOf(missing)]
        /\ version' = version
    BY <1>4 DEF Mig!StartServer
  <2>2. Db(db)
    BY <1>1, FitsDb
  <2>3. /\ DOMAIN missing = DOMAIN Mig!Models \ DOMAIN db.tables
        /\ \A t \in DOMAIN missing : missing[t] = Mig!Models[t]
    BY DEF Mig!Restrict
  <2> HIDE DEF missing
  <2>4. /\ DOMAIN more = DOMAIN Mig!Models \union DOMAIN db.tables
        /\ \A t \in DOMAIN db.tables : more[t] = db.tables[t]
        /\ \A t \in DOMAIN Mig!Models \ DOMAIN db.tables : more[t] = Mig!Models[t]
        /\ more = [t \in DOMAIN more |-> more[t]]
    BY <2>3 DEF Mig!With
  <2> HIDE DEF more
  <2>5. Db(db') /\ db'.tables = more /\ db'.ok
    BY <1>1, <2>1, <2>2, <2>4 DEF Db, Fields
  <2>6. CASE Stands(version, db)
    <3>1. \A tables : Agree(tables, db) => Agree(tables, db')
      BY <2>4, <2>5 DEF Agree
    <3>2. Stands(version, db')
      BY <2>6, <3>1 DEF Stands
    <3>3. QED
      BY <1>1, <2>1, <2>5, <3>2 DEF SchemaInv, Fits
  <2>7. CASE version <= 1 /\ Fresh(db)
    <3>1. Mig!Models = [t \in DOMAIN Mig!Models |-> Mig!Models[t]]
      BY DEF Mig!Models
    <3>2. DOMAIN Mig!NoTables = {}
      BY DEF Mig!NoTables
    <3>3. more = Mig!Models
      BY <2>4, <2>7, <3>1, <3>2 DEF Fresh
    <3>4. Fresh(db')
      BY <2>5, <3>3 DEF Fresh
    <3>5. QED
      BY <1>1, <2>1, <2>5, <2>7, <3>4 DEF SchemaInv, Fits
  <2>8. QED
    BY <1>1, <2>6, <2>7 DEF Fits
<1>5. CASE Mig!Insert
  <2>1. PICK new : db' = [db EXCEPT !.facts = new] /\ version' = version
    BY <1>5 DEF Mig!Insert
  <2>2. Db(db)
    BY <1>1, FitsDb
  <2>3. Db(db') /\ db'.tables = db.tables /\ db'.ok
    BY <1>1, <2>1, <2>2 DEF Db, Fields
  <2>4. Fits(version, db')
    BY <1>1, <2>3 DEF Fits, Stands, Agree, Fresh
  <2>5. QED
    BY <1>1, <2>1, <2>3, <2>4 DEF SchemaInv
<1>6. CASE UNCHANGED Mig!vars
  BY <1>6 DEF Mig!vars, SchemaInv
<1>7. QED
  BY <1>2, <1>3, <1>4, <1>5, <1>6 DEF Mig!Next

\* At the last version nothing but the last stage is left to agree with.
LEMMA HeadIsLastStage == SchemaInv => Mig!HeadLacksOneKey
<1> DEFINE last == [Mig!Models EXCEPT !.outbox = Mig!WithoutPrimaryKey(@)]
<1> SUFFICES ASSUME SchemaInv, version = 21
             PROVE  db.tables = last
  BY RevisionsAre DEF Mig!HeadLacksOneKey
<1>1. Stage(21) = last
  BY LastStage
<1>2. DOMAIN last = DOMAIN Mig!Models /\ last = [t \in DOMAIN last |-> last[t]]
  BY DEF Mig!Models
<1> HIDE DEF last
<1>3. Agree(last, db)
  BY <1>1 DEF SchemaInv, Fits, Stands
<1>4. QED
  BY <1>2, <1>3 DEF Agree, Db

\* What a downgrade gives are the tables of its version, but for the one key.
LEMMA GivenIsFound ==
  ASSUME NEW n \in 0 .. 21
  PROVE  /\ DOMAIN Given(n) = DOMAIN Mig!Course[n].tables
         /\ \A t \in DOMAIN Given(n) : Given(n)[t] = Mig!Found(n, t)
<1>1. Mig!Course[n].tables = Stage(n)
  BY CourseIs
<1>2. CASE n = 4
  <2>1. Given(n) = Unkeyed
    BY <1>2 DEF Given
  <2>2. "outbox" \in DOMAIN Unkeyed
    BY DEF Unkeyed, Middle
  <2>3. QED
    BY <1>1, <1>2, <2>1, <2>2, UnkeyedIs DEF Mig!Found
<1>3. CASE n # 4
  BY <1>1, <1>3 DEF Given, Mig!Found
<1>4. QED
  BY <1>2, <1>3

LEMMA DownGives ==
  ASSUME SchemaInv, [Mig!Next]_Mig!vars, version' < version, version > 1
  PROVE  \A t \in DOMAIN Mig!Course[version'].tables :
           t \in DOMAIN db'.tables /\ db'.tables[t] = Mig!Found(version', t)
<1>1. version \in 0 .. 21 /\ Fits(version, db)
  BY DEF SchemaInv
<1>2. Mig!Downgrade
  <2>1. ~Mig!Upgrade
    BY <1>1 DEF Mig!Upgrade
  <2>2. version' # version
    BY <1>1
  <2>3. QED
    BY <2>1, <2>2 DEF Mig!Next, Mig!StartServer, Mig!Insert, Mig!vars
<1>3. PICK n \in 0 .. version - 1 :
        /\ Mig!Ran(db, Mig!Downs(version, n)).ok
        /\ version' = n
        /\ db' = Mig!Ran(db, Mig!Downs(version, n))
  BY <1>2 DEF Mig!Downgrade
<1>4. n \in 0 .. 21 /\ n < version /\ Stands(version, db)
  BY <1>1 DEF Fits
<1>5. Agree(Given(n), db')
  BY <1>1, <1>3, <1>4, RouteDown
<1>6. QED
  BY <1>3, <1>4, <1>5, GivenIsFound DEF Agree

-----------------------------------------------------------------------------
(* The texts that the facts tell of.                                       *)

RecipeTexts == {"overview", "instruction"}
Voices == {"primary_speaker", "speaker"}
TextCols == {"content", "description", "steps"} \union Voices

TextsOf(d) == {g \in d.facts : g[3] \in Mig!Texts}

\* Where a text may be.
InPlace(g) ==
  /\ g = <<g[1], g[2], g[3]>>
  /\ \/ /\ g[3] \in RecipeTexts
        /\ <<g[1], g[2]>> \in {<<"recipe_chunks", "content">>, <<"recipes", "description">>,
                              <<"recipes", "steps">>}
     \/ g[3] = "speaker" /\ g[1] # "recipe_chunks" /\ g[2] \in Voices

\* A text of recipe_chunks is in recipes too.
Moved(X) ==
  /\ <<"recipe_chunks", "content", "overview">> \in X =>
       <<"recipes", "description", "overview">> \in X
  /\ <<"recipe_chunks", "content", "instruction">> \in X =>
       <<"recipes", "steps", "instruction">> \in X

TextInv(n, X) == (\A g \in X : InPlace(g)) /\ (n >= 8 => Moved(X))

\* An operation that adds no text, one that leaves texts alone, and one that leaves
\* those of recipes where they are.
Lossy(op) == op.op # "copy"
Quiet(op) == /\ op.op \notin {"copy", "drop tables"}
             /\ op.op = "drop" => op.names \intersect TextCols = {}
Sparing(op) ==
  /\ op.op = "drop" =>
       op.t # "recipes" \/ op.names \intersect {"description", "steps"} = {}
  /\ op.op = "drop tables" => "recipes" \notin op.names

\* What an operation does to the texts.
LEMMA TextsAfter ==
  ASSUME NEW d, NEW op
  PROVE  LET X == TextsOf(d)
             Y == {g \in Mig!FactsAfter(d, op) : g[3] \in Mig!Texts}
         IN  /\ op.op = "drop tables" => Y = {g \in X : g[1] \notin op.names}
             /\ op.op = "drop" => Y = {g \in X : g[1] # op.t \/ g[2] \notin op.names}
             /\ op.op \notin {"copy", "drop tables", "drop"} => Y = X
             /\ (op.op = "copy" /\ op.fact \in Mig!Texts) =>
                  Y = IF <<op.from[1], op.from[2], op.fact>> \in X
                      THEN X \union {<<op.t, op.c, op.fact>>} ELSE X
<1> DEFINE X == TextsOf(d)
           Y == {g \in Mig!FactsAfter(d, op) : g[3] \in Mig!Texts}
<1>1. CASE op.op = "drop tables"
  <2>1. Mig!FactsAfter(d, op) = {f \in d.facts : f[1] \notin op.names}
    BY <1>1 DEF Mig!FactsAfter
  <2>2. QED
    BY <1>1, <2>1 DEF TextsOf
<1>2. CASE op.op = "drop"
  <2>1. Mig!FactsAfter(d, op) = {f \in d.facts : f[1] # op.t \/ f[2] \notin op.names}
    BY <1>2 DEF Mig!FactsAfter
  <2>2. QED
    BY <1>2, <2>1 DEF TextsOf
<1>3. CASE op.op = "copy"
  <2> DEFINE u == <<op.from[1], op.from[2], op.fact>>
             v == <<op.t, op.c, op.fact>>
  <2>1. Mig!FactsAfter(d, op) = IF u \in d.facts THEN d.facts \union {v} ELSE d.facts
    BY <1>3 DEF Mig!FactsAfter
  <2>2. u[3] = op.fact /\ v[3] = op.fact
    OBVIOUS
  <2> HIDE DEF u, v
  <2>3. op.fact \in Mig!Texts => Y = IF u \in X THEN X \union {v} ELSE X
    BY <2>1, <2>2 DEF TextsOf
  <2>4. QED
    BY <1>3, <2>3 DEF u, v
<1>4. CASE op.op \notin {"copy", "drop tables", "drop"}
  <2> DEFINE N == {<<op.t, c, "null">> : c \in Mig!Asked \intersect DOMAIN op.cols}
  <2>1. Mig!FactsAfter(d, op) = d.facts \/ Mig!FactsAfter(d, op) = d.facts \union N
    BY <1>4 DEF Mig!FactsAfter
  <2>2. \A g \in N : g[3] \notin Mig!Texts
    BY DEF Mig!Texts
  <2> HIDE DEF N
  <2>3. QED
    BY <1>4, <2>1, <2>2 DEF TextsOf
<1>5. QED
  BY <1>1, <1>2, <1>3, <1>4

LEMMA TextsDo ==
  ASSUME NEW d, NEW op, Db(d)
  PROVE  /\ Lossy(op) => TextsOf(Mig!Do(d, op)) \subseteq TextsOf(d)
         /\ Quiet(op) /\ (\A g \in TextsOf(d) : InPlace(g)) =>
              TextsOf(Mig!Do(d, op)) = TextsOf(d)
         /\ Lossy(op) /\ Sparing(op) =>
              \A g \in TextsOf(d) :
                g[1] = "recipes" /\ g[2] \in {"description", "steps"} =>
                  g \in TextsOf(Mig!Do(d, op))
<1> DEFINE X == TextsOf(d)
           Y == TextsOf(Mig!Do(d, op))
<1>1. CASE d.ok /\ Mig!Possible(d, op)
  <2>1. Y = {g \in Mig!FactsAfter(d, op) : g[3] \in Mig!Texts}
    BY <1>1, DoGoes DEF TextsOf
  <2>2. /\ op.op = "drop tables" => Y = {g \in X : g[1] \notin op.names}
        /\ op.op = "drop" => Y = {g \in X : g[1] # op.t \/ g[2] \notin op.names}
        /\ op.op \notin {"copy", "drop tables", "drop"} => Y = X
    BY <2>1, TextsAfter
  <2>3. \A g \in X : InPlace(g) => g[2] \in TextCols
    BY DEF InPlace, TextCols, Voices
  <2> HIDE DEF X, Y
  <2>4. Lossy(op) => Y \subseteq X
    BY <2>2 DEF Lossy
  <2>5. Quiet(op) /\ (\A g \in X : InPlace(g)) => Y = X
    BY <2>2, <2>3 DEF Quiet
  <2>6. Lossy(op) /\ Sparing(op) =>
          \A g \in X : g[1] = "recipes" /\ g[2] \in {"description", "steps"} => g \in Y
    BY <2>2 DEF Lossy, Sparing
  <2>7. QED
    BY <2>4, <2>5, <2>6 DEF X, Y
<1>2. CASE ~(d.ok /\ Mig!Possible(d, op))
  <2>1. Mig!Do(d, op).facts = d.facts
    BY <1>2, DoStops DEF Db
  <2>2. Y = X
    BY <2>1 DEF TextsOf
  <2>3. QED
    BY <2>2
<1>3. QED
  BY <1>1, <1>2

\* What a revision does to them, by the kinds of its operations.
LEMMA TextsApplied ==
  ASSUME NEW d, NEW ops, Len(ops) \in Nat, Db(d), \A g \in TextsOf(d) : InPlace(g),
         \A i \in 1 .. Len(ops) : Lossy(ops[i])
  PROVE  LET X == TextsOf(d)
             Y == TextsOf(Mig!Applied(d, ops))
         IN  /\ Y \subseteq X
             /\ (\A i \in 1 .. Len(ops) : Quiet(ops[i])) => Y = X
             /\ (\A i \in 1 .. Len(ops) : Sparing(ops[i])) =>
                  \A g \in X : g[1] = "recipes" /\ g[2] \in {"description", "steps"} =>
                    g \in Y
<1> DEFINE N == Len(ops)
           X == TextsOf(d)
           AllQuiet == \A i \in 1 .. N : Quiet(ops[i])
           AllSparing == \A i \in 1 .. N : Sparing(ops[i])
           Spared(Y) == \A g \in X :
             g[1] = "recipes" /\ g[2] \in {"description", "steps"} => g \in Y
           Less(Y) == Y \subseteq X /\ (AllQuiet => Y = X) /\ (AllSparing => Spared(Y))
<1>0. N \in Nat
  OBVIOUS
<1>1. PICK at : Steps(at, d, ops, N) /\ Mig!Applied(d, ops) = at[N]
  BY AppliedSteps
<1> DEFINE Good == {i \in 0 .. N : Db(at[i]) /\ Less(TextsOf(at[i]))}
<1>2. 0 \in Good
  BY <1>1 DEF Steps
<1>3. \A n \in 1 .. N : n - 1 \in Good => n \in Good
  <2> SUFFICES ASSUME NEW n \in 1 .. N, n - 1 \in Good
               PROVE  n \in Good
    OBVIOUS
  <2> DEFINE e == at[n - 1]
             op == ops[n]
             W == TextsOf(e)
             Y == TextsOf(Mig!Do(e, op))
  <2>1. at[n] = Mig!Do(e, op)
    BY <1>1 DEF Steps
  <2>2. Lossy(op) /\ (AllQuiet => Quiet(op)) /\ (AllSparing => Sparing(op))
    OBVIOUS
  <2>3. Db(e) /\ W \subseteq X /\ (AllQuiet => W = X) /\ (AllSparing => Spared(W))
    OBVIOUS
  <2>4. \A g \in W : InPlace(g)
    BY <2>3
  <2> HIDE DEF e, op
  <2>5. /\ Y \subseteq W
        /\ Quiet(op) => Y = W
        /\ Sparing(op) =>
              \A g \in W : g[1] = "recipes" /\ g[2] \in {"description", "steps"} =>
                g \in Y
    BY <2>2, <2>3, <2>4, TextsDo
  <2> HIDE DEF W, Y, X, AllQuiet, AllSparing
  <2>6. Less(Y)
    BY <2>2, <2>3, <2>5
  <2>7. Db(at[n])
    BY <2>1, <2>3, DbDo
  <2> HIDE DEF Less
  <2>8. QED
    BY <2>1, <2>6, <2>7 DEF Y
<1> HIDE DEF Good, Less, N
<1>4. N \in Good
  <2>1. 0 .. N \subseteq Good
    BY ONLY <1>0, <1>2, <1>3, Induced
  <2>2. QED
    BY <1>0, <2>1
<1>5. Less(TextsOf(Mig!Applied(d, ops)))
  BY <1>1, <1>4 DEF Good
<1>6. QED
  BY <1>5 DEF Less, N

\* As long as recipe_chunks is there, it is as the first tables had it.
LEMMA ChunksAre ==
  ASSUME NEW n \in 0 .. 21, NEW d, Fits(n, d), "recipe_chunks" \in DOMAIN d.tables
  PROVE  d.tables["recipe_chunks"] = Mig!Legacy.recipe_chunks
<1>1. "recipe_chunks" \notin DOMAIN Mig!Models /\
        "recipe_chunks" \notin DOMAIN Mig!NoTables
  BY DEF Mig!Models, Mig!NoTables
<1>2. PICK tables \in {Stage(n), Unkeyed} : Agree(tables, d)
  BY <1>1 DEF Fits, Stands, Fresh
<1>3. /\ "recipe_chunks" \in DOMAIN tables
      /\ d.tables["recipe_chunks"] = tables["recipe_chunks"]
  BY <1>1, <1>2 DEF Agree
<1> DEFINE P(x) == "recipe_chunks" \in DOMAIN x =>
      x["recipe_chunks"] = Mig!Legacy.recipe_chunks
<1>4. /\ \A r : P(Early(r))
      /\ \A r, o : P(Middle(r, o))
      /\ P(Short)
      /\ \A s, x : P(Late(s, x))
      /\ \A s, x, c, a : P(Full(s, x, c, a))
  BY DEF Early, Middle, Short, Late, Full
<1> HIDE DEF P
<1>5. P(Stage(n)) /\ P(Unkeyed)
  BY <1>4, StagesAre DEF Unkeyed
<1>6. QED
  BY <1>3, <1>5 DEF P

AllQuiet(ops) == \A i \in 1 .. Len(ops) : Quiet(ops[i])
AllLossy(ops) == \A i \in 1 .. Len(ops) : Lossy(ops[i])
AllSparing(ops) == \A i \in 1 .. Len(ops) : Sparing(ops[i])

LEMMA QuietIsLossy ==
  ASSUME NEW ops, AllQuiet(ops)
  PROVE  AllLossy(ops)
BY DEF AllQuiet, AllLossy, Quiet, Lossy

\* These upgrades leave every text where it is.
LEMMA QuietUps ==
  ASSUME NEW n \in 0 .. 20, n \notin {7, 9, 20}
  PROVE  AllQuiet(Mig!Revisions[n + 1].up)
<1>1. CASE n = 0
  <2>1. Len(Mig!Baseline.up) = 0
    BY DEF Mig!Baseline
  <2>2. AllQuiet(Mig!Baseline.up)
    BY <2>1 DEF AllQuiet
  <2>3. QED
    BY <1>1, <2>2, RevisionsAre
<1>2. CASE n = 1
  <2>1. Len(Mig!AddUrl.up) = 2
    BY DEF Mig!AddUrl
  <2>2. Quiet(Mig!AddUrl.up[1])
    BY DEF Mig!AddUrl, Mig!Add, Quiet, TextCols, Voices
  <2>3. Quiet(Mig!AddUrl.up[2])
    BY DEF Mig!AddUrl, Mig!Index, Quiet, TextCols, Voices
  <2>4. AllQuiet(Mig!AddUrl.up)
    BY <2>1, <2>2, <2>3 DEF AllQuiet
  <2>5. QED
    BY <1>2, <2>4, RevisionsAre
<1>3. CASE n = 2
  <2>1. Len(Mig!NameMayBeNull.up) = 1
    BY DEF Mig!NameMayBeNull
  <2>2. Quiet(Mig!NameMayBeNull.up[1])
    BY DEF Mig!NameMayBeNull, Mig!MayBeNull, Quiet, TextCols, Voices
  <2>3. AllQuiet(Mig!NameMayBeNull.up)
    BY <2>1, <2>2 DEF AllQuiet
  <2>4. QED
    BY <1>3, <2>3, RevisionsAre
<1>4. CASE n = 3
  <2>1. Len(Mig!InitialOutbox.up) = 1
    BY DEF Mig!InitialOutbox
  <2>2. Quiet(Mig!InitialOutbox.up[1])
    BY DEF Mig!InitialOutbox, Mig!Create, Quiet, TextCols, Voices
  <2>3. AllQuiet(Mig!InitialOutbox.up)
    BY <2>1, <2>2 DEF AllQuiet
  <2>4. QED
    BY <1>4, <2>3, RevisionsAre
<1>5. CASE n = 4
  <2>1. Len(Mig!RenameEventId.up) = 2
    BY DEF Mig!RenameEventId
  <2>2. Quiet(Mig!RenameEventId.up[1])
    BY DEF Mig!RenameEventId, Mig!Add, Quiet, TextCols, Voices
  <2>3. Quiet(Mig!RenameEventId.up[2])
    BY DEF Mig!RenameEventId, Mig!Drop, Quiet, TextCols, Voices
  <2>4. AllQuiet(Mig!RenameEventId.up)
    BY <2>1, <2>2, <2>3 DEF AllQuiet
  <2>5. QED
    BY <1>5, <2>4, RevisionsAre
<1>6. CASE n = 5
  <2>1. Len(Mig!TimeZones.up) = 2
    BY DEF Mig!TimeZones
  <2>2. Quiet(Mig!TimeZones.up[1])
    BY DEF Mig!TimeZones, Mig!Retype, Quiet, TextCols, Voices
  <2>3. Quiet(Mig!TimeZones.up[2])
    BY DEF Mig!TimeZones, Mig!Retype, Quiet, TextCols, Voices
  <2>4. AllQuiet(Mig!TimeZones.up)
    BY <2>1, <2>2, <2>3 DEF AllQuiet
  <2>5. QED
    BY <1>6, <2>4, RevisionsAre
<1>7. CASE n = 6
  <2>1. Len(Mig!DeclareColumns.up) = 2
    BY DEF Mig!DeclareColumns
  <2>2. Quiet(Mig!DeclareColumns.up[1])
    BY DEF Mig!DeclareColumns, Mig!NotNull, Quiet, TextCols, Voices
  <2>3. Quiet(Mig!DeclareColumns.up[2])
    BY DEF Mig!DeclareColumns, Mig!NotNull, Quiet, TextCols, Voices
  <2>4. AllQuiet(Mig!DeclareColumns.up)
    BY <2>1, <2>2, <2>3 DEF AllQuiet
  <2>5. QED
    BY <1>7, <2>4, RevisionsAre
<1>8. CASE n = 8
  <2>1. Len(Mig!AddSource.up) = 1
    BY DEF Mig!AddSource
  <2>2. Quiet(Mig!AddSource.up[1])
    BY DEF Mig!AddSource, Mig!Add, Quiet, TextCols, Voices
  <2>3. AllQuiet(Mig!AddSource.up)
    BY <2>1, <2>2 DEF AllQuiet
  <2>4. QED
    BY <1>8, <2>3, RevisionsAre
<1>9. CASE n = 10
  <2>1. Len(Mig!CreateYt.up) = 1
    BY DEF Mig!CreateYt
  <2>2. Quiet(Mig!CreateYt.up[1])
    BY DEF Mig!CreateYt, Mig!Create, Quiet, TextCols, Voices
  <2>3. AllQuiet(Mig!CreateYt.up)
    BY <2>1, <2>2 DEF AllQuiet
  <2>4. QED
    BY <1>9, <2>3, RevisionsAre
<1>10. CASE n = 11
  <2>1. Len(Mig!AddVideoId.up) = 1
    BY DEF Mig!AddVideoId
  <2>2. Quiet(Mig!AddVideoId.up[1])
    BY DEF Mig!AddVideoId, Mig!Add, Quiet, TextCols, Voices
  <2>3. AllQuiet(Mig!AddVideoId.up)
    BY <2>1, <2>2 DEF AllQuiet
  <2>4. QED
    BY <1>10, <2>3, RevisionsAre
<1>11. CASE n = 12
  <2>1. Len(Mig!VideoIdNotNull.up) = 1
    BY DEF Mig!VideoIdNotNull
  <2>2. Quiet(Mig!VideoIdNotNull.up[1])
    BY DEF Mig!VideoIdNotNull, Mig!NotNull, Quiet, TextCols, Voices
  <2>3. AllQuiet(Mig!VideoIdNotNull.up)
    BY <2>1, <2>2 DEF AllQuiet
  <2>4. QED
    BY <1>11, <2>3, RevisionsAre
<1>12. CASE n = 13
  <2>1. Len(Mig!CleanedToJson.up) = 1
    BY DEF Mig!CleanedToJson
  <2>2. Quiet(Mig!CleanedToJson.up[1])
    BY DEF Mig!CleanedToJson, Mig!Cast, Quiet, TextCols, Voices
  <2>3. AllQuiet(Mig!CleanedToJson.up)
    BY <2>1, <2>2 DEF AllQuiet
  <2>4. QED
    BY <1>12, <2>3, RevisionsAre
<1>13. CASE n = 14
  <2>1. Len(Mig!AddArtifacts.up) = 1
    BY DEF Mig!AddArtifacts
  <2>2. Quiet(Mig!AddArtifacts.up[1])
    BY DEF Mig!AddArtifacts, Mig!Create, Quiet, TextCols, Voices
  <2>3. AllQuiet(Mig!AddArtifacts.up)
    BY <2>1, <2>2 DEF AllQuiet
  <2>4. QED
    BY <1>13, <2>3, RevisionsAre
<1>14. CASE n = 15
  <2>1. Len(Mig!CleanedToText.up) = 1
    BY DEF Mig!CleanedToText
  <2>2. Quiet(Mig!CleanedToText.up[1])
    BY DEF Mig!CleanedToText, Mig!Retype, Quiet, TextCols, Voices
  <2>3. AllQuiet(Mig!CleanedToText.up)
    BY <2>1, <2>2 DEF AllQuiet
  <2>4. QED
    BY <1>14, <2>3, RevisionsAre
<1>15. CASE n = 16
  <2>1. Len(Mig!CurrentIndex.up) = 1
    BY DEF Mig!CurrentIndex
  <2>2. Quiet(Mig!CurrentIndex.up[1])
    BY DEF Mig!CurrentIndex, Mig!Index, Quiet, TextCols, Voices
  <2>3. AllQuiet(Mig!CurrentIndex.up)
    BY <2>1, <2>2 DEF AllQuiet
  <2>4. QED
    BY <1>15, <2>3, RevisionsAre
<1>16. CASE n = 17
  <2>1. Len(Mig!ChunkFields.up) = 5
    BY DEF Mig!ChunkFields
  <2>2. Quiet(Mig!ChunkFields.up[1])
    BY DEF Mig!ChunkFields, Mig!Add, Quiet, TextCols, Voices
  <2>3. Quiet(Mig!ChunkFields.up[2])
    BY DEF Mig!ChunkFields, Mig!Add, Quiet, TextCols, Voices
  <2>4. Quiet(Mig!ChunkFields.up[3])
    BY DEF Mig!ChunkFields, Mig!Unindex, Quiet, TextCols, Voices
  <2>5. Quiet(Mig!ChunkFields.up[4])
    BY DEF Mig!ChunkFields, Mig!Index, Quiet, TextCols, Voices
  <2>6. Quiet(Mig!ChunkFields.up[5])
    BY DEF Mig!ChunkFields, Mig!Drop, Quiet, TextCols, Voices
  <2>7. AllQuiet(Mig!ChunkFields.up)
    BY <2>1, <2>2, <2>3, <2>4, <2>5, <2>6 DEF AllQuiet
  <2>8. QED
    BY <1>16, <2>7, RevisionsAre
<1>17. CASE n = 18
  <2>1. Len(Mig!AddSpeaker.up) = 1
    BY DEF Mig!AddSpeaker
  <2>2. Quiet(Mig!AddSpeaker.up[1])
    BY DEF Mig!AddSpeaker, Mig!Add, Quiet, TextCols, Voices
  <2>3. AllQuiet(Mig!AddSpeaker.up)
    BY <2>1, <2>2 DEF AllQuiet
  <2>4. QED
    BY <1>17, <2>3, RevisionsAre
<1>18. CASE n = 19
  <2>1. Len(Mig!RemoveCleaned.up) = 1
    BY DEF Mig!RemoveCleaned
  <2>2. Quiet(Mig!RemoveCleaned.up[1])
    BY DEF Mig!RemoveCleaned, Mig!Drop, Quiet, TextCols, Voices
  <2>3. AllQuiet(Mig!RemoveCleaned.up)
    BY <2>1, <2>2 DEF AllQuiet
  <2>4. QED
    BY <1>18, <2>3, RevisionsAre
<1>19. QED
  BY <1>1, <1>2, <1>3, <1>4, <1>5, <1>6, <1>7, <1>8, <1>9, <1>10, <1>11, <1>12, <1>13,
     <1>14, <1>15, <1>16, <1>17, <1>18

\* These downgrades copy nothing, and leave the later of them the texts of recipes alone.
LEMMA LossyDowns ==
  ASSUME NEW n \in 0 .. 19
  PROVE  /\ AllLossy(Mig!Revisions[n + 1].down)
         /\ n >= 8 => AllSparing(Mig!Revisions[n + 1].down)
<1>1. CASE n = 0
  <2>1. Len(Mig!Baseline.down) = 0
    BY DEF Mig!Baseline
  <2>2. AllLossy(Mig!Baseline.down)
    BY <2>1 DEF AllLossy
  <2>3. QED
    BY <1>1, <2>2, RevisionsAre
<1>2. CASE n = 1
  <2>1. Len(Mig!AddUrl.down) = 2
    BY DEF Mig!AddUrl
  <2>2. Lossy(Mig!AddUrl.down[1])
    BY DEF Mig!AddUrl, Mig!Unindex, Lossy
  <2>3. Lossy(Mig!AddUrl.down[2])
    BY DEF Mig!AddUrl, Mig!Drop, Mig!UrlColumns, Lossy
  <2>4. AllLossy(Mig!AddUrl.down)
    BY <2>1, <2>2, <2>3 DEF AllLossy
  <2>5. QED
    BY <1>2, <2>4, RevisionsAre
<1>3. CASE n = 2
  <2>1. Len(Mig!NameMayBeNull.down) = 1
    BY DEF Mig!NameMayBeNull
  <2>2. Lossy(Mig!NameMayBeNull.down[1])
    BY DEF Mig!NameMayBeNull, Mig!NotNull, Lossy
  <2>3. AllLossy(Mig!NameMayBeNull.down)
    BY <2>1, <2>2 DEF AllLossy
  <2>4. QED
    BY <1>3, <2>3, RevisionsAre
<1>4. CASE n = 3
  <2>1. Len(Mig!InitialOutbox.down) = 2
    BY DEF Mig!InitialOutbox
  <2>2. Lossy(Mig!InitialOutbox.down[1])
    BY DEF Mig!InitialOutbox, Mig!Unindex, Lossy
  <2>3. Lossy(Mig!InitialOutbox.down[2])
    BY DEF Mig!InitialOutbox, Mig!DropTables, Lossy
  <2>4. AllLossy(Mig!InitialOutbox.down)
    BY <2>1, <2>2, <2>3 DEF AllLossy
  <2>5. QED
    BY <1>4, <2>4, RevisionsAre
<1>5. CASE n = 4
  <2>1. Len(Mig!RenameEventId.down) = 2
    BY DEF Mig!RenameEventId
  <2>2. Lossy(Mig!RenameEventId.down[1])
    BY DEF Mig!RenameEventId, Mig!Add, Lossy
  <2>3. Lossy(Mig!RenameEventId.down[2])
    BY DEF Mig!RenameEventId, Mig!Drop, Lossy
  <2>4. AllLossy(Mig!RenameEventId.down)
    BY <2>1, <2>2, <2>3 DEF AllLossy
  <2>5. QED
    BY <1>5, <2>4, RevisionsAre
<1>6. CASE n = 5
  <2>1. Len(Mig!TimeZones.down) = 2
    BY DEF Mig!TimeZones
  <2>2. Lossy(Mig!TimeZones.down[1])
    BY DEF Mig!TimeZones, Mig!Retype, Lossy
  <2>3. Lossy(Mig!TimeZones.down[2])
    BY DEF Mig!TimeZones, Mig!Retype, Lossy
  <2>4. AllLossy(Mig!TimeZones.down)
    BY <2>1, <2>2, <2>3 DEF AllLossy
  <2>5. QED
    BY <1>6, <2>4, RevisionsAre
<1>7. CASE n = 6
  <2>1. Len(Mig!DeclareColumns.down) = 2
    BY DEF Mig!DeclareColumns
  <2>2. Lossy(Mig!DeclareColumns.down[1])
    BY DEF Mig!DeclareColumns, Mig!MayBeNull, Lossy
  <2>3. Lossy(Mig!DeclareColumns.down[2])
    BY DEF Mig!DeclareColumns, Mig!MayBeNull, Lossy
  <2>4. AllLossy(Mig!DeclareColumns.down)
    BY <2>1, <2>2, <2>3 DEF AllLossy
  <2>5. QED
    BY <1>7, <2>4, RevisionsAre
<1>8. CASE n = 7
  <2>1. Len(Mig!AddDescription.down) = 1
    BY DEF Mig!AddDescription
  <2>2. Lossy(Mig!AddDescription.down[1])
    BY DEF Mig!AddDescription, Mig!Drop, Lossy
  <2>3. AllLossy(Mig!AddDescription.down)
    BY <2>1, <2>2 DEF AllLossy
  <2>4. QED
    BY <1>8, <2>3, RevisionsAre
<1>9. CASE n = 8
  <2>1. Len(Mig!AddSource.down) = 1
    BY DEF Mig!AddSource
  <2>2. Lossy(Mig!AddSource.down[1]) /\ Sparing(Mig!AddSource.down[1])
    BY DEF Mig!AddSource, Mig!Drop, Lossy, Sparing
  <2>3. AllLossy(Mig!AddSource.down) /\ AllSparing(Mig!AddSource.down)
    BY <2>1, <2>2 DEF AllLossy, AllSparing
  <2>4. QED
    BY <1>9, <2>3, RevisionsAre
<1>10. CASE n = 9
  <2>1. Len(Mig!RemoveChunks.down) = 1
    BY DEF Mig!RemoveChunks
  <2>2. Lossy(Mig!RemoveChunks.down[1]) /\ Sparing(Mig!RemoveChunks.down[1])
    BY DEF Mig!RemoveChunks, Mig!Create, Lossy, Sparing
  <2>3. AllLossy(Mig!RemoveChunks.down) /\ AllSparing(Mig!RemoveChunks.down)
    BY <2>1, <2>2 DEF AllLossy, AllSparing
  <2>4. QED
    BY <1>10, <2>3, RevisionsAre
<1>11. CASE n = 10
  <2>1. Len(Mig!CreateYt.down) = 1
    BY DEF Mig!CreateYt
  <2>2. Lossy(Mig!CreateYt.down[1]) /\ Sparing(Mig!CreateYt.down[1])
    BY DEF Mig!CreateYt, Mig!DropTables, Lossy, Sparing
  <2>3. AllLossy(Mig!CreateYt.down) /\ AllSparing(Mig!CreateYt.down)
    BY <2>1, <2>2 DEF AllLossy, AllSparing
  <2>4. QED
    BY <1>11, <2>3, RevisionsAre
<1>12. CASE n = 11
  <2>1. Len(Mig!AddVideoId.down) = 1
    BY DEF Mig!AddVideoId
  <2>2. Lossy(Mig!AddVideoId.down[1]) /\ Sparing(Mig!AddVideoId.down[1])
    BY DEF Mig!AddVideoId, Mig!Drop, Lossy, Sparing
  <2>3. AllLossy(Mig!AddVideoId.down) /\ AllSparing(Mig!AddVideoId.down)
    BY <2>1, <2>2 DEF AllLossy, AllSparing
  <2>4. QED
    BY <1>12, <2>3, RevisionsAre
<1>13. CASE n = 12
  <2>1. Len(Mig!VideoIdNotNull.down) = 1
    BY DEF Mig!VideoIdNotNull
  <2>2. Lossy(Mig!VideoIdNotNull.down[1]) /\ Sparing(Mig!VideoIdNotNull.down[1])
    BY DEF Mig!VideoIdNotNull, Mig!MayBeNull, Lossy, Sparing
  <2>3. AllLossy(Mig!VideoIdNotNull.down) /\ AllSparing(Mig!VideoIdNotNull.down)
    BY <2>1, <2>2 DEF AllLossy, AllSparing
  <2>4. QED
    BY <1>13, <2>3, RevisionsAre
<1>14. CASE n = 13
  <2>1. Len(Mig!CleanedToJson.down) = 1
    BY DEF Mig!CleanedToJson
  <2>2. Lossy(Mig!CleanedToJson.down[1]) /\ Sparing(Mig!CleanedToJson.down[1])
    BY DEF Mig!CleanedToJson, Mig!Cast, Lossy, Sparing
  <2>3. AllLossy(Mig!CleanedToJson.down) /\ AllSparing(Mig!CleanedToJson.down)
    BY <2>1, <2>2 DEF AllLossy, AllSparing
  <2>4. QED
    BY <1>14, <2>3, RevisionsAre
<1>15. CASE n = 14
  <2>1. Len(Mig!AddArtifacts.down) = 1
    BY DEF Mig!AddArtifacts
  <2>2. Lossy(Mig!AddArtifacts.down[1]) /\ Sparing(Mig!AddArtifacts.down[1])
    BY DEF Mig!AddArtifacts, Mig!DropTables, Lossy, Sparing
  <2>3. AllLossy(Mig!AddArtifacts.down) /\ AllSparing(Mig!AddArtifacts.down)
    BY <2>1, <2>2 DEF AllLossy, AllSparing
  <2>4. QED
    BY <1>15, <2>3, RevisionsAre
<1>16. CASE n = 15
  <2>1. Len(Mig!CleanedToText.down) = 1
    BY DEF Mig!CleanedToText
  <2>2. Lossy(Mig!CleanedToText.down[1]) /\ Sparing(Mig!CleanedToText.down[1])
    BY DEF Mig!CleanedToText, Mig!Retype, Lossy, Sparing
  <2>3. AllLossy(Mig!CleanedToText.down) /\ AllSparing(Mig!CleanedToText.down)
    BY <2>1, <2>2 DEF AllLossy, AllSparing
  <2>4. QED
    BY <1>16, <2>3, RevisionsAre
<1>17. CASE n = 16
  <2>1. Len(Mig!CurrentIndex.down) = 1
    BY DEF Mig!CurrentIndex
  <2>2. Lossy(Mig!CurrentIndex.down[1]) /\ Sparing(Mig!CurrentIndex.down[1])
    BY DEF Mig!CurrentIndex, Mig!Unindex, Lossy, Sparing
  <2>3. AllLossy(Mig!CurrentIndex.down) /\ AllSparing(Mig!CurrentIndex.down)
    BY <2>1, <2>2 DEF AllLossy, AllSparing
  <2>4. QED
    BY <1>17, <2>3, RevisionsAre
<1>18. CASE n = 17
  <2>1. Len(Mig!ChunkFields.down) = 2
    BY DEF Mig!ChunkFields
  <2>2. Lossy(Mig!ChunkFields.down[1]) /\ Sparing(Mig!ChunkFields.down[1])
    BY DEF Mig!ChunkFields, Mig!Add, Lossy, Sparing
  <2>3. Lossy(Mig!ChunkFields.down[2]) /\ Sparing(Mig!ChunkFields.down[2])
    BY DEF Mig!ChunkFields, Mig!Unnamed, Lossy, Sparing
  <2>4. AllLossy(Mig!ChunkFields.down) /\ AllSparing(Mig!ChunkFields.down)
    BY <2>1, <2>2, <2>3 DEF AllLossy, AllSparing
  <2>5. QED
    BY <1>18, <2>4, RevisionsAre
<1>19. CASE n = 18
  <2>1. Len(Mig!AddSpeaker.down) = 1
    BY DEF Mig!AddSpeaker
  <2>2. Lossy(Mig!AddSpeaker.down[1]) /\ Sparing(Mig!AddSpeaker.down[1])
    BY DEF Mig!AddSpeaker, Mig!Drop, Lossy, Sparing
  <2>3. AllLossy(Mig!AddSpeaker.down) /\ AllSparing(Mig!AddSpeaker.down)
    BY <2>1, <2>2 DEF AllLossy, AllSparing
  <2>4. QED
    BY <1>19, <2>3, RevisionsAre
<1>20. CASE n = 19
  <2>1. Len(Mig!RemoveCleaned.down) = 1
    BY DEF Mig!RemoveCleaned
  <2>2. Lossy(Mig!RemoveCleaned.down[1]) /\ Sparing(Mig!RemoveCleaned.down[1])
    BY DEF Mig!RemoveCleaned, Mig!Add, Lossy, Sparing
  <2>3. AllLossy(Mig!RemoveCleaned.down) /\ AllSparing(Mig!RemoveCleaned.down)
    BY <2>1, <2>2 DEF AllLossy, AllSparing
  <2>4. QED
    BY <1>20, <2>3, RevisionsAre
<1>21. QED
  BY <1>1, <1>2, <1>3, <1>4, <1>5, <1>6, <1>7, <1>8, <1>9, <1>10, <1>11, <1>12, <1>13,
     <1>14, <1>15, <1>16, <1>17, <1>18, <1>19, <1>20

-----------------------------------------------------------------------------
(* What the revisions keep of the texts.                                   *)

Has(f, X) == \E g \in X : g[3] = f

\* An operation that goes through.
LEMMA TextsGo ==
  ASSUME NEW d, NEW op, Db(d), Mig!Do(d, op).ok
  PROVE  LET X == TextsOf(d)
             Y == TextsOf(Mig!Do(d, op))
         IN  /\ op.op = "drop tables" => Y = {g \in X : g[1] \notin op.names}
             /\ op.op = "drop" => Y = {g \in X : g[1] # op.t \/ g[2] \notin op.names}
             /\ op.op = "add" => Y = X
             /\ (op.op = "copy" /\ op.fact \in Mig!Texts) =>
                  Y = IF <<op.from[1], op.from[2], op.fact>> \in X
                      THEN X \union {<<op.t, op.c, op.fact>>} ELSE X
<1>1. d.ok /\ Mig!Possible(d, op)
  BY DbDo
<1>2. Mig!Do(d, op).facts = Mig!FactsAfter(d, op)
  BY <1>1, DoGoes
<1>3. TextsOf(Mig!Do(d, op)) = {g \in Mig!FactsAfter(d, op) : g[3] \in Mig!Texts}
  BY <1>2 DEF TextsOf
<1>4. QED
  BY <1>3, TextsAfter

\* A copy puts a text in its new place.
LEMMA TextCopied ==
  ASSUME NEW d, NEW op, Db(d), Mig!Do(d, op).ok, op.op = "copy", op.fact \in Mig!Texts,
         NEW u, u = <<op.from[1], op.from[2], op.fact>>, NEW v,
           v = <<op.t, op.c, op.fact>>
  PROVE  TextsOf(Mig!Do(d, op)) =
           IF u \in TextsOf(d) THEN TextsOf(d) \union {v} ELSE TextsOf(d)
BY TextsGo

LEMMA TextDropped ==
  ASSUME NEW d, NEW op, Db(d), Mig!Do(d, op).ok
  PROVE  /\ op.op = "drop" =>
              TextsOf(Mig!Do(d, op)) =
                {g \in TextsOf(d) : g[1] # op.t \/ g[2] \notin op.names}
         /\ op.op = "drop tables" =>
              TextsOf(Mig!Do(d, op)) = {g \in TextsOf(d) : g[1] \notin op.names}
BY TextsGo

\* What a revision keeps of the texts.
TextsStay(n, X, Y) ==
  /\ TextInv(n, Y)
  /\ \A f \in Mig!Texts : Has(f, X) => Has(f, Y)

\* AddDescription copies the texts of recipe_chunks into recipes.
LEMMA DescriptionsFilled ==
  ASSUME NEW d, Db(d), TextInv(7, TextsOf(d)), Mig!Applied(d, Mig!AddDescription.up).ok
  PROVE  TextsStay(8, TextsOf(d), TextsOf(Mig!Applied(d, Mig!AddDescription.up)))
<1> DEFINE ops == Mig!AddDescription.up
           d1 == Mig!Do(d, ops[1])
           d2 == Mig!Do(d1, ops[2])
           d3 == Mig!Do(d2, ops[3])
           X == TextsOf(d)
           from1 == <<"recipe_chunks", "content", "overview">>
           to1 == <<"recipes", "description", "overview">>
           from2 == <<"recipe_chunks", "content", "instruction">>
           to2 == <<"recipes", "steps", "instruction">>
<1>1. Len(ops) = 3
  BY DEF Mig!AddDescription
<1>2. ops[1].op = "add"
  BY DEF Mig!AddDescription, Mig!Add
<1>3. /\ ops[2].op = "copy" /\ ops[2].fact = "overview"
      /\ <<ops[2].from[1], ops[2].from[2], ops[2].fact>> = from1
      /\ <<ops[2].t, ops[2].c, ops[2].fact>> = to1
  BY DEF Mig!AddDescription, Mig!Copy, Mig!Content
<1>4. /\ ops[3].op = "copy" /\ ops[3].fact = "instruction"
      /\ <<ops[3].from[1], ops[3].from[2], ops[3].fact>> = from2
      /\ <<ops[3].t, ops[3].c, ops[3].fact>> = to2
  BY DEF Mig!AddDescription, Mig!Copy, Mig!Content
<1>5. "overview" \in Mig!Texts /\ "instruction" \in Mig!Texts
  BY DEF Mig!Texts
<1> HIDE DEF ops, from1, to1, from2, to2
<1>6. Mig!Applied(d, ops) = d3
  BY <1>1, Applied3
<1>7. Db(d1) /\ Db(d2) /\ d1.ok /\ d2.ok /\ d3.ok
  BY <1>6, DbDo DEF ops
<1>8. TextsOf(d1) = X
  BY <1>2, <1>7, TextsGo
<1>9. TextsOf(d2) = IF from1 \in X THEN X \union {to1} ELSE X
  <2> HIDE DEF d1
  <2>1. QED
    BY <1>3, <1>5, <1>7, <1>8, TextCopied
<1>10. TextsOf(d3) = IF from2 \in TextsOf(d2) THEN TextsOf(d2) \union
         {to2} ELSE TextsOf(d2)
  <2> HIDE DEF d2
  <2>1. QED
    BY <1>4, <1>5, <1>7, TextCopied
<1> DEFINE Y == TextsOf(d3)
           W == TextsOf(d2)
<1> HIDE DEF Y, W, X
<1>11. /\ W = IF from1 \in X THEN X \union {to1} ELSE X
       /\ Y = IF from2 \in W THEN W \union {to2} ELSE W
  BY <1>9, <1>10 DEF W, Y
<1>12. X \subseteq Y /\ Y \subseteq X \union {to1, to2}
  BY <1>11
<1>13. InPlace(to1) /\ InPlace(to2)
  BY DEF InPlace, to1, to2, RecipeTexts
<1>14. \A g \in Y : InPlace(g)
  BY <1>12, <1>13 DEF TextInv, X
<1>15. Moved(Y)
  <2>1. from1 \in Y => to1 \in Y
    <3>1. from1 # to1 /\ from1 # to2
      BY DEF from1, to1, to2
    <3>2. QED
      BY <1>11, <3>1
  <2>2. from2 \in Y => to2 \in Y
    <3>1. from2 # to1 /\ from2 # to2
      BY DEF from2, to1, to2
    <3>2. QED
      BY <1>11, <3>1
  <2>3. QED
    BY <2>1, <2>2 DEF Moved, from1, to1, from2, to2
<1>16. TextsStay(8, X, Y)
  BY <1>12, <1>14, <1>15 DEF TextsStay, TextInv, Has
<1>17. QED
  BY <1>6, <1>16 DEF X, Y, ops

\* RemoveChunks drops recipe_chunks, whose texts are in recipes too.
LEMMA ChunksDropped ==
  ASSUME NEW d, Db(d), TextInv(9, TextsOf(d)), Mig!Applied(d, Mig!RemoveChunks.up).ok
  PROVE  TextsStay(10, TextsOf(d), TextsOf(Mig!Applied(d, Mig!RemoveChunks.up)))
<1> DEFINE op == Mig!RemoveChunks.up[1]
           X == TextsOf(d)
           Y == TextsOf(Mig!Do(d, op))
<1>1. Len(Mig!RemoveChunks.up) = 1
  BY DEF Mig!RemoveChunks
<1>2. op.op = "drop tables" /\ op.names = {"recipe_chunks"}
  BY DEF Mig!RemoveChunks, Mig!DropTables
<1> HIDE DEF op
<1>3. Mig!Applied(d, Mig!RemoveChunks.up) = Mig!Do(d, op)
  BY <1>1, Applied1 DEF op
<1>4. Y = {g \in X : g[1] # "recipe_chunks"}
  <2>1. Mig!Do(d, op).ok
    BY <1>3
  <2>2. Y = {g \in X : g[1] \notin op.names}
    BY <1>2, <2>1, TextDropped
  <2> HIDE DEF X, Y
  <2>3. QED
    BY <1>2, <2>2
<1>5. (\A g \in X : InPlace(g)) /\ Moved(X)
  BY DEF TextInv
<1> HIDE DEF X, Y
<1>6. \A g \in Y : InPlace(g)
  BY <1>4, <1>5
<1>7. Moved(Y)
  BY <1>4, <1>5 DEF Moved
<1>8. ASSUME NEW f \in Mig!Texts, Has(f, X)
      PROVE  Has(f, Y)
  <2>1. PICK g \in X : g[3] = f
    BY <1>8 DEF Has
  <2>2. CASE g[1] # "recipe_chunks"
    BY <1>4, <2>1, <2>2 DEF Has
  <2>3. CASE g[1] = "recipe_chunks"
    <3>1. g = <<"recipe_chunks", g[2], f>> /\ f \in RecipeTexts /\ g[2] = "content"
      BY <1>5, <2>1, <2>3 DEF InPlace
    <3>2. CASE f = "overview"
      <4>1. <<"recipes", "description", "overview">> \in X
        BY <1>5, <2>1, <3>1, <3>2 DEF Moved
      <4>2. <<"recipes", "description", "overview">> \in Y
        BY <1>4, <4>1
      <4>3. QED
        BY <3>2, <4>2 DEF Has
    <3>3. CASE f = "instruction"
      <4>1. <<"recipes", "steps", "instruction">> \in X
        BY <1>5, <2>1, <3>1, <3>3 DEF Moved
      <4>2. <<"recipes", "steps", "instruction">> \in Y
        BY <1>4, <4>1
      <4>3. QED
        BY <3>3, <4>2 DEF Has
    <3>4. QED
      BY <3>1, <3>2, <3>3 DEF RecipeTexts
  <2>4. QED
    BY <2>2, <2>3
<1>9. TextsStay(10, X, Y)
  BY <1>6, <1>7, <1>8 DEF TextsStay, TextInv
<1>10. QED
  BY <1>3, <1>9 DEF X, Y

\* A column is added, filled from another, and the other is dropped.
LEMMA SpeakersMoved ==
  ASSUME NEW d, NEW ops, Db(d), TextInv(20, TextsOf(d)), Mig!Applied(d, ops).ok,
         Len(ops) = 3, ops[1].op = "add",
         NEW old, NEW new, {old, new} = Voices,
         ops[2].op = "copy", ops[2].fact = "speaker", ops[2].t = "chunks",
           ops[2].c = new,
         ops[2].from[1] = "chunks", ops[2].from[2] = old,
         ops[3].op = "drop", ops[3].t = "chunks", ops[3].names = {old}
  PROVE  TextsStay(20, TextsOf(d), TextsOf(Mig!Applied(d, ops)))
<1> DEFINE d1 == Mig!Do(d, ops[1])
           d2 == Mig!Do(d1, ops[2])
           d3 == Mig!Do(d2, ops[3])
           X == TextsOf(d)
           from == <<"chunks", old, "speaker">>
           to == <<"chunks", new, "speaker">>
<1>1. "speaker" \in Mig!Texts
  BY DEF Mig!Texts
<1>2. Mig!Applied(d, ops) = d3
  BY Applied3
<1>3. Db(d1) /\ Db(d2) /\ d1.ok /\ d2.ok /\ d3.ok
  BY <1>2, DbDo
<1>4. TextsOf(d1) = X
  BY <1>3, TextsGo
<1>5. TextsOf(d2) = IF from \in X THEN X \union {to} ELSE X
  <2> HIDE DEF d1
  <2>1. /\ from = <<ops[2].from[1], ops[2].from[2], ops[2].fact>>
        /\ to = <<ops[2].t, ops[2].c, ops[2].fact>>
    OBVIOUS
  <2> HIDE DEF from, to
  <2>2. QED
    BY <1>1, <1>3, <1>4, <2>1, TextCopied
<1>6. TextsOf(d3) = {g \in TextsOf(d2) : g[1] # "chunks" \/ g[2] # old}
  <2> HIDE DEF d2
  <2>1. TextsOf(d3) = {g \in TextsOf(d2) : g[1] # ops[3].t \/ g[2] \notin ops[3].names}
    BY <1>3, TextDropped
  <2>2. QED
    BY <2>1
<1> DEFINE Y == TextsOf(d3)
           W == TextsOf(d2)
<1>7. (\A g \in X : InPlace(g)) /\ Moved(X)
  BY DEF TextInv
<1>8. /\ W = (IF from \in X THEN X \union {to} ELSE X)
      /\ Y = {g \in W : g[1] # "chunks" \/ g[2] # old}
  BY <1>5, <1>6
<1>9. old \in Voices /\ new \in Voices /\ old # new
  BY DEF Voices
<1> HIDE DEF Y, W, X
<1>10. InPlace(to) /\ to[1] = "chunks" /\ to[2] = new /\ to[3] = "speaker"
  BY <1>9 DEF InPlace
<1> HIDE DEF from, to
<1>11. \A g \in Y : InPlace(g)
  BY <1>7, <1>8, <1>10
<1>12. Moved(Y)
  <2>1. \A u, v : <<"recipes", u, v>> \in X => <<"recipes", u, v>> \in Y
    BY <1>8
  <2>2. \A u, v : <<"recipe_chunks", u, v>> \in Y => <<"recipe_chunks", u, v>> \in X
    BY <1>8 DEF to
  <2>3. QED
    BY <1>7, <2>1, <2>2 DEF Moved
<1>13. ASSUME NEW f \in Mig!Texts, Has(f, X)
       PROVE  Has(f, Y)
  <2>1. PICK g \in X : g[3] = f
    BY <1>13 DEF Has
  <2>2. CASE g[1] # "chunks" \/ g[2] # old
    BY <1>8, <2>1, <2>2 DEF Has
  <2>3. CASE g[1] = "chunks" /\ g[2] = old
    <3>1. g = from /\ f = "speaker"
      BY <1>7, <2>1, <2>3 DEF InPlace, from
    <3>2. to \in Y
      BY <1>8, <1>9, <1>10, <2>1, <3>1
    <3>3. QED
      BY <1>10, <3>1, <3>2 DEF Has
  <2>4. QED
    BY <2>2, <2>3
<1>14. TextsStay(20, X, Y)
  BY <1>11, <1>12, <1>13 DEF TextsStay, TextInv
<1>15. QED
  BY <1>2, <1>14 DEF X, Y

\* One revision up keeps the texts, and one down keeps what is said of them.
LEMMA TextUp ==
  ASSUME NEW n \in 0 .. 20, NEW d, Db(d), TextInv(n, TextsOf(d)),
         Mig!Applied(d, Mig!Revisions[n + 1].up).ok
  PROVE  TextsStay(n + 1, TextsOf(d), TextsOf(Mig!Applied(d, Mig!Revisions[n + 1].up)))
<1>1. CASE n = 7
  BY <1>1, DescriptionsFilled, RevisionsAre
<1>2. CASE n = 9
  BY <1>2, ChunksDropped, RevisionsAre
<1>3. CASE n = 20
  <2> DEFINE ops == Mig!RenameSpeaker.up
  <2>1. /\ Len(ops) = 3 /\ ops[1].op = "add"
        /\ ops[2].op = "copy" /\ ops[2].fact = "speaker" /\ ops[2].t = "chunks"
        /\ ops[2].c = "speaker" /\ ops[2].from[1] = "chunks"
        /\ ops[2].from[2] = "primary_speaker"
        /\ ops[3].op = "drop" /\ ops[3].t = "chunks"
        /\ ops[3].names = {"primary_speaker"}
    BY DEF Mig!RenameSpeaker, Mig!Add, Mig!Copy, Mig!Drop
  <2>2. {"primary_speaker", "speaker"} = Voices /\ Mig!Revisions[n + 1].up = ops
    BY <1>3, RevisionsAre DEF Voices
  <2>3. TextInv(20, TextsOf(d)) /\ Mig!Applied(d, ops).ok
    BY <1>3, <2>2
  <2> HIDE DEF ops
  <2>4. TextsStay(20, TextsOf(d), TextsOf(Mig!Applied(d, ops)))
    BY <2>1, <2>2, <2>3, SpeakersMoved
  <2>5. QED
    BY <1>3, <2>2, <2>4 DEF TextsStay, TextInv
<1>4. CASE n \notin {7, 9, 20}
  <2> DEFINE ops == Mig!Revisions[n + 1].up
  <2>1. AllQuiet(ops) /\ AllLossy(ops)
    BY <1>4, QuietUps, QuietIsLossy
  <2>2. Len(ops) \in Nat
    <3>1. n + 1 \in 1 .. 21
      OBVIOUS
    <3>2. QED
      BY <3>1, Lengths
  <2>3. \A g \in TextsOf(d) : InPlace(g)
    BY DEF TextInv
  <2> HIDE DEF ops
  <2>4. TextsOf(Mig!Applied(d, ops)) = TextsOf(d)
    BY <2>1, <2>2, <2>3, TextsApplied DEF AllQuiet, AllLossy
  <2>5. n + 1 >= 8 => n >= 8
    BY <1>4
  <2>6. QED
    BY <2>4, <2>5 DEF TextsStay, TextInv, ops
<1>5. QED
  BY <1>1, <1>2, <1>3, <1>4

LEMMA TextDown ==
  ASSUME NEW n \in 0 .. 20, NEW d, Db(d), TextInv(n + 1, TextsOf(d)),
         Mig!Applied(d, Mig!Revisions[n + 1].down).ok
  PROVE  TextInv(n, TextsOf(Mig!Applied(d, Mig!Revisions[n + 1].down)))
<1>1. CASE n = 20
  <2> DEFINE ops == Mig!RenameSpeaker.down
  <2>1. /\ Len(ops) = 3 /\ ops[1].op = "add"
        /\ ops[2].op = "copy" /\ ops[2].fact = "speaker" /\ ops[2].t = "chunks"
        /\ ops[2].c = "primary_speaker" /\ ops[2].from[1] = "chunks"
        /\ ops[2].from[2] = "speaker"
        /\ ops[3].op = "drop" /\ ops[3].t = "chunks" /\ ops[3].names = {"speaker"}
    BY DEF Mig!RenameSpeaker, Mig!Add, Mig!Copy, Mig!Drop
  <2>2. {"speaker", "primary_speaker"} = Voices /\ Mig!Revisions[n + 1].down = ops
    BY <1>1, RevisionsAre DEF Voices
  <2>3. TextInv(20, TextsOf(d)) /\ Mig!Applied(d, ops).ok
    BY <1>1, <2>2 DEF TextInv
  <2> HIDE DEF ops
  <2>4. TextsStay(20, TextsOf(d), TextsOf(Mig!Applied(d, ops)))
    BY <2>1, <2>2, <2>3, SpeakersMoved
  <2>5. QED
    BY <1>1, <2>2, <2>4 DEF TextsStay
<1>2. CASE n # 20
  <2> DEFINE ops == Mig!Revisions[n + 1].down
             X == TextsOf(d)
             Y == TextsOf(Mig!Applied(d, ops))
  <2>1. AllLossy(ops) /\ (n >= 8 => AllSparing(ops))
    BY <1>2, LossyDowns
  <2>2. Len(ops) \in Nat
    <3>1. n + 1 \in 1 .. 21
      OBVIOUS
    <3>2. QED
      BY <3>1, Lengths
  <2>3. (\A g \in X : InPlace(g)) /\ (n >= 8 => Moved(X))
    BY DEF TextInv
  <2> HIDE DEF ops
  <2>4. /\ Y \subseteq X
        /\ n >= 8 => \A g \in X : g[1] =
             "recipes" /\ g[2] \in {"description", "steps"} => g \in Y
    BY <2>1, <2>2, <2>3, TextsApplied DEF AllLossy, AllSparing
  <2> HIDE DEF X, Y
  <2>5. \A g \in Y : InPlace(g)
    BY <2>3, <2>4
  <2>6. ASSUME n >= 8
        PROVE  Moved(Y)
    <3>1. \A u \in {"description", "steps"} : \A v : <<"recipes", u, v>> \in X =>
            <<"recipes", u, v>> \in Y
      BY <2>4, <2>6
    <3>2. QED
      BY <2>3, <2>4, <2>6, <3>1 DEF Moved
  <2>7. QED
    BY <2>5, <2>6 DEF TextInv, Y, ops
<1>3. QED
  BY <1>1, <1>2

\* The same for a way of several revisions.
LEMMA TextRouteUp ==
  ASSUME NEW m \in 0 .. 21, NEW n \in 0 .. 21, m <= n, NEW d, Db(d),
         TextInv(m, TextsOf(d)),
         Mig!Ran(d, Mig!Ups(m, n)).ok
  PROVE  TextsStay(n, TextsOf(d), TextsOf(Mig!Ran(d, Mig!Ups(m, n))))
<1> DEFINE N == n - m
           route == Mig!Ups(m, n)
<1>1. /\ N \in Nat /\ Len(route) = N
      /\ \A i \in 1 .. N : route[i] = Mig!Revisions[m + i].up
  BY DEF Mig!Ups
<1> HIDE DEF route
<1>2. PICK at : Route(at, d, route, N) /\ Mig!Ran(d, route) = at[N]
  <2> HIDE DEF N
  <2>1. QED
    BY <1>1, RanSteps
<1> DEFINE Kept(i) == TextsStay(m + i, TextsOf(d), TextsOf(at[i]))
           Good == {i \in 0 .. N : Db(at[i]) /\ (at[i].ok => Kept(i))}
<1>3. 0 \in Good
  BY <1>1, <1>2 DEF Route, TextsStay
<1>4. \A i \in 1 .. N : i - 1 \in Good => i \in Good
  <2> SUFFICES ASSUME NEW i \in 1 .. N, i - 1 \in Good
               PROVE  i \in Good
    OBVIOUS
  <2> DEFINE k == m + (i - 1)
             e == at[i - 1]
  <2>1. k \in 0 .. 20 /\ k + 1 = m + i /\ k + 1 \in 1 .. 21
    OBVIOUS
  <2>2. Db(e) /\ (e.ok => TextsStay(k, TextsOf(d), TextsOf(e)))
    OBVIOUS
  <2> HIDE DEF k
  <2>3. at[i] = Mig!Applied(e, Mig!Revisions[k + 1].up)
    BY <1>1, <1>2, <2>1 DEF Route
  <2>4. Len(Mig!Revisions[k + 1].up) \in Nat
    BY <2>1, Lengths
  <2> HIDE DEF e
  <2>5. Db(at[i]) /\ (at[i].ok => e.ok)
    BY <2>2, <2>3, <2>4, DbApplied
  <2>6. ASSUME at[i].ok
        PROVE  TextsStay(k + 1, TextsOf(d), TextsOf(at[i]))
    <3>1. TextsStay(k, TextsOf(d), TextsOf(e))
      BY <2>2, <2>5, <2>6
    <3>2. TextsStay(k + 1, TextsOf(e), TextsOf(at[i]))
      BY <2>1, <2>2, <2>3, <2>6, <3>1, TextUp DEF TextsStay
    <3>3. QED
      BY <3>1, <3>2 DEF TextsStay
  <2>7. QED
    BY <2>1, <2>5, <2>6
<1> HIDE DEF Good, Kept
<1>5. N \in Good
  <2>1. N \in Nat
    BY <1>1
  <2> HIDE DEF N
  <2>2. 0 .. N \subseteq Good
    BY ONLY <2>1, <1>3, <1>4, Induced
  <2>3. QED
    BY <2>1, <2>2
<1>6. Kept(N)
  BY <1>2, <1>5 DEF Good, route
<1>7. QED
  BY <1>2, <1>6 DEF Kept, route

LEMMA TextRouteDown ==
  ASSUME NEW m \in 0 .. 21, NEW n \in 0 .. 21, n <= m, NEW d, Db(d),
         TextInv(m, TextsOf(d)),
         Mig!Ran(d, Mig!Downs(m, n)).ok
  PROVE  TextInv(n, TextsOf(Mig!Ran(d, Mig!Downs(m, n))))
<1> DEFINE N == m - n
           route == Mig!Downs(m, n)
<1>1. /\ N \in Nat /\ Len(route) = N
      /\ \A i \in 1 .. N : route[i] = Mig!Revisions[m + 1 - i].down
  BY DEF Mig!Downs
<1> HIDE DEF route
<1>2. PICK at : Route(at, d, route, N) /\ Mig!Ran(d, route) = at[N]
  <2> HIDE DEF N
  <2>1. QED
    BY <1>1, RanSteps
<1> DEFINE Kept(i) == TextInv(m - i, TextsOf(at[i]))
           Good == {i \in 0 .. N : Db(at[i]) /\ (at[i].ok => Kept(i))}
<1>3. 0 \in Good
  BY <1>1, <1>2 DEF Route
<1>4. \A i \in 1 .. N : i - 1 \in Good => i \in Good
  <2> SUFFICES ASSUME NEW i \in 1 .. N, i - 1 \in Good
               PROVE  i \in Good
    OBVIOUS
  <2> DEFINE k == m - i
             e == at[i - 1]
  <2>1. k \in 0 .. 20 /\ k + 1 = m - (i - 1) /\ k + 1 = m + 1 - i /\ k + 1 \in 1 .. 21
    OBVIOUS
  <2>2. Db(e) /\ (e.ok => TextInv(k + 1, TextsOf(e)))
    BY <2>1
  <2> HIDE DEF k
  <2>3. at[i] = Mig!Applied(e, Mig!Revisions[k + 1].down)
    BY <1>1, <1>2, <2>1 DEF Route
  <2>4. Len(Mig!Revisions[k + 1].down) \in Nat
    BY <2>1, Lengths
  <2> HIDE DEF e
  <2>5. Db(at[i]) /\ (at[i].ok => e.ok)
    BY <2>2, <2>3, <2>4, DbApplied
  <2>6. at[i].ok => TextInv(k, TextsOf(at[i]))
    BY <2>1, <2>2, <2>3, <2>5, TextDown
  <2>7. QED
    BY <2>5, <2>6 DEF k
<1> HIDE DEF Good, Kept
<1>5. N \in Good
  <2>1. N \in Nat
    BY <1>1
  <2> HIDE DEF N
  <2>2. 0 .. N \subseteq Good
    BY ONLY <2>1, <1>3, <1>4, Induced
  <2>3. QED
    BY <2>1, <2>2
<1>6. Kept(N) /\ m - N = n
  BY <1>2, <1>5 DEF Good, route
<1>7. QED
  BY <1>2, <1>6 DEF Kept, route

\* A row brings its texts to their places.
LEMMA InsertedTexts ==
  ASSUME version \in 0 .. 21, Fits(version, db), Mig!Insert,
         TextInv(version, TextsOf(db))
  PROVE  TextInv(version, TextsOf(db')) /\ version' = version
<1>1. PICK t \in DOMAIN db.tables :
        /\ t = "recipe_chunks" => version < 8
        /\ \E values \in {{}} \union {{f} : f \in Mig!Values(t)} :
             db' = [db EXCEPT !.facts = @ \union {<<t, "", "row">>} \union values]
        /\ version' = version
  BY DEF Mig!Insert
<1>2. PICK values \in {{}} \union {{f} : f \in Mig!Values(t)} :
        db' = [db EXCEPT !.facts = @ \union {<<t, "", "row">>} \union values]
  BY <1>1
<1> DEFINE cols == db.tables[t].cols
           Nulls == {<<t, c, "null">> : c \in Mig!Asked \intersect db.tables[t].null}
           Plains == {<<t, c, "plain">> :
                        c \in {x \in {"cleaned_content"} \intersect DOMAIN cols : cols[x] = "text"}}
           Names == {<<t, c, "speaker">> : c \in Voices \intersect DOMAIN cols}
           Sorts == {<<t, "content", f>> :
                       f \in IF t = "recipe_chunks" THEN {"overview", "instruction"} ELSE {}}
<1>3. Mig!Values(t) = Nulls \union Plains \union Names \union Sorts
  BY DEF Mig!Values, Voices
<1>4. \A g \in Nulls \union Plains : g[3] \notin Mig!Texts
  BY DEF Mig!Texts
<1>5. t = "recipe_chunks" => Voices \intersect DOMAIN cols = {}
  <2>1. Voices \intersect DOMAIN Mig!Legacy.recipe_chunks.cols = {}
    BY DEF Mig!Legacy, Mig!Table, Voices
  <2>2. QED
    BY <2>1, ChunksAre
<1>6. \A g \in Names : InPlace(g) /\ g[1] = t /\ t # "recipe_chunks"
  BY <1>5 DEF InPlace
<1>7. \A g \in Sorts : InPlace(g) /\ t = "recipe_chunks"
  BY DEF InPlace, RecipeTexts
<1> HIDE DEF Nulls, Plains, Names, Sorts
<1>8. \A g \in TextsOf(db') : g \in TextsOf(db) \/ g \in Names \/ g \in Sorts
  <2>1. Db(db)
    BY FitsDb
  <2>2. db'.facts = db.facts \union {<<t, "", "row">>} \union values
    BY <1>2, <2>1 DEF Db, Fields
  <2>3. <<t, "", "row">>[3] \notin Mig!Texts
    BY DEF Mig!Texts
  <2>4. values \subseteq Mig!Values(t)
    BY <1>2
  <2>5. QED
    BY <1>3, <1>4, <2>2, <2>3, <2>4 DEF TextsOf
<1>9. TextsOf(db) \subseteq TextsOf(db')
  <2>1. Db(db)
    BY FitsDb
  <2>2. db.facts \subseteq db'.facts
    BY <1>2, <2>1 DEF Db, Fields
  <2>3. QED
    BY <2>2 DEF TextsOf
<1>10. \A g \in TextsOf(db') : InPlace(g)
  BY <1>6, <1>7, <1>8 DEF TextInv
<1>11. ASSUME version >= 8
       PROVE  Moved(TextsOf(db'))
  <2>1. t # "recipe_chunks"
    <3>1. ~(version < 8)
      BY <1>11
    <3>2. t = "recipe_chunks" => version < 8
      BY <1>1
    <3>3. QED
      BY <3>1, <3>2
  <2>2. \A u, v : <<"recipe_chunks", u, v>> \in TextsOf(db') =>
          <<"recipe_chunks", u, v>> \in TextsOf(db)
    <3> SUFFICES ASSUME NEW u, NEW v, <<"recipe_chunks", u, v>> \in TextsOf(db')
                 PROVE  <<"recipe_chunks", u, v>> \in TextsOf(db)
      OBVIOUS
    <3>1. <<"recipe_chunks", u, v>>[1] = "recipe_chunks"
      OBVIOUS
    <3>2. QED
      BY <1>6, <1>7, <1>8, <2>1, <3>1
  <2>3. Moved(TextsOf(db))
    BY <1>11 DEF TextInv
  <2>4. QED
    BY <1>9, <2>2, <2>3 DEF Moved
<1>12. QED
  BY <1>1, <1>10, <1>11 DEF TextInv

\* A text that an upgrade will drop is somewhere else as well.
TextsSafe == TextInv(version, TextsOf(db))

LEMMA TextsInit == Mig!Init => TextsSafe
BY DEF Mig!Init, TextsSafe, TextInv, TextsOf

\* Every step keeps it, and an upgrade keeps the texts.
LEMMA TextsStep ==
  ASSUME SchemaInv, TextsSafe, [Mig!Next]_Mig!vars
  PROVE  /\ TextsSafe'
         /\ version' > version => \A f \in Mig!Texts : Has(f, db.facts) =>
              Has(f, db'.facts)
<1> DEFINE Grown == version' > version => \A f \in Mig!Texts : Has(f, db.facts) =>
      Has(f, db'.facts)
<1>1. version \in 0 .. 21 /\ db.ok /\ Fits(version, db) /\ Mig!Latest = 21 /\ Db(db)
  BY RevisionsAre, FitsDb DEF SchemaInv
<1>2. CASE Mig!Upgrade
  <2>1. PICK n \in version + 1 .. 21 :
          /\ Mig!Ran(db, Mig!Ups(version, n)).ok
          /\ version' = n
          /\ db' = Mig!Ran(db, Mig!Ups(version, n))
    BY <1>1, <1>2 DEF Mig!Upgrade
  <2>2. n \in 0 .. 21 /\ version <= n
    BY <1>1
  <2>3. TextsStay(n, TextsOf(db), TextsOf(db'))
    BY <1>1, <2>1, <2>2, TextRouteUp DEF TextsSafe
  <2>4. \A f \in Mig!Texts : Has(f, db.facts) => Has(f, db'.facts)
    BY <2>3 DEF TextsStay, Has, TextsOf
  <2>5. QED
    BY <2>1, <2>3, <2>4 DEF TextsSafe, TextsStay
<1>3. CASE Mig!Downgrade
  <2>1. PICK n \in 0 .. version - 1 :
          /\ Mig!Ran(db, Mig!Downs(version, n)).ok
          /\ version' = n
          /\ db' = Mig!Ran(db, Mig!Downs(version, n))
    BY <1>3 DEF Mig!Downgrade
  <2>2. n \in 0 .. 21 /\ n <= version /\ ~(n > version)
    BY <1>1
  <2>3. TextInv(n, TextsOf(db'))
    BY <1>1, <2>1, <2>2, TextRouteDown DEF TextsSafe
  <2>4. QED
    BY <2>1, <2>2, <2>3 DEF TextsSafe
<1>4. ~(version > version)
  BY <1>1
<1>5. CASE Mig!StartServer
  <2>1. db'.facts = db.facts /\ version' = version
    BY <1>1, <1>5 DEF Mig!StartServer, Db, Fields
  <2>2. TextsOf(db') = TextsOf(db)
    BY <2>1 DEF TextsOf
  <2>3. QED
    BY <1>4, <2>1, <2>2 DEF TextsSafe
<1>6. CASE Mig!Insert
  <2>1. TextInv(version, TextsOf(db')) /\ version' = version
    BY <1>1, <1>6, InsertedTexts DEF TextsSafe
  <2>2. QED
    BY <1>4, <2>1 DEF TextsSafe
<1>7. CASE UNCHANGED Mig!vars
  BY <1>4, <1>7 DEF Mig!vars, TextsSafe, TextsOf
<1>8. QED
  BY <1>2, <1>3, <1>5, <1>6, <1>7 DEF Mig!Next

\* A step of any program is one of the migrations, or leaves the schema alone.
LEMMA MigrationSteps ==
  [Next]_vars =>
    job' = job /\ (IF job = "migrate" THEN [Mig!Next]_Mig!vars ELSE UNCHANGED Mig!vars)
BY DEF Next, vars, ImportStep, MigrationStep, DiffStep, DetectionStep, ScanStep,
       migrating, Mig!vars

\* What is kept while the migrations are the program that runs.
Careful == job = "migrate" => SchemaInv /\ TextsSafe

\* It is an invariant of the whole.
LEMMA CarefulKept == Spec => []Careful
<1>1. Init => Careful
  BY SchemaInit, TextsInit DEF Init, Careful
<1>2. Careful /\ [Next]_vars => Careful'
  BY MigrationSteps, SchemaStep, TextsStep DEF Careful
<1>3. QED
  BY <1>1, <1>2, PTL DEF Spec

\* Whatever upgrades, downgrades, server starts and inserts came before, a database at
\* the last revision has the tables of the models, with the outbox's primary key gone
\* and nothing else different (migrations/versions, app/domain/models, create_all in
\* app/main.py).
THEOREM HeadIsDeclaredButOneKey == Spec => []HeadLacksOneKey
<1>1. Careful => HeadLacksOneKey
  BY HeadIsLastStage DEF Careful, HeadLacksOneKey
<1>2. QED
  BY <1>1, CarefulKept, PTL

\* A downgrade that goes through leaves every table the way the upgrades to that
\* version made it, but at version 4, where the outbox's primary key is missing
\* (downgrade of each revision, env.py).
THEOREM DowngradesLoseOneKey == Spec => DowngradeLosesOneKey
<1>1. Careful /\ [Next]_vars =>
        [(version' < version /\ version > 1) =>
           \A t \in DOMAIN Mig!Course[version'].tables :
             t \in DOMAIN db'.tables /\ db'.tables[t] = Mig!Found(version', t)]_Mig!vars
  BY MigrationSteps, DownGives DEF Careful
<1>2. QED
  BY <1>1, CarefulKept, PTL DEF Spec, DowngradeLosesOneKey, Mig!DowngradeLosesOneKey

\* An upgrade keeps the texts of recipes and the names of speakers, though it drops
\* the columns and the table that hold them (upgrade of AddDescription, RemoveChunks
\* and RenameSpeaker).
THEOREM UpgradesKeepTexts == Spec => TextsKept
<1>1. Careful /\ [Next]_vars =>
        [version' > version =>
           \A f \in Mig!Texts : (\E g \in db.facts : g[3] = f) =>
             \E g \in db'.facts : g[3] = f]_Mig!vars
  BY MigrationSteps, TextsStep DEF Careful, Has
<1>2. QED
  BY <1>1, CarefulKept, PTL DEF Spec, TextsKept, Mig!TextsKept
=============================================================================
