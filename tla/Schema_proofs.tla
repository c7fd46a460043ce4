--------------------------- MODULE Schema_proofs ---------------------------
(***************************************************************************)
(* What the operations and the revisions of Migrations do to the tables of *)
(* a database, by themselves: every revision is run on the tables of its   *)
(* version and gives exactly the tables of the next, its downgrade gives   *)
(* those of the one before, but for the outbox's primary key at version 4, *)
(* and the last version has the tables that the models declare, but for    *)
(* the outbox's primary key.                                               *)
(***************************************************************************)
EXTENDS Jobs_proofs

-----------------------------------------------------------------------------
(* The operations of a revision, one after the other.                      *)

\* The databases on the way.
Steps(at, d, ops, N) ==
  /\ at[0] = d
  /\ \A i \in 1 .. N : at[i] = Mig!Do(at[i - 1], ops[i])

\* Applied is a recursive function: the databases on the way exist.
LEMMA AppliedSteps ==
  ASSUME NEW d, NEW ops, NEW N \in Nat, Len(ops) = N
  PROVE  \E at : Steps(at, d, ops, N) /\ Mig!Applied(d, ops) = at[N]
<1> DEFINE rec(f, n) == [i \in 0 .. n |-> IF i = 0 THEN d ELSE Mig!Do(f[i - 1], ops[i])]
           Good == {n \in 0 .. N : \E f : f = rec(f, n)}
           h == CHOOSE f : f = rec(f, N)
<1>1. 0 \in Good
  <2> DEFINE g == [i \in 0 .. 0 |-> d]
  <2>1. g = rec(g, 0)
    OBVIOUS
  <2> HIDE DEF g
  <2>2. \E f : f = rec(f, 0)
    BY <2>1, Zenon
  <2>3. QED
    BY <2>2
<1>2. ASSUME NEW n \in 1 .. N, n - 1 \in Good
      PROVE  n \in Good
  <2>1. PICK f : f = rec(f, n - 1)
    BY <1>2
  <2> DEFINE g == [i \in 0 .. n |-> IF i = n THEN Mig!Do(f[n - 1], ops[n]) ELSE f[i]]
  <2>2. \A i \in 0 .. n : g[i] = IF i = 0 THEN d ELSE Mig!Do(g[i - 1], ops[i])
    BY <2>1
  <2>3. g = rec(g, n)
    BY <2>2
  <2> HIDE DEF g
  <2>4. \E k : k = rec(k, n)
    BY <2>3, Zenon
  <2>5. QED
    BY <2>4
<1>3. N \in Good
  <2> HIDE DEF Good
  <2>1. QED
    BY <1>1, <1>2, Induced
<1>4. PICK f : f = rec(f, N)
  BY <1>3
<1>5. h = rec(h, N)
  BY <1>4
<1>6. Mig!Applied(d, ops) = h[N]
  BY DEF Mig!Applied
<1> HIDE DEF h
<1>7. Steps(h, d, ops, N)
  BY <1>5 DEF Steps
<1>8. QED
  BY <1>6, <1>7

\* The same for a revision of a given number of operations.
LEMMA Applied0 ==
  ASSUME NEW d, NEW ops, Len(ops) = 0
  PROVE  Mig!Applied(d, ops) = d
<1>1. PICK at : Steps(at, d, ops, 0) /\ Mig!Applied(d, ops) = at[0]
  BY AppliedSteps
<1>2. QED
  BY <1>1 DEF Steps

LEMMA Applied1 ==
  ASSUME NEW d, NEW ops, Len(ops) = 1
  PROVE  Mig!Applied(d, ops) = Mig!Do(d, ops[1])
<1>1. PICK at : Steps(at, d, ops, 1) /\ Mig!Applied(d, ops) = at[1]
  BY AppliedSteps
<1>2. QED
  BY <1>1 DEF Steps

LEMMA Applied2 ==
  ASSUME NEW d, NEW ops, Len(ops) = 2
  PROVE  Mig!Applied(d, ops) = Mig!Do(Mig!Do(d, ops[1]), ops[2])
<1>1. PICK at : Steps(at, d, ops, 2) /\ Mig!Applied(d, ops) = at[2]
  BY AppliedSteps
<1>2. QED
  BY <1>1 DEF Steps

LEMMA Applied3 ==
  ASSUME NEW d, NEW ops, Len(ops) = 3
  PROVE  Mig!Applied(d, ops) = Mig!Do(Mig!Do(Mig!Do(d, ops[1]), ops[2]), ops[3])
<1>1. PICK at : Steps(at, d, ops, 3) /\ Mig!Applied(d, ops) = at[3]
  BY AppliedSteps
<1>2. QED
  BY <1>1 DEF Steps

LEMMA Applied5 ==
  ASSUME NEW d, NEW ops, Len(ops) = 5
  PROVE  Mig!Applied(d, ops) =
           Mig!Do(Mig!Do(Mig!Do(Mig!Do(Mig!Do(d, ops[1]), ops[2]), ops[3]), ops[4]),
           ops[5])
<1>1. PICK at : Steps(at, d, ops, 5) /\ Mig!Applied(d, ops) = at[5]
  BY AppliedSteps
<1>2. QED
  BY <1>1 DEF Steps

-----------------------------------------------------------------------------
(* One operation.  A database without rows can be altered by every         *)
(* operation that its columns and keys allow.                              *)

TableOps == {"add", "drop", "null", "not null", "retype", "cast", "index", "unindex"}
Fields == {"tables", "types", "facts", "ok"}
Put(tables, t, has) == [tables EXCEPT ![t] = has]

\* An operation that is possible, by the parts of the database.
LEMMA DoGoes ==
  ASSUME NEW d, NEW op, d.ok, Mig!Possible(d, op)
  PROVE  /\ DOMAIN Mig!Do(d, op) = Fields
         /\ Mig!Do(d, op).tables = Mig!TablesAfter(d, op)
         /\ Mig!Do(d, op).types =
              IF op.op = "create" THEN d.types \union Mig!EnumsOf(op.tables) ELSE d.types
         /\ Mig!Do(d, op).facts = Mig!FactsAfter(d, op)
         /\ Mig!Do(d, op).ok
BY DEF Mig!Do, Fields

\* One that is not.
LEMMA DoStops ==
  ASSUME NEW d, NEW op, DOMAIN d = Fields, ~d.ok \/ ~Mig!Possible(d, op)
  PROVE  /\ DOMAIN Mig!Do(d, op) = Fields
         /\ Mig!Do(d, op).tables = d.tables
         /\ Mig!Do(d, op).facts = d.facts
         /\ ~Mig!Do(d, op).ok
BY DEF Mig!Do, Fields

\* TablesAfter by kind of operation.
LEMMA TablesCases ==
  ASSUME NEW d, NEW op
  PROVE  /\ op.op \in TableOps =>
              Mig!TablesAfter(d, op) =
                Put(d.tables, op.t, Mig!Altered(d.tables[op.t], op))
         /\ op.op = "create" => Mig!TablesAfter(d, op) = Mig!With(op.tables, d.tables)
         /\ op.op = "drop tables" =>
              Mig!TablesAfter(d, op) =
                Mig!Restrict(d.tables, DOMAIN d.tables \ op.names)
         /\ op.op = "copy" => Mig!TablesAfter(d, op) = d.tables
BY DEF Mig!TablesAfter, TableOps, Put

LEMMA NoFacts ==
  ASSUME NEW d, NEW op, d.facts = {}
  PROVE  Mig!FactsAfter(d, op) = {}
BY DEF Mig!FactsAfter, Mig!Rows

Is(d, tables, types) ==
  DOMAIN d = Fields /\ d.ok /\ d.facts = {} /\ d.tables = tables /\ d.types = types

\* An operation on one table replaces that table.
LEMMA Alters ==
  ASSUME NEW d, NEW tables, NEW types, Is(d, tables, types),
         NEW op, op.op \in TableOps, Mig!Possible(d, op)
  PROVE  Is(Mig!Do(d, op), Put(tables, op.t, Mig!Altered(tables[op.t], op)), types)
<1>1. op.op # "create"
  BY DEF TableOps
<1>2. /\ d.ok /\ d.facts = {} /\ d.tables = tables /\ d.types = types
  BY DEF Is
<1>3. Mig!FactsAfter(d, op) = {}
  BY <1>2, NoFacts
<1>4. QED
  BY <1>1, <1>2, <1>3, DoGoes, TablesCases DEF Is

Bare(has, op) ==
  /\ op.op = "add" => DOMAIN op.cols \intersect DOMAIN has.cols = {}
  /\ op.op \in {"drop", "null", "not null", "retype", "cast"} =>
       op.names \subseteq DOMAIN has.cols
  /\ op.op = "retype" => op.type # "json"
  /\ op.op = "index" => op.keys \intersect has.keys = {}
  /\ op.op = "unindex" => op.keys \subseteq has.keys

\* An operation turns a table of an empty database into another.
Turns(has, op, t, new) ==
  op.op \in TableOps /\ op.t = t /\ Bare(has, op) /\ new = Mig!Altered(has, op)

\* With no rows anywhere, only the table decides whether an operation is possible.
LEMMA BarePossible ==
  ASSUME NEW d, NEW op, op.op \in TableOps, op.t \in DOMAIN d.tables, d.facts = {},
         Bare(d.tables[op.t], op)
  PROVE  Mig!Possible(d, op)
BY DEF Mig!Possible, TableOps, Bare, Mig!Rows

LEMMA Turned ==
  ASSUME NEW d, NEW tables, NEW types, Is(d, tables, types), NEW t \in DOMAIN tables,
         NEW op, NEW new, Turns(tables[t], op, t, new)
  PROVE  Is(Mig!Do(d, op), Put(tables, t, new), types)
<1>1. /\ op.op \in TableOps /\ op.t = t /\ Bare(tables[t], op)
      /\ new = Mig!Altered(tables[t], op)
  BY DEF Turns
<1>2. d.tables = tables /\ d.facts = {}
  BY DEF Is
<1>3. Mig!Possible(d, op)
  BY <1>1, <1>2, BarePossible
<1>4. QED
  BY <1>1, <1>3, Alters

Typed(cols, names,
    type) == [c \in DOMAIN cols |-> IF c \in names THEN type ELSE cols[c]]

\* Each operation on one table, by what it makes of that table.
LEMMA TurnsAdd ==
  ASSUME NEW c, NEW n, NEW k, NEW t, NEW op, op.op = "add", op.t = t, op.nullable,
         NEW x, x = op.cols, NEW c2, NEW n2,
         DOMAIN x \intersect DOMAIN c = {}, c2 = Mig!With(x, c), n2 = n \union DOMAIN x
  PROVE  Turns(Mig!Table(c, n, k), op, t, Mig!Table(c2, n2, k))
BY DEF Turns, Bare, TableOps, Mig!Table, Mig!Altered, Mig!ColsAfter, Mig!NullAfter,
   Mig!KeysAfter

LEMMA TurnsAddFull ==
  ASSUME NEW c, NEW n, NEW k, NEW t, NEW op, op.op = "add", op.t = t, ~op.nullable,
         NEW x, x = op.cols, NEW c2,
         DOMAIN x \intersect DOMAIN c = {}, c2 = Mig!With(x, c)
  PROVE  Turns(Mig!Table(c, n, k), op, t, Mig!Table(c2, n, k))
BY DEF Turns, Bare, TableOps, Mig!Table, Mig!Altered, Mig!ColsAfter, Mig!NullAfter,
   Mig!KeysAfter

\* The keys that do not go with the columns x.
KeysLeft(k, x) == {q \in k : q.on \intersect x = {}}

LEMMA TurnsDrop ==
  ASSUME NEW c, NEW n, NEW k, NEW t, NEW x, NEW c2, NEW n2, NEW k2,
         x \subseteq DOMAIN c, c2 = Mig!Restrict(c, DOMAIN c \ x), n2 = n \ x,
         k2 = KeysLeft(k, x)
  PROVE  Turns(Mig!Table(c, n, k), Mig!Drop(t, x), t, Mig!Table(c2, n2, k2))
BY DEF Turns, Bare, TableOps, Mig!Table, Mig!Drop, Mig!Altered, Mig!ColsAfter,
   Mig!NullAfter, Mig!KeysAfter, KeysLeft

LEMMA KeysStay ==
  ASSUME NEW k, NEW x, \A q \in k : q.on \intersect x = {}
  PROVE  k = KeysLeft(k, x)
BY DEF KeysLeft

LEMMA TurnsNull ==
  ASSUME NEW c, NEW n, NEW k, NEW t, NEW x, NEW n2,
         x \subseteq DOMAIN c, n2 = n \union x
  PROVE  Turns(Mig!Table(c, n, k), Mig!MayBeNull(t, x), t, Mig!Table(c, n2, k))
BY DEF Turns, Bare, TableOps, Mig!Table, Mig!MayBeNull, Mig!Altered, Mig!ColsAfter,
   Mig!NullAfter, Mig!KeysAfter

LEMMA TurnsNotNull ==
  ASSUME NEW c, NEW n, NEW k, NEW t, NEW x, NEW n2,
         x \subseteq DOMAIN c, n2 = n \ x
  PROVE  Turns(Mig!Table(c, n, k), Mig!NotNull(t, x), t, Mig!Table(c, n2, k))
BY DEF Turns, Bare, TableOps, Mig!Table, Mig!NotNull, Mig!Altered, Mig!ColsAfter,
   Mig!NullAfter, Mig!KeysAfter

LEMMA TurnsRetype ==
  ASSUME NEW c, NEW n, NEW k, NEW t, NEW x, NEW y, NEW c2,
         x \subseteq DOMAIN c, y # "json", c2 = Typed(c, x, y)
  PROVE  Turns(Mig!Table(c, n, k), Mig!Retype(t, x, y), t, Mig!Table(c2, n, k))
BY DEF Turns, Bare, TableOps, Mig!Table, Mig!Retype, Mig!Altered, Mig!ColsAfter,
   Mig!NullAfter, Mig!KeysAfter, Typed

LEMMA TurnsCast ==
  ASSUME NEW c, NEW n, NEW k, NEW t, NEW x, NEW y, NEW c2,
         x \subseteq DOMAIN c, c2 = Typed(c, x, y)
  PROVE  Turns(Mig!Table(c, n, k), Mig!Cast(t, x, y), t, Mig!Table(c2, n, k))
BY DEF Turns, Bare, TableOps, Mig!Table, Mig!Cast, Mig!Altered, Mig!ColsAfter,
   Mig!NullAfter, Mig!KeysAfter, Typed

LEMMA TurnsIndex ==
  ASSUME NEW c, NEW n, NEW k, NEW t, NEW x, NEW k2,
         x \intersect k = {}, k2 = k \union x
  PROVE  Turns(Mig!Table(c, n, k), Mig!Index(t, x), t, Mig!Table(c, n, k2))
BY DEF Turns, Bare, TableOps, Mig!Table, Mig!Index, Mig!Altered, Mig!ColsAfter,
   Mig!NullAfter, Mig!KeysAfter

LEMMA TurnsUnindex ==
  ASSUME NEW c, NEW n, NEW k, NEW t, NEW x, NEW k2,
         x \subseteq k, k2 = k \ x
  PROVE  Turns(Mig!Table(c, n, k), Mig!Unindex(t, x), t, Mig!Table(c, n, k2))
BY DEF Turns, Bare, TableOps, Mig!Table, Mig!Unindex, Mig!Altered, Mig!ColsAfter,
   Mig!NullAfter, Mig!KeysAfter

\* Operations on several tables.
LEMMA Creates ==
  ASSUME NEW d, NEW tables, NEW types, Is(d, tables, types), NEW op, op.op = "create",
         DOMAIN op.tables \intersect DOMAIN tables = {},
         Mig!EnumsOf(op.tables) \intersect types = {}
  PROVE  Is(Mig!Do(d, op), Mig!With(op.tables, tables),
             types \union Mig!EnumsOf(op.tables))
<1>1. d.ok /\ d.facts = {} /\ d.tables = tables /\ d.types = types
  BY DEF Is
<1>2. Mig!Possible(d, op)
  BY <1>1 DEF Mig!Possible
<1>3. Mig!FactsAfter(d, op) = {} /\ Mig!TablesAfter(d, op) = Mig!With(op.tables, tables)
  BY <1>1, NoFacts, TablesCases
<1>4. QED
  BY <1>1, <1>2, <1>3, DoGoes DEF Is

\* No table but these refers to one of them.
Unreferred(tables, names) ==
  \A t \in DOMAIN tables \ names : \A k \in tables[t].keys : k.to \intersect names = {}

LEMMA DropsTables ==
  ASSUME NEW d, NEW tables, NEW types, Is(d, tables, types), NEW op,
         op.op = "drop tables",
         op.names \subseteq DOMAIN tables, Unreferred(tables, op.names)
  PROVE  Is(Mig!Do(d, op), Mig!Restrict(tables, DOMAIN tables \ op.names), types)
<1>1. d.ok /\ d.facts = {} /\ d.tables = tables /\ d.types = types
  BY DEF Is
<1>2. Mig!Possible(d, op)
  BY <1>1 DEF Mig!Possible, Unreferred
<1>3. /\ Mig!FactsAfter(d, op) = {}
      /\ Mig!TablesAfter(d, op) = Mig!Restrict(tables, DOMAIN tables \ op.names)
  BY <1>1, NoFacts, TablesCases
<1>4. QED
  BY <1>1, <1>2, <1>3, DoGoes DEF Is

LEMMA Copies ==
  ASSUME NEW d, NEW tables, NEW types, Is(d, tables, types), NEW op, op.op = "copy"
  PROVE  Is(Mig!Do(d, op), tables, types)
<1>1. d.ok /\ d.facts = {} /\ d.tables = tables /\ d.types = types
  BY DEF Is
<1>2. Mig!Possible(d, op)
  BY DEF Mig!Possible
<1>3. Mig!FactsAfter(d, op) = {} /\ Mig!TablesAfter(d, op) = tables
  BY <1>1, NoFacts, TablesCases
<1>4. QED
  BY <1>1, <1>2, <1>3, DoGoes DEF Is

-----------------------------------------------------------------------------
(* The tables of each version: a name ends with the revision that gave the *)
(* table, its columns or its columns that may be NULL this form.           *)

RecipeCols0 == Mig!Legacy.recipes.cols
RecipeCols2 == Mig!With(Mig!UrlColumns, RecipeCols0)
RecipeCols6 == Typed(RecipeCols2, Mig!Times, "timetz")
Described == [description |-> "text", steps |-> "text"]
RecipeCols8 == Mig!With(Described, RecipeCols6)
RecipeCols9 == Mig!With([source |-> "text"], RecipeCols8)
RecipeNull0 == Mig!Legacy.recipes.null
RecipeNull2 == RecipeNull0 \union DOMAIN Mig!UrlColumns
RecipeNull3 == RecipeNull2 \union {"name"}
RecipeNull7 == RecipeNull3 \ {"source_url", "status"}
RecipeNull8 == RecipeNull7 \union {"description", "steps"}
RecipeNull9 == RecipeNull8 \union {"source"}
RecipeKeys0 == {Mig!PrimaryKey({"id"})}
RecipeKeys2 == RecipeKeys0 \union Mig!UrlKeys
Recipes0 == Mig!Table(RecipeCols0, RecipeNull0, RecipeKeys0)
Recipes2 == Mig!Table(RecipeCols2, RecipeNull2, RecipeKeys2)
Recipes3 == Mig!Table(RecipeCols2, RecipeNull3, RecipeKeys2)
Recipes6 == Mig!Table(RecipeCols6, RecipeNull3, RecipeKeys2)
Recipes7 == Mig!Table(RecipeCols6, RecipeNull7, RecipeKeys2)
Recipes8 == Mig!Table(RecipeCols8, RecipeNull8, RecipeKeys2)
Recipes9 == Mig!Table(RecipeCols9, RecipeNull9, RecipeKeys2)

OutboxCols4 == Mig!FirstOutbox.cols
OutboxColsBoth == Mig!With([event_id |-> "uuid"], OutboxCols4)
OutboxCols5 == Mig!Restrict(OutboxColsBoth, DOMAIN OutboxColsBoth \ {"evnet_id"})
OutboxCols6 == Typed(OutboxCols5, Mig!Times, "timetz")
OutboxNull4 == Mig!FirstOutbox.null
OutboxNull7 == OutboxNull4 \ {"status"}
OutboxKeys4 == {Mig!PrimaryKey({"evnet_id"}), Mig!PendingIndex}
OutboxKeys5 == {Mig!PendingIndex}
Outbox4 == Mig!Table(OutboxCols4, OutboxNull4, OutboxKeys4)
Outbox5 == Mig!Table(OutboxCols5, OutboxNull4, OutboxKeys5)
Outbox6 == Mig!Table(OutboxCols6, OutboxNull4, OutboxKeys5)
Outbox7 == Mig!Table(OutboxCols6, OutboxNull7, OutboxKeys5)
\* After a downgrade to version 4.
Unkeyed4 == Mig!Table(OutboxCols4, OutboxNull4, OutboxKeys5)

SourceCols11 == Mig!YtTables.sources.cols
SourceCols12 == Mig!With([video_id |-> "text"], SourceCols11)
SourceCols19 == Mig!With([speaker |-> "text"], SourceCols12)
SourceNull11 == Mig!YtTables.sources.null
SourceNull12 == SourceNull11 \union {"video_id"}
SourceNull19 == SourceNull11 \union {"speaker"}
SourceKeys == Mig!SourceKeys
Sources11 == Mig!Table(SourceCols11, SourceNull11, SourceKeys)
Sources12 == Mig!Table(SourceCols12, SourceNull12, SourceKeys)
Sources13 == Mig!Table(SourceCols12, SourceNull11, SourceKeys)
Sources19 == Mig!Table(SourceCols19, SourceNull19, SourceKeys)

SectionCols11 == Mig!YtTables.sections.cols
SectionCols14 == Typed(SectionCols11, {"cleaned_content"}, "json")
SectionCols20 == Mig!Restrict(SectionCols11, DOMAIN SectionCols11 \ {"cleaned_content"})
SectionNull11 == Mig!YtTables.sections.null
SectionNull20 == SectionNull11 \ {"cleaned_content"}
SectionKeys == Mig!SectionKeys
Sections11 == Mig!Table(SectionCols11, SectionNull11, SectionKeys)
Sections14 == Mig!Table(SectionCols14, SectionNull11, SectionKeys)
Sections20 == Mig!Table(SectionCols20, SectionNull20, SectionKeys)

Answered == [question |-> "text", answer |-> "text", embedding_text |-> "text"]
Told == [topic |-> "text", primary_speaker |-> "text", llm_artifact_id |-> "uuid"]
ChunkCols11 == Mig!YtTables.chunks.cols
ChunkColsMore == Mig!With(Answered, ChunkCols11)
ChunkColsAll == Mig!With(Told, ChunkColsMore)
ChunkCols18 == Mig!Restrict(ChunkColsAll, DOMAIN ChunkColsAll \ {"text", "order_index"})
ChunkColsBoth == Mig!With([speaker |-> "text"], ChunkCols18)
ChunkCols21 == Mig!Restrict(ChunkColsBoth, DOMAIN ChunkColsBoth \ {"primary_speaker"})
ChunkNull11 == Mig!YtTables.chunks.null
ChunkNull18 == DOMAIN Told
ChunkNullBoth == DOMAIN Told \union {"speaker"}
ChunkNull21 == {"topic", "speaker", "llm_artifact_id"}
ChunkKeysLess == Mig!ChunkKeys
ChunkKeys11 == ChunkKeysLess \union {Mig!ChunkOrder}
ChunkKeys18 == ChunkKeysLess \union {Mig!ArtifactRef}
Chunks11 == Mig!Table(ChunkCols11, ChunkNull11, ChunkKeys11)
Chunks18 == Mig!Table(ChunkCols18, ChunkNull18, ChunkKeys18)
Chunks21 == Mig!Table(ChunkCols21, ChunkNull21, ChunkKeys18)

ArtifactCols == Mig!FirstArtifacts.cols
ArtifactNull == Mig!FirstArtifacts.null
ArtifactKeys15 == Mig!ArtifactKeys
ArtifactKeys17 == ArtifactKeys15 \union {Mig!CurrentKey}
Artifacts15 == Mig!Table(ArtifactCols, ArtifactNull, ArtifactKeys15)
Artifacts17 == Mig!Table(ArtifactCols, ArtifactNull, ArtifactKeys17)

\* The tables of a database, while it is at one of some versions.
Early(recipes) == [recipes |-> recipes, recipe_chunks |-> Mig!Legacy.recipe_chunks]
Middle(recipes, outbox) ==
  [recipes |-> recipes, recipe_chunks |-> Mig!Legacy.recipe_chunks, outbox |-> outbox]
Short == [recipes |-> Recipes9, outbox |-> Outbox7]
Late(s, x) ==
  [recipes |-> Recipes9, outbox |-> Outbox7, sources |-> s, sections |-> x,
   chunks |-> Chunks11, chunk_translations |-> Mig!ChunkTranslation]
Full(s, x, c, a) ==
  [recipes |-> Recipes9, outbox |-> Outbox7, sources |-> s, sections |-> x,
   chunks |-> c, chunk_translations |-> Mig!ChunkTranslation,
   llm_artifacts |-> a]

\* A key by its parts.
Parts(k, name, on, to) == k.name = name /\ k.on = on /\ k.to = to

LEMMA RecipeKeyParts ==
  /\ Parts(Mig!PrimaryKey({"id"}), "primary key", {"id"}, {})
  /\ Parts(Mig!Key("ix_recipes_source_url", {"source_url"}), "ix_recipes_source_url",
           {"source_url"}, {})
  /\ Parts(Mig!Key("ix_recipes_status", {"status"}), "ix_recipes_status",
           {"status"}, {})
BY DEF Parts, Mig!Key, Mig!PrimaryKey, Mig!ForeignKey

LEMMA RecipeChunkKeyParts ==
  /\ Parts(Mig!PrimaryKey({"id"}), "primary key", {"id"}, {})
  /\ Parts(Mig!ForeignKey("parent_id", "recipes"), "foreign key",
           {"parent_id"}, {"recipes"})
BY DEF Parts, Mig!Key, Mig!PrimaryKey, Mig!ForeignKey

LEMMA OutboxKeyParts ==
  /\ Parts(Mig!PrimaryKey({"evnet_id"}), "primary key", {"evnet_id"}, {})
  /\ Parts(Mig!PrimaryKey({"event_id"}), "primary key", {"event_id"}, {})
  /\ Parts(Mig!PendingIndex, "idx_outbox_pending", {"created_at", "status"}, {})
BY DEF Parts, Mig!Key, Mig!PrimaryKey, Mig!ForeignKey, Mig!PendingIndex

LEMMA SourceKeyParts ==
  /\ Parts(Mig!PrimaryKey({"id"}), "primary key", {"id"}, {})
  /\ Parts(Mig!Key("url", {"url"}), "url", {"url"}, {})
  /\ Parts(Mig!Key("ix_sources_type", {"type"}), "ix_sources_type", {"type"}, {})
BY DEF Parts, Mig!Key, Mig!PrimaryKey, Mig!ForeignKey

LEMMA SectionKeyParts ==
  /\ Parts(Mig!PrimaryKey({"id"}), "primary key", {"id"}, {})
  /\ Parts(Mig!Key("uq_section_order", {"source_id", "order_index"}), "uq_section_order",
           {"source_id", "order_index"}, {})
  /\ Parts(Mig!Key("ix_sections_source_id", {"source_id"}), "ix_sections_source_id",
           {"source_id"}, {})
  /\ Parts(Mig!ForeignKey("source_id", "sources"), "foreign key",
           {"source_id"}, {"sources"})
BY DEF Parts, Mig!Key, Mig!PrimaryKey, Mig!ForeignKey

LEMMA ChunkKeyParts ==
  /\ Parts(Mig!PrimaryKey({"id"}), "primary key", {"id"}, {})
  /\ Parts(Mig!ChunkOrder, "uq_chunk_order", {"section_id", "order_index"}, {})
  /\ Parts(Mig!Key("ix_chunks_section_id", {"section_id"}), "ix_chunks_section_id",
           {"section_id"}, {})
  /\ Parts(Mig!ArtifactRef, "foreign key", {"llm_artifact_id"}, {"llm_artifacts"})
  /\ Parts(Mig!ForeignKey("section_id", "sections"), "foreign key",
           {"section_id"}, {"sections"})
BY DEF Parts, Mig!Key, Mig!PrimaryKey, Mig!ForeignKey, Mig!ChunkOrder, Mig!ArtifactRef

LEMMA TranslationKeyParts ==
  /\ Parts(Mig!PrimaryKey({"id"}), "primary key", {"id"}, {})
  /\ Parts(Mig!Key("uq_chunk_translation_language", {"chunk_id", "language"}),
           "uq_chunk_translation_language", {"chunk_id", "language"}, {})
  /\ Parts(Mig!Key("ix_chunk_translation_language", {"language"}),
           "ix_chunk_translation_language", {"language"}, {})
  /\ Parts(Mig!Key("ix_chunk_translations_chunk_id", {"chunk_id"}),
           "ix_chunk_translations_chunk_id", {"chunk_id"}, {})
  /\ Parts(Mig!ForeignKey("chunk_id", "chunks"), "foreign key",
           {"chunk_id"}, {"chunks"})
BY DEF Parts, Mig!Key, Mig!PrimaryKey, Mig!ForeignKey

LEMMA ArtifactKeyParts ==
  /\ Parts(Mig!PrimaryKey({"id"}), "primary key", {"id"}, {})
  /\ Parts(Mig!CurrentKey, "ix_unique_current_artifact",
           {"section_id", "stage", "is_current"}, {})
  /\ Parts(Mig!ForeignKey("section_id", "sections"), "foreign key",
           {"section_id"}, {"sections"})
BY DEF Parts, Mig!Key, Mig!PrimaryKey, Mig!ForeignKey, Mig!CurrentKey

\* The columns that keys are on, and the tables that they refer to.
LEMMA KeysOn ==
  /\ \A q \in RecipeKeys2 : q.on \subseteq {"id", "source_url", "status"} /\ q.to = {}
  /\ \A q \in OutboxKeys5 : q.on = {"created_at", "status"} /\ q.to = {}
  /\ \A q \in SourceKeys : q.on \subseteq {"id", "url", "type"} /\ q.to = {}
  /\ \A q \in SectionKeys :
       q.on \subseteq {"id", "source_id", "order_index"} /\ q.to \subseteq {"sources"}
  /\ \A q \in ChunkKeys11 : q.to \subseteq {"sections"}
  /\ \A q \in ChunkKeys18 : q.on \subseteq {"id", "section_id", "llm_artifact_id"}
  /\ \A q \in Mig!TranslationKeys : q.to \subseteq {"chunks"}
  /\ \A q \in Mig!Legacy.recipe_chunks.keys : q.to \subseteq {"recipes"}
<1>1. \A q \in RecipeKeys2 : q.on \subseteq {"id", "source_url", "status"} /\ q.to = {}
  BY RecipeKeyParts DEF Parts, RecipeKeys2, RecipeKeys0, Mig!UrlKeys
<1>2. \A q \in OutboxKeys5 : q.on = {"created_at", "status"} /\ q.to = {}
  BY OutboxKeyParts DEF Parts, OutboxKeys5
<1>3. \A q \in SourceKeys : q.on \subseteq {"id", "url", "type"} /\ q.to = {}
  BY SourceKeyParts DEF Parts, SourceKeys, Mig!SourceKeys
<1>4. \A q \in SectionKeys :
        q.on \subseteq {"id", "source_id", "order_index"} /\ q.to \subseteq {"sources"}
  BY SectionKeyParts DEF Parts, SectionKeys, Mig!SectionKeys
<1>5. \A q \in ChunkKeys11 : q.to \subseteq {"sections"}
  BY ChunkKeyParts DEF Parts, ChunkKeys11, ChunkKeysLess, Mig!ChunkKeys
<1>6. \A q \in ChunkKeys18 : q.on \subseteq {"id", "section_id", "llm_artifact_id"}
  BY ChunkKeyParts DEF Parts, ChunkKeys18, ChunkKeysLess, Mig!ChunkKeys
<1>7. \A q \in Mig!TranslationKeys : q.to \subseteq {"chunks"}
  BY TranslationKeyParts DEF Parts, Mig!TranslationKeys
<1>8. \A q \in Mig!Legacy.recipe_chunks.keys : q.to \subseteq {"recipes"}
  BY RecipeChunkKeyParts DEF Parts, Mig!Legacy, Mig!Table
<1>9. QED
  BY <1>1, <1>2, <1>3, <1>4, <1>5, <1>6, <1>7, <1>8

\* An operation on one table of a stage.
LEMMA EarlyRecipes ==
  ASSUME NEW d, NEW types, NEW r, NEW op, NEW new,
         Is(d, Early(r), types), Turns(r, op, "recipes", new)
  PROVE  Is(Mig!Do(d, op), Early(new), types)
<1>1. /\ "recipes" \in DOMAIN Early(r) /\ Early(r)["recipes"] = r
      /\ Put(Early(r), "recipes", new) = Early(new)
  BY DEF Early, Put
<1>2. QED
  BY <1>1, Turned

LEMMA MiddleRecipes ==
  ASSUME NEW d, NEW types, NEW r, NEW o, NEW op, NEW new,
         Is(d, Middle(r, o), types), Turns(r, op, "recipes", new)
  PROVE  Is(Mig!Do(d, op), Middle(new, o), types)
<1>1. /\ "recipes" \in DOMAIN Middle(r, o) /\ Middle(r, o)["recipes"] = r
      /\ Put(Middle(r, o), "recipes", new) = Middle(new, o)
  BY DEF Middle, Put
<1>2. QED
  BY <1>1, Turned

LEMMA MiddleOutbox ==
  ASSUME NEW d, NEW types, NEW r, NEW o, NEW op, NEW new,
         Is(d, Middle(r, o), types), Turns(o, op, "outbox", new)
  PROVE  Is(Mig!Do(d, op), Middle(r, new), types)
<1>1. /\ "outbox" \in DOMAIN Middle(r, o) /\ Middle(r, o)["outbox"] = o
      /\ Put(Middle(r, o), "outbox", new) = Middle(r, new)
  BY DEF Middle, Put
<1>2. QED
  BY <1>1, Turned

LEMMA LateSources ==
  ASSUME NEW d, NEW types, NEW s, NEW x, NEW op, NEW new,
         Is(d, Late(s, x), types), Turns(s, op, "sources", new)
  PROVE  Is(Mig!Do(d, op), Late(new, x), types)
<1>1. /\ "sources" \in DOMAIN Late(s, x) /\ Late(s, x)["sources"] = s
      /\ Put(Late(s, x), "sources", new) = Late(new, x)
  BY DEF Late, Put
<1>2. QED
  BY <1>1, Turned

LEMMA LateSections ==
  ASSUME NEW d, NEW types, NEW s, NEW x, NEW op, NEW new,
         Is(d, Late(s, x), types), Turns(x, op, "sections", new)
  PROVE  Is(Mig!Do(d, op), Late(s, new), types)
<1>1. /\ "sections" \in DOMAIN Late(s, x) /\ Late(s, x)["sections"] = x
      /\ Put(Late(s, x), "sections", new) = Late(s, new)
  BY DEF Late, Put
<1>2. QED
  BY <1>1, Turned

LEMMA FullSources ==
  ASSUME NEW d, NEW types, NEW s, NEW x, NEW c, NEW a, NEW op, NEW new,
         Is(d, Full(s, x, c, a), types), Turns(s, op, "sources", new)
  PROVE  Is(Mig!Do(d, op), Full(new, x, c, a), types)
<1>1. /\ "sources" \in DOMAIN Full(s, x, c, a) /\ Full(s, x, c, a)["sources"] = s
      /\ Put(Full(s, x, c, a), "sources", new) = Full(new, x, c, a)
  BY DEF Full, Put
<1>2. QED
  BY <1>1, Turned

LEMMA FullSections ==
  ASSUME NEW d, NEW types, NEW s, NEW x, NEW c, NEW a, NEW op, NEW new,
         Is(d, Full(s, x, c, a), types), Turns(x, op, "sections", new)
  PROVE  Is(Mig!Do(d, op), Full(s, new, c, a), types)
<1>1. /\ "sections" \in DOMAIN Full(s, x, c, a) /\ Full(s, x, c, a)["sections"] = x
      /\ Put(Full(s, x, c, a), "sections", new) = Full(s, new, c, a)
  BY DEF Full, Put
<1>2. QED
  BY <1>1, Turned

LEMMA FullChunks ==
  ASSUME NEW d, NEW types, NEW s, NEW x, NEW c, NEW a, NEW op, NEW new,
         Is(d, Full(s, x, c, a), types), Turns(c, op, "chunks", new)
  PROVE  Is(Mig!Do(d, op), Full(s, x, new, a), types)
<1>1. /\ "chunks" \in DOMAIN Full(s, x, c, a) /\ Full(s, x, c, a)["chunks"] = c
      /\ Put(Full(s, x, c, a), "chunks", new) = Full(s, x, new, a)
  BY DEF Full, Put
<1>2. QED
  BY <1>1, Turned

LEMMA FullArtifacts ==
  ASSUME NEW d, NEW types, NEW s, NEW x, NEW c, NEW a, NEW op, NEW new,
         Is(d, Full(s, x, c, a), types), Turns(a, op, "llm_artifacts", new)
  PROVE  Is(Mig!Do(d, op), Full(s, x, c, new), types)
<1>1. /\ "llm_artifacts" \in DOMAIN Full(s, x, c, a) /\
           Full(s, x, c, a)["llm_artifacts"] = a
      /\ Put(Full(s, x, c, a), "llm_artifacts", new) = Full(s, x, c, new)
  BY DEF Full, Put
<1>2. QED
  BY <1>1, Turned

-----------------------------------------------------------------------------
(* The revisions, up and down.                                             *)

\* What was added and dropped again.
LEMMA PutBack ==
  ASSUME NEW f, f = [y \in DOMAIN f |-> f[y]], NEW x \in DOMAIN f, NEW g,
         DOMAIN g = {x}, g[x] = f[x]
  PROVE  f = Mig!With(g, Mig!Restrict(f, DOMAIN f \ {x}))
BY DEF Mig!With, Mig!Restrict

LEMMA TakenBack ==
  ASSUME NEW f, f = [y \in DOMAIN f |-> f[y]], NEW x, x \notin DOMAIN f, NEW g,
         DOMAIN g = {x}, NEW both, both = Mig!With(g, f)
  PROVE  f = Mig!Restrict(both, DOMAIN both \ {x})
BY DEF Mig!With, Mig!Restrict

\* Each revision in turn: its upgrade makes the tables of the next version, and
\* its downgrade those it started from.
LEMMA AddUrlGoes ==
  ASSUME NEW d, NEW types
  PROVE  /\ Is(d, Early(Recipes0), types) =>
              Is(Mig!Applied(d, Mig!AddUrl.up), Early(Recipes2), types)
         /\ Is(d, Early(Recipes2), types) =>
              Is(Mig!Applied(d, Mig!AddUrl.down), Early(Recipes0), types)
<1>1. Len(Mig!AddUrl.up) = 2 /\ Len(Mig!AddUrl.down) = 2
  BY DEF Mig!AddUrl
<1>2. Turns(Recipes0, Mig!AddUrl.up[1], "recipes", Mig!Table(RecipeCols2, RecipeNull2,
          RecipeKeys0))
  <2>1. /\ Mig!AddUrl.up[1].op = "add" /\ Mig!AddUrl.up[1].t = "recipes"
        /\ Mig!AddUrl.up[1].nullable /\ Mig!AddUrl.up[1].cols = Mig!UrlColumns
    BY DEF Mig!AddUrl, Mig!Add
  <2>2. DOMAIN Mig!UrlColumns \intersect DOMAIN RecipeCols0 = {}
    BY DEF RecipeCols2, RecipeNull2, Mig!UrlColumns, Mig!With, Mig!Restrict,
       Mig!Legacy, Mig!Table, RecipeCols0, RecipeNull0
  <2>3. RecipeCols2 = Mig!With(Mig!UrlColumns, RecipeCols0)
    BY DEF RecipeCols2, RecipeNull2, Mig!UrlColumns, Mig!With, Mig!Restrict,
       Mig!Legacy, Mig!Table, RecipeCols0, RecipeNull0
  <2>4. RecipeNull2 = RecipeNull0 \union DOMAIN Mig!UrlColumns
    BY DEF RecipeCols2, RecipeNull2, Mig!UrlColumns, Mig!With, Mig!Restrict,
       Mig!Legacy, Mig!Table, RecipeCols0, RecipeNull0
  <2>5. QED
    BY <2>1, <2>2, <2>3, <2>4, TurnsAdd DEF Recipes0
<1>3. Turns(Mig!Table(RecipeCols2, RecipeNull2, RecipeKeys0), Mig!AddUrl.up[2], "recipes",
          Recipes2)
  <2>1. Mig!AddUrl.up[2] = Mig!Index("recipes", Mig!UrlKeys)
    BY DEF Mig!AddUrl
  <2>2. Mig!UrlKeys \intersect RecipeKeys0 = {}
    BY RecipeKeyParts DEF Parts, RecipeKeys2, RecipeKeys0, Mig!UrlKeys
  <2>3. RecipeKeys2 = RecipeKeys0 \union Mig!UrlKeys
    BY RecipeKeyParts DEF Parts, RecipeKeys2, RecipeKeys0, Mig!UrlKeys
  <2>4. QED
    BY <2>1, <2>2, <2>3, TurnsIndex DEF Recipes2
<1>4. Turns(Recipes2, Mig!AddUrl.down[1], "recipes", Mig!Table(RecipeCols2,
          RecipeNull2, RecipeKeys0))
  <2>1. Mig!AddUrl.down[1] = Mig!Unindex("recipes", Mig!UrlKeys)
    BY DEF Mig!AddUrl
  <2>2. Mig!UrlKeys \subseteq RecipeKeys2
    BY RecipeKeyParts DEF Parts, RecipeKeys2, RecipeKeys0, Mig!UrlKeys
  <2>3. RecipeKeys0 = RecipeKeys2 \ Mig!UrlKeys
    BY RecipeKeyParts DEF Parts, RecipeKeys2, RecipeKeys0, Mig!UrlKeys
  <2>4. QED
    BY <2>1, <2>2, <2>3, TurnsUnindex DEF Recipes2
<1>5. Turns(Mig!Table(RecipeCols2, RecipeNull2, RecipeKeys0), Mig!AddUrl.down[2], "recipes",
          Recipes0)
  <2>1. Mig!AddUrl.down[2] = Mig!Drop("recipes", DOMAIN Mig!UrlColumns)
    BY DEF Mig!AddUrl
  <2>2. DOMAIN Mig!UrlColumns \subseteq DOMAIN RecipeCols2
    BY DEF RecipeCols2, RecipeNull2, Mig!UrlColumns, Mig!With, Mig!Restrict,
       Mig!Legacy, Mig!Table, RecipeCols0, RecipeNull0
  <2>3. RecipeCols0 =
          Mig!Restrict(RecipeCols2, DOMAIN RecipeCols2 \ DOMAIN Mig!UrlColumns)
    BY DEF RecipeCols2, RecipeNull2, Mig!UrlColumns, Mig!With, Mig!Restrict,
       Mig!Legacy, Mig!Table, RecipeCols0, RecipeNull0
  <2>4. RecipeNull0 = RecipeNull2 \ DOMAIN Mig!UrlColumns
    BY DEF RecipeCols2, RecipeNull2, Mig!UrlColumns, Mig!With, Mig!Restrict,
       Mig!Legacy, Mig!Table, RecipeCols0, RecipeNull0
  <2>5. RecipeKeys0 = KeysLeft(RecipeKeys0, DOMAIN Mig!UrlColumns)
    BY RecipeKeyParts DEF Parts, RecipeKeys0, KeysLeft, Mig!UrlColumns
  <2>6. QED
    BY <2>1, <2>2, <2>3, <2>4, <2>5, TurnsDrop DEF Recipes0
<1>6. QED
  BY <1>1, <1>2, <1>3, <1>4, <1>5, Applied2, EarlyRecipes

LEMMA NameMayBeNullGoes ==
  ASSUME NEW d, NEW types
  PROVE  /\ Is(d, Early(Recipes2), types) =>
              Is(Mig!Applied(d, Mig!NameMayBeNull.up), Early(Recipes3), types)
         /\ Is(d, Early(Recipes3), types) =>
              Is(Mig!Applied(d, Mig!NameMayBeNull.down), Early(Recipes2), types)
<1>1. Len(Mig!NameMayBeNull.up) = 1 /\ Len(Mig!NameMayBeNull.down) = 1
  BY DEF Mig!NameMayBeNull
<1>2. Turns(Recipes2, Mig!NameMayBeNull.up[1], "recipes", Recipes3)
  <2>1. Mig!NameMayBeNull.up[1] = Mig!MayBeNull("recipes", {"name"})
    BY DEF Mig!NameMayBeNull
  <2>2. {"name"} \subseteq DOMAIN RecipeCols2
    BY DEF RecipeCols2, RecipeNull2, RecipeNull3, Mig!UrlColumns, Mig!With, Mig!Legacy,
       Mig!Table, RecipeCols0, RecipeNull0
  <2>3. RecipeNull3 = RecipeNull2 \union {"name"}
    BY DEF RecipeCols2, RecipeNull2, RecipeNull3, Mig!UrlColumns, Mig!With, Mig!Legacy,
       Mig!Table, RecipeCols0, RecipeNull0
  <2>4. QED
    BY <2>1, <2>2, <2>3, TurnsNull DEF Recipes2, Recipes3
<1>3. Turns(Recipes3, Mig!NameMayBeNull.down[1], "recipes", Recipes2)
  <2>1. Mig!NameMayBeNull.down[1] = Mig!NotNull("recipes", {"name"})
    BY DEF Mig!NameMayBeNull
  <2>2. {"name"} \subseteq DOMAIN RecipeCols2
    BY DEF RecipeCols2, RecipeNull2, RecipeNull3, Mig!UrlColumns, Mig!With, Mig!Legacy,
       Mig!Table, RecipeCols0, RecipeNull0
  <2>3. RecipeNull2 = RecipeNull3 \ {"name"}
    BY DEF RecipeCols2, RecipeNull2, RecipeNull3, Mig!UrlColumns, Mig!With, Mig!Legacy,
       Mig!Table, RecipeCols0, RecipeNull0
  <2>4. QED
    BY <2>1, <2>2, <2>3, TurnsNotNull DEF Recipes3, Recipes2
<1>4. QED
  BY <1>1, <1>2, <1>3, Applied1, EarlyRecipes

LEMMA RenameEventIdGoes ==
  ASSUME NEW d, NEW types
  PROVE  /\ Is(d, Middle(Recipes3, Outbox4), types) =>
              Is(Mig!Applied(d, Mig!RenameEventId.up), Middle(Recipes3, Outbox5), types)
         /\ Is(d, Middle(Recipes3, Unkeyed4), types) =>
              Is(Mig!Applied(d, Mig!RenameEventId.up), Middle(Recipes3, Outbox5), types)
         /\ Is(d, Middle(Recipes3, Outbox5), types) =>
              Is(Mig!Applied(d, Mig!RenameEventId.down), Middle(Recipes3, Unkeyed4),
              types)
<1>1. Len(Mig!RenameEventId.up) = 2 /\ Len(Mig!RenameEventId.down) = 2
  BY DEF Mig!RenameEventId
<1>2. ASSUME NEW k
      PROVE  Turns(Mig!Table(OutboxCols4, OutboxNull4, k), Mig!RenameEventId.up[1],
                 "outbox", Mig!Table(OutboxColsBoth, OutboxNull4, k))
  <2>1. /\ Mig!RenameEventId.up[1].op = "add" /\ Mig!RenameEventId.up[1].t = "outbox"
        /\ ~Mig!RenameEventId.up[1].nullable
        /\ Mig!RenameEventId.up[1].cols = [event_id |-> "uuid"]
    BY DEF Mig!RenameEventId, Mig!Add
  <2>2. DOMAIN [event_id |-> "uuid"] \intersect DOMAIN OutboxCols4 = {}
    BY DEF OutboxColsBoth, OutboxCols5, Mig!With, Mig!Restrict, OutboxCols4,
       OutboxNull4, Mig!FirstOutbox, Mig!Table
  <2>3. OutboxColsBoth = Mig!With([event_id |-> "uuid"], OutboxCols4)
    BY DEF OutboxColsBoth, OutboxCols5, Mig!With, Mig!Restrict, OutboxCols4,
       OutboxNull4, Mig!FirstOutbox, Mig!Table
  <2>4. QED
    BY <2>1, <2>2, <2>3, TurnsAddFull
<1>3. ASSUME NEW k, OutboxKeys5 = KeysLeft(k, {"evnet_id"})
      PROVE  Turns(Mig!Table(OutboxColsBoth, OutboxNull4, k), Mig!RenameEventId.up[2],
                 "outbox", Outbox5)
  <2>1. Mig!RenameEventId.up[2] = Mig!Drop("outbox", {"evnet_id"})
    BY DEF Mig!RenameEventId
  <2>2. {"evnet_id"} \subseteq DOMAIN OutboxColsBoth
    BY DEF OutboxColsBoth, OutboxCols5, Mig!With, Mig!Restrict, OutboxCols4,
       OutboxNull4, Mig!FirstOutbox, Mig!Table
  <2>3. OutboxCols5 = Mig!Restrict(OutboxColsBoth, DOMAIN OutboxColsBoth \ {"evnet_id"})
    BY DEF OutboxColsBoth, OutboxCols5, Mig!With, Mig!Restrict, OutboxCols4,
       OutboxNull4, Mig!FirstOutbox, Mig!Table
  <2>4. OutboxNull4 = OutboxNull4 \ {"evnet_id"}
    BY DEF OutboxColsBoth, OutboxCols5, Mig!With, Mig!Restrict, OutboxCols4,
       OutboxNull4, Mig!FirstOutbox, Mig!Table
  <2>5. QED
    BY <1>3, <2>1, <2>2, <2>3, <2>4, TurnsDrop DEF Outbox5
<1>4. Turns(Outbox5, Mig!RenameEventId.down[1], "outbox", Mig!Table(OutboxColsBoth,
          OutboxNull4, OutboxKeys5))
  <2>1. /\ Mig!RenameEventId.down[1].op = "add"
        /\ Mig!RenameEventId.down[1].t = "outbox"
        /\ ~Mig!RenameEventId.down[1].nullable
        /\ Mig!RenameEventId.down[1].cols = [evnet_id |-> "uuid"]
    BY DEF Mig!RenameEventId, Mig!Add
  <2>2. DOMAIN [evnet_id |-> "uuid"] \intersect DOMAIN OutboxCols5 = {}
    BY DEF OutboxColsBoth, OutboxCols5, Mig!With, Mig!Restrict, OutboxCols4,
       OutboxNull4, Mig!FirstOutbox, Mig!Table
  <2>3. OutboxColsBoth = Mig!With([evnet_id |-> "uuid"], OutboxCols5)
    BY DEF OutboxColsBoth, OutboxCols5, Mig!With, Mig!Restrict, OutboxCols4,
       OutboxNull4, Mig!FirstOutbox, Mig!Table
  <2>4. QED
    BY <2>1, <2>2, <2>3, TurnsAddFull DEF Outbox5
<1>5. Turns(Mig!Table(OutboxColsBoth, OutboxNull4, OutboxKeys5),
          Mig!RenameEventId.down[2], "outbox", Unkeyed4)
  <2>1. Mig!RenameEventId.down[2] = Mig!Drop("outbox", {"event_id"})
    BY DEF Mig!RenameEventId
  <2>2. {"event_id"} \subseteq DOMAIN OutboxColsBoth
    BY DEF OutboxColsBoth, OutboxCols5, Mig!With, Mig!Restrict, OutboxCols4,
       OutboxNull4, Mig!FirstOutbox, Mig!Table
  <2>3. OutboxCols4 = Mig!Restrict(OutboxColsBoth, DOMAIN OutboxColsBoth \ {"event_id"})
    BY DEF OutboxColsBoth, OutboxCols5, Mig!With, Mig!Restrict, OutboxCols4,
       OutboxNull4, Mig!FirstOutbox, Mig!Table
  <2>4. OutboxNull4 = OutboxNull4 \ {"event_id"}
    BY DEF OutboxColsBoth, OutboxCols5, Mig!With, Mig!Restrict, OutboxCols4,
       OutboxNull4, Mig!FirstOutbox, Mig!Table
  <2>5. OutboxKeys5 = KeysLeft(OutboxKeys5, {"event_id"})
    BY KeysOn, KeysStay
  <2>6. QED
    BY <2>1, <2>2, <2>3, <2>4, <2>5, TurnsDrop DEF Unkeyed4
<1>6. OutboxKeys5 = KeysLeft(OutboxKeys4, {"evnet_id"})
  BY OutboxKeyParts DEF Parts, OutboxKeys4, OutboxKeys5, KeysLeft
<1>7. OutboxKeys5 = KeysLeft(OutboxKeys5, {"evnet_id"})
  BY KeysOn, KeysStay
<1>8. \A k : OutboxKeys5 = KeysLeft(k, {"evnet_id"}) =>
        (Is(d, Middle(Recipes3, Mig!Table(OutboxCols4, OutboxNull4, k)), types) =>
           Is(Mig!Applied(d, Mig!RenameEventId.up), Middle(Recipes3, Outbox5), types))
  BY <1>1, <1>2, <1>3, Applied2, MiddleOutbox
<1>9. QED
  BY <1>1, <1>4, <1>5, <1>6, <1>7, <1>8, Applied2, MiddleOutbox DEF Outbox4, Unkeyed4

LEMMA TimeZonesGoes ==
  ASSUME NEW d, NEW types
  PROVE  /\ Is(d, Middle(Recipes3, Outbox5), types) =>
              Is(Mig!Applied(d, Mig!TimeZones.up), Middle(Recipes6, Outbox6), types)
         /\ Is(d, Middle(Recipes6, Outbox6), types) =>
              Is(Mig!Applied(d, Mig!TimeZones.down), Middle(Recipes3, Outbox5), types)
<1>1. Len(Mig!TimeZones.up) = 2 /\ Len(Mig!TimeZones.down) = 2
  BY DEF Mig!TimeZones
<1>2. Turns(Outbox5, Mig!TimeZones.up[1], "outbox", Outbox6)
  <2>1. Mig!TimeZones.up[1] = Mig!Retype("outbox", Mig!Times, "timetz")
    BY DEF Mig!TimeZones
  <2>2. Mig!Times \subseteq DOMAIN OutboxCols5
    BY DEF OutboxCols6, RecipeCols6, Typed, Mig!Times, RecipeCols2, Mig!UrlColumns,
       Mig!With, RecipeCols0, Mig!Legacy, OutboxCols5, OutboxColsBoth, OutboxCols4,
       Mig!FirstOutbox, Mig!Restrict, Mig!Table
  <2>3. OutboxCols6 = Typed(OutboxCols5, Mig!Times, "timetz")
    BY DEF OutboxCols6, RecipeCols6, Typed, Mig!Times, RecipeCols2, Mig!UrlColumns,
       Mig!With, RecipeCols0, Mig!Legacy, OutboxCols5, OutboxColsBoth, OutboxCols4,
       Mig!FirstOutbox, Mig!Restrict, Mig!Table
  <2>4. "timetz" # "json"
    BY DEF OutboxCols6, RecipeCols6, Typed, Mig!Times, RecipeCols2, Mig!UrlColumns,
       Mig!With, RecipeCols0, Mig!Legacy, OutboxCols5, OutboxColsBoth, OutboxCols4,
       Mig!FirstOutbox, Mig!Restrict, Mig!Table
  <2>5. QED
    BY <2>1, <2>2, <2>3, <2>4, TurnsRetype DEF Outbox5, Outbox6
<1>3. Turns(Recipes3, Mig!TimeZones.up[2], "recipes", Recipes6)
  <2>1. Mig!TimeZones.up[2] = Mig!Retype("recipes", Mig!Times, "timetz")
    BY DEF Mig!TimeZones
  <2>2. Mig!Times \subseteq DOMAIN RecipeCols2
    BY DEF OutboxCols6, RecipeCols6, Typed, Mig!Times, RecipeCols2, Mig!UrlColumns,
       Mig!With, RecipeCols0, Mig!Legacy, OutboxCols5, OutboxColsBoth, OutboxCols4,
       Mig!FirstOutbox, Mig!Restrict, Mig!Table
  <2>3. RecipeCols6 = Typed(RecipeCols2, Mig!Times, "timetz")
    BY DEF OutboxCols6, RecipeCols6, Typed, Mig!Times, RecipeCols2, Mig!UrlColumns,
       Mig!With, RecipeCols0, Mig!Legacy, OutboxCols5, OutboxColsBoth, OutboxCols4,
       Mig!FirstOutbox, Mig!Restrict, Mig!Table
  <2>4. "timetz" # "json"
    BY DEF OutboxCols6, RecipeCols6, Typed, Mig!Times, RecipeCols2, Mig!UrlColumns,
       Mig!With, RecipeCols0, Mig!Legacy, OutboxCols5, OutboxColsBoth, OutboxCols4,
       Mig!FirstOutbox, Mig!Restrict, Mig!Table
  <2>5. QED
    BY <2>1, <2>2, <2>3, <2>4, TurnsRetype DEF Recipes3, Recipes6
<1>4. Turns(Recipes6, Mig!TimeZones.down[1], "recipes", Recipes3)
  <2>1. Mig!TimeZones.down[1] = Mig!Retype("recipes", Mig!Times, "time")
    BY DEF Mig!TimeZones
  <2>2. Mig!Times \subseteq DOMAIN RecipeCols6
    BY DEF OutboxCols6, RecipeCols6, Typed, Mig!Times, RecipeCols2, Mig!UrlColumns,
       Mig!With, RecipeCols0, Mig!Legacy, OutboxCols5, OutboxColsBoth, OutboxCols4,
       Mig!FirstOutbox, Mig!Restrict, Mig!Table
  <2>3. RecipeCols2 = Typed(RecipeCols6, Mig!Times, "time")
    BY DEF OutboxCols6, RecipeCols6, Typed, Mig!Times, RecipeCols2, Mig!UrlColumns,
       Mig!With, RecipeCols0, Mig!Legacy, OutboxCols5, OutboxColsBoth, OutboxCols4,
       Mig!FirstOutbox, Mig!Restrict, Mig!Table
  <2>4. "time" # "json"
    BY DEF OutboxCols6, RecipeCols6, Typed, Mig!Times, RecipeCols2, Mig!UrlColumns,
       Mig!With, RecipeCols0, Mig!Legacy, OutboxCols5, OutboxColsBoth, OutboxCols4,
       Mig!FirstOutbox, Mig!Restrict, Mig!Table
  <2>5. QED
    BY <2>1, <2>2, <2>3, <2>4, TurnsRetype DEF Recipes6, Recipes3
<1>5. Turns(Outbox6, Mig!TimeZones.down[2], "outbox", Outbox5)
  <2>1. Mig!TimeZones.down[2] = Mig!Retype("outbox", Mig!Times, "time")
    BY DEF Mig!TimeZones
  <2>2. Mig!Times \subseteq DOMAIN OutboxCols6
    BY DEF OutboxCols6, RecipeCols6, Typed, Mig!Times, RecipeCols2, Mig!UrlColumns,
       Mig!With, RecipeCols0, Mig!Legacy, OutboxCols5, OutboxColsBoth, OutboxCols4,
       Mig!FirstOutbox, Mig!Restrict, Mig!Table
  <2>3. OutboxCols5 = Typed(OutboxCols6, Mig!Times, "time")
    BY DEF OutboxCols6, RecipeCols6, Typed, Mig!Times, RecipeCols2, Mig!UrlColumns,
       Mig!With, RecipeCols0, Mig!Legacy, OutboxCols5, OutboxColsBoth, OutboxCols4,
       Mig!FirstOutbox, Mig!Restrict, Mig!Table
  <2>4. "time" # "json"
    BY DEF OutboxCols6, RecipeCols6, Typed, Mig!Times, RecipeCols2, Mig!UrlColumns,
       Mig!With, RecipeCols0, Mig!Legacy, OutboxCols5, OutboxColsBoth, OutboxCols4,
       Mig!FirstOutbox, Mig!Restrict, Mig!Table
  <2>5. QED
    BY <2>1, <2>2, <2>3, <2>4, TurnsRetype DEF Outbox6, Outbox5
<1>6. QED
  BY <1>1, <1>2, <1>3, <1>4, <1>5, Applied2, MiddleOutbox, MiddleRecipes

LEMMA DeclareColumnsGoes ==
  ASSUME NEW d, NEW types
  PROVE  /\ Is(d, Middle(Recipes6, Outbox6), types) =>
              Is(Mig!Applied(d, Mig!DeclareColumns.up), Middle(Recipes7, Outbox7),
              types)
         /\ Is(d, Middle(Recipes7, Outbox7), types) =>
              Is(Mig!Applied(d, Mig!DeclareColumns.down), Middle(Recipes6, Outbox6),
              types)
<1>1. Len(Mig!DeclareColumns.up) = 2 /\ Len(Mig!DeclareColumns.down) = 2
  BY DEF Mig!DeclareColumns
<1>2. Turns(Outbox6, Mig!DeclareColumns.up[1], "outbox", Outbox7)
  <2>1. Mig!DeclareColumns.up[1] = Mig!NotNull("outbox", {"status"})
    BY DEF Mig!DeclareColumns
  <2>2. {"status"} \subseteq DOMAIN OutboxCols6
    BY DEF OutboxCols6, RecipeCols6, Typed, OutboxNull4, OutboxNull7, RecipeNull7,
       RecipeNull3, RecipeNull2, RecipeNull0, RecipeCols2, Mig!UrlColumns, Mig!With,
       RecipeCols0, Mig!Legacy, OutboxCols5, OutboxColsBoth, OutboxCols4,
       Mig!FirstOutbox, Mig!Restrict, Mig!Table
  <2>3. OutboxNull7 = OutboxNull4 \ {"status"}
    BY DEF OutboxCols6, RecipeCols6, Typed, OutboxNull4, OutboxNull7, RecipeNull7,
       RecipeNull3, RecipeNull2, RecipeNull0, RecipeCols2, Mig!UrlColumns, Mig!With,
       RecipeCols0, Mig!Legacy, OutboxCols5, OutboxColsBoth, OutboxCols4,
       Mig!FirstOutbox, Mig!Restrict, Mig!Table
  <2>4. QED
    BY <2>1, <2>2, <2>3, TurnsNotNull DEF Outbox6, Outbox7
<1>3. Turns(Recipes6, Mig!DeclareColumns.up[2], "recipes", Recipes7)
  <2>1. Mig!DeclareColumns.up[2] = Mig!NotNull("recipes", {"source_url", "status"})
    BY DEF Mig!DeclareColumns
  <2>2. {"source_url", "status"} \subseteq DOMAIN RecipeCols6
    BY DEF OutboxCols6, RecipeCols6, Typed, OutboxNull4, OutboxNull7, RecipeNull7,
       RecipeNull3, RecipeNull2, RecipeNull0, RecipeCols2, Mig!UrlColumns, Mig!With,
       RecipeCols0, Mig!Legacy, OutboxCols5, OutboxColsBoth, OutboxCols4,
       Mig!FirstOutbox, Mig!Restrict, Mig!Table
  <2>3. RecipeNull7 = RecipeNull3 \ {"source_url", "status"}
    BY DEF OutboxCols6, RecipeCols6, Typed, OutboxNull4, OutboxNull7, RecipeNull7,
       RecipeNull3, RecipeNull2, RecipeNull0, RecipeCols2, Mig!UrlColumns, Mig!With,
       RecipeCols0, Mig!Legacy, OutboxCols5, OutboxColsBoth, OutboxCols4,
       Mig!FirstOutbox, Mig!Restrict, Mig!Table
  <2>4. QED
    BY <2>1, <2>2, <2>3, TurnsNotNull DEF Recipes6, Recipes7
<1>4. Turns(Recipes7, Mig!DeclareColumns.down[1], "recipes", Recipes6)
  <2>1. Mig!DeclareColumns.down[1] = Mig!MayBeNull("recipes", {"source_url", "status"})
    BY DEF Mig!DeclareColumns
  <2>2. {"source_url", "status"} \subseteq DOMAIN RecipeCols6
    BY DEF OutboxCols6, RecipeCols6, Typed, OutboxNull4, OutboxNull7, RecipeNull7,
       RecipeNull3, RecipeNull2, RecipeNull0, RecipeCols2, Mig!UrlColumns, Mig!With,
       RecipeCols0, Mig!Legacy, OutboxCols5, OutboxColsBoth, OutboxCols4,
       Mig!FirstOutbox, Mig!Restrict, Mig!Table
  <2>3. RecipeNull3 = RecipeNull7 \union {"source_url", "status"}
    BY DEF OutboxCols6, RecipeCols6, Typed, OutboxNull4, OutboxNull7, RecipeNull7,
       RecipeNull3, RecipeNull2, RecipeNull0, RecipeCols2, Mig!UrlColumns, Mig!With,
       RecipeCols0, Mig!Legacy, OutboxCols5, OutboxColsBoth, OutboxCols4,
       Mig!FirstOutbox, Mig!Restrict, Mig!Table
  <2>4. QED
    BY <2>1, <2>2, <2>3, TurnsNull DEF Recipes7, Recipes6
<1>5. Turns(Outbox7, Mig!DeclareColumns.down[2], "outbox", Outbox6)
  <2>1. Mig!DeclareColumns.down[2] = Mig!MayBeNull("outbox", {"status"})
    BY DEF Mig!DeclareColumns
  <2>2. {"status"} \subseteq DOMAIN OutboxCols6
    BY DEF OutboxCols6, RecipeCols6, Typed, OutboxNull4, OutboxNull7, RecipeNull7,
       RecipeNull3, RecipeNull2, RecipeNull0, RecipeCols2, Mig!UrlColumns, Mig!With,
       RecipeCols0, Mig!Legacy, OutboxCols5, OutboxColsBoth, OutboxCols4,
       Mig!FirstOutbox, Mig!Restrict, Mig!Table
  <2>3. OutboxNull4 = OutboxNull7 \union {"status"}
    BY DEF OutboxCols6, RecipeCols6, Typed, OutboxNull4, OutboxNull7, RecipeNull7,
       RecipeNull3, RecipeNull2, RecipeNull0, RecipeCols2, Mig!UrlColumns, Mig!With,
       RecipeCols0, Mig!Legacy, OutboxCols5, OutboxColsBoth, OutboxCols4,
       Mig!FirstOutbox, Mig!Restrict, Mig!Table
  <2>4. QED
    BY <2>1, <2>2, <2>3, TurnsNull DEF Outbox7, Outbox6
<1>6. QED
  BY <1>1, <1>2, <1>3, <1>4, <1>5, Applied2, MiddleOutbox, MiddleRecipes

LEMMA AddDescriptionGoes ==
  ASSUME NEW d, NEW types
  PROVE  /\ Is(d, Middle(Recipes7, Outbox7), types) =>
              Is(Mig!Applied(d, Mig!AddDescription.up), Middle(Recipes8, Outbox7),
              types)
         /\ Is(d, Middle(Recipes8, Outbox7), types) =>
              Is(Mig!Applied(d, Mig!AddDescription.down), Middle(Recipes7, Outbox7),
              types)
<1>1. Len(Mig!AddDescription.up) = 3 /\ Len(Mig!AddDescription.down) = 1
  BY DEF Mig!AddDescription
<1>2. Turns(Recipes7, Mig!AddDescription.up[1], "recipes", Recipes8)
  <2>1. /\ Mig!AddDescription.up[1].op = "add" /\ Mig!AddDescription.up[1].t = "recipes"
        /\ Mig!AddDescription.up[1].nullable
        /\ Mig!AddDescription.up[1].cols = Described
    BY DEF Mig!AddDescription, Mig!Add, Described
  <2>2. DOMAIN Described \intersect DOMAIN RecipeCols6 = {}
    BY DEF Described, RecipeCols8, RecipeNull8, RecipeCols6, Typed, RecipeCols2,
       Mig!UrlColumns, Mig!With, Mig!Restrict, RecipeNull7, RecipeNull3, RecipeNull2,
       Mig!Times, Mig!Legacy, Mig!Table, RecipeCols0, RecipeNull0
  <2>3. RecipeCols8 = Mig!With(Described, RecipeCols6)
    BY DEF Described, RecipeCols8, RecipeNull8, RecipeCols6, Typed, RecipeCols2,
       Mig!UrlColumns, Mig!With, Mig!Restrict, RecipeNull7, RecipeNull3, RecipeNull2,
       Mig!Times, Mig!Legacy, Mig!Table, RecipeCols0, RecipeNull0
  <2>4. RecipeNull8 = RecipeNull7 \union DOMAIN Described
    BY DEF Described, RecipeCols8, RecipeNull8, RecipeCols6, Typed, RecipeCols2,
       Mig!UrlColumns, Mig!With, Mig!Restrict, RecipeNull7, RecipeNull3, RecipeNull2,
       Mig!Times, Mig!Legacy, Mig!Table, RecipeCols0, RecipeNull0
  <2>5. QED
    BY <2>1, <2>2, <2>3, <2>4, TurnsAdd DEF Recipes7, Recipes8
<1>3. \A e, tables : Is(e, tables, types) =>
        Is(Mig!Do(e, Mig!AddDescription.up[2]), tables, types)
  <2>1. Mig!AddDescription.up[2].op = "copy"
    BY DEF Mig!AddDescription, Mig!Copy
  <2>2. QED
    BY <2>1, Copies
<1>4. \A e, tables : Is(e, tables, types) =>
        Is(Mig!Do(e, Mig!AddDescription.up[3]), tables, types)
  <2>1. Mig!AddDescription.up[3].op = "copy"
    BY DEF Mig!AddDescription, Mig!Copy
  <2>2. QED
    BY <2>1, Copies
<1>5. Turns(Recipes8, Mig!AddDescription.down[1], "recipes", Recipes7)
  <2>1. Mig!AddDescription.down[1] = Mig!Drop("recipes", {"description", "steps"})
    BY DEF Mig!AddDescription
  <2>2. {"description", "steps"} \subseteq DOMAIN RecipeCols8
    BY DEF Described, RecipeCols8, RecipeNull8, RecipeCols6, Typed, RecipeCols2,
       Mig!UrlColumns, Mig!With, Mig!Restrict, RecipeNull7, RecipeNull3, RecipeNull2,
       Mig!Times, Mig!Legacy, Mig!Table, RecipeCols0, RecipeNull0
  <2>3. RecipeCols6 =
          Mig!Restrict(RecipeCols8, DOMAIN RecipeCols8 \ {"description", "steps"})
    BY DEF Described, RecipeCols8, RecipeNull8, RecipeCols6, Typed, RecipeCols2,
       Mig!UrlColumns, Mig!With, Mig!Restrict, RecipeNull7, RecipeNull3, RecipeNull2,
       Mig!Times, Mig!Legacy, Mig!Table, RecipeCols0, RecipeNull0
  <2>4. RecipeNull7 = RecipeNull8 \ {"description", "steps"}
    BY DEF Described, RecipeCols8, RecipeNull8, RecipeCols6, Typed, RecipeCols2,
       Mig!UrlColumns, Mig!With, Mig!Restrict, RecipeNull7, RecipeNull3, RecipeNull2,
       Mig!Times, Mig!Legacy, Mig!Table, RecipeCols0, RecipeNull0
  <2>5. RecipeKeys2 = KeysLeft(RecipeKeys2, {"description", "steps"})
    BY KeysOn, KeysStay
  <2>6. QED
    BY <2>1, <2>2, <2>3, <2>4, <2>5, TurnsDrop DEF Recipes8, Recipes7
<1>6. QED
  BY <1>1, <1>2, <1>3, <1>4, <1>5, Applied1, Applied3, MiddleRecipes

LEMMA AddSourceGoes ==
  ASSUME NEW d, NEW types
  PROVE  /\ Is(d, Middle(Recipes8, Outbox7), types) =>
              Is(Mig!Applied(d, Mig!AddSource.up), Middle(Recipes9, Outbox7), types)
         /\ Is(d, Middle(Recipes9, Outbox7), types) =>
              Is(Mig!Applied(d, Mig!AddSource.down), Middle(Recipes8, Outbox7), types)
<1>1. Len(Mig!AddSource.up) = 1 /\ Len(Mig!AddSource.down) = 1
  BY DEF Mig!AddSource
<1>2. Turns(Recipes8, Mig!AddSource.up[1], "recipes", Recipes9)
  <2>1. /\ Mig!AddSource.up[1].op = "add" /\ Mig!AddSource.up[1].t = "recipes"
        /\ Mig!AddSource.up[1].nullable
        /\ Mig!AddSource.up[1].cols = [source |-> "text"]
    BY DEF Mig!AddSource, Mig!Add
  <2>2. DOMAIN [source |-> "text"] \intersect DOMAIN RecipeCols8 = {}
    BY DEF RecipeCols9, RecipeNull9, RecipeCols8, RecipeNull8, Described, RecipeCols6,
       Typed, RecipeCols2, Mig!UrlColumns, Mig!With, Mig!Restrict, RecipeNull7,
       RecipeNull3, RecipeNull2, Mig!Times, Mig!Legacy, Mig!Table, RecipeCols0,
       RecipeNull0
  <2>3. RecipeCols9 = Mig!With([source |-> "text"], RecipeCols8)
    BY DEF RecipeCols9, RecipeNull9, RecipeCols8, RecipeNull8, Described, RecipeCols6,
       Typed, RecipeCols2, Mig!UrlColumns, Mig!With, Mig!Restrict, RecipeNull7,
       RecipeNull3, RecipeNull2, Mig!Times, Mig!Legacy, Mig!Table, RecipeCols0,
       RecipeNull0
  <2>4. RecipeNull9 = RecipeNull8 \union DOMAIN [source |-> "text"]
    BY DEF RecipeCols9, RecipeNull9, RecipeCols8, RecipeNull8, Described, RecipeCols6,
       Typed, RecipeCols2, Mig!UrlColumns, Mig!With, Mig!Restrict, RecipeNull7,
       RecipeNull3, RecipeNull2, Mig!Times, Mig!Legacy, Mig!Table, RecipeCols0,
       RecipeNull0
  <2>5. QED
    BY <2>1, <2>2, <2>3, <2>4, TurnsAdd DEF Recipes8, Recipes9
<1>3. Turns(Recipes9, Mig!AddSource.down[1], "recipes", Recipes8)
  <2>1. Mig!AddSource.down[1] = Mig!Drop("recipes", {"source"})
    BY DEF Mig!AddSource
  <2>2. {"source"} \subseteq DOMAIN RecipeCols9
    BY DEF RecipeCols9, RecipeNull9, RecipeCols8, RecipeNull8, Described, RecipeCols6,
       Typed, RecipeCols2, Mig!UrlColumns, Mig!With, Mig!Restrict, RecipeNull7,
       RecipeNull3, RecipeNull2, Mig!Times, Mig!Legacy, Mig!Table, RecipeCols0,
       RecipeNull0
  <2>3. RecipeCols8 = Mig!Restrict(RecipeCols9, DOMAIN RecipeCols9 \ {"source"})
    <3> DEFINE g == [source |-> "text"]
    <3>1. DOMAIN g = {"source"}
      OBVIOUS
    <3>2. "source" \notin DOMAIN RecipeCols8
      BY DEF RecipeCols8, Described, RecipeCols6, Typed, RecipeCols2, Mig!UrlColumns,
         Mig!With, Mig!Legacy, Mig!Table, RecipeCols0
    <3>3. RecipeCols8 = [y \in DOMAIN RecipeCols8 |-> RecipeCols8[y]]
      BY DEF RecipeCols8, Mig!With
    <3>4. RecipeCols9 = Mig!With(g, RecipeCols8)
      BY DEF RecipeCols9
    <3> HIDE DEF g
    <3>5. QED
      BY <3>1, <3>2, <3>3, <3>4, TakenBack
  <2>4. RecipeNull8 = RecipeNull9 \ {"source"}
    BY DEF RecipeCols9, RecipeNull9, RecipeCols8, RecipeNull8, Described, RecipeCols6,
       Typed, RecipeCols2, Mig!UrlColumns, Mig!With, Mig!Restrict, RecipeNull7,
       RecipeNull3, RecipeNull2, Mig!Times, Mig!Legacy, Mig!Table, RecipeCols0,
       RecipeNull0
  <2>5. RecipeKeys2 = KeysLeft(RecipeKeys2, {"source"})
    BY KeysOn, KeysStay
  <2>6. QED
    BY <2>1, <2>2, <2>3, <2>4, <2>5, TurnsDrop DEF Recipes9, Recipes8
<1>4. QED
  BY <1>1, <1>2, <1>3, Applied1, MiddleRecipes

LEMMA AddVideoIdGoes ==
  ASSUME NEW d, NEW types
  PROVE  /\ Is(d, Late(Sources11, Sections11), types) =>
              Is(Mig!Applied(d, Mig!AddVideoId.up), Late(Sources12, Sections11), types)
         /\ Is(d, Late(Sources12, Sections11), types) =>
              Is(Mig!Applied(d, Mig!AddVideoId.down), Late(Sources11, Sections11),
              types)
<1>1. Len(Mig!AddVideoId.up) = 1 /\ Len(Mig!AddVideoId.down) = 1
  BY DEF Mig!AddVideoId
<1>2. Turns(Sources11, Mig!AddVideoId.up[1], "sources", Sources12)
  <2>1. /\ Mig!AddVideoId.up[1].op = "add" /\ Mig!AddVideoId.up[1].t = "sources"
        /\ Mig!AddVideoId.up[1].nullable
        /\ Mig!AddVideoId.up[1].cols = [video_id |-> "text"]
    BY DEF Mig!AddVideoId, Mig!Add
  <2>2. DOMAIN [video_id |-> "text"] \intersect DOMAIN SourceCols11 = {}
    BY DEF SourceCols12, SourceNull12, Mig!With, Mig!Restrict, SourceCols11,
       SourceNull11, Mig!YtTables, Mig!Table
  <2>3. SourceCols12 = Mig!With([video_id |-> "text"], SourceCols11)
    BY DEF SourceCols12, SourceNull12, Mig!With, Mig!Restrict, SourceCols11,
       SourceNull11, Mig!YtTables, Mig!Table
  <2>4. SourceNull12 = SourceNull11 \union DOMAIN [video_id |-> "text"]
    BY DEF SourceCols12, SourceNull12, Mig!With, Mig!Restrict, SourceCols11,
       SourceNull11, Mig!YtTables, Mig!Table
  <2>5. QED
    BY <2>1, <2>2, <2>3, <2>4, TurnsAdd DEF Sources11, Sources12
<1>3. Turns(Sources12, Mig!AddVideoId.down[1], "sources", Sources11)
  <2>1. Mig!AddVideoId.down[1] = Mig!Drop("sources", {"video_id"})
    BY DEF Mig!AddVideoId
  <2>2. {"video_id"} \subseteq DOMAIN SourceCols12
    BY DEF SourceCols12, SourceNull12, Mig!With, Mig!Restrict, SourceCols11,
       SourceNull11, Mig!YtTables, Mig!Table
  <2>3. SourceCols11 = Mig!Restrict(SourceCols12, DOMAIN SourceCols12 \ {"video_id"})
    BY DEF SourceCols12, SourceNull12, Mig!With, Mig!Restrict, SourceCols11,
       SourceNull11, Mig!YtTables, Mig!Table
  <2>4. SourceNull11 = SourceNull12 \ {"video_id"}
    BY DEF SourceCols12, SourceNull12, Mig!With, Mig!Restrict, SourceCols11,
       SourceNull11, Mig!YtTables, Mig!Table
  <2>5. SourceKeys = KeysLeft(SourceKeys, {"video_id"})
    BY KeysOn, KeysStay
  <2>6. QED
    BY <2>1, <2>2, <2>3, <2>4, <2>5, TurnsDrop DEF Sources12, Sources11
<1>4. QED
  BY <1>1, <1>2, <1>3, Applied1, LateSources

LEMMA VideoIdNotNullGoes ==
  ASSUME NEW d, NEW types
  PROVE  /\ Is(d, Late(Sources12, Sections11), types) =>
              Is(Mig!Applied(d, Mig!VideoIdNotNull.up), Late(Sources13, Sections11),
              types)
         /\ Is(d, Late(Sources13, Sections11), types) =>
              Is(Mig!Applied(d, Mig!VideoIdNotNull.down), Late(Sources12, Sections11),
              types)
<1>1. Len(Mig!VideoIdNotNull.up) = 1 /\ Len(Mig!VideoIdNotNull.down) = 1
  BY DEF Mig!VideoIdNotNull
<1>2. Turns(Sources12, Mig!VideoIdNotNull.up[1], "sources", Sources13)
  <2>1. Mig!VideoIdNotNull.up[1] = Mig!NotNull("sources", {"video_id"})
    BY DEF Mig!VideoIdNotNull
  <2>2. {"video_id"} \subseteq DOMAIN SourceCols12
    BY DEF SourceCols12, SourceNull12, Mig!With, SourceCols11, SourceNull11,
       Mig!YtTables, Mig!Table
  <2>3. SourceNull11 = SourceNull12 \ {"video_id"}
    BY DEF SourceCols12, SourceNull12, Mig!With, SourceCols11, SourceNull11,
       Mig!YtTables, Mig!Table
  <2>4. QED
    BY <2>1, <2>2, <2>3, TurnsNotNull DEF Sources12, Sources13
<1>3. Turns(Sources13, Mig!VideoIdNotNull.down[1], "sources", Sources12)
  <2>1. Mig!VideoIdNotNull.down[1] = Mig!MayBeNull("sources", {"video_id"})
    BY DEF Mig!VideoIdNotNull
  <2>2. {"video_id"} \subseteq DOMAIN SourceCols12
    BY DEF SourceCols12, SourceNull12, Mig!With, SourceCols11, SourceNull11,
       Mig!YtTables, Mig!Table
  <2>3. SourceNull12 = SourceNull11 \union {"video_id"}
    BY DEF SourceCols12, SourceNull12, Mig!With, SourceCols11, SourceNull11,
       Mig!YtTables, Mig!Table
  <2>4. QED
    BY <2>1, <2>2, <2>3, TurnsNull DEF Sources13, Sources12
<1>4. QED
  BY <1>1, <1>2, <1>3, Applied1, LateSources

LEMMA CleanedToJsonGoes ==
  ASSUME NEW d, NEW types
  PROVE  /\ Is(d, Late(Sources13, Sections11), types) =>
              Is(Mig!Applied(d, Mig!CleanedToJson.up), Late(Sources13, Sections14),
              types)
         /\ Is(d, Late(Sources13, Sections14), types) =>
              Is(Mig!Applied(d, Mig!CleanedToJson.down), Late(Sources13, Sections11),
              types)
<1>1. Len(Mig!CleanedToJson.up) = 1 /\ Len(Mig!CleanedToJson.down) = 1
  BY DEF Mig!CleanedToJson
<1>2. Turns(Sections11, Mig!CleanedToJson.up[1], "sections", Sections14)
  <2>1. Mig!CleanedToJson.up[1] = Mig!Cast("sections", {"cleaned_content"}, "json")
    BY DEF Mig!CleanedToJson
  <2>2. {"cleaned_content"} \subseteq DOMAIN SectionCols11
    BY DEF SectionCols14, Typed, SectionCols11, SectionNull11, Mig!YtTables, Mig!Table
  <2>3. SectionCols14 = Typed(SectionCols11, {"cleaned_content"}, "json")
    BY DEF SectionCols14, Typed, SectionCols11, SectionNull11, Mig!YtTables, Mig!Table
  <2>4. QED
    BY <2>1, <2>2, <2>3, TurnsCast DEF Sections11, Sections14
<1>3. Turns(Sections14, Mig!CleanedToJson.down[1], "sections", Sections11)
  <2>1. Mig!CleanedToJson.down[1] = Mig!Cast("sections", {"cleaned_content"}, "text")
    BY DEF Mig!CleanedToJson
  <2>2. {"cleaned_content"} \subseteq DOMAIN SectionCols14
    BY DEF SectionCols14, Typed, SectionCols11, SectionNull11, Mig!YtTables, Mig!Table
  <2>3. SectionCols11 = Typed(SectionCols14, {"cleaned_content"}, "text")
    BY DEF SectionCols14, Typed, SectionCols11, SectionNull11, Mig!YtTables, Mig!Table
  <2>4. QED
    BY <2>1, <2>2, <2>3, TurnsCast DEF Sections14, Sections11
<1>4. QED
  BY <1>1, <1>2, <1>3, Applied1, LateSections

LEMMA CleanedToTextGoes ==
  ASSUME NEW d, NEW types,
         Is(d, Full(Sources13, Sections14, Chunks11, Artifacts15), types)
  PROVE  Is(Mig!Applied(d, Mig!CleanedToText.up), Full(Sources13, Sections11, Chunks11,
             Artifacts15), types)
<1>1. Len(Mig!CleanedToText.up) = 1
  BY DEF Mig!CleanedToText
<1>2. Turns(Sections14, Mig!CleanedToText.up[1], "sections", Sections11)
  <2>1. Mig!CleanedToText.up[1] = Mig!Retype("sections", {"cleaned_content"}, "text")
    BY DEF Mig!CleanedToText
  <2>2. {"cleaned_content"} \subseteq DOMAIN SectionCols14
    BY DEF SectionCols14, Typed, SectionCols11, SectionNull11, Mig!YtTables, Mig!Table
  <2>3. SectionCols11 = Typed(SectionCols14, {"cleaned_content"}, "text")
    BY DEF SectionCols14, Typed, SectionCols11, SectionNull11, Mig!YtTables, Mig!Table
  <2>4. "text" # "json"
    BY DEF SectionCols14, Typed, SectionCols11, SectionNull11, Mig!YtTables, Mig!Table
  <2>5. QED
    BY <2>1, <2>2, <2>3, <2>4, TurnsRetype DEF Sections14, Sections11
<1>3. QED
  BY <1>1, <1>2, Applied1, FullSections

LEMMA CurrentIndexGoes ==
  ASSUME NEW d, NEW types
  PROVE  /\ Is(d, Full(Sources13, Sections11, Chunks11, Artifacts15), types) =>
              Is(Mig!Applied(d, Mig!CurrentIndex.up), Full(Sources13, Sections11,
              Chunks11, Artifacts17), types)
         /\ Is(d, Full(Sources13, Sections11, Chunks11, Artifacts17), types) =>
              Is(Mig!Applied(d, Mig!CurrentIndex.down), Full(Sources13, Sections11,
              Chunks11, Artifacts15), types)
<1>1. Len(Mig!CurrentIndex.up) = 1 /\ Len(Mig!CurrentIndex.down) = 1
  BY DEF Mig!CurrentIndex
<1>2. Turns(Artifacts15, Mig!CurrentIndex.up[1], "llm_artifacts", Artifacts17)
  <2>1. Mig!CurrentIndex.up[1] =
          Mig!Index("llm_artifacts", {Mig!CurrentKey})
    BY DEF Mig!CurrentIndex
  <2>2. {Mig!CurrentKey} \intersect ArtifactKeys15 = {}
    BY ArtifactKeyParts DEF Parts, ArtifactKeys15, ArtifactKeys17, Mig!ArtifactKeys
  <2>3. ArtifactKeys17 = ArtifactKeys15 \union {Mig!CurrentKey}
    BY ArtifactKeyParts DEF Parts, ArtifactKeys15, ArtifactKeys17, Mig!ArtifactKeys
  <2>4. QED
    BY <2>1, <2>2, <2>3, TurnsIndex DEF Artifacts15, Artifacts17
<1>3. Turns(Artifacts17, Mig!CurrentIndex.down[1], "llm_artifacts", Artifacts15)
  <2>1. Mig!CurrentIndex.down[1] =
          Mig!Unindex("llm_artifacts", {Mig!CurrentKey})
    BY DEF Mig!CurrentIndex
  <2>2. {Mig!CurrentKey} \subseteq ArtifactKeys17
    BY ArtifactKeyParts DEF Parts, ArtifactKeys15, ArtifactKeys17, Mig!ArtifactKeys
  <2>3. ArtifactKeys15 = ArtifactKeys17 \ {Mig!CurrentKey}
    BY ArtifactKeyParts DEF Parts, ArtifactKeys15, ArtifactKeys17, Mig!ArtifactKeys
  <2>4. QED
    BY <2>1, <2>2, <2>3, TurnsUnindex DEF Artifacts17, Artifacts15
<1>4. QED
  BY <1>1, <1>2, <1>3, Applied1, FullArtifacts

LEMMA ChunkFieldsGoes ==
  ASSUME NEW d, NEW types,
         Is(d, Full(Sources13, Sections11, Chunks11, Artifacts17), types)
  PROVE  Is(Mig!Applied(d, Mig!ChunkFields.up), Full(Sources13, Sections11, Chunks18,
             Artifacts17), types)
<1>1. Len(Mig!ChunkFields.up) = 5
  BY DEF Mig!ChunkFields
<1>2. Turns(Chunks11, Mig!ChunkFields.up[1], "chunks", Mig!Table(ChunkColsMore,
          ChunkNull11, ChunkKeys11))
  <2>1. /\ Mig!ChunkFields.up[1].op = "add" /\ Mig!ChunkFields.up[1].t = "chunks"
        /\ ~Mig!ChunkFields.up[1].nullable /\ Mig!ChunkFields.up[1].cols = Answered
    BY DEF Mig!ChunkFields, Mig!Add, Answered, Told
  <2>2. DOMAIN Answered \intersect DOMAIN ChunkCols11 = {}
    BY DEF ChunkColsMore, ChunkColsAll, ChunkCols18, ChunkNull18, Answered, Told,
       Mig!With, ChunkCols11, ChunkNull11, Mig!YtTables, Mig!Table
  <2>3. ChunkColsMore = Mig!With(Answered, ChunkCols11)
    BY DEF ChunkColsMore, ChunkColsAll, ChunkCols18, ChunkNull18, Answered, Told,
       Mig!With, ChunkCols11, ChunkNull11, Mig!YtTables, Mig!Table
  <2>4. QED
    BY <2>1, <2>2, <2>3, TurnsAddFull DEF Chunks11
<1>3. Turns(Mig!Table(ChunkColsMore, ChunkNull11, ChunkKeys11), Mig!ChunkFields.up[2],
          "chunks", Mig!Table(ChunkColsAll, ChunkNull18, ChunkKeys11))
  <2>1. /\ Mig!ChunkFields.up[2].op = "add" /\ Mig!ChunkFields.up[2].t = "chunks"
        /\ Mig!ChunkFields.up[2].nullable /\ Mig!ChunkFields.up[2].cols = Told
    BY DEF Mig!ChunkFields, Mig!Add, Answered, Told
  <2>2. DOMAIN Told \intersect DOMAIN ChunkColsMore = {}
    BY DEF ChunkColsMore, ChunkColsAll, ChunkCols18, ChunkNull18, Answered, Told,
       Mig!With, ChunkCols11, ChunkNull11, Mig!YtTables, Mig!Table
  <2>3. ChunkColsAll = Mig!With(Told, ChunkColsMore)
    BY DEF ChunkColsMore, ChunkColsAll, ChunkCols18, ChunkNull18, Answered, Told,
       Mig!With, ChunkCols11, ChunkNull11, Mig!YtTables, Mig!Table
  <2>4. ChunkNull18 = ChunkNull11 \union DOMAIN Told
    BY DEF ChunkColsMore, ChunkColsAll, ChunkCols18, ChunkNull18, Answered, Told,
       Mig!With, ChunkCols11, ChunkNull11, Mig!YtTables, Mig!Table
  <2>5. QED
    BY <2>1, <2>2, <2>3, <2>4, TurnsAdd
<1>4. Turns(Mig!Table(ChunkColsAll, ChunkNull18, ChunkKeys11), Mig!ChunkFields.up[3],
          "chunks", Mig!Table(ChunkColsAll, ChunkNull18, ChunkKeysLess))
  <2>1. Mig!ChunkFields.up[3] = Mig!Unindex("chunks", {Mig!ChunkOrder})
    BY DEF Mig!ChunkFields
  <2>2. {Mig!ChunkOrder} \subseteq ChunkKeys11
    BY ChunkKeyParts DEF Parts, ChunkKeys11, ChunkKeysLess, ChunkKeys18, Mig!ChunkKeys
  <2>3. ChunkKeysLess = ChunkKeys11 \ {Mig!ChunkOrder}
    BY ChunkKeyParts DEF Parts, ChunkKeys11, ChunkKeysLess, ChunkKeys18, Mig!ChunkKeys
  <2>4. QED
    BY <2>1, <2>2, <2>3, TurnsUnindex
<1>5. Turns(Mig!Table(ChunkColsAll, ChunkNull18, ChunkKeysLess), Mig!ChunkFields.up[4],
          "chunks", Mig!Table(ChunkColsAll, ChunkNull18, ChunkKeys18))
  <2>1. Mig!ChunkFields.up[4] = Mig!Index("chunks", {Mig!ArtifactRef})
    BY DEF Mig!ChunkFields
  <2>2. {Mig!ArtifactRef} \intersect ChunkKeysLess = {}
    BY ChunkKeyParts DEF Parts, ChunkKeys11, ChunkKeysLess, ChunkKeys18, Mig!ChunkKeys
  <2>3. ChunkKeys18 = ChunkKeysLess \union {Mig!ArtifactRef}
    BY ChunkKeyParts DEF Parts, ChunkKeys11, ChunkKeysLess, ChunkKeys18, Mig!ChunkKeys
  <2>4. QED
    BY <2>1, <2>2, <2>3, TurnsIndex
<1>6. Turns(Mig!Table(ChunkColsAll, ChunkNull18, ChunkKeys18), Mig!ChunkFields.up[5],
          "chunks", Chunks18)
  <2>1. Mig!ChunkFields.up[5] = Mig!Drop("chunks", {"text", "order_index"})
    BY DEF Mig!ChunkFields
  <2>2. {"text", "order_index"} \subseteq DOMAIN ChunkColsAll
    BY DEF ChunkColsMore, ChunkColsAll, ChunkCols18, ChunkNull18, Answered, Told,
       Mig!With, ChunkCols11, ChunkNull11, Mig!YtTables, Mig!Table
  <2>3. ChunkCols18 =
          Mig!Restrict(ChunkColsAll, DOMAIN ChunkColsAll \ {"text", "order_index"})
    BY DEF ChunkColsMore, ChunkColsAll, ChunkCols18, ChunkNull18, Answered, Told,
       Mig!With, ChunkCols11, ChunkNull11, Mig!YtTables, Mig!Table
  <2>4. ChunkNull18 = ChunkNull18 \ {"text", "order_index"}
    BY DEF ChunkColsMore, ChunkColsAll, ChunkCols18, ChunkNull18, Answered, Told,
       Mig!With, ChunkCols11, ChunkNull11, Mig!YtTables, Mig!Table
  <2>5. ChunkKeys18 = KeysLeft(ChunkKeys18, {"text", "order_index"})
    BY KeysOn, KeysStay
  <2>6. QED
    BY <2>1, <2>2, <2>3, <2>4, <2>5, TurnsDrop DEF Chunks18
<1>7. QED
  BY <1>1, <1>2, <1>3, <1>4, <1>5, <1>6, Applied5, FullChunks

LEMMA AddSpeakerGoes ==
  ASSUME NEW d, NEW types
  PROVE  /\ Is(d, Full(Sources13, Sections11, Chunks18, Artifacts17), types) =>
              Is(Mig!Applied(d, Mig!AddSpeaker.up), Full(Sources19, Sections11,
              Chunks18, Artifacts17), types)
         /\ Is(d, Full(Sources19, Sections11, Chunks18, Artifacts17), types) =>
              Is(Mig!Applied(d, Mig!AddSpeaker.down), Full(Sources13, Sections11,
              Chunks18, Artifacts17), types)
<1>1. Len(Mig!AddSpeaker.up) = 1 /\ Len(Mig!AddSpeaker.down) = 1
  BY DEF Mig!AddSpeaker
<1>2. Turns(Sources13, Mig!AddSpeaker.up[1], "sources", Sources19)
  <2>1. /\ Mig!AddSpeaker.up[1].op = "add" /\ Mig!AddSpeaker.up[1].t = "sources"
        /\ Mig!AddSpeaker.up[1].nullable
        /\ Mig!AddSpeaker.up[1].cols = [speaker |-> "text"]
    BY DEF Mig!AddSpeaker, Mig!Add
  <2>2. DOMAIN [speaker |-> "text"] \intersect DOMAIN SourceCols12 = {}
    BY DEF SourceCols19, SourceNull19, SourceCols12, Mig!With, Mig!Restrict,
       SourceCols11, SourceNull11, Mig!YtTables, Mig!Table
  <2>3. SourceCols19 = Mig!With([speaker |-> "text"], SourceCols12)
    BY DEF SourceCols19, SourceNull19, SourceCols12, Mig!With, Mig!Restrict,
       SourceCols11, SourceNull11, Mig!YtTables, Mig!Table
  <2>4. SourceNull19 = SourceNull11 \union DOMAIN [speaker |-> "text"]
    BY DEF SourceCols19, SourceNull19, SourceCols12, Mig!With, Mig!Restrict,
       SourceCols11, SourceNull11, Mig!YtTables, Mig!Table
  <2>5. QED
    BY <2>1, <2>2, <2>3, <2>4, TurnsAdd DEF Sources13, Sources19
<1>3. Turns(Sources19, Mig!AddSpeaker.down[1], "sources", Sources13)
  <2>1. Mig!AddSpeaker.down[1] = Mig!Drop("sources", {"speaker"})
    BY DEF Mig!AddSpeaker
  <2>2. {"speaker"} \subseteq DOMAIN SourceCols19
    BY DEF SourceCols19, SourceNull19, SourceCols12, Mig!With, Mig!Restrict,
       SourceCols11, SourceNull11, Mig!YtTables, Mig!Table
  <2>3. SourceCols12 = Mig!Restrict(SourceCols19, DOMAIN SourceCols19 \ {"speaker"})
    BY DEF SourceCols19, SourceNull19, SourceCols12, Mig!With, Mig!Restrict,
       SourceCols11, SourceNull11, Mig!YtTables, Mig!Table
  <2>4. SourceNull11 = SourceNull19 \ {"speaker"}
    BY DEF SourceCols19, SourceNull19, SourceCols12, Mig!With, Mig!Restrict,
       SourceCols11, SourceNull11, Mig!YtTables, Mig!Table
  <2>5. SourceKeys = KeysLeft(SourceKeys, {"speaker"})
    BY KeysOn, KeysStay
  <2>6. QED
    BY <2>1, <2>2, <2>3, <2>4, <2>5, TurnsDrop DEF Sources19, Sources13
<1>4. QED
  BY <1>1, <1>2, <1>3, Applied1, FullSources

LEMMA RemoveCleanedGoes ==
  ASSUME NEW d, NEW types
  PROVE  /\ Is(d, Full(Sources19, Sections11, Chunks18, Artifacts17), types) =>
              Is(Mig!Applied(d, Mig!RemoveCleaned.up), Full(Sources19, Sections20,
              Chunks18, Artifacts17), types)
         /\ Is(d, Full(Sources19, Sections20, Chunks18, Artifacts17), types) =>
              Is(Mig!Applied(d, Mig!RemoveCleaned.down), Full(Sources19, Sections11,
              Chunks18, Artifacts17), types)
<1>1. Len(Mig!RemoveCleaned.up) = 1 /\ Len(Mig!RemoveCleaned.down) = 1
  BY DEF Mig!RemoveCleaned
<1>2. Turns(Sections11, Mig!RemoveCleaned.up[1], "sections", Sections20)
  <2>1. Mig!RemoveCleaned.up[1] = Mig!Drop("sections", {"cleaned_content"})
    BY DEF Mig!RemoveCleaned
  <2>2. {"cleaned_content"} \subseteq DOMAIN SectionCols11
    BY DEF SectionCols20, SectionNull20, Mig!With, Mig!Restrict, SectionCols11,
       SectionNull11, Mig!YtTables, Mig!Table
  <2>3. SectionCols20 =
          Mig!Restrict(SectionCols11, DOMAIN SectionCols11 \ {"cleaned_content"})
    BY DEF SectionCols20, SectionNull20, Mig!With, Mig!Restrict, SectionCols11,
       SectionNull11, Mig!YtTables, Mig!Table
  <2>4. SectionNull20 = SectionNull11 \ {"cleaned_content"}
    BY DEF SectionCols20, SectionNull20, Mig!With, Mig!Restrict, SectionCols11,
       SectionNull11, Mig!YtTables, Mig!Table
  <2>5. SectionKeys = KeysLeft(SectionKeys, {"cleaned_content"})
    BY KeysOn, KeysStay
  <2>6. QED
    BY <2>1, <2>2, <2>3, <2>4, <2>5, TurnsDrop DEF Sections11, Sections20
<1>3. Turns(Sections20, Mig!RemoveCleaned.down[1], "sections", Sections11)
  <2>1. /\ Mig!RemoveCleaned.down[1].op = "add"
        /\ Mig!RemoveCleaned.down[1].t = "sections"
        /\ Mig!RemoveCleaned.down[1].nullable
        /\ Mig!RemoveCleaned.down[1].cols = [cleaned_content |-> "text"]
    BY DEF Mig!RemoveCleaned, Mig!Add
  <2>2. DOMAIN [cleaned_content |-> "text"] \intersect DOMAIN SectionCols20 = {}
    BY DEF SectionCols20, SectionNull20, Mig!With, Mig!Restrict, SectionCols11,
       SectionNull11, Mig!YtTables, Mig!Table
  <2>3. SectionCols11 = Mig!With([cleaned_content |-> "text"], SectionCols20)
    <3> DEFINE g == [cleaned_content |-> "text"]
    <3>1. DOMAIN g = {"cleaned_content"} /\ g["cleaned_content"] = "text"
      OBVIOUS
    <3>2. /\ "cleaned_content" \in DOMAIN SectionCols11
          /\ SectionCols11["cleaned_content"] = "text"
      BY DEF SectionCols11, Mig!YtTables, Mig!Table
    <3>3. SectionCols11 = [y \in DOMAIN SectionCols11 |-> SectionCols11[y]]
      BY DEF SectionCols11, Mig!YtTables, Mig!Table
    <3> HIDE DEF g
    <3>4. SectionCols11 = Mig!With(g, SectionCols20)
      BY <3>1, <3>2, <3>3, PutBack DEF SectionCols20
    <3>5. QED
      BY <3>4 DEF g
  <2>4. SectionNull11 = SectionNull20 \union DOMAIN [cleaned_content |-> "text"]
    BY DEF SectionCols20, SectionNull20, Mig!With, Mig!Restrict, SectionCols11,
       SectionNull11, Mig!YtTables, Mig!Table
  <2>5. QED
    BY <2>1, <2>2, <2>3, <2>4, TurnsAdd DEF Sections20, Sections11
<1>4. QED
  BY <1>1, <1>2, <1>3, Applied1, FullSections

LEMMA RenameSpeakerGoes ==
  ASSUME NEW d, NEW types
  PROVE  /\ Is(d, Full(Sources19, Sections20, Chunks18, Artifacts17), types) =>
              Is(Mig!Applied(d, Mig!RenameSpeaker.up), Full(Sources19, Sections20,
              Chunks21, Artifacts17), types)
         /\ Is(d, Full(Sources19, Sections20, Chunks21, Artifacts17), types) =>
              Is(Mig!Applied(d, Mig!RenameSpeaker.down), Full(Sources19, Sections20,
              Chunks18, Artifacts17), types)
<1>1. Len(Mig!RenameSpeaker.up) = 3 /\ Len(Mig!RenameSpeaker.down) = 3
  BY DEF Mig!RenameSpeaker
<1>2. Turns(Chunks18, Mig!RenameSpeaker.up[1], "chunks", Mig!Table(ChunkColsBoth,
          ChunkNullBoth, ChunkKeys18))
  <2>1. /\ Mig!RenameSpeaker.up[1].op = "add" /\ Mig!RenameSpeaker.up[1].t = "chunks"
        /\ Mig!RenameSpeaker.up[1].nullable
        /\ Mig!RenameSpeaker.up[1].cols = [speaker |-> "text"]
    BY DEF Mig!RenameSpeaker, Mig!Add
  <2>2. DOMAIN [speaker |-> "text"] \intersect DOMAIN ChunkCols18 = {}
    BY DEF ChunkColsBoth, ChunkCols21, ChunkCols18, ChunkColsAll, ChunkColsMore,
       ChunkNullBoth, ChunkNull18, ChunkNull21, Answered, Told, Mig!With, Mig!Restrict,
       ChunkCols11, ChunkNull11, Mig!YtTables, Mig!Table
  <2>3. ChunkColsBoth = Mig!With([speaker |-> "text"], ChunkCols18)
    BY DEF ChunkColsBoth, ChunkCols21, ChunkCols18, ChunkColsAll, ChunkColsMore,
       ChunkNullBoth, ChunkNull18, ChunkNull21, Answered, Told, Mig!With, Mig!Restrict,
       ChunkCols11, ChunkNull11, Mig!YtTables, Mig!Table
  <2>4. ChunkNullBoth = ChunkNull18 \union DOMAIN [speaker |-> "text"]
    BY DEF ChunkColsBoth, ChunkCols21, ChunkCols18, ChunkColsAll, ChunkColsMore,
       ChunkNullBoth, ChunkNull18, ChunkNull21, Answered, Told, Mig!With, Mig!Restrict,
       ChunkCols11, ChunkNull11, Mig!YtTables, Mig!Table
  <2>5. QED
    BY <2>1, <2>2, <2>3, <2>4, TurnsAdd DEF Chunks18
<1>3. \A e, tables : Is(e, tables, types) =>
        Is(Mig!Do(e, Mig!RenameSpeaker.up[2]), tables, types)
  <2>1. Mig!RenameSpeaker.up[2].op = "copy"
    BY DEF Mig!RenameSpeaker, Mig!Copy
  <2>2. QED
    BY <2>1, Copies
<1>4. Turns(Mig!Table(ChunkColsBoth, ChunkNullBoth, ChunkKeys18),
          Mig!RenameSpeaker.up[3], "chunks", Chunks21)
  <2>1. Mig!RenameSpeaker.up[3] = Mig!Drop("chunks", {"primary_speaker"})
    BY DEF Mig!RenameSpeaker
  <2>2. {"primary_speaker"} \subseteq DOMAIN ChunkColsBoth
    BY DEF ChunkColsBoth, ChunkCols21, ChunkCols18, ChunkColsAll, ChunkColsMore,
       ChunkNullBoth, ChunkNull18, ChunkNull21, Answered, Told, Mig!With, Mig!Restrict,
       ChunkCols11, ChunkNull11, Mig!YtTables, Mig!Table
  <2>3. ChunkCols21 =
          Mig!Restrict(ChunkColsBoth, DOMAIN ChunkColsBoth \ {"primary_speaker"})
    BY DEF ChunkColsBoth, ChunkCols21, ChunkCols18, ChunkColsAll, ChunkColsMore,
       ChunkNullBoth, ChunkNull18, ChunkNull21, Answered, Told, Mig!With, Mig!Restrict,
       ChunkCols11, ChunkNull11, Mig!YtTables, Mig!Table
  <2>4. ChunkNull21 = ChunkNullBoth \ {"primary_speaker"}
    BY DEF ChunkColsBoth, ChunkCols21, ChunkCols18, ChunkColsAll, ChunkColsMore,
       ChunkNullBoth, ChunkNull18, ChunkNull21, Answered, Told, Mig!With, Mig!Restrict,
       ChunkCols11, ChunkNull11, Mig!YtTables, Mig!Table
  <2>5. ChunkKeys18 = KeysLeft(ChunkKeys18, {"primary_speaker"})
    BY KeysOn, KeysStay
  <2>6. QED
    BY <2>1, <2>2, <2>3, <2>4, <2>5, TurnsDrop DEF Chunks21
<1>5. Turns(Chunks21, Mig!RenameSpeaker.down[1], "chunks", Mig!Table(ChunkColsBoth,
          ChunkNullBoth, ChunkKeys18))
  <2>1. /\ Mig!RenameSpeaker.down[1].op = "add"
        /\ Mig!RenameSpeaker.down[1].t = "chunks"
        /\ Mig!RenameSpeaker.down[1].nullable
        /\ Mig!RenameSpeaker.down[1].cols = [primary_speaker |-> "text"]
    BY DEF Mig!RenameSpeaker, Mig!Add
  <2>2. DOMAIN [primary_speaker |-> "text"] \intersect DOMAIN ChunkCols21 = {}
    BY DEF ChunkColsBoth, ChunkCols21, ChunkCols18, ChunkColsAll, ChunkColsMore,
       ChunkNullBoth, ChunkNull18, ChunkNull21, Answered, Told, Mig!With, Mig!Restrict,
       ChunkCols11, ChunkNull11, Mig!YtTables, Mig!Table
  <2>3. ChunkColsBoth = Mig!With([primary_speaker |-> "text"], ChunkCols21)
    <3> DEFINE g == [primary_speaker |-> "text"]
    <3>1. DOMAIN g = {"primary_speaker"} /\ g["primary_speaker"] = "text"
      OBVIOUS
    <3>2. /\ "primary_speaker" \in DOMAIN ChunkColsBoth
          /\ ChunkColsBoth["primary_speaker"] = "text"
      BY DEF ChunkColsBoth, ChunkCols18, ChunkColsAll, Told, Mig!With, Mig!Restrict
    <3>3. ChunkColsBoth = [y \in DOMAIN ChunkColsBoth |-> ChunkColsBoth[y]]
      BY DEF ChunkColsBoth, Mig!With
    <3> HIDE DEF g
    <3>4. ChunkColsBoth = Mig!With(g, ChunkCols21)
      BY <3>1, <3>2, <3>3, PutBack DEF ChunkCols21
    <3>5. QED
      BY <3>4 DEF g
  <2>4. ChunkNullBoth = ChunkNull21 \union DOMAIN [primary_speaker |-> "text"]
    BY DEF ChunkColsBoth, ChunkCols21, ChunkCols18, ChunkColsAll, ChunkColsMore,
       ChunkNullBoth, ChunkNull18, ChunkNull21, Answered, Told, Mig!With, Mig!Restrict,
       ChunkCols11, ChunkNull11, Mig!YtTables, Mig!Table
  <2>5. QED
    BY <2>1, <2>2, <2>3, <2>4, TurnsAdd DEF Chunks21
<1>6. \A e, tables : Is(e, tables, types) =>
        Is(Mig!Do(e, Mig!RenameSpeaker.down[2]), tables, types)
  <2>1. Mig!RenameSpeaker.down[2].op = "copy"
    BY DEF Mig!RenameSpeaker, Mig!Copy
  <2>2. QED
    BY <2>1, Copies
<1>7. Turns(Mig!Table(ChunkColsBoth, ChunkNullBoth, ChunkKeys18),
          Mig!RenameSpeaker.down[3], "chunks", Chunks18)
  <2>1. Mig!RenameSpeaker.down[3] = Mig!Drop("chunks", {"speaker"})
    BY DEF Mig!RenameSpeaker
  <2>2. {"speaker"} \subseteq DOMAIN ChunkColsBoth
    BY DEF ChunkColsBoth, ChunkCols21, ChunkCols18, ChunkColsAll, ChunkColsMore,
       ChunkNullBoth, ChunkNull18, ChunkNull21, Answered, Told, Mig!With, Mig!Restrict,
       ChunkCols11, ChunkNull11, Mig!YtTables, Mig!Table
  <2>3. ChunkCols18 = Mig!Restrict(ChunkColsBoth, DOMAIN ChunkColsBoth \ {"speaker"})
    <3> DEFINE g == [speaker |-> "text"]
    <3>1. DOMAIN g = {"speaker"}
      OBVIOUS
    <3>2. "speaker" \notin DOMAIN ChunkCols18
      BY DEF ChunkCols18, ChunkColsAll, ChunkColsMore, ChunkCols11, Answered, Told,
         Mig!YtTables, Mig!Table, Mig!With, Mig!Restrict
    <3>3. ChunkCols18 = [y \in DOMAIN ChunkCols18 |-> ChunkCols18[y]]
      BY DEF ChunkCols18, Mig!Restrict
    <3>4. ChunkColsBoth = Mig!With(g, ChunkCols18)
      BY DEF ChunkColsBoth
    <3> HIDE DEF g
    <3>5. QED
      BY <3>1, <3>2, <3>3, <3>4, TakenBack
  <2>4. ChunkNull18 = ChunkNullBoth \ {"speaker"}
    BY DEF ChunkColsBoth, ChunkCols21, ChunkCols18, ChunkColsAll, ChunkColsMore,
       ChunkNullBoth, ChunkNull18, ChunkNull21, Answered, Told, Mig!With, Mig!Restrict,
       ChunkCols11, ChunkNull11, Mig!YtTables, Mig!Table
  <2>5. ChunkKeys18 = KeysLeft(ChunkKeys18, {"speaker"})
    BY KeysOn, KeysStay
  <2>6. QED
    BY <2>1, <2>2, <2>3, <2>4, <2>5, TurnsDrop DEF Chunks18
<1>8. QED
  BY <1>1, <1>2, <1>3, <1>4, <1>5, <1>6, <1>7, Applied3, FullChunks

\* Tables without a column of an enum type bring no enum types.
LEMMA NoEnums ==
  ASSUME NEW tables,
         \A t \in DOMAIN tables : \A x \in DOMAIN tables[t].cols : tables[t].cols[x] # "enum"
  PROVE  Mig!EnumsOf(tables) = {}
<1> DEFINE cs(t) == {x \in DOMAIN tables[t].cols : tables[t].cols[x] = "enum"}
<1>1. \A t \in DOMAIN tables : cs(t) = {}
  OBVIOUS
<1>2. \A t \in DOMAIN tables : {<<t, c>> : c \in cs(t)} = {}
  BY <1>1
<1>3. QED
  BY <1>2, Zenon DEF Mig!EnumsOf

LEMMA NewTables ==
  ASSUME NEW d, NEW tables, NEW types, NEW op, op.op = "create", NEW new,
         op.tables = new,
         DOMAIN new \intersect DOMAIN tables = {}, Mig!EnumsOf(new) = {},
         NEW after, after = Mig!With(new, tables)
  PROVE  Is(d, tables, types) => Is(Mig!Do(d, op), after, types)
<1>1. types \union {} = types /\ {} \intersect types = {}
  OBVIOUS
<1>2. QED
  BY <1>1, Creates

LEMMA OldTables ==
  ASSUME NEW d, NEW tables, NEW types, NEW op, op.op = "drop tables", NEW names,
         op.names = names,
         names \subseteq DOMAIN tables, Unreferred(tables, names), NEW after,
           after = Mig!Restrict(tables, DOMAIN tables \ names)
  PROVE  Is(d, tables, types) => Is(Mig!Do(d, op), after, types)
BY DropsTables

\* The revisions that make or drop tables.
LEMMA InitialOutboxGoes ==
  ASSUME NEW d, NEW types
  PROVE  /\ Is(d, Early(Recipes3), types) =>
              Is(Mig!Applied(d, Mig!InitialOutbox.up), Middle(Recipes3, Outbox4), types)
         /\ Is(d, Middle(Recipes3, Outbox4), types) =>
              Is(Mig!Applied(d, Mig!InitialOutbox.down), Early(Recipes3), types)
         /\ Is(d, Middle(Recipes3, Unkeyed4), types) =>
              Is(Mig!Applied(d, Mig!InitialOutbox.down), Early(Recipes3), types)
<1> DEFINE new == [outbox |-> Mig!FirstOutbox]
           bare(k) == Mig!Table(OutboxCols4, OutboxNull4, k \ {Mig!PendingIndex})
<1>1. Len(Mig!InitialOutbox.up) = 1 /\ Len(Mig!InitialOutbox.down) = 2
  BY DEF Mig!InitialOutbox
<1>2. \A e : Is(e, Early(Recipes3), types) =>
        Is(Mig!Do(e, Mig!InitialOutbox.up[1]), Middle(Recipes3, Outbox4), types)
  <2>1. Mig!InitialOutbox.up[1].op = "create" /\ Mig!InitialOutbox.up[1].tables = new
    BY DEF Mig!InitialOutbox, Mig!Create
  <2>2. DOMAIN new \intersect DOMAIN Early(Recipes3) = {}
    BY DEF Early
  <2>3. Outbox4 = Mig!FirstOutbox
    BY DEF Outbox4, OutboxCols4, OutboxNull4, OutboxKeys4, Mig!FirstOutbox, Mig!Table
  <2>4. Mig!EnumsOf(new) = {}
    <3>1. \A t \in DOMAIN new : \A x \in DOMAIN new[t].cols : new[t].cols[x] # "enum"
      BY DEF Mig!FirstOutbox, Mig!Table
    <3>2. QED
      BY <3>1, NoEnums
  <2>5. Middle(Recipes3, Outbox4) = Mig!With(new, Early(Recipes3))
    BY <2>3 DEF Middle, Mig!With, Early
  <2> HIDE DEF new
  <2>6. QED
    BY <2>1, <2>2, <2>4, <2>5, NewTables
<1>3. ASSUME NEW k, Mig!PendingIndex \in k
      PROVE  Turns(Mig!Table(OutboxCols4, OutboxNull4, k), Mig!InitialOutbox.down[1],
                 "outbox", bare(k))
  <2>1. Mig!InitialOutbox.down[1] = Mig!Unindex("outbox", {Mig!PendingIndex})
    BY DEF Mig!InitialOutbox
  <2>2. {Mig!PendingIndex} \subseteq k
    BY <1>3
  <2>3. QED
    BY <2>1, <2>2, TurnsUnindex
<1>4. ASSUME NEW o
      PROVE  \A e : Is(e, Middle(Recipes3, o), types) =>
               Is(Mig!Do(e, Mig!InitialOutbox.down[2]), Early(Recipes3), types)
  <2>1. Mig!InitialOutbox.down[2].op =
          "drop tables" /\ Mig!InitialOutbox.down[2].names = {"outbox"}
    BY DEF Mig!InitialOutbox, Mig!DropTables
  <2>2. {"outbox"} \subseteq DOMAIN Middle(Recipes3, o)
    BY DEF Middle
  <2>3. Early(Recipes3) =
          Mig!Restrict(Middle(Recipes3, o), DOMAIN Middle(Recipes3, o) \ {"outbox"})
    BY DEF Middle, Early, Mig!Restrict
  <2>4. Unreferred(Middle(Recipes3, o), {"outbox"})
    BY KeysOn DEF Unreferred, Middle, Recipes3, Mig!Table
  <2>5. QED
    BY <2>1, <2>2, <2>3, <2>4, OldTables
<1> HIDE DEF bare
<1>5. \A k : Mig!PendingIndex \in k =>
        (Is(d, Middle(Recipes3, Mig!Table(OutboxCols4, OutboxNull4, k)), types) =>
           Is(Mig!Applied(d, Mig!InitialOutbox.down), Early(Recipes3), types))
  BY <1>1, <1>3, <1>4, Applied2, MiddleOutbox
<1>6. Mig!PendingIndex \in OutboxKeys4 /\ Mig!PendingIndex \in OutboxKeys5
  BY DEF OutboxKeys4, OutboxKeys5
<1>7. QED
  BY <1>1, <1>2, <1>5, <1>6, Applied1 DEF Outbox4, Unkeyed4

LEMMA RemoveChunksGoes ==
  ASSUME NEW d, NEW types
  PROVE  /\ Is(d, Middle(Recipes9, Outbox7), types) =>
              Is(Mig!Applied(d, Mig!RemoveChunks.up), Short, types)
         /\ Is(d, Short, types) =>
              Is(Mig!Applied(d, Mig!RemoveChunks.down), Middle(Recipes9, Outbox7),
              types)
<1> DEFINE new == [recipe_chunks |-> Mig!Legacy.recipe_chunks]
<1>1. Len(Mig!RemoveChunks.up) = 1 /\ Len(Mig!RemoveChunks.down) = 1
  BY DEF Mig!RemoveChunks
<1>2. Is(d, Middle(Recipes9, Outbox7), types) =>
        Is(Mig!Do(d, Mig!RemoveChunks.up[1]), Short, types)
  <2>1. /\ Mig!RemoveChunks.up[1].op = "drop tables"
        /\ Mig!RemoveChunks.up[1].names = {"recipe_chunks"}
    BY DEF Mig!RemoveChunks, Mig!DropTables
  <2>2. {"recipe_chunks"} \subseteq DOMAIN Middle(Recipes9, Outbox7)
    BY DEF Middle
  <2>3. Short =
          Mig!Restrict(Middle(Recipes9, Outbox7), DOMAIN Middle(Recipes9,
          Outbox7) \ {"recipe_chunks"})
    BY DEF Middle, Short, Mig!Restrict
  <2>4. Unreferred(Middle(Recipes9, Outbox7), {"recipe_chunks"})
    BY KeysOn DEF Unreferred, Middle, Recipes9, Outbox7, Mig!Table
  <2>5. QED
    BY <2>1, <2>2, <2>3, <2>4, OldTables
<1>3. Is(d, Short, types) =>
        Is(Mig!Do(d, Mig!RemoveChunks.down[1]), Middle(Recipes9, Outbox7), types)
  <2>1. Mig!RemoveChunks.down[1].op = "create" /\ Mig!RemoveChunks.down[1].tables = new
    BY DEF Mig!RemoveChunks, Mig!Create
  <2>2. DOMAIN new \intersect DOMAIN Short = {}
    BY DEF Short
  <2>3. Mig!EnumsOf(new) = {}
    <3>1. \A t \in DOMAIN new : \A x \in DOMAIN new[t].cols : new[t].cols[x] # "enum"
      BY DEF Mig!Legacy, Mig!Table
    <3>2. QED
      BY <3>1, NoEnums
  <2>4. Middle(Recipes9, Outbox7) = Mig!With(new, Short)
    BY DEF Middle, Mig!With, Short
  <2> HIDE DEF new
  <2>5. QED
    BY <2>1, <2>2, <2>3, <2>4, NewTables
<1>4. QED
  BY <1>1, <1>2, <1>3, Applied1

\* The tables that CreateYt makes, one by one.
LEMMA YtTablesAre ==
  /\ DOMAIN Mig!YtTables = {"sources", "sections", "chunks", "chunk_translations"}
  /\ Mig!YtTables.sources = Sources11
  /\ Mig!YtTables.sections = Sections11
  /\ Mig!YtTables.chunks = Chunks11
  /\ Mig!YtTables.chunk_translations = Mig!ChunkTranslation
<1>1. DOMAIN Mig!YtTables = {"sources", "sections", "chunks", "chunk_translations"}
  BY DEF Mig!YtTables
<1>2. Mig!YtTables.sources = Sources11
  BY DEF Mig!YtTables, Sources11, SourceCols11, SourceNull11, SourceKeys, Mig!Table
<1>3. Mig!YtTables.sections = Sections11
  BY DEF Mig!YtTables, Sections11, SectionCols11, SectionNull11, SectionKeys, Mig!Table
<1>4. Mig!YtTables.chunks = Chunks11
  BY DEF Mig!YtTables, Chunks11, ChunkCols11, ChunkNull11, ChunkKeys11,
         ChunkKeysLess, Mig!Table
<1>5. Mig!YtTables.chunk_translations = Mig!ChunkTranslation
  BY DEF Mig!YtTables, Mig!ChunkTranslation, Mig!Table
<1>6. QED
  BY <1>1, <1>2, <1>3, <1>4, <1>5

LEMMA CreateYtGoes ==
  ASSUME NEW d, NEW types
  PROVE  /\ Is(d, Short, {}) =>
              Is(Mig!Applied(d, Mig!CreateYt.up), Late(Sources11, Sections11),
                  Mig!EnumsOf(Mig!YtTables))
         /\ Is(d, Late(Sources11, Sections11), types) =>
              Is(Mig!Applied(d, Mig!CreateYt.down), Short, types)
<1> DEFINE names == {"chunk_translations", "chunks", "sections", "sources"}
<1>1. Len(Mig!CreateYt.up) = 1 /\ Len(Mig!CreateYt.down) = 1
  BY DEF Mig!CreateYt
<1>2. Is(d, Short, {}) =>
        Is(Mig!Do(d, Mig!CreateYt.up[1]), Late(Sources11, Sections11),
            Mig!EnumsOf(Mig!YtTables))
  <2>1. Mig!CreateYt.up[1].op = "create" /\ Mig!CreateYt.up[1].tables = Mig!YtTables
    BY DEF Mig!CreateYt, Mig!Create
  <2>2. DOMAIN Mig!YtTables \intersect DOMAIN Short = {}
    BY YtTablesAre DEF Short
  <2>3. Late(Sources11, Sections11) = Mig!With(Mig!YtTables, Short)
    BY YtTablesAre DEF Late, Short, Mig!With
  <2>4. /\ Mig!EnumsOf(Mig!YtTables) \intersect {} = {}
        /\ {} \union Mig!EnumsOf(Mig!YtTables) = Mig!EnumsOf(Mig!YtTables)
    OBVIOUS
  <2>5. QED
    BY <2>1, <2>2, <2>3, <2>4, Creates
<1>3. Is(d, Late(Sources11, Sections11), types) =>
        Is(Mig!Do(d, Mig!CreateYt.down[1]), Short, types)
  <2>1. Mig!CreateYt.down[1].op = "drop tables" /\ Mig!CreateYt.down[1].names = names
    BY DEF Mig!CreateYt, Mig!DropTables
  <2>2. names \subseteq DOMAIN Late(Sources11, Sections11)
    BY DEF Late
  <2>3. Short =
          Mig!Restrict(Late(Sources11, Sections11), DOMAIN Late(Sources11,
          Sections11) \ names)
    BY DEF Late, Short, Mig!Restrict
  <2>4. Unreferred(Late(Sources11, Sections11), names)
    BY KeysOn DEF Unreferred, Late, Recipes9, Outbox7, Mig!Table
  <2> HIDE DEF names
  <2>5. QED
    BY <2>1, <2>2, <2>3, <2>4, OldTables
<1>4. QED
  BY <1>1, <1>2, <1>3, Applied1

LEMMA AddArtifactsGoes ==
  ASSUME NEW d, NEW types
  PROVE  /\ Is(d, Late(Sources13, Sections14), types) =>
              Is(Mig!Applied(d, Mig!AddArtifacts.up), Full(Sources13, Sections14,
                  Chunks11, Artifacts15), types)
         /\ Is(d, Full(Sources13, Sections14, Chunks11, Artifacts15), types) =>
              Is(Mig!Applied(d, Mig!AddArtifacts.down), Late(Sources13, Sections14),
                  types)
<1> DEFINE new == [llm_artifacts |-> Mig!FirstArtifacts]
<1>1. Len(Mig!AddArtifacts.up) = 1 /\ Len(Mig!AddArtifacts.down) = 1
  BY DEF Mig!AddArtifacts
<1>2. Is(d, Late(Sources13, Sections14), types) =>
        Is(Mig!Do(d, Mig!AddArtifacts.up[1]), Full(Sources13, Sections14, Chunks11,
            Artifacts15), types)
  <2>1. Mig!AddArtifacts.up[1].op = "create" /\ Mig!AddArtifacts.up[1].tables = new
    BY DEF Mig!AddArtifacts, Mig!Create
  <2>2. DOMAIN new \intersect DOMAIN Late(Sources13, Sections14) = {}
    BY DEF Late
  <2>3. Artifacts15 = Mig!FirstArtifacts
    BY DEF Artifacts15, ArtifactCols, ArtifactNull, ArtifactKeys15, Mig!FirstArtifacts,
       Mig!Table
  <2>4. Mig!EnumsOf(new) = {}
    <3>1. \A t \in DOMAIN new : \A x \in DOMAIN new[t].cols : new[t].cols[x] # "enum"
      BY DEF Mig!FirstArtifacts, Mig!Table
    <3>2. QED
      BY <3>1, NoEnums
  <2>5. Full(Sources13, Sections14, Chunks11, Artifacts15) =
          Mig!With(new, Late(Sources13, Sections14))
    BY <2>3 DEF Late, Mig!With, Full
  <2> HIDE DEF new
  <2>6. QED
    BY <2>1, <2>2, <2>4, <2>5, NewTables
<1>3. Is(d, Full(Sources13, Sections14, Chunks11, Artifacts15), types) =>
        Is(Mig!Do(d, Mig!AddArtifacts.down[1]), Late(Sources13, Sections14), types)
  <2>1. /\ Mig!AddArtifacts.down[1].op = "drop tables"
        /\ Mig!AddArtifacts.down[1].names = {"llm_artifacts"}
    BY DEF Mig!AddArtifacts, Mig!DropTables
  <2>2. {"llm_artifacts"} \subseteq DOMAIN Full(Sources13, Sections14, Chunks11,
            Artifacts15)
    BY DEF Full
  <2>3. Late(Sources13, Sections14) =
          Mig!Restrict(Full(Sources13, Sections14, Chunks11, Artifacts15),
                       DOMAIN Full(Sources13, Sections14, Chunks11,
                           Artifacts15) \ {"llm_artifacts"})
    BY DEF Late, Full, Mig!Restrict
  <2>4. Unreferred(Full(Sources13, Sections14, Chunks11, Artifacts15), {"llm_artifacts"})
    BY KeysOn DEF Unreferred, Full, Recipes9, Outbox7, Sources13, Sections14,
       Chunks11, Mig!ChunkTranslation, Mig!Table
  <2>5. QED
    BY <2>1, <2>2, <2>3, <2>4, OldTables
<1>4. QED
  BY <1>1, <1>2, <1>3, Applied1

-----------------------------------------------------------------------------
(* The versions.                                                           *)

\* The tables of each version, by the upgrades alone.
Stages ==
  <<Early(Recipes0),
    Early(Recipes0),
    Early(Recipes2),
    Early(Recipes3),
    Middle(Recipes3, Outbox4),
    Middle(Recipes3, Outbox5),
    Middle(Recipes6, Outbox6),
    Middle(Recipes7, Outbox7),
    Middle(Recipes8, Outbox7),
    Middle(Recipes9, Outbox7),
    Short,
    Late(Sources11, Sections11),
    Late(Sources12, Sections11),
    Late(Sources13, Sections11),
    Late(Sources13, Sections14),
    Full(Sources13, Sections14, Chunks11, Artifacts15),
    Full(Sources13, Sections11, Chunks11, Artifacts15),
    Full(Sources13, Sections11, Chunks11, Artifacts17),
    Full(Sources13, Sections11, Chunks18, Artifacts17),
    Full(Sources19, Sections11, Chunks18, Artifacts17),
    Full(Sources19, Sections20, Chunks18, Artifacts17),
    Full(Sources19, Sections20, Chunks21, Artifacts17)>>

Stage(n) == Stages[n + 1]

\* The revisions by their numbers.
LEMMA RevisionsAre ==
  /\ Len(Mig!Revisions) = 21 /\ Mig!Latest = 21
  /\ Mig!Revisions[1] = Mig!Baseline
  /\ Mig!Revisions[2] = Mig!AddUrl
  /\ Mig!Revisions[3] = Mig!NameMayBeNull
  /\ Mig!Revisions[4] = Mig!InitialOutbox
  /\ Mig!Revisions[5] = Mig!RenameEventId
  /\ Mig!Revisions[6] = Mig!TimeZones
  /\ Mig!Revisions[7] = Mig!DeclareColumns
  /\ Mig!Revisions[8] = Mig!AddDescription
  /\ Mig!Revisions[9] = Mig!AddSource
  /\ Mig!Revisions[10] = Mig!RemoveChunks
  /\ Mig!Revisions[11] = Mig!CreateYt
  /\ Mig!Revisions[12] = Mig!AddVideoId
  /\ Mig!Revisions[13] = Mig!VideoIdNotNull
  /\ Mig!Revisions[14] = Mig!CleanedToJson
  /\ Mig!Revisions[15] = Mig!AddArtifacts
  /\ Mig!Revisions[16] = Mig!CleanedToText
  /\ Mig!Revisions[17] = Mig!CurrentIndex
  /\ Mig!Revisions[18] = Mig!ChunkFields
  /\ Mig!Revisions[19] = Mig!AddSpeaker
  /\ Mig!Revisions[20] = Mig!RemoveCleaned
  /\ Mig!Revisions[21] = Mig!RenameSpeaker
BY DEF Mig!Revisions, Mig!Latest

\* The stages by their numbers.
LEMMA StagesAre ==
  /\ Stage(0) = Early(Recipes0)
  /\ Stage(1) = Early(Recipes0)
  /\ Stage(2) = Early(Recipes2)
  /\ Stage(3) = Early(Recipes3)
  /\ Stage(4) = Middle(Recipes3, Outbox4)
  /\ Stage(5) = Middle(Recipes3, Outbox5)
  /\ Stage(6) = Middle(Recipes6, Outbox6)
  /\ Stage(7) = Middle(Recipes7, Outbox7)
  /\ Stage(8) = Middle(Recipes8, Outbox7)
  /\ Stage(9) = Middle(Recipes9, Outbox7)
  /\ Stage(10) = Short
  /\ Stage(11) = Late(Sources11, Sections11)
  /\ Stage(12) = Late(Sources12, Sections11)
  /\ Stage(13) = Late(Sources13, Sections11)
  /\ Stage(14) = Late(Sources13, Sections14)
  /\ Stage(15) = Full(Sources13, Sections14, Chunks11, Artifacts15)
  /\ Stage(16) = Full(Sources13, Sections11, Chunks11, Artifacts15)
  /\ Stage(17) = Full(Sources13, Sections11, Chunks11, Artifacts17)
  /\ Stage(18) = Full(Sources13, Sections11, Chunks18, Artifacts17)
  /\ Stage(19) = Full(Sources19, Sections11, Chunks18, Artifacts17)
  /\ Stage(20) = Full(Sources19, Sections20, Chunks18, Artifacts17)
  /\ Stage(21) = Full(Sources19, Sections20, Chunks21, Artifacts17)
BY DEF Stage, Stages

\* An upgrade by one revision, in an empty database.
LEMMA StageUp ==
  ASSUME NEW n \in 0 .. 20, NEW d, NEW types, Is(d, Stage(n), types), n <= 10 =>
         types = {}
  PROVE  \E new : Is(Mig!Applied(d, Mig!Revisions[n + 1].up), Stage(n + 1), new)
                  /\ (n < 10 => new = {})
<1>1. CASE n = 0
  <2>1. Len(Mig!Baseline.up) = 0
    BY DEF Mig!Baseline
  <2>2. Mig!Applied(d, Mig!Baseline.up) = d
    BY <2>1, Applied0
  <2>3. Is(Mig!Applied(d, Mig!Revisions[1].up), Stage(1), types)
    BY <1>1, <2>2, RevisionsAre, StagesAre
  <2>4. QED
    BY <1>1, <2>3
<1>2. CASE n = 1
  <2>1. Is(Mig!Applied(d, Mig!AddUrl.up), Stage(2), types)
    BY <1>2, AddUrlGoes, StagesAre
  <2>2. QED
    BY <1>2, <2>1, RevisionsAre
<1>3. CASE n = 2
  <2>1. Is(Mig!Applied(d, Mig!NameMayBeNull.up), Stage(3), types)
    BY <1>3, NameMayBeNullGoes, StagesAre
  <2>2. QED
    BY <1>3, <2>1, RevisionsAre
<1>4. CASE n = 3
  <2>1. Is(Mig!Applied(d, Mig!InitialOutbox.up), Stage(4), types)
    BY <1>4, InitialOutboxGoes, StagesAre
  <2>2. QED
    BY <1>4, <2>1, RevisionsAre
<1>5. CASE n = 4
  <2>1. Is(Mig!Applied(d, Mig!RenameEventId.up), Stage(5), types)
    BY <1>5, RenameEventIdGoes, StagesAre
  <2>2. QED
    BY <1>5, <2>1, RevisionsAre
<1>6. CASE n = 5
  <2>1. Is(Mig!Applied(d, Mig!TimeZones.up), Stage(6), types)
    BY <1>6, TimeZonesGoes, StagesAre
  <2>2. QED
    BY <1>6, <2>1, RevisionsAre
<1>7. CASE n = 6
  <2>1. Is(Mig!Applied(d, Mig!DeclareColumns.up), Stage(7), types)
    BY <1>7, DeclareColumnsGoes, StagesAre
  <2>2. QED
    BY <1>7, <2>1, RevisionsAre
<1>8. CASE n = 7
  <2>1. Is(Mig!Applied(d, Mig!AddDescription.up), Stage(8), types)
    BY <1>8, AddDescriptionGoes, StagesAre
  <2>2. QED
    BY <1>8, <2>1, RevisionsAre
<1>9. CASE n = 8
  <2>1. Is(Mig!Applied(d, Mig!AddSource.up), Stage(9), types)
    BY <1>9, AddSourceGoes, StagesAre
  <2>2. QED
    BY <1>9, <2>1, RevisionsAre
<1>10. CASE n = 9
  <2>1. Is(Mig!Applied(d, Mig!RemoveChunks.up), Stage(10), types)
    BY <1>10, RemoveChunksGoes, StagesAre
  <2>2. QED
    BY <1>10, <2>1, RevisionsAre
<1>11. CASE n = 10
  <2>1. Is(Mig!Applied(d, Mig!CreateYt.up), Stage(11), Mig!EnumsOf(Mig!YtTables))
    BY <1>11, CreateYtGoes, StagesAre
  <2>2. QED
    BY <1>11, <2>1, RevisionsAre
<1>12. CASE n = 11
  <2>1. Is(Mig!Applied(d, Mig!AddVideoId.up), Stage(12), types)
    BY <1>12, AddVideoIdGoes, StagesAre
  <2>2. QED
    BY <1>12, <2>1, RevisionsAre
<1>13. CASE n = 12
  <2>1. Is(Mig!Applied(d, Mig!VideoIdNotNull.up), Stage(13), types)
    BY <1>13, VideoIdNotNullGoes, StagesAre
  <2>2. QED
    BY <1>13, <2>1, RevisionsAre
<1>14. CASE n = 13
  <2>1. Is(Mig!Applied(d, Mig!CleanedToJson.up), Stage(14), types)
    BY <1>14, CleanedToJsonGoes, StagesAre
  <2>2. QED
    BY <1>14, <2>1, RevisionsAre
<1>15. CASE n = 14
  <2>1. Is(Mig!Applied(d, Mig!AddArtifacts.up), Stage(15), types)
    BY <1>15, AddArtifactsGoes, StagesAre
  <2>2. QED
    BY <1>15, <2>1, RevisionsAre
<1>16. CASE n = 15
  <2>1. Is(Mig!Applied(d, Mig!CleanedToText.up), Stage(16), types)
    BY <1>16, CleanedToTextGoes, StagesAre
  <2>2. QED
    BY <1>16, <2>1, RevisionsAre
<1>17. CASE n = 16
  <2>1. Is(Mig!Applied(d, Mig!CurrentIndex.up), Stage(17), types)
    BY <1>17, CurrentIndexGoes, StagesAre
  <2>2. QED
    BY <1>17, <2>1, RevisionsAre
<1>18. CASE n = 17
  <2>1. Is(Mig!Applied(d, Mig!ChunkFields.up), Stage(18), types)
    BY <1>18, ChunkFieldsGoes, StagesAre
  <2>2. QED
    BY <1>18, <2>1, RevisionsAre
<1>19. CASE n = 18
  <2>1. Is(Mig!Applied(d, Mig!AddSpeaker.up), Stage(19), types)
    BY <1>19, AddSpeakerGoes, StagesAre
  <2>2. QED
    BY <1>19, <2>1, RevisionsAre
<1>20. CASE n = 19
  <2>1. Is(Mig!Applied(d, Mig!RemoveCleaned.up), Stage(20), types)
    BY <1>20, RemoveCleanedGoes, StagesAre
  <2>2. QED
    BY <1>20, <2>1, RevisionsAre
<1>21. CASE n = 20
  <2>1. Is(Mig!Applied(d, Mig!RenameSpeaker.up), Stage(21), types)
    BY <1>21, RenameSpeakerGoes, StagesAre
  <2>2. QED
    BY <1>21, <2>1, RevisionsAre
<1>22. QED
  BY <1>1, <1>2, <1>3, <1>4, <1>5, <1>6, <1>7, <1>8, <1>9, <1>10, <1>11, <1>12, <1>13,
     <1>14, <1>15, <1>16, <1>17, <1>18, <1>19, <1>20, <1>21

\* A downgrade by one revision.  Those of CleanedToText and ChunkFields are never possible.
LEMMA StageDown ==
  ASSUME NEW n \in 0 .. 20, n \notin {4, 15, 17}, NEW d, NEW types,
         Is(d, Stage(n + 1), types)
  PROVE  Is(Mig!Applied(d, Mig!Revisions[n + 1].down), Stage(n), types)
<1>1. CASE n = 0
  <2>1. Len(Mig!Baseline.down) = 0
    BY DEF Mig!Baseline
  <2>2. Mig!Applied(d, Mig!Baseline.down) = d
    BY <2>1, Applied0
  <2>3. QED
    BY <1>1, <2>2, RevisionsAre, StagesAre
<1>2. CASE n = 1
  BY <1>2, AddUrlGoes, RevisionsAre, StagesAre
<1>3. CASE n = 2
  BY <1>3, NameMayBeNullGoes, RevisionsAre, StagesAre
<1>4. CASE n = 3
  BY <1>4, InitialOutboxGoes, RevisionsAre, StagesAre
<1>5. CASE n = 5
  BY <1>5, TimeZonesGoes, RevisionsAre, StagesAre
<1>6. CASE n = 6
  BY <1>6, DeclareColumnsGoes, RevisionsAre, StagesAre
<1>7. CASE n = 7
  BY <1>7, AddDescriptionGoes, RevisionsAre, StagesAre
<1>8. CASE n = 8
  BY <1>8, AddSourceGoes, RevisionsAre, StagesAre
<1>9. CASE n = 9
  BY <1>9, RemoveChunksGoes, RevisionsAre, StagesAre
<1>10. CASE n = 10
  BY <1>10, CreateYtGoes, RevisionsAre, StagesAre
<1>11. CASE n = 11
  BY <1>11, AddVideoIdGoes, RevisionsAre, StagesAre
<1>12. CASE n = 12
  BY <1>12, VideoIdNotNullGoes, RevisionsAre, StagesAre
<1>13. CASE n = 13
  BY <1>13, CleanedToJsonGoes, RevisionsAre, StagesAre
<1>14. CASE n = 14
  BY <1>14, AddArtifactsGoes, RevisionsAre, StagesAre
<1>15. CASE n = 16
  BY <1>15, CurrentIndexGoes, RevisionsAre, StagesAre
<1>16. CASE n = 18
  BY <1>16, AddSpeakerGoes, RevisionsAre, StagesAre
<1>17. CASE n = 19
  BY <1>17, RemoveCleanedGoes, RevisionsAre, StagesAre
<1>18. CASE n = 20
  BY <1>18, RenameSpeakerGoes, RevisionsAre, StagesAre
<1>19. QED
  BY <1>1, <1>2, <1>3, <1>4, <1>5, <1>6, <1>7, <1>8, <1>9, <1>10, <1>11, <1>12, <1>13,
     <1>14, <1>15, <1>16, <1>17, <1>18

\* A table with other keys.
LEMMA WithoutKeys ==
  ASSUME NEW c, NEW n, NEW k, NEW left, left = {q \in k : q.name # "primary key"}
  PROVE  Mig!WithoutPrimaryKey(Mig!Table(c, n, k)) = Mig!Table(c, n, left)
<1> DEFINE has == Mig!Table(c, n, k)
           new == [has EXCEPT !.keys = left]
<1>1. /\ DOMAIN has = {"cols", "null", "keys"} /\ has.cols = c /\ has.null = n
      /\ has.keys = k
  BY DEF Mig!Table
<1>2. Mig!Table(c, n, left) =
        [x \in {"cols", "null", "keys"} |->
           IF x = "keys" THEN left ELSE IF x = "cols" THEN c ELSE n]
  BY ONLY TRUE DEF Mig!Table
<1> HIDE DEF has
<1>3. Mig!WithoutPrimaryKey(has) = new
  BY <1>1 DEF Mig!WithoutPrimaryKey
<1>4. new = [x \in DOMAIN has |-> IF x = "keys" THEN left ELSE has[x]]
  OBVIOUS
<1> HIDE DEF new
<1>5. new = Mig!Table(c, n, left)
  BY <1>1, <1>2, <1>4
<1>6. QED
  BY <1>3, <1>5 DEF has

\* What RenameEventId leaves when it is taken back is not what version 4 was: the
\* outbox has its old columns without their primary key.
Unkeyed == Middle(Recipes3, Unkeyed4)

LEMMA UnkeyedGoes ==
  ASSUME NEW d, NEW types
  PROVE  /\ Is(d, Stage(5), types) =>
              Is(Mig!Applied(d, Mig!Revisions[5].down), Unkeyed, types)
         /\ Is(d, Unkeyed, types) =>
              Is(Mig!Applied(d, Mig!Revisions[5].up), Stage(5), types)
         /\ Is(d, Unkeyed, types) =>
              Is(Mig!Applied(d, Mig!Revisions[4].down), Stage(3), types)
BY RenameEventIdGoes, InitialOutboxGoes, RevisionsAre, StagesAre DEF Unkeyed

LEMMA UnkeyedIs ==
  /\ DOMAIN Unkeyed = DOMAIN Stage(4)
  /\ \A t \in DOMAIN Unkeyed : t # "outbox" => Unkeyed[t] = Stage(4)[t]
  /\ Unkeyed["outbox"] = Mig!WithoutPrimaryKey(Stage(4)["outbox"])
<1>1. OutboxKeys5 = {k \in OutboxKeys4 : k.name # "primary key"}
  BY OutboxKeyParts DEF Parts, OutboxKeys4, OutboxKeys5
<1>2. Unkeyed4 = Mig!WithoutPrimaryKey(Outbox4)
  BY <1>1, WithoutKeys DEF Unkeyed4, Outbox4
<1>3. QED
  BY <1>2, StagesAre DEF Unkeyed, Middle

\* The last version has the tables of the models, but for the outbox's primary key.
LEMMA LastStage ==
  Stage(21) = [Mig!Models EXCEPT !.outbox = Mig!WithoutPrimaryKey(@)]
<1>1. Recipes9 = Mig!RecipeModel
  <2>1. RecipeCols9 = Mig!RecipeModel.cols
    <3>1. DOMAIN RecipeCols9 = DOMAIN Mig!RecipeModel.cols
      BY DEF RecipeCols9, RecipeCols8, RecipeCols6, RecipeCols2, RecipeCols0, Typed,
         Described, Mig!UrlColumns, Mig!Times, Mig!With, Mig!Legacy, Mig!Table,
         Mig!RecipeModel
    <3>2. /\ RecipeCols9["id"] = Mig!RecipeModel.cols["id"]
          /\ RecipeCols9["source"] = Mig!RecipeModel.cols["source"]
          /\ RecipeCols9["source_url"] = Mig!RecipeModel.cols["source_url"]
          /\ RecipeCols9["status"] = Mig!RecipeModel.cols["status"]
          /\ RecipeCols9["name"] = Mig!RecipeModel.cols["name"]
          /\ RecipeCols9["quantity"] = Mig!RecipeModel.cols["quantity"]
          /\ RecipeCols9["ingredients"] = Mig!RecipeModel.cols["ingredients"]
          /\ RecipeCols9["seasoning"] = Mig!RecipeModel.cols["seasoning"]
          /\ RecipeCols9["category"] = Mig!RecipeModel.cols["category"]
          /\ RecipeCols9["tags"] = Mig!RecipeModel.cols["tags"]
          /\ RecipeCols9["description"] = Mig!RecipeModel.cols["description"]
          /\ RecipeCols9["steps"] = Mig!RecipeModel.cols["steps"]
          /\ RecipeCols9["created_at"] = Mig!RecipeModel.cols["created_at"]
          /\ RecipeCols9["updated_at"] = Mig!RecipeModel.cols["updated_at"]
          /\ RecipeCols9["retry_count"] = Mig!RecipeModel.cols["retry_count"]
          /\ RecipeCols9["last_error"] = Mig!RecipeModel.cols["last_error"]
      BY DEF RecipeCols9, RecipeCols8, RecipeCols6, RecipeCols2, RecipeCols0, Typed,
         Described, Mig!UrlColumns, Mig!Times, Mig!With, Mig!Legacy, Mig!Table,
         Mig!RecipeModel
    <3>3. DOMAIN Mig!RecipeModel.cols =
            {"id", "source", "source_url", "status", "name", "quantity", "ingredients",
            "seasoning", "category", "tags", "description", "steps", "created_at",
            "updated_at", "retry_count", "last_error"}
      BY DEF Mig!RecipeModel, Mig!Table
    <3>4. \A c \in DOMAIN RecipeCols9 : RecipeCols9[c] = Mig!RecipeModel.cols[c]
      BY <3>1, <3>2, <3>3
    <3>5. RecipeCols9 = [c \in DOMAIN RecipeCols9 |-> RecipeCols9[c]]
      BY DEF Mig!With, RecipeCols9
    <3>6. Mig!RecipeModel.cols =
            [c \in DOMAIN Mig!RecipeModel.cols |-> Mig!RecipeModel.cols[c]]
      BY DEF Mig!RecipeModel, Mig!Table
    <3>7. QED
      BY <3>1, <3>4, <3>5, <3>6
  <2>2. RecipeNull9 = Mig!RecipeModel.null
    BY DEF RecipeNull9, RecipeNull8, RecipeNull7, RecipeNull3, RecipeNull2,
       RecipeNull0, Mig!UrlColumns, Mig!Legacy, Mig!Table, Mig!RecipeModel
  <2>3. RecipeKeys2 = Mig!RecipeModel.keys
    BY DEF RecipeKeys2, RecipeKeys0, Mig!RecipeModel, Mig!Table
  <2>4. Mig!RecipeModel =
          Mig!Table(Mig!RecipeModel.cols, Mig!RecipeModel.null, Mig!RecipeModel.keys)
    BY DEF Mig!RecipeModel, Mig!Table
  <2>5. QED
    BY <2>1, <2>2, <2>3, <2>4 DEF Recipes9
<1>2. Outbox7 = Mig!WithoutPrimaryKey(Mig!OutboxModel)
  <2>1. OutboxCols6 = Mig!OutboxModel.cols
    <3>1. DOMAIN OutboxCols6 = DOMAIN Mig!OutboxModel.cols
      BY DEF OutboxCols6, OutboxCols5, OutboxColsBoth, OutboxCols4, Typed, Mig!Times,
         Mig!With, Mig!Restrict, Mig!FirstOutbox, Mig!Table, Mig!OutboxModel
    <3>2. /\ OutboxCols6["event_id"] = Mig!OutboxModel.cols["event_id"]
          /\ OutboxCols6["aggregate_id"] = Mig!OutboxModel.cols["aggregate_id"]
          /\ OutboxCols6["aggregate_type"] = Mig!OutboxModel.cols["aggregate_type"]
          /\ OutboxCols6["event_type"] = Mig!OutboxModel.cols["event_type"]
          /\ OutboxCols6["payload"] = Mig!OutboxModel.cols["payload"]
          /\ OutboxCols6["status"] = Mig!OutboxModel.cols["status"]
          /\ OutboxCols6["retry_count"] = Mig!OutboxModel.cols["retry_count"]
          /\ OutboxCols6["last_error"] = Mig!OutboxModel.cols["last_error"]
          /\ OutboxCols6["created_at"] = Mig!OutboxModel.cols["created_at"]
          /\ OutboxCols6["updated_at"] = Mig!OutboxModel.cols["updated_at"]
      BY DEF OutboxCols6, OutboxCols5, OutboxColsBoth, OutboxCols4, Typed, Mig!Times,
         Mig!With, Mig!Restrict, Mig!FirstOutbox, Mig!Table, Mig!OutboxModel
    <3>3. DOMAIN Mig!OutboxModel.cols =
            {"event_id", "aggregate_id", "aggregate_type", "event_type", "payload",
            "status", "retry_count", "last_error", "created_at", "updated_at"}
      BY DEF Mig!OutboxModel, Mig!Table
    <3>4. \A c \in DOMAIN OutboxCols6 : OutboxCols6[c] = Mig!OutboxModel.cols[c]
      BY <3>1, <3>2, <3>3
    <3>5. OutboxCols6 = [c \in DOMAIN OutboxCols6 |-> OutboxCols6[c]]
      BY DEF Typed, OutboxCols6
    <3>6. Mig!OutboxModel.cols =
            [c \in DOMAIN Mig!OutboxModel.cols |-> Mig!OutboxModel.cols[c]]
      BY DEF Mig!OutboxModel, Mig!Table
    <3>7. QED
      BY <3>1, <3>4, <3>5, <3>6
  <2>2. OutboxNull7 = Mig!OutboxModel.null
    BY DEF OutboxNull7, OutboxNull4, Mig!FirstOutbox, Mig!Table, Mig!OutboxModel
  <2>3. OutboxKeys5 = {k \in Mig!OutboxModel.keys : k.name # "primary key"}
    <3>1. Mig!OutboxModel.keys = {Mig!PrimaryKey({"event_id"}), Mig!PendingIndex}
      BY DEF Mig!OutboxModel, Mig!Table
    <3>2. QED
      BY <3>1, OutboxKeyParts DEF Parts, OutboxKeys5
  <2>4. Mig!OutboxModel =
          Mig!Table(Mig!OutboxModel.cols, Mig!OutboxModel.null, Mig!OutboxModel.keys)
    BY DEF Mig!OutboxModel, Mig!Table
  <2>5. Mig!WithoutPrimaryKey(Mig!Table(Mig!OutboxModel.cols, Mig!OutboxModel.null,
                                        Mig!OutboxModel.keys)) =
          Mig!Table(Mig!OutboxModel.cols, Mig!OutboxModel.null, OutboxKeys5)
    BY <2>3, WithoutKeys
  <2>6. QED
    BY <2>1, <2>2, <2>4, <2>5 DEF Outbox7
<1>3. Sources19 = Mig!Source
  <2>1. SourceCols19 = Mig!Source.cols
    <3>1. DOMAIN SourceCols19 = DOMAIN Mig!Source.cols
      BY DEF SourceCols19, SourceCols12, SourceCols11, Mig!YtTables, Mig!With,
         Mig!Table, Mig!Source
    <3>2. /\ SourceCols19["id"] = Mig!Source.cols["id"]
          /\ SourceCols19["type"] = Mig!Source.cols["type"]
          /\ SourceCols19["video_id"] = Mig!Source.cols["video_id"]
          /\ SourceCols19["title"] = Mig!Source.cols["title"]
          /\ SourceCols19["url"] = Mig!Source.cols["url"]
          /\ SourceCols19["author"] = Mig!Source.cols["author"]
          /\ SourceCols19["speaker"] = Mig!Source.cols["speaker"]
          /\ SourceCols19["language"] = Mig!Source.cols["language"]
          /\ SourceCols19["published_at"] = Mig!Source.cols["published_at"]
          /\ SourceCols19["extra"] = Mig!Source.cols["extra"]
          /\ SourceCols19["created_at"] = Mig!Source.cols["created_at"]
          /\ SourceCols19["updated_at"] = Mig!Source.cols["updated_at"]
      BY DEF SourceCols19, SourceCols12, SourceCols11, Mig!YtTables, Mig!With,
         Mig!Table, Mig!Source
    <3>3. DOMAIN Mig!Source.cols =
            {"id", "type", "video_id", "title", "url", "author", "speaker", "language",
            "published_at", "extra", "created_at", "updated_at"}
      BY DEF Mig!Source, Mig!Table
    <3>4. \A c \in DOMAIN SourceCols19 : SourceCols19[c] = Mig!Source.cols[c]
      BY <3>1, <3>2, <3>3
    <3>5. SourceCols19 = [c \in DOMAIN SourceCols19 |-> SourceCols19[c]]
      BY DEF Mig!With, SourceCols19
    <3>6. Mig!Source.cols = [c \in DOMAIN Mig!Source.cols |-> Mig!Source.cols[c]]
      BY DEF Mig!Source, Mig!Table
    <3>7. QED
      BY <3>1, <3>4, <3>5, <3>6
  <2>2. SourceNull19 = Mig!Source.null
    BY DEF SourceNull19, SourceNull11, Mig!YtTables, Mig!Table, Mig!Source
  <2>3. SourceKeys = Mig!Source.keys
    BY DEF SourceKeys, Mig!Source, Mig!Table
  <2>4. Mig!Source = Mig!Table(Mig!Source.cols, Mig!Source.null, Mig!Source.keys)
    BY DEF Mig!Source, Mig!Table
  <2>5. QED
    BY <2>1, <2>2, <2>3, <2>4 DEF Sources19
<1>4. Sections20 = Mig!Section
  <2>1. SectionCols20 = Mig!Section.cols
    <3>1. DOMAIN SectionCols20 = DOMAIN Mig!Section.cols
      BY DEF SectionCols20, SectionCols11, Mig!YtTables, Mig!Restrict, Mig!Table,
         Mig!Section
    <3>2. /\ SectionCols20["id"] = Mig!Section.cols["id"]
          /\ SectionCols20["source_id"] = Mig!Section.cols["source_id"]
          /\ SectionCols20["title"] = Mig!Section.cols["title"]
          /\ SectionCols20["order_index"] = Mig!Section.cols["order_index"]
          /\ SectionCols20["raw_content"] = Mig!Section.cols["raw_content"]
          /\ SectionCols20["start_time"] = Mig!Section.cols["start_time"]
          /\ SectionCols20["end_time"] = Mig!Section.cols["end_time"]
          /\ SectionCols20["start_page"] = Mig!Section.cols["start_page"]
          /\ SectionCols20["end_page"] = Mig!Section.cols["end_page"]
          /\ SectionCols20["created_at"] = Mig!Section.cols["created_at"]
      BY DEF SectionCols20, SectionCols11, Mig!YtTables, Mig!Restrict, Mig!Table,
         Mig!Section
    <3>3. DOMAIN Mig!Section.cols =
            {"id", "source_id", "title", "order_index", "raw_content", "start_time",
            "end_time", "start_page", "end_page", "created_at"}
      BY DEF Mig!Section, Mig!Table
    <3>4. \A c \in DOMAIN SectionCols20 : SectionCols20[c] = Mig!Section.cols[c]
      BY <3>1, <3>2, <3>3
    <3>5. SectionCols20 = [c \in DOMAIN SectionCols20 |-> SectionCols20[c]]
      BY DEF Mig!Restrict, SectionCols20
    <3>6. Mig!Section.cols = [c \in DOMAIN Mig!Section.cols |-> Mig!Section.cols[c]]
      BY DEF Mig!Section, Mig!Table
    <3>7. QED
      BY <3>1, <3>4, <3>5, <3>6
  <2>2. SectionNull20 = Mig!Section.null
    BY DEF SectionNull20, SectionNull11, Mig!YtTables, Mig!Table, Mig!Section
  <2>3. SectionKeys = Mig!Section.keys
    BY DEF SectionKeys, Mig!Section, Mig!Table
  <2>4. Mig!Section = Mig!Table(Mig!Section.cols, Mig!Section.null, Mig!Section.keys)
    BY DEF Mig!Section, Mig!Table
  <2>5. QED
    BY <2>1, <2>2, <2>3, <2>4 DEF Sections20
<1>5. Chunks21 = Mig!Chunk
  <2>1. ChunkCols21 = Mig!Chunk.cols
    <3>1. DOMAIN ChunkCols21 = DOMAIN Mig!Chunk.cols
      BY DEF ChunkCols21, ChunkColsBoth, ChunkCols18, ChunkColsAll, ChunkColsMore,
         ChunkCols11, Answered, Told, Mig!YtTables, Mig!With, Mig!Restrict, Mig!Table,
         Mig!Chunk
    <3>2. /\ ChunkCols21["id"] = Mig!Chunk.cols["id"]
          /\ ChunkCols21["section_id"] = Mig!Chunk.cols["section_id"]
          /\ ChunkCols21["question"] = Mig!Chunk.cols["question"]
          /\ ChunkCols21["answer"] = Mig!Chunk.cols["answer"]
          /\ ChunkCols21["embedding_text"] = Mig!Chunk.cols["embedding_text"]
          /\ ChunkCols21["topic"] = Mig!Chunk.cols["topic"]
          /\ ChunkCols21["speaker"] = Mig!Chunk.cols["speaker"]
          /\ ChunkCols21["llm_artifact_id"] = Mig!Chunk.cols["llm_artifact_id"]
          /\ ChunkCols21["created_at"] = Mig!Chunk.cols["created_at"]
          /\ ChunkCols21["updated_at"] = Mig!Chunk.cols["updated_at"]
      BY DEF ChunkCols21, ChunkColsBoth, ChunkCols18, ChunkColsAll, ChunkColsMore,
         ChunkCols11, Answered, Told, Mig!YtTables, Mig!With, Mig!Restrict, Mig!Table,
         Mig!Chunk
    <3>3. DOMAIN Mig!Chunk.cols =
            {"id", "section_id", "question", "answer", "embedding_text", "topic",
            "speaker", "llm_artifact_id", "created_at", "updated_at"}
      BY DEF Mig!Chunk, Mig!Table
    <3>4. \A c \in DOMAIN ChunkCols21 : ChunkCols21[c] = Mig!Chunk.cols[c]
      BY <3>1, <3>2, <3>3
    <3>5. ChunkCols21 = [c \in DOMAIN ChunkCols21 |-> ChunkCols21[c]]
      BY DEF Mig!Restrict, ChunkCols21
    <3>6. Mig!Chunk.cols = [c \in DOMAIN Mig!Chunk.cols |-> Mig!Chunk.cols[c]]
      BY DEF Mig!Chunk, Mig!Table
    <3>7. QED
      BY <3>1, <3>4, <3>5, <3>6
  <2>2. ChunkNull21 = Mig!Chunk.null
    BY DEF ChunkNull21, Mig!Table, Mig!Chunk
  <2>3. ChunkKeys18 = Mig!Chunk.keys
    BY DEF ChunkKeys18, ChunkKeysLess, Mig!Chunk, Mig!Table
  <2>4. Mig!Chunk = Mig!Table(Mig!Chunk.cols, Mig!Chunk.null, Mig!Chunk.keys)
    BY DEF Mig!Chunk, Mig!Table
  <2>5. QED
    BY <2>1, <2>2, <2>3, <2>4 DEF Chunks21
<1>6. Artifacts17 = Mig!LlmArtifacts
  BY DEF Artifacts17, ArtifactCols, ArtifactNull, ArtifactKeys17, ArtifactKeys15,
         Mig!FirstArtifacts, Mig!LlmArtifacts, Mig!Table
<1>7. QED
  BY <1>1, <1>2, <1>3, <1>4, <1>5, <1>6, StagesAre DEF Full, Mig!Models
=============================================================================
