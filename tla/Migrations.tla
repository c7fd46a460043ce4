----------------------------- MODULE Migrations -----------------------------
(***************************************************************************)
(* The database schema: the chain of Alembic revisions (migrations/), the  *)
(* ORM models, and the servers' start, which creates the tables that are   *)
(* missing.  Lengths of texts and defaults are left out; a table is its    *)
(* columns with their types, those that may be NULL, and its keys, which   *)
(* are its primary key, indexes, unique constraints and foreign keys.      *)
(***************************************************************************)
EXTENDS Integers, SequencesExt

CONSTANT MaxPopulated  \* bound: tables that hold rows at one time

VARIABLES
  version,   \* alembic_version: how many revisions have been applied
  db         \* tables, types, and facts: <<t, c, f>> when some row of table
             \* t has in its column c what the fact f says

vars == <<version, db>>

Table(cols, null, keys) == [cols |-> cols, null |-> null, keys |-> keys]

\* A key by its name, the columns it is on and the tables it refers to.
Key(name, on) == [name |-> name, on |-> on, to |-> {}]
PrimaryKey(on) == Key("primary key", on)
ForeignKey(c, t) == [name |-> "foreign key", on |-> {c}, to |-> {t}]

NoTables == [t \in {} |-> Table([id |-> "text"], {}, {})]

\* The columns or tables of old, with new ones.
With(new, old) ==
  [x \in DOMAIN new \union DOMAIN old |-> IF x \in DOMAIN new THEN new[x] ELSE old[x]]

-----------------------------------------------------------------------------
(* Operations of a revision.                                               *)

Add(t, cols, nullable) == [op |-> "add", t |-> t, cols |-> cols, nullable |-> nullable]
Drop(t, names) == [op |-> "drop", t |-> t, names |-> names]
MayBeNull(t, names) == [op |-> "null", t |-> t, names |-> names]
NotNull(t, names) == [op |-> "not null", t |-> t, names |-> names]
Retype(t, names, type) == [op |-> "retype", t |-> t, names |-> names, type |-> type]
Cast(t, names, type) == [op |-> "cast", t |-> t, names |-> names, type |-> type]
Create(tables) == [op |-> "create", tables |-> tables]
DropTables(names) == [op |-> "drop tables", names |-> names]
Index(t, keys) == [op |-> "index", t |-> t, keys |-> keys]
Unindex(t, keys) == [op |-> "unindex", t |-> t, keys |-> keys]
Copy(from, fact, t, c) == [op |-> "copy", from |-> from, fact |-> fact, t |-> t, c |-> c]
Unnamed == [op |-> "drop constraint None"]

\* Columns that a revision asks for NULL.
Asked == {"name", "source_url", "status", "video_id"}

EnumsOf(tables) ==
  UNION {{<<t, c>> : c \in {x \in DOMAIN tables[t].cols : tables[t].cols[x] = "enum"}} :
         t \in DOMAIN tables}

Rows(d, t) == <<t, "", "row">> \in d.facts

\* What PostgreSQL, or SQLAlchemy before it, refuses.  create_table creates the
\* enum types without asking whether they exist; text becomes JSON by an explicit
\* cast only, which wants every value to be JSON; a constraint needs a name; a
\* table that others refer to is not dropped.  (Where a revision refers to a
\* table, an earlier one has made it.)
Possible(d, op) ==
  CASE op.op = "create" ->
         DOMAIN op.tables \intersect DOMAIN d.tables = {}
         /\ EnumsOf(op.tables) \intersect d.types = {}
    [] op.op = "drop tables" ->
         /\ op.names \subseteq DOMAIN d.tables
         /\ \A t \in DOMAIN d.tables \ op.names : \A k \in d.tables[t].keys :
              k.to \intersect op.names = {}
    [] op.op = "drop constraint None" -> FALSE
    [] op.op = "copy" -> TRUE
    [] OTHER ->
         /\ op.t \in DOMAIN d.tables
         /\ LET has == d.tables[op.t]
            IN CASE op.op = "add" -> DOMAIN op.cols \intersect DOMAIN has.cols = {}
                                     /\ (op.nullable \/ ~Rows(d, op.t))
                 [] op.op = "index" -> op.keys \intersect has.keys = {}
                 [] op.op = "unindex" -> op.keys \subseteq has.keys
                 [] OTHER ->
                      /\ op.names \subseteq DOMAIN has.cols
                      /\ op.op = "not null" =>
                           \A c \in op.names : <<op.t, c, "null">> \notin d.facts
                      /\ (op.op = "retype" /\ op.type = "json") =>
                           \A c \in op.names : has.cols[c] # "text"
                      /\ (op.op = "cast" /\ op.type = "json") =>
                           \A c \in op.names : <<op.t, c, "plain">> \notin d.facts

ColsAfter(cols, op) ==
  CASE op.op = "add" -> With(op.cols, cols)
    [] op.op = "drop" -> Restrict(cols, DOMAIN cols \ op.names)
    [] op.op \in {"retype", "cast"} ->
         [c \in DOMAIN cols |-> IF c \in op.names THEN op.type ELSE cols[c]]
    [] OTHER -> cols

NullAfter(null, op) ==
  CASE op.op = "add" /\ op.nullable -> null \union DOMAIN op.cols
    [] op.op = "null" -> null \union op.names
    [] op.op \in {"drop", "not null"} -> null \ op.names
    [] OTHER -> null

\* With a column go the keys that it is part of, the primary key too.
KeysAfter(keys, op) ==
  CASE op.op = "index" -> keys \union op.keys
    [] op.op = "unindex" -> keys \ op.keys
    [] op.op = "drop" -> {k \in keys : k.on \intersect op.names = {}}
    [] OTHER -> keys

\* The table an operation leaves in the place of one.
Altered(has, op) ==
  Table(ColsAfter(has.cols, op), NullAfter(has.null, op), KeysAfter(has.keys, op))

TablesAfter(d, op) ==
  CASE op.op = "create" -> With(op.tables, d.tables)
    [] op.op = "drop tables" -> Restrict(d.tables, DOMAIN d.tables \ op.names)
    [] op.op = "copy" -> d.tables
    [] OTHER -> [d.tables EXCEPT ![op.t] = Altered(@, op)]

FactsAfter(d, op) ==
  CASE op.op = "drop tables" -> {f \in d.facts : f[1] \notin op.names}
    [] op.op = "drop" -> {f \in d.facts : f[1] # op.t \/ f[2] \notin op.names}
    [] op.op = "copy" /\ <<op.from[1], op.from[2], op.fact>> \in d.facts ->
         d.facts \union {<<op.t, op.c, op.fact>>}
    [] op.op = "add" /\ Rows(d, op.t) ->
         d.facts \union {<<op.t, c, "null">> : c \in Asked \intersect DOMAIN op.cols}
    [] OTHER -> d.facts

\* One operation, after those before it.  An enum type outlives its table.
Do(d, op) ==
  IF d.ok /\ Possible(d, op)
  THEN [tables |-> TablesAfter(d, op),
        types |-> IF op.op = "create" THEN d.types \union EnumsOf(op.tables) ELSE d.types,
        facts |-> FactsAfter(d, op),
        ok |-> TRUE]
  ELSE [d EXCEPT !.ok = FALSE]

\* The operations of one revision, in their order.
Applied(d, ops) ==
  LET at[i \in 0 .. Len(ops)] == IF i = 0 THEN d ELSE Do(at[i - 1], ops[i])
  IN  at[Len(ops)]

\* Several revisions, each as its operations.
Ran(d, route) ==
  LET at[i \in 0 .. Len(route)] == IF i = 0 THEN d ELSE Applied(at[i - 1], route[i])
  IN  at[Len(route)]

-----------------------------------------------------------------------------
(* The revisions, oldest first, and the tables that were there before.     *)

Legacy ==
  [recipes |-> Table([id |-> "text", name |-> "text", quantity |-> "text",
                      ingredients |-> "json", seasoning |-> "json", category |-> "text",
                      tags |-> "list", created_at |-> "time"],
                     {"quantity", "ingredients", "seasoning", "category", "tags",
                      "created_at"}, {PrimaryKey({"id"})}),
   recipe_chunks |-> Table([id |-> "text", parent_id |-> "text", chunk_type |-> "text",
                            content |-> "text"], {"chunk_type", "content"},
                           {PrimaryKey({"id"}), ForeignKey("parent_id", "recipes")})]

Baseline == [up |-> <<>>, down |-> <<>>]

UrlColumns == [source_url |-> "text", status |-> "text", retry_count |-> "int",
               last_error |-> "text", updated_at |-> "time"]
UrlKeys == {Key("ix_recipes_source_url", {"source_url"}), Key("ix_recipes_status", {"status"})}

\* mutant: a column is forgotten in downgrade
AddUrlOneWay ==
  [up |-> <<Add("recipes", UrlColumns, TRUE), Index("recipes", UrlKeys)>>,
   down |-> <<Unindex("recipes", UrlKeys),
              Drop("recipes", DOMAIN UrlColumns \ {"last_error"})>>]

AddUrl ==
  [up |-> <<Add("recipes", UrlColumns, TRUE), Index("recipes", UrlKeys)>>,
   down |-> <<Unindex("recipes", UrlKeys), Drop("recipes", DOMAIN UrlColumns)>>]

NameMayBeNull ==
  [up |-> <<MayBeNull("recipes", {"name"})>>, down |-> <<NotNull("recipes", {"name"})>>]

\* The index is on created_at, of the rows whose status is pending.
PendingIndex == Key("idx_outbox_pending", {"created_at", "status"})

FirstOutbox == Table(
  [evnet_id |-> "uuid", aggregate_id |-> "text", aggregate_type |-> "text",
   event_type |-> "text", payload |-> "json", status |-> "text", retry_count |-> "int",
   last_error |-> "text", created_at |-> "time", updated_at |-> "time"],
  {"status", "last_error", "created_at", "updated_at"},
  {PrimaryKey({"evnet_id"}), PendingIndex})

InitialOutbox ==
  [up |-> <<Create([outbox |-> FirstOutbox])>>,
   down |-> <<Unindex("outbox", {PendingIndex}), DropTables({"outbox"})>>]

\* The new column is not declared to be the primary key that the old one was.
RenameEventId ==
  [up |-> <<Add("outbox", [event_id |-> "uuid"], FALSE), Drop("outbox", {"evnet_id"})>>,
   down |-> <<Add("outbox", [evnet_id |-> "uuid"], FALSE), Drop("outbox", {"event_id"})>>]

Times == {"created_at", "updated_at"}

TimeZones ==
  [up |-> <<Retype("outbox", Times, "timetz"), Retype("recipes", Times, "timetz")>>,
   down |-> <<Retype("recipes", Times, "time"), Retype("outbox", Times, "time")>>]

\* mutant: the model's new nullability is declared for one table alone
DeclareOutbox ==
  [up |-> <<NotNull("outbox", {"status"})>>, down |-> <<MayBeNull("outbox", {"status"})>>]

DeclareColumns ==
  [up |-> <<NotNull("outbox", {"status"}), NotNull("recipes", {"source_url", "status"})>>,
   down |-> <<MayBeNull("recipes", {"source_url", "status"}),
              MayBeNull("outbox", {"status"})>>]

Content == <<"recipe_chunks", "content">>

\* mutant: one of the two UPDATE statements is missing
AddDescriptionFilled ==
  [up |-> <<Add("recipes", [description |-> "text", steps |-> "text"], TRUE),
            Copy(Content, "overview", "recipes", "description")>>,
   down |-> <<Drop("recipes", {"description", "steps"})>>]

AddDescription ==
  [up |-> <<Add("recipes", [description |-> "text", steps |-> "text"], TRUE),
            Copy(Content, "overview", "recipes", "description"),
            Copy(Content, "instruction", "recipes", "steps")>>,
   down |-> <<Drop("recipes", {"description", "steps"})>>]

AddSource == [up |-> <<Add("recipes", [source |-> "text"], TRUE)>>,
              down |-> <<Drop("recipes", {"source"})>>]

RemoveChunks == [up |-> <<DropTables({"recipe_chunks"})>>,
                 down |-> <<Create([recipe_chunks |-> Legacy.recipe_chunks])>>]

\* The keys of the interview tables.
SourceKeys ==
  {PrimaryKey({"id"}), Key("url", {"url"}), Key("ix_sources_type", {"type"})}
SectionKeys ==
  {PrimaryKey({"id"}), ForeignKey("source_id", "sources"),
   Key("uq_section_order", {"source_id", "order_index"}),
   Key("ix_sections_source_id", {"source_id"})}
ChunkOrder == Key("uq_chunk_order", {"section_id", "order_index"})
ChunkKeys ==
  {PrimaryKey({"id"}), ForeignKey("section_id", "sections"),
   Key("ix_chunks_section_id", {"section_id"})}
TranslationKeys ==
  {PrimaryKey({"id"}), ForeignKey("chunk_id", "chunks"),
   Key("uq_chunk_translation_language", {"chunk_id", "language"}),
   Key("ix_chunk_translation_language", {"language"}),
   Key("ix_chunk_translations_chunk_id", {"chunk_id"})}

YtTables ==
  [sources |-> Table(
     [id |-> "uuid", type |-> "enum", title |-> "text", url |-> "text",
      author |-> "text", language |-> "text", published_at |-> "timetz",
      extra |-> "json", created_at |-> "timetz", updated_at |-> "timetz"],
     {"url", "author", "published_at"}, SourceKeys),
   sections |-> Table(
     [id |-> "uuid", source_id |-> "uuid", title |-> "text", order_index |-> "int",
      raw_content |-> "text", cleaned_content |-> "text", start_time |-> "float",
      end_time |-> "float", start_page |-> "int", end_page |-> "int",
      created_at |-> "timetz"],
     {"title", "raw_content", "cleaned_content", "start_time", "end_time",
      "start_page", "end_page"}, SectionKeys),
   chunks |-> Table(
     [id |-> "uuid", section_id |-> "uuid", text |-> "text", order_index |-> "int",
      created_at |-> "timetz", updated_at |-> "timetz"],
     {}, ChunkKeys \union {ChunkOrder}),
   chunk_translations |-> Table(
     [id |-> "uuid", chunk_id |-> "uuid", language |-> "text",
      translated_text |-> "text", translation_model |-> "text",
      created_at |-> "timetz", updated_at |-> "timetz"],
     {"translation_model"}, TranslationKeys)]

CreateYt ==
  [up |-> <<Create(YtTables)>>,
   down |-> <<DropTables({"chunk_translations", "chunks", "sections", "sources"})>>]

AddVideoId == [up |-> <<Add("sources", [video_id |-> "text"], TRUE)>>,
               down |-> <<Drop("sources", {"video_id"})>>]

VideoIdNotNull == [up |-> <<NotNull("sources", {"video_id"})>>,
                   down |-> <<MayBeNull("sources", {"video_id"})>>]

CleanedToJson == [up |-> <<Cast("sections", {"cleaned_content"}, "json")>>,
                  down |-> <<Cast("sections", {"cleaned_content"}, "text")>>]

CurrentKey == Key("ix_unique_current_artifact", {"section_id", "stage", "is_current"})
ArtifactKeys == {PrimaryKey({"id"}), ForeignKey("section_id", "sections")}

FirstArtifacts == Table(
  [id |-> "uuid", section_id |-> "uuid", stage |-> "text", output |-> "json",
   prompt_version |-> "text", is_current |-> "bool", created_at |-> "time"],
  {"prompt_version", "created_at"}, ArtifactKeys)

AddArtifacts == [up |-> <<Create([llm_artifacts |-> FirstArtifacts])>>,
                 down |-> <<DropTables({"llm_artifacts"})>>]

CleanedToText == [up |-> <<Retype("sections", {"cleaned_content"}, "text")>>,
                  down |-> <<Retype("sections", {"cleaned_content"}, "json")>>]

CurrentIndex == [up |-> <<Index("llm_artifacts", {CurrentKey})>>,
                 down |-> <<Unindex("llm_artifacts", {CurrentKey})>>]

ArtifactRef == ForeignKey("llm_artifact_id", "llm_artifacts")

ChunkFields ==
  [up |-> <<Add("chunks", [question |-> "text", answer |-> "text",
                           embedding_text |-> "text"], FALSE),
            Add("chunks", [topic |-> "text", primary_speaker |-> "text",
                           llm_artifact_id |-> "uuid"], TRUE),
            Unindex("chunks", {ChunkOrder}), Index("chunks", {ArtifactRef}),
            Drop("chunks", {"text", "order_index"})>>,
   down |-> <<Add("chunks", [text |-> "text", order_index |-> "int"], FALSE), Unnamed>>]

AddSpeaker == [up |-> <<Add("sources", [speaker |-> "text"], TRUE)>>,
               down |-> <<Drop("sources", {"speaker"})>>]

RemoveCleaned == [up |-> <<Drop("sections", {"cleaned_content"})>>,
                  down |-> <<Add("sections", [cleaned_content |-> "text"], TRUE)>>]

RenameSpeaker ==
  [up |-> <<Add("chunks", [speaker |-> "text"], TRUE),
            Copy(<<"chunks", "primary_speaker">>, "speaker", "chunks", "speaker"),
            Drop("chunks", {"primary_speaker"})>>,
   down |-> <<Add("chunks", [primary_speaker |-> "text"], TRUE),
              Copy(<<"chunks", "speaker">>, "speaker", "chunks", "primary_speaker"),
              Drop("chunks", {"speaker"})>>]

Revisions ==
  <<Baseline, AddUrl, NameMayBeNull, InitialOutbox, RenameEventId, TimeZones,
    DeclareColumns, AddDescription, AddSource, RemoveChunks, CreateYt, AddVideoId,
    VideoIdNotNull, CleanedToJson, AddArtifacts, CleanedToText, CurrentIndex,
    ChunkFields, AddSpeaker, RemoveCleaned, RenameSpeaker>>

Latest == Len(Revisions)

\* The way from one version to another, up or down.
Ups(m, n) == [i \in 1 .. n - m |-> Revisions[m + i].up]
Downs(m, n) == [i \in 1 .. m - n |-> Revisions[m + 1 - i].down]

-----------------------------------------------------------------------------
(* The models (create_all) and the programs.                               *)

RecipeModel == Table(
  [id |-> "text", source |-> "text", source_url |-> "text", status |-> "text",
   name |-> "text", quantity |-> "text", ingredients |-> "json", seasoning |-> "json",
   category |-> "text", tags |-> "list", description |-> "text", steps |-> "text",
   created_at |-> "timetz", updated_at |-> "timetz", retry_count |-> "int",
   last_error |-> "text"],
  {"source", "name", "quantity", "ingredients", "seasoning", "category", "tags",
   "description", "steps", "created_at", "updated_at", "retry_count", "last_error"},
  {PrimaryKey({"id"})} \union UrlKeys)

OutboxModel == Table(
  [event_id |-> "uuid", aggregate_id |-> "text", aggregate_type |-> "text",
   event_type |-> "text", payload |-> "json", status |-> "text", retry_count |-> "int",
   last_error |-> "text", created_at |-> "timetz", updated_at |-> "timetz"],
  {"last_error", "created_at", "updated_at"}, {PrimaryKey({"event_id"}), PendingIndex})

Source == Table(
  [id |-> "uuid", type |-> "enum", video_id |-> "text", title |-> "text",
   url |-> "text", author |-> "text", speaker |-> "text", language |-> "text",
   published_at |-> "timetz", extra |-> "json", created_at |-> "timetz",
   updated_at |-> "timetz"],
  {"url", "author", "speaker", "published_at"}, SourceKeys)

Section == Table(
  [id |-> "uuid", source_id |-> "uuid", title |-> "text", order_index |-> "int",
   raw_content |-> "text", start_time |-> "float", end_time |-> "float",
   start_page |-> "int", end_page |-> "int", created_at |-> "timetz"],
  {"title", "raw_content", "start_time", "end_time", "start_page", "end_page"},
  SectionKeys)

Chunk == Table(
  [id |-> "uuid", section_id |-> "uuid", question |-> "text", answer |-> "text",
   embedding_text |-> "text", topic |-> "text", speaker |-> "text",
   llm_artifact_id |-> "uuid", created_at |-> "timetz", updated_at |-> "timetz"],
  {"topic", "speaker", "llm_artifact_id"}, ChunkKeys \union {ArtifactRef})

LlmArtifacts == Table(
  [id |-> "uuid", section_id |-> "uuid", stage |-> "text", output |-> "json",
   prompt_version |-> "text", is_current |-> "bool", created_at |-> "time"],
  {"prompt_version", "created_at"}, ArtifactKeys \union {CurrentKey})

ChunkTranslation == Table(
  [id |-> "uuid", chunk_id |-> "uuid", language |-> "text", translated_text |-> "text",
   translation_model |-> "text", created_at |-> "timetz", updated_at |-> "timetz"],
  {"translation_model"}, TranslationKeys)

Models ==
  [recipes |-> RecipeModel, outbox |-> OutboxModel, sources |-> Source,
   sections |-> Section, chunks |-> Chunk, llm_artifacts |-> LlmArtifacts,
   chunk_translations |-> ChunkTranslation]

\* An empty database, or one whose first tables an earlier server created.
Init ==
  /\ version = 0
  /\ \E tables \in {NoTables, Legacy} :
       db = [tables |-> tables, types |-> {}, facts |-> {}, ok |-> TRUE]

\* alembic upgrade: one transaction (env.py), which fails as a whole.
Upgrade ==
  \E n \in version + 1 .. Latest :
    LET new == Ran(db, Ups(version, n))
    IN  /\ new.ok
        /\ version' = n
        /\ db' = new

\* alembic downgrade.
Downgrade ==
  \E n \in 0 .. version - 1 :
    LET new == Ran(db, Downs(version, n))
    IN  /\ new.ok
        /\ version' = n
        /\ db' = new

\* The lifespan of app/main.py, whatever the version.
StartServer ==
  LET missing == Restrict(Models, DOMAIN Models \ DOMAIN db.tables)
  IN  /\ db' = [db EXCEPT !.tables = With(missing, @), !.types = @ \union EnumsOf(missing)]
      /\ UNCHANGED version

\* What a row may hold that a later revision asks about.
Values(t) ==
  LET has == db.tables[t]
  IN  {<<t, c, "null">> : c \in Asked \intersect has.null}
      \union {<<t, c, "plain">> : c \in {x \in {"cleaned_content"} \intersect DOMAIN has.cols :
                                           has.cols[x] = "text"}}
      \union {<<t, c, "speaker">> : c \in {"primary_speaker", "speaker"} \intersect DOMAIN has.cols}
      \union {<<t, "content", f>> : f \in IF t = "recipe_chunks" THEN {"overview", "instruction"}
                                                                 ELSE {}}

\* A program of any version of the code writes a row.  recipe_chunks has had no
\* writer since the columns that took its place.
Insert ==
  \E t \in DOMAIN db.tables :
    /\ t = "recipe_chunks" => version < 8
    /\ Cardinality({u \in DOMAIN db.tables : Rows(db, u)} \union {t}) <= MaxPopulated
    /\ \E values \in {{}} \union {{f} : f \in Values(t)} :
         db' = [db EXCEPT !.facts = @ \union {<<t, "", "row">>} \union values]
    /\ UNCHANGED version

Next == Upgrade \/ Downgrade \/ StartServer \/ Insert

Spec == Init /\ [][Next]_vars

-----------------------------------------------------------------------------
(* Properties.                                                             *)

\* What a table is after its primary key's column was dropped.
WithoutPrimaryKey(table) == [table EXCEPT !.keys = {k \in @ : k.name # "primary key"}]

\* A database at the last revision has the tables that the models declare but
\* for one key, whichever way it came there and whatever servers were started on
\* the way: RenameEventId took the outbox's primary key.
HeadLacksOneKey ==
  version = Latest => db.tables = [Models EXCEPT !.outbox = WithoutPrimaryKey(@)]

\* The tables of each version, by the upgrades alone.
Course ==
  [n \in 0 .. Latest |->
     Ran([tables |-> Legacy, types |-> {}, facts |-> {}, ok |-> TRUE], Ups(0, n))]

\* Version 4 is the last that has evnet_id.
Found(n, t) ==
  IF n = 4 /\ t = "outbox" THEN WithoutPrimaryKey(Course[n].tables[t]) ELSE Course[n].tables[t]

\* A downgrade that goes through leaves every table the way the upgrades to
\* that version made it (env.py and the downgrade functions), but for the
\* primary key of evnet_id, which comes back without it.  An empty database has
\* no version but 0 and 1.
DowngradeLosesOneKey ==
  [][(version' < version /\ version > 1) =>
       \A t \in DOMAIN Course[version'].tables :
         t \in DOMAIN db'.tables /\ db'.tables[t] = Found(version', t)]_vars

Texts == {"overview", "instruction", "speaker"}

\* An upgrade keeps the texts of the recipes and the names of the speakers,
\* though it drops the columns and the table they were in.  (A text is lost here
\* when no row has it any more: rows are not told apart.)
TextsKept ==
  [][version' > version =>
       \A f \in Texts : (\E g \in db.facts : g[3] = f) => \E g \in db'.facts : g[3] = f]_vars

-----------------------------------------------------------------------------
(* What the models say and the revisions do not do.                        *)

\* outbox_model.py:10 declares event_id as the primary key, and the outbox's
\* inserts name it in ON CONFLICT: a database at the last revision has exactly
\* the tables of the models.
HeadMatchesModels == version = Latest => db.tables = Models
=============================================================================
