------------------------------- MODULE Tables -------------------------------
(***************************************************************************)
(* The tables of the index in the database (packages/indexing/src/         *)
(* tables-manager.ts, migrations/): how they are created and migrated,     *)
(* statement by statement, and verified, when a node starts and when a     *)
(* model is indexed.  The database commits every statement on its own.     *)
(*                                                                         *)
(* A table is the sequence of its columns, as information_schema or        *)
(* sqlite_master report them, the names of its indices and its rows.       *)
(***************************************************************************)
EXTENDS Naturals, Sequences, SequencesExt, FiniteSets

CONSTANTS
    Databases,     \* what there is at first: [db, tables, marked, network]
    TableModels,   \* model |-> [relations, indices], sequences of names and of indices
    Networks,
    MaxStarts      \* bound

ConfigTables == {"ceramic_models", "ceramic_config", "ceramic_model_implements"}
AllTables == ConfigTables \cup DOMAIN TableModels

(* Names of relations: <<"custom", x>> for one that has the prefix already. *)
ColumnPrefixed(name) == IF Head(name) = "custom" THEN name ELSE <<"custom">> \o name
DistinctRelations(m) ==
    LET names == TableModels[m].relations
    IN  \A j, k \in DOMAIN names : ColumnPrefixed(names[j]) = ColumnPrefixed(names[k]) => j = k

(* A table that an earlier release left has columns of different names and *)
(* no index of fields, which releases did not make before the migrations.  *)
ASSUME TablesAssumption ==
    /\ ConfigTables \cap DOMAIN TableModels = {}
    /\ \A m \in DOMAIN TableModels :
           /\ TableModels[m].relations \in Seq(Seq(STRING) \ {<<>>})
           /\ TableModels[m].indices \in Seq(Seq(STRING \X STRING))
    /\ \A d \in Databases :
           /\ d.tables \subseteq AllTables
           /\ d.marked \subseteq d.tables \cap DOMAIN TableModels
           /\ \A m \in d.tables \cap DOMAIN TableModels :
                  DistinctRelations(m) /\ TableModels[m].indices = <<>>

VARIABLES
    database,      \* "postgres" or "sqlite"
    sql,           \* the tables there are: name |-> [columns, indices, rows]
    marked,        \* models that ceramic_models says are indexed
    phase,         \* what the node is doing
    network,       \* what it was started with
    todo,          \* the models that are being indexed
    at,            \* table |-> its next statement
    startups,
    interrupted    \* history: tables whose creation was broken off

sqlVars == <<database, sql, marked, phase, network, todo, at, startups, interrupted>>

-----------------------------------------------------------------------------
(* Columns.  What knex is told of one, and what the database reports of it *)
(* then (YES or NO to nullable): a primary key of Postgres is not null.    *)
Column(name, type, length, nullable, default) ==
    [name |-> <<name>>, type |-> type, length |-> length, nullable |-> nullable, default |-> default]
TextColumn(name, length) == Column(name, "text", length, "NO", "none")
Primary(name, length) ==
    Column(name, "text", length, IF database = "postgres" THEN "NO" ELSE "YES", "none")
Nullable(column) == [column EXCEPT !.nullable = "YES"]
NotNullable(column) == [column EXCEPT !.nullable = "NO"]
Default(column, value) == [column EXCEPT !.default = value]
PlainColumn(name, type) == Column(name, type, 0, "NO", "none")
CreatedAt == Default(PlainColumn("created_at", "date"), "now")
UpdatedAt == Default(PlainColumn("updated_at", "date"), "now")

RelationColumn(name) ==
    [Nullable(TextColumn("custom", 1024)) EXCEPT !.name = ColumnPrefixed(name)]

(* createPostgresModelTable and createSqliteModelTable.                    *)
PostgresModelTable ==
    <<Primary("stream_id", 255), TextColumn("controller_did", 1024),
      PlainColumn("stream_content", "json"), TextColumn("tip", 255),
      Nullable(PlainColumn("last_anchored_at", "date")), Nullable(PlainColumn("first_anchored_at", "date")),
      CreatedAt, UpdatedAt>>
SqliteModelTable ==
    <<NotNullable(Primary("stream_id", 1024)), TextColumn("controller_did", 1024),
      TextColumn("stream_content", 255), TextColumn("tip", 255),
      Nullable(PlainColumn("last_anchored_at", "int")), Nullable(PlainColumn("first_anchored_at", "int")),
      PlainColumn("created_at", "int"), PlainColumn("updated_at", "int")>>
ExtraColumns(m) ==
    [k \in DOMAIN TableModels[m].relations |-> RelationColumn(TableModels[m].relations[k])]
ModelTable(m) ==
    (IF database = "postgres" THEN PostgresModelTable ELSE SqliteModelTable) \o ExtraColumns(m)

(* createConfigTable.                                                      *)
Indices == Nullable(PlainColumn("indices", "json"))
ConfigTable(t) ==
    CASE t = "ceramic_models" ->
            <<NotNullable(Primary("model", 1024)), Default(PlainColumn("is_indexed", "bool"), "true"),
              Default(PlainColumn("enable_historical_sync", "bool"), "false"),
              CreatedAt, UpdatedAt, TextColumn("updated_by", 1024), Indices>>
      [] t = "ceramic_config" ->
            <<TextColumn("option", 1024), TextColumn("value", 1024),
              CreatedAt, UpdatedAt, Nullable(TextColumn("updated_by", 1024))>>
      [] OTHER -> <<TextColumn("interface_id", 1024), TextColumn("implemented_by_id", 1024)>>

-----------------------------------------------------------------------------
(* STRUCTURES: what the columns of each table are expected to be, as <<type*)
(* length, nullable, default>>, in this order.                             *)
Expected(name, info) == Column(name, info[1], info[2], info[3], info[4])
StringInfo(length) == <<"text", length, "NO", "none">>
DateInfo(nullable, default) == <<"date", 0, nullable, default>>
IntegerInfo(nullable) == <<"int", 0, nullable, "none">>

PostgresCommonTable ==
    <<Expected("stream_id", StringInfo(255)), Expected("controller_did", StringInfo(1024)),
      Expected("stream_content", <<"json", 0, "NO", "none">>), Expected("tip", StringInfo(255)),
      Expected("last_anchored_at", DateInfo("YES", "none")),
      Expected("first_anchored_at", DateInfo("YES", "none")),
      Expected("created_at", DateInfo("NO", "now")), Expected("updated_at", DateInfo("NO", "now"))>>
SqliteCommonTable ==
    <<Expected("stream_id", StringInfo(1024)), Expected("controller_did", StringInfo(1024)),
      Expected("stream_content", StringInfo(255)), Expected("tip", StringInfo(255)),
      Expected("last_anchored_at", IntegerInfo("YES")), Expected("first_anchored_at", IntegerInfo("YES")),
      Expected("created_at", IntegerInfo("NO")), Expected("updated_at", IntegerInfo("NO"))>>
CommonTable == IF database = "postgres" THEN PostgresCommonTable ELSE SqliteCommonTable
ConfigTableModelIndex ==
    <<Expected("model", StringInfo(1024)), Expected("is_indexed", <<"bool", 0, "NO", "true">>),
      Expected("enable_historical_sync", <<"bool", 0, "NO", "false">>),
      Expected("created_at", DateInfo("NO", "now")), Expected("updated_at", DateInfo("NO", "now")),
      Expected("updated_by", StringInfo(1024)), Expected("indices", <<"json", 0, "YES", "none">>)>>
ConfigTableStructure ==
    <<Expected("option", StringInfo(1024)), Expected("value", StringInfo(1024)),
      Expected("created_at", DateInfo("NO", "now")), Expected("updated_at", DateInfo("NO", "now")),
      Expected("updated_by", <<"text", 1024, "YES", "none">>)>>
ModelImplementsTable ==
    <<Expected("interface_id", StringInfo(1024)), Expected("implemented_by_id", StringInfo(1024))>>
ConfigStructure(t) ==
    CASE t = "ceramic_models" -> ConfigTableModelIndex
      [] t = "ceramic_config" -> ConfigTableStructure
      [] OTHER -> ModelImplementsTable

(* A relation that is named twice is one key of the expected structure.    *)
RelationKeys(m) ==
    LET names == TableModels[m].relations
        keys[n \in 0 .. Len(names)] ==
            IF n = 0 THEN <<>>
            ELSE IF ColumnPrefixed(names[n]) \in ToSet(keys[n - 1]) THEN keys[n - 1]
            ELSE Append(keys[n - 1], ColumnPrefixed(names[n]))
    IN  keys[Len(names)]
MidStructure(m) ==
    CommonTable \o [k \in DOMAIN RelationKeys(m) |->
                        [Expected("custom", <<"text", 1024, "YES", "none">>) EXCEPT
                            !.name = RelationKeys(m)[k]]]

-----------------------------------------------------------------------------
(* Indices are known by their names.  Those of fields keep the first five  *)
(* letters of each field; a field is <<those, the rest>>.                  *)
DefaultIndices ==
    { <<"stream_id">>, <<"last_anchored_at">>, <<"first_anchored_at">>, <<"created_at">>,
      <<"updated_at">>, <<"last_anchored_at", "created_at">> }
FieldsIndexName(index) == <<"fields">> \o [k \in DOMAIN index |-> index[k][1]]

FieldIndices(m) == {FieldsIndexName(i) : i \in ToSet(TableModels[m].indices)}
MidIndices(m) == DefaultIndices \cup FieldIndices(m)

Now(t, statement) == at' = [at EXCEPT ![t] = statement]
Put(t, table) == sql' = [x \in DOMAIN sql \cup {t} |-> IF x = t THEN table ELSE sql[x]]
Statement(t, statement) == phase \in {"config", "mid"} /\ at[t] = statement

(* A statement that fails ends the start, or the call.                     *)
Failed == phase' = IF phase = "mid" /\ ~(todo \subseteq marked) THEN "refused" ELSE "failed"

-----------------------------------------------------------------------------
(* Config tables, all of them at once.                                     *)
BeginStart ==
    /\ phase = "down" /\ startups < MaxStarts
    /\ phase' = "config" /\ startups' = startups + 1
    /\ network' \in Networks
    /\ at' = [t \in AllTables |-> IF t \in ConfigTables THEN "look" ELSE "done"]
    /\ UNCHANGED <<database, sql, marked, todo, interrupted>>

CreateConfigTable(t) ==
    /\ Statement(t, "look") /\ t \in ConfigTables \ DOMAIN sql
    /\ Put(t, [columns |-> ConfigTable(t), indices |-> {}, rows |-> <<>>])
    /\ Now(t, IF t = "ceramic_config" THEN "rows" ELSE "done")
    /\ UNCHANGED <<database, marked, phase, network, todo, startups, interrupted>>

(* The rows of ceramic_config are inserted one after the other.            *)
InsertConfig ==
    LET t == "ceramic_config"
        options == <<network, "allow-queries-before-historical-sync", "run-historical-sync-worker">>
    IN  /\ Statement(t, "rows")
        /\ Put(t, [sql[t] EXCEPT !.rows = Append(@, options[Len(@) + 1])])
        /\ Now(t, IF Len(sql[t].rows) = 2 THEN "done" ELSE "rows")
        /\ UNCHANGED <<database, marked, phase, network, todo, startups, interrupted>>

(* Mutant: a table that exists is taken as it is.                          *)
TakeConfigTable(t) ==
    /\ Statement(t, "look") /\ t \in ConfigTables \cap DOMAIN sql
    /\ Now(t, "done")
    /\ UNCHANGED <<database, sql, marked, phase, network, todo, startups, interrupted>>

(* migrateConfigTable adds the column `indices`.  A ceramic_config without *)
(* a row, or for another network, ends the start.                          *)
MigrateConfigTable(t) ==
    /\ Statement(t, "look") /\ t \in ConfigTables \cap DOMAIN sql
    /\ IF t = "ceramic_models" /\ \A k \in DOMAIN sql[t].columns : sql[t].columns[k].name # <<"indices">>
       THEN Put(t, [sql[t] EXCEPT !.columns = Append(@, Indices)])
       ELSE UNCHANGED sql
    /\ IF t = "ceramic_config" /\ (sql[t].rows = <<>> \/ Head(sql[t].rows) # network)
       THEN Failed /\ UNCHANGED at
       ELSE Now(t, "done") /\ UNCHANGED phase
    /\ UNCHANGED <<database, marked, network, todo, startups, interrupted>>

(* DatabaseIndexApi.init is over: the models that are indexed are next.    *)
ConfigDone ==
    /\ phase = "config" /\ \A t \in ConfigTables : at[t] = "done"
    /\ phase' = "mid" /\ todo' = marked
    /\ at' = [t \in AllTables |-> IF t \in marked THEN "look" ELSE "done"]
    /\ UNCHANGED <<database, sql, marked, network, startups, interrupted>>

-----------------------------------------------------------------------------
(* Tables of models.                                                       *)
BeginIndexModel(m) ==
    /\ phase \in {"up", "refused"} /\ m \notin marked
    /\ phase' = "mid" /\ todo' = {m}
    /\ at' = [at EXCEPT ![m] = "look"]
    /\ UNCHANGED <<database, sql, marked, network, startups, interrupted>>

Unambiguous(columns) == \A j, k \in DOMAIN columns : columns[j].name = columns[k].name => j = k

CreateModelTable(m) ==
    /\ Statement(m, "look") /\ m \in todo \ DOMAIN sql
    /\ IF Unambiguous(ModelTable(m))
       THEN /\ Put(m, [columns |-> ModelTable(m), indices |-> {}, rows |-> <<>>])
            /\ Now(m, "default indices") /\ UNCHANGED phase
       ELSE Failed /\ Now(m, "done") /\ UNCHANGED sql
    /\ UNCHANGED <<database, marked, network, todo, startups, interrupted>>

CreateDefaultIndices(m) ==
    /\ Statement(m, "default indices")
    /\ Put(m, [sql[m] EXCEPT !.indices = DefaultIndices])
    /\ Now(m, "fields")
    /\ UNCHANGED <<database, marked, phase, network, todo, startups, interrupted>>

(* An index whose name is taken cannot be created.                         *)
CreateFieldIndex(m) ==
    LET wanted == TableModels[m].indices
        done == Cardinality(sql[m].indices \ DefaultIndices)
        name == FieldsIndexName(wanted[done + 1])
    IN  /\ Statement(m, "fields")
        /\ IF done = Len(wanted)
           THEN Now(m, "done") /\ UNCHANGED <<sql, phase, interrupted>>
           ELSE IF name \in sql[m].indices
           THEN /\ Failed /\ Now(m, "done") /\ interrupted' = interrupted \cup {m}
                /\ UNCHANGED sql
           ELSE /\ Put(m, [sql[m] EXCEPT !.indices = @ \cup {name}])
                /\ UNCHANGED <<at, phase, interrupted>>
        /\ UNCHANGED <<database, marked, network, todo, startups>>

(* A table that exists: the columns of relations become nullable.          *)
AlterModelTable(m) ==
    LET names == {ColumnPrefixed(r) : r \in ToSet(TableModels[m].relations)}
        altered(c) == IF c.name \in names THEN RelationColumn(c.name) ELSE c
    IN  /\ Statement(m, "look") /\ m \in todo \cap DOMAIN sql
        /\ Put(m, [sql[m] EXCEPT !.columns = [k \in DOMAIN @ |-> altered(@[k])]])
        /\ Now(m, "done")
        /\ UNCHANGED <<database, marked, phase, network, todo, startups, interrupted>>

(* verifyTables: the config tables, and the tables of these models, if     *)
(* there are any.                                                          *)
ConfigVerified == \A t \in ConfigTables : sql[t].columns = ConfigStructure(t)
\* Mutant: an index of fields is not looked for.
HasDefaultIndices(m) == DefaultIndices \subseteq sql[m].indices

HasMidIndices(m) == MidIndices(m) \subseteq sql[m].indices
MidVerified(m) == sql[m].columns = MidStructure(m) /\ HasMidIndices(m)
Verified == todo = {} \/ (ConfigVerified /\ \A m \in todo : MidVerified(m))

Verify ==
    /\ phase = "mid" /\ \A m \in todo : at[m] = "done"
    /\ IF Verified
       THEN phase' = "up" /\ marked' = marked \cup todo
       ELSE Failed /\ UNCHANGED marked
    /\ UNCHANGED <<database, sql, network, todo, at, startups, interrupted>>

-----------------------------------------------------------------------------
Unfinished(t) == at[t] \in {"rows", "default indices", "fields"}

Ends ==
    /\ phase # "down"
    /\ phase' = "down"
    /\ interrupted' = interrupted \cup {t \in AllTables : Unfinished(t)}
    /\ UNCHANGED <<database, sql, marked, network, todo, at, startups>>

(* The tables as the releases before the migrations made them: without     *)
(* `indices`, with relations that are not null.                            *)
Earlier(t, net) ==
    [columns |-> IF t = "ceramic_models" THEN Front(ConfigTable(t))
                 ELSE IF t \in ConfigTables THEN ConfigTable(t)
                 ELSE [k \in DOMAIN ModelTable(t) |->
                         IF k > 8 THEN NotNullable(ModelTable(t)[k]) ELSE ModelTable(t)[k]],
     indices |-> IF t \in ConfigTables THEN {} ELSE DefaultIndices,
     rows    |-> IF t = "ceramic_config" THEN <<net>> ELSE <<>>]

InitTables ==
    /\ \E d \in Databases :
        /\ database = d.db /\ marked = d.marked /\ network = d.network
        /\ sql = [t \in d.tables |-> Earlier(t, d.network)]
    /\ phase = "down" /\ todo = {}
    /\ at = [t \in AllTables |-> "done"]
    /\ startups = 0 /\ interrupted = {}

NextTables ==
    \/ BeginStart \/ InsertConfig \/ ConfigDone \/ Verify \/ Ends
    \/ \E t \in ConfigTables : CreateConfigTable(t) \/ MigrateConfigTable(t)
    \/ \E m \in DOMAIN TableModels :
        \/ BeginIndexModel(m) \/ CreateModelTable(m) \/ CreateDefaultIndices(m)
        \/ CreateFieldIndex(m) \/ AlterModelTable(m)

SpecTables == InitTables /\ [][NextTables]_sqlVars

-----------------------------------------------------------------------------
(* A start or a call of indexModels fails only on a database of another    *)
(* network, on a table whose creation a crash broke off (the row of the    *)
(* network, or an index, is missing from then on and no later start adds   *)
(* it), or for a model two of whose names are the same to the database: in *)
(* particular the tables that earlier releases left pass once they are     *)
(* migrated, in both databases (TablesManager.verifyTables).               *)
SameNames(m) ==
    \/ ~Unambiguous(ModelTable(m))
    \/ Cardinality(FieldIndices(m)) # Len(TableModels[m].indices)

TablesCanBeUsed ==
    /\ phase = "failed" => \/ interrupted # {}
                           \/ sql["ceramic_config"].rows[1] # network
    /\ phase = "refused" => todo \subseteq interrupted \/ \E m \in todo : SameNames(m)

(* A model that queries are answered for has a table with every index that *)
(* was asked for, whatever crashes and failed calls came before: what a    *)
(* broken-off creation left is not taken for a table.                      *)
ServedTablesAreComplete ==
    phase \in {"up", "refused"} =>
        \A m \in marked :
            /\ sql[m].columns = MidStructure(m)
            /\ DefaultIndices \cup FieldIndices(m) \subseteq sql[m].indices

=============================================================================
