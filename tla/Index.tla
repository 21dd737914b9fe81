------------------------------- MODULE Index -------------------------------
(***************************************************************************)
(* The index of a node: the tables and the configuration in the database,  *)
(* the copies of the configuration in memory, the admin calls that start   *)
(* and stop the indexing of a model, step by step and with crashes between *)
(* the steps, the rows written when streams change, and a client that      *)
(* reads a query page by page while all of this goes on.                   *)
(***************************************************************************)
EXTENDS IndexQueries

CONSTANTS
    Models, Interfaces,
    ImplementsOf,    \* model |-> the interfaces it implements
    Streams,         \* stream ids, numbered in the order of their text
    ModelOf,         \* stream |-> its model
    Accounts,
    Workloads,       \* what a behaviour has: [admin, fresh, edits, streams, contents, starts, query],
                     \* where streams are edited, contents are records of fields, starts the rows there are at first
    AllowQueriesBeforeHistoricalSync,
    MaxCrashes       \* bound; a workload bounds the edits

ASSUME IndexAssumption ==
    /\ Streams \subseteq Nat \ {0}
    /\ ImplementsOf \in [Models -> SUBSET Interfaces] /\ ModelOf \in [Streams -> Models]
    /\ Models \cap Interfaces = {} /\ MaxCrashes \in Nat

VARIABLES
    inputs, query,   \* the workload, and the query that its client makes
    up,              \* the node is up: "up", "down", or "starting"
    tables,          \* models with a table
    indices,         \* models whose table has all of its indices
    config,          \* config table: model |-> "none", "indexed" or "stopped"
    implements,      \* table of <<interface, model>>
    indexed,         \* memory: indexedModels
    byInterface,     \* memory: interfacesModels
    syncing,         \* models whose history is being synced
    call,            \* the admin call: [op, model, at]
    rows,            \* the rows of all the tables
    state,           \* stream |-> its current state, or NoState
    unwritten,       \* streams with a state that the index has yet to take
    clock, edits, crashes,
    reader,          \* [at, cursor, got]
    steady,          \* history: rows that nobody has touched since the first page
    born,            \* history: streams made while their model was indexed
    lost             \* history: streams whose row a crash kept from being written

admin  == <<tables, indices, config, implements, indexed, byInterface, syncing, call>>
data   == <<rows, state, unwritten, clock, edits, born, lost>>
client == <<query, reader, steady>>
vars   == <<inputs, up, crashes, admin, data, client>>

NoState == [shown |-> FALSE]
Idle == [op |-> "none", model |-> "none", at |-> "idle"]
RowOf(s, created, account, content) ==
    [k \in {"id", "created", "account"} \cup DOMAIN content |->
        CASE k = "id" -> s [] k = "created" -> created [] k = "account" -> account
          [] OTHER -> content[k]]

Init ==
    /\ \E w \in Workloads :
          LET known == IF w.fresh THEN {} ELSE Models
          IN  /\ inputs = [admin |-> w.admin, edits |-> w.edits,
                           streams |-> w.streams, contents |-> w.contents]
              /\ query = w.query /\ rows \in w.starts
              /\ tables = known /\ indices = known /\ indexed = known
              /\ config = [m \in Models |-> IF m \in known THEN "indexed" ELSE "none"]
              /\ implements = { p \in Interfaces \X known : p[1] \in ImplementsOf[p[2]] }
    /\ byInterface = implements
    /\ up = "up"
    /\ syncing = {} /\ call = Idle
    /\ state = [s \in Streams |->
                  IF \E r \in rows : r.id = s
                  THEN [shown |-> TRUE, row |-> CHOOSE r \in rows : r.id = s] ELSE NoState]
    /\ unwritten = {} /\ clock = 1 /\ edits = 0 /\ crashes = 0
    /\ reader = [at |-> "idle", cursor |-> NoCursor, got |-> <<>>]
    /\ steady = {} /\ born = {} /\ lost = {}

-----------------------------------------------------------------------------
(* Admin calls.  One call at a time. *)

\* LocalIndexApi.indexModels: a model that is no longer indexed is refused.
Refused(m) == config[m] = "stopped"

BeginIndexModels(m) ==
    /\ inputs.admin /\ up = "up" /\ call = Idle
    /\ ~Refused(m)
    /\ call' = [op |-> "index", model |-> m, at |-> "tables"]
    /\ UNCHANGED <<inputs, up, crashes, tables, indices, config, implements, indexed,
                   byInterface, syncing, data, client>>

\* initMidTable: a table that exists is left alone, without a look at its indices.
InitMidTable ==
    /\ up # "down" /\ call.op = "index" /\ call.at = "tables"
    /\ tables' = tables \cup {call.model}
    /\ call' = [call EXCEPT !.at = IF call.model \in tables THEN "verify" ELSE "indices"]
    /\ UNCHANGED <<inputs, up, crashes, indices, config, implements, indexed, byInterface,
                   syncing, data, client>>

\* createPostgresIndices, createSqliteIndices.
CreateIndices ==
    /\ up # "down" /\ call.op = "index" /\ call.at = "indices"
    /\ indices' = indices \cup {call.model}
    /\ call' = [call EXCEPT !.at = "verify"]
    /\ UNCHANGED <<inputs, up, crashes, tables, config, implements, indexed, byInterface,
                   syncing, data, client>>

\* Mutant: the tables are verified without their indices.
VerifyTablesOnly ==
    /\ up # "down" /\ call.op = "index" /\ call.at = "verify"
    /\ call' = [call EXCEPT !.at = "mark"]
    /\ UNCHANGED <<inputs, up, crashes, tables, indices, config, implements, indexed,
                   byInterface, syncing, data, client>>

\* verifyTables: a table without one of its indices ends the call.
VerifyTables ==
    /\ up # "down" /\ call.op = "index" /\ call.at = "verify"
    /\ call' = IF call.model \in indices THEN [call EXCEPT !.at = "mark"] ELSE Idle
    /\ UNCHANGED <<inputs, up, crashes, tables, indices, config, implements, indexed,
                   byInterface, syncing, data, client>>

\* The transaction of indexModelsInDatabase; addModelImplements is in memory.
MarkIndexed ==
    /\ up # "down" /\ call.op = "index" /\ call.at = "mark"
    /\ LET m == call.model  pairs == { <<i, m>> : i \in ImplementsOf[m] }
       IN  /\ config' = [config EXCEPT ![m] = "indexed"]
           /\ implements' = implements \cup pairs
           /\ byInterface' = byInterface \cup pairs
    /\ call' = [call EXCEPT !.at = "remember"]
    /\ UNCHANGED <<inputs, up, crashes, tables, indices, indexed, syncing, data, client>>

SyncComplete(m) == AllowQueriesBeforeHistoricalSync \/ m \notin syncing

\* The rest of DatabaseIndexApi.indexModels, then startIndexingModelData, which
\* starts the sync of the model's history.
RememberIndexed ==
    /\ up # "down" /\ call.op = "index" /\ call.at = "remember"
    /\ indexed' = IF SyncComplete(call.model) THEN indexed \cup {call.model} ELSE indexed
    /\ syncing' \in {syncing} \cup (IF SyncComplete(call.model) /\ up = "up"
                                    THEN {syncing \cup {call.model}} ELSE {})
    /\ call' = Idle
    /\ UNCHANGED <<inputs, up, crashes, tables, indices, config, implements, byInterface, data, client>>

SyncEnds(m) ==
    /\ m \in syncing
    /\ syncing' = syncing \ {m}
    /\ UNCHANGED <<inputs, up, crashes, tables, indices, config, implements, indexed,
                   byInterface, call, data, client>>

BeginStopIndexing(m) ==
    /\ inputs.admin /\ up = "up" /\ call = Idle /\ m \in indexed
    /\ call' = [op |-> "stop", model |-> m, at |-> "mark"]
    /\ steady' = { r \in steady : ModelOf[r.id] # m }
    /\ UNCHANGED <<inputs, up, crashes, tables, indices, config, implements, indexed,
                   byInterface, syncing, data, query, reader>>

\* stopIndexingModelsInDatabase.
MarkStopped ==
    /\ up = "up" /\ call.op = "stop" /\ call.at = "mark"
    /\ config' = [config EXCEPT ![call.model] = "stopped"]
    /\ call' = [call EXCEPT !.at = "forget"]
    /\ UNCHANGED <<inputs, up, crashes, tables, indices, implements, indexed, byInterface,
                   syncing, data, client>>

\* The rest of stopIndexingModels.
ForgetStopped ==
    /\ up = "up" /\ call.op = "stop" /\ call.at = "forget"
    /\ indexed' = indexed \ {call.model}
    /\ call' = Idle
    /\ UNCHANGED <<inputs, up, crashes, tables, indices, config, implements, byInterface,
                   syncing, data, client>>

-----------------------------------------------------------------------------
(* Crash and start *)

Crash ==
    /\ inputs.admin /\ up # "down" /\ crashes < MaxCrashes
    /\ up' = "down" /\ crashes' = crashes + 1
    /\ indexed' = {} /\ byInterface' = {} /\ syncing' = {} /\ call' = Idle
    /\ lost' = lost \cup unwritten /\ unwritten' = {}
    /\ UNCHANGED <<inputs, tables, indices, config, implements, rows, state, clock, edits,
                   born, client>>

\* DatabaseIndexApi.init: the configuration is read from the database.
Start ==
    /\ up = "down"
    /\ up' = "starting"
    /\ indexed' = { m \in Models : config[m] = "indexed" }
    /\ byInterface' = implements
    /\ UNCHANGED <<inputs, crashes, tables, indices, config, implements, syncing, call, data, client>>

\* LocalIndexApi.init: every indexed model goes through indexModels again, which
\* makes a table that is missing and verifies one that is there: a table that is
\* not as it should be ends the start.
Started ==
    /\ up = "starting"
    /\ up' = IF tables \cap indexed \subseteq indices THEN "up" ELSE "broken"
    /\ tables' = tables \cup indexed
    /\ indices' = indices \cup (indexed \ tables)
    /\ UNCHANGED <<inputs, crashes, config, implements, indexed, byInterface, syncing, call,
                   data, client>>

-----------------------------------------------------------------------------
(* Streams change, and their rows with them *)

\* A commit is applied: within the stream's lane the state comes first, the row
\* after it.  A stream that is not shown is one whose controller hides it.
Edit(s) ==
    /\ up = "up" /\ edits < inputs.edits /\ s \in inputs.streams /\ s \notin unwritten
    /\ \E content \in inputs.contents, account \in Accounts, shown \in BOOLEAN, later \in 0 .. 1 :
          /\ clock' = clock + later
          /\ state' = [state EXCEPT ![s] =
                         [shown |-> shown, row |-> RowOf(s, clock', account, content)]]
    /\ born' = IF state[s] = NoState /\ ModelOf[s] \in indexed THEN born \cup {s} ELSE born
    /\ unwritten' = unwritten \cup {s} /\ edits' = edits + 1
    /\ UNCHANGED <<inputs, up, crashes, admin, rows, lost, client>>

\* insert ... on conflict merge: all columns but created_at.
Merged(new) ==
    LET old == { r \in rows : r.id = new.id }
    IN  (rows \ old) \cup { IF old = {} THEN new
                            ELSE [new EXCEPT !.created = (CHOOSE r \in old : TRUE).created] }

\* LocalIndexApi.indexStream and DatabaseIndexApi.indexStream.
IndexStream(s) ==
    /\ up = "up" /\ s \in unwritten
    /\ rows' = IF ModelOf[s] \notin indexed THEN rows
               ELSE IF ~state[s].shown THEN { r \in rows : r.id # s }
               ELSE Merged(state[s].row)
    /\ steady' = { r \in steady : r.id # s \/ r \in rows' }
    /\ unwritten' = unwritten \ {s}
    /\ UNCHANGED <<inputs, up, crashes, admin, state, clock, edits, born, lost, query, reader>>

-----------------------------------------------------------------------------
(* A client reads a query *)

\* getQueryModels: an interface stands for the indexed models that implement it;
\* anything else, and an interface nobody implements, is taken for a model.
QueryModels(ids) ==
    UNION { IF \E m \in Models : <<i, m>> \in byInterface
            THEN { m \in indexed : <<i, m>> \in byInterface } ELSE {i} : i \in ids }

\* assertModelQueryable.
Queryable(m) == m \in indexed /\ SyncComplete(m)

QueryRows ==
    { r \in rows : ModelOf[r.id] \in QueryModels(query.models) /\
                   (query.account # "any" => r.account = query.account) }

\* What the client asked for, from the contents of the models and the filter.
Wanted(r) ==
    /\ \E i \in query.models : i = ModelOf[r.id] \/ i \in ImplementsOf[ModelOf[r.id]]
    /\ query.account = "any" \/ r.account = query.account
    /\ Meaning(query.filter, r) = Yes

\* Nobody has asked to stop indexing the model.
Kept(m) == m \in indexed /\ ~(call.op = "stop" /\ call.model = m)

\* DatabaseIndexApi.page; a query that the parser or getQueryModels refuses ends
\* with an error.
ReadPage ==
    /\ up = "up" /\ reader.at \in {"idle", "paging"}
    /\ reader.at = "idle" => query.models # {}
    /\ steady' = IF reader.at = "idle" THEN { r \in rows : Wanted(r) /\ Kept(ModelOf[r.id]) }
                  ELSE steady
    /\ IF ~Accepted(query.filter) \/ \E m \in QueryModels(query.models) : ~Queryable(m)
       THEN reader' = [reader EXCEPT !.at = "error"]
       ELSE LET page == Page(QueryRows, query, reader.cursor)
            IN  reader' = [at     |-> IF page.more THEN "paging" ELSE "done",
                           cursor |-> page.cursor,
                           got    |-> IF query.dir = "backward" THEN page.entries \o reader.got
                                      ELSE reader.got \o page.entries]
    /\ UNCHANGED <<inputs, up, crashes, admin, data, query>>

Next ==
    \/ \E m \in Models : BeginIndexModels(m) \/ BeginStopIndexing(m) \/ SyncEnds(m)
    \/ InitMidTable \/ CreateIndices \/ VerifyTables \/ MarkIndexed \/ RememberIndexed
    \/ MarkStopped \/ ForgetStopped
    \/ Crash \/ Start \/ Started
    \/ \E s \in Streams : Edit(s) \/ IndexStream(s)
    \/ ReadPage

Spec == Init /\ [][Next]_vars

-----------------------------------------------------------------------------
(* Properties *)

\* A node starts again after every crash: whatever the admin call was about when
\* the node crashed, a model that the database says is indexed has its table with
\* every index that the verification at the next start asks for.
StartsAgain == up # "broken"

\* A client that reads all the pages of a query gets every row that stayed as it
\* was from the first page on, and gets it once: rows of the same time, of the same
\* sort value, rows that come, go and change between two pages are no excuse.
\* (Sorting by at most one field, which is never null.)
PagesLoseNothing ==
    reader.at = "done" =>
      \A r \in steady : Cardinality({ i \in DOMAIN reader.got : reader.got[i] = r }) = 1

=============================================================================
