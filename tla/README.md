# TLA+ models of js-ceramic

These modules specify a js-ceramic node: how it decides between two histories of a
stream, how it serialises what happens to one stream, how it starts and shuts down,
how it asks for anchors, verifies them and takes their answers, how it hears of other
nodes' commits, what it keeps in memory and on disk, how it indexes ComposeDB's
documents, and what it tells its clients.  Every definition is a translation of the
code under `src/`; `PROJECT.json` ("map") names the lines each one stands for.

TLC checks the modules on small instances (`MC*.tla`, `MC*.cfg`); TLAPS proves
the theorems of the `*Proofs` modules for every value of the constants.

    tlc -config MCNode_node.cfg MCNode.tla          # any run, see "Runs"
    tlapm NodeProofs.tla                            # any proof module

Contents: 1 Inventory, 2 Modules, 3 Runs, 4 Fairness, 5 Proofs, 6 What the code
does not keep, 7 What is not modelled, 8 Plan.

## 1. Inventory

A *stream* is a chain of commits: a genesis (init event), signed commits (data
events), and anchor commits (time events) that date what precedes them.  A node
holds a `StreamState` (its log and what the log amounts to) of each stream it
uses.  Commits come from users, from other nodes (pubsub or ReCon), from the
anchor service, and from history sync.

| Component (code) | State it keeps | Operations | What is hard | What makes it correct |
|---|---|---|---|---|
| Conflict resolution (`stream-loading/state-manipulator.ts`, `log-syncer.ts`, `anchor-timestamp-extractor.ts`) | none; works on logs | apply a log, pick a log, reset to a commit | pairwise decisions about tips that arrive in any order; timestamps that a reset forgets | all nodes that know the same tips hold the same log |
| Stream loading (`stream-updater.ts`, `stream-loader.ts`, `tip-fetcher.ts`) | none | load, sync, resync, apply a tip, apply a user's commit, state at a CommitID | capabilities that expire while states are held | what was anchored in time stays loadable |
| Execution queues (`execution-queue.ts`, `named-task-queue.ts`, `ancillary/task-queue.ts`) | one lane per stream, a semaphore | run, forStream, close | lanes removed while tasks are added; tasks that await tasks; closing | one task per stream at a time, in order; none lost; close waits |
| Node life (`ceramic.ts`, `repository.ts`, `anchor/processing-loop.ts`, the stores, the topology) | stores open or closed, workers started, abort signal | create, init, close | a start that fails half way; writes and anchors under way while the stores close | what a client was told is durable; close ends |
| Repository (`repository.ts`) | cache of RunningStates, state store | load, applyCommit, handleUpdateFromNetwork, handleAnchorEvent, pin, unpin, updates$ | calls that interleave at every await, eviction, three ways to fill the cache | a stream behaves as one register of conflict resolution |
| Anchor requests (`anchor/ethereum/*`, `anchor-processing-loop.ts`, `anchor-request-store.ts`) | one request per stream on disk, anchor status | request, poll, handle event | lost posts, replaced requests, restarts, answers about an older tip | no request is forgotten; anchors told of are durable |
| Anchors from batch to time (`anchor-utils`, `rebuild-anchor.ts`, `ethereum-anchor-validator.ts`, `in-memory-*`, `anchoring.ts`) | caches of blocks and transactions; an in-memory batch | build a tree, publish, rebuild, verify | two builders of one tree; providers that do not answer, reorganisations, five kinds of configuration | what is rebuilt was published; only what the rules refuse is refused |
| Pubsub and tips (`pubsub/*`, `dispatcher.ts`, `tip-fetcher.ts`) | channel and its jobs, outstanding queries, cache of recent tips, rate limit, keepalive clock | subscribe, resubscribe, query, respond, update, close | late, doubled and misnamed messages; subscriptions that break while they are made | every tip named is tried; late answers are taken; the channel listens again or lets go |
| ReCon client (`recon.ts`, `repository.ts`) | interests, position in the feed, stored cursor | init, poll, handle events, save the cursor | events that fail, restarts in the middle of a batch | the cursor passes nothing over; every event is tried |
| Block store (`dispatcher.ts`) | IPFS or ceramic-one, cache of IPLD records | store, read with retries | blocks cached before they are stored | what was reported as stored is stored |
| Subscriptions (`state-cache.ts`, `subscription-set.ts`, `running-state.ts`) | volatile (LRU) and durable bucket, subscription sets | get, set, endure, free, subscribe, unsubscribe | eviction between lookup and attachment | subscribers get the updates; nothing is durable without them |
| Feed (`store/feed-aggregation-store.ts`, `feed.ts`) | entries on disk, key generator, reader position | put, pull, clean up | keys made before entries are written; restarts | a client that resumes misses nothing |
| Pin store (`store/pin-store.ts`) | pinned commits, stored states, mark of the RunningState | add, rm | overlapping adds and removals, failures between the steps | what is stored is pinned |
| Stream type handlers (`stream-*-handler`) | none; change the state they are given | apply genesis, signed, anchor | changes made before the commit is judged | content follows the log |
| Models and documents (`stream-model-handler`, `stream-model-instance-handler`) | models, documents | create and update, checks of schemas, interfaces, relations, immutable fields | a model is compared with an interface by schema, a document is judged by its own model only | a document keeps what every interface of its model promises |
| Local index (`indexing/src/local-index-api.ts`, `database-index-api.ts`, `tables-manager.ts`, `migrations/`) | database tables, configuration, copies of it in memory | index and stop models, write rows, create, migrate and verify tables | crashes between statements, names that collide, restarts | the node starts again; a served table is complete |
| Index queries (`insertion-order.ts`, `query-filter-*.ts`) | none; cursors are with the client | filter, sort, page forward and backward | rows that come, go and change between pages; ties; NULL | pages lose and repeat no row |
| History sync (`history-sync/*`, `anchor-listener`, `job-queue`) | processed block number and sync jobs on disk; models to sync, counts of jobs in memory | init, catch up, handle a block, start and stop a model, sync jobs | blocks handled side by side, forks, restarts, jobs that are tried again, models that join while blocks come | a block counted as processed is not lost; in the end every block is rebuilt as it is on chain |
| HTTP client and daemon (`http-client/src/*`, `stream-*/src/*`, `ceramic-daemon.ts`, `ceramic.ts`) | views of streams, polls | create, load, update, patch, sync, subscribe, multi query | polls and answers that cross; writers that do not see each other | an accepted update leaves what was asked for; a watched view catches up |
| Ids, commits and states as JSON (`streamid/*`, `common/src/utils/stream-utils.ts`) | none | write and read as bytes, strings, URLs; serialize | two kinds of ids read by three classes; absent and empty fields | what is read is what was written |
| Command line (`cli/src/ceramic-cli-utils.ts`, `daemon-config.ts`, `ceramic-daemon.ts`) | configuration files of the daemon and of the client | start a daemon from file, environment and flags; client commands; set, unset | files written in place, a seed hidden from serialisation, starts that differ from the first | a daemon runs with what it was told; identity is kept |

How they interact.  The Ceramic API calls the Repository.  `load` runs in the
loadingQ's lane of the stream, and registers a RunningState in the cache;
everything that changes a state runs in the executionQ's lane: user commits
(`applyCommit`), tips from the dispatcher (`handleUpdateFromNetwork`), and events
of the anchor service (`handleAnchorEvent`).  Each calls the stream loader or
updater, which fetches the log (dispatcher, IPFS), dates it (anchor validator)
and applies it (state manipulator, handlers).  The new state is emitted by the
RunningState; the pin store, the index, the feed and subscribers follow.  The
anchor service has a store of requests and a loop over it; its events go back to
the Repository.  Tips come to the dispatcher from the pubsub topic, or to the
Repository from ceramic-one's feed.  History sync listens to the chain, leaves
ranges of blocks to workers as jobs, and these leave one rebuild job for each anchor
proof in a block, which rebuilds the anchor commits of the models' streams and hands
them to the Repository.  `Ceramic.create` opens the stores and starts the workers in
an order that `Ceramic.close` undoes in another.

The hazards of each, at the line where they bite, are listed in `PROJECT.json`
("hazards"), with the properties that would catch them.

## 2. Modules

| Module | Models | Uses |
|---|---|---|
| `StreamLog` | logs and the operators on them: fetching, dating, applying, picking, resetting, states at CommitIDs | - |
| `TipSync` | nodes that hold one stream and hear of tips in any order, late or twice; anchors, time, expiry, resync | extends `StreamLog` |
| `Handlers` | the three handlers on whole states (log, content, next), and TipSync's actions with them | extends `StreamLog`, refines `TipSync` |
| `SerialLanes` | abstract: a FIFO queue per stream, one task at a time | - |
| `Lanes` | loadingQ and executionQ: lanes, permits, a task that awaits another, close | refines `SerialLanes` |
| `Node` | start and close of a node around its queues: stores, workers, polling loop, abort signal | extends `Lanes` |
| `Repository` | the calls on one stream between their awaits: cache, store, both queues, eviction; views, which are what `loadAtCommit` does after its load | extends `StreamLog`, refines `StreamRegister` |
| `StreamRegister` | abstract: one register, and whatever conflict resolution judges what is brought to it | - |
| `AnchorRequests` | request store, loop, anchor service (external), status, crash | extends `StreamLog` |
| `Subscriptions` | both buckets of the cache and the subscribers | - |
| `Feed` | writers, store, key generator, a client with a token | - |
| `PinStore` | add and rm on one stream, with the backend | - |
| `Gossip` | incoming channel, keepalives, rate limit, outstanding queries, recent tips | - |
| `ReconFeed` | interests, network check, polling of the feed, cursor | - |
| `Dispatcher` | blocks and their cache; what a node does of the two modules above | extends `Gossip`, `ReconFeed` |
| `IndexQueries` | filters: parser, conversion to SQL conditions, truth in three values; pages: cursors, rows after a cursor, order of rows | - |
| `Index` | admin calls step by step, crashes, rows, a client that reads pages | extends `IndexQueries` |
| `Schemas` | JSON schemas: which values they accept, and the comparison of a model's with an interface's | - |
| `ModelStreams` | models, interfaces and documents, as their handlers validate them | extends `Schemas` |
| `Tables` | the tables of both databases: created, migrated, verified, statement by statement | - |
| `ComposeDB` | composition: models and documents, index, tables | extends `Index`, `ModelStreams`, `Tables` |
| `Client` | documents of the HTTP client, polls, the daemon's routes, multi queries | - |
| `StreamRefs` | stream and commit ids as bytes, strings and URLs | - |
| `Wire` | commits and states as JSON | extends `StreamRefs` |
| `CommandLine` | configuration of daemons and of client commands, start after start | - |
| `Applications` | composition: what applications hold of streams, and the command line | extends `Subscriptions`, `Client`, `Wire`, `CommandLine` |
| `HistorySync` | chain (external), listener, the sync API's handlers between their awaits, one worker per queue, pg-boss (external), crash | - |
| `MerkleAnchors` | trees, publication, rebuilding, verification, on nodes of every configuration | - |
| `ChainSync` | composition: what a node has of the chain | extends `HistorySync`, `MerkleAnchors` |
| `NodeProofs`, `AnchorRequestsProofs`, `TipSyncProofs`, `DispatcherProofs` | theorems | the module they are named for; `NodeProofs` is about `Lanes` as well, `TipSyncProofs` about `StreamLog`, whose lemmas `StreamsProofs` and `AnchorRequestsProofs` take by INSTANCE |
| `StreamsProofs`, `StoresProofs`, `ApplicationsProofs`, `IndexingProofs` | theorems | `Repository` and `Handlers`; `Feed` and `PinStore`; `Subscriptions` and `CommandLine`, through `Applications`; `Tables` and `HistorySync` |
| `MC*` | instances | |

Correspondence to the code.  An action is the code between two awaits of one
handler, or a whole handler where no other call can interleave (TipSync and
Handlers say so at their heads).  A log is a sequence of `[cid, ts]`; signatures,
content (except in Handlers, Client and ModelStreams), metadata and encodings (except
in StreamRefs and Wire) are abstracted.  A commit is a model value; `Prev` gives its
predecessor, `Rank` the order of CIDs as bytes, `AnchorTime` the time of the block of
an anchor, `Expires` when its capability ends, `Invalid` the commits that no validation
accepts.  `Thrown`, `FAILED` and the like are the results of operations that throw.
Pure code - conflict resolution, filters and pages, the comparison of schemas, ids,
trees - is made of operators and recursive functions; the runs compare what they give
with a definition of what is wanted (the truth of a filter, the values a schema
accepts, the id that was written).  Definitions headed "Mutant" are not part of
the models: they are what plausible errors would make of the definition that follows
them, and every property is known to fail when one of them takes its place
(`PROJECT.json`, "mutants").

Composition.  Modules that share state are one behaviour: Node runs Lanes inside the
life of the node, Dispatcher has one node on pubsub or beside ceramic-one, Repository
has both queues around the cache and the store.  `ComposeDB`, `Applications` and
`ChainSync`, and the instances `MCStores` and `MCStreams`, put side by side parts that hand results to each other but do not write
each other's state; a behaviour is then of one part, chosen initially, and their
heads say why nothing is lost by that.

Where something may go wrong in a way the code does not defend against, it is an
initial choice of the behaviour (`faults` in Feed, `setting` in Handlers,
PinStore and HistorySync, `rust`, `indexed`, `evicts` and the calls in Repository, `inputs` in
Gossip, the workload in Index, the scene in Client, `operator` in MerkleAnchors, the
habit in CommandLine, the life in Node), so that one run covers all choices and each
property names the ones it needs.

## 3. Runs

| Run | Instance and bounds | What it shows |
|---|---|---|
| `tips` | 2 nodes; genesis and 7 commits in four histories that part before and after an anchor; a and d expire at 2; clock to 3 | StrongConvergence, CommitIdsStayLoadable, EventualAgreement |
| `tips_tie` | two branches anchored in one block, one of which forks again | StrongConvergence is violated (section 6) |
| `node` | 7 tasks - two writes of a document, the load of it, the model's load that a write awaits, a load of another document and of the same model after it, an anchor - in 2 queues of one permit; lives in which any of the optional workers is off and any step of the start fails; queues on their own | AckedIsDurable, ImplementsSerialLanes, EverythingEnds (unless a load is stranded in a paused lane, every task settles and `close` returns) |
| `node_close` | of these, the life with a write and a query that load one model | NodeStops is violated (section 6) |
| `anchors` | 2 commits of the node, 2 anchors, one commit of another node, requests through the API for g and c, 2 requests at the service, one crash | RequestRemembered, AnsweredAnchorsAreDurable, EveryRequestIsAnswered |
| `streams` | four batches of calls on one stream: 2 writers, an anchor event and 2 loads without eviction; and, with eviction, a writer, a tip and a load that always syncs, a writer, an event and a tip, and a writer, an event and a stream loaded at a CommitID ahead of what the node has; loads that fail; rust and js nodes, indexed or not; and 2 nodes with 3 types and 3 exposures; 8 commits of which one is refused, two of them anchors | UpdatesKept, RunningStateIsARegister, ImplementsRegister; ContentFollowsLog, ImplementsTipSync |
| `stores` | 2 streams, 3 updates, 3 ms, entries stale after 1 ms, 1 crash, at most one fault; 3 callers, 5 calls, log of 3 commits; orderly, failing, and overlapping, indexed or not | UpdatesLieAhead; StoredIsPinned |
| `gossip` | 2 streams, 2 tips, a cache of 2, queries that expire after 3 steps, 1 query a second and 1 that waits, keepalives every 4 and 6 steps, 2 faults; a feed of 4 events read 2 at a time, 2 failures; 3 blocks, a cache of one record, 3 tries | EveryTipIsTried, LateAnswersAreTaken, ListensOrLetsGo; CursorCovered, FeedIsFollowed |
| `index` | 3 documents of 2 models of an interface, 2 crashes; every paged query over id and one field, both ways, pages of 1 and 2; 10 filters over rows with NULLs; 27 schemas, in pairs of an interface's and a model's, with 18 contents; account relations; two starts of PostgreSQL and SQLite databases, new or of an earlier release, with four models and a crash between any two statements | StartsAgain, PagesLoseNothing, DocumentsConform, ImmutableFieldsStay, TablesCanBeUsed, ServedTablesAreComplete |
| `apps` | 3 subscribers of 2 streams, 3 loads, 1 resync, cache of 2; 2 handles, 2 documents with 2 fields, up to 5 commits, of every stream type, and an unpinned stream that is evicted under a multi query; ids of 5 types, 4 CIDs and texts of them; commits and states of all stream types; 5 configuration files, 7 sets of flags, 3 environments (one of which switches the metrics of the file off), 3 starts or client commands, any of them cut off | SubscribersAreServed, DurableIsSubscribed; UpdateMeansWhatItSays, BatchSeesNewest, ViewCatchesUp; ReadAsWritten, SentIsReceived; ConfigurationIsKept |
| `sync` | 1 model; batches of 2 blocks, 1 confirmation, 1 retry, a chain that grows from 3 to 5 blocks, across a boundary of digits or not; one crash, one fork and one failure; six settings; batches of 1, 2, 3 and 5 anchors in trees of depth up to 3, 5 publications, 6 kinds of nodes, 1 reorganisation, 1 restart | ProcessedIsCovered, QuietIsComplete; RebuiltAsPublished, AnchorsAreTimed |
| `sync_restart` | the model is synced, the node crashes and starts again while the chain grows | StartCatchesUp is violated (section 6) |

Why the bounds are enough.  Conflict resolution is pairwise, and compares only
what follows a fork; the forest of `tips` has every relation two branches can
have (anchored or not, earlier or later, longer, same length with a smaller CID,
with a fork above and below an anchor), and a third and fourth branch for
transitivity.  The queues interact through one lane per stream and one permit
count: two tasks of one stream, one of another, and one that is awaited give
every pairing; close meets each of them before, in and after its steps, and a second load
of the awaited task's stream is what a lane needs to be paused with a task in it.  For the
calls on one stream, races are between two calls and a third that makes their damage
visible.  Two requests and one crash are what is needed for an answer to meet a newer
request, and for a restart in the middle.  The feed needs two writers for out-of-order
keys, three updates for one that is overtaken, three milliseconds for one that becomes
stale.  Of queries, one that is answered, one that is repeated and a third entry in
the queue are enough for the queue and the map to part ways; two tips and two streams
give every pairing in the cache of recent tips.  Two batches of the feed, one of them
full, leave one half handled at a restart and one behind it.  A page of one row and
three rows of two times put a tie, a change and a new row on either side of a page's
end.  Schemas are compared keyword by keyword, so that pairs of schemas of each
keyword, and of compounds of two, are what the comparison can tell apart; contents
have a value on each side of each bound.  For history sync, a batch of two and
a range of three blocks give a job that is interrupted between and within
batches, and a fork of two blocks replaces one that was handled and one that was
not; models share nothing but the blocks and the list of models of a job, so
that one that joins, stays or leaves is enough (once it has left, it does not join again).  A tree of five leaves has depth three
and is lopsided; the settings name the pairs of
things that can go wrong together; all of them at once is beyond TLC.  Of the command
line, one start that writes the file, one that is cut off, and one that reads what is
left need three.  States left
out are those in which more of the same is happening.

`CHECK_DEADLOCK FALSE` is set where everything may be done: calls, tasks, updates
and requests are finite in number.

Properties that need a condition state it: `Fresh` (no capability has expired
while nodes hear of commits: those who heard before and after differ by design),
`Shared` and `TipsAreSafe` in Repository (calls share one RunningState; tips that
bypass the loadingQ do not meet a load; a stream that is loaded at a CommitID is not Shared, and a
RunningState that this moved while a call was updating it is `crossed`), `LeftBehind` in Subscriptions (a subscriber
left before it was attached) and `Undisturbed` (nobody resyncs the stream, and one that is
not stored is asked for by one subscriber only), `Exposed` and `Comparable` in Handlers, `Orderly` and `Whole`
in PinStore, the fault in Feed, `evicted` in Client (streams that are not pinned and leave the cache
under a multi query), `again` in Gossip (a stream asked for twice while a
query is outstanding), sorting by at most one field that is never null in Index,
interrupted statements and colliding names in Tables, `Legible` in StreamRefs (ids of
version-0 CIDs are written and not read), answers and configurations in
MerkleAnchors, `prefer-cache` and port 0 in CommandLine (taken for no value; and what
a command was writing when it was cut off is not expected of later ones), and
in HistorySync the setting: `overlap` (blocks handled side by side), `gap` (the chain runs
ahead of the first event), `decade` (numbers that sort as text otherwise than as
numbers); and there, a block is promised to a model only if its number was stored while the
node synced that model (`followed`), which a node that restarts does not do until the
model is started again.  In Node, a client is told only of what its call returned: a call that
throws promises nothing (`threw`); and tasks end, and with them close(), unless a load that
a task awaits is in a lane that was paused (`StrandedLoad`).  What happens outside of these conditions is in
section 6.

## 4. Fairness

* TipSync: `Fairness` is weak fairness of hearing of a tip one has not applied,
  written out.  Pubsub rebroadcasts, ReCon and history sync resume, so that as
  long as there is such a tip some of it arrives.  Nothing is assumed of users,
  anchors or the clock.
* Lanes, Node: weak fairness of the steps the event loop takes by itself - a queued
  task starts when it can, a running one ends, a start or close that has begun goes
  on.  Nothing is assumed of callers.
* AnchorRequests: a write that has begun goes on; the anchor service gets to an
  answer (strong fairness, its batches are periodic); the loop never rests; calls
  that are repeated do not always fail.
* Dispatcher: the jobs of the channel run one after the other (PQueue) and the timer
  of a resubscription fires; beside ceramic-one, the start, the polls and the handling
  of events go on, and a node that stopped is started again.  Faults are bounded in
  number, as in any finite time; nothing is assumed of peers.
* Client: polls go on while a document is observed, and a poll that was sent is
  answered.
* The other modules have no liveness property.

## 5. Proofs

Proved by TLAPS, for every value of the constants that satisfies the modules'
assumptions:

| Theorem | Statement |
|---|---|
| `NodeProofs!TypeCorrect` | `Spec => []TypeOK` |
| `NodeProofs!LanesAreNeverOrphaned` | `Spec => []NoOrphanLane` |
| `NodeProofs!TasksAreSerialised` | `Spec => []MutualExclusion` |
| `NodeProofs!LanesAreSerial` | `Spec => ImplementsSerialLanes` |
| `NodeProofs!NodesAreSerial` | `SpecNode => ImplementsSerialLanes` |
| `NodeProofs!AcknowledgedIsDurable` | `SpecNode => []AckedIsDurable` |
| `AnchorRequestsProofs!RequestsAreRemembered` | `Spec => []RequestRemembered` |
| `AnchorRequestsProofs!AnchorsTypeCorrect` | the init event is valid: `Spec => []TypeOK` |
| `AnchorRequestsProofs!AnswersAreDurable` | nothing is refused: `Spec => []AnsweredAnchorsAreDurable` |
| `TipSyncProofs!TipsTypeCorrect`, `LogsStayGood` | `Spec => []TypeOK`, `Spec => []LogsAreGood` |
| `TipSyncProofs!CommitsStayLoadable` | `Spec => []CommitIdsStayLoadable` |
| `TipSyncProofs!PickIsAsymmetric`, `PickIsTotal`, `PickIsTransitive` | `_pickLogToAccept` is a total order of whole histories |
| `StreamsProofs!RunningStatesAreRegisters` | `Spec => RunningStateIsARegister` |
| `StreamsProofs!NodeIsOneRegister` | `Spec => ImplementsRegister` |
| `DispatcherProofs!TipsAreTried` | `Spec => []EveryTipIsTried` |
| `DispatcherProofs!LateAnswersAreHandled` | `Spec => []LateAnswersAreTaken` |
| `DispatcherProofs!CursorPassesNothing` | `Spec => []CursorCovered` |
| `StoresProofs!FeedTypeCorrect`, `FeedLosesNothing` | `Spec => []TypeOK`, `Spec => []UpdatesLieAhead` |
| `StoresProofs!PinsTypeCorrect`, `StoredStatesArePinned` | `SpecPins => []PinsTypeOK`, `SpecPins => []StoredIsPinned` |
| `ApplicationsProofs!SubscriptionsTypeCorrect`, `SubscribersStayServed`, `NothingIsKeptForNobody` | `Spec => []TypeOK`, `[]SubscribersAreServed`, `[]DurableIsSubscribed` |
| `ApplicationsProofs!ConfigurationStaysKept` | `SpecApplications => []ConfigurationIsKept` |
| `IndexingProofs!TablesAreUsable`, `ServedTablesComplete` | `SpecTables => []TablesCanBeUsed`, `SpecTables => []ServedTablesAreComplete` |
| `IndexingProofs!ProcessedStaysCovered` | `Spec => []ProcessedIsCovered` |
| `TipSyncProofs!NodesConverge` | nothing is refused and nothing ties: `Spec => []StrongConvergence` |
| `StreamsProofs!UpdatesAreKept` | nothing is in dispute: `Spec => []UpdatesKept` |
| `StreamsProofs!ContentIsThatOfTheLog` | `SpecHandlers => []ContentFollowsLog` |
| `StreamsProofs!HandlersImplementTipSync` | `SpecHandlers => ImplementsTipSync` |

Assumptions.  They say what constants are: sets, functions and numbers of the right
kind.  Those that say more: CIDs are hashes, so that a set of commits has one whose
predecessor is outside of it (`ForestAssumption`); the task that fetches an anchor is
of that kind, and tasks are made by lives that have them (`NodeAssumption`); the
genesis of the stream that is used is valid and does not expire, as every load throws
otherwise (`LoadableAssumption`); clocks are not zero (`ClockAssumption`, `FeedAssumption`);
a database that an earlier release left is as that release made it (`TablesAssumption`);
what is typed or in a configuration file has values, and there are seeds for all
starts (`CommandLineAssumption`); the chain is as long as the first start needs
(`HistorySyncAssumption`).
Four theorems have hypotheses of their own.  Those of AnchorRequests: `Genesis \notin Invalid`,
as no stream is held without its init event, and, for AnswersAreDurable, `Flaky = {}`
and `NothingIsRefused`: all commits are valid, none expires, one of them is an init event,
and no anchor is older than those it builds on.  The instance `anchors` satisfies them
(`StreamAssumption`).  NodesConverge: `Invalid = {}` and `Flaky = {}`, as the log to accept is
picked before its commits are validated (section 6), and `NothingTies`: anchors have the same
time only if one builds on the other.  `tips_tie` shows that the property is false without
NothingTies; the run `tips`, whose property it also is, satisfies all three.  UpdatesAreKept:
`NothingInDispute`, that is no invalid commits, no expiry and NothingTies, as in the run `streams`.

Lanes.  Mutual exclusion is not inductive: two tasks of a stream could run
together if one was in a lane that the queue no longer finds.  The invariant
adds that every lane that is not empty is registered under its stream's name
(NoOrphanLane, LanesNamed), that what runs is what the lane has at its head
(ActiveIsOccupant), and that a task is in one place (QueuesSound).  The refinement
of SerialLanes takes one lemma per action: taking a permit begins the task at the
head of its stream's order, the end of a task takes it out, and removing a lane is
a step the abstract queue does not see, as nothing is in it.  That at most `Limit`
tasks execute follows from PermitsAccounted: permits that are free and tasks that hold
one make up the limit.

Node.  Every step of a node is a step of its lanes or leaves them alone (NodeSteps),
so that the theorems about Lanes hold in it, whatever of its start fails.  What a
client was told is durable because a body is over, without a throw, only when it has done
all it does, and what it did is in the stores (BodyInv); a request leaves the store only
for an anchor that was stored by a task which has settled.

Anchor requests.  A saved request is removed only by the loop, after an answer,
and only if the stored entry is still the one that was answered.  RememberedInv
says what the loop knows at each of its steps: the entry it holds was in the
store when it read it, and what it is about to remove has been answered.

An answered anchor is durable because no tip takes an anchor away for a later one
(TipSyncProofs!AnchorsAreKept).  Where a tip's history goes on from the end of the log, all
of it is applied; where the two part, the one that is kept has the earlier first anchor
of the two, and the anchors before the fork are in both.  The commits that win are all
applied only if none is refused, as the winner is picked before it is validated, which is what
NothingIsRefused is for: with an invalid commit or a flaky anchor the property is
false of the code (section 6).  DurableInv says more than the property, so as to be
inductive: one and the same anchor is in memory and in the store, or an earlier one
in each, since either may become the other by a save or by a crash.  The
first anchor of a log is its earliest (FirstIsEarliest).

Logs.  A node holds good logs: they begin with the init event, follow `prev`, have no
commit that is not valid, every anchor has the time of its proof, and every commit before
an anchor has the anchor's time (GoodLog).  Applying what the syncer brings keeps that
(AppliedTipIsGood), on any terms and whichever history wins: applyAnchorTimestampsToLog
dates the commits before the anchors, and a reset applies again a part of the log.  That a
log is what the walk from its tip gives (LogIsItsChain) makes CommitIDs
loadable: what resetStateToCommit fetches is the beginning of the log, with the times that
it had, so that a commit which the log could hold is accepted again, and dating what
is dated changes nothing.  No hypothesis about validity or expiry is needed.

Conflict resolution.  The comparison by `_pickLogToAccept` - anchored first,
anchor time, length up to the anchor, CID of the tip - is lexicographic, hence
asymmetric, total and transitive on whole histories.  What makes convergence
fail in `tips_tie` is that the code compares only what follows a fork, and that
length and tip of a branch change when it forks again.  The recursive function that
follows a log to its genesis (`ChainTo`) is shown to be defined for every forest
(ChainsAreDefined): CommitInduction takes a set of commits in place of an operator, and
pieces of the function on parts of the forest agree wherever they meet (PartsAgree,
PartsExist).  From it, that a log that can be fetched begins with the genesis and that a
load gives a state.

Convergence.  Nodes that heard of the same tips hold the same log because each holds the
best of the tips it heard of (BestAreHeld), and a log is determined by its tip: its times
are those of the next anchors (GoodLog, Undated).  "Best" is an order of commits, `Beats`,
that says of two tips what `_pickLogToAccept` says of their histories from the commit where
they part: an anchor beats none, an earlier next anchor a later one, then length, then CID.
AppliedTipIsDecided shows that a tip that is applied wins exactly if it beats the tip
of the log.  The hard part is that each comparison is made at another fork: that Beats is
asymmetric and transitive needs that an anchor two histories share is not compared, and
that levels which agree do so because of the same anchor.  That is where NothingTies is
used, and where `tips_tie` breaks the argument.

Repository.  RegisterInv gives for each call, at each of its awaits, what it may
rely on: it has the lane it works in, and the state it read before it awaited is
still what its RunningState holds - for a call in the executionQ because only the
holder of that lane changes a RunningState others know of, for a sync in the loadingQ
because nobody else knows of its RunningState yet.  The latter is where tips that do
not wait for the loadingQ would break it: `TipsAreSafe` is part of the property, and a
node that leaves syncing to rust-ceramic always satisfies it.  A view breaks it for the calls
that are applying a commit to the RunningState it moves; ViewsInv has a view refer to what
its load found, RegisterInv leaves those RunningStates out (`crossed`), and what a view gives
to any of them goes on from what it held.  The refinement of
StreamRegister adds what sharing means (SharedInv): there is at most one RunningState,
it is in the cache, and a call that looks anywhere else does so because there is none.

That updates are kept (UpdatesAreKept) is about three logs: the RunningState's, the store's
and the one of the tip that was handled.  KeptInv says that the RunningState is not behind the
tip of the store nor behind any tip that was handled, in the sense of Beats; that it equals
the store when no sync and no update has yet to store what it brought; and that
pinnedCommits are the commits of the store.  The last is what makes `_updateStateIfPinned` right,
which stores only if a commit is not in pinnedCommits: if all are, and the log is not behind
what is stored, then it is what is stored (PartIsAll).  A tip that is not behind is what
conflict resolution leaves alone when it comes again (NotBehindAbsorbs), which is the property.

Handlers.  ContentFollowsLog says nothing of how a state came about, so that the invariant must
hold of whatever is built in between: a state made anew from a tip, the state that is reset
to a fork, each state along a log that is being applied, and what is left when a commit of
it is refused.  StatesFollow has three parts: logs follow `prev` and have the times of their
anchors (GoodLog, with the lemmas of TipSyncProofs), so that a reset fetches what the state
was made of; the content follows the log (FollowsIn, one commit at a time in FollowsOn); and
none of the tips that are offered, nor what they build on, is refused (Clean) - a commit that
is refused reaches only the state it was written to, whose caller throws that state away.  The
last part is where handlers that patch in place differ: exposed to commits that they refuse
they keep what they began, and the invariant is false, while Caip10Link needs no such care
(CommitApplied).

ImplementsTipSync is about the logs alone.  A handler takes one commit after another and writes
each with the time it was given, or with none; StreamLog's ApplyLog takes at once all that it
accepts and dates the log afterwards.  Grown says what a log is after the first m commits, and
that dating it gives TipSync's log (GrownIsSettled, by SettledIs); Passed is the number of
commits that TipSync accepts, and that the handlers accept as many is AppliedTipwise, over
CommitExtends and GenesisExtends for a single commit.  From there it is one case for each branch of
loading, resetting and applying (LoadTipwise, ResetTipwise, TipTipwise), and one step of TipSync
for each step of the handlers (HandlersSimulate).  The invariant is StatesFollow, whose last part
tells which tips have no refused commit on their way, and LogsAreStored: a node hears of tips that are
offered and TipSync of all that are stored, and the commits of a node's log, on which its users
build, are stored with all they build on.  `Comparable` leaves out what TipSync cannot say: loads
of schemas that fail; refused commits that reach other nodes, except with the handler that
changes no log before it has judged; and links whose commits are invalid or expire.  The last
was found by the proof: a commit of a link has no time of its own in the log (section 6), so
that an invalid one in the middle of a log that is fetched leaves others undated that
StreamLog dates by the anchor that was to follow.

Dispatcher.  That a tip is tried once it was named follows from what the cache holds:
TipInv says that every pair in it was tried, which taking an entry out, dropping the
oldest and appending preserve (RemoveAtRange, RememberRange), so that the only tips
not tried again were tried before.  That late answers are taken is about two
containers, a map and a queue, from which an entry of one may be taken for one
of the other: QueryInv says that the queue is in the order of age and that the entry of a
stream that was asked for once is as old as its question, so that what is dequeued
before its time is never the last of such a stream.  That the stored cursor passes
nothing over needs the queue in between: FeedInv says that the batches that wait follow
each other without a gap from the cursor to the position of the next poll, and that
what was handled of the first is behind the cursor; storing the cursor then moves it
to the end of a batch of which everything was tried.  A restart empties the queue and
begins at the cursor.

Feed.  UpdatesLieAhead compares a token with keys on disk; it stays true because keys
are given out in order and what is being written comes after all that was written, found
or sent (KeysInOrder), which overlapping writers of different streams preserve as each
writes at once what key it took; because a reader's token is its client's (ReadsInOrder);
and because the key of an unsent update is not older than the update, so that clean up
spares it (UnsentLieAhead).

Pin store.  StoredIsPinned needs what is yet to happen: an add that has not pinned all
of its log has the rest before it (AddsPinTheirLog), unpins are on their way only after
an rm (UnpinsAreRms), and calls that do not overlap are one at a time (OneCall).

Subscriptions.  Between the lookup of a stream and the attachment of the subscriber
the stream may be evicted, so the invariant is about the subscribers that are on
their way: what one of them found is what memory still holds, or what was
completed and has been replaced by nothing (FindsAreGood); all who hold the stream hold
the same RunningState, and none lives beside it (OneForAll); what has subscribers is
in the durable bucket alone, and what the volatile bucket has, has none
(SubscribedIsDurable).  It holds of one stream at a time, as long as that stream is
undisturbed: what the others do leaves it alone, except that they may evict it
(LeavesAlone).

Command line.  StartsInv follows a start from the file to the node: while a file is whole, what
the node is to be is that file with its paths expanded, at each step the configuration in
memory is that one, or that one with the flags and variables over it, and a file that was being
written when the start was cut off is not whole.  That a configuration which came up comes up
again needs that overriding and expanding paths twice is the same as once.  CommandsInv does
the same for the client's file, where an empty file stands for none.

Tables.  The tables are made and migrated statement by statement, and a node may die
between any two.  TablesInv says for each table which statements are behind it and
which are to come (StatementsInOrder), and that columns, indices and rows are what the
statements behind it make of a table that an earlier release left or that was not there
(ColumnsAreMade, IndicesAreMade, RowsAreMade), except in the tables where a start was
interrupted, which the code never completes (section 6).  That a table which is served
passed the verification follows as it counts indices: those of different names are as many
as were created (PartOfIndices).

History sync.  A block up to the last number that was stored while the node synced a model
is covered for this model: it is rebuilt, or what is left of a job has it.  A job lists the models
that were synced when it was made, which after a restart are none that exists; the invariant
is about those whose call has returned in this life of the node, and what it had given to
the others it keeps, as jobs lose blocks only to the rebuilt ones.  It takes the whole path of a block:
what the listener has heard of and not emitted is still to come, in the order of numbers
(ToCome, InTurn), or is near enough to the first it heard of that a reorg job reaches it
(Skipped); a handler has its job added before it stores the number (PromiseInv); workers
take the blocks of a job in order and have done those before the current one (WorkInv);
and the calls that add models see the number that was stored (CallsInv).  Sorting a batch
is a CHOOSE of an ordered sequence, which is shown to exist (OrderExists).

Only model-checked, and why:

* Liveness, and what holds under fairness: ENABLED is beyond the prover.
* `ImmutableFieldsStay`, `StartsAgain`, `PagesLoseNothing`, `DocumentsConform`,
  `RebuiltAsPublished`, `AnchorsAreTimed`: their modules compute with RECURSIVE operators
  over trees, filters and schemas.
* `StrongConvergence`, `UpdatesKept` in forests with ties, with invalid commits or with
  expiry: `tips_tie` shows how ties break the first; the second fails in the same way, as a log
  that was chosen may lose to a tip that it won against, when a later commit has changed
  its own tip.
* `QuietIsComplete`: it is about all that was ever started, over the whole history of
  jobs that failed and were tried again; the invariant of ProcessedStaysCovered would have to
  be kept for what is no longer in a queue.
* `UpdateMeansWhatItSays`, `BatchSeesNewest`: contents are folded over logs.
* `ReadAsWritten`, `SentIsReceived`: ids and URLs are converted digit by digit, by folds
  over sequences of any length: induction over data.

Induction over data is not out of reach altogether: the library's induction theorems
take operators, but their instances for sets can be stated and proved
(MinOfNaturals, CommitInduction, SetInduction in DispatcherProofs).  `SelectSeq` cannot be
expanded, so that modules with proofs remove entries by `RemoveAt` or filter sets.

## 6. What the code does not keep

Three runs show the code departing from what its comments and tests say:

* `tips_tie` (`state-manipulator.ts:205`): the decision between logs "is
  arbitrary, but we want it to still be deterministic" (203-204).  With anchors
  in the same block it depends on what each log has become, and nodes that apply
  the same tips in different orders keep different logs.
* `node_close` (`execution-queue.ts:72`): `ExecutionQueue.close` is to "Wait till the tasks
  are done, and prohibit adding more tasks" (67-69).  It waits for the tasks of the lanes there
  are when it looks, then pauses all lanes.  A query that loads a model, and a write that
  awaits a load of the same model, may have put their loads in a lane in between: the second
  one never runs, the write never ends, and `executionQ.close()` waits for it.
* `sync_restart` (`indexing/src/history-sync/sync-api.ts:214`): "Load models to sync from the
  DB."  `indexedModels()` gives objects (`local-index-api.ts:158-160`), `toString()` of which
  is `[object Object]`: until a model is indexed again, the jobs of a node that has
  restarted name no model, and rebuild nothing (`rebuild-anchor.ts:122-124`), while the
  processed number advances.  `sync-api.test.ts:238-270` expects the models, of a mock
  that answers with strings.

The models made visible what follows as well; conditions in the properties and choices
in the instances leave these cases out.  Most depend on timing or on a call that
fails; the models say that nothing in the code prevents them.  Paths without a package
are in `packages/core/src`.

Conflict resolution and streams

* The log to accept is picked before its commits are validated: a tip that fails in
  the middle costs the node its own branch (`stream-loading/state-manipulator.ts:245`).
* After a fork the shared part is rebuilt without the timestamps that make it valid, so
  that an expired capability refuses the log that was anchored first (`:258`).
* A content is patched in place before the commit is judged
  (`model-instance-document-handler.ts:197-198`); TileDocuments extend the log first
  (`tile-document-handler.ts:190`); Caip10Links leave the time of a commit out of the log
  (`caip10-link-handler.ts:137`), which has it again once its anchor is applied.
* `UpdatesKept` fails when the RunningState is evicted between a load and its turn
  (`state-management/repository.ts:563`) and when SYNC_ALWAYS meets a write (`:471`); a
  tip during a load leaves two RunningStates (`:636`).  `loadAtCommit` moves or registers the
  RunningState in the CommitID's lane, not the stream's (`:508`): an update that is being
  applied then overwrites what it brought, and after a load that threw there may be two.

Queues and the life of the node

* A parent and a child in one queue with one permit wait for each other
  (`state-management/execution-queue.ts:49`); a closed queue starts tasks of new
  streams (`named-task-queue.ts:103`).
* `Ceramic.close` closes the AnchorRequestStore before the lanes have drained: a write
  under way is stored and applied and then throws, its client is told of an error, and
  no anchor is requested; trying again changes nothing.
* The publisher of node metrics is not stopped by close, and may start after it; the
  handling of a batch of the feed goes on after unsubscribing, and its cursor is saved.
* The feed is handled before the anchor service is initialised.  A handler whose error
  the processing loop does not swallow would end the loop; one that ignores its abort
  goes on after stop.  `LevelKVFactory.open` returns stores that were closed.

Anchors

* An anchor commit that fails validation once is dropped and its request removed
  (`repository.ts:734`); a request made while the answer to the one before is handled
  is no longer polled until a restart (`:715`); a status that changes alone is not stored
  (`store/pin-store.ts:61`).
* A transaction cached with a block that a reorganisation gave up keeps failing, or
  keeps a stale time, until it is evicted; two nodes may then disagree on the time of an
  anchor.  A rebuild job logs streams it could not rebuild and is completed.
* A provider is cached before its chain was checked; a configured endpoint serves every
  chain on a read-only node; history sync on an in-memory network fails the start.
  In-memory anchors are forgotten after 100 later ones.

Subscriptions, feed, pins

* A subscriber that leaves before it is attached stays in the durable bucket
  (`subscription-set.ts:18`); a resync replaces the state under subscribers
  (`repository.ts:481`); two subscribers to an unknown stream get two states (`:1127`).
* A reader of the feed that finds nothing subscribes to `onWrite` afterwards; a write in
  between wakes nobody (`feed-aggregation-store.ts:147`).  Keys are taken before entries are
  written (`:99`), a reader without a token may miss the first update of its millisecond
  (`:140`), and a clock that is set back overwrites entries (`:40`).
* Unpinning is done outside of the lane (`repository.ts:1025`), late unpins race with
  pins (`pin-store.ts:92`), and the pin of a model is added outside its lane (`:75`).

Pubsub and ReCon

* `OutstandingQueries.remove` dequeues the front of the queue, whichever query it is: the
  query of a stream that is asked for again is forgotten when the first one expires, and
  one of another stream may not expire at all.  Keepalives exceed
  the limit of a day by up to one interval between checks.
* A failing write of the cursor ends the process; blocks are cached although their
  import fails, and are read from there until they are evicted; closing the dispatcher does
  not wait until the topic is let go.
* A handler that IPFS fails to let go of is warned about once (`pubsub/incoming-channel.ts:41-45`)
  and may stay registered, after a resubscription beside the new one (`strays` in Gossip): its
  messages go to a subscriber that has ended.

Index and ComposeDB

* `notIn` is converted like `in` (`query-filter-converter.ts`); with several sort keys
  the conditions of a cursor are joined with AND and rows are lost; NULL sort values
  are dropped from cursors; ties are not reversed when reading backward; an empty `or`
  is true.
* A crash between the creation of the configuration table and its row with the network
  (`1-create-model-table.ts:264`) fails every later start; one between a model's table
  and its indices (`tables-manager.ts:375-403`) fails the verification of that model for
  good; one between the state and the row leaves the row stale, and one between
  `indexModels` and `startModelSync` leaves the model unsynced.  `indexModels` writes the
  database before it refuses because of a running sync.
* Names of indices keep five letters of each field and collide; relations `x` and
  `custom_x` collide; names of more than 63 letters are cut by PostgreSQL while the
  verification expects 64; indexing again with other indices does not create them.
* Of interfaces: an `anyOf` is accepted when any pair matches, `oneOf` pairs may coincide,
  keywords beside compounds, enums of numbers, `multipleOf`, `uniqueItems` and `format` are
  not compared, recursive references overflow, `implements` may name a model that is no
  interface.  Immutability is judged by the first segment of a path.

Clients, ids, JSON

* A poll that fails ends polling until the last observer leaves
  (`ceramic-http-client.ts:63`); a poll that is answered late overwrites a newer view until
  the next; a multi query whose stream is not pinned and is evicted before its result is
  synced answers with the stream's genesis (`ceramic.ts:1040`, `repository.ts:284-289`);
  `TileDocument.patch` throws for documents that are not deterministic; clients'
  streams at a CommitID are not read-only.
* Ids of version-0 CIDs are written and not read back; bytes after a commit are
  ignored; the pattern of URLs is not anchored.
* An empty `unique` comes back as an empty string, and a TileDocument's genesis with a
  string there cannot be serialised when it is not signed.

Command line

* `sync-override: prefer-cache` overrides nothing: its number is 0, which is dropped as
  no option (`ceramic.ts:422`), while `cli/src/daemon-config.ts:319` says "If set, overrides
  the 'sync' flag".  Port 0 becomes 7007.
* Configuration files are written in place.  A daemon's start that is cut off leaves a
  file that every later start refuses; a client command takes an empty file for none and
  draws a new identity (`cli/src/ceramic-cli-utils.ts:674`), and two at once overwrite each
  other.
* The environment can switch off the metrics exporter that a file asks for, but no flag can
  switch it on: `cli/src/bin/ceramic.ts` does not declare the one that
  `ceramic-cli-utils.ts` reads.
* A directory of the state store that comes without its mode is ignored.  A port out of
  range is refused after the node was made, which is not closed.

History sync

* `ProcessedIsCovered` fails when blocks are handled side by side (`sync-api.ts:253`,
  mergeMap), when the chain runs ahead of the first event, and when numbers that sort as text
  otherwise than as numbers are in one batch (`loader.ts:154`); `QuietIsComplete` when the
  chain runs ahead, and when numbers sort as text and a worker fails.  The counts of jobs, and with them whether a sync is
  complete, do not survive a restart (`sync-api.ts:464`).  The property also leaves out a
  crash with a fork: both together, in a chain of four blocks, are more than the run has time for.

## 7. What is not modelled

* External, modelled from its use: the anchor service and the chain, pg-boss, LevelDB,
  PostgreSQL and SQLite, PQueue and the semaphore, the LRU cache, IPFS, ceramic-one, wall
  clock, JSON schema validation (by a definition of its own in `Schemas`).
* Access control and requests by DIDs: the admin API's codes, signed requests to the anchor
  service, verification of signatures, capabilities beyond their time of expiry.  Who may
  write is an input (`Invalid`, `Refused`).
* Counters of failed contacts with the anchor service; node status; the status log of
  history sync; metrics and logs.
* Starting processes of IPFS and connecting its peers; remote pinning backends; wallets;
  of the daemon, its health checks, the routes of node status and the settings of history
  sync, which are passed on as they are.
* Encodings other than ids, commits and states (CARs, messages of pubsub, codecs).
* `MerkleTree.getProof` and `verifyProof`, `createAncestorBlocksProofsLoader`: nothing in
  the node calls them.
* Crashes between the write of a commit and the request for its anchor, expiry of
  capabilities in a fork, and invalid tips: the code keeps no promise there (section 6), so
  that no property is checked.
* Recovery of the remaining stores: PinStore, Feed, AnchorRequests, HistorySync, Index,
  Tables and ReconFeed crash each by itself, Node closes in order and does not crash.

## 8. Plan

1. Done: the modules of section 2; proofs of Lanes, Node, AnchorRequests, Repository,
   TipSync, Handlers, Dispatcher, Feed, PinStore, Subscriptions, CommandLine, Tables and HistorySync.
2. Proofs next: QuietIsComplete; ReadAsWritten and SentIsReceived, type by type.
3. Models next: the ReconFeed inside Repository, so that events race with calls;
   crashes of Node between the stores; a second stream in Repository, for the cache's
   eviction as an action of it; an in-memory anchor service's queue.
