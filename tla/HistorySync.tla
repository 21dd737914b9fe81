---------------------------- MODULE HistorySync ----------------------------
(***************************************************************************)
(* History sync (packages/indexing/src/history-sync), with the listener    *)
(* for blocks it reads from (packages/anchor-listener) and the job queue   *)
(* it leaves its work in (packages/job-queue, over pg-boss): the anchors   *)
(* of an indexed model that are on chain are rebuilt, block by block.      *)
(*                                                                         *)
(* A block is rebuilt when its rebuild jobs are in the queue.  The range   *)
(* of a Full job starts at the default block.  An error of the listener is *)
(* thrown again (sync-api.ts:254-258), which ends the process: Crash.      *)
(***************************************************************************)
EXTENDS Integers, SequencesExt

CONSTANTS
    Model,
    Nameless,        \* '[object Object]', what ModelData.toString() gives
    Confirmations,   \* BLOCK_CONFIRMATIONS
    DefaultStart,    \* defaultStartBlock
    Empty,           \* numbers of blocks without anchors
    Batch,           \* GET_LOGS_BATCH_SIZE
    RetryLimit,      \* retryLimit of a sync job
    MaxHead,         \* bound on the length of the chain, over all settings
    MaxCrashes,
    MaxReorgs,
    MaxFailures,     \* bound on the failures of workers
    Settings         \* what a behaviour is exposed to

(* indexed: models in the index before sync is switched on; users: they    *)
(* start or stop indexing models while the node runs; overlap: a block is  *)
(* handled while another one still is; gap: the chain grows by more than   *)
(* Confirmations + 1, or forks, before the listener has heard of a block;  *)
(* decade: the first number with one digit more; length: how far the chain *)
(* grows.                                                                  *)
Exposures == [indexed : SUBSET Model, users : SUBSET {"start", "stop"},
              crash : BOOLEAN, reorg : BOOLEAN, failure : BOOLEAN,
              overlap : BOOLEAN, gap : BOOLEAN,
              decade : Nat, length : 0..MaxHead]

ASSUME HistorySyncAssumption ==
    /\ {Confirmations, DefaultStart, Batch, RetryLimit} \subseteq Nat \ {0}
    /\ {MaxHead, MaxCrashes, MaxReorgs, MaxFailures} \subseteq Nat
    /\ DefaultStart > Confirmations /\ MaxHead >= DefaultStart + Confirmations
    /\ Empty \subseteq Nat /\ Nameless \notin Model
    /\ Settings \subseteq Exposures

NoBlock == 0
Queue == {"historySyncJob", "continuousSyncJob"}
Historic == {"catchup", "full"}
SyncName == Model \cup {Nameless}      \* what a job can list as its models

VARIABLES
    setting,
    head, chain,     \* [Number -> which of the blocks with this number, 0: none]
    processed,       \* processedBlockNumber, or NoBlock
    indexed,         \* models in the local index
    jobs,            \* sync jobs in the database that are not completed
    rebuilt,         \* <<number, fork, model>> of rebuild jobs ever queued
    mode,            \* "down", "booting" until init() has returned, "running"
    found,           \* what init() has read: latest block, processed block number
    modelsToSync,
    pending,         \* modelsToHistoricSync
    listener,        \* highest block, last block emitted, ranges to load, blocks loaded
    handlers,        \* _handleBlockProofs in progress
    call,            \* [Model -> how far startIndexingModels has come, in this life of the node]
    worker,          \* [Queue -> the job its worker is at]
    followed,        \* history: [Model -> the last number stored while the node synced the model]
    crashes, reorgs, failures

chainVars == <<head, chain, reorgs>>
apiVars == <<indexed, modelsToSync, call>>
listening == <<listener, handlers>>
faultVars == <<setting, crashes, failures>>
vars == <<chainVars, apiVars, listening, faultVars, processed, followed, jobs, rebuilt,
          mode, found, pending, worker>>

-----------------------------------------------------------------------------
(* The loader, createBlockProofsLoaderForRange: the first block, the last  *)
(* one and those with anchors, sorted by their numbers as text.            *)
Before(n, k) ==
    IF (n >= setting.decade) = (k >= setting.decade) THEN n < k ELSE n >= setting.decade

BlockAt(n) == [number |-> n, hash |-> <<n, chain[n]>>, parentHash |-> <<n - 1, chain[n - 1]>>]

Loaded(from, to) == {from, to} \cup ((from..to) \ Empty)
InOrder(numbers) == \A i, k \in DOMAIN numbers : i < k => Before(numbers[i], numbers[k])
LoadRange(from, to) ==
    LET numbers == CHOOSE s \in [1..Cardinality(Loaded(from, to)) -> Loaded(from, to)] : InOrder(s)
    IN [i \in DOMAIN numbers |-> BlockAt(numbers[i])]

NothingRead == [latest |-> NoBlock, processed |-> NoBlock]
NewListener(expected) == [highest |-> NoBlock, last |-> expected, ranges |-> <<>>, blocks |-> <<>>]
Unheard == mode # "down" /\ listener.highest = NoBlock

(* Jobs: _addSyncJob, which leaves out those without models.               *)
QueueFor(job) == IF job.type = "continuous" THEN "continuousSyncJob" ELSE "historySyncJob"
Job(type, from, to, models) == [type |-> type, from |-> from, to |-> to, models |-> models]
AddJob(job) ==
    jobs' = IF job.models = {} THEN jobs
            ELSE Append(jobs, [type |-> job.type, from |-> job.from, current |-> job.from,
                               to |-> job.to, models |-> job.models,
                               state |-> "created", tries |-> 0])

(* _addSyncJob, for Catchup and Full jobs.                                 *)
AddHistoricJob(job) ==
    /\ AddJob(job)
    /\ pending' = [m \in SyncName |-> pending[m] + (IF m \in job.models THEN 1 ELSE 0)]

Idle == [at |-> "idle", next |-> 0, blocks |-> <<>>]
Place(q) == CHOOSE i \in 1..Len(jobs) : jobs[i].state = "active" /\ QueueFor(jobs[i]) = q
JobOf(q) == jobs[Place(q)]
AtWork(q) == worker[q].at \in {"working", "updating"}

-----------------------------------------------------------------------------
Init ==
    /\ setting \in Settings
    /\ head = DefaultStart + Confirmations
    /\ chain = [n \in 0..MaxHead |-> IF n <= head THEN 1 ELSE 0]
    /\ processed = NoBlock
    /\ indexed = setting.indexed
    /\ call = [m \in Model |-> IF m \in indexed THEN "forgotten" ELSE "new"]
    /\ followed = [m \in Model |-> NoBlock]
    /\ jobs = <<>> /\ rebuilt = {}
    /\ mode = "down" /\ found = NothingRead
    /\ modelsToSync = {} /\ pending = [m \in SyncName |-> 0]
    /\ listener = NewListener(<<NoBlock, 0>>) /\ handlers = {}
    /\ worker = [q \in Queue |-> Idle]
    /\ crashes = 0 /\ reorgs = 0 /\ failures = 0

(* The chain: a block is added, or the last d blocks are given up for      *)
(* d + 1 others.                                                           *)
NewBlock ==
    /\ head < setting.length
    /\ Unheard /\ ~setting.gap => head <= found.latest + 2 * Confirmations
    /\ head' = head + 1
    /\ chain' = [chain EXCEPT ![head + 1] = reorgs + 1]
    /\ UNCHANGED <<reorgs, apiVars, listening, faultVars, processed, followed, jobs, rebuilt,
                   mode, found, pending, worker>>

Reorg(d) ==
    /\ setting.reorg /\ reorgs < MaxReorgs /\ head < setting.length
    /\ Unheard => setting.gap
    /\ head' = head + 1
    /\ chain' = [n \in 0..MaxHead |-> IF n \in (head - d + 1)..(head + 1) THEN reorgs + 2 ELSE chain[n]]
    /\ reorgs' = reorgs + 1
    /\ UNCHANGED <<apiVars, listening, faultVars, processed, followed, jobs, rebuilt,
                   mode, found, pending, worker>>

(* _initModelsToSync: indexedModels() answers with objects, and toString() *)
(* has the same text for each of them.                                     *)
InitModelsToSync == modelsToSync' = IF indexed = {} THEN {} ELSE {Nameless}

(* Mutant: jobs that were active are cancelled, and not resumed.           *)
BootCancelling ==
    /\ mode = "down" /\ mode' = "booting"
    /\ found' = [latest |-> head - Confirmations, processed |-> processed]
    /\ InitModelsToSync
    /\ jobs' = SelectSeq(jobs, LAMBDA j : j.state # "active")
    /\ listener' = NewListener(BlockAt(found'.latest).hash)
    /\ UNCHANGED <<chainVars, indexed, call, handlers, faultVars, processed, followed, rebuilt,
                   pending, worker>>

(* init(): the latest confirmed block and the stored state are read, jobs  *)
(* that were active go back to the queue, workers and listener start.      *)
Boot ==
    /\ mode = "down" /\ mode' = "booting"
    /\ found' = [latest |-> head - Confirmations, processed |-> processed]
    /\ InitModelsToSync
    /\ jobs' = [i \in 1..Len(jobs) |->
                   [jobs[i] EXCEPT !.state = IF @ = "active" THEN "created" ELSE @]]
    /\ listener' = NewListener(BlockAt(found'.latest).hash)
    /\ UNCHANGED <<chainVars, indexed, call, handlers, faultVars, processed, followed, rebuilt,
                   pending, worker>>

CatchUp ==
    /\ mode = "booting" /\ mode' = "running"
    /\ IF found.processed = NoBlock
       THEN AddHistoricJob(Job("catchup", DefaultStart, found.latest, modelsToSync))
       ELSE IF found.processed < found.latest
       THEN AddHistoricJob(Job("catchup", found.processed, found.latest, modelsToSync))
       ELSE UNCHANGED <<jobs, pending>>
    /\ UNCHANGED <<chainVars, apiVars, listening, faultVars, processed, followed, rebuilt, found, worker>>

-----------------------------------------------------------------------------
(* The listener.  createContinuousBlocksListener: the first number alone,  *)
(* then all numbers since the highest; lower ones again are ignored.       *)
BlockEvent ==
    /\ mode # "down"
    /\ LET n == head - Confirmations
           first == IF listener.highest = NoBlock THEN n ELSE listener.highest + 1
       IN /\ n > listener.highest
          /\ listener' = [listener EXCEPT !.highest = n, !.ranges = Append(@, <<first, n>>)]
    /\ UNCHANGED <<chainVars, apiVars, handlers, faultVars, processed, followed, jobs, rebuilt,
                   mode, found, pending, worker>>

(* mapLoadBlockProofsForRange and mapLoadBlockForBlockProofs.              *)
LoadBlocks ==
    /\ mode # "down" /\ listener.ranges # <<>> /\ listener.blocks = <<>>
    /\ LET range == Head(listener.ranges)
       IN listener' = [listener EXCEPT !.ranges = Tail(@),
                                       !.blocks = LoadRange(range[1], range[2])]
    /\ UNCHANGED <<chainVars, apiVars, handlers, faultVars, processed, followed, jobs, rebuilt,
                   mode, found, pending, worker>>

JobFor(block, reorganized) ==
    IF reorganized
    THEN Job("reorg", block.number - Confirmations, block.number, modelsToSync)
    ELSE Job("continuous", block.number, block.number, modelsToSync)

MayHandle == handlers = {} \/ setting.overlap

(* Mutant: parents are not compared.                                       *)
EmitUnchecked ==
    /\ mode # "down" /\ listener.blocks # <<>> /\ MayHandle
    /\ LET block == Head(listener.blocks)
       IN /\ listener' = [listener EXCEPT !.blocks = Tail(@), !.last = block.hash]
          /\ handlers' = handlers \cup {[at |-> "adding", number |-> block.number,
                                         job |-> JobFor(block, FALSE)]}
    /\ UNCHANGED <<chainVars, apiVars, faultVars, processed, followed, jobs, rebuilt,
                   mode, found, pending, worker>>

(* mapProcessBlockProofs, and the start of _handleBlockProofs.             *)
Emit ==
    /\ mode # "down" /\ listener.blocks # <<>> /\ MayHandle
    /\ LET block == Head(listener.blocks)
           reorganized == block.parentHash # listener.last
       IN /\ listener' = [listener EXCEPT !.blocks = Tail(@), !.last = block.hash]
          /\ handlers' = handlers \cup {[at |-> "adding", number |-> block.number,
                                         job |-> JobFor(block, reorganized)]}
    /\ UNCHANGED <<chainVars, apiVars, faultVars, processed, followed, jobs, rebuilt,
                   mode, found, pending, worker>>

(* Its two writes to the database, each of which is awaited.               *)
JobIsAdded(h) ==
    /\ h.at = "adding"
    /\ AddJob(h.job)
    /\ handlers' = (handlers \ {h}) \cup {[h EXCEPT !.at = "storing"]}
    /\ UNCHANGED <<chainVars, apiVars, listener, faultVars, processed, followed, rebuilt,
                   mode, found, pending, worker>>

UpdateStoredState(h) ==
    /\ h.at = "storing"
    /\ processed' = h.number
    /\ followed' = [m \in Model |-> IF call[m] = "started" THEN h.number ELSE followed[m]]
    /\ handlers' = handlers \ {h}
    /\ UNCHANGED <<chainVars, apiVars, listener, faultVars, jobs, rebuilt,
                   mode, found, pending, worker>>

-----------------------------------------------------------------------------
(* startIndexingModelData: the model is stored in the index, then it joins *)
(* modelsToSync, then the latest block is asked for and the job is added.  *)
(* A bound: a model that was stopped is not started again.                 *)
IndexModel(m) ==
    /\ mode = "running" /\ "start" \in setting.users /\ call[m] \in {"new", "forgotten"}
    /\ indexed' = indexed \cup {m}
    /\ call' = [call EXCEPT ![m] = "indexed"]
    /\ UNCHANGED <<chainVars, modelsToSync, listening, faultVars, processed, followed, jobs, rebuilt,
                   mode, found, pending, worker>>

TrackModel(m) ==
    /\ mode = "running" /\ call[m] = "indexed"
    /\ modelsToSync' = modelsToSync \cup {m}
    /\ call' = [call EXCEPT ![m] = "tracked"]
    /\ UNCHANGED <<chainVars, indexed, listening, faultVars, processed, followed, jobs, rebuilt,
                   mode, found, pending, worker>>

AddFullJob(m) ==
    /\ mode = "running" /\ call[m] = "tracked"
    /\ AddHistoricJob(Job("full", DefaultStart, head - Confirmations, {m}))
    /\ call' = [call EXCEPT ![m] = "started"]
    /\ followed' = [followed EXCEPT ![m] = processed]
    /\ UNCHANGED <<chainVars, indexed, modelsToSync, listening, faultVars, processed, rebuilt,
                   mode, found, worker>>

StopModel(m) ==
    /\ mode = "running" /\ "stop" \in setting.users /\ call[m] \in {"started", "forgotten"}
    /\ indexed' = indexed \ {m} /\ modelsToSync' = modelsToSync \ {m}
    /\ call' = [call EXCEPT ![m] = "stopped"]
    /\ UNCHANGED <<chainVars, listening, faultVars, processed, followed, jobs, rebuilt,
                   mode, found, pending, worker>>

-----------------------------------------------------------------------------
(* SyncWorker.handler, one job per queue at a time: the oldest, or one     *)
(* before it whose retry is due.                                           *)
Fetch(q) ==
    /\ mode # "down" /\ worker[q].at = "idle"
    /\ \E i \in 1..Len(jobs) :
         /\ QueueFor(jobs[i]) = q /\ jobs[i].state \in {"created", "retry"}
         /\ \A k \in 1..(i - 1) : QueueFor(jobs[k]) = q => jobs[k].state # "created"
         /\ jobs' = [jobs EXCEPT ![i].state = "active"]
         /\ worker' = [worker EXCEPT ![q] =
                [at |-> IF jobs[i].current > jobs[i].to THEN "failing" ELSE "working",
                 next |-> jobs[i].current, blocks |-> <<>>]]
    /\ UNCHANGED <<chainVars, apiVars, listening, faultVars, processed, followed, rebuilt,
                   mode, found, pending>>

(* Ranges are loaded one after the other; that the next one is on its way  *)
(* while blocks are worked at changes no result.                           *)
Load(q) ==
    /\ worker[q].at = "working" /\ worker[q].blocks = <<>> /\ worker[q].next <= JobOf(q).to
    /\ LET last == Min({worker[q].next + Batch - 1, JobOf(q).to})
       IN worker' = [worker EXCEPT ![q].next = last + 1,
                                   ![q].blocks = LoadRange(worker[q].next, last)]
    /\ UNCHANGED <<chainVars, apiVars, listening, faultVars, processed, followed, jobs, rebuilt,
                   mode, found, pending>>

AddRebuildJobs(q) ==
    /\ worker[q].at = "working" /\ worker[q].blocks # <<>>
    /\ LET block == Head(worker[q].blocks)
       IN rebuilt' = IF block.number \in Empty THEN rebuilt
                     ELSE rebuilt \cup {<<block.number, block.hash[2], m>> : m \in JobOf(q).models \cap Model}
    /\ worker' = [worker EXCEPT ![q].at = "updating"]
    /\ UNCHANGED <<chainVars, apiVars, listening, faultVars, processed, followed, jobs,
                   mode, found, pending>>

UpdateJob(q) ==
    /\ worker[q].at = "updating"
    /\ jobs' = [jobs EXCEPT ![Place(q)].current = Head(worker[q].blocks).number + 1]
    /\ worker' = [worker EXCEPT ![q].at = "working", ![q].blocks = Tail(@)]
    /\ UNCHANGED <<chainVars, apiVars, listening, faultVars, processed, followed, rebuilt,
                   mode, found, pending>>

(* syncCompletedForModel                                                   *)
SyncCompleted(job) ==
    pending' = [m \in SyncName |->
        IF m \in job.models /\ job.type \in Historic /\ pending[m] > 0
        THEN pending[m] - 1 ELSE pending[m]]

Finish(q) ==
    /\ worker[q].at = "working" /\ worker[q].blocks = <<>> /\ worker[q].next > JobOf(q).to
    /\ SyncCompleted(JobOf(q))
    /\ worker' = [worker EXCEPT ![q].at = "completing"]
    /\ UNCHANGED <<chainVars, apiVars, listening, faultVars, processed, followed, jobs, rebuilt,
                   mode, found>>

Complete(q) ==
    /\ worker[q].at = "completing"
    /\ jobs' = RemoveAt(jobs, Place(q))
    /\ worker' = [worker EXCEPT ![q] = Idle]
    /\ UNCHANGED <<chainVars, apiVars, listening, faultVars, processed, followed, rebuilt,
                   mode, found, pending>>

(* The handler throws, and pg-boss tries the job again, or gives it up.    *)
JobFails(q) ==
    /\ jobs' = [jobs EXCEPT ![Place(q)] =
                   IF JobOf(q).tries < RetryLimit
                   THEN [JobOf(q) EXCEPT !.state = "retry", !.tries = JobOf(q).tries + 1]
                   ELSE [JobOf(q) EXCEPT !.state = "failed"]]
    /\ worker' = [worker EXCEPT ![q] = Idle]
    /\ UNCHANGED <<chainVars, apiVars, listening, setting, crashes, processed, followed, rebuilt,
                   mode, found, pending>>

(* No block was left to load: lastValueFrom has no last value.             *)
NothingLoaded(q) == worker[q].at = "failing" /\ JobFails(q) /\ UNCHANGED failures

WorkerFails(q) ==
    /\ AtWork(q) /\ setting.failure /\ failures < MaxFailures
    /\ JobFails(q)
    /\ failures' = failures + 1

Crash ==
    /\ mode # "down" /\ setting.crash /\ crashes < MaxCrashes
    /\ mode' = "down" /\ crashes' = crashes + 1
    /\ modelsToSync' = {} /\ pending' = [m \in SyncName |-> 0]
    /\ found' = NothingRead
    /\ listener' = NewListener(<<NoBlock, 0>>) /\ handlers' = {}
    /\ worker' = [q \in Queue |-> Idle]
    /\ call' = [m \in Model |-> IF m \in indexed THEN "forgotten" ELSE call[m]]
    /\ UNCHANGED <<chainVars, indexed, setting, failures, processed, followed, jobs, rebuilt>>

Listen == BlockEvent \/ LoadBlocks \/ Emit
Handle == \E h \in handlers : JobIsAdded(h) \/ UpdateStoredState(h)
Work(q) ==
    \/ Fetch(q) \/ Load(q) \/ AddRebuildJobs(q) \/ UpdateJob(q)
    \/ Finish(q) \/ Complete(q) \/ NothingLoaded(q)
StartSync(m) == TrackModel(m) \/ AddFullJob(m)

Next ==
    \/ NewBlock \/ \E d \in 1..(2 * Confirmations) : Reorg(d)
    \/ Boot \/ CatchUp \/ Listen \/ Handle
    \/ \E m \in Model : IndexModel(m) \/ StartSync(m) \/ StopModel(m)
    \/ \E q \in Queue : Work(q) \/ WorkerFails(q)
    \/ Crash

Spec == Init /\ [][Next]_vars

-----------------------------------------------------------------------------
JobRecord ==
    [type : Historic \cup {"reorg", "continuous"}, from : Int, current : Int,
     to : Nat, models : SUBSET SyncName,
     state : {"created", "active", "retry", "failed"}, tries : 0..RetryLimit]

TypeOK ==
    /\ setting \in Settings
    /\ head \in Nat /\ processed \in Nat /\ found \in [latest : Nat, processed : Nat]
    /\ chain \in [0..MaxHead -> Nat]
    /\ indexed \subseteq Model /\ modelsToSync \subseteq SyncName
    /\ jobs \in Seq(JobRecord)
    /\ rebuilt \subseteq (Nat \X Nat \X Model)
    /\ mode \in {"down", "booting", "running"}
    /\ pending \in [SyncName -> Nat] /\ followed \in [Model -> Nat]
    /\ call \in [Model -> {"new", "forgotten", "indexed", "tracked", "started", "stopped"}]
    /\ mode # "down" => \A q \in Queue :
         (worker[q].at = "idle") = (\A i \in 1..Len(jobs) :
             jobs[i].state = "active" => QueueFor(jobs[i]) # q)

Crosses == setting.decade \in (DefaultStart + 1)..(setting.length - Confirmations)
LeftOver(j, n, m) == m \in j.models /\ n \in j.current..j.to
Queued(n, m) == \E fork \in 1..(MaxReorgs + 1) : <<n, fork, m>> \in rebuilt
Covered(n, m) == Queued(n, m) \/ \E j \in ToSet(jobs) : LeftOver(j, n, m)

(* The stored block number is a promise for the models that the node syncs *)
(* while it stores it: every block up to it has its rebuild jobs or lies   *)
(* in what a stored job still has to do, and keeps it, when the model is   *)
(* stopped, when the node crashes and when it starts again                 *)
(* (sync-api.ts:268-292, 403-432, index.ts:125-145 of the job queue).  A   *)
(* job that was given up keeps its range.  It needs blocks that are        *)
(* handled one at a time and in the order of their numbers: mergeMap does  *)
(* not see to that.                                                        *)
ProcessedIsCovered ==
    ~setting.overlap /\ ~setting.gap /\ ~Crosses =>
        \A m \in Model : \A n \in (DefaultStart..followed[m]) \ Empty : Covered(n, m)

(* What sync-api.test.ts:238-270 expects of a start, claimed here for the  *)
(* models that the node synced before: a job for each model in the index,  *)
(* from the block last processed to the latest.                            *)
StartCatchesUp ==
    mode = "running" =>
        \A m \in Model, n \in (Max({DefaultStart, found.processed})..found.latest) \ Empty :
            call[m] = "forgotten" /\ followed[m] # NoBlock => Covered(n, m)

(* Queries are answered once syncComplete(model) holds                     *)
(* (database-index-api.ts:325-331): no Catchup or Full job has then a      *)
(* block of the model to do.  The counts are not stored: after a restart   *)
(* the jobs of the time before are not counted.                            *)
syncComplete(m) == pending[m] = 0

(* When the node has nothing left to do, every confirmed block of a model  *)
(* whose startIndexingModels returned in this life of the node is rebuilt, *)
(* as the block now is on chain: whatever the listener and the workers     *)
(* skip, repeat or read out of order is made up for by some job.  Claimed  *)
(* for a crash or a fork, not for both.                                    *)
Repairable ==
    ~setting.gap /\ ~(setting.crash /\ setting.reorg) /\ (Crosses => ~setting.failure)
Quiet ==
    /\ mode = "running" /\ handlers = {}
    /\ listener.highest = head - Confirmations /\ listener.ranges = <<>> /\ listener.blocks = <<>>
    /\ \A j \in ToSet(jobs) : j.state = "failed"
QuietIsComplete ==
    Quiet /\ Repairable =>
        \A m \in Model, n \in (DefaultStart..(head - Confirmations)) \ Empty :
            call[m] = "started" => \/ <<n, chain[n], m>> \in rebuilt
                                  \/ \E j \in ToSet(jobs) : LeftOver(j, n, m)
=============================================================================
