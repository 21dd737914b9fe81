----------------------------- MODULE Repository -----------------------------
(***************************************************************************)
(* Repository (packages/core/src/state-management/repository.ts): calls    *)
(* that load, sync, update and anchor one stream of one node, all at once. *)
(* Each call is cut where it awaits.  loadingQ and executionQ give the     *)
(* stream one lane each (Lanes); a call waits for its lane by being        *)
(* disabled, so the order of a lane's waiters is any order.                *)
(*                                                                         *)
(* RunningState instances are the objects of `heap`: the cache and every   *)
(* call in progress refer to one, and not always to the same one.  A query *)
(* to the network brings at most one tip.                                  *)
(*                                                                         *)
(* A view is loadAtCommit: a call that loads the stream, and then steps in *)
(* the executionQ's lane of the CommitID, not of the stream, that may move *)
(* the RunningState which the call has loaded.                             *)
(***************************************************************************)
EXTENDS StreamLog

CONSTANTS
    Call, NoCall,
    Kind,        \* [Call -> {"write", "tip", "event", "prefer", "never", "always"}]
    Arg,         \* [Call -> the commit it brings]
    Net,         \* tips the network may answer with
    View,        \* streams that are loaded at a CommitID,
    At,          \* [View -> the commit]
    Loader,      \* [View -> the call that is its load()]
    Batches      \* sets of calls and views that are made together

ASSUME CallsAssumption ==
    /\ NoCall \notin Call
    /\ Kind \in [Call -> {"write", "tip", "event", "prefer", "never", "always"}]
    /\ \A c \in Call : Kind[c] \in {"write", "tip", "event"} => Arg[c] \in Commit
    /\ At \in [View -> Commit]
    /\ Loader \in [View -> {c \in Call : Kind[c] \in {"prefer", "never", "always"}}]
    /\ Batches \subseteq [calls : SUBSET Call, views : SUBSET View, evict : BOOLEAN]
    /\ Net \subseteq Commit

(* The stream can be loaded; if its init event is refused, every load      *)
(* throws and there is never a RunningState of it.                         *)
ASSUME LoadableAssumption == Genesis \notin Invalid /\ Expires[Genesis] = 0

VARIABLES
    rust,        \* useRustCeramic: the node never syncs by itself
    indexed,     \* the stream belongs to an indexed model
    evicts,      \* other streams may push the stream out of the cache
    heap,        \* RunningStates: their logs and pinnedCommits
    cache,       \* index of the one in the StateCache, or 0
    store,       \* log in the StreamStateStore, or <<>>
    synced,      \* the stream is in syncedPinnedStreams
    loading,     \* the call that has the loadingQ lane, or NoCall
    executing,   \* the call that has the executionQ lane, or NoCall
    pc,
    ref,         \* [Call -> index of its RunningState, or 0]
    base,        \* [Call -> the log it read before it awaited]
    phase,          \* [View -> how far it is]
    read,        \* [View -> the log it read before it awaited]
    kept,        \* [View -> index of the RunningState it gave its state, or 0]
    crossed      \* history: RunningStates that a view gave a longer log while
                 \* a call that had read the one before was applying a commit

settings == <<rust, indexed, evicts>>
lanes == <<loading, executing>>
calls == <<pc, ref, base>>
views == <<phase, read, kept, crossed>>
vars == <<settings, heap, cache, store, synced, lanes, calls, views>>

Now == 1   \* no capability expires here
Fresh == Len(heap) + 1
Log(c) == heap[ref[c]].log

(* Loads without their own option use PREFER_CACHE.                        *)
Option(c) == IF Kind[c] \in {"never", "always"} THEN Kind[c] ELSE "prefer"
Brings(c) == Kind[c] \in {"write", "tip", "event"}

(* Where a call goes on when its load has ended.                           *)
AfterLoad(c) == IF Brings(c) THEN "apply" ELSE "done"

(* Where it begins: a tip that is not in memory or store is "unknown".     *)
BeforeLoad(c) == IF Kind[c] = "tip" THEN "unknown" ELSE "start"

Step(c, from, to) == pc[c] = from /\ pc' = [pc EXCEPT ![c] = to]

(* _registerRunningState of a new RunningState, and one made by call c.    *)
RegisterNew(log, pinned) ==
    /\ heap' = Append(heap, [log |-> log, pinned |-> IF pinned THEN CidsOf(log) ELSE {}])
    /\ cache' = Fresh

Register(c, log, pinned) ==
    /\ RegisterNew(log, pinned)
    /\ ref' = [ref EXCEPT ![c] = Fresh]

(* _updateStateIfPinned of RunningState r.                                 *)
UpdateIfPinned(r) ==
    IF (store # <<>> \/ indexed) /\ ~(CidsOf(heap[r].log) \subseteq heap[r].pinned)
    THEN /\ store' = heap[r].log
         /\ heap' = [heap EXCEPT ![r].pinned = CidsOf(heap[r].log)]
    ELSE UNCHANGED <<store, heap>>

-----------------------------------------------------------------------------
Init ==
    /\ rust \in BOOLEAN /\ indexed \in BOOLEAN
    /\ heap = <<>> /\ cache = 0
    /\ store \in {<<>>, LoadStateFromTip(Genesis, TimeEvents, FALSE, Now)}   \* pinned, or not
    /\ synced = FALSE
    /\ loading = NoCall /\ executing = NoCall
    /\ \E b \in Batches :
        /\ evicts = b.evict
        /\ pc = [c \in Call |-> IF c \in b.calls THEN "start" ELSE "unused"]
        /\ phase = [v \in View |-> IF v \in b.views THEN "loading" ELSE "unused"]
    /\ ref = [c \in Call |-> 0]
    /\ base = [c \in Call |-> <<>>]
    /\ read = [v \in View |-> <<>>]
    /\ kept = [v \in View |-> 0]
    /\ crossed = {}

-----------------------------------------------------------------------------
(* load and fromMemoryOrStore, in the loadingQ.                            *)

BeginLoad(c) ==
    /\ loading = NoCall
    /\ loading' = c
    /\ Step(c, BeforeLoad(c), "looking")
    /\ UNCHANGED <<settings, heap, cache, store, synced, executing, ref, base>>

(* The lane is free again when the load has its RunningState.              *)
EndLoad(c, from, to) ==
    /\ Step(c, from, to)
    /\ loading' = NoCall

FindInCache(c) ==
    /\ cache # 0
    /\ ref' = [ref EXCEPT ![c] = cache]
    /\ \/ /\ Kind[c] = "event"
          /\ EndLoad(c, "looking", "apply")
          /\ UNCHANGED base
       \/ /\ Kind[c] # "event" /\ (rust \/ Option(c) # "always")
          /\ EndLoad(c, "looking", AfterLoad(c))
          /\ UNCHANGED base
       \/ /\ Kind[c] # "event" /\ ~rust /\ Option(c) = "always"
          /\ Step(c, "looking", "resyncing")
          /\ base' = [base EXCEPT ![c] = heap[cache].log]
          /\ UNCHANGED loading
    /\ UNCHANGED <<settings, heap, cache, store, synced, executing>>

(* Not in the cache: the state store is asked, and answers later.          *)
AskStore(c) ==
    /\ cache = 0
    /\ Step(c, "looking", "reading")
    /\ UNCHANGED <<settings, heap, cache, store, synced, lanes, ref, base>>

FindInStore(c) ==
    /\ store # <<>>
    /\ Register(c, store, TRUE)
    /\ \/ /\ Kind[c] = "event"
          /\ EndLoad(c, "reading", "apply")
          /\ UNCHANGED base
       \/ /\ Kind[c] # "event"
          /\ rust \/ (Option(c) = "prefer" /\ synced)
          /\ EndLoad(c, "reading", AfterLoad(c))
          /\ UNCHANGED base
       \/ /\ Kind[c] # "event" /\ ~rust
          /\ Option(c) = "never"
          /\ EndLoad(c, "reading", IF synced THEN AfterLoad(c) ELSE "updating")
          /\ UNCHANGED base
       \/ /\ Kind[c] # "event" /\ ~rust
          /\ Option(c) = "always" \/ (Option(c) = "prefer" /\ ~synced)
          /\ Step(c, "reading", IF Option(c) = "always" THEN "resyncing" ELSE "syncing")
          /\ base' = [base EXCEPT ![c] = store]
          /\ UNCHANGED loading
    /\ UNCHANGED <<settings, store, synced, executing>>

FindNowhere(c) ==
    /\ store = <<>>
    /\ \/ /\ Kind[c] = "event"
          /\ EndLoad(c, "reading", "ignored")
       \/ /\ Kind[c] # "event"
          /\ Step(c, "reading", IF rust \/ Option(c) = "never" THEN "creating" ELSE "fetching")
          /\ UNCHANGED loading
    /\ UNCHANGED <<settings, heap, cache, store, synced, executing, ref, base>>

(* syncStream: the state read before the query is replaced after it.       *)
Sync(c, tips) ==
    LET log == ApplyTipFromNetwork(base[c], CHOOSE t \in tips : TRUE, TimeEvents, Now) IN
    /\ EndLoad(c, "syncing", "updating")
    /\ heap' = [heap EXCEPT ![ref[c]].log = IF tips = {} \/ log = Thrown THEN base[c] ELSE log]
    /\ UNCHANGED <<settings, cache, store, synced, executing, ref, base>>

(* resyncStream: a new state, from the tip that was known and the network. *)
Resync(c, tips) ==
    LET known == LoadStateFromTip(Tip(base[c]), TimeEvents, FALSE, Now) IN
    /\ EndLoad(c, "resyncing", "updating")
    /\ Register(c, IF tips = {} THEN known
                   ELSE ApplyTipFromNetwork(known, CHOOSE t \in tips : TRUE, TimeEvents, Now), FALSE)
    /\ UNCHANGED <<settings, store, synced, executing, base>>

(* loadStream: a stream the node has never seen.                           *)
Fetch(c, tips) ==
    /\ EndLoad(c, "fetching", "updating")
    /\ Register(c, LoadStateFromTip(IF tips = {} THEN Genesis ELSE CHOOSE t \in tips : TRUE,
                                    TimeEvents, FALSE, Now), FALSE)
    /\ UNCHANGED <<settings, store, synced, executing, base>>

LoadGenesis(c) ==
    /\ EndLoad(c, "creating", IF rust THEN AfterLoad(c) ELSE "updating")
    /\ Register(c, LoadStateFromTip(Genesis, TimeEvents, FALSE, Now), FALSE)
    /\ UNCHANGED <<settings, store, synced, executing, base>>

(* The tip, or the init event, cannot be fetched: the load throws.         *)
LoadFails(c) ==
    /\ \E from \in {"resyncing", "fetching", "creating"} : EndLoad(c, from, "failed")
    /\ UNCHANGED <<settings, heap, cache, store, synced, executing, ref, base>>

(* _updateStateIfPinned_safe after the lane was left, and markPinnedAnd-   *)
(* Synced unless the load did not sync.                                    *)
UpdateLoaded(c) ==
    /\ executing = NoCall
    /\ Step(c, "updating", AfterLoad(c))
    /\ UpdateIfPinned(ref[c])
    /\ synced' = (synced \/ (Option(c) # "never" /\ heap'[ref[c]].pinned # {}))
    /\ UNCHANGED <<settings, cache, lanes, ref, base>>

-----------------------------------------------------------------------------
(* handleUpdateFromNetwork: fromMemoryOrStore_UNSAFE, outside the loadingQ.*)

PeekInCache(c) ==
    /\ Kind[c] = "tip"
    /\ cache # 0
    /\ Step(c, "start", "apply")
    /\ ref' = [ref EXCEPT ![c] = cache]
    /\ UNCHANGED <<settings, heap, cache, store, synced, lanes, base>>

PeekAsksStore(c) ==
    /\ Kind[c] = "tip"
    /\ cache = 0
    /\ Step(c, "start", "peeking")
    /\ UNCHANGED <<settings, heap, cache, store, synced, lanes, ref, base>>

PeekInStore(c) ==
    /\ Step(c, "peeking", "apply")
    /\ store # <<>>
    /\ Register(c, store, TRUE)
    /\ UNCHANGED <<settings, store, synced, lanes, base>>

(* Nothing to do, unless the stream is indexed: then it is loaded.         *)
PeekNowhere(c) ==
    /\ Step(c, "peeking", IF indexed THEN "unknown" ELSE "ignored")
    /\ store = <<>>
    /\ UNCHANGED <<settings, heap, cache, store, synced, lanes, ref, base>>

-----------------------------------------------------------------------------
(* applyCommit and _handleTip, in the executionQ.                          *)

(* Mutant: updates of the stream do not wait for each other.               *)
BeginApplyAnytime(c) ==
    /\ Step(c, "apply", "applying")
    /\ base' = [base EXCEPT ![c] = Log(c)]
    /\ UNCHANGED <<settings, executing, heap, cache, store, synced, loading, ref>>

BeginApply(c) ==
    /\ executing = NoCall
    /\ executing' = c
    /\ Step(c, "apply", "applying")
    /\ base' = [base EXCEPT ![c] = Log(c)]
    /\ UNCHANGED <<settings, heap, cache, store, synced, loading, ref>>

Applied(c) ==
    IF Kind[c] = "write" THEN ApplyCommitFromUser(base[c], Arg[c], TimeEvents, Now)
    ELSE ApplyTipFromNetwork(base[c], Arg[c], TimeEvents, Now)

(* A user's commit that the state already holds.                           *)
NothingChanged(c) == Kind[c] = "write" /\ Tip(Applied(c)) = Tip(base[c])

(* The new state is emitted; a call that throws leaves the queue.          *)
EndApply(c) ==
    /\ \/ /\ Applied(c) # Thrown /\ ~NothingChanged(c)
          /\ Step(c, "applying", "storing")
          /\ heap' = [heap EXCEPT ![ref[c]].log = Applied(c)]
          /\ UNCHANGED executing
       \/ /\ Applied(c) # Thrown /\ NothingChanged(c)
          /\ Step(c, "applying", "done")
          /\ executing' = NoCall
          /\ UNCHANGED heap
       \/ /\ Applied(c) = Thrown
          /\ Step(c, "applying", "failed")
          /\ executing' = NoCall
          /\ UNCHANGED heap
    /\ UNCHANGED <<settings, cache, store, synced, loading, ref, base>>

(* Mutant: the state is not pinned again.                                  *)
ForgetToStore(c) ==
    /\ Step(c, "storing", "done")
    /\ executing' = NoCall
    /\ UNCHANGED <<settings, heap, store, cache, synced, loading, ref, base>>

Store(c) ==
    /\ Step(c, "storing", "done")
    /\ UpdateIfPinned(ref[c])
    /\ executing' = NoCall
    /\ UNCHANGED <<settings, cache, synced, loading, ref, base>>

-----------------------------------------------------------------------------
(* loadAtCommit, after its load().                                         *)

(* existingState$, or 0 if the load threw.                                 *)
Existing(v) == IF pc[Loader[v]] = "done" THEN ref[Loader[v]] ELSE 0

(* The lane is that of the CommitID.                                       *)
BeginView(v) ==
    /\ phase[v] = "loading" /\ pc[Loader[v]] \in {"done", "failed"}
    /\ \A u \in View : At[u] = At[v] => phase[u] \notin {"viewing", "keeping"}
    /\ phase' = [phase EXCEPT ![v] = "viewing"]
    /\ read' = [read EXCEPT ![v] = IF Existing(v) # 0 THEN heap[Existing(v)].log ELSE <<>>]
    /\ UNCHANGED <<settings, heap, cache, store, synced, lanes, calls, kept, crossed>>

StateAtCommit(v) ==
    IF Existing(v) # 0 THEN StateAtCommitId(read[v], At[v], TimeEvents, Now)
    ELSE LoadStateFromTip(At[v], TimeEvents, TRUE, Now)

(* isStateSupersetOf, which also looks at the anchor status if both logs   *)
(* have the same commits: it may then say no.                              *)
GoesOn(new, log) ==
    Len(log) <= Len(new) /\ \A i \in DOMAIN log : new[i].cid = log[i].cid

(* The RunningState, as it is now, gets a state that was made of what it   *)
(* was; or the state becomes a new RunningState.                           *)
KeepView(v) ==
    LET new == StateAtCommit(v)
        r == IF Existing(v) # 0 THEN Existing(v) ELSE Fresh IN
    /\ phase[v] = "viewing"
    /\ new # Thrown /\ Usable(new, Now)
    /\ \/ Existing(v) = 0 /\ RegisterNew(new, FALSE) /\ UNCHANGED crossed
       \/ /\ Existing(v) # 0 /\ GoesOn(new, heap[r].log)
          /\ heap' = [heap EXCEPT ![r].log = new]
          /\ crossed' = crossed \cup
                {i \in {r} : new # heap[r].log /\ \E c \in Call : pc[c] = "applying" /\ ref[c] = r}
          /\ UNCHANGED cache
    /\ phase' = [phase EXCEPT ![v] = "keeping"]
    /\ kept' = [kept EXCEPT ![v] = r]
    /\ UNCHANGED <<settings, store, synced, lanes, calls, read>>

(* _updateStateIfPinned, without the stream's lane.                        *)
EndView(v) ==
    /\ phase[v] = "keeping"
    /\ phase' = [phase EXCEPT ![v] = "done"]
    /\ UpdateIfPinned(kept[v])
    /\ UNCHANGED <<settings, cache, synced, lanes, calls, read, kept, crossed>>

(* The RunningState knows more or other commits; or a commit cannot be     *)
(* fetched, is refused, or conflicts with the log.                         *)
LeaveView(v) ==
    LET new == StateAtCommit(v) IN
    /\ phase[v] = "viewing"
    /\ phase' = [phase EXCEPT ![v] =
            IF Existing(v) # 0 /\ new # Thrown /\ Usable(new, Now)
                /\ ~(GoesOn(new, heap[Existing(v)].log) /\ Len(new) > Len(heap[Existing(v)].log))
            THEN "done" ELSE "failed"]
    /\ UNCHANGED <<settings, heap, cache, store, synced, lanes, calls, read, kept, crossed>>

-----------------------------------------------------------------------------
(* Loads of other streams push this one out of the cache.                  *)
Evict ==
    /\ evicts /\ cache # 0
    /\ cache' = 0
    /\ UNCHANGED <<settings, heap, store, synced, lanes, calls>>

Answers == {{}} \cup {{t} : t \in Net}

NextCall ==
    \/ \E c \in Call :
        \/ BeginLoad(c) \/ FindInCache(c) \/ AskStore(c) \/ FindInStore(c) \/ FindNowhere(c)
        \/ LoadGenesis(c) \/ LoadFails(c) \/ UpdateLoaded(c)
        \/ PeekInCache(c) \/ PeekAsksStore(c) \/ PeekInStore(c) \/ PeekNowhere(c)
        \/ BeginApply(c) \/ EndApply(c) \/ Store(c)
    \/ \E c \in Call, tips \in Answers : Sync(c, tips) \/ Resync(c, tips) \/ Fetch(c, tips)
    \/ Evict

Next ==
    \/ NextCall /\ UNCHANGED views
    \/ \E v \in View : BeginView(v) \/ KeepView(v) \/ EndView(v) \/ LeaveView(v)

Spec == Init /\ [][Next]_vars

-----------------------------------------------------------------------------
Logs == Seq(Entry)
Ended == {"unused", "done", "failed", "ignored"}

(* Every variable has its type.                                            *)
TypeOK ==
    /\ heap \in Seq([log : Logs \ {Thrown}, pinned : SUBSET Commit])
    /\ cache \in 0..Len(heap)
    /\ store \in Logs
    /\ synced \in BOOLEAN
    /\ loading \in Call \cup {NoCall} /\ executing \in Call \cup {NoCall}
    /\ pc \in [Call -> Ended \cup {"start", "unknown", "looking", "reading", "syncing",
                   "resyncing", "fetching", "creating", "updating", "peeking", "apply",
                   "applying", "storing"}]
    /\ ref \in [Call -> 0..Len(heap)]
    /\ base \in [Call -> Logs]
    /\ phase \in [View -> {"unused", "loading", "viewing", "keeping", "done", "failed"}]
    /\ read \in [View -> Logs]
    /\ kept \in [View -> 0..Len(heap)]
    /\ crossed \subseteq DOMAIN heap

Current == IF cache # 0 THEN heap[cache].log ELSE store
Absorbs(log, c) == ApplyTipFromNetwork(log, c, TimeEvents, Now) = log

(* The stream stays cached, and no call takes a tip outside of the         *)
(* loadingQ or makes a RunningState next to the one in the cache; nor does *)
(* a view move it.                                                         *)
Shared ==
    /\ ~evicts
    /\ \A c \in Call : Kind[c] \in {"tip", "always"} => pc[c] = "unused"
    /\ \A v \in View : phase[v] = "unused"

(* A commit that a user was told is applied, and a tip that was handled,   *)
(* stay part of what the node knows, in memory and in the store, unless    *)
(* conflict resolution prefers something else to it.  A commit that a sync *)
(* had brought before may reach the store only with that sync's update.    *)
UpdatesKept ==
    \A c \in Call : Shared /\ pc[c] = "done" /\ Brings(c) =>
        /\ cache # 0 => Absorbs(heap[cache].log, Arg[c])
        /\ store # <<>> /\ (\A d \in Call : pc[d] # "updating") => Absorbs(store, Arg[c])

(* No tip has been taken outside of the loadingQ by a node that syncs.     *)
TipsAreSafe ==
    rust \/ \A c \in Call :
                Kind[c] = "tip" => pc[c] \notin {"apply", "applying", "storing", "done", "failed"}

(* What the executionQ does for a RunningState: each new value of it comes *)
(* from the value before, never from one that was read earlier and is      *)
(* stale.  What syncStream writes does too, if no tip comes in between.  A *)
(* view, which is in no lane of the stream, only lets the log go on; after *)
(* it has done so to a RunningState that was being updated, nothing is     *)
(* claimed of that one.                                                    *)
RunningStateIsARegister ==
    [][\A r \in DOMAIN heap \ crossed : TipsAreSafe /\ heap'[r].log # heap[r].log =>
            \/ \E c \in Commit : heap'[r].log = ApplyTipFromNetwork(heap[r].log, c, TimeEvents, Now)
            \/ \E v \in View : phase'[v] # phase[v] /\ kept'[v] = r /\ GoesOn(heap'[r].log, heap[r].log)]_vars

Loaded(c) == LoadStateFromTip(c, TimeEvents, FALSE, Now)
Judged(log, c) == ApplyTipFromNetwork(log, c, TimeEvents, Now)
Abstract == INSTANCE StreamRegister WITH
                value <- Current, Absent <- Thrown, Load <- Loaded, Judge <- Judged

(* The node as a whole is one register while its calls are Shared: every   *)
(* change of its current state is one commit judged against the state      *)
(* before.                                                                 *)
ImplementsRegister ==
    /\ Shared => Abstract!Init
    /\ [][Shared => Abstract!Next]_Current
=============================================================================
