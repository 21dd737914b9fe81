--------------------------- MODULE AnchorRequests ---------------------------
(***************************************************************************)
(* How one pinned stream of one node gets anchored: Repository.anchor and  *)
(* handleAnchorEvent, EthereumAnchorService.requestAnchor, the persistent  *)
(* AnchorRequestStore and AnchorProcessingLoop, against an external anchor *)
(* service (CAS), with requests that get lost, calls that fail, validation *)
(* that fails now and passes later, other nodes that write to the stream,  *)
(* and crashes.                                                            *)
(*                                                                         *)
(* Tasks of the stream's executionQ lane are one step, but for a write,    *)
(* which keeps the lane while its anchor request waits to be saved.        *)
(***************************************************************************)
EXTENDS StreamLog

CONSTANTS
    Remote,      \* commits other nodes write (and request anchors for)
    Api,         \* commits whose anchor users request through the HTTP API
    Flaky,       \* anchors whose validation may fail on one call
    NoRequest,
    MaxRequests, \* bound: no write or API request begins after so many requests
    MaxCrashes

VARIABLES
    mem,         \* the RunningState: its log and anchorStatus
    disk,        \* the state in the StreamStateStore
    unsaved,     \* an _updateStateIfPinned_safe waits in the executionQ
    writer,      \* how far the write that holds the executionQ lane is
    asking,      \* saves waiting in the anchorStoreQueue, in order
    request,     \* the entry of the AnchorRequestStore, or NoRequest
    posts,       \* createRequests on their way that nobody awaits
    cas,         \* the requests the anchor service knows
    poller,      \* what AnchorProcessingLoop is doing for the stream
    clock,       \* the Date of the last request
    crashes,
    latest,      \* history: the request saved last
    answered     \* history: terminal events handled, as <<cid, status>>

nodeVars == <<mem, disk, unsaved, writer>>
storeVars == <<asking, request, latest>>
casVars == <<posts, cas>>
loopVars == <<poller, answered>>
bounds == <<clock, crashes>>
vars == <<nodeVars, storeVars, casVars, loopVars, bounds>>

(* AnchorStatus has REPLACED too, which no code ever gives to a stream.    *)
AnchorStatus == {"NOT_REQUESTED", "PENDING", "PROCESSING", "ANCHORED", "FAILED"}
CasStatus == {"NONE", "PENDING", "PROCESSING", "COMPLETED", "FAILED", "REPLACED"}
Terminal == {"COMPLETED", "FAILED", "REPLACED"}
State == [log : Seq(Entry), status : AnchorStatus]
Request == [cid : Commit, time : Nat]

tip == Tip(mem.log)
Users == Commit \ (TimeEvents \cup Remote)
Now == 1   \* no capability expires here

Idle == [at |-> "idle", entry |-> NoRequest, event |-> "NONE"]
AnchorOf(c) == {a \in TimeEvents : Prev[a] = c}
Published == {a \in TimeEvents : cas[Prev[a]].status = "COMPLETED"}
Outcomes == {TimeEvents \ failed : failed \in SUBSET Flaky}

StateWith(state, log) ==
    IF log = state.log THEN state
    ELSE [log |-> log, status |-> IF Tip(log) \in TimeEvents THEN "ANCHORED" ELSE "NOT_REQUESTED"]

(* PinStore.add: what the store holds after it.  A state that has no       *)
(* commit the store does not know is not written.                          *)
Pinned(state, stored) == IF CidsOf(state.log) \subseteq CidsOf(stored.log) THEN stored ELSE state

-----------------------------------------------------------------------------
Init ==
    /\ mem = [log |-> <<[cid |-> Genesis, ts |-> NoTime]>>, status |-> "NOT_REQUESTED"]
    /\ disk = mem
    /\ unsaved = FALSE
    /\ writer = "idle"
    /\ asking = <<>>
    /\ request = NoRequest
    /\ posts = {}
    /\ cas = [c \in Commit |-> [status |-> "NONE", time |-> 0]]
    /\ poller = Idle
    /\ clock = 0
    /\ crashes = 0
    /\ latest = NoRequest
    /\ answered = {}

-----------------------------------------------------------------------------
(* Tasks of the executionQ.                                                *)

(* applyCommit: the new state is emitted and pinned.                       *)
WriteCommit(c) ==
    LET log == ApplyCommitFromUser(mem.log, c, TimeEvents, Now) IN
    /\ writer = "idle"
    /\ clock < MaxRequests
    /\ c \in Users /\ Prev[c] = tip
    /\ log # Thrown
    /\ mem' = StateWith(mem, log)
    /\ disk' = Pinned(mem', disk)
    /\ writer' = "written"
    /\ UNCHANGED <<unsaved, storeVars, casVars, loopVars, bounds>>

(* _handleTip of a commit that pubsub or a sync brings.                    *)
HearOfTip(c, valid) ==
    LET log == ApplyTipFromNetwork(mem.log, c, valid, Now) IN
    /\ writer = "idle"
    /\ c \in Published \cup Remote
    /\ log # Thrown
    /\ mem' = StateWith(mem, log)
    /\ disk' = Pinned(mem', disk)
    /\ UNCHANGED <<unsaved, writer, storeVars, casVars, loopVars, bounds>>

(* _updateStateIfPinned_safe.                                              *)
SaveStatus ==
    /\ writer = "idle"
    /\ unsaved
    /\ disk' = Pinned(mem, disk)
    /\ unsaved' = FALSE
    /\ UNCHANGED <<mem, writer, storeVars, casVars, loopVars, bounds>>

-----------------------------------------------------------------------------
(* Repository.anchor and requestAnchor.                                    *)

(* The tip and the Date are read before the call waits for its turn.       *)
Ask(by) ==
    /\ mem.status # "ANCHORED"
    /\ clock' = clock + 1
    /\ asking' = Append(asking, [cid |-> tip, time |-> clock', by |-> by])

AskForWrite ==
    /\ writer = "written"
    /\ Ask("write")
    /\ writer' = "asked"
    /\ UNCHANGED <<mem, disk, unsaved, request, latest, casVars, loopVars, crashes>>

AskThroughApi ==
    /\ tip \in Api
    /\ clock < MaxRequests
    /\ Ask("api")
    /\ UNCHANGED <<nodeVars, request, latest, casVars, loopVars, crashes>>

(* handleAnchorEvent: PENDING, READY and PROCESSING.                       *)
HandleOpen(c, status) ==
    IF c = tip /\ mem.status # status
    THEN /\ mem' = [mem EXCEPT !.status = status]
         /\ unsaved' = TRUE
    ELSE UNCHANGED <<mem, unsaved>>

(* The store is written, then the CAS is asked and the stream set PENDING  *)
(* in the background.                                                      *)
SaveRequest ==
    LET ask == Head(asking)
        entry == [cid |-> ask.cid, time |-> ask.time]
    IN
    /\ asking # <<>>
    /\ asking' = Tail(asking)
    /\ request' = entry
    /\ latest' = entry
    /\ posts' = posts \cup {entry}
    /\ HandleOpen(entry.cid, "PENDING")
    /\ writer' = IF ask.by = "write" THEN "idle" ELSE writer
    /\ UNCHANGED <<disk, cas, loopVars, bounds>>

-----------------------------------------------------------------------------
(* The anchor service: it keeps the newest request of a stream.            *)

Received(r) ==
    LET newer == \E d \in Commit : cas[d].status # "NONE" /\ cas[d].time > r.time IN
    IF cas[r.cid].status # "NONE" THEN cas
    ELSE [c \in Commit |->
            IF c = r.cid
            THEN [status |-> IF newer THEN "REPLACED" ELSE "PENDING", time |-> r.time]
            ELSE IF cas[c].status = "PENDING" /\ cas[c].time < r.time
            THEN [cas[c] EXCEPT !.status = "REPLACED"]
            ELSE cas[c]]

PostArrives(r) ==
    /\ r \in posts
    /\ posts' = posts \ {r}
    /\ cas' = Received(r)
    /\ UNCHANGED <<nodeVars, storeVars, loopVars, bounds>>

PostIsLost(r) ==
    /\ r \in posts
    /\ posts' = posts \ {r}
    /\ UNCHANGED <<cas, nodeVars, storeVars, loopVars, bounds>>

OtherNodeAsks(c) ==
    /\ c \in Remote
    /\ cas[c].status = "NONE"
    /\ clock < MaxRequests
    /\ clock' = clock + 1
    /\ cas' = Received([cid |-> c, time |-> clock'])
    /\ UNCHANGED <<posts, crashes, nodeVars, storeVars, loopVars>>

CasMoves(c, from, to) ==
    /\ cas[c].status = from
    /\ cas' = [cas EXCEPT ![c].status = to]
    /\ UNCHANGED <<posts, nodeVars, storeVars, loopVars, bounds>>

CasStarts(c) == CasMoves(c, "PENDING", "PROCESSING")
CasFails(c) == CasMoves(c, "PENDING", "FAILED") \/ CasMoves(c, "PROCESSING", "FAILED")

(* Blocks come in the order of their timestamps.                           *)
CasCompletes(c) ==
    /\ \E a \in AnchorOf(c) : \A b \in Published : AnchorTime[b] <= AnchorTime[a]
    /\ CasMoves(c, "PROCESSING", "COMPLETED")

-----------------------------------------------------------------------------
(* AnchorProcessingLoop: its steps for the stream, one at a time.          *)

LoopLoads ==
    /\ poller = Idle
    /\ request # NoRequest
    /\ poller' = [at |-> "loaded", entry |-> request, event |-> "NONE"]
    /\ UNCHANGED <<answered, nodeVars, storeVars, casVars, bounds>>

LoopGetsStatus ==
    /\ poller.at = "loaded"
    /\ cas[poller.entry.cid].status # "NONE"
    /\ poller' = [poller EXCEPT !.at = "answered", !.event = cas[poller.entry.cid].status]
    /\ UNCHANGED <<answered, nodeVars, storeVars, casVars, bounds>>

(* Mutant: a request that the CAS does not know is left for later.         *)
LoopGivesUp ==
    /\ poller.at = "loaded"
    /\ poller' = Idle
    /\ UNCHANGED <<answered, nodeVars, storeVars, casVars, bounds>>

(* The request is not known, or the CAS cannot be reached: create it.      *)
LoopGetsError ==
    /\ poller.at = "loaded"
    /\ poller' = [poller EXCEPT !.at = "creating"]
    /\ UNCHANGED <<answered, nodeVars, storeVars, casVars, bounds>>

LoopCreates ==
    /\ poller.at = "creating"
    /\ cas' = Received(poller.entry)
    /\ poller' = [poller EXCEPT !.at = "answered", !.event = cas'[poller.entry.cid].status]
    /\ UNCHANGED <<posts, answered, nodeVars, storeVars, bounds>>

(* The error is swallowed; the entry stays for the next round.             *)
LoopFailsToCreate ==
    /\ poller.at = "creating"
    /\ poller' = Idle
    /\ UNCHANGED <<answered, nodeVars, storeVars, casVars, bounds>>

Answer(status) ==
    /\ poller.at = "answered"
    /\ poller.event = status

Settled ==
    /\ poller' = [poller EXCEPT !.at = "terminal"]
    /\ answered' = answered \cup {<<poller.entry.cid, poller.event>>}

LoopHandlesOpen ==
    /\ Answer("PENDING") \/ Answer("PROCESSING")
    /\ HandleOpen(poller.entry.cid, poller.event)
    /\ poller' = Idle
    /\ UNCHANGED <<disk, writer, answered, storeVars, casVars, bounds>>

(* Only the tip is marked, and only in memory.                             *)
LoopHandlesFailed ==
    /\ Answer("FAILED")
    /\ mem' = IF poller.entry.cid = tip THEN [mem EXCEPT !.status = "FAILED"] ELSE mem
    /\ Settled
    /\ UNCHANGED <<disk, unsaved, writer, storeVars, casVars, bounds>>

LoopHandlesReplaced ==
    /\ Answer("REPLACED")
    /\ Settled
    /\ UNCHANGED <<nodeVars, storeVars, casVars, bounds>>

(* Mutant: the anchored state is emitted but not pinned.                   *)
LoopShowsAnchor(valid) ==
    /\ Answer("COMPLETED")
    /\ writer = "idle"
    /\ \E a \in AnchorOf(poller.entry.cid) :
            mem' = StateWith(mem, ApplyTipFromNetwork(mem.log, a, valid, Now))
    /\ Settled
    /\ UNCHANGED <<disk, unsaved, writer, storeVars, casVars, bounds>>

(* _handleAnchorCommit, when an attempt raises no error.                   *)
LoopAppliesAnchor(valid) ==
    /\ Answer("COMPLETED")
    /\ writer = "idle"
    /\ \E a \in AnchorOf(poller.entry.cid) :
            LET log == ApplyTipFromNetwork(mem.log, a, valid, Now) IN
            /\ log # Thrown
            /\ mem' = StateWith(mem, log)
            /\ disk' = Pinned(mem', disk)
    /\ Settled
    /\ UNCHANGED <<unsaved, writer, storeVars, casVars, bounds>>

(* _handleAnchorCommit, when its three attempts fail: it throws.           *)
LoopCannotApplyAnchor ==
    /\ Answer("COMPLETED")
    /\ mem' = IF poller.entry.cid = tip THEN [mem EXCEPT !.status = "FAILED"] ELSE mem
    /\ poller' = Idle
    /\ UNCHANGED <<disk, unsaved, writer, answered, storeVars, casVars, bounds>>

(* Mutant: whatever the store holds now is removed.                        *)
LoopRemovesAny ==
    /\ poller.at = "terminal"
    /\ request' = NoRequest
    /\ poller' = Idle
    /\ UNCHANGED <<answered, asking, latest, nodeVars, casVars, bounds>>

(* In the anchorStoreQueue: remove the entry iff its tip is the one that   *)
(* was answered.                                                           *)
LoopRemoves ==
    /\ poller.at = "terminal"
    /\ request' = IF request # NoRequest /\ request.cid = poller.entry.cid THEN NoRequest ELSE request
    /\ poller' = Idle
    /\ UNCHANGED <<answered, asking, latest, nodeVars, casVars, bounds>>

-----------------------------------------------------------------------------
(* The node stops at any point and starts again from its stores.           *)
Crash ==
    /\ crashes < MaxCrashes
    /\ crashes' = crashes + 1
    /\ mem' = disk
    /\ unsaved' = FALSE
    /\ writer' = "idle"
    /\ asking' = <<>>
    /\ posts' = {}
    /\ poller' = Idle
    /\ UNCHANGED <<disk, request, latest, cas, clock, answered>>

CasStep == \E c \in Commit : CasStarts(c) \/ CasFails(c) \/ CasCompletes(c)

LoopStep ==
    \/ LoopLoads \/ LoopGetsError \/ LoopFailsToCreate
    \/ LoopHandlesOpen \/ LoopHandlesFailed \/ LoopHandlesReplaced
    \/ LoopRemoves

Next ==
    \/ \E c \in Commit : WriteCommit(c) \/ OtherNodeAsks(c)
    \/ \E c \in Commit, valid \in Outcomes : HearOfTip(c, valid)
    \/ SaveStatus \/ AskForWrite \/ AskThroughApi \/ SaveRequest
    \/ \E r \in posts : PostArrives(r) \/ PostIsLost(r)
    \/ CasStep
    \/ LoopStep \/ LoopGetsStatus \/ LoopCreates
    \/ \E valid \in Outcomes : LoopAppliesAnchor(valid)
    \/ LoopCannotApplyAnchor
    \/ Crash

Spec == Init /\ [][Next]_vars

(* A write goes on, the CAS gets to an answer, the loop never rests on an  *)
(* entry, and a call that is made again and again does not fail every      *)
(* time.  The definitions say when those actions are enabled: the WF and   *)
(* SF of Fairness are written out (TLC is slow to find ENABLED).           *)
WriteWaits == writer # "idle"
CasHasWork == \E c \in Commit : cas[c].status \in {"PENDING", "PROCESSING"}
LoopHasWork == (poller = Idle => request # NoRequest) /\ ~Answer("COMPLETED")
StatusIsThere == poller.at = "loaded" /\ cas[poller.entry.cid].status # "NONE"
Creating == poller.at = "creating"
AnchorIsThere == Answer("COMPLETED") /\ writer = "idle"

Fairness ==
    /\ []<>~WriteWaits \/ []<><<AskForWrite \/ SaveRequest>>_vars
    /\ []<>~CasHasWork \/ []<><<CasStep>>_vars
    /\ []<>~LoopHasWork \/ []<><<LoopStep>>_vars
    /\ <>[]~StatusIsThere \/ []<><<LoopGetsStatus>>_vars
    /\ <>[]~Creating \/ []<><<LoopCreates>>_vars
    /\ <>[]~AnchorIsThere \/ []<><<LoopAppliesAnchor(TimeEvents)>>_vars

FairSpec == Spec /\ Fairness

-----------------------------------------------------------------------------
(* Every variable has its type.                                            *)
TypeOK ==
    /\ mem \in State /\ disk \in State
    /\ unsaved \in BOOLEAN
    /\ writer \in {"idle", "written", "asked"}
    /\ asking \in Seq([cid : Commit, time : Nat, by : {"write", "api"}])
    /\ request \in Request \cup {NoRequest} /\ latest \in Request \cup {NoRequest}
    /\ posts \subseteq Request
    /\ cas \in [Commit -> [status : CasStatus, time : Nat]]
    /\ poller \in [at : {"idle", "loaded", "creating", "answered", "terminal"},
                   entry : Request \cup {NoRequest}, event : CasStatus]
    /\ clock \in Nat /\ crashes \in Nat
    /\ answered \subseteq Commit \X Terminal

(* The store never forgets a request: the one that was saved last is there *)
(* until the CAS has given its final answer for that commit, however       *)
(* saves, polls, answers to older requests and crashes interleave          *)
(* (anchor-request-store.ts:73, "so that it can be re-sent to CAS").       *)
RequestRemembered ==
    \/ request = latest
    \/ request = NoRequest /\ \E status \in Terminal : <<latest.cid, status>> \in answered

(* An anchor the node was told of, and stopped asking about, is in the     *)
(* stored state, or an earlier anchor is: a crash cannot lose it.          *)
AnsweredAnchorsAreDurable ==
    \A c \in Commit : <<c, "COMPLETED">> \in answered =>
        \E a \in AnchorOf(c) :
            /\ FirstAnchor(disk.log) > 0
            /\ disk.log[FirstAnchor(disk.log)].ts <= AnchorTime[a]

(* Every request is answered, or gives way to a newer one, although        *)
(* nobody awaits its creation and it may never reach the CAS.              *)
EveryRequestIsAnswered ==
    \A c \in Commit :
        request # NoRequest /\ request.cid = c
            ~> request = NoRequest \/ request.cid # c

=============================================================================
