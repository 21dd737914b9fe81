----------------------------- MODULE Dispatcher -----------------------------
(***************************************************************************)
(* core/src/dispatcher.ts: the blocks a node stores and reads, through a   *)
(* cache of IPLD records, beside one of two ways to hear of tips: pubsub   *)
(* (a node of its own, Gossip) or the event feed of ceramic-one            *)
(* (ReconFeed).                                                            *)
(***************************************************************************)
EXTENDS Gossip, ReconFeed

CONSTANTS
    Blocks,       \* CIDs of commits
    TooBig,       \* those over IPFS_MAX_COMMIT_SIZE
    Elsewhere,    \* those some other peer has
    CacheSize,    \* IPFS_CACHE_SIZE
    Retries,      \* IPFS_GET_RETRIES
    Workloads     \* the sets of inputs a behaviour may have

ASSUME DispatcherAssumption ==
    /\ TooBig \subseteq Blocks /\ Elsewhere \subseteq Blocks
    /\ CacheSize \in Nat \ {0} /\ Retries \in Nat \ {0}

VARIABLES
    rust,         \* EnvironmentUtils.useRustCeramic()
    enableSync,
    stored,       \* blocks in the node's IPFS or ceramic-one
    cached,       \* IPLDRecordsCache, least recently used first
    read          \* the read under way: [cid, retries], or NoRead

blockVars == <<stored, cached, read>>
vars == <<gossipVars, reconVars, blockVars, rust, enableSync>>

NoRead == [cid |-> "none", retries |-> 0]

\* peer data sync may be disabled, and is when ceramic-one does it
Init ==
    /\ inputs \in Workloads
    /\ rust = ("recon" \in inputs)
    /\ enableSync \in (IF rust THEN {FALSE} ELSE BOOLEAN)
    /\ GossipInit /\ ReconInit
    /\ stored = {} /\ cached = <<>> /\ read = NoRead

-----------------------------------------------------------------------------
(* Blocks *)

\* The order of use after a get or a set
Cache(cid) ==
    LET rest == SelectSeq(cached, LAMBDA c : c # cid)
    IN  Append(IF Len(rest) >= CacheSize THEN Tail(rest) ELSE rest, cid)

Cached(cid) == cid \in ToSet(cached)

\* importCAR: to ceramic-one when it is used, for models and their instances, and
\* else to IPFS.  The error of either reaches the caller.
Import(cid) == stored' \in {stored, stored \union {cid}}

\* storeInitEvent and storeEvent: _createCAR caches the blocks before they are
\* stored, up to the first that is too big, and the import may fail after that: reads
\* then find the commit in the cache, until it is evicted, and nowhere else.
StoreEvent(cid) ==
    /\ "blocks" \in inputs
    /\ IF cid \in TooBig
       THEN UNCHANGED <<stored, cached>>
       ELSE cached' = Cache(cid) /\ Import(cid)
    /\ UNCHANGED read

\* getFromIpfs, up to the first attempt
BeginRead(cid) ==
    /\ "blocks" \in inputs /\ read = NoRead
    /\ IF Cached(cid)
       THEN cached' = Cache(cid) /\ UNCHANGED read
       ELSE read' = [cid |-> cid, retries |-> Retries - 1] /\ UNCHANGED cached
    /\ UNCHANGED stored

\* IPFS fetches a block of another peer only when data is synced.
Reachable(cid) == cid \in stored \/ (enableSync /\ cid \in Elsewhere)

ReadFinds ==
    /\ read # NoRead /\ Reachable(read.cid)
    /\ stored' = stored \union {read.cid}
    /\ cached' = IF read.cid \in TooBig THEN cached ELSE Cache(read.cid)
    /\ read' = NoRead

\* Only a timeout is tried again.
ReadTimesOut ==
    /\ read # NoRead
    /\ read' = IF read.retries > 0 THEN [read EXCEPT !.retries = @ - 1] ELSE NoRead
    /\ UNCHANGED <<stored, cached>>

ReadFails ==
    /\ read # NoRead
    /\ read' = NoRead
    /\ UNCHANGED <<stored, cached>>

BlockNext ==
    \/ \E cid \in Blocks : StoreEvent(cid) \/ BeginRead(cid)
    \/ ReadFinds \/ ReadTimesOut \/ ReadFails

-----------------------------------------------------------------------------

\* init subscribes to the bus and publishTip uses it only when data is synced; the
\* feed is polled only beside ceramic-one.
Next ==
    /\ UNCHANGED <<rust, enableSync>>
    /\ \/ enableSync /\ GossipNext /\ UNCHANGED <<reconVars, blockVars>>
       \/ rust /\ ReconNext /\ UNCHANGED <<gossipVars, blockVars>>
       \/ BlockNext /\ UNCHANGED <<gossipVars, reconVars>>

Fairness ==
    /\ WF_gossipVars(enableSync /\ JobDone) /\ WF_gossipVars(enableSync /\ Resubscribe)
    /\ WF_reconVars(rust /\ Start) /\ WF_reconVars(rust /\ VerifyNetwork)
    /\ WF_reconVars(rust /\ RegisterInterest) /\ WF_reconVars(rust /\ Subscribe)
    /\ WF_reconVars(rust /\ Poll) /\ WF_reconVars(rust /\ HandleEvent)
    /\ WF_reconVars(rust /\ StoreCursor) /\ WF_reconVars(rust /\ Restart)

Spec == Init /\ [][Next]_vars /\ Fairness

-----------------------------------------------------------------------------
(* Properties *)

\* Every event of ceramic-one's feed is tried in the end, over failing requests,
\* events that cannot be handled and restarts (Repository.handleReconEvents).
FeedIsFollowed == rust => EventsAreTried
=============================================================================
