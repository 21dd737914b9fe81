------------------------------ MODULE TipSync ------------------------------
(***************************************************************************)
(* Nodes that hold one stream each and learn of its tips from users, from  *)
(* anchors and from the network, in any order, late, or more than once.    *)
(* One step is one call of StreamUpdater or StreamLoader followed by the   *)
(* caller's `state$.next`: two calls for the same stream on one node do    *)
(* not overlap here (Repository studies what happens when they do).        *)
(***************************************************************************)
EXTENDS StreamLog

CONSTANTS
    Node,
    Flaky,    \* anchors whose validation may fail on one call and pass on the next
    MaxNow    \* bound on the clock, in the unit of AnchorTime

ASSUME ClockAssumption == MaxNow \in Nat \ {0}

VARIABLES
    log,      \* [Node -> log of the StreamState], <<>> while not loaded
    stored,   \* commits that can be fetched from IPFS
    seen,     \* [Node -> tips the node applied without an error]
    now       \* wall clock, read by checkForCacaoExpiration

vars == <<log, stored, seen, now>>

Loaded(n) == log[n] # <<>>

(* The anchors that validate during one call.                              *)
Outcomes == {TimeEvents \ failed : failed \in SUBSET Flaky}

(* A call that throws leaves the state of the node as it was.              *)
Become(n, tip, result) ==
    IF result = Thrown THEN UNCHANGED <<log, seen>>
    ELSE /\ log' = [log EXCEPT ![n] = result]
         /\ seen' = [seen EXCEPT ![n] = @ \cup {tip}]

-----------------------------------------------------------------------------
Init ==
    /\ log = [n \in Node |-> <<>>]
    /\ stored = {Genesis}
    /\ seen = [n \in Node |-> {}]
    /\ now = 1

(* The first tip a node hears of, or the genesis when nobody answers.      *)
LoadStream(n, tip, valid) ==
    /\ ~Loaded(n)
    /\ tip \in stored
    /\ Become(n, tip, LoadStateFromTip(tip, valid, FALSE, now))
    /\ UNCHANGED <<stored, now>>

(* A tip from pubsub, ReCon, history sync or the anchor service.           *)
HandleTip(n, tip, valid) ==
    /\ Loaded(n)
    /\ tip \in stored
    /\ Become(n, tip, ApplyTipFromNetwork(log[n], tip, valid, now))
    /\ UNCHANGED <<stored, now>>

(* A user signs a commit on top of a state of the stream the node served,  *)
(* the current one or an older one.  It is stored before it is judged.     *)
ApplyUserCommit(n, c, valid) ==
    /\ Loaded(n)
    /\ c \notin TimeEvents \cup stored
    /\ Prev[c] \in CidsOf(log[n])
    /\ stored' = stored \cup {c}
    /\ Become(n, c, ApplyCommitFromUser(log[n], c, valid, now))
    /\ UNCHANGED now

(* A block whose timestamp is `now` anchors a stored commit (outside the   *)
(* node).                                                                  *)
PublishAnchor(a) ==
    /\ a \in TimeEvents \ stored
    /\ Prev[a] \in stored
    /\ AnchorTime[a] = now
    /\ stored' = stored \cup {a}
    /\ UNCHANGED <<log, seen, now>>

(* SYNC_ON_ERROR: the state holds an expired commit; build it anew.        *)
Resync(n, valid) ==
    /\ Loaded(n)
    /\ ~Usable(log[n], now)
    /\ Become(n, Tip(log[n]), LoadStateFromTip(Tip(log[n]), valid, FALSE, now))
    /\ UNCHANGED <<stored, now>>

Tick ==
    /\ now < MaxNow
    /\ now' = now + 1
    /\ UNCHANGED <<log, stored, seen>>

Next ==
    \/ \E n \in Node, c \in Commit, valid \in Outcomes :
            LoadStream(n, c, valid) \/ HandleTip(n, c, valid) \/ ApplyUserCommit(n, c, valid)
    \/ \E n \in Node, valid \in Outcomes : Resync(n, valid)
    \/ \E a \in Commit : PublishAnchor(a)
    \/ Tick

Spec == Init /\ [][Next]_vars

(* A node goes on hearing of tips as long as there is one it has not       *)
(* applied, which is all that pubsub, ReCon and history sync promise.      *)
(* This is WF_vars(HearsOfTip(n)) with ENABLED written out.                *)
HasTipToHearOf(n) == ~Loaded(n) \/ ~(stored \subseteq seen[n])

HearsOfTip(n) ==
    \E c \in Commit : LoadStream(n, c, TimeEvents) \/ (c \notin seen[n] /\ HandleTip(n, c, TimeEvents))

Fairness == \A n \in Node : []<>~HasTipToHearOf(n) \/ []<><<HearsOfTip(n)>>_vars

FairSpec == Spec /\ Fairness

-----------------------------------------------------------------------------
(* Logs are sequences of entries; the clock keeps within its bound.        *)
TypeOK ==
    /\ log \in [Node -> Seq(Entry)]
    /\ stored \subseteq Commit
    /\ seen \in [Node -> SUBSET Commit]
    /\ now \in 1..MaxNow

(* No capability has expired yet: with those that do, nodes that heard of  *)
(* a commit before and after may hold different logs.                      *)
Fresh == \A c \in Commit : Expires[c] = 0 \/ now <= Expires[c]

(* Conflict resolution (state-manipulator.ts _pickLogToAccept) is decided  *)
(* pairwise, at the point where two histories part.  Nodes that applied    *)
(* the same tips, in whatever order, must nevertheless hold the same log.  *)
StrongConvergence ==
    Fresh => \A m, n \in Node : seen[m] = seen[n] => log[m] = log[n]

(* Eventually all nodes hold the same log for good (TipFetcher, pubsub and *)
(* ReCon deliver every tip to everybody), if they hear of every commit     *)
(* while its capability is valid.                                          *)
EventualAgreement == []Fresh => <>[](\A m, n \in Node : log[m] = log[n])

(* StreamLoader.resetStateToCommit promises that a commit with an expired  *)
(* CACAO that was anchored in time can still be loaded by its CommitID     *)
(* (stream-loader.ts:154-157), although the anchor comes after it.         *)
CommitIdsStayLoadable ==
    \A n \in Node : Loaded(n) /\ Usable(log[n], now) =>
        \A i \in DOMAIN log[n] :
            LET result == StateAtCommitId(log[n], log[n][i].cid, TimeEvents, now)
            IN  result # Thrown /\ result = SubSeq(log[n], 1, i)

=============================================================================
