----------------------------- MODULE StreamLog -----------------------------
(***************************************************************************)
(* Logs of one stream and the stateless code that applies commits to them: *)
(* LogSyncer, AnchorTimestampExtractor, StateManipulator and               *)
(* applyTipToState of packages/core/src/stream-loading.                    *)
(*                                                                         *)
(* The commits of the stream are a constant forest: a commit names its     *)
(* predecessor (`prev`) and never changes.  What a StreamState holds of a  *)
(* stream here is its log, a sequence of entries [cid, ts].  A handler     *)
(* either accepts a commit or leaves the log alone; what it does to the    *)
(* content on the way, and when it does not leave the log alone, is the    *)
(* subject of Handlers.                                                    *)
(***************************************************************************)
EXTENDS Naturals, Sequences, SequencesExt, FiniteSetsExt

CONSTANTS
    Commit,      \* CIDs of the commits that refer to this stream
    NoCommit,    \* the absent `prev` of an init event
    Genesis,     \* streamID.cid
    Prev,        \* [Commit -> Commit \cup {NoCommit}]
    TimeEvents,  \* the anchor commits (EventType.TIME)
    AnchorTime,  \* [TimeEvents -> block timestamp of the anchor proof]
    Rank,        \* order of `cid.bytes` under JavaScript's string `<`
    Invalid,     \* commits whose signature or content is never valid
    Expires      \* [Commit -> end of the CACAO's grace period, 0 if none]

(* `null` and `undefined` timestamps both compare as 0 in JavaScript.      *)
NoTime == 0

ASSUME ForestAssumption ==
    /\ Genesis \in Commit /\ NoCommit \notin Commit
    /\ Prev \in [Commit -> Commit \cup {NoCommit}] /\ Prev[Genesis] = NoCommit
    /\ \A S \in SUBSET Commit : S # {} => \E c \in S : Prev[c] \notin S   \* CIDs are hashes
    /\ TimeEvents \subseteq Commit \ {Genesis}
    /\ AnchorTime \in [TimeEvents -> Nat \ {NoTime}]
    /\ Rank \in [Commit -> Nat]
    /\ \A c, d \in Commit : Rank[c] = Rank[d] => c = d
    /\ Invalid \subseteq Commit
    /\ Expires \in [Commit -> Nat]

Entry == [cid : Commit, ts : Nat]

Tip(log) == Last(log).cid
CidsOf(log) == {log[i].cid : i \in DOMAIN log}
IndexOf(log, c) == SelectInSeq(log, LAMBDA e : e.cid = c)

(* What an operation that throws leaves its caller with: no state.         *)
Thrown == <<>>

-----------------------------------------------------------------------------
(* LogSyncer: sequences of CIDs fetched by walking `prev` from a tip.      *)

ChainTo[c \in Commit \cup {NoCommit}] ==
    IF c = NoCommit THEN <<>> ELSE Append(ChainTo[Prev[c]], c)

SyncFullLog(tip) ==
    IF Head(ChainTo[tip]) = Genesis THEN ChainTo[tip] ELSE <<Genesis>>

(* The commits after the newest one already known; none if the walk ends   *)
(* at an init event that is not known.                                     *)
SyncLogUntilMatch(tip, known) ==
    LET chain == ChainTo[tip]
        hits == {i \in DOMAIN chain : chain[i] \in known}
    IN  IF hits = {} THEN <<>> ELSE SubSeq(chain, Max(hits) + 1, Len(chain))

-----------------------------------------------------------------------------
(* AnchorTimestampExtractor: every commit gets the timestamp of the next   *)
(* anchor that validates.  An anchor outside `valid` keeps its error until *)
(* it is applied.                                                          *)
VerifyAnchors(cids, valid) ==
    LET following(i) == {j \in i..Len(cids) : cids[j] \in valid}
        time(i) == IF following(i) = {} THEN NoTime
                   ELSE AnchorTime[cids[Min(following(i))]]
    IN  [i \in DOMAIN cids |->
            [cid |-> cids[i], ts |-> time(i), ok |-> cids[i] \notin TimeEvents \ valid]]

-----------------------------------------------------------------------------
(* StateManipulator.                                                       *)

Expired(e, now) ==
    Expires[e.cid] # 0 /\ Expires[e.cid] < (IF e.ts = NoTime THEN now ELSE e.ts)

(* A stream handler accepts commit e on top of prev.                       *)
Accepts(e, prev, now) ==
    /\ e.ok
    /\ Prev[e.cid] = prev
    /\ e.cid \notin Invalid
    /\ ~Expired(e, now)

(* applyAnchorTimestampsToLog: an anchor dates everything before it.       *)
Settle(log) ==
    LET anchors(i) == {j \in i..Len(log) : log[j].cid \in TimeEvents}
    IN  [i \in DOMAIN log |->
            [log[i] EXCEPT !.ts = IF anchors(i) = {} THEN @ ELSE log[Min(anchors(i))].ts]]

ApplyLog(log, new, throwOnInvalid, now) ==
    LET accepted(i) ==
            Accepts(new[i], IF i > 1 THEN new[i - 1].cid
                            ELSE IF log = <<>> THEN NoCommit ELSE Tip(log), now)
        n == Max({k \in 0..Len(new) : \A i \in 1..k : accepted(i)})
        entries == [i \in 1..n |-> [cid |-> new[i].cid, ts |-> new[i].ts]]
    IN  IF n < Len(new) /\ (throwOnInvalid \/ (log = <<>> /\ n = 0))
        THEN Thrown
        ELSE Settle(log \o entries)

FirstAnchor(log) == SelectInSeq(log, LAMBDA e : e.cid \in TimeEvents)

AnchoredBefore(log1, log2) ==
    /\ FirstAnchor(log1) > 0
    /\ FirstAnchor(log2) > 0 =>
            log1[FirstAnchor(log1)].ts < log2[FirstAnchor(log2)].ts

(* The part of a history whose length counts: up to its first anchor.      *)
RelevantLength(log) == IF FirstAnchor(log) > 0 THEN FirstAnchor(log) ELSE Len(log)

(* Mutants: the remote, or the local history wins a tie of the lengths.    *)
LongerOnly(log1, log2) == RelevantLength(log1) > RelevantLength(log2)
LongerOrLocal(log1, log2) == RelevantLength(log1) >= RelevantLength(log2)

LongerOrLowerCid(log1, log2) ==
    \/ RelevantLength(log1) > RelevantLength(log2)
    \/ /\ RelevantLength(log1) = RelevantLength(log2)
       /\ Rank[Tip(log1)] < Rank[Tip(log2)]

(* _pickLogToAccept: is log1, the local history, the one to keep?          *)
PicksFirst(log1, log2) ==
    \/ AnchoredBefore(log1, log2)
    \/ ~AnchoredBefore(log2, log1) /\ LongerOrLowerCid(log1, log2)

(* Mutant: timestamps of removed anchors are lost even on request.         *)
CopyRemainingTimestamps(log, dest, keepRemoved) ==
    LET anchors(i) == {j \in i..Len(dest) : dest[j] \in TimeEvents}
    IN  [i \in DOMAIN dest |-> IF anchors(i) = {} THEN NoTime ELSE log[Min(anchors(i))].ts]

(* Timestamps for the commits dest, a prefix of log.  Those that come from *)
(* anchors after dest are copied only on request.                          *)
CopyTrustedTimestamps(log, dest, keepRemoved) ==
    LET anchors(i) == {j \in i..Len(dest) : dest[j] \in TimeEvents}
    IN  [i \in DOMAIN dest |->
            CASE keepRemoved -> log[i].ts
              [] ~keepRemoved /\ anchors(i) # {} -> log[Min(anchors(i))].ts
              [] ~keepRemoved /\ anchors(i) = {} -> NoTime]

(* The commits of log up to c, fetched again and trusted as they were.     *)
TrustedLog(log, c, keepRemovedTimes) ==
    LET dest == SyncFullLog(c)
        times == CopyTrustedTimestamps(log, dest, keepRemovedTimes)
    IN  [i \in DOMAIN dest |-> [cid |-> dest[i], ts |-> times[i], ok |-> TRUE]]

(* The prefix of log that ends with commit c, its commits applied again.   *)
ResetToCommit(log, c, keepRemovedTimes, now) ==
    IF c \in CidsOf(log) THEN ApplyLog(<<>>, TrustedLog(log, c, keepRemovedTimes), TRUE, now)
    ELSE Thrown

ApplyWithoutCacaoVerification(log, new, opts, now) ==
    LET fork == IndexOf(log, Prev[new[1].cid])
        local == SubSeq(log, fork + 1, Len(log))
        shared == ResetToCommit(log, log[fork].cid, FALSE, now)
    IN  CASE new = <<>> -> log
          [] new # <<>> /\ local = <<>> -> ApplyLog(log, new, opts.throwOnInvalid, now)
          [] new # <<>> /\ local # <<>> /\ opts.throwIfStale -> Thrown
          [] new # <<>> /\ local # <<>> /\ ~opts.throwIfStale ->
                IF PicksFirst(local, new)
                THEN IF opts.throwOnConflict THEN Thrown ELSE log
                ELSE IF shared = Thrown THEN Thrown
                ELSE ApplyLog(shared, new, opts.throwOnInvalid, now)

(* checkForCacaoExpiration: the state holds no commit that has expired.    *)
Usable(log, now) == \A i \in DOMAIN log : ~Expired(log[i], now)

ApplyLogToState(log, new, opts, now) ==
    LET applied == ApplyWithoutCacaoVerification(log, new, opts, now)
    IN  IF Usable(applied, now) THEN applied ELSE Thrown

-----------------------------------------------------------------------------
(* The operations the rest of the node calls.                              *)

ApplyTip(log, tip, valid, opts, now) ==
    ApplyLogToState(log, VerifyAnchors(SyncLogUntilMatch(tip, CidsOf(log)), valid), opts, now)

NetworkOpts == [throwOnInvalid |-> FALSE, throwIfStale |-> FALSE, throwOnConflict |-> FALSE]
UserOpts == [throwOnInvalid |-> TRUE, throwIfStale |-> TRUE, throwOnConflict |-> TRUE]
CommitIdOpts == [throwOnInvalid |-> TRUE, throwIfStale |-> FALSE, throwOnConflict |-> TRUE]

ApplyTipFromNetwork(log, tip, valid, now) == ApplyTip(log, tip, valid, NetworkOpts, now)
ApplyCommitFromUser(log, c, valid, now) == ApplyTip(log, c, valid, UserOpts, now)

LoadStateFromTip(tip, valid, throwOnInvalid, now) ==
    ApplyLog(<<>>, VerifyAnchors(SyncFullLog(tip), valid), throwOnInvalid, now)

(* StreamLoader.resetStateToCommit: the state as of a CommitID.            *)
StateAtCommitId(log, c, valid, now) ==
    LET base == ApplyTip(log, c, valid, CommitIdOpts, now)
    IN  IF base = Thrown THEN Thrown ELSE ResetToCommit(base, c, TRUE, now)

-----------------------------------------------------------------------------
(* Streams none of whose commits a node ever refuses: all are valid, none  *)
(* expires, there is one init event, and no anchor is older than those it  *)
(* builds on (blocks come in the order of their timestamps).               *)
NothingIsRefused ==
    /\ Invalid = {} /\ \A c \in Commit : Expires[c] = 0
    /\ \A c \in Commit : Prev[c] = NoCommit => c = Genesis
    /\ \A b \in TimeEvents : \A i \in DOMAIN ChainTo[b] :
            ChainTo[b][i] \in TimeEvents => AnchorTime[ChainTo[b][i]] <= AnchorTime[b]

(* Blocks have different timestamps where it matters: two anchors have the *)
(* same one only if one of them builds on the other.                       *)
NothingTies ==
    \A a, b \in TimeEvents : AnchorTime[a] = AnchorTime[b] =>
        \/ \E k \in 1..Len(ChainTo[b]) : ChainTo[b][k] = a
        \/ \E k \in 1..Len(ChainTo[a]) : ChainTo[a][k] = b

(* Streams whose commits are all valid, whose capabilities do not expire,  *)
(* and whose histories, where they part, are anchored at different times.  *)
NothingInDispute ==
    Invalid = {} /\ (\A c \in Commit : Expires[c] = 0) /\ NothingTies
=============================================================================
