--------------------------- MODULE StreamsProofs ---------------------------
(***************************************************************************)
(* Proofs about streams, for any forest of commits.                        *)
(*                                                                         *)
(* About Repository, for any number of calls: the two queues make every    *)
(* RunningState a register, and the node, as long as its calls share one   *)
(* RunningState, one register, that keeps the updates it has handled.      *)
(*                                                                         *)
(* About Handlers, for any number of nodes: the content of a state follows *)
(* its log, and the logs are those that TipSync's nodes hold.              *)
(***************************************************************************)
EXTENDS Repository, Handlers, TLAPS

(* What TipSyncProofs knows of the operators of StreamLog.                 *)
Tips == INSTANCE TipSyncProofs WITH
            Node <- {}, Flaky <- {}, MaxNow <- 1, log <- <<>>, stored <- {}, seen <- <<>>, now <- 1

LEMMA LoadsAlike ==
    ASSUME NEW c, NEW valid, NEW time
    PROVE  LoadStateFromTip(c, valid, FALSE, time) = Tips!LoadStateFromTip(c, valid, FALSE, time)
<1>1. \A tip : SyncFullLog(tip) = Tips!SyncFullLog(tip)
  <2>1. ChainTo = Tips!ChainTo
    BY DEF ChainTo, Tips!ChainTo
  <2> QED  BY <2>1 DEF SyncFullLog, Tips!SyncFullLog
<1>2. \A cids : VerifyAnchors(cids, valid) = Tips!VerifyAnchors(cids, valid)
  BY DEF VerifyAnchors, Tips!VerifyAnchors, Min, Tips!Min, NoTime, Tips!NoTime
<1>3. \A new : ApplyLog(<<>>, new, FALSE, time) = Tips!ApplyLog(<<>>, new, FALSE, time)
  BY DEF ApplyLog, Tips!ApplyLog, Min, Tips!Min, Max, Tips!Max, Thrown, Tips!Thrown,
         Accepts, Tips!Accepts, Expired, Tips!Expired, NoTime, Tips!NoTime,
         Settle, Tips!Settle, Tip, Tips!Tip, Last, Tips!Last
<1> QED  BY <1>1, <1>2, <1>3 DEF LoadStateFromTip, Tips!LoadStateFromTip

LEMMA LoadsGiveAState ==
    ASSUME Genesis \notin Invalid, Expires[Genesis] = 0, NEW c \in Commit, NEW valid, NEW time
    PROVE  LoadStateFromTip(c, valid, FALSE, time) # Thrown
<1>1. Tips!LoadStateFromTip(c, valid, FALSE, time) # Tips!Thrown
  <2>1. 1 \in Nat \ {0}
    OBVIOUS
  <2> QED  BY <2>1, Tips!LoadsGiveAState, ForestAssumption, Zenon DEF NoTime, Tips!NoTime
<1> QED  BY <1>1, LoadsAlike DEF Thrown, Tips!Thrown

(* A user's commit that is not refused has the effect it would have had as *)
(* a tip from the network: the two option sets differ only in what throws. *)
LEMMA UserAgreesWithNetwork ==
    ASSUME NEW log, NEW c, NEW valid, NEW time,
           ApplyCommitFromUser(log, c, valid, time) # Thrown
    PROVE  ApplyCommitFromUser(log, c, valid, time) = ApplyTipFromNetwork(log, c, valid, time)
<1> DEFINE new == VerifyAnchors(SyncLogUntilMatch(c, CidsOf(log)), valid)
<1> DEFINE user == ApplyWithoutCacaoVerification(log, new, UserOpts, time)
<1> DEFINE net == ApplyWithoutCacaoVerification(log, new, NetworkOpts, time)
<1>1. /\ ApplyCommitFromUser(log, c, valid, time) = IF Usable(user, time) THEN user ELSE Thrown
      /\ ApplyTipFromNetwork(log, c, valid, time) = IF Usable(net, time) THEN net ELSE Thrown
  BY DEF ApplyCommitFromUser, ApplyTipFromNetwork, ApplyTip, ApplyLogToState
<1>2. user # Thrown
  BY <1>1
<1>3. ApplyLog(log, new, TRUE, time) # Thrown
        => ApplyLog(log, new, TRUE, time) = ApplyLog(log, new, FALSE, time)
  <2> HIDE DEF new
  <2> QED  BY DEF ApplyLog
<1>4. user = net
  <2> HIDE DEF new
  <2>1. CASE new = <<>>
    BY <2>1 DEF ApplyWithoutCacaoVerification
  <2>2. CASE new # <<>>
    <3> DEFINE local == SubSeq(log, IndexOf(log, Prev[new[1].cid]) + 1, Len(log))
    <3>1. user = IF local = <<>> THEN ApplyLog(log, new, TRUE, time) ELSE Thrown
      BY <2>2 DEF ApplyWithoutCacaoVerification, UserOpts
    <3>2. local = <<>>
      BY <3>1, <1>2
    <3>3. net = ApplyLog(log, new, FALSE, time)
      BY <2>2, <3>2 DEF ApplyWithoutCacaoVerification, NetworkOpts
    <3> QED  BY <3>1, <3>2, <3>3, <1>2, <1>3
  <2> QED  BY <2>1, <2>2
<1> QED  BY <1>1, <1>4

LEMMA AppliesAlike ==
    ASSUME NEW hist, NEW c, NEW valid, NEW opts, NEW time
    PROVE  ApplyTip(hist, c, valid, opts, time) = Tips!ApplyTip(hist, c, valid, opts, time)
<1>1. ChainTo = Tips!ChainTo
  BY DEF ChainTo, Tips!ChainTo
<1>2. \A cids : VerifyAnchors(cids, valid) = Tips!VerifyAnchors(cids, valid)
  BY DEF VerifyAnchors, Tips!VerifyAnchors, Min, Tips!Min, NoTime, Tips!NoTime
<1>3. CidsOf(hist) = Tips!CidsOf(hist)
  BY DEF CidsOf, Tips!CidsOf
<1>4. \A known : SyncLogUntilMatch(c, known) = Tips!SyncLogUntilMatch(c, known)
  BY <1>1 DEF SyncLogUntilMatch, Tips!SyncLogUntilMatch, Max, Tips!Max
<1>5. \A h, new, strict : ApplyLog(h, new, strict, time) = Tips!ApplyLog(h, new, strict, time)
  BY DEF ApplyLog, Tips!ApplyLog, Min, Tips!Min, Max, Tips!Max, Thrown, Tips!Thrown,
         Accepts, Tips!Accepts, Expired, Tips!Expired, NoTime, Tips!NoTime,
         Settle, Tips!Settle, Tip, Tips!Tip, Last, Tips!Last
<1>6. \A d : SyncFullLog(d) = Tips!SyncFullLog(d)
  BY <1>1 DEF SyncFullLog, Tips!SyncFullLog
<1>7. \A d : TrustedLog(hist, d, FALSE) = Tips!TrustedLog(hist, d, FALSE)
  BY <1>6 DEF TrustedLog, Tips!TrustedLog, CopyTrustedTimestamps, Tips!CopyTrustedTimestamps,
              Min, Tips!Min, NoTime, Tips!NoTime
<1>8. \A d : ResetToCommit(hist, d, FALSE, time) = Tips!ResetToCommit(hist, d, FALSE, time)
  BY <1>3, <1>5, <1>7 DEF ResetToCommit, Tips!ResetToCommit, Thrown, Tips!Thrown
<1>9. \A d : IndexOf(hist, d) = Tips!IndexOf(hist, d)
  BY DEF IndexOf, Tips!IndexOf, SelectInSeq, Tips!SelectInSeq, Min, Tips!Min
<1>10. \A one, two : PicksFirst(one, two) = Tips!PicksFirst(one, two)
  BY DEF PicksFirst, Tips!PicksFirst, AnchoredBefore, Tips!AnchoredBefore,
         FirstAnchor, Tips!FirstAnchor, SelectInSeq, Tips!SelectInSeq, Min, Tips!Min,
         LongerOrLowerCid, Tips!LongerOrLowerCid, RelevantLength, Tips!RelevantLength,
         Tip, Tips!Tip, Last, Tips!Last
<1>11. \A new : ApplyWithoutCacaoVerification(hist, new, opts, time)
                    = Tips!ApplyWithoutCacaoVerification(hist, new, opts, time)
  BY <1>5, <1>8, <1>9, <1>10 DEF ApplyWithoutCacaoVerification, Tips!ApplyWithoutCacaoVerification,
                                 Thrown, Tips!Thrown
<1>12. \A h : Usable(h, time) = Tips!Usable(h, time)
  BY DEF Usable, Tips!Usable, Expired, Tips!Expired, NoTime, Tips!NoTime
<1>13. \A new : ApplyLogToState(hist, new, opts, time) = Tips!ApplyLogToState(hist, new, opts, time)
  BY <1>11, <1>12 DEF ApplyLogToState, Tips!ApplyLogToState, Thrown, Tips!Thrown
<1> QED  BY <1>2, <1>3, <1>4, <1>13 DEF ApplyTip, Tips!ApplyTip

-----------------------------------------------------------------------------
(* A sequence of RunningStates, and what a call refers to lies in it.      *)
HeapShape == \E L, P : heap \in Seq([log : L, pinned : P])

(* The steps of a call that has the loadingQ lane.                         *)
Searching == {"looking", "reading", "syncing", "resyncing", "fetching", "creating"}

(* What is true of call c: only a node that syncs takes the steps of a     *)
(* sync, a call has the lane it works in, and, as long as TipsAreSafe, what*)
(* it read before it awaits is still what its RunningState holds.  For a   *)
(* sync this needs that nobody else knows of the RunningState yet.         *)
CallInv(c) ==
    /\ pc[c] \in {"syncing", "resyncing", "fetching", "updating"} => ~rust
    /\ pc[c] \in Searching => loading = c
    /\ pc[c] = "peeking" => Kind[c] = "tip"
    /\ pc[c] \in {"apply", "applying", "storing"} => Brings(c)
    /\ pc[c] \in {"syncing", "updating", "apply", "applying", "storing"} => ref[c] # 0
    /\ pc[c] \in {"applying", "storing"} => executing = c
    /\ pc[c] = "applying" /\ TipsAreSafe /\ ref[c] \notin crossed => base[c] = heap[ref[c]].log
    /\ pc[c] = "syncing" /\ TipsAreSafe => base[c] = heap[ref[c]].log
    /\ pc[c] = "syncing" /\ TipsAreSafe => \A d \in Call \ {c} : ref[d] # ref[c]

(* A view that has given its state to a RunningState refers to it.         *)
ViewsInv ==
    /\ DOMAIN phase = View /\ kept \in [View -> 0..Len(heap)]
    /\ \A v \in View : phase[v] = "keeping" => kept[v] # 0

RegisterInv ==
    /\ HeapShape
    /\ DOMAIN pc = Call /\ DOMAIN base = Call
    /\ cache \in 0..Len(heap)
    /\ ref \in [Call -> 0..Len(heap)]
    /\ \A c \in Call : CallInv(c)
    /\ ViewsInv

(* What the invariant says of the heap, without its elements.              *)
LEMMA Shape ==
    ASSUME RegisterInv
    PROVE  /\ HeapShape /\ cache \in 0..Len(heap) /\ ref \in [Call -> 0..Len(heap)]
           /\ Len(heap) \in Nat /\ DOMAIN heap = 1..Len(heap)
<1>1. HeapShape /\ cache \in 0..Len(heap) /\ ref \in [Call -> 0..Len(heap)]
  BY DEF RegisterInv
<1>2. Len(heap) \in Nat /\ DOMAIN heap = 1..Len(heap)
  BY <1>1 DEF HeapShape
<1> QED  BY <1>1, <1>2

(* The steps of calls leave views alone.                                   *)
LEMMA ViewsStay ==
    ASSUME RegisterInv, UNCHANGED views, HeapShape', Len(heap') >= Len(heap)
    PROVE  ViewsInv' /\ crossed' = crossed
<1>1. UNCHANGED <<phase, kept, crossed>>
  BY DEF views
<1>2. Len(heap) \in Nat /\ Len(heap') \in Nat /\ ViewsInv
  BY Shape DEF HeapShape, RegisterInv
<1> QED  BY <1>1, <1>2 DEF ViewsInv

(* A new RunningState leaves the others as they are.                       *)
LEMMA NewShape ==
    ASSUME HeapShape, NEW log, NEW pinned, RegisterNew(log, pinned)
    PROVE  /\ HeapShape'
           /\ Len(heap') = Len(heap) + 1
           /\ \A r \in 1..Len(heap) : heap'[r] = heap[r]
           /\ heap'[Len(heap')].log = log
           /\ cache' = Len(heap')
<1>1. PICK L, P : heap \in Seq([log : L, pinned : P])
  BY DEF HeapShape
<1> DEFINE running == [log |-> log, pinned |-> IF pinned THEN CidsOf(log) ELSE {}]
<1>2. heap' = Append(heap, running) /\ cache' = Len(heap) + 1
  BY DEF RegisterNew, Fresh
<1>3. heap \in Seq([log : L \cup {running.log}, pinned : P \cup {running.pinned}])
  <2>1. [log : L, pinned : P] \subseteq [log : L \cup {running.log}, pinned : P \cup {running.pinned}]
    OBVIOUS
  <2>2. \A S, T : S \subseteq T => Seq(S) \subseteq Seq(T)
    OBVIOUS
  <2> HIDE DEF running
  <2> QED  BY <1>1, <2>1, <2>2
<1>4. running \in [log : L \cup {running.log}, pinned : P \cup {running.pinned}] /\ running.log = log
  OBVIOUS
<1> HIDE DEF running
<1>5. heap' \in Seq([log : L \cup {running.log}, pinned : P \cup {running.pinned}])
  BY <1>2, <1>3, <1>4
<1>6. Len(heap') = Len(heap) + 1 /\ \A r \in 1..Len(heap) : heap'[r] = heap[r]
  BY <1>2, <1>1
<1>7. heap'[Len(heap')].log = log
  BY <1>1, <1>2, <1>4
<1>8. HeapShape'
  BY <1>5 DEF HeapShape
<1>9. cache' = Len(heap')
  BY <1>1, <1>2, <1>6
<1> QED  BY <1>6, <1>7, <1>8, <1>9

LEMMA RegisterShape ==
    ASSUME HeapShape, NEW c, NEW log, NEW pinned, Register(c, log, pinned)
    PROVE  /\ HeapShape'
           /\ Len(heap') = Len(heap) + 1
           /\ \A r \in 1..Len(heap) : heap'[r] = heap[r]
           /\ heap'[Len(heap')].log = log
           /\ cache' = Len(heap')
           /\ ref' = [ref EXCEPT ![c] = Len(heap')]
<1>1. RegisterNew(log, pinned) /\ ref' = [ref EXCEPT ![c] = cache']
  BY DEF Register, RegisterNew
<1> QED  BY <1>1, NewShape

LEMMA SameShape ==
    ASSUME HeapShape, UNCHANGED heap
    PROVE  HeapShape' /\ Len(heap') = Len(heap)
BY DEF HeapShape

(* A RunningState that gets a new state.                                   *)
LEMMA EmitShape ==
    ASSUME HeapShape, NEW r \in 1..Len(heap), NEW log, heap' = [heap EXCEPT ![r].log = log]
    PROVE  /\ HeapShape' /\ Len(heap') = Len(heap)
           /\ heap'[r].log = log
           /\ \A i \in 1..Len(heap) : i # r => heap'[i] = heap[i]
<1>1. PICK L, P : heap \in Seq([log : L, pinned : P])
  BY DEF HeapShape
<1> DEFINE S == [log : L \cup {log}, pinned : P]
<1>2. heap \in Seq(S)
  <2>1. [log : L, pinned : P] \subseteq S
    OBVIOUS
  <2>2. \A A, B : A \subseteq B => Seq(A) \subseteq Seq(B)
    OBVIOUS
  <2> HIDE DEF S
  <2> QED  BY <1>1, <2>1, <2>2
<1>3. heap[r] \in [log : L, pinned : P]
  BY <1>1, \A R, i : heap \in Seq(R) /\ i \in 1..Len(heap) => heap[i] \in R
<1>4. [heap[r] EXCEPT !.log = log] \in S /\ [heap[r] EXCEPT !.log = log].log = log
  BY <1>3
<1>5. heap' \in Seq(S) /\ Len(heap') = Len(heap) /\ heap'[r].log = log
        /\ \A i \in 1..Len(heap) : i # r => heap'[i] = heap[i]
  <2> HIDE DEF S
  <2> QED  BY <1>2, <1>4
<1> QED  BY <1>5 DEF HeapShape

(* Pinning a RunningState changes what is pinned, not the state.           *)
LEMMA PinShape ==
    ASSUME HeapShape, NEW r \in 1..Len(heap), UpdateIfPinned(r)
    PROVE  /\ HeapShape' /\ Len(heap') = Len(heap)
           /\ \A i \in 1..Len(heap) : heap'[i].log = heap[i].log
<1> DEFINE new == CidsOf(heap[r].log)
<1>1. PICK L, P : heap \in Seq([log : L, pinned : P])
  BY DEF HeapShape
<1>2. UNCHANGED heap \/ heap' = [heap EXCEPT ![r].pinned = new]
  BY DEF UpdateIfPinned
<1> DEFINE S == [log : L, pinned : P \cup {new}]
<1>3. heap \in Seq(S)
  <2>1. [log : L, pinned : P] \subseteq S
    OBVIOUS
  <2>2. \A A, B : A \subseteq B => Seq(A) \subseteq Seq(B)
    OBVIOUS
  <2> HIDE DEF S
  <2> QED  BY <1>1, <2>1, <2>2
<1>4. heap[r] \in [log : L, pinned : P]
  BY <1>1, \A R, i : heap \in Seq(R) /\ i \in 1..Len(heap) => heap[i] \in R
<1> HIDE DEF new
<1>5. /\ [heap[r] EXCEPT !.pinned = new] \in S
      /\ [heap[r] EXCEPT !.pinned = new].log = heap[r].log
  BY <1>4
<1>6. heap' \in Seq(S) /\ Len(heap') = Len(heap)
  <2> HIDE DEF S
  <2> QED  BY <1>2, <1>3, <1>5
<1>7. ASSUME NEW i \in 1..Len(heap) PROVE heap'[i].log = heap[i].log
  BY <1>1, <1>2, <1>5
<1> QED  BY <1>6, <1>7 DEF HeapShape

(* A step of call c outside the executionQ that changes the log of no      *)
(* RunningState: there may be a new RunningState, and the loadingQ moves.  *)
LEMMA OutsideKeeps ==
    ASSUME RegisterInv, UNCHANGED views, NEW c \in Call, NEW from, NEW to, Step(c, from, to),
           from \notin {"apply", "applying", "storing", "done", "failed"},
           to \notin {"applying", "storing"},
           UNCHANGED <<rust, executing>>,
           HeapShape', Len(heap') >= Len(heap),
           \A r \in 1..Len(heap) : heap'[r].log = heap[r].log,
           cache' \in 0..Len(heap'),
           NEW n \in 0..Len(heap'), ref' = [ref EXCEPT ![c] = n],
           DOMAIN base' = Call, \A d \in Call : d # c => base'[d] = base[d],
           to \in Searching => loading' = c,
           from \in Searching \/ loading = NoCall \/ UNCHANGED loading,
           n = ref[c] \/ from \in Searching \/ (Kind[c] = "tip" /\ to = "apply"),
           to \in {"syncing", "resyncing", "fetching", "updating"} => ~rust,
           to = "peeking" => Kind[c] = "tip",
           to = "apply" => Brings(c),
           to \in {"syncing", "updating", "apply"} => n # 0,
           to = "syncing" => n = Len(heap) + 1 /\ base'[c] = heap'[n].log
    PROVE  RegisterInv'
<1>1. Len(heap) \in Nat /\ Len(heap') \in Nat /\ ref \in [Call -> 0..Len(heap)]
  BY Shape DEF HeapShape
<1>2. ViewsInv' /\ crossed' = crossed
  BY ViewsStay
<1>3. pc' = [pc EXCEPT ![c] = to] /\ pc[c] = from /\ DOMAIN pc = Call
  BY DEF Step, RegisterInv
<1>4. ref' \in [Call -> 0..Len(heap')] /\ ref'[c] = n /\ \A d \in Call \ {c} : ref'[d] = ref[d]
  BY <1>1
<1>5. TipsAreSafe' => TipsAreSafe
  BY <1>3 DEF TipsAreSafe
<1>6. pc'[c] = to /\ \A d \in Call \ {c} : pc'[d] = pc[d]
  BY <1>3
<1>7. CallInv(c)'
  <2>1. to = "syncing" => \A d \in Call \ {c} : ref'[d] # n
    BY <1>1, <1>4
  <2> QED  BY <1>4, <1>6, <2>1 DEF CallInv, Brings, Searching
<1>8. ASSUME NEW d \in Call, d # c PROVE CallInv(d)'
  <2>1. pc'[d] = pc[d] /\ ref'[d] = ref[d] /\ base'[d] = base[d] /\ CallInv(d)
    BY <1>4, <1>6, <1>8 DEF RegisterInv
  <2>2. ref[d] # 0 => heap'[ref[d]].log = heap[ref[d]].log
    BY <1>1
  <2>3. pc[d] \in Searching => from \notin Searching /\ UNCHANGED loading
    BY <1>3, <1>8, <2>1, CallsAssumption DEF RegisterInv, CallInv
  <2>4. pc[d] = "syncing" /\ TipsAreSafe' => \A e \in Call \ {d} : ref'[e] # ref[d]
    <3> SUFFICES ASSUME pc[d] = "syncing", TipsAreSafe', NEW e \in Call \ {d}
                 PROVE  ref'[e] # ref[d]
      OBVIOUS
    <3>1. ref[e] # ref[d]
      BY <1>5, <2>1 DEF CallInv
    <3>2. ~rust /\ from \notin Searching
      BY <2>1, <2>3 DEF CallInv, Searching
    <3>3. ~(Kind[c] = "tip" /\ to = "apply")
      BY <1>6, <3>2 DEF TipsAreSafe
    <3> QED  BY <1>4, <3>1, <3>2, <3>3
  <2> HIDE DEF RegisterInv
  <2> QED  BY <1>5, <1>2, <2>1, <2>2, <2>3, <2>4 DEF CallInv, Brings, Searching
<1>9. DOMAIN pc' = Call
  BY <1>3
<1> QED  BY <1>4, <1>7, <1>8, <1>9, <1>2 DEF RegisterInv

(* Such a step that makes no RunningState and refers to no other.          *)
Unmoved == UNCHANGED <<heap, cache, ref, base>>

LEMMA WaitingKeeps ==
    ASSUME RegisterInv, UNCHANGED views, NEW c \in Call, NEW from, NEW to, Step(c, from, to),
           from \notin {"apply", "applying", "storing", "done", "failed"},
           to \notin {"syncing", "apply", "applying", "storing"},
           UNCHANGED <<rust, executing>>, Unmoved,
           to \in Searching => loading' = c,
           from \in Searching \/ loading = NoCall \/ UNCHANGED loading,
           to \in {"resyncing", "fetching", "updating"} => ~rust,
           to = "peeking" => Kind[c] = "tip",
           to = "updating" => ref[c] # 0
    PROVE  RegisterInv'
<1>1. /\ HeapShape /\ cache \in 0..Len(heap) /\ ref \in [Call -> 0..Len(heap)]
      /\ Len(heap) \in Nat
  BY Shape
<1>2. PICK n \in 0..Len(heap') : n = ref[c] /\ ref' = [ref EXCEPT ![c] = n]
  BY <1>1 DEF Unmoved
<1>3. HeapShape' /\ Len(heap') >= Len(heap) /\ cache' \in 0..Len(heap')
  BY <1>1, SameShape DEF Unmoved
<1>4. DOMAIN base' = Call /\ \A d \in Call : d # c => base'[d] = base[d]
  BY DEF RegisterInv, Unmoved
<1>5. \A r \in 1..Len(heap) : heap'[r].log = heap[r].log
  BY DEF Unmoved
<1>6. /\ from \notin {"apply", "applying", "storing", "done", "failed"}
      /\ to \notin {"applying", "storing"} /\ to # "syncing" /\ to # "apply"
      /\ to \in {"syncing", "resyncing", "fetching", "updating"} => ~rust
      /\ to \in {"syncing", "updating", "apply"} => n # 0
  BY <1>2
<1> QED  BY <1>2, <1>3, <1>4, <1>5, <1>6, OutsideKeeps

-----------------------------------------------------------------------------
(* load and fromMemoryOrStore: the steps inside the loadingQ.              *)
LEMMA BeginLoadKeeps ==
    ASSUME RegisterInv, UNCHANGED views, NEW c \in Call, BeginLoad(c)
    PROVE  RegisterInv'
<1>1. /\ Step(c, BeforeLoad(c), "looking") /\ loading = NoCall /\ loading' = c
      /\ UNCHANGED <<rust, executing>> /\ Unmoved
  BY DEF BeginLoad, settings, Unmoved
<1>2. BeforeLoad(c) \in {"unknown", "start"}
  BY DEF BeforeLoad
<1> QED  BY <1>1, <1>2, WaitingKeeps

LEMMA FindInCacheKeeps ==
    ASSUME RegisterInv, UNCHANGED views, NEW c \in Call, FindInCache(c)
    PROVE  RegisterInv'
<1>1. PICK to \in {"apply", "done", "resyncing"} :
        /\ Step(c, "looking", to) /\ (to = "apply" => Brings(c))
        /\ to = "resyncing" => ~rust /\ UNCHANGED loading
  BY DEF FindInCache, EndLoad, AfterLoad, Brings
<1>2. /\ cache # 0 /\ ref' = [ref EXCEPT ![c] = cache]
      /\ UNCHANGED <<rust, heap, cache, executing>>
  BY DEF FindInCache, settings
<1>3. DOMAIN base' = Call /\ \A d \in Call : d # c => base'[d] = base[d]
  BY DEF FindInCache, RegisterInv
<1>4. HeapShape' /\ Len(heap') >= Len(heap) /\ cache \in 0..Len(heap')
  BY <1>2, Shape, SameShape
<1>5. loading = c
  BY <1>1 DEF Step, RegisterInv, CallInv, Searching
<1>6. to \in Searching => loading' = c
  BY <1>1, <1>5 DEF Searching
<1>7. "looking" \in Searching
  BY DEF Searching
<1>8. \A r \in 1..Len(heap) : heap'[r].log = heap[r].log
  BY <1>2
<1> QED  BY <1>1, <1>2, <1>3, <1>4, <1>6, <1>7, <1>8, OutsideKeeps

LEMMA AskingKeeps ==
    ASSUME RegisterInv, UNCHANGED views, NEW c \in Call, AskStore(c) \/ FindNowhere(c) \/ LoadFails(c)
    PROVE  RegisterInv'
<1>1. PICK from \in Searching, to \in {"reading", "ignored", "failed", "creating", "fetching"} :
        /\ Step(c, from, to) /\ (to = "fetching" => ~rust)
        /\ to \notin {"ignored", "failed"} => UNCHANGED loading
  BY DEF AskStore, FindNowhere, LoadFails, EndLoad, lanes, Searching
<1>2. UNCHANGED <<rust, executing>> /\ Unmoved
  BY DEF AskStore, FindNowhere, LoadFails, settings, lanes, Unmoved
<1>3. from \in Searching /\ loading = c
  BY <1>1 DEF Step, RegisterInv, CallInv, Searching
<1>4. to \in Searching => loading' = c
  BY <1>1, <1>3 DEF Searching
<1>5. from \notin {"apply", "applying", "storing", "done", "failed"}
  BY DEF Searching
<1> QED  BY <1>1, <1>2, <1>3, <1>4, <1>5, WaitingKeeps

(* Every load that makes a RunningState refers to the one it made.         *)
LEMMA MakingKeeps ==
    ASSUME RegisterInv, UNCHANGED views, NEW c \in Call, NEW from \in Searching, NEW to,
           Step(c, from, to), NEW log, NEW pinned, Register(c, log, pinned),
           UNCHANGED <<rust, executing>>,
           to \notin {"applying", "storing", "peeking"},
           DOMAIN base' = Call, \A d \in Call : d # c => base'[d] = base[d],
           to \in Searching => UNCHANGED loading,
           to \in {"syncing", "resyncing", "fetching", "updating"} => ~rust,
           to = "apply" => Brings(c),
           to = "syncing" => base'[c] = log
    PROVE  RegisterInv'
<1>1. /\ HeapShape' /\ Len(heap') = Len(heap) + 1
      /\ \A r \in 1..Len(heap) : heap'[r] = heap[r]
      /\ heap'[Len(heap')].log = log
      /\ cache' = Len(heap') /\ ref' = [ref EXCEPT ![c] = Len(heap')]
      /\ Len(heap) \in Nat
  BY Shape, RegisterShape
<1>2. /\ Len(heap') \in 0..Len(heap') /\ cache' \in 0..Len(heap') /\ Len(heap') >= Len(heap)
      /\ Len(heap') # 0
  BY <1>1
<1>3. loading = c
  BY DEF Step, RegisterInv, CallInv
<1>4. to \in Searching => loading' = c
  BY <1>3
<1>5. from \notin {"apply", "applying", "storing", "done", "failed"}
  BY DEF Searching
<1>6. \A r \in 1..Len(heap) : heap'[r].log = heap[r].log
  BY <1>1
<1>7. to \notin {"applying", "storing"} /\ to # "peeking"
  OBVIOUS
<1> QED  BY <1>1, <1>2, <1>4, <1>5, <1>6, <1>7, OutsideKeeps

LEMMA FindInStoreKeeps ==
    ASSUME RegisterInv, UNCHANGED views, NEW c \in Call, FindInStore(c)
    PROVE  RegisterInv'
<1>1. PICK to \in {"apply", "done", "updating", "resyncing", "syncing"} :
        /\ Step(c, "reading", to) /\ (to = "apply" => Brings(c))
        /\ to \in {"updating", "resyncing", "syncing"} => ~rust
        /\ to \in {"resyncing", "syncing"} => UNCHANGED loading /\ base' = [base EXCEPT ![c] = store]
  BY DEF FindInStore, EndLoad, AfterLoad, Brings
<1>2. Register(c, store, TRUE) /\ UNCHANGED <<rust, executing>>
  BY DEF FindInStore, settings
<1>3. DOMAIN base' = Call /\ \A d \in Call : d # c => base'[d] = base[d]
  BY DEF FindInStore, RegisterInv
<1>4. to = "syncing" => base'[c] = store
  BY <1>1 DEF RegisterInv
<1>5. to \in Searching => UNCHANGED loading
  BY <1>1 DEF Searching
<1>6. "reading" \in Searching
  BY DEF Searching
<1> QED  BY <1>1, <1>2, <1>3, <1>4, <1>5, <1>6, MakingKeeps

LEMMA NewStateKeeps ==
    ASSUME RegisterInv, UNCHANGED views, NEW c \in Call,
           LoadGenesis(c) \/ \E tips : Resync(c, tips) \/ Fetch(c, tips)
    PROVE  RegisterInv'
<1>1. PICK from \in {"creating", "resyncing", "fetching"}, to \in {"apply", "done", "updating"} :
        /\ Step(c, from, to) /\ (to = "apply" => Brings(c))
        /\ to = "updating" => ~rust
  <2>1. pc[c] \in {"resyncing", "fetching"} => ~rust
    BY DEF RegisterInv, CallInv
  <2> QED  BY <2>1 DEF LoadGenesis, Resync, Fetch, EndLoad, AfterLoad, Brings, Step
<1>2. \E log, pinned : Register(c, log, pinned)
  BY DEF LoadGenesis, Resync, Fetch
<1>3. UNCHANGED <<rust, executing, base>>
  BY DEF LoadGenesis, Resync, Fetch, settings
<1>4. DOMAIN base' = Call /\ \A d \in Call : d # c => base'[d] = base[d]
  BY <1>3 DEF RegisterInv
<1>5. from \in Searching /\ to \notin Searching
  BY DEF Searching
<1> QED  BY <1>1, <1>2, <1>3, <1>4, <1>5, MakingKeeps

(* syncStream writes what it made of the state it read: no one else has    *)
(* the RunningState, so nothing is lost, and nobody's own reading is old.  *)
LEMMA SyncKeeps ==
    ASSUME RegisterInv, UNCHANGED views, NEW c \in Call, NEW tips, Sync(c, tips)
    PROVE  RegisterInv'
<1>1. /\ pc[c] = "syncing" /\ pc' = [pc EXCEPT ![c] = "updating"]
      /\ loading' = NoCall
      /\ UNCHANGED <<rust, executing, cache, ref, base>>
  BY DEF Sync, EndLoad, Step, settings
<1>2. ~rust /\ loading = c /\ ref[c] \in 1..Len(heap)
  BY <1>1, Shape DEF RegisterInv, CallInv, Searching
<1>3. PICK log : heap' = [heap EXCEPT ![ref[c]].log = log]
  BY DEF Sync
<1>4. /\ HeapShape' /\ Len(heap') = Len(heap)
      /\ \A r \in 1..Len(heap) : r # ref[c] => heap'[r] = heap[r]
  BY <1>2, <1>3, Shape, EmitShape
<1>5. ViewsInv' /\ crossed' = crossed
  BY <1>4, Shape, ViewsStay
<1>6. TipsAreSafe' => TipsAreSafe
  BY <1>1 DEF TipsAreSafe, RegisterInv
<1>7. ASSUME NEW d \in Call PROVE CallInv(d)'
  <2>1. CASE d = c
    BY <1>1, <1>2, <1>5, <2>1 DEF CallInv, Searching, RegisterInv
  <2>2. CASE d # c
    <3>1. pc'[d] = pc[d] /\ pc[d] \notin Searching /\ CallInv(d)
      BY <1>1, <1>2, <2>2 DEF RegisterInv, CallInv
    <3>2. TipsAreSafe' => ref[d] # ref[c]
      BY <1>1, <1>6, <2>2 DEF RegisterInv, CallInv
    <3>3. ref[d] # 0 /\ TipsAreSafe' => heap'[ref[d]] = heap[ref[d]]
      BY <1>4, <3>2, Shape
    <3> QED  BY <1>1, <1>6, <1>5, <3>1, <3>3 DEF CallInv, Brings, Searching
  <2> QED  BY <2>1, <2>2
<1>8. DOMAIN pc' = Call /\ DOMAIN base' = Call
  BY <1>1 DEF RegisterInv
<1> QED  BY <1>1, <1>4, <1>7, <1>8, <1>5, Shape DEF RegisterInv

(* The loaded state is pinned after the lane was left.                     *)
LEMMA UpdateLoadedKeeps ==
    ASSUME RegisterInv, UNCHANGED views, NEW c \in Call, UpdateLoaded(c)
    PROVE  RegisterInv' /\ \A r \in 1..Len(heap) : heap'[r].log = heap[r].log
<1>1. PICK to \in {"apply", "done"} : Step(c, "updating", to) /\ (to = "apply" => Brings(c))
  BY DEF UpdateLoaded, AfterLoad, Brings
<1>2. UpdateIfPinned(ref[c]) /\ UNCHANGED <<rust, cache, executing, loading, ref, base>>
  BY DEF UpdateLoaded, settings, lanes
<1>3. ref[c] # 0 /\ ref[c] \in 1..Len(heap)
  BY <1>1, Shape DEF RegisterInv, CallInv, Step
<1>4. /\ HeapShape' /\ Len(heap') = Len(heap)
      /\ \A r \in 1..Len(heap) : heap'[r].log = heap[r].log
  BY <1>2, <1>3, Shape, PinShape
<1>5. /\ ref' = [ref EXCEPT ![c] = ref[c]] /\ ref[c] \in 0..Len(heap')
      /\ Len(heap') >= Len(heap) /\ cache' \in 0..Len(heap')
  BY <1>2, <1>4, Shape
<1>6. DOMAIN base' = Call /\ \A d \in Call : d # c => base'[d] = base[d]
  BY <1>2 DEF RegisterInv
<1>7. to \notin Searching
  BY DEF Searching
<1> QED  BY <1>1, <1>2, <1>3, <1>4, <1>5, <1>6, <1>7, OutsideKeeps

-----------------------------------------------------------------------------
(* handleUpdateFromNetwork looks for the stream without a lane.            *)
LEMMA PeekKeeps ==
    ASSUME RegisterInv, UNCHANGED views, NEW c \in Call,
           PeekInCache(c) \/ PeekAsksStore(c) \/ PeekInStore(c) \/ PeekNowhere(c)
    PROVE  RegisterInv'
<1>1. /\ HeapShape /\ cache \in 0..Len(heap) /\ ref \in [Call -> 0..Len(heap)]
      /\ Len(heap) \in Nat
  BY Shape
<1>2. Kind[c] = "tip" /\ Brings(c)
  <2>1. pc[c] = "peeking" => Kind[c] = "tip"
    BY DEF RegisterInv, CallInv
  <2> QED  BY <2>1 DEF PeekInCache, PeekAsksStore, PeekInStore, PeekNowhere, Step, Brings
<1>3. DOMAIN base' = Call /\ \A d \in Call : d # c => base'[d] = base[d]
  BY DEF RegisterInv, PeekInCache, PeekAsksStore, PeekInStore, PeekNowhere
<1>4. "apply" \notin Searching
  BY DEF Searching
<1>5. CASE PeekInCache(c)
  <2>1. Step(c, "start", "apply") /\ UNCHANGED <<rust, heap, executing, loading, cache>>
           /\ cache # 0 /\ ref' = [ref EXCEPT ![c] = cache]
    BY <1>5 DEF PeekInCache, lanes, settings
  <2>2. /\ HeapShape' /\ cache \in 0..Len(heap') /\ cache' \in 0..Len(heap')
        /\ Len(heap') >= Len(heap)
    BY <1>1, <2>1, SameShape
  <2>3. \A r \in 1..Len(heap) : heap'[r].log = heap[r].log
    BY <2>1
  <2> QED  BY <1>2, <1>3, <1>4, <2>1, <2>2, <2>3, OutsideKeeps
<1>6. CASE PeekAsksStore(c) \/ PeekNowhere(c)
  <2>1. PICK from \in {"start", "peeking"}, to \in {"peeking", "unknown", "ignored"} : Step(c, from, to)
    BY <1>6 DEF PeekAsksStore, PeekNowhere
  <2>2. UNCHANGED <<rust, executing, loading>> /\ Unmoved
    BY <1>6 DEF PeekAsksStore, PeekNowhere, lanes, settings, Unmoved
  <2>3. to \notin Searching
    BY DEF Searching
  <2> QED  BY <1>2, <2>1, <2>2, <2>3, WaitingKeeps
<1>7. CASE PeekInStore(c)
  <2>1. /\ HeapShape' /\ Len(heap') = Len(heap) + 1
        /\ \A r \in 1..Len(heap) : heap'[r] = heap[r]
        /\ cache' = Len(heap')
        /\ ref' = [ref EXCEPT ![c] = Len(heap')]
    BY <1>1, <1>7, RegisterShape DEF PeekInStore
  <2>2. Len(heap') \in 0..Len(heap') /\ Len(heap') # 0 /\ cache' \in 0..Len(heap')
          /\ Len(heap') >= Len(heap)
    BY <1>1, <2>1
  <2>3. Step(c, "peeking", "apply") /\ UNCHANGED <<rust, executing, loading>>
    BY <1>7 DEF PeekInStore, lanes, settings
  <2>4. \A r \in 1..Len(heap) : heap'[r].log = heap[r].log
    BY <2>1
  <2> QED  BY <1>2, <1>3, <1>4, <2>1, <2>2, <2>3, <2>4, OutsideKeeps
<1> QED  BY <1>5, <1>6, <1>7

-----------------------------------------------------------------------------
(* The executionQ: a call reads its RunningState when it gets the lane.    *)
LEMMA BeginApplyKeeps ==
    ASSUME RegisterInv, UNCHANGED views, NEW c \in Call, BeginApply(c)
    PROVE  RegisterInv'
<1>1. /\ pc[c] = "apply" /\ pc' = [pc EXCEPT ![c] = "applying"]
      /\ executing = NoCall /\ executing' = c
      /\ base' = [base EXCEPT ![c] = heap[ref[c]].log]
      /\ UNCHANGED <<rust, loading, heap, cache, ref>>
  BY DEF BeginApply, Step, Log, settings
<1>2. ViewsInv' /\ crossed' = crossed
  BY <1>1, Shape, SameShape, ViewsStay
<1>3. TipsAreSafe' => TipsAreSafe
  BY <1>1 DEF TipsAreSafe, RegisterInv
<1>4. ASSUME NEW d \in Call PROVE CallInv(d)'
  <2>1. CASE d = c
    BY <1>1, <1>2, <2>1 DEF RegisterInv, CallInv, Brings, Searching
  <2>2. CASE d # c
    <3>1. pc[d] \notin {"applying", "storing"}
      BY <1>1, CallsAssumption DEF RegisterInv, CallInv
    <3>2. pc'[d] = pc[d] /\ base'[d] = base[d] /\ CallInv(d)
      BY <1>1, <2>2 DEF RegisterInv
    <3> QED  BY <1>1, <1>3, <1>2, <3>1, <3>2 DEF CallInv, Brings, Searching
  <2> QED  BY <2>1, <2>2
<1>5. DOMAIN pc' = Call /\ DOMAIN base' = Call
  BY <1>1 DEF RegisterInv
<1> QED  BY <1>1, <1>4, <1>5, <1>2, Shape, SameShape DEF RegisterInv

(* It emits what it made of that state while no other call emits.          *)
LEMMA EndApplyKeeps ==
    ASSUME RegisterInv, UNCHANGED views, NEW c \in Call, EndApply(c)
    PROVE  RegisterInv'
<1>1. /\ pc[c] = "applying" /\ executing = c /\ ref[c] \in 1..Len(heap)
      /\ UNCHANGED <<rust, loading, cache, ref, base>>
  <2>1. pc[c] = "applying"
    BY DEF EndApply, Step
  <2>2. executing = c /\ ref[c] # 0 /\ ref[c] \in 0..Len(heap) /\ Len(heap) \in Nat
    BY <2>1, Shape DEF RegisterInv, CallInv
  <2> QED  BY <2>1, <2>2 DEF EndApply, settings
<1>2. PICK to \in {"storing", "done", "failed"} :
        /\ pc' = [pc EXCEPT ![c] = to]
        /\ \/ /\ to = "storing"
              /\ UNCHANGED executing /\ heap' = [heap EXCEPT ![ref[c]].log = Applied(c)]
           \/ to \in {"done", "failed"} /\ UNCHANGED heap
  BY DEF EndApply, Step
<1>3. /\ HeapShape' /\ Len(heap') = Len(heap)
      /\ \A r \in 1..Len(heap) : r # ref[c] => heap'[r] = heap[r]
  BY <1>1, <1>2, Shape, SameShape, EmitShape
<1>4. ViewsInv' /\ crossed' = crossed
  BY <1>3, Shape, ViewsStay
<1>5. TipsAreSafe' => TipsAreSafe
  BY <1>1, <1>2 DEF TipsAreSafe, RegisterInv
<1>6. ASSUME NEW d \in Call PROVE CallInv(d)'
  <2>1. CASE d = c
    BY <1>1, <1>2, <1>4, <2>1 DEF RegisterInv, CallInv, Brings, Searching
  <2>2. CASE d # c
    <3>1. pc'[d] = pc[d] /\ CallInv(d)
      BY <1>2, <2>2 DEF RegisterInv
    <3>2. pc[d] \notin {"applying", "storing"}
      BY <1>1, <2>2, <3>1 DEF CallInv
    <3>3. pc[d] = "syncing" /\ TipsAreSafe' => ref[d] \in 1..Len(heap) /\ ref[d] # ref[c]
      BY <1>5, <2>2, <3>1, Shape DEF CallInv
    <3>4. pc[d] = "syncing" /\ TipsAreSafe' => heap'[ref[d]] = heap[ref[d]]
      BY <1>3, <3>3
    <3> QED  BY <1>1, <1>5, <1>4, <3>1, <3>2, <3>4 DEF CallInv, Brings, Searching
  <2> QED  BY <2>1, <2>2
<1>7. DOMAIN pc' = Call /\ DOMAIN base' = Call
  BY <1>1, <1>2 DEF RegisterInv
<1> QED  BY <1>1, <1>3, <1>6, <1>7, <1>4, Shape DEF RegisterInv

(* Pinning the new state changes what is pinned, not the state.            *)
LEMMA StoreKeeps ==
    ASSUME RegisterInv, UNCHANGED views, NEW c \in Call, Store(c)
    PROVE  RegisterInv' /\ \A r \in 1..Len(heap) : heap'[r].log = heap[r].log
<1>1. /\ pc[c] = "storing" /\ pc' = [pc EXCEPT ![c] = "done"]
      /\ executing = c /\ ref[c] \in 1..Len(heap)
      /\ UNCHANGED <<rust, loading, cache, ref, base>>
  <2>1. pc[c] = "storing" /\ pc' = [pc EXCEPT ![c] = "done"]
    BY DEF Store, Step
  <2>2. executing = c /\ ref[c] # 0 /\ ref[c] \in 0..Len(heap) /\ Len(heap) \in Nat
    BY <2>1, Shape DEF RegisterInv, CallInv
  <2> QED  BY <2>1, <2>2 DEF Store, settings
<1>2. /\ HeapShape' /\ Len(heap') = Len(heap)
      /\ \A r \in 1..Len(heap) : heap'[r].log = heap[r].log
  BY <1>1, Shape, PinShape DEF Store
<1>3. ViewsInv' /\ crossed' = crossed
  BY <1>2, Shape, ViewsStay
<1>4. TipsAreSafe' => TipsAreSafe
  BY <1>1 DEF TipsAreSafe, RegisterInv
<1>5. ASSUME NEW d \in Call PROVE CallInv(d)'
  <2>1. CASE d = c
    BY <1>1, <1>3, <2>1 DEF RegisterInv, CallInv, Brings, Searching
  <2>2. CASE d # c
    <3>1. pc'[d] = pc[d] /\ CallInv(d)
      BY <1>1, <2>2 DEF RegisterInv
    <3>2. pc[d] \notin {"applying", "storing"}
      BY <1>1, <2>2, <3>1 DEF CallInv
    <3>3. ref[d] # 0 => heap'[ref[d]].log = heap[ref[d]].log
      BY <1>2, Shape
    <3> QED  BY <1>1, <1>4, <1>3, <3>1, <3>2, <3>3 DEF CallInv, Brings, Searching
  <2> QED  BY <2>1, <2>2
<1>6. DOMAIN pc' = Call /\ DOMAIN base' = Call
  BY <1>1 DEF RegisterInv
<1> QED  BY <1>1, <1>2, <1>5, <1>6, <1>3, Shape DEF RegisterInv

(* The cache forgets the stream; its RunningState lives on.                *)
LEMMA EvictKeeps ==
    ASSUME RegisterInv, UNCHANGED views, Evict
    PROVE  RegisterInv'
<1>1. cache' = 0 /\ UNCHANGED <<rust, heap, pc, ref, base, loading, executing>>
  BY DEF Evict, lanes, calls, settings
<1>2. cache' \in 0..Len(heap')
  BY <1>1, Shape
<1>3. ViewsInv' /\ crossed' = crossed
  BY <1>1, Shape, SameShape, ViewsStay
<1>4. ASSUME NEW d \in Call PROVE CallInv(d)'
  BY <1>1, <1>3 DEF RegisterInv, CallInv, Brings, TipsAreSafe, Searching
<1> QED  BY <1>1, <1>2, <1>4, <1>3, SameShape DEF RegisterInv

-----------------------------------------------------------------------------
(* loadAtCommit: what a call knows of its RunningState may become old only *)
(* if a view has moved it, and then it is crossed; a RunningState that is  *)
(* being synced is none that a view has.                                   *)
LEMMA ViewKeeps ==
    ASSUME RegisterInv, NEW v \in View, BeginView(v) \/ LeaveView(v)
    PROVE  RegisterInv'
<1>1. /\ UNCHANGED <<rust, heap, cache, loading, executing, pc, ref, base, kept, crossed>>
      /\ \E to : to # "keeping" /\ phase' = [phase EXCEPT ![v] = to]
  BY DEF BeginView, LeaveView, settings, lanes, calls
<1>2. ViewsInv'
  BY <1>1 DEF RegisterInv, ViewsInv
<1>3. ASSUME NEW d \in Call PROVE CallInv(d)'
  BY <1>1 DEF RegisterInv, CallInv, Brings, TipsAreSafe, Searching
<1> QED  BY <1>1, <1>2, <1>3, SameShape DEF RegisterInv

LEMMA KeepViewKeeps ==
    ASSUME RegisterInv, NEW v \in View, KeepView(v)
    PROVE  RegisterInv'
<1>1. /\ UNCHANGED <<rust, loading, executing, pc, ref, base>>
      /\ phase' = [phase EXCEPT ![v] = "keeping"]
  BY DEF KeepView, settings, lanes, calls
<1>2. HeapShape /\ Len(heap) \in Nat /\ cache \in 0..Len(heap) /\ ref \in [Call -> 0..Len(heap)]
  BY Shape
<1>3. DOMAIN phase = View /\ kept \in [View -> 0..Len(heap)]
      /\ \A u \in View : phase[u] = "keeping" => kept[u] # 0
  BY DEF RegisterInv, ViewsInv
<1>4. CASE Existing(v) = 0
  <2>1. PICK log : RegisterNew(log, FALSE)
    BY <1>4 DEF KeepView
  <2>2. UNCHANGED crossed /\ kept' = [kept EXCEPT ![v] = Len(heap) + 1]
    BY <1>4 DEF KeepView, Fresh
  <2>3. /\ HeapShape' /\ Len(heap') = Len(heap) + 1 /\ cache' = Len(heap')
        /\ \A r \in 1..Len(heap) : heap'[r] = heap[r]
    BY <1>2, <2>1, NewShape
  <2>4. cache' \in 0..Len(heap') /\ ref' \in [Call -> 0..Len(heap')] /\ ViewsInv'
    BY <1>1, <1>2, <1>3, <2>2, <2>3 DEF ViewsInv
  <2>5. ASSUME NEW d \in Call PROVE CallInv(d)'
    <3>1. ref[d] # 0 => heap'[ref[d]] = heap[ref[d]]
      BY <1>2, <2>3
    <3> QED  BY <1>1, <2>2, <3>1 DEF RegisterInv, CallInv, Brings, TipsAreSafe, Searching
  <2> QED  BY <1>1, <2>3, <2>4, <2>5 DEF RegisterInv
<1>5. CASE Existing(v) # 0
  <2> DEFINE r == Existing(v)
  <2>1. /\ Loader[v] \in Call /\ pc[Loader[v]] = "done" /\ r = ref[Loader[v]] /\ r \in 1..Len(heap)
    BY <1>2, <1>5, CallsAssumption DEF Existing
  <2>2. /\ heap' = [heap EXCEPT ![r].log = StateAtCommit(v)] /\ UNCHANGED cache
        /\ kept' = [kept EXCEPT ![v] = r]
        /\ crossed' = crossed \cup {i \in {r} : StateAtCommit(v) # heap[r].log
                                            /\ \E c \in Call : pc[c] = "applying" /\ ref[c] = r}
    BY <1>5 DEF KeepView
  <2> HIDE DEF r
  <2>3. /\ HeapShape' /\ Len(heap') = Len(heap) /\ heap'[r].log = StateAtCommit(v)
        /\ \A i \in 1..Len(heap) : i # r => heap'[i] = heap[i]
    BY <1>2, <2>1, <2>2, EmitShape
  <2>4. ViewsInv'
    BY <1>1, <1>2, <1>3, <2>1, <2>2, <2>3 DEF ViewsInv
  <2>5. ASSUME NEW d \in Call PROVE CallInv(d)'
    <3>1. CallInv(d) /\ (TipsAreSafe' => TipsAreSafe)
      BY <1>1 DEF RegisterInv, TipsAreSafe
    <3>2. pc[d] = "syncing" /\ TipsAreSafe => ref[d] # r
      BY <2>1, <3>1 DEF CallInv
    <3>3. ref[d] # 0 /\ ref[d] # r => heap'[ref[d]] = heap[ref[d]]
      BY <1>2, <2>3
    <3>4. pc[d] = "applying" /\ ref[d] = r /\ r \notin crossed' => heap'[r].log = heap[r].log
      BY <2>2, <2>3
    <3>5. crossed \subseteq crossed'
      BY <2>2
    <3> QED  BY <1>1, <3>1, <3>2, <3>3, <3>4, <3>5 DEF CallInv, Brings, Searching
  <2> QED  BY <1>1, <1>2, <2>2, <2>3, <2>4, <2>5 DEF RegisterInv
<1> QED  BY <1>4, <1>5

LEMMA EndViewKeeps ==
    ASSUME RegisterInv, NEW v \in View, EndView(v)
    PROVE  RegisterInv' /\ \A r \in 1..Len(heap) : heap'[r].log = heap[r].log
<1>1. /\ UNCHANGED <<rust, cache, loading, executing, pc, ref, base, kept, crossed>>
      /\ phase[v] = "keeping" /\ phase' = [phase EXCEPT ![v] = "done"]
      /\ UpdateIfPinned(kept[v])
  BY DEF EndView, settings, lanes, calls
<1>2. kept[v] \in 1..Len(heap) /\ DOMAIN phase = View
  BY <1>1, Shape DEF RegisterInv, ViewsInv
<1>3. /\ HeapShape' /\ Len(heap') = Len(heap)
      /\ \A r \in 1..Len(heap) : heap'[r].log = heap[r].log
  BY <1>1, <1>2, Shape, PinShape
<1>4. ViewsInv'
  BY <1>1, <1>2, <1>3 DEF RegisterInv, ViewsInv
<1>5. ASSUME NEW d \in Call PROVE CallInv(d)'
  <2>1. ref[d] # 0 => heap'[ref[d]].log = heap[ref[d]].log
    BY <1>3, Shape
  <2> QED  BY <1>1, <2>1 DEF RegisterInv, CallInv, Brings, TipsAreSafe, Searching
<1> QED  BY <1>1, <1>3, <1>4, <1>5 DEF RegisterInv

-----------------------------------------------------------------------------
(* No RunningState and no call in a lane at first.                         *)
LEMMA RegisterInit ==
    ASSUME Init
    PROVE  RegisterInv
<1>1. \A L, P : heap \in Seq([log : L, pinned : P])
  BY DEF Init
<1>2. \A c \in Call : pc[c] \in {"start", "unused"}
  BY DEF Init
<1>3. \A c \in Call : CallInv(c)
  BY <1>2 DEF CallInv, Searching
<1>4. ViewsInv
  BY DEF Init, ViewsInv
<1>5. heap = <<>> /\ cache = 0 /\ ref \in [Call -> {0}] /\ DOMAIN pc = Call /\ DOMAIN base = Call
  BY DEF Init
<1> QED  BY <1>1, <1>3, <1>5, <1>4 DEF RegisterInv, HeapShape

(* One case for each action.                                               *)
LEMMA RegisterNext ==
    ASSUME RegisterInv, [Next]_vars
    PROVE  RegisterInv'
<1>1. CASE UNCHANGED vars
  <2>1. UNCHANGED <<rust, heap, cache, loading, executing, pc, ref, base>> /\ UNCHANGED views
    BY <1>1 DEF vars, lanes, calls, settings, views
  <2>2. ViewsInv' /\ crossed' = crossed
    BY <2>1, Shape, SameShape, ViewsStay
  <2>3. ASSUME NEW d \in Call PROVE CallInv(d)'
    BY <2>1, <2>2 DEF RegisterInv, CallInv, Brings, TipsAreSafe, Searching
  <2> QED  BY <2>1, <2>2, <2>3, SameShape DEF RegisterInv
<1>2. CASE NextCall /\ UNCHANGED views
  BY <1>2, BeginLoadKeeps, FindInCacheKeeps, AskingKeeps, FindInStoreKeeps, NewStateKeeps,
     UpdateLoadedKeeps, SyncKeeps, PeekKeeps, BeginApplyKeeps, EndApplyKeeps, StoreKeeps, EvictKeeps
     DEF NextCall
<1>3. CASE \E v \in View : BeginView(v) \/ KeepView(v) \/ EndView(v) \/ LeaveView(v)
  BY <1>3, ViewKeeps, KeepViewKeeps, EndViewKeeps
<1> QED  BY <1>1, <1>2, <1>3 DEF Next

-----------------------------------------------------------------------------
(* What a call emits is a function of the state its RunningState has now.  *)
LEMMA EmitsFromCurrent ==
    ASSUME RegisterInv, TipsAreSafe, NEW c \in Call, EndApply(c), NEW r \in 1..Len(heap),
           heap'[r].log # heap[r].log, r \notin crossed
    PROVE  /\ r = ref[c] /\ heap'[r].log # Thrown
           /\ \E d \in Commit :
                heap'[r].log = ApplyTipFromNetwork(heap[r].log, d, TimeEvents, Now)
<1>1. pc[c] = "applying"
  BY DEF EndApply, Step
<1>2. Brings(c) /\ ref[c] \in 1..Len(heap)
  BY <1>1, Shape DEF RegisterInv, CallInv
<1>3. Applied(c) # Thrown /\ heap' = [heap EXCEPT ![ref[c]].log = Applied(c)]
  BY DEF EndApply
<1>4. r = ref[c] /\ heap'[r].log = Applied(c)
  BY <1>2, <1>3, Shape, EmitShape
<1>5. base[c] = heap[ref[c]].log
  BY <1>1, <1>4 DEF RegisterInv, CallInv
<1>6. Applied(c) = ApplyTipFromNetwork(base[c], Arg[c], TimeEvents, Now)
  BY <1>3, UserAgreesWithNetwork DEF Applied
<1>7. Arg[c] \in Commit
  BY <1>2, CallsAssumption DEF Brings
<1> QED  BY <1>3, <1>4, <1>6, <1>7, <1>5

(* So is what syncStream makes of the tip the network answered with.       *)
LEMMA SyncsFromCurrent ==
    ASSUME RegisterInv, TipsAreSafe, NEW c \in Call, NEW tips \in Answers, Sync(c, tips),
           NEW r \in 1..Len(heap), heap'[r].log # heap[r].log
    PROVE  /\ r = ref[c] /\ heap'[r].log # Thrown
           /\ \E d \in Commit :
                heap'[r].log = ApplyTipFromNetwork(heap[r].log, d, TimeEvents, Now)
<1> DEFINE t == CHOOSE t \in tips : TRUE
           log == ApplyTipFromNetwork(base[c], t, TimeEvents, Now)
           new == IF tips = {} \/ log = Thrown THEN base[c] ELSE log
<1>1. pc[c] = "syncing" /\ heap' = [heap EXCEPT ![ref[c]].log = new]
  BY DEF Sync, EndLoad, Step
<1>2. base[c] = heap[ref[c]].log /\ ref[c] \in 1..Len(heap)
  BY <1>1, Shape DEF RegisterInv, CallInv
<1>3. tips # {} => t \in Commit
  BY CallsAssumption DEF Answers
<1> HIDE DEF t, log
<1>4. r = ref[c] /\ heap'[r].log = new
  <2> HIDE DEF new
  <2> QED  BY <1>1, <1>2, Shape, EmitShape
<1>5. tips # {} /\ log # Thrown /\ heap'[r].log = log
  BY <1>2, <1>4
<1> QED  BY <1>2, <1>3, <1>4, <1>5 DEF log

(* No other step gives a RunningState a new state.                         *)
LEMMA OthersEmitNothing ==
    ASSUME RegisterInv, [Next]_vars, NEW r \in 1..Len(heap), heap'[r].log # heap[r].log
    PROVE  \/ \E c \in Call : EndApply(c) \/ \E tips \in Answers : Sync(c, tips)
           \/ \E v \in View : KeepView(v)
<1>1. ~UNCHANGED heap
  OBVIOUS
<1>2. ~\E c, log, pinned : Register(c, log, pinned)
  BY Shape, RegisterShape
<1>3. UNCHANGED views => ~\E c \in Call : UpdateLoaded(c) \/ Store(c)
  BY UpdateLoadedKeeps, StoreKeeps
<1>4. ~\E v \in View : EndView(v)
  BY EndViewKeeps
<1>5. ~\E v \in View : BeginView(v) \/ LeaveView(v)
  BY <1>1 DEF BeginView, LeaveView
<1> QED  BY <1>1, <1>2, <1>3, <1>4, <1>5 DEF Next, NextCall, vars, LoadFails, BeginLoad, FindInCache, AskStore, FindInStore,
            FindNowhere, LoadGenesis, PeekInCache, PeekAsksStore, PeekInStore, PeekNowhere,
            BeginApply, Resync, Fetch, Evict

(* What a view gives a RunningState goes on from its state.                *)
MovedByView(v, r) == phase'[v] # phase[v] /\ kept'[v] = r /\ GoesOn(heap'[r].log, heap[r].log)

LEMMA ViewsGoOn ==
    ASSUME RegisterInv, NEW v \in View, KeepView(v), NEW r \in 1..Len(heap),
           heap'[r].log # heap[r].log
    PROVE  heap'[r].log # Thrown /\ MovedByView(v, r)
<1>1. /\ phase[v] = "viewing" /\ phase' = [phase EXCEPT ![v] = "keeping"]
      /\ DOMAIN phase = View /\ DOMAIN kept = View
  BY DEF KeepView, RegisterInv, ViewsInv
<1>2. Existing(v) # 0
  BY Shape, NewShape DEF KeepView
<1> DEFINE i == Existing(v)
           new == StateAtCommit(v)
<1>3. i \in 1..Len(heap)
  BY <1>2, Shape, CallsAssumption DEF Existing
<1>4. /\ heap' = [heap EXCEPT ![i].log = new] /\ new # Thrown /\ GoesOn(new, heap[i].log)
      /\ kept' = [kept EXCEPT ![v] = i]
  BY <1>2 DEF KeepView
<1> HIDE DEF i, new
<1>5. r = i /\ heap'[i].log = new
  BY <1>3, <1>4, Shape, EmitShape
<1> QED  BY <1>1, <1>4, <1>5 DEF MovedByView

(* The new state of a RunningState comes from its state.                   *)
LEMMA StatesComeFromStates ==
    ASSUME RegisterInv, TipsAreSafe, [Next]_vars, NEW r \in 1..Len(heap) \ crossed,
           heap'[r].log # heap[r].log
    PROVE  /\ heap'[r].log # Thrown
           /\ \/ \E d \in Commit :
                    heap'[r].log = ApplyTipFromNetwork(heap[r].log, d, TimeEvents, Now)
              \/ \E v \in View : MovedByView(v, r)
BY OthersEmitNothing, EmitsFromCurrent, SyncsFromCurrent, ViewsGoOn

(* For any calls, any forest of commits, any answers of the network and    *)
(* any evictions: as long as no tip has been taken outside of the loadingQ *)
(* (and on a node that leaves syncing to Rust Ceramic, always), each new   *)
(* state of a RunningState is conflict resolution applied to the state     *)
(* before, so updates, syncs and events of the stream never overwrite each *)
(* other (repository.ts: the executionQ, and syncStream in the loadingQ);  *)
(* loadAtCommit lets its log go on, and what is not claimed is of those it *)
(* did that to while they were being updated.                              *)
THEOREM RunningStatesAreRegisters ==
    Spec => RunningStateIsARegister
<1> DEFINE Emitted ==
        \A r \in DOMAIN heap \ crossed : TipsAreSafe /\ heap'[r].log # heap[r].log =>
            \/ \E c \in Commit : heap'[r].log = ApplyTipFromNetwork(heap[r].log, c, TimeEvents, Now)
            \/ \E v \in View : phase'[v] # phase[v] /\ kept'[v] = r /\ GoesOn(heap'[r].log, heap[r].log)
<1>1. Init => RegisterInv
  BY RegisterInit
<1>2. RegisterInv /\ [Next]_vars => RegisterInv'
  BY RegisterNext
<1>3. RegisterInv /\ [Next]_vars => [Emitted]_vars
  BY Shape, StatesComeFromStates DEF MovedByView
<1> QED  BY <1>1, <1>2, <1>3, PTL DEF Spec, RunningStateIsARegister

-----------------------------------------------------------------------------
(* The node as a register.  While the calls are Shared there is at most    *)
(* one RunningState, it is the one in the cache, and it has a state; a call*)
(* that looks elsewhere than in the cache does so because there is none.   *)
OneState ==
    /\ cache = Len(heap) /\ Len(heap) =< 1
    /\ \A r \in 1..Len(heap) : heap[r].log # Thrown
    /\ \A c \in Call : pc[c] \in {"reading", "fetching", "creating"} => cache = 0
    /\ \A c \in Call : pc[c] \in {"fetching", "creating"} => store = <<>>

SharedInv ==
    /\ RegisterInv
    /\ \A c \in Call : pc[c] = "resyncing" => Kind[c] = "always"
    /\ Shared => OneState /\ crossed = {}

(* Calls that share their RunningState have done so from the start.        *)
LEMMA SharedBefore ==
    ASSUME [Next]_vars, DOMAIN pc = Call, DOMAIN phase = View, Shared'
    PROVE  Shared
<1>1. UNCHANGED evicts
  BY DEF Next, NextCall, vars, settings, BeginLoad, FindInCache, AskStore, FindInStore, FindNowhere,
      LoadGenesis, LoadFails, UpdateLoaded, PeekInCache, PeekAsksStore, PeekInStore, PeekNowhere,
      BeginApply, EndApply, Store, Sync, Resync, Fetch, Evict, BeginView, KeepView, EndView, LeaveView
<1>2. UNCHANGED pc \/ \E c \in Call : \E from, to : Step(c, from, to) /\ from # "unused" /\ to # "unused"
  BY DEF Next, NextCall, vars, calls, BeginLoad, FindInCache, AskStore, FindInStore, FindNowhere,
      LoadGenesis, LoadFails, UpdateLoaded, PeekInCache, PeekAsksStore, PeekInStore, PeekNowhere,
      BeginApply, EndApply, Store, Sync, Resync, Fetch, Evict, EndLoad, AfterLoad, BeforeLoad,
      BeginView, KeepView, EndView, LeaveView
<1>3. UNCHANGED phase \/ \E v \in View : \E to : to # "unused" /\ phase' = [phase EXCEPT ![v] = to]
  BY DEF Next, vars, views, BeginView, KeepView, EndView, LeaveView
<1>4. \A c \in Call : pc'[c] = "unused" => pc[c] = "unused"
  BY <1>2 DEF Step
<1>5. \A v \in View : phase'[v] = "unused" => phase[v] = "unused"
  BY <1>3
<1> QED  BY <1>1, <1>4, <1>5 DEF Shared

(* No view moves then.                                                     *)
LEMMA NoViewsShared ==
    ASSUME Shared, [Next]_vars
    PROVE  [NextCall]_vars /\ UNCHANGED views
<1>1. \A v \in View : ~(BeginView(v) \/ KeepView(v) \/ EndView(v) \/ LeaveView(v))
  BY DEF Shared, BeginView, KeepView, EndView, LeaveView
<1> QED  BY <1>1 DEF Next, vars

(* What they do then: they load, write and handle events, but take no tips *)
(* outside of the loadingQ and make no second RunningState.                *)
LEMMA SharedSteps ==
    ASSUME SharedInv, Shared, Next
    PROVE  /\ TipsAreSafe /\ UNCHANGED views
           /\ \/ \E c \in Call :
                    \/ BeginLoad(c) \/ FindInCache(c) \/ AskStore(c) \/ FindInStore(c)
                    \/ FindNowhere(c) \/ LoadGenesis(c) \/ LoadFails(c) \/ UpdateLoaded(c)
                    \/ BeginApply(c) \/ EndApply(c) \/ Store(c)
              \/ \E c \in Call, tips \in Answers : Sync(c, tips) \/ Fetch(c, tips)
<1>1. \A c \in Call : Kind[c] \in {"tip", "always"} => pc[c] = "unused"
  BY DEF Shared
<1>2. TipsAreSafe
  BY <1>1 DEF TipsAreSafe
<1>3. \A c \in Call : ~(PeekInCache(c) \/ PeekAsksStore(c) \/ PeekInStore(c) \/ PeekNowhere(c))
  <2>1. \A c \in Call : pc[c] = "peeking" => Kind[c] = "tip"
    BY DEF SharedInv, RegisterInv, CallInv
  <2> QED  BY <1>1, <2>1 DEF PeekInCache, PeekAsksStore, PeekInStore, PeekNowhere, Step
<1>4. \A c \in Call, tips \in Answers : ~Resync(c, tips)
  BY <1>1 DEF Resync, EndLoad, Step, SharedInv
<1>5. ~Evict
  BY DEF Evict, Shared
<1>6. NextCall /\ UNCHANGED views
  <2>1. \A v \in View : ~(BeginView(v) \/ KeepView(v) \/ EndView(v) \/ LeaveView(v))
    BY DEF Shared, BeginView, KeepView, EndView, LeaveView
  <2> QED  BY <2>1 DEF Next
<1> QED  BY <1>2, <1>3, <1>4, <1>5, <1>6 DEF NextCall

(* Only a call whose kind is "always" resyncs.                             *)
LEMMA ResyncingStays ==
    ASSUME SharedInv, [Next]_vars
    PROVE  \A c \in Call : pc'[c] = "resyncing" => Kind[c] = "always"
<1>1. DOMAIN pc = Call
  BY DEF SharedInv, RegisterInv
<1> DEFINE Stays == \A d \in Call : pc'[d] = "resyncing" => Kind[d] = "always"
<1>2. ASSUME NEW c \in Call, NEW from, NEW to, Step(c, from, to),
             to # "resyncing" \/ Kind[c] = "always"
      PROVE  Stays
  BY <1>1, <1>2 DEF Step, SharedInv
<1>3. UNCHANGED pc => Stays
  BY DEF SharedInv
<1> HIDE DEF Stays
<1>4. \A c \in Call :
        BeginLoad(c) \/ AskStore(c) \/ FindNowhere(c) \/ LoadGenesis(c)
        \/ LoadFails(c) \/ UpdateLoaded(c) => Stays
  BY <1>2 DEF BeginLoad, AskStore, FindNowhere, LoadGenesis, LoadFails, UpdateLoaded, EndLoad, AfterLoad
<1>5. \A c \in Call : FindInCache(c) \/ FindInStore(c) => Stays
  BY <1>2 DEF FindInCache, FindInStore, EndLoad, AfterLoad, Option
<1>6. \A c \in Call :
        PeekInCache(c) \/ PeekAsksStore(c) \/ PeekInStore(c) \/ PeekNowhere(c)
        \/ BeginApply(c) \/ EndApply(c) \/ Store(c) => Stays
  BY <1>2 DEF PeekInCache, PeekAsksStore, PeekInStore, PeekNowhere, BeginApply, EndApply, Store
<1>7. \A c \in Call : \A tips : Sync(c, tips) \/ Resync(c, tips) \/ Fetch(c, tips) => Stays
  BY <1>2 DEF Sync, Resync, Fetch, EndLoad
<1>8. Evict \/ UNCHANGED vars => Stays
  BY <1>3 DEF Evict, vars, calls
<1>9. \A v \in View : BeginView(v) \/ KeepView(v) \/ EndView(v) \/ LeaveView(v) => Stays
  BY <1>3 DEF BeginView, KeepView, EndView, LeaveView, calls
<1>10. Stays
  BY <1>4, <1>5, <1>6, <1>7, <1>8, <1>9 DEF Next, NextCall
<1> QED  BY <1>10 DEF Stays

(* The state of a stream that has just been loaded.                        *)
LEMMA FirstStates ==
    ASSUME SharedInv, Shared, NEW c \in Call,
           FindInStore(c) \/ LoadGenesis(c) \/ \E tips \in Answers : Fetch(c, tips)
    PROVE  /\ pc[c] \in {"reading", "fetching", "creating"} /\ cache = 0
           /\ \E log, pinned :
                /\ Register(c, log, pinned) /\ log # Thrown
                /\ \/ log = store
                   \/ store = <<>> /\ \E d \in Commit : log = Loaded(d)
           /\ pc'[c] \notin {"reading", "fetching", "creating"} /\ UNCHANGED store
<1>1. \A d \in Commit : LoadStateFromTip(d, TimeEvents, FALSE, Now) # Thrown
  BY LoadableAssumption, LoadsGiveAState
<1>2. Genesis \in Commit
  BY ForestAssumption
<1>3. DOMAIN pc = Call
  BY DEF SharedInv, RegisterInv
<1>4. CASE FindInStore(c)
  <2>1. pc[c] = "reading" /\ Register(c, store, TRUE) /\ store # Thrown /\ UNCHANGED store
    BY <1>4 DEF FindInStore, EndLoad, Step, Thrown
  <2>2. pc'[c] \notin {"reading", "fetching", "creating"}
    BY <1>3, <1>4 DEF FindInStore, EndLoad, Step, AfterLoad
  <2> QED  BY <2>1, <2>2 DEF SharedInv, OneState
<1>5. CASE LoadGenesis(c)
  <2>1. /\ pc[c] = "creating" /\ Register(c, Loaded(Genesis), FALSE) /\ UNCHANGED store
        /\ pc'[c] \notin {"reading", "fetching", "creating"}
    BY <1>3, <1>5 DEF LoadGenesis, EndLoad, Step, AfterLoad, Loaded
  <2>2. store = <<>> /\ cache = 0
    BY <2>1 DEF SharedInv, OneState
  <2> QED  BY <1>1, <1>2, <2>1, <2>2 DEF Loaded
<1>6. ASSUME NEW tips \in Answers, Fetch(c, tips)
      PROVE  /\ pc[c] \in {"reading", "fetching", "creating"} /\ cache = 0
             /\ \E log, pinned :
                /\ Register(c, log, pinned) /\ log # Thrown
                /\ \/ log = store
                   \/ store = <<>> /\ \E d \in Commit : log = Loaded(d)
             /\ pc'[c] \notin {"reading", "fetching", "creating"} /\ UNCHANGED store
  <2> DEFINE t == IF tips = {} THEN Genesis ELSE CHOOSE t \in tips : TRUE
  <2>1. t \in Commit
    BY <1>2, CallsAssumption DEF Answers
  <2>2. /\ pc[c] = "fetching" /\ Register(c, Loaded(t), FALSE) /\ UNCHANGED store
        /\ pc'[c] \notin {"reading", "fetching", "creating"}
    BY <1>3, <1>6 DEF Fetch, EndLoad, Step, Loaded
  <2>3. store = <<>> /\ cache = 0
    BY <2>2 DEF SharedInv, OneState
  <2> HIDE DEF t
  <2> QED  BY <1>1, <2>1, <2>2, <2>3 DEF Loaded
<1> QED  BY <1>4, <1>5, <1>6

LEMMA OneStateNext ==
    ASSUME SharedInv, Shared, [Next]_vars, Shared'
    PROVE  OneState'
<1>1. /\ RegisterInv /\ OneState /\ RegisterInv' /\ DOMAIN pc = Call
      /\ Len(heap) \in Nat /\ ref \in [Call -> 0..Len(heap)]
  BY RegisterNext, Shape DEF SharedInv, RegisterInv
<1>2. CASE UNCHANGED vars
  BY <1>1, <1>2 DEF vars, calls, OneState
<1>3. ASSUME NEW c \in Call, FindInStore(c) \/ LoadGenesis(c) \/ \E tips \in Answers : Fetch(c, tips)
      PROVE  OneState'
  <2>1. PICK log, pinned : Register(c, log, pinned) /\ log # Thrown
    BY <1>3, FirstStates DEF SharedInv
  <2>2. /\ cache = 0 /\ pc[c] \in {"reading", "fetching", "creating"}
        /\ pc'[c] \notin {"reading", "fetching", "creating"}
    BY <1>3, FirstStates
  <2>3. Len(heap') = 1 /\ heap'[1].log = log /\ cache' = 1
    BY <1>1, <2>1, <2>2, Shape, RegisterShape DEF OneState
  <2>4. ASSUME NEW d \in Call PROVE pc'[d] \notin {"reading", "fetching", "creating"}
    <3>1. d # c => pc[d] \notin Searching
      BY <1>1, <2>2 DEF RegisterInv, CallInv, Searching
    <3>2. d # c => pc'[d] = pc[d]
      BY <1>1, <1>3 DEF FindInStore, LoadGenesis, Fetch, EndLoad, Step
    <3> QED  BY <2>2, <3>1, <3>2 DEF Searching
  <2> QED  BY <2>1, <2>3, <2>4 DEF OneState
<1>4. ASSUME NEW c \in Call,
             \/ BeginLoad(c) \/ FindInCache(c) \/ AskStore(c) \/ FindNowhere(c)
             \/ LoadFails(c) \/ BeginApply(c)
      PROVE  OneState'
  <2>1. UNCHANGED <<heap, cache, store>>
    BY <1>4 DEF BeginLoad, FindInCache, AskStore, FindNowhere, LoadFails, BeginApply
  <2>2. PICK from, to : Step(c, from, to) /\ (to \in {"fetching", "creating"} => from = "reading" /\ store = <<>>)
                     /\ (to = "reading" => cache = 0)
    BY <1>4 DEF BeginLoad, FindInCache, AskStore, FindNowhere, LoadFails, BeginApply, EndLoad, AfterLoad
  <2>3. \A d \in Call : pc'[d] = IF d = c THEN to ELSE pc[d]
    BY <1>1, <2>2 DEF Step
  <2> QED  BY <1>1, <2>1, <2>2, <2>3 DEF OneState, Step
<1>5. ASSUME NEW c \in Call,
             UpdateLoaded(c) \/ EndApply(c) \/ Store(c) \/ \E tips \in Answers : Sync(c, tips)
      PROVE  OneState'
  <2>1. PICK to \in {"apply", "done", "storing", "failed", "updating"}, from \in {"updating", "applying", "storing", "syncing"} :
          Step(c, from, to)
    BY <1>5 DEF UpdateLoaded, EndApply, Store, Sync, EndLoad, AfterLoad
  <2>2. ref[c] \in 1..Len(heap)
    BY <1>1, <2>1 DEF RegisterInv, CallInv, Step
  <2>3. cache = 1 /\ Len(heap) = 1
    BY <1>1, <2>2 DEF OneState
  <2>4. UNCHANGED cache /\ Len(heap') = Len(heap)
    <3>1. CASE UpdateLoaded(c) \/ Store(c)
      BY <1>1, <2>2, <3>1, Shape, PinShape DEF UpdateLoaded, Store
    <3>2. CASE EndApply(c)
      BY <1>1, <2>2, <3>2, Shape, EmitShape, SameShape DEF EndApply
    <3>3. CASE \E tips \in Answers : Sync(c, tips)
      <4>1. UNCHANGED cache /\ \E log : heap' = [heap EXCEPT ![ref[c]].log = log]
        BY <3>3 DEF Sync
      <4> QED  BY <1>1, <2>2, <4>1, Shape, EmitShape
    <3> QED  BY <1>5, <3>1, <3>2, <3>3
  <2>5. ASSUME NEW r \in 1..Len(heap') PROVE heap'[r].log # Thrown
    <3>1. r \in 1..Len(heap) /\ heap[r].log # Thrown
      BY <1>1, <2>4 DEF OneState
    <3>2. TipsAreSafe /\ crossed = {}
      BY DEF Shared, TipsAreSafe, SharedInv
    <3> QED  BY <1>1, <3>1, <3>2, StatesComeFromStates
  <2>6. \A d \in Call : pc'[d] \notin {"reading", "fetching", "creating"}
    <3>1. \A d \in Call : pc'[d] = IF d = c THEN to ELSE pc[d]
      BY <1>1, <2>1 DEF Step
    <3>2. \A d \in Call : pc[d] \notin {"reading", "fetching", "creating"}
      BY <1>1, <2>3 DEF OneState
    <3> QED  BY <3>1, <3>2
  <2> QED  BY <2>3, <2>4, <2>5, <2>6 DEF OneState
<1>6. CASE Next
  BY <1>3, <1>4, <1>5, <1>6, SharedSteps
<1> QED  BY <1>2, <1>6

LEMMA SharedNext ==
    ASSUME SharedInv, [Next]_vars
    PROVE  SharedInv'
<1>1. DOMAIN pc = Call /\ DOMAIN phase = View
  BY DEF SharedInv, RegisterInv, ViewsInv
<1>2. RegisterInv'
  BY RegisterNext DEF SharedInv
<1>3. Shared' => OneState' /\ crossed' = {}
  BY <1>1, SharedBefore, OneStateNext, NoViewsShared DEF SharedInv, views
<1> QED  BY <1>2, <1>3, ResyncingStays DEF SharedInv

(* Every step of the node is one of the register, or leaves it alone.      *)
LEMMA RegisterSimulates ==
    ASSUME SharedInv, Shared, [Next]_vars, Current' # Current
    PROVE  Abstract!Next
<1>1. /\ RegisterInv /\ OneState /\ TipsAreSafe /\ crossed = {}
      /\ Len(heap) \in Nat /\ ref \in [Call -> 0..Len(heap)]
  BY Shape DEF SharedInv, Shared, TipsAreSafe
<1>2. ~UNCHANGED <<heap, cache, store>>
  BY DEF Current
<1>3. Next
  BY <1>2 DEF vars
<1>4. CASE \E c \in Call : FindInStore(c) \/ LoadGenesis(c) \/ \E tips \in Answers : Fetch(c, tips)
  <2>1. PICK c \in Call : FindInStore(c) \/ LoadGenesis(c) \/ \E tips \in Answers : Fetch(c, tips)
    BY <1>4
  <2>2. PICK log, pinned :
           /\ Register(c, log, pinned)
           /\ log = store \/ (store = <<>> /\ \E d \in Commit : log = Loaded(d))
    BY <2>1, FirstStates
  <2>3. cache = 0
    BY <2>1, FirstStates
  <2>4. cache' = 1 /\ heap'[1].log = log
    BY <1>1, <2>2, <2>3, Shape, RegisterShape DEF OneState
  <2>5. Current = store /\ Current' = log
    BY <2>3, <2>4 DEF Current
  <2>6. PICK d \in Commit : store = <<>> /\ log = Loaded(d)
    BY <2>2, <2>5
  <2>7. Abstract!Appear(d)
    BY <2>5, <2>6 DEF Abstract!Appear, Thrown
  <2> QED  BY <2>7 DEF Abstract!Next
<1>5. CASE ~\E c \in Call : FindInStore(c) \/ LoadGenesis(c) \/ \E tips \in Answers : Fetch(c, tips)
  <2>1. PICK c \in Call :
           UpdateLoaded(c) \/ EndApply(c) \/ Store(c) \/ \E tips \in Answers : Sync(c, tips)
    BY <1>2, <1>3, <1>5, SharedSteps
       DEF BeginLoad, FindInCache, AskStore, FindNowhere, LoadFails, BeginApply
  <2>2. pc[c] \in {"updating", "applying", "storing", "syncing"} /\ UNCHANGED cache
    BY <2>1 DEF UpdateLoaded, EndApply, Store, Sync, EndLoad, Step
  <2>3. cache = 1 /\ Len(heap) = 1
    BY <1>1, <2>2 DEF OneState, RegisterInv, CallInv
  <2>4. Current = heap[1].log /\ Current' = heap'[1].log
    BY <2>2, <2>3 DEF Current
  <2>5. PICK d \in Commit : heap'[1].log = ApplyTipFromNetwork(heap[1].log, d, TimeEvents, Now)
    <3>1. ~\E v \in View : MovedByView(v, 1)
      BY NoViewsShared DEF MovedByView, views
    <3> QED  BY <1>1, <2>3, <2>4, <3>1, StatesComeFromStates
  <2>6. heap[1].log # Thrown
    BY <1>1, <2>3 DEF OneState
  <2>7. Abstract!Absorb(d)
    BY <2>4, <2>5, <2>6 DEF Abstract!Absorb, Judged
  <2> QED  BY <2>7 DEF Abstract!Next
<1> QED  BY <1>4, <1>5

(* While the stream stays cached and no call takes tips or resyncs, the    *)
(* node as a whole, its cache, its store and all the calls in progress,    *)
(* implements one register to which conflict resolution is applied: every  *)
(* change of its current state is one commit judged against the state      *)
(* before, for any calls, any commits and any answers of the network.      *)
THEOREM NodeIsOneRegister ==
    Spec => ImplementsRegister
<1> DEFINE StepIsAbstract == Shared => Abstract!Next
<1>1. Init => SharedInv /\ (Shared => Abstract!Init)
  <2> SUFFICES ASSUME Init PROVE SharedInv /\ Abstract!Init
    OBVIOUS
  <2>1. heap = <<>> /\ cache = 0 /\ crossed = {} /\ \A c \in Call : pc[c] \in {"start", "unused"}
    BY DEF Init
  <2>2. SharedInv
    BY <2>1, RegisterInit DEF SharedInv, OneState
  <2>3. store = <<>> \/ store = Loaded(Genesis)
    BY DEF Init, Loaded
  <2> QED  BY <2>1, <2>2, <2>3, ForestAssumption DEF Abstract!Init, Current, Thrown
<1>2. SharedInv /\ [Next]_vars => SharedInv'
  BY SharedNext
<1>3. SharedInv /\ [Next]_vars => [StepIsAbstract]_Current
  BY RegisterSimulates
<1> QED  BY <1>1, <1>2, <1>3, PTL DEF Spec, ImplementsRegister

-----------------------------------------------------------------------------
(* Logs whose times are those of their anchors, and tips they prevail over.*)
Sound(hist) == Tips!GoodLog(hist) /\ Tips!Undated(hist)
NotBehind(hist, c) == Tips!NotBehind(hist, c)

LEMMA ClockIsPositive == 1 \in Nat \ {0} /\ Now \in Nat
BY DEF Now

LEMMA NoDispute ==
    NothingInDispute => Invalid = {} /\ Tips!NothingTies
<1>1. ChainTo = Tips!ChainTo
  BY DEF ChainTo, Tips!ChainTo
<1> QED  BY <1>1 DEF NothingInDispute, NothingTies, Tips!NothingTies

LEMMA NothingExpires ==
    ASSUME NothingInDispute, NEW c
    PROVE  Tips!NoneExpires(Now) /\ Tips!PastAnchors(c, Now)
<1>1. Tips!NeverExpires
  BY DEF NothingInDispute, Tips!NeverExpires
<1> QED  BY <1>1, ClockIsPositive, ForestAssumption, Tips!NeverExpiresIsFresh, Zenon DEF NoTime, Tips!NoTime

LEMMA SoundLogs ==
    ASSUME NEW hist, Sound(hist)
    PROVE  hist # <<>> /\ Tip(hist) \in Commit /\ Tip(hist) = Tips!Tip(hist)
<1>1. Tips!Tip(hist) \in Commit
  BY ClockIsPositive, ForestAssumption, Tips!LogOfItsTip, Zenon DEF Sound, NoTime, Tips!NoTime
<1>2. hist # <<>>
  BY DEF Sound, Tips!GoodLog
<1>3. Tip(hist) = Tips!Tip(hist)
  BY DEF Tip, Tips!Tip, Last, Tips!Last
<1> QED  BY <1>1, <1>2, <1>3

LEMMA LoadsSoundly ==
    ASSUME NothingInDispute, NEW c \in Commit
    PROVE  Sound(Loaded(c))
<1>1. Tips!NoneExpires(Now) /\ Tips!PastAnchors(c, Now)
  BY NothingExpires
<1>2. Sound(Tips!LoadStateFromTip(c, TimeEvents, FALSE, Now))
  BY <1>1, ClockIsPositive, ForestAssumption, Tips!LoadedIsTheHistory, NoDispute, Zenon
     DEF Sound, NoTime, Tips!NoTime
<1> QED  BY <1>2, LoadsAlike DEF Loaded

LEMMA NetworkIsLenient == NetworkOpts \in Tips!Options /\ Tips!Lenient(NetworkOpts)
BY DEF NetworkOpts, Tips!Options, Tips!Lenient

(* A tip that is handled is one the new log is not behind, and the new log *)
(* is not behind what the log before was not behind.                       *)
LEMMA HandledIsNotBehind ==
    ASSUME NothingInDispute, NEW hist, Sound(hist), NEW c \in Commit
    PROVE  LET result == ApplyTipFromNetwork(hist, c, TimeEvents, Now) IN
           /\ result # Thrown /\ Sound(result)
           /\ \A d \in Commit : d = c \/ d = Tip(hist) \/ NotBehind(hist, d) => NotBehind(result, d)
<1> DEFINE result == Tips!ApplyTip(hist, c, TimeEvents, NetworkOpts, Now)
<1>1. /\ Tips!NoneExpires(Now) /\ Tips!PastAnchors(c, Now) /\ Tips!PastAnchors(Tips!Tip(hist), Now)
      /\ Tip(hist) \in Commit /\ Tip(hist) = Tips!Tip(hist)
  BY NothingExpires, SoundLogs
<1>2. Tips!TipDecided(result, hist, c) /\ result # Tips!Thrown
  BY <1>1, ClockIsPositive, NetworkIsLenient, ForestAssumption, Tips!AppliedTipIsDecided,
     NoDispute, Zenon DEF Sound, NoTime, Tips!NoTime
<1> HIDE DEF result
<1>3. Sound(result)
  BY <1>2 DEF Tips!TipDecided, Sound
<1>4. ASSUME NEW d \in Commit, d = c \/ d = Tip(hist) \/ NotBehind(hist, d) PROVE NotBehind(result, d)
  BY <1>1, <1>2, <1>4, ClockIsPositive, ForestAssumption, Tips!DecidedIsNotBehind, Zenon
     DEF NotBehind, NoTime, Tips!NoTime
<1>5. ApplyTipFromNetwork(hist, c, TimeEvents, Now) = result
  BY AppliesAlike DEF ApplyTipFromNetwork, result
<1> QED  BY <1>2, <1>3, <1>4, <1>5 DEF Thrown, Tips!Thrown

LEMMA NotBehindAbsorbs ==
    ASSUME NothingInDispute, NEW hist, Sound(hist), NEW c \in Commit, NotBehind(hist, c)
    PROVE  Absorbs(hist, c)
<1>1. Tips!NoneExpires(Now) /\ Tips!PastAnchors(c, Now) /\ Tips!PastAnchors(Tips!Tip(hist), Now)
  BY NothingExpires
<1>2. Tips!ApplyTip(hist, c, TimeEvents, NetworkOpts, Now) = hist
  BY <1>1, ClockIsPositive, NetworkIsLenient, ForestAssumption, Tips!NotBehindIsAbsorbed,
     NoDispute, Zenon DEF Sound, NotBehind, NoTime, Tips!NoTime
<1> QED  BY <1>2, AppliesAlike DEF Absorbs, ApplyTipFromNetwork

LEMMA PartIsAll ==
    ASSUME NEW one, Sound(one), NEW two, Sound(two), CidsOf(one) \subseteq CidsOf(two),
           NotBehind(one, Tip(two))
    PROVE  one = two
<1>1. Tips!CidsOf(one) \subseteq Tips!CidsOf(two) /\ Tips!NotBehind(one, Tips!Tip(two))
  BY SoundLogs DEF CidsOf, Tips!CidsOf, NotBehind
<1> QED  BY <1>1, ClockIsPositive, ForestAssumption, Tips!PartNotBehindIsAll, Zenon
            DEF Sound, NoTime, Tips!NoTime

-----------------------------------------------------------------------------
(* What is true while calls share the stream: its RunningState is not      *)
(* behind the store, nor behind a tip that was handled; it is what the     *)
(* store has, once no sync and no update has yet to store what it brought; *)
(* and pinnedCommits is what the store has, so that an update that adds no *)
(* commit to it has nothing to store.                                      *)
NoneAt(places) == \A c \in Call : pc[c] \notin places

Handled(c) == pc[c] \in {"storing", "done"} /\ Brings(c)

KeptInv ==
    /\ \A r \in 1..Len(heap) :
        /\ Sound(heap[r].log) /\ heap[r].pinned = CidsOf(store)
        /\ store # <<>> => NotBehind(heap[r].log, Tip(store))
        /\ store # <<>> /\ NoneAt({"updating", "storing"}) => heap[r].log = store
        /\ \A c \in Call : Handled(c) => NotBehind(heap[r].log, Arg[c])
    /\ store # <<>> => Sound(store)
    /\ \A c \in Call : Handled(c) =>
        /\ ref[c] # 0
        /\ pc[c] = "done" /\ store # <<>> /\ NoneAt({"updating"}) => NotBehind(store, Arg[c])

(* The one RunningState, if there is one.                                  *)
LEMMA TheState ==
    ASSUME SharedInv, Shared, NEW c \in Call, ref[c] # 0
    PROVE  ref[c] = 1 /\ cache = 1 /\ Len(heap) = 1
<1>1. OneState /\ ref \in [Call -> 0..Len(heap)] /\ Len(heap) \in Nat
  BY Shape DEF SharedInv
<1> QED  BY <1>1 DEF OneState

(* A state that has just been stored, or that nothing needs to store.      *)
LEMMA KeptAsStored ==
    ASSUME NEW running, Len(heap') = 1, heap'[1] = running, Sound(running.log), running.pinned = CidsOf(store)',
           store' # <<>> => store' = running.log,
           \A c \in Call : Handled(c)' => ref'[c] # 0 /\ NotBehind(running.log, Arg[c])
    PROVE  KeptInv'
<1>1. NotBehind(running.log, Tip(running.log))
  BY SoundLogs DEF NotBehind, Tips!NotBehind
<1>2. \A r \in 1..Len(heap') : r = 1
  OBVIOUS
<1> QED  BY <1>1, <1>2 DEF KeptInv

(* Steps in which a call waits, looks for the stream, or gets a lane.      *)
LEMMA WaitingKeepsAll ==
    ASSUME SharedInv, Shared, KeptInv, NEW c \in Call,
           BeginLoad(c) \/ FindInCache(c) \/ AskStore(c) \/ FindNowhere(c) \/ LoadFails(c) \/ BeginApply(c)
    PROVE  KeptInv'
<1>1. DOMAIN pc = Call /\ DOMAIN ref = Call
  BY DEF SharedInv, RegisterInv
<1>2. PICK from, to : Step(c, from, to) /\ from \notin {"updating", "storing"}
                      /\ to \notin {"updating", "storing"} /\ (to = "done" => ~Brings(c))
  BY DEF BeginLoad, FindInCache, AskStore, FindNowhere, LoadFails, BeginApply, EndLoad, AfterLoad, BeforeLoad
<1>3. UNCHANGED <<heap, store>> /\ \A d \in Call : d # c => ref'[d] = ref[d]
  BY <1>1 DEF BeginLoad, FindInCache, AskStore, FindNowhere, LoadFails, BeginApply
<1>4. pc[c] = from /\ pc'[c] = to /\ \A d \in Call : d # c => pc'[d] = pc[d]
  BY <1>1, <1>2 DEF Step
<1>5. /\ NoneAt({"updating"})' => NoneAt({"updating"})
      /\ NoneAt({"updating", "storing"})' => NoneAt({"updating", "storing"})
  BY <1>2, <1>4 DEF NoneAt
<1>6. ASSUME NEW d \in Call, Handled(d)'
      PROVE  Handled(d) /\ ref'[d] = ref[d] /\ pc'[d] = pc[d]
  <2>1. d # c
    BY <1>2, <1>4, <1>6 DEF Handled, Brings
  <2> QED  BY <1>3, <1>4, <1>6, <2>1 DEF Handled, Brings
<1> QED  BY <1>3, <1>5, <1>6 DEF KeptInv

(* The first RunningState: nothing has been handled yet.                   *)
LEMMA FirstStateKeepsAll ==
    ASSUME NothingInDispute, SharedInv, Shared, KeptInv, NEW c \in Call,
           FindInStore(c) \/ LoadGenesis(c) \/ \E tips \in Answers : Fetch(c, tips)
    PROVE  KeptInv'
<1>1. /\ OneState /\ HeapShape /\ DOMAIN pc = Call /\ ref \in [Call -> 0..Len(heap)]
      /\ Len(heap) \in Nat
  BY Shape DEF SharedInv, RegisterInv
<1>2. cache = 0 /\ UNCHANGED store
  BY FirstStates
<1>3. Len(heap) = 0 /\ heap = <<>>
  <2>1. Len(heap) = 0
    BY <1>1, <1>2 DEF OneState
  <2> QED  BY <1>1, <2>1 DEF HeapShape
<1>4. \E log, pinned :
        /\ Register(c, log, pinned) /\ Sound(log)
        /\ (log = store /\ pinned = TRUE) \/ (store = <<>> /\ pinned = FALSE)
  <2>1. CASE FindInStore(c)
    <3>1. Register(c, store, TRUE) /\ store # <<>>
      BY <2>1 DEF FindInStore
    <3> QED  BY <3>1 DEF KeptInv
  <2>2. CASE LoadGenesis(c)
    <3>1. pc[c] = "creating" /\ Register(c, Loaded(Genesis), FALSE)
      BY <2>2 DEF LoadGenesis, EndLoad, Step, Loaded
    <3>2. store = <<>> /\ Genesis \in Commit
      BY <1>1, <3>1, ForestAssumption DEF OneState
    <3> QED  BY <3>1, <3>2, LoadsSoundly
  <2>3. ASSUME NEW tips \in Answers, Fetch(c, tips)
        PROVE  \E log, pinned :
                  /\ Register(c, log, pinned) /\ Sound(log)
                  /\ (log = store /\ pinned = TRUE) \/ (store = <<>> /\ pinned = FALSE)
    <3> DEFINE t == IF tips = {} THEN Genesis ELSE CHOOSE t \in tips : TRUE
    <3>1. t \in Commit
      BY ForestAssumption, CallsAssumption DEF Answers
    <3>2. pc[c] = "fetching" /\ Register(c, Loaded(t), FALSE)
      BY <2>3 DEF Fetch, EndLoad, Step, Loaded
    <3>3. store = <<>>
      BY <1>1, <3>2 DEF OneState
    <3> HIDE DEF t
    <3> QED  BY <3>1, <3>2, <3>3, LoadsSoundly
  <2> QED  BY <2>1, <2>2, <2>3
<1>5. PICK log, pinned :
        /\ Register(c, log, pinned) /\ Sound(log)
        /\ (log = store /\ pinned = TRUE) \/ (store = <<>> /\ pinned = FALSE)
  BY <1>4
<1> DEFINE running == [log |-> log, pinned |-> IF pinned THEN CidsOf(log) ELSE {}]
<1>6. Len(heap') = 1 /\ heap'[1] = running
  BY <1>3, <1>5 DEF Register, RegisterNew
<1>7. running.log = log /\ running.pinned = CidsOf(store)'
  <2>1. CidsOf(<<>>) = {}
    BY DEF CidsOf
  <2>2. running.log = log /\ running.pinned = IF pinned THEN CidsOf(log) ELSE {}
    OBVIOUS
  <2> QED  BY <1>2, <1>5, <2>1, <2>2 DEF CidsOf
<1>8. \A d \in Call : ~Handled(d)'
  <2>1. \A d \in Call : ref[d] = 0
    BY <1>1, <1>3
  <2>2. \A d \in Call : ~Handled(d)
    BY <2>1 DEF KeptInv
  <2>3. \E from, to : Step(c, from, to) /\ to # "storing" /\ (to = "done" => ~Brings(c))
    <3>1. CASE FindInStore(c)
      <4>1. \E to \in {"apply", AfterLoad(c), "updating", "resyncing", "syncing"} : Step(c, "reading", to)
        BY <3>1 DEF FindInStore, EndLoad
      <4> QED  BY <4>1 DEF AfterLoad
    <3>2. CASE LoadGenesis(c)
      BY <3>2 DEF LoadGenesis, EndLoad, AfterLoad
    <3>3. CASE \E tips \in Answers : Fetch(c, tips)
      BY <3>3 DEF Fetch, EndLoad
    <3> QED  BY <3>1, <3>2, <3>3
  <2> QED  BY <1>1, <2>2, <2>3 DEF Handled, Brings, Step
<1> HIDE DEF running
<1> QED  BY <1>2, <1>5, <1>6, <1>7, <1>8, KeptAsStored

(* What a tip brought is in memory, and not yet in the store.              *)
LEMMA EmittingKeepsAll ==
    ASSUME NothingInDispute, SharedInv, Shared, KeptInv, NEW c \in Call, ref[c] # 0,
           NEW d \in Commit, NEW log, log = ApplyTipFromNetwork(heap[1].log, d, TimeEvents, Now),
           heap' = [heap EXCEPT ![ref[c]].log = log], UNCHANGED <<store, ref>>,
           NEW to \in {"storing", "updating"}, pc[c] # "updating", pc' = [pc EXCEPT ![c] = to],
           to = "storing" => Brings(c) /\ d = Arg[c]
    PROVE  KeptInv'
<1>1. ref[c] = 1 /\ Len(heap) = 1 /\ HeapShape /\ DOMAIN pc = Call
  BY TheState, Shape DEF SharedInv, RegisterInv
<1>2. Len(heap') = 1 /\ heap'[1].log = log /\ heap'[1].pinned = heap[1].pinned
  <2>1. Len(heap') = Len(heap) /\ heap'[1].log = log
    BY <1>1, EmitShape
  <2>2. PICK L, P : heap \in Seq([log : L, pinned : P])
    BY <1>1 DEF HeapShape
  <2>3. heap[1] \in [log : L, pinned : P] /\ 1 \in DOMAIN heap
    <3>1. 1 \in 1..Len(heap) /\ DOMAIN heap = 1..Len(heap)
      BY <1>1, <2>2
    <3>2. \A R, i : heap \in Seq(R) /\ i \in 1..Len(heap) => heap[i] \in R
      OBVIOUS
    <3> QED  BY <2>2, <3>1, <3>2
  <2>4. heap'[1] = [heap[1] EXCEPT !.log = log]
    BY <1>1, <2>3
  <2> QED  BY <1>1, <2>1, <2>3, <2>4
<1>3. /\ Sound(heap[1].log) /\ heap[1].pinned = CidsOf(store)
      /\ store # <<>> => Sound(store) /\ NotBehind(heap[1].log, Tip(store))
      /\ \A e \in Call : Handled(e) => NotBehind(heap[1].log, Arg[e])
  BY <1>1 DEF KeptInv
<1>4. Sound(log) /\ \A e \in Commit : e = d \/ NotBehind(heap[1].log, e) => NotBehind(log, e)
  BY <1>3, HandledIsNotBehind
<1>5. store # <<>> => NotBehind(log, Tip(store))
  BY <1>3, <1>4, SoundLogs
<1>6. ~NoneAt({"updating", "storing"})' /\ (NoneAt({"updating"})' => NoneAt({"updating"}))
  BY <1>1 DEF NoneAt
<1>7. \A e \in Call : Handled(e) => Arg[e] \in Commit
  BY CallsAssumption DEF Handled, Brings
<1>8. ASSUME NEW e \in Call, Handled(e)'
      PROVE  /\ ref'[e] # 0 /\ NotBehind(log, Arg[e])
             /\ pc'[e] = "done" /\ store # <<>> /\ NoneAt({"updating"})' => NotBehind(store, Arg[e])
  <2>1. CASE e = c
    <3>1. pc'[e] = to
      BY <1>1, <2>1
    <3> QED  BY <1>4, <1>8, <2>1, <3>1 DEF Handled
  <2>2. CASE e # c
    <3>1. pc'[e] = pc[e] /\ Handled(e)
      BY <1>1, <1>8, <2>2 DEF Handled, Brings
    <3> QED  BY <1>3, <1>4, <1>6, <1>7, <3>1 DEF KeptInv
  <2> QED  BY <2>1, <2>2
<1>9. \A r \in 1..Len(heap') : r = 1
  <2>1. \A n : n = 1 => \A r \in 1..n : r = 1
    OBVIOUS
  <2> QED  BY <1>2, <2>1
<1> QED  BY <1>2, <1>3, <1>4, <1>5, <1>6, <1>8, <1>9 DEF KeptInv

(* syncStream and the updates of the executionQ.                           *)
LEMMA SyncKeepsAll ==
    ASSUME NothingInDispute, SharedInv, Shared, KeptInv, NEW c \in Call, NEW tips \in Answers, Sync(c, tips)
    PROVE  KeptInv'
<1> DEFINE t == CHOOSE t \in tips : TRUE
           log == ApplyTipFromNetwork(base[c], t, TimeEvents, Now)
<1>1. /\ pc[c] = "syncing" /\ pc' = [pc EXCEPT ![c] = "updating"]
      /\ heap' = [heap EXCEPT ![ref[c]].log = IF tips = {} \/ log = Thrown THEN base[c] ELSE log]
      /\ UNCHANGED <<store, ref>>
  BY DEF Sync, EndLoad, Step
<1>2. TipsAreSafe
  BY DEF Shared, TipsAreSafe
<1>3. ref[c] # 0 /\ base[c] = heap[ref[c]].log
  BY <1>1, <1>2 DEF SharedInv, RegisterInv, CallInv
<1>4. ref[c] = 1 /\ Len(heap) = 1 /\ base[c] = heap[1].log /\ Sound(heap[1].log)
  BY <1>3, TheState DEF KeptInv
<1>5. tips # {} => t \in Commit
  BY CallsAssumption DEF Answers
<1> HIDE DEF t
<1>6. CASE tips # {}
  <2>1. log # Thrown
    BY <1>4, <1>5, <1>6, HandledIsNotBehind
  <2> QED  BY <1>1, <1>3, <1>4, <1>5, <1>6, <2>1, EmittingKeepsAll
<1>7. CASE tips = {}
  <2>1. Tip(heap[1].log) \in Commit /\ NotBehind(heap[1].log, Tip(heap[1].log))
    BY <1>4, SoundLogs DEF NotBehind, Tips!NotBehind
  <2>2. heap[1].log = ApplyTipFromNetwork(heap[1].log, Tip(heap[1].log), TimeEvents, Now)
    BY <1>4, <2>1, NotBehindAbsorbs DEF Absorbs
  <2> QED  BY <1>1, <1>3, <1>4, <1>7, <2>1, <2>2, EmittingKeepsAll
<1> QED  BY <1>6, <1>7

LEMMA EndApplyKeepsAll ==
    ASSUME NothingInDispute, SharedInv, Shared, KeptInv, NEW c \in Call, EndApply(c)
    PROVE  KeptInv'
<1>1. /\ pc[c] = "applying" /\ UNCHANGED <<store, ref>> /\ DOMAIN pc = Call
      /\ TipsAreSafe /\ crossed = {}
  BY DEF EndApply, Step, Shared, TipsAreSafe, SharedInv, RegisterInv
<1>2. ref[c] # 0 /\ base[c] = heap[ref[c]].log /\ Brings(c) /\ executing = c
  BY <1>1 DEF SharedInv, RegisterInv, CallInv
<1>3. ref[c] = 1 /\ Len(heap) = 1 /\ base[c] = heap[1].log /\ Sound(heap[1].log)
  BY <1>2, TheState DEF KeptInv
<1>4. Arg[c] \in Commit
  BY <1>2, CallsAssumption DEF Brings
<1>5. Applied(c) # Thrown => Applied(c) = ApplyTipFromNetwork(heap[1].log, Arg[c], TimeEvents, Now)
  BY <1>3, UserAgreesWithNetwork DEF Applied
<1>6. CASE Applied(c) # Thrown /\ ~NothingChanged(c)
  <2>1. heap' = [heap EXCEPT ![ref[c]].log = Applied(c)] /\ pc' = [pc EXCEPT ![c] = "storing"]
    BY <1>6 DEF EndApply, Step
  <2> QED  BY <1>1, <1>2, <1>4, <1>5, <1>6, <2>1, EmittingKeepsAll
<1>7. CASE ~(Applied(c) # Thrown /\ ~NothingChanged(c))
  <2>1. PICK to \in {"done", "failed"} :
          pc' = [pc EXCEPT ![c] = to] /\ UNCHANGED heap
          /\ (to = "done" => Applied(c) # Thrown /\ NothingChanged(c))
    BY <1>7 DEF EndApply, Step
  <2>2. to = "done" => NotBehind(heap[1].log, Arg[c])
    <3> SUFFICES ASSUME to = "done" PROVE NotBehind(heap[1].log, Arg[c])
      OBVIOUS
    <3>1. Sound(Applied(c)) /\ NotBehind(Applied(c), Arg[c])
      BY <1>3, <1>4, <1>5, <2>1, HandledIsNotBehind
    <3>2. Tip(Applied(c)) = Tip(heap[1].log)
      BY <1>3, <2>1 DEF NothingChanged
    <3>3. Tips!Tip(Applied(c)) = Tips!Tip(heap[1].log)
      BY <1>3, <3>1, <3>2, SoundLogs
    <3> QED  BY <3>1, <3>3 DEF NotBehind, Tips!NotBehind
  <2>3. /\ NoneAt({"updating"})' => NoneAt({"updating"})
        /\ NoneAt({"updating", "storing"})' => NoneAt({"updating", "storing"})
    BY <1>1, <2>1 DEF NoneAt
  <2>4. NoneAt({"updating"}) /\ store # <<>> => heap[1].log = store
    <3>1. \A d \in Call : pc[d] # "storing"
      BY <1>1, <1>2 DEF SharedInv, RegisterInv, CallInv
    <3> QED  BY <1>3, <3>1 DEF NoneAt, KeptInv
  <2>5. ASSUME NEW d \in Call, Handled(d)'
        PROVE  /\ ref'[d] # 0 /\ NotBehind(heap[1].log, Arg[d])
               /\ pc'[d] = "done" /\ store # <<>> /\ NoneAt({"updating"})' => NotBehind(store, Arg[d])
    <3>1. CASE d = c
      <4>1. to = "done"
        BY <1>1, <2>1, <2>5, <3>1 DEF Handled
      <4> QED  BY <1>1, <1>2, <2>2, <2>3, <2>4, <3>1, <4>1
    <3>2. CASE d # c
      <4>1. pc'[d] = pc[d] /\ Handled(d)
        BY <1>1, <2>1, <2>5, <3>2 DEF Handled, Brings
      <4> QED  BY <1>1, <1>3, <2>3, <4>1 DEF KeptInv
    <3> QED  BY <3>1, <3>2
  <2>6. \A r \in 1..Len(heap) : r = 1
    BY <1>3
  <2> QED  BY <1>1, <1>3, <2>1, <2>3, <2>5, <2>6 DEF KeptInv
<1> QED  BY <1>6, <1>7

(* _updateStateIfPinned: what it leaves in the store is what is in memory. *)
LEMMA PinningKeepsAll ==
    ASSUME NothingInDispute, SharedInv, KeptInv, Len(heap) = 1, UpdateIfPinned(1)
    PROVE  /\ Len(heap') = 1 /\ heap'[1].log = heap[1].log
           /\ heap'[1].pinned = CidsOf(store)'
           /\ store' # <<>> => store' = heap[1].log
<1>1. HeapShape /\ 1 \in 1..Len(heap)
  BY Shape DEF SharedInv
<1>2. Len(heap') = 1 /\ heap'[1].log = heap[1].log
  BY <1>1, PinShape
<1>3. /\ Sound(heap[1].log) /\ heap[1].pinned = CidsOf(store)
      /\ store # <<>> => Sound(store) /\ NotBehind(heap[1].log, Tip(store))
  BY <1>1 DEF KeptInv
<1>4. CASE (store # <<>> \/ indexed) /\ ~(CidsOf(heap[1].log) \subseteq heap[1].pinned)
  <2>1. store' = heap[1].log /\ heap' = [heap EXCEPT ![1].pinned = CidsOf(heap[1].log)]
    BY <1>4 DEF UpdateIfPinned
  <2>2. PICK L, P : heap \in Seq([log : L, pinned : P])
    BY <1>1 DEF HeapShape
  <2>3. heap[1] \in [log : L, pinned : P] /\ 1 \in DOMAIN heap
    <3>1. DOMAIN heap = 1..Len(heap)
      BY <2>2
    <3>2. \A R, i : heap \in Seq(R) /\ i \in 1..Len(heap) => heap[i] \in R
      OBVIOUS
    <3> QED  BY <1>1, <2>2, <3>1, <3>2
  <2>4. heap'[1].pinned = CidsOf(heap[1].log)
    BY <2>1, <2>3
  <2> QED  BY <1>2, <2>1, <2>4 DEF CidsOf
<1>5. CASE ~((store # <<>> \/ indexed) /\ ~(CidsOf(heap[1].log) \subseteq heap[1].pinned))
  <2>1. UNCHANGED <<store, heap>>
    BY <1>5 DEF UpdateIfPinned
  <2>2. store # <<>> => heap[1].log = store
    BY <1>3, <1>5, PartIsAll
  <2> QED  BY <1>2, <1>3, <2>1, <2>2 DEF CidsOf
<1> QED  BY <1>4, <1>5

LEMMA StoringKeepsAll ==
    ASSUME NothingInDispute, SharedInv, Shared, KeptInv, NEW c \in Call,
           NEW from \in {"updating", "storing"}, NEW to \in {"apply", "done"}, Step(c, from, to),
           Brings(c) => (to = "done" => from = "storing"), UpdateIfPinned(ref[c]), UNCHANGED ref
    PROVE  KeptInv'
<1>1. DOMAIN pc = Call /\ ref[c] # 0
  BY Shape DEF SharedInv, RegisterInv, CallInv, Step
<1>2. ref[c] = 1 /\ Len(heap) = 1
  BY <1>1, TheState
<1>3. /\ Len(heap') = 1 /\ heap'[1].log = heap[1].log
      /\ heap'[1].pinned = CidsOf(store)'
      /\ store' # <<>> => store' = heap[1].log
  BY <1>2, PinningKeepsAll
<1>4. /\ Sound(heap[1].log)
      /\ \A d \in Call : Handled(d) => ref[d] # 0 /\ NotBehind(heap[1].log, Arg[d])
  BY <1>2 DEF KeptInv
<1>5. \A d \in Call : Handled(d)' => Handled(d)
  BY <1>1 DEF Handled, Brings, Step
<1> QED  BY <1>3, <1>4, <1>5, KeptAsStored

LEMMA KeptNext ==
    ASSUME NothingInDispute, SharedInv, Shared, KeptInv, [Next]_vars
    PROVE  KeptInv'
<1>1. CASE UNCHANGED vars
  BY <1>1 DEF vars, calls, KeptInv, Handled, Brings, NoneAt, CidsOf, Sound, NotBehind
<1>2. ASSUME NEW c \in Call, UpdateLoaded(c) \/ Store(c)
      PROVE  KeptInv'
  <2>1. CASE UpdateLoaded(c)
    <3>1. Step(c, "updating", AfterLoad(c)) /\ UpdateIfPinned(ref[c]) /\ UNCHANGED ref
      BY <2>1 DEF UpdateLoaded
    <3>2. AfterLoad(c) \in {"apply", "done"} /\ (Brings(c) => AfterLoad(c) # "done")
      BY DEF AfterLoad
    <3> QED  BY <3>1, <3>2, StoringKeepsAll
  <2>2. CASE Store(c)
    <3>1. Step(c, "storing", "done") /\ UpdateIfPinned(ref[c]) /\ UNCHANGED ref
      BY <2>2 DEF Store
    <3> QED  BY <3>1, StoringKeepsAll
  <2> QED  BY <1>2, <2>1, <2>2
<1>3. CASE Next
  <2>1. ASSUME NEW c \in Call,
               \/ BeginLoad(c) \/ FindInCache(c) \/ AskStore(c) \/ FindInStore(c)
               \/ FindNowhere(c) \/ LoadGenesis(c) \/ LoadFails(c) \/ UpdateLoaded(c)
               \/ BeginApply(c) \/ EndApply(c) \/ Store(c)
        PROVE  KeptInv'
    BY <1>2, <2>1, WaitingKeepsAll, FirstStateKeepsAll, EndApplyKeepsAll
  <2>2. ASSUME NEW c \in Call, NEW tips \in Answers, Sync(c, tips) \/ Fetch(c, tips)
        PROVE  KeptInv'
    BY <2>2, SyncKeepsAll, FirstStateKeepsAll
  <2> QED  BY <1>3, <2>1, <2>2, SharedSteps
<1> QED  BY <1>1, <1>3

LEMMA KeptMeansUpdatesKept ==
    ASSUME NothingInDispute, SharedInv, Shared => KeptInv
    PROVE  UpdatesKept
<1> SUFFICES ASSUME NEW c \in Call, Shared, pc[c] = "done", Brings(c)
             PROVE  /\ cache # 0 => Absorbs(heap[cache].log, Arg[c])
                    /\ store # <<>> /\ (\A d \in Call : pc[d] # "updating") => Absorbs(store, Arg[c])
  BY DEF UpdatesKept
<1>1. KeptInv /\ Handled(c) /\ Arg[c] \in Commit
  BY CallsAssumption DEF Handled, Brings
<1>2. cache = 1 /\ Len(heap) = 1
  BY <1>1, TheState DEF KeptInv
<1>3. Sound(heap[1].log) /\ NotBehind(heap[1].log, Arg[c])
  BY <1>1, <1>2 DEF KeptInv
<1>4. store # <<>> /\ (\A d \in Call : pc[d] # "updating") => Sound(store) /\ NotBehind(store, Arg[c])
  BY <1>1 DEF KeptInv, NoneAt
<1> QED  BY <1>1, <1>2, <1>3, <1>4, NotBehindAbsorbs

(* Of a stream whose commits are all valid, do not expire and are anchored *)
(* at different times where its histories part: a commit that a user was   *)
(* told is applied, and a tip that was handled, stay part of what the node *)
(* knows, in its one RunningState and in its store, or lost to what        *)
(* conflict resolution prefers to them, whatever loads, syncs and updates  *)
(* run at once while the calls share that RunningState.                    *)
THEOREM UpdatesAreKept ==
    ASSUME NothingInDispute
    PROVE  Spec => []UpdatesKept
<1> DEFINE IInv == SharedInv /\ (Shared => KeptInv)
<1>1. Init => IInv
  <2> SUFFICES ASSUME Init PROVE SharedInv /\ KeptInv
    OBVIOUS
  <2>1. heap = <<>> /\ cache = 0 /\ crossed = {} /\ \A c \in Call : pc[c] \in {"start", "unused"}
    BY DEF Init
  <2>2. SharedInv
    BY <2>1, RegisterInit DEF SharedInv, OneState
  <2>3. store # <<>> => Sound(store)
    <3>1. store = <<>> \/ store = Loaded(Genesis)
      BY DEF Init, Loaded
    <3> QED  BY <3>1, LoadsSoundly, ForestAssumption
  <2> QED  BY <2>1, <2>2, <2>3 DEF KeptInv, Handled
<1>2. IInv /\ [Next]_vars => IInv'
  <2> SUFFICES ASSUME SharedInv, Shared => KeptInv, [Next]_vars
               PROVE  SharedInv' /\ (Shared' => KeptInv')
    OBVIOUS
  <2>1. Shared' => Shared
    BY SharedBefore DEF SharedInv, RegisterInv, ViewsInv
  <2> QED  BY <2>1, SharedNext, KeptNext
<1>3. IInv => UpdatesKept
  BY KeptMeansUpdatesKept
<1> QED  BY <1>1, <1>2, <1>3, PTL DEF Spec

-----------------------------------------------------------------------------
(* Handlers: states whose content follows their log.                       *)
LEMMA UpTo ==
    ASSUME NEW n \in Nat, NEW S, 0 \in S, \A k \in 0..n : k < n /\ k \in S => k + 1 \in S
    PROVE  \A k \in 0..n : k \in S
<1> DEFINE missing == {k \in 0..n : k \notin S}
<1>1. ASSUME missing # {} PROVE FALSE
  <2>1. missing \subseteq Nat
    OBVIOUS
  <2> DEFINE x == Tips!Min(missing)
  <2>2. x \in missing /\ \A y \in missing : x =< y
    <3> HIDE DEF missing
    <3> QED  BY <1>1, <2>1, Tips!MinOfNaturals, ClockIsPositive, ForestAssumption, Zenon DEF NoTime, Tips!NoTime
  <2> HIDE DEF x
  <2>3. x \in 0..n /\ x \notin S /\ x # 0
    BY <2>2
  <2>4. x - 1 \in 0..n /\ x - 1 < n /\ (x - 1) + 1 = x /\ ~(x =< x - 1)
    BY <2>3
  <2>5. x - 1 \in S
    BY <2>2, <2>4
  <2> QED  BY <2>3, <2>4, <2>5
<1> QED  BY <1>1

(* The signed commits of a log, one after the other.                       *)
NextSigned(signed, c) == IF c \in TimeEvents \cup {Genesis} THEN signed ELSE Append(signed, c)
Collects(f, cids) ==
    /\ f = [i \in 0..Len(cids) |-> f[i]] /\ f[0] = <<>>
    /\ \A i \in 1..Len(cids) : f[i] = NextSigned(f[i - 1], cids[i])

LEMMA CollectedAlike ==
    ASSUME NEW one \in Seq(Commit), NEW two \in Seq(Commit), NEW n \in Nat,
           n =< Len(one), n =< Len(two), \A i \in 1..n : one[i] = two[i],
           NEW f, Collects(f, one), NEW g, Collects(g, two)
    PROVE  \A i \in 0..n : f[i] = g[i]
<1> DEFINE S == {k \in 0..n : f[k] = g[k]}
<1>1. 0 \in S
  BY DEF Collects
<1>2. ASSUME NEW k \in 0..n, k < n, k \in S PROVE k + 1 \in S
  <2>1. k + 1 \in 1..n /\ k + 1 \in 1..Len(one) /\ k + 1 \in 1..Len(two) /\ (k + 1) - 1 = k
    BY <1>2
  <2>2. f[k + 1] = NextSigned(f[k], one[k + 1]) /\ g[k + 1] = NextSigned(g[k], two[k + 1])
    BY <2>1 DEF Collects
  <2> QED  BY <1>2, <2>1, <2>2
<1> HIDE DEF S
<1>3. \A k \in 0..n : k \in S
  BY <1>1, <1>2, UpTo
<1> QED  BY <1>3 DEF S

LEMMA CollectionExists ==
    ASSUME NEW cids \in Seq(Commit)
    PROVE  \E f : Collects(f, cids) /\ \A i \in 0..Len(cids) : f[i] \in Seq(Commit)
<1> DEFINE N == Len(cids)
           Part(f, n) == /\ f \in [0..n -> Seq(Commit)] /\ f[0] = <<>>
                         /\ \A i \in 1..n : f[i] = NextSigned(f[i - 1], cids[i])
           S == {n \in 0..N : \E f : Part(f, n)}
<1>1. 0 \in S
  <2> DEFINE f == [k \in 0..0 |-> <<>>]
  <2>1. f \in [0..0 -> Seq(Commit)] /\ f[0] = <<>>
    OBVIOUS
  <2> HIDE DEF f
  <2>2. Part(f, 0)
    BY <2>1
  <2> QED  BY <2>2
<1>2. ASSUME NEW n \in 0..N, n < N, n \in S PROVE n + 1 \in S
  <2>1. PICK f : Part(f, n)
    BY <1>2
  <2> DEFINE next == NextSigned(f[n], cids[n + 1])
             g == [k \in 0..(n + 1) |-> IF k = n + 1 THEN next ELSE f[k]]
  <2>2. next \in Seq(Commit)
    <3>1. f[n] \in Seq(Commit) /\ cids[n + 1] \in Commit
      BY <1>2, <2>1
    <3> QED  BY <3>1 DEF NextSigned
  <2>3. \A k \in 0..n : k # n + 1 /\ g[k] = f[k]
    BY <1>2
  <2>4. g[n + 1] = next /\ 0 \in 0..n
    BY <1>2
  <2>5. g \in [0..(n + 1) -> Seq(Commit)]
    <3>1. \A k \in 0..(n + 1) : k = n + 1 \/ k \in 0..n
      BY <1>2
    <3> HIDE DEF next
    <3> QED  BY <2>1, <2>2, <3>1
  <2>6. ASSUME NEW i \in 1..(n + 1) PROVE g[i] = NextSigned(g[i - 1], cids[i])
    <3>1. i - 1 \in 0..n /\ (i = n + 1 \/ (i \in 1..n /\ i \in 0..n))
      BY <1>2
    <3>2. g[i - 1] = f[i - 1]
      BY <2>3, <3>1
    <3>3. CASE i = n + 1
      <4>1. i - 1 = n
        BY <1>2, <3>3
      <4> HIDE DEF g
      <4> QED  BY <2>4, <3>2, <3>3, <4>1
    <3>4. CASE i \in 1..n /\ i \in 0..n
      <4>1. f[i] = NextSigned(f[i - 1], cids[i])
        BY <2>1, <3>4
      <4>2. g[i] = f[i]
        BY <2>3, <3>4
      <4> HIDE DEF g
      <4> QED  BY <3>2, <4>1, <4>2
    <3> QED  BY <3>1, <3>3, <3>4
  <2> HIDE DEF g, next
  <2>7. Part(g, n + 1)
    BY <2>1, <2>3, <2>4, <2>5, <2>6
  <2>8. n + 1 \in 0..N
    BY <1>2
  <2> QED  BY <2>7, <2>8
<1>3. N \in Nat /\ N \in 0..N
  OBVIOUS
<1> HIDE DEF S
<1>4. N \in S
  BY <1>1, <1>2, <1>3, UpTo
<1>5. PICK f : Part(f, N)
  BY <1>4 DEF S
<1> QED  BY <1>5 DEF Collects

LEMMA SignedIsCollected ==
    ASSUME NEW cids \in Seq(Commit)
    PROVE  \E f : Collects(f, cids) /\ Signed(cids) = f[Len(cids)] /\ Signed(cids) \in Seq(Commit)
<1> DEFINE Solves(f) == f = [i \in 0..Len(cids) |->
               IF i = 0 THEN <<>>
               ELSE IF cids[i] \in TimeEvents \cup {Genesis} THEN f[i - 1]
               ELSE Append(f[i - 1], cids[i])]
           sol == CHOOSE f : Solves(f)
<1>1. PICK g : Collects(g, cids) /\ \A i \in 0..Len(cids) : g[i] \in Seq(Commit)
  BY CollectionExists
<1>2. Len(cids) \in Nat
  OBVIOUS
<1>3. Solves(g)
  <2>1. \A i \in 0..Len(cids) : i = 0 \/ i \in 1..Len(cids)
    BY <1>2
  <2>2. \A i \in 0..Len(cids) :
          g[i] = IF i = 0 THEN <<>>
                 ELSE IF cids[i] \in TimeEvents \cup {Genesis} THEN g[i - 1]
                 ELSE Append(g[i - 1], cids[i])
    BY <1>1, <2>1 DEF Collects, NextSigned
  <2>3. g = [i \in 0..Len(cids) |-> g[i]]
    BY <1>1 DEF Collects
  <2> QED  BY <2>2, <2>3
<1>4. Signed(cids) = sol[Len(cids)]
  BY DEF Signed
<1>5. Solves(sol)
  <2> HIDE DEF Solves
  <2> QED  BY <1>3
<1> HIDE DEF sol
<1>6. Collects(sol, cids)
  <2>1. sol[0] = <<>> /\ sol = [i \in 0..Len(cids) |-> sol[i]]
    BY <1>2, <1>5
  <2>2. ASSUME NEW i \in 1..Len(cids) PROVE sol[i] = NextSigned(sol[i - 1], cids[i])
    <3>1. i \in 0..Len(cids) /\ i # 0
      BY <1>2
    <3> QED  BY <1>5, <3>1 DEF NextSigned
  <2> QED  BY <2>1, <2>2 DEF Collects
<1>7. Len(cids) \in 0..Len(cids) /\ Len(cids) =< Len(cids)
  BY <1>2
<1>8. sol[Len(cids)] = g[Len(cids)]
  <2> HIDE DEF Solves
  <2> QED  BY <1>1, <1>2, <1>6, <1>7, CollectedAlike
<1> QED  BY <1>1, <1>4, <1>6, <1>7, <1>8

LEMMA SignedGrows ==
    /\ Signed(<<>>) = <<>>
    /\ \A cids \in Seq(Commit) : \A c \in Commit :
          /\ Signed(cids) \in Seq(Commit)
          /\ Signed(Append(cids, c)) = NextSigned(Signed(cids), c)
<1>1. <<>> \in Seq(Commit) /\ Len(<<>>) = 0
  OBVIOUS
<1>2. Signed(<<>>) = <<>>
  BY <1>1, SignedIsCollected DEF Collects
<1>3. ASSUME NEW cids \in Seq(Commit), NEW c \in Commit
      PROVE  Signed(cids) \in Seq(Commit) /\ Signed(Append(cids, c)) = NextSigned(Signed(cids), c)
  <2> DEFINE more == Append(cids, c)
             n == Len(cids)
  <2>1. /\ more \in Seq(Commit) /\ Len(more) = n + 1 /\ more[n + 1] = c /\ n \in Nat
        /\ \A i \in 1..n : more[i] = cids[i]
    OBVIOUS
  <2> HIDE DEF more
  <2>2. PICK f : Collects(f, cids) /\ Signed(cids) = f[n] /\ Signed(cids) \in Seq(Commit)
    BY SignedIsCollected
  <2>3. PICK g : Collects(g, more) /\ Signed(more) = g[n + 1]
    BY <2>1, SignedIsCollected
  <2>4. n =< Len(more) /\ n =< n /\ n \in 0..n /\ n + 1 \in 1..Len(more) /\ (n + 1) - 1 = n
    BY <2>1
  <2>5. f[n] = g[n]
    BY <2>1, <2>2, <2>3, <2>4, CollectedAlike
  <2>6. g[n + 1] = NextSigned(g[n], c)
    BY <2>1, <2>3, <2>4 DEF Collects
  <2> QED  BY <2>2, <2>3, <2>5, <2>6 DEF more
<1> QED  BY <1>2, <1>3

LEMMA AnchoredGrows ==
    ASSUME NEW cids \in Seq(Commit), NEW c \in Commit
    PROVE  /\ AnchoredPart(cids) \in Seq(Commit)
           /\ AnchoredPart(Append(cids, c)) =
                 IF c \in TimeEvents THEN Append(cids, c) ELSE AnchoredPart(cids)
<1> DEFINE more == Append(cids, c)
           n == Len(cids)
           ends(log) == {0} \cup {i \in DOMAIN log : log[i] \in TimeEvents}
<1>1. /\ more \in Seq(Commit) /\ Len(more) = n + 1 /\ more[n + 1] = c /\ n \in Nat
      /\ \A i \in 1..n : more[i] = cids[i]
      /\ DOMAIN more = 1..(n + 1) /\ DOMAIN cids = 1..n
  OBVIOUS
<1>2. /\ AnchoredPart(cids) = SubSeq(cids, 1, Max(ends(cids)))
      /\ AnchoredPart(more) = SubSeq(more, 1, Max(ends(more)))
  BY DEF AnchoredPart
<1> HIDE DEF more
<1>3. ASSUME NEW m \in Nat, NEW S, S \subseteq 0..m, S # {}
      PROVE  Max(S) \in S /\ \A y \in S : y =< Max(S)
  <2>1. Tips!Max(S) \in S /\ \A y \in S : y =< Tips!Max(S)
    BY <1>3, Tips!MaxOfNaturals, ClockIsPositive, ForestAssumption, Zenon DEF NoTime, Tips!NoTime
  <2>2. Max(S) = Tips!Max(S)
    BY DEF Max, Tips!Max
  <2> QED  BY <2>1, <2>2
<1>4. ends(cids) \subseteq 0..n /\ ends(cids) # {}
  BY <1>1
<1>5. Max(ends(cids)) \in 0..n
  <2> HIDE DEF ends
  <2> QED  BY <1>1, <1>3, <1>4
<1>6. AnchoredPart(cids) \in Seq(Commit)
  <2>1. \A k \in 0..n : SubSeq(cids, 1, k) \in Seq(Commit)
    BY <1>1
  <2> HIDE DEF ends
  <2> QED  BY <1>2, <1>5, <2>1
<1>7. CASE c \in TimeEvents
  <2>1. n + 1 \in ends(more) /\ ends(more) \subseteq 0..(n + 1) /\ n + 1 \in Nat
    BY <1>1, <1>7
  <2>2. Max(ends(more)) \in 0..(n + 1) /\ n + 1 =< Max(ends(more))
    <3> HIDE DEF ends
    <3> QED  BY <1>3, <2>1
  <2>3. Max(ends(more)) = n + 1
    <3> HIDE DEF ends
    <3> QED  BY <1>1, <2>2
  <2>4. SubSeq(more, 1, n + 1) = more
    BY <1>1
  <2> QED  BY <1>2, <1>6, <1>7, <2>3, <2>4 DEF more
<1>8. CASE c \notin TimeEvents
  <2>1. ends(more) = ends(cids)
    BY <1>1, <1>8
  <2>2. \A k \in 0..n : SubSeq(more, 1, k) = SubSeq(cids, 1, k)
    BY <1>1
  <2> HIDE DEF ends
  <2> QED  BY <1>2, <1>5, <1>6, <1>8, <2>1, <2>2 DEF more
<1> QED  BY <1>7, <1>8

-----------------------------------------------------------------------------
(* _applyLog, commit by commit.                                            *)
Move(r, e, miss, at) == IF r.ok THEN ApplyCommit(r.state, e, miss, at) ELSE r
MovesTo(f, s, new, n, miss, at) ==
    /\ f = [i \in 0..n |-> f[i]] /\ f[0] = [ok |-> TRUE, state |-> s]
    /\ \A i \in 1..n : f[i] = Move(f[i - 1], new[i], miss, at)

LEMMA MovesExist ==
    ASSUME NEW s, NEW new, NEW N \in Nat, NEW miss, NEW at
    PROVE  \E f : MovesTo(f, s, new, N, miss, at)
<1> DEFINE S == {n \in 0..N : \E f : MovesTo(f, s, new, n, miss, at)}
<1>1. 0 \in S
  <2> DEFINE f == [k \in 0..0 |-> [ok |-> TRUE, state |-> s]]
  <2>1. MovesTo(f, s, new, 0, miss, at)
    BY DEF MovesTo
  <2> QED  BY <2>1
<1>2. ASSUME NEW n \in 0..N, n < N, n \in S PROVE n + 1 \in S
  <2>1. PICK f : MovesTo(f, s, new, n, miss, at)
    BY <1>2
  <2> DEFINE next == Move(f[n], new[n + 1], miss, at)
             g == [k \in 0..(n + 1) |-> IF k = n + 1 THEN next ELSE f[k]]
  <2>2. \A k \in 0..n : k # n + 1 /\ g[k] = f[k]
    BY <1>2
  <2>3. g[n + 1] = next /\ 0 \in 0..n
    BY <1>2
  <2>4. ASSUME NEW i \in 1..(n + 1) PROVE g[i] = Move(g[i - 1], new[i], miss, at)
    <3>1. i - 1 \in 0..n /\ (i = n + 1 \/ (i \in 1..n /\ i \in 0..n))
      BY <1>2
    <3>2. g[i - 1] = f[i - 1]
      BY <2>2, <3>1
    <3>3. CASE i = n + 1
      <4>1. i - 1 = n
        BY <1>2, <3>3
      <4> HIDE DEF g
      <4> QED  BY <2>3, <3>2, <3>3, <4>1
    <3>4. CASE i \in 1..n /\ i \in 0..n
      <4>1. f[i] = Move(f[i - 1], new[i], miss, at)
        BY <2>1, <3>4 DEF MovesTo
      <4>2. g[i] = f[i]
        BY <2>2, <3>4
      <4> HIDE DEF g
      <4> QED  BY <3>2, <4>1, <4>2
    <3> QED  BY <3>1, <3>3, <3>4
  <2>5. g = [i \in 0..(n + 1) |-> g[i]]
    OBVIOUS
  <2>6. g[0] = [ok |-> TRUE, state |-> s]
    <3>1. f[0] = [ok |-> TRUE, state |-> s]
      BY <2>1 DEF MovesTo
    <3> HIDE DEF g
    <3> QED  BY <2>2, <2>3, <3>1
  <2> HIDE DEF g, next
  <2>7. MovesTo(g, s, new, n + 1, miss, at)
    BY <2>4, <2>5, <2>6 DEF MovesTo
  <2>8. n + 1 \in 0..N
    BY <1>2
  <2> QED  BY <2>7, <2>8
<1>3. N \in 0..N
  OBVIOUS
<1> HIDE DEF S
<1>4. N \in S
  BY <1>1, <1>2, <1>3, UpTo
<1> QED  BY <1>4 DEF S

LEMMA AppliedByMoves ==
    ASSUME NEW s, NEW new, Len(new) \in Nat, NEW throws, NEW miss, NEW at
    PROVE  \E f : /\ MovesTo(f, s, new, Len(new), miss, at)
                  /\ ApplyCommits(s, new, throws, miss, at) =
                        IF ~f[Len(new)].ok /\ throws THEN Nothing ELSE f[Len(new)].state
<1> DEFINE Solves(f) == f = [i \in 0..Len(new) |->
               IF i = 0 THEN [ok |-> TRUE, state |-> s]
               ELSE IF f[i - 1].ok THEN ApplyCommit(f[i - 1].state, new[i], miss, at)
               ELSE f[i - 1]]
           sol == CHOOSE f : Solves(f)
<1>1. PICK g : MovesTo(g, s, new, Len(new), miss, at)
  BY MovesExist
<1>2. Solves(g)
  <2>1. \A i \in 0..Len(new) : i = 0 \/ i \in 1..Len(new)
    OBVIOUS
  <2>2. \A i \in 0..Len(new) :
          g[i] = IF i = 0 THEN [ok |-> TRUE, state |-> s]
                 ELSE IF g[i - 1].ok THEN ApplyCommit(g[i - 1].state, new[i], miss, at)
                 ELSE g[i - 1]
    BY <1>1, <2>1 DEF MovesTo, Move
  <2>3. g = [i \in 0..Len(new) |-> g[i]]
    BY <1>1 DEF MovesTo
  <2> QED  BY <2>2, <2>3
<1>3. ApplyCommits(s, new, throws, miss, at) =
         IF ~sol[Len(new)].ok /\ throws THEN Nothing ELSE sol[Len(new)].state
  BY DEF ApplyCommits
<1>4. Solves(sol)
  <2> HIDE DEF Solves
  <2> QED  BY <1>2
<1> HIDE DEF sol
<1>5. MovesTo(sol, s, new, Len(new), miss, at)
  <2>1. sol[0] = [ok |-> TRUE, state |-> s] /\ sol = [i \in 0..Len(new) |-> sol[i]]
    BY <1>4
  <2>2. ASSUME NEW i \in 1..Len(new) PROVE sol[i] = Move(sol[i - 1], new[i], miss, at)
    <3>1. i \in 0..Len(new) /\ i # 0
      OBVIOUS
    <3> QED  BY <1>4, <3>1 DEF Move
  <2> QED  BY <2>1, <2>2 DEF MovesTo
<1> QED  BY <1>3, <1>5

-----------------------------------------------------------------------------
(* Commits none of which, nor of those that they build on, is refused for  *)
(* its content; the init event is judged when the stream is loaded.        *)
Clean == {c \in Commit : \A i \in 1..Len(ChainTo[c]) : ChainTo[c][i] \in Refused => ChainTo[c][i] = Genesis}

LEMMA Chains ==
    /\ ChainTo[NoCommit] = <<>>
    /\ \A c \in Commit : ChainTo[c] = Append(ChainTo[Prev[c]], c) /\ ChainTo[Prev[c]] \in Seq(Commit)
    /\ \A c \in Commit : ChainTo[c] \in Seq(Commit) /\ Len(ChainTo[c]) > 0
<1>1. ChainTo = Tips!ChainTo
  BY DEF ChainTo, Tips!ChainTo
<1>2. \A c \in Commit : Prev[c] \in Commit \cup {NoCommit}
  BY ForestAssumption
<1>3. /\ Tips!ChainTo[NoCommit] = <<>>
      /\ \A c \in Commit : Tips!ChainTo[c] = Append(Tips!ChainTo[Prev[c]], c)
      /\ \A c \in Commit \cup {NoCommit} : Tips!ChainTo[c] \in Seq(Commit)
  BY Tips!ChainsAreDefined, ClockIsPositive, ForestAssumption, Zenon DEF NoTime, Tips!NoTime
<1>4. ASSUME NEW c \in Commit
      PROVE  /\ ChainTo[c] = Append(ChainTo[Prev[c]], c) /\ ChainTo[Prev[c]] \in Seq(Commit)
             /\ ChainTo[c] \in Seq(Commit)
  BY <1>1, <1>2, <1>3
<1>5. \A s \in Seq(Commit) : \A c \in Commit : Len(Append(s, c)) > 0
  OBVIOUS
<1> QED  BY <1>1, <1>3, <1>4, <1>5

LEMMA CleanGrows ==
    /\ Genesis \in Clean
    /\ \A c \in Commit : Prev[c] \in Clean /\ c \notin Refused => c \in Clean
    /\ \A c \in Commit : Prev[c] \in Clean =>
          \A i \in 1..Len(ChainTo[c]) : ChainTo[c][i] \in Refused => ChainTo[c][i] \in {Genesis, c}
<1>1. ASSUME NEW c \in Commit
      PROVE  \A i \in 1..Len(ChainTo[c]) :
                ChainTo[c][i] = c \/ \E k \in 1..Len(ChainTo[Prev[c]]) : ChainTo[c][i] = ChainTo[Prev[c]][k]
  <2>1. ChainTo[c] = Append(ChainTo[Prev[c]], c) /\ ChainTo[Prev[c]] \in Seq(Commit)
    BY Chains
  <2> QED  BY <2>1
<1>2. Genesis \in Commit /\ Prev[Genesis] = NoCommit /\ ChainTo[NoCommit] = <<>>
  BY Chains, ForestAssumption
<1>3. \A k \in 1..Len(ChainTo[NoCommit]) : FALSE
  BY <1>2
<1>4. Genesis \in Clean
  <2>1. \A i \in 1..Len(ChainTo[Genesis]) : ChainTo[Genesis][i] = Genesis
    BY <1>1, <1>2, <1>3
  <2> QED  BY <1>2, <2>1 DEF Clean
<1>5. ASSUME NEW c \in Commit, Prev[c] \in Clean, NEW i \in 1..Len(ChainTo[c]), ChainTo[c][i] \in Refused
      PROVE  ChainTo[c][i] \in {Genesis, c}
  BY <1>1, <1>5 DEF Clean
<1>6. ASSUME NEW c \in Commit, Prev[c] \in Clean, c \notin Refused PROVE c \in Clean
  BY <1>5, <1>6 DEF Clean
<1> QED  BY <1>4, <1>5, <1>6

LEMMA LogCids ==
    ASSUME NEW log \in Seq(Entry)
    PROVE  /\ Cids(log) \in Seq(Commit) /\ Len(Cids(log)) = Len(log)
           /\ \A i \in 1..Len(log) : Cids(log)[i] = log[i].cid
           /\ \A e \in Entry : Append(log, e) \in Seq(Entry) /\ Cids(Append(log, e)) = Append(Cids(log), e.cid)
           /\ Settle(log) \in Seq(Entry) /\ Len(Settle(log)) = Len(log)
           /\ \A i \in 1..Len(log) : Settle(log)[i].cid = log[i].cid
           /\ Cids(Settle(log)) = Cids(log)
<1>1. ASSUME NEW hist \in Seq(Entry)
      PROVE  /\ Cids(hist) \in Seq(Commit) /\ Len(Cids(hist)) = Len(hist)
             /\ \A i \in 1..Len(hist) : Cids(hist)[i] = hist[i].cid
  <2>1. DOMAIN hist = 1..Len(hist) /\ Len(hist) \in Nat /\ \A i \in 1..Len(hist) : hist[i].cid \in Commit
    <3>1. DOMAIN hist = 1..Len(hist) /\ Len(hist) \in Nat /\ \A i \in 1..Len(hist) : hist[i] \in Entry
      OBVIOUS
    <3>2. \A e \in Entry : e.cid \in Commit
      BY DEF Entry
    <3> QED  BY <3>1, <3>2
  <2>2. Cids(hist) \in [1..Len(hist) -> Commit]
    BY <2>1 DEF Cids
  <2>3. \A n \in Nat : \A f \in [1..n -> Commit] : f \in Seq(Commit) /\ Len(f) = n
    OBVIOUS
  <2> QED  BY <2>1, <2>2, <2>3 DEF Cids
<1>2. ASSUME NEW e \in Entry
      PROVE  Append(log, e) \in Seq(Entry) /\ Cids(Append(log, e)) = Append(Cids(log), e.cid)
  <2> DEFINE more == Append(log, e)
  <2>1. /\ more \in Seq(Entry) /\ Len(more) = Len(log) + 1 /\ more[Len(log) + 1] = e
        /\ \A i \in 1..Len(log) : more[i] = log[i]
    OBVIOUS
  <2> HIDE DEF more
  <2>2. Cids(more) \in Seq(Commit) /\ Append(Cids(log), e.cid) \in Seq(Commit)
    <3>1. e.cid \in Commit
      BY <1>2 DEF Entry
    <3>2. \A s \in Seq(Commit) : Append(s, e.cid) \in Seq(Commit)
      BY <3>1
    <3> HIDE DEF Cids
    <3> QED  BY <1>1, <2>1, <3>2
  <2>3. Len(Cids(more)) = Len(log) + 1 /\ Len(Append(Cids(log), e.cid)) = Len(log) + 1
    BY <1>1, <2>1
  <2>4. \A i \in 1..(Len(log) + 1) : Cids(more)[i] = Append(Cids(log), e.cid)[i]
    BY <1>1, <2>1
  <2>5. \A one, two \in Seq(Commit) :
          Len(one) = Len(two) /\ (\A i \in 1..Len(one) : one[i] = two[i]) => one = two
    OBVIOUS
  <2> HIDE DEF Cids
  <2>6. Cids(more) = Append(Cids(log), e.cid)
    BY <2>2, <2>3, <2>4, <2>5
  <2> QED  BY <2>1, <2>6 DEF more
<1>3. /\ Settle(log) \in Seq(Entry) /\ Len(Settle(log)) = Len(log)
      /\ \A i \in 1..Len(log) : Settle(log)[i].cid = log[i].cid
  <2>1. Settle(log) = Tips!Settle(log)
    BY DEF Settle, Tips!Settle, Min, Tips!Min
  <2>2. Entry = Tips!Entry
    BY DEF Entry, Tips!Entry
  <2>3. log \in Seq(Tips!Entry)
    BY <2>2
  <2>4. /\ Tips!Settle(log) \in Seq(Tips!Entry) /\ Len(Tips!Settle(log)) = Len(log)
        /\ \A i \in 1..Len(log) : Tips!Settle(log)[i].cid = log[i].cid
    BY <2>3, Tips!SettledIsDated, ClockIsPositive, ForestAssumption, Zenon DEF NoTime, Tips!NoTime
  <2> QED  BY <2>1, <2>2, <2>4
<1>4. Cids(Settle(log)) = Cids(log)
  <2>1. \A one, two \in Seq(Commit) :
          Len(one) = Len(two) /\ (\A i \in 1..Len(one) : one[i] = two[i]) => one = two
    OBVIOUS
  <2> QED  BY <1>1, <1>3, <2>1
<1> QED  BY <1>1, <1>2, <1>3, <1>4

-----------------------------------------------------------------------------
(* What a content amounts to, by the signed commits it is made of.         *)
Patches(q) == (IF setting.genesisContent THEN <<Genesis>> ELSE <<>>) \o q
AmountOf(q) ==
    IF Patches(q) = <<>> THEN Absent
    ELSE IF setting.handler = "caip10" THEN <<Last(Patches(q))>> ELSE Patches(q)

FollowsIn(cids, content, next) ==
    LET anchored == AnchoredPart(cids)
    IN  /\ IF setting.handler = "mid"
           THEN content = Amount(cids) /\ next = Absent
           ELSE /\ content = Amount(anchored)
                /\ next = IF Signed(cids) # Signed(anchored) THEN Amount(cids) ELSE Absent
        /\ Len(Signed(anchored)) =< Len(Signed(cids))

LEMMA AmountsTo ==
    /\ \A cids \in Seq(Commit) : Amount(cids) = AmountOf(Signed(cids))
    /\ \A q \in Seq(Commit) : \A c \in Commit :
          /\ setting.handler = "caip10" => AmountOf(Append(q, c)) = <<c>>
          /\ setting.handler # "caip10" => AmountOf(Append(q, c)) = Patched(AmountOf(q), c)
          /\ q # <<>> => AmountOf(q) # Absent
<1>1. \A cids \in Seq(Commit) : Amount(cids) = AmountOf(Signed(cids))
  BY DEF Amount, AmountOf, Patches
<1>2. ASSUME NEW q \in Seq(Commit), NEW c \in Commit
      PROVE  /\ Patches(q) \in Seq(Commit) /\ Patches(Append(q, c)) = Append(Patches(q), c)
             /\ q # <<>> => Patches(q) # <<>>
  <2>1. Genesis \in Commit
    BY ForestAssumption
  <2> QED  BY <2>1 DEF Patches
<1>3. \A p \in Seq(Commit) : \A c \in Commit :
         /\ Append(p, c) # <<>> /\ Last(Append(p, c)) = c
         /\ p # <<>> => Last(p) \in Commit /\ p[1] \in Commit
         /\ p = <<>> => Append(p, c) = <<c>>
  <2>1. ASSUME NEW p \in Seq(Commit), NEW c \in Commit
        PROVE  /\ Len(Append(p, c)) = Len(p) + 1 /\ Append(p, c)[Len(p) + 1] = c /\ Len(p) \in Nat
               /\ p # <<>> => Len(p) > 0
    OBVIOUS
  <2>2. ASSUME NEW p \in Seq(Commit), NEW c \in Commit
        PROVE  Append(p, c) # <<>> /\ Last(Append(p, c)) = c
    <3>1. Append(p, c) # <<>>
      <4>1. Len(<<>>) = 0
        OBVIOUS
      <4> QED  BY <2>1, <4>1
    <3> QED  BY <2>1, <3>1 DEF Last
  <2>3. ASSUME NEW p \in Seq(Commit), p # <<>> PROVE Last(p) \in Commit /\ p[1] \in Commit
    BY <2>3 DEF Last
  <2>4. \A c \in Commit : Append(<<>>, c) = <<c>>
    OBVIOUS
  <2> QED  BY <2>2, <2>3, <2>4
<1>4. \A c \in Commit : c # NoCommit
  BY ForestAssumption
<1>5. \A p \in Seq(Commit) : p # <<>> => p # Absent /\ <<Last(p)>> # Absent
  <2>1. ASSUME NEW p \in Seq(Commit), p # <<>> PROVE p # Absent /\ <<Last(p)>> # Absent
    <3>1. Last(p) \in Commit /\ p[1] \in Commit
      BY <2>1 DEF Last
    <3>2. Absent[1] = NoCommit /\ <<Last(p)>>[1] = Last(p)
      BY DEF Absent
    <3> QED  BY <1>4, <3>1, <3>2
  <2> QED  BY <2>1
<1>6. ASSUME NEW q \in Seq(Commit), NEW c \in Commit
      PROVE  /\ setting.handler = "caip10" => AmountOf(Append(q, c)) = <<c>>
             /\ setting.handler # "caip10" => AmountOf(Append(q, c)) = Patched(AmountOf(q), c)
             /\ q # <<>> => AmountOf(q) # Absent
  <2> DEFINE p == Patches(q)
  <2>1. /\ p \in Seq(Commit) /\ Patches(Append(q, c)) = Append(p, c)
        /\ q # <<>> => p # <<>>
    BY <1>2
  <2>2. /\ Append(p, c) # <<>> /\ Last(Append(p, c)) = c
        /\ p = <<>> => Append(p, c) = <<c>>
        /\ p # <<>> => p # Absent /\ <<Last(p)>> # Absent
    BY <1>3, <1>5, <2>1
  <2>3. AmountOf(q) = IF p = <<>> THEN Absent ELSE IF setting.handler = "caip10" THEN <<Last(p)>> ELSE p
    BY DEF AmountOf
  <2>4. AmountOf(Append(q, c)) = IF setting.handler = "caip10" THEN <<c>> ELSE Append(p, c)
    BY <2>1, <2>2 DEF AmountOf
  <2> HIDE DEF p
  <2> QED  BY <2>1, <2>2, <2>3, <2>4 DEF Patched
<1> QED  BY <1>1, <1>6

LEMMA FollowsOn ==
    ASSUME NEW cids \in Seq(Commit), NEW c \in Commit \ {Genesis}, NEW content, NEW next,
           FollowsIn(cids, content, next), setting \in AllSettings
    PROVE  /\ c \in TimeEvents =>
                 FollowsIn(Append(cids, c), IF next = Absent THEN content ELSE next, Absent)
           /\ c \notin TimeEvents =>
                 /\ setting.handler = "mid" => FollowsIn(Append(cids, c), Patched(content, c), next)
                 /\ setting.handler = "tile" =>
                       FollowsIn(Append(cids, c), content,
                                 Patched(IF next = Absent THEN content ELSE next, c))
                 /\ setting.handler = "caip10" => FollowsIn(Append(cids, c), content, <<c>>)
<1> DEFINE more == Append(cids, c)
           part == AnchoredPart(cids)
           q == Signed(cids)
           p == Signed(part)
<1>1. /\ more \in Seq(Commit) /\ part \in Seq(Commit) /\ q \in Seq(Commit) /\ p \in Seq(Commit)
      /\ AnchoredPart(more) = IF c \in TimeEvents THEN more ELSE part
      /\ Signed(more) = NextSigned(q, c)
  BY AnchoredGrows, SignedGrows
<1>2. /\ Amount(cids) = AmountOf(q) /\ Amount(part) = AmountOf(p)
      /\ Amount(more) = AmountOf(Signed(more))
  BY <1>1, AmountsTo
<1>3. p # q => q # <<>> /\ AmountOf(q) # Absent
  <2>1. Len(p) =< Len(q)
    BY DEF FollowsIn
  <2>2. q = <<>> => p = <<>>
    <3> HIDE DEF p, q
    <3> QED  BY <1>1, <2>1
  <2> HIDE DEF p, q
  <2> QED  BY <1>1, <2>2, AmountsTo
<1>4. /\ setting.handler = "mid" => content = AmountOf(q) /\ next = Absent
      /\ setting.handler # "mid" => content = AmountOf(p)
      /\ setting.handler # "mid" /\ q = p => next = Absent
      /\ setting.handler # "mid" /\ q # p => next = AmountOf(q) /\ next # Absent
      /\ Len(p) =< Len(q)
  BY <1>2, <1>3 DEF FollowsIn
<1>5. CASE c \in TimeEvents
  <2>1. Signed(more) = q /\ AnchoredPart(more) = more
    BY <1>1, <1>5 DEF NextSigned
  <2>2. (IF next = Absent THEN content ELSE next) = AmountOf(q)
    <3> HIDE DEF p, q
    <3> QED  BY <1>4
  <2>3. Len(q) =< Len(q)
    BY <1>1
  <2> HIDE DEF more, q, p
  <2>4. FollowsIn(more, AmountOf(q), Absent)
    BY <1>2, <2>1, <2>3 DEF FollowsIn
  <2> QED  BY <1>5, <2>2, <2>4 DEF more
<1>6. CASE c \notin TimeEvents
  <2>1. Signed(more) = Append(q, c) /\ AnchoredPart(more) = part
    BY <1>1, <1>6 DEF NextSigned
  <2>2. /\ setting.handler = "caip10" => Amount(more) = <<c>>
        /\ setting.handler # "caip10" => Amount(more) = Patched(AmountOf(q), c)
    <3> HIDE DEF q
    <3> QED  BY <1>1, <1>2, <2>1, AmountsTo
  <2>3. Signed(more) # p /\ Len(p) =< Len(Signed(more))
    <3> HIDE DEF q, p
    <3>1. Len(Append(q, c)) = Len(q) + 1 /\ Len(q) \in Nat /\ Len(p) \in Nat
      BY <1>1
    <3>2. Len(Append(q, c)) # Len(p)
      BY <1>4, <3>1
    <3> QED  BY <1>4, <2>1, <3>1, <3>2
  <2>4. CASE setting.handler = "mid"
    <3> HIDE DEF more, q
    <3>1. Patched(content, c) = Amount(more)
      BY <1>4, <2>2, <2>4
    <3>2. FollowsIn(more, Patched(content, c), next)
      BY <1>4, <2>1, <2>3, <2>4, <3>1 DEF FollowsIn
    <3> QED  BY <1>6, <2>4, <3>2 DEF more
  <2>5. CASE setting.handler = "tile"
    <3> DEFINE pending == IF next = Absent THEN content ELSE next
    <3>1. pending = AmountOf(q)
      <4> HIDE DEF p, q
      <4> QED  BY <1>4, <2>5
    <3>2. content = Amount(part)
      BY <1>2, <1>4, <2>5
    <3> HIDE DEF more, q, pending
    <3>3. Patched(pending, c) = Amount(more)
      BY <2>2, <2>5, <3>1
    <3>4. FollowsIn(more, content, Patched(pending, c))
      BY <2>1, <2>3, <2>5, <3>2, <3>3 DEF FollowsIn
    <3> QED  BY <1>6, <2>5, <3>4 DEF more, pending
  <2>6. CASE setting.handler = "caip10"
    <3>1. content = Amount(part)
      BY <1>2, <1>4, <2>6
    <3> HIDE DEF more
    <3>2. FollowsIn(more, content, <<c>>)
      BY <2>1, <2>2, <2>3, <2>6, <3>1 DEF FollowsIn
    <3> QED  BY <1>6, <2>6, <3>2 DEF more
  <2> QED  BY <1>6, <2>4, <2>5, <2>6 DEF AllSettings
<1> QED  BY <1>5, <1>6

-----------------------------------------------------------------------------
(* The commits that a node fetches to apply them, with Handlers' operators.*)
ChainCids(c) == {ChainTo[c][i] : i \in 1..Len(ChainTo[c])}

LEMMA FetchedAlike ==
    /\ ChainTo = Tips!ChainTo
    /\ \A tip : SyncFullLog(tip) = Tips!SyncFullLog(tip)
    /\ \A tip, hist : SyncLogUntilMatch(tip, CidsOf(hist)) = Tips!SyncLogUntilMatch(tip, Tips!CidsOf(hist))
    /\ \A cids : VerifyAnchors(cids, TimeEvents) = Tips!VerifyAnchors(cids, TimeEvents)
    /\ \A hist, c : TrustedLog(hist, c, FALSE) = Tips!TrustedLog(hist, c, FALSE)
    /\ \A hist, c : IndexOf(hist, c) = Tips!IndexOf(hist, c)
    /\ \A hist : CidsOf(hist) = Tips!CidsOf(hist)
<1>1. ChainTo = Tips!ChainTo
  BY DEF ChainTo, Tips!ChainTo
<1>2. \A tip : SyncFullLog(tip) = Tips!SyncFullLog(tip)
  BY <1>1 DEF SyncFullLog, Tips!SyncFullLog
<1>3. \A hist : CidsOf(hist) = Tips!CidsOf(hist)
  BY DEF CidsOf, Tips!CidsOf
<1>4. \A tip, hist : SyncLogUntilMatch(tip, CidsOf(hist)) = Tips!SyncLogUntilMatch(tip, Tips!CidsOf(hist))
  <2>1. \A S : Max(S) = Tips!Max(S)
    BY DEF Max, Tips!Max
  <2>2. ASSUME NEW tip, NEW known
        PROVE  SyncLogUntilMatch(tip, known) = Tips!SyncLogUntilMatch(tip, known)
    BY <1>1, <2>1 DEF SyncLogUntilMatch, Tips!SyncLogUntilMatch
  <2> QED  BY <1>3, <2>2
<1>5. \A cids : VerifyAnchors(cids, TimeEvents) = Tips!VerifyAnchors(cids, TimeEvents)
  BY DEF VerifyAnchors, Tips!VerifyAnchors, Min, Tips!Min, NoTime, Tips!NoTime
<1>6. \A hist, dest : CopyTrustedTimestamps(hist, dest, FALSE) = Tips!CopyTrustedTimestamps(hist, dest, FALSE)
  BY DEF CopyTrustedTimestamps, Tips!CopyTrustedTimestamps, Min, Tips!Min, NoTime, Tips!NoTime
<1>7. \A hist, c : TrustedLog(hist, c, FALSE) = Tips!TrustedLog(hist, c, FALSE)
  BY <1>2, <1>6 DEF TrustedLog, Tips!TrustedLog
<1>8. \A hist, c : IndexOf(hist, c) = Tips!IndexOf(hist, c)
  BY DEF IndexOf, Tips!IndexOf, SelectInSeq, Tips!SelectInSeq, Min, Tips!Min
<1> QED  BY <1>1, <1>2, <1>3, <1>4, <1>5, <1>7, <1>8

LEMMA FetchedInFull ==
    ASSUME NEW c \in Commit
    PROVE  LET new == VerifyAnchors(SyncFullLog(c), TimeEvents) IN
           /\ new \in Tips!NewLog /\ Len(new) > 0 /\ new[1].cid = Genesis
           /\ \A i \in 1..Len(new) : new[i].cid \in ChainCids(c) \cup {Genesis}
<1> DEFINE cids == SyncFullLog(c)
           new == VerifyAnchors(cids, TimeEvents)
<1>1. Tips!SyncFullLog(c) \in Seq(Commit) /\ Len(Tips!SyncFullLog(c)) > 0 /\ Tips!SyncFullLog(c)[1] = Genesis
  BY ClockIsPositive, ForestAssumption, Tips!FullLogBegins, Zenon DEF NoTime, Tips!NoTime
<1>2. cids \in Seq(Commit) /\ Len(cids) > 0 /\ cids[1] = Genesis
  BY <1>1, FetchedAlike
<1>3. \A i \in 1..Len(cids) : cids[i] \in ChainCids(c) \cup {Genesis}
  <2>1. cids = ChainTo[c] \/ cids = <<Genesis>>
    BY DEF SyncFullLog
  <2>2. cids = <<Genesis>> => Len(cids) = 1
    OBVIOUS
  <2> HIDE DEF cids
  <2>3. \A i \in 1..Len(ChainTo[c]) : ChainTo[c][i] \in ChainCids(c)
    BY DEF ChainCids
  <2>4. CASE cids = ChainTo[c]
    BY <2>3, <2>4
  <2>5. CASE cids = <<Genesis>>
    BY <2>2, <2>5, <1>2
  <2> QED  BY <2>1, <2>4, <2>5
<1> HIDE DEF cids
<1>4. Tips!VerifyAnchors(cids, TimeEvents) \in Tips!NewLog
  BY <1>2, ClockIsPositive, ForestAssumption, Tips!VerifiedIsTyped, Zenon DEF NoTime, Tips!NoTime
<1>5. LET got == Tips!VerifyAnchors(cids, TimeEvents) IN
      /\ Len(got) = Len(cids)
      /\ \A i \in 1..Len(cids) : got[i].cid = cids[i]
  <2>1. /\ Len(Tips!VerifyAnchors(cids, TimeEvents)) = Len(cids)
        /\ DOMAIN Tips!VerifyAnchors(cids, TimeEvents) = 1..Len(cids)
        /\ \A i \in 1..Len(cids) :
             /\ Tips!VerifyAnchors(cids, TimeEvents)[i].cid = cids[i]
             /\ Tips!VerifyAnchors(cids, TimeEvents)[i].ok = (cids[i] \notin TimeEvents \ TimeEvents)
    <3>1. cids \in Seq(Commit)
      BY <1>2
    <3> QED  BY <3>1, ClockIsPositive, ForestAssumption, Tips!VerifiedShape, Zenon DEF NoTime, Tips!NoTime
  <2> QED  BY <2>1
<1>6. new = Tips!VerifyAnchors(cids, TimeEvents)
  BY FetchedAlike
<1> HIDE DEF new
<1>7. new \in Tips!NewLog /\ Len(new) = Len(cids) /\ \A i \in 1..Len(cids) : new[i].cid = cids[i]
  BY <1>4, <1>5, <1>6
<1>8. 1 \in 1..Len(cids)
  BY <1>2
<1>9. new \in Tips!NewLog /\ Len(new) > 0 /\ new[1].cid = Genesis
      /\ \A i \in 1..Len(new) : new[i].cid \in ChainCids(c) \cup {Genesis}
  BY <1>2, <1>3, <1>7, <1>8
<1> QED  BY <1>9 DEF new, cids

LEMMA FetchedFromTheLog ==
    ASSUME NEW hist, Tips!GoodLog(hist), NEW c \in Commit
    PROVE  LET new == VerifyAnchors(SyncLogUntilMatch(c, CidsOf(hist)), TimeEvents) IN
           /\ new \in Tips!NewLog
           /\ \A i \in 1..Len(new) : new[i].cid \in ChainCids(c)
           /\ new # <<>> => Prev[new[1].cid] \in CidsOf(hist)
<1> DEFINE cids == SyncLogUntilMatch(c, CidsOf(hist))
           new == VerifyAnchors(cids, TimeEvents)
           chain == ChainTo[c]
<1>1. LET got == Tips!SyncLogUntilMatch(c, Tips!CidsOf(hist)) IN
         /\ got \in Seq(Commit)
         /\ \/ ~Tips!Rooted(c) /\ got = <<>>
            \/ Tips!Rooted(c) /\ \E m \in 1..Len(Tips!ChainTo[c]) : Tips!SyncedFrom(got, hist, c, m)
  <2>1. Tips!SyncLogUntilMatch(c, Tips!CidsOf(hist)) \in Seq(Commit)
    BY ClockIsPositive, ForestAssumption, Tips!SyncedIsTyped, Zenon DEF NoTime, Tips!NoTime
  <2>2. LET got == Tips!SyncLogUntilMatch(c, Tips!CidsOf(hist)) IN
            \/ ~Tips!Rooted(c) /\ got = <<>>
            \/ Tips!Rooted(c) /\ \E m \in 1..Len(Tips!ChainTo[c]) : Tips!SyncedFrom(got, hist, c, m)
    BY ClockIsPositive, ForestAssumption, Tips!SyncedFromTheLog, Zenon DEF NoTime, Tips!NoTime
  <2> QED  BY <2>1, <2>2
<1>2. cids = Tips!SyncLogUntilMatch(c, Tips!CidsOf(hist)) /\ chain = Tips!ChainTo[c]
  BY FetchedAlike
<1>3. \A k \in 2..Len(chain) : Prev[chain[k]] = chain[k - 1]
  <2>1. \A k \in 2..Len(Tips!ChainTo[c]) : Prev[Tips!ChainTo[c][k]] = Tips!ChainTo[c][k - 1]
    BY ClockIsPositive, ForestAssumption, Tips!ChainFollows, Zenon DEF NoTime, Tips!NoTime
  <2> QED  BY <1>2, <2>1
<1>4. chain \in Seq(Commit)
  BY Chains
<1> HIDE DEF cids, chain
<1>5. cids \in Seq(Commit) /\ (cids = <<>> \/ \E m \in 1..Len(chain) : Tips!SyncedFrom(cids, hist, c, m))
  BY <1>1, <1>2
<1>6. /\ \A i \in 1..Len(cids) : cids[i] \in ChainCids(c)
      /\ cids # <<>> => Prev[cids[1]] \in CidsOf(hist)
  <2>1. CASE cids = <<>>
    <3>1. Len(cids) = 0
      BY <2>1
    <3> QED  BY <2>1, <3>1
  <2>2. CASE \E m \in 1..Len(chain) : Tips!SyncedFrom(cids, hist, c, m)
    <3>1. PICK m \in 1..Len(chain) : Tips!SyncedFrom(cids, hist, c, m)
      BY <2>2
    <3>2. /\ m =< Len(hist) /\ chain[m] = hist[m].cid
          /\ Len(cids) = Len(chain) - m
          /\ \A i \in 1..(Len(chain) - m) : cids[i] = chain[m + i]
      BY <1>2, <3>1 DEF Tips!SyncedFrom, Tips!IsPartFrom
    <3>3. \A i \in 1..Len(cids) : m + i \in 1..Len(chain) /\ cids[i] = chain[m + i]
      BY <1>4, <3>2
    <3>4. hist \in Seq(Tips!Entry)
      BY DEF Tips!GoodLog
    <3>5. m \in DOMAIN hist
      BY <3>2, <3>4
    <3>6. chain[m] \in CidsOf(hist)
      BY <3>2, <3>5 DEF CidsOf
    <3>7. ASSUME cids # <<>> PROVE Prev[cids[1]] = chain[m]
      <4>1. Len(cids) > 0
        BY <1>5, <3>7
      <4>2. 1 \in 1..Len(cids) /\ m + 1 \in 2..Len(chain) /\ (m + 1) - 1 = m
        BY <1>4, <3>2, <4>1
      <4> QED  BY <1>3, <3>3, <4>2
    <3> QED  BY <3>3, <3>6, <3>7 DEF ChainCids, chain
  <2> QED  BY <1>5, <2>1, <2>2
<1>7. Tips!VerifyAnchors(cids, TimeEvents) \in Tips!NewLog
  BY <1>5, ClockIsPositive, ForestAssumption, Tips!VerifiedIsTyped, Zenon DEF NoTime, Tips!NoTime
<1>8. LET got == Tips!VerifyAnchors(cids, TimeEvents) IN
      /\ Len(got) = Len(cids)
      /\ \A i \in 1..Len(cids) : got[i].cid = cids[i]
  <2>1. /\ Len(Tips!VerifyAnchors(cids, TimeEvents)) = Len(cids)
        /\ DOMAIN Tips!VerifyAnchors(cids, TimeEvents) = 1..Len(cids)
        /\ \A i \in 1..Len(cids) :
             /\ Tips!VerifyAnchors(cids, TimeEvents)[i].cid = cids[i]
             /\ Tips!VerifyAnchors(cids, TimeEvents)[i].ok = (cids[i] \notin TimeEvents \ TimeEvents)
    BY <1>5, ClockIsPositive, ForestAssumption, Tips!VerifiedShape, Zenon DEF NoTime, Tips!NoTime
  <2> QED  BY <2>1
<1>9. new = Tips!VerifyAnchors(cids, TimeEvents)
  BY FetchedAlike
<1> HIDE DEF new
<1>10. new \in Tips!NewLog /\ Len(new) = Len(cids) /\ \A i \in 1..Len(cids) : new[i].cid = cids[i]
  BY <1>7, <1>8, <1>9
<1>11. new # <<>> => cids # <<>> /\ 1 \in 1..Len(cids)
  <2>1. new \in Seq(Tips!NewEntry)
    BY <1>10 DEF Tips!NewLog
  <2>2. new # <<>> => Len(new) > 0
    BY <2>1
  <2>3. Len(cids) > 0 => cids # <<>> /\ 1 \in 1..Len(cids)
    BY <1>5
  <2> QED  BY <1>10, <2>2, <2>3
<1>12. /\ new \in Tips!NewLog
       /\ \A i \in 1..Len(new) : new[i].cid \in ChainCids(c)
       /\ new # <<>> => Prev[new[1].cid] \in CidsOf(hist)
  BY <1>6, <1>10, <1>11
<1> QED  BY <1>12 DEF new, cids

LEMMA FetchedAgain ==
    ASSUME NEW hist, Tips!GoodLog(hist), NEW c \in CidsOf(hist)
    PROVE  LET new == TrustedLog(hist, c, FALSE) IN
           /\ new \in Tips!NewLog /\ Len(new) > 0 /\ new[1].cid = Genesis
           /\ IndexOf(hist, c) \in 1..Len(hist) /\ hist[IndexOf(hist, c)].cid = c
<1> DEFINE new == TrustedLog(hist, c, FALSE)
<1>1. c \in Tips!CidsOf(hist) /\ new = Tips!TrustedLog(hist, c, FALSE) /\ IndexOf(hist, c) = Tips!IndexOf(hist, c)
  BY FetchedAlike
<1>2. /\ hist \in Seq(Tips!Entry) /\ Len(hist) > 0 /\ hist[1].cid = Genesis
  BY DEF Tips!GoodLog
<1>3. FALSE \in BOOLEAN
  OBVIOUS
<1>4. \E i \in 1..Len(hist) : Tips!TrustedUpTo(hist, c, FALSE, i)
  BY <1>1, <1>3, ClockIsPositive, ForestAssumption, Tips!TrustedLogIsALog, Zenon DEF NoTime, Tips!NoTime
<1>5. PICK i \in 1..Len(hist) : Tips!TrustedUpTo(hist, c, FALSE, i)
  BY <1>4
<1> HIDE DEF new
<1>6. new \in Tips!NewLog /\ Len(new) = i /\ \A k \in 1..i : new[k].cid = hist[k].cid
  BY <1>1, <1>5 DEF Tips!TrustedUpTo
<1>7. 1 \in 1..i /\ i > 0
  BY <1>2, <1>5
<1>8. Tips!IndexOf(hist, c) \in 1..Len(hist) /\ hist[Tips!IndexOf(hist, c)].cid = c
  BY <1>1, <1>2, ClockIsPositive, ForestAssumption, Tips!IndexIsFound, Zenon DEF NoTime, Tips!NoTime
<1>9. /\ new \in Tips!NewLog /\ Len(new) > 0 /\ new[1].cid = Genesis
      /\ IndexOf(hist, c) \in 1..Len(hist) /\ hist[IndexOf(hist, c)].cid = c
  BY <1>1, <1>2, <1>6, <1>7, <1>8
<1> QED  BY <1>9 DEF new

-----------------------------------------------------------------------------
(* What a handler does to a log that is as logs are to be.                 *)
LEMMA LogGrows ==
    ASSUME NEW hist, Tips!GoodLog(hist), NEW c \in Commit, NEW ts \in Nat,
           Prev[c] = Tip(hist), c \notin Invalid
    PROVE  LET more == Append(hist, [cid |-> c, ts |-> ts]) IN
           /\ c # Genesis /\ Tip(hist) = hist[Len(hist)].cid /\ hist \in Seq(Entry)
           /\ c \notin TimeEvents => Tips!GoodLog(more)
           /\ c \in TimeEvents /\ ts = AnchorTime[c] => Tips!GoodLog(Settle(more))
<1> DEFINE e == [cid |-> c, ts |-> ts]
           more == Append(hist, e)
           n == Len(hist)
<1>1. /\ hist \in Seq(Entry) /\ n \in Nat /\ n > 0 /\ hist[1].cid = Genesis
      /\ \A i \in 1..n : hist[i].cid \notin Invalid
      /\ \A i \in 2..n : Prev[hist[i].cid] = hist[i - 1].cid
      /\ \A i \in 1..n : hist[i].cid \in TimeEvents => hist[i].ts = AnchorTime[hist[i].cid]
      /\ Tips!Dated(hist)
  <2>1. Entry = Tips!Entry
    BY DEF Entry, Tips!Entry
  <2> QED  BY <2>1 DEF Tips!GoodLog
<1>2. e \in Entry /\ e.cid = c /\ e.ts = ts
  BY DEF Entry
<1> HIDE DEF e
<1>3. /\ more \in Seq(Entry) /\ Len(more) = n + 1 /\ more[n + 1] = e
      /\ \A i \in 1..n : more[i] = hist[i]
  BY <1>1, <1>2
<1>4. Tip(hist) = hist[n].cid /\ n \in 1..n /\ hist[n] \in Entry
  BY <1>1 DEF Tip, Last
<1>5. c # Genesis
  <2>1. hist[n].cid \in Commit
    BY <1>4 DEF Entry
  <2> QED  BY <1>4, <2>1, ForestAssumption
<1> HIDE DEF more
<1>6. /\ more[1].cid = Genesis
      /\ \A i \in 1..(n + 1) : more[i].cid \notin Invalid
      /\ \A i \in 2..(n + 1) : Prev[more[i].cid] = more[i - 1].cid
  <2>1. \A i \in 1..(n + 1) : i = n + 1 \/ i \in 1..n
    BY <1>1
  <2>2. \A i \in 2..(n + 1) : (i = n + 1 /\ i - 1 = n) \/ (i \in 2..n /\ i - 1 \in 1..n /\ i \in 1..n)
    BY <1>1
  <2>3. 1 \in 1..n
    BY <1>1
  <2> QED  BY <1>1, <1>2, <1>3, <1>4, <2>1, <2>2, <2>3
<1>7. CASE c \notin TimeEvents
  <2>1. ASSUME NEW i \in 1..(n + 1), NEW j \in 1..(n + 1), i =< j, more[j].cid \in TimeEvents,
               \A k \in i..(j - 1) : more[k].cid \notin TimeEvents
        PROVE  more[i].ts = more[j].ts
    <3>1. j # n + 1
      BY <1>2, <1>3, <1>7, <2>1
    <3>2. i \in 1..n /\ j \in 1..n /\ \A k \in i..(j - 1) : k \in 1..n
      BY <1>1, <2>1, <3>1
    <3>3. \A k \in i..(j - 1) : hist[k].cid \notin TimeEvents
      BY <1>3, <2>1, <3>2
    <3>4. hist[i].ts = hist[j].ts
      BY <1>1, <1>3, <2>1, <3>2, <3>3 DEF Tips!Dated
    <3> QED  BY <1>3, <3>2, <3>4
  <2>2. Tips!Dated(more)
    BY <1>3, <2>1 DEF Tips!Dated
  <2>3. \A i \in 1..(n + 1) : more[i].cid \in TimeEvents => more[i].ts = AnchorTime[more[i].cid]
    <3>1. \A i \in 1..(n + 1) : i = n + 1 \/ i \in 1..n
      BY <1>1
    <3> QED  BY <1>1, <1>2, <1>3, <1>7, <3>1
  <2>4. Entry = Tips!Entry
    BY DEF Entry, Tips!Entry
  <2>5. Tips!GoodLog(more)
    BY <1>1, <1>3, <1>6, <2>2, <2>3, <2>4 DEF Tips!GoodLog
  <2> QED  BY <1>1, <1>4, <1>5, <1>7, <2>5 DEF more, e
<1>8. CASE c \in TimeEvents
  <2> DEFINE settled == Settle(more)
  <2>1. Entry = Tips!Entry /\ settled = Tips!Settle(more)
    BY DEF Entry, Tips!Entry, Settle, Tips!Settle, Min, Tips!Min
  <2>2. more \in Seq(Tips!Entry)
    BY <1>3, <2>1
  <2>3. /\ Tips!Settle(more) \in Seq(Tips!Entry) /\ Len(Tips!Settle(more)) = Len(more)
        /\ \A i \in 1..Len(more) :
              /\ Tips!Settle(more)[i].cid = more[i].cid
              /\ more[i].cid \in TimeEvents => Tips!Settle(more)[i].ts = more[i].ts
              /\ Tips!NotAnchoredFrom(more, i) => Tips!Settle(more)[i].ts = more[i].ts
        /\ Tips!Dated(Tips!Settle(more))
        /\ Tips!Dated(more) => Tips!Settle(more) = more
    BY <2>2, Tips!SettledIsDated, ClockIsPositive, ForestAssumption, Zenon DEF NoTime, Tips!NoTime
  <2> HIDE DEF settled
  <2>4. /\ settled \in Seq(Tips!Entry) /\ Len(settled) = n + 1 /\ Tips!Dated(settled)
        /\ \A i \in 1..(n + 1) :
              settled[i].cid = more[i].cid /\ (more[i].cid \in TimeEvents => settled[i].ts = more[i].ts)
    BY <1>3, <2>1, <2>3
  <2>5. ASSUME ts = AnchorTime[c] PROVE Tips!GoodLog(settled)
    <3>1. \A i \in 1..(n + 1) : more[i].cid \in TimeEvents => more[i].ts = AnchorTime[more[i].cid]
      <4>1. \A i \in 1..(n + 1) : i = n + 1 \/ i \in 1..n
        BY <1>1
      <4> QED  BY <1>1, <1>2, <1>3, <2>5, <4>1
    <3>2. 1 \in 1..(n + 1) /\ \A i \in 2..(n + 1) : i \in 1..(n + 1) /\ i - 1 \in 1..(n + 1)
      BY <1>1
    <3>3. /\ settled[1].cid = Genesis
          /\ \A i \in 1..(n + 1) : settled[i].cid \notin Invalid
          /\ \A i \in 2..(n + 1) : Prev[settled[i].cid] = settled[i - 1].cid
          /\ \A i \in 1..(n + 1) : settled[i].cid \in TimeEvents => settled[i].ts = AnchorTime[settled[i].cid]
      BY <1>6, <2>4, <3>1, <3>2
    <3>4. n + 1 > 0
      BY <1>1
    <3> QED  BY <2>4, <3>3, <3>4 DEF Tips!GoodLog
  <2> QED  BY <1>1, <1>4, <1>5, <1>8, <2>5 DEF settled, more, e
<1> QED  BY <1>7, <1>8

LEMMA LogBegins ==
    ASSUME NEW ts \in Nat, Genesis \notin Invalid
    PROVE  Tips!GoodLog(<<[cid |-> Genesis, ts |-> ts]>>)
<1> DEFINE hist == <<[cid |-> Genesis, ts |-> ts]>>
<1>1. Genesis \in Commit /\ Genesis \notin TimeEvents
  BY ForestAssumption
<1>2. [cid |-> Genesis, ts |-> ts] \in Tips!Entry
  BY <1>1 DEF Tips!Entry
<1>3. hist \in Seq(Tips!Entry) /\ Len(hist) = 1 /\ hist[1].cid = Genesis
  BY <1>2
<1> HIDE DEF hist
<1>4. \A i \in 1..1 : hist[i].cid = Genesis
  BY <1>3
<1>5. Tips!Dated(hist)
  BY <1>1, <1>3, <1>4 DEF Tips!Dated
<1>6. Tips!GoodLog(hist)
  BY <1>1, <1>3, <1>4, <1>5 DEF Tips!GoodLog
<1> QED  BY <1>6 DEF hist

-----------------------------------------------------------------------------
(* The inductive invariant of Handlers, for streams whose handler is       *)
(* spared what it does not undo: good logs of commits that were not        *)
(* refused, and content that follows them.                                 *)
Spared == setting.handler = "caip10" \/ ~Exposed
Fit == IF Exposed THEN Commit ELSE Clean

IsState(s) == s \in [log : {s.log}, content : {s.content}, next : {s.next}]
GoodState(s) ==
    /\ IsState(s)
    /\ Tips!GoodLog(s.log)
    /\ \A i \in 1..Len(s.log) : s.log[i].cid \in Fit
    /\ FollowsIn(Cids(s.log), s.content, s.next)

LEMMA GoodStateHolds ==
    ASSUME NEW s, GoodState(s)
    PROVE  /\ s # Nothing /\ s.log \in Seq(Entry) /\ Len(s.log) \in Nat /\ Len(s.log) > 0
           /\ Cids(s.log) \in Seq(Commit) /\ Tip(s.log) \in Fit \cap Commit
           /\ CidsOf(s.log) \subseteq Fit \cap Commit
           /\ Follows(s)
<1>1. s.log \in Seq(Entry) /\ Len(s.log) \in Nat /\ Len(s.log) > 0
  <2>1. Entry = Tips!Entry
    BY DEF Entry, Tips!Entry
  <2> QED  BY <2>1 DEF GoodState, Tips!GoodLog
<1>2. s # Nothing
  <2>1. Len(Nothing.log) = 0
    BY DEF Nothing
  <2> QED  BY <1>1, <2>1
<1>3. Cids(s.log) \in Seq(Commit)
  BY <1>1, LogCids
<1>4. \A i \in 1..Len(s.log) : s.log[i].cid \in Fit \cap Commit
  <2>1. \A e \in Entry : e.cid \in Commit
    BY DEF Entry
  <2>2. \A i \in 1..Len(s.log) : s.log[i] \in Entry
    BY <1>1
  <2> QED  BY <2>1, <2>2 DEF GoodState
<1>5. Tip(s.log) \in Fit \cap Commit
  <2>1. Len(s.log) \in 1..Len(s.log)
    BY <1>1
  <2> QED  BY <1>4, <2>1 DEF Tip, Last
<1>6. CidsOf(s.log) \subseteq Fit \cap Commit
  <2>1. DOMAIN s.log = 1..Len(s.log)
    BY <1>1
  <2> QED  BY <1>4, <2>1 DEF CidsOf
<1>7. Follows(s)
  BY DEF Follows, FollowsIn, GoodState
<1> QED  BY <1>1, <1>2, <1>3, <1>5, <1>6, <1>7

LEMMA StateGrows ==
    ASSUME NEW s, GoodState(s), NEW c \in Commit, NEW ts \in Nat, Prev[c] = Tip(s.log),
           c \notin Invalid, Exposed \/ c \notin Refused, NEW content, NEW next,
           FollowsIn(Append(Cids(s.log), c), content, next)
    PROVE  LET more == Append(s.log, [cid |-> c, ts |-> ts]) IN
           /\ c \notin TimeEvents => GoodState([log |-> more, content |-> content, next |-> next])
           /\ c \in TimeEvents /\ ts = AnchorTime[c] =>
                 GoodState([log |-> Settle(more), content |-> content, next |-> next])
<1> DEFINE hist == s.log
           e == [cid |-> c, ts |-> ts]
           more == Append(hist, e)
<1>1. hist \in Seq(Entry) /\ Len(hist) \in Nat /\ Tip(hist) \in Fit
  BY GoodStateHolds
<1>2. e \in Entry /\ e.cid = c
  BY DEF Entry
<1>3. /\ c \notin TimeEvents => Tips!GoodLog(more)
      /\ c \in TimeEvents /\ ts = AnchorTime[c] => Tips!GoodLog(Settle(more))
  BY LogGrows DEF GoodState
<1>4. c \in Fit
  BY <1>1, CleanGrows DEF Fit
<1>5. more \in Seq(Entry) /\ Cids(more) = Append(Cids(hist), c)
  <2> HIDE DEF e, hist
  <2> QED  BY <1>1, <1>2, LogCids
<1>6. /\ Settle(more) \in Seq(Entry) /\ Len(Settle(more)) = Len(more)
      /\ \A i \in 1..Len(more) : Settle(more)[i].cid = more[i].cid
      /\ Cids(Settle(more)) = Cids(more)
  <2> HIDE DEF more
  <2> QED  BY <1>5, LogCids
<1>7. \A i \in 1..Len(more) : more[i].cid \in Fit
  <2>1. /\ Len(more) = Len(hist) + 1 /\ more[Len(hist) + 1] = e
        /\ \A i \in 1..Len(hist) : more[i] = hist[i]
    BY <1>1, <1>2
  <2>2. \A i \in 1..(Len(hist) + 1) : i = Len(hist) + 1 \/ i \in 1..Len(hist)
    BY <1>1
  <2> HIDE DEF more, e
  <2> QED  BY <1>2, <1>4, <2>1, <2>2 DEF GoodState
<1> HIDE DEF more, e, hist
<1>8. FollowsIn(Cids(more), content, next) /\ FollowsIn(Cids(Settle(more)), content, next)
  BY <1>5, <1>6 DEF hist
<1>9. /\ c \notin TimeEvents => GoodState([log |-> more, content |-> content, next |-> next])
      /\ c \in TimeEvents /\ ts = AnchorTime[c] =>
            GoodState([log |-> Settle(more), content |-> content, next |-> next])
  BY <1>3, <1>6, <1>7, <1>8 DEF GoodState, IsState
<1> QED  BY <1>9 DEF more, e, hist

LEMMA Updated ==
    ASSUME NEW s, IsState(s), NEW pushed, NEW patched
    PROVE  /\ [s EXCEPT !.log = pushed, !.content = patched] = [log |-> pushed, content |-> patched, next |-> s.next]
           /\ [s EXCEPT !.log = pushed, !.next = patched] = [log |-> pushed, content |-> s.content, next |-> patched]
<1> DEFINE t == [s EXCEPT !.log = pushed]
           L == {s.log, pushed}
           C == {s.content, patched}
           N == {s.next, patched}
<1>0. s \in [log : L, content : C, next : N] /\ pushed \in L /\ patched \in C /\ patched \in N
  BY DEF IsState
<1> HIDE DEF L, C, N
<1>1. t = [log |-> pushed, content |-> s.content, next |-> s.next]
  <2>1. s \in [log : L, content : C, next : N] /\ pushed \in L
    BY <1>0
  <2> QED  BY <2>1 DEF t
<1>2. t \in [log : L, content : C, next : N] /\ t.log = pushed /\ t.content = s.content /\ t.next = s.next
  <2> HIDE DEF t
  <2>1. s.content \in C /\ s.next \in N
    BY <1>0
  <2> QED  BY <1>0, <1>1, <2>1
<1> HIDE DEF t
<1>3. /\ [t EXCEPT !.content = patched] = [log |-> pushed, content |-> patched, next |-> s.next]
      /\ [t EXCEPT !.next = patched] = [log |-> pushed, content |-> s.content, next |-> patched]
  <2>1. /\ t \in [log : L, content : C, next : N] /\ patched \in C /\ patched \in N
        /\ t.log = pushed /\ t.content = s.content /\ t.next = s.next
    BY <1>0, <1>2
  <2> QED  BY <2>1
<1> QED  BY <1>3, Zenon DEF t
LEMMA CommitApplied ==
    ASSUME setting \in AllSettings, Spared, NEW s, GoodState(s), NEW e \in Tips!NewEntry,
           e.ok /\ e.cid \in TimeEvents => e.ts = AnchorTime[e.cid],
           NEW miss \in BOOLEAN, ~Exposed => ~miss, NEW at
    PROVE  LET r == ApplyCommit(s, e, miss, at) IN
           /\ r.ok \in BOOLEAN
           /\ r.ok => GoodState(r.state)
           /\ ~r.ok /\ (setting.handler = "caip10" \/ (e.cid \in Refused => e.cid = Genesis))
                 => r.state = s
<1> DEFINE r == ApplyCommit(s, e, miss, at)
           cids == Cids(s.log)
           c == e.cid
<1>1. c \in Commit /\ e.ts \in Nat /\ e.ok \in BOOLEAN
  BY DEF Tips!NewEntry
<1>2. s # Nothing /\ cids \in Seq(Commit)
  BY GoodStateHolds
<1>3. CASE ~Accepts(e, Tip(s.log), at)
  <2>1. r = [ok |-> FALSE, state |-> s]
    BY <1>2, <1>3 DEF ApplyCommit
  <2> QED  BY <2>1
<1>4. CASE Accepts(e, Tip(s.log), at)
  <2>1. e.ok /\ Prev[c] = Tip(s.log) /\ c \notin Invalid
    BY <1>4 DEF Accepts
  <2>2. c # Genesis
    BY <1>1, <2>1, LogGrows DEF GoodState
  <2>3. r = IF c \in TimeEvents THEN ApplyAnchor(s, e) ELSE ApplySigned(s, e, miss)
    BY <1>2, <1>4 DEF ApplyCommit
  <2>4. FollowsIn(cids, s.content, s.next)
    BY DEF GoodState
  <2>5. IsState(s)
    BY DEF GoodState
  <2>6. CASE c \in TimeEvents
    <3> DEFINE content == IF s.next = Absent THEN s.content ELSE s.next
               log == Settle(Append(s.log, [cid |-> c, ts |-> e.ts]))
    <3>1. r = [ok |-> TRUE, state |-> [log |-> log, content |-> content, next |-> Absent]]
      BY <2>3, <2>6 DEF ApplyAnchor
    <3>2. FollowsIn(Append(cids, c), content, Absent)
      BY <1>1, <1>2, <2>2, <2>4, <2>6, FollowsOn
    <3>3. c \notin Refused /\ e.ts = AnchorTime[c]
      BY <2>1, <2>6, HandlerAssumption
    <3>4. GoodState([log |-> log, content |-> content, next |-> Absent])
      <4> HIDE DEF content
      <4> QED  BY <1>1, <2>1, <2>6, <3>2, <3>3, StateGrows
    <3> HIDE DEF log, content
    <3> QED  BY <3>1, <3>4
  <2>7. CASE c \notin TimeEvents
    <3>1. r = ApplySigned(s, e, miss)
      BY <2>3, <2>7
    <3>2. ASSUME ContentFails(e, miss)
          PROVE  r.ok = FALSE /\ (setting.handler = "caip10" => r.state = s)
      BY <3>1, <3>2 DEF ApplySigned, MidApplySigned, TileApplySigned, CaipApplySigned, AllSettings
    <3>3. ASSUME ContentFails(e, miss), setting.handler # "caip10" PROVE c \in Refused
      BY <3>3 DEF ContentFails, Spared
    <3>4. CASE ContentFails(e, miss)
      BY <2>2, <3>2, <3>3, <3>4
    <3>5. CASE ~ContentFails(e, miss)
      <4>1. c \notin Refused
        BY <3>5 DEF ContentFails
      <4> DEFINE pushed == Append(s.log, [cid |-> c, ts |-> e.ts])
                 pending == IF s.next = Absent THEN s.content ELSE s.next
                 pushedNow == Append(s.log, [cid |-> c, ts |-> NoTime])
      <4>2. CASE setting.handler = "mid"
        <5>1. r = [ok |-> TRUE, state |-> [log |-> pushed, content |-> Patched(s.content, c), next |-> s.next]]
          <6>1. r = MidApplySigned(s, e, miss)
            BY <3>1, <4>2 DEF ApplySigned
          <6>2. r = [ok |-> TRUE, state |-> [s EXCEPT !.log = pushed, !.content = Patched(@, c)]]
            BY <3>5, <6>1 DEF MidApplySigned
          <6>3. [s EXCEPT !.log = pushed, !.content = Patched(@, c)]
                   = [log |-> pushed, content |-> Patched(s.content, c), next |-> s.next]
            <7> HIDE DEF pushed
            <7> QED  BY <2>5, Updated, Zenon
          <6> QED  BY <6>2, <6>3
        <5>2. FollowsIn(Append(cids, c), Patched(s.content, c), s.next)
          BY <1>1, <1>2, <2>2, <2>4, <2>7, <4>2, FollowsOn
        <5>3. GoodState([log |-> pushed, content |-> Patched(s.content, c), next |-> s.next])
          BY <1>1, <2>1, <2>7, <4>1, <5>2, StateGrows
        <5> HIDE DEF pushed, r
        <5>4. r.ok = TRUE /\ r.state = [log |-> pushed, content |-> Patched(s.content, c), next |-> s.next]
          BY <5>1
        <5> QED  BY <5>3, <5>4 DEF r
      <4>3. CASE setting.handler = "tile"
        <5>1. r = [ok |-> TRUE, state |-> [log |-> pushed, content |-> s.content, next |-> Patched(pending, c)]]
          <6>1. r = TileApplySigned(s, e, miss)
            BY <3>1, <4>3 DEF ApplySigned
          <6>2. r = [ok |-> TRUE,
                     state |-> [s EXCEPT !.log = pushed,
                                         !.next = Patched(IF @ = Absent THEN s.content ELSE @, c)]]
            BY <3>5, <6>1 DEF TileApplySigned
          <6>3. [s EXCEPT !.log = pushed, !.next = Patched(IF @ = Absent THEN s.content ELSE @, c)]
                   = [log |-> pushed, content |-> s.content, next |-> Patched(pending, c)]
            <7> HIDE DEF pushed
            <7> QED  BY <2>5, Updated, Zenon
          <6> QED  BY <6>2, <6>3
        <5>2. FollowsIn(Append(cids, c), s.content, Patched(pending, c))
          BY <1>1, <1>2, <2>2, <2>4, <2>7, <4>3, FollowsOn
        <5>3. GoodState([log |-> pushed, content |-> s.content, next |-> Patched(pending, c)])
          <6> HIDE DEF pending
          <6> QED  BY <1>1, <2>1, <2>7, <4>1, <5>2, StateGrows
        <5> HIDE DEF pushed, r, pending
        <5>4. r.ok = TRUE /\ r.state = [log |-> pushed, content |-> s.content, next |-> Patched(pending, c)]
          BY <5>1
        <5> QED  BY <5>3, <5>4 DEF r
      <4>4. CASE setting.handler = "caip10"
        <5>1. r = [ok |-> TRUE, state |-> [log |-> pushedNow, content |-> s.content, next |-> <<c>>]]
          <6>1. r = CaipApplySigned(s, e, miss)
            BY <3>1, <4>4 DEF ApplySigned
          <6>2. r = [ok |-> TRUE, state |-> [s EXCEPT !.log = pushedNow, !.next = <<c>>]]
            BY <3>5, <6>1 DEF CaipApplySigned
          <6>3. [s EXCEPT !.log = pushedNow, !.next = <<c>>]
                   = [log |-> pushedNow, content |-> s.content, next |-> <<c>>]
            <7> HIDE DEF pushedNow
            <7> QED  BY <2>5, Updated, Zenon
          <6> QED  BY <6>2, <6>3
        <5>2. FollowsIn(Append(cids, c), s.content, <<c>>)
          BY <1>1, <1>2, <2>2, <2>4, <2>7, <4>4, FollowsOn
        <5>3. NoTime \in Nat
          BY DEF NoTime
        <5>4. GoodState([log |-> pushedNow, content |-> s.content, next |-> <<c>>])
          BY <1>1, <2>1, <2>7, <4>1, <5>2, <5>3, StateGrows
        <5> HIDE DEF pushedNow, r
        <5>5. r.ok = TRUE /\ r.state = [log |-> pushedNow, content |-> s.content, next |-> <<c>>]
          BY <5>1
        <5> QED  BY <5>4, <5>5 DEF r
      <4>5. setting.handler \in {"mid", "tile", "caip10"}
        BY DEF AllSettings
      <4> QED  BY <4>2, <4>3, <4>4, <4>5
    <3> QED  BY <3>4, <3>5
  <2> QED  BY <2>6, <2>7
<1> QED  BY <1>3, <1>4

LEMMA GenesisApplied ==
    ASSUME setting \in AllSettings, NEW e \in Tips!NewEntry, e.cid = Genesis, NEW miss \in BOOLEAN, NEW at
    PROVE  LET r == ApplyCommit(Nothing, e, miss, at) IN
           /\ r.ok \in BOOLEAN
           /\ r.ok => GoodState(r.state)
           /\ ~r.ok => r.state = Nothing
<1> DEFINE r == ApplyCommit(Nothing, e, miss, at)
           begun == <<[cid |-> Genesis, ts |-> e.ts]>>
           content == IF setting.genesisContent THEN <<Genesis>> ELSE Absent
           s == [log |-> begun, content |-> content, next |-> Absent]
<1>1. r = ApplyGenesis(e, miss, at)
  BY DEF ApplyCommit
<1>2. r = [ok |-> FALSE, state |-> Nothing] \/ (Accepts(e, NoCommit, at) /\ r = [ok |-> TRUE, state |-> s])
  <2>1. IsState(Nothing) /\ Nothing.next = Absent
    BY DEF Nothing, IsState
  <2>2. [Nothing EXCEPT !.log = begun, !.content = content] = s
    <3> DEFINE none == Nothing
    <3>1. IsState(none) /\ none.next = Absent
      BY <2>1
    <3> HIDE DEF begun, content, none
    <3>2. [none EXCEPT !.log = begun, !.content = content] = [log |-> begun, content |-> content, next |-> none.next]
      BY <3>1, Updated
    <3> QED  BY <3>1, <3>2 DEF none
  <2> QED  BY <1>1, <2>2 DEF ApplyGenesis
<1>3. ASSUME Accepts(e, NoCommit, at) PROVE GoodState(s)
  <2>1. e.ts \in Nat /\ Genesis \in Commit /\ Genesis \notin TimeEvents /\ Genesis \notin Invalid
    BY <1>3, ForestAssumption DEF Accepts, Tips!NewEntry
  <2>2. Tips!GoodLog(begun)
    BY <2>1, LogBegins
  <2>3. <<>> \in Seq(Entry) /\ <<>> \in Seq(Commit) /\ [cid |-> Genesis, ts |-> e.ts] \in Entry
    BY <2>1 DEF Entry
  <2>4. Cids(<<>>) = <<>>
    <3>1. Cids(<<>>) \in Seq(Commit) /\ Len(Cids(<<>>)) = Len(<<>>)
      BY <2>3, LogCids
    <3> HIDE DEF Cids
    <3>2. \A q \in Seq(Commit) : Len(q) = Len(<<>>) => q = <<>>
      OBVIOUS
    <3> QED  BY <3>1, <3>2
  <2>5. Cids(begun) = Append(<<>>, Genesis)
    <3>1. Append(<<>>, [cid |-> Genesis, ts |-> e.ts]) = begun
      OBVIOUS
    <3>2. Cids(Append(<<>>, [cid |-> Genesis, ts |-> e.ts])) = Append(Cids(<<>>), Genesis)
      BY <2>3, LogCids
    <3> QED  BY <2>4, <3>1, <3>2
  <2>6. AnchoredPart(<<>>) = <<>>
    <3>1. {0} \cup {i \in DOMAIN <<>> : <<>>[i] \in TimeEvents} = {0}
      OBVIOUS
    <3>2. Max({0}) = 0
      BY DEF Max
    <3>3. SubSeq(<<>>, 1, 0) = <<>>
      OBVIOUS
    <3> QED  BY <3>1, <3>2, <3>3 DEF AnchoredPart
  <2>7. AnchoredPart(Append(<<>>, Genesis)) = <<>> /\ Signed(Append(<<>>, Genesis)) = <<>> /\ Signed(<<>>) = <<>>
    BY <2>1, <2>3, <2>6, AnchoredGrows, SignedGrows DEF NextSigned
  <2>8. Amount(<<>>) = content /\ Amount(Append(<<>>, Genesis)) = content
    <3>1. Amount(<<>>) = AmountOf(<<>>) /\ Amount(Append(<<>>, Genesis)) = AmountOf(<<>>)
      <4>1. Append(<<>>, Genesis) \in Seq(Commit)
        BY <2>1, <2>3
      <4> QED  BY <2>3, <2>7, <4>1, AmountsTo
    <3>2. Patches(<<>>) = IF setting.genesisContent THEN <<Genesis>> ELSE <<>>
      BY <2>1 DEF Patches
    <3>3. <<Genesis>> # <<>> /\ Last(<<Genesis>>) = Genesis
      BY <2>1 DEF Last
    <3> QED  BY <3>1, <3>2, <3>3 DEF AmountOf
  <2>9. FollowsIn(Append(<<>>, Genesis), content, Absent)
    <3>1. Len(<<>>) =< Len(<<>>)
      OBVIOUS
    <3> HIDE DEF content
    <3> QED  BY <2>7, <2>8, <3>1 DEF FollowsIn
  <2>10. \A i \in 1..Len(begun) : begun[i].cid \in Fit
    BY <2>1, CleanGrows DEF Fit
  <2> HIDE DEF begun, content
  <2> QED  BY <2>2, <2>5, <2>9, <2>10 DEF GoodState, IsState
<1> HIDE DEF s, r
<1>4. r.ok \in BOOLEAN /\ (r.ok => GoodState(r.state)) /\ (~r.ok => r.state = Nothing)
  <2>1. CASE r = [ok |-> FALSE, state |-> Nothing]
    <3>1. r.ok = FALSE /\ r.state = Nothing
      BY <2>1
    <3> QED  BY <3>1
  <2>2. CASE Accepts(e, NoCommit, at) /\ r = [ok |-> TRUE, state |-> s]
    <3>1. r.ok = TRUE /\ r.state = s
      BY <2>2
    <3> QED  BY <1>3, <2>2, <3>1
  <2> QED  BY <1>2, <2>1, <2>2
<1> QED  BY <1>4 DEF r

LEMMA CommitsApplied ==
    ASSUME setting \in AllSettings, Spared, NEW s, NEW new \in Tips!NewLog, NEW throws \in BOOLEAN,
           NEW miss \in BOOLEAN, ~Exposed => ~miss, NEW at,
           GoodState(s) \/ (s = Nothing /\ (new # <<>> => new[1].cid = Genesis)),
           \/ throws \/ setting.handler = "caip10"
           \/ \A i \in 1..Len(new) : new[i].cid \in Refused => new[i].cid = Genesis
    PROVE  LET to == ApplyCommits(s, new, throws, miss, at) IN to = Nothing \/ GoodState(to)
<1>1. /\ new \in Seq(Tips!NewEntry) /\ Len(new) \in Nat
      /\ \A i \in 1..Len(new) : new[i].ok /\ new[i].cid \in TimeEvents => new[i].ts = AnchorTime[new[i].cid]
  BY DEF Tips!NewLog
<1>2. PICK f : /\ MovesTo(f, s, new, Len(new), miss, at)
               /\ ApplyCommits(s, new, throws, miss, at) =
                     IF ~f[Len(new)].ok /\ throws THEN Nothing ELSE f[Len(new)].state
  BY <1>1, AppliedByMoves
<1> DEFINE N == Len(new)
           Fine(r, i) == /\ r.ok \in BOOLEAN
                         /\ r.ok \/ ~throws => GoodState(r.state) \/ r.state = Nothing
                         /\ r.ok /\ r.state = Nothing => i = 0 /\ s = Nothing
           S == {i \in 0..N : Fine(f[i], i)}
<1>3. 0 \in S
  <2>1. f[0] = [ok |-> TRUE, state |-> s] /\ 0 \in 0..N
    BY <1>1, <1>2 DEF MovesTo
  <2>2. f[0].ok = TRUE /\ f[0].state = s
    BY <2>1
  <2>3. GoodState(s) => s # Nothing
    BY GoodStateHolds
  <2> QED  BY <2>1, <2>2, <2>3
<1>4. ASSUME NEW i \in 0..N, i < N, i \in S PROVE i + 1 \in S
  <2> DEFINE e == new[i + 1]
             t == f[i].state
             r == ApplyCommit(t, e, miss, at)
  <2>1. i + 1 \in 1..N /\ i + 1 \in 0..N /\ (i + 1) - 1 = i /\ i + 1 # 0
    BY <1>1, <1>4
  <2>2. e \in Tips!NewEntry /\ (e.ok /\ e.cid \in TimeEvents => e.ts = AnchorTime[e.cid])
    BY <1>1, <2>1
  <2>3. f[i + 1] = Move(f[i], e, miss, at)
    BY <1>2, <2>1 DEF MovesTo
  <2>4. Fine(f[i], i)
    BY <1>4
  <2>5. throws \/ setting.handler = "caip10" \/ (e.cid \in Refused => e.cid = Genesis)
    BY <2>1
  <2>6. CASE ~f[i].ok
    <3>1. f[i + 1] = f[i]
      BY <2>3, <2>6 DEF Move
    <3>2. Fine(f[i + 1], i + 1)
      BY <2>4, <2>6, <3>1
    <3> QED  BY <2>1, <3>2
  <2>7. CASE f[i].ok /\ GoodState(t)
    <3>1. f[i + 1] = r
      BY <2>3, <2>7 DEF Move
    <3>2. /\ r.ok \in BOOLEAN
          /\ r.ok => GoodState(r.state)
          /\ ~r.ok /\ (setting.handler = "caip10" \/ (e.cid \in Refused => e.cid = Genesis)) => r.state = t
      <4> HIDE DEF e, t
      <4> QED  BY <2>2, <2>7, CommitApplied
    <3>3. GoodState(r.state) => r.state # Nothing
      BY GoodStateHolds
    <3> HIDE DEF r, e, t
    <3>4. Fine(r, i + 1)
      BY <2>5, <2>7, <3>2, <3>3
    <3> QED  BY <2>1, <3>1, <3>4
  <2>8. CASE f[i].ok /\ t = Nothing
    <3>1. f[i + 1] = r
      BY <2>3, <2>8 DEF Move
    <3>2. e.cid = Genesis
      <4>1. i = 0 /\ s = Nothing
        BY <2>4, <2>8
      <4>2. new # <<>>
        BY <1>1, <2>1
      <4>3. GoodState(s) => s # Nothing
        BY GoodStateHolds
      <4> QED  BY <4>1, <4>2, <4>3
    <3>3. /\ r.ok \in BOOLEAN
          /\ r.ok => GoodState(r.state)
          /\ ~r.ok => r.state = Nothing
      <4> HIDE DEF e, t
      <4> QED  BY <2>2, <2>8, <3>2, GenesisApplied
    <3>4. GoodState(r.state) => r.state # Nothing
      BY GoodStateHolds
    <3> HIDE DEF r, e, t
    <3>5. Fine(r, i + 1)
      BY <3>3, <3>4
    <3> QED  BY <2>1, <3>1, <3>5
  <2> QED  BY <2>4, <2>6, <2>7, <2>8
<1>5. N \in Nat /\ N \in 0..N
  BY <1>1
<1>6. N \in S
  <2> HIDE DEF S, N
  <2> QED  BY <1>3, <1>4, <1>5, UpTo
<1>7. Fine(f[N], N)
  BY <1>6
<1> QED  BY <1>2, <1>7

NoneOrGood(s) == s = Nothing \/ GoodState(s)

(* What is fetched to reach a tip has no refused commit that is judged.    *)
Palatable(c) == setting.handler = "caip10" \/ c \in Clean

LEMMA ChainIsPalatable ==
    ASSUME NEW c, c \in Clean, NEW d \in ChainCids(c) \cup {Genesis}
    PROVE  d \in Refused => d = Genesis
BY DEF Clean, ChainCids

LEMMA LoadedStateFollows ==
    ASSUME setting \in AllSettings, Spared, NEW c \in Commit, Palatable(c),
           NEW miss \in BOOLEAN, ~Exposed => ~miss, NEW at
    PROVE  NoneOrGood(LoadState(c, miss, at))
<1> DEFINE new == VerifyAnchors(SyncFullLog(c), TimeEvents)
<1>1. /\ new \in Tips!NewLog /\ new[1].cid = Genesis
      /\ \A i \in 1..Len(new) : new[i].cid \in ChainCids(c) \cup {Genesis}
  BY FetchedInFull
<1> HIDE DEF new
<1>2. setting.handler = "caip10" \/ \A i \in 1..Len(new) : new[i].cid \in Refused => new[i].cid = Genesis
  BY <1>1, ChainIsPalatable DEF Palatable
<1>3. LET to == ApplyCommits(Nothing, new, FALSE, miss, at) IN to = Nothing \/ GoodState(to)
  BY <1>1, <1>2, CommitsApplied
<1> QED  BY <1>3 DEF LoadState, new, NoneOrGood

LEMMA ResetStateFollows ==
    ASSUME setting \in AllSettings, Spared, NEW s, GoodState(s), NEW c \in CidsOf(s.log),
           NEW miss \in BOOLEAN, ~Exposed => ~miss, NEW at
    PROVE  NoneOrGood(ResetState(s, c, miss, at))
<1> DEFINE new == TrustedLog(s.log, c, FALSE)
<1>1. new \in Tips!NewLog /\ new[1].cid = Genesis
  BY FetchedAgain DEF GoodState
<1> HIDE DEF new
<1>2. LET to == ApplyCommits(Nothing, new, TRUE, miss, at) IN to = Nothing \/ GoodState(to)
  BY <1>1, CommitsApplied
<1> QED  BY <1>2 DEF ResetState, new, NoneOrGood

LEMMA AppliedStateFollows ==
    ASSUME setting \in AllSettings, Spared, NEW s, GoodState(s), NEW c \in Commit,
           NEW opts \in [throwOnInvalid : BOOLEAN, throwIfStale : BOOLEAN, throwOnConflict : BOOLEAN],
           opts.throwOnInvalid \/ Palatable(c),
           NEW miss \in BOOLEAN, ~Exposed => ~miss, NEW at
    PROVE  NoneOrGood(ApplyTipToState(s, c, opts, miss, at))
<1> DEFINE new == VerifyAnchors(SyncLogUntilMatch(c, CidsOf(s.log)), TimeEvents)
           fork == IndexOf(s.log, Prev[new[1].cid])
           local == SubSeq(s.log, fork + 1, Len(s.log))
           shared == ResetState(s, s.log[fork].cid, miss, at)
           onS == ApplyCommits(s, new, opts.throwOnInvalid, miss, at)
           onShared == ApplyCommits(shared, new, opts.throwOnInvalid, miss, at)
           applied ==
               CASE new = <<>> -> s
                 [] new # <<>> /\ local = <<>> -> onS
                 [] new # <<>> /\ local # <<>> /\ opts.throwIfStale -> Nothing
                 [] new # <<>> /\ local # <<>> /\ ~opts.throwIfStale ->
                       IF PicksFirst(local, new)
                       THEN IF opts.throwOnConflict THEN Nothing ELSE s
                       ELSE IF shared = Nothing THEN Nothing
                       ELSE onShared
<1>1. ApplyTipToState(s, c, opts, miss, at) = IF Usable(applied.log, at) THEN applied ELSE Nothing
  BY DEF ApplyTipToState, ApplyToState
<1>2. /\ new \in Tips!NewLog
      /\ \A i \in 1..Len(new) : new[i].cid \in ChainCids(c)
      /\ new # <<>> => Prev[new[1].cid] \in CidsOf(s.log)
  BY FetchedFromTheLog DEF GoodState
<1>3. ASSUME new # <<>> PROVE s.log[fork].cid \in CidsOf(s.log)
  <2>1. Prev[new[1].cid] \in CidsOf(s.log)
    BY <1>2, <1>3
  <2>2. s.log[fork].cid = Prev[new[1].cid]
    <3> HIDE DEF new
    <3> QED  BY <2>1, FetchedAgain DEF GoodState
  <2> QED  BY <2>1, <2>2
<1> HIDE DEF new
<1>4. new # <<>> => NoneOrGood(shared)
  BY <1>3, ResetStateFollows
<1> HIDE DEF shared
<1>5. \/ opts.throwOnInvalid \/ setting.handler = "caip10"
      \/ \A i \in 1..Len(new) : new[i].cid \in Refused => new[i].cid = Genesis
  BY <1>2, ChainIsPalatable DEF Palatable
<1>6. opts.throwOnInvalid \in BOOLEAN /\ opts.throwIfStale \in BOOLEAN /\ opts.throwOnConflict \in BOOLEAN
  OBVIOUS
<1>7. NoneOrGood(onS)
  <2>1. LET to == ApplyCommits(s, new, opts.throwOnInvalid, miss, at) IN to = Nothing \/ GoodState(to)
    BY <1>2, <1>5, <1>6, CommitsApplied
  <2> QED  BY <2>1 DEF NoneOrGood
<1>8. ASSUME new # <<>>, shared # Nothing PROVE NoneOrGood(onShared)
  <2>1. GoodState(shared)
    BY <1>4, <1>8 DEF NoneOrGood
  <2>2. LET to == ApplyCommits(shared, new, opts.throwOnInvalid, miss, at) IN to = Nothing \/ GoodState(to)
    BY <1>2, <1>5, <1>6, <2>1, CommitsApplied
  <2> QED  BY <2>2 DEF NoneOrGood
<1>9. NoneOrGood(applied)
  <2> HIDE DEF onS, onShared, local, fork
  <2>1. NoneOrGood(s) /\ NoneOrGood(Nothing)
    BY DEF NoneOrGood
  <2>2. CASE new = <<>>
    BY <2>1, <2>2
  <2>3. CASE new # <<>> /\ local = <<>>
    BY <1>7, <2>3
  <2>4. CASE new # <<>> /\ local # <<>> /\ opts.throwIfStale
    BY <2>1, <2>4
  <2>5. CASE new # <<>> /\ local # <<>> /\ ~opts.throwIfStale
    <3>1. applied = IF PicksFirst(local, new)
                    THEN IF opts.throwOnConflict THEN Nothing ELSE s
                    ELSE IF shared = Nothing THEN Nothing
                    ELSE onShared
      BY <2>5
    <3> HIDE DEF applied
    <3>2. applied \in {s, Nothing} \/ (shared # Nothing /\ applied = onShared)
      BY <3>1
    <3> QED  BY <1>8, <2>1, <2>5, <3>2
  <2> QED  BY <1>6, <2>2, <2>3, <2>4, <2>5
<1>10. NoneOrGood(Nothing)
  BY DEF NoneOrGood
<1> HIDE DEF applied
<1> QED  BY <1>1, <1>9, <1>10

-----------------------------------------------------------------------------
StatesFollow ==
    /\ setting \in AllSettings
    /\ Spared => /\ state = [n \in Node |-> state[n]]
                 /\ \A n \in Node : NoneOrGood(state[n])
                 /\ offered \subseteq Commit
                 /\ ~Exposed => offered \subseteq Clean

LEMMA SettingStays ==
    ASSUME setting' = setting
    PROVE  /\ Spared' = Spared /\ Exposed' = Exposed
           /\ \A n \in Node : NoneOrGood(state'[n]) => NoneOrGood(state[n])'
<1>1. Spared' = Spared /\ Exposed' = Exposed
  BY DEF Spared, Exposed
<1>2. ASSUME NEW n \in Node, NoneOrGood(state'[n]) PROVE NoneOrGood(state[n])'
  BY <1>2 DEF NoneOrGood, GoodState, IsState, FollowsIn, Amount, Fit, Exposed
<1> QED  BY <1>1, <1>2

LEMMA BecomeFollows ==
    ASSUME StatesFollow, Spared, setting' = setting, NEW n \in Node, NEW tip, NEW result, NoneOrGood(result),
           NEW also, also \subseteq Commit, ~Exposed => also \subseteq Clean, Become(n, tip, result, also)
    PROVE  StatesFollow'
<1>1. \A m \in Node : NoneOrGood(state'[m])
  BY DEF StatesFollow, Become
<1>2. state' = [m \in Node |-> state'[m]]
  BY DEF StatesFollow, Become
<1>3. result # Nothing => Tip(result.log) \in Fit \cap Commit
  BY GoodStateHolds DEF NoneOrGood
<1>4. offered' \subseteq Commit /\ (~Exposed => offered' \subseteq Clean)
  BY <1>3 DEF StatesFollow, Become, Fit
<1> QED  BY <1>1, <1>2, <1>4, SettingStays DEF StatesFollow

LEMMA StatesFollowNext ==
    ASSUME StatesFollow, [NextHandlers]_handlerVars
    PROVE  StatesFollow'
<1>1. setting' = setting
  BY DEF NextHandlers, LoadStream, HandleTip, ApplyUserCommit, PublishAnchor, Tick, handlerVars
<1>2. CASE ~Spared
  BY <1>1, <1>2, SettingStays DEF StatesFollow
<1>3. CASE Spared
  <2>1. \A c \in offered : c \in Commit /\ Palatable(c)
    BY <1>3 DEF StatesFollow, Spared, Palatable
  <2>2. \A miss \in Misses : miss \in BOOLEAN /\ (~Exposed => ~miss)
    BY DEF Misses, Exposed
  <2>3. setting \in AllSettings /\ \A n \in Node : NoneOrGood(state[n])
    BY <1>3 DEF StatesFollow
  <2>4. ASSUME NEW n \in Node, NEW c \in Commit, NEW miss \in Misses, LoadStream(n, c, miss)
        PROVE  StatesFollow'
    <3>1. NoneOrGood(LoadState(c, miss, now))
      BY <1>3, <2>1, <2>2, <2>3, <2>4, LoadedStateFollows DEF LoadStream
    <3>2. Become(n, c, LoadState(c, miss, now), {})
      BY <2>4 DEF LoadStream
    <3> QED  BY <1>1, <1>3, <3>1, <3>2, BecomeFollows
  <2>5. ASSUME NEW n \in Node, NEW c \in Commit, NEW miss \in Misses, HandleTip(n, c, miss)
        PROVE  StatesFollow'
    <3>1. GoodState(state[n]) /\ Palatable(c)
      BY <2>1, <2>3, <2>5 DEF HandleTip, Holds, NoneOrGood
    <3>2. NetworkOpts \in [throwOnInvalid : BOOLEAN, throwIfStale : BOOLEAN, throwOnConflict : BOOLEAN]
      BY DEF NetworkOpts
    <3>3. NoneOrGood(ApplyTipToState(state[n], c, NetworkOpts, miss, now))
      BY <1>3, <2>2, <2>3, <3>1, <3>2, AppliedStateFollows
    <3>4. Become(n, c, ApplyTipToState(state[n], c, NetworkOpts, miss, now), {})
      BY <2>5 DEF HandleTip
    <3> QED  BY <1>1, <1>3, <3>3, <3>4, BecomeFollows
  <2>6. ASSUME NEW n \in Node, NEW c \in Commit, NEW miss \in Misses, ApplyUserCommit(n, c, miss)
        PROVE  StatesFollow'
    <3>1. GoodState(state[n])
      BY <2>3, <2>6 DEF ApplyUserCommit, Holds, NoneOrGood
    <3>2. /\ UserOpts \in [throwOnInvalid : BOOLEAN, throwIfStale : BOOLEAN, throwOnConflict : BOOLEAN]
          /\ UserOpts.throwOnInvalid
      BY DEF UserOpts
    <3>3. NoneOrGood(ApplyTipToState(state[n], c, UserOpts, miss, now))
      BY <1>3, <2>2, <2>3, <3>1, <3>2, AppliedStateFollows
    <3> DEFINE also == IF setting.recon THEN {c} ELSE {}
    <3>4. Become(n, c, ApplyTipToState(state[n], c, UserOpts, miss, now), also)
      BY <2>6 DEF ApplyUserCommit
    <3>5. also \subseteq Commit /\ (~Exposed => also \subseteq Clean)
      BY DEF Exposed
    <3> HIDE DEF also
    <3> QED  BY <1>1, <1>3, <3>3, <3>4, <3>5, BecomeFollows
  <2>7. ASSUME NEW a \in Commit, PublishAnchor(a) PROVE StatesFollow'
    <3>1. offered' = offered \cup {a} /\ state' = state /\ Prev[a] \in offered /\ a \in TimeEvents
      BY <2>7 DEF PublishAnchor
    <3>2. ~Exposed => a \in Clean
      <4>1. a \notin Refused
        BY <3>1, HandlerAssumption
      <4>2. ~Exposed => Prev[a] \in Clean
        BY <1>3, <3>1 DEF StatesFollow
      <4> QED  BY <4>1, <4>2, CleanGrows
    <3>3. offered' \subseteq Commit /\ (~Exposed => offered' \subseteq Clean)
      BY <1>3, <3>1, <3>2 DEF StatesFollow
    <3>4. \A n \in Node : NoneOrGood(state'[n])
      BY <2>3, <3>1
    <3> QED  BY <1>1, <1>3, <3>1, <3>3, <3>4, SettingStays DEF StatesFollow
  <2>8. ASSUME UNCHANGED <<state, offered>> PROVE StatesFollow'
    <3>1. \A n \in Node : NoneOrGood(state'[n])
      BY <2>3, <2>8
    <3> QED  BY <1>1, <1>3, <2>8, <3>1, SettingStays DEF StatesFollow
  <2>9. CASE Tick
    BY <2>8, <2>9 DEF Tick
  <2>10. CASE UNCHANGED handlerVars
    BY <2>8, <2>10 DEF handlerVars
  <2> QED  BY <2>4, <2>5, <2>6, <2>7, <2>9, <2>10 DEF NextHandlers
<1> QED  BY <1>2, <1>3

(* Whatever is loaded, heard of, written, refused, reset and applied again *)
(* by any number of nodes, the content that a node shows is what the       *)
(* signed commits of its log amount to, up to the last anchor for a type   *)
(* that shows anchored content only; for a document whose handler patches  *)
(* in place, as long as what it refuses does not reach it.                 *)
THEOREM ContentIsThatOfTheLog == SpecHandlers => []ContentFollowsLog
<1>1. InitHandlers => StatesFollow
  <2> SUFFICES ASSUME InitHandlers PROVE StatesFollow
    OBVIOUS
  <2>1. setting \in AllSettings
    BY HandlerAssumption DEF InitHandlers
  <2>2. state = [n \in Node |-> Nothing] /\ offered = {Genesis}
    BY DEF InitHandlers
  <2>3. \A n \in Node : NoneOrGood(state[n])
    BY <2>2 DEF NoneOrGood
  <2>4. Genesis \in Commit /\ Genesis \in Clean
    BY CleanGrows, ForestAssumption
  <2> QED  BY <2>1, <2>2, <2>3, <2>4 DEF StatesFollow
<1>2. StatesFollow /\ [NextHandlers]_handlerVars => StatesFollow'
  BY StatesFollowNext
<1>3. StatesFollow => ContentFollowsLog
  <2> SUFFICES ASSUME StatesFollow, NEW n \in Node, Holds(n), setting.handler = "caip10" \/ ~Exposed
               PROVE  Follows(state[n])
    BY DEF ContentFollowsLog
  <2>1. GoodState(state[n])
    BY DEF StatesFollow, Spared, Holds, NoneOrGood
  <2> QED  BY <2>1, GoodStateHolds
<1> QED  BY <1>1, <1>2, <1>3, PTL DEF SpecHandlers

-----------------------------------------------------------------------------
(* The logs that handlers write are those of StreamLog.                    *)
LEMMA SettledIs ==
    ASSUME NEW both \in Seq(Entry), NEW hist, Tips!GoodLog(hist), Len(hist) = Len(both),
           \A i \in 1..Len(both) : hist[i].cid = both[i].cid,
           \A i \in 1..Len(both) : both[i].cid \in TimeEvents => both[i].ts = AnchorTime[both[i].cid],
           \A i \in 1..Len(both) : Tips!NotAnchoredFrom(both, i) => hist[i].ts = both[i].ts
    PROVE  Settle(both) = hist
<1> DEFINE settled == Settle(both)
           n == Len(both)
<1>1. Entry = Tips!Entry /\ settled = Tips!Settle(both)
  BY DEF Entry, Tips!Entry, Settle, Tips!Settle, Min, Tips!Min
<1>2. both \in Seq(Tips!Entry)
  BY <1>1
<1>3. /\ Tips!Settle(both) \in Seq(Tips!Entry) /\ Len(Tips!Settle(both)) = Len(both)
      /\ \A i \in 1..Len(both) :
            /\ Tips!Settle(both)[i].cid = both[i].cid
            /\ both[i].cid \in TimeEvents => Tips!Settle(both)[i].ts = both[i].ts
            /\ Tips!NotAnchoredFrom(both, i) => Tips!Settle(both)[i].ts = both[i].ts
      /\ Tips!Dated(Tips!Settle(both))
      /\ Tips!Dated(both) => Tips!Settle(both) = both
  BY <1>2, Tips!SettledIsDated, ClockIsPositive, ForestAssumption, Zenon DEF NoTime, Tips!NoTime
<1> HIDE DEF settled
<1>4. /\ settled \in Seq(Entry) /\ Len(settled) = n /\ n \in Nat
      /\ \A i \in 1..n :
            /\ settled[i].cid = both[i].cid
            /\ both[i].cid \in TimeEvents => settled[i].ts = both[i].ts
            /\ Tips!NotAnchoredFrom(both, i) => settled[i].ts = both[i].ts
      /\ Tips!Dated(settled)
  BY <1>1, <1>3
<1>5. /\ hist \in Seq(Entry) /\ Tips!Dated(hist)
      /\ \A i \in 1..n : hist[i].cid \in TimeEvents => hist[i].ts = AnchorTime[hist[i].cid]
  BY <1>1 DEF Tips!GoodLog
<1>6. ASSUME NEW i \in 1..n PROVE settled[i] = hist[i]
  <2>1. settled[i] \in Entry /\ hist[i] \in Entry
    BY <1>4, <1>5
  <2>2. settled[i].ts = hist[i].ts
    <3>1. CASE Tips!NotAnchoredFrom(both, i)
      BY <1>4, <3>1
    <3>2. CASE ~Tips!NotAnchoredFrom(both, i)
      <4> DEFINE later == {j \in i..n : both[j].cid \in TimeEvents}
      <4>1. later # {} /\ later \subseteq Nat
        BY <1>4, <3>2 DEF Tips!NotAnchoredFrom
      <4>2. Tips!Min(later) \in later /\ \A y \in later : Tips!Min(later) =< y
        <5> HIDE DEF later
        <5> QED  BY <4>1, ClockIsPositive, ForestAssumption, Tips!MinOfNaturals, Zenon DEF NoTime, Tips!NoTime
      <4>3. PICK j \in later : \A y \in later : j =< y
        <5> HIDE DEF later
        <5> QED  BY <4>2
      <4>4. j \in 1..n /\ i =< j /\ both[j].cid \in TimeEvents /\ \A k \in i..(j - 1) : k \in 1..n
        BY <1>4, <4>3
      <4>5. \A k \in i..(j - 1) : both[k].cid \notin TimeEvents
        BY <1>4, <4>3, <4>4
      <4>6. settled[i].ts = settled[j].ts
        BY <1>4, <4>4, <4>5 DEF Tips!Dated
      <4>7. hist[i].ts = hist[j].ts
        BY <1>4, <1>5, <4>4, <4>5 DEF Tips!Dated
      <4> QED  BY <1>4, <1>5, <4>4, <4>6, <4>7
    <3> QED  BY <3>1, <3>2
  <2>3. settled[i].cid = hist[i].cid
    BY <1>4
  <2>4. \A one, two \in Entry : one.cid = two.cid /\ one.ts = two.ts => one = two
    BY DEF Entry
  <2> QED  BY <2>1, <2>2, <2>3, <2>4
<1>7. settled = hist
  BY <1>4, <1>5, <1>6
<1> QED  BY <1>7 DEF settled

(* hist and then c, of which a link may forget the time.                   *)
Extends(longer, hist, c, ts) ==
    /\ Tips!GoodLog(longer) /\ Len(longer) = Len(hist) + 1
    /\ \A i \in 1..Len(hist) : longer[i].cid = hist[i].cid
    /\ longer[Len(hist) + 1].cid = c
    /\ \A i \in 1..Len(longer) : Tips!NotAnchoredFrom(longer, i) =>
          /\ i \in 1..Len(hist) => Tips!NotAnchoredFrom(hist, i) /\ longer[i].ts = hist[i].ts
          /\ i = Len(hist) + 1 => longer[i].ts = ts

LEMMA LogExtends ==
    ASSUME NEW hist, Tips!GoodLog(hist), NEW c \in Commit, NEW ts \in Nat,
           Prev[c] = Tip(hist), c \notin Invalid, c \in TimeEvents => ts = AnchorTime[c]
    PROVE  LET more == Append(hist, [cid |-> c, ts |-> ts])
           IN  Extends(IF c \in TimeEvents THEN Settle(more) ELSE more, hist, c, ts)
<1> DEFINE e == [cid |-> c, ts |-> ts]
           more == Append(hist, e)
           longer == IF c \in TimeEvents THEN Settle(more) ELSE more
           n == Len(hist)
<1>1. hist \in Seq(Entry) /\ Tips!GoodLog(longer)
  BY LogGrows
<1>2. e \in Entry /\ e.cid = c /\ e.ts = ts
  BY DEF Entry
<1> HIDE DEF e
<1>3. /\ more \in Seq(Entry) /\ Len(more) = n + 1 /\ more[n + 1] = e /\ n \in Nat
      /\ \A i \in 1..n : more[i] = hist[i]
  BY <1>1, <1>2
<1> HIDE DEF more
<1>4. more \in Seq(Tips!Entry) /\ Settle(more) = Tips!Settle(more)
  BY <1>3 DEF Entry, Tips!Entry, Settle, Tips!Settle, Min, Tips!Min
<1>5. /\ Tips!Settle(more) \in Seq(Tips!Entry) /\ Len(Tips!Settle(more)) = Len(more)
      /\ \A i \in 1..Len(more) :
            /\ Tips!Settle(more)[i].cid = more[i].cid
            /\ more[i].cid \in TimeEvents => Tips!Settle(more)[i].ts = more[i].ts
            /\ Tips!NotAnchoredFrom(more, i) => Tips!Settle(more)[i].ts = more[i].ts
      /\ Tips!Dated(Tips!Settle(more))
      /\ Tips!Dated(more) => Tips!Settle(more) = more
  BY <1>4, Tips!SettledIsDated, ClockIsPositive, ForestAssumption, Zenon DEF NoTime, Tips!NoTime
<1>6. /\ Len(longer) = n + 1
      /\ \A i \in 1..(n + 1) : longer[i].cid = more[i].cid
      /\ \A i \in 1..(n + 1) : Tips!NotAnchoredFrom(more, i) => longer[i].ts = more[i].ts
  BY <1>3, <1>4, <1>5
<1> HIDE DEF longer
<1>7. ASSUME NEW i \in 1..(n + 1), Tips!NotAnchoredFrom(longer, i)
      PROVE  /\ i \in 1..n => Tips!NotAnchoredFrom(hist, i) /\ longer[i].ts = hist[i].ts
             /\ i = n + 1 => longer[i].ts = ts
  <2>1. \A j \in i..(n + 1) : j \in 1..(n + 1) /\ longer[j].cid \notin TimeEvents
    BY <1>3, <1>6, <1>7 DEF Tips!NotAnchoredFrom
  <2>2. Tips!NotAnchoredFrom(more, i)
    BY <1>3, <1>6, <2>1 DEF Tips!NotAnchoredFrom
  <2>3. longer[i].ts = more[i].ts
    BY <1>6, <2>2
  <2>4. i \in 1..n => Tips!NotAnchoredFrom(hist, i)
    <3> SUFFICES ASSUME i \in 1..n, NEW j \in i..n PROVE hist[j].cid \notin TimeEvents
      BY DEF Tips!NotAnchoredFrom
    <3>1. j \in i..(n + 1) /\ j \in 1..n
      BY <1>3
    <3> QED  BY <1>3, <1>6, <2>1, <3>1
  <2> QED  BY <1>2, <1>3, <2>3, <2>4
<1>8. \A i \in 1..n : i \in 1..(n + 1) /\ longer[i].cid = hist[i].cid
  BY <1>3, <1>6
<1>9. n + 1 \in 1..(n + 1) /\ longer[n + 1].cid = c
  BY <1>2, <1>3, <1>6
<1>10. Extends(longer, hist, c, ts)
  BY <1>1, <1>6, <1>7, <1>8, <1>9 DEF Extends
<1> QED  BY <1>10 DEF longer, more, e

-----------------------------------------------------------------------------
(* What a handler makes of a commit that TipSync accepts, or does not.     *)
LogState(s) == IsState(s) /\ Tips!GoodLog(s.log)
NoneOrLog(s) == s = Nothing \/ LogState(s)

(* The time with which a handler writes a commit.                          *)
Stamp(e) == IF setting.handler = "caip10" /\ e.cid \notin TimeEvents \cup {Genesis} THEN NoTime ELSE e.ts

LEMMA LogStateHolds ==
    ASSUME NEW s, LogState(s)
    PROVE  /\ s # Nothing /\ s.log \in Seq(Entry) /\ Len(s.log) \in Nat /\ Len(s.log) > 0 /\ s.log # <<>>
           /\ Tip(s.log) = s.log[Len(s.log)].cid /\ Tip(s.log) \in CidsOf(s.log) /\ CidsOf(s.log) \subseteq Commit
<1>1. s.log \in Seq(Entry) /\ Len(s.log) \in Nat /\ Len(s.log) > 0
  <2>1. Entry = Tips!Entry
    BY DEF Entry, Tips!Entry
  <2> QED  BY <2>1 DEF LogState, Tips!GoodLog
<1>2. Len(Nothing.log) = 0 /\ Len(<<>>) = 0
  BY DEF Nothing
<1>3. s # Nothing /\ s.log # <<>>
  BY <1>1, <1>2
<1>4. Len(s.log) \in DOMAIN s.log /\ DOMAIN s.log = 1..Len(s.log)
  BY <1>1
<1>5. \A i \in 1..Len(s.log) : s.log[i].cid \in Commit
  <2>1. \A i \in 1..Len(s.log) : s.log[i] \in Entry
    BY <1>1
  <2>2. \A e \in Entry : e.cid \in Commit
    BY DEF Entry
  <2> QED  BY <2>1, <2>2
<1>6. Tip(s.log) = s.log[Len(s.log)].cid
  BY DEF Tip, Last
<1> QED  BY <1>1, <1>3, <1>4, <1>5, <1>6 DEF CidsOf

LEMMA UpdatedContent ==
    ASSUME NEW s, IsState(s), NEW patched
    PROVE  [s EXCEPT !.content = patched] = [log |-> s.log, content |-> patched, next |-> s.next]
<1> DEFINE C == {s.content, patched}
<1>1. s \in [log : {s.log}, content : C, next : {s.next}] /\ patched \in C
  BY DEF IsState
<1> HIDE DEF C
<1> QED  BY <1>1

LEMMA CommitExtends ==
    ASSUME setting \in AllSettings, NEW s, LogState(s), NEW e \in Tips!NewEntry,
           e.ok /\ e.cid \in TimeEvents => e.ts = AnchorTime[e.cid], NEW at
    PROVE  LET r == ApplyCommit(s, e, FALSE, at) IN
           /\ Tipwise!Accepts(e, Tip(s.log), at) =>
                 r.ok = TRUE /\ IsState(r.state) /\ Extends(r.state.log, s.log, e.cid, Stamp(e))
           /\ ~Tipwise!Accepts(e, Tip(s.log), at) =>
                 /\ r.ok = FALSE
                 /\ setting.handler # "tile" \/ (e.cid \in Refused => e.cid = Genesis) =>
                       IsState(r.state) /\ r.state.log = s.log
<1> DEFINE r == ApplyCommit(s, e, FALSE, at)
           c == e.cid
           hist == s.log
           pushed == Append(hist, [cid |-> c, ts |-> Stamp(e)])
<1>1. c \in Commit /\ e.ts \in Nat /\ e.ok \in BOOLEAN
  BY DEF Tips!NewEntry
<1>2. s # Nothing /\ IsState(s) /\ Tips!GoodLog(hist)
  BY LogStateHolds DEF LogState
<1>3. Tipwise!Accepts(e, Tip(hist), at) <=> Accepts(e, Tip(hist), at) /\ c \notin Refused
  BY DEF Accepts, Tipwise!Accepts, Expired, Tipwise!Expired, NoTime, Tipwise!NoTime
<1>4. CASE ~Accepts(e, Tip(hist), at)
  <2>1. r = [ok |-> FALSE, state |-> s]
    BY <1>2, <1>4 DEF ApplyCommit
  <2> HIDE DEF r
  <2>2. r.ok = FALSE /\ r.state = s
    BY <2>1
  <2> QED  BY <1>2, <1>3, <1>4, <2>2 DEF r
<1>5. CASE Accepts(e, Tip(hist), at)
  <2>1. e.ok /\ Prev[c] = Tip(hist) /\ c \notin Invalid
    BY <1>5 DEF Accepts
  <2>2. c # Genesis
    BY <1>1, <1>2, <2>1, LogGrows
  <2>3. r = IF c \in TimeEvents THEN ApplyAnchor(s, e) ELSE ApplySigned(s, e, FALSE)
    BY <1>2, <1>5 DEF ApplyCommit
  <2>4. Stamp(e) \in Nat /\ (c \in TimeEvents => Stamp(e) = AnchorTime[c] /\ Stamp(e) = e.ts)
    BY <1>1, <2>1 DEF Stamp, NoTime
  <2>5. Extends(IF c \in TimeEvents THEN Settle(pushed) ELSE pushed, hist, c, Stamp(e))
    BY <1>1, <1>2, <2>1, <2>4, LogExtends
  <2>6. CASE c \in TimeEvents
    <3> DEFINE content == IF s.next = Absent THEN s.content ELSE s.next
    <3>1. r = [ok |-> TRUE, state |-> [log |-> Settle(pushed), content |-> content, next |-> Absent]]
      BY <2>3, <2>4, <2>6 DEF ApplyAnchor
    <3>2. c \notin Refused
      BY <2>6, HandlerAssumption
    <3> HIDE DEF content, pushed, r
    <3>3. r.ok = TRUE /\ IsState(r.state) /\ r.state.log = Settle(pushed)
      BY <3>1 DEF IsState
    <3> QED  BY <1>3, <1>5, <2>5, <2>6, <3>2, <3>3 DEF r
  <2>7. CASE c \notin TimeEvents
    <3>1. r = ApplySigned(s, e, FALSE)
      BY <2>3, <2>7
    <3>2. ContentFails(e, FALSE) <=> c \in Refused
      BY DEF ContentFails
    <3>3. setting.handler \in {"mid", "tile", "caip10"}
      BY DEF AllSettings
    <3>4. CASE c \in Refused
      <4>1. ASSUME setting.handler = "mid" PROVE r.ok = FALSE /\ IsState(r.state) /\ r.state.log = hist
        <5>1. r = [ok |-> FALSE, state |-> [s EXCEPT !.content = PatchedInPlace(@, c)]]
          BY <3>1, <3>2, <3>4, <4>1 DEF ApplySigned, MidApplySigned
        <5>2. [s EXCEPT !.content = PatchedInPlace(@, c)]
                 = [log |-> hist, content |-> PatchedInPlace(s.content, c), next |-> s.next]
          BY <1>2, UpdatedContent, Zenon
        <5> HIDE DEF r, hist
        <5> QED  BY <5>1, <5>2 DEF IsState
      <4>2. ASSUME setting.handler = "tile" PROVE r.ok = FALSE
        <5>1. r = TileApplySigned(s, e, FALSE)
          BY <3>1, <4>2 DEF ApplySigned
        <5> DEFINE t == [s EXCEPT !.log = Append(hist, [cid |-> c, ts |-> e.ts]), !.next = PatchedInPlace(@, c)]
        <5>2. r = [ok |-> FALSE, state |-> t]
          BY <3>2, <3>4, <5>1 DEF TileApplySigned
        <5> HIDE DEF r, t
        <5> QED  BY <5>2
      <4>3. ASSUME setting.handler = "caip10" PROVE r.ok = FALSE /\ r.state = s
        <5>1. r = [ok |-> FALSE, state |-> s]
          BY <3>1, <3>2, <3>4, <4>3 DEF ApplySigned, CaipApplySigned
        <5> HIDE DEF r
        <5> QED  BY <5>1
      <4> QED  BY <1>2, <1>3, <2>2, <3>3, <3>4, <4>1, <4>2, <4>3
    <3>5. CASE c \notin Refused
      <4> DEFINE pending == IF s.next = Absent THEN s.content ELSE s.next
      <4>1. r.ok = TRUE /\ IsState(r.state) /\ r.state.log = pushed
        <5>1. CASE setting.handler = "mid"
          <6>1. Stamp(e) = e.ts
            BY <5>1 DEF Stamp
          <6>2. r = [ok |-> TRUE, state |-> [s EXCEPT !.log = pushed, !.content = Patched(@, c)]]
            BY <3>1, <3>2, <3>5, <5>1, <6>1 DEF ApplySigned, MidApplySigned
          <6>3. [s EXCEPT !.log = pushed, !.content = Patched(@, c)]
                   = [log |-> pushed, content |-> Patched(s.content, c), next |-> s.next]
            <7> HIDE DEF pushed
            <7> QED  BY <1>2, Updated, Zenon
          <6> HIDE DEF r, pushed
          <6> QED  BY <6>2, <6>3 DEF IsState
        <5>2. CASE setting.handler = "tile"
          <6>1. Stamp(e) = e.ts
            BY <5>2 DEF Stamp
          <6>2. r = [ok |-> TRUE,
                     state |-> [s EXCEPT !.log = pushed,
                                         !.next = Patched(IF @ = Absent THEN s.content ELSE @, c)]]
            BY <3>1, <3>2, <3>5, <5>2, <6>1 DEF ApplySigned, TileApplySigned
          <6>3. [s EXCEPT !.log = pushed, !.next = Patched(IF @ = Absent THEN s.content ELSE @, c)]
                   = [log |-> pushed, content |-> s.content, next |-> Patched(pending, c)]
            <7> HIDE DEF pushed
            <7> QED  BY <1>2, Updated, Zenon
          <6> HIDE DEF r, pushed, pending
          <6> QED  BY <6>2, <6>3 DEF IsState
        <5>3. CASE setting.handler = "caip10"
          <6>1. Stamp(e) = NoTime
            BY <2>2, <2>7, <5>3 DEF Stamp
          <6>2. r = [ok |-> TRUE, state |-> [s EXCEPT !.log = pushed, !.next = <<c>>]]
            BY <3>1, <3>2, <3>5, <5>3, <6>1 DEF ApplySigned, CaipApplySigned
          <6>3. [s EXCEPT !.log = pushed, !.next = <<c>>]
                   = [log |-> pushed, content |-> s.content, next |-> <<c>>]
            <7> HIDE DEF pushed
            <7> QED  BY <1>2, Updated, Zenon
          <6> HIDE DEF r, pushed
          <6> QED  BY <6>2, <6>3 DEF IsState
        <5> QED  BY <3>3, <5>1, <5>2, <5>3
      <4> HIDE DEF r, pushed
      <4> QED  BY <1>3, <1>5, <2>5, <2>7, <3>5, <4>1 DEF r
    <3> QED  BY <3>4, <3>5
  <2> QED  BY <2>6, <2>7
<1> QED  BY <1>4, <1>5

LEMMA GenesisExtends ==
    ASSUME NEW e \in Tips!NewEntry, e.cid = Genesis, NEW at
    PROVE  LET r == ApplyCommit(Nothing, e, FALSE, at) IN
           /\ Tipwise!Accepts(e, NoCommit, at) =>
                 r.ok = TRUE /\ LogState(r.state) /\ r.state.log = <<[cid |-> Genesis, ts |-> e.ts]>>
           /\ ~Tipwise!Accepts(e, NoCommit, at) => r.ok = FALSE /\ r.state = Nothing
<1> DEFINE r == ApplyCommit(Nothing, e, FALSE, at)
           begun == <<[cid |-> Genesis, ts |-> e.ts]>>
           content == IF setting.genesisContent THEN <<Genesis>> ELSE Absent
           s == [log |-> begun, content |-> content, next |-> Absent]
<1>1. r = ApplyGenesis(e, FALSE, at)
  BY DEF ApplyCommit
<1>2. Tipwise!Accepts(e, NoCommit, at) <=> Accepts(e, NoCommit, at) /\ ~ContentFails(e, FALSE)
  BY DEF Accepts, Tipwise!Accepts, Expired, Tipwise!Expired, NoTime, Tipwise!NoTime, ContentFails
<1>3. [Nothing EXCEPT !.log = begun, !.content = content] = s
  <2> DEFINE none == Nothing
  <2>1. IsState(none) /\ none.next = Absent
    BY DEF Nothing, IsState
  <2> HIDE DEF begun, content, none
  <2>2. [none EXCEPT !.log = begun, !.content = content] = [log |-> begun, content |-> content, next |-> none.next]
    BY <2>1, Updated
  <2> QED  BY <2>1, <2>2 DEF none
<1>4. r = IF Accepts(e, NoCommit, at) /\ ~ContentFails(e, FALSE)
          THEN [ok |-> TRUE, state |-> s] ELSE [ok |-> FALSE, state |-> Nothing]
  BY <1>1, <1>3 DEF ApplyGenesis
<1>5. e.ts \in Nat
  BY DEF Tips!NewEntry
<1>6. Accepts(e, NoCommit, at) => Tips!GoodLog(begun)
  BY <1>5, LogBegins DEF Accepts
<1> HIDE DEF begun, content, r
<1>7. IsState(s) /\ s.log = begun
  BY DEF IsState
<1>8. /\ Tipwise!Accepts(e, NoCommit, at) => r.ok = TRUE /\ LogState(r.state) /\ r.state.log = begun
      /\ ~Tipwise!Accepts(e, NoCommit, at) => r.ok = FALSE /\ r.state = Nothing
  <2> HIDE DEF s
  <2> QED  BY <1>2, <1>4, <1>6, <1>7 DEF LogState
<1> QED  BY <1>8 DEF r, begun

-----------------------------------------------------------------------------
(* held and the first i commits of new, each with the time its handler     *)
(* gave it, or that of an anchor since.                                    *)
Grown(hist, held, new, i) ==
    /\ IF i = 0 THEN hist = held ELSE Tips!GoodLog(hist)
    /\ Len(hist) = Len(held) + i
    /\ \A k \in 1..Len(held) : hist[k].cid = held[k].cid
    /\ \A k \in 1..i : hist[Len(held) + k].cid = new[k].cid
    /\ \A k \in 1..Len(hist) : Tips!NotAnchoredFrom(hist, k) =>
          /\ k \in 1..Len(held) => hist[k].ts = held[k].ts
          /\ k > Len(held) => hist[k].ts = Stamp(new[k - Len(held)])

LEMMA GrownFirst ==
    ASSUME NEW new, new[1].cid = Genesis, new[1].ts \in Nat, Genesis \notin Invalid
    PROVE  Grown(<<[cid |-> Genesis, ts |-> new[1].ts]>>, <<>>, new, 1)
<1> DEFINE hist == <<[cid |-> Genesis, ts |-> new[1].ts]>>
<1>1. Tips!GoodLog(hist)
  BY LogBegins
<1>2. Len(hist) = 1 /\ hist[1].cid = Genesis /\ hist[1].ts = new[1].ts /\ Len(<<>>) = 0
  OBVIOUS
<1>3. Stamp(new[1]) = new[1].ts
  BY DEF Stamp
<1>4. \A k \in 1..1 : k = 1 /\ 0 + k = 1 /\ k - 0 = 1
  OBVIOUS
<1> HIDE DEF hist
<1>5. Grown(hist, <<>>, new, 1)
  BY <1>1, <1>2, <1>3, <1>4 DEF Grown
<1> QED  BY <1>5 DEF hist

LEMMA GrownOn ==
    ASSUME NEW hist, NEW held, NEW new, NEW i \in Nat, Grown(hist, held, new, i), Len(held) \in Nat,
           NEW longer, Extends(longer, hist, new[i + 1].cid, Stamp(new[i + 1]))
    PROVE  Grown(longer, held, new, i + 1)
<1> DEFINE b == Len(held)
<1>1. /\ Len(hist) = b + i
      /\ \A k \in 1..b : hist[k].cid = held[k].cid
      /\ \A k \in 1..i : hist[b + k].cid = new[k].cid
      /\ \A k \in 1..(b + i) : Tips!NotAnchoredFrom(hist, k) =>
            /\ k \in 1..b => hist[k].ts = held[k].ts
            /\ k > b => hist[k].ts = Stamp(new[k - b])
  BY DEF Grown
<1>2. /\ Tips!GoodLog(longer) /\ Len(longer) = b + i + 1
      /\ \A k \in 1..(b + i) : longer[k].cid = hist[k].cid
      /\ longer[b + i + 1].cid = new[i + 1].cid
      /\ \A k \in 1..(b + i + 1) : Tips!NotAnchoredFrom(longer, k) =>
            /\ k \in 1..(b + i) => Tips!NotAnchoredFrom(hist, k) /\ longer[k].ts = hist[k].ts
            /\ k = b + i + 1 => longer[k].ts = Stamp(new[i + 1])
  BY <1>1 DEF Extends
<1>3. i + 1 # 0 /\ Len(longer) = b + (i + 1) /\ b + i + 1 = b + (i + 1) /\ b \in Nat
  <2>1. b \in Nat /\ i \in Nat /\ Len(longer) = b + i + 1
    BY <1>2
  <2> HIDE DEF b
  <2> QED  BY <2>1
<1>4. \A k \in 1..b : longer[k].cid = held[k].cid
  <2>1. \A k \in 1..b : k \in 1..(b + i)
    OBVIOUS
  <2> QED  BY <1>1, <1>2, <2>1
<1>5. \A k \in 1..(i + 1) : longer[b + k].cid = new[k].cid
  <2>1. \A k \in 1..(i + 1) : k = i + 1 \/ (k \in 1..i /\ b + k \in 1..(b + i))
    BY <1>3
  <2> QED  BY <1>1, <1>2, <1>3, <2>1
<1>6. ASSUME NEW k \in 1..Len(longer), Tips!NotAnchoredFrom(longer, k)
      PROVE  /\ k \in 1..b => longer[k].ts = held[k].ts
             /\ k > b => longer[k].ts = Stamp(new[k - b])
  <2>1. k \in 1..(b + i) \/ (k = b + i + 1 /\ k - b = i + 1 /\ k \notin 1..b)
    BY <1>2, <1>3
  <2>2. k \in 1..(b + i + 1)
    BY <1>2
  <2>3. CASE k \in 1..(b + i)
    <3>1. Tips!NotAnchoredFrom(hist, k) /\ longer[k].ts = hist[k].ts
      BY <1>2, <1>6, <2>2, <2>3
    <3> QED  BY <1>1, <2>3, <3>1
  <2>4. CASE k = b + i + 1 /\ k - b = i + 1 /\ k \notin 1..b
    BY <1>2, <1>6, <2>2, <2>4
  <2> QED  BY <2>1, <2>3, <2>4
<1> HIDE DEF b
<1>7. /\ i + 1 # 0 /\ Tips!GoodLog(longer) /\ Len(longer) = b + (i + 1)
  BY <1>2, <1>3
<1> QED  BY <1>4, <1>5, <1>6, <1>7 DEF Grown, b

LEMMA GrownIsSettled ==
    ASSUME NEW held, held = <<>> \/ Tips!GoodLog(held), NEW new \in Tips!NewLog, NEW n \in 0..Len(new),
           NEW hist, Tips!GoodLog(hist), Grown(hist, held, new, n), \A i \in 1..n : new[i].ok,
           setting.handler # "caip10" \/ (n = Len(new) /\ Tips!Undated(new))
    PROVE  Settle(held \o [i \in 1..n |-> [cid |-> new[i].cid, ts |-> new[i].ts]]) = hist
<1> DEFINE entries == [i \in 1..n |-> [cid |-> new[i].cid, ts |-> new[i].ts]]
           both == held \o entries
           b == Len(held)
<1>1. Entry = Tips!Entry
  BY DEF Entry, Tips!Entry
<1>2. held \in Seq(Entry) /\ b \in Nat
  <2>1. <<>> \in Seq(Entry)
    OBVIOUS
  <2>2. held \in Seq(Entry)
    BY <1>1, <2>1 DEF Tips!GoodLog
  <2> QED  BY <2>2
<1>3. /\ Len(new) \in Nat /\ n \in Nat
      /\ \A i \in 1..n : /\ i \in 1..Len(new) /\ new[i].cid \in Commit /\ new[i].ts \in Nat
                         /\ new[i].cid \in TimeEvents => new[i].ts = AnchorTime[new[i].cid]
  <2>1. new \in Seq(Tips!NewEntry) /\ Len(new) \in Nat
    BY DEF Tips!NewLog
  <2>2. \A i \in 1..n : i \in 1..Len(new)
    BY <2>1
  <2>3. \A i \in 1..n : new[i] \in Tips!NewEntry
    BY <2>1, <2>2
  <2> QED  BY <2>1, <2>2, <2>3 DEF Tips!NewLog, Tips!NewEntry
<1>4. /\ entries \in Seq(Entry) /\ Len(entries) = n
      /\ \A i \in 1..n : entries[i].cid = new[i].cid /\ entries[i].ts = new[i].ts
  <2>1. entries \in [1..n -> Entry]
    BY <1>3 DEF Entry
  <2>2. \A i \in 1..n : entries[i].cid = new[i].cid /\ entries[i].ts = new[i].ts
    OBVIOUS
  <2>3. \A g \in [1..n -> Entry] : g \in Seq(Entry) /\ Len(g) = n
    BY <1>3
  <2> HIDE DEF entries
  <2> QED  BY <2>1, <2>2, <2>3
<1> HIDE DEF entries
<1>5. /\ both \in Seq(Entry) /\ Len(both) = b + n
      /\ \A i \in 1..b : both[i] = held[i]
      /\ \A i \in 1..n : both[b + i] = entries[i]
  <2>1. held \in Seq(Entry) /\ entries \in Seq(Entry)
    BY <1>2, <1>4
  <2>2. /\ both \in Seq(Entry) /\ Len(both) = Len(held) + Len(entries)
        /\ \A i \in 1..Len(held) : both[i] = held[i]
        /\ \A i \in 1..Len(entries) : both[Len(held) + i] = entries[i]
    BY <2>1
  <2> HIDE DEF both
  <2> QED  BY <1>4, <2>2
<1> HIDE DEF both
<1>6. /\ Len(hist) = b + n
      /\ \A k \in 1..b : hist[k].cid = held[k].cid
      /\ \A k \in 1..n : hist[b + k].cid = new[k].cid
      /\ \A k \in 1..(b + n) : Tips!NotAnchoredFrom(hist, k) =>
            /\ k \in 1..b => hist[k].ts = held[k].ts
            /\ k > b => hist[k].ts = Stamp(new[k - b])
  BY DEF Grown
<1>7. \A i \in 1..(b + n) : i \in 1..b \/ (i > b /\ i - b \in 1..n /\ i = b + (i - b))
  BY <1>2, <1>3
<1>8. ASSUME NEW i \in 1..(b + n)
      PROVE  /\ hist[i].cid = both[i].cid
             /\ both[i].cid \in TimeEvents => both[i].ts = AnchorTime[both[i].cid]
  <2>1. CASE i \in 1..b
    <3>1. held # <<>>
      BY <1>2, <2>1
    <3>2. held[i].cid \in TimeEvents => held[i].ts = AnchorTime[held[i].cid]
      BY <2>1, <3>1 DEF Tips!GoodLog
    <3> QED  BY <1>5, <1>6, <2>1, <3>2
  <2>2. CASE i > b /\ i - b \in 1..n /\ i = b + (i - b)
    <3>1. both[i] = entries[i - b] /\ hist[i].cid = new[i - b].cid
      BY <1>5, <1>6, <2>2
    <3> QED  BY <1>3, <1>4, <2>2, <3>1
  <2> QED  BY <1>7, <2>1, <2>2
<1>9. ASSUME NEW i \in 1..(b + n), Tips!NotAnchoredFrom(both, i)
      PROVE  hist[i].ts = both[i].ts
  <2>1. Tips!NotAnchoredFrom(hist, i)
    <3>1. \A j \in i..(b + n) : j \in 1..(b + n)
      BY <1>2, <1>3
    <3> QED  BY <1>5, <1>6, <1>8, <1>9, <3>1 DEF Tips!NotAnchoredFrom
  <2>2. CASE i \in 1..b
    BY <1>5, <1>6, <2>1, <2>2
  <2>3. CASE i > b /\ i - b \in 1..n /\ i = b + (i - b)
    <3>1. both[i] = entries[i - b] /\ entries[i - b].ts = new[i - b].ts /\ hist[i].ts = Stamp(new[i - b])
      BY <1>4, <1>5, <1>6, <2>1, <2>3
    <3>2. Stamp(new[i - b]) = new[i - b].ts
      <4>1. CASE setting.handler # "caip10"
        BY <4>1 DEF Stamp
      <4>2. CASE n = Len(new) /\ Tips!Undated(new)
        <5>1. ASSUME NEW j \in (i - b)..n PROVE new[j].cid \notin TimeEvents
          <6>1. b + j \in i..(b + n) /\ j \in 1..n
            BY <1>2, <1>3, <2>3
          <6>2. both[b + j].cid = new[j].cid
            BY <1>4, <1>5, <6>1
          <6> QED  BY <1>5, <1>9, <6>1, <6>2 DEF Tips!NotAnchoredFrom
        <5>2. Tips!NotAnchoredFrom(new, i - b)
          BY <4>2, <5>1 DEF Tips!NotAnchoredFrom
        <5>3. new[i - b].ts = NoTime
          BY <2>3, <4>2, <5>2 DEF Tips!Undated, NoTime, Tips!NoTime
        <5> QED  BY <5>3 DEF Stamp
      <4> QED  BY <4>1, <4>2
    <3> QED  BY <3>1, <3>2
  <2> QED  BY <1>7, <2>2, <2>3
<1>10. Settle(both) = hist
  BY <1>5, <1>6, <1>8, <1>9, SettledIs
<1> QED  BY <1>10 DEF both, entries

-----------------------------------------------------------------------------
(* What TipSync accepts of a log, read with Handlers' operators.           *)
Prior(held, new, i) == IF i > 1 THEN new[i - 1].cid ELSE IF held = <<>> THEN NoCommit ELSE Tip(held)
Passes(held, new, i, at) == Tipwise!Accepts(new[i], Prior(held, new, i), at)
Passed(held, new, at) == Max({k \in 0..Len(new) : \A i \in 1..k : Passes(held, new, i, at)})

LEMMA PassedIs ==
    ASSUME NEW held, NEW new, Len(new) \in Nat, NEW at
    PROVE  LET n == Passed(held, new, at) IN
           /\ n \in 0..Len(new) /\ \A i \in 1..n : Passes(held, new, i, at)
           /\ n < Len(new) => ~Passes(held, new, n + 1, at)
<1> DEFINE P(i) == Passes(held, new, i, at)
           S == {k \in 0..Len(new) : \A i \in 1..k : P(i)}
           n == Passed(held, new, at)
<1>1. n = Tips!Max(S)
  BY DEF Passed, Max, Tips!Max
<1>2. S \subseteq 0..Len(new) /\ 0 \in S
  OBVIOUS
<1>3. n \in S /\ \A y \in S : y =< n
  <2> HIDE DEF S, n
  <2>1. S # {}
    BY <1>2
  <2> QED  BY <1>1, <1>2, <2>1, Tips!MaxOfNaturals, ClockIsPositive, ForestAssumption, Zenon DEF NoTime, Tips!NoTime
<1> HIDE DEF n, P
<1>4. n \in 0..Len(new) /\ \A i \in 1..n : P(i)
  BY <1>3
<1>5. ASSUME n < Len(new), P(n + 1) PROVE FALSE
  <2>1. n + 1 \in 0..Len(new) /\ \A i \in 1..(n + 1) : i \in 1..n \/ i = n + 1
    BY <1>4, <1>5
  <2>2. n + 1 \in S
    BY <1>4, <1>5, <2>1
  <2>3. ~(n + 1 =< n)
    BY <1>4
  <2> QED  BY <1>3, <2>2, <2>3
<1> QED  BY <1>4, <1>5 DEF n, P

LEMMA TipwiseApplies ==
    ASSUME NEW held, NEW new, NEW throws, NEW at
    PROVE  LET n == Passed(held, new, at) IN
           Tipwise!ApplyLog(held, new, throws, at) =
               IF n < Len(new) /\ (throws \/ (held = <<>> /\ n = 0)) THEN <<>>
               ELSE Settle(held \o [i \in 1..n |-> [cid |-> new[i].cid, ts |-> new[i].ts]])
BY DEF Tipwise!ApplyLog, Passed, Passes, Prior, Max, Tipwise!Max, Tipwise!Thrown,
       Settle, Tipwise!Settle, Min, Tipwise!Min, Tip, Tipwise!Tip, Last, Tipwise!Last

(* A handler that does not forget the times of the commits it is given, or *)
(* that refuses none of them.                                              *)
Followed(held, new, throws, at) ==
    /\ throws \/ setting.handler # "tile" \/ \A i \in 1..Len(new) : new[i].cid \in Refused => new[i].cid = Genesis
    /\ setting.handler = "caip10" =>
          /\ Tips!Undated(new)
          /\ throws \/ \A i \in 1..Len(new) : Passes(held, new, i, at) \/ (i = 1 /\ held = <<>>)

(* StateManipulator._applyLog, with handlers or with TipSync's verdicts.   *)
LEMMA AppliedTipwise ==
    ASSUME setting \in AllSettings, NEW s, NoneOrLog(s), NEW new \in Tips!NewLog,
           \A i \in 1..Len(new) : new[i].ok, s = Nothing /\ new # <<>> => new[1].cid = Genesis,
           NEW throws \in BOOLEAN, NEW at, Followed(s.log, new, throws, at)
    PROVE  LET to == ApplyCommits(s, new, throws, FALSE, at) IN
           /\ NoneOrLog(to)
           /\ to.log = Tipwise!ApplyLog(s.log, new, throws, at)
           /\ CidsOf(to.log) \subseteq CidsOf(s.log) \cup {new[i].cid : i \in 1..Len(new)}
           /\ throws /\ to # Nothing /\ new # <<>> => Tip(to.log) = new[Len(new)].cid
<1> DEFINE held == s.log
           N == Len(new)
           m == Passed(held, new, at)
           to == ApplyCommits(s, new, throws, FALSE, at)
<1>1. /\ new \in Seq(Tips!NewEntry) /\ N \in Nat
      /\ \A i \in 1..N : /\ new[i] \in Tips!NewEntry /\ new[i].cid \in Commit /\ new[i].ts \in Nat
                         /\ new[i].cid \in TimeEvents => new[i].ts = AnchorTime[new[i].cid]
  <2>1. new \in Seq(Tips!NewEntry)
    BY DEF Tips!NewLog
  <2>2. N \in Nat /\ \A i \in 1..N : new[i] \in Tips!NewEntry
    BY <2>1
  <2>3. \A e \in Tips!NewEntry : e.cid \in Commit /\ e.ts \in Nat
    BY DEF Tips!NewEntry
  <2> QED  BY <2>1, <2>2, <2>3 DEF Tips!NewLog
<1>2. PICK f : /\ MovesTo(f, s, new, N, FALSE, at)
               /\ to = IF ~f[N].ok /\ throws THEN Nothing ELSE f[N].state
  <2> DEFINE miss == FALSE
  <2> HIDE DEF miss, to
  <2>1. \E f : /\ MovesTo(f, s, new, N, miss, at)
               /\ ApplyCommits(s, new, throws, miss, at) = IF ~f[N].ok /\ throws THEN Nothing ELSE f[N].state
    BY <1>1, AppliedByMoves
  <2> QED  BY <2>1 DEF miss, to
<1>3. m \in 0..N /\ (\A i \in 1..m : Passes(held, new, i, at)) /\ (m < N => ~Passes(held, new, m + 1, at))
  BY <1>1, PassedIs
<1>4. Nothing.log = <<>> /\ Len(<<>>) = 0
  BY DEF Nothing
<1>5. /\ s = Nothing => held = <<>>
      /\ s # Nothing => LogState(s) /\ held # <<>> /\ Tips!GoodLog(held)
      /\ Len(held) \in Nat
  BY <1>4, LogStateHolds DEF NoneOrLog, LogState
<1> HIDE DEF held, m, to
<1> DEFINE Reached(r, i) == /\ r.ok = TRUE
                            /\ IF i = 0 THEN r.state = s ELSE LogState(r.state)
                            /\ Grown(r.state.log, held, new, i)
           Stopped(r) == /\ r.ok = FALSE
                         /\ ~throws => NoneOrLog(r.state) /\ r.state.log = f[m].state.log
                                       /\ (m > 0 \/ s # Nothing => r.state # Nothing)
           S == {i \in 0..N : IF i =< m THEN Reached(f[i], i) ELSE Stopped(f[i])}
<1>6. 0 \in S
  <2>1. f[0] = [ok |-> TRUE, state |-> s] /\ 0 \in 0..N /\ 0 =< m
    BY <1>1, <1>2, <1>3 DEF MovesTo
  <2>2. f[0].ok = TRUE /\ f[0].state = s
    BY <2>1
  <2>3. Grown(held, held, new, 0)
    <3>1. \A k \in 1..Len(held) : ~(k > Len(held))
      BY <1>5
    <3> QED  BY <1>5, <3>1 DEF Grown
  <2> QED  BY <2>1, <2>2, <2>3 DEF held
<1>7. ASSUME NEW i \in 0..N, i < N, i \in S PROVE i + 1 \in S
  <2> DEFINE e == new[i + 1]
             t == f[i].state
             r == ApplyCommit(t, e, FALSE, at)
  <2>1. i + 1 \in 1..N /\ i + 1 \in 0..N /\ (i + 1) - 1 = i /\ i + 1 # 0
    BY <1>1, <1>7
  <2>2. /\ e \in Tips!NewEntry /\ e.ok /\ (e.cid \in TimeEvents => e.ts = AnchorTime[e.cid])
    BY <1>1, <2>1
  <2>3. f[i + 1] = Move(f[i], e, FALSE, at)
    BY <1>2, <2>1 DEF MovesTo
  <2>4. CASE i > m
    <3>1. Stopped(f[i]) /\ f[i].ok = FALSE
      BY <1>3, <1>7, <2>4
    <3>2. f[i + 1] = f[i]
      BY <2>3, <3>1 DEF Move
    <3>3. ~(i + 1 =< m)
      BY <1>3, <2>4
    <3> HIDE DEF Stopped
    <3> QED  BY <2>1, <3>1, <3>2, <3>3
  <2>5. CASE i =< m
    <3>1. Reached(f[i], i)
      BY <1>7, <2>5
    <3>2. f[i + 1] = r
      BY <2>3, <3>1 DEF Move
    <3>3. (i + 1 =< m => Passes(held, new, i + 1, at)) /\ (i + 1 > m => i = m /\ ~Passes(held, new, i + 1, at))
      BY <1>1, <1>3, <1>7, <2>5
    <3>4. CASE i = 0 /\ s = Nothing
      <4>1. e.cid = Genesis /\ t = Nothing /\ held = <<>> /\ e = new[1]
        <5>1. new # <<>>
          BY <1>1, <2>1
        <5> QED  BY <1>5, <3>1, <3>4, <5>1
      <4>2. Prior(held, new, i + 1) = NoCommit
        BY <3>4, <4>1 DEF Prior
      <4>3. /\ Passes(held, new, i + 1, at) =>
                  r.ok = TRUE /\ LogState(r.state) /\ r.state.log = <<[cid |-> Genesis, ts |-> e.ts]>>
            /\ ~Passes(held, new, i + 1, at) => r.ok = FALSE /\ r.state = Nothing
        <5> HIDE DEF e, t
        <5> QED  BY <2>2, <4>1, <4>2, GenesisExtends DEF Passes, e
      <4>4. CASE i + 1 =< m
        <5>1. e.ts \in Nat /\ Genesis \notin Invalid
          <6>1. Tipwise!Accepts(e, NoCommit, at)
            BY <3>3, <4>2, <4>4 DEF Passes
          <6> QED  BY <1>1, <2>1, <4>1, <6>1 DEF Tipwise!Accepts
        <5>2. Grown(<<[cid |-> Genesis, ts |-> e.ts]>>, held, new, i + 1)
          BY <3>4, <4>1, <5>1, GrownFirst
        <5> HIDE DEF r, e
        <5>3. Reached(r, i + 1)
          BY <2>1, <3>3, <4>3, <4>4, <5>2
        <5> HIDE DEF Reached
        <5> QED  BY <2>1, <3>2, <4>4, <5>3
      <4>5. CASE i + 1 > m
        <5>1. m = 0 /\ f[m].state.log = <<>> /\ i = m
          BY <1>4, <3>3, <3>4, <4>1, <4>5
        <5> HIDE DEF r
        <5>2. Stopped(r)
          BY <1>4, <3>3, <3>4, <4>3, <4>5, <5>1 DEF NoneOrLog
        <5>3. ~(i + 1 =< m)
          BY <1>3, <4>5
        <5> HIDE DEF Stopped
        <5> QED  BY <2>1, <3>2, <5>2, <5>3
      <4> HIDE DEF S
      <4> QED  BY <1>3, <2>1, <4>4, <4>5
    <3>5. CASE i # 0 \/ s # Nothing
      <4>1. LogState(t)
        BY <1>5, <3>1, <3>5
      <4>2. Prior(held, new, i + 1) = Tip(t.log)
        <5>1. Len(t.log) = Len(held) + i /\ Tip(t.log) = t.log[Len(t.log)].cid
          BY <3>1, <4>1, LogStateHolds DEF Grown
        <5>2. CASE i = 0
          BY <1>5, <3>1, <3>5, <5>2 DEF Prior, held
        <5>3. CASE i # 0
          <6>1. i \in 1..i /\ i + 1 > 1
            BY <5>3
          <6>2. t.log[Len(held) + i].cid = new[i].cid
            BY <3>1, <6>1 DEF Grown
          <6> QED  BY <2>1, <5>1, <6>1, <6>2 DEF Prior
        <5> QED  BY <5>2, <5>3
      <4>3. /\ Passes(held, new, i + 1, at) =>
                  r.ok = TRUE /\ IsState(r.state) /\ Extends(r.state.log, t.log, e.cid, Stamp(e))
            /\ ~Passes(held, new, i + 1, at) =>
                  /\ r.ok = FALSE
                  /\ setting.handler # "tile" \/ (e.cid \in Refused => e.cid = Genesis) =>
                        IsState(r.state) /\ r.state.log = t.log
        <5>1. Passes(held, new, i + 1, at) <=> Tipwise!Accepts(e, Tip(t.log), at)
          BY <4>2 DEF Passes
        <5> HIDE DEF e, t
        <5> QED  BY <2>2, <4>1, <5>1, CommitExtends
      <4>4. CASE i + 1 =< m
        <5>1. LogState(r.state) /\ Extends(r.state.log, t.log, e.cid, Stamp(e))
          BY <3>3, <4>3, <4>4 DEF LogState, Extends
        <5>2. Grown(r.state.log, held, new, i + 1)
          <6> HIDE DEF r, t
          <6> QED  BY <1>5, <3>1, <5>1, GrownOn DEF t
        <5>3. r.ok = TRUE
          BY <3>3, <4>3, <4>4
        <5> HIDE DEF r
        <5>4. Reached(r, i + 1)
          BY <2>1, <5>1, <5>2, <5>3
        <5> HIDE DEF Reached
        <5> QED  BY <2>1, <3>2, <4>4, <5>4
      <4>5. CASE i + 1 > m
        <5>1. i = m /\ t.log = f[m].state.log
          BY <3>3, <4>5
        <5>2. ~throws => setting.handler # "tile" \/ (e.cid \in Refused => e.cid = Genesis)
          BY <2>1 DEF Followed
        <5>3. r.ok = FALSE /\ (~throws => IsState(r.state) /\ r.state.log = t.log)
          BY <3>3, <4>3, <4>5, <5>2
        <5> HIDE DEF r, t
        <5>4. ~throws => LogState(r.state) /\ r.state # Nothing
          <6>1. ~throws => LogState(r.state)
            BY <4>1, <5>3 DEF LogState
          <6> QED  BY <6>1, LogStateHolds
        <5>5. Stopped(r)
          BY <5>1, <5>3, <5>4 DEF NoneOrLog
        <5>6. ~(i + 1 =< m)
          BY <1>3, <4>5
        <5> HIDE DEF Stopped
        <5> QED  BY <2>1, <3>2, <5>5, <5>6 DEF r, t
      <4> HIDE DEF S
      <4> QED  BY <1>3, <2>1, <4>4, <4>5
    <3> QED  BY <3>4, <3>5
  <2> HIDE DEF S
  <2> QED  BY <1>3, <1>7, <2>4, <2>5
<1>8. \A i \in 0..N : i \in S
  <2> HIDE DEF S, N
  <2> QED  BY <1>1, <1>6, <1>7, UpTo
<1> DEFINE hist == f[m].state.log
           entries == [i \in 1..m |-> [cid |-> new[i].cid, ts |-> new[i].ts]]
<1>9. Reached(f[m], m)
  BY <1>3, <1>8
<1>10. Tipwise!ApplyLog(held, new, throws, at) =
           IF m < N /\ (throws \/ (held = <<>> /\ m = 0)) THEN <<>> ELSE Settle(held \o entries)
  BY TipwiseApplies DEF m
<1>11. /\ Len(hist) = Len(held) + m
       /\ \A k \in 1..Len(held) : hist[k].cid = held[k].cid
       /\ \A k \in 1..m : hist[Len(held) + k].cid = new[k].cid
  BY <1>9 DEF Grown
<1>12. LogState(f[m].state) \/ (m = 0 /\ f[m].state = Nothing /\ held = <<>> /\ hist = <<>>)
  BY <1>4, <1>5, <1>9
<1>13. CidsOf(hist) \subseteq CidsOf(held) \cup {new[i].cid : i \in 1..N}
  <2>1. DOMAIN hist = 1..Len(hist) /\ 1..Len(held) \subseteq DOMAIN held
    <3>1. hist \in Seq(Entry)
      <4>1. <<>> \in Seq(Entry)
        OBVIOUS
      <4> QED  BY <1>12, <4>1, LogStateHolds
    <3>2. held \in Seq(Entry)
      <4>1. <<>> \in Seq(Entry)
        OBVIOUS
      <4> QED  BY <1>5, <4>1, LogStateHolds DEF held
    <3> HIDE DEF hist
    <3> QED  BY <3>1, <3>2
  <2>2. \A k \in 1..Len(hist) : k \in 1..Len(held) \/ (k - Len(held) \in 1..m /\ k = Len(held) + (k - Len(held)))
    BY <1>3, <1>5, <1>11
  <2>3. \A k \in 1..m : k \in 1..N
    BY <1>1, <1>3
  <2> HIDE DEF hist
  <2> QED  BY <1>11, <2>1, <2>2, <2>3 DEF CidsOf
<1>14. m > 0 => Tip(hist) = new[m].cid
  <2>1. m > 0 => m \in 1..m /\ LogState(f[m].state)
    BY <1>3, <1>12
  <2>2. LogState(f[m].state) => Tip(hist) = hist[Len(hist)].cid
    BY LogStateHolds
  <2> HIDE DEF hist
  <2> QED  BY <1>11, <2>1, <2>2
<1>15. ASSUME LogState(f[m].state), setting.handler # "caip10" \/ m = N
       PROVE  Settle(held \o entries) = hist
  <2>1. held = <<>> \/ Tips!GoodLog(held)
    BY <1>5
  <2>2. Tips!GoodLog(hist) /\ Grown(hist, held, new, m)
    BY <1>9, <1>15 DEF LogState
  <2>3. \A i \in 1..m : new[i].ok
    BY <1>1, <1>3
  <2>4. setting.handler # "caip10" \/ (m = Len(new) /\ Tips!Undated(new))
    BY <1>15 DEF Followed
  <2> HIDE DEF hist
  <2> QED  BY <1>3, <2>1, <2>2, <2>3, <2>4, GrownIsSettled
<1>16. Settle(<<>> \o <<>>) = <<>>
  <2>1. <<>> \in Seq(Entry) /\ <<>> \o <<>> = <<>>
    OBVIOUS
  <2>2. Settle(<<>>) \in Seq(Entry) /\ Len(Settle(<<>>)) = Len(<<>>)
    BY <2>1, LogCids
  <2>3. \A q \in Seq(Entry) : Len(q) = Len(<<>>) => q = <<>>
    OBVIOUS
  <2> HIDE DEF Settle
  <2> QED  BY <2>1, <2>2, <2>3
<1>17. CASE m = N
  <2>1. f[N].ok = TRUE /\ to = f[m].state
    BY <1>2, <1>9, <1>17
  <2>2. ~(m < N)
    BY <1>1, <1>17
  <2>3. CASE LogState(f[m].state)
    <3>1. to.log = Tipwise!ApplyLog(held, new, throws, at)
      BY <1>10, <1>15, <1>17, <2>1, <2>2, <2>3
    <3>2. new # <<>> => m > 0
      BY <1>1, <1>17
    <3> QED  BY <1>13, <1>14, <1>17, <2>1, <2>3, <3>1, <3>2 DEF NoneOrLog, held, to
  <2>4. CASE m = 0 /\ f[m].state = Nothing /\ held = <<>> /\ hist = <<>>
    <3>1. entries = <<>> /\ new = <<>>
      <4>1. \A q \in Seq(Tips!NewEntry) : Len(q) = 0 => q = <<>>
        OBVIOUS
      <4>2. \A g : g = [i \in 1..0 |-> g[i]] => g = <<>>
        OBVIOUS
      <4>3. entries = [i \in 1..0 |-> entries[i]]
        BY <2>4
      <4> HIDE DEF entries
      <4> QED  BY <1>1, <1>17, <2>4, <4>1, <4>2, <4>3
    <3>2. to.log = Tipwise!ApplyLog(held, new, throws, at)
      <4> HIDE DEF entries
      <4> QED  BY <1>10, <1>16, <2>1, <2>2, <2>4, <3>1
    <3> QED  BY <1>13, <2>1, <2>4, <3>1, <3>2 DEF NoneOrLog, held, to
  <2> QED  BY <1>12, <2>3, <2>4
<1>18. CASE m # N
  <2>1. m < N /\ N \in 0..N /\ ~(N =< m)
    BY <1>1, <1>3, <1>18
  <2>2. Stopped(f[N])
    BY <1>8, <2>1
  <2>3. CASE throws
    <3>1. to = Nothing
      BY <1>2, <2>2, <2>3
    <3>2. Tipwise!ApplyLog(held, new, throws, at) = <<>>
      BY <1>10, <2>1, <2>3
    <3>3. CidsOf(<<>>) = {}
      BY DEF CidsOf
    <3> QED  BY <1>4, <3>1, <3>2, <3>3 DEF NoneOrLog, held, to
  <2>4. CASE ~throws
    <3>1. to = f[N].state /\ NoneOrLog(to) /\ to.log = hist
      BY <1>2, <2>2, <2>4
    <3>2. to.log = Tipwise!ApplyLog(held, new, throws, at)
      <4>1. CASE held = <<>> /\ m = 0
        <5>1. hist = held
          BY <1>9, <4>1 DEF Grown
        <5> QED  BY <1>10, <2>1, <3>1, <4>1, <5>1
      <4>2. CASE ~(held = <<>> /\ m = 0)
        <5>1. setting.handler # "caip10"
          <6>1. m + 1 \in 1..N
            BY <1>1, <1>3, <2>1
          <6>2. m + 1 = 1 => m = 0
            BY <1>3
          <6> QED  BY <1>3, <2>1, <2>4, <4>2, <6>1, <6>2 DEF Followed, held
        <5>2. LogState(f[m].state)
          BY <1>12, <4>2
        <5>3. Settle(held \o entries) = hist
          BY <1>15, <5>1, <5>2
        <5> QED  BY <1>10, <2>4, <3>1, <4>2, <5>3
      <4> QED  BY <4>1, <4>2
    <3> QED  BY <1>13, <2>4, <3>1, <3>2 DEF held, to
  <2> QED  BY <2>3, <2>4
<1> QED  BY <1>17, <1>18

-----------------------------------------------------------------------------
(* The rest of StreamLog is the same, whatever is valid.                   *)
LEMMA TipwiseAlike ==
    /\ \A tip : SyncFullLog(tip) = Tipwise!SyncFullLog(tip)
    /\ \A tip, hist : SyncLogUntilMatch(tip, CidsOf(hist)) = Tipwise!SyncLogUntilMatch(tip, Tipwise!CidsOf(hist))
    /\ \A cids : VerifyAnchors(cids, TimeEvents) = Tipwise!VerifyAnchors(cids, TimeEvents)
    /\ \A hist, c : TrustedLog(hist, c, FALSE) = Tipwise!TrustedLog(hist, c, FALSE)
    /\ \A hist, c : IndexOf(hist, c) = Tipwise!IndexOf(hist, c)
    /\ \A hist : CidsOf(hist) = Tipwise!CidsOf(hist)
    /\ \A one, two : PicksFirst(one, two) = Tipwise!PicksFirst(one, two)
    /\ \A hist, at : Usable(hist, at) = Tipwise!Usable(hist, at)
<1>1. ChainTo = Tipwise!ChainTo
  BY DEF ChainTo, Tipwise!ChainTo
<1>2. \A tip : SyncFullLog(tip) = Tipwise!SyncFullLog(tip)
  BY <1>1 DEF SyncFullLog, Tipwise!SyncFullLog
<1>3. \A hist : CidsOf(hist) = Tipwise!CidsOf(hist)
  BY DEF CidsOf, Tipwise!CidsOf
<1>4. \A tip, hist : SyncLogUntilMatch(tip, CidsOf(hist)) = Tipwise!SyncLogUntilMatch(tip, Tipwise!CidsOf(hist))
  <2>1. \A S : Max(S) = Tipwise!Max(S)
    BY DEF Max, Tipwise!Max
  <2>2. ASSUME NEW tip, NEW known
        PROVE  SyncLogUntilMatch(tip, known) = Tipwise!SyncLogUntilMatch(tip, known)
    BY <1>1, <2>1 DEF SyncLogUntilMatch, Tipwise!SyncLogUntilMatch
  <2> QED  BY <1>3, <2>2
<1>5. \A cids : VerifyAnchors(cids, TimeEvents) = Tipwise!VerifyAnchors(cids, TimeEvents)
  BY DEF VerifyAnchors, Tipwise!VerifyAnchors, Min, Tipwise!Min, NoTime, Tipwise!NoTime
<1>6. \A hist, dest : CopyTrustedTimestamps(hist, dest, FALSE) = Tipwise!CopyTrustedTimestamps(hist, dest, FALSE)
  BY DEF CopyTrustedTimestamps, Tipwise!CopyTrustedTimestamps, Min, Tipwise!Min, NoTime, Tipwise!NoTime
<1>7. \A hist, c : TrustedLog(hist, c, FALSE) = Tipwise!TrustedLog(hist, c, FALSE)
  BY <1>2, <1>6 DEF TrustedLog, Tipwise!TrustedLog
<1>8. \A hist, c : IndexOf(hist, c) = Tipwise!IndexOf(hist, c)
  BY DEF IndexOf, Tipwise!IndexOf, SelectInSeq, Tipwise!SelectInSeq, Min, Tipwise!Min
<1>9. \A one, two : PicksFirst(one, two) = Tipwise!PicksFirst(one, two)
  BY DEF PicksFirst, Tipwise!PicksFirst, AnchoredBefore, Tipwise!AnchoredBefore,
         FirstAnchor, Tipwise!FirstAnchor, SelectInSeq, Tipwise!SelectInSeq, Min, Tipwise!Min,
         LongerOrLowerCid, Tipwise!LongerOrLowerCid, RelevantLength, Tipwise!RelevantLength,
         Tip, Tipwise!Tip, Last, Tipwise!Last
<1>10. \A hist, at : Usable(hist, at) = Tipwise!Usable(hist, at)
  BY DEF Usable, Tipwise!Usable, Expired, Tipwise!Expired, NoTime, Tipwise!NoTime
<1> QED  BY <1>2, <1>3, <1>4, <1>5, <1>7, <1>8, <1>9, <1>10

(* What is fetched, to be applied, is undated and in order.                *)
InOrder(cids) == \A i \in 2..Len(cids) : Prev[cids[i]] = cids[i - 1]

Fetched(new, cids) ==
    /\ new \in Tips!NewLog /\ Len(new) = Len(cids) /\ Tips!Undated(new)
    /\ \A i \in 1..Len(cids) : new[i].cid = cids[i] /\ new[i].ok = TRUE

LEMMA VerifiedIsFetched ==
    ASSUME NEW cids \in Seq(Commit)
    PROVE  Fetched(VerifyAnchors(cids, TimeEvents), cids)
<1> DEFINE got == Tips!VerifyAnchors(cids, TimeEvents)
<1>1. got \in Tips!NewLog
  BY ClockIsPositive, ForestAssumption, Tips!VerifiedIsTyped, Zenon DEF NoTime, Tips!NoTime
<1>2. /\ Len(got) = Len(cids)
      /\ \A i \in 1..Len(cids) : got[i].cid = cids[i] /\ got[i].ok = (cids[i] \notin TimeEvents \ TimeEvents)
  <2>1. /\ Len(Tips!VerifyAnchors(cids, TimeEvents)) = Len(cids)
        /\ DOMAIN Tips!VerifyAnchors(cids, TimeEvents) = 1..Len(cids)
        /\ \A i \in 1..Len(cids) :
             /\ Tips!VerifyAnchors(cids, TimeEvents)[i].cid = cids[i]
             /\ Tips!VerifyAnchors(cids, TimeEvents)[i].ok = (cids[i] \notin TimeEvents \ TimeEvents)
    BY ClockIsPositive, ForestAssumption, Tips!VerifiedShape, Zenon DEF NoTime, Tips!NoTime
  <2> QED  BY <2>1
<1>3. Tips!Undated(got)
  BY ClockIsPositive, ForestAssumption, Tips!VerifiedTimes, Zenon DEF NoTime, Tips!NoTime
<1>4. VerifyAnchors(cids, TimeEvents) = got
  BY FetchedAlike
<1> HIDE DEF got
<1>5. \A i \in 1..Len(cids) : got[i].ok = TRUE
  BY <1>2
<1> QED  BY <1>1, <1>2, <1>3, <1>4, <1>5 DEF Fetched

LEMMA FullLogInOrder ==
    ASSUME NEW c \in Commit
    PROVE  LET cids == SyncFullLog(c) IN
           /\ cids \in Seq(Commit) /\ Len(cids) > 0 /\ cids[1] = Genesis /\ InOrder(cids)
           /\ \A i \in 1..Len(cids) : cids[i] \in ChainCids(c) \cup {Genesis}
<1> DEFINE cids == SyncFullLog(c)
<1>1. Tips!SyncFullLog(c) \in Seq(Commit) /\ Len(Tips!SyncFullLog(c)) > 0 /\ Tips!SyncFullLog(c)[1] = Genesis
  BY ClockIsPositive, ForestAssumption, Tips!FullLogBegins, Zenon DEF NoTime, Tips!NoTime
<1>2. \A k \in 2..Len(Tips!ChainTo[c]) : Prev[Tips!ChainTo[c][k]] = Tips!ChainTo[c][k - 1]
  BY ClockIsPositive, ForestAssumption, Tips!ChainFollows, Zenon DEF NoTime, Tips!NoTime
<1>3. InOrder(ChainTo[c])
  BY <1>2, FetchedAlike DEF InOrder
<1>4. cids = ChainTo[c] \/ cids = <<Genesis>>
  BY DEF SyncFullLog
<1>5. Len(<<Genesis>>) = 1 /\ <<Genesis>>[1] = Genesis
  OBVIOUS
<1>6. cids \in Seq(Commit) /\ Len(cids) > 0 /\ cids[1] = Genesis
  BY <1>1, FetchedAlike
<1> HIDE DEF cids
<1>7. InOrder(cids)
  <2>1. InOrder(<<Genesis>>)
    BY <1>5 DEF InOrder
  <2> QED  BY <1>3, <1>4, <2>1
<1>8. \A i \in 1..Len(cids) : cids[i] \in ChainCids(c) \cup {Genesis}
  <2>1. CASE cids = ChainTo[c]
    BY <2>1 DEF ChainCids
  <2>2. CASE cids = <<Genesis>>
    BY <1>5, <2>2
  <2> QED  BY <1>4, <2>1, <2>2
<1> QED  BY <1>6, <1>7, <1>8 DEF cids

LEMMA RestInOrder ==
    ASSUME NEW hist, Tips!GoodLog(hist), NEW c \in Commit
    PROVE  LET cids == SyncLogUntilMatch(c, CidsOf(hist)) IN
           cids \in Seq(Commit) /\ InOrder(cids)
<1> DEFINE got == Tips!SyncLogUntilMatch(c, Tips!CidsOf(hist))
           chain == Tips!ChainTo[c]
<1>1. got \in Seq(Commit)
  BY ClockIsPositive, ForestAssumption, Tips!SyncedIsTyped, Zenon DEF NoTime, Tips!NoTime
<1>2. \/ ~Tips!Rooted(c) /\ got = <<>>
      \/ Tips!Rooted(c) /\ \E m \in 1..Len(Tips!ChainTo[c]) : Tips!SyncedFrom(got, hist, c, m)
  BY ClockIsPositive, ForestAssumption, Tips!SyncedFromTheLog, Zenon DEF NoTime, Tips!NoTime
<1>3. \A k \in 2..Len(chain) : Prev[chain[k]] = chain[k - 1]
  BY ClockIsPositive, ForestAssumption, Tips!ChainFollows, Zenon DEF NoTime, Tips!NoTime
<1>4. chain \in Seq(Commit) /\ Len(chain) \in Nat
  <2>1. ChainTo[c] \in Seq(Commit)
    BY Chains
  <2>2. chain \in Seq(Commit)
    BY <2>1, FetchedAlike
  <2> HIDE DEF chain
  <2> QED  BY <2>2
<1> HIDE DEF got, chain
<1>5. InOrder(got)
  <2>1. CASE got = <<>>
    <3>1. Len(got) = 0
      BY <2>1
    <3> QED  BY <3>1 DEF InOrder
  <2>2. CASE \E m \in 1..Len(Tips!ChainTo[c]) : Tips!SyncedFrom(got, hist, c, m)
    <3>1. PICK m \in 1..Len(Tips!ChainTo[c]) : Tips!SyncedFrom(got, hist, c, m)
      BY <2>2
    <3>2. m \in 1..Len(chain) /\ Len(got) = Len(chain) - m /\ \A i \in 1..(Len(chain) - m) : got[i] = chain[m + i]
      BY <3>1 DEF Tips!SyncedFrom, Tips!IsPartFrom, chain
    <3>3. ASSUME NEW i \in 2..Len(got) PROVE Prev[got[i]] = got[i - 1]
      <4>1. /\ i \in 1..(Len(chain) - m) /\ i - 1 \in 1..(Len(chain) - m)
            /\ m + i \in 2..Len(chain) /\ m + (i - 1) = (m + i) - 1
        BY <1>4, <3>2
      <4> QED  BY <1>3, <3>2, <4>1
    <3> QED  BY <3>3 DEF InOrder
  <2> QED  BY <1>2, <2>1, <2>2
<1>6. SyncLogUntilMatch(c, CidsOf(hist)) = got
  BY FetchedAlike DEF got
<1> QED  BY <1>1, <1>5, <1>6

LEMMA TrustedIsFetched ==
    ASSUME NEW hist, Tips!GoodLog(hist), NEW c \in CidsOf(hist)
    PROVE  LET new == TrustedLog(hist, c, FALSE) IN
           /\ new \in Tips!NewLog /\ Tips!Undated(new) /\ Len(new) > 0
           /\ new[1].cid = Genesis /\ new[Len(new)].cid = c
           /\ \A i \in 1..Len(new) : new[i].ok /\ new[i].cid \in CidsOf(hist)
<1> DEFINE new == TrustedLog(hist, c, FALSE)
<1>1. c \in Tips!CidsOf(hist) /\ new = Tips!TrustedLog(hist, c, FALSE)
  BY FetchedAlike
<1>2. hist \in Seq(Tips!Entry) /\ Len(hist) > 0 /\ hist[1].cid = Genesis
  BY DEF Tips!GoodLog
<1>3. FALSE \in BOOLEAN
  OBVIOUS
<1>4. \E i \in 1..Len(hist) : Tips!TrustedUpTo(hist, c, FALSE, i)
  BY <1>1, <1>3, ClockIsPositive, ForestAssumption, Tips!TrustedLogIsALog, Zenon DEF NoTime, Tips!NoTime
<1>5. PICK i \in 1..Len(hist) : Tips!TrustedUpTo(hist, c, FALSE, i)
  BY <1>4
<1> HIDE DEF new
<1>6. /\ new \in Tips!NewLog /\ Len(new) = i /\ hist[i].cid = c /\ Tips!Undated(new)
      /\ \A k \in 1..i : new[k].cid = hist[k].cid /\ new[k].ok = TRUE
  BY <1>1, <1>5 DEF Tips!TrustedUpTo
<1>7. 1 \in 1..i /\ i > 0 /\ i \in 1..i /\ \A k \in 1..i : k \in DOMAIN hist
  BY <1>2, <1>5
<1>8. \A k \in 1..i : new[k].ok /\ new[k].cid \in CidsOf(hist)
  BY <1>6, <1>7 DEF CidsOf
<1> QED  BY <1>2, <1>6, <1>7, <1>8 DEF new

(* A link refuses nothing of what reaches it.                              *)
LEMMA AllPass ==
    ASSUME Invalid = {}, \A c \in Commit : Expires[c] = 0, NEW held, NEW at,
           NEW cids \in Seq(Commit), InOrder(cids), NEW new, Fetched(new, cids),
           cids # <<>> /\ held # <<>> => Prev[cids[1]] = Tip(held) /\ Tip(held) \in Commit,
           \A i \in 1..Len(cids) : cids[i] \in Refused => cids[i] = Genesis
    PROVE  \A i \in 1..Len(new) : Passes(held, new, i, at) \/ (i = 1 /\ held = <<>>)
<1> SUFFICES ASSUME NEW i \in 1..Len(cids), i # 1 \/ held # <<>> PROVE Passes(held, new, i, at)
  BY DEF Fetched
<1>1. /\ new[i].cid = cids[i] /\ new[i].ok = TRUE /\ cids[i] \in Commit /\ cids # <<>>
      /\ i # 1 => i > 1 /\ i \in 2..Len(cids) /\ i - 1 \in 1..Len(cids) /\ cids[i - 1] \in Commit
                  /\ new[i - 1].cid = cids[i - 1]
  <2>1. Len(cids) \in Nat /\ cids # <<>> /\ \A k \in 1..Len(cids) : cids[k] \in Commit
    OBVIOUS
  <2>2. i # 1 => i > 1 /\ i \in 2..Len(cids) /\ i - 1 \in 1..Len(cids)
    BY <2>1
  <2> QED  BY <2>1, <2>2 DEF Fetched
<1>2. Prev[cids[i]] = Prior(held, new, i) /\ Prior(held, new, i) \in Commit
  <2>1. CASE i # 1
    BY <1>1, <2>1 DEF Prior, InOrder
  <2>2. CASE i = 1
    <3>1. ~(1 > 1)
      OBVIOUS
    <3> QED  BY <1>1, <2>2, <3>1 DEF Prior
  <2> QED  BY <2>1, <2>2
<1>3. cids[i] # Genesis
  BY <1>2, ForestAssumption
<1>4. Expires[cids[i]] = 0 /\ cids[i] \notin Invalid \cup Refused
  BY <1>1, <1>3
<1> QED  BY <1>1, <1>2, <1>4 DEF Passes, Tipwise!Accepts, Tipwise!Expired

-----------------------------------------------------------------------------
(* Loading, resetting and applying, with handlers or with TipSync's        *)
(* verdicts.  Where a handler keeps what it refused, no such commit is     *)
(* fetched.                                                                *)
Digestible(c) == setting.handler = "mid" \/ c \in Clean

LEMMA NothingTipwise ==
    /\ NoneOrLog(Nothing) /\ Nothing.log = <<>> /\ Tipwise!Thrown = <<>> /\ CidsOf(<<>>) = {}
    /\ \A s : NoneOrLog(s) => (s = Nothing <=> s.log = <<>>)
<1>1. Nothing.log = <<>> /\ Tipwise!Thrown = <<>> /\ CidsOf(<<>>) = {}
  BY DEF Nothing, Tipwise!Thrown, CidsOf
<1>2. \A s : NoneOrLog(s) => (s = Nothing <=> s.log = <<>>)
  BY <1>1, LogStateHolds DEF NoneOrLog
<1> QED  BY <1>1, <1>2 DEF NoneOrLog

LEMMA LoadTipwise ==
    ASSUME setting \in AllSettings, Comparable, NEW c \in Commit, Digestible(c), NEW at
    PROVE  LET to == LoadState(c, FALSE, at) IN
           /\ NoneOrLog(to) /\ to.log = Tipwise!LoadStateFromTip(c, TimeEvents, FALSE, at)
           /\ CidsOf(to.log) \subseteq ChainCids(c) \cup {Genesis}
<1> DEFINE cids == SyncFullLog(c)
           new == VerifyAnchors(cids, TimeEvents)
           to == ApplyCommits(Nothing, new, FALSE, FALSE, at)
<1>1. /\ cids \in Seq(Commit) /\ Len(cids) > 0 /\ cids[1] = Genesis /\ InOrder(cids)
      /\ \A i \in 1..Len(cids) : cids[i] \in ChainCids(c) \cup {Genesis}
  BY FullLogInOrder
<1>2. LoadState(c, FALSE, at) = to
  BY DEF LoadState
<1>3. Tipwise!LoadStateFromTip(c, TimeEvents, FALSE, at) = Tipwise!ApplyLog(<<>>, new, FALSE, at)
  BY TipwiseAlike DEF Tipwise!LoadStateFromTip
<1> HIDE DEF cids
<1>4. Fetched(new, cids)
  BY <1>1, VerifiedIsFetched
<1> HIDE DEF new, to
<1>5. /\ new \in Tips!NewLog /\ Len(new) = Len(cids) /\ Tips!Undated(new)
      /\ \A i \in 1..Len(new) : new[i].cid = cids[i] /\ new[i].ok
      /\ new[1].cid = Genesis
  <2>1. 1 \in 1..Len(cids)
    BY <1>1
  <2> QED  BY <1>1, <1>4, <2>1 DEF Fetched
<1>6. setting.handler # "mid" => \A i \in 1..Len(cids) : cids[i] \in Refused => cids[i] = Genesis
  BY <1>1, ChainIsPalatable DEF Digestible
<1>7. setting.handler = "caip10" => \A i \in 1..Len(new) : Passes(<<>>, new, i, at) \/ (i = 1 /\ <<>> = <<>>)
  BY <1>1, <1>4, <1>6, AllPass DEF Comparable
<1>8. Followed(Nothing.log, new, FALSE, at)
  BY <1>5, <1>6, <1>7, NothingTipwise DEF Followed
<1>9. /\ NoneOrLog(to) /\ to.log = Tipwise!ApplyLog(Nothing.log, new, FALSE, at)
      /\ CidsOf(to.log) \subseteq CidsOf(Nothing.log) \cup {new[i].cid : i \in 1..Len(new)}
  <2>1. FALSE \in BOOLEAN /\ NoneOrLog(Nothing)
    BY NothingTipwise
  <2> QED  BY <1>5, <1>8, <2>1, AppliedTipwise DEF to
<1>10. CidsOf(to.log) \subseteq ChainCids(c) \cup {Genesis}
  <2>1. CidsOf(Nothing.log) = {}
    BY NothingTipwise
  <2>2. \A i \in 1..Len(new) : new[i].cid \in ChainCids(c) \cup {Genesis}
    BY <1>1, <1>5
  <2> QED  BY <1>9, <2>1, <2>2
<1> QED  BY <1>2, <1>3, <1>9, <1>10, NothingTipwise

LEMMA ResetTipwise ==
    ASSUME setting \in AllSettings, NEW s, LogState(s), NEW c \in CidsOf(s.log), NEW at
    PROVE  LET to == ResetState(s, c, FALSE, at) IN
           /\ NoneOrLog(to) /\ to.log = Tipwise!ResetToCommit(s.log, c, FALSE, at)
           /\ CidsOf(to.log) \subseteq CidsOf(s.log)
           /\ to # Nothing => Tip(to.log) = c
<1> DEFINE new == TrustedLog(s.log, c, FALSE)
           to == ApplyCommits(Nothing, new, TRUE, FALSE, at)
<1>1. /\ new \in Tips!NewLog /\ Tips!Undated(new) /\ Len(new) > 0
      /\ new[1].cid = Genesis /\ new[Len(new)].cid = c
      /\ \A i \in 1..Len(new) : new[i].ok /\ new[i].cid \in CidsOf(s.log)
  BY TrustedIsFetched DEF LogState
<1>2. ResetState(s, c, FALSE, at) = to
  BY DEF ResetState
<1>3. Tipwise!ResetToCommit(s.log, c, FALSE, at) = Tipwise!ApplyLog(<<>>, new, TRUE, at)
  BY TipwiseAlike DEF Tipwise!ResetToCommit
<1> HIDE DEF new, to
<1>4. Followed(Nothing.log, new, TRUE, at)
  BY <1>1 DEF Followed
<1>5. new # <<>>
  BY <1>1
<1>6. /\ NoneOrLog(to) /\ to.log = Tipwise!ApplyLog(Nothing.log, new, TRUE, at)
      /\ CidsOf(to.log) \subseteq CidsOf(Nothing.log) \cup {new[i].cid : i \in 1..Len(new)}
      /\ TRUE /\ to # Nothing /\ new # <<>> => Tip(to.log) = new[Len(new)].cid
  <2>1. TRUE \in BOOLEAN /\ NoneOrLog(Nothing)
    BY NothingTipwise
  <2> QED  BY <1>1, <1>4, <2>1, AppliedTipwise DEF to
<1>7. CidsOf(to.log) \subseteq CidsOf(s.log)
  BY <1>1, <1>6, NothingTipwise
<1> QED  BY <1>1, <1>2, <1>3, <1>5, <1>6, <1>7, NothingTipwise

AppliedAsTips(s, new, throws, at) ==
    /\ NoneOrLog(ApplyCommits(s, new, throws, FALSE, at))
    /\ ApplyCommits(s, new, throws, FALSE, at).log = Tipwise!ApplyLog(s.log, new, throws, at)
    /\ CidsOf(ApplyCommits(s, new, throws, FALSE, at).log)
           \subseteq CidsOf(s.log) \cup {new[i].cid : i \in 1..Len(new)}

LEMMA AppliedToState ==
    ASSUME setting \in AllSettings, NEW s, LogState(s), NEW new \in Tips!NewLog,
           \A i \in 1..Len(new) : new[i].ok, NEW at
    PROVE  /\ Followed(s.log, new, TRUE, at) => AppliedAsTips(s, new, TRUE, at)
           /\ Followed(s.log, new, FALSE, at) => AppliedAsTips(s, new, FALSE, at)
<1>1. NoneOrLog(s) /\ s # Nothing
  BY LogStateHolds DEF NoneOrLog
<1>2. s = Nothing /\ new # <<>> => new[1].cid = Genesis
  BY <1>1
<1>3. ASSUME Followed(s.log, new, TRUE, at) PROVE AppliedAsTips(s, new, TRUE, at)
  <2>1. TRUE \in BOOLEAN
    OBVIOUS
  <2> QED  BY <1>1, <1>2, <1>3, <2>1, AppliedTipwise DEF AppliedAsTips
<1>4. ASSUME Followed(s.log, new, FALSE, at) PROVE AppliedAsTips(s, new, FALSE, at)
  <2>1. FALSE \in BOOLEAN
    OBVIOUS
  <2> QED  BY <1>1, <1>2, <1>4, <2>1, AppliedTipwise DEF AppliedAsTips
<1> QED  BY <1>3, <1>4

LEMMA TipTipwise ==
    ASSUME setting \in AllSettings, Comparable, NEW s, LogState(s), NEW c \in Commit,
           NEW opts \in [throwOnInvalid : BOOLEAN, throwIfStale : BOOLEAN, throwOnConflict : BOOLEAN],
           opts.throwOnInvalid \/ Digestible(c), NEW at
    PROVE  LET to == ApplyTipToState(s, c, opts, FALSE, at) IN
           /\ NoneOrLog(to) /\ to.log = Tipwise!ApplyTip(s.log, c, TimeEvents, opts, at)
           /\ CidsOf(to.log) \subseteq CidsOf(s.log) \cup ChainCids(c)
<1> DEFINE hist == s.log
           cids == SyncLogUntilMatch(c, CidsOf(hist))
           new == VerifyAnchors(cids, TimeEvents)
           strict == opts.throwOnInvalid
           fork == IndexOf(hist, Prev[new[1].cid])
           local == SubSeq(hist, fork + 1, Len(hist))
           shared == ResetState(s, hist[fork].cid, FALSE, at)
           sharedLog == Tipwise!ResetToCommit(hist, hist[fork].cid, FALSE, at)
           onS == ApplyCommits(s, new, strict, FALSE, at)
           onShared == ApplyCommits(shared, new, strict, FALSE, at)
           applied ==
               CASE new = <<>> -> s
                 [] new # <<>> /\ local = <<>> -> onS
                 [] new # <<>> /\ local # <<>> /\ opts.throwIfStale -> Nothing
                 [] new # <<>> /\ local # <<>> /\ ~opts.throwIfStale ->
                       IF PicksFirst(local, new)
                       THEN IF opts.throwOnConflict THEN Nothing ELSE s
                       ELSE IF shared = Nothing THEN Nothing
                       ELSE onShared
           appliedLog ==
               CASE new = <<>> -> hist
                 [] new # <<>> /\ local = <<>> -> Tipwise!ApplyLog(hist, new, strict, at)
                 [] new # <<>> /\ local # <<>> /\ opts.throwIfStale -> <<>>
                 [] new # <<>> /\ local # <<>> /\ ~opts.throwIfStale ->
                       IF PicksFirst(local, new)
                       THEN IF opts.throwOnConflict THEN <<>> ELSE hist
                       ELSE IF sharedLog = <<>> THEN <<>>
                       ELSE Tipwise!ApplyLog(sharedLog, new, strict, at)
<1>1. ApplyTipToState(s, c, opts, FALSE, at) = IF Usable(applied.log, at) THEN applied ELSE Nothing
  BY DEF ApplyTipToState, ApplyToState
<1>2. Tipwise!ApplyTip(hist, c, TimeEvents, opts, at) = IF Usable(appliedLog, at) THEN appliedLog ELSE <<>>
  <2>1. Tipwise!ApplyTip(hist, c, TimeEvents, opts, at) = Tipwise!ApplyLogToState(hist, new, opts, at)
    BY TipwiseAlike DEF Tipwise!ApplyTip
  <2> HIDE DEF new
  <2>2. Tipwise!ApplyWithoutCacaoVerification(hist, new, opts, at) = appliedLog
    BY TipwiseAlike, NothingTipwise DEF Tipwise!ApplyWithoutCacaoVerification
  <2> HIDE DEF appliedLog
  <2> QED  BY <2>1, <2>2, TipwiseAlike, NothingTipwise DEF Tipwise!ApplyLogToState
<1>3. Tips!GoodLog(hist) /\ NoneOrLog(s)
  BY DEF LogState, NoneOrLog
<1>4. /\ new \in Tips!NewLog
      /\ \A i \in 1..Len(new) : new[i].cid \in ChainCids(c)
      /\ new # <<>> => Prev[new[1].cid] \in CidsOf(hist)
  BY <1>3, FetchedFromTheLog
<1>5. cids \in Seq(Commit) /\ InOrder(cids)
  BY <1>3, RestInOrder
<1> HIDE DEF cids
<1>6. Fetched(new, cids)
  BY <1>5, VerifiedIsFetched
<1> HIDE DEF new
<1>7. /\ Len(new) = Len(cids) /\ Tips!Undated(new) /\ (new # <<>> <=> cids # <<>>)
      /\ \A i \in 1..Len(new) : new[i].cid = cids[i] /\ new[i].ok
      /\ cids # <<>> => cids[1] = new[1].cid
  <2>1. new \in Seq(Tips!NewEntry)
    BY <1>4 DEF Tips!NewLog
  <2>2. Len(new) = Len(cids) /\ (new # <<>> <=> Len(new) > 0) /\ (cids # <<>> <=> Len(cids) > 0)
    BY <1>5, <1>6, <2>1 DEF Fetched
  <2>3. Len(cids) > 0 => 1 \in 1..Len(cids)
    BY <1>5
  <2> QED  BY <1>6, <2>2, <2>3 DEF Fetched
<1>8. ASSUME new # <<>>
      PROVE  fork \in 1..Len(hist) /\ hist[fork].cid = Prev[new[1].cid] /\ hist[fork].cid \in CidsOf(hist)
  BY <1>3, <1>4, <1>8, FetchedAgain
<1>9. ~strict /\ setting.handler # "mid" => \A i \in 1..Len(cids) : cids[i] \in Refused => cids[i] = Genesis
  BY <1>4, <1>7, ChainIsPalatable DEF Digestible
<1>10. ASSUME NEW held, held # <<>>, new # <<>> => Tip(held) = Prev[new[1].cid] /\ Tip(held) \in Commit
       PROVE  Followed(held, new, strict, at)
  <2>1. setting.handler = "caip10" /\ ~strict =>
           \A i \in 1..Len(new) : Passes(held, new, i, at) \/ (i = 1 /\ held = <<>>)
    BY <1>5, <1>6, <1>7, <1>9, <1>10, AllPass DEF Comparable
  <2> QED  BY <1>7, <1>9, <2>1 DEF Followed
<1>11. strict \in BOOLEAN /\ opts.throwIfStale \in BOOLEAN /\ opts.throwOnConflict \in BOOLEAN
  OBVIOUS
<1>12. s # Nothing /\ hist # <<>> /\ Len(hist) \in Nat /\ CidsOf(hist) \subseteq Commit /\ hist \in Seq(Entry)
       /\ Tip(hist) = hist[Len(hist)].cid
  BY LogStateHolds
<1>13. ASSUME new # <<>>, local = <<>> PROVE Tip(hist) = Prev[new[1].cid] /\ Tip(hist) \in Commit
  <2>1. fork \in 1..Len(hist)
    BY <1>8, <1>13
  <2>2. fork < Len(hist) => Len(local) > 0
    <3> HIDE DEF fork, hist
    <3> QED  BY <1>12, <2>1
  <2>3. Len(local) = 0
    <3> HIDE DEF local
    <3> QED  BY <1>13
  <2>4. fork = Len(hist)
    <3> HIDE DEF fork, hist, local
    <3> QED  BY <1>12, <2>1, <2>2, <2>3
  <2> QED  BY <1>8, <1>12, <1>13, <2>4
<1>14. ASSUME new # <<>>, local = <<>>
       PROVE  /\ NoneOrLog(onS) /\ onS.log = Tipwise!ApplyLog(hist, new, strict, at)
              /\ CidsOf(onS.log) \subseteq CidsOf(hist) \cup ChainCids(c)
  <2>1. Followed(hist, new, strict, at)
    BY <1>10, <1>12, <1>13, <1>14
  <2>2. /\ NoneOrLog(onS) /\ onS.log = Tipwise!ApplyLog(s.log, new, strict, at)
        /\ CidsOf(onS.log) \subseteq CidsOf(s.log) \cup {new[i].cid : i \in 1..Len(new)}
    <3>1. new \in Tips!NewLog /\ \A i \in 1..Len(new) : new[i].ok
      BY <1>4, <1>7
    <3>2. AppliedAsTips(s, new, strict, at)
      <4>1. /\ Followed(s.log, new, TRUE, at) => AppliedAsTips(s, new, TRUE, at)
            /\ Followed(s.log, new, FALSE, at) => AppliedAsTips(s, new, FALSE, at)
        BY <3>1, AppliedToState
      <4> HIDE DEF strict
      <4>2. CASE strict = TRUE
        BY <2>1, <4>1, <4>2
      <4>3. CASE strict = FALSE
        BY <2>1, <4>1, <4>3
      <4> QED  BY <1>11, <4>2, <4>3
    <3> QED  BY <3>2 DEF AppliedAsTips
  <2> HIDE DEF onS
  <2> QED  BY <1>4, <2>2
<1>15. ASSUME new # <<>>
       PROVE  /\ NoneOrLog(shared) /\ shared.log = sharedLog /\ (shared = Nothing <=> sharedLog = <<>>)
              /\ CidsOf(shared.log) \subseteq CidsOf(hist)
              /\ shared # Nothing => Tip(shared.log) = hist[fork].cid
  <2>1. hist[fork].cid \in CidsOf(s.log)
    BY <1>8, <1>15
  <2>2. /\ NoneOrLog(shared) /\ shared.log = Tipwise!ResetToCommit(s.log, hist[fork].cid, FALSE, at)
        /\ CidsOf(shared.log) \subseteq CidsOf(s.log)
        /\ shared # Nothing => Tip(shared.log) = hist[fork].cid
    BY <2>1, ResetTipwise
  <2> HIDE DEF shared
  <2> QED  BY <2>2, NothingTipwise
<1> HIDE DEF shared, sharedLog
<1>16. ASSUME new # <<>>, shared # Nothing
       PROVE  /\ NoneOrLog(onShared) /\ onShared.log = Tipwise!ApplyLog(sharedLog, new, strict, at)
              /\ CidsOf(onShared.log) \subseteq CidsOf(hist) \cup ChainCids(c)
  <2>1. Tip(shared.log) = Prev[new[1].cid] /\ Tip(shared.log) \in Commit /\ shared.log # <<>>
    BY <1>8, <1>12, <1>15, <1>16
  <2>2. Followed(shared.log, new, strict, at)
    BY <1>10, <2>1
  <2>3. /\ NoneOrLog(onShared) /\ onShared.log = Tipwise!ApplyLog(shared.log, new, strict, at)
        /\ CidsOf(onShared.log) \subseteq CidsOf(shared.log) \cup {new[i].cid : i \in 1..Len(new)}
    <3>1. LogState(shared) /\ strict \in BOOLEAN
      BY <1>11, <1>15, <1>16 DEF NoneOrLog
    <3>2. new \in Tips!NewLog /\ \A i \in 1..Len(new) : new[i].ok
      BY <1>4, <1>7
    <3>3. AppliedAsTips(shared, new, strict, at)
      <4>1. /\ Followed(shared.log, new, TRUE, at) => AppliedAsTips(shared, new, TRUE, at)
            /\ Followed(shared.log, new, FALSE, at) => AppliedAsTips(shared, new, FALSE, at)
        BY <3>1, <3>2, AppliedToState
      <4> HIDE DEF strict
      <4>2. CASE strict = TRUE
        BY <2>2, <4>1, <4>2
      <4>3. CASE strict = FALSE
        BY <2>2, <4>1, <4>3
      <4> QED  BY <1>11, <4>2, <4>3
    <3> QED  BY <3>3 DEF AppliedAsTips
  <2> HIDE DEF onShared
  <2> QED  BY <1>4, <1>15, <1>16, <2>3
<1> HIDE DEF onS, onShared, local, fork, hist, strict
<1>17. /\ NoneOrLog(applied) /\ applied.log = appliedLog
       /\ CidsOf(applied.log) \subseteq CidsOf(hist) \cup ChainCids(c)
  <2>1. NoneOrLog(s) /\ NoneOrLog(Nothing) /\ s.log = hist /\ Nothing.log = <<>> /\ CidsOf(Nothing.log) = {}
    BY <1>3, NothingTipwise DEF hist
  <2>2. CASE new = <<>>
    <3>1. applied = s /\ appliedLog = hist
      BY <2>2
    <3> HIDE DEF applied, appliedLog
    <3> QED  BY <2>1, <3>1
  <2>3. CASE new # <<>> /\ local = <<>>
    <3>1. applied = onS /\ appliedLog = Tipwise!ApplyLog(hist, new, strict, at)
      BY <2>3
    <3> HIDE DEF applied, appliedLog
    <3> QED  BY <1>14, <2>3, <3>1
  <2>4. CASE new # <<>> /\ local # <<>> /\ opts.throwIfStale
    <3>1. applied = Nothing /\ appliedLog = <<>>
      BY <2>4
    <3> HIDE DEF applied, appliedLog
    <3> QED  BY <2>1, <3>1
  <2>5. CASE new # <<>> /\ local # <<>> /\ ~opts.throwIfStale
    <3>1. applied = IF PicksFirst(local, new)
                    THEN IF opts.throwOnConflict THEN Nothing ELSE s
                    ELSE IF shared = Nothing THEN Nothing
                    ELSE onShared
      BY <2>5
    <3>2. appliedLog = IF PicksFirst(local, new)
                       THEN IF opts.throwOnConflict THEN <<>> ELSE hist
                       ELSE IF sharedLog = <<>> THEN <<>>
                       ELSE Tipwise!ApplyLog(sharedLog, new, strict, at)
      BY <2>5
    <3> HIDE DEF applied, appliedLog
    <3>3. \/ applied = Nothing /\ appliedLog = <<>>
          \/ applied = s /\ appliedLog = hist
          \/ shared # Nothing /\ applied = onShared /\ appliedLog = Tipwise!ApplyLog(sharedLog, new, strict, at)
      <4>1. shared = Nothing <=> sharedLog = <<>>
        BY <1>15, <2>5
      <4> QED  BY <3>1, <3>2, <4>1, Zenon
    <3> QED  BY <1>16, <2>1, <2>5, <3>3
  <2> QED  BY <1>11, <2>2, <2>3, <2>4, <2>5
<1> HIDE DEF applied, appliedLog
<1>18. CidsOf(Nothing.log) = {} /\ NoneOrLog(Nothing) /\ Nothing.log = <<>>
  BY NothingTipwise
<1> QED  BY <1>1, <1>2, <1>17, <1>18 DEF hist

-----------------------------------------------------------------------------
(* What the nodes hold, offer and build on can be fetched, while they hold *)
(* logs of the kind that TipSync's nodes hold.                             *)
LogsAreStored ==
    Comparable =>
        /\ state = [n \in Node |-> state[n]]
        /\ \A n \in Node : NoneOrLog(state[n]) /\ CidsOf(state[n].log) \subseteq stored
        /\ Genesis \in stored /\ stored \subseteq Commit /\ offered \subseteq stored
        /\ \A c \in stored : ChainCids(c) \subseteq stored

HandlersInv == StatesFollow /\ LogsAreStored

LEMMA ChainsGrow ==
    /\ ChainCids(Genesis) \subseteq {Genesis}
    /\ \A c \in Commit : c \in ChainCids(c) /\ ChainCids(c) \subseteq ChainCids(Prev[c]) \cup {c}
<1>1. ASSUME NEW c \in Commit
      PROVE  c \in ChainCids(c) /\ ChainCids(c) \subseteq ChainCids(Prev[c]) \cup {c}
  <2>1. ChainTo[c] = Append(ChainTo[Prev[c]], c) /\ ChainTo[Prev[c]] \in Seq(Commit)
    BY Chains
  <2> QED  BY <2>1 DEF ChainCids
<1>2. ChainCids(NoCommit) = {}
  BY Chains DEF ChainCids
<1>3. Genesis \in Commit /\ Prev[Genesis] = NoCommit
  BY ForestAssumption
<1> QED  BY <1>1, <1>2, <1>3

LEMMA HandlersInit ==
    InitHandlers => HandlersInv /\ (Comparable => Tipwise!Init)
<1> SUFFICES ASSUME InitHandlers PROVE HandlersInv /\ Tipwise!Init
  OBVIOUS
<1>1. setting \in AllSettings
  BY HandlerAssumption DEF InitHandlers
<1>2. /\ state = [n \in Node |-> Nothing] /\ offered = {Genesis} /\ stored = {Genesis}
      /\ seen = [n \in Node |-> {}] /\ now = 1
  BY DEF InitHandlers
<1>3. \A n \in Node : NoneOrGood(state[n]) /\ NoneOrLog(state[n])
  BY <1>2 DEF NoneOrGood, NoneOrLog
<1>4. Genesis \in Commit /\ Genesis \in Clean /\ ChainCids(Genesis) \subseteq {Genesis}
  BY ChainsGrow, CleanGrows, ForestAssumption
<1>5. StatesFollow
  BY <1>1, <1>2, <1>3, <1>4 DEF StatesFollow
<1>6. \A n \in Node : state[n].log = <<>> /\ CidsOf(state[n].log) = {}
  BY <1>2, NothingTipwise
<1>7. LogsAreStored
  BY <1>2, <1>3, <1>4, <1>6 DEF LogsAreStored
<1>8. [n \in Node |-> state[n].log] = [n \in Node |-> <<>>]
  BY <1>6
<1> QED  BY <1>2, <1>5, <1>7, <1>8 DEF HandlersInv, Tipwise!Init

LEMMA LogSettingStays ==
    ASSUME setting' = setting
    PROVE  /\ Comparable' = Comparable
           /\ \A n \in Node : NoneOrLog(state'[n]) => NoneOrLog(state[n])'
<1>1. Comparable' = Comparable
  BY DEF Comparable
<1>2. ASSUME NEW n \in Node, NoneOrLog(state'[n]) PROVE NoneOrLog(state[n])'
  BY <1>2 DEF NoneOrLog, LogState, IsState
<1> QED  BY <1>1, <1>2

(* The new state of a node, here and in TipSync.                           *)
LEMMA BecomeTipwise ==
    ASSUME LogsAreStored, Comparable, setting' = setting, NEW n \in Node, NEW tip,
           NEW result, NoneOrLog(result), NEW also, Become(n, tip, result, also),
           CidsOf(result.log) \subseteq stored', also \subseteq stored',
           stored \subseteq stored', stored' \subseteq Commit,
           \A c \in stored' : ChainCids(c) \subseteq stored'
    PROVE  /\ Tipwise!Become(n, tip, result.log)
           /\ LogsAreStored'
<1>1. /\ state = [m \in Node |-> state[m]] /\ Genesis \in stored /\ offered \subseteq stored
      /\ \A m \in Node : NoneOrLog(state[m]) /\ CidsOf(state[m].log) \subseteq stored
  BY DEF LogsAreStored
<1>2. result = Nothing <=> result.log = Tipwise!Thrown
  BY NothingTipwise
<1>3. /\ state' = [m \in Node |-> state'[m]] /\ Genesis \in stored'
      /\ \A m \in Node : NoneOrLog(state'[m]) /\ CidsOf(state'[m].log) \subseteq stored'
  BY <1>1 DEF Become
<1>4. result # Nothing => Tip(result.log) \in stored'
  BY LogStateHolds DEF NoneOrLog
<1>5. offered' \subseteq stored'
  BY <1>1, <1>4 DEF Become
<1>6. \A m \in Node : CidsOf(state'[m].log) = CidsOf(state[m].log)'
  BY DEF CidsOf
<1>7. \A c \in stored' : ChainCids(c)' \subseteq stored'
  BY DEF ChainCids
<1>8. LogsAreStored'
  BY <1>3, <1>5, <1>6, <1>7, LogSettingStays DEF LogsAreStored
<1>9. CASE result = Nothing
  <2>1. state' = state /\ seen' = seen
    BY <1>9 DEF Become
  <2> QED  BY <1>2, <1>8, <1>9, <2>1 DEF Tipwise!Become
<1>10. CASE result # Nothing
  <2>1. state' = [state EXCEPT ![n] = result] /\ seen' = [seen EXCEPT ![n] = @ \cup {tip}]
    BY <1>10 DEF Become
  <2>2. [m \in Node |-> state'[m].log] = [[m \in Node |-> state[m].log] EXCEPT ![n] = result.log]
    BY <1>1, <2>1
  <2> QED  BY <1>2, <1>8, <1>10, <2>1, <2>2 DEF Tipwise!Become
<1> QED  BY <1>9, <1>10

LEMMA HandlersSimulate ==
    ASSUME HandlersInv, Comparable, [NextHandlers]_handlerVars
    PROVE  LogsAreStored' /\ [Tipwise!Next]_(Tipwise!vars)
<1>1. setting' = setting /\ setting \in AllSettings
  BY DEF NextHandlers, LoadStream, HandleTip, ApplyUserCommit, PublishAnchor, Tick, handlerVars,
         HandlersInv, StatesFollow
<1>2. /\ state = [n \in Node |-> state[n]] /\ stored \subseteq Commit /\ Genesis \in stored
      /\ offered \subseteq stored
      /\ \A n \in Node : NoneOrLog(state[n]) /\ CidsOf(state[n].log) \subseteq stored
      /\ \A c \in stored : ChainCids(c) \subseteq stored
  BY DEF HandlersInv, LogsAreStored
<1>3. \A c \in offered : c \in Commit /\ Digestible(c)
  <2>1. setting.handler # "mid" => ~Exposed /\ Spared
    BY DEF Comparable, Exposed, Spared
  <2>2. setting.handler # "mid" => offered \subseteq Clean
    BY <2>1 DEF HandlersInv, StatesFollow
  <2> QED  BY <1>2, <2>2 DEF Digestible
<1>4. \A miss \in Misses : miss = FALSE
  BY DEF Misses, Comparable
<1>5. TimeEvents \in Tipwise!Outcomes
  BY DEF Tipwise!Outcomes
<1>6. \A n \in Node : Holds(n) <=> Tipwise!Loaded(n)
  <2> SUFFICES ASSUME NEW n \in Node PROVE Holds(n) <=> Tipwise!Loaded(n)
    OBVIOUS
  <2>1. [m \in Node |-> state[m].log][n] = state[n].log
    OBVIOUS
  <2> QED  BY <1>2, <2>1, NothingTipwise DEF Holds, Tipwise!Loaded
<1>7. ASSUME NEW n \in Node, NEW c \in Commit, NEW miss \in Misses, LoadStream(n, c, miss)
      PROVE  LogsAreStored' /\ Tipwise!LoadStream(n, c, TimeEvents)
  <2> DEFINE to == LoadState(c, FALSE, now)
  <2>1. ~Holds(n) /\ c \in offered /\ Become(n, c, to, {}) /\ stored' = stored /\ now' = now
    BY <1>4, <1>7 DEF LoadStream
  <2>2. /\ NoneOrLog(to) /\ to.log = Tipwise!LoadStateFromTip(c, TimeEvents, FALSE, now)
        /\ CidsOf(to.log) \subseteq ChainCids(c) \cup {Genesis}
    BY <1>1, <1>3, <2>1, LoadTipwise
  <2> HIDE DEF to
  <2>3. CidsOf(to.log) \subseteq stored'
    BY <1>2, <2>1, <2>2
  <2>4. LogsAreStored' /\ Tipwise!Become(n, c, to.log)
    <3> DEFINE also == {}
    <3>1. Become(n, c, to, also) /\ also \subseteq stored' /\ stored \subseteq stored' /\ stored' \subseteq Commit
          /\ \A d \in stored' : ChainCids(d) \subseteq stored'
      BY <1>2, <2>1
    <3> HIDE DEF also
    <3> QED  BY <1>1, <2>2, <2>3, <3>1, BecomeTipwise DEF HandlersInv, Tipwise!Become
  <2> QED  BY <1>2, <1>6, <2>1, <2>2, <2>4 DEF Tipwise!LoadStream, Tipwise!Become
<1>8. ASSUME NEW n \in Node, NEW c \in Commit, NEW miss \in Misses, HandleTip(n, c, miss)
      PROVE  LogsAreStored' /\ Tipwise!HandleTip(n, c, TimeEvents)
  <2> DEFINE to == ApplyTipToState(state[n], c, NetworkOpts, FALSE, now)
  <2>1. Holds(n) /\ c \in offered /\ Become(n, c, to, {}) /\ stored' = stored /\ now' = now
    BY <1>4, <1>8 DEF HandleTip
  <2>2. LogState(state[n])
    BY <1>2, <2>1 DEF Holds, NoneOrLog
  <2>3. NetworkOpts \in [throwOnInvalid : BOOLEAN, throwIfStale : BOOLEAN, throwOnConflict : BOOLEAN]
        /\ Tipwise!NetworkOpts = NetworkOpts
    BY DEF NetworkOpts, Tipwise!NetworkOpts
  <2>4. /\ NoneOrLog(to) /\ to.log = Tipwise!ApplyTip(state[n].log, c, TimeEvents, NetworkOpts, now)
        /\ CidsOf(to.log) \subseteq CidsOf(state[n].log) \cup ChainCids(c)
    BY <1>1, <1>3, <2>1, <2>2, <2>3, TipTipwise
  <2>5. to.log = Tipwise!ApplyTipFromNetwork([m \in Node |-> state[m].log][n], c, TimeEvents, now)
    BY <2>3, <2>4 DEF Tipwise!ApplyTipFromNetwork
  <2> HIDE DEF to
  <2>6. CidsOf(to.log) \subseteq stored'
    BY <1>2, <2>1, <2>4
  <2>7. LogsAreStored' /\ Tipwise!Become(n, c, to.log)
    <3> DEFINE also == {}
    <3>1. Become(n, c, to, also) /\ also \subseteq stored' /\ stored \subseteq stored' /\ stored' \subseteq Commit
          /\ \A d \in stored' : ChainCids(d) \subseteq stored'
      BY <1>2, <2>1
    <3> HIDE DEF also
    <3> QED  BY <1>1, <2>4, <2>6, <3>1, BecomeTipwise DEF HandlersInv, Tipwise!Become
  <2> QED  BY <1>2, <1>6, <2>1, <2>5, <2>7 DEF Tipwise!HandleTip, Tipwise!Become
<1>9. ASSUME NEW n \in Node, NEW c \in Commit, NEW miss \in Misses, ApplyUserCommit(n, c, miss)
      PROVE  LogsAreStored' /\ Tipwise!ApplyUserCommit(n, c, TimeEvents)
  <2> DEFINE to == ApplyTipToState(state[n], c, UserOpts, FALSE, now)
             also == IF setting.recon THEN {c} ELSE {}
  <2>1. /\ Holds(n) /\ c \notin TimeEvents \cup stored /\ Prev[c] \in CidsOf(state[n].log)
        /\ Become(n, c, to, also) /\ stored' = stored \cup {c} /\ now' = now
    BY <1>4, <1>9 DEF ApplyUserCommit
  <2>2. LogState(state[n])
    BY <1>2, <2>1 DEF Holds, NoneOrLog
  <2>3. UserOpts \in [throwOnInvalid : BOOLEAN, throwIfStale : BOOLEAN, throwOnConflict : BOOLEAN]
        /\ UserOpts.throwOnInvalid /\ Tipwise!UserOpts = UserOpts
    BY DEF UserOpts, Tipwise!UserOpts
  <2>4. /\ NoneOrLog(to) /\ to.log = Tipwise!ApplyTip(state[n].log, c, TimeEvents, UserOpts, now)
        /\ CidsOf(to.log) \subseteq CidsOf(state[n].log) \cup ChainCids(c)
    BY <1>1, <2>1, <2>2, <2>3, TipTipwise
  <2>5. to.log = Tipwise!ApplyCommitFromUser([m \in Node |-> state[m].log][n], c, TimeEvents, now)
    BY <2>3, <2>4 DEF Tipwise!ApplyCommitFromUser
  <2>6. also \subseteq {c}
    OBVIOUS
  <2> HIDE DEF to, also
  <2>7. /\ stored \subseteq stored' /\ stored' \subseteq Commit /\ also \subseteq stored'
        /\ \A d \in stored' : ChainCids(d) \subseteq stored'
    BY <1>2, <2>1, <2>6, ChainsGrow
  <2>8. CidsOf(to.log) \subseteq stored'
    BY <1>2, <2>1, <2>4, <2>7
  <2>9. LogsAreStored' /\ Tipwise!Become(n, c, to.log)
    BY <1>1, <2>1, <2>4, <2>7, <2>8, BecomeTipwise DEF HandlersInv, Tipwise!Become
  <2>10. Prev[c] \in Tipwise!CidsOf([m \in Node |-> state[m].log][n])
    BY <2>1, TipwiseAlike
  <2> QED  BY <1>6, <2>1, <2>5, <2>9, <2>10 DEF Tipwise!ApplyUserCommit, Tipwise!Become
<1>10. ASSUME stored \subseteq stored', stored' \subseteq Commit, offered' \subseteq stored', state' = state,
              \A d \in stored' : ChainCids(d) \subseteq stored'
       PROVE  LogsAreStored'
  <2>1. \A n \in Node : NoneOrLog(state'[n]) /\ CidsOf(state'[n].log) \subseteq stored'
    BY <1>2, <1>10
  <2>2. \A n \in Node : CidsOf(state'[n].log) = CidsOf(state[n].log)'
    BY DEF CidsOf
  <2>3. \A d \in stored' : ChainCids(d)' \subseteq stored'
    BY <1>10 DEF ChainCids
  <2> QED  BY <1>1, <1>2, <1>10, <2>1, <2>2, <2>3, LogSettingStays DEF LogsAreStored
<1>11. ASSUME NEW a \in Commit, PublishAnchor(a)
       PROVE  LogsAreStored' /\ Tipwise!PublishAnchor(a)
  <2>1. /\ a \in TimeEvents \ stored /\ Prev[a] \in offered /\ AnchorTime[a] = now
        /\ stored' = stored \cup {a} /\ offered' = offered \cup {a} /\ UNCHANGED <<state, seen, now>>
    BY <1>11 DEF PublishAnchor
  <2>2. \A d \in stored' : ChainCids(d) \subseteq stored'
    BY <1>2, <2>1, ChainsGrow
  <2>3. LogsAreStored'
    BY <1>2, <1>10, <2>1, <2>2
  <2> QED  BY <1>2, <2>1, <2>3 DEF Tipwise!PublishAnchor
<1>12. CASE Tick
  <2>1. LogsAreStored'
    BY <1>2, <1>10, <1>12 DEF Tick
  <2> QED  BY <1>12, <2>1 DEF Tick, Tipwise!Tick, Tipwise!Next
<1>13. CASE UNCHANGED handlerVars
  <2>1. LogsAreStored'
    BY <1>2, <1>10, <1>13 DEF handlerVars
  <2> QED  BY <1>13, <2>1 DEF handlerVars, Tipwise!vars
<1> QED  BY <1>5, <1>7, <1>8, <1>9, <1>11, <1>12, <1>13 DEF NextHandlers, Tipwise!Next

(* For the handlers of the three stream types, and any number of nodes and *)
(* commits: loading, following tips and writing do to the logs what        *)
(* TipSync, which knows verdicts only, says of them, where what a handler  *)
(* refuses is one more commit that is not valid.                           *)
THEOREM HandlersImplementTipSync == SpecHandlers => ImplementsTipSync
<1> DEFINE StepIsAbstract == Comparable => Tipwise!Next
<1>1. InitHandlers => HandlersInv /\ (Comparable => Tipwise!Init)
  BY HandlersInit
<1>2. HandlersInv /\ [NextHandlers]_handlerVars => HandlersInv'
  <2> SUFFICES ASSUME HandlersInv, [NextHandlers]_handlerVars PROVE HandlersInv'
    OBVIOUS
  <2>1. StatesFollow'
    BY StatesFollowNext DEF HandlersInv
  <2>2. setting' = setting
    BY DEF NextHandlers, LoadStream, HandleTip, ApplyUserCommit, PublishAnchor, Tick, handlerVars
  <2>3. CASE Comparable
    BY <2>1, <2>3, HandlersSimulate DEF HandlersInv
  <2>4. CASE ~Comparable
    BY <2>1, <2>2, <2>4, LogSettingStays DEF HandlersInv, LogsAreStored
  <2> QED  BY <2>3, <2>4
<1>3. HandlersInv /\ [NextHandlers]_handlerVars => [StepIsAbstract]_(Tipwise!vars)
  BY HandlersSimulate
<1> HIDE DEF StepIsAbstract
<1> QED  BY <1>1, <1>2, <1>3, PTL DEF SpecHandlers, ImplementsTipSync, StepIsAbstract
=============================================================================
