------------------------ MODULE AnchorRequestsProofs ------------------------
(* The store of anchor requests never forgets one that was not answered,   *)
(* for any stream, any other nodes and any number of crashes.              *)
EXTENDS AnchorRequests, TLAPS

IsAnswered(c) == \E status \in Terminal : <<c, status>> \in answered

(* The loop's state has its three fields.                                  *)
PollerShape == poller = [at |-> poller.at, entry |-> poller.entry, event |-> poller.event]

(* Why RequestRemembered is inductive: the loop removes an entry only in   *)
(* the state "terminal", which it enters with an answer for that commit.   *)
RememberedInv ==
    /\ PollerShape
    /\ request = latest \/ (request = NoRequest /\ IsAnswered(latest.cid))
    /\ poller.at = "terminal" => IsAnswered(poller.entry.cid)

(* Steps that leave the loop, the store and the answers alone.             *)
LEMMA ElsewhereKeeps ==
    ASSUME RememberedInv, UNCHANGED <<poller, request, latest, answered>>
    PROVE  RememberedInv'
BY DEF RememberedInv, IsAnswered, PollerShape

(* Steps of the loop that neither answer nor remove: it does not enter     *)
(* "terminal".                                                             *)
LEMMA PollingKeeps ==
    ASSUME RememberedInv, UNCHANGED <<request, latest, answered>>,
           PollerShape', poller'.at # "terminal"
    PROVE  RememberedInv'
BY DEF RememberedInv, IsAnswered

(* Steps that handle a terminal event.                                     *)
LEMMA SettledKeeps ==
    ASSUME RememberedInv, UNCHANGED <<request, latest>>,
           NEW status \in Terminal, Answer(status), Settled
    PROVE  RememberedInv'
<1>1. poller' = [at |-> "terminal", entry |-> poller.entry, event |-> poller.event]
  BY DEF RememberedInv, PollerShape, Settled
<1>2. poller'.entry = poller.entry /\ poller.event = status
  BY <1>1 DEF Answer
<1>3. <<poller.entry.cid, status>> \in answered' /\ answered \subseteq answered'
  BY <1>2 DEF Settled
<1>4. IsAnswered(poller.entry.cid)'
  BY <1>2, <1>3 DEF IsAnswered
<1>5. \A c : IsAnswered(c) => IsAnswered(c)'
  BY <1>3 DEF IsAnswered
<1> QED
  BY <1>1, <1>4, <1>5 DEF RememberedInv, PollerShape

(* Saving a request (anchor-request-store save) makes it remembered; the   *)
(* requests of other commits are not touched.                              *)
LEMMA SaveRequestKeeps ==
    ASSUME RememberedInv, SaveRequest
    PROVE  RememberedInv'
<1>1. request' = latest' /\ UNCHANGED <<poller, answered>>
  BY DEF SaveRequest, loopVars
<1> QED
  BY <1>1 DEF RememberedInv, IsAnswered, PollerShape

(* The compare-and-swap: what is removed has just been answered.           *)
LEMMA LoopRemovesKeeps ==
    ASSUME RememberedInv, LoopRemoves
    PROVE  RememberedInv'
<1>1. poller' = Idle /\ UNCHANGED <<answered, latest>> /\ IsAnswered(poller.entry.cid)
  BY DEF LoopRemoves, RememberedInv
<1>2. request' = latest' \/ (request' = NoRequest /\ IsAnswered(latest.cid))
  <2>1. CASE request # NoRequest /\ request.cid = poller.entry.cid
    BY <1>1, <2>1 DEF LoopRemoves, RememberedInv
  <2>2. CASE ~(request # NoRequest /\ request.cid = poller.entry.cid)
    BY <1>1, <2>2 DEF LoopRemoves, RememberedInv
  <2> QED
    BY <2>1, <2>2
<1> QED
  BY <1>1, <1>2 DEF RememberedInv, IsAnswered, PollerShape, Idle

-----------------------------------------------------------------------------
(* Nothing has been requested at the start.                                *)
LEMMA RememberedInit == Init => RememberedInv
BY DEF Init, RememberedInv, PollerShape, IsAnswered, Idle

(* Every action preserves the invariant: a third of them do not touch what *)
(* it speaks of, and the loop's own are the five lemmas above.             *)
LEMMA RememberedNext == RememberedInv /\ [Next]_vars => RememberedInv'
<1> SUFFICES ASSUME RememberedInv, [Next]_vars
             PROVE  RememberedInv'
  OBVIOUS
<1>1. ASSUME NEW c \in Commit, WriteCommit(c) \/ OtherNodeAsks(c) PROVE RememberedInv'
  BY <1>1, ElsewhereKeeps DEF WriteCommit, OtherNodeAsks, storeVars, loopVars
<1>2. ASSUME NEW c \in Commit, NEW valid \in Outcomes, HearOfTip(c, valid) PROVE RememberedInv'
  BY <1>2, ElsewhereKeeps DEF HearOfTip, storeVars, loopVars
<1>3. ASSUME SaveStatus \/ AskForWrite \/ AskThroughApi PROVE RememberedInv'
  BY <1>3, ElsewhereKeeps DEF SaveStatus, AskForWrite, AskThroughApi, storeVars, loopVars
<1>4. CASE SaveRequest
  BY <1>4, SaveRequestKeeps
<1>5. ASSUME NEW r \in posts, PostArrives(r) \/ PostIsLost(r) PROVE RememberedInv'
  BY <1>5, ElsewhereKeeps DEF PostArrives, PostIsLost, storeVars, loopVars
<1>6. ASSUME CasStep PROVE RememberedInv'
  BY <1>6, ElsewhereKeeps DEF CasStep, CasStarts, CasFails, CasCompletes, CasMoves, storeVars, loopVars
<1>7. ASSUME LoopLoads \/ LoopGetsError \/ LoopFailsToCreate \/ LoopHandlesOpen
             \/ LoopGetsStatus \/ LoopCreates \/ LoopCannotApplyAnchor
      PROVE  RememberedInv'
  <2>1. UNCHANGED <<request, latest, answered>>
    BY <1>7 DEF LoopLoads, LoopGetsError, LoopFailsToCreate, LoopHandlesOpen, LoopGetsStatus,
                LoopCreates, LoopCannotApplyAnchor, storeVars
  <2>2. \/ poller' = Idle
        \/ poller' = [at |-> "loaded", entry |-> request, event |-> "NONE"]
        \/ poller' = [poller EXCEPT !.at = "creating"]
        \/ \E event : poller' = [poller EXCEPT !.at = "answered", !.event = event]
    BY <1>7 DEF LoopLoads, LoopGetsError, LoopFailsToCreate, LoopHandlesOpen, LoopGetsStatus,
                LoopCreates, LoopCannotApplyAnchor
  <2>3. \E at, entry, event :
            at # "terminal" /\ poller' = [at |-> at, entry |-> entry, event |-> event]
    BY <2>2 DEF RememberedInv, PollerShape, Idle
  <2>4. PollerShape' /\ poller'.at # "terminal"
    BY <2>3 DEF PollerShape
  <2> QED
    BY <2>1, <2>4, PollingKeeps
<1>8. ASSUME LoopHandlesFailed PROVE RememberedInv'
  BY <1>8, SettledKeeps DEF LoopHandlesFailed, storeVars, Terminal
<1>9. ASSUME LoopHandlesReplaced PROVE RememberedInv'
  BY <1>9, SettledKeeps DEF LoopHandlesReplaced, storeVars, Terminal
<1>10. ASSUME NEW valid \in Outcomes, LoopAppliesAnchor(valid) PROVE RememberedInv'
  BY <1>10, SettledKeeps DEF LoopAppliesAnchor, storeVars, Terminal
<1>11. CASE LoopRemoves
  BY <1>11, LoopRemovesKeeps
<1>12. CASE Crash
  <2>1. UNCHANGED <<request, latest, answered>> /\ PollerShape' /\ poller'.at # "terminal"
    BY <1>12 DEF Crash, PollerShape, Idle
  <2> QED
    BY <2>1, PollingKeeps
<1>13. CASE UNCHANGED vars
  BY <1>13, ElsewhereKeeps DEF vars, storeVars, loopVars
<1> QED
  BY <1>1, <1>2, <1>3, <1>4, <1>5, <1>6, <1>7, <1>8, <1>9, <1>10, <1>11, <1>12, <1>13
     DEF Next, LoopStep

(* The store holds the last request until it was answered, for every       *)
(* stream and every interleaving of writes, polls, answers and crashes.    *)
THEOREM RequestsAreRemembered == Spec => []RequestRemembered
<1>1. Init => RememberedInv
  BY RememberedInit
<1>2. RememberedInv /\ [Next]_vars => RememberedInv'
  BY RememberedNext
<1>3. RememberedInv => RequestRemembered
  BY DEF RememberedInv, RequestRemembered, IsAnswered
<1> QED
  BY <1>1, <1>2, <1>3, PTL DEF Spec
-----------------------------------------------------------------------------
(* What TipSyncProofs knows of the operators of StreamLog.                 *)
Tips == INSTANCE TipSyncProofs WITH
            Node <- {}, Flaky <- {}, MaxNow <- 1, log <- <<>>, stored <- {}, seen <- <<>>, now <- 1

Good(hist) == Tips!GoodLog(hist)
Anchored(hist, a) == \E b \in TimeEvents : b \in CidsOf(hist) /\ AnchorTime[b] =< AnchorTime[a]

LEMMA AppliesAlike ==
    ASSUME NEW hist, NEW c, NEW valid, NEW opts, NEW time
    PROVE  ApplyTip(hist, c, valid, opts, time) = Tips!ApplyTip(hist, c, valid, opts, time)
<1>1. ChainTo = Tips!ChainTo
  BY DEF ChainTo, Tips!ChainTo
<1>2. \A cids : VerifyAnchors(cids, valid) = Tips!VerifyAnchors(cids, valid)
  BY DEF VerifyAnchors, Tips!VerifyAnchors, Min, Tips!Min, NoTime, Tips!NoTime
<1>3. CidsOf(hist) = Tips!CidsOf(hist)
  BY DEF CidsOf, Tips!CidsOf
<1>4. \A known : SyncLogUntilMatch(c, known) = Tips!SyncLogUntilMatch(c, known)
  BY <1>1 DEF SyncLogUntilMatch, Tips!SyncLogUntilMatch, Max, Tips!Max
<1>5. \A h, new, strict : ApplyLog(h, new, strict, time) = Tips!ApplyLog(h, new, strict, time)
  BY DEF ApplyLog, Tips!ApplyLog, Min, Tips!Min, Max, Tips!Max, Thrown, Tips!Thrown,
         Accepts, Tips!Accepts, Expired, Tips!Expired, NoTime, Tips!NoTime,
         Settle, Tips!Settle, Tip, Tips!Tip, Last, Tips!Last
<1>6. \A d : SyncFullLog(d) = Tips!SyncFullLog(d)
  BY <1>1 DEF SyncFullLog, Tips!SyncFullLog
<1>7. \A d : TrustedLog(hist, d, FALSE) = Tips!TrustedLog(hist, d, FALSE)
  BY <1>6 DEF TrustedLog, Tips!TrustedLog, CopyTrustedTimestamps, Tips!CopyTrustedTimestamps,
              Min, Tips!Min, NoTime, Tips!NoTime
<1>8. \A d : ResetToCommit(hist, d, FALSE, time) = Tips!ResetToCommit(hist, d, FALSE, time)
  BY <1>3, <1>5, <1>7 DEF ResetToCommit, Tips!ResetToCommit, Thrown, Tips!Thrown
<1>9. \A d : IndexOf(hist, d) = Tips!IndexOf(hist, d)
  BY DEF IndexOf, Tips!IndexOf, SelectInSeq, Tips!SelectInSeq, Min, Tips!Min
<1>10. \A one, two : PicksFirst(one, two) = Tips!PicksFirst(one, two)
  BY DEF PicksFirst, Tips!PicksFirst, AnchoredBefore, Tips!AnchoredBefore,
         FirstAnchor, Tips!FirstAnchor, SelectInSeq, Tips!SelectInSeq, Min, Tips!Min,
         LongerOrLowerCid, Tips!LongerOrLowerCid, RelevantLength, Tips!RelevantLength,
         Tip, Tips!Tip, Last, Tips!Last
<1>11. \A new : ApplyWithoutCacaoVerification(hist, new, opts, time)
                    = Tips!ApplyWithoutCacaoVerification(hist, new, opts, time)
  BY <1>5, <1>8, <1>9, <1>10 DEF ApplyWithoutCacaoVerification, Tips!ApplyWithoutCacaoVerification,
                                 Thrown, Tips!Thrown
<1>12. \A h : Usable(h, time) = Tips!Usable(h, time)
  BY DEF Usable, Tips!Usable, Expired, Tips!Expired, NoTime, Tips!NoTime
<1>13. \A new : ApplyLogToState(hist, new, opts, time) = Tips!ApplyLogToState(hist, new, opts, time)
  BY <1>11, <1>12 DEF ApplyLogToState, Tips!ApplyLogToState, Thrown, Tips!Thrown
<1> QED  BY <1>2, <1>3, <1>4, <1>13 DEF ApplyTip, Tips!ApplyTip
LEMMA ClockIsPositive == 1 \in Nat \ {0}
OBVIOUS

(* The log a stream begins with is good.                                   *)
LEMMA FirstLogIsGood ==
    ASSUME Genesis \notin Invalid
    PROVE  Good(<<[cid |-> Genesis, ts |-> NoTime]>>)
<1> DEFINE hist == <<[cid |-> Genesis, ts |-> NoTime]>>
<1>1. hist \in Seq([cid : Commit, ts : Nat]) /\ Len(hist) = 1 /\ hist[1].cid = Genesis
  BY ForestAssumption DEF NoTime
<1> HIDE DEF hist
<1>2. Genesis \notin TimeEvents
  BY ForestAssumption
<1>3. Tips!Dated(hist)
  BY <1>1, <1>2 DEF Tips!Dated
<1> QED  BY <1>1, <1>2, <1>3 DEF hist, Good, Tips!GoodLog, Tips!Entry

(* Whatever is applied to a good log on whatever terms leaves a good log,  *)
(* or throws.                                                              *)
LEMMA AppliedIsGood ==
    ASSUME NEW hist, Good(hist), NEW c \in Commit, NEW valid, valid \subseteq TimeEvents,
           NEW opts \in {NetworkOpts, UserOpts}, NEW time, ApplyTip(hist, c, valid, opts, time) # Thrown
    PROVE  Good(ApplyTip(hist, c, valid, opts, time))
<1>1. opts \in Tips!Options
  <2>1. CASE opts = NetworkOpts
    BY <2>1 DEF NetworkOpts, Tips!Options
  <2>2. CASE opts = UserOpts
    BY <2>2 DEF UserOpts, Tips!Options
  <2> QED  BY <2>1, <2>2
<1>2. Tips!Held(Tips!ApplyTip(hist, c, valid, opts, time))
  BY <1>1, ClockIsPositive, ForestAssumption, Tips!AppliedTipIsGood, Zenon DEF Good, NoTime, Tips!NoTime
<1> QED  BY <1>2, AppliesAlike DEF Good, Tips!Held, Thrown

-----------------------------------------------------------------------------
(* The type invariant, and that both logs are good.                        *)
TypedInv ==
    /\ TypeOK
    /\ Good(mem.log) /\ Good(disk.log)
    /\ poller.at # "idle" => poller.entry \in Request

LEMMA GoodLogsHaveTips ==
    ASSUME NEW hist, Good(hist)
    PROVE  hist \in Seq(Entry) /\ Tip(hist) \in Commit
<1>1. hist \in Seq(Entry) /\ Len(hist) \in Nat /\ Len(hist) > 0
  BY DEF Good, Tips!GoodLog, Tips!Entry, Entry
<1>2. hist[Len(hist)] \in Entry
  BY <1>1
<1> QED  BY <1>1, <1>2 DEF Entry, Tip, Last

(* Steps that take a new log in and pin it.                                *)
LEMMA NewStatesAreTyped ==
    ASSUME TypedInv, NEW log, Good(log)
    PROVE  /\ StateWith(mem, log) \in State /\ Good(StateWith(mem, log).log)
           /\ Pinned(StateWith(mem, log), disk) \in State /\ Good(Pinned(StateWith(mem, log), disk).log)
<1>1. mem \in State /\ disk \in State /\ Good(mem.log) /\ Good(disk.log)
  BY DEF TypedInv, TypeOK
<1>2. StateWith(mem, log) \in State /\ Good(StateWith(mem, log).log)
  <2>1. CASE log = mem.log
    BY <1>1, <2>1 DEF StateWith
  <2>2. CASE log # mem.log
    BY <2>2, GoodLogsHaveTips DEF StateWith, State, AnchorStatus
  <2> QED  BY <2>1, <2>2
<1> QED  BY <1>1, <1>2 DEF Pinned

LEMMA ReceivedIsTyped ==
    ASSUME TypedInv, NEW r \in Request
    PROVE  Received(r) \in [Commit -> [status : CasStatus, time : Nat]]
<1> DEFINE newer == \E d \in Commit : cas[d].status # "NONE" /\ cas[d].time > r.time
           answer(c) == IF c = r.cid
                        THEN [status |-> IF newer THEN "REPLACED" ELSE "PENDING", time |-> r.time]
                        ELSE IF cas[c].status = "PENDING" /\ cas[c].time < r.time
                        THEN [cas[c] EXCEPT !.status = "REPLACED"]
                        ELSE cas[c]
<1>1. cas \in [Commit -> [status : CasStatus, time : Nat]] /\ r.time \in Nat
  BY DEF TypedInv, TypeOK, Request
<1>2. Received(r) = IF cas[r.cid].status # "NONE" THEN cas ELSE [c \in Commit |-> answer(c)]
  BY DEF Received
<1>3. ASSUME NEW c \in Commit PROVE answer(c) \in [status : CasStatus, time : Nat]
  <2> HIDE DEF newer
  <2>1. cas[c] \in [status : CasStatus, time : Nat]
    BY <1>1
  <2>2. [cas[c] EXCEPT !.status = "REPLACED"] \in [status : CasStatus, time : Nat]
    BY <2>1 DEF CasStatus
  <2> QED  BY <1>1, <2>1, <2>2 DEF CasStatus
<1> HIDE DEF answer
<1> QED  BY <1>1, <1>2, <1>3
LEMMA TypedInit == Genesis \notin Invalid /\ Init => TypedInv
<1> SUFFICES ASSUME Genesis \notin Invalid, Init PROVE TypedInv
  OBVIOUS
<1> DEFINE first == <<[cid |-> Genesis, ts |-> NoTime]>>
<1>1. mem = [log |-> first, status |-> "NOT_REQUESTED"] /\ disk = mem
  BY DEF Init
<1>2. Good(first)
  BY FirstLogIsGood
<1>3. mem \in State /\ disk \in State
  BY <1>1, <1>2, GoodLogsHaveTips DEF State, AnchorStatus
<1>4. cas \in [Commit -> [status : CasStatus, time : Nat]]
  BY DEF Init, CasStatus
<1>5. asking \in Seq([cid : Commit, time : Nat, by : {"write", "api"}])
  BY DEF Init
<1>6. poller \in [at : {"idle", "loaded", "creating", "answered", "terminal"},
                  entry : Request \cup {NoRequest}, event : CasStatus]
  BY DEF Init, Idle, CasStatus
<1>7. poller.at = "idle" /\ Good(mem.log) /\ Good(disk.log)
  BY <1>1, <1>2 DEF Init, Idle
<1> HIDE DEF first
<1> QED  BY <1>3, <1>4, <1>5, <1>6, <1>7 DEF Init, TypedInv, TypeOK

(* Steps of the executionQ and of the requests.                            *)
LEMMA TasksAreTyped ==
    ASSUME TypedInv, UNCHANGED <<poller, answered>>,
           \/ \E c \in Commit : WriteCommit(c)
           \/ \E c \in Commit, valid \in Outcomes : HearOfTip(c, valid)
           \/ SaveStatus \/ AskForWrite \/ AskThroughApi \/ SaveRequest
    PROVE  TypedInv'
<1> USE DEF nodeVars, storeVars, casVars, loopVars, bounds
<1>1. ASSUME NEW c \in Commit, WriteCommit(c) PROVE TypedInv'
  <2> DEFINE applied == ApplyCommitFromUser(mem.log, c, TimeEvents, Now)
  <2>1. Good(applied)
    BY <1>1, AppliedIsGood DEF TypedInv, WriteCommit, ApplyCommitFromUser
  <2>2. mem' = StateWith(mem, applied) /\ disk' = Pinned(StateWith(mem, applied), disk)
    BY <1>1 DEF WriteCommit
  <2> HIDE DEF applied
  <2>3. mem' \in State /\ disk' \in State /\ Good(mem'.log) /\ Good(disk'.log)
    BY <2>1, <2>2, NewStatesAreTyped
  <2> QED  BY <1>1, <2>3 DEF WriteCommit, TypedInv, TypeOK
<1>2. ASSUME NEW c \in Commit, NEW valid \in Outcomes, HearOfTip(c, valid) PROVE TypedInv'
  <2> DEFINE applied == ApplyTipFromNetwork(mem.log, c, valid, Now)
  <2>0. valid \subseteq TimeEvents
    BY DEF Outcomes
  <2>1. Good(applied)
    BY <1>2, <2>0, AppliedIsGood DEF TypedInv, HearOfTip, ApplyTipFromNetwork
  <2>2. mem' = StateWith(mem, applied) /\ disk' = Pinned(StateWith(mem, applied), disk)
    BY <1>2 DEF HearOfTip
  <2> HIDE DEF applied
  <2>3. mem' \in State /\ disk' \in State /\ Good(mem'.log) /\ Good(disk'.log)
    BY <2>1, <2>2, NewStatesAreTyped
  <2> QED  BY <1>2, <2>3 DEF HearOfTip, TypedInv, TypeOK
<1>3. CASE SaveStatus
  BY <1>3 DEF SaveStatus, Pinned, TypedInv, TypeOK
<1>4. ASSUME NEW by \in {"write", "api"}, Ask(by)
      PROVE  clock' \in Nat /\ asking' \in Seq([cid : Commit, time : Nat, by : {"write", "api"}])
  <2>1. tip \in Commit
    BY GoodLogsHaveTips DEF TypedInv, tip
  <2>2. [cid |-> tip, time |-> clock', by |-> by] \in [cid : Commit, time : Nat, by : {"write", "api"}]
    BY <1>4, <2>1 DEF Ask, TypedInv, TypeOK
  <2>3. /\ asking' = Append(asking, [cid |-> tip, time |-> clock', by |-> by])
        /\ asking \in Seq([cid : Commit, time : Nat, by : {"write", "api"}])
    BY <1>4 DEF Ask, TypedInv, TypeOK
  <2>4. clock' \in Nat
    BY <1>4 DEF Ask, TypedInv, TypeOK
  <2> HIDE DEF tip
  <2> QED  BY <2>2, <2>3, <2>4
<1>5. CASE AskForWrite
  <2>1. clock' \in Nat /\ asking' \in Seq([cid : Commit, time : Nat, by : {"write", "api"}])
    BY <1>4, <1>5 DEF AskForWrite
  <2> QED  BY <1>5, <2>1 DEF AskForWrite, TypedInv, TypeOK
<1>6. CASE AskThroughApi
  <2>1. clock' \in Nat /\ asking' \in Seq([cid : Commit, time : Nat, by : {"write", "api"}])
    BY <1>4, <1>6 DEF AskThroughApi
  <2> QED  BY <1>6, <2>1 DEF AskThroughApi, TypedInv, TypeOK
<1>7. CASE SaveRequest
  <2> DEFINE ask == Head(asking)
             entry == [cid |-> ask.cid, time |-> ask.time]
  <2>1. /\ ask \in [cid : Commit, time : Nat, by : {"write", "api"}]
        /\ asking' \in Seq([cid : Commit, time : Nat, by : {"write", "api"}])
    <3> DEFINE Waiting == [cid : Commit, time : Nat, by : {"write", "api"}]
    <3>1. asking \in Seq(Waiting) /\ asking # <<>> /\ asking' = Tail(asking)
      BY <1>7 DEF SaveRequest, TypedInv, TypeOK
    <3> HIDE DEF Waiting
    <3>2. Head(asking) \in Waiting /\ asking' \in Seq(Waiting)
      BY <3>1
    <3> QED  BY <3>2 DEF Waiting
  <2>2. /\ request' = entry /\ latest' = entry /\ posts' = posts \cup {entry}
        /\ HandleOpen(entry.cid, "PENDING") /\ writer' \in {"idle", writer}
        /\ UNCHANGED <<disk, cas, clock, crashes>>
    BY <1>7 DEF SaveRequest
  <2> HIDE DEF ask
  <2>3. entry \in Request
    BY <2>1 DEF Request
  <2> HIDE DEF entry
  <2>4. mem' \in State /\ mem'.log = mem.log /\ unsaved' \in BOOLEAN
    BY <2>2 DEF HandleOpen, TypedInv, TypeOK, State, AnchorStatus
  <2> QED  BY <2>1, <2>2, <2>3, <2>4 DEF TypedInv, TypeOK
<1> QED  BY <1>1, <1>2, <1>3, <1>5, <1>6, <1>7
(* Steps of the anchor service and of the calls that reach it.             *)
LEMMA ServiceIsTyped ==
    ASSUME TypedInv, UNCHANGED <<poller, answered>>,
           \/ \E c \in Commit : OtherNodeAsks(c)
           \/ \E r \in posts : PostArrives(r) \/ PostIsLost(r)
           \/ CasStep
    PROVE  TypedInv'
<1> USE DEF nodeVars, storeVars, casVars, loopVars, bounds
<1>1. ASSUME NEW c \in Commit, OtherNodeAsks(c) PROVE TypedInv'
  <2>1. clock' \in Nat /\ [cid |-> c, time |-> clock'] \in Request
    BY <1>1 DEF OtherNodeAsks, TypedInv, TypeOK, Request
  <2>2. cas' \in [Commit -> [status : CasStatus, time : Nat]]
    BY <1>1, <2>1, ReceivedIsTyped DEF OtherNodeAsks
  <2> QED  BY <1>1, <2>1, <2>2 DEF OtherNodeAsks, TypedInv, TypeOK
<1>2. ASSUME NEW r \in posts, PostArrives(r) PROVE TypedInv'
  <2>1. r \in Request
    BY DEF TypedInv, TypeOK
  <2>2. cas' \in [Commit -> [status : CasStatus, time : Nat]]
    BY <1>2, <2>1, ReceivedIsTyped DEF PostArrives
  <2> QED  BY <1>2, <2>2 DEF PostArrives, TypedInv, TypeOK
<1>3. ASSUME NEW r \in posts, PostIsLost(r) PROVE TypedInv'
  BY <1>3 DEF PostIsLost, TypedInv, TypeOK
<1>4. CASE CasStep
  <2>1. PICK c \in Commit, to \in CasStatus : cas' = [cas EXCEPT ![c].status = to]
                                            /\ UNCHANGED <<posts, nodeVars, storeVars, loopVars, bounds>>
    BY <1>4 DEF CasStep, CasStarts, CasFails, CasCompletes, CasMoves, CasStatus
  <2>2. cas' \in [Commit -> [status : CasStatus, time : Nat]]
    BY <2>1 DEF TypedInv, TypeOK
  <2> QED  BY <2>1, <2>2 DEF TypedInv, TypeOK
<1> QED  BY <1>1, <1>2, <1>3, <1>4

(* Steps of the loop.                                                      *)
LEMMA LoopIsTyped ==
    ASSUME TypedInv,
           \/ LoopStep \/ LoopGetsStatus \/ LoopCreates \/ LoopCannotApplyAnchor
           \/ \E valid \in Outcomes : LoopAppliesAnchor(valid)
    PROVE  TypedInv'
<1> USE DEF nodeVars, storeVars, casVars, loopVars, bounds
<1> DEFINE Ats == {"idle", "loaded", "creating", "answered", "terminal"}
           Polling == [at : Ats, entry : Request \cup {NoRequest}, event : CasStatus]
<1>1. poller \in Polling /\ Idle \in Polling /\ Idle.at = "idle"
  BY DEF TypedInv, TypeOK, Idle, CasStatus
<1>2. ASSUME NEW at \in Ats \ {"idle"}, NEW event \in CasStatus, poller.at # "idle",
             poller' = [poller EXCEPT !.at = at, !.event = event]
      PROVE  poller' \in Polling /\ poller'.entry \in Request
  BY <1>1, <1>2 DEF TypedInv
<1>3. ASSUME NEW at \in Ats \ {"idle"}, poller.at # "idle", poller' = [poller EXCEPT !.at = at]
      PROVE  poller' \in Polling /\ poller'.entry \in Request
  BY <1>1, <1>3 DEF TypedInv
<1>4. ASSUME NEW event \in Terminal, Answer(event), Settled
      PROVE  poller' \in Polling /\ poller'.entry \in Request /\ answered' \subseteq Commit \X Terminal
  <2>1. poller' \in Polling /\ poller'.entry \in Request
    BY <1>3, <1>4 DEF Answer, Settled
  <2>2. poller.entry.cid \in Commit /\ poller.event \in Terminal
    BY <1>4 DEF Answer, TypedInv, Request
  <2> QED  BY <1>4, <2>1, <2>2 DEF Settled, TypedInv, TypeOK
<1>5. ASSUME NEW status \in AnchorStatus PROVE [mem EXCEPT !.status = status] \in State
                                            /\ [mem EXCEPT !.status = status].log = mem.log
  BY DEF TypedInv, TypeOK, State
<1>6. CASE LoopLoads
  <2>1. request \in Request /\ poller' = [at |-> "loaded", entry |-> request, event |-> "NONE"]
    BY <1>6 DEF LoopLoads, TypedInv, TypeOK
  <2>2. poller' \in Polling /\ poller'.entry \in Request
    BY <2>1 DEF CasStatus
  <2> QED  BY <1>6, <2>2 DEF LoopLoads, TypedInv, TypeOK
<1>7. CASE LoopGetsError
  <2>1. poller' \in Polling /\ poller'.entry \in Request
    BY <1>3, <1>7 DEF LoopGetsError
  <2> QED  BY <1>7, <2>1 DEF LoopGetsError, TypedInv, TypeOK
<1>8. CASE LoopFailsToCreate
  BY <1>1, <1>8 DEF LoopFailsToCreate, TypedInv, TypeOK
<1>9. CASE LoopHandlesOpen
  <2>1. mem' \in State /\ mem'.log = mem.log /\ unsaved' \in BOOLEAN
    <3>1. poller.event \in AnchorStatus /\ HandleOpen(poller.entry.cid, poller.event)
      BY <1>9 DEF LoopHandlesOpen, Answer, AnchorStatus
    <3> QED  BY <1>5, <3>1 DEF HandleOpen, TypedInv, TypeOK
  <2> QED  BY <1>1, <1>9, <2>1 DEF LoopHandlesOpen, TypedInv, TypeOK
<1>10. CASE LoopHandlesFailed
  <2>1. mem' \in State /\ mem'.log = mem.log
    BY <1>5, <1>10 DEF LoopHandlesFailed, AnchorStatus, TypedInv, TypeOK
  <2>2. /\ poller' \in Polling /\ poller'.entry \in Request
        /\ answered' \subseteq Commit \X Terminal
    BY <1>4, <1>10 DEF LoopHandlesFailed, Terminal
  <2> QED  BY <1>10, <2>1, <2>2 DEF LoopHandlesFailed, TypedInv, TypeOK
<1>11. CASE LoopHandlesReplaced
  <2>1. /\ poller' \in Polling /\ poller'.entry \in Request
        /\ answered' \subseteq Commit \X Terminal
    BY <1>4, <1>11 DEF LoopHandlesReplaced, Terminal
  <2> QED  BY <1>11, <2>1 DEF LoopHandlesReplaced, TypedInv, TypeOK
<1>12. CASE LoopRemoves
  BY <1>1, <1>12 DEF LoopRemoves, TypedInv, TypeOK
<1>13. CASE LoopGetsStatus
  <2>1. cas[poller.entry.cid].status \in CasStatus
    BY <1>13 DEF LoopGetsStatus, TypedInv, TypeOK, Request
  <2>2. poller' \in Polling /\ poller'.entry \in Request
    BY <1>2, <1>13, <2>1 DEF LoopGetsStatus
  <2> QED  BY <1>13, <2>2 DEF LoopGetsStatus, TypedInv, TypeOK
<1>14. CASE LoopCreates
  <2>1. poller.entry \in Request /\ poller.entry.cid \in Commit
    BY <1>14 DEF LoopCreates, TypedInv, Request
  <2>2. cas' \in [Commit -> [status : CasStatus, time : Nat]]
    BY <1>14, <2>1, ReceivedIsTyped DEF LoopCreates
  <2>3. poller' \in Polling /\ poller'.entry \in Request
    BY <1>2, <1>14, <2>1, <2>2 DEF LoopCreates
  <2> QED  BY <1>14, <2>2, <2>3 DEF LoopCreates, TypedInv, TypeOK
<1>15. CASE LoopCannotApplyAnchor
  <2>1. mem' \in State /\ mem'.log = mem.log
    BY <1>5, <1>15 DEF LoopCannotApplyAnchor, AnchorStatus, TypedInv, TypeOK
  <2> QED  BY <1>1, <1>15, <2>1 DEF LoopCannotApplyAnchor, TypedInv, TypeOK
<1>16. ASSUME NEW valid \in Outcomes, LoopAppliesAnchor(valid) PROVE TypedInv'
  <2>1. PICK a \in AnchorOf(poller.entry.cid) :
            LET applied == ApplyTipFromNetwork(mem.log, a, valid, Now) IN
            applied # Thrown /\ mem' = StateWith(mem, applied) /\ disk' = Pinned(StateWith(mem, applied), disk)
    BY <1>16 DEF LoopAppliesAnchor
  <2> DEFINE applied == ApplyTipFromNetwork(mem.log, a, valid, Now)
  <2>2. valid \subseteq TimeEvents /\ a \in Commit
    BY ForestAssumption DEF Outcomes, AnchorOf
  <2>3. Good(applied)
    BY <2>1, <2>2, AppliedIsGood DEF TypedInv, ApplyTipFromNetwork
  <2>4. mem' = StateWith(mem, applied) /\ disk' = Pinned(StateWith(mem, applied), disk)
    BY <2>1
  <2> HIDE DEF applied
  <2>5. mem' \in State /\ disk' \in State /\ Good(mem'.log) /\ Good(disk'.log)
    BY <2>3, <2>4, NewStatesAreTyped
  <2>6. /\ poller' \in Polling /\ poller'.entry \in Request
        /\ answered' \subseteq Commit \X Terminal
    BY <1>4, <1>16 DEF LoopAppliesAnchor, Terminal
  <2> QED  BY <1>16, <2>5, <2>6 DEF LoopAppliesAnchor, TypedInv, TypeOK
<1> QED  BY <1>6, <1>7, <1>8, <1>9, <1>10, <1>11, <1>12, <1>13, <1>14, <1>15, <1>16 DEF LoopStep

LEMMA TypedNext == TypedInv /\ [Next]_vars => TypedInv'
<1> SUFFICES ASSUME TypedInv, [Next]_vars PROVE TypedInv'
  OBVIOUS
<1>1. CASE \/ \E c \in Commit : WriteCommit(c)
           \/ \E c \in Commit, valid \in Outcomes : HearOfTip(c, valid)
           \/ SaveStatus \/ AskForWrite \/ AskThroughApi \/ SaveRequest
  <2>1. UNCHANGED <<poller, answered>>
    BY <1>1 DEF WriteCommit, HearOfTip, SaveStatus, AskForWrite, AskThroughApi, SaveRequest, loopVars
  <2> QED  BY <1>1, <2>1, TasksAreTyped
<1>2. CASE \/ \E c \in Commit : OtherNodeAsks(c)
           \/ \E r \in posts : PostArrives(r) \/ PostIsLost(r)
           \/ CasStep
  <2>1. UNCHANGED <<poller, answered>>
    BY <1>2 DEF OtherNodeAsks, PostArrives, PostIsLost, CasStep, CasStarts, CasFails, CasCompletes,
                CasMoves, loopVars
  <2> QED  BY <1>2, <2>1, ServiceIsTyped
<1>3. CASE \/ LoopStep \/ LoopGetsStatus \/ LoopCreates \/ LoopCannotApplyAnchor
           \/ \E valid \in Outcomes : LoopAppliesAnchor(valid)
  BY <1>3, LoopIsTyped
<1>4. CASE Crash
  <2>1. poller' = Idle /\ Idle.at = "idle" /\ asking' = <<>> /\ posts' = {} /\ mem' = disk
    BY <1>4 DEF Crash, Idle
  <2>2. poller' \in [at : {"idle", "loaded", "creating", "answered", "terminal"},
                     entry : Request \cup {NoRequest}, event : CasStatus]
    BY <2>1 DEF Idle, CasStatus
  <2>3. asking' \in Seq([cid : Commit, time : Nat, by : {"write", "api"}])
    BY <2>1
  <2>4. mem' \in State /\ disk' \in State /\ Good(mem'.log) /\ Good(disk'.log)
    BY <1>4, <2>1 DEF Crash, TypedInv, TypeOK
  <2>5. /\ unsaved' = FALSE /\ writer' = "idle" /\ crashes' = crashes + 1
        /\ UNCHANGED <<request, latest, cas, clock, answered>>
    BY <1>4 DEF Crash
  <2>6. poller'.at = "idle" /\ posts' = {}
    BY <2>1
  <2>7. /\ request' \in Request \cup {NoRequest} /\ latest' \in Request \cup {NoRequest}
        /\ cas' \in [Commit -> [status : CasStatus, time : Nat]]
        /\ answered' \subseteq Commit \X Terminal
        /\ crashes' \in Nat /\ clock' \in Nat
    BY <2>5 DEF TypedInv, TypeOK
  <2>8. TypeOK'
    BY <2>2, <2>3, <2>4, <2>5, <2>6, <2>7 DEF TypeOK
  <2> QED  BY <2>4, <2>6, <2>8 DEF TypedInv
<1>5. CASE UNCHANGED vars
  BY <1>5 DEF vars, nodeVars, storeVars, casVars, loopVars, bounds, TypedInv, TypeOK
<1> QED  BY <1>1, <1>2, <1>3, <1>4, <1>5 DEF Next

(* Every variable keeps its type, if the init event of the stream is       *)
(* valid: what gives AnchorRequests its logs never leaves one that the     *)
(* next call could not build on.                                           *)
THEOREM AnchorsTypeCorrect ==
    ASSUME Genesis \notin Invalid
    PROVE  Spec => []TypeOK
<1>1. Init => TypedInv
  BY TypedInit
<1>2. TypedInv /\ [Next]_vars => TypedInv'
  BY TypedNext
<1>3. TypedInv => TypeOK
  BY DEF TypedInv
<1> QED  BY <1>1, <1>2, <1>3, PTL DEF Spec
-----------------------------------------------------------------------------
(* Anchors that were answered are in both logs, or earlier ones are.       *)
Durable(c) == \E a \in AnchorOf(c) : Anchored(mem.log, a) /\ Anchored(disk.log, a)

DurableInv ==
    /\ TypedInv
    /\ \A c \in Commit : <<c, "COMPLETED">> \in answered => Durable(c)

(* An anchored log stays anchored when a tip is applied to it, and is      *)
(* anchored by the tip.                                                    *)
LEMMA AnchorsAreKept ==
    ASSUME NothingIsRefused, NEW hist, Good(hist), NEW c \in Commit,
           NEW opts \in {NetworkOpts, UserOpts}, NEW time,
           ApplyTip(hist, c, TimeEvents, opts, time) # Thrown
    PROVE  /\ \A a \in TimeEvents : Anchored(hist, a) =>
                    Anchored(ApplyTip(hist, c, TimeEvents, opts, time), a)
           /\ c \in TimeEvents => Anchored(ApplyTip(hist, c, TimeEvents, opts, time), c)
<1> DEFINE result == ApplyTip(hist, c, TimeEvents, opts, time)
<1>1. opts \in Tips!Options
  <2>1. CASE opts = NetworkOpts
    BY <2>1 DEF NetworkOpts, Tips!Options
  <2>2. CASE opts = UserOpts
    BY <2>2 DEF UserOpts, Tips!Options
  <2> QED  BY <2>1, <2>2
<1>2. Tips!NothingIsRefused
  <2>1. ChainTo = Tips!ChainTo
    BY DEF ChainTo, Tips!ChainTo
  <2> QED  BY <2>1 DEF NothingIsRefused, Tips!NothingIsRefused
<1>3. Tips!ApplyTip(hist, c, TimeEvents, opts, time) # Tips!Thrown
  BY AppliesAlike DEF Thrown, Tips!Thrown
<1>4. Tips!KeepsAnchors(Tips!ApplyTip(hist, c, TimeEvents, opts, time), hist, c)
  BY <1>1, <1>2, <1>3, ClockIsPositive, ForestAssumption, Tips!AnchorsAreKept, Zenon
     DEF Good, NoTime, Tips!NoTime
<1>5. Tips!KeepsAnchors(result, hist, c)
  BY <1>4, AppliesAlike
<1>6. \A h, a : Anchored(h, a) <=> Tips!AnchoredBy(h, AnchorTime[a])
  BY DEF Anchored, Tips!AnchoredBy, CidsOf, Tips!CidsOf
<1>7. \A a \in TimeEvents : AnchorTime[a] \in Nat
  BY ForestAssumption
<1> HIDE DEF result
<1>8. (\A a \in TimeEvents : Anchored(hist, a) => Anchored(result, a))
      /\ (c \in TimeEvents => Anchored(result, c))
  BY <1>5, <1>6, <1>7 DEF Tips!KeepsAnchors
<1> QED  BY <1>8 DEF result

(* PinStore.add keeps or writes a state with all the commits of the new.   *)
LEMMA PinnedIsAnchored ==
    ASSUME NEW state, NEW old, NEW a, Anchored(state.log, a)
    PROVE  Anchored(Pinned(state, old).log, a)
BY DEF Pinned, Anchored

(* A step that takes in a tip and pins the new state.                      *)
LEMMA NewStatesAreAnchored ==
    ASSUME NothingIsRefused, DurableInv, NEW c \in Commit, NEW opts \in {NetworkOpts, UserOpts},
           NEW applied, applied = ApplyTip(mem.log, c, TimeEvents, opts, Now), applied # Thrown,
           mem' = StateWith(mem, applied), disk' = Pinned(mem', disk)
    PROVE  /\ \A d : Durable(d) => Durable(d)'
           /\ c \in TimeEvents => Durable(Prev[c])'
<1>1. mem'.log = applied
  <2>1. CASE applied = mem.log
    BY <2>1 DEF StateWith
  <2>2. CASE applied # mem.log
    BY <2>2 DEF StateWith
  <2> QED  BY <2>1, <2>2
<1>2. Good(mem.log)
  BY DEF DurableInv, TypedInv
<1>3. /\ \A a \in TimeEvents : Anchored(mem.log, a) => Anchored(applied, a)
      /\ c \in TimeEvents => Anchored(applied, c)
  BY <1>2, AnchorsAreKept
<1>4. \A a : Anchored(applied, a) => Anchored(disk'.log, a)
  BY <1>1, PinnedIsAnchored
<1>5. ASSUME NEW d, Durable(d) PROVE Durable(d)'
  BY <1>1, <1>3, <1>4, <1>5 DEF Durable, AnchorOf, Anchored, CidsOf
<1>6. ASSUME c \in TimeEvents PROVE Durable(Prev[c])'
  BY <1>1, <1>3, <1>4, <1>6 DEF Durable, AnchorOf, Anchored, CidsOf
<1> QED  BY <1>5, <1>6
(* Steps that move neither log, save the one in memory, or load the one on *)
(* disk, and take no anchor for answered.                                  *)
LEMMA ElsewhereIsDurable ==
    ASSUME DurableInv, TypedInv',
           mem'.log \in {mem.log, disk.log}, disk'.log \in {mem.log, disk.log},
           \A c : <<c, "COMPLETED">> \in answered' => <<c, "COMPLETED">> \in answered
    PROVE  DurableInv'
<1>1. ASSUME NEW c, Durable(c) PROVE Durable(c)'
  <2>1. PICK a \in AnchorOf(c) : Anchored(mem.log, a) /\ Anchored(disk.log, a)
    BY <1>1 DEF Durable
  <2>2. Anchored(mem'.log, a) /\ Anchored(disk'.log, a)
    BY <2>1
  <2> QED  BY <2>2 DEF Durable, AnchorOf, Anchored, CidsOf
<1> QED  BY <1>1 DEF DurableInv

LEMMA DurableNext ==
    ASSUME NothingIsRefused, Flaky = {}
    PROVE  DurableInv /\ [Next]_vars => DurableInv'
<1> SUFFICES ASSUME DurableInv, [Next]_vars PROVE DurableInv'
  OBVIOUS
<1>1. TypedInv'
  BY TypedNext DEF DurableInv
<1>2. mem \in State /\ disk \in State
  BY DEF DurableInv, TypedInv, TypeOK
<1>3. \A valid \in Outcomes : valid = TimeEvents
  BY DEF Outcomes
<1>4. ASSUME NEW c \in Commit, WriteCommit(c) PROVE DurableInv'
  <2>1. \A d : Durable(d) => Durable(d)'
    BY <1>4, NewStatesAreAnchored DEF WriteCommit, ApplyCommitFromUser
  <2> QED  BY <1>1, <1>4, <2>1 DEF WriteCommit, loopVars, DurableInv
<1>5. ASSUME NEW c \in Commit, NEW valid \in Outcomes, HearOfTip(c, valid) PROVE DurableInv'
  <2>1. \A d : Durable(d) => Durable(d)'
    BY <1>3, <1>5, NewStatesAreAnchored DEF HearOfTip, ApplyTipFromNetwork
  <2> QED  BY <1>1, <1>5, <2>1 DEF HearOfTip, loopVars, DurableInv
<1>6. ASSUME NEW valid \in Outcomes, LoopAppliesAnchor(valid) PROVE DurableInv'
  <2> DEFINE c == poller.entry.cid
  <2>1. PICK a \in AnchorOf(c) :
            /\ ApplyTipFromNetwork(mem.log, a, TimeEvents, Now) # Thrown
            /\ mem' = StateWith(mem, ApplyTipFromNetwork(mem.log, a, TimeEvents, Now))
            /\ disk' = Pinned(mem', disk)
    BY <1>3, <1>6 DEF LoopAppliesAnchor
  <2>2. a \in TimeEvents /\ a \in Commit /\ Prev[a] = c
    BY ForestAssumption DEF AnchorOf
  <2>3. (\A d : Durable(d) => Durable(d)') /\ Durable(Prev[a])'
    BY <2>1, <2>2, NewStatesAreAnchored DEF ApplyTipFromNetwork
  <2>4. answered' = answered \cup {<<c, "COMPLETED">>}
    BY <1>6 DEF LoopAppliesAnchor, Answer, Settled
  <2>5. \A d : <<d, "COMPLETED">> \in answered' => <<d, "COMPLETED">> \in answered \/ d = Prev[a]
    <3> HIDE DEF c
    <3> QED  BY <2>2, <2>4
  <2> QED  BY <1>1, <2>3, <2>5 DEF DurableInv
<1>7. CASE Crash
  BY <1>1, <1>7, ElsewhereIsDurable DEF Crash
<1>8. CASE SaveStatus
  BY <1>1, <1>8, ElsewhereIsDurable DEF SaveStatus, Pinned, loopVars
<1>9. \A status : [mem EXCEPT !.status = status].log = mem.log
  BY <1>2 DEF State
<1>10. ASSUME SaveRequest \/ LoopHandlesOpen PROVE DurableInv'
  <2>1. UNCHANGED <<disk, answered>> /\ \E d, status : HandleOpen(d, status)
    BY <1>10 DEF SaveRequest, LoopHandlesOpen, loopVars
  <2>2. mem'.log = mem.log
    BY <1>9, <2>1 DEF HandleOpen
  <2> QED  BY <1>1, <2>1, <2>2, ElsewhereIsDurable
<1>11. ASSUME LoopHandlesFailed \/ LoopHandlesReplaced \/ LoopCannotApplyAnchor PROVE DurableInv'
  <2>1. mem'.log = mem.log /\ UNCHANGED disk
    BY <1>9, <1>11 DEF LoopHandlesFailed, LoopHandlesReplaced, LoopCannotApplyAnchor, nodeVars
  <2>2. answered' = answered \/ \E status \in {"FAILED", "REPLACED"} :
                                    answered' = answered \cup {<<poller.entry.cid, status>>}
    BY <1>11 DEF LoopHandlesFailed, LoopHandlesReplaced, LoopCannotApplyAnchor, Answer, Settled
  <2>3. \A d : <<d, "COMPLETED">> \in answered' => <<d, "COMPLETED">> \in answered
    BY <2>2
  <2> QED  BY <1>1, <2>1, <2>3, ElsewhereIsDurable
<1>12. ASSUME \/ \E c \in Commit : OtherNodeAsks(c)
              \/ AskForWrite \/ AskThroughApi
              \/ \E r \in posts : PostArrives(r) \/ PostIsLost(r)
              \/ CasStep
              \/ LoopLoads \/ LoopGetsError \/ LoopFailsToCreate \/ LoopRemoves
              \/ LoopGetsStatus \/ LoopCreates
              \/ UNCHANGED vars
       PROVE  DurableInv'
  <2>1. UNCHANGED <<mem, disk, answered>>
    BY <1>12 DEF OtherNodeAsks, AskForWrite, AskThroughApi, PostArrives, PostIsLost, CasStep, CasStarts,
                 CasFails, CasCompletes, CasMoves, LoopLoads, LoopGetsError, LoopFailsToCreate,
                 LoopRemoves, LoopGetsStatus, LoopCreates, vars, nodeVars, loopVars
  <2> QED  BY <1>1, <2>1, ElsewhereIsDurable
<1> QED
  BY <1>4, <1>5, <1>6, <1>7, <1>8, <1>10, <1>11, <1>12 DEF Next, LoopStep

(* Of the anchors of a good log the first is the earliest.                 *)
LEMMA FirstIsEarliest ==
    ASSUME NothingIsRefused, NEW hist, Good(hist), NEW a \in TimeEvents, Anchored(hist, a)
    PROVE  FirstAnchor(hist) > 0 /\ hist[FirstAnchor(hist)].ts <= AnchorTime[a]
<1>1. PICK b \in TimeEvents : b \in CidsOf(hist) /\ AnchorTime[b] =< AnchorTime[a]
  BY DEF Anchored
<1>2. hist \in Seq(Entry) /\ Len(hist) \in Nat
  BY GoodLogsHaveTips
<1>3. PICK k \in 1..Len(hist) : hist[k].cid = b
  BY <1>1, <1>2 DEF CidsOf
<1>4. FirstAnchor(hist) = Tips!FirstAnchor(hist)
  BY DEF FirstAnchor, Tips!FirstAnchor, SelectInSeq, Tips!SelectInSeq, Min, Tips!Min
<1> DEFINE f == FirstAnchor(hist)
<1>5. /\ f \in 0..Len(hist)
      /\ f > 0 => hist[f].cid \in TimeEvents
      /\ \A i \in 1..Len(hist) : hist[i].cid \in TimeEvents => 0 < f /\ f =< i
  <2> DEFINE g == Tips!FirstAnchor(hist)
  <2>1. /\ g \in 0..Len(hist)
        /\ g > 0 => hist[g].cid \in TimeEvents
        /\ \A i \in 1..Len(hist) : hist[i].cid \in TimeEvents => 0 < g /\ g =< i
    BY <1>2, ClockIsPositive, ForestAssumption, Tips!FirstAnchorIsFirst, Zenon DEF NoTime, Tips!NoTime
  <2> HIDE DEF g
  <2> QED  BY <1>4, <2>1 DEF g
<1> HIDE DEF f
<1>6. f \in 1..Len(hist) /\ f =< k /\ hist[f].cid \in TimeEvents
  BY <1>2, <1>3, <1>5
<1>7. Tips!NothingIsRefused
  <2>1. ChainTo = Tips!ChainTo
    BY DEF ChainTo, Tips!ChainTo
  <2> QED  BY <2>1 DEF NothingIsRefused, Tips!NothingIsRefused
<1>8. AnchorTime[hist[f].cid] =< AnchorTime[hist[k].cid]
  BY <1>3, <1>6, <1>7, ClockIsPositive, ForestAssumption, Tips!AnchorsInOrder, Zenon
     DEF Good, NoTime, Tips!NoTime
<1>9. hist[f].ts = AnchorTime[hist[f].cid]
  BY <1>6 DEF Good, Tips!GoodLog
<1>10. AnchorTime[hist[f].cid] \in Nat /\ AnchorTime[b] \in Nat /\ AnchorTime[a] \in Nat
  BY <1>6, ForestAssumption
<1> QED  BY <1>1, <1>3, <1>6, <1>8, <1>9, <1>10 DEF f

(* An anchor the node was told of and stopped asking about survives: it is *)
(* in the stored state, or an earlier one is, whatever other tips are      *)
(* heard of, saved late or lost with the memory.  The hypotheses keep out  *)
(* the commits a node refuses: of two histories the one to keep is picked  *)
(* before its commits are validated, and one that fails takes with it the  *)
(* anchors of the history that lost.                                       *)
THEOREM AnswersAreDurable ==
    ASSUME NothingIsRefused, Flaky = {}
    PROVE  Spec => []AnsweredAnchorsAreDurable
<1>1. Init => DurableInv
  <2>1. Init => TypedInv
    BY TypedInit DEF NothingIsRefused
  <2> QED  BY <2>1 DEF Init, DurableInv
<1>2. DurableInv /\ [Next]_vars => DurableInv'
  BY DurableNext
<1>3. DurableInv => AnsweredAnchorsAreDurable
  <2> SUFFICES ASSUME DurableInv, NEW c \in Commit, <<c, "COMPLETED">> \in answered
               PROVE  \E a \in AnchorOf(c) : /\ FirstAnchor(disk.log) > 0
                                            /\ disk.log[FirstAnchor(disk.log)].ts <= AnchorTime[a]
    BY DEF AnsweredAnchorsAreDurable
  <2>1. PICK a \in AnchorOf(c) : Anchored(disk.log, a)
    BY DEF DurableInv, Durable
  <2>2. a \in TimeEvents /\ Good(disk.log)
    BY DEF AnchorOf, DurableInv, TypedInv
  <2> QED  BY <2>1, <2>2, FirstIsEarliest
<1> QED  BY <1>1, <1>2, <1>3, PTL DEF Spec
=============================================================================
