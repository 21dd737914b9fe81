------------------------------ MODULE Handlers ------------------------------
(***************************************************************************)
(* What the handlers of the stream types do to a StreamState: the          *)
(* ModelInstanceDocument ("mid"), TileDocument ("tile") and Caip10Link     *)
(* ("caip10") handlers under StateManipulator._applyLog.  A handler        *)
(* changes the state it is given in place, and judges a part of the        *)
(* commit - its content against schema and relations - when it has         *)
(* already begun.  _applyLog returns that same state when the handler      *)
(* throws.                                                                 *)
(*                                                                         *)
(* The content of a document is the sequence of the commits whose JSON     *)
(* patches made it.  Logs, and how they are compared, are StreamLog's.     *)
(***************************************************************************)
EXTENDS StreamLog

CONSTANTS
    Node,
    Settings,        \* the types of stream and circumstances considered
    Refused,         \* signed commits whose content never passes validation
    MaxNow,          \* bound on the clock, in the unit of AnchorTime
    MaxContent       \* bound on the patches in a content that grows with every delivery

(* handler: the type of the stream; genesisContent: the init event carries *)
(* content; misses: loads of a model, schema or related document may fail; *)
(* recon: stored commits reach every node, judged or not.                  *)
AllSettings == [handler : {"mid", "tile", "caip10"}, genesisContent : BOOLEAN,
                misses : BOOLEAN, recon : BOOLEAN]

ASSUME HandlerAssumption ==
    /\ Settings \subseteq AllSettings
    /\ Refused \subseteq Commit \ TimeEvents

VARIABLES
    setting,  \* one of Settings, for good
    state,    \* [Node -> StreamState], Nothing while not loaded
    stored,   \* commits that can be fetched
    offered,  \* tips a node may hear of
    seen,     \* [Node -> tips the node applied without an error]
    now       \* wall clock

handlerVars == <<setting, state, stored, offered, seen, now>>

(* Content that is null, or `next` that is undefined.                      *)
Absent == <<NoCommit>>
Nothing == [log |-> <<>>, content |-> Absent, next |-> Absent]

Holds(n) == state[n] # Nothing

-----------------------------------------------------------------------------
(* Handlers: [state, ok], what they return or leave behind when they throw.*)

Patched(content, c) == Append(IF content = Absent THEN <<>> ELSE content, c)

(* `content ?? {}`: a patch to content that is null changes a fresh object.*)
PatchedInPlace(content, c) == IF content = Absent THEN Absent ELSE Append(content, c)

(* The content does not validate, or cannot be validated right now.        *)
ContentFails(e, miss) == e.cid \in Refused \/ (miss /\ setting.handler # "caip10")

ApplyGenesis(e, miss, at) ==
    IF Accepts(e, NoCommit, at) /\ ~ContentFails(e, miss)
    THEN [ok |-> TRUE,
          state |-> [Nothing EXCEPT
                        !.log = <<[cid |-> e.cid, ts |-> e.ts]>>,
                        !.content = IF setting.genesisContent THEN <<e.cid>> ELSE Absent]]
    ELSE [ok |-> FALSE, state |-> Nothing]

(* The patch is applied to the content itself, the content is judged, and  *)
(* the log comes last.                                                     *)
MidApplySigned(s, e, miss) ==
    IF ContentFails(e, miss)
    THEN [ok |-> FALSE, state |-> [s EXCEPT !.content = PatchedInPlace(@, e.cid)]]
    ELSE [ok |-> TRUE,
          state |-> [s EXCEPT !.log = Append(@, [cid |-> e.cid, ts |-> e.ts]),
                              !.content = Patched(@, e.cid)]]

(* The log comes first, then the patch - to `next` itself where there is   *)
(* one, to a clone of the content otherwise -, then the schema.            *)
TileApplySigned(s, e, miss) ==
    LET pushed == Append(s.log, [cid |-> e.cid, ts |-> e.ts])
    IN  IF ContentFails(e, miss)
        THEN [ok |-> FALSE,
              state |-> [s EXCEPT !.log = pushed, !.next = PatchedInPlace(@, e.cid)]]
        ELSE [ok |-> TRUE,
              state |-> [s EXCEPT !.log = pushed,
                            !.next = Patched(IF @ = Absent THEN s.content ELSE @, e.cid)]]

(* The link proof is judged first and replaces what was linked before.     *)
(* The log entry has no timestamp of its own.                              *)
CaipApplySigned(s, e, miss) ==
    IF ContentFails(e, miss) THEN [ok |-> FALSE, state |-> s]
    ELSE [ok |-> TRUE,
          state |-> [s EXCEPT !.log = Append(@, [cid |-> e.cid, ts |-> NoTime]),
                              !.next = <<e.cid>>]]

ApplySigned(s, e, miss) ==
    CASE setting.handler = "mid" -> MidApplySigned(s, e, miss)
      [] setting.handler = "tile" -> TileApplySigned(s, e, miss)
      [] setting.handler = "caip10" -> CaipApplySigned(s, e, miss)

(* Mutant: what was pending stays pending.                                 *)
ApplyAnchorKeepingNext(s, e) ==
    [ok |-> TRUE,
     state |-> [s EXCEPT !.log = Settle(Append(@, [cid |-> e.cid, ts |-> e.ts])),
                         !.content = IF s.next = Absent THEN @ ELSE s.next]]

(* applyAnchorCommit: what was pending becomes the content.                *)
ApplyAnchor(s, e) ==
    [ok |-> TRUE,
     state |-> [log |-> Settle(Append(s.log, [cid |-> e.cid, ts |-> e.ts])),
                content |-> IF s.next = Absent THEN s.content ELSE s.next,
                next |-> Absent]]

ApplyCommit(s, e, miss, at) ==
    CASE s = Nothing -> ApplyGenesis(e, miss, at)
      [] s # Nothing /\ ~Accepts(e, Tip(s.log), at) -> [ok |-> FALSE, state |-> s]
      [] s # Nothing /\ Accepts(e, Tip(s.log), at) ->
            IF e.cid \in TimeEvents THEN ApplyAnchor(s, e) ELSE ApplySigned(s, e, miss)

-----------------------------------------------------------------------------
(* StateManipulator on whole states.  Nothing stands for an error.         *)

(* _applyLog: stops at the first commit a handler refuses.                 *)
ApplyCommits(s, new, throwOnInvalid, miss, at) ==
    LET run[i \in 0..Len(new)] ==
            IF i = 0 THEN [ok |-> TRUE, state |-> s]
            ELSE IF run[i - 1].ok THEN ApplyCommit(run[i - 1].state, new[i], miss, at)
            ELSE run[i - 1]
        last == run[Len(new)]
    IN  IF ~last.ok /\ throwOnInvalid THEN Nothing ELSE last.state

ResetState(s, c, miss, at) ==
    ApplyCommits(Nothing, TrustedLog(s.log, c, FALSE), TRUE, miss, at)

(* The commits are applied to a clone of s, or to a state built anew.      *)
ApplyToState(s, new, opts, miss, at) ==
    LET fork == IndexOf(s.log, Prev[new[1].cid])
        local == SubSeq(s.log, fork + 1, Len(s.log))
        shared == ResetState(s, s.log[fork].cid, miss, at)
        applied ==
            CASE new = <<>> -> s
              [] new # <<>> /\ local = <<>> -> ApplyCommits(s, new, opts.throwOnInvalid, miss, at)
              [] new # <<>> /\ local # <<>> /\ opts.throwIfStale -> Nothing
              [] new # <<>> /\ local # <<>> /\ ~opts.throwIfStale ->
                    IF PicksFirst(local, new)
                    THEN IF opts.throwOnConflict THEN Nothing ELSE s
                    ELSE IF shared = Nothing THEN Nothing
                    ELSE ApplyCommits(shared, new, opts.throwOnInvalid, miss, at)
    IN  IF Usable(applied.log, at) THEN applied ELSE Nothing

ApplyTipToState(s, tip, opts, miss, at) ==
    ApplyToState(s, VerifyAnchors(SyncLogUntilMatch(tip, CidsOf(s.log)), TimeEvents), opts, miss, at)

LoadState(tip, miss, at) ==
    ApplyCommits(Nothing, VerifyAnchors(SyncFullLog(tip), TimeEvents), FALSE, miss, at)

-----------------------------------------------------------------------------
InitHandlers ==
    /\ setting \in Settings
    /\ state = [n \in Node |-> Nothing]
    /\ stored = {Genesis}
    /\ offered = {Genesis}
    /\ seen = [n \in Node |-> {}]
    /\ now = 1

Misses == IF setting.misses THEN BOOLEAN ELSE {FALSE}

(* The new state of a node, which answers queries for its tip with it.     *)
Become(n, tip, result, alsoOffered) ==
    IF result = Nothing
    THEN /\ offered' = offered \cup alsoOffered
         /\ UNCHANGED <<state, seen>>
    ELSE /\ state' = [state EXCEPT ![n] = result]
         /\ seen' = [seen EXCEPT ![n] = @ \cup {tip}]
         /\ offered' = offered \cup alsoOffered \cup {Tip(result.log)}

LoadStream(n, tip, miss) ==
    /\ ~Holds(n)
    /\ tip \in offered
    /\ Become(n, tip, LoadState(tip, miss, now), {})
    /\ UNCHANGED <<setting, stored, now>>

HandleTip(n, tip, miss) ==
    /\ Holds(n)
    /\ tip \in offered
    /\ Len(state[n].content) < MaxContent
    /\ Become(n, tip, ApplyTipToState(state[n], tip, NetworkOpts, miss, now), {})
    /\ UNCHANGED <<setting, stored, now>>

(* Mutant: a commit of a user may win against newer ones of the node.      *)
ApplyStaleUserCommit(n, c, miss) ==
    /\ Holds(n) /\ c \notin TimeEvents \cup stored /\ Prev[c] \in CidsOf(state[n].log)
    /\ stored' = stored \cup {c}
    /\ Become(n, c, ApplyTipToState(state[n], c, [UserOpts EXCEPT !.throwIfStale = FALSE], miss, now), {})
    /\ UNCHANGED <<setting, now>>

(* The commit is stored, and with Recon on its way to other nodes, before  *)
(* it is judged.                                                           *)
ApplyUserCommit(n, c, miss) ==
    /\ Holds(n)
    /\ c \notin TimeEvents \cup stored
    /\ Prev[c] \in CidsOf(state[n].log)
    /\ stored' = stored \cup {c}
    /\ Become(n, c, ApplyTipToState(state[n], c, UserOpts, miss, now), IF setting.recon THEN {c} ELSE {})
    /\ UNCHANGED <<setting, now>>

(* A block anchors a commit that some node asked for (outside the node).   *)
PublishAnchor(a) ==
    /\ a \in TimeEvents \ stored
    /\ Prev[a] \in offered
    /\ AnchorTime[a] = now
    /\ stored' = stored \cup {a}
    /\ offered' = offered \cup {a}
    /\ UNCHANGED <<setting, state, seen, now>>

Tick ==
    /\ now < MaxNow
    /\ now' = now + 1
    /\ UNCHANGED <<setting, state, stored, offered, seen>>

NextHandlers ==
    \/ \E n \in Node, c \in Commit, miss \in Misses :
            LoadStream(n, c, miss) \/ HandleTip(n, c, miss) \/ ApplyUserCommit(n, c, miss)
    \/ \E a \in Commit : PublishAnchor(a)
    \/ Tick

SpecHandlers == InitHandlers /\ [][NextHandlers]_handlerVars

-----------------------------------------------------------------------------
Contents == {Absent} \cup Seq(Commit \ TimeEvents)

(* The states, logs and contents the handlers exchange are well formed.    *)
StatesTypeOK ==
    /\ setting \in Settings
    /\ \A n \in Node :
            /\ state[n].log \in Seq(Entry)
            /\ state[n].content \in Contents /\ state[n].next \in Contents
    /\ offered \subseteq stored /\ stored \subseteq Commit
    /\ seen \in [Node -> SUBSET stored]
    /\ now \in 1..MaxNow

(* The signed commits of a log, and the content that they amount to.       *)
Cids(log) == [i \in DOMAIN log |-> log[i].cid]

Signed(cids) ==
    LET signed[i \in 0..Len(cids)] ==
            IF i = 0 THEN <<>>
            ELSE IF cids[i] \in TimeEvents \cup {Genesis} THEN signed[i - 1]
            ELSE Append(signed[i - 1], cids[i])
    IN  signed[Len(cids)]

Amount(cids) ==
    LET patches == (IF setting.genesisContent THEN <<Genesis>> ELSE <<>>) \o Signed(cids)
    IN  IF patches = <<>> THEN Absent
        ELSE IF setting.handler = "caip10" THEN <<Last(patches)>> ELSE patches

AnchoredPart(cids) ==
    SubSeq(cids, 1, Max({0} \cup {i \in DOMAIN cids : cids[i] \in TimeEvents}))

(* What the content of a state, and `next`, are to be.                     *)
Follows(s) ==
    LET cids == Cids(s.log)
        anchored == AnchoredPart(cids)
        pending == Signed(cids) # Signed(anchored)
    IN  IF setting.handler = "mid"
        THEN s.content = Amount(cids) /\ s.next = Absent
        ELSE /\ s.content = Amount(anchored)
             /\ s.next = IF pending THEN Amount(cids) ELSE Absent

(* Commits that a handler may refuse, for good or for now, reach a node    *)
(* that holds a state of the stream.                                       *)
Exposed == setting.recon \/ setting.misses

(* Any two nodes, and any two paths to a log - loading, following tips,    *)
(* reset and re-application, writes that were refused on the way - agree   *)
(* on the content: it is what the commits of the log amount to, and for a  *)
(* type that shows anchored content only, what they amounted to at the     *)
(* last anchor.  (The handlers that patch in place break this as soon as   *)
(* they are exposed to commits that they refuse.)                          *)
ContentFollowsLog ==
    \A n \in Node : Holds(n) /\ (setting.handler = "caip10" \/ ~Exposed) => Follows(state[n])

Tipwise == INSTANCE TipSync WITH
            log <- [n \in Node |-> state[n].log],
            Invalid <- Invalid \cup Refused,
            Flaky <- {}

(* What StreamLog and TipSync say of logs holds with these handlers: a     *)
(* commit whose content is refused is one more commit that is not valid.   *)
(* (TipSync has no handler that judges the same commit differently when it *)
(* cannot load something, nor one that keeps what it refused.  And where a *)
(* commit of a longer log is refused, those before it keep the time of the *)
(* anchor that was to follow, but those of a link have none.)              *)
Comparable ==
    /\ ~setting.misses
    /\ setting.handler # "mid" => ~setting.recon
    /\ setting.handler = "caip10" => Invalid = {} /\ \A c \in Commit : Expires[c] = 0
ImplementsTipSync ==
    /\ Comparable => Tipwise!Init
    /\ [][Comparable => Tipwise!Next]_(Tipwise!vars)
=============================================================================
