------------------------------ MODULE PinStore ------------------------------
(***************************************************************************)
(* Pinning one stream: PinStore.add and rm, called for updates and pins    *)
(* inside the stream's lane of the executionQ, for unpins and - when the   *)
(* stream is the model of another one - for that other stream's add        *)
(* outside of it.                                                          *)
(*                                                                         *)
(* The log of the stream's RunningState only grows here; its commits are   *)
(* 1..log.  What a commit needs besides itself (proof, path, link) is      *)
(* pinned with it.                                                         *)
(***************************************************************************)
EXTENDS Naturals, FiniteSets

CONSTANTS
    Call,      \* callers, each with one call at a time
    Settings,  \* the circumstances considered
    MaxLog,    \* bound on the commits of the stream
    MaxCalls   \* bound on the calls

AllOps == {"update", "pin", "forced pin", "unpin", "model"}
InLane == {"update", "pin", "forced pin"}

(* ops: what is called; overlap: unpins, and adds for another stream, may  *)
(* overlap other calls; late: a call may begin while unpins are still on   *)
(* their way; fail: the pinning backend may fail and the node crash;       *)
(* indexed: the stream belongs to a model that the node indexes.           *)
AllSettings == [ops : SUBSET AllOps, overlap : BOOLEAN, late : BOOLEAN, fail : BOOLEAN,
                indexed : BOOLEAN]

ASSUME PinStoreAssumption ==
    /\ Settings \subseteq AllSettings
    /\ MaxLog \in Nat \ {0} /\ MaxCalls \in Nat

VARIABLES
    setting,    \* one of Settings, for good
    log,        \* length of the RunningState's log
    marked,     \* RunningState.pinnedCommits, {} for null
    store,      \* length of the log in the state store, 0 if the stream is not there
    pinned,     \* commits pinned at the backend
    unpinning,  \* unpins rm has started and does not wait for
    pc,         \* [Call -> where the call is]
    op,         \* [Call -> what it is doing]
    todo,       \* [Call -> commits it has read and not yet pinned or unpinned]
    calls       \* calls made so far

pinVars == <<setting, log, marked, store, pinned, unpinning, pc, op, todo, calls>>

Commits == 1..log
Active(c) == pc[c] # "idle"
Quiet == \A c \in Call : ~Active(c)

-----------------------------------------------------------------------------
InitPins ==
    /\ setting \in Settings
    /\ log = 1
    /\ marked = {}
    /\ store = 0
    /\ pinned = {}
    /\ unpinning = {}
    /\ pc = [c \in Call |-> "idle"]
    /\ op = [c \in Call |-> "none"]
    /\ todo = [c \in Call |-> {}]
    /\ calls = 0

Goto(c, next) == pc' = [pc EXCEPT ![c] = next]

(* The lane admits one call at a time.  Nothing makes the other calls      *)
(* wait; without overlap, or late, only runs where they happen to are      *)
(* considered.                                                             *)
MayBegin(k) ==
    /\ k \in InLane => \A c \in Call : Active(c) => op[c] \notin InLane
    /\ setting.overlap \/ \A c \in Call :
            Active(c) => k \in InLane /\ op[c] \in InLane
    /\ setting.late \/ unpinning = {}

Begin(c, k, next) ==
    /\ ~Active(c) /\ calls < MaxCalls /\ k \in setting.ops /\ MayBegin(k)
    /\ calls' = calls + 1
    /\ op' = [op EXCEPT ![c] = k]
    /\ Goto(c, next)

(* A tip or a user's commit has been applied, and `state$.next` called.    *)
Update(c) ==
    /\ log < MaxLog
    /\ Begin(c, "update", "check")
    /\ log' = log + 1
    /\ UNCHANGED <<setting, marked, store, pinned, unpinning, todo>>

(* _updateStateIfPinned looks into the state store; a stream of an indexed *)
(* model is pinned in any case.                                            *)
IsPinned(c) ==
    /\ pc[c] = "check"
    /\ Goto(c, IF store > 0 \/ setting.indexed THEN "add" ELSE "idle")
    /\ UNCHANGED <<setting, log, marked, store, pinned, unpinning, op, todo, calls>>

(* pin() of a client, or the add of a stream whose model this one is.      *)
Pin(c) ==
    /\ \E k \in {"pin", "forced pin", "model"} : Begin(c, k, "add")
    /\ UNCHANGED <<setting, log, marked, store, pinned, unpinning, todo>>

NewCommits(c) == IF op[c] = "forced pin" THEN Commits ELSE Commits \ marked

(* PinStore.add, up to its first await.                                    *)
Add(c) ==
    /\ pc[c] = "add"
    /\ todo' = [todo EXCEPT ![c] = NewCommits(c)]
    /\ Goto(c, IF NewCommits(c) = {} THEN "idle" ELSE "pinning")
    /\ UNCHANGED <<setting, log, marked, store, pinned, unpinning, op, calls>>

PinCommit(c, p) ==
    /\ pc[c] = "pinning"
    /\ p \in todo[c]
    /\ pinned' = pinned \cup {p}
    /\ todo' = [todo EXCEPT ![c] = @ \ {p}]
    /\ UNCHANGED <<setting, log, marked, store, unpinning, pc, op, calls>>

(* Mutant: the state is saved while its commits are being pinned.          *)
SaveEarly(c) ==
    /\ pc[c] = "pinning"
    /\ store' = log
    /\ Goto(c, "mark")
    /\ UNCHANGED <<setting, log, marked, pinned, unpinning, op, todo, calls>>

(* The state that is saved is the one of now.                              *)
SavePinned(c) ==
    /\ pc[c] = "pinning"
    /\ todo[c] = {}
    /\ store' = log
    /\ Goto(c, "mark")
    /\ UNCHANGED <<setting, log, marked, pinned, unpinning, op, todo, calls>>

MarkAsPinned(c) ==
    /\ pc[c] = "mark"
    /\ marked' = Commits
    /\ Goto(c, "idle")
    /\ UNCHANGED <<setting, log, store, pinned, unpinning, op, todo, calls>>

(* The backend fails: add throws, its pins that are on their way are made  *)
(* or not.                                                                 *)
PinFails(c) ==
    /\ setting.fail
    /\ pc[c] = "pinning"
    /\ todo[c] # {}
    /\ todo' = [todo EXCEPT ![c] = {}]
    /\ Goto(c, "idle")
    /\ UNCHANGED <<setting, log, marked, store, pinned, unpinning, op, calls>>

Unpin(c) ==
    /\ Begin(c, "unpin", "unpin")
    /\ todo' = [todo EXCEPT ![c] = Commits]
    /\ UNCHANGED <<setting, log, marked, store, pinned, unpinning>>

(* rm starts the unpins, and the removal without waiting for them.         *)
StartUnpinning(c) ==
    /\ pc[c] = "unpin"
    /\ unpinning' = unpinning \cup todo[c]
    /\ todo' = [todo EXCEPT ![c] = {}]
    /\ Goto(c, "remove")
    /\ UNCHANGED <<setting, log, marked, store, pinned, op, calls>>

UnpinCommit(p) ==
    /\ p \in unpinning
    /\ unpinning' = unpinning \ {p}
    /\ pinned' = pinned \ {p}
    /\ UNCHANGED <<setting, log, marked, store, pc, op, todo, calls>>

Remove(c) ==
    /\ pc[c] = "remove"
    /\ store' = 0
    /\ Goto(c, "unmark")
    /\ UNCHANGED <<setting, log, marked, pinned, unpinning, op, todo, calls>>

MarkAsUnpinned(c) ==
    /\ pc[c] = "unmark"
    /\ marked' = {}
    /\ Goto(c, "idle")
    /\ UNCHANGED <<setting, log, store, pinned, unpinning, op, todo, calls>>

(* The node restarts.  Unpins already sent may still take effect.          *)
CrashPins ==
    /\ setting.fail
    /\ ~Quiet
    /\ log' = IF store > 0 THEN store ELSE log
    /\ marked' = 1..store
    /\ pc' = [c \in Call |-> "idle"]
    /\ todo' = [c \in Call |-> {}]
    /\ UNCHANGED <<setting, store, pinned, unpinning, op, calls>>

NextPins ==
    \/ \E c \in Call :
        \/ Update(c) \/ IsPinned(c)
        \/ Pin(c) \/ Add(c) \/ SavePinned(c) \/ MarkAsPinned(c) \/ PinFails(c)
        \/ \E p \in 1..MaxLog : PinCommit(c, p)
        \/ Unpin(c) \/ StartUnpinning(c) \/ Remove(c) \/ MarkAsUnpinned(c)
    \/ \E p \in 1..MaxLog : UnpinCommit(p)
    \/ CrashPins

SpecPins == InitPins /\ [][NextPins]_pinVars

-----------------------------------------------------------------------------
(* What is stored, pinned and marked, and where each call stands.          *)
PinsTypeOK ==
    /\ setting \in Settings
    /\ log \in 1..MaxLog
    /\ store \in 0..MaxLog
    /\ marked \subseteq 1..MaxLog /\ pinned \subseteq 1..MaxLog
    /\ unpinning \subseteq 1..MaxLog
    /\ pc \in [Call -> {"idle", "check", "add", "pinning", "mark", "unpin", "remove", "unmark"}]
    /\ op \in [Call -> setting.ops \cup {"none"}]
    /\ todo \in [Call -> SUBSET (1..MaxLog)]
    /\ \A c \in Call : todo[c] # {} => pc[c] \in {"pinning", "unpin"}
    /\ calls \in 0..MaxCalls

BeingUnpinned == \E c \in Call : Active(c) /\ op[c] = "unpin"

(* Calls outside of the lane happen to come one after the other; and no    *)
(* unpin is left half done.                                                *)
Orderly == ~setting.overlap /\ ~setting.late
Whole == setting.fail => "unpin" \notin setting.ops

(* PinStore.add writes a state only when its commits are pinned: at no     *)
(* time, through updates, pins that fail and crashes, does the store hold  *)
(* a log with an unpinned commit, or a RunningState mark one, which later  *)
(* calls would skip.                                                       *)
StoredIsPinned ==
    Orderly /\ Whole /\ ~BeingUnpinned => 1..store \cup marked \subseteq pinned

=============================================================================
