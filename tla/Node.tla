-------------------------------- MODULE Node --------------------------------
(***************************************************************************)
(* The life of a node: Ceramic.create, which opens its stores and starts   *)
(* its background workers one after the other, any of which may fail; and  *)
(* Ceramic.close, which takes them down while requests of clients and the  *)
(* anchor polling loop are still at work in the queues of the Repository   *)
(* (Lanes).  packages/core/src/ceramic.ts, repository.ts, ethereum-anchor- *)
(* service.ts and the stores.                                              *)
(*                                                                         *)
(* The body of a task uses, in order, the shutdown signal and the stores;  *)
(* it throws when what it uses is aborted or not open.  A behaviour is     *)
(* the life of a node, or one of its queues on their own (the Lanes).      *)
(***************************************************************************)
EXTENDS Lanes

CONSTANTS
    loadingQ, executionQ,
    Op,       \* [Task -> "load", "write" or "anchor"]
    After,    \* [Task -> the task of the same request that comes before, or NoTask]
    AnchorOf, \* [Task -> the task that handles the anchor of a write, or NoTask]
    Lives     \* the lives considered

ASSUME NodeAssumption ==
    /\ {loadingQ, executionQ} \subseteq Queue
    /\ Op \in [Task -> {"load", "write", "anchor"}]
    /\ After \in [Task -> Task \cup {NoTask}]
    /\ AnchorOf \in [Task -> Task \cup {NoTask}]
    /\ \A t \in Task : AnchorOf[t] # NoTask => Op[AnchorOf[t]] = "anchor"
    /\ \A l \in Lives : l.made \subseteq Task

VARIABLES
    life,     \* [node, made: tasks that may come, off: steps the configuration leaves out,
              \*  fails: steps of the start that may fail], for good
    state,    \* "starting", "up", "closing", "closed"
    step,     \* how far the start, or the close, is
    open,     \* the stores that are open
    workers,  \* what runs in the background
    aborted,  \* ShutdownSignal.shuttingDown
    fetched,  \* anchors the loop has an answer for
    done,     \* [Task -> how much of its body is done]
    threw,    \* tasks whose body threw
    kept      \* what is in the stores: <<store, task that wrote it>>

nodeVars == <<life, state, step, open, workers, aborted, fetched, done, threw, kept>>
allVars == <<vars, nodeVars>>
runtime == <<state, step, open, workers, aborted>>

Starting == << "feed", "pins", "requests", "index", "recon", "pubsub", "peers",
               "loop", "jobs", "checks", "metrics" >>
Closing == << "timer", "requests", "loop", "signal", "jobs", "pubsub", "recon",
              "loadingQ", "executionQ", "feed", "pins", "index", "peers", "kv" >>
Stores == {"feed", "pins", "requests", "index", "kv"}
Workers == {"cleanup", "recon", "pubsub", "peers", "loop", "jobs", "timer", "metrics"}

Uses(t) == CASE Op[t] = "write" -> << "signal", "pins", "requests" >>
             [] Op[t] = "load" -> << "pins" >>
             [] Op[t] = "anchor" -> << "pins" >>

-----------------------------------------------------------------------------
InitNode ==
    /\ Init
    /\ life \in Lives
    /\ state = "starting" /\ step = 1
    /\ open = {} /\ workers = {} /\ aborted = FALSE
    /\ fetched = {} /\ threw = {} /\ kept = {}
    /\ done = [t \in Task |-> 0]

(* Ceramic._init and what it calls.  The Level stores come from a factory  *)
(* that is never closed before the end; the index is a database.           *)
Opens(s) == CASE s \in {"feed", "pins", "requests"} -> {s, "kv"}
              [] s = "index" -> {s}
              [] OTHER -> {}
Starts(s) == CASE s = "feed" -> {"cleanup"}
               [] s \in {"recon", "pubsub", "peers", "loop", "jobs"} -> {s}
               [] s = "metrics" -> {"timer", "metrics"}
               [] OTHER -> {}

Skipped(s) == s \in life.off
Contradiction == "pubsub" \in life.off /\ "jobs" \notin life.off

StartStep ==
    /\ life.node /\ state = "starting" /\ step <= Len(Starting)
    /\ ~(Starting[step] = "checks" /\ Contradiction)
    /\ LET s == Starting[step] IN
       /\ open' = IF Skipped(s) THEN open ELSE open \cup Opens(s)
       /\ workers' = IF Skipped(s) THEN workers ELSE workers \cup Starts(s)
    /\ step' = IF step = Len(Starting) THEN 1 ELSE step + 1
    /\ state' = IF step = Len(Starting) THEN "up" ELSE "starting"
    /\ UNCHANGED <<vars, life, aborted, fetched, done, threw, kept>>

(* A step throws: _init closes the node before it passes the error on.     *)
StartFails ==
    /\ life.node /\ state = "starting"
    /\ ~Skipped(Starting[step])
    /\ Starting[step] \in life.fails \/ (Starting[step] = "checks" /\ Contradiction)
    /\ state' = "closing" /\ step' = 1
    /\ UNCHANGED <<vars, life, open, workers, aborted, fetched, done, threw, kept>>

(* The daemon has closed its HTTP server, and calls Ceramic.close.         *)
BeginCloseNode ==
    /\ life.node /\ state = "up"
    /\ state' = "closing" /\ step' = 1
    /\ UNCHANGED <<vars, life, open, workers, aborted, fetched, done, threw, kept>>

-----------------------------------------------------------------------------
At(s) == life.node /\ state = "closing" /\ Closing[step] = s

Advance ==
    /\ step' = IF step = Len(Closing) THEN 1 ELSE step + 1
    /\ state' = IF step = Len(Closing) THEN "closed" ELSE "closing"

Closes(s) == IF s \in Stores THEN {s} ELSE {}
Stops(s) == CASE s = "feed" -> {"cleanup"} [] s \in Workers -> {s} [] OTHER -> {}

(* A step of Ceramic.close, and of what it calls, that waits for nothing.  *)
CloseStep ==
    /\ \E s \in {Closing[i] : i \in DOMAIN Closing} \ {"loadingQ", "executionQ"} :
        /\ At(s)
        /\ open' = open \ Closes(s)
        /\ workers' = workers \ Stops(s)
        /\ aborted' = (aborted \/ s = "signal")
    /\ Advance
    /\ UNCHANGED <<vars, life, fetched, done, threw, kept>>

QueueNamed(s) == IF s = "loadingQ" THEN loadingQ ELSE executionQ

(* ExecutionQueue.close.  The caller of a task that is over has removed    *)
(* its lane before close() learns that the lane is idle.                   *)
CloseQueue ==
    /\ \E s \in {"loadingQ", "executionQ"} : At(s) /\ BeginClose(QueueNamed(s))
    /\ UNCHANGED nodeVars

QueueIsClosed ==
    /\ \E s \in {"loadingQ", "executionQ"} :
        /\ At(s) /\ PauseLanes(QueueNamed(s))
        /\ \A t \in Task : q(t) = QueueNamed(s) => pc[t] # "finished"
    /\ Advance
    /\ UNCHANGED <<life, open, workers, aborted, fetched, done, threw, kept>>

-----------------------------------------------------------------------------
(* A request of a client begins while the node serves; a request that is   *)
(* under way goes on with its next task although the node is closing.      *)
Submit(t) ==
    /\ life.node /\ t \in life.made
    /\ Op[t] # "anchor"
    /\ Op[t] = "write" => "loop" \notin life.off
    /\ IF After[t] = NoTask THEN state = "up"
       ELSE pc[After[t]] = "settled" /\ After[t] \notin threw
    /\ Run(t)
    /\ UNCHANGED nodeVars

(* The next thing a body does.                                             *)
BodyStep(t) ==
    LET r == Uses(t)[done[t] + 1] IN
    /\ life.node /\ Holds(t)
    /\ t \notin threw /\ done[t] < Len(Uses(t))
    /\ done[t] = 1 /\ Child[t] # NoTask => pc[Child[t]] = "settled"
    /\ IF (r = "signal" /\ ~aborted) \/ r \in open
       THEN /\ threw' = IF done[t] = 1 /\ Child[t] \in threw THEN threw \cup {t} ELSE threw
            /\ done' = [done EXCEPT ![t] = @ + 1]
            /\ kept' = IF r = "signal" \/ t \in threw' \/ Op[t] = "load" THEN kept
                       ELSE kept \cup {<<r, t>>}
       ELSE /\ threw' = threw \cup {t}
            /\ UNCHANGED <<done, kept>>
    /\ UNCHANGED <<vars, life, runtime, fetched>>

BodyOver(t) == t \in threw \/ done[t] = Len(Uses(t))

(* Mutant: the anchor request is saved in the background.                  *)
ReturnEarly(t) ==
    /\ life.node => t \in threw \/ done[t] >= Len(Uses(t)) - 1
    /\ Finish(t)
    /\ UNCHANGED nodeVars

Return(t) ==
    /\ life.node => BodyOver(t)
    /\ Finish(t)
    /\ UNCHANGED nodeVars

LoadModel(t) ==
    /\ life.node => t \notin threw /\ done[t] = 1
    /\ RunChild(t)
    /\ UNCHANGED nodeVars

QueueStep(t) == (Acquire(t) \/ LaneNext(t) \/ Remove(t)) /\ UNCHANGED nodeVars

-----------------------------------------------------------------------------
(* The anchor polling loop: it finds the request of a write in the store   *)
(* and asks the anchor service, which has an answer.                       *)
FetchAnchor(t) ==
    /\ life.node /\ "loop" \in workers /\ "requests" \in open
    /\ AnchorOf[t] \in life.made /\ AnchorOf[t] \notin fetched
    /\ <<"requests", t>> \in kept
    /\ fetched' = fetched \cup {AnchorOf[t]}
    /\ UNCHANGED <<vars, life, runtime, done, threw, kept>>

(* The loop does not stop a handler that it has called: it only stops      *)
(* waiting for it.                                                         *)
HandleAnchor(h) ==
    /\ life.node /\ h \in fetched
    /\ Run(h)
    /\ UNCHANGED nodeVars

ForgetRequest(t) ==
    /\ AnchorOf[t] \in fetched
    /\ pc[AnchorOf[t]] = "settled" /\ AnchorOf[t] \notin threw
    /\ "requests" \in open /\ <<"requests", t>> \in kept
    /\ kept' = kept \ {<<"requests", t>>}
    /\ UNCHANGED <<vars, life, runtime, fetched, done, threw>>

-----------------------------------------------------------------------------
(* The queues on their own: any task comes, any queue is closed.           *)
OnItsOwn ==
    /\ ~life.node
    /\ \/ \E t \in life.made : Run(t)
       \/ \E x \in Queue : BeginClose(x)
    /\ UNCHANGED nodeVars

OwnPause ==
    /\ ~life.node
    /\ \E x \in Queue : PauseLanes(x)
    /\ UNCHANGED nodeVars

TaskStep(t) == BodyStep(t) \/ Return(t) \/ LoadModel(t) \/ QueueStep(t)
Shutdown == CloseStep \/ CloseQueue \/ QueueIsClosed

NextNode ==
    \/ StartStep \/ StartFails \/ BeginCloseNode \/ Shutdown
    \/ \E t \in Task :
        TaskStep(t) \/ Submit(t) \/ FetchAnchor(t) \/ HandleAnchor(t) \/ ForgetRequest(t)
    \/ OnItsOwn \/ OwnPause

SpecNode == InitNode /\ [][NextNode]_allVars

(* The event loop goes on with what has begun.  A chain of tasks that a    *)
(* client or the polling loop may go on with need not be gone on with.     *)
FairNode ==
    /\ SpecNode
    /\ \A t \in Task : WF_allVars(TaskStep(t))
    /\ WF_allVars(Shutdown)
    /\ WF_allVars(OwnPause)

-----------------------------------------------------------------------------
Writes == {t \in Task : Op[t] = "write"}

(* A client that was told its commit is applied finds it in the state      *)
(* store, and the node will ask for its anchor or has stored the anchor:   *)
(* whatever was closed in between, in the order in which close() does it,  *)
(* while the write was on its way through the queues.                      *)
AckedIsDurable ==
    \A t \in Writes : life.node /\ pc[t] = "settled" /\ t \notin threw =>
        /\ <<"pins", t>> \in kept
        /\ <<"requests", t>> \in kept \/ <<"pins", AnchorOf[t]>> \in kept

(* close() returns, and so does a start that fails: it waits till the      *)
(* tasks of its queues are done (ExecutionQueue.close).                    *)
NodeStops == life.node /\ state = "closing" ~> state = "closed"

(* A task that another one awaits sits in a lane that was paused, behind   *)
(* the task that ran there when close() paused it: no step takes it out.   *)
StrandedLoad ==
    \E t \in Task : IsChild(t) /\ pc[t] = "queued" /\ lane[NameOf[t]] \in paused

(* Whatever was begun ends, the tasks in the queues and the close() that   *)
(* waits for them, unless a load is stranded: a task that was submitted is *)
(* carried out and its caller is answered, or its queue is closed first.   *)
EverythingEnds ==
    /\ \A t \in Task : InQueue(t) ~> \/ pc[t] = "settled" \/ phase[q(t)] = "closed"
                                     \/ StrandedLoad
    /\ life.node /\ state = "closing" ~> state = "closed" \/ StrandedLoad
=============================================================================
