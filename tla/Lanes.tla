------------------------------- MODULE Lanes -------------------------------
(***************************************************************************)
(* The two ExecutionQueues of the Repository, loadingQ and executionQ: a   *)
(* NamedTaskQueue (one lane, a PQueue of concurrency 1, per stream) whose  *)
(* lanes compete for the permits of one semaphore per queue                *)
(* (packages/core/src/state-management/{execution-queue,named-task-queue}  *)
(* .ts and ancillary/task-queue.ts).                                       *)
(*                                                                         *)
(* A task may wait, while it runs, for another task: applying a commit of  *)
(* a model instance loads its model through the same queue.  A lane is an  *)
(* object of its own, named here by the task whose arrival created it.     *)
(***************************************************************************)
EXTENDS Naturals, Sequences, FiniteSets

CONSTANTS
    Task, NoTask,
    Name,       \* a stream within a queue
    Queue,
    NameOf,     \* [Task -> Name]
    QueueOf,    \* [Name -> Queue]
    Limit,      \* [Queue -> concurrency limit]
    Child       \* [Task -> the task it runs and awaits, or NoTask]

ASSUME TaskAssumption ==
    /\ NoTask \notin Task
    /\ NameOf \in [Task -> Name]
    /\ QueueOf \in [Name -> Queue]
    /\ Limit \in [Queue -> Nat \ {0}]
    /\ Child \in [Task -> Task \cup {NoTask}]

VARIABLES
    pc,         \* [Task -> where the task is]
    lane,       \* NamedTaskQueue.lanes: [Name -> lane, or NoTask when absent]
    queue,      \* tasks waiting in each lane
    active,     \* the task that occupies each lane, or NoTask
    paused,     \* lanes on which pause() was called
    waiters,    \* tasks waiting for a permit of each semaphore
    permits,    \* free permits of each semaphore
    phase,      \* [Queue -> how far its close() is]
    draining,   \* lanes that the pending onIdle() of each queue waits for
    present     \* history: tasks in a queue when its close() was called

laneVars == <<lane, queue, active, paused>>
permitVars == <<waiters, permits>>
closeVars == <<phase, draining, present>>
vars == <<pc, laneVars, permitVars, closeVars>>

Status == {"new", "queued", "acquiring", "running", "waiting", "released", "finished", "settled"}

q(t) == QueueOf[NameOf[t]]
Holds(t) == pc[t] \in {"running", "waiting"}
Occupies(t) == pc[t] \in {"acquiring", "running", "waiting", "released"}
IsChild(t) == \E p \in Task : Child[p] = t
Idle(l) == active[l] = NoTask /\ queue[l] = <<>>

-----------------------------------------------------------------------------
Init ==
    /\ pc = [t \in Task |-> "new"]
    /\ lane = [n \in Name |-> NoTask]
    /\ queue = [l \in Task |-> <<>>]
    /\ active = [l \in Task |-> NoTask]
    /\ paused = {}
    /\ waiters = [x \in Queue |-> <<>>]
    /\ permits = Limit
    /\ phase = [x \in Queue |-> "open"]
    /\ draining = [x \in Queue |-> {}]
    /\ present = [x \in Queue |-> {}]

(* The lane that run() and add() put task t in: found or created.          *)
LaneFor(t) == IF lane[NameOf[t]] = NoTask THEN t ELSE lane[NameOf[t]]

(* PQueue starts a task at once in a lane that is idle and not paused; the *)
(* task then asks for a permit (Semaphore.use).                            *)
Enqueue(t, others) ==
    LET l == LaneFor(t) IN
    /\ lane' = [lane EXCEPT ![NameOf[t]] = l]
    /\ \/ /\ Idle(l) /\ l \notin paused
          /\ active' = [active EXCEPT ![l] = t]
          /\ pc' = [others EXCEPT ![t] = "acquiring"]
          /\ waiters' = [waiters EXCEPT ![q(t)] = Append(@, t)]
          /\ UNCHANGED queue
       \/ /\ ~Idle(l) \/ l \in paused
          /\ queue' = [queue EXCEPT ![l] = Append(@, t)]
          /\ pc' = [others EXCEPT ![t] = "queued"]
          /\ UNCHANGED <<active, waiters>>
    /\ UNCHANGED <<paused, permits, closeVars>>

(* forStream(..).run or .add by code that is not itself in a queue.        *)
Run(t) ==
    /\ pc[t] = "new"
    /\ ~IsChild(t)
    /\ Enqueue(t, pc)

(* Mutant of Acquire: the semaphore does not count.                        *)
AcquireFreely(t) ==
    /\ pc[t] = "acquiring"
    /\ waiters[q(t)] # <<>> /\ Head(waiters[q(t)]) = t
    /\ permits' = [permits EXCEPT ![q(t)] = @ - 1]
    /\ waiters' = [waiters EXCEPT ![q(t)] = Tail(@)]
    /\ pc' = [pc EXCEPT ![t] = "running"]
    /\ UNCHANGED <<laneVars, closeVars>>

(* Semaphore: the first waiter takes a permit and its task begins.         *)
Acquire(t) ==
    /\ pc[t] = "acquiring"
    /\ waiters[q(t)] # <<>> /\ Head(waiters[q(t)]) = t
    /\ permits[q(t)] > 0
    /\ permits' = [permits EXCEPT ![q(t)] = @ - 1]
    /\ waiters' = [waiters EXCEPT ![q(t)] = Tail(@)]
    /\ pc' = [pc EXCEPT ![t] = "running"]
    /\ UNCHANGED <<laneVars, closeVars>>

(* A running task runs another one and awaits it, permit in hand.          *)
RunChild(t) ==
    /\ pc[t] = "running"
    /\ Child[t] # NoTask
    /\ pc[Child[t]] = "new"
    /\ Enqueue(Child[t], [pc EXCEPT ![t] = "waiting"])

(* Mutant of Finish: the permit is lost, as if on a throw.                 *)
FinishWithPermit(t) ==
    /\ pc[t] = "waiting" => pc[Child[t]] = "settled"
    /\ Holds(t)
    /\ pc' = [pc EXCEPT ![t] = "released"]
    /\ UNCHANGED <<laneVars, permitVars, closeVars>>

(* The body of the task returns, or throws, perhaps before it has run the  *)
(* other one: the permit is given back.                                    *)
Finish(t) ==
    /\ pc[t] = "waiting" => pc[Child[t]] = "settled"
    /\ Holds(t)
    /\ permits' = [permits EXCEPT ![q(t)] = @ + 1]
    /\ pc' = [pc EXCEPT ![t] = "released"]
    /\ UNCHANGED <<laneVars, waiters, closeVars>>

(* Some microtasks later PQueue learns of it and starts the next task of   *)
(* the lane, or emits `idle`.                                              *)
LaneNext(t) == \E l \in Task :
    /\ pc[t] = "released" /\ active[l] = t
    /\ \/ /\ queue[l] # <<>> /\ l \notin paused
          /\ queue' = [queue EXCEPT ![l] = Tail(@)]
          /\ active' = [active EXCEPT ![l] = Head(queue[l])]
          /\ pc' = [pc EXCEPT ![t] = "finished", ![Head(queue[l])] = "acquiring"]
          /\ waiters' = [waiters EXCEPT ![q(t)] = Append(@, Head(queue[l]))]
          /\ UNCHANGED draining
       \/ /\ queue[l] = <<>> \/ l \in paused
          /\ active' = [active EXCEPT ![l] = NoTask]
          /\ pc' = [pc EXCEPT ![t] = "finished"]
          /\ draining' = IF queue[l] = <<>>
                         THEN [draining EXCEPT ![q(t)] = @ \ {l}] ELSE draining
          /\ UNCHANGED <<queue, waiters>>
    /\ UNCHANGED <<lane, paused, permits, phase, present>>

(* The `finally` of run() and add(): drop the lane if nothing is left in   *)
(* it.  Only then does the caller of run() learn the result.               *)
Remove(t) ==
    LET l == lane[NameOf[t]] IN
    /\ pc[t] = "finished"
    /\ pc' = [pc EXCEPT ![t] = "settled"]
    /\ lane' = IF l # NoTask /\ Idle(l) THEN [lane EXCEPT ![NameOf[t]] = NoTask] ELSE lane
    /\ UNCHANGED <<queue, active, paused, permitVars, closeVars>>

(* close(): wait until the lanes present now have been idle once ...       *)
LanesOf(x) == {lane[n] : n \in {m \in Name : QueueOf[m] = x /\ lane[m] # NoTask}}

InQueue(t) == pc[t] = "queued" \/ Occupies(t)

(* Mutant: the lanes are paused before they are waited for.                *)
PauseFirst(x) ==
    /\ phase[x] = "open"
    /\ phase' = [phase EXCEPT ![x] = "draining"]
    /\ paused' = paused \cup LanesOf(x)
    /\ draining' = [draining EXCEPT ![x] = {l \in LanesOf(x) : ~Idle(l)}]
    /\ present' = [present EXCEPT ![x] = {t \in Task : q(t) = x /\ InQueue(t)}]
    /\ UNCHANGED <<pc, lane, queue, active, permitVars>>

BeginClose(x) ==
    /\ phase[x] = "open"
    /\ phase' = [phase EXCEPT ![x] = "draining"]
    /\ draining' = [draining EXCEPT ![x] = {l \in LanesOf(x) : ~Idle(l)}]
    /\ present' = [present EXCEPT ![x] = {t \in Task : q(t) = x /\ InQueue(t)}]
    /\ UNCHANGED <<pc, laneVars, permitVars>>

(* ... then pause the lanes that are present by that time.                 *)
PauseLanes(x) ==
    /\ phase[x] = "draining"
    /\ draining[x] = {}
    /\ phase' = [phase EXCEPT ![x] = "closed"]
    /\ paused' = paused \cup LanesOf(x)
    /\ UNCHANGED <<pc, lane, queue, active, permitVars, draining, present>>

Next ==
    \/ \E t \in Task :
        \/ Run(t) \/ Acquire(t) \/ RunChild(t) \/ Finish(t) \/ LaneNext(t) \/ Remove(t)
    \/ \E x \in Queue : BeginClose(x) \/ PauseLanes(x)

Spec == Init /\ [][Next]_vars

(* Nothing but the event loop is needed for these steps; whether a task is *)
(* ever submitted, or a queue closed, is up to the callers.                *)
Fairness ==
    /\ \A t \in Task :
        /\ WF_vars(Acquire(t)) /\ WF_vars(RunChild(t)) /\ WF_vars(Finish(t))
        /\ WF_vars(LaneNext(t)) /\ WF_vars(Remove(t))
    /\ \A x \in Queue : WF_vars(PauseLanes(x))

FairSpec == Spec /\ Fairness

-----------------------------------------------------------------------------
(* Every task has a status, a lane holds tasks, and permits are counted.   *)
TypeOK ==
    /\ pc \in [Task -> Status]
    /\ lane \in [Name -> Task \cup {NoTask}]
    /\ queue \in [Task -> Seq(Task)]
    /\ active \in [Task -> Task \cup {NoTask}]
    /\ paused \subseteq Task
    /\ waiters \in [Queue -> Seq(Task)]
    /\ permits \in [Queue -> Nat]
    /\ phase \in [Queue -> {"open", "draining", "closed"}]
    /\ draining \in [Queue -> SUBSET Task]
    /\ present \in [Queue -> SUBSET Task]

(* Two tasks for the same stream in the same queue are never under way     *)
(* together, although lanes are deleted and created again while tasks come *)
(* and go (Repository relies on it for every write of the state store).    *)
MutualExclusion ==
    \A t, u \in Task : Occupies(t) /\ Occupies(u) /\ NameOf[t] = NameOf[u] => t = u

(* A task that is queued or under way sits in the lane that the next task  *)
(* for the stream will be put in: no lane is dropped from the map with     *)
(* something in it.                                                        *)
NoOrphanLane ==
    \A l \in Task :
        /\ active[l] # NoTask => lane[NameOf[active[l]]] = l
        /\ \A i \in 1..Len(queue[l]) : lane[NameOf[queue[l][i]]] = l

-----------------------------------------------------------------------------
(* What a caller relies on: one FIFO queue of tasks per stream.            *)
absPhase == [t \in Task |->
    CASE pc[t] = "new" -> "new"
      [] pc[t] \in {"queued", "acquiring"} -> "accepted"
      [] Holds(t) -> "executing"
      [] pc[t] \in {"released", "finished", "settled"} -> "done"]

Unfinished(l) ==
    IF active[l] # NoTask /\ pc[active[l]] # "released" THEN <<active[l]>> ELSE <<>>

absOrder == [n \in Name |->
    IF lane[n] = NoTask THEN <<>> ELSE Unfinished(lane[n]) \o queue[lane[n]]]

Serial == INSTANCE SerialLanes WITH phase <- absPhase, order <- absOrder

(* Lanes implement it: whatever becomes of lanes and permits, the tasks    *)
(* for one stream execute one by one in the order they were submitted, and *)
(* no more than Limit of them at a time.                                   *)
ImplementsSerialLanes == Serial!Spec
=============================================================================
