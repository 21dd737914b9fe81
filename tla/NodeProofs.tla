----------------------------- MODULE NodeProofs -----------------------------
(***************************************************************************)
(* What the queues promise, for any tasks, streams and limits: tasks of a  *)
(* stream one at a time and in order.  Then, that they do so inside a node *)
(* and that the node keeps what it told its clients, however far its start *)
(* came, and at whatever point of a request it is closed.                  *)
(***************************************************************************)
EXTENDS Node, FiniteSetTheorems, TLAPS

(* A lane is in the map under the stream of the task that created it, and  *)
(* a task that has not been submitted has created none.                    *)
LanesNamed ==
    /\ \A n \in Name : lane[n] # NoTask => NameOf[lane[n]] = n
    /\ \A n \in Name : lane[n] # NoTask => pc[lane[n]] # "new"

(* The occupant of a lane is under way, and whoever is under way occupies  *)
(* a lane.                                                                 *)
ActiveIsOccupant ==
    /\ \A l \in Task : active[l] # NoTask => Occupies(active[l])
    /\ \A t \in Task : Occupies(t) => \E l \in Task : active[l] = t

(* Tasks queued in a lane are queued, and once.                            *)
QueuesSound ==
    \A l \in Task :
        /\ \A i \in 1..Len(queue[l]) : pc[queue[l][i]] = "queued"
        /\ \A i, j \in 1..Len(queue[l]) : queue[l][i] = queue[l][j] => i = j

IInv == TypeOK /\ NoOrphanLane /\ LanesNamed /\ ActiveIsOccupant /\ QueuesSound

-----------------------------------------------------------------------------
(* No task has been added, so that the invariant holds at the start.       *)
LEMMA InitIInv == Init => IInv
BY TaskAssumption DEF Init, IInv, TypeOK, NoOrphanLane, LanesNamed, ActiveIsOccupant,
    QueuesSound, Occupies, Status

(* Submitting a task, by a caller or by a task that awaits it.             *)
LEMMA EnqueueIInv ==
    ASSUME IInv, NEW t \in Task, pc[t] = "new", NEW others \in [Task -> Status],
           \A u \in Task : others[u] = pc[u] \/ (pc[u] = "running" /\ others[u] = "waiting"),
           Enqueue(t, others)
    PROVE  IInv'
<1> DEFINE l == LaneFor(t)
<1>1. l \in Task /\ NameOf[t] \in Name /\ q(t) \in Queue
    BY TaskAssumption DEF IInv, TypeOK, LaneFor, q
<1>2. /\ lane' = [lane EXCEPT ![NameOf[t]] = l]
      /\ \A n \in Name : lane[n] # NoTask => lane'[n] = lane[n]
      /\ lane'[NameOf[t]] = l
    BY <1>1 DEF Enqueue, IInv, TypeOK, LaneFor
<1>3. \A k \in Task : \A i \in 1..Len(queue[k]) : queue[k][i] \in Task
    BY DEF IInv, TypeOK
<1>4. ASSUME NEW s \in {"acquiring", "queued"}, pc' = [others EXCEPT ![t] = s]
      PROVE  /\ pc' \in [Task -> Status] /\ pc'[t] = s
             /\ \A u \in Task : pc[u] = "queued" => pc'[u] = "queued"
             /\ \A u \in Task : Occupies(u) => Occupies(u)'
             /\ \A u \in Task : u # t => (Occupies(u)' => Occupies(u))
             /\ \A u \in Task : pc'[u] = "new" => pc[u] = "new" /\ u # t
    BY <1>4 DEF IInv, TypeOK, Occupies, Status
<1>5. ASSUME pc' \in [Task -> Status],
             \A u \in Task : pc'[u] = "new" => pc[u] = "new" /\ u # t
      PROVE  LanesNamed'
    BY <1>1, <1>2, <1>5, TaskAssumption DEF IInv, TypeOK, LanesNamed, LaneFor
<1>8. /\ \A k \in Task : k # NoTask /\ NameOf[k] \in Name
      /\ \A k \in Task : active[k] # NoTask => active[k] \in Task
    BY TaskAssumption DEF IInv, TypeOK
<1>6. CASE /\ Idle(l)
           /\ active' = [active EXCEPT ![l] = t]
           /\ pc' = [others EXCEPT ![t] = "acquiring"]
           /\ waiters' = [waiters EXCEPT ![q(t)] = Append(@, t)]
           /\ UNCHANGED queue
  <2>1. TypeOK'
    <3>1. lane' \in [Name -> Task \cup {NoTask}] /\ pc' \in [Task -> Status]
      BY <1>1, <1>2, <1>4, <1>6 DEF IInv, TypeOK
    <3>2. active' \in [Task -> Task \cup {NoTask}] /\ queue' \in [Task -> Seq(Task)]
      BY <1>1, <1>6 DEF IInv, TypeOK
    <3>3. waiters' \in [Queue -> Seq(Task)]
      BY <1>1, <1>6 DEF IInv, TypeOK
    <3>4. UNCHANGED <<paused, permits, phase, draining, present>>
      BY DEF Enqueue, closeVars
    <3> QED
      BY <3>1, <3>2, <3>3, <3>4 DEF IInv, TypeOK
  <2>2. active'[l] = t /\ \A k \in Task : k # l => active'[k] = active[k]
    BY <1>1, <1>6 DEF IInv, TypeOK
  <2>3. NoOrphanLane'
    <3>1. ASSUME NEW k \in Task, active'[k] # NoTask PROVE lane'[NameOf[active'[k]]] = k
      BY <1>2, <1>8, <2>2, <3>1 DEF IInv, NoOrphanLane
    <3>2. ASSUME NEW k \in Task, NEW i \in 1..Len(queue[k]) PROVE lane'[NameOf[queue[k][i]]] = k
      BY <1>2, <1>3, <1>8, <3>2 DEF IInv, NoOrphanLane
    <3> QED
      BY <1>6, <3>1, <3>2 DEF NoOrphanLane
  <2>4. LanesNamed'
    BY <1>4, <1>5, <1>6
  <2>5. ActiveIsOccupant'
    <3>1. Occupies(t)' /\ t # NoTask
      BY <1>4, <1>6, TaskAssumption DEF Occupies
    <3>2. ASSUME NEW k \in Task, active'[k] # NoTask PROVE Occupies(active[k])'
      BY <1>4, <1>6, <2>2, <3>1, <3>2 DEF IInv, TypeOK, ActiveIsOccupant, Occupies
    <3>3. ASSUME NEW u \in Task, Occupies(u)' PROVE \E k \in Task : active'[k] = u
      BY <1>1, <1>4, <1>6, <2>2, <3>3, TaskAssumption DEF IInv, TypeOK, ActiveIsOccupant, Idle
    <3> QED
      BY <3>2, <3>3 DEF ActiveIsOccupant
  <2>6. QueuesSound'
    BY <1>3, <1>4, <1>6 DEF IInv, QueuesSound
  <2> QED
    BY <2>1, <2>3, <2>4, <2>5, <2>6 DEF IInv
<1>7. CASE /\ queue' = [queue EXCEPT ![l] = Append(@, t)]
           /\ pc' = [others EXCEPT ![t] = "queued"]
           /\ UNCHANGED <<active, waiters>>
  <2>1. TypeOK'
    <3>1. lane' \in [Name -> Task \cup {NoTask}] /\ pc' \in [Task -> Status]
      BY <1>1, <1>2, <1>4, <1>7 DEF IInv, TypeOK
    <3>2. active' \in [Task -> Task \cup {NoTask}] /\ queue' \in [Task -> Seq(Task)]
      BY <1>1, <1>7 DEF IInv, TypeOK
    <3>3. waiters' \in [Queue -> Seq(Task)]
      BY <1>1, <1>7 DEF IInv, TypeOK
    <3>4. UNCHANGED <<paused, permits, phase, draining, present>>
      BY DEF Enqueue, closeVars
    <3> QED
      BY <3>1, <3>2, <3>3, <3>4 DEF IInv, TypeOK
  <2>2. /\ \A k \in Task : k # l => queue'[k] = queue[k]
        /\ Len(queue'[l]) = Len(queue[l]) + 1
        /\ queue'[l][Len(queue[l]) + 1] = t
        /\ \A i \in 1..Len(queue[l]) : queue'[l][i] = queue[l][i]
        /\ Len(queue[l]) \in Nat
    BY <1>1, <1>7 DEF IInv, TypeOK
  <2>3. NoOrphanLane'
    <3>1. ASSUME NEW k \in Task, active[k] # NoTask PROVE lane'[NameOf[active[k]]] = k
      BY <1>2, <3>1, TaskAssumption DEF IInv, TypeOK, NoOrphanLane
    <3>2. ASSUME NEW k \in Task, NEW i \in 1..Len(queue'[k]) PROVE lane'[NameOf[queue'[k][i]]] = k
      <4>1. CASE i \in 1..Len(queue[k])
        BY <1>2, <1>3, <1>8, <2>2, <4>1 DEF IInv, NoOrphanLane
      <4>2. CASE i \notin 1..Len(queue[k])
        BY <1>1, <1>2, <2>2, <3>2, <4>2
      <4> QED
        BY <4>1, <4>2
    <3> QED
      BY <1>7, <3>1, <3>2 DEF NoOrphanLane
  <2>4. LanesNamed'
    BY <1>4, <1>5, <1>7
  <2>5. ActiveIsOccupant'
    <3>1. ~Occupies(t)'
      BY <1>4, <1>7 DEF Occupies
    <3> QED
      BY <1>4, <1>7, <3>1 DEF IInv, TypeOK, ActiveIsOccupant, Occupies
  <2>6. QueuesSound'
    <3>1. ASSUME NEW k \in Task, NEW i \in 1..Len(queue[k]) PROVE queue[k][i] # t
      BY <1>3, <3>1 DEF IInv, QueuesSound
    <3>2. ASSUME NEW k \in Task, NEW i \in 1..Len(queue'[k]) PROVE pc'[queue'[k][i]] = "queued"
      BY <1>1, <1>3, <1>4, <1>7, <2>2, <3>2 DEF IInv, QueuesSound
    <3>3. ASSUME NEW k \in Task, NEW i \in 1..Len(queue'[k]), NEW j \in 1..Len(queue'[k]),
                 queue'[k][i] = queue'[k][j]
          PROVE  i = j
      BY <1>1, <2>2, <3>1, <3>3 DEF IInv, QueuesSound
    <3> QED
      BY <3>2, <3>3 DEF QueuesSound
  <2> QED
    BY <2>1, <2>3, <2>4, <2>5, <2>6 DEF IInv
<1> QED
    BY <1>6, <1>7 DEF Enqueue

-----------------------------------------------------------------------------
(* Steps that touch no lane and keep every task where it is.               *)
LEMMA InPlaceIInv ==
    ASSUME IInv, TypeOK', UNCHANGED laneVars,
           \A u \in Task : /\ Occupies(u)' <=> Occupies(u)
                           /\ pc[u] = "queued" => pc'[u] = "queued"
                           /\ pc'[u] = "new" => pc[u] = "new"
    PROVE  IInv'
<1>1. NoOrphanLane' /\ LanesNamed'
    BY DEF IInv, TypeOK, NoOrphanLane, LanesNamed, laneVars
<1>2. ActiveIsOccupant'
  <2>1. ASSUME NEW k \in Task, active'[k] # NoTask PROVE Occupies(active[k])'
    <3>1. active[k] \in Task /\ Occupies(active[k])
      BY <2>1 DEF IInv, TypeOK, ActiveIsOccupant, laneVars
    <3> QED
      BY <3>1, <2>1 DEF laneVars
  <2>2. active' = active
    BY DEF laneVars
  <2> QED
    BY <2>1, <2>2 DEF IInv, ActiveIsOccupant, Occupies
<1>3. QueuesSound'
  <2>1. \A k \in Task : \A i \in 1..Len(queue[k]) : queue[k][i] \in Task
    BY DEF IInv, TypeOK
  <2> QED
    BY <2>1 DEF IInv, QueuesSound, laneVars
<1> QED
    BY <1>1, <1>2, <1>3 DEF IInv

(* A task that takes a permit, or waits for one, keeps its place in its    *)
(* lane (execution-queue.ts).                                              *)
LEMMA AcquireIInv == ASSUME IInv, NEW t \in Task, Acquire(t) PROVE IInv'
<1>1. q(t) \in Queue
    BY TaskAssumption DEF q
<1>2. TypeOK'
  <2>1. pc' \in [Task -> Status] /\ permits' \in [Queue -> Nat]
    BY <1>1 DEF Acquire, IInv, TypeOK, Status
  <2>2. waiters' \in [Queue -> Seq(Task)]
    BY <1>1 DEF Acquire, IInv, TypeOK
  <2> QED
    BY <2>1, <2>2 DEF Acquire, IInv, TypeOK, laneVars, closeVars
<1> QED
    BY <1>2, InPlaceIInv DEF Acquire, IInv, TypeOK, Occupies

(* A task that ends its work and gives back its permit still occupies its  *)
(* lane until LaneNext.                                                    *)
LEMMA FinishIInv == ASSUME IInv, NEW t \in Task, Finish(t) PROVE IInv'
<1>1. q(t) \in Queue
    BY TaskAssumption DEF q
<1>2. TypeOK'
  <2>1. pc' \in [Task -> Status] /\ permits' \in [Queue -> Nat]
    BY <1>1 DEF Finish, IInv, TypeOK, Status
  <2> QED
    BY <2>1 DEF Finish, IInv, TypeOK, laneVars, closeVars
<1> QED
    BY <1>2, InPlaceIInv DEF Finish, IInv, TypeOK, Occupies, Holds

(* Closing a queue pauses lanes; it neither adds a task nor removes one.   *)
LEMMA CloseIInv ==
    ASSUME IInv, NEW x \in Queue, BeginClose(x) \/ PauseLanes(x) PROVE IInv'
<1>1. LanesOf(x) \subseteq Task
    BY DEF LanesOf, IInv, TypeOK
<1>2. TypeOK'
    BY <1>1 DEF BeginClose, PauseLanes, IInv, TypeOK, laneVars, permitVars
<1>3. NoOrphanLane' /\ LanesNamed' /\ ActiveIsOccupant' /\ QueuesSound'
    BY DEF BeginClose, PauseLanes, laneVars, permitVars, IInv, NoOrphanLane, LanesNamed,
       ActiveIsOccupant, QueuesSound, Occupies
<1> QED
    BY <1>2, <1>3 DEF IInv

(* Lane l of t is handed to its next task, or becomes idle.                *)
LEMMA LaneNextIInv == ASSUME IInv, NEW t \in Task, LaneNext(t) PROVE IInv'
<1>1. PICK l \in Task :
        /\ pc[t] = "released" /\ active[l] = t
        /\ \/ /\ queue[l] # <<>>
              /\ queue' = [queue EXCEPT ![l] = Tail(@)]
              /\ active' = [active EXCEPT ![l] = Head(queue[l])]
              /\ pc' = [pc EXCEPT ![t] = "finished", ![Head(queue[l])] = "acquiring"]
              /\ waiters' = [waiters EXCEPT ![q(t)] = Append(@, Head(queue[l]))]
              /\ UNCHANGED draining
           \/ /\ active' = [active EXCEPT ![l] = NoTask]
              /\ pc' = [pc EXCEPT ![t] = "finished"]
              /\ draining' = IF queue[l] = <<>>
                             THEN [draining EXCEPT ![q(t)] = @ \ {l}] ELSE draining
              /\ UNCHANGED <<queue, waiters>>
        /\ UNCHANGED <<lane, paused, permits, phase, present>>
    BY DEF LaneNext
<1>2. /\ q(t) \in Queue
      /\ \A k \in Task : k # NoTask /\ NameOf[k] \in Name
      /\ \A k \in Task : active[k] # NoTask => active[k] \in Task
      /\ \A k \in Task : \A i \in 1..Len(queue[k]) : queue[k][i] \in Task
    BY TaskAssumption DEF q, IInv, TypeOK
<1>3. \A k \in Task : active[k] = t => k = l
    BY <1>1, <1>2 DEF IInv, NoOrphanLane
<1>4. CASE /\ queue[l] # <<>>
           /\ queue' = [queue EXCEPT ![l] = Tail(@)]
           /\ active' = [active EXCEPT ![l] = Head(queue[l])]
           /\ pc' = [pc EXCEPT ![t] = "finished", ![Head(queue[l])] = "acquiring"]
           /\ waiters' = [waiters EXCEPT ![q(t)] = Append(@, Head(queue[l]))]
           /\ UNCHANGED draining
  <2> DEFINE h == Head(queue[l])
  <2>1. /\ h = queue[l][1] /\ 1 \in 1..Len(queue[l])
        /\ Len(queue'[l]) = Len(queue[l]) - 1
        /\ \A i \in 1..Len(queue'[l]) : /\ queue'[l][i] = queue[l][i + 1]
                                        /\ i + 1 \in 1..Len(queue[l])
        /\ \A k \in Task : k # l => queue'[k] = queue[k]
        /\ queue' \in [Task -> Seq(Task)]
    BY <1>4 DEF IInv, TypeOK
  <2>2. h \in Task /\ pc[h] = "queued" /\ h # t /\ lane[NameOf[h]] = l
    <3>1. h \in Task /\ pc[h] = "queued"
      <4>1. \A i \in 1..Len(queue[l]) : queue[l][i] \in Task /\ pc[queue[l][i]] = "queued"
        BY <1>2 DEF IInv, QueuesSound
      <4> HIDE DEF h
      <4> QED
        BY <2>1, <4>1
    <3>2. lane[NameOf[h]] = l
      BY <2>1 DEF IInv, NoOrphanLane
    <3> QED
      BY <1>1, <3>1, <3>2
  <2>3. /\ pc' \in [Task -> Status] /\ pc'[t] = "finished" /\ pc'[h] = "acquiring"
        /\ \A u \in Task : u # t /\ u # h => pc'[u] = pc[u]
    BY <1>4, <2>2 DEF IInv, TypeOK, Status
  <2>4. active'[l] = h /\ \A k \in Task : k # l => active'[k] = active[k]
    BY <1>4 DEF IInv, TypeOK
  <2>5. TypeOK'
    <3>1. active' \in [Task -> Task \cup {NoTask}] /\ waiters' \in [Queue -> Seq(Task)]
      BY <1>2, <1>4, <2>2 DEF IInv, TypeOK
    <3> QED
      BY <1>1, <1>4, <2>1, <2>3, <3>1 DEF IInv, TypeOK
  <2>6. \A k \in Task : \A i \in 1..Len(queue'[k]) :
            \E j \in 1..Len(queue[k]) : queue'[k][i] = queue[k][j] /\ (k = l => j = i + 1)
                                        /\ (k # l => j = i)
    BY <2>1
  <2>7. NoOrphanLane'
    <3>1. ASSUME NEW k \in Task, active'[k] # NoTask PROVE lane'[NameOf[active'[k]]] = k
      BY <1>1, <2>2, <2>4, <3>1 DEF IInv, NoOrphanLane
    <3>2. ASSUME NEW k \in Task, NEW i \in 1..Len(queue'[k])
          PROVE  lane'[NameOf[queue'[k][i]]] = k
      BY <1>1, <2>6, <3>2 DEF IInv, NoOrphanLane
    <3> QED
      BY <3>1, <3>2 DEF NoOrphanLane
  <2>8. LanesNamed'
    BY <1>1, <2>2, <2>3 DEF IInv, TypeOK, LanesNamed
  <2>9. ActiveIsOccupant'
    <3>1. ASSUME NEW k \in Task, active'[k] # NoTask PROVE Occupies(active[k])'
      <4>1. CASE k = l
        BY <2>3, <2>4, <4>1 DEF Occupies
      <4>2. CASE k # l
        <5>1. active[k] \in Task /\ Occupies(active[k]) /\ active[k] # t
          BY <1>2, <1>3, <2>4, <3>1, <4>2 DEF IInv, ActiveIsOccupant
        <5> QED
          BY <2>2, <2>3, <2>4, <4>2, <5>1 DEF Occupies
      <4> QED
        BY <4>1, <4>2
    <3>2. ASSUME NEW u \in Task, Occupies(u)' PROVE \E k \in Task : active'[k] = u
      BY <1>1, <2>2, <2>3, <2>4, <3>2 DEF IInv, ActiveIsOccupant, Occupies
    <3> QED
      BY <3>1, <3>2 DEF ActiveIsOccupant
  <2>10. QueuesSound'
    <3>1. ASSUME NEW k \in Task, NEW i \in 1..Len(queue'[k])
          PROVE  pc'[queue'[k][i]] = "queued"
      <4>1. PICK j \in 1..Len(queue[k]) : queue'[k][i] = queue[k][j] /\ (k = l => j = i + 1)
        BY <2>6
      <4>2. queue[k][j] # h
        BY <1>2, <2>1, <2>2, <4>1 DEF IInv, QueuesSound, NoOrphanLane
      <4> QED
        BY <1>1, <1>2, <2>3, <4>1, <4>2 DEF IInv, QueuesSound
    <3>2. ASSUME NEW k \in Task, NEW i \in 1..Len(queue'[k]), NEW j \in 1..Len(queue'[k]),
                 queue'[k][i] = queue'[k][j]
          PROVE  i = j
      <4>1. CASE k = l
        <5>1. queue[l][i + 1] = queue[l][j + 1] /\ i + 1 \in 1..Len(queue[l]) /\ j + 1 \in 1..Len(queue[l])
          BY <2>1, <3>2, <4>1
        <5>2. i + 1 = j + 1
          BY <5>1 DEF IInv, QueuesSound
        <5> QED
          BY <5>2
      <4>2. CASE k # l
        BY <2>1, <3>2, <4>2 DEF IInv, QueuesSound
      <4> QED
        BY <4>1, <4>2
    <3> QED
      BY <3>1, <3>2 DEF QueuesSound
  <2> QED
    BY <2>5, <2>7, <2>8, <2>9, <2>10 DEF IInv
<1>5. CASE /\ active' = [active EXCEPT ![l] = NoTask]
           /\ pc' = [pc EXCEPT ![t] = "finished"]
           /\ draining' = IF queue[l] = <<>>
                          THEN [draining EXCEPT ![q(t)] = @ \ {l}] ELSE draining
           /\ UNCHANGED <<queue, waiters>>
  <2>1. /\ pc' \in [Task -> Status] /\ pc'[t] = "finished"
        /\ \A u \in Task : u # t => pc'[u] = pc[u]
    BY <1>5 DEF IInv, TypeOK, Status
  <2>2. /\ active' \in [Task -> Task \cup {NoTask}]
        /\ active'[l] = NoTask /\ \A k \in Task : k # l => active'[k] = active[k]
    BY <1>5 DEF IInv, TypeOK
  <2>3. TypeOK'
    <3>1. draining' \in [Queue -> SUBSET Task]
      BY <1>2, <1>5 DEF IInv, TypeOK
    <3> QED
      BY <1>1, <1>5, <2>1, <2>2, <3>1 DEF IInv, TypeOK
  <2>4. NoOrphanLane'
    BY <1>1, <1>5, <2>2 DEF IInv, NoOrphanLane
  <2>5. LanesNamed'
    BY <1>1, <2>1 DEF IInv, TypeOK, LanesNamed
  <2>6. ActiveIsOccupant'
    <3>1. ASSUME NEW k \in Task, active'[k] # NoTask PROVE Occupies(active[k])'
      BY <1>2, <1>3, <2>1, <2>2, <3>1 DEF IInv, ActiveIsOccupant, Occupies
    <3>2. ASSUME NEW u \in Task, Occupies(u)' PROVE \E k \in Task : active'[k] = u
      BY <1>1, <2>1, <2>2, <3>2 DEF IInv, ActiveIsOccupant, Occupies
    <3> QED
      BY <3>1, <3>2 DEF ActiveIsOccupant
  <2>7. QueuesSound'
    BY <1>1, <1>2, <1>5, <2>1 DEF IInv, QueuesSound
  <2> QED
    BY <2>3, <2>4, <2>5, <2>6, <2>7 DEF IInv
<1> QED
    BY <1>1, <1>4, <1>5

(* The lane of t is dropped if it is empty.                                *)
LEMMA RemoveIInv == ASSUME IInv, NEW t \in Task, Remove(t) PROVE IInv'
<1> DEFINE l == lane[NameOf[t]]
<1>1. /\ NameOf[t] \in Name
      /\ \A k \in Task : k # NoTask /\ NameOf[k] \in Name
      /\ \A k \in Task : active[k] # NoTask => active[k] \in Task
      /\ \A k \in Task : \A i \in 1..Len(queue[k]) : queue[k][i] \in Task
    BY TaskAssumption DEF IInv, TypeOK
<1>2. /\ pc[t] = "finished" /\ pc' = [pc EXCEPT ![t] = "settled"]
      /\ UNCHANGED <<queue, active, paused, permitVars, closeVars>>
      /\ lane' = IF l # NoTask /\ Idle(l) THEN [lane EXCEPT ![NameOf[t]] = NoTask] ELSE lane
    BY DEF Remove
<1>3. /\ pc' \in [Task -> Status]
      /\ \A u \in Task : /\ Occupies(u)' <=> Occupies(u)
                         /\ pc[u] = "queued" => pc'[u] = "queued"
                         /\ pc'[u] = "new" => pc[u] = "new"
    BY <1>2 DEF IInv, TypeOK, Status, Occupies
<1>4. TypeOK'
  <2>1. lane' \in [Name -> Task \cup {NoTask}]
    BY <1>1, <1>2 DEF IInv, TypeOK
  <2> QED
    BY <1>2, <1>3, <2>1 DEF IInv, TypeOK, permitVars, closeVars
<1>5. CASE ~(l # NoTask /\ Idle(l))
    BY <1>2, <1>3, <1>4, <1>5, InPlaceIInv DEF laneVars
<1>6. CASE l # NoTask /\ Idle(l)
  <2>1. l \in Task /\ active[l] = NoTask /\ Len(queue[l]) = 0
    BY <1>1, <1>6 DEF IInv, TypeOK, Idle
  <2>2. \A n \in Name : lane[n] # l => lane'[n] = lane[n]
    BY <1>1, <1>2, <1>6 DEF IInv, TypeOK
  <2>3. NoOrphanLane'
    <3>1. ASSUME NEW k \in Task, active[k] # NoTask PROVE lane'[NameOf[active[k]]] = k
      BY <1>1, <2>1, <2>2, <3>1 DEF IInv, NoOrphanLane
    <3>2. ASSUME NEW k \in Task, NEW i \in 1..Len(queue[k]) PROVE lane'[NameOf[queue[k][i]]] = k
      BY <1>1, <2>1, <2>2, <3>2 DEF IInv, NoOrphanLane
    <3> QED
      BY <1>2, <3>1, <3>2 DEF NoOrphanLane
  <2>4. LanesNamed'
    BY <1>1, <1>2, <1>3, <1>6 DEF IInv, TypeOK, LanesNamed
  <2>5. ActiveIsOccupant' /\ QueuesSound'
    BY <1>1, <1>2, <1>3 DEF IInv, ActiveIsOccupant, QueuesSound
  <2> QED
    BY <1>4, <2>3, <2>4, <2>5 DEF IInv
<1> QED
    BY <1>5, <1>6

(* The induction step: one case for each action of Next.                   *)
LEMMA NextIInv == IInv /\ [Next]_vars => IInv'
<1> SUFFICES ASSUME IInv, [Next]_vars PROVE IInv'
    OBVIOUS
<1>1. ASSUME NEW t \in Task, Run(t) PROVE IInv'
    BY <1>1, EnqueueIInv DEF Run, IInv, TypeOK
<1>2. ASSUME NEW t \in Task, RunChild(t) PROVE IInv'
  <2> DEFINE others == [pc EXCEPT ![t] = "waiting"]
  <2>1. Child[t] \in Task /\ pc[Child[t]] = "new"
    BY <1>2, TaskAssumption DEF RunChild
  <2>2. /\ others \in [Task -> Status]
        /\ \A u \in Task : others[u] = pc[u] \/ (pc[u] = "running" /\ others[u] = "waiting")
    BY <1>2 DEF RunChild, IInv, TypeOK, Status
  <2> QED
    BY <1>2, <2>1, <2>2, EnqueueIInv DEF RunChild
<1>3. CASE UNCHANGED vars
  <2>1. TypeOK' /\ UNCHANGED laneVars /\ pc' = pc
    BY <1>3 DEF vars, laneVars, permitVars, closeVars, IInv, TypeOK
  <2> QED
    BY <2>1, InPlaceIInv DEF Occupies
<1> QED
    BY <1>1, <1>2, <1>3, AcquireIInv, FinishIInv, LaneNextIInv, RemoveIInv, CloseIInv DEF Next

(* The inductive invariant holds in every behaviour of the lanes.          *)
THEOREM InductiveInvariant == Spec => []IInv
BY InitIInv, NextIInv, PTL DEF Spec

(* The variables of the task queues keep their types.                      *)
THEOREM TypeCorrect == Spec => []TypeOK
BY InductiveInvariant, PTL DEF IInv

(* No lane leaves NamedTaskQueue.lanes with a task in it.                  *)
THEOREM LanesAreNeverOrphaned == Spec => []NoOrphanLane
BY InductiveInvariant, PTL DEF IInv

(* Two tasks for the same stream in the same queue never overlap.          *)
THEOREM TasksAreSerialised == Spec => []MutualExclusion
<1>1. IInv => MutualExclusion
  <2> SUFFICES ASSUME IInv, NEW t \in Task, NEW u \in Task,
                      Occupies(t), Occupies(u), NameOf[t] = NameOf[u]
               PROVE  t = u
    BY DEF MutualExclusion
  <2>1. PICK l \in Task : active[l] = t
    BY DEF IInv, ActiveIsOccupant
  <2>2. PICK k \in Task : active[k] = u
    BY DEF IInv, ActiveIsOccupant
  <2>3. lane[NameOf[t]] = l /\ lane[NameOf[u]] = k
    BY <2>1, <2>2, TaskAssumption DEF IInv, NoOrphanLane
  <2> QED
    BY <2>1, <2>2, <2>3
<1> QED
    BY <1>1, InductiveInvariant, PTL

-----------------------------------------------------------------------------
(* Every permit that is not free is held by a task that is running.        *)
Running(x) == {t \in Task : Holds(t) /\ q(t) = x}
PermitsAccounted ==
    \A x \in Queue :
        IsFiniteSet(Running(x)) /\ Cardinality(Running(x)) + permits[x] = Limit[x]

LEMMA InitPermits == Init => PermitsAccounted
<1> SUFFICES ASSUME Init PROVE PermitsAccounted
    OBVIOUS
<1>1. \A x \in Queue : Running(x) = {}
    BY DEF Init, Running, Holds
<1>2. \A x \in Queue : permits[x] = Limit[x] /\ Limit[x] \in Nat
    BY TaskAssumption DEF Init
<1>3. IsFiniteSet({}) /\ Cardinality({}) = 0
    BY FS_EmptySet
<1> QED
    BY <1>1, <1>2, <1>3 DEF PermitsAccounted

(* Steps in which no task begins or ends.                                  *)
LEMMA SameHoldersPermits ==
    ASSUME PermitsAccounted, permits' = permits, \A t \in Task : Holds(t)' <=> Holds(t)
    PROVE  PermitsAccounted'
<1>1. \A x \in Queue : Running(x)' = Running(x)
    BY DEF Running, q
<1> QED
    BY <1>1 DEF PermitsAccounted

LEMMA AcquirePermits ==
    ASSUME IInv, PermitsAccounted, NEW t \in Task, Acquire(t) PROVE PermitsAccounted'
<1>1. q(t) \in Queue
    BY TaskAssumption DEF q
<1>2. /\ permits' = [permits EXCEPT ![q(t)] = @ - 1] /\ pc' = [pc EXCEPT ![t] = "running"]
      /\ pc[t] = "acquiring" /\ permits \in [Queue -> Nat] /\ pc \in [Task -> Status]
    BY DEF Acquire, IInv, TypeOK
<1>3. ASSUME NEW x \in Queue
      PROVE  IsFiniteSet(Running(x)') /\ Cardinality(Running(x)') + permits'[x] = Limit[x]
  <2>1. IsFiniteSet(Running(x)) /\ Cardinality(Running(x)) + permits[x] = Limit[x]
    BY DEF PermitsAccounted
  <2>2. CASE x = q(t)
    <3>1. Running(x)' = Running(x) \cup {t} /\ t \notin Running(x)
      BY <1>2, <2>2 DEF Running, Holds, q
    <3>2. IsFiniteSet(Running(x)') /\ Cardinality(Running(x)') = Cardinality(Running(x)) + 1
      BY <2>1, <3>1, FS_AddElement
    <3>3. permits'[x] = permits[x] - 1 /\ permits[x] \in Nat /\ Cardinality(Running(x)) \in Nat
      BY <1>2, <2>1, <2>2, FS_CardinalityType
    <3> QED
      BY <2>1, <3>2, <3>3
  <2>3. CASE x # q(t)
    <3>1. Running(x)' = Running(x) /\ permits'[x] = permits[x]
      BY <1>2, <2>3 DEF Running, Holds, q
    <3> QED
      BY <2>1, <3>1
  <2> QED
    BY <2>2, <2>3
<1> QED
    BY <1>3 DEF PermitsAccounted

LEMMA FinishPermits ==
    ASSUME IInv, PermitsAccounted, NEW t \in Task, Finish(t) PROVE PermitsAccounted'
<1>1. q(t) \in Queue
    BY TaskAssumption DEF q
<1>2. /\ permits' = [permits EXCEPT ![q(t)] = @ + 1] /\ pc' = [pc EXCEPT ![t] = "released"]
      /\ Holds(t) /\ permits \in [Queue -> Nat] /\ pc \in [Task -> Status]
    BY DEF Finish, IInv, TypeOK
<1>3. ASSUME NEW x \in Queue
      PROVE  IsFiniteSet(Running(x)') /\ Cardinality(Running(x)') + permits'[x] = Limit[x]
  <2>1. IsFiniteSet(Running(x)) /\ Cardinality(Running(x)) + permits[x] = Limit[x]
    BY DEF PermitsAccounted
  <2>2. CASE x = q(t)
    <3>1. Running(x)' = Running(x) \ {t} /\ t \in Running(x)
      BY <1>2, <2>2 DEF Running, Holds, q
    <3>2. IsFiniteSet(Running(x)') /\ Cardinality(Running(x)') = Cardinality(Running(x)) - 1
      BY <2>1, <3>1, FS_RemoveElement
    <3>3. permits'[x] = permits[x] + 1 /\ permits[x] \in Nat /\ Cardinality(Running(x)) \in Nat
      BY <1>2, <2>1, <2>2, FS_CardinalityType
    <3> QED
      BY <2>1, <3>2, <3>3
  <2>3. CASE x # q(t)
    <3>1. Running(x)' = Running(x) /\ permits'[x] = permits[x]
      BY <1>2, <2>3 DEF Running, Holds, q
    <3> QED
      BY <2>1, <3>1
  <2> QED
    BY <2>2, <2>3
<1> QED
    BY <1>3 DEF PermitsAccounted

LEMMA NextPermits == IInv /\ PermitsAccounted /\ [Next]_vars => PermitsAccounted'
<1> SUFFICES ASSUME IInv, PermitsAccounted, [Next]_vars PROVE PermitsAccounted'
    OBVIOUS
<1>0. pc \in [Task -> Status]
    BY DEF IInv, TypeOK
<1>1. ASSUME NEW t \in Task, Run(t) PROVE PermitsAccounted'
    BY <1>0, <1>1, SameHoldersPermits DEF Run, Enqueue, Holds
<1>2. ASSUME NEW t \in Task, RunChild(t) PROVE PermitsAccounted'
  <2>1. Child[t] \in Task
    BY <1>2, TaskAssumption DEF RunChild
  <2> QED
    BY <1>0, <1>2, <2>1, SameHoldersPermits DEF RunChild, Enqueue, Holds
<1>3. ASSUME NEW t \in Task, LaneNext(t) PROVE PermitsAccounted'
  <2>1. PICK l \in Task :
          /\ pc[t] = "released" /\ permits' = permits
          /\ \/ queue[l] # <<>> /\ pc' = [pc EXCEPT ![t] = "finished", ![Head(queue[l])] = "acquiring"]
             \/ pc' = [pc EXCEPT ![t] = "finished"]
    BY <1>3 DEF LaneNext
  <2>2. queue[l] # <<>> => Head(queue[l]) \in Task /\ pc[Head(queue[l])] = "queued"
    BY DEF IInv, TypeOK, QueuesSound
  <2> QED
    BY <1>0, <2>1, <2>2, SameHoldersPermits DEF Holds
<1>4. ASSUME NEW t \in Task, Remove(t) PROVE PermitsAccounted'
    BY <1>0, <1>4, SameHoldersPermits DEF Remove, Holds, permitVars
<1>5. ASSUME NEW x \in Queue, BeginClose(x) \/ PauseLanes(x) PROVE PermitsAccounted'
    BY <1>5, SameHoldersPermits DEF BeginClose, PauseLanes, Holds, permitVars
<1>6. CASE UNCHANGED vars
    BY <1>6, SameHoldersPermits DEF vars, permitVars, Holds
<1> QED
    BY <1>1, <1>2, <1>3, <1>4, <1>5, <1>6, AcquirePermits, FinishPermits DEF Next

-----------------------------------------------------------------------------
(* Sequences: what queues and orders of tasks are made of.                 *)
LEMMA SequenceFacts ==
    ASSUME NEW S, NEW s \in Seq(S), NEW e \in S
    PROVE  /\ <<>> \o s = s /\ s \o <<>> = s
           /\ <<e>> \in Seq(S) /\ Append(<<>>, e) = <<e>>
           /\ <<e>> \o s \in Seq(S) /\ Head(<<e>> \o s) = e /\ Tail(<<e>> \o s) = s
OBVIOUS

LEMMA HeadAndTail ==
    ASSUME NEW S, NEW s \in Seq(S), s # <<>>
    PROVE  Head(s) \in S /\ Tail(s) \in Seq(S) /\ <<Head(s)>> \o Tail(s) = s
OBVIOUS

LEMMA AppendToConcat ==
    ASSUME NEW S, NEW s \in Seq(S), NEW r \in Seq(S), NEW e \in S
    PROVE  Append(r \o s, e) = r \o Append(s, e)
OBVIOUS

(* What of a task's status the callers see.                                *)
Seen(status) ==
    CASE status = "new" -> "new"
      [] status \in {"queued", "acquiring"} -> "accepted"
      [] status \in {"running", "waiting"} -> "executing"
      [] status \in {"released", "finished", "settled"} -> "done"

LEMMA PhaseIsSeen ==
    /\ absPhase = [t \in Task |-> Seen(pc[t])]
    /\ absPhase' = [t \in Task |-> Seen(pc'[t])]
BY DEF absPhase, Seen, Holds

LEMMA SeenSteps ==
    /\ Seen("new") = "new" /\ Seen("queued") = "accepted" /\ Seen("acquiring") = "accepted"
    /\ Seen("running") = "executing" /\ Seen("waiting") = "executing"
    /\ Seen("released") = "done" /\ Seen("finished") = "done" /\ Seen("settled") = "done"
BY DEF Seen

(* The order of a stream: what its lane is at, and what waits in the lane. *)
OrderOf(l) == Unfinished(l) \o queue[l]

LEMMA OrderIs ==
    /\ absOrder = [n \in Name |-> absOrder[n]]
    /\ absOrder' = [n \in Name |-> absOrder'[n]]
    /\ \A n \in Name :
        /\ lane[n] = NoTask => absOrder[n] = <<>>
        /\ lane'[n] = NoTask => absOrder'[n] = <<>>
        /\ \A l \in Task : lane[n] = l /\ l # NoTask => absOrder[n] = OrderOf(l)
        /\ \A l \in Task : lane'[n] = l /\ l # NoTask => absOrder'[n] = OrderOf(l)'
BY DEF absOrder, OrderOf, Unfinished

LEMMA OrderType ==
    ASSUME TypeOK, NEW l \in Task
    PROVE  Unfinished(l) \in Seq(Task) /\ queue[l] \in Seq(Task) /\ OrderOf(l) \in Seq(Task)
<1>1. Unfinished(l) \in Seq(Task) /\ queue[l] \in Seq(Task)
    BY DEF TypeOK, Unfinished
<1> QED
    BY <1>1 DEF OrderOf

(* Streams whose lane is not touched keep their order.                     *)
LEMMA SameOrder ==
    ASSUME NEW m \in Name, lane'[m] = lane[m], lane[m] \in Task \cup {NoTask},
           \A k \in Task : lane[m] = k /\ k # NoTask => OrderOf(k)' = OrderOf(k)
    PROVE  absOrder'[m] = absOrder[m]
BY OrderIs

(* A task that is put into a lane is accepted, behind those accepted for   *)
(* its stream.                                                             *)
LEMMA EnqueueRefines ==
    ASSUME IInv, NEW t \in Task, pc[t] = "new", NEW others \in [Task -> Status],
           \A u \in Task : others[u] = pc[u] \/ (pc[u] = "running" /\ others[u] = "waiting"),
           Enqueue(t, others)
    PROVE  Serial!Accept(t)
<1> DEFINE n == NameOf[t]
<1>0. PICK l \in Task : l = LaneFor(t)
    BY TaskAssumption DEF LaneFor, IInv, TypeOK
<1>1. /\ n \in Name /\ t # NoTask /\ l # NoTask
      /\ lane' = [lane EXCEPT ![n] = l] /\ lane'[n] = l
      /\ \A m \in Name : m # n => lane'[m] = lane[m]
    BY <1>0, TaskAssumption DEF Enqueue, IInv, TypeOK
<1>2. PICK s \in {"acquiring", "queued"} : pc' = [others EXCEPT ![t] = s]
    BY DEF Enqueue
<1>3. /\ pc'[t] = s
      /\ \A u \in Task : u # t => pc'[u] = pc[u] \/ (pc[u] = "running" /\ pc'[u] = "waiting")
    BY <1>2
<1>4. absPhase[t] = "new" /\ absPhase' = [absPhase EXCEPT ![t] = "accepted"]
  <2>1. Seen(pc'[t]) = "accepted" /\ \A u \in Task : u # t => Seen(pc'[u]) = Seen(pc[u])
    BY <1>3, SeenSteps
  <2>2. absPhase[t] = "new"
    BY PhaseIsSeen, SeenSteps
  <2> QED
    BY <2>1, <2>2, PhaseIsSeen
<1>5. \A m \in Name : m # n => lane[m] # l
    BY <1>0, <1>1 DEF LaneFor, IInv, LanesNamed
<1>6. \A k \in Task : active[k] # t
    BY <1>1 DEF IInv, ActiveIsOccupant, Occupies
<1>7. \/ /\ Idle(l) /\ active' = [active EXCEPT ![l] = t] /\ s = "acquiring" /\ UNCHANGED queue
      \/ queue' = [queue EXCEPT ![l] = Append(@, t)] /\ UNCHANGED active
    BY <1>0, <1>2, <1>3 DEF Enqueue
<1>8. \A k \in Task : k # l => OrderOf(k)' = OrderOf(k)
  <2>1. \A k \in Task : k # l => active'[k] = active[k] /\ queue'[k] = queue[k]
    BY <1>7 DEF IInv, TypeOK
  <2>2. \A k \in Task : active[k] # NoTask => (pc'[active[k]] = "released" <=> pc[active[k]] = "released")
    BY <1>3, <1>6 DEF IInv, TypeOK
  <2>3. \A k \in Task : k # l => Unfinished(k)' = Unfinished(k)
    BY <2>1, <2>2 DEF Unfinished
  <2> QED
    BY <2>1, <2>3 DEF OrderOf
<1>9. OrderOf(l)' = Append(OrderOf(l), t)
  <2>1. CASE Idle(l) /\ active' = [active EXCEPT ![l] = t] /\ s = "acquiring" /\ UNCHANGED queue
    <3>1. Unfinished(l) = <<>> /\ queue[l] = <<>> /\ queue'[l] = <<>>
      BY <2>1 DEF Idle, Unfinished
    <3>2. active'[l] = t /\ pc'[t] = "acquiring"
      BY <1>3, <2>1 DEF IInv, TypeOK
    <3>3. Unfinished(l)' = <<t>>
      BY <1>1, <3>2 DEF Unfinished
    <3>4. <<t>> \o <<>> = Append(<<>> \o <<>>, t)
      OBVIOUS
    <3> QED
      BY <3>1, <3>3, <3>4 DEF OrderOf
  <2>2. CASE queue' = [queue EXCEPT ![l] = Append(@, t)] /\ UNCHANGED active
    <3>1. queue'[l] = Append(queue[l], t) /\ Unfinished(l)' = Unfinished(l)
      BY <1>3, <1>6, <2>2 DEF Unfinished, IInv, TypeOK
    <3>2. Append(Unfinished(l) \o queue[l], t) = Unfinished(l) \o Append(queue[l], t)
      BY OrderType, AppendToConcat DEF IInv
    <3> QED
      BY <3>1, <3>2 DEF OrderOf
  <2> QED
    BY <1>7, <2>1, <2>2
<1>10. ASSUME lane[n] = NoTask PROVE OrderOf(l) = <<>>
  <2>1. l = t
    BY <1>0, <1>10 DEF LaneFor
  <2>2. \A m \in Name : lane[m] # t
    BY <1>1 DEF IInv, LanesNamed
  <2>3. active[t] = NoTask
    BY <2>2, TaskAssumption DEF IInv, TypeOK, NoOrphanLane
  <2>4. queue[t] \in Seq(Task) /\ \A i \in 1..Len(queue[t]) : NameOf[queue[t][i]] \in Name
    BY TaskAssumption DEF IInv, TypeOK
  <2>5. \A i \in 1..Len(queue[t]) : lane[NameOf[queue[t][i]]] = t
    BY DEF IInv, NoOrphanLane
  <2>6. queue[t] = <<>>
    BY <2>2, <2>4, <2>5
  <2> QED
    BY <2>1, <2>3, <2>6 DEF OrderOf, Unfinished
<1>11. absOrder'[n] = Append(absOrder[n], t)
  <2>1. lane[n] # NoTask => lane[n] = l
    BY <1>0 DEF LaneFor
  <2> QED
    BY <1>1, <1>9, <1>10, <2>1, OrderIs
<1>12. \A m \in Name : m # n => absOrder'[m] = absOrder[m]
    BY <1>1, <1>5, <1>8, SameOrder DEF IInv, TypeOK
<1>13. absOrder' = [absOrder EXCEPT ![n] = Append(@, t)]
    BY <1>11, <1>12, OrderIs
<1> QED
    BY <1>4, <1>13 DEF Serial!Accept

(* Who is under way in the lane of its stream.                             *)
LEMMA Occupant ==
    ASSUME IInv, NEW t \in Task, Occupies(t)
    PROVE  /\ NameOf[t] \in Name /\ lane[NameOf[t]] \in Task /\ lane[NameOf[t]] # NoTask
           /\ active[lane[NameOf[t]]] = t
           /\ \A k \in Task : active[k] = t => k = lane[NameOf[t]]
BY TaskAssumption DEF IInv, ActiveIsOccupant, NoOrphanLane

(* SerialLanes counts as Lanes does.                                       *)
LEMMA SameCardinality == \A S : Serial!Cardinality(S) = Cardinality(S)
BY Zenon DEF Serial!Cardinality, Cardinality

LEMMA AcquireRefines ==
    ASSUME IInv, PermitsAccounted, NEW t \in Task, Acquire(t) PROVE Serial!Begin(t)
<1> DEFINE n == NameOf[t]
<1>1. /\ pc[t] = "acquiring" /\ pc' = [pc EXCEPT ![t] = "running"] /\ pc \in [Task -> Status]
      /\ permits[q(t)] > 0 /\ UNCHANGED <<lane, queue, active>>
    BY DEF Acquire, IInv, TypeOK, laneVars
<1>2. PICK l \in Task : lane[n] = l /\ l # NoTask /\ active[l] = t /\ n \in Name
    BY <1>1, Occupant DEF Occupies
<1>3. absPhase[t] = "accepted" /\ absPhase' = [absPhase EXCEPT ![t] = "executing"]
    BY <1>1, PhaseIsSeen, SeenSteps
<1>4. absOrder[n] = OrderOf(l) /\ OrderOf(l) = <<t>> \o queue[l]
    BY <1>1, <1>2, OrderIs, TaskAssumption DEF OrderOf, Unfinished
<1>5. Head(absOrder[n]) = t
    BY <1>4, OrderType, SequenceFacts DEF IInv
<1>6. absOrder' = absOrder
  <2>1. \A k \in Task : Unfinished(k)' = Unfinished(k)
    BY <1>1 DEF Unfinished, IInv, TypeOK
  <2>2. \A m \in Name : absOrder'[m] = absOrder[m]
    BY <1>1, <2>1, SameOrder DEF OrderOf, IInv, TypeOK
  <2> QED
    BY <2>2, OrderIs
<1>7. Cardinality(Serial!Executing(q(t))) < Limit[q(t)]
  <2>1. q(t) \in Queue /\ permits[q(t)] \in Nat
    BY TaskAssumption DEF q, IInv, TypeOK
  <2>2. Serial!Executing(q(t)) = Running(q(t))
    <3>1. \A u \in Task : Seen(pc[u]) = "executing" <=> Holds(u)
      BY <1>1, SeenSteps DEF Holds, Status
    <3> QED
      BY <3>1, PhaseIsSeen DEF Serial!Executing, Running, q
  <2>3. /\ IsFiniteSet(Running(q(t)))
        /\ Cardinality(Running(q(t))) + permits[q(t)] = Limit[q(t)]
    BY <2>1 DEF PermitsAccounted
  <2>4. Cardinality(Running(q(t))) \in Nat
    BY <2>3, FS_CardinalityType
  <2> QED
    BY <1>1, <2>1, <2>2, <2>3, <2>4
<1> QED
    BY <1>3, <1>5, <1>6, <1>7, SameCardinality DEF Serial!Begin, q

LEMMA FinishRefines == ASSUME IInv, NEW t \in Task, Finish(t) PROVE Serial!End(t)
<1> DEFINE n == NameOf[t]
<1>1. /\ Holds(t) /\ pc' = [pc EXCEPT ![t] = "released"] /\ pc \in [Task -> Status]
      /\ UNCHANGED <<lane, queue, active>>
    BY DEF Finish, IInv, TypeOK, laneVars
<1>2. PICK l \in Task : /\ lane[n] = l /\ l # NoTask /\ active[l] = t /\ n \in Name
                        /\ \A k \in Task : active[k] = t => k = l
    BY <1>1, Occupant DEF Occupies, Holds
<1>3. absPhase[t] = "executing" /\ absPhase' = [absPhase EXCEPT ![t] = "done"]
    BY <1>1, PhaseIsSeen, SeenSteps DEF Holds
<1>4. absOrder[n] = <<t>> \o queue[l] /\ absOrder'[n] = <<>> \o queue[l]
  <2>1. t # NoTask /\ pc[t] # "released" /\ pc'[t] = "released"
    BY <1>1, TaskAssumption DEF Holds
  <2>2. Unfinished(l) = <<t>>
    BY <1>2, <2>1 DEF Unfinished
  <2>3. Unfinished(l)' = <<>>
    BY <1>1, <1>2, <2>1 DEF Unfinished
  <2>4. OrderOf(l) = <<t>> \o queue[l] /\ OrderOf(l)' = <<>> \o queue[l]
    BY <1>1, <2>2, <2>3 DEF OrderOf
  <2> QED
    BY <1>1, <1>2, <2>4, OrderIs
<1>5. absOrder'[n] = Tail(absOrder[n])
  <2>1. queue[l] \in Seq(Task)
    BY OrderType DEF IInv
  <2> QED
    BY <1>4, <2>1, SequenceFacts
<1>6. \A m \in Name : m # n => absOrder'[m] = absOrder[m]
  <2>1. \A m \in Name : m # n => lane[m] # l
    BY <1>2 DEF IInv, LanesNamed
  <2>2. \A k \in Task : k # l => Unfinished(k)' = Unfinished(k)
    BY <1>1, <1>2 DEF Unfinished, IInv, TypeOK
  <2>3. \A k \in Task : k # l => OrderOf(k)' = OrderOf(k)
    BY <1>1, <2>2 DEF OrderOf
  <2> QED
    BY <1>1, <2>1, <2>3, SameOrder DEF IInv, TypeOK
<1>7. absOrder' = [absOrder EXCEPT ![n] = Tail(@)]
    BY <1>5, <1>6, OrderIs
<1> QED
    BY <1>3, <1>7 DEF Serial!End

(* What callers do not see: a lane goes on with its next task ...          *)
LEMMA LaneNextStutters ==
    ASSUME IInv, NEW t \in Task, LaneNext(t) PROVE absPhase' = absPhase /\ absOrder' = absOrder
<1>1. PICK l \in Task :
        /\ pc[t] = "released" /\ active[l] = t /\ lane' = lane
        /\ \/ /\ queue[l] # <<>>
              /\ queue' = [queue EXCEPT ![l] = Tail(@)]
              /\ active' = [active EXCEPT ![l] = Head(queue[l])]
              /\ pc' = [pc EXCEPT ![t] = "finished", ![Head(queue[l])] = "acquiring"]
           \/ /\ active' = [active EXCEPT ![l] = NoTask]
              /\ pc' = [pc EXCEPT ![t] = "finished"]
              /\ queue' = queue
    BY DEF LaneNext
<1>2. /\ pc \in [Task -> Status] /\ active \in [Task -> Task \cup {NoTask}]
      /\ queue \in [Task -> Seq(Task)] /\ t # NoTask
    BY TaskAssumption DEF IInv, TypeOK
<1>3. \A k \in Task : active[k] = t => k = l
    BY <1>1, Occupant DEF Occupies
<1>4. Unfinished(l) = <<>> /\ OrderOf(l) = queue[l]
    BY <1>1, <1>2, SequenceFacts DEF Unfinished, OrderOf
<1>5. CASE /\ queue[l] # <<>>
           /\ queue' = [queue EXCEPT ![l] = Tail(@)]
           /\ active' = [active EXCEPT ![l] = Head(queue[l])]
           /\ pc' = [pc EXCEPT ![t] = "finished", ![Head(queue[l])] = "acquiring"]
  <2>1. PICK h \in Task : h = Head(queue[l])
    BY <1>2, <1>5, HeadAndTail
  <2>2. pc[h] = "queued" /\ h # NoTask
    BY <1>2, <1>5, <2>1, TaskAssumption DEF IInv, QueuesSound
  <2>3. /\ pc'[t] = "finished" /\ pc'[h] = "acquiring"
        /\ \A u \in Task : u # t /\ u # h => pc'[u] = pc[u]
    BY <1>1, <1>2, <1>5, <2>1, <2>2
  <2>4. absPhase' = absPhase
    BY <1>1, <2>2, <2>3, PhaseIsSeen, SeenSteps
  <2>5. OrderOf(l)' = OrderOf(l)
    <3>1. active'[l] = h /\ queue'[l] = Tail(queue[l])
      BY <1>2, <1>5, <2>1
    <3>2. Unfinished(l)' = <<h>>
      BY <2>2, <2>3, <3>1 DEF Unfinished
    <3>3. <<h>> \o Tail(queue[l]) = queue[l]
      BY <1>2, <1>5, <2>1, HeadAndTail
    <3> QED
      BY <1>4, <3>1, <3>2, <3>3 DEF OrderOf
  <2>6. ASSUME NEW k \in Task, k # l PROVE OrderOf(k)' = OrderOf(k)
    <3>1. active'[k] = active[k] /\ queue'[k] = queue[k] /\ active[k] # t
      BY <1>2, <1>3, <1>5, <2>6
    <3>2. active[k] # h
      BY <2>2 DEF IInv, ActiveIsOccupant, Occupies
    <3>3. Unfinished(k)' = Unfinished(k)
      BY <1>2, <2>3, <3>1, <3>2 DEF Unfinished
    <3> QED
      BY <3>1, <3>3 DEF OrderOf
  <2>7. \A m \in Name : absOrder'[m] = absOrder[m]
    BY <1>1, <2>5, <2>6, SameOrder DEF IInv, TypeOK
  <2> QED
    BY <2>4, <2>7, OrderIs
<1>6. CASE /\ active' = [active EXCEPT ![l] = NoTask]
           /\ pc' = [pc EXCEPT ![t] = "finished"]
           /\ queue' = queue
  <2>1. absPhase' = absPhase
    BY <1>1, <1>2, <1>6, PhaseIsSeen, SeenSteps
  <2>2. Unfinished(l)' = <<>>
    BY <1>2, <1>6 DEF Unfinished
  <2>3. ASSUME NEW k \in Task, k # l PROVE Unfinished(k)' = Unfinished(k)
    <3>1. active'[k] = active[k] /\ active[k] # t
      BY <1>2, <1>3, <1>6, <2>3
    <3> QED
      BY <1>2, <1>6, <3>1 DEF Unfinished
  <2>4. \A k \in Task : OrderOf(k)' = OrderOf(k)
    BY <1>4, <1>6, <2>2, <2>3 DEF OrderOf
  <2>5. \A m \in Name : absOrder'[m] = absOrder[m]
    BY <1>1, <2>4, SameOrder DEF IInv, TypeOK
  <2> QED
    BY <2>1, <2>5, OrderIs
<1> QED
    BY <1>1, <1>5, <1>6

(* ... and lanes are dropped when nothing is in them.                      *)
LEMMA RemoveStutters ==
    ASSUME IInv, NEW t \in Task, Remove(t) PROVE absPhase' = absPhase /\ absOrder' = absOrder
<1> DEFINE n == NameOf[t]
<1>1. /\ pc[t] = "finished" /\ pc' = [pc EXCEPT ![t] = "settled"]
      /\ UNCHANGED <<queue, active>>
      /\ lane' = IF lane[n] # NoTask /\ Idle(lane[n]) THEN [lane EXCEPT ![n] = NoTask] ELSE lane
    BY DEF Remove
<1>2. pc \in [Task -> Status] /\ n \in Name /\ lane \in [Name -> Task \cup {NoTask}]
    BY TaskAssumption DEF IInv, TypeOK
<1>3. absPhase' = absPhase
    BY <1>1, <1>2, PhaseIsSeen, SeenSteps
<1>4. \A k \in Task : Unfinished(k)' = Unfinished(k)
    BY <1>1, <1>2 DEF Unfinished, IInv, TypeOK
<1>5. \A k \in Task : OrderOf(k)' = OrderOf(k)
    BY <1>1, <1>4 DEF OrderOf
<1>6. CASE lane' = lane
    BY <1>2, <1>3, <1>5, <1>6, SameOrder, OrderIs
<1>7. CASE lane[n] # NoTask /\ Idle(lane[n])
  <2>1. PICK l \in Task : lane[n] = l /\ l # NoTask
    BY <1>2, <1>7
  <2>2. OrderOf(l) = <<>>
    BY <1>7, <2>1 DEF Idle, OrderOf, Unfinished
  <2>3. lane'[n] = NoTask /\ \A m \in Name : m # n => lane'[m] = lane[m]
    BY <1>1, <1>2, <1>7
  <2>4. absOrder[n] = <<>> /\ absOrder'[n] = <<>>
    BY <1>2, <2>1, <2>2, <2>3, OrderIs
  <2>5. \A m \in Name : m # n => absOrder'[m] = absOrder[m]
    BY <1>2, <1>5, <2>3, SameOrder
  <2> QED
    BY <1>3, <2>4, <2>5, OrderIs
<1> QED
    BY <1>1, <1>6, <1>7

(* Each step of the lanes is one of SerialLanes, or one it does not see.   *)
LEMMA NextRefines == IInv /\ PermitsAccounted /\ [Next]_vars => [Serial!Next]_(Serial!vars)
<1> SUFFICES ASSUME IInv, PermitsAccounted, [Next]_vars PROVE [Serial!Next]_(Serial!vars)
    OBVIOUS
<1>1. ASSUME NEW t \in Task, Run(t) PROVE Serial!Accept(t)
    BY <1>1, EnqueueRefines DEF Run, IInv, TypeOK
<1>2. ASSUME NEW t \in Task, RunChild(t) PROVE Child[t] \in Task /\ Serial!Accept(Child[t])
  <2> DEFINE others == [pc EXCEPT ![t] = "waiting"]
  <2>1. Child[t] \in Task /\ pc[Child[t]] = "new"
    BY <1>2, TaskAssumption DEF RunChild
  <2>2. /\ others \in [Task -> Status]
        /\ \A u \in Task : others[u] = pc[u] \/ (pc[u] = "running" /\ others[u] = "waiting")
    BY <1>2 DEF RunChild, IInv, TypeOK, Status
  <2> QED
    BY <1>2, <2>1, <2>2, EnqueueRefines DEF RunChild
<1>3. ASSUME UNCHANGED pc, UNCHANGED <<lane, queue, active>>
      PROVE  absPhase' = absPhase /\ absOrder' = absOrder
    BY <1>3 DEF absPhase, absOrder, Unfinished, Holds
<1>4. ASSUME NEW x \in Queue, BeginClose(x) \/ PauseLanes(x)
      PROVE  absPhase' = absPhase /\ absOrder' = absOrder
    BY <1>3, <1>4 DEF BeginClose, PauseLanes, laneVars
<1>5. CASE UNCHANGED vars
    BY <1>3, <1>5 DEF vars, laneVars, Serial!vars
<1>6. CASE Next
    BY <1>1, <1>2, <1>4, <1>6, AcquireRefines, FinishRefines, LaneNextStutters, RemoveStutters
    DEF Next, Serial!Next, Serial!vars
<1> QED
    BY <1>5, <1>6

(* Lanes and permits implement one queue per stream: tasks execute one by  *)
(* one in the order in which they came, at most Limit of them in a queue.  *)
THEOREM LanesAreSerial == Spec => ImplementsSerialLanes
<1>1. Init => Serial!Init
  <2> SUFFICES ASSUME Init PROVE Serial!Init
    OBVIOUS
  <2>1. absPhase = [t \in Task |-> "new"]
    BY PhaseIsSeen, SeenSteps DEF Init
  <2>2. absOrder = [n \in Name |-> <<>>]
    BY DEF Init, absOrder
  <2> QED
    BY <2>1, <2>2 DEF Serial!Init
<1>2. Spec => []PermitsAccounted
    BY InitPermits, NextPermits, InductiveInvariant, PTL DEF Spec
<1> QED
    BY <1>1, <1>2, NextRefines, InductiveInvariant, PTL DEF Spec, ImplementsSerialLanes, Serial!Spec

-----------------------------------------------------------------------------
(* The life of a node around the queues.                                   *)
Over(t) == pc[t] \in {"released", "finished", "settled"}

(* A body that is over without a throw has done all it does; and what it   *)
(* has done is in the stores, but for a request whose anchor is.           *)
BodyInv ==
    /\ life \in Lives /\ fetched \subseteq Task /\ done \in [Task -> Nat]
    /\ fetched # {} => life.node
    /\ \A t \in Task : life.node /\ Over(t) /\ t \notin threw => done[t] = Len(Uses(t))
    /\ \A t \in Task : t \notin threw =>
        /\ Op[t] = "anchor" /\ done[t] >= 1 => <<"pins", t>> \in kept
        /\ Op[t] = "write" /\ done[t] >= 2 => <<"pins", t>> \in kept
        /\ Op[t] = "write" /\ done[t] >= 3 =>
               <<"requests", t>> \in kept \/ <<"pins", AnchorOf[t]>> \in kept

-----------------------------------------------------------------------------
(* Each step of a node is one of its lanes, or leaves them alone; a node   *)
(* does not change its life.                                               *)
LEMMA NodeSteps ==
    ASSUME life \in Lives, [NextNode]_allVars PROVE [Next]_vars /\ life' = life
<1>0. life.made \subseteq Task
    BY NodeAssumption
<1>1. CASE UNCHANGED allVars
    BY <1>1 DEF allVars, nodeVars
<1>2. CASE StartStep \/ StartFails \/ BeginCloseNode \/ CloseStep
    BY <1>2 DEF StartStep, StartFails, BeginCloseNode, CloseStep
<1>3. CASE CloseQueue \/ QueueIsClosed
    BY <1>3, NodeAssumption DEF CloseQueue, QueueIsClosed, QueueNamed, Next, nodeVars
<1>4. CASE OnItsOwn \/ OwnPause
    BY <1>0, <1>4 DEF OnItsOwn, OwnPause, Next, nodeVars
<1>5. ASSUME NEW t \in Task, TaskStep(t) \/ Submit(t) \/ HandleAnchor(t)
      PROVE  [Next]_vars /\ life' = life
    BY <1>5 DEF TaskStep, BodyStep, Return, LoadModel, QueueStep, Submit, HandleAnchor, Next, nodeVars
<1>6. ASSUME NEW t \in Task, FetchAnchor(t) \/ ForgetRequest(t)
      PROVE  [Next]_vars /\ life' = life
    BY <1>6 DEF FetchAnchor, ForgetRequest
<1> QED
    BY <1>1, <1>2, <1>3, <1>4, <1>5, <1>6 DEF NextNode, Shutdown

LEMMA NodeHasLanes == SpecNode => Spec
<1>1. InitNode => Init /\ life \in Lives
    BY DEF InitNode
<1>2. life \in Lives /\ [NextNode]_allVars => [Next]_vars /\ (life \in Lives)'
    BY NodeSteps
<1> QED
    BY <1>1, <1>2, PTL DEF SpecNode, Spec

(* A task is over only once its body has returned.                         *)
LEMMA OverSteps ==
    ASSUME IInv, [Next]_vars, NEW u \in Task, Over(u)'
    PROVE  Over(u) \/ Finish(u)
<1>0. pc \in [Task -> Status]
    BY DEF IInv, TypeOK
<1>1. ASSUME NEW t \in Task, Run(t) PROVE Over(u)
    BY <1>0, <1>1 DEF Run, Enqueue, Over
<1>2. ASSUME NEW t \in Task, RunChild(t) PROVE Over(u)
  <2>1. Child[t] \in Task
    BY <1>2, TaskAssumption DEF RunChild
  <2> QED
    BY <1>0, <1>2, <2>1 DEF RunChild, Enqueue, Over
<1>3. ASSUME NEW t \in Task, LaneNext(t) PROVE Over(u)
  <2>1. PICK l \in Task :
          /\ pc[t] = "released"
          /\ \/ queue[l] # <<>> /\ pc' = [pc EXCEPT ![t] = "finished", ![Head(queue[l])] = "acquiring"]
             \/ pc' = [pc EXCEPT ![t] = "finished"]
    BY <1>3 DEF LaneNext
  <2>2. queue[l] # <<>> => Head(queue[l]) \in Task
    BY DEF IInv, TypeOK
  <2> QED
    BY <1>0, <2>1, <2>2 DEF Over
<1>4. ASSUME NEW t \in Task, Acquire(t) \/ Remove(t) PROVE Over(u)
    BY <1>0, <1>4 DEF Acquire, Remove, Over
<1>5. ASSUME NEW t \in Task, Finish(t) PROVE Over(u) \/ Finish(u)
    BY <1>0, <1>5 DEF Finish, Over
<1>6. ASSUME NEW x \in Queue, BeginClose(x) \/ PauseLanes(x) PROVE Over(u)
    BY <1>6 DEF BeginClose, PauseLanes, Over
<1>7. CASE UNCHANGED vars
    BY <1>7 DEF vars, Over
<1> QED
    BY <1>1, <1>2, <1>3, <1>4, <1>5, <1>6, <1>7 DEF Next

-----------------------------------------------------------------------------
LEMMA UsesOf ==
    ASSUME NEW t \in Task
    PROVE  /\ Op[t] = "write" => /\ Len(Uses(t)) = 3 /\ Uses(t)[1] = "signal"
                                 /\ Uses(t)[2] = "pins" /\ Uses(t)[3] = "requests"
           /\ Op[t] \in {"load", "anchor"} => Len(Uses(t)) = 1 /\ Uses(t)[1] = "pins"
           /\ Op[t] \in {"write", "load", "anchor"}
BY NodeAssumption DEF Uses

LEMMA InitBody == InitNode => BodyInv
BY DEF InitNode, Init, BodyInv, Over

(* The next step of a body keeps what the body is in BodyInv for.          *)
LEMMA BodyStepInv == ASSUME BodyInv, NEW t \in Task, BodyStep(t) PROVE BodyInv'
<1> DEFINE r == Uses(t)[done[t] + 1]
<1>1. /\ life.node /\ Holds(t) /\ t \notin threw /\ done[t] < Len(Uses(t)) /\ done[t] \in Nat
      /\ UNCHANGED <<pc, life, fetched>>
    BY DEF BodyStep, BodyInv, vars, runtime
<1>2. ~Over(t)
    BY <1>1 DEF Holds, Over
<1>3. CASE /\ threw' = IF done[t] = 1 /\ Child[t] \in threw THEN threw \cup {t} ELSE threw
           /\ done' = [done EXCEPT ![t] = @ + 1]
           /\ kept' = IF r = "signal" \/ t \in threw' \/ Op[t] = "load" THEN kept
                      ELSE kept \cup {<<r, t>>}
  <2>1. done' \in [Task -> Nat] /\ done'[t] = done[t] + 1 /\ \A u \in Task : u # t => done'[u] = done[u]
    BY <1>1, <1>3 DEF BodyInv
  <2>2. kept \subseteq kept' /\ threw \subseteq threw'
    BY <1>3
  <2>3. \A u \in Task : life.node /\ Over(u) /\ u \notin threw' => done'[u] = Len(Uses(u))
    BY <1>2, <2>1, <2>2 DEF BodyInv
  <2>4. ASSUME t \notin threw', Op[t] # "load", r # "signal" PROVE <<r, t>> \in kept'
    BY <1>3, <2>4
  <2>5. ASSUME t \notin threw'
        PROVE  /\ Op[t] = "anchor" /\ done'[t] >= 1 => <<"pins", t>> \in kept'
               /\ Op[t] = "write" /\ done'[t] >= 2 => <<"pins", t>> \in kept'
               /\ Op[t] = "write" /\ done'[t] >= 3 => <<"requests", t>> \in kept'
    <3>1. CASE Op[t] = "anchor"
      BY <1>1, <2>1, <2>4, <2>5, <3>1, UsesOf
    <3>2. CASE Op[t] = "write"
      <4>0. done[t] \in Nat /\ done[t] < 3
        BY <1>1, <3>2, UsesOf
      <4>1. done[t] = 0 \/ done[t] = 1 \/ done[t] = 2
        BY <4>0
      <4>2. done[t] = 1 => <<"pins", t>> \in kept'
        BY <2>4, <2>5, <3>2, UsesOf
      <4>3. ASSUME done[t] = 2 PROVE <<"requests", t>> \in kept' /\ <<"pins", t>> \in kept'
        <5>1. r = "requests"
          BY <3>2, <4>3, UsesOf
        <5>2. <<"requests", t>> \in kept'
          BY <2>4, <2>5, <3>2, <5>1
        <5>3. <<"pins", t>> \in kept
          <6>1. done[t] >= 2
            BY <4>3
          <6> QED
            BY <1>1, <3>2, <6>1, Zenon DEF BodyInv
        <5> QED
          BY <2>2, <5>2, <5>3
      <4> QED
        BY <2>1, <3>2, <4>1, <4>2, <4>3
    <3> QED
      BY <3>1, <3>2
  <2>6. ASSUME NEW u \in Task, u # t, u \notin threw'
        PROVE  /\ Op[u] = "anchor" /\ done'[u] >= 1 => <<"pins", u>> \in kept'
               /\ Op[u] = "write" /\ done'[u] >= 2 => <<"pins", u>> \in kept'
               /\ Op[u] = "write" /\ done'[u] >= 3 =>
                      <<"requests", u>> \in kept' \/ <<"pins", AnchorOf[u]>> \in kept'
    BY <2>1, <2>2, <2>6 DEF BodyInv
  <2> QED
    BY <1>1, <2>1, <2>3, <2>5, <2>6 DEF BodyInv, Over
<1>4. CASE threw' = threw \cup {t} /\ UNCHANGED <<done, kept>>
    BY <1>1, <1>4 DEF BodyInv, Over
<1> QED
    BY <1>3, <1>4 DEF BodyStep

(* Steps in which no body goes on: a task is over that was, or whose body  *)
(* has just returned, and the stores keep what they have.                  *)
LEMMA OtherStepsInv ==
    ASSUME IInv, BodyInv, [Next]_vars, UNCHANGED <<life, done, threw, kept>>, fetched' \subseteq Task,
           fetched' = fetched \/ life.node,
           \A t \in Task : Finish(t) /\ life.node => BodyOver(t)
    PROVE  BodyInv'
<1>1. ASSUME NEW u \in Task, life.node, Over(u)', u \notin threw PROVE done[u] = Len(Uses(u))
    BY <1>1, OverSteps DEF BodyInv, BodyOver
<1> QED
    BY <1>1 DEF BodyInv

(* A request is forgotten when its anchor has been stored.                 *)
LEMMA ForgetInv == ASSUME BodyInv, NEW t \in Task, ForgetRequest(t) PROVE BodyInv'
<1> DEFINE h == AnchorOf[t]
<1>1. /\ h \in Task /\ h \in fetched /\ pc[h] = "settled" /\ h \notin threw
      /\ kept' = kept \ {<<"requests", t>>}
      /\ UNCHANGED <<pc, life, fetched, done, threw>>
    BY DEF ForgetRequest, BodyInv, vars
<1>2. life.node /\ Op[h] = "anchor" /\ Over(h)
    BY <1>1, NodeAssumption, TaskAssumption DEF BodyInv, Over
<1>3. done[h] = 1
  <2>1. \A u \in Task : life.node /\ Over(u) /\ u \notin threw => done[u] = Len(Uses(u))
    BY DEF BodyInv
  <2>2. done[h] = Len(Uses(h))
    BY <1>1, <1>2, <2>1
  <2>3. Len(Uses(h)) = 1
    BY <1>1, <1>2, UsesOf
  <2> QED
    BY <2>2, <2>3
<1>4. <<"pins", h>> \in kept
  <2>1. done[h] >= 1
    BY <1>3
  <2> QED
    BY <1>1, <1>2, <2>1, Zenon DEF BodyInv
<1>5. /\ \A u \in Task \cup {NoTask} : <<"pins", u>> \in kept => <<"pins", u>> \in kept'
      /\ \A u \in Task : u # t /\ <<"requests", u>> \in kept => <<"requests", u>> \in kept'
    BY <1>1
<1>6. \A u \in Task : AnchorOf[u] \in Task \cup {NoTask}
    BY NodeAssumption
<1>7. ASSUME NEW u \in Task, u \notin threw
      PROVE  /\ Op[u] = "anchor" /\ done[u] >= 1 => <<"pins", u>> \in kept'
             /\ Op[u] = "write" /\ done[u] >= 2 => <<"pins", u>> \in kept'
             /\ Op[u] = "write" /\ done[u] >= 3 =>
                    <<"requests", u>> \in kept' \/ <<"pins", AnchorOf[u]>> \in kept'
  <2>1. CASE u = t
    BY <1>1, <1>4, <1>5, <1>7, <2>1 DEF BodyInv
  <2>2. CASE u # t
    BY <1>5, <1>6, <1>7, <2>2 DEF BodyInv
  <2> QED
    BY <2>1, <2>2
<1> QED
    BY <1>1, <1>7 DEF BodyInv, Over

LEMMA NextBody == IInv /\ BodyInv /\ [NextNode]_allVars => BodyInv'
<1> SUFFICES ASSUME IInv, BodyInv, [NextNode]_allVars PROVE BodyInv'
    OBVIOUS
<1>1. life \in Lives /\ [Next]_vars /\ life' = life
    BY NodeSteps DEF BodyInv
<1>2. ASSUME UNCHANGED <<done, threw, kept, fetched>>,
             \A t \in Task : Finish(t) /\ life.node => BodyOver(t)
      PROVE  BodyInv'
    BY <1>1, <1>2, OtherStepsInv DEF BodyInv
<1>3. ASSUME pc' = pc, UNCHANGED <<done, threw, kept, fetched>> PROVE BodyInv'
    BY <1>1, <1>3 DEF BodyInv, Over
<1>4. CASE UNCHANGED allVars
    BY <1>3, <1>4 DEF allVars, vars, nodeVars
<1>5. CASE StartStep \/ StartFails \/ BeginCloseNode \/ Shutdown
    BY <1>3, <1>5 DEF StartStep, StartFails, BeginCloseNode, Shutdown, CloseStep, CloseQueue,
        QueueIsClosed, BeginClose, PauseLanes, vars, nodeVars
<1>6. ASSUME NEW t \in Task, Return(t) PROVE BodyInv'
  <2>1. ASSUME NEW u \in Task, Finish(u) PROVE u = t
    BY <1>6, <2>1 DEF Return, Finish, Holds, IInv, TypeOK
  <2> QED
    BY <1>2, <1>6, <2>1 DEF Return, nodeVars
<1>7. ASSUME \A u \in Task : pc'[u] = "released" => pc[u] = "released",
             UNCHANGED <<done, threw, kept>>, fetched' = fetched
      PROVE  BodyInv'
  <2>1. \A u \in Task : ~Finish(u)
    BY <1>7 DEF Finish, Holds, IInv, TypeOK
  <2> QED
    BY <1>2, <1>7, <2>1
<1>8. pc \in [Task -> Status]
    BY DEF IInv, TypeOK
<1>9. ASSUME NEW t \in Task, Run(t), UNCHANGED nodeVars PROVE BodyInv'
    BY <1>7, <1>8, <1>9 DEF Run, Enqueue, nodeVars
<1>10. ASSUME NEW t \in Task, LoadModel(t) PROVE BodyInv'
  <2>1. Child[t] \in Task
    BY <1>10, TaskAssumption DEF LoadModel, RunChild
  <2> QED
    BY <1>7, <1>8, <1>10, <2>1 DEF LoadModel, RunChild, Enqueue, nodeVars
<1>11. ASSUME NEW t \in Task, QueueStep(t) PROVE BodyInv'
  <2>1. CASE Acquire(t) \/ Remove(t)
    BY <1>7, <1>8, <1>11, <2>1 DEF QueueStep, Acquire, Remove, nodeVars
  <2>2. CASE LaneNext(t)
    <3>1. PICK l \in Task :
            \/ queue[l] # <<>> /\ pc' = [pc EXCEPT ![t] = "finished", ![Head(queue[l])] = "acquiring"]
            \/ pc' = [pc EXCEPT ![t] = "finished"]
      BY <2>2 DEF LaneNext
    <3>2. queue[l] # <<>> => Head(queue[l]) \in Task
      BY DEF IInv, TypeOK
    <3> QED
      BY <1>7, <1>8, <1>11, <3>1, <3>2 DEF QueueStep, nodeVars
  <2> QED
    BY <1>11, <2>1, <2>2 DEF QueueStep
<1>12. ASSUME NEW t \in Task, FetchAnchor(t) PROVE BodyInv'
  <2>1. AnchorOf[t] \in Task /\ life.node /\ fetched' = fetched \cup {AnchorOf[t]}
    BY <1>1, <1>12, NodeAssumption DEF FetchAnchor
  <2> QED
    BY <1>1, <1>12, <2>1 DEF FetchAnchor, BodyInv, Over, vars
<1>13. ASSUME OnItsOwn \/ OwnPause PROVE BodyInv'
  <2>1. CASE \E t \in life.made : Run(t) /\ UNCHANGED nodeVars
    <3>1. life.made \subseteq Task
      BY <1>1, NodeAssumption
    <3> QED
      BY <1>9, <2>1, <3>1
  <2>2. CASE \E x \in Queue : (BeginClose(x) \/ PauseLanes(x)) /\ UNCHANGED nodeVars
    BY <1>3, <2>2 DEF BeginClose, PauseLanes, nodeVars
  <2> QED
    BY <1>13, <2>1, <2>2 DEF OnItsOwn, OwnPause
<1>14. ASSUME NEW t \in Task, TaskStep(t) PROVE BodyInv'
    BY <1>6, <1>10, <1>11, <1>14, BodyStepInv DEF TaskStep
<1>15. ASSUME NEW t \in Task, Submit(t) \/ HandleAnchor(t) PROVE BodyInv'
    BY <1>9, <1>15 DEF Submit, HandleAnchor
<1> QED
    BY <1>4, <1>5, <1>12, <1>13, <1>14, <1>15, ForgetInv DEF NextNode

-----------------------------------------------------------------------------
(* The queues of a node that starts, serves and is closed are those that   *)
(* SerialLanes describes.                                                  *)
THEOREM NodesAreSerial == SpecNode => ImplementsSerialLanes
BY NodeHasLanes, LanesAreSerial

(* A client that was told its commit is applied finds it stored, with its  *)
(* anchor or with the request for it, whatever was closed in between.      *)
THEOREM AcknowledgedIsDurable == SpecNode => []AckedIsDurable
<1>1. SpecNode => []IInv
    BY NodeHasLanes, InductiveInvariant
<1>2. SpecNode => []BodyInv
    BY <1>1, InitBody, NextBody, PTL DEF SpecNode
<1>3. BodyInv => AckedIsDurable
  <2> SUFFICES ASSUME BodyInv, NEW t \in Task, Op[t] = "write", life.node, pc[t] = "settled",
                      t \notin threw
               PROVE  /\ <<"pins", t>> \in kept
                      /\ <<"requests", t>> \in kept \/ <<"pins", AnchorOf[t]>> \in kept
    BY DEF AckedIsDurable, Writes
  <2>1. done[t] = 3
    BY UsesOf DEF BodyInv, Over
  <2> QED
    BY <2>1 DEF BodyInv
<1> QED
    BY <1>2, <1>3, PTL
=============================================================================
