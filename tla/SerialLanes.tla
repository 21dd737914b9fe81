---------------------------- MODULE SerialLanes ----------------------------
(***************************************************************************)
(* What the callers of ExecutionQueue.forStream are promised: the tasks    *)
(* submitted for one stream are carried out one at a time and in the order *)
(* they were submitted, and at most Limit tasks of a queue at once.  There *)
(* are no lanes and no permits here.                                       *)
(***************************************************************************)
EXTENDS Naturals, Sequences, FiniteSets

CONSTANTS Task, Name, Queue, NameOf, QueueOf, Limit

VARIABLES
    phase,    \* [Task -> "new", "accepted", "executing" or "done"]
    order     \* [Name -> the accepted tasks that are not done, oldest first]

vars == <<phase, order>>

Executing(x) == {t \in Task : phase[t] = "executing" /\ QueueOf[NameOf[t]] = x}

Init ==
    /\ phase = [t \in Task |-> "new"]
    /\ order = [n \in Name |-> <<>>]

Accept(t) ==
    /\ phase[t] = "new"
    /\ phase' = [phase EXCEPT ![t] = "accepted"]
    /\ order' = [order EXCEPT ![NameOf[t]] = Append(@, t)]

Begin(t) ==
    /\ phase[t] = "accepted"
    /\ Head(order[NameOf[t]]) = t
    /\ Cardinality(Executing(QueueOf[NameOf[t]])) < Limit[QueueOf[NameOf[t]]]
    /\ phase' = [phase EXCEPT ![t] = "executing"]
    /\ UNCHANGED order

End(t) ==
    /\ phase[t] = "executing"
    /\ phase' = [phase EXCEPT ![t] = "done"]
    /\ order' = [order EXCEPT ![NameOf[t]] = Tail(@)]

Next == \E t \in Task : Accept(t) \/ Begin(t) \/ End(t)

Spec == Init /\ [][Next]_vars
=============================================================================
