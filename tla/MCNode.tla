------------------------------- MODULE MCNode -------------------------------
(* Instances of Node.  Tasks a and b apply commits of a document d in the  *)
(* executionQ; a, of a request that loads d first (ld), awaits k, the load  *)
(* of the document's model m, in the loadingQ.  A query that has loaded     *)
(* another document e (c) goes on to load the same model (g).  h applies    *)
(* the anchor of a.                                                         *)
EXTENDS Node, TLC

CONSTANTS a, b, c, g, k, ld, h, d, e, m, dl

SomeName == [t \in Task |-> CASE t \in {a, b, h} -> d [] t = c -> e [] t \in {g, k} -> m [] t = ld -> dl]
SomeQueue == [n \in Name |-> IF n = d THEN executionQ ELSE loadingQ]
ModelChild == [t \in Task |-> IF t = a THEN k ELSE NoTask]
LimitOne == [x \in Queue |-> 1]
SomeOp == [t \in Task |-> CASE t \in {a, b} -> "write" [] t = h -> "anchor" [] OTHER -> "load"]
LoadFirst == [t \in Task |-> CASE t = a -> ld [] t = g -> c [] OTHER -> NoTask]
AnchorTask == [t \in Task |-> IF t = a THEN h ELSE NoTask]

Life(made, off, fails) == [node |-> TRUE, made |-> made, off |-> off, fails |-> fails]
SomeSteps == {"pubsub", "peers", "loop", "jobs", "metrics"}
MCLives ==
    { [node |-> FALSE, made |-> {a, b, c}, off |-> {}, fails |-> {}],
      Life({ld, a, b, k, h}, SomeSteps \ {"loop"}, {}),
      Life({ld, a, k, c, g}, SomeSteps \ {"loop"}, {}) }
    \cup { Life({}, off, {Starting[i] : i \in DOMAIN Starting}) : off \in SUBSET SomeSteps }

(* A write and a query that load one model while the node closes.          *)
Sharing == { Life({ld, a, k, c, g}, SomeSteps \ {"loop"}, {}) }
=============================================================================
