------------------------------ MODULE MCStores ------------------------------
(* Instances of the two stores that a pinned update goes to, the state     *)
(* store (PinStore: three callers) and then the feed (Feed).  Neither      *)
(* reads the other, so that a behaviour is about one of them.              *)
EXTENDS Feed, PinStore, TLC

CONSTANTS c1, c2, c3

VARIABLE about      \* never changes

storesVars == <<vars, pinVars, about>>

InitStores ==
    /\ Init /\ InitPins
    /\ about \in {"feed", "pins"}
    /\ about = "feed" => setting = CHOOSE s \in Settings : TRUE
    /\ about = "pins" => faults = {}

NextStores ==
    /\ UNCHANGED about
    /\ \/ about = "feed" /\ Next /\ UNCHANGED pinVars
       \/ about = "pins" /\ NextPins /\ UNCHANGED vars

SpecStores == InitStores /\ [][NextStores]_storesVars

OrderlyAndNot ==
    {[ops |-> AllOps, overlap |-> FALSE, late |-> FALSE, fail |-> FALSE, indexed |-> TRUE],
     [ops |-> AllOps \ {"unpin"}, overlap |-> FALSE, late |-> FALSE, fail |-> TRUE, indexed |-> FALSE],
     [ops |-> AllOps, overlap |-> TRUE, late |-> TRUE, fail |-> TRUE, indexed |-> FALSE]}

CallSymmetry == Permutations(Call)
=============================================================================
