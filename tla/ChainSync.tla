----------------------------- MODULE ChainSync -----------------------------
(***************************************************************************)
(* What a node has of the chain: the blocks that history sync goes through *)
(* (HistorySync), and the anchors in them (MerkleAnchors).  Rebuild jobs go*)
(* from one to the other by way of a queue and have no effect on the first,*)
(* so that a behaviour is about one of them.                               *)
(***************************************************************************)
EXTENDS HistorySync, MerkleAnchors

VARIABLE about      \* never changes

chainSyncVars == <<vars, anchorVars, about>>

InitChainSync ==
    /\ Init /\ InitAnchors
    /\ about \in {"blocks", "anchors"}
    /\ about = "blocks" => operator = CHOOSE op \in Operators : TRUE
    /\ about = "anchors" => setting = CHOOSE s \in Settings : TRUE

NextChainSync ==
    /\ UNCHANGED about
    /\ \/ about = "blocks" /\ Next /\ UNCHANGED anchorVars
       \/ about = "anchors" /\ NextAnchors /\ UNCHANGED vars

SpecChainSync == InitChainSync /\ [][NextChainSync]_chainSyncVars

=============================================================================
