-------------------------- MODULE MCAnchorRequests --------------------------
(* Instances of AnchorRequests.                                            *)
EXTENDS AnchorRequests, TLC

CONSTANTS g, c, d, e, r, A, B, E

NoExpiry == [x \in Commit |-> 0]
Order == g :> 0 @@ c :> 1 @@ d :> 2 @@ e :> 3 @@ r :> 4 @@ A :> 5 @@ B :> 6 @@ E :> 7
RankOf == [x \in Commit |-> Order[x]]

(* g c d written by the node; A anchors c, B anchors d; e is written on A  *)
(* and anchored by E; r is another node's commit on c.                     *)
Links == g :> NoCommit @@ c :> g @@ d :> c @@ r :> c @@ A :> c @@ B :> d @@ e :> A @@ E :> e
PrevOf == [x \in Commit |-> Links[x]]
Times == A :> 1 @@ B :> 2 @@ E :> 3
TimeOf == [x \in TimeEvents |-> Times[x]]

ASSUME StreamAssumption == NothingIsRefused

=============================================================================
