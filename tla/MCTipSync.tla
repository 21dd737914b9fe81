----------------------------- MODULE MCTipSync -----------------------------
(* Instances of TipSync: the forests of commits the runs use.              *)
EXTENDS TipSync, TLC

CONSTANTS n1, n2, g, a, b, c, d, e, A, B, C

NodeSymmetry == Permutations(Node)

None == NoCommit
NoExpiry == [x \in Commit |-> 0]
Order == g :> 0 @@ a :> 5 @@ b :> 2 @@ c :> 4 @@ d :> 3 @@ e :> 6
         @@ A :> 8 @@ B :> 1 @@ C :> 7
RankOf == [x \in Commit |-> Order[x]]

(* Four histories: g a A b, g a A e (they part after an anchor), g c d     *)
(* (longer, no anchor) and g c C (anchored later than A).                  *)
ForkLinks == g :> None @@ a :> g @@ A :> a @@ b :> A @@ e :> A
            @@ c :> g @@ d :> c @@ C :> c
ForkPrev == [x \in Commit |-> ForkLinks[x]]
ForkTimes == A :> 1 @@ C :> 2
ForkTime == [x \in TimeEvents |-> ForkTimes[x]]
ForkExpiry == [x \in Commit |-> IF x \in {a, d} THEN 2 ELSE 0]

(* Two branches anchored in the same block, one of which forks again:      *)
(* g a A b B, g a A c C and g d e with e an anchor of the same time as A.  *)
TieLinks == g :> None @@ a :> g @@ A :> a @@ b :> A @@ B :> b
           @@ c :> A @@ C :> c @@ d :> g @@ e :> d
TiePrev == [x \in Commit |-> TieLinks[x]]
TieTimes == A :> 1 @@ e :> 1 @@ B :> 3 @@ C :> 2
TieTime == [x \in TimeEvents |-> TieTimes[x]]

=============================================================================
