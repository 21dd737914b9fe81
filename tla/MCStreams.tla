----------------------------- MODULE MCStreams -----------------------------
(* Instances of Repository, the calls that are made on one node and what   *)
(* they bring, and of Handlers, the nodes and the stream types.  Neither   *)
(* uses the other, so that a behaviour is about one of them.               *)
EXTENDS Repository, Handlers, TLC

CONSTANTS g, a, b, x, y, d, A, D, n1, n2, w1, w2, t1, t2, e1, l1, l2, l3, v1

(* The stream: g, then a; on a either b (and on it x, whose content is     *)
(* refused, and y on x) or d and its anchor D; an anchor A of a.           *)
Links == g :> NoCommit @@ a :> g @@ b :> a @@ x :> b @@ y :> x @@ d :> a @@ D :> d @@ A :> a
PrevOf == [c \in Commit |-> Links[c]]
Times == A :> 2 @@ D :> 1
TimeOf == [c \in TimeEvents |-> Times[c]]
Order == g :> 0 @@ a :> 5 @@ b :> 2 @@ x :> 4 @@ y :> 3 @@ d :> 6 @@ A :> 1 @@ D :> 7
RankOf == [c \in Commit |-> Order[c]]
NoExpiry == [c \in Commit |-> 0]

ASSUME StreamAssumption == NothingInDispute
-----------------------------------------------------------------------------
(* A user writes a and d, and a is anchored; other nodes write b and D,    *)
(* and a client asks for the stream as it is at b.                         *)
Kinds == w1 :> "write" @@ w2 :> "write" @@ t1 :> "tip" @@ t2 :> "tip" @@ e1 :> "event"
         @@ l1 :> "prefer" @@ l2 :> "never" @@ l3 :> "always"
KindOf == [k \in Call |-> Kinds[k]]
Args == w1 :> a @@ w2 :> d @@ t1 :> b @@ t2 :> A @@ e1 :> A
        @@ l1 :> NoCommit @@ l2 :> NoCommit @@ l3 :> NoCommit
ArgOf == [k \in Call |-> Args[k]]

AtOf == [v \in View |-> b]
LoaderOf == [v \in View |-> l1]

Batch(made, evict) == [calls |-> made, views |-> {}, evict |-> evict]
SomeBatches ==
    { Batch({w1, w2, e1, l1, l2}, FALSE), Batch({w1, t1, l3}, TRUE), Batch({w1, e1, t2}, TRUE),
      [Batch({w1, e1, l1}, TRUE) EXCEPT !.views = {v1}],
      Batch({}, TRUE) }
-----------------------------------------------------------------------------
Of(handler, misses, recon) ==
    [handler |-> handler, genesisContent |-> handler # "caip10", misses |-> misses, recon |-> recon]
TypesAndExposures ==
    {Of(h, e[1], e[2]) : h \in {"mid", "tile", "caip10"},
                         e \in {<<FALSE, FALSE>>, <<TRUE, FALSE>>, <<FALSE, TRUE>>}}

NodeSymmetry == Permutations(Node)
-----------------------------------------------------------------------------
VARIABLE about      \* never changes

streamsVars == <<vars, handlerVars, about>>

InitStreams ==
    /\ Init /\ InitHandlers
    /\ about \in {"calls", "handlers"}
    /\ about = "handlers" <=> \A k \in Call : pc[k] = "unused"
    /\ about = "handlers" => ~rust /\ ~indexed /\ store = <<>>
    /\ about = "calls" => setting = CHOOSE s \in Settings : TRUE

NextStreams ==
    /\ UNCHANGED about
    /\ \/ about = "calls" /\ Next /\ UNCHANGED handlerVars
       \/ about = "handlers" /\ NextHandlers /\ UNCHANGED vars

SpecStreams == InitStreams /\ [][NextStreams]_streamsVars
=============================================================================
