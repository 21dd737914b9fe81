---------------------------- MODULE MCChainSync ----------------------------
(* Instances: what a behaviour of HistorySync is exposed to; batches of    *)
(* anchors, how they are published, and the nodes that meet them.          *)
EXTENDS ChainSync

CONSTANTS m1

Calm == [indexed |-> {}, users |-> {"start"}, crash |-> FALSE, reorg |-> FALSE, failure |-> FALSE,
         overlap |-> FALSE, gap |-> FALSE, decade |-> 0, length |-> 5]

CalmAndNot ==
    {[Calm EXCEPT !.crash = TRUE, !.failure = TRUE, !.length = 3],
     [Calm EXCEPT !.crash = TRUE, !.length = 4],
     [Calm EXCEPT !.indexed = {m1}, !.reorg = TRUE],
     [Calm EXCEPT !.reorg = TRUE, !.failure = TRUE],
     [Calm EXCEPT !.users = {"start", "stop"}, !.overlap = TRUE],
     [Calm EXCEPT !.overlap = TRUE, !.decade = 4]}

(* A node that synced its models goes down, the chain grows, and it starts *)
(* again.                                                                  *)
Restarting == {[Calm EXCEPT !.crash = TRUE, !.length = 4]}
-----------------------------------------------------------------------------
(* Streams 1..n: their models and controllers are not in the order of      *)
(* their ids.                                                              *)
Candidate(s) == [stream |-> s, cid |-> [commit |-> s], model |-> (s * 2) % 3, controller |-> (s + 1) % 2]
MCRequested == { {Candidate(s) : s \in 1 .. n} : n \in {1, 2, 3, 5} } \cup {{Candidate(3)}}

Publication(on, type, to, height) == [chain |-> on, txType |-> type, to |-> to, height |-> height]
MCPublications ==
    { Publication("eip155:1", "f(bytes32)", ANCHOR_CONTRACT_ADDRESS, 16688195),
      Publication("eip155:1", "raw", "0x0", 16688195),
      Publication("eip155:1", "f(bytes32)", "0x0", 16688195),
      Publication("eip155:1337", "f(bytes32)", ANCHOR_CONTRACT_ADDRESS, 5),
      Publication("eip155:4", "f(bytes32)", ANCHOR_CONTRACT_ADDRESS, 5) }

Operator(network, readOnly, rpc, casChains, syncs) ==
    [network |-> network, readOnly |-> readOnly, rpc |-> rpc, casChains |-> casChains, syncs |-> syncs]
MCOperators ==
    { Operator("mainnet", FALSE, "", {"eip155:1"}, TRUE),
      Operator("mainnet", TRUE, "", {}, FALSE),
      Operator("mainnet", FALSE, "eip155:1337", {"eip155:1"}, FALSE),
      Operator("local", FALSE, "", {"eip155:1337"}, TRUE),
      Operator("inmemory", FALSE, "", {}, FALSE), Operator("inmemory", FALSE, "", {}, TRUE) }

=============================================================================
