---------------------------- MODULE MerkleAnchors ----------------------------
(***************************************************************************)
(* An anchor on its way from a batch of requests to a time that a node     *)
(* believes: the Merkle tree an anchor service builds (packages/           *)
(* anchor-utils), the transaction with its root, the anchor commits - the  *)
(* service's own and those that history sync rebuilds from the transaction *)
(* (rebuild-anchor.ts) - and their verification (AnchorTimestampExtractor, *)
(* EthereumAnchorValidator, InMemoryCAS and its validator), on a node with *)
(* its configuration (anchoring.ts).                                       *)
(*                                                                         *)
(* The CID of a record is the record, those of commits are given.  The     *)
(* provider of a chain and IPFS may leave a call unanswered, and the chain *)
(* may move the transaction to another block; the time of its k-th block   *)
(* is k.                                                                   *)
(***************************************************************************)
EXTENDS Integers, SequencesExt

CONSTANTS
    Requested,      \* sets of candidates: [stream, cid, model, controller]; model 0 is none
    DepthLimit,     \* depthLimit of the tree factory, 0: none
    Publications,   \* how a service publishes: [chain, txType, to, height]
    Operators,      \* configurations of nodes: [network, readOnly, rpc, casChains, syncs]
    ModelsOfJob,    \* models of a rebuild job
    MaxMoves, MaxRestarts

NoCid == [none |-> TRUE]
FAILED == [error |-> TRUE]
Absent == ""

VARIABLES
    operator,       \* never changes
    node,           \* [up, chainId, transaction, blocks]: the validator's chain and caches
    anchored,       \* NoCid or [leaves, root, proof, published]
    included,       \* the transaction on chain, NoCid or [chain, txType, root, to]
    homes,          \* the heights of the blocks it has been in
    rebuild,        \* the rebuild job: [at, todo, missed, commits]
    checking,       \* the verification in progress, NoCid or [commit, transaction]
    verdict,        \* the last one that ended, NoCid or [commit, time, unanswered, abandoned]
    restarts

publicVars == <<anchored, included, homes>>
anchorVars == <<operator, node, publicVars, rebuild, checking, verdict, restarts>>

-----------------------------------------------------------------------------
(* The tree.                                                               *)

(* IpfsLeafCompare: by model, those without last, controller, stream.      *)
Precedes(a, b) ==
    IF a.model # b.model THEN a.model # 0 /\ (b.model = 0 \/ a.model < b.model)
    ELSE IF a.controller # b.controller THEN a.controller < b.controller
    ELSE a.stream < b.stream
Leaves(candidates) == SetToSortSeq(candidates, Precedes)

MergeNodes(left, right, metadata) == [left |-> left, right |-> right, metadata |-> metadata]
IsNode(x) == "left" \in DOMAIN x

TreeMetadata(leaves) ==
    [numEntries |-> Len(leaves), streamIds |-> [i \in DOMAIN leaves |-> leaves[i].stream]]

RECURSIVE BuildLevel(_, _, _)
BuildLevel(elements, depth, metadata) ==
    LET middle == Len(elements) \div 2
    IN  IF Len(elements) = 1
        THEN IF depth = 0 THEN MergeNodes(elements[1], NoCid, metadata) ELSE elements[1]
        ELSE MergeNodes(BuildLevel(SubSeq(elements, 1, middle), depth + 1, NoCid),
                        BuildLevel(SubSeq(elements, middle + 1, Len(elements)), depth + 1, NoCid),
                        metadata)

Build(leaves) ==
    IF leaves = <<>> \/ (DepthLimit > 0 /\ Len(leaves) > 2 ^ DepthLimit) THEN FAILED
    ELSE BuildLevel([i \in DOMAIN leaves |-> leaves[i].cid], 0, TreeMetadata(leaves))

(* getDirectPathFromRoot climbs from a leaf: of the paths down, the one    *)
(* that comes from there.                                                  *)
RECURSIVE PathsTo(_, _)
PathsTo(x, leaf) ==
    IF IsNode(x)
    THEN { <<0>> \o p : p \in PathsTo(x.left, leaf) } \cup { <<1>> \o p : p \in PathsTo(x.right, leaf) }
    ELSE IF x = leaf THEN { <<>> } ELSE {}
DirectPathFromRoot(root, leaf) == CHOOSE p \in PathsTo(root, leaf) : TRUE

\* Mutant: the middle leaf goes to the left.
RECURSIVE PathByRoundedIndex(_, _)
PathByRoundedIndex(index, count) ==
    LET middle == (count + 1) \div 2
    IN  IF count = 1 THEN <<>>
        ELSE IF index < middle THEN <<0>> \o PathByRoundedIndex(index, middle)
        ELSE <<1>> \o PathByRoundedIndex(index - middle, count - middle)

RECURSIVE PathByIndexHelper(_, _)
PathByIndexHelper(index, count) ==
    LET middle == count \div 2
    IN  IF count = 1 THEN <<>>
        ELSE IF index < middle THEN <<0>> \o PathByIndexHelper(index, middle)
        ELSE <<1>> \o PathByIndexHelper(index - middle, count - middle)
PathByIndex(index, count) == IF count = 1 THEN <<0>> ELSE PathByIndexHelper(index, count)

(* retrieveFromIPFS: what a path leads to; 2 is the metadata of the root.  *)
Child(x, step) ==
    IF ~IsNode(x) THEN FAILED
    ELSE CASE step = 0 -> x.left [] step = 1 -> x.right [] step = 2 -> x.metadata
Retrieve(root, path) == FoldLeft(Child, root, path)

-----------------------------------------------------------------------------
(* Chains and networks.                                                    *)
V1_PROOF_TYPE == "f(bytes32)"
ANCHOR_CONTRACT_ADDRESS == "0x231055A0852D67C7107Ad0d0DFeab60278fE6AdC"
InMemoryChain == "inmemory:12345"
EthChainIdMappings == {"eip155:1", "eip155:3", "eip155:4", "eip155:5", "eip155:100", "eip155:11155111"}
IsEip155(id) == id # InMemoryChain

(* Comparing with the threshold of a chain that has none is false.         *)
BlockThresholds ==
    [c \in EthChainIdMappings \cup {"eip155:1337"} |->
        CASE c = "eip155:1" -> 16688195      [] c = "eip155:3" -> 1000000000
          [] c = "eip155:5" -> 8498671       [] c = "eip155:100" -> 26509835
          [] c = "eip155:11155111" -> 5518585 [] c = "eip155:1337" -> 1
          [] OTHER -> -1]

SupportedChainsByNetwork(network) ==
    CASE network = "mainnet"      -> {"eip155:1"}
      [] network = "testnet-clay" -> {"eip155:3", "eip155:4", "eip155:100"}
      [] network = "dev-unstable" -> {"eip155:3", "eip155:4", "eip155:5", "eip155:11155111"}
      [] network = "local"        -> {"eip155:1337"}
      [] network = "inmemory"     -> {InMemoryChain}

(* A local network has Ganache by default.                                 *)
EthereumRpc(op) == IF op.rpc = Absent /\ op.network = "local" THEN "eip155:1337" ELSE op.rpc

(* The chain that a provider for chain `id` really serves.  Providers are  *)
(* kept per chain; a node asks for no other one once it has its chain.     *)
ProviderFor(rpc, id, chainId) ==
    IF ~IsEip155(id) \/ (chainId # Absent /\ chainId # id) THEN Absent
    ELSE IF rpc # Absent THEN rpc
    ELSE IF id \in EthChainIdMappings THEN id
    ELSE Absent

(* ProvidersCache.getProvider, for history sync.                           *)
SyncHasProvider(op, id) == ProviderFor(EthereumRpc(op), id, Absent) = id

(* makeAnchorService, init of the service and its validator, and           *)
(* usableAnchorChains: the chain the node validates, or FAILED.  A node    *)
(* that only reads asks no anchor service.                                 *)
ChainAtStart(op) ==
    LET id == IF op.network = "inmemory" THEN InMemoryChain ELSE CHOOSE c \in op.casChains : TRUE
        usable == {id} \cap SupportedChainsByNetwork(op.network)
    IN  IF op.network = "inmemory"
        THEN IF op.syncs /\ ~op.readOnly THEN FAILED ELSE [chain |-> InMemoryChain]
        ELSE IF op.readOnly THEN [chain |-> Absent]
        ELSE IF \/ Cardinality(op.casChains) # 1
                \/ ProviderFor(EthereumRpc(op), id, Absent) # id
                \/ usable = {}
                \/ op.syncs /\ ~SyncHasProvider(op, id)
        THEN FAILED
        ELSE [chain |-> id]

-----------------------------------------------------------------------------
NoCaches == [transaction |-> NoCid, blocks |-> {}]
Down == [up |-> FALSE, chainId |-> Absent] @@ NoCaches
NotRebuilding == [at |-> "idle", todo |-> {}, missed |-> {}, commits |-> {}]

InitAnchors ==
    /\ operator \in Operators
    /\ node = Down
    /\ anchored = NoCid /\ included = NoCid /\ homes = <<>>
    /\ rebuild = NotRebuilding
    /\ checking = NoCid /\ verdict = NoCid /\ restarts = 0

(* A rebuild job that was not completed is done again.                     *)
StartNode ==
    /\ ~node.up
    /\ LET start == ChainAtStart(operator)
       IN /\ start # FAILED
          /\ node' = [up |-> TRUE, chainId |-> start.chain] @@ NoCaches
    /\ UNCHANGED <<operator, publicVars, rebuild, checking, verdict, restarts>>

Restart ==
    /\ node.up /\ restarts < MaxRestarts
    /\ node' = Down /\ restarts' = restarts + 1
    /\ rebuild' = IF rebuild.at = "streams"
                  THEN [rebuild EXCEPT !.at = "idle", !.todo = {}, !.missed = {}] ELSE rebuild
    /\ checking' = NoCid /\ verdict' = NoCid
    /\ UNCHANGED <<operator, publicVars>>

-----------------------------------------------------------------------------
(* The anchor service.                                                     *)
AnchorCommit(leaf, proof, path) == [id |-> leaf.stream, prev |-> leaf.cid, proof |-> proof, path |-> path]
Proof(id, root, txType) == [chainId |-> id, root |-> root, txType |-> txType]

Anchor ==
    /\ anchored = NoCid
    /\ \E candidates \in Requested, p \in Publications :
        LET leaves == Leaves(candidates)
            root == Build(leaves)
            proof == Proof(p.chain, root, p.txType)
        IN  /\ IsEip155(p.chain) /\ root # FAILED
            /\ anchored' = [leaves |-> leaves, root |-> root, proof |-> proof,
                            published |-> { AnchorCommit(l, proof, DirectPathFromRoot(root, l.cid)) :
                                              l \in ToSet(leaves) }]
            /\ included' = [chain |-> p.chain, txType |-> p.txType, root |-> root, to |-> p.to]
            /\ homes' = <<p.height>>
    /\ UNCHANGED <<operator, node, rebuild, checking, verdict, restarts>>

(* InMemoryCAS.process: a tip is a root, and the time of the "transaction" *)
(* is kept in the cache that the nodes of the process share.               *)
AnchorInMemory ==
    /\ anchored = NoCid /\ operator.network = "inmemory"
    /\ \E candidates \in Requested : \E leaf \in candidates :
        LET proof == Proof(InMemoryChain, leaf.cid, V1_PROOF_TYPE)
        IN  /\ anchored' = [leaves |-> <<leaf>>, root |-> proof.root, proof |-> proof,
                            published |-> {AnchorCommit(leaf, proof, <<>>)}]
            /\ included' = [chain |-> InMemoryChain, txType |-> V1_PROOF_TYPE, root |-> proof.root,
                            to |-> InMemoryChain]
            /\ homes' = <<1>>
    /\ UNCHANGED <<operator, node, rebuild, checking, verdict, restarts>>

(* A hundred later anchors push it out of that cache.                      *)
ForgetInMemory ==
    /\ included # NoCid /\ included.chain = InMemoryChain
    /\ included' = [included EXCEPT !.chain = Absent]
    /\ UNCHANGED <<operator, node, anchored, homes, rebuild, checking, verdict, restarts>>

MoveTransaction ==
    /\ included # NoCid /\ IsEip155(included.chain) /\ Len(homes) <= MaxMoves
    /\ homes' = Append(homes, Last(homes) + 1)
    /\ UNCHANGED <<operator, node, anchored, included, rebuild, checking, verdict, restarts>>

-----------------------------------------------------------------------------
(* RebuildAnchorWorker.  The listener that asks for it has filtered logs   *)
(* of the contract, on the node's chain.                                   *)
StartRebuild ==
    /\ node.up /\ operator.syncs /\ rebuild.at = "idle"
    /\ included # NoCid /\ included.chain = node.chainId
    /\ included.to = ANCHOR_CONTRACT_ADDRESS /\ included.txType = V1_PROOF_TYPE
    /\ \E stored \in BOOLEAN, loaded \in BOOLEAN :
        LET metadata == Retrieve(included.root, <<2>>)
        IN  rebuild' = IF stored /\ loaded
                       THEN [rebuild EXCEPT !.at = "streams", !.todo = 1 .. Len(metadata.streamIds)]
                       ELSE [rebuild EXCEPT !.at = "given up"]
    /\ UNCHANGED <<operator, node, publicVars, checking, verdict, restarts>>

LeafData(root, index) ==
    LET path == PathByIndex(index, Retrieve(root, <<2>>).numEntries)
    IN  [path |-> path, cid |-> Child(Retrieve(root, Front(path)), Last(path))]

(* What a stream's genesis commit names.                                   *)
ModelOfStream(stream) ==
    (CHOOSE l \in ToSet(anchored.leaves) : l.stream = stream).model

(* The tasks for streams share nothing, so that their order is no matter.  *)
RebuildStream ==
    /\ rebuild.at = "streams" /\ rebuild.todo # {}
    /\ LET i == Min(rebuild.todo)
           proof == Proof(included.chain, included.root, V1_PROOF_TYPE)
           stream == Retrieve(proof.root, <<2>>).streamIds[i]
           leaf == LeafData(proof.root, i - 1)
           commit == [id |-> stream, prev |-> leaf.cid, proof |-> proof, path |-> leaf.path]
       IN  \E loaded \in BOOLEAN :
             rebuild' =
               IF ~loaded THEN [rebuild EXCEPT !.todo = @ \ {i}, !.missed = @ \cup {stream}]
               ELSE IF ModelOfStream(stream) \notin ModelsOfJob THEN [rebuild EXCEPT !.todo = @ \ {i}]
               ELSE [rebuild EXCEPT !.todo = @ \ {i}, !.commits = @ \cup {commit}]
    /\ UNCHANGED <<operator, node, publicVars, checking, verdict, restarts>>

EndRebuild ==
    /\ rebuild.at = "streams" /\ rebuild.todo = {}
    /\ rebuild' = [rebuild EXCEPT !.at = "done"]
    /\ UNCHANGED <<operator, node, publicVars, checking, verdict, restarts>>

-----------------------------------------------------------------------------
(* Verification of an anchor commit.                                       *)
PrevViaMerkleTree(commit) ==
    IF commit.path = <<>> THEN commit.proof.root
    ELSE Child(Retrieve(commit.proof.root, Front(commit.path)), Last(commit.path))

\* Mutant: what was not found stays so.
KeepAnswers(cached, answer) ==
    IF cached # NoCid THEN cached ELSE IF answer = NoCid THEN FAILED ELSE answer

(* _getTransaction: null is cached too, and asked for again.               *)
CachedOr(cached, answer) == IF cached # NoCid THEN cached ELSE answer

OnChain == [data |-> included, home |-> Len(homes)]

Verdict(commit, time, unanswered, abandoned) ==
    [commit |-> commit, time |-> time, unanswered |-> unanswered, abandoned |-> abandoned]

CommitsToVerify == (IF anchored = NoCid THEN {} ELSE anchored.published) \cup rebuild.commits

TimeInMemory == IF included.chain = InMemoryChain THEN 1 ELSE 0

VerifyAnchorCommit(commit) ==
    /\ node.up /\ checking = NoCid
    /\ \E loaded \in BOOLEAN, answered \in BOOLEAN :
        LET serves == ProviderFor(EthereumRpc(operator), commit.proof.chainId, node.chainId)
            answer == IF answered /\ serves = included.chain THEN OnChain ELSE NoCid
            transaction == CachedOr(node.transaction, answer)
            fails == verdict' = Verdict(commit, 0, ~loaded, FALSE) /\ UNCHANGED <<node, checking>>
        IN  IF ~loaded \/ PrevViaMerkleTree(commit) # commit.prev THEN fails
            ELSE IF node.chainId = InMemoryChain
            THEN verdict' = Verdict(commit, TimeInMemory, FALSE, FALSE)
                 /\ UNCHANGED <<node, checking>>
            ELSE IF serves = Absent THEN fails
            ELSE /\ node' = [node EXCEPT !.transaction = transaction]
                 /\ IF transaction \in {NoCid, FAILED}
                    THEN verdict' = Verdict(commit, 0, ~answered, FALSE) /\ UNCHANGED checking
                    ELSE checking' = [commit |-> commit, transaction |-> transaction] /\ UNCHANGED verdict
    /\ UNCHANGED <<operator, publicVars, rebuild, restarts>>

(* getCidFromTransaction and the rules for transactions of either type.    *)
CidFromTransaction(txType, data) ==
    IF (txType = V1_PROOF_TYPE) = (data.txType = V1_PROOF_TYPE) THEN data.root ELSE FAILED
Conforms(proof, data, height) ==
    /\ CidFromTransaction(proof.txType, data) = proof.root
    /\ \/ height <= BlockThresholds[proof.chainId]
       \/ proof.txType = V1_PROOF_TYPE /\ data.to = ANCHOR_CONTRACT_ADDRESS

(* The block of the transaction as it was loaded; a block that was given   *)
(* up may not be known any more.                                           *)
ValidateChainInclusion ==
    /\ checking # NoCid
    /\ \E answered \in BOOLEAN :
        LET home == checking.transaction.home
            abandoned == home # Len(homes)
            known == home \in node.blocks \/ answered
            proof == checking.commit.proof
            valid == known /\ Conforms(proof, checking.transaction.data, homes[home])
        IN  /\ node' = IF known THEN [node EXCEPT !.blocks = @ \cup {home}] ELSE node
            /\ verdict' = Verdict(checking.commit, IF valid THEN home ELSE 0, ~known, abandoned)
    /\ checking' = NoCid
    /\ UNCHANGED <<operator, publicVars, rebuild, restarts>>

NextAnchors ==
    \/ StartNode \/ Restart
    \/ Anchor \/ AnchorInMemory \/ ForgetInMemory \/ MoveTransaction
    \/ StartRebuild \/ RebuildStream \/ EndRebuild
    \/ (\E c \in CommitsToVerify : VerifyAnchorCommit(c)) \/ ValidateChainInclusion

SpecAnchors == InitAnchors /\ [][NextAnchors]_anchorVars

-----------------------------------------------------------------------------
(* An anchor commit that history sync rebuilds from the transaction alone  *)
(* is the one that the anchor service published for the stream, so that a  *)
(* stream never has two commits of one anchor; and a job that missed no    *)
(* stream has them all (utils.ts:32-39, rebuild-anchor.ts:118-152, against *)
(* merkle-tree-factory.ts:72-104): what the tree's builder does with a lone*)
(* leaf, an odd number or the order of leaves, the path by index repeats.  *)
RebuiltAsPublished ==
    /\ rebuild.commits # {} => rebuild.commits \subseteq anchored.published
    /\ rebuild.at = "done" =>
         \A l \in ToSet(anchored.leaves) :
            l.model \in ModelsOfJob /\ l.stream \notin rebuild.missed =>
                \E c \in rebuild.commits : c.id = l.stream

(* Whoever verifies an anchor that was requested and included by the rules *)
(* gets the time of a block that held the transaction - and is refused only*)
(* when IPFS or the provider left this very call unanswered, when the      *)
(* transaction it keeps is of a block that the chain gave up, or when the  *)
(* proof's chain is not the node's: that it was refused before, or that    *)
(* another commit was, plays no part (ethereum-anchor-validator.ts:149-215)*)
ByTheRules(commit) ==
    \A k \in DOMAIN homes : Conforms(commit.proof, included, homes[k])
Kept == IF operator.network = "inmemory" THEN included.chain = InMemoryChain
        ELSE /\ IsEip155(included.chain)
             /\ ProviderFor(EthereumRpc(operator), included.chain, node.chainId) = included.chain
AnchorsAreTimed ==
    verdict # NoCid =>
        IF verdict.time # 0
        THEN \E l \in ToSet(anchored.leaves) : l.stream = verdict.commit.id /\ l.cid = verdict.commit.prev
        ELSE verdict.unanswered \/ verdict.abandoned \/ ~Kept
             \/ (operator.network # "inmemory" /\ ~ByTheRules(verdict.commit))

=============================================================================
