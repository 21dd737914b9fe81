-------------------------------- MODULE Wire --------------------------------
(***************************************************************************)
(* Commits and stream states as JSON: between a client and the daemon, and *)
(* between a node and its store (StreamUtils in packages/common).  What is *)
(* not converted to a string is an object to JSON and comes back as plain  *)
(* data.                                                                   *)
(*                                                                         *)
(* A commit has all the fields a commit may have, NONE for those that are  *)
(* absent: jws, linkedBlock and cacaoBlock of a signed commit's container, *)
(* link of a signed commit, proof, id and prev, and model, context and     *)
(* unique of the header.  A state is [type, log, anchorStatus, anchorProof,*)
(* model, context, unique], the last three being of its metadata.  Bytes   *)
(* are [bytes |-> ...], and strings in base 64 [base64 |-> ...].           *)
(***************************************************************************)
EXTENDS StreamRefs

CONSTANTS
    Commits,    \* that clients and nodes send
    States      \* pairs of the state a receiver shows and the one that is sent

VARIABLES
    sent,       \* what is on its way, NONE or [what, value]
    paper,      \* its JSON
    shown       \* what the receiver has

wireVars == <<sent, paper, shown>>

-----------------------------------------------------------------------------
(* Values and their strings.                                               *)
Falsy == {NONE, [base64 |-> <<>>]}
IsA(kind, x) == kind \in DOMAIN x
Json(x) ==
    IF DOMAIN x \cap {"none", "number", "name", "base64", "cidText", "prefix"} # {} THEN x
    ELSE [plain |-> x]
Values == {"jws", "linkedBlock", "cacaoBlock", "link", "proof", "id", "prev", "model", "context", "unique"}
Broken(record) == \E f \in DOMAIN record \cap Values : record[f] = FAILED
WholeOrFailed(record) == IF Broken(record) THEN FAILED ELSE record

\* uint8arrays.toString takes nothing but bytes
ToBase64(x) == IF IsA("bytes", x) THEN [base64 |-> x.bytes] ELSE FAILED
FromBase64(x) == IF IsA("base64", x) THEN [bytes |-> x.base64] ELSE FAILED
ToCid(x) == IF IsA("cidText", x) THEN x.cidText ELSE FAILED
IfThere(x, convert(_)) == IF x \in Falsy THEN x ELSE convert(x)

-----------------------------------------------------------------------------
IsSignedCommitContainer(c) == ~NULL(c.jws)
ConvertCommit(c, cid(_), bytes(_)) ==
    WholeOrFailed(
    IF IsSignedCommitContainer(c)
    THEN [c EXCEPT !.jws = cid(@), !.linkedBlock = bytes(@), !.cacaoBlock = IfThere(@, bytes)]
    ELSE [c EXCEPT !.link = IfThere(@, cid), !.proof = IfThere(@, cid),
                   !.id = IfThere(@, cid), !.prev = IfThere(@, cid),
                   !.model = IfThere(@, bytes), !.context = IfThere(@, bytes),
                   !.unique = IfThere(@, bytes)])

SerializeCommit(c) == ConvertCommit(c, CidText, ToBase64)
DeserializeCommit(c) == ConvertCommit(c, ToCid, FromBase64)

-----------------------------------------------------------------------------
TILE_TYPE_ID == 0
AnchorStatus == <<"NOT_REQUESTED", "PENDING", "PROCESSING", "ANCHORED", "FAILED", "REPLACED">>

\* Mutant: the context is left to JSON.
SerializeMost(s) ==
    [s EXCEPT !.log = [k \in DOMAIN @ |-> [@[k] EXCEPT !.cid = CidText(@)]],
              !.anchorStatus = [name |-> AnchorStatus[@.number + 1]],
              !.anchorProof = IfThere(@, LAMBDA p : [p EXCEPT !.txHash = CidText(@), !.root = CidText(@)]),
              !.model = IfThere(@, StringOf),
              !.unique = IF s.type = TILE_TYPE_ID THEN @ ELSE IfThere(@, ToBase64)]
    @@ [doctype |-> NameByCode(s.type)]

SerializeState(s) ==
    [s EXCEPT !.log = [k \in DOMAIN @ |-> [@[k] EXCEPT !.cid = CidText(@)]],
              !.anchorStatus = [name |-> AnchorStatus[@.number + 1]],
              !.anchorProof = IfThere(@, LAMBDA p : [p EXCEPT !.txHash = CidText(@), !.root = CidText(@)]),
              !.model = IfThere(@, StringOf), !.context = IfThere(@, StringOf),
              !.unique = IF s.type = TILE_TYPE_ID THEN @ ELSE IfThere(@, ToBase64)]
    @@ [doctype |-> NameByCode(s.type)]

DeserializeState(s) ==
    LET status(x) == Number(SelectInSeq(AnchorStatus, LAMBDA n : n = x.name) - 1)
        id(x) == IF IsA("prefix", x) THEN StreamIDFrom(x) ELSE FAILED
    IN  WholeOrFailed(
        [f \in DOMAIN s \ {"doctype"} |->
            CASE f = "type"         -> CodeByName(s.doctype).number
              [] f = "log"          -> [k \in DOMAIN s.log |-> [s.log[k] EXCEPT !.cid = ToCid(@)]]
              [] f = "anchorStatus" -> status(s.anchorStatus)
              [] f = "anchorProof"  -> IfThere(s.anchorProof,
                                          LAMBDA p : [p EXCEPT !.txHash = ToCid(@), !.root = ToCid(@)])
              [] f = "unique"       -> IF s.type = TILE_TYPE_ID THEN s.unique
                                       ELSE IfThere(s.unique, FromBase64)
              [] OTHER              -> IfThere(s[f], id)])

(* statesEqual compares what would be sent.                                *)
StatesEqual(s, t) == SerializeState(s) = SerializeState(t)

-----------------------------------------------------------------------------
JsonOf(record) ==
    [f \in DOMAIN record |-> IF f \in Values THEN Json(record[f]) ELSE record[f]]

InitWire == sent = NONE /\ paper = NONE /\ shown = NONE

(* A client creates a stream, applies a commit or brings a genesis commit  *)
(* to a multi query; a node sends the commits of a stream.                 *)
SendCommit ==
    /\ NULL(sent)
    /\ \E c \in Commits : sent' = [what |-> "commit", value |-> c]
    /\ paper' = JsonOf(SerializeCommit(sent'.value))
    /\ UNCHANGED shown

(* The node answers a request with a state, a page of the index has one,   *)
(* the client polls for one, or the node stores it.                        *)
SendState ==
    /\ NULL(sent)
    /\ \E s \in States :
        /\ sent' = [what |-> "state", value |-> s[2]]
        /\ shown' = s[1]
        /\ paper' = JsonOf(SerializeState(s[2]))

TakeCommit ==
    /\ ~NULL(sent) /\ sent.what = "commit" /\ NULL(shown) /\ paper # FAILED
    /\ shown' = DeserializeCommit(paper)
    /\ UNCHANGED <<sent, paper>>

(* A handle shows a state that is not the one it shows already.            *)
Shown(old, state) ==
    IF ~NULL(old) /\ state # FAILED /\ StatesEqual(old, state) THEN old ELSE state
TakeState ==
    /\ ~NULL(sent) /\ sent.what = "state" /\ ~IsA("taken", paper)
    /\ shown' = Shown(shown, DeserializeState(paper))
    /\ paper' = [taken |-> TRUE]
    /\ UNCHANGED sent

NextWire == SendCommit \/ SendState \/ TakeCommit \/ TakeState

SpecWire == InitWire /\ [][NextWire]_wireVars

-----------------------------------------------------------------------------
(* What arrives is what was sent, and a handle that gets a state shows it  *)
(* then, whatever it showed before - for every kind of commit and state,   *)
(* with one exception each: `unique` that is empty comes back as a string  *)
(* (it is falsy then), and that of an unsigned TileDocument, a string,     *)
(* cannot be sent at all (StreamUtils in stream-utils.ts).                 *)
AsArrives(x) ==
    {x} \cup (IF x.unique = [bytes |-> <<>>] THEN {[x EXCEPT !.unique = [base64 |-> <<>>]]} ELSE {})
SentIsReceived ==
    /\ ~NULL(sent) /\ sent.what = "commit" =>
        /\ paper = FAILED => ~IsSignedCommitContainer(sent.value) /\ IsA("base64", sent.value.unique)
        /\ ~NULL(shown) => shown \in AsArrives(sent.value)
    /\ ~NULL(sent) /\ sent.what = "state" /\ IsA("taken", paper) => shown \in AsArrives(sent.value)

=============================================================================
