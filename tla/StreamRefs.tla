----------------------------- MODULE StreamRefs -----------------------------
(***************************************************************************)
(* StreamIDs and CommitIDs (packages/streamid): how they are made of a     *)
(* stream type and CIDs, written as bytes, strings and URLs, and read back *)
(* by someone who expects either or one of the two.                        *)
(*                                                                         *)
(* Whatever may be absent or of several types is a record of one field     *)
(* that says what it is; NONE is null, and FAILED what a reader gets that  *)
(* throws.  A byte is a number below 256; digests are as short as the      *)
(* instance wants them.                                                    *)
(***************************************************************************)
EXTENDS Naturals, Sequences, SequencesExt, FiniteSets

CONSTANTS
    Inputs,     \* what ids are made of: [type, cid, commit], commit in Commits or NotACommit
    Asked       \* what a URL may ask for in ?commit=

NONE == [none |-> TRUE]
FAILED == [error |-> TRUE]
NotACommit == [kind |-> "stream-id"]
Number(n) == [number |-> n]
Text(x) == [text |-> x]
CidText(cid) == [cidText |-> cid]     \* CID.toString and CID.parse
IsCid(x) == "version" \in DOMAIN x
NULL(x) == x = NONE

VARIABLES
    named,      \* the id that was made, of which input, FAILED or NONE
    written,    \* how it is written
    got         \* who read it, and what

refVars == <<named, written, got>>

-----------------------------------------------------------------------------
(* Bytes.                                                                  *)
Varint(n) == IF n < 128 THEN <<n>> ELSE <<(n % 128) + 128, n \div 128>>

(* Read: the value and the rest; 256 stands for no number.                 *)
ReadVarint(bytes) ==
    IF bytes # <<>> /\ bytes[1] < 128 THEN [value |-> bytes[1], rest |-> Tail(bytes)]
    ELSE IF Len(bytes) > 1 /\ bytes[2] < 128
    THEN [value |-> (bytes[1] - 128) + 128 * bytes[2], rest |-> SubSeq(bytes, 3, Len(bytes))]
    ELSE [value |-> 256 * 256, rest |-> <<>>]

(* A CID of version 0 is written as its multihash alone.                   *)
Multihash(cid) == Varint(cid.hash) \o Varint(Len(cid.digest)) \o cid.digest
CidBytes(cid) ==
    (IF cid.version = 0 THEN <<>> ELSE Varint(1) \o Varint(cid.codec)) \o Multihash(cid)

ReadCid(bytes) ==
    LET version == ReadVarint(bytes)
        codec   == ReadVarint(version.rest)
        hash    == ReadVarint(codec.rest)
        length  == ReadVarint(hash.rest)
        digest  == SubSeq(length.rest, 1, length.value)
    IN  IF version.value \notin {0, 1} \/ Len(length.rest) < length.value THEN FAILED
        ELSE [cid  |-> [version |-> version.value, codec |-> codec.value, hash |-> hash.value,
                        digest |-> digest],
              rest |-> SubSeq(length.rest, length.value + 1, Len(length.rest))]

-----------------------------------------------------------------------------
(* Strings: base 36, the digits of the number that the bytes are.          *)
TimesPlus(digits, n, d, base) ==
    LET sum == FoldLeft(LAMBDA s, x : [out   |-> Append(s.out, (x * n + s.carry) % base),
                                       carry |-> (x * n + s.carry) \div base],
                        [out |-> <<>>, carry |-> d], digits)
        carried == IF sum.carry = 0 THEN <<>>
                   ELSE IF sum.carry < base THEN <<sum.carry>>
                   ELSE <<sum.carry % base, sum.carry \div base>>
    IN  sum.out \o carried
Converted(digits, from, to) ==
    Reverse(FoldLeft(LAMBDA out, d : TimesPlus(out, from, d, to), <<>>, digits))
Base36(bytes) == Converted(bytes, 256, 36)
FromBase36(digits) == Converted(digits, 36, 256)

-----------------------------------------------------------------------------
(* Stream types.                                                           *)
StreamTypes == <<"tile", "caip10-link", "model", "MID", "UNLOADABLE">>
CodeByName(name) ==
    IF Contains(StreamTypes, name)
    THEN Number((CHOOSE k \in DOMAIN StreamTypes : StreamTypes[k] = name) - 1)
    ELSE FAILED
NameByCode(code) == IF code + 1 \in DOMAIN StreamTypes THEN StreamTypes[code + 1] ELSE FAILED

(* The constructors: a type is a number or a name, a CID also a string.    *)
TypeCode(type) == IF "number" \in DOMAIN type THEN type ELSE CodeByName(type.text)
ParseCid(x) ==
    IF IsCid(x) THEN x ELSE IF "cidText" \in DOMAIN x THEN x.cidText ELSE NONE

StreamIDOf(type, cid) ==
    LET code == TypeCode(type)
        parsed == ParseCid(cid)
    IN  IF code = FAILED \/ NULL(parsed) THEN FAILED
        ELSE [kind |-> "stream-id", type |-> code.number, genesis |-> parsed]

(* parseCommit: NONE is the genesis commit.                                *)
ParseCommit(genesis, commit) ==
    LET cid == ParseCid(commit)
    IN  IF commit \in {NONE, Number(0), Text("0")} THEN NONE
        ELSE IF NULL(cid) THEN FAILED
        ELSE IF cid = genesis THEN NONE ELSE cid

CommitIDOf(type, cid, commit) ==
    LET id == StreamIDOf(type, cid)
        parsed == IF id = FAILED THEN FAILED ELSE ParseCommit(id.genesis, commit)
    IN  IF parsed = FAILED THEN FAILED
        ELSE [kind |-> "commit-id", type |-> id.type, genesis |-> id.genesis, commit |-> parsed]

Made(input) ==
    IF input.commit = NotACommit THEN StreamIDOf(input.type, input.cid)
    ELSE CommitIDOf(input.type, input.cid, input.commit)

BaseID(id) == [kind |-> "stream-id", type |-> id.type, genesis |-> id.genesis]
CommitOf(id) == IF NULL(id.commit) THEN id.genesis ELSE id.commit

StreamIDEquals(id, other) ==
    other.kind = "stream-id" /\ id.type = other.type /\ id.genesis = other.genesis
CommitIDEquals(id, other) ==
    /\ other.kind = "commit-id"
    /\ id.type = other.type /\ id.genesis = other.genesis /\ CommitOf(id) = CommitOf(other)
Equals(id, other) ==
    other # FAILED /\ IF id.kind = "stream-id" THEN StreamIDEquals(id, other)
                                               ELSE CommitIDEquals(id, other)

-----------------------------------------------------------------------------
(* Written.  A string is [prefix, base, commit], for what the pattern of   *)
(* URLs takes it apart into.                                               *)
STREAMID_CODEC == 206
StreamIDBytes(id) == Varint(STREAMID_CODEC) \o Varint(id.type) \o CidBytes(id.genesis)
CommitIDBytes(id) ==
    StreamIDBytes(id) \o (IF NULL(id.commit) THEN <<0>> ELSE CidBytes(id.commit))
Bytes(id) == IF id.kind = "stream-id" THEN StreamIDBytes(id) ELSE CommitIDBytes(id)

String(prefix, base, commit) == [prefix |-> prefix, base |-> base, commit |-> commit]
StringOf(id) == String("", Base36(Bytes(id)), NONE)
UrlOf(id) == String("ceramic://", Base36(Bytes(id)), NONE)
Forms(id) ==
    {[bytes |-> Bytes(id)], StringOf(id), UrlOf(id), [StringOf(id) EXCEPT !.prefix = "/ceramic/"]}
    \cup { [UrlOf(id) EXCEPT !.commit = c] : c \in Asked }

-----------------------------------------------------------------------------
(* Read.                                                                   *)
CommitIDWith(base, commit) == [base EXCEPT !.kind = "commit-id"] @@ [commit |-> commit]
ReadCommit(base, commit) == IF commit = FAILED THEN FAILED ELSE CommitIDWith(base, commit.cid)

\* Mutant: a zero is read as a commit.
ReadEveryCommit(base, rest) ==
    IF rest = <<>> THEN base ELSE ReadCommit(base, ReadCid(rest))

(* What follows the genesis: nothing, a zero or a commit.                  *)
ParseRest(base, rest) ==
    IF rest = <<>> THEN base
    ELSE IF rest = <<0>> THEN CommitIDWith(base, NONE)
    ELSE ReadCommit(base, ReadCid(rest))

ParseGenesis(type, genesis) ==
    IF genesis = FAILED THEN FAILED
    ELSE ParseRest([kind |-> "stream-id", type |-> type, genesis |-> genesis.cid], genesis.rest)
ParseType(type) == ParseGenesis(type.value, ReadCid(type.rest))
ParseCodec(codec) ==
    IF codec.value # STREAMID_CODEC THEN FAILED ELSE ParseType(ReadVarint(codec.rest))
ParseBytes(bytes) == ParseCodec(ReadVarint(bytes))

(* ?commit= replaces the commit of what stands before it.                  *)
AtCommit(base, commit) == IF commit = FAILED THEN FAILED ELSE CommitIDWith(BaseID(base), commit)
Replaced(base, asked) ==
    IF base = FAILED \/ NULL(asked) THEN base
    ELSE AtCommit(base, ParseCommit(base.genesis, asked))
ParseString(string) == Replaced(ParseBytes(FromBase36(string.base)), string.commit)

Parsed(form) == IF "bytes" \in DOMAIN form THEN ParseBytes(form.bytes) ELSE ParseString(form)

Rebuilt(parsed) ==
    IF parsed.kind = "stream-id" THEN StreamIDOf(Number(parsed.type), parsed.genesis)
    ELSE CommitIDOf(Number(parsed.type), parsed.genesis, parsed.commit)
RebuiltIf(kinds, parsed) ==
    IF parsed # FAILED /\ parsed.kind \in kinds THEN Rebuilt(parsed) ELSE FAILED
StreamIDFrom(form) == RebuiltIf({"stream-id"}, Parsed(form))
CommitIDFrom(form) == RebuiltIf({"commit-id"}, Parsed(form))
StreamRefFrom(form) == RebuiltIf({"stream-id", "commit-id"}, Parsed(form))

-----------------------------------------------------------------------------
InitRefs == named = NONE /\ written = NONE /\ got = NONE

Make ==
    /\ NULL(named)
    /\ \E i \in Inputs : named' = [input |-> i, id |-> Made(i)]
    /\ UNCHANGED <<written, got>>

Write ==
    /\ ~NULL(named) /\ NULL(written) /\ named.id # FAILED
    /\ \E f \in Forms(named.id) : written' = f
    /\ UNCHANGED <<named, got>>

Read(reader, id) ==
    /\ ~NULL(written) /\ NULL(got)
    /\ got' = [by |-> reader, id |-> id]
    /\ UNCHANGED <<named, written>>

NextRefs ==
    \/ Make \/ Write
    \/ /\ ~NULL(written)
       /\ \/ Read("StreamID", StreamIDFrom(written))
          \/ Read("CommitID", CommitIDFrom(written))
          \/ Read("StreamRef", StreamRefFrom(written))

SpecRefs == InitRefs /\ [][NextRefs]_refVars

-----------------------------------------------------------------------------
(* What was written is read as the same id by whoever accepts its kind, and*)
(* by nobody as the other kind: no CommitID passes for the StreamID it     *)
(* begins with, and none for another commit, whether the genesis commit    *)
(* was given as null, 0, "0" or its CID.  A CID of version 0 cannot be read*)
(* back, and a URL that asks for no CID not either (stream-named-parsing.ts).*)
Asks(form) == "commit" \in DOMAIN form /\ ~NULL(form.commit)
Meant ==
    LET id == named.id
    IN  IF Asks(written)
        THEN CommitIDOf(Number(id.type), id.genesis, written.commit)
        ELSE id
Legible ==
    LET cids == {named.id.genesis} \cup (IF named.id.kind = "commit-id" THEN {CommitOf(named.id)} ELSE {})
    IN  Meant # FAILED /\ \A c \in cids : c.version = 1

ReadAsWritten ==
    ~NULL(got) =>
        IF Legible /\ (got.by = "StreamRef" \/ (got.by = "StreamID" <=> Meant.kind = "stream-id"))
        THEN Equals(Meant, got.id) /\ (got.id.kind = "commit-id" => got.id.commit # got.id.genesis)
        ELSE got.id = FAILED

=============================================================================
