--------------------------- MODULE TipSyncProofs ---------------------------
(* Proofs about the logs of a stream, for logs of any length and any       *)
(* forest of commits: the rule that chooses between two histories, what    *)
(* every log a node holds is, and that nodes which heard of the same tips  *)
(* hold the same log.                                                      *)
EXTENDS TipSync, WellFoundedInduction, TLAPS

(* A nonempty set of natural numbers has a least element, and Min is it.   *)
LEMMA MinOfNaturals ==
    ASSUME NEW S, S \subseteq Nat, S # {}
    PROVE  Min(S) \in S /\ \A y \in S : Min(S) =< y
<1> DEFINE less == {ss \in Nat \X Nat : ss[1] < ss[2]}
<1>1. IsWellFoundedOn(less, Nat)
  BY NatLessThanWellFounded DEF OpToRel
<1> HIDE DEF less
<1>2. PICK x \in S : \A y \in S : ~(<<y, x>> \in less)
  BY <1>1, WFMin
<1>3. ASSUME NEW y \in S PROVE x =< y
  <2>1. x \in Nat /\ y \in Nat
    OBVIOUS
  <2>2. y < x => <<y, x>> \in less
    BY <2>1 DEF less
  <2> QED  BY <1>2, <2>1, <2>2
<1> QED  BY <1>3 DEF Min

(* A nonempty set of natural numbers with a bound has a greatest element.  *)
LEMMA MaxOfNaturals ==
    ASSUME NEW n \in Nat, NEW S, S \subseteq 0..n, S # {}
    PROVE  Max(S) \in S /\ \A y \in S : y =< Max(S)
<1> DEFINE T == {k \in 0..n : n - k \in S}
<1>1. T \subseteq Nat /\ T # {}
  <2>1. PICK x \in S : x \in 0..n
    OBVIOUS
  <2>2. n - x \in 0..n /\ n - (n - x) = x
    BY <2>1
  <2>3. n - x \in T
    BY <2>1, <2>2
  <2>4. T \subseteq Nat
    OBVIOUS
  <2> HIDE DEF T
  <2> QED  BY <2>3, <2>4
<1>2. Min(T) \in T /\ \A y \in T : Min(T) =< y
  <2> HIDE DEF T
  <2> QED  BY <1>1, MinOfNaturals
<1>3. PICK x \in S : x \in 0..n /\ Min(T) = n - x
  <2>1. Min(T) \in 0..n /\ n - Min(T) \in S
    BY <1>2
  <2>2. n - Min(T) \in 0..n /\ n - (n - Min(T)) = Min(T)
    BY <2>1
  <2> HIDE DEF T
  <2> QED  BY <2>1, <2>2
<1>4. ASSUME NEW y \in S PROVE y =< x
  <2>1. y \in 0..n /\ n - y \in T
    OBVIOUS
  <2> HIDE DEF T
  <2> QED  BY <1>2, <1>3, <2>1
<1> QED  BY <1>4 DEF Max

(* The first anchor of a log is one of its entries.                        *)
LEMMA FirstAnchorIsAnEntry ==
    ASSUME NEW hist \in Seq(Entry)
    PROVE  /\ FirstAnchor(hist) \in 0..Len(hist)
           /\ FirstAnchor(hist) > 0 => hist[FirstAnchor(hist)].ts \in Nat
<1> DEFINE anchors == {i \in 1..Len(hist) : hist[i].cid \in TimeEvents}
<1>1. FirstAnchor(hist) = IF anchors # {} THEN Min(anchors) ELSE 0
  BY DEF FirstAnchor, SelectInSeq
<1>2. anchors # {} => Min(anchors) \in anchors
  <2>1. anchors \subseteq Nat
    OBVIOUS
  <2> HIDE DEF anchors
  <2> QED  BY <2>1, MinOfNaturals
<1>3. FirstAnchor(hist) \in 0..Len(hist)
  BY <1>1, <1>2
<1>4. ASSUME NEW i \in 1..Len(hist) PROVE hist[i].ts \in Nat
  <2>1. hist[i] \in Entry
    OBVIOUS
  <2> QED  BY <2>1 DEF Entry
<1> QED  BY <1>3, <1>4

-----------------------------------------------------------------------------
(* Histories are the nonempty logs.                                        *)
History == {hist \in Seq(Entry) : hist # <<>>}

(* What the rule looks at, with the types the arithmetic needs.            *)
LEMMA Measures ==
    ASSUME NEW hist \in History
    PROVE  /\ FirstAnchor(hist) \in Nat
           /\ FirstAnchor(hist) > 0 => hist[FirstAnchor(hist)].ts \in Nat
           /\ RelevantLength(hist) \in Nat
           /\ Tip(hist) \in Commit /\ Rank[Tip(hist)] \in Nat
<1>1. hist \in Seq(Entry) /\ Len(hist) \in Nat /\ Len(hist) # 0
  BY DEF History
<1>2. hist[Len(hist)] \in Entry
  BY <1>1
<1>3. Tip(hist) \in Commit
  BY <1>2 DEF Tip, Last, Entry
<1> QED  BY <1>1, <1>3, FirstAnchorIsAnEntry, ForestAssumption DEF RelevantLength

(* _pickLogToAccept never keeps each of two histories against the other,   *)
(* so two nodes cannot each insist on its own.                             *)
THEOREM PickIsAsymmetric ==
    \A log1, log2 \in History : ~(PicksFirst(log1, log2) /\ PicksFirst(log2, log1))
<1> SUFFICES ASSUME NEW log1 \in History, NEW log2 \in History,
                    PicksFirst(log1, log2), PicksFirst(log2, log1)
             PROVE  FALSE
  OBVIOUS
<1> QED  BY Measures DEF PicksFirst, AnchoredBefore, LongerOrLowerCid

(* It always keeps one of two histories with different tips.               *)
THEOREM PickIsTotal ==
    \A log1, log2 \in History :
        Tip(log1) # Tip(log2) => PicksFirst(log1, log2) \/ PicksFirst(log2, log1)
<1> SUFFICES ASSUME NEW log1 \in History, NEW log2 \in History, Tip(log1) # Tip(log2)
             PROVE  PicksFirst(log1, log2) \/ PicksFirst(log2, log1)
  OBVIOUS
<1>1. Rank[Tip(log1)] # Rank[Tip(log2)]
  BY Measures, ForestAssumption
<1> QED  BY <1>1, Measures DEF PicksFirst, AnchoredBefore, LongerOrLowerCid

(* What it prefers is an order: three histories do not beat each other in  *)
(* a circle, which would let a stream change its state for ever.           *)
THEOREM PickIsTransitive ==
    \A log1, log2, log3 \in History :
        PicksFirst(log1, log2) /\ PicksFirst(log2, log3) => PicksFirst(log1, log3)
<1> SUFFICES ASSUME NEW log1 \in History, NEW log2 \in History, NEW log3 \in History,
                    PicksFirst(log1, log2), PicksFirst(log2, log3)
             PROVE  PicksFirst(log1, log3)
  OBVIOUS
<1> QED  BY Measures DEF PicksFirst, AnchoredBefore, LongerOrLowerCid

-----------------------------------------------------------------------------
(* Chains of commits.  What holds of a commit when it holds of its `prev`  *)
(* holds of all: a CID is a hash of its `prev`, so there are no circles.   *)
LEMMA CommitInduction ==
    ASSUME NEW S, \A c \in Commit : Prev[c] \in S \cup {NoCommit} => c \in S
    PROVE  Commit \subseteq S
<1>1. ASSUME Commit \ S # {} PROVE FALSE
  <2>1. PICK c \in Commit \ S : Prev[c] \notin Commit \ S
    BY <1>1, ForestAssumption
  <2>2. Prev[c] \in Commit \cup {NoCommit}
    BY ForestAssumption
  <2> QED  BY <2>1, <2>2
<1> QED  BY <1>1

(* g is ChainTo on some commits and all that precede them.                 *)
PartOfChains(g) ==
    /\ DOMAIN g \subseteq Commit \cup {NoCommit} /\ NoCommit \in DOMAIN g
    /\ g = [c \in DOMAIN g |-> IF c = NoCommit THEN <<>> ELSE Append(g[Prev[c]], c)]
    /\ \A c \in DOMAIN g : g[c] \in Seq(Commit) /\ (c # NoCommit => Prev[c] \in DOMAIN g)

LEMMA PartsAgree ==
    ASSUME NEW g, NEW h, PartOfChains(g), PartOfChains(h), NEW c \in DOMAIN g, c \in DOMAIN h
    PROVE  g[c] = h[c]
<1> DEFINE S == {d \in Commit : d \in DOMAIN g /\ d \in DOMAIN h => g[d] = h[d]}
<1>1. g[NoCommit] = h[NoCommit]
  BY DEF PartOfChains
<1>2. ASSUME NEW d \in Commit, Prev[d] \in S \cup {NoCommit} PROVE d \in S
  <2> SUFFICES ASSUME d \in DOMAIN g, d \in DOMAIN h PROVE g[d] = h[d]
    OBVIOUS
  <2>1. d # NoCommit
    BY ForestAssumption
  <2>2. g[d] = Append(g[Prev[d]], d) /\ h[d] = Append(h[Prev[d]], d)
    BY <2>1 DEF PartOfChains
  <2>3. Prev[d] \in DOMAIN g /\ Prev[d] \in DOMAIN h
    BY <2>1 DEF PartOfChains
  <2> QED  BY <1>1, <1>2, <2>2, <2>3
<1>3. Commit \subseteq S
  <2> HIDE DEF S
  <2> QED  BY <1>2, CommitInduction
<1>4. c \in Commit \cup {NoCommit}
  BY DEF PartOfChains
<1> QED  BY <1>1, <1>3, <1>4

LEMMA PartsExist ==
    ASSUME NEW c \in Commit \cup {NoCommit}
    PROVE  \E g : PartOfChains(g) /\ c \in DOMAIN g
<1> DEFINE S == {d \in Commit : \E g : PartOfChains(g) /\ d \in DOMAIN g}
<1>1. PartOfChains([d \in {NoCommit} |-> <<>>])
  BY DEF PartOfChains
<1>2. ASSUME NEW d \in Commit, Prev[d] \in S \cup {NoCommit} PROVE d \in S
  <2>1. PICK g : PartOfChains(g) /\ Prev[d] \in DOMAIN g
    BY <1>1, <1>2
  <2>2. CASE d \in DOMAIN g
    BY <2>1, <2>2
  <2>3. CASE d \notin DOMAIN g
    <3> DEFINE h == [x \in DOMAIN g \cup {d} |->
                        IF x = d THEN Append(g[Prev[d]], d) ELSE g[x]]
    <3>1. DOMAIN h = DOMAIN g \cup {d} /\ d # NoCommit
      BY ForestAssumption
    <3>2. h[d] = Append(g[Prev[d]], d) /\ \A x \in DOMAIN g : h[x] = g[x]
      BY <2>3
    <3>3. h[d] \in Seq(Commit)
      BY <2>1, <3>2 DEF PartOfChains
    <3>4. \A x \in DOMAIN h : h[x] = IF x = NoCommit THEN <<>> ELSE Append(h[Prev[x]], x)
      <4>1. h[d] = Append(h[Prev[d]], d)
        BY <2>1, <3>2
      <4>2. ASSUME NEW x \in DOMAIN g
            PROVE  h[x] = IF x = NoCommit THEN <<>> ELSE Append(h[Prev[x]], x)
        <5>1. g[x] = IF x = NoCommit THEN <<>> ELSE Append(g[Prev[x]], x)
          BY <2>1 DEF PartOfChains
        <5>2. x # NoCommit => Prev[x] \in DOMAIN g
          BY <2>1 DEF PartOfChains
        <5> HIDE DEF h
        <5> QED  BY <3>2, <5>1, <5>2
      <4> QED  BY <3>1, <4>1, <4>2
    <3>5. h = [x \in DOMAIN h |-> h[x]]
      OBVIOUS
    <3> HIDE DEF h
    <3>6. h = [x \in DOMAIN h |-> IF x = NoCommit THEN <<>> ELSE Append(h[Prev[x]], x)]
      BY <3>4, <3>5
    <3>7. PartOfChains(h)
      BY <2>1, <3>1, <3>2, <3>3, <3>6 DEF PartOfChains
    <3> QED  BY <3>1, <3>7
  <2> QED  BY <2>2, <2>3
<1>3. Commit \subseteq S
  <2> HIDE DEF S
  <2> QED  BY <1>2, CommitInduction
<1> QED  BY <1>1, <1>3

(* The walk along `prev` ends at an init event, for every commit.          *)
LEMMA ChainsAreDefined ==
    /\ ChainTo[NoCommit] = <<>>
    /\ \A c \in Commit : ChainTo[c] = Append(ChainTo[Prev[c]], c)
    /\ \A c \in Commit \cup {NoCommit} : ChainTo[c] \in Seq(Commit)
<1> DEFINE D == Commit \cup {NoCommit}
           part(c) == CHOOSE g : PartOfChains(g) /\ c \in DOMAIN g
           F == [c \in D |-> part(c)[c]]
<1>1. \A c \in D : PartOfChains(part(c)) /\ c \in DOMAIN part(c)
  BY PartsExist
<1> HIDE DEF part
<1>2. ASSUME NEW c \in D
      PROVE  F[c] = (IF c = NoCommit THEN <<>> ELSE Append(F[Prev[c]], c)) /\ F[c] \in Seq(Commit)
  <2>1. F[c] = part(c)[c] /\ part(c)[c] \in Seq(Commit)
    BY <1>1 DEF PartOfChains
  <2>2. part(c)[c] = IF c = NoCommit THEN <<>> ELSE Append(part(c)[Prev[c]], c)
    BY <1>1 DEF PartOfChains
  <2>3. ASSUME c # NoCommit PROVE part(c)[Prev[c]] = F[Prev[c]]
    <3>1. Prev[c] \in D
      BY <2>3, ForestAssumption
    <3>2. Prev[c] \in DOMAIN part(c)
      BY <1>1, <2>3 DEF PartOfChains
    <3>3. part(c)[Prev[c]] = part(Prev[c])[Prev[c]]
      BY <1>1, <3>1, <3>2, PartsAgree
    <3> QED  BY <3>1, <3>3
  <2> QED  BY <2>1, <2>2, <2>3
<1>3. F = [c \in D |-> IF c = NoCommit THEN <<>> ELSE Append(F[Prev[c]], c)]
  <2>1. F = [c \in D |-> F[c]]
    OBVIOUS
  <2> HIDE DEF F
  <2> QED  BY <1>2, <2>1
<1> HIDE DEF F
<1>4. ChainTo = [c \in D |-> IF c = NoCommit THEN <<>> ELSE Append(ChainTo[Prev[c]], c)]
  <2> DEFINE Solves(f) == f = [c \in D |-> IF c = NoCommit THEN <<>> ELSE Append(f[Prev[c]], c)]
  <2>1. Solves(F)
    BY <1>3
  <2>2. ChainTo = CHOOSE f : Solves(f)
    BY DEF ChainTo
  <2> HIDE DEF Solves
  <2>3. Solves(ChainTo)
    BY <2>1, <2>2
  <2> QED  BY <2>3 DEF Solves
<1> DEFINE S == {c \in Commit : ChainTo[c] \in Seq(Commit)}
<1>5. ChainTo[NoCommit] = <<>> /\ \A c \in Commit : ChainTo[c] = Append(ChainTo[Prev[c]], c)
  BY <1>4, ForestAssumption
<1>6. <<>> \in Seq(Commit)
  OBVIOUS
<1>7. Commit \subseteq S
  <2>1. ASSUME NEW c \in Commit, Prev[c] \in S \cup {NoCommit} PROVE c \in S
    <3>1. ChainTo[Prev[c]] \in Seq(Commit)
      <4>1. CASE Prev[c] = NoCommit
        BY <1>5, <1>6, <4>1
      <4>2. CASE Prev[c] \in S
        BY <4>2
      <4> QED  BY <2>1, <4>1, <4>2
    <3>2. ChainTo[c] = Append(ChainTo[Prev[c]], c)
      BY <1>5
    <3>3. Append(ChainTo[Prev[c]], c) \in Seq(Commit)
      BY <3>1
    <3> QED  BY <3>2, <3>3
  <2> HIDE DEF S
  <2> QED  BY <2>1, CommitInduction
<1> QED  BY <1>5, <1>6, <1>7

(* The last commit of a walk is its tip, and an init event begins it.      *)
LEMMA ChainEnds ==
    ASSUME NEW c \in Commit
    PROVE  /\ ChainTo[c] \in Seq(Commit) /\ Len(ChainTo[c]) > 0
           /\ ChainTo[c][Len(ChainTo[c])] = c
           /\ Prev[ChainTo[c][1]] = NoCommit
<1> DEFINE S == {d \in Commit : Prev[ChainTo[d][1]] = NoCommit}
<1>1. ASSUME NEW d \in Commit
      PROVE  /\ ChainTo[d] \in Seq(Commit) /\ Len(ChainTo[d]) > 0
             /\ ChainTo[d][Len(ChainTo[d])] = d
  <2>1. ChainTo[d] = Append(ChainTo[Prev[d]], d) /\ ChainTo[Prev[d]] \in Seq(Commit)
    BY ChainsAreDefined, ForestAssumption
  <2> QED  BY <2>1
<1>2. ASSUME NEW d \in Commit, Prev[d] \in S \cup {NoCommit} PROVE d \in S
  <2>1. ChainTo[d] = Append(ChainTo[Prev[d]], d) /\ ChainTo[Prev[d]] \in Seq(Commit)
    BY ChainsAreDefined, ForestAssumption
  <2>2. CASE Prev[d] = NoCommit
    BY <2>1, <2>2, ChainsAreDefined
  <2>3. CASE Prev[d] \in S
    <3>1. Len(ChainTo[Prev[d]]) > 0
      BY <1>1, <2>3
    <3>2. ChainTo[d][1] = ChainTo[Prev[d]][1]
      BY <2>1, <3>1
    <3> QED  BY <2>3, <3>2
  <2> QED  BY <1>2, <2>2, <2>3
<1>3. Commit \subseteq S
  <2> HIDE DEF S
  <2> QED  BY <1>2, CommitInduction
<1> QED  BY <1>1, <1>3

(* A stream is loaded from its init event on, whatever the tip is.         *)
LEMMA FullLogBegins ==
    ASSUME NEW c \in Commit
    PROVE  SyncFullLog(c) \in Seq(Commit) /\ Len(SyncFullLog(c)) > 0 /\ SyncFullLog(c)[1] = Genesis
<1>1. Genesis \in Commit
  BY ForestAssumption
<1>2. ChainTo[c] \in Seq(Commit) /\ Len(ChainTo[c]) > 0
  BY ChainEnds
<1>3. Head(ChainTo[c]) = ChainTo[c][1]
  BY <1>2
<1> QED  BY <1>1, <1>2, <1>3 DEF SyncFullLog

(* The extractor gives every commit its entry.                             *)
LEMMA VerifiedShape ==
    ASSUME NEW S, NEW cids \in Seq(S), NEW valid
    PROVE  /\ Len(VerifyAnchors(cids, valid)) = Len(cids)
           /\ DOMAIN VerifyAnchors(cids, valid) = 1..Len(cids)
           /\ \A i \in 1..Len(cids) :
                /\ VerifyAnchors(cids, valid)[i].cid = cids[i]
                /\ VerifyAnchors(cids, valid)[i].ok = (cids[i] \notin TimeEvents \ valid)
<1> DEFINE following(i) == {j \in i..Len(cids) : cids[j] \in valid}
           time(i) == IF following(i) = {} THEN NoTime ELSE AnchorTime[cids[Min(following(i))]]
           new == [i \in DOMAIN cids |->
                      [cid |-> cids[i], ts |-> time(i), ok |-> cids[i] \notin TimeEvents \ valid]]
<1>1. VerifyAnchors(cids, valid) = new
  BY DEF VerifyAnchors
<1> HIDE DEF time
<1>2. DOMAIN new = 1..Len(cids) /\ Len(cids) \in Nat
  OBVIOUS
<1>3. Len(new) = Len(cids)
  BY <1>2
<1>4. \A i \in 1..Len(cids) : new[i].cid = cids[i] /\ new[i].ok = (cids[i] \notin TimeEvents \ valid)
  OBVIOUS
<1> HIDE DEF new
<1> QED  BY <1>1, <1>2, <1>3, <1>4

(* If the init event is valid and does not expire, a load that may stop at *)
(* an invalid commit gives a state.                                        *)
LEMMA LoadsGiveAState ==
    ASSUME Genesis \notin Invalid, Expires[Genesis] = 0, NEW c \in Commit, NEW valid, NEW time
    PROVE  LoadStateFromTip(c, valid, FALSE, time) # Thrown
<1> DEFINE cids == SyncFullLog(c)
           new == VerifyAnchors(cids, valid)
           accepted(i) == Accepts(new[i], IF i > 1 THEN new[i - 1].cid ELSE NoCommit, time)
           good == {k \in 0..Len(new) : \A i \in 1..k : accepted(i)}
           n == Max(good)
           entries == [i \in 1..n |-> [cid |-> new[i].cid, ts |-> new[i].ts]]
<1>1. cids \in Seq(Commit) /\ Len(cids) \in Nat /\ Len(cids) > 0 /\ cids[1] = Genesis
  BY FullLogBegins
<1> HIDE DEF cids
<1>2. Len(new) = Len(cids) /\ new[1].cid = Genesis /\ new[1].ok
  <2>1. 1 \in 1..Len(cids) /\ Genesis \notin TimeEvents \ valid
    BY <1>1, ForestAssumption
  <2>2. /\ Len(new) = Len(cids)
        /\ \A i \in 1..Len(cids) : new[i].cid = cids[i] /\ new[i].ok = (cids[i] \notin TimeEvents \ valid)
    BY <1>1, VerifiedShape
  <2> HIDE DEF new
  <2> QED  BY <1>1, <2>1, <2>2
<1>3. ApplyLog(<<>>, new, FALSE, time) =
           IF n < Len(new) /\ n = 0 THEN Thrown ELSE Settle(<<>> \o entries)
  BY DEF ApplyLog
<1> HIDE DEF new
<1>4. accepted(1)
  BY <1>2, ForestAssumption DEF Accepts, Expired
<1>5. 1 \in good
  BY <1>1, <1>2, <1>4
<1>6. n \in Nat /\ 1 =< n
  <2>1. good \subseteq 0..Len(new) /\ Len(new) \in Nat
    BY <1>1, <1>2
  <2>2. good # {}
    BY <1>5
  <2> HIDE DEF good
  <2>3. n \in good /\ \A y \in good : y =< n
    BY <2>1, <2>2, MaxOfNaturals
  <2> HIDE DEF n
  <2> QED  BY <1>5, <2>1, <2>3
<1> HIDE DEF good, n
<1>7. LoadStateFromTip(c, valid, FALSE, time) = Settle(<<>> \o entries)
  <2>1. LoadStateFromTip(c, valid, FALSE, time) = ApplyLog(<<>>, new, FALSE, time)
    BY DEF LoadStateFromTip, new, cids
  <2>2. ~(n < Len(new) /\ n = 0)
    BY <1>6
  <2> QED  BY <1>3, <2>1, <2>2, Zenon
<1>8. DOMAIN entries = 1..n /\ Len(entries) = n /\ <<>> \o entries = entries
  <2>1. entries \in Seq({[cid |-> new[i].cid, ts |-> new[i].ts] : i \in 1..n})
    BY <1>6
  <2> QED  BY <1>6, <2>1
<1> HIDE DEF entries
<1>9. DOMAIN Settle(entries) = 1..n
  BY <1>8 DEF Settle
<1>10. Settle(entries) # <<>>
  BY <1>6, <1>9
<1> QED  BY <1>7, <1>8, <1>10 DEF Thrown

-----------------------------------------------------------------------------
(* Logs that a node holds.  Every commit up to an anchor has its time.     *)
Dated(hist) ==
    \A i, j \in 1..Len(hist) :
        /\ i =< j /\ hist[j].cid \in TimeEvents
        /\ \A k \in i..(j - 1) : hist[k].cid \notin TimeEvents
        => hist[i].ts = hist[j].ts

(* They begin with the init event, follow `prev`, and hold no commit that  *)
(* is not valid; an anchor has the time of its proof.                      *)
GoodLog(hist) ==
    /\ hist \in Seq(Entry) /\ Len(hist) > 0
    /\ hist[1].cid = Genesis
    /\ \A i \in 1..Len(hist) : hist[i].cid \notin Invalid
    /\ \A i \in 2..Len(hist) : Prev[hist[i].cid] = hist[i - 1].cid
    /\ \A i \in 1..Len(hist) : hist[i].cid \in TimeEvents => hist[i].ts = AnchorTime[hist[i].cid]
    /\ Dated(hist)

LEMMA FunctionIsSequence ==
    ASSUME NEW n \in Nat, NEW S, NEW f \in [1..n -> S]
    PROVE  f \in Seq(S) /\ Len(f) = n
OBVIOUS

(* No anchor covers the i-th commit of a log; one that no anchor covers    *)
(* has no time.                                                            *)
NotAnchoredFrom(hist, i) == \A j \in i..Len(hist) : hist[j].cid \notin TimeEvents

Undated(hist) == \A i \in 1..Len(hist) : NotAnchoredFrom(hist, i) => hist[i].ts = NoTime

(* applyAnchorTimestampsToLog leaves a log that is dated, and changes none *)
(* that was.                                                               *)
LEMMA SettledIsDated ==
    ASSUME NEW hist \in Seq(Entry)
    PROVE  /\ Settle(hist) \in Seq(Entry) /\ Len(Settle(hist)) = Len(hist)
           /\ \A i \in 1..Len(hist) :
                /\ Settle(hist)[i].cid = hist[i].cid
                /\ hist[i].cid \in TimeEvents => Settle(hist)[i].ts = hist[i].ts
                /\ NotAnchoredFrom(hist, i) => Settle(hist)[i].ts = hist[i].ts
           /\ Dated(Settle(hist))
           /\ Dated(hist) => Settle(hist) = hist
<1> DEFINE anchors(i) == {j \in i..Len(hist) : hist[j].cid \in TimeEvents}
           time(i) == IF anchors(i) = {} THEN hist[i].ts ELSE hist[Min(anchors(i))].ts
           settled == [i \in 1..Len(hist) |-> [cid |-> hist[i].cid, ts |-> time(i)]]
<1>1. \A i \in 1..Len(hist) : hist[i] \in Entry
  OBVIOUS
<1>2. ASSUME NEW i \in 1..Len(hist), anchors(i) # {}
      PROVE  /\ Min(anchors(i)) \in i..Len(hist)
             /\ hist[Min(anchors(i))].cid \in TimeEvents
             /\ \A k \in i..Len(hist) : hist[k].cid \in TimeEvents => Min(anchors(i)) =< k
  <2>1. anchors(i) \subseteq Nat
    OBVIOUS
  <2>2. Min(anchors(i)) \in anchors(i) /\ \A y \in anchors(i) : Min(anchors(i)) =< y
    <3> HIDE DEF anchors
    <3> QED  BY <1>2, <2>1, MinOfNaturals
  <2> QED  BY <2>2
<1>3. ASSUME NEW i \in 1..Len(hist)
      PROVE  /\ [hist[i] EXCEPT !.ts = time(i)] = [cid |-> hist[i].cid, ts |-> time(i)]
             /\ [cid |-> hist[i].cid, ts |-> time(i)] \in Entry
  <2>1. time(i) \in Nat
    <3>1. CASE anchors(i) = {}
      BY <1>1, <3>1 DEF Entry
    <3>2. CASE anchors(i) # {}
      <4>1. Min(anchors(i)) \in 1..Len(hist)
        BY <1>2, <3>2
      <4> HIDE DEF anchors
      <4> QED  BY <1>1, <3>2, <4>1 DEF Entry
    <3> QED  BY <3>1, <3>2
  <2> HIDE DEF time
  <2> QED  BY <1>1, <2>1 DEF Entry
<1>4. Settle(hist) = settled
  <2>1. Settle(hist) = [i \in DOMAIN hist |-> [hist[i] EXCEPT !.ts = time(i)]]
    BY DEF Settle
  <2>2. DOMAIN hist = 1..Len(hist)
    OBVIOUS
  <2> HIDE DEF time
  <2> QED  BY <1>3, <2>1, <2>2
<1>5. settled \in Seq(Entry) /\ Len(settled) = Len(hist)
      /\ \A i \in 1..Len(hist) : settled[i].cid = hist[i].cid /\ settled[i].ts = time(i)
  <2> HIDE DEF time
  <2>1. settled \in [1..Len(hist) -> Entry]
    BY <1>3
  <2>2. \A i \in 1..Len(hist) : settled[i].cid = hist[i].cid /\ settled[i].ts = time(i)
    OBVIOUS
  <2>3. Len(hist) \in Nat
    OBVIOUS
  <2> HIDE DEF settled
  <2> QED  BY <2>1, <2>2, <2>3, FunctionIsSequence
<1>6. ASSUME NEW i \in 1..Len(hist), NEW j \in 1..Len(hist), i =< j, hist[j].cid \in TimeEvents,
             \A k \in i..(j - 1) : hist[k].cid \notin TimeEvents
      PROVE  time(i) = hist[j].ts
  <2>1. j \in anchors(i)
    BY <1>6
  <2>2. Min(anchors(i)) = j
    <3> DEFINE m == Min(anchors(i))
    <3>1. m \in i..Len(hist) /\ hist[m].cid \in TimeEvents /\ m =< j
      BY <1>2, <1>6, <2>1
    <3> HIDE DEF m, anchors
    <3>2. ~(m \in i..(j - 1))
      BY <1>6, <3>1
    <3>3. m = j
      BY <3>1, <3>2
    <3> QED  BY <3>3 DEF m
  <2> HIDE DEF anchors
  <2> QED  BY <2>1, <2>2
<1>7. Dated(settled)
  <2> SUFFICES ASSUME NEW i \in 1..Len(hist), NEW j \in 1..Len(hist), i =< j, hist[j].cid \in TimeEvents,
                      \A k \in i..(j - 1) : hist[k].cid \notin TimeEvents
               PROVE  time(i) = time(j)
    <3> HIDE DEF settled, time
    <3>1. Len(settled) = Len(hist)
      BY <1>5
    <3> SUFFICES ASSUME NEW i \in 1..Len(hist), NEW j \in 1..Len(hist), i =< j,
                        settled[j].cid \in TimeEvents,
                        \A k \in i..(j - 1) : settled[k].cid \notin TimeEvents
                 PROVE  settled[i].ts = settled[j].ts
      BY <3>1 DEF Dated
    <3>2. \A k \in i..(j - 1) : k \in 1..Len(hist)
      OBVIOUS
    <3>3. \A k \in i..(j - 1) : hist[k].cid \notin TimeEvents
      BY <1>5, <3>2
    <3> QED  BY <1>5, <3>3
  <2>1. time(i) = hist[j].ts
    BY <1>6
  <2>2. time(j) = hist[j].ts
    <3>1. \A k \in j..(j - 1) : hist[k].cid \notin TimeEvents
      OBVIOUS
    <3> HIDE DEF time
    <3> QED  BY <1>6, <3>1
  <2> QED  BY <2>1, <2>2
<1>8. ASSUME Dated(hist) PROVE settled = hist
  <2>1. ASSUME NEW i \in 1..Len(hist) PROVE time(i) = hist[i].ts
    <3>1. CASE anchors(i) = {}
      BY <3>1
    <3>2. CASE anchors(i) # {}
      <4> DEFINE m == Min(anchors(i))
      <4>1. /\ m \in i..Len(hist) /\ hist[m].cid \in TimeEvents
            /\ \A k \in i..Len(hist) : hist[k].cid \in TimeEvents => m =< k
        BY <1>2, <3>2
      <4>2. time(i) = hist[m].ts
        BY <3>2
      <4> HIDE DEF m, time, anchors
      <4>3. \A k \in i..(m - 1) : hist[k].cid \notin TimeEvents
        BY <4>1
      <4> QED  BY <1>8, <4>1, <4>2, <4>3 DEF Dated
    <3> QED  BY <3>1, <3>2
  <2>2. ASSUME NEW i \in 1..Len(hist) PROVE settled[i] = hist[i]
    <3> HIDE DEF time, settled
    <3>1. settled[i] \in Entry /\ hist[i] \in Entry
      BY <1>1, <1>5
    <3>2. settled[i].cid = hist[i].cid /\ settled[i].ts = hist[i].ts
      BY <1>5, <2>1
    <3> QED  BY <3>1, <3>2 DEF Entry
  <2>3. DOMAIN hist = 1..Len(hist) /\ DOMAIN settled = 1..Len(hist)
    OBVIOUS
  <2>4. settled = [i \in 1..Len(hist) |-> settled[i]] /\ hist = [i \in 1..Len(hist) |-> hist[i]]
    <3> HIDE DEF time
    <3> QED  BY <2>3
  <2> HIDE DEF settled
  <2> QED  BY <2>2, <2>4
<1> HIDE DEF settled
<1>9. \A i \in 1..Len(hist) : settled[i].cid = hist[i].cid
  BY <1>5
<1>10. ASSUME NEW i \in 1..Len(hist), hist[i].cid \in TimeEvents PROVE settled[i].ts = hist[i].ts
  <2>1. \A k \in i..(i - 1) : hist[k].cid \notin TimeEvents
    OBVIOUS
  <2> HIDE DEF time
  <2> QED  BY <1>5, <1>6, <1>10, <2>1
<1>11. ASSUME NEW i \in 1..Len(hist), NotAnchoredFrom(hist, i) PROVE settled[i].ts = hist[i].ts
  <2>1. anchors(i) = {}
    BY <1>11 DEF NotAnchoredFrom
  <2>2. time(i) = hist[i].ts
    BY <2>1
  <2> HIDE DEF time
  <2> QED  BY <1>5, <2>2
<1> QED  BY <1>4, <1>5, <1>7, <1>8, <1>9, <1>10, <1>11

-----------------------------------------------------------------------------
(* StateManipulator.applyLog: what a handler has accepted goes to the end  *)
(* of a good log, or is refused altogether.                                *)
NewEntry == [cid : Commit, ts : Nat, ok : BOOLEAN]

NewLog ==
    {new \in Seq(NewEntry) :
        \A i \in 1..Len(new) :
            new[i].ok /\ new[i].cid \in TimeEvents => new[i].ts = AnchorTime[new[i].cid]}

Held(hist) == hist = <<>> \/ GoodLog(hist)

LEMMA AppliedLogIsGood ==
    ASSUME NEW hist, Held(hist), NEW new \in NewLog, NEW strict, NEW time,
           hist = <<>> /\ new # <<>> => new[1].cid = Genesis
    PROVE  Held(ApplyLog(hist, new, strict, time))
<1> DEFINE accepted(i) == Accepts(new[i], IF i > 1 THEN new[i - 1].cid
                                          ELSE IF hist = <<>> THEN NoCommit ELSE Tip(hist), time)
           good == {k \in 0..Len(new) : \A i \in 1..k : accepted(i)}
           n == Max(good)
           entries == [i \in 1..n |-> [cid |-> new[i].cid, ts |-> new[i].ts]]
           both == hist \o entries
<1>1. ApplyLog(hist, new, strict, time) =
           IF n < Len(new) /\ (strict \/ (hist = <<>> /\ n = 0)) THEN Thrown ELSE Settle(both)
  BY DEF ApplyLog
<1>2. hist \in Seq(Entry) /\ Len(hist) \in Nat /\ new \in Seq(NewEntry) /\ Len(new) \in Nat
  <2>1. <<>> \in Seq(Entry)
    OBVIOUS
  <2>2. hist \in Seq(Entry)
    BY <2>1 DEF Held, GoodLog
  <2>3. new \in Seq(NewEntry)
    BY DEF NewLog
  <2> QED  BY <2>2, <2>3
<1>3. n \in 0..Len(new) /\ \A i \in 1..n : accepted(i)
  <2>1. good \subseteq 0..Len(new)
    OBVIOUS
  <2>2. 0 \in good
    BY <1>2
  <2>3. n \in good
    <3> HIDE DEF good
    <3> QED  BY <1>2, <2>1, <2>2, MaxOfNaturals
  <2> HIDE DEF n, accepted
  <2> QED  BY <2>3
<1> HIDE DEF good, n
<1>4. \A i \in 1..n : new[i] \in NewEntry /\ i \in 1..Len(new)
  BY <1>2, <1>3
<1>5. /\ entries \in Seq(Entry) /\ Len(entries) = n
      /\ \A i \in 1..n : entries[i].cid = new[i].cid /\ entries[i].ts = new[i].ts
  <2>1. entries \in [1..n -> Entry]
    BY <1>4 DEF NewEntry, Entry
  <2>2. \A i \in 1..n : entries[i].cid = new[i].cid /\ entries[i].ts = new[i].ts
    OBVIOUS
  <2> HIDE DEF entries
  <2> QED  BY <1>3, <2>1, <2>2, FunctionIsSequence
<1>6. \A i \in 1..n : /\ new[i].cid \notin Invalid
                      /\ i > 1 => Prev[new[i].cid] = new[i - 1].cid
                      /\ i = 1 /\ hist # <<>> => Prev[new[i].cid] = Tip(hist)
                      /\ new[i].cid \in TimeEvents => new[i].ts = AnchorTime[new[i].cid]
  BY <1>3, <1>4 DEF Accepts, NewLog
<1> HIDE DEF entries
<1>7. /\ both \in Seq(Entry) /\ Len(both) = Len(hist) + n
      /\ \A i \in 1..Len(hist) : both[i] = hist[i]
      /\ \A i \in 1..n : both[Len(hist) + i] = entries[i]
  <2>0. hist \in Seq(Entry) /\ entries \in Seq(Entry)
    BY <1>2, <1>5
  <2>1. /\ both \in Seq(Entry) /\ Len(both) = Len(hist) + Len(entries)
        /\ \A i \in 1..Len(hist) : both[i] = hist[i]
        /\ \A i \in 1..Len(entries) : both[Len(hist) + i] = entries[i]
    BY <2>0
  <2> HIDE DEF both
  <2> QED  BY <1>5, <2>1
<1> HIDE DEF both
<1>8. /\ Settle(both) \in Seq(Entry) /\ Len(Settle(both)) = Len(both)
      /\ \A i \in 1..Len(both) :
            /\ Settle(both)[i].cid = both[i].cid
            /\ both[i].cid \in TimeEvents => Settle(both)[i].ts = both[i].ts
      /\ Dated(Settle(both))
  BY <1>7, SettledIsDated
<1>9. CASE Len(both) = 0
  BY <1>1, <1>8, <1>9 DEF Held, Thrown
<1>10. CASE Len(both) > 0
  <2>1. both[1].cid = Genesis
    <3>1. CASE hist = <<>>
      <4>1. Len(hist) = 0 /\ n > 0
        BY <1>3, <1>7, <1>10, <3>1
      <4>2. both[1].cid = new[1].cid /\ new # <<>>
        BY <1>3, <1>5, <1>7, <4>1
      <4> QED  BY <3>1, <4>2
    <3>2. CASE GoodLog(hist)
      BY <1>7, <3>2 DEF GoodLog
    <3> QED  BY <3>1, <3>2 DEF Held
  <2>2. ASSUME NEW i \in 1..Len(both)
        PROVE  /\ both[i].cid \notin Invalid
               /\ i > 1 => Prev[both[i].cid] = both[i - 1].cid
               /\ both[i].cid \in TimeEvents => both[i].ts = AnchorTime[both[i].cid]
    <3>1. CASE i =< Len(hist)
      <4>1. GoodLog(hist) /\ i \in 1..Len(hist)
        BY <1>2, <3>1 DEF Held
      <4>2. i > 1 => i - 1 \in 1..Len(hist) /\ i \in 2..Len(hist)
        BY <1>2, <4>1
      <4> QED  BY <1>7, <4>1, <4>2 DEF GoodLog
    <3>2. CASE i > Len(hist)
      <4> DEFINE k == i - Len(hist)
      <4>1. k \in 1..n /\ i = Len(hist) + k
        BY <1>2, <1>3, <1>7, <3>2
      <4>2. both[i].cid = new[k].cid /\ both[i].ts = new[k].ts
        BY <1>5, <1>7, <4>1
      <4>3. CASE k > 1
        <5>1. k - 1 \in 1..n /\ i - 1 = Len(hist) + (k - 1)
          BY <1>2, <1>3, <4>1, <4>3
        <5>2. both[i - 1].cid = new[k - 1].cid
          BY <1>5, <1>7, <5>1
        <5> HIDE DEF k
        <5> QED  BY <1>6, <4>1, <4>2, <4>3, <5>2
      <4>4. CASE k = 1
        <5>1. ASSUME i > 1 PROVE hist # <<>> /\ both[i - 1].cid = Tip(hist)
          <6>1. i - 1 = Len(hist) /\ Len(hist) \in 1..Len(hist)
            BY <1>2, <4>1, <4>4, <5>1
          <6> QED  BY <1>2, <1>7, <6>1 DEF Tip, Last
        <5> HIDE DEF k
        <5> QED  BY <1>6, <4>1, <4>2, <4>4, <5>1
      <4> QED  BY <4>1, <4>3, <4>4
    <3> QED  BY <1>2, <3>1, <3>2
  <2>3. \A i \in 2..Len(both) : i \in 1..Len(both) /\ i - 1 \in 1..Len(both)
    OBVIOUS
  <2>4. GoodLog(Settle(both))
    BY <1>8, <1>10, <2>1, <2>2, <2>3 DEF GoodLog
  <2> QED  BY <1>1, <2>4 DEF Held, Thrown
<1> QED  BY <1>7, <1>9, <1>10, <1>2, <1>3

(* The walk from a commit of a good log gives the log up to it.            *)
LEMMA LogIsItsChain ==
    ASSUME NEW hist, GoodLog(hist), NEW i \in 1..Len(hist)
    PROVE  /\ hist[i].cid \in Commit /\ SyncFullLog(hist[i].cid) = ChainTo[hist[i].cid]
           /\ SyncFullLog(hist[i].cid) \in Seq(Commit) /\ Len(SyncFullLog(hist[i].cid)) = i
           /\ \A k \in 1..i : SyncFullLog(hist[i].cid)[k] = hist[k].cid
<1> DEFINE Walked(j) == LET chain == ChainTo[hist[j].cid] IN
                            Len(chain) = j /\ \A k \in 1..j : chain[k] = hist[k].cid
           missed == {j \in 1..Len(hist) : ~Walked(j)}
<1>1. hist \in Seq(Entry) /\ Len(hist) \in Nat /\ Len(hist) > 0 /\ hist[1].cid = Genesis
  BY DEF GoodLog
<1>2. ASSUME NEW j \in 1..Len(hist) PROVE hist[j].cid \in Commit
  <2>1. hist[j] \in Entry
    BY <1>1
  <2> QED  BY <2>1 DEF Entry
<1>3. \A j \in 1..Len(hist) :
          /\ ChainTo[hist[j].cid] = Append(ChainTo[Prev[hist[j].cid]], hist[j].cid)
          /\ ChainTo[Prev[hist[j].cid]] \in Seq(Commit) /\ ChainTo[hist[j].cid] \in Seq(Commit)
  BY <1>2, ChainsAreDefined, ForestAssumption
<1>4. Walked(1)
  <2>1. Prev[hist[1].cid] = NoCommit /\ 1 \in 1..Len(hist)
    BY <1>1, ForestAssumption
  <2>2. ChainTo[hist[1].cid] = Append(<<>>, hist[1].cid)
    BY <1>3, <2>1, ChainsAreDefined
  <2> QED  BY <2>2
<1>5. ASSUME NEW j \in 2..Len(hist), Walked(j - 1) PROVE Walked(j)
  <2>1. Prev[hist[j].cid] = hist[j - 1].cid /\ j \in 1..Len(hist) /\ j - 1 \in 1..Len(hist)
    BY DEF GoodLog
  <2>2. /\ ChainTo[hist[j].cid] = Append(ChainTo[hist[j - 1].cid], hist[j].cid)
        /\ ChainTo[hist[j - 1].cid] \in Seq(Commit)
    BY <1>3, <2>1
  <2> QED  BY <1>5, <2>1, <2>2
<1>6. ASSUME missed # {} PROVE FALSE
  <2>1. missed \subseteq Nat
    OBVIOUS
  <2>2. PICK m \in missed : \A y \in missed : m =< y
    <3> HIDE DEF missed
    <3> QED  BY <1>6, <2>1, MinOfNaturals
  <2>3. m \in 1..Len(hist) /\ ~Walked(m)
    OBVIOUS
  <2>4. m \in 2..Len(hist) /\ m - 1 \in 1..Len(hist)
    <3> HIDE DEF Walked
    <3> QED  BY <1>4, <2>3
  <2>5. Walked(m - 1)
    <3>1. m - 1 \notin missed
      <4> HIDE DEF missed
      <4> QED  BY <2>2, <2>4
    <3> HIDE DEF Walked
    <3> QED  BY <2>4, <3>1
  <2> HIDE DEF Walked, missed
  <2> QED  BY <1>5, <2>3, <2>4, <2>5
<1>7. Walked(i)
  <2> HIDE DEF Walked
  <2> QED  BY <1>6
<1>8. SyncFullLog(hist[i].cid) = ChainTo[hist[i].cid]
  <2>1. ChainTo[hist[i].cid] \in Seq(Commit) /\ Len(ChainTo[hist[i].cid]) > 0
    BY <1>3, <1>7
  <2>2. Head(ChainTo[hist[i].cid]) = Genesis
    BY <1>1, <1>7, <2>1
  <2> QED  BY <2>2 DEF SyncFullLog
<1> QED  BY <1>2, <1>3, <1>7, <1>8

(* ResetToCommit fetches that part of the log again and trusts it.         *)
TrustedUpTo(hist, c, keep, i) ==
    LET new == TrustedLog(hist, c, keep) IN
    /\ hist[i].cid = c
    /\ new \in NewLog /\ Len(new) = i
    /\ \A k \in 1..i : /\ new[k].cid = hist[k].cid /\ new[k].ok = TRUE
                       /\ keep = TRUE => new[k].ts = hist[k].ts
                       /\ new[k].ts = NoTime \/ \E j \in 1..Len(hist) : new[k].ts = hist[j].ts
    /\ keep = FALSE => Undated(new)

LEMMA TrustedLogIsALog ==
    ASSUME NEW hist, GoodLog(hist), NEW c \in CidsOf(hist), NEW keep \in BOOLEAN
    PROVE  \E i \in 1..Len(hist) : TrustedUpTo(hist, c, keep, i)
<1> DEFINE dest == SyncFullLog(c)
           anchors(i) == {j \in i..Len(dest) : dest[j] \in TimeEvents}
           times == CopyTrustedTimestamps(hist, dest, keep)
           trusted == [k \in DOMAIN dest |-> [cid |-> dest[k], ts |-> times[k], ok |-> TRUE]]
<1>1. PICK i \in 1..Len(hist) : hist[i].cid = c
  BY DEF GoodLog, CidsOf
<1>2. /\ c \in Commit /\ dest \in Seq(Commit) /\ Len(dest) = i
      /\ \A k \in 1..i : dest[k] = hist[k].cid
  BY <1>1, LogIsItsChain
<1>3. ASSUME NEW k \in 1..Len(hist) PROVE hist[k].ts \in Nat
  <2>1. hist[k] \in Entry
    BY DEF GoodLog
  <2> QED  BY <2>1 DEF Entry
<1>4. TrustedLog(hist, c, keep) = trusted
  BY DEF TrustedLog
<1> HIDE DEF dest
<1>5. DOMAIN dest = 1..i /\ i \in Nat
  BY <1>2
<1>6. ASSUME NEW k \in 1..i
      PROVE  /\ times[k] \in Nat /\ (keep \/ hist[k].cid \in TimeEvents => times[k] = hist[k].ts)
             /\ times[k] = NoTime \/ \E j \in 1..Len(hist) : times[k] = hist[j].ts
  <2>1. k \in 1..Len(hist)
    BY <1>1
  <2>2. CASE keep
    <3>1. times[k] = hist[k].ts
      BY <1>5, <2>2 DEF CopyTrustedTimestamps
    <3> HIDE DEF times
    <3> QED  BY <1>3, <2>1, <3>1
  <2>3. CASE ~keep /\ anchors(k) # {}
    <3>1. times[k] = hist[Min(anchors(k))].ts
      BY <1>5, <2>3 DEF CopyTrustedTimestamps
    <3>2. anchors(k) \subseteq Nat
      OBVIOUS
    <3>3. Min(anchors(k)) \in anchors(k)
      <4> HIDE DEF anchors
      <4> QED  BY <2>3, <3>2, MinOfNaturals
    <3>4. Min(anchors(k)) \in 1..Len(hist)
      BY <1>1, <1>2, <3>3
    <3>5. hist[k].cid \in TimeEvents => Min(anchors(k)) = k
      <4>1. hist[k].cid \in TimeEvents => k \in anchors(k)
        BY <1>2
      <4>2. Min(anchors(k)) \in Nat /\ k =< Min(anchors(k)) /\ \A y \in anchors(k) : Min(anchors(k)) =< y
        <5>1. \A y \in anchors(k) : Min(anchors(k)) =< y
          <6> HIDE DEF anchors
          <6> QED  BY <2>3, <3>2, MinOfNaturals
        <5> QED  BY <3>3, <5>1
      <4> HIDE DEF anchors
      <4> QED  BY <4>1, <4>2
    <3> HIDE DEF times, anchors
    <3> QED  BY <1>3, <2>3, <3>1, <3>4, <3>5
  <2>4. CASE ~keep /\ anchors(k) = {}
    <3>1. times[k] = NoTime
      BY <1>5, <2>4 DEF CopyTrustedTimestamps
    <3>2. hist[k].cid \notin TimeEvents
      BY <1>2, <2>4
    <3> HIDE DEF times
    <3> QED  BY <2>4, <3>1, <3>2 DEF NoTime
  <2> QED  BY <2>2, <2>3, <2>4
<1>10. ASSUME ~keep, NEW k \in 1..i, \A j \in k..i : hist[j].cid \notin TimeEvents
       PROVE  times[k] = NoTime
  <2>1. \A j \in k..i : dest[j] \notin TimeEvents
    BY <1>2, <1>10
  <2>2. anchors(k) = {}
    BY <1>2, <2>1
  <2> QED  BY <1>5, <1>10, <2>2 DEF CopyTrustedTimestamps
<1> HIDE DEF times
<1>7. trusted \in [1..i -> NewEntry]
  BY <1>2, <1>5, <1>6 DEF NewEntry
<1>8. \A k \in 1..i : /\ trusted[k].cid = hist[k].cid /\ trusted[k].ok = TRUE
                      /\ keep \/ hist[k].cid \in TimeEvents => trusted[k].ts = hist[k].ts
                      /\ trusted[k].ts = times[k]
  BY <1>2, <1>5, <1>6
<1> HIDE DEF trusted
<1>9. trusted \in NewLog /\ Len(trusted) = i
  <2>1. trusted \in Seq(NewEntry) /\ Len(trusted) = i
    BY <1>5, <1>7, FunctionIsSequence
  <2>2. \A k \in 1..i : hist[k].cid \in TimeEvents => hist[k].ts = AnchorTime[hist[k].cid]
    BY <1>1 DEF GoodLog
  <2> QED  BY <1>8, <2>1, <2>2 DEF NewLog
<1>11. keep = FALSE => Undated(trusted)
  <2> SUFFICES ASSUME ~keep, NEW k \in 1..i, NotAnchoredFrom(trusted, k) PROVE times[k] = NoTime
    BY <1>8, <1>9 DEF Undated
  <2>1. \A j \in k..i : j \in 1..i /\ trusted[j].cid = hist[j].cid
    BY <1>5, <1>8
  <2> QED  BY <1>9, <1>10, <2>1 DEF NotAnchoredFrom
<1>12. \A k \in 1..i : trusted[k].ts = NoTime \/ \E j \in 1..Len(hist) : trusted[k].ts = hist[j].ts
  BY <1>6, <1>8
<1> QED  BY <1>1, <1>4, <1>8, <1>9, <1>11, <1>12 DEF TrustedUpTo

LEMMA ResetIsGood ==
    ASSUME NEW hist, GoodLog(hist), NEW c, NEW keep \in BOOLEAN, NEW time
    PROVE  Held(ResetToCommit(hist, c, keep, time))
<1>1. CASE c \in CidsOf(hist)
  <2> DEFINE new == TrustedLog(hist, c, keep)
  <2>0. PICK i \in 1..Len(hist) : TrustedUpTo(hist, c, keep, i)
    BY <1>1, TrustedLogIsALog
  <2>1. /\ new \in NewLog /\ Len(new) = i
        /\ \A k \in 1..i : new[k].cid = hist[k].cid
    BY <2>0 DEF TrustedUpTo
  <2> HIDE DEF new
  <2>2. new[1].cid = Genesis
    <3>1. 1 \in 1..i
      BY DEF GoodLog
    <3> QED  BY <2>1, <3>1 DEF GoodLog
  <2>3. Held(ApplyLog(<<>>, new, TRUE, time))
    BY <2>1, <2>2, AppliedLogIsGood DEF Held
  <2> QED  BY <1>1, <2>3 DEF ResetToCommit, new
<1>2. CASE c \notin CidsOf(hist)
  BY <1>2 DEF ResetToCommit, Held, Thrown
<1> QED  BY <1>1, <1>2

-----------------------------------------------------------------------------
(* What the syncer and the extractor bring has its type.                   *)
LEMMA VerifiedIsTyped ==
    ASSUME NEW cids \in Seq(Commit), NEW valid, valid \subseteq TimeEvents
    PROVE  VerifyAnchors(cids, valid) \in NewLog
<1> DEFINE following(i) == {j \in i..Len(cids) : cids[j] \in valid}
           time(i) == IF following(i) = {} THEN NoTime ELSE AnchorTime[cids[Min(following(i))]]
           new == [i \in DOMAIN cids |->
                      [cid |-> cids[i], ts |-> time(i), ok |-> cids[i] \notin TimeEvents \ valid]]
<1>1. VerifyAnchors(cids, valid) = new
  BY DEF VerifyAnchors
<1>2. ASSUME NEW i \in 1..Len(cids) PROVE time(i) \in Nat
  <2>1. CASE following(i) = {}
    BY <2>1 DEF NoTime
  <2>2. CASE following(i) # {}
    <3>1. following(i) \subseteq Nat
      OBVIOUS
    <3>2. Min(following(i)) \in following(i)
      <4> HIDE DEF following
      <4> QED  BY <2>2, <3>1, MinOfNaturals
    <3>3. cids[Min(following(i))] \in TimeEvents
      BY <3>2
    <3> HIDE DEF following
    <3> QED  BY <2>2, <3>3, ForestAssumption DEF NoTime
  <2> QED  BY <2>1, <2>2
<1>3. DOMAIN cids = 1..Len(cids) /\ Len(cids) \in Nat /\ \A i \in 1..Len(cids) : cids[i] \in Commit
  OBVIOUS
<1>4. ASSUME NEW i \in 1..Len(cids), cids[i] \in valid PROVE time(i) = AnchorTime[cids[i]]
  <2>1. i \in following(i) /\ following(i) \subseteq Nat /\ \A y \in following(i) : i =< y
    BY <1>4
  <2>2. Min(following(i)) \in following(i) /\ \A y \in following(i) : Min(following(i)) =< y
    <3> HIDE DEF following
    <3> QED  BY <2>1, MinOfNaturals
  <2>3. Min(following(i)) = i
    <3> HIDE DEF following
    <3> QED  BY <2>1, <2>2
  <2> HIDE DEF following
  <2> QED  BY <2>1, <2>3
<1> HIDE DEF time
<1>5. new \in [1..Len(cids) -> NewEntry]
  BY <1>2, <1>3 DEF NewEntry
<1>6. \A i \in 1..Len(cids) : /\ new[i].cid = cids[i] /\ new[i].ts = time(i)
                              /\ new[i].ok = (cids[i] \notin TimeEvents \ valid)
  BY <1>3
<1> HIDE DEF new
<1>7. new \in Seq(NewEntry) /\ Len(new) = Len(cids)
  BY <1>3, <1>5, FunctionIsSequence
<1>8. \A i \in 1..Len(cids) : new[i].ok /\ cids[i] \in TimeEvents => cids[i] \in valid
  BY <1>6
<1> QED  BY <1>1, <1>4, <1>6, <1>7, <1>8 DEF NewLog

LEMMA SyncedIsTyped ==
    ASSUME NEW c \in Commit, NEW known
    PROVE  /\ SyncLogUntilMatch(c, known) \in Seq(Commit)
           /\ c \in known => SyncLogUntilMatch(c, known) = <<>>
<1> DEFINE chain == ChainTo[c]
           hits == {i \in DOMAIN chain : chain[i] \in known}
<1>1. chain \in Seq(Commit) /\ Len(chain) > 0 /\ Len(chain) \in Nat /\ chain[Len(chain)] = c
  BY ChainEnds
<1>2. SyncLogUntilMatch(c, known) =
          IF hits = {} THEN <<>> ELSE SubSeq(chain, Max(hits) + 1, Len(chain))
  BY DEF SyncLogUntilMatch
<1> HIDE DEF chain
<1>3. CASE hits = {}
  <2>1. c \notin known
    <3>1. Len(chain) \in DOMAIN chain
      BY <1>1
    <3> QED  BY <1>1, <1>3, <3>1
  <2>2. <<>> \in Seq(Commit)
    OBVIOUS
  <2> QED  BY <1>2, <1>3, <2>1, <2>2
<1>4. CASE hits # {}
  <2>1. hits \subseteq 0..Len(chain)
    BY <1>1
  <2>2. Max(hits) \in hits /\ \A y \in hits : y =< Max(hits)
    <3> HIDE DEF hits
    <3> QED  BY <1>1, <1>4, <2>1, MaxOfNaturals
  <2>3. c \in known => Len(chain) \in hits
    BY <1>1
  <2>4. Max(hits) \in 1..Len(chain)
    BY <1>1, <2>2
  <2> HIDE DEF hits
  <2>5. SubSeq(chain, Max(hits) + 1, Len(chain)) \in Seq(Commit)
    BY <1>1, <2>4
  <2>6. c \in known => SubSeq(chain, Max(hits) + 1, Len(chain)) = <<>>
    <3>1. c \in known => Max(hits) = Len(chain)
      BY <1>1, <2>2, <2>3, <2>4
    <3> QED  BY <1>1, <3>1
  <2> QED  BY <1>2, <1>4, <2>5, <2>6
<1> QED  BY <1>3, <1>4

Options == [throwOnInvalid : BOOLEAN, throwIfStale : BOOLEAN, throwOnConflict : BOOLEAN]

(* Whatever a node applies to a good log, on whatever terms, and whichever *)
(* of two histories wins, leaves a good log or throws.                     *)
LEMMA AppliedTipIsGood ==
    ASSUME NEW hist, GoodLog(hist), NEW c \in Commit, NEW valid, valid \subseteq TimeEvents,
           NEW opts \in Options, NEW time
    PROVE  Held(ApplyTip(hist, c, valid, opts, time))
<1> DEFINE new == VerifyAnchors(SyncLogUntilMatch(c, CidsOf(hist)), valid)
           fork == IndexOf(hist, Prev[new[1].cid])
           local == SubSeq(hist, fork + 1, Len(hist))
           shared == ResetToCommit(hist, hist[fork].cid, FALSE, time)
           applied == ApplyWithoutCacaoVerification(hist, new, opts, time)
<1>1. ApplyTip(hist, c, valid, opts, time) = IF Usable(applied, time) THEN applied ELSE Thrown
  BY DEF ApplyTip, ApplyLogToState
<1>2. new \in NewLog
  BY SyncedIsTyped, VerifiedIsTyped
<1> HIDE DEF new
<1>3. Held(shared)
  BY ResetIsGood
<1>4. hist # <<>> /\ Held(hist)
  BY DEF GoodLog, Held
<1>5. opts.throwIfStale \in BOOLEAN
  BY DEF Options
<1>6. \/ applied = hist \/ applied = Thrown
      \/ applied = ApplyLog(hist, new, opts.throwOnInvalid, time)
      \/ shared # Thrown /\ applied = ApplyLog(shared, new, opts.throwOnInvalid, time)
  <2>1. CASE new = <<>>
    BY <2>1 DEF ApplyWithoutCacaoVerification
  <2>2. CASE new # <<>> /\ local = <<>>
    BY <2>2 DEF ApplyWithoutCacaoVerification
  <2>3. CASE new # <<>> /\ local # <<>> /\ opts.throwIfStale
    BY <2>3 DEF ApplyWithoutCacaoVerification
  <2>4. CASE new # <<>> /\ local # <<>> /\ ~opts.throwIfStale
    <3>1. applied = IF PicksFirst(local, new)
                    THEN IF opts.throwOnConflict THEN Thrown ELSE hist
                    ELSE IF shared = Thrown THEN Thrown
                    ELSE ApplyLog(shared, new, opts.throwOnInvalid, time)
      BY <2>4 DEF ApplyWithoutCacaoVerification
    <3> HIDE DEF applied, shared, local, fork
    <3> QED  BY <3>1, Zenon
  <2> QED  BY <1>5, <2>1, <2>2, <2>3, <2>4
<1>7. Held(ApplyLog(hist, new, opts.throwOnInvalid, time))
  BY <1>2, <1>4, AppliedLogIsGood
<1> HIDE DEF shared, applied
<1>8. shared # Thrown => Held(ApplyLog(shared, new, opts.throwOnInvalid, time))
  BY <1>2, <1>3, AppliedLogIsGood DEF Thrown
<1>9. Held(Thrown)
  BY DEF Held, Thrown
<1> QED  BY <1>1, <1>4, <1>6, <1>7, <1>8, <1>9

LEMMA LoadedStateIsGood ==
    ASSUME NEW c \in Commit, NEW valid, valid \subseteq TimeEvents, NEW strict, NEW time
    PROVE  Held(LoadStateFromTip(c, valid, strict, time))
<1> DEFINE cids == SyncFullLog(c)
           new == VerifyAnchors(cids, valid)
<1>1. cids \in Seq(Commit) /\ 1 \in 1..Len(cids) /\ cids[1] = Genesis
  BY FullLogBegins
<1> HIDE DEF cids
<1>2. new \in NewLog /\ new[1].cid = Genesis
  BY <1>1, VerifiedIsTyped, VerifiedShape
<1> HIDE DEF new
<1>3. Held(ApplyLog(<<>>, new, strict, time))
  BY <1>2, AppliedLogIsGood DEF Held
<1> QED  BY <1>3 DEF LoadStateFromTip, new, cids

-----------------------------------------------------------------------------
(* A log that is usable now gives the state at each of its commits.        *)
LEMMA UsableLogsAreLoadable ==
    ASSUME NEW hist, GoodLog(hist), NEW time, Usable(hist, time), NEW i \in 1..Len(hist),
           NEW valid, valid \subseteq TimeEvents
    PROVE  /\ StateAtCommitId(hist, hist[i].cid, valid, time) # Thrown
           /\ StateAtCommitId(hist, hist[i].cid, valid, time) = SubSeq(hist, 1, i)
<1> DEFINE c == hist[i].cid
           new == TrustedLog(hist, c, TRUE)
           accepted(k) == Accepts(new[k], IF k > 1 THEN new[k - 1].cid ELSE NoCommit, time)
           good == {k \in 0..Len(new) : \A j \in 1..k : accepted(j)}
           n == Max(good)
           entries == [k \in 1..n |-> [cid |-> new[k].cid, ts |-> new[k].ts]]
           part == SubSeq(hist, 1, i)
<1>1. hist \in Seq(Entry) /\ Len(hist) \in Nat /\ i \in Nat /\ 1 =< i /\ i =< Len(hist)
      /\ hist # Thrown
  BY DEF GoodLog, Thrown
<1>2. c \in Commit /\ c \in CidsOf(hist) /\ Len(SyncFullLog(c)) = i
  BY <1>1, LogIsItsChain DEF CidsOf
<1>3. ApplyTip(hist, c, valid, CommitIdOpts, time) = hist
  <2>1. SyncLogUntilMatch(c, CidsOf(hist)) = <<>>
    BY <1>2, SyncedIsTyped
  <2>2. VerifyAnchors(<<>>, valid) = <<>>
    <3>1. <<>> \in Seq(Commit) /\ Len(<<>>) = 0
      OBVIOUS
    <3>2. VerifyAnchors(<<>>, valid) \in Seq(NewEntry) /\ Len(VerifyAnchors(<<>>, valid)) = 0
      BY <3>1, VerifiedIsTyped, VerifiedShape DEF NewLog
    <3> QED  BY <3>2
  <2>3. ApplyWithoutCacaoVerification(hist, <<>>, CommitIdOpts, time) = hist
    BY DEF ApplyWithoutCacaoVerification
  <2> QED  BY <2>1, <2>2, <2>3 DEF ApplyTip, ApplyLogToState
<1>4. StateAtCommitId(hist, c, valid, time) = ApplyLog(<<>>, new, TRUE, time)
  BY <1>1, <1>2, <1>3 DEF StateAtCommitId, ResetToCommit
<1>5. /\ Len(new) = i
      /\ \A k \in 1..i : new[k].cid = hist[k].cid /\ new[k].ok = TRUE /\ new[k].ts = hist[k].ts
  <2>1. PICK j \in 1..Len(hist) : TrustedUpTo(hist, c, TRUE, j)
    BY <1>2, TrustedLogIsALog
  <2>2. hist[j].cid = c
    BY <2>1 DEF TrustedUpTo
  <2>3. Len(SyncFullLog(hist[j].cid)) = j
    BY LogIsItsChain
  <2>4. j = i
    BY <1>2, <2>2, <2>3
  <2> QED  BY <2>1, <2>4 DEF TrustedUpTo
<1>6. ApplyLog(<<>>, new, TRUE, time) =
          IF n < Len(new) /\ (TRUE \/ (<<>> = <<>> /\ n = 0)) THEN Thrown ELSE Settle(<<>> \o entries)
  BY DEF ApplyLog
<1> HIDE DEF new
<1>7. ASSUME NEW k \in 1..i PROVE accepted(k)
  <2>1. k \in 1..Len(hist) /\ (k > 1 => k \in 2..Len(hist) /\ k - 1 \in 1..i)
    BY <1>1
  <2>2. new[k].cid \notin Invalid /\ new[k].ok
    BY <1>5, <2>1 DEF GoodLog
  <2>3. Prev[new[k].cid] = IF k > 1 THEN new[k - 1].cid ELSE NoCommit
    <3>1. CASE k > 1
      BY <1>5, <2>1, <3>1 DEF GoodLog
    <3>2. CASE ~(k > 1)
      <4>1. k = 1
        BY <3>2
      <4> QED  BY <1>5, <4>1, ForestAssumption DEF GoodLog
    <3> QED  BY <3>1, <3>2
  <2>4. ~Expired(new[k], time)
    <3>1. ~Expired(hist[k], time)
      BY <2>1 DEF Usable, GoodLog
    <3> QED  BY <1>5, <3>1 DEF Expired
  <2> QED  BY <2>2, <2>3, <2>4 DEF Accepts
<1>8. n = i
  <2>1. i \in good /\ good \subseteq 0..i
    <3> HIDE DEF accepted
    <3> QED  BY <1>1, <1>5, <1>7
  <2>2. n \in good /\ \A y \in good : y =< n
    <3> HIDE DEF good
    <3> QED  BY <1>1, <2>1, MaxOfNaturals
  <2> HIDE DEF n
  <2>3. n \in 0..i /\ i =< n
    <3> HIDE DEF good
    <3> QED  BY <2>1, <2>2
  <2> QED  BY <1>1, <2>3
<1> HIDE DEF good, n
<1>9. part \in Seq(Entry) /\ Len(part) = i /\ \A k \in 1..i : part[k] = hist[k]
  BY <1>1
<1>10. entries = part
  <2>1. ASSUME NEW k \in 1..i PROVE entries[k] = part[k]
    <3>1. entries[k] = [cid |-> hist[k].cid, ts |-> hist[k].ts]
      BY <1>5, <1>8
    <3>2. hist[k] \in Entry
      BY <1>1
    <3> HIDE DEF entries, part
    <3> QED  BY <1>9, <3>1, <3>2 DEF Entry
  <2>2. DOMAIN entries = 1..i
    BY <1>8
  <2>3. entries = [k \in 1..i |-> entries[k]]
    BY <1>8
  <2> HIDE DEF entries, part
  <2>4. part = [k \in 1..i |-> part[k]]
    BY <1>9
  <2> QED  BY <2>1, <2>3, <2>4
<1> HIDE DEF entries, part
<1>11. Dated(part)
  <2> SUFFICES ASSUME NEW j \in 1..i, NEW m \in 1..i, j =< m, part[m].cid \in TimeEvents,
                      \A k \in j..(m - 1) : part[k].cid \notin TimeEvents
               PROVE  part[j].ts = part[m].ts
    BY <1>9 DEF Dated
  <2>1. j \in 1..Len(hist) /\ m \in 1..Len(hist) /\ \A k \in j..(m - 1) : k \in 1..i
    BY <1>1
  <2>2. hist[m].cid \in TimeEvents /\ \A k \in j..(m - 1) : hist[k].cid \notin TimeEvents
    BY <1>9, <2>1
  <2>3. hist[j].ts = hist[m].ts
    BY <2>1, <2>2 DEF GoodLog, Dated
  <2> QED  BY <1>9, <2>3
<1>12. Settle(<<>> \o entries) = part
  <2>1. <<>> \o part = part
    BY <1>9
  <2>2. Settle(part) = part
    BY <1>9, <1>11, SettledIsDated
  <2> QED  BY <1>10, <2>1, <2>2
<1>13. StateAtCommitId(hist, c, valid, time) = part /\ part # Thrown
  <2>1. ~(n < Len(new))
    BY <1>1, <1>5, <1>8
  <2>2. ApplyLog(<<>>, new, TRUE, time) = Settle(<<>> \o entries)
    BY <1>6, <2>1, Zenon
  <2>3. part # <<>>
    BY <1>1, <1>9
  <2> QED  BY <1>4, <1>12, <2>2, <2>3 DEF Thrown
<1> QED  BY <1>13 DEF part

-----------------------------------------------------------------------------
(* When nothing is refused, an anchor that was applied is kept, or gives   *)
(* way to an earlier one.                                                  *)
AnchoredBy(hist, time) == \E b \in TimeEvents : b \in CidsOf(hist) /\ AnchorTime[b] =< time

LEMMA FirstAnchorIsFirst ==
    ASSUME NEW S, NEW hist \in Seq(S)
    PROVE  /\ FirstAnchor(hist) \in 0..Len(hist)
           /\ FirstAnchor(hist) > 0 => hist[FirstAnchor(hist)].cid \in TimeEvents
           /\ \A k \in 1..Len(hist) : hist[k].cid \in TimeEvents =>
                    0 < FirstAnchor(hist) /\ FirstAnchor(hist) =< k
<1> DEFINE anchors == {i \in 1..Len(hist) : hist[i].cid \in TimeEvents}
<1>1. FirstAnchor(hist) = IF anchors # {} THEN Min(anchors) ELSE 0
  BY DEF FirstAnchor, SelectInSeq
<1>2. anchors # {} => Min(anchors) \in anchors /\ \A y \in anchors : Min(anchors) =< y
  <2>1. anchors \subseteq Nat
    OBVIOUS
  <2> HIDE DEF anchors
  <2> QED  BY <2>1, MinOfNaturals
<1>3. CASE anchors = {}
  BY <1>1, <1>3
<1>4. CASE anchors # {}
  <2>1. FirstAnchor(hist) \in anchors /\ \A y \in anchors : FirstAnchor(hist) =< y
    <3> HIDE DEF anchors
    <3> QED  BY <1>1, <1>2, <1>4
  <2> QED  BY <2>1
<1> QED  BY <1>3, <1>4

LEMMA IndexIsFound ==
    ASSUME NEW hist \in Seq(Entry), NEW c \in CidsOf(hist)
    PROVE  IndexOf(hist, c) \in 1..Len(hist) /\ hist[IndexOf(hist, c)].cid = c
<1> DEFINE places == {i \in 1..Len(hist) : hist[i].cid = c}
<1>1. IndexOf(hist, c) = IF places # {} THEN Min(places) ELSE 0
  BY DEF IndexOf, SelectInSeq
<1>2. places # {}
  BY DEF CidsOf
<1>3. Min(places) \in places
  <2>1. places \subseteq Nat
    OBVIOUS
  <2> HIDE DEF places
  <2> QED  BY <1>2, <2>1, MinOfNaturals
<1> QED  BY <1>1, <1>2, <1>3

(* The commits of a walk follow each other.                                *)
LEMMA ChainFollows ==
    ASSUME NEW c \in Commit
    PROVE  \A k \in 2..Len(ChainTo[c]) : Prev[ChainTo[c][k]] = ChainTo[c][k - 1]
<1> DEFINE S == {d \in Commit : \A k \in 2..Len(ChainTo[d]) : Prev[ChainTo[d][k]] = ChainTo[d][k - 1]}
<1>1. ASSUME NEW d \in Commit, Prev[d] \in S \cup {NoCommit} PROVE d \in S
  <2> DEFINE before == ChainTo[Prev[d]]
  <2>1. ChainTo[d] = Append(before, d) /\ before \in Seq(Commit)
    BY ChainsAreDefined, ForestAssumption
  <2>2. CASE Prev[d] = NoCommit
    <3>1. before = <<>>
      BY <2>2, ChainsAreDefined
    <3>2. Len(ChainTo[d]) = 1
      BY <2>1, <3>1
    <3> QED  BY <3>2
  <2>3. CASE Prev[d] \in S
    <3>1. Len(before) > 0 /\ before[Len(before)] = Prev[d]
      BY <2>3, ChainEnds
    <3>2. \A k \in 2..Len(before) : Prev[before[k]] = before[k - 1]
      BY <2>3
    <3> HIDE DEF before
    <3>3. /\ Len(ChainTo[d]) = Len(before) + 1 /\ ChainTo[d][Len(before) + 1] = d
          /\ \A k \in 1..Len(before) : ChainTo[d][k] = before[k]
      BY <2>1
    <3>4. ASSUME NEW k \in 2..Len(ChainTo[d]) PROVE Prev[ChainTo[d][k]] = ChainTo[d][k - 1]
      <4>1. CASE k = Len(before) + 1
        BY <2>1, <3>1, <3>3, <4>1
      <4>2. CASE k \in 2..Len(before)
        <5>1. k - 1 \in 1..Len(before) /\ k \in 1..Len(before)
          BY <2>1, <4>2
        <5> QED  BY <3>2, <3>3, <4>2, <5>1
      <4> QED  BY <2>1, <3>3, <4>1, <4>2
    <3> QED  BY <3>4
  <2> QED  BY <1>1, <2>2, <2>3
<1>2. Commit \subseteq S
  <2> HIDE DEF S
  <2> QED  BY <1>1, CommitInduction
<1> QED  BY <1>2

(* The walk to a commit is the first part of every walk through it.        *)
LEMMA ChainPart ==
    ASSUME NEW c \in Commit
    PROVE  \A k \in 1..Len(ChainTo[c]) :
                /\ Len(ChainTo[ChainTo[c][k]]) = k
                /\ \A i \in 1..k : ChainTo[ChainTo[c][k]][i] = ChainTo[c][i]
<1> DEFINE Part(d) == \A k \in 1..Len(ChainTo[d]) :
                        /\ Len(ChainTo[ChainTo[d][k]]) = k
                        /\ \A i \in 1..k : ChainTo[ChainTo[d][k]][i] = ChainTo[d][i]
           S == {d \in Commit : Part(d)}
<1>1. ASSUME NEW d \in Commit, Prev[d] \in S \cup {NoCommit} PROVE Part(d)
  <2> DEFINE before == ChainTo[Prev[d]]
  <2>1. ChainTo[d] = Append(before, d) /\ before \in Seq(Commit) /\ Len(before) \in Nat
    BY ChainsAreDefined, ForestAssumption
  <2>2. \A k \in 1..Len(before) : /\ Len(ChainTo[before[k]]) = k
                                  /\ \A i \in 1..k : ChainTo[before[k]][i] = before[i]
    <3>1. CASE Prev[d] = NoCommit
      <4>1. before = <<>>
        BY <3>1, ChainsAreDefined
      <4> QED  BY <4>1
    <3>2. CASE Prev[d] \in S
      BY <3>2
    <3> QED  BY <1>1, <3>1, <3>2
  <2> HIDE DEF before
  <2>3. /\ Len(ChainTo[d]) = Len(before) + 1 /\ ChainTo[d][Len(before) + 1] = d
        /\ \A k \in 1..Len(before) : ChainTo[d][k] = before[k]
    BY <2>1
  <2>4. ASSUME NEW k \in 1..Len(ChainTo[d])
        PROVE  /\ Len(ChainTo[ChainTo[d][k]]) = k
               /\ \A i \in 1..k : ChainTo[ChainTo[d][k]][i] = ChainTo[d][i]
    <3>1. CASE k = Len(before) + 1
      BY <2>3, <3>1
    <3>2. CASE k \in 1..Len(before)
      <4>1. ChainTo[d][k] = before[k] /\ \A i \in 1..k : i \in 1..Len(before)
        BY <2>1, <2>3, <3>2
      <4> QED  BY <2>2, <2>3, <3>2, <4>1
    <3> QED  BY <2>1, <2>3, <3>1, <3>2
  <2> QED  BY <2>4
<1>2. Commit \subseteq S
  <2> HIDE DEF Part
  <2> QED  BY <1>1, CommitInduction
<1> QED  BY <1>2

(* What the syncer brings is the walk from the last commit the log has.    *)
IsPartFrom(cids, chain, m) ==
    /\ cids \in Seq(Commit) /\ Len(cids) = Len(chain) - m
    /\ \A i \in 1..(Len(chain) - m) : cids[i] = chain[m + i]

SyncedFrom(cids, hist, c, m) ==
    /\ m \in 1..Len(ChainTo[c]) /\ m =< Len(hist)
    /\ \A k \in 1..m : ChainTo[c][k] = hist[k].cid
    /\ \A k \in (m + 1)..Len(ChainTo[c]) : ChainTo[c][k] \notin CidsOf(hist)
    /\ IsPartFrom(cids, ChainTo[c], m)

Rooted(c) == ChainTo[c][1] = Genesis

LEMMA SyncedFromTheLog ==
    ASSUME NEW hist, GoodLog(hist), NEW c \in Commit
    PROVE  LET cids == SyncLogUntilMatch(c, CidsOf(hist)) IN
           \/ ~Rooted(c) /\ cids = <<>>
           \/ Rooted(c) /\ \E m \in 1..Len(ChainTo[c]) : SyncedFrom(cids, hist, c, m)
<1> DEFINE cids == SyncLogUntilMatch(c, CidsOf(hist))
           chain == ChainTo[c]
           hits == {i \in DOMAIN chain : chain[i] \in CidsOf(hist)}
           m == Max(hits)
<1>1. /\ chain \in Seq(Commit) /\ Len(chain) > 0 /\ Len(chain) \in Nat /\ chain[Len(chain)] = c
      /\ DOMAIN chain = 1..Len(chain)
  BY ChainEnds
<1>2. cids = IF hits = {} THEN <<>> ELSE SubSeq(chain, m + 1, Len(chain))
  BY DEF SyncLogUntilMatch
<1> HIDE DEF cids
<1>3. \A k \in 1..Len(chain) :
          /\ Len(ChainTo[chain[k]]) = k
          /\ \A i \in 1..k : ChainTo[chain[k]][i] = chain[i]
  BY ChainPart
<1>4. hist[1].cid = Genesis /\ 1 \in DOMAIN hist /\ hist \in Seq(Entry) /\ Len(hist) \in Nat
  BY DEF GoodLog
<1>5. Rooted(c) => 1 \in hits
  BY <1>1, <1>4 DEF CidsOf, Rooted
<1>6. hits \subseteq 0..Len(chain)
  BY <1>1
<1>7. CASE hits = {}
  BY <1>2, <1>5, <1>7 DEF cids
<1>8. CASE hits # {}
  <2>1. m \in hits /\ \A y \in hits : y =< m
    <3> HIDE DEF hits
    <3> QED  BY <1>1, <1>6, <1>8, MaxOfNaturals
  <2>2. m \in 1..Len(chain) /\ chain[m] \in CidsOf(hist)
    BY <1>1, <2>1
  <2>3. \A k \in (m + 1)..Len(chain) : chain[k] \notin CidsOf(hist)
    <3> SUFFICES ASSUME NEW k \in (m + 1)..Len(chain), chain[k] \in CidsOf(hist) PROVE FALSE
      OBVIOUS
    <3>1. k \in hits
      BY <1>1, <2>2
    <3> HIDE DEF m, hits
    <3> QED  BY <1>1, <2>1, <2>2, <3>1
  <2>4. cids = SubSeq(chain, m + 1, Len(chain))
    <3> HIDE DEF m, hits
    <3> QED  BY <1>2, <1>8
  <2> HIDE DEF m, hits, chain
  <2>5. PICK j \in 1..Len(hist) : hist[j].cid = chain[m]
    BY <1>4, <2>2 DEF CidsOf
  <2>6. /\ SyncFullLog(hist[j].cid) = ChainTo[hist[j].cid] /\ Len(SyncFullLog(hist[j].cid)) = j
        /\ \A k \in 1..j : SyncFullLog(hist[j].cid)[k] = hist[k].cid
    BY LogIsItsChain
  <2>7. j = m
    BY <1>3, <2>2, <2>5, <2>6
  <2>8. \A k \in 1..m : chain[k] = hist[k].cid
    BY <1>3, <2>2, <2>5, <2>6, <2>7
  <2>9. IsPartFrom(cids, chain, m)
    <3> DEFINE f == [i \in 1..(Len(chain) - m) |-> chain[m + i]]
    <3>1. SubSeq(chain, m + 1, Len(chain)) = [i \in 1..((Len(chain) - (m + 1)) + 1) |-> chain[i + (m + 1) - 1]]
      BY <1>1, <2>2 DEF SubSeq
    <3>2. m \in Nat /\ m =< Len(chain)
      BY <1>1, <2>2
    <3>3. Len(chain) - m \in Nat /\ \A i \in 1..(Len(chain) - m) : m + i \in 1..Len(chain)
      BY <1>1, <3>2
    <3>4. cids = f
      <4>1. (Len(chain) - (m + 1)) + 1 = Len(chain) - m /\ \A i \in Nat : i + (m + 1) - 1 = m + i
        BY <1>1, <3>2
      <4> QED  BY <2>4, <3>1, <4>1
    <3>5. f \in [1..(Len(chain) - m) -> Commit] /\ \A i \in 1..(Len(chain) - m) : f[i] = chain[m + i]
      BY <1>1, <3>3
    <3> HIDE DEF f
    <3>6. f \in Seq(Commit) /\ Len(f) = Len(chain) - m
      BY <3>3, <3>5, FunctionIsSequence
    <3> QED  BY <3>4, <3>5, <3>6 DEF IsPartFrom
  <2>10. Rooted(c)
    <3>1. 1 \in 1..m
      BY <1>1, <2>2
    <3> QED  BY <1>4, <2>8, <3>1 DEF Rooted, chain
  <2>11. m =< Len(hist)
    BY <2>5, <2>7
  <2>12. SyncedFrom(cids, hist, c, m)
    BY <2>2, <2>3, <2>8, <2>9, <2>11 DEF SyncedFrom, chain
  <2> QED  BY <2>2, <2>10, <2>12 DEF cids, chain
<1> QED  BY <1>7, <1>8

(* What the syncer brings goes on from a commit of the log, up to the tip. *)
GoesOn(cids, hist, c) ==
    /\ cids \in Seq(Commit)
    /\ cids = <<>> => c \in CidsOf(hist)
    /\ cids # <<>> => Prev[cids[1]] \in CidsOf(hist) /\ cids[Len(cids)] = c
    /\ \A i \in 2..Len(cids) : Prev[cids[i]] = cids[i - 1]
    /\ \A i \in 1..Len(cids) : \E k \in DOMAIN ChainTo[c] : ChainTo[c][k] = cids[i]

LEMMA SyncedGoesOn ==
    ASSUME NothingIsRefused, NEW hist, GoodLog(hist), NEW c \in Commit
    PROVE  GoesOn(SyncLogUntilMatch(c, CidsOf(hist)), hist, c)
<1> DEFINE cids == SyncLogUntilMatch(c, CidsOf(hist))
           chain == ChainTo[c]
<1>1. /\ chain \in Seq(Commit) /\ Len(chain) > 0 /\ Len(chain) \in Nat /\ chain[Len(chain)] = c
      /\ Prev[chain[1]] = NoCommit /\ DOMAIN chain = 1..Len(chain)
  BY ChainEnds
<1>2. Rooted(c)
  <2>1. chain[1] \in Commit
    BY <1>1
  <2> QED  BY <1>1, <2>1 DEF NothingIsRefused, Rooted
<1>3. \A k \in 2..Len(chain) : Prev[chain[k]] = chain[k - 1]
  BY ChainFollows
<1>4. PICK m \in 1..Len(chain) : SyncedFrom(cids, hist, c, m)
  BY <1>2, SyncedFromTheLog
<1>5. m \in 1..Len(chain) /\ chain[m] \in CidsOf(hist)
  <2>1. m \in DOMAIN hist /\ chain[m] = hist[m].cid
    BY <1>1, <1>4 DEF SyncedFrom, GoodLog
  <2> QED  BY <2>1 DEF CidsOf
<1>7. /\ cids \in Seq(Commit) /\ Len(cids) = Len(chain) - m
      /\ \A i \in 1..(Len(chain) - m) : cids[i] = chain[m + i]
  BY <1>4 DEF SyncedFrom, IsPartFrom
<1> HIDE DEF cids, chain
<1>8. cids = <<>> => c \in CidsOf(hist)
  <2>1. cids = <<>> => Len(cids) = 0
    OBVIOUS
  <2>2. m \in Nat /\ Len(chain) \in Nat /\ Len(cids) = Len(chain) - m
    BY <1>1, <1>5, <1>7
  <2>3. cids = <<>> => m = Len(chain)
    BY <2>1, <2>2
  <2> QED  BY <1>1, <1>5, <2>3
<1>9. ASSUME cids # <<>> PROVE Prev[cids[1]] \in CidsOf(hist) /\ cids[Len(cids)] = c
  <2>1. Len(cids) > 0
    BY <1>7, <1>9
  <2>2. m + 1 \in 2..Len(chain) /\ 1 \in 1..(Len(chain) - m)
    BY <1>1, <1>5, <1>7, <2>1
  <2>3. cids[1] = chain[m + 1] /\ Prev[chain[m + 1]] = chain[m]
    <3>1. (m + 1) - 1 = m
      BY <1>5
    <3> QED  BY <1>3, <1>7, <2>2, <3>1
  <2>4. cids[Len(cids)] = chain[m + (Len(chain) - m)] /\ m + (Len(chain) - m) = Len(chain)
    <3>1. Len(chain) - m \in 1..(Len(chain) - m)
      BY <1>1, <1>5, <2>2
    <3> QED  BY <1>1, <1>5, <1>7, <3>1
  <2> QED  BY <1>1, <1>5, <2>3, <2>4
<1>10. ASSUME NEW i \in 2..Len(cids) PROVE Prev[cids[i]] = cids[i - 1]
  <2>1. /\ i \in 1..(Len(chain) - m) /\ i - 1 \in 1..(Len(chain) - m)
        /\ m + i \in 2..Len(chain) /\ (m + i) - 1 = m + (i - 1)
    BY <1>1, <1>5, <1>7
  <2>2. Prev[chain[m + i]] = chain[m + (i - 1)]
    BY <1>3, <2>1
  <2> QED  BY <1>7, <2>1, <2>2
<1>11. ASSUME NEW i \in 1..Len(cids) PROVE \E k \in DOMAIN chain : chain[k] = cids[i]
  <2>1. m + i \in DOMAIN chain /\ cids[i] = chain[m + i]
    BY <1>1, <1>5, <1>7
  <2> QED  BY <2>1
<1>12. GoesOn(cids, hist, c)
  BY <1>7, <1>8, <1>9, <1>10, <1>11 DEF chain, GoesOn
<1> QED  BY <1>12 DEF cids

(* Commits that follow each other and a log are all applied to it.         *)
Before(hist) == IF hist = <<>> THEN NoCommit ELSE Tip(hist)

HasBoth(result, hist, new) ==
    /\ result # Thrown /\ CidsOf(hist) \subseteq CidsOf(result)
    /\ \A i \in 1..Len(new) : new[i].cid \in CidsOf(result)
    /\ Tip(result) = new[Len(new)].cid

LEMMA AppliedInFull ==
    ASSUME Invalid = {}, NEW hist, Held(hist), NEW new \in NewLog, new # <<>>,
           \A i \in 1..Len(new) : new[i].ok,
           Prev[new[1].cid] = Before(hist),
           \A i \in 2..Len(new) : Prev[new[i].cid] = new[i - 1].cid,
           NEW strict, NEW time, \A i \in 1..Len(new) : ~Expired(new[i], time)
    PROVE  /\ HasBoth(ApplyLog(hist, new, strict, time), hist, new)
           /\ Undated(hist) /\ Undated(new) => Undated(ApplyLog(hist, new, strict, time))
<1> DEFINE accepted(i) == Accepts(new[i], IF i > 1 THEN new[i - 1].cid
                                          ELSE IF hist = <<>> THEN NoCommit ELSE Tip(hist), time)
           good == {k \in 0..Len(new) : \A i \in 1..k : accepted(i)}
           n == Max(good)
           entries == [i \in 1..n |-> [cid |-> new[i].cid, ts |-> new[i].ts]]
           both == hist \o entries
           result == ApplyLog(hist, new, strict, time)
<1>1. result = IF n < Len(new) /\ (strict \/ (hist = <<>> /\ n = 0)) THEN Thrown ELSE Settle(both)
  BY DEF ApplyLog
<1>2. hist \in Seq(Entry) /\ Len(hist) \in Nat /\ new \in Seq(NewEntry) /\ Len(new) \in Nat
      /\ Len(new) > 0
  <2>1. <<>> \in Seq(Entry)
    OBVIOUS
  <2>2. hist \in Seq(Entry)
    BY <2>1 DEF Held, GoodLog
  <2>3. new \in Seq(NewEntry)
    BY DEF NewLog
  <2> QED  BY <2>2, <2>3
<1>3. ASSUME NEW i \in 1..Len(new) PROVE new[i] \in NewEntry /\ accepted(i)
  <2>1. new[i] \in NewEntry
    BY <1>2
  <2>2. ~Expired(new[i], time)
    OBVIOUS
  <2>3. Prev[new[i].cid] = IF i > 1 THEN new[i - 1].cid
                           ELSE IF hist = <<>> THEN NoCommit ELSE Tip(hist)
    <3>1. CASE i > 1
      BY <1>2, <3>1
    <3>2. CASE ~(i > 1)
      <4>1. i = 1
        BY <1>2, <3>2
      <4> QED  BY <4>1 DEF Before
    <3> QED  BY <3>1, <3>2
  <2> QED  BY <2>1, <2>2, <2>3 DEF Accepts
<1>4. n = Len(new)
  <2>1. Len(new) \in good /\ good \subseteq 0..Len(new)
    <3> HIDE DEF accepted
    <3> QED  BY <1>2, <1>3
  <2>2. n \in good /\ \A y \in good : y =< n
    <3> HIDE DEF good
    <3> QED  BY <1>2, <2>1, MaxOfNaturals
  <2> HIDE DEF n
  <2>3. n \in 0..Len(new) /\ Len(new) =< n
    <3> HIDE DEF good
    <3> QED  BY <2>1, <2>2
  <2> QED  BY <1>2, <2>3
<1> HIDE DEF good, n
<1>5. result = Settle(both)
  <2>1. ~(n < Len(new))
    BY <1>2, <1>4
  <2> HIDE DEF result, both
  <2> QED  BY <1>1, <2>1, Zenon
<1> HIDE DEF result
<1>6. /\ entries \in Seq(Entry) /\ Len(entries) = Len(new)
      /\ \A i \in 1..Len(new) : entries[i].cid = new[i].cid /\ entries[i].ts = new[i].ts
  <2>1. entries \in [1..n -> Entry]
    BY <1>3, <1>4 DEF NewEntry, Entry
  <2>2. \A i \in 1..n : entries[i].cid = new[i].cid /\ entries[i].ts = new[i].ts
    OBVIOUS
  <2> HIDE DEF entries
  <2> QED  BY <1>2, <1>4, <2>1, <2>2, FunctionIsSequence
<1> HIDE DEF entries
<1>7. /\ both \in Seq(Entry) /\ Len(both) = Len(hist) + Len(entries)
      /\ \A i \in 1..Len(hist) : both[i] = hist[i]
      /\ \A i \in 1..Len(entries) : both[Len(hist) + i] = entries[i]
  <2>0. hist \in Seq(Entry) /\ entries \in Seq(Entry)
    BY <1>2, <1>6
  <2> QED  BY <2>0
<1> HIDE DEF both
<1>8. /\ result \in Seq(Entry) /\ Len(result) = Len(hist) + Len(new)
      /\ \A i \in 1..(Len(hist) + Len(new)) :
            /\ result[i].cid = both[i].cid
            /\ NotAnchoredFrom(both, i) => result[i].ts = both[i].ts
  BY <1>5, <1>6, <1>7, SettledIsDated
<1>9. \A i \in 1..Len(hist) : i \in DOMAIN result /\ result[i].cid = hist[i].cid
  BY <1>2, <1>7, <1>8
<1>10. \A i \in 1..Len(new) :
          Len(hist) + i \in DOMAIN result /\ result[Len(hist) + i].cid = new[i].cid
  <2> SUFFICES ASSUME NEW i \in 1..Len(new)
               PROVE  Len(hist) + i \in DOMAIN result /\ result[Len(hist) + i].cid = new[i].cid
    OBVIOUS
  <2>1. Len(hist) + i \in 1..(Len(hist) + Len(new)) /\ i \in 1..Len(entries)
    BY <1>2, <1>6
  <2>2. both[Len(hist) + i].cid = new[i].cid
    BY <1>6, <1>7, <2>1
  <2> QED  BY <1>8, <2>1, <2>2
<1>11. CidsOf(hist) \subseteq CidsOf(result) /\ \A i \in 1..Len(new) : new[i].cid \in CidsOf(result)
  <2>1. DOMAIN hist = 1..Len(hist)
    BY <1>2
  <2> QED  BY <1>9, <1>10, <2>1 DEF CidsOf
<1>12. result # Thrown /\ Tip(result) = new[Len(new)].cid
  <2>1. Len(result) > 0 /\ Len(new) \in 1..Len(new)
    BY <1>2, <1>8
  <2> QED  BY <1>8, <1>10, <2>1 DEF Tip, Last, Thrown
<1>13. ASSUME Undated(hist), Undated(new) PROVE Undated(result)
  <2> SUFFICES ASSUME NEW i \in 1..(Len(hist) + Len(new)), NotAnchoredFrom(result, i)
               PROVE  result[i].ts = NoTime
    BY <1>8 DEF Undated
  <2>1. \A j \in i..(Len(hist) + Len(new)) : both[j].cid \notin TimeEvents
    <3>1. \A j \in i..(Len(hist) + Len(new)) : j \in 1..(Len(hist) + Len(new))
      BY <1>2
    <3> QED  BY <1>8, <3>1 DEF NotAnchoredFrom
  <2>2. result[i].ts = both[i].ts
    BY <1>6, <1>7, <1>8, <2>1 DEF NotAnchoredFrom
  <2>3. CASE i \in 1..Len(hist)
    <3>1. \A j \in i..Len(hist) : hist[j].cid \notin TimeEvents
      <4>1. \A j \in i..Len(hist) : j \in 1..Len(hist) /\ j \in i..(Len(hist) + Len(new))
        BY <1>2, <2>3
      <4> QED  BY <1>7, <2>1, <4>1
    <3> QED  BY <1>7, <1>13, <2>2, <2>3, <3>1 DEF Undated, NotAnchoredFrom
  <2>4. CASE i \notin 1..Len(hist)
    <3> DEFINE k == i - Len(hist)
    <3>1. k \in 1..Len(new) /\ i = Len(hist) + k
      BY <1>2, <2>4
    <3> HIDE DEF k
    <3>2. \A j \in k..Len(new) : new[j].cid \notin TimeEvents
      <4>1. \A j \in k..Len(new) : j \in 1..Len(new) /\ Len(hist) + j \in i..(Len(hist) + Len(new))
        BY <1>2, <3>1
      <4>2. \A j \in k..Len(new) : both[Len(hist) + j].cid = new[j].cid
        BY <1>6, <1>7, <4>1
      <4> QED  BY <2>1, <4>1, <4>2
    <3>3. both[i].ts = new[k].ts
      BY <1>6, <1>7, <3>1
    <3> QED  BY <1>13, <2>2, <3>1, <3>2, <3>3 DEF Undated, NotAnchoredFrom
  <2> QED  BY <2>3, <2>4
<1> QED  BY <1>11, <1>12, <1>13 DEF result, HasBoth

LEMMA NothingExpires ==
    ASSUME NothingIsRefused, NEW e, e.cid \in Commit, NEW time
    PROVE  ~Expired(e, time)
BY DEF NothingIsRefused, Expired

LEMMA AppliedWhole ==
    ASSUME NothingIsRefused, NEW hist, Held(hist), NEW new \in NewLog, new # <<>>,
           \A i \in 1..Len(new) : new[i].ok,
           Prev[new[1].cid] = Before(hist),
           \A i \in 2..Len(new) : Prev[new[i].cid] = new[i - 1].cid,
           NEW strict, NEW time
    PROVE  HasBoth(ApplyLog(hist, new, strict, time), hist, new)
<1>1. ASSUME NEW i \in 1..Len(new) PROVE new[i].cid \in Commit
  <2>1. new[i] \in NewEntry
    BY DEF NewLog
  <2> QED  BY <2>1 DEF NewEntry
<1>2. \A i \in 1..Len(new) : ~Expired(new[i], time)
  BY <1>1, NothingExpires
<1>3. Invalid = {}
  BY DEF NothingIsRefused
<1> QED  BY <1>2, <1>3, AppliedInFull

(* A reset that does not throw keeps the log up to its commit.             *)
LEMMA ResetInFull ==
    ASSUME Invalid = {}, NEW hist, GoodLog(hist), NEW fork \in 1..Len(hist), NEW time,
           \A k \in 1..fork : ~Expired(TrustedLog(hist, hist[fork].cid, FALSE)[k], time)
    PROVE  LET result == ResetToCommit(hist, hist[fork].cid, FALSE, time) IN
           /\ Held(result) /\ result # Thrown /\ Undated(result)
           /\ Tip(result) = hist[fork].cid
           /\ \A k \in 1..fork : hist[k].cid \in CidsOf(result)
<1> DEFINE c == hist[fork].cid
           new == TrustedLog(hist, c, FALSE)
           result == ResetToCommit(hist, c, FALSE, time)
<1>1. c \in CidsOf(hist) /\ Len(SyncFullLog(c)) = fork
  <2>1. fork \in DOMAIN hist
    BY DEF GoodLog
  <2>2. Len(SyncFullLog(c)) = fork
    BY LogIsItsChain
  <2> QED  BY <2>1, <2>2 DEF CidsOf
<1>2. result = ApplyLog(<<>>, new, TRUE, time)
  BY <1>1 DEF ResetToCommit
<1>3. /\ new \in NewLog /\ Len(new) = fork /\ Undated(new)
      /\ \A k \in 1..fork : new[k].cid = hist[k].cid /\ new[k].ok = TRUE
  <2>1. PICK j \in 1..Len(hist) : TrustedUpTo(hist, c, FALSE, j)
    BY <1>1, TrustedLogIsALog
  <2>2. hist[j].cid = c
    BY <2>1 DEF TrustedUpTo
  <2>3. Len(SyncFullLog(hist[j].cid)) = j
    BY LogIsItsChain
  <2>4. j = fork
    BY <1>1, <2>2, <2>3
  <2> QED  BY <2>1, <2>4 DEF TrustedUpTo
<1>4. Held(result)
  BY ResetIsGood
<1>11. \A k \in 1..Len(new) : ~Expired(new[k], time)
  BY <1>3
<1> HIDE DEF new
<1>5. Len(hist) \in Nat /\ fork \in Nat /\ fork >= 1 /\ new # <<>>
  BY <1>3 DEF GoodLog
<1>6. Prev[new[1].cid] = Before(<<>>)
  BY <1>3, <1>5, ForestAssumption DEF GoodLog, Before
<1>7. ASSUME NEW i \in 2..Len(new) PROVE Prev[new[i].cid] = new[i - 1].cid
  <2>1. i \in 1..fork /\ i - 1 \in 1..fork /\ i \in 2..Len(hist)
    BY <1>3, <1>5
  <2> QED  BY <1>3, <2>1 DEF GoodLog
<1>8. Held(<<>>) /\ Undated(<<>>)
  BY DEF Held, Undated
<1>9. HasBoth(result, <<>>, new) /\ Undated(result)
  <2> HIDE DEF result
  <2>1. \A i \in 1..Len(new) : new[i].ok
    BY <1>3
  <2> QED  BY <1>2, <1>3, <1>5, <1>6, <1>7, <1>8, <1>11, <2>1, AppliedInFull
<1> HIDE DEF result
<1>10. fork \in 1..fork
  BY <1>5
<1> QED  BY <1>3, <1>4, <1>9, <1>10 DEF result, HasBoth

LEMMA ResetKeepsPart ==
    ASSUME NothingIsRefused, NEW hist, GoodLog(hist), NEW fork \in 1..Len(hist), NEW time
    PROVE  LET result == ResetToCommit(hist, hist[fork].cid, FALSE, time) IN
           /\ Held(result) /\ result # Thrown
           /\ Tip(result) = hist[fork].cid
           /\ \A k \in 1..fork : hist[k].cid \in CidsOf(result)
<1> DEFINE new == TrustedLog(hist, hist[fork].cid, FALSE)
<1>1. ASSUME NEW k \in 1..fork PROVE ~Expired(new[k], time)
  <2>1. hist[fork].cid \in CidsOf(hist) /\ k \in 1..Len(hist)
    BY DEF GoodLog, CidsOf
  <2>2. PICK j \in 1..Len(hist) : TrustedUpTo(hist, hist[fork].cid, FALSE, j)
    BY <2>1, TrustedLogIsALog
  <2>3. j = fork
    <3>1. hist[j].cid = hist[fork].cid
      BY <2>2 DEF TrustedUpTo
    <3>2. Len(SyncFullLog(hist[j].cid)) = j /\ Len(SyncFullLog(hist[fork].cid)) = fork
      BY LogIsItsChain
    <3> QED  BY <3>1, <3>2
  <2>4. new[k].cid = hist[k].cid
    BY <2>2, <2>3 DEF TrustedUpTo
  <2>5. hist[k].cid \in Commit
    BY <2>1, LogIsItsChain
  <2> HIDE DEF new
  <2> QED  BY <2>4, <2>5, NothingExpires
<1>2. Invalid = {}
  BY DEF NothingIsRefused
<1> QED  BY <1>1, <1>2, ResetInFull

LEMMA AnchorsInOrder ==
    ASSUME NothingIsRefused, NEW hist, GoodLog(hist), NEW i \in 1..Len(hist), NEW j \in 1..Len(hist),
           i =< j, hist[i].cid \in TimeEvents, hist[j].cid \in TimeEvents
    PROVE  AnchorTime[hist[i].cid] =< AnchorTime[hist[j].cid]
<1>1. Len(hist) \in Nat /\ i \in 1..j
  BY DEF GoodLog
<1>2. /\ ChainTo[hist[j].cid] \in Seq(Commit) /\ Len(ChainTo[hist[j].cid]) = j
      /\ ChainTo[hist[j].cid][i] = hist[i].cid
  BY <1>1, LogIsItsChain
<1>3. i \in DOMAIN ChainTo[hist[j].cid]
  BY <1>1, <1>2
<1> QED  BY <1>2, <1>3 DEF NothingIsRefused

(* What a log holds after a commit of it.                                  *)
IsRest(rest, hist, fork) ==
    /\ rest \in Seq(Entry) /\ Len(rest) = Len(hist) - fork
    /\ \A i \in 1..(Len(hist) - fork) : rest[i] = hist[fork + i]

LEMMA RestOfLog ==
    ASSUME NEW hist, GoodLog(hist), NEW fork \in 1..Len(hist)
    PROVE  IsRest(SubSeq(hist, fork + 1, Len(hist)), hist, fork)
<1> DEFINE f == [i \in 1..(Len(hist) - fork) |-> hist[fork + i]]
<1>1. hist \in Seq(Entry) /\ Len(hist) \in Nat /\ fork \in Nat /\ fork =< Len(hist)
  BY DEF GoodLog
<1>2. SubSeq(hist, fork + 1, Len(hist)) =
          [i \in 1..((Len(hist) - (fork + 1)) + 1) |-> hist[i + (fork + 1) - 1]]
  BY <1>1 DEF SubSeq
<1>3. Len(hist) - fork \in Nat /\ \A i \in 1..(Len(hist) - fork) : fork + i \in 1..Len(hist)
  BY <1>1
<1>4. SubSeq(hist, fork + 1, Len(hist)) = f
  <2>1. (Len(hist) - (fork + 1)) + 1 = Len(hist) - fork
        /\ \A i \in Nat : i + (fork + 1) - 1 = fork + i
    BY <1>1
  <2> QED  BY <1>2, <2>1
<1>5. f \in [1..(Len(hist) - fork) -> Entry] /\ \A i \in 1..(Len(hist) - fork) : f[i] = hist[fork + i]
  BY <1>1, <1>3
<1> HIDE DEF f
<1>6. f \in Seq(Entry) /\ Len(f) = Len(hist) - fork
  BY <1>3, <1>5, FunctionIsSequence
<1> QED  BY <1>4, <1>5, <1>6 DEF IsRest

(* The anchors a log had, or earlier ones, and the one that was applied.   *)
KeepsAnchors(result, hist, c) ==
    /\ \A time \in Nat : AnchoredBy(hist, time) => AnchoredBy(result, time)
    /\ c \in TimeEvents => AnchoredBy(result, AnchorTime[c])

LEMMA AnchorsAreKept ==
    ASSUME NothingIsRefused, NEW hist, GoodLog(hist), NEW c \in Commit, NEW opts \in Options, NEW time,
           ApplyTip(hist, c, TimeEvents, opts, time) # Thrown
    PROVE  KeepsAnchors(ApplyTip(hist, c, TimeEvents, opts, time), hist, c)
<1> DEFINE cids == SyncLogUntilMatch(c, CidsOf(hist))
           new == VerifyAnchors(cids, TimeEvents)
           fork == IndexOf(hist, Prev[new[1].cid])
           local == SubSeq(hist, fork + 1, Len(hist))
           shared == ResetToCommit(hist, hist[fork].cid, FALSE, time)
           applied == ApplyWithoutCacaoVerification(hist, new, opts, time)
           result == ApplyTip(hist, c, TimeEvents, opts, time)
           N == FirstAnchor(new)
           L == FirstAnchor(local)
<1>1. result = applied /\ applied # Thrown
  <2>1. result = IF Usable(applied, time) THEN applied ELSE Thrown
    BY DEF ApplyTip, ApplyLogToState
  <2> HIDE DEF applied
  <2> QED  BY <2>1
<1> HIDE DEF result
<1>2. hist \in Seq(Entry) /\ Len(hist) \in Nat /\ Len(hist) > 0 /\ Held(hist) /\ hist # <<>>
  BY DEF GoodLog, Held
<1>3. /\ cids \in Seq(Commit) /\ Len(cids) \in Nat
      /\ cids = <<>> => c \in CidsOf(hist)
      /\ cids # <<>> => Prev[cids[1]] \in CidsOf(hist) /\ cids[Len(cids)] = c
      /\ \A i \in 2..Len(cids) : Prev[cids[i]] = cids[i - 1]
      /\ \A i \in 1..Len(cids) : \E k \in DOMAIN ChainTo[c] : ChainTo[c][k] = cids[i]
  <2>1. GoesOn(cids, hist, c)
    BY SyncedGoesOn
  <2> HIDE DEF cids
  <2> QED  BY <2>1 DEF GoesOn
<1> HIDE DEF cids
<1>4. /\ new \in NewLog /\ new \in Seq(NewEntry) /\ Len(new) = Len(cids)
      /\ \A i \in 1..Len(new) : new[i].cid = cids[i] /\ new[i].ok = TRUE
  <2>1. new \in NewLog
    BY <1>3, VerifiedIsTyped
  <2>2. new \in Seq(NewEntry)
    BY <2>1 DEF NewLog
  <2>3. /\ Len(new) = Len(cids)
        /\ \A i \in 1..Len(cids) : new[i].cid = cids[i] /\ new[i].ok = (cids[i] \notin TimeEvents \ TimeEvents)
    BY <1>3, VerifiedShape
  <2> HIDE DEF new
  <2> QED  BY <2>1, <2>2, <2>3
<1> HIDE DEF new
<1>5. opts.throwIfStale \in BOOLEAN /\ opts.throwOnConflict \in BOOLEAN
  BY DEF Options
<1>6. CASE new = <<>>
  <2>1. result = hist
    BY <1>1, <1>6 DEF ApplyWithoutCacaoVerification
  <2>2. c \in CidsOf(hist)
    BY <1>3, <1>4, <1>6
  <2>3. c \in TimeEvents => AnchorTime[c] \in Nat
    BY ForestAssumption
  <2>4. KeepsAnchors(result, hist, c)
    BY <2>1, <2>2, <2>3 DEF KeepsAnchors, AnchoredBy
  <2> QED  BY <2>4 DEF result
<1>7. CASE new # <<>>
  <2>1. Len(new) > 0 /\ cids # <<>> /\ 1 \in 1..Len(new) /\ Len(new) \in 1..Len(new)
    BY <1>3, <1>4, <1>7
  <2>2. Prev[new[1].cid] \in CidsOf(hist) /\ new[Len(new)].cid = c
    BY <1>3, <1>4, <2>1
  <2>3. fork \in 1..Len(hist) /\ hist[fork].cid = Prev[new[1].cid]
    BY <1>2, <2>2, IndexIsFound
  <2> HIDE DEF fork
  <2>4. \A i \in 2..Len(new) : Prev[new[i].cid] = new[i - 1].cid
    <3>1. \A i \in 2..Len(new) : i \in 1..Len(new) /\ i - 1 \in 1..Len(new)
      BY <1>3, <1>4
    <3> QED  BY <1>3, <1>4, <3>1
  <2>5. IsRest(local, hist, fork)
    BY <2>3, RestOfLog
  <2> HIDE DEF local
  <2>6. ASSUME NEW i \in 1..Len(new), new[i].cid \in TimeEvents
        PROVE  /\ new[i].ts = AnchorTime[new[i].cid] /\ new[i].ts \in Nat
               /\ c \in TimeEvents => new[i].ts =< AnchorTime[c]
    <3>1. new[i].ts = AnchorTime[new[i].cid]
      BY <1>4, <2>6 DEF NewLog
    <3>2. AnchorTime[new[i].cid] \in Nat
      BY <2>6, ForestAssumption
    <3>3. PICK k \in DOMAIN ChainTo[c] : ChainTo[c][k] = new[i].cid
      BY <1>3, <1>4
    <3> QED  BY <2>6, <3>1, <3>2, <3>3 DEF NothingIsRefused
  <2>7. /\ N \in 0..Len(new)
        /\ N > 0 => new[N].cid \in TimeEvents
        /\ c \in TimeEvents => N > 0
    <3>1. /\ N \in 0..Len(new)
          /\ N > 0 => new[N].cid \in TimeEvents
          /\ \A k \in 1..Len(new) : new[k].cid \in TimeEvents => 0 < N /\ N =< k
      BY <1>4, FirstAnchorIsFirst
    <3> HIDE DEF N
    <3> QED  BY <2>1, <2>2, <3>1
  <2>8. /\ L \in 0..Len(local)
        /\ L > 0 => local[L].cid \in TimeEvents
        /\ \A k \in 1..Len(local) : local[k].cid \in TimeEvents => 0 < L /\ L =< k
    <3>1. local \in Seq(Entry)
      BY <2>5 DEF IsRest
    <3> QED  BY <3>1, FirstAnchorIsFirst
  <2>9. ASSUME L > 0
        PROVE  /\ fork + L \in 1..Len(hist) /\ local[L] = hist[fork + L]
               /\ local[L].cid \in TimeEvents /\ local[L].cid \in CidsOf(hist)
               /\ local[L].ts = AnchorTime[local[L].cid] /\ local[L].ts \in Nat
    <3> HIDE DEF L
    <3>1. L \in 1..(Len(hist) - fork) /\ fork + L \in 1..Len(hist)
      BY <1>2, <2>3, <2>5, <2>8, <2>9 DEF IsRest
    <3>2. local[L] = hist[fork + L] /\ local[L].cid \in TimeEvents
      BY <2>5, <2>8, <2>9, <3>1 DEF IsRest
    <3>3. hist[fork + L].cid \in CidsOf(hist)
      BY <1>2, <3>1 DEF CidsOf
    <3>4. local[L].ts = AnchorTime[local[L].cid]
      BY <3>1, <3>2 DEF GoodLog
    <3>5. AnchorTime[local[L].cid] \in Nat
      BY <3>2, ForestAssumption
    <3> QED  BY <3>1, <3>2, <3>3, <3>4, <3>5
  <2> HIDE DEF N, L
  <2>10. CASE local = <<>>
    <3>1. result = ApplyLog(hist, new, opts.throwOnInvalid, time)
      BY <1>1, <1>7, <2>10 DEF ApplyWithoutCacaoVerification, local, fork
    <3>2. fork = Len(hist)
      BY <1>2, <2>3, <2>5, <2>10 DEF IsRest
    <3>3. Prev[new[1].cid] = Before(hist)
      BY <1>2, <2>3, <3>2 DEF Before, Tip, Last
    <3>4. HasBoth(result, hist, new)
      BY <1>2, <1>4, <1>7, <2>4, <3>1, <3>3, AppliedWhole
    <3>5. c \in CidsOf(result) /\ CidsOf(hist) \subseteq CidsOf(result)
      BY <2>1, <2>2, <3>4 DEF HasBoth
    <3>6. c \in TimeEvents => AnchorTime[c] \in Nat
      BY ForestAssumption
    <3>7. KeepsAnchors(result, hist, c)
      BY <3>5, <3>6 DEF KeepsAnchors, AnchoredBy
    <3> QED  BY <3>7 DEF result
  <2>11. CASE local # <<>>
    <3>1. ~opts.throwIfStale
      BY <1>1, <1>7, <2>11 DEF ApplyWithoutCacaoVerification, local, fork
    <3>2. applied = IF PicksFirst(local, new)
                    THEN IF opts.throwOnConflict THEN Thrown ELSE hist
                    ELSE IF shared = Thrown THEN Thrown
                    ELSE ApplyLog(shared, new, opts.throwOnInvalid, time)
      BY <1>7, <2>11, <3>1 DEF ApplyWithoutCacaoVerification, local, fork
    <3> HIDE DEF applied, shared
    <3>3. CASE PicksFirst(local, new)
      <4>1. result = hist
        BY <1>1, <1>5, <3>2, <3>3, Zenon
      <4>2. ASSUME c \in TimeEvents PROVE AnchoredBy(hist, AnchorTime[c])
        <5>1. N > 0 /\ new[N].ts \in Nat /\ new[N].ts =< AnchorTime[c]
          BY <1>3, <1>4, <2>6, <2>7, <4>2
        <5>2. L > 0 /\ (local[L].ts < new[N].ts \/ ~(new[N].ts < local[L].ts))
          BY <3>3, <5>1 DEF PicksFirst, AnchoredBefore, N, L
        <5>3. AnchorTime[c] \in Nat
          BY <4>2, ForestAssumption
        <5>4. local[L].ts =< AnchorTime[c]
          BY <2>9, <5>1, <5>2, <5>3
        <5> QED  BY <2>9, <5>2, <5>4 DEF AnchoredBy
      <4>3. KeepsAnchors(result, hist, c)
        BY <4>1, <4>2 DEF KeepsAnchors
      <4> QED  BY <4>3 DEF result
    <3>4. CASE ~PicksFirst(local, new)
      <4>1. shared # Thrown /\ result = ApplyLog(shared, new, opts.throwOnInvalid, time)
        BY <1>1, <3>2, <3>4, Zenon
      <4>2. /\ Held(shared) /\ Tip(shared) = hist[fork].cid
            /\ \A k \in 1..fork : hist[k].cid \in CidsOf(shared)
        BY <2>3, ResetKeepsPart DEF shared
      <4>3. Prev[new[1].cid] = Before(shared)
        BY <2>3, <4>1, <4>2 DEF Before, Thrown
      <4>4. HasBoth(result, shared, new)
        BY <1>4, <1>7, <2>4, <4>1, <4>2, <4>3, AppliedWhole
      <4>5. c \in TimeEvents => AnchoredBy(result, AnchorTime[c])
        <5>1. c \in CidsOf(result)
          BY <2>1, <2>2, <4>4 DEF HasBoth
        <5>2. c \in TimeEvents => AnchorTime[c] \in Nat
          BY ForestAssumption
        <5> QED  BY <5>1, <5>2 DEF AnchoredBy
      <4>6. ASSUME NEW t \in Nat, AnchoredBy(hist, t) PROVE AnchoredBy(result, t)
        <5>1. PICK b \in TimeEvents : b \in CidsOf(hist) /\ AnchorTime[b] =< t
          BY <4>6 DEF AnchoredBy
        <5>2. PICK k \in 1..Len(hist) : hist[k].cid = b
          BY <1>2, <5>1 DEF CidsOf
        <5>3. CASE k =< fork
          <6>1. b \in CidsOf(result)
            BY <1>2, <2>3, <4>2, <4>4, <5>2, <5>3 DEF HasBoth
          <6> QED  BY <5>1, <6>1 DEF AnchoredBy
        <5>4. CASE k > fork
          <6>1. k - fork \in 1..(Len(hist) - fork) /\ fork + (k - fork) = k
            BY <1>2, <2>3, <5>4
          <6>2. local[k - fork].cid = b /\ k - fork \in 1..Len(local)
            BY <2>5, <5>2, <6>1 DEF IsRest
          <6>3. L > 0 /\ L =< k - fork
            BY <2>8, <6>2
          <6>4. fork + L =< k
            BY <1>2, <2>3, <2>5, <2>8, <6>3 DEF IsRest
          <6>5. local[L].ts =< AnchorTime[b]
            BY <2>9, <5>2, <6>3, <6>4, AnchorsInOrder
          <6>6. N > 0 /\ ~(local[L].ts < new[N].ts)
            BY <3>4, <6>3, <2>7 DEF PicksFirst, AnchoredBefore, N, L
          <6>7. N \in 1..Len(new) /\ new[N].cid \in TimeEvents
            BY <1>3, <1>4, <2>7, <6>6
          <6>8. new[N].ts = AnchorTime[new[N].cid] /\ new[N].ts \in Nat
            BY <2>6, <6>7
          <6>9. AnchorTime[b] \in Nat /\ local[L].ts \in Nat
            BY <2>9, <6>3, ForestAssumption
          <6>10. AnchorTime[new[N].cid] =< t
            BY <5>1, <6>5, <6>6, <6>8, <6>9
          <6>11. new[N].cid \in CidsOf(result)
            BY <4>4, <6>7 DEF HasBoth
          <6> QED  BY <6>7, <6>10, <6>11 DEF AnchoredBy
        <5> QED  BY <1>2, <2>3, <5>3, <5>4
      <4>7. KeepsAnchors(result, hist, c)
        BY <4>5, <4>6 DEF KeepsAnchors
      <4> QED  BY <4>7 DEF result
    <3> QED  BY <3>3, <3>4
  <2> QED  BY <2>10, <2>11
<1> QED  BY <1>6, <1>7 DEF result

-----------------------------------------------------------------------------
(* Every node holds nothing, or a good log of commits there are.           *)
LogsAreGood == \A n \in Node : Held(log[n])

LEMMA OutcomesAreAnchors ==
    ASSUME NEW valid \in Outcomes
    PROVE  valid \subseteq TimeEvents
BY DEF Outcomes

LEMMA BecomeKeeps ==
    ASSUME TypeOK, LogsAreGood, NEW n \in Node, NEW c \in Commit, NEW result, Held(result),
           Become(n, c, result)
    PROVE  log' \in [Node -> Seq(Entry)] /\ seen' \in [Node -> SUBSET Commit] /\ LogsAreGood'
<1>1. result \in Seq(Entry)
  <2>1. <<>> \in Seq(Entry)
    OBVIOUS
  <2> QED  BY <2>1 DEF Held, GoodLog
<1>2. CASE result = Thrown
  BY <1>2 DEF Become, TypeOK, LogsAreGood, Held
<1>3. CASE result # Thrown
  <2>1. log' = [log EXCEPT ![n] = result] /\ seen' = [seen EXCEPT ![n] = @ \cup {c}]
    BY <1>3 DEF Become
  <2>2. log' \in [Node -> Seq(Entry)] /\ seen' \in [Node -> SUBSET Commit]
    BY <1>1, <2>1 DEF TypeOK
  <2>3. ASSUME NEW m \in Node PROVE Held(log'[m])
    BY <2>1 DEF TypeOK, LogsAreGood
  <2> QED  BY <2>2, <2>3 DEF LogsAreGood, Held
<1> QED  BY <1>2, <1>3

LEMMA TipsInit == Init => TypeOK /\ LogsAreGood
<1> SUFFICES ASSUME Init PROVE TypeOK /\ LogsAreGood
  OBVIOUS
<1>1. <<>> \in Seq(Entry)
  OBVIOUS
<1> QED  BY <1>1, ClockAssumption, ForestAssumption DEF Init, TypeOK, LogsAreGood, Held

LEMMA TipsNext == TypeOK /\ LogsAreGood /\ [Next]_vars => (TypeOK /\ LogsAreGood)'
<1> SUFFICES ASSUME TypeOK, LogsAreGood, [Next]_vars
             PROVE  (TypeOK /\ LogsAreGood)'
  OBVIOUS
<1>1. ASSUME NEW n \in Node, Loaded(n) PROVE GoodLog(log[n]) /\ Tip(log[n]) \in Commit
  <2>1. GoodLog(log[n])
    BY <1>1 DEF LogsAreGood, Held, Loaded
  <2>2. log[n][Len(log[n])] \in Entry
    BY <2>1 DEF GoodLog
  <2> QED  BY <2>1, <2>2 DEF Tip, Last, Entry
<1>2. ASSUME NEW n \in Node, NEW c \in Commit, NEW valid \in Outcomes, LoadStream(n, c, valid)
      PROVE  (TypeOK /\ LogsAreGood)'
  <2>1. Become(n, c, LoadStateFromTip(c, valid, FALSE, now)) /\ UNCHANGED <<stored, now>>
    BY <1>2 DEF LoadStream
  <2>2. Held(LoadStateFromTip(c, valid, FALSE, now))
    BY OutcomesAreAnchors, LoadedStateIsGood
  <2> QED  BY <2>1, <2>2, BecomeKeeps DEF TypeOK
<1>3. ASSUME NEW n \in Node, NEW c \in Commit, NEW valid \in Outcomes, HandleTip(n, c, valid)
      PROVE  (TypeOK /\ LogsAreGood)'
  <2>1. /\ Become(n, c, ApplyTip(log[n], c, valid, NetworkOpts, now))
        /\ Loaded(n) /\ UNCHANGED <<stored, now>>
    BY <1>3 DEF HandleTip, ApplyTipFromNetwork
  <2>2. Held(ApplyTip(log[n], c, valid, NetworkOpts, now))
    BY <1>1, <2>1, OutcomesAreAnchors, AppliedTipIsGood DEF NetworkOpts, Options
  <2> QED  BY <2>1, <2>2, BecomeKeeps DEF TypeOK
<1>4. ASSUME NEW n \in Node, NEW c \in Commit, NEW valid \in Outcomes, ApplyUserCommit(n, c, valid)
      PROVE  (TypeOK /\ LogsAreGood)'
  <2>1. /\ Become(n, c, ApplyTip(log[n], c, valid, UserOpts, now))
        /\ Loaded(n) /\ stored' = stored \cup {c} /\ UNCHANGED now
    BY <1>4 DEF ApplyUserCommit, ApplyCommitFromUser
  <2>2. Held(ApplyTip(log[n], c, valid, UserOpts, now))
    BY <1>1, <2>1, OutcomesAreAnchors, AppliedTipIsGood DEF UserOpts, Options
  <2> QED  BY <2>1, <2>2, BecomeKeeps DEF TypeOK
<1>5. ASSUME NEW n \in Node, NEW valid \in Outcomes, Resync(n, valid)
      PROVE  (TypeOK /\ LogsAreGood)'
  <2>1. /\ Become(n, Tip(log[n]), LoadStateFromTip(Tip(log[n]), valid, FALSE, now))
        /\ Loaded(n) /\ UNCHANGED <<stored, now>>
    BY <1>5 DEF Resync
  <2>2. Tip(log[n]) \in Commit /\ Held(LoadStateFromTip(Tip(log[n]), valid, FALSE, now))
    BY <1>1, <2>1, OutcomesAreAnchors, LoadedStateIsGood
  <2> QED  BY <2>1, <2>2, BecomeKeeps DEF TypeOK
<1>6. ASSUME NEW a \in Commit, PublishAnchor(a) PROVE (TypeOK /\ LogsAreGood)'
  BY <1>6 DEF PublishAnchor, TypeOK, LogsAreGood, Held
<1>7. CASE Tick
  BY <1>7, ClockAssumption DEF Tick, TypeOK, LogsAreGood, Held
<1>8. CASE UNCHANGED vars
  BY <1>8 DEF vars, TypeOK, LogsAreGood, Held
<1> QED  BY <1>2, <1>3, <1>4, <1>5, <1>6, <1>7, <1>8 DEF Next

(* Logs, tips and the clock have their types.                              *)
THEOREM TipsTypeCorrect == Spec => []TypeOK
<1>1. Init => TypeOK /\ LogsAreGood
  BY TipsInit
<1>2. TypeOK /\ LogsAreGood /\ [Next]_vars => (TypeOK /\ LogsAreGood)'
  BY TipsNext
<1> QED  BY <1>1, <1>2, PTL DEF Spec

(* Every log a node ever holds, whatever it heard of and in whatever order,*)
(* begins with the init event, follows `prev`, holds nothing invalid and   *)
(* dates what an anchor covers (stream-loading/state-manipulator.ts).      *)
THEOREM LogsStayGood == Spec => []LogsAreGood
<1>1. Init => TypeOK /\ LogsAreGood
  BY TipsInit
<1>2. TypeOK /\ LogsAreGood /\ [Next]_vars => (TypeOK /\ LogsAreGood)'
  BY TipsNext
<1> QED  BY <1>1, <1>2, PTL DEF Spec

(* As long as a log is usable, each of its commits can be loaded by its    *)
(* CommitID and gives that part of the log, although the anchor that makes *)
(* an expired capability good comes after it (stream-loader.ts,            *)
(* resetStateToCommit).                                                    *)
THEOREM CommitsStayLoadable == Spec => []CommitIdsStayLoadable
<1>1. Init => TypeOK /\ LogsAreGood
  BY TipsInit
<1>2. TypeOK /\ LogsAreGood /\ [Next]_vars => (TypeOK /\ LogsAreGood)'
  BY TipsNext
<1>3. TypeOK /\ LogsAreGood => CommitIdsStayLoadable
  <2> SUFFICES ASSUME LogsAreGood, NEW n \in Node, Loaded(n), Usable(log[n], now),
                      NEW i \in DOMAIN log[n]
               PROVE  LET result == StateAtCommitId(log[n], log[n][i].cid, TimeEvents, now)
                      IN  result # Thrown /\ result = SubSeq(log[n], 1, i)
    BY DEF CommitIdsStayLoadable
  <2>1. GoodLog(log[n])
    BY DEF LogsAreGood, Held, Loaded
  <2>2. i \in 1..Len(log[n])
    BY <2>1 DEF GoodLog
  <2> QED  BY <2>1, <2>2, UsableLogsAreLoadable
<1> QED  BY <1>1, <1>2, <1>3, PTL DEF Spec

-----------------------------------------------------------------------------
(* When a history has its next anchor after commit g, 0 if it has none.    *)
AnchorsAfter(chain, g) == {i \in (g + 1)..Len(chain) : chain[i] \in TimeEvents}

When(chain, g) ==
    IF AnchorsAfter(chain, g) = {} THEN NoTime
    ELSE AnchorTime[chain[Min(AnchorsAfter(chain, g))]]

(* Its next anchor after g is the i-th commit.                             *)
NextAnchor(chain, g, i) ==
    /\ i \in (g + 1)..Len(chain) /\ chain[i] \in TimeEvents
    /\ \A k \in (g + 1)..(i - 1) : chain[k] \notin TimeEvents

LEMMA WhenIsNext ==
    ASSUME NEW chain \in Seq(Commit), NEW g \in Nat
    PROVE  /\ \/ When(chain, g) = NoTime /\ \A i \in (g + 1)..Len(chain) : chain[i] \notin TimeEvents
              \/ \E i \in (g + 1)..Len(chain) : NextAnchor(chain, g, i)
           /\ \A i \in (g + 1)..Len(chain) : NextAnchor(chain, g, i) =>
                When(chain, g) = AnchorTime[chain[i]] /\ When(chain, g) \in Nat \ {NoTime}
           /\ When(chain, g) \in Nat
<1> DEFINE later == AnchorsAfter(chain, g)
           m == Min(later)
<1>1. later \subseteq Nat /\ Len(chain) \in Nat
  BY DEF AnchorsAfter
<1>2. \A i \in (g + 1)..Len(chain) : i \in later <=> chain[i] \in TimeEvents
  BY DEF AnchorsAfter
<1>3. later \subseteq (g + 1)..Len(chain)
  BY DEF AnchorsAfter
<1>4. When(chain, g) = IF later = {} THEN NoTime ELSE AnchorTime[chain[m]]
  BY DEF When
<1>5. \A a \in TimeEvents : AnchorTime[a] \in Nat \ {NoTime}
  BY ForestAssumption
<1> HIDE DEF later
<1>6. later # {} => m \in later /\ \A y \in later : m =< y
  BY <1>1, MinOfNaturals
<1> HIDE DEF m
<1>7. ASSUME later # {} PROVE NextAnchor(chain, g, m)
  <2>1. m \in (g + 1)..Len(chain) /\ chain[m] \in TimeEvents
    BY <1>2, <1>3, <1>6, <1>7
  <2>2. ASSUME NEW k \in (g + 1)..(m - 1) PROVE chain[k] \notin TimeEvents
    <3>1. k \in (g + 1)..Len(chain) /\ k < m
      BY <1>1, <2>1
    <3>2. k \notin later
      BY <1>6, <1>7, <2>1, <3>1
    <3> QED  BY <1>2, <3>1, <3>2
  <2> QED  BY <2>1, <2>2 DEF NextAnchor
<1>8. ASSUME NEW i \in (g + 1)..Len(chain), NextAnchor(chain, g, i)
      PROVE  When(chain, g) = AnchorTime[chain[i]] /\ When(chain, g) \in Nat \ {NoTime}
  <2>1. i \in later /\ chain[i] \in TimeEvents
    BY <1>2, <1>8 DEF NextAnchor
  <2>2. m \in (g + 1)..Len(chain) /\ m =< i /\ chain[m] \in TimeEvents
    BY <1>2, <1>3, <1>6, <2>1
  <2>3. ~(m \in (g + 1)..(i - 1))
    BY <1>8, <2>2 DEF NextAnchor
  <2>4. m = i
    BY <2>2, <2>3
  <2>5. When(chain, g) = AnchorTime[chain[i]]
    BY <1>4, <2>1, <2>4
  <2> QED  BY <1>5, <2>1, <2>5
<1>9. CASE later = {}
  BY <1>2, <1>4, <1>8, <1>9 DEF NoTime
<1>10. CASE later # {}
  <2>1. m \in (g + 1)..Len(chain) /\ NextAnchor(chain, g, m)
    BY <1>3, <1>6, <1>7, <1>10
  <2>2. When(chain, g) \in Nat \ {NoTime}
    BY <1>8, <2>1
  <2> QED  BY <1>8, <2>1, <2>2
<1> QED  BY <1>9, <1>10

(* Two histories that have their first g commits in common, and which of   *)
(* them goes on the better: _pickLogToAccept at the place they part.       *)
Shares(one, two, g) ==
    g =< Len(one) /\ g =< Len(two) /\ \A i \in 1..g : one[i] = two[i]

Earlier(time1, time2) == time1 # NoTime /\ (time2 = NoTime \/ time1 < time2)

LongerOrLower(one, two) ==
    \/ Len(one) > Len(two)
    \/ Len(one) = Len(two) /\ Rank[one[Len(one)]] < Rank[two[Len(two)]]

Ahead(one, two, g) ==
    \/ Earlier(When(one, g), When(two, g))
    \/ /\ When(one, g) = NoTime /\ When(two, g) = NoTime
       /\ LongerOrLower(one, two)

(* The tip c wins against the tip d.                                       *)
Beats(c, d) ==
    \E g \in Nat : Shares(ChainTo[c], ChainTo[d], g) /\ Ahead(ChainTo[c], ChainTo[d], g)

Histories == {chain \in Seq(Commit) : Len(chain) > 0}

LEMMA HistoryMeasures ==
    ASSUME NEW one \in Histories, NEW g \in Nat
    PROVE  /\ one \in Seq(Commit) /\ Len(one) \in Nat /\ Rank[one[Len(one)]] \in Nat
           /\ When(one, g) \in Nat
<1>1. one \in Seq(Commit) /\ Len(one) \in Nat /\ one[Len(one)] \in Commit
  BY DEF Histories
<1> QED  BY <1>1, WhenIsNext, ForestAssumption

(* Further on, up to where they part, the histories compare as they did,   *)
(* unless an anchor they share was what decided before.                    *)
LEMMA LevelsAgree ==
    ASSUME NEW one \in Histories, NEW two \in Histories, NEW g \in Nat, NEW h \in Nat, g =< h,
           Shares(one, two, h)
    PROVE  \/ When(one, g) = When(two, g) /\ When(one, g) # NoTime
           \/ When(one, g) = When(one, h) /\ When(two, g) = When(two, h)
<1>1. /\ one \in Seq(Commit) /\ two \in Seq(Commit) /\ Len(one) \in Nat /\ Len(two) \in Nat
      /\ h =< Len(one) /\ h =< Len(two) /\ \A i \in 1..h : one[i] = two[i]
  BY HistoryMeasures DEF Shares
<1>2. CASE \E i \in (g + 1)..h : one[i] \in TimeEvents
  <2> DEFINE shared == {i \in (g + 1)..h : one[i] \in TimeEvents}
  <2>1. shared # {} /\ shared \subseteq Nat
    BY <1>2
  <2>2. PICK m \in shared : \A y \in shared : m =< y
    <3> HIDE DEF shared
    <3> QED  BY <2>1, MinOfNaturals
  <2>3. /\ m \in (g + 1)..h /\ one[m] \in TimeEvents
        /\ \A k \in (g + 1)..h : one[k] \in TimeEvents => m =< k
    BY <2>2
  <2> HIDE DEF shared
  <2>4. m \in (g + 1)..Len(one) /\ m \in (g + 1)..Len(two) /\ m \in 1..h /\ one[m] = two[m]
    BY <1>1, <2>3
  <2>5. ASSUME NEW k \in (g + 1)..(m - 1)
        PROVE  one[k] \notin TimeEvents /\ two[k] \notin TimeEvents
    <3>1. k \in (g + 1)..h /\ k \in 1..h /\ k < m
      BY <2>3
    <3> QED  BY <1>1, <2>3, <3>1
  <2>6. NextAnchor(one, g, m) /\ NextAnchor(two, g, m)
    BY <2>3, <2>4, <2>5 DEF NextAnchor
  <2>7. When(one, g) = AnchorTime[one[m]] /\ When(one, g) \in Nat \ {NoTime}
    BY <1>1, <2>4, <2>6, WhenIsNext
  <2>8. When(two, g) = AnchorTime[two[m]]
    BY <1>1, <2>4, <2>6, WhenIsNext
  <2> QED  BY <2>4, <2>7, <2>8
<1>3. CASE ~\E i \in (g + 1)..h : one[i] \in TimeEvents
  <2>1. ASSUME NEW chain \in {one, two} PROVE When(chain, g) = When(chain, h)
    <3>1. chain \in Seq(Commit) /\ Len(chain) \in Nat /\ h =< Len(chain)
      BY <1>1
    <3>2. \A i \in (g + 1)..h : chain[i] \notin TimeEvents
      BY <1>1, <1>3
    <3>3. CASE When(chain, h) = NoTime /\ \A i \in (h + 1)..Len(chain) : chain[i] \notin TimeEvents
      <4>1. \A i \in (g + 1)..Len(chain) : chain[i] \notin TimeEvents
        <5>1. \A i \in (g + 1)..Len(chain) : i \in (g + 1)..h \/ i \in (h + 1)..Len(chain)
          BY <3>1
        <5> QED  BY <3>2, <3>3, <5>1
      <4>2. ~\E i \in (g + 1)..Len(chain) : NextAnchor(chain, g, i)
        BY <4>1 DEF NextAnchor
      <4> QED  BY <3>1, <3>3, <4>2, WhenIsNext
    <3>4. CASE \E i \in (h + 1)..Len(chain) : NextAnchor(chain, h, i)
      <4>1. PICK i \in (h + 1)..Len(chain) : NextAnchor(chain, h, i)
        BY <3>4
      <4>2. i \in (g + 1)..Len(chain) /\ chain[i] \in TimeEvents
        BY <3>1, <4>1 DEF NextAnchor
      <4>3. \A k \in (g + 1)..(i - 1) : chain[k] \notin TimeEvents
        <5>1. \A k \in (g + 1)..(i - 1) : k \in (g + 1)..h \/ k \in (h + 1)..(i - 1)
          BY <3>1
        <5> QED  BY <3>2, <4>1, <5>1 DEF NextAnchor
      <4>4. NextAnchor(chain, g, i)
        BY <4>2, <4>3 DEF NextAnchor
      <4>5. When(chain, g) = AnchorTime[chain[i]]
        BY <3>1, <4>2, <4>4, WhenIsNext
      <4>6. When(chain, h) = AnchorTime[chain[i]]
        BY <3>1, <4>1, WhenIsNext
      <4> QED  BY <4>5, <4>6
    <3> QED  BY <3>1, <3>3, <3>4, WhenIsNext
  <2> QED  BY <2>1
<1> QED  BY <1>2, <1>3

LEMMA AheadFurtherOn ==
    ASSUME NEW one \in Histories, NEW two \in Histories, NEW g \in Nat, NEW h \in Nat, g =< h,
           Shares(one, two, h), Ahead(one, two, g)
    PROVE  Ahead(one, two, h)
<1>1. When(one, g) \in Nat /\ When(two, g) \in Nat
  BY HistoryMeasures
<1>2. ~(When(one, g) = When(two, g) /\ When(one, g) # NoTime)
  BY <1>1 DEF Ahead, Earlier
<1>3. When(one, g) = When(one, h) /\ When(two, g) = When(two, h)
  BY <1>2, LevelsAgree
<1> QED  BY <1>3 DEF Ahead

LEMMA AheadBefore ==
    ASSUME NEW one \in Histories, NEW two \in Histories, NEW g \in Nat, NEW h \in Nat, g =< h,
           Shares(one, two, h), Ahead(one, two, h)
    PROVE  Ahead(one, two, g) \/ (When(one, g) = When(two, g) /\ When(one, g) # NoTime)
BY LevelsAgree DEF Ahead

LEMMA AheadIsAsymmetric ==
    ASSUME NEW one \in Histories, NEW two \in Histories, NEW g \in Nat,
           Ahead(one, two, g), Ahead(two, one, g)
    PROVE  FALSE
<1>1. /\ Len(one) \in Nat /\ Rank[one[Len(one)]] \in Nat /\ When(one, g) \in Nat
      /\ Len(two) \in Nat /\ Rank[two[Len(two)]] \in Nat /\ When(two, g) \in Nat
  BY HistoryMeasures
<1> QED  BY <1>1 DEF Ahead, Earlier, LongerOrLower, NoTime

LEMMA AheadIsTransitive ==
    ASSUME NEW one \in Histories, NEW two \in Histories, NEW three \in Histories, NEW g \in Nat,
           Ahead(one, two, g) \/ (When(one, g) = When(two, g) /\ When(one, g) # NoTime),
           Ahead(two, three, g) \/ (When(two, g) = When(three, g) /\ When(two, g) # NoTime),
           Ahead(one, two, g) \/ Ahead(two, three, g)
    PROVE  Ahead(one, three, g)
<1>1. /\ Len(one) \in Nat /\ Rank[one[Len(one)]] \in Nat /\ When(one, g) \in Nat
      /\ Len(two) \in Nat /\ Rank[two[Len(two)]] \in Nat /\ When(two, g) \in Nat
      /\ Len(three) \in Nat /\ Rank[three[Len(three)]] \in Nat /\ When(three, g) \in Nat
  BY HistoryMeasures
<1> QED  BY <1>1 DEF Ahead, Earlier, LongerOrLower, NoTime

LEMMA ChainsAreHistories ==
    ASSUME NEW c \in Commit
    PROVE  ChainTo[c] \in Histories
BY ChainEnds DEF Histories

LEMMA BeatsIsAsymmetric ==
    ASSUME NEW c \in Commit, NEW d \in Commit, Beats(c, d), Beats(d, c)
    PROVE  FALSE
<1> DEFINE one == ChainTo[c]
           two == ChainTo[d]
<1>1. one \in Histories /\ two \in Histories
  BY ChainsAreHistories
<1>2. PICK g \in Nat : Shares(one, two, g) /\ Ahead(one, two, g)
  BY DEF Beats
<1>3. PICK h \in Nat : Shares(two, one, h) /\ Ahead(two, one, h)
  BY DEF Beats
<1>4. Shares(one, two, h) /\ Shares(two, one, g)
  BY <1>2, <1>3 DEF Shares
<1> HIDE DEF one, two
<1>5. CASE g =< h
  BY <1>1, <1>2, <1>3, <1>4, <1>5, AheadFurtherOn, AheadIsAsymmetric
<1>6. CASE h =< g
  BY <1>1, <1>2, <1>3, <1>4, <1>6, AheadFurtherOn, AheadIsAsymmetric
<1> QED  BY <1>5, <1>6

LEMMA BeatsIsTransitive ==
    ASSUME NEW c \in Commit, NEW d \in Commit, NEW e \in Commit, Beats(c, d), Beats(d, e)
    PROVE  Beats(c, e)
<1> DEFINE one == ChainTo[c]
           two == ChainTo[d]
           three == ChainTo[e]
<1>1. one \in Histories /\ two \in Histories /\ three \in Histories
  BY ChainsAreHistories
<1>2. PICK g \in Nat : Shares(one, two, g) /\ Ahead(one, two, g)
  BY DEF Beats
<1>3. PICK h \in Nat : Shares(two, three, h) /\ Ahead(two, three, h)
  BY DEF Beats
<1>4. SUFFICES \E k \in Nat : Shares(one, three, k) /\ Ahead(one, three, k)
  BY DEF Beats
<1> HIDE DEF one, two, three
<1>5. CASE g =< h
  <2>1. Shares(one, three, g)
    <3>1. \A i \in 1..g : i \in 1..h
      BY <1>5
    <3>2. g =< Len(one) /\ g =< Len(three)
      BY <1>1, <1>2, <1>3, <1>5, HistoryMeasures DEF Shares
    <3> QED  BY <1>2, <1>3, <3>1, <3>2 DEF Shares
  <2>2. Ahead(two, three, g) \/ (When(two, g) = When(three, g) /\ When(two, g) # NoTime)
    BY <1>1, <1>3, <1>5, AheadBefore
  <2> QED  BY <1>1, <1>2, <2>1, <2>2, AheadIsTransitive
<1>6. CASE h =< g
  <2>1. Shares(one, three, h)
    <3>1. \A i \in 1..h : i \in 1..g
      BY <1>6
    <3>2. h =< Len(one) /\ h =< Len(three)
      BY <1>1, <1>2, <1>3, <1>6, HistoryMeasures DEF Shares
    <3> QED  BY <1>2, <1>3, <3>1, <3>2 DEF Shares
  <2>2. Ahead(one, two, h) \/ (When(one, h) = When(two, h) /\ When(one, h) # NoTime)
    BY <1>1, <1>2, <1>6, AheadBefore
  <2> QED  BY <1>1, <1>3, <2>1, <2>2, AheadIsTransitive
<1> QED  BY <1>5, <1>6

(* A commit wins against those before it.                                  *)
LEMMA BeatsItsPast ==
    ASSUME NEW c \in Commit, NEW k \in 1..(Len(ChainTo[c]) - 1)
    PROVE  ChainTo[c][k] \in Commit /\ Beats(c, ChainTo[c][k])
<1> DEFINE chain == ChainTo[c]
           d == chain[k]
           past == ChainTo[d]
<1>1. chain \in Seq(Commit) /\ chain \in Histories /\ Len(chain) \in Nat /\ k \in Nat
      /\ k \in 1..Len(chain) /\ k < Len(chain)
  BY ChainEnds, ChainsAreHistories
<1>2. d \in Commit
  BY <1>1
<1>3. Len(past) = k /\ \A i \in 1..k : past[i] = chain[i]
  BY <1>1, ChainPart
<1>4. past \in Histories
  BY <1>2, ChainsAreHistories
<1> HIDE DEF past
<1>5. Shares(chain, past, k)
  BY <1>1, <1>3 DEF Shares
<1>6. When(past, k) = NoTime
  <2>1. ~\E i \in (k + 1)..Len(past) : NextAnchor(past, k, i)
    BY <1>1, <1>3
  <2> QED  BY <1>1, <1>4, <2>1, WhenIsNext DEF Histories
<1>7. Ahead(chain, past, k)
  BY <1>1, <1>3, <1>6 DEF Ahead, Earlier, LongerOrLower
<1> QED  BY <1>1, <1>2, <1>5, <1>7 DEF Beats, past

-----------------------------------------------------------------------------
(* A log whose times are those of its anchors is what the walk to its tip  *)
(* makes it: every commit has the time of the next anchor, if any.         *)
LEMMA LogOfItsTip ==
    ASSUME NEW hist, GoodLog(hist), Undated(hist)
    PROVE  /\ hist \in Seq(Entry) /\ Len(hist) \in Nat /\ Len(hist) > 0
           /\ Tip(hist) \in Commit /\ Tip(hist) = hist[Len(hist)].cid
           /\ Len(ChainTo[Tip(hist)]) = Len(hist) /\ ChainTo[Tip(hist)] \in Seq(Commit)
           /\ \A i \in 1..Len(hist) : /\ hist[i].cid = ChainTo[Tip(hist)][i]
                                      /\ hist[i].ts = When(ChainTo[Tip(hist)], i - 1)
<1> DEFINE chain == ChainTo[Tip(hist)]
<1>1. hist \in Seq(Entry) /\ Len(hist) \in Nat /\ Len(hist) > 0 /\ Len(hist) \in 1..Len(hist)
  BY DEF GoodLog
<1>2. Tip(hist) = hist[Len(hist)].cid
  BY <1>1 DEF Tip, Last
<1>3. /\ Tip(hist) \in Commit /\ chain \in Seq(Commit) /\ Len(chain) = Len(hist)
      /\ \A i \in 1..Len(hist) : hist[i].cid = chain[i]
  <2>1. /\ hist[Len(hist)].cid \in Commit
        /\ SyncFullLog(hist[Len(hist)].cid) = ChainTo[hist[Len(hist)].cid]
        /\ SyncFullLog(hist[Len(hist)].cid) \in Seq(Commit)
        /\ Len(SyncFullLog(hist[Len(hist)].cid)) = Len(hist)
        /\ \A k \in 1..Len(hist) : SyncFullLog(hist[Len(hist)].cid)[k] = hist[k].cid
    BY <1>1, LogIsItsChain
  <2> QED  BY <1>2, <2>1
<1> HIDE DEF chain
<1>4. ASSUME NEW i \in 1..Len(hist) PROVE hist[i].ts = When(chain, i - 1)
  <2>1. i - 1 \in Nat /\ (i - 1) + 1 = i
    BY <1>1
  <2>2. CASE When(chain, i - 1) = NoTime /\ \A j \in i..Len(chain) : chain[j] \notin TimeEvents
    <3>1. \A j \in i..Len(hist) : j \in 1..Len(hist)
      BY <1>1
    <3>2. NotAnchoredFrom(hist, i)
      BY <1>3, <2>2, <3>1 DEF NotAnchoredFrom
    <3> QED  BY <2>2, <3>2 DEF Undated
  <2>3. CASE \E j \in i..Len(chain) : NextAnchor(chain, i - 1, j)
    <3>1. PICK j \in i..Len(chain) : NextAnchor(chain, i - 1, j)
      BY <2>3
    <3>2. When(chain, i - 1) = AnchorTime[chain[j]]
      BY <1>3, <2>1, <3>1, WhenIsNext
    <3>3. j \in 1..Len(hist) /\ i =< j /\ chain[j] \in TimeEvents /\ hist[j].cid = chain[j]
      BY <1>3, <2>1, <3>1 DEF NextAnchor
    <3>4. \A k \in i..(j - 1) : hist[k].cid \notin TimeEvents
      <4>1. \A k \in i..(j - 1) : k \in 1..Len(hist)
        BY <1>1, <3>3
      <4> QED  BY <1>3, <2>1, <3>1, <4>1 DEF NextAnchor
    <3>5. hist[i].ts = hist[j].ts
      BY <3>3, <3>4 DEF GoodLog, Dated
    <3>6. hist[j].ts = AnchorTime[chain[j]]
      BY <3>3 DEF GoodLog
    <3> QED  BY <3>2, <3>5, <3>6
  <2>4. \/ When(chain, i - 1) = NoTime /\ \A j \in ((i - 1) + 1)..Len(chain) : chain[j] \notin TimeEvents
        \/ \E j \in ((i - 1) + 1)..Len(chain) : NextAnchor(chain, i - 1, j)
    BY <1>3, <2>1, WhenIsNext
  <2> QED  BY <2>1, <2>2, <2>3, <2>4
<1> QED  BY <1>1, <1>2, <1>3, <1>4 DEF chain

LEMMA SameTipSameLog ==
    ASSUME NEW one, GoodLog(one), Undated(one), NEW two, GoodLog(two), Undated(two), Tip(one) = Tip(two)
    PROVE  one = two
<1>1. one \in Seq(Entry) /\ two \in Seq(Entry) /\ Len(one) = Len(two) /\ Len(one) \in Nat
  BY LogOfItsTip
<1>2. ASSUME NEW i \in 1..Len(one) PROVE one[i] = two[i]
  <2>1. one[i].cid = ChainTo[Tip(one)][i] /\ one[i].ts = When(ChainTo[Tip(one)], i - 1)
    BY LogOfItsTip
  <2>2. two[i].cid = ChainTo[Tip(one)][i] /\ two[i].ts = When(ChainTo[Tip(one)], i - 1)
    BY <1>1, LogOfItsTip
  <2>3. one[i] \in Entry /\ two[i] \in Entry
    BY <1>1
  <2> QED  BY <2>1, <2>2, <2>3 DEF Entry
<1> QED  BY <1>1, <1>2

-----------------------------------------------------------------------------
(* No capability has expired, and no anchor of the history is of the       *)
(* future, or no capability ever expires: then no commit of it is refused. *)
NeverExpires == \A c \in Commit : Expires[c] = 0

NotAfter(ts, time) == ts =< time \/ NeverExpires

NoneExpires(time) == \A c \in Commit : Expires[c] = 0 \/ time =< Expires[c]

PastAnchors(c, time) ==
    \A k \in 1..Len(ChainTo[c]) :
        ChainTo[c][k] \in TimeEvents => NotAfter(AnchorTime[ChainTo[c][k]], time)

LEMMA FreshEntryIsGood ==
    ASSUME NEW time \in Nat, NoneExpires(time), NEW e, e.cid \in Commit, e.ts \in Nat, NotAfter(e.ts, time)
    PROVE  ~Expired(e, time)
<1>1. Expires[e.cid] \in Nat /\ (Expires[e.cid] = 0 \/ time =< Expires[e.cid])
  BY ForestAssumption DEF NoneExpires
<1> QED  BY <1>1 DEF Expired, NotAfter, NeverExpires

LEMMA WhenIsPast ==
    ASSUME NEW c \in Commit, NEW time \in Nat, PastAnchors(c, time), NEW g \in Nat
    PROVE  NotAfter(When(ChainTo[c], g), time)
<1> DEFINE chain == ChainTo[c]
<1>1. chain \in Seq(Commit) /\ Len(chain) \in Nat
  BY ChainEnds
<1>2. \A k \in 1..Len(chain) : chain[k] \in TimeEvents => NotAfter(AnchorTime[chain[k]], time)
  BY DEF PastAnchors
<1> HIDE DEF chain
<1>3. CASE When(chain, g) = NoTime
  BY <1>3 DEF NoTime, NotAfter, chain
<1>4. CASE \E i \in (g + 1)..Len(chain) : NextAnchor(chain, g, i)
  <2>1. PICK i \in (g + 1)..Len(chain) : NextAnchor(chain, g, i)
    BY <1>4
  <2>2. When(chain, g) = AnchorTime[chain[i]]
    BY <1>1, <2>1, WhenIsNext
  <2>3. i \in 1..Len(chain) /\ chain[i] \in TimeEvents
    BY <1>1, <2>1 DEF NextAnchor
  <2> QED  BY <1>2, <2>2, <2>3 DEF chain
<1> QED  BY <1>1, <1>3, <1>4, WhenIsNext

(* Then the log can be applied again, as a reset does.                     *)
LEMMA FreshLogIsTrusted ==
    ASSUME NEW hist, GoodLog(hist), Undated(hist), NEW time \in Nat, NoneExpires(time),
           PastAnchors(Tip(hist), time), NEW fork \in 1..Len(hist)
    PROVE  \A k \in 1..fork : ~Expired(TrustedLog(hist, hist[fork].cid, FALSE)[k], time)
<1> DEFINE c == hist[fork].cid
           new == TrustedLog(hist, c, FALSE)
<1>1. hist \in Seq(Entry) /\ Len(hist) \in Nat /\ c \in CidsOf(hist)
  BY DEF GoodLog, CidsOf
<1>2. PICK j \in 1..Len(hist) : TrustedUpTo(hist, c, FALSE, j)
  BY <1>1, TrustedLogIsALog
<1>3. j = fork
  <2>1. hist[j].cid = hist[fork].cid
    BY <1>2 DEF TrustedUpTo
  <2>2. Len(SyncFullLog(hist[j].cid)) = j /\ Len(SyncFullLog(hist[fork].cid)) = fork
    BY LogIsItsChain
  <2> QED  BY <2>1, <2>2
<1>4. /\ new \in NewLog /\ Len(new) = fork
      /\ \A k \in 1..fork : new[k].ts = NoTime \/ \E i \in 1..Len(hist) : new[k].ts = hist[i].ts
  BY <1>2, <1>3 DEF TrustedUpTo
<1> HIDE DEF new
<1>5. ASSUME NEW i \in 1..Len(hist) PROVE NotAfter(hist[i].ts, time)
  <2>1. hist[i].ts = When(ChainTo[Tip(hist)], i - 1) /\ i - 1 \in Nat /\ Tip(hist) \in Commit
    BY <1>1, LogOfItsTip
  <2> QED  BY <2>1, WhenIsPast
<1>6. ASSUME NEW k \in 1..fork PROVE ~Expired(new[k], time)
  <2>1. new[k] \in NewEntry
    BY <1>4 DEF NewLog
  <2>2. new[k].cid \in Commit /\ new[k].ts \in Nat
    BY <2>1 DEF NewEntry
  <2>3. NotAfter(new[k].ts, time)
    BY <1>4, <1>5 DEF NoTime, NotAfter
  <2> QED  BY <2>2, <2>3, FreshEntryIsGood
<1> QED  BY <1>6 DEF new

LEMMA FreshLogIsUsable ==
    ASSUME NEW hist, GoodLog(hist), Undated(hist), NEW time \in Nat, NoneExpires(time),
           PastAnchors(Tip(hist), time)
    PROVE  Usable(hist, time)
<1>1. DOMAIN hist = 1..Len(hist) /\ Len(hist) \in Nat
  BY DEF GoodLog
<1>2. ASSUME NEW i \in 1..Len(hist) PROVE ~Expired(hist[i], time)
  <2>1. hist[i] \in Entry
    BY DEF GoodLog
  <2>2. hist[i].cid \in Commit /\ hist[i].ts \in Nat
    BY <2>1 DEF Entry
  <2>3. hist[i].ts = When(ChainTo[Tip(hist)], i - 1) /\ i - 1 \in Nat /\ Tip(hist) \in Commit
    BY <1>1, LogOfItsTip
  <2>4. NotAfter(hist[i].ts, time)
    BY <2>3, WhenIsPast
  <2> QED  BY <2>2, <2>4, FreshEntryIsGood
<1> QED  BY <1>1, <1>2 DEF Usable

(* What the extractor makes of commits whose anchors all validate.         *)
LEMMA VerifiedTimes ==
    ASSUME NEW cids \in Seq(Commit)
    PROVE  LET new == VerifyAnchors(cids, TimeEvents) IN
           /\ Undated(new)
           /\ \A i \in 1..Len(cids) :
                \/ new[i].ts = NoTime
                \/ \E j \in 1..Len(cids) : cids[j] \in TimeEvents /\ new[i].ts = AnchorTime[cids[j]]
<1> DEFINE following(i) == {j \in i..Len(cids) : cids[j] \in TimeEvents}
           time(i) == IF following(i) = {} THEN NoTime ELSE AnchorTime[cids[Min(following(i))]]
           made == [i \in DOMAIN cids |->
                      [cid |-> cids[i], ts |-> time(i), ok |-> cids[i] \notin TimeEvents \ TimeEvents]]
           new == VerifyAnchors(cids, TimeEvents)
<1>1. new = made
  BY DEF VerifyAnchors
<1>2. DOMAIN cids = 1..Len(cids) /\ Len(cids) \in Nat
  OBVIOUS
<1>3. ASSUME NEW i \in 1..Len(cids)
      PROVE  /\ following(i) # {} =>
                    \E j \in 1..Len(cids) : cids[j] \in TimeEvents /\ time(i) = AnchorTime[cids[j]]
             /\ following(i) = {} => time(i) = NoTime
  <2>1. following(i) \subseteq Nat
    OBVIOUS
  <2>2. following(i) # {} => Min(following(i)) \in following(i)
    <3> HIDE DEF following
    <3> QED  BY <2>1, MinOfNaturals
  <2>3. following(i) # {} => Min(following(i)) \in 1..Len(cids) /\ cids[Min(following(i))] \in TimeEvents
    BY <2>2
  <2> HIDE DEF following
  <2> QED  BY <2>3
<1>4. \A i \in 1..Len(cids) : made[i].ts = time(i) /\ made[i].cid = cids[i]
  <2> HIDE DEF time
  <2> QED  BY <1>2
<1>5. Len(new) = Len(cids)
  BY VerifiedShape
<1> HIDE DEF time, made, new
<1>6. Undated(new)
  <2> SUFFICES ASSUME NEW i \in 1..Len(cids), NotAnchoredFrom(new, i) PROVE new[i].ts = NoTime
    BY <1>5 DEF Undated
  <2>1. \A j \in i..Len(cids) : j \in 1..Len(cids)
    BY <1>2
  <2>2. following(i) = {}
    BY <1>1, <1>4, <1>5, <2>1 DEF NotAnchoredFrom
  <2> QED  BY <1>1, <1>3, <1>4, <2>2
<1>7. ASSUME NEW i \in 1..Len(cids)
      PROVE  \/ new[i].ts = NoTime
             \/ \E j \in 1..Len(cids) : cids[j] \in TimeEvents /\ new[i].ts = AnchorTime[cids[j]]
  <2> HIDE DEF following
  <2> QED  BY <1>1, <1>3, <1>4
<1> QED  BY <1>6, <1>7 DEF new

-----------------------------------------------------------------------------
(* A commit is at the same place of all histories it is in, after the same *)
(* commits.                                                                *)
LEMMA SharedCommit ==
    ASSUME NEW c \in Commit, NEW d \in Commit,
           NEW i \in 1..Len(ChainTo[c]), NEW j \in 1..Len(ChainTo[d]), NEW k \in 1..j,
           ChainTo[ChainTo[d][j]][k] = ChainTo[c][i]
    PROVE  i = k /\ \A q \in 1..i : ChainTo[c][q] = ChainTo[d][q]
<1> DEFINE one == ChainTo[c]
           two == ChainTo[d]
<1>1. one \in Seq(Commit) /\ two \in Seq(Commit) /\ Len(one) \in Nat /\ Len(two) \in Nat
  BY ChainEnds
<1>2. k \in 1..Len(two) /\ two[k] = one[i]
  <2>1. ChainTo[two[j]][k] = two[k]
    BY ChainPart
  <2> QED  BY <1>1, <2>1
<1>3. Len(ChainTo[one[i]]) = i /\ \A q \in 1..i : ChainTo[one[i]][q] = one[q]
  BY ChainPart
<1>4. Len(ChainTo[two[k]]) = k /\ \A q \in 1..k : ChainTo[two[k]][q] = two[q]
  BY <1>2, ChainPart
<1>5. i = k
  BY <1>2, <1>3, <1>4
<1> QED  BY <1>2, <1>3, <1>4, <1>5

LEMMA PartedIsNotTied ==
    ASSUME NothingTies, NEW c \in Commit, NEW d \in Commit, NEW m \in Nat,
           m < Len(ChainTo[c]), m < Len(ChainTo[d]),
           ChainTo[c][m + 1] # ChainTo[d][m + 1]
    PROVE  ~(When(ChainTo[c], m) = When(ChainTo[d], m) /\ When(ChainTo[c], m) # NoTime)
<1> DEFINE one == ChainTo[c]
           two == ChainTo[d]
<1> SUFFICES ASSUME When(one, m) = When(two, m), When(one, m) # NoTime PROVE FALSE
  OBVIOUS
<1>1. one \in Seq(Commit) /\ two \in Seq(Commit) /\ Len(one) \in Nat /\ Len(two) \in Nat
  BY ChainEnds
<1> HIDE DEF one, two
<1>2. PICK i \in (m + 1)..Len(one) : NextAnchor(one, m, i)
  BY <1>1, WhenIsNext
<1>3. PICK j \in (m + 1)..Len(two) : NextAnchor(two, m, j)
  BY <1>1, WhenIsNext
<1>4. one[i] \in TimeEvents /\ two[j] \in TimeEvents /\ AnchorTime[one[i]] = AnchorTime[two[j]]
  <2>1. When(one, m) = AnchorTime[one[i]]
    BY <1>1, <1>2, WhenIsNext
  <2>2. When(two, m) = AnchorTime[two[j]]
    BY <1>1, <1>3, WhenIsNext
  <2> QED  BY <1>2, <1>3, <2>1, <2>2 DEF NextAnchor
<1>5. i \in 1..Len(one) /\ j \in 1..Len(two) /\ m + 1 \in 1..i /\ m + 1 \in 1..j
  BY <1>1
<1>6. Len(ChainTo[one[i]]) = i /\ Len(ChainTo[two[j]]) = j
  BY <1>5, ChainPart DEF one, two
<1>7. CASE \E k \in 1..Len(ChainTo[two[j]]) : ChainTo[two[j]][k] = one[i]
  <2>1. PICK k \in 1..j : ChainTo[two[j]][k] = one[i]
    BY <1>6, <1>7
  <2>2. \A q \in 1..i : one[q] = two[q]
    BY <1>5, <2>1, SharedCommit DEF one, two
  <2> QED  BY <1>5, <2>2 DEF one, two
<1>8. CASE \E k \in 1..Len(ChainTo[one[i]]) : ChainTo[one[i]][k] = two[j]
  <2>1. PICK k \in 1..i : ChainTo[one[i]][k] = two[j]
    BY <1>6, <1>8
  <2>2. \A q \in 1..j : two[q] = one[q]
    BY <1>5, <2>1, SharedCommit DEF one, two
  <2> QED  BY <1>5, <2>2 DEF one, two
<1> QED  BY <1>4, <1>7, <1>8 DEF NothingTies

(* What _pickLogToAccept looks at, in terms of the whole history.          *)
IsRestOf(rest, chain, m) ==
    /\ Len(rest) = Len(chain) - m
    /\ \A i \in 1..(Len(chain) - m) :
        /\ rest[i].cid = chain[m + i]
        /\ rest[i].cid \in TimeEvents => rest[i].ts = AnchorTime[rest[i].cid]

LEMMA FirstAnchorOfRest ==
    ASSUME NEW S, NEW rest \in Seq(S), NEW chain \in Seq(Commit), NEW m \in Nat, m =< Len(chain),
           IsRestOf(rest, chain, m)
    PROVE  /\ FirstAnchor(rest) \in 0..Len(rest)
           /\ FirstAnchor(rest) = 0 => When(chain, m) = NoTime
           /\ FirstAnchor(rest) > 0 =>
                rest[FirstAnchor(rest)].ts = When(chain, m) /\ When(chain, m) # NoTime
<1> DEFINE L == FirstAnchor(rest)
<1>1. /\ L \in 0..Len(rest)
      /\ L > 0 => rest[L].cid \in TimeEvents
      /\ \A k \in 1..Len(rest) : rest[k].cid \in TimeEvents => 0 < L /\ L =< k
  BY FirstAnchorIsFirst
<1>2. /\ Len(chain) \in Nat /\ Len(rest) = Len(chain) - m
      /\ \A i \in 1..(Len(chain) - m) : rest[i].cid = chain[m + i]
  BY DEF IsRestOf
<1> HIDE DEF L
<1>3. ASSUME NEW k \in (m + 1)..Len(chain), chain[k] \in TimeEvents
      PROVE  0 < L /\ m + L =< k
  <2>1. k - m \in 1..Len(rest) /\ m + (k - m) = k
    BY <1>2
  <2>2. rest[k - m].cid \in TimeEvents
    BY <1>2, <1>3, <2>1
  <2>3. 0 < L /\ L =< k - m
    BY <1>1, <2>1, <2>2
  <2> QED  BY <1>1, <1>2, <2>3
<1>4. ASSUME L = 0 PROVE When(chain, m) = NoTime
  <2>1. ~\E i \in (m + 1)..Len(chain) : NextAnchor(chain, m, i)
    BY <1>3, <1>4 DEF NextAnchor
  <2> QED  BY <2>1, WhenIsNext
<1>5. ASSUME L > 0 PROVE rest[L].ts = When(chain, m) /\ When(chain, m) # NoTime
  <2>1. L \in 1..(Len(chain) - m) /\ m + L \in (m + 1)..Len(chain)
    BY <1>1, <1>2, <1>5
  <2>2. chain[m + L] \in TimeEvents /\ rest[L].cid = chain[m + L]
    BY <1>1, <1>2, <1>5, <2>1
  <2>3. \A k \in (m + 1)..((m + L) - 1) : chain[k] \notin TimeEvents
    <3>1. \A k \in (m + 1)..((m + L) - 1) : k \in (m + 1)..Len(chain) /\ ~(m + L =< k)
      BY <1>2, <2>1
    <3> QED  BY <1>3, <3>1
  <2>4. NextAnchor(chain, m, m + L)
    BY <2>1, <2>2, <2>3 DEF NextAnchor
  <2>5. When(chain, m) = AnchorTime[chain[m + L]] /\ When(chain, m) # NoTime
    BY <2>1, <2>4, WhenIsNext
  <2> QED  BY <2>1, <2>2, <2>5 DEF IsRestOf
<1> QED  BY <1>1, <1>4, <1>5 DEF L

(* It keeps the history that is ahead where the two part.                  *)
LEMMA PickIsAhead ==
    ASSUME NothingTies, NEW c \in Commit, NEW d \in Commit, c # d, NEW m \in Nat,
           m < Len(ChainTo[c]), m < Len(ChainTo[d]),
           ChainTo[c][m + 1] # ChainTo[d][m + 1],
           NEW S, NEW one \in Seq(S), NEW R, NEW two \in Seq(R),
           IsRestOf(one, ChainTo[c], m), IsRestOf(two, ChainTo[d], m)
    PROVE  /\ PicksFirst(one, two) => Ahead(ChainTo[c], ChainTo[d], m)
           /\ ~PicksFirst(one, two) => Ahead(ChainTo[d], ChainTo[c], m)
<1> DEFINE C == ChainTo[c]
           D == ChainTo[d]
           L == FirstAnchor(one)
           N == FirstAnchor(two)
<1>1. /\ C \in Seq(Commit) /\ Len(C) \in Nat /\ C[Len(C)] = c /\ When(C, m) \in Nat
      /\ D \in Seq(Commit) /\ Len(D) \in Nat /\ D[Len(D)] = d /\ When(D, m) \in Nat
  BY ChainEnds, WhenIsNext
<1>2. /\ L \in 0..Len(one)
      /\ L = 0 => When(C, m) = NoTime
      /\ L > 0 => one[L].ts = When(C, m) /\ When(C, m) # NoTime
  BY <1>1, FirstAnchorOfRest
<1>3. /\ N \in 0..Len(two)
      /\ N = 0 => When(D, m) = NoTime
      /\ N > 0 => two[N].ts = When(D, m) /\ When(D, m) # NoTime
  BY <1>1, FirstAnchorOfRest
<1>4. ~(When(C, m) = When(D, m) /\ When(C, m) # NoTime)
  BY PartedIsNotTied
<1>5. Len(one) = Len(C) - m /\ Len(two) = Len(D) - m
  BY DEF IsRestOf
<1>6. Tip(one) = c /\ Tip(two) = d
  <2>1. one[Len(one)].cid = C[m + Len(one)] /\ two[Len(two)].cid = D[m + Len(two)]
    <3>1. Len(one) \in 1..(Len(C) - m) /\ Len(two) \in 1..(Len(D) - m)
      BY <1>1, <1>5
    <3> QED  BY <3>1 DEF IsRestOf
  <2>2. m + Len(one) = Len(C) /\ m + Len(two) = Len(D)
    BY <1>1, <1>5
  <2> QED  BY <1>1, <2>1, <2>2 DEF Tip, Last
<1>7. Rank[c] \in Nat /\ Rank[d] \in Nat /\ Rank[c] # Rank[d]
  BY ForestAssumption
<1>8. /\ AnchoredBefore(one, two) <=> Earlier(When(C, m), When(D, m))
      /\ AnchoredBefore(two, one) <=> Earlier(When(D, m), When(C, m))
  <2> HIDE DEF C, D
  <2> QED  BY <1>2, <1>3 DEF AnchoredBefore, Earlier, L, N
<1>9. ASSUME ~Earlier(When(C, m), When(D, m)), ~Earlier(When(D, m), When(C, m))
      PROVE  /\ When(C, m) = NoTime /\ When(D, m) = NoTime
             /\ LongerOrLowerCid(one, two) <=> LongerOrLower(C, D)
             /\ LongerOrLower(C, D) \/ LongerOrLower(D, C)
  <2>1. When(C, m) = NoTime /\ When(D, m) = NoTime
    BY <1>1, <1>4, <1>9 DEF Earlier
  <2>2. RelevantLength(one) = Len(C) - m /\ RelevantLength(two) = Len(D) - m
    BY <1>2, <1>3, <1>5, <2>1 DEF RelevantLength, L, N
  <2>3. LongerOrLowerCid(one, two) <=> LongerOrLower(C, D)
    BY <1>1, <1>6, <2>2 DEF LongerOrLowerCid, LongerOrLower
  <2>4. LongerOrLower(C, D) \/ LongerOrLower(D, C)
    BY <1>1, <1>7 DEF LongerOrLower
  <2> QED  BY <2>1, <2>3, <2>4
<1>10. ~(Earlier(When(C, m), When(D, m)) /\ Earlier(When(D, m), When(C, m)))
  BY <1>1 DEF Earlier
<1> HIDE DEF C, D
<1> QED  BY <1>8, <1>9, <1>10 DEF PicksFirst, Ahead, C, D

-----------------------------------------------------------------------------
(* What a node does with a tip, on whatever terms: it throws, or keeps its *)
(* log because its own tip wins, or because the tip has another init       *)
(* event, or takes the history of a tip that wins.                         *)
TipDecided(result, hist, c) ==
    \/ result = Thrown
    \/ result = hist /\ (~Rooted(c) \/ c = Tip(hist) \/ Beats(Tip(hist), c))
    \/ /\ GoodLog(result) /\ Undated(result) /\ Tip(result) = c
       /\ Rooted(c) /\ Beats(c, Tip(hist))

(* Terms on which it never throws: those of a tip from the network.        *)
Lenient(opts) == ~opts.throwIfStale /\ ~opts.throwOnConflict

LEMMA AppliedIsDecided ==
    ASSUME Invalid = {}, NothingTies, NEW hist, GoodLog(hist), Undated(hist),
           NEW c \in Commit, NEW opts \in Options, NEW time \in Nat, NoneExpires(time),
           PastAnchors(Tip(hist), time), PastAnchors(c, time)
    PROVE  LET new == VerifyAnchors(SyncLogUntilMatch(c, CidsOf(hist)), TimeEvents)
               result == ApplyWithoutCacaoVerification(hist, new, opts, time)
           IN  TipDecided(result, hist, c) /\ (Lenient(opts) => result # Thrown)
<1> DEFINE cids == SyncLogUntilMatch(c, CidsOf(hist))
           new == VerifyAnchors(cids, TimeEvents)
           fork == IndexOf(hist, Prev[new[1].cid])
           local == SubSeq(hist, fork + 1, Len(hist))
           shared == ResetToCommit(hist, hist[fork].cid, FALSE, time)
           result == ApplyWithoutCacaoVerification(hist, new, opts, time)
           t == Tip(hist)
           T == ChainTo[t]
           C == ChainTo[c]
<1> SUFFICES TipDecided(result, hist, c) /\ (Lenient(opts) => result # Thrown)
  OBVIOUS
<1>4. /\ hist \in Seq(Entry) /\ Len(hist) \in Nat /\ Len(hist) > 0 /\ Held(hist) /\ hist # <<>>
      /\ t \in Commit /\ T \in Seq(Commit) /\ Len(T) = Len(hist) /\ T[Len(T)] = t
      /\ \A i \in 1..Len(hist) : hist[i].cid = T[i]
  <2>1. t \in Commit /\ T[Len(T)] = t
    BY LogOfItsTip, ChainEnds
  <2> QED  BY <2>1, LogOfItsTip DEF Held
<1>5. C \in Seq(Commit) /\ Len(C) \in Nat /\ Len(C) > 0 /\ C[Len(C)] = c
  BY ChainEnds
<1>6. t \in CidsOf(hist)
  BY <1>4 DEF CidsOf
<1> HIDE DEF t, T, C
<1>7. \/ ~Rooted(c) /\ cids = <<>>
      \/ Rooted(c) /\ \E m \in 1..Len(C) : SyncedFrom(cids, hist, c, m)
  BY SyncedFromTheLog DEF C
<1>8. cids \in Seq(Commit)
  BY SyncedIsTyped
<1> HIDE DEF cids
<1>9. /\ new \in NewLog /\ new \in Seq(NewEntry) /\ Len(new) = Len(cids) /\ Undated(new)
      /\ \A i \in 1..Len(new) :
            /\ new[i].cid = cids[i] /\ new[i].ok = TRUE
            /\ \/ new[i].ts = NoTime
               \/ \E j \in 1..Len(cids) : cids[j] \in TimeEvents /\ new[i].ts = AnchorTime[cids[j]]
  <2>1. new \in NewLog
    BY <1>8, VerifiedIsTyped
  <2>2. new \in Seq(NewEntry)
    BY <2>1 DEF NewLog
  <2>3. /\ Len(new) = Len(cids)
        /\ \A i \in 1..Len(cids) : new[i].cid = cids[i] /\ new[i].ok = (cids[i] \notin TimeEvents \ TimeEvents)
    BY <1>8, VerifiedShape
  <2>4. /\ Undated(new)
        /\ \A i \in 1..Len(cids) :
                \/ new[i].ts = NoTime
                \/ \E j \in 1..Len(cids) : cids[j] \in TimeEvents /\ new[i].ts = AnchorTime[cids[j]]
    BY <1>8, VerifiedTimes
  <2> HIDE DEF new
  <2> QED  BY <2>1, <2>2, <2>3, <2>4
<1> HIDE DEF new
<1>10. CASE cids = <<>>
  <2>1. new = <<>>
    BY <1>9, <1>10
  <2>2. result = hist /\ result # Thrown
    BY <1>4, <2>1 DEF ApplyWithoutCacaoVerification, Thrown
  <2> HIDE DEF result
  <2>3. CASE ~Rooted(c)
    BY <2>2, <2>3 DEF TipDecided
  <2>4. CASE Rooted(c)
    <3>1. PICK m \in 1..Len(C) : SyncedFrom(cids, hist, c, m)
      BY <1>7, <2>4
    <3>2. m = Len(C)
      <4>1. Len(cids) = Len(C) - m /\ Len(cids) = 0
        BY <1>10, <3>1 DEF SyncedFrom, IsPartFrom, C
      <4> QED  BY <1>5, <4>1
    <3>3. m \in 1..Len(hist) /\ hist[m].cid = c
      BY <1>4, <1>5, <3>1, <3>2 DEF SyncedFrom, C
    <3>4. T[m] = c
      BY <1>4, <3>3
    <3>5. CASE m = Len(hist)
      BY <1>4, <2>2, <3>4, <3>5 DEF TipDecided, t
    <3>6. CASE m # Len(hist)
      <4>1. m \in 1..(Len(T) - 1)
        BY <1>4, <3>3, <3>6
      <4>2. Beats(t, c)
        BY <1>4, <3>4, <4>1, BeatsItsPast DEF T
      <4> QED  BY <2>2, <4>2 DEF TipDecided, t
    <3> QED  BY <3>5, <3>6
  <2> QED  BY <2>3, <2>4
<1>11. CASE cids # <<>>
  <2>1. Rooted(c)
    BY <1>7, <1>11
  <2>2. PICK m \in 1..Len(C) : SyncedFrom(cids, hist, c, m)
    BY <1>7, <1>11
  <2>3. /\ m \in 1..Len(hist) /\ m < Len(C) /\ Len(new) = Len(C) - m /\ Len(new) > 0 /\ new # <<>>
        /\ \A k \in 1..m : C[k] = hist[k].cid
        /\ \A k \in (m + 1)..Len(C) : C[k] \notin CidsOf(hist)
        /\ \A i \in 1..Len(new) : new[i].cid = C[m + i] /\ cids[i] = C[m + i]
    <3>1. Len(cids) > 0
      BY <1>8, <1>11
    <3>2. /\ m =< Len(hist) /\ Len(cids) = Len(C) - m
          /\ \A k \in 1..m : C[k] = hist[k].cid
          /\ \A k \in (m + 1)..Len(C) : C[k] \notin CidsOf(hist)
          /\ \A i \in 1..(Len(C) - m) : cids[i] = C[m + i]
      BY <2>2 DEF SyncedFrom, IsPartFrom, C
    <3> QED  BY <1>4, <1>5, <1>9, <3>1, <3>2
  <2>4. \A i \in 2..Len(C) : Prev[C[i]] = C[i - 1]
    BY ChainFollows DEF C
  <2>5. Prev[new[1].cid] = hist[m].cid
    <3>1. 1 \in 1..Len(new) /\ m + 1 \in 2..Len(C) /\ (m + 1) - 1 = m /\ m \in 1..m
      BY <1>5, <2>3
    <3>2. Prev[C[m + 1]] = C[m]
      BY <2>4, <3>1
    <3> QED  BY <2>3, <3>1, <3>2
  <2>6. \A i \in 2..Len(new) : Prev[new[i].cid] = new[i - 1].cid
    <3> SUFFICES ASSUME NEW i \in 2..Len(new) PROVE Prev[new[i].cid] = new[i - 1].cid
      OBVIOUS
    <3>0. m \in Nat /\ m >= 1 /\ i \in Nat /\ i >= 2 /\ i =< Len(new) /\ Len(new) = Len(C) - m
          /\ Len(C) \in Nat /\ m < Len(C)
      <4>1. m \in Nat /\ m >= 1
        BY <2>2
      <4> QED  BY <1>5, <2>3, <4>1
    <3>1. i \in 1..Len(new) /\ i - 1 \in 1..Len(new) /\ m + i \in 2..Len(C) /\ (m + i) - 1 = m + (i - 1)
      BY <3>0
    <3> QED  BY <2>3, <2>4, <3>1
  <2>7. fork = m
    <3>1. hist[m].cid \in CidsOf(hist)
      <4>1. m \in DOMAIN hist
        BY <1>4, <2>3
      <4> QED  BY <4>1 DEF CidsOf
    <3>2. fork \in 1..Len(hist) /\ hist[fork].cid = hist[m].cid
      BY <1>4, <2>5, <3>1, IndexIsFound
    <3> HIDE DEF fork
    <3>3. Len(SyncFullLog(hist[fork].cid)) = fork /\ Len(SyncFullLog(hist[m].cid)) = m
      BY <2>3, <3>2, LogIsItsChain
    <3> QED  BY <3>2, <3>3
  <2> HIDE DEF fork
  <2>8. IsRest(local, hist, m)
    BY <2>3, <2>7, RestOfLog
  <2> HIDE DEF local
  <2>9. \A i \in 1..Len(new) : ~Expired(new[i], time)
    <3> SUFFICES ASSUME NEW i \in 1..Len(new) PROVE ~Expired(new[i], time)
      OBVIOUS
    <3>1. new[i] \in NewEntry
      BY <1>9
    <3>2. new[i].cid \in Commit /\ new[i].ts \in Nat
      BY <3>1 DEF NewEntry
    <3>3. CASE new[i].ts = NoTime
      BY <3>2, <3>3, FreshEntryIsGood DEF NoTime, NotAfter
    <3>4. CASE \E j \in 1..Len(cids) : cids[j] \in TimeEvents /\ new[i].ts = AnchorTime[cids[j]]
      <4>1. PICK j \in 1..Len(cids) : cids[j] \in TimeEvents /\ new[i].ts = AnchorTime[cids[j]]
        BY <3>4
      <4>2. m + j \in 1..Len(C) /\ C[m + j] = cids[j]
        BY <1>5, <1>9, <2>3, <4>1
      <4>3. NotAfter(new[i].ts, time)
        BY <4>1, <4>2 DEF PastAnchors, C
      <4> QED  BY <3>2, <4>3, FreshEntryIsGood
    <3> QED  BY <1>9, <3>3, <3>4
  <2>10. new[Len(new)].cid = c
    <3>1. Len(new) \in 1..Len(new) /\ m + Len(new) = Len(C)
      BY <1>5, <2>3
    <3> QED  BY <1>5, <2>3, <3>1
  <2>11. c \notin CidsOf(hist) /\ c # t
    <3>1. Len(C) \in (m + 1)..Len(C)
      BY <1>5, <2>3
    <3> QED  BY <1>5, <1>6, <2>3, <3>1
  <2>12. \A i \in 1..Len(new) : new[i].ok
    BY <1>9
  <2>13. CASE local = <<>>
    <3>1. m = Len(hist)
      BY <1>4, <2>3, <2>8, <2>13 DEF IsRest
    <3>2. result = ApplyLog(hist, new, opts.throwOnInvalid, time)
      BY <2>3, <2>13 DEF ApplyWithoutCacaoVerification, local, fork
    <3>3. Prev[new[1].cid] = Before(hist)
      BY <1>4, <2>5, <3>1 DEF Before, Tip, Last
    <3>4. HasBoth(result, hist, new) /\ Undated(result)
      <4>1. new \in NewLog /\ Undated(new) /\ new # <<>> /\ Held(hist)
        BY <1>4, <1>9, <2>3
      <4>2. /\ HasBoth(ApplyLog(hist, new, opts.throwOnInvalid, time), hist, new)
            /\ Undated(ApplyLog(hist, new, opts.throwOnInvalid, time))
        BY <2>6, <2>9, <2>12, <3>3, <4>1, AppliedInFull
      <4> QED  BY <3>2, <4>2
    <3>5. Tip(result) = c /\ GoodLog(result) /\ result # Thrown
      <4>1. Held(result)
        BY <1>4, <1>9, <3>2, AppliedLogIsGood
      <4> QED  BY <2>10, <3>4, <4>1 DEF HasBoth, Held, Thrown
    <3> HIDE DEF result
    <3>6. m \in 1..(Len(C) - 1) /\ C[m] = t
      <4>1. m \in Nat /\ m >= 1 /\ m < Len(C) /\ Len(C) \in Nat
        BY <1>4, <1>5, <2>3
      <4>2. m \in 1..m
        BY <4>1
      <4>3. C[m] = hist[m].cid
        BY <2>3, <4>2
      <4>4. hist[m].cid = t
        BY <1>4, <3>1
      <4> QED  BY <4>1, <4>3, <4>4
    <3>7. Beats(c, t)
      BY <3>6, BeatsItsPast DEF C
    <3> QED  BY <2>1, <3>4, <3>5, <3>7 DEF TipDecided, t
  <2>14. CASE local # <<>>
    <3>1. m < Len(T) /\ m \in Nat
      <4>1. local \in Seq(Entry) /\ Len(local) = Len(hist) - m
        BY <2>8 DEF IsRest
      <4>2. Len(local) > 0
        BY <2>14, <4>1
      <4> QED  BY <1>4, <2>3, <4>1, <4>2
    <3>2. C[m + 1] # T[m + 1]
      <4>1. m + 1 \in (m + 1)..Len(C) /\ m + 1 \in 1..Len(hist)
        BY <1>4, <1>5, <2>3, <3>1
      <4>2. hist[m + 1].cid \in CidsOf(hist) /\ hist[m + 1].cid = T[m + 1]
        BY <1>4, <4>1 DEF CidsOf
      <4> QED  BY <2>3, <4>1, <4>2
    <3>3. Shares(T, C, m) /\ Shares(C, T, m)
      <4>1. \A i \in 1..m : i \in 1..Len(hist)
        BY <1>4, <2>3
      <4> QED  BY <1>4, <2>3, <3>1, <4>1 DEF Shares
    <3>4. IsRestOf(local, T, m) /\ local \in Seq(Entry)
      <4>1. ASSUME NEW i \in 1..(Len(T) - m)
            PROVE  /\ local[i].cid = T[m + i]
                   /\ local[i].cid \in TimeEvents => local[i].ts = AnchorTime[local[i].cid]
        <5>1. m + i \in 1..Len(hist) /\ local[i] = hist[m + i]
          BY <1>4, <2>3, <2>8, <4>1 DEF IsRest
        <5> QED  BY <1>4, <5>1 DEF GoodLog
      <4> QED  BY <1>4, <2>8, <4>1 DEF IsRest, IsRestOf
    <3>5. IsRestOf(new, C, m)
      <4>1. \A i \in 1..Len(new) : new[i].cid \in TimeEvents => new[i].ts = AnchorTime[new[i].cid]
        BY <1>9 DEF NewLog
      <4> QED  BY <2>3, <4>1 DEF IsRestOf
    <3>6. /\ PicksFirst(local, new) => Ahead(T, C, m)
          /\ ~PicksFirst(local, new) => Ahead(C, T, m)
      BY <1>4, <1>9, <2>3, <2>11, <3>1, <3>2, <3>4, <3>5, PickIsAhead DEF T, C
    <3>7. opts.throwIfStale \in BOOLEAN /\ opts.throwOnConflict \in BOOLEAN
      BY DEF Options
    <3>8. CASE opts.throwIfStale
      <4>1. result = Thrown
        BY <2>3, <2>14, <3>8 DEF ApplyWithoutCacaoVerification, local, fork
      <4> HIDE DEF result
      <4> QED  BY <3>8, <4>1 DEF TipDecided, Lenient
    <3> SUFFICES ASSUME ~opts.throwIfStale
                 PROVE  TipDecided(result, hist, c) /\ (Lenient(opts) => result # Thrown)
      BY <3>7, <3>8
    <3>9. result = IF PicksFirst(local, new)
                   THEN IF opts.throwOnConflict THEN Thrown ELSE hist
                   ELSE IF shared = Thrown THEN Thrown
                   ELSE ApplyLog(shared, new, opts.throwOnInvalid, time)
      BY <2>3, <2>14 DEF ApplyWithoutCacaoVerification, local, fork
    <3> HIDE DEF shared, result
    <3>10. CASE PicksFirst(local, new)
      <4>1. result = IF opts.throwOnConflict THEN Thrown ELSE hist
        BY <3>9, <3>10, Zenon
      <4>2. Beats(t, c)
        BY <3>1, <3>3, <3>6, <3>10 DEF Beats, T, C
      <4>3. CASE opts.throwOnConflict
        BY <4>1, <4>3 DEF TipDecided, Lenient
      <4>4. CASE ~opts.throwOnConflict
        BY <1>4, <4>1, <4>2, <4>4 DEF TipDecided, Thrown, t
      <4> QED  BY <4>3, <4>4
    <3>11. CASE ~PicksFirst(local, new)
      <4>2. \A k \in 1..m : ~Expired(TrustedLog(hist, hist[m].cid, FALSE)[k], time)
        BY <2>3, FreshLogIsTrusted
      <4>3. Held(shared) /\ shared # Thrown /\ Undated(shared) /\ Tip(shared) = hist[m].cid
        BY <2>3, <2>7, <4>2, ResetInFull DEF shared
      <4>1. result = ApplyLog(shared, new, opts.throwOnInvalid, time)
        BY <3>9, <3>11, <4>3, Zenon
      <4>4. Prev[new[1].cid] = Before(shared)
        BY <2>5, <4>3 DEF Before, Thrown
      <4>5. HasBoth(result, shared, new) /\ Undated(result)
        <5>1. new \in NewLog /\ Undated(new) /\ new # <<>>
          BY <1>9, <2>3
        <5>2. /\ HasBoth(ApplyLog(shared, new, opts.throwOnInvalid, time), shared, new)
              /\ Undated(ApplyLog(shared, new, opts.throwOnInvalid, time))
          BY <2>6, <2>9, <2>12, <4>3, <4>4, <5>1, AppliedInFull
        <5> QED  BY <4>1, <5>2
      <4>6. Tip(result) = c /\ GoodLog(result) /\ result # Thrown
        <5>1. Held(result)
          BY <1>9, <4>1, <4>3, AppliedLogIsGood DEF Thrown
        <5> QED  BY <2>10, <4>5, <5>1 DEF HasBoth, Held, Thrown
      <4>7. Beats(c, t)
        BY <3>1, <3>3, <3>6, <3>11 DEF Beats, T, C
      <4> QED  BY <2>1, <4>5, <4>6, <4>7 DEF TipDecided, t
    <3> QED  BY <3>10, <3>11
  <2> QED  BY <2>13, <2>14
<1> QED  BY <1>10, <1>11

(* Nothing of the result has expired, so that it is what the node holds.   *)
LEMMA AppliedTipIsDecided ==
    ASSUME Invalid = {}, NothingTies, NEW hist, GoodLog(hist), Undated(hist),
           NEW c \in Commit, NEW opts \in Options, NEW time \in Nat, NoneExpires(time),
           PastAnchors(Tip(hist), time), PastAnchors(c, time)
    PROVE  /\ TipDecided(ApplyTip(hist, c, TimeEvents, opts, time), hist, c)
           /\ Lenient(opts) => ApplyTip(hist, c, TimeEvents, opts, time) # Thrown
<1> DEFINE new == VerifyAnchors(SyncLogUntilMatch(c, CidsOf(hist)), TimeEvents)
           applied == ApplyWithoutCacaoVerification(hist, new, opts, time)
           result == ApplyTip(hist, c, TimeEvents, opts, time)
<1>1. result = IF Usable(applied, time) THEN applied ELSE Thrown
  BY DEF ApplyTip, ApplyLogToState
<1>2. TipDecided(applied, hist, c) /\ (Lenient(opts) => applied # Thrown)
  BY AppliedIsDecided
<1> HIDE DEF applied, result
<1>3. applied # Thrown => Usable(applied, time)
  BY <1>2, FreshLogIsUsable DEF TipDecided
<1>4. result = applied
  BY <1>1, <1>3
<1> QED  BY <1>2, <1>4 DEF result

-----------------------------------------------------------------------------
(* A log is not behind a tip it has heard of: the tip has another init     *)
(* event, or is its own, or loses to its own.  Each log that a node takes  *)
(* in place of one it had is not behind what that one was not behind.      *)
NotBehind(hist, d) == ~Rooted(d) \/ d = Tip(hist) \/ Beats(Tip(hist), d)

LEMMA DecidedIsNotBehind ==
    ASSUME NEW hist, Tip(hist) \in Commit, NEW c \in Commit, NEW result, TipDecided(result, hist, c),
           result # Thrown, NEW d \in Commit, d = c \/ d = Tip(hist) \/ NotBehind(hist, d)
    PROVE  NotBehind(result, d)
<1>1. CASE result = hist /\ (~Rooted(c) \/ c = Tip(hist) \/ Beats(Tip(hist), c))
  BY <1>1 DEF NotBehind
<1>2. CASE Tip(result) = c /\ Beats(c, Tip(hist))
  <2>1. CASE Beats(Tip(hist), d)
    BY <1>2, <2>1, BeatsIsTransitive DEF NotBehind
  <2> QED  BY <1>2, <2>1 DEF NotBehind
<1> QED  BY <1>1, <1>2 DEF TipDecided

(* Such a tip changes nothing when it comes again.                         *)
LEMMA NotBehindIsAbsorbed ==
    ASSUME Invalid = {}, NothingTies, NEW hist, GoodLog(hist), Undated(hist),
           NEW c \in Commit, NEW opts \in Options, Lenient(opts), NEW time \in Nat, NoneExpires(time),
           PastAnchors(Tip(hist), time), PastAnchors(c, time), NotBehind(hist, c)
    PROVE  ApplyTip(hist, c, TimeEvents, opts, time) = hist
<1> DEFINE result == ApplyTip(hist, c, TimeEvents, opts, time)
<1>1. TipDecided(result, hist, c) /\ result # Thrown
  BY AppliedTipIsDecided
<1> HIDE DEF result
<1>2. Tip(hist) \in Commit
  BY LogOfItsTip
<1>3. ~(Rooted(c) /\ Beats(c, Tip(hist)))
  BY <1>2, BeatsIsAsymmetric DEF NotBehind
<1> QED  BY <1>1, <1>3 DEF TipDecided, result

(* A log that is part of another, and not behind it, is the other.         *)
LEMMA PartNotBehindIsAll ==
    ASSUME NEW one, GoodLog(one), Undated(one), NEW two, GoodLog(two), Undated(two),
           CidsOf(one) \subseteq CidsOf(two), NotBehind(one, Tip(two))
    PROVE  one = two
<1> DEFINE chain == ChainTo[Tip(two)]
<1>1. /\ Tip(one) \in Commit /\ Tip(one) = one[Len(one)].cid /\ Len(one) \in 1..Len(one)
      /\ DOMAIN one = 1..Len(one)
  BY LogOfItsTip DEF GoodLog
<1>2. /\ Tip(two) \in Commit /\ Len(chain) = Len(two) /\ Len(two) \in Nat /\ Len(two) > 0
      /\ Tip(two) = two[Len(two)].cid /\ DOMAIN two = 1..Len(two)
      /\ \A i \in 1..Len(two) : two[i].cid = chain[i]
  BY LogOfItsTip DEF GoodLog
<1>3. Rooted(Tip(two))
  <2>1. two[1].cid = Genesis /\ 1 \in 1..Len(two)
    BY <1>2 DEF GoodLog
  <2> QED  BY <1>2, <2>1 DEF Rooted
<1>4. PICK i \in 1..Len(two) : Tip(one) = two[i].cid
  BY <1>1, <1>2 DEF CidsOf
<1>5. CASE i = Len(two)
  BY <1>2, <1>4, <1>5, SameTipSameLog
<1>6. CASE i # Len(two)
  <2>1. i \in 1..(Len(chain) - 1) /\ chain[i] = Tip(one)
    <3> HIDE DEF chain
    <3> QED  BY <1>2, <1>4, <1>6
  <2>2. Beats(Tip(two), Tip(one))
    BY <1>2, <2>1, BeatsItsPast
  <2>3. Tip(two) = Tip(one) \/ Beats(Tip(one), Tip(two))
    BY <1>3 DEF NotBehind
  <2> QED  BY <1>1, <1>2, <2>2, <2>3, BeatsIsAsymmetric
<1> QED  BY <1>5, <1>6

LEMMA NeverExpiresIsFresh ==
    ASSUME NeverExpires, NEW time, NEW c
    PROVE  NoneExpires(time) /\ PastAnchors(c, time)
BY DEF NeverExpires, NoneExpires, PastAnchors, NotAfter

-----------------------------------------------------------------------------
(* A stream that is loaded from a tip gets the history of the tip, or of   *)
(* the init event when the tip has another one.                            *)
LEMMA LoadedIsTheHistory ==
    ASSUME Invalid = {}, NEW c \in Commit, NEW strict, NEW time \in Nat, NoneExpires(time),
           PastAnchors(c, time)
    PROVE  LET result == LoadStateFromTip(c, TimeEvents, strict, time) IN
           /\ GoodLog(result) /\ Undated(result)
           /\ Tip(result) = IF Rooted(c) THEN c ELSE Genesis
<1> DEFINE cids == SyncFullLog(c)
           new == VerifyAnchors(cids, TimeEvents)
           result == LoadStateFromTip(c, TimeEvents, strict, time)
           C == ChainTo[c]
<1>1. cids \in Seq(Commit) /\ Len(cids) \in Nat /\ Len(cids) > 0 /\ cids[1] = Genesis
  BY FullLogBegins
<1>2. C \in Seq(Commit) /\ Len(C) \in Nat /\ Len(C) > 0 /\ C[Len(C)] = c /\ Head(C) = C[1]
  <2>1. C \in Seq(Commit) /\ Len(C) > 0 /\ C[Len(C)] = c
    BY ChainEnds
  <2> HIDE DEF C
  <2> QED  BY <2>1
<1>3. Rooted(c) => cids = C
  BY <1>2 DEF Rooted, SyncFullLog
<1>4. ~Rooted(c) => cids = <<Genesis>>
  BY <1>2 DEF Rooted, SyncFullLog
<1>5. \A i \in 2..Len(C) : Prev[C[i]] = C[i - 1]
  BY ChainFollows
<1>6. \A k \in 1..Len(C) : C[k] \in TimeEvents => NotAfter(AnchorTime[C[k]], time)
  BY DEF PastAnchors
<1> HIDE DEF cids, C
<1>7. \A i \in 2..Len(cids) : Prev[cids[i]] = cids[i - 1]
  <2>1. CASE Rooted(c)
    BY <1>3, <1>5, <2>1
  <2>2. CASE ~Rooted(c)
    <3>1. Len(cids) = 1
      BY <1>4, <2>2
    <3> QED  BY <3>1
  <2> QED  BY <2>1, <2>2
<1>8. \A k \in 1..Len(cids) : cids[k] \in TimeEvents => NotAfter(AnchorTime[cids[k]], time)
  <2>1. CASE Rooted(c)
    BY <1>3, <1>6, <2>1
  <2>2. CASE ~Rooted(c)
    <3>1. Len(cids) = 1 /\ cids[1] \notin TimeEvents
      BY <1>1, <1>4, <2>2, ForestAssumption
    <3> QED  BY <3>1
  <2> QED  BY <2>1, <2>2
<1>9. cids[Len(cids)] = IF Rooted(c) THEN c ELSE Genesis
  <2>1. CASE Rooted(c)
    BY <1>2, <1>3, <2>1
  <2>2. CASE ~Rooted(c)
    <3>1. Len(cids) = 1
      BY <1>4, <2>2
    <3> QED  BY <1>1, <2>2, <3>1
  <2> QED  BY <2>1, <2>2
<1>10. /\ new \in NewLog /\ Len(new) = Len(cids) /\ Undated(new)
       /\ \A i \in 1..Len(cids) : new[i].cid = cids[i] /\ new[i].ok = TRUE
       /\ \A i \in 1..Len(cids) :
            \/ new[i].ts = NoTime
            \/ \E j \in 1..Len(cids) : cids[j] \in TimeEvents /\ new[i].ts = AnchorTime[cids[j]]
  <2>1. new \in NewLog
    BY <1>1, VerifiedIsTyped
  <2>2. /\ Len(new) = Len(cids)
        /\ \A i \in 1..Len(cids) : new[i].cid = cids[i] /\ new[i].ok = (cids[i] \notin TimeEvents \ TimeEvents)
    BY <1>1, VerifiedShape
  <2>3. /\ Undated(new)
        /\ \A i \in 1..Len(cids) :
                \/ new[i].ts = NoTime
                \/ \E j \in 1..Len(cids) : cids[j] \in TimeEvents /\ new[i].ts = AnchorTime[cids[j]]
    BY <1>1, VerifiedTimes
  <2> HIDE DEF new
  <2> QED  BY <2>1, <2>2, <2>3
<1>11. result = ApplyLog(<<>>, new, strict, time)
  BY DEF LoadStateFromTip, cids
<1>12. Held(result)
  BY LoadedStateIsGood
<1> HIDE DEF new, result
<1>13. ASSUME NEW i \in 1..Len(new) PROVE ~Expired(new[i], time)
  <2>1. new[i] \in NewEntry
    BY <1>10 DEF NewLog
  <2>2. new[i].cid \in Commit /\ new[i].ts \in Nat
    BY <2>1 DEF NewEntry
  <2>3. NotAfter(new[i].ts, time)
    BY <1>8, <1>10 DEF NoTime, NotAfter
  <2> QED  BY <2>2, <2>3, FreshEntryIsGood
<1>14. new # <<>> /\ Prev[new[1].cid] = Before(<<>>) /\ \A i \in 1..Len(new) : new[i].ok
  <2>1. 1 \in 1..Len(cids) /\ Len(new) > 0
    BY <1>1, <1>10
  <2> QED  BY <1>1, <1>10, <2>1, ForestAssumption DEF Before
<1>15. \A i \in 2..Len(new) : Prev[new[i].cid] = new[i - 1].cid
  <2>1. \A i \in 2..Len(new) : i \in 1..Len(cids) /\ i - 1 \in 1..Len(cids)
    BY <1>1, <1>10
  <2> QED  BY <1>7, <1>10, <2>1
<1>16. Held(<<>>) /\ Undated(<<>>)
  BY DEF Held, Undated
<1>17. HasBoth(result, <<>>, new) /\ Undated(result)
  <2>1. /\ HasBoth(ApplyLog(<<>>, new, strict, time), <<>>, new)
        /\ Undated(ApplyLog(<<>>, new, strict, time))
    BY <1>10, <1>13, <1>14, <1>15, <1>16, AppliedInFull
  <2> QED  BY <1>11, <2>1
<1>18. Tip(result) = cids[Len(cids)]
  <2>1. Len(cids) \in 1..Len(cids)
    BY <1>1
  <2> QED  BY <1>10, <1>17, <2>1 DEF HasBoth
<1> QED  BY <1>9, <1>12, <1>17, <1>18 DEF result, Held, HasBoth, Thrown

-----------------------------------------------------------------------------
(* Of all histories a node was told of it holds the one that wins against  *)
(* every other: this is what makes the order in which it heard of them not *)
(* matter.                                                                 *)
Known(tips) == {Genesis} \cup {c \in tips : Rooted(c)}

Best(c, tips) == c \in Known(tips) /\ \A d \in Known(tips) : d = c \/ Beats(c, d)

HoldsBest(hist, tips) ==
    IF hist = <<>> THEN tips = {}
    ELSE tips # {} /\ GoodLog(hist) /\ Undated(hist) /\ Best(Tip(hist), tips)

LEMMA KnownAreCommits ==
    ASSUME NEW tips, tips \subseteq Commit
    PROVE  Known(tips) \subseteq Commit
BY ForestAssumption DEF Known

LEMMA BestIsOne ==
    ASSUME NEW tips, tips \subseteq Commit, NEW c, NEW d, Best(c, tips), Best(d, tips)
    PROVE  c = d
<1>1. c \in Commit /\ d \in Commit
  BY KnownAreCommits DEF Best
<1> QED  BY <1>1, BeatsIsAsymmetric DEF Best

LEMMA DecidedIsBest ==
    ASSUME NEW hist, GoodLog(hist), Undated(hist), NEW tips, tips \subseteq Commit,
           Best(Tip(hist), tips), NEW c \in Commit, NEW result, TipDecided(result, hist, c),
           result # Thrown
    PROVE  HoldsBest(result, tips \cup {c})
<1> DEFINE t == Tip(hist)
<1>1. t \in Commit /\ Known(tips) \subseteq Commit
  BY KnownAreCommits DEF Best
<1>2. Known(tips \cup {c}) = IF Rooted(c) THEN Known(tips) \cup {c} ELSE Known(tips)
  BY DEF Known
<1>3. CASE result = hist /\ (~Rooted(c) \/ c = t \/ Beats(t, c))
  <2>1. Best(t, tips \cup {c})
    BY <1>2, <1>3 DEF Best
  <2> QED  BY <1>3, <2>1 DEF HoldsBest, Thrown
<1>4. CASE GoodLog(result) /\ Undated(result) /\ Tip(result) = c /\ Rooted(c) /\ Beats(c, t)
  <2>1. ASSUME NEW d \in Known(tips) PROVE d = c \/ Beats(c, d)
    <3>1. CASE d = t
      BY <1>4, <3>1
    <3>2. CASE d # t
      <4>1. Beats(t, d) /\ d \in Commit
        BY <1>1, <3>2 DEF Best
      <4> QED  BY <1>1, <1>4, <4>1, BeatsIsTransitive
    <3> QED  BY <3>1, <3>2
  <2>2. Best(c, tips \cup {c})
    BY <1>2, <1>4, <2>1 DEF Best
  <2> QED  BY <1>4, <2>2 DEF HoldsBest, Thrown
<1> QED  BY <1>3, <1>4 DEF TipDecided

LEMMA GenesisIsBeaten ==
    ASSUME NEW c \in Commit, Rooted(c), c # Genesis
    PROVE  Beats(c, Genesis)
<1>1. ChainTo[c] \in Seq(Commit) /\ Len(ChainTo[c]) > 0 /\ ChainTo[c][Len(ChainTo[c])] = c
  BY ChainEnds
<1>2. ChainTo[c][1] = Genesis
  BY DEF Rooted
<1>3. 1 \in 1..(Len(ChainTo[c]) - 1)
  BY <1>1, <1>2
<1> QED  BY <1>2, <1>3, BeatsItsPast

LEMMA LoadedIsBest ==
    ASSUME Invalid = {}, NEW c \in Commit, NEW time \in Nat, NoneExpires(time), PastAnchors(c, time)
    PROVE  HoldsBest(LoadStateFromTip(c, TimeEvents, FALSE, time), {c})
<1> DEFINE result == LoadStateFromTip(c, TimeEvents, FALSE, time)
<1>1. GoodLog(result) /\ Undated(result) /\ Tip(result) = IF Rooted(c) THEN c ELSE Genesis
  BY LoadedIsTheHistory
<1> HIDE DEF result
<1>2. Known({c}) = IF Rooted(c) THEN {Genesis, c} ELSE {Genesis}
  BY DEF Known
<1>3. Best(Tip(result), {c})
  <2>1. CASE Rooted(c)
    BY <1>1, <1>2, <2>1, GenesisIsBeaten DEF Best
  <2>2. CASE ~Rooted(c)
    BY <1>1, <1>2, <2>2 DEF Best
  <2> QED  BY <2>1, <2>2
<1>4. result # <<>>
  BY <1>1 DEF GoodLog
<1> QED  BY <1>1, <1>3, <1>4 DEF HoldsBest, result

-----------------------------------------------------------------------------
(* With every commit the one before it is stored, and no anchor is of the  *)
(* future.                                                                 *)
Whole(commits, time) ==
    /\ commits \subseteq Commit /\ Genesis \in commits
    /\ \A c \in commits : Prev[c] \in commits \cup {NoCommit}
    /\ \A a \in commits \cap TimeEvents : AnchorTime[a] =< time

LEMMA WholePast ==
    ASSUME NEW commits, NEW time, Whole(commits, time), NEW c \in commits
    PROVE  /\ \A k \in 1..Len(ChainTo[c]) : ChainTo[c][k] \in commits
           /\ PastAnchors(c, time)
<1> DEFINE S == {d \in Commit : d \in commits => \A k \in 1..Len(ChainTo[d]) : ChainTo[d][k] \in commits}
<1>1. ASSUME NEW d \in Commit, Prev[d] \in S \cup {NoCommit} PROVE d \in S
  <2> SUFFICES ASSUME d \in commits PROVE \A k \in 1..Len(ChainTo[d]) : ChainTo[d][k] \in commits
    OBVIOUS
  <2> DEFINE before == ChainTo[Prev[d]]
  <2>1. ChainTo[d] = Append(before, d) /\ before \in Seq(Commit) /\ Len(before) \in Nat
    BY ChainsAreDefined, ForestAssumption
  <2>2. \A k \in 1..Len(before) : before[k] \in commits
    <3>1. CASE Prev[d] = NoCommit
      <4>1. before = <<>>
        BY <3>1, ChainsAreDefined
      <4> QED  BY <4>1
    <3>2. CASE Prev[d] # NoCommit
      <4>1. Prev[d] \in commits /\ Prev[d] \in S
        BY <1>1, <3>2 DEF Whole
      <4> QED  BY <4>1
    <3> QED  BY <3>1, <3>2
  <2> HIDE DEF before
  <2>3. /\ Len(ChainTo[d]) = Len(before) + 1 /\ ChainTo[d][Len(before) + 1] = d
        /\ \A k \in 1..Len(before) : ChainTo[d][k] = before[k]
    BY <2>1
  <2>4. \A k \in 1..Len(ChainTo[d]) : k = Len(before) + 1 \/ k \in 1..Len(before)
    BY <2>1, <2>3
  <2> QED  BY <2>2, <2>3, <2>4
<1>2. Commit \subseteq S
  <2> HIDE DEF S
  <2> QED  BY <1>1, CommitInduction
<1>3. \A k \in 1..Len(ChainTo[c]) : ChainTo[c][k] \in commits
  BY <1>2 DEF Whole
<1> QED  BY <1>3 DEF PastAnchors, NotAfter, Whole

(* The invariant, as long as no capability has expired.                    *)
BestAreHeld ==
    /\ Whole(stored, now)
    /\ \A n \in Node : seen[n] \subseteq stored /\ HoldsBest(log[n], seen[n])

LEMMA FreshIsNoneExpires == Fresh <=> NoneExpires(now)
BY DEF Fresh, NoneExpires

LEMMA HeldIsPast ==
    ASSUME TypeOK, BestAreHeld, NEW n \in Node, Loaded(n)
    PROVE  /\ GoodLog(log[n]) /\ Undated(log[n]) /\ Best(Tip(log[n]), seen[n]) /\ seen[n] \subseteq Commit
           /\ PastAnchors(Tip(log[n]), now)
           /\ CidsOf(log[n]) \subseteq stored
<1>1. GoodLog(log[n]) /\ Undated(log[n]) /\ Best(Tip(log[n]), seen[n]) /\ seen[n] \subseteq stored
  BY DEF BestAreHeld, HoldsBest, Loaded
<1>2. stored \subseteq Commit /\ Genesis \in stored /\ Whole(stored, now)
  BY DEF BestAreHeld, Whole
<1>3. Tip(log[n]) \in stored
  BY <1>1, <1>2 DEF Best, Known
<1>4. /\ \A k \in 1..Len(ChainTo[Tip(log[n])]) : ChainTo[Tip(log[n])][k] \in stored
      /\ PastAnchors(Tip(log[n]), now)
  BY <1>2, <1>3, WholePast
<1>5. /\ DOMAIN log[n] = 1..Len(log[n]) /\ Len(ChainTo[Tip(log[n])]) = Len(log[n])
      /\ \A i \in 1..Len(log[n]) : log[n][i].cid = ChainTo[Tip(log[n])][i]
  BY <1>1, LogOfItsTip
<1>6. CidsOf(log[n]) \subseteq stored
  BY <1>4, <1>5 DEF CidsOf
<1> QED  BY <1>1, <1>2, <1>4, <1>6

LEMMA BecomeBest ==
    ASSUME TypeOK, BestAreHeld, NEW n \in Node, NEW c, NEW result, Become(n, c, result),
           c \in stored', stored \subseteq stored', Whole(stored', now'),
           result # Thrown => HoldsBest(result, seen[n] \cup {c})
    PROVE  BestAreHeld'
<1>1. CASE result = Thrown
  BY <1>1 DEF Become, BestAreHeld
<1>2. CASE result # Thrown
  <2>1. log' = [log EXCEPT ![n] = result] /\ seen' = [seen EXCEPT ![n] = @ \cup {c}]
    BY <1>2 DEF Become
  <2>2. log \in [Node -> Seq(Entry)] /\ seen \in [Node -> SUBSET Commit]
    BY DEF TypeOK
  <2>3. ASSUME NEW m \in Node PROVE seen'[m] \subseteq stored' /\ HoldsBest(log'[m], seen'[m])
    <3>1. CASE m = n
      <4>1. log'[m] = result /\ seen'[m] = seen[n] \cup {c}
        BY <2>1, <2>2, <3>1
      <4> QED  BY <1>2, <4>1 DEF BestAreHeld
    <3>2. CASE m # n
      <4>1. log'[m] = log[m] /\ seen'[m] = seen[m]
        BY <2>1, <2>2, <3>2
      <4> QED  BY <4>1 DEF BestAreHeld
    <3> QED  BY <3>1, <3>2
  <2> QED  BY <2>3 DEF BestAreHeld
<1> QED  BY <1>1, <1>2

LEMMA BestInit == Init => TypeOK /\ BestAreHeld
<1> SUFFICES ASSUME Init PROVE BestAreHeld
  BY TipsInit
<1>1. Whole(stored, now)
  BY ForestAssumption DEF Init, Whole
<1>2. \A n \in Node : seen[n] \subseteq stored /\ HoldsBest(log[n], seen[n])
  BY DEF Init, HoldsBest
<1> QED  BY <1>1, <1>2 DEF BestAreHeld

LEMMA BestNext ==
    ASSUME Invalid = {}, Flaky = {}, NothingTies, TypeOK, BestAreHeld, [Next]_vars, Fresh
    PROVE  BestAreHeld'
<1>1. now \in Nat /\ NoneExpires(now) /\ Whole(stored, now) /\ stored \subseteq Commit
  BY FreshIsNoneExpires DEF TypeOK, BestAreHeld
<1>2. \A valid \in Outcomes : valid = TimeEvents
  BY DEF Outcomes
<1>3. ASSUME NEW n \in Node, NEW c \in Commit, LoadStream(n, c, TimeEvents)
      PROVE  BestAreHeld'
  <2>1. /\ Become(n, c, LoadStateFromTip(c, TimeEvents, FALSE, now)) /\ UNCHANGED <<stored, now>>
        /\ ~Loaded(n) /\ c \in stored
    BY <1>3 DEF LoadStream
  <2>2. seen[n] = {}
    BY <2>1 DEF BestAreHeld, HoldsBest, Loaded
  <2>3. HoldsBest(LoadStateFromTip(c, TimeEvents, FALSE, now), {c})
    BY <1>1, <2>1, WholePast, LoadedIsBest
  <2>4. seen[n] \cup {c} = {c}
    BY <2>2
  <2> QED  BY <1>1, <2>1, <2>3, <2>4, BecomeBest
<1>4. ASSUME NEW n \in Node, NEW c \in Commit, HandleTip(n, c, TimeEvents)
      PROVE  BestAreHeld'
  <2>1. /\ Become(n, c, ApplyTip(log[n], c, TimeEvents, NetworkOpts, now))
        /\ UNCHANGED <<stored, now>> /\ Loaded(n) /\ c \in stored
    BY <1>4 DEF HandleTip, ApplyTipFromNetwork
  <2>2. PastAnchors(c, now)
    BY <1>1, <2>1, WholePast
  <2>3. TipDecided(ApplyTip(log[n], c, TimeEvents, NetworkOpts, now), log[n], c)
    <3>1. NetworkOpts \in Options
      BY DEF NetworkOpts, Options
    <3> QED  BY <1>1, <2>1, <2>2, <3>1, HeldIsPast, AppliedTipIsDecided
  <2>4. ApplyTip(log[n], c, TimeEvents, NetworkOpts, now) # Thrown =>
            HoldsBest(ApplyTip(log[n], c, TimeEvents, NetworkOpts, now), seen[n] \cup {c})
    BY <2>1, <2>3, HeldIsPast, DecidedIsBest
  <2> QED  BY <1>1, <2>1, <2>4, BecomeBest
<1>5. ASSUME NEW n \in Node, NEW c \in Commit, ApplyUserCommit(n, c, TimeEvents)
      PROVE  BestAreHeld'
  <2>1. /\ Become(n, c, ApplyTip(log[n], c, TimeEvents, UserOpts, now))
        /\ stored' = stored \cup {c} /\ now' = now /\ Loaded(n)
        /\ c \notin TimeEvents /\ Prev[c] \in CidsOf(log[n])
    BY <1>5 DEF ApplyUserCommit, ApplyCommitFromUser
  <2>2. Prev[c] \in stored
    BY <2>1, HeldIsPast
  <2>3. Whole(stored', now') /\ Whole(stored \cup {c}, now)
    BY <1>1, <2>1, <2>2 DEF Whole
  <2>4. PastAnchors(c, now)
    <3>1. c \in stored \cup {c}
      OBVIOUS
    <3> QED  BY <2>3, <3>1, WholePast
  <2>5. TipDecided(ApplyTip(log[n], c, TimeEvents, UserOpts, now), log[n], c)
    <3>1. UserOpts \in Options
      BY DEF UserOpts, Options
    <3> QED  BY <1>1, <2>1, <2>4, <3>1, HeldIsPast, AppliedTipIsDecided
  <2>6. ApplyTip(log[n], c, TimeEvents, UserOpts, now) # Thrown =>
            HoldsBest(ApplyTip(log[n], c, TimeEvents, UserOpts, now), seen[n] \cup {c})
    BY <2>1, <2>5, HeldIsPast, DecidedIsBest
  <2>7. c \in stored' /\ stored \subseteq stored'
    BY <2>1
  <2> QED  BY <2>1, <2>3, <2>6, <2>7, BecomeBest
<1>6. ASSUME NEW n \in Node, Resync(n, TimeEvents) PROVE BestAreHeld'
  <2>1. Loaded(n) /\ ~Usable(log[n], now)
    BY <1>6 DEF Resync
  <2>2. Usable(log[n], now)
    BY <1>1, <2>1, HeldIsPast, FreshLogIsUsable
  <2> QED  BY <2>1, <2>2
<1>7. ASSUME NEW a \in Commit, PublishAnchor(a) PROVE BestAreHeld'
  <2>1. /\ Prev[a] \in stored /\ AnchorTime[a] = now /\ stored' = stored \cup {a}
        /\ UNCHANGED <<log, seen, now>>
    BY <1>7 DEF PublishAnchor
  <2>2. Whole(stored', now')
    BY <1>1, <2>1 DEF Whole
  <2> QED  BY <2>1, <2>2 DEF BestAreHeld
<1>8. CASE Tick
  <2>1. now' = now + 1 /\ UNCHANGED <<log, stored, seen>>
    BY <1>8 DEF Tick
  <2>2. \A a \in stored \cap TimeEvents : AnchorTime[a] \in Nat
    BY ForestAssumption
  <2>3. Whole(stored', now')
    BY <1>1, <2>1, <2>2 DEF Whole
  <2> QED  BY <2>1, <2>3 DEF BestAreHeld
<1>9. CASE UNCHANGED vars
  BY <1>9 DEF vars, BestAreHeld
<1> QED  BY <1>2, <1>3, <1>4, <1>5, <1>6, <1>7, <1>8, <1>9 DEF Next

(* Nodes that applied the same tips hold the same log, whatever the order  *)
(* in which each of them heard of the tips: conflict resolution, which     *)
(* compares two histories at the place they part, is one order on all of   *)
(* them (state-manipulator.ts, _pickLogToAccept).  The commits are valid,  *)
(* anchors validate, and histories that part are anchored at different     *)
(* times.                                                                  *)
THEOREM NodesConverge ==
    ASSUME Invalid = {}, Flaky = {}, NothingTies
    PROVE  Spec => []StrongConvergence
<1> DEFINE ConvergeInv == Fresh => BestAreHeld
<1>1. Init => TypeOK /\ LogsAreGood /\ ConvergeInv
  BY TipsInit, BestInit
<1>2. TypeOK /\ LogsAreGood /\ ConvergeInv /\ [Next]_vars => (TypeOK /\ LogsAreGood /\ ConvergeInv)'
  <2> SUFFICES ASSUME TypeOK, LogsAreGood, ConvergeInv, [Next]_vars
               PROVE  (TypeOK /\ LogsAreGood /\ ConvergeInv)'
    OBVIOUS
  <2>1. (TypeOK /\ LogsAreGood)'
    BY TipsNext
  <2>2. ASSUME Fresh' PROVE Fresh
    <3>1. now \in Nat /\ now' \in Nat /\ now =< now'
      <4>1. now \in Nat /\ now' \in Nat
        BY <2>1 DEF TypeOK
      <4>2. now' = now \/ now' = now + 1
        BY DEF Next, LoadStream, HandleTip, ApplyUserCommit, Resync, PublishAnchor, Tick, vars
      <4> QED  BY <4>1, <4>2
    <3>2. \A c \in Commit : Expires[c] \in Nat
      BY ForestAssumption
    <3> QED  BY <2>2, <3>1, <3>2 DEF Fresh
  <2>3. ASSUME Fresh' PROVE BestAreHeld'
    BY <2>2, <2>3, BestNext
  <2> QED  BY <2>1, <2>3
<1>3. TypeOK /\ ConvergeInv => StrongConvergence
  <2> SUFFICES ASSUME TypeOK, Fresh, BestAreHeld, NEW m \in Node, NEW n \in Node, seen[m] = seen[n]
               PROVE  log[m] = log[n]
    BY DEF StrongConvergence
  <2>1. HoldsBest(log[m], seen[m]) /\ HoldsBest(log[n], seen[m]) /\ seen[m] \subseteq Commit
    BY DEF BestAreHeld, TypeOK
  <2>2. CASE seen[m] = {}
    BY <2>1, <2>2 DEF HoldsBest
  <2>3. CASE seen[m] # {}
    <3>1. /\ GoodLog(log[m]) /\ Undated(log[m]) /\ Best(Tip(log[m]), seen[m])
          /\ GoodLog(log[n]) /\ Undated(log[n]) /\ Best(Tip(log[n]), seen[m])
      BY <2>1, <2>3 DEF HoldsBest
    <3> QED  BY <2>1, <3>1, BestIsOne, SameTipSameLog
  <2> QED  BY <2>2, <2>3
<1> HIDE DEF ConvergeInv
<1> QED  BY <1>1, <1>2, <1>3, PTL DEF Spec
=============================================================================
