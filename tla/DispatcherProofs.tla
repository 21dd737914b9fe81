-------------------------- MODULE DispatcherProofs --------------------------
(***************************************************************************)
(* What a node makes of tips, of queries for them and of ceramic-one's     *)
(* feed, for any streams, tips, feed and limits.                           *)
(***************************************************************************)
EXTENDS Dispatcher, FiniteSetTheorems, TLAPS

Pair == Tips \X Streams

(* The cache of recent tips holds pairs of tips and streams, all tried.    *)
TipInv ==
    /\ recent \in Seq(Pair)
    /\ ToSet(recent) \subseteq tried
    /\ delivered \subseteq tried

Batch == [first : Nat, cursor : Nat]

(* Where the next poll begins: behind the batches that wait.               *)
PolledUpTo == IF batches = <<>> THEN cursor ELSE batches[Len(batches)].cursor

(* The events from the stored cursor to the next poll are in the batches   *)
(* that wait, in order; those of the first that are done were tried.       *)
FeedInv ==
    /\ life \in {"off", "network", "interests", "polling", "stopped"}
    /\ events \in Nat /\ position \in Nat /\ done \in Nat /\ cursor \in Nat
    /\ batches \in Seq(Batch)
    /\ Queued
    /\ batches # <<>> => batches[1].first = cursor + 1
    /\ batches = <<>> => done = 0
    /\ life \in {"network", "interests", "polling"} => position = PolledUpTo
    /\ life = "off" => batches = <<>>
    /\ \A n \in 1..(cursor + done) : n \in attempted

QueryEntry == [id : Streams, age : Nat]
OldestFirst(queue) ==
    \A i, j \in 1..Len(queue) : i <= j => queue[j].age <= queue[i].age

(* The entry of a query that no other replaced is as old as the query, and *)
(* the query is outstanding until it is too old.                           *)
AskedOnce(s) ==
    /\ \A i \in 1..Len(queryQueue) : queryQueue[i].id = s => queryQueue[i].age = asked[s]
    /\ asked[s] < Expiry => s \in DOMAIN queryMap

QueryInv ==
    /\ queryQueue \in Seq(QueryEntry) /\ OldestFirst(queryQueue)
    /\ asked \in [Streams -> Nat]
    /\ \A s \in Streams \ again : AskedOnce(s)

IInv == TipInv /\ QueryInv /\ FeedInv

-----------------------------------------------------------------------------
(* Taking an element out of a sequence adds none (SequencesExt.RemoveAt).  *)
LEMMA RemoveAtRange ==
    ASSUME NEW S, NEW seq \in Seq(S), NEW i \in DOMAIN seq
    PROVE  /\ RemoveAt(seq, i) \in Seq(S) /\ ToSet(RemoveAt(seq, i)) \subseteq ToSet(seq)
           /\ Len(RemoveAt(seq, i)) = Len(seq) - 1
           /\ \A k \in 1..(Len(seq) - 1) :
                  RemoveAt(seq, i)[k] = IF k < i THEN seq[k] ELSE seq[k + 1]
<1> DEFINE front == SubSeq(seq, 1, i - 1)
           back  == SubSeq(seq, i + 1, Len(seq))
           all   == front \o back
<1>1. /\ i \in 1..Len(seq) /\ Len(seq) \in Nat
      /\ \A k \in 1..Len(seq) : seq[k] \in S
    OBVIOUS
<1>2. /\ front \in Seq(S) /\ Len(front) = i - 1
      /\ \A k \in 1..(i - 1) : front[k] = seq[k]
    BY <1>1
<1>3. /\ back \in Seq(S) /\ Len(back) = Len(seq) - i
      /\ \A k \in 1..(Len(seq) - i) : back[k] = seq[k + i]
    BY <1>1
<1>4. RemoveAt(seq, i) = all
    BY DEF RemoveAt
<1> HIDE DEF front, back
<1>5. /\ all \in Seq(S) /\ Len(all) = Len(seq) - 1
      /\ \A k \in 1..(i - 1) : all[k] = front[k]
      /\ \A k \in 1..(Len(seq) - 1) : k > i - 1 => all[k] = back[k - (i - 1)]
    BY <1>1, <1>2, <1>3
<1> HIDE DEF all
<1>6. ASSUME NEW k \in 1..(Len(seq) - 1)
      PROVE  all[k] = (IF k < i THEN seq[k] ELSE seq[k + 1]) /\ \E j \in 1..Len(seq) : all[k] = seq[j]
  <2>1. CASE k <= i - 1
    <3>1. k \in 1..(i - 1) /\ k \in 1..Len(seq)
      BY <1>1, <2>1
    <3> QED
      BY <1>2, <1>5, <3>1
  <2>2. CASE k > i - 1
    <3>1. all[k] = back[k - (i - 1)]
      BY <1>5, <2>2
    <3>2. k - (i - 1) \in 1..(Len(seq) - i) /\ k + 1 \in 1..Len(seq) /\ (k - (i - 1)) + i = k + 1
      BY <1>1, <2>2
    <3>3. back[k - (i - 1)] = seq[(k - (i - 1)) + i]
      BY <1>3, <3>2
    <3> QED
      BY <3>1, <3>2, <3>3
  <2>3. k <= i - 1 \/ k > i - 1
    BY <1>1
  <2> QED
    BY <2>1, <2>2, <2>3
<1>7. ToSet(all) \subseteq ToSet(seq)
  <2>1. DOMAIN all = 1..(Len(seq) - 1)
    BY <1>1, <1>5
  <2>2. DOMAIN seq = 1..Len(seq)
    BY <1>1
  <2>3. \A k \in 1..(Len(seq) - 1) : \E j \in 1..Len(seq) : all[k] = seq[j]
    BY <1>6
  <2> QED
    BY <2>1, <2>2, <2>3, Zenon DEF ToSet
<1> QED
    BY <1>4, <1>5, <1>6, <1>7

(* Remembering a tip adds its pair to the cache and no other.              *)
LEMMA RememberRange ==
    ASSUME recent \in Seq(Pair), NEW tip \in Tips, NEW s \in Streams
    PROVE  /\ Remember(tip, s) \in Seq(Pair)
           /\ ToSet(Remember(tip, s)) \subseteq ToSet(recent) \cup {<<tip, s>>}
<1> DEFINE at == {i \in DOMAIN recent : recent[i][1] = tip}
           rest == Without(tip)
           kept == IF Len(rest) >= RecentSize THEN Tail(rest) ELSE rest
<1>1. rest \in Seq(Pair) /\ ToSet(rest) \subseteq ToSet(recent)
  <2>1. CASE at = {}
    BY <2>1 DEF Without
  <2>2. CASE at # {}
    BY <2>2, RemoveAtRange DEF Without
  <2> QED
    BY <2>1, <2>2
<1>2. RecentSize \in Nat \ {0}
    BY GossipAssumption
<1>3. kept \in Seq(Pair) /\ ToSet(kept) \subseteq ToSet(rest)
  <2>1. CASE Len(rest) >= RecentSize
    <3>1. rest # <<>> /\ Len(rest) \in Nat \ {0}
      BY <1>1, <1>2, <2>1
    <3>2. /\ Tail(rest) \in Seq(Pair) /\ Len(Tail(rest)) = Len(rest) - 1
          /\ \A k \in 1..(Len(rest) - 1) : Tail(rest)[k] = rest[k + 1]
      BY <1>1, <3>1
    <3> QED
      BY <1>1, <2>1, <3>1, <3>2 DEF ToSet
  <2>2. CASE ~(Len(rest) >= RecentSize)
    BY <1>1, <2>2
  <2> QED
    BY <2>1, <2>2
<1>4. Remember(tip, s) = Append(kept, <<tip, s>>)
    BY DEF Remember
<1>5. <<tip, s>> \in Pair
    BY DEF Pair
<1> HIDE DEF kept, rest
<1>6. /\ Append(kept, <<tip, s>>) \in Seq(Pair)
      /\ Len(Append(kept, <<tip, s>>)) = Len(kept) + 1
      /\ \A k \in 1..Len(kept) : Append(kept, <<tip, s>>)[k] = kept[k]
      /\ Append(kept, <<tip, s>>)[Len(kept) + 1] = <<tip, s>>
      /\ Len(kept) \in Nat
    BY <1>3, <1>5
<1>7. ToSet(Append(kept, <<tip, s>>)) \subseteq ToSet(kept) \cup {<<tip, s>>}
    BY <1>3, <1>6 DEF ToSet
<1> QED
    BY <1>1, <1>3, <1>4, <1>6, <1>7

-----------------------------------------------------------------------------
(* Nothing is tried, cached or asked when the node starts.                 *)
LEMMA InitIInv == Init => IInv
<1> SUFFICES ASSUME Init PROVE IInv
    OBVIOUS
<1>1. TipInv
    BY DEF Init, GossipInit, TipInv, ToSet
<1>2. FeedInv
    BY DEF Init, ReconInit, FeedInv, Queued, PolledUpTo
<1>3. QueryInv
    BY GossipAssumption DEF Init, GossipInit, QueryInv, AskedOnce, OldestFirst
<1> QED
    BY <1>1, <1>2, <1>3 DEF Init, IInv

(* Only a message that names a tip touches the cache, and it tries the tip *)
(* unless the pair is in the cache.                                        *)
LEMMA HandleTipInv ==
    ASSUME TipInv, NEW tip \in Tips, NEW s \in Streams, HandleTip(tip, s)
    PROVE  TipInv'
<1>1. recent' \in Seq(Pair) /\ ToSet(recent)' \subseteq ToSet(recent) \cup {<<tip, s>>}
    BY RememberRange DEF TipInv, HandleTip
<1>2. tried \cup {<<tip, s>>} = tried'
    BY DEF TipInv, HandleTip, IsRecent
<1> QED
    BY <1>1, <1>2 DEF TipInv, HandleTip

LEMMA GossipNextInv == ASSUME TipInv, GossipNext PROVE TipInv'
<1>1. CASE UNCHANGED tipVars
    BY <1>1 DEF TipInv, tipVars
<1>2. CASE \E s \in Streams, tip \in Tips : HandleTip(tip, s)
    BY <1>2, HandleTipInv
<1>3. UNCHANGED tipVars \/ \E s \in Streams, tip \in Tips : HandleTip(tip, s)
    BY DEF GossipNext, JobDone, JobFails, UnsubscribeFails, TopicFails, Resubscribe, CloseBus,
        NextSecond, Tick, HandleQuery, Query, SyncEnds, HandleUpdate, HandleResponse
<1> QED
    BY <1>1, <1>2, <1>3

-----------------------------------------------------------------------------
(* Induction over the natural numbers, as a fact about sets: a set with 0  *)
(* in it, and with each number the next one, has them all.  The library's  *)
(* rule has a predicate as a parameter; this one follows from the pigeon-  *)
(* hole principle, as the numbers up to one that is missing, and missing   *)
(* themselves, would be as many as their predecessors.                     *)
LEMMA SetInduction ==
    ASSUME NEW S, 0 \in S, \A n \in Nat : n \in S => n + 1 \in S
    PROVE  Nat \subseteq S
<1> SUFFICES ASSUME NEW u \in Nat, u \notin S PROVE FALSE
    OBVIOUS
<1> DEFINE V == {n \in Nat : n <= u /\ n \notin S}
           T == V \ {u}
           f == [n \in V |-> n - 1]
<1>1. IsFiniteSet(V) /\ Cardinality(V) \in Nat
    BY FS_BoundedSetOfNaturals, FS_CardinalityType
<1>2. u \in V
    OBVIOUS
<1>3. IsFiniteSet(T) /\ Cardinality(T) = Cardinality(V) - 1
    BY <1>1, <1>2, FS_RemoveElement
<1>4. f \in [V -> T]
  <2> SUFFICES ASSUME NEW n \in V PROVE n - 1 \in T
    OBVIOUS
  <2>1. n # 0 /\ n \in Nat
    OBVIOUS
  <2>2. n - 1 \in Nat /\ (n - 1) + 1 = n
    BY <2>1
  <2> QED
    BY <2>1, <2>2
<1>5. Cardinality(T) < Cardinality(V)
    BY <1>1, <1>3
<1> HIDE DEF T, f
<1>6. \E x, y \in V : x # y /\ f[x] = f[y]
    BY <1>1, <1>3, <1>4, <1>5, FS_PigeonHole
<1> QED
    BY <1>6 DEF f

(* A set of natural numbers that has an element has a least one.           *)
LEMMA LeastNumber ==
    ASSUME NEW T \in SUBSET Nat, T # {}
    PROVE  Min(T) \in T /\ \A y \in T : Min(T) <= y
<1> DEFINE S == {n \in Nat : \A m \in 0..n : m \notin T}
<1>1. \E x \in T : \A y \in T : x <= y
  <2> SUFFICES ASSUME \A x \in T : \E y \in T : y < x PROVE FALSE
    OBVIOUS
  <2>1. 0 \in S
    BY Z3
  <2>2. \A n \in Nat : n \in S => n + 1 \in S
    <3> SUFFICES ASSUME NEW n \in S, n + 1 \in T PROVE FALSE
        OBVIOUS
    <3>1. PICK y \in T : y < n + 1
        OBVIOUS
    <3> QED
        BY <3>1
  <2> HIDE DEF S
  <2>3. Nat \subseteq S
    BY <2>1, <2>2, SetInduction
  <2>4. PICK x \in T : TRUE
    OBVIOUS
  <2>5. x \in 0..x /\ x \in S
    BY <2>3, <2>4
  <2> QED
    BY <2>4, <2>5 DEF S
<1> QED
    BY <1>1 DEF Min

(* What is left of a queue with its oldest entries first are its entries   *)
(* that are not expired, in the same order.                                *)
LEMMA YoungerQueue ==
    ASSUME NEW queue \in Seq(QueryEntry), OldestFirst(queue), NEW limit \in Nat
    PROVE  /\ Younger(queue, limit) \in Seq(QueryEntry)
           /\ OldestFirst(Younger(queue, limit))
           /\ \A k \in 1..Len(Younger(queue, limit)) :
                \E i \in 1..Len(queue) :
                    Younger(queue, limit)[k] = queue[i] /\ queue[i].age < limit
<1> DEFINE young == {i \in DOMAIN queue : queue[i].age < limit}
<1>1. CASE young = {}
    BY <1>1 DEF Younger, OldestFirst
<1>2. CASE young # {}
  <2>1. young \in SUBSET Nat
    OBVIOUS
  <2>2. Min(young) \in young
    BY <1>2, <2>1, LeastNumber
  <2>3. Younger(queue, limit) = SubSeq(queue, Min(young), Len(queue))
    BY <1>2 DEF Younger
  <2>4. PICK m \in 1..Len(queue) : queue[m].age < limit /\ Younger(queue, limit) = SubSeq(queue, m, Len(queue))
    <3>1. Min(young) \in 1..Len(queue) /\ queue[Min(young)].age < limit
        BY <2>2
    <3> HIDE DEF young
    <3> QED
        BY <2>3, <3>1
  <2> HIDE DEF young
  <2>5. Len(queue) \in Nat /\ m \in Nat
    OBVIOUS
  <2> DEFINE rest == SubSeq(queue, m, Len(queue))
  <2>6. /\ rest \in Seq(QueryEntry) /\ Len(rest) = Len(queue) - m + 1
        /\ \A k \in 1..Len(rest) : rest[k] = queue[m + k - 1]
    BY <2>5
  <2> HIDE DEF rest
  <2>7. \A k \in 1..Len(rest) : m + k - 1 \in 1..Len(queue) /\ m <= m + k - 1
    BY <2>5, <2>6
  <2>8. \A i \in 1..Len(queue) : queue[i] \in QueryEntry
    OBVIOUS
  <2>9. \A i \in 1..Len(queue) : queue[i].age \in Nat
    BY <2>8 DEF QueryEntry
  <2>10. ASSUME NEW i \in 1..Len(rest), NEW j \in 1..Len(rest), i <= j
         PROVE  rest[j].age <= rest[i].age
    <3>1. m + i - 1 <= m + j - 1
        BY <2>5, <2>6, <2>10
    <3> QED
        BY <2>6, <2>7, <3>1 DEF OldestFirst
  <2>11. ASSUME NEW k \in 1..Len(rest) PROVE rest[k] = queue[m + k - 1] /\ queue[m + k - 1].age < limit
    <3>1. m + k - 1 \in 1..Len(queue) /\ m <= m + k - 1
        BY <2>7
    <3>2. queue[m + k - 1].age <= queue[m].age
        BY <3>1 DEF OldestFirst
    <3>3. queue[m + k - 1].age \in Nat /\ queue[m].age \in Nat
        BY <2>9, <3>1
    <3>4. queue[m + k - 1].age < limit
        BY <2>4, <3>2, <3>3
    <3> QED
        BY <2>6, <3>4
  <2>12. OldestFirst(rest)
    BY <2>10 DEF OldestFirst
  <2>13. \A k \in 1..Len(rest) : \E i \in 1..Len(queue) : rest[k] = queue[i] /\ queue[i].age < limit
    BY <2>7, <2>11
  <2>14. Younger(queue, limit) = rest
    BY <2>4 DEF rest
  <2> QED
    BY <2>6, <2>12, <2>13, <2>14
<1> QED
    BY <1>1, <1>2

(* Taking an entry out leaves the others in their order.                   *)
LEMMA RemovedQueue ==
    ASSUME NEW queue \in Seq(QueryEntry), OldestFirst(queue), NEW f \in DOMAIN queue
    PROVE  /\ RemoveAt(queue, f) \in Seq(QueryEntry) /\ OldestFirst(RemoveAt(queue, f))
           /\ \A k \in 1..Len(RemoveAt(queue, f)) :
                \E i \in 1..Len(queue) : RemoveAt(queue, f)[k] = queue[i]
<1> DEFINE rest == RemoveAt(queue, f)
<1>1. /\ rest \in Seq(QueryEntry) /\ Len(rest) = Len(queue) - 1
      /\ \A k \in 1..(Len(queue) - 1) : rest[k] = IF k < f THEN queue[k] ELSE queue[k + 1]
    BY RemoveAtRange
<1> HIDE DEF rest
<1>2. f \in 1..Len(queue) /\ Len(queue) \in Nat
    OBVIOUS
<1>3. ASSUME NEW k \in 1..Len(rest)
      PROVE  \E i \in 1..Len(queue) : rest[k] = queue[i] /\ i = IF k < f THEN k ELSE k + 1
    BY <1>1, <1>2
<1>4. ASSUME NEW k \in 1..Len(rest), NEW l \in 1..Len(rest), k <= l
      PROVE  rest[l].age <= rest[k].age
  <2>1. PICK i \in 1..Len(queue) : rest[k] = queue[i] /\ i = IF k < f THEN k ELSE k + 1
    BY <1>3
  <2>2. PICK j \in 1..Len(queue) : rest[l] = queue[j] /\ j = IF l < f THEN l ELSE l + 1
    BY <1>3
  <2>3. i <= j
    BY <1>2, <1>4, <2>1, <2>2
  <2> QED
    BY <2>1, <2>2, <2>3 DEF OldestFirst
<1> QED
    BY <1>1, <1>3, <1>4 DEF OldestFirst, rest

(* Adding a query leaves what the others have in the map and the queue,    *)
(* but for those that are expired, and for entries that it takes out.      *)
LEMMA AddedQuery ==
    ASSUME QueryInv, NEW s \in Streams, NEW r \in Added(queryMap, queryQueue, s)
    PROVE  /\ DOMAIN r[1] = (DOMAIN queryMap \ Expired(queryQueue, Expiry)) \cup {s}
           /\ r[2] \in Seq(QueryEntry) /\ OldestFirst(r[2])
           /\ \A k \in 1..Len(r[2]) :
                \/ r[2][k] = [id |-> s, age |-> 0]
                \/ \E i \in 1..Len(queryQueue) :
                     r[2][k] = queryQueue[i] /\ queryQueue[i].age < Expiry
<1> DEFINE map == [i \in DOMAIN queryMap \ Expired(queryQueue, Expiry) |-> queryMap[i]]
           queue == Younger(queryQueue, Expiry)
           new == [id |-> s, age |-> 0]
<1>1. /\ Fresh(queryMap, queryQueue) = <<map, queue>>
      /\ Fresh(queryMap, queryQueue)[1] = map /\ Fresh(queryMap, queryQueue)[2] = queue
    BY DEF Fresh
<1>2. /\ queue \in Seq(QueryEntry) /\ OldestFirst(queue)
      /\ \A k \in 1..Len(queue) :
            \E i \in 1..Len(queryQueue) : queue[k] = queryQueue[i] /\ queryQueue[i].age < Expiry
    BY GossipAssumption, YoungerQueue DEF QueryInv
<1>3. DOMAIN map = DOMAIN queryMap \ Expired(queryQueue, Expiry)
    OBVIOUS
<1> HIDE DEF map, queue
<1>4. PICK b \in (IF s \in DOMAIN map THEN Removed(map, queue, s) ELSE {<<map, queue>>}) :
        r = <<[i \in DOMAIN b[1] \union {s} |-> IF i = s THEN 0 ELSE b[1][i]], Append(b[2], new)>>
  <2>1. PICK b \in (IF s \in DOMAIN Fresh(queryMap, queryQueue)[1]
                    THEN Removed(Fresh(queryMap, queryQueue)[1], Fresh(queryMap, queryQueue)[2], s)
                    ELSE {Fresh(queryMap, queryQueue)}) :
            r = <<[i \in DOMAIN b[1] \union {s} |-> IF i = s THEN 0 ELSE b[1][i]],
                  Append(b[2], [id |-> s, age |-> 0])>>
    BY Zenon DEF Added
  <2> QED
    BY <1>1, <2>1
<1>5. /\ DOMAIN b[1] \cup {s} = DOMAIN map \cup {s}
      /\ b[2] = queue \/ \E f \in DOMAIN queue : b[2] = RemoveAt(queue, f)
  <2>1. CASE s \in DOMAIN map /\ queue # <<>>
    <3>1. PICK f \in Fronts(queue) : b = <<[i \in DOMAIN map \ {s} |-> map[i]], RemoveAt(queue, f)>>
      BY <1>4, <2>1 DEF Removed
    <3> QED
      BY <3>1 DEF Fronts
  <2>2. CASE ~(s \in DOMAIN map /\ queue # <<>>)
    BY <1>4, <2>2 DEF Removed
  <2> QED
    BY <2>1, <2>2
<1>6. /\ b[2] \in Seq(QueryEntry) /\ OldestFirst(b[2])
      /\ \A k \in 1..Len(b[2]) : \E i \in 1..Len(queue) : b[2][k] = queue[i]
    BY <1>2, <1>5, RemovedQueue
<1> DEFINE q == b[2]
<1>7. new \in QueryEntry /\ new.age = 0
    BY DEF QueryEntry
<1>8. r[2] = Append(q, new) /\ DOMAIN r[1] = DOMAIN map \cup {s}
    BY <1>4, <1>5
<1> HIDE DEF q, new
<1>9. /\ r[2] \in Seq(QueryEntry) /\ Len(r[2]) = Len(q) + 1 /\ Len(q) \in Nat
      /\ \A k \in 1..Len(q) : r[2][k] = q[k]
      /\ r[2][Len(q) + 1] = new
    BY <1>6, <1>7, <1>8 DEF q
<1>10. \A k \in 1..Len(q) : q[k].age \in Nat
  <2>1. \A k \in 1..Len(q) : q[k] \in QueryEntry
    BY <1>6 DEF q
  <2> QED
    BY <2>1 DEF QueryEntry
<1>11. OldestFirst(r[2])
  <2>1. ASSUME NEW i \in 1..Len(r[2]), NEW j \in 1..Len(r[2]), i <= j
        PROVE  r[2][j].age <= r[2][i].age
    <3>1. CASE j <= Len(q)
      <4>1. i \in 1..Len(q) /\ j \in 1..Len(q)
        BY <1>9, <2>1, <3>1
      <4>2. q[j].age <= q[i].age
        BY <1>6, <2>1, <4>1 DEF OldestFirst, q
      <4> QED
        BY <1>9, <4>1, <4>2
    <3>2. CASE j = Len(q) + 1
      BY <1>7, <1>9, <1>10, <2>1, <3>2
    <3> QED
      BY <1>9, <3>1, <3>2
  <2> QED
    BY <2>1 DEF OldestFirst
<1>12. ASSUME NEW k \in 1..Len(r[2])
       PROVE  \/ r[2][k] = new
              \/ \E i \in 1..Len(queryQueue) : r[2][k] = queryQueue[i] /\ queryQueue[i].age < Expiry
  <2>1. CASE k = Len(q) + 1
    BY <1>9, <2>1
  <2>2. CASE k # Len(q) + 1
    <3>1. k \in 1..Len(q)
      BY <1>9, <2>2
    <3>2. PICK l \in 1..Len(queue) : q[k] = queue[l]
      BY <1>6, <3>1 DEF q
    <3> QED
      BY <1>2, <1>9, <3>1, <3>2
  <2> QED
    BY <2>1, <2>2
<1> QED
    BY <1>3, <1>8, <1>9, <1>11, <1>12 DEF new

(* A query leaves every other one, that no query replaced, as it is.       *)
LEMMA QueryKeeps ==
    ASSUME QueryInv, NEW s \in Streams, Query(s)
    PROVE  QueryInv'
<1>1. PICK r \in Added(queryMap, queryQueue, s) : queryMap' = r[1] /\ queryQueue' = r[2]
    BY DEF Query
<1>2. /\ asked' = [asked EXCEPT ![s] = 0]
      /\ again' = IF s \in DOMAIN queryMap \ Expired(queryQueue, Expiry) THEN again \cup {s} ELSE again
    BY DEF Query, Fresh
<1>3. /\ DOMAIN queryMap' = (DOMAIN queryMap \ Expired(queryQueue, Expiry)) \cup {s}
      /\ queryQueue' \in Seq(QueryEntry) /\ OldestFirst(queryQueue')
      /\ \A k \in 1..Len(queryQueue') :
            \/ queryQueue'[k] = [id |-> s, age |-> 0]
            \/ \E i \in 1..Len(queryQueue) :
                 queryQueue'[k] = queryQueue[i] /\ queryQueue[i].age < Expiry
    BY <1>1, AddedQuery
<1>4. asked' \in [Streams -> Nat] /\ asked'[s] = 0 /\ \A t \in Streams : t # s => asked'[t] = asked[t]
    BY <1>2 DEF QueryInv
<1>5. Expiry \in Nat /\ Expiry > 0
    BY GossipAssumption
<1>6. ASSUME NEW t \in Streams \ again, asked[t] < Expiry
      PROVE  t \in DOMAIN queryMap \ Expired(queryQueue, Expiry)
  <2>1. t \in DOMAIN queryMap /\ DOMAIN queryQueue = 1..Len(queryQueue)
    BY <1>6 DEF QueryInv, AskedOnce
  <2>2. t \notin Expired(queryQueue, Expiry)
    <3> SUFFICES ASSUME NEW i \in 1..Len(queryQueue), queryQueue[i].id = t, queryQueue[i].age >= Expiry
                 PROVE  FALSE
      BY <2>1 DEF Expired
    <3> QED
      BY <1>5, <1>6 DEF QueryInv, AskedOnce
  <2> QED
    BY <2>1, <2>2
<1>7. ASSUME NEW t \in Streams \ again' PROVE AskedOnce(t)'
  <2>1. t \in Streams \ again /\ (t = s => s \notin DOMAIN queryMap \ Expired(queryQueue, Expiry))
    BY <1>2, <1>7
  <2>2. CASE t = s
    <3>1. ~(asked[s] < Expiry)
      BY <1>6, <2>1, <2>2
    <3>2. ASSUME NEW k \in 1..Len(queryQueue'), queryQueue'[k].id = s
          PROVE  queryQueue'[k].age = asked'[s]
      <4>1. CASE queryQueue'[k] = [id |-> s, age |-> 0]
        BY <1>4, <4>1
      <4>2. ASSUME NEW i \in 1..Len(queryQueue), queryQueue'[k] = queryQueue[i], queryQueue[i].age < Expiry
            PROVE  FALSE
        BY <2>1, <2>2, <3>1, <3>2, <4>2 DEF QueryInv, AskedOnce
      <4> QED
        BY <1>3, <4>1, <4>2
    <3> QED
      BY <1>3, <2>2, <3>2 DEF AskedOnce
  <2>3. CASE t # s
    <3>1. ASSUME NEW k \in 1..Len(queryQueue'), queryQueue'[k].id = t
          PROVE  queryQueue'[k].age = asked'[t]
      <4>1. PICK i \in 1..Len(queryQueue) : queryQueue'[k] = queryQueue[i]
        BY <1>3, <2>3, <3>1
      <4> QED
        BY <1>4, <2>1, <2>3, <3>1, <4>1 DEF QueryInv, AskedOnce
    <3>2. asked'[t] < Expiry => t \in DOMAIN queryMap'
      BY <1>3, <1>4, <1>6, <2>1, <2>3
    <3> QED
      BY <3>1, <3>2 DEF AskedOnce
  <2> QED
    BY <2>2, <2>3
<1> QED
    BY <1>3, <1>4, <1>7 DEF QueryInv

(* Time makes a query and its entry older by the same.                     *)
LEMMA TickKeeps ==
    ASSUME QueryInv, Tick
    PROVE  QueryInv'
<1> DEFINE grown(a) == Grow(a, Expiry)
<1>1. /\ DOMAIN queryMap' = DOMAIN queryMap
      /\ queryQueue' = [i \in DOMAIN queryQueue |-> [queryQueue[i] EXCEPT !.age = grown(@)]]
      /\ asked' = [s \in Streams |-> grown(asked[s])]
      /\ again' = again
    BY DEF Tick
<1>2. Expiry \in Nat
    BY GossipAssumption
<1>3. /\ \A a \in Nat : grown(a) \in Nat /\ (grown(a) < Expiry => a < Expiry)
      /\ \A a, b \in Nat : a <= b => grown(a) <= grown(b)
    BY <1>2 DEF Grow, Smaller
<1> HIDE DEF grown
<1>4. /\ queryQueue \in Seq(QueryEntry) /\ DOMAIN queryQueue = 1..Len(queryQueue)
      /\ Len(queryQueue) \in Nat
      /\ \A i \in 1..Len(queryQueue) : queryQueue[i] \in QueryEntry
    BY DEF QueryInv
<1>5. \A i \in 1..Len(queryQueue) :
        /\ queryQueue'[i] = [queryQueue[i] EXCEPT !.age = grown(queryQueue[i].age)]
        /\ queryQueue'[i] \in QueryEntry
        /\ queryQueue'[i].id = queryQueue[i].id
        /\ queryQueue'[i].age = grown(queryQueue[i].age) /\ queryQueue[i].age \in Nat
    BY <1>1, <1>3, <1>4 DEF QueryEntry
<1>6. queryQueue' \in Seq(QueryEntry) /\ Len(queryQueue') = Len(queryQueue)
  <2>1. queryQueue' \in [1..Len(queryQueue) -> QueryEntry]
    BY <1>1, <1>4, <1>5
  <2> QED
    BY <1>4, <2>1
<1>7. OldestFirst(queryQueue')
  <2>1. OldestFirst(queryQueue)
    BY DEF QueryInv
  <2>2. ASSUME NEW i \in 1..Len(queryQueue), NEW j \in 1..Len(queryQueue), i <= j
        PROVE  queryQueue'[j].age <= queryQueue'[i].age
    <3>1. queryQueue[j].age <= queryQueue[i].age /\ queryQueue[j].age \in Nat /\ queryQueue[i].age \in Nat
      BY <1>5, <2>1, <2>2 DEF OldestFirst
    <3>2. grown(queryQueue[j].age) <= grown(queryQueue[i].age)
      BY <1>3, <3>1
    <3> QED
      BY <1>5, <3>2
  <2> QED
    BY <1>6, <2>2 DEF OldestFirst
<1>8. asked' \in [Streams -> Nat]
    BY <1>1, <1>3 DEF QueryInv
<1>9. ASSUME NEW s \in Streams \ again PROVE AskedOnce(s)'
    BY <1>1, <1>3, <1>5, <1>6 DEF QueryInv, AskedOnce
<1> QED
    BY <1>1, <1>6, <1>7, <1>8, <1>9 DEF QueryInv

LEMMA QueryNextInv == ASSUME QueryInv, GossipNext PROVE QueryInv'
<1>1. CASE UNCHANGED queryVars
    BY <1>1 DEF QueryInv, AskedOnce, queryVars
<1>2. UNCHANGED queryVars \/ Tick \/ \E s \in Streams : Query(s)
    BY DEF GossipNext, JobDone, JobFails, UnsubscribeFails, TopicFails, Resubscribe, CloseBus,
        NextSecond, HandleQuery, SyncEnds, HandleUpdate, HandleResponse
<1> QED
    BY <1>1, <1>2, TickKeeps, QueryKeeps

-----------------------------------------------------------------------------
(* Starting, failing and stopping leaves the events behind the cursor.     *)
LEMMA ReconNextInv == ASSUME FeedInv, ReconNext PROVE FeedInv'
<1>1. CASE Start
    BY <1>1 DEF FeedInv, Start, Queued, PolledUpTo
<1>2. CASE VerifyNetwork \/ WrongNetwork \/ RegisterInterest \/ InterestFails \/ Subscribe \/ Stop \/ NewEvent
    BY <1>2 DEF FeedInv, VerifyNetwork, WrongNetwork, RegisterInterest, InterestFails, Subscribe,
        Stop, NewEvent, Queued, PolledUpTo
<1>3. CASE Restart
    BY <1>3 DEF FeedInv, Restart, Queued, PolledUpTo
<1>4. CASE Poll
  <2> DEFINE last == IF events - position > Limit THEN position + Limit ELSE events
             new == [first |-> position + 1, cursor |-> last]
  <2>1. last \in Nat /\ new \in Batch /\ position = PolledUpTo
    BY <1>4, ReconAssumption DEF FeedInv, Poll, Batch
  <2>2. /\ batches' = Append(batches, new) /\ position' = last
        /\ UNCHANGED <<life, events, done, cursor, attempted>>
    BY <1>4 DEF Poll
  <2> HIDE DEF last
  <2>3. /\ batches' \in Seq(Batch) /\ Len(batches') = Len(batches) + 1 /\ Len(batches) \in Nat
        /\ \A i \in 1..Len(batches) : batches'[i] = batches[i]
        /\ batches'[Len(batches) + 1] = new
    BY <2>1, <2>2 DEF FeedInv
  <2>4. Queued'
    <3> SUFFICES ASSUME NEW i \in 1..Len(batches')
                 PROVE  batches'[i].first = 1 + (IF i = 1 THEN cursor' ELSE batches'[i - 1].cursor)
      BY <2>3 DEF Queued, FeedInv
    <3>1. CASE i \in 1..Len(batches)
      BY <2>2, <2>3, <3>1 DEF FeedInv, Queued
    <3>2. CASE i = Len(batches) + 1
      BY <2>1, <2>2, <2>3, <3>2 DEF FeedInv, PolledUpTo
    <3> QED
      BY <2>3, <3>1, <3>2
  <2>5. batches' # <<>> /\ batches'[1].first = cursor + 1
    BY <2>1, <2>2, <2>3, <2>4 DEF FeedInv, PolledUpTo, Queued
  <2>6. PolledUpTo' = position'
    BY <2>2, <2>3, <2>5 DEF PolledUpTo
  <2> QED
    BY <1>4, <2>1, <2>2, <2>3, <2>4, <2>5, <2>6 DEF FeedInv, Poll
<1>5. CASE HandleEvent
  <2>1. /\ batches[1].first = cursor + 1
        /\ attempted' = attempted \cup {cursor + 1 + done} /\ done' = done + 1
        /\ UNCHANGED <<life, events, position, batches, cursor>>
    BY <1>5 DEF HandleEvent, FeedInv
  <2>2. \A n \in 1..(cursor + done') : n \in attempted'
    BY <2>1 DEF FeedInv
  <2>3. Queued' /\ PolledUpTo' = PolledUpTo /\ batches # <<>>
    BY <1>5, <2>1 DEF FeedInv, Queued, PolledUpTo, HandleEvent
  <2> QED
    BY <2>1, <2>2, <2>3 DEF FeedInv
<1>6. CASE StoreCursor
  <2>1. /\ batches # <<>> /\ batches[1].first = cursor + 1
        /\ cursor + 1 + done > batches[1].cursor /\ cursor' = batches[1].cursor
        /\ batches' = Tail(batches) /\ done' = 0
        /\ UNCHANGED <<life, events, position, attempted>>
    BY <1>6 DEF StoreCursor, FeedInv
  <2>2. /\ batches' \in Seq(Batch) /\ Len(batches') = Len(batches) - 1 /\ Len(batches) \in Nat \ {0}
        /\ \A i \in 1..Len(batches') : batches'[i] = batches[i + 1]
        /\ \A i \in 1..Len(batches) : batches[i] \in Batch
    BY <2>1 DEF FeedInv
  <2>3. cursor' \in Nat /\ \A n \in 1..cursor' : n \in attempted'
    BY <2>1, <2>2 DEF FeedInv, Batch
  <2>4. Queued'
    <3> SUFFICES ASSUME NEW i \in 1..Len(batches')
                 PROVE  batches'[i].first = 1 + (IF i = 1 THEN cursor' ELSE batches'[i - 1].cursor)
      BY <2>2 DEF Queued, FeedInv
    <3>1. i + 1 \in 1..Len(batches) /\ i + 1 # 1 /\ batches'[i] = batches[i + 1]
      BY <2>2
    <3>2. DOMAIN batches = 1..Len(batches) /\ (i + 1) - 1 = i
      BY <2>1, <2>2 DEF FeedInv
    <3>3. batches[i + 1].first = 1 + batches[i].cursor
      BY <3>1, <3>2 DEF FeedInv, Queued
    <3> QED
      <4>1. CASE i = 1
        BY <2>1, <3>1, <3>3, <4>1
      <4>2. CASE i # 1
        <5>1. i - 1 \in 1..Len(batches') /\ (i - 1) + 1 = i
          BY <2>2, <4>2
        <5>2. batches'[i - 1] = batches[i]
          BY <2>2, <5>1
        <5> QED
          BY <3>1, <3>3, <4>2, <5>2
      <4> QED
        BY <4>1, <4>2
  <2>5. batches' # <<>> => batches'[1].first = cursor' + 1
    BY <2>2, <2>3, <2>4 DEF Queued, Batch
  <2>6. PolledUpTo' = PolledUpTo
    <3>1. CASE Len(batches) = 1
      BY <2>1, <2>2, <3>1 DEF PolledUpTo
    <3>2. CASE Len(batches) # 1
      <4>1. Len(batches') \in 1..Len(batches') /\ Len(batches') + 1 = Len(batches) /\ batches' # <<>>
        BY <2>2, <3>2
      <4>2. batches'[Len(batches')] = batches[Len(batches)]
        BY <2>2, <4>1
      <4> QED
        BY <2>1, <4>1, <4>2 DEF PolledUpTo
    <3> QED
      BY <3>1, <3>2
  <2> QED
    BY <2>1, <2>2, <2>3, <2>4, <2>5, <2>6 DEF FeedInv
<1> QED
    BY <1>1, <1>2, <1>3, <1>4, <1>5, <1>6 DEF ReconNext

-----------------------------------------------------------------------------
LEMMA NextIInv == IInv /\ [Next]_vars => IInv'
<1> SUFFICES ASSUME IInv, [Next]_vars PROVE IInv'
    OBVIOUS
<1>1. ASSUME UNCHANGED gossipVars PROVE TipInv' /\ QueryInv'
    BY <1>1 DEF IInv, TipInv, QueryInv, AskedOnce, gossipVars, tipVars, queryVars
<1>2. ASSUME UNCHANGED reconVars PROVE FeedInv'
    BY <1>2 DEF IInv, FeedInv, reconVars, Queued, PolledUpTo
<1>3. CASE UNCHANGED vars
    BY <1>1, <1>2, <1>3 DEF vars, IInv
<1>4. CASE Next
    BY <1>1, <1>2, <1>4, GossipNextInv, QueryNextInv, ReconNextInv DEF Next, IInv
<1> QED
    BY <1>3, <1>4

(* The invariant of the node: what is recent was tried, a query is as old  *)
(* as its entry, the batches that wait join the cursor to the next poll.   *)
THEOREM InductiveInvariant == Spec => []IInv
BY InitIInv, NextIInv, PTL DEF Spec

(* Every pair of a stream and a tip named in a message the node takes was  *)
(* handed to the repository, with any streams, tips and size of the cache. *)
THEOREM TipsAreTried == Spec => []EveryTipIsTried
<1>1. IInv => EveryTipIsTried
    BY DEF IInv, TipInv, EveryTipIsTried
<1> QED
    BY <1>1, InductiveInvariant, PTL

(* The answer to a query that no other replaced is taken until the query   *)
(* is too old, whatever becomes of the queries for other streams.          *)
THEOREM LateAnswersAreHandled == Spec => []LateAnswersAreTaken
<1>1. IInv => LateAnswersAreTaken
    BY DEF IInv, QueryInv, AskedOnce, LateAnswersAreTaken
<1> QED
    BY <1>1, InductiveInvariant, PTL

(* The stored cursor of the feed passes no event that was not tried, over  *)
(* any number of failures and restarts.                                    *)
THEOREM CursorPassesNothing == Spec => []CursorCovered
<1>1. IInv => CursorCovered
    BY DEF IInv, FeedInv, CursorCovered
<1> QED
    BY <1>1, InductiveInvariant, PTL
=============================================================================
