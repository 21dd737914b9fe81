------------------------- MODULE ApplicationsProofs -------------------------
(***************************************************************************)
(* Subscribers are served, and nothing is kept for nobody, for any         *)
(* streams, subscribers, loads and limit of the cache; daemons and         *)
(* commands run as they were configured, for any habits of operators.      *)
(***************************************************************************)
EXTENDS Applications, TLAPS

(***************************************************************************)
(* Subscriptions.                                                          *)
(***************************************************************************)
RunningStates == Stream \X (Nat \ {0})
OnePerStream(bucket) ==
    \A i, j \in DOMAIN bucket : bucket[i][1] = bucket[j][1] => i = j

(* The buckets have what was made, each stream once.                       *)
Buckets ==
    /\ made \in [Stream -> Nat] /\ durable \in [Stream -> Nat]
    /\ completed \subseteq RunningStates
    /\ volatile \in Seq(RunningStates) /\ Len(volatile) =< Limit
    /\ OnePerStream(volatile)
    /\ \A e \in ToSet(volatile) \cup completed : e[2] =< made[e[1]]
    /\ \A s \in Stream : durable[s] =< made[s]

(* Who reads has the lane; who is tracked is subscribed, or left early.    *)
Actors ==
    /\ ref \in [Actor -> Nat]
    /\ lane \in [Stream -> Actor \cup {NoActor}]
    /\ pc \in [Actor -> {"start", "reading", "attaching", "subscribed", "done"}]
    /\ tracked \subseteq Actor /\ closed \subseteq Actor
    /\ \A s \in Stream : lane[s] # NoActor => StreamOf[lane[s]] = s
    /\ \A a \in Actor :
        /\ ref[a] =< made[StreamOf[a]]
        /\ pc[a] \in {"start", "reading"} => ref[a] = 0
        /\ pc[a] = "reading" <=> lane[StreamOf[a]] = a
        /\ pc[a] \in {"attaching", "subscribed"} => Kind[a] = "subscribe"
        /\ pc[a] = "subscribed" => a \in tracked \cup closed
        /\ a \in tracked => pc[a] = "subscribed" \/ (pc[a] = "done" /\ a \in closed)

(* Whoever has looked up a stream and is about to attach itself has found  *)
(* what memory holds, or what memory has evicted since and nothing else    *)
(* has replaced; or it found nothing where nobody else looks.              *)
FindsAreGood(s) ==
    \A a \in Actor : StreamOf[a] = s /\ pc[a] = "attaching" =>
        \/ ref[a] # 0 /\ Get(s) = ref[a]
        \/ ref[a] # 0 /\ Get(s) = 0 /\ <<s, ref[a]>> \in completed
        \/ ref[a] = 0 /\ s \notin Stored

(* All who hold a stream hold the same RunningState; they hold none that   *)
(* is alive while somebody looks for it elsewhere.                         *)
OneForAll(s) ==
    /\ \A a, b \in Actor :
        /\ StreamOf[a] = s /\ pc[a] \in {"attaching", "subscribed"}
        /\ StreamOf[b] = s /\ pc[b] \in {"attaching", "subscribed"}
        => ref[a] = ref[b]
    /\ lane[s] # NoActor => \A a \in Actor : StreamOf[a] = s =>
        /\ pc[a] # "subscribed"
        /\ pc[a] = "attaching" => <<s, ref[a]>> \in completed

(* What is subscribed to is in the durable bucket and nowhere else.        *)
SubscribedIsDurable(s) ==
    /\ \A a \in Actor : StreamOf[a] = s /\ Attached(a) =>
        /\ a \in tracked \ closed
        /\ ref[a] # 0 /\ durable[s] = ref[a]
        /\ <<s, ref[a]>> \notin completed
        /\ \A e \in ToSet(volatile) : e[1] # s
    /\ \A e \in ToSet(volatile) : e[1] = s => SubscriptionSet(s, e[2]) = {}
    /\ durable[s] # 0 /\ LeftBehind(s) = {} =>
        \E a \in Actor : Attached(a) /\ StreamOf[a] = s /\ ref[a] = durable[s]

Served(s) == FindsAreGood(s) /\ OneForAll(s) /\ SubscribedIsDurable(s)

IInv == Buckets /\ Actors /\ \A s \in Stream : Undisturbed(s) => Served(s)

-----------------------------------------------------------------------------
(* Taking an element out of a sequence adds none (SequencesExt.RemoveAt).  *)
LEMMA RemoveAtRange ==
    ASSUME NEW S, NEW seq \in Seq(S), NEW i \in DOMAIN seq
    PROVE  /\ RemoveAt(seq, i) \in Seq(S) /\ ToSet(RemoveAt(seq, i)) \subseteq ToSet(seq)
           /\ Len(RemoveAt(seq, i)) = Len(seq) - 1
           /\ \A k \in 1..(Len(seq) - 1) :
                  RemoveAt(seq, i)[k] = IF k < i THEN seq[k] ELSE seq[k + 1]
<1> DEFINE front == SubSeq(seq, 1, i - 1)
           back  == SubSeq(seq, i + 1, Len(seq))
           all   == front \o back
<1>1. /\ i \in 1..Len(seq) /\ Len(seq) \in Nat
      /\ \A k \in 1..Len(seq) : seq[k] \in S
    OBVIOUS
<1>2. /\ front \in Seq(S) /\ Len(front) = i - 1
      /\ \A k \in 1..(i - 1) : front[k] = seq[k]
    BY <1>1
<1>3. /\ back \in Seq(S) /\ Len(back) = Len(seq) - i
      /\ \A k \in 1..(Len(seq) - i) : back[k] = seq[k + i]
    BY <1>1
<1>4. RemoveAt(seq, i) = all
    BY DEF RemoveAt
<1> HIDE DEF front, back
<1>5. /\ all \in Seq(S) /\ Len(all) = Len(seq) - 1
      /\ \A k \in 1..(i - 1) : all[k] = front[k]
      /\ \A k \in 1..(Len(seq) - 1) : k > i - 1 => all[k] = back[k - (i - 1)]
    BY <1>1, <1>2, <1>3
<1> HIDE DEF all
<1>6. ASSUME NEW k \in 1..(Len(seq) - 1)
      PROVE  all[k] = (IF k < i THEN seq[k] ELSE seq[k + 1]) /\ \E j \in 1..Len(seq) : all[k] = seq[j]
  <2>1. CASE k <= i - 1
    <3>1. k \in 1..(i - 1) /\ k \in 1..Len(seq)
      BY <1>1, <2>1
    <3> QED
      BY <1>2, <1>5, <3>1
  <2>2. CASE k > i - 1
    <3>1. all[k] = back[k - (i - 1)]
      BY <1>5, <2>2
    <3>2. k - (i - 1) \in 1..(Len(seq) - i) /\ k + 1 \in 1..Len(seq) /\ (k - (i - 1)) + i = k + 1
      BY <1>1, <2>2
    <3>3. back[k - (i - 1)] = seq[(k - (i - 1)) + i]
      BY <1>3, <3>2
    <3> QED
      BY <3>1, <3>2, <3>3
  <2>3. k <= i - 1 \/ k > i - 1
    BY <1>1
  <2> QED
    BY <2>1, <2>2, <2>3
<1>7. ToSet(all) \subseteq ToSet(seq)
  <2>1. DOMAIN all = 1..(Len(seq) - 1)
    BY <1>1, <1>5
  <2>2. DOMAIN seq = 1..Len(seq)
    BY <1>1
  <2>3. \A k \in 1..(Len(seq) - 1) : \E j \in 1..Len(seq) : all[k] = seq[j]
    BY <1>6
  <2> QED
    BY <2>1, <2>2, <2>3, Zenon DEF ToSet
<1> QED
    BY <1>4, <1>5, <1>6, <1>7

(* A bucket without a stream has all the other entries.                    *)
LEMMA WithoutRange ==
    ASSUME NEW S, NEW bucket \in Seq(S), OnePerStream(bucket), NEW s
    PROVE  /\ Without(bucket, s) \in Seq(S) /\ OnePerStream(Without(bucket, s))
           /\ Len(Without(bucket, s)) =< Len(bucket)
           /\ (\E e \in ToSet(bucket) : e[1] = s) => Len(Without(bucket, s)) < Len(bucket)
           /\ ToSet(Without(bucket, s)) = {e \in ToSet(bucket) : e[1] # s}
<1>0. Len(bucket) \in Nat /\ DOMAIN bucket = 1..Len(bucket)
    OBVIOUS
<1>1. CASE ~\E i \in DOMAIN bucket : bucket[i][1] = s
  <2>1. Without(bucket, s) = bucket
    BY <1>1 DEF Without
  <2> QED
    BY <1>0, <1>1, <2>1 DEF ToSet
<1>2. CASE \E i \in DOMAIN bucket : bucket[i][1] = s
  <2> DEFINE f == CHOOSE i \in DOMAIN bucket : bucket[i][1] = s
             rest == RemoveAt(bucket, f)
  <2>1. f \in DOMAIN bucket /\ bucket[f][1] = s
    BY <1>2
  <2>2. Without(bucket, s) = rest
    BY <1>2 DEF Without
  <2> HIDE DEF f
  <2>3. /\ rest \in Seq(S) /\ Len(rest) = Len(bucket) - 1
        /\ \A k \in 1..(Len(bucket) - 1) : rest[k] = IF k < f THEN bucket[k] ELSE bucket[k + 1]
    BY <2>1, RemoveAtRange
  <2> HIDE DEF rest
  <2>4. DOMAIN rest = 1..(Len(bucket) - 1)
    BY <1>0, <2>3
  <2>5. ASSUME NEW k \in DOMAIN rest
        PROVE  \E i \in DOMAIN bucket \ {f} : rest[k] = bucket[i] /\ i = IF k < f THEN k ELSE k + 1
    BY <1>0, <2>1, <2>3, <2>4
  <2>6. ASSUME NEW i \in DOMAIN bucket \ {f}
        PROVE  \E k \in DOMAIN rest : rest[k] = bucket[i]
    <3> DEFINE k == IF i < f THEN i ELSE i - 1
    <3>1. k \in 1..(Len(bucket) - 1) /\ (IF k < f THEN k ELSE k + 1) = i
      BY <1>0, <2>1
    <3>2. rest[k] = bucket[i]
      BY <2>3, <3>1
    <3> QED
      BY <2>4, <3>1, <3>2
  <2>7. ASSUME NEW k \in DOMAIN rest, NEW l \in DOMAIN rest, rest[k][1] = rest[l][1]
        PROVE  k = l
    <3>1. PICK i \in DOMAIN bucket \ {f} : rest[k] = bucket[i] /\ i = IF k < f THEN k ELSE k + 1
      BY <2>5
    <3>2. PICK j \in DOMAIN bucket \ {f} : rest[l] = bucket[j] /\ j = IF l < f THEN l ELSE l + 1
      BY <2>5
    <3>3. i = j
      BY <2>7, <3>1, <3>2 DEF OnePerStream
    <3> QED
      BY <1>0, <2>1, <2>4, <3>1, <3>2, <3>3
  <2>8. \A i \in DOMAIN bucket : bucket[i][1] # s <=> i # f
    BY <2>1 DEF OnePerStream
  <2>9. ToSet(rest) = {e \in ToSet(bucket) : e[1] # s}
    BY <2>5, <2>6, <2>8 DEF ToSet
  <2> QED
    BY <1>0, <2>1, <2>2, <2>3, <2>7, <2>9 DEF OnePerStream
<1> QED
    BY <1>1, <1>2

(* The bucket in which <<s, k>> was used has it and what it had of other   *)
(* streams, but for the entry that is evicted.                             *)
LEMMA KeptRange ==
    ASSUME volatile \in Seq(RunningStates), OnePerStream(volatile), Limit \in Nat \ {0},
           Len(volatile) =< Limit, NEW s \in Stream, NEW k \in Nat \ {0}
    PROVE  /\ Used(s, k) \in Seq(RunningStates) /\ OnePerStream(Used(s, k))
           /\ ToSet(Used(s, k)) = {e \in ToSet(volatile) : e[1] # s} \cup {<<s, k>>}
           /\ (\E e \in ToSet(volatile) : e[1] = s) => Len(Used(s, k)) =< Limit
           /\ Kept(s, k) \in Seq(RunningStates) /\ OnePerStream(Kept(s, k))
           /\ Len(Kept(s, k)) =< Limit
           /\ Evicted(s, k) \subseteq {e \in ToSet(volatile) : e[1] # s}
           /\ ToSet(Kept(s, k)) = ToSet(Used(s, k)) \ Evicted(s, k)
<1> DEFINE rest == Without(volatile, s)
           used == Append(rest, <<s, k>>)
<1>1. /\ rest \in Seq(RunningStates) /\ OnePerStream(rest) /\ Len(rest) =< Len(volatile)
      /\ ToSet(rest) = {e \in ToSet(volatile) : e[1] # s}
      /\ (\E e \in ToSet(volatile) : e[1] = s) => Len(rest) < Len(volatile)
    BY WithoutRange
<1>2. Used(s, k) = used
    BY DEF Used
<1> HIDE DEF rest
<1>3. Len(rest) \in Nat /\ DOMAIN rest = 1..Len(rest) /\ <<s, k>> \in RunningStates
    BY <1>1 DEF RunningStates
<1>4. /\ used \in Seq(RunningStates) /\ Len(used) = Len(rest) + 1
      /\ DOMAIN used = 1..(Len(rest) + 1)
      /\ \A i \in 1..Len(rest) : used[i] = rest[i]
      /\ used[Len(rest) + 1] = <<s, k>>
    BY <1>1, <1>3
<1> HIDE DEF used
<1>5. ToSet(used) = {e \in ToSet(volatile) : e[1] # s} \cup {<<s, k>>}
  <2>1. ToSet(used) = ToSet(rest) \cup {<<s, k>>}
    <3>1. \A i \in DOMAIN used : i \in DOMAIN rest \/ i = Len(rest) + 1
      BY <1>3, <1>4
    <3>2. DOMAIN rest \subseteq DOMAIN used /\ Len(rest) + 1 \in DOMAIN used
      BY <1>3, <1>4
    <3> QED
      BY <1>3, <1>4, <3>1, <3>2 DEF ToSet
  <2> QED
    BY <1>1, <2>1
<1>6. \A i \in DOMAIN rest : rest[i][1] # s
    BY <1>1 DEF ToSet
<1>7. OnePerStream(used)
  <2> SUFFICES ASSUME NEW i \in DOMAIN used, NEW j \in DOMAIN used, used[i][1] = used[j][1]
               PROVE  i = j
    BY DEF OnePerStream
  <2>1. CASE i \in 1..Len(rest) /\ j \in 1..Len(rest)
    BY <1>1, <1>3, <1>4, <2>1 DEF OnePerStream
  <2>2. CASE i = Len(rest) + 1 /\ j \in 1..Len(rest)
    BY <1>3, <1>4, <1>6, <2>2
  <2>3. CASE j = Len(rest) + 1 /\ i \in 1..Len(rest)
    BY <1>3, <1>4, <1>6, <2>3
  <2> QED
    BY <1>3, <1>4, <2>1, <2>2, <2>3
<1>10. (\E e \in ToSet(volatile) : e[1] = s) => Len(used) =< Limit
    BY <1>1, <1>3, <1>4
<1>8. CASE ~(Len(used) > Limit)
  <2>1. Evicted(s, k) = {} /\ Kept(s, k) = used
    BY <1>2, <1>8 DEF Evicted, Kept
  <2> QED
    BY <1>2, <1>4, <1>5, <1>7, <1>8, <1>10, <2>1
<1>9. CASE Len(used) > Limit
  <2> DEFINE kept == Tail(used)
  <2>1. Evicted(s, k) = {used[1]} /\ Kept(s, k) = kept
    BY <1>2, <1>4, <1>9 DEF Evicted, Kept
  <2>2. Len(rest) >= 1 /\ Len(rest) =< Limit
    BY <1>1, <1>3, <1>4, <1>9
  <2>3. /\ kept \in Seq(RunningStates) /\ Len(kept) = Len(rest)
        /\ DOMAIN kept = 1..Len(rest)
        /\ \A i \in 1..Len(rest) : kept[i] = used[i + 1]
    BY <1>3, <1>4, <2>2
  <2> HIDE DEF kept
  <2>4. used[1] \in {e \in ToSet(volatile) : e[1] # s}
    <3>1. 1 \in DOMAIN rest /\ used[1] = rest[1]
      BY <1>3, <1>4, <2>2
    <3>2. rest[1] \in ToSet(rest)
      BY <3>1 DEF ToSet
    <3> QED
      BY <1>1, <3>1, <3>2
  <2>5. OnePerStream(kept)
    <3> SUFFICES ASSUME NEW i \in DOMAIN kept, NEW j \in DOMAIN kept, kept[i][1] = kept[j][1]
                 PROVE  i = j
      BY DEF OnePerStream
    <3>1. i + 1 \in DOMAIN used /\ j + 1 \in DOMAIN used
      BY <1>3, <1>4, <2>3
    <3>2. i + 1 = j + 1
      BY <1>7, <2>3, <3>1 DEF OnePerStream
    <3> QED
      BY <1>3, <2>3, <3>2
  <2>6. ToSet(kept) = ToSet(used) \ {used[1]}
    <3>1. ASSUME NEW i \in DOMAIN kept PROVE \E j \in DOMAIN used : kept[i] = used[j] /\ used[j] # used[1]
      <4>1. i + 1 \in DOMAIN used /\ 1 \in DOMAIN used /\ i + 1 # 1
        BY <1>3, <1>4, <2>3
      <4>2. used[i + 1][1] # used[1][1]
        BY <1>7, <4>1 DEF OnePerStream
      <4> QED
        BY <2>3, <4>1, <4>2
    <3>2. ASSUME NEW j \in DOMAIN used, used[j] # used[1] PROVE \E i \in DOMAIN kept : kept[i] = used[j]
      <4>1. j - 1 \in DOMAIN kept /\ (j - 1) + 1 = j
        BY <1>3, <1>4, <2>3, <3>2
      <4>2. kept[j - 1] = used[j]
        BY <2>3, <4>1
      <4> QED
        BY <4>1, <4>2
    <3> QED
      BY <3>1, <3>2 DEF ToSet
  <2> QED
    BY <1>2, <1>4, <1>5, <1>7, <1>10, <2>1, <2>2, <2>3, <2>4, <2>5, <2>6
<1> QED
    BY <1>3, <1>4, <1>8, <1>9

(* The one entry of a stream is what is found in a bucket.                 *)
LEMMA EntryIsFound ==
    ASSUME NEW bucket, OnePerStream(bucket), NEW s, NEW k, <<s, k>> \in ToSet(bucket)
    PROVE  (CHOOSE e \in ToSet(bucket) : e[1] = s) = <<s, k>>
<1> DEFINE found == CHOOSE e \in ToSet(bucket) : e[1] = s
<1>1. <<s, k>>[1] = s
    OBVIOUS
<1>2. found \in ToSet(bucket) /\ found[1] = s
    BY <1>1
<1> HIDE DEF found
<1>3. PICK i \in DOMAIN bucket : bucket[i] = <<s, k>>
    BY DEF ToSet
<1>4. PICK j \in DOMAIN bucket : bucket[j] = found
    BY <1>2 DEF ToSet
<1>5. i = j
    BY <1>1, <1>2, <1>3, <1>4 DEF OnePerStream
<1> QED
    BY <1>3, <1>4, <1>5 DEF found

(* What memory has of a stream.                                            *)
MemoryOf(s) ==
    /\ Get(s) \in Nat /\ Get(s) =< made[s]
    /\ durable[s] # 0 => Get(s) = durable[s]
    /\ durable[s] = 0 /\ Get(s) # 0 => <<s, Get(s)>> \in ToSet(volatile)
    /\ durable[s] = 0 => \A e \in ToSet(volatile) : e[1] = s => Get(s) = e[2]

LEMMA GetIs == Buckets => \A s \in Stream : MemoryOf(s)
<1> SUFFICES ASSUME Buckets, NEW s \in Stream PROVE MemoryOf(s)
    OBVIOUS
<1>1. durable[s] \in Nat /\ made[s] \in Nat /\ durable[s] =< made[s]
    BY DEF Buckets
<1>2. ToSet(volatile) \subseteq RunningStates
    BY DEF Buckets, ToSet
<1>3. ASSUME NEW e \in ToSet(volatile), e[1] = s, durable[s] = 0
      PROVE  Get(s) = e[2] /\ e = <<s, e[2]>> /\ e[2] \in Nat \ {0} /\ e[2] =< made[s]
  <2>1. e = <<s, e[2]>> /\ e[2] \in Nat \ {0}
    BY <1>2, <1>3 DEF RunningStates
  <2> DEFINE found == CHOOSE x \in ToSet(volatile) : x[1] = s
  <2>2. found = <<s, e[2]>>
    <3>1. OnePerStream(volatile) /\ <<s, e[2]>> \in ToSet(volatile)
      BY <1>3, <2>1 DEF Buckets
    <3> QED
      BY <3>1, EntryIsFound
  <2>3. Get(s) = e[2]
    <3>1. Get(s) = found[2]
      BY <1>3, Zenon DEF Get
    <3> HIDE DEF found
    <3> QED
      BY <2>2, <3>1
  <2> QED
    BY <1>3, <2>1, <2>3 DEF Buckets
<1>4. durable[s] = 0 /\ (\A e \in ToSet(volatile) : e[1] # s) => Get(s) = 0
    BY DEF Get
<1>5. durable[s] # 0 => Get(s) = durable[s]
    BY DEF Get
<1> QED
    BY <1>1, <1>3, <1>4, <1>5 DEF MemoryOf

LEMMA GetIsNext == Buckets' => \A s \in Stream : MemoryOf(s)'
<1>1. (Buckets => \A s \in Stream : MemoryOf(s))'
    BY GetIs, PTL
<1> QED
    BY <1>1

-----------------------------------------------------------------------------
LEMMA SomeAssumptions ==
    /\ NoActor \notin Actor /\ StreamOf \in [Actor -> Stream]
    /\ Limit \in Nat \ {0}
BY SubscriptionsAssumption

(* A RunningState that is used, new or not, is no younger than its stream. *)
LEMMA UseInOrder ==
    ASSUME Buckets, NEW s \in Stream, NEW k \in Nat \ {0}, made' \in [Stream -> Nat],
           \A r \in Stream : made[r] =< made'[r], k =< made'[s],
           completed' = completed \cup Evicted(s, k),
           durable' \in [Stream -> Nat], \A r \in Stream : durable'[r] =< made'[r],
           volatile' = Kept(s, k) \/ volatile' = Without(Kept(s, k), s)
    PROVE  Buckets'
<1>1. Limit \in Nat \ {0}
    BY SomeAssumptions
<1>2. /\ Kept(s, k) \in Seq(RunningStates) /\ OnePerStream(Kept(s, k)) /\ Len(Kept(s, k)) =< Limit
      /\ ToSet(Kept(s, k)) \subseteq ToSet(volatile) \cup {<<s, k>>}
      /\ Evicted(s, k) \subseteq ToSet(volatile)
    BY <1>1, KeptRange DEF Buckets
<1>3. /\ volatile' \in Seq(RunningStates) /\ OnePerStream(volatile') /\ Len(volatile') =< Limit
      /\ ToSet(volatile') \subseteq ToSet(volatile) \cup {<<s, k>>}
  <2>1. CASE volatile' = Kept(s, k)
    BY <1>2, <2>1
  <2>2. CASE volatile' = Without(Kept(s, k), s)
    <3>1. /\ Without(Kept(s, k), s) \in Seq(RunningStates)
          /\ OnePerStream(Without(Kept(s, k), s))
          /\ Len(Without(Kept(s, k), s)) =< Len(Kept(s, k))
          /\ ToSet(Without(Kept(s, k), s)) \subseteq ToSet(Kept(s, k))
      BY <1>2, WithoutRange
    <3>2. Len(Without(Kept(s, k), s)) \in Nat /\ Len(Kept(s, k)) \in Nat
      BY <1>2, <3>1
    <3> QED
      BY <1>1, <1>2, <2>2, <3>1, <3>2
  <2> QED
    BY <2>1, <2>2
<1>4. ToSet(volatile) \subseteq RunningStates
    BY DEF Buckets, ToSet
<1>5. \A e \in ToSet(volatile) \cup completed \cup {<<s, k>>} : e[2] =< made'[e[1]]
  <2>1. ASSUME NEW e \in ToSet(volatile) \cup completed PROVE e[2] =< made'[e[1]]
    <3>1. e \in RunningStates /\ e[2] =< made[e[1]]
      BY <1>4 DEF Buckets
    <3>2. e[1] \in Stream /\ e[2] \in Nat
      BY <3>1 DEF RunningStates
    <3> QED
      BY <3>1, <3>2 DEF Buckets
  <2> QED
    BY <2>1
<1> QED
    BY <1>2, <1>3, <1>4, <1>5 DEF Buckets

LEMMA FindInMemoryBooks ==
    ASSUME Buckets, Actors, NEW a \in Actor, FindInMemory(a) PROVE Buckets' /\ Actors'
<1> DEFINE s == StreamOf[a]
           k == Get(s)
<1>1. /\ s \in Stream /\ Limit \in Nat \ {0}
    BY SomeAssumptions
<1>2. /\ lane[s] = NoActor /\ k # 0
      /\ pc[a] = "start" /\ pc' = [pc EXCEPT ![a] = AfterLookup(a)]
      /\ ref' = [ref EXCEPT ![a] = k]
      /\ volatile' = IF durable[s] = 0 THEN Used(s, k) ELSE volatile
      /\ UNCHANGED <<made, completed, durable, lane, tracked, closed>>
    BY DEF FindInMemory, Step
<1>3. k \in Nat \ {0} /\ k =< made[s] /\ (durable[s] = 0 => <<s, k>> \in ToSet(volatile))
    BY <1>1, <1>2, GetIs DEF MemoryOf
<1> HIDE DEF s, k
<1>4. ASSUME durable[s] = 0 PROVE Buckets'
  <2>1. \E e \in ToSet(volatile) : e[1] = s
    BY <1>3, <1>4
  <2>2. /\ volatile' \in Seq(RunningStates) /\ OnePerStream(volatile') /\ Len(volatile') =< Limit
        /\ ToSet(volatile') \subseteq ToSet(volatile) \cup {<<s, k>>}
    BY <1>1, <1>2, <1>3, <1>4, <2>1, KeptRange DEF Buckets
  <2> QED
    BY <1>2, <1>3, <1>4, <2>2 DEF Buckets
<1>5. Actors'
    BY <1>1, <1>2, <1>3 DEF Actors, AfterLookup, s
<1> QED
    BY <1>2, <1>4, <1>5 DEF Buckets

LEMMA AskElsewhereBooks ==
    ASSUME Buckets, Actors, NEW a \in Actor, AskElsewhere(a) PROVE Buckets' /\ Actors'
<1>1. StreamOf[a] \in Stream /\ NoActor \notin Actor
    BY SomeAssumptions
<1>2. Buckets'
    BY DEF AskElsewhere, cache, Buckets
<1>3. Actors'
    BY <1>1, SomeAssumptions DEF AskElsewhere, Step, cache, Actors
<1> QED
    BY <1>2, <1>3

LEMMA RegisterBooks ==
    ASSUME Buckets, Actors, NEW a \in Actor, Register(a) PROVE Buckets' /\ Actors'
<1> DEFINE s == StreamOf[a]
           k == made[s] + 1
<1>1. s \in Stream /\ NoActor \notin Actor
    BY SomeAssumptions
<1>2. /\ pc[a] = "reading" /\ pc' = [pc EXCEPT ![a] = AfterLookup(a)]
      /\ lane' = [lane EXCEPT ![s] = NoActor]
      /\ made' = [made EXCEPT ![s] = k]
      /\ ref' = [ref EXCEPT ![a] = k]
      /\ durable' = IF durable[s] = 0 THEN durable ELSE [durable EXCEPT ![s] = k]
      /\ volatile' = Kept(s, k)
      /\ completed' = completed \cup Evicted(s, k)
      /\ tracked' = tracked \ Told(Evicted(s, k)) /\ closed' = closed \cup Told(Evicted(s, k))
    BY DEF Register, Step, Complete
<1>3. k \in Nat \ {0} /\ made[s] \in Nat
    BY <1>1 DEF Buckets
<1>4. /\ made' \in [Stream -> Nat] /\ \A r \in Stream : made[r] =< made'[r]
      /\ k =< made'[s] /\ durable' \in [Stream -> Nat]
      /\ \A r \in Stream : durable'[r] =< made'[r]
    BY <1>1, <1>2, <1>3 DEF Buckets
<1>5. Buckets'
  <2> HIDE DEF s, k
  <2> QED
    BY <1>1, <1>2, <1>3, <1>4, UseInOrder
<1>6. Told(Evicted(s, k)) \subseteq tracked
    BY DEF Told, SubscriptionSet
<1>7. Actors'
  <2>1. \A b \in Actor : StreamOf[b] \in Stream /\ ref[b] =< made[StreamOf[b]] /\ ref[b] \in Nat
    BY SomeAssumptions DEF Actors
  <2>2. \A b \in Actor : ref'[b] =< made'[StreamOf[b]] /\ ref'[b] \in Nat
    BY <1>1, <1>2, <1>3, <1>4, <2>1 DEF Actors, Buckets
  <2>3. \A b \in Actor : pc'[b] = "reading" <=> lane'[StreamOf[b]] = b
    BY <1>1, <1>2, SomeAssumptions DEF Actors, AfterLookup
  <2>4. \A b \in Actor : tracked' \subseteq tracked /\ a \notin tracked
    BY <1>2 DEF Actors
  <2> HIDE DEF s, k
  <2> QED
    BY <1>1, <1>2, <1>6, <2>2, <2>3, <2>4, SomeAssumptions DEF Actors, AfterLookup
<1> QED
    BY <1>5, <1>7

LEMMA FindNothingBooks ==
    ASSUME Buckets, Actors, NEW a \in Actor, FindNothing(a) PROVE Buckets' /\ Actors'
<1>1. StreamOf[a] \in Stream /\ NoActor \notin Actor
    BY SomeAssumptions
<1>2. Buckets'
    BY DEF FindNothing, cache, Buckets
<1>3. Actors'
    BY <1>1, SomeAssumptions DEF FindNothing, Step, cache, Actors
<1> QED
    BY <1>2, <1>3

LEMMA AttachBooks ==
    ASSUME Buckets, Actors, NEW a \in Actor, Attach(a) PROVE Buckets' /\ Actors'
<1> DEFINE s == StreamOf[a]
           new == ref[a] = 0
           k == IF new THEN made[s] + 1 ELSE ref[a]
           out == IF new THEN Evicted(s, k) ELSE {}
           open == a \notin closed /\ <<s, k>> \notin completed
<1>1. s \in Stream /\ Limit \in Nat \ {0}
    BY SomeAssumptions
<1>2. /\ pc[a] = "attaching" /\ pc' = [pc EXCEPT ![a] = IF open THEN "subscribed" ELSE "done"]
      /\ made' = IF new THEN [made EXCEPT ![s] = k] ELSE made
      /\ ref' = [ref EXCEPT ![a] = k]
      /\ durable' = [durable EXCEPT ![s] = k]
      /\ volatile' = Without(IF new THEN Kept(s, k) ELSE volatile, s)
      /\ completed' = completed \cup out
      /\ tracked' = (tracked \ Told(out)) \cup {a}
      /\ closed' = closed \cup Told(out) \cup (IF open THEN {} ELSE {a})
      /\ UNCHANGED lane
    BY DEF Attach, Step
<1>3. /\ made[s] \in Nat /\ ref[a] \in Nat /\ ref[a] =< made[s]
    BY <1>1 DEF Buckets, Actors
<1>4. k \in Nat \ {0} /\ k =< made'[s]
    BY <1>1, <1>2, <1>3 DEF Buckets
<1>5. /\ made' \in [Stream -> Nat] /\ \A r \in Stream : made[r] =< made'[r]
      /\ durable' \in [Stream -> Nat]
      /\ \A r \in Stream : durable'[r] =< made'[r]
    BY <1>1, <1>2, <1>3, <1>4 DEF Buckets
<1>6. Told(out) \subseteq tracked
    BY DEF Told, SubscriptionSet
<1>7. Buckets'
  <2> HIDE DEF s, k
  <2>1. CASE new
    BY <1>1, <1>2, <1>4, <1>5, <2>1, UseInOrder
  <2>2. CASE ~new
    <3>1. /\ volatile' \in Seq(RunningStates) /\ OnePerStream(volatile')
          /\ Len(volatile') =< Len(volatile) /\ ToSet(volatile') \subseteq ToSet(volatile)
      BY <1>2, <2>2, WithoutRange DEF Buckets
    <3>2. Len(volatile') \in Nat /\ Len(volatile) \in Nat
      BY <3>1 DEF Buckets
    <3> QED
      BY <1>1, <1>2, <1>5, <2>2, <3>1, <3>2 DEF Buckets
  <2> QED
    BY <2>1, <2>2
<1>8. Actors'
  <2>1. \A b \in Actor : ref'[b] =< made'[StreamOf[b]] /\ ref'[b] \in Nat
    <3>1. \A b \in Actor : StreamOf[b] \in Stream /\ ref[b] =< made[StreamOf[b]] /\ ref[b] \in Nat
      BY SomeAssumptions DEF Actors
    <3> HIDE DEF s, k
    <3> QED
      BY <1>1, <1>2, <1>4, <1>5, <3>1 DEF Actors, Buckets, s
  <2> HIDE DEF s, k, open, out
  <2>2. \A b \in Actor : pc'[b] = "reading" <=> lane'[StreamOf[b]] = b
    BY <1>2 DEF Actors
  <2>3. \A b \in Actor \ {a} : pc'[b] = pc[b] /\ (b \in tracked' => b \in tracked)
    BY <1>2 DEF Actors
  <2>4. a \in tracked' /\ (pc'[a] = "subscribed" \/ (pc'[a] = "done" /\ a \in closed')) /\ Kind[a] = "subscribe"
    BY <1>2 DEF Actors
  <2> QED
    BY <1>2, <1>6, <2>1, <2>2, <2>3, <2>4 DEF Actors
<1> QED
    BY <1>7, <1>8

LEMMA UnsubscribeBooks ==
    ASSUME Buckets, Actors, NEW a \in Actor, Unsubscribe(a) PROVE Buckets' /\ Actors'
<1> DEFINE s == StreamOf[a]
           k == durable[s]
<1>1. s \in Stream /\ Limit \in Nat \ {0}
    BY SomeAssumptions
<1>2. /\ pc[a] = "subscribed" /\ pc' = [pc EXCEPT ![a] = "done"]
      /\ UNCHANGED <<made, lane, ref>>
    BY DEF Unsubscribe, Step
<1>3. \/ /\ durable[s] # 0
         /\ durable' = [durable EXCEPT ![s] = 0]
         /\ volatile' = Kept(s, k)
         /\ completed' = completed \cup Evicted(s, k)
         /\ tracked' = tracked \ ({a} \cup Told(Evicted(s, k)))
         /\ closed' = closed \cup {a} \cup Told(Evicted(s, k))
      \/ /\ tracked' = tracked \ {a} /\ closed' = closed \cup {a}
         /\ UNCHANGED <<completed, volatile, durable>>
    BY DEF Unsubscribe, Free
<1>4. Told(Evicted(s, k)) \subseteq tracked
    BY DEF Told, SubscriptionSet
<1>5. Buckets'
  <2>1. CASE UNCHANGED <<completed, volatile, durable>>
    BY <1>2, <2>1 DEF Buckets
  <2>2. CASE /\ durable[s] # 0
             /\ durable' = [durable EXCEPT ![s] = 0]
             /\ volatile' = Kept(s, k)
             /\ completed' = completed \cup Evicted(s, k)
    <3>1. k \in Nat \ {0} /\ k =< made'[s] /\ made' = made
      BY <1>1, <1>2, <2>2 DEF Buckets
    <3>2. durable' \in [Stream -> Nat] /\ \A r \in Stream : durable'[r] =< made'[r]
      BY <1>1, <2>2, <3>1 DEF Buckets
    <3>3. made' \in [Stream -> Nat] /\ \A r \in Stream : made[r] =< made'[r]
      BY <3>1 DEF Buckets
    <3> HIDE DEF s, k
    <3> QED
      BY <1>1, <2>2, <3>1, <3>2, <3>3, UseInOrder
  <2> QED
    BY <1>3, <2>1, <2>2
<1>6. tracked' \subseteq tracked \ {a} /\ closed \subseteq closed' /\ closed' \subseteq Actor
    BY <1>3, <1>4 DEF Actors
<1>7. /\ \A b \in Actor : pc[b] = "subscribed" /\ b # a => b \in tracked' \cup closed'
    BY <1>3 DEF Actors
<1>8. Actors'
    BY <1>2, <1>6, <1>7 DEF Actors
<1> QED
    BY <1>5, <1>8

LEMMA UnsubscribeEarlyBooks ==
    ASSUME Buckets, Actors, NEW a \in Actor, UnsubscribeEarly(a) PROVE Buckets' /\ Actors'
<1>1. Buckets'
    BY DEF UnsubscribeEarly, cache, Buckets
<1>2. Actors'
    BY DEF UnsubscribeEarly, cache, Actors
<1> QED
    BY <1>1, <1>2

LEMMA NextBooks == Buckets /\ Actors /\ [Next]_vars => Buckets' /\ Actors'
<1> SUFFICES ASSUME Buckets, Actors, [Next]_vars PROVE Buckets' /\ Actors'
    OBVIOUS
<1>1. CASE UNCHANGED vars
    BY <1>1 DEF vars, cache, Buckets, Actors
<1>2. CASE Next
    BY <1>2, FindInMemoryBooks, AskElsewhereBooks, RegisterBooks, FindNothingBooks, AttachBooks,
       UnsubscribeBooks, UnsubscribeEarlyBooks DEF Next
<1> QED
    BY <1>1, <1>2

-----------------------------------------------------------------------------
(* What is evicted when any stream is used is not subscribed to: those who *)
(* hold an undisturbed stream are not told of it.                          *)
LEMMA ToldElsewhere ==
    ASSUME Buckets, NEW s \in Stream, SubscribedIsDurable(s), NEW t \in Stream, NEW k \in Nat \ {0},
           NEW b \in Told(Evicted(t, k))
    PROVE  StreamOf[b] # s
<1>1. Evicted(t, k) \subseteq {e \in ToSet(volatile) : e[1] # t}
    BY KeptRange, SomeAssumptions DEF Buckets
<1>2. PICK e \in Evicted(t, k) : b \in SubscriptionSet(e[1], e[2])
    BY DEF Told
<1>3. StreamOf[b] = e[1]
    BY <1>2 DEF SubscriptionSet
<1>4. ASSUME e[1] = s PROVE FALSE
    BY <1>1, <1>2, <1>4 DEF SubscribedIsDurable
<1> QED
    BY <1>3, <1>4

(* Steps of those who deal with other streams may evict s, and complete    *)
(* what they evict.                                                        *)
LeavesAlone(s) ==
    /\ durable'[s] = durable[s] /\ lane'[s] = lane[s]
    /\ \A b \in Actor : StreamOf[b] = s =>
        /\ pc'[b] = pc[b] /\ ref'[b] = ref[b]
        /\ b \in tracked' <=> b \in tracked
        /\ b \in closed' <=> b \in closed
    /\ completed \subseteq completed'
    /\ \A e \in RunningStates : e[1] = s =>
        /\ e \in ToSet(volatile') => e \in ToSet(volatile)
        /\ e \in ToSet(volatile) => e \in ToSet(volatile') \cup completed'
        /\ e \in completed' => e \in completed \cup ToSet(volatile)

LEMMA UseElsewhere ==
    ASSUME Buckets, NEW s \in Stream, SubscribedIsDurable(s), NEW t \in Stream, t # s, NEW k \in Nat \ {0},
           completed' = completed \cup Evicted(t, k),
           volatile' = Kept(t, k) \/ volatile' = Without(Kept(t, k), t)
    PROVE  \A e \in RunningStates : e[1] = s =>
              /\ e \in ToSet(volatile') => e \in ToSet(volatile)
              /\ e \in ToSet(volatile) => e \in ToSet(volatile') \cup completed'
              /\ e \in completed' => e \in completed \cup ToSet(volatile)
<1>1. /\ Kept(t, k) \in Seq(RunningStates) /\ OnePerStream(Kept(t, k))
      /\ ToSet(Kept(t, k)) = ({e \in ToSet(volatile) : e[1] # t} \cup {<<t, k>>}) \ Evicted(t, k)
      /\ Evicted(t, k) \subseteq ToSet(volatile)
    BY KeptRange, SomeAssumptions DEF Buckets
<1>2. ToSet(Without(Kept(t, k), t)) = {e \in ToSet(Kept(t, k)) : e[1] # t}
    BY <1>1, WithoutRange
<1>3. \A e \in RunningStates : e[1] = s => (e \in ToSet(volatile') <=> e \in ToSet(Kept(t, k)))
  <2>1. CASE volatile' = Kept(t, k)
    BY <2>1
  <2>2. CASE volatile' = Without(Kept(t, k), t)
    BY <1>2, <2>2
  <2> QED
    BY <2>1, <2>2
<1>4. \A e \in RunningStates : e[1] = s =>
        (e \in ToSet(Kept(t, k)) <=> e \in ToSet(volatile) /\ e \notin Evicted(t, k))
    BY <1>1
<1> QED
    BY <1>1, <1>3, <1>4

LEMMA OtherActors ==
    ASSUME Buckets, Actors, NEW s \in Stream, SubscribedIsDurable(s),
           NEW a \in Actor, StreamOf[a] # s,
           \/ FindInMemory(a) \/ AskElsewhere(a) \/ Register(a) \/ FindNothing(a)
           \/ Attach(a) \/ Unsubscribe(a) \/ UnsubscribeEarly(a)
    PROVE  LeavesAlone(s)
<1> DEFINE t == StreamOf[a]
<1>1. t \in Stream /\ t # s
    BY SomeAssumptions
<1>2. /\ \A b \in Actor : StreamOf[b] = s => b # a
      /\ lane \in [Stream -> Actor \cup {NoActor}]
      /\ pc \in [Actor -> {"start", "reading", "attaching", "subscribed", "done"}]
      /\ ref \in [Actor -> Nat] /\ durable \in [Stream -> Nat] /\ made \in [Stream -> Nat]
    BY DEF Actors, Buckets
<1> DEFINE Tells(k) == /\ tracked' \subseteq tracked \cup {a}
                       /\ tracked \subseteq tracked' \cup {a} \cup Told(Evicted(t, k))
                       /\ closed \subseteq closed'
                       /\ closed' \subseteq closed \cup {a} \cup Told(Evicted(t, k))
<1>3. ASSUME NEW k \in Nat \ {0}, Tells(k), NEW b \in Actor, StreamOf[b] = s
      PROVE  (b \in tracked' <=> b \in tracked) /\ (b \in closed' <=> b \in closed)
  <2>1. b # a /\ b \notin Told(Evicted(t, k))
    BY <1>1, <1>3, ToldElsewhere
  <2> QED
    BY <1>3, <2>1
<1>4. CASE FindInMemory(a)
  <2>1. /\ Get(t) \in Nat \ {0} /\ UNCHANGED <<completed, durable, lane, tracked, closed>>
        /\ volatile' = IF durable[t] = 0 THEN Used(t, Get(t)) ELSE volatile
        /\ pc' = [pc EXCEPT ![a] = AfterLookup(a)] /\ ref' = [ref EXCEPT ![a] = Get(t)]
    BY <1>1, <1>4, GetIs DEF FindInMemory, Step, MemoryOf
  <2>2. \A e \in RunningStates : e[1] = s => (e \in ToSet(volatile') <=> e \in ToSet(volatile))
    <3>1. ToSet(Used(t, Get(t))) = {e \in ToSet(volatile) : e[1] # t} \cup {<<t, Get(t)>>}
      BY <1>1, <2>1, KeptRange, SomeAssumptions DEF Buckets
    <3> QED
      BY <1>1, <2>1, <3>1
  <2> HIDE DEF t
  <2> QED
    BY <1>2, <2>1, <2>2 DEF LeavesAlone
<1>5. CASE AskElsewhere(a)
    BY <1>1, <1>2, <1>5 DEF AskElsewhere, Step, cache, LeavesAlone
<1>6. CASE Register(a)
  <2> DEFINE k == made[t] + 1
  <2>1. /\ k \in Nat \ {0}
        /\ durable'[s] = durable[s] /\ lane'[s] = lane[s]
        /\ pc' = [pc EXCEPT ![a] = AfterLookup(a)] /\ ref' = [ref EXCEPT ![a] = k]
        /\ volatile' = Kept(t, k) /\ completed' = completed \cup Evicted(t, k)
        /\ tracked' = tracked \ Told(Evicted(t, k)) /\ closed' = closed \cup Told(Evicted(t, k))
    BY <1>1, <1>2, <1>6 DEF Register, Step, Complete
  <2> HIDE DEF k, t
  <2>2. \A b \in Actor : StreamOf[b] = s => pc'[b] = pc[b] /\ ref'[b] = ref[b]
    BY <1>2, <2>1
  <2>3. Tells(k)
    BY <2>1
  <2> QED
    BY <1>1, <1>3, <2>1, <2>2, <2>3, UseElsewhere DEF LeavesAlone
<1>7. CASE FindNothing(a)
    BY <1>1, <1>2, <1>7 DEF FindNothing, Step, cache, LeavesAlone
<1>8. CASE Attach(a)
  <2> DEFINE k == IF ref[a] = 0 THEN made[t] + 1 ELSE ref[a]
             out == IF ref[a] = 0 THEN Evicted(t, k) ELSE {}
             open == a \notin closed /\ <<t, k>> \notin completed
  <2>1. /\ k \in Nat \ {0}
        /\ durable'[s] = durable[s] /\ lane'[s] = lane[s]
        /\ \A b \in Actor : b # a => pc'[b] = pc[b] /\ ref'[b] = ref[b]
        /\ volatile' = Without(IF ref[a] = 0 THEN Kept(t, k) ELSE volatile, t)
        /\ completed' = completed \cup out
        /\ tracked' = (tracked \ Told(out)) \cup {a}
        /\ closed' = closed \cup Told(out) \cup (IF open THEN {} ELSE {a})
    BY <1>1, <1>2, <1>8 DEF Attach, Step
  <2> HIDE DEF k, t, open
  <2>2. out \subseteq Evicted(t, k)
    OBVIOUS
  <2>3. Told(out) \subseteq Told(Evicted(t, k))
    BY <2>2 DEF Told
  <2> HIDE DEF out
  <2>4. Tells(k)
    BY <2>1, <2>3
  <2>5. \A e \in RunningStates : e[1] = s =>
              /\ e \in ToSet(volatile') => e \in ToSet(volatile)
              /\ e \in ToSet(volatile) => e \in ToSet(volatile') \cup completed'
              /\ e \in completed' => e \in completed \cup ToSet(volatile)
    <3>1. CASE ref[a] = 0
      BY <1>1, <2>1, <3>1, UseElsewhere DEF out
    <3>2. CASE ref[a] # 0
      <4>1. ToSet(volatile') = {e \in ToSet(volatile) : e[1] # t} /\ completed' = completed
        BY <2>1, <3>2, WithoutRange DEF out, Buckets
      <4> QED
        BY <1>1, <4>1
    <3> QED
      BY <3>1, <3>2
  <2> QED
    BY <1>2, <1>3, <2>1, <2>4, <2>5 DEF LeavesAlone
<1>9. CASE Unsubscribe(a)
  <2> DEFINE k == durable[t]
  <2>1. pc' = [pc EXCEPT ![a] = "done"] /\ UNCHANGED <<lane, ref>>
    BY <1>9 DEF Unsubscribe, Step
  <2>2. \A b \in Actor : StreamOf[b] = s => pc'[b] = pc[b] /\ ref'[b] = ref[b]
    BY <1>2, <2>1
  <2>3. CASE /\ tracked' = tracked \ {a} /\ closed' = closed \cup {a}
             /\ UNCHANGED <<completed, volatile, durable>>
    BY <1>2, <2>1, <2>2, <2>3 DEF LeavesAlone
  <2>4. CASE /\ durable[t] # 0 /\ durable' = [durable EXCEPT ![t] = 0]
             /\ volatile' = Kept(t, k)
             /\ completed' = completed \cup Evicted(t, k)
             /\ tracked' = tracked \ ({a} \cup Told(Evicted(t, k)))
             /\ closed' = closed \cup {a} \cup Told(Evicted(t, k))
    <3>1. k \in Nat \ {0} /\ durable'[s] = durable[s]
      BY <1>1, <1>2, <2>4
    <3>2. Tells(k)
      BY <2>4
    <3> HIDE DEF k, t
    <3> QED
      BY <1>1, <1>3, <2>1, <2>2, <2>4, <3>1, <3>2, UseElsewhere DEF LeavesAlone
  <2> QED
    BY <1>9, <2>3, <2>4 DEF Unsubscribe, Free
<1>10. CASE UnsubscribeEarly(a)
    BY <1>2, <1>10 DEF UnsubscribeEarly, cache, LeavesAlone
<1> QED
    BY <1>4, <1>5, <1>6, <1>7, <1>8, <1>9, <1>10

LEMMA OthersServe ==
    ASSUME Buckets, Buckets', Actors, Actors', NEW s \in Stream, Served(s), LeavesAlone(s) PROVE Served(s)'
<1>1. /\ MemoryOf(s) /\ MemoryOf(s)'
    BY GetIs, GetIsNext
<1>2. /\ ToSet(volatile) \subseteq RunningStates /\ ToSet(volatile') \subseteq RunningStates
      /\ completed \subseteq RunningStates /\ completed' \subseteq RunningStates
    BY DEF Buckets, ToSet
<1>3. \A k \in Nat \ {0} : <<s, k>> \in RunningStates /\ <<s, k>>[1] = s /\ <<s, k>>[2] = k
    BY DEF RunningStates
<1>4. \A b \in Actor : StreamOf[b] = s =>
          /\ ref[b] \in Nat /\ ref'[b] = ref[b] /\ pc'[b] = pc[b]
          /\ b \in tracked' <=> b \in tracked
          /\ b \in closed' <=> b \in closed
    BY DEF Actors, LeavesAlone
<1>5. durable'[s] = durable[s] /\ lane'[s] = lane[s]
    BY DEF LeavesAlone
<1>6. ASSUME NEW e \in RunningStates, e[1] = s
      PROVE  /\ e \in ToSet(volatile') => e \in ToSet(volatile)
             /\ e \in ToSet(volatile) => e \in ToSet(volatile') \cup completed'
             /\ e \in completed' => e \in completed \cup ToSet(volatile)
             /\ e \in completed => e \in completed'
    BY <1>6 DEF LeavesAlone
<1>7. (\A k : SubscriptionSet(s, k)' = SubscriptionSet(s, k)) /\ LeftBehind(s)' = LeftBehind(s)
  <2>1. tracked \subseteq Actor /\ tracked' \subseteq Actor
    BY DEF Actors
  <2> QED
    BY <1>4, <2>1 DEF SubscriptionSet, LeftBehind
<1>8. Get(s) = 0 => Get(s)' = 0
  <2> SUFFICES ASSUME Get(s) = 0, Get(s)' # 0 PROVE FALSE
    OBVIOUS
  <2>1. durable'[s] = 0 /\ durable[s] = 0
    BY <1>1, <1>5 DEF MemoryOf
  <2>2. <<s, Get(s)'>> \in ToSet(volatile') /\ Get(s)' \in Nat \ {0}
    BY <1>1, <2>1 DEF MemoryOf
  <2>3. <<s, Get(s)'>> \in ToSet(volatile)
    BY <1>3, <1>6, <2>2
  <2> QED
    BY <1>1, <1>3, <2>1, <2>2, <2>3 DEF MemoryOf
<1>9. Get(s) # 0 => Get(s)' = Get(s) \/ (Get(s)' = 0 /\ <<s, Get(s)>> \in completed')
  <2> SUFFICES ASSUME Get(s) # 0, durable[s] = 0
               PROVE  Get(s)' = Get(s) \/ (Get(s)' = 0 /\ <<s, Get(s)>> \in completed')
    BY <1>1, <1>5 DEF MemoryOf
  <2>1. <<s, Get(s)>> \in ToSet(volatile) /\ Get(s) \in Nat \ {0}
    BY <1>1 DEF MemoryOf
  <2>2. CASE <<s, Get(s)>> \in ToSet(volatile')
    BY <1>1, <1>3, <1>5, <2>1, <2>2 DEF MemoryOf
  <2>3. CASE <<s, Get(s)>> \notin ToSet(volatile')
    <3>1. <<s, Get(s)>> \in completed'
      BY <1>3, <1>6, <2>1, <2>3
    <3>2. ASSUME Get(s)' # 0 PROVE FALSE
      <4>1. <<s, Get(s)'>> \in ToSet(volatile') /\ Get(s)' \in Nat \ {0}
        BY <1>1, <1>5, <3>2 DEF MemoryOf
      <4>2. <<s, Get(s)'>> \in ToSet(volatile)
        BY <1>3, <1>6, <4>1
      <4>3. Get(s) = Get(s)'
        BY <1>1, <1>3, <4>1, <4>2 DEF MemoryOf
      <4> QED
        BY <2>3, <4>1, <4>3
    <3> QED
      BY <3>1, <3>2
  <2> QED
    BY <2>2, <2>3
<1>10. FindsAreGood(s)'
  <2> SUFFICES ASSUME NEW a \in Actor, StreamOf[a] = s, pc'[a] = "attaching"
               PROVE  \/ ref'[a] # 0 /\ Get(s)' = ref'[a]
                      \/ ref'[a] # 0 /\ Get(s)' = 0 /\ <<s, ref'[a]>> \in completed'
                      \/ ref'[a] = 0 /\ s \notin Stored
    BY DEF FindsAreGood
  <2>1. \/ ref[a] # 0 /\ Get(s) = ref[a]
        \/ ref[a] # 0 /\ Get(s) = 0 /\ <<s, ref[a]>> \in completed
        \/ ref[a] = 0 /\ s \notin Stored
    BY <1>4 DEF Served, FindsAreGood
  <2>2. ref'[a] = ref[a] /\ ref[a] \in Nat
    BY <1>4
  <2> QED
    BY <1>3, <1>6, <1>8, <1>9, <2>1, <2>2
<1>11. OneForAll(s)'
  <2>1. OneForAll(s)
    BY DEF Served
  <2>2. \A a \in Actor : StreamOf[a] = s /\ pc[a] = "attaching" /\ <<s, ref[a]>> \in completed
            => <<s, ref'[a]>> \in completed'
    BY <1>4 DEF LeavesAlone
  <2> QED
    BY <1>4, <1>5, <2>1, <2>2 DEF OneForAll
<1>12. SubscribedIsDurable(s)'
  <2>1. SubscribedIsDurable(s)
    BY DEF Served
  <2>2. \A e \in ToSet(volatile') : e[1] = s => e \in ToSet(volatile)
    BY <1>2, <1>6
  <2>3. ASSUME NEW a \in Actor, StreamOf[a] = s, Attached(a)'
        PROVE  /\ a \in tracked' \ closed'
               /\ ref'[a] # 0 /\ durable'[s] = ref'[a]
               /\ <<s, ref'[a]>> \notin completed'
               /\ \A e \in ToSet(volatile') : e[1] # s
    <3>1. Attached(a) /\ a \in tracked' \ closed' /\ ref'[a] = ref[a] /\ ref[a] \in Nat \ {0}
      BY <1>4, <2>1, <2>3 DEF Attached, SubscribedIsDurable
    <3>2. /\ durable[s] = ref[a] /\ <<s, ref[a]>> \notin completed
          /\ \A e \in ToSet(volatile) : e[1] # s
      BY <2>1, <2>3, <3>1 DEF SubscribedIsDurable
    <3>3. <<s, ref[a]>> \notin completed'
      BY <1>3, <1>6, <3>1, <3>2
    <3> QED
      BY <1>5, <2>2, <3>1, <3>2, <3>3
  <2>4. durable'[s] # 0 /\ LeftBehind(s)' = {} =>
            \E a \in Actor : Attached(a)' /\ StreamOf[a] = s /\ ref'[a] = durable'[s]
    BY <1>4, <1>5, <1>7, <2>1 DEF Attached, SubscribedIsDurable
  <2>5. \A e \in ToSet(volatile') : e[1] = s => SubscriptionSet(s, e[2])' = {}
    BY <1>7, <2>1, <2>2 DEF SubscribedIsDurable
  <2> QED
    BY <2>3, <2>4, <2>5 DEF SubscribedIsDurable
<1> QED
    BY <1>10, <1>11, <1>12 DEF Served

-----------------------------------------------------------------------------
(* The steps of those who deal with s, and disturb nobody.                 *)
LEMMA WithWhom ==
    ASSUME Actors, NEW a \in Actor, Undisturbed(StreamOf[a])
    PROVE  /\ StreamOf[a] \in Stream /\ Kind[a] # "resync"
           /\ StreamOf[a] \notin Stored =>
                  \A b \in Actor : StreamOf[b] = StreamOf[a] => b = a
           /\ \A b \in Actor : ref[b] \in Nat
           /\ pc \in [Actor -> {"start", "reading", "attaching", "subscribed", "done"}]
           /\ lane \in [Stream -> Actor \cup {NoActor}] /\ NoActor \notin Actor
BY SomeAssumptions DEF Undisturbed, Actors

LEMMA FindInMemoryServes ==
    ASSUME Buckets, Buckets', Actors, NEW a \in Actor, Undisturbed(StreamOf[a]), Served(StreamOf[a]),
           FindInMemory(a)
    PROVE  Served(StreamOf[a])'
<1> DEFINE s == StreamOf[a]
           k == Get(s)
<1>1. /\ lane[s] = NoActor /\ k # 0 /\ pc[a] = "start"
      /\ pc' = [pc EXCEPT ![a] = AfterLookup(a)] /\ ref' = [ref EXCEPT ![a] = k]
      /\ volatile' = IF durable[s] = 0 THEN Used(s, k) ELSE volatile
      /\ UNCHANGED <<made, completed, durable, lane, tracked, closed>>
    BY DEF FindInMemory, Step
<1>2. s \in Stream /\ MemoryOf(s) /\ MemoryOf(s)' /\ k \in Nat \ {0}
    BY <1>1, WithWhom, GetIs, GetIsNext DEF MemoryOf
<1>3. ToSet(volatile') = ToSet(volatile)
  <2>1. CASE durable[s] = 0
    <3>1. ToSet(Used(s, k)) = {e \in ToSet(volatile) : e[1] # s} \cup {<<s, k>>}
      BY <1>2, KeptRange, SomeAssumptions DEF Buckets
    <3>2. <<s, k>> \in ToSet(volatile)
      BY <1>1, <1>2, <2>1 DEF MemoryOf
    <3>3. ASSUME NEW e \in ToSet(volatile), e[1] = s PROVE e = <<s, k>>
      <4>1. e \in RunningStates
        BY DEF Buckets, ToSet
      <4>2. e = <<e[1], e[2]>> /\ e[2] = k
        BY <1>2, <2>1, <3>3, <4>1 DEF MemoryOf, RunningStates
      <4> QED
        BY <3>3, <4>2
    <3> QED
      BY <1>1, <2>1, <3>1, <3>2, <3>3
  <2>2. CASE durable[s] # 0
    BY <1>1, <2>2
  <2> QED
    BY <2>1, <2>2
<1>4. Get(s)' = k
  <2>1. CASE durable[s] = 0
    <3>1. <<s, k>> \in ToSet(volatile') /\ durable'[s] = 0
      BY <1>1, <1>2, <1>3, <2>1 DEF MemoryOf
    <3> QED
      BY <1>2, <3>1 DEF MemoryOf
  <2>2. CASE durable[s] # 0
    BY <1>1, <1>2, <2>2 DEF MemoryOf
  <2> QED
    BY <2>1, <2>2
<1> HIDE DEF k
<1>5. ASSUME NEW b \in Actor, StreamOf[b] = s, pc[b] \in {"attaching", "subscribed"} PROVE ref[b] = k
  <2>1. b # a
    BY <1>1, <1>5
  <2>2. CASE pc[b] = "attaching"
    BY <1>1, <1>5, <2>1, <2>2, WithWhom DEF Served, FindsAreGood, k
  <2>3. CASE pc[b] = "subscribed"
    BY <1>2, <1>5, <2>3 DEF Served, SubscribedIsDurable, Attached, MemoryOf, k
  <2> QED
    BY <1>5, <2>2, <2>3
<1>6. \A b \in Actor : StreamOf[b] = s /\ pc'[b] \in {"attaching", "subscribed"} => ref'[b] = k
    BY <1>1, <1>5, WithWhom DEF Actors
<1>7. \A b \in Actor : Attached(b)' => Attached(b) /\ ref'[b] = ref[b] /\ b # a
    BY <1>1, WithWhom DEF Attached, AfterLookup, Actors
<1>8. \A b \in Actor : Attached(b) => Attached(b)' /\ ref'[b] = ref[b]
    BY <1>1, WithWhom DEF Attached, Actors
<1>9. a \notin tracked
    BY <1>1 DEF Actors
<1>10. (\A j : SubscriptionSet(s, j)' = SubscriptionSet(s, j)) /\ LeftBehind(s)' = LeftBehind(s)
    BY <1>1, <1>9 DEF SubscriptionSet, LeftBehind, Actors
<1>11. FindsAreGood(s)'
    BY <1>2, <1>4, <1>6 DEF FindsAreGood
<1>12. OneForAll(s)'
    BY <1>1, <1>6 DEF OneForAll
<1>13. SubscribedIsDurable(s)'
    BY <1>1, <1>3, <1>7, <1>8, <1>10 DEF Served, SubscribedIsDurable
<1> QED
    BY <1>11, <1>12, <1>13 DEF Served

LEMMA AskElsewhereServes ==
    ASSUME Buckets, Actors, NEW a \in Actor, Undisturbed(StreamOf[a]), Served(StreamOf[a]),
           AskElsewhere(a)
    PROVE  Served(StreamOf[a])'
<1> DEFINE s == StreamOf[a]
<1>1. /\ lane[s] = NoActor /\ Get(s) = 0 /\ pc[a] = "start"
      /\ pc' = [pc EXCEPT ![a] = "reading"] /\ lane' = [lane EXCEPT ![s] = a]
      /\ UNCHANGED <<made, completed, volatile, durable, ref, tracked, closed>>
    BY WithWhom DEF AskElsewhere, Step, cache
<1>2. s \in Stream /\ MemoryOf(s) /\ Get(s)' = Get(s)
    BY <1>1, WithWhom, GetIs DEF Get
<1>3. \A b \in Actor : pc'[b] \in {"attaching", "subscribed"} <=> pc[b] \in {"attaching", "subscribed"}
    BY <1>1, WithWhom
<1>4. \A b \in Actor : /\ pc'[b] = "attaching" <=> pc[b] = "attaching"
                       /\ pc'[b] = "subscribed" <=> pc[b] = "subscribed"
    BY <1>1, WithWhom
<1>5. \A b \in Actor : StreamOf[b] = s => pc[b] # "subscribed"
    BY <1>1, <1>2 DEF Served, SubscribedIsDurable, Attached, MemoryOf
<1>6. \A b \in Actor : StreamOf[b] = s /\ pc[b] = "attaching" => <<s, ref[b]>> \in completed
    BY <1>1, WithWhom DEF Served, FindsAreGood
<1>7. FindsAreGood(s)'
    BY <1>1, <1>2, <1>4 DEF Served, FindsAreGood
<1>8. OneForAll(s)'
    BY <1>1, <1>3, <1>4, <1>5, <1>6 DEF Served, OneForAll
<1>9. SubscribedIsDurable(s)'
    BY <1>1, <1>4, <1>5 DEF Served, SubscribedIsDurable, Attached, SubscriptionSet, LeftBehind
<1> QED
    BY <1>7, <1>8, <1>9 DEF Served

LEMMA RegisterServes ==
    ASSUME Buckets, Buckets', Actors, NEW a \in Actor, Undisturbed(StreamOf[a]), Served(StreamOf[a]),
           Register(a)
    PROVE  Served(StreamOf[a])'
<1>a. PICK s \in Stream : s = StreamOf[a] /\ Served(s)
    BY WithWhom
<1>b. PICK k \in Nat \ {0} : k = made[s] + 1
    BY DEF Buckets
<1> DEFINE out == Evicted(s, k)
<1>1. /\ pc[a] = "reading" /\ pc' = [pc EXCEPT ![a] = AfterLookup(a)]
      /\ lane' = [lane EXCEPT ![s] = NoActor]
      /\ made' = [made EXCEPT ![s] = k]
      /\ ref' = [ref EXCEPT ![a] = k]
      /\ durable' = IF durable[s] = 0 THEN durable ELSE [durable EXCEPT ![s] = k]
      /\ volatile' = Kept(s, k)
      /\ completed' = completed \cup out
      /\ tracked' = tracked \ Told(out) /\ closed' = closed \cup Told(out)
      /\ \A b \in Actor : pc[b] # "attaching"
    BY <1>a, <1>b DEF Register, Step, Complete, NewTurn
<1>2. s \in Stream /\ MemoryOf(s)' /\ lane[s] = a /\ a # NoActor
    BY <1>1, <1>a, WithWhom, GetIsNext DEF Actors
<1>3. made[s] \in Nat /\ k > made[s]
    BY <1>b DEF Buckets
<1>4. \A b \in Actor : StreamOf[b] = s => pc[b] # "subscribed"
    BY <1>2, <1>a DEF Served, OneForAll
<1>5. \A b \in Actor : StreamOf[b] = s /\ pc'[b] \in {"attaching", "subscribed"} =>
          b = a /\ pc'[b] = "attaching"
    BY <1>1, <1>4, WithWhom DEF AfterLookup
<1>6. /\ ToSet(volatile') = ({e \in ToSet(volatile) : e[1] # s} \cup {<<s, k>>}) \ out
      /\ out \subseteq {e \in ToSet(volatile) : e[1] # s}
    BY <1>1, <1>2, <1>3, KeptRange, SomeAssumptions DEF Buckets
<1> HIDE DEF out
<1>7. <<s, k>>[1] = s /\ <<s, k>>[2] = k
    OBVIOUS
<1>8. <<s, k>> \in ToSet(volatile') /\ \A e \in ToSet(volatile') : e[1] = s => e[2] = k
    BY <1>6, <1>7
<1>9. Get(s)' = k /\ ref'[a] = k
  <2>1. ref'[a] = k
    BY <1>1 DEF Actors
  <2>2. CASE durable[s] = 0
    <3>1. durable'[s] = 0
      BY <1>1, <2>2
    <3> QED
      BY <1>2, <1>7, <1>8, <2>1, <3>1 DEF MemoryOf
  <2>3. CASE durable[s] # 0
    <3>1. durable'[s] = k
      BY <1>1, <1>2, <2>3 DEF Buckets
    <3> QED
      BY <1>2, <1>3, <2>1, <3>1 DEF MemoryOf
  <2> QED
    BY <2>2, <2>3
<1>10. FindsAreGood(s)'
    BY <1>3, <1>5, <1>9 DEF FindsAreGood
<1>11. OneForAll(s)'
  <2>1. lane'[s] = NoActor
    BY <1>1, <1>2, WithWhom
  <2> QED
    BY <1>5, <2>1 DEF OneForAll
<1>12. SubscribedIsDurable(s)'
  <2>1. SubscriptionSet(s, k)' = {}
    <3>1. ASSUME NEW b \in tracked', StreamOf[b] = s, ref'[b] = k PROVE FALSE
      <4>1. b \in tracked /\ b \in Actor
        BY <1>1 DEF Actors
      <4>2. b # a /\ ref[b] =< made[s] /\ ref[b] \in Nat
        BY <1>1, <1>a, <3>1, <4>1 DEF Actors
      <4>3. ref'[b] = ref[b]
        BY <1>1, <4>1, <4>2 DEF Actors
      <4> QED
        BY <1>3, <3>1, <4>2, <4>3
    <3> QED
      BY <3>1 DEF SubscriptionSet
  <2>2. durable'[s] # 0 => LeftBehind(s)' # {}
    <3> SUFFICES ASSUME durable'[s] # 0 PROVE LeftBehind(s)' # {}
      OBVIOUS
    <3>1. durable[s] # 0
      BY <1>1
    <3>2. LeftBehind(s) # {}
      BY <1>4, <1>a, <3>1 DEF Served, SubscribedIsDurable, Attached
    <3>3. PICK b \in tracked \cap closed : StreamOf[b] = s
      BY <3>2 DEF LeftBehind
    <3>4. b \notin Told(out)
      BY <1>a, <3>3, ToldElsewhere DEF Served, out
    <3>5. b \in tracked' \cap closed'
      BY <1>1, <3>3, <3>4
    <3> QED
      BY <3>3, <3>5 DEF LeftBehind
  <2>3. \A b \in Actor : StreamOf[b] = s => ~Attached(b)'
    BY <1>5 DEF Attached
  <2>4. \A e \in ToSet(volatile') : e[1] = s => SubscriptionSet(s, e[2])' = {}
    BY <1>8, <2>1
  <2> QED
    BY <2>2, <2>3, <2>4 DEF SubscribedIsDurable
<1> QED
    BY <1>a, <1>10, <1>11, <1>12 DEF Served

LEMMA FindNothingServes ==
    ASSUME Buckets, Actors, NEW a \in Actor, Undisturbed(StreamOf[a]), Served(StreamOf[a]),
           FindNothing(a)
    PROVE  Served(StreamOf[a])'
<1> DEFINE s == StreamOf[a]
<1>1. /\ s \notin Stored /\ pc[a] = "reading" /\ pc' = [pc EXCEPT ![a] = "attaching"]
      /\ lane' = [lane EXCEPT ![s] = NoActor]
      /\ UNCHANGED <<made, completed, volatile, durable, ref, tracked, closed>>
    BY DEF FindNothing, Step, cache
<1>2. \A b \in Actor : StreamOf[b] = s => b = a
    BY <1>1, WithWhom
<1>3. ref[a] = 0 /\ pc'[a] = "attaching" /\ pc[a] = "reading" /\ lane'[s] = NoActor
    BY <1>1, WithWhom DEF Actors
<1>4. FindsAreGood(s)'
    BY <1>1, <1>2, <1>3 DEF FindsAreGood
<1>5. OneForAll(s)'
    BY <1>2, <1>3 DEF OneForAll
<1>6. SubscribedIsDurable(s)'
  <2>1. \A b \in Actor : StreamOf[b] = s => ~Attached(b) /\ ~Attached(b)'
    BY <1>2, <1>3 DEF Attached
  <2> QED
    BY <1>1, <2>1 DEF Served, SubscribedIsDurable, SubscriptionSet, LeftBehind
<1> QED
    BY <1>4, <1>5, <1>6 DEF Served

LEMMA UnsubscribeEarlyServes ==
    ASSUME Actors, NEW a \in Actor, Served(StreamOf[a]), UnsubscribeEarly(a)
    PROVE  Served(StreamOf[a])'
<1> DEFINE s == StreamOf[a]
<1>1. /\ pc[a] \in {"start", "reading"} /\ closed' = closed \cup {a} /\ a \notin tracked
      /\ UNCHANGED <<made, completed, volatile, durable, lane, pc, ref, tracked>>
    BY DEF UnsubscribeEarly, cache, Actors
<1>2. LeftBehind(s)' = LeftBehind(s) /\ Get(s)' = Get(s) /\ \A k : SubscriptionSet(s, k)' = SubscriptionSet(s, k)
    BY <1>1 DEF LeftBehind, SubscriptionSet, Get
<1>3. FindsAreGood(s)' /\ OneForAll(s)'
    BY <1>1, <1>2 DEF Served, FindsAreGood, OneForAll
<1>4. SubscribedIsDurable(s)'
    BY <1>1, <1>2 DEF Served, SubscribedIsDurable, Attached
<1> QED
    BY <1>3, <1>4 DEF Served

LEMMA AttachServes ==
    ASSUME Buckets, Buckets', Actors, NEW a \in Actor, Undisturbed(StreamOf[a]), Served(StreamOf[a]),
           Attach(a)
    PROVE  Served(StreamOf[a])'
<1>a. PICK s \in Stream : s = StreamOf[a] /\ Served(s)
    BY WithWhom
<1>b. PICK k : k = IF ref[a] = 0 THEN made[s] + 1 ELSE ref[a]
    OBVIOUS
<1> DEFINE out == IF ref[a] = 0 THEN Evicted(s, k) ELSE {}
           open == a \notin closed /\ <<s, k>> \notin completed
<1>1. /\ pc[a] = "attaching" /\ pc' = [pc EXCEPT ![a] = IF open THEN "subscribed" ELSE "done"]
      /\ ref' = [ref EXCEPT ![a] = k]
      /\ durable' = [durable EXCEPT ![s] = k]
      /\ volatile' = Without(IF ref[a] = 0 THEN Kept(s, k) ELSE volatile, s)
      /\ completed' = completed \cup out
      /\ tracked' = (tracked \ Told(out)) \cup {a}
      /\ closed' = closed \cup Told(out) \cup (IF open THEN {} ELSE {a})
      /\ UNCHANGED lane
    BY <1>a, <1>b DEF Attach, Step
<1>2. k \in Nat \ {0} /\ ref[a] \in Nat
    BY <1>b DEF Buckets, Actors
<1>3. MemoryOf(s)' /\ durable'[s] = k /\ Get(s)' = k /\ ref'[a] = k
  <2>1. durable'[s] = k /\ ref'[a] = k
    BY <1>1 DEF Buckets, Actors
  <2> QED
    BY <1>2, <2>1, GetIsNext DEF MemoryOf
<1>4. ASSUME NEW b \in Actor, StreamOf[b] = s, b # a, pc[b] \in {"attaching", "subscribed"}
      PROVE  ref[a] # 0 /\ ref[b] = k /\ ref'[b] = k /\ pc'[b] = pc[b]
  <2>1. ref[b] = ref[a] /\ ref'[b] = ref[b] /\ pc'[b] = pc[b]
    BY <1>1, <1>4, <1>a, WithWhom DEF Served, OneForAll, Actors
  <2>2. ref[a] # 0
    BY <1>1, <1>4, <1>a, WithWhom DEF Served, FindsAreGood
  <2> QED
    BY <1>b, <2>1, <2>2
<1>5. ASSUME NEW b \in Actor, StreamOf[b] = s, b # a
      PROVE  pc'[b] = pc[b] /\ ref'[b] = ref[b]
    BY <1>1, <1>5 DEF Actors
<1>6. /\ \A e \in ToSet(volatile') : e[1] # s
      /\ \A e \in out : e[1] # s
  <2>1. CASE ref[a] = 0
    <3>1. /\ Kept(s, k) \in Seq(RunningStates) /\ OnePerStream(Kept(s, k))
          /\ Evicted(s, k) \subseteq {e \in ToSet(volatile) : e[1] # s}
      BY <1>2, KeptRange, SomeAssumptions DEF Buckets
    <3>2. ToSet(Without(Kept(s, k), s)) = {e \in ToSet(Kept(s, k)) : e[1] # s}
      BY <3>1, WithoutRange
    <3> QED
      BY <1>1, <2>1, <3>1, <3>2
  <2>2. CASE ref[a] # 0
    <3>1. ToSet(Without(volatile, s)) = {e \in ToSet(volatile) : e[1] # s}
      BY WithoutRange DEF Buckets
    <3> QED
      BY <1>1, <2>2, <3>1
  <2> QED
    BY <2>1, <2>2
<1>7. \A b \in Actor : StreamOf[b] = s => b \notin Told(out)
  <2>1. \A b \in Told(Evicted(s, k)) : StreamOf[b] # s
    BY <1>2, <1>a, ToldElsewhere DEF Served
  <2>2. Told(out) \subseteq Told(Evicted(s, k))
    BY DEF Told
  <2> QED
    BY <2>1, <2>2
<1>8. \A j : <<s, j>> \in completed' <=> <<s, j>> \in completed
  <2>1. \A j : <<s, j>> \notin out
    BY <1>6
  <2> QED
    BY <1>1, <2>1
<1> HIDE DEF out
<1>9. FindsAreGood(s)'
  <2> SUFFICES ASSUME NEW b \in Actor, StreamOf[b] = s, pc'[b] = "attaching"
               PROVE  ref'[b] # 0 /\ Get(s)' = ref'[b]
    BY DEF FindsAreGood
  <2>1. b # a
    BY <1>1 DEF Actors
  <2> QED
    BY <1>2, <1>3, <1>4, <1>5, <2>1
<1>10. OneForAll(s)'
  <2>1. \A b \in Actor : StreamOf[b] = s /\ pc'[b] \in {"attaching", "subscribed"} => ref'[b] = k
    BY <1>3, <1>4, <1>5
  <2>2. ASSUME lane'[s] # NoActor, NEW b \in Actor, StreamOf[b] = s
        PROVE  /\ pc'[b] # "subscribed"
               /\ pc'[b] = "attaching" => <<s, ref'[b]>> \in completed'
    <3>1. PICK x \in Actor : lane[s] = x /\ pc[x] = "reading" /\ StreamOf[x] = s
      BY <1>1, <2>2 DEF Actors
    <3>2. ref[a] # 0
      BY <1>1, <1>a, <3>1, WithWhom DEF Served, FindsAreGood
    <3>3. <<s, ref[a]>> \in completed /\ k = ref[a]
      BY <1>1, <1>a, <1>b, <2>2, <3>2 DEF Served, OneForAll
    <3>4. pc'[a] = "done"
      BY <1>1, <3>3 DEF Actors
    <3>5. b # a => pc'[b] # "subscribed"
      BY <1>1, <1>5, <1>a, <2>2 DEF Served, OneForAll
    <3>6. pc'[b] = "attaching" => ref'[b] = k
      BY <2>1, <2>2
    <3>7. <<s, k>> \in completed'
      BY <1>8, <3>3
    <3> QED
      BY <3>4, <3>5, <3>6, <3>7
  <2> QED
    BY <2>1, <2>2 DEF OneForAll
<1>11. SubscribedIsDurable(s)'
  <2>1. ASSUME NEW b \in Actor, StreamOf[b] = s, Attached(b)'
        PROVE  /\ b \in tracked' \ closed'
               /\ ref'[b] = k /\ <<s, k>> \notin completed'
    <3>1. CASE b = a
      <4>1. open
        BY <1>1, <2>1, <3>1 DEF Attached, Actors
      <4> QED
        BY <1>1, <1>3, <1>7, <1>8, <2>1, <3>1, <4>1
    <3>2. CASE b # a
      <4>1. Attached(b) /\ ref[b] = k /\ ref'[b] = k
        BY <1>4, <1>5, <2>1, <3>2 DEF Attached
      <4>2. b \in tracked \ closed /\ <<s, k>> \notin completed
        BY <1>a, <2>1, <4>1 DEF Served, SubscribedIsDurable
      <4> QED
        BY <1>1, <1>7, <1>8, <2>1, <3>2, <4>1, <4>2
    <3> QED
      BY <3>1, <3>2
  <2>2. durable'[s] # 0 /\ LeftBehind(s)' = {} =>
            \E b \in Actor : Attached(b)' /\ StreamOf[b] = s /\ ref'[b] = durable'[s]
    <3>1. CASE open
      <4>1. pc'[a] = "subscribed"
        BY <1>1, <3>1 DEF Actors
      <4> QED
        BY <1>3, <1>a, <4>1 DEF Attached
    <3>2. CASE ~open
      <4>1. a \in tracked' \cap closed'
        BY <1>1, <3>2
      <4> QED
        BY <1>a, <4>1 DEF LeftBehind
    <3> QED
      BY <3>1, <3>2
  <2> QED
    BY <1>2, <1>3, <1>6, <2>1, <2>2 DEF SubscribedIsDurable
<1> QED
    BY <1>a, <1>9, <1>10, <1>11 DEF Served

LEMMA UnsubscribeServes ==
    ASSUME Buckets, Actors, NEW a \in Actor, Undisturbed(StreamOf[a]), Served(StreamOf[a]),
           Unsubscribe(a)
    PROVE  Served(StreamOf[a])'
<1>a. PICK s \in Stream : s = StreamOf[a] /\ Served(s)
    BY WithWhom
<1>1. /\ pc[a] = "subscribed" /\ pc' = [pc EXCEPT ![a] = "done"]
      /\ UNCHANGED <<made, lane, ref>> /\ \A b \in Actor : pc[b] # "attaching"
    BY DEF Unsubscribe, Step, NewTurn
<1>2. PICK k \in Nat \ {0} : k = ref[a] /\ k = durable[s]
    BY <1>1, <1>a, WithWhom DEF Served, SubscribedIsDurable, Attached
<1>3. a \in tracked \ closed /\ \A e \in ToSet(volatile) : e[1] # s
    BY <1>1, <1>a DEF Served, SubscribedIsDurable, Attached
<1>4. \A b \in Actor : pc'[b] = "subscribed" => pc[b] = "subscribed" /\ b # a
    BY <1>1 DEF Actors
<1>5. \A b \in Actor : pc[b] = "subscribed" /\ b # a => pc'[b] = "subscribed"
    BY <1>1 DEF Actors
<1>6. \A b \in Actor : pc'[b] # "attaching"
    BY <1>1 DEF Actors
<1>7. \A b \in Actor : StreamOf[b] = s /\ pc[b] = "subscribed" => ref[b] = k
    BY <1>1, <1>2, <1>a DEF Served, OneForAll
<1>8. lane'[s] # NoActor => FALSE
    BY <1>1, <1>a DEF Served, OneForAll
<1>9. FindsAreGood(s)' /\ OneForAll(s)'
    BY <1>1, <1>4, <1>6, <1>7, <1>8 DEF FindsAreGood, OneForAll
<1>10. CASE SubscriptionSet(s, k) = {a}
  <2>1. /\ durable' = [durable EXCEPT ![s] = 0] /\ volatile' = Kept(s, k)
        /\ tracked' = tracked \ ({a} \cup Told(Evicted(s, k)))
    BY <1>2, <1>10, <1>a DEF Unsubscribe, Free
  <2>2. ASSUME NEW b \in Actor, StreamOf[b] = s, pc'[b] = "subscribed" PROVE FALSE
    <3>1. ref[b] = k /\ b # a /\ b \in tracked
      BY <1>4, <1>7, <1>a, <2>2 DEF Served, SubscribedIsDurable, Attached
    <3> QED
      BY <1>10, <2>2, <3>1 DEF SubscriptionSet
  <2>3. durable'[s] = 0
    BY <2>1 DEF Buckets
  <2>4. ToSet(Kept(s, k)) \subseteq {e \in ToSet(volatile) : e[1] # s} \cup {<<s, k>>}
    BY KeptRange, SomeAssumptions DEF Buckets
  <2>5. \A e \in ToSet(volatile') : e[1] = s => e[2] = k
    BY <2>1, <2>4
  <2>6. SubscriptionSet(s, k)' = {}
    BY <1>1, <1>10, <2>1 DEF SubscriptionSet
  <2>7. SubscribedIsDurable(s)'
    BY <2>2, <2>3, <2>5, <2>6 DEF SubscribedIsDurable, Attached
  <2> QED
    BY <1>9, <1>a, <2>7 DEF Served
<1>11. CASE SubscriptionSet(s, k) # {a}
  <2>1. /\ tracked' = tracked \ {a} /\ closed' = closed \cup {a}
        /\ UNCHANGED <<completed, volatile, durable>>
    BY <1>2, <1>11, <1>a DEF Unsubscribe, Free
  <2>2. a \in SubscriptionSet(s, k)
    BY <1>2, <1>3, <1>a DEF SubscriptionSet
  <2>3. PICK b \in tracked : StreamOf[b] = s /\ ref[b] = k /\ b # a
    BY <1>11, <2>2 DEF SubscriptionSet
  <2>4. b \in Actor /\ (pc[b] = "subscribed" \/ b \in closed)
    BY <2>3 DEF Actors
  <2>5. durable'[s] = k /\ (LeftBehind(s)' = {} => pc'[b] = "subscribed")
    BY <1>2, <1>5, <2>1, <2>3, <2>4 DEF LeftBehind
  <2>6. ASSUME NEW c \in Actor, StreamOf[c] = s, pc'[c] = "subscribed"
        PROVE  /\ c \in tracked' \ closed' /\ ref'[c] = k
               /\ <<s, k>> \notin completed'
    <3>1. pc[c] = "subscribed" /\ c # a /\ ref[c] = k
      BY <1>4, <1>7, <2>6
    <3>2. c \in tracked \ closed /\ <<s, k>> \notin completed
      BY <1>a, <2>6, <3>1 DEF Served, SubscribedIsDurable, Attached
    <3> QED
      BY <1>1, <2>1, <3>1, <3>2
  <2>7. \A e \in ToSet(volatile') : e[1] # s
    BY <1>3, <2>1
  <2>8. ref'[b] = k
    BY <1>1, <2>3
  <2>9. SubscribedIsDurable(s)'
    BY <2>3, <2>4, <2>5, <2>6, <2>7, <2>8 DEF SubscribedIsDurable, Attached
  <2> QED
    BY <1>9, <1>a, <2>9 DEF Served
<1> QED
    BY <1>10, <1>11

-----------------------------------------------------------------------------
LEMMA InitIInv == Init => IInv
<1> SUFFICES ASSUME Init PROVE IInv
    OBVIOUS
<1>1. ToSet(volatile) = {} /\ volatile \in Seq(RunningStates) /\ Len(volatile) = 0
    BY DEF Init, ToSet
<1>2. Buckets
    BY <1>1, SomeAssumptions DEF Init, Buckets, OnePerStream
<1>3. Actors
    BY SomeAssumptions DEF Init, Actors
<1>4. \A s \in Stream : Served(s)
    BY <1>1 DEF Init, Served, FindsAreGood, OneForAll, SubscribedIsDurable, Attached
<1> QED
    BY <1>2, <1>3, <1>4 DEF IInv

LEMMA NextIInv == IInv /\ [Next]_vars => IInv'
<1> SUFFICES ASSUME IInv, [Next]_vars PROVE IInv'
    OBVIOUS
<1>1. Buckets /\ Actors /\ Buckets' /\ Actors'
    BY NextBooks DEF IInv
<1>2. ASSUME NEW s \in Stream, Undisturbed(s) PROVE Served(s)'
  <2>1. Served(s)
    BY <1>2 DEF IInv
  <2>2. CASE UNCHANGED vars
    BY <2>1, <2>2 DEF vars, cache, Served, FindsAreGood, OneForAll, SubscribedIsDurable,
       Attached, SubscriptionSet, LeftBehind, Get
  <2>3. ASSUME NEW a \in Actor,
               \/ FindInMemory(a) \/ AskElsewhere(a) \/ Register(a) \/ FindNothing(a)
               \/ Attach(a) \/ Unsubscribe(a) \/ UnsubscribeEarly(a)
        PROVE  Served(s)'
    <3>1. CASE StreamOf[a] = s
      BY <1>1, <1>2, <2>1, <2>3, <3>1, FindInMemoryServes, AskElsewhereServes, RegisterServes,
         FindNothingServes, AttachServes, UnsubscribeServes, UnsubscribeEarlyServes
    <3>2. CASE StreamOf[a] # s
      <4>1. LeavesAlone(s)
        BY <1>1, <2>1, <2>3, <3>2, OtherActors DEF Served
      <4> QED
        BY <1>1, <2>1, <4>1, OthersServe
    <3> QED
      BY <3>1, <3>2
  <2> QED
    BY <2>2, <2>3 DEF Next
<1>3. \A s \in Stream : Undisturbed(s)' <=> Undisturbed(s)
    BY DEF Undisturbed
<1> QED
    BY <1>1, <1>2, <1>3 DEF IInv

LEMMA InductiveInvariant == Spec => []IInv
BY InitIInv, NextIInv, PTL DEF Spec

(* The buckets of the cache and what its users hold have their types.      *)
THEOREM SubscriptionsTypeCorrect == Spec => []TypeOK
<1>1. IInv => TypeOK
    BY DEF IInv, Buckets, Actors, TypeOK, RunningStates
<1> QED
    BY <1>1, InductiveInvariant, PTL

(* Subscribers of a stream that nobody resyncs stay subscribed to the      *)
(* RunningState that its updates use, whatever is loaded and evicted       *)
(* between their lookup and their attachment (repository.ts, updates$).    *)
THEOREM SubscribersStayServed == Spec => []SubscribersAreServed
<1>1. IInv => SubscribersAreServed
  <2> SUFFICES ASSUME IInv, NEW a \in Actor, Attached(a), Undisturbed(StreamOf[a])
               PROVE  /\ a \notin closed /\ <<StreamOf[a], ref[a]>> \notin completed
                      /\ Get(StreamOf[a]) = ref[a]
    BY DEF SubscribersAreServed
  <2>1. PICK s \in Stream : s = StreamOf[a]
    BY SomeAssumptions
  <2>2. SubscribedIsDurable(s) /\ MemoryOf(s)
    BY <2>1, GetIs DEF IInv, Served
  <2> QED
    BY <2>1, <2>2 DEF SubscribedIsDurable, MemoryOf
<1> QED
    BY <1>1, InductiveInvariant, PTL

(* The bucket without a limit keeps no state that nobody is subscribed to  *)
(* (state-cache.ts, free), except for subscribers that left too early.     *)
THEOREM NothingIsKeptForNobody == Spec => []DurableIsSubscribed
<1>1. IInv => DurableIsSubscribed
    BY DEF IInv, Served, SubscribedIsDurable, DurableIsSubscribed
<1> QED
    BY <1>1, InductiveInvariant, PTL

(***************************************************************************)
(* The command line: settings, one by one, then starts and commands.       *)
(***************************************************************************)
LEMMA OfMerged ==
    ASSUME NEW f, NEW g
    PROVE  /\ DOMAIN (f ++ g) = DOMAIN f \cup DOMAIN g
           /\ \A n : Of(f ++ g, n) = IF n \in DOMAIN f THEN f[n] ELSE Of(g, n)
           /\ HasValues(f) /\ HasValues(g) => HasValues(f ++ g)
  BY DEF ++, Of, HasValues

LEMMA OfOnly ==
    ASSUME NEW f, NEW S
    PROVE  /\ DOMAIN Only(f, S) = DOMAIN f \cap S
           /\ \A n : Of(Only(f, S), n) = IF n \in S THEN Of(f, n) ELSE NotGiven
           /\ HasValues(f) => HasValues(Only(f, S))
  BY DEF Only, Of, HasValues

LEMMA OfGiven ==
    ASSUME NEW option, NEW f, NEW changes
    PROVE  /\ HasValues(changes) => HasValues(Given(option, f, changes))
           /\ option \notin DOMAIN f => HasValues(Given(option, f, changes))
           /\ \A n : Of(Given(option, f, changes), n) =
                      IF option \in DOMAIN f THEN Of(changes, n) ELSE NotGiven
  BY DEF Given, Only, Of, HasValues

LEMMA SettingsAre ==
    Setting = {"casUrl", "rpc", "authMethod", "hostname", "port", "origins", "ipfsMode", "ipfsHost",
               "pinning", "noPeerData", "logLevel", "logDirectory", "logToFiles", "metricsExporter",
               "collector", "prometheus", "prometheusPort", "network", "topic", "seed", "readOnly",
               "sync", "cacheLimit", "storeMode", "storeDir", "bucket", "db", "noComposeDB"}
<1>1. DOMAIN Sections = {"anchor", "httpApi", "ipfs", "logger", "metrics", "network", "node",
                         "stateStore", "indexing"}
  BY DEF Sections
<1>2. Setting = Sections.anchor \cup Sections.httpApi \cup Sections.ipfs \cup Sections.logger
                \cup Sections.metrics \cup Sections.network \cup Sections.node
                \cup Sections.stateStore \cup Sections.indexing
  BY <1>1 DEF Setting
<1> QED
  BY <1>2 DEF Sections

LEMMA NothingHasValues == HasValues(<<>>) /\ DOMAIN <<>> = {}
  BY DEF HasValues

LEMMA DrawnHasValues ==
    ASSUME NEW n \in 0..MaxStarts, n > 0
    PROVE  Drawn[n] # NotGiven
<1> DEFINE Some == STRING \ {NotGiven}
<1>1. Drawn \in Seq(Some) /\ MaxStarts \in Nat /\ MaxStarts =< Len(Drawn)
  BY CommandLineAssumption
<1>2. NotGiven \notin Some
  OBVIOUS
<1> HIDE DEF Some
<1>3. n \in 1..Len(Drawn)
  BY <1>1
<1>4. Drawn[n] \in Some
  BY <1>1, <1>3
<1> QED
  BY <1>2, <1>4

(* The client's file and the command that is at work are what was wanted.  *)
CommandsInv ==
    /\ DOMAIN cli = {"n", "at", "next", "use", "config"} /\ cli.n \in 0..MaxStarts
    /\ cli.at \in {"done", "looking", "saving", "loaded", "acting"}
    /\ cli.at = "saving" => cli.next \in {"loaded", "done"}
    /\ cli.at # "done" => cli.n > 0 /\ (cli.use.what = "set" => HasValues(cli.use.variables))
    /\ HasValues(wanted)
    /\ cli.at \in {"saving", "loaded", "acting"} => cli.config = wanted
    /\ cli.at # "saving" =>
           wanted = IF cliFile.kind = "whole" THEN cliFile.config.of ELSE <<>>

HabitIsGiven == habit \in Habits \cup {NoHabit}

LEMMA CommandsStep ==
    ASSUME CommandsInv, HabitIsGiven, NextLine
    PROVE  CommandsInv'
<1>1. CASE UNCHANGED cliVars
  BY <1>1 DEF CommandsInv, cliVars
<1>2. CASE TypeCommand
  <2>1. PICK use \in habit.uses : cli' = [cli EXCEPT !.n = @ + 1, !.at = "looking", !.use = use]
    BY <1>2 DEF TypeCommand
  <2>2. use.what = "set" => HasValues(use.variables)
    <3>1. habit # NoHabit
      BY <2>1 DEF NoHabit
    <3> QED
      BY <2>1, <3>1, CommandLineAssumption DEF HabitIsGiven
  <2>3. cli.at = "done" /\ cli.n < MaxStarts /\ UNCHANGED <<cliFile, wanted>>
    BY <1>2 DEF TypeCommand
  <2>4. cli.n + 1 \in 0..MaxStarts /\ cli.n + 1 > 0
    <3>1. MaxStarts \in Nat
      BY CommandLineAssumption
    <3> QED
      BY <2>3, <3>1 DEF CommandsInv
  <2>5. /\ DOMAIN cli' = {"n", "at", "next", "use", "config"} /\ cli'.n = cli.n + 1
        /\ cli'.at = "looking" /\ cli'.use = use
    BY <2>1 DEF CommandsInv
  <2> QED
    BY <2>2, <2>3, <2>4, <2>5 DEF CommandsInv
<1>3. CASE LoadCliConfig
  <2>1. CASE cliFile.kind \in {"none", "empty"} /\ Save(<<>>, "loaded")
    BY <2>1, <1>3 DEF CommandsInv, LoadCliConfig, Save
  <2>2. CASE /\ cliFile.kind \in {"whole", "partial"}
             /\ cli' = [cli EXCEPT !.at = IF cliFile.kind = "whole" THEN "loaded" ELSE "done",
                                   !.config = cliFile.config.of]
             /\ UNCHANGED cliFile
    BY <2>2, <1>3 DEF CommandsInv, LoadCliConfig
  <2> QED
    BY <1>3, <2>1, <2>2 DEF LoadCliConfig
<1>4. CASE SaveConfig
  <2>1. cliFile'.kind = "whole" /\ cliFile'.config.of = cli.config
    BY <1>4 DEF SaveConfig, Whole, Nothing
  <2> QED
    BY <1>4, <2>1 DEF CommandsInv, SaveConfig
<1>5. CASE RunWithCeramicClient
  <2>1. CASE Of(cli.config, "seed") = NotGiven
    <3> DEFINE seed == [seed |-> Drawn[cli.n]]
    <3>1. Save(seed ++ cli.config, "loaded") /\ wanted' = wanted ++ seed
      BY <1>5, <2>1 DEF RunWithCeramicClient
    <3>2. cli.config = wanted /\ cli.n \in 0..MaxStarts /\ cli.n > 0
      BY <1>5 DEF CommandsInv, RunWithCeramicClient
    <3>3. "seed" \notin DOMAIN wanted
      BY <2>1, <3>2 DEF CommandsInv, Of, HasValues
    <3>4. seed ++ wanted = wanted ++ seed
      BY <3>3 DEF ++
    <3>5. HasValues(seed)
      <4>1. Drawn[cli.n] # NotGiven
        BY <3>2, DrawnHasValues
      <4>2. DOMAIN seed = {"seed"} /\ seed.seed = Drawn[cli.n]
        OBVIOUS
      <4> QED
        BY <4>1, <4>2 DEF HasValues
    <3>6. HasValues(wanted ++ seed)
      BY <3>5, OfMerged DEF CommandsInv
    <3> QED
      BY <3>1, <3>2, <3>4, <3>6, <1>5 DEF CommandsInv, Save, RunWithCeramicClient
  <2>2. CASE ~(Of(cli.config, "seed") = NotGiven)
    BY <1>5, <2>2 DEF CommandsInv, RunWithCeramicClient
  <2> QED
    BY <2>1, <2>2
<1>6. CASE SetCliConfig
  <2>1. HasValues(cli.use.variables ++ wanted)
    BY <1>6, OfMerged DEF CommandsInv, SetCliConfig
  <2> QED
    BY <1>6, <2>1 DEF CommandsInv, SetCliConfig, Save
<1>7. CASE UnsetCliConfig
  <2>1. HasValues(Only(wanted, DOMAIN wanted \ cli.use.variables))
    BY OfOnly DEF CommandsInv
  <2> QED
    BY <1>7, <2>1 DEF CommandsInv, UnsetCliConfig, Save
<1>8. CASE EndCommand
  <2>1. cli' = [cli EXCEPT !.at = "done", !.config = <<>>]
    BY <1>8 DEF EndCommand
  <2>2. CASE cli.at = "saving"
    <3>1. cliFile'.kind # "whole" /\ wanted' = <<>>
      BY <1>8, <2>2 DEF EndCommand, EmptyFile
    <3> QED
      BY <2>1, <3>1, NothingHasValues DEF CommandsInv
  <2>3. CASE cli.at # "saving"
    BY <1>8, <2>1, <2>3 DEF EndCommand, CommandsInv
  <2> QED
    BY <2>2, <2>3
<1> QED
  BY <1>1, <1>2, <1>3, <1>4, <1>5, <1>6, <1>7, <1>8 DEF NextLine

LEMMA OfFirst ==
    ASSUME NEW f, NEW g, HasValues(f), NEW n
    PROVE  Of(f ++ g, n) = IF Of(f, n) # NotGiven THEN Of(f, n) ELSE Of(g, n)
<1>1. n \in DOMAIN f => f[n] # NotGiven
  BY DEF HasValues
<1>2. Of(f, n) = IF n \in DOMAIN f THEN f[n] ELSE NotGiven
  BY DEF Of
<1>3. Of(f ++ g, n) = IF n \in DOMAIN f THEN f[n] ELSE Of(g, n)
  BY OfMerged
<1> QED
  BY <1>1, <1>2, <1>3

LEMMA OfKnown ==
    ASSUME NEW f, HasValues(f), NEW n
    PROVE  /\ n \in DOMAIN f <=> Of(f, n) # NotGiven
           /\ n \in DOMAIN f => f[n] = Of(f, n)
  BY DEF Of, HasValues

(* What flags and environment set.                                         *)
LEMMA FlagsMean ==
    ASSUME NEW flags, NEW env,
           DOMAIN flags \subseteq Flags, HasValues(flags),
           DOMAIN env \subseteq Environment, HasValues(env)
    PROVE  LET set == FromFlags(flags, env)
           IN  /\ HasValues(set)
               /\ \A n \in Setting \ {"ipfsMode", "ipfsHost", "logLevel", "storeMode"} :
                      Of(set, n) = IF Of(flags, n) # NotGiven THEN Of(flags, n)
                                   ELSE IF n = "noComposeDB" THEN Of(env, n) ELSE NotGiven
               /\ Of(set, "ipfsMode") = IF "ipfsApi" \in DOMAIN flags THEN "remote" ELSE NotGiven
               /\ Of(set, "ipfsHost") = Of(flags, "ipfsApi")
               /\ Of(set, "storeMode") = IF "storeDir" \in DOMAIN flags THEN "fs"
                                         ELSE IF "bucket" \in DOMAIN flags THEN "s3" ELSE NotGiven
<1> DEFINE api == Given("ipfsApi", flags, [ipfsMode |-> "remote", ipfsHost |-> Of(flags, "ipfsApi")])
           verbose == Given("verbose", flags, [logLevel |-> "verbose"])
           debug == Given("debug", flags, [logLevel |-> "debug"])
           dir == Given("storeDir", flags, [storeMode |-> "fs"])
           bucket == Given("bucket", flags, [storeMode |-> "s3"])
           same == Only(flags, Setting)
           late == Only(env, {"noComposeDB"})
<1>1. FromFlags(flags, env) = api ++ verbose ++ debug ++ dir ++ bucket ++ same ++ late
  BY DEF FromFlags
<1>3. /\ HasValues(api)
      /\ \A n : Of(api, n) = IF ~ ("ipfsApi" \in DOMAIN flags) THEN NotGiven
                             ELSE IF n = "ipfsMode" THEN "remote"
                             ELSE IF n = "ipfsHost" THEN Of(flags, "ipfsApi") ELSE NotGiven
  <2> DEFINE changes == [ipfsMode |-> "remote", ipfsHost |-> Of(flags, "ipfsApi")]
  <2>1. /\ DOMAIN changes = {"ipfsMode", "ipfsHost"} /\ changes["ipfsMode"] = "remote"
        /\ changes["ipfsHost"] = Of(flags, "ipfsApi")
    OBVIOUS
  <2> HIDE DEF changes
  <2>2. \A n : Of(changes, n) = IF n = "ipfsMode" THEN "remote"
                                ELSE IF n = "ipfsHost" THEN Of(flags, "ipfsApi") ELSE NotGiven
    BY <2>1 DEF Of
  <2>3. api = Given("ipfsApi", flags, changes)
    BY DEF changes
  <2>4. "ipfsApi" \in DOMAIN flags => HasValues(changes)
    <3>1. "ipfsApi" \in DOMAIN flags => Of(flags, "ipfsApi") # NotGiven
      BY OfKnown
    <3>2. "remote" # NotGiven
      BY DEF NotGiven
    <3> QED
      BY <2>1, <3>1, <3>2 DEF HasValues
  <2> HIDE DEF api
  <2>5. HasValues(api)
    BY <2>3, <2>4, OfGiven
  <2>6. \A n : Of(api, n) = IF "ipfsApi" \in DOMAIN flags THEN Of(changes, n) ELSE NotGiven
    BY <2>3, OfGiven
  <2> QED
    BY <2>2, <2>5, <2>6
<1>4. /\ HasValues(verbose) /\ \A n : n # "logLevel" => Of(verbose, n) = NotGiven
      /\ HasValues(debug) /\ \A n : n # "logLevel" => Of(debug, n) = NotGiven
  <2>1. /\ HasValues(verbose)
        /\ \A n : Of(verbose, n) = IF "verbose" \in DOMAIN flags /\ n = "logLevel" THEN "verbose" ELSE NotGiven
    <3> DEFINE change == [logLevel |-> "verbose"]
    <3>1. DOMAIN change = {"logLevel"} /\ change["logLevel"] = "verbose" /\ change["logLevel"] # NotGiven
      BY DEF NotGiven
    <3>2. verbose = Given("verbose", flags, change)
      OBVIOUS
    <3> HIDE DEF change, verbose
    <3>3. HasValues(change)
      BY <3>1 DEF HasValues
    <3>4. \A n : Of(change, n) = IF n = "logLevel" THEN "verbose" ELSE NotGiven
      BY <3>1 DEF Of
    <3>5. \A n : Of(verbose, n) = IF "verbose" \in DOMAIN flags THEN Of(change, n) ELSE NotGiven
      BY <3>2, OfGiven
    <3>6. HasValues(verbose)
      BY <3>2, <3>3, OfGiven
    <3> QED
      BY <3>4, <3>5, <3>6
  <2>2. /\ HasValues(debug)
        /\ \A n : Of(debug, n) = IF "debug" \in DOMAIN flags /\ n = "logLevel" THEN "debug" ELSE NotGiven
    <3> DEFINE change == [logLevel |-> "debug"]
    <3>1. DOMAIN change = {"logLevel"} /\ change["logLevel"] = "debug" /\ change["logLevel"] # NotGiven
      BY DEF NotGiven
    <3>2. debug = Given("debug", flags, change)
      OBVIOUS
    <3> HIDE DEF change, debug
    <3>3. HasValues(change)
      BY <3>1 DEF HasValues
    <3>4. \A n : Of(change, n) = IF n = "logLevel" THEN "debug" ELSE NotGiven
      BY <3>1 DEF Of
    <3>5. \A n : Of(debug, n) = IF "debug" \in DOMAIN flags THEN Of(change, n) ELSE NotGiven
      BY <3>2, OfGiven
    <3>6. HasValues(debug)
      BY <3>2, <3>3, OfGiven
    <3> QED
      BY <3>4, <3>5, <3>6
  <2> HIDE DEF verbose, debug
  <2>3. \A n : n # "logLevel" => Of(verbose, n) = NotGiven
    BY <2>1
  <2>4. \A n : n # "logLevel" => Of(debug, n) = NotGiven
    BY <2>2
  <2> QED
    BY <2>1, <2>2, <2>3, <2>4
<1>5. /\ HasValues(dir)
      /\ \A n : Of(dir, n) = IF "storeDir" \in DOMAIN flags /\ n = "storeMode" THEN "fs" ELSE NotGiven
      /\ HasValues(bucket)
      /\ \A n : Of(bucket, n) = IF "bucket" \in DOMAIN flags /\ n = "storeMode" THEN "s3" ELSE NotGiven
  <2>1. /\ HasValues(dir)
        /\ \A n : Of(dir, n) = IF "storeDir" \in DOMAIN flags /\ n = "storeMode" THEN "fs" ELSE NotGiven
    <3> DEFINE change == [storeMode |-> "fs"]
    <3>1. DOMAIN change = {"storeMode"} /\ change["storeMode"] = "fs" /\ change["storeMode"] # NotGiven
      BY DEF NotGiven
    <3>2. dir = Given("storeDir", flags, change)
      OBVIOUS
    <3> HIDE DEF change, dir
    <3>3. HasValues(change)
      BY <3>1 DEF HasValues
    <3>4. \A n : Of(change, n) = IF n = "storeMode" THEN "fs" ELSE NotGiven
      BY <3>1 DEF Of
    <3>5. \A n : Of(dir, n) = IF "storeDir" \in DOMAIN flags THEN Of(change, n) ELSE NotGiven
      BY <3>2, OfGiven
    <3>6. HasValues(dir)
      BY <3>2, <3>3, OfGiven
    <3> QED
      BY <3>4, <3>5, <3>6
  <2>2. /\ HasValues(bucket)
        /\ \A n : Of(bucket, n) = IF "bucket" \in DOMAIN flags /\ n = "storeMode" THEN "s3" ELSE NotGiven
    <3> DEFINE change == [storeMode |-> "s3"]
    <3>1. DOMAIN change = {"storeMode"} /\ change["storeMode"] = "s3" /\ change["storeMode"] # NotGiven
      BY DEF NotGiven
    <3>2. bucket = Given("bucket", flags, change)
      OBVIOUS
    <3> HIDE DEF change, bucket
    <3>3. HasValues(change)
      BY <3>1 DEF HasValues
    <3>4. \A n : Of(change, n) = IF n = "storeMode" THEN "s3" ELSE NotGiven
      BY <3>1 DEF Of
    <3>5. \A n : Of(bucket, n) = IF "bucket" \in DOMAIN flags THEN Of(change, n) ELSE NotGiven
      BY <3>2, OfGiven
    <3>6. HasValues(bucket)
      BY <3>2, <3>3, OfGiven
    <3> QED
      BY <3>4, <3>5, <3>6
  <2> QED
    BY <2>1, <2>2
<1>6. /\ HasValues(same) /\ \A n : Of(same, n) = IF n \in Setting THEN Of(flags, n) ELSE NotGiven
      /\ HasValues(late) /\ \A n : Of(late, n) = IF n = "noComposeDB" THEN Of(env, n) ELSE NotGiven
  BY OfOnly
<1> HIDE DEF api, verbose, debug, dir, bucket, same, late
<1>7. HasValues(FromFlags(flags, env))
  <2>1. \A f, g : HasValues(f) /\ HasValues(g) => HasValues(f ++ g)
    BY OfMerged
  <2> QED
    BY <1>1, <1>3, <1>4, <1>5, <1>6, <2>1
<1>8. \A n : Of(FromFlags(flags, env), n) =
             IF Of(api, n) # NotGiven THEN Of(api, n)
             ELSE IF Of(verbose, n) # NotGiven THEN Of(verbose, n)
             ELSE IF Of(debug, n) # NotGiven THEN Of(debug, n)
             ELSE IF Of(dir, n) # NotGiven THEN Of(dir, n)
             ELSE IF Of(bucket, n) # NotGiven THEN Of(bucket, n)
             ELSE IF Of(same, n) # NotGiven THEN Of(same, n) ELSE Of(late, n)
  <2>1. HasValues(api ++ verbose) /\ HasValues(api ++ verbose ++ debug)
        /\ HasValues(api ++ verbose ++ debug ++ dir)
        /\ HasValues(api ++ verbose ++ debug ++ dir ++ bucket)
        /\ HasValues(api ++ verbose ++ debug ++ dir ++ bucket ++ same)
    BY <1>3, <1>4, <1>5, <1>6, OfMerged
  <2>2. \A n : Of(api ++ verbose, n) = IF Of(api, n) # NotGiven THEN Of(api, n) ELSE Of(verbose, n)
    BY <1>3, OfFirst
  <2>3. \A n : Of(api ++ verbose ++ debug, n) =
               IF Of(api ++ verbose, n) # NotGiven THEN Of(api ++ verbose, n) ELSE Of(debug, n)
    BY <2>1, OfFirst
  <2>4. \A n : Of(api ++ verbose ++ debug ++ dir, n) =
               IF Of(api ++ verbose ++ debug, n) # NotGiven THEN Of(api ++ verbose ++ debug, n)
               ELSE Of(dir, n)
    BY <2>1, OfFirst
  <2>5. \A n : Of(api ++ verbose ++ debug ++ dir ++ bucket, n) =
               IF Of(api ++ verbose ++ debug ++ dir, n) # NotGiven
               THEN Of(api ++ verbose ++ debug ++ dir, n) ELSE Of(bucket, n)
    BY <2>1, OfFirst
  <2>6. \A n : Of(api ++ verbose ++ debug ++ dir ++ bucket ++ same, n) =
               IF Of(api ++ verbose ++ debug ++ dir ++ bucket, n) # NotGiven
               THEN Of(api ++ verbose ++ debug ++ dir ++ bucket, n) ELSE Of(same, n)
    BY <2>1, OfFirst
  <2>7. \A n : Of(FromFlags(flags, env), n) =
               IF Of(api ++ verbose ++ debug ++ dir ++ bucket ++ same, n) # NotGiven
               THEN Of(api ++ verbose ++ debug ++ dir ++ bucket ++ same, n) ELSE Of(late, n)
    BY <1>1, <2>1, OfFirst
  <2> QED
    BY <2>2, <2>3, <2>4, <2>5, <2>6, <2>7
<1>9. {"ipfsMode", "ipfsHost", "storeMode"} \subseteq Setting
      /\ {"ipfsMode", "ipfsHost", "storeMode"} \cap DOMAIN flags = {}
  BY SettingsAre DEF Flags
<1>10. \A n : n \notin DOMAIN flags => Of(flags, n) = NotGiven
  BY DEF Of
<1>11. \A n \in Setting \ {"ipfsMode", "ipfsHost", "logLevel", "storeMode"} :
           Of(FromFlags(flags, env), n) = IF Of(flags, n) # NotGiven THEN Of(flags, n)
                                          ELSE IF n = "noComposeDB" THEN Of(env, n) ELSE NotGiven
  BY <1>3, <1>4, <1>5, <1>6, <1>8
<1>12. /\ Of(FromFlags(flags, env), "ipfsMode") = IF "ipfsApi" \in DOMAIN flags THEN "remote" ELSE NotGiven
       /\ Of(FromFlags(flags, env), "ipfsHost") = Of(flags, "ipfsApi")
  BY <1>3, <1>4, <1>5, <1>6, <1>8, <1>9, <1>10
<1>13. Of(FromFlags(flags, env), "storeMode") =
           IF "storeDir" \in DOMAIN flags THEN "fs" ELSE IF "bucket" \in DOMAIN flags THEN "s3" ELSE NotGiven
  <2>1. "fs" # NotGiven /\ "s3" # NotGiven
    BY DEF NotGiven
  <2> QED
    BY <1>3, <1>4, <1>5, <1>6, <1>8, <1>9, <1>10, <2>1
<1> QED
  BY <1>7, <1>11, <1>12, <1>13

(* The settings that a start takes from its flags, environment and file.   *)
LEMMA OverrideMeans ==
    ASSUME NEW flags, NEW env, NEW base,
           DOMAIN flags \subseteq Flags, HasValues(flags),
           DOMAIN env \subseteq Environment, HasValues(env),
           "of" \in DOMAIN base, HasValues(base.of)
    PROVE  LET of == Override(base, flags, env).of
           IN  /\ HasValues(of)
               /\ \A n \in Setting \ {"ipfsMode", "ipfsHost", "logLevel", "storeMode", "cacheLimit"} :
                      Of(of, n) = Of(flags ++ env ++ base.of, n)
               /\ Of(of, "cacheLimit") = Of(base.of, "cacheLimit")
               /\ \A n : Of(flags ++ env ++ base.of, n) =
                             IF Of(flags, n) # NotGiven THEN Of(flags, n)
                             ELSE IF Of(env, n) # NotGiven THEN Of(env, n) ELSE Of(base.of, n)
               /\ "ipfsApi" \in DOMAIN flags =>
                      Of(of, "ipfsMode") = "remote" /\ Of(of, "ipfsHost") = flags.ipfsApi
               /\ Of(of, "storeMode") = IF "storeDir" \in DOMAIN flags THEN "fs"
                                        ELSE IF "bucket" \in DOMAIN flags THEN "s3"
                                        ELSE Of(base.of, "storeMode")
<1> DEFINE of == Override(base, flags, env).of
           first == FromFlags(flags, env)
           second == FromEnv(env)
<1>1. of = first ++ second ++ base.of
  BY DEF Override
<1>2. /\ HasValues(first)
      /\ \A n \in Setting \ {"ipfsMode", "ipfsHost", "logLevel", "storeMode"} :
             Of(first, n) = IF Of(flags, n) # NotGiven THEN Of(flags, n)
                            ELSE IF n = "noComposeDB" THEN Of(env, n) ELSE NotGiven
      /\ Of(first, "ipfsMode") = IF "ipfsApi" \in DOMAIN flags THEN "remote" ELSE NotGiven
      /\ Of(first, "ipfsHost") = Of(flags, "ipfsApi")
      /\ Of(first, "storeMode") = IF "storeDir" \in DOMAIN flags THEN "fs"
                                  ELSE IF "bucket" \in DOMAIN flags THEN "s3" ELSE NotGiven
  BY FlagsMean
<1> DEFINE taken == {"db", "metricsExporter", "collector", "prometheus", "prometheusPort",
                     "seed", "noPeerData"}
<1>3. /\ HasValues(second)
      /\ \A n : Of(second, n) = IF n \in taken THEN Of(env, n) ELSE NotGiven
  <2>1. second = Only(env, taken)
    BY DEF FromEnv
  <2> HIDE DEF second, taken
  <2>2. HasValues(second)
    BY <2>1, OfOnly
  <2>3. \A n : Of(Only(env, taken), n) = IF n \in taken THEN Of(env, n) ELSE NotGiven
    BY OfOnly
  <2> QED
    BY <2>1, <2>2, <2>3
<1> HIDE DEF of, first, second
<1>4. HasValues(first ++ second)
  BY <1>2, <1>3, OfMerged
<1>5. HasValues(of)
  BY <1>1, <1>4, OfMerged
<1>6. \A n : Of(first ++ second, n) = IF Of(first, n) # NotGiven THEN Of(first, n) ELSE Of(second, n)
  BY <1>2, OfFirst
<1>7. \A n : Of(of, n) = IF Of(first ++ second, n) # NotGiven THEN Of(first ++ second, n)
                         ELSE Of(base.of, n)
  BY <1>1, <1>4, OfFirst
<1>8. \A n : Of(flags ++ env ++ base.of, n) =
                 IF Of(flags, n) # NotGiven THEN Of(flags, n)
                 ELSE IF Of(env, n) # NotGiven THEN Of(env, n) ELSE Of(base.of, n)
  <2>1. HasValues(flags ++ env)
    BY OfMerged
  <2>2. \A n : Of(flags ++ env ++ base.of, n) =
               IF Of(flags ++ env, n) # NotGiven THEN Of(flags ++ env, n) ELSE Of(base.of, n)
    BY <2>1, OfFirst
  <2>3. \A n : Of(flags ++ env, n) = IF Of(flags, n) # NotGiven THEN Of(flags, n) ELSE Of(env, n)
    BY OfFirst
  <2> QED
    BY <2>2, <2>3
<1>9. \A n \in Setting \ (taken \cup {"noComposeDB", "cacheLimit"}) : n \notin DOMAIN env
  BY SettingsAre DEF Environment
<1>10. \A n : /\ n \notin DOMAIN env => Of(env, n) = NotGiven
              /\ n \notin DOMAIN flags => Of(flags, n) = NotGiven
  BY DEF Of
<1>11. \A n \in Setting \ {"ipfsMode", "ipfsHost", "logLevel", "storeMode", "cacheLimit"} :
           Of(of, n) = Of(flags ++ env ++ base.of, n)
  <2> SUFFICES ASSUME NEW n \in Setting \ {"ipfsMode", "ipfsHost", "logLevel", "storeMode", "cacheLimit"}
               PROVE  Of(of, n) = Of(flags ++ env ++ base.of, n)
    OBVIOUS
  <2>1. CASE n = "noComposeDB"
    <3>1. Of(second, n) = NotGiven
      BY <1>3, <2>1
    <3> QED
      BY <1>2, <1>6, <1>7, <1>8, <2>1, <3>1
  <2>2. CASE n \in taken
    <3>1. Of(first, n) = Of(flags, n)
      BY <1>2, <2>2
    <3>2. Of(second, n) = Of(env, n)
      BY <1>3, <2>2
    <3> QED
      BY <1>6, <1>7, <1>8, <3>1, <3>2
  <2>3. CASE n \notin taken /\ n # "noComposeDB"
    <3>1. Of(first, n) = Of(flags, n)
      BY <1>2, <2>3
    <3>2. Of(second, n) = NotGiven
      BY <1>3, <2>3
    <3>3. Of(env, n) = NotGiven
      BY <1>9, <1>10, <2>3
    <3> QED
      BY <1>6, <1>7, <1>8, <3>1, <3>2, <3>3
  <2> QED
    BY <2>1, <2>2, <2>3
<1>12. Of(of, "cacheLimit") = Of(base.of, "cacheLimit")
  <2>1. "cacheLimit" \in Setting /\ "cacheLimit" \notin DOMAIN flags
    BY SettingsAre DEF Flags
  <2>2. Of(first, "cacheLimit") = NotGiven
    BY <1>2, <1>10, <2>1
  <2>3. Of(second, "cacheLimit") = NotGiven
    BY <1>3
  <2> QED
    BY <1>6, <1>7, <2>2, <2>3
<1>13. "ipfsApi" \in DOMAIN flags =>
           Of(of, "ipfsMode") = "remote" /\ Of(of, "ipfsHost") = flags.ipfsApi
  <2>1. "remote" # NotGiven
    BY DEF NotGiven
  <2>2. "ipfsApi" \in DOMAIN flags => Of(flags, "ipfsApi") # NotGiven
                                      /\ flags["ipfsApi"] = Of(flags, "ipfsApi")
    BY OfKnown
  <2> QED
    BY <1>2, <1>6, <1>7, <2>1, <2>2
<1>14. Of(of, "storeMode") = IF "storeDir" \in DOMAIN flags THEN "fs"
                             ELSE IF "bucket" \in DOMAIN flags THEN "s3"
                             ELSE Of(base.of, "storeMode")
  <2>1. "fs" # NotGiven /\ "s3" # NotGiven
    BY DEF NotGiven
  <2>2. Of(second, "storeMode") = NotGiven
    BY <1>3
  <2> QED
    BY <1>2, <1>6, <1>7, <2>1, <2>2
<1> QED
  BY <1>5, <1>8, <1>11, <1>12, <1>13, <1>14 DEF of

(* What is passed on to Ceramic.                                           *)
LEMMA PassedOn ==
    ASSUME NEW config, NEW env, HasValues(config.of)
    PROVE  LET of == MakeCeramicConfig(config, env)
           IN  /\ HasValues(of)
               /\ \A n \in Setting \ {"storeDir", "noPeerData"} : Of(of, n) = Of(config.of, n)
               /\ Of(of, "storeDir") = IF Of(config.of, "storeMode") = "fs"
                                       THEN Of(config.of, "storeDir") ELSE NotGiven
               /\ Of(of, "noPeerData") =
                      IF Of(config.of, "noPeerData") # NotGiven THEN Of(config.of, "noPeerData")
                      ELSE IF "noPeerDataToo" \in DOMAIN env THEN "true" ELSE NotGiven
<1> DEFINE of == MakeCeramicConfig(config, env)
           names == IF Of(config.of, "storeMode") = "fs" THEN Setting ELSE Setting \ {"storeDir"}
           first == Only(config.of, names)
           change == [noPeerData |-> "true"]
           second == Given("noPeerDataToo", env, change)
<1>1. of = first ++ second
  BY DEF MakeCeramicConfig
<1>2. DOMAIN change = {"noPeerData"} /\ change["noPeerData"] = "true" /\ "true" # NotGiven
  BY DEF NotGiven
<1> HIDE DEF change, names
<1>3. HasValues(change)
  BY <1>2 DEF HasValues
<1>4. \A n : Of(change, n) = IF n = "noPeerData" THEN "true" ELSE NotGiven
  BY <1>2 DEF Of
<1>5. HasValues(first)
  BY OfOnly
<1>6. \A n : Of(first, n) = IF n \in names THEN Of(config.of, n) ELSE NotGiven
  BY OfOnly
<1>7. HasValues(second)
  BY <1>3, OfGiven
<1>8. \A n : Of(second, n) = IF "noPeerDataToo" \in DOMAIN env THEN Of(change, n) ELSE NotGiven
  BY OfGiven
<1> HIDE DEF first, second, of
<1>9. HasValues(of)
  BY <1>1, <1>5, <1>7, OfMerged
<1>10. \A n : Of(of, n) = IF Of(first, n) # NotGiven THEN Of(first, n) ELSE Of(second, n)
  BY <1>1, <1>5, OfFirst
<1>11. \A n : n # "noPeerData" => Of(of, n) = Of(first, n)
  BY <1>4, <1>8, <1>10
<1>12. /\ Setting \ {"storeDir"} \subseteq names
       /\ "storeDir" \in names <=> Of(config.of, "storeMode") = "fs"
       /\ "noPeerData" \in names
  BY SettingsAre DEF names
<1>13. \A n \in Setting \ {"storeDir", "noPeerData"} : Of(of, n) = Of(config.of, n)
  BY <1>6, <1>11, <1>12
<1>14. Of(of, "storeDir") = IF Of(config.of, "storeMode") = "fs"
                            THEN Of(config.of, "storeDir") ELSE NotGiven
  BY <1>6, <1>11, <1>12
<1>15. Of(of, "noPeerData") =
           IF Of(config.of, "noPeerData") # NotGiven THEN Of(config.of, "noPeerData")
           ELSE IF "noPeerDataToo" \in DOMAIN env THEN "true" ELSE NotGiven
  BY <1>4, <1>6, <1>8, <1>10, <1>12
<1> QED
  BY <1>9, <1>13, <1>14, <1>15 DEF of

LEMMA FixedAre ==
    /\ \A n : Of(Fixed, n) = CASE n = "network" -> "inmemory" [] n = "hostname" -> "0.0.0.0"
                               [] n = "port" -> "7007" [] n = "cacheLimit" -> "500"
                               [] n = "storeDir" -> "/home/statestore"
                               [] n = "ipfsMode" -> "bundled" [] OTHER -> NotGiven
    /\ HasValues(Fixed)
<1>1. /\ DOMAIN Fixed = {"network", "hostname", "port", "cacheLimit", "storeDir", "ipfsMode"}
      /\ Fixed["network"] = "inmemory" /\ Fixed["hostname"] = "0.0.0.0" /\ Fixed["port"] = "7007"
      /\ Fixed["cacheLimit"] = "500" /\ Fixed["storeDir"] = "/home/statestore"
      /\ Fixed["ipfsMode"] = "bundled"
  BY DEF Fixed
<1>2. \A n : Of(Fixed, n) = CASE n = "network" -> "inmemory" [] n = "hostname" -> "0.0.0.0"
                               [] n = "port" -> "7007" [] n = "cacheLimit" -> "500"
                               [] n = "storeDir" -> "/home/statestore"
                               [] n = "ipfsMode" -> "bundled" [] OTHER -> NotGiven
  BY <1>1 DEF Of
<1>3. HasValues(Fixed)
  BY <1>1 DEF HasValues, NotGiven
<1> QED
  BY <1>2, <1>3

LEMMA SyncTaken ==
    ASSUME NEW of
    PROVE  LoadOptsOverride(of) =
               IF Of(of, "sync") \in {"sync-always", "never-sync"} THEN Of(of, "sync") ELSE NotGiven
<1>1. /\ DOMAIN SyncOptions = {"prefer-cache", "sync-always", "never-sync"}
      /\ SyncOptions["prefer-cache"] = 0 /\ SyncOptions["sync-always"] = 1
      /\ SyncOptions["never-sync"] = 2
  BY DEF SyncOptions
<1> QED
  BY <1>1 DEF LoadOptsOverride

(* The node of a daemon that comes up has what was asked for.              *)
AsAsked(up, flags, env, base) ==
    LET asked(name) == Of(flags ++ env ++ base.of, name)
    IN  /\ \A name \in Setting \ {"ipfsMode", "ipfsHost", "logLevel", "storeMode", "storeDir",
                                  "noPeerData"} :
               up.of[name] = IF TakenForNone(name, asked(name))
                             THEN DefaultOf(name, up.of.network) ELSE asked(name)
        /\ Of(flags, "ipfsApi") # NotGiven =>
               up.of.ipfsMode = "remote" /\ up.of.ipfsHost = flags.ipfsApi
        /\ up.store =
               IF "storeDir" \in DOMAIN flags THEN <<"fs", flags.storeDir>>
               ELSE IF "bucket" \in DOMAIN flags THEN <<"s3", flags.bucket>>
               ELSE IF Of(base.of, "storeMode") = "s3" THEN <<"s3", Of(base.of, "bucket")>>
               ELSE <<"fs", IF Of(base.of, "storeMode") = "fs"
                            THEN Of(base.of ++ Fixed, "storeDir") ELSE Fixed.storeDir>>
        /\ (up.of.noPeerData # NotGiven) <=>
               (asked("noPeerData") # NotGiven \/ "noPeerDataToo" \in DOMAIN env)
        /\ asked("readOnly") # NotGiven =>
               up.anchors # "authenticated" /\ up.routes.applyCommit = "refused"

LEMMA NodeAsConfigured ==
    ASSUME NEW flags, NEW env, NEW base, NEW agent,
           DOMAIN flags \subseteq Flags, HasValues(flags),
           DOMAIN env \subseteq Environment, HasValues(env),
           "of" \in DOMAIN base, HasValues(base.of),
           NEW config, config = Override(base, flags, env), MayOverride(base, flags, env),
           NEW up, up = NodeOf(config, env, agent)
    PROVE  AsAsked(up, flags, env, base)
<1> DEFINE asked(name) == Of(flags ++ env ++ base.of, name)
           of == MakeCeramicConfig(config, env)
           network == NetworkOf(config)
           effective(name) ==
               CASE name = "sync" -> LoadOptsOverride(of)
                 [] name = "port" -> PortOf(config)
                 [] name = "cacheLimit" -> Of(Only(env, {name}) ++ of ++ Fixed, name)
                 [] OTHER -> Of(of ++ [x \in {name} |-> DefaultOf(x, network)], name)
<1>1. /\ \A name \in Setting : up.of[name] = effective(name)
      /\ up.store = IF Of(of, "storeMode") = "s3" THEN <<"s3", Of(of, "bucket")>>
                    ELSE <<"fs", Of(of ++ Fixed, "storeDir")>>
      /\ up.anchors = MakeAnchorService(config) /\ up.routes = RegisterAPIPaths(config)
  BY DEF NodeOf
<1>2. /\ HasValues(config.of)
      /\ \A n \in Setting \ {"ipfsMode", "ipfsHost", "logLevel", "storeMode", "cacheLimit"} :
             Of(config.of, n) = asked(n)
      /\ Of(config.of, "cacheLimit") = Of(base.of, "cacheLimit")
      /\ \A n : asked(n) = IF Of(flags, n) # NotGiven THEN Of(flags, n)
                           ELSE IF Of(env, n) # NotGiven THEN Of(env, n) ELSE Of(base.of, n)
      /\ "ipfsApi" \in DOMAIN flags =>
             Of(config.of, "ipfsMode") = "remote" /\ Of(config.of, "ipfsHost") = flags.ipfsApi
      /\ Of(config.of, "storeMode") = IF "storeDir" \in DOMAIN flags THEN "fs"
                                      ELSE IF "bucket" \in DOMAIN flags THEN "s3"
                                      ELSE Of(base.of, "storeMode")
  BY OverrideMeans
<1>3. /\ HasValues(of)
      /\ \A n \in Setting \ {"storeDir", "noPeerData"} : Of(of, n) = Of(config.of, n)
      /\ Of(of, "storeDir") = IF Of(config.of, "storeMode") = "fs"
                              THEN Of(config.of, "storeDir") ELSE NotGiven
      /\ Of(of, "noPeerData") =
             IF Of(config.of, "noPeerData") # NotGiven THEN Of(config.of, "noPeerData")
             ELSE IF "noPeerDataToo" \in DOMAIN env THEN "true" ELSE NotGiven
  BY <1>2, PassedOn
<1>4. ~ ({"storeDir", "bucket"} \subseteq DOMAIN flags)
  BY DEF MayOverride
<1> HIDE DEF of, network, asked
<1>5. {"network", "sync", "port", "cacheLimit", "ipfsMode", "ipfsHost", "storeMode", "storeDir",
       "noPeerData", "bucket", "readOnly"} \subseteq Setting
  BY SettingsAre
<1>6. \A n \in Setting \ {"sync", "port", "cacheLimit"} :
          up.of[n] = IF Of(of, n) # NotGiven THEN Of(of, n) ELSE DefaultOf(n, network)
  <2> SUFFICES ASSUME NEW n \in Setting \ {"sync", "port", "cacheLimit"}
               PROVE  up.of[n] = IF Of(of, n) # NotGiven THEN Of(of, n) ELSE DefaultOf(n, network)
    OBVIOUS
  <2> DEFINE default == [x \in {n} |-> DefaultOf(x, network)]
  <2>1. up.of[n] = Of(of ++ default, n)
    BY <1>1
  <2>2. Of(default, n) = DefaultOf(n, network)
    BY DEF Of
  <2> HIDE DEF default
  <2>3. Of(of ++ default, n) = IF Of(of, n) # NotGiven THEN Of(of, n) ELSE Of(default, n)
    BY <1>3, OfFirst
  <2> QED
    BY <2>1, <2>2, <2>3
<1>7. up.of.network = network
  <2>1. network = IF Of(config.of, "network") # NotGiven THEN Of(config.of, "network") ELSE "inmemory"
    <3>1. Of(config.of ++ Fixed, "network") =
              IF Of(config.of, "network") # NotGiven THEN Of(config.of, "network")
              ELSE Of(Fixed, "network")
      BY <1>2, OfFirst
    <3>2. Of(Fixed, "network") = "inmemory"
      BY FixedAre
    <3> QED
      BY <3>1, <3>2 DEF network, NetworkOf
  <2>2. DefaultOf("network", network) = "inmemory"
    BY FixedAre DEF DefaultOf
  <2>3. Of(of, "network") = Of(config.of, "network")
    BY <1>3, <1>5
  <2> QED
    BY <1>5, <1>6, <2>1, <2>2, <2>3
<1>8. \A n \in Setting \ {"ipfsMode", "ipfsHost", "logLevel", "storeMode", "storeDir", "noPeerData"} :
          up.of[n] = IF TakenForNone(n, asked(n)) THEN DefaultOf(n, network) ELSE asked(n)
  <2> SUFFICES ASSUME NEW n \in Setting \ {"ipfsMode", "ipfsHost", "logLevel", "storeMode",
                                            "storeDir", "noPeerData"}
               PROVE  up.of[n] = IF TakenForNone(n, asked(n)) THEN DefaultOf(n, network) ELSE asked(n)
    OBVIOUS
  <2>1. n # "cacheLimit" => Of(config.of, n) = asked(n)
    BY <1>2
  <2>2. Of(of, n) = Of(config.of, n)
    BY <1>3
  <2>3. CASE n = "sync"
    <3>1. up.of[n] = LoadOptsOverride(of)
      BY <1>1, <2>3
    <3>2. up.of[n] = IF asked(n) \in {"sync-always", "never-sync"} THEN asked(n) ELSE NotGiven
      BY <2>1, <2>2, <2>3, <3>1, SyncTaken
    <3>3. DefaultOf(n, network) = NotGiven
      BY <2>3, FixedAre DEF DefaultOf
    <3>4. TakenForNone(n, asked(n)) <=> asked(n) \notin {"sync-always", "never-sync"}
      BY <2>3 DEF TakenForNone, NotGiven
    <3> QED
      BY <3>2, <3>3, <3>4
  <2>4. CASE n = "port"
    <3>1. up.of[n] = PortOf(config)
      BY <1>1, <2>4
    <3>2. up.of[n] = IF asked(n) \in {NotGiven, "0"} THEN Fixed.port ELSE asked(n)
      BY <2>1, <2>4, <3>1 DEF PortOf
    <3>3. DefaultOf(n, network) = "7007" /\ Fixed.port = "7007"
      BY <2>4, FixedAre DEF DefaultOf, Fixed
    <3>4. TakenForNone(n, asked(n)) <=> asked(n) \in {NotGiven, "0"}
      BY <2>4 DEF TakenForNone
    <3> QED
      BY <3>2, <3>3, <3>4
  <2>5. CASE n = "cacheLimit"
    <3> DEFINE own == Only(env, {n})
    <3>1. up.of[n] = Of(own ++ of ++ Fixed, n)
      BY <1>1, <2>5
    <3>2. HasValues(own) /\ Of(own, n) = Of(env, n)
      BY OfOnly
    <3> HIDE DEF own
    <3>3. HasValues(own ++ of)
      BY <1>3, <3>2, OfMerged
    <3>4. Of(own ++ of ++ Fixed, n) = IF Of(own ++ of, n) # NotGiven THEN Of(own ++ of, n) ELSE Of(Fixed, n)
      BY <3>3, OfFirst
    <3>5. Of(own ++ of, n) = IF Of(own, n) # NotGiven THEN Of(own, n) ELSE Of(of, n)
      BY <3>2, OfFirst
    <3>6. Of(flags, n) = NotGiven
      BY <2>5 DEF Of, Flags
    <3>7. Of(own ++ of, n) = asked(n)
      BY <1>2, <2>2, <2>5, <3>2, <3>5, <3>6
    <3>8. DefaultOf(n, network) = Of(Fixed, n)
      BY <2>5 DEF DefaultOf
    <3>9. TakenForNone(n, asked(n)) <=> asked(n) = NotGiven
      BY <2>5 DEF TakenForNone
    <3> QED
      BY <3>1, <3>4, <3>7, <3>8, <3>9
  <2>6. CASE n \notin {"sync", "port", "cacheLimit"}
    <3>1. TakenForNone(n, asked(n)) <=> asked(n) = NotGiven
      BY <2>6 DEF TakenForNone
    <3> QED
      BY <1>6, <2>1, <2>2, <2>6, <3>1
  <2> QED
    BY <2>3, <2>4, <2>5, <2>6
<1>9. Of(flags, "ipfsApi") # NotGiven =>
          up.of.ipfsMode = "remote" /\ up.of.ipfsHost = flags.ipfsApi
  <2> HAVE Of(flags, "ipfsApi") # NotGiven
  <2>1. "ipfsApi" \in DOMAIN flags /\ flags["ipfsApi"] # NotGiven /\ "remote" # NotGiven
    BY OfKnown DEF NotGiven
  <2>2. Of(of, "ipfsMode") = "remote" /\ Of(of, "ipfsHost") = flags.ipfsApi
    BY <1>2, <1>3, <1>5, <2>1
  <2> QED
    BY <1>5, <1>6, <2>1, <2>2
<1>10. up.store =
           IF "storeDir" \in DOMAIN flags THEN <<"fs", flags.storeDir>>
           ELSE IF "bucket" \in DOMAIN flags THEN <<"s3", flags.bucket>>
           ELSE IF Of(base.of, "storeMode") = "s3" THEN <<"s3", Of(base.of, "bucket")>>
           ELSE <<"fs", IF Of(base.of, "storeMode") = "fs"
                        THEN Of(base.of ++ Fixed, "storeDir") ELSE Fixed.storeDir>>
  <2>1. /\ Of(of, "storeMode") = Of(config.of, "storeMode")
        /\ Of(of, "bucket") = asked("bucket") /\ Of(config.of, "storeDir") = asked("storeDir")
    BY <1>2, <1>3, <1>5
  <2>2. Of(of ++ Fixed, "storeDir") = IF Of(of, "storeDir") # NotGiven THEN Of(of, "storeDir")
                                      ELSE Of(Fixed, "storeDir")
    BY <1>3, OfFirst
  <2>3. Of(base.of ++ Fixed, "storeDir") =
            IF Of(base.of, "storeDir") # NotGiven THEN Of(base.of, "storeDir") ELSE Of(Fixed, "storeDir")
    BY OfFirst
  <2>4. Of(Fixed, "storeDir") = Fixed.storeDir
    BY DEF Of, Fixed
  <2>5. Of(env, "storeDir") = NotGiven /\ Of(env, "bucket") = NotGiven
    BY DEF Of, Environment
  <2>6. /\ "storeDir" \in DOMAIN flags => Of(flags, "storeDir") # NotGiven
                                         /\ flags["storeDir"] = Of(flags, "storeDir")
        /\ "bucket" \in DOMAIN flags => Of(flags, "bucket") # NotGiven
                                       /\ flags["bucket"] = Of(flags, "bucket")
        /\ "storeDir" \notin DOMAIN flags => Of(flags, "storeDir") = NotGiven
        /\ "bucket" \notin DOMAIN flags => Of(flags, "bucket") = NotGiven
    BY OfKnown
  <2>7. CASE "storeDir" \in DOMAIN flags
    <3>1. Of(of, "storeMode") = "fs" /\ Of(of, "storeDir") = flags.storeDir
      BY <1>2, <1>3, <2>1, <2>6, <2>7
    <3> QED
      BY <1>1, <2>2, <2>6, <2>7, <3>1
  <2>8. CASE "storeDir" \notin DOMAIN flags /\ "bucket" \in DOMAIN flags
    <3>1. Of(of, "storeMode") = "s3" /\ Of(of, "bucket") = flags.bucket
      BY <1>2, <2>1, <2>6, <2>8
    <3> QED
      BY <1>1, <2>8, <3>1
  <2>9. CASE "storeDir" \notin DOMAIN flags /\ "bucket" \notin DOMAIN flags
    <3>1. /\ Of(of, "storeMode") = Of(base.of, "storeMode") /\ Of(of, "bucket") = Of(base.of, "bucket")
          /\ Of(of, "storeDir") = IF Of(base.of, "storeMode") = "fs" THEN Of(base.of, "storeDir")
                                   ELSE NotGiven
      BY <1>2, <1>3, <2>1, <2>5, <2>6, <2>9
    <3> QED
      BY <1>1, <2>2, <2>3, <2>4, <2>9, <3>1
  <2> QED
    BY <2>7, <2>8, <2>9
<1>11. (up.of.noPeerData # NotGiven) <=>
           (asked("noPeerData") # NotGiven \/ "noPeerDataToo" \in DOMAIN env)
  <2>1. DefaultOf("noPeerData", network) = NotGiven
    BY FixedAre DEF DefaultOf
  <2>2. up.of.noPeerData = Of(of, "noPeerData")
    BY <1>5, <1>6, <2>1
  <2>3. Of(config.of, "noPeerData") = asked("noPeerData") /\ "true" # NotGiven
    BY <1>2, <1>5 DEF NotGiven
  <2> QED
    BY <1>3, <2>2, <2>3
<1>12. asked("readOnly") # NotGiven =>
           up.anchors # "authenticated" /\ up.routes.applyCommit = "refused"
  <2>1. Of(config.of, "readOnly") = asked("readOnly")
    BY <1>2, <1>5
  <2>2. asked("readOnly") # NotGiven => MakeAnchorService(config) # "authenticated"
    BY <2>1 DEF MakeAnchorService
  <2>3. asked("readOnly") # NotGiven => RegisterAPIPaths(config).applyCommit = "refused"
    BY <2>1 DEF RegisterAPIPaths
  <2> QED
    BY <1>1, <2>2, <2>3
<1> QED
  BY <1>7, <1>8, <1>9, <1>10, <1>11, <1>12 DEF asked, AsAsked

LEMMA Expanded ==
    ASSUME NEW config, "of" \in DOMAIN config, HasValues(config.of),
           {config.of[name] : name \in DOMAIN config.of \cap {"logDirectory", "storeDir"}}
               \subseteq DOMAIN FromFile
    PROVE  "of" \in DOMAIN ExpandPaths(config) /\ HasValues(ExpandPaths(config).of)
<1> DEFINE paths == [name \in {"logDirectory", "storeDir"} \cap DOMAIN config.of |->
                         FromFile[config.of[name]]]
<1>1. ExpandPaths(config).of = paths ++ config.of /\ "of" \in DOMAIN ExpandPaths(config)
  BY DEF ExpandPaths
<1>2. HasValues(paths)
  BY CommandLineAssumption DEF HasValues
<1> HIDE DEF paths
<1>3. HasValues(paths ++ config.of)
  BY <1>2, OfMerged
<1> QED
  BY <1>1, <1>3

(* The default configuration is saved whole.                               *)
LEMMA DefaultIsSaved ==
    ASSUME NEW seed, seed # NotGiven
    PROVE  /\ "of" \in DOMAIN DefaultConfig(seed) /\ HasValues(DefaultConfig(seed).of)
           /\ ExpandPaths(PlainConfig(DefaultConfig(seed))) = DefaultConfig(seed)
<1> DEFINE config == DefaultConfig(seed)
           of == config.of
<1>1. /\ DOMAIN of = {"authMethod", "origins", "ipfsMode", "ipfsHost", "logLevel", "network", "seed",
                      "storeMode", "storeDir", "db"}
      /\ of = [name \in DOMAIN of |-> of[name]]
      /\ of["storeDir"] = "/home/statestore"
      /\ HasValues(of)
  <2> DEFINE r == [authMethod |-> "did", origins |-> ".*", ipfsMode |-> "remote",
             ipfsHost |-> "http://localhost:5101", logLevel |-> "important",
             network |-> "testnet-clay", seed |-> seed, storeMode |-> "fs",
             storeDir |-> "/home/statestore", db |-> "sqlite:///home/indexing"]
  <2>1. of = r
    BY DEF DefaultConfig
  <2>2. DOMAIN r = {"authMethod", "origins", "ipfsMode", "ipfsHost", "logLevel", "network", "seed",
                    "storeMode", "storeDir", "db"}
    OBVIOUS
  <2>3. r = [name \in DOMAIN r |-> r[name]]
    OBVIOUS
  <2>4. r["storeDir"] = "/home/statestore"
    OBVIOUS
  <2>5. /\ r["authMethod"] = "did" /\ r["origins"] = ".*" /\ r["ipfsMode"] = "remote"
        /\ r["ipfsHost"] = "http://localhost:5101" /\ r["logLevel"] = "important"
        /\ r["network"] = "testnet-clay" /\ r["seed"] = seed /\ r["storeMode"] = "fs"
        /\ r["db"] = "sqlite:///home/indexing"
    OBVIOUS
  <2> HIDE DEF r
  <2>6. \A name \in DOMAIN r : r[name] # NotGiven
    BY <2>2, <2>4, <2>5 DEF NotGiven
  <2> QED
    BY <2>1, <2>2, <2>3, <2>4, <2>6 DEF HasValues
<1>2. config = [sections |-> config.sections, of |-> of]
  BY DEF DefaultConfig
<1>3. DOMAIN of \subseteq Setting
  BY <1>1, SettingsAre
<1> HIDE DEF config, of
<1>4. PlainConfig(config) = config
  <2>1. ToPlainJson(config) = [sections |-> config.sections, of |-> Only(of, Setting \ {"seed"})]
    BY <1>2 DEF ToPlainJson
  <2>2. PlainConfig(config) =
            [sections |-> config.sections, of |-> Only(of, {"seed"}) ++ Only(of, Setting \ {"seed"})]
    BY <2>1, <1>2 DEF PlainConfig
  <2>3. Only(of, {"seed"}) ++ Only(of, Setting \ {"seed"}) = of
    BY <1>1, <1>3 DEF ++, Only
  <2> QED
    BY <1>2, <2>2, <2>3
<1>5. ExpandPaths(config) = config
  <2> DEFINE paths == [name \in {"logDirectory", "storeDir"} \cap DOMAIN of |-> FromFile[of[name]]]
  <2>1. ExpandPaths(config) = [sections |-> config.sections, of |-> paths ++ of]
    BY <1>2 DEF ExpandPaths
  <2>2. DOMAIN paths = {"storeDir"} /\ paths["storeDir"] = of["storeDir"]
    BY <1>1, CommandLineAssumption
  <2> HIDE DEF paths
  <2>3. paths ++ of = of
    BY <1>1, <2>2 DEF ++
  <2> QED
    BY <1>2, <2>1, <2>3
<1>6. "of" \in DOMAIN config
  BY <1>2
<1> QED
  BY <1>1, <1>4, <1>5, <1>6 DEF config, of

(* Starts.                                                                 *)
CanStart(base, flags, env) ==
    /\ MayOverride(base, flags, env)
    /\ MayCreate(Override(base, flags, env), env)
Typed(flags, env) ==
    /\ DOMAIN flags \subseteq Flags /\ HasValues(flags)
    /\ DOMAIN env \subseteq Environment /\ HasValues(env)

(* The file, once it is whole, is what was intended, and each step of the  *)
(* start has done with it what it should.                                  *)
StartsInv ==
    /\ DOMAIN line = {"n", "at", "flags", "env", "config", "up"} /\ line.n \in 0..MaxStarts
    /\ line.at \in {"down", "looking", "saving", "loaded", "configured", "up", "failed"}
    /\ line.at # "down" => line.n > 0 /\ Typed(line.flags, line.env)
    /\ "of" \in DOMAIN intended /\ HasValues(intended.of)
    /\ daemonFile.kind = "whole" => intended = ExpandPaths(daemonFile.config)
    /\ line.at = "saving" =>
           /\ line.config = intended
           /\ \E seed : seed # NotGiven /\ intended = DefaultConfig(seed)
    /\ line.at \in {"loaded", "configured", "up"} => daemonFile.kind = "whole"
    /\ line.at = "loaded" => line.config = intended
    /\ line.at \in {"configured", "up"} =>
           /\ MayOverride(intended, line.flags, line.env)
           /\ line.config = Override(intended, line.flags, line.env)
    /\ line.at = "up" => \E agent : line.up = NodeOf(line.config, line.env, agent)
    /\ line.at = "failed" /\ daemonFile.kind = "whole" => ~ CanStart(intended, line.flags, line.env)
    /\ \A c \in cameUp : CanStart(ExpandPaths(c[1]), c[2], c[3])

LEMMA StartsInit ==
    ASSUME InitLine
    PROVE  StartsInv
<1>1. DOMAIN Down = {"flags", "env", "config", "up"}
  BY DEF Down
<1>2. /\ DOMAIN line = {"n", "at", "flags", "env", "config", "up"}
      /\ line.n = 0 /\ line.at = "down"
  BY <1>1 DEF InitLine, ++
<1>3. "of" \in DOMAIN Nothing /\ Nothing.of = <<>> /\ NoFile.kind = "none"
  BY DEF Nothing, NoFile
<1>4. 0 \in 0..MaxStarts
  BY CommandLineAssumption
<1> QED
  BY <1>2, <1>3, <1>4, NothingHasValues DEF InitLine, StartsInv

LEMMA StartsStep ==
    ASSUME StartsInv, HabitIsGiven, NextLine
    PROVE  StartsInv'
<1>1. CASE UNCHANGED daemonVars
  BY <1>1 DEF StartsInv, daemonVars
<1>2. CASE TypeDaemon
  <2>1. PICK c \in habit.commands :
            line' = [line EXCEPT !.n = @ + 1, !.at = "looking", !.flags = c[1], !.env = c[2]]
    BY <1>2 DEF TypeDaemon
  <2>2. Typed(c[1], c[2])
    <3>1. habit # NoHabit
      BY <2>1 DEF NoHabit
    <3> QED
      BY <2>1, <3>1, CommandLineAssumption DEF HabitIsGiven, Typed
  <2>3. line.n + 1 \in 0..MaxStarts /\ line.n + 1 > 0
    <3>1. MaxStarts \in Nat
      BY CommandLineAssumption
    <3> QED
      BY <1>2, <3>1 DEF StartsInv, TypeDaemon
  <2>4. /\ DOMAIN line' = {"n", "at", "flags", "env", "config", "up"} /\ line'.n = line.n + 1
        /\ line'.at = "looking" /\ line'.flags = c[1] /\ line'.env = c[2]
    BY <2>1 DEF StartsInv
  <2>5. UNCHANGED <<daemonFile, intended, cameUp>>
    BY <1>2 DEF TypeDaemon
  <2> QED
    BY <2>2, <2>3, <2>4, <2>5 DEF StartsInv
<1>3. CASE FindNoFile
  <2> DEFINE seed == Drawn[line.n]
  <2>1. seed # NotGiven
    BY <1>3, DrawnHasValues DEF StartsInv, FindNoFile
  <2>2. intended' = DefaultConfig(seed) /\ daemonFile'.kind # "whole" /\ cameUp' = cameUp
    BY <1>3 DEF FindNoFile, EmptyFile
  <2>3. /\ DOMAIN line' = DOMAIN line /\ line'.n = line.n /\ line'.at = "saving"
        /\ line'.flags = line.flags /\ line'.env = line.env /\ line'.config = intended'
    BY <1>3 DEF StartsInv, FindNoFile
  <2> HIDE DEF seed
  <2>4. "of" \in DOMAIN intended' /\ HasValues(intended'.of)
    BY <2>1, <2>2, DefaultIsSaved
  <2>5. line.at = "looking"
    BY <1>3 DEF FindNoFile
  <2> QED
    BY <2>1, <2>2, <2>3, <2>4, <2>5 DEF StartsInv
<1>4. CASE SaveDefault
  <2>1. PICK seed : seed # NotGiven /\ intended = DefaultConfig(seed)
    BY <1>4 DEF StartsInv, SaveDefault
  <2>2. line.config = intended /\ line.at = "saving"
    BY <1>4 DEF StartsInv, SaveDefault
  <2>3. daemonFile'.kind = "whole" /\ daemonFile'.config = PlainConfig(intended)
    BY <1>4, <2>2 DEF SaveDefault, Whole
  <2>4. ExpandPaths(daemonFile'.config) = intended
    BY <2>1, <2>3, DefaultIsSaved
  <2>5. line' = [line EXCEPT !.at = "loaded"] /\ UNCHANGED <<intended, cameUp>>
    BY <1>4 DEF SaveDefault
  <2>6. /\ DOMAIN line' = DOMAIN line /\ line'.n = line.n /\ line'.at = "loaded"
        /\ line'.flags = line.flags /\ line'.env = line.env /\ line'.config = line.config
    BY <2>5 DEF StartsInv
  <2> QED
    BY <2>2, <2>3, <2>4, <2>5, <2>6 DEF StartsInv
<1>5. CASE ReadDaemonFile
  <2>1. line.at = "looking" /\ UNCHANGED <<daemonFile, intended, cameUp>>
    BY <1>5 DEF ReadDaemonFile
  <2>2. CASE daemonFile.kind = "whole"
    <3>1. line' = [line EXCEPT !.at = "loaded", !.config = ExpandPaths(daemonFile.config)]
      BY <1>5, <2>2 DEF ReadDaemonFile
    <3>2. /\ DOMAIN line' = DOMAIN line /\ line'.n = line.n /\ line'.at = "loaded"
          /\ line'.flags = line.flags /\ line'.env = line.env
          /\ line'.config = ExpandPaths(daemonFile.config)
      BY <3>1 DEF StartsInv
    <3> QED
      BY <2>1, <2>2, <3>2 DEF StartsInv
  <2>3. CASE daemonFile.kind # "whole"
    <3>1. line' = [line EXCEPT !.at = "failed"]
      BY <1>5, <2>3 DEF ReadDaemonFile
    <3>2. /\ DOMAIN line' = DOMAIN line /\ line'.n = line.n /\ line'.at = "failed"
          /\ line'.flags = line.flags /\ line'.env = line.env
      BY <3>1 DEF StartsInv
    <3> QED
      BY <2>1, <2>3, <3>2 DEF StartsInv
  <2> QED
    BY <2>2, <2>3
<1>6. CASE ApplyOverrides
  <2>1. /\ line.at = "loaded" /\ UNCHANGED <<daemonFile, intended, cameUp>>
        /\ line.config = intended /\ daemonFile.kind = "whole"
    BY <1>6 DEF ApplyOverrides, StartsInv
  <2>2. CASE MayOverride(intended, line.flags, line.env)
    <3>1. line' = [line EXCEPT !.at = "configured",
                               !.config = Override(line.config, line.flags, line.env)]
      BY <1>6, <2>1, <2>2 DEF ApplyOverrides
    <3>2. /\ DOMAIN line' = DOMAIN line /\ line'.n = line.n /\ line'.at = "configured"
          /\ line'.flags = line.flags /\ line'.env = line.env
          /\ line'.config = Override(intended, line.flags, line.env)
      BY <2>1, <3>1 DEF StartsInv
    <3> QED
      BY <2>1, <2>2, <3>2 DEF StartsInv
  <2>3. CASE ~ MayOverride(intended, line.flags, line.env)
    <3>1. line' = [line EXCEPT !.at = "failed"]
      BY <1>6, <2>1, <2>3 DEF ApplyOverrides
    <3>2. /\ DOMAIN line' = DOMAIN line /\ line'.n = line.n /\ line'.at = "failed"
          /\ line'.flags = line.flags /\ line'.env = line.env
      BY <3>1 DEF StartsInv
    <3>3. ~ CanStart(intended, line.flags, line.env)
      BY <2>3 DEF CanStart
    <3> QED
      BY <2>1, <3>2, <3>3 DEF StartsInv
  <2> QED
    BY <2>2, <2>3
<1>7. ASSUME NEW agent, CreateDaemon(agent)
      PROVE  StartsInv'
  <2>1. /\ line.at = "configured" /\ UNCHANGED <<daemonFile, intended>>
        /\ daemonFile.kind = "whole" /\ MayOverride(intended, line.flags, line.env)
        /\ line.config = Override(intended, line.flags, line.env)
        /\ intended = ExpandPaths(daemonFile.config)
    BY <1>7 DEF CreateDaemon, StartsInv
  <2>2. CASE MayCreate(line.config, line.env)
    <3>1. line' = [line EXCEPT !.at = "up", !.up = NodeOf(line.config, line.env, agent)]
          /\ cameUp' = cameUp \cup {<<daemonFile.config, line.flags, line.env>>}
      BY <1>7, <2>2 DEF CreateDaemon
    <3>2. /\ DOMAIN line' = DOMAIN line /\ line'.n = line.n /\ line'.at = "up"
          /\ line'.flags = line.flags /\ line'.env = line.env /\ line'.config = line.config
          /\ line'.up = NodeOf(line.config, line.env, agent)
      BY <3>1 DEF StartsInv
    <3>3. CanStart(intended, line.flags, line.env)
      BY <2>1, <2>2 DEF CanStart
    <3>4. \A c \in cameUp' : CanStart(ExpandPaths(c[1]), c[2], c[3])
      BY <2>1, <3>1, <3>3 DEF StartsInv
    <3> QED
      BY <2>1, <3>2, <3>4 DEF StartsInv
  <2>3. CASE ~ MayCreate(line.config, line.env)
    <3>1. line' = [line EXCEPT !.at = "failed"] /\ UNCHANGED cameUp
      BY <1>7, <2>3 DEF CreateDaemon
    <3>2. /\ DOMAIN line' = DOMAIN line /\ line'.n = line.n /\ line'.at = "failed"
          /\ line'.flags = line.flags /\ line'.env = line.env
      BY <3>1 DEF StartsInv
    <3>3. ~ CanStart(intended, line.flags, line.env)
      BY <2>1, <2>3 DEF CanStart
    <3> QED
      BY <2>1, <3>1, <3>2, <3>3 DEF StartsInv
  <2> QED
    BY <2>2, <2>3
<1>8. CASE EndDaemon
  <2>1. /\ line' = Down ++ [line EXCEPT !.at = "down"] /\ UNCHANGED <<intended, cameUp>>
        /\ daemonFile' \in IF line.at = "saving"
                           THEN {EmptyFile, [EmptyFile EXCEPT !.kind = "partial"]} ELSE {daemonFile}
    BY <1>8 DEF EndDaemon
  <2>2. DOMAIN Down = {"flags", "env", "config", "up"}
    BY DEF Down
  <2>3. /\ DOMAIN line' = {"n", "at", "flags", "env", "config", "up"} /\ line'.n = line.n
        /\ line'.at = "down"
    BY <2>1, <2>2 DEF StartsInv, ++
  <2>4. daemonFile'.kind = "whole" => daemonFile' = daemonFile
    BY <2>1 DEF EmptyFile
  <2> QED
    BY <2>1, <2>3, <2>4 DEF StartsInv
<1>9. CASE Operator
  <2>1. line.at = "down" /\ UNCHANGED <<line, cameUp>>
    BY <1>9 DEF Operator
  <2>2. /\ "of" \in DOMAIN intended' /\ HasValues(intended'.of)
        /\ daemonFile'.kind = "whole" => intended' = ExpandPaths(daemonFile'.config)
    <3>1. ASSUME NEW config \in habit.files,
                 daemonFile' = Whole(config) /\ intended' = ExpandPaths(config)
          PROVE  /\ "of" \in DOMAIN intended' /\ HasValues(intended'.of)
                 /\ daemonFile'.kind = "whole" => intended' = ExpandPaths(daemonFile'.config)
      <4>1. habit # NoHabit
        BY <3>1 DEF NoHabit
      <4>2. /\ "of" \in DOMAIN config /\ HasValues(config.of)
            /\ {config.of[name] : name \in DOMAIN config.of \cap {"logDirectory", "storeDir"}}
                   \subseteq DOMAIN FromFile
        BY <3>1, <4>1, CommandLineAssumption DEF HabitIsGiven
      <4> QED
        BY <3>1, <4>2, Expanded DEF Whole
    <3>2. CASE daemonFile' = NoFile /\ intended' = Nothing
      BY <3>2, NothingHasValues DEF NoFile, Nothing
    <3> QED
      BY <1>9, <3>1, <3>2 DEF Operator
  <2> QED
    BY <2>1, <2>2 DEF StartsInv
<1> QED
  BY <1>1, <1>2, <1>3, <1>4, <1>5, <1>6, <1>7, <1>8, <1>9 DEF NextLine

LEMMA StartsAreKept ==
    ASSUME StartsInv
    PROVE  StartsAsConfigured /\ StartsAgainAsBefore
<1>1. ASSUME line.at = "up"
      PROVE  StartsAsConfigured
  <2>1. PICK agent : line.up = NodeOf(line.config, line.env, agent)
    BY <1>1 DEF StartsInv
  <2>2. /\ DOMAIN line.flags \subseteq Flags /\ HasValues(line.flags)
        /\ DOMAIN line.env \subseteq Environment /\ HasValues(line.env)
        /\ "of" \in DOMAIN intended /\ HasValues(intended.of)
        /\ line.config = Override(intended, line.flags, line.env)
        /\ MayOverride(intended, line.flags, line.env)
    BY <1>1 DEF StartsInv, Typed
  <2>3. AsAsked(line.up, line.flags, line.env, intended)
    BY <2>1, <2>2, NodeAsConfigured
  <2> QED
    BY <1>1, <2>3 DEF AsAsked, StartsAsConfigured, AskedFor
<1>2. StartsAgainAsBefore
  <2> SUFFICES ASSUME line.at = "failed", daemonFile.kind = "whole",
                      <<daemonFile.config, line.flags, line.env>> \in cameUp
               PROVE  FALSE
    BY DEF StartsAgainAsBefore
  <2>1. CanStart(ExpandPaths(daemonFile.config), line.flags, line.env)
    BY DEF StartsInv
  <2> QED
    BY <2>1 DEF StartsInv
<1> QED
  BY <1>1, <1>2 DEF StartsAsConfigured

LEMMA ConfigurationInductive ==
    /\ InitLine => CommandsInv /\ StartsInv /\ HabitIsGiven
    /\ CommandsInv /\ StartsInv /\ HabitIsGiven /\ [NextLine]_lineVars
           => (CommandsInv /\ StartsInv /\ HabitIsGiven)'
    /\ CommandsInv /\ StartsInv => ConfigurationIsKept
<1>1. InitLine => HabitIsGiven
  BY DEF InitLine, HabitIsGiven
<1>2. InitLine => CommandsInv
  <2>1. 0 \in 0..MaxStarts
    BY CommandLineAssumption
  <2>2. NoFile.kind = "none"
    BY DEF NoFile
  <2> QED
    BY <2>1, <2>2, NothingHasValues DEF InitLine, CommandsInv
<1>3. ASSUME CommandsInv, StartsInv, HabitIsGiven, [NextLine]_lineVars
      PROVE  (CommandsInv /\ StartsInv /\ HabitIsGiven)'
  <2>1. CASE NextLine
    <3>1. HabitIsGiven'
      BY <1>3, <2>1 DEF NextLine, HabitIsGiven
    <3> QED
      BY <1>3, <2>1, <3>1, CommandsStep, StartsStep
  <2>2. CASE UNCHANGED lineVars
    BY <1>3, <2>2 DEF lineVars, cliVars, daemonVars, CommandsInv, StartsInv, HabitIsGiven
  <2> QED
    BY <1>3, <2>1, <2>2
<1>4. ASSUME CommandsInv, StartsInv
      PROVE  ConfigurationIsKept
  <2>1. CommandsAreOneIdentity
    BY <1>4 DEF CommandsInv, CommandsAreOneIdentity
  <2> QED
    BY <1>4, <2>1, StartsAreKept DEF ConfigurationIsKept
<1> QED
  BY <1>1, <1>2, <1>3, <1>4, StartsInit

(* Daemons that are up run with what their flags, environment and file say,*)
(* whoever wrote the file (ceramic-cli-utils.ts, runCommand); what came up *)
(* comes up again; and client commands act as the identity that was drawn  *)
(* or set (runWithCeramicClient, setCliConfig), for any habits of          *)
(* operators, interrupted writes included.                                 *)
THEOREM ConfigurationStaysKept == SpecApplications => []ConfigurationIsKept
<1>1. InitApplications => CommandsInv /\ StartsInv /\ HabitIsGiven
  BY ConfigurationInductive DEF InitApplications
<1>2. CommandsInv /\ StartsInv /\ HabitIsGiven /\ [NextApplications]_applicationVars
          => (CommandsInv /\ StartsInv /\ HabitIsGiven)'
  <2> SUFFICES ASSUME CommandsInv, StartsInv, HabitIsGiven, [NextApplications]_applicationVars
               PROVE  (CommandsInv /\ StartsInv /\ HabitIsGiven)'
    OBVIOUS
  <2>1. [NextLine]_lineVars
    BY DEF NextApplications, applicationVars
  <2> QED
    BY <2>1, ConfigurationInductive
<1>3. CommandsInv /\ StartsInv => ConfigurationIsKept
  BY ConfigurationInductive
<1> QED
  BY <1>1, <1>2, <1>3, PTL DEF SpecApplications
=============================================================================
