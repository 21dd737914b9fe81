---------------------------- MODULE StoresProofs ----------------------------
(***************************************************************************)
(* The feed loses no update, for any streams, number of updates, duration  *)
(* after which entries are stale, and interleaving of writers, readers,    *)
(* reconnections and clean up; and what is stored is pinned, for any       *)
(* callers, length of the log and number of calls.                         *)
(***************************************************************************)
EXTENDS Feed, PinStore, TLAPS

(***************************************************************************)
(* The feed.                                                               *)
(***************************************************************************)
Sound == faults = {} /\ crashes = 0

(* The generator g has given out the key, or one after it.                 *)
GivenOut(k, g) == k[1] < g.previous \/ (k[1] = g.previous /\ k[2] < g.counter)

Saving(s) == put[s].at = "saving"

(* Keys are given out in order, and entries are written in the order of    *)
(* their keys: what is being written comes after all that was written,     *)
(* read or found.                                                          *)
KeysInOrder ==
    /\ generator.previous <= clock
    /\ GivenOut(client.token, generator)
    /\ \A d \in disk : GivenOut(d.key, generator)
    /\ \A d, e \in disk : d.key = e.key => d = e
    /\ reader.at = "found" => GivenOut(reader.entry.key, generator)
    /\ \A s \in Stream : Saving(s) =>
        /\ GivenOut(put[s].key, generator)
        /\ Before(client.token, put[s].key)
        /\ \A d \in disk : Before(d.key, put[s].key)
        /\ reader.at = "found" => Before(reader.entry.key, put[s].key)
        /\ \A r \in Stream : Saving(r) /\ r # s => put[r].key # put[s].key

(* A reader reads from the client's token on; what it has found is the     *)
(* first entry after it.                                                   *)
ReadsInOrder ==
    /\ reader.token = client.token
    /\ reader.at = "found" =>
        /\ Before(reader.token, reader.entry.key)
        /\ \A d \in disk : Before(reader.token, d.key) =>
               d = reader.entry \/ Before(reader.entry.key, d.key)

(* What was not sent, and is not too old, is being written or lies ahead,  *)
(* under a key that is no older than the change.                           *)
UnsentLieAhead ==
    \A s \in Stream :
        /\ changed[s] <= clock
        /\ Saving(s) => changed[s] <= put[s].key[1]
        /\ client.sent[s] < version[s] /\ changed[s] + Stale >= clock
           => \/ put[s].at \in {"pinned", "saving"}
              \/ \E d \in disk : /\ d.stream = s /\ Before(client.token, d.key)
                                 /\ changed[s] <= d.key[1]

FeedInv == KeysInOrder /\ ReadsInOrder /\ UnsentLieAhead
IInv == TypeOK /\ (Sound => FeedInv)

-----------------------------------------------------------------------------
(* Keys are ordered by time, and then by counter.                          *)
LEMMA KeyOrder ==
    ASSUME NEW k \in Key, NEW l \in Key, NEW m \in Key
    PROVE  /\ ~Before(k, k)
           /\ Before(k, l) \/ k = l \/ Before(l, k)
           /\ Before(k, l) /\ Before(l, m) => Before(k, m)
BY FeedAssumption DEF Key, Before

LEMMA InitType == Init => TypeOK
<1> SUFFICES ASSUME Init PROVE TypeOK
    OBVIOUS
<1> USE FeedAssumption
<1>1. <<0, 0>> \in Key /\ <<1, 0>> \in Key
    BY DEF Key
<1>2. client \in [token : Key, sent : [Stream -> Nat]]
    BY <1>1 DEF Init
<1>3. reader \in [at : {"pulled", "empty", "waiting"}, token : Key, entry : {NoEntry}]
    BY <1>2 DEF Init, NewReader
<1>4. put \in [Stream -> [at : {"idle", "pinned", "saving", "saved"}, key : Key]]
    BY <1>1 DEF Init
<1>5. faults \subseteq Faults
    BY DEF Init
<1>6. /\ 1 \in 1..MaxTime /\ 0 \in 0..MaxTime /\ 0 \in 0..MaxCrashes
    BY SMT
<1>7. /\ generator \in [previous : 1..MaxTime, counter : Nat]
      /\ clock \in 1..MaxTime /\ crashes \in 0..MaxCrashes /\ disk \subseteq Entry
    BY <1>6 DEF Init, NewGenerator
<1>8. version \in [Stream -> Nat] /\ changed \in [Stream -> 0..MaxTime]
    BY <1>6 DEF Init
<1> QED
    BY <1>2, <1>3, <1>4, <1>5, <1>7, <1>8 DEF TypeOK

LEMMA NextKeyType ==
    ASSUME TypeOK
    PROVE  /\ NextKey(clock).key \in Key /\ NextKey(clock).key[1] = clock
           /\ NextKey(clock).previous = clock /\ NextKey(clock).counter \in Nat
BY DEF TypeOK, NextKey, Key

LEMMA NextType == TypeOK /\ [Next]_vars => TypeOK'
<1> SUFFICES ASSUME TypeOK, [Next]_vars PROVE TypeOK'
    OBVIOUS
<1> USE FeedAssumption
<1>1. ASSUME NEW s \in Stream, PinState(s) PROVE TypeOK'
    BY <1>1 DEF PinState, TypeOK, runVars
<1>2. ASSUME NEW s \in Stream, Put(s) PROVE TypeOK'
  <2>1. put' \in [Stream -> [at : {"idle", "pinned", "saving", "saved"}, key : Key]]
    BY <1>2, NextKeyType DEF Put, TypeOK
  <2>2. generator' \in [previous : 1..MaxTime, counter : Nat]
    BY <1>2, NextKeyType DEF Put, TypeOK
  <2> QED
    BY <1>2, <2>1, <2>2 DEF Put, TypeOK, runVars
<1>3. ASSUME NEW s \in Stream, Save(s) PROVE TypeOK'
  <2>1. [key |-> put[s].key, stream |-> s] \in Entry
    BY DEF TypeOK, Entry
  <2>2. put' \in [Stream -> [at : {"idle", "pinned", "saving", "saved"}, key : Key]]
    BY <1>3 DEF Save, TypeOK
  <2>3. disk' \subseteq Entry
    BY <1>3, <2>1 DEF Save, TypeOK
  <2> QED
    BY <1>3, <2>2, <2>3 DEF Save, TypeOK, runVars
<1>4. ASSUME NEW s \in Stream, Notify(s) PROVE TypeOK'
    BY <1>4 DEF Notify, TypeOK, runVars, NewReader
<1>5. CASE Find
  <2>1. Entries \subseteq Entry
    BY DEF Entries, TypeOK
  <2> QED
    BY <1>5, <2>1 DEF Find, TypeOK, runVars, writerVars
<1>6. CASE Wait \/ Reconnect
    BY <1>6 DEF Wait, Reconnect, TypeOK, runVars, writerVars, NewReader
<1>10. CASE DeleteStale
    BY <1>10 DEF DeleteStale, TypeOK, runVars, writerVars
<1>11. CASE Tick
  <2>1. clock \in 1..MaxTime /\ MaxTime \in Nat
    BY DEF TypeOK
  <2>2. \/ clock < MaxTime /\ clock' = clock + 1
        \/ clock > 1 /\ clock' = clock - 1
    BY <1>11 DEF Tick
  <2>3. clock' \in 1..MaxTime
    BY <2>1, <2>2 DEF TypeOK
  <2> QED
    BY <1>11, <2>3 DEF Tick, TypeOK, runVars, writerVars
<1>7. CASE Send
  <2>1. reader.entry \in Entry /\ reader.entry.key \in Key /\ reader.entry.stream \in Stream
    BY <1>7 DEF Send, TypeOK, Entry
  <2>2. client' \in [token : Key, sent : [Stream -> Nat]]
    BY <1>7, <2>1 DEF Send, TypeOK
  <2> QED
    BY <1>7, <2>1, <2>2 DEF Send, TypeOK, runVars, writerVars, NewReader
<1>8. CASE Crash
    BY <1>8 DEF Crash, TypeOK, NewGenerator, NewReader, Key
<1>9. CASE UNCHANGED vars
    BY <1>9 DEF vars, writerVars, runVars, TypeOK
<1> QED
    BY <1>1, <1>2, <1>3, <1>4, <1>5, <1>6, <1>7, <1>8, <1>9, <1>10, <1>11 DEF Next

-----------------------------------------------------------------------------
(* What a state without faults has, and a step that leaves it without.     *)
LEMMA SoundSteps == TypeOK /\ [Next]_vars /\ Sound' => Sound
<1> SUFFICES ASSUME TypeOK, [Next]_vars, Sound' PROVE Sound
    OBVIOUS
<1>1. crashes \in Nat
    BY FeedAssumption DEF TypeOK
<1>2. CASE Crash
    BY <1>1, <1>2 DEF Crash, Sound
<1>3. CASE ~Crash
    BY <1>3 DEF Next, PinState, Put, Save, Notify, Find, Wait, Send, Reconnect, DeleteStale,
                Tick, vars, runVars, Sound
<1> QED
    BY <1>2, <1>3

LEMMA InitFeedInv == Init /\ Sound => FeedInv
<1> SUFFICES ASSUME Init, Sound PROVE FeedInv
    OBVIOUS
<1> USE FeedAssumption
<1>1. client.token = <<0, 0>> /\ generator.previous = 1 /\ clock = 1 /\ disk = {}
    BY DEF Init, Sound, NewGenerator
<1>2. reader.token = client.token /\ reader.at = "pulled"
    BY DEF Init, NewReader
<1>3. \A s \in Stream : /\ put[s].at = "idle" /\ changed[s] = 0
                        /\ client.sent[s] = 0 /\ version[s] = 0
    BY DEF Init
<1>4. KeysInOrder
    BY <1>1, <1>2, <1>3 DEF KeysInOrder, GivenOut, Saving
<1>5. ReadsInOrder
    BY <1>1, <1>2 DEF ReadsInOrder
<1>6. UnsentLieAhead
    BY <1>1, <1>3 DEF UnsentLieAhead, Saving
<1> QED
    BY <1>4, <1>5, <1>6 DEF FeedInv

(* The keys the variables hold.                                            *)
LEMMA KeysOfState ==
    ASSUME TypeOK
    PROVE  /\ client.token \in Key /\ reader.token \in Key
           /\ \A s \in Stream : put[s].key \in Key
           /\ \A d \in disk : d.key \in Key /\ d.stream \in Stream
           /\ reader.at = "found" => reader.entry.key \in Key /\ reader.entry.stream \in Stream
           /\ generator.previous \in Nat /\ generator.counter \in Nat /\ clock \in Nat
           /\ \A s \in Stream : changed[s] \in Nat /\ version[s] \in Nat /\ client.sent[s] \in Nat
BY FeedAssumption DEF TypeOK, Entry

(* The next key comes after every key that was given out, and then is one. *)
LEMMA NextKeyIsNew ==
    ASSUME TypeOK, generator.previous <= clock,
           generator' = [previous |-> NextKey(clock).previous, counter |-> NextKey(clock).counter]
    PROVE  /\ GivenOut(NextKey(clock).key, generator')
           /\ generator'.previous = clock
           /\ \A k \in Key : GivenOut(k, generator) => GivenOut(k, generator') /\ Before(k, NextKey(clock).key)
<1>1. /\ generator.previous \in Nat /\ generator.counter \in Nat /\ clock \in Nat
      /\ \A k \in Key : k[1] \in Nat /\ k[2] \in Nat
    BY FeedAssumption DEF TypeOK, Key
<1>2. CASE generator.previous = clock
    BY <1>1, <1>2 DEF NextKey, GivenOut, Before
<1>3. CASE generator.previous < clock
    BY <1>1, <1>3 DEF NextKey, GivenOut, Before
<1> QED
    BY <1>1, <1>2, <1>3

-----------------------------------------------------------------------------
LEMMA PutKeeps ==
    ASSUME TypeOK, FeedInv, NEW s \in Stream, Put(s), Sound
    PROVE  FeedInv'
<1> USE KeysOfState
<1> DEFINE key == NextKey(clock).key
<1>1. /\ put' = [put EXCEPT ![s] = [at |-> "saving", key |-> key]]
      /\ generator' = [previous |-> NextKey(clock).previous, counter |-> NextKey(clock).counter]
      /\ UNCHANGED <<clock, version, changed, disk, reader, client, runVars>>
    BY DEF Put
<1>2. /\ key \in Key /\ key[1] = clock /\ put \in [Stream -> [at : {"idle", "pinned", "saving", "saved"}, key : Key]]
    BY NextKeyType DEF TypeOK
<1> HIDE DEF key
<1>3. /\ put'[s].at = "saving" /\ put'[s].key = key
      /\ \A r \in Stream : r # s => put'[r] = put[r]
    BY <1>1, <1>2
<1>4. /\ GivenOut(key, generator') /\ generator'.previous = clock
      /\ \A k \in Key : GivenOut(k, generator) => GivenOut(k, generator') /\ Before(k, key)
    BY <1>1, NextKeyIsNew DEF FeedInv, KeysInOrder, key
<1>5. KeysInOrder'
  <2>1. \A r \in Stream : Saving(r) => Before(put[r].key, key) /\ put[r].key # key
    BY <1>2, <1>4, KeyOrder DEF FeedInv, KeysInOrder
  <2>2. ASSUME NEW r \in Stream, Saving(r)'
        PROVE  /\ GivenOut(put[r].key, generator)'
               /\ Before(client.token, put[r].key)'
               /\ \A d \in disk' : Before(d.key, put'[r].key)
               /\ (reader.at = "found" => Before(reader.entry.key, put[r].key))'
               /\ \A q \in Stream : Saving(q)' /\ q # r => put'[q].key # put'[r].key
    <3>1. CASE r = s
        BY <1>1, <1>3, <1>4, <2>1, <3>1 DEF FeedInv, KeysInOrder, Saving
    <3>2. CASE r # s
        BY <1>1, <1>3, <1>4, <2>1, <2>2, <3>2 DEF FeedInv, KeysInOrder, Saving
    <3> QED
        BY <3>1, <3>2
  <2> QED
    BY <1>1, <1>4, <2>2 DEF FeedInv, KeysInOrder
<1>6. ReadsInOrder'
    BY <1>1 DEF FeedInv, ReadsInOrder
<1>7. UnsentLieAhead'
    BY <1>1, <1>2, <1>3 DEF FeedInv, UnsentLieAhead, Saving
<1> QED
    BY <1>5, <1>6, <1>7 DEF FeedInv

LEMMA SaveKeeps ==
    ASSUME TypeOK, FeedInv, NEW s \in Stream, Save(s), Sound
    PROVE  FeedInv'
<1> USE KeysOfState
<1> DEFINE new == [key |-> put[s].key, stream |-> s]
<1>1. /\ put[s].at = "saving"
      /\ \A r \in Stream : put[r].at = "saving" => ~Before(put[r].key, put[s].key)
      /\ put' = [put EXCEPT ![s].at = "saved"]
      /\ UNCHANGED <<clock, version, changed, generator, reader, client, runVars>>
    BY DEF Save, Sound
<1>2. \A d \in disk : Before(d.key, put[s].key) /\ d.key # put[s].key
    BY <1>1, KeyOrder DEF FeedInv, KeysInOrder, Saving
<1>3. disk' = disk \cup {new}
    BY <1>2 DEF Save
<1>4. /\ put'[s].at = "saved"
      /\ \A r \in Stream : r # s => put'[r] = put[r]
    BY <1>1 DEF TypeOK
<1>5. \A r \in Stream : r # s /\ Saving(r) => Before(put[s].key, put[r].key)
    BY <1>1, KeyOrder DEF FeedInv, KeysInOrder, Saving
<1>6. KeysInOrder'
  <2>1. \A r \in Stream : Saving(r)' => r # s /\ Saving(r) /\ put'[r] = put[r]
    BY <1>4 DEF Saving
  <2>2. GivenOut(put[s].key, generator)
    BY <1>1 DEF FeedInv, KeysInOrder, Saving
  <2>3. /\ generator'.previous <= clock' /\ GivenOut(client.token, generator)'
        /\ \A d \in disk' : GivenOut(d.key, generator)'
        /\ (reader.at = "found" => GivenOut(reader.entry.key, generator))'
    BY <1>1, <1>3, <2>2 DEF FeedInv, KeysInOrder, GivenOut
  <2>4. \A d, e \in disk' : d.key = e.key => d = e
    BY <1>2, <1>3 DEF FeedInv, KeysInOrder
  <2>5. ASSUME NEW r \in Stream, Saving(r)'
        PROVE  /\ GivenOut(put[r].key, generator)' /\ Before(client.token, put[r].key)'
               /\ \A d \in disk' : Before(d.key, put'[r].key)
               /\ (reader.at = "found" => Before(reader.entry.key, put[r].key))'
               /\ \A q \in Stream : Saving(q)' /\ q # r => put'[q].key # put'[r].key
    <3>1. r # s /\ Saving(r) /\ put'[r] = put[r]
        BY <2>1, <2>5
    <3>2. /\ GivenOut(put[r].key, generator) /\ Before(client.token, put[r].key)
          /\ \A d \in disk : Before(d.key, put[r].key)
          /\ (reader.at = "found" => Before(reader.entry.key, put[r].key))
        BY <3>1 DEF FeedInv, KeysInOrder
    <3>3. \A d \in disk' : Before(d.key, put[r].key)
        BY <1>3, <1>5, <3>1, <3>2
    <3>4. \A q \in Stream : Saving(q)' /\ q # r => put'[q].key # put'[r].key
        BY <2>1, <3>1 DEF FeedInv, KeysInOrder
    <3> QED
        BY <1>1, <3>1, <3>2, <3>3, <3>4 DEF GivenOut
  <2> QED
    BY <2>3, <2>4, <2>5 DEF KeysInOrder
<1>7. ReadsInOrder'
    BY <1>1, <1>3 DEF FeedInv, ReadsInOrder, KeysInOrder, Saving
<1>8. UnsentLieAhead'
  <2>1. Before(client.token, put[s].key) /\ changed[s] <= put[s].key[1]
    BY <1>1 DEF FeedInv, KeysInOrder, UnsentLieAhead, Saving
  <2>2. new \in disk' /\ new.stream = s /\ new.key = put[s].key /\ disk \subseteq disk'
    BY <1>3
  <2> HIDE DEF new
  <2>3. ASSUME NEW r \in Stream, r # s
        PROVE  /\ changed'[r] <= clock'
               /\ Saving(r)' => changed'[r] <= put'[r].key[1]
               /\ (client.sent[r] < version[r] /\ changed[r] + Stale >= clock)'
                  => \/ put'[r].at \in {"pinned", "saving"}
                     \/ \E d \in disk' : /\ d.stream = r /\ Before(client'.token, d.key)
                                         /\ changed'[r] <= d.key[1]
    BY <1>1, <1>4, <2>2, <2>3 DEF FeedInv, UnsentLieAhead, Saving
  <2>4. /\ changed'[s] <= clock' /\ ~Saving(s)'
        /\ \E d \in disk' : /\ d.stream = s /\ Before(client'.token, d.key)
                            /\ changed'[s] <= d.key[1]
    BY <1>1, <1>4, <2>1, <2>2 DEF FeedInv, UnsentLieAhead, Saving
  <2> QED
    BY <2>3, <2>4 DEF UnsentLieAhead
<1> QED
    BY <1>6, <1>7, <1>8 DEF FeedInv

LEMMA SendKeeps ==
    ASSUME TypeOK, FeedInv, Send
    PROVE  FeedInv'
<1> USE KeysOfState
<1>1. /\ reader.at = "found" /\ reader' = NewReader(reader.entry.key)
      /\ client'.token = reader.entry.key
      /\ UNCHANGED <<clock, version, changed, put, generator, disk>>
    BY DEF Send, writerVars
<1>2. /\ client'.sent[reader.entry.stream] = version[reader.entry.stream]
      /\ \A s \in Stream : s # reader.entry.stream => client'.sent[s] = client.sent[s]
    BY <1>1 DEF Send, TypeOK
<1>3. KeysInOrder'
    BY <1>1 DEF FeedInv, KeysInOrder, GivenOut, Saving, NewReader
<1>4. ReadsInOrder'
    BY <1>1 DEF ReadsInOrder, NewReader
<1>5. UnsentLieAhead'
  <2>1. ASSUME NEW s \in Stream, (client.sent[s] < version[s] /\ changed[s] + Stale >= clock)'
        PROVE  \/ put'[s].at \in {"pinned", "saving"}
               \/ \E d \in disk' : /\ d.stream = s /\ Before(client'.token, d.key)
                                   /\ changed'[s] <= d.key[1]
    <3>1. s # reader.entry.stream /\ client.sent[s] < version[s] /\ changed[s] + Stale >= clock
        BY <1>1, <1>2, <2>1
    <3> SUFFICES ASSUME put[s].at \notin {"pinned", "saving"}
                 PROVE  \E d \in disk' : /\ d.stream = s /\ Before(client'.token, d.key)
                                         /\ changed'[s] <= d.key[1]
        BY <1>1
    <3>2. PICK d \in disk : d.stream = s /\ Before(client.token, d.key) /\ changed[s] <= d.key[1]
        BY <3>1 DEF FeedInv, UnsentLieAhead
    <3>3. Before(reader.entry.key, d.key)
        BY <1>1, <3>1, <3>2 DEF FeedInv, ReadsInOrder
    <3> QED
        BY <1>1, <3>2, <3>3
  <2> QED
    BY <1>1, <2>1 DEF FeedInv, UnsentLieAhead, Saving
<1> QED
    BY <1>3, <1>4, <1>5 DEF FeedInv

LEMMA FindKeeps ==
    ASSUME TypeOK, FeedInv, Find
    PROVE  FeedInv'
<1> USE KeysOfState
<1>1. UNCHANGED <<clock, version, changed, put, generator, disk, client>>
    BY DEF Find, writerVars
<1>2. reader'.token = reader.token
    BY DEF Find, TypeOK
<1>3. UnsentLieAhead'
    BY <1>1 DEF FeedInv, UnsentLieAhead, Saving
<1>4. CASE reader'.at # "found"
    BY <1>1, <1>2, <1>3, <1>4 DEF FeedInv, KeysInOrder, ReadsInOrder, GivenOut, Saving
<1>5. CASE reader'.at = "found"
  <2>1. PICK e \in Entries : (\A d \in Entries : ~Before(d.key, e.key)) /\ reader'.entry = e
    BY <1>5 DEF Find, TypeOK
  <2>2. e \in disk /\ Before(reader.token, e.key)
    BY DEF Entries
  <2>3. KeysInOrder'
    BY <1>1, <2>1, <2>2 DEF FeedInv, KeysInOrder, GivenOut, Saving
  <2>4. ASSUME NEW d \in disk, Before(reader.token, d.key)
        PROVE  d = e \/ Before(e.key, d.key)
    <3>1. ~Before(d.key, e.key)
        BY <2>1, <2>4 DEF Entries
    <3> QED
        BY <2>2, <3>1, KeyOrder DEF FeedInv, KeysInOrder
  <2>5. ReadsInOrder'
    BY <1>1, <1>2, <2>1, <2>2, <2>4 DEF FeedInv, ReadsInOrder
  <2> QED
    BY <1>3, <2>3, <2>5 DEF FeedInv
<1> QED
    BY <1>4, <1>5

LEMMA PinStateKeeps ==
    ASSUME TypeOK, FeedInv, NEW s \in Stream, PinState(s)
    PROVE  FeedInv'
<1> USE KeysOfState
<1>1. /\ UNCHANGED <<clock, generator, disk, reader, client>>
      /\ put'[s].at = "pinned" /\ changed'[s] = clock
      /\ \A r \in Stream : r # s => /\ put'[r] = put[r] /\ changed'[r] = changed[r]
                                    /\ version'[r] = version[r]
    BY DEF PinState, TypeOK
<1>2. \A r \in Stream : Saving(r)' => r # s /\ Saving(r)
    BY <1>1 DEF Saving
<1>3. KeysInOrder'
    BY <1>1, <1>2 DEF FeedInv, KeysInOrder, GivenOut
<1>4. ReadsInOrder'
    BY <1>1 DEF FeedInv, ReadsInOrder
<1>5. UnsentLieAhead'
    BY <1>1, <1>2 DEF FeedInv, UnsentLieAhead
<1> QED
    BY <1>3, <1>4, <1>5 DEF FeedInv

LEMMA NotifyKeeps ==
    ASSUME TypeOK, FeedInv, NEW s \in Stream, Notify(s)
    PROVE  FeedInv'
<1> USE KeysOfState
<1>1. /\ UNCHANGED <<clock, version, changed, generator, disk, client>>
      /\ put[s].at = "saved" /\ put'[s].at = "idle"
      /\ \A r \in Stream : r # s => put'[r] = put[r]
    BY DEF Notify, TypeOK
<1>2. /\ reader'.token = reader.token
      /\ reader'.at = "found" => reader' = reader
    BY DEF Notify, NewReader
<1>3. \A r \in Stream : Saving(r)' => r # s /\ Saving(r)
    BY <1>1 DEF Saving
<1>4. KeysInOrder'
    BY <1>1, <1>2, <1>3 DEF FeedInv, KeysInOrder, GivenOut
<1>5. ReadsInOrder'
    BY <1>1, <1>2 DEF FeedInv, ReadsInOrder
<1>6. UnsentLieAhead'
    BY <1>1, <1>3 DEF FeedInv, UnsentLieAhead
<1> QED
    BY <1>4, <1>5, <1>6 DEF FeedInv

LEMMA ReaderStepsKeep ==
    ASSUME TypeOK, FeedInv, Wait \/ Reconnect \/ UNCHANGED vars
    PROVE  FeedInv'
<1>1. /\ UNCHANGED <<clock, version, changed, generator, put, disk, client>>
      /\ reader'.token = client.token
      /\ reader'.at = "found" => reader' = reader
    BY DEF FeedInv, ReadsInOrder, Wait, Reconnect, vars, writerVars, NewReader, TypeOK
<1>2. KeysInOrder'
    BY <1>1 DEF FeedInv, KeysInOrder, GivenOut, Saving
<1>3. ReadsInOrder'
    BY <1>1 DEF FeedInv, ReadsInOrder
<1>4. UnsentLieAhead'
    BY <1>1 DEF FeedInv, UnsentLieAhead, Saving
<1> QED
    BY <1>2, <1>3, <1>4 DEF FeedInv

LEMMA DeleteStaleKeeps ==
    ASSUME TypeOK, FeedInv, DeleteStale
    PROVE  FeedInv'
<1> USE KeysOfState, FeedAssumption
<1>1. /\ UNCHANGED <<clock, version, changed, generator, put, reader, client>>
      /\ disk' = {d \in disk : d.key[1] + Stale >= clock}
    BY DEF DeleteStale, writerVars
<1>2. KeysInOrder'
    BY <1>1 DEF FeedInv, KeysInOrder, GivenOut, Saving
<1>3. ReadsInOrder'
    BY <1>1 DEF FeedInv, ReadsInOrder
<1>4. ASSUME NEW s \in Stream, changed[s] + Stale >= clock,
             NEW d \in disk, changed[s] <= d.key[1]
      PROVE  d \in disk'
    <2>1. d.key[1] \in Nat /\ changed[s] \in Nat /\ clock \in Nat /\ Stale \in Nat
        BY DEF Key
    <2>2. d.key[1] + Stale >= clock
        BY <1>4, <2>1
    <2> QED
        BY <1>1, <2>2
<1>5. UnsentLieAhead'
    BY <1>1, <1>4 DEF FeedInv, UnsentLieAhead, Saving
<1> QED
    BY <1>2, <1>3, <1>5 DEF FeedInv

LEMMA TickKeeps ==
    ASSUME TypeOK, FeedInv, Tick, Sound
    PROVE  FeedInv'
<1> USE KeysOfState, FeedAssumption
<1>1. /\ UNCHANGED <<version, changed, generator, put, disk, reader, client>>
      /\ clock' = clock + 1
    BY DEF Tick, Sound, writerVars
<1>2. KeysInOrder'
    BY <1>1 DEF FeedInv, KeysInOrder, GivenOut, Saving
<1>3. ReadsInOrder'
    BY <1>1 DEF FeedInv, ReadsInOrder
<1>4. UnsentLieAhead'
    BY <1>1 DEF FeedInv, UnsentLieAhead, Saving
<1> QED
    BY <1>2, <1>3, <1>4 DEF FeedInv

LEMMA NextFeedInv == TypeOK /\ FeedInv /\ Sound /\ Sound' /\ [Next]_vars => FeedInv'
<1> SUFFICES ASSUME TypeOK, FeedInv, Sound, Sound', [Next]_vars PROVE FeedInv'
    OBVIOUS
<1>1. ~Crash
    BY FeedAssumption DEF Sound, Crash
<1> QED
    BY <1>1, PinStateKeeps, PutKeeps, SaveKeeps, NotifyKeeps, FindKeeps, SendKeeps,
       ReaderStepsKeep, DeleteStaleKeeps, TickKeeps DEF Next

-----------------------------------------------------------------------------
(* The state of the feed, its reader and its client has its type.          *)
THEOREM FeedTypeCorrect == Spec => []TypeOK
BY InitType, NextType, PTL DEF Spec

LEMMA NextIInv == IInv /\ [Next]_vars => IInv'
BY NextType, SoundSteps, NextFeedInv DEF IInv

LEMMA InvariantSuffices == IInv => UpdatesLieAhead
<1> SUFFICES ASSUME IInv, NEW s \in Stream, faults = {} /\ crashes = 0,
                    client.sent[s] < version[s] /\ changed[s] + Stale >= clock
             PROVE  \/ put[s].at \in {"pinned", "saving"}
                    \/ \E d \in disk : d.stream = s /\ Before(client.token, d.key)
    BY DEF UpdatesLieAhead
<1> QED
    BY DEF IInv, Sound, FeedInv, UnsentLieAhead

(* No interleaving of writers, readers, reconnections and clean up loses   *)
(* an update, while the clock goes forward, LevelDB keeps the order of its *)
(* writes, the client has its token and the node does not crash.           *)
THEOREM FeedLosesNothing == Spec => []UpdatesLieAhead
<1>1. Init => IInv
    BY InitType, InitFeedInv DEF IInv
<1> QED
    BY <1>1, NextIInv, InvariantSuffices, PTL DEF Spec


-----------------------------------------------------------------------------
(***************************************************************************)
(* The pin store.                                                          *)
(***************************************************************************)
(* Calls that come one after the other are as if there were one lane.      *)
OneCall == \A c, d \in Call : Active(c) /\ Active(d) => c = d

(* Where a call of each kind can be.                                       *)
CallsAreWhatTheyDo ==
    \A c \in Call : Active(c) => (op[c] = "unpin" <=> pc[c] \in {"unpin", "remove", "unmark"})

(* Unpins are on their way only from an rm, which then has gone on, and    *)
(* before the next call.                                                   *)
UnpinsAreRms ==
    /\ unpinning # {} => "unpin" \in setting.ops
    /\ unpinning # {} => \A c \in Call : Active(c) => op[c] = "unpin" /\ pc[c] # "unpin"
    /\ unpinning # {} /\ ~BeingUnpinned => store = 0 /\ marked = {}
    /\ \A c \in Call : pc[c] = "unmark" => store = 0

(* What an add has not pinned, of the log it is about to save, it is yet   *)
(* to pin.                                                                 *)
AddsPinTheirLog ==
    /\ marked \subseteq Commits /\ store <= log
    /\ \A c \in Call : /\ pc[c] = "pinning" => Commits \subseteq pinned \cup todo[c]
                       /\ pc[c] = "mark" => Commits \subseteq pinned
    /\ ~BeingUnpinned => 1..store \cup marked \subseteq pinned

PinInv == OneCall /\ CallsAreWhatTheyDo /\ UnpinsAreRms /\ AddsPinTheirLog
PinsInv == PinsTypeOK /\ (Orderly /\ Whole => PinInv)

-----------------------------------------------------------------------------
LEMMA InitPinsType == InitPins => PinsTypeOK
BY PinStoreAssumption DEF InitPins, PinsTypeOK

LEMMA NextPinsType == PinsTypeOK /\ [NextPins]_pinVars => PinsTypeOK'
<1> SUFFICES ASSUME PinsTypeOK, [NextPins]_pinVars PROVE PinsTypeOK'
    OBVIOUS
<1> USE PinStoreAssumption
<1>1. ASSUME NEW c \in Call, Update(c) PROVE PinsTypeOK'
    BY <1>1 DEF Update, Begin, Goto, Active, PinsTypeOK
<1>2. ASSUME NEW c \in Call, IsPinned(c) PROVE PinsTypeOK'
    BY <1>2 DEF IsPinned, Goto, PinsTypeOK
<1>3. ASSUME NEW c \in Call, Pin(c) PROVE PinsTypeOK'
  <2>1. calls' \in 0..MaxCalls
    <3>1. calls < MaxCalls /\ calls' = calls + 1
        BY <1>3 DEF Pin, Begin
    <3> QED
        BY <3>1 DEF PinsTypeOK
  <2>2. PICK k \in {"pin", "forced pin", "model"} : Begin(c, k, "add")
    BY <1>3 DEF Pin
  <2>3. UNCHANGED <<setting, log, marked, store, pinned, unpinning, todo>>
    BY <1>3 DEF Pin
  <2>4. /\ k \in setting.ops /\ pc[c] = "idle" /\ calls < MaxCalls /\ calls' = calls + 1
        /\ op' = [op EXCEPT ![c] = k] /\ pc' = [pc EXCEPT ![c] = "add"]
    BY <2>2 DEF Begin, Goto, Active
  <2>5. op' \in [Call -> setting'.ops \cup {"none"}]
    BY <2>3, <2>4 DEF PinsTypeOK
  <2>6. \A d \in Call : todo'[d] # {} => pc'[d] \in {"pinning", "unpin"}
    BY <2>3, <2>4 DEF PinsTypeOK
  <2>7. pc' \in [Call -> {"idle", "check", "add", "pinning", "mark", "unpin", "remove", "unmark"}]
    BY <2>4 DEF PinsTypeOK
  <2> QED
    BY <2>3, <2>5, <2>6, <2>1, <2>7 DEF PinsTypeOK
<1>4. ASSUME NEW c \in Call, Add(c) PROVE PinsTypeOK'
  <2>1. Commits \subseteq 1..MaxLog
    BY DEF Commits, PinsTypeOK
  <2>2. NewCommits(c) \subseteq 1..MaxLog
    BY <2>1 DEF NewCommits
  <2> QED
    BY <1>4, <2>2 DEF Add, Goto, PinsTypeOK
<1>5. ASSUME NEW c \in Call, NEW p \in 1..MaxLog, PinCommit(c, p) PROVE PinsTypeOK'
    BY <1>5 DEF PinCommit, PinsTypeOK
<1>6. ASSUME NEW c \in Call, SavePinned(c) PROVE PinsTypeOK'
    BY <1>6 DEF SavePinned, Goto, PinsTypeOK
<1>7. ASSUME NEW c \in Call, MarkAsPinned(c) PROVE PinsTypeOK'
  <2>1. Commits \subseteq 1..MaxLog
    BY DEF Commits, PinsTypeOK
  <2> QED
    BY <1>7, <2>1 DEF MarkAsPinned, Goto, PinsTypeOK
<1>8. ASSUME NEW c \in Call, PinFails(c) PROVE PinsTypeOK'
    BY <1>8 DEF PinFails, Goto, PinsTypeOK
<1>9. ASSUME NEW c \in Call, Unpin(c) PROVE PinsTypeOK'
  <2>1. Commits \subseteq 1..MaxLog
    BY DEF Commits, PinsTypeOK
  <2> QED
    BY <1>9, <2>1 DEF Unpin, Begin, Goto, Active, PinsTypeOK
<1>10. ASSUME NEW c \in Call, StartUnpinning(c) PROVE PinsTypeOK'
    BY <1>10 DEF StartUnpinning, Goto, PinsTypeOK
<1>11. ASSUME NEW c \in Call, Remove(c) PROVE PinsTypeOK'
    BY <1>11 DEF Remove, Goto, PinsTypeOK
<1>12. ASSUME NEW c \in Call, MarkAsUnpinned(c) PROVE PinsTypeOK'
    BY <1>12 DEF MarkAsUnpinned, Goto, PinsTypeOK
<1>13. ASSUME NEW p \in 1..MaxLog, UnpinCommit(p) PROVE PinsTypeOK'
    BY <1>13 DEF UnpinCommit, PinsTypeOK
<1>14. CASE CrashPins
    BY <1>14 DEF CrashPins, PinsTypeOK
<1>15. CASE UNCHANGED pinVars
    BY <1>15 DEF pinVars, PinsTypeOK
<1> QED
    BY <1>1, <1>2, <1>3, <1>4, <1>5, <1>6, <1>7, <1>8, <1>9, <1>10, <1>11, <1>12, <1>13,
       <1>14, <1>15 DEF NextPins

-----------------------------------------------------------------------------
(* A call that begins is the only one.                                     *)
LEMMA BeginsAlone ==
    ASSUME PinsTypeOK, Orderly, NEW c \in Call, NEW k \in AllOps, NEW next, Begin(c, k, next)
    PROVE  (\A d \in Call : ~Active(d)) /\ unpinning = {}
BY DEF Begin, MayBegin, Orderly, PinsTypeOK

LEMMA InitPinInv == InitPins => PinInv
BY DEF InitPins, PinInv, OneCall, CallsAreWhatTheyDo, UnpinsAreRms, AddsPinTheirLog, Active,
       BeingUnpinned, Commits

LEMMA NextPinInv == PinsTypeOK /\ Orderly /\ Whole /\ PinInv /\ [NextPins]_pinVars => PinInv'
<1> SUFFICES ASSUME PinsTypeOK, Orderly, Whole, PinInv, [NextPins]_pinVars PROVE PinInv'
    OBVIOUS
<1> USE PinStoreAssumption
<1> USE DEF PinInv, OneCall, CallsAreWhatTheyDo, UnpinsAreRms, AddsPinTheirLog, Active,
        BeingUnpinned
<1>1. ASSUME NEW c \in Call, Update(c) PROVE PinInv'
  <2>1. (\A d \in Call : ~Active(d)) /\ unpinning = {}
    BY <1>1, BeginsAlone DEF Update, AllOps
  <2>2. Commits \subseteq Commits' /\ store <= log'
    BY <1>1 DEF Update, Commits, PinsTypeOK
  <2> QED
    BY <1>1, <2>1, <2>2 DEF Update, Begin, Goto, PinsTypeOK
<1>2. ASSUME NEW c \in Call, IsPinned(c) PROVE PinInv'
    BY <1>2 DEF IsPinned, Goto, PinsTypeOK, Commits
<1>3. ASSUME NEW c \in Call, Pin(c) PROVE PinInv'
  <2>1. PICK k \in {"pin", "forced pin", "model"} : Begin(c, k, "add")
    BY <1>3 DEF Pin
  <2>2. UNCHANGED <<setting, log, marked, store, pinned, unpinning, todo>>
    BY <1>3 DEF Pin
  <2>3. (\A d \in Call : ~Active(d)) /\ unpinning = {}
    BY <2>1, BeginsAlone DEF AllOps
  <2> QED
    BY <2>1, <2>2, <2>3 DEF Begin, Goto, PinsTypeOK, Commits
<1>4. ASSUME NEW c \in Call, Add(c) PROVE PinInv'
  <2>1. Commits \subseteq pinned \cup NewCommits(c)
    BY <1>4 DEF Add, NewCommits
  <2> QED
    BY <1>4, <2>1 DEF Add, Goto, PinsTypeOK, Commits
<1>5. ASSUME NEW c \in Call, NEW p \in 1..MaxLog, PinCommit(c, p) PROVE PinInv'
    BY <1>5 DEF PinCommit, PinsTypeOK, Commits
<1>6. ASSUME NEW c \in Call, SavePinned(c) PROVE PinInv'
    BY <1>6 DEF SavePinned, Goto, PinsTypeOK, Commits
<1>7. ASSUME NEW c \in Call, MarkAsPinned(c) PROVE PinInv'
    BY <1>7 DEF MarkAsPinned, Goto, PinsTypeOK, Commits
<1>8. ASSUME NEW c \in Call, PinFails(c) PROVE PinInv'
    BY <1>8 DEF PinFails, Goto, PinsTypeOK, Commits
<1>9. ASSUME NEW c \in Call, Unpin(c) PROVE PinInv'
  <2>1. (\A d \in Call : ~Active(d)) /\ unpinning = {}
    BY <1>9, BeginsAlone DEF Unpin, AllOps
  <2> QED
    BY <1>9, <2>1 DEF Unpin, Begin, Goto, PinsTypeOK, Commits
<1>10. ASSUME NEW c \in Call, StartUnpinning(c) PROVE PinInv'
    BY <1>10 DEF StartUnpinning, Goto, PinsTypeOK, Commits
<1>11. ASSUME NEW c \in Call, Remove(c) PROVE PinInv'
    BY <1>11 DEF Remove, Goto, PinsTypeOK, Commits
<1>12. ASSUME NEW c \in Call, MarkAsUnpinned(c) PROVE PinInv'
    BY <1>12 DEF MarkAsUnpinned, Goto, PinsTypeOK, Commits
<1>13. ASSUME NEW p \in 1..MaxLog, UnpinCommit(p) PROVE PinInv'
    BY <1>13 DEF UnpinCommit, PinsTypeOK, Commits
<1>14. CASE CrashPins
  <2>1. "unpin" \notin setting.ops /\ unpinning = {}
    BY <1>14 DEF CrashPins, Whole
  <2>2. ~BeingUnpinned
    BY <2>1 DEF PinsTypeOK
  <2> QED
    BY <1>14, <2>1, <2>2 DEF CrashPins, PinsTypeOK, Commits
<1>15. CASE UNCHANGED pinVars
    BY <1>15 DEF pinVars, Commits
<1> QED
    BY <1>1, <1>2, <1>3, <1>4, <1>5, <1>6, <1>7, <1>8, <1>9, <1>10, <1>11, <1>12, <1>13,
       <1>14, <1>15 DEF NextPins

LEMMA SettingStays == [NextPins]_pinVars => UNCHANGED setting
BY DEF NextPins, Update, Begin, IsPinned, Pin, Add, PinCommit, SavePinned, MarkAsPinned, PinFails, Unpin,
       StartUnpinning, UnpinCommit, Remove, MarkAsUnpinned, CrashPins, pinVars

-----------------------------------------------------------------------------
(* The variables have their types.                                         *)
THEOREM PinsTypeCorrect == SpecPins => []PinsTypeOK
BY InitPinsType, NextPinsType, PTL DEF SpecPins

(* Through updates, pins that fail and crashes, no state is stored, and no *)
(* commit is marked, before its commits are pinned.                        *)
THEOREM StoredStatesArePinned == SpecPins => []StoredIsPinned
<1>1. InitPins => PinsInv
    BY InitPinsType, InitPinInv DEF PinsInv
<1>2. PinsInv /\ [NextPins]_pinVars => PinsInv'
    BY NextPinsType, NextPinInv, SettingStays DEF PinsInv, Orderly, Whole
<1>3. PinsInv => StoredIsPinned
    BY DEF PinsInv, StoredIsPinned, PinInv, AddsPinTheirLog
<1> QED
    BY <1>1, <1>2, <1>3, PTL DEF SpecPins

=============================================================================
