-------------------------------- MODULE Feed --------------------------------
(***************************************************************************)
(* The feed of aggregated documents (packages/core/src/store/              *)
(* feed-aggregation-store.ts and feed.ts): every pinned update puts the    *)
(* stream under a key made of the time and a counter, and a client reads   *)
(* the keys after its token, which it keeps to resume from.                *)
(*                                                                         *)
(* Writers are streams: the executionQ updates one stream at a time, and   *)
(* several streams at once.  What a client gets is the stream's state when *)
(* the entry is sent.  Keys are <<ms, counter>>, ordered as their strings. *)
(***************************************************************************)
EXTENDS Naturals, FiniteSets, Functions

CONSTANTS
    Stream,
    NoEntry,
    MaxTime,     \* bound on the clock, in ms
    MaxUpdates,  \* bound on the updates of all streams together
    MaxCrashes,  \* bound on the restarts of the node
    Stale,       \* staleDuration
    Faults       \* what may go wrong, besides crashes: a subset of AllFaults

(* Writes of different streams reach LevelDB in any order; the wall clock  *)
(* is set back; the client asks without a token.                           *)
AllFaults == {"reorder", "step back", "no token"}

ASSUME FeedAssumption ==
    /\ Faults \subseteq AllFaults
    /\ MaxTime \in Nat \ {0} /\ {MaxUpdates, MaxCrashes, Stale} \subseteq Nat

VARIABLES
    clock,
    generator,   \* MonotonicKey: its #previous and #counter
    disk,        \* the store: a set of [key, stream], one per key
    version,     \* [Stream -> number of its updates that are pinned]
    changed,     \* [Stream -> time of the last of them]
    put,         \* [Stream -> the update in progress: at, key]
    reader,      \* StreamIDFeedSource: at, token, and the entry it found
    client,      \* its resume token, and [Stream -> version it was sent]
    crashes,
    faults       \* the fault of this behaviour, if any

writerVars == <<version, changed, put, generator>>
runVars == <<crashes, faults>>
vars == <<clock, writerVars, disk, reader, client, runVars>>

Before(k, l) == k[1] < l[1] \/ (k[1] = l[1] /\ k[2] < l[2])
Entries == {d \in disk : Before(reader.token, d.key)}

(* MonotonicKey.next: the key, and the generator after it.                 *)
NextKey(now) ==
    IF generator.previous = now
    THEN [key |-> <<now, generator.counter>>, previous |-> now, counter |-> generator.counter + 1]
    ELSE [key |-> <<now, 0>>, previous |-> now, counter |-> 1]

NewGenerator(now) == [previous |-> now, counter |-> 0]
NewReader(token) == [at |-> "pulled", token |-> token, entry |-> NoEntry]

-----------------------------------------------------------------------------
Init ==
    /\ clock = 1
    /\ generator = NewGenerator(1)
    /\ disk = {}
    /\ version = [s \in Stream |-> 0] /\ changed = [s \in Stream |-> 0]
    /\ put = [s \in Stream |-> [at |-> "idle", key |-> <<0, 0>>]]
    /\ faults \in {{}} \cup {{f} : f \in Faults}
    /\ client = [token |-> IF "no token" \in faults THEN <<1, 0>> ELSE <<0, 0>>,
                 sent |-> [s \in Stream |-> 0]]
    /\ reader = NewReader(client.token)
    /\ crashes = 0

(* _updateStateIfPinned: the state is stored first.                        *)
PinState(s) ==
    /\ put[s].at = "idle" /\ SumFunction(version) < MaxUpdates
    /\ version' = [version EXCEPT ![s] = @ + 1]
    /\ changed' = [changed EXCEPT ![s] = clock]
    /\ put' = [put EXCEPT ![s].at = "pinned"]
    /\ UNCHANGED <<clock, generator, disk, reader, client, runVars>>

(* FeedAggregationStore.put, up to the write.                              *)
Put(s) ==
    /\ put[s].at = "pinned"
    /\ put' = [put EXCEPT ![s] = [at |-> "saving", key |-> NextKey(clock).key]]
    /\ generator' = [previous |-> NextKey(clock).previous, counter |-> NextKey(clock).counter]
    /\ UNCHANGED <<clock, version, changed, disk, reader, client, runVars>>

(* LevelDB has the entry, in place of any other with its key.              *)
Save(s) ==
    /\ put[s].at = "saving"
    /\ "reorder" \in faults \/ \A r \in Stream : put[r].at = "saving" => ~Before(put[r].key, put[s].key)
    /\ disk' = {d \in disk : d.key # put[s].key} \cup {[key |-> put[s].key, stream |-> s]}
    /\ put' = [put EXCEPT ![s].at = "saved"]
    /\ UNCHANGED <<clock, version, changed, generator, reader, client, runVars>>

(* onWrite.next() wakes a reader that waits for it now, and nobody later.  *)
Notify(s) ==
    /\ put[s].at = "saved"
    /\ put' = [put EXCEPT ![s].at = "idle"]
    /\ reader' = IF reader.at = "waiting" THEN NewReader(reader.token) ELSE reader
    /\ UNCHANGED <<clock, version, changed, generator, disk, client, runVars>>

-----------------------------------------------------------------------------
(* pull asks for the first entry after the token; LevelDB answers later,   *)
(* from what it held when it was asked.                                    *)
Find ==
    /\ reader.at = "pulled"
    /\ \/ /\ Entries = {}
          /\ reader' = [reader EXCEPT !.at = "empty"]
       \/ \E d \in Entries :
            /\ \A e \in Entries : ~Before(e.key, d.key)
            /\ reader' = [reader EXCEPT !.at = "found", !.entry = d]
    /\ UNCHANGED <<clock, writerVars, disk, client, runVars>>

Wait ==
    /\ reader.at = "empty"
    /\ reader' = [reader EXCEPT !.at = "waiting"]
    /\ UNCHANGED <<clock, writerVars, disk, client, runVars>>

(* Mutant: the position becomes the present.                               *)
SendUpToNow ==
    /\ reader.at = "found"
    /\ reader' = NewReader(<<clock, 0>>)
    /\ client' = [token |-> <<clock, 0>>,
                  sent |-> [client.sent EXCEPT ![reader.entry.stream] = version[reader.entry.stream]]]
    /\ UNCHANGED <<clock, writerVars, disk, runVars>>

(* The entry is enqueued; the transformer sends the stream's state of now. *)
Send ==
    /\ reader.at = "found"
    /\ reader' = NewReader(reader.entry.key)
    /\ client' = [token |-> reader.entry.key,
                  sent |-> [client.sent EXCEPT ![reader.entry.stream] = version[reader.entry.stream]]]
    /\ UNCHANGED <<clock, writerVars, disk, runVars>>

(* The connection breaks; the client asks again with its token.            *)
Reconnect ==
    /\ reader # NewReader(client.token)
    /\ reader' = NewReader(client.token)
    /\ UNCHANGED <<clock, writerVars, disk, client, runVars>>

(* The periodic clean up.                                                  *)
DeleteStale ==
    /\ \E d \in disk : d.key[1] + Stale < clock
    /\ disk' = {d \in disk : d.key[1] + Stale >= clock}
    /\ UNCHANGED <<clock, writerVars, reader, client, runVars>>

(* A restart takes longer than a millisecond.                              *)
Crash ==
    /\ crashes < MaxCrashes /\ clock < MaxTime
    /\ crashes' = crashes + 1
    /\ clock' = clock + 1
    /\ generator' = NewGenerator(clock')
    /\ put' = [s \in Stream |-> [at |-> "idle", key |-> <<0, 0>>]]
    /\ reader' = NewReader(client.token)
    /\ UNCHANGED <<version, changed, disk, client, faults>>

Tick ==
    /\ \/ clock < MaxTime /\ clock' = clock + 1
       \/ "step back" \in faults /\ clock > 1 /\ clock' = clock - 1
    /\ UNCHANGED <<writerVars, disk, reader, client, runVars>>

Next ==
    \/ \E s \in Stream : PinState(s) \/ Put(s) \/ Save(s) \/ Notify(s)
    \/ Find \/ Wait \/ Send \/ Reconnect \/ DeleteStale \/ Crash \/ Tick

Spec == Init /\ [][Next]_vars

-----------------------------------------------------------------------------
Key == (0..MaxTime) \X Nat
Entry == [key : Key, stream : Stream]

(* Every variable has its type, and a reader has an entry to send or none. *)
TypeOK ==
    /\ clock \in 1..MaxTime /\ crashes \in 0..MaxCrashes /\ faults \subseteq Faults
    /\ generator \in [previous : 1..MaxTime, counter : Nat]
    /\ disk \subseteq Entry
    /\ version \in [Stream -> Nat] /\ changed \in [Stream -> 0..MaxTime]
    /\ put \in [Stream -> [at : {"idle", "pinned", "saving", "saved"}, key : Key]]
    /\ \/ reader \in [at : {"pulled", "empty", "waiting"}, token : Key, entry : {NoEntry}]
       \/ reader \in [at : {"found"}, token : Key, entry : Entry]
    /\ client \in [token : Key, sent : [Stream -> Nat]]

(* Whatever the client was not sent lies ahead of its token, or is being   *)
(* written, or is older than the feed remembers: no interleaving of        *)
(* writers, readers, reconnections and clean up loses an update.  (A crash *)
(* between the state and its entry does, and so does each of the faults.)  *)
UpdatesLieAhead ==
    \A s \in Stream :
        /\ faults = {} /\ crashes = 0
        /\ client.sent[s] < version[s] /\ changed[s] + Stale >= clock
        => \/ put[s].at \in {"pinned", "saving"}
           \/ \E d \in disk : d.stream = s /\ Before(client.token, d.key)

=============================================================================
