--------------------------- MODULE Subscriptions ---------------------------
(***************************************************************************)
(* StateCache (packages/core/src/state-management/state-cache.ts) and the  *)
(* subscriptions for which Repository.updates$ keeps states in it: a       *)
(* volatile bucket that forgets the least recently used RunningState and   *)
(* completes it, and a durable one for states that have subscribers.       *)
(*                                                                         *)
(* Actors are calls in progress.  A subscriber looks its stream up in the  *)
(* loadingQ and attaches itself after it has left that queue; loads and    *)
(* resyncs only bring RunningStates into the cache.                        *)
(*                                                                         *)
(* <<s, k>> is the k-th RunningState that was made for stream s.           *)
(***************************************************************************)
EXTENDS Naturals, SequencesExt

CONSTANTS
    Stream,
    Actor, NoActor,
    StreamOf,    \* [Actor -> Stream]
    Kind,        \* [Actor -> {"subscribe", "load", "resync"}]
    Stored,      \* streams in the state store
    Hasty,       \* subscribers that may unsubscribe before they are attached
    Limit        \* cacheLimit of the volatile bucket

ASSUME SubscriptionsAssumption ==
    /\ NoActor \notin Actor
    /\ StreamOf \in [Actor -> Stream]
    /\ Kind \in [Actor -> {"subscribe", "load", "resync"}]
    /\ Stored \subseteq Stream /\ Hasty \subseteq Actor
    /\ Limit \in Nat \ {0}

VARIABLES
    made,        \* [Stream -> how many RunningStates it has had]
    completed,   \* RunningStates that were completed
    volatile,    \* RunningStates, the least recently used one first
    durable,     \* [Stream -> k, or 0]
    lane,        \* [Stream -> the actor in its loadingQ lane, or NoActor]
    pc,
    ref,         \* [Actor -> the k it found, or 0]
    tracked,     \* subscribers in the subscriptionSet of their RunningState
    closed       \* subscribers whose Subscription is closed

cache == <<made, completed, volatile, durable>>
vars == <<cache, lane, pc, ref, tracked, closed>>

(* JavaScript finishes what needs no input or output first: while an actor *)
(* is about to attach, calls that waited for a lane may look into memory,  *)
(* but no answer arrives and no user acts.                                 *)
NewTurn == \A a \in Actor : pc[a] # "attaching"

Step(a, from, to) == pc[a] = from /\ pc' = [pc EXCEPT ![a] = to]
SubscriptionSet(s, k) == {a \in tracked : StreamOf[a] = s /\ ref[a] = k}

(* A bucket without stream s, of which it has one entry at most.           *)
Without(bucket, s) ==
    IF \E i \in DOMAIN bucket : bucket[i][1] = s
    THEN RemoveAt(bucket, CHOOSE i \in DOMAIN bucket : bucket[i][1] = s)
    ELSE bucket

(* StateCache.get                                                          *)
Get(s) ==
    IF durable[s] # 0 THEN durable[s]
    ELSE IF \E e \in ToSet(volatile) : e[1] = s
    THEN (CHOOSE e \in ToSet(volatile) : e[1] = s)[2]
    ELSE 0

(* The volatile bucket when <<s, k>> is used, and what it evicts for that. *)
Used(s, k) == Append(Without(volatile, s), <<s, k>>)
Evicted(s, k) == IF Len(Used(s, k)) > Limit THEN {Head(Used(s, k))} ELSE {}

Kept(s, k) == IF Len(Used(s, k)) > Limit THEN Tail(Used(s, k)) ELSE Used(s, k)

(* RunningState.complete closes the subscriptions of what was evicted.     *)
(* (A state in the volatile bucket has some only after it took the place   *)
(* of one that was subscribed to.)                                         *)
Told(out) == UNION {SubscriptionSet(e[1], e[2]) : e \in out}
Complete(out) ==
    /\ completed' = completed \cup out
    /\ tracked' = tracked \ Told(out)
    /\ closed' = closed \cup Told(out)

-----------------------------------------------------------------------------
Init ==
    /\ made = [s \in Stream |-> 0]
    /\ completed = {}
    /\ volatile = <<>>
    /\ durable = [s \in Stream |-> 0]
    /\ lane = [s \in Stream |-> NoActor]
    /\ pc = [a \in Actor |-> "start"]
    /\ ref = [a \in Actor |-> 0]
    /\ tracked = {} /\ closed = {}

(* Where an actor goes on when it has left the loadingQ.                   *)
AfterLookup(a) == IF Kind[a] = "subscribe" THEN "attaching" ELSE "done"

(* What is in memory is returned at once, and becomes the most recent.     *)
FindInMemory(a) ==
    LET s == StreamOf[a] IN
    /\ Kind[a] # "resync"
    /\ lane[s] = NoActor
    /\ Get(s) # 0
    /\ Step(a, "start", AfterLookup(a))
    /\ ref' = [ref EXCEPT ![a] = Get(s)]
    /\ volatile' = IF durable[s] = 0 THEN Used(s, Get(s)) ELSE volatile
    /\ UNCHANGED <<made, completed, durable, lane, tracked, closed>>

AskElsewhere(a) ==
    LET s == StreamOf[a] IN
    /\ lane[s] = NoActor
    /\ Kind[a] = "resync" \/ Get(s) = 0
    /\ Step(a, "start", "reading")
    /\ lane' = [lane EXCEPT ![s] = a]
    /\ UNCHANGED <<cache, ref, tracked, closed>>

(* The store or the network answers: a new RunningState takes the place of *)
(* the one in the cache, if any, in each bucket that has one (set).        *)
Register(a) ==
    LET s == StreamOf[a]
        k == made[s] + 1
    IN  /\ s \in Stored \/ Kind[a] # "subscribe"
        /\ NewTurn
        /\ Step(a, "reading", AfterLookup(a))
        /\ lane' = [lane EXCEPT ![s] = NoActor]
        /\ made' = [made EXCEPT ![s] = k]
        /\ ref' = [ref EXCEPT ![a] = k]
        /\ durable' = IF durable[s] = 0 THEN durable ELSE [durable EXCEPT ![s] = k]
        /\ volatile' = Kept(s, k)
        /\ Complete(Evicted(s, k))

(* A subscriber is not told what the network has.                          *)
FindNothing(a) ==
    LET s == StreamOf[a] IN
    /\ s \notin Stored /\ Kind[a] = "subscribe"
    /\ NewTurn
    /\ Step(a, "reading", "attaching")
    /\ lane' = [lane EXCEPT ![s] = NoActor]
    /\ UNCHANGED <<cache, ref, tracked, closed>>

(* updates$ has its RunningState, or makes one of the state that its       *)
(* Stream holds: endure it, subscribe to it and track the subscription.    *)
(* One that is closed by now is tracked all the same: its teardown, which  *)
(* would remove it, has already run.                                       *)
Attach(a) ==
    LET s == StreamOf[a]
        new == ref[a] = 0
        k == IF new THEN made[s] + 1 ELSE ref[a]
        out == IF new THEN Evicted(s, k) ELSE {}
        open == a \notin closed /\ <<s, k>> \notin completed
    IN  /\ Step(a, "attaching", IF open THEN "subscribed" ELSE "done")
        /\ made' = IF new THEN [made EXCEPT ![s] = k] ELSE made
        /\ ref' = [ref EXCEPT ![a] = k]
        /\ durable' = [durable EXCEPT ![s] = k]
        /\ volatile' = Without(IF new THEN Kept(s, k) ELSE volatile, s)
        /\ completed' = completed \cup out
        /\ tracked' = (tracked \ Told(out)) \cup {a}
        /\ closed' = closed \cup Told(out) \cup (IF open THEN {} ELSE {a})
        /\ UNCHANGED lane

(* The last subscription of a RunningState frees its stream: the durable   *)
(* state moves to the volatile bucket, which may evict another.            *)
Free(a) ==
    LET s == StreamOf[a] IN
    IF durable[s] = 0
    THEN /\ tracked' = tracked \ {a} /\ closed' = closed \cup {a}
         /\ UNCHANGED <<completed, volatile, durable>>
    ELSE /\ durable' = [durable EXCEPT ![s] = 0]
         /\ volatile' = Kept(s, durable[s])
         /\ completed' = completed \cup Evicted(s, durable[s])
         /\ tracked' = tracked \ ({a} \cup Told(Evicted(s, durable[s])))
         /\ closed' = closed \cup {a} \cup Told(Evicted(s, durable[s]))

(* Mutants: the first one to leave frees the stream; or nobody does.       *)
UnsubscribeForAll(a) ==
    /\ NewTurn
    /\ Step(a, "subscribed", "done")
    /\ a \notin closed
    /\ Free(a)
    /\ UNCHANGED <<made, lane, ref>>

UnsubscribeOnly(a) ==
    /\ NewTurn
    /\ Step(a, "subscribed", "done")
    /\ a \notin closed
    /\ tracked' = tracked \ {a} /\ closed' = closed \cup {a}
    /\ UNCHANGED <<cache, lane, ref>>

Unsubscribe(a) ==
    /\ NewTurn
    /\ Step(a, "subscribed", "done")
    /\ a \notin closed
    /\ \/ /\ SubscriptionSet(StreamOf[a], ref[a]) = {a}
          /\ Free(a)
       \/ /\ SubscriptionSet(StreamOf[a], ref[a]) # {a}
          /\ tracked' = tracked \ {a} /\ closed' = closed \cup {a}
          /\ UNCHANGED <<completed, volatile, durable>>
    /\ UNCHANGED <<made, lane, ref>>

(* Before it is attached there is nothing to tear down.                    *)
UnsubscribeEarly(a) ==
    /\ NewTurn
    /\ a \in Hasty /\ Kind[a] = "subscribe"
    /\ pc[a] \in {"start", "reading"}
    /\ a \notin closed
    /\ closed' = closed \cup {a}
    /\ UNCHANGED <<cache, lane, pc, ref, tracked>>

Next ==
    \E a \in Actor :
        \/ FindInMemory(a) \/ AskElsewhere(a) \/ Register(a) \/ FindNothing(a)
        \/ Attach(a) \/ Unsubscribe(a) \/ UnsubscribeEarly(a)

Spec == Init /\ [][Next]_vars

-----------------------------------------------------------------------------
Attached(a) == pc[a] = "subscribed"

(* Every variable has its type.                                            *)
TypeOK ==
    /\ made \in [Stream -> Nat] /\ durable \in [Stream -> Nat] /\ ref \in [Actor -> Nat]
    /\ completed \subseteq Stream \X (Nat \ {0})
    /\ volatile \in Seq(Stream \X (Nat \ {0})) /\ Len(volatile) =< Limit
    /\ lane \in [Stream -> Actor \cup {NoActor}]
    /\ pc \in [Actor -> {"start", "reading", "attaching", "subscribed", "done"}]
    /\ tracked \subseteq Actor /\ closed \subseteq Actor

(* A resync replaces the RunningState under its subscribers; and so do     *)
(* those who ask for a stream that is not stored, each with his own.       *)
Undisturbed(s) ==
    \A a, b \in Actor : StreamOf[a] = s /\ StreamOf[b] = s =>
        /\ Kind[a] # "resync"
        /\ s \in Stored \/ a = b

(* "When a consumer subscribes to doctype updates, the updates should flow *)
(* regardless of the pinning status ... a subscribed document is not       *)
(* evicted" (docs-src/architecture/state-management.md:39): whoever is     *)
(* subscribed is so to the RunningState that updates of the stream use.    *)
SubscribersAreServed ==
    \A a \in Actor : Attached(a) /\ Undisturbed(StreamOf[a]) =>
        /\ a \notin closed
        /\ <<StreamOf[a], ref[a]>> \notin completed
        /\ Get(StreamOf[a]) = ref[a]

(* "When unsubscribed, it moves to volatile bucket" (ibid.): the durable   *)
(* bucket, which has no limit, holds no state nobody is subscribed to, but *)
(* of streams that a subscriber had left before it was attached.           *)
LeftBehind(s) == {a \in tracked \cap closed : StreamOf[a] = s}

DurableIsSubscribed ==
    \A s \in Stream : durable[s] # 0 /\ Undisturbed(s) /\ LeftBehind(s) = {} =>
        \E a \in Actor : Attached(a) /\ StreamOf[a] = s /\ ref[a] = durable[s]

=============================================================================
