------------------------------ MODULE ReconFeed ------------------------------
(***************************************************************************)
(* A node beside ceramic-one: the interests it registers and the network   *)
(* it checks when it starts (ReconApi.init), the feed of events it polls   *)
(* (ReconApi.createSubscription), the repository's handling of each event  *)
(* and the cursor it keeps for the next start                              *)
(* (Repository.init, Repository.handleReconEvents).                        *)
(***************************************************************************)
EXTENDS Naturals, Sequences, FiniteSets, SequencesExt

CONSTANTS
    Models,        \* index.indexedModels() when the node starts
    Limit,         \* FEED_LIMIT
    MaxEvents,     \* bound: events of the feed
    MaxFailures    \* bound: failing calls and restarts

ASSUME ReconAssumption == Limit \in Nat \ {0} /\ MaxEvents \in Nat /\ MaxFailures \in Nat

VARIABLES
    life,      \* "off", "network", "interests", "polling", "stopped"
    interests,  \* what ceramic-one was asked to keep, durable there
    todo,       \* the models init has yet to register, in order
    events,     \* length of ceramic-one's feed
    position,   \* the cursor of the next poll
    batches,    \* what the poll emitted and concatMap has not finished
    done,       \* events of the first batch already handled
    cursor,     \* RECON_STORE_CURSOR_KEY, durable
    attempted,  \* history: events the repository tried to handle
    failures

reconVars == <<life, interests, todo, events, position, batches, done, cursor, attempted, failures>>

ReconInit ==
    /\ life = "off" /\ interests = {} /\ todo = <<>>
    /\ events = 0 /\ position = 0 /\ batches = <<>> /\ done = 0
    /\ cursor = 0 /\ attempted = {} /\ failures = 0

Fail == failures < MaxFailures /\ failures' = failures + 1

\* Repository.init reads the cursor, ReconApi.init begins.
Start ==
    /\ life = "off"
    /\ life' = "network"
    /\ position' = cursor
    /\ todo' = <<"MODEL">> \o SetToSeq(Models)
    /\ UNCHANGED <<interests, events, batches, done, cursor, attempted, failures>>

\* ReconApi.verifyNetwork: no answer and no name count as the right network; the
\* wrong one ends the node (it is configured again before its next start).
VerifyNetwork ==
    /\ life = "network"
    /\ life' = "interests"
    /\ UNCHANGED <<interests, todo, events, position, batches, done, cursor, attempted, failures>>

WrongNetwork ==
    /\ life = "network"
    /\ Fail /\ life' = "stopped"
    /\ UNCHANGED <<interests, todo, events, position, batches, done, cursor, attempted>>

RegisterInterest ==
    /\ life = "interests" /\ todo # <<>>
    /\ interests' = interests \union {Head(todo)}
    /\ todo' = Tail(todo)
    /\ UNCHANGED <<life, events, position, batches, done, cursor, attempted, failures>>

\* The error ends the start of the node.
InterestFails ==
    /\ life = "interests" /\ todo # <<>>
    /\ Fail /\ life' = "stopped"
    /\ UNCHANGED <<interests, todo, events, position, batches, done, cursor, attempted>>

Subscribe ==
    /\ life = "interests" /\ todo = <<>>
    /\ life' = "polling"
    /\ UNCHANGED <<interests, todo, events, position, batches, done, cursor, attempted, failures>>

\* Mutant: the cursor is stored when the batch begins.
StoreCursorFirst ==
    /\ life = "polling" /\ batches # <<>>
    /\ cursor' = Head(batches).cursor
    /\ IF Head(batches).first + done > Head(batches).cursor
       THEN batches' = Tail(batches) /\ done' = 0
       ELSE UNCHANGED <<batches, done>>
    /\ UNCHANGED <<life, interests, todo, events, position, attempted, failures>>

\* A request for the feed: at most Limit events from the cursor on, and the cursor
\* of the next request.  An empty answer is not emitted.
Poll ==
    /\ life = "polling"
    /\ position < events
    /\ LET last == IF events - position > Limit THEN position + Limit ELSE events
       IN  /\ batches' = Append(batches, [first |-> position + 1, cursor |-> last])
           /\ position' = last
    /\ UNCHANGED <<life, interests, todo, events, done, cursor, attempted, failures>>

\* Mutant: an event that cannot be handled ends the handling of the feed.
HandleEventOrGiveUp ==
    /\ life = "polling" /\ batches # <<>>
    /\ LET b == Head(batches)
       IN  /\ b.first + done <= b.cursor
           /\ attempted' = attempted \union {b.first + done}
    /\ done' = done + 1
    /\ life' \in {"polling", "silent"}
    /\ UNCHANGED <<interests, todo, events, position, batches, cursor, failures>>

\* Repository.handleReconEvents, one event: an error of its commit, its genesis or
\* its application is logged, and the next event follows.
HandleEvent ==
    /\ life = "polling" /\ batches # <<>>
    /\ LET b == Head(batches)
       IN  /\ b.first + done <= b.cursor
           /\ attempted' = attempted \union {b.first + done}
    /\ done' = done + 1
    /\ UNCHANGED <<life, interests, todo, events, position, batches, cursor, failures>>

StoreCursor ==
    /\ life = "polling" /\ batches # <<>>
    /\ Head(batches).first + done > Head(batches).cursor
    /\ cursor' = Head(batches).cursor
    /\ batches' = Tail(batches) /\ done' = 0
    /\ UNCHANGED <<life, interests, todo, events, position, attempted, failures>>

\* The node stops or dies, with it a batch half handled.  An error of the store
\* while the cursor is written ends it as well: nothing observes the subscription.
Stop ==
    /\ life \in {"network", "interests", "polling"}
    /\ Fail /\ life' = "stopped"
    /\ UNCHANGED <<interests, todo, events, position, batches, done, cursor, attempted>>

Restart ==
    /\ life = "stopped"
    /\ life' = "off"
    /\ todo' = <<>> /\ position' = 0 /\ batches' = <<>> /\ done' = 0
    /\ UNCHANGED <<interests, events, cursor, attempted, failures>>

\* ceramic-one learns of an event in a range the node asked for.
NewEvent ==
    /\ interests # {} /\ events < MaxEvents
    /\ events' = events + 1
    /\ UNCHANGED <<life, interests, todo, position, batches, done, cursor, attempted, failures>>

ReconNext ==
    \/ Start \/ VerifyNetwork \/ WrongNetwork \/ RegisterInterest \/ InterestFails
    \/ Subscribe \/ Poll \/ HandleEvent \/ StoreCursor \/ Stop \/ Restart \/ NewEvent

-----------------------------------------------------------------------------
(* Properties *)

\* Every event up to the stored cursor was tried: a restart that resumes there
\* passes none over (Repository.handleReconEvents).
CursorCovered == \A n \in 1..cursor : n \in attempted

\* The batches that wait are the events between the stored cursor and the next
\* poll, in order and without a gap.
Queued ==
    \A i \in DOMAIN batches :
        batches[i].first = 1 + (IF i = 1 THEN cursor ELSE batches[i - 1].cursor)

\* Every event of the feed is tried in the end, over failing requests and restarts.
EventsAreTried == \A n \in 1..MaxEvents : (events >= n) ~> (n \in attempted)
=============================================================================
