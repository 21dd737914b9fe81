------------------------------- MODULE Gossip -------------------------------
(***************************************************************************)
(* A node's side of the pubsub topic: the subscription that is made again  *)
(* when it breaks (IncomingChannel), keepalives (PubsubKeepalive), the     *)
(* limit on queries (PubsubRateLimit), queries for tips and the answers to *)
(* them (MessageBus, OutstandingQueries, TipFetcher), and the dispatcher's *)
(* handling of every message that arrives.  Time is counted in steps; what *)
(* the code compares with timestamps is kept here as ages in steps.        *)
(***************************************************************************)
EXTENDS Naturals, Sequences, FiniteSets, SequencesExt

CONSTANTS
    Streams, Tips,
    RecentSize,      \* PUBSUB_CACHE_SIZE
    Interval,        \* maxPubsubPublishInterval, in steps
    Day,             \* maxIntervalWithoutKeepalive, in steps
    Expiry,          \* the age at which floor(minutes) > _minutesThreshold
    QueriesPerSecond, MaxQueuedQueries,
    MaxQueries,      \* bound: entries of the queue of outstanding queries
    MaxFaults        \* bound: errors of IPFS, when it subscribes, listens or lets go

ASSUME GossipAssumption ==
    /\ {RecentSize, Interval, Day, Expiry, QueriesPerSecond, MaxQueuedQueries} \subseteq Nat \ {0}
    /\ {MaxQueries, MaxFaults} \subseteq Nat
    /\ Interval % 2 = 0 /\ Day % 2 = 0

VARIABLES
    inputs,      \* what the node's callers and peers do in this behaviour
    channel,     \* state of the IncomingChannel
    jobs,        \* PubsubIncoming.tasks: the running job first
    topic,       \* is the handler of the last subscription registered with IPFS
    strays,      \* handlers that IPFS failed to let go of
    faults,
    silence,     \* steps since lastPublishedMessageDate
    quiet,       \* steps since lastPublishedKeepAliveMessageDate
    phase,       \* steps since the last check of the keepalive job
    checked,     \* has that job run
    sent,        \* queries sent in this second
    waiting,     \* PubsubRateLimit.queue
    queryMap,    \* OutstandingQueries.queryMap: id |-> age
    queryQueue,  \* OutstandingQueries.queryQueue, as entries [id, age]
    sync,        \* per stream: what its findPossibleTips is doing
    recent,      \* Dispatcher.pubsubCache, least recently used first
    tried,       \* pairs handed to Repository.handleUpdateFromNetwork
    delivered,   \* history: pairs that messages for this node named
    asked,       \* history: age of the last query per stream, Expiry if none
    again        \* history: streams asked again while a query was outstanding

keepaliveVars == <<silence, quiet, phase, checked>>
channelVars   == <<channel, jobs, topic, strays, faults>>
queryVars     == <<queryMap, queryQueue, asked, again>>
tipVars       == <<recent, tried, delivered>>
sendVars      == <<sent, waiting>>
gossipVars    == <<inputs, channelVars, keepaliveVars, sendVars, queryVars, tipVars, sync>>

Open == channel # "closed"
Smaller(a, b) == IF a < b THEN a ELSE b
CheckEvery == Smaller(Interval \div 2, Day \div 2)

GossipInit ==
    /\ channel = "subscribing" /\ jobs = <<"subscribe">> /\ topic = FALSE
    /\ strays = 0 /\ faults = 0
    /\ silence = Interval /\ quiet = Day + 1 /\ phase = 0 /\ checked = FALSE
    /\ sent = 0 /\ waiting = <<>>
    /\ queryMap = <<>> /\ queryQueue = <<>>
    /\ asked = [s \in Streams |-> Expiry] /\ again = {}
    /\ sync = [s \in Streams |-> "no"]
    /\ recent = <<>> /\ tried = {} /\ delivered = {}

-----------------------------------------------------------------------------
(* The subscription to the topic *)

\* Mutant: the job that lets go of the topic is dropped with those that wait.
TeardownTooLate == jobs' = (IF jobs = <<>> THEN <<"unsubscribe">> ELSE <<Head(jobs)>>)

\* PubsubIncoming's teardown: drop what waits, then let go of the topic after
\* the job that runs.
Teardown == jobs' = (IF jobs = <<>> THEN <<>> ELSE <<Head(jobs)>>) \o <<"unsubscribe">>

JobDone ==
    /\ jobs # <<>>
    /\ jobs' = Tail(jobs)
    /\ topic' = (Head(jobs) = "subscribe")
    /\ channel' = IF Head(jobs) = "subscribe" /\ channel = "subscribing"
                  THEN "listening" ELSE channel
    /\ UNCHANGED <<inputs, strays, faults, keepaliveVars, sendVars, queryVars, tipVars, sync>>

\* pubsub.unsubscribe fails: a warning, and nobody tries again.  The handler that
\* IPFS may still have passes its messages to a subscriber that has ended.
UnsubscribeFails ==
    /\ "channel" \in inputs /\ faults < MaxFaults
    /\ jobs # <<>> /\ Head(jobs) = "unsubscribe"
    /\ faults' = faults + 1
    /\ jobs' = Tail(jobs)
    /\ topic' = FALSE
    /\ strays' = strays + (IF topic THEN 1 ELSE 0)
    /\ UNCHANGED <<inputs, channel, keepaliveVars, sendVars, queryVars, tipVars, sync>>

\* ipfs.id or pubsub.subscribe fails: an error of the channel unless it is closed.
JobFails ==
    /\ "channel" \in inputs /\ faults < MaxFaults
    /\ jobs # <<>> /\ Head(jobs) = "subscribe"
    /\ faults' = faults + 1
    /\ IF channel = "subscribing"
       THEN jobs' = Append(Tail(jobs), "unsubscribe") /\ channel' = "delayed"
       ELSE jobs' = Tail(jobs) /\ UNCHANGED channel
    /\ UNCHANGED <<inputs, topic, strays, keepaliveVars, sendVars, queryVars, tipVars, sync>>

\* onError of a subscription that was working.
TopicFails ==
    /\ "channel" \in inputs /\ faults < MaxFaults
    /\ channel = "listening"
    /\ faults' = faults + 1
    /\ channel' = "delayed" /\ topic' \in BOOLEAN
    /\ Teardown
    /\ UNCHANGED <<inputs, strays, keepaliveVars, sendVars, queryVars, tipVars, sync>>

Resubscribe ==
    /\ channel = "delayed"
    /\ channel' = "subscribing"
    /\ jobs' = Append(jobs, "subscribe")
    /\ UNCHANGED <<inputs, topic, strays, faults, keepaliveVars, sendVars, queryVars, tipVars, sync>>

\* Dispatcher.close: the bus completes, which ends every query as well.  It does
\* not wait for the last job: PubsubIncoming has put a queue of its own in the
\* place of the one that the dispatcher waits for.
CloseBus ==
    /\ "channel" \in inputs /\ Open
    /\ channel' = "closed"
    /\ Teardown
    /\ sync' = [s \in Streams |-> "no"]
    /\ UNCHANGED <<inputs, topic, strays, faults, keepaliveVars, sendVars, queryVars, tipVars>>

-----------------------------------------------------------------------------
(* Publishing *)

\* PubsubKeepalive.next for a message that is not a keepalive
Publish == silence' = 0 /\ UNCHANGED <<quiet, phase, checked>>

\* PubsubRateLimit.next for a query
SendQuery(s) ==
    IF Len(waiting) >= MaxQueuedQueries
    THEN UNCHANGED <<sendVars, keepaliveVars>>
    ELSE IF sent < QueriesPerSecond
    THEN sent' = sent + 1 /\ Publish /\ UNCHANGED waiting
    ELSE waiting' = Append(waiting, s) /\ UNCHANGED <<sent, keepaliveVars>>

NextSecond ==
    /\ Open /\ sent > 0
    /\ LET n == Smaller(Len(waiting), QueriesPerSecond)
       IN  /\ sent' = n
           /\ waiting' = SubSeq(waiting, n + 1, Len(waiting))
           /\ IF n > 0 THEN Publish ELSE UNCHANGED keepaliveVars
    /\ UNCHANGED <<inputs, channelVars, queryVars, tipVars, sync>>

NeedsKeepalive(idle, sinceKeepalive) ==
    sinceKeepalive > Day \/ idle >= Interval \div 2

\* A step of time, in which the keepalive job may be due.
Grow(age, limit) == Smaller(age + 1, limit)

Tick ==
    /\ "time" \in inputs /\ Open
    /\ waiting = <<>>
    /\ sent' = 0
    /\ LET due == (phase + 1) % CheckEvery = 0
           publish == due /\ NeedsKeepalive(Grow(silence, 2 * Interval), Grow(quiet, 2 * Day))
       IN  /\ phase' = (phase + 1) % CheckEvery
           /\ checked' = (checked \/ due)
           /\ silence' = IF publish THEN 0 ELSE Grow(silence, 2 * Interval)
           /\ quiet' = IF publish THEN 0 ELSE Grow(quiet, 2 * Day)
    /\ queryMap' = [i \in DOMAIN queryMap |-> Grow(queryMap[i], Expiry)]
    /\ queryQueue' = [i \in DOMAIN queryQueue |->
                        [queryQueue[i] EXCEPT !.age = Grow(@, Expiry)]]
    /\ asked' = [s \in Streams |-> Grow(asked[s], Expiry)]
    /\ UNCHANGED <<inputs, channelVars, waiting, again, tipVars, sync>>

-----------------------------------------------------------------------------
(* Queries for tips *)

\* What the queue holds behind its expired entries; it has the oldest ones first.
Younger(queue, limit) ==
    LET young == {i \in DOMAIN queue : queue[i].age < limit}
    IN  IF young = {} THEN <<>> ELSE SubSeq(queue, Min(young), Len(queue))

Expired(queue, limit) == {queue[i].id : i \in {j \in DOMAIN queue : queue[j].age >= limit}}

\* Mutant: a query expires as soon as the threshold is reached.
FreshEarly(map, queue) ==
    <<[i \in DOMAIN map \ Expired(queue, Expiry - 1) |-> map[i]], Younger(queue, Expiry - 1)>>

\* OutstandingQueries._cleanUpExpiredQueries, on <<map, queue>>
Fresh(map, queue) ==
    <<[i \in DOMAIN map \ Expired(queue, Expiry) |-> map[i]], Younger(queue, Expiry)>>

\* the entries the priority queue may have at its front
Fronts(queue) == {i \in DOMAIN queue : \A j \in DOMAIN queue : queue[j].age <= queue[i].age}

\* OutstandingQueries.remove: the entry of the query leaves the map, and the
\* front leaves the queue, whichever query it is.
Removed(map, queue, id) ==
    LET rest == [i \in DOMAIN map \ {id} |-> map[i]]
    IN  IF queue = <<>> THEN {<<rest, queue>>}
        ELSE {<<rest, RemoveAt(queue, f)>> : f \in Fronts(queue)}

Added(map, queue, id) ==
    LET fresh == Fresh(map, queue)
        before == IF id \in DOMAIN fresh[1] THEN Removed(fresh[1], fresh[2], id) ELSE {fresh}
    IN  {<<[i \in DOMAIN b[1] \union {id} |-> IF i = id THEN 0 ELSE b[1][i]],
           Append(b[2], [id |-> id, age |-> 0])>> : b \in before}

\* TipFetcher.findPossibleTips and MessageBus.queryNetwork.  The id of a query is
\* the hash of its type and stream: the stream stands for it.
Query(s) ==
    /\ "query" \in inputs /\ Open
    /\ sync[s] = "no" /\ Len(queryQueue) < MaxQueries
    /\ SendQuery(s)
    /\ \E r \in Added(queryMap, queryQueue, s) : queryMap' = r[1] /\ queryQueue' = r[2]
    /\ sync' = [sync EXCEPT ![s] = "asking"]
    /\ asked' = [asked EXCEPT ![s] = 0]
    /\ again' = IF s \in DOMAIN Fresh(queryMap, queryQueue)[1] THEN again \union {s} ELSE again
    /\ UNCHANGED <<inputs, channelVars, tipVars>>

\* The timer of findPossibleTips, or MAX_RESPONSE_INTERVAL after an answer
SyncEnds(s) ==
    /\ sync[s] # "no"
    /\ sync' = [sync EXCEPT ![s] = "no"]
    /\ UNCHANGED <<inputs, channelVars, keepaliveVars, sendVars, queryVars, tipVars>>

-----------------------------------------------------------------------------
(* Messages that arrive *)

Hears == channel = "listening" /\ topic

\* Mutant: the cache forgets which stream a tip was named with.
IsRecentTip(tip, s) == \E r \in ToSet(recent) : r[1] = tip

\* Dispatcher._handleTip: pubsubCache holds the stream a tip was last named with.
IsRecent(tip, s) == <<tip, s>> \in ToSet(recent)

\* What is left of the cache when the entry of a tip is taken out; it has at most one.
Without(tip) ==
    LET at == {i \in DOMAIN recent : recent[i][1] = tip}
    IN  IF at = {} THEN recent ELSE RemoveAt(recent, CHOOSE i \in at : TRUE)

Remember(tip, s) ==
    LET rest == Without(tip)
        kept == IF Len(rest) >= RecentSize THEN Tail(rest) ELSE rest
    IN  Append(kept, <<tip, s>>)

HandleTip(tip, s) ==
    /\ recent' = Remember(tip, s)
    /\ tried' = IF IsRecent(tip, s) THEN tried ELSE tried \union {<<tip, s>>}
    /\ delivered' = delivered \union {<<tip, s>>}

HandleUpdate(s, tip) ==
    /\ "update" \in inputs /\ Hears
    /\ HandleTip(tip, s)
    /\ UNCHANGED <<inputs, channelVars, keepaliveVars, sendVars, queryVars, sync>>

\* A peer asks for a stream that this node has (streamState is not undefined).
HandleQuery ==
    /\ "time" \in inputs /\ Hears
    /\ Publish
    /\ UNCHANGED <<inputs, channelVars, sendVars, queryVars, tipVars, sync>>

\* An answer to this node's query or to another node's, whose id is the same;
\* once, late or again.  The sync that waits for it takes its tip; the dispatcher
\* handles it when a query with its id is outstanding.
HandleResponse(s, tip) ==
    /\ "query" \in inputs /\ Hears
    /\ sync' = [sync EXCEPT ![s] = IF @ = "no" THEN "no" ELSE "answered"]
    /\ IF s \in DOMAIN queryMap THEN HandleTip(tip, s) ELSE UNCHANGED tipVars
    /\ UNCHANGED <<inputs, channelVars, keepaliveVars, sendVars, queryVars>>

GossipNext ==
    \/ JobDone \/ JobFails \/ UnsubscribeFails \/ TopicFails \/ Resubscribe \/ CloseBus
    \/ NextSecond \/ Tick \/ HandleQuery
    \/ \E s \in Streams : Query(s) \/ SyncEnds(s)
    \/ \E s \in Streams, tip \in Tips : HandleUpdate(s, tip) \/ HandleResponse(s, tip)

-----------------------------------------------------------------------------
(* Properties *)

\* Every pair of a stream and a tip that an update or an awaited answer names is
\* handed to the repository at least once, also when the same tip was named with
\* another stream before (the comment on Dispatcher.pubsubCache).
EveryTipIsTried == delivered \subseteq tried

\* For a stream that was not asked for again while a query for it was outstanding,
\* the query stays outstanding until it expires, whatever happens to the queries
\* for other streams: a late answer to it is still handled (OutstandingQueries).
LateAnswersAreTaken ==
    \A s \in Streams \ again : asked[s] < Expiry => s \in DOMAIN queryMap

\* A channel that is open comes to listen again after errors of IPFS.  Once it is
\* closed, the handler of its last subscription is taken back for good, also when
\* that subscription was under way, and IPFS holds at most the handlers that it
\* failed to let go of (IncomingChannel, PubsubIncoming's teardown).
ListensOrLetsGo ==
    /\ (channel = "delayed") ~> (channel \in {"listening", "closed"})
    /\ (channel = "closed") ~> [](~topic)
=============================================================================
