------------------------------- MODULE Client -------------------------------
(***************************************************************************)
(* Applications that reach a node over HTTP: the stream handles of the     *)
(* HTTP client (packages/http-client/src/document.ts, ceramic-http-        *)
(* client.ts) with the stream types TileDocument, ModelInstanceDocument    *)
(* and Caip10Link on top, the routes of the daemon they call, and the      *)
(* multi query of Ceramic, which loads several linked streams at once.     *)
(*                                                                         *)
(* A commit is a number, its place in the table of all commits there are;  *)
(* the first ones are the genesis commits, and a stream is named by its    *)
(* own.  A log is the sequence of its commits.  A StreamState is abstracted*)
(* to its log, from which the content follows; content maps fields to      *)
(* values, a value that is the name of a stream being a link to it.        *)
(***************************************************************************)
EXTENDS Naturals, Sequences, SequencesExt, FiniteSets, Folds

CONSTANTS
    Doc,            \* 1 .. n, the streams there may be
    Handle,
    Field,
    Oversized,      \* contents beyond MAX_DOCUMENT_SIZE
    MaxWatches,     \* bound: how often a handle gets a first observer
    Scenes          \* what users do: [docs and handles, the kind of each stream,
                    \* contents they ask for (functions on Field, 0 is absent),
                    \* patches they write, on this node and elsewhere, requests
                    \* of multiQuery; bounds: commits in the table, observers of
                    \* a handle; evicted: streams that are not pinned, while the
                    \* cache is too small for the streams of a batch]

ASSUME ClientAssumption ==
    /\ Doc = 1 .. Cardinality(Doc)
    /\ MaxWatches \in Nat
    /\ \A s \in Scenes : s.docs \subseteq Doc /\ s.handles \subseteq Handle
    /\ \A s \in Scenes : s.evicted \subseteq Doc
    /\ \A s \in Scenes : s.kind \in [Doc -> {"tile", "deterministic", "list", "account", "caip10"}]

VARIABLES
    scene,      \* never changes
    commits,    \* the table: [doc, prev, patch, asked], asked is {} or {the content}
    logs,       \* [Doc -> the log of the node, <<>> before it knows the stream]
    view,       \* [Handle -> the log that the handle shows, <<>> before it is open]
    watch,      \* [Handle -> its observers, the number of its timer and what that does]
    polls,      \* [Handle -> [0 .. MaxWatches -> a sync, or a poll of that timer]]
    write,      \* [Handle -> the update in progress]
    batch       \* the multi query in progress on the node

node == <<scene, commits, logs>>
clientVars == <<node, view, watch, polls, write, batch>>

Absent == [f \in Field |-> 0]
Genesis(d) == [doc |-> d, prev |-> 0, patch |-> <<>>, asked |-> {}]
Idle == [st |-> "idle", log |-> <<>>]
NoWrite == [st |-> "idle", prev |-> 0, patch |-> <<>>, asked |-> {}, id |-> 0, log |-> <<>>]
NoBatch == [st |-> "idle", pending |-> {}, got |-> <<>>]

-----------------------------------------------------------------------------
(* Patches: jsonpatch.compare, and what a commit's patch does to content.  *)
Compare(old, new) == [f \in {g \in Field : old[g] # new[g]} |-> new[f]]
Patched(content, patch) ==
    [f \in Field |-> IF f \in DOMAIN patch THEN patch[f] ELSE content[f]]
(* A field that is not there cannot be removed.                            *)
Fits(content, patch) == \A f \in DOMAIN patch : patch[f] = 0 => content[f] # 0

ContentOf(log) ==
    FoldLeft(LAMBDA content, c : Patched(content, commits[c].patch), Absent, log)

ChainTo(c) ==
    LET chain[k \in 1 .. Len(commits)] ==
            IF commits[k].prev = 0 THEN <<k>> ELSE Append(chain[commits[k].prev], k)
    IN  chain[c]
DocOf(h) == Head(view[h])
Tip(log) == Last(log)

(* All commits of the log apply, each to the content the others leave.     *)
Applies(log) ==
    \A k \in 1 .. Len(log) :
        Fits(ContentOf(SubSeq(log, 1, k - 1)), commits[log[k]].patch)

-----------------------------------------------------------------------------
(* The node.  How it chooses among logs is the subject of TipSync; without *)
(* anchors it is the longer one, or the one with the lower tip.            *)
Fork(one, other) == Cardinality({k \in DOMAIN one : k =< Len(other) /\ one[k] = other[k]})
Wins(new, old) ==
    \/ Len(new) > Len(old)
    \/ Len(new) = Len(old) /\ Tip(new) < Tip(old)
Follows(new, old) ==
    /\ old # <<>>
    /\ \/ IsStrictPrefix(old, new)
       \/ Fork(new, old) < Len(old) /\ Fork(new, old) < Len(new) /\ Wins(new, old)

(* Another writer, on another node.                                        *)
WriteElsewhere(prev, patch) ==
    /\ Len(commits) < scene.commits
    /\ prev \in DOMAIN commits /\ commits[prev].doc \in scene.docs
    /\ Fits(ContentOf(ChainTo(prev)), patch) /\ Applies(ChainTo(prev))
    /\ commits' = Append(commits, [doc |-> commits[prev].doc, prev |-> prev,
                                   patch |-> patch, asked |-> {}])
    /\ UNCHANGED <<scene, logs, view, watch, polls, write, batch>>

LearnTip(c) ==
    /\ Follows(ChainTo(c), logs[commits[c].doc]) /\ Applies(ChainTo(c))
    /\ logs' = [logs EXCEPT ![commits[c].doc] = ChainTo(c)]
    /\ UNCHANGED <<scene, commits, view, watch, polls, write, batch>>

(* createStreamFromGenesis: a stream that the node knows is loaded.        *)
Created(d) == IF logs[d] = <<>> THEN <<d>> ELSE logs[d]

(* loadAtCommit: the log up to the commit, and what the node keeps.  A     *)
(* commit that conflict resolution rejects cannot be loaded.               *)
Loadable(c) ==
    LET log == logs[commits[c].doc] IN
    Applies(ChainTo(c)) /\ (log = <<>> \/ IsPrefix(ChainTo(c), log) \/ Follows(ChainTo(c), log))
KeptAt(c) ==
    LET log == logs[commits[c].doc] IN
    IF IsPrefix(log, ChainTo(c)) THEN [logs EXCEPT ![commits[c].doc] = ChainTo(c)] ELSE logs

(* applyCommitFromUser: a commit that does not build on the state of the   *)
(* node, or cannot be applied to it, is refused.                           *)
Accepts(c, log) == IsPrefix(log, ChainTo(c)) /\ Applies(ChainTo(c))

-----------------------------------------------------------------------------
(* Handles: they are made by a create, a load or a load at a commit, whose *)
(* answer is the state at the node.  A genesis commit with random bytes    *)
(* makes a stream that is new; one without may find that it exists.        *)
HasRandomBytes(d) == scene.kind[d] \in {"tile", "list"}

Create(h, d) ==
    /\ view[h] = <<>>
    /\ logs' = [logs EXCEPT ![d] = Created(d)]
    /\ view' = [view EXCEPT ![h] = Created(d)]
    /\ UNCHANGED <<scene, commits, watch, polls, write, batch>>

New(h, d) == logs[d] = <<>> /\ Create(h, d)
CreateTile(h, d) == scene.kind[d] = "tile" /\ New(h, d)
CreateDocument(h, d) == scene.kind[d] = "list" /\ New(h, d)
Deterministic(h, d) == scene.kind[d] = "deterministic" /\ Create(h, d)
SingleOrSet(h, d) == scene.kind[d] = "account" /\ Create(h, d)
FromAccount(h, d) == scene.kind[d] = "caip10" /\ Create(h, d)

Load(h, d) ==
    /\ view[h] = <<>> /\ logs[d] # <<>>
    /\ view' = [view EXCEPT ![h] = logs[d]]
    /\ UNCHANGED <<scene, commits, logs, watch, polls, write, batch>>

(* The handle is of the stream, though it shows it at the commit, and      *)
(* nothing makes it read-only.                                             *)
LoadAt(h, c) ==
    /\ view[h] = <<>> /\ logs[commits[c].doc] # <<>>
    /\ Loadable(c)
    /\ logs' = KeptAt(c)
    /\ view' = [view EXCEPT ![h] = ChainTo(c)]
    /\ UNCHANGED <<scene, commits, watch, polls, write, batch>>

(* update, replace and setDidProof say what the content shall be, patch    *)
(* says how to change it; what to commit and on what it builds is taken    *)
(* from the view at once, and then signed.                                 *)
Begin(h, patch, asked) ==
    /\ write[h].st = "idle"
    /\ write' = [write EXCEPT ![h] = [NoWrite EXCEPT
                    !.st = "signing", !.prev = Tip(view[h]), !.patch = patch, !.asked = asked]]
    /\ UNCHANGED <<node, view, watch, polls, batch>>

OfKind(h, kinds) == view[h] # <<>> /\ scene.kind[DocOf(h)] \in kinds
Change(h, content) == Compare(ContentOf(view[h]), content)

Update(h, content) ==
    OfKind(h, {"tile", "deterministic"}) /\ Begin(h, Change(h, content), {content})
Replace(h, content) ==
    OfKind(h, {"list", "account"}) /\ content \notin Oversized
    /\ Begin(h, Change(h, content), {content})
SetDidProof(h, content) == OfKind(h, {"caip10"}) /\ Begin(h, content, {content})

(* patch of a tile sends its metadata again, which may not name `unique`.  *)
PatchTile(h, patch) == OfKind(h, {"deterministic"}) /\ Begin(h, patch, {})
PatchDocument(h, patch) == OfKind(h, {"list", "account"}) /\ Begin(h, patch, {})

(* Mutant: the tip is read once the commit is about to be signed.          *)
PrevNow(h) == Tip(view[h])

PrevTaken(h) == write[h].prev

Signed(h) ==
    /\ write[h].st = "signing"
    /\ Len(commits) < scene.commits
    /\ commits' = Append(commits, [doc |-> DocOf(h), prev |-> PrevTaken(h),
                                   patch |-> write[h].patch, asked |-> write[h].asked])
    /\ write' = [write EXCEPT ![h].st = "sent", ![h].id = Len(commits) + 1]
    /\ UNCHANGED <<scene, logs, view, watch, polls, batch>>

(* POST /commits.                                                          *)
ApplyCommit(h) ==
    LET c == write[h].id
        d == commits[c].doc
    IN  /\ write[h].st = "sent"
        /\ \/ /\ Accepts(c, logs[d])
              /\ logs' = [logs EXCEPT ![d] = ChainTo(c)]
              /\ write' = [write EXCEPT ![h].st = "answered", ![h].log = ChainTo(c)]
           \/ /\ ~Accepts(c, logs[d])
              /\ write' = [write EXCEPT ![h].st = "refused"]
              /\ UNCHANGED logs
        /\ UNCHANGED <<scene, commits, view, watch, polls, batch>>

Acknowledged(h) ==
    /\ write[h].st \in {"answered", "refused"}
    /\ view' = IF write[h].st = "answered" THEN [view EXCEPT ![h] = write[h].log] ELSE view
    /\ write' = [write EXCEPT ![h] = NoWrite]
    /\ UNCHANGED <<node, watch, polls, batch>>

-----------------------------------------------------------------------------
(* Observers.  The first one starts a timer, the last one stops it.  A     *)
(* poll in flight is not cancelled, and its answer is taken all the same.  *)
Subscribe(h) ==
    /\ view[h] # <<>> /\ watch[h].observers < scene.observers
    /\ \/ /\ watch[h].observers = 0 /\ watch[h].timer < MaxWatches
          /\ watch' = [watch EXCEPT ![h] =
                         [observers |-> 1, timer |-> @.timer + 1, state |-> "on"]]
       \/ /\ watch[h].observers > 0
          /\ watch' = [watch EXCEPT ![h].observers = @ + 1]
    /\ UNCHANGED <<node, view, polls, write, batch>>

(* Mutant: whoever leaves stops the timer.                                 *)
LeaveAndStop(h) ==
    /\ watch[h].observers > 0
    /\ watch' = [watch EXCEPT ![h].observers = @ - 1, ![h].state = "off"]
    /\ UNCHANGED <<node, view, polls, write, batch>>

Leave(h) ==
    /\ watch[h].observers > 0
    /\ watch' = [watch EXCEPT ![h].observers = @ - 1,
                              ![h].state = IF watch[h].observers = 1 THEN "off" ELSE @]
    /\ UNCHANGED <<node, view, polls, write, batch>>

Ask(h, t) ==
    /\ polls[h][t].st = "idle"
    /\ polls' = [polls EXCEPT ![h][t].st = "sent"]
    /\ UNCHANGED <<node, view, watch, write, batch>>

(* The timer ticks; throttle lets it poll when the last poll has ended.    *)
Tick(h) == watch[h].state = "on" /\ Ask(h, watch[h].timer)
Sync(h) == view[h] # <<>> /\ Ask(h, 0)

(* GET /streams/<id>.                                                      *)
Answer(h, t) ==
    /\ polls[h][t].st = "sent"
    /\ polls' = [polls EXCEPT ![h][t] = [st |-> "answered", log |-> logs[DocOf(h)]]]
    /\ UNCHANGED <<node, view, watch, write, batch>>

Show(h, t) ==
    /\ polls[h][t].st = "answered"
    /\ view' = [view EXCEPT ![h] = polls[h][t].log]
    /\ polls' = [polls EXCEPT ![h][t] = Idle]
    /\ UNCHANGED <<node, watch, write, batch>>

(* A poll that fails is an error of the timer's subscription, which ends.  *)
Fail(h, t) ==
    /\ polls[h][t].st # "idle"
    /\ polls' = [polls EXCEPT ![h][t] = Idle]
    /\ watch' = IF t = watch[h].timer /\ watch[h].state = "on"
                THEN [watch EXCEPT ![h].state = "failed"] ELSE watch
    /\ UNCHANGED <<node, view, write, batch>>

-----------------------------------------------------------------------------
(* Multi queries: a stream, or a stream at a commit, and the fields to     *)
(* follow from there.  at is 0 for the stream itself.                      *)
Ref(d, c) == [doc |-> d, at |-> c]
Visit(d, c, paths) == [ref |-> Ref(d, c), paths |-> paths]

(* A query may bring the genesis commit of its stream.                     *)
BeginBatch(request) ==
    /\ batch.st = "idle"
    /\ \A q \in request : q.at = 0 \/ (q.at \in DOMAIN commits /\ commits[q.at].doc = q.doc)
    /\ \A q \in request : q.genesis => ~HasRandomBytes(q.doc)
    /\ logs' = [d \in Doc |-> IF \E q \in request : q.doc = d /\ q.genesis
                              THEN Created(d) ELSE logs[d]]
    /\ batch' = [st |-> "loading", got |-> <<>>,
                 pending |-> {Visit(q.doc, q.at, q.paths) : q \in request}]
    /\ UNCHANGED <<scene, commits, view, watch, polls, write>>

(* walkNext: the linked streams of the content are next.                   *)
Linked(log, paths) ==
    LET content == ContentOf(log)
        through(f) == {Tail(p) : p \in {p \in paths : p # <<>> /\ Head(p) = f}}
    IN  { Visit(content[f], 0, through(f)) : f \in {f \in Field : content[f] \in Doc /\ through(f) # {}} }

Got(ref, log) ==
    [r \in DOMAIN batch.got \cup {ref} |-> IF r = ref THEN log ELSE batch.got[r]]

Walk(v) ==
    LET c == v.ref.at
        log == IF c = 0 THEN logs[v.ref.doc] ELSE ChainTo(c)
    IN  /\ batch.st = "loading" /\ v \in batch.pending
        /\ IF c = 0 THEN log # <<>> ELSE Loadable(c)
        /\ logs' = IF c = 0 THEN logs ELSE KeptAt(c)
        /\ batch' = [batch EXCEPT !.got = Got(v.ref, log),
                                  !.pending = (@ \ {v}) \cup Linked(log, v.paths)]
        /\ UNCHANGED <<scene, commits, view, watch, polls, write>>

(* A stream that fails to load, or takes too long, is left out.            *)
LeaveOut(v) ==
    /\ batch.st = "loading" /\ v \in batch.pending
    /\ batch' = [batch EXCEPT !.pending = @ \ {v}]
    /\ UNCHANGED <<node, view, watch, polls, write>>

(* Mutant: the results are returned as they were loaded.                   *)
AnswerAsLoaded ==
    /\ batch.st = "loading" /\ batch.pending = {}
    /\ batch' = [batch EXCEPT !.st = "answered"]
    /\ UNCHANGED <<node, view, watch, polls, write>>

(* Results that are not read-only are synced to what the node has by now.  *)
(* The load does not ask the network: of a stream that has left the cache  *)
(* and is not in the store it makes the state of the genesis commit.       *)
SyncResults ==
    \E gone \in SUBSET scene.evicted :
        /\ batch.st = "loading" /\ batch.pending = {}
        /\ logs' = [d \in Doc |-> IF d \in gone /\ logs[d] # <<>> THEN <<d>> ELSE logs[d]]
        /\ batch' = [batch EXCEPT !.st = "answered",
                        !.got = [r \in DOMAIN @ |-> IF r.at = 0 THEN logs'[r.doc] ELSE @[r]]]
        /\ UNCHANGED <<scene, commits, view, watch, polls, write>>

EndBatch ==
    /\ batch.st = "answered"
    /\ batch' = NoBatch
    /\ UNCHANGED <<node, view, watch, polls, write>>

-----------------------------------------------------------------------------
InitClient ==
    /\ scene \in Scenes
    /\ commits = [d \in Doc |-> Genesis(d)]
    /\ logs = [d \in Doc |-> <<>>]
    /\ view = [h \in Handle |-> <<>>]
    /\ watch = [h \in Handle |-> [observers |-> 0, timer |-> 0, state |-> "off"]]
    /\ polls = [h \in Handle |-> [t \in 0 .. MaxWatches |-> Idle]]
    /\ write = [h \in Handle |-> NoWrite]
    /\ batch = NoBatch

NextHandle(h) ==
    \/ \E d \in scene.docs :
        \/ CreateTile(h, d) \/ CreateDocument(h, d) \/ Deterministic(h, d)
        \/ SingleOrSet(h, d) \/ FromAccount(h, d) \/ Load(h, d)
    \/ \E c \in DOMAIN commits : LoadAt(h, c)
    \/ \E content \in scene.contents : Update(h, content) \/ Replace(h, content) \/ SetDidProof(h, content)
    \/ \E patch \in scene.patches : PatchTile(h, patch) \/ PatchDocument(h, patch)
    \/ Signed(h) \/ ApplyCommit(h) \/ Acknowledged(h)
    \/ Subscribe(h) \/ Leave(h) \/ Tick(h) \/ Sync(h)
    \/ \E t \in 0 .. MaxWatches : Answer(h, t) \/ Show(h, t) \/ Fail(h, t)

NextClient ==
    \/ \E h \in scene.handles : NextHandle(h)
    \/ \E prev \in DOMAIN commits, patch \in scene.elsewhere : WriteElsewhere(prev, patch)
    \/ \E c \in DOMAIN commits : LearnTip(c)
    \/ \E request \in scene.requests : BeginBatch(request)
    \/ \E v \in batch.pending : Walk(v) \/ LeaveOut(v)
    \/ SyncResults \/ EndBatch

(* Timers tick, the node answers or the request fails, and an answer that  *)
(* arrives is shown.                                                       *)
FairnessClient ==
    \A h \in Handle :
        /\ WF_clientVars(Tick(h))
        /\ \A t \in 0 .. MaxWatches : WF_clientVars(Answer(h, t)) /\ WF_clientVars(Show(h, t))

-----------------------------------------------------------------------------
(* "Update an existing Tile document.  content - New content to replace    *)
(* old content" (stream-tile/src/tile-document.ts:273): whatever happens   *)
(* to the handle between the call and the node's answer, an update that    *)
(* the node accepted has left exactly the content that was asked for.      *)
UpdateMeansWhatItSays ==
    \A d \in Doc : \A k \in DOMAIN logs[d] :
        \A content \in commits[logs[d][k]].asked : ContentOf(SubSeq(logs[d], 1, k)) = content

(* "the returned Streams always are as up-to-date as possible, and is      *)
(* behavior that the anchor service relies upon" (core/src/ceramic.ts:     *)
(* 1034): of the streams in one answer, none is behind what the same       *)
(* answer shows of it at a commit.  (Unless it was evicted before it was   *)
(* synced, and is not pinned.)                                             *)
BatchSeesNewest ==
    batch.st = "answered" /\ scene.evicted = {} =>
        \A r, s \in DOMAIN batch.got :
            r.doc = s.doc /\ r.at = 0 => ~IsStrictPrefix(batch.got[r], batch.got[s])

(* "How frequently the http-client polls the daemon for updates to         *)
(* subscribed-to streams" (http-client/src/ceramic-http-client.ts:63): a   *)
(* handle that keeps an observer, and whose polls do not fail, comes to    *)
(* show what the node has, although observers come and go, updates of its  *)
(* own are under way and answers arrive late and out of order.             *)
Watched(h) == watch[h].observers > 0 /\ watch[h].state # "failed"
ViewCatchesUp ==
    \A h \in Handle : <>[]Watched(h) => <>[](Watched(h) /\ view[h] = logs[DocOf(h)])
=============================================================================
