--------------------------- MODULE MCApplications ---------------------------
(* Instances of Subscriptions: who subscribes to what; and scenes for       *)
(* clients: two that write, one that watches a stream others write to, and  *)
(* multi queries of two streams that link to each other.  Ids of all kinds  *)
(* of CIDs and commits; commits and states of all stream types.             *)
EXTENDS Applications, TLC

CONSTANTS s1, s2, s3, s4, sub1, sub2, sub3, load1, load2, load3, resync1

Streams == sub1 :> s1 @@ sub2 :> s1 @@ sub3 :> s2
           @@ load1 :> s1 @@ load2 :> s4 @@ load3 :> s3 @@ resync1 :> s4
StreamOfActor == [a \in Actor |-> Streams[a]]
Kinds == sub1 :> "subscribe" @@ sub2 :> "subscribe" @@ sub3 :> "subscribe"
         @@ load1 :> "load" @@ load2 :> "load" @@ load3 :> "load"
         @@ resync1 :> "resync"
KindOfActor == [a \in Actor |-> Kinds[a]]

AB(x, y) == ("a" :> x) @@ ("b" :> y)
Scene(docs, kinds, handles, contents, patches, elsewhere, requests, n, observers) ==
    [docs |-> docs, kind |-> kinds, handles |-> handles, contents |-> contents, patches |-> patches,
     elsewhere |-> elsewhere, requests |-> requests, commits |-> n, observers |-> observers,
     evicted |-> {}]

Query(d, c, genesis, paths) == [doc |-> d, at |-> c, genesis |-> genesis, paths |-> paths]
FollowA == {Query(1, 0, FALSE, {<<"a">>}), Query(1, 3, FALSE, {})}
BringGenesis == {Query(1, 0, TRUE, {<<"a">>}), Query(2, 4, FALSE, {<<"b">>})}

MCOversized == {AB(2, 2)}

All(kind) == [d \in Doc |-> kind]

MCScenes ==
    { Scene({1}, All("account"), {1, 2}, {AB(1, 0), AB(2, 1), AB(2, 2)}, {"a" :> 0}, {"a" :> 2},
            {}, 4, 0),
      Scene({1}, All("account"), {1}, {AB(1, 0)}, {}, {"b" :> 1}, {}, 4, 2),
      Scene({1, 2}, 1 :> "account" @@ 2 :> "list", {1}, {}, {}, {"a" :> 2, "b" :> 1},
            {FollowA, BringGenesis}, 5, 0),
      Scene({1}, All("caip10"), {1}, {AB(1, 2)}, {}, {}, {}, 4, 0),
      Scene({}, All("tile"), {}, {}, {}, {}, {}, 0, 0) }
    \cup { [Scene({1}, All("account"), {1}, {}, {}, {"a" :> 2}, {{Query(1, 0, FALSE, {})}}, 3, 0)
              EXCEPT !.evicted = {1}] }
    \cup { Scene({1}, All(kind), {1}, {AB(1, 0)}, {"b" :> 1}, {}, {}, 4, 0) :
           kind \in {"tile", "deterministic", "list"} }
-----------------------------------------------------------------------------
Cid(v, hash, digest) == [version |-> v, codec |-> 113, hash |-> hash, digest |-> digest]
g == Cid(1, 18, <<0, 7>>)
tip == Cid(1, 18, <<200, 0>>)
Cids == {g, tip, Cid(1, 0, <<1>>), Cid(0, 18, <<0, 7>>)}
NoCids == {NONE, Number(0), Text("0"), Text("7")}
Named(cids) == {CidText(c) : c \in cids}
MCInputs ==
    [type : {Number(0), Number(3), Number(300), Text("MID"), Text("tiles")}, cid : Cids \cup Named({g}),
     commit : NoCids \cup {tip, g} \cup Named({tip, g}) \cup {NotACommit}]
MCAsked == NoCids \cup Named({g, tip, Cid(0, 18, <<0, 7>>)})

Empty == [f \in Values |-> NONE]
Container(c, cacao) ==
    [Empty EXCEPT !.jws = c, !.linkedBlock = [bytes |-> <<1>>], !.cacaoBlock = cacao]
Headers(uniques) ==
    { [Empty EXCEPT !.model = m, !.context = c, !.unique = u] :
      m \in {NONE, [bytes |-> <<2>>]}, c \in {NONE, [bytes |-> <<3>>]}, u \in uniques }
Uniques == {NONE, [bytes |-> <<>>], [bytes |-> <<4, 0>>]}
MCCommits ==
    Headers(Uniques \cup {[base64 |-> <<5>>]})
    \cup { Container(tip, x) : x \in {NONE, [bytes |-> <<6>>]} }
    \cup { [Empty EXCEPT !.link = tip], [Empty EXCEPT !.proof = tip, !.prev = g],
            [Empty EXCEPT !.proof = tip, !.prev = g, !.id = g], [Empty EXCEPT !.prev = g, !.id = g] }

Model == [kind |-> "stream-id", type |-> 4, genesis |-> Cid(1, 0, <<1>>)]
State(type, log, status, proof, model, context, unique) ==
    [type |-> type, log |-> log, anchorStatus |-> Number(status), anchorProof |-> proof,
     model |-> model, context |-> context, unique |-> unique]
Log(n) == SubSeq(<< [cid |-> g, timestamp |-> NONE], [cid |-> tip, timestamp |-> Number(5)] >>, 1, n)
StatesOf(type, models, contexts, uniques) ==
    { State(type, Log(n), s, IF s = 3 THEN [txHash |-> tip, root |-> g] ELSE NONE, m, c, u) :
      n \in 1 .. 2, s \in {0, 1, 3}, m \in models, c \in contexts, u \in uniques }
Sent ==
    StatesOf(0, {NONE}, {NONE}, {[base64 |-> <<5>>]}) \cup StatesOf(1, {NONE}, {NONE}, {NONE})
    \cup StatesOf(3, {Model}, {NONE, [Model EXCEPT !.genesis = g]}, Uniques)
MCStates == {NONE} \X Sent \cup { p \in Sent \X Sent : p[1].type = p[2].type }
-----------------------------------------------------------------------------
Config(sections, settings) == [sections |-> sections, of |-> settings]
Most == {"anchor", "httpApi", "ipfs", "logger", "network", "node", "indexing"}
Remote == [ipfsMode |-> "remote", ipfsHost |-> "http://ipfs"]
MCFiles ==
    { Config(Most, Remote @@ [network |-> "inmemory", topic |-> "mine", db |-> "sqlite:db"]),
      Config(Most \cup {"stateStore", "metrics"},
             Remote @@ [network |-> "mainnet", metricsExporter |-> "true", db |-> "sqlite:db", casUrl |-> "https://mine",
                        authMethod |-> "did", seed |-> "mine", storeMode |-> "s3",
                        bucket |-> "mine", sync |-> "sync-always", logDirectory |-> "logs",
                        logToFiles |-> "true", port |-> "80", cacheLimit |-> "9"]),
      Config(Most \cup {"stateStore"},
             [network |-> "local", db |-> "sqlite:db", authMethod |-> "did", seed |-> "mine",
              readOnly |-> "true", storeMode |-> "fs", storeDir |-> "store"]),
      Config(Most \cup {"stateStore"}, Remote @@ [db |-> "sqlite:db", storeDir |-> "store"]),
      Config(Most \ {"indexing"}, Remote),
      Config(Most, Remote @@ [db |-> "sqlite:db", seed |-> "not a seed"]) }
MCFromFile == [logs |-> "/config/logs", store |-> "/config/store"] @@ "/home/statestore" :> "/home/statestore"
MCFlags ==
    { <<>>, [storeDir |-> "here", bucket |-> "mine"], [port |-> "65536"], [topic |-> "other"],
      [network |-> "local", topic |-> "other", storeDir |-> "store", verbose |-> "true", debug |-> "true"],
      [bucket |-> "other", readOnly |-> "true", port |-> "0"],
      [ipfsApi |-> "http://other", sync |-> "prefer-cache", network |-> "inmemory", debug |-> "true"] }
MCEnv ==
    { <<>>, [seed |-> "env", db |-> "postgres:db", noPeerDataToo |-> "true"],
      [cacheLimit |-> "7", noComposeDB |-> "true", flavor |-> "go"],
      [metricsExporter |-> "false", prometheus |-> "true"] }
MCUses ==
    { [what |-> "run"], [what |-> "set", variables |-> "ceramicHost" :> "other"],
      [what |-> "set", variables |-> "seed" :> "mine"], [what |-> "unset", variables |-> {"seed"}] }
MCDrawn == <<"seed1", "seed2", "seed3", "seed4">>
MCHabits ==
    { [commands |-> {<<flags, env>>, <<<<>>, env>>}, files |-> {file}, uses |-> {}] :
      flags \in MCFlags, env \in MCEnv, file \in MCFiles }
    \cup { [commands |-> {}, files |-> {}, uses |-> MCUses] }

=============================================================================
