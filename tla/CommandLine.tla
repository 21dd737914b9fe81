---------------------------- MODULE CommandLine -----------------------------
(***************************************************************************)
(* The command line (packages/cli): how `ceramic daemon` finds out what to *)
(* run, from its configuration file, the environment and its flags, start  *)
(* after start, and how the other commands keep the identity they write    *)
(* streams with.  Both keep a file in the home directory: the first start  *)
(* and the first command write it, and are cut off in the middle of it now *)
(* and then.                                                               *)
(*                                                                         *)
(* A setting that is absent, undefined, false or "" is the same to all the *)
(* code here but the parser of files, and is not in the function: looking  *)
(* it up gives NotGiven.  Booleans are "true" or absent; only a switch that*)
(* the environment turns off, against the file, is "false".                *)
(***************************************************************************)
EXTENDS Naturals, SequencesExt

CONSTANTS
    Habits,     \* what operators do: [commands, files, uses]: pairs of flags and
                \* environment, files they write or {}, and client commands
    Drawn,      \* the seeds that random draws give
    FromFile,   \* the path a path in a configuration file stands for
    MaxStarts   \* bound: starts of a daemon, and client commands

Sections ==
    [anchor |-> {"casUrl", "rpc", "authMethod"},
     httpApi |-> {"hostname", "port", "origins"},
     ipfs |-> {"ipfsMode", "ipfsHost", "pinning", "noPeerData"},
     logger |-> {"logLevel", "logDirectory", "logToFiles"},
     metrics |-> {"metricsExporter", "collector", "prometheus", "prometheusPort"},
     network |-> {"network", "topic"},
     node |-> {"seed", "readOnly", "sync", "cacheLimit"},
     stateStore |-> {"storeMode", "storeDir", "bucket"},
     indexing |-> {"db", "noComposeDB"}]
Setting == UNION {Sections[s] : s \in DOMAIN Sections}

(* The options of `ceramic daemon`, and the environment of the process.    *)
Flags ==
    {"ipfsApi", "rpc", "casUrl", "pinning", "storeDir", "bucket", "port", "hostname", "debug",
     "verbose", "logToFiles", "logDirectory", "network", "topic", "origins", "sync",
     "noComposeDB", "readOnly"}
Environment ==
    {"db", "metricsExporter", "collector", "prometheusPort", "prometheus", "seed", "noPeerData",
     "noComposeDB", "cacheLimit", "noPeerDataToo", "flavor"}
NotGiven == "not given"
HasValues(f) == \A name \in DOMAIN f : f[name] # NotGiven

(* The path of the home directory, which defaults use, is an absolute one. *)
ASSUME CommandLineAssumption ==
    /\ Drawn \in Seq(STRING \ {NotGiven}) /\ MaxStarts \in Nat /\ MaxStarts =< Len(Drawn)
    /\ FromFile["/home/statestore"] = "/home/statestore"
    /\ \A path \in DOMAIN FromFile : FromFile[path] # NotGiven
    /\ \A h \in Habits :
        /\ \A c \in h.commands : /\ DOMAIN c[1] \subseteq Flags /\ HasValues(c[1])
                                 /\ DOMAIN c[2] \subseteq Environment /\ HasValues(c[2])
        /\ \A c \in h.files :
            /\ DOMAIN c = {"sections", "of"} /\ c.sections \subseteq DOMAIN Sections
            /\ DOMAIN c.of \subseteq Setting /\ HasValues(c.of)
            /\ {c.of[name] : name \in DOMAIN c.of \cap {"logDirectory", "storeDir"}}
                   \subseteq DOMAIN FromFile
        /\ \A use \in h.uses : use.what = "set" => HasValues(use.variables)

VARIABLES
    habit,      \* never changes
    daemonFile, \* [kind, config]: none, empty, partial or whole
    line,       \* the start: [n, at, flags, env, config, up]
    intended,   \* what the operator, or the first start for him, put in the file
    cameUp,     \* <<file, flags, env>> with which a daemon came up
    cliFile,    \* the client's, [kind, config] as well
    cli,        \* the client command: [n, at, next, use, config]
    wanted      \* the settings of the client: its first seed, and what was set

daemonVars == <<daemonFile, line, intended, cameUp>>
cliVars == <<cliFile, cli, wanted>>
lineVars == <<habit, daemonVars, cliVars>>

Nothing == [sections |-> {}, of |-> <<>>]
NoHabit == [commands |-> {}, files |-> {}, uses |-> {}]
NoFile == [kind |-> "none", config |-> Nothing]
Whole(config) == [kind |-> "whole", config |-> config]
EmptyFile == [kind |-> "empty", config |-> Nothing]
Of(f, name) == IF name \in DOMAIN f THEN f[name] ELSE NotGiven
Only(f, names) == [name \in DOMAIN f \cap names |-> f[name]]
f ++ g == [name \in DOMAIN f \cup DOMAIN g |-> IF name \in DOMAIN f THEN f[name] ELSE g[name]]

-----------------------------------------------------------------------------
(* Reading and writing the daemon's file.                                  *)
DefaultConfig(seed) ==
    [sections |-> DOMAIN Sections,
     of |-> [authMethod |-> "did", origins |-> ".*", ipfsMode |-> "remote",
             ipfsHost |-> "http://localhost:5101", logLevel |-> "important",
             network |-> "testnet-clay", seed |-> seed, storeMode |-> "fs",
             storeDir |-> "/home/statestore", db |-> "sqlite:///home/indexing"]]

(* TypedJSON leaves out the seed, whose getter answers undefined; it is    *)
(* saved as a field that fromObject looks for.                             *)
ToPlainJson(config) == [config EXCEPT !.of = Only(@, Setting \ {"seed"})]
(* Mutant: the hidden field is not saved.                                  *)
SaveVisible(config) == ToPlainJson(config)
PlainConfig(config) ==
    [ToPlainJson(config) EXCEPT !.of = Only(config.of, {"seed"}) ++ @]

ExpandPaths(config) ==
    [config EXCEPT !.of = [name \in {"logDirectory", "storeDir"} \cap DOMAIN @ |->
                              FromFile[@[name]]] ++ @]

-----------------------------------------------------------------------------
(* Environment and flags.  A switch of the environment that is not "true"  *)
(* is "false" ("false" stands for all such text) and overrides the file;   *)
(* no option of the command line sets metricsExporter.                     *)
FromEnv(env) ==
    Only(env, {"db", "metricsExporter", "collector", "prometheus", "prometheusPort",
               "seed", "noPeerData"})

Given(option, f, changes) == Only(changes, {name \in DOMAIN changes : option \in DOMAIN f})

FromFlags(flags, env) ==
    Given("ipfsApi", flags, [ipfsMode |-> "remote", ipfsHost |-> Of(flags, "ipfsApi")])
    ++ Given("verbose", flags, [logLevel |-> "verbose"])
    ++ Given("debug", flags, [logLevel |-> "debug"])
    ++ Given("storeDir", flags, [storeMode |-> "fs"])
    ++ Given("bucket", flags, [storeMode |-> "s3"])
    ++ Only(flags, Setting) ++ Only(env, {"noComposeDB"})

(* A setting of a section that the file does not have cannot be assigned.  *)
HasSectionsFor(config, changes) ==
    \A s \in DOMAIN Sections : Sections[s] \cap DOMAIN changes # {} => s \in config.sections

ValidateConfig(config) ==
    Of(config.of, "authMethod") = "did" => Of(config.of, "seed") # NotGiven

MayOverride(config, flags, env) ==
    /\ HasSectionsFor(config, FromEnv(env))
    /\ ValidateConfig([config EXCEPT !.of = FromEnv(env) ++ @])
    /\ ~ ({"storeDir", "bucket"} \subseteq DOMAIN flags)
    /\ HasSectionsFor(config, FromFlags(flags, env))
Override(config, flags, env) ==
    [config EXCEPT !.of = FromFlags(flags, env) ++ FromEnv(env) ++ @]

-----------------------------------------------------------------------------
(* Making the node: makeCeramicConfig, CeramicDaemon.create and its        *)
(* constructor, and _processConfig.                                        *)
TopicByNetwork ==
    [mainnet |-> "/ceramic/mainnet", local |-> "/ceramic/local-random",
     inmemory |-> "/ceramic/inmemory-random"]
    ++ [network \in {"testnet-clay", "dev-unstable"} |->
           IF network = "testnet-clay" THEN "/ceramic/testnet-clay" ELSE "/ceramic/dev-unstable"]
AllowCustomTopic == {"inmemory", "local"}
DefaultAnchorServiceUrls ==
    [mainnet |-> "https://cas", local |-> "http://localhost:8081"]
    ++ [network \in {"testnet-clay", "dev-unstable"} |->
           IF network = "testnet-clay" THEN "https://cas-clay" ELSE "https://cas-qa"]
SyncOptions ==
    [mode \in {"prefer-cache", "sync-always", "never-sync"} |->
        CASE mode = "prefer-cache" -> 0 [] mode = "sync-always" -> 1 [] OTHER -> 2]

Fixed ==
    [network |-> "inmemory", hostname |-> "0.0.0.0", port |-> "7007", cacheLimit |-> "500",
     storeDir |-> "/home/statestore", ipfsMode |-> "bundled"]
DefaultOf(name, network) ==
    CASE name = "topic" -> TopicByNetwork[network]
      [] name = "casUrl" -> Of(DefaultAnchorServiceUrls, network)
      [] name = "rpc" /\ network = "local" -> "http://localhost:7545"
      [] OTHER -> Of(Fixed, name)

NetworkOf(config) == Of(config.of ++ Fixed, "network")
UseRustCeramic(env) == Of(env, "flavor") # "go"

BuildsIpfs(config, env) ==
    \/ Of(config.of, "ipfsMode") = "remote"
    \/ ~ UseRustCeramic(env) /\ NetworkOf(config) # "mainnet"
NetworkOptions(config) ==
    /\ NetworkOf(config) \in DOMAIN TopicByNetwork
    /\ Of(config.of, "topic") # NotGiven => NetworkOf(config) \in AllowCustomTopic
BuildsIndexing(config) ==
    "indexing" \in config.sections /\ Of(config.of, "db") \notin {NotGiven, "not a url"}
ParsesSeedUrl(config) == Of(config.of, "seed") # "not a seed"
(* A port that is undefined, or 0, is the default one.                     *)
ValidPort(config) == Of(config.of, "port") # "65536"
PortOf(config) ==
    IF Of(config.of, "port") \in {NotGiven, "0"} THEN Fixed.port ELSE Of(config.of, "port")

MayCreate(config, env) ==
    /\ {"anchor", "ipfs", "network", "node"} \subseteq config.sections
    /\ BuildsIpfs(config, env) /\ NetworkOptions(config)
    /\ BuildsIndexing(config) /\ ParsesSeedUrl(config) /\ ValidPort(config)

(* What the daemon passes on to Ceramic: a directory only in its mode.     *)
MakeCeramicConfig(config, env) ==
    Only(config.of, IF Of(config.of, "storeMode") = "fs" THEN Setting
                    ELSE Setting \ {"storeDir"})
    ++ Given("noPeerDataToo", env, [noPeerData |-> "true"])

(* 'prefer-cache' is number 0, which is taken for no option.               *)
LoadOptsOverride(of) ==
    LET sync == Of(of, "sync")
    IN  IF sync \in DOMAIN SyncOptions /\ SyncOptions[sync] # 0 THEN sync ELSE NotGiven

MakeAnchorService(config) ==
    IF NetworkOf(config) = "inmemory" THEN "inmemory"
    ELSE IF Of(config.of, "readOnly") = NotGiven /\ Of(config.of, "authMethod") # NotGiven
         THEN "authenticated" ELSE "ethereum"

RegisterAPIPaths(config) ==
    IF Of(config.of, "readOnly") = NotGiven
    THEN [createStream |-> "anchored and published", applyCommit |-> "applied",
          requestAnchor |-> "made", pin |-> "done"]
    ELSE [createStream |-> "kept", applyCommit |-> "refused",
          requestAnchor |-> "unknown", pin |-> "unknown"]

(* What the node runs with.  S3 is injected over the store on disk, and    *)
(* the process believes the agent it found, not its environment.           *)
NodeOf(config, env, agent) ==
    LET of == MakeCeramicConfig(config, env)
        effective(name) ==
            CASE name = "sync" -> LoadOptsOverride(of)
              [] name = "port" -> PortOf(config)
              [] name = "cacheLimit" -> Of(Only(env, {name}) ++ of ++ Fixed, name)
              [] OTHER -> Of(of ++ [x \in {name} |-> DefaultOf(x, NetworkOf(config))], name)
    IN  [of |-> [name \in Setting |-> effective(name)],
         store |-> IF Of(of, "storeMode") = "s3" THEN <<"s3", Of(of, "bucket")>>
                   ELSE <<"fs", Of(of ++ Fixed, "storeDir")>>,
         anchors |-> MakeAnchorService(config),
         rust |-> IF Of(of, "ipfsMode") = "remote" THEN agent = "ceramic-one" ELSE UseRustCeramic(env),
         routes |-> RegisterAPIPaths(config)]

-----------------------------------------------------------------------------
(* A start of the daemon.                                                  *)
Down == [flags |-> <<>>, env |-> <<>>, config |-> Nothing, up |-> Nothing]
InitLine ==
    /\ habit \in Habits \cup {NoHabit}
    /\ daemonFile = NoFile /\ intended = Nothing /\ cameUp = {}
    /\ line = [n |-> 0, at |-> "down"] ++ Down
    /\ cliFile = NoFile /\ wanted = <<>>
    /\ cli = [n |-> 0, at |-> "done", next |-> "done", use |-> <<>>, config |-> <<>>]

TypeDaemon ==
    /\ line.at = "down" /\ line.n < MaxStarts
    /\ \E c \in habit.commands :
           line' = [line EXCEPT !.n = @ + 1, !.at = "looking", !.flags = c[1], !.env = c[2]]
    /\ UNCHANGED <<daemonFile, intended, cameUp>>

(* No file: the default configuration, and its file, which is empty until  *)
(* it is written.                                                          *)
FindNoFile ==
    /\ line.at = "looking" /\ daemonFile.kind = "none"
    /\ daemonFile' = EmptyFile
    /\ intended' = DefaultConfig(Drawn[line.n])
    /\ line' = [line EXCEPT !.at = "saving", !.config = intended']
    /\ UNCHANGED cameUp
SaveDefault ==
    /\ line.at = "saving"
    /\ daemonFile' = Whole(PlainConfig(line.config))
    /\ line' = [line EXCEPT !.at = "loaded"]
    /\ UNCHANGED <<intended, cameUp>>

ReadDaemonFile ==
    /\ line.at = "looking" /\ daemonFile.kind # "none"
    /\ line' = IF daemonFile.kind = "whole"
               THEN [line EXCEPT !.at = "loaded", !.config = ExpandPaths(daemonFile.config)]
               ELSE [line EXCEPT !.at = "failed"]
    /\ UNCHANGED <<daemonFile, intended, cameUp>>

ApplyOverrides ==
    /\ line.at = "loaded"
    /\ line' = IF MayOverride(line.config, line.flags, line.env)
               THEN [line EXCEPT !.at = "configured",
                                 !.config = Override(@, line.flags, line.env)]
               ELSE [line EXCEPT !.at = "failed"]
    /\ UNCHANGED <<daemonFile, intended, cameUp>>

CreateDaemon(agent) ==
    /\ line.at = "configured"
    /\ IF MayCreate(line.config, line.env)
       THEN /\ line' = [line EXCEPT !.at = "up", !.up = NodeOf(line.config, line.env, agent)]
            /\ cameUp' = cameUp \cup {<<daemonFile.config, line.flags, line.env>>}
       ELSE line' = [line EXCEPT !.at = "failed"] /\ UNCHANGED cameUp
    /\ UNCHANGED <<daemonFile, intended>>

(* The process ends, by itself, when it is told to, or in the middle.      *)
EndDaemon ==
    /\ line.at # "down"
    /\ line' = Down ++ [line EXCEPT !.at = "down"]
    /\ daemonFile' \in IF line.at = "saving"
                       THEN {EmptyFile, [EmptyFile EXCEPT !.kind = "partial"]}
                       ELSE {daemonFile}
    /\ UNCHANGED <<intended, cameUp>>

Operator ==
    /\ line.at = "down"
    /\ \/ \E config \in habit.files :
              daemonFile' = Whole(config) /\ intended' = ExpandPaths(config)
       \/ daemonFile.kind # "none" /\ daemonFile' = NoFile /\ intended' = Nothing
    /\ UNCHANGED <<line, cameUp>>

-----------------------------------------------------------------------------
(* A client command: run a command on a node, or set or unset a variable.  *)
Save(config, next) ==
    /\ cliFile' = EmptyFile
    /\ cli' = [cli EXCEPT !.at = "saving", !.next = next, !.config = config]

TypeCommand ==
    /\ cli.at = "done" /\ cli.n < MaxStarts
    /\ \E use \in habit.uses :
           cli' = [cli EXCEPT !.n = @ + 1, !.at = "looking", !.use = use]
    /\ UNCHANGED <<cliFile, wanted>>

(* An empty file is as good as none.                                       *)
LoadCliConfig ==
    /\ cli.at = "looking"
    /\ \/ cliFile.kind \in {"none", "empty"} /\ Save(<<>>, "loaded")
       \/ /\ cliFile.kind \in {"whole", "partial"}
          /\ cli' = [cli EXCEPT !.at = IF cliFile.kind = "whole" THEN "loaded" ELSE "done",
                                !.config = cliFile.config.of]
          /\ UNCHANGED cliFile
    /\ UNCHANGED wanted

SaveConfig ==
    /\ cli.at = "saving"
    /\ cliFile' = Whole([Nothing EXCEPT !.of = cli.config])
    /\ cli' = [cli EXCEPT !.at = cli.next]
    /\ UNCHANGED wanted

RunWithCeramicClient ==
    /\ cli.at = "loaded" /\ cli.use.what = "run"
    /\ IF Of(cli.config, "seed") = NotGiven
       THEN /\ Save([seed |-> Drawn[cli.n]] ++ cli.config, "loaded")
            /\ wanted' = wanted ++ [seed |-> Drawn[cli.n]]
       ELSE cli' = [cli EXCEPT !.at = "acting"] /\ UNCHANGED <<cliFile, wanted>>

SetCliConfig ==
    /\ cli.at = "loaded" /\ cli.use.what = "set"
    /\ Save(cli.use.variables ++ cli.config, "done")
    /\ wanted' = cli.use.variables ++ wanted
UnsetCliConfig ==
    /\ cli.at = "loaded" /\ cli.use.what = "unset"
    /\ Save(Only(cli.config, DOMAIN cli.config \ cli.use.variables), "done")
    /\ wanted' = Only(wanted, DOMAIN wanted \ cli.use.variables)

(* After a command that was cut off in a write nothing is kept.            *)
EndCommand ==
    /\ cli.at # "done"
    /\ cli' = [cli EXCEPT !.at = "done", !.config = <<>>]
    /\ IF cli.at = "saving"
       THEN /\ cliFile' \in {EmptyFile, [EmptyFile EXCEPT !.kind = "partial"]}
            /\ wanted' = <<>>
       ELSE UNCHANGED <<cliFile, wanted>>

-----------------------------------------------------------------------------
NextLine ==
    /\ UNCHANGED habit
    /\ \/ /\ \/ TypeDaemon \/ FindNoFile \/ SaveDefault \/ ReadDaemonFile
             \/ ApplyOverrides \/ EndDaemon \/ Operator
             \/ \E agent \in {"ceramic-one", "kubo"} : CreateDaemon(agent)
          /\ UNCHANGED cliVars
       \/ /\ \/ TypeCommand \/ LoadCliConfig \/ SaveConfig \/ RunWithCeramicClient
             \/ SetCliConfig \/ UnsetCliConfig \/ EndCommand
          /\ UNCHANGED daemonVars

-----------------------------------------------------------------------------
(* A daemon that is up has every setting from the first of its flags, its  *)
(* environment, what the file was meant to say and the default, whoever    *)
(* wrote the file and however many starts ago.  Two settings have values   *)
(* that the code takes for none: see LoadOptsOverride and PortOf.  The     *)
(* directory of the file is used with its mode alone.                      *)
AskedFor(name) == Of(line.flags ++ line.env ++ intended.of, name)
TakenForNone(name, value) ==
    \/ value = NotGiven
    \/ name = "sync" /\ value \notin {"sync-always", "never-sync"}
    \/ name = "port" /\ value = "0"

StartsAsConfigured ==
    line.at = "up" =>
        /\ \A name \in Setting \ {"ipfsMode", "ipfsHost", "logLevel", "storeMode", "storeDir",
                                  "noPeerData"} :
               line.up.of[name] = IF TakenForNone(name, AskedFor(name))
                                  THEN DefaultOf(name, line.up.of.network) ELSE AskedFor(name)
        /\ Of(line.flags, "ipfsApi") # NotGiven =>
               line.up.of.ipfsMode = "remote" /\ line.up.of.ipfsHost = line.flags.ipfsApi
        /\ line.up.store =
               IF "storeDir" \in DOMAIN line.flags THEN <<"fs", line.flags.storeDir>>
               ELSE IF "bucket" \in DOMAIN line.flags THEN <<"s3", line.flags.bucket>>
               ELSE IF Of(intended.of, "storeMode") = "s3" THEN <<"s3", Of(intended.of, "bucket")>>
               ELSE <<"fs", IF Of(intended.of, "storeMode") = "fs"
                            THEN Of(intended.of ++ Fixed, "storeDir") ELSE Fixed.storeDir>>
        /\ (line.up.of.noPeerData # NotGiven) <=>
               (AskedFor("noPeerData") # NotGiven \/ "noPeerDataToo" \in DOMAIN line.env)
        /\ AskedFor("readOnly") # NotGiven =>
               line.up.anchors # "authenticated" /\ line.up.routes.applyCommit = "refused"

(* What came up once comes up again, unless the file has been changed.     *)
StartsAgainAsBefore ==
    line.at = "failed" /\ daemonFile.kind = "whole" =>
        <<daemonFile.config, line.flags, line.env>> \notin cameUp

(* Commands act as the identity that the first of them drew, or that was   *)
(* set since, and on the host that was set: what is set later takes nothing*)
(* back.                                                                   *)
CommandsAreOneIdentity ==
    cli.at = "acting" => cli.config = wanted

ConfigurationIsKept == StartsAsConfigured /\ StartsAgainAsBefore /\ CommandsAreOneIdentity

=============================================================================
