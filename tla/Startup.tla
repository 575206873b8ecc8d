------------------------------- MODULE Startup -------------------------------
(***************************************************************************)
(* main: the setters, the version lookup, the beacon and the server, in    *)
(* their order, and what the process then says of itself: the beacon its   *)
(* session and version, each request its version, slug and snapshot.  The  *)
(* beacon's rounds and the gate are in Beacon and ChatHandler; here it is  *)
(* the reader of the process's identity.  StartModelRefresher is Catalog's.*)
(***************************************************************************)
EXTENDS EnvConfig

CONSTANTS
    Flags,      \* [workdir, slug, env, home, key]: command line and environment
    Baseline,   \* the built-in CLI version
    Releases    \* what npm may answer

VARIABLES
    flags,
    main,       \* the index of main's next step
    identity,   \* [slug, processSess]
    version,    \* the CLI version the process claims
    beacon,     \* "none", "started", "read"
    event,      \* [session, version] of the lifecycle event
    said        \* the versions in the beacon's and the requests' headers
                \* and in the event, and the slugs in the headers

mainVars == <<flags, main, identity, version>>
vars == <<envVars, mainVars, beacon, event, said>>

NoIdentity == [slug |-> <<>>, processSess |-> 0]

Init ==
    /\ clock = 0
    /\ mu = None
    /\ cfg = None /\ got = None
    /\ pc = [h \in Handlers |-> "idle"]
    /\ structure = [h \in Handlers |-> 0]
    /\ config = [h \in Handlers |-> None]
    /\ flags \in Flags
    /\ workDir = cliWorkDir(<<>>, flags.env, flags.home)
    /\ main = 1
    /\ identity = NoIdentity
    /\ version = Baseline
    /\ beacon = "none"
    /\ event = None
    /\ said = [versions |-> {}, slugs |-> {}]

-----------------------------------------------------------------------------
(* main *)

BeaconFirst == <<"NewProxy", "SetWorkingDir", "SetProjectSlug", "StartBeacon", "Resolve", "Serve">>
SlugFirst == <<"NewProxy", "SetProjectSlug", "SetWorkingDir", "Resolve", "StartBeacon", "Serve">>

MainSteps == <<"NewProxy", "SetWorkingDir", "SetProjectSlug", "Resolve", "StartBeacon", "Serve">>

Serving == main > Len(MainSteps)

At(step) ==
    /\ ~Serving
    /\ MainSteps[main] = step
    /\ main' = main + 1
    /\ UNCHANGED flags

OrCli(slug) == IF slug = <<>> THEN <<"cli">> ELSE slug

\* Every identity comes with a session of its own.
newIdentity(slug) ==
    identity' = [ slug |-> IF slug # <<>> THEN slug ELSE OrCli(slugPath(workDir')),
                  processSess |-> identity.processSess + 1 ]

NewProxy ==
    /\ At("NewProxy")
    /\ UNCHANGED workDir
    /\ newIdentity(<<>>)
    /\ newEnvConfigCache
    /\ UNCHANGED <<clock, mu, pc, structure, config, version, beacon, event, said>>

\* A directory without words leaves the identity as it is.
FollowSlug ==
    IF slugPath(workDir') # <<>> THEN newIdentity(slugPath(workDir')) ELSE UNCHANGED identity

SetWorkingDir ==
    /\ At("SetWorkingDir")
    /\ IF flags.workdir = <<>> THEN UNCHANGED <<workDir, cfg, got, identity>>
       ELSE /\ workDir' = cliWorkDir(flags.workdir, flags.env, flags.home)
            /\ newEnvConfigCache
            /\ FollowSlug
    /\ UNCHANGED <<clock, mu, pc, structure, config, version, beacon, event, said>>

SetProjectSlug ==
    /\ At("SetProjectSlug")
    /\ UNCHANGED workDir
    /\ IF flags.slug = <<>> THEN UNCHANGED identity ELSE newIdentity(flags.slug)
    /\ UNCHANGED <<clock, mu, cfg, got, pc, structure, config, version, beacon, event, said>>

\* npm answers with a release within five seconds, or the baseline stays.
Resolve ==
    /\ At("Resolve")
    /\ version' \in Releases \union {version}
    /\ UNCHANGED <<envVars, identity, beacon, event, said>>

\* Without a key of its own the proxy waits for a client's.
MainStartsBeacon ==
    /\ At("StartBeacon")
    /\ beacon' = IF flags.key /\ beacon = "none" THEN "started" ELSE beacon
    /\ UNCHANGED <<envVars, identity, version, event, said>>

Serve ==
    /\ At("Serve")
    /\ UNCHANGED <<envVars, identity, version, beacon, event, said>>

Main == NewProxy \/ SetWorkingDir \/ SetProjectSlug \/ Resolve \/ MainStartsBeacon \/ Serve

-----------------------------------------------------------------------------
(* The beacon *)

SayVersion(slugs) ==
    said' = [versions |-> said.versions \union {version}, slugs |-> said.slugs \union slugs]

\* runBeacon takes session and version for the lifecycle event when it starts;
\* each of its calls reads the version for its header.
BeaconReads ==
    /\ beacon = "started"
    /\ beacon' = "read"
    /\ event' = [session |-> identity.processSess, version |-> version]
    /\ UNCHANGED <<envVars, mainVars, said>>

BeaconCalls ==
    /\ beacon = "read"
    /\ SayVersion({})
    /\ UNCHANGED <<envVars, mainVars, beacon, event>>

-----------------------------------------------------------------------------
(* A request *)

\* Until envCfg.get in BuildRequest; the first one starts the beacon if need be.
Arrive(h) ==
    /\ Serving
    /\ pc[h] = "idle"
    /\ beacon' = IF beacon = "none" THEN "started" ELSE beacon
    /\ pc' = [pc EXCEPT ![h] = "get"]
    /\ UNCHANGED <<clock, workDir, mu, cfg, got, structure, config, mainVars, event, said>>

Gather(h) == get(h) /\ UNCHANGED <<mainVars, beacon, event, said>>

CreateUpstreamRequest(h) ==
    /\ pc[h] = "built"
    /\ SayVersion({identity.slug})
    /\ pc' = [pc EXCEPT ![h] = "sent"]
    /\ UNCHANGED <<clock, workDir, mu, cfg, got, structure, config, mainVars, beacon, event>>

Handle(h) == Gather(h) \/ CreateUpstreamRequest(h)

\* Nothing reads the clock before there are requests.
Passing == Serving /\ Tick /\ UNCHANGED <<mainVars, beacon, event, said>>

Next ==
    \/ Main \/ BeaconReads \/ BeaconCalls \/ Passing
    \/ \E h \in Handlers : Arrive(h) \/ Handle(h)

\* main and the handlers run; that git ends is MaxGather's promise.
Spec == Init /\ [][Next]_vars /\ WF_vars(Main) /\ \A h \in Handlers : WF_vars(Handle(h))

-----------------------------------------------------------------------------
(* Properties *)

\* "Beacon and every later request must report the same version" (main.go:46-52):
\* whatever npm answers, and whoever starts the beacon, the process has claimed
\* one version and one slug, and the session of its birth event is the one it has.
OneIdentity ==
    /\ Cardinality(said.versions \union (IF event = None THEN {} ELSE {event.version})) <= 1
    /\ Cardinality(said.slugs) <= 1
    /\ event # None => event.session = identity.processSess

\* "Header and body agree" (envconfig.go:27): the slug in the header of a request
\* is that of the directory in its body, unless the user sets another slug, which
\* then counts, or the directory has no words, where the proxy falls back.
HeaderAndBodyAgree ==
    \A h \in Handlers : config[h] # None =>
        \/ flags.slug # <<>> /\ identity.slug = flags.slug
        \/ flags.slug = <<>> /\ identity.slug = slugPath(config[h].dir)
        \/ flags.slug = <<>> /\ slugPath(config[h].dir) = <<>>

\* What a request says of the directory is at most the TTL and one gathering old
\* when it is handed out, git's part never older than the directory's, and its
\* date is today's, though the snapshot may be yesterday's.
SnapshotIsRecent ==
    [][\A h \in Handlers : config'[h] # config[h] =>
          /\ clock - config'[h].structure <= envConfigTTL + MaxGather
          /\ config'[h].git # None => config'[h].git >= config'[h].structure
          /\ config'[h].date = today(clock)]_vars

\* Requests that arrive together do not each run git: the snapshots that requests
\* are given are the same or more than the TTL apart.
OneGatherPerTTL ==
    \A h, i \in Handlers : config[h] # None /\ config[i] # None =>
        \/ config[h].structure = config[i].structure
        \/ config[h].structure - config[i].structure > envConfigTTL
        \/ config[i].structure - config[h].structure > envConfigTTL

\* While git ends, no request waits for the mutex for ever.
EveryRequestIsSent == \A h \in Handlers : pc[h] = "get" ~> pc[h] = "sent"
=============================================================================
