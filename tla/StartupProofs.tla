---------------------------- MODULE StartupProofs ----------------------------
(***************************************************************************)
(* The process tells one story of itself, whatever its flags, npm's answer *)
(* and the interleaving: OneIdentity and HeaderAndBodyAgree.  Both rest on *)
(* the order of main's steps: what a step decides is read only after it.   *)
(***************************************************************************)
EXTENDS Startup, FiniteSetTheorems, TLAPS

\* What has happened when main is at its next step.
Order ==
    /\ main \in 1..7
    /\ DOMAIN pc = Handlers /\ DOMAIN config = Handlers
    /\ \A h \in Handlers : pc[h] # "idle" => main = 7
    /\ beacon # "none" => main >= 6

\* The slug follows the directory until the user's slug replaces it.
Follows == slugPath(workDir) # <<>> => identity.slug = slugPath(workDir)

SlugInv ==
    /\ main \in {2, 3} => Follows
    /\ main >= 4 => IF flags.slug # <<>> THEN identity.slug = flags.slug ELSE Follows

\* A snapshot in the cache or in a handler's hands is of the working directory.
OfWorkDir(snapshot) ==
    \E s, g, d : snapshot = [dir |-> workDir, structure |-> s, git |-> g, date |-> d]

SnapshotInv ==
    /\ got # None => OfWorkDir(cfg)
    /\ \A h \in Handlers : config[h] = None \/ (main = 7 /\ config[h].dir = workDir)

\* What was said is what is the case.
SaidInv ==
    /\ said.versions = {} \/ (main >= 6 /\ said.versions = {version})
    /\ said.slugs = {} \/ (main = 7 /\ said.slugs = {identity.slug})
    /\ \/ event = None
       \/ main >= 6 /\ event.version = version /\ event.session = identity.processSess

IInv == Order /\ SlugInv /\ SnapshotInv /\ SaidInv

-----------------------------------------------------------------------------
\* The places of main's steps.
LEMMA Places ==
    /\ Len(MainSteps) = 6
    /\ \A i \in 1..6 :
          /\ MainSteps[i] = "NewProxy" => i = 1
          /\ MainSteps[i] = "SetWorkingDir" => i = 2
          /\ MainSteps[i] = "SetProjectSlug" => i = 3
          /\ MainSteps[i] = "Resolve" => i = 4
          /\ MainSteps[i] = "StartBeacon" => i = 5
          /\ MainSteps[i] = "Serve" => i = 6
  BY DEF MainSteps

\* A step of main is taken at its place, before any request.
LEMMA AtPlace ==
    ASSUME Order, NEW step, At(step)
    PROVE  /\ main \in 1..6 /\ main' = main + 1
           /\ MainSteps[main] = step
           /\ \A h \in Handlers : pc[h] = "idle"
           /\ UNCHANGED flags
  BY Places DEF Order, At, Serving

\* Handing out a snapshot changes nothing but its date.
LEMMA Dated ==
    ASSUME NEW d, NEW s, NEW g, NEW o, NEW t
    PROVE  [[dir |-> d, structure |-> s, git |-> g, date |-> o] EXCEPT !.date = t].dir = d
  OBVIOUS

\* What holds nothing or one thing holds at most one.
LEMMA AtMostOne == ASSUME NEW S, NEW x, S = {} \/ S = {x} PROVE Cardinality(S) <= 1
<1>1. CASE S = {}
  <2>1. Cardinality(S) = 0
    BY <1>1, FS_EmptySet, Zenon
  <2> QED
    BY <2>1
<1>2. CASE S = {x}
  <2>1. Cardinality(S) = 1
    BY <1>2, FS_Singleton, Zenon
  <2> QED
    BY <2>1
<1> QED
  BY <1>1, <1>2

\* In the beginning nothing has been said or read.
LEMMA Initially == Init => IInv
  BY DEF Init, IInv, Order, SlugInv, SnapshotInv, SaidInv

-----------------------------------------------------------------------------
(* The steps of main *)

\* The first identity and the first cache.
LEMMA NewProxyKeeps == IInv /\ NewProxy => IInv'
<1> SUFFICES ASSUME IInv, NewProxy PROVE IInv'
  OBVIOUS
<1>1. main = 1 /\ main' = 2 /\ UNCHANGED flags
  BY AtPlace, Places DEF NewProxy, IInv
<1>2. Order'
  BY <1>1 DEF IInv, Order, NewProxy
<1>3. SlugInv'
  BY <1>1 DEF SlugInv, Follows, NewProxy, newIdentity, OrCli
<1>4. SnapshotInv'
  BY <1>1 DEF IInv, SnapshotInv, NewProxy, newEnvConfigCache
<1>5. SaidInv'
  BY <1>1 DEF IInv, SaidInv, NewProxy
<1> QED
  BY <1>2, <1>3, <1>4, <1>5 DEF IInv

\* SetWorkingDir replaces the cache with the directory, and the slug with both.
LEMMA SetWorkingDirKeeps == IInv /\ SetWorkingDir => IInv'
<1> SUFFICES ASSUME IInv, SetWorkingDir PROVE IInv'
  OBVIOUS
<1>1. main = 2 /\ main' = 3 /\ UNCHANGED flags
  BY AtPlace, Places DEF SetWorkingDir, IInv
<1>2. Order'
  BY <1>1 DEF IInv, Order, SetWorkingDir
<1>3. SlugInv'
  BY <1>1 DEF IInv, SlugInv, Follows, SetWorkingDir, FollowSlug, newIdentity
<1>4. SnapshotInv'
  BY <1>1 DEF IInv, SnapshotInv, OfWorkDir, SetWorkingDir, newEnvConfigCache
<1>5. SaidInv'
  BY <1>1 DEF IInv, SaidInv, SetWorkingDir
<1> QED
  BY <1>2, <1>3, <1>4, <1>5 DEF IInv

\* The user's slug comes last.
LEMMA SetProjectSlugKeeps == IInv /\ SetProjectSlug => IInv'
<1> SUFFICES ASSUME IInv, SetProjectSlug PROVE IInv'
  OBVIOUS
<1>1. main = 3 /\ main' = 4 /\ UNCHANGED flags
  BY AtPlace, Places DEF SetProjectSlug, IInv
<1>2. Order'
  BY <1>1 DEF IInv, Order, SetProjectSlug
<1>3. SlugInv'
  BY <1>1 DEF IInv, SlugInv, Follows, SetProjectSlug, newIdentity
<1>4. SnapshotInv'
  BY <1>1 DEF IInv, SnapshotInv, OfWorkDir, SetProjectSlug
<1>5. SaidInv'
  BY <1>1 DEF IInv, SaidInv, SetProjectSlug
<1> QED
  BY <1>2, <1>3, <1>4, <1>5 DEF IInv

\* From here on main leaves the slug and the directory alone.
LEMMA ResolveKeeps == IInv /\ Resolve => IInv'
<1> SUFFICES ASSUME IInv, Resolve PROVE IInv'
  OBVIOUS
<1>1. main = 4 /\ main' = 5 /\ UNCHANGED flags
  BY AtPlace, Places DEF Resolve, IInv
<1> QED
  BY <1>1 DEF IInv, Order, SlugInv, Follows, SnapshotInv, OfWorkDir, SaidInv, Resolve, envVars

\* The beacon may read from now on: identity and version are final.
LEMMA MainStartsBeaconKeeps == IInv /\ MainStartsBeacon => IInv'
<1> SUFFICES ASSUME IInv, MainStartsBeacon PROVE IInv'
  OBVIOUS
<1>1. main = 5 /\ main' = 6 /\ UNCHANGED flags
  BY AtPlace, Places DEF MainStartsBeacon, IInv
<1> QED
  BY <1>1 DEF IInv, Order, SlugInv, Follows, SnapshotInv, OfWorkDir, SaidInv, MainStartsBeacon, envVars

\* Requests may come from now on.
LEMMA ServeKeeps == IInv /\ Serve => IInv'
<1> SUFFICES ASSUME IInv, Serve PROVE IInv'
  OBVIOUS
<1>1. main = 6 /\ main' = 7 /\ UNCHANGED flags
  BY AtPlace, Places DEF Serve, IInv
<1> QED
  BY <1>1 DEF IInv, Order, SlugInv, Follows, SnapshotInv, OfWorkDir, SaidInv, Serve, envVars

-----------------------------------------------------------------------------
(* The beacon and the requests *)

\* The beacon says what is the case.
LEMMA BeaconKeeps == IInv /\ (BeaconReads \/ BeaconCalls) => IInv'
<1>1. ASSUME IInv, BeaconReads PROVE IInv'
  BY <1>1 DEF IInv, Order, SlugInv, Follows, SnapshotInv, OfWorkDir, SaidInv, BeaconReads, envVars, mainVars
<1>2. ASSUME IInv, BeaconCalls PROVE IInv'
  <2>1. main >= 6 /\ said'.versions = {version} /\ said'.slugs = said.slugs
    BY <1>2 DEF IInv, Order, SaidInv, BeaconCalls, SayVersion
  <2> QED
    BY <1>2, <2>1 DEF IInv, Order, SlugInv, Follows, SnapshotInv, OfWorkDir, SaidInv, BeaconCalls, envVars, mainVars
<1> QED
  BY <1>1, <1>2

\* A request arrives when main is done.
LEMMA ArriveKeeps == ASSUME IInv, NEW h \in Handlers, Arrive(h) PROVE IInv'
<1>1. main = 7
  BY Places DEF IInv, Order, Arrive, Serving
<1> QED
  BY <1>1 DEF IInv, Order, SlugInv, Follows, SnapshotInv, OfWorkDir, SaidInv, Arrive, mainVars

\* A handler is given a snapshot of the working directory.
LEMMA ReturnKeeps ==
    ASSUME IInv, NEW h \in Handlers, pc[h] # "idle", NEW snapshot, OfWorkDir(snapshot),
           Return(h, snapshot), UNCHANGED <<workDir, mainVars, beacon, event, said>>,
           got' # None => OfWorkDir(cfg)'
    PROVE  IInv'
<1>1. main = 7
  BY DEF IInv, Order
<1>2. PICK s, g, d : snapshot = [dir |-> workDir, structure |-> s, git |-> g, date |-> d]
  BY DEF OfWorkDir
<1>3. config'[h].dir = workDir
  BY <1>2, Dated DEF Return, IInv, Order
<1>4. \A i \in Handlers : i # h => config'[i] = config[i] /\ pc'[i] = pc[i]
  BY DEF Return, IInv, Order
<1>5. SnapshotInv'
  BY <1>1, <1>3, <1>4 DEF IInv, SnapshotInv, mainVars
<1>6. Order'
  BY <1>1 DEF IInv, Order, Return, mainVars
<1> QED
  BY <1>5, <1>6 DEF IInv, SlugInv, Follows, SaidInv, mainVars

\* The cache fills, and handlers are served from it.
LEMMA GatherKeeps == ASSUME IInv, NEW h \in Handlers, Gather(h) PROVE IInv'
<1>1. CASE Hit(h)
  <2>1. got # None /\ UNCHANGED <<cfg, got, workDir>>
    BY <1>1 DEF Hit, Expired, KeepGot
  <2>2. OfWorkDir(cfg) /\ (got' # None => OfWorkDir(cfg)')
    BY <2>1 DEF IInv, SnapshotInv, OfWorkDir
  <2> QED
    BY <1>1, <2>1, <2>2, ReturnKeeps DEF Hit, Gather
<1>2. CASE StartGather(h)
  BY <1>2 DEF IInv, Order, SlugInv, Follows, SnapshotInv, OfWorkDir, SaidInv, StartGather, Gather, mainVars
<1>3. CASE EndGather(h)
  <2>1. PICK git \in {clock, None} :
           cfg' = [dir |-> workDir, structure |-> structure[h], git |-> git, date |-> None]
    BY <1>3 DEF EndGather
  <2>2. UNCHANGED workDir
    BY <1>3 DEF EndGather
  <2>3. OfWorkDir(cfg') /\ OfWorkDir(cfg)'
    BY <2>1, <2>2 DEF OfWorkDir
  <2> QED
    BY <1>3, <2>2, <2>3, ReturnKeeps DEF EndGather, Gather
<1> QED
  BY <1>1, <1>2, <1>3 DEF Gather, get

\* A request says what is the case.
LEMMA CreateKeeps == ASSUME IInv, NEW h \in Handlers, CreateUpstreamRequest(h) PROVE IInv'
<1>1. main = 7
  BY DEF IInv, Order, CreateUpstreamRequest
<1>2. said'.versions = {version} /\ said'.slugs = {identity.slug}
  BY <1>1 DEF IInv, SaidInv, CreateUpstreamRequest, SayVersion
<1> QED
  BY <1>1, <1>2 DEF IInv, Order, SlugInv, Follows, SnapshotInv, OfWorkDir, SaidInv, CreateUpstreamRequest, mainVars

\* Time tells nothing.
LEMMA StutterKeeps == IInv /\ (Passing \/ UNCHANGED vars) => IInv'
  BY DEF IInv, Order, SlugInv, Follows, SnapshotInv, OfWorkDir, SaidInv, Passing, Tick, vars, envVars, mainVars

-----------------------------------------------------------------------------
\* Whatever is read of the process's identity is read after main has settled it.
THEOREM Invariance == Spec => []IInv
<1>1. IInv /\ [Next]_vars => IInv'
  BY NewProxyKeeps, SetWorkingDirKeeps, SetProjectSlugKeeps, ResolveKeeps, MainStartsBeaconKeeps,
     ServeKeeps, BeaconKeeps, ArriveKeeps, GatherKeeps, CreateKeeps, StutterKeeps
  DEF Next, Main, Handle
<1> QED
  BY <1>1, Initially, PTL DEF Spec

\* One version and one slug are claimed, and the birth event's session is the
\* process's (main.go:46-52).
THEOREM Identity == Spec => []OneIdentity
<1>1. IInv => OneIdentity
  <2> SUFFICES ASSUME IInv PROVE OneIdentity
    OBVIOUS
  <2>1. Cardinality(said.slugs) <= 1
    <3>1. said.slugs = {} \/ said.slugs = {identity.slug}
      BY DEF IInv, SaidInv
    <3> QED
      BY <3>1, AtMostOne
  <2>2. Cardinality(said.versions \union (IF event = None THEN {} ELSE {event.version})) <= 1
    <3> DEFINE V == said.versions \union (IF event = None THEN {} ELSE {event.version})
    <3>1. V = {} \/ V = {version}
      BY DEF IInv, SaidInv
    <3> QED
      BY <3>1, AtMostOne
  <2> QED
    BY <2>1, <2>2 DEF IInv, SaidInv, OneIdentity
<1> QED
  BY <1>1, Invariance, PTL

\* The slug in a request's header is the directory's in its body, or the user's
\* own, or the directory has none (envconfig.go:27).
THEOREM Agreement == Spec => []HeaderAndBodyAgree
<1>1. IInv => HeaderAndBodyAgree
  BY DEF IInv, SnapshotInv, SlugInv, Follows, HeaderAndBodyAgree
<1> QED
  BY <1>1, Invariance, PTL

-----------------------------------------------------------------------------
(* The snapshots: one gathering at a time, and one per TTL *)

\* The mutex is held from the first look at the directory to git's answer,
\* which takes no longer than git may.
GatherInv ==
    /\ clock \in Nat
    /\ structure \in [Handlers -> Nat]
    /\ \A h \in Handlers : pc[h] = "gather" =>
          /\ mu = h
          /\ structure[h] <= clock /\ clock - structure[h] <= MaxGather
          /\ got # None => structure[h] - got > envConfigTTL

\* When the directory and git were read for a snapshot.
WellTimed(s) == /\ s.structure \in Nat
                /\ s.git = None \/ (s.git \in Nat /\ s.git >= s.structure)

\* The cached snapshot was read before it was stored, and not long before.
CacheInv ==
    got # None => /\ got \in Nat /\ got <= clock
                  /\ WellTimed(cfg)
                  /\ cfg.structure <= got /\ got - cfg.structure <= MaxGather

\* What was handed out is the cached snapshot, or of one that had expired
\* when the cached one was begun.
HandedOut ==
    \A h \in Handlers : config[h] # None =>
        /\ got # None
        /\ config[h].structure \in Nat
        /\ \/ config[h].structure = cfg.structure
           \/ cfg.structure - config[h].structure > envConfigTTL

TimeInv == GatherInv /\ CacheInv /\ HandedOut /\ OneGatherPerTTL

\* Handing out a snapshot changes nothing but its date.
LEMMA DatedOnly ==
    ASSUME NEW s, OfWorkDir(s), NEW t
    PROVE  LET r == [s EXCEPT !.date = t] IN
           r.structure = s.structure /\ r.git = s.git /\ r.date = t
  BY DEF OfWorkDir

\* While main runs no request is under way; its steps may empty the cache.
LEMMA TimeMain == ASSUME IInv, TimeInv, Main PROVE TimeInv'
<1>1. /\ \A h \in Handlers : pc[h] = "idle" /\ config[h] = None
      /\ UNCHANGED <<clock, pc, structure, config>>
      /\ UNCHANGED <<cfg, got>> \/ got' = None
  <2>1. main \in 1..6 /\ \A h \in Handlers : pc[h] = "idle"
    BY AtPlace DEF IInv, Main, NewProxy, SetWorkingDir, SetProjectSlug, Resolve, MainStartsBeacon, Serve
  <2>2. \A h \in Handlers : config[h] = None
    BY <2>1 DEF IInv, SnapshotInv
  <2>3. UNCHANGED <<clock, pc, structure, config>>
    BY DEF Main, NewProxy, SetWorkingDir, SetProjectSlug, Resolve, MainStartsBeacon, Serve, envVars
  <2>4. UNCHANGED <<cfg, got>> \/ got' = None
    BY DEF Main, NewProxy, SetWorkingDir, SetProjectSlug, Resolve, MainStartsBeacon, Serve, envVars,
           newEnvConfigCache
  <2> QED BY <2>1, <2>2, <2>3, <2>4
<1> QED BY <1>1 DEF TimeInv, GatherInv, CacheInv, WellTimed, HandedOut, OneGatherPerTTL

\* A snapshot that has not expired is handed out once more.
LEMMA TimeHit == ASSUME IInv, TimeInv, NEW h \in Handlers, Hit(h) PROVE TimeInv'
<1>1. /\ got # None
      /\ UNCHANGED <<clock, mu, cfg, got, structure>>
  BY DEF Hit, Expired, KeepGot
<1>2. OfWorkDir(cfg)
  BY <1>1 DEF IInv, SnapshotInv
<1>3. /\ config'[h] = [cfg EXCEPT !.date = today(clock)]
      /\ \A i \in Handlers : i # h => config'[i] = config[i]
      /\ pc' = [pc EXCEPT ![h] = "built"]
  BY DEF Hit, Return, IInv, Order
<1>4. config'[h].structure = cfg.structure /\ cfg.structure \in Nat
  BY <1>1, <1>2, <1>3, DatedOnly DEF TimeInv, CacheInv, WellTimed
<1>5. \A i \in Handlers : pc'[i] = "gather" => pc[i] = "gather"
  BY <1>3 DEF IInv, Order
<1>6. GatherInv' /\ CacheInv'
  BY <1>1, <1>5 DEF TimeInv, GatherInv, CacheInv, WellTimed
<1>7. HandedOut'
  BY <1>1, <1>3, <1>4 DEF TimeInv, HandedOut
<1>8. OneGatherPerTTL'
  BY <1>1, <1>3, <1>4 DEF TimeInv, HandedOut, OneGatherPerTTL
<1> QED BY <1>6, <1>7, <1>8 DEF TimeInv

\* A gathering starts when the cached snapshot has expired and nobody gathers.
LEMMA TimeStart == ASSUME IInv, TimeInv, NEW h \in Handlers, StartGather(h) PROVE TimeInv'
<1>1. /\ mu = None /\ mu' = h
      /\ got # None => clock - got > envConfigTTL
      /\ structure'[h] = clock /\ \A i \in Handlers : i # h => structure'[i] = structure[i]
      /\ structure' \in [Handlers -> Nat]
      /\ UNCHANGED <<clock, cfg, got, config>>
  BY DEF StartGather, Expired, Unlocked, TimeInv, GatherInv
<1>2. \A i \in Handlers : pc[i] # "gather"
  BY <1>1, EnvConfigAssumption DEF TimeInv, GatherInv
<1>3. \A i \in Handlers : pc'[i] = "gather" => i = h
  BY <1>2 DEF StartGather, IInv, Order
<1>4. GatherInv'
  BY <1>1, <1>3, EnvConfigAssumption DEF TimeInv, GatherInv
<1> QED BY <1>1, <1>4 DEF TimeInv, CacheInv, WellTimed, HandedOut, OneGatherPerTTL

\* The new snapshot was begun more than the TTL after the old one was stored.
LEMMA TimeEnd == ASSUME IInv, TimeInv, NEW h \in Handlers, EndGather(h) PROVE TimeInv'
<1>1. PICK git \in {clock, None} :
         cfg' = [dir |-> workDir, structure |-> structure[h], git |-> git, date |-> None]
  BY DEF EndGather
<1>2. /\ pc[h] = "gather" /\ mu = h
      /\ structure[h] \in Nat /\ structure[h] <= clock /\ clock - structure[h] <= MaxGather
      /\ got # None => structure[h] - got > envConfigTTL
  BY DEF EndGather, TimeInv, GatherInv
<1>3. got' = clock /\ UNCHANGED <<clock, structure>> /\ clock \in Nat /\ got' # None
  BY EnvConfigAssumption DEF EndGather, TimeInv, GatherInv
<1>4. /\ config'[h] = [cfg' EXCEPT !.date = today(clock)]
      /\ \A i \in Handlers : i # h => config'[i] = config[i]
      /\ pc'[h] = "built" /\ \A i \in Handlers : i # h => pc'[i] = pc[i]
  BY DEF EndGather, Return, IInv, Order
<1>5. config'[h].structure = structure[h] /\ cfg'.structure = structure[h] /\ cfg'.git = git
  BY <1>1, <1>4
<1>6. \A i \in Handlers : pc'[i] # "gather"
  <2>1. \A i \in Handlers : i # h => pc[i] # "gather"
    BY <1>2 DEF TimeInv, GatherInv
  <2> QED BY <1>4, <2>1
<1>7. GatherInv'
  BY <1>3, <1>6 DEF TimeInv, GatherInv
<1>8. CacheInv'
  BY <1>2, <1>3, <1>5 DEF CacheInv, WellTimed
<1>9. ASSUME NEW i \in Handlers, i # h, config'[i] # None
      PROVE  config'[i].structure \in Nat /\ structure[h] - config'[i].structure > envConfigTTL
  <2>1. /\ config[i] # None /\ got # None /\ config[i].structure \in Nat
        /\ \/ config[i].structure = cfg.structure
           \/ cfg.structure - config[i].structure > envConfigTTL
    BY <1>4, <1>9 DEF TimeInv, HandedOut
  <2>2. cfg.structure \in Nat /\ got \in Nat /\ cfg.structure <= got
    BY <2>1 DEF TimeInv, CacheInv, WellTimed
  <2>3. structure[h] - got > envConfigTTL /\ config'[i] = config[i]
    BY <1>2, <1>4, <1>9, <2>1
  <2>4. structure[h] - config[i].structure > envConfigTTL
    BY <1>2, <2>1, <2>2, <2>3, EnvConfigAssumption
  <2> QED BY <2>1, <2>3, <2>4
<1>10. HandedOut'
  BY <1>2, <1>3, <1>5, <1>9 DEF HandedOut
<1>11. OneGatherPerTTL'
  <2> SUFFICES ASSUME NEW i \in Handlers, NEW j \in Handlers, config'[i] # None, config'[j] # None
               PROVE  \/ config'[i].structure = config'[j].structure
                      \/ config'[i].structure - config'[j].structure > envConfigTTL
                      \/ config'[j].structure - config'[i].structure > envConfigTTL
    BY DEF OneGatherPerTTL
  <2>1. CASE i = h \/ j = h
    BY <1>5, <1>9, <2>1
  <2>2. CASE i # h /\ j # h
    BY <1>4, <2>2 DEF TimeInv, OneGatherPerTTL
  <2> QED BY <2>1, <2>2
<1> QED BY <1>7, <1>8, <1>10, <1>11 DEF TimeInv

\* Steps that neither gather nor hand out, but for the clock.
LEMMA TimeQuiet ==
    ASSUME TimeInv, UNCHANGED <<mu, cfg, got, structure, config>>,
           \A h \in Handlers : pc'[h] = "gather" => pc[h] = "gather",
           \/ clock' = clock
           \/ /\ clock' = clock + 1
              /\ \A h \in Handlers : pc[h] = "gather" => clock - structure[h] < MaxGather
    PROVE  TimeInv'
<1>1. GatherInv'
  BY EnvConfigAssumption DEF TimeInv, GatherInv
<1>2. CacheInv'
  BY DEF TimeInv, GatherInv, CacheInv, WellTimed
<1> QED BY <1>1, <1>2 DEF TimeInv, HandedOut, OneGatherPerTTL

LEMMA TimeStep == IInv /\ TimeInv /\ [Next]_vars => TimeInv'
<1> SUFFICES ASSUME IInv, TimeInv, [Next]_vars PROVE TimeInv'
  OBVIOUS
<1>1. ASSUME NEW h \in Handlers, Arrive(h) \/ CreateUpstreamRequest(h) PROVE TimeInv'
  <2>1. \A i \in Handlers : pc'[i] = "gather" => pc[i] = "gather"
    BY <1>1 DEF Arrive, CreateUpstreamRequest, IInv, Order
  <2>2. UNCHANGED <<mu, cfg, got, structure, config, clock>>
    BY <1>1 DEF Arrive, CreateUpstreamRequest
  <2> QED BY <2>1, <2>2, TimeQuiet
<1>2. ASSUME NEW h \in Handlers, Gather(h) PROVE TimeInv'
  BY <1>2, TimeHit, TimeStart, TimeEnd DEF Gather, get
<1>3. CASE Passing
  BY <1>3, TimeQuiet DEF Passing, Tick
<1>4. CASE BeaconReads \/ BeaconCalls \/ UNCHANGED vars
  BY <1>4, TimeQuiet DEF BeaconReads, BeaconCalls, vars, envVars
<1> QED BY <1>1, <1>2, <1>3, <1>4, TimeMain DEF Next, Handle

\* Nothing has been gathered before main runs.
LEMMA TimeInit == Init => TimeInv
  BY DEF Init, TimeInv, GatherInv, CacheInv, HandedOut, OneGatherPerTTL

\* The snapshots that requests are given are the same or more than the TTL
\* apart: requests that arrive together do not each run git.
THEOREM OneGather == Spec => []OneGatherPerTTL
<1>1. TimeInv => OneGatherPerTTL
  BY DEF TimeInv
<1> QED
  BY <1>1, Initially, TimeInit, Invariance, TimeStep, PTL DEF Spec

RecentlyRead ==
    \A h \in Handlers : config'[h] # config[h] =>
          /\ clock - config'[h].structure <= envConfigTTL + MaxGather
          /\ config'[h].git # None => config'[h].git >= config'[h].structure
          /\ config'[h].date = today(clock)

LEMMA RecentHit == ASSUME IInv, TimeInv, NEW h \in Handlers, Hit(h) PROVE RecentlyRead
<1>1. got # None /\ ~(clock - got > envConfigTTL)
  BY DEF Hit, Expired
<1>2. got \in Nat /\ clock \in Nat /\ clock - got <= envConfigTTL
  BY <1>1, EnvConfigAssumption DEF TimeInv, GatherInv, CacheInv
<1>3. OfWorkDir(cfg)
  BY <1>1 DEF IInv, SnapshotInv
<1>4. /\ config'[h] = [cfg EXCEPT !.date = today(clock)]
      /\ \A i \in Handlers : i # h => config'[i] = config[i]
  BY DEF Hit, Return, IInv, Order
<1>5. /\ config'[h].structure = cfg.structure /\ config'[h].git = cfg.git
      /\ config'[h].date = today(clock)
  BY <1>3, <1>4, DatedOnly
<1>6. /\ cfg.structure \in Nat /\ got - cfg.structure <= MaxGather
      /\ cfg.git # None => cfg.git >= cfg.structure
  BY <1>1 DEF TimeInv, CacheInv, WellTimed
<1>7. clock - cfg.structure <= envConfigTTL + MaxGather
  BY <1>2, <1>6, EnvConfigAssumption
<1> QED BY <1>4, <1>5, <1>6, <1>7 DEF RecentlyRead

LEMMA RecentEnd == ASSUME IInv, TimeInv, NEW h \in Handlers, EndGather(h) PROVE RecentlyRead
<1>1. PICK git \in {clock, None} :
         cfg' = [dir |-> workDir, structure |-> structure[h], git |-> git, date |-> None]
  BY DEF EndGather
<1>2. /\ config'[h] = [cfg' EXCEPT !.date = today(clock)]
      /\ \A i \in Handlers : i # h => config'[i] = config[i]
  BY DEF EndGather, Return, IInv, Order
<1>3. /\ config'[h].structure = structure[h] /\ config'[h].git = git
      /\ config'[h].date = today(clock)
  BY <1>1, <1>2
<1>4. /\ clock \in Nat /\ structure[h] \in Nat
      /\ structure[h] <= clock /\ clock - structure[h] <= MaxGather
  BY DEF EndGather, TimeInv, GatherInv
<1>5. /\ clock - structure[h] <= envConfigTTL + MaxGather
      /\ git # None => git >= structure[h]
  BY <1>1, <1>4, EnvConfigAssumption
<1> QED BY <1>2, <1>3, <1>5 DEF RecentlyRead

LEMMA RecentStep == IInv /\ TimeInv /\ [Next]_vars => [RecentlyRead]_vars
<1> SUFFICES ASSUME IInv, TimeInv, Next PROVE RecentlyRead
  OBVIOUS
<1>1. ASSUME \A h \in Handlers : ~Hit(h) /\ ~EndGather(h) PROVE UNCHANGED config
  BY <1>1 DEF Next, Main, NewProxy, SetWorkingDir, SetProjectSlug, Resolve, MainStartsBeacon,
     Serve, BeaconReads, BeaconCalls, Passing, Tick, Arrive, Handle, Gather, get, StartGather,
     CreateUpstreamRequest, envVars
<1>2. UNCHANGED config => RecentlyRead
  BY DEF RecentlyRead
<1> QED BY <1>1, <1>2, RecentHit, RecentEnd

\* A snapshot is at most the TTL and one gathering old when it is handed out,
\* git's part never older than the directory's, and its date is today's.
THEOREM Recency == Spec => SnapshotIsRecent
  BY Initially, TimeInit, Invariance, TimeStep, RecentStep, PTL
  DEF Spec, SnapshotIsRecent, RecentlyRead
=============================================================================
