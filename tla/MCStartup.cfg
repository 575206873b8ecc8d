SPECIFICATION Spec
CONSTANTS
    h1 = h1
    h2 = h2
    h3 = h3
    Handlers = {h1, h2, h3}
    None = None
    Words = {"proxy", "work", "web", "mine"}
    Cwd <- MCCwd
    envConfigTTL = 1
    Day = 2
    MaxGather = 1
    MaxTime = 3
    Flags <- MCFlags
    Baseline = "baseline"
    Releases = {"latest"}
INVARIANTS
    OneIdentity
    HeaderAndBodyAgree
    OneGatherPerTTL
PROPERTIES
    SnapshotIsRecent
    EveryRequestIsSent
