SPECIFICATION CommandsSpec
CONSTANTS
    Peers = {p1}
    Protos = {x1}
    Addrs = {a1}
    Locals = {l1, l2}
    Conns = {s1, s2}
    MgTarget = 2
    MgOldest = 0
    MgCrashes = 1
    ClProcs = {o1, o2, o3}
    MaxRuns = 3
    MfClients = {c1, c2}
    MfData = {d1}
    MaxCommands = 3
    Sites <- MCSites
    GwFormats = {"html", "dag-json", "car"}
    GwContents = {"v2"}
    MaxPublish = 2
    PlainCids = {"c"}
    LongKeys = {"k"}
    HugeCids = {"h"}
    LinkNames = {"d"}
    LongLinks = {"e"}
    DefaultKnown <- MCDefault
    PublicGateways <- MCPublic
    NoDNSLink = FALSE
    MaxHops = 3
    RtNames = {"a", "b", "c"}
    RtMethods = {"provide", "find"}
    RtConfigs <- MCRouters
    QcRoots <- MCRoots
    QcEvents = 3
    QcBuffer = 2
    SwClients = {w1, w2}
    SwFilters = {f1, f2}
    SwScopes = {"system", "transient"}
    SwLimits = {0, 1, 5}
    HighWater = 2
    LimitBase = 2
    MaxSwarm = 3
    ArArgs <- MCArgs
INVARIANTS P2PSound MgSound ClSound MfSound GwSound HnSound RoutingSound SwarmSound
PROPERTIES ClIdentityKept
CHECK_DEADLOCK FALSE
