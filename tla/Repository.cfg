SPECIFICATION RepositorySpec
CONSTANTS
    p2 = p2
    p1 = p1
    Reqs = {r1, r2}
    Objs = {o1, o2, o3}
    Peers = {p1, p2}
    Services = {s1}
    Opts = {v1}
    Extras = {x1, x2}
    BootLists <- Lists
    PrivKey = PrivKey
    OtherKey = OtherKey
    Faults = {"error", "torn", "lost"}
    MaxCommands = 4
    Unset = Unset
    None = None
    Torn = Torn
    KeyNames = {"a", "b"}
    KeyClients = {k1, k2}
    MaxKeys = 3
    RfCids = {"r", "a", "b", "c", "d"}
    RfLinks <- MCRfLinks
    RfRoots <- MCRfRoots
    RfDepths <- MCDepths
    CtFiles <- MCFiles
    CtOffsets = {0, 1, 2, 3, 4, 5, 7}
    CtMaxes <- MCMaxes
    WkSizes <- MCWkSizes
    WkTsizes <- MCWkTsizes
    MaxBlockOps = 2
SYMMETRY Symmetry
INVARIANTS ConfigSound MemoryIsFile KySound ReadsRight
PROPERTIES UserKeysKept OwnEffectOnly KyKept
CHECK_DEADLOCK FALSE
