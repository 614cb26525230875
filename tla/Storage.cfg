SPECIFICATION StorageSpec
CONSTANTS
    Cids <- MCCids
    Hashes <- MCHashes
    Mh <- MCMh
    Links <- MCLinks
    Files <- MCFiles
    Roots <- MCRoots
    Final <- MCFinal
    Collectors = {g1}
    Removers = {m1}
    Clients = {c1}
    Adders = {}
    PinTargets = {"dir", "rawFile", "file"}
    UnpinTargets = {"dir", "file"}
    PutTargets = {"dir"}
    RmTargets = {"leaf", "chunk"}
    FetchTargets = {"rawFile", "file", "chunk", "leaf"}
    MfsRoots = {"empty"}
    MfsInit = "empty"
    UnlockedDuringGC = TRUE
    None = None
    PnCids = {"r", "a", "b"}
    PnLinks <- MCPnLinks
    PnInvalid = {}
    PnReaders = {c1}
    PnWriters = {c2}
    PnArgs <- MCPnArgs
    PnStarts <- MCPnStarts
    MaxPinCmds = 2
    MaxBlockEvents = 1
    RrClients = {q1, q2}
    MaxRequests = 3
    RrNames = {"n"}
    MaxRemote = 2
    MaxRrFaults = 1
    RcKeys = 3
    RcPinned = {2}
    RcWorkers = {w1, w2}
    GcBuffer = 1
    StorageMaxes = {1, 6}
    Watermarks <- MCWatermarks
    Word = 512
    MaxRepo = 2
    MnClients = {u1, u2}
    MaxMounts = 2
SYMMETRY Symmetry
INVARIANTS PinsSound RrSound RepoAndMountsSound
PROPERTIES PinnedKept RcReports
