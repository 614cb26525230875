SPECIFICATION Spec
CONSTANTS
    Cids <- MCCids
    Hashes <- MCHashes
    Mh <- MCMh
    Links <- MCLinks
    Files <- MCFiles
    Roots <- MCRoots
    Final <- MCFinal
    Collectors = {g1}
    Removers = {m1}
    Clients = {c1}
    Adders = {}
    PinTargets = {"dir", "rawFile", "file"}
    UnpinTargets = {"dir", "file"}
    PutTargets = {"dir"}
    RmTargets = {"rawFile"}
    FetchTargets = {"file", "chunk", "leaf"}
    MfsRoots = {"empty"}
    MfsInit = "empty"
    UnlockedDuringGC = TRUE
    None = None

PROPERTY PinnedKept
