SPECIFICATION FairSpec
CONSTANTS
    Cids <- MCCids
    Hashes <- MCHashes
    Mh <- MCMh
    Links <- MCLinks
    Files <- MCFiles
    Roots <- MCRoots
    Final <- MCFinal
    Collectors = {g1}
    Removers = {m1}
    Clients = {c1}
    Adders = {a1}
    PinTargets = {"leaf"}
    UnpinTargets = {"leaf", "dir"}
    PutTargets = {"leaf"}
    RmTargets = {"chunk"}
    FetchTargets = {"chunk"}
    MfsRoots = {"empty", "file"}
    MfsInit = "empty"
    UnlockedDuringGC = FALSE
    None = None
INVARIANTS PinsComplete
PROPERTIES MfsRespected NoStarvation
