SPECIFICATION Spec
CONSTANTS
    Cids <- MCCids
    Hashes <- MCHashes
    Mh <- MCMh
    Links <- MCLinks
    Files <- MCFiles
    Roots <- MCRoots
    Final <- MCFinal
    Collectors = {g1}
    Removers = {}
    Clients = {}
    Adders = {}
    PinTargets = {"file"}
    UnpinTargets = {"file"}
    PutTargets = {"leaf"}
    RmTargets = {"leaf", "chunk"}
    FetchTargets = {"leaf"}
    MfsRoots = {"empty", "top", "file"}
    MfsInit = "empty"
    UnlockedDuringGC = TRUE
    None = None

PROPERTY MfsRespected
