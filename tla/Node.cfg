SPECIFICATION NodeSpec
CONSTANTS
    Peers = {p1}
    Handlers = {h1, h2}
    Addrs = {good, bad}
    Reachable = {good}
    MaxFlaps = 2
    MaxDials = 1
    MaxStops = 1
    EarlyDrop = FALSE
    NoPeer = NoPeer
    NoHandler = NoHandler
    AcEntries <- MCEntries
    AcDests = {"none", "dir", "new", "missing"}
    adderOutChanSize = 2
    progressReaderIncrement = 2
    PbStreams <- MCStreams
    eventQueueSize = 8
    LgConfigs = {"nil", "Enabled", "other"}
    MaxEvents = 11
INVARIANTS PeeringSound LiveHandlerIsRegistered DisconnectNotLost AddAndLogSound
PROPERTIES Maintains AddAndLogEnd
CHECK_DEADLOCK FALSE
