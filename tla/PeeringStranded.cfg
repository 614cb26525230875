SPECIFICATION FairSpec
CONSTANTS
    Peers = {p1}
    Handlers = {h1}
    Addrs = {good}
    Reachable = {good}
    MaxFlaps = 2
    MaxDials = 1
    MaxStops = 1
    EarlyDrop = TRUE
    NoPeer = NoPeer
    NoHandler = NoHandler
PROPERTY Maintains
CHECK_DEADLOCK FALSE
