SPECIFICATION ServicesSpec
CONSTANTS
    Peers = {p1}
    Protos = {x1}
    Addrs = {a1}
    Locals = {l1}
    Conns = {s1, s2}
    Plugins = {g1, g2}
    DaemonPlugins = {g1, g2}
    BootPeers = {b1, b2, b3}
    MinPeerThreshold = 2
    MaxFaults = 2
    Services = {r1, r2}
    MaxRoot = 1
    MaxChanges = 2
    MaxEdits = 1
    MaxErrors = 1
INVARIANTS ServicesSound
PROPERTIES TornDown DmSignalEnds BsReconnects RpPinned
CHECK_DEADLOCK FALSE
