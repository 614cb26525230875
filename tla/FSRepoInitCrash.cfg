SPECIFICATION Spec
CONSTANTS
    p1 = p1
    p2 = p2
    c1 = c1
    c2 = c2
    c3 = c3
    Procs = {p1}
    Callers = {c1, c2}
    Home <- Shared
    Twice = {}
    Repos = {r1, r2, r3}
    Specs = {flatfs, badger}
    RefMod = 8
    Faults = {"crash"}
    None = None
INVARIANTS InitializedOpens
CHECK_DEADLOCK FALSE
