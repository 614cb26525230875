SPECIFICATION FairSpec
CONSTANTS
    p1 = p1
    p2 = p2
    c1 = c1
    c2 = c2
    c3 = c3
    Procs = {p1, p2}
    Callers = {c1, c2, c3}
    Home <- Apart
    Twice = {c1}
    Repos = {r1, r2, r3}
    Specs = {flatfs, badger}
    RefMod = 8
    Faults = {"crash", "init", "keystore", "dsClose"}
    None = None
INVARIANTS LockDiscipline UsableWhileHeld LockReleased
PROPERTIES LockComesFree GuardedAccess
CHECK_DEADLOCK FALSE
