------------------------------- MODULE FSRepo -------------------------------
(***************************************************************************)
(* The life of a repository on disk (kubo/repo/fsrepo) shared by several   *)
(* processes, and of the reference-counted handles that the callers inside *)
(* one process get from OnlyOne (kubo/repo/onlyone.go).                    *)
(*                                                                         *)
(* Inside a process OnlyOne's mutex and packageLock let one Init, Open or  *)
(* Close run at a time; between processes only repo.lock does, and Init    *)
(* does not take it.  A step is what one process does between two accesses *)
(* to the disk that another process can see.                               *)
(***************************************************************************)
EXTENDS Integers, FiniteSets

CONSTANTS
    Procs,      \* processes
    Callers,    \* goroutines that open the repository
    Home,       \* the process of a caller
    Twice,      \* the callers that close twice, like `ipfs daemon`
    Repos,      \* FSRepo objects, one for each open(); bounds the openings
    Specs,      \* datastore specifications a configuration can ask for
    RefMod,     \* 2^32 in the code: ref.refs is a uint32
    Faults,     \* what may go wrong, from AllFaults
    None

AllFaults == {"crash", "init", "keystore", "dsClose"}

ASSUME FSRepoAssumption ==
    /\ Home \in [Callers -> Procs]
    /\ IsFiniteSet(Callers)
    /\ RefMod \in Nat /\ RefMod > 2 * Cardinality(Callers) + 1
    /\ None \notin Repos \cup Specs \cup Callers
    /\ Faults \subseteq AllFaults

VARIABLES
    config,     \* the Datastore.Spec in the config file
    spec,       \* the datastore_spec file
    version,    \* whether the version file is there
    fslock,     \* the FSRepo that holds repo.lock
    ds,         \* the FSRepos whose datastore is open
    owner,      \* the process that made an FSRepo
    status,     \* what has become of an FSRepo
    refs,       \* ref.refs, a counter modulo RefMod
    active,     \* OnlyOne.active of a process
    op,         \* what a process does under its mutexes
    conf,       \* the spec it initializes with
    subject,    \* the FSRepo it opens or closes
    client,     \* the caller it opens for
    handle,     \* the reference a caller has
    closes      \* how often it will still close it

diskVars   == <<config, spec, version>>
repoVars   == <<fslock, ds, owner, status, refs>>
procVars   == <<active, op, conf, subject, client>>
callerVars == <<handle, closes>>
vars == <<diskVars, repoVars, procVars, callerVars>>

Ops == {"idle", "initConfig", "writeConfig", "initSpec", "writeSpec", "writeVersion",
        "openStore", "openKeystore", "closeStore", "unlock"}

TypeOK ==
    /\ config \in Specs \cup {None}
    /\ spec \in Specs \cup {None}
    /\ version \in BOOLEAN
    /\ fslock \in Repos \cup {None}
    /\ ds \subseteq Repos
    /\ owner \in [Repos -> Procs \cup {None}]
    /\ status \in [Repos -> {"unused", "opening", "open", "stuck", "closed", "failed"}]
    /\ refs \in [Repos -> 0 .. RefMod - 1]
    /\ active \in [Procs -> Repos \cup {None}]
    /\ op \in [Procs -> Ops]
    /\ conf \in [Procs -> Specs \cup {None}]
    /\ subject \in [Procs -> Repos \cup {None}]
    /\ client \in [Procs -> Callers \cup {None}]
    /\ handle \in [Callers -> Repos \cup {None}]
    /\ closes \in [Callers -> 0 .. 2]

Init ==
    /\ config = None /\ spec = None /\ version = FALSE
    /\ fslock = None /\ ds = {}
    /\ owner = [r \in Repos |-> None]
    /\ status = [r \in Repos |-> "unused"]
    /\ refs = [r \in Repos |-> 0]
    /\ active = [p \in Procs |-> None]
    /\ op = [p \in Procs |-> "idle"]
    /\ conf = [p \in Procs |-> None]
    /\ subject = [p \in Procs |-> None]
    /\ client = [p \in Procs |-> None]
    /\ handle = [c \in Callers |-> None]
    /\ closes = [c \in Callers |-> 0]

Goto(p, o) == op' = [op EXCEPT ![p] = o]

-----------------------------------------------------------------------------
(* Init: the config file, the spec file and the version file, each written *)
(* after a look at whether it is there.                                    *)

IsInitialized == config # None

\* Init passes its check.  (`ipfs init` looks at repo.lock before, which says
\* nothing as long as there is no config file.)
InitStart(p, s) ==
    /\ op[p] = "idle"
    /\ ~IsInitialized
    /\ Goto(p, "initConfig")
    /\ conf' = [conf EXCEPT ![p] = s]
    /\ UNCHANGED <<diskVars, repoVars, active, subject, client, callerVars>>

initConfig(p) ==
    /\ op[p] = "initConfig"
    /\ Goto(p, IF IsInitialized THEN "initSpec" ELSE "writeConfig")
    /\ UNCHANGED <<diskVars, repoVars, active, conf, subject, client, callerVars>>

WriteConfig(p) ==
    /\ op[p] = "writeConfig"
    /\ config' = conf[p]
    /\ Goto(p, "initSpec")
    /\ UNCHANGED <<spec, version, repoVars, active, conf, subject, client, callerVars>>

initSpec(p) ==
    /\ op[p] = "initSpec"
    /\ Goto(p, IF spec # None THEN "writeVersion" ELSE "writeSpec")
    /\ UNCHANGED <<diskVars, repoVars, active, conf, subject, client, callerVars>>

WriteSpec(p) ==
    /\ op[p] = "writeSpec"
    /\ spec' = conf[p]
    /\ Goto(p, "writeVersion")
    /\ UNCHANGED <<config, version, repoVars, active, conf, subject, client, callerVars>>

WriteVersion(p) ==
    /\ op[p] = "writeVersion"
    /\ version' = TRUE
    /\ Goto(p, "idle")
    /\ conf' = [conf EXCEPT ![p] = None]
    /\ UNCHANGED <<config, spec, repoVars, active, subject, client, callerVars>>

\* A write fails and Init returns the error.
InitFail(p) ==
    /\ "init" \in Faults
    /\ op[p] \in {"writeConfig", "writeSpec", "writeVersion"}
    /\ Goto(p, "idle")
    /\ conf' = [conf EXCEPT ![p] = None]
    /\ UNCHANGED <<diskVars, repoVars, active, subject, client, callerVars>>

-----------------------------------------------------------------------------
(* Open.                                                                   *)

Closes(c) == IF c \in Twice THEN 2 ELSE 1

\* Mutant: a caller that shares an open repository is not counted.
OpenShared_Uncounted(c) ==
    LET r == active[Home[c]] IN
    /\ op[Home[c]] = "idle" /\ closes[c] = 0
    /\ r # None
    /\ handle' = [handle EXCEPT ![c] = r]
    /\ closes' = [closes EXCEPT ![c] = Closes(c)]
    /\ UNCHANGED <<diskVars, repoVars, procVars>>

\* OnlyOne.Open finds the repository open in this process.
OpenShared(c) ==
    LET r == active[Home[c]] IN
    /\ op[Home[c]] = "idle" /\ closes[c] = 0
    /\ r # None
    /\ refs' = [refs EXCEPT ![r] = (@ + 1) % RefMod]
    /\ handle' = [handle EXCEPT ![c] = r]
    /\ closes' = [closes EXCEPT ![c] = Closes(c)]
    /\ UNCHANGED <<diskVars, fslock, ds, owner, status, procVars>>

\* Mutant: the lock is not tried.
OpenLock_NoLock(c, r) ==
    LET p == Home[c] IN
    /\ op[p] = "idle" /\ closes[c] = 0
    /\ active[p] = None
    /\ IsInitialized
    /\ status[r] = "unused"
    /\ fslock' = r
    /\ status' = [status EXCEPT ![r] = "opening"]
    /\ owner' = [owner EXCEPT ![r] = p]
    /\ Goto(p, "openStore")
    /\ subject' = [subject EXCEPT ![p] = r]
    /\ client' = [client EXCEPT ![p] = c]
    /\ UNCHANGED <<diskVars, ds, refs, active, conf, callerVars>>

\* It does not, and open() takes repo.lock.  Without a config file or with
\* the lock taken open() fails and nothing changes.
OpenLock(c, r) ==
    LET p == Home[c] IN
    /\ op[p] = "idle" /\ closes[c] = 0
    /\ active[p] = None
    /\ IsInitialized
    /\ fslock = None
    /\ status[r] = "unused"
    /\ fslock' = r
    /\ status' = [status EXCEPT ![r] = "opening"]
    /\ owner' = [owner EXCEPT ![r] = p]
    /\ Goto(p, "openStore")
    /\ subject' = [subject EXCEPT ![p] = r]
    /\ client' = [client EXCEPT ![p] = c]
    /\ UNCHANGED <<diskVars, ds, refs, active, conf, callerVars>>

\* The lock is released and open() returns an error.
OpenFails(p) ==
    /\ fslock' = None
    /\ status' = [status EXCEPT ![subject[p]] = "failed"]
    /\ Goto(p, "idle")
    /\ subject' = [subject EXCEPT ![p] = None]
    /\ client' = [client EXCEPT ![p] = None]
    /\ UNCHANGED <<diskVars, ds, owner, refs, active, conf, callerVars>>

\* The version and the spec are right and the datastore, which no two
\* processes can have open, is there to open.
Openable == version /\ spec = config /\ ds = {}

OpenStore(p) ==
    /\ op[p] = "openStore"
    /\ \/ /\ Openable
          /\ ds' = ds \cup {subject[p]}
          /\ Goto(p, "openKeystore")
          /\ UNCHANGED <<diskVars, fslock, owner, status, refs, active, conf, subject, client,
                         callerVars>>
       \/ ~Openable /\ OpenFails(p)

OpenKeystore(p) ==
    LET c == client[p]  r == subject[p] IN
    /\ op[p] = "openKeystore"
    /\ status' = [status EXCEPT ![r] = "open"]
    /\ refs' = [refs EXCEPT ![r] = 1]
    /\ active' = [active EXCEPT ![p] = r]
    /\ handle' = [handle EXCEPT ![c] = r]
    /\ closes' = [closes EXCEPT ![c] = Closes(c)]
    /\ Goto(p, "idle")
    /\ subject' = [subject EXCEPT ![p] = None]
    /\ client' = [client EXCEPT ![p] = None]
    /\ UNCHANGED <<diskVars, fslock, ds, owner, conf>>

\* The datastore that was just opened is not closed.
OpenKeystoreFail(p) ==
    /\ "keystore" \in Faults
    /\ op[p] = "openKeystore"
    /\ OpenFails(p)

-----------------------------------------------------------------------------
(* Close.                                                                  *)

\* Mutant: the counter is signed, so that a second close is a last one too.
RefClose_Signed(c) ==
    LET p == Home[c]  r == handle[c]  left == refs[r] - 1 IN
    /\ op[p] = "idle" /\ closes[c] > 0
    /\ refs' = [refs EXCEPT ![r] = left]
    /\ closes' = [closes EXCEPT ![c] = @ - 1]
    /\ active' = [active EXCEPT ![p] = IF left <= 0 THEN None ELSE @]
    /\ IF left <= 0 /\ status[r] = "open"
       THEN Goto(p, "closeStore") /\ subject' = [subject EXCEPT ![p] = r]
       ELSE UNCHANGED <<op, subject>>
    /\ UNCHANGED <<diskVars, fslock, ds, owner, status, conf, client, handle>>

\* ref.Close: the last reference takes the entry out of OnlyOne and closes the
\* FSRepo; a closed FSRepo returns an error.
RefClose(c) ==
    LET p == Home[c]  r == handle[c]  left == (refs[r] + RefMod - 1) % RefMod IN
    /\ op[p] = "idle" /\ closes[c] > 0
    /\ refs' = [refs EXCEPT ![r] = left]
    /\ closes' = [closes EXCEPT ![c] = @ - 1]
    /\ active' = [active EXCEPT ![p] = IF left = 0 THEN None ELSE @]
    /\ IF left = 0 /\ status[r] = "open"
       THEN Goto(p, "closeStore") /\ subject' = [subject EXCEPT ![p] = r]
       ELSE UNCHANGED <<op, subject>>
    /\ UNCHANGED <<diskVars, fslock, ds, owner, status, conf, client, handle>>

\* Mutant: repo.lock is released first.
CloseStore_UnlockFirst(p) ==
    /\ op[p] = "closeStore"
    /\ fslock' = None
    /\ Goto(p, "unlock")
    /\ UNCHANGED <<diskVars, ds, owner, status, refs, active, conf, subject, client,
                   callerVars>>

\* FSRepo.Close: the datastore ...
CloseStore(p) ==
    /\ op[p] = "closeStore"
    /\ ds' = ds \ {subject[p]}
    /\ Goto(p, "unlock")
    /\ UNCHANGED <<diskVars, fslock, owner, status, refs, active, conf, subject, client,
                   callerVars>>

\* ... whose error is returned at once: the lock file stays locked, for an
\* FSRepo that OnlyOne has already forgotten ...
CloseStoreFail(p) ==
    /\ "dsClose" \in Faults
    /\ op[p] = "closeStore"
    /\ ds' \in {ds, ds \ {subject[p]}}
    /\ status' = [status EXCEPT ![subject[p]] = "stuck"]
    /\ Goto(p, "idle")
    /\ subject' = [subject EXCEPT ![p] = None]
    /\ UNCHANGED <<diskVars, fslock, owner, refs, active, conf, client, callerVars>>

\* Mutant: the lock file is left locked.
Unlock_Keep(p) ==
    /\ op[p] = "unlock"
    /\ status' = [status EXCEPT ![subject[p]] = "closed"]
    /\ Goto(p, "idle")
    /\ subject' = [subject EXCEPT ![p] = None]
    /\ UNCHANGED <<diskVars, fslock, ds, owner, refs, active, conf, client, callerVars>>

\* ... then repo.lock.
Unlock(p) ==
    /\ op[p] = "unlock"
    /\ status' = [status EXCEPT ![subject[p]] = "closed"]
    /\ fslock' = None
    /\ Goto(p, "idle")
    /\ subject' = [subject EXCEPT ![p] = None]
    /\ UNCHANGED <<diskVars, ds, owner, refs, active, conf, client, callerVars>>

-----------------------------------------------------------------------------
\* A process dies: the system closes its files, and with them its locks.
Crash(p) ==
    LET mine == {r \in Repos : owner[r] = p} IN
    /\ "crash" \in Faults
    /\ fslock' = IF fslock \in mine THEN None ELSE fslock
    /\ ds' = ds \ mine
    /\ status' = [r \in Repos |-> IF r \in mine THEN "closed" ELSE status[r]]
    /\ active' = [active EXCEPT ![p] = None]
    /\ Goto(p, "idle")
    /\ conf' = [conf EXCEPT ![p] = None]
    /\ subject' = [subject EXCEPT ![p] = None]
    /\ client' = [client EXCEPT ![p] = None]
    /\ handle' = [c \in Callers |-> IF Home[c] = p THEN None ELSE handle[c]]
    /\ closes' = [c \in Callers |-> IF Home[c] = p THEN 0 ELSE closes[c]]
    /\ UNCHANGED <<diskVars, owner, refs>>

Step(p) ==
    \/ initConfig(p) \/ WriteConfig(p) \/ initSpec(p) \/ WriteSpec(p) \/ WriteVersion(p)
    \/ OpenStore(p) \/ OpenKeystore(p)
    \/ CloseStore(p) \/ Unlock(p)

Fault(p) == InitFail(p) \/ OpenKeystoreFail(p) \/ CloseStoreFail(p) \/ Crash(p)

Next ==
    \/ \E p \in Procs : \/ Step(p)
                        \/ Fault(p)
                        \/ \E s \in Specs : InitStart(p, s)
    \/ \E c \in Callers : \/ OpenShared(c)
                          \/ RefClose(c)
                          \/ \E r \in Repos : OpenLock(c, r)

Spec == Init /\ [][Next]_vars

(***************************************************************************)
(* Fairness.  A goroutine inside Init, Open or Close gets on with it, and  *)
(* a caller closes what it opened (`defer r.Close()`); Go's mutex hands    *)
(* itself to a waiter that starves, hence strong fairness for RefClose.    *)
(* Nobody has to open anything.                                            *)
(***************************************************************************)
Fairness ==
    /\ \A p \in Procs : WF_vars(Step(p))
    /\ \A c \in Callers : SF_vars(RefClose(c))

FairSpec == Spec /\ Fairness

-----------------------------------------------------------------------------
(* Properties.                                                             *)

\* Whoever opened the repository and has not closed it finds it open, whatever
\* the other callers of the process do.
UsableWhileHeld ==
    \A c \in Callers :
        handle[c] # None /\ closes[c] = Closes(c) =>
            status[handle[c]] = "open" /\ handle[c] \in ds

\* A datastore is open only under the protection of repo.lock: between the
\* Lock in open() and the Close of the lock file.  The one exception is an
\* open() that fails in the keystore, which leaves the datastore open.
StoreUnderLock == \A r \in ds : fslock = r \/ status[r] = "failed"

\* OnlyOne's entry is an open repository that holds the lock, so that at most
\* one process has one.
ActiveHoldsLock ==
    \A p \in Procs :
        active[p] # None => status[active[p]] = "open" /\ fslock = active[p]

\* Close released what open() acquired: repo.lock is held only for a process
\* that has the repository open or is opening or closing it, or whose datastore
\* failed to close.
LockReleased ==
    fslock # None => \/ \E p \in Procs : active[p] = fslock \/ subject[p] = fslock
                     \/ status[fslock] = "stuck"

\* No Init is under way.
Quiet == \A p \in Procs : conf[p] = None

\* A repository that IsInitialized reports as initialized, with no Init under
\* way, has the spec and the version file that open() requires.
InitializedOpens == IsInitialized /\ Quiet => spec # None /\ version

\* The lock comes free again: other processes are kept out for ever only when
\* callers of one process overlap without end or the datastore failed to close.
LockComesFree ==
    \/ []<><<\E c \in Callers : OpenShared(c)>>_vars
    \/ \A r \in Repos : fslock = r ~> fslock # r \/ status[r] = "stuck"

-----------------------------------------------------------------------------
(* The process of the FSRepo with repo.lock is RepoGuard's holder, and the *)
(* processes with an entry in OnlyOne are the ones that serve.             *)
Guard == INSTANCE RepoGuard WITH
    Users <- Procs, Nobody <- None,
    holder <- IF fslock = None THEN None ELSE owner[fslock],
    serving <- {p \in Procs : active[p] # None}

\* Init, Open, Close, failures and crashes of all processes together implement
\* the exclusive access of RepoGuard: repo.lock never passes from one process
\* to another directly, OnlyOne never shares a repository its process does not
\* hold, and Close releases the lock only after the entry is gone.
GuardedAccess == Guard!GuardSpec

\* The datastore is open, and a repository shared between callers, only under
\* repo.lock, and the count of references keeps its width (open, Close, OnlyOne).
LockDiscipline == TypeOK /\ StoreUnderLock /\ ActiveHoldsLock
=============================================================================
