---------------------------- MODULE CommandLine -----------------------------
(***************************************************************************)
(* Where an `ipfs` command runs.  cmd/ipfs/main.go chooses an executor for *)
(* the command: this process, or a client of a daemon's HTTP API that may  *)
(* fall back on this process.  The choice reads the api file, which another *)
(* process writes and removes; by the time the client dials, the daemon    *)
(* may have come, gone or died (core/corehttp/commands.go serves it,       *)
(* commands/context.go builds the node of a local command).                *)
(* `ipfs init` (cmd/ipfs/init.go) runs before there is a lock to take.     *)
(*                                                                         *)
(* The HTTP client (go-ipfs-cmds, external) uses its fallback when the     *)
(* connection is refused, whatever command it carries.                     *)
(***************************************************************************)
EXTENDS Integers, FiniteSets

CONSTANTS
    ClProcs,      \* processes
    MaxRuns       \* commands run (a bound)

ASSUME CommandLineAssumption == IsFiniteSet(ClProcs) /\ "none" \notin ClProcs /\ MaxRuns \in Nat

VARIABLES
    clCmd,       \* the command of a process
    clLock,      \* the process that holds repo.lock
    clFile,      \* the daemon the api file names
    clIdentity,  \* the identity of the repository, 0 before init
    clRuns,      \* commands begun so far
    clTwoInits   \* two inits have been under way at once

clVars == <<clCmd, clLock, clFile, clIdentity, clRuns, clTwoInits>>

\* daemonCmd is NoRemote; initCmd is NoRemote and uses no repository; ActiveReqs
\* is NoLocal, keyRotateCmd NoRemote, versionCmd uses no repository; most others
\* run on both sides.
Kinds == {"daemon", "init", "noLocal", "noRemote", "noRepo", "either"}
NoLocal(kind)  == kind = "noLocal"
NoRemote(kind) == kind \in {"daemon", "init", "noRemote"}
DoesNotUseRepo(kind) == kind \in {"init", "noRepo"}

NoProc == "none"
ClIdle == [kind |-> "either", api |-> FALSE, pc |-> "idle", to |-> NoProc, fallback |-> FALSE]

ClCommand ==
    [kind : Kinds, api : BOOLEAN, fallback : BOOLEAN, to : ClProcs \cup {NoProc},
     pc : {"idle", "choose", "local", "dial", "remote", "node", "plain", "serving",
           "initCheck", "initWrite", "initAssets"}]

ClTypeOK ==
    /\ clCmd \in [ClProcs -> ClCommand]
    /\ clLock \in ClProcs \cup {NoProc} /\ clFile \in ClProcs \cup {NoProc}
    /\ clIdentity \in 0..MaxRuns /\ clRuns \in 0..MaxRuns /\ clTwoInits \in BOOLEAN

ClInit ==
    /\ clCmd = [p \in ClProcs |-> ClIdle]
    /\ clLock = NoProc /\ clFile = NoProc
    /\ clIdentity = 0 /\ clRuns = 0 /\ clTwoInits = FALSE

ClGoto(p, pc) == clCmd' = [clCmd EXCEPT ![p].pc = pc]
ClEnd(p) == clCmd' = [clCmd EXCEPT ![p] = ClIdle]

\* mainRet: the command line is parsed and the environment built.
ClBegin(p, kind, api) ==
    /\ clCmd[p] = ClIdle /\ clRuns < MaxRuns
    /\ clRuns' = clRuns + 1
    /\ clCmd' = [clCmd EXCEPT ![p] = [ClIdle EXCEPT !.kind = kind, !.api = api, !.pc = "choose"]]
    /\ UNCHANGED <<clLock, clFile, clIdentity, clTwoInits>>

\* The --api option names some daemon, any of this host or none that listens;
\* APIAddr is what the api file says.
ApiAddr(p) == IF clCmd[p].api THEN ClProcs \cup {NoProc} ELSE {clFile}

\* Mutant: a client that was told --api falls back on this process too.
MakeExecutor_Fallback(p, addr) ==
    /\ clCmd[p].pc = "choose" /\ addr \in ApiAddr(p)
    /\ LET k == clCmd[p].kind
       IN clCmd' = [clCmd EXCEPT ![p] =
             IF DoesNotUseRepo(k) \/ NoRemote(k) THEN [@ EXCEPT !.pc = "local"]
             ELSE IF addr = NoProc /\ ~@.api THEN (IF NoLocal(k) THEN ClIdle ELSE [@ EXCEPT !.pc = "local"])
             ELSE [@ EXCEPT !.pc = "dial", !.to = addr, !.fallback = clIdentity # 0]]
    /\ UNCHANGED <<clLock, clFile, clIdentity, clRuns, clTwoInits>>

\* makeExecutor: a command that needs no repository runs here; so does one
\* that cannot run remotely, unless --api demands a daemon, which is an error
\* (and ignored by the daemon command itself).  Others become an HTTP client
\* of the API named by --api or the api file, with this process as a fallback
\* when there is a repository and no --api, or run here when there is none.
MakeExecutor(p, addr) ==
    /\ clCmd[p].pc = "choose" /\ addr \in ApiAddr(p)
    /\ LET k == clCmd[p].kind
           daemonRequested == clCmd[p].api /\ k # "daemon"
       IN clCmd' = [clCmd EXCEPT ![p] =
             IF ~NoLocal(k) /\ DoesNotUseRepo(k) THEN [@ EXCEPT !.pc = "local"]
             ELSE IF NoRemote(k) THEN (IF daemonRequested THEN ClIdle ELSE [@ EXCEPT !.pc = "local"])
             ELSE IF addr = NoProc /\ ~@.api THEN (IF NoLocal(k) THEN ClIdle ELSE [@ EXCEPT !.pc = "local"])
             ELSE [@ EXCEPT !.pc = "dial", !.to = addr,
                            !.fallback = ~daemonRequested /\ clIdentity # 0]]
    /\ UNCHANGED <<clLock, clFile, clIdentity, clRuns, clTwoInits>>

\* The client reaches the daemon, which answers a client of another version
\* with an error (CheckVersionOption), or finds nobody there.
ClDial(p, sameVersion) ==
    /\ clCmd[p].pc = "dial"
    /\ clCmd' = [clCmd EXCEPT ![p] =
          IF @.to # NoProc /\ clCmd[@.to].pc = "serving"
          THEN (IF sameVersion THEN [@ EXCEPT !.pc = "remote"] ELSE ClIdle)
          ELSE IF @.fallback THEN [@ EXCEPT !.pc = "local"] ELSE ClIdle]
    /\ UNCHANGED <<clLock, clFile, clIdentity, clRuns, clTwoInits>>

\* The answer, or the end of the daemon.
ClAnswered(p) ==
    /\ clCmd[p].pc = "remote"
    /\ ClEnd(p)
    /\ UNCHANGED <<clLock, clFile, clIdentity, clRuns, clTwoInits>>

\* The command runs in this process.  GetNode opens the repository, which must
\* exist and be free; a command without repository does not.
ClLocal(p) ==
    /\ clCmd[p].pc = "local" /\ clCmd[p].kind # "init"
    /\ IF clCmd[p].kind = "noRepo" THEN ClGoto(p, "plain") /\ UNCHANGED clLock
       ELSE IF clIdentity = 0 \/ clLock # NoProc THEN ClEnd(p) /\ UNCHANGED clLock
       ELSE ClGoto(p, "node") /\ clLock' = p
    /\ UNCHANGED <<clFile, clIdentity, clRuns, clTwoInits>>

\* serveHTTPApi: the daemon listens and writes the api file.
ClServe(p) ==
    /\ clCmd[p].kind = "daemon" /\ clCmd[p].pc = "node"
    /\ ClGoto(p, "serving") /\ clFile' = p
    /\ UNCHANGED <<clLock, clIdentity, clRuns, clTwoInits>>

\* Mutant: a command without repository tidies up the same way.
ClClose_Always(p) ==
    /\ clCmd[p].pc \in {"node", "plain", "serving"}
    /\ ClEnd(p)
    /\ clLock' = NoProc /\ clFile' = NoProc
    /\ UNCHANGED <<clIdentity, clRuns, clTwoInits>>

\* Context.Close: the node and with it the repository close, which removes the
\* api file and frees the lock.
ClClose(p) ==
    /\ clCmd[p].pc \in {"node", "plain", "serving"}
    /\ ClEnd(p)
    /\ IF clLock = p THEN clLock' = NoProc /\ clFile' = NoProc ELSE UNCHANGED <<clLock, clFile>>
    /\ UNCHANGED <<clIdentity, clRuns, clTwoInits>>

\* initCmd: it only asks whether the repository is locked (DaemonNotRunning)
\* and makes an identity or reads a configuration.
InitCmd(p) ==
    /\ clCmd[p].pc = "local" /\ clCmd[p].kind = "init"
    /\ IF clLock = NoProc THEN ClGoto(p, "initCheck") ELSE ClEnd(p)
    /\ UNCHANGED <<clLock, clFile, clIdentity, clRuns, clTwoInits>>

Initializing(p) == clCmd[p].pc \in {"initCheck", "initWrite"}

\* Mutant: a repository that exists is initialized again.
DoInit_Again(p) ==
    /\ clCmd[p].pc = "initCheck" /\ ClGoto(p, "initWrite")
    /\ clTwoInits' = (clTwoInits \/ \E q \in ClProcs \ {p} : Initializing(q))
    /\ UNCHANGED <<clLock, clFile, clIdentity, clRuns>>

\* doInit and fsrepo.Init: refused (errRepoExists) when there is a repository.
DoInit(p) ==
    /\ clCmd[p].pc = "initCheck"
    /\ IF clIdentity # 0 THEN ClEnd(p) ELSE ClGoto(p, "initWrite")
    /\ clTwoInits' = (clTwoInits \/ \E q \in ClProcs \ {p} : Initializing(q))
    /\ UNCHANGED <<clLock, clFile, clIdentity, clRuns>>

\* initConfig writes the configuration with the identity this init has made.
InitWrite(p) ==
    /\ clCmd[p].pc = "initWrite"
    /\ clIdentity' = clIdentity + 1
    /\ ClGoto(p, "initAssets")
    /\ UNCHANGED <<clLock, clFile, clRuns, clTwoInits>>

\* addDefaultAssets and initializeIpnsKeyspace, each with a node of its own:
\* they fail when the repository is locked.  The init ends in both cases.
InitAssets(p) ==
    /\ clCmd[p].pc = "initAssets"
    /\ IF clLock = NoProc THEN ClGoto(p, "node") /\ clLock' = p ELSE ClEnd(p) /\ UNCHANGED clLock
    /\ UNCHANGED <<clFile, clIdentity, clRuns, clTwoInits>>

\* The process dies: its lock goes, the api file stays.
ClCrash(p) ==
    /\ clCmd[p].pc # "idle"
    /\ ClEnd(p)
    /\ clLock' = IF clLock = p THEN NoProc ELSE clLock
    /\ UNCHANGED <<clFile, clIdentity, clRuns, clTwoInits>>

ClNext == \E p \in ClProcs :
    \/ \E kind \in Kinds, api \in BOOLEAN : ClBegin(p, kind, api)
    \/ \E addr \in ClProcs \cup {NoProc} : MakeExecutor(p, addr)
    \/ \E same \in BOOLEAN : ClDial(p, same)
    \/ ClAnswered(p) \/ ClLocal(p) \/ ClServe(p) \/ ClClose(p)
    \/ InitCmd(p) \/ DoInit(p) \/ InitWrite(p) \/ InitAssets(p) \/ ClCrash(p)

-----------------------------------------------------------------------------
(* Properties.                                                             *)

\* A command that was given --api never works on the repository of this
\* process, whether or not the daemon answers (makeExecutor's
\* daemonRequested; init and daemon themselves excepted).
ClApiMeansDaemon ==
    \A p \in ClProcs :
        clCmd[p].api /\ clCmd[p].pc = "node" => clCmd[p].kind \in {"daemon", "init"}

\* init never replaces the identity of a repository that exists
\* (errRepoExists), unless two inits overlap: no lock is taken before the
\* configuration is written.
ClIdentityKept ==
    [][clIdentity # 0 /\ clIdentity' # clIdentity => clTwoInits']_clVars

\* While a daemon serves, no other process has a node on the repository, and
\* the api file names that daemon (Close removes it before the lock is freed,
\* and a stale one is replaced).
ClDaemonAlone ==
    \A p \in ClProcs : clCmd[p].pc = "serving" =>
        clFile = p /\ \A q \in ClProcs \ {p} : clCmd[q].pc \notin {"node", "serving"}

\* Who works on the repository: a daemon alone, and never a command that was
\* sent to a daemon (makeExecutor, Close).
ClSound == ClTypeOK /\ ClApiMeansDaemon /\ ClDaemonAlone
=============================================================================
