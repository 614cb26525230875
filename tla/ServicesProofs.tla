--------------------------- MODULE ServicesProofs ---------------------------
(***************************************************************************)
(* Proofs about the services of a daemon: the daemon's life with its       *)
(* plugins, the bootstrap supervisor and the remote pinning of the MFS     *)
(* root, for any number of plugins, bootstrap peers, pinning services and  *)
(* faults, and for the suite they form with the forwarded streams.         *)
(***************************************************************************)
EXTENDS MCServices, P2PStreamsProofs

-----------------------------------------------------------------------------
(* The daemon and its plugins.                                             *)

\* A plugin that was closed was closed by a loader that is through: Close
\* does nothing in these states, so nothing is closed twice.
ClosedOnce ==
    plState \notin {"Closed", "Failed"} => \A p \in DaemonPlugins : plCloses[p] = 0

\* Up to Plugins.Start there is no node that anybody could stop, and the
\* repository is opened before the node is built.
EarlyInv ==
    /\ dmPc \in {"open", "migrate", "config", "node", "bootstrap", "plugins"} => plState = "Injected"
    /\ dmPc = "idle" => plState # "Started"
    /\ dmPc \in {"idle", "open", "migrate", "config", "node"} => dmNode = "none"
    /\ dmPc \in {"idle", "open", "migrate"} => dmRepo = "none"
    /\ dmPc \in {"config", "node"} => dmRepo = "open"
    /\ dmReady => dmPc \notin {"idle", "open", "migrate", "config", "node", "bootstrap", "plugins",
                                "api", "mount", "gc", "keep", "gateway"}

\* Once the node is built its Close is deferred, and what a deferred call has
\* taken down stays down.
LateInv ==
    /\ dmPc \in {"bootstrap", "plugins", "api", "mount", "gc", "keep", "gateway", "merge", "closeNode"}
         => dmNode \in {"up", "stopping", "stopped"}
    /\ dmPc \in {"closeRepo", "cleanup", "exited"} => dmNode \in {"none", "stopped"}
    /\ dmPc \in {"cleanup", "exited"} => dmRepo # "open"
    /\ dmPc = "exited" => ~dmDir /\ dmFetcher # "open"

\* A node that is not running has no plugins: whoever closes the process
\* closes them, and Start on a closed process leaves none.
PluginsInv ==
    /\ dmNode = "stopped" => dmProc = "closed"
    /\ dmProc = "closed" => plRunning = {}
    /\ dmNode = "none" => plRunning = {}

DaemonInv ==
    /\ PlTypeOK /\ DmTypeOK /\ ClosedOnce /\ PlHeldWhileRunning
    /\ EarlyInv /\ LateInv /\ PluginsInv /\ DmWaitsForAll

\* The loader's part of an action that leaves the loader alone.
LEMMA LoaderKept ==
    ASSUME PlTypeOK, ClosedOnce, PlHeldWhileRunning, UNCHANGED plVars
    PROVE  PlTypeOK' /\ ClosedOnce' /\ PlHeldWhileRunning'
BY DEF PlTypeOK, ClosedOnce, PlHeldWhileRunning, plVars

\* Before the daemon command runs: the plugins are loaded and injected.
LEMMA DaemonStarts ==
    ASSUME DaemonInv,
           \/ \E d \in SUBSET Plugins : LoadPlugins(d)
           \/ \E ok \in BOOLEAN : InitPlugins(ok) \/ InjectPlugins(ok)
           \/ \E v \in {"absent", "old", "current"}, on \in BOOLEAN : DmBegin(v, on)
    PROVE  DaemonInv'
<1> USE DEF DaemonInv
<1>1. ASSUME NEW d \in SUBSET Plugins, LoadPlugins(d) PROVE DaemonInv'
  <2>1. PlTypeOK' /\ ClosedOnce' /\ PlHeldWhileRunning'
    BY <1>1 DEF LoadPlugins, NewPluginLoader, PlTypeOK, ClosedOnce, PlHeldWhileRunning
  <2> QED BY <1>1, <2>1 DEF LoadPlugins, NewPluginLoader, DmTypeOK, EarlyInv, LateInv, PluginsInv,
             DmWaitsForAll, dmRepoVars, dmNodeVars, dmWorkVars
<1>2. ASSUME NEW ok \in BOOLEAN, InitPlugins(ok) \/ InjectPlugins(ok) PROVE DaemonInv'
  <2>1. PlTypeOK' /\ ClosedOnce' /\ PlHeldWhileRunning'
    BY <1>2 DEF InitPlugins, InjectPlugins, Initialize, Inject, PlTypeOK, ClosedOnce,
                PlHeldWhileRunning, LoaderStates
  <2> QED BY <1>2, <2>1 DEF InitPlugins, InjectPlugins, Initialize, Inject, DmTypeOK, EarlyInv, LateInv,
             PluginsInv, DmWaitsForAll, dmRepoVars, dmNodeVars, dmWorkVars
<1>3. ASSUME NEW v \in {"absent", "old", "current"}, NEW on \in BOOLEAN, DmBegin(v, on)
      PROVE  DaemonInv'
  <2>1. PlTypeOK' /\ ClosedOnce' /\ PlHeldWhileRunning'
    BY <1>3, LoaderKept DEF DmBegin
  <2> QED BY <1>3, <2>1 DEF DmBegin, Goto, DmTypeOK, EarlyInv, LateInv, PluginsInv, DmWaitsForAll,
             dmNodeVars, dmWorkVars, plVars
<1> QED BY <1>1, <1>2, <1>3

\* daemonFunc up to the node, which no other goroutine of the daemon can
\* disturb.
LEMMA DaemonOpens ==
    ASSUME DaemonInv,
           \/ \E ok \in BOOLEAN : DmDoInit(ok) \/ DmOpenRepo(ok) \/ DmMigrate(ok)
           \/ \E b, k \in BOOLEAN : DmNeedMigration(b, k)
           \/ \E o \in {"auto", "dht", "none", "custom", "supernode", "unknown"} : DmRouting(o)
           \/ \E o \in {"ok", "error", "bootstrap"} : NewNode(o)
    PROVE  DaemonInv'
<1> USE DEF DaemonInv
<1>1. ASSUME NEW ok \in BOOLEAN, DmDoInit(ok) \/ DmOpenRepo(ok) \/ DmMigrate(ok)
      PROVE  DaemonInv'
  <2>1. PlTypeOK' /\ ClosedOnce' /\ PlHeldWhileRunning'
    BY <1>1, LoaderKept DEF DmDoInit, DmOpenRepo, DmMigrate
  <2> QED BY <1>1, <2>1 DEF Return, DmDoInit, DmOpenRepo, DmMigrate, Goto, DmTypeOK, EarlyInv,
             LateInv, PluginsInv, DmWaitsForAll, dmNodeVars, dmWorkVars, plVars
<1>2. ASSUME NEW b \in BOOLEAN, NEW k \in BOOLEAN, DmNeedMigration(b, k) PROVE DaemonInv'
  <2>1. PlTypeOK' /\ ClosedOnce' /\ PlHeldWhileRunning'
    BY <1>2, LoaderKept DEF DmNeedMigration
  <2> QED BY <1>2, <2>1 DEF Return, DmNeedMigration, Goto, DmTypeOK, EarlyInv, LateInv,
             PluginsInv, DmWaitsForAll, dmNodeVars, dmWorkVars, plVars
<1>3. ASSUME NEW o, DmRouting(o) PROVE DaemonInv'
  <2>1. PlTypeOK' /\ ClosedOnce' /\ PlHeldWhileRunning'
    BY <1>3, LoaderKept DEF DmRouting
  <2> QED BY <1>3, <2>1 DEF Return, DmRouting, Goto, DmTypeOK, EarlyInv, LateInv, PluginsInv,
             DmWaitsForAll, dmRepoVars, dmNodeVars, dmWorkVars, plVars
<1>4. ASSUME NEW o \in {"ok", "error", "bootstrap"}, NewNode(o) PROVE DaemonInv'
  <2>1. PlTypeOK' /\ ClosedOnce' /\ PlHeldWhileRunning'
    BY <1>4, LoaderKept DEF NewNode
  <2>2. plRunning = {} /\ plRunning' = plRunning
    BY <1>4 DEF NewNode, EarlyInv, PlHeldWhileRunning, plVars
  <2> QED BY <1>4, <2>1, <2>2 DEF Return, NewNode, Goto, DmTypeOK, EarlyInv, LateInv, PluginsInv,
             DmWaitsForAll, dmRepoVars, dmNodeVars, dmWorkVars, plVars
<1> QED BY <1>1, <1>2, <1>3, <1>4

\* PlClose, whatever the loader's state: nothing is closed twice and nothing
\* runs afterwards.
LEMMA PlCloseEnds ==
    ASSUME PlTypeOK, ClosedOnce, PlHeldWhileRunning, NEW ok \in BOOLEAN, PlClose(ok)
    PROVE  PlTypeOK' /\ ClosedOnce' /\ PlHeldWhileRunning' /\ plRunning' = {}
<1>1. CASE plState \in {"Failed", "Closed"}
  BY <1>1 DEF PlClose, PlTypeOK, ClosedOnce, PlHeldWhileRunning
<1>2. CASE plState \notin {"Failed", "Closed"}
  BY <1>2 DEF PlClose, CloseStarted, PlTypeOK, ClosedOnce, PlHeldWhileRunning, LoaderStates
<1> QED BY <1>1, <1>2

\* The goroutine that stops the node, and the second half of Close.
LEMMA DaemonStops ==
    ASSUME DaemonInv, DmStopStep
    PROVE  DaemonInv'
<1> USE DEF DaemonInv
<1>1. CASE NodeStop \/ StopRepo \/ NodeStopped
  <2>1. PlTypeOK' /\ ClosedOnce' /\ PlHeldWhileRunning'
    BY <1>1, LoaderKept DEF NodeStop, StopRepo, NodeStopped
  <2> QED BY <1>1, <2>1 DEF NodeStop, StopRepo, NodeStopped, DmTypeOK, EarlyInv, LateInv, PluginsInv,
             DmWaitsForAll, dmRepoVars, dmNodeVars, dmWorkVars, plVars
<1>2. ASSUME NEW ok \in BOOLEAN, StopProcess(ok) PROVE DaemonInv'
  <2>1. CASE dmPc \in {"idle", "open", "migrate", "config", "node", "bootstrap", "plugins"}
    <3>1. PlTypeOK' /\ ClosedOnce' /\ PlHeldWhileRunning'
      BY <1>2, <2>1, LoaderKept DEF StopProcess
    <3>2. plRunning' = {}
      BY <1>2, <2>1 DEF StopProcess, EarlyInv, PlHeldWhileRunning, plVars
    <3>3. plState' = plState
      BY <1>2, <2>1 DEF StopProcess, plVars
    <3> QED BY <1>2, <3>1, <3>2, <3>3 DEF StopProcess, DmTypeOK, EarlyInv, LateInv, PluginsInv,
               DmWaitsForAll, dmRepoVars, dmWorkVars
  <2>2. CASE dmPc \notin {"idle", "open", "migrate", "config", "node", "bootstrap", "plugins"}
    <3>1. PlTypeOK' /\ ClosedOnce' /\ PlHeldWhileRunning' /\ plRunning' = {}
      BY <1>2, <2>2, PlCloseEnds DEF StopProcess
    <3> QED BY <1>2, <2>2, <3>1 DEF StopProcess, DmTypeOK, EarlyInv, LateInv, PluginsInv,
               DmWaitsForAll, dmRepoVars, dmWorkVars
  <2> QED BY <2>1, <2>2
<1> QED BY <1>1, <1>2 DEF DmStopStep

\* Plugins.Start: all plugins run, or none does.  On a process that is closed
\* by then, the teardown has run.
LEMMA DaemonStartsPlugins ==
    ASSUME DaemonInv,
           \/ \E done \in SUBSET DaemonPlugins, ok \in BOOLEAN : StartPlugins(done, ok)
           \/ StartPluginsNoAPI
    PROVE  DaemonInv'
<1> USE DEF DaemonInv
<1>1. ASSUME NEW done \in SUBSET DaemonPlugins, NEW ok \in BOOLEAN, StartPlugins(done, ok)
      PROVE  DaemonInv'
  <2>1. /\ plState = "Injected" /\ plStarted = {} /\ plRunning = {}
        /\ \A p \in DaemonPlugins : plCloses[p] = 0
        /\ dmNode \in {"up", "stopping", "stopped"}
    BY <1>1 DEF StartPlugins, EarlyInv, LateInv, PlHeldWhileRunning, ClosedOnce
  <2>2. PlTypeOK' /\ ClosedOnce' /\ PlHeldWhileRunning'
    BY <1>1, <2>1 DEF StartPlugins, PlStart, PlTypeOK, ClosedOnce, PlHeldWhileRunning, LoaderStates
  <2>3. dmProc = "closed" => plRunning' = {}
    BY <1>1, <2>1 DEF StartPlugins, PlStart
  <2> QED BY <1>1, <2>1, <2>2, <2>3 DEF StartPlugins, Return, Goto, DmTypeOK, EarlyInv, LateInv,
             PluginsInv, DmWaitsForAll, dmRepoVars, dmNodeVars, dmWorkVars
<1>2. CASE StartPluginsNoAPI
  <2>1. PlTypeOK' /\ ClosedOnce' /\ PlHeldWhileRunning'
    BY <1>2 DEF StartPluginsNoAPI, PlStartNoAPI, PlTypeOK, ClosedOnce, PlHeldWhileRunning, LoaderStates
  <2> QED BY <1>2, <2>1 DEF StartPluginsNoAPI, PlStartNoAPI, Return, Goto, DmTypeOK, EarlyInv, LateInv,
             PluginsInv, DmWaitsForAll, dmRepoVars, dmNodeVars, dmWorkVars
<1> QED BY <1>1, <1>2

\* daemonFunc from the API server to the ready message.
LEMMA DaemonServes ==
    ASSUME DaemonInv,
           \/ \E ok \in BOOLEAN : ServeHTTPApi(ok)
           \/ \E m, ok \in BOOLEAN : MountFuse(m, ok)
           \/ \E e \in BOOLEAN : MaybeRunGC(e)
           \/ KeepMigrations
           \/ \E o \in {"ok", "none", "error"} : ServeHTTPGateway(o)
    PROVE  DaemonInv'
<1> USE DEF DaemonInv
<1>0. UNCHANGED plVars
  BY DEF ServeHTTPApi, MountFuse, MaybeRunGC, KeepMigrations, ServeHTTPGateway
<1>1. PlTypeOK' /\ ClosedOnce' /\ PlHeldWhileRunning'
  BY <1>0, LoaderKept
<1>2. ASSUME NEW ok \in BOOLEAN, ServeHTTPApi(ok) PROVE DaemonInv'
  BY <1>1, <1>2 DEF ServeHTTPApi, Return, Goto, DmTypeOK, EarlyInv, LateInv, PluginsInv, DmWaitsForAll,
     dmRepoVars, dmNodeVars, plVars
<1>3. ASSUME NEW m \in BOOLEAN, NEW ok \in BOOLEAN, MountFuse(m, ok) PROVE DaemonInv'
  BY <1>1, <1>3 DEF MountFuse, Return, Goto, DmTypeOK, EarlyInv, LateInv, PluginsInv, DmWaitsForAll,
     dmRepoVars, dmNodeVars, dmWorkVars, plVars
<1>4. ASSUME NEW e \in BOOLEAN, MaybeRunGC(e) PROVE DaemonInv'
  BY <1>1, <1>4 DEF MaybeRunGC, Goto, DmTypeOK, EarlyInv, LateInv, PluginsInv, DmWaitsForAll,
     dmRepoVars, dmNodeVars, plVars
<1>5. CASE KeepMigrations
  <2>1. dmDir' \in BOOLEAN
    BY <1>5, Zenon DEF KeepMigrations
  <2>2. DmTypeOK'
    BY <1>5, <2>1 DEF KeepMigrations, Goto, DmTypeOK, dmNodeVars, dmWorkVars
  <2> QED BY <1>1, <1>5, <2>2 DEF KeepMigrations, Goto, EarlyInv, LateInv, PluginsInv, DmWaitsForAll,
     DmTypeOK, dmNodeVars, dmWorkVars, plVars
<1>6. ASSUME NEW o \in {"ok", "none", "error"}, ServeHTTPGateway(o) PROVE DaemonInv'
  <2>1. dmReady' \in BOOLEAN
    <3>1. dmReady' = (o # "error")
      BY <1>6, Zenon DEF ServeHTTPGateway
    <3> QED BY <3>1, Zenon
  <2>2. DmTypeOK'
    <3>1. dmPc' \in {"merge", "closeNode", "closeRepo", "cleanup"}
      BY <1>6 DEF ServeHTTPGateway, Return, Goto
    <3>2. dmServer' \in [Servers -> {"off", "new", "checked", "serving", "draining", "ended", "reported"}]
      BY <1>6 DEF ServeHTTPGateway, DmTypeOK
    <3>3. UNCHANGED <<dmRepoVars, dmOnline, dmNodeVars, dmGC, dmSig>>
      BY <1>6 DEF ServeHTTPGateway
    <3> QED BY <2>1, <3>1, <3>2, <3>3 DEF DmTypeOK, dmRepoVars, dmNodeVars
  <2>3. dmReady' => dmPc' = "merge"
    <3>1. dmReady' = (o # "error")
      BY <1>6, Zenon DEF ServeHTTPGateway
    <3>2. o # "error" => dmPc' = "merge"
      BY <1>6 DEF ServeHTTPGateway, Goto
    <3> QED BY <3>1, <3>2
  <2> QED BY <1>1, <1>6, <2>2, <2>3 DEF ServeHTTPGateway, Return, Goto, DmTypeOK, EarlyInv, LateInv,
     PluginsInv, DmWaitsForAll, dmRepoVars, dmNodeVars, plVars
<1> QED BY <1>2, <1>3, <1>4, <1>5, <1>6

\* A server or the collector that has reported or was never started takes no
\* step, so merge does not miss one.
LEMMA DaemonWorks ==
    ASSUME DaemonInv,
           DmServerStep \/ GCEnds \/ (\E s \in Servers : ServeFails(s)) \/ MergeReceive \/ MergeDone
    PROVE  DaemonInv'
<1> USE DEF DaemonInv
<1>0. UNCHANGED plVars
  BY DEF DmServerStep, ServeCheck, Serve, ServeShutdown, ServeDrained, ServeFails, ServeStep, GCEnds,
         MergeReceive, MergeDone
<1>1. PlTypeOK' /\ ClosedOnce' /\ PlHeldWhileRunning'
  BY <1>0, LoaderKept
<1>2. ASSUME NEW s \in Servers, ServeCheck(s) \/ Serve(s) \/ ServeShutdown(s) \/ ServeDrained(s) \/ ServeFails(s)
      PROVE DaemonInv'
  BY <1>1, <1>2 DEF ServeCheck, Serve, ServeShutdown, ServeDrained, ServeFails, ServeStep, DmTypeOK,
     EarlyInv, LateInv, PluginsInv, DmWaitsForAll, dmRepoVars, dmNodeVars, plVars
<1>3. CASE GCEnds \/ MergeReceive
  BY <1>1, <1>3 DEF GCEnds, MergeReceive, DmTypeOK, EarlyInv, LateInv, PluginsInv, DmWaitsForAll,
     dmRepoVars, dmNodeVars, plVars
<1>4. CASE MergeDone
  BY <1>1, <1>4 DEF MergeDone, Merged, Return, Goto, DmTypeOK, EarlyInv, LateInv, PluginsInv,
     DmWaitsForAll, dmRepoVars, dmNodeVars, dmWorkVars, plVars
<1> QED BY <1>2, <1>3, <1>4 DEF DmServerStep

\* The deferred calls, a signal and the check for peers.
LEMMA DaemonEnds ==
    ASSUME DaemonInv, CloseNode \/ CloseRepo \/ Cleanup \/ Interrupt \/ WarnNoPeers
    PROVE  DaemonInv'
<1> USE DEF DaemonInv
<1>0. UNCHANGED plVars
  BY DEF CloseNode, CloseRepo, Cleanup, Interrupt, WarnNoPeers
<1>1. PlTypeOK' /\ ClosedOnce' /\ PlHeldWhileRunning'
  BY <1>0, LoaderKept
<1>2. CASE CloseNode \/ CloseRepo
  BY <1>1, <1>2 DEF CloseNode, CloseRepo, Goto, DmTypeOK, EarlyInv, LateInv, PluginsInv,
     DmWaitsForAll, dmRepoVars, dmNodeVars, dmWorkVars, plVars
<1>4. CASE Cleanup
  <2>1. dmDir' \in BOOLEAN /\ ~dmDir'
    BY <1>4, Zenon DEF Cleanup
  <2>2. DmTypeOK'
    BY <1>4, <2>1 DEF Cleanup, Goto, DmTypeOK, dmNodeVars, dmWorkVars
  <2> QED BY <1>1, <1>4, <2>1, <2>2 DEF Cleanup, Goto, EarlyInv, LateInv, PluginsInv, DmWaitsForAll,
     DmTypeOK, dmNodeVars, dmWorkVars, plVars
<1>3. CASE Interrupt \/ WarnNoPeers
  BY <1>1, <1>3 DEF Interrupt, WarnNoPeers, Goto, DmTypeOK, EarlyInv, LateInv, PluginsInv,
     DmWaitsForAll, dmRepoVars, dmNodeVars, dmWorkVars, plVars
<1> QED BY <1>2, <1>3, <1>4

LEMMA DaemonInvInit == DmInit => DaemonInv
BY DEF DmInit, PlInit, DaemonInv, PlTypeOK, LoaderStates, DmTypeOK, ClosedOnce, PlHeldWhileRunning,
       EarlyInv, LateInv, PluginsInv, DmWaitsForAll

LEMMA DaemonInvStep ==
    ASSUME DaemonInv, [DmNext]_dmVars
    PROVE  DaemonInv'
<1>1. CASE DmNext
  BY <1>1, DaemonStarts, DaemonOpens, DaemonStops, DaemonStartsPlugins, DaemonServes, DaemonWorks,
     DaemonEnds DEF DmNext, DmMainStep, DmAnswered
<1>2. CASE UNCHANGED dmVars
  <2>1. PlTypeOK' /\ ClosedOnce' /\ PlHeldWhileRunning'
    BY <1>2, LoaderKept DEF DaemonInv, dmVars
  <2> QED BY <1>2, <2>1 DEF dmVars, DaemonInv, DmTypeOK, EarlyInv, LateInv, PluginsInv, DmWaitsForAll,
             dmRepoVars, dmNodeVars, dmWorkVars, plVars
<1> QED BY <1>1, <1>2

LEMMA DaemonInvSays == DaemonInv => PlTypeOK /\ DmTypeOK /\ PlHeldWhileRunning /\ DmNothingLeft /\ DmWaitsForAll
BY DEF DaemonInv, LateInv, PluginsInv, DmNothingLeft

\* A daemon by itself: when daemonFunc returns, wherever it gave up and
\* whatever the other goroutines were doing, nothing it made is left, and a
\* plugin runs only under a loader that will close it, once.
THEOREM DaemonLeavesNothing ==
    DmInit /\ [][DmNext]_dmVars => [](PlTypeOK /\ PlHeldWhileRunning /\ DmNothingLeft /\ DmWaitsForAll)
<1>1. DaemonInv /\ [DmNext]_dmVars => DaemonInv'
  BY DaemonInvStep
<1> QED BY <1>1, DaemonInvInit, DaemonInvSays, PTL

-----------------------------------------------------------------------------
(* The bootstrap supervisor.                                               *)

\* A worker at its receive has ended a round.
BootstrapInv ==
    /\ BsTypeOK /\ BsOneRound
    /\ \A w \in Workers : bsWorker[w] \in {"wait", "done"} => bsRounds

LEMMA BootstrapInvInit == BsInit => BootstrapInv
<1> SUFFICES ASSUME BsInit PROVE BootstrapInv
  OBVIOUS
<1>1. bsRounds \in BOOLEAN
  BY Zenon DEF BsInit
<1>2. \A w \in Workers : bsWorker[w] = "off"
  BY DEF BsInit
<1> QED BY <1>1, <1>2, BootAssumption DEF BsInit, BootstrapInv, BsTypeOK, BsOneRound

LEMMA BootstrapInvStep ==
    ASSUME BootstrapInv, [BsNext]_bsVars
    PROVE  BootstrapInv'
<1> USE BootAssumption DEF BootstrapInv, BsTypeOK, BsOneRound
<1>1. CASE BsStart \/ BsTick \/ \E ok \in BOOLEAN : BsRouting(ok)
  BY <1>1 DEF BsStart, BsTick, BsRouting, Workers
<1>2. ASSUME NEW w \in Workers, BsDone(w) \/ BsRelease(w) PROVE BootstrapInv'
  BY <1>2 DEF BsDone, BsRelease
<1>3. ASSUME NEW w \in Workers, BsPlan(w) PROVE BootstrapInv'
  BY <1>3 DEF BsPlan, EndRound, RandomSubset
<1>4. ASSUME NEW w \in Workers, NEW failed \in SUBSET bsDial[w], BsConnect(w, failed)
      PROVE  BootstrapInv'
  <2>1. Cardinality(failed) \in Nat
    BY FS_Subset, FS_CardinalityType
  <2> QED BY <1>4, <2>1 DEF BsConnect, EndRound
<1>5. ASSUME NEW p \in BootPeers, BsDisconnect(p) PROVE BootstrapInv'
  BY <1>5 DEF BsDisconnect
<1>6. CASE UNCHANGED bsVars
  BY <1>6 DEF bsVars
<1> QED BY <1>1, <1>2, <1>3, <1>4, <1>5, <1>6 DEF BsNext, BsWorkerStep

\* Bootstrap returns only after a round has ended (doneWithRound), for any
\* set of bootstrap peers and any faults.
THEOREM BootstrapAfterRound == BsInit /\ [][BsNext]_bsVars => [](BsTypeOK /\ BsOneRound)
<1>1. BootstrapInv /\ [BsNext]_bsVars => BootstrapInv'
  BY BootstrapInvStep
<1>2. BootstrapInv => BsTypeOK /\ BsOneRound
  BY DEF BootstrapInv
<1> QED BY <1>1, <1>2, BootstrapInvInit, PTL

-----------------------------------------------------------------------------
(* Remote pinning of the MFS root.                                         *)

\* The jobs whose results the current round waits for.
LiveJobs == {j \in rpJobs : ~j.old}

\* A job at its next stage.
JobAt(j, stage1, n) == [j EXCEPT !.stage = stage1, !.at = n]

ServicesOf(xs) == {x.svc : x \in xs}

Result == [svc : Services, valid : {FALSE}]
          \cup [svc : Services, valid : {TRUE}, root : 0..MaxRoot, conf : {"v1", "v2"}]

\* The room in the channel: what is in it and what is free never exceed the
\* number of services, and while the map has not grown there is room for all
\* who will send.
RoomInv ==
    /\ rpCh \subseteq Result /\ IsFiniteSet(rpCh) /\ IsFiniteSet(LiveJobs)
    /\ rpLeft + Cardinality(rpCh) <= Cardinality(Services)
    /\ ~rpGrew => Cardinality(rpTodo) + Cardinality(LiveJobs) <= rpLeft
    /\ rpPc # "range" => rpTodo = {}

\* In a round over a map that has not grown, every service of the map has
\* been received from (done), sits in the channel, has a job, or is still to
\* be reached.
CoverInv ==
    ~rpGrew /\ InRound =>
        \E done \in SUBSET Services :
            /\ Cardinality(done) <= rpGot
            /\ Present \subseteq done \cup rpTodo \cup ServicesOf(LiveJobs) \cup ServicesOf(rpCh)

\* The services received from, in the channel, with a job and still to be
\* reached are disjoint parts of the map, one job or result a service.
Parted(done) ==
    /\ done \subseteq Present /\ Cardinality(done) = rpGot
    /\ rpTodo \subseteq Present
    /\ ServicesOf(rpJobs) \subseteq Present /\ ServicesOf(rpCh) \subseteq Present
    /\ done \cap (rpTodo \cup ServicesOf(rpJobs) \cup ServicesOf(rpCh)) = {}
    /\ rpTodo \cap (ServicesOf(rpJobs) \cup ServicesOf(rpCh)) = {}
    /\ ServicesOf(rpJobs) \cap ServicesOf(rpCh) = {}

\* As long as the map has not shrunk in a round, a round parts it so, and a
\* round that ends leaves no job behind.
OnceInv ==
    ~rpShrank =>
        /\ \A j \in rpJobs : ~j.old
        /\ ~InRound => rpJobs = {}
        /\ \A j, k \in rpJobs : j.svc = k.svc => j = k
        /\ InRound => /\ \A x, y \in rpCh : x.svc = y.svc => x = y
                      /\ \E done \in SUBSET Services : Parted(done)

\* So a job that found no pin is the only one that can add one.
PinInv ==
    /\ RpOnePin
    /\ \A j \in rpJobs : j.stage = "replace" => j.at \in DOMAIN rpRemote[j.svc]
    /\ ~rpShrank => \A j \in rpJobs : j.stage = "add" => rpRemote[j.svc] = <<>>

RemotePinInv == RpTypeOK /\ RoomInv /\ CoverInv /\ OnceInv /\ PinInv

\* A set of services has a size, at most that of all services.
LEMMA ServicesFinite ==
    ASSUME NEW S \in SUBSET Services
    PROVE  IsFiniteSet(S) /\ Cardinality(S) \in Nat /\ Cardinality(S) <= Cardinality(Services)
BY RemotePinAssumption, FS_Subset, FS_CardinalityType

\* What adding an element does to the size of a set.
LEMMA OneMore ==
    ASSUME NEW S, IsFiniteSet(S), NEW x
    PROVE  /\ IsFiniteSet(S \cup {x}) /\ Cardinality(S) \in Nat /\ Cardinality(S \cup {x}) \in Nat
           /\ Cardinality(S \cup {x}) <= Cardinality(S) + 1
           /\ x \notin S => Cardinality(S \cup {x}) = Cardinality(S) + 1
<1>1. Cardinality(S) \in Nat
  BY FS_CardinalityType
<1>2. IsFiniteSet(S \cup {x}) /\ Cardinality(S \cup {x}) = IF x \in S THEN Cardinality(S) ELSE Cardinality(S) + 1
  BY FS_AddElement
<1> QED BY <1>1, <1>2

\* A job that goes to its next stage stays a job of its service and its
\* round, and there are not more jobs than before.
LEMMA JobMoves ==
    ASSUME RpTypeOK, RoomInv, NEW j \in rpJobs, NEW n \in Nat,
           NEW stage1 \in {"ls", "add", "replace", "done", "failed"},
           rpJobs' = Becomes(j, stage1, n)
    PROVE  /\ rpJobs' \subseteq PinJob
           /\ IsFiniteSet(LiveJobs') /\ Cardinality(LiveJobs') <= Cardinality(LiveJobs)
           /\ ServicesOf(LiveJobs') = ServicesOf(LiveJobs)
           /\ ServicesOf(rpJobs') = ServicesOf(rpJobs)
           /\ \A k \in rpJobs' : k \in rpJobs \ {j} \/ k = JobAt(j, stage1, n)
           /\ Cardinality(LiveJobs') \in Nat
<1> DEFINE j2 == JobAt(j, stage1, n)
<1>1. /\ j2 \in PinJob
      /\ j2.svc = j.svc /\ j2.old = j.old
  BY DEF RpTypeOK, PinJob, JobAt
<1> HIDE DEF j2
<1>2. rpJobs' = (rpJobs \ {j}) \cup {j2}
  BY DEF Becomes, JobAt, j2
<1>3. IsFiniteSet(LiveJobs) /\ Cardinality(LiveJobs) \in Nat
  BY FS_CardinalityType DEF RoomInv
<1>4. /\ rpJobs' \subseteq PinJob
      /\ \A k \in rpJobs' : k \in rpJobs \ {j} \/ k = j2
  BY <1>1, <1>2 DEF RpTypeOK
<1>5. ServicesOf(rpJobs') = ServicesOf(rpJobs)
  BY <1>1, <1>2 DEF ServicesOf
<1>6. /\ IsFiniteSet(LiveJobs') /\ Cardinality(LiveJobs') <= Cardinality(LiveJobs)
      /\ ServicesOf(LiveJobs') = ServicesOf(LiveJobs)
  <2>1. CASE j.old
    <3>1. LiveJobs' = LiveJobs
      BY <1>1, <1>2, <2>1 DEF LiveJobs
    <3> QED BY <1>3, <3>1
  <2>2. CASE ~j.old
    <3>1. LiveJobs' = (LiveJobs \ {j}) \cup {j2} /\ j \in LiveJobs
      BY <1>1, <1>2, <2>2 DEF LiveJobs
    <3>2. IsFiniteSet(LiveJobs \ {j}) /\ Cardinality(LiveJobs \ {j}) = Cardinality(LiveJobs) - 1
      BY <1>3, <3>1, FS_RemoveElement
    <3>3. IsFiniteSet(LiveJobs') /\ Cardinality(LiveJobs') <= Cardinality(LiveJobs)
      <4> DEFINE rest == LiveJobs \ {j}
      <4>1. IsFiniteSet(rest) /\ LiveJobs' = rest \cup {j2} /\ Cardinality(rest) = Cardinality(LiveJobs) - 1
        BY <3>1, <3>2
      <4> HIDE DEF rest
      <4>2. IsFiniteSet(rest \cup {j2}) /\ Cardinality(rest \cup {j2}) <= Cardinality(rest) + 1
            /\ Cardinality(rest \cup {j2}) \in Nat
        BY <4>1, OneMore
      <4> QED BY <1>3, <4>1, <4>2
    <3>4. ServicesOf(LiveJobs') = ServicesOf(LiveJobs)
      BY <1>1, <3>1 DEF ServicesOf
    <3> QED BY <3>3, <3>4
  <2> QED BY <2>1, <2>2
<1>7. Cardinality(LiveJobs') \in Nat
  BY <1>6, FS_CardinalityType
<1> QED BY <1>4, <1>5, <1>6, <1>7 DEF j2

\* A step that touches neither jobs nor channel nor pins, and outside a round.
LEMMA PinQuiet ==
    ASSUME RemotePinInv,
           UNCHANGED <<rpJobs, rpCh, rpTodo, rpLeft, rpGot, rpRemote, rpGrew, rpShrank>>,
           rpPc' = rpPc \/ (~InRound /\ ~InRound'),
           InRound => Present' = Present
    PROVE  RoomInv' /\ CoverInv' /\ OnceInv' /\ PinInv'
<1> USE DEF RemotePinInv
<1>1. InRound' = InRound /\ LiveJobs' = LiveJobs /\ ServicesOf(LiveJobs') = ServicesOf(LiveJobs)
      /\ ServicesOf(rpJobs') = ServicesOf(rpJobs) /\ ServicesOf(rpCh') = ServicesOf(rpCh)
  BY DEF InRound, LiveJobs, ServicesOf
<1>2. RoomInv'
  BY <1>1 DEF RoomInv, InRound
<1>3. CoverInv'
  BY <1>1 DEF CoverInv
<1>4. OnceInv'
  BY <1>1 DEF OnceInv, Parted
<1>5. PinInv'
  BY DEF PinInv, RpOnePin
<1> QED BY <1>2, <1>3, <1>4, <1>5

LEMMA PinQuietSteps ==
    ASSUME RemotePinInv,
           \/ \E conf \in [Services -> {"absent", "v1"}] : StartPinMFS(conf)
           \/ PinStop
           \/ \E r \in 0..MaxRoot : MfsChange(r)
           \/ \E s \in Services : Elapse(s) \/ \E c \in {"off", "v1", "v2"} : SetPolicy(s, c)
    PROVE  RemotePinInv'
<1> USE DEF RemotePinInv
<1>1. RpTypeOK'
  <2> USE DEF RpTypeOK, rpLoopVars, rpPolicyVars, rpMfsVars
  <2>1. ASSUME NEW conf \in [Services -> {"absent", "v1"}], StartPinMFS(conf) PROVE RpTypeOK'
    BY <2>1 DEF StartPinMFS
  <2>2. CASE PinStop
    BY <2>2 DEF PinStop
  <2>3. ASSUME NEW r \in 0..MaxRoot, MfsChange(r) PROVE RpTypeOK'
    BY <2>3 DEF MfsChange
  <2>4. ASSUME NEW s \in Services, Elapse(s) PROVE RpTypeOK'
    BY <2>4 DEF Elapse
  <2>5. ASSUME NEW s \in Services, NEW c \in {"off", "v1", "v2"}, SetPolicy(s, c) PROVE RpTypeOK'
    BY <2>5 DEF SetPolicy
  <2> QED BY <2>1, <2>2, <2>3, <2>4, <2>5
<1>2. UNCHANGED <<rpJobs, rpCh, rpTodo, rpLeft, rpGot, rpRemote, rpGrew, rpShrank>>
  BY DEF StartPinMFS, PinStop, MfsChange, Elapse, SetPolicy, rpLoopVars, rpPolicyVars
<1>3. rpPc' = rpPc \/ (~InRound /\ ~InRound')
  BY DEF StartPinMFS, PinStop, MfsChange, Elapse, SetPolicy, rpLoopVars, InRound
<1>4. InRound => Present' = Present
  BY DEF StartPinMFS, PinStop, MfsChange, Elapse, SetPolicy, rpPolicyVars, InRound, Present
<1> QED BY <1>1, <1>2, <1>3, <1>4, PinQuiet

\* A round begins: the jobs it finds are old, and all services are to do.
LEMMA PinRoundStep ==
    ASSUME RemotePinInv, PinRound
    PROVE  RemotePinInv'
<1> USE DEF RemotePinInv
<1>1. UNCHANGED <<rpConf, rpRoot, rpLast, rpRecent, rpRemote, rpGrew, rpShrank>> /\ rpPc = "sleep"
      /\ rpPc' = "range" /\ rpTodo' = Present /\ rpLeft' = Cardinality(Present) /\ rpCh' = {} /\ rpGot' = 0
  BY DEF PinRound, rpPolicyVars, rpMfsVars
<1>2. Present \in SUBSET Services /\ Present' = Present
  BY <1>1 DEF Present
<1>3. Cardinality(Present) \in 0..Cardinality(Services) /\ Cardinality(Services) \in Nat
  BY <1>2, ServicesFinite
<1>4. ASSUME NEW k \in rpJobs'
      PROVE  /\ k \in PinJob /\ k.old
             /\ \E j \in rpJobs : k.svc = j.svc /\ k.stage = j.stage /\ k.at = j.at
  <2>1. PICK j \in rpJobs : k = [j EXCEPT !.old = TRUE]
    BY DEF PinRound
  <2>2. j \in PinJob
    BY DEF RpTypeOK
  <2>3. k \in PinJob /\ k.old /\ k.svc = j.svc /\ k.stage = j.stage /\ k.at = j.at
    BY <2>1, <2>2 DEF PinJob
  <2> QED BY <2>3
<1>5. RpTypeOK'
  <2>1. rpJobs' \subseteq PinJob
    BY <1>4 DEF RpTypeOK
  <2> QED BY <1>1, <1>2, <1>3, <2>1 DEF RpTypeOK
<1>6. LiveJobs' = {}
  BY <1>4 DEF LiveJobs
<1>7. RoomInv'
  BY <1>1, <1>2, <1>3, <1>6, FS_EmptySet, RemotePinAssumption DEF RoomInv
<1>8. CoverInv'
  <2>1. {} \in SUBSET Services /\ Cardinality({}) <= rpGot'
    BY <1>1, FS_EmptySet
  <2>2. Present' \subseteq {} \cup rpTodo' \cup ServicesOf(LiveJobs)' \cup ServicesOf(rpCh)'
    BY <1>1, <1>2
  <2> QED BY <2>1, <2>2 DEF CoverInv
<1>9. OnceInv'
  <2>1. ~rpShrank => rpJobs' = {}
    BY <1>1, <1>4 DEF OnceInv, InRound
  <2>2. ~rpShrank => ServicesOf(rpJobs)' = {} /\ ServicesOf(rpCh)' = {}
    BY <1>1, <2>1 DEF ServicesOf
  <2>3. ASSUME ~rpShrank PROVE Parted({})'
    BY <1>1, <1>2, <2>2, <2>3, FS_EmptySet DEF Parted
  <2> QED BY <1>1, <2>1, <2>3 DEF OnceInv, InRound
<1>10. PinInv'
  <2>1. RpOnePin'
    BY <1>1 DEF PinInv, RpOnePin
  <2>2. \A k \in rpJobs' : k.stage = "replace" => k.at \in DOMAIN rpRemote'[k.svc]
    BY <1>1, <1>4 DEF PinInv
  <2>3. ~rpShrank' => \A k \in rpJobs' : k.stage = "add" => rpRemote'[k.svc] = <<>>
    BY <1>1, <1>4 DEF PinInv
  <2> QED BY <2>1, <2>2, <2>3 DEF PinInv
<1> QED BY <1>5, <1>7, <1>8, <1>9, <1>10

\* A service is skipped: it leaves the range and its empty result takes the
\* room that was there for it.
LEMMA PinSkipStep ==
    ASSUME RemotePinInv, NEW s \in Services, PinSkip(s)
    PROVE  RemotePinInv'
<1> USE DEF RemotePinInv
<1> DEFINE x == [svc |-> s, valid |-> FALSE]
<1>1. UNCHANGED <<rpConf, rpRoot, rpLast, rpRecent, rpPc, rpGot, rpJobs, rpRemote, rpGrew, rpShrank>>
      /\ rpPc = "range" /\ s \in rpTodo /\ s \in Present /\ rpLeft > 0 /\ rpLeft' = rpLeft - 1
      /\ rpTodo' = rpTodo \ {s} /\ rpCh' = rpCh \cup {x}
  BY DEF PinSkip, rpPolicyVars, rpMfsVars
<1>2. x \in Result /\ x.svc = s
  BY DEF Result
<1> HIDE DEF x
<1>3. Present' = Present /\ LiveJobs' = LiveJobs /\ ServicesOf(rpJobs') = ServicesOf(rpJobs)
      /\ InRound /\ InRound' /\ ServicesOf(rpCh') = ServicesOf(rpCh) \cup {s}
  BY <1>1, <1>2 DEF Present, LiveJobs, ServicesOf, InRound
<1>4. RpTypeOK'
  <2>1. Cardinality(Services) \in Nat
    BY ServicesFinite
  <2> QED BY <1>1, <2>1 DEF RpTypeOK
<1>5. RoomInv'
  <2>1. rpTodo \in SUBSET Services /\ rpLeft \in Nat
    BY DEF RpTypeOK
  <2>2. IsFiniteSet(rpTodo) /\ Cardinality(rpTodo) \in Nat /\ Cardinality(Services) \in Nat
    BY <2>1, ServicesFinite
  <2>3. Cardinality(rpTodo') = Cardinality(rpTodo) - 1
    BY <1>1, <2>2, FS_RemoveElement
  <2>4. IsFiniteSet(rpCh) /\ Cardinality(rpCh) \in Nat /\ IsFiniteSet(LiveJobs) /\ Cardinality(LiveJobs) \in Nat
    BY FS_CardinalityType DEF RoomInv
  <2>5. IsFiniteSet(rpCh') /\ Cardinality(rpCh') \in Nat /\ Cardinality(rpCh') <= Cardinality(rpCh) + 1
    BY <1>1, <2>4, OneMore
  <2> QED BY <1>1, <1>2, <1>3, <2>1, <2>2, <2>3, <2>4, <2>5 DEF RoomInv
<1>6. CoverInv'
  BY <1>1, <1>3 DEF CoverInv
<1>7. OnceInv'
  <2> SUFFICES ASSUME ~rpShrank PROVE OnceInv'
    BY <1>1 DEF OnceInv
  <2>1. PICK done \in SUBSET Services : Parted(done)
    BY <1>3 DEF OnceInv
  <2>2. Parted(done)'
    BY <1>1, <1>3, <2>1 DEF Parted
  <2>3. \A y \in rpCh : y.svc # s
    BY <1>1, <2>1 DEF Parted, ServicesOf
  <2>4. \A y, z \in rpCh' : y.svc = z.svc => y = z
    BY <1>1, <1>2, <1>3, <2>3 DEF OnceInv
  <2> QED BY <1>1, <1>3, <2>2, <2>4 DEF OnceInv
<1>8. PinInv'
  BY <1>1 DEF PinInv, RpOnePin
<1> QED BY <1>4, <1>5, <1>6, <1>7, <1>8

\* A job is started for a service that has none in this round.
LEMMA PinStartStep ==
    ASSUME RemotePinInv, NEW s \in Services, PinStart(s)
    PROVE  RemotePinInv'
<1> USE DEF RemotePinInv
<1> DEFINE j == [svc |-> s, root |-> rpRoot, conf |-> rpConf[s], stage |-> "ls", at |-> 0, old |-> FALSE]
<1>1. UNCHANGED <<rpConf, rpRoot, rpLast, rpRecent, rpPc, rpLeft, rpCh, rpGot, rpRemote, rpGrew, rpShrank>>
      /\ rpPc = "range" /\ s \in rpTodo /\ s \in Present
      /\ rpTodo' = rpTodo \ {s} /\ rpJobs' = rpJobs \cup {j}
  BY DEF PinStart, rpPolicyVars, rpMfsVars
<1>2. j \in PinJob /\ j.svc = s /\ ~j.old /\ j.stage = "ls"
  BY DEF PinJob, RpTypeOK, PinStart, Enabled
<1> HIDE DEF j
<1>3. Present' = Present /\ LiveJobs' = LiveJobs \cup {j} /\ InRound /\ InRound'
      /\ ServicesOf(rpJobs') = ServicesOf(rpJobs) \cup {s} /\ ServicesOf(rpCh') = ServicesOf(rpCh)
      /\ ServicesOf(LiveJobs') = ServicesOf(LiveJobs) \cup {s}
  BY <1>1, <1>2 DEF Present, LiveJobs, ServicesOf, InRound
<1>4. RpTypeOK'
  BY <1>1, <1>2 DEF RpTypeOK
<1>5. RoomInv'
  <2>1. rpTodo \in SUBSET Services /\ rpLeft \in Nat
    BY DEF RpTypeOK
  <2>2. IsFiniteSet(rpTodo) /\ Cardinality(rpTodo) \in Nat /\ Cardinality(Services) \in Nat
    BY <2>1, ServicesFinite
  <2>3. Cardinality(rpTodo') = Cardinality(rpTodo) - 1
    BY <1>1, <2>2, FS_RemoveElement
  <2>4. IsFiniteSet(LiveJobs) /\ Cardinality(LiveJobs) \in Nat
    BY FS_CardinalityType DEF RoomInv
  <2>5. IsFiniteSet(LiveJobs') /\ Cardinality(LiveJobs') \in Nat
        /\ Cardinality(LiveJobs') <= Cardinality(LiveJobs) + 1
    BY <1>3, <2>4, OneMore
  <2> QED BY <1>1, <2>1, <2>2, <2>3, <2>4, <2>5 DEF RoomInv
<1>6. CoverInv'
  BY <1>1, <1>3 DEF CoverInv
<1>7. OnceInv'
  <2> SUFFICES ASSUME ~rpShrank PROVE OnceInv'
    BY <1>1 DEF OnceInv
  <2>1. PICK done \in SUBSET Services : Parted(done)
    BY <1>3 DEF OnceInv
  <2>2. Parted(done)'
    BY <1>1, <1>3, <2>1 DEF Parted
  <2>3. \A k \in rpJobs : k.svc # s
    BY <1>1, <2>1 DEF Parted, ServicesOf
  <2>4. (\A k \in rpJobs' : ~k.old) /\ \A k, l \in rpJobs' : k.svc = l.svc => k = l
    BY <1>1, <1>2, <2>3 DEF OnceInv
  <2> QED BY <1>1, <1>3, <2>2, <2>4 DEF OnceInv
<1>8. PinInv'
  BY <1>1, <1>2 DEF PinInv, RpOnePin
<1> QED BY <1>4, <1>5, <1>6, <1>7, <1>8

LEMMA PinRangeEndStep ==
    ASSUME RemotePinInv, PinRangeEnd
    PROVE  RemotePinInv'
<1> USE DEF RemotePinInv
<1>1. UNCHANGED <<rpConf, rpRoot, rpLast, rpRecent, rpLeft, rpCh, rpGot, rpJobs, rpRemote, rpGrew, rpShrank>>
      /\ rpPc = "range" /\ rpTodo \cap Present = {} /\ rpPc' = "receive" /\ rpTodo' = {}
  BY DEF PinRangeEnd, rpPolicyVars, rpMfsVars
<1>2. Present' = Present /\ LiveJobs' = LiveJobs /\ ServicesOf(rpJobs') = ServicesOf(rpJobs)
      /\ InRound /\ InRound' /\ ServicesOf(rpCh') = ServicesOf(rpCh)
      /\ ServicesOf(LiveJobs') = ServicesOf(LiveJobs)
  BY <1>1 DEF Present, LiveJobs, ServicesOf, InRound
<1>3. RpTypeOK'
  BY <1>1 DEF RpTypeOK
<1>4. RoomInv'
  <2>1. Cardinality(rpTodo) \in Nat /\ Cardinality(rpTodo') = 0 /\ Cardinality(LiveJobs) \in Nat
    BY <1>1, ServicesFinite, FS_EmptySet, FS_CardinalityType DEF RpTypeOK, RoomInv
  <2> QED BY <1>1, <1>2, <2>1 DEF RoomInv, RpTypeOK
<1>5. CoverInv'
  BY <1>1, <1>2 DEF CoverInv
<1>6. OnceInv'
  <2>1. ASSUME NEW done \in SUBSET Services, Parted(done) PROVE Parted(done)'
    BY <1>1, <1>2, <2>1 DEF Parted
  <2> QED BY <1>1, <1>2, <2>1 DEF OnceInv
<1>7. PinInv'
  BY <1>1 DEF PinInv, RpOnePin
<1> QED BY <1>3, <1>4, <1>5, <1>6, <1>7

\* A result is received: its service is done.
LEMMA PinReceiveStep ==
    ASSUME RemotePinInv, NEW x \in rpCh, PinReceive(x)
    PROVE  RemotePinInv'
<1> USE DEF RemotePinInv
<1>1. UNCHANGED <<rpConf, rpRoot, rpPc, rpTodo, rpJobs, rpRemote, rpGrew, rpShrank>>
      /\ rpPc = "receive" /\ rpGot < Cardinality(Present) /\ rpCh' = rpCh \ {x}
      /\ rpGot' = rpGot + 1 /\ rpLeft' = rpLeft + 1
  BY DEF PinReceive, rpPolicyVars, rpMfsVars
<1>2. Present' = Present /\ Present \in SUBSET Services /\ LiveJobs' = LiveJobs
      /\ ServicesOf(rpJobs') = ServicesOf(rpJobs) /\ InRound /\ InRound'
      /\ ServicesOf(LiveJobs') = ServicesOf(LiveJobs)
      /\ ServicesOf(rpCh) \subseteq ServicesOf(rpCh') \cup {x.svc}
      /\ ServicesOf(rpCh') \subseteq ServicesOf(rpCh) /\ x.svc \in ServicesOf(rpCh)
  BY <1>1 DEF Present, LiveJobs, ServicesOf, InRound
<1>3. x \in Result /\ x.svc \in Services
  BY DEF RoomInv, Result
<1>4. /\ rpLeft \in Nat /\ rpGot \in Nat /\ IsFiniteSet(rpCh) /\ Cardinality(rpCh) \in Nat
      /\ Cardinality(Services) \in Nat /\ Cardinality(Present) <= Cardinality(Services)
      /\ Cardinality(rpCh') = Cardinality(rpCh) - 1 /\ IsFiniteSet(rpCh') /\ Cardinality(rpCh') \in Nat
      /\ Cardinality(Present) \in Nat
  BY <1>1, <1>2, ServicesFinite, FS_CardinalityType, FS_RemoveElement DEF RpTypeOK, RoomInv
<1>5. RpTypeOK'
  <2>1. rpLast' \in [Services -> {<<>>} \cup ((0..MaxRoot) \X {"v1", "v2"})] /\ rpRecent' \subseteq Services
    <3>1. CASE x.valid
      <4>1. <<x.root, x.conf>> \in (0..MaxRoot) \X {"v1", "v2"}
        BY <1>3, <3>1 DEF Result
      <4>2. rpLast' = [rpLast EXCEPT ![x.svc] = <<x.root, x.conf>>] /\ rpRecent' = rpRecent \cup {x.svc}
        BY <3>1 DEF PinReceive
      <4> QED BY <1>3, <4>1, <4>2 DEF RpTypeOK
    <3>2. CASE ~x.valid
      BY <3>2 DEF PinReceive, RpTypeOK
    <3> QED BY <3>1, <3>2
  <2>2. rpLeft' \in 0..Cardinality(Services) /\ rpGot' \in 0..Cardinality(Services)
    BY <1>1, <1>4 DEF RoomInv
  <2> QED BY <1>1, <2>1, <2>2 DEF RpTypeOK
<1>6. RoomInv'
  <2>1. /\ rpCh \subseteq Result /\ IsFiniteSet(LiveJobs) /\ rpLeft + Cardinality(rpCh) <= Cardinality(Services)
        /\ ~rpGrew => Cardinality(rpTodo) + Cardinality(LiveJobs) <= rpLeft
        /\ rpPc # "range" => rpTodo = {}
    BY DEF RoomInv
  <2>2. Cardinality(rpTodo) \in Nat /\ Cardinality(LiveJobs) \in Nat
    BY <2>1, ServicesFinite, FS_CardinalityType DEF RpTypeOK
  <2>3. rpLeft' + Cardinality(rpCh') <= Cardinality(Services)
    BY <1>1, <1>4, <2>1
  <2>4. ~rpGrew' => Cardinality(rpTodo') + Cardinality(LiveJobs') <= rpLeft'
    BY <1>1, <1>2, <1>4, <2>1, <2>2
  <2> QED BY <1>1, <1>2, <1>4, <2>1, <2>3, <2>4 DEF RoomInv
<1>7. CoverInv'
  <2> SUFFICES ASSUME ~rpGrew PROVE CoverInv'
    BY <1>1 DEF CoverInv
  <2>1. PICK done \in SUBSET Services :
            /\ Cardinality(done) <= rpGot
            /\ Present \subseteq done \cup rpTodo \cup ServicesOf(LiveJobs) \cup ServicesOf(rpCh)
    BY <1>2 DEF CoverInv
  <2>2. done \cup {x.svc} \in SUBSET Services /\ Cardinality(done \cup {x.svc}) <= rpGot'
    <3>1. IsFiniteSet(done)
      BY ServicesFinite
    <3>2. Cardinality(done) \in Nat /\ Cardinality(done \cup {x.svc}) \in Nat
          /\ Cardinality(done \cup {x.svc}) <= Cardinality(done) + 1
      BY <3>1, OneMore
    <3> QED BY <1>1, <1>3, <1>4, <2>1, <3>2
  <2>3. Present' \subseteq (done \cup {x.svc}) \cup rpTodo' \cup ServicesOf(LiveJobs)' \cup ServicesOf(rpCh)'
    BY <1>1, <1>2, <2>1
  <2> QED BY <2>2, <2>3 DEF CoverInv
<1>8. OnceInv'
  <2> SUFFICES ASSUME ~rpShrank PROVE OnceInv'
    BY <1>1 DEF OnceInv
  <2>1. PICK done \in SUBSET Services : Parted(done)
    BY <1>2 DEF OnceInv
  <2>2. \A y \in rpCh' : y.svc # x.svc
    BY <1>1, <1>2 DEF OnceInv
  <2>3. ServicesOf(rpCh') = ServicesOf(rpCh) \ {x.svc} /\ x.svc \notin done
    BY <1>1, <1>2, <2>1, <2>2 DEF Parted, ServicesOf
  <2>4. Cardinality(done \cup {x.svc}) = rpGot + 1
    <3>1. IsFiniteSet(done)
      BY ServicesFinite
    <3> QED BY <2>1, <2>3, <3>1, OneMore DEF Parted
  <2>5. Parted(done \cup {x.svc})'
    <3> DEFINE jobs == ServicesOf(rpJobs)
               ch == ServicesOf(rpCh)
    <3>1. /\ done \subseteq Present /\ rpTodo \subseteq Present /\ jobs \subseteq Present /\ ch \subseteq Present
          /\ done \cap (rpTodo \cup jobs \cup ch) = {} /\ rpTodo \cap (jobs \cup ch) = {} /\ jobs \cap ch = {}
      BY <2>1 DEF Parted
    <3>2. x.svc \in ch
      BY DEF ServicesOf
    <3>3. UNCHANGED <<rpTodo, Present>> /\ jobs' = jobs /\ ch' = ch \ {x.svc} /\ rpGot' = Cardinality(done \cup {x.svc})
      BY <1>1, <1>2, <2>3, <2>4 DEF ServicesOf
    <3> HIDE DEF jobs, ch
    <3> DEFINE more == done \cup {x.svc}
    <3>4. /\ more \subseteq Present /\ more \cap (rpTodo \cup jobs \cup (ch \ {x.svc})) = {}
          /\ rpTodo \cap (jobs \cup (ch \ {x.svc})) = {} /\ jobs \cap (ch \ {x.svc}) = {}
      BY <3>1, <3>2
    <3> QED BY <3>1, <3>3, <3>4 DEF Parted, jobs, ch
  <2>6. \A y, z \in rpCh' : y.svc = z.svc => y = z
    BY <1>1, <1>2 DEF OnceInv
  <2>7. done \cup {x.svc} \in SUBSET Services
    BY <1>3
  <2> QED BY <1>1, <1>2, <2>5, <2>6, <2>7 DEF OnceInv
<1>9. PinInv'
  BY <1>1 DEF PinInv, RpOnePin
<1> QED BY <1>5, <1>6, <1>7, <1>8, <1>9

\* A round ends when it has as many results as the map has services: unless
\* the map has shrunk, it then has one of every service and no job is left.
LEMMA PinRoundEndStep ==
    ASSUME RemotePinInv, PinRoundEnd
    PROVE  RemotePinInv'
<1> USE DEF RemotePinInv
<1>1. UNCHANGED <<rpConf, rpRoot, rpLast, rpRecent, rpTodo, rpLeft, rpCh, rpGot, rpJobs, rpRemote, rpGrew, rpShrank>>
      /\ rpPc = "receive" /\ rpGot >= Cardinality(Present) /\ rpPc' = "sleep"
  BY DEF PinRoundEnd, rpPolicyVars, rpMfsVars
<1>2. InRound /\ ~InRound' /\ LiveJobs' = LiveJobs
  BY <1>1 DEF InRound, LiveJobs
<1>3. RpTypeOK'
  BY <1>1 DEF RpTypeOK
<1>4. RoomInv'
  BY <1>1, <1>2 DEF RoomInv
<1>5. CoverInv'
  BY <1>2 DEF CoverInv
<1>6. OnceInv'
  <2> SUFFICES ASSUME ~rpShrank PROVE OnceInv'
    BY <1>1 DEF OnceInv
  <2>1. PICK done \in SUBSET Services : Parted(done)
    BY <1>2 DEF OnceInv
  <2>2. Present \in SUBSET Services
    BY DEF Present
  <2>3. IsFiniteSet(Present) /\ done \in SUBSET Present /\ Cardinality(done) = rpGot
    BY <2>1, <2>2, ServicesFinite DEF Parted
  <2>4. Cardinality(done) <= Cardinality(Present) /\ Cardinality(done) \in Nat /\ Cardinality(Present) \in Nat
    BY <2>2, <2>3, FS_Subset, ServicesFinite
  <2>5. done = Present
    BY <1>1, <2>3, <2>4, FS_Subset
  <2>6. rpJobs = {}
    BY <2>1, <2>5 DEF Parted, ServicesOf
  <2> QED BY <1>1, <1>2, <2>6 DEF OnceInv
<1>7. PinInv'
  BY <1>1 DEF PinInv, RpOnePin
<1> QED BY <1>3, <1>4, <1>5, <1>6, <1>7

\* What the round's bookkeeping says of a job that goes to its next stage.
LEMMA PinJobMoves ==
    ASSUME RemotePinInv, NEW j \in rpJobs, NEW n \in Nat,
           NEW stage1 \in {"ls", "add", "replace", "done", "failed"},
           rpJobs' = Becomes(j, stage1, n),
           UNCHANGED <<rpPc, rpTodo, rpLeft, rpCh, rpGot, rpConf, rpGrew, rpShrank>>
    PROVE  RoomInv' /\ CoverInv' /\ OnceInv'
<1> USE DEF RemotePinInv
<1>1. /\ rpJobs' \subseteq PinJob
      /\ IsFiniteSet(LiveJobs') /\ Cardinality(LiveJobs') <= Cardinality(LiveJobs)
      /\ ServicesOf(LiveJobs') = ServicesOf(LiveJobs)
      /\ ServicesOf(rpJobs') = ServicesOf(rpJobs)
      /\ \A k \in rpJobs' : k \in rpJobs \ {j} \/ k = JobAt(j, stage1, n)
      /\ Cardinality(LiveJobs') \in Nat
  BY JobMoves
<1>2. Present' = Present /\ InRound' = InRound /\ ServicesOf(rpCh') = ServicesOf(rpCh)
  BY DEF Present, InRound, ServicesOf
<1>3. RoomInv'
  <2>1. Cardinality(rpTodo) \in Nat /\ Cardinality(LiveJobs) \in Nat /\ rpLeft \in Nat
    BY ServicesFinite, FS_CardinalityType DEF RpTypeOK, RoomInv
  <2> QED BY <1>1, <2>1 DEF RoomInv
<1>4. CoverInv'
  BY <1>1, <1>2 DEF CoverInv
<1>5. OnceInv'
  <2> SUFFICES ASSUME ~rpShrank PROVE OnceInv'
    BY DEF OnceInv
  <2>1. j \in PinJob
    BY DEF RpTypeOK
  <2> DEFINE j2 == JobAt(j, stage1, n)
  <2>2. j2.svc = j.svc /\ j2.old = j.old
    BY <2>1 DEF PinJob, JobAt
  <2>3. \A k \in rpJobs' : k \in rpJobs \ {j} \/ k = j2
    BY <1>1
  <2> HIDE DEF j2
  <2>4. (\A k \in rpJobs' : ~k.old) /\ \A k, l \in rpJobs' : k.svc = l.svc => k = l
    BY <2>2, <2>3 DEF OnceInv
  <2>5. ~InRound' => rpJobs' = {}
    BY <1>2 DEF OnceInv
  <2>6. ASSUME NEW done \in SUBSET Services, Parted(done) PROVE Parted(done)'
    BY <1>1, <1>2, <2>6 DEF Parted
  <2> QED BY <1>2, <2>4, <2>5, <2>6 DEF OnceInv
<1> QED BY <1>3, <1>4, <1>5

\* The listing decides what the job does with the pins it has seen.
LEMMA PinLsStep ==
    ASSUME RemotePinInv, NEW j \in rpJobs, PinLs(j) \/ PinLsFails(j)
    PROVE  RemotePinInv'
<1> USE DEF RemotePinInv
<1>1. UNCHANGED <<rpConf, rpRoot, rpLast, rpRecent, rpPc, rpTodo, rpLeft, rpCh, rpGot, rpRemote, rpGrew, rpShrank>>
  BY DEF PinLs, PinLsFails, rpPolicyVars, rpMfsVars, rpLoopVars
<1>2. j \in PinJob /\ j.svc \in Services /\ rpRemote[j.svc] \in Seq(RemotePin)
  BY DEF RpTypeOK, PinJob
<1>3. PICK n \in Nat, stage1 \in {"add", "replace", "done", "failed"} :
        /\ rpJobs' = Becomes(j, stage1, n)
        /\ stage1 = "replace" => n \in DOMAIN rpRemote[j.svc]
        /\ stage1 = "add" => rpRemote[j.svc] = <<>>
  <2>1. Len(rpRemote[j.svc]) \in Nat
    BY <1>2
  <2>2. rpRemote[j.svc] # <<>> => Len(rpRemote[j.svc]) \in DOMAIN rpRemote[j.svc]
    BY <1>2
  <2> QED BY <2>1, <2>2 DEF PinLs, PinLsFails
<1>4. RoomInv' /\ CoverInv' /\ OnceInv'
  BY <1>1, <1>3, PinJobMoves
<1>5. rpJobs' \subseteq PinJob
      /\ \A k \in rpJobs' : k \in rpJobs \ {j} \/ k = JobAt(j, stage1, n)
  BY <1>3, JobMoves
<1>6. RpTypeOK'
  BY <1>1, <1>5 DEF RpTypeOK
<1>7. PinInv'
  <2> DEFINE j2 == JobAt(j, stage1, n)
  <2>1. j2.svc = j.svc /\ j2.stage = stage1 /\ j2.at = n
    BY <1>2 DEF PinJob, JobAt
  <2>2. \A k \in rpJobs' : k \in rpJobs \/ k = j2
    BY <1>5
  <2> HIDE DEF j2
  <2> QED BY <1>1, <1>3, <2>1, <2>2 DEF PinInv, RpOnePin
<1> QED BY <1>4, <1>6, <1>7

\* Add or Replace.  The pin that is added is the first, because no other job
\* of this service was there to add one since the listing.
LEMMA PinPutStep ==
    ASSUME RemotePinInv, NEW j \in rpJobs, NEW applied \in BOOLEAN, NEW ok \in BOOLEAN, PinPut(j, applied, ok)
    PROVE  RemotePinInv'
<1> USE DEF RemotePinInv
<1>1. UNCHANGED <<rpConf, rpRoot, rpLast, rpRecent, rpPc, rpTodo, rpLeft, rpCh, rpGot, rpGrew, rpShrank>>
  BY DEF PinPut, rpPolicyVars, rpMfsVars, rpLoopVars
<1>2. j \in PinJob /\ j.svc \in Services /\ j.root \in 0..MaxRoot /\ rpRemote[j.svc] \in Seq(RemotePin)
  BY DEF RpTypeOK, PinJob
<1>3. PICK stage1 \in {"done", "failed"} : rpJobs' = Becomes(j, stage1, 0)
  <2>1. rpJobs' = Becomes(j, IF ok THEN "done" ELSE "failed", 0)
    BY DEF PinPut
  <2> QED BY <2>1
<1>4. RoomInv' /\ CoverInv' /\ OnceInv'
  BY <1>1, <1>3, PinJobMoves
<1>5. /\ rpJobs' \subseteq PinJob
      /\ \A k \in rpJobs' : k \in rpJobs \ {j} \/ k = JobAt(j, stage1, 0)
  BY <1>3, JobMoves
<1>6. \A k \in rpJobs' : k.stage \in {"add", "replace"} => k \in rpJobs \ {j}
  BY <1>2, <1>5 DEF PinJob, JobAt
<1> DEFINE pin == [root |-> j.root, failed |-> FALSE]
<1>10. pin \in RemotePin
  BY <1>2 DEF RemotePin
<1>7. CASE ~applied
  <2>1. rpRemote' = rpRemote
    BY <1>7 DEF PinPut
  <2>2. RpTypeOK'
    BY <1>1, <1>5, <2>1 DEF RpTypeOK
  <2>3. PinInv'
    BY <1>1, <1>6, <2>1 DEF PinInv, RpOnePin
  <2> QED BY <1>4, <2>2, <2>3
<1>8. CASE applied /\ j.stage = "add"
  <2>1. rpRemote' = [rpRemote EXCEPT ![j.svc] = Append(@, pin)]
    BY <1>8 DEF PinPut
  <2> HIDE DEF pin
  <2>2. rpRemote' \in [Services -> Seq(RemotePin)]
    BY <1>2, <1>10, <2>1 DEF RpTypeOK
  <2>3. RpTypeOK'
    BY <1>1, <1>5, <2>2 DEF RpTypeOK
  <2>4. \A s \in Services : s # j.svc => rpRemote'[s] = rpRemote[s]
    BY <2>1 DEF RpTypeOK
  <2>5. /\ rpRemote'[j.svc] = Append(rpRemote[j.svc], pin)
        /\ DOMAIN rpRemote[j.svc] \subseteq DOMAIN rpRemote'[j.svc]
        /\ ~rpShrank => Len(rpRemote'[j.svc]) = 1
    BY <1>2, <1>8, <2>1 DEF RpTypeOK, PinInv
  <2>6. ~rpShrank => \A k \in rpJobs' : k.stage = "add" => k.svc # j.svc
    BY <1>6 DEF OnceInv
  <2>7. \A k \in rpJobs : k.svc \in Services
    BY DEF RpTypeOK, PinJob
  <2>8. RpOnePin'
    BY <1>1, <2>4, <2>5 DEF PinInv, RpOnePin
  <2>9. \A k \in rpJobs' : k.stage = "replace" => k.at \in DOMAIN rpRemote'[k.svc]
    BY <1>6, <2>4, <2>5, <2>7 DEF PinInv
  <2>10. ~rpShrank => \A k \in rpJobs' : k.stage = "add" => rpRemote'[k.svc] = <<>>
    BY <1>6, <2>4, <2>6, <2>7 DEF PinInv
  <2>11. PinInv'
    BY <1>1, <2>8, <2>9, <2>10 DEF PinInv
  <2> QED BY <1>4, <2>3, <2>11
<1>9. CASE applied /\ j.stage = "replace"
  <2>1. rpRemote' = [rpRemote EXCEPT ![j.svc] = [@ EXCEPT ![j.at] = pin]]
    BY <1>9 DEF PinPut
  <2> HIDE DEF pin
  <2> DEFINE new == [rpRemote[j.svc] EXCEPT ![j.at] = pin]
  <2>2. /\ new \in Seq(RemotePin) /\ DOMAIN new = DOMAIN rpRemote[j.svc]
        /\ Len(new) = Len(rpRemote[j.svc])
    BY <1>2, <1>9, <1>10 DEF PinInv
  <2>3. rpRemote' = [rpRemote EXCEPT ![j.svc] = new]
    BY <2>1
  <2> HIDE DEF new
  <2>4. rpRemote' \in [Services -> Seq(RemotePin)]
    BY <1>2, <2>2, <2>3 DEF RpTypeOK
  <2>5. RpTypeOK'
    BY <1>1, <1>5, <2>4 DEF RpTypeOK
  <2>6. \A s \in Services : Len(rpRemote'[s]) = Len(rpRemote[s]) /\ DOMAIN rpRemote'[s] = DOMAIN rpRemote[s]
    BY <2>2, <2>3 DEF RpTypeOK
  <2>7. \A s \in Services : s # j.svc => rpRemote'[s] = rpRemote[s]
    BY <2>3 DEF RpTypeOK
  <2>8. \A k \in rpJobs : k.svc \in Services
    BY DEF RpTypeOK, PinJob
  <2>9. ~rpShrank => \A k \in rpJobs' : k.stage = "add" => k.svc # j.svc
    BY <1>6 DEF OnceInv
  <2>10. PinInv'
    BY <1>1, <1>6, <2>6, <2>7, <2>8, <2>9 DEF PinInv, RpOnePin
  <2> QED BY <1>4, <2>5, <2>10
<1> QED BY <1>7, <1>8, <1>9 DEF PinPut

\* A service that gives up on a pin still has it.
LEMMA ServiceFailsStep ==
    ASSUME RemotePinInv, NEW s \in Services, NEW i \in DOMAIN rpRemote[s], ServiceFails(s, i)
    PROVE  RemotePinInv'
<1> USE DEF RemotePinInv
<1>1. UNCHANGED <<rpConf, rpRoot, rpLast, rpRecent, rpPc, rpTodo, rpLeft, rpCh, rpGot, rpJobs, rpGrew, rpShrank>>
  BY DEF ServiceFails, rpPolicyVars, rpMfsVars, rpLoopVars
<1> DEFINE old == rpRemote[s][i]
           pin == [old EXCEPT !.failed = TRUE]
           new == [rpRemote[s] EXCEPT ![i] = pin]
<1>2. rpRemote' = [rpRemote EXCEPT ![s] = new]
  BY DEF ServiceFails
<1>3. /\ new \in Seq(RemotePin) /\ DOMAIN new = DOMAIN rpRemote[s] /\ Len(new) = Len(rpRemote[s])
      /\ new = <<>> <=> rpRemote[s] = <<>>
  <2>1. rpRemote[s] \in Seq(RemotePin)
    BY DEF RpTypeOK
  <2>2. pin \in RemotePin
    <3>1. old \in RemotePin
      BY <2>1
    <3> HIDE DEF old
    <3> QED BY <3>1 DEF RemotePin
  <2> HIDE DEF pin
  <2>3. new \in Seq(RemotePin) /\ DOMAIN new = DOMAIN rpRemote[s] /\ Len(new) = Len(rpRemote[s])
    BY <2>1, <2>2
  <2> HIDE DEF new
  <2>4. (new = <<>> <=> Len(new) = 0) /\ (rpRemote[s] = <<>> <=> Len(rpRemote[s]) = 0)
    BY <2>1, <2>3
  <2> QED BY <2>3, <2>4
<1> HIDE DEF new
<1>4. rpRemote' \in [Services -> Seq(RemotePin)]
  BY <1>2, <1>3 DEF RpTypeOK
<1>5. RpTypeOK'
  BY <1>1, <1>4 DEF RpTypeOK
<1>6. \A x \in Services : /\ Len(rpRemote'[x]) = Len(rpRemote[x]) /\ DOMAIN rpRemote'[x] = DOMAIN rpRemote[x]
                          /\ (rpRemote'[x] = <<>> <=> rpRemote[x] = <<>>)
  BY <1>2, <1>3 DEF RpTypeOK
<1>7. \A k \in rpJobs : k.svc \in Services
  BY DEF RpTypeOK, PinJob
<1>8. PinInv'
  <2>1. RpOnePin'
    BY <1>1, <1>6 DEF PinInv, RpOnePin
  <2>2. \A k \in rpJobs : k.stage = "replace" => k.at \in DOMAIN rpRemote'[k.svc]
    BY <1>6, <1>7 DEF PinInv
  <2>3. ~rpShrank => \A k \in rpJobs : k.stage = "add" => rpRemote'[k.svc] = <<>>
    BY <1>6, <1>7 DEF PinInv
  <2> QED BY <1>1, <2>1, <2>2, <2>3 DEF PinInv
<1>9. /\ Present' = Present /\ InRound' = InRound /\ LiveJobs' = LiveJobs
      /\ ServicesOf(LiveJobs') = ServicesOf(LiveJobs) /\ ServicesOf(rpJobs') = ServicesOf(rpJobs)
      /\ ServicesOf(rpCh') = ServicesOf(rpCh)
  BY <1>1 DEF Present, InRound, LiveJobs, ServicesOf
<1>10. RoomInv'
  BY <1>1, <1>9 DEF RoomInv, InRound
<1>11. CoverInv'
  BY <1>1, <1>9 DEF CoverInv
<1>12. OnceInv'
  BY <1>1, <1>9 DEF OnceInv, Parted
<1> QED BY <1>5, <1>8, <1>10, <1>11, <1>12

\* The job's result takes the room that was there for it.
LEMMA PinResultStep ==
    ASSUME RemotePinInv, NEW j \in rpJobs, PinResult(j)
    PROVE  RemotePinInv'
<1> USE DEF RemotePinInv
<1>1. UNCHANGED <<rpConf, rpRoot, rpLast, rpRecent, rpPc, rpTodo, rpGot, rpRemote, rpGrew, rpShrank>>
      /\ rpJobs' = rpJobs \ {j}
  BY DEF PinResult, rpPolicyVars, rpMfsVars
<1>2. Present' = Present /\ InRound' = InRound
  BY <1>1 DEF Present, InRound
<1>3. PinInv'
  BY <1>1 DEF PinInv, RpOnePin
<1>4. CASE j.old
  <2>1. rpCh' = rpCh /\ rpLeft' = rpLeft
    BY <1>4 DEF PinResult
  <2>2. LiveJobs' = LiveJobs
    BY <1>1, <1>4 DEF LiveJobs
  <2>3. RpTypeOK' /\ RoomInv'
    BY <1>1, <2>1, <2>2 DEF RpTypeOK, RoomInv
  <2>4. CoverInv'
    BY <1>1, <1>2, <2>1, <2>2 DEF CoverInv
  <2>5. OnceInv'
    BY <1>1, <1>4 DEF OnceInv
  <2> QED BY <1>3, <2>3, <2>4, <2>5
<1>5. CASE ~j.old
  <2>1. j \in PinJob
    BY DEF RpTypeOK
  <2>2. PICK x \in Result : x.svc = j.svc /\ rpCh' = rpCh \cup {x} /\ rpLeft > 0 /\ rpLeft' = rpLeft - 1
    <3>1. CASE j.stage = "done"
      <4> DEFINE y == [svc |-> j.svc, valid |-> TRUE, root |-> j.root, conf |-> j.conf]
      <4>1. y \in Result /\ y.svc = j.svc
        BY <2>1 DEF Result, PinJob
      <4> QED BY <1>5, <3>1, <4>1 DEF PinResult
    <3>2. CASE j.stage # "done"
      <4> DEFINE y == [svc |-> j.svc, valid |-> FALSE]
      <4>1. y \in Result /\ y.svc = j.svc
        BY <2>1 DEF Result, PinJob
      <4> QED BY <1>5, <3>2, <4>1 DEF PinResult
    <3> QED BY <3>1, <3>2
  <2>3. j \in LiveJobs /\ LiveJobs' = LiveJobs \ {j}
    BY <1>1, <1>5 DEF LiveJobs
  <2>4. /\ IsFiniteSet(LiveJobs) /\ Cardinality(LiveJobs) \in Nat
        /\ IsFiniteSet(LiveJobs') /\ Cardinality(LiveJobs') = Cardinality(LiveJobs) - 1
    BY <2>3, FS_RemoveElement, FS_CardinalityType DEF RoomInv
  <2>5. /\ IsFiniteSet(rpCh) /\ Cardinality(rpCh) \in Nat /\ IsFiniteSet(rpCh')
        /\ Cardinality(rpCh') \in Nat /\ Cardinality(rpCh') <= Cardinality(rpCh) + 1
    BY <2>2, OneMore DEF RoomInv
  <2>6. Cardinality(Services) \in Nat /\ Cardinality(rpTodo) \in Nat /\ rpLeft \in Nat
    BY ServicesFinite DEF RpTypeOK
  <2>7. RpTypeOK'
    BY <1>1, <2>2, <2>6 DEF RpTypeOK
  <2>8. RoomInv'
    BY <1>1, <2>2, <2>4, <2>5, <2>6 DEF RoomInv
  <2>9. ServicesOf(LiveJobs) \subseteq ServicesOf(LiveJobs') \cup {j.svc}
        /\ ServicesOf(rpCh') = ServicesOf(rpCh) \cup {j.svc}
    BY <2>2, <2>3 DEF ServicesOf
  <2>10. CoverInv'
    BY <1>1, <1>2, <2>9 DEF CoverInv
  <2>11. OnceInv'
    <3> SUFFICES ASSUME ~rpShrank PROVE OnceInv'
      BY <1>1 DEF OnceInv
    <3>1. InRound
      BY DEF OnceInv
    <3>2. PICK done \in SUBSET Services : Parted(done)
      BY <3>1 DEF OnceInv
    <3>3. ServicesOf(rpJobs') = ServicesOf(rpJobs) \ {j.svc} /\ j.svc \in ServicesOf(rpJobs)
      BY <1>1 DEF OnceInv, ServicesOf
    <3>4. Parted(done)'
      <4> DEFINE jobs == ServicesOf(rpJobs)
                 ch == ServicesOf(rpCh)
      <4>1. /\ done \subseteq Present /\ rpTodo \subseteq Present /\ jobs \subseteq Present /\ ch \subseteq Present
            /\ done \cap (rpTodo \cup jobs \cup ch) = {} /\ rpTodo \cap (jobs \cup ch) = {} /\ jobs \cap ch = {}
        BY <3>2 DEF Parted
      <4>2. /\ UNCHANGED <<rpTodo, Present, rpGot>> /\ ServicesOf(rpJobs)' = jobs \ {j.svc}
            /\ ServicesOf(rpCh)' = ch \cup {j.svc} /\ j.svc \in jobs
        BY <1>1, <1>2, <2>9, <3>3
      <4> HIDE DEF jobs, ch
      <4>3. /\ done \cap (rpTodo \cup (jobs \ {j.svc}) \cup (ch \cup {j.svc})) = {}
            /\ rpTodo \cap ((jobs \ {j.svc}) \cup (ch \cup {j.svc})) = {} /\ (jobs \ {j.svc}) \cap (ch \cup {j.svc}) = {}
            /\ jobs \ {j.svc} \subseteq Present /\ ch \cup {j.svc} \subseteq Present
        BY <4>1, <4>2
      <4> QED BY <3>2, <4>1, <4>2, <4>3 DEF Parted
    <3>5. \A y \in rpCh : y.svc # j.svc
      BY <3>2, <3>3 DEF Parted, ServicesOf
    <3>6. \A y, z \in rpCh' : y.svc = z.svc => y = z
      BY <2>2, <3>1, <3>5 DEF OnceInv
    <3> QED BY <1>1, <1>2, <3>1, <3>4, <3>6 DEF OnceInv
  <2> QED BY <1>3, <2>7, <2>8, <2>10, <2>11
<1> QED BY <1>4, <1>5

\* A service is added to the map: in a round, the map has grown.  What a round
\* has done with its services stays as it is.
LEMMA ServiceAddStep ==
    ASSUME RemotePinInv, NEW s \in Services, NEW reached \in BOOLEAN, ServiceAdd(s, reached)
    PROVE  RemotePinInv'
<1> USE DEF RemotePinInv
<1>1. UNCHANGED <<rpShrank, rpRoot, rpLast, rpRecent, rpPc, rpLeft, rpCh, rpGot, rpJobs, rpRemote>>
      /\ rpConf' = [rpConf EXCEPT ![s] = "off"] /\ rpConf[s] = "absent"
      /\ rpTodo' = IF rpPc = "range" /\ reached THEN rpTodo \cup {s} ELSE rpTodo
  BY DEF ServiceAdd, rpMfsVars
<1>2. rpGrew' \in BOOLEAN /\ (InRound \/ rpGrew => rpGrew') /\ (rpGrew' => InRound \/ rpGrew)
  <2>1. rpGrew' = (rpGrew \/ InRound)
    BY Zenon DEF ServiceAdd
  <2> QED BY <2>1, Zenon
<1>3. Present' = Present \cup {s} /\ s \notin Present /\ InRound' = InRound /\ LiveJobs' = LiveJobs
      /\ ServicesOf(rpJobs') = ServicesOf(rpJobs) /\ ServicesOf(rpCh') = ServicesOf(rpCh)
  BY <1>1 DEF Present, InRound, LiveJobs, ServicesOf, RpTypeOK
<1>4. RpTypeOK'
  BY <1>1, <1>2 DEF RpTypeOK
<1>5. RoomInv'
  <2>1. ~rpGrew' => rpTodo' = rpTodo
    BY <1>1, <1>2 DEF InRound
  <2>2. rpPc' # "range" => rpTodo' = {}
    BY <1>1 DEF RoomInv
  <2> QED BY <1>1, <1>2, <1>3, <2>1, <2>2 DEF RoomInv
<1>6. CoverInv'
  BY <1>2, <1>3 DEF CoverInv
<1>7. OnceInv'
  <2> SUFFICES ASSUME ~rpShrank PROVE OnceInv'
    BY <1>1 DEF OnceInv
  <2>1. ASSUME NEW done \in SUBSET Services, Parted(done) PROVE Parted(done)'
    BY <1>1, <1>3, <2>1 DEF Parted
  <2> QED BY <1>1, <1>3, <2>1 DEF OnceInv
<1>8. PinInv'
  BY <1>1 DEF PinInv, RpOnePin
<1> QED BY <1>4, <1>5, <1>6, <1>7, <1>8

\* A service is removed: in a round, the map has shrunk.
LEMMA ServiceRmStep ==
    ASSUME RemotePinInv, NEW s \in Services, ServiceRm(s)
    PROVE  RemotePinInv'
<1> USE DEF RemotePinInv
<1>1. UNCHANGED <<rpGrew, rpRoot, rpLast, rpRecent, rpPc, rpTodo, rpLeft, rpCh, rpGot, rpJobs, rpRemote>>
      /\ rpConf' = [rpConf EXCEPT ![s] = "absent"]
  BY DEF ServiceRm, rpMfsVars, rpLoopVars
<1>2. rpShrank' \in BOOLEAN /\ (InRound \/ rpShrank => rpShrank') /\ (rpShrank' => InRound \/ rpShrank)
  <2>1. rpShrank' = (rpShrank \/ InRound)
    BY Zenon DEF ServiceRm
  <2> QED BY <2>1, Zenon
<1>3. Present' \subseteq Present /\ InRound' = InRound /\ LiveJobs' = LiveJobs
      /\ ServicesOf(rpJobs') = ServicesOf(rpJobs) /\ ServicesOf(rpCh') = ServicesOf(rpCh)
  BY <1>1 DEF Present, InRound, LiveJobs, ServicesOf, RpTypeOK
<1>4. RpTypeOK' /\ RoomInv'
  BY <1>1, <1>2, <1>3 DEF RpTypeOK, RoomInv
<1>5. CoverInv'
  BY <1>1, <1>3 DEF CoverInv
<1>6. OnceInv'
  BY <1>1, <1>2, <1>3 DEF OnceInv
<1>7. PinInv'
  BY <1>1, <1>2 DEF PinInv, RpOnePin
<1> QED BY <1>4, <1>5, <1>6, <1>7

LEMMA RemotePinInvInit == RpInit => RemotePinInv
<1> SUFFICES ASSUME RpInit PROVE RemotePinInv
  OBVIOUS
<1>1. rpGrew \in BOOLEAN /\ rpShrank \in BOOLEAN
  BY Zenon DEF RpInit
<1>2. Cardinality(Services) \in Nat /\ 0 \in 0..MaxRoot
  BY ServicesFinite, RemotePinAssumption
<1>3. RpTypeOK
  BY <1>1, <1>2 DEF RpInit, RpTypeOK
<1>4. LiveJobs = {} /\ ~InRound
  BY DEF RpInit, LiveJobs, InRound
<1>5. RoomInv
  BY <1>2, <1>4, FS_EmptySet DEF RpInit, RoomInv
<1>6. PinInv
  BY DEF RpInit, PinInv, RpOnePin
<1> QED BY <1>3, <1>4, <1>5, <1>6 DEF RemotePinInv, CoverInv, OnceInv, RpInit

LEMMA RemotePinInvStep ==
    ASSUME RemotePinInv, [RpNext]_rpVars
    PROVE  RemotePinInv'
<1>1. CASE RpNext
  BY <1>1, PinQuietSteps, PinRoundStep, PinSkipStep, PinStartStep, PinRangeEndStep, PinReceiveStep,
     PinRoundEndStep, PinLsStep, PinPutStep, PinResultStep, ServiceAddStep, ServiceRmStep,
     ServiceFailsStep DEF RpNext, RpLoopStep, RpCallStep, RpJobStep
<1>2. CASE UNCHANGED rpVars
  <2>1. UNCHANGED <<rpJobs, rpCh, rpTodo, rpLeft, rpGot, rpRemote, rpGrew, rpShrank>> /\ rpPc' = rpPc
        /\ rpConf' = rpConf
    BY <1>2 DEF rpVars, rpLoopVars, rpPolicyVars
  <2>2. Present' = Present
    BY <2>1 DEF Present
  <2>3. RpTypeOK'
    BY <1>2, <2>1 DEF rpVars, rpMfsVars, RpTypeOK, RemotePinInv
  <2> QED BY <2>1, <2>2, <2>3, PinQuiet DEF RemotePinInv
<1> QED BY <1>1, <1>2

\* What the bookkeeping of a round says about rounds that hang.
LEMMA RemotePinInvSays == RemotePinInv => RpSound
<1> SUFFICES ASSUME RemotePinInv PROVE RpStuckOnlyIfGrew
  BY DEF RemotePinInv, PinInv, RpSound
<1> USE DEF RemotePinInv
<1>1. ASSUME rpPc = "receive", rpGot < Cardinality(Present), ~Awaited, ~rpGrew PROVE FALSE
  <2>1. PICK done \in SUBSET Services :
            /\ Cardinality(done) <= rpGot
            /\ Present \subseteq done \cup rpTodo \cup ServicesOf(LiveJobs) \cup ServicesOf(rpCh)
    BY <1>1 DEF CoverInv, InRound
  <2>2. rpTodo = {} /\ ServicesOf(LiveJobs) = {} /\ ServicesOf(rpCh) = {}
    BY <1>1 DEF RoomInv, Awaited, LiveJobs, ServicesOf
  <2>3. Present \in SUBSET done /\ IsFiniteSet(done) /\ Cardinality(done) \in Nat /\ rpGot \in Nat
    BY <2>1, <2>2, ServicesFinite DEF RpTypeOK
  <2>4. Cardinality(Present) <= Cardinality(done) /\ Cardinality(Present) \in Nat
    BY <2>3, FS_Subset, FS_CardinalityType
  <2> QED BY <1>1, <2>1, <2>3, <2>4
<1>2. ASSUME rpPc = "range", rpLeft = 0, rpTodo \cap Present # {}, ~rpGrew PROVE FALSE
  <2>1. Cardinality(rpTodo) \in Nat /\ Cardinality(LiveJobs) \in Nat /\ IsFiniteSet(rpTodo)
    BY ServicesFinite, FS_CardinalityType DEF RpTypeOK, RoomInv
  <2>2. Cardinality(rpTodo) = 0
    BY <1>2, <2>1 DEF RoomInv
  <2>3. rpTodo = {}
    BY <2>1, <2>2, FS_EmptySet
  <2> QED BY <1>2, <2>3
<1> QED BY <1>1, <1>2 DEF RpStuckOnlyIfGrew

\* pinAllMFS hangs only if the map of services grew in a round, and pins a
\* root twice on a service only if it shrank, for any number of services,
\* roots, failed calls and lost answers.
THEOREM RemotePinningSound == RpInit /\ [][RpNext]_rpVars => []RpSound
<1>1. RemotePinInv /\ [RpNext]_rpVars => RemotePinInv'
  BY RemotePinInvStep
<1> QED BY <1>1, RemotePinInvInit, RemotePinInvSays, PTL

-----------------------------------------------------------------------------
(* The suite.                                                              *)

ServicesInv == RegistryInv /\ DaemonInv /\ BootstrapInv /\ RemotePinInv

\* The services of a daemon are sound, whichever of them runs (MCServices),
\* for every value of the constants.
THEOREM ServicesAreSound == ServicesSpec => []ServicesSound
<1>1. ServicesInit => ServicesInv
  <2>1. Init => RegistryInv
    <3> SUFFICES ASSUME Init PROVE RegistryInv
      OBVIOUS
    <3>1. TypeOK
      BY P2PAssumption DEF Init, TypeOK
    <3>2. \A p \in Peers : OfPeer(streams, speer, p) = {}
      BY DEF Init, OfPeer
    <3>3. \A p \in Peers : Cardinality(OfPeer(streams, speer, p)) = 0
      BY <3>2, FS_EmptySet
    <3>4. ConnsAgree
      BY <3>3 DEF Init, ConnsAgree
    <3> QED BY <3>1, <3>4 DEF Init, RegistryInv, StageInv
  <2> QED BY <2>1, DaemonInvInit, BootstrapInvInit, RemotePinInvInit DEF ServicesInit, ServicesInv
<1>2. ServicesInv /\ [ServicesNext]_servicesVars => ServicesInv'
  <2> SUFFICES ASSUME ServicesInv, [ServicesNext]_servicesVars PROVE ServicesInv'
    OBVIOUS
  <2>1. [Next]_vars /\ [DmNext]_dmVars /\ [BsNext]_bsVars /\ [RpNext]_rpVars
    BY DEF ServicesNext, servicesVars
  <2>2. RegistryInv'
    <3>1. CASE Next
      BY <3>1, TypeStep, StageStep, ConnsStep DEF ServicesInv, RegistryInv
    <3>2. CASE UNCHANGED vars
      <4>1. ConnsAgree'
        BY <3>2 DEF vars, registryVars, setupVars, ServicesInv, RegistryInv, ConnsAgree
      <4> QED BY <3>2, <4>1 DEF vars, listenerVars, localVars, setupVars, endVars, registryVars,
                 ServicesInv, RegistryInv, TypeOK, StageInv
    <3> QED BY <2>1, <3>1, <3>2
  <2> QED BY <2>1, <2>2, DaemonInvStep, BootstrapInvStep, RemotePinInvStep DEF ServicesInv
<1>3. ServicesInv => ServicesSound
  BY DaemonInvSays, RemotePinInvSays DEF ServicesInv, RegistryInv, BootstrapInv, ServicesSound
<1> QED BY <1>1, <1>2, <1>3, PTL DEF ServicesSpec
=============================================================================
