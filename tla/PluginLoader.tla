---------------------------- MODULE PluginLoader ----------------------------
(***************************************************************************)
(* The plugin loader (kubo/plugin/loader): plugins are loaded, initialised *)
(* and injected when the process starts (loadPlugins in cmd/ipfs/main.go), *)
(* started by the daemon and closed with its node.                         *)
(*                                                                         *)
(* The loader is used by one goroutine at a time, so a method is one step. *)
(* A loop over the map of plugins that stops at the first error has done a *)
(* part of the plugins that no order determines: any subset.               *)
(***************************************************************************)
EXTENDS Naturals, FiniteSets

CONSTANTS
    Plugins,        \* the preloaded plugins and the ones in the directory
    DaemonPlugins   \* those with a Start method

ASSUME PluginAssumption == DaemonPlugins \subseteq Plugins

VARIABLES
    plState,    \* loader.state
    plLoaded,   \* loader.plugins
    plStarted,  \* loader.started
    plRunning,  \* plugins whose Start succeeded and that nobody closed
    plCloses    \* how often a plugin was closed

plVars == <<plState, plLoaded, plStarted, plRunning, plCloses>>

LoaderStates == {"Loading", "Initialized", "Injected", "Starting", "Started",
                 "Closed", "Failed"}

PlTypeOK ==
    /\ plState \in LoaderStates
    /\ plLoaded \subseteq Plugins
    /\ plStarted \subseteq plLoaded \cap DaemonPlugins
    /\ plRunning \subseteq DaemonPlugins
    /\ plCloses \in [DaemonPlugins -> 0..1]

PlInit ==
    /\ plState = "Loading" /\ plLoaded = {}
    /\ plStarted = {} /\ plRunning = {}
    /\ plCloses = [p \in DaemonPlugins |-> 0]

\* Load of every preloaded plugin and of the ones the directory holds: a
\* disabled one is skipped, a duplicate or a broken file ends the program.
NewPluginLoader(disabled) ==
    /\ plState = "Loading" /\ plLoaded = {}
    /\ plLoaded' = Plugins \ disabled
    /\ UNCHANGED <<plState, plStarted, plRunning, plCloses>>

Initialize(ok) ==
    /\ plState = "Loading"
    /\ plState' = IF ok THEN "Initialized" ELSE "Failed"
    /\ UNCHANGED <<plLoaded, plStarted, plRunning, plCloses>>

Inject(ok) ==
    /\ plState = "Initialized"
    /\ plState' = IF ok THEN "Injected" ELSE "Failed"
    /\ UNCHANGED <<plLoaded, plStarted, plRunning, plCloses>>

\* The started plugins are closed whether or not an earlier one failed to.
CloseStarted(started, ok) ==
    /\ plRunning' = plRunning \ started
    /\ plCloses' = [p \in DaemonPlugins |->
                       IF p \in started THEN plCloses[p] + 1 ELSE plCloses[p]]
    /\ plStarted' = {}
    /\ plState' = IF ok THEN "Closed" ELSE "Failed"

\* Mutant: a loader whose Start failed is not taken for closed.
PlClose_Again(ok) ==
    /\ UNCHANGED plLoaded
    /\ CloseStarted(plStarted \cup {p \in DaemonPlugins : plCloses[p] > 0}, ok)

PlClose(ok) ==
    /\ UNCHANGED plLoaded
    /\ IF plState \in {"Failed", "Closed"}
       THEN UNCHANGED <<plState, plStarted, plRunning, plCloses>>
       ELSE CloseStarted(plStarted, ok)

\* Mutant: the error of a plugin's Start is returned at once.
PlStart_NoClose(done, ok) ==
    /\ plState = "Injected"
    /\ UNCHANGED <<plLoaded, plCloses>>
    /\ plStarted' = done /\ plRunning' = done
    /\ plState' = IF done = plLoaded \cap DaemonPlugins THEN "Started" ELSE "Failed"

\* done are the plugins started when the loop ends: all of them, or the ones
\* before the plugin whose Start failed; Close has then ended (ok or not).
PlStart(done, ok) ==
    /\ plState = "Injected"
    /\ done \subseteq plLoaded \cap DaemonPlugins
    /\ UNCHANGED plLoaded
    /\ IF done = plLoaded \cap DaemonPlugins
       THEN /\ plStarted' = done /\ plRunning' = done
            /\ plState' = "Started"
            /\ UNCHANGED plCloses
       ELSE /\ plRunning' = {} /\ plStarted' = {}
            /\ plCloses' = [p \in DaemonPlugins |->
                               IF p \in done THEN plCloses[p] + 1 ELSE plCloses[p]]
            /\ plState' = IF ok THEN "Closed" ELSE "Failed"

\* NewCoreAPI failed: Start returns before the loop and the state stays.
PlStartNoAPI ==
    /\ plState = "Injected"
    /\ plState' = "Starting"
    /\ UNCHANGED <<plLoaded, plStarted, plRunning, plCloses>>

\* A plugin runs only while the loader holds it to close it, so whoever closes
\* the loader stops every plugin, after a partial Start too (loader.Start
\* and loader.Close).
PlHeldWhileRunning == plRunning = plStarted /\ (plStarted # {} => plState = "Started")
=============================================================================
