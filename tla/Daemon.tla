------------------------------- MODULE Daemon -------------------------------
(***************************************************************************)
(* The life of the daemon process: daemonFunc (cmd/ipfs/daemon.go) from    *)
(* the command line to its exit, with everything it starts on the way (the *)
(* node, plugins, the API and gateway servers, the periodic collector) and *)
(* takes down in deferred calls, a signal or an error at any point.        *)
(*                                                                         *)
(* Steps of other goroutines are actions of their own: the two servers     *)
(* (corehttp.Serve), the node's stop function, which the lifetime context  *)
(* and Close both call, the collector, and the one-minute check for peers. *)
(* The fx library decides the order of the stop hooks: either order of     *)
(* closing the repository and closing the process tree is possible.        *)
(***************************************************************************)
EXTENDS PluginLoader

VARIABLES
    dmPc,       \* where daemonFunc is
    dmVer,      \* the repository: absent, old (needs a migration) or current
    dmRepo,     \* the FSRepo of the daemon: none, open or closed
    dmDir,      \* migrations.DownloadDirectory exists
    dmFetcher,  \* none, open or closed
    dmOnline,   \* without --offline
    dmNode,     \* none, up, stopping, stopped
    dmProc,     \* node.Process: open, closing, closed
    dmServer,   \* the servers of the API and of the gateway
    dmGC,       \* the goroutine of maybeRunGC
    dmReady,    \* the daemon said it is ready
    dmSig       \* signals received (at most 2)

dmRepoVars == <<dmVer, dmRepo, dmDir, dmFetcher>>
dmNodeVars == <<dmNode, dmProc>>
dmWorkVars == <<dmServer, dmGC>>
dmVars == <<dmPc, dmRepoVars, dmOnline, dmNodeVars, dmWorkVars, dmReady, dmSig, plVars>>

Servers == {"api", "gateway"}

DmTypeOK ==
    /\ dmPc \in {"idle", "open", "migrate", "config", "node", "bootstrap", "plugins", "api", "mount",
                 "gc", "keep", "gateway", "merge", "closeNode", "closeRepo", "cleanup",
                 "exited", "killed", "panicked"}
    /\ dmVer \in {"absent", "old", "current"}
    /\ dmRepo \in {"none", "open", "closed"}
    /\ dmDir \in BOOLEAN /\ dmOnline \in BOOLEAN /\ dmReady \in BOOLEAN
    /\ dmFetcher \in {"none", "open", "closed"}
    /\ dmNode \in {"none", "up", "stopping", "stopped"}
    /\ dmProc \in {"open", "closing", "closed"}
    /\ dmServer \in [Servers -> {"off", "new", "checked", "serving", "draining", "ended", "reported"}]
    /\ dmGC \in {"off", "running", "ended", "reported"}
    /\ dmSig \in 0..2

DmInit ==
    /\ PlInit
    /\ dmPc = "idle" /\ dmVer = "absent" /\ dmRepo = "none"
    /\ dmDir = FALSE /\ dmFetcher = "none" /\ dmOnline = TRUE
    /\ dmNode = "none" /\ dmProc = "open"
    /\ dmServer = [s \in Servers |-> "off"] /\ dmGC = "off"
    /\ dmReady = FALSE /\ dmSig = 0

Goto(p) == dmPc' = p

\* A return of daemonFunc runs the deferred calls registered so far, last
\* first: node.Close once the node is built, repo.Close once it is open, the
\* removal of the download directory and fetcher.Close.
Return == Goto(IF dmNode \in {"up", "stopping", "stopped"} THEN "closeNode"
               ELSE IF dmRepo = "open" THEN "closeRepo" ELSE "cleanup")

-----------------------------------------------------------------------------
(* Up to an open repository.                                               *)

\* loadPlugins: the loader is made, initialised and injected before any
\* command runs.
LoadPlugins(disabled) == dmPc = "idle" /\ NewPluginLoader(disabled) /\ UNCHANGED <<dmPc, dmRepoVars, dmOnline, dmNodeVars, dmWorkVars, dmReady, dmSig>>
InitPlugins(ok) == dmPc = "idle" /\ plLoaded # {} /\ Initialize(ok) /\ UNCHANGED <<dmPc, dmRepoVars, dmOnline, dmNodeVars, dmWorkVars, dmReady, dmSig>>
InjectPlugins(ok) == dmPc = "idle" /\ Inject(ok) /\ UNCHANGED <<dmPc, dmRepoVars, dmOnline, dmNodeVars, dmWorkVars, dmReady, dmSig>>

\* `ipfs daemon` on some repository.
DmBegin(ver, online) ==
    /\ dmPc = "idle" /\ plState = "Injected"
    /\ Goto("open")
    /\ dmVer' = ver /\ dmOnline' = online
    /\ UNCHANGED <<dmRepo, dmDir, dmFetcher, dmNodeVars, dmWorkVars, dmReady, dmSig, plVars>>

\* --init on a missing repository; without it Open says it is missing.
DmDoInit(ok) ==
    /\ dmPc = "open" /\ dmVer = "absent"
    /\ IF ok THEN dmVer' = "current" /\ UNCHANGED dmPc
             ELSE UNCHANGED dmVer /\ Return
    /\ UNCHANGED <<dmRepo, dmDir, dmFetcher, dmOnline, dmNodeVars, dmWorkVars, dmReady, dmSig, plVars>>

\* fsrepo.Open, before and after a migration; it fails when the lock is held.
DmOpenRepo(ok) ==
    /\ dmPc = "open" /\ dmVer = "current"
    /\ IF ok THEN dmRepo' = "open" /\ Goto("config")
             ELSE UNCHANGED dmRepo /\ Return
    /\ UNCHANGED <<dmVer, dmDir, dmFetcher, dmOnline, dmNodeVars, dmWorkVars, dmReady, dmSig, plVars>>

\* ErrNeedMigration: without --migrate the user is asked, and may never answer;
\* declined or a bad Migration section ends the daemon; otherwise the fetchers
\* are made, and a directory for what is to be kept.
DmNeedMigration(domigrate, keep) ==
    /\ dmPc = "open" /\ dmVer = "old"
    /\ IF domigrate
       THEN /\ dmFetcher' = "open" /\ dmDir' = keep
            /\ Goto("migrate")
       ELSE UNCHANGED <<dmFetcher, dmDir>> /\ Return
    /\ UNCHANGED <<dmVer, dmRepo, dmOnline, dmNodeVars, dmWorkVars, dmReady, dmSig, plVars>>

\* RunMigration under cctx.Context(): no node can be built on an old
\* repository, so that is the background context: no signal and no timeout
\* interrupts the download or the migration.
DmMigrate(ok) ==
    /\ dmPc = "migrate"
    /\ IF ok THEN dmVer' = "current" /\ Goto("open")
             ELSE UNCHANGED dmVer /\ Return
    /\ UNCHANGED <<dmRepo, dmDir, dmFetcher, dmOnline, dmNodeVars, dmWorkVars, dmReady, dmSig, plVars>>

\* The routing option: "default" stands for Routing.Type, and "auto" on a
\* private network for "dht"; an unknown one or "supernode" is refused.
DmRouting(option) ==
    /\ dmPc = "config"
    /\ IF option \in {"supernode", "unknown"} THEN Return ELSE Goto("node")
    /\ UNCHANGED <<dmRepoVars, dmOnline, dmNodeVars, dmWorkVars, dmReady, dmSig, plVars>>

-----------------------------------------------------------------------------
(* The node.                                                               *)

\* core.NewNode.  A failing constructor or start hook returns no node.  When
\* the daemon was interrupted before, the goroutine watching the lifetime
\* context stops the application at once.  When Routing.Bootstrap fails,
\* bootstrap.Bootstrap waits for a round that waits for it (Bootstrap), and
\* NewNode never returns.
NewNode(outcome) ==
    /\ dmPc = "node"
    /\ outcome = "bootstrap" => dmOnline
    /\ \/ outcome = "error" /\ UNCHANGED dmNode /\ Return
       \/ outcome = "bootstrap" /\ dmNode' = "up" /\ Goto("bootstrap")
       \/ outcome = "ok" /\ dmNode' = "up" /\ Goto("plugins")
    /\ UNCHANGED <<dmRepoVars, dmOnline, dmProc, dmWorkVars, dmReady, dmSig, plVars>>

\* n.stop, behind its sync.Once: app.Stop starts running the stop hooks.
NodeStop ==
    /\ dmNode = "up" /\ (dmSig > 0 \/ dmPc = "closeNode")
    /\ dmNode' = "stopping" /\ dmProc' = "closing"
    /\ UNCHANGED <<dmPc, dmRepoVars, dmOnline, dmWorkVars, dmReady, dmSig, plVars>>

\* The hook of the repository.
StopRepo ==
    /\ dmNode = "stopping" /\ dmRepo = "open"
    /\ dmRepo' = "closed"
    /\ UNCHANGED <<dmPc, dmVer, dmDir, dmFetcher, dmOnline, dmNodeVars, dmWorkVars, dmReady, dmSig, plVars>>

\* The hook of node.Process: its children are the servers that serve and, once
\* daemonFunc added it, the teardown that closes the plugins.
StopProcess(ok) ==
    /\ dmNode = "stopping" /\ dmProc = "closing"
    /\ \A s \in Servers : dmServer[s] \notin {"serving", "draining"}
    /\ dmProc' = "closed"
    /\ IF dmPc \in {"idle", "open", "migrate", "config", "node", "bootstrap", "plugins"}
       THEN UNCHANGED plVars ELSE PlClose(ok)
    /\ UNCHANGED <<dmPc, dmRepoVars, dmOnline, dmNode, dmWorkVars, dmReady, dmSig>>

NodeStopped ==
    /\ dmNode = "stopping" /\ dmRepo = "closed" /\ dmProc = "closed"
    /\ dmNode' = "stopped"
    /\ UNCHANGED <<dmPc, dmRepoVars, dmOnline, dmProc, dmWorkVars, dmReady, dmSig, plVars>>

-----------------------------------------------------------------------------
(* Services.                                                               *)

\* Plugins.Start and then AddChild of its teardown.  A process that is closed
\* by then runs the teardown of the child at once.
StartPlugins(done, ok) ==
    /\ dmPc = "plugins"
    /\ IF dmProc = "closed" /\ done = plLoaded \cap DaemonPlugins
       THEN /\ plState' = "Closed"
            /\ plCloses' = [p \in DaemonPlugins |-> IF p \in done THEN plCloses[p] + 1 ELSE plCloses[p]]
            /\ UNCHANGED <<plLoaded, plStarted, plRunning>>
       ELSE PlStart(done, ok)
    /\ IF done = plLoaded \cap DaemonPlugins THEN Goto("api") ELSE Return
    /\ UNCHANGED <<dmRepoVars, dmOnline, dmNodeVars, dmWorkVars, dmReady, dmSig>>

StartPluginsNoAPI ==
    /\ dmPc = "plugins"
    /\ PlStartNoAPI /\ Return
    /\ UNCHANGED <<dmRepoVars, dmOnline, dmNodeVars, dmWorkVars, dmReady, dmSig>>

\* serveHTTPApi: a listener that cannot be opened, or SetAPIAddr failing on a
\* repository closed meanwhile, ends the daemon.
ServeHTTPApi(ok) ==
    /\ dmPc = "api"
    /\ ok => dmRepo = "open"
    /\ IF ok THEN dmServer' = [dmServer EXCEPT !["api"] = "new"] /\ Goto("mount")
             ELSE UNCHANGED dmServer /\ Return
    /\ UNCHANGED <<dmRepoVars, dmOnline, dmNodeVars, dmGC, dmReady, dmSig, plVars>>

\* --mount: refused offline, and it may fail.
MountFuse(mount, ok) ==
    /\ dmPc = "mount"
    /\ IF mount /\ (~dmOnline \/ ~ok) THEN Return ELSE Goto("gc")
    /\ UNCHANGED <<dmRepoVars, dmOnline, dmNodeVars, dmWorkVars, dmReady, dmSig, plVars>>

MaybeRunGC(enable) ==
    /\ dmPc = "gc"
    /\ dmGC' = IF enable THEN "running" ELSE "off"
    /\ Goto("keep")
    /\ UNCHANGED <<dmRepoVars, dmOnline, dmNodeVars, dmServer, dmReady, dmSig, plVars>>

\* addMigrations, whose errors are only printed, the removal of the download
\* directory and the first fetcher.Close.
KeepMigrations ==
    /\ dmPc = "keep"
    /\ dmDir' = FALSE
    /\ dmFetcher' = IF dmFetcher = "open" THEN "closed" ELSE dmFetcher
    /\ Goto("gateway")
    /\ UNCHANGED <<dmVer, dmRepo, dmOnline, dmNodeVars, dmWorkVars, dmReady, dmSig, plVars>>

\* serveHTTPGateway, startPinMFS (RemoteMFSPin) and the ready message.  With
\* no gateway address there is no server.
ServeHTTPGateway(outcome) ==
    /\ dmPc = "gateway"
    /\ outcome = "ok" => dmRepo = "open"
    /\ dmServer' = [dmServer EXCEPT !["gateway"] = IF outcome = "ok" THEN "new" ELSE "off"]
    /\ dmReady' = (outcome # "error")
    /\ IF outcome = "error" THEN Return ELSE Goto("merge")
    /\ UNCHANGED <<dmRepoVars, dmOnline, dmNodeVars, dmGC, dmSig, plVars>>

\* corehttp.Serve: the handlers are made and the process is checked; then the
\* server runs as a child of the process, and is shut down when that closes.
ServeCheck(s) ==
    /\ dmServer[s] = "new"
    /\ dmServer' = [dmServer EXCEPT ![s] = IF dmProc = "open" THEN "checked" ELSE "ended"]
    /\ UNCHANGED <<dmPc, dmRepoVars, dmOnline, dmNodeVars, dmGC, dmReady, dmSig, plVars>>

ServeStep(s, from, to) ==
    /\ dmServer[s] = from
    /\ dmServer' = [dmServer EXCEPT ![s] = to]
    /\ UNCHANGED <<dmPc, dmRepoVars, dmOnline, dmNodeVars, dmGC, dmReady, dmSig, plVars>>

Serve(s) == ServeStep(s, "checked", "serving")
ServeFails(s) == ServeStep(s, "serving", "ended")

\* Mutant: the server is shut down when the node has stopped.
ServeShutdown_Late(s) == dmNode = "stopped" /\ ServeStep(s, "serving", "draining")

ServeShutdown(s) == dmProc # "open" /\ ServeStep(s, "serving", "draining")

\* Requests end, or the timeout of 30 seconds does.
ServeDrained(s) == ServeStep(s, "draining", "ended")

\* PeriodicGC returns with the context of the request, or with an error: once
\* the collection it is in, if any, has got the lock and is through.
GCEnds ==
    /\ dmGC = "running"
    /\ dmGC' = "ended"
    /\ UNCHANGED <<dmPc, dmRepoVars, dmOnline, dmNodeVars, dmServer, dmReady, dmSig, plVars>>

\* Mutant: only the channel of the API server is merged.
Merged_ApiOnly == dmServer["api"] \in {"off", "reported"}

\* The channels of merge that are not nil are all closed.
Merged == /\ \A s \in Servers : dmServer[s] \in {"off", "reported"}
          /\ dmGC \in {"off", "reported"}

\* merge: the errors of the servers and of the collector are received, and
\* the loop ends when every channel is closed.
MergeReceive ==
    /\ dmPc = "merge"
    /\ \/ \E s \in Servers : /\ dmServer[s] = "ended"
                             /\ dmServer' = [dmServer EXCEPT ![s] = "reported"]
                             /\ UNCHANGED dmGC
       \/ dmGC = "ended" /\ dmGC' = "reported" /\ UNCHANGED dmServer
    /\ UNCHANGED <<dmPc, dmRepoVars, dmOnline, dmNodeVars, dmReady, dmSig, plVars>>

MergeDone ==
    /\ dmPc = "merge" /\ Merged /\ Return
    /\ UNCHANGED <<dmRepoVars, dmOnline, dmNodeVars, dmWorkVars, dmReady, dmSig, plVars>>

-----------------------------------------------------------------------------
(* Shutdown.                                                               *)

\* The deferred node.Close waits for whoever runs the stop function.
CloseNode ==
    /\ dmPc = "closeNode" /\ dmNode = "stopped"
    /\ Goto("closeRepo")
    /\ UNCHANGED <<dmRepoVars, dmOnline, dmNodeVars, dmWorkVars, dmReady, dmSig, plVars>>

\* The deferred repo.Close; closing it twice is harmless.
CloseRepo ==
    /\ dmPc = "closeRepo"
    /\ dmRepo' = "closed" /\ Goto("cleanup")
    /\ UNCHANGED <<dmVer, dmDir, dmFetcher, dmOnline, dmNodeVars, dmWorkVars, dmReady, dmSig, plVars>>

\* Mutant: the directory is removed on the way to ready only.
Cleanup_KeepsDir ==
    /\ dmPc = "cleanup" /\ Goto("exited")
    /\ dmFetcher' = IF dmFetcher = "open" THEN "closed" ELSE dmFetcher
    /\ UNCHANGED <<dmVer, dmRepo, dmDir, dmOnline, dmNodeVars, dmWorkVars, dmReady, dmSig, plVars>>

\* The deferred removal of the download directory and fetcher.Close.
Cleanup ==
    /\ dmPc = "cleanup" /\ Goto("exited")
    /\ dmDir' = FALSE
    /\ dmFetcher' = IF dmFetcher = "open" THEN "closed" ELSE dmFetcher
    /\ UNCHANGED <<dmVer, dmRepo, dmOnline, dmNodeVars, dmWorkVars, dmReady, dmSig, plVars>>

Over == dmPc \in {"exited", "killed", "panicked"}
Running == dmPc # "idle" /\ ~Over

\* The first signal cancels the context of the command, the second one exits.
Interrupt ==
    /\ Running /\ dmSig < 2
    /\ dmSig' = dmSig + 1
    /\ IF dmSig = 1 THEN Goto("killed") ELSE UNCHANGED dmPc
    /\ UNCHANGED <<dmRepoVars, dmOnline, dmNodeVars, dmWorkVars, dmReady, plVars>>

\* The check for peers one minute after ready logs an error of GetConfig and
\* goes on with a nil configuration: on a closed repository that panics.
WarnNoPeers ==
    /\ dmReady /\ dmOnline /\ Running
    /\ dmRepo = "closed"
    /\ Goto("panicked")
    /\ UNCHANGED <<dmRepoVars, dmOnline, dmNodeVars, dmWorkVars, dmReady, dmSig, plVars>>

DmServerStep == \E s \in Servers : ServeCheck(s) \/ Serve(s) \/ ServeShutdown(s) \/ ServeDrained(s)

\* What daemonFunc does when somebody answers: the user, or the sources and the
\* program of a migration.
DmAnswered ==
    \/ \E b, k \in BOOLEAN : DmNeedMigration(b, k)
    \/ \E ok \in BOOLEAN : DmMigrate(ok)

\* daemonFunc itself.
DmMainStep ==
    \/ \E ok \in BOOLEAN : DmDoInit(ok) \/ DmOpenRepo(ok) \/ ServeHTTPApi(ok)
    \/ \E o \in {"auto", "dht", "none", "custom", "supernode", "unknown"} : DmRouting(o)
    \/ \E o \in {"ok", "error", "bootstrap"} : NewNode(o)
    \/ \E done \in SUBSET DaemonPlugins, ok \in BOOLEAN : StartPlugins(done, ok)
    \/ StartPluginsNoAPI
    \/ \E m, ok \in BOOLEAN : MountFuse(m, ok)
    \/ \E e \in BOOLEAN : MaybeRunGC(e)
    \/ KeepMigrations
    \/ \E o \in {"ok", "none", "error"} : ServeHTTPGateway(o)
    \/ MergeReceive \/ MergeDone \/ CloseNode \/ CloseRepo \/ Cleanup

\* The goroutine that stops the node.
DmStopStep == NodeStop \/ StopRepo \/ (\E ok \in BOOLEAN : StopProcess(ok)) \/ NodeStopped

DmNext ==
    \/ \E d \in SUBSET Plugins : LoadPlugins(d)
    \/ \E ok \in BOOLEAN : InitPlugins(ok) \/ InjectPlugins(ok)
    \/ \E v \in {"absent", "old", "current"}, on \in BOOLEAN : DmBegin(v, on)
    \/ Running /\ (DmMainStep \/ DmAnswered \/ DmStopStep \/ DmServerStep \/ GCEnds)
    \/ Running /\ \E s \in Servers : ServeFails(s)
    \/ Interrupt \/ WarnNoPeers

\* Every goroutine runs.  Nothing makes a user answer, a migration end or a
\* collection come to its lock.
DmFairness ==
    /\ WF_dmVars(Running /\ DmMainStep)
    /\ WF_dmVars(Running /\ DmStopStep)
    /\ WF_dmVars(Running /\ DmServerStep)

-----------------------------------------------------------------------------
(* Properties.                                                             *)

\* When daemonFunc returns, wherever it gave up, it leaves no download
\* directory, open fetcher, open repository or running plugin behind, and
\* the node it had to close has stopped (the deferred calls of daemonFunc).
DmNothingLeft ==
    dmPc = "exited" =>
        /\ ~dmDir /\ dmFetcher # "open" /\ dmRepo # "open"
        /\ dmNode \in {"none", "stopped"}
        /\ plRunning = {}

\* A daemon that became ready takes its node down only when both servers and
\* the collector have ended and reported (merge).
DmWaitsForAll ==
    dmReady /\ dmPc \in {"closeNode", "closeRepo", "cleanup", "exited"} =>
        /\ \A s \in Servers : dmServer[s] \in {"off", "reported"}
        /\ dmGC \in {"off", "reported"}

\* The daemon waits for what has no end of its own: an answer to the prompt, a
\* migration, a Bootstrap whose routing failed, a collection behind a pin lock.
DmHangs ==
    \/ dmPc = "open" /\ dmVer = "old"
    \/ dmPc \in {"migrate", "bootstrap"}
    \/ dmGC = "running"

\* An interrupted daemon ends, or hangs for ever in one of those: else nobody waits
\* for somebody who waits for him (n.stop, corehttp.Serve, merge and node.Close).
DmSignalEnds == (dmSig > 0 ~> Over) \/ <>[]DmHangs
=============================================================================
