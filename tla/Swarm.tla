------------------------------- MODULE Swarm --------------------------------
(***************************************************************************)
(* The swarm commands that change settings while the daemon runs           *)
(* (core/commands/swarm.go): address filters, and the limits of the        *)
(* resource manager (core/node/libp2p/rcmgr.go), which the daemon loads    *)
(* again when it starts; and the resolution of the addresses that swarm    *)
(* connect and disconnect are given.                                       *)
(*                                                                         *)
(* Both kinds of command change the setting in use and then the            *)
(* configuration: the object that the node shares, in place, and then the  *)
(* file.  A limit is one number, ConnsInbound, 0 meaning unset.            *)
(***************************************************************************)
EXTENDS Integers, FiniteSets, Sequences

CONSTANTS
    SwClients,     \* clients with a command under way
    SwFilters,     \* filter texts that parse
    SwScopes,      \* scopes of the resource manager, "system" among them
    SwLimits,      \* values a client sets
    HighWater,     \* ConnMgr.HighWater
    LimitBase,     \* what the default limits are scaled from
    MaxSwarm       \* commands and restarts (a bound)

ASSUME SwarmAssumption ==
    /\ "system" \in SwScopes /\ SwLimits \subseteq Nat
    /\ HighWater \in Nat \ {0} /\ LimitBase \in Nat \ {0} /\ MaxSwarm \in Nat

VARIABLES
    swUp,        \* the daemon runs; "refused": it does not start
    swFilter,    \* filters in use
    swLimit,     \* limits in use
    swMem,       \* the configuration object: [f, l]
    swDisk,      \* the configuration file
    swJob,       \* command of each client
    swCount,     \* commands and restarts so far
    swMixed,     \* history: since the start filter commands have overlapped, or
                 \* one ended at an argument that does not parse
    swCrossed,   \* history: since the start two commands have set a limit of the
                 \* same scope at once
    swLost,      \* history: since the start a command failed to write the file
    swOdd        \* history: a limit of 0, or one the node cannot start with, was set

swVars == <<swUp, swFilter, swLimit, swMem, swDisk, swJob, swCount, swMixed, swCrossed, swLost, swOdd>>

NoJob == [op |-> "none"]
SwCommand == [op : {"add", "rm", "rmall"}, fs : SUBSET SwFilters, pc : {"config", "fill", "save"}]
                \cup [op : {"limit"}, scope : SwScopes, l : Nat, pc : {"config", "save"}]
SwConfig == [f : SUBSET SwFilters, l : [SwScopes -> Nat]]

\* Mutant: the default is not raised above twice the high water mark.
DefaultLimit_Plain(scope) == LimitBase

\* createDefaultLimitConfig: the system limit is at least twice HighWater.
DefaultLimit(scope) ==
    IF scope = "system" /\ LimitBase < 2 * HighWater THEN 2 * HighWater ELSE LimitBase

\* LimitConfig.Apply: unset values get the default.
Apply(l) == [s \in SwScopes |-> IF l[s] = 0 THEN DefaultLimit(s) ELSE l[s]]

\* ensureConnMgrMakeSenseVsResourceMgr.
ConnMgrMakesSense(l) == l["system"] > HighWater

SwInit ==
    /\ swUp = "up" /\ swFilter = {} /\ swMem = [f |-> {}, l |-> [s \in SwScopes |-> 0]]
    /\ swDisk = swMem /\ swLimit = Apply(swMem.l)
    /\ swJob = [c \in SwClients |-> NoJob] /\ swCount = 0
    /\ swMixed = FALSE /\ swCrossed = FALSE /\ swLost = FALSE /\ swOdd = FALSE

Idle(c) == swUp = "up" /\ swJob[c] = NoJob /\ swCount < MaxSwarm
FilterJobs == {c \in SwClients : swJob[c].op \in {"add", "rm", "rmall"}}
LimitJobs(scope) == {c \in SwClients : swJob[c].op = "limit" /\ swJob[c].pc = "config" /\ swJob[c].scope = scope}

\* swarmFiltersAddCmd, first part: the filters in use.  The arguments are taken
\* one by one; fs is all of them, or those before one that does not parse, which
\* ends the command.
FiltersAddCmd(c, fs, parse) ==
    /\ Idle(c) /\ swCount' = swCount + 1
    /\ swFilter' = swFilter \cup fs
    /\ swJob' = IF parse THEN [swJob EXCEPT ![c] = [op |-> "add", fs |-> fs, pc |-> "config"]] ELSE swJob
    /\ swMixed' = (swMixed \/ FilterJobs # {} \/ ~parse)
    /\ UNCHANGED <<swUp, swLimit, swMem, swDisk, swCrossed, swLost, swOdd>>

\* swarmFiltersRmCmd, first part; "all" removes what is in use.
FiltersRmCmd(c, fs, parse) ==
    /\ Idle(c) /\ swCount' = swCount + 1
    /\ swFilter' = swFilter \ fs
    /\ swJob' = IF parse THEN [swJob EXCEPT ![c] = [op |-> "rm", fs |-> fs, pc |-> "config"]] ELSE swJob
    /\ swMixed' = (swMixed \/ FilterJobs # {} \/ ~parse)
    /\ UNCHANGED <<swUp, swLimit, swMem, swDisk, swCrossed, swLost, swOdd>>
FiltersRmAll(c) ==
    /\ Idle(c) /\ swCount' = swCount + 1
    /\ swFilter' = {}
    /\ swJob' = [swJob EXCEPT ![c] = [op |-> "rmall", fs |-> {}, pc |-> "config"]]
    /\ swMixed' = (swMixed \/ FilterJobs # {})
    /\ UNCHANGED <<swUp, swLimit, swMem, swDisk, swCrossed, swLost, swOdd>>

\* filtersAdd empties the list of the shared object, then fills it with the
\* new and the old filters.
FiltersAddOld(c) ==
    /\ swJob[c].op = "add" /\ swJob[c].pc = "config"
    /\ swJob' = [swJob EXCEPT ![c].pc = "fill", ![c].fs = @ \cup swMem.f]
    /\ swMem' = [swMem EXCEPT !.f = {}]
    /\ UNCHANGED <<swUp, swFilter, swLimit, swDisk, swCount, swMixed, swCrossed, swLost, swOdd>>

\* Mutant: the old filters are forgotten.
FiltersAddFill_NewOnly(c) ==
    /\ swJob[c].op = "add" /\ swJob[c].pc = "fill"
    /\ swMem' = [swMem EXCEPT !.f = {CHOOSE f \in swJob[c].fs : TRUE}]
    /\ swJob' = [swJob EXCEPT ![c].pc = "save"]
    /\ UNCHANGED <<swUp, swFilter, swLimit, swDisk, swCount, swMixed, swCrossed, swLost, swOdd>>

FiltersAddFill(c) ==
    /\ swJob[c].op = "add" /\ swJob[c].pc = "fill"
    /\ swMem' = [swMem EXCEPT !.f = swJob[c].fs]
    /\ swJob' = [swJob EXCEPT ![c].pc = "save"]
    /\ UNCHANGED <<swUp, swFilter, swLimit, swDisk, swCount, swMixed, swCrossed, swLost, swOdd>>

\* filtersRemove and filtersRemoveAll.
FiltersRemove(c) ==
    /\ swJob[c].op \in {"rm", "rmall"} /\ swJob[c].pc = "config"
    /\ swMem' = [swMem EXCEPT !.f = IF swJob[c].op = "rmall" THEN {} ELSE @ \ swJob[c].fs]
    /\ swJob' = [swJob EXCEPT ![c].pc = "save"]
    /\ UNCHANGED <<swUp, swFilter, swLimit, swDisk, swCount, swMixed, swCrossed, swLost, swOdd>>

\* NetSetLimit and NetResetLimit, first part: the limit in use.  Nothing is held
\* between it and the second.
SetLimit(c, scope, l) ==
    /\ Idle(c) /\ swCount' = swCount + 1
    /\ swLimit' = [swLimit EXCEPT ![scope] = l]
    /\ swJob' = [swJob EXCEPT ![c] = [op |-> "limit", scope |-> scope, l |-> l, pc |-> "config"]]
    /\ swCrossed' = (swCrossed \/ LimitJobs(scope) # {})
    /\ UNCHANGED <<swUp, swFilter, swMem, swDisk, swMixed, swLost>>

NetSetLimit(c, scope, l) ==
    /\ SetLimit(c, scope, l)
    /\ swOdd' = (swOdd \/ l = 0 \/ (scope = "system" /\ l <= HighWater))

\* The default of the scope is set and written down.
NetResetLimit(c, scope) == SetLimit(c, scope, DefaultLimit(scope)) /\ UNCHANGED swOdd

\* Mutant: only the resource manager is told.
SetConfigFunc_Not(c) ==
    /\ swJob[c].op = "limit" /\ swJob[c].pc = "config"
    /\ swJob' = [swJob EXCEPT ![c].pc = "save"]
    /\ UNCHANGED <<swUp, swFilter, swLimit, swMem, swDisk, swCount, swMixed, swCrossed, swLost, swOdd>>

\* setConfigFunc: the shared object.
SetConfigFunc(c) ==
    /\ swJob[c].op = "limit" /\ swJob[c].pc = "config"
    /\ swMem' = [swMem EXCEPT !.l[swJob[c].scope] = swJob[c].l]
    /\ swJob' = [swJob EXCEPT ![c].pc = "save"]
    /\ UNCHANGED <<swUp, swFilter, swLimit, swDisk, swCount, swMixed, swCrossed, swLost, swOdd>>

\* swarmLimitCmd: a limit from the client's file, or a reset.  Without either
\* it only shows the limits.
SwarmLimitCmd(c) ==
    \E s \in SwScopes : NetResetLimit(c, s) \/ \E l \in SwLimits : NetSetLimit(c, s, l)

\* SetConfig writes the object, whoever has changed it, or fails.
SwSave(c, ok) ==
    /\ swJob[c] # NoJob /\ swJob[c].pc = "save"
    /\ swDisk' = IF ok THEN swMem ELSE swDisk
    /\ swLost' = (swLost \/ ~ok)
    /\ swJob' = [swJob EXCEPT ![c] = NoJob]
    /\ UNCHANGED <<swUp, swFilter, swLimit, swMem, swCount, swMixed, swCrossed, swOdd>>

\* The daemon stops, its commands over, and starts: filters (AddrFilters) and
\* limits (ResourceManager) come from the file, so that what was lost or mixed up
\* before is over.
SwRestart ==
    /\ swUp = "up" /\ swCount < MaxSwarm /\ swCount' = swCount + 1
    /\ \A c \in SwClients : swJob[c] = NoJob
    /\ swMem' = swDisk
    /\ IF ConnMgrMakesSense(Apply(swDisk.l))
       THEN swFilter' = swDisk.f /\ swLimit' = Apply(swDisk.l) /\ UNCHANGED swUp
       ELSE swUp' = "refused" /\ UNCHANGED <<swFilter, swLimit>>
    /\ swMixed' = FALSE /\ swCrossed' = FALSE /\ swLost' = FALSE
    /\ UNCHANGED <<swDisk, swJob, swOdd>>

SwNext ==
    \/ \E c \in SwClients :
          \/ \E fs \in SUBSET SwFilters \ {{}}, parse \in BOOLEAN : FiltersAddCmd(c, fs, parse) \/ FiltersRmCmd(c, fs, parse)
          \/ FiltersRmAll(c)
          \/ SwarmLimitCmd(c) \/ SetConfigFunc(c)
          \/ \E ok \in BOOLEAN : SwSave(c, ok)
          \/ FiltersAddOld(c) \/ FiltersAddFill(c) \/ FiltersRemove(c)
    \/ SwRestart

-----------------------------------------------------------------------------
(* swarm connect and disconnect.  resolveAddresses starts one goroutine    *)
(* for every address without a peer ID; they send what they find on an     *)
(* unbuffered channel that is closed when all are done.  An argument       *)
(* stands for the peer it names or resolves to.                            *)

CONSTANTS ArArgs    \* possible arguments

ASSUME ArgsAssumption == ArArgs \subseteq Seq({"peer", "name", "bad"})

VARIABLES
    arArgs,      \* the arguments
    arNext,      \* the next one to start
    arRun,       \* goroutine of each name: "off", "resolve", "send", "done"
    arFailed,    \* resolveErrC is not empty
    arClosed,    \* maddrC is closed
    arFound,     \* addresses collected
    arPc,        \* "start", "collect", "act", "ok", "error"
    arCmd,       \* "connect" or "disconnect"
    arDone       \* output so far: peer -> the network did as asked

arVars == <<arArgs, arNext, arRun, arFailed, arClosed, arFound, arPc, arCmd, arDone>>

ArInit ==
    /\ arArgs \in ArArgs /\ arNext = 1 /\ arRun = [i \in 1..Len(arArgs) |-> "off"]
    /\ arFailed = FALSE /\ arClosed = FALSE /\ arFound = {} /\ arPc = "start"
    /\ arCmd \in {"connect", "disconnect"} /\ arDone = <<>>

\* The loop over the arguments; one that does not parse ends it.
ArStart ==
    /\ arPc = "start"
    /\ IF arNext > Len(arArgs) THEN arPc' = "collect" /\ UNCHANGED <<arNext, arRun, arFound>>
       ELSE /\ arNext' = arNext + 1
            /\ arPc' = IF arArgs[arNext] = "bad" THEN "error" ELSE "start"
            /\ arFound' = IF arArgs[arNext] = "peer" THEN arFound \cup {arNext} ELSE arFound
            /\ arRun' = IF arArgs[arNext] = "name" THEN [arRun EXCEPT ![arNext] = "resolve"] ELSE arRun
    /\ UNCHANGED <<arCmd, arDone, arArgs, arFailed, arClosed>>

\* The resolver answers, within dnsResolveTimeout.
ArResolve(i, ok) ==
    /\ arRun[i] = "resolve"
    /\ arRun' = [arRun EXCEPT ![i] = IF ok THEN "send" ELSE "done"]
    /\ arFailed' = (arFailed \/ ~ok)
    /\ UNCHANGED <<arCmd, arDone, arArgs, arNext, arClosed, arFound, arPc>>

\* The send meets the range of the command.
ArSend(i) ==
    /\ arRun[i] = "send" /\ arPc = "collect" /\ ~arClosed
    /\ arRun' = [arRun EXCEPT ![i] = "done"] /\ arFound' = arFound \cup {i}
    /\ UNCHANGED <<arCmd, arDone, arArgs, arNext, arFailed, arClosed, arPc>>

\* Mutant: the channel is closed as soon as one goroutine is done.
ArClose_Early ==
    /\ arPc = "collect" /\ ~arClosed /\ \E i \in DOMAIN arRun : arRun[i] \in {"off", "done"}
    /\ arClosed' = TRUE
    /\ UNCHANGED <<arCmd, arDone, arArgs, arNext, arRun, arFailed, arFound, arPc>>

\* wg.Wait, close(maddrC).
ArClose ==
    /\ arPc = "collect" /\ ~arClosed /\ \A i \in DOMAIN arRun : arRun[i] \in {"off", "done"}
    /\ arClosed' = TRUE
    /\ UNCHANGED <<arCmd, arDone, arArgs, arNext, arRun, arFailed, arFound, arPc>>

\* parseAddresses: an error of any goroutine is the answer; the addresses
\* are grouped by peer, in no order.
ParseAddresses ==
    /\ arPc = "collect" /\ arClosed
    /\ arPc' = IF arFailed THEN "error" ELSE "act"
    /\ UNCHANGED <<arCmd, arDone, arArgs, arNext, arRun, arFailed, arClosed, arFound>>

ArLeft == arFound \ DOMAIN arDone
ArDid(i, ok) == [j \in DOMAIN arDone \cup {i} |-> IF j = i THEN ok ELSE arDone[j]]

\* swarmConnectCmd: the first peer that cannot be reached ends it.
SwarmConnectCmd(i, ok) ==
    /\ arPc = "act" /\ arCmd = "connect" /\ i \in ArLeft
    /\ arDone' = ArDid(i, ok) /\ arPc' = IF ok THEN "act" ELSE "error"
    /\ UNCHANGED <<arArgs, arNext, arRun, arFailed, arClosed, arFound, arCmd>>

\* swarmDisconnectCmd: failures are lines of the output.
SwarmDisconnectCmd(i, ok) ==
    /\ arPc = "act" /\ arCmd = "disconnect" /\ i \in ArLeft
    /\ arDone' = ArDid(i, ok)
    /\ UNCHANGED <<arArgs, arNext, arRun, arFailed, arClosed, arFound, arCmd, arPc>>

ArEmit ==
    /\ arPc = "act" /\ ArLeft = {} /\ arPc' = "ok"
    /\ UNCHANGED <<arArgs, arNext, arRun, arFailed, arClosed, arFound, arCmd, arDone>>

ArNext ==
    \/ ArStart \/ ArClose \/ ParseAddresses \/ ArEmit
    \/ \E i \in DOMAIN arRun :
          \/ ArSend(i)
          \/ \E ok \in BOOLEAN : ArResolve(i, ok) \/ SwarmConnectCmd(i, ok) \/ SwarmDisconnectCmd(i, ok)

-----------------------------------------------------------------------------
(* Properties.                                                             *)

SwTypeOK ==
    /\ swUp \in {"up", "refused"} /\ swFilter \subseteq SwFilters /\ swLimit \in [SwScopes -> Nat]
    /\ swMem \in SwConfig /\ swDisk \in SwConfig /\ swCount \in 0..MaxSwarm
    /\ swJob \in [SwClients -> {NoJob} \cup SwCommand]
    /\ {swMixed, swCrossed, swLost, swOdd} \subseteq BOOLEAN

ArTypeOK ==
    /\ arNext \in 1..(Len(arArgs) + 1) /\ arFound \subseteq DOMAIN arArgs
    /\ arRun \in [DOMAIN arArgs -> {"off", "resolve", "send", "done"}]
    /\ arPc \in {"start", "collect", "act", "ok", "error"} /\ DOMAIN arDone \subseteq arFound

\* Filters in use, in the configuration and in the file are the same between
\* commands (filtersAdd, filtersRemove), unless since the daemon started filter
\* commands overlapped, one ended at an argument that does not parse after others
\* were put in use, or the file could not be written.
SwFiltersAgree ==
    swUp = "up" /\ FilterJobs = {} /\ ~swMixed /\ ~swLost => swFilter = swMem.f /\ swFilter = swDisk.f

\* What 'swarm limit' sets is what a restarted daemon has: "Changes made via
\* command line are persisted", however commands on different scopes and filter
\* commands overlap, unless 0 was set, which means unset in the file, or two
\* commands set a limit of one scope at once (NetSetLimit, NetResetLimit).
SwLimitsPersist ==
    swUp = "up" /\ ~swCrossed /\ ~swLost /\ ~swOdd /\ (\A c \in SwClients : swJob[c] = NoJob) => swLimit = Apply(swDisk.l)

\* A daemon refuses to start for its limits (ensureConnMgrMakeSenseVsResourceMgr)
\* only after a client set such a limit, which NetSetLimit accepts and writes.
SwRefusedOnlyIfSet == swUp = "refused" => swOdd

\* An answer without an error is about every argument (resolveAddresses,
\* swarmConnectCmd, swarmDisconnectCmd), for connect it says that all peers are
\* connected, and nobody is left at the channel: goroutines stay behind only
\* when a later argument did not parse.
ArComplete ==
    /\ arPc = "ok" => DOMAIN arDone = 1..Len(arArgs) /\ (arCmd = "connect" => \A i \in DOMAIN arDone : arDone[i])
    /\ arClosed => \A i \in DOMAIN arRun : arRun[i] \notin {"send", "resolve"}

\* Filters and limits agree between node, configuration and file, and connect
\* and disconnect answer for every address (swarm commands).
SwarmSound ==
    /\ SwTypeOK /\ SwFiltersAgree /\ SwLimitsPersist /\ SwRefusedOnlyIfSet
    /\ ArTypeOK /\ ArComplete
=============================================================================
