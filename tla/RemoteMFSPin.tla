---------------------------- MODULE RemoteMFSPin ----------------------------
(***************************************************************************)
(* Remote pinning: the daemon's goroutine that keeps the MFS root pinned   *)
(* on the configured services (cmd/ipfs/pinmfs.go), and the commands `ipfs *)
(* pin remote service` that change that configuration                      *)
(* (core/commands/pin/remotepin.go).                                       *)
(*                                                                         *)
(* A round of pinAllMFS reads the map cfg.Pinning.RemoteServices three     *)
(* times: its size makes the channel, it is ranged over, and its size      *)
(* counts the results to receive.  The map is the one `service add` and    *)
(* `service rm` change in place, so it may change between any two of them. *)
(* A pinning service is external: a call may fail, take effect and its     *)
(* answer be lost, or never return (pinMFS has the context of the node and *)
(* no timeout), and the service may give up on a pin.                      *)
(***************************************************************************)
EXTENDS Integers, Sequences, FiniteSets

CONSTANTS
    Services,   \* service names
    MaxRoot,    \* MFS roots are 0..MaxRoot (a bound)
    MaxChanges, \* changes of the MFS root (a bound)
    MaxEdits,   \* service commands (a bound)
    MaxErrors   \* failed calls and failed pins of a service (a bound)

ASSUME RemotePinAssumption == IsFiniteSet(Services) /\ MaxRoot \in Nat /\ MaxChanges \in Nat /\ MaxEdits \in Nat /\ MaxErrors \in Nat

VARIABLES
    rpConf,     \* RemoteServices: absent, off (MFS policy disabled, or an interval
                \* that does not parse), or the version of an enabled policy
    rpRoot,     \* CID of the MFS root
    rpLast,     \* lastPins: the root and the policy last pinned, <<>> for none
    rpRecent,   \* services pinned less than RepinInterval ago
    rpPc,       \* pinMFSOnChange: sleeping, ranging, receiving, ended
    rpTodo,     \* services the range has not reached
    rpLeft,     \* room in the channel of this round
    rpCh,       \* results in the channel
    rpGot,      \* results received in this round
    rpJobs,     \* goroutines running pinMFS
    rpRemote,   \* per service, the pins with the name of the MFS pin
    rpGrew,     \* the map has grown during a round
    rpShrank,   \* the map has shrunk during a round
    rpEdits,    \* service commands so far
    rpErrors,   \* failed calls and pins so far
    rpLost,     \* a call that failed had taken effect
    rpChanges,  \* changes of the root so far
    rpBack      \* one of them went back to an earlier root

rpLoopVars == <<rpPc, rpTodo, rpLeft, rpCh, rpGot>>
rpPolicyVars == <<rpConf, rpGrew, rpShrank, rpEdits>>
rpMfsVars == <<rpRoot, rpChanges, rpBack>>
rpErrVars == <<rpErrors, rpLost>>
rpVars == <<rpPolicyVars, rpMfsVars, rpLast, rpRecent, rpLoopVars, rpJobs, rpRemote, rpErrVars>>

Enabled(c) == c \in {"v1", "v2"}
Present == {s \in Services : rpConf[s] # "absent"}

\* A pin of a service; failed is its StatusFailed, against queued, pinning, pinned.
RemotePin == [root : 0..MaxRoot, failed : BOOLEAN]

\* A goroutine of pinMFS: the service, the root and the policy it was given,
\* where it is, the pin it replaces, and whether the loop has gone on without it.
PinJob == [svc : Services, root : 0..MaxRoot, conf : {"v1", "v2"}, at : Nat, old : BOOLEAN,
           stage : {"ls", "add", "replace", "done", "failed"}]

RpTypeOK ==
    /\ rpConf \in [Services -> {"absent", "off", "v1", "v2"}]
    /\ rpRoot \in 0..MaxRoot
    /\ rpRecent \subseteq Services /\ rpTodo \subseteq Services
    /\ rpPc \in {"idle", "sleep", "range", "receive", "ended"}
    /\ rpLeft \in 0..Cardinality(Services) /\ rpGot \in 0..Cardinality(Services)
    /\ rpLast \in [Services -> {<<>>} \cup ((0..MaxRoot) \X {"v1", "v2"})]
    /\ rpJobs \subseteq PinJob
    /\ rpRemote \in [Services -> Seq(RemotePin)]
    /\ rpGrew \in BOOLEAN /\ rpShrank \in BOOLEAN

RpInit ==
    /\ rpConf = [s \in Services |-> "absent"]
    /\ rpRoot = 0
    /\ rpLast = [s \in Services |-> <<>>]
    /\ rpRecent = {}
    /\ rpPc = "idle" /\ rpTodo = {} /\ rpLeft = 0 /\ rpCh = {} /\ rpGot = 0
    /\ rpJobs = {}
    /\ rpRemote = [s \in Services |-> <<>>]
    /\ rpGrew = FALSE /\ rpShrank = FALSE /\ rpEdits = 0 /\ rpErrors = 0
    /\ rpLost = FALSE /\ rpChanges = 0 /\ rpBack = FALSE

-----------------------------------------------------------------------------
(* The loop.                                                               *)

\* startPinMFS: the loop and the goroutine that logs its errors, so that a
\* send on errCh never waits for long.  The configuration is any.
StartPinMFS(conf) ==
    /\ rpPc = "idle" /\ rpPc' = "sleep"
    /\ rpConf' = conf
    /\ UNCHANGED <<rpGrew, rpShrank, rpEdits, rpMfsVars, rpLast, rpRecent, rpTodo, rpLeft, rpCh, rpGot, rpJobs, rpRemote, rpErrVars>>

\* Awake: the configuration and the root are read; an error of either is
\* reported and the loop sleeps again, the step not taken.  Jobs of the round
\* before write to a channel nobody reads any more.
PinRound ==
    /\ rpPc = "sleep"
    /\ rpPc' = "range"
    /\ rpTodo' = Present /\ rpLeft' = Cardinality(Present)
    /\ rpCh' = {} /\ rpGot' = 0
    /\ rpJobs' = {[j EXCEPT !.old = TRUE] : j \in {k \in rpJobs : k.stage \in {"ls", "add", "replace"}}}
    /\ UNCHANGED <<rpPolicyVars, rpMfsVars, rpLast, rpRecent, rpRemote, rpErrVars>>

\* Mutant: a service that has been pinned once is taken for up to date.
UpToDate_AnyConfig(s) == rpLast[s] # <<>>

\* Nothing to do for a service pinned with the exact same policy, when the
\* root is the same or RepinInterval has not passed.
UpToDate(s) ==
    /\ rpLast[s] # <<>>
    /\ rpLast[s][2] = rpConf[s]
    /\ rpLast[s][1] = rpRoot \/ s \in rpRecent

\* Mutant: a service that is up to date gets no result.
PinSkip_NoSend(s) ==
    /\ rpPc = "range" /\ s \in rpTodo /\ s \in Present
    /\ ~Enabled(rpConf[s]) \/ UpToDate(s)
    /\ rpTodo' = rpTodo \ {s}
    /\ UNCHANGED <<rpPolicyVars, rpMfsVars, rpLast, rpRecent, rpPc, rpLeft, rpCh, rpGot, rpJobs, rpRemote, rpErrVars>>

\* pinAllMFS on a service that is skipped: an empty result, which needs room.
PinSkip(s) ==
    /\ rpPc = "range" /\ s \in rpTodo /\ s \in Present
    /\ ~Enabled(rpConf[s]) \/ UpToDate(s)
    /\ rpLeft > 0 /\ rpLeft' = rpLeft - 1
    /\ rpTodo' = rpTodo \ {s}
    /\ rpCh' = rpCh \cup {[svc |-> s, valid |-> FALSE]}
    /\ UNCHANGED <<rpPolicyVars, rpMfsVars, rpLast, rpRecent, rpPc, rpGot, rpJobs, rpRemote, rpErrVars>>

\* Otherwise a goroutine pins the root; it carries copies of what it uses.
PinStart(s) ==
    /\ rpPc = "range" /\ s \in rpTodo /\ s \in Present
    /\ Enabled(rpConf[s]) /\ ~UpToDate(s)
    /\ rpTodo' = rpTodo \ {s}
    /\ rpJobs' = rpJobs \cup {[svc |-> s, root |-> rpRoot, conf |-> rpConf[s],
                               stage |-> "ls", at |-> 0, old |-> FALSE]}
    /\ UNCHANGED <<rpPolicyVars, rpMfsVars, rpLast, rpRecent, rpPc, rpLeft, rpCh, rpGot, rpRemote, rpErrVars>>

\* The range skips what has left the map, and ends.
PinRangeEnd ==
    /\ rpPc = "range" /\ rpTodo \cap Present = {}
    /\ rpPc' = "receive" /\ rpTodo' = {}
    /\ UNCHANGED <<rpPolicyVars, rpMfsVars, rpLast, rpRecent, rpLeft, rpCh, rpGot, rpJobs, rpRemote, rpErrVars>>

\* The results are counted against the size the map has now.
PinReceive(x) ==
    /\ rpPc = "receive" /\ rpGot < Cardinality(Present)
    /\ x \in rpCh /\ rpCh' = rpCh \ {x}
    /\ rpGot' = rpGot + 1 /\ rpLeft' = rpLeft + 1
    /\ IF x.valid
       THEN /\ rpLast' = [rpLast EXCEPT ![x.svc] = <<x.root, x.conf>>]
            /\ rpRecent' = rpRecent \cup {x.svc}
       ELSE UNCHANGED <<rpLast, rpRecent>>
    /\ UNCHANGED <<rpPolicyVars, rpMfsVars, rpPc, rpTodo, rpJobs, rpRemote, rpErrVars>>

PinRoundEnd ==
    /\ rpPc = "receive" /\ rpGot >= Cardinality(Present)
    /\ rpPc' = "sleep"
    /\ UNCHANGED <<rpPolicyVars, rpMfsVars, rpLast, rpRecent, rpTodo, rpLeft, rpCh, rpGot, rpJobs, rpRemote, rpErrVars>>

\* The context of the node ends while the loop sleeps.
PinStop ==
    /\ rpPc = "sleep" /\ rpPc' = "ended"
    /\ UNCHANGED <<rpPolicyVars, rpMfsVars, rpLast, rpRecent, rpTodo, rpLeft, rpCh, rpGot, rpJobs, rpRemote, rpErrVars>>

-----------------------------------------------------------------------------
(* pinMFS.                                                                 *)

Becomes(j, stage, at) == (rpJobs \ {j}) \cup {[j EXCEPT !.stage = stage, !.at = at]}

\* A pin that makes another one of this root needless.
Serves(pin, root) == pin.root = root /\ ~pin.failed

\* Mutant: pins of another root are not looked for.
PinLs_SameRoot(j) ==
    /\ j \in rpJobs /\ j.stage = "ls"
    /\ LET pins == rpRemote[j.svc] IN
          rpJobs' = IF \E i \in DOMAIN pins : Serves(pins[i], j.root) THEN Becomes(j, "done", 0)
                    ELSE Becomes(j, "add", 0)
    /\ UNCHANGED <<rpPolicyVars, rpMfsVars, rpLast, rpRecent, rpLoopVars, rpRemote, rpErrVars>>

\* The listing by name: a pin of this root that has not failed ends the job,
\* otherwise the pin listed last is to be replaced, otherwise one is added.
PinLs(j) ==
    /\ j \in rpJobs /\ j.stage = "ls"
    /\ LET pins == rpRemote[j.svc] IN
          rpJobs' = IF \E i \in DOMAIN pins : Serves(pins[i], j.root) THEN Becomes(j, "done", 0)
                    ELSE IF pins # <<>> THEN Becomes(j, "replace", Len(pins))
                    ELSE Becomes(j, "add", 0)
    /\ UNCHANGED <<rpPolicyVars, rpMfsVars, rpLast, rpRecent, rpLoopVars, rpRemote, rpErrVars>>

\* Add or Replace.  applied: it took effect; ok: and the answer came back.
PinPut(j, applied, ok) ==
    /\ j \in rpJobs /\ j.stage \in {"add", "replace"}
    /\ ok => applied
    /\ ok \/ rpErrors < MaxErrors
    /\ rpErrors' = IF ok THEN rpErrors ELSE rpErrors + 1
    /\ rpLost' = (rpLost \/ (applied /\ ~ok))
    /\ rpRemote' = IF ~applied THEN rpRemote
                   ELSE LET pin == [root |-> j.root, failed |-> FALSE] IN
                        [rpRemote EXCEPT ![j.svc] =
                            IF j.stage = "add" THEN Append(@, pin) ELSE [@ EXCEPT ![j.at] = pin]]
    /\ rpJobs' = Becomes(j, IF ok THEN "done" ELSE "failed", 0)
    /\ UNCHANGED <<rpPolicyVars, rpMfsVars, rpLast, rpRecent, rpLoopVars>>

\* A failed listing; nothing was done.
PinLsFails(j) ==
    /\ j \in rpJobs /\ j.stage = "ls" /\ rpErrors < MaxErrors
    /\ rpErrors' = rpErrors + 1
    /\ rpJobs' = Becomes(j, "failed", 0)
    /\ UNCHANGED <<rpLost, rpPolicyVars, rpMfsVars, rpLast, rpRecent, rpLoopVars, rpRemote>>

\* The result goes to the channel of the job's own round, when there is room.
PinResult(j) ==
    /\ j \in rpJobs /\ j.stage \in {"done", "failed"}
    /\ rpJobs' = rpJobs \ {j}
    /\ IF j.old THEN UNCHANGED <<rpLeft, rpCh>>
       ELSE /\ rpLeft > 0 /\ rpLeft' = rpLeft - 1
            /\ rpCh' = rpCh \cup {IF j.stage = "done"
                                  THEN [svc |-> j.svc, valid |-> TRUE, root |-> j.root, conf |-> j.conf]
                                  ELSE [svc |-> j.svc, valid |-> FALSE]}
    /\ UNCHANGED <<rpPolicyVars, rpMfsVars, rpLast, rpRecent, rpPc, rpTodo, rpGot, rpRemote, rpErrVars>>

-----------------------------------------------------------------------------
(* What others do meanwhile.                                               *)

\* A change of MFS, to a new root or back to an earlier one.
MfsChange(r) ==
    /\ rpPc # "idle" /\ rpChanges < MaxChanges /\ r # rpRoot
    /\ rpRoot' = r /\ rpChanges' = rpChanges + 1
    /\ rpBack' = (rpBack \/ r < rpRoot)
    /\ UNCHANGED <<rpPolicyVars, rpLast, rpRecent, rpLoopVars, rpJobs, rpRemote, rpErrVars>>

\* RepinInterval passes.
Elapse(s) ==
    /\ s \in rpRecent /\ rpRecent' = rpRecent \ {s}
    /\ UNCHANGED <<rpPolicyVars, rpMfsVars, rpLast, rpLoopVars, rpJobs, rpRemote, rpErrVars>>

\* A service gives up on a pin.
ServiceFails(s, i) ==
    /\ rpErrors < MaxErrors /\ rpErrors' = rpErrors + 1
    /\ i \in DOMAIN rpRemote[s] /\ ~rpRemote[s][i].failed
    /\ rpRemote' = [rpRemote EXCEPT ![s][i].failed = TRUE]
    /\ UNCHANGED <<rpLost, rpPolicyVars, rpMfsVars, rpLast, rpRecent, rpLoopVars, rpJobs>>

InRound == rpPc \in {"range", "receive"}

\* `pin remote service add`: refused when present, stored without a policy.
\* A range that is running may or may not produce the new key.
ServiceAdd(s, reached) ==
    /\ rpPc # "idle" /\ rpEdits < MaxEdits /\ rpEdits' = rpEdits + 1
    /\ rpConf[s] = "absent"
    /\ rpConf' = [rpConf EXCEPT ![s] = "off"]
    /\ rpTodo' = IF rpPc = "range" /\ reached THEN rpTodo \cup {s} ELSE rpTodo
    /\ rpGrew' = (rpGrew \/ InRound)
    /\ UNCHANGED <<rpShrank, rpMfsVars, rpLast, rpRecent, rpPc, rpLeft, rpCh, rpGot, rpJobs, rpRemote, rpErrVars>>

\* `pin remote service rm`; a name that is not there is no error.
ServiceRm(s) ==
    /\ rpPc # "idle" /\ rpEdits < MaxEdits /\ rpEdits' = rpEdits + 1
    /\ rpConf[s] # "absent"
    /\ rpConf' = [rpConf EXCEPT ![s] = "absent"]
    /\ rpShrank' = (rpShrank \/ InRound)
    /\ UNCHANGED <<rpGrew, rpMfsVars, rpLast, rpRecent, rpLoopVars, rpJobs, rpRemote, rpErrVars>>

\* The MFS policy is set with `ipfs config`: another map, other policies.
\* The loop sees it from its next round on, so it is a step of the sleep.
SetPolicy(s, c) ==
    /\ rpPc = "sleep" /\ rpEdits < MaxEdits /\ rpEdits' = rpEdits + 1
    /\ rpConf[s] \notin {"absent", c}
    /\ rpConf' = [rpConf EXCEPT ![s] = c]
    /\ UNCHANGED <<rpGrew, rpShrank, rpMfsVars, rpLast, rpRecent, rpLoopVars, rpJobs, rpRemote, rpErrVars>>

RpCallStep == \E j \in rpJobs : PinLs(j) \/ \E a, ok \in BOOLEAN : PinPut(j, a, ok)
RpJobStep == \E j \in rpJobs : PinResult(j)
RpLoopStep ==
    \/ PinRangeEnd \/ PinRoundEnd
    \/ \E s \in Services : PinSkip(s) \/ PinStart(s)
    \/ \E x \in rpCh : PinReceive(x)

RpNext ==
    \/ \E conf \in [Services -> {"absent", "v1"}] : StartPinMFS(conf)
    \/ PinRound \/ PinStop \/ RpLoopStep \/ RpCallStep \/ RpJobStep
    \/ \E j \in rpJobs : PinLsFails(j)
    \/ \E r \in 0..MaxRoot : MfsChange(r)
    \/ \E s \in Services : \/ Elapse(s) \/ ServiceRm(s)
                           \/ \E i \in DOMAIN rpRemote[s] : ServiceFails(s, i)
                           \/ \E r \in BOOLEAN : ServiceAdd(s, r)
                           \/ \E c \in {"off", "v1", "v2"} : SetPolicy(s, c)

\* The loop's timer, what a job does by itself and the passing of time; nothing
\* makes a call to a service return.
RpFairness ==
    /\ WF_rpVars(PinRound) /\ WF_rpVars(RpLoopStep) /\ WF_rpVars(RpJobStep)
    /\ \A s \in Services : WF_rpVars(Elapse(s))

-----------------------------------------------------------------------------
(* Properties.                                                             *)

\* Somebody can still send a result of this round.
Awaited == rpCh # {} \/ \E j \in rpJobs : ~j.old

\* pinAllMFS waits for a result nobody will send, or sends one there is no
\* room for, only if a service was added to the map during a round.
RpStuckOnlyIfGrew ==
    /\ rpPc = "receive" /\ rpGot < Cardinality(Present) /\ ~Awaited => rpGrew
    /\ rpPc = "range" /\ rpLeft = 0 /\ rpTodo \cap Present # {} => rpGrew

\* The MFS root has one pin on a service, replaced and not added to, through
\* lost answers and retries, as long as no service was removed during a round
\* (the loop then goes on without its jobs, and two may add at once).
RpOnePin == \A s \in Services : Len(rpRemote[s]) > 1 => rpShrank

\* The call of a goroutine to this service never returns, and with it the round
\* that waits for every result: one service can hold up all others.
CallHangs(s) == <>[](\E j \in rpJobs : j.svc = s /\ j.stage \in {"ls", "add", "replace"})

\* Once MFS and the configuration rest, every enabled service is given the last
\* root (pinMFSOnChange retries for ever), although it may fail to pin it.  The
\* exceptions are the ways in which the code loses track: a call that hangs; a
\* round that hangs because the map grew; a job that the loop forgot because
\* the map shrank, and that puts its old root over the new one; and a
\* replacement that took effect although its call failed, after which the root
\* returns to the one lastPins remembers.
RpPinned ==
    \/ \E s \in Services : CallHangs(s)
    \/ []<>(\A s \in Services :
               \/ \E i \in DOMAIN rpRemote[s] : rpRemote[s][i].root = rpRoot
               \/ ~Enabled(rpConf[s])
               \/ rpPc \in {"idle", "ended"}
               \/ rpGrew \/ rpShrank \/ (rpLost /\ rpBack))

\* A round hangs, and a root is pinned twice, only when the services changed
\* during the round (pinAllMFS, pinMFS).
RpSound == RpTypeOK /\ RpStuckOnlyIfGrew /\ RpOnePin
=============================================================================
