----------------------------- MODULE RepoConfig -----------------------------
(***************************************************************************)
(* The configuration of an open repository: the config file, the           *)
(* config.Config object that FSRepo.config points to, and the commands of  *)
(* one process that change both (kubo/repo/fsrepo, kubo/core/commands).    *)
(*                                                                         *)
(* SetConfig and SetConfigKey run under packageLock and are one step each; *)
(* what a command does between Config() and SetConfig is not protected,    *)
(* and bootstrap and pin remote service change the shared object in place. *)
(* A step is what one goroutine does between two accesses to the shared    *)
(* object.                                                                 *)
(*                                                                         *)
(* The fields of a configuration stand for the ways a key is merged:       *)
(*   priv   Identity.PrivKey, guarded by the code;                         *)
(*   boot   Bootstrap, a list: replaced as a whole.  Its order and its     *)
(*          duplicates are left out;                                       *)
(*   svc    Pinning.RemoteServices, a map: merged key by key;              *)
(*   opt    a key with omitempty, absent from the map when it is Unset;    *)
(*   extra  a key of the file that config.Config does not know.            *)
(***************************************************************************)
EXTENDS Integers, FiniteSets

CONSTANTS
    Reqs,       \* goroutines that serve commands
    Objs,       \* config.Config objects
    Peers, Services, Opts, Extras,
    BootLists,  \* the bootstrap lists users write with config and config replace
    PrivKey,    \* the key of this node
    OtherKey,   \* a key that a user tries to set
    Faults,     \* what a write may meet, from AllFaults
    MaxCommands,    \* bounds the commands of a behaviour
    Unset, None, Torn

AllFaults == {"error", "torn", "lost"}

VARIABLES
    file,       \* the config file, Torn when it does not decode
    lastWrite,  \* whether the last WriteConfigFile put its argument there
    cfg,        \* the contents of the config.Config objects
    mem,        \* r.config
    up,         \* whether the process runs
    cmd,        \* the command a goroutine serves, None when it is idle
    pc,         \* how far it is
    ref,        \* the config.Config object it has
    local,      \* the bootstrap peers in its local variable
    base,       \* the file when it started, None if others ran meanwhile
    served      \* how many commands have begun

diskVars == <<file, lastWrite>>
memVars  == <<cfg, mem, up>>
reqVars  == <<cmd, pc, ref, local, base>>
vars == <<diskVars, memVars, reqVars, served>>

Keys    == {PrivKey, OtherKey}
OptVals == Opts \cup {Unset}
Configs == [priv : Keys, boot : SUBSET Peers, svc : SUBSET Services, opt : OptVals]
Files   == [priv : Keys, boot : SUBSET Peers, svc : SUBSET Services, opt : OptVals,
            extra : Extras]

(* bootstrap and pin remote service change the shared object, the config   *)
(* profiles a clone, config replace an object decoded from its input; the  *)
(* set commands call SetConfigKey.                                         *)
BootOps    == {"bootAdd", "bootRm", "bootRmAll"}
SvcOps     == {"svcAdd", "svcRm"}
SetOps     == {"setIdentity", "setBoot", "setOpt", "setExtra"}
PrivateOps == {"profile", "replace"}
Command(op, arg, val) == [op |-> op, arg |-> arg, val |-> val]

\* The requests users make.  What is not a peer, a service or a known profile
\* is refused before anything is read; bootstrap add default adds all at once.
bootstrapAddCmd       == {Command("bootAdd", p, {}) : p \in Peers}
bootstrapRemoveCmd    == {Command("bootRm", p, {}) : p \in Peers}
bootstrapRemoveAllCmd == {Command("bootRmAll", None, {})}
serviceCmds           == {Command(op, s, {}) : op \in SvcOps, s \in Services}
configProfileApplyCmd == {Command("profile", v, {}) : v \in Opts}
configReplaceCmd      == {Command("replace", v, b) : v \in OptVals, b \in BootLists}
\* config, which refuses the Identity; another caller of SetConfigKey does not.
ConfigCmd ==
    {Command("setBoot", None, b) : b \in BootLists}
        \cup {Command("setOpt", v, {}) : v \in OptVals}
        \cup {Command("setExtra", x, {}) : x \in Extras}
identityCalls == {Command("setIdentity", k, {}) : k \in Keys}
Commands ==
    bootstrapAddCmd \cup bootstrapRemoveCmd \cup bootstrapRemoveAllCmd \cup serviceCmds
        \cup configProfileApplyCmd \cup configReplaceCmd \cup ConfigCmd \cup identityCalls

ASSUME RepoConfigAssumption ==
    /\ IsFiniteSet(Reqs) /\ IsFiniteSet(Objs)
    /\ Cardinality(Objs) > Cardinality(Reqs)
    /\ PrivKey # OtherKey
    /\ MaxCommands \in Nat
    /\ BootLists \subseteq SUBSET Peers
    /\ Unset \notin Opts
    /\ None \notin Objs \cup Commands
    /\ Torn \notin Files
    /\ Faults \subseteq AllFaults

Stages == {"idle", "start", "config", "add", "addBack", "store", "write"}

(* The type invariant.  Its last conjunct says that the copy a profile or  *)
(* a replacement works on is not the object other goroutines read: Clone   *)
(* in transformConfig, newCfg in replaceConfig.                            *)
TypeOK ==
    /\ file \in Files \cup {Torn}
    /\ lastWrite \in BOOLEAN
    /\ cfg \in [Objs -> Configs]
    /\ mem \in Objs
    /\ up \in BOOLEAN
    /\ cmd \in [Reqs -> Commands \cup {None}]
    /\ pc \in [Reqs -> Stages]
    /\ ref \in [Reqs -> Objs \cup {None}]
    /\ local \in [Reqs -> SUBSET Peers]
    /\ base \in [Reqs -> Files \cup {None}]
    /\ served \in 0 .. MaxCommands
    /\ \A r \in Reqs : (pc[r] = "idle") = (cmd[r] = None)
    /\ \A r \in Reqs : pc[r] \in {"config", "add", "addBack", "store", "write"}
                           => ref[r] # None
    /\ \A r, q \in Reqs : (pc[r] = "write" /\ cmd[r].op \in PrivateOps)
                              => ref[r] # mem /\ (q # r => ref[q] # ref[r])

-----------------------------------------------------------------------------
FromMap(f) == [priv |-> f.priv, boot |-> f.boot, svc |-> f.svc, opt |-> f.opt]

(* Mutant: SetConfig writes the struct over the file.                      *)
MapMergeDeep_Struct(f, c) ==
    [priv |-> c.priv, boot |-> c.boot, svc |-> c.svc, opt |-> c.opt,
     extra |-> CHOOSE x \in Extras : TRUE]

(* MapMergeDeep of the file with ToMap of an object: lists are replaced,   *)
(* maps united, keys that ToMap leaves out or does not know are kept.      *)
MapMergeDeep(f, c) ==
    [priv  |-> c.priv,
     boot  |-> c.boot,
     svc   |-> f.svc \cup c.svc,
     opt   |-> IF c.opt = Unset THEN f.opt ELSE c.opt,
     extra |-> f.extra]

(* SetConfigKey's map: the key is set, then the private key is put back.   *)
MapSetKV(f, c) ==
    CASE c.op = "setIdentity" -> [f EXCEPT !.priv = c.arg]
      [] c.op = "setBoot"     -> [f EXCEPT !.boot = c.val]
      [] c.op = "setOpt"      -> [f EXCEPT !.opt = c.arg]
      [] c.op = "setExtra"    -> [f EXCEPT !.extra = c.arg]

(* Mutant: SetConfigKey does not put the key back.                         *)
GuardPrivKey_Off(f, m) == m
GuardPrivKey(f, m) == [m EXCEPT !.priv = f.priv]

(* WriteConfigFile(new): a failure before the first byte leaves the file;  *)
(* after a failed write the deferred Close of the atomic file still        *)
(* renames what was written; an error of that Close is dropped.            *)
WriteConfigFile(new, outcome) ==
    /\ outcome \in {"ok"} \cup Faults
    /\ lastWrite' = (outcome = "ok")
    /\ file' = CASE outcome = "ok" -> new
                 [] outcome = "torn" -> Torn
                 [] OTHER -> file
Reported(outcome) == outcome \in {"error", "torn"}

(* An object that nobody has a pointer to after the step is garbage.       *)
Blank == [priv |-> PrivKey, boot |-> {}, svc |-> {}, opt |-> Unset]
Live(m, rf) == {m} \cup {rf[q] : q \in Reqs}
Collect(c) == cfg' = [o \in Objs |-> IF o \in Live(mem', ref') THEN c[o] ELSE Blank]
InUse == Live(mem, ref)

Finish(r) ==
    /\ cmd' = [cmd EXCEPT ![r] = None]
    /\ pc' = [pc EXCEPT ![r] = "idle"]
    /\ ref' = [ref EXCEPT ![r] = None]
    /\ local' = [local EXCEPT ![r] = {}]
    /\ base' = [base EXCEPT ![r] = None]

Goto(r, stage) == pc' = [pc EXCEPT ![r] = stage]

Init ==
    /\ \E b \in BootLists, x \in Extras :
          file = [priv |-> PrivKey, boot |-> b, svc |-> {}, opt |-> Unset, extra |-> x]
    /\ lastWrite = TRUE
    /\ mem \in Objs
    /\ cfg = [o \in Objs |-> IF o = mem THEN FromMap(file) ELSE Blank]
    /\ up = TRUE
    /\ cmd = [r \in Reqs |-> None]
    /\ pc = [r \in Reqs |-> "idle"]
    /\ ref = [r \in Reqs |-> None]
    /\ local = [r \in Reqs |-> {}]
    /\ base = [r \in Reqs |-> None]
    /\ served = 0

(* A command arrives and has opened the repository.                        *)
Begin(r) ==
    /\ up /\ pc[r] = "idle"
    /\ served < MaxCommands /\ served' = served + 1
    /\ \E c \in Commands : cmd' = [cmd EXCEPT ![r] = c]
    /\ Goto(r, "start")
    /\ base' = [q \in Reqs |->
                  IF q = r /\ lastWrite /\ file # Torn /\ \A s \in Reqs : pc[s] = "idle"
                  THEN file ELSE None]
    /\ UNCHANGED <<diskVars, memVars, ref, local>>

(* It is refused before it changes anything: an address that does not      *)
(* parse, a service that is present, a replacement with a private key.     *)
EarlyReturn(r) ==
    /\ up /\ pc[r] \in {"start", "config"}
    /\ Finish(r)
    /\ UNCHANGED <<diskVars, mem, up, served>>
    /\ Collect(cfg)

(* r.Config() of the commands that change the shared object.               *)
Config(r) ==
    /\ up /\ pc[r] = "start" /\ cmd[r].op \in BootOps \cup SvcOps
    /\ ref' = [ref EXCEPT ![r] = mem]
    /\ Goto(r, "config")
    /\ UNCHANGED <<diskVars, memVars, cmd, local, base, served>>

(* bootstrapAdd: bpeers := cfg.Bootstrap; cfg.Bootstrap = nil              *)
bootstrapAdd(r) ==
    /\ up /\ pc[r] = "config" /\ cmd[r].op = "bootAdd"
    /\ local' = [local EXCEPT ![r] = cfg[ref[r]].boot]
    /\ cfg' = [cfg EXCEPT ![ref[r]].boot = {}]
    /\ Goto(r, "add")
    /\ UNCHANGED <<diskVars, mem, up, cmd, ref, base, served>>

(* the loop that appends the new peers                                     *)
AddNew(r) ==
    /\ up /\ pc[r] = "add"
    /\ cfg' = [cfg EXCEPT ![ref[r]].boot = @ \cup {cmd[r].arg}]
    /\ Goto(r, "addBack")
    /\ UNCHANGED <<diskVars, mem, up, cmd, ref, local, base, served>>

(* Mutant: only the new peers are stored.                                  *)
AddBack_Forget(r) ==
    /\ up /\ pc[r] = "addBack"
    /\ Goto(r, "write")
    /\ UNCHANGED <<diskVars, memVars, cmd, ref, local, base, served>>

(* the loop that appends the peers that were there                         *)
AddBack(r) ==
    /\ up /\ pc[r] = "addBack"
    /\ cfg' = [cfg EXCEPT ![ref[r]].boot = @ \cup local[r]]
    /\ Goto(r, "write")
    /\ UNCHANGED <<diskVars, mem, up, cmd, ref, local, base, served>>

(* bootstrapRemove computes what to keep and stores it.                    *)
bootstrapRemove(r) ==
    /\ up /\ pc[r] = "config" /\ cmd[r].op = "bootRm"
    /\ local' = [local EXCEPT ![r] = cfg[ref[r]].boot \ {cmd[r].arg}]
    /\ Goto(r, "store")
    /\ UNCHANGED <<diskVars, memVars, cmd, ref, base, served>>

SetBootstrapPeers(r) ==
    /\ up /\ pc[r] = "store"
    /\ cfg' = [cfg EXCEPT ![ref[r]].boot = local[r]]
    /\ Goto(r, "write")
    /\ UNCHANGED <<diskVars, mem, up, cmd, ref, local, base, served>>

bootstrapRemoveAll(r) ==
    /\ up /\ pc[r] = "config" /\ cmd[r].op = "bootRmAll"
    /\ cfg' = [cfg EXCEPT ![ref[r]].boot = {}]
    /\ Goto(r, "write")
    /\ UNCHANGED <<diskVars, mem, up, cmd, ref, local, base, served>>

(* pin remote service add and rm                                           *)
ServiceAdd(r) ==
    /\ up /\ pc[r] = "config" /\ cmd[r].op = "svcAdd"
    /\ cmd[r].arg \notin cfg[ref[r]].svc
    /\ cfg' = [cfg EXCEPT ![ref[r]].svc = @ \cup {cmd[r].arg}]
    /\ Goto(r, "write")
    /\ UNCHANGED <<diskVars, mem, up, cmd, ref, local, base, served>>

ServiceRm(r) ==
    /\ up /\ pc[r] = "config" /\ cmd[r].op = "svcRm"
    /\ cfg' = [cfg EXCEPT ![ref[r]].svc = @ \ {cmd[r].arg}]
    /\ Goto(r, "write")
    /\ UNCHANGED <<diskVars, mem, up, cmd, ref, local, base, served>>

(* Mutant: the profile is applied to the shared object.                    *)
transformConfig_NoClone(r) ==
    /\ up /\ pc[r] = "start" /\ cmd[r].op = "profile"
    /\ ref' = [ref EXCEPT ![r] = mem]
    /\ cfg' = [cfg EXCEPT ![mem].opt = cmd[r].arg]
    /\ Goto(r, "write")
    /\ UNCHANGED <<diskVars, mem, up, cmd, local, base, served>>

(* transformConfig: the profile changes a clone of the shared object.      *)
transformConfig(r) ==
    /\ up /\ pc[r] = "start" /\ cmd[r].op = "profile"
    /\ \E o \in Objs \ InUse :
          /\ ref' = [ref EXCEPT ![r] = o]
          /\ cfg' = [cfg EXCEPT ![o] = [cfg[mem] EXCEPT !.opt = cmd[r].arg]]
    /\ Goto(r, "write")
    /\ UNCHANGED <<diskVars, mem, up, cmd, local, base, served>>

(* replaceConfig decodes its input and takes the private key and the       *)
(* services from the file.                                                 *)
replaceConfig(r) ==
    /\ up /\ pc[r] = "start" /\ cmd[r].op = "replace"
    /\ file # Torn
    /\ \E o \in Objs \ InUse :
          /\ ref' = [ref EXCEPT ![r] = o]
          /\ cfg' = [cfg EXCEPT ![o] = [priv |-> file.priv, boot |-> cmd[r].val,
                                        svc |-> file.svc, opt |-> cmd[r].arg]]
    /\ Goto(r, "write")
    /\ UNCHANGED <<diskVars, mem, up, cmd, local, base, served>>

(* Mutant: SetConfig forgets r.config = updated.                           *)
SetConfig_Unpublished(r) ==
    /\ up /\ pc[r] = "write" /\ file # Torn
    /\ \E outcome \in {"ok"} \cup Faults :
          WriteConfigFile(MapMergeDeep(file, cfg[ref[r]]), outcome)
    /\ Finish(r)
    /\ UNCHANGED <<mem, up, served>>
    /\ Collect(cfg)

(* SetConfig merges the object into the file and publishes it.             *)
SetConfig(r) ==
    /\ up /\ pc[r] = "write" /\ file # Torn
    /\ \E outcome \in {"ok"} \cup Faults :
          /\ WriteConfigFile(MapMergeDeep(file, cfg[ref[r]]), outcome)
          /\ mem' = IF Reported(outcome) THEN mem ELSE ref[r]
    /\ Finish(r)
    /\ Collect(cfg)
    /\ UNCHANGED <<up, served>>

(* SetConfigKey reads the file, sets one key and publishes what it decodes *)
(* from the map before it writes the map.                                  *)
SetConfigKey(r) ==
    /\ up /\ pc[r] = "start" /\ cmd[r].op \in SetOps /\ file # Torn
    /\ LET new == GuardPrivKey(file, MapSetKV(file, cmd[r]))
       IN \E o \in Objs \ InUse, outcome \in {"ok"} \cup Faults :
             /\ WriteConfigFile(new, outcome)
             /\ mem' = o
             /\ Finish(r)
             /\ Collect([cfg EXCEPT ![o] = FromMap(new)])
    /\ UNCHANGED <<up, served>>

(* With a file that does not decode SetConfig, SetConfigKey and            *)
(* GetConfigKey return an error.                                           *)
ReadFails(r) ==
    /\ up /\ pc[r] \in {"start", "write"} /\ file = Torn
    /\ pc[r] = "start" => cmd[r].op \in SetOps \cup {"replace"}
    /\ Finish(r)
    /\ UNCHANGED <<diskVars, mem, up, served>>
    /\ Collect(cfg)

(* The process ends, in the middle of commands or not.                     *)
Stop ==
    /\ up /\ up' = FALSE
    /\ cmd' = [r \in Reqs |-> None]
    /\ pc' = [r \in Reqs |-> "idle"]
    /\ ref' = [r \in Reqs |-> None]
    /\ local' = [r \in Reqs |-> {}]
    /\ base' = [r \in Reqs |-> None]
    /\ UNCHANGED mem
    /\ Collect(cfg)
    /\ UNCHANGED <<diskVars, served>>

(* The next process loads the file: open() fails when it does not decode.  *)
openConfig ==
    /\ ~up /\ file # Torn
    /\ up' = TRUE
    /\ mem' \in Objs
    /\ cfg' = [o \in Objs |-> IF o = mem' THEN FromMap(file) ELSE Blank]
    /\ lastWrite' = TRUE
    /\ UNCHANGED <<file, reqVars, served>>

Step(r) ==
    \/ Begin(r) \/ EarlyReturn(r) \/ Config(r)
    \/ bootstrapAdd(r) \/ AddNew(r) \/ AddBack(r)
    \/ bootstrapRemove(r) \/ SetBootstrapPeers(r) \/ bootstrapRemoveAll(r)
    \/ ServiceAdd(r) \/ ServiceRm(r)
    \/ transformConfig(r) \/ replaceConfig(r)
    \/ SetConfig(r) \/ SetConfigKey(r) \/ ReadFails(r)

Next == Stop \/ openConfig \/ \E r \in Reqs : Step(r)

Spec == Init /\ [][Next]_vars

-----------------------------------------------------------------------------
Quiet == \A r \in Reqs : pc[r] = "idle"

(* No command, whatever it overlaps with and however it fails, changes the *)
(* private key, neither in the file nor in the configuration in use: the   *)
(* guard in SetConfigKey (fsrepo.go:654-670) and the key that              *)
(* replaceConfig re-applies are enough.                                    *)
PrivKeyKept ==
    /\ file # Torn => file.priv = PrivKey
    /\ cfg[mem].priv = PrivKey

(* When no command is under way and the last write succeeded, a restart    *)
(* would load the configuration in use, but for what the merge brings      *)
(* back: services that were removed and optional keys that were unset.  It *)
(* holds although commands change the shared object in place and overlap.  *)
MemoryIsFile ==
    up /\ Quiet /\ lastWrite =>
        /\ file # Torn
        /\ cfg[mem].priv = file.priv
        /\ cfg[mem].boot = file.boot
        /\ cfg[mem].svc \subseteq file.svc
        /\ cfg[mem].opt \in {Unset, file.opt}

(* A key that config.Config does not know is changed by `ipfs config` on   *)
(* that key and by no other command, which is why SetConfig merges into    *)
(* the file (fsrepo.go:602-604).                                           *)
UserKeysKept ==
    [][ (file # Torn /\ file' # Torn /\ file'.extra # file.extra)
          => \E r \in Reqs : cmd[r] = Command("setExtra", file'.extra, {})
                                /\ pc'[r] = "idle" ]_vars

(* What the file should be after a command that ran alone.  Removing a     *)
(* service and unsetting an optional key leave the file as it is.          *)
Effect(c, f) ==
    CASE c.op = "bootAdd"     -> [f EXCEPT !.boot = @ \cup {c.arg}]
      [] c.op = "bootRm"      -> [f EXCEPT !.boot = @ \ {c.arg}]
      [] c.op = "bootRmAll"   -> [f EXCEPT !.boot = {}]
      [] c.op = "svcAdd"      -> [f EXCEPT !.svc = @ \cup {c.arg}]
      [] c.op = "svcRm"       -> f
      [] c.op = "profile"     -> [f EXCEPT !.opt = c.arg]
      [] c.op = "replace"     -> [f EXCEPT !.boot = c.val,
                                     !.opt = IF c.arg = Unset THEN f.opt ELSE c.arg]
      [] c.op = "setIdentity" -> f
      [] c.op = "setBoot"     -> [f EXCEPT !.boot = c.val]
      [] c.op = "setOpt"      -> [f EXCEPT !.opt = c.arg]
      [] c.op = "setExtra"    -> [f EXCEPT !.extra = c.arg]

(* A command that runs alone changes the file by its own effect and        *)
(* nothing else, after whatever overlapping commands and restarts there    *)
(* were: no stale field of the configuration in use reaches the file.      *)
OwnEffectOnly ==
    [][ \A r \in Reqs :
          (base[r] # None /\ lastWrite' /\ pc[r] \in {"start", "write"} /\ file' # file)
            => file' = Effect(cmd[r], base[r]) ]_vars

\* No clone is shared with another goroutine, and the private key is the one
\* of this node in memory and on disk (transformConfig, SetConfigKey).
ConfigSound == TypeOK /\ PrivKeyKept
=============================================================================
