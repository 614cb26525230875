-------------------------- MODULE RepositoryProofs --------------------------
(***************************************************************************)
(* Proofs about a repository.  RepoConfig, for any number of goroutines,   *)
(* commands and values: the type invariant, that the private key is kept,  *)
(* that a quiet process has the configuration of its file, that keys the   *)
(* struct does not know are kept, and that a command that runs alone       *)
(* writes its own change and no other.  Keys, for any names, keys and      *)
(* requests: that no key is lost unless requests overlap.  Reading, for    *)
(* any DAG, roots, files and options: that refs, cat and files stat answer *)
(* what was asked for.                                                     *)
(***************************************************************************)
EXTENDS MCRepository, FiniteSetTheorems, WellFoundedInduction, TLAPS

(* The stages a command goes through, and the object it has meanwhile.     *)
Staged ==
    \A r \in Reqs :
        /\ pc[r] \in {"idle", "start"} => ref[r] = None
        /\ pc[r] = "config" => cmd[r].op \in BootOps \cup SvcOps
        /\ pc[r] \in {"add", "addBack"} => cmd[r].op = "bootAdd"
        /\ pc[r] = "store" => cmd[r].op = "bootRm"

(* Every object has the private key, so whichever is written or published  *)
(* keeps it.                                                               *)
KeyEverywhere ==
    /\ file # Torn => file.priv = PrivKey
    /\ \A o \in Objs : cfg[o].priv = PrivKey

Agree ==
    /\ cfg[mem].priv = file.priv
    /\ cfg[mem].boot = file.boot
    /\ cfg[mem].svc \subseteq file.svc
    /\ cfg[mem].opt \in {Unset, file.opt}

(* The goroutine has changed the object in use and will write it.          *)
Changing(r) == pc[r] \in {"add", "addBack", "store", "write"} /\ ref[r] = mem

(* After a write that succeeded memory and file agree, or someone who made *)
(* them differ is still to write.                                          *)
Synced ==
    /\ lastWrite => file # Torn
    /\ up /\ lastWrite => Agree \/ \E r \in Reqs : Changing(r)

(* No command outlives the process.                                        *)
Down == ~up => \A r \in Reqs : pc[r] = "idle"

IInv == TypeOK /\ Staged /\ KeyEverywhere /\ Synced

(* What the commands carry.                                                *)
LEMMA CommandTypes ==
    ASSUME NEW c \in Commands
    PROVE  /\ c.op \in {"bootAdd", "bootRm"} => c.arg \in Peers
           /\ c.op \in SvcOps => c.arg \in Services
           /\ c.op = "profile" => c.arg \in Opts
           /\ c.op = "replace" => c.arg \in OptVals /\ c.val \in SUBSET Peers
           /\ c.op = "setIdentity" => c.arg \in Keys
           /\ c.op = "setBoot" => c.val \in SUBSET Peers
           /\ c.op = "setOpt" => c.arg \in OptVals
           /\ c.op = "setExtra" => c.arg \in Extras
           /\ c.op \in BootOps \cup SvcOps \cup SetOps \cup PrivateOps
BY RepoConfigAssumption
   DEF Commands, bootstrapAddCmd, bootstrapRemoveCmd, bootstrapRemoveAllCmd, serviceCmds,
       configProfileApplyCmd, configReplaceCmd, ConfigCmd, identityCalls, Command,
       BootOps, SvcOps, SetOps, PrivateOps, OptVals, Keys

(* The helpers stay among the configurations and the files.                *)
LEMMA Helpers ==
    /\ Blank \in Configs
    /\ \A f \in Files : FromMap(f) \in Configs
    /\ \A f \in Files, c \in Configs : MapMergeDeep(f, c) \in Files
    /\ \A f \in Files, c \in Commands :
          c.op \in SetOps => GuardPrivKey(f, MapSetKV(f, c)) \in Files
<1>1. Blank \in Configs
  BY DEF Blank, Configs, Keys, OptVals
<1>2. ASSUME NEW f \in Files PROVE FromMap(f) \in Configs
  BY DEF FromMap, Files, Configs
<1>3. ASSUME NEW f \in Files, NEW c \in Configs PROVE MapMergeDeep(f, c) \in Files
  BY DEF MapMergeDeep, Files, Configs, OptVals
<1>4. ASSUME NEW f \in Files, NEW c \in Commands, c.op \in SetOps
      PROVE  GuardPrivKey(f, MapSetKV(f, c)) \in Files
  <2>1. MapSetKV(f, c) \in Files
    BY <1>4, CommandTypes DEF MapSetKV, SetOps, Files
  <2> QED BY <2>1 DEF GuardPrivKey, Files
<1> QED BY <1>1, <1>2, <1>3, <1>4

(* It holds when the process has just opened the repository.              *)
LEMMA InitIInv == Init => IInv
<1> SUFFICES ASSUME Init PROVE IInv
  OBVIOUS
<1>1. PICK b \in BootLists, x \in Extras :
        file = [priv |-> PrivKey, boot |-> b, svc |-> {}, opt |-> Unset, extra |-> x]
  BY DEF Init
<1>2. file \in Files /\ file # Torn
  BY <1>1, RepoConfigAssumption DEF Files, Keys, OptVals
<1>3. cfg \in [Objs -> Configs] /\ cfg[mem] = FromMap(file) /\ mem \in Objs
  BY <1>2, Helpers DEF Init
<1>4. TypeOK
  BY <1>2, <1>3, RepoConfigAssumption DEF Init, TypeOK, Stages
<1>5. Staged
  BY DEF Init, Staged
<1>6. KeyEverywhere
  BY <1>1, <1>3 DEF Init, KeyEverywhere, FromMap, Blank
<1>7. Synced
  BY <1>2, <1>3 DEF Synced, Agree, FromMap
<1> QED BY <1>4, <1>5, <1>6, <1>7 DEF IInv

(* A goroutine that goes on to another stage with the object it has.       *)
LEMMA BeginStep == ASSUME IInv, NEW r \in Reqs, Begin(r) PROVE IInv'
<1>1. PICK c \in Commands : cmd' = [cmd EXCEPT ![r] = c]
  BY DEF Begin
<1>2. TypeOK'
  <2>1. c # None
    BY RepoConfigAssumption
  <2>2. pc' = [pc EXCEPT ![r] = "start"] /\ ref' = ref /\ pc[r] = "idle"
    BY DEF Begin, Goto
  <2>3. base' \in [Reqs -> Files \cup {None}]
    BY DEF IInv, TypeOK, Begin
  <2>4. served' \in 0 .. MaxCommands
    BY RepoConfigAssumption DEF IInv, TypeOK, Begin
  <2> QED BY <1>1, <2>1, <2>2, <2>3, <2>4 DEF IInv, TypeOK, Begin, diskVars, memVars, Stages
<1>3. Staged'
  BY <1>1 DEF IInv, TypeOK, Staged, Begin, Goto
<1>4. KeyEverywhere'
  BY DEF IInv, KeyEverywhere, Begin, diskVars, memVars
<1>5. Synced'
  BY DEF IInv, TypeOK, Synced, Agree, Changing, Begin, Goto, diskVars, memVars
<1> QED BY <1>2, <1>3, <1>4, <1>5 DEF IInv

LEMMA ConfigStep == ASSUME IInv, NEW r \in Reqs, Config(r) PROVE IInv'
<1>1. TypeOK'
  BY RepoConfigAssumption DEF IInv, TypeOK, Config, Goto, diskVars, memVars, Stages, BootOps, SvcOps, PrivateOps
<1>2. Staged'
  BY DEF IInv, TypeOK, Staged, Config, Goto
<1>3. KeyEverywhere'
  BY DEF IInv, KeyEverywhere, Config, diskVars, memVars
<1>4. Synced'
  BY DEF IInv, TypeOK, Staged, Synced, Agree, Changing, Config, Goto, diskVars, memVars
<1> QED BY <1>1, <1>2, <1>3, <1>4 DEF IInv

(* The steps that change the object a goroutine has: afterwards it is      *)
(* Changing, if that object is the one in use.                             *)
LEMMA InPlace ==
    ASSUME IInv, NEW r \in Reqs, NEW c \in Configs, NEW stage \in {"add", "addBack", "write"},
           NEW l \in SUBSET Peers,
           pc[r] \in {"config", "add", "addBack", "store"},
           c.priv = PrivKey,
           cfg' = [cfg EXCEPT ![ref[r]] = c],
           pc' = [pc EXCEPT ![r] = stage],
           local' = [local EXCEPT ![r] = l],
           stage \in {"add", "addBack"} => cmd[r].op = "bootAdd",
           UNCHANGED <<diskVars, mem, up, cmd, ref, base, served>>
    PROVE  IInv'
<1>1. ref[r] \in Objs /\ cmd[r].op \notin PrivateOps
  BY DEF IInv, TypeOK, Staged, BootOps, SvcOps, PrivateOps
<1>2. cfg' \in [Objs -> Configs]
  BY <1>1 DEF IInv, TypeOK
<1>3. TypeOK'
  BY <1>1, <1>2 DEF IInv, TypeOK, diskVars, Stages
<1>4. Staged'
  BY DEF IInv, TypeOK, Staged
<1>5. KeyEverywhere'
  BY <1>1 DEF IInv, TypeOK, KeyEverywhere, diskVars
<1>6. Synced'
  <2>1. CASE ref[r] = mem
    BY <2>1 DEF IInv, TypeOK, Synced, Changing, diskVars
  <2>2. CASE ref[r] # mem
    <3>1. cfg'[mem'] = cfg[mem]
      BY <2>2 DEF IInv, TypeOK
    <3>2. Agree => Agree'
      BY <3>1 DEF Agree, diskVars
    <3>3. \A q \in Reqs : Changing(q) => Changing(q)'
      BY <2>2 DEF IInv, TypeOK, Changing
    <3> QED BY <3>2, <3>3 DEF IInv, Synced, diskVars
  <2> QED BY <2>1, <2>2
<1> QED BY <1>3, <1>4, <1>5, <1>6 DEF IInv

LEMMA BootstrapSteps ==
    ASSUME IInv, NEW r \in Reqs,
           \/ bootstrapAdd(r) \/ AddNew(r) \/ AddBack(r) \/ SetBootstrapPeers(r)
           \/ bootstrapRemoveAll(r) \/ ServiceAdd(r) \/ ServiceRm(r)
    PROVE  IInv'
<1>1. ref[r] \in Objs /\ cfg[ref[r]] \in Configs /\ cfg[ref[r]].priv = PrivKey
  BY DEF IInv, TypeOK, KeyEverywhere, bootstrapAdd, AddNew, AddBack, SetBootstrapPeers,
         bootstrapRemoveAll, ServiceAdd, ServiceRm
<1>2. cmd[r] \in Commands /\ local[r] \in SUBSET Peers
  BY DEF IInv, TypeOK, bootstrapAdd, AddNew, AddBack, SetBootstrapPeers,
         bootstrapRemoveAll, ServiceAdd, ServiceRm
<1> DEFINE boot(b) == [cfg[ref[r]] EXCEPT !.boot = b]
           svc(v)  == [cfg[ref[r]] EXCEPT !.svc = v]
<1>3. \A b \in SUBSET Peers : boot(b) \in Configs /\ boot(b).priv = PrivKey
  BY <1>1 DEF Configs
<1>4. \A v \in SUBSET Services : svc(v) \in Configs /\ svc(v).priv = PrivKey
  BY <1>1 DEF Configs
<1>5. cfg[ref[r]].boot \in SUBSET Peers /\ cfg[ref[r]].svc \in SUBSET Services
  BY <1>1 DEF Configs
<1>6. local = [local EXCEPT ![r] = local[r]]
  BY DEF IInv, TypeOK
<1>7. CASE bootstrapAdd(r)
  <2>1. cfg' = [cfg EXCEPT ![ref[r]] = boot({})]
    BY <1>7, <1>1 DEF IInv, TypeOK, bootstrapAdd
  <2> HIDE DEF boot
  <2> QED BY <1>7, <1>3, <1>5, <2>1, InPlace DEF bootstrapAdd, Goto
<1>8. CASE AddNew(r)
  <2>1. cmd[r].arg \in Peers /\ cmd[r].op = "bootAdd"
    BY <1>8, <1>2, CommandTypes DEF IInv, Staged, AddNew
  <2>2. cfg' = [cfg EXCEPT ![ref[r]] = boot(cfg[ref[r]].boot \cup {cmd[r].arg})]
    BY <1>8, <1>1 DEF IInv, TypeOK, AddNew
  <2>3. cfg[ref[r]].boot \cup {cmd[r].arg} \in SUBSET Peers
    BY <2>1, <1>5
  <2> HIDE DEF boot
  <2> QED BY <1>8, <1>2, <1>3, <1>6, <2>1, <2>2, <2>3, InPlace DEF AddNew, Goto
<1>9. CASE AddBack(r)
  <2>1. cfg' = [cfg EXCEPT ![ref[r]] = boot(cfg[ref[r]].boot \cup local[r])]
    BY <1>9, <1>1 DEF IInv, TypeOK, AddBack
  <2>2. cfg[ref[r]].boot \cup local[r] \in SUBSET Peers
    BY <1>2, <1>5
  <2> HIDE DEF boot
  <2> QED BY <1>9, <1>2, <1>3, <1>6, <2>1, <2>2, InPlace DEF AddBack, Goto
<1>10. CASE SetBootstrapPeers(r)
  <2>1. cfg' = [cfg EXCEPT ![ref[r]] = boot(local[r])]
    BY <1>10, <1>1 DEF IInv, TypeOK, SetBootstrapPeers
  <2> HIDE DEF boot
  <2> QED BY <1>10, <1>2, <1>3, <1>6, <2>1, InPlace DEF SetBootstrapPeers, Goto
<1>11. CASE bootstrapRemoveAll(r)
  <2>1. cfg' = [cfg EXCEPT ![ref[r]] = boot({})]
    BY <1>11, <1>1 DEF IInv, TypeOK, bootstrapRemoveAll
  <2>2. boot({}) \in Configs /\ boot({}).priv = PrivKey
    BY <1>3
  <2>3. pc[r] = "config" /\ pc' = [pc EXCEPT ![r] = "write"]
    BY <1>11 DEF bootstrapRemoveAll, Goto
  <2> HIDE DEF boot
  <2> QED BY <1>11, <1>2, <1>6, <2>1, <2>2, <2>3, InPlace DEF bootstrapRemoveAll
<1>12. CASE ServiceAdd(r)
  <2>1. cfg[ref[r]].svc \cup {cmd[r].arg} \in SUBSET Services
    BY <1>12, <1>2, <1>5, CommandTypes DEF ServiceAdd, SvcOps
  <2>2. cfg' = [cfg EXCEPT ![ref[r]] = svc(cfg[ref[r]].svc \cup {cmd[r].arg})]
    BY <1>12, <1>1 DEF IInv, TypeOK, ServiceAdd
  <2> HIDE DEF svc
  <2> QED BY <1>12, <1>2, <1>4, <1>6, <2>1, <2>2, InPlace DEF ServiceAdd, Goto
<1>13. CASE ServiceRm(r)
  <2>1. cfg[ref[r]].svc \ {cmd[r].arg} \in SUBSET Services
    BY <1>5
  <2>2. cfg' = [cfg EXCEPT ![ref[r]] = svc(cfg[ref[r]].svc \ {cmd[r].arg})]
    BY <1>13, <1>1 DEF IInv, TypeOK, ServiceRm
  <2> HIDE DEF svc
  <2> QED BY <1>13, <1>2, <1>4, <1>6, <2>1, <2>2, InPlace DEF ServiceRm, Goto
<1> QED BY <1>7, <1>8, <1>9, <1>10, <1>11, <1>12, <1>13

(* bootstrapRemove only computes what to keep.                             *)
LEMMA RemoveStep == ASSUME IInv, NEW r \in Reqs, bootstrapRemove(r) PROVE IInv'
<1>1. cfg[ref[r]] \in Configs /\ cmd[r].op \notin PrivateOps
  BY DEF IInv, TypeOK, bootstrapRemove, PrivateOps
<1>2. cfg[ref[r]].boot \ {cmd[r].arg} \in SUBSET Peers
  BY <1>1 DEF Configs
<1>3. TypeOK'
  BY <1>1, <1>2 DEF IInv, TypeOK, bootstrapRemove, Goto, diskVars, memVars, Stages
<1>4. Staged'
  BY DEF IInv, TypeOK, Staged, bootstrapRemove, Goto
<1>5. KeyEverywhere'
  BY DEF IInv, KeyEverywhere, bootstrapRemove, diskVars, memVars
<1>6. Synced'
  BY DEF IInv, TypeOK, Synced, Agree, Changing, bootstrapRemove, Goto, diskVars, memVars
<1> QED BY <1>3, <1>4, <1>5, <1>6 DEF IInv

(* A profile or a replacement makes an object that nobody else has.        *)
LEMMA PrivateSteps ==
    ASSUME IInv, NEW r \in Reqs, transformConfig(r) \/ replaceConfig(r)
    PROVE  IInv'
<1>1. PICK o \in Objs \ InUse, c \in Configs :
          /\ c.priv = PrivKey
          /\ ref' = [ref EXCEPT ![r] = o]
          /\ cfg' = [cfg EXCEPT ![o] = c]
  <2>1. CASE transformConfig(r)
    <3>1. cmd[r].arg \in Opts
      BY <2>1, CommandTypes DEF IInv, TypeOK, transformConfig
    <3>2. cfg[mem] \in Configs /\ cfg[mem].priv = PrivKey
      BY DEF IInv, TypeOK, KeyEverywhere
    <3>3. /\ [cfg[mem] EXCEPT !.opt = cmd[r].arg] \in Configs
          /\ [cfg[mem] EXCEPT !.opt = cmd[r].arg].priv = PrivKey
      BY <3>1, <3>2 DEF Configs, OptVals
    <3> QED BY <2>1, <3>3 DEF transformConfig
  <2>2. CASE replaceConfig(r)
    <3> DEFINE new == [priv |-> file.priv, boot |-> cmd[r].val,
                       svc |-> file.svc, opt |-> cmd[r].arg]
    <3>1. cmd[r].arg \in OptVals /\ cmd[r].val \in SUBSET Peers
      BY <2>2, CommandTypes DEF IInv, TypeOK, replaceConfig
    <3>2. new \in Configs /\ new.priv = PrivKey
      BY <2>2, <3>1 DEF IInv, TypeOK, KeyEverywhere, replaceConfig, Files, Configs
    <3> QED BY <2>2, <3>2 DEF replaceConfig
  <2> QED BY <2>1, <2>2
<1>2. /\ pc' = [pc EXCEPT ![r] = "write"] /\ pc[r] = "start"
      /\ cmd[r].op \in PrivateOps
      /\ UNCHANGED <<file, lastWrite, mem, up, cmd, local, base, served>>
  BY DEF transformConfig, replaceConfig, Goto, PrivateOps, diskVars
<1>3. o \in Objs /\ o # mem /\ \A q \in Reqs : ref[q] # o
  BY <1>1 DEF InUse, Live
<1>4. TypeOK'
  BY <1>1, <1>2, <1>3, RepoConfigAssumption DEF IInv, TypeOK, Stages
<1>5. Staged'
  BY <1>1, <1>2 DEF IInv, TypeOK, Staged
<1>6. KeyEverywhere'
  BY <1>1, <1>2 DEF IInv, TypeOK, KeyEverywhere
<1>7. Synced'
  <2>1. cfg'[mem'] = cfg[mem]
    BY <1>1, <1>2, <1>3 DEF IInv, TypeOK
  <2>2. Agree => Agree'
    BY <1>2, <2>1 DEF Agree
  <2>3. \A q \in Reqs : Changing(q) => Changing(q)'
    BY <1>1, <1>2 DEF IInv, TypeOK, Changing
  <2> QED BY <1>2, <2>2, <2>3 DEF IInv, Synced
<1> QED BY <1>4, <1>5, <1>6, <1>7 DEF IInv

(* The end of a command: its object is published or becomes garbage.       *)
LEMMA Finished ==
    ASSUME IInv, NEW r \in Reqs, Finish(r), pc[r] # "idle",
           NEW c \in [Objs -> Configs], \A o \in Objs : c[o].priv = PrivKey,
           mem' \in Objs,
           mem' = mem \/ mem' = ref[r] \/ mem' \notin InUse,
           cfg' = [o \in Objs |-> IF o \in Live(mem', ref') THEN c[o] ELSE Blank],
           file' \in Files \cup {Torn},
           file' # Torn => file'.priv = PrivKey,
           lastWrite' \in BOOLEAN,
           up' = up, served' = served
    PROVE  TypeOK' /\ Staged' /\ KeyEverywhere' /\ cfg'[mem'] = c[mem']
<1>1. cfg' \in [Objs -> Configs]
  BY Helpers
<1>2. \A q \in Reqs : q # r => ref'[q] = ref[q] /\ pc'[q] = pc[q] /\ cmd'[q] = cmd[q]
  BY DEF Finish, IInv, TypeOK
<1>3. pc'[r] = "idle" /\ cmd'[r] = None /\ ref'[r] = None
  BY DEF Finish, IInv, TypeOK
<1>4. /\ cmd' \in [Reqs -> Commands \cup {None}] /\ pc' \in [Reqs -> Stages]
      /\ ref' \in [Reqs -> Objs \cup {None}] /\ local' \in [Reqs -> SUBSET Peers]
      /\ base' \in [Reqs -> Files \cup {None}]
  BY DEF Finish, IInv, TypeOK, Stages
<1>5. \A q, s \in Reqs : (pc'[q] = "write" /\ cmd'[q].op \in PrivateOps)
                            => ref'[q] # mem' /\ (s # q => ref'[s] # ref'[q])
  <2> SUFFICES ASSUME NEW q \in Reqs, NEW s \in Reqs,
                      pc'[q] = "write", cmd'[q].op \in PrivateOps
               PROVE  ref'[q] # mem' /\ (s # q => ref'[s] # ref'[q])
    OBVIOUS
  <2>1. /\ q # r /\ pc[q] = "write" /\ cmd[q].op \in PrivateOps
        /\ ref'[q] = ref[q] /\ ref[q] \in Objs
    BY <1>2, <1>3 DEF IInv, TypeOK
  <2>2. ref[q] # mem /\ \A x \in Reqs : x # q => ref[x] # ref[q]
    BY <2>1 DEF IInv, TypeOK
  <2>3. ref[q] \in InUse
    BY DEF InUse, Live
  <2>4. ref'[q] # mem'
    BY <2>1, <2>2, <2>3
  <2>5. ASSUME s # q PROVE ref'[s] # ref'[q]
    BY <1>2, <1>3, <2>1, <2>2, <2>5, RepoConfigAssumption
  <2> QED BY <2>4, <2>5
<1>6. TypeOK'
  BY <1>1, <1>2, <1>3, <1>4, <1>5 DEF IInv, TypeOK
<1>7. Staged'
  BY <1>2, <1>3 DEF IInv, Staged
<1>8. KeyEverywhere'
  BY DEF KeyEverywhere, Blank
<1>9. cfg'[mem'] = c[mem']
  BY DEF Live
<1> QED BY <1>6, <1>7, <1>8, <1>9

LEMMA EarlyReturnStep ==
    ASSUME IInv, NEW r \in Reqs, EarlyReturn(r) \/ ReadFails(r) PROVE IInv'
<1>1. /\ Finish(r) /\ pc[r] # "idle"
      /\ cfg' = [o \in Objs |-> IF o \in Live(mem', ref') THEN cfg[o] ELSE Blank]
      /\ UNCHANGED <<file, lastWrite, mem, up, served>>
  BY DEF EarlyReturn, ReadFails, Collect, diskVars
<1>2. cfg \in [Objs -> Configs] /\ mem \in Objs /\ \A o \in Objs : cfg[o].priv = PrivKey
  BY DEF IInv, TypeOK, KeyEverywhere
<1>3. TypeOK' /\ Staged' /\ KeyEverywhere' /\ cfg'[mem'] = cfg[mem]
  BY <1>1, <1>2, Finished DEF IInv, TypeOK, KeyEverywhere
<1>4. Synced'
  <2>1. CASE file = Torn
    BY <2>1, <1>1 DEF IInv, Synced
  <2>2. CASE file # Torn
    <3>1. pc[r] \in {"start", "config"}
      BY <2>2 DEF EarlyReturn, ReadFails
    <3>2. \A q \in Reqs : Changing(q) => Changing(q)'
      BY <1>1, <3>1 DEF Changing, Finish, IInv, TypeOK
    <3>3. Agree => Agree'
      BY <1>1, <1>3 DEF Agree
    <3> QED BY <1>1, <3>2, <3>3 DEF IInv, Synced
  <2> QED BY <2>1, <2>2
<1> QED BY <1>3, <1>4 DEF IInv

(* A write leaves a file with the private key, or none.                    *)
LEMMA Written ==
    ASSUME IInv, NEW new \in Files, new.priv = PrivKey,
           NEW outcome \in {"ok"} \cup Faults, WriteConfigFile(new, outcome)
    PROVE  /\ file' \in Files \cup {Torn} /\ lastWrite' \in BOOLEAN
           /\ file' # Torn => file'.priv = PrivKey
           /\ lastWrite' => file' = new /\ file' # Torn /\ ~Reported(outcome)
BY RepoConfigAssumption DEF IInv, TypeOK, KeyEverywhere, WriteConfigFile, Reported

LEMMA SetConfigStep == ASSUME IInv, NEW r \in Reqs, SetConfig(r) PROVE IInv'
<1> DEFINE c == cfg[ref[r]]
           new == MapMergeDeep(file, c)
<1>1. PICK outcome \in {"ok"} \cup Faults :
          /\ WriteConfigFile(new, outcome)
          /\ mem' = IF Reported(outcome) THEN mem ELSE ref[r]
  BY DEF SetConfig
<1>2. ref[r] \in Objs /\ mem \in Objs /\ c \in Configs /\ c.priv = PrivKey /\ file \in Files
  BY DEF IInv, TypeOK, KeyEverywhere, SetConfig
<1>3. new \in Files /\ new.priv = PrivKey
  BY <1>2, Helpers DEF MapMergeDeep
<1>4. /\ file' \in Files \cup {Torn} /\ lastWrite' \in BOOLEAN
      /\ file' # Torn => file'.priv = PrivKey
      /\ lastWrite' => file' = new /\ file' # Torn /\ ~Reported(outcome)
  BY <1>1, <1>3, Written
<1>5. /\ Finish(r) /\ pc[r] # "idle" /\ up' = up /\ served' = served
      /\ cfg' = [o \in Objs |-> IF o \in Live(mem', ref') THEN cfg[o] ELSE Blank]
  BY DEF SetConfig, Collect
<1>6. mem' \in Objs /\ (mem' = mem \/ mem' = ref[r])
  BY <1>1, <1>2
<1>7. cfg \in [Objs -> Configs] /\ \A o \in Objs : cfg[o].priv = PrivKey
  BY DEF IInv, TypeOK, KeyEverywhere
<1>8. TypeOK' /\ Staged' /\ KeyEverywhere' /\ cfg'[mem'] = cfg[mem']
  BY <1>4, <1>5, <1>6, <1>7, Finished
<1>9. ASSUME lastWrite' PROVE Agree'
  <2>1. file' = new /\ mem' = ref[r] /\ cfg'[mem'] = c
    BY <1>1, <1>4, <1>8, <1>9
  <2> QED BY <2>1 DEF Agree, MapMergeDeep
<1>10. Synced'
  BY <1>4, <1>9 DEF Synced
<1> QED BY <1>8, <1>10 DEF IInv

LEMMA SetConfigKeyStep == ASSUME IInv, NEW r \in Reqs, SetConfigKey(r) PROVE IInv'
<1> DEFINE new == GuardPrivKey(file, MapSetKV(file, cmd[r]))
<1>1. PICK o \in Objs \ InUse, outcome \in {"ok"} \cup Faults :
          /\ WriteConfigFile(new, outcome) /\ mem' = o /\ Finish(r)
          /\ Collect([cfg EXCEPT ![o] = FromMap(new)])
  BY DEF SetConfigKey
<1> DEFINE c == [cfg EXCEPT ![o] = FromMap(new)]
<1>2. file \in Files /\ file.priv = PrivKey /\ cmd[r] \in Commands /\ cmd[r].op \in SetOps
  BY DEF IInv, TypeOK, KeyEverywhere, SetConfigKey
<1>3. new \in Files
  BY <1>2, Helpers
<1>4. MapSetKV(file, cmd[r]) \in Files
  BY <1>2, CommandTypes DEF MapSetKV, SetOps, Files
<1>5. new.priv = PrivKey
  BY <1>2, <1>4 DEF GuardPrivKey, Files
<1> HIDE DEF new
<1>6. FromMap(new) \in Configs /\ FromMap(new).priv = PrivKey
  BY <1>3, <1>5, Helpers DEF FromMap
<1>7. c \in [Objs -> Configs] /\ (\A x \in Objs : c[x].priv = PrivKey) /\ c[o] = FromMap(new)
  BY <1>1, <1>6 DEF IInv, TypeOK, KeyEverywhere
<1>8. /\ file' \in Files \cup {Torn} /\ lastWrite' \in BOOLEAN
      /\ file' # Torn => file'.priv = PrivKey
      /\ lastWrite' => file' = new /\ file' # Torn
  BY <1>1, <1>3, <1>5, Written
<1>9. /\ Finish(r) /\ pc[r] # "idle" /\ up' = up /\ served' = served
      /\ cfg' = [x \in Objs |-> IF x \in Live(mem', ref') THEN c[x] ELSE Blank]
      /\ mem' \in Objs /\ mem' \notin InUse
  BY <1>1 DEF SetConfigKey, Collect
<1>10. TypeOK' /\ Staged' /\ KeyEverywhere' /\ cfg'[mem'] = c[mem']
  <2> HIDE DEF c
  <2> QED BY <1>7, <1>8, <1>9, Finished
<1>11. Synced'
  <2>1. cfg'[mem'] = FromMap(new)
    BY <1>1, <1>7, <1>10
  <2>2. lastWrite' => Agree'
    BY <1>8, <2>1 DEF Agree, FromMap
  <2> QED BY <1>8, <2>2 DEF Synced
<1> QED BY <1>10, <1>11 DEF IInv

(* The process ends and starts again.                                      *)
LEMMA StopStep == ASSUME IInv, Stop PROVE IInv'
<1>1. cfg' \in [Objs -> Configs] /\ \A o \in Objs : cfg'[o].priv = PrivKey
  BY Helpers DEF Stop, Collect, IInv, TypeOK, KeyEverywhere, Blank
<1>2. TypeOK'
  BY <1>1 DEF Stop, IInv, TypeOK, diskVars, Stages
<1>3. Staged'
  BY DEF Stop, Staged
<1>4. KeyEverywhere'
  BY <1>1 DEF Stop, IInv, KeyEverywhere, diskVars
<1>5. Synced'
  BY DEF Stop, IInv, Synced, diskVars
<1> QED BY <1>2, <1>3, <1>4, <1>5 DEF IInv

LEMMA OpenStep == ASSUME IInv, Down, openConfig PROVE IInv'
<1>1. file \in Files /\ file.priv = PrivKey /\ FromMap(file) \in Configs
  BY Helpers DEF openConfig, IInv, TypeOK, KeyEverywhere
<1>2. /\ cfg' \in [Objs -> Configs] /\ cfg'[mem'] = FromMap(file)
      /\ \A o \in Objs : cfg'[o].priv = PrivKey
  BY <1>1, Helpers DEF openConfig, FromMap, Blank
<1>3. \A r \in Reqs : pc[r] = "idle"
  BY DEF openConfig, Down
<1>4. TypeOK'
  BY <1>2, <1>3 DEF openConfig, IInv, TypeOK, reqVars
<1>5. Staged'
  BY DEF openConfig, reqVars, IInv, Staged
<1>6. KeyEverywhere'
  BY <1>1, <1>2 DEF openConfig, KeyEverywhere
<1>7. Synced'
  BY <1>2 DEF openConfig, Synced, Agree, FromMap
<1> QED BY <1>4, <1>5, <1>6, <1>7 DEF IInv

LEMMA DownStep == ASSUME Down, Next PROVE Down'
<1>1. CASE Stop
  BY <1>1 DEF Stop, Down
<1>2. CASE openConfig
  BY <1>2 DEF openConfig, Down
<1>3. ASSUME NEW r \in Reqs, Step(r) PROVE Down'
  <2>1. up /\ up' = up
    BY <1>3 DEF Step, Begin, EarlyReturn, Config, bootstrapAdd, AddNew, AddBack, bootstrapRemove,
        SetBootstrapPeers, bootstrapRemoveAll, ServiceAdd, ServiceRm, transformConfig,
        replaceConfig, SetConfig, SetConfigKey, ReadFails, memVars
  <2> QED BY <2>1 DEF Down
<1> QED BY <1>1, <1>2, <1>3 DEF Next

LEMMA StepIInv == ASSUME IInv, Down, [Next]_vars PROVE IInv'
<1>1. ASSUME NEW r \in Reqs, Step(r) PROVE IInv'
  BY <1>1, BeginStep, ConfigStep, EarlyReturnStep, BootstrapSteps, RemoveStep, PrivateSteps,
     SetConfigStep, SetConfigKeyStep DEF Step
<1>2. CASE UNCHANGED vars
  BY <1>2 DEF vars, diskVars, memVars, reqVars, IInv, TypeOK, Staged, KeyEverywhere, Synced,
              Agree, Changing
<1> QED BY <1>1, <1>2, StopStep, OpenStep DEF Next

(* The inductive invariant holds in every state.                           *)
THEOREM Invariance == Spec => [](IInv /\ Down)
<1>1. Init => IInv /\ Down
  BY InitIInv DEF Init, Down
<1>2. IInv /\ Down /\ [Next]_vars => (IInv /\ Down)'
  <2>1. CASE Next
    BY <2>1, StepIInv, DownStep
  <2>2. CASE UNCHANGED vars
    BY <2>2, StepIInv DEF Down, vars, memVars, reqVars
  <2> QED BY <2>1, <2>2
<1> QED BY <1>1, <1>2, PTL DEF Spec

(* Every variable has its type, and a profile or a replacement works on an *)
(* object that no other goroutine has (transformConfig, replaceConfig).    *)
THEOREM TypeCorrect == Spec => []TypeOK
<1>1. IInv => TypeOK
  BY DEF IInv
<1> QED BY <1>1, Invariance, PTL

(* No interleaving of commands, failed write or restart changes the        *)
(* private key, in the file or in the configuration in use.                *)
THEOREM KeyIsKept == Spec => []PrivKeyKept
<1>1. IInv => PrivKeyKept
  BY DEF IInv, TypeOK, KeyEverywhere, PrivKeyKept
<1> QED BY <1>1, Invariance, PTL

(* A quiet process whose last write succeeded has the configuration of its *)
(* file, up to what MapMergeDeep brings back.                              *)
THEOREM QuietAgrees == Spec => []MemoryIsFile
<1>1. IInv => MemoryIsFile
  BY DEF IInv, Synced, Agree, Changing, MemoryIsFile, Quiet
<1> QED BY <1>1, Invariance, PTL

LEMMA ExtraCommand ==
    ASSUME NEW c \in Commands, c.op = "setExtra"
    PROVE  c = Command("setExtra", c.arg, {})
BY DEF Commands, bootstrapAddCmd, bootstrapRemoveCmd, bootstrapRemoveAllCmd, serviceCmds,
       configProfileApplyCmd, configReplaceCmd, ConfigCmd, identityCalls, Command, SvcOps

(* A key of the file that config.Config does not know changes only when a  *)
(* config command on that key ends: SetConfig merges into the file.        *)
THEOREM UserKeys == Spec => UserKeysKept
<1> DEFINE A == (file # Torn /\ file' # Torn /\ file'.extra # file.extra)
                  => \E r \in Reqs : cmd[r] = Command("setExtra", file'.extra, {})
                                        /\ pc'[r] = "idle"
<1>1. ASSUME IInv, [Next]_vars PROVE [A]_vars
  <2> SUFFICES ASSUME Next, file # Torn, file' # Torn, file'.extra # file.extra
               PROVE  \E r \in Reqs : cmd[r] = Command("setExtra", file'.extra, {})
                                        /\ pc'[r] = "idle"
    BY <1>1
  <2>1. file \in Files
    BY <1>1 DEF IInv, TypeOK
  <2>2. PICK r \in Reqs : SetConfig(r) \/ SetConfigKey(r)
    BY DEF Next, Stop, openConfig, Step, Begin, EarlyReturn, Config, bootstrapAdd, AddNew,
        AddBack, bootstrapRemove, SetBootstrapPeers, bootstrapRemoveAll, ServiceAdd,
        ServiceRm, transformConfig, replaceConfig, ReadFails, diskVars
  <2>3. ~SetConfig(r)
    <3>1. SUFFICES ASSUME SetConfig(r) PROVE FALSE
      OBVIOUS
    <3>2. file' = MapMergeDeep(file, cfg[ref[r]]) \/ file' = file
      BY <3>1 DEF SetConfig, WriteConfigFile
    <3>3. MapMergeDeep(file, cfg[ref[r]]).extra = file.extra
      BY DEF MapMergeDeep
    <3> QED BY <3>2, <3>3
  <2> DEFINE m == MapSetKV(file, cmd[r])
  <2>4. cmd[r] \in Commands /\ cmd[r].op \in SetOps /\ pc'[r] = "idle"
    BY <1>1, <2>2, <2>3 DEF SetConfigKey, Finish, IInv, TypeOK
  <2>5. file' = GuardPrivKey(file, m)
    BY <2>2, <2>3 DEF SetConfigKey, WriteConfigFile
  <2>6. m \in Files
    BY <2>1, <2>4, CommandTypes DEF MapSetKV, SetOps, Files
  <2>7. file'.extra = m.extra
    <3> HIDE DEF m
    <3> QED BY <2>5, <2>6 DEF GuardPrivKey, Files
  <2>8. cmd[r].op = "setExtra" /\ m.extra = cmd[r].arg
    <3>1. cmd[r].op # "setExtra" => m.extra = file.extra
      BY <2>1, <2>4 DEF MapSetKV, SetOps, Files
    <3>2. cmd[r].op = "setExtra" => m.extra = cmd[r].arg
      BY <2>1 DEF MapSetKV, Files
    <3> QED BY <2>7, <3>1, <3>2
  <2> QED BY <2>4, <2>7, <2>8, ExtraCommand
<1> QED BY <1>1, Invariance, PTL DEF Spec, UserKeysKept

\* No clone is shared and the private key is kept (transformConfig,
\* SetConfigKey).
THEOREM Sound == Spec => []ConfigSound
<1>1. TypeOK /\ PrivKeyKept => ConfigSound
  BY DEF ConfigSound
<1> QED BY <1>1, TypeCorrect, KeyIsKept, PTL

-----------------------------------------------------------------------------
(* Keys: what a request carries at each of its stages, ...                 *)
RequestOK(j) ==
    /\ j.pc = "idle" => j = KyIdle
    /\ j.pc \in {"put", "overwrite", "renamed", "delete", "create", "backup", "setConfig"} => j.to \in KeyNames
    /\ j.pc \in {"overwrite", "renamed", "delete"} => j.from \in KeyNames /\ j.from # j.to
    /\ j.pc \in {"backup", "setConfig"} => j.key # 0
    /\ j.left \subseteq KeyNames

(* ... that at most one request runs, ...                                  *)
OneRequest == \A c, d \in KeyClients : kyJob[c] # KyIdle /\ kyJob[d] # KyIdle => c = d

(* ... who may run which, ...                                              *)
Holders ==
    /\ kyProc = "none" => KyFree
    /\ kyProc = "cli" => OneRequest
    /\ \A c \in KeyClients :
          /\ kyJob[c].pc \in {"create", "backup", "setConfig"} => kyProc = "cli"
          /\ kyJob[c].pc = "create" => kyNext < MaxKeys

(* ... and, while nobody interferes, what a request has read or written    *)
(* and still finds: the key it renames under the old name and, once put,   *)
(* under the new one; the old identity in the keystore before the config   *)
(* file is written; each listed name, with the key searched for among the  *)
(* names still to be read.                                                 *)
QuietOK(j, store, identity) ==
    /\ j.pc \in {"overwrite", "renamed", "delete"} => j.key # 0 /\ store[j.from] = j.key
    /\ j.pc = "delete" => store[j.to] = j.key
    /\ j.pc = "setConfig" => store[j.to] = identity
    /\ j.pc \in {"scan", "list"} => \A n \in j.left : store[n] # 0
    /\ j.pc = "scan" => j.key # 0 /\ \A n \in KeyNames : store[n] = j.key => n \in j.left
    /\ j.pc = "failed" => j.key # 0 /\ \A n \in KeyNames : store[n] # j.key

KeysInv ==
    /\ KyTypeOK /\ (\A c \in KeyClients : RequestOK(kyJob[c])) /\ Holders
    /\ ~kyOverlap => OneRequest /\ \A c \in KeyClients : QuietOK(kyJob[c], kyStore, kyIdentity)

LEMMA KyIdleIs ==
    /\ KyIdle \in KeyRequest /\ RequestOK(KyIdle) /\ KyIdle.pc = "idle" /\ KyIdle.from = "self"
    /\ KyIdle.to = "self" /\ KyIdle.key = 0 /\ KyIdle.left = {}
    /\ \A store, identity : QuietOK(KyIdle, store, identity)
BY KeysAssumption DEF KyIdle, KeyRequest, RequestOK, QuietOK, AnyName

LEMMA KeysInit == KyInit => KeysInv
<1> SUFFICES ASSUME KyInit PROVE KeysInv
  OBVIOUS
<1>1. \A c \in KeyClients : kyJob[c] = KyIdle
  BY DEF KyInit
<1>2. KyTypeOK
  <2>1. kyIdentity \in AllKeys /\ kyNext \in AllKeys /\ 0 \in 0..MaxKeys
    BY KeysAssumption DEF KyInit, AllKeys
  <2>2. kyStore \in [KeyNames -> 0..MaxKeys] /\ kyFile \in 0..MaxKeys
    BY <2>1 DEF KyInit
  <2>3. kyJob \in [KeyClients -> KeyRequest]
    BY KyIdleIs DEF KyInit
  <2> QED BY <2>1, <2>2, <2>3 DEF KyInit, KyTypeOK
<1>3. Holders /\ OneRequest
  BY <1>1, KyIdleIs DEF Holders, OneRequest, KyFree, KyInit
<1> QED BY <1>1, <1>2, <1>3, KyIdleIs DEF KeysInv

(* A command begins.                                                       *)
LEMMA KyBeginStep ==
    ASSUME KeysInv, NEW c \in KeyClients, NEW j \in KeyRequest, KyBegin(c, j),
           RequestOK(j), QuietOK(j, kyStore, kyIdentity), j.pc \notin {"idle", "backup", "setConfig"},
           j.pc = "create" => kyProc = "none" /\ kyNext' < MaxKeys,
           UNCHANGED <<kyStore, kyIdentity, kyFile, kyDropped>>, kyNext' \in AllKeys
    PROVE  KeysInv'
<1>1. /\ kyJob' \in [KeyClients -> KeyRequest] /\ kyJob'[c] = j
      /\ \A d \in KeyClients \ {c} : kyJob'[d] = kyJob[d]
  BY DEF KeysInv, KyTypeOK, KyBegin
<1>2. kyProc' \in {"daemon", "cli"} /\ kyOverlap' \in BOOLEAN /\ (kyOverlap' <=> kyOverlap \/ ~KyFree)
  BY DEF KeysInv, KyTypeOK, KyBegin
<1>3. KyTypeOK'
  BY <1>1, <1>2 DEF KeysInv, KyTypeOK
<1>4. \A d \in KeyClients : RequestOK(kyJob'[d])
  BY <1>1 DEF KeysInv
<1>5. ASSUME KyFree PROVE OneRequest'
  BY <1>1, <1>5 DEF OneRequest, KyFree
<1>6. Holders'
  <2>1. kyProc' = "cli" => kyProc = "none" /\ KyFree
    BY DEF KyBegin, KeysInv, Holders, KyTypeOK
  <2>2. kyProc' = "daemon" => kyProc = "daemon"
    BY DEF KyBegin
  <2>3. ASSUME NEW d \in KeyClients, kyJob'[d].pc \in {"create", "backup", "setConfig"}
        PROVE  kyProc' = "cli" /\ (kyJob'[d].pc = "create" => kyNext' < MaxKeys)
    <3>1. CASE d = c
      BY <1>1, <2>3, <3>1 DEF KyBegin
    <3>2. CASE d # c
      <4>1. kyProc = "cli"
        BY <1>1, <2>3, <3>2 DEF KeysInv, Holders
      <4> QED BY <4>1 DEF KyBegin
    <3> QED BY <3>1, <3>2
  <2> QED BY <1>2, <1>5, <2>1, <2>3 DEF Holders
<1>7. ASSUME ~kyOverlap' PROVE OneRequest' /\ \A d \in KeyClients : QuietOK(kyJob'[d], kyStore', kyIdentity')
  BY <1>1, <1>2, <1>5, <1>7 DEF KeysInv
<1> QED BY <1>3, <1>4, <1>6, <1>7 DEF KeysInv

(* A request goes on or ends.                                              *)
LEMMA KyOwnStep ==
    ASSUME KeysInv, NEW c \in KeyClients, kyJob[c].pc # "idle", NEW j \in KeyRequest,
           kyJob' = [kyJob EXCEPT ![c] = j],
           kyProc' = IF kyProc = "cli" /\ j = KyIdle THEN "none" ELSE kyProc,
           RequestOK(j), j.pc # "create", j.pc \in {"backup", "setConfig"} => kyProc = "cli",
           ~kyOverlap => QuietOK(j, kyStore', kyIdentity'),
           kyStore' \in [KeyNames -> 0..MaxKeys], kyIdentity' \in AllKeys, kyNext' \in AllKeys,
           kyNext' = kyNext \/ kyProc = "cli", kyDropped' \subseteq AllKeys, UNCHANGED <<kyFile, kyOverlap>>
    PROVE  KeysInv'
<1>1. /\ kyJob' \in [KeyClients -> KeyRequest] /\ kyJob'[c] = j
      /\ \A d \in KeyClients \ {c} : kyJob'[d] = kyJob[d]
  BY DEF KeysInv, KyTypeOK
<1>2. KyTypeOK'
  BY <1>1 DEF KeysInv, KyTypeOK
<1>3. \A d \in KeyClients : RequestOK(kyJob'[d])
  BY <1>1 DEF KeysInv
<1>4. kyJob[c] # KyIdle
  BY KyIdleIs
<1>5. OneRequest => /\ OneRequest'
                    /\ \A d \in KeyClients \ {c} : kyJob'[d] = KyIdle
  BY <1>1, <1>4 DEF OneRequest
<1>6. Holders'
  <2>1. kyProc # "none"
    BY <1>4 DEF KeysInv, Holders, KyFree
  <2>2. kyProc' = "none" => KyFree'
    <3> HAVE kyProc' = "none"
    <3>1. kyProc = "cli" /\ j = KyIdle
      BY <2>1
    <3> QED BY <1>1, <1>5, <3>1 DEF KeysInv, Holders, KyFree
  <2>3. kyProc' = "cli" => OneRequest'
    BY <1>5 DEF KeysInv, Holders
  <2>4. ASSUME NEW d \in KeyClients, kyJob'[d].pc \in {"create", "backup", "setConfig"}
        PROVE  kyProc' = "cli" /\ (kyJob'[d].pc = "create" => kyNext' < MaxKeys)
    <3>1. CASE d = c
      BY <1>1, <2>4, <3>1, KyIdleIs
    <3>2. CASE d # c
      <4>1. kyJob[d].pc \in {"create", "backup", "setConfig"} /\ kyJob[d] # KyIdle
        BY <1>1, <2>4, <3>2, KyIdleIs
      <4>2. kyProc = "cli"
        BY <4>1 DEF KeysInv, Holders
      <4> QED BY <1>4, <3>2, <4>1, <4>2 DEF KeysInv, Holders, OneRequest
    <3> QED BY <3>1, <3>2
  <2> QED BY <2>2, <2>3, <2>4 DEF Holders
<1>7. ASSUME ~kyOverlap' PROVE OneRequest' /\ \A d \in KeyClients : QuietOK(kyJob'[d], kyStore', kyIdentity')
  BY <1>1, <1>5, <1>7, KyIdleIs DEF KeysInv
<1> QED BY <1>2, <1>3, <1>6, <1>7 DEF KeysInv

(* What the stages of a request say of it.                                 *)
LEMMA RequestIs ==
    ASSUME KeysInv, NEW c \in KeyClients
    PROVE  /\ kyJob[c] \in KeyRequest /\ RequestOK(kyJob[c])
           /\ kyStore \in [KeyNames -> 0..MaxKeys] /\ kyIdentity \in AllKeys /\ kyNext \in AllKeys
           /\ kyDropped \subseteq AllKeys /\ AllKeys \subseteq 0..MaxKeys
           /\ ~kyOverlap => QuietOK(kyJob[c], kyStore, kyIdentity)
BY KeysAssumption DEF KeysInv, KyTypeOK, AllKeys

(* Of one that ends only the end of a process that ran it is seen.         *)
LEMMA KyEndStep ==
    ASSUME KeysInv, NEW c \in KeyClients, kyJob[c].pc # "idle", KyEnds(c),
           kyStore' \in [KeyNames -> 0..MaxKeys], kyIdentity' \in AllKeys,
           kyDropped' \subseteq AllKeys, UNCHANGED <<kyNext, kyFile, kyOverlap>>
    PROVE  KeysInv'
<1>1. kyNext' \in AllKeys
  BY DEF KeysInv, KyTypeOK
<1>2. kyProc' = IF kyProc = "cli" /\ KyIdle = KyIdle THEN "none" ELSE kyProc
  BY DEF KyEnds
<1> QED BY <1>1, <1>2, KyOwnStep, KyIdleIs DEF KyEnds
LEMMA BeginsKeep ==
    ASSUME KeysInv, NEW c \in KeyClients,
           \/ KeyListCmd(c) \/ \E id \in AllKeys : Publish(c, id)
           \/ \E names \in SUBSET KeyNames : KeyRmCmd(c, names)
           \/ \E name \in AnyName : \/ KeyGenCmd(c, name) \/ KeyRotateCmd(c, name) \/ KeyImport(c, name)
                                    \/ \E new \in AnyName, force \in BOOLEAN : KeyRenameCmd(c, name, new, force)
    PROVE  KeysInv' /\ KyHeld' = KyHeld
<1>0. kyNext \in AllKeys /\ AllKeys \subseteq 0..MaxKeys /\ kyStore \in [KeyNames -> 0..MaxKeys] /\ 0 \in 0..MaxKeys
      /\ KeyNames \subseteq AnyName /\ \A k \in AllKeys : k # 0
  BY KeysAssumption, RequestIs DEF AllKeys, AnyName
<1>1. CASE KeyListCmd(c)
  <2> DEFINE names == {n \in KeyNames : kyStore[n] # 0}
             j == [KyIdle EXCEPT !.pc = "list", !.left = names]
  <2>1. j \in KeyRequest /\ j.pc = "list" /\ j.left = names
    BY <1>0, KyIdleIs DEF KeyRequest
  <2>2. KyBegin(c, j) /\ UNCHANGED <<kyStore, kyIdentity, kyNext, kyFile, kyDropped>>
    BY <1>1 DEF KeyListCmd
  <2> HIDE DEF j
  <2>3. RequestOK(j) /\ QuietOK(j, kyStore, kyIdentity)
    BY <2>1 DEF RequestOK, QuietOK
  <2> QED BY <1>0, <2>1, <2>2, <2>3, KyBeginStep DEF KyHeld
<1>2. ASSUME NEW id \in AllKeys, Publish(c, id) PROVE KeysInv' /\ KyHeld' = KyHeld
  <2> DEFINE names == {n \in KeyNames : kyStore[n] # 0}
             j == [KyIdle EXCEPT !.pc = IF names = {} THEN "failed" ELSE "scan", !.key = id, !.left = names]
  <2>1. j \in KeyRequest /\ j.pc \in {"failed", "scan"} /\ (j.pc = "failed" <=> names = {}) /\ j.left = names /\ j.key = id
    BY <1>0, KyIdleIs DEF KeyRequest
  <2>2. KyBegin(c, j) /\ UNCHANGED <<kyStore, kyIdentity, kyNext, kyFile, kyDropped>>
    BY <1>2 DEF Publish, KeyLookup
  <2> HIDE DEF j
  <2>3. RequestOK(j) /\ QuietOK(j, kyStore, kyIdentity)
    BY <1>0, <2>1 DEF RequestOK, QuietOK
  <2> QED BY <1>0, <2>1, <2>2, <2>3, KyBeginStep DEF KyHeld
<1>3. ASSUME NEW names \in SUBSET KeyNames, KeyRmCmd(c, names) PROVE KeysInv' /\ KyHeld' = KyHeld
  <2> DEFINE j == [KyIdle EXCEPT !.pc = "rm", !.left = names]
  <2>1. j \in KeyRequest /\ j.pc = "rm" /\ j.left = names
    BY <1>0, KyIdleIs DEF KeyRequest
  <2>2. KyBegin(c, j) /\ UNCHANGED <<kyStore, kyIdentity, kyNext, kyFile, kyDropped>>
    BY <1>3 DEF KeyRmCmd
  <2> HIDE DEF j
  <2>3. RequestOK(j) /\ QuietOK(j, kyStore, kyIdentity)
    BY <2>1 DEF RequestOK, QuietOK
  <2> QED BY <1>0, <2>1, <2>2, <2>3, KyBeginStep DEF KyHeld
<1>4. ASSUME NEW name \in AnyName, KeyGenCmd(c, name) PROVE KeysInv' /\ KyHeld' = KyHeld
  <2> DEFINE k == kyNext + 1
             j == [KyIdle EXCEPT !.pc = "put", !.to = name, !.key = k]
  <2>0. k \in AllKeys /\ kyNext' = k
    <3>1. kyNext' = k /\ kyNext < MaxKeys
      BY <1>4 DEF KeyGenCmd, Generate
    <3>2. kyNext \in 1..MaxKeys /\ MaxKeys \in Nat
      BY <1>0, KeysAssumption DEF AllKeys
    <3> QED BY <3>1, <3>2 DEF AllKeys
  <2>2. KyBegin(c, j) /\ UNCHANGED <<kyStore, kyIdentity, kyFile, kyDropped>> /\ name \in KeyNames
    BY <1>4 DEF KeyGenCmd, Generate, AnyName
  <2> HIDE DEF k
  <2>1. j \in KeyRequest /\ j.pc = "put" /\ j.left = {} /\ j.to = name
    BY <1>0, <2>0, KyIdleIs DEF KeyRequest
  <2> HIDE DEF j
  <2>3. RequestOK(j) /\ QuietOK(j, kyStore, kyIdentity)
    BY <2>1, <2>2 DEF RequestOK, QuietOK
  <2> QED BY <2>0, <2>1, <2>2, <2>3, KyBeginStep DEF KyHeld
<1>5. ASSUME NEW name \in AnyName, KeyRotateCmd(c, name) PROVE KeysInv' /\ KyHeld' = KyHeld
  <2> DEFINE j == [KyIdle EXCEPT !.pc = "create", !.to = name]
  <2>2. KyBegin(c, j) /\ UNCHANGED <<kyStore, kyIdentity, kyNext, kyFile, kyDropped>> /\ name \in KeyNames
        /\ kyProc = "none" /\ kyNext < MaxKeys
    BY <1>5 DEF KeyRotateCmd, DaemonNotRunning, AnyName
  <2>1. j \in KeyRequest /\ j.pc = "create" /\ j.left = {} /\ j.to = name
    BY <1>0, KyIdleIs DEF KeyRequest
  <2> HIDE DEF j
  <2>3. RequestOK(j) /\ QuietOK(j, kyStore, kyIdentity)
    BY <2>1, <2>2 DEF RequestOK, QuietOK
  <2>4. kyNext' < MaxKeys
    BY <2>2
  <2> QED BY <1>0, <2>1, <2>2, <2>3, <2>4, KyBeginStep DEF KyHeld
<1>6. ASSUME NEW name \in AnyName, KeyImport(c, name) PROVE KeysInv' /\ KyHeld' = KyHeld
  <2> DEFINE j == [KyIdle EXCEPT !.pc = "put", !.to = name, !.key = kyFile]
  <2>2. KyBegin(c, j) /\ UNCHANGED <<kyStore, kyIdentity, kyNext, kyFile, kyDropped>> /\ name \in KeyNames
        /\ kyFile \in 0..MaxKeys
    BY <1>6 DEF KeyImport, AnyName, KeysInv, KyTypeOK
  <2>1. j \in KeyRequest /\ j.pc = "put" /\ j.left = {} /\ j.to = name
    BY <1>0, <2>2, KyIdleIs DEF KeyRequest
  <2> HIDE DEF j
  <2>3. RequestOK(j) /\ QuietOK(j, kyStore, kyIdentity)
    BY <2>1, <2>2 DEF RequestOK, QuietOK
  <2> QED BY <1>0, <2>1, <2>2, <2>3, KyBeginStep DEF KyHeld
<1>7. ASSUME NEW old \in AnyName, NEW new \in AnyName, NEW force \in BOOLEAN, KeyRenameCmd(c, old, new, force)
      PROVE  KeysInv' /\ KyHeld' = KyHeld
  <2> DEFINE j == [KyIdle EXCEPT !.pc = IF force THEN "overwrite" ELSE "renamed",
                                 !.from = old, !.to = new, !.key = kyStore[old]]
  <2>2. KyBegin(c, j) /\ UNCHANGED <<kyStore, kyIdentity, kyNext, kyFile, kyDropped>>
        /\ old \in KeyNames /\ new \in KeyNames /\ new # old /\ kyStore[old] # 0
    BY <1>7 DEF KeyRenameCmd, RenameBegin, AnyName
  <2>1. /\ j \in KeyRequest /\ j.pc \in {"overwrite", "renamed"} /\ j.left = {} /\ j.to = new /\ j.from = old
        /\ j.key = kyStore[old]
    BY <1>0, <2>2, KyIdleIs DEF KeyRequest
  <2> HIDE DEF j
  <2>3. RequestOK(j) /\ QuietOK(j, kyStore, kyIdentity)
    BY <2>1, <2>2 DEF RequestOK, QuietOK
  <2> QED BY <1>0, <2>1, <2>2, <2>3, KyBeginStep DEF KyHeld
<1> QED BY <1>1, <1>2, <1>3, <1>4, <1>5, <1>6, <1>7

(* What a step may not do to the keys at rest.                             *)
KeysKept == \A k \in KyHeld \ {0} : k \in KyHeld' \/ k \in kyDropped'

LEMMA PutsKeep ==
    ASSUME KeysInv, NEW c \in KeyClients, KyPut(c) \/ RenamePut(c) \/ RotateBackup(c)
    PROVE  KeysInv' /\ KeysKept
<1> DEFINE to == kyJob[c].to
<1>0. /\ kyJob[c] \in KeyRequest /\ RequestOK(kyJob[c]) /\ to \in KeyNames /\ kyJob[c].key \in 0..MaxKeys
      /\ kyStore \in [KeyNames -> 0..MaxKeys] /\ kyIdentity \in AllKeys /\ kyIdentity \in 0..MaxKeys
      /\ kyNext \in AllKeys /\ kyDropped \subseteq AllKeys
      /\ ~kyOverlap => QuietOK(kyJob[c], kyStore, kyIdentity)
  BY RequestIs DEF KyPut, RenamePut, RotateBackup, RequestOK, KeyRequest
<1>1. ASSUME NEW k \in 0..MaxKeys, kyStore[to] = 0, kyStore' = [kyStore EXCEPT ![to] = k], kyIdentity' = kyIdentity
      PROVE  /\ kyStore' \in [KeyNames -> 0..MaxKeys] /\ KeysKept /\ kyStore'[to] = k
             /\ \A n \in KeyNames : n # to => kyStore'[n] = kyStore[n]
  BY <1>0, <1>1 DEF KeysKept, KyHeld
<1>2. kyStore' = kyStore /\ kyIdentity' = kyIdentity => KeysKept
  BY DEF KeysKept, KyHeld
<1>3. CASE KyPut(c)
  <2>1. /\ kyJob[c].pc = "put" /\ KyEnds(c) /\ UNCHANGED <<kyIdentity, kyNext, kyFile, kyDropped, kyOverlap>>
        /\ \/ kyStore[to] = 0 /\ kyStore' = [kyStore EXCEPT ![to] = kyJob[c].key]
           \/ kyStore' = kyStore
    BY <1>3 DEF KyPut
  <2>2. kyStore' \in [KeyNames -> 0..MaxKeys] /\ KeysKept
    BY <1>0, <1>1, <1>2, <2>1
  <2> QED BY <1>0, <2>1, <2>2, KyEndStep
<1>4. CASE RenamePut(c)
  <2>1. kyJob[c].pc = "renamed" /\ UNCHANGED <<kyIdentity, kyNext, kyFile, kyDropped, kyOverlap>>
    BY <1>4 DEF RenamePut
  <2>2. CASE kyStore[to] # 0
    BY <1>0, <1>2, <1>4, <2>1, <2>2, KyEndStep DEF RenamePut
  <2>3. CASE kyStore[to] = 0
    <3> DEFINE j == [kyJob[c] EXCEPT !.pc = "delete"]
    <3>1. /\ j \in KeyRequest /\ j.pc = "delete" /\ j.from = kyJob[c].from /\ j.to = to /\ j.key = kyJob[c].key
          /\ j.left = kyJob[c].left
      BY <1>0 DEF KeyRequest
    <3>2. kyJob' = [kyJob EXCEPT ![c] = j] /\ kyStore' = [kyStore EXCEPT ![to] = kyJob[c].key] /\ kyProc' = kyProc
      BY <1>4, <2>3 DEF RenamePut
    <3> HIDE DEF j
    <3>3. RequestOK(j) /\ j # KyIdle
      BY <1>0, <2>1, <3>1, KyIdleIs DEF RequestOK
    <3>4. kyJob[c].from \in KeyNames /\ kyJob[c].from # to
      BY <1>0, <2>1 DEF RequestOK
    <3>5. ~kyOverlap => QuietOK(j, kyStore', kyIdentity')
      BY <1>0, <1>1, <2>1, <2>3, <3>1, <3>2, <3>4 DEF QuietOK
    <3> QED BY <1>0, <1>1, <2>1, <2>3, <3>1, <3>2, <3>3, <3>5, KyOwnStep
  <2> QED BY <2>2, <2>3
<1>5. CASE RotateBackup(c)
  <2>1. kyJob[c].pc = "backup" /\ UNCHANGED <<kyIdentity, kyNext, kyFile, kyDropped, kyOverlap>>
    BY <1>5 DEF RotateBackup
  <2>2. CASE kyStore[to] # 0
    BY <1>0, <1>2, <1>5, <2>1, <2>2, KyEndStep DEF RotateBackup
  <2>3. CASE kyStore[to] = 0
    <3> DEFINE j == [kyJob[c] EXCEPT !.pc = "setConfig"]
    <3>1. /\ j \in KeyRequest /\ j.pc = "setConfig" /\ j.to = to /\ j.left = kyJob[c].left
          /\ j.key = kyJob[c].key
      BY <1>0 DEF KeyRequest
    <3>2. kyJob' = [kyJob EXCEPT ![c] = j] /\ kyStore' = [kyStore EXCEPT ![to] = kyIdentity] /\ kyProc' = kyProc
      BY <1>5, <2>3 DEF RotateBackup
    <3> HIDE DEF j
    <3>3. RequestOK(j) /\ j # KyIdle
      BY <1>0, <2>1, <3>1, KyIdleIs DEF RequestOK
    <3>4. kyProc = "cli"
      BY <2>1 DEF KeysInv, Holders
    <3>5. QuietOK(j, kyStore', kyIdentity')
      BY <1>0, <1>1, <2>1, <2>3, <3>1, <3>2 DEF QuietOK
    <3> QED BY <1>0, <1>1, <2>1, <2>3, <3>1, <3>2, <3>3, <3>4, <3>5, KyOwnStep
  <2> QED BY <2>2, <2>3
<1> QED BY <1>3, <1>4, <1>5
LEMMA OverwritesKeep ==
    ASSUME KeysInv, NEW c \in KeyClients,
           \/ RenameOverwrite(c) \/ RenameDelete(c) \/ DoRotate(c)
           \/ \E ok \in BOOLEAN : RotateSetConfig(c, ok)
           \/ \E name \in AnyName : Remove(c, name)
    PROVE  KeysInv' /\ (~kyOverlap' => KeysKept)
<1> DEFINE to == kyJob[c].to
           from == kyJob[c].from
           key == kyJob[c].key
<1>0. /\ kyJob[c] \in KeyRequest /\ RequestOK(kyJob[c]) /\ key \in 0..MaxKeys
      /\ kyStore \in [KeyNames -> 0..MaxKeys] /\ kyIdentity \in AllKeys /\ kyNext \in AllKeys
      /\ kyDropped \subseteq AllKeys /\ 0 \in 0..MaxKeys /\ AllKeys = (0..MaxKeys) \ {0}
      /\ ~kyOverlap => QuietOK(kyJob[c], kyStore, kyIdentity)
  BY RequestIs, KeysAssumption DEF KeyRequest, AllKeys
<1>1. ASSUME NEW n \in KeyNames, kyStore' = [kyStore EXCEPT ![n] = 0], kyIdentity' = kyIdentity
      PROVE  /\ kyStore' \in [KeyNames -> 0..MaxKeys] /\ kyStore'[n] = 0
             /\ \A m \in KeyNames : m # n => kyStore'[m] = kyStore[m]
             /\ \A k \in KyHeld : k = kyStore[n] \/ k \in KyHeld'
  BY <1>0, <1>1 DEF KyHeld
<1>2. CASE RenameOverwrite(c)
  <2> DEFINE j == [kyJob[c] EXCEPT !.pc = "renamed"]
  <2>1. /\ j \in KeyRequest /\ j.pc = "renamed" /\ j.from = from /\ j.to = to /\ j.key = key
        /\ j.left = kyJob[c].left
    BY <1>0 DEF KeyRequest
  <2>2. /\ kyJob' = [kyJob EXCEPT ![c] = j] /\ kyStore' = [kyStore EXCEPT ![to] = 0] /\ kyJob[c].pc = "overwrite"
        /\ kyDropped' = kyDropped \cup ({kyStore[to]} \ {0, key})
        /\ UNCHANGED <<kyProc, kyIdentity, kyNext, kyFile, kyOverlap>>
    BY <1>2 DEF RenameOverwrite
  <2> HIDE DEF j
  <2>3. to \in KeyNames /\ from \in KeyNames /\ from # to
    BY <1>0, <2>2 DEF RequestOK
  <2>4. RequestOK(j) /\ j # KyIdle
    BY <1>0, <2>1, <2>2, KyIdleIs DEF RequestOK
  <2>5. ~kyOverlap => QuietOK(j, kyStore', kyIdentity')
    BY <1>0, <1>1, <2>1, <2>2, <2>3 DEF QuietOK
  <2>6. kyDropped' \subseteq AllKeys
    BY <1>0, <2>2, <2>3
  <2>7. ~kyOverlap => KeysKept
    <3> SUFFICES ASSUME ~kyOverlap, NEW k \in KyHeld \ {0} PROVE k \in KyHeld' \/ k \in kyDropped'
      BY DEF KeysKept
    <3>1. key # 0 /\ kyStore'[from] = key
      BY <1>0, <1>1, <2>2, <2>3 DEF QuietOK
    <3>2. key \in KyHeld'
      BY <2>3, <3>1 DEF KyHeld
    <3> QED BY <1>1, <2>2, <2>3, <3>2
  <2> QED BY <1>0, <1>1, <2>1, <2>2, <2>3, <2>4, <2>5, <2>6, <2>7, KyOwnStep
<1>3. CASE RenameDelete(c)
  <2>1. /\ kyJob[c].pc = "delete" /\ kyStore' = [kyStore EXCEPT ![from] = 0] /\ KyEnds(c)
        /\ UNCHANGED <<kyIdentity, kyNext, kyFile, kyDropped, kyOverlap>>
    BY <1>3 DEF RenameDelete
  <2>2. to \in KeyNames /\ from \in KeyNames /\ from # to
    BY <1>0, <2>1 DEF RequestOK
  <2>3. ~kyOverlap => KeysKept
    <3> SUFFICES ASSUME ~kyOverlap, NEW k \in KyHeld \ {0} PROVE k \in KyHeld'
      BY DEF KeysKept
    <3>1. kyStore[from] = key /\ kyStore'[to] = key
      BY <1>0, <1>1, <2>1, <2>2 DEF QuietOK
    <3>2. key \in KyHeld'
      BY <2>2, <3>1 DEF KyHeld
    <3> QED BY <1>1, <2>1, <2>2, <3>1, <3>2
  <2>4. KeysInv'
    BY <1>0, <1>1, <2>1, <2>2, KyEndStep
  <2> QED BY <2>1, <2>3, <2>4
<1>4. CASE DoRotate(c)
  <2> DEFINE n == kyNext + 1
             j == [kyJob[c] EXCEPT !.pc = "backup", !.key = n]
  <2>1. kyJob[c].pc = "create" /\ kyNext < MaxKeys /\ kyProc = "cli"
    BY <1>4 DEF DoRotate, KeysInv, Holders
  <2>2. n \in AllKeys /\ n \in 0..MaxKeys /\ n # 0 /\ kyNext' = n
    <3>1. kyNext' = n
      BY <1>4 DEF DoRotate
    <3>2. kyNext \in 1..MaxKeys /\ MaxKeys \in Nat
      BY <1>0, KeysAssumption DEF AllKeys
    <3> QED BY <2>1, <3>1, <3>2 DEF AllKeys
  <2>3. /\ kyJob' = [kyJob EXCEPT ![c] = j]
        /\ UNCHANGED <<kyProc, kyStore, kyIdentity, kyFile, kyDropped, kyOverlap>>
    BY <1>4 DEF DoRotate, KeysInv, KyTypeOK
  <2> HIDE DEF n
  <2>4. /\ j \in KeyRequest /\ j.pc = "backup" /\ j.to = to /\ j.left = kyJob[c].left /\ j.key = n
    BY <1>0, <2>2 DEF KeyRequest
  <2> HIDE DEF j
  <2>5. RequestOK(j) /\ QuietOK(j, kyStore', kyIdentity') /\ j # KyIdle
    BY <1>0, <2>1, <2>2, <2>4, KyIdleIs DEF RequestOK, QuietOK
  <2>6. KeysKept
    BY <2>3 DEF KeysKept, KyHeld
  <2> QED BY <1>0, <2>1, <2>2, <2>3, <2>4, <2>5, <2>6, KyOwnStep
<1>5. ASSUME NEW ok \in BOOLEAN, RotateSetConfig(c, ok) PROVE KeysInv' /\ (~kyOverlap' => KeysKept)
  <2>1. /\ kyJob[c].pc = "setConfig" /\ kyIdentity' = (IF ok THEN key ELSE kyIdentity) /\ KyEnds(c)
        /\ UNCHANGED <<kyStore, kyNext, kyFile, kyDropped, kyOverlap>>
    BY <1>5 DEF RotateSetConfig
  <2>2. to \in KeyNames /\ kyProc = "cli"
    BY <1>0, <2>1 DEF RequestOK, KeysInv, Holders
  <2>3. key # 0
    BY <1>0, <2>1 DEF RequestOK
  <2>4. kyIdentity' \in AllKeys
    BY <1>0, <2>1, <2>3
  <2>5. ~kyOverlap => KeysKept
    <3> SUFFICES ASSUME ~kyOverlap, NEW k \in KyHeld \ {0} PROVE k \in KyHeld'
      BY DEF KeysKept
    <3>1. kyStore[to] = kyIdentity
      BY <1>0, <2>1 DEF QuietOK
    <3> QED BY <2>1, <2>2, <3>1 DEF KyHeld
  <2> QED BY <1>0, <2>1, <2>4, <2>5, KyEndStep
<1>6. ASSUME NEW name \in AnyName, Remove(c, name) PROVE KeysInv' /\ (~kyOverlap' => KeysKept)
  <2>1. /\ kyJob[c].pc = "rm" /\ name \in kyJob[c].left /\ name \in KeyNames
        /\ UNCHANGED <<kyIdentity, kyNext, kyFile, kyOverlap>>
    BY <1>0, <1>6 DEF Remove, RequestOK
  <2>2. CASE kyStore[name] = 0
    <3>1. kyStore' = kyStore /\ kyDropped' = kyDropped /\ KyEnds(c)
      BY <1>6, <2>2 DEF Remove
    <3>2. KeysKept
      BY <2>1, <3>1 DEF KeysKept, KyHeld
    <3> QED BY <1>0, <2>1, <3>1, <3>2, KyEndStep
  <2>3. CASE kyStore[name] # 0
    <3>1. /\ kyStore' = [kyStore EXCEPT ![name] = 0] /\ kyDropped' = kyDropped \cup {kyStore[name]}
          /\ IF kyJob[c].left = {name} THEN KyEnds(c)
             ELSE kyJob' = [kyJob EXCEPT ![c].left = @ \ {name}] /\ UNCHANGED kyProc
      BY <1>6, <2>3 DEF Remove
    <3>2. KeysKept /\ kyDropped' \subseteq AllKeys /\ kyStore' \in [KeyNames -> 0..MaxKeys]
      <4>1. kyStore[name] \in AllKeys
        BY <1>0, <2>1, <2>3
      <4>2. kyDropped' \subseteq AllKeys
        BY <1>0, <3>1, <4>1
      <4>3. \A k \in KyHeld : k = kyStore[name] \/ k \in KyHeld'
        BY <1>1, <2>1, <3>1
      <4>4. kyStore' \in [KeyNames -> 0..MaxKeys]
        BY <1>1, <2>1, <3>1
      <4>5. kyStore[name] \in kyDropped'
        BY <3>1
      <4> QED BY <4>2, <4>3, <4>4, <4>5 DEF KeysKept
    <3>3. CASE kyJob[c].left = {name}
      <4>1. KyEnds(c)
        BY <3>1, <3>3
      <4> QED BY <1>0, <2>1, <3>2, <4>1, KyEndStep
    <3>4. CASE kyJob[c].left # {name}
      <4> DEFINE j == [kyJob[c] EXCEPT !.left = @ \ {name}]
      <4>1. j \in KeyRequest /\ j.pc = "rm" /\ j.left \subseteq kyJob[c].left
        BY <1>0, <2>1 DEF KeyRequest
      <4>2. kyJob' = [kyJob EXCEPT ![c] = j] /\ UNCHANGED kyProc
        BY <3>1, <3>4
      <4> HIDE DEF j
      <4>3. RequestOK(j) /\ QuietOK(j, kyStore', kyIdentity') /\ j # KyIdle
        BY <1>0, <4>1, KyIdleIs DEF RequestOK, QuietOK
      <4> QED BY <1>0, <2>1, <3>2, <4>1, <4>2, <4>3, KyOwnStep
    <3> QED BY <3>3, <3>4
  <2> QED BY <2>2, <2>3
<1> QED BY <1>2, <1>3, <1>4, <1>5, <1>6
LEMMA ReadsKeep ==
    ASSUME KeysInv, NEW c \in KeyClients,
           \/ KeyListed(c) \/ KeyNotFound(c)
           \/ \E name \in AnyName : KeyScan(c, name) \/ KeyListGet(c, name)
    PROVE  KeysInv' /\ KyHeld' = KyHeld
<1>0. /\ kyJob[c] \in KeyRequest /\ RequestOK(kyJob[c])
      /\ kyStore \in [KeyNames -> 0..MaxKeys] /\ kyIdentity \in AllKeys /\ kyNext \in AllKeys
      /\ kyDropped \subseteq AllKeys
      /\ ~kyOverlap => QuietOK(kyJob[c], kyStore, kyIdentity)
  BY RequestIs
<1>1. CASE KeyListed(c)
  BY <1>0, <1>1, KyEndStep DEF KeyListed, KyHeld
<1>2. CASE KeyNotFound(c)
  BY <1>0, <1>2, KyEndStep DEF KeyNotFound, KyHeld
<1>3. ASSUME NEW name \in AnyName, KeyScan(c, name) \/ KeyListGet(c, name) PROVE KeysInv' /\ KyHeld' = KyHeld
  <2> DEFINE f == [kyJob[c] EXCEPT !.pc = "failed", !.left = {}]
             g == [kyJob[c] EXCEPT !.left = @ \ {name}]
             next == IF kyStore[name] = kyJob[c].key THEN KyIdle
                     ELSE IF kyStore[name] = 0 \/ kyJob[c].left = {name} THEN f ELSE g
  <2>0. /\ KeyListGet(c, name) => kyJob' = [kyJob EXCEPT ![c] = IF kyStore[name] = 0 THEN f ELSE g]
        /\ KeyScan(c, name) => kyJob' = [kyJob EXCEPT ![c] = next]
    <3>1. KeyListGet(c, name) => kyJob' = [kyJob EXCEPT ![c] = IF kyStore[name] = 0 THEN f ELSE g]
      BY DEF KeyListGet
    <3>2. KeyScan(c, name) => kyJob' = [kyJob EXCEPT ![c] = next]
      BY DEF KeyScan
    <3> QED BY <3>1, <3>2
  <2>1. /\ f \in KeyRequest /\ f.pc = "failed" /\ f.left = {} /\ f.key = kyJob[c].key
        /\ g \in KeyRequest /\ g.pc = kyJob[c].pc /\ g.left = kyJob[c].left \ {name} /\ g.key = kyJob[c].key
    BY <1>0 DEF KeyRequest
  <2> HIDE DEF f, g
  <2>2. /\ kyJob[c].pc \in {"scan", "list"} /\ name \in kyJob[c].left /\ name \in KeyNames
        /\ UNCHANGED <<kyStore, kyIdentity, kyNext, kyFile, kyDropped, kyOverlap>>
    BY <1>0, <1>3 DEF KeyScan, KeyListGet, RequestOK
  <2>3. RequestOK(f) /\ RequestOK(g) /\ f # KyIdle /\ g # KyIdle
    BY <1>0, <2>1, <2>2, KyIdleIs DEF RequestOK
  <2>4. KyHeld' = KyHeld
    BY <2>2 DEF KyHeld
  <2>5. CASE KeyListGet(c, name)
    <3>1. /\ kyJob[c].pc = "list" /\ UNCHANGED kyProc
          /\ \/ kyStore[name] = 0 /\ kyJob' = [kyJob EXCEPT ![c] = f]
             \/ kyStore[name] # 0 /\ kyJob' = [kyJob EXCEPT ![c] = g]
      BY <2>0, <2>5 DEF KeyListGet
    <3>2. CASE kyStore[name] = 0
      <4>1. kyOverlap
        BY <1>0, <2>2, <3>2 DEF QuietOK
      <4>2. f.pc # "create" /\ kyJob' = [kyJob EXCEPT ![c] = f]
        BY <2>1, <3>1, <3>2
      <4> QED BY <1>0, <2>1, <2>2, <2>3, <2>4, <3>1, <4>1, <4>2, KyOwnStep
    <3>3. CASE kyStore[name] # 0
      <4>1. ~kyOverlap => QuietOK(g, kyStore', kyIdentity')
        BY <1>0, <2>1, <2>2, <3>1 DEF QuietOK
      <4>2. kyJob' = [kyJob EXCEPT ![c] = g]
        BY <3>1, <3>3
      <4> QED BY <1>0, <2>1, <2>2, <2>3, <2>4, <3>1, <4>1, <4>2, KyOwnStep
    <3> QED BY <3>2, <3>3
  <2>6. CASE KeyScan(c, name)
    <3> DEFINE j == next
    <3>1. kyJob[c].pc = "scan" /\ kyJob' = [kyJob EXCEPT ![c] = j]
      BY <2>0, <2>6 DEF KeyScan
    <3>2. kyJob'[c] = j
      BY <3>1 DEF KeysInv, KyTypeOK
    <3>3. kyProc' = IF kyProc = "cli" /\ j = KyIdle THEN "none" ELSE kyProc
      BY <2>6, <3>2 DEF KeyScan
    <3>4. j \in KeyRequest /\ RequestOK(j) /\ j.pc \in {"idle", "failed", "scan"}
      BY <2>1, <2>3, <3>1, KyIdleIs
    <3>5. ~kyOverlap => QuietOK(j, kyStore', kyIdentity')
      <4>1. CASE kyStore[name] = kyJob[c].key
        BY <4>1, KyIdleIs
      <4>2. CASE kyStore[name] # kyJob[c].key /\ (kyStore[name] = 0 \/ kyJob[c].left = {name})
        <5>1. ~kyOverlap => QuietOK(f, kyStore', kyIdentity')
          BY <1>0, <2>1, <2>2, <3>1, <4>2 DEF QuietOK
        <5> QED BY <4>2, <5>1
      <4>3. CASE kyStore[name] # kyJob[c].key /\ ~(kyStore[name] = 0 \/ kyJob[c].left = {name})
        <5>1. ~kyOverlap => QuietOK(g, kyStore', kyIdentity')
          BY <1>0, <2>1, <2>2, <3>1, <4>3 DEF QuietOK
        <5> QED BY <4>3, <5>1
      <4> QED BY <4>1, <4>2, <4>3
    <3> HIDE DEF j
    <3> QED BY <1>0, <2>2, <2>4, <3>1, <3>3, <3>4, <3>5, KyOwnStep
  <2> QED BY <1>3, <2>5, <2>6
<1> QED BY <1>1, <1>2, <1>3

LEMMA HeldKept == KyHeld' = KyHeld => KeysKept
BY DEF KeysKept

LEMMA KeysStep == KeysInv /\ [KyNext]_kyVars => KeysInv' /\ (~kyOverlap' => KeysKept)
<1> SUFFICES ASSUME KeysInv, [KyNext]_kyVars PROVE KeysInv' /\ (~kyOverlap' => KeysKept)
  OBVIOUS
<1>1. CASE KyDaemon
  <2>1. KeysInv'
    BY <1>1, KyIdleIs DEF KyDaemon, KeysInv, KyTypeOK, Holders, KyFree, OneRequest
  <2> QED BY <1>1, <2>1, HeldKept DEF KyDaemon, KyHeld
<1>2. CASE KyCrash
  <2>1. \A c \in KeyClients : kyJob'[c] = KyIdle
    BY <1>2 DEF KyCrash
  <2>2. KyTypeOK'
    BY <1>2, KyIdleIs DEF KyCrash, KeysInv, KyTypeOK
  <2>3. Holders' /\ OneRequest'
    BY <1>2, <2>1, KyIdleIs DEF KyCrash, Holders, KyFree, OneRequest
  <2> QED BY <1>2, <2>1, <2>2, <2>3, KyIdleIs, HeldKept DEF KyCrash, KyHeld, KeysInv
<1>3. ASSUME NEW name \in AnyName, KeyExport(name) PROVE KeysInv' /\ KyHeld' = KyHeld
  <2>1. kyFile' \in 0..MaxKeys
    BY <1>3 DEF KeyExport, AnyName, KeysInv, KyTypeOK
  <2> QED BY <1>3, <2>1 DEF KeyExport, KeysInv, KyTypeOK, Holders, KyFree, OneRequest, KyHeld
<1>4. CASE UNCHANGED kyVars
  BY <1>4 DEF kyVars, KeysInv, KyTypeOK, Holders, KyFree, OneRequest, KyHeld, KeysKept
<1> QED BY <1>1, <1>2, <1>3, <1>4, BeginsKeep, PutsKeep, OverwritesKeep, ReadsKeep, HeldKept DEF KyNext

LEMMA KeysInvIs == KeysInv => KySound
<1> SUFFICES ASSUME KeysInv PROVE KySound
  OBVIOUS
<1>1. KyRenamedKeyNamed
  BY DEF KyRenamedKeyNamed, KeysInv, QuietOK, RequestOK
<1>2. KyLookupFinds
  BY DEF KyLookupFinds, KeysInv, QuietOK
<1> QED BY <1>1, <1>2 DEF KySound, KeysInv

\* No rename leaves its key without a name, and publish and list find what is
\* there, unless requests overlap (Rename, keylookup, List).
THEOREM KeysSound == KyInit /\ [][KyNext]_kyVars => []KySound
<1>1. KyInit => KeysInv
  BY KeysInit
<1>2. KeysInv /\ [KyNext]_kyVars => KeysInv'
  BY KeysStep
<1>3. KeysInv => KySound
  BY KeysInvIs
<1> QED BY <1>1, <1>2, <1>3, PTL

\* A key that was once the identity or in the keystore stays there until it is
\* removed or overwritten on request, through renames, rotations and the death
\* of the process at any point, unless requests overlap (Rename, doRotate).
THEOREM KeysAreKept == KyInit /\ [][KyNext]_kyVars => KyKept
<1> DEFINE K == ~kyOverlap' => \A k \in KyHeld \ {0} : k \in KyHeld' \/ k \in kyDropped'
<1>1. KyInit => KeysInv
  BY KeysInit
<1>2. KeysInv /\ [KyNext]_kyVars => KeysInv' /\ [K]_kyVars
  BY KeysStep DEF KeysKept
<1> QED BY <1>1, <1>2, PTL DEF KyKept

(* A behaviour of the instance that TLC checks is one of each part that it *)
(* leaves alone or runs.                                                   *)
LEMMA RepositoryParts ==
    RepositorySpec => /\ KyInit /\ [][KyNext]_kyVars
                      /\ Spec
<1>1. RepositoryInit => KyInit /\ Init
  BY DEF RepositoryInit
<1>2. [RepositoryNext]_repositoryVars => [KyNext]_kyVars /\ [Next]_vars
  BY DEF RepositoryNext, repositoryVars, kyVars, vars
<1> QED BY <1>1, <1>2, PTL DEF RepositorySpec, Spec

\* The same of a repository whose keys and configuration are both used.
THEOREM RepositoryKeysHold == RepositorySpec => []KySound /\ KyKept
BY RepositoryParts, KeysSound, KeysAreKept, PTL

-----------------------------------------------------------------------------
(* A command that runs alone.  As long as the file is the one it started   *)
(* with, ...                                                               *)
Same ==
    /\ cfg[mem].priv = file.priv
    /\ cfg[mem].svc \subseteq file.svc
    /\ cfg[mem].opt \in {Unset, file.opt}

(* ... the object it has differs from the file by what it has done so far, *)
(* and what it will write is its own effect.                               *)
Progress(r) ==
    /\ pc[r] \in {"config", "add", "addBack", "store"} => ref[r] = mem
    /\ pc[r] \in {"add", "addBack", "store"} => Same
    /\ pc[r] \in {"add", "addBack"} => local[r] = file.boot
    /\ pc[r] = "add" => cfg[mem].boot = {}
    /\ pc[r] = "addBack" => cfg[mem].boot = {cmd[r].arg}
    /\ pc[r] = "store" => local[r] = file.boot \ {cmd[r].arg}
    /\ pc[r] = "write" => MapMergeDeep(file, cfg[ref[r]]) = Effect(cmd[r], file)

(* It is alone because Begin forgets the file of whoever is under way.     *)
Alone ==
    \A r \in Reqs : base[r] # None =>
        /\ pc[r] # "idle" /\ \A q \in Reqs : q # r => pc[q] = "idle"
        /\ lastWrite /\ file = base[r]
        /\ Progress(r)

(* A file with another bootstrap list, other services and another option.  *)
Changed(f, boot, svc, opt) ==
    [priv |-> f.priv, boot |-> boot, svc |-> svc, opt |-> opt, extra |-> f.extra]

(* What MapMergeDeep leaves of a file that an object agrees with.          *)
LEMMA Merged ==
    ASSUME NEW f \in Files, NEW c \in Configs, c.priv = f.priv
    PROVE  /\ c.opt = Unset => MapMergeDeep(f, c) = Changed(f, c.boot, f.svc \cup c.svc, f.opt)
           /\ c.opt # Unset => MapMergeDeep(f, c) = Changed(f, c.boot, f.svc \cup c.svc, c.opt)
BY DEF MapMergeDeep, Changed

(* The effect of each command, one by one.                                 *)
LEMMA SetEffects ==
    ASSUME NEW f \in Files, NEW c
    PROVE  /\ c.op = "setIdentity" => Effect(c, f) = f
           /\ c.op = "setBoot" => Effect(c, f) = [f EXCEPT !.boot = c.val]
           /\ c.op = "setOpt" => Effect(c, f) = [f EXCEPT !.opt = c.arg]
           /\ c.op = "setExtra" => Effect(c, f) = [f EXCEPT !.extra = c.arg]
BY DEF Effect

LEMMA Effects ==
    ASSUME NEW f \in Files, NEW c
    PROVE  /\ c.op = "bootAdd" => Effect(c, f) = Changed(f, f.boot \cup {c.arg}, f.svc, f.opt)
           /\ c.op = "bootRm" => Effect(c, f) = Changed(f, f.boot \ {c.arg}, f.svc, f.opt)
           /\ c.op = "bootRmAll" => Effect(c, f) = Changed(f, {}, f.svc, f.opt)
           /\ c.op = "svcAdd" => Effect(c, f) = Changed(f, f.boot, f.svc \cup {c.arg}, f.opt)
           /\ c.op = "svcRm" => Effect(c, f) = Changed(f, f.boot, f.svc, f.opt)
           /\ c.op = "profile" => Effect(c, f) = Changed(f, f.boot, f.svc, c.arg)
           /\ c.op = "replace" /\ c.arg = Unset => Effect(c, f) = Changed(f, c.val, f.svc, f.opt)
           /\ c.op = "replace" /\ c.arg # Unset => Effect(c, f) = Changed(f, c.val, f.svc, c.arg)
BY DEF Effect, Changed, Files

(* Memory and file agree when the command that is alone has not begun to   *)
(* change anything.                                                        *)
LEMMA AloneAgrees ==
    ASSUME IInv, Down, Alone, NEW r \in Reqs, base[r] # None, pc[r] \in {"start", "config"}
    PROVE  Agree /\ file \in Files
<1>1. up /\ lastWrite
  BY DEF Down, Alone
<1>2. \A q \in Reqs : ~Changing(q)
  BY DEF Alone, Changing
<1> QED BY <1>1, <1>2 DEF IInv, TypeOK, Synced

(* A command that goes on has only itself to care for, ...                 *)
LEMMA GoesOn ==
    ASSUME IInv, Alone, NEW r \in Reqs, NEW stage, stage # "idle", pc[r] # "idle",
           pc' = [pc EXCEPT ![r] = stage], UNCHANGED <<file, lastWrite, base>>,
           base[r] # None => Progress(r)'
    PROVE  Alone'
BY DEF IInv, TypeOK, Alone

(* ... and when it ends nobody was alone but itself.                       *)
LEMMA Ends == ASSUME IInv, Alone, NEW r \in Reqs, Finish(r), pc[r] # "idle" PROVE Alone'
BY DEF IInv, TypeOK, Alone, Finish

(* The steps on the object in use, by what they leave.                     *)
LEMMA AloneInPlace ==
    ASSUME IInv, Down, Alone, NEW r \in Reqs,
           \/ bootstrapAdd(r) \/ AddNew(r) \/ AddBack(r) \/ SetBootstrapPeers(r)
           \/ bootstrapRemoveAll(r) \/ ServiceAdd(r) \/ ServiceRm(r)
    PROVE  Alone'
<1> DEFINE Inside == \/ bootstrapAdd(r) \/ AddNew(r) \/ AddBack(r) \/ SetBootstrapPeers(r)
                     \/ bootstrapRemoveAll(r) \/ ServiceAdd(r) \/ ServiceRm(r)
<1>1. /\ pc[r] \in {"config", "add", "addBack", "store"}
      /\ UNCHANGED <<file, lastWrite, mem, cmd, ref, base>>
  BY DEF bootstrapAdd, AddNew, AddBack, SetBootstrapPeers, bootstrapRemoveAll, ServiceAdd,
         ServiceRm, diskVars
<1>2. PICK stage \in {"add", "addBack", "write"} : pc' = [pc EXCEPT ![r] = stage]
  BY DEF bootstrapAdd, AddNew, AddBack, SetBootstrapPeers, bootstrapRemoveAll, ServiceAdd,
         ServiceRm, Goto
<1>3. SUFFICES ASSUME base[r] # None PROVE Progress(r)'
  BY <1>1, <1>2, GoesOn
<1>4. /\ ref[r] = mem /\ mem \in Objs /\ cfg[mem] \in Configs /\ file \in Files
      /\ cfg \in [Objs -> Configs] /\ Same /\ pc \in [Reqs -> Stages]
      /\ local \in [Reqs -> SUBSET Peers] /\ local[r] \in SUBSET Peers
  <2>1. ref[r] = mem
    BY <1>1, <1>3 DEF Alone, Progress
  <2>2. Same /\ file \in Files
    <3>1. CASE pc[r] = "config"
      BY <1>3, <3>1, AloneAgrees DEF Agree, Same
    <3>2. CASE pc[r] # "config"
      BY <1>1, <1>3, <3>2 DEF Alone, Progress, IInv, Synced, TypeOK
    <3> QED BY <3>1, <3>2
  <2> QED BY <2>1, <2>2 DEF IInv, TypeOK
<1> DEFINE c == cfg'[mem]
<1>5. \A b \in SUBSET Peers :
         /\ [cfg[mem] EXCEPT !.boot = b] \in Configs
         /\ [cfg[mem] EXCEPT !.boot = b].boot = b
         /\ [cfg[mem] EXCEPT !.boot = b].priv = file.priv
         /\ [cfg[mem] EXCEPT !.boot = b].svc \subseteq file.svc
         /\ [cfg[mem] EXCEPT !.boot = b].opt \in {Unset, file.opt}
  BY <1>4 DEF Same, Configs
<1>6. \A b \in SUBSET Peers :
         MapMergeDeep(file, [cfg[mem] EXCEPT !.boot = b]) = Changed(file, b, file.svc, file.opt)
  <2> SUFFICES ASSUME NEW b \in SUBSET Peers
               PROVE  MapMergeDeep(file, [cfg[mem] EXCEPT !.boot = b])
                         = Changed(file, b, file.svc, file.opt)
    OBVIOUS
  <2> DEFINE d == [cfg[mem] EXCEPT !.boot = b]
  <2>1. /\ d \in Configs /\ d.boot = b /\ d.priv = file.priv /\ d.svc \subseteq file.svc
        /\ d.opt \in {Unset, file.opt}
    BY <1>5
  <2> HIDE DEF d
  <2>2. file.svc \cup d.svc = file.svc
    BY <2>1
  <2>3. MapMergeDeep(file, d) = Changed(file, b, file.svc, file.opt)
    BY <1>4, <2>1, <2>2, Merged
  <2> QED BY <2>3 DEF d
<1>7. cmd[r] \in Commands
  BY <1>1 DEF IInv, TypeOK
<1>8. CASE bootstrapAdd(r)
  <2>1. c = [cfg[mem] EXCEPT !.boot = {}] /\ pc'[r] = "add"
    BY <1>4, <1>8 DEF bootstrapAdd, Goto
  <2>2. local'[r] = file.boot
    BY <1>3, <1>4, <1>8, AloneAgrees DEF bootstrapAdd, Agree
  <2>3. Same' /\ cfg'[mem'].boot = {}
    BY <1>1, <1>5, <2>1 DEF Same
  <2> QED BY <1>1, <1>4, <2>1, <2>2, <2>3 DEF Progress
<1>9. CASE AddNew(r)
  <2>0. cmd[r].op = "bootAdd" /\ cmd[r].arg \in Peers
    BY <1>7, <1>9, CommandTypes DEF AddNew, IInv, Staged
  <2>1. c = [cfg[mem] EXCEPT !.boot = {cmd[r].arg}] /\ pc'[r] = "addBack" /\ local' = local
    <3>1. cfg[mem].boot = {}
      BY <1>3, <1>9 DEF AddNew, Alone, Progress
    <3>2. c = [cfg[mem] EXCEPT !.boot = cfg[mem].boot \cup {cmd[r].arg}]
      BY <1>4, <1>9 DEF AddNew
    <3>3. cfg[mem].boot \cup {cmd[r].arg} = {cmd[r].arg}
      BY <3>1
    <3> QED BY <1>4, <1>9, <3>2, <3>3 DEF AddNew, Goto
  <2>2. local'[r] = file.boot
    BY <1>3, <1>9, <2>1 DEF AddNew, Alone, Progress
  <2>3. Same' /\ cfg'[mem'].boot = {cmd[r].arg}
    BY <1>1, <1>5, <2>0, <2>1 DEF Same
  <2> QED BY <1>1, <1>4, <2>1, <2>2, <2>3 DEF Progress
<1>10. CASE AddBack(r)
  <2>0. cmd[r].op = "bootAdd" /\ cmd[r].arg \in Peers
    BY <1>7, <1>10, CommandTypes DEF AddBack, IInv, Staged
  <2>1. cfg[mem].boot = {cmd[r].arg} /\ local[r] = file.boot
    BY <1>3, <1>10 DEF AddBack, Alone, Progress
  <2>2. c = [cfg[mem] EXCEPT !.boot = file.boot \cup {cmd[r].arg}] /\ pc'[r] = "write"
    <3>1. c = [cfg[mem] EXCEPT !.boot = cfg[mem].boot \cup local[r]]
      BY <1>4, <1>10 DEF AddBack
    <3>2. cfg[mem].boot \cup local[r] = file.boot \cup {cmd[r].arg}
      BY <2>1
    <3> QED BY <1>4, <1>10, <3>1, <3>2 DEF AddBack, Goto
  <2>3. file.boot \cup {cmd[r].arg} \in SUBSET Peers
    BY <1>4, <2>0 DEF Files
  <2>4. MapMergeDeep(file, c) = Changed(file, file.boot \cup {cmd[r].arg}, file.svc, file.opt)
    BY <1>6, <2>2, <2>3
  <2>5. MapMergeDeep(file, c) = Effect(cmd[r], file)
    BY <1>4, <2>0, <2>4, Effects
  <2> QED BY <1>1, <1>4, <2>2, <2>5 DEF Progress
<1>11. CASE SetBootstrapPeers(r)
  <2>0. cmd[r].op = "bootRm"
    BY <1>11 DEF SetBootstrapPeers, IInv, Staged
  <2>1. local[r] = file.boot \ {cmd[r].arg}
    BY <1>3, <1>11 DEF SetBootstrapPeers, Alone, Progress
  <2>2. c = [cfg[mem] EXCEPT !.boot = local[r]] /\ pc'[r] = "write"
    BY <1>4, <1>11 DEF SetBootstrapPeers, Goto
  <2>3. MapMergeDeep(file, c) = Changed(file, file.boot \ {cmd[r].arg}, file.svc, file.opt)
    BY <1>4, <1>6, <2>1, <2>2
  <2>4. MapMergeDeep(file, c) = Effect(cmd[r], file)
    BY <1>4, <2>0, <2>3, Effects
  <2> QED BY <1>1, <1>4, <2>2, <2>4 DEF Progress
<1>12. CASE bootstrapRemoveAll(r)
  <2>1. c = [cfg[mem] EXCEPT !.boot = {}] /\ pc'[r] = "write" /\ cmd[r].op = "bootRmAll"
    BY <1>4, <1>12 DEF bootstrapRemoveAll, Goto
  <2>2. MapMergeDeep(file, c) = Changed(file, {}, file.svc, file.opt)
    BY <1>6, <2>1
  <2>3. Effect(cmd[r], file) = Changed(file, {}, file.svc, file.opt)
    BY <1>4, <2>1, Effects
  <2> QED BY <1>1, <1>4, <2>1, <2>2, <2>3 DEF Progress
<1>13. CASE ServiceAdd(r) \/ ServiceRm(r)
  <2>1. pc[r] = "config" /\ cfg[mem].boot = file.boot
    BY <1>3, <1>13, AloneAgrees DEF ServiceAdd, ServiceRm, Agree
  <2>2. \A v \in SUBSET Services :
           MapMergeDeep(file, [cfg[mem] EXCEPT !.svc = v])
              = Changed(file, file.boot, file.svc \cup v, file.opt)
    <3> SUFFICES ASSUME NEW v \in SUBSET Services
                 PROVE  MapMergeDeep(file, [cfg[mem] EXCEPT !.svc = v])
                           = Changed(file, file.boot, file.svc \cup v, file.opt)
      OBVIOUS
    <3> DEFINE d == [cfg[mem] EXCEPT !.svc = v]
    <3>1. /\ d \in Configs /\ d.boot = file.boot /\ d.priv = file.priv /\ d.svc = v
          /\ d.opt \in {Unset, file.opt}
      BY <1>4, <2>1 DEF Same, Configs
    <3> HIDE DEF d
    <3>2. MapMergeDeep(file, d) = Changed(file, file.boot, file.svc \cup v, file.opt)
      BY <1>4, <3>1, Merged
    <3> QED BY <3>2 DEF d
  <2>3. CASE ServiceAdd(r)
    <3>1. cmd[r].op = "svcAdd" /\ cmd[r].arg \in Services
      BY <1>7, <2>3, CommandTypes DEF ServiceAdd, SvcOps
    <3>2. c = [cfg[mem] EXCEPT !.svc = cfg[mem].svc \cup {cmd[r].arg}] /\ pc'[r] = "write"
      BY <1>4, <2>3 DEF ServiceAdd, Goto
    <3>3. cfg[mem].svc \cup {cmd[r].arg} \in SUBSET Services
      BY <1>4, <3>1 DEF Configs
    <3>4. file.svc \cup (cfg[mem].svc \cup {cmd[r].arg}) = file.svc \cup {cmd[r].arg}
      BY <1>4 DEF Same
    <3>5. MapMergeDeep(file, c) = Changed(file, file.boot, file.svc \cup {cmd[r].arg}, file.opt)
      BY <2>2, <3>2, <3>3, <3>4
    <3>6. MapMergeDeep(file, c) = Effect(cmd[r], file)
      BY <1>4, <3>1, <3>5, Effects
    <3> QED BY <1>1, <1>4, <3>2, <3>6 DEF Progress
  <2>4. CASE ServiceRm(r)
    <3>1. cmd[r].op = "svcRm"
      BY <2>4 DEF ServiceRm
    <3>2. c = [cfg[mem] EXCEPT !.svc = cfg[mem].svc \ {cmd[r].arg}] /\ pc'[r] = "write"
      BY <1>4, <2>4 DEF ServiceRm, Goto
    <3>3. cfg[mem].svc \ {cmd[r].arg} \in SUBSET Services
      BY <1>4 DEF Configs
    <3>4. file.svc \cup (cfg[mem].svc \ {cmd[r].arg}) = file.svc
      BY <1>4 DEF Same
    <3>5. MapMergeDeep(file, c) = Changed(file, file.boot, file.svc, file.opt)
      BY <2>2, <3>2, <3>3, <3>4
    <3>6. MapMergeDeep(file, c) = Effect(cmd[r], file)
      BY <1>4, <3>1, <3>5, Effects
    <3> QED BY <1>1, <1>4, <3>2, <3>6 DEF Progress
  <2> QED BY <1>13, <2>3, <2>4
<1> QED BY <1>8, <1>9, <1>10, <1>11, <1>12, <1>13

(* The steps of a command up to the object it works on.                    *)
LEMMA AloneReads ==
    ASSUME IInv, Down, Alone, NEW r \in Reqs,
           Config(r) \/ bootstrapRemove(r) \/ transformConfig(r) \/ replaceConfig(r)
    PROVE  Alone'
<1>1. pc[r] \in {"start", "config"} /\ UNCHANGED <<file, lastWrite, mem, cmd, base>>
  BY DEF Config, bootstrapRemove, transformConfig, replaceConfig, diskVars, memVars
<1>2. PICK stage \in {"config", "store", "write"} : pc' = [pc EXCEPT ![r] = stage]
  BY DEF Config, bootstrapRemove, transformConfig, replaceConfig, Goto
<1>3. SUFFICES ASSUME base[r] # None PROVE Progress(r)'
  BY <1>1, <1>2, GoesOn
<1>4. Agree /\ file \in Files /\ mem \in Objs /\ cfg[mem] \in Configs /\ cmd[r] \in Commands
  BY <1>1, <1>3, AloneAgrees DEF IInv, TypeOK
<1>5. CASE Config(r)
  <2>1. pc'[r] = "config" /\ ref'[r] = mem
    BY <1>5 DEF Config, Goto, IInv, TypeOK
  <2> QED BY <1>1, <2>1 DEF Progress
<1>6. CASE bootstrapRemove(r)
  <2>1. pc'[r] = "store" /\ ref'[r] = mem /\ cfg' = cfg
    BY <1>3, <1>6 DEF bootstrapRemove, Goto, IInv, TypeOK, Alone, Progress, memVars
  <2>2. local'[r] = file.boot \ {cmd[r].arg}
    BY <1>3, <1>4, <1>6, <2>1 DEF bootstrapRemove, IInv, TypeOK, Agree, Alone, Progress
  <2>3. Same'
    BY <1>1, <1>4, <2>1 DEF Same, Agree
  <2> QED BY <1>1, <2>1, <2>2, <2>3 DEF Progress
<1>7. CASE transformConfig(r)
  <2>1. PICK o \in Objs \ InUse : /\ ref' = [ref EXCEPT ![r] = o]
                                  /\ cfg' = [cfg EXCEPT ![o] = [cfg[mem] EXCEPT !.opt = cmd[r].arg]]
    BY <1>7 DEF transformConfig
  <2> DEFINE d == [cfg[mem] EXCEPT !.opt = cmd[r].arg]
  <2>2. pc'[r] = "write" /\ ref'[r] = o /\ cfg'[o] = d
    BY <1>7, <2>1 DEF transformConfig, Goto, IInv, TypeOK
  <2>3. cmd[r].op = "profile" /\ cmd[r].arg \in Opts /\ cmd[r].arg # Unset
    BY <1>4, <1>7, CommandTypes, RepoConfigAssumption DEF transformConfig
  <2>4. /\ d \in Configs /\ d.priv = file.priv /\ d.boot = file.boot /\ d.svc \subseteq file.svc
        /\ d.opt = cmd[r].arg
    BY <1>4, <2>3 DEF Configs, OptVals, Agree
  <2> HIDE DEF d
  <2>5. file.svc \cup d.svc = file.svc
    BY <2>4
  <2>6. MapMergeDeep(file, d) = Changed(file, file.boot, file.svc, cmd[r].arg)
    BY <1>4, <2>3, <2>4, <2>5, Merged
  <2>7. MapMergeDeep(file, d) = Effect(cmd[r], file)
    BY <1>4, <2>3, <2>6, Effects
  <2> QED BY <1>1, <2>2, <2>7 DEF Progress
<1>8. CASE replaceConfig(r)
  <2> DEFINE d == [priv |-> file.priv, boot |-> cmd[r].val, svc |-> file.svc, opt |-> cmd[r].arg]
  <2>1. PICK o \in Objs \ InUse : ref' = [ref EXCEPT ![r] = o] /\ cfg' = [cfg EXCEPT ![o] = d]
    BY <1>8 DEF replaceConfig
  <2>2. pc'[r] = "write" /\ ref'[r] = o /\ cfg'[o] = d
    BY <1>8, <2>1 DEF replaceConfig, Goto, IInv, TypeOK
  <2>3. cmd[r].op = "replace" /\ cmd[r].arg \in OptVals /\ cmd[r].val \in SUBSET Peers
    BY <1>4, <1>8, CommandTypes DEF replaceConfig
  <2>4. /\ d \in Configs /\ d.priv = file.priv /\ d.boot = cmd[r].val /\ d.svc = file.svc
        /\ d.opt = cmd[r].arg
    BY <1>4, <2>3 DEF Configs, Files
  <2> HIDE DEF d
  <2>5. file.svc \cup d.svc = file.svc
    BY <2>4
  <2>6. MapMergeDeep(file, d) = Effect(cmd[r], file)
    <3>1. CASE cmd[r].arg = Unset
      <4>1. MapMergeDeep(file, d) = Changed(file, cmd[r].val, file.svc, file.opt)
        BY <1>4, <2>4, <2>5, <3>1, Merged
      <4> QED BY <1>4, <2>3, <3>1, <4>1, Effects
    <3>2. CASE cmd[r].arg # Unset
      <4>1. MapMergeDeep(file, d) = Changed(file, cmd[r].val, file.svc, cmd[r].arg)
        BY <1>4, <2>4, <2>5, <3>2, Merged
      <4> QED BY <1>4, <2>3, <3>2, <4>1, Effects
    <3> QED BY <3>1, <3>2
  <2> QED BY <1>1, <2>2, <2>6 DEF Progress
<1> QED BY <1>5, <1>6, <1>7, <1>8

LEMMA AloneBegins == ASSUME IInv, Alone, NEW r \in Reqs, Begin(r) PROVE Alone'
<1>1. pc' = [pc EXCEPT ![r] = "start"] /\ UNCHANGED <<file, lastWrite>> /\ pc[r] = "idle"
  BY DEF Begin, Goto, diskVars
<1>2. ASSUME NEW q \in Reqs, base'[q] # None
      PROVE  q = r /\ lastWrite /\ base'[q] = file /\ \A s \in Reqs : pc[s] = "idle"
  BY <1>2 DEF Begin
<1>3. pc'[r] = "start" => Progress(r)'
  BY DEF Progress
<1> QED BY <1>1, <1>2, <1>3 DEF Alone, IInv, TypeOK

LEMMA AloneStep == IInv /\ Down /\ Alone /\ [Next]_vars => Alone'
<1> SUFFICES ASSUME IInv, Down, Alone, [Next]_vars PROVE Alone'
  OBVIOUS
<1>1. CASE Stop
  BY <1>1 DEF Stop, Alone
<1>2. CASE openConfig
  BY <1>2 DEF openConfig, Down, Alone, reqVars
<1>3. ASSUME NEW r \in Reqs, EarlyReturn(r) \/ SetConfig(r) \/ SetConfigKey(r) \/ ReadFails(r)
      PROVE  Alone'
  BY <1>3, Ends DEF EarlyReturn, SetConfig, SetConfigKey, ReadFails
<1>4. ASSUME NEW r \in Reqs, Step(r) PROVE Alone'
  BY <1>3, <1>4, AloneBegins, AloneReads, AloneInPlace DEF Step
<1>5. CASE UNCHANGED vars
  BY <1>5 DEF vars, diskVars, memVars, reqVars, Alone, Progress, Same
<1> QED BY <1>1, <1>2, <1>4, <1>5 DEF Next

(* Both ways of writing write the effect on the file that is there.        *)
LEMMA WritesEffect ==
    ASSUME IInv, Alone, NEW r \in Reqs, base[r] # None, lastWrite',
           SetConfig(r) \/ SetConfigKey(r)
    PROVE  file' = Effect(cmd[r], base[r])
<1>1. file = base[r] /\ Progress(r) /\ file \in Files
  BY DEF Alone, IInv, Synced, TypeOK
<1>2. CASE SetConfig(r)
  <2>1. file' = MapMergeDeep(file, cfg[ref[r]])
    BY <1>2 DEF SetConfig, WriteConfigFile
  <2> QED BY <1>1, <1>2, <2>1 DEF SetConfig, Progress
<1>3. CASE SetConfigKey(r)
  <2> DEFINE m == MapSetKV(file, cmd[r])
  <2>1. file' = GuardPrivKey(file, m) /\ cmd[r].op \in SetOps /\ cmd[r] \in Commands
    BY <1>3 DEF SetConfigKey, WriteConfigFile, IInv, TypeOK
  <2>2. /\ cmd[r].op = "setIdentity" => m = [file EXCEPT !.priv = cmd[r].arg]
        /\ cmd[r].op = "setBoot" => m = [file EXCEPT !.boot = cmd[r].val]
        /\ cmd[r].op = "setOpt" => m = [file EXCEPT !.opt = cmd[r].arg]
        /\ cmd[r].op = "setExtra" => m = [file EXCEPT !.extra = cmd[r].arg]
    BY DEF MapSetKV
  <2> HIDE DEF m
  <2>3. CASE cmd[r].op = "setIdentity"
    <3>1. file' = file
      BY <1>1, <2>1, <2>2, <2>3 DEF GuardPrivKey, Files
    <3> QED BY <1>1, <2>3, <3>1, SetEffects
  <2>4. CASE cmd[r].op \in {"setBoot", "setOpt", "setExtra"}
    <3>1. file' = m
      BY <1>1, <2>1, <2>2, <2>4 DEF GuardPrivKey, Files
    <3>2. CASE cmd[r].op = "setBoot"
      BY <1>1, <2>2, <3>1, <3>2, SetEffects
    <3>3. CASE cmd[r].op = "setOpt"
      BY <1>1, <2>2, <3>1, <3>3, SetEffects
    <3>4. CASE cmd[r].op = "setExtra"
      BY <1>1, <2>2, <3>1, <3>4, SetEffects
    <3> QED BY <2>4, <3>2, <3>3, <3>4
  <2> QED BY <2>1, <2>3, <2>4 DEF SetOps
<1> QED BY <1>2, <1>3

\* A command that runs alone changes the file by its own effect and by nothing
\* else, whatever commands, failed writes and restarts there were before
\* (SetConfig, SetConfigKey).
THEOREM OwnEffect == Spec => OwnEffectOnly
<1> DEFINE A == \A r \in Reqs :
                   (base[r] # None /\ lastWrite' /\ pc[r] \in {"start", "write"} /\ file' # file)
                     => file' = Effect(cmd[r], base[r])
<1>1. Init => Alone
  BY DEF Init, Alone
<1>2. IInv /\ Down /\ Alone /\ [Next]_vars => [A]_vars
  <2> SUFFICES ASSUME IInv, Down, Alone, Next, NEW r \in Reqs, base[r] # None, lastWrite',
                      pc[r] \in {"start", "write"}, file' # file
               PROVE  file' = Effect(cmd[r], base[r])
    OBVIOUS
  <2>1. PICK q \in Reqs : SetConfig(q) \/ SetConfigKey(q)
    BY DEF Next, Stop, openConfig, Step, Begin, EarlyReturn, Config, bootstrapAdd, AddNew,
        AddBack, bootstrapRemove, SetBootstrapPeers, bootstrapRemoveAll, ServiceAdd,
        ServiceRm, transformConfig, replaceConfig, ReadFails, diskVars
  <2>2. q = r
    BY <2>1 DEF Alone, SetConfig, SetConfigKey
  <2> QED BY <2>1, <2>2, WritesEffect
<1> QED BY <1>1, <1>2, AloneStep, Invariance, PTL DEF Spec, OwnEffectOnly

\* The same of a repository whose keys and configuration are both used.
THEOREM RepositoryConfigHolds == RepositorySpec => []ConfigSound /\ []MemoryIsFile /\ UserKeysKept /\ OwnEffectOnly
BY RepositoryParts, Sound, QuietAgrees, UserKeys, OwnEffect, PTL

-----------------------------------------------------------------------------
(* Induction and recursion over the naturals, for one set and one          *)
(* function.                                                               *)

\* A set of naturals that is not empty has a least one.
LEMMA Least ==
    ASSUME NEW S, S \subseteq Nat, S # {}
    PROVE  \E x \in S : \A y \in S : x <= y
<1> DEFINE R == OpToRel(<, Nat)
<1>1. IsWellFoundedOn(R, Nat)
  BY NatLessThanWellFounded
<1>2. \A x, y \in Nat : <<y, x>> \in R <=> y < x
  BY DEF OpToRel
<1> HIDE DEF R
<1>3. PICK x \in S : \A y \in S : ~(<<y, x>> \in R)
  BY <1>1, WFMin
<1>4. ASSUME NEW y \in S PROVE x <= y
  <2>1. ~(y < x)
    BY <1>2, <1>3, Zenon
  <2> QED BY <2>1
<1> QED BY <1>4

\* Induction up to m, for a set.
LEMMA UpTo ==
    ASSUME NEW m \in Nat, NEW S, 0 \in S, \A n \in 1..m : n - 1 \in S => n \in S
    PROVE  0..m \subseteq S
<1> DEFINE R == (0..m) \ S
<1> SUFFICES ASSUME R # {} PROVE FALSE
  OBVIOUS
<1>1. R \subseteq Nat
  OBVIOUS
<1> HIDE DEF R
<1>2. PICK x \in R : \A y \in R : x <= y
  BY <1>1, Least
<1>3. x # 0 /\ x \in 1..m /\ x - 1 \in 0..m /\ ~(x <= x - 1)
  BY <1>2 DEF R
<1>4. x - 1 \in S
  BY <1>2, <1>3 DEF R
<1> QED BY <1>2, <1>3, <1>4 DEF R

\* A sequence of values in which each follows from the one before.
Follows(f, V, v, G, m) == f \in [0..m -> V] /\ f[0] = v /\ \A n \in 1..m : f[n] = G[<<n, f[n - 1]>>]

\* Some sequence follows from each first value.
LEMMA Recursion ==
    ASSUME NEW V, NEW v \in V, NEW G \in [Nat \X V -> V], NEW m \in Nat
    PROVE  \E f : Follows(f, V, v, G, m)
<1> DEFINE Upto(k, f) == f \in [0..k -> V] /\ f[0] = v /\ \A n \in 1..k : f[n] = G[<<n, f[n - 1]>>]
           S == {k \in Nat : \E f : Upto(k, f)}
<1>1. 0 \in S
  <2> DEFINE f == [n \in 0..0 |-> v]
  <2>1. Upto(0, f)
    OBVIOUS
  <2> QED BY <2>1
<1>2. ASSUME NEW k \in 1..m, k - 1 \in S PROVE k \in S
  <2>1. PICK f : Upto(k - 1, f)
    BY <1>2
  <2> DEFINE g == [n \in 0..k |-> IF n < k THEN f[n] ELSE G[<<k, f[k - 1]>>]]
  <2>2. g \in [0..k -> V]
    BY <2>1
  <2>3. g[0] = v
    BY <2>1
  <2>4. ASSUME NEW n \in 1..k PROVE g[n] = G[<<n, g[n - 1]>>]
    <3>1. n - 1 \in 0..k /\ n - 1 < k /\ n \in 0..k
      OBVIOUS
    <3>2. g[n - 1] = f[n - 1]
      BY <3>1
    <3>3. CASE n < k
      BY <2>1, <3>1, <3>2, <3>3
    <3>4. CASE n = k
      BY <3>1, <3>2, <3>4
    <3> QED BY <3>3, <3>4
  <2>5. Upto(k, g)
    BY <2>2, <2>3, <2>4
  <2> HIDE DEF g
  <2> QED BY <2>5
<1> HIDE DEF S
<1>3. m \in S
  BY <1>1, <1>2, UpTo
<1> QED BY <1>3 DEF S, Follows

-----------------------------------------------------------------------------
(* Reading.  A height of the nodes that falls along each link bounds the   *)
(* depth of a walk.                                                        *)
Size == Cardinality(RfCids)
Height == CHOOSE height \in [RfCids -> 0..Size - 1] : RfDescends(height)
Kids(c) == {RfLinks[c][i] : i \in DOMAIN RfLinks[c]}

(* refs.  What a link to c at depth k stands for, and what it adds up to   *)
(* for the roots.                                                          *)
Images(s) == {s[i] : i \in DOMAIN s}
Depth == IF rfMax \in 0..Size THEN rfMax ELSE Size
Needed(c, k) == IF k <= Depth THEN {c} \cup RfBelow[Depth - k][c] ELSE {}
Wanted == UNION {RfBelow[Depth][rfAll[i]] : i \in DOMAIN rfAll}

\* A link to c is left at depth k.
Pending(k, c) == k \in DOMAIN rfStack /\ c \in Images(rfStack[k])

RfShape ==
    /\ rfRoots \in Seq(RfCids) /\ rfAll \in Seq(RfCids) /\ rfOut \in Seq(RfCids) /\ rfStack \in Seq(Seq(RfCids))
    /\ rfUnique \in BOOLEAN /\ rfErr \in BOOLEAN /\ rfMax \in RfDepths
    /\ DOMAIN rfSeen \subseteq RfCids /\ \A c \in DOMAIN rfSeen : rfSeen[c] \in Nat
    /\ Len(rfStack) <= Size
    /\ \A k \in 1..Size, c \in RfCids : Pending(k, c) => Height[c] + k < Size

(* Nothing else is written, ...                                            *)
RfSound ==
    /\ Images(rfOut) \subseteq Wanted
    /\ \A k \in 1..Size, c \in RfCids : Pending(k, c) => Needed(c, k) \subseteq Wanted
    /\ \A r \in Images(rfRoots) : RfBelow[Depth][r] \subseteq Wanted

(* ... what has not been written is still to come, ...                     *)
RfComplete ==
    \A x \in Wanted :
        \/ x \in Images(rfOut)
        \/ \E k \in 1..Size, c \in RfCids : Pending(k, c) /\ x \in Needed(c, k)
        \/ \E r \in Images(rfRoots) : x \in RfBelow[Depth][r]

(* ... and with --unique, a link to c at depth d has been followed, as     *)
(* near to the root if the depth is limited, or is left, as near.          *)
Near(k, d) == rfMax < 0 \/ k <= d
Handled(c, d) ==
    \/ c \in DOMAIN rfSeen /\ Near(rfSeen[c], d)
    \/ \E k \in 1..Size : Near(k, d) /\ Pending(k, c)

RfPruned ==
    /\ DOMAIN rfSeen = Images(rfOut) /\ Len(rfOut) = Cardinality(DOMAIN rfSeen)
    /\ \A x \in DOMAIN rfSeen : rfSeen[x] <= Depth /\ Height[x] + rfSeen[x] < Size
    /\ \A x \in DOMAIN rfSeen : rfSeen[x] < Depth => \A c \in Kids(x) : Handled(c, rfSeen[x] + 1)
    /\ \A r \in Images(rfAll) \ Images(rfRoots) : Depth > 0 => \A c \in Kids(r) : Handled(c, 1)

RfInv == RfShape /\ (~rfErr => RfSound /\ (IF rfUnique THEN RfPruned ELSE RfComplete))

(* cat.  Up to the file that is next, offset and length tell how many      *)
(* bytes the files before it have.                                         *)
FilesBefore(f) == {x \in CtPositions : x.file < f}
BytesBefore(f) == Cardinality(FilesBefore(f))
CtWanted == {b \in CtPositions : CtBefore(b) >= ctAsked /\ (ctMax < 0 \/ CtBefore(b) < ctAsked + ctMax)}
CtGot == {b \in CtPositions : \E i \in DOMAIN ctReaders :
              ctReaders[i].file = b.file /\ b.at \in ctReaders[i].from..ctReaders[i].upTo - 1}

CtShape ==
    /\ CtTypeOK /\ ctFiles \in Seq(Nat) /\ ctAsked \in Nat /\ ctMax \in Nat \cup {-1}
    /\ ctReaders \in Seq([file : Nat, from : Nat, upTo : Nat])

CtReading ==
    /\ ctMax < 0 \/ ctLength < ctMax
    /\ BytesBefore(ctNext) + ctOffset = ctAsked + ctLength
    /\ ctOffset = 0 \/ ctLength = 0
    /\ CtGot = {b \in FilesBefore(ctNext) : CtBefore(b) >= ctAsked}

CtInv ==
    /\ CtShape
    /\ ctLength = Cardinality(CtGot)
    /\ ~ctDone => CtReading
    /\ ctDone /\ ~ctErr => CtGot = CtWanted

(* files stat.  What a frame has added up when it is through with n links, *)
(* of a node whose blocks are all there, and of those that are.            *)
Links(f) == Len(RfLinks[f.c]) - Len(f.left)
Part(H, c, n) ==
    WkSizes[c] + WkTotal([i \in 1..n |-> IF RfLinks[c][i] \in H THEN WkSum(H, RfLinks[c][i]) ELSE 0])
Sized(f, n, H, quiet) ==
    /\ f.size <= Part(RfCids, f.c, n) /\ (f.local <=> f.size = Part(RfCids, f.c, n))
    /\ quiet => f.size = Part(H, f.c, n)

FrameLinks(f) ==
    /\ Links(f) \in Nat
    /\ \A i \in 1..Len(f.left) : f.left[i] = RfLinks[f.c][Links(f) + i]

(* A frame that waits for the one above it is not through with that link.  *)
WkFrameOK(k) ==
    LET f == wkStack[k] IN
    /\ FrameLinks(f) /\ Height[f.c] + k <= Size
    /\ k = Len(wkStack) => Sized(f, Links(f), wkHave, wkOps = 0)
    /\ k < Len(wkStack) => /\ Links(f) > 0 /\ Sized(f, Links(f) - 1, wkHave, wkOps = 0)
                           /\ wkStack[k + 1].c = RfLinks[f.c][Links(f)]
                           /\ wkOps = 0 => wkStack[k + 1].c \in wkHave

Frames == [c : RfCids, left : Seq(RfCids), local : BOOLEAN, size : Nat]

WkInv ==
    /\ wkHave \subseteq RfCids /\ wkOps \in 0..MaxBlockOps
    /\ wkStack \in Seq(Frames)
    /\ \A k \in 1..Len(wkStack) : WkFrameOK(k)
    /\ wkStack # <<>> => wkOut.st = "none"
    /\ WkRight

-----------------------------------------------------------------------------
(* The DAG.                                                                *)

\* The height of a node is less than Size, and it falls along each link.
LEMMA HeightIs ==
    /\ IsFiniteSet(RfCids) /\ Size \in Nat
    /\ Height \in [RfCids -> 0..Size - 1]
    /\ \A c \in RfCids : RfLinks[c] \in Seq(RfCids)
    /\ \A c \in RfCids : \A i \in DOMAIN RfLinks[c] : RfLinks[c][i] \in RfCids /\ Height[RfLinks[c][i]] < Height[c]
<1>1. IsFiniteSet(RfCids) /\ RfLinks \in [RfCids -> Seq(RfCids)]
  BY ReadingAssumption
<1>2. Size \in Nat
  BY <1>1, FS_CardinalityType DEF Size
<1>3. \E height \in [RfCids -> 0..Size - 1] : RfDescends(height)
  BY ReadingAssumption DEF Size
<1>4. Height \in [RfCids -> 0..Size - 1] /\ RfDescends(Height)
  BY <1>3, Zenon DEF Height
<1>5. ASSUME NEW c \in RfCids PROVE RfLinks[c] \in Seq(RfCids)
  BY <1>1
<1>6. ASSUME NEW c \in RfCids, NEW i \in DOMAIN RfLinks[c] PROVE RfLinks[c][i] \in RfCids
  BY <1>5
<1>7. ASSUME NEW c \in RfCids, NEW i \in DOMAIN RfLinks[c] PROVE Height[RfLinks[c][i]] < Height[c]
  BY <1>4 DEF RfDescends
<1> QED BY <1>1, <1>2, <1>4, <1>5, <1>6, <1>7

\* So it does for the nodes linked to.
LEMMA KidsAre ==
    ASSUME NEW c \in RfCids, NEW x \in Kids(c)
    PROVE  x \in RfCids /\ Height[x] \in Nat /\ Height[c] \in Nat /\ Height[x] < Height[c] /\ Height[c] < Size
<1>1. x \in RfCids /\ Height[x] < Height[c]
  BY HeightIs DEF Kids
<1>2. Height[x] \in 0..Size - 1 /\ Height[c] \in 0..Size - 1 /\ Size \in Nat
  BY <1>1, HeightIs
<1> QED BY <1>1, <1>2

\* What lies at most d links below c, as its recursive equations say.
Under(g, c) == UNION {{x} \cup g[x] : x \in Kids(c)}

\* The equations of RfBelow.
LEMMA BelowIs ==
    /\ RfBelow \in [0..Size -> [RfCids -> SUBSET RfCids]]
    /\ \A c \in RfCids : RfBelow[0][c] = {}
    /\ \A d \in 1..Size : \A c \in RfCids : RfBelow[d][c] = Under(RfBelow[d - 1], c)
<1> DEFINE V == [RfCids -> SUBSET RfCids]
           v == [c \in RfCids |-> {}]
           G == [p \in Nat \X V |-> [c \in RfCids |-> Under(p[2], c)]]
           Eq(f) == f = [d \in 0..Size |-> [c \in RfCids |->
                            IF d = 0 THEN {} ELSE UNION {{RfLinks[c][i]} \cup f[d - 1][RfLinks[c][i]] : i \in DOMAIN RfLinks[c]}]]
<1>1. v \in V
  OBVIOUS
<1>2. ASSUME NEW g \in V, NEW c \in RfCids PROVE Under(g, c) \subseteq RfCids
  <2>1. ASSUME NEW x \in Kids(c) PROVE {x} \cup g[x] \subseteq RfCids
    BY KidsAre
  <2> QED BY <2>1 DEF Under
<1>3. G \in [Nat \X V -> V]
  <2> SUFFICES ASSUME NEW p \in Nat \X V PROVE [c \in RfCids |-> Under(p[2], c)] \in V
    OBVIOUS
  <2>1. p[2] \in V
    OBVIOUS
  <2>2. ASSUME NEW c \in RfCids PROVE Under(p[2], c) \in SUBSET RfCids
    BY <1>2, <2>1
  <2> QED BY <2>2
<1>4. ASSUME NEW n \in Nat, NEW g \in V PROVE G[<<n, g>>] = [c \in RfCids |-> Under(g, c)]
  <2>1. <<n, g>> \in Nat \X V
    OBVIOUS
  <2> QED BY <2>1
<1>5. Size \in Nat
  BY HeightIs
<1>6. RfBelow = CHOOSE f : Eq(f)
  BY DEF RfBelow, Size
<1>10. v = [c \in RfCids |-> {}]
  OBVIOUS
<1> HIDE DEF G, v
<1>7. PICK f : f \in [0..Size -> V] /\ f[0] = v /\ \A n \in 1..Size : f[n] = G[<<n, f[n - 1]>>]
  <2> HIDE DEF V
  <2>1. \E f : Follows(f, V, v, G, Size)
    BY <1>1, <1>3, <1>5, Recursion
  <2> QED BY <2>1 DEF Follows
<1>8. \A n \in 1..Size : f[n] = [c \in RfCids |-> Under(f[n - 1], c)]
  <2> SUFFICES ASSUME NEW n \in 1..Size PROVE f[n] = [c \in RfCids |-> Under(f[n - 1], c)]
    OBVIOUS
  <2>1. n \in Nat /\ n - 1 \in 0..Size
    BY <1>5
  <2> HIDE DEF V
  <2>2. f[n - 1] \in V
    BY <1>7, <2>1
  <2> QED BY <1>4, <1>7, <2>1, <2>2, Zenon
<1>9. \A g, c : Under(g, c) = UNION {{RfLinks[c][i]} \cup g[RfLinks[c][i]] : i \in DOMAIN RfLinks[c]}
  BY DEF Under, Kids
<1>11. Eq(f)
  <2> DEFINE R == [d \in 0..Size |-> [c \in RfCids |->
                            IF d = 0 THEN {} ELSE UNION {{RfLinks[c][i]} \cup f[d - 1][RfLinks[c][i]] : i \in DOMAIN RfLinks[c]}]]
  <2>1. ASSUME NEW d \in 0..Size PROVE f[d] = R[d]
    <3>1. CASE d = 0
      BY <1>7, <1>10, <3>1
    <3>2. CASE d # 0
      <4>1. d \in 1..Size
        BY <1>5, <3>2
      <4>2. R[d] = [c \in RfCids |-> UNION {{RfLinks[c][i]} \cup f[d - 1][RfLinks[c][i]] : i \in DOMAIN RfLinks[c]}]
        BY <3>2
      <4>3. f[d] = [c \in RfCids |-> Under(f[d - 1], c)]
        BY <1>8, <4>1
      <4>4. \A c \in RfCids : Under(f[d - 1], c) = UNION {{RfLinks[c][i]} \cup f[d - 1][RfLinks[c][i]] : i \in DOMAIN RfLinks[c]}
        BY <1>9
      <4> HIDE DEF R
      <4> QED BY <4>2, <4>3, <4>4
    <3> QED BY <3>1, <3>2
  <2>2. DOMAIN f = 0..Size /\ f = [d \in 0..Size |-> f[d]]
    BY <1>7
  <2>3. DOMAIN R = 0..Size /\ R = [d \in 0..Size |-> R[d]]
    OBVIOUS
  <2> HIDE DEF R
  <2>4. f = R
    BY <2>1, <2>2, <2>3
  <2> QED BY <2>4 DEF R
<1>12. Eq(RfBelow)
  <2> HIDE DEF Eq
  <2> QED BY <1>6, <1>11, Zenon
<1>13. DOMAIN RfBelow = 0..Size /\ \A d \in 0..Size : RfBelow[d] = [c \in RfCids |-> IF d = 0 THEN {} ELSE Under(RfBelow[d - 1], c)]
  BY <1>9, <1>12
<1>14. ASSUME NEW d \in 0..Size, NEW c \in RfCids
       PROVE  RfBelow[d][c] = IF d = 0 THEN {} ELSE Under(RfBelow[d - 1], c)
  BY <1>13
<1> DEFINE S == {d \in 0..Size : RfBelow[d] \in V}
<1>15. 0 \in S
  BY <1>5, <1>13
<1>16. ASSUME NEW d \in 1..Size, d - 1 \in S PROVE d \in S
  <2>1. RfBelow[d - 1] \in V /\ d \in 0..Size /\ d # 0
    BY <1>16
  <2>2. \A c \in RfCids : Under(RfBelow[d - 1], c) \in SUBSET RfCids
    BY <1>2, <2>1
  <2>3. RfBelow[d] = [c \in RfCids |-> Under(RfBelow[d - 1], c)]
    BY <1>13, <2>1
  <2> QED BY <2>1, <2>2, <2>3
<1> HIDE DEF S
<1>17. 0..Size \subseteq S
  BY <1>5, <1>15, <1>16, UpTo
<1>18. RfBelow \in [0..Size -> V]
  BY <1>12, <1>13, <1>17 DEF S
<1>19. \A c \in RfCids : RfBelow[0][c] = {}
  BY <1>5, <1>14
<1>20. ASSUME NEW d \in 1..Size, NEW c \in RfCids PROVE RfBelow[d][c] = Under(RfBelow[d - 1], c)
  BY <1>14
<1> QED BY <1>18, <1>19, <1>20

-----------------------------------------------------------------------------
(* refs.                                                                   *)

\* What a sequence holds without its head, ...
LEMMA ImagesTail ==
    ASSUME NEW V, NEW s \in Seq(V), s # <<>>
    PROVE  /\ Images(s) = {Head(s)} \cup Images(Tail(s))
           /\ Head(s) \in V /\ Tail(s) \in Seq(V) /\ Images(s) \subseteq V
<1>1. Len(s) \in Nat /\ Len(s) > 0 /\ Head(s) = s[1] /\ Len(Tail(s)) = Len(s) - 1 /\ Tail(s) \in Seq(V)
  OBVIOUS
<1>2. \A i \in 1..Len(s) - 1 : Tail(s)[i] = s[i + 1]
  OBVIOUS
<1>3. DOMAIN s = 1..Len(s) /\ DOMAIN Tail(s) = 1..Len(s) - 1
  BY <1>1
<1>4. ASSUME NEW i \in 1..Len(s) PROVE s[i] \in {Head(s)} \cup Images(Tail(s))
  <2>1. CASE i = 1
    BY <1>1, <2>1
  <2>2. CASE i # 1
    <3>1. i - 1 \in 1..Len(s) - 1 /\ s[(i - 1) + 1] = s[i]
      BY <1>1, <2>2
    <3>2. Tail(s)[i - 1] = s[i]
      BY <1>2, <3>1
    <3> QED BY <1>3, <3>1, <3>2 DEF Images
  <2> QED BY <2>1, <2>2
<1>5. ASSUME NEW i \in 1..Len(s) - 1 PROVE Tail(s)[i] \in Images(s)
  <2>1. i + 1 \in 1..Len(s)
    BY <1>1
  <2> QED BY <1>2, <1>3, <2>1 DEF Images
<1>6. Head(s) \in Images(s)
  BY <1>1, <1>3 DEF Images
<1>7. Images(s) \subseteq {Head(s)} \cup Images(Tail(s))
  BY <1>3, <1>4 DEF Images
<1>8. Images(Tail(s)) \subseteq Images(s)
  BY <1>3, <1>5 DEF Images
<1>9. Images(s) \subseteq V /\ Head(s) \in V
  BY <1>1 DEF Images
<1> QED BY <1>1, <1>6, <1>7, <1>8, <1>9

\* ... and with one more.
LEMMA ImagesAppend ==
    ASSUME NEW V, NEW s \in Seq(V), NEW x \in V
    PROVE  /\ Images(Append(s, x)) = Images(s) \cup {x}
           /\ Append(s, x) \in Seq(V) /\ Len(Append(s, x)) = Len(s) + 1 /\ Len(s) \in Nat
<1> DEFINE t == Append(s, x)
<1>1. t \in Seq(V) /\ Len(t) = Len(s) + 1 /\ Len(s) \in Nat /\ t[Len(s) + 1] = x /\ \A i \in 1..Len(s) : t[i] = s[i]
  OBVIOUS
<1>2. DOMAIN s = 1..Len(s) /\ DOMAIN t = 1..Len(s) + 1
  BY <1>1
<1> HIDE DEF t
<1>3. Images(t) \subseteq Images(s) \cup {x}
  <2> SUFFICES ASSUME NEW i \in 1..Len(s) + 1 PROVE t[i] \in Images(s) \cup {x}
    BY <1>2 DEF Images
  <2> QED BY <1>1, <1>2 DEF Images
<1>4. Images(s) \subseteq Images(t)
  <2> SUFFICES ASSUME NEW i \in 1..Len(s) PROVE s[i] \in Images(t)
    BY <1>2 DEF Images
  <2>1. i \in 1..Len(s) + 1 /\ t[i] = s[i]
    BY <1>1
  <2> QED BY <1>2, <2>1 DEF Images
<1>5. x \in Images(t)
  <2>1. Len(s) + 1 \in 1..Len(s) + 1
    BY <1>1
  <2> QED BY <1>1, <1>2, <2>1 DEF Images
<1> QED BY <1>1, <1>3, <1>4, <1>5 DEF t

\* The depth in force.
LEMMA DepthIs == Depth \in 0..Size /\ Size \in Nat
BY HeightIs DEF Depth

\* What a CID needs is split among its links.
LEMMA NeededSplit ==
    ASSUME NEW k \in 0..Depth, NEW c \in RfCids
    PROVE  RfBelow[Depth - k][c] = UNION {Needed(x, k + 1) : x \in Kids(c)}
<1>1. Depth \in 0..Size /\ Size \in Nat
  BY DepthIs
<1>2. CASE k = Depth
  <2>1. Depth - k = 0 /\ ~(k + 1 <= Depth)
    BY <1>1, <1>2
  <2>2. \A x \in Kids(c) : Needed(x, k + 1) = {}
    BY <2>1 DEF Needed
  <2> QED BY <2>1, <2>2, BelowIs
<1>3. CASE k # Depth
  <2>1. Depth - k \in 1..Size /\ k + 1 <= Depth /\ Depth - k - 1 = Depth - (k + 1)
    BY <1>1, <1>3
  <2>2. RfBelow[Depth - k][c] = Under(RfBelow[Depth - (k + 1)], c)
    <3>1. RfBelow[Depth - k][c] = Under(RfBelow[Depth - k - 1], c)
      BY <2>1, BelowIs
    <3> QED BY <2>1, <3>1
  <2>3. \A x \in Kids(c) : Needed(x, k + 1) = {x} \cup RfBelow[Depth - (k + 1)][x]
    BY <2>1 DEF Needed
  <2> HIDE DEF Needed
  <2> QED BY <2>2, <2>3 DEF Under
<1> QED BY <1>2, <1>3

\* A link stands for its node and, one deeper, for the links of that.
LEMMA NeededIs ==
    ASSUME NEW k \in 1..Size, NEW c \in RfCids
    PROVE  Needed(c, k) = IF k <= Depth THEN {c} \cup UNION {Needed(x, k + 1) : x \in Kids(c)} ELSE {}
<1>1. CASE k <= Depth
  <2>1. k \in 0..Depth
    BY <1>1, DepthIs
  <2>2. RfBelow[Depth - k][c] = UNION {Needed(x, k + 1) : x \in Kids(c)}
    BY <2>1, NeededSplit
  <2>3. Needed(c, k) = {c} \cup RfBelow[Depth - k][c]
    BY <1>1 DEF Needed
  <2> QED BY <1>1, <2>2, <2>3
<1>2. CASE ~(k <= Depth)
  BY <1>2 DEF Needed
<1> QED BY <1>1, <1>2

\* What is wanted of a root, link by link.
LEMMA BelowRoot ==
    ASSUME NEW r \in RfCids
    PROVE  /\ RfBelow[Depth][r] = UNION {Needed(x, 1) : x \in Kids(r)}
           /\ Depth = 0 => RfBelow[Depth][r] = {}
<1>1. 0 \in 0..Depth /\ Depth - 0 = Depth /\ 0 + 1 = 1
  BY DepthIs
<1>2. RfBelow[Depth - 0][r] = UNION {Needed(x, 0 + 1) : x \in Kids(r)}
  BY <1>1, NeededSplit
<1>3. Depth = 0 => RfBelow[Depth][r] = {}
  BY BelowIs
<1> QED BY <1>1, <1>2, <1>3

\* What visit decides about the next link of the innermost frame.
Top == Len(rfStack)
Link == Head(rfStack[Top])
Skips == Top > Depth \/ (rfUnique /\ Link \in DOMAIN rfSeen /\ (rfMax < 0 \/ rfSeen[Link] <= Top))
SeenWith == [x \in DOMAIN rfSeen \cup {Link} |-> IF x = Link THEN Top ELSE rfSeen[x]]
Writes == ~rfUnique \/ Link \notin DOMAIN rfSeen

\* visit, at the next link: what it says and what it marks as seen.
LEMMA VisitIs ==
    ASSUME RfShape, Top > 0, rfStack[Top] # <<>>
    PROVE  /\ Top \in 1..Size /\ Link \in RfCids /\ Pending(Top, Link) /\ Height[Link] + Top < Size
           /\ Tail(rfStack[Top]) \in Seq(RfCids)
           /\ Images(rfStack[Top]) = {Link} \cup Images(Tail(rfStack[Top]))
           /\ ~Skips => Top <= Depth
           /\ LET v == Visit(Link, Top) IN
              IF Skips THEN ~v.deeper /\ ~v.write /\ v.seen = rfSeen
              ELSE /\ v.deeper = (Top < Depth) /\ v.write = Writes
                   /\ v.seen = IF rfUnique THEN SeenWith ELSE rfSeen
<1> DEFINE n == Top
           c == Link
           over == rfMax >= 0 /\ n > rfMax
           pruned == rfUnique /\ c \in DOMAIN rfSeen /\ (rfMax < 0 \/ rfSeen[c] <= n)
<1>1. n \in 1..Size /\ n \in DOMAIN rfStack /\ rfStack[n] \in Seq(RfCids)
  BY DepthIs DEF RfShape, Top
<1>2. c \in RfCids /\ Tail(rfStack[n]) \in Seq(RfCids) /\ Images(rfStack[n]) = {c} \cup Images(Tail(rfStack[n]))
  BY <1>1, ImagesTail DEF Link
<1>3. Pending(n, c)
  BY <1>1, <1>2 DEF Pending
<1>4. Height[c] + n < Size /\ Height[c] \in Nat
  <2>1. Height[c] \in 0..Size - 1
    BY <1>2, HeightIs
  <2> QED BY <1>1, <1>2, <1>3, <2>1, DepthIs DEF RfShape
<1>5. rfMax \in Nat \cup {-1} /\ Size \in Nat /\ Depth = IF rfMax \in 0..Size THEN rfMax ELSE Size
  BY ReadingAssumption, DepthIs DEF RfShape, Depth
<1> HIDE DEF n, c
<1>6. over <=> n > Depth
  BY <1>1, <1>4, <1>5
<1>7. ~over => (n # rfMax <=> n < Depth)
  BY <1>1, <1>4, <1>5
<1>8. Skips <=> over \/ pruned
  BY <1>6 DEF Skips, n, c
<1>9. ~over => n <= Depth
  BY <1>1, <1>5, <1>6
<1>10. LET v == Visit(c, n) IN
       IF over \/ pruned THEN ~v.deeper /\ ~v.write /\ v.seen = rfSeen
       ELSE /\ v.deeper = (n # rfMax) /\ v.write = (~rfUnique \/ ~(c \in DOMAIN rfSeen))
            /\ v.seen = IF rfUnique THEN [x \in DOMAIN rfSeen \cup {c} |-> IF x = c THEN n ELSE rfSeen[x]] ELSE rfSeen
  <2>1. CASE over \/ pruned
    <3>1. Visit(c, n) = [deeper |-> FALSE, write |-> FALSE, seen |-> rfSeen]
      BY <2>1 DEF Visit
    <3> DEFINE v == Visit(c, n)
    <3>2. v.deeper = FALSE /\ v.write = FALSE /\ v.seen = rfSeen
      BY <3>1
    <3> HIDE DEF over, pruned, v
    <3>3. ~v.deeper /\ ~v.write
      BY <3>2, Zenon
    <3> QED BY <2>1, <3>2, <3>3 DEF v
  <2>2. CASE ~(over \/ pruned)
    <3>1. Visit(c, n) = [deeper |-> n # rfMax, write |-> ~rfUnique \/ ~(c \in DOMAIN rfSeen),
                         seen |-> IF rfUnique THEN [x \in DOMAIN rfSeen \cup {c} |-> IF x = c THEN n ELSE rfSeen[x]] ELSE rfSeen]
      BY <2>2 DEF Visit
    <3> QED BY <2>2, <3>1
  <2> QED BY <2>1, <2>2
<1>11. LET v == Visit(c, n) IN
       IF Skips THEN ~v.deeper /\ ~v.write /\ v.seen = rfSeen
       ELSE /\ v.deeper = (n < Depth) /\ v.write = Writes
            /\ v.seen = IF rfUnique THEN SeenWith ELSE rfSeen
  <2> HIDE DEF over, pruned
  <2>1. CASE Skips
    BY <1>8, <1>10, <2>1
  <2>2. CASE ~Skips
    <3>1. ~over /\ ~pruned
      BY <1>8, <2>2
    <3> QED BY <1>7, <1>10, <2>2, <3>1 DEF Writes, SeenWith, c, n
  <2> QED BY <2>1, <2>2
<1> QED BY <1>1, <1>2, <1>3, <1>4, <1>8, <1>9, <1>11 DEF n, c

\* One round of the loop: what is written, marked and left to follow.
LEMMA Round ==
    ASSUME RfShape, WriteRefsRecursive(TRUE)
    PROVE  /\ rfStack' \in Seq(Seq(RfCids)) /\ Len(rfStack') <= Size
           /\ ~Skips /\ Top < Depth => Top + 1 \in 1..Size
           /\ \A k, x : ~Skips /\ Top < Depth /\ k = Top + 1 /\ x \in Kids(Link) => Pending(k, x)'
           /\ \A k \in 1..Size, x \in RfCids :
                  /\ Pending(k, x) => Pending(k, x)' \/ (k = Top /\ x = Link)
                  /\ Pending(k, x)' => Pending(k, x) \/ (~Skips /\ Top < Depth /\ k = Top + 1 /\ x \in Kids(Link))
           /\ rfSeen' = IF ~Skips /\ rfUnique THEN SeenWith ELSE rfSeen
           /\ rfOut' = IF ~Skips /\ Writes THEN Append(rfOut, Link) ELSE rfOut
           /\ Top > 0 /\ rfStack[Top] # <<>>
           /\ UNCHANGED <<rfRoots, rfAll, rfUnique, rfMax, rfErr>>
<1> DEFINE n == Top
           c == Link
           v == Visit(c, n)
           rest == [rfStack EXCEPT ![n] = Tail(@)]
<1>1. /\ n > 0 /\ rfStack[n] # <<>>
      /\ rfSeen' = v.seen
      /\ rfStack' = IF v.deeper THEN Append(rest, RfLinks[c]) ELSE rest
      /\ rfOut' = IF v.write THEN Append(rfOut, c) ELSE rfOut
      /\ rfErr' = (rfErr \/ FALSE)
      /\ UNCHANGED <<rfRoots, rfAll, rfUnique, rfMax>>
  BY DEF WriteRefsRecursive, Top, Link
<1>2. rfErr' = rfErr
  BY <1>1 DEF RfShape
<1>3. /\ n \in 1..Size /\ c \in RfCids
      /\ Tail(rfStack[n]) \in Seq(RfCids)
      /\ Images(rfStack[n]) = {c} \cup Images(Tail(rfStack[n]))
      /\ ~Skips => n <= Depth
      /\ IF Skips THEN ~v.deeper /\ ~v.write /\ v.seen = rfSeen
         ELSE /\ v.deeper = (n < Depth) /\ v.write = Writes
              /\ v.seen = IF rfUnique THEN SeenWith ELSE rfSeen
  BY <1>1, VisitIs
<1>4. rest \in Seq(Seq(RfCids)) /\ Len(rest) = n /\ n \in Nat /\ Len(rfStack) = n
  BY <1>3 DEF RfShape, Top
<1>5. rest[n] = Tail(rfStack[n]) /\ \A k \in 1..n : k # n => rest[k] = rfStack[k]
  <2>1. DOMAIN rfStack = 1..n /\ n \in 1..n
    BY <1>3, <1>4 DEF RfShape
  <2> QED BY <2>1
<1>6. RfLinks[c] \in Seq(RfCids) /\ Kids(c) = Images(RfLinks[c])
  BY <1>3, HeightIs DEF Kids, Images
<1>7. rfSeen' = IF ~Skips /\ rfUnique THEN SeenWith ELSE rfSeen
  BY <1>1, <1>3
<1>8. rfOut' = IF ~Skips /\ Writes THEN Append(rfOut, c) ELSE rfOut
  BY <1>1, <1>3
<1>9. rfStack' = IF ~Skips /\ n < Depth THEN Append(rest, RfLinks[c]) ELSE rest
  BY <1>1, <1>3
<1> DEFINE more == Append(rest, RfLinks[c])
<1>10. more \in Seq(Seq(RfCids)) /\ Len(more) = n + 1 /\ more[n + 1] = RfLinks[c] /\ \A k \in 1..n : more[k] = rest[k]
  BY <1>4, <1>6
<1>11. rfStack \in Seq(Seq(RfCids)) /\ DOMAIN rfStack = 1..n /\ DOMAIN rest = 1..n /\ DOMAIN more = 1..n + 1
  BY <1>4, <1>10 DEF RfShape
<1> HIDE DEF n, c, v, rest, more
<1>12. ASSUME NEW k, NEW x
       PROVE  /\ Pending(k, x) => (k \in DOMAIN rest /\ x \in Images(rest[k])) \/ (k = n /\ x = c)
              /\ k \in DOMAIN rest /\ x \in Images(rest[k]) => Pending(k, x)
  BY <1>3, <1>5, <1>11 DEF Pending
<1>13. CASE ~Skips /\ n < Depth
  <2>1. rfStack' = more
    BY <1>9, <1>13 DEF more
  <2>2. n + 1 \in 1..Size /\ ~Skips
    BY <1>3, <1>13, DepthIs
  <2>3. \A k, x : Pending(k, x)' <=> (k \in DOMAIN rest /\ x \in Images(rest[k])) \/ (k = n + 1 /\ x \in Kids(c))
    BY <1>4, <1>6, <1>10, <1>11, <2>1 DEF Pending
  <2>4. rfStack' \in Seq(Seq(RfCids)) /\ Len(rfStack') <= Size
    BY <1>10, <2>1, <2>2
  <2>5. \A k, x : k = n + 1 /\ x \in Kids(c) => Pending(k, x)'
    BY <2>3, Zenon
  <2>6. ASSUME NEW k \in 1..Size, NEW x \in RfCids
        PROVE  /\ Pending(k, x) => Pending(k, x)' \/ (k = n /\ x = c)
               /\ Pending(k, x)' => Pending(k, x) \/ (~Skips /\ n < Depth /\ k = n + 1 /\ x \in Kids(c))
    BY <1>12, <1>13, <2>3
  <2> QED BY <1>1, <1>2, <1>7, <1>8, <2>2, <2>4, <2>5, <2>6 DEF n, c
<1>14. CASE ~(~Skips /\ n < Depth)
  <2>1. rfStack' = rest
    BY <1>9, <1>14
  <2>2. \A k, x : Pending(k, x)' <=> (k \in DOMAIN rest /\ x \in Images(rest[k]))
    BY <2>1 DEF Pending
  <2>3. rfStack' \in Seq(Seq(RfCids)) /\ Len(rfStack') <= Size
    BY <1>3, <1>4, <2>1, DepthIs
  <2> QED BY <1>1, <1>2, <1>7, <1>8, <1>12, <1>14, <2>2, <2>3 DEF n, c
<1> QED BY <1>13, <1>14

\* The next root: its links are left to follow.
LEMMA NextRoot ==
    ASSUME RfShape, WriteRefs(TRUE)
    PROVE  /\ rfRoots # <<>> /\ Head(rfRoots) \in RfCids /\ rfRoots' \in Seq(RfCids)
           /\ Images(rfRoots) = {Head(rfRoots)} \cup Images(rfRoots')
           /\ rfStack' \in Seq(Seq(RfCids)) /\ Len(rfStack') <= Size /\ 1 \in 1..Size
           /\ \A k, x : ~Pending(k, x) /\ (Pending(k, x)' <=> k = 1 /\ x \in Kids(Head(rfRoots)))
           /\ UNCHANGED <<rfAll, rfUnique, rfMax, rfSeen, rfOut, rfErr>>
<1> DEFINE r == Head(rfRoots)
<1>1. /\ rfStack = <<>> /\ rfRoots # <<>> /\ rfRoots' = Tail(rfRoots)
      /\ rfStack' = <<RfLinks[r]>> /\ rfErr' = (rfErr \/ FALSE)
      /\ UNCHANGED <<rfAll, rfUnique, rfMax, rfSeen, rfOut>>
  BY DEF WriteRefs
<1>2. rfErr' = rfErr
  BY <1>1 DEF RfShape
<1>3. r \in RfCids /\ rfRoots' \in Seq(RfCids) /\ Images(rfRoots) = {r} \cup Images(rfRoots')
  BY <1>1, ImagesTail DEF RfShape
<1>4. RfLinks[r] \in Seq(RfCids) /\ Kids(r) = Images(RfLinks[r]) /\ Size \in Nat /\ 1 \in 1..Size
  <2>1. Height[r] \in 0..Size - 1
    BY <1>3, HeightIs
  <2> QED BY <1>3, <2>1, HeightIs DEF Kids, Images
<1> HIDE DEF r
<1>5. rfStack' \in Seq(Seq(RfCids)) /\ Len(rfStack') = 1 /\ rfStack'[1] = RfLinks[r] /\ DOMAIN rfStack' = {1}
  BY <1>1, <1>4
<1>6. \A k, x : ~Pending(k, x)
  BY <1>1 DEF Pending
<1>7. \A k, x : Pending(k, x)' <=> k = 1 /\ x \in Kids(r)
  BY <1>4, <1>5 DEF Pending
<1>8. Len(rfStack') <= Size
  BY <1>4, <1>5
<1> QED BY <1>1, <1>2, <1>3, <1>4, <1>5, <1>6, <1>7, <1>8 DEF r

\* A frame with no links left is taken off.
LEMMA FrameEnds ==
    ASSUME RfShape, ReturnRefs
    PROVE  /\ rfStack' \in Seq(Seq(RfCids)) /\ Len(rfStack') <= Size
           /\ \A k, x : Pending(k, x)' <=> Pending(k, x)
           /\ UNCHANGED <<rfRoots, rfAll, rfUnique, rfMax, rfSeen, rfOut, rfErr>>
<1> DEFINE n == Len(rfStack)
           s == SubSeq(rfStack, 1, n - 1)
<1>1. /\ n \in Nat /\ n > 0 /\ n <= Size /\ rfStack[n] = <<>> /\ rfStack \in Seq(Seq(RfCids)) /\ rfStack' = s
      /\ UNCHANGED <<rfRoots, rfAll, rfUnique, rfMax, rfSeen, rfOut, rfErr>>
  BY DEF RfShape, ReturnRefs
<1>2. s \in Seq(Seq(RfCids)) /\ Len(s) = n - 1 /\ \A k \in 1..n - 1 : s[k] = rfStack[k]
  <2>1. n - 1 \in 0..Len(rfStack) /\ n - 1 = (n - 1) - 1 + 1
    BY <1>1
  <2>2. s \in Seq(Seq(RfCids))
    BY <1>1, <2>1
  <2>3. Len(s) = n - 1
    BY <1>1, <2>1
  <2>4. ASSUME NEW k \in 1..n - 1 PROVE s[k] = rfStack[k]
    BY <1>1, <2>1
  <2> QED BY <2>2, <2>3, <2>4
<1>3. DOMAIN s = 1..n - 1 /\ DOMAIN rfStack = 1..n
  BY <1>1, <1>2
<1> HIDE DEF s, n
<1>4. \A x : x \notin Images(rfStack[n])
  BY <1>1 DEF Images
<1>5. \A k \in 1..n : k = n \/ k \in 1..n - 1
  BY <1>1
<1>6. 1..n - 1 \subseteq 1..n
  BY <1>1
<1>7. \A k, x : Pending(k, x)' <=> Pending(k, x)
  BY <1>1, <1>2, <1>3, <1>4, <1>5, <1>6 DEF Pending
<1>8. Len(rfStack') <= Size
  BY <1>1, <1>2, DepthIs
<1> QED BY <1>1, <1>2, <1>7, <1>8

\* An error: nothing is left to follow.
LEMMA RootFails ==
    ASSUME RfShape, WriteRefs(FALSE) \/ WriteRefsRecursive(FALSE)
    PROVE  /\ rfErr' = TRUE /\ rfStack' = <<>> /\ rfRoots' \in Seq(RfCids)
           /\ rfSeen' = rfSeen \/ (Link \in RfCids /\ Top \in 1..Size /\ rfSeen' = SeenWith)
           /\ UNCHANGED <<rfAll, rfUnique, rfMax, rfOut>>
<1>1. CASE WriteRefs(FALSE)
  BY <1>1, ImagesTail DEF WriteRefs, RfShape
<1>2. CASE WriteRefsRecursive(FALSE)
  <2> DEFINE v == Visit(Link, Top)
  <2>1. /\ Top > 0 /\ rfStack[Top] # <<>> /\ rfSeen' = v.seen
        /\ rfStack' = <<>> /\ rfOut' = rfOut /\ rfErr' = TRUE
        /\ UNCHANGED <<rfRoots, rfAll, rfUnique, rfMax>>
    BY <1>2 DEF WriteRefsRecursive, Top, Link
  <2>2. /\ Top \in 1..Size /\ Link \in RfCids
        /\ IF Skips THEN ~v.deeper /\ ~v.write /\ v.seen = rfSeen
           ELSE /\ v.deeper = (Top < Depth) /\ v.write = Writes
                /\ v.seen = IF rfUnique THEN SeenWith ELSE rfSeen
    BY <2>1, VisitIs
  <2> HIDE DEF v
  <2> QED BY <2>1, <2>2 DEF RfShape
<1> QED BY <1>1, <1>2

\* The options and the roots stay, and what is wanted with them.
LEMMA Steady ==
    ASSUME UNCHANGED <<rfAll, rfMax>>
    PROVE  /\ Depth' = Depth /\ Wanted' = Wanted
           /\ \A c, k : Needed(c, k)' = Needed(c, k)
           /\ \A k, d : Near(k, d)' <=> Near(k, d)
<1>1. Depth' = Depth
  BY DEF Depth
<1>2. Wanted' = Wanted
  BY <1>1 DEF Wanted
<1>3. \A c, k : Needed(c, k)' = Needed(c, k)
  BY <1>1 DEF Needed
<1>4. \A k, d : Near(k, d)' <=> Near(k, d)
  BY DEF Near
<1> QED BY <1>1, <1>2, <1>3, <1>4

\* The map of what was seen, once the link is in it.
LEMMA SeenType ==
    ASSUME RfShape, Link \in RfCids, Top \in 1..Size
    PROVE  /\ DOMAIN SeenWith = DOMAIN rfSeen \cup {Link} /\ DOMAIN SeenWith \subseteq RfCids
           /\ SeenWith[Link] = Top /\ \A c \in DOMAIN rfSeen : c # Link => SeenWith[c] = rfSeen[c]
           /\ \A c \in DOMAIN SeenWith : SeenWith[c] \in Nat
BY DEF RfShape, SeenWith

\* Each step keeps the stack and what was seen well formed, ...
LEMMA ShapeStep ==
    ASSUME RfShape, RfNext
    PROVE  RfShape'
<1>1. CASE WriteRefs(TRUE)
  <2>1. /\ Head(rfRoots) \in RfCids /\ rfRoots' \in Seq(RfCids)
        /\ rfStack' \in Seq(Seq(RfCids)) /\ Len(rfStack') <= Size
        /\ \A k, x : Pending(k, x)' <=> k = 1 /\ x \in Kids(Head(rfRoots))
        /\ UNCHANGED <<rfAll, rfUnique, rfMax, rfSeen, rfOut, rfErr>>
    BY <1>1, NextRoot
  <2>2. ASSUME NEW k \in 1..Size, NEW c \in RfCids, Pending(k, c)' PROVE Height[c] + k < Size
    <3>1. k = 1 /\ c \in Kids(Head(rfRoots))
      BY <2>1, <2>2
    <3>2. Height[c] \in Nat /\ Height[Head(rfRoots)] \in Nat /\ Height[c] < Height[Head(rfRoots)] /\ Height[Head(rfRoots)] < Size
      BY <2>1, <3>1, KidsAre
    <3> QED BY <3>1, <3>2, DepthIs
  <2> QED BY <2>1, <2>2 DEF RfShape
<1>2. CASE WriteRefsRecursive(TRUE)
  <2>1. Top > 0 /\ rfStack[Top] # <<>>
    BY <1>2, Round
  <2>2. Link \in RfCids /\ Top \in 1..Size /\ Height[Link] + Top < Size
    BY <2>1, VisitIs
  <2>3. /\ rfStack' \in Seq(Seq(RfCids)) /\ Len(rfStack') <= Size
        /\ \A k \in 1..Size, x \in RfCids :
               Pending(k, x)' => Pending(k, x) \/ (k = Top + 1 /\ x \in Kids(Link))
        /\ UNCHANGED <<rfRoots, rfAll, rfUnique, rfMax, rfErr>>
    BY <1>2, Round
  <2>4. ASSUME NEW k \in 1..Size, NEW c \in RfCids, Pending(k, c)' PROVE Height[c] + k < Size
    <3>1. CASE Pending(k, c)
      BY <3>1 DEF RfShape
    <3>2. CASE k = Top + 1 /\ c \in Kids(Link)
      <4>1. Height[c] \in Nat /\ Height[Link] \in Nat /\ Height[c] < Height[Link]
        BY <2>2, <3>2, KidsAre
      <4> QED BY <2>2, <3>2, <4>1, DepthIs
    <3> QED BY <2>3, <2>4, <3>1, <3>2
  <2>5. rfSeen' = rfSeen \/ rfSeen' = SeenWith
    BY <1>2, Round
  <2>6. DOMAIN rfSeen' \subseteq RfCids /\ \A c \in DOMAIN rfSeen' : rfSeen'[c] \in Nat
    BY <2>2, <2>5, SeenType DEF RfShape
  <2>7. rfOut' = rfOut \/ rfOut' = Append(rfOut, Link)
    BY <1>2, Round
  <2>8. rfOut' \in Seq(RfCids)
    <3>1. rfOut \in Seq(RfCids)
      BY DEF RfShape
    <3>2. Append(rfOut, Link) \in Seq(RfCids)
      BY <2>2, <3>1, ImagesAppend
    <3> QED BY <2>7, <3>1, <3>2
  <2> QED BY <2>3, <2>4, <2>6, <2>8 DEF RfShape
<1>3. CASE ReturnRefs
  <2>1. /\ rfStack' \in Seq(Seq(RfCids)) /\ Len(rfStack') <= Size
        /\ \A k, x : Pending(k, x)' <=> Pending(k, x)
        /\ UNCHANGED <<rfRoots, rfAll, rfUnique, rfMax, rfSeen, rfOut, rfErr>>
    BY <1>3, FrameEnds
  <2> QED BY <2>1 DEF RfShape
<1>4. CASE WriteRefs(FALSE) \/ WriteRefsRecursive(FALSE)
  <2>1. /\ rfErr' = TRUE /\ rfStack' = <<>> /\ rfRoots' \in Seq(RfCids)
        /\ rfSeen' = rfSeen \/ (Link \in RfCids /\ Top \in 1..Size /\ rfSeen' = SeenWith)
        /\ UNCHANGED <<rfAll, rfUnique, rfMax, rfOut>>
    BY <1>4, RootFails
  <2>2. DOMAIN rfSeen' \subseteq RfCids /\ \A c \in DOMAIN rfSeen' : rfSeen'[c] \in Nat
    BY <2>1, SeenType DEF RfShape
  <2>3. rfStack' \in Seq(Seq(RfCids)) /\ Len(rfStack') = 0 /\ DOMAIN rfStack' = {}
    BY <2>1
  <2>4. \A k, x : ~Pending(k, x)'
    BY <2>3 DEF Pending
  <2> QED BY <2>1, <2>2, <2>3, <2>4, DepthIs DEF RfShape
<1> QED BY <1>1, <1>2, <1>3, <1>4 DEF RfNext

\* ... writes what is wanted only, ...
LEMMA SoundStep ==
    ASSUME RfShape, RfSound, RfNext, ~rfErr'
    PROVE  RfSound'
<1>1. CASE WriteRefs(TRUE)
  <2> DEFINE r == Head(rfRoots)
  <2>1. /\ r \in RfCids /\ Images(rfRoots) = {r} \cup Images(rfRoots') /\ 1 \in 1..Size
        /\ \A k, x : Pending(k, x)' <=> k = 1 /\ x \in Kids(r)
        /\ UNCHANGED <<rfAll, rfUnique, rfMax, rfSeen, rfOut, rfErr>>
    BY <1>1, NextRoot
  <2> HIDE DEF r
  <2>2. UNION {Needed(x, 1) : x \in Kids(r)} \subseteq Wanted
    BY <2>1, BelowRoot DEF RfSound
  <2>3. Depth' = Depth /\ Wanted' = Wanted /\ \A c, k : Needed(c, k)' = Needed(c, k)
    BY <2>1, Steady
  <2> QED BY <2>1, <2>2, <2>3 DEF RfSound
<1>2. CASE WriteRefsRecursive(TRUE)
  <2>1. Top > 0 /\ rfStack[Top] # <<>>
    BY <1>2, Round
  <2>2. Link \in RfCids /\ Top \in 1..Size /\ Pending(Top, Link) /\ (~Skips => Top <= Depth)
    BY <2>1, VisitIs
  <2>3. /\ \A k \in 1..Size, x \in RfCids :
               Pending(k, x)' => Pending(k, x) \/ (~Skips /\ k = Top + 1 /\ x \in Kids(Link))
        /\ UNCHANGED <<rfRoots, rfAll, rfUnique, rfMax, rfErr>>
        /\ rfOut' = rfOut \/ (~Skips /\ rfOut' = Append(rfOut, Link))
    BY <1>2, Round
  <2>4. Depth' = Depth /\ Wanted' = Wanted /\ \A c, k : Needed(c, k)' = Needed(c, k)
    BY <2>3, Steady
  <2>5. Needed(Link, Top) \subseteq Wanted
    BY <2>2 DEF RfSound
  <2>6. ~Skips => Link \in Wanted /\ UNION {Needed(x, Top + 1) : x \in Kids(Link)} \subseteq Wanted
    <3>1. Needed(Link, Top) = IF Top <= Depth THEN {Link} \cup UNION {Needed(x, Top + 1) : x \in Kids(Link)} ELSE {}
      BY <2>2, NeededIs
    <3> QED BY <2>2, <2>5, <3>1
  <2>7. ASSUME NEW k \in 1..Size, NEW x \in RfCids, Pending(k, x)' PROVE Needed(x, k) \subseteq Wanted
    BY <2>3, <2>6, <2>7 DEF RfSound
  <2>8. Images(rfOut') \subseteq Wanted
    <3>1. rfOut \in Seq(RfCids) /\ Images(rfOut) \subseteq Wanted
      BY DEF RfShape, RfSound
    <3>2. Images(Append(rfOut, Link)) = Images(rfOut) \cup {Link}
      BY <2>2, <3>1, ImagesAppend
    <3> QED BY <2>3, <2>6, <3>1, <3>2
  <2> QED BY <2>3, <2>4, <2>7, <2>8 DEF RfSound
<1>3. CASE ReturnRefs
  <2>1. /\ \A k, x : Pending(k, x)' <=> Pending(k, x)
        /\ UNCHANGED <<rfRoots, rfAll, rfUnique, rfMax, rfSeen, rfOut, rfErr>>
    BY <1>3, FrameEnds
  <2>2. Depth' = Depth /\ Wanted' = Wanted /\ \A c, k : Needed(c, k)' = Needed(c, k)
    BY <2>1, Steady
  <2> QED BY <2>1, <2>2 DEF RfSound
<1>4. CASE WriteRefs(FALSE) \/ WriteRefsRecursive(FALSE)
  BY <1>4, RootFails
<1> QED BY <1>1, <1>2, <1>3, <1>4 DEF RfNext

\* ... and leaves nothing out.
LEMMA CompleteStep ==
    ASSUME RfShape, RfComplete, RfNext, ~rfErr', ~rfUnique
    PROVE  RfComplete'
<1>1. CASE WriteRefs(TRUE)
  <2> DEFINE r == Head(rfRoots)
  <2>1. /\ r \in RfCids /\ Images(rfRoots) = {r} \cup Images(rfRoots') /\ 1 \in 1..Size
        /\ \A k, x : ~Pending(k, x) /\ (Pending(k, x)' <=> k = 1 /\ x \in Kids(r))
        /\ UNCHANGED <<rfAll, rfUnique, rfMax, rfSeen, rfOut, rfErr>>
    BY <1>1, NextRoot
  <2> HIDE DEF r
  <2>2. RfBelow[Depth][r] = UNION {Needed(x, 1) : x \in Kids(r)}
    BY <2>1, BelowRoot
  <2>3. Depth' = Depth /\ Wanted' = Wanted /\ \A c, k : Needed(c, k)' = Needed(c, k)
    BY <2>1, Steady
  <2>4. Kids(r) \subseteq RfCids
    BY <2>1, KidsAre
  <2>5. ASSUME NEW w \in RfBelow[Depth][r]
        PROVE  \E k \in 1..Size, c \in RfCids : Pending(k, c)' /\ w \in Needed(c, k)
    <3>1. PICK x \in Kids(r) : w \in Needed(x, 1)
      BY <2>2
    <3> QED BY <2>1, <2>4, <3>1
  <2> QED BY <2>1, <2>3, <2>5 DEF RfComplete
<1>2. CASE WriteRefsRecursive(TRUE)
  <2>1. Top > 0 /\ rfStack[Top] # <<>>
    BY <1>2, Round
  <2>2. Link \in RfCids /\ Top \in 1..Size /\ (~Skips => Top <= Depth)
    BY <2>1, VisitIs
  <2>3. /\ \A k \in 1..Size, x \in RfCids : Pending(k, x) => Pending(k, x)' \/ (k = Top /\ x = Link)
        /\ ~Skips /\ Top < Depth => Top + 1 \in 1..Size
        /\ \A k, x : ~Skips /\ Top < Depth /\ k = Top + 1 /\ x \in Kids(Link) => Pending(k, x)'
        /\ UNCHANGED <<rfRoots, rfAll, rfUnique, rfMax, rfErr>>
        /\ rfOut' = IF ~Skips /\ Writes THEN Append(rfOut, Link) ELSE rfOut
    BY <1>2, Round
  <2>4. Depth' = Depth /\ Wanted' = Wanted /\ \A c, k : Needed(c, k)' = Needed(c, k)
    BY <2>3, Steady
  <2>5. rfOut' = IF Skips THEN rfOut ELSE Append(rfOut, Link)
    BY <2>3 DEF Writes
  <2>6. Images(rfOut) \subseteq Images(rfOut') /\ (~Skips => Link \in Images(rfOut'))
    BY <2>2, <2>5, ImagesAppend DEF RfShape
  <2>7. Skips <=> Top > Depth
    BY DEF Skips
  <2>8. Kids(Link) \subseteq RfCids
    BY <2>2, KidsAre
  <2>9. ASSUME NEW w \in Needed(Link, Top)
        PROVE  w \in Images(rfOut') \/ \E k \in 1..Size, c \in RfCids : Pending(k, c)' /\ w \in Needed(c, k)
    <3>1. Needed(Link, Top) = IF Top <= Depth THEN {Link} \cup UNION {Needed(x, Top + 1) : x \in Kids(Link)} ELSE {}
      BY <2>2, NeededIs
    <3>2. Top <= Depth /\ ~Skips
      BY <2>2, <2>7, <2>9, <3>1, DepthIs
    <3>3. CASE w = Link
      BY <2>6, <3>2, <3>3
    <3>4. CASE w # Link
      <4>1. PICK x \in Kids(Link) : w \in Needed(x, Top + 1)
        BY <2>9, <3>1, <3>2, <3>4
      <4>2. Top + 1 <= Depth
        BY <4>1 DEF Needed
      <4>3. Top < Depth
        BY <2>2, <4>2, DepthIs
      <4>4. PICK k \in 1..Size : k = Top + 1
        BY <2>3, <3>2, <4>3
      <4>5. Pending(k, x)' /\ x \in RfCids /\ w \in Needed(x, k)
        BY <2>3, <2>8, <3>2, <4>1, <4>3, <4>4
      <4> QED BY <4>5
    <3> QED BY <3>3, <3>4
  <2>10. ASSUME NEW w \in Wanted
         PROVE  \/ w \in Images(rfOut')
                \/ \E k \in 1..Size, c \in RfCids : Pending(k, c)' /\ w \in Needed(c, k)
                \/ \E r \in Images(rfRoots) : w \in RfBelow[Depth][r]
    <3>1. CASE \E k \in 1..Size, c \in RfCids : Pending(k, c) /\ w \in Needed(c, k)
      <4>1. PICK k \in 1..Size, c \in RfCids : Pending(k, c) /\ w \in Needed(c, k)
        BY <3>1
      <4>2. CASE Pending(k, c)'
        BY <4>1, <4>2
      <4>3. CASE k = Top /\ c = Link
        BY <2>9, <4>1, <4>3
      <4> QED BY <2>3, <4>1, <4>2, <4>3
    <3> QED BY <2>6, <3>1 DEF RfComplete
  <2> QED BY <2>3, <2>4, <2>10 DEF RfComplete
<1>3. CASE ReturnRefs
  <2>1. /\ \A k, x : Pending(k, x)' <=> Pending(k, x)
        /\ UNCHANGED <<rfRoots, rfAll, rfUnique, rfMax, rfSeen, rfOut, rfErr>>
    BY <1>3, FrameEnds
  <2>2. Depth' = Depth /\ Wanted' = Wanted /\ \A c, k : Needed(c, k)' = Needed(c, k)
    BY <2>1, Steady
  <2> QED BY <2>1, <2>2 DEF RfComplete
<1>4. CASE WriteRefs(FALSE) \/ WriteRefsRecursive(FALSE)
  BY <1>4, RootFails
<1> QED BY <1>1, <1>2, <1>3, <1>4 DEF RfNext

\* What has been handled stays handled, or is handled again by the same round.
LEMMA PrunedStep ==
    ASSUME RfShape, RfPruned, RfNext, ~rfErr', rfUnique
    PROVE  RfPruned'
<1>1. CASE WriteRefs(TRUE)
  <2> DEFINE r == Head(rfRoots)
  <2>1. /\ r \in RfCids /\ Images(rfRoots) = {r} \cup Images(rfRoots') /\ 1 \in 1..Size
        /\ \A k, x : ~Pending(k, x) /\ (Pending(k, x)' <=> k = 1 /\ x \in Kids(r))
        /\ UNCHANGED <<rfAll, rfUnique, rfMax, rfSeen, rfOut, rfErr>>
    BY <1>1, NextRoot
  <2> HIDE DEF r
  <2>2. Depth' = Depth /\ \A k, d : Near(k, d)' <=> Near(k, d)
    BY <2>1, Steady
  <2>3. \A c, d : Handled(c, d) => Handled(c, d)'
    BY <2>1, <2>2 DEF Handled
  <2>4. \A c \in Kids(r) : Handled(c, 1)'
    <3>1. Near(1, 1)
      BY DEF Near
    <3> QED BY <2>1, <2>2, <3>1 DEF Handled
  <2>5. DOMAIN rfSeen' = Images(rfOut') /\ Len(rfOut') = Cardinality(DOMAIN rfSeen')
    BY <2>1 DEF RfPruned
  <2>6. \A x \in DOMAIN rfSeen' : rfSeen'[x] <= Depth' /\ Height[x] + rfSeen'[x] < Size
    BY <2>1, <2>2 DEF RfPruned
  <2>7. \A x \in DOMAIN rfSeen' : rfSeen'[x] < Depth' => \A c \in Kids(x) : Handled(c, rfSeen[x] + 1)'
    BY <2>1, <2>2, <2>3 DEF RfPruned
  <2>8. \A s \in Images(rfAll) \ Images(rfRoots') : Depth > 0 => \A c \in Kids(s) : Handled(c, 1)'
    BY <2>1, <2>3, <2>4 DEF RfPruned
  <2> QED BY <2>1, <2>2, <2>5, <2>6, <2>7, <2>8 DEF RfPruned
<1>2. CASE WriteRefsRecursive(TRUE)
  <2>1. Top > 0 /\ rfStack[Top] # <<>>
    BY <1>2, Round
  <2>2. Link \in RfCids /\ Top \in 1..Size /\ Height[Link] + Top < Size /\ (~Skips => Top <= Depth)
    BY <2>1, VisitIs
  <2>3. /\ \A k \in 1..Size, x \in RfCids : Pending(k, x) => Pending(k, x)' \/ (k = Top /\ x = Link)
        /\ ~Skips /\ Top < Depth => Top + 1 \in 1..Size
        /\ \A k, x : ~Skips /\ Top < Depth /\ k = Top + 1 /\ x \in Kids(Link) => Pending(k, x)'
        /\ UNCHANGED <<rfRoots, rfAll, rfUnique, rfMax, rfErr>>
        /\ rfSeen' = IF ~Skips THEN SeenWith ELSE rfSeen
        /\ rfOut' = IF ~Skips /\ Writes THEN Append(rfOut, Link) ELSE rfOut
    BY <1>2, Round
  <2>4. Depth' = Depth /\ \A k, d : Near(k, d)' <=> Near(k, d)
    BY <2>3, Steady
  <2>5. PICK n : n = Top
    OBVIOUS
  <2>6. PICK l : l = Link
    OBVIOUS
  <2>7. Depth \in Nat /\ n \in Nat /\ (rfMax < 0 => Depth = Size) /\ n <= Size
    BY <2>2, <2>5, DepthIs DEF Depth
  \* The map of what was seen, when the link is not skipped, ...
  <2>8. CASE ~Skips
    <3>1. /\ DOMAIN rfSeen' = DOMAIN rfSeen \cup {l} /\ rfSeen'[l] = n
          /\ \A c \in DOMAIN rfSeen : c # l => rfSeen'[c] = rfSeen[c]
      BY <2>2, <2>3, <2>5, <2>6, <2>8, SeenType
    <3>2. l \in DOMAIN rfSeen => rfMax >= 0 /\ n < rfSeen[l]
      <4>1. l \in DOMAIN rfSeen => ~(rfMax < 0 \/ rfSeen[l] <= n) /\ rfSeen[l] \in Nat
        BY <2>5, <2>6, <2>8 DEF Skips, RfShape
      <4>2. rfMax \in Nat \cup {-1}
        BY ReadingAssumption DEF RfShape
      <4> QED BY <2>7, <4>1, <4>2
    <3>3. ASSUME NEW c \in RfCids, NEW d \in Nat, Handled(c, d) PROVE Handled(c, d)'
      <4>1. CASE c \in DOMAIN rfSeen /\ Near(rfSeen[c], d)
        <5>1. CASE c = l
          <6>1. Near(n, d)
            BY <2>7, <3>2, <4>1, <5>1 DEF Near, RfShape
          <6>2. Near(n, d)'
            BY <2>4, <6>1
          <6> QED BY <3>1, <5>1, <6>2 DEF Handled, Near
        <5>2. CASE c # l
          BY <2>4, <3>1, <4>1, <5>2 DEF Handled
        <5> QED BY <5>1, <5>2
      <4>2. CASE \E k \in 1..Size : Near(k, d) /\ Pending(k, c)
        <5>1. PICK k \in 1..Size : Near(k, d) /\ Pending(k, c)
          BY <4>2
        <5>2. CASE Pending(k, c)'
          BY <2>4, <5>1, <5>2 DEF Handled
        <5>3. CASE k = n /\ c = l
          <6>1. Near(n, d)'
            BY <2>4, <5>1, <5>3
          <6> QED BY <3>1, <5>3, <6>1 DEF Handled, Near
        <5> QED BY <2>3, <2>5, <2>6, <5>1, <5>2, <5>3
      <4> QED BY <3>3, <4>1, <4>2 DEF Handled
    <3>4. ASSUME n < Depth, NEW c \in Kids(l) PROVE Handled(c, n + 1)'
      <4>1. PICK k \in 1..Size : k = n + 1
        BY <2>3, <2>5, <2>8, <3>4
      <4>2. Pending(k, c)'
        BY <2>3, <2>5, <2>6, <2>8, <3>4, <4>1
      <4>3. Near(k, k)'
        BY <2>7 DEF Near
      <4>4. Handled(c, k)'
        BY <4>2, <4>3 DEF Handled
      <4> QED BY <4>1, <4>4
    <3>5. IsFiniteSet(DOMAIN rfSeen) /\ Len(rfOut) = Cardinality(DOMAIN rfSeen) /\ DOMAIN rfSeen = Images(rfOut)
          /\ rfOut \in Seq(RfCids)
      BY HeightIs, FS_Subset DEF RfShape, RfPruned
    <3>6. DOMAIN rfSeen' = Images(rfOut') /\ Len(rfOut') = Cardinality(DOMAIN rfSeen')
      <4>1. CASE l \in DOMAIN rfSeen
        <5>1. DOMAIN rfSeen' = DOMAIN rfSeen /\ rfOut' = rfOut
          BY <2>3, <2>6, <3>1, <4>1 DEF Writes
        <5> QED BY <3>5, <5>1
      <4>2. CASE l \notin DOMAIN rfSeen
        <5>1. rfOut' = Append(rfOut, l)
          BY <2>3, <2>6, <2>8, <4>2 DEF Writes
        <5>2. Images(rfOut') = Images(rfOut) \cup {l} /\ Len(rfOut') = Len(rfOut) + 1
          BY <2>2, <2>6, <3>5, <5>1, ImagesAppend
        <5>3. Cardinality(DOMAIN rfSeen \cup {l}) = Cardinality(DOMAIN rfSeen) + 1
          BY <3>5, <4>2, FS_AddElement
        <5> QED BY <3>1, <3>5, <5>2, <5>3
      <4> QED BY <4>1, <4>2
    <3>7. \A x \in DOMAIN rfSeen' : rfSeen'[x] <= Depth /\ Height[x] + rfSeen'[x] < Size
      BY <2>2, <2>5, <2>6, <2>8, <3>1 DEF RfPruned
    <3>8. ASSUME NEW x \in DOMAIN rfSeen', rfSeen'[x] < Depth, NEW c \in Kids(x) PROVE Handled(c, rfSeen[x] + 1)'
      <4>1. CASE x = l
        <5>1. rfSeen'[x] = n
          BY <3>1, <4>1
        <5>2. Handled(c, n + 1)'
          BY <3>4, <3>8, <4>1, <5>1
        <5> QED BY <5>1, <5>2
      <4>2. CASE x # l
        <5>1. x \in DOMAIN rfSeen /\ rfSeen'[x] = rfSeen[x] /\ x \in RfCids /\ rfSeen[x] \in Nat
          BY <3>1, <3>8, <4>2 DEF RfShape
        <5>2. c \in RfCids
          BY <3>8, <5>1, KidsAre
        <5>3. PICK d \in Nat : d = rfSeen[x] + 1
          BY <5>1
        <5>4. Handled(c, d)
          BY <3>8, <5>1, <5>3 DEF RfPruned
        <5>5. Handled(c, d)'
          BY <3>3, <5>2, <5>4
        <5>6. d = rfSeen'[x] + 1
          BY <5>1, <5>3
        <5> QED BY <5>5, <5>6
      <4> QED BY <4>1, <4>2
    <3>9. ASSUME NEW r \in Images(rfAll) \ Images(rfRoots), Depth > 0, NEW c \in Kids(r) PROVE Handled(c, 1)'
      <4>1. r \in RfCids
        BY <3>9 DEF Images, RfShape
      <4>2. c \in RfCids
        BY <3>9, <4>1, KidsAre
      <4>3. Handled(c, 1)
        BY <3>9 DEF RfPruned
      <4> QED BY <3>3, <4>2, <4>3
    <3> QED BY <2>3, <2>4, <3>6, <3>7, <3>8, <3>9 DEF RfPruned
  \* ... and when it is: the link was handled before, or is too deep to count.
  <2>9. CASE Skips
    <3>1. rfSeen' = rfSeen /\ rfOut' = rfOut
      BY <2>3, <2>9
    <3>2. ASSUME NEW c \in RfCids, NEW d \in Nat, d <= Depth, Handled(c, d) PROVE Handled(c, d)'
      <4>1. CASE c \in DOMAIN rfSeen /\ Near(rfSeen[c], d)
        BY <2>4, <3>1, <4>1 DEF Handled
      <4>2. CASE \E k \in 1..Size : Near(k, d) /\ Pending(k, c)
        <5>1. PICK k \in 1..Size : Near(k, d) /\ Pending(k, c)
          BY <4>2
        <5>2. CASE Pending(k, c)'
          BY <2>4, <5>1, <5>2 DEF Handled
        <5>3. CASE k = n /\ c = l
          <6>1. n <= Depth
            BY <2>7, <3>2, <5>1, <5>3 DEF Near
          <6>2. c \in DOMAIN rfSeen /\ (rfMax < 0 \/ rfSeen[c] <= n) /\ rfSeen[c] \in Nat
            BY <2>5, <2>6, <2>7, <2>9, <5>3, <6>1 DEF Skips, RfShape
          <6>3. Near(rfSeen[c], d)
            BY <2>7, <5>1, <5>3, <6>2 DEF Near
          <6> QED BY <2>4, <3>1, <6>2, <6>3 DEF Handled
        <5> QED BY <2>3, <2>5, <2>6, <5>1, <5>2, <5>3
      <4> QED BY <3>2, <4>1, <4>2 DEF Handled
    <3>3. ASSUME NEW x \in DOMAIN rfSeen, rfSeen[x] < Depth, NEW c \in Kids(x) PROVE Handled(c, rfSeen[x] + 1)'
      <4>1. x \in RfCids /\ rfSeen[x] \in Nat
        BY DEF RfShape
      <4>2. c \in RfCids
        BY <4>1, <3>3, KidsAre
      <4>3. PICK d \in Nat : d = rfSeen[x] + 1
        BY <4>1
      <4>4. Handled(c, d) /\ d <= Depth
        BY <2>7, <3>3, <4>1, <4>3 DEF RfPruned
      <4>5. Handled(c, d)' /\ d = rfSeen'[x] + 1
        BY <3>1, <3>2, <4>2, <4>3, <4>4
      <4> QED BY <4>5
    <3>4. ASSUME NEW r \in Images(rfAll) \ Images(rfRoots), Depth > 0, NEW c \in Kids(r) PROVE Handled(c, 1)'
      <4>1. r \in RfCids
        BY <3>4 DEF Images, RfShape
      <4>2. c \in RfCids /\ 1 <= Depth
        BY <2>7, <3>4, <4>1, KidsAre
      <4>3. Handled(c, 1)
        BY <3>4 DEF RfPruned
      <4> QED BY <3>2, <4>2, <4>3
    <3>5. /\ DOMAIN rfSeen' = Images(rfOut') /\ Len(rfOut') = Cardinality(DOMAIN rfSeen')
          /\ \A x \in DOMAIN rfSeen' : rfSeen'[x] <= Depth /\ Height[x] + rfSeen'[x] < Size
      BY <3>1 DEF RfPruned
    <3> QED BY <2>3, <2>4, <3>1, <3>3, <3>4, <3>5 DEF RfPruned
  <2> QED BY <2>8, <2>9
<1>3. CASE ReturnRefs
  <2>1. /\ \A k, x : Pending(k, x)' <=> Pending(k, x)
        /\ UNCHANGED <<rfRoots, rfAll, rfUnique, rfMax, rfSeen, rfOut, rfErr>>
    BY <1>3, FrameEnds
  <2>2. Depth' = Depth /\ \A k, d : Near(k, d)' <=> Near(k, d)
    BY <2>1, Steady
  <2>3. \A c, d : Handled(c, d) => Handled(c, d)'
    BY <2>1, <2>2 DEF Handled
  <2> QED BY <2>1, <2>2, <2>3 DEF RfPruned
<1>4. CASE WriteRefs(FALSE) \/ WriteRefsRecursive(FALSE)
  BY <1>4, RootFails
<1> QED BY <1>1, <1>2, <1>3, <1>4 DEF RfNext

\* The invariant of refs holds at first, ...
LEMMA RfBegins == RfInit => RfInv
<1> SUFFICES ASSUME RfInit PROVE RfInv
  OBVIOUS
<1>1. /\ rfRoots \in Seq(RfCids) /\ rfAll = rfRoots /\ rfUnique \in BOOLEAN /\ rfMax \in RfDepths
      /\ rfStack = <<>> /\ DOMAIN rfSeen = {} /\ rfOut = <<>> /\ rfErr = FALSE
  BY ReadingAssumption DEF RfInit
<1>2. \A k, x : ~Pending(k, x)
  BY <1>1 DEF Pending
<1>3. Images(rfOut) = {} /\ Len(rfOut) = 0 /\ Len(rfStack) = 0 /\ rfOut \in Seq(RfCids) /\ rfStack \in Seq(Seq(RfCids))
  BY <1>1 DEF Images
<1>4. RfShape
  <2>1. Len(rfStack) <= Size /\ rfAll \in Seq(RfCids) /\ rfErr \in BOOLEAN
    <3>1. Len(rfStack) <= Size
      BY <1>3, DepthIs
    <3>2. rfAll \in Seq(RfCids)
      BY <1>1, Zenon
    <3>3. rfErr \in BOOLEAN
      BY <1>1, Zenon
    <3> QED BY <3>1, <3>2, <3>3
  <2>2. DOMAIN rfSeen \subseteq RfCids /\ \A c \in DOMAIN rfSeen : rfSeen[c] \in Nat
    BY <1>1
  <2> QED BY <1>1, <1>2, <1>3, <2>1, <2>2, Zenon DEF RfShape
<1>5. Wanted = UNION {RfBelow[Depth][r] : r \in Images(rfRoots)}
  BY <1>1 DEF Wanted, Images
<1>6. RfSound
  BY <1>2, <1>3, <1>5 DEF RfSound
<1>7. RfComplete
  BY <1>5 DEF RfComplete
<1>8. RfPruned
  <2>1. Cardinality(DOMAIN rfSeen) = 0
    BY <1>1, FS_EmptySet
  <2> QED BY <1>1, <1>3, <2>1 DEF RfPruned
<1> QED BY <1>4, <1>6, <1>7, <1>8 DEF RfInv

\* ... every step keeps it, ...
LEMMA RfStep == RfInv /\ [RfNext]_rfVars => RfInv'
<1> SUFFICES ASSUME RfInv, [RfNext]_rfVars PROVE RfInv'
  OBVIOUS
<1>1. CASE RfNext
  <2>1. RfShape'
    BY <1>1, ShapeStep DEF RfInv
  <2>2. rfUnique' = rfUnique /\ (~rfErr' => ~rfErr)
    BY <1>1 DEF RfNext, WriteRefs, WriteRefsRecursive, ReturnRefs, RfInv, RfShape
  <2>3. ~rfErr' => RfSound'
    BY <1>1, <2>2, SoundStep DEF RfInv
  <2>4. ~rfErr' /\ rfUnique => RfPruned'
    BY <1>1, <2>2, PrunedStep DEF RfInv
  <2>5. ~rfErr' /\ ~rfUnique => RfComplete'
    BY <1>1, <2>2, CompleteStep DEF RfInv
  <2> QED BY <2>1, <2>2, <2>3, <2>4, <2>5 DEF RfInv
<1>2. CASE UNCHANGED rfVars
  <2>1. UNCHANGED <<rfRoots, rfAll, rfUnique, rfMax, rfStack, rfSeen, rfOut, rfErr>>
    BY <1>2 DEF rfVars
  <2>2. \A k, x : Pending(k, x)' <=> Pending(k, x)
    BY <2>1 DEF Pending
  <2>3. Depth' = Depth /\ Wanted' = Wanted /\ (\A c, k : Needed(c, k)' = Needed(c, k)) /\ \A k, d : Near(k, d)' <=> Near(k, d)
    BY <2>1, Steady
  <2>4. \A c, d : Handled(c, d)' <=> Handled(c, d)
    BY <2>1, <2>2, <2>3 DEF Handled
  <2>5. RfShape => RfShape'
    BY <2>1, <2>2 DEF RfShape
  <2>6. RfSound => RfSound'
    BY <2>1, <2>2, <2>3 DEF RfSound
  <2>7. RfComplete => RfComplete'
    BY <2>1, <2>2, <2>3 DEF RfComplete
  <2>8. RfPruned => RfPruned'
    BY <2>1, <2>3, <2>4 DEF RfPruned
  <2> QED BY <2>1, <2>5, <2>6, <2>7, <2>8 DEF RfInv
<1> QED BY <1>1, <1>2

\* With --unique, all that lies below what was seen was seen.
LEMMA AllSeen ==
    ASSUME RfShape, RfPruned, rfStack = <<>>, NEW d \in 0..Size, NEW c \in DOMAIN rfSeen,
           rfMax < 0 \/ rfSeen[c] + d <= Depth
    PROVE  RfBelow[d][c] \subseteq DOMAIN rfSeen
<1> DEFINE S == {n \in Nat : \A x \in DOMAIN rfSeen :
                    n <= Size /\ (rfMax < 0 \/ rfSeen[x] + n <= Depth) => RfBelow[n][x] \subseteq DOMAIN rfSeen}
<1>1. 0 \in S
  BY BelowIs DEF RfShape
<1>2. ASSUME NEW n \in 1..Size, n - 1 \in S PROVE n \in S
  <2> SUFFICES ASSUME NEW x \in DOMAIN rfSeen, rfMax < 0 \/ rfSeen[x] + n <= Depth
               PROVE  RfBelow[n][x] \subseteq DOMAIN rfSeen
    OBVIOUS
  <2>1. x \in RfCids /\ rfSeen[x] \in Nat /\ Depth \in Nat /\ Size \in Nat
    BY DepthIs DEF RfShape
  <2>2. rfSeen[x] < Depth
    <3>1. CASE rfMax < 0
      <4>1. Depth = Size
        BY <3>1, DepthIs DEF Depth
      <4>2. Height[x] \in 0..Size - 1 /\ Height[x] + rfSeen[x] < Size
        BY <2>1, HeightIs DEF RfPruned
      <4> QED BY <2>1, <4>1, <4>2
    <3>2. CASE ~(rfMax < 0)
      BY <2>1, <3>2
    <3> QED BY <3>1, <3>2
  <2>3. ASSUME NEW k \in Kids(x) PROVE {k} \cup RfBelow[n - 1][k] \subseteq DOMAIN rfSeen
    <3>1. Handled(k, rfSeen[x] + 1)
      BY <2>2 DEF RfPruned
    <3>2. \A i, y : ~Pending(i, y)
      BY DEF Pending
    <3>3. k \in DOMAIN rfSeen /\ Near(rfSeen[k], rfSeen[x] + 1)
      BY <3>1, <3>2 DEF Handled
    <3>4. rfSeen[k] \in Nat
      BY <3>3 DEF RfShape
    <3>5. rfMax < 0 \/ rfSeen[k] + (n - 1) <= Depth
      BY <2>1, <3>3, <3>4 DEF Near
    <3>6. n - 1 <= Size
      BY <2>1
    <3> QED BY <1>2, <3>3, <3>5, <3>6
  <2>4. RfBelow[n][x] = Under(RfBelow[n - 1], x)
    BY <2>1, BelowIs
  <2> QED BY <2>3, <2>4 DEF Under
<1>3. Size \in Nat
  BY DepthIs
<1> HIDE DEF S
<1>4. 0..Size \subseteq S
  BY <1>1, <1>2, <1>3, UpTo
<1> QED BY <1>3, <1>4 DEF S

\* refs has written what was asked for when it ends.
LEMMA RfEnds == RfInv => RfTypeOK /\ RfRight
<1> SUFFICES ASSUME RfInv PROVE RfTypeOK /\ RfRight
  OBVIOUS
<1>1. RfTypeOK
  BY DEF RfInv, RfShape, RfTypeOK, Size
<1>2. ASSUME rfRoots = <<>>, rfStack = <<>>, ~rfErr
      PROVE  Images(rfOut) = Wanted /\ (rfUnique => Len(rfOut) = Cardinality(Wanted))
  <2>1. RfShape /\ RfSound /\ Images(rfRoots) = {} /\ \A k, x : ~Pending(k, x)
    BY <1>2 DEF RfInv, Images, Pending
  <2>2. CASE ~rfUnique
    <3>1. Wanted \subseteq Images(rfOut)
      BY <1>2, <2>1, <2>2 DEF RfInv, RfComplete
    <3> QED BY <2>1, <2>2, <3>1 DEF RfSound
  <2>3. CASE rfUnique
    <3>1. RfPruned
      BY <1>2, <2>3 DEF RfInv
    <3>2. ASSUME NEW r \in Images(rfAll) PROVE RfBelow[Depth][r] \subseteq DOMAIN rfSeen
      <4>1. r \in RfCids
        BY <2>1 DEF RfShape, Images
      <4>2. CASE Depth = 0
        BY <4>1, <4>2, BelowRoot
      <4>3. CASE Depth # 0
        <5>1. Depth \in 1..Size /\ Depth - 1 \in 0..Size /\ Depth > 0
          BY <4>3, DepthIs
        <5>2. ASSUME NEW x \in Kids(r) PROVE {x} \cup RfBelow[Depth - 1][x] \subseteq DOMAIN rfSeen
          <6>1. Handled(x, 1)
            BY <2>1, <3>1, <3>2, <5>1 DEF RfPruned
          <6>2. x \in DOMAIN rfSeen /\ Near(rfSeen[x], 1)
            BY <2>1, <6>1 DEF Handled
          <6>3. rfSeen[x] \in Nat
            BY <2>1, <6>2 DEF RfShape
          <6>4. rfMax < 0 \/ rfSeen[x] + (Depth - 1) <= Depth
            BY <5>1, <6>2, <6>3 DEF Near
          <6>5. RfBelow[Depth - 1][x] \subseteq DOMAIN rfSeen
            BY <1>2, <2>1, <3>1, <5>1, <6>2, <6>4, AllSeen
          <6> QED BY <6>2, <6>5
        <5>3. RfBelow[Depth][r] = Under(RfBelow[Depth - 1], r)
          BY <4>1, <5>1, BelowIs
        <5> QED BY <5>2, <5>3 DEF Under
      <4> QED BY <4>2, <4>3
    <3>3. Wanted \subseteq DOMAIN rfSeen
      <4>1. Wanted = UNION {RfBelow[Depth][r] : r \in Images(rfAll)}
        BY DEF Wanted, Images
      <4> QED BY <3>2, <4>1
    <3>4. DOMAIN rfSeen = Images(rfOut) /\ Len(rfOut) = Cardinality(DOMAIN rfSeen)
      BY <3>1 DEF RfPruned
    <3>5. DOMAIN rfSeen = Wanted
      BY <2>1, <3>3, <3>4 DEF RfSound
    <3> QED BY <3>4, <3>5
  <2> QED BY <2>2, <2>3
<1>3. Depth = IF rfMax \in 0..Cardinality(RfCids) THEN rfMax ELSE Cardinality(RfCids)
  BY DEF Depth, Size
<1>4. RfRight
  <2> SUFFICES ASSUME rfRoots = <<>>, rfStack = <<>>, ~rfErr
               PROVE  LET depth == IF rfMax \in 0..Cardinality(RfCids) THEN rfMax ELSE Cardinality(RfCids)
                          wanted == UNION {RfBelow[depth][rfAll[i]] : i \in DOMAIN rfAll} IN
                      /\ {rfOut[i] : i \in DOMAIN rfOut} = wanted
                      /\ rfUnique => Len(rfOut) = Cardinality(wanted)
    BY DEF RfRight
  <2>1. UNION {RfBelow[Depth][rfAll[i]] : i \in DOMAIN rfAll} = Wanted
    BY DEF Wanted
  <2>2. {rfOut[i] : i \in DOMAIN rfOut} = Images(rfOut)
    BY DEF Images
  <2> QED BY <1>2, <1>3, <2>1, <2>2
<1> QED BY <1>1, <1>4

-----------------------------------------------------------------------------
(* cat.  The bytes of a file from p on and before q, ...                   *)
Slice(f, p, q) == {[file |-> f, at |-> i] : i \in p..q - 1}

\* How many bytes of a file lie between two places.
LEMMA SliceIs ==
    ASSUME NEW f, NEW p \in Nat, NEW q \in Nat, p <= q
    PROVE  IsFiniteSet(Slice(f, p, q)) /\ Cardinality(Slice(f, p, q)) = q - p
<1> DEFINE g == [i \in p..q - 1 |-> [file |-> f, at |-> i]]
           S == p..q - 1
           T == Slice(f, p, q)
<1>1. \A i, j \in S : g[i] = g[j] => i = j
  <2> SUFFICES ASSUME NEW i \in S, NEW j \in S, g[i] = g[j] PROVE i = j
    OBVIOUS
  <2>1. g[i].at = i /\ g[j].at = j
    OBVIOUS
  <2> QED BY <2>1
<1>2. g \in [S -> T] /\ \A t \in T : \E i \in S : g[i] = t
  BY DEF Slice
<1>3. IsFiniteSet(S) /\ Cardinality(S) = q - p
  <2>1. p \in Int /\ q - 1 \in Int
    OBVIOUS
  <2>2. IsFiniteSet(p..q - 1) /\ Cardinality(p..q - 1) = IF p > q - 1 THEN 0 ELSE (q - 1) - p + 1
    BY <2>1, FS_Interval
  <2> QED BY <2>2
<1> HIDE DEF g, S, T
<1>4. ExistsBijection(S, T)
  <2>1. g \in Injection(S, T)
    BY <1>1, <1>2 DEF Injection, IsInjective
  <2>2. g \in Surjection(S, T)
    BY <1>2 DEF Surjection
  <2> QED BY <2>1, <2>2 DEF ExistsBijection, Bijection
<1>5. IsFiniteSet(T) /\ Cardinality(T) = Cardinality(S)
  BY <1>3, <1>4, FS_Bijection
<1> QED BY <1>3, <1>5 DEF T

\* Sets with nothing in common add up.
LEMMA DisjointSum ==
    ASSUME NEW S, NEW T, IsFiniteSet(S), IsFiniteSet(T), S \cap T = {}
    PROVE  /\ IsFiniteSet(S \cup T) /\ Cardinality(S \cup T) = Cardinality(S) + Cardinality(T)
           /\ Cardinality(S) \in Nat /\ Cardinality(T) \in Nat
<1>1. Cardinality(S \cap T) = 0
  BY FS_EmptySet
<1>2. Cardinality(S) \in Nat /\ Cardinality(T) \in Nat
  BY FS_CardinalityType
<1>3. IsFiniteSet(S \cup T) /\ Cardinality(S \cup T) = Cardinality(S) + Cardinality(T) - Cardinality(S \cap T)
  BY FS_Union, Zenon
<1> DEFINE s == Cardinality(S)
           t == Cardinality(T)
           both == Cardinality(S \cap T)
           all == Cardinality(S \cup T)
<1>4. s \in Nat /\ t \in Nat /\ both = 0 /\ all = s + t - both
  BY <1>1, <1>2, <1>3, Zenon
<1> HIDE DEF s, t, both, all
<1>5. all = s + t
  BY <1>4
<1> QED BY <1>2, <1>3, <1>5, Zenon DEF s, t, all

(* ... all bytes, and how many there are before a file and before a byte.  *)
LEMMA PositionsAre ==
    ASSUME ctFiles \in Seq(Nat)
    PROVE  /\ \A f \in 1..Len(ctFiles) : ctFiles[f] \in Nat
           /\ \A b \in CtPositions : /\ b.file \in 1..Len(ctFiles) /\ b.at \in 0..ctFiles[b.file] - 1
                                     /\ b = [file |-> b.file, at |-> b.at]
           /\ \A f \in 1..Len(ctFiles) : Slice(f, 0, ctFiles[f]) = {b \in CtPositions : b.file = f}
           /\ Len(ctFiles) \in Nat
<1>1. DOMAIN ctFiles = 1..Len(ctFiles) /\ Len(ctFiles) \in Nat /\ \A f \in 1..Len(ctFiles) : ctFiles[f] \in Nat
  OBVIOUS
<1>2. ASSUME NEW b \in CtPositions
      PROVE  /\ b.file \in 1..Len(ctFiles) /\ b.at \in 0..ctFiles[b.file] - 1
             /\ b = [file |-> b.file, at |-> b.at]
  <2>1. PICK f \in 1..Len(ctFiles) : \E p \in 0..ctFiles[f] - 1 : b = [file |-> f, at |-> p]
    BY <1>1 DEF CtPositions
  <2> QED BY <2>1
<1>3. ASSUME NEW f \in 1..Len(ctFiles) PROVE Slice(f, 0, ctFiles[f]) = {b \in CtPositions : b.file = f}
  <2>1. ASSUME NEW b \in Slice(f, 0, ctFiles[f]) PROVE b \in CtPositions /\ b.file = f
    <3>1. PICK i \in 0..ctFiles[f] - 1 : b = [file |-> f, at |-> i]
      BY <2>1 DEF Slice
    <3>2. b \in {[file |-> f, at |-> p] : p \in 0..ctFiles[f] - 1}
      BY <3>1
    <3> QED BY <1>1, <3>1, <3>2 DEF CtPositions
  <2>2. ASSUME NEW b \in CtPositions, b.file = f PROVE b \in Slice(f, 0, ctFiles[f])
    BY <1>2, <2>2 DEF Slice
  <2> QED BY <2>1, <2>2
<1> QED BY <1>1, <1>2, <1>3

\* The bytes before a file, file by file, ...
LEMMA BytesAre ==
    ASSUME ctFiles \in Seq(Nat)
    PROVE  /\ BytesBefore(1) = 0 /\ FilesBefore(1) = {}
           /\ \A f \in 1..Len(ctFiles) + 1 : IsFiniteSet(FilesBefore(f)) /\ BytesBefore(f) \in Nat
           /\ \A f \in 1..Len(ctFiles) : BytesBefore(f + 1) = BytesBefore(f) + ctFiles[f]
<1> DEFINE N == Len(ctFiles)
           Add(f) == /\ FilesBefore(f + 1) = FilesBefore(f) \cup Slice(f, 0, ctFiles[f])
                     /\ FilesBefore(f) \cap Slice(f, 0, ctFiles[f]) = {}
           S == {n \in 0..N : IsFiniteSet(FilesBefore(n + 1))}
<1>1. FilesBefore(1) = {} /\ BytesBefore(1) = 0
  <2>1. FilesBefore(1) = {}
    BY PositionsAre DEF FilesBefore
  <2> QED BY <2>1, FS_EmptySet DEF BytesBefore
<1>2. ASSUME NEW f \in 1..N
      PROVE  /\ FilesBefore(f + 1) = FilesBefore(f) \cup Slice(f, 0, ctFiles[f])
             /\ FilesBefore(f) \cap Slice(f, 0, ctFiles[f]) = {}
  <2>1. Slice(f, 0, ctFiles[f]) = {b \in CtPositions : b.file = f}
    BY PositionsAre
  <2>2. ASSUME NEW b \in CtPositions PROVE (b.file < f + 1 <=> b.file < f \/ b.file = f) /\ (b.file < f => b.file # f)
    <3>1. b.file \in Nat /\ f \in Nat
      BY PositionsAre
    <3> QED BY <3>1
  <2> QED BY <2>1, <2>2 DEF FilesBefore
<1>3. ASSUME NEW f \in 1..N PROVE IsFiniteSet(Slice(f, 0, ctFiles[f])) /\ Cardinality(Slice(f, 0, ctFiles[f])) = ctFiles[f]
  <2>1. ctFiles[f] \in Nat
    BY PositionsAre
  <2> QED BY <2>1, SliceIs
<1>4. 0 \in S
  <2>1. 0 \in 0..N /\ 0 + 1 = 1
    BY PositionsAre
  <2>2. IsFiniteSet(FilesBefore(1))
    BY <1>1, FS_EmptySet
  <2> QED BY <2>1, <2>2
<1>5. ASSUME NEW n \in 1..N, n - 1 \in S PROVE n \in S
  <2>1. IsFiniteSet(FilesBefore(n))
    BY <1>5
  <2>2. IsFiniteSet(FilesBefore(n + 1))
    <3>1. IsFiniteSet(FilesBefore(n) \cup Slice(n, 0, ctFiles[n]))
      BY <1>2, <1>3, <2>1, DisjointSum
    <3> QED BY <1>2, <3>1
  <2>3. n \in 0..N
    BY PositionsAre
  <2> QED BY <2>2, <2>3
<1>6. N \in Nat
  BY PositionsAre
<1> HIDE DEF S
<1>7. 0..N \subseteq S
  BY <1>4, <1>5, <1>6, UpTo
<1>8. ASSUME NEW f \in 1..N + 1 PROVE IsFiniteSet(FilesBefore(f)) /\ BytesBefore(f) \in Nat
  <2>1. f - 1 \in 0..N /\ (f - 1) + 1 = f
    BY <1>6
  <2>2. IsFiniteSet(FilesBefore((f - 1) + 1))
    BY <1>7, <2>1 DEF S
  <2> QED BY <2>1, <2>2, FS_CardinalityType DEF BytesBefore
<1>9. ASSUME NEW f \in 1..N PROVE BytesBefore(f + 1) = BytesBefore(f) + ctFiles[f]
  <2>1. IsFiniteSet(FilesBefore(f))
    BY <1>6, <1>8
  <2> DEFINE T == Slice(f, 0, ctFiles[f])
  <2>2. IsFiniteSet(T) /\ Cardinality(T) = ctFiles[f] /\ FilesBefore(f) \cap T = {}
        /\ FilesBefore(f + 1) = FilesBefore(f) \cup T
    BY <1>2, <1>3
  <2> HIDE DEF T
  <2>3. Cardinality(FilesBefore(f) \cup T) = Cardinality(FilesBefore(f)) + Cardinality(T)
    BY <2>1, <2>2, DisjointSum
  <2> QED BY <2>2, <2>3 DEF BytesBefore
<1> QED BY <1>1, <1>8, <1>9

\* ... are more the later it comes.
LEMMA BytesGrow ==
    ASSUME ctFiles \in Seq(Nat), NEW f \in 1..Len(ctFiles) + 1, NEW g \in 1..Len(ctFiles) + 1, f <= g
    PROVE  BytesBefore(f) <= BytesBefore(g)
<1>1. FilesBefore(f) \subseteq FilesBefore(g)
  <2>1. ASSUME NEW b \in CtPositions, b.file < f PROVE b.file < g
    BY <2>1, PositionsAre
  <2> QED BY <2>1 DEF FilesBefore
<1> QED BY <1>1, BytesAre, FS_Subset DEF BytesBefore

\* The bytes before a byte.
LEMMA BeforeIs ==
    ASSUME ctFiles \in Seq(Nat), NEW b \in CtPositions
    PROVE  CtBefore(b) = BytesBefore(b.file) + b.at /\ CtBefore(b) \in Nat
<1> DEFINE f == b.file
           p == b.at
<1>1. f \in 1..Len(ctFiles) /\ p \in 0..ctFiles[f] - 1 /\ ctFiles[f] \in Nat /\ Len(ctFiles) \in Nat
  BY PositionsAre
<1>2. {x \in CtPositions : x.file < f \/ (x.file = f /\ x.at < p)} = FilesBefore(f) \cup Slice(f, 0, p)
  <2>1. ASSUME NEW x \in CtPositions, x.file = f, x.at < p PROVE x \in Slice(f, 0, p)
    BY <1>1, <2>1, PositionsAre DEF Slice
  <2>2. ASSUME NEW x \in Slice(f, 0, p) PROVE x \in CtPositions /\ x.file = f /\ x.at < p
    <3>1. PICK i \in 0..p - 1 : x = [file |-> f, at |-> i]
      BY <2>2 DEF Slice
    <3>2. i \in 0..ctFiles[f] - 1 /\ x.file = f /\ x.at = i /\ i < p
      BY <1>1, <3>1
    <3>3. x \in Slice(f, 0, ctFiles[f])
      BY <3>1, <3>2 DEF Slice
    <3> QED BY <1>1, <3>2, <3>3, PositionsAre
  <2> HIDE DEF f, p
  <2> QED BY <2>1, <2>2 DEF FilesBefore
<1>3. FilesBefore(f) \cap Slice(f, 0, p) = {}
  <2>1. \A x \in Slice(f, 0, p) : x.file = f /\ ~(f < f)
    BY <1>1 DEF Slice
  <2> QED BY <2>1 DEF FilesBefore
<1>4. IsFiniteSet(Slice(f, 0, p)) /\ Cardinality(Slice(f, 0, p)) = p
  BY <1>1, SliceIs
<1>5. f \in 1..Len(ctFiles) + 1
  BY <1>1
<1>6. IsFiniteSet(FilesBefore(f)) /\ BytesBefore(f) \in Nat
  BY <1>5, BytesAre
<1> HIDE DEF f, p
<1>7. CtBefore(b) = Cardinality(FilesBefore(f) \cup Slice(f, 0, p))
  BY <1>2 DEF CtBefore, f, p
<1>8. CtBefore(b) = BytesBefore(f) + p
  BY <1>3, <1>4, <1>6, <1>7, DisjointSum DEF BytesBefore
<1> QED BY <1>1, <1>6, <1>8 DEF f, p

\* Where a byte of the file that is next lies.
LEMMA ByteOf ==
    ASSUME ctFiles \in Seq(Nat), NEW f \in 1..Len(ctFiles), NEW b \in CtPositions
    PROVE  /\ b.file < f => CtBefore(b) < BytesBefore(f)
           /\ b.file = f => CtBefore(b) = BytesBefore(f) + b.at
           /\ b.file > f => CtBefore(b) >= BytesBefore(f) + ctFiles[f]
           /\ b.file \in Nat /\ b.at \in Nat /\ CtBefore(b) \in Nat /\ BytesBefore(f) \in Nat /\ ctFiles[f] \in Nat
<1> DEFINE g == b.file
           p == b.at
<1>1. g \in 1..Len(ctFiles) /\ p \in 0..ctFiles[g] - 1 /\ ctFiles[g] \in Nat /\ ctFiles[f] \in Nat /\ Len(ctFiles) \in Nat
  BY PositionsAre
<1>2. CtBefore(b) = BytesBefore(g) + p /\ CtBefore(b) \in Nat
  BY BeforeIs
<1>3. g \in 1..Len(ctFiles) + 1 /\ f \in 1..Len(ctFiles) + 1 /\ g + 1 \in 1..Len(ctFiles) + 1 /\ f + 1 \in 1..Len(ctFiles) + 1
  <2> DEFINE n == Len(ctFiles)
  <2>1. g \in 1..n /\ f \in 1..n /\ n \in Nat
    BY <1>1
  <2> HIDE DEF n, g
  <2>2. g \in 1..n + 1 /\ f \in 1..n + 1 /\ g + 1 \in 1..n + 1 /\ f + 1 \in 1..n + 1
    BY <2>1
  <2> QED BY <2>2 DEF n
<1>4. /\ BytesBefore(g) \in Nat /\ BytesBefore(f) \in Nat
      /\ BytesBefore(g + 1) = BytesBefore(g) + ctFiles[g] /\ BytesBefore(f + 1) = BytesBefore(f) + ctFiles[f]
  BY <1>1, <1>3, BytesAre
<1> HIDE DEF g, p
<1>5. ASSUME g < f PROVE CtBefore(b) < BytesBefore(f)
  <2>1. g + 1 <= f
    BY <1>1, <1>5
  <2>2. BytesBefore(g + 1) <= BytesBefore(f)
    BY <1>3, <2>1, BytesGrow
  <2> DEFINE x == CtBefore(b)
             y == BytesBefore(g)
             z == BytesBefore(f)
             w == ctFiles[g]
  <2>3. x = y + p /\ p \in Nat /\ y \in Nat /\ z \in Nat /\ w \in Nat /\ y + w <= z /\ p < w
    <3>1. y + w <= z
      BY <1>4, <2>2, Zenon
    <3>2. x = y + p /\ y \in Nat /\ z \in Nat /\ w \in Nat
      BY <1>1, <1>2, <1>4, Zenon
    <3>3. p \in 0..w - 1 /\ w \in Nat
      BY <1>1, Zenon
    <3> HIDE DEF x, y, z, w
    <3>4. p \in Nat /\ p < w
      BY <3>3
    <3> QED BY <3>1, <3>2, <3>4
  <2> HIDE DEF x, y, z, w
  <2>4. x < z
    BY <2>3
  <2> QED BY <2>4 DEF x, z
<1>6. ASSUME g > f PROVE CtBefore(b) >= BytesBefore(f) + ctFiles[f]
  <2>1. f + 1 <= g
    BY <1>1, <1>6
  <2>2. BytesBefore(f + 1) <= BytesBefore(g)
    BY <1>3, <2>1, BytesGrow
  <2> DEFINE x == CtBefore(b)
             y == BytesBefore(g)
             z == BytesBefore(f)
             w == ctFiles[f]
  <2>3. x = y + p /\ p \in Nat /\ y \in Nat /\ z \in Nat /\ w \in Nat /\ z + w <= y
    BY <1>1, <1>2, <1>4, <2>2
  <2> HIDE DEF x, y, z, w
  <2>4. x >= z + w
    BY <2>3
  <2> QED BY <2>4 DEF x, z, w
<1>7. g \in Nat /\ p \in Nat
  BY <1>1
<1>8. g = f => CtBefore(b) = BytesBefore(f) + p
  BY <1>2
<1> QED BY <1>1, <1>2, <1>4, <1>5, <1>6, <1>7, <1>8, Zenon DEF g, p

\* The files and the options stay, and the bytes wanted with them.
LEMMA CtSteady ==
    ASSUME UNCHANGED <<ctFiles, ctAsked, ctMax>>
    PROVE  /\ CtPositions' = CtPositions /\ CtWanted' = CtWanted
           /\ \A b : CtBefore(b)' = CtBefore(b)
           /\ \A f : FilesBefore(f)' = FilesBefore(f) /\ BytesBefore(f)' = BytesBefore(f)
<1>1. CtPositions' = CtPositions
  BY DEF CtPositions
<1>2. \A b : CtBefore(b)' = CtBefore(b)
  BY <1>1 DEF CtBefore
<1>3. CtWanted' = CtWanted
  BY <1>1, <1>2 DEF CtWanted
<1>4. \A f : FilesBefore(f)' = FilesBefore(f)
  BY <1>1 DEF FilesBefore
<1>5. \A f : BytesBefore(f)' = BytesBefore(f)
  BY <1>4 DEF BytesBefore
<1> QED BY <1>1, <1>2, <1>3, <1>4, <1>5

\* The invariant of cat holds at first, ...
LEMMA CtBegins == CtInit => CtInv
<1> SUFFICES ASSUME CtInit PROVE CtInv
  OBVIOUS
<1>1. /\ ctFiles \in Seq(Nat) /\ ctOffset \in Nat /\ ctMax \in Nat \cup {-1} /\ ctAsked = ctOffset
      /\ ctNext = 1 /\ ctLength = 0 /\ ctReaders = <<>> /\ (ctDone <=> ctMax = 0) /\ ctErr = FALSE
  BY ReadingAssumption DEF CtInit
<1>2. Len(ctFiles) \in Nat
  BY <1>1
<1>3. CtShape
  BY <1>1, <1>2 DEF CtShape, CtTypeOK
<1>4. CtGot = {} /\ ctLength = Cardinality(CtGot)
  <2>1. CtGot = {}
    BY <1>1 DEF CtGot
  <2> QED BY <1>1, <2>1, FS_EmptySet
<1>5. ~ctDone => CtReading
  BY <1>1, <1>4, BytesAre DEF CtReading
<1>6. ctDone => CtGot = CtWanted
  <2> SUFFICES ASSUME ctMax = 0, NEW b \in CtPositions PROVE b \notin CtWanted
    BY <1>1, <1>4 DEF CtWanted
  <2>1. CtBefore(b) \in Nat
    BY <1>1, BeforeIs
  <2> QED BY <1>1, <2>1 DEF CtWanted
<1> QED BY <1>3, <1>4, <1>5, <1>6 DEF CtInv

\* ... a file that is skipped keeps it, ...
LEMMA SkipStep ==
    ASSUME CtInv, CatSkip
    PROVE  CtInv'
<1> DEFINE f == ctNext
           size == ctFiles[f]
<1>1. /\ ctFiles \in Seq(Nat) /\ ctOffset \in Nat /\ f \in 1..Len(ctFiles) /\ size \in Nat /\ Len(ctFiles) \in Nat
      /\ ctAsked \in Nat /\ ctLength \in Nat
  <2>1. ctFiles \in Seq(Nat) /\ ctOffset \in Nat /\ f \in 1..Len(ctFiles) + 1 /\ f <= Len(ctFiles)
        /\ ctAsked \in Nat /\ ctLength \in Nat
    BY DEF CtInv, CtShape, CtTypeOK, CatSkip
  <2> QED BY <2>1
<1>2. /\ ~ctDone /\ CtReading /\ ctOffset > size
      /\ ctOffset' = ctOffset - size /\ ctNext' = f + 1
      /\ UNCHANGED <<ctLength, ctReaders, ctDone, ctFiles, ctAsked, ctMax, ctErr>>
  BY DEF CatSkip, CtStay, CtInv
<1> HIDE DEF f, size
<1>3. /\ CtPositions' = CtPositions /\ CtWanted' = CtWanted
      /\ \A b : CtBefore(b)' = CtBefore(b)
      /\ \A g : FilesBefore(g)' = FilesBefore(g) /\ BytesBefore(g)' = BytesBefore(g)
  BY <1>2, CtSteady
<1>4. CtGot' = CtGot
  BY <1>2, <1>3 DEF CtGot
<1>5. CtShape'
  BY <1>1, <1>2 DEF CtShape, CtTypeOK, CtInv
<1>6. BytesBefore(f) \in Nat /\ BytesBefore(f + 1) = BytesBefore(f) + size
  BY <1>1, BytesAre DEF size
<1>7. ctLength = 0 /\ BytesBefore(f) + ctOffset = ctAsked /\ (ctMax < 0 \/ ctLength < ctMax)
      /\ CtGot = {b \in FilesBefore(f) : CtBefore(b) >= ctAsked}
  <2>1. /\ ctMax < 0 \/ ctLength < ctMax
        /\ BytesBefore(f) + ctOffset = ctAsked + ctLength
        /\ ctOffset = 0 \/ ctLength = 0
        /\ CtGot = {b \in FilesBefore(f) : CtBefore(b) >= ctAsked}
    BY <1>2 DEF CtReading, f
  <2>2. ctOffset # 0
    BY <1>1, <1>2
  <2>3. ctAsked + 0 = ctAsked
    BY <1>1
  <2> QED BY <2>1, <2>2, <2>3
<1>8. BytesBefore(f + 1) + ctOffset' = ctAsked + ctLength
  BY <1>1, <1>2, <1>6, <1>7
<1>9. ASSUME NEW b \in CtPositions, b.file = f PROVE ~(CtBefore(b) >= ctAsked)
  <2>1. b.at \in 0..size - 1 /\ CtBefore(b) = BytesBefore(f) + b.at
    BY <1>1, <1>9, PositionsAre, BeforeIs DEF size
  <2> QED BY <1>1, <1>2, <1>6, <1>7, <2>1
<1>10. {b \in FilesBefore(f + 1) : CtBefore(b) >= ctAsked} = CtGot
  <2>1. ASSUME NEW b \in CtPositions PROVE b.file < f + 1 <=> b.file < f \/ b.file = f
    BY <1>1, PositionsAre
  <2> QED BY <1>7, <1>9, <2>1 DEF FilesBefore
<1>11. CtReading'
  BY <1>2, <1>3, <1>4, <1>7, <1>8, <1>10 DEF CtReading
<1> QED BY <1>2, <1>4, <1>5, <1>11 DEF CtInv

\* ... the end does, ...
LEMMA EndStep ==
    ASSUME CtInv, CatEnd \/ CatFails
    PROVE  CtInv'
<1>1. /\ UNCHANGED <<ctFiles, ctAsked, ctMax, ctOffset, ctNext, ctLength, ctReaders>>
      /\ ctDone' = TRUE
  BY DEF CatEnd, CatFails, CtStay
<1>2. /\ CtPositions' = CtPositions /\ CtWanted' = CtWanted
      /\ \A b : CtBefore(b)' = CtBefore(b)
      /\ \A g : FilesBefore(g)' = FilesBefore(g) /\ BytesBefore(g)' = BytesBefore(g)
  BY <1>1, CtSteady
<1>3. CtGot' = CtGot
  BY <1>1, <1>2 DEF CtGot
<1>4. CtShape'
  BY <1>1 DEF CtShape, CtTypeOK, CtInv
<1>5. CASE CatFails
  BY <1>1, <1>3, <1>4, <1>5 DEF CtInv, CatFails
<1>6. CASE CatEnd
  <2> DEFINE N == Len(ctFiles)
  <2>1. /\ ctFiles \in Seq(Nat) /\ N \in Nat /\ ctNext = N + 1 /\ CtReading
        /\ ctOffset \in Nat /\ ctLength \in Nat /\ ctAsked \in Nat /\ ctMax \in Nat \cup {-1}
    <3>1. /\ ctFiles \in Seq(Nat) /\ CtReading /\ ctNext \in 1..N + 1 /\ ctNext > N
          /\ ctOffset \in Nat /\ ctLength \in Nat /\ ctAsked \in Nat /\ ctMax \in Nat \cup {-1}
      BY <1>6 DEF CtInv, CtShape, CtTypeOK, CatEnd
    <3>2. N \in Nat
      BY <3>1
    <3> HIDE DEF N
    <3>3. ctNext = N + 1
      BY <3>1, <3>2
    <3> QED BY <3>1, <3>2, <3>3
  <2> HIDE DEF N
  <2>2. ASSUME NEW b \in CtPositions
        PROVE  b \in FilesBefore(ctNext) /\ (ctMax < 0 \/ CtBefore(b) < ctAsked + ctMax)
    <3>1. b.file \in 1..N /\ b.at \in 0..ctFiles[b.file] - 1 /\ ctFiles[b.file] \in Nat
      BY <2>1, PositionsAre DEF N
    <3>2. CtBefore(b) = BytesBefore(b.file) + b.at
      BY <2>1, BeforeIs
    <3>3. b.file + 1 \in 1..N + 1 /\ b.file + 1 <= N + 1 /\ N + 1 \in 1..N + 1 /\ b.file \in 1..N + 1
      BY <2>1, <3>1
    <3>4. BytesBefore(b.file + 1) <= BytesBefore(N + 1)
      BY <2>1, <3>3, BytesGrow DEF N
    <3>5. BytesBefore(b.file + 1) = BytesBefore(b.file) + ctFiles[b.file]
      BY <2>1, <3>1, BytesAre DEF N
    <3>6. BytesBefore(b.file) \in Nat /\ BytesBefore(N + 1) \in Nat
      BY <2>1, <3>3, BytesAre DEF N
    <3>7. BytesBefore(N + 1) + ctOffset = ctAsked + ctLength /\ (ctMax < 0 \/ ctLength < ctMax)
      BY <2>1 DEF CtReading
    <3> DEFINE at == b.at
               x == CtBefore(b)
               y == BytesBefore(b.file)
               z == BytesBefore(N + 1)
               w == ctFiles[b.file]
    <3>8. y + w <= z
      BY <3>4, <3>5, Zenon
    <3>9. /\ x = y + at /\ at \in 0..w - 1 /\ y \in Nat /\ z \in Nat /\ w \in Nat
          /\ z + ctOffset = ctAsked + ctLength
      BY <3>1, <3>2, <3>6, <3>7, Zenon
    <3> HIDE DEF at, x, y, z, w
    <3>10. ctMax < 0 \/ x < ctAsked + ctMax
      BY <2>1, <3>7, <3>8, <3>9
    <3>11. b.file < N + 1
      BY <2>1, <3>1
    <3> QED BY <2>1, <3>10, <3>11 DEF x, FilesBefore
  <2>3. CtGot = {b \in FilesBefore(ctNext) : CtBefore(b) >= ctAsked}
    BY <2>1 DEF CtReading
  <2>4. CtGot = CtWanted
    BY <2>2, <2>3 DEF CtWanted, FilesBefore
  <2> QED BY <1>1, <1>2, <1>3, <1>4, <1>6, <2>4 DEF CtInv, CatEnd
<1> QED BY <1>5, <1>6

\* ... a file that is read does, ...
LEMMA ReadStep ==
    ASSUME CtInv, CatRead
    PROVE  CtInv'
<1> DEFINE f == ctNext
           size == ctFiles[f]
           rest == size - ctOffset
           full == ctMax > 0 /\ ctLength + rest >= ctMax
           overshoot == IF full THEN ctLength + rest - ctMax ELSE 0
           end == size - overshoot
           r == [file |-> f, from |-> ctOffset, upTo |-> end]
           B == BytesBefore(f)
           new == Slice(f, ctOffset, end)
<1>1. /\ ctFiles \in Seq(Nat) /\ ctOffset \in Nat /\ f \in 1..Len(ctFiles) /\ size \in Nat /\ Len(ctFiles) \in Nat
      /\ ctAsked \in Nat /\ ctLength \in Nat /\ ctMax \in Nat \cup {-1}
      /\ ctReaders \in Seq([file : Nat, from : Nat, upTo : Nat])
  <2>1. /\ ctFiles \in Seq(Nat) /\ ctOffset \in Nat /\ f \in 1..Len(ctFiles) + 1 /\ f <= Len(ctFiles)
        /\ ctAsked \in Nat /\ ctLength \in Nat /\ ctMax \in Nat \cup {-1}
        /\ ctReaders \in Seq([file : Nat, from : Nat, upTo : Nat])
    BY DEF CtInv, CtShape, CtTypeOK, CatRead
  <2> QED BY <2>1
<1>2. /\ ~ctDone /\ CtReading /\ ctOffset <= size
      /\ ctReaders' = Append(ctReaders, r)
      /\ ctLength' = (IF full THEN ctMax ELSE ctLength + rest)
      /\ ctOffset' = 0 /\ ctNext' = f + 1 /\ ctDone' = full
      /\ UNCHANGED <<ctFiles, ctAsked, ctMax, ctErr>>
  BY DEF CatRead, CtStay, CtInv
<1>3. /\ CtPositions' = CtPositions /\ CtWanted' = CtWanted
      /\ \A b : CtBefore(b)' = CtBefore(b)
      /\ \A g : FilesBefore(g)' = FilesBefore(g) /\ BytesBefore(g)' = BytesBefore(g)
  BY <1>2, CtSteady
<1>4. /\ B \in Nat /\ BytesBefore(f + 1) = B + size
      /\ B + ctOffset = ctAsked + ctLength /\ (ctOffset = 0 \/ ctLength = 0) /\ (ctMax < 0 \/ ctLength < ctMax)
      /\ CtGot = {b \in FilesBefore(f) : CtBefore(b) >= ctAsked}
  <2>1. B \in Nat /\ BytesBefore(f + 1) = B + size
    BY <1>1, BytesAre
  <2> QED BY <1>2, <2>1 DEF CtReading
<1> HIDE DEF B, f
<1>5. rest \in Nat /\ (full \in BOOLEAN) /\ end \in Nat /\ ctOffset <= end /\ end <= size
      /\ ctLength' = ctLength + (end - ctOffset)
  <2> HIDE DEF size
  <2>1. rest \in Nat
    BY <1>1, <1>2
  <2>2. CASE full
    <3>1. overshoot = ctLength + rest - ctMax /\ ctLength' = ctMax
      BY <1>2, <2>2
    <3>2. ctMax > 0 /\ ctLength + rest >= ctMax /\ ctLength < ctMax /\ ctMax \in Nat
      BY <1>1, <1>4, <2>2
    <3> QED BY <1>1, <1>2, <2>1, <3>1, <3>2
  <2>3. CASE ~full
    <3>1. overshoot = 0 /\ ctLength' = ctLength + rest
      BY <1>2, <2>3
    <3> QED BY <1>1, <1>2, <2>1, <3>1
  <2> QED BY <2>1, <2>2, <2>3
<1> HIDE DEF end
<1>6. r \in [file : Nat, from : Nat, upTo : Nat]
  BY <1>1, <1>5
<1>7. /\ ctReaders' \in Seq([file : Nat, from : Nat, upTo : Nat])
      /\ DOMAIN ctReaders' = DOMAIN ctReaders \cup {Len(ctReaders) + 1} /\ ctReaders'[Len(ctReaders) + 1] = r
      /\ \A i \in DOMAIN ctReaders : ctReaders'[i] = ctReaders[i]
  <2> HIDE DEF r
  <2> DEFINE R == [file : Nat, from : Nat, upTo : Nat]
  <2>1. ctReaders \in Seq(R) /\ r \in R
    BY <1>1, <1>6
  <2> HIDE DEF R
  <2>2. Append(ctReaders, r) \in Seq(R) /\ Len(ctReaders) \in Nat /\ DOMAIN ctReaders = 1..Len(ctReaders)
        /\ Len(Append(ctReaders, r)) = Len(ctReaders) + 1 /\ Append(ctReaders, r)[Len(ctReaders) + 1] = r
        /\ \A i \in 1..Len(ctReaders) : Append(ctReaders, r)[i] = ctReaders[i]
    BY <2>1
  <2>3. DOMAIN Append(ctReaders, r) = 1..Len(ctReaders) + 1
    BY <2>2
  <2>4. 1..Len(ctReaders) + 1 = 1..Len(ctReaders) \cup {Len(ctReaders) + 1}
    BY <2>2
  <2> QED BY <1>2, <2>2, <2>3, <2>4 DEF R
<1>8. \A b \in CtPositions : b.file = f => b.at \in 0..size - 1
  BY <1>1, PositionsAre
<1>9. new = {b \in CtPositions : b.file = f /\ b.at \in ctOffset..end - 1}
  <2>1. ASSUME NEW b \in CtPositions, b.file = f, b.at \in ctOffset..end - 1 PROVE b \in new
    BY <1>1, <2>1, PositionsAre DEF Slice
  <2>2. ASSUME NEW b \in new PROVE b \in CtPositions /\ b.file = f /\ b.at \in ctOffset..end - 1
    <3>1. PICK i \in ctOffset..end - 1 : b = [file |-> f, at |-> i]
      BY DEF Slice
    <3>2. i \in 0..size - 1
      BY <1>1, <1>5, <3>1
    <3>3. b \in Slice(f, 0, ctFiles[f])
      BY <3>1, <3>2 DEF Slice
    <3> QED BY <1>1, <3>1, <3>3, PositionsAre
  <2> HIDE DEF new
  <2> QED BY <2>1, <2>2
<1>10. CtGot' = CtGot \cup new
  <2>1. r.file = f /\ r.from = ctOffset /\ r.upTo = end
    OBVIOUS
  <2> HIDE DEF r, new, size
  <2>2. ASSUME NEW b \in CtPositions
        PROVE  (\E i \in DOMAIN ctReaders' : ctReaders'[i].file = b.file /\ b.at \in ctReaders'[i].from..ctReaders'[i].upTo - 1)
               <=> (\E i \in DOMAIN ctReaders : ctReaders[i].file = b.file /\ b.at \in ctReaders[i].from..ctReaders[i].upTo - 1)
                   \/ (f = b.file /\ b.at \in ctOffset..end - 1)
    BY <1>7, <2>1
  <2> QED BY <1>3, <1>9, <2>2 DEF CtGot
<1>11. IsFiniteSet(CtGot) /\ CtGot \cap new = {}
  <2>1. f \in 1..Len(ctFiles) + 1
    BY <1>1
  <2>2. IsFiniteSet(FilesBefore(f))
    BY <1>1, <2>1, BytesAre
  <2>3. CtGot \subseteq FilesBefore(f)
    BY <1>4
  <2>4. \A b \in FilesBefore(f) : b \notin new
    <3> HIDE DEF new
    <3> SUFFICES ASSUME NEW b \in FilesBefore(f), b \in new PROVE FALSE
      OBVIOUS
    <3>1. b.file = f /\ b.file < f
      BY <1>9 DEF FilesBefore
    <3> QED BY <1>1, <3>1
  <2> QED BY <2>2, <2>3, <2>4, FS_Subset
<1>12. ctLength' = Cardinality(CtGot')
  <2>1. ctLength = Cardinality(CtGot)
    BY DEF CtInv
  <2>2. IsFiniteSet(new) /\ Cardinality(new) = end - ctOffset
    BY <1>1, <1>5, SliceIs
  <2> HIDE DEF new
  <2>3. Cardinality(CtGot \cup new) = Cardinality(CtGot) + Cardinality(new)
    BY <1>11, <2>2, DisjointSum
  <2> QED BY <1>5, <1>10, <2>1, <2>2, <2>3
<1>13. ASSUME NEW b \in CtPositions
       PROVE  /\ b.file < f => CtBefore(b) < B
              /\ b.file = f => CtBefore(b) = B + b.at /\ b.at \in 0..size - 1
              /\ b.file > f => CtBefore(b) >= B + size
              /\ b.file \in Nat /\ CtBefore(b) \in Nat
  BY <1>1, <1>8, ByteOf DEF B
<1>14. CtShape'
  <2>1. ctLength' \in Nat
    <3> HIDE DEF size, full, rest
    <3> QED BY <1>1, <1>5
  <2>2. ctNext' \in 1..Len(ctFiles) + 1
    <3> HIDE DEF size, full, rest
    <3> QED BY <1>1, <1>2
  <2> QED BY <1>1, <1>2, <1>7, <2>1, <2>2 DEF CtShape, CtTypeOK
<1> HIDE DEF r, new
\* What there is of the bytes asked for, up to this file.
<1>15. ASSUME NEW b \in CtPositions, b.file = f PROVE b.at >= ctOffset <=> CtBefore(b) >= ctAsked
  <2> DEFINE at == b.at
             x == CtBefore(b)
  <2>1. x = B + at /\ at \in 0..size - 1
    BY <1>13, <1>15
  <2> HIDE DEF at, x, size
  <2>2. at >= ctOffset <=> x >= ctAsked
    BY <1>1, <1>4, <2>1
  <2> QED BY <2>2 DEF at, x
<1>16. CASE ~full
  <2>1. end = size /\ ctLength' = ctLength + rest
    BY <1>1, <1>2, <1>16 DEF end
  <2>2. ASSUME NEW b \in CtPositions PROVE b \in CtGot \cup new <=> b.file < f + 1 /\ CtBefore(b) >= ctAsked
    <3>1. b.file < f + 1 <=> b.file < f \/ b.file = f
      BY <1>1, <1>13
    <3>2. b \in new <=> b.file = f /\ b.at >= ctOffset
      <4>1. b \in new <=> b.file = f /\ b.at \in ctOffset..end - 1
        BY <1>9
      <4>2. ASSUME b.file = f PROVE b.at \in ctOffset..end - 1 <=> b.at >= ctOffset
        <5> DEFINE at == b.at
        <5>1. at \in 0..size - 1
          BY <1>13, <4>2
        <5> HIDE DEF at, size
        <5>2. at \in ctOffset..end - 1 <=> at >= ctOffset
          BY <1>1, <2>1, <5>1
        <5> QED BY <5>2 DEF at
      <4> QED BY <4>1, <4>2
    <3>3. b \in CtGot <=> b.file < f /\ CtBefore(b) >= ctAsked
      BY <1>4 DEF FilesBefore
    <3> QED BY <1>15, <3>1, <3>2, <3>3
  <2>3. CtGot \cup new = {b \in FilesBefore(f + 1) : CtBefore(b) >= ctAsked}
    <3>1. CtGot \cup new \subseteq CtPositions
      BY <1>9 DEF CtGot
    <3> QED BY <2>2, <3>1 DEF FilesBefore
  <2>4. BytesBefore(f + 1) + 0 = ctAsked + ctLength'
    <3>1. ctLength' = ctLength + (size - ctOffset)
      BY <2>1
    <3> HIDE DEF size, rest, full
    <3>2. B + size = ctAsked + ctLength + (size - ctOffset)
      BY <1>1, <1>4
    <3> DEFINE z == BytesBefore(f + 1)
               m == ctLength'
    <3>3. z = B + size /\ m = ctLength + (size - ctOffset)
      BY <1>4, <3>1
    <3>4. ctAsked \in Nat /\ ctLength \in Nat /\ size \in Nat /\ ctOffset \in Nat /\ B \in Nat
      BY <1>1, <1>4
    <3> HIDE DEF z, m
    <3>5. z + 0 = ctAsked + m
      BY <3>2, <3>3, <3>4
    <3> QED BY <3>5 DEF z, m
  <2>5. ctMax < 0 \/ ctLength' < ctMax
    BY <1>1, <1>4, <1>5, <1>16, <2>1
  <2>6. CtReading'
    BY <1>2, <1>3, <1>10, <2>3, <2>4, <2>5 DEF CtReading
  <2> QED BY <1>2, <1>12, <1>14, <1>16, <2>6 DEF CtInv
<1>17. CASE full
  <2>1. end = size - (ctLength + rest - ctMax)
    BY <1>17 DEF end
  <2>2. B + end = ctAsked + ctMax /\ ctMax > 0 /\ ctMax \in Nat /\ B <= ctAsked + ctLength /\ ctLength < ctMax /\ B + size >= ctAsked + ctMax
    <3> HIDE DEF size
    <3>1. ctMax > 0 /\ ctMax \in Nat /\ ctLength < ctMax /\ ctLength + rest >= ctMax
      BY <1>1, <1>4, <1>17
    <3> QED BY <1>1, <1>4, <2>1, <3>1
  <2>3. ASSUME NEW b \in CtPositions
        PROVE  b \in CtGot \cup new <=> CtBefore(b) >= ctAsked /\ CtBefore(b) < ctAsked + ctMax
    <3>1. CASE b.file < f
      <4>1. CtBefore(b) < ctAsked + ctMax
        BY <1>1, <1>4, <1>13, <2>2, <3>1
      <4>2. b \notin new
        BY <1>1, <1>9, <1>13, <3>1
      <4> QED BY <1>4, <3>1, <4>1, <4>2 DEF FilesBefore
    <3>2. CASE b.file = f
      <4>1. b \notin CtGot
        BY <1>1, <1>4, <3>2 DEF FilesBefore
      <4>2. b \in new <=> b.at >= ctOffset /\ b.at < end
        <5> DEFINE at == b.at
        <5>1. at \in 0..size - 1
          BY <1>13, <3>2
        <5> HIDE DEF at, size, full, rest
        <5>2. at \in ctOffset..end - 1 <=> at >= ctOffset /\ at < end
          BY <1>1, <1>5, <5>1
        <5> QED BY <1>9, <3>2, <5>2 DEF at
      <4>3. b.at < end <=> CtBefore(b) < ctAsked + ctMax
        <5> DEFINE at == b.at
                   x == CtBefore(b)
        <5>1. x = B + at /\ at \in 0..size - 1
          BY <1>13, <3>2
        <5> HIDE DEF at, x, size, full, rest
        <5>2. at < end <=> x < ctAsked + ctMax
          BY <1>1, <1>4, <1>5, <2>2, <5>1
        <5> QED BY <5>2 DEF at, x
      <4> QED BY <1>15, <3>2, <4>1, <4>2, <4>3
    <3>3. CASE b.file > f
      <4>1. ~(CtBefore(b) < ctAsked + ctMax)
        BY <1>1, <1>4, <1>13, <2>2, <3>3
      <4>2. ~(b.file < f) /\ b.file # f
        BY <1>1, <1>13, <3>3
      <4> QED BY <1>4, <1>9, <4>1, <4>2 DEF FilesBefore
    <3>4. b.file \in Nat /\ f \in Nat
      BY <1>1, <1>13
    <3> QED BY <3>1, <3>2, <3>3, <3>4
  <2>4. CtGot \cup new = CtWanted
    <3>1. CtGot \cup new \subseteq CtPositions
      BY <1>9 DEF CtGot
    <3>2. ~(ctMax < 0)
      BY <2>2
    <3> QED BY <2>3, <3>1, <3>2 DEF CtWanted
  <2> QED BY <1>2, <1>3, <1>10, <1>12, <1>14, <1>17, <2>4 DEF CtInv
<1> QED BY <1>16, <1>17

\* ... and so does every step.
LEMMA CtStep == CtInv /\ [CtNext]_ctVars => CtInv'
<1> SUFFICES ASSUME CtInv, [CtNext]_ctVars PROVE CtInv'
  OBVIOUS
<1>1. CASE CatSkip
  BY <1>1, SkipStep
<1>2. CASE CatRead
  BY <1>2, ReadStep
<1>3. CASE CatEnd \/ CatFails
  BY <1>3, EndStep
<1>4. CASE UNCHANGED ctVars
  <2>1. UNCHANGED <<ctFiles, ctAsked, ctNext, ctOffset, ctMax, ctLength, ctReaders, ctDone, ctErr>>
    BY <1>4 DEF ctVars
  <2>2. /\ CtPositions' = CtPositions /\ CtWanted' = CtWanted
        /\ \A b : CtBefore(b)' = CtBefore(b)
        /\ \A g : FilesBefore(g)' = FilesBefore(g) /\ BytesBefore(g)' = BytesBefore(g)
    BY <2>1, CtSteady
  <2>3. CtGot' = CtGot
    BY <2>1, <2>2 DEF CtGot
  <2>4. CtShape'
    BY <2>1 DEF CtInv, CtShape, CtTypeOK
  <2>5. CtReading => CtReading'
    BY <2>1, <2>2, <2>3 DEF CtReading
  <2> QED BY <2>1, <2>2, <2>3, <2>4, <2>5 DEF CtInv
<1> QED BY <1>1, <1>2, <1>3, <1>4 DEF CtNext

\* cat has returned what was asked for when it ends, and of one file that is
\* what files read returns.
LEMMA CtEnds == CtInv => CtTypeOK /\ CtRight
<1> SUFFICES ASSUME CtInv PROVE CtTypeOK /\ CtRight
  OBVIOUS
<1>1. /\ CtTypeOK /\ ctFiles \in Seq(Nat) /\ ctAsked \in Nat /\ ctMax \in Nat \cup {-1}
      /\ ctLength = Cardinality(CtGot) /\ (ctDone /\ ~ctErr => CtGot = CtWanted)
  BY DEF CtInv, CtShape
<1> DEFINE r == FilesRead(ctFiles[1], ctAsked, ctMax)
<1>2. ASSUME Len(ctFiles) = 1, r.ok
      PROVE  CtWanted = {[file |-> 1, at |-> p] : p \in r.from..r.upTo - 1}
  <2> DEFINE size == ctFiles[1]
             end == IF ctMax >= 0 /\ ctAsked + ctMax < size THEN ctAsked + ctMax ELSE size
  <2>1. r.from = ctAsked /\ r.upTo = end /\ ctAsked <= size
    BY <1>2 DEF FilesRead
  <2>2. 1 \in 1..Len(ctFiles) /\ size \in Nat /\ BytesBefore(1) = 0
    <3>1. 1 \in 1..Len(ctFiles)
      BY <1>2
    <3>2. size \in Nat
      BY <1>1, <3>1, PositionsAre
    <3> QED BY <1>1, <3>1, <3>2, BytesAre
  <2>3. ASSUME NEW b \in CtPositions PROVE b.file = 1 /\ b.at \in 0..size - 1 /\ b = [file |-> 1, at |-> b.at] /\ CtBefore(b) = b.at
    <3>1. b.file \in 1..1 /\ b.at \in 0..ctFiles[b.file] - 1 /\ b = [file |-> b.file, at |-> b.at]
      BY <1>1, <1>2, PositionsAre
    <3>2. b.file = 1
      BY <3>1
    <3>3. CtBefore(b) = BytesBefore(b.file) + b.at
      BY <1>1, BeforeIs
    <3> QED BY <2>2, <3>1, <3>2, <3>3
  <2>4. Slice(1, 0, size) \subseteq CtPositions
    BY <1>1, <2>2, PositionsAre
  <2>5. end \in Nat /\ end <= size
    BY <1>1, <2>1, <2>2
  <2>6. \A p \in 0..size - 1 : p < end <=> (ctMax < 0 \/ p < ctAsked + ctMax)
    BY <1>1, <2>1, <2>2
  <2> HIDE DEF size, end, r
  <2>7. ASSUME NEW b \in CtWanted PROVE b \in {[file |-> 1, at |-> p] : p \in ctAsked..end - 1}
    <3>1. b \in CtPositions /\ CtBefore(b) >= ctAsked /\ (ctMax < 0 \/ CtBefore(b) < ctAsked + ctMax)
      BY DEF CtWanted
    <3>2. b.at \in 0..size - 1 /\ b = [file |-> 1, at |-> b.at] /\ CtBefore(b) = b.at
      BY <2>3, <3>1
    <3>3. b.at >= ctAsked /\ b.at < end
      BY <2>6, <3>1, <3>2
    <3>4. b.at \in ctAsked..end - 1
      BY <1>1, <2>2, <2>5, <3>2, <3>3
    <3> QED BY <3>2, <3>4
  <2>8. ASSUME NEW p \in ctAsked..end - 1 PROVE [file |-> 1, at |-> p] \in CtWanted
    <3> DEFINE b == [file |-> 1, at |-> p]
    <3>1. p \in 0..size - 1 /\ p < end /\ p >= ctAsked
      BY <1>1, <2>2, <2>5
    <3>2. b \in Slice(1, 0, size)
      BY <3>1 DEF Slice
    <3>3. b \in CtPositions /\ b.at = p
      BY <2>4, <3>2
    <3> HIDE DEF b
    <3>4. CtBefore(b) = p
      BY <2>3, <3>3
    <3>5. ctMax < 0 \/ p < ctAsked + ctMax
      BY <2>6, <3>1
    <3>6. b \in CtWanted
      BY <3>1, <3>3, <3>4, <3>5 DEF CtWanted
    <3> QED BY <3>6 DEF b
  <2>9. CtWanted = {[file |-> 1, at |-> p] : p \in ctAsked..end - 1}
    BY <2>7, <2>8
  <2> QED BY <2>1, <2>9
<1> HIDE DEF r
<1>3. ASSUME ctDone, ~ctErr
      PROVE  /\ CtGot = CtWanted /\ ctLength = Cardinality(CtWanted)
             /\ Len(ctFiles) = 1 /\ r.ok => CtWanted = {[file |-> 1, at |-> p] : p \in r.from..r.upTo - 1}
  BY <1>1, <1>2, <1>3
<1>4. CtRight
  BY <1>3 DEF CtRight, CtWanted, CtGot, r
<1> QED BY <1>1, <1>4

-----------------------------------------------------------------------------
(* files stat.  Sums, as their recursive equations say.                    *)

TotalUpTo(s, f) == f = [n \in 0..Len(s) |-> IF n = 0 THEN 0 ELSE f[n - 1] + s[n]]

\* The equations of WkTotal.
LEMMA TotalIs ==
    ASSUME NEW s \in Seq(Nat)
    PROVE  \E f \in [0..Len(s) -> Nat] : /\ f[0] = 0 /\ \A n \in 1..Len(s) : f[n] = f[n - 1] + s[n]
                                         /\ WkTotal(s) = f[Len(s)]
<1> DEFINE m == Len(s)
           V == Nat
           v == 0
           G == [x \in Nat \X V |-> IF x[1] \in 1..m THEN x[2] + s[x[1]] ELSE x[2]]
           total == CHOOSE f : TotalUpTo(s, f)
<1>1. WkTotal(s) = total[m]
  BY DEF WkTotal, TotalUpTo
<1>2. m \in Nat /\ \A n \in 1..m : s[n] \in Nat
  OBVIOUS
<1>3. G \in [Nat \X V -> V] /\ \A n \in 1..m, e \in V : G[<<n, e>>] = e + s[n]
  <2>1. ASSUME NEW x \in Nat \X V PROVE (IF x[1] \in 1..m THEN x[2] + s[x[1]] ELSE x[2]) \in V
    BY <1>2
  <2>2. ASSUME NEW n \in 1..m, NEW e \in V PROVE G[<<n, e>>] = e + s[n]
    <3>1. <<n, e>> \in Nat \X V
      BY <1>2
    <3> QED BY <3>1
  <2> QED BY <2>1, <2>2
<1>4. v \in V
  OBVIOUS
<1>5. V = Nat /\ v = 0
  OBVIOUS
<1> HIDE DEF G, total, m, V, v
<1>6. PICK f : f \in [0..m -> V] /\ f[0] = v /\ \A n \in 1..m : f[n] = G[<<n, f[n - 1]>>]
  <2>1. \E f : Follows(f, V, v, G, m)
    BY <1>2, <1>3, <1>4, Recursion
  <2> QED BY <2>1 DEF Follows
<1>7. \A n \in 1..m : f[n] = f[n - 1] + s[n]
  <2> SUFFICES ASSUME NEW n \in 1..m PROVE f[n] = f[n - 1] + s[n]
    OBVIOUS
  <2>1. n - 1 \in 0..m
    BY <1>2
  <2> QED BY <1>3, <1>6, <2>1
<1>8. TotalUpTo(s, f)
  <2>1. \A n \in 0..m : f[n] = IF n = 0 THEN 0 ELSE f[n - 1] + s[n]
    BY <1>2, <1>5, <1>6, <1>7
  <2> QED BY <1>6, <2>1 DEF TotalUpTo, m
<1>9. TotalUpTo(s, total)
  BY <1>8, Zenon DEF total
<1>10. \A n \in 0..m : total[n] = IF n = 0 THEN 0 ELSE total[n - 1] + s[n]
  BY <1>9 DEF TotalUpTo, m
<1> DEFINE S == {n \in 0..m : total[n] = f[n]}
<1>11. 0 \in S
  BY <1>2, <1>5, <1>6, <1>10
<1>12. ASSUME NEW n \in 1..m, n - 1 \in S PROVE n \in S
  <2>1. n # 0 /\ n \in 0..m
    BY <1>2
  <2>2. total[n] = total[n - 1] + s[n] /\ total[n - 1] = f[n - 1]
    BY <1>10, <1>12, <2>1
  <2> QED BY <1>7, <2>1, <2>2
<1> HIDE DEF S
<1>13. 0..m \subseteq S
  BY <1>2, <1>11, <1>12, UpTo
<1>14. total[m] = f[m]
  BY <1>2, <1>13 DEF S
<1> QED BY <1>1, <1>5, <1>6, <1>7, <1>14 DEF m

\* The sum of a sequence is that of all but its last, and its last.
LEMMA TotalStep ==
    ASSUME NEW n \in Nat, NEW s \in Seq(Nat), NEW t \in Seq(Nat), Len(s) = n + 1, Len(t) = n,
           \A i \in 1..n : t[i] = s[i]
    PROVE  WkTotal(s) = WkTotal(t) + s[n + 1]
<1>1. PICK f \in [0..n + 1 -> Nat] : f[0] = 0 /\ (\A k \in 1..n + 1 : f[k] = f[k - 1] + s[k]) /\ WkTotal(s) = f[n + 1]
  BY TotalIs
<1>2. PICK g \in [0..n -> Nat] : g[0] = 0 /\ (\A k \in 1..n : g[k] = g[k - 1] + t[k]) /\ WkTotal(t) = g[n]
  BY TotalIs
<1> DEFINE S == {k \in Nat : f[k] = g[k]}
<1>3. 0 \in S
  BY <1>1, <1>2
<1>4. ASSUME NEW k \in 1..n, k - 1 \in S PROVE k \in S
  <2>1. k \in 1..n + 1 /\ f[k - 1] = g[k - 1] /\ t[k] = s[k]
    BY <1>4
  <2> QED BY <1>1, <1>2, <2>1
<1> HIDE DEF S
<1>5. 0..n \subseteq S
  BY <1>3, <1>4, UpTo
<1>6. f[n] = g[n]
  BY <1>5 DEF S
<1>7. f[n + 1] = f[(n + 1) - 1] + s[n + 1] /\ (n + 1) - 1 = n
  BY <1>1
<1> QED BY <1>1, <1>2, <1>6, <1>7

\* The sum of a sequence of numbers is one.
LEMMA TotalType ==
    ASSUME NEW s \in Seq(Nat) PROVE WkTotal(s) \in Nat /\ (Len(s) = 0 => WkTotal(s) = 0)
<1>1. PICK f \in [0..Len(s) -> Nat] : f[0] = 0 /\ WkTotal(s) = f[Len(s)]
  BY TotalIs
<1>2. Len(s) \in Nat
  OBVIOUS
<1>3. Len(s) \in 0..Len(s)
  BY <1>2
<1> QED BY <1>1, <1>3

\* The sum below c of what is in H, from the sums below its links.
SumStep(H, g, c) ==
    WkSizes[c] + WkTotal([i \in 1..Len(RfLinks[c]) |-> IF RfLinks[c][i] \in H THEN g[RfLinks[c][i]] ELSE 0])

\* The links of a node and its size.
LEMMA LinksAre ==
    ASSUME NEW c \in RfCids
    PROVE  /\ RfLinks[c] \in Seq(RfCids) /\ Len(RfLinks[c]) \in Nat
           /\ \A i \in 1..Len(RfLinks[c]) : RfLinks[c][i] \in RfCids /\ RfLinks[c][i] \in Kids(c)
           /\ WkSizes[c] \in Nat /\ WkSizes[c] > 0
<1>1. RfLinks[c] \in Seq(RfCids)
  BY HeightIs
<1>2. DOMAIN RfLinks[c] = 1..Len(RfLinks[c]) /\ Len(RfLinks[c]) \in Nat
  BY <1>1
<1>3. WkSizes[c] \in Nat /\ WkSizes[c] > 0
  BY WalkAssumption
<1> QED BY <1>1, <1>2, <1>3 DEF Kids

\* One round of WkSum is a number if it is one below, ...
LEMMA SumStepType ==
    ASSUME NEW H, NEW g, NEW c \in RfCids, \A x \in Kids(c) : g[x] \in Nat
    PROVE  SumStep(H, g, c) \in Nat
<1> DEFINE s == [i \in 1..Len(RfLinks[c]) |-> IF RfLinks[c][i] \in H THEN g[RfLinks[c][i]] ELSE 0]
<1>1. \A i \in 1..Len(RfLinks[c]) : (IF RfLinks[c][i] \in H THEN g[RfLinks[c][i]] ELSE 0) \in Nat
  BY LinksAre
<1>2. s \in Seq(Nat)
  BY <1>1, LinksAre
<1> HIDE DEF s
<1>3. WkTotal(s) \in Nat
  BY <1>2, TotalType
<1> QED BY <1>3, LinksAre DEF SumStep, s

\* ... and depends on what is below only.
LEMMA SumStepSame ==
    ASSUME NEW H, NEW g, NEW h, NEW c \in RfCids, \A x \in Kids(c) : g[x] = h[x]
    PROVE  SumStep(H, g, c) = SumStep(H, h, c)
<1>1. \A i \in 1..Len(RfLinks[c]) : g[RfLinks[c][i]] = h[RfLinks[c][i]]
  BY LinksAre
<1>2. [i \in 1..Len(RfLinks[c]) |-> IF RfLinks[c][i] \in H THEN g[RfLinks[c][i]] ELSE 0]
      = [i \in 1..Len(RfLinks[c]) |-> IF RfLinks[c][i] \in H THEN h[RfLinks[c][i]] ELSE 0]
  BY <1>1
<1> QED BY <1>2 DEF SumStep

SumEq(H, f) == f = [x \in RfCids |-> SumStep(H, f, x)]

\* There is such a sum: after as many rounds as there are heights.
LEMMA SumExists ==
    ASSUME NEW H
    PROVE  \E f : SumEq(H, f)
<1> DEFINE V == [RfCids -> Nat]
           v == [c \in RfCids |-> 0]
           G == [p \in Nat \X V |-> [c \in RfCids |-> SumStep(H, p[2], c)]]
<1>1. v \in V
  OBVIOUS
<1>2. ASSUME NEW g \in V PROVE [c \in RfCids |-> SumStep(H, g, c)] \in V
  <2>1. ASSUME NEW c \in RfCids PROVE SumStep(H, g, c) \in Nat
    BY KidsAre, SumStepType
  <2> QED BY <2>1
<1>3. G \in [Nat \X V -> V]
  BY <1>2
<1>4. ASSUME NEW n \in Nat, NEW g \in V PROVE G[<<n, g>>] = [c \in RfCids |-> SumStep(H, g, c)]
  <2>1. <<n, g>> \in Nat \X V
    OBVIOUS
  <2> QED BY <2>1
<1>5. Size \in Nat
  BY DepthIs
<1> HIDE DEF G, v
<1>6. PICK f : f \in [0..Size -> V] /\ f[0] = v /\ \A n \in 1..Size : f[n] = G[<<n, f[n - 1]>>]
  <2> HIDE DEF V
  <2>1. \E f : Follows(f, V, v, G, Size)
    BY <1>1, <1>3, <1>5, Recursion
  <2> QED BY <2>1 DEF Follows
<1>7. ASSUME NEW n \in 1..Size PROVE f[n] = [c \in RfCids |-> SumStep(H, f[n - 1], c)]
  <2>1. n \in Nat /\ n - 1 \in 0..Size
    BY <1>5
  <2> HIDE DEF V
  <2>2. f[n - 1] \in V
    BY <1>6, <2>1
  <2> QED BY <1>4, <1>6, <2>1, <2>2, Zenon
<1> DEFINE S == {n \in Nat : n <= Size => \A x \in RfCids : Height[x] < n => f[n][x] = SumStep(H, f[n], x)}
<1>8. 0 \in S
  <2>1. \A x \in RfCids : Height[x] \in 0..Size - 1
    BY HeightIs
  <2> QED BY <1>5, <2>1
<1>9. ASSUME NEW n \in 1..Size, n - 1 \in S PROVE n \in S
  <2> SUFFICES ASSUME NEW x \in RfCids, Height[x] < n PROVE f[n][x] = SumStep(H, f[n], x)
    BY <1>5
  <2>1. f[n][x] = SumStep(H, f[n - 1], x)
    BY <1>7
  <2>2. ASSUME NEW k \in Kids(x) PROVE f[n - 1][k] = f[n][k]
    <3>1. k \in RfCids /\ Height[k] < n - 1
      BY KidsAre
    <3>2. f[n - 1][k] = SumStep(H, f[n - 1], k)
      BY <1>5, <1>9, <3>1
    <3>3. f[n][k] = SumStep(H, f[n - 1], k)
      BY <1>7, <3>1
    <3> QED BY <3>2, <3>3
  <2> QED BY <2>1, <2>2, SumStepSame
<1> HIDE DEF S
<1>10. 0..Size \subseteq S
  BY <1>5, <1>8, <1>9, UpTo
<1>11. ASSUME NEW x \in RfCids PROVE f[Size][x] = SumStep(H, f[Size], x)
  <2>1. Height[x] < Size
    BY <1>5, HeightIs
  <2>2. Size \in S
    BY <1>5, <1>10
  <2> QED BY <1>5, <2>1, <2>2 DEF S
<1>12. f[Size] \in V
  BY <1>5, <1>6
<1>13. f[Size] = [x \in RfCids |-> SumStep(H, f[Size], x)]
  BY <1>11, <1>12
<1> QED BY <1>13 DEF SumEq

\* The equations of WkSum.
LEMMA SumIs ==
    ASSUME NEW H
    PROVE  \E f \in [RfCids -> Nat] : /\ \A c \in RfCids : f[c] = SumStep(H, f, c)
                                      /\ \A c : WkSum(H, c) = f[c]
<1> DEFINE sum == CHOOSE f : SumEq(H, f)
<1>1. \A c : WkSum(H, c) = sum[c]
  BY DEF WkSum, SumEq, SumStep
<1>2. SumEq(H, sum)
  BY SumExists, Zenon
<1> HIDE DEF sum
<1>3. DOMAIN sum = RfCids /\ sum = [c \in RfCids |-> sum[c]] /\ \A c \in RfCids : sum[c] = SumStep(H, sum, c)
  BY <1>2 DEF SumEq
<1>4. Size \in Nat
  BY DepthIs
<1> DEFINE S == {n \in Nat : \A x \in RfCids : Height[x] < n => sum[x] \in Nat}
<1>5. 0 \in S
  <2>1. \A x \in RfCids : Height[x] \in 0..Size - 1
    BY HeightIs
  <2> QED BY <1>4, <2>1
<1>6. ASSUME NEW n \in 1..Size, n - 1 \in S PROVE n \in S
  <2> SUFFICES ASSUME NEW x \in RfCids, Height[x] < n PROVE sum[x] \in Nat
    BY <1>4
  <2>1. \A k \in Kids(x) : k \in RfCids /\ Height[k] < n - 1
    BY KidsAre
  <2>2. \A k \in Kids(x) : sum[k] \in Nat
    BY <1>6, <2>1
  <2>3. SumStep(H, sum, x) \in Nat
    BY <2>2, SumStepType
  <2> QED BY <1>3, <2>3
<1> HIDE DEF S
<1>7. 0..Size \subseteq S
  BY <1>4, <1>5, <1>6, UpTo
<1>8. ASSUME NEW x \in RfCids PROVE sum[x] \in Nat
  <2>1. Height[x] < Size
    BY <1>4, HeightIs
  <2>2. Size \in S
    BY <1>4, <1>7
  <2> QED BY <2>1, <2>2 DEF S
<1>9. sum \in [RfCids -> Nat]
  BY <1>3, <1>8
<1> QED BY <1>1, <1>3, <1>9

Term(H, x) == IF x \in H THEN WkSum(H, x) ELSE 0

\* It is a number, link or node.
LEMMA SumType == ASSUME NEW H, NEW x \in RfCids PROVE WkSum(H, x) \in Nat /\ Term(H, x) \in Nat
BY SumIs DEF Term

\* What a node adds up to, link by link, and in the end.
LEMMA PartIs ==
    ASSUME NEW H, NEW c \in RfCids, NEW n \in 0..Len(RfLinks[c])
    PROVE  /\ Part(H, c, n) \in Nat /\ Part(H, c, n) > 0
           /\ n = 0 => Part(H, c, n) = WkSizes[c]
           /\ n > 0 => Part(H, c, n) = Part(H, c, n - 1) + Term(H, RfLinks[c][n]) /\ RfLinks[c][n] \in RfCids
           /\ n = Len(RfLinks[c]) => Part(H, c, n) = WkSum(H, c)
<1> DEFINE T(k) == [i \in 1..k |-> Term(H, RfLinks[c][i])]
<1>1. /\ Len(RfLinks[c]) \in Nat /\ WkSizes[c] \in Nat /\ WkSizes[c] > 0
      /\ \A i \in 1..Len(RfLinks[c]) : RfLinks[c][i] \in RfCids /\ RfLinks[c][i] \in Kids(c)
  BY LinksAre
<1>2. \A k : Part(H, c, k) = WkSizes[c] + WkTotal(T(k))
  BY DEF Part, Term
<1>3. ASSUME NEW k \in 0..Len(RfLinks[c]) PROVE T(k) \in Seq(Nat) /\ Len(T(k)) = k
  <2>1. \A i \in 1..k : Term(H, RfLinks[c][i]) \in Nat
    BY <1>1, SumType
  <2> QED BY <1>1, <2>1
<1>4. WkTotal(T(n)) \in Nat /\ (n = 0 => WkTotal(T(n)) = 0)
  <2> HIDE DEF T
  <2> QED BY <1>3, TotalType
<1>5. Part(H, c, n) \in Nat /\ Part(H, c, n) > 0 /\ (n = 0 => Part(H, c, n) = WkSizes[c])
  <2> DEFINE w == WkTotal(T(n))
             p == Part(H, c, n)
  <2>1. w \in Nat /\ (n = 0 => w = 0) /\ p = WkSizes[c] + w
    BY <1>2, <1>4
  <2> HIDE DEF w, p
  <2>2. p \in Nat /\ p > 0 /\ (n = 0 => p = WkSizes[c])
    BY <1>1, <2>1
  <2> QED BY <2>2 DEF p
<1>6. ASSUME n > 0 PROVE Part(H, c, n) = Part(H, c, n - 1) + Term(H, RfLinks[c][n]) /\ RfLinks[c][n] \in RfCids
  <2>1. n - 1 \in 0..Len(RfLinks[c]) /\ (n - 1) + 1 = n /\ n - 1 \in Nat /\ n \in 1..Len(RfLinks[c])
    BY <1>1, <1>6
  <2>2. \A i \in 1..n - 1 : T(n - 1)[i] = T(n)[i]
    BY <2>1
  <2>3. T(n)[n] = Term(H, RfLinks[c][n])
    BY <2>1
  <2>4. T(n) \in Seq(Nat) /\ T(n - 1) \in Seq(Nat) /\ Len(T(n)) = (n - 1) + 1 /\ Len(T(n - 1)) = n - 1
    BY <1>3, <2>1
  <2>5. WkTotal(T(n - 1)) \in Nat
    BY <2>4, TotalType
  <2>6. Term(H, RfLinks[c][n]) \in Nat /\ RfLinks[c][n] \in RfCids
    BY <1>1, <2>1, SumType
  <2>7. WkTotal(T(n)) = WkTotal(T(n - 1)) + T(n)[(n - 1) + 1]
    <3> HIDE DEF T
    <3> QED BY <2>1, <2>2, <2>4, TotalStep
  <2>8. T(n)[(n - 1) + 1] = Term(H, RfLinks[c][n])
    BY <2>1, <2>3
  <2> DEFINE w == WkTotal(T(n - 1))
             t == Term(H, RfLinks[c][n])
             p == Part(H, c, n)
             q == Part(H, c, n - 1)
  <2>9. w \in Nat /\ t \in Nat /\ p = WkSizes[c] + (w + t) /\ q = WkSizes[c] + w
    <3> HIDE DEF T
    <3> QED BY <1>2, <2>5, <2>6, <2>7, <2>8
  <2> HIDE DEF w, t, p, q
  <2>10. p = q + t
    BY <1>1, <2>9
  <2> QED BY <2>6, <2>10 DEF p, q, t
<1>7. ASSUME n = Len(RfLinks[c]) PROVE Part(H, c, n) = WkSum(H, c)
  <2>1. PICK f \in [RfCids -> Nat] : (\A x \in RfCids : f[x] = SumStep(H, f, x)) /\ \A x : WkSum(H, x) = f[x]
    BY SumIs
  <2>2. Part(H, c, n) = SumStep(H, f, c)
    BY <1>7, <2>1 DEF Part, SumStep
  <2> QED BY <2>1, <2>2
<1> QED BY <1>5, <1>6, <1>7

\* How far a frame is: when it begins, ...
LEMMA SizedFrame ==
    ASSUME NEW H, NEW quiet \in BOOLEAN, NEW c \in RfCids
    PROVE  Sized(Frame(c), 0, H, quiet) /\ FrameLinks(Frame(c)) /\ Links(Frame(c)) = 0
           /\ Frame(c) \in Frames /\ Frame(c).c = c
<1> DEFINE f == Frame(c)
<1>1. f = [c |-> c, left |-> RfLinks[c], local |-> TRUE, size |-> WkSizes[c]]
  BY DEF Frame
<1>2. f.c = c /\ f.left = RfLinks[c] /\ f.local = TRUE /\ f.size = WkSizes[c]
  BY <1>1
<1>3. Len(RfLinks[c]) \in Nat /\ 0 \in 0..Len(RfLinks[c]) /\ WkSizes[c] \in Nat /\ RfLinks[c] \in Seq(RfCids)
  BY LinksAre
<1>4. Part(H, c, 0) = WkSizes[c] /\ Part(RfCids, c, 0) = WkSizes[c]
  BY <1>3, PartIs
<1> HIDE DEF f
<1>5. Sized(f, 0, H, quiet)
  <2>1. f.size <= Part(RfCids, f.c, 0) /\ f.size = Part(RfCids, f.c, 0) /\ f.size = Part(H, f.c, 0)
    BY <1>2, <1>3, <1>4
  <2> QED BY <1>2, <2>1, Zenon DEF Sized
<1>6. Links(f) = 0 /\ FrameLinks(f)
  BY <1>2, <1>3 DEF Links, FrameLinks
<1>7. f \in Frames
  BY <1>1, <1>3 DEF f, Frames
<1> QED BY <1>2, <1>5, <1>6, <1>7 DEF f

\* ... when a link leads to a block that is not there, ...
LEMMA SizedMissing ==
    ASSUME NEW H, NEW quiet \in BOOLEAN, NEW f, NEW g, f.c \in RfCids, NEW n \in 1..Len(RfLinks[f.c]),
           f.size \in Nat, Sized(f, n - 1, H, quiet), RfLinks[f.c][n] \notin H,
           g.c = f.c, g.size = f.size, g.local = FALSE
    PROVE  Sized(g, n, H, quiet)
<1> DEFINE c == f.c
           x == RfLinks[c][n]
           p == Part(RfCids, c, n - 1)
           q == Part(RfCids, c, n)
           s == WkSum(RfCids, x)
           z == f.size
<1>1. Len(RfLinks[c]) \in Nat /\ n - 1 \in 0..Len(RfLinks[c]) /\ n \in 0..Len(RfLinks[c]) /\ n > 0 /\ c \in RfCids
  BY LinksAre
<1>2. p \in Nat /\ q = p + s /\ x \in RfCids /\ Part(H, c, n) = Part(H, c, n - 1)
  <2>1. p \in Nat /\ q = p + Term(RfCids, x) /\ x \in RfCids /\ Part(H, c, n) = Part(H, c, n - 1) + Term(H, x) /\ Part(H, c, n - 1) \in Nat
    <3> HIDE DEF c
    <3>1. p \in Nat /\ q = p + Term(RfCids, x) /\ x \in RfCids
      <4>1. p \in Nat
        BY <1>1, PartIs
      <4>2. q = p + Term(RfCids, x) /\ x \in RfCids
        BY <1>1, PartIs
      <4> QED BY <4>1, <4>2
    <3>2. Part(H, c, n) = Part(H, c, n - 1) + Term(H, x) /\ Part(H, c, n - 1) \in Nat
      BY <1>1, PartIs
    <3> QED BY <3>1, <3>2
  <2>2. Term(RfCids, x) = s /\ Term(H, x) = 0
    BY <2>1 DEF Term
  <2> QED BY <2>1, <2>2
<1>3. s \in Nat /\ s > 0
  <2>1. Len(RfLinks[x]) \in 0..Len(RfLinks[x])
    BY <1>2, LinksAre
  <2> QED BY <1>2, <2>1, PartIs
<1>4. z <= p /\ (quiet => z = Part(H, c, n - 1))
  BY DEF Sized
<1> HIDE DEF p, q, s, z
<1>5. z \in Nat
  BY DEF z
<1>6. z <= q /\ z # q
  BY <1>2, <1>3, <1>4, <1>5
<1>7. g.size <= Part(RfCids, g.c, n) /\ g.size # Part(RfCids, g.c, n) /\ (quiet => g.size = Part(H, g.c, n))
  BY <1>2, <1>4, <1>6 DEF z, q
<1> QED BY <1>7, Zenon DEF Sized

\* ... and when the walk below a link has come back.
LEMMA SizedReturn ==
    ASSUME NEW H, NEW quiet \in BOOLEAN, NEW f, NEW t, NEW g, f.c \in RfCids, NEW n \in 1..Len(RfLinks[f.c]),
           f.size \in Nat, t.size \in Nat, f.local \in BOOLEAN, t.local \in BOOLEAN,
           Sized(f, n - 1, H, quiet), t.c = RfLinks[f.c][n], Sized(t, Len(RfLinks[t.c]), H, quiet),
           quiet => t.c \in H,
           g.c = f.c, g.size = f.size + t.size, g.local = (f.local /\ t.local)
    PROVE  Sized(g, n, H, quiet)
<1> DEFINE c == f.c
           x == t.c
           p == Part(RfCids, c, n - 1)
           q == Part(RfCids, c, n)
           s == WkSum(RfCids, x)
           z == f.size
           y == t.size
           hp == Part(H, c, n - 1)
           hq == Part(H, c, n)
           hs == WkSum(H, x)
<1>1. Len(RfLinks[c]) \in Nat /\ n - 1 \in 0..Len(RfLinks[c]) /\ n \in 0..Len(RfLinks[c]) /\ n > 0 /\ c \in RfCids /\ x = RfLinks[c][n]
  BY LinksAre
<1>2. /\ p \in Nat /\ q = p + s /\ x \in RfCids /\ s \in Nat
      /\ hp \in Nat /\ hs \in Nat /\ (quiet => hq = hp + hs)
  <2>1. /\ p \in Nat /\ q = p + Term(RfCids, x) /\ x \in RfCids
        /\ hq = hp + Term(H, x) /\ hp \in Nat
    <3> HIDE DEF c, x
    <3>1. p \in Nat /\ q = p + Term(RfCids, x) /\ x \in RfCids
      <4>1. p \in Nat
        BY <1>1, PartIs
      <4>2. q = p + Term(RfCids, x) /\ x \in RfCids
        BY <1>1, PartIs
      <4> QED BY <4>1, <4>2
    <3>2. hq = hp + Term(H, x) /\ hp \in Nat
      BY <1>1, PartIs
    <3> QED BY <3>1, <3>2
  <2>2. Term(RfCids, x) = s /\ (quiet => Term(H, x) = hs)
    BY <2>1 DEF Term
  <2>3. s \in Nat /\ hs \in Nat
    BY <2>1, SumType
  <2> QED BY <2>1, <2>2, <2>3
<1>3. Part(RfCids, x, Len(RfLinks[x])) = s /\ Part(H, x, Len(RfLinks[x])) = hs
  <2>1. Len(RfLinks[x]) \in 0..Len(RfLinks[x])
    BY <1>2, LinksAre
  <2> QED BY <1>2, <2>1, PartIs
<1>4. z <= p /\ y <= s /\ (quiet => z = hp /\ y = hs) /\ (f.local <=> z = p) /\ (t.local <=> y = s)
  BY <1>3 DEF Sized
<1>5. z \in Nat /\ y \in Nat
  OBVIOUS
<1> HIDE DEF p, q, s, z, y, hp, hq, hs
<1>6. z + y <= q /\ (z + y = q <=> z = p /\ y = s) /\ (quiet => z + y = hq)
  BY <1>2, <1>4, <1>5
<1>7. g.size <= Part(RfCids, g.c, n) /\ (g.size = Part(RfCids, g.c, n) <=> z = p /\ y = s) /\ (quiet => g.size = Part(H, g.c, n))
  BY <1>6 DEF z, y, q, hq
<1>8. g.local <=> z = p /\ y = s
  BY <1>4, Zenon
<1> QED BY <1>7, <1>8, Zenon DEF Sized

\* A frame that goes on to its next link, ...
LEMMA NextLink ==
    ASSUME NEW f \in Frames, FrameLinks(f), f.left # <<>>, NEW g, g.c = f.c, g.left = Tail(f.left)
    PROVE  /\ Links(g) = Links(f) + 1 /\ Links(g) \in 1..Len(RfLinks[f.c]) /\ FrameLinks(g)
           /\ RfLinks[f.c][Links(g)] = Head(f.left) /\ Head(f.left) \in RfCids /\ Links(f) \in Nat
           /\ f.c \in RfCids /\ Head(f.left) \in Kids(f.c)
<1> DEFINE c == f.c
           l == f.left
           n == Len(RfLinks[c])
           m == Len(l)
           k == Links(f)
<1>1. c \in RfCids /\ l \in Seq(RfCids) /\ n \in Nat
  BY LinksAre DEF Frames
<1>2. m \in Nat /\ m > 0 /\ Len(Tail(l)) = m - 1 /\ Head(l) = l[1] /\ \A i \in 1..m - 1 : Tail(l)[i] = l[i + 1]
  BY <1>1
<1>3. k = n - m /\ k \in Nat /\ \A i \in 1..m : l[i] = RfLinks[c][k + i]
  BY DEF Links, FrameLinks
<1>4. Links(g) = n - (m - 1)
  BY <1>2 DEF Links
<1> HIDE DEF c, l, n, m, k
<1>5. Links(g) = k + 1 /\ k + 1 \in 1..n
  BY <1>1, <1>2, <1>3, <1>4
<1>6. Head(l) = RfLinks[c][k + 1]
  BY <1>2, <1>3
<1>7. Head(l) \in RfCids /\ Head(l) \in Kids(c)
  <2>1. RfLinks[c][k + 1] \in RfCids /\ RfLinks[c][k + 1] \in Kids(c)
    BY <1>1, <1>5, LinksAre DEF n
  <2> QED BY <1>6, <2>1
<1>8. \A i \in 1..m - 1 : Tail(l)[i] = RfLinks[c][(k + 1) + i]
  <2> SUFFICES ASSUME NEW i \in 1..m - 1 PROVE Tail(l)[i] = RfLinks[c][(k + 1) + i]
    OBVIOUS
  <2>1. i + 1 \in 1..m /\ k + (i + 1) = (k + 1) + i
    BY <1>2, <1>3
  <2>2. Tail(l)[i] = l[i + 1] /\ l[i + 1] = RfLinks[c][k + (i + 1)]
    BY <1>2, <1>3, <2>1
  <2> QED BY <2>1, <2>2
<1>9. FrameLinks(g)
  <2>1. g.left = Tail(l) /\ g.c = c
    BY DEF l, c
  <2>2. Links(g) \in Nat
    BY <1>3, <1>5
  <2>3. Len(g.left) = m - 1
    BY <1>2, <2>1
  <2>4. ASSUME NEW i \in 1..Len(g.left) PROVE g.left[i] = RfLinks[g.c][Links(g) + i]
    BY <1>5, <1>8, <2>1, <2>3
  <2> QED BY <2>2, <2>4 DEF FrameLinks
<1> QED BY <1>1, <1>3, <1>5, <1>6, <1>7, <1>9 DEF c, l, n, k

\* ... and one that is through.
LEMMA NoLink ==
    ASSUME NEW f \in Frames, f.left = <<>>
    PROVE  Links(f) = Len(RfLinks[f.c]) /\ f.c \in RfCids /\ Len(RfLinks[f.c]) \in Nat
<1>1. f.c \in RfCids /\ Len(f.left) = 0
  BY DEF Frames
<1> QED BY <1>1, LinksAre DEF Links

\* What arrives or vanishes ends what is known of local blocks.
LEMMA SizedUnquiet ==
    ASSUME NEW f, NEW n, NEW H, NEW G, NEW quiet, Sized(f, n, H, quiet)
    PROVE  Sized(f, n, G, FALSE)
BY DEF Sized

\* The command begins a walk, answers or fails.
LEMMA StatStep ==
    ASSUME WkInv, NEW root \in RfCids, NEW withLocal \in BOOLEAN, NEW ok \in BOOLEAN,
           FilesStatCmd(root, withLocal, ok)
    PROVE  WkInv'
<1>1. /\ wkOut.st = "none" /\ wkHave \subseteq RfCids /\ wkOps \in 0..MaxBlockOps /\ wkOps' = wkOps
      /\ wkHave' = IF ok THEN wkHave \cup {root} ELSE wkHave
      /\ wkStack' = IF ok /\ withLocal THEN <<Frame(root)>> ELSE <<>>
      /\ wkOut' = IF ~ok THEN NoAnswer("error") ELSE IF withLocal THEN wkOut ELSE StatNode(root)
  BY DEF WkInv, FilesStatCmd
<1>2. wkHave' \subseteq RfCids /\ wkOps' \in 0..MaxBlockOps
  BY <1>1
<1>3. CASE ok /\ withLocal
  <2>1. wkStack' = <<Frame(root)>> /\ wkOut' = wkOut
    BY <1>1, <1>3
  <2> DEFINE f == Frame(root)
             h == wkHave'
             quiet == wkOps' = 0
  <2>2. Sized(f, 0, h, quiet) /\ FrameLinks(f) /\ Links(f) = 0 /\ f \in Frames /\ f.c = root
    BY SizedFrame
  <2>3. Height[root] + 1 <= Size
    BY HeightIs
  <2> HIDE DEF f
  <2>4. wkStack' \in Seq(Frames) /\ Len(wkStack') = 1 /\ wkStack'[1] = f
    BY <2>1, <2>2 DEF f
  <2>5. ASSUME NEW k \in 1..Len(wkStack') PROVE WkFrameOK(k)'
    <3>1. k = 1
      BY <2>4
    <3>2. wkStack'[k] = f /\ k = Len(wkStack') /\ ~(k < Len(wkStack'))
      BY <2>4, <3>1
    <3> QED BY <2>2, <2>3, <3>1, <3>2 DEF WkFrameOK
  <2>6. WkRight'
    BY <1>1, <2>1 DEF WkRight
  <2> QED BY <1>1, <1>2, <2>1, <2>4, <2>5, <2>6 DEF WkInv
<1>4. CASE ~(ok /\ withLocal)
  <2>1. wkStack' = <<>> /\ Len(wkStack') = 0
    BY <1>1, <1>4
  <2>2. wkOut'.st # "done"
    BY <1>1, <1>4 DEF NoAnswer, StatNode
  <2>3. wkStack' \in Seq(Frames) /\ 1..Len(wkStack') = {}
    BY <2>1
  <2> QED BY <1>2, <2>1, <2>2, <2>3 DEF WkInv, WkRight
<1> QED BY <1>3, <1>4

\* A sequence with one element replaced.
LEMMA Replaced ==
    ASSUME NEW S, NEW s \in Seq(S), NEW n \in 1..Len(s), NEW x \in S
    PROVE  LET r == [s EXCEPT ![n] = x] IN
           r \in Seq(S) /\ Len(r) = Len(s) /\ r[n] = x /\ \A k \in 1..Len(s) : k # n => r[k] = s[k]
OBVIOUS

\* The next link is followed or passed over.
LEMMA WalkStep ==
    ASSUME WkInv, NEW ok \in BOOLEAN, WalkBlock(ok)
    PROVE  WkInv'
<1> DEFINE n == Len(wkStack)
           f == wkStack[n]
           c == Head(f.left)
           g == [f EXCEPT !.left = Tail(@)]
           e == [g EXCEPT !.local = FALSE]
           rest == [wkStack EXCEPT ![n].left = Tail(@)]
           h == wkHave
           quiet == wkOps = 0
<1>1. /\ n \in Nat /\ n > 0 /\ n \in 1..n /\ f \in Frames /\ f.left # <<>> /\ DOMAIN wkStack = 1..n
      /\ wkStack \in Seq(Frames) /\ wkHave \subseteq RfCids /\ wkOps \in 0..MaxBlockOps
      /\ wkStack # <<>> /\ wkOut.st = "none" /\ \A k \in 1..n : WkFrameOK(k)
      /\ UNCHANGED <<wkHave, wkOps>>
  <2>1. wkStack \in Seq(Frames) /\ n > 0 /\ f.left # <<>>
    BY DEF WkInv, WalkBlock
  <2>2. n \in Nat /\ n \in 1..n /\ DOMAIN wkStack = 1..n /\ f \in Frames /\ wkStack # <<>>
    BY <2>1
  <2> QED BY <2>1, <2>2 DEF WkInv, WalkBlock
<1>2. /\ wkStack' = IF ~ok THEN <<>>
                    ELSE IF c \in wkHave THEN Append(rest, Frame(c))
                    ELSE [rest EXCEPT ![n].local = FALSE]
      /\ wkOut' = IF ok THEN wkOut ELSE NoAnswer("error")
  BY DEF WalkBlock
<1>3. FrameLinks(f) /\ Height[f.c] + n <= Size /\ Sized(f, Links(f), h, quiet)
  BY <1>1 DEF WkFrameOK
<1>4. /\ g.c = f.c /\ g.left = Tail(f.left) /\ g.size = f.size /\ g.local = f.local
      /\ e.c = f.c /\ e.left = Tail(f.left) /\ e.size = f.size /\ e.local = FALSE
      /\ g \in Frames /\ e \in Frames /\ f.size \in Nat
  <2>1. Tail(f.left) \in Seq(RfCids)
    BY <1>1 DEF Frames
  <2> QED BY <1>1, <2>1 DEF Frames
<1> HIDE DEF f, c, g, e
<1>5. /\ Links(g) = Links(f) + 1 /\ Links(g) \in 1..Len(RfLinks[f.c]) /\ FrameLinks(g)
      /\ RfLinks[f.c][Links(g)] = c /\ c \in RfCids /\ Links(f) \in Nat
      /\ f.c \in RfCids /\ c \in Kids(f.c)
  BY <1>1, <1>3, <1>4, NextLink DEF c
<1>6. Links(e) = Links(f) + 1 /\ FrameLinks(e)
  BY <1>1, <1>3, <1>4, NextLink
<1>7. Links(g) - 1 = Links(f) /\ Links(g) > 0
  BY <1>5
<1>8. rest \in Seq(Frames) /\ Len(rest) = n /\ rest[n] = g /\ \A k \in 1..n : k # n => rest[k] = wkStack[k]
  <2>1. rest = [wkStack EXCEPT ![n] = g]
    BY <1>1 DEF f, g
  <2>2. n \in 1..Len(wkStack) /\ Len(wkStack) = n
    BY <1>1
  <2> HIDE DEF rest, n
  <2>3. wkStack \in Seq(Frames) /\ n \in 1..Len(wkStack) /\ g \in Frames
    BY <1>1, <1>4, <2>2
  <2>4. LET r == [wkStack EXCEPT ![n] = g] IN
           r \in Seq(Frames) /\ Len(r) = Len(wkStack) /\ r[n] = g /\ \A k \in 1..Len(wkStack) : k # n => r[k] = wkStack[k]
    BY <2>3, Replaced
  <2> QED BY <2>1, <2>2, <2>4
<1>9. CASE ~ok
  <2>1. wkStack' = <<>> /\ wkOut'.st # "done"
    BY <1>2, <1>9 DEF NoAnswer
  <2>2. wkStack' \in Seq(Frames) /\ 1..Len(wkStack') = {}
    BY <2>1
  <2> QED BY <1>1, <2>1, <2>2 DEF WkInv, WkRight
<1>10. CASE ok /\ c \in wkHave
  <2> DEFINE t == Frame(c)
  <2>1. wkStack' = Append(rest, t) /\ wkOut' = wkOut
    BY <1>2, <1>10
  <2>2. Sized(t, 0, h, quiet) /\ FrameLinks(t) /\ Links(t) = 0 /\ t \in Frames /\ t.c = c
    BY <1>5, SizedFrame
  <2> HIDE DEF t, rest, n
  <2>3. wkStack' \in Seq(Frames) /\ Len(wkStack') = n + 1 /\ wkStack'[n + 1] = t /\ \A k \in 1..n : wkStack'[k] = rest[k]
    BY <1>1, <1>8, <2>1, <2>2
  <2>4. Height[c] + (n + 1) <= Size
    <3>1. Height[c] \in Nat /\ Height[f.c] \in Nat /\ Height[c] < Height[f.c]
      BY <1>5, KidsAre
    <3> QED BY <1>1, <1>3, <3>1, DepthIs
  <2>5. ASSUME NEW k \in 1..n + 1 PROVE WkFrameOK(k)'
    <3>1. CASE k = n + 1
      <4>1. wkStack'[k] = t /\ k = Len(wkStack') /\ ~(k < Len(wkStack'))
        BY <1>1, <2>3, <3>1
      <4>2. wkHave' = h /\ (wkOps' = 0 <=> quiet)
        BY <1>1
      <4> QED BY <1>1, <2>2, <2>4, <3>1, <4>1, <4>2 DEF WkFrameOK
    <3>2. CASE k = n
      <4>1. wkStack'[k] = g /\ ~(k = Len(wkStack')) /\ wkStack'[k + 1] = t
        BY <1>1, <1>8, <2>3, <3>2
      <4>2. Sized(g, Links(g) - 1, h, quiet)
        BY <1>3, <1>4, <1>7 DEF Sized
      <4>3. Height[g.c] + k <= Size /\ t.c = RfLinks[g.c][Links(g)] /\ t.c \in wkHave
        BY <1>3, <1>4, <1>5, <1>10, <2>2, <3>2
      <4> QED BY <1>1, <1>5, <1>7, <4>1, <4>2, <4>3 DEF WkFrameOK
    <3>3. CASE k < n
      <4>1. /\ wkStack'[k] = wkStack[k] /\ k \in 1..n /\ k + 1 \in 1..n
            /\ k # Len(wkStack') /\ k < Len(wkStack) /\ k # Len(wkStack) /\ wkStack'[k + 1].c = wkStack[k + 1].c
        <5>1. k \in 1..n /\ k + 1 \in 1..n /\ k # n /\ k # n + 1
          BY <1>1, <3>3
        <5>2. wkStack'[k] = wkStack[k]
          BY <1>8, <2>3, <5>1
        <5>3. wkStack'[k + 1] = rest[k + 1] /\ (k + 1 = n => rest[k + 1].c = wkStack[k + 1].c)
          BY <1>4, <1>8, <2>3, <5>1 DEF f
        <5>4. wkStack'[k + 1].c = wkStack[k + 1].c
          BY <1>8, <5>1, <5>3
        <5> QED BY <2>3, <3>3, <5>1, <5>2, <5>4 DEF n
      <4>2. WkFrameOK(k)
        BY <1>1, <4>1
      <4> QED BY <1>1, <4>1, <4>2 DEF WkFrameOK
    <3> QED BY <1>1, <3>1, <3>2, <3>3
  <2>6. WkRight'
    BY <1>1, <2>1 DEF WkRight
  <2>7. \A k \in 1..Len(wkStack') : WkFrameOK(k)'
    BY <2>3, <2>5
  <2> QED BY <1>1, <2>1, <2>3, <2>6, <2>7 DEF WkInv
<1>11. CASE ok /\ ~(c \in wkHave)
  <2>1. wkStack' = [rest EXCEPT ![n].local = FALSE] /\ wkOut' = wkOut
    BY <1>2, <1>11
  <2>2. wkStack' \in Seq(Frames) /\ Len(wkStack') = n /\ wkStack'[n] = e /\ \A k \in 1..n : k # n => wkStack'[k] = wkStack[k]
    <3> HIDE DEF rest, n
    <3>1. wkStack' = [rest EXCEPT ![n] = e]
      BY <1>1, <1>8, <2>1 DEF e
    <3> QED BY <1>1, <1>4, <1>8, <3>1
  <2>3. Sized(e, Links(e), h, quiet)
    <3>1. Sized(f, Links(g) - 1, h, quiet)
      BY <1>3, <1>7
    <3>2. Sized(e, Links(g), h, quiet)
      <4> DEFINE m == Links(g)
      <4>1. m \in 1..Len(RfLinks[f.c]) /\ Sized(f, m - 1, h, quiet) /\ RfLinks[f.c][m] \notin h /\ quiet \in BOOLEAN
        BY <1>5, <1>11, <3>1
      <4> HIDE DEF m, h, quiet
      <4>2. Sized(e, m, h, quiet)
        BY <1>4, <1>5, <4>1, SizedMissing
      <4> QED BY <4>2 DEF m
    <3> QED BY <1>5, <1>6, <3>2
  <2> HIDE DEF rest, n
  <2>4. ASSUME NEW k \in 1..n PROVE WkFrameOK(k)'
    <3>1. CASE k = n
      <4>1. wkStack'[k] = e /\ k = Len(wkStack') /\ ~(k < Len(wkStack'))
        BY <1>1, <2>2, <3>1
      <4>2. Height[e.c] + k <= Size
        BY <1>3, <1>4, <3>1
      <4> QED BY <1>1, <1>6, <2>3, <4>1, <4>2 DEF WkFrameOK
    <3>2. CASE k < n
      <4>1. /\ wkStack'[k] = wkStack[k] /\ k + 1 \in 1..n
            /\ k # Len(wkStack') /\ k < Len(wkStack) /\ k # Len(wkStack) /\ wkStack'[k + 1].c = wkStack[k + 1].c
        <5>1. k + 1 \in 1..n /\ k # n
          BY <1>1, <3>2
        <5>2. wkStack'[k] = wkStack[k]
          BY <2>2, <5>1
        <5>3. wkStack'[k + 1].c = wkStack[k + 1].c
          BY <1>4, <2>2, <5>1 DEF f
        <5> QED BY <2>2, <3>2, <5>1, <5>2, <5>3 DEF n
      <4>2. WkFrameOK(k)
        BY <1>1
      <4> QED BY <1>1, <4>1, <4>2 DEF WkFrameOK
    <3> QED BY <1>1, <3>1, <3>2
  <2>5. WkRight'
    BY <1>1, <2>1 DEF WkRight
  <2>6. \A k \in 1..Len(wkStack') : WkFrameOK(k)'
    BY <2>2, <2>4
  <2> QED BY <1>1, <2>1, <2>2, <2>5, <2>6 DEF WkInv
<1> QED BY <1>9, <1>10, <1>11

\* Links that are honest add up, with the node, to what is below it.
LEMMA HonestIs ==
    ASSUME NEW c \in RfCids, Honest(c)
    PROVE  WkSizes[c] + WkTotal(WkTsizes[c]) = WkSum(RfCids, c)
<1> DEFINE n == Len(RfLinks[c])
           s == [i \in 1..n |-> IF RfLinks[c][i] \in RfCids THEN WkSum(RfCids, RfLinks[c][i]) ELSE 0]
<1>1. n \in Nat /\ DOMAIN RfLinks[c] = 1..n /\ \A i \in 1..n : RfLinks[c][i] \in RfCids
  BY LinksAre
<1>2. WkTsizes[c] \in Seq(Nat) /\ Len(WkTsizes[c]) = n
  BY WalkAssumption
<1>3. \A i \in 1..n : WkTsizes[c][i] = s[i]
  BY <1>1 DEF Honest
<1>4. WkTsizes[c] = [i \in 1..n |-> WkTsizes[c][i]] /\ s = [i \in 1..n |-> s[i]]
  BY <1>2
<1> HIDE DEF s
<1>5. WkTsizes[c] = s
  BY <1>3, <1>4
<1>6. n \in 0..n /\ Part(RfCids, c, n) = WkSizes[c] + WkTotal(s)
  BY <1>1 DEF Part, s
<1>7. Part(RfCids, c, n) = WkSum(RfCids, c)
  BY <1>6, PartIs
<1> QED BY <1>5, <1>6, <1>7

\* The innermost call returns: to the command, ...
LEMMA ReturnLast ==
    ASSUME WkInv, WalkReturn, Len(wkStack) = 1
    PROVE  WkInv'
<1> DEFINE t == wkStack[1]
           h == wkHave
           quiet == wkOps = 0
           r == Walked(t)
<1>1. /\ t \in Frames /\ t.left = <<>> /\ wkStack' = <<>> /\ wkOut' = r
      /\ wkHave \subseteq RfCids /\ wkOps \in 0..MaxBlockOps /\ UNCHANGED <<wkHave, wkOps>>
  <2>1. wkStack \in Seq(Frames) /\ t.left = <<>> /\ wkOut' = r /\ UNCHANGED <<wkHave, wkOps>>
    BY DEF WkInv, WalkReturn
  <2>2. wkStack' = <<>>
    <3>1. wkStack' = [k \in 1..0 |-> wkStack'[k]]
      BY DEF WalkReturn
    <3> QED BY <3>1
  <2>3. wkHave \subseteq RfCids /\ wkOps \in 0..MaxBlockOps
    BY DEF WkInv
  <2> HIDE DEF r
  <2>4. t \in Frames
    <3>1. wkStack \in Seq(Frames) /\ 1 \in 1..Len(wkStack)
      BY <2>1
    <3> QED BY <3>1
  <2> QED BY <2>1, <2>2, <2>3, <2>4
<1>2. Sized(t, Links(t), h, quiet)
  <2>1. WkFrameOK(1) /\ 1 = Len(wkStack)
    BY DEF WkInv
  <2> QED BY <2>1 DEF WkFrameOK
<1>3. /\ r.size = t.size /\ r.local = t.local /\ r.root = t.c
      /\ r.cumulative = WkSizes[t.c] + WkTotal(WkTsizes[t.c])
  BY DEF Walked, StatNode, NoAnswer
<1> HIDE DEF t, r
<1>4. Links(t) = Len(RfLinks[t.c]) /\ t.c \in RfCids /\ Len(RfLinks[t.c]) \in 0..Len(RfLinks[t.c])
  BY <1>1, NoLink
<1>5. Part(RfCids, t.c, Len(RfLinks[t.c])) = WkSum(RfCids, t.c) /\ Part(h, t.c, Len(RfLinks[t.c])) = WkSum(h, t.c)
  BY <1>4, PartIs
<1>6. /\ t.size <= WkSum(RfCids, t.c) /\ (t.local <=> t.size = WkSum(RfCids, t.c))
      /\ quiet => t.size = WkSum(h, t.c)
  BY <1>2, <1>4, <1>5, Zenon DEF Sized
<1>7. /\ r.size <= WkSum(RfCids, r.root) /\ (r.local <=> r.size = WkSum(RfCids, r.root))
      /\ quiet => r.size = WkSum(h, r.root)
      /\ Honest(r.root) => r.cumulative = WkSum(RfCids, r.root)
  BY <1>3, <1>4, <1>6, HonestIs, Zenon
<1>8. wkStack' \in Seq(Frames) /\ 1..Len(wkStack') = {}
  BY <1>1
<1>9. WkRight'
  BY <1>1, <1>7, Zenon DEF WkRight
<1> QED BY <1>1, <1>8, <1>9 DEF WkInv

\* ... or to the call that has followed the link.
LEMMA ReturnInner ==
    ASSUME WkInv, WalkReturn, Len(wkStack) # 1
    PROVE  WkInv'
<1> DEFINE n == Len(wkStack)
           l == n - 1
           t == wkStack[n]
           f == wkStack[l]
           g == [f EXCEPT !.local = @ /\ t.local, !.size = @ + t.size]
           h == wkHave
           quiet == wkOps = 0
           m == Links(f)
<1>1. /\ wkStack \in Seq(Frames) /\ n \in Nat /\ n > 1 /\ l \in 1..n /\ n \in 1..n /\ l < n /\ l + 1 = n
      /\ t \in Frames /\ t.left = <<>> /\ f \in Frames
      /\ wkHave \subseteq RfCids /\ wkOps \in 0..MaxBlockOps /\ UNCHANGED <<wkHave, wkOps>>
      /\ wkStack # <<>> /\ wkOut.st = "none" /\ wkOut' = wkOut /\ \A k \in 1..n : WkFrameOK(k)
  <2>1. wkStack \in Seq(Frames) /\ n > 0 /\ n # 1 /\ t.left = <<>> /\ UNCHANGED <<wkHave, wkOps>> /\ wkOut' = wkOut
    BY DEF WkInv, WalkReturn
  <2>2. n \in Nat /\ n > 1 /\ l \in 1..n /\ n \in 1..n /\ l < n /\ l + 1 = n
    <3>1. n \in Nat
      BY <2>1
    <3> HIDE DEF n
    <3> QED BY <2>1, <3>1
  <2>3. t \in Frames /\ f \in Frames /\ wkStack # <<>>
    <3> HIDE DEF l
    <3> QED BY <2>1, <2>2
  <2> QED BY <2>1, <2>2, <2>3 DEF WkInv
<1>2. wkStack' = [k \in 1..l |-> IF k < l THEN wkStack[k] ELSE [wkStack[k] EXCEPT !.local = @ /\ t.local, !.size = @ + t.size]]
  BY DEF WalkReturn
<1>3. g.c = f.c /\ g.left = f.left /\ g.local = (f.local /\ t.local) /\ g.size = f.size + t.size /\ g \in Frames
  <2> HIDE DEF t, f
  <2>1. f.local \in BOOLEAN /\ f.size \in Nat /\ t.local \in BOOLEAN /\ t.size \in Nat
    BY <1>1 DEF Frames
  <2>2. g.c = f.c /\ g.left = f.left /\ g.local = (f.local /\ t.local) /\ g.size = f.size + t.size
    BY <1>1 DEF Frames
  <2> DEFINE all == f.local /\ t.local
             sum == f.size + t.size
  <2>3. g = [f EXCEPT !.local = all, !.size = sum]
    BY <1>1, SMT DEF Frames
  <2>4. all \in BOOLEAN /\ sum \in Nat
    BY <2>1
  <2> HIDE DEF all, sum
  <2>5. [f EXCEPT !.local = all, !.size = sum] \in Frames
    BY <1>1, <2>4 DEF Frames
  <2> HIDE DEF g
  <2> QED BY <2>2, <2>3, <2>5
<1>4. /\ Sized(t, Links(t), h, quiet) /\ FrameLinks(f) /\ Height[f.c] + l <= Size
      /\ m > 0 /\ Sized(f, m - 1, h, quiet) /\ t.c = RfLinks[f.c][m] /\ (quiet => t.c \in h)
  <2>1. WkFrameOK(n) /\ WkFrameOK(l) /\ ~(n < n)
    BY <1>1
  <2>2. Sized(t, Links(t), h, quiet)
    BY <2>1 DEF WkFrameOK
  <2>3. /\ FrameLinks(f) /\ Height[f.c] + l <= Size
        /\ m > 0 /\ Sized(f, m - 1, h, quiet) /\ wkStack[l + 1].c = RfLinks[f.c][m]
        /\ (quiet => wkStack[l + 1].c \in h)
    <3> HIDE DEF l
    <3> QED BY <1>1, <2>1 DEF WkFrameOK, n, m
  <2> QED BY <1>1, <2>2, <2>3
<1>5. \A k \in 1..l : wkStack'[k] = IF k = l THEN g ELSE wkStack[k]
  <2> SUFFICES ASSUME NEW k \in 1..l PROVE wkStack'[k] = IF k = l THEN g ELSE wkStack[k]
    OBVIOUS
  <2> HIDE DEF l
  <2>1. CASE k = l
    <3>1. l \in 1..l /\ ~(l < l)
      BY <1>1
    <3> QED BY <1>2, <2>1, <3>1
  <2>2. CASE k # l
    <3>1. k < l
      BY <1>1, <2>2
    <3> QED BY <1>2, <2>2, <3>1
  <2> QED BY <2>1, <2>2
<1> HIDE DEF l, t, f, g
<1>6. wkStack' \in Seq(Frames) /\ Len(wkStack') = l
  <2>1. DOMAIN wkStack' = 1..l /\ l \in Nat
    <3>1. l \in Nat
      BY <1>1
    <3> QED BY <1>2, <3>1
  <2>2. ASSUME NEW k \in 1..l PROVE wkStack'[k] \in Frames
    <3>1. k \in 1..n
      BY <1>1
    <3>2. wkStack[k] \in Frames
      BY <1>1, <3>1
    <3> QED BY <1>3, <1>5, <3>2
  <2>3. wkStack' \in [1..l -> Frames]
    <3>1. wkStack' = [k \in 1..l |-> wkStack'[k]]
      BY <1>2
    <3> QED BY <2>2, <3>1
  <2> HIDE DEF Frames
  <2> QED BY <2>1, <2>3
<1>7. Links(t) = Len(RfLinks[t.c]) /\ t.size \in Nat /\ t.local \in BOOLEAN /\ f.size \in Nat /\ f.local \in BOOLEAN /\ f.c \in RfCids
  BY <1>1, NoLink DEF Frames
<1>8. m \in 1..Len(RfLinks[f.c])
  <2> DEFINE a == Len(RfLinks[f.c])
             b == Len(f.left)
  <2>1. f.left \in Seq(RfCids)
    BY <1>1 DEF Frames
  <2>2. a \in Nat
    BY <1>7, LinksAre
  <2>3. b \in Nat
    BY <2>1
  <2>4. m = a - b /\ m > 0
    BY <1>4 DEF Links
  <2> HIDE DEF m, a, b
  <2>5. m \in 1..a
    BY <2>2, <2>3, <2>4
  <2> QED BY <2>5 DEF a
<1>9. Sized(g, m, h, quiet)
  <2>1. Sized(t, Len(RfLinks[t.c]), h, quiet) /\ quiet \in BOOLEAN
    BY <1>4, <1>7
  <2> HIDE DEF m, h, quiet
  <2> QED BY <1>3, <1>4, <1>7, <1>8, <2>1, SizedReturn
<1>10. Links(g) = m /\ FrameLinks(g)
  BY <1>3, <1>4 DEF Links, FrameLinks
<1>11. ASSUME NEW k \in 1..l PROVE WkFrameOK(k)'
  <2>1. CASE k = l
    <3>1. wkStack'[k] = g /\ k = Len(wkStack') /\ ~(k < Len(wkStack'))
      BY <1>1, <1>5, <1>6, <2>1
    <3>2. Height[g.c] + k <= Size
      BY <1>3, <1>4, <2>1
    <3> QED BY <1>1, <1>9, <1>10, <3>1, <3>2 DEF WkFrameOK
  <2>2. CASE k # l
    <3>1. k \in 1..n /\ k < l /\ k + 1 \in 1..l /\ k < n /\ k # n
      BY <1>1, <2>2
    <3>2. wkStack'[k] = wkStack[k] /\ wkStack'[k + 1].c = wkStack[k + 1].c
      <4>1. wkStack'[k] = wkStack[k]
        BY <1>5, <2>2
      <4>2. wkStack'[k + 1] = IF k + 1 = l THEN g ELSE wkStack[k + 1]
        BY <1>5, <3>1
      <4> QED BY <1>3, <4>1, <4>2 DEF f
    <3>3. WkFrameOK(k) /\ k # Len(wkStack') /\ k < Len(wkStack) /\ k # Len(wkStack)
      BY <1>1, <1>6, <2>2, <3>1
    <3> QED BY <1>1, <3>1, <3>2, <3>3 DEF WkFrameOK
  <2> QED BY <2>1, <2>2
<1>12. WkRight'
  BY <1>1 DEF WkRight
<1>13. \A k \in 1..Len(wkStack') : WkFrameOK(k)'
  BY <1>6, <1>11
<1> QED BY <1>1, <1>6, <1>12, <1>13 DEF WkInv

\* A block arrives or vanishes.
LEMMA BlockStep ==
    ASSUME WkInv, NEW c \in RfCids, WkBlock(c)
    PROVE  WkInv'
<1>1. /\ wkStack # <<>> /\ wkOut.st = "none" /\ wkOps \in 0..MaxBlockOps /\ wkOps < MaxBlockOps /\ wkOps' = wkOps + 1
      /\ wkHave \subseteq RfCids /\ wkStack \in Seq(Frames) /\ UNCHANGED <<wkStack, wkOut>>
      /\ wkHave' = IF c \in wkHave THEN wkHave \ {c} ELSE wkHave \cup {c}
  BY DEF WkInv, WkBlock
<1>2. wkHave' \subseteq RfCids /\ wkOps' \in 0..MaxBlockOps /\ wkOps' # 0
  BY <1>1, WalkAssumption
<1>3. ASSUME NEW k \in 1..Len(wkStack) PROVE WkFrameOK(k)'
  <2>1. WkFrameOK(k)
    BY DEF WkInv
  <2> DEFINE f == wkStack[k]
  <2>2. wkStack'[k] = f
    BY <1>1
  <2>3. k = Len(wkStack) => Sized(f, Links(f), wkHave', FALSE)
    BY <2>1, SizedUnquiet DEF WkFrameOK
  <2>4. k < Len(wkStack) => Links(f) > 0 /\ Sized(f, Links(f) - 1, wkHave', FALSE)
    BY <2>1, SizedUnquiet DEF WkFrameOK
  <2>5. (wkOps' = 0) = FALSE
    BY <1>2
  <2>6. FrameLinks(f) /\ Height[f.c] + k <= Size /\ (k < Len(wkStack) => wkStack[k + 1].c = RfLinks[f.c][Links(f)])
    BY <2>1 DEF WkFrameOK
  <2> HIDE DEF f
  <2> QED BY <1>1, <2>2, <2>3, <2>4, <2>5, <2>6 DEF WkFrameOK
<1>4. WkRight'
  BY <1>1 DEF WkRight
<1>5. \A k \in 1..Len(wkStack') : WkFrameOK(k)'
  BY <1>1, <1>3
<1> QED BY <1>1, <1>2, <1>4, <1>5 DEF WkInv

\* The invariant of files stat holds at first, ...
LEMMA WkBegins == WkInit => WkInv
<1> SUFFICES ASSUME WkInit PROVE WkInv
  OBVIOUS
<1>1. wkHave \subseteq RfCids /\ wkStack = <<>> /\ wkOut.st = "none" /\ wkOps = 0
  BY DEF WkInit, NoAnswer
<1>2. wkStack \in Seq(Frames) /\ 1..Len(wkStack) = {} /\ wkOps \in 0..MaxBlockOps
  BY <1>1, WalkAssumption
<1> QED BY <1>1, <1>2 DEF WkInv, WkRight

\* ... every step keeps it, ...
LEMMA WkSteps == WkInv /\ [WkNext]_wkVars => WkInv'
<1> SUFFICES ASSUME WkInv, [WkNext]_wkVars PROVE WkInv'
  OBVIOUS
<1>1. ASSUME NEW c \in RfCids, NEW withLocal \in BOOLEAN, NEW ok \in BOOLEAN, FilesStatCmd(c, withLocal, ok)
      PROVE  WkInv'
  BY <1>1, StatStep
<1>2. ASSUME NEW c \in RfCids, WkBlock(c) PROVE WkInv'
  BY <1>2, BlockStep
<1>3. ASSUME NEW ok \in BOOLEAN, WalkBlock(ok) PROVE WkInv'
  BY <1>3, WalkStep
<1>4. CASE WalkReturn
  BY <1>4, ReturnLast, ReturnInner
<1>5. CASE UNCHANGED wkVars
  <2>1. UNCHANGED <<wkHave, wkStack, wkOut, wkOps>>
    BY <1>5 DEF wkVars
  <2>2. ASSUME NEW k \in 1..Len(wkStack) PROVE WkFrameOK(k)'
    BY <2>1 DEF WkInv, WkFrameOK
  <2> QED BY <2>1, <2>2 DEF WkInv, WkRight
<1> QED BY <1>1, <1>2, <1>3, <1>4, <1>5 DEF WkNext

\* ... and what it answers follows.
LEMMA WkEnds == WkInv => WkTypeOK /\ WkRight
<1> SUFFICES ASSUME WkInv PROVE WkTypeOK /\ WkRight
  OBVIOUS
<1>1. wkStack \in Seq(Frames) /\ DOMAIN wkStack = 1..Len(wkStack) /\ Len(wkStack) \in Nat
  BY DEF WkInv
<1>2. ASSUME NEW k \in DOMAIN wkStack PROVE wkStack[k].c \in RfCids /\ wkStack[k].size \in Nat
  <2>1. wkStack[k] \in Frames
    BY <1>1
  <2> QED BY <2>1 DEF Frames
<1>3. Len(wkStack) <= Size
  <2> DEFINE n == Len(wkStack)
             c == wkStack[n].c
  <2>1. CASE n = 0
    BY <2>1, DepthIs
  <2>2. CASE n # 0
    <3>1. n \in 1..n /\ n \in DOMAIN wkStack
      BY <1>1, <2>2
    <3>2. Height[c] + n <= Size /\ c \in RfCids
      BY <1>2, <3>1 DEF WkInv, WkFrameOK
    <3> HIDE DEF c, n
    <3>3. Height[c] \in Nat /\ Size \in Nat
      BY <3>2, HeightIs, DepthIs
    <3> QED BY <1>1, <3>2, <3>3 DEF n
  <2> QED BY <2>1, <2>2
<1> QED BY <1>2, <1>3 DEF WkInv, WkTypeOK, Size

-----------------------------------------------------------------------------
(* The theorems.                                                           *)

\* For any DAG, roots and options, refs writes what lies within --max-depth
\* below its roots and no more, and with --unique each CID once: that visit
\* prunes a CID seen no deeper before, and forgets a depth when it comes
\* nearer, loses nothing (core/commands/refs.go).
THEOREM RefsWriteWhatIsBelow == RfInit /\ [][RfNext]_rfVars => [](RfTypeOK /\ RfRight)
BY RfBegins, RfStep, RfEnds, PTL

\* For any files, offset and length, cat and files read return the bytes asked
\* for and tell how many they are, wherever offset and length fall
\* (core/commands/cat.go, core/commands/files.go).
THEOREM CatCutsWhatIsAsked == CtInit /\ [][CtNext]_ctVars => [](CtTypeOK /\ CtRight)
BY CtBegins, CtStep, CtEnds, PTL

\* For any DAG, sizes and claims of its links, files stat --with-local says
\* Local exactly when the size it has counted is the whole, counts no more than
\* that, and counts what is there when nothing arrives or vanishes meanwhile
\* (walkBlock); its CumulativeSize is the whole if the links of the node are
\* honest (statNode, core/commands/files.go).
THEOREM StatCountsWhatIsLocal == WkInit /\ [][WkNext]_wkVars => [](WkTypeOK /\ WkRight)
BY WkBegins, WkSteps, WkEnds, PTL

\* In MCRepository each command reads as it does by itself.
LEMMA ReadingParts ==
    RepositorySpec => /\ RfInit /\ [][RfNext]_rfVars
                      /\ CtInit /\ [][CtNext]_ctVars
                      /\ WkInit /\ [][WkNext]_wkVars
<1>1. RepositoryInit => RfInit /\ CtInit /\ WkInit
  BY DEF RepositoryInit
<1>2. [RepositoryNext]_repositoryVars => [RfNext]_rfVars /\ [CtNext]_ctVars /\ [WkNext]_wkVars
  BY DEF RepositoryNext, repositoryVars, rfVars, ctVars, wkVars
<1> QED BY <1>1, <1>2, PTL DEF RepositorySpec

\* What refs, cat, files read and files stat answer is what was asked for.
THEOREM RepositoryReadsHold == RepositorySpec => []ReadsRight
<1>1. (RfTypeOK /\ RfRight) /\ (CtTypeOK /\ CtRight) /\ (WkTypeOK /\ WkRight) => ReadsRight
  BY DEF ReadsRight
<1> QED BY <1>1, ReadingParts, RefsWriteWhatIsBelow, CatCutsWhatIsAsked, StatCountsWhatIsLocal, PTL
=============================================================================
