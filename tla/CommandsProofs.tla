--------------------------- MODULE CommandsProofs ---------------------------
(***************************************************************************)
(* Proofs about what users and other programs ask of a node, for any       *)
(* clients, versions and names: swarm settings and addresses, the command  *)
(* line, migrations, the files API, the gateway and its host names,        *)
(* routing and the streams, and that one front of all of them keeps what   *)
(* each promises.                                                          *)
(***************************************************************************)
EXTENDS MCCommands, P2PStreamsProofs

(* swarm filters: at most one command changes them unless they overlapped, *)
(* and what the list in use has before the configuration has it.           *)
OneFilterJob == \A c, d \in SwClients : c \in FilterJobs /\ d \in FilterJobs => c = d

Ahead(j, filter, old) ==
    /\ j.op = "add" /\ j.pc = "config" => filter = old \cup j.fs
    /\ j.op = "add" /\ j.pc = "fill" => filter = j.fs
    /\ j.op = "rm" /\ j.pc \in {"config", "fill"} => filter = old \ j.fs
    /\ j.op = "rmall" /\ j.pc \in {"config", "fill"} => filter = {}
    /\ j.op \in {"add", "rm", "rmall"} /\ j.pc = "save" => filter = old

FiltersOK ==
    ~swMixed =>
        /\ OneFilterJob
        /\ \A c \in FilterJobs : Ahead(swJob[c], swFilter, swMem.f)
        /\ FilterJobs = {} /\ swUp = "up" => swFilter = swMem.f /\ (~swLost => swFilter = swDisk.f)

(* swarm limits: those a command sets, and those of memory and file, are   *)
(* limits the daemon starts with; ...                                      *)
Startable(l) == l["system"] = 0 \/ l["system"] > HighWater
Sensible(scope, l) == l # 0 /\ (scope = "system" => l > HighWater)

SensibleOK ==
    ~swOdd =>
        /\ swUp = "up" /\ Startable(swMem.l) /\ Startable(swDisk.l)
        /\ \A c \in SwClients : swJob[c].op = "limit" => Sensible(swJob[c].scope, swJob[c].l)

(* ... memory has the limit in use of a scope unless a command is between  *)
(* the two, ...                                                            *)
ScopeOK(s) ==
    \/ LimitJobs(s) = {} /\ swLimit[s] = Apply(swMem.l)[s]
    \/ \E c \in SwClients : LimitJobs(s) = {c} /\ swLimit[s] = swJob[c].l

InUseOK == ~swOdd /\ ~swCrossed => \A s \in SwScopes : ScopeOK(s)

(* ... and the file what memory has unless a command is still to write it. *)
WrittenOK == ~swLost => swDisk.l = swMem.l \/ \E c \in SwClients : swJob[c].op = "limit"

SwInv == SwTypeOK /\ FiltersOK /\ SensibleOK /\ InUseOK /\ WrittenOK

LEMMA DefaultIs == \A s \in SwScopes : DefaultLimit(s) \in Nat /\ Sensible(s, DefaultLimit(s))
BY SwarmAssumption DEF DefaultLimit, Sensible

LEMMA ApplyIs ==
    ASSUME NEW l \in [SwScopes -> Nat]
    PROVE  /\ Apply(l) \in [SwScopes -> Nat]
           /\ \A s \in SwScopes : l[s] # 0 => Apply(l)[s] = l[s]
           /\ Startable(l) <=> ConnMgrMakesSense(Apply(l))
<1>1. Apply(l) \in [SwScopes -> Nat]
  BY DefaultIs DEF Apply
<1>2. "system" \in SwScopes
  BY SwarmAssumption
<1>3. Apply(l)["system"] = IF l["system"] = 0 THEN DefaultLimit("system") ELSE l["system"]
  BY <1>2 DEF Apply
<1>4. DefaultLimit("system") > HighWater
  BY <1>2, DefaultIs DEF Sensible
<1>5. \A s \in SwScopes : l[s] # 0 => Apply(l)[s] = l[s]
  BY DEF Apply
<1> QED BY <1>1, <1>3, <1>4, <1>5 DEF Startable, ConnMgrMakesSense

LEMMA JobIs ==
    ASSUME SwInv, NEW c \in SwClients
    PROVE  /\ c \in FilterJobs <=> swJob[c].op \in {"add", "rm", "rmall"}
           /\ swJob[c] \in {NoJob} \cup SwCommand /\ NoJob.op = "none"
           /\ (swJob[c] = NoJob <=> swJob[c].op = "none")
           /\ swJob[c] # NoJob => swJob[c] \in SwCommand
           /\ swJob[c].op = "limit" => /\ swJob[c] \in [op : {"limit"}, scope : SwScopes, l : Nat, pc : {"config", "save"}]
                                       /\ c \notin FilterJobs
           /\ c \in FilterJobs => swJob[c] \in [op : {"add", "rm", "rmall"}, fs : SUBSET SwFilters, pc : {"config", "fill", "save"}]
BY DEF SwInv, SwTypeOK, FilterJobs, NoJob, SwCommand

LEMMA SwarmInit == SwInit => SwInv
<1> SUFFICES ASSUME SwInit PROVE SwInv
  OBVIOUS
<1> DEFINE l == [s \in SwScopes |-> 0]
<1>1. l \in [SwScopes -> Nat] /\ Startable(l) /\ "system" \in SwScopes
  BY SwarmAssumption DEF Startable
<1>2. swMem.f = {} /\ swMem.l = l /\ swMem = [f |-> {}, l |-> l] /\ swDisk = swMem /\ swLimit = Apply(l)
  BY DEF SwInit
<1> HIDE DEF l
<1>3. swCount \in 0..MaxSwarm
  BY SwarmAssumption DEF SwInit
<1>4. FilterJobs = {} /\ \A c \in SwClients : swJob[c].op = "none"
  BY DEF SwInit, FilterJobs, NoJob
<1>5. SwTypeOK
  BY <1>1, <1>2, <1>3, ApplyIs DEF SwTypeOK, SwInit, SwConfig
<1>6. FiltersOK
  BY <1>2, <1>4 DEF FiltersOK, OneFilterJob, SwInit
<1>7. SensibleOK /\ WrittenOK
  BY <1>1, <1>2, <1>4 DEF SensibleOK, WrittenOK, SwInit
<1>8. InUseOK
  BY <1>2, <1>4 DEF InUseOK, ScopeOK, LimitJobs
<1> QED BY <1>5, <1>6, <1>7, <1>8 DEF SwInv

(* A step that leaves the limits and the commands that set them alone.     *)
LEMMA LimitsKept ==
    ASSUME SwInv, UNCHANGED <<swUp, swLimit, swDisk, swCrossed, swLost, swOdd>>, swMem'.l = swMem.l,
           \A c \in SwClients : swJob'[c] = swJob[c] \/ (swJob'[c].op # "limit" /\ swJob[c].op # "limit")
    PROVE  SensibleOK' /\ InUseOK' /\ WrittenOK'
<1>1. \A c \in SwClients : /\ swJob'[c].op = "limit" <=> swJob[c].op = "limit"
                           /\ swJob[c].op = "limit" => swJob'[c] = swJob[c]
  OBVIOUS
<1>2. SensibleOK'
  BY <1>1 DEF SwInv, SensibleOK
<1>3. \A s \in SwScopes : LimitJobs(s)' = LimitJobs(s)
  BY <1>1 DEF LimitJobs
<1>4. Apply(swMem.l)' = Apply(swMem.l)
  BY DEF Apply, DefaultLimit
<1>5. InUseOK'
  <2> SUFFICES ASSUME ~swOdd, ~swCrossed, NEW s \in SwScopes PROVE ScopeOK(s)'
    BY DEF InUseOK
  <2>1. ScopeOK(s)
    BY DEF SwInv, InUseOK
  <2>2. \A c \in SwClients : LimitJobs(s) = {c} => swJob'[c] = swJob[c]
    BY <1>1 DEF LimitJobs
  <2> QED BY <1>3, <1>4, <2>1, <2>2 DEF ScopeOK
<1>6. WrittenOK'
  BY <1>1 DEF SwInv, WrittenOK
<1> QED BY <1>2, <1>5, <1>6

(* Nothing but the limits: the filters are as they were.                   *)
LEMMA FiltersKept ==
    ASSUME SwInv, UNCHANGED <<swUp, swFilter, swMixed, swLost>>, swMem'.f = swMem.f, swDisk'.f = swDisk.f,
           \A c \in SwClients : swJob'[c] = swJob[c] \/ (c \notin FilterJobs /\ c \notin FilterJobs')
    PROVE  FiltersOK'
<1>1. FilterJobs' = FilterJobs
  <2>1. FilterJobs \subseteq SwClients /\ FilterJobs' \subseteq SwClients
    BY DEF FilterJobs
  <2>2. ASSUME NEW c \in SwClients, swJob'[c] = swJob[c] PROVE c \in FilterJobs <=> c \in FilterJobs'
    BY <2>2 DEF FilterJobs
  <2> QED BY <2>1, <2>2
<1>2. \A c \in FilterJobs : swJob'[c] = swJob[c]
  BY DEF FilterJobs
<1> QED BY <1>1, <1>2 DEF SwInv, FiltersOK, OneFilterJob

(* A command that changes filters goes on to the configuration, ...        *)
LEMMA FilterCommand ==
    ASSUME SwInv, NEW c \in SwClients, Idle(c), NEW op \in {"add", "rm", "rmall"}, NEW fs \in SUBSET SwFilters,
           swJob' = [swJob EXCEPT ![c] = [op |-> op, fs |-> fs, pc |-> "config"]],
           swFilter' = IF op = "add" THEN swFilter \cup fs ELSE IF op = "rmall" THEN {} ELSE swFilter \ fs,
           swCount' = swCount + 1, swMixed' = (swMixed \/ FilterJobs # {}),
           UNCHANGED <<swUp, swLimit, swMem, swDisk, swCrossed, swLost, swOdd>>
    PROVE  SwInv'
<1>1. PICK j : j = [op |-> op, fs |-> fs, pc |-> "config"]
  OBVIOUS
<1>2. j \in SwCommand /\ j.op = op /\ j.fs = fs /\ j.pc = "config"
  BY <1>1 DEF SwCommand
<1>3. /\ swJob' \in [SwClients -> {NoJob} \cup SwCommand] /\ swJob'[c] = j
      /\ \A d \in SwClients \ {c} : swJob'[d] = swJob[d]
  BY <1>1, <1>2 DEF SwInv, SwTypeOK
<1>4. swMixed' \in BOOLEAN /\ swCount' \in 0..MaxSwarm
  <2>1. swMixed' \in BOOLEAN
    BY Zenon
  <2>2. swCount < MaxSwarm /\ swCount \in 0..MaxSwarm
    BY DEF Idle, SwInv, SwTypeOK
  <2> QED BY <2>1, <2>2, SwarmAssumption
<1>5. SwTypeOK'
  BY <1>3, <1>4 DEF SwInv, SwTypeOK
<1>6. swJob[c] = NoJob /\ swUp = "up"
  BY DEF Idle
<1>7. FilterJobs' = FilterJobs \cup {c}
  BY <1>2, <1>3 DEF FilterJobs
<1>8. FiltersOK'
  <2> SUFFICES ASSUME ~swMixed' PROVE OneFilterJob' /\ \A d \in FilterJobs' : Ahead(swJob'[d], swFilter', swMem'.f)
    BY <1>7 DEF FiltersOK
  <2>1. FilterJobs = {} /\ ~swMixed
    OBVIOUS
  <2>2. swFilter = swMem.f
    BY <1>6, <2>1 DEF SwInv, FiltersOK
  <2>3. OneFilterJob'
    BY <1>7, <2>1 DEF OneFilterJob
  <2>4. Ahead(j, swFilter', swMem.f)
    BY <1>2, <2>2 DEF Ahead
  <2> QED BY <1>3, <1>7, <2>1, <2>3, <2>4
<1>9. \A d \in SwClients : swJob'[d] = swJob[d] \/ (swJob'[d].op # "limit" /\ swJob[d].op # "limit")
  BY <1>2, <1>3, <1>6, JobIs
<1> QED BY <1>5, <1>8, <1>9, LimitsKept DEF SwInv

(* ... or ends at an argument that does not parse.                         *)
LEMMA FilterCommandEnds ==
    ASSUME SwInv, NEW c \in SwClients, Idle(c), swMixed' = TRUE, swFilter' \subseteq SwFilters,
           swCount' = swCount + 1, UNCHANGED <<swUp, swLimit, swMem, swDisk, swJob, swCrossed, swLost, swOdd>>
    PROVE  SwInv'
<1>1. swCount' \in 0..MaxSwarm
  <2>1. swCount < MaxSwarm /\ swCount \in 0..MaxSwarm
    BY DEF Idle, SwInv, SwTypeOK
  <2> QED BY <2>1, SwarmAssumption
<1>2. SwTypeOK'
  BY <1>1 DEF SwInv, SwTypeOK
<1>3. FiltersOK'
  BY DEF FiltersOK
<1> QED BY <1>2, <1>3, LimitsKept DEF SwInv

LEMMA FilterCommands ==
    ASSUME SwInv, NEW c \in SwClients, NEW fs \in SUBSET SwFilters, NEW parse \in BOOLEAN,
           FiltersAddCmd(c, fs, parse) \/ FiltersRmCmd(c, fs, parse) \/ FiltersRmAll(c)
    PROVE  SwInv'
<1>0. swFilter \subseteq SwFilters
  BY DEF SwInv, SwTypeOK
<1>1. CASE FiltersAddCmd(c, fs, parse)
  <2>1. CASE parse
    <3>1. PICK op : op = "add"
      OBVIOUS
    <3>2. swFilter' = IF op = "add" THEN swFilter \cup fs ELSE IF op = "rmall" THEN {} ELSE swFilter \ fs
      BY <1>1, <3>1 DEF FiltersAddCmd
    <3>3. /\ Idle(c) /\ swCount' = swCount + 1 /\ op \in {"add", "rm", "rmall"}
          /\ swJob' = [swJob EXCEPT ![c] = [op |-> op, fs |-> fs, pc |-> "config"]]
          /\ swMixed' = (swMixed \/ FilterJobs # {})
          /\ UNCHANGED <<swUp, swLimit, swMem, swDisk, swCrossed, swLost, swOdd>>
      BY <1>1, <2>1, <3>1 DEF FiltersAddCmd
    <3> QED BY <3>2, <3>3, FilterCommand
  <2>2. CASE ~parse
    BY <1>0, <1>1, <2>2, FilterCommandEnds DEF FiltersAddCmd
  <2> QED BY <2>1, <2>2
<1>2. CASE FiltersRmCmd(c, fs, parse)
  <2>1. CASE parse
    <3>1. PICK op : op = "rm"
      OBVIOUS
    <3>2. swFilter' = IF op = "add" THEN swFilter \cup fs ELSE IF op = "rmall" THEN {} ELSE swFilter \ fs
      BY <1>2, <3>1 DEF FiltersRmCmd
    <3>3. /\ Idle(c) /\ swCount' = swCount + 1 /\ op \in {"add", "rm", "rmall"}
          /\ swJob' = [swJob EXCEPT ![c] = [op |-> op, fs |-> fs, pc |-> "config"]]
          /\ swMixed' = (swMixed \/ FilterJobs # {})
          /\ UNCHANGED <<swUp, swLimit, swMem, swDisk, swCrossed, swLost, swOdd>>
      BY <1>2, <2>1, <3>1 DEF FiltersRmCmd
    <3> QED BY <3>2, <3>3, FilterCommand
  <2>2. CASE ~parse
    BY <1>0, <1>2, <2>2, FilterCommandEnds DEF FiltersRmCmd
  <2> QED BY <2>1, <2>2
<1>3. CASE FiltersRmAll(c)
  <2>1. PICK op, none : op = "rmall" /\ none = {}
    OBVIOUS
  <2>2. swFilter' = IF op = "add" THEN swFilter \cup none ELSE IF op = "rmall" THEN {} ELSE swFilter \ none
    BY <1>3, <2>1 DEF FiltersRmAll
  <2>3. /\ Idle(c) /\ swCount' = swCount + 1 /\ op \in {"add", "rm", "rmall"} /\ none \in SUBSET SwFilters
        /\ swJob' = [swJob EXCEPT ![c] = [op |-> op, fs |-> none, pc |-> "config"]]
        /\ swMixed' = (swMixed \/ FilterJobs # {})
        /\ UNCHANGED <<swUp, swLimit, swMem, swDisk, swCrossed, swLost, swOdd>>
    BY <1>3, <2>1 DEF FiltersRmAll
  <2> QED BY <2>2, <2>3, FilterCommand
<1> QED BY <1>1, <1>2, <1>3

(* A command that changes filters goes on in the configuration.            *)
LEMMA FilterSteps ==
    ASSUME SwInv, NEW c \in SwClients, FiltersAddOld(c) \/ FiltersAddFill(c) \/ FiltersRemove(c)
    PROVE  SwInv'
<1> DEFINE f == swMem'.f
           j == swJob'[c]
<1>0. swJob[c] \in SwCommand /\ swMem \in SwConfig /\ swJob \in [SwClients -> {NoJob} \cup SwCommand]
  BY JobIs DEF FiltersAddOld, FiltersAddFill, FiltersRemove, SwInv, SwTypeOK
<1>1. /\ swMem' \in SwConfig /\ swMem'.l = swMem.l
      /\ \E k \in SwCommand : swJob' = [swJob EXCEPT ![c] = k] /\ k.op = swJob[c].op
                           /\ (FiltersAddOld(c) => k.fs = swJob[c].fs \cup swMem.f /\ k.pc = "fill" /\ swMem'.f = {})
                           /\ (FiltersAddFill(c) => k.pc = "save" /\ swMem'.f = swJob[c].fs)
                           /\ (FiltersRemove(c) => k.pc = "save"
                                 /\ swMem'.f = IF swJob[c].op = "rmall" THEN {} ELSE swMem.f \ swJob[c].fs)
  <2>1. CASE FiltersAddOld(c)
    <3> DEFINE k == [swJob[c] EXCEPT !.pc = "fill", !.fs = @ \cup swMem.f]
    <3>0. swJob[c] \in [op : {"add", "rm", "rmall"}, fs : SUBSET SwFilters, pc : {"config", "fill", "save"}]
      BY <2>1, JobIs DEF FiltersAddOld
    <3>1. k \in SwCommand /\ k.op = swJob[c].op /\ k.fs = swJob[c].fs \cup swMem.f /\ k.pc = "fill"
      BY <1>0, <3>0 DEF SwCommand, SwConfig
    <3>2. swJob' = [swJob EXCEPT ![c] = k]
      BY <1>0, <2>1 DEF FiltersAddOld
    <3>3. swMem' \in SwConfig /\ swMem'.f = {} /\ swMem'.l = swMem.l
      BY <1>0, <2>1 DEF FiltersAddOld, SwConfig
    <3>4. ~FiltersAddFill(c) /\ ~FiltersRemove(c)
      BY <2>1 DEF FiltersAddOld, FiltersAddFill, FiltersRemove
    <3> HIDE DEF k
    <3> QED BY <3>1, <3>2, <3>3, <3>4
  <2>2. CASE FiltersAddFill(c)
    <3> DEFINE k == [swJob[c] EXCEPT !.pc = "save"]
    <3>1. k \in SwCommand /\ k.op = swJob[c].op /\ k.pc = "save"
      BY <1>0 DEF SwCommand
    <3>2. swJob' = [swJob EXCEPT ![c] = k]
      BY <1>0, <2>2 DEF FiltersAddFill
    <3>3. swMem' \in SwConfig /\ swMem'.f = swJob[c].fs /\ swMem'.l = swMem.l
      BY <1>0, <2>2 DEF FiltersAddFill, SwConfig, SwCommand
    <3>4. ~FiltersAddOld(c) /\ ~FiltersRemove(c)
      BY <2>2 DEF FiltersAddOld, FiltersAddFill, FiltersRemove
    <3> HIDE DEF k
    <3> QED BY <3>1, <3>2, <3>3, <3>4
  <2>3. CASE FiltersRemove(c)
    <3> DEFINE k == [swJob[c] EXCEPT !.pc = "save"]
    <3>1. k \in SwCommand /\ k.op = swJob[c].op /\ k.pc = "save"
      BY <1>0 DEF SwCommand
    <3>2. swJob' = [swJob EXCEPT ![c] = k]
      BY <1>0, <2>3 DEF FiltersRemove
    <3>3. /\ swMem' \in SwConfig /\ swMem'.l = swMem.l
          /\ swMem'.f = IF swJob[c].op = "rmall" THEN {} ELSE swMem.f \ swJob[c].fs
      BY <1>0, <2>3 DEF FiltersRemove, SwConfig
    <3>4. ~FiltersAddFill(c) /\ ~FiltersAddOld(c)
      BY <2>3 DEF FiltersAddOld, FiltersAddFill, FiltersRemove
    <3> HIDE DEF k
    <3> QED BY <3>1, <3>2, <3>3, <3>4
  <2> QED BY <2>1, <2>2, <2>3
<1>2. UNCHANGED <<swUp, swFilter, swLimit, swDisk, swCount, swMixed, swCrossed, swLost, swOdd>> /\ c \in FilterJobs
      /\ (FiltersAddOld(c) => swJob[c].op = "add" /\ swJob[c].pc = "config")
      /\ (FiltersAddFill(c) => swJob[c].op = "add" /\ swJob[c].pc = "fill")
      /\ (FiltersRemove(c) => swJob[c].op \in {"rm", "rmall"} /\ swJob[c].pc = "config")
  BY DEF FiltersAddOld, FiltersAddFill, FiltersRemove, FilterJobs
<1>3. PICK k \in SwCommand : /\ swJob' = [swJob EXCEPT ![c] = k] /\ k.op = swJob[c].op
                             /\ (FiltersAddOld(c) => k.fs = swJob[c].fs \cup swMem.f /\ k.pc = "fill" /\ swMem'.f = {})
                             /\ (FiltersAddFill(c) => k.pc = "save" /\ swMem'.f = swJob[c].fs)
                             /\ (FiltersRemove(c) => k.pc = "save"
                                   /\ swMem'.f = IF swJob[c].op = "rmall" THEN {} ELSE swMem.f \ swJob[c].fs)
  BY <1>1
<1>4. swJob' \in [SwClients -> {NoJob} \cup SwCommand] /\ swJob'[c] = k /\ \A d \in SwClients \ {c} : swJob'[d] = swJob[d]
  BY <1>0, <1>3
<1>5. SwTypeOK'
  BY <1>1, <1>2, <1>4 DEF SwInv, SwTypeOK
<1>6. FilterJobs' = FilterJobs
  BY <1>2, <1>3, <1>4 DEF FilterJobs
<1>7. FiltersOK'
  <2> SUFFICES ASSUME ~swMixed PROVE OneFilterJob' /\ \A d \in FilterJobs' : Ahead(swJob'[d], swFilter', swMem'.f)
    BY <1>2, <1>6 DEF FiltersOK
  <2>1. OneFilterJob /\ Ahead(swJob[c], swFilter, swMem.f)
    BY <1>2 DEF SwInv, FiltersOK
  <2>2. Ahead(k, swFilter, swMem'.f)
    BY <1>2, <1>3, <2>1 DEF Ahead
  <2>3. \A d \in FilterJobs : d = c
    BY <1>2, <2>1 DEF OneFilterJob, FilterJobs
  <2>4. OneFilterJob'
    BY <1>6, <2>1 DEF OneFilterJob
  <2> QED BY <1>2, <1>4, <1>6, <2>2, <2>3, <2>4
<1>8. \A d \in SwClients : swJob'[d] = swJob[d] \/ (swJob'[d].op # "limit" /\ swJob[d].op # "limit")
  BY <1>2, <1>3, <1>4, JobIs
<1> QED BY <1>1, <1>2, <1>5, <1>7, <1>8, LimitsKept DEF SwInv

(* A limit is put in use, ...                                              *)
LEMMA SetLimitStep ==
    ASSUME SwInv, NEW c \in SwClients, NEW s \in SwScopes, NEW l \in Nat, SetLimit(c, s, l),
           swOdd' \in BOOLEAN, ~swOdd' => ~swOdd /\ Sensible(s, l)
    PROVE  SwInv'
<1>1. PICK j : j = [op |-> "limit", scope |-> s, l |-> l, pc |-> "config"]
  OBVIOUS
<1>2. j \in SwCommand /\ j.op = "limit" /\ j.scope = s /\ j.l = l /\ j.pc = "config"
  BY <1>1 DEF SwCommand
<1>3. /\ swLimit' = [swLimit EXCEPT ![s] = l] /\ swJob' = [swJob EXCEPT ![c] = j] /\ swCount' = swCount + 1
      /\ swCrossed' = (swCrossed \/ LimitJobs(s) # {}) /\ swJob[c] = NoJob /\ swUp = "up" /\ swCount < MaxSwarm
      /\ UNCHANGED <<swUp, swFilter, swMem, swDisk, swMixed, swLost>>
  BY <1>1 DEF SetLimit, Idle
<1>4. /\ swJob' \in [SwClients -> {NoJob} \cup SwCommand] /\ swJob'[c] = j
      /\ \A d \in SwClients \ {c} : swJob'[d] = swJob[d]
  BY <1>2, <1>3 DEF SwInv, SwTypeOK
<1>5. swLimit' \in [SwScopes -> Nat] /\ swLimit'[s] = l /\ \A t \in SwScopes \ {s} : swLimit'[t] = swLimit[t]
  BY <1>3 DEF SwInv, SwTypeOK
<1>6. swCrossed' \in BOOLEAN /\ swCount' \in 0..MaxSwarm
  <2>1. swCrossed' \in BOOLEAN
    BY <1>3, Zenon
  <2>2. swCount \in 0..MaxSwarm
    BY DEF SwInv, SwTypeOK
  <2> QED BY <1>3, <2>1, <2>2, SwarmAssumption
<1>7. SwTypeOK'
  BY <1>3, <1>4, <1>5, <1>6 DEF SwInv, SwTypeOK
<1>8. c \notin FilterJobs /\ c \notin FilterJobs'
  BY <1>2, <1>3, <1>4, JobIs DEF FilterJobs
<1>9. FiltersOK'
  <2>1. \A d \in SwClients : swJob'[d] = swJob[d] \/ (d \notin FilterJobs /\ d \notin FilterJobs')
    BY <1>4, <1>8
  <2> QED BY <1>3, <2>1, FiltersKept
<1>10. SensibleOK'
  <2> SUFFICES ASSUME ~swOdd'
               PROVE  /\ swUp = "up" /\ Startable(swMem.l) /\ Startable(swDisk.l)
                      /\ \A d \in SwClients : swJob'[d].op = "limit" => Sensible(swJob'[d].scope, swJob'[d].l)
    BY <1>3 DEF SensibleOK
  <2>1. ~swOdd /\ Sensible(s, l)
    OBVIOUS
  <2> QED BY <1>2, <1>4, <2>1 DEF SwInv, SensibleOK
<1>11. InUseOK'
  <2> SUFFICES ASSUME ~swOdd', ~swCrossed', NEW t \in SwScopes PROVE ScopeOK(t)'
    BY DEF InUseOK
  <2>1. ~swOdd /\ ~swCrossed /\ LimitJobs(s) = {} /\ ScopeOK(t)
    BY <1>3 DEF SwInv, InUseOK
  <2>2. CASE t = s
    <3>1. LimitJobs(s)' = {c}
      <4>1. \A d \in SwClients : d \in LimitJobs(s)' => d = c
        BY <1>4, <2>1 DEF LimitJobs
      <4>2. c \in LimitJobs(s)'
        BY <1>2, <1>4 DEF LimitJobs
      <4> QED BY <4>1, <4>2 DEF LimitJobs
    <3> QED BY <1>2, <1>4, <1>5, <2>2, <3>1 DEF ScopeOK
  <2>3. CASE t # s
    <3>1. c \notin LimitJobs(t) /\ c \notin LimitJobs(t)'
      BY <1>2, <1>3, <1>4, <2>3, JobIs DEF LimitJobs
    <3>2. LimitJobs(t)' = LimitJobs(t)
      <4>1. \A d \in SwClients \ {c} : d \in LimitJobs(t)' <=> d \in LimitJobs(t)
        BY <1>4 DEF LimitJobs
      <4> QED BY <3>1, <4>1 DEF LimitJobs
    <3>3. Apply(swMem.l)' = Apply(swMem.l)
      BY <1>3 DEF Apply, DefaultLimit
    <3>4. \A d \in SwClients : LimitJobs(t) = {d} => swJob'[d] = swJob[d]
      BY <1>4, <3>1
    <3> QED BY <1>5, <2>1, <2>3, <3>2, <3>3, <3>4 DEF ScopeOK
  <2> QED BY <2>2, <2>3
<1>12. WrittenOK'
  BY <1>2, <1>4 DEF WrittenOK
<1> QED BY <1>7, <1>9, <1>10, <1>11, <1>12 DEF SwInv

(* ... the client's or the default one, ...                                *)
LEMMA LimitStep ==
    ASSUME SwInv, NEW c \in SwClients, SwarmLimitCmd(c)
    PROVE  SwInv'
<1>1. ASSUME NEW s \in SwScopes, NetResetLimit(c, s) PROVE SwInv'
  <2>1. SetLimit(c, s, DefaultLimit(s)) /\ swOdd' = swOdd
    BY <1>1 DEF NetResetLimit
  <2>2. swOdd \in BOOLEAN
    BY DEF SwInv, SwTypeOK
  <2> QED BY <2>1, <2>2, DefaultIs, SetLimitStep
<1>2. ASSUME NEW s \in SwScopes, NEW l \in SwLimits, NetSetLimit(c, s, l) PROVE SwInv'
  <2>1. l \in Nat /\ HighWater \in Nat
    BY SwarmAssumption
  <2>2. SetLimit(c, s, l) /\ swOdd' = (swOdd \/ l = 0 \/ (s = "system" /\ l <= HighWater))
    BY <1>2 DEF NetSetLimit
  <2>3. swOdd' \in BOOLEAN
    BY <2>2, Zenon
  <2>4. ~swOdd' => ~swOdd /\ l # 0 /\ (s = "system" => ~(l <= HighWater))
    BY <2>2
  <2>5. ~(l <= HighWater) => l > HighWater
    BY <2>1
  <2>6. ~swOdd' => ~swOdd /\ Sensible(s, l)
    BY <2>4, <2>5 DEF Sensible
  <2> QED BY <2>1, <2>2, <2>3, <2>6, SetLimitStep
<1> QED BY <1>1, <1>2 DEF SwarmLimitCmd

(* ... and goes on in the configuration.                                   *)
LEMMA LimitConfigStep ==
    ASSUME SwInv, NEW c \in SwClients, SetConfigFunc(c)
    PROVE  SwInv'
<1>1. /\ swJob[c].op = "limit" /\ swJob[c].pc = "config"
      /\ swJob[c] \in [op : {"limit"}, scope : SwScopes, l : Nat, pc : {"config", "save"}] /\ c \notin FilterJobs
  BY JobIs DEF SetConfigFunc
<1>2. PICK s, l, j : s = swJob[c].scope /\ l = swJob[c].l /\ j = [swJob[c] EXCEPT !.pc = "save"]
  OBVIOUS
<1>3. /\ s \in SwScopes /\ l \in Nat /\ j.op = "limit" /\ j.scope = s /\ j.l = l /\ j.pc = "save"
      /\ j \in [op : {"limit"}, scope : SwScopes, l : Nat, pc : {"config", "save"}]
  BY <1>1, <1>2
<1>4. j \in SwCommand
  BY <1>3 DEF SwCommand
<1>5. /\ swMem' = [swMem EXCEPT !.l[s] = l] /\ swJob' = [swJob EXCEPT ![c] = j]
      /\ UNCHANGED <<swUp, swFilter, swLimit, swDisk, swCount, swMixed, swCrossed, swLost, swOdd>>
  BY <1>2 DEF SetConfigFunc
<1>6. /\ swJob' \in [SwClients -> {NoJob} \cup SwCommand] /\ swJob'[c] = j
      /\ \A d \in SwClients \ {c} : swJob'[d] = swJob[d]
  BY <1>4, <1>5 DEF SwInv, SwTypeOK
<1>7. /\ swMem' \in SwConfig /\ swMem'.f = swMem.f /\ swMem'.l = [swMem.l EXCEPT ![s] = l]
      /\ swMem.l \in [SwScopes -> Nat] /\ swMem'.l \in [SwScopes -> Nat]
  BY <1>3, <1>5 DEF SwInv, SwTypeOK, SwConfig
<1>8. SwTypeOK'
  BY <1>5, <1>6, <1>7 DEF SwInv, SwTypeOK
<1>9. FiltersOK'
  <2>1. c \notin FilterJobs'
    BY <1>3, <1>6 DEF FilterJobs
  <2>2. \A d \in SwClients : swJob'[d] = swJob[d] \/ (d \notin FilterJobs /\ d \notin FilterJobs')
    BY <1>1, <1>6, <2>1
  <2> QED BY <1>5, <1>7, <2>2, FiltersKept
<1>10. SensibleOK'
  <2> SUFFICES ASSUME ~swOdd
               PROVE  /\ swUp = "up" /\ Startable(swMem'.l) /\ Startable(swDisk.l)
                      /\ \A d \in SwClients : swJob'[d].op = "limit" => Sensible(swJob'[d].scope, swJob'[d].l)
    BY <1>5 DEF SensibleOK
  <2>1. /\ swUp = "up" /\ Startable(swMem.l) /\ Startable(swDisk.l)
        /\ \A d \in SwClients : swJob[d].op = "limit" => Sensible(swJob[d].scope, swJob[d].l)
    BY DEF SwInv, SensibleOK
  <2>2. Sensible(s, l)
    BY <1>1, <1>2, <2>1
  <2>3. Startable(swMem'.l)
    <3>1. "system" \in SwScopes
      BY SwarmAssumption
    <3>2. CASE s = "system"
      BY <1>7, <2>2, <3>1, <3>2 DEF Startable, Sensible
    <3>3. CASE s # "system"
      <4>1. swMem'.l["system"] = swMem.l["system"]
        BY <1>7, <3>1, <3>3
      <4> QED BY <2>1, <4>1 DEF Startable
    <3> QED BY <3>2, <3>3
  <2> QED BY <1>3, <1>6, <2>1, <2>2, <2>3
<1>11. InUseOK'
  <2> SUFFICES ASSUME ~swOdd, ~swCrossed, NEW t \in SwScopes PROVE ScopeOK(t)'
    BY <1>5 DEF InUseOK
  <2>1. ScopeOK(t) /\ Sensible(s, l)
    BY <1>1, <1>2 DEF SwInv, InUseOK, SensibleOK
  <2>2. CASE t = s
    <3>1. c \in LimitJobs(s)
      BY <1>1, <1>2 DEF LimitJobs
    <3>2. LimitJobs(s) = {c} /\ swLimit[s] = l
      BY <1>2, <2>1, <2>2, <3>1 DEF ScopeOK
    <3>3. LimitJobs(s)' = {}
      <4>1. c \notin LimitJobs(s)'
        BY <1>3, <1>6 DEF LimitJobs
      <4>2. \A d \in SwClients \ {c} : d \notin LimitJobs(s)'
        BY <1>6, <3>2 DEF LimitJobs
      <4> QED BY <4>1, <4>2 DEF LimitJobs
    <3>4. swMem'.l[s] = l /\ l # 0
      BY <1>3, <1>7, <2>1 DEF Sensible
    <3>5. Apply(swMem'.l)[s] = l
      BY <1>3, <1>7, <3>4, ApplyIs
    <3>6. Apply(swMem.l)' = Apply(swMem'.l)
      BY DEF Apply, DefaultLimit
    <3> QED BY <1>5, <2>2, <3>2, <3>3, <3>5, <3>6 DEF ScopeOK
  <2>3. CASE t # s
    <3>1. c \notin LimitJobs(t) /\ c \notin LimitJobs(t)'
      BY <1>2, <1>3, <1>6, <2>3 DEF LimitJobs
    <3>2. LimitJobs(t)' = LimitJobs(t)
      <4>1. \A d \in SwClients \ {c} : d \in LimitJobs(t)' <=> d \in LimitJobs(t)
        BY <1>6 DEF LimitJobs
      <4> QED BY <3>1, <4>1 DEF LimitJobs
    <3>3. swMem'.l[t] = swMem.l[t]
      BY <1>7, <2>3
    <3>4. Apply(swMem.l)'[t] = Apply(swMem.l)[t]
      BY <3>3 DEF Apply, DefaultLimit
    <3>5. \A d \in SwClients : LimitJobs(t) = {d} => swJob'[d] = swJob[d]
      BY <1>6, <3>1
    <3> QED BY <1>5, <2>1, <3>2, <3>4, <3>5 DEF ScopeOK
  <2> QED BY <2>2, <2>3
<1>12. WrittenOK'
  BY <1>3, <1>6 DEF WrittenOK
<1> QED BY <1>8, <1>9, <1>10, <1>11, <1>12 DEF SwInv

LEMMA SaveStep ==
    ASSUME SwInv, NEW c \in SwClients, NEW ok \in BOOLEAN, SwSave(c, ok)
    PROVE  SwInv'
<1>1. /\ swJob[c] # NoJob /\ swJob[c].pc = "save" /\ swDisk' = (IF ok THEN swMem ELSE swDisk)
      /\ swLost' = (swLost \/ ~ok) /\ swJob' = [swJob EXCEPT ![c] = NoJob]
      /\ UNCHANGED <<swUp, swFilter, swLimit, swMem, swCount, swMixed, swCrossed, swOdd>>
  BY DEF SwSave
<1>2. /\ swJob' \in [SwClients -> {NoJob} \cup SwCommand] /\ swJob'[c] = NoJob /\ NoJob.op = "none"
      /\ \A d \in SwClients \ {c} : swJob'[d] = swJob[d]
  BY <1>1, JobIs DEF SwInv, SwTypeOK
<1>3. swLost' \in BOOLEAN /\ swDisk' \in SwConfig
  <2>1. swLost' \in BOOLEAN
    BY <1>1, Zenon
  <2> QED BY <1>1, <2>1 DEF SwInv, SwTypeOK
<1>4. SwTypeOK'
  BY <1>1, <1>2, <1>3 DEF SwInv, SwTypeOK
<1>5. FilterJobs' = FilterJobs \ {c}
  BY <1>2 DEF FilterJobs
<1>6. FiltersOK'
  <2> SUFFICES ASSUME ~swMixed
               PROVE  /\ OneFilterJob' /\ \A d \in FilterJobs' : Ahead(swJob'[d], swFilter, swMem.f)
                      /\ FilterJobs' = {} /\ swUp = "up" => swFilter = swMem.f /\ (~swLost' => swFilter = swDisk'.f)
    BY <1>1 DEF FiltersOK
  <2>1. OneFilterJob' /\ \A d \in FilterJobs' : Ahead(swJob'[d], swFilter, swMem.f)
    <3>1. OneFilterJob /\ \A d \in FilterJobs : Ahead(swJob[d], swFilter, swMem.f)
      BY DEF SwInv, FiltersOK
    <3>2. OneFilterJob'
      BY <1>5, <3>1 DEF OneFilterJob
    <3>3. \A d \in FilterJobs' : d \in FilterJobs /\ swJob'[d] = swJob[d]
      BY <1>2, <1>5 DEF FilterJobs
    <3> QED BY <3>1, <3>2, <3>3
  <2>2. ASSUME FilterJobs' = {}, swUp = "up"
        PROVE  swFilter = swMem.f
    <3>1. CASE c \in FilterJobs
      BY <1>1, <3>1, JobIs DEF SwInv, FiltersOK, Ahead
    <3>2. CASE c \notin FilterJobs
      <4>1. FilterJobs = {}
        BY <1>5, <2>2, <3>2
      <4> QED BY <2>2, <4>1 DEF SwInv, FiltersOK
    <3> QED BY <3>1, <3>2
  <2>3. ~swLost' => swDisk' = swMem
    BY <1>1
  <2> QED BY <2>1, <2>2, <2>3
<1>7. SensibleOK'
  BY <1>1, <1>2 DEF SwInv, SensibleOK
<1>8. InUseOK'
  <2> SUFFICES ASSUME ~swOdd, ~swCrossed, NEW s \in SwScopes PROVE ScopeOK(s)'
    BY <1>1 DEF InUseOK
  <2>1. ScopeOK(s)
    BY DEF SwInv, InUseOK
  <2>2. c \notin LimitJobs(s) /\ c \notin LimitJobs(s)'
    BY <1>1, <1>2 DEF LimitJobs
  <2>3. LimitJobs(s)' = LimitJobs(s)
    <3>1. \A d \in SwClients \ {c} : d \in LimitJobs(s)' <=> d \in LimitJobs(s)
      BY <1>2 DEF LimitJobs
    <3> QED BY <2>2, <3>1 DEF LimitJobs
  <2>4. Apply(swMem.l)' = Apply(swMem.l)
    BY <1>1 DEF Apply, DefaultLimit
  <2>5. \A d \in SwClients : LimitJobs(s) = {d} => swJob'[d] = swJob[d]
    BY <1>2, <2>2
  <2> QED BY <1>1, <2>1, <2>3, <2>4, <2>5 DEF ScopeOK
<1>9. WrittenOK'
  BY <1>1 DEF WrittenOK
<1> QED BY <1>4, <1>6, <1>7, <1>8, <1>9 DEF SwInv

(* A daemon that starts again has what the file has.                       *)
LEMMA RestartStep == SwInv /\ SwRestart => SwInv'
<1> SUFFICES ASSUME SwInv, SwRestart PROVE SwInv'
  OBVIOUS
<1>1. /\ swUp = "up" /\ (\A c \in SwClients : swJob[c] = NoJob) /\ swMem' = swDisk
      /\ swMixed' = FALSE /\ swCrossed' = FALSE /\ swLost' = FALSE /\ UNCHANGED <<swDisk, swJob, swOdd>>
      /\ \/ /\ ConnMgrMakesSense(Apply(swDisk.l))
            /\ swFilter' = swDisk.f /\ swLimit' = Apply(swDisk.l) /\ swUp' = swUp
         \/ /\ ~ConnMgrMakesSense(Apply(swDisk.l))
            /\ swUp' = "refused" /\ UNCHANGED <<swFilter, swLimit>>
  BY DEF SwRestart
<1>2. swDisk \in SwConfig /\ swDisk.l \in [SwScopes -> Nat] /\ swDisk.f \subseteq SwFilters
      /\ swLimit \in [SwScopes -> Nat] /\ swFilter \subseteq SwFilters
  BY DEF SwInv, SwTypeOK, SwConfig
<1>3. Apply(swDisk.l) \in [SwScopes -> Nat] /\ (Startable(swDisk.l) <=> ConnMgrMakesSense(Apply(swDisk.l)))
  BY <1>2, ApplyIs
<1>4. swCount' \in 0..MaxSwarm
  <2>1. swCount < MaxSwarm /\ swCount' = swCount + 1
    BY DEF SwRestart
  <2>2. swCount \in 0..MaxSwarm
    BY DEF SwInv, SwTypeOK
  <2> QED BY <2>1, <2>2, SwarmAssumption
<1>5. SwTypeOK'
  BY <1>1, <1>2, <1>3, <1>4 DEF SwInv, SwTypeOK
<1>6. FilterJobs' = {} /\ \A c \in SwClients : swJob[c].op = "none"
  BY <1>1 DEF FilterJobs, NoJob
<1>7. FiltersOK'
  BY <1>1, <1>6 DEF FiltersOK, OneFilterJob
<1>8. SensibleOK' /\ WrittenOK'
  BY <1>1, <1>3, <1>6 DEF SwInv, SensibleOK, WrittenOK
<1>9. InUseOK'
  <2> SUFFICES ASSUME ~swOdd, NEW s \in SwScopes PROVE ScopeOK(s)'
    BY <1>1 DEF InUseOK
  <2>1. swLimit' = Apply(swDisk.l)
    BY <1>1, <1>3 DEF SwInv, SensibleOK
  <2>2. LimitJobs(s)' = {}
    BY <1>1, <1>6 DEF LimitJobs
  <2>3. Apply(swMem.l)' = Apply(swDisk.l)
    BY <1>1 DEF Apply, DefaultLimit
  <2> QED BY <2>1, <2>2, <2>3 DEF ScopeOK
<1> QED BY <1>5, <1>7, <1>8, <1>9 DEF SwInv

LEMMA SwarmStep == SwInv /\ [SwNext]_swVars => SwInv'
<1> SUFFICES ASSUME SwInv, [SwNext]_swVars PROVE SwInv'
  OBVIOUS
<1>1. CASE UNCHANGED swVars
  <2>1. UNCHANGED <<swUp, swFilter, swLimit, swMem, swDisk, swJob, swCount, swMixed, swCrossed, swLost, swOdd>>
    BY <1>1 DEF swVars
  <2>2. SensibleOK' /\ InUseOK' /\ WrittenOK'
    BY <2>1, LimitsKept
  <2> QED BY <2>1, <2>2 DEF SwInv, SwTypeOK, FiltersOK, OneFilterJob, FilterJobs
<1>2. ASSUME NEW c \in SwClients, FiltersRmAll(c) PROVE SwInv'
  <2>1. {} \in SUBSET SwFilters /\ TRUE \in BOOLEAN
    OBVIOUS
  <2> QED BY <1>2, <2>1, FilterCommands
<1>3. CASE SwRestart
  BY <1>3, RestartStep
<1>4. ASSUME NEW c \in SwClients, NEW fs \in SUBSET SwFilters \ {{}}, NEW parse \in BOOLEAN,
             FiltersAddCmd(c, fs, parse) \/ FiltersRmCmd(c, fs, parse)
      PROVE  SwInv'
  BY <1>4, FilterCommands
<1> QED BY <1>1, <1>2, <1>3, <1>4, FilterSteps, LimitStep, LimitConfigStep, SaveStep DEF SwNext

\* What the settings of the swarm promise: SwarmSound but for the addresses.
SettingsSound == SwTypeOK /\ SwFiltersAgree /\ SwLimitsPersist /\ SwRefusedOnlyIfSet

LEMMA SwInvIs == SwInv => SettingsSound
<1> SUFFICES ASSUME SwInv PROVE SettingsSound
  OBVIOUS
<1>1. SwFiltersAgree
  BY DEF SwFiltersAgree, SwInv, FiltersOK
<1>2. SwLimitsPersist
  <2> SUFFICES ASSUME ~swCrossed, ~swLost, ~swOdd, \A c \in SwClients : swJob[c] = NoJob
               PROVE  swLimit = Apply(swDisk.l)
    BY DEF SwLimitsPersist
  <2>1. \A c \in SwClients : swJob[c].op = "none"
    BY DEF NoJob
  <2>2. swDisk.l = swMem.l
    BY <2>1 DEF SwInv, WrittenOK
  <2>3. \A s \in SwScopes : LimitJobs(s) = {}
    BY <2>1 DEF LimitJobs
  <2>4. \A s \in SwScopes : swLimit[s] = Apply(swMem.l)[s]
    BY <2>3 DEF SwInv, InUseOK, ScopeOK
  <2>5. swLimit \in [SwScopes -> Nat] /\ Apply(swMem.l) \in [SwScopes -> Nat]
    BY ApplyIs DEF SwInv, SwTypeOK, SwConfig
  <2> QED BY <2>2, <2>4, <2>5
<1>3. SwRefusedOnlyIfSet
  BY DEF SwRefusedOnlyIfSet, SwInv, SensibleOK
<1> QED BY <1>1, <1>2, <1>3 DEF SettingsSound, SwInv
-----------------------------------------------------------------------------
(* swarm connect and disconnect: what has become of every argument, the    *)
(* loop having passed it or not.                                           *)
Settled(i) ==
    /\ arArgs[i] # "name" => arRun[i] = "off"
    /\ i < arNext => /\ arArgs[i] = "peer" => i \in arFound
                     /\ arArgs[i] = "name" => arRun[i] # "off"
                     /\ arArgs[i] = "bad" => arPc = "error"
    /\ i >= arNext => arRun[i] = "off"
    /\ arRun[i] = "done" => i \in arFound \/ arFailed = TRUE

ArInv ==
    /\ ArTypeOK /\ arArgs \in Seq({"peer", "name", "bad"}) /\ arCmd \in {"connect", "disconnect"}
    /\ \A i \in DOMAIN arArgs : Settled(i)
    /\ arPc \in {"collect", "act", "ok"} => arNext = Len(arArgs) + 1
    /\ arClosed => arPc # "start" /\ \A i \in DOMAIN arRun : arRun[i] \in {"off", "done"}
    /\ arPc \in {"act", "ok"} => arClosed /\ ~arFailed
    /\ arPc \in {"start", "collect"} => DOMAIN arDone = {}
    /\ arPc = "ok" => DOMAIN arDone = arFound
    /\ arPc \in {"act", "ok"} /\ arCmd = "connect" => \A i \in DOMAIN arDone : arDone[i]

LEMMA AddressesInit == ArInit => ArInv
<1> SUFFICES ASSUME ArInit PROVE ArInv
  OBVIOUS
<1>1. arArgs \in Seq({"peer", "name", "bad"}) /\ DOMAIN arArgs = 1..Len(arArgs) /\ Len(arArgs) \in Nat
  BY ArgsAssumption DEF ArInit
<1>2. ArTypeOK
  BY <1>1 DEF ArInit, ArTypeOK
<1>3. \A i \in DOMAIN arArgs : Settled(i)
  BY <1>1 DEF ArInit, Settled
<1> QED BY <1>1, <1>2, <1>3 DEF ArInit, ArInv

LEMMA AddressesStep == ArInv /\ [ArNext]_arVars => ArInv'
<1> SUFFICES ASSUME ArInv, [ArNext]_arVars PROVE ArInv'
  OBVIOUS
<1>0. /\ arArgs \in Seq({"peer", "name", "bad"}) /\ DOMAIN arArgs = 1..Len(arArgs) /\ Len(arArgs) \in Nat
      /\ arRun \in [DOMAIN arArgs -> {"off", "resolve", "send", "done"}] /\ DOMAIN arRun = DOMAIN arArgs
      /\ arNext \in 1..Len(arArgs) + 1 /\ arFound \subseteq DOMAIN arArgs /\ DOMAIN arDone \subseteq arFound
      /\ \A i \in DOMAIN arArgs : arArgs[i] \in {"peer", "name", "bad"}
  BY DEF ArInv, ArTypeOK
<1>1. CASE ArStart
  <2>1. arPc = "start" /\ ~arClosed /\ UNCHANGED <<arCmd, arDone, arArgs, arFailed, arClosed>>
    BY <1>1 DEF ArStart, ArInv
  <2>2. CASE arNext > Len(arArgs)
    <3>1. arPc' = "collect" /\ UNCHANGED <<arNext, arRun, arFound>> /\ arNext = Len(arArgs) + 1
      BY <1>0, <1>1, <2>2 DEF ArStart
    <3>2. \A i \in DOMAIN arArgs : Settled(i)'
      <4> SUFFICES ASSUME NEW i \in DOMAIN arArgs PROVE Settled(i)'
        OBVIOUS
      <4>1. Settled(i) /\ i < arNext
        BY <1>0, <3>1 DEF ArInv
      <4> QED BY <2>1, <3>1, <4>1 DEF Settled
    <3>3. ArTypeOK'
      BY <2>1, <3>1 DEF ArInv, ArTypeOK
    <3> QED BY <2>1, <3>1, <3>2, <3>3 DEF ArInv
  <2>3. CASE ~(arNext > Len(arArgs))
    <3>1. /\ arNext \in DOMAIN arArgs /\ arNext' = arNext + 1 /\ arNext' \in 1..Len(arArgs) + 1
          /\ arPc' = (IF arArgs[arNext] = "bad" THEN "error" ELSE "start")
          /\ arFound' = (IF arArgs[arNext] = "peer" THEN arFound \cup {arNext} ELSE arFound)
          /\ arRun' = (IF arArgs[arNext] = "name" THEN [arRun EXCEPT ![arNext] = "resolve"] ELSE arRun)
      BY <1>0, <1>1, <2>3 DEF ArStart
    <3>2. arRun' \in [DOMAIN arArgs -> {"off", "resolve", "send", "done"}]
      BY <1>0, <3>1
    <3>3. \A i \in DOMAIN arArgs : Settled(i)'
      <4> SUFFICES ASSUME NEW i \in DOMAIN arArgs PROVE Settled(i)'
        OBVIOUS
      <4>1. Settled(i) /\ arArgs[i] \in {"peer", "name", "bad"}
        BY <1>0 DEF ArInv
      <4>2. CASE i = arNext
        <5>1. arRun[i] = "off"
          BY <1>0, <4>1, <4>2 DEF Settled
        <5>2. i < arNext' /\ ~(i >= arNext')
          BY <1>0, <3>1, <4>2
        <5>3. arRun'[i] = IF arArgs[i] = "name" THEN "resolve" ELSE "off"
          BY <1>0, <3>1, <4>2, <5>1
        <5> QED BY <2>1, <3>1, <4>1, <4>2, <5>2, <5>3 DEF Settled
      <4>3. CASE i # arNext
        <5>1. arRun'[i] = arRun[i] /\ (i \in arFound => i \in arFound')
          BY <1>0, <3>1, <4>3
        <5>2. (i < arNext' <=> i < arNext) /\ (i >= arNext' <=> i >= arNext)
          BY <1>0, <3>1, <4>3
        <5>3. i < arNext => arArgs[i] # "bad"
          BY <2>1, <4>1 DEF Settled
        <5> QED BY <2>1, <4>1, <5>1, <5>2, <5>3 DEF Settled
      <4> QED BY <4>2, <4>3
    <3>4. ArTypeOK'
      BY <1>0, <2>1, <3>1, <3>2 DEF ArTypeOK
    <3> QED BY <2>1, <3>1, <3>3, <3>4 DEF ArInv
  <2> QED BY <2>2, <2>3
<1>2. ASSUME NEW i \in DOMAIN arRun, NEW ok \in BOOLEAN, ArResolve(i, ok) PROVE ArInv'
  <2>1. /\ arRun[i] = "resolve" /\ arRun' = [arRun EXCEPT ![i] = IF ok THEN "send" ELSE "done"]
        /\ arFailed' = (arFailed \/ ~ok)
        /\ UNCHANGED <<arCmd, arDone, arArgs, arNext, arClosed, arFound, arPc>>
    BY <1>2 DEF ArResolve
  <2>2. ~arClosed
    BY <2>1 DEF ArInv
  <2>3. arRun' \in [DOMAIN arArgs -> {"off", "resolve", "send", "done"}]
    BY <1>0, <2>1
  <2>4. \A j \in DOMAIN arArgs : Settled(j)'
    <3> SUFFICES ASSUME NEW j \in DOMAIN arArgs PROVE Settled(j)'
      OBVIOUS
    <3>1. Settled(j)
      BY DEF ArInv
    <3>2. CASE j = i
      <4>1. arArgs[j] = "name" /\ ~(j >= arNext)
        BY <2>1, <3>1, <3>2 DEF Settled
      <4>2. arRun'[j] = IF ok THEN "send" ELSE "done"
        BY <1>0, <2>1, <3>2
      <4>3. ~ok => arFailed' = TRUE
        BY <2>1
      <4>4. arRun'[j] # "off" /\ (arRun'[j] = "done" => arFailed' = TRUE)
        BY <4>2, <4>3
      <4> QED BY <2>1, <3>1, <4>1, <4>4 DEF Settled
    <3>3. CASE j # i
      <4>1. arRun'[j] = arRun[j]
        BY <1>0, <2>1, <3>3
      <4>2. arFailed = TRUE => arFailed' = TRUE
        BY <2>1
      <4> QED BY <2>1, <3>1, <4>1, <4>2 DEF Settled
    <3> QED BY <3>2, <3>3
  <2>5. ArTypeOK'
    BY <1>0, <2>1, <2>3 DEF ArTypeOK, ArInv
  <2> QED BY <2>1, <2>2, <2>4, <2>5 DEF ArInv
<1>3. ASSUME NEW i \in DOMAIN arRun, ArSend(i) PROVE ArInv'
  <2>1. /\ arRun[i] = "send" /\ arPc = "collect" /\ ~arClosed
        /\ arRun' = [arRun EXCEPT ![i] = "done"] /\ arFound' = arFound \cup {i}
        /\ UNCHANGED <<arCmd, arDone, arArgs, arNext, arFailed, arClosed, arPc>>
    BY <1>3 DEF ArSend
  <2>3. arRun' \in [DOMAIN arArgs -> {"off", "resolve", "send", "done"}]
    BY <1>0, <2>1
  <2>4. \A j \in DOMAIN arArgs : Settled(j)'
    <3> SUFFICES ASSUME NEW j \in DOMAIN arArgs PROVE Settled(j)'
      OBVIOUS
    <3>1. Settled(j)
      BY DEF ArInv
    <3>2. CASE j = i
      <4>1. arArgs[j] = "name" /\ ~(j >= arNext)
        BY <2>1, <3>1, <3>2 DEF Settled
      <4>2. arRun'[j] = "done"
        BY <1>0, <2>1, <3>2
      <4> QED BY <2>1, <3>1, <3>2, <4>1, <4>2 DEF Settled
    <3>3. CASE j # i
      <4>1. arRun'[j] = arRun[j]
        BY <1>0, <2>1, <3>3
      <4> QED BY <2>1, <3>1, <4>1 DEF Settled
    <3> QED BY <3>2, <3>3
  <2>5. ArTypeOK'
    BY <1>0, <2>1, <2>3 DEF ArTypeOK, ArInv
  <2> QED BY <2>1, <2>4, <2>5 DEF ArInv
<1>4. CASE ArClose
  <2>1. /\ arPc = "collect" /\ arClosed' = TRUE /\ \A i \in DOMAIN arRun : arRun[i] \in {"off", "done"}
        /\ UNCHANGED <<arCmd, arDone, arArgs, arNext, arRun, arFailed, arFound, arPc>>
    BY <1>4 DEF ArClose
  <2> QED BY <2>1 DEF ArInv, ArTypeOK, Settled
<1>5. CASE ParseAddresses
  <2>1. /\ arPc = "collect" /\ arClosed /\ arPc' = IF arFailed THEN "error" ELSE "act"
        /\ UNCHANGED <<arCmd, arDone, arArgs, arNext, arRun, arFailed, arClosed, arFound>>
    BY <1>5 DEF ParseAddresses
  <2>2. \A i \in DOMAIN arArgs : Settled(i)'
    BY <2>1 DEF ArInv, Settled
  <2>3. arPc' \in {"error", "act"} /\ (arPc' = "act" => ~arFailed)
    BY <2>1
  <2>4. ArTypeOK'
    BY <2>1, <2>3 DEF ArInv, ArTypeOK
  <2>5. DOMAIN arDone = {}
    BY <2>1 DEF ArInv
  <2> QED BY <2>1, <2>2, <2>3, <2>4, <2>5 DEF ArInv
<1>6. ASSUME NEW i \in DOMAIN arRun, NEW ok \in BOOLEAN, SwarmConnectCmd(i, ok) \/ SwarmDisconnectCmd(i, ok) PROVE ArInv'
  <2>1. /\ arPc = "act" /\ i \in arFound /\ arDone' = [j \in DOMAIN arDone \cup {i} |-> IF j = i THEN ok ELSE arDone[j]]
        /\ arCmd = "connect" => arPc' = IF ok THEN "act" ELSE "error"
        /\ arCmd = "disconnect" => arPc' = "act"
        /\ UNCHANGED <<arArgs, arNext, arRun, arFailed, arClosed, arFound, arCmd>>
    BY <1>6 DEF SwarmConnectCmd, SwarmDisconnectCmd, ArLeft, ArDid
  <2>2. arPc' \in {"act", "error"}
    BY <2>1 DEF ArInv
  <2>3. ArTypeOK'
    BY <1>0, <2>1, <2>2 DEF ArTypeOK, ArInv
  <2>4. \A j \in DOMAIN arArgs : Settled(j)'
    BY <2>1 DEF ArInv, Settled
  <2>5. arPc' = "act" /\ arCmd = "connect" => \A j \in DOMAIN arDone' : arDone'[j]
    BY <2>1 DEF ArInv
  <2> QED BY <2>1, <2>2, <2>3, <2>4, <2>5 DEF ArInv
<1>7. CASE ArEmit
  <2>1. /\ arPc = "act" /\ DOMAIN arDone = arFound /\ arPc' = "ok"
        /\ UNCHANGED <<arArgs, arNext, arRun, arFailed, arClosed, arFound, arCmd, arDone>>
    BY <1>0, <1>7 DEF ArEmit, ArLeft
  <2> QED BY <2>1 DEF ArInv, ArTypeOK, Settled
<1>8. CASE UNCHANGED arVars
  BY <1>8 DEF arVars, ArInv, ArTypeOK, Settled
<1> QED BY <1>1, <1>2, <1>3, <1>4, <1>5, <1>6, <1>7, <1>8 DEF ArNext

LEMMA ArInvIs == ArInv => ArTypeOK /\ ArComplete
<1> SUFFICES ASSUME ArInv PROVE ArComplete
  BY DEF ArInv
<1>1. DOMAIN arArgs = 1..Len(arArgs) /\ Len(arArgs) \in Nat /\ DOMAIN arRun = DOMAIN arArgs /\ arFound \subseteq DOMAIN arArgs
      /\ \A i \in DOMAIN arArgs : arArgs[i] \in {"peer", "name", "bad"} /\ i < Len(arArgs) + 1
  BY DEF ArInv, ArTypeOK
<1>2. ASSUME arPc = "ok" PROVE DOMAIN arDone = 1..Len(arArgs)
  <2> SUFFICES ASSUME NEW i \in DOMAIN arArgs PROVE i \in arFound
    BY <1>1, <1>2 DEF ArInv
  <2>1. Settled(i) /\ arArgs[i] # "bad" /\ ~arFailed /\ arRun[i] \in {"off", "done"} /\ i < arNext
    BY <1>1, <1>2 DEF ArInv, Settled
  <2> QED BY <1>1, <2>1 DEF Settled
<1> QED BY <1>2 DEF ArInv, ArComplete

\* What swarm filters and swarm limits report is what is in use and what the
\* configuration has, unless their commands overlapped or the disk failed, and
\* swarm connect reports every address it was given (swarmFiltersAddCmd,
\* swarmLimitCmd, resolveAddresses).
THEOREM SwarmHolds ==
    SwInit /\ ArInit /\ [][SwNext]_swVars /\ [][ArNext]_arVars => []SwarmSound
<1>1. SwInit /\ ArInit => SwInv /\ ArInv
  BY SwarmInit, AddressesInit
<1>2. SwInv /\ [SwNext]_swVars => SwInv'
  BY SwarmStep
<1>3. ArInv /\ [ArNext]_arVars => ArInv'
  BY AddressesStep
<1>4. SwInv /\ ArInv => SwarmSound
  BY SwInvIs, ArInvIs DEF SettingsSound, SwarmSound
<1> QED BY <1>1, <1>2, <1>3, <1>4, PTL
-----------------------------------------------------------------------------
(* The command line: what a command may be at each of its stages, ...      *)
CommandOK(p, k, lock, file) ==
    /\ k.pc = "idle" => k = ClIdle
    /\ k.pc \in {"initCheck", "initWrite", "initAssets"} => k.kind = "init"
    /\ k.pc = "plain" => k.kind = "noRepo"
    /\ k.pc = "serving" => k.kind = "daemon"
    /\ k.api /\ k.pc = "local" => k.kind \in {"daemon", "init", "noRepo"}
    /\ k.api /\ k.pc = "node" => k.kind \in {"daemon", "init"}
    /\ k.api /\ k.pc = "dial" => ~k.fallback
    /\ k.pc \in {"node", "serving"} => lock = p
    /\ k.pc = "serving" => file = p

(* ... that no two inits write unless two have overlapped, ...             *)
WritingInits == {p \in ClProcs : clCmd[p].pc = "initWrite"}
InitsOK ==
    ~clTwoInits => /\ \A p, q \in WritingInits : p = q
                   /\ clIdentity # 0 => WritingInits = {}

(* ... and that every identity was made by a command of its own.           *)
Unwritten == {p \in ClProcs : clCmd[p].pc \in {"choose", "local", "dial", "initCheck", "initWrite"}}
RunsCounted == clIdentity + Cardinality(Unwritten) <= clRuns

ClInv ==
    /\ ClTypeOK /\ InitsOK /\ RunsCounted
    /\ \A p \in ClProcs : CommandOK(p, clCmd[p], clLock, clFile)

LEMMA ClIdleIs ==
    /\ ClIdle \in ClCommand /\ ClIdle.pc = "idle" /\ ClIdle.kind = "either" /\ ClIdle.api = FALSE
    /\ ClIdle.to = NoProc /\ ClIdle.fallback = FALSE
    /\ \A p, lock, file : CommandOK(p, ClIdle, lock, file)
BY DEF ClIdle, ClCommand, CommandOK, Kinds

LEMMA UnwrittenFinite ==
    ASSUME NEW S, S \subseteq ClProcs
    PROVE  IsFiniteSet(S) /\ Cardinality(S) \in Nat
BY CommandLineAssumption, FS_Subset, FS_CardinalityType

LEMMA CommandLineInit == ClInit => ClInv
<1> SUFFICES ASSUME ClInit PROVE ClInv
  OBVIOUS
<1>1. \A p \in ClProcs : clCmd[p] = ClIdle
  BY DEF ClInit
<1>2. 0 \in 0..MaxRuns
  BY CommandLineAssumption
<1>3. ClTypeOK
  BY <1>2, ClIdleIs DEF ClInit, ClTypeOK
<1>4. Unwritten = {} /\ WritingInits = {}
  BY <1>1, ClIdleIs DEF Unwritten, WritingInits
<1>5. RunsCounted
  <2>1. Cardinality(Unwritten) = 0 /\ clIdentity = 0 /\ clRuns = 0
    BY <1>4, FS_EmptySet DEF ClInit
  <2> QED BY <2>1 DEF RunsCounted
<1>6. InitsOK
  BY <1>4 DEF InitsOK
<1> QED BY <1>1, <1>3, <1>5, <1>6, ClIdleIs DEF ClInv

(* A step of one command that makes no identity, with the runs begun.      *)
LEMMA ClCmdStep ==
    ASSUME ClInv, NEW p \in ClProcs, NEW k \in ClCommand, clCmd' = [clCmd EXCEPT ![p] = k],
           CommandOK(p, k, clLock', clFile'), clIdentity' = clIdentity, clRuns' = clRuns,
           clTwoInits' \in BOOLEAN, clTwoInits => clTwoInits',
           k.pc = "initWrite" /\ ~clTwoInits' => clIdentity = 0 /\ WritingInits = {},
           k.pc \in {"choose", "local", "dial", "initCheck", "initWrite"} => p \in Unwritten,
           clLock' \in ClProcs \cup {NoProc}, clFile' \in ClProcs \cup {NoProc},
           \A q \in ClProcs \ {p} : /\ clCmd[q].pc \in {"node", "serving"} => clLock' = q
                                    /\ clCmd[q].pc = "serving" => clFile' = q
    PROVE  ClInv'
<1>1. /\ clCmd' \in [ClProcs -> ClCommand] /\ clCmd'[p] = k
      /\ \A q \in ClProcs \ {p} : clCmd'[q] = clCmd[q]
  BY DEF ClInv, ClTypeOK
<1>2. ClTypeOK'
  BY <1>1 DEF ClInv, ClTypeOK
<1>3. \A q \in ClProcs : CommandOK(q, clCmd'[q], clLock', clFile')
  <2> SUFFICES ASSUME NEW q \in ClProcs, q # p PROVE CommandOK(q, clCmd[q], clLock', clFile')
    BY <1>1
  <2>1. CommandOK(q, clCmd[q], clLock, clFile)
    BY DEF ClInv
  <2> QED BY <2>1 DEF CommandOK
<1>4. InitsOK'
  <2> SUFFICES ASSUME ~clTwoInits' PROVE (\A q, r \in WritingInits' : q = r) /\ (clIdentity # 0 => WritingInits' = {})
    BY DEF InitsOK
  <2>1. (\A q, r \in WritingInits : q = r) /\ (clIdentity # 0 => WritingInits = {})
    BY DEF ClInv, InitsOK
  <2>2. CASE k.pc = "initWrite"
    <3>1. WritingInits' = {p}
      BY <1>1, <2>2 DEF WritingInits
    <3> QED BY <2>2, <3>1
  <2>3. CASE k.pc # "initWrite"
    <3>1. WritingInits' \subseteq WritingInits
      BY <1>1, <2>3 DEF WritingInits
    <3> QED BY <2>1, <3>1
  <2> QED BY <2>2, <2>3
<1>5. RunsCounted'
  <2>1. Unwritten' \subseteq Unwritten
    BY <1>1 DEF Unwritten
  <2>2. Unwritten \subseteq ClProcs
    BY DEF Unwritten
  <2>3. Cardinality(Unwritten') <= Cardinality(Unwritten)
    BY <2>1, <2>2, UnwrittenFinite, FS_Subset
  <2>4. Cardinality(Unwritten') \in Nat /\ Cardinality(Unwritten) \in Nat
    BY <2>1, <2>2, UnwrittenFinite
  <2>5. clIdentity \in Nat /\ clRuns \in Nat
    BY DEF ClInv, ClTypeOK
  <2> QED BY <2>3, <2>4, <2>5 DEF ClInv, RunsCounted
<1> QED BY <1>2, <1>3, <1>4, <1>5 DEF ClInv

(* What the stages of a command say of it.                                 *)
LEMMA CommandIs ==
    ASSUME ClInv, NEW p \in ClProcs
    PROVE  /\ clCmd[p] \in ClCommand /\ CommandOK(p, clCmd[p], clLock, clFile)
           /\ clLock \in ClProcs \cup {NoProc} /\ clFile \in ClProcs \cup {NoProc} /\ clTwoInits \in BOOLEAN
           /\ NoProc \notin ClProcs /\ clCmd \in [ClProcs -> ClCommand]
           /\ (p \in Unwritten <=> clCmd[p].pc \in {"choose", "local", "dial", "initCheck", "initWrite"})
           /\ (p \in WritingInits <=> clCmd[p].pc = "initWrite")
           /\ \A q \in ClProcs : /\ clCmd[q].pc \in {"node", "serving"} => clLock = q
                                 /\ clCmd[q].pc = "serving" => clFile = q
BY CommandLineAssumption DEF ClInv, ClTypeOK, CommandOK, NoProc, Unwritten, WritingInits

(* ClGoto: one field changes.                                              *)
LEMMA GotoIs ==
    ASSUME NEW k \in ClCommand, NEW pc \in {"idle", "choose", "local", "dial", "remote", "node", "plain", "serving",
                                            "initCheck", "initWrite", "initAssets"},
           NEW g, g = [k EXCEPT !.pc = pc]
    PROVE  /\ g \in ClCommand /\ g.pc = pc /\ g.kind = k.kind /\ g.api = k.api
           /\ g.fallback = k.fallback /\ g.to = k.to
BY DEF ClCommand

LEMMA GotoStep ==
    ASSUME ClInv, NEW p \in ClProcs,
           NEW pc \in {"local", "remote", "node", "plain", "serving", "initCheck", "initWrite", "initAssets"},
           ClGoto(p, pc), pc \in {"local", "initCheck", "initWrite"} => p \in Unwritten,
           \A g : g.pc = pc /\ g.kind = clCmd[p].kind /\ g.api = clCmd[p].api
                      => CommandOK(p, g, clLock', clFile'),
           clIdentity' = clIdentity, clRuns' = clRuns, clTwoInits' \in BOOLEAN, clTwoInits => clTwoInits',
           pc = "initWrite" /\ ~clTwoInits' => clIdentity = 0 /\ WritingInits = {},
           clLock' \in ClProcs \cup {NoProc}, clFile' \in ClProcs \cup {NoProc},
           \A q \in ClProcs \ {p} : /\ clCmd[q].pc \in {"node", "serving"} => clLock' = q
                                    /\ clCmd[q].pc = "serving" => clFile' = q
    PROVE  ClInv'
<1> DEFINE g == [clCmd[p] EXCEPT !.pc = pc]
<1>1. g \in ClCommand /\ g.pc = pc /\ g.kind = clCmd[p].kind /\ g.api = clCmd[p].api
  BY GotoIs, CommandIs
<1>2. clCmd' = [clCmd EXCEPT ![p] = g]
  BY DEF ClGoto
<1> HIDE DEF g
<1> QED BY <1>1, <1>2, ClCmdStep

LEMMA EndStep ==
    ASSUME ClInv, NEW p \in ClProcs, ClEnd(p), clIdentity' = clIdentity, clRuns' = clRuns, clTwoInits' \in BOOLEAN,
           clTwoInits => clTwoInits', clLock' \in ClProcs \cup {NoProc}, clFile' \in ClProcs \cup {NoProc},
           \A q \in ClProcs \ {p} : /\ clCmd[q].pc \in {"node", "serving"} => clLock' = q
                                    /\ clCmd[q].pc = "serving" => clFile' = q
    PROVE  ClInv'
BY ClIdleIs, ClCmdStep DEF ClEnd
LEMMA BeginStep ==
    ASSUME ClInv, NEW p \in ClProcs, NEW kind \in Kinds, NEW api \in BOOLEAN, ClBegin(p, kind, api)
    PROVE  ClInv'
<1> DEFINE k == [ClIdle EXCEPT !.kind = kind, !.api = api, !.pc = "choose"]
<1>1. k \in ClCommand /\ k.pc = "choose"
  BY ClIdleIs DEF ClCommand
<1>2. /\ clCmd[p] = ClIdle /\ clRuns < MaxRuns /\ clRuns' = clRuns + 1 /\ clCmd' = [clCmd EXCEPT ![p] = k]
      /\ UNCHANGED <<clLock, clFile, clIdentity, clTwoInits>>
  BY DEF ClBegin
<1> HIDE DEF k
<1>3. /\ clCmd' \in [ClProcs -> ClCommand] /\ clCmd'[p] = k
      /\ \A q \in ClProcs \ {p} : clCmd'[q] = clCmd[q]
  BY <1>1, <1>2 DEF ClInv, ClTypeOK
<1>4. clRuns \in 0..MaxRuns /\ clRuns \in Nat /\ clRuns' \in 0..MaxRuns /\ clIdentity \in Nat
  BY <1>2, CommandLineAssumption DEF ClInv, ClTypeOK
<1>5. ClTypeOK'
  BY <1>2, <1>3, <1>4 DEF ClInv, ClTypeOK
<1>6. Unwritten' = Unwritten \cup {p} /\ p \notin Unwritten /\ WritingInits' = WritingInits /\ Unwritten \subseteq ClProcs
  BY <1>1, <1>2, <1>3, ClIdleIs DEF Unwritten, WritingInits
<1>7. InitsOK'
  BY <1>2, <1>6 DEF ClInv, InitsOK
<1>8. RunsCounted'
  <2>1. Cardinality(Unwritten') = Cardinality(Unwritten) + 1 /\ Cardinality(Unwritten) \in Nat
    BY <1>6, UnwrittenFinite, FS_AddElement
  <2> QED BY <1>2, <1>4, <2>1 DEF ClInv, RunsCounted
<1>9. \A q \in ClProcs : CommandOK(q, clCmd'[q], clLock', clFile')
  <2>1. CommandOK(p, k, clLock, clFile)
    BY <1>1 DEF CommandOK
  <2> QED BY <1>2, <1>3, <2>1 DEF ClInv
<1> QED BY <1>5, <1>7, <1>8, <1>9 DEF ClInv

LEMMA WriteStep ==
    ASSUME ClInv, NEW p \in ClProcs, InitWrite(p)
    PROVE  ClInv' /\ (clIdentity # 0 => clTwoInits')
<1> DEFINE k == [clCmd[p] EXCEPT !.pc = "initAssets"]
<1>1. k \in ClCommand /\ k.pc = "initAssets" /\ k.kind = clCmd[p].kind
  BY GotoIs, CommandIs
<1>2. /\ clCmd[p].pc = "initWrite" /\ clIdentity' = clIdentity + 1 /\ clCmd' = [clCmd EXCEPT ![p] = k]
      /\ UNCHANGED <<clLock, clFile, clRuns, clTwoInits>>
  BY DEF InitWrite, ClGoto
<1> HIDE DEF k
<1>3. /\ clCmd' \in [ClProcs -> ClCommand] /\ clCmd'[p] = k
      /\ \A q \in ClProcs \ {p} : clCmd'[q] = clCmd[q]
  BY <1>1, <1>2 DEF ClInv, ClTypeOK
<1>4. /\ Unwritten' = Unwritten \ {p} /\ p \in Unwritten /\ WritingInits' = WritingInits \ {p} /\ p \in WritingInits
      /\ Unwritten \subseteq ClProcs
  BY <1>1, <1>2, <1>3 DEF Unwritten, WritingInits
<1>5. clIdentity + 1 \in 0..MaxRuns /\ RunsCounted'
  <2>1. Cardinality(Unwritten') = Cardinality(Unwritten) - 1 /\ Cardinality(Unwritten) \in Nat
        /\ Cardinality(Unwritten') \in Nat
    BY <1>4, UnwrittenFinite, FS_RemoveElement
  <2>2. clIdentity \in Nat /\ clRuns \in 0..MaxRuns /\ MaxRuns \in Nat
    BY CommandLineAssumption DEF ClInv, ClTypeOK
  <2> QED BY <1>2, <2>1, <2>2 DEF ClInv, RunsCounted
<1>6. ClTypeOK'
  BY <1>2, <1>3, <1>5 DEF ClInv, ClTypeOK
<1>7. clIdentity # 0 => clTwoInits
  BY <1>4 DEF ClInv, InitsOK
<1>8. InitsOK'
  <2>1. ~clTwoInits => WritingInits' = {}
    BY <1>4 DEF ClInv, InitsOK
  <2> QED BY <1>2, <2>1 DEF InitsOK
<1>9. \A q \in ClProcs : CommandOK(q, clCmd'[q], clLock', clFile')
  <2>1. CommandOK(p, k, clLock, clFile)
    BY <1>1, <1>2, CommandIs DEF CommandOK
  <2> QED BY <1>2, <1>3, <2>1 DEF ClInv
<1> QED BY <1>2, <1>5, <1>6, <1>7, <1>8, <1>9 DEF ClInv

LEMMA ChooseStep ==
    ASSUME ClInv, NEW p \in ClProcs, NEW addr \in ClProcs \cup {NoProc}, MakeExecutor(p, addr)
    PROVE  ClInv'
<1> DEFINE k == clCmd[p].kind
           api == clCmd[p].api
           here == [clCmd[p] EXCEPT !.pc = "local"]
           away == [clCmd[p] EXCEPT !.pc = "dial", !.to = addr, !.fallback = ~(api /\ k # "daemon") /\ clIdentity # 0]
           new == IF ~NoLocal(k) /\ DoesNotUseRepo(k) THEN here
                  ELSE IF NoRemote(k) THEN (IF api /\ k # "daemon" THEN ClIdle ELSE here)
                  ELSE IF addr = NoProc /\ ~api THEN (IF NoLocal(k) THEN ClIdle ELSE here)
                  ELSE away
<1>1. clCmd' = [clCmd EXCEPT ![p] = new] /\ clCmd[p].pc = "choose"
      /\ UNCHANGED <<clLock, clFile, clIdentity, clRuns, clTwoInits>>
  BY DEF MakeExecutor
<1>2. clCmd[p] \in ClCommand /\ k \in Kinds /\ api \in BOOLEAN
  BY CommandIs DEF ClCommand
<1>3. here \in ClCommand /\ here.pc = "local" /\ here.kind = k /\ here.api = api
  BY <1>2, GotoIs
<1>4. away \in ClCommand /\ away.pc = "dial" /\ away.kind = k /\ away.api = api
      /\ away.fallback = (~(api /\ k # "daemon") /\ clIdentity # 0)
  <2> DEFINE f == ~(api /\ k # "daemon") /\ clIdentity # 0
  <2>1. f \in BOOLEAN
    BY Zenon
  <2> HIDE DEF f
  <2>2. /\ [clCmd[p] EXCEPT !.pc = "dial", !.to = addr, !.fallback = f] \in ClCommand
        /\ [clCmd[p] EXCEPT !.pc = "dial", !.to = addr, !.fallback = f].pc = "dial"
        /\ [clCmd[p] EXCEPT !.pc = "dial", !.to = addr, !.fallback = f].kind = k
        /\ [clCmd[p] EXCEPT !.pc = "dial", !.to = addr, !.fallback = f].api = api
        /\ [clCmd[p] EXCEPT !.pc = "dial", !.to = addr, !.fallback = f].fallback = f
    BY <1>2, <2>1 DEF ClCommand
  <2> QED BY <2>2 DEF f
<1> HIDE DEF here, away
<1>5. new \in ClCommand /\ CommandOK(p, new, clLock, clFile) /\ new.pc # "initWrite" /\ new.pc # "initCheck"
  <2>1. CASE new = ClIdle
    BY <2>1, ClIdleIs
  <2>2. CASE new = here /\ (api => k \in {"daemon", "init", "noRepo"})
    BY <1>3, <2>2 DEF CommandOK
  <2>3. CASE new = away /\ k # "daemon"
    BY <1>4, <2>3 DEF CommandOK
  <2>4. \/ new = ClIdle
        \/ new = here /\ (api => k \in {"daemon", "init", "noRepo"})
        \/ new = away /\ k # "daemon"
    BY DEF NoLocal, NoRemote, DoesNotUseRepo
  <2> QED BY <2>1, <2>2, <2>3, <2>4
<1> HIDE DEF new
<1> QED BY <1>1, <1>5, ClCmdStep, CommandIs

LEMMA DialStep ==
    ASSUME ClInv, NEW p \in ClProcs, NEW same \in BOOLEAN, ClDial(p, same)
    PROVE  ClInv'
<1>1. clCmd[p].pc = "dial" /\ UNCHANGED <<clLock, clFile, clIdentity, clRuns, clTwoInits>>
      /\ \/ ClGoto(p, "remote")
         \/ ClGoto(p, "local") /\ clCmd[p].fallback
         \/ ClEnd(p)
  BY DEF ClDial, ClGoto, ClEnd
<1>2. CASE ClGoto(p, "remote")
  <2>1. \A g : g.pc = "remote" => CommandOK(p, g, clLock', clFile')
    BY DEF CommandOK
  <2> QED BY <1>1, <1>2, <2>1, GotoStep, CommandIs
<1>3. CASE ClGoto(p, "local") /\ clCmd[p].fallback
  <2>1. \A g : g.pc = "local" /\ g.kind = clCmd[p].kind /\ g.api = clCmd[p].api => CommandOK(p, g, clLock', clFile')
    BY <1>1, <1>3, CommandIs DEF CommandOK
  <2> QED BY <1>1, <1>3, <2>1, GotoStep, CommandIs
<1>4. CASE ClEnd(p)
  BY <1>1, <1>4, EndStep, CommandIs
<1> QED BY <1>1, <1>2, <1>3, <1>4

LEMMA LocalSteps ==
    ASSUME ClInv, NEW p \in ClProcs, ClLocal(p) \/ ClServe(p) \/ InitAssets(p)
    PROVE  ClInv'
<1>1. CASE ClLocal(p)
  <2>1. clCmd[p].pc = "local" /\ UNCHANGED <<clFile, clIdentity, clRuns, clTwoInits>> /\ clCmd[p].kind # "init"
        /\ \/ clCmd[p].kind = "noRepo" /\ ClGoto(p, "plain") /\ UNCHANGED clLock
           \/ ClEnd(p) /\ UNCHANGED clLock
           \/ clCmd[p].kind # "noRepo" /\ clLock = NoProc /\ ClGoto(p, "node") /\ clLock' = p
    BY <1>1 DEF ClLocal
  <2>2. CASE clCmd[p].kind = "noRepo" /\ ClGoto(p, "plain") /\ UNCHANGED clLock
    <3>1. \A g : g.pc = "plain" /\ g.kind = clCmd[p].kind => CommandOK(p, g, clLock', clFile')
      BY <2>2 DEF CommandOK
    <3> QED BY <2>1, <2>2, <3>1, GotoStep, CommandIs
  <2>3. CASE ClEnd(p) /\ UNCHANGED clLock
    BY <2>1, <2>3, EndStep, CommandIs
  <2>4. CASE clCmd[p].kind # "noRepo" /\ clLock = NoProc /\ ClGoto(p, "node") /\ clLock' = p
    <3>1. \A g : g.pc = "node" /\ g.kind = clCmd[p].kind /\ g.api = clCmd[p].api => CommandOK(p, g, clLock', clFile')
      BY <2>1, <2>4, CommandIs DEF CommandOK
    <3>2. \A q \in ClProcs : clCmd[q].pc \notin {"node", "serving"}
      BY <2>4, CommandIs
    <3> QED BY <2>1, <2>4, <3>1, <3>2, GotoStep, CommandIs
  <2> QED BY <2>1, <2>2, <2>3, <2>4
<1>2. CASE ClServe(p)
  <2>1. /\ clCmd[p].kind = "daemon" /\ clCmd[p].pc = "node" /\ ClGoto(p, "serving") /\ clFile' = p /\ clLock = p
        /\ UNCHANGED <<clLock, clIdentity, clRuns, clTwoInits>>
    BY <1>2, CommandIs DEF ClServe
  <2>2. \A g : g.pc = "serving" /\ g.kind = clCmd[p].kind /\ g.api = clCmd[p].api => CommandOK(p, g, clLock', clFile')
    BY <2>1 DEF CommandOK
  <2>3. \A q \in ClProcs \ {p} : clCmd[q].pc \notin {"node", "serving"}
    BY <2>1, CommandIs
  <2> QED BY <2>1, <2>2, <2>3, GotoStep, CommandIs
<1>3. CASE InitAssets(p)
  <2>1. clCmd[p].pc = "initAssets" /\ UNCHANGED <<clFile, clIdentity, clRuns, clTwoInits>>
        /\ \/ ClEnd(p) /\ UNCHANGED clLock
           \/ clLock = NoProc /\ ClGoto(p, "node") /\ clLock' = p
    BY <1>3 DEF InitAssets
  <2>2. CASE ClEnd(p) /\ UNCHANGED clLock
    BY <2>1, <2>2, EndStep, CommandIs
  <2>3. CASE clLock = NoProc /\ ClGoto(p, "node") /\ clLock' = p
    <3>1. \A g : g.pc = "node" /\ g.kind = clCmd[p].kind /\ g.api = clCmd[p].api => CommandOK(p, g, clLock', clFile')
      BY <2>1, <2>3, CommandIs DEF CommandOK
    <3>2. \A q \in ClProcs : clCmd[q].pc \notin {"node", "serving"}
      BY <2>3, CommandIs
    <3> QED BY <2>1, <2>3, <3>1, <3>2, GotoStep, CommandIs
  <2> QED BY <2>1, <2>2, <2>3
<1> QED BY <1>1, <1>2, <1>3

LEMMA InitSteps ==
    ASSUME ClInv, NEW p \in ClProcs, InitCmd(p) \/ DoInit(p)
    PROVE  ClInv'
<1>1. CASE InitCmd(p)
  <2>1. /\ ClGoto(p, "initCheck") \/ ClEnd(p)
        /\ UNCHANGED <<clLock, clFile, clIdentity, clRuns, clTwoInits>>
    BY <1>1 DEF InitCmd
  <2>2. clCmd[p].pc = "local" /\ clCmd[p].kind = "init"
    BY <1>1 DEF InitCmd
  <2>3. CASE ClGoto(p, "initCheck")
    <3>1. \A g : g.pc = "initCheck" /\ g.kind = clCmd[p].kind => CommandOK(p, g, clLock', clFile')
      BY <2>2 DEF CommandOK
    <3> QED BY <2>1, <2>2, <2>3, <3>1, GotoStep, CommandIs
  <2>4. CASE ClEnd(p)
    BY <2>1, <2>4, EndStep, CommandIs
  <2> QED BY <2>1, <2>3, <2>4
<1>2. CASE DoInit(p)
  <2>1. /\ clCmd[p].pc = "initCheck" /\ UNCHANGED <<clLock, clFile, clIdentity, clRuns>>
        /\ clTwoInits' = (clTwoInits \/ \E q \in ClProcs \ {p} : Initializing(q))
    BY <1>2 DEF DoInit
  <2>2. clTwoInits' \in BOOLEAN
    BY <2>1, Zenon
  <2>3. CASE clIdentity # 0
    BY <1>2, <2>1, <2>2, <2>3, EndStep, CommandIs DEF DoInit
  <2>4. CASE clIdentity = 0
    <3>1. ClGoto(p, "initWrite")
      BY <1>2, <2>4 DEF DoInit
    <3>2. \A g : g.pc = "initWrite" /\ g.kind = clCmd[p].kind => CommandOK(p, g, clLock', clFile')
      BY <2>1, CommandIs DEF CommandOK
    <3>3. ~clTwoInits' => WritingInits = {}
      BY <2>1 DEF Initializing, WritingInits
    <3> QED BY <2>1, <2>2, <2>4, <3>1, <3>2, <3>3, GotoStep, CommandIs
  <2> QED BY <2>3, <2>4
<1> QED BY <1>1, <1>2

LEMMA EndSteps ==
    ASSUME ClInv, NEW p \in ClProcs, ClAnswered(p) \/ ClClose(p) \/ ClCrash(p)
    PROVE  ClInv'
<1>1. ClEnd(p) /\ UNCHANGED <<clIdentity, clRuns, clTwoInits>>
  BY DEF ClAnswered, ClClose, ClCrash
<1>2. /\ clLock' \in {clLock, NoProc} /\ (clLock' # clLock => clLock = p)
      /\ clFile' \in {clFile, NoProc} /\ (clFile' # clFile => clLock = p)
  BY DEF ClAnswered, ClClose, ClCrash
<1>3. \A q \in ClProcs \ {p} : /\ clCmd[q].pc \in {"node", "serving"} => clLock' = q
                               /\ clCmd[q].pc = "serving" => clFile' = q
  BY <1>2, CommandIs
<1> QED BY <1>1, <1>2, <1>3, EndStep, CommandIs

LEMMA CommandLineStep == ClInv /\ [ClNext]_clVars => ClInv' /\ (clIdentity # 0 /\ clIdentity' # clIdentity => clTwoInits')
<1> SUFFICES ASSUME ClInv, [ClNext]_clVars
             PROVE  ClInv' /\ (clIdentity # 0 /\ clIdentity' # clIdentity => clTwoInits')
  OBVIOUS
<1>1. CASE UNCHANGED clVars
  BY <1>1 DEF clVars, ClInv, ClTypeOK, InitsOK, RunsCounted, WritingInits, Unwritten
<1>2. CASE ClNext
  <2>1. PICK p \in ClProcs :
            \/ \E kind \in Kinds, api \in BOOLEAN : ClBegin(p, kind, api)
            \/ \E addr \in ClProcs \cup {NoProc} : MakeExecutor(p, addr)
            \/ \E same \in BOOLEAN : ClDial(p, same)
            \/ ClAnswered(p) \/ ClLocal(p) \/ ClServe(p) \/ ClClose(p)
            \/ InitCmd(p) \/ DoInit(p) \/ InitWrite(p) \/ InitAssets(p) \/ ClCrash(p)
    BY <1>2 DEF ClNext
  <2>2. CASE InitWrite(p)
    BY <2>2, WriteStep
  <2>3. CASE ~InitWrite(p)
    <3>1. clIdentity' = clIdentity
      BY <2>1, <2>3 DEF ClBegin, MakeExecutor, ClDial, ClAnswered, ClLocal, ClServe, ClClose, InitCmd, DoInit,
                        InitAssets, ClCrash
    <3> QED BY <2>1, <2>3, <3>1, BeginStep, ChooseStep, DialStep, LocalSteps, InitSteps, EndSteps
  <2> QED BY <2>2, <2>3
<1> QED BY <1>1, <1>2

LEMMA ClInvIs == ClInv => ClSound
BY CommandIs DEF ClInv, ClSound, ClApiMeansDaemon, ClDaemonAlone, CommandOK

\* A command that was given --api never works on this process's repository,
\* and a daemon that serves is alone and named by the api file, for any number
\* of processes, deaths included (makeExecutor, Close).
THEOREM CommandLineSound == ClInit /\ [][ClNext]_clVars => []ClSound
<1>1. ClInit => ClInv
  BY CommandLineInit
<1>2. ClInv /\ [ClNext]_clVars => ClInv'
  BY CommandLineStep
<1>3. ClInv => ClSound
  BY ClInvIs
<1> QED BY <1>1, <1>2, <1>3, PTL

\* init replaces the identity of a repository only when two inits overlapped
\* (errRepoExists).
THEOREM IdentityKept == ClInit /\ [][ClNext]_clVars => ClIdentityKept
<1>1. ClInit => ClInv
  BY CommandLineInit
<1>2. ClInv /\ [ClNext]_clVars
          => ClInv' /\ [clIdentity # 0 /\ clIdentity' # clIdentity => clTwoInits']_clVars
  BY CommandLineStep
<1> QED BY <1>1, <1>2, PTL DEF ClIdentityKept
-----------------------------------------------------------------------------
(* ipfs files: three paths, one of them in the first, ...                  *)
PathA == <<"a">>
PathB == <<"b">>
PathX == <<"a", "x">>

LEMMA PathsAre ==
    /\ MfPaths = {PathA, PathB, PathX} /\ Slash \notin MfPaths
    /\ PathA # PathB /\ PathA # PathX /\ PathB # PathX
    /\ ParentOf(PathA) = Slash /\ ParentOf(PathB) = Slash /\ ParentOf(PathX) = PathA
    /\ Len(PathA) = 1 /\ Len(PathB) = 1 /\ Len(PathX) = 2 /\ ParentOf(Slash) = Slash
<1>1. /\ MfPaths = {PathA, PathB, PathX} /\ Slash \notin MfPaths
      /\ PathA # PathB /\ PathA # PathX /\ PathB # PathX
      /\ Len(PathA) = 1 /\ Len(PathB) = 1 /\ Len(PathX) = 2
  BY DEF MfPaths, PathA, PathB, PathX, Slash
<1>2. ParentOf(PathA) = Slash /\ ParentOf(PathB) = Slash /\ ParentOf(Slash) = Slash
  BY DEF ParentOf, PathA, PathB, Slash
<1>3. ParentOf(PathX) = PathA
  <2> DEFINE s == SubSeq(PathX, 1, 1)
  <2>1. PathX # Slash /\ Len(PathX) = 2 /\ PathX[1] = "a" /\ PathX \in Seq({"a", "x"})
    <3>1. \A a, b : <<a, b>> # <<>> /\ Len(<<a, b>>) = 2 /\ <<a, b>>[1] = a
      OBVIOUS
    <3>2. \A a, b : <<a, b>> \in Seq({a, b})
      OBVIOUS
    <3> QED BY <3>1, <3>2 DEF PathX, Slash
  <2>2. s \in Seq({"a", "x"}) /\ Len(s) = 1 /\ s[1] = "a"
    BY <2>1
  <2> HIDE DEF s
  <2>3. s = <<"a">>
    BY <2>2
  <2> QED BY <2>1, <2>3 DEF ParentOf, PathA, s
<1> QED BY <1>1, <1>2, <1>3

LEMMA UnderIs ==
    ASSUME NEW q \in MfPaths, NEW p \in MfPaths \cup {Slash}
    PROVE  Under(q, p) <=> p = Slash \/ p = q \/ (p = PathA /\ q = PathX)
<1>1. CASE p = Slash
  BY <1>1 DEF Under, Slash, MfPaths
<1>2. CASE p # Slash
  BY <1>2 DEF Under, Slash, MfPaths, PathA, PathX
<1> QED BY <1>1, <1>2

\* The place in a moved directory.
LEMMA MovedIs ==
    ASSUME NEW src \in MfPaths, NEW dst \in MfPaths
    PROVE  /\ Moved(src, src, dst) = dst
           /\ Moved(PathX, PathA, dst) \in MfPaths => dst = PathA
<1>1. Moved(src, src, dst) = dst
  BY DEF Moved, MfPaths
<1>2. Moved(PathX, PathA, dst) = dst \o <<"x">>
  BY DEF Moved, MfPaths, PathA, PathX
<1>3. dst \o <<"x">> \in MfPaths => dst = PathA
  <2> DEFINE s == dst \o <<"x">>
  <2>1. dst \in Seq({"a", "b", "x"}) /\ Len(dst) \in {1, 2}
    <3>1. ASSUME NEW a, NEW b, NEW x, NEW d \in {<<a>>, <<b>>, <<a, x>>}
          PROVE  d \in Seq({a, b, x}) /\ Len(d) \in {1, 2}
      <4>1. <<a>> \in Seq({a, b, x}) /\ <<b>> \in Seq({a, b, x}) /\ <<a, x>> \in Seq({a, b, x})
        OBVIOUS
      <4>2. Len(<<a>>) = 1 /\ Len(<<b>>) = 1 /\ Len(<<a, x>>) = 2
        OBVIOUS
      <4> QED BY <4>1, <4>2, <3>1, Zenon
    <3>2. \A d \in {<<"a">>, <<"b">>, <<"a", "x">>} : d \in Seq({"a", "b", "x"}) /\ Len(d) \in {1, 2}
      BY <3>1
    <3> QED BY <3>2 DEF MfPaths
  <2>2. Len(s) = Len(dst) + 1 /\ s[1] = dst[1]
    BY <2>1
  <2> HIDE DEF s
  <2>3. s \in MfPaths => Len(s) = 2 /\ s[1] = "a"
    BY <2>1, <2>2 DEF MfPaths
  <2>4. s \in MfPaths => Len(dst) = 1 /\ dst[1] = "a"
    BY <2>1, <2>2, <2>3
  <2>5. dst # PathB /\ dst # PathX => dst = PathA
    BY PathsAre
  <2>6. Len(dst) = 1 /\ dst[1] = "a" => dst = PathA
    BY <2>5 DEF PathB, PathX
  <2> QED BY <2>4, <2>6 DEF s
<1> QED BY <1>1, <1>2, <1>3

LEMMA WellFormedIs == \A t : WellFormed(t) <=> (t[PathX] # "none" => t[PathA] = "dir")
BY PathsAre DEF WellFormed, IsDir

(* ... what a command has of them, ...                                     *)
FilesCommandOK(j) ==
    /\ j.pc \in {"put", "handle", "open", "copy", "close"} => j.path \in MfPaths
    /\ j.pc \in {"handle", "open", "copy", "close"} => j.data \in MfData

(* ... and that the root has what a command flushed and nobody changed, and *)
(* the datastore too what was reported.                                     *)
Kept ==
    /\ \A p \in mfAcked : mfDisk[p] = mfTree[p] /\ mfRoot[p] = mfTree[p]
    /\ \A c \in MfClients : \A p \in mfFresh[c] : mfRoot[p] = mfTree[p]

MfInv == MfTypeOK /\ MfTrees /\ Kept /\ \A c \in MfClients : FilesCommandOK(mfJob[c])

LEMMA MfIdleIs == MfIdle \in FilesCommand /\ FilesCommandOK(MfIdle) /\ MfIdle.pc = "idle" /\ MfIdle.path = Slash
BY DEF MfIdle, FilesCommand, FilesCommandOK, MfNodes

LEMMA FilesInit == MfInit => MfInv
<1> SUFFICES ASSUME MfInit PROVE MfInv
  OBVIOUS
<1>1. mfTree \in [MfPaths -> MfNodes]
  BY DEF MfInit, MfNodes
<1>2. \A p \in MfPaths : mfTree[p] = "none"
  BY DEF MfInit
<1>3. MfTrees
  BY <1>2 DEF MfTrees, WellFormed, MfInit
<1>4. mfCount \in 0..MaxCommands
  BY FilesAssumption DEF MfInit
<1>5. MfTypeOK
  BY <1>1, <1>4, MfIdleIs DEF MfInit, MfTypeOK
<1>6. Kept
  BY DEF Kept, MfInit
<1>7. \A c \in MfClients : FilesCommandOK(mfJob[c])
  BY MfIdleIs DEF MfInit
<1> QED BY <1>3, <1>5, <1>6, <1>7 DEF MfInv

\* A flush brings what is below its path into the root, and nothing but tree.
LEMMA FlushedIs ==
    ASSUME MfInv, NEW t \in [MfPaths -> MfNodes], WellFormed(t), NEW p \in MfPaths \cup {Slash}, NEW r \in Flushed(t, p)
    PROVE  /\ r \in [MfPaths -> MfNodes] /\ WellFormed(r)
           /\ \A q \in MfPaths : r[q] \in {t[q], mfRoot[q]} /\ (Under(q, p) => r[q] = t[q])
<1>1. PICK extra \in {{}, MfPaths} :
        r = [q \in MfPaths |-> IF Under(q, p) \/ Under(p, q) \/ q \in extra THEN t[q] ELSE mfRoot[q]]
  BY DEF Flushed
<1>2. mfRoot \in [MfPaths -> MfNodes]
  BY DEF MfInv, MfTypeOK
<1>3. \A q \in MfPaths : r[q] \in {t[q], mfRoot[q]} /\ (Under(q, p) => r[q] = t[q])
  BY <1>1
<1>4. r \in [MfPaths -> MfNodes]
  BY <1>1, <1>2
<1>5. WellFormed(r)
  <2>1. (r[PathA] = t[PathA] /\ r[PathX] = t[PathX]) \/ (r[PathA] = mfRoot[PathA] /\ r[PathX] = mfRoot[PathX])
    <3>1. PathA \in MfPaths /\ PathX \in MfPaths /\ p \in {PathA, PathB, PathX, Slash}
      BY PathsAre
    <3>2. /\ Under(PathA, p) <=> p \in {Slash, PathA}
          /\ Under(PathX, p) <=> p \in {Slash, PathX, PathA}
      BY <3>1, UnderIs, PathsAre
    <3>3. p \in MfPaths => (Under(p, PathA) <=> p \in {PathA, PathX}) /\ (Under(p, PathX) <=> p = PathX)
      BY <3>1, UnderIs, PathsAre
    <3>4. p # Slash => p \in MfPaths
      OBVIOUS
    <3>5. (Under(PathA, p) \/ Under(p, PathA)) <=> (Under(PathX, p) \/ Under(p, PathX))
      BY <3>1, <3>2, <3>3, <3>4, PathsAre
    <3> QED BY <1>1, <3>1, <3>5
  <2>2. WellFormed(mfRoot)
    BY DEF MfInv, MfTrees
  <2> QED BY <2>1, <2>2, WellFormedIs
<1> QED BY <1>3, <1>4, <1>5

\* A change of the tree, with or without a flush.
LEMMA ChangeStep ==
    ASSUME MfInv, NEW t \in [MfPaths -> MfNodes], WellFormed(t), MfSet(t), UNCHANGED mfDisk,
           mfRoot' = mfRoot \/ \E p \in MfPaths \cup {Slash} : mfRoot' \in Flushed(t, p),
           mfJob' \in [MfClients -> FilesCommand], \A c \in MfClients : FilesCommandOK(mfJob'[c]),
           mfCount' \in 0..MaxCommands
    PROVE  MfInv'
<1>1. /\ mfTree' = t /\ mfTree \in [MfPaths -> MfNodes] /\ mfDisk \in [MfPaths -> MfNodes]
      /\ mfRoot' \in [MfPaths -> MfNodes] /\ WellFormed(mfRoot') /\ WellFormed(mfDisk)
      /\ \A q \in MfPaths : mfRoot'[q] \in {t[q], mfRoot[q]}
  BY FlushedIs DEF MfInv, MfTypeOK, MfSet, MfTrees
<1>2. /\ mfFresh' \in [MfClients -> SUBSET MfPaths] /\ mfAcked' \subseteq mfAcked /\ mfAcked' \subseteq MfPaths
      /\ \A c \in MfClients : mfFresh'[c] \subseteq mfFresh[c] /\ \A p \in mfFresh'[c] : t[p] = mfTree[p]
      /\ \A p \in mfAcked' : t[p] = mfTree[p]
  BY DEF MfInv, MfTypeOK, MfSet
<1>3. MfTypeOK'
  BY <1>1, <1>2 DEF MfInv, MfTypeOK
<1>4. MfTrees'
  BY <1>1 DEF MfTrees
<1>5. Kept'
  <2>1. ASSUME NEW p \in mfAcked' PROVE mfDisk'[p] = mfTree'[p] /\ mfRoot'[p] = mfTree'[p]
    <3>1. p \in mfAcked /\ p \in MfPaths /\ t[p] = mfTree[p]
      BY <1>2, <2>1
    <3> QED BY <1>1, <3>1 DEF MfInv, Kept
  <2>2. ASSUME NEW c \in MfClients, NEW p \in mfFresh'[c] PROVE mfRoot'[p] = mfTree'[p]
    <3>1. p \in mfFresh[c] /\ p \in MfPaths /\ t[p] = mfTree[p]
      BY <1>2, <2>2
    <3> QED BY <1>1, <3>1 DEF MfInv, Kept
  <2> QED BY <2>1, <2>2 DEF Kept
<1> QED BY <1>3, <1>4, <1>5 DEF MfInv
\* A step that leaves the tree alone.
LEMMA NoChange == MfInv /\ UNCHANGED <<mfTree, mfFresh, mfAcked>> => MfSet(mfTree)
<1> SUFFICES ASSUME MfInv, UNCHANGED <<mfTree, mfFresh, mfAcked>> PROVE MfSet(mfTree)
  OBVIOUS
<1>1. {p \in MfPaths : mfTree[p] # mfTree[p]} = {}
  OBVIOUS
<1>2. mfFresh = [c \in MfClients |-> mfFresh[c] \ {}]
  BY DEF MfInv, MfTypeOK
<1> QED BY <1>1, <1>2 DEF MfSet

LEMMA TreeIs ==
    MfInv => mfTree \in [MfPaths -> MfNodes] /\ WellFormed(mfTree) /\ mfRoot \in [MfPaths -> MfNodes] /\ mfCount \in 0..MaxCommands
BY DEF MfInv, MfTypeOK, MfTrees

\* A command's next state.
LEMMA FilesJobIs ==
    ASSUME MfInv, NEW c \in MfClients, NEW job \in FilesCommand, FilesCommandOK(job), mfJob' = [mfJob EXCEPT ![c] = job]
    PROVE  mfJob' \in [MfClients -> FilesCommand] /\ \A d \in MfClients : FilesCommandOK(mfJob'[d])
<1>1. mfJob \in [MfClients -> FilesCommand] /\ \A d \in MfClients : FilesCommandOK(mfJob[d])
  BY DEF MfInv, MfTypeOK
<1>2. mfJob'[c] = job /\ \A d \in MfClients \ {c} : mfJob'[d] = mfJob[d]
  BY <1>1
<1> QED BY <1>1, <1>2

LEMMA FilesCountIs ==
    MfInv /\ mfCount < MaxCommands /\ mfCount' = mfCount + 1 => mfCount' \in 0..MaxCommands
BY FilesAssumption DEF MfInv, MfTypeOK

\* The nodes a command puts, makes, clears and moves leave a tree.
LEMMA PutIs ==
    ASSUME NEW t \in [MfPaths -> MfNodes], WellFormed(t), NEW p \in MfPaths, NEW n \in MfNodes,
           p = PathX => t[PathA] = "dir", p = PathA => n = "dir" \/ t[PathX] = "none"
    PROVE  [t EXCEPT ![p] = n] \in [MfPaths -> MfNodes] /\ WellFormed([t EXCEPT ![p] = n])
<1> DEFINE u == [t EXCEPT ![p] = n]
<1>1. u \in [MfPaths -> MfNodes]
  OBVIOUS
<1>2. u[PathX] # "none" => u[PathA] = "dir"
  BY WellFormedIs, PathsAre
<1> QED BY <1>1, <1>2, WellFormedIs

LEMMA MkdirIs ==
    ASSUME NEW t \in [MfPaths -> MfNodes], WellFormed(t), NEW p \in MfPaths \cup {Slash}, NEW parents, NEW u \in Mkdir(t, p, parents)
    PROVE  u \in [MfPaths -> MfNodes] /\ WellFormed(u)
<1>1. CASE u = t
  BY <1>1
<1>2. CASE p \in MfPaths /\ IsDir(t, ParentOf(p)) /\ u = [t EXCEPT ![p] = "dir"]
  <2>1. p = PathX => t[PathA] = "dir"
    BY <1>2, PathsAre DEF IsDir
  <2> QED BY <1>2, <2>1, PutIs DEF MfNodes
<1>3. CASE p = PathX /\ u = [t EXCEPT ![ParentOf(p)] = "dir", ![p] = "dir"]
  <2>1. u \in [MfPaths -> MfNodes] /\ u[PathA] = "dir"
    BY <1>3, PathsAre DEF MfNodes
  <2> QED BY <2>1, WellFormedIs
<1>4. p # Slash /\ ~IsDir(t, ParentOf(p)) => p = PathX
  BY PathsAre DEF IsDir
<1> QED BY <1>1, <1>2, <1>3, <1>4 DEF Mkdir

LEMMA EnsureIs ==
    ASSUME MfInv, NEW p \in MfPaths, NEW parents,
           NEW t \in IF parents THEN EnsureContaining(mfTree, p) ELSE {mfTree}
    PROVE  t \in [MfPaths -> MfNodes] /\ WellFormed(t)
<1>1. ParentOf(p) \in MfPaths \cup {Slash}
  BY PathsAre
<1> QED BY <1>1, MkdirIs, TreeIs DEF EnsureContaining

LEMMA ClearedIs ==
    ASSUME NEW t \in [MfPaths -> MfNodes], WellFormed(t), NEW p \in MfPaths
    PROVE  Cleared(t, p) \in [MfPaths -> MfNodes] /\ WellFormed(Cleared(t, p))
<1> DEFINE u == Cleared(t, p)
<1>1. u \in [MfPaths -> MfNodes]
  BY DEF Cleared, MfNodes
<1>2. u[PathX] # "none" => u[PathA] = "dir"
  BY WellFormedIs, PathsAre, UnderIs DEF Cleared
<1> QED BY <1>1, <1>2, WellFormedIs

LEMMA MoveIs ==
    ASSUME NEW t \in [MfPaths -> MfNodes], WellFormed(t), NEW src \in MfPaths, NEW dst \in MfPaths,
           src # dst, ~Under(dst, src), IsDir(t, ParentOf(dst)), NEW moved,
           moved = [q \in MfPaths |-> IF Under(q, dst) /\ Moved(q, dst, src) \in MfPaths
                                      THEN t[Moved(q, dst, src)]
                                      ELSE IF Under(q, dst) THEN "none" ELSE t[q]]
    PROVE  Cleared(moved, src) \in [MfPaths -> MfNodes] /\ WellFormed(Cleared(moved, src))
<1> DEFINE u == Cleared(moved, src)
<1>1. moved \in [MfPaths -> MfNodes]
  BY DEF MfNodes
<1>2. u \in [MfPaths -> MfNodes] /\ \A q \in MfPaths : u[q] = IF Under(q, src) THEN "none" ELSE moved[q]
  BY <1>1 DEF Cleared, MfNodes
<1>3. u[PathX] # "none" => u[PathA] = "dir"
  <2> SUFFICES ASSUME u[PathX] # "none" PROVE u[PathA] = "dir"
    OBVIOUS
  <2>1. PathX \in MfPaths /\ PathA \in MfPaths /\ src # PathX /\ src # PathA /\ src = PathB
    BY <1>2, UnderIs, PathsAre
  <2>2. dst # PathA
    BY <1>2, <2>1, UnderIs, PathsAre, MovedIs
  <2>3. dst = PathX /\ t[PathA] = "dir"
    BY <2>1, <2>2, PathsAre DEF IsDir
  <2>4. moved[PathA] = t[PathA]
    BY <2>1, <2>3, UnderIs, PathsAre
  <2> QED BY <1>2, <2>1, <2>3, <2>4, UnderIs, PathsAre
<1> QED BY <1>2, <1>3, WellFormedIs

LEMMA MakeSteps ==
    ASSUME MfInv, NEW c \in MfClients, NEW p \in MfPaths, NEW b1 \in BOOLEAN, NEW b2 \in BOOLEAN,
           \/ FilesMkdir(c, p, b1, b2) \/ FilesRm(c, p, b1, b2)
           \/ \E dst \in MfPaths : FilesMv(c, p, dst, b1)
    PROVE  MfInv'
<1> mfJob \in [MfClients -> FilesCommand] /\ \A d \in MfClients : FilesCommandOK(mfJob[d])
  BY DEF MfInv, MfTypeOK
<1>1. CASE FilesMkdir(c, p, b1, b2)
  <2>1. PICK t \in Mkdir(mfTree, p, b1) : MfSet(t) /\ mfRoot' \in IF b2 THEN Flushed(t, p) ELSE {mfRoot}
    BY <1>1 DEF FilesMkdir
  <2>2. t \in [MfPaths -> MfNodes] /\ WellFormed(t)
    BY <2>1, MkdirIs, TreeIs
  <2>3. mfCount' \in 0..MaxCommands /\ UNCHANGED <<mfDisk, mfJob>>
    BY <1>1, FilesCountIs DEF FilesMkdir
  <2> QED BY <2>1, <2>2, <2>3, ChangeStep
<1>2. CASE FilesRm(c, p, b1, b2)
  <2> DEFINE t == Cleared(mfTree, p)
  <2>1. t \in [MfPaths -> MfNodes] /\ WellFormed(t)
    BY ClearedIs, TreeIs
  <2>2. /\ MfSet(t) /\ mfRoot' \in Flushed(t, ParentOf(p)) /\ UNCHANGED <<mfDisk, mfJob>>
        /\ mfCount' \in 0..MaxCommands
    BY <1>2, FilesCountIs DEF FilesRm
  <2>3. ParentOf(p) \in MfPaths \cup {Slash}
    BY PathsAre
  <2> HIDE DEF t
  <2> QED BY <2>1, <2>2, <2>3, ChangeStep
<1>3. CASE \E dst \in MfPaths : FilesMv(c, p, dst, b1)
  <2>1. PICK dst \in MfPaths : FilesMv(c, p, dst, b1)
    BY <1>3
  <2> DEFINE moved == [q \in MfPaths |-> IF Under(q, dst) /\ Moved(q, dst, p) \in MfPaths
                                         THEN mfTree[Moved(q, dst, p)]
                                         ELSE IF Under(q, dst) THEN "none" ELSE mfTree[q]]
             t == Cleared(moved, p)
             job == IF b1 THEN [MfIdle EXCEPT !.pc = "flush"] ELSE MfIdle
  <2>2. p # dst /\ ~Under(dst, p) /\ IsDir(mfTree, ParentOf(dst))
    BY <2>1 DEF FilesMv
  <2>3. t \in [MfPaths -> MfNodes] /\ WellFormed(t)
    <3> HIDE DEF t
    <3>1. Cleared(moved, p) \in [MfPaths -> MfNodes] /\ WellFormed(Cleared(moved, p))
      BY <2>2, MoveIs, TreeIs
    <3> QED BY <3>1 DEF t
  <2>4. job \in FilesCommand /\ FilesCommandOK(job)
    BY MfIdleIs DEF FilesCommand, FilesCommandOK
  <2>5. MfSet(t) /\ UNCHANGED <<mfRoot, mfDisk>> /\ mfJob' = [mfJob EXCEPT ![c] = job]
    BY <2>1 DEF FilesMv, MfBegin
  <2>6. mfCount' \in 0..MaxCommands
    BY <2>1, FilesCountIs DEF FilesMv, MfBegin
  <2> HIDE DEF t, job
  <2>7. mfJob' \in [MfClients -> FilesCommand] /\ \A d \in MfClients : FilesCommandOK(mfJob'[d])
    BY <2>4, <2>5, FilesJobIs
  <2> QED BY <2>3, <2>5, <2>6, <2>7, ChangeStep
<1> QED BY <1>1, <1>2, <1>3
LEMMA PutSteps ==
    ASSUME MfInv, NEW c \in MfClients, NEW p \in MfPaths, NEW b \in BOOLEAN, NEW n \in MfNodes,
           FilesCp(c, n, p, b) \/ (n \in MfData /\ FilesWrite(c, p, n, b))
    PROVE  MfInv'
<1> DEFINE job == [pc |-> IF n \in MfData /\ FilesWrite(c, p, n, b) THEN "handle" ELSE "put", path |-> p, data |-> n]
<1>1. job \in FilesCommand /\ FilesCommandOK(job)
  BY DEF FilesCommand, FilesCommandOK
<1>2. PICK t \in IF b THEN EnsureContaining(mfTree, p) ELSE {mfTree} : MfSet(t)
  BY DEF FilesCp, FilesWrite
<1>3. t \in [MfPaths -> MfNodes] /\ WellFormed(t)
  BY <1>2, EnsureIs
<1>4. mfJob' = [mfJob EXCEPT ![c] = job] /\ UNCHANGED <<mfRoot, mfDisk>>
  BY DEF FilesCp, FilesWrite, MfBegin, MfIdle
<1>5. mfCount' \in 0..MaxCommands
  BY FilesCountIs DEF FilesCp, FilesWrite, MfBegin
<1> HIDE DEF job
<1>6. mfJob' \in [MfClients -> FilesCommand] /\ \A d \in MfClients : FilesCommandOK(mfJob'[d])
  BY <1>1, <1>4, FilesJobIs
<1> QED BY <1>2, <1>3, <1>4, <1>5, <1>6, ChangeStep

\* The node a command is at is a name in a directory or the root.
LEMMA AtIs ==
    MfInv => \A c \in MfClients : /\ mfJob[c] \in FilesCommand /\ FilesCommandOK(mfJob[c])
                                  /\ mfTree \in [MfPaths -> MfNodes] /\ WellFormed(mfTree)
BY DEF MfInv, MfTypeOK, MfTrees

LEMMA CpPutStep == ASSUME MfInv, NEW c \in MfClients, NEW flush \in BOOLEAN, CpPut(c, flush) PROVE MfInv'
<1> DEFINE p == mfJob[c].path
           n == mfJob[c].data
           put == mfTree[p] = "none" /\ IsDir(mfTree, ParentOf(p))
           t == IF put THEN [mfTree EXCEPT ![p] = n] ELSE mfTree
           job == IF put /\ flush THEN [mfJob[c] EXCEPT !.pc = "flush"] ELSE MfIdle
<1>1. mfJob[c].pc = "put" /\ p \in MfPaths /\ n \in MfNodes /\ mfTree \in [MfPaths -> MfNodes] /\ WellFormed(mfTree)
  BY AtIs DEF CpPut, FilesCommand, FilesCommandOK
<1>2. t \in [MfPaths -> MfNodes] /\ WellFormed(t)
  <2>1. CASE put
    <3>1. p = PathX => mfTree[PathA] = "dir"
      BY <2>1, PathsAre DEF IsDir
    <3>2. p = PathA => mfTree[PathX] = "none"
      BY <1>1, <2>1, WellFormedIs
    <3> HIDE DEF p, n
    <3> QED BY <1>1, <2>1, <3>1, <3>2, PutIs
  <2> QED BY <1>1, <2>1
<1>3. job \in FilesCommand /\ FilesCommandOK(job)
  BY AtIs, MfIdleIs DEF FilesCommand, FilesCommandOK
<1>4. MfSet(t)
  BY NoChange DEF CpPut
<1>5. mfJob' = [mfJob EXCEPT ![c] = job] /\ UNCHANGED <<mfRoot, mfDisk, mfCount>>
  BY DEF CpPut
<1> HIDE DEF t, job
<1>6. mfJob' \in [MfClients -> FilesCommand] /\ \A d \in MfClients : FilesCommandOK(mfJob'[d])
  BY <1>3, <1>5, FilesJobIs
<1> QED BY <1>2, <1>4, <1>5, <1>6, TreeIs, ChangeStep

LEMMA HandleStep == ASSUME MfInv, NEW c \in MfClients, NEW create \in BOOLEAN, GetFileHandle(c, create) PROVE MfInv'
<1> DEFINE p == mfJob[c].path
           make == mfTree[p] = "none" /\ create /\ IsDir(mfTree, ParentOf(p))
           t == IF make THEN [mfTree EXCEPT ![p] = "empty"] ELSE mfTree
           job == IF mfTree'[p] \in FileNodes THEN [mfJob[c] EXCEPT !.pc = "open"] ELSE MfIdle
<1>1. mfJob[c].pc = "handle" /\ p \in MfPaths /\ mfTree \in [MfPaths -> MfNodes] /\ WellFormed(mfTree) /\ "empty" \in MfNodes
  BY AtIs DEF GetFileHandle, FilesCommand, FilesCommandOK, MfNodes, FileNodes
<1>2. t \in [MfPaths -> MfNodes] /\ WellFormed(t)
  <2>1. CASE make
    <3>1. p = PathX => mfTree[PathA] = "dir"
      BY <2>1, PathsAre DEF IsDir
    <3>2. p = PathA => mfTree[PathX] = "none"
      BY <1>1, <2>1, WellFormedIs
    <3> HIDE DEF p
    <3> QED BY <1>1, <2>1, <3>1, <3>2, PutIs
  <2> QED BY <1>1, <2>1
<1>3. job \in FilesCommand /\ FilesCommandOK(job)
  <2>1. [mfJob[c] EXCEPT !.pc = "open"] \in FilesCommand /\ FilesCommandOK([mfJob[c] EXCEPT !.pc = "open"])
    BY <1>1, AtIs DEF FilesCommand, FilesCommandOK
  <2> QED BY <2>1, MfIdleIs
<1>4. MfSet(t)
  BY NoChange DEF GetFileHandle
<1>5. mfJob' = [mfJob EXCEPT ![c] = job] /\ UNCHANGED <<mfRoot, mfDisk, mfCount>>
  BY DEF GetFileHandle
<1> HIDE DEF t, job
<1>6. mfJob' \in [MfClients -> FilesCommand] /\ \A d \in MfClients : FilesCommandOK(mfJob'[d])
  BY <1>3, <1>5, FilesJobIs
<1> QED BY <1>2, <1>4, <1>5, <1>6, TreeIs, ChangeStep

\* A file that is written stays a file: nothing is below it.
LEMMA WriteIs ==
    ASSUME MfInv, NEW p \in MfPaths, Present(p), NEW n \in MfNodes \ {"none"}
    PROVE  [mfTree EXCEPT ![p] = n] \in [MfPaths -> MfNodes] /\ WellFormed([mfTree EXCEPT ![p] = n])
<1>1. mfTree[p] # "none" /\ mfTree[p] # "dir"
  BY FilesAssumption DEF Present, FileNodes
<1>2. p = PathX => mfTree[PathA] = "dir"
  BY <1>1, TreeIs, WellFormedIs
<1>3. p = PathA => mfTree[PathX] = "none"
  BY <1>1, TreeIs, WellFormedIs
<1> QED BY <1>2, <1>3, TreeIs, PutIs

LEMMA WriteSteps ==
    ASSUME MfInv, NEW c \in MfClients, NEW b1 \in BOOLEAN, NEW b2 \in BOOLEAN, WriteOpen(c, b1, b2) \/ WriteCopy(c)
    PROVE  MfInv'
<1> DEFINE p == mfJob[c].path
           n == IF mfJob[c].pc = "open" THEN "empty" ELSE mfJob[c].data
           put == Present(p) /\ (mfJob[c].pc = "open" => b1)
           t == IF put THEN [mfTree EXCEPT ![p] = n] ELSE mfTree
           job == [mfJob[c] EXCEPT !.pc = IF mfJob[c].pc = "open" /\ ~b2 THEN "copy" ELSE "close"]
<1>1. /\ mfJob[c].pc \in {"open", "copy"} /\ p \in MfPaths /\ mfTree \in [MfPaths -> MfNodes] /\ WellFormed(mfTree)
      /\ n \in MfNodes \ {"none"}
  BY AtIs, FilesAssumption DEF WriteOpen, WriteCopy, FilesCommand, FilesCommandOK, MfNodes, FileNodes
<1>2. t \in [MfPaths -> MfNodes] /\ WellFormed(t)
  <2> HIDE DEF p, n
  <2> QED BY <1>1, WriteIs
<1>3. job \in FilesCommand /\ FilesCommandOK(job)
  BY <1>1, AtIs DEF FilesCommand, FilesCommandOK
<1>4. MfSet(t)
  <2>1. CASE put
    BY <2>1 DEF WriteOpen, WriteCopy
  <2>2. CASE ~put
    BY <2>2, NoChange DEF WriteOpen, WriteCopy
  <2> QED BY <2>1, <2>2
<1>5. mfJob' = [mfJob EXCEPT ![c] = job] /\ UNCHANGED <<mfRoot, mfDisk, mfCount>>
  BY DEF WriteOpen, WriteCopy
<1> HIDE DEF t, job
<1>6. mfJob' \in [MfClients -> FilesCommand] /\ \A d \in MfClients : FilesCommandOK(mfJob'[d])
  BY <1>3, <1>5, FilesJobIs
<1> QED BY <1>2, <1>4, <1>5, <1>6, TreeIs, ChangeStep

LEMMA CloseStep ==
    ASSUME MfInv, NEW c \in MfClients, NEW back \in BOOLEAN, NEW flush \in BOOLEAN, WriteClose(c, back, flush)
    PROVE  MfInv'
<1> DEFINE p == mfJob[c].path
           n == mfJob[c].data
           put == back /\ mfTree[p] = "none" /\ IsDir(mfTree, ParentOf(p))
           t == IF put THEN [mfTree EXCEPT ![p] = n] ELSE mfTree
<1>1. mfJob[c].pc = "close" /\ p \in MfPaths /\ n \in MfNodes /\ mfTree \in [MfPaths -> MfNodes] /\ WellFormed(mfTree)
  BY AtIs DEF WriteClose, FilesCommand, FilesCommandOK
<1>2. t \in [MfPaths -> MfNodes] /\ WellFormed(t)
  <2>1. CASE put
    <3>1. p = PathX => mfTree[PathA] = "dir"
      BY <2>1, PathsAre DEF IsDir
    <3>2. p = PathA => mfTree[PathX] = "none"
      BY <1>1, <2>1, WellFormedIs
    <3> HIDE DEF p, n
    <3> QED BY <1>1, <2>1, <3>1, <3>2, PutIs
  <2> QED BY <1>1, <2>1
<1>3. /\ MfSet(t) /\ mfRoot' \in IF flush /\ t[p] # "none" THEN Flushed(t, p) ELSE {mfRoot}
      /\ mfJob' = [mfJob EXCEPT ![c] = MfIdle] /\ UNCHANGED <<mfDisk, mfCount>>
  BY DEF WriteClose
<1> HIDE DEF t
<1>4. mfJob' \in [MfClients -> FilesCommand] /\ \A d \in MfClients : FilesCommandOK(mfJob'[d])
  BY <1>3, MfIdleIs, FilesJobIs
<1> QED BY <1>1, <1>2, <1>3, <1>4, TreeIs, ChangeStep

\* FlushPath: what is below the path is in the root when it is called fresh.
LEMMA FlushStep == ASSUME MfInv, NEW c \in MfClients, FlushPath(c) PROVE MfInv'
<1> DEFINE p == mfJob[c].path
           below == {q \in MfPaths : Under(q, p)}
           job == IF p # Slash /\ mfTree[p] = "none" THEN MfIdle ELSE [mfJob[c] EXCEPT !.pc = "wait"]
<1>1. p \in MfPaths \cup {Slash} /\ mfTree \in [MfPaths -> MfNodes] /\ WellFormed(mfTree) /\ mfRoot \in [MfPaths -> MfNodes]
  BY AtIs, TreeIs DEF FilesCommand
<1>2. job \in FilesCommand /\ FilesCommandOK(job) /\ mfJob' = [mfJob EXCEPT ![c] = job]
  BY AtIs, MfIdleIs DEF FilesCommand, FilesCommandOK, FlushPath
<1>3. mfJob' \in [MfClients -> FilesCommand] /\ \A d \in MfClients : FilesCommandOK(mfJob'[d])
  <2> HIDE DEF job
  <2> QED BY <1>2, FilesJobIs
<1>4. UNCHANGED <<mfTree, mfDisk, mfAcked, mfCount>>
  BY DEF FlushPath
<1>5. CASE mfRoot' = mfRoot /\ mfFresh' = mfFresh
  BY <1>3, <1>4, <1>5 DEF MfInv, MfTypeOK, MfTrees, Kept
<1>6. CASE mfRoot' \in Flushed(mfTree, p) /\ mfFresh' = [mfFresh EXCEPT ![c] = below]
  <2>1. /\ mfRoot' \in [MfPaths -> MfNodes] /\ WellFormed(mfRoot')
        /\ \A q \in MfPaths : mfRoot'[q] \in {mfTree[q], mfRoot[q]} /\ (q \in below => mfRoot'[q] = mfTree[q])
    <3> HIDE DEF p
    <3> QED BY <1>1, <1>6, FlushedIs
  <2>2. mfFresh' \in [MfClients -> SUBSET MfPaths] /\ \A d \in MfClients : mfFresh'[d] \subseteq mfFresh[d] \cup (IF d = c THEN below ELSE {})
    <3>1. mfFresh \in [MfClients -> SUBSET MfPaths] /\ below \subseteq MfPaths
      BY DEF MfInv, MfTypeOK
    <3> HIDE DEF below
    <3> QED BY <1>6, <3>1
  <2>3. MfTypeOK' /\ MfTrees'
    BY <1>3, <1>4, <2>1, <2>2 DEF MfInv, MfTypeOK, MfTrees
  <2>4. Kept'
    <3> HIDE DEF below
    <3>1. \A q \in mfAcked : q \in MfPaths /\ mfDisk[q] = mfTree[q] /\ mfRoot'[q] = mfTree[q]
      BY <2>1 DEF MfInv, MfTypeOK, Kept
    <3>2. \A d \in MfClients : \A q \in mfFresh'[d] : mfRoot'[q] = mfTree[q]
      <4> TAKE d \in MfClients
      <4> TAKE q \in mfFresh'[d]
      <4>1. q \in MfPaths /\ (q \in below \/ mfRoot[q] = mfTree[q])
        BY <2>2 DEF MfInv, Kept
      <4> QED BY <2>1, <4>1
    <3> QED BY <1>4, <3>1, <3>2 DEF Kept
  <2> QED BY <1>3, <2>3, <2>4 DEF MfInv
<1> QED BY <1>5, <1>6 DEF FlushPath

\* FlushWait: the datastore gets the root when what is fresh is reported.
LEMMA WaitStep == ASSUME MfInv, NEW c \in MfClients, FlushWait(c) PROVE MfInv'
<1>1. mfJob' \in [MfClients -> FilesCommand] /\ \A d \in MfClients : FilesCommandOK(mfJob'[d])
  BY MfIdleIs, FilesJobIs DEF FlushWait
<1>2. /\ mfDisk' = mfRoot /\ UNCHANGED <<mfTree, mfRoot, mfCount>>
      /\ mfAcked' = mfAcked \cup mfFresh[c] /\ mfFresh' = [mfFresh EXCEPT ![c] = {}]
  BY DEF FlushWait
<1>3. mfFresh \in [MfClients -> SUBSET MfPaths] /\ mfAcked \subseteq MfPaths
  BY DEF MfInv, MfTypeOK
<1>4. mfFresh' \in [MfClients -> SUBSET MfPaths] /\ mfAcked' \subseteq MfPaths
  BY <1>2, <1>3
<1>5. MfTypeOK' /\ MfTrees'
  BY <1>1, <1>2, <1>4 DEF MfInv, MfTypeOK, MfTrees
<1>6. Kept'
  BY <1>2, <1>3 DEF MfInv, Kept
<1> QED BY <1>1, <1>5, <1>6 DEF MfInv

LEMMA FlushBegins ==
    ASSUME MfInv, NEW c \in MfClients, NEW p \in MfPaths \cup {Slash},
           FilesFlush(c, p) \/ \E b \in BOOLEAN : FilesChcid(c, p, b)
    PROVE  MfInv'
<1> DEFINE job == [MfIdle EXCEPT !.pc = "flush", !.path = p]
<1>1. job \in FilesCommand /\ FilesCommandOK(job)
  BY MfIdleIs DEF FilesCommand, FilesCommandOK
<1>2. mfJob' = [mfJob EXCEPT ![c] = job] /\ UNCHANGED <<mfTree, mfRoot, mfDisk, mfFresh, mfAcked>>
  BY DEF FilesFlush, FilesChcid, MfBegin
<1>3. mfCount' \in 0..MaxCommands
  BY FilesCountIs DEF FilesFlush, FilesChcid, MfBegin
<1> HIDE DEF job
<1>4. mfJob' \in [MfClients -> FilesCommand] /\ \A d \in MfClients : FilesCommandOK(mfJob'[d])
  BY <1>1, <1>2, FilesJobIs
<1>5. MfTypeOK'
  BY <1>2, <1>3, <1>4 DEF MfInv, MfTypeOK
<1> QED BY <1>2, <1>4, <1>5 DEF MfInv, MfTrees, Kept

\* The publisher, a stop and a crash: two of the three copies are one.
LEMMA RootSteps == ASSUME MfInv, Republish \/ MfStop \/ MfCrash PROVE MfInv'
<1>1. CASE Republish
  BY <1>1 DEF Republish, MfInv, MfTypeOK, MfTrees, Kept
<1>2. CASE MfStop \/ MfCrash
  <2>1. \A c \in MfClients : mfJob'[c] = MfIdle /\ mfFresh'[c] = {}
    BY <1>2 DEF MfStop, MfCrash
  <2>2. mfJob' \in [MfClients -> FilesCommand] /\ mfFresh' \in [MfClients -> SUBSET MfPaths]
    BY <1>2, MfIdleIs DEF MfStop, MfCrash
  <2>3. MfTypeOK'
    BY <1>2, <2>2 DEF MfStop, MfCrash, MfInv, MfTypeOK
  <2>4. MfTrees' /\ Kept'
    BY <1>2, <2>1 DEF MfStop, MfCrash, MfInv, MfTrees, Kept
  <2> QED BY <2>1, <2>3, <2>4, MfIdleIs DEF MfInv
<1> QED BY <1>1, <1>2

\* The files commands leave a tree in memory, in the root and on disk, and what
\* cp, mv, chcid or flush reported as flushed is on disk until a later change
\* of it, for any number of commands that interleave and any crash (FlushPath,
\* getParentDir, PutNode).
THEOREM FilesSound == MfInit /\ [][MfNext]_mfVars => []MfSound
<1>1. MfInit => MfInv
  BY FilesInit
<1>2. MfInv /\ [MfNext]_mfVars => MfInv'
  <2> SUFFICES ASSUME MfInv, [MfNext]_mfVars PROVE MfInv'
    OBVIOUS
  <2>1. CASE UNCHANGED mfVars
    BY <2>1 DEF mfVars, MfInv, MfTypeOK, MfTrees, Kept
  <2>2. CASE Republish \/ MfStop \/ MfCrash
    BY <2>2, RootSteps
  <2>3. ASSUME NEW c \in MfClients, FlushPath(c) \/ FlushWait(c) \/ WriteCopy(c) PROVE MfInv'
    BY <2>3, FlushStep, WaitStep, WriteSteps
  <2>4. ASSUME NEW c \in MfClients, NEW b \in BOOLEAN, GetFileHandle(c, b) \/ CpPut(c, b) PROVE MfInv'
    BY <2>4, HandleStep, CpPutStep
  <2>5. ASSUME NEW c \in MfClients, NEW b1 \in BOOLEAN, NEW b2 \in BOOLEAN, WriteOpen(c, b1, b2) \/ WriteClose(c, b1, b2)
        PROVE  MfInv'
    BY <2>5, WriteSteps, CloseStep
  <2>6. ASSUME NEW c \in MfClients, NEW p \in MfPaths \cup {Slash}, FilesFlush(c, p) \/ \E b \in BOOLEAN : FilesChcid(c, p, b)
        PROVE  MfInv'
    BY <2>6, FlushBegins
  <2>7. ASSUME NEW c \in MfClients, NEW p \in MfPaths, NEW b1 \in BOOLEAN, NEW b2 \in BOOLEAN,
               \/ FilesMkdir(c, p, b1, b2) \/ FilesRm(c, p, b1, b2)
               \/ \E src \in MfData \cup {"dir"} : FilesCp(c, src, p, b1)
               \/ \E d \in MfData : FilesWrite(c, p, d, b1)
               \/ \E dst \in MfPaths : FilesMv(c, p, dst, b1)
        PROVE  MfInv'
    <3>1. MfData \cup {"dir"} \subseteq MfNodes
      BY DEF MfNodes, FileNodes
    <3> QED BY <2>7, <3>1, MakeSteps, PutSteps
  <2> QED BY <2>1, <2>2, <2>3, <2>4, <2>5, <2>6, <2>7 DEF MfNext
<1>3. MfInv => MfSound
  BY DEF MfInv, MfSound, MfDurable, Kept
<1> QED BY <1>1, <1>2, <1>3, PTL
-----------------------------------------------------------------------------
(* Migrations: while they are downloaded, a migration that is needed has   *)
(* its binary or a download that has not succeeded yet; ...                *)
MgFetching ==
    mgPc = "fetch" => /\ mgVer[IpfsDir] = mgNext
                      /\ \A m \in Needed(mgFrom) : m \in mgBin \/ mgJob[m] \notin {"off", "ok"}

(* ... and once the configuration is read there is a source, and with IPFS *)
(* as the only one every archive kept came by it.                          *)
MgListed ==
    /\ mgPc \notin {"idle", "config", "done"} => mgSources # <<>>
    /\ mgPc \in {"idle", "config"} => mgFiles = {}
    /\ \A m \in mgFiles : <<m, "archive">> \in mgPaths \/ \E i \in DOMAIN mgSources : mgSources[i] = "http"

MgInv == MgSound /\ MgFetching /\ MgListed

LEMMA NeededIs == \A from \in Vers : Needed(from) \subseteq Migs
BY MigrationAssumption DEF Needed, Vers, Migs

LEMMA VersAre == MgOldest \in Vers /\ MgTarget \in Vers
BY MigrationAssumption DEF Vers

LEMMA DirIs == IpfsDir \in {"root", "default"}
BY DEF IpfsDir

LEMMA MigrationsInit == MgInit => MgInv
<1> SUFFICES ASSUME MgInit PROVE MgInv
  OBVIOUS
<1>1. mgFailed \in 0..MgCrashes
  BY MigrationAssumption DEF MgInit
<1>2. MgTypeOK
  BY <1>1, VersAre DEF MgInit, MgTypeOK, SourceLists
<1> QED BY <1>2 DEF MgInit, MgInv, MgSound, MgRunsInOrder, MgTempGone, MgKeepsAll, MgFetching, MgListed

\* The start, with any version in either directory, and the configuration.
LEMMA MgStartSteps ==
    ASSUME MgInv,
           \/ \E by \in {"daemon", "command", "downgrade"}, v, o \in Vers, s \in BOOLEAN : MgBegin(by, v, o, s)
           \/ \E k \in {"discard", "cache", "keep", "pin"}, l \in SourceLists : ReadMigrationConfig(k, l)
    PROVE  MgInv'
<1>1. ASSUME NEW by \in {"daemon", "command", "downgrade"}, NEW v \in Vers, NEW o \in Vers, NEW s \in BOOLEAN,
             MgBegin(by, v, o, s)
      PROVE  MgInv'
  <2>1. mgVer' \in [{"root", "default"} -> Vers] /\ mgPc' = "config"
    <3>1. mgVer' = [root |-> v, default |-> o]
      BY <1>1 DEF MgBegin
    <3>2. [root |-> v, default |-> o] = [d \in {"root", "default"} |-> IF d = "root" THEN v ELSE o]
      OBVIOUS
    <3> QED BY <1>1, <3>1, <3>2 DEF MgBegin
  <2>2. MgTypeOK'
    BY <1>1, <2>1 DEF MgBegin, MgInv, MgSound, MgTypeOK, mgFetchVars
  <2>3. MgListed'
    BY <1>1 DEF MgBegin, MgInv, MgListed, mgFetchVars
  <2> QED BY <2>1, <2>2, <2>3 DEF MgInv, MgSound, MgRunsInOrder, MgTempGone, MgKeepsAll, MgFetching
<1>2. ASSUME NEW k \in {"discard", "cache", "keep", "pin"}, NEW l \in SourceLists, ReadMigrationConfig(k, l)
      PROVE  MgInv'
  <2>1. mgSources' \in SourceLists /\ mgSources' # <<>> /\ mgPc' \in {"error", "find"}
    BY <1>2 DEF ReadMigrationConfig, SourceLists
  <2>2. MgTypeOK'
    BY <1>2, <2>1 DEF ReadMigrationConfig, MgInv, MgSound, MgTypeOK, mgFetchVars, mgRepoVars
  <2>3. MgListed'
    BY <1>2, <2>1 DEF ReadMigrationConfig, MgInv, MgListed, mgFetchVars
  <2> QED BY <2>1, <2>2, <2>3 DEF MgInv, MgSound, MgRunsInOrder, MgTempGone, MgKeepsAll, MgFetching
<1> QED BY <1>1, <1>2

\* findMigrations and the downloads that are begun.
LEMMA FindStep == ASSUME MgInv, NEW found \in SUBSET Migs, FindMigrations(found) PROVE MgInv'
<1> DEFINE from == mgVer[IpfsDir]
           needed == Needed(from)
<1>1. from \in Vers /\ needed \subseteq Migs /\ mgPc = "find"
  BY DirIs, NeededIs DEF FindMigrations, MgInv, MgSound, MgTypeOK
<1>2. UNCHANGED <<mgRepoVars, mgConfVars, mgNode, mgPaths, mgFiles, mgAdded, mgFailed>> /\ IpfsDir' = IpfsDir
  BY DEF FindMigrations, mgRepoVars, IpfsDir
<1>3. CASE mgPc' = "close" /\ UNCHANGED <<mgFrom, mgNext, mgBin, mgJob, mgTmp>>
  BY <1>1, <1>2, <1>3 DEF mgRepoVars, mgConfVars, MgInv, MgSound, MgTypeOK, MgRunsInOrder, MgTempGone, MgKeepsAll,
                          MgFetching, MgListed
<1>4. CASE ~(mgPc' = "close" /\ UNCHANGED <<mgFrom, mgNext, mgBin, mgJob, mgTmp>>)
  <2>1. /\ mgFrom' = from /\ mgNext' = from /\ mgBin' = found \cap needed
        /\ mgJob' = [m \in Migs |-> IF m \in needed \ found THEN "version" ELSE "off"]
        /\ mgPc' \in {"migrated", "run", "fetch"} /\ (mgPc' = "run" => needed \subseteq found)
        /\ mgTmp' \in {mgTmp, mgTmp \cup {"bins"}}
    BY <1>4 DEF FindMigrations, RepoVersion
  <2>2. MgTypeOK'
    BY <1>1, <1>2, <2>1 DEF mgRepoVars, mgConfVars, MgInv, MgSound, MgTypeOK
  <2>3. mgVer'[IpfsDir'] = mgNext' /\ Needed(mgFrom)' = needed
    BY <1>2, <2>1 DEF mgRepoVars, Needed
  <2>4. MgRunsInOrder'
    BY <2>1, <2>3 DEF MgRunsInOrder
  <2>5. MgFetching'
    BY <1>1, <2>1, <2>3 DEF MgFetching
  <2> QED BY <1>1, <1>2, <2>1, <2>2, <2>4, <2>5 DEF mgConfVars, MgInv, MgSound, MgTempGone, MgKeepsAll, MgListed
<1> QED BY <1>3, <1>4

\* A download: it succeeds only where its binary is at hand.
LEMMA DownloadStep ==
    ASSUME MgInv, mgPc = "fetch", UNCHANGED <<mgVer, mgSame, mgPc, mgBy, mgKeep, mgSources, mgFrom, mgAdded, mgNext, mgFailed>>,
           mgJob' \in [Migs -> {"off", "version", "archive", "unpack", "ok", "failed"}],
           \A m \in Migs : mgJob[m] = mgJob'[m] \/ mgJob'[m] \notin {"off", "ok"} \/ m \in mgBin',
           mgBin \subseteq mgBin', mgBin' \subseteq Migs, mgPaths' \subseteq Migs \X {"version", "archive"},
           mgFiles' \subseteq Migs, mgTmp' \subseteq {"bins", "download", "node"}, mgNode' \in {"none", "up", "failed", "stopped"},
           mgPaths \subseteq mgPaths',
           \A m \in mgFiles' \ mgFiles : <<m, "archive">> \in mgPaths' \/ \E i \in DOMAIN mgSources : mgSources[i] = "http"
    PROVE  MgInv'
<1>1. MgTypeOK'
  BY DEF MgInv, MgSound, MgTypeOK
<1>2. Needed(mgFrom)' = Needed(mgFrom) /\ Needed(mgFrom) \subseteq Migs /\ mgVer'[IpfsDir'] = mgNext'
  BY NeededIs DEF MgInv, MgSound, MgTypeOK, MgFetching, Needed, IpfsDir
<1>3. MgFetching'
  BY <1>2 DEF MgInv, MgFetching
<1>4. MgListed'
  BY DEF MgInv, MgListed
<1> QED BY <1>1, <1>3, <1>4 DEF MgInv, MgSound, MgRunsInOrder, MgTempGone, MgKeepsAll

LEMMA FetchSteps ==
    ASSUME MgInv,
           \/ \E ok \in BOOLEAN : StartTempNode(ok) \/ \E m \in Migs : UnpackArchive(m, ok)
           \/ \E m \in Migs, src \in {"http", "ipfs", "none"} : LatestDistVersion(m, src) \/ FetchBinary(m, src)
    PROVE  MgInv'
<1> mgJob \in [Migs -> {"off", "version", "archive", "unpack", "ok", "failed"}] /\ mgBin \subseteq Migs
    /\ mgPaths \subseteq Migs \X {"version", "archive"} /\ mgFiles \subseteq Migs /\ mgTmp \subseteq {"bins", "download", "node"}
    /\ mgNode \in {"none", "up", "failed", "stopped"}
  BY DEF MgInv, MgSound, MgTypeOK
<1>1. ASSUME NEW ok \in BOOLEAN, StartTempNode(ok) PROVE MgInv'
  <2>1. /\ mgPc = "fetch" /\ UNCHANGED <<mgVer, mgSame, mgPc, mgBy, mgKeep, mgSources, mgFrom, mgAdded, mgNext, mgFailed>>
        /\ UNCHANGED <<mgBin, mgJob, mgPaths, mgFiles>>
        /\ mgTmp' \subseteq {"bins", "download", "node"} /\ mgNode' \in {"none", "up", "failed", "stopped"}
    BY <1>1 DEF StartTempNode, mgRepoVars, mgConfVars
  <2> QED BY <2>1, DownloadStep
<1>2. ASSUME NEW ok \in BOOLEAN, NEW m \in Migs, UnpackArchive(m, ok) PROVE MgInv'
  <2>1. /\ mgPc = "fetch" /\ UNCHANGED <<mgVer, mgSame, mgPc, mgBy, mgKeep, mgSources, mgFrom, mgAdded, mgNext, mgFailed>>
        /\ UNCHANGED <<mgPaths, mgFiles, mgTmp, mgNode>>
        /\ mgJob' = [mgJob EXCEPT ![m] = IF ok THEN "ok" ELSE "failed"]
        /\ mgBin' = IF ok THEN mgBin \cup {m} ELSE mgBin
    BY <1>2 DEF UnpackArchive, mgRepoVars, mgConfVars
  <2>2. /\ mgJob' \in [Migs -> {"off", "version", "archive", "unpack", "ok", "failed"}]
        /\ \A n \in Migs : mgJob[n] = mgJob'[n] \/ mgJob'[n] \notin {"off", "ok"} \/ n \in mgBin'
        /\ mgBin \subseteq mgBin' /\ mgBin' \subseteq Migs
    BY <2>1
  <2> QED BY <2>1, <2>2, DownloadStep
<1>3. ASSUME NEW m \in Migs, NEW src \in {"http", "ipfs", "none"}, LatestDistVersion(m, src) \/ FetchBinary(m, src)
      PROVE  MgInv'
  <2>1. /\ mgPc = "fetch" /\ UNCHANGED <<mgVer, mgSame, mgPc, mgBy, mgKeep, mgSources, mgFrom, mgAdded, mgNext, mgFailed>>
        /\ UNCHANGED <<mgBin, mgTmp, mgNode>> /\ mgFiles' \subseteq Migs
        /\ \E from \in {"version", "archive"}, to \in {"archive", "unpack", "failed"} :
              /\ mgJob' = [mgJob EXCEPT ![m] = to]
              /\ mgPaths' \in {mgPaths, mgPaths \cup {<<m, from>>}}
    BY <1>3 DEF LatestDistVersion, FetchBinary, Fetches, mgRepoVars, mgConfVars
  <2>3. ASSUME NEW n \in mgFiles' \ mgFiles
        PROVE  <<n, "archive">> \in mgPaths' \/ \E i \in DOMAIN mgSources : mgSources[i] = "http"
    <3>1. FetchBinary(m, src) /\ src # "none" /\ n = m
      BY <1>3, <2>3 DEF LatestDistVersion, FetchBinary
    <3>2. CASE src = "ipfs"
      BY <3>1, <3>2 DEF FetchBinary, Fetches
    <3>3. CASE src = "http"
      BY <3>1, <3>3 DEF FetchBinary, Fetches, MultiFetch
    <3> QED BY <3>1, <3>2, <3>3
  <2>2. /\ mgJob' \in [Migs -> {"off", "version", "archive", "unpack", "ok", "failed"}]
        /\ \A n \in Migs : mgJob[n] = mgJob'[n] \/ mgJob'[n] \notin {"off", "ok"}
        /\ mgPaths \subseteq mgPaths' /\ mgPaths' \subseteq Migs \X {"version", "archive"}
    BY <2>1
  <2> QED BY <2>1, <2>2, <2>3, DownloadStep
<1> QED BY <1>1, <1>2, <1>3

\* The downloads end, and all of them succeeded if a migration is run.
LEMMA FetchEndsStep == MgInv /\ FetchEnds => MgInv'
<1> SUFFICES ASSUME MgInv, FetchEnds PROVE MgInv'
  OBVIOUS
<1>1. /\ mgPc = "fetch" /\ mgPc' = IF Fetched THEN "run" ELSE "close"
      /\ UNCHANGED <<mgVer, mgSame, mgBy, mgKeep, mgSources, mgFrom, mgBin, mgJob, mgNode, mgPaths, mgFiles, mgTmp, mgAdded, mgNext, mgFailed>>
  BY DEF FetchEnds, mgRepoVars, mgConfVars, mgFetchVars
<1>2. MgTypeOK'
  BY <1>1 DEF MgInv, MgSound, MgTypeOK
<1>3. Needed(mgFrom)' = Needed(mgFrom) /\ Needed(mgFrom) \subseteq Migs /\ mgVer'[IpfsDir'] = mgNext'
  BY <1>1, NeededIs DEF MgInv, MgSound, MgTypeOK, MgFetching, Needed, IpfsDir
<1>4. MgRunsInOrder'
  BY <1>1, <1>3 DEF MgInv, MgFetching, MgRunsInOrder, Fetched
<1> QED BY <1>1, <1>2, <1>4 DEF MgInv, MgSound, MgTempGone, MgKeepsAll, MgFetching, MgListed

\* A migration moves the version by one, towards the target.
LEMMA RunStep == ASSUME MgInv, NEW ok \in BOOLEAN, RunMigration(ok) PROVE MgInv'
<1> DEFINE to == IF mgNext < MgTarget THEN mgNext + 1 ELSE mgNext - 1
<1>1. to \in Vers
  BY MigrationAssumption DEF RunMigration, MgInv, MgSound, MgTypeOK, Vers
<1> HIDE DEF to
<1>2. UNCHANGED <<mgSame, mgBy, mgKeep, mgSources, mgFrom, mgBin, mgJob, mgNode, mgPaths, mgFiles, mgTmp, mgAdded, mgFailed>>
  BY DEF RunMigration, mgConfVars, mgFetchVars
<1>3. \/ mgVer' = [mgVer EXCEPT ![IpfsDir] = to] /\ mgNext' = to /\ mgPc' = "run"
      \/ UNCHANGED <<mgVer, mgNext>> /\ mgPc' = "close"
  BY DEF RunMigration, to
<1>4. mgPc = "run" /\ IpfsDir' = IpfsDir /\ Needed(mgFrom)' = Needed(mgFrom)
  BY <1>2 DEF RunMigration, IpfsDir, Needed
<1>5. MgTypeOK'
  BY <1>1, <1>2, <1>3, DirIs DEF MgInv, MgSound, MgTypeOK
<1>6. MgRunsInOrder'
  BY <1>2, <1>3, <1>4, DirIs DEF MgInv, MgSound, MgTypeOK, MgRunsInOrder
<1> QED BY <1>2, <1>3, <1>4, <1>5, <1>6 DEF MgInv, MgSound, MgTempGone, MgKeepsAll, MgFetching, MgListed

\* addMigrations: without an error every source is reached; an HTTP source that
\* comes first always is, and adds all unless it fails.
LEMMA AddStep ==
    ASSUME MgInv, NEW fails \in SUBSET {"http", "ipfs"}, NEW some \in SUBSET Migs, AddMigrations(fails, some)
    PROVE  MgInv'
<1> DEFINE bad == {i \in DOMAIN mgSources : mgSources[i] \in fails \/ (mgSources[i] = "ipfs" /\ mgPaths = {})}
           first == {i \in bad : \A j \in bad : i <= j}
           done == {i \in DOMAIN mgSources : \A j \in bad : i < j}
<1>0. mgAdded' = AddFromAll(done) \cup (some \cap AddFromAll(first))
  BY DEF AddMigrations
<1>1. /\ mgPc = "add"
      /\ mgPc' \in {"added", "notAdded", "noPaths"}
      /\ mgPc' = "added" => bad = {}
      /\ mgPc' = "noPaths" => \A i \in first : mgSources[i] \notin fails
      /\ UNCHANGED <<mgVer, mgSame, mgBy, mgKeep, mgSources, mgFrom, mgBin, mgJob, mgNode, mgPaths, mgFiles, mgTmp, mgNext, mgFailed>>
  BY DEF AddMigrations, mgRepoVars, mgConfVars, mgFetchVars
<1>2. mgPaths \subseteq Migs \X {"version", "archive"} /\ mgFiles \subseteq Migs
  BY DEF MgInv, MgSound, MgTypeOK
<1>3. \A i \in done : AddFrom(i) \subseteq Migs
  BY <1>2 DEF AddFrom, AddMigrationPaths, AddMigrationFiles
<1>4. mgAdded' \subseteq Migs
  <2> HIDE DEF bad, first, done
  <2>1. AddFromAll(done) \subseteq Migs
    BY <1>3 DEF AddFromAll
  <2>2. some \subseteq Migs
    OBVIOUS
  <2> QED BY ONLY <1>0, <2>1, <2>2
<1>5. MgTypeOK'
  BY <1>1, <1>4 DEF MgInv, MgSound, MgTypeOK
<1>6. \A i \in done : AddFrom(i) \subseteq mgAdded'
  <2> HIDE DEF bad, first, done
  <2>1. \A i \in done : AddFrom(i) \subseteq AddFromAll(done)
    BY DEF AddFromAll
  <2> QED BY ONLY <1>0, <2>1
<1>7. DOMAIN mgSources \subseteq {1, 2} /\ 1 \in DOMAIN mgSources
  BY <1>1 DEF MgInv, MgSound, MgTypeOK, MgListed, SourceLists
<1>8. mgPc' = "added" => mgFiles \subseteq mgAdded'
  <2> SUFFICES ASSUME mgPc' = "added", NEW m \in mgFiles PROVE m \in mgAdded'
    OBVIOUS
  <2>1. bad = {} /\ done = DOMAIN mgSources
    BY <1>1
  <2>2. CASE \E i \in DOMAIN mgSources : mgSources[i] = "http"
    <3>1. PICK i \in DOMAIN mgSources : mgSources[i] = "http"
      BY <2>2
    <3>2. AddFrom(i) = mgFiles
      BY <3>1 DEF AddFrom, AddMigrationFiles
    <3>3. i \in done
      BY <2>1
    <3> HIDE DEF bad, first, done
    <3> QED BY <1>6, <3>2, <3>3
  <2>3. CASE \A i \in DOMAIN mgSources : mgSources[i] # "http"
    <3>1. mgSources[1] = "ipfs" /\ 1 \in done
      BY <1>1, <1>7, <2>1, <2>3 DEF MgInv, MgSound, MgTypeOK, MgListed, SourceLists
    <3>2. <<m, "archive">> \in mgPaths
      BY <2>3 DEF MgInv, MgListed
    <3>3. m \in AddMigrationPaths
      BY <3>2 DEF AddMigrationPaths
    <3> QED BY <1>6, <3>1, <3>3 DEF AddFrom
  <2> QED BY <2>2, <2>3
<1>9. mgPc' = "noPaths" /\ mgSources[1] = "http" => mgFiles \subseteq mgAdded'
  <2> SUFFICES ASSUME mgPc' = "noPaths", mgSources[1] = "http" PROVE mgFiles \subseteq mgAdded'
    OBVIOUS
  <2>1. bad \subseteq {1, 2}
    BY <1>7
  <2>2. 1 \notin bad
    <3> SUFFICES ASSUME 1 \in bad PROVE FALSE
      OBVIOUS
    <3>1. 1 \in first
      BY <2>1
    <3> QED BY <1>1, <3>1
  <2>3. 1 \in done
    BY <1>7, <2>1, <2>2
  <2> QED BY <1>6, <2>3 DEF AddFrom, AddMigrationFiles
<1> HIDE DEF bad, first, done
<1>10. MgKeepsAll'
  BY <1>1, <1>8, <1>9 DEF MgKeepsAll
<1> QED BY <1>1, <1>5, <1>10 DEF MgInv, MgSound, MgRunsInOrder, MgTempGone, MgFetching, MgListed

\* What ends a migration, and a crash.
LEMMA MgEndSteps == MgInv /\ (RunEnds \/ MgReopen \/ MgClose \/ MgCrash) => MgInv'
<1> SUFFICES ASSUME MgInv, RunEnds \/ MgReopen \/ MgClose \/ MgCrash PROVE MgInv'
  OBVIOUS
<1>1. CASE RunEnds \/ MgReopen \/ MgClose
  <2>1. MgTypeOK'
    <3> USE DEF MgInv, MgSound, MgTypeOK, mgRepoVars, mgConfVars, mgFetchVars
    <3>1. CASE RunEnds
      BY <3>1 DEF RunEnds
    <3>2. CASE MgReopen
      BY <3>2 DEF MgReopen
    <3>3. CASE MgClose
      BY <3>3 DEF MgClose
    <3> QED BY <1>1, <3>1, <3>2, <3>3
  <2>2. mgPc' \in {"migrated", "add", "close", "done"} /\ mgSources' = mgSources /\ (mgPc' # "done" => mgPc \in {"run", "migrated"})
    BY <1>1 DEF RunEnds, MgReopen, MgClose, mgConfVars
  <2>3. MgTempGone'
    BY <1>1 DEF RunEnds, MgReopen, MgClose, MgTempGone
  <2>4. UNCHANGED <<mgFiles, mgPaths>>
    BY <1>1 DEF RunEnds, MgReopen, MgClose, mgFetchVars
  <2>5. MgListed'
    BY <2>2, <2>4 DEF MgInv, MgListed
  <2> QED BY <2>1, <2>2, <2>3, <2>5 DEF MgInv, MgSound, MgRunsInOrder, MgKeepsAll, MgFetching
<1>2. CASE MgCrash
  <2>1. mgFailed' \in 0..MgCrashes
    BY <1>2, MigrationAssumption DEF MgCrash, MgInv, MgSound, MgTypeOK
  <2>2. MgTypeOK'
    BY <1>2, <2>1, VersAre DEF MgCrash, MgInv, MgSound, MgTypeOK, mgRepoVars, mgConfVars
  <2>3. mgPc' \in {"config", "done"} /\ mgNode' = "none" /\ mgTmp' = {} /\ mgFiles' = {}
    BY <1>2 DEF MgCrash
  <2> QED BY <2>2, <2>3 DEF MgInv, MgSound, MgRunsInOrder, MgTempGone, MgKeepsAll, MgFetching, MgListed
<1> QED BY <1>1, <1>2

\* A binary runs on the version it starts from and only once all that are
\* needed are at hand, nothing temporary outlives the migration, and the archives
\* that were to be kept are added unless adding them reports an error, with HTTP
\* first unless it is another one than that nothing came by IPFS, for any
\* versions, sources, failures and crashes (RunMigration, fetchMigrations,
\* addMigrations).
THEOREM MigrationsSound == MgInit /\ [][MgStep]_mgVars => []MgSound
<1>1. MgInit => MgInv
  BY MigrationsInit
<1>2. MgInv /\ [MgStep]_mgVars => MgInv'
  <2> SUFFICES ASSUME MgInv, [MgStep]_mgVars PROVE MgInv'
    OBVIOUS
  <2>1. CASE UNCHANGED mgVars
    BY <2>1 DEF mgVars, mgRepoVars, mgConfVars, mgFetchVars, MgInv, MgSound, MgTypeOK, MgRunsInOrder, MgTempGone,
                MgKeepsAll, MgFetching, MgListed, IpfsDir, Needed
  <2>2. CASE MgStep
    BY <2>2, MgStartSteps, FindStep, FetchSteps, FetchEndsStep, RunStep, AddStep, MgEndSteps DEF MgStep
  <2> QED BY <2>1, <2>2
<1>3. MgInv => MgSound
  BY DEF MgInv
<1> QED BY <1>1, <1>2, <1>3, PTL
-----------------------------------------------------------------------------
(* Host names: a text a redirect leads to fits a label, and names a key by *)
(* its own codec, so that the same rules have nothing to change in it.     *)
Canonical(ns, t) == CidDecodes(t) => Fits(t) /\ (IsPeerIDNamespace(ns) => t.codec = "key")

LEMMA TextIs ==
    \A t \in Texts : /\ t = [id |-> t.id, base |-> t.base, codec |-> t.codec] /\ t # NoText
                     /\ t.base \in {"b32", "b36"} => t.id \in CidIds /\ t.codec \in {"pb", "key"}
                     /\ t.base = "b58" => t.id \in PlainCids \cup LongKeys /\ t.codec = "pb"
                     /\ t.base = "dns" => t.id \in LinkIds /\ t.codec = "none"
                     /\ t.base = "label" => t.id \in LinkNames /\ t.codec = "none"
                     /\ t.base \in {"b32", "b36", "b58", "dns", "label"} /\ t.id \in CidIds \cup LinkIds
BY DEF Texts, NoText, CidIds, LinkIds

\* Another encoding of a CID is a text with its identity.
LEMMA RecodedIs ==
    ASSUME NEW t \in Texts, t.id \in CidIds, NEW base \in {"b32", "b36"}, NEW codec \in {"pb", "key"}
    PROVE  LET u == [t EXCEPT !.base = base, !.codec = codec]
           IN  u \in Texts /\ u.id = t.id /\ u.base = base /\ u.codec = codec
<1>1. t \in [id : CidIds, base : {"b32", "b36", "b58", "dns", "label"}, codec : {"pb", "key", "none"}]
  BY DEF Texts, CidIds
<1> DEFINE u == [t EXCEPT !.base = base, !.codec = codec]
<1>2. u \in [id : CidIds, base : {"b32", "b36"}, codec : {"pb", "key"}] /\ u.id = t.id /\ u.base = base /\ u.codec = codec
  BY <1>1
<1> QED BY <1>2 DEF Texts

LEMMA RebasedIs ==
    ASSUME NEW t \in Texts, t.id \in CidIds, t.codec \in {"pb", "key"}, NEW base \in {"b32", "b36"}
    PROVE  LET u == [t EXCEPT !.base = base]
           IN  u \in Texts /\ u.id = t.id /\ u.base = base /\ u.codec = t.codec
<1>1. t \in [id : CidIds, base : {"b32", "b36", "b58", "dns", "label"}, codec : {"pb", "key"}]
  BY DEF Texts, CidIds
<1> DEFINE u == [t EXCEPT !.base = base]
<1>2. u \in [id : CidIds, base : {"b32", "b36"}, codec : {"pb", "key"}] /\ u.id = t.id /\ u.base = base /\ u.codec = t.codec
  BY <1>1
<1> QED BY <1>2 DEF Texts

\* toDNSLabel: what fits stays as it is.
LEMMA LabelIs ==
    ASSUME NEW t \in Texts, t.base \in {"b32", "b36", "b58"}, NEW r, r = ToDNSLabel(t)
    PROVE  /\ r.ok \in BOOLEAN /\ (Fits(t) => r.ok /\ r.t = t)
           /\ r.ok => /\ r.t \in Texts /\ Fits(r.t) /\ r.t.id = t.id /\ r.t.codec = t.codec
                      /\ r.t.base \in {"b36", t.base}
<1> DEFINE u == [t EXCEPT !.base = "b36"]
<1>1. t.id \in CidIds /\ t.codec \in {"pb", "key"}
  BY TextIs DEF CidIds
<1>2. u \in Texts /\ u.id = t.id /\ u.base = "b36" /\ u.codec = t.codec
  BY <1>1, RebasedIs
<1> HIDE DEF u
<1>3. r = IF Fits(t) THEN Good(t) ELSE IF Fits(u) THEN Good(u) ELSE Failed
  BY DEF ToDNSLabel, u
<1> QED BY <1>2, <1>3 DEF Good, Failed

\* toSubdomainURL: the same identity, and a canonical text.
LEMMA SubdomainIs ==
    ASSUME NEW ns \in {"ipfs", "ipns"}, NEW root \in Texts, NEW https, NEW inline, NEW up,
           NEW r, r = ToSubdomainURL(ns, root, https, inline, up)
    PROVE  /\ r.ok \in BOOLEAN
           /\ r.ok => r.t \in Texts /\ r.t.id = root.id /\ Canonical(ns, r.t)
<1> DEFINE t == IF IsPeerIDNamespace(ns) /\ ~IsDomainNameAndNotPeerID(root) /\ PeerDecodes(root)
                THEN [root EXCEPT !.base = "b32", !.codec = "key"] ELSE root
           canonical == IF IsPeerIDNamespace(ns) THEN [t EXCEPT !.base = "b36", !.codec = "key"]
                        ELSE [t EXCEPT !.base = "b32"]
<1>1. t \in Texts /\ t.id = root.id
  <2>1. CASE t = root
    BY <2>1
  <2>2. CASE PeerDecodes(root) /\ t = [root EXCEPT !.base = "b32", !.codec = "key"]
    <3>1. root.id \in CidIds
      BY <2>2, TextIs DEF PeerDecodes, CidIds
    <3> QED BY <2>2, <3>1, RecodedIs
  <2> QED BY <2>1, <2>2
<1>2. ASSUME CidDecodes(t)
      PROVE  /\ canonical \in Texts /\ canonical.id = root.id /\ canonical.base \in {"b32", "b36"}
             /\ IsPeerIDNamespace(ns) => canonical.codec = "key"
  <2> HIDE DEF t
  <2>1. t.id \in CidIds /\ t.codec \in {"pb", "key"}
    BY <1>1, <1>2, TextIs DEF CidDecodes, CidIds
  <2>2. CASE IsPeerIDNamespace(ns)
    <3>1. canonical = [t EXCEPT !.base = "b36", !.codec = "key"]
      BY <2>2
    <3>2. LET u == [t EXCEPT !.base = "b36", !.codec = "key"] IN u \in Texts /\ u.id = t.id /\ u.base = "b36" /\ u.codec = "key"
      <4> HIDE DEF canonical
      <4> QED BY <1>1, <2>1, RecodedIs
    <3> HIDE DEF canonical
    <3> QED BY <1>1, <3>1, <3>2
  <2>3. CASE ~IsPeerIDNamespace(ns)
    <3>1. canonical = [t EXCEPT !.base = "b32"]
      BY <2>3
    <3>2. canonical \in Texts /\ canonical.id = t.id /\ canonical.base = "b32"
      BY <1>1, <2>1, <3>1, RebasedIs
    <3> HIDE DEF canonical
    <3> QED BY <1>1, <2>3, <3>2
  <2> QED BY <2>2, <2>3
<1>3. r = IF CidDecodes(t) THEN ToDNSLabel(canonical)
          ELSE IF (inline \/ https) /\ ns = "ipns" /\ IsDNSLinkName(t, up) THEN ToDNSLinkDNSLabel(t)
          ELSE Good(t)
  BY DEF ToSubdomainURL
<1> HIDE DEF t, canonical
<1>4. CASE CidDecodes(t)
  BY <1>2, <1>3, <1>4, LabelIs DEF Canonical
<1>5. CASE ~CidDecodes(t) /\ r = Good(t)
  BY <1>1, <1>5 DEF Good, Canonical
<1>6. CASE IsDNSLinkName(t, up) /\ r = ToDNSLinkDNSLabel(t)
  <2> DEFINE u == [t EXCEPT !.base = "label"]
  <2>1. u = [id |-> t.id, base |-> "label", codec |-> "none"]
    BY <1>1, <1>6, TextIs DEF IsDNSLinkName
  <2>2. t.id \in LinkNames => u \in Texts /\ u.id = t.id /\ ~CidDecodes(u)
    BY <2>1 DEF Texts, CidDecodes
  <2> HIDE DEF u
  <2>3. r = IF t.id \in LinkNames THEN Good(u) ELSE Failed
    BY <1>6 DEF ToDNSLinkDNSLabel, u
  <2> QED BY <1>1, <2>2, <2>3 DEF Good, Failed, Canonical
<1> QED BY <1>3, <1>4, <1>5, <1>6
\* toDNSLinkFQDN: a label stands for a name with a record, which is looked up.
LEMMA FqdnIs ==
    ASSUME NEW t \in Texts, t.base = "label", NEW u, u = ToDNSLinkFQDN(t)
    PROVE  u \in Texts /\ u.id = t.id /\ u.base = "dns" /\ \A up \in BOOLEAN : IsDNSLinkName(u, up) <=> up
<1>1. t \in [id : LinkNames, base : {"label"}, codec : {"none"}]
  BY TextIs DEF Texts
<1>2. u \in [id : LinkNames, base : {"dns"}, codec : {"none"}] /\ u.id = t.id /\ u.base = "dns"
  BY <1>1 DEF ToDNSLinkFQDN
<1>3. u \in Texts
  BY <1>2 DEF Texts, LinkIds
<1> QED BY <1>2, <1>3 DEF IsDNSLinkName, IsDomainNameAndNotPeerID, PeerDecodes

(* What a browser asks for, in the first request and after a redirect, ... *)
AskedOK(a) ==
    a.ns \in {"ipfs", "ipns"} /\ a.root \in Texts /\ (a.root.id \in LinkIds \cup LongKeys => a.ns = "ipns")
PathRequest(q, a) == q.root = NoText /\ q.path.ns = a.ns /\ q.path.root = a.root
HostRequest(q, a) == q.host \in DOMAIN Known /\ q.root \in Texts /\ q.root.id = a.root.id /\ q.ns = a.ns

(* ... and what it gets: a canonical request does not lead to a redirect.  *)
MovedOK(q, a, out) ==
    /\ q.host \in DOMAIN Known /\ out.ns = a.ns /\ out.root \in Texts /\ out.root.id = a.root.id
    /\ Canonical(out.ns, out.root)
    /\ q.root # NoText /\ Canonical(q.ns, q.root) => q.fwd
ServedOK(a, up, out) ==
    /\ out.ns = a.ns /\ out.root.id = a.root.id
    /\ out.root.id \in CidIds /\ out.ns = "ipns" /\ out.own => PeerDecodes(out.root)
    /\ out.root.id \in LinkIds /\ out.own /\ up => out.root.base = "dns"
OutOK(q, a, up, out) ==
    /\ out.kind \in {"serve", "redirect", "slash", "error"}
    /\ out.kind = "redirect" => MovedOK(q, a, out)
    /\ out.kind = "serve" => /\ out.root \in Texts /\ (q.host \notin LinkIds => ServedOK(a, up, out))
                             /\ out.moved # NoText => MovedOK(q, a, [ns |-> out.ns, root |-> out.moved])

LEMMA WebsiteIs ==
    ASSUME NEW q, NEW a, NEW up, q.host \in LinkIds
    PROVE  OutOK(q, a, up, Website(q.host))
<1> DEFINE t == [id |-> q.host, base |-> "dns", codec |-> "none"]
<1>1. t \in Texts
  BY DEF Texts
<1> HIDE DEF t
<1>2. Website(q.host) = [kind |-> "serve", ns |-> "ipns", root |-> t, own |-> TRUE, moved |-> NoText]
  BY DEF Website, HnServe, t
<1> QED BY <1>1, <1>2 DEF OutOK

LEMMA ErrorIs == \A q, a, up, code : OutOK(q, a, up, HnError(code))
BY DEF OutOK, HnError

\* A redirect to the canonical host of what is asked for.
LEMMA RedirectIs ==
    ASSUME NEW q, NEW a, AskedOK(a), NEW up, NEW root \in Texts, root.id = a.root.id, q.host \in DOMAIN Known,
           NEW https, NEW inline, q.root # NoText /\ Canonical(q.ns, q.root) => q.fwd
    PROVE  OutOK(q, a, up, HnMoved(a.ns, ToSubdomainURL(a.ns, root, https, inline, up)))
<1> DEFINE to == ToSubdomainURL(a.ns, root, https, inline, up)
           out == HnMoved(a.ns, to)
<1>1. a.ns \in {"ipfs", "ipns"}
  BY DEF AskedOK
<1>2. to.ok => to.t \in Texts /\ to.t.id = root.id /\ Canonical(a.ns, to.t)
  BY <1>1, SubdomainIs
<1> HIDE DEF to
<1>3. CASE to.ok
  <2>1. out.kind = "redirect" /\ out.ns = a.ns /\ out.root = to.t
    BY <1>3 DEF HnMoved
  <2> HIDE DEF out
  <2> QED BY <1>2, <1>3, <2>1 DEF OutOK, MovedOK, out, to
<1>4. CASE ~to.ok
  <2>1. out = HnError(400)
    BY <1>4 DEF HnMoved
  <2> QED BY <2>1, ErrorIs DEF to
<1> QED BY <1>3, <1>4

\* The Location that goes with a path says the same.
LEMMA LocationIs ==
    ASSUME NEW q, NEW a, AskedOK(a), NEW up, NEW root \in Texts, root.id = a.root.id, q.host \in DOMAIN Known,
           NEW https, NEW inline, q.root = NoText, NEW to, to = ToSubdomainURL(a.ns, root, https, inline, up), to.ok
    PROVE  MovedOK(q, a, [ns |-> a.ns, root |-> to.t]) /\ to.t \in Texts
<1> DEFINE out == HnMoved(a.ns, to)
<1>1. OutOK(q, a, up, out)
  BY RedirectIs
<1>2. out.kind = "redirect" /\ out.ns = a.ns /\ out.root = to.t
  BY DEF HnMoved
<1> HIDE DEF out
<1> QED BY <1>1, <1>2 DEF OutOK, MovedOK

\* A path of a gateway or a website is served as it is, or moved.
LEMMA PathServed ==
    ASSUME NEW q, NEW a, AskedOK(a), NEW up, PathRequest(q, a)
    PROVE  OutOK(q, a, up, HnServe(q.path.ns, q.path.root, FALSE))
<1> DEFINE out == HnServe(q.path.ns, q.path.root, FALSE)
<1>1. out.kind = "serve" /\ out.ns = a.ns /\ out.root = a.root /\ out.own = FALSE /\ out.moved = NoText
  BY DEF HnServe, PathRequest
<1> HIDE DEF out
<1>2. a.root \in Texts
  BY DEF AskedOK
<1>3. OutOK(q, a, up, out)
  BY <1>1, <1>2 DEF OutOK, ServedOK
<1> QED BY <1>3 DEF out

LEMMA KnownHostnameIs ==
    ASSUME NEW q, NEW a, AskedOK(a), NEW up \in BOOLEAN, PathRequest(q, a), q.host \in DOMAIN Known
    PROVE  OutOK(q, a, up, KnownHostname(q, up))
<1>1. q.path.ns = a.ns /\ q.path.root = a.root /\ a.root \in Texts /\ q.root = NoText
  BY DEF PathRequest, AskedOK
<1>3. CASE KnownHostname(q, up) = HnServe(q.path.ns, q.path.root, FALSE)
  BY <1>3, PathServed
<1>4. CASE q.host \in LinkIds /\ KnownHostname(q, up) = Website(q.host)
  BY <1>4, WebsiteIs
<1>5. CASE KnownHostname(q, up) = HnError(404)
  BY <1>5, ErrorIs
<1> DEFINE gw == Known[q.host]
<1>6. CASE q.path.ns \in gw.paths /\ gw.subdomains /\ IsSubdomainNamespace(q.path.ns)
  <2>1. PICK to : to = ToSubdomainURL(a.ns, a.root, q.https, gw.inline, up)
    OBVIOUS
  <2>2. KnownHostname(q, up) = IF to.ok THEN [HnServe(a.ns, a.root, FALSE) EXCEPT !.moved = to.t] ELSE HnError(400)
    BY <1>1, <1>6, <2>1 DEF KnownHostname
  <2>3. CASE to.ok
    <3>1. PICK out : out = [HnServe(a.ns, a.root, FALSE) EXCEPT !.moved = to.t]
      OBVIOUS
    <3>2. out.kind = "serve" /\ out.ns = a.ns /\ out.root = a.root /\ out.own = FALSE /\ out.moved = to.t
      BY <3>1 DEF HnServe
    <3>3. MovedOK(q, a, [ns |-> a.ns, root |-> to.t])
      BY <1>1, <2>1, <2>3, LocationIs
    <3>4. OutOK(q, a, up, out)
      BY <1>1, <3>2, <3>3 DEF OutOK, ServedOK
    <3> QED BY <2>2, <2>3, <3>1, <3>4
  <2>4. CASE ~to.ok
    BY <2>2, <2>4, ErrorIs
  <2> QED BY <2>3, <2>4
<1>7. CASE q.path.ns \in gw.paths /\ ~(gw.subdomains /\ IsSubdomainNamespace(q.path.ns))
  BY <1>3, <1>7 DEF KnownHostname
<1>8. CASE q.path.ns \notin gw.paths /\ ~gw.noLink /\ q.host \in LinkIds /\ up
  BY <1>4, <1>8 DEF KnownHostname
<1>9. CASE q.path.ns \notin gw.paths /\ ~(~gw.noLink /\ q.host \in LinkIds /\ up)
  BY <1>5, <1>9 DEF KnownHostname
<1> QED BY <1>6, <1>7, <1>8, <1>9

\* Content below a gateway's host.
LEMMA KnownSubdomainIs ==
    ASSUME NEW q, NEW a, AskedOK(a), NEW up \in BOOLEAN, HostRequest(q, a)
    PROVE  OutOK(q, a, up, KnownSubdomain(q, up))
<1> DEFINE gw == Known[q.host]
           label == ToDNSLabel(q.root)
           out == KnownSubdomain(q, up)
<1>1. /\ q.ns = a.ns /\ a.ns \in {"ipfs", "ipns"} /\ q.root \in Texts /\ q.root.id = a.root.id /\ q.host \in DOMAIN Known
      /\ q.root.id \in LinkIds \cup LongKeys => a.ns = "ipns"
  BY DEF HostRequest, AskedOK
<1>2. CASE out = HnError(404) \/ out = HnError(400)
  BY <1>2, ErrorIs
<1>3. CASE CidDecodes(q.root) /\ label.ok /\ ~(out = HnError(404))
  <2>1. q.root.base \in {"b32", "b36", "b58"} /\ q.root.id \in CidIds /\ (q.root.codec = "key" => q.root.base # "b58")
    BY <1>1, <1>3, TextIs DEF CidDecodes, CidIds
  <2>2. label.t \in Texts /\ label.t.id = q.root.id /\ (Fits(q.root) => label.t = q.root)
    BY <1>1, <1>3, <2>1, LabelIs
  <2> HIDE DEF label
  <2>3. CASE ~HostHasPrefix(q, label.t)
    <3>1. out = HnMoved(q.ns, ToSubdomainURL(q.ns, label.t, q.https, gw.inline, up))
      BY <1>3, <2>3 DEF KnownSubdomain, label
    <3>2. Canonical(q.ns, q.root) => q.fwd
      BY <1>3, <2>2, <2>3 DEF Canonical, HostHasPrefix
    <3> HIDE DEF out, gw
    <3>3. OutOK(q, a, up, HnMoved(a.ns, ToSubdomainURL(a.ns, label.t, q.https, gw.inline, up)))
      BY <1>1, <2>2, <3>2, RedirectIs
    <3> QED BY <1>1, <3>1, <3>3 DEF out
  <2>4. CASE HostHasPrefix(q, label.t) /\ IsPeerIDNamespace(q.ns) /\ q.root.codec # "key"
    <3>1. out = HnMoved(q.ns, ToSubdomainURL(q.ns, q.root, q.https, gw.inline, up))
      BY <1>3, <2>4 DEF KnownSubdomain, label
    <3>2. ~Canonical(q.ns, q.root)
      BY <1>3, <2>4 DEF Canonical
    <3> HIDE DEF out, gw
    <3>3. OutOK(q, a, up, HnMoved(a.ns, ToSubdomainURL(a.ns, q.root, q.https, gw.inline, up)))
      BY <1>1, <3>2, RedirectIs
    <3> QED BY <1>1, <3>1, <3>3 DEF out
  <2>5. CASE HostHasPrefix(q, label.t) /\ ~(IsPeerIDNamespace(q.ns) /\ q.root.codec # "key")
    <3>1. out = HnServe(q.ns, q.root, TRUE)
      BY <1>3, <2>5 DEF KnownSubdomain, label
    <3>2. q.ns = "ipns" => PeerDecodes(q.root)
      BY <1>3, <2>1, <2>5 DEF IsPeerIDNamespace, PeerDecodes
    <3>3. q.root.id \notin LinkIds
      BY <2>1, HostnameAssumption DEF CidIds, LinkIds
    <3>4. out.kind = "serve" /\ out.ns = q.ns /\ out.root = q.root /\ out.moved = NoText
      BY <3>1 DEF HnServe
    <3> HIDE DEF out
    <3> QED BY <1>1, <3>2, <3>3, <3>4 DEF OutOK, ServedOK, out
  <2> QED BY <2>3, <2>4, <2>5
<1>4. CASE ~CidDecodes(q.root) /\ ~(out = HnError(404))
  <2>1. q.root.base = "b58" \/ (q.root.base \in {"dns", "label"} /\ q.root.id \in LinkIds)
    BY <1>1, <1>4, TextIs DEF CidDecodes, LinkIds
  <2>2. CASE q.ns = "ipns" /\ q.root.base = "label" /\ IsDNSLinkName(ToDNSLinkFQDN(q.root), up)
    <3> DEFINE name == ToDNSLinkFQDN(q.root)
    <3>1. name \in Texts /\ name.id = q.root.id /\ name.base = "dns" /\ q.root.id \notin CidIds
      BY <1>1, <2>1, <2>2, FqdnIs, HostnameAssumption DEF CidIds, LinkIds
    <3> HIDE DEF name
    <3>2. out = HnServe("ipns", name, TRUE)
      BY <1>4, <2>2 DEF KnownSubdomain, name
    <3>3. out.kind = "serve" /\ out.ns = "ipns" /\ out.root = name /\ out.moved = NoText
      BY <3>2 DEF HnServe
    <3> HIDE DEF out
    <3> QED BY <1>1, <2>2, <3>1, <3>3 DEF OutOK, ServedOK, out
  <2>3. CASE ~(q.ns = "ipns" /\ q.root.base = "label" /\ IsDNSLinkName(ToDNSLinkFQDN(q.root), up))
    <3>1. out = HnServe(q.ns, q.root, TRUE)
      BY <1>4, <2>3 DEF KnownSubdomain
    <3>2. out.kind = "serve" /\ out.ns = q.ns /\ out.root = q.root /\ out.moved = NoText
      BY <3>1 DEF HnServe
    <3>3. q.root.id \in CidIds => PeerDecodes(q.root)
      BY <2>1, HostnameAssumption DEF PeerDecodes, CidIds, LinkIds
    <3>4. q.root.id \in LinkIds /\ up => q.root.base = "dns"
      <4>1. q.root.base = "b58" => q.root.id \notin LinkIds
        BY <1>1, TextIs, HostnameAssumption DEF LinkIds
      <4>2. q.root.base = "label" /\ q.root.id \in LinkIds => ~up
        BY <1>1, <2>3, FqdnIs
      <4> QED BY <2>1, <4>1, <4>2
    <3> HIDE DEF out
    <3> QED BY <1>1, <3>2, <3>3, <3>4 DEF OutOK, ServedOK, out
  <2> QED BY <2>2, <2>3
<1>5. CidDecodes(q.root) /\ ~label.ok => out = HnError(404) \/ out = HnError(400)
  BY DEF KnownSubdomain
<1> HIDE DEF out, label
<1> QED BY <1>2, <1>3, <1>4, <1>5 DEF out

LEMMA HandlerIs ==
    ASSUME NEW q, NEW a, AskedOK(a), NEW up \in BOOLEAN, PathRequest(q, a) \/ HostRequest(q, a)
    PROVE  OutOK(q, a, up, HostnameOption(q, up))
<1>1. CASE PathRequest(q, a)
  <2>1. q.root = NoText
    BY <1>1 DEF PathRequest
  <2>2. CASE q.host \in DOMAIN Known
    BY <1>1, <2>1, <2>2, KnownHostnameIs DEF HostnameOption, IsKnownHostname
  <2>3. CASE q.host \notin DOMAIN Known
    BY <1>1, <2>1, <2>3, WebsiteIs, PathServed DEF HostnameOption, IsKnownHostname, KnownSubdomainDetails
  <2> QED BY <2>2, <2>3
<1>2. CASE HostRequest(q, a)
  <2>1. q.root # NoText /\ q.host \in DOMAIN Known /\ q.ns \in {"ipfs", "ipns"}
    BY <1>2, TextIs DEF HostRequest, AskedOK
  <2>2. HostnameOption(q, up) = KnownSubdomain(q, up)
    BY <2>1 DEF HostnameOption, IsKnownHostname, KnownSubdomainDetails, IsSubdomainNamespace
  <2> QED BY <1>2, <2>2, KnownSubdomainIs
<1> QED BY <1>1, <1>2

\* What is made of it redirects to the same host or to the Location.
LEMMA AfterIs ==
    ASSUME NEW q, NEW a, NEW up, NEW out, OutOK(q, a, up, out), NEW after
    PROVE  LET made == ServeHTTP(out, after) IN OutOK(q, a, up, made) /\ (made.kind = "slash" => out.kind = "slash" \/ after = "slash")
<1> SUFFICES ASSUME NEW made, made = ServeHTTP(out, after)
             PROVE  OutOK(q, a, up, made) /\ (made.kind = "slash" => out.kind = "slash" \/ after = "slash")
  OBVIOUS
<1>1. CASE made = out
  BY <1>1
<1>2. CASE made = [kind |-> "slash"] /\ after = "slash"
  BY <1>2 DEF OutOK
<1>3. CASE out.kind = "serve" /\ out.moved # NoText /\ made = HnMoved(out.ns, Good(out.moved))
  <2>1. made.kind = "redirect" /\ made.ns = out.ns /\ made.root = out.moved
    BY <1>3 DEF HnMoved, Good
  <2>2. MovedOK(q, a, [ns |-> out.ns, root |-> out.moved])
    BY <1>3 DEF OutOK
  <2>3. MovedOK(q, a, made)
    BY <2>1, <2>2 DEF MovedOK
  <2> QED BY <2>1, <2>3 DEF OutOK
<1> QED BY <1>1, <1>2, <1>3 DEF ServeHTTP

\* HostnameOption redirects, but not to add a slash.
LEMMA NoSlash == \A q, up : HostnameOption(q, up).kind # "slash"
<1> SUFFICES ASSUME NEW q, NEW up PROVE HostnameOption(q, up).kind # "slash"
  OBVIOUS
<1>1. /\ \A ns, to : HnMoved(ns, to).kind # "slash"
      /\ \A code : HnError(code).kind # "slash"
      /\ \A ns, root, own, moved : HnServe(ns, root, own).kind # "slash" /\ [HnServe(ns, root, own) EXCEPT !.moved = moved].kind # "slash"
      /\ \A host : Website(host).kind # "slash"
  BY DEF HnMoved, HnError, HnServe, Website
<1>2. KnownHostname(q, up).kind # "slash"
  BY <1>1, ZenonT(60) DEF KnownHostname
<1>3. KnownSubdomain(q, up).kind # "slash"
  BY <1>1, ZenonT(60) DEF KnownSubdomain
<1> QED BY <1>1, <1>2, <1>3, Zenon DEF HostnameOption

(* The request is the first one, or the one of a redirect.                 *)
HnInv ==
    LET a == HnAsked(hnFirst) IN
    /\ AskedOK(a) /\ hnHops \in 0..MaxHops /\ hnUp \in BOOLEAN
    /\ PathRequest(hnReq, a) \/ HostRequest(hnReq, a)
    /\ hnReq.host = hnFirst.host
    /\ hnSlash \in {"fine", "missing", "added"}
    /\ hnHops > (IF hnSlash = "added" THEN 1 ELSE 0) => hnReq.root # NoText /\ Canonical(hnReq.ns, hnReq.root)
    /\ hnHops > (IF hnSlash = "added" THEN 2 ELSE 1) => hnReq.fwd
    /\ hnOut.kind = "slash" => hnSlash = "missing"
    /\ hnOut = [kind |-> "none"] \/ OutOK(hnReq, a, hnUp, hnOut)

\* What the requests enumerated for some hosts look like (FirstRequests).
LEMMA PathRequestIs ==
    ASSUME NEW hosts, NEW q \in PathRequests(hosts)
    PROVE  q.root = NoText /\ q.path.ns \in {"ipfs", "ipns"} /\ q.path.root \in Texts
  BY DEF PathRequests, HnRequest

LEMMA HostRequestIs ==
    ASSUME NEW hosts, NEW q \in HostRequests(hosts)
    PROVE  q.root \in Texts /\ q.ns \in {"ipfs", "ipns"} /\ q.host \in hosts
  BY DEF HostRequests, HnRequest

LEMMA HostnameInit == HnInit => HnInv
<1> SUFFICES ASSUME HnInit PROVE HnInv
  OBVIOUS
<1> DEFINE a == HnAsked(hnFirst)
<1>1. hnFirst \in FirstRequests /\ a.root \in Roots(a.ns) /\ hnReq = hnFirst /\ hnHops = 0 /\ hnUp = TRUE /\ hnOut = [kind |-> "none"]
      /\ hnSlash \in {"fine", "missing"}
  BY DEF HnInit, Requested
<1>2. hnHops \in 0..MaxHops /\ ~(hnHops > 0) /\ ~(hnHops > 1) /\ hnSlash # "added" /\ hnOut.kind # "slash"
  BY <1>1, HostnameAssumption
<1>3. CASE hnFirst \in PathRequests(DOMAIN Known \cup DOMAIN DefaultKnown \cup LinkIds)
  <2>1. hnFirst.root = NoText /\ hnFirst.path.ns \in {"ipfs", "ipns"} /\ hnFirst.path.root \in Texts
    BY <1>3, PathRequestIs
  <2>2. a = hnFirst.path
    BY <2>1 DEF HnAsked
  <2>3. AskedOK(a) /\ PathRequest(hnReq, a)
    BY <1>1, <2>1, <2>2 DEF AskedOK, PathRequest, Roots
  <2> QED BY <1>1, <1>2, <2>3 DEF HnInv
<1>4. CASE hnFirst \in HostRequests(DOMAIN Known)
  <2>1. hnFirst.root \in Texts /\ hnFirst.ns \in {"ipfs", "ipns"} /\ hnFirst.host \in DOMAIN Known /\ hnFirst.root # NoText
    BY <1>4, HostRequestIs, TextIs
  <2>2. a.ns = hnFirst.ns /\ a.root = hnFirst.root
    BY <2>1 DEF HnAsked
  <2>3. AskedOK(a) /\ HostRequest(hnReq, a)
    BY <1>1, <2>1, <2>2 DEF AskedOK, HostRequest, Roots
  <2> QED BY <1>1, <1>2, <2>3 DEF HnInv
<1> QED BY <1>1, <1>3, <1>4 DEF FirstRequests

LEMMA HostnameStep == HnInv /\ [HnNext]_hnVars => HnInv'
<1> SUFFICES ASSUME HnInv, [HnNext]_hnVars PROVE HnInv'
  OBVIOUS
<1> DEFINE a == HnAsked(hnFirst)
<1>1. CASE UNCHANGED hnVars
  BY <1>1 DEF hnVars, HnInv
<1>2. ASSUME NEW up \in BOOLEAN, NEW after \in HnAfter, HnHandle(up, after) PROVE HnInv'
  <2>1. OutOK(hnReq, a, up, HostnameOption(hnReq, up))
    BY HandlerIs DEF HnInv
  <2>2. /\ hnOut' = ServeHTTP(HostnameOption(hnReq, up), after) /\ hnUp' = up /\ UNCHANGED <<hnReq, hnFirst, hnSlash, hnHops>>
        /\ after = "slash" => hnSlash = "missing"
    BY <1>2 DEF HnHandle
  <2>3. OutOK(hnReq, a, up, hnOut') /\ (hnOut'.kind = "slash" => hnSlash = "missing")
    BY <2>1, <2>2, AfterIs, NoSlash
  <2> QED BY <2>2, <2>3 DEF HnInv
<1>3. CASE HnFollow
  <2>1. MovedOK(hnReq, a, hnOut)
    BY <1>3 DEF HnFollow, HnInv, OutOK
  <2>2. /\ hnReq' = HnRequest(hnReq.host, hnOut.ns, hnOut.root, NoPath, hnReq.https, hnReq.fwd)
        /\ hnHops' = hnHops + 1 /\ hnOut' = [kind |-> "none"] /\ UNCHANGED <<hnFirst, hnSlash, hnUp>> /\ hnHops < MaxHops
    BY <1>3 DEF HnFollow
  <2>3. hnReq'.host = hnReq.host /\ hnReq'.ns = hnOut.ns /\ hnReq'.root = hnOut.root /\ hnReq'.fwd = hnReq.fwd
    BY <2>2 DEF HnRequest
  <2>4. HostRequest(hnReq', a) /\ Canonical(hnReq'.ns, hnReq'.root) /\ hnReq'.root # NoText
    BY <2>1, <2>3, TextIs DEF MovedOK, HostRequest
  <2>5. /\ hnHops' \in 0..MaxHops
        /\ hnHops' > (IF hnSlash' = "added" THEN 2 ELSE 1) => hnHops > (IF hnSlash = "added" THEN 1 ELSE 0)
    BY <2>2, HostnameAssumption DEF HnInv
  <2>6. hnHops' > (IF hnSlash' = "added" THEN 2 ELSE 1) => hnReq'.fwd
    BY <2>1, <2>3, <2>5 DEF HnInv, MovedOK
  <2> QED BY <2>2, <2>3, <2>4, <2>5, <2>6 DEF HnInv
<1>4. CASE HnFollowSlash
  <2>1. /\ hnSlash = "missing" /\ hnSlash' = "added" /\ hnHops' = hnHops + 1 /\ hnOut' = [kind |-> "none"]
        /\ UNCHANGED <<hnReq, hnFirst, hnUp>> /\ hnHops < MaxHops
    BY <1>4 DEF HnFollowSlash, HnInv
  <2>2. /\ hnHops' \in 0..MaxHops
        /\ hnHops' > 1 => hnHops > 0
        /\ hnHops' > 2 => hnHops > 1
    BY <2>1, HostnameAssumption DEF HnInv
  <2> QED BY <2>1, <2>2 DEF HnInv
<1> QED BY <1>1, <1>2, <1>3, <1>4 DEF HnNext

\* However a name is written in a path or a host, one redirect leads to its
\* own host, besides the one that adds a directory's final slash, and what is
\* served is what was asked for (HostnameOption, toSubdomainURL, toDNSLabel,
\* serveDirectory).
THEOREM HostnameSound == HnInit /\ [][HnNext]_hnVars => []HnSound
<1>1. HnInit => HnInv
  BY HostnameInit
<1>2. HnInv /\ [HnNext]_hnVars => HnInv'
  BY HostnameStep
<1>3. HnInv => HnSound
  <2> SUFFICES ASSUME HnInv PROVE HnSound
    OBVIOUS
  <2>1. HnTypeOK
    BY DEF HnInv, HnTypeOK, PathRequest, HostRequest, OutOK, MovedOK
  <2>2. HnOneRedirect /\ HnSameContent
    BY DEF HnInv, HnOneRedirect, HnSameContent, OutOK, ServedOK
  <2> QED BY <2>1, <2>2 DEF HnSound
<1> QED BY <1>1, <1>2, <1>3, PTL
-----------------------------------------------------------------------------
(* The gateway: a request is a record with these fields, ...               *)
IsRequest(r) ==
    r = [pc |-> r.pc, q |-> r.q, site |-> r.site, path |-> r.path, node |-> r.node, status |-> r.status, etag |-> r.etag,
         body |-> r.body, forever |-> r.forever, torn |-> r.torn, failed |-> r.failed]

LEMMA AnswerIs ==
    ASSUME IsRequest(gwReq), NEW q, NEW status, NEW etag, NEW body, NEW forever
    PROVE  LET u == Answer(q, status, etag, body, forever)
           IN
           /\ IsRequest(u) /\ u.pc = "done" /\ u.status = status /\ u.etag = etag /\ u.body = body /\ u.forever = forever
           /\ u.q = gwReq.q /\ u.site = gwReq.site /\ u.path = gwReq.path /\ u.node = gwReq.node /\ u.torn = gwReq.torn
           /\ u.failed = gwReq.failed
<1> SUFFICES ASSUME NEW u, u = Answer(q, status, etag, body, forever)
             PROVE  /\ IsRequest(u) /\ u.pc = "done" /\ u.status = status /\ u.etag = etag /\ u.body = body /\ u.forever = forever
                    /\ u.q = gwReq.q /\ u.site = gwReq.site /\ u.path = gwReq.path /\ u.node = gwReq.node
                    /\ u.torn = gwReq.torn /\ u.failed = gwReq.failed
  OBVIOUS
<1> QED BY DEF Answer, IsRequest

LEMMA TornIs ==
    ASSUME NEW r, IsRequest(r), NEW torn, NEW failed, NEW u, u = [r EXCEPT !.torn = torn, !.failed = failed] \/ (failed = r.failed /\ u = [r EXCEPT !.torn = torn])
    PROVE  /\ IsRequest(u) /\ u.pc = r.pc /\ u.status = r.status /\ u.etag = r.etag /\ u.body = r.body /\ u.forever = r.forever
           /\ u.q = r.q /\ u.site = r.site /\ u.path = r.path /\ u.node = r.node /\ u.torn = torn /\ u.failed = failed
BY DEF IsRequest
(* ... its path is one of a root that is there, as long as no resolution   *)
(* failed, ...                                                             *)
FromRoot(r) == r.q.ns = "ipfs" /\ ~r.failed /\ Exists(r.q.root, r.q.path)
NodeIs(r) ==
    /\ r.node = Node(r.site, r.path) /\ r.path \in {"f", "j", "d"}
    /\ FromRoot(r) => r.site = r.q.root /\ r.path = r.q.path

(* ... and a complete response has the tag and the content of its node.    *)
Tags(r) == {CidEtag(r.q, r.node), DirEtag(r.node), DagEtag(r.node)}
ResponseOK(r) ==
    /\ r.status \in {200, 301, 304, 400, 404, 412, 500, 503}
    /\ r.status = 200 /\ r.etag # <<"none">> /\ ~r.torn => r.etag \in Tags(r) /\ r.body = Due(r.q, r.node)
    /\ r.status = 304 /\ ~r.torn => r.body = Due(r.q, Node(r.site, r.path))
    /\ r.forever => r.q.ns = "ipfs" /\ (FromRoot(r) => r.body = Due(r.q, Node(r.q.root, r.q.path)))

RequestOK(r) ==
    /\ IsRequest(r) /\ r.pc \in {"resolve", "etag", "redirects", "rewrite", "notFound", "block", "serve", "done"}
    /\ r.q.path \in GwPaths /\ r.q.fmt \in GwFormats
    /\ r.pc = "resolve" => r.path = r.q.path /\ ~r.failed
    /\ r.pc \in {"etag", "block", "serve"} => NodeIs(r)
    /\ r.pc \in {"redirects", "rewrite", "notFound"} => ~FromRoot(r)
    /\ r.pc = "done" => ResponseOK(r)

GwInv ==
    /\ gwName \in Sites /\ gwCount \in 0..MaxPublish
    /\ gwReq = NoReq \/ RequestOK(gwReq)
    /\ gwCache = NoCache \/ (RequestOK(gwCache) /\ gwCache.pc = "done" /\ gwCache.etag # <<"none">>)

LEMMA NodesAre ==
    \A s, p : /\ p \in {"f", "j", "d"} => Node(s, p)[1] \in {"file", "dir", "dag-json"} /\ Node(s, p) = <<Node(s, p)[1], Node(s, p)[2]>>
              /\ Node(s, p)[1] = "dir" => p = "d" /\ Node(s, p) = <<"dir", s.idx>>
              /\ Node(s, "index") = <<"file", s.idx>>
BY DEF Node

LEMMA GatewayInit == GwInit => GwInv
<1> SUFFICES ASSUME GwInit PROVE GwInv
  OBVIOUS
<1>1. gwName \in Sites
  BY GatewayAssumption DEF GwInit, NameRoot
<1>2. gwCount \in 0..MaxPublish
  BY GatewayAssumption DEF GwInit
<1> QED BY <1>1, <1>2 DEF GwInit, GwInv

LEMMA ReqIs == GwInv /\ gwReq.pc # "idle" => RequestOK(gwReq)
BY DEF GwInv, NoReq

\* A step of the request alone.
LEMMA RequestStep ==
    ASSUME GwInv, UNCHANGED <<gwName, gwCache, gwPuts, gwCount>>, RequestOK(gwReq')
    PROVE  GwInv'
BY DEF GwInv

LEMMA Failures ==
    \A s \in {301, 400, 404, 412, 500, 503} : s # 200 /\ s # 304 /\ s \in {200, 301, 304, 400, 404, 412, 500, 503}
OBVIOUS

\* What is not the content promises nothing, if it may not be kept for ever or
\* something has failed.
LEMMA PromisesNothing ==
    ASSUME RequestOK(gwReq), NEW u, IsRequest(u), u.pc = "done", u.status \in {301, 400, 404, 412, 500, 503}, u.q = gwReq.q,
           u.forever => u.q.ns = "ipfs" /\ ~FromRoot(u)
    PROVE  RequestOK(u)
<1>1. u.status # 200 /\ u.status # 304 /\ u.status \in {200, 301, 304, 400, 404, 412, 500, 503}
  BY Failures
<1>2. ResponseOK(u)
  BY <1>1 DEF ResponseOK
<1> QED BY <1>2 DEF RequestOK

LEMMA GwErrorIs ==
    ASSUME RequestOK(gwReq), NEW status \in {301, 400, 404, 412, 500, 503}, NEW q, NEW etag, NEW body, NEW forever,
           etag = <<"none">>, ~forever
    PROVE  RequestOK(Answer(q, status, etag, body, forever))
<1> DEFINE u == Answer(q, status, etag, body, forever)
<1>1. IsRequest(u) /\ u.pc = "done" /\ u.status = status /\ u.etag = etag /\ u.forever = forever /\ u.q = gwReq.q
  <2>1. IsRequest(gwReq)
    BY DEF RequestOK
  <2> QED BY <2>1, AnswerIs
<1> HIDE DEF u
<1>2. RequestOK(u)
  BY <1>1, PromisesNothing
<1> QED BY <1>2 DEF u

LEMMA GwErrors ==
    ASSUME RequestOK(gwReq), NEW q
    PROVE  RequestOK(GwError(q, 400)) /\ RequestOK(GwError(q, 404)) /\ RequestOK(GwError(q, 500)) /\ RequestOK(GwError(q, 503))
<1>1. PICK none : none = <<"none">>
  OBVIOUS
<1>2. PICK error : error = <<"error">>
  OBVIOUS
<1>3. PICK no : no = FALSE
  OBVIOUS
<1>4. \A status : GwError(q, status) = Answer(q, status, none, error, no)
  <2> SUFFICES ASSUME NEW status PROVE GwError(q, status) = Answer(q, status, none, error, no)
    OBVIOUS
  <2>1. GwError(q, status) = Answer(q, status, <<"none">>, <<"error">>, FALSE)
    BY DEF GwError
  <2> QED BY <1>1, <1>2, <1>3, <2>1
<1>5. /\ RequestOK(Answer(q, 400, none, error, no)) /\ RequestOK(Answer(q, 404, none, error, no))
      /\ RequestOK(Answer(q, 500, none, error, no)) /\ RequestOK(Answer(q, 503, none, error, no))
  BY <1>1, <1>3, GwErrorIs
<1> QED BY <1>4, <1>5

LEMMA GwRedirectIs ==
    ASSUME RequestOK(gwReq), NEW q, NEW etag, NEW body, NEW forever, etag = <<"none">>, ~forever
    PROVE  RequestOK(Answer(q, 301, etag, body, forever)) /\ RequestOK(Answer(q, 404, etag, body, forever))
BY GwErrorIs

\* An error under the tag of the content, whatever is recorded as torn.
LEMMA BrokenIs ==
    ASSUME RequestOK(gwReq), NEW q, q = gwReq.q, NEW etag, NEW forever, forever => q.ns = "ipfs", NEW torn
    PROVE  RequestOK(Broken(q, etag, forever)) /\ RequestOK([Broken(q, etag, forever) EXCEPT !.torn = torn])
<1>1. PICK error, yes : error = <<"error">> /\ yes = TRUE
  OBVIOUS
<1>2. PICK a : a = Answer(q, 500, etag, error, forever)
  OBVIOUS
<1>3. IsRequest(a) /\ a.pc = "done" /\ a.status = 500 /\ a.forever = forever /\ a.q = q
  <2>1. IsRequest(gwReq)
    BY DEF RequestOK
  <2> QED BY <1>2, <2>1, AnswerIs
<1>4. PICK u : u = [a EXCEPT !.torn = yes, !.failed = yes]
  OBVIOUS
<1>5. PICK v : v = [u EXCEPT !.torn = torn]
  OBVIOUS
<1>6. IsRequest(u) /\ u.pc = "done" /\ u.status = 500 /\ u.forever = forever /\ u.q = q /\ u.failed = yes
  BY <1>3, <1>4 DEF IsRequest
<1>7. IsRequest(v) /\ v.pc = "done" /\ v.status = 500 /\ v.forever = forever /\ v.q = q /\ v.failed = yes
  BY <1>5, <1>6 DEF IsRequest
<1>8. ~FromRoot(u) /\ ~FromRoot(v)
  BY <1>1, <1>6, <1>7 DEF FromRoot
<1>9. RequestOK(u) /\ RequestOK(v)
  BY <1>6, <1>7, <1>8, PromisesNothing
<1>10. u = Broken(q, etag, forever)
  BY <1>1, <1>2, <1>4, Zenon DEF Broken
<1> QED BY <1>5, <1>9, <1>10

\* What is served from the node the path was resolved to.
LEMMA ResponseIs ==
    ASSUME RequestOK(gwReq), gwReq.pc = "serve", NEW u, IsRequest(u), u.pc = "done", u.status \in {200, 301},
           u.q = gwReq.q, u.site = gwReq.site, u.path = gwReq.path, u.node = gwReq.node, ~u.failed => ~gwReq.failed,
           u.torn \/ (u.etag \in Tags(u) /\ u.body = Due(u.q, u.node)),
           u.forever => u.q.ns = "ipfs" /\ (FromRoot(u) => u.body = Due(u.q, u.node))
    PROVE  RequestOK(u)
<1>1. FromRoot(u) => u.node = Node(u.q.root, u.q.path)
  BY DEF RequestOK, NodeIs, FromRoot
<1>2. ResponseOK(u)
  BY <1>1 DEF ResponseOK
<1> QED BY <1>2 DEF RequestOK

LEMMA GetStep == ASSUME GwInv, NEW q \in Requests, GetOrHead(q) PROVE GwInv'
<1>1. gwReq' = Started(q) /\ UNCHANGED <<gwName, gwCache, gwPuts, gwCount>>
  BY DEF GetOrHead
<1>2. IsRequest(gwReq') /\ gwReq'.pc = "resolve" /\ gwReq'.q = q /\ gwReq'.path = q.path /\ gwReq'.failed = FALSE
  BY <1>1 DEF Started, IsRequest
<1>3. q.path \in GwPaths /\ q.fmt \in GwFormats
  BY DEF Requests
<1>4. RequestOK(gwReq')
  BY <1>2, <1>3 DEF RequestOK
<1> QED BY <1>1, <1>4, RequestStep

LEMMA EarlyStep == ASSUME GwInv, NEW status \in {200, 301, 400, 412}, EarlyAnswer(status) PROVE GwInv'
<1> DEFINE q == CHOOSE x \in Requests : x.path = "f"
           r == Started(q)
<1>1. q \in Requests
  <2>1. PICK fmt : fmt \in GwFormats
    <3>1. GwFormats # {}
      BY GatewayAssumption
    <3> QED BY <3>1
  <2> DEFINE x == [ns |-> "ipfs", root |-> gwPuts, path |-> "f", fmt |-> fmt]
  <2>2. x \in Requests /\ x.path = "f"
    BY <2>1 DEF Requests, GwPaths
  <2> QED BY <2>2
<1>2. q.path \in GwPaths /\ q.fmt \in GwFormats
  BY <1>1 DEF Requests
<1>3. IsRequest(r) /\ r.q = q /\ r.etag = <<"none">> /\ r.forever = FALSE
  BY DEF Started, IsRequest
<1>4. gwReq' = [r EXCEPT !.pc = "done", !.status = status] /\ UNCHANGED <<gwName, gwCache, gwPuts, gwCount>>
  BY DEF EarlyAnswer
<1> HIDE DEF r, q
<1>5. /\ IsRequest(gwReq') /\ gwReq'.pc = "done" /\ gwReq'.status = status /\ gwReq'.q = q
      /\ gwReq'.etag = <<"none">> /\ gwReq'.forever = FALSE
  BY <1>3, <1>4 DEF IsRequest
<1>6. ResponseOK(gwReq')
  BY <1>5 DEF ResponseOK
<1>7. RequestOK(gwReq')
  BY <1>2, <1>5, <1>6 DEF RequestOK
<1> QED BY <1>4, <1>7, RequestStep

\* A path that does not resolve although it is there is a failure.
LEMMA ResolveStep == ASSUME GwInv, NEW outcome, PathResolution(outcome) PROVE GwInv'
<1> DEFINE q == gwReq.q
           s == Site(q)
<1>1. /\ gwReq.pc = "resolve" /\ RequestOK(gwReq) /\ IsRequest(gwReq) /\ gwReq.path = q.path /\ ~gwReq.failed
      /\ q.path \in GwPaths /\ q.fmt \in GwFormats /\ UNCHANGED <<gwName, gwCache, gwPuts, gwCount>>
  BY ReqIs DEF PathResolution, RequestOK
<1>2. q.ns = "ipfs" => s = q.root
  BY DEF Site
<1>3. CASE Exists(s, q.path) /\ gwReq' = [gwReq EXCEPT !.pc = "etag", !.site = s, !.node = Node(s, q.path)]
  <2> HIDE DEF s, q
  <2>1. /\ IsRequest(gwReq') /\ gwReq'.pc = "etag" /\ gwReq'.site = s /\ gwReq'.node = Node(s, q.path)
        /\ gwReq'.q = q /\ gwReq'.path = gwReq.path /\ gwReq'.failed = gwReq.failed
    BY <1>1, <1>3 DEF IsRequest, q
  <2>2. NodeIs(gwReq')
    BY <1>1, <1>2, <1>3, <2>1 DEF NodeIs, FromRoot, Exists, GwPaths
  <2>3. RequestOK(gwReq')
    BY <1>1, <2>1, <2>2 DEF RequestOK
  <2> QED BY <1>1, <2>3, RequestStep
<1>4. CASE gwReq' = GwError(q, 503) \/ gwReq' = GwError(q, 404)
  <2>1. RequestOK(gwReq')
    BY <1>1, <1>4, GwErrors
  <2> QED BY <1>1, <2>1, RequestStep
<1>5. CASE gwReq' = [gwReq EXCEPT !.pc = "redirects", !.site = s, !.failed = Exists(s, q.path)]
  <2> HIDE DEF s, q
  <2>1. IsRequest(gwReq') /\ gwReq'.pc = "redirects" /\ gwReq'.q = q /\ gwReq'.failed = Exists(s, q.path)
    BY <1>1, <1>5 DEF IsRequest, q
  <2>2. ~FromRoot(gwReq')
    BY <1>2, <2>1 DEF FromRoot
  <2>3. RequestOK(gwReq')
    BY <1>1, <2>1, <2>2 DEF RequestOK
  <2> QED BY <1>1, <2>3, RequestStep
<1> QED BY <1>3, <1>4, <1>5 DEF PathResolution

\* A rule of _redirects answers for a path that did not resolve, ...
LEMMA RedirectsStep == ASSUME GwInv, NEW outcome, Redirects(outcome) PROVE GwInv'
<1> DEFINE q == gwReq.q
           rule == Site(q).rule
<1>1. /\ gwReq.pc = "redirects" /\ RequestOK(gwReq) /\ IsRequest(gwReq) /\ ~FromRoot(gwReq)
      /\ UNCHANGED <<gwName, gwCache, gwPuts, gwCount>>
  BY ReqIs DEF Redirects, RequestOK
<1> SUFFICES RequestOK(gwReq')
  BY <1>1, RequestStep
<1>2. CASE rule \in {"rewrite", "notFound"} /\ gwReq' = [gwReq EXCEPT !.pc = rule]
  <2> HIDE DEF rule
  <2>1. IsRequest(gwReq') /\ gwReq'.pc = rule /\ gwReq'.q = q /\ gwReq'.failed = gwReq.failed
    BY <1>1, <1>2 DEF IsRequest
  <2>2. ~FromRoot(gwReq')
    BY <1>1, <2>1 DEF FromRoot
  <2> QED BY <1>1, <1>2, <2>1, <2>2 DEF RequestOK
<1>3. PICK none, no : none = <<"none">> /\ no = FALSE
  OBVIOUS
<1>4. CASE gwReq' = Answer(q, 301, none, <<"redirect">>, no) \/ gwReq' = Answer(q, 404, none, <<"404.html">>, no)
  BY <1>1, <1>3, <1>4, GwRedirectIs
<1>5. CASE gwReq' = GwError(q, 404) \/ gwReq' = GwError(q, 500)
  BY <1>1, <1>5, GwErrors
<1>6. Legacy404(q) = Answer(q, 404, none, <<"404.html">>, no) \/ Legacy404(q) = GwError(q, 404)
  <2>1. Answer(q, 404, none, <<"404.html">>, no) = Answer(q, 404, <<"none">>, <<"404.html">>, FALSE)
    BY <1>3, Zenon
  <2>2. Legacy404(q) = Answer(q, 404, <<"none">>, <<"404.html">>, FALSE) \/ Legacy404(q) = GwError(q, 404)
    BY Zenon DEF Legacy404
  <2> QED BY <2>1, <2>2, Zenon
<1>7. \/ rule \in {"rewrite", "notFound"} /\ gwReq' = [gwReq EXCEPT !.pc = rule]
      \/ gwReq' = Answer(q, 301, <<"none">>, <<"redirect">>, FALSE)
      \/ gwReq' = Legacy404(q) \/ gwReq' = GwError(q, 500) \/ gwReq' = GwError(q, 404)
  <2>1. gwReq' = IF outcome = "ok" /\ rule \in {"rewrite", "notFound"} THEN [gwReq EXCEPT !.pc = rule]
                 ELSE IF outcome = "ok" /\ rule = "redirect" THEN Answer(q, 301, <<"none">>, <<"redirect">>, FALSE)
                 ELSE IF outcome = "legacy" THEN Legacy404(q)
                 ELSE IF outcome = "failed" THEN GwError(q, 500) ELSE GwError(q, 404)
    BY Zenon DEF Redirects
  <2> HIDE DEF rule, q
  <2>2. CASE outcome = "ok" /\ rule \in {"rewrite", "notFound"}
    BY ONLY <2>1, <2>2, Zenon
  <2>3. CASE ~(outcome = "ok" /\ rule \in {"rewrite", "notFound"}) /\ outcome = "ok" /\ rule = "redirect"
    BY ONLY <2>1, <2>3, Zenon
  <2>4. CASE ~(outcome = "ok" /\ rule \in {"rewrite", "notFound"}) /\ ~(outcome = "ok" /\ rule = "redirect")
    <3>1. gwReq' = IF outcome = "legacy" THEN Legacy404(q)
                   ELSE IF outcome = "failed" THEN GwError(q, 500) ELSE GwError(q, 404)
      BY ONLY <2>1, <2>4, Zenon
    <3>2. gwReq' = Legacy404(q) \/ gwReq' = GwError(q, 500) \/ gwReq' = GwError(q, 404)
      BY ONLY <3>1
    <3> QED BY ONLY <3>2, Zenon
  <2> QED BY <2>2, <2>3, <2>4
<1>8. Answer(q, 301, none, <<"redirect">>, no) = Answer(q, 301, <<"none">>, <<"redirect">>, FALSE)
  BY <1>3, Zenon
<1> HIDE DEF rule, q
<1> QED BY <1>2, <1>4, <1>5, <1>6, <1>7, <1>8, ZenonT(60)

\* ... and its target is resolved anew.
LEMMA RedirectTargetStep == ASSUME GwInv, NEW ok, RedirectTarget(ok) PROVE GwInv'
<1> DEFINE q == gwReq.q
           s == Site(q)
           page == Node(s, "f")
<1>1. /\ gwReq.pc \in {"rewrite", "notFound"} /\ RequestOK(gwReq) /\ IsRequest(gwReq) /\ ~FromRoot(gwReq)
      /\ q.path \in GwPaths /\ q.fmt \in GwFormats /\ UNCHANGED <<gwName, gwCache, gwPuts, gwCount>>
  BY ReqIs DEF RedirectTarget, RequestOK
<1> SUFFICES RequestOK(gwReq')
  BY <1>1, RequestStep
<1>2. CASE gwReq' = GwError(q, 500)
  BY <1>1, <1>2, GwErrors
<1>3. CASE gwReq' = [gwReq EXCEPT !.pc = "etag", !.site = s, !.path = "f", !.node = page]
  <2> HIDE DEF s, q, page
  <2>1. /\ IsRequest(gwReq') /\ gwReq'.pc = "etag" /\ gwReq'.site = s /\ gwReq'.node = page
        /\ gwReq'.q = q /\ gwReq'.path = "f" /\ gwReq'.failed = gwReq.failed
    BY <1>1, <1>3 DEF IsRequest, q
  <2>2. NodeIs(gwReq')
    BY <1>1, <2>1 DEF NodeIs, FromRoot, q, page
  <2> QED BY <1>1, <2>1, <2>2 DEF RequestOK
<1>4. CASE gwReq' = Answer(q, 404, CidEtag(q, page), <<"block", page>>, Immutable(q))
  <2> HIDE DEF s, page
  <2>1. /\ IsRequest(gwReq') /\ gwReq'.pc = "done" /\ gwReq'.status = 404 /\ gwReq'.forever = Immutable(q)
        /\ gwReq'.q = q /\ gwReq'.failed = gwReq.failed
    BY <1>1, <1>4, AnswerIs
  <2>2. ~FromRoot(gwReq')
    BY <1>1, <2>1 DEF FromRoot
  <2>3. gwReq'.status \in {301, 400, 404, 412, 500, 503}
    BY <2>1, Failures
  <2>4. gwReq'.forever => gwReq'.q.ns = "ipfs" /\ ~FromRoot(gwReq')
    BY <2>1, <2>2 DEF Immutable
  <2> HIDE DEF q
  <2> QED BY <1>1, <2>1, <2>3, <2>4, PromisesNothing DEF q
<1> QED BY <1>2, <1>3, <1>4 DEF RedirectTarget

\* A tag that matches is one of the same node.
LEMMA NotModifiedStep == ASSUME GwInv, NotModified PROVE GwInv'
<1> DEFINE q == gwReq.q
           node == gwReq.node
<1>1. /\ gwReq.pc = "etag" /\ RequestOK(gwReq) /\ IsRequest(gwReq) /\ NodeIs(gwReq)
      /\ q.path \in GwPaths /\ q.fmt \in GwFormats /\ UNCHANGED <<gwName, gwCache, gwPuts, gwCount>>
  BY ReqIs DEF NotModified, RequestOK
<1>2. CASE ~EtagMatch(q, node)
  <2>1. gwReq' = [gwReq EXCEPT !.pc = "block"]
    BY <1>2 DEF NotModified
  <2>2. /\ IsRequest(gwReq') /\ gwReq'.pc = "block" /\ gwReq'.q = q /\ gwReq'.node = node /\ gwReq'.site = gwReq.site
        /\ gwReq'.path = gwReq.path /\ gwReq'.failed = gwReq.failed
    BY <1>1, <2>1 DEF IsRequest
  <2>3. RequestOK(gwReq')
    BY <1>1, <2>2 DEF RequestOK, NodeIs, FromRoot
  <2> QED BY <1>1, <2>3, RequestStep
<1>3. CASE EtagMatch(q, node)
  <2> DEFINE torn == gwCache.torn \/ gwCache.status # 200
             u == Answer(q, 304, GwInm(q), gwCache.body, FALSE)
  <2>1. gwReq' = [u EXCEPT !.torn = torn]
    BY <1>3 DEF NotModified
  <2>2. /\ IsRequest(u) /\ u.pc = "done" /\ u.status = 304 /\ u.body = gwCache.body /\ u.forever = FALSE
        /\ u.q = q /\ u.site = gwReq.site /\ u.path = gwReq.path
    <3> SUFFICES ASSUME NEW no, no = FALSE, u = Answer(q, 304, GwInm(q), gwCache.body, no)
                 PROVE  /\ IsRequest(u) /\ u.pc = "done" /\ u.status = 304 /\ u.body = gwCache.body /\ u.forever = no
                        /\ u.q = q /\ u.site = gwReq.site /\ u.path = gwReq.path
      OBVIOUS
    <3> HIDE DEF u
    <3> QED BY <1>1, AnswerIs
  <2> HIDE DEF u, torn
  <2>3. /\ IsRequest(gwReq') /\ gwReq'.pc = "done" /\ gwReq'.status = 304 /\ gwReq'.body = gwCache.body /\ gwReq'.forever = FALSE
        /\ gwReq'.q = q /\ gwReq'.site = gwReq.site /\ gwReq'.path = gwReq.path /\ gwReq'.torn = torn
    BY <2>1, <2>2 DEF IsRequest
  <2>4. GwInm(q) # <<"none">>
    BY <1>3 DEF EtagMatch, CidEtag, DirEtag
  <2>5. gwCache # NoCache /\ gwCache.q = q /\ gwCache.etag \in {CidEtag(q, node), DirEtag(node)}
    BY <1>3, <2>4 DEF EtagMatch, GwInm
  <2>6. ~torn => gwCache.body = Due(q, node)
    <3> SUFFICES ASSUME ~torn PROVE gwCache.body = Due(q, node)
      OBVIOUS
    <3>1. ResponseOK(gwCache) /\ gwCache.status = 200 /\ ~gwCache.torn /\ gwCache.etag # <<"none">>
      BY <2>5 DEF GwInv, RequestOK, torn
    <3>2. gwCache.etag \in {CidEtag(q, gwCache.node), DirEtag(gwCache.node), DagEtag(gwCache.node)} /\ gwCache.body = Due(q, gwCache.node)
      BY <2>5, <3>1 DEF ResponseOK, Tags
    <3>3. gwCache.node = node
      BY <2>5, <3>2 DEF CidEtag, DirEtag, DagEtag
    <3> QED BY <3>2, <3>3
  <2>7. ResponseOK(gwReq')
    BY <1>1, <2>3, <2>6 DEF ResponseOK, NodeIs
  <2>8. RequestOK(gwReq')
    BY <1>1, <2>3, <2>7 DEF RequestOK
  <2> QED BY <1>1, <2>8, RequestStep
<1> QED BY <1>2, <1>3

LEMMA BlockStep == ASSUME GwInv, NEW ok \in BOOLEAN, FirstBlock(ok) PROVE GwInv'
<1>1. /\ gwReq.pc = "block" /\ RequestOK(gwReq) /\ IsRequest(gwReq) /\ NodeIs(gwReq)
      /\ UNCHANGED <<gwName, gwCache, gwPuts, gwCount>>
  BY ReqIs DEF FirstBlock, RequestOK
<1>2. CASE gwReq' = GwError(gwReq.q, 500)
  <2>1. RequestOK(gwReq')
    BY <1>1, <1>2, GwErrors
  <2> QED BY <1>1, <2>1, RequestStep
<1>3. CASE gwReq' = [gwReq EXCEPT !.pc = "serve"]
  <2>1. /\ IsRequest(gwReq') /\ gwReq'.pc = "serve" /\ gwReq'.q = gwReq.q /\ gwReq'.node = gwReq.node /\ gwReq'.site = gwReq.site
        /\ gwReq'.path = gwReq.path /\ gwReq'.failed = gwReq.failed
    BY <1>1, <1>3 DEF IsRequest
  <2>2. RequestOK(gwReq')
    BY <1>1, <2>1 DEF RequestOK, NodeIs, FromRoot
  <2> QED BY <1>1, <2>2, RequestStep
<1> QED BY <1>2, <1>3 DEF FirstBlock

\* The content that belongs to a format and a node.
LEMMA DueIs ==
    ASSUME NEW q, NEW n, n[1] \in {"file", "dir", "dag-json"}
    PROVE  /\ IsCodec(n) /\ q.fmt = "html" => Due(q, n) = <<"html", n>>
           /\ q.fmt # "html" /\ IsCodec(n) /\ AsUnixFS(q) => Due(q, n) = <<"block", n>>
           /\ n[1] = "file" /\ AsUnixFS(q) => Due(q, n) = <<"block", n>>
           /\ n[1] = "dir" /\ AsUnixFS(q) => Due(q, n) = IF n[2] # "none" THEN <<"block", <<"file", n[2]>>>> ELSE <<"listing", n>>
           /\ q.fmt = "dag-json" => Due(q, n) = <<"converted", n>>
           /\ q.fmt \in {"raw", "car", "tar"} => Due(q, n) = <<q.fmt, n>>
<1>1. IsCodec(n) /\ q.fmt = "html" => Due(q, n) = <<"html", n>>
  BY DEF Due, IsCodec
<1>2. q.fmt # "html" /\ IsCodec(n) /\ AsUnixFS(q) => Due(q, n) = <<"block", n>>
  BY DEF Due, IsCodec, AsUnixFS, Default
<1>3. n[1] = "file" /\ AsUnixFS(q) => Due(q, n) = <<"block", n>>
  BY DEF Due, IsCodec, AsUnixFS, Default
<1>4. n[1] = "dir" /\ AsUnixFS(q) => Due(q, n) = IF n[2] # "none" THEN <<"block", <<"file", n[2]>>>> ELSE <<"listing", n>>
  BY DEF Due, IsCodec, AsUnixFS, Default
<1>5. q.fmt = "dag-json" => Due(q, n) = <<"converted", n>>
  BY DEF Due, AsUnixFS, Default
<1>6. q.fmt \in {"raw", "car", "tar"} => Due(q, n) = <<q.fmt, n>>
  BY DEF Due, AsUnixFS, Default
<1> QED BY <1>1, <1>2, <1>3, <1>4, <1>5, <1>6

\* A directory is answered for by its index.html or a listing, of the site of
\* now.
LEMMA DirectoryStep ==
    ASSUME RequestOK(gwReq), gwReq.pc = "serve", NEW q, q = gwReq.q, NEW node, node = gwReq.node, NEW outcome,
           node[1] = "dir", gwReq.path = "d", node = <<"dir", gwReq.site.idx>>, AsUnixFS(q)
    PROVE  RequestOK(ServeDirectory(q, node, outcome))
<1>1. IsRequest(gwReq) /\ NodeIs(gwReq)
  BY DEF RequestOK
<1>2. PICK s : s = Site(q)
  OBVIOUS
<1>3. PICK torn : torn = (Node(s, gwReq.path) # node)
  OBVIOUS
<1>4. PICK none, no : none = <<"none">> /\ no = FALSE
  OBVIOUS
<1>5. PICK file : file = <<"block", Node(s, "index")>>
  OBVIOUS
<1>6. PICK listing : listing = <<"listing", node>>
  OBVIOUS
<1>7. PICK answer : answer = IF Exists(s, "index") THEN ServeFile(q, node, Node(s, "index"), outcome)
                             ELSE ServeListing(q, node, outcome)
  OBVIOUS
<1>8. PICK u : u = [answer EXCEPT !.torn = answer.torn \/ torn]
  OBVIOUS
<1>9. ServeDirectory(q, node, outcome) = IF outcome = "slash" THEN Answer(q, 301, <<"none">>, <<"redirect">>, FALSE)
                                         ELSE IF outcome = "early" THEN GwError(q, 500) ELSE u
  BY <1>2, <1>3, <1>7, <1>8 DEF ServeDirectory
<1>10. RequestOK(Answer(q, 301, <<"none">>, <<"redirect">>, FALSE)) /\ RequestOK(GwError(q, 500))
  <2>1. RequestOK(Answer(q, 301, none, <<"redirect">>, no)) /\ RequestOK(GwError(q, 500))
    BY <1>4, GwRedirectIs, GwErrors
  <2>2. Answer(q, 301, none, <<"redirect">>, no) = Answer(q, 301, <<"none">>, <<"redirect">>, FALSE)
    BY <1>4, Zenon
  <2> QED BY <2>1, <2>2
<1>11. \/ answer = Broken(q, CidEtag(q, node), Immutable(q)) \/ answer = Broken(q, DirEtag(node), no)
       \/ answer = Answer(q, 301, none, <<"redirect">>, no)
       \/ Exists(s, "index") /\ \E status \in {200, 301} : answer = Answer(q, status, CidEtag(q, node), file, Immutable(q))
       \/ ~Exists(s, "index") /\ answer = Answer(q, 200, DirEtag(node), listing, no)
  <2>1. CASE Exists(s, "index")
    <3>1. answer = ServeFile(q, node, Node(s, "index"), outcome)
      BY <1>7, <2>1, Zenon
    <3>2. \/ answer = Broken(q, CidEtag(q, node), Immutable(q))
          \/ answer = Answer(q, 301, CidEtag(q, node), <<"block", Node(s, "index")>>, Immutable(q))
          \/ answer = Answer(q, 200, CidEtag(q, node), <<"block", Node(s, "index")>>, Immutable(q))
      BY <3>1, ZenonT(60) DEF ServeFile
    <3> QED BY <1>5, <2>1, <3>2
  <2>2. CASE ~Exists(s, "index")
    <3>1. answer = ServeListing(q, node, outcome)
      BY <1>7, <2>2, Zenon
    <3>2. \/ answer = Answer(q, 301, <<"none">>, <<"redirect">>, FALSE) \/ answer = Broken(q, DirEtag(node), FALSE)
          \/ answer = Answer(q, 200, DirEtag(node), <<"listing", node>>, FALSE)
      BY <3>1, Zenon DEF ServeListing
    <3>3. \/ answer = Answer(q, 301, none, <<"redirect">>, no) \/ answer = Broken(q, DirEtag(node), no)
          \/ answer = Answer(q, 200, DirEtag(node), listing, no)
      BY <1>4, <1>6, <3>2, Zenon
    <3> QED BY <2>2, <3>3
  <2> QED BY <2>1, <2>2
<1>12. CASE answer = Broken(q, CidEtag(q, node), Immutable(q)) \/ answer = Broken(q, DirEtag(node), no)
  <2>1. PICK etag, forever : answer = Broken(q, etag, forever) /\ (forever => q.ns = "ipfs")
    BY <1>4, <1>12, ZenonT(60) DEF Immutable
  <2>2. PICK x : x = (answer.torn \/ torn)
    OBVIOUS
  <2>3. RequestOK([Broken(q, etag, forever) EXCEPT !.torn = x])
    BY <2>1, BrokenIs
  <2>4. u = [Broken(q, etag, forever) EXCEPT !.torn = x]
    BY <1>8, <2>1, <2>2
  <2> QED BY <1>9, <1>10, <2>3, <2>4
<1>13. CASE answer = Answer(q, 301, none, <<"redirect">>, no)
  <2>1. IsRequest(answer) /\ answer.pc = "done" /\ answer.status = 301 /\ answer.q = q /\ answer.forever = no
    BY <1>1, <1>13, AnswerIs
  <2>2. IsRequest(u) /\ u.pc = "done" /\ u.status = 301 /\ u.q = q /\ u.forever = no
    BY <1>8, <2>1 DEF IsRequest
  <2>3. u.status \in {301, 400, 404, 412, 500, 503}
    BY <2>2, Failures
  <2>4. RequestOK(u)
    BY <1>4, <2>2, <2>3, PromisesNothing
  <2> QED BY <1>9, <1>10, <2>4
<1>14. CASE \/ Exists(s, "index") /\ \E status \in {200, 301} : answer = Answer(q, status, CidEtag(q, node), file, Immutable(q))
            \/ ~Exists(s, "index") /\ answer = Answer(q, 200, DirEtag(node), listing, no)
  <2>1. PICK status \in {200, 301}, etag \in {CidEtag(q, node), DirEtag(node)}, forever \in {no, Immutable(q)} :
            answer = Answer(q, status, etag, IF Exists(s, "index") THEN file ELSE listing, forever)
    BY <1>14
  <2>2. PICK body : body = IF Exists(s, "index") THEN file ELSE listing
    OBVIOUS
  <2>3. /\ IsRequest(answer) /\ answer.pc = "done" /\ answer.status = status /\ answer.q = q /\ answer.forever = forever
        /\ answer.etag = etag /\ answer.body = body /\ answer.site = gwReq.site /\ answer.path = gwReq.path
        /\ answer.node = node /\ answer.failed = gwReq.failed
    BY <1>1, <2>1, <2>2, AnswerIs
  <2>4. /\ IsRequest(u) /\ u.pc = "done" /\ u.status = status /\ u.q = q /\ u.forever = forever
        /\ u.etag = etag /\ u.body = body /\ u.site = gwReq.site /\ u.path = gwReq.path
        /\ u.node = node /\ u.failed = gwReq.failed /\ (torn => u.torn)
    BY <1>8, <2>3 DEF IsRequest
  <2>5. ~torn => body = Due(q, node)
    <3> SUFFICES ASSUME ~torn PROVE body = Due(q, node)
      OBVIOUS
    <3>1. node = <<"dir", s.idx>>
      BY <1>3 DEF Node
    <3>2. node[2] = s.idx
      BY <3>1
    <3>3. Due(q, node) = IF node[2] # "none" THEN <<"block", <<"file", node[2]>>>> ELSE <<"listing", node>>
      BY DueIs
    <3>4. body = IF s.idx # "none" THEN <<"block", <<"file", s.idx>>>> ELSE <<"listing", node>>
      BY <1>5, <1>6, <2>2, NodesAre DEF Exists
    <3> QED BY <3>2, <3>3, <3>4
  <2>6. FromRoot(gwReq) => ~torn
    BY <1>1, <1>2, <1>3 DEF NodeIs, FromRoot, Site
  <2>7. FromRoot(u) => FromRoot(gwReq)
    BY <2>4 DEF FromRoot
  <2>8. u.etag \in Tags(u)
    BY <2>4 DEF Tags
  <2>9. u.forever => u.q.ns = "ipfs" /\ (FromRoot(u) => u.body = Due(u.q, u.node))
    BY <1>4, <2>4, <2>5, <2>6, <2>7 DEF Immutable
  <2>10. u.torn \/ (u.etag \in Tags(u) /\ u.body = Due(u.q, u.node))
    BY <2>4, <2>5, <2>8
  <2>11. RequestOK(u)
    BY <2>4, <2>9, <2>10, ResponseIs
  <2> QED BY <1>9, <1>10, <2>11, ZenonT(60)
<1> QED BY <1>11, <1>12, <1>13, <1>14

\* The content of a node, under one of its tags.
LEMMA ContentIs ==
    ASSUME RequestOK(gwReq), gwReq.pc = "serve", NEW q, q = gwReq.q, NEW node, node = gwReq.node, NEW status \in {200, 301},
           NEW etag, etag \in {CidEtag(q, node), DagEtag(node)}, NEW forever, forever => q.ns = "ipfs",
           NEW body, body = Due(q, node)
    PROVE  RequestOK(Answer(q, status, etag, body, forever))
<1>1. PICK u : u = Answer(q, status, etag, body, forever)
  OBVIOUS
<1>2. IsRequest(gwReq)
  BY DEF RequestOK
<1>3. /\ IsRequest(u) /\ u.pc = "done" /\ u.status = status /\ u.etag = etag /\ u.body = body
      /\ u.forever = forever /\ u.q = q /\ u.site = gwReq.site /\ u.path = gwReq.path
      /\ u.node = node /\ u.failed = gwReq.failed
  BY <1>1, <1>2, AnswerIs
<1>4. u.etag \in Tags(u)
  BY <1>3 DEF Tags
<1>5. RequestOK(u)
  BY <1>3, <1>4, ResponseIs
<1> QED BY <1>1, <1>5

LEMMA ServeStep == ASSUME GwInv, NEW outcome, GwServe(outcome) PROVE GwInv'
<1> DEFINE q == gwReq.q
           node == gwReq.node
           s == Site(q)
<1>1. /\ gwReq.pc = "serve" /\ RequestOK(gwReq) /\ IsRequest(gwReq) /\ NodeIs(gwReq) /\ q.fmt \in GwFormats
      /\ UNCHANGED <<gwName, gwCache, gwPuts, gwCount>>
  BY ReqIs DEF GwServe, RequestOK
<1>2. node[1] \in {"file", "dir", "dag-json"} /\ (node[1] = "dir" => gwReq.path = "d" /\ node = <<"dir", gwReq.site.idx>>)
  BY <1>1, NodesAre DEF NodeIs
<1>3. q.fmt \in {"plain", "html", "json", "dag-json", "raw", "car", "tar"}
  BY <1>1, GatewayAssumption
<1> SUFFICES RequestOK(gwReq')
  BY <1>1, RequestStep
<1>4. /\ RequestOK(Answer(q, 200, CidEtag(q, node), Due(q, node), Immutable(q)))
      /\ RequestOK(Answer(q, 301, CidEtag(q, node), Due(q, node), Immutable(q)))
      /\ RequestOK(Answer(q, 200, DagEtag(node), Due(q, node), FALSE))
  <2>1. PICK no : no = FALSE
    OBVIOUS
  <2>2. RequestOK(Answer(q, 200, DagEtag(node), Due(q, node), no))
    BY <1>1, <2>1, ContentIs
  <2>3. /\ RequestOK(Answer(q, 200, CidEtag(q, node), Due(q, node), Immutable(q)))
        /\ RequestOK(Answer(q, 301, CidEtag(q, node), Due(q, node), Immutable(q)))
    <3>1. Immutable(q) => q.ns = "ipfs"
      BY DEF Immutable
    <3> QED BY <1>1, <3>1, ContentIs
  <2> QED BY <2>1, <2>2, <2>3
<1>5. CASE gwReq' = GwError(q, 400) \/ gwReq' = GwError(q, 500)
  BY <1>1, <1>5, GwErrors
<1>6. CASE gwReq' = Broken(q, DagEtag(node), FALSE) \/ gwReq' = Broken(q, CidEtag(q, node), Immutable(q))
  <2>1. PICK no : no = FALSE
    OBVIOUS
  <2>2. RequestOK(Broken(q, DagEtag(node), no)) /\ RequestOK(Broken(q, CidEtag(q, node), Immutable(q)))
    BY <1>1, <2>1, BrokenIs DEF Immutable
  <2> QED BY <1>6, <2>1, <2>2
<1>7. CASE gwReq' = ServeDirectory(q, node, outcome) /\ node[1] = "dir" /\ AsUnixFS(q)
  BY <1>1, <1>2, <1>7, DirectoryStep
<1>8. CASE gwReq' = ServeStream(q, node, outcome) /\ outcome # "early" /\ q.fmt \in {"car", "tar"}
  <2> DEFINE cut == outcome = "cut"
             body == IF cut THEN <<"cut", node>> ELSE <<q.fmt, node>>
             u == Answer(q, 200, CidEtag(q, node), body, Immutable(q))
  <2>1. gwReq' = [u EXCEPT !.torn = cut, !.failed = u.failed \/ cut]
    BY <1>8 DEF ServeStream
  <2>2. /\ IsRequest(u) /\ u.pc = "done" /\ u.status = 200 /\ u.etag = CidEtag(q, node) /\ u.body = body /\ u.forever = Immutable(q)
        /\ u.q = q /\ u.site = gwReq.site /\ u.path = gwReq.path /\ u.node = node /\ u.failed = gwReq.failed
    <3> HIDE DEF body
    <3> QED BY <1>1, AnswerIs
  <2> HIDE DEF u, body
  <2>3. /\ IsRequest(gwReq') /\ gwReq'.pc = "done" /\ gwReq'.status = 200 /\ gwReq'.etag = u.etag /\ gwReq'.forever = u.forever
        /\ gwReq'.body = u.body /\ gwReq'.q = q /\ gwReq'.site = gwReq.site /\ gwReq'.path = gwReq.path /\ gwReq'.node = node
        /\ gwReq'.failed = (u.failed \/ cut) /\ gwReq'.torn = cut
    BY <2>1, <2>2 DEF IsRequest
  <2>4. ~cut => body = Due(q, node)
    BY <1>2, <1>8, DueIs DEF body
  <2>5. gwReq'.etag \in Tags(gwReq') /\ (gwReq'.forever => q.ns = "ipfs")
    BY <2>2, <2>3 DEF Tags, Immutable
  <2>6. FromRoot(gwReq') => ~cut
    BY <2>3 DEF FromRoot
  <2>7. gwReq'.body = body /\ (~gwReq'.failed => ~gwReq.failed)
    BY <2>2, <2>3
  <2> QED BY <1>1, <2>2, <2>3, <2>4, <2>5, <2>6, <2>7, ResponseIs, ZenonT(60)
<1>9. CASE q.fmt = "dag-json" \/ (AsUnixFS(q) /\ IsCodec(node))
  <2>1. gwReq' = ServeCodec(q, node, outcome)
    BY <1>9 DEF GwServe
  <2>2. CASE outcome = "early" \/ outcome = "fails"
    <3>1. \/ gwReq' = GwError(q, 500) \/ gwReq' = Broken(q, DagEtag(node), FALSE)
          \/ gwReq' = Broken(q, CidEtag(q, node), Immutable(q))
      BY <2>1, <2>2, Zenon DEF ServeCodec
    <3> QED BY <1>5, <1>6, <3>1
  <2>3. CASE outcome # "early" /\ outcome # "fails" /\ q.fmt = "html"
    <3>1. Due(q, node) = <<"html", node>>
      BY <1>2, <1>9, <2>3, DueIs
    <3>2. gwReq' = Answer(q, 200, DagEtag(node), <<"html", node>>, FALSE)
      BY <2>1, <2>3, Zenon DEF ServeCodec
    <3> QED BY <1>4, <3>1, <3>2, Zenon
  <2>4. CASE outcome # "early" /\ outcome # "fails" /\ q.fmt # "html"
    <3>1. Due(q, node) = <<IF AsUnixFS(q) THEN "block" ELSE "converted", node>>
      BY <1>2, <1>9, <2>4, DueIs DEF AsUnixFS, Default
    <3>2. gwReq' = Answer(q, 200, CidEtag(q, node), <<IF AsUnixFS(q) THEN "block" ELSE "converted", node>>, Immutable(q))
      BY <2>1, <2>4, Zenon DEF ServeCodec
    <3> QED BY <1>4, <3>1, <3>2, Zenon
  <2> QED BY <2>2, <2>3, <2>4
<1>10. CASE ~(q.fmt = "dag-json" \/ (AsUnixFS(q) /\ IsCodec(node))) /\ AsUnixFS(q)
  <2>1. gwReq' = ServeUnixFS(q, node, outcome)
    BY <1>10 DEF GwServe
  <2>2. node[1] \in {"file", "dir"}
    BY <1>2, <1>10 DEF IsCodec
  <2>3. CASE node[1] = "file"
    <3>1. PICK body : body = <<"block", node>>
      OBVIOUS
    <3>2. Due(q, node) = body
      BY <1>2, <1>10, <2>3, <3>1, DueIs
    <3>3. gwReq' = ServeFile(q, node, node, outcome)
      BY <2>1, <2>3, Zenon DEF ServeUnixFS
    <3>4. \/ gwReq' = Broken(q, CidEtag(q, node), Immutable(q))
          \/ gwReq' = Answer(q, 301, CidEtag(q, node), body, Immutable(q))
          \/ gwReq' = Answer(q, 200, CidEtag(q, node), body, Immutable(q))
      BY <3>1, <3>3, Zenon DEF ServeFile
    <3>5. CASE gwReq' = Broken(q, CidEtag(q, node), Immutable(q))
      BY <1>6, <3>5
    <3>6. CASE gwReq' = Answer(q, 301, CidEtag(q, node), body, Immutable(q))
      BY <1>4, <3>2, <3>6, Zenon
    <3>7. CASE gwReq' = Answer(q, 200, CidEtag(q, node), body, Immutable(q))
      BY <1>4, <3>2, <3>7, Zenon
    <3> QED BY ONLY <3>4, <3>5, <3>6, <3>7, Zenon
  <2>4. CASE node[1] = "dir"
    <3>1. gwReq' = ServeDirectory(q, node, outcome)
      BY <2>1, <2>4 DEF ServeUnixFS
    <3> QED BY <1>7, <1>10, <2>4, <3>1
  <2> QED BY <2>2, <2>3, <2>4
<1>11. CASE ~AsUnixFS(q) /\ q.fmt # "dag-json"
  <2>1. q.fmt \in {"raw", "car", "tar"}
    BY <1>3, <1>11 DEF AsUnixFS, Default
  <2>2. gwReq' = IF q.fmt = "raw" THEN ServeRawBlock(q, node, outcome)
                 ELSE IF q.fmt = "car" THEN ServeCAR(q, node, outcome) ELSE ServeTAR(q, node, outcome)
    BY <1>11 DEF GwServe
  <2>3. CASE q.fmt = "raw"
    <3>1. Due(q, node) = <<"raw", node>>
      BY <1>2, <2>3, DueIs
    <3>2. gwReq' = ServeRawBlock(q, node, outcome)
      BY <2>2, <2>3, Zenon
    <3>3. gwReq' = GwError(q, 500) \/ gwReq' = Answer(q, 200, CidEtag(q, node), <<"raw", node>>, Immutable(q))
      BY <3>2, Zenon DEF ServeRawBlock
    <3> QED BY <1>4, <1>5, <3>1, <3>3
  <2>4. CASE q.fmt \in {"car", "tar"}
    <3>1. gwReq' = ServeCAR(q, node, outcome) \/ gwReq' = ServeTAR(q, node, outcome)
      BY <2>2, <2>4
    <3>2. \/ gwReq' = Broken(q, CidEtag(q, node), Immutable(q)) \/ gwReq' = ServeStream(q, node, "early")
          \/ gwReq' = ServeStream(q, node, outcome)
      BY <3>1, Zenon DEF ServeCAR, ServeTAR
    <3>3. ServeStream(q, node, "early") = GwError(q, 400)
      BY Zenon DEF ServeStream
    <3>4. outcome = "early" => ServeStream(q, node, outcome) = GwError(q, 400)
      BY <3>3, Zenon
    <3>5. CASE gwReq' = Broken(q, CidEtag(q, node), Immutable(q)) \/ gwReq' = GwError(q, 400)
      BY <1>5, <1>6, <3>5
    <3>6. CASE gwReq' = ServeStream(q, node, outcome) /\ outcome # "early"
      BY <1>8, <2>4, <3>6
    <3> QED BY <3>2, <3>3, <3>4, <3>5, <3>6, Zenon
  <2> QED BY <2>1, <2>3, <2>4
<1> QED BY <1>9, <1>10, <1>11

LEMMA GatewayStep == GwInv /\ [GwNext]_gwVars => GwInv'
<1> SUFFICES ASSUME GwInv, [GwNext]_gwVars PROVE GwInv'
  OBVIOUS
<1>1. CASE UNCHANGED gwVars
  BY <1>1 DEF gwVars, GwInv
<1>2. CASE GwReceive
  BY <1>2, ReqIs DEF GwReceive, GwInv
<1>3. ASSUME NEW s \in Sites, GwPublish(s) PROVE GwInv'
  BY <1>3, GatewayAssumption DEF GwPublish, GwInv
<1>4. ASSUME NEW path, NEW c, GwPut(path, c) PROVE GwInv'
  BY <1>4, GatewayAssumption DEF GwPut, GwInv
<1> QED BY <1>1, <1>2, <1>3, <1>4, GetStep, EarlyStep, ResolveStep, RedirectsStep, RedirectTargetStep, NotModifiedStep, BlockStep, ServeStep DEF GwNext

\* What a 304 lets a client keep is what it would be sent, and what is marked
\* immutable is what the path gives, however the name is published and
\* resolutions fail meanwhile, with the exceptions the properties name
\* (etagMatch, serveDirectory, addCacheControlHeaders).
THEOREM GatewaySound == GwInit /\ [][GwNext]_gwVars => []GwSound
<1>1. GwInit => GwInv
  BY GatewayInit
<1>2. GwInv /\ [GwNext]_gwVars => GwInv'
  BY GatewayStep
<1>3. GwInv => GwSound
  <2> SUFFICES ASSUME GwInv PROVE GwSound
    OBVIOUS
  <2>1. GwTypeOK
    BY NodesAre DEF GwInv, GwTypeOK, RequestOK, NodeIs, ResponseOK, NoReq
  <2>2. GwNotModified
    BY ReqIs DEF GwNotModified, RequestOK, ResponseOK
  <2>3. GwImmutable
    BY DEF GwInv, GwImmutable, RequestOK, ResponseOK, FromRoot, Site
  <2> QED BY <2>1, <2>2, <2>3 DEF GwSound
<1> QED BY <1>1, <1>2, <1>3, PTL
-----------------------------------------------------------------------------
(* Routers: what a set of routers depends on is the least set with it that *)
(* is closed under kids.                                                   *)
LEMMA ReachHas ==
    ASSUME NEW conf, NEW S \in SUBSET RtNames
    PROVE  S \subseteq RtReach(conf, S) /\ RtReach(conf, S) \subseteq RtNames
BY DEF RtReach

LEMMA ReachKids ==
    ASSUME NEW conf, NEW S, NEW x \in RtReach(conf, S), RtKids(conf, x) \subseteq RtNames
    PROVE  RtKids(conf, x) \subseteq RtReach(conf, S)
BY DEF RtReach

LEMMA ReachLeast ==
    ASSUME NEW conf, NEW S, NEW X \in SUBSET RtNames, S \subseteq X, \A x \in X : RtKids(conf, x) \subseteq X
    PROVE  RtReach(conf, S) \subseteq X
BY DEF RtReach

RtWraps(conf, n) == conf[n].type = "parallel"
ConfOK(conf) ==
    \A n \in RtNames : conf[n].kids \in Seq(RtNames) /\ (~RtWraps(conf, n) => conf[n].kids = <<>>)

LEMMA KidsAre ==
    ASSUME NEW conf, ConfOK(conf), NEW n \in RtNames
    PROVE  /\ RtKids(conf, n) \subseteq RtNames
           /\ ~RtWraps(conf, n) => RtKids(conf, n) = {}
           /\ Len(conf[n].kids) \in Nat
           /\ \A k \in 1..Len(conf[n].kids) : conf[n].kids[k] \in RtKids(conf, n)
BY DEF ConfOK, RtKids

(* The routers made so far can be built, with all they depend on.          *)
CreatedOK(conf, cre) == \A n \in cre : RtBuilds(conf, n) /\ RtKids(conf, n) \subseteq cre

LEMMA CreateOne ==
    ASSUME NEW conf, ConfOK(conf), NEW cre \in SUBSET RtNames, CreatedOK(conf, cre), NEW n \in RtNames, n \notin cre,
           conf[n].type \in {"dht", "parallel"}, RtKids(conf, n) \subseteq cre
    PROVE  CreatedOK(conf, cre \cup {n})
<1>1. RtReach(conf, RtKids(conf, n)) \subseteq cre
  BY ReachLeast DEF CreatedOK
<1> QED BY <1>1 DEF CreatedOK, RtBuilds

LEMMA CreatedBuilds ==
    ASSUME NEW conf, NEW cre \in SUBSET RtNames, CreatedOK(conf, cre), NEW S, S \subseteq cre
    PROVE  \A n \in RtReach(conf, S) : RtBuilds(conf, n)
<1>1. RtReach(conf, S) \subseteq cre
  BY ReachLeast DEF CreatedOK
<1> QED BY <1>1 DEF CreatedOK

(* The calls of parse on the stack: one that looks at its kids is visited  *)
(* and not made, has made the kids before the present one, which is what   *)
(* the next call is for, and no two of them are for the same router.  What *)
(* is visited and not made has such a call.                                *)
FrameOK(conf, roots, vis, cre, st, i) ==
    /\ st[i][1] \in RtReach(conf, roots)
    /\ st[i][2] > 0 => /\ st[i][1] \in vis /\ st[i][1] \notin cre /\ RtWraps(conf, st[i][1])
                       /\ st[i][2] <= Len(conf[st[i][1]].kids) + 1
    /\ i < Len(st) => /\ st[i][2] > 1 /\ conf[st[i][1]].kids[st[i][2] - 1] = st[i + 1][1]
                      /\ \A k \in 1..(st[i][2] - 2) : conf[st[i][1]].kids[k] \in cre
    /\ i = Len(st) => \A k \in 1..(st[i][2] - 1) : conf[st[i][1]].kids[k] \in cre
PairOK(conf, st, i, j) ==
    i < j => /\ st[j][1] \in RtReach(conf, RtKids(conf, st[i][1]))
             /\ st[j][2] > 0 => st[i][1] # st[j][1]
Frames(conf, roots, vis, cre, st) ==
    /\ st \in Seq(RtNames \X Nat) /\ Len(st) > 0
    /\ \A i \in 1..Len(st) : FrameOK(conf, roots, vis, cre, st, i)
    /\ \A i, j \in 1..Len(st) : PairOK(conf, st, i, j)
    /\ \A n \in vis \ cre : \E i \in 1..Len(st) : st[i][1] = n /\ st[i][2] > 0

LEMMA FramesBound ==
    ASSUME NEW conf, NEW roots, NEW vis, NEW cre, NEW st, Frames(conf, roots, vis, cre, st)
    PROVE  Len(st) <= Cardinality(RtNames) + 1
<1> DEFINE f == [i \in 1..(Len(st) - 1) |-> st[i][1]]
<1>1. Len(st) \in Nat /\ Len(st) > 0 /\ \A i \in 1..Len(st) : st[i] \in RtNames \X Nat
  BY DEF Frames
<1>2. f \in Injection(1..(Len(st) - 1), RtNames)
  <2>1. f \in [1..(Len(st) - 1) -> RtNames]
    BY <1>1
  <2>2. ASSUME NEW i \in 1..(Len(st) - 1), NEW j \in 1..(Len(st) - 1), i < j PROVE f[i] # f[j]
    <3>1. FrameOK(conf, roots, vis, cre, st, j) /\ PairOK(conf, st, i, j) /\ st[j][2] \in Nat
      <4>1. i \in 1..Len(st) /\ j \in 1..Len(st)
        BY <1>1
      <4>2. st[j] \in RtNames \X Nat
        BY <1>1, <4>1
      <4> QED BY <4>1, <4>2 DEF Frames
    <3>2. st[j][2] > 1
      BY <1>1, <2>2, <3>1 DEF FrameOK
    <3>3. st[i][1] # st[j][1]
      BY <2>2, <3>1, <3>2 DEF PairOK
    <3> QED BY <3>3
  <2>3. \A i, j \in 1..(Len(st) - 1) : f[i] = f[j] => i = j
    <3> SUFFICES ASSUME NEW i \in 1..(Len(st) - 1), NEW j \in 1..(Len(st) - 1), i # j PROVE f[i] # f[j]
      OBVIOUS
    <3> HIDE DEF f
    <3>1. i < j \/ j < i
      BY <1>1
    <3> QED BY <2>2, <3>1
  <2> QED BY <2>1, <2>3 DEF Injection, IsInjective
<1>3. Cardinality(1..(Len(st) - 1)) = Len(st) - 1
  BY <1>1, FS_Interval
<1>4. IsFiniteSet(RtNames) /\ Cardinality(RtNames) \in Nat
  BY RoutingAssumption, FS_CardinalityType
<1>5. Cardinality(1..(Len(st) - 1)) <= Cardinality(RtNames)
  BY <1>2, <1>4, FS_Injection
<1> QED BY <1>1, <1>3, <1>4, <1>5
\* The call of a router's next kid is entered above the router's own.
LEMMA PushKid ==
    ASSUME NEW conf, ConfOK(conf), NEW roots \in SUBSET RtNames, NEW vis, NEW cre, NEW st, Frames(conf, roots, vis, cre, st),
           NEW n, NEW p \in Nat, st[Len(st)] = <<n, p>>, p > 0, p <= Len(conf[n].kids)
    PROVE  LET kid == conf[n].kids[p]
           IN Frames(conf, roots, vis, cre, Append([st EXCEPT ![Len(st)] = <<n, p + 1>>], <<kid, 0>>))
<1> DEFINE kid == conf[n].kids[p]
           last == Len(st)
           u == Append([st EXCEPT ![last] = <<n, p + 1>>], <<kid, 0>>)
<1>1. last \in Nat /\ last > 0 /\ st \in Seq(RtNames \X Nat) /\ \A i \in 1..last : st[i] \in RtNames \X Nat
  BY DEF Frames
<1>2. n \in RtNames /\ FrameOK(conf, roots, vis, cre, st, last)
  BY <1>1 DEF Frames
<1>3. kid \in RtKids(conf, n) /\ RtKids(conf, n) \subseteq RtNames
  BY <1>2, KidsAre
<1>4. /\ u \in Seq(RtNames \X Nat) /\ Len(u) = last + 1 /\ u[last + 1] = <<kid, 0>> /\ u[last] = <<n, p + 1>>
      /\ \A i \in 1..(last - 1) : u[i] = st[i]
  <2> DEFINE x == <<n, p + 1>>
             y == <<kid, 0>>
             moved == [st EXCEPT ![last] = x]
  <2>1. x \in RtNames \X Nat /\ y \in RtNames \X Nat
    BY <1>2, <1>3
  <2> HIDE DEF x, y, kid
  <2>2. /\ moved \in Seq(RtNames \X Nat) /\ Len(moved) = last /\ moved[last] = x
        /\ \A i \in 1..(last - 1) : moved[i] = st[i]
    BY <1>1, <2>1
  <2> HIDE DEF moved
  <2>3. /\ Append(moved, y) \in Seq(RtNames \X Nat) /\ Len(Append(moved, y)) = last + 1
        /\ Append(moved, y)[last + 1] = y /\ \A i \in 1..last : Append(moved, y)[i] = moved[i]
    BY <2>1, <2>2
  <2>4. u = Append(moved, y)
    BY DEF moved, x, y
  <2>5. last \in 1..last /\ \A i \in 1..(last - 1) : i \in 1..last
    BY <1>1
  <2> QED BY <2>2, <2>3, <2>4, <2>5 DEF x, y
<1> HIDE DEF u
<1>5. \A i \in 1..last : FrameOK(conf, roots, vis, cre, st, i) /\ st[i][1] = u[i][1] /\ st[i][1] \in RtNames
  <2> SUFFICES ASSUME NEW i \in 1..last PROVE FrameOK(conf, roots, vis, cre, st, i) /\ st[i][1] = u[i][1] /\ st[i][1] \in RtNames
    OBVIOUS
  <2>1. i = last \/ i \in 1..(last - 1)
    BY <1>1
  <2>2. st[i] \in RtNames \X Nat /\ FrameOK(conf, roots, vis, cre, st, i)
    BY <1>1 DEF Frames
  <2>3. i \in 1..(last - 1) => u[i] = st[i]
    BY <1>4
  <2>4. u[last][1] = n /\ st[last][1] = n
    BY <1>4
  <2> QED BY <2>1, <2>2, <2>3, <2>4
<1>6. kid \in RtReach(conf, roots)
  BY <1>1, <1>2, <1>3, ReachKids DEF FrameOK
<1>7. ASSUME NEW i \in 1..(last + 1) PROVE FrameOK(conf, roots, vis, cre, u, i)
  <2>1. CASE i = last + 1
    <3>1. u[i][1] = kid /\ u[i][2] = 0 /\ Len(u) = i
      BY <1>4, <2>1
    <3> HIDE DEF kid, last
    <3> QED BY <1>6, <3>1 DEF FrameOK
  <2>2. CASE i = last
    <3>1. n \in RtReach(conf, roots) /\ n \in vis /\ n \notin cre /\ RtWraps(conf, n) /\ \A k \in 1..(p - 1) : conf[n].kids[k] \in cre
      BY <1>1, <1>2 DEF FrameOK
    <3>2. u[i][1] = n /\ u[i][2] = p + 1 /\ u[i + 1][1] = kid /\ Len(u) = i + 1 /\ Len(conf[n].kids) \in Nat
      <4>1. Len(conf[n].kids) \in Nat
        BY <1>2, KidsAre
      <4>2. u[last] = <<n, p + 1>> /\ u[last + 1] = <<kid, 0>> /\ Len(u) = last + 1
        BY <1>4
      <4> HIDE DEF kid, last
      <4> QED BY <2>2, <4>1, <4>2
    <3>3. (p + 1) - 1 = p /\ (p + 1) - 2 = p - 1 /\ p + 1 > 1 /\ p + 1 > 0 /\ p + 1 <= Len(conf[n].kids) + 1 /\ i # i + 1
      <4> DEFINE all == Len(conf[n].kids)
      <4>1. all \in Nat /\ p <= all /\ i \in Nat
        BY <1>1, <2>2, <3>2
      <4> HIDE DEF all
      <4>2. (p + 1) - 1 = p /\ (p + 1) - 2 = p - 1 /\ p + 1 > 1 /\ p + 1 > 0 /\ p + 1 <= all + 1 /\ i # i + 1
        BY <4>1
      <4> QED BY <4>2 DEF all
    <3> QED BY <3>1, <3>2, <3>3 DEF FrameOK
  <2>3. CASE i \in 1..(last - 1)
    <3>1. u[i] = st[i] /\ u[i + 1][1] = st[i + 1][1] /\ FrameOK(conf, roots, vis, cre, st, i)
      <4>1. i + 1 \in 1..last /\ i \in 1..last
        BY <1>1, <2>3
      <4> QED BY <1>4, <1>5, <2>3, <4>1
    <3>2. i < last /\ i < Len(u) /\ i # Len(u)
      <4>1. i \in Int /\ i < last /\ i < last + 1 /\ i # last + 1
        BY <1>1, <2>3
      <4> QED BY <1>4, <4>1
    <3> QED BY <3>1, <3>2 DEF FrameOK
  <2> QED BY <1>1, <2>1, <2>2, <2>3
<1>8. ASSUME NEW i \in 1..(last + 1), NEW j \in 1..(last + 1), i < j PROVE PairOK(conf, u, i, j)
  <2>1. i \in 1..last
    BY <1>1, <1>8
  <2>2. CASE j = last + 1
    <3>1. kid \in RtReach(conf, RtKids(conf, st[i][1]))
      <4>1. CASE i = last
        BY <1>2, <1>3, <4>1, ReachHas
      <4>2. CASE i # last
        <5>1. PairOK(conf, st, i, last) /\ i < last
          BY <1>1, <2>1, <4>2 DEF Frames
        <5>2. n \in RtReach(conf, RtKids(conf, st[i][1]))
          BY <5>1 DEF PairOK
        <5> QED BY <1>3, <5>2, ReachKids
      <4> QED BY <4>1, <4>2
    <3>2. u[j][1] = kid /\ ~(u[j][2] > 0) /\ u[i][1] = st[i][1]
      BY <1>4, <1>5, <2>1, <2>2
    <3> QED BY <3>1, <3>2 DEF PairOK
  <2>3. CASE j # last + 1
    <3>1. j \in 1..last
      BY <1>1, <2>3
    <3>2. PairOK(conf, st, i, j) /\ u[i][1] = st[i][1] /\ u[j][1] = st[j][1]
      BY <1>5, <2>1, <3>1 DEF Frames
    <3>3. u[j][2] > 0 => st[j][2] > 0
      <4>1. CASE j = last
        BY <1>1, <4>1
      <4>2. CASE j # last
        <5>1. j \in 1..(last - 1)
          BY <1>1, <3>1, <4>2
        <5> QED BY <1>4, <5>1
      <4> QED BY <4>1, <4>2
    <3> QED BY <1>8, <3>2, <3>3 DEF PairOK
  <2> QED BY <2>2, <2>3
<1>9. \A m \in vis \ cre : \E i \in 1..(last + 1) : u[i][1] = m /\ u[i][2] > 0
  <2> SUFFICES ASSUME NEW m \in vis \ cre PROVE \E i \in 1..(last + 1) : u[i][1] = m /\ u[i][2] > 0
    OBVIOUS
  <2>1. PICK i \in 1..last : st[i][1] = m /\ st[i][2] > 0
    BY DEF Frames
  <2>2. u[i][1] = m /\ u[i][2] > 0
    <3>1. CASE i = last
      BY <1>1, <1>4, <2>1, <3>1
    <3>2. CASE i # last
      <4>1. i \in 1..(last - 1)
        BY <1>1, <2>1, <3>2
      <4> QED BY <1>4, <2>1, <4>1
    <3> QED BY <3>1, <3>2
  <2>3. i \in 1..(last + 1)
    BY <1>1
  <2> QED BY <2>2, <2>3
<1>10. \A i, j \in 1..(last + 1) : PairOK(conf, u, i, j)
  <2> SUFFICES ASSUME NEW i \in 1..(last + 1), NEW j \in 1..(last + 1) PROVE PairOK(conf, u, i, j)
    OBVIOUS
  <2> QED BY <1>8 DEF PairOK
<1>11. Len(u) > 0
  BY <1>1, <1>4
<1>12. Frames(conf, roots, vis, cre, u)
  BY <1>4, <1>7, <1>9, <1>10, <1>11 DEF Frames
<1> QED BY <1>12 DEF u
\* ... a router with kids that was not visited is entered, ...
LEMMA EnterFrame ==
    ASSUME NEW conf, ConfOK(conf), NEW roots, NEW vis, NEW cre, NEW st, Frames(conf, roots, vis, cre, st),
           NEW n, st[Len(st)] = <<n, 0>>, n \notin vis, n \notin cre, RtWraps(conf, n)
    PROVE  Frames(conf, roots, vis \cup {n}, cre, [st EXCEPT ![Len(st)] = <<n, 1>>])
<1> DEFINE last == Len(st)
           u == [st EXCEPT ![last] = <<n, 1>>]
           vis2 == vis \cup {n}
<1>1. last \in Nat /\ last > 0 /\ st \in Seq(RtNames \X Nat) /\ \A i \in 1..last : st[i] \in RtNames \X Nat
  BY DEF Frames
<1>2. n \in RtNames /\ FrameOK(conf, roots, vis, cre, st, last)
  BY <1>1 DEF Frames
<1>3. /\ u \in Seq(RtNames \X Nat) /\ Len(u) = last /\ u[last] = <<n, 1>>
      /\ \A i \in 1..(last - 1) : u[i] = st[i]
  BY <1>1, <1>2
<1> HIDE DEF u
<1>4. \A i \in 1..last : u[i][1] = st[i][1] /\ (i # last => u[i] = st[i] /\ i \in 1..(last - 1))
  <2> SUFFICES ASSUME NEW i \in 1..last PROVE u[i][1] = st[i][1] /\ (i # last => u[i] = st[i] /\ i \in 1..(last - 1))
    OBVIOUS
  <2>1. i = last \/ i \in 1..(last - 1)
    BY <1>1
  <2>2. u[last][1] = n /\ st[last][1] = n
    BY <1>3
  <2>3. last \notin 1..(last - 1)
    BY <1>1
  <2> QED BY <1>3, <2>1, <2>2, <2>3
<1>5. ASSUME NEW i \in 1..last PROVE FrameOK(conf, roots, vis2, cre, u, i)
  <2>1. CASE i = last
    <3>1. n \in RtReach(conf, roots)
      BY <1>1, <1>2 DEF FrameOK
    <3>2. Len(conf[n].kids) \in Nat
      BY <1>2, KidsAre
    <3>3. u[i][1] = n /\ u[i][2] = 1 /\ Len(u) = i /\ 1 <= Len(conf[n].kids) + 1 /\ ~(i < i)
      BY <1>1, <1>3, <2>1, <3>2
    <3>4. 1..(1 - 1) = {}
      OBVIOUS
    <3> QED BY <3>1, <3>3, <3>4 DEF FrameOK
  <2>2. CASE i # last
    <3>1. i < last /\ i + 1 \in 1..last
      BY <1>1, <2>2
    <3>2. u[i] = st[i] /\ u[i + 1][1] = st[i + 1][1] /\ FrameOK(conf, roots, vis, cre, st, i)
      BY <1>4, <2>2, <3>1 DEF Frames
    <3> QED BY <1>3, <2>2, <3>1, <3>2 DEF FrameOK
  <2> QED BY <2>1, <2>2
<1>6. ASSUME NEW i \in 1..last, NEW j \in 1..last, i < j PROVE PairOK(conf, u, i, j)
  <2>1. PairOK(conf, st, i, j) /\ FrameOK(conf, roots, vis, cre, st, i) /\ i < last /\ st[i][2] \in Nat
    BY <1>1, <1>6 DEF Frames
  <2>2. st[i][2] > 1
    BY <2>1 DEF FrameOK
  <2>3. st[i][1] \in vis
    BY <2>1, <2>2 DEF FrameOK
  <2>4. j = last => st[i][1] # u[j][1]
    BY <1>3, <2>3
  <2>5. j # last => u[j] = st[j]
    BY <1>4
  <2>6. u[i][1] = st[i][1] /\ u[j][1] = st[j][1]
    BY <1>4
  <2> QED BY <1>6, <2>1, <2>4, <2>5, <2>6 DEF PairOK
<1>7. \A i, j \in 1..last : PairOK(conf, u, i, j)
  <2> SUFFICES ASSUME NEW i \in 1..last, NEW j \in 1..last PROVE PairOK(conf, u, i, j)
    OBVIOUS
  <2> QED BY <1>6 DEF PairOK
<1>8. \A m \in vis2 \ cre : \E i \in 1..last : u[i][1] = m /\ u[i][2] > 0
  <2> SUFFICES ASSUME NEW m \in vis2 \ cre PROVE \E i \in 1..last : u[i][1] = m /\ u[i][2] > 0
    OBVIOUS
  <2>1. CASE m = n
    <3>1. u[last][1] = n /\ u[last][2] > 0 /\ last \in 1..last
      BY <1>1, <1>3
    <3> QED BY <2>1, <3>1
  <2>2. CASE m # n
    <3>1. PICK i \in 1..last : st[i][1] = m /\ st[i][2] > 0
      BY <2>2 DEF Frames
    <3>2. i # last
      BY <2>2, <3>1
    <3> QED BY <1>4, <3>1, <3>2
  <2> QED BY <2>1, <2>2
<1>9. Frames(conf, roots, vis2, cre, u)
  BY <1>1, <1>3, <1>5, <1>7, <1>8 DEF Frames
<1> QED BY <1>9 DEF u

\* ... and a call returns when its router is made.
LEMMA PopFrame ==
    ASSUME NEW conf, ConfOK(conf), NEW roots, NEW vis, NEW cre, NEW st, Frames(conf, roots, vis, cre, st),
           Len(st) > 1, NEW n, n = st[Len(st)][1], st[Len(st)][2] > 0 \/ n \in cre \/ n \notin vis,
           NEW vis2, vis2 = vis \/ vis2 = vis \cup {n}, NEW cre2, cre2 = cre \cup {n}
    PROVE  Frames(conf, roots, vis2, cre2, SubSeq(st, 1, Len(st) - 1))
<1> DEFINE last == Len(st)
           u == SubSeq(st, 1, last - 1)
<1>1. last \in Nat /\ last > 1 /\ st \in Seq(RtNames \X Nat) /\ \A i \in 1..last : st[i] \in RtNames \X Nat
  BY DEF Frames
<1>2. u \in Seq(RtNames \X Nat) /\ Len(u) = last - 1 /\ \A i \in 1..(last - 1) : u[i] = st[i]
  BY <1>1
<1> HIDE DEF u
<1>3. ASSUME NEW i \in 1..(last - 1)
      PROVE  /\ i \in 1..last /\ i < last /\ FrameOK(conf, roots, vis, cre, st, i) /\ st[i][2] \in Nat /\ st[i][2] > 1 /\ st[i][1] # n
             /\ i + 1 \in 1..last
  <2>1. i \in 1..last /\ i < last /\ i + 1 \in 1..last
    BY <1>1
  <2>2. FrameOK(conf, roots, vis, cre, st, i) /\ st[i] \in RtNames \X Nat
    BY <1>1, <2>1 DEF Frames
  <2>3. st[i][2] \in Nat
    BY <2>2
  <2>4. st[i][2] > 1
    BY <2>1, <2>2 DEF FrameOK
  <2>5. st[i][1] \in vis /\ st[i][1] \notin cre
    BY <2>2, <2>3, <2>4 DEF FrameOK
  <2>6. PairOK(conf, st, i, last)
    BY <1>1, <2>1 DEF Frames
  <2>7. st[i][1] # n
    BY <2>1, <2>5, <2>6 DEF PairOK
  <2> QED BY <2>1, <2>2, <2>3, <2>4, <2>7
<1>4. ASSUME NEW i \in 1..(last - 1) PROVE FrameOK(conf, roots, vis2, cre2, u, i)
  <2>1. u[i] = st[i] /\ FrameOK(conf, roots, vis, cre, st, i)
    BY <1>2, <1>3
  <2>2. st[i][1] \in RtReach(conf, roots) /\ st[i][1] \in vis2 /\ st[i][1] \notin cre2 /\ RtWraps(conf, st[i][1])
    <3>1. st[i][2] > 0
      BY <1>3
    <3> QED BY <1>3, <3>1 DEF FrameOK
  <2>3. st[i][2] <= Len(conf[st[i][1]].kids) + 1
    <3>1. st[i][2] > 0
      BY <1>3
    <3> QED BY <1>3, <3>1 DEF FrameOK
  <2>4. conf[st[i][1]].kids[st[i][2] - 1] = st[i + 1][1] /\ \A k \in 1..(st[i][2] - 2) : conf[st[i][1]].kids[k] \in cre
    BY <1>3 DEF FrameOK
  <2>5. CASE i = last - 1
    <3>1. st[i + 1][1] = n
      <4>1. i + 1 = last
        BY <1>1, <2>5
      <4> QED BY <4>1
    <3>2. \A k \in 1..(st[i][2] - 1) : conf[st[i][1]].kids[k] \in cre2
      <4> SUFFICES ASSUME NEW k \in 1..(st[i][2] - 1) PROVE conf[st[i][1]].kids[k] \in cre2
        OBVIOUS
      <4>1. \A p \in Nat : \A q \in 1..(p - 1) : q = p - 1 \/ q \in 1..(p - 2)
        OBVIOUS
      <4>2. k = st[i][2] - 1 \/ k \in 1..(st[i][2] - 2)
        BY <1>3, <4>1
      <4> QED BY <2>4, <3>1, <4>2
    <3>3. i = Len(u) /\ ~(i < i)
      BY <1>1, <1>2, <2>5
    <3> QED BY <2>1, <2>2, <2>3, <3>2, <3>3 DEF FrameOK
  <2>6. CASE i # last - 1
    <3>1. i + 1 \in 1..(last - 1) /\ i # Len(u)
      BY <1>1, <1>2, <2>6, SMTT(60)
    <3>2. u[i + 1] = st[i + 1]
      BY <1>2, <3>1
    <3>3. st[i][2] > 1
      BY <1>3
    <3>4. \A k \in 1..(st[i][2] - 2) : conf[st[i][1]].kids[k] \in cre2
      BY <2>4
    <3> QED BY <2>1, <2>2, <2>3, <2>4, <3>1, <3>2, <3>3, <3>4 DEF FrameOK
  <2> QED BY <2>5, <2>6
<1>5. \A i, j \in 1..(last - 1) : PairOK(conf, u, i, j)
  <2> SUFFICES ASSUME NEW i \in 1..(last - 1), NEW j \in 1..(last - 1) PROVE PairOK(conf, u, i, j)
    OBVIOUS
  <2>1. u[i] = st[i] /\ u[j] = st[j]
    BY <1>2
  <2>2. i \in 1..last /\ j \in 1..last
    BY <1>3
  <2>3. PairOK(conf, st, i, j)
    BY <2>2 DEF Frames
  <2> QED BY <2>1, <2>3 DEF PairOK
<1>6. \A m \in vis2 \ cre2 : \E i \in 1..(last - 1) : u[i][1] = m /\ u[i][2] > 0
  <2> SUFFICES ASSUME NEW m \in vis2 \ cre2 PROVE \E i \in 1..(last - 1) : u[i][1] = m /\ u[i][2] > 0
    OBVIOUS
  <2>1. m # n /\ m \in vis \ cre
    OBVIOUS
  <2>2. PICK i \in 1..last : st[i][1] = m /\ st[i][2] > 0
    BY <2>1 DEF Frames
  <2>3. i # last
    BY <2>1, <2>2
  <2>4. i \in 1..(last - 1)
    BY <1>1, <2>3
  <2> QED BY <1>2, <2>2, <2>4
<1>7. Len(u) > 0
  BY <1>1, <1>2
<1>8. Frames(conf, roots, vis2, cre2, u)
  BY <1>2, <1>4, <1>5, <1>6, <1>7 DEF Frames
<1> QED BY <1>8 DEF u
(* A method that was looked at has its router, or the call at the bottom   *)
(* makes it.                                                               *)
RtRoots == {rtMeth[m] : m \in RtMethods}
RtPresent == \A m \in RtMethods : rtMeth[m] \in RtNames /\ rtMeth[m] # "absent"
MethodsDone == \A m \in RtMethods \ rtTodo : rtMeth[m] \in rtCreated \/ (rtStack # <<>> /\ rtMeth[m] = rtStack[1][1])

RtInv ==
    /\ ConfOK(rtConf) /\ CreatedOK(rtConf, rtCreated) /\ \A m \in RtMethods : rtMeth[m] \in RtNames \cup {"absent"}
    /\ rtVisited \subseteq RtNames /\ rtCreated \subseteq RtNames /\ rtTodo \subseteq RtMethods
    /\ rtPc \in {"check", "methods", "parse", "ok", "error"}
    /\ rtKind # "custom" => rtPc \in {"check", "ok"}
    /\ rtPc = "check" => rtTodo = RtMethods
    /\ rtPc \in {"check", "methods", "ok"} => rtStack = <<>>
    /\ rtPc \in {"methods", "parse"} => RtPresent /\ MethodsDone
    /\ rtPc = "parse" => Frames(rtConf, RtRoots, rtVisited, rtCreated, rtStack)
    /\ Len(rtStack) <= Cardinality(RtNames) + 1
    /\ rtPc = "error" => ~RtBuildable
    /\ rtPc = "ok" /\ rtKind = "custom" => RtBuildable

LEMMA RoutersInit == RtInit => RtInv
<1> SUFFICES ASSUME RtInit PROVE RtInv
  OBVIOUS
<1>1. ConfOK(rtConf)
  <2>1. CASE rtKind = "custom"
    <3>1. rtConf \in [RtNames -> RtConfigs]
      BY <2>1 DEF RtInit
    <3>2. \A c \in RtConfigs : c.kids \in Seq(RtNames) /\ (c.type # "parallel" => c.kids = <<>>)
      BY RoutingAssumption
    <3> QED BY <3>1, <3>2 DEF ConfOK, RtWraps
  <2>2. CASE rtKind # "custom"
    <3>1. rtConf = [n \in RtNames |-> [type |-> "dht", kids |-> <<>>]]
      BY <2>2 DEF RtInit
    <3>2. \A n \in RtNames : rtConf[n].kids = <<>>
      BY <3>1
    <3>3. <<>> \in Seq(RtNames)
      OBVIOUS
    <3> QED BY <3>2, <3>3 DEF ConfOK
  <2> QED BY <2>1, <2>2
<1>2. \A m \in RtMethods : rtMeth[m] \in RtNames \cup {"absent"}
  BY DEF RtInit
<1>3. Len(rtStack) <= Cardinality(RtNames) + 1
  <2>1. IsFiniteSet(RtNames)
    BY RoutingAssumption
  <2>2. Cardinality(RtNames) \in Nat
    BY <2>1, FS_CardinalityType
  <2>3. Len(rtStack) = 0
    BY DEF RtInit
  <2> QED BY <2>2, <2>3
<1>4. rtPc = "check" /\ rtTodo = RtMethods /\ rtVisited = {} /\ rtCreated = {} /\ rtStack = <<>>
  BY DEF RtInit
<1> QED BY <1>1, <1>2, <1>3, <1>4 DEF RtInv, CreatedOK

LEMMA RtCheckStep == ASSUME RtInv, RtCheck PROVE RtInv'
<1>1. /\ UNCHANGED <<rtConf, rtMeth, rtTodo, rtVisited, rtCreated, rtStack, rtKind>> /\ rtPc = "check"
      /\ rtPc' = IF rtKind # "custom" THEN "ok" ELSE IF \E m \in RtMethods : rtMeth[m] = "absent" THEN "error" ELSE "methods"
  BY DEF RtCheck, parseVars
<1>2. rtPc' = "error" => ~RtBuildable'
  BY <1>1 DEF RtBuildable
<1>3. rtPc' = "methods" => RtPresent' /\ MethodsDone'
  BY <1>1 DEF RtPresent, MethodsDone, RtInv
<1>4. ConfOK(rtConf)' /\ CreatedOK(rtConf, rtCreated)' /\ (Len(rtStack) <= Cardinality(RtNames) + 1)'
  BY <1>1 DEF RtInv
<1>5. rtPc' \in {"ok", "error", "methods"} /\ (rtKind # "custom" => rtPc' = "ok") /\ ~(rtPc' = "ok" /\ rtKind = "custom")
  BY <1>1
<1> QED BY <1>1, <1>2, <1>3, <1>4, <1>5 DEF RtInv

LEMMA ParseStep == ASSUME RtInv, Parse PROVE RtInv'
<1>1. UNCHANGED <<rtConf, rtMeth, rtCreated, rtKind>> /\ rtPc = "methods" /\ rtStack = <<>> /\ RtPresent /\ MethodsDone /\ rtKind = "custom"
  BY DEF Parse, RtInv
<1>2. CASE rtTodo = {}
  <2>1. rtPc' = "ok" /\ UNCHANGED <<rtTodo, rtVisited, rtStack>>
    BY <1>2 DEF Parse
  <2>2. RtRoots \subseteq rtCreated
    BY <1>1, <1>2 DEF MethodsDone, RtRoots
  <2>3. \A n \in RtReach(rtConf, RtRoots) : RtBuilds(rtConf, n)
    BY <2>2, CreatedBuilds DEF RtInv
  <2>4. RtBuildable
    BY <1>1, <2>3 DEF RtBuildable, RtPresent, RtRoots
  <2>5. RtBuildable'
    BY <1>1, <2>4 DEF RtBuildable
  <2>6. ConfOK(rtConf)' /\ CreatedOK(rtConf, rtCreated)' /\ (Len(rtStack) <= Cardinality(RtNames) + 1)'
    BY <1>1, <2>1 DEF RtInv
  <2> QED BY <1>1, <2>1, <2>5, <2>6 DEF RtInv
<1>3. CASE rtTodo # {}
  <2>1. PICK m \in rtTodo : /\ rtTodo' = rtTodo \ {m} /\ rtVisited' = {}
                            /\ rtStack' = << <<rtMeth[m], 0>> >> /\ rtPc' = "parse"
    BY <1>3 DEF Parse
  <2>2. m \in RtMethods /\ rtMeth[m] \in RtNames /\ rtMeth[m] \in RtRoots /\ RtRoots \subseteq RtNames
    BY <1>1, <2>1 DEF RtInv, RtPresent, RtRoots
  <2>3. /\ rtStack' \in Seq(RtNames \X Nat) /\ Len(rtStack') = 1 /\ rtStack'[1][1] = rtMeth[m] /\ rtStack'[1][2] = 0 /\ rtStack' # <<>>
    BY <2>1, <2>2
  <2>4. rtMeth[m] \in RtReach(rtConf, RtRoots)
    BY <2>2, ReachHas
  <2>5. FrameOK(rtConf, RtRoots, {}, rtCreated, rtStack', 1)
    <3>1. 1..(0 - 1) = {} /\ ~(0 > 0) /\ ~(1 < 1)
      OBVIOUS
    <3> QED BY <2>3, <2>4, <3>1 DEF FrameOK
  <2>6. PairOK(rtConf, rtStack', 1, 1)
    <3>1. ~(1 < 1)
      OBVIOUS
    <3> QED BY <3>1 DEF PairOK
  <2>7. Frames(rtConf, RtRoots, {}, rtCreated, rtStack')
    <3>1. 1..Len(rtStack') = {1} /\ Len(rtStack') > 0
      BY <2>3
    <3> QED BY <2>3, <2>5, <2>6, <3>1 DEF Frames
  <2>8. RtRoots' = RtRoots
    BY <1>1 DEF RtRoots
  <2>9. Frames(rtConf, RtRoots, rtVisited, rtCreated, rtStack)'
    BY <1>1, <2>1, <2>7, <2>8
  <2>10. RtPresent' /\ MethodsDone'
    BY <1>1, <2>1, <2>2, <2>3 DEF RtPresent, MethodsDone
  <2>11. ConfOK(rtConf)' /\ CreatedOK(rtConf, rtCreated)'
    BY <1>1 DEF RtInv
  <2>12. (Len(rtStack) <= Cardinality(RtNames) + 1)'
    BY <2>7, FramesBound
  <2> QED BY <1>1, <2>1, <2>9, <2>10, <2>11, <2>12 DEF RtInv
<1> QED BY <1>2, <1>3

LEMMA PopFirst ==
    ASSUME NEW S, NEW st \in Seq(S), Len(st) > 1
    PROVE  SubSeq(st, 1, Len(st) - 1)[1] = st[1] /\ SubSeq(st, 1, Len(st) - 1) # <<>>
<1> DEFINE u == SubSeq(st, 1, Len(st) - 1)
<1>1. Len(st) \in Nat /\ Len(st) - 1 > 0
  OBVIOUS
<1>2. u \in Seq(S) /\ Len(u) = Len(st) - 1 /\ \A i \in 1..(Len(st) - 1) : u[i] = st[i]
  OBVIOUS
<1> HIDE DEF u
<1>3. 1 \in 1..(Len(st) - 1)
  BY <1>1
<1>4. u # <<>>
  BY <1>1, <1>2
<1>5. u[1] = st[1]
  BY <1>2, <1>3
<1> QED BY <1>4, <1>5 DEF u

\* The call on top returns, its router made.
LEMMA ReturnStep ==
    ASSUME RtInv, rtPc = "parse", NEW n, n = Top[1], Top[2] > 0 \/ n \in rtCreated \/ n \notin rtVisited,
           rtVisited' = rtVisited \/ rtVisited' = rtVisited \cup {n}, rtCreated' = rtCreated \cup {n},
           CreatedOK(rtConf, rtCreated \cup {n}), rtPc' = Return, rtStack' = Pop, UNCHANGED <<rtConf, rtMeth, rtTodo, rtKind>>
    PROVE  RtInv'
<1>1. Frames(rtConf, RtRoots, rtVisited, rtCreated, rtStack) /\ RtPresent /\ MethodsDone /\ rtKind = "custom"
  BY DEF RtInv
<1>2. rtStack \in Seq(RtNames \X Nat) /\ Len(rtStack) \in Nat /\ Len(rtStack) > 0
  BY <1>1 DEF Frames
<1>3. n \in RtNames
  BY <1>2 DEF Top
<1>4. RtPresent' /\ RtRoots' = RtRoots
  BY <1>1 DEF RtPresent, RtRoots
<1>5. ConfOK(rtConf)' /\ CreatedOK(rtConf, rtCreated)' /\ rtVisited' \subseteq RtNames /\ rtCreated' \subseteq RtNames
  BY <1>3 DEF RtInv
<1>6. CASE Len(rtStack) = 1
  <2>1. rtStack' = <<>> /\ rtPc' = "methods"
    BY <1>2, <1>6 DEF Pop, Return
  <2>2. n = rtStack[1][1]
    BY <1>6 DEF Top
  <2>3. MethodsDone'
    BY <1>1, <2>1, <2>2 DEF MethodsDone
  <2>4. (Len(rtStack) <= Cardinality(RtNames) + 1)'
    <3>1. IsFiniteSet(RtNames)
      BY RoutingAssumption
    <3>2. Cardinality(RtNames) \in Nat
      BY <3>1, FS_CardinalityType
    <3>3. Len(rtStack') = 0
      BY <2>1
    <3> QED BY <3>2, <3>3
  <2> QED BY <1>1, <1>4, <1>5, <2>1, <2>3, <2>4 DEF RtInv
<1>7. CASE Len(rtStack) # 1
  <2>1. Len(rtStack) > 1
    <3>1. \A k \in Nat : k > 0 /\ k # 1 => k > 1
      OBVIOUS
    <3> QED BY <1>2, <1>7, <3>1
  <2>2. rtPc' = "parse"
    BY <1>7 DEF Return
  <2>3. Frames(rtConf, RtRoots, rtVisited', rtCreated', rtStack')
    <3>1. ConfOK(rtConf)
      BY DEF RtInv
    <3> QED BY <1>1, <2>1, <3>1, PopFrame DEF Pop, Top
  <2>4. Frames(rtConf, RtRoots, rtVisited, rtCreated, rtStack)'
    BY <1>4, <2>3
  <2>5. MethodsDone'
    <3>1. rtStack'[1] = rtStack[1] /\ rtStack' # <<>>
      BY <1>2, <2>1, PopFirst DEF Pop
    <3> QED BY <1>1, <3>1 DEF MethodsDone
  <2>6. (Len(rtStack) <= Cardinality(RtNames) + 1)'
    BY <2>3, FramesBound
  <2> QED BY <1>1, <1>4, <1>5, <2>2, <2>4, <2>5, <2>6 DEF RtInv
<1> QED BY <1>6, <1>7

\* The configuration is refused, and rightly.
LEMMA RefuseStep ==
    ASSUME RtInv, rtPc = "parse", ~RtBuildable, rtPc' = "error", rtVisited' \subseteq RtNames,
           UNCHANGED <<rtConf, rtMeth, rtTodo, rtKind, rtCreated, rtStack>>
    PROVE  RtInv'
<1>1. ~RtBuildable'
  BY DEF RtBuildable
<1>2. ConfOK(rtConf)' /\ CreatedOK(rtConf, rtCreated)' /\ (Len(rtStack) <= Cardinality(RtNames) + 1)' /\ rtKind = "custom"
  BY DEF RtInv
<1> QED BY <1>1, <1>2 DEF RtInv

\* The stack changes above or in the call on top.
LEMMA FramesStep ==
    ASSUME RtInv, rtPc = "parse", rtPc' = "parse", rtVisited' \subseteq RtNames,
           Frames(rtConf, RtRoots, rtVisited', rtCreated, rtStack'), rtStack'[1][1] = rtStack[1][1],
           UNCHANGED <<rtConf, rtMeth, rtTodo, rtKind, rtCreated>>
    PROVE  RtInv'
<1>1. RtRoots' = RtRoots /\ RtPresent' /\ rtKind = "custom"
  BY DEF RtRoots, RtPresent, RtInv
<1>2. rtStack' # <<>>
  BY DEF Frames
<1>3. MethodsDone'
  BY <1>2 DEF MethodsDone, RtInv
<1>4. Frames(rtConf, RtRoots, rtVisited, rtCreated, rtStack)'
  BY <1>1
<1>5. (Len(rtStack) <= Cardinality(RtNames) + 1)'
  BY FramesBound
<1>6. ConfOK(rtConf)' /\ CreatedOK(rtConf, rtCreated)'
  BY DEF RtInv
<1> QED BY <1>1, <1>3, <1>4, <1>5, <1>6 DEF RtInv
LEMMA ParseRouterStep == ASSUME RtInv, ParseRouter PROVE RtInv'
<1> DEFINE n == Top[1]
           last == Len(rtStack)
<1>1. /\ rtPc = "parse" /\ Top[2] = 0 /\ UNCHANGED <<rtConf, rtMeth, rtTodo, rtKind>>
      /\ Frames(rtConf, RtRoots, rtVisited, rtCreated, rtStack) /\ ConfOK(rtConf) /\ RtPresent
      /\ rtVisited \subseteq RtNames /\ rtCreated \subseteq RtNames /\ CreatedOK(rtConf, rtCreated)
  BY DEF ParseRouter, RtInv
<1>2. last \in 1..last /\ rtStack[last] = <<n, 0>> /\ n \in RtNames /\ last \in Nat /\ last > 0
  <2>1. rtStack \in Seq(RtNames \X Nat) /\ last > 0
    BY <1>1 DEF Frames
  <2>2. last \in Nat /\ last \in 1..last
    BY <2>1
  <2>3. rtStack[last] \in RtNames \X Nat
    BY <2>1, <2>2
  <2> QED BY <1>1, <2>1, <2>2, <2>3 DEF Top
<1>3. FrameOK(rtConf, RtRoots, rtVisited, rtCreated, rtStack, last)
  BY <1>1, <1>2 DEF Frames
<1>4. n \in RtReach(rtConf, RtRoots)
  BY <1>2, <1>3 DEF FrameOK
<1> HIDE DEF n
<1>5. CASE n \in rtCreated
  <2>1. rtPc' = Return /\ rtStack' = Pop /\ UNCHANGED <<rtVisited, rtCreated>>
    BY <1>5 DEF ParseRouter, n
  <2>2. rtCreated \cup {n} = rtCreated
    BY <1>5
  <2> QED BY <1>1, <1>5, <2>1, <2>2, ReturnStep DEF n
<1>6. CASE n \notin rtCreated /\ n \in rtVisited
  <2>1. rtPc' = "error" /\ UNCHANGED <<rtVisited, rtCreated, rtStack>>
    BY <1>6 DEF ParseRouter, n, parseVars
  <2>2. PICK i \in 1..last : rtStack[i][1] = n /\ rtStack[i][2] > 0
    BY <1>1, <1>6 DEF Frames
  <2>3. i # last
    <3>1. ~(0 > 0)
      OBVIOUS
    <3> QED BY <1>2, <2>2, <3>1
  <2>4. i < last
    BY <1>2, <2>3
  <2>5. PairOK(rtConf, rtStack, i, last)
    BY <1>1, <1>2 DEF Frames
  <2>6. n \in RtReach(rtConf, RtKids(rtConf, n))
    BY <1>2, <2>2, <2>4, <2>5 DEF PairOK
  <2>7. ~RtBuildable
    BY <1>4, <2>6 DEF RtBuildable, RtBuilds, RtRoots
  <2> QED BY <1>1, <2>1, <2>7, RefuseStep
<1>7. CASE n \notin rtCreated /\ n \notin rtVisited
  <2>1. /\ rtVisited' = rtVisited \cup {n}
        /\ IF rtConf[n].type = "dht"
           THEN rtCreated' = rtCreated \cup {n} /\ rtPc' = Return /\ rtStack' = Pop
           ELSE IF rtConf[n].type = "parallel"
           THEN rtStack' = [rtStack EXCEPT ![Len(rtStack)] = <<n, 1>>] /\ UNCHANGED <<rtPc, rtCreated>>
           ELSE rtPc' = "error" /\ UNCHANGED <<rtCreated, rtStack>>
    BY <1>7 DEF ParseRouter, n
  <2>2. rtVisited' \subseteq RtNames
    BY <1>1, <1>2, <2>1
  <2>3. CASE rtConf[n].type = "dht"
    <3>1. RtKids(rtConf, n) \subseteq rtCreated
      BY <1>1, <1>2, <2>3, KidsAre DEF RtWraps
    <3>2. CreatedOK(rtConf, rtCreated \cup {n})
      BY <1>1, <1>2, <1>7, <2>3, <3>1, CreateOne
    <3>3. rtCreated' = rtCreated \cup {n} /\ rtPc' = Return /\ rtStack' = Pop
      BY <2>1, <2>3
    <3> QED BY <1>1, <1>7, <2>1, <3>2, <3>3, ReturnStep DEF n
  <2>4. CASE rtConf[n].type = "parallel"
    <3>1. rtStack' = [rtStack EXCEPT ![last] = <<n, 1>>] /\ UNCHANGED <<rtPc, rtCreated>>
      BY <2>1, <2>4
    <3>2. Frames(rtConf, RtRoots, rtVisited', rtCreated, rtStack')
      BY <1>1, <1>2, <1>7, <2>1, <2>4, <3>1, EnterFrame DEF RtWraps
    <3>3. rtStack'[1][1] = rtStack[1][1]
      <4>1. rtStack \in Seq(RtNames \X Nat)
        BY <1>1 DEF Frames
      <4>2. DOMAIN rtStack = 1..last /\ 1 \in 1..last
        BY <1>2, <4>1
      <4>3. CASE last = 1
        BY <1>2, <3>1, <4>2, <4>3
      <4>4. CASE last # 1
        BY <3>1, <4>2, <4>4
      <4> QED BY <4>3, <4>4
    <3> QED BY <1>1, <2>2, <3>1, <3>2, <3>3, FramesStep
  <2>5. CASE rtConf[n].type \notin {"dht", "parallel"}
    <3>1. rtPc' = "error" /\ UNCHANGED <<rtCreated, rtStack>>
      BY <2>1, <2>5
    <3>2. ~RtBuildable
      BY <1>4, <2>5 DEF RtBuildable, RtBuilds, RtRoots
    <3> QED BY <1>1, <2>2, <3>1, <3>2, RefuseStep
  <2> QED BY <2>3, <2>4, <2>5
<1> QED BY <1>5, <1>6, <1>7

LEMMA PushFirst ==
    ASSUME NEW st \in Seq(RtNames \X Nat), NEW n \in RtNames, NEW p \in Nat, st[Len(st)] = <<n, p>>, Len(st) > 0, NEW v,
           NEW q, NEW w, w = Append([st EXCEPT ![Len(st)] = <<n, q>>], v), q \in Nat
    PROVE  w[1][1] = st[1][1]
<1> DEFINE u == [st EXCEPT ![Len(st)] = <<n, q>>]
<1>1. Len(st) \in Nat /\ DOMAIN st = 1..Len(st) /\ 1 \in 1..Len(st)
  OBVIOUS
<1>2. u \in Seq(RtNames \X Nat) /\ Len(u) = Len(st)
  OBVIOUS
<1>3. u[1][1] = st[1][1]
  <2>1. CASE Len(st) = 1
    BY <1>1, <2>1
  <2>2. CASE Len(st) # 1
    BY <1>1, <2>2
  <2> QED BY <2>1, <2>2
<1> HIDE DEF u
<1>4. Append(u, v)[1] = u[1]
  BY <1>1, <1>2
<1> QED BY <1>3, <1>4 DEF u

LEMMA ParseKidsStep == ASSUME RtInv, ParseKids PROVE RtInv'
<1> DEFINE n == Top[1]
           p == Top[2]
           kids == rtConf[n].kids
           last == Len(rtStack)
<1>1. /\ rtPc = "parse" /\ p > 0 /\ UNCHANGED <<rtConf, rtMeth, rtTodo, rtKind>>
      /\ Frames(rtConf, RtRoots, rtVisited, rtCreated, rtStack) /\ ConfOK(rtConf)
      /\ rtVisited \subseteq RtNames /\ rtCreated \subseteq RtNames /\ CreatedOK(rtConf, rtCreated)
  BY DEF ParseKids, RtInv
<1>2. last \in 1..last /\ rtStack[last] = <<n, p>> /\ n \in RtNames /\ p \in Nat /\ last \in Nat /\ last > 0
  <2>1. rtStack \in Seq(RtNames \X Nat) /\ last > 0
    BY <1>1 DEF Frames
  <2>2. last \in Nat /\ last \in 1..last
    BY <2>1
  <2>3. rtStack[last] \in RtNames \X Nat
    BY <2>1, <2>2
  <2> QED BY <2>1, <2>2, <2>3 DEF Top
<1>3. FrameOK(rtConf, RtRoots, rtVisited, rtCreated, rtStack, last)
  BY <1>1, <1>2 DEF Frames
<1>4. Len(kids) \in Nat
  BY <1>1, <1>2, KidsAre
<1>5. CASE p <= Len(kids)
  <2>1. /\ rtStack' = Append([rtStack EXCEPT ![last] = <<n, p + 1>>], <<kids[p], 0>>)
        /\ UNCHANGED <<rtPc, rtVisited, rtCreated>>
    BY <1>5 DEF ParseKids, Call
  <2> HIDE DEF n, p
  <2>2. Frames(rtConf, RtRoots, rtVisited', rtCreated, rtStack')
    <3>1. RtRoots \subseteq RtNames
      BY <1>1 DEF RtInv, RtPresent, RtRoots
    <3> QED BY <1>1, <1>2, <1>5, <2>1, <3>1, PushKid
  <2>3. rtStack'[1][1] = rtStack[1][1]
    <3>1. rtStack \in Seq(RtNames \X Nat)
      BY <1>1 DEF Frames
    <3> QED BY <1>2, <2>1, <3>1, PushFirst
  <2> QED BY <1>1, <2>1, <2>2, <2>3, FramesStep
<1>6. CASE ~(p <= Len(kids))
  <2>1. rtCreated' = rtCreated \cup {n} /\ rtPc' = Return /\ rtStack' = Pop /\ UNCHANGED rtVisited
    BY <1>6 DEF ParseKids
  <2> HIDE DEF n, p
  <2>2. n \notin rtCreated /\ RtWraps(rtConf, n) /\ p <= Len(kids) + 1 /\ \A k \in 1..(p - 1) : kids[k] \in rtCreated
    BY <1>1, <1>2, <1>3 DEF FrameOK
  <2>3. p - 1 = Len(kids)
    BY <1>2, <1>4, <1>6, <2>2
  <2>4. RtKids(rtConf, n) \subseteq rtCreated
    BY <2>2, <2>3 DEF RtKids
  <2>5. CreatedOK(rtConf, rtCreated \cup {n})
    BY <1>1, <1>2, <2>2, <2>4, CreateOne DEF RtWraps
  <2>6. n = Top[1] /\ Top[2] > 0
    BY <1>1 DEF n, p
  <2> QED BY <1>1, <2>1, <2>5, <2>6, ReturnStep
<1> QED BY <1>5, <1>6

LEMMA RoutersStep == RtInv /\ [RtNext]_rtVars => RtInv'
<1> SUFFICES ASSUME RtInv, [RtNext]_rtVars PROVE RtInv'
  OBVIOUS
<1>1. CASE UNCHANGED rtVars
  BY <1>1 DEF rtVars, RtInv, RtPresent, MethodsDone, RtRoots, RtBuildable
<1> QED BY <1>1, RtCheckStep, ParseStep, ParseRouterStep, ParseKidsStep DEF RtNext

\* Parse accepts exactly the configurations that can be built, in whatever
\* order the methods come, and never calls itself deeper than once for each
\* router and once more (parse).
THEOREM RoutersSound == RtInit /\ [][RtNext]_rtVars => [](RtTypeOK /\ RtParses)
<1>1. RtInit => RtInv
  BY RoutersInit
<1>2. RtInv /\ [RtNext]_rtVars => RtInv'
  BY RoutersStep
<1>3. RtInv => RtTypeOK /\ RtParses
  <2> SUFFICES ASSUME RtInv PROVE RtTypeOK /\ RtParses
    OBVIOUS
  <2>1. rtPc = "parse" => rtStack # <<>>
    BY DEF RtInv, Frames
  <2>2. RtTypeOK
    BY <2>1 DEF RtInv, RtTypeOK
  <2>3. RtParses
    BY DEF RtInv, RtParses
  <2> QED BY <2>2, <2>3
<1> QED BY <1>1, <1>2, <1>3, PTL
-----------------------------------------------------------------------------
(* Routing commands: the goroutine has its outcome before it publishes and *)
(* has published before it cancels, and the channel is closed after that.  *)
QcIs(r) ==
    r = [kind |-> r.kind, main |-> r.main, worker |-> r.worker, todo |-> r.todo, keys |-> r.keys, rec |-> r.rec,
         provided |-> r.provided, op |-> r.op, err |-> r.err, ctx |-> r.ctx, gone |-> r.gone,
         left |-> r.left, sent |-> r.sent, chan |-> r.chan, closed |-> r.closed, emitted |-> r.emitted]

QcBefore(r) == r.worker \in {"none", "run"}
QcAfter(r) == r.worker \in {"cancel", "done"}

(* Unless the client went away, no event is dropped.                       *)
QcCount(r) ==
    /\ r.chan \in Nat /\ r.emitted \in Nat /\ r.sent \in Nat /\ r.left \in Nat
    /\ r.chan <= QcBuffer /\ r.chan + r.emitted <= r.sent /\ r.sent <= r.left
    /\ ~r.gone => r.chan + r.emitted = r.sent
    /\ QcBefore(r) => r.left = 0
    /\ QcAfter(r) => r.sent = r.left

QcFlow(r) ==
    /\ r.worker \in {"none", "run", "publish", "cancel", "done"}
    /\ r.main \in {"start", "refused", "drain", "wait", "nil", "error"}
    /\ r.main \in {"start", "refused"} <=> r.worker = "none"
    /\ r.ctx \in {"live", "done"} /\ (r.closed => r.ctx = "done")
    /\ r.worker = "none" => ~r.gone
    /\ ~r.gone => (r.ctx = "done" <=> QcAfter(r))
    /\ r.main \in {"wait", "nil", "error"} /\ ~r.gone => r.closed /\ r.chan = 0
    /\ r.main = "wait" => r.kind = "query"

QcResult(r) ==
    /\ QcBefore(r) => r.op = "none" /\ r.err = "nil"
    /\ r.op \in {"none", "ok", "error"} /\ r.err \in {"nil", "error"}
    /\ ~QcBefore(r) => r.op # "none"
    /\ ~QcBefore(r) /\ r.kind # "query" => (r.err = "nil" <=> r.op = "ok")
    /\ r.worker # "done" /\ r.kind = "query" => r.err = "nil"
    /\ r.worker = "done" => (r.err = "nil" <=> r.op = "ok")
    /\ r.main = "nil" => (r.kind = "query" => r.worker = "done") /\ (r.kind = "query" \/ ~r.gone => r.op = "ok")

(* Every root is still to be done, or provided but for the present keys.   *)
RootOK(i, rec, done) == IF rec THEN QcRoots[i] \subseteq done ELSE QcRoots[i] \cap done # {}
TodoOK(todo, rec, done) ==
    /\ todo \in Seq((SUBSET UNION {QcRoots[i] : i \in DOMAIN QcRoots}) \ {{}}) /\ Len(todo) <= Len(QcRoots)
    /\ \A k \in 1..Len(todo) : todo[k] = QcRoots[(Len(QcRoots) - Len(todo)) + k]
    /\ \A i \in 1..(Len(QcRoots) - Len(todo)) : RootOK(i, rec, done)
QcProvides(r) ==
    /\ r.todo # <<>> \/ r.keys # {} => r.kind = "provide" /\ r.worker = "run"
    /\ r.kind = "provide" /\ r.worker = "run" => TodoOK(r.todo, r.rec, r.provided \cup r.keys)
    /\ r.kind = "provide" /\ r.op = "ok" => \A i \in DOMAIN QcRoots : RootOK(i, r.rec, r.provided)

QcInv == QcIs(qc) /\ QcCount(qc) /\ QcFlow(qc) /\ QcResult(qc) /\ QcProvides(qc)

LEMMA RootsAre ==
    /\ Len(QcRoots) \in Nat /\ DOMAIN QcRoots = 1..Len(QcRoots)
    /\ QcRoots \in Seq((SUBSET UNION {QcRoots[i] : i \in DOMAIN QcRoots}) \ {{}})
<1>1. QcRoots \in Seq((SUBSET UNION {QcRoots[i] : i \in DOMAIN QcRoots}) \ {{}})
  BY RoutingAssumption
<1> DEFINE S == (SUBSET UNION {QcRoots[i] : i \in DOMAIN QcRoots}) \ {{}}
<1>2. QcRoots \in Seq(S)
  BY <1>1
<1> HIDE DEF S
<1> QED BY <1>1, <1>2

LEMMA AllRootsLeft == ASSUME NEW rec, NEW done PROVE TodoOK(QcRoots, rec, done)
<1>1. \A n \in Nat : n <= n /\ n - n = 0
  OBVIOUS
<1>2. 1..0 = {} /\ \A k \in Int : 0 + k = k
  OBVIOUS
<1> DEFINE n == Len(QcRoots)
<1>3. n \in Nat /\ n <= n /\ n - n = 0
  BY <1>1, RootsAre
<1> QED BY <1>2, <1>3, RootsAre DEF TodoOK

LEMMA QueryInit == QcInit => QcInv
<1> SUFFICES ASSUME QcInit PROVE QcInv
  OBVIOUS
<1>1. /\ QcIs(qc) /\ qc.kind = "none" /\ qc.main = "start" /\ qc.worker = "none" /\ qc.todo = <<>> /\ qc.keys = {}
      /\ qc.op = "none" /\ qc.err = "nil" /\ qc.ctx = "live" /\ qc.gone = FALSE /\ qc.closed = FALSE
      /\ qc.left = 0 /\ qc.sent = 0 /\ qc.chan = 0 /\ qc.emitted = 0
  BY DEF QcInit, QcIs
<1>2. QcCount(qc)
  <2>1. 0 <= QcBuffer
    BY RoutingAssumption
  <2>2. ~QcAfter(qc)
    BY <1>1 DEF QcAfter
  <2> QED BY <1>1, <2>1, <2>2 DEF QcCount
<1>3. QcFlow(qc) /\ QcResult(qc) /\ QcProvides(qc)
  BY <1>1 DEF QcFlow, QcResult, QcProvides, QcBefore, QcAfter
<1> QED BY <1>1, <1>2, <1>3 DEF QcInv

\* A refused command, and one that begins.
LEMMA QcBeginStep ==
    ASSUME QcInv, NEW kind \in {"provide", "findpeer", "get", "put", "query", "findprovs"}, NEW ok \in BOOLEAN, NEW job, QcBegin(kind, ok, job),
           \/ kind # "provide" /\ job = qc
           \/ kind = "provide" /\ \E rec \in BOOLEAN : job = [qc EXCEPT !.todo = QcRoots, !.rec = rec]
    PROVE  QcInv'
<1>1. QcIs(qc) /\ QcCount(qc) /\ QcFlow(qc) /\ QcResult(qc) /\ QcProvides(qc) /\ qc.main = "start"
  BY DEF QcInv, QcBegin
<1>2. qc.worker = "none" /\ qc.todo = <<>> /\ qc.keys = {} /\ ~qc.gone /\ qc.ctx = "live" /\ ~qc.closed /\ qc.op = "none" /\ qc.err = "nil"
  BY <1>1 DEF QcFlow, QcResult, QcProvides, QcBefore, QcAfter
<1>3. CASE ~ok
  <2>1. qc' = [qc EXCEPT !.kind = kind, !.main = "refused"]
    BY <1>3 DEF QcBegin
  <2>2. /\ QcIs(qc') /\ qc'.kind = kind /\ qc'.main = "refused" /\ qc'.worker = qc.worker /\ qc'.todo = qc.todo /\ qc'.keys = qc.keys
        /\ qc'.rec = qc.rec /\ qc'.provided = qc.provided /\ qc'.op = qc.op /\ qc'.err = qc.err /\ qc'.ctx = qc.ctx /\ qc'.gone = qc.gone
        /\ qc'.left = qc.left /\ qc'.sent = qc.sent /\ qc'.chan = qc.chan /\ qc'.closed = qc.closed /\ qc'.emitted = qc.emitted
    BY <1>1, <2>1 DEF QcIs
  <2>3. QcCount(qc')
    BY <1>1, <2>2 DEF QcCount, QcBefore, QcAfter
  <2>4. QcFlow(qc') /\ QcResult(qc') /\ QcProvides(qc')
    BY <1>1, <1>2, <2>2 DEF QcFlow, QcResult, QcProvides, QcBefore, QcAfter
  <2> QED BY <2>2, <2>3, <2>4 DEF QcInv
<1>4. CASE ok
  <2>1. qc' = [job EXCEPT !.kind = kind, !.main = "drain", !.worker = "run"]
    BY <1>4 DEF QcBegin
  <2>2. /\ QcIs(job) /\ (kind = "provide" => job.todo = QcRoots) /\ (kind # "provide" => job.todo = <<>>) /\ job.keys = qc.keys
        /\ job.provided = qc.provided /\ job.op = qc.op /\ job.err = qc.err /\ job.ctx = qc.ctx /\ job.gone = qc.gone
        /\ job.left = qc.left /\ job.sent = qc.sent /\ job.chan = qc.chan /\ job.closed = qc.closed /\ job.emitted = qc.emitted
    BY <1>1, <1>2 DEF QcIs
  <2>3. /\ QcIs(qc') /\ qc'.kind = kind /\ qc'.main = "drain" /\ qc'.worker = "run" /\ qc'.todo = job.todo /\ qc'.keys = qc.keys
        /\ qc'.rec = job.rec /\ qc'.provided = qc.provided /\ qc'.op = qc.op /\ qc'.err = qc.err /\ qc'.ctx = qc.ctx /\ qc'.gone = qc.gone
        /\ qc'.left = qc.left /\ qc'.sent = qc.sent /\ qc'.chan = qc.chan /\ qc'.closed = qc.closed /\ qc'.emitted = qc.emitted
    BY <2>1, <2>2 DEF QcIs
  <2>4. QcCount(qc')
    <3>1. QcBefore(qc) /\ ~QcAfter(qc')
      BY <1>2, <2>3 DEF QcBefore, QcAfter
    <3> QED BY <1>1, <2>3, <3>1 DEF QcCount
  <2>5. QcFlow(qc') /\ QcResult(qc')
    BY <1>1, <1>2, <2>3 DEF QcFlow, QcResult, QcBefore, QcAfter
  <2>6. TodoOK(QcRoots, qc'.rec, qc'.provided \cup qc'.keys)
    BY AllRootsLeft
  <2>7. QcProvides(qc')
    BY <1>1, <1>2, <2>2, <2>3, <2>6 DEF QcProvides
  <2> QED BY <2>3, <2>4, <2>5, <2>7 DEF QcInv
<1> QED BY <1>3, <1>4
\* The query has ended.
LEMMA QcRanStep ==
    ASSUME QcInv, NEW ok \in BOOLEAN, NEW n \in Nat, qc.worker = "run", QcRan(ok, n), qc.kind = "findprovs" => ok,
           qc.kind = "provide" /\ ok => \A i \in DOMAIN QcRoots : RootOK(i, qc.rec, qc.provided)
    PROVE  QcInv'
<1>1. QcIs(qc) /\ QcCount(qc) /\ QcFlow(qc) /\ QcResult(qc) /\ QcProvides(qc)
  BY DEF QcInv
<1> DEFINE op == IF ok THEN "ok" ELSE "error"
           err == IF ok \/ qc.kind \in {"query", "findprovs"} THEN qc.err ELSE "error"
<1>2. qc' = [qc EXCEPT !.worker = "publish", !.left = n, !.todo = <<>>, !.keys = {}, !.op = op, !.err = err]
  BY DEF QcRan
<1>3. op \in {"ok", "error"} /\ (op = "ok" <=> ok) /\ qc.err = "nil" /\ qc.left = 0
      /\ qc.main # "start" /\ qc.main # "refused"
  <2>1. qc.err = "nil" /\ qc.main # "start" /\ qc.main # "refused" /\ QcBefore(qc)
    BY <1>1 DEF QcResult, QcBefore, QcFlow
  <2>2. qc.left = 0
    BY <1>1, <2>1 DEF QcCount
  <2> QED BY <2>1, <2>2
<1>4. err = IF ok \/ qc.kind \in {"query", "findprovs"} THEN "nil" ELSE "error"
  BY <1>3
<1> HIDE DEF op, err
<1>5. /\ QcIs(qc') /\ qc'.kind = qc.kind /\ qc'.main = qc.main /\ qc'.worker = "publish" /\ qc'.todo = <<>> /\ qc'.keys = {}
      /\ qc'.rec = qc.rec /\ qc'.provided = qc.provided /\ qc'.op = op /\ qc'.err = err /\ qc'.ctx = qc.ctx /\ qc'.gone = qc.gone
      /\ qc'.left = n /\ qc'.sent = qc.sent /\ qc'.chan = qc.chan /\ qc'.closed = qc.closed /\ qc'.emitted = qc.emitted
  BY <1>1, <1>2 DEF QcIs
<1>6. QcCount(qc')
  <2>1. ~QcBefore(qc') /\ ~QcAfter(qc')
    BY <1>5 DEF QcBefore, QcAfter
  <2> QED BY <1>1, <1>3, <1>5, <2>1 DEF QcCount
<1>7. QcFlow(qc')
  BY <1>1, <1>3, <1>5 DEF QcFlow, QcAfter
<1>8. QcResult(qc')
  BY <1>1, <1>3, <1>4, <1>5 DEF QcResult, QcBefore
<1>9. QcProvides(qc')
  BY <1>1, <1>3, <1>5 DEF QcProvides
<1> QED BY <1>5, <1>6, <1>7, <1>8, <1>9 DEF QcInv

\* Provided keys and the walk of a root.
LEMMA QcKeysStep ==
    ASSUME QcInv, qc.worker = "run", qc.kind = "provide", NEW todo, NEW keys, NEW done,
           qc' = [qc EXCEPT !.todo = todo, !.keys = keys, !.provided = done],
           TodoOK(todo, qc.rec, done \cup keys)
    PROVE  QcInv'
<1>1. QcIs(qc) /\ QcCount(qc) /\ QcFlow(qc) /\ QcResult(qc) /\ QcProvides(qc)
  BY DEF QcInv
<1>2. /\ QcIs(qc') /\ qc'.kind = qc.kind /\ qc'.main = qc.main /\ qc'.worker = qc.worker /\ qc'.todo = todo /\ qc'.keys = keys
      /\ qc'.rec = qc.rec /\ qc'.provided = done /\ qc'.op = qc.op /\ qc'.err = qc.err /\ qc'.ctx = qc.ctx /\ qc'.gone = qc.gone
      /\ qc'.left = qc.left /\ qc'.sent = qc.sent /\ qc'.chan = qc.chan /\ qc'.closed = qc.closed /\ qc'.emitted = qc.emitted
  BY <1>1 DEF QcIs
<1>3. QcCount(qc')
  <2>1. (QcBefore(qc') <=> QcBefore(qc)) /\ (QcAfter(qc') <=> QcAfter(qc))
    BY <1>2 DEF QcBefore, QcAfter
  <2> QED BY <1>1, <1>2, <2>1 DEF QcCount
<1>4. QcFlow(qc') /\ QcResult(qc')
  BY <1>1, <1>2 DEF QcFlow, QcResult, QcBefore, QcAfter
<1>5. QcProvides(qc')
  <2>1. qc.op = "none"
    BY <1>1 DEF QcResult, QcBefore
  <2> QED BY <1>2, <2>1 DEF QcProvides
<1> QED BY <1>2, <1>3, <1>4, <1>5 DEF QcInv

LEMMA RootMore ==
    ASSUME NEW i, NEW rec, NEW P, NEW Q, RootOK(i, rec, P), P \subseteq Q
    PROVE  RootOK(i, rec, Q)
BY DEF RootOK

\* The next root is taken up.
LEMMA NextRoot ==
    ASSUME NEW todo, NEW rec, NEW P, NEW Q, TodoOK(todo, rec, P), P \subseteq Q, todo # <<>>,
           IF rec THEN Head(todo) \subseteq Q ELSE Head(todo) \cap Q # {}
    PROVE  TodoOK(Tail(todo), rec, Q)
<1> DEFINE n == Len(QcRoots)
           m == Len(todo)
           S == (SUBSET UNION {QcRoots[i] : i \in DOMAIN QcRoots}) \ {{}}
<1>1. todo \in Seq(S) /\ n \in Nat /\ m \in Nat /\ m > 0 /\ m <= n
  BY RootsAre DEF TodoOK
<1> HIDE DEF S
<1>2. Tail(todo) \in Seq(S) /\ Len(Tail(todo)) = m - 1 /\ Head(todo) = todo[1] /\ \A k \in 1..(m - 1) : Tail(todo)[k] = todo[k + 1]
  BY <1>1
<1>3. \A k \in 1..(m - 1) : Tail(todo)[k] = QcRoots[(n - (m - 1)) + k]
  <2> SUFFICES ASSUME NEW k \in 1..(m - 1) PROVE Tail(todo)[k] = QcRoots[(n - (m - 1)) + k]
    OBVIOUS
  <2>1. k + 1 \in 1..m /\ (n - m) + (k + 1) = (n - (m - 1)) + k
    BY <1>1
  <2>2. todo[k + 1] = QcRoots[(n - m) + (k + 1)]
    BY <2>1 DEF TodoOK
  <2> QED BY <1>2, <2>1, <2>2
<1>4. \A i \in 1..(n - (m - 1)) : RootOK(i, rec, Q)
  <2> SUFFICES ASSUME NEW i \in 1..(n - (m - 1)) PROVE RootOK(i, rec, Q)
    OBVIOUS
  <2>1. i \in 1..(n - m) \/ i = (n - m) + 1
    BY <1>1
  <2>2. CASE i \in 1..(n - m)
    BY <2>2, RootMore DEF TodoOK
  <2>3. CASE i = (n - m) + 1
    <3>1. 1 \in 1..m
      BY <1>1
    <3>2. todo[1] = QcRoots[(n - m) + 1]
      BY <3>1 DEF TodoOK
    <3> QED BY <1>2, <2>3, <3>2 DEF RootOK
  <2> QED BY <2>1, <2>2, <2>3
<1>5. m - 1 <= n
  BY <1>1
<1> QED BY <1>2, <1>3, <1>4, <1>5 DEF TodoOK, S

LEMMA NoRootLeft ==
    ASSUME NEW rec, NEW done, TodoOK(<<>>, rec, done)
    PROVE  \A i \in DOMAIN QcRoots : RootOK(i, rec, done)
<1>1. \A n \in Nat : n - 0 = n
  OBVIOUS
<1>2. Len(<<>>) = 0
  OBVIOUS
<1> QED BY <1>1, <1>2, RootsAre DEF TodoOK

LEMMA ProvideStep ==
    ASSUME QcInv, ProvideKeys \/ (\E ok \in BOOLEAN : ProvideKeysRec(ok) \/ \E k \in qc.keys : ProvideKey(k, ok))
    PROVE  QcInv'
<1>1. QcIs(qc) /\ QcCount(qc) /\ QcFlow(qc) /\ QcResult(qc) /\ QcProvides(qc)
  BY DEF QcInv
<1>2. qc.worker = "run" /\ qc.kind = "provide" /\ TodoOK(qc.todo, qc.rec, qc.provided \cup qc.keys)
  BY <1>1 DEF ProvideKeys, ProvideKeysRec, ProvideKey, QcProvides
<1>3. qc.keys = {} => TodoOK(qc.todo, qc.rec, qc.provided)
  <2>1. qc.keys = {} => qc.provided \cup qc.keys = qc.provided
    OBVIOUS
  <2> QED BY <1>2, <2>1
<1>4. CASE qc.keys = {} /\ qc.todo = <<>> /\ QcRan(TRUE, 0)
  <2>1. \A i \in DOMAIN QcRoots : RootOK(i, qc.rec, qc.provided)
    BY <1>3, <1>4, NoRootLeft
  <2> QED BY <1>2, <1>4, <2>1, QcRanStep
<1>5. CASE QcRan(FALSE, 1)
  BY <1>2, <1>5, QcRanStep
<1>6. ASSUME ProvideKeys, qc.todo # <<>> PROVE QcInv'
  <2> DEFINE keys == {CHOOSE k \in Head(qc.todo) : TRUE}
  <2>1. ~qc.rec /\ qc.keys = {} /\ qc' = [qc EXCEPT !.todo = Tail(qc.todo), !.keys = keys]
    BY <1>6 DEF ProvideKeys
  <2>2. Head(qc.todo) # {}
    <3> DEFINE S == (SUBSET UNION {QcRoots[i] : i \in DOMAIN QcRoots}) \ {{}}
    <3>1. qc.todo \in Seq(S) /\ {} \notin S
      BY <1>2 DEF TodoOK
    <3> HIDE DEF S
    <3>2. Head(qc.todo) \in S
      BY <1>6, <3>1
    <3> QED BY <3>1, <3>2
  <2>3. Head(qc.todo) \cap (qc.provided \cup keys) # {}
    BY <2>2
  <2> HIDE DEF keys
  <2>4. TodoOK(Tail(qc.todo), qc.rec, qc.provided \cup keys)
    BY <1>3, <1>6, <2>1, <2>3, NextRoot
  <2>5. qc' = [qc EXCEPT !.todo = Tail(qc.todo), !.keys = keys, !.provided = qc.provided]
    BY <1>1, <2>1 DEF QcIs
  <2> QED BY <1>2, <2>4, <2>5, QcKeysStep
<1>7. ASSUME NEW ok \in BOOLEAN, ProvideKeysRec(ok), qc.todo # <<>>, ok PROVE QcInv'
  <2> DEFINE keys == Head(qc.todo) \ qc.provided
  <2>1. qc.rec /\ qc.keys = {} /\ qc' = [qc EXCEPT !.todo = Tail(qc.todo), !.keys = keys]
    BY <1>7 DEF ProvideKeysRec
  <2>2. Head(qc.todo) \subseteq qc.provided \cup keys
    OBVIOUS
  <2> HIDE DEF keys
  <2>3. TodoOK(Tail(qc.todo), qc.rec, qc.provided \cup keys)
    BY <1>3, <1>7, <2>1, <2>2, NextRoot
  <2>4. qc' = [qc EXCEPT !.todo = Tail(qc.todo), !.keys = keys, !.provided = qc.provided]
    BY <1>1, <2>1 DEF QcIs
  <2> QED BY <1>2, <2>3, <2>4, QcKeysStep
<1>8. ASSUME NEW k \in qc.keys, NEW ok \in BOOLEAN, ProvideKey(k, ok), ok PROVE QcInv'
  <2> DEFINE keys == qc.keys \ {k}
             done == qc.provided \cup {k}
  <2>1. qc' = [qc EXCEPT !.keys = keys, !.provided = done]
    BY <1>8 DEF ProvideKey
  <2>2. done \cup keys = qc.provided \cup qc.keys
    OBVIOUS
  <2> HIDE DEF keys, done
  <2>3. TodoOK(qc.todo, qc.rec, done \cup keys)
    BY <1>2, <2>2
  <2>4. qc' = [qc EXCEPT !.todo = qc.todo, !.keys = keys, !.provided = done]
    BY <1>1, <2>1 DEF QcIs
  <2> QED BY <1>2, <2>3, <2>4, QcKeysStep
<1>9. CASE ProvideKeys
  BY <1>4, <1>6, <1>9 DEF ProvideKeys
<1>10. ASSUME NEW ok \in BOOLEAN, ProvideKeysRec(ok) PROVE QcInv'
  BY <1>4, <1>5, <1>7, <1>10 DEF ProvideKeysRec
<1>11. ASSUME NEW ok \in BOOLEAN, NEW k \in qc.keys, ProvideKey(k, ok) PROVE QcInv'
  BY <1>5, <1>8, <1>11 DEF ProvideKey
<1> QED BY <1>9, <1>10, <1>11
\* The steps in which only the channel, the context and the two ends move.
LEMMA QcOther ==
    ASSUME QcInv, QcIs(qc'), qc'.todo = qc.todo, qc'.keys = qc.keys, qc'.rec = qc.rec, qc'.provided = qc.provided, qc'.kind = qc.kind,
           qc'.op = qc.op, qc'.worker = qc.worker \/ (~QcBefore(qc) /\ ~QcBefore(qc'))
    PROVE  QcProvides(qc')
<1>1. QcProvides(qc)
  BY DEF QcInv
<1>2. qc'.worker = "run" <=> qc.worker = "run"
  BY DEF QcBefore
<1> QED BY <1>1, <1>2 DEF QcProvides

LEMMA PublishStep == ASSUME QcInv, NEW drop \in BOOLEAN, PublishQueryEvent(drop) PROVE QcInv'
<1>1. QcIs(qc) /\ QcCount(qc) /\ QcFlow(qc) /\ QcResult(qc) /\ qc.worker = "publish" /\ qc.sent < qc.left
  BY DEF QcInv, PublishQueryEvent
<1> DEFINE chan == IF drop THEN qc.chan ELSE qc.chan + 1
<1>2. qc' = [qc EXCEPT !.sent = qc.sent + 1, !.chan = chan]
  BY DEF PublishQueryEvent
<1>3. (drop => qc.ctx = "done") /\ (~drop => ~qc.closed /\ qc.chan < QcBuffer)
  BY DEF PublishQueryEvent
<1>4. drop => qc.gone
  BY <1>1, <1>3 DEF QcFlow, QcAfter
<1> HIDE DEF chan
<1>5. /\ QcIs(qc') /\ qc'.kind = qc.kind /\ qc'.main = qc.main /\ qc'.worker = qc.worker /\ qc'.todo = qc.todo /\ qc'.keys = qc.keys
      /\ qc'.rec = qc.rec /\ qc'.provided = qc.provided /\ qc'.op = qc.op /\ qc'.err = qc.err /\ qc'.ctx = qc.ctx /\ qc'.gone = qc.gone
      /\ qc'.left = qc.left /\ qc'.sent = qc.sent + 1 /\ qc'.chan = chan /\ qc'.closed = qc.closed /\ qc'.emitted = qc.emitted
  BY <1>1, <1>2 DEF QcIs
<1>6. ~QcBefore(qc) /\ ~QcBefore(qc') /\ ~QcAfter(qc')
  BY <1>1, <1>5 DEF QcBefore, QcAfter
<1>7. QcCount(qc')
  <2>1. QcBuffer \in Nat
    BY RoutingAssumption
  <2>2. CASE drop
    BY <1>1, <1>4, <1>5, <1>6, <2>1, <2>2 DEF QcCount, chan
  <2>3. CASE ~drop
    BY <1>1, <1>3, <1>5, <1>6, <2>1, <2>3 DEF QcCount, chan
  <2> QED BY <2>2, <2>3
<1>8. QcFlow(qc')
  <2>1. ~qc.gone => ~(qc.main \in {"wait", "nil", "error"})
    BY <1>1, <1>3, <1>4 DEF QcFlow, QcAfter
  <2> QED BY <1>1, <1>5, <2>1 DEF QcFlow, QcAfter
<1>9. QcResult(qc')
  BY <1>1, <1>5 DEF QcResult, QcBefore
<1> QED BY <1>5, <1>7, <1>8, <1>9, QcOther DEF QcInv

LEMMA CancelStep == ASSUME QcInv, QcCancel \/ QcEnd PROVE QcInv'
<1>1. QcIs(qc) /\ QcCount(qc) /\ QcFlow(qc) /\ QcResult(qc)
  BY DEF QcInv
<1>2. CASE QcCancel
  <2>1. qc.worker = "publish" /\ qc.sent = qc.left /\ qc' = [qc EXCEPT !.ctx = "done", !.worker = "cancel"]
    BY <1>2 DEF QcCancel
  <2>2. /\ QcIs(qc') /\ qc'.kind = qc.kind /\ qc'.main = qc.main /\ qc'.worker = "cancel" /\ qc'.todo = qc.todo /\ qc'.keys = qc.keys
        /\ qc'.rec = qc.rec /\ qc'.provided = qc.provided /\ qc'.op = qc.op /\ qc'.err = qc.err /\ qc'.ctx = "done" /\ qc'.gone = qc.gone
        /\ qc'.left = qc.left /\ qc'.sent = qc.sent /\ qc'.chan = qc.chan /\ qc'.closed = qc.closed /\ qc'.emitted = qc.emitted
    BY <1>1, <2>1 DEF QcIs
  <2>3. ~QcBefore(qc) /\ ~QcBefore(qc')
    BY <2>1, <2>2 DEF QcBefore
  <2>4. QcCount(qc')
    BY <1>1, <2>1, <2>2, <2>3 DEF QcCount
  <2>5. QcFlow(qc') /\ QcResult(qc')
    BY <1>1, <2>1, <2>2 DEF QcFlow, QcResult, QcBefore, QcAfter
  <2> QED BY <2>2, <2>3, <2>4, <2>5, QcOther DEF QcInv
<1>3. CASE QcEnd
  <2> DEFINE err == IF qc.kind = "query" /\ qc.op = "error" THEN "error" ELSE qc.err
  <2>1. qc.worker = "cancel" /\ qc' = [qc EXCEPT !.worker = "done", !.err = err]
    BY <1>3 DEF QcEnd
  <2> HIDE DEF err
  <2>2. /\ QcIs(qc') /\ qc'.kind = qc.kind /\ qc'.main = qc.main /\ qc'.worker = "done" /\ qc'.todo = qc.todo /\ qc'.keys = qc.keys
        /\ qc'.rec = qc.rec /\ qc'.provided = qc.provided /\ qc'.op = qc.op /\ qc'.err = err /\ qc'.ctx = qc.ctx /\ qc'.gone = qc.gone
        /\ qc'.left = qc.left /\ qc'.sent = qc.sent /\ qc'.chan = qc.chan /\ qc'.closed = qc.closed /\ qc'.emitted = qc.emitted
    BY <1>1, <2>1 DEF QcIs
  <2>3. ~QcBefore(qc) /\ ~QcBefore(qc') /\ QcAfter(qc)
    BY <2>1, <2>2 DEF QcBefore, QcAfter
  <2>4. QcCount(qc')
    BY <1>1, <2>2, <2>3 DEF QcCount
  <2>5. QcFlow(qc')
    BY <1>1, <2>1, <2>2 DEF QcFlow, QcAfter
  <2>6. QcResult(qc')
    BY <1>1, <2>1, <2>2 DEF QcResult, QcBefore, err
  <2> QED BY <2>2, <2>3, <2>4, <2>5, <2>6, QcOther DEF QcInv
<1> QED BY <1>2, <1>3

LEMMA QcCloseStep == ASSUME QcInv, QcClose \/ QcTimeout PROVE QcInv'
<1>1. QcIs(qc) /\ QcCount(qc) /\ QcFlow(qc) /\ QcResult(qc)
  BY DEF QcInv
<1>2. CASE QcClose
  <2>1. qc.ctx = "done" /\ qc' = [qc EXCEPT !.closed = TRUE]
    BY <1>2 DEF QcClose
  <2>2. /\ QcIs(qc') /\ qc'.kind = qc.kind /\ qc'.main = qc.main /\ qc'.worker = qc.worker /\ qc'.todo = qc.todo /\ qc'.keys = qc.keys
        /\ qc'.rec = qc.rec /\ qc'.provided = qc.provided /\ qc'.op = qc.op /\ qc'.err = qc.err /\ qc'.ctx = qc.ctx /\ qc'.gone = qc.gone
        /\ qc'.left = qc.left /\ qc'.sent = qc.sent /\ qc'.chan = qc.chan /\ qc'.closed /\ qc'.emitted = qc.emitted
    BY <1>1, <2>1 DEF QcIs
  <2>3. (QcBefore(qc') <=> QcBefore(qc)) /\ (QcAfter(qc') <=> QcAfter(qc))
    BY <2>2 DEF QcBefore, QcAfter
  <2>4. QcCount(qc')
    BY <1>1, <2>2, <2>3 DEF QcCount
  <2>5. QcFlow(qc') /\ QcResult(qc')
    BY <1>1, <2>1, <2>2 DEF QcFlow, QcResult, QcBefore, QcAfter
  <2> QED BY <2>2, <2>4, <2>5, QcOther DEF QcInv
<1>3. CASE QcTimeout
  <2>1. qc.main \in {"drain", "wait"} /\ qc' = [qc EXCEPT !.ctx = "done", !.gone = TRUE]
    BY <1>3 DEF QcTimeout
  <2>2. /\ QcIs(qc') /\ qc'.kind = qc.kind /\ qc'.main = qc.main /\ qc'.worker = qc.worker /\ qc'.todo = qc.todo /\ qc'.keys = qc.keys
        /\ qc'.rec = qc.rec /\ qc'.provided = qc.provided /\ qc'.op = qc.op /\ qc'.err = qc.err /\ qc'.ctx = "done" /\ qc'.gone
        /\ qc'.left = qc.left /\ qc'.sent = qc.sent /\ qc'.chan = qc.chan /\ qc'.closed = qc.closed /\ qc'.emitted = qc.emitted
    BY <1>1, <2>1 DEF QcIs
  <2>3. (QcBefore(qc') <=> QcBefore(qc)) /\ (QcAfter(qc') <=> QcAfter(qc))
    BY <2>2 DEF QcBefore, QcAfter
  <2>4. QcCount(qc')
    BY <1>1, <2>2, <2>3 DEF QcCount
  <2>5. QcFlow(qc') /\ QcResult(qc')
    BY <1>1, <2>1, <2>2 DEF QcFlow, QcResult, QcBefore, QcAfter
  <2> QED BY <2>2, <2>4, <2>5, QcOther DEF QcInv
<1> QED BY <1>2, <1>3

\* An event is received.
LEMMA ReceiveStep == ASSUME QcInv, qc.main = "drain", qc.chan > 0, qc' = [qc EXCEPT !.chan = qc.chan - 1, !.emitted = qc.emitted + 1] PROVE QcInv'
<1>1. QcIs(qc) /\ QcCount(qc) /\ QcFlow(qc) /\ QcResult(qc)
  BY DEF QcInv
<1>2. /\ QcIs(qc') /\ qc'.kind = qc.kind /\ qc'.main = qc.main /\ qc'.worker = qc.worker /\ qc'.todo = qc.todo /\ qc'.keys = qc.keys
      /\ qc'.rec = qc.rec /\ qc'.provided = qc.provided /\ qc'.op = qc.op /\ qc'.err = qc.err /\ qc'.ctx = qc.ctx /\ qc'.gone = qc.gone
      /\ qc'.left = qc.left /\ qc'.sent = qc.sent /\ qc'.chan = qc.chan - 1 /\ qc'.closed = qc.closed /\ qc'.emitted = qc.emitted + 1
  BY <1>1 DEF QcIs
<1>3. (QcBefore(qc') <=> QcBefore(qc)) /\ (QcAfter(qc') <=> QcAfter(qc))
  BY <1>2 DEF QcBefore, QcAfter
<1>4. QcCount(qc')
  <2>1. QcBuffer \in Nat
    BY RoutingAssumption
  <2> QED BY <1>1, <1>2, <1>3, <2>1 DEF QcCount
<1>5. QcFlow(qc') /\ QcResult(qc')
  BY <1>1, <1>2 DEF QcFlow, QcResult, QcBefore, QcAfter
<1> QED BY <1>2, <1>4, <1>5, QcOther DEF QcInv

\* The command goes on to its end.
LEMMA MainStep ==
    ASSUME QcInv, NEW main \in {"wait", "nil", "error"}, qc.main \in {"drain", "wait"}, qc' = [qc EXCEPT !.main = main],
           main = "wait" => qc.kind = "query",
           ~qc.gone => qc.closed /\ qc.chan = 0,
           main = "nil" => qc.err = "nil" /\ (qc.kind = "query" => qc.worker = "done")
    PROVE  QcInv'
<1>1. QcIs(qc) /\ QcCount(qc) /\ QcFlow(qc) /\ QcResult(qc)
  BY DEF QcInv
<1>2. /\ QcIs(qc') /\ qc'.kind = qc.kind /\ qc'.main = main /\ qc'.worker = qc.worker /\ qc'.todo = qc.todo /\ qc'.keys = qc.keys
      /\ qc'.rec = qc.rec /\ qc'.provided = qc.provided /\ qc'.op = qc.op /\ qc'.err = qc.err /\ qc'.ctx = qc.ctx /\ qc'.gone = qc.gone
      /\ qc'.left = qc.left /\ qc'.sent = qc.sent /\ qc'.chan = qc.chan /\ qc'.closed = qc.closed /\ qc'.emitted = qc.emitted
  BY <1>1 DEF QcIs
<1>3. (QcBefore(qc') <=> QcBefore(qc)) /\ (QcAfter(qc') <=> QcAfter(qc))
  BY <1>2 DEF QcBefore, QcAfter
<1>4. QcCount(qc')
  BY <1>1, <1>2, <1>3 DEF QcCount
<1>5. ~qc.gone => QcAfter(qc) /\ ~QcBefore(qc)
  BY <1>1 DEF QcFlow, QcAfter, QcBefore
<1>6. QcFlow(qc')
  BY <1>1, <1>2 DEF QcFlow, QcAfter
<1>7. QcResult(qc')
  BY <1>1, <1>2, <1>5 DEF QcResult, QcBefore
<1> QED BY <1>2, <1>4, <1>6, <1>7, QcOther DEF QcInv

LEMMA DrainStep == ASSUME QcInv, QcDrain \/ QcWait \/ EmitFails PROVE QcInv'
<1>1. QcIs(qc) /\ QcCount(qc) /\ QcFlow(qc) /\ QcResult(qc)
  BY DEF QcInv
<1>2. qc.err \in {"nil", "error"}
  BY <1>1 DEF QcResult
<1>3. CASE QcDrain
  <2>1. CASE qc.chan > 0
    <3>1. qc' = [qc EXCEPT !.chan = qc.chan - 1, !.emitted = qc.emitted + 1] /\ qc.main = "drain"
      BY <1>3, <2>1 DEF QcDrain
    <3> QED BY <2>1, <3>1, ReceiveStep
  <2>2. CASE ~(qc.chan > 0)
    <3> DEFINE main == IF qc.kind = "query" THEN "wait" ELSE qc.err
    <3>1. qc' = [qc EXCEPT !.main = main] /\ qc.main = "drain" /\ qc.closed
      BY <1>3, <2>2 DEF QcDrain
    <3>2. qc.chan = 0
      BY <1>1, <2>2 DEF QcCount
    <3>3. /\ main \in {"wait", "nil", "error"} /\ (main = "wait" => qc.kind = "query")
          /\ (main = "nil" => qc.err = "nil" /\ qc.kind # "query")
      BY <1>2
    <3> HIDE DEF main
    <3> QED BY <3>1, <3>2, <3>3, MainStep
  <2> QED BY <2>1, <2>2
<1>4. CASE QcWait
  <2>1. qc.main = "wait" /\ qc.worker = "done" /\ qc' = [qc EXCEPT !.main = qc.err]
    BY <1>4 DEF QcWait
  <2>2. ~qc.gone => qc.closed /\ qc.chan = 0
    BY <1>1, <2>1 DEF QcFlow
  <2> QED BY <1>2, <2>1, <2>2, MainStep
<1>5. CASE EmitFails
  <2>1. qc.main = "drain" /\ qc.gone /\ qc' = [qc EXCEPT !.main = "error"]
    BY <1>5 DEF EmitFails
  <2> QED BY <2>1, MainStep
<1> QED BY <1>3, <1>4, <1>5

LEMMA QcRunStep ==
    ASSUME QcInv, NEW ok \in BOOLEAN, NEW n \in 0..QcEvents, QcRun(ok, n) \/ FindProvidersRun(n)
    PROVE  QcInv'
<1>1. n \in Nat
  BY RoutingAssumption
<1>2. CASE QcRun(ok, n)
  <2> DEFINE m == IF qc.kind \in {"findpeer", "get"} THEN 1 ELSE IF qc.kind = "put" THEN IF ok THEN 0 ELSE 1 ELSE n
  <2>1. qc.worker = "run" /\ qc.kind # "findprovs" /\ qc.kind # "provide" /\ QcRan(ok, m)
    BY <1>2 DEF QcRun
  <2>2. m \in Nat
    BY <1>1
  <2> HIDE DEF m
  <2> QED BY <2>1, <2>2, QcRanStep
<1>3. CASE FindProvidersRun(n)
  <2>1. qc.worker = "run" /\ qc.kind # "provide" /\ QcRan(TRUE, n)
    BY <1>3 DEF FindProvidersRun
  <2> QED BY <1>1, <2>1, QcRanStep
<1> QED BY <1>2, <1>3

LEMMA QueryStep == QcInv /\ [QcNext]_qcVars => QcInv'
<1> SUFFICES ASSUME QcInv, [QcNext]_qcVars PROVE QcInv'
  OBVIOUS
<1>1. CASE UNCHANGED qcVars
  BY <1>1 DEF qcVars, QcInv
<1>2. ASSUME NEW online \in BOOLEAN, NEW a \in BOOLEAN, NEW b \in BOOLEAN, NEW c \in BOOLEAN, ProvideRefRoutingCmd(online, a, b, c)
      PROVE  QcInv'
  <2> DEFINE job == [qc EXCEPT !.todo = QcRoots, !.rec = c]
             ok == online /\ a /\ b
  <2>1. QcBegin("provide", ok, job) /\ ok \in BOOLEAN
    BY <1>2 DEF ProvideRefRoutingCmd
  <2>2. \E rec \in BOOLEAN : job = [qc EXCEPT !.todo = QcRoots, !.rec = rec]
    OBVIOUS
  <2> HIDE DEF job, ok
  <2> QED BY <2>1, <2>2, QcBeginStep
<1>3. ASSUME NEW kind \in {"findpeer", "get", "put", "query", "findprovs"}, NEW ok \in BOOLEAN, QcBegin(kind, ok, qc) PROVE QcInv'
  BY <1>3, QcBeginStep
<1>4. ASSUME NEW online \in BOOLEAN, NEW valid \in BOOLEAN, NEW n \in 0..QcEvents,
             \/ FindPeerRoutingCmd(online, valid) \/ GetValueRoutingCmd(online, valid)
             \/ PutValueRoutingCmd(online, valid) \/ QueryDhtCmd(online, valid) \/ FindProvidersRoutingCmd(online, valid, n)
      PROVE  QcInv'
  <2>1. (online /\ valid) \in BOOLEAN /\ (online /\ valid /\ n >= 1) \in BOOLEAN
    OBVIOUS
  <2> QED BY <1>3, <1>4, <2>1 DEF FindPeerRoutingCmd, GetValueRoutingCmd, PutValueRoutingCmd, QueryDhtCmd, FindProvidersRoutingCmd
<1>5. 0 \in 0..QcEvents
  BY RoutingAssumption
<1> QED BY <1>1, <1>2, <1>4, <1>5, ProvideStep, PublishStep, CancelStep, QcCloseStep, DrainStep, QcRunStep DEF QcNext

\* Every event of a routing command reaches its client and every error its
\* caller, in any order of the goroutine, the channel and the reader
\* (findProvidersRoutingCmd, provideRefRoutingCmd, queryDhtCmd).
THEOREM QueriesSound == QcInit /\ [][QcNext]_qcVars => [](QcTypeOK /\ QcAllEvents /\ QcErrorSeen)
<1>1. QcInit => QcInv
  BY QueryInit
<1>2. QcInv /\ [QcNext]_qcVars => QcInv'
  BY QueryStep
<1>3. QcInv => QcTypeOK /\ QcAllEvents /\ QcErrorSeen
  <2> SUFFICES ASSUME QcInv PROVE QcTypeOK /\ QcAllEvents /\ QcErrorSeen
    OBVIOUS
  <2>1. QcCount(qc) /\ QcFlow(qc) /\ QcResult(qc) /\ QcProvides(qc)
    BY DEF QcInv
  <2>2. qc.chan \in 0..QcBuffer /\ qc.emitted <= qc.sent /\ qc.sent <= qc.left
    <3>1. QcBuffer \in Nat
      BY RoutingAssumption
    <3> QED BY <2>1, <3>1 DEF QcCount
  <2>3. QcTypeOK
    BY <2>1, <2>2 DEF QcTypeOK, QcFlow, QcResult, QcProvides
  <2>4. QcAllEvents
    <3> SUFFICES ASSUME qc.main \in {"nil", "error"}, ~qc.gone PROVE qc.emitted = qc.left /\ qc.worker # "run"
      BY DEF QcAllEvents
    <3>1. qc.chan = 0 /\ QcAfter(qc) /\ qc.worker # "run"
      BY <2>1 DEF QcFlow, QcAfter
    <3> QED BY <2>1, <3>1 DEF QcCount
  <2>5. QcErrorSeen
    BY <2>1 DEF QcErrorSeen, QcResult, QcProvides, RootOK
  <2> QED BY <2>3, <2>4, <2>5
<1> QED BY <1>1, <1>2, <1>3, PTL
-----------------------------------------------------------------------------
(* The whole front: each of its parts keeps what it keeps alone.           *)

\* A behaviour of the whole is one of each part, which moves or stutters.
LEMMA CommandsParts ==
    CommandsSpec => /\ Spec
                    /\ MgInit /\ [][MgStep]_mgVars
                    /\ ClInit /\ [][ClNext]_clVars
                    /\ MfInit /\ [][MfNext]_mfVars
                    /\ GwInit /\ [][GwNext]_gwVars
                    /\ HnInit /\ [][HnNext]_hnVars
                    /\ RtInit /\ [][RtNext]_rtVars
                    /\ QcInit /\ [][QcNext]_qcVars
                    /\ SwInit /\ [][SwNext]_swVars
                    /\ ArInit /\ [][ArNext]_arVars
<1>1. CommandsInit => /\ Init /\ MgInit /\ ClInit /\ MfInit /\ GwInit /\ HnInit /\ RtInit /\ QcInit
                      /\ SwInit /\ ArInit
  BY DEF CommandsInit
<1>2. [CommandsNext]_commandsVars => /\ [Next]_vars /\ [MgStep]_mgVars /\ [ClNext]_clVars /\ [MfNext]_mfVars
                                     /\ [GwNext]_gwVars /\ [HnNext]_hnVars /\ [RtNext]_rtVars /\ [QcNext]_qcVars
                                     /\ [SwNext]_swVars /\ [ArNext]_arVars
  BY DEF CommandsNext, commandsVars
<1> QED BY <1>1, <1>2, PTL DEF CommandsSpec, Spec

\* Every router that is built has its parts, and routing commands deliver
\* their events and errors, also beside the other requests (Parse, routing.go).
THEOREM RoutingHolds == CommandsSpec => []RoutingSound
<1>1. (RtTypeOK /\ RtParses) /\ (QcTypeOK /\ QcAllEvents /\ QcErrorSeen) => RoutingSound
  BY DEF RoutingSound
<1> QED BY <1>1, CommandsParts, RoutersSound, QueriesSound, PTL

\* The swarm commands of a node that serves all requests.
THEOREM SwarmRequestsHold == CommandsSpec => []SwarmSound
BY CommandsParts, SwarmHolds, PTL

\* What the other requests of a node keep, side by side: forwarded streams,
\* migrations, the command line and the identity it makes, `ipfs files`, the
\* gateway and its hosts.
THEOREM RequestsHold ==
    CommandsSpec => /\ [](P2PSound /\ MgSound /\ ClSound /\ MfSound /\ GwSound /\ HnSound)
                    /\ ClIdentityKept
<1>1. CommandsSpec => []P2PSound
  BY CommandsParts, Sound, PTL
<1>2. CommandsSpec => []MgSound /\ []ClSound /\ []MfSound
  BY CommandsParts, MigrationsSound, CommandLineSound, FilesSound, PTL
<1>3. CommandsSpec => []GwSound /\ []HnSound
  BY CommandsParts, GatewaySound, HostnameSound, PTL
<1>4. CommandsSpec => ClIdentityKept
  BY CommandsParts, IdentityKept, PTL
<1> QED BY <1>1, <1>2, <1>3, <1>4, PTL

=============================================================================
