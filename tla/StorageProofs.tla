---------------------------- MODULE StorageProofs ---------------------------
(***************************************************************************)
(* Proofs about the commands on stored blocks and pins: `ipfs mount`,      *)
(* `ipfs repo`, `ipfs pin remote` and `ipfs pin`, for any number of        *)
(* clients, blocks, requests, workers and faults.                          *)
(***************************************************************************)
EXTENDS MCStorage, GarbageCollectionProofs, FiniteSetTheorems, WellFoundedInduction, TLAPS

-----------------------------------------------------------------------------
(* Mounts.                                                                 *)

MountObject == [fs : Systems \cup {""}, kernel : BOOLEAN, active : BOOLEAN,
                proc : {"none", "open", "closed"}, stuck : BOOLEAN]

\* The mounts there are, and the ones a command or the node holds.
MountTypes ==
    /\ MnTypeOK
    /\ mnObj \in [Objects -> MountObject]
    /\ mnNode \in [Systems -> 0..mnMade]
    /\ mnJobs \in [MnClients -> [Systems -> {"none", "todo", "waiting", "mounted", "failed"}]]

\* A mount whose process is closed was taken down or refused to be.
ClosedIsStuck ==
    \A m \in Objects : mnObj[m].proc = "closed" /\ mnObj[m].kernel = TRUE => mnObj[m].stuck = TRUE

\* A mount belongs to the one call of NewMount that made it, until its
\* command has ended well or given it up.
OwnMount ==
    /\ \A c, d \in MnClients, f, g \in Systems :
        mnMine[c][f] = mnMine[d][g] /\ mnMine[c][f] # 0 => c = d /\ f = g
    /\ \A c \in MnClients, f \in Systems : mnMine[c][f] # 0 => mnObj[mnMine[c][f]].fs = f
    /\ \A c \in MnClients, f \in Systems :
        /\ mnJobs[c][f] \in {"waiting", "mounted"} => mnMine[c][f] # 0
        /\ mnPc[c] = "check" => mnMine[c][f] = 0 /\ mnJobs[c][f] = "none"
        /\ mnPc[c] = "mounting" /\ mnJobs[c][f] \in {"todo", "failed"} => mnMine[c][f] = 0
        /\ mnPc[c] # "mounting" => mnJobs[c][f] = "none"

\* A node that is closed has closed its children.
ChildrenClosed == mnOpen = "closed" => \A m \in Objects : mnObj[m].proc # "open"

MountsInv == MountTypes /\ ClosedIsStuck /\ OwnMount /\ ChildrenClosed /\ MnAllOrNothing

\* No step makes a mount that is served and was not refused out of one that was not.
Served(o) == o.kernel = TRUE /\ o.active = TRUE /\ o.stuck = FALSE

\* Unmounting leaves a mount of the same file system, which is no longer served
\* unless it was, and whose closed process left it down or refused.
Faded(o, p) ==
    /\ p \in MountObject /\ p.fs = o.fs /\ p.proc # "none"
    /\ Served(p) => Served(o)
    /\ p.proc = "open" => o.proc = "open"
    /\ p.proc = "closed" /\ p.kernel = TRUE => p.stuck = TRUE \/ (o.proc = "closed" /\ o.kernel = TRUE /\ o.stuck = FALSE)

LEMMA UnmountedIs ==
    ASSUME NEW o \in MountObject, NEW p, p = Unmounted(o)
    PROVE  p \in MountObject /\ p.fs = o.fs /\ p.kernel = FALSE /\ p.active = FALSE /\ p.proc = "closed" /\ p.stuck = o.stuck
BY DEF Unmounted, MountObject

LEMMA FailedIs ==
    ASSUME NEW o \in MountObject, NEW p, p = Failed(o)
    PROVE  p \in MountObject /\ p.fs = o.fs /\ p.kernel = o.kernel /\ p.active = o.active /\ p.proc = "closed" /\ p.stuck = TRUE
BY DEF Failed, MountObject

ServeEnded(o) == [o EXCEPT !.kernel = FALSE, !.active = FALSE]

LEMMA ServeEndedIs ==
    ASSUME NEW o \in MountObject, NEW p, p = ServeEnded(o)
    PROVE  p \in MountObject /\ p.fs = o.fs /\ p.kernel = FALSE /\ p.proc = o.proc
BY DEF MountObject, ServeEnded

LEMMA UnmountFades ==
    ASSUME NEW o \in MountObject, o.proc # "none", NEW p \in Unmount(o) \cup {Unmounted(o), Failed(o)}
    PROVE  Faded(o, p) /\ (Served(p) => p = o /\ o.proc # "open")
<1>1. CASE p = o /\ (~o.active \/ o.proc # "open")
  <2>1. Faded(o, o)
    BY DEF Faded, Served, MountObject
  <2>2. Served(o) => o.proc # "open"
    BY <1>1 DEF Served
  <2> QED BY <1>1, <2>1, <2>2
<1>2. CASE p = Unmounted(o)
  <2>1. p \in MountObject /\ p.fs = o.fs /\ p.kernel = FALSE /\ p.proc = "closed"
    BY <1>2, UnmountedIs
  <2> QED BY <2>1 DEF Faded, Served
<1>3. CASE p = Failed(o)
  <2>1. p \in MountObject /\ p.fs = o.fs /\ p.proc = "closed" /\ p.stuck = TRUE
    BY <1>3, FailedIs
  <2> QED BY <2>1 DEF Faded, Served
<1> QED BY <1>1, <1>2, <1>3 DEF Unmount

LEMMA NoMountIs == NoMount.proc = "none" /\ NoMount.kernel = FALSE
BY DEF NoMount

LEMMA MountsInvInit == MnInit => MountsInv
<1> SUFFICES ASSUME MnInit PROVE MountsInv
  OBVIOUS
<1> USE DEF MnInit
<1>1. NoMount \in MountObject
  BY DEF NoMount, MountObject, Systems
<1>2. MnTypeOK
  BY MountsAssumption DEF MnTypeOK, Objects, Systems
<1>3. MountTypes
  BY <1>1, <1>2 DEF MountTypes
<1>4. ClosedIsStuck
  BY DEF ClosedIsStuck, NoMount
<1>5. OwnMount
  BY DEF OwnMount
<1>6. ChildrenClosed /\ MnAllOrNothing
  BY DEF ChildrenClosed, MnAllOrNothing
<1> QED BY <1>3, <1>4, <1>5, <1>6 DEF MountsInv

\* What a mount that was made is, and what is not one.
LEMMA MadeObjects ==
    ASSUME MountTypes
    PROVE  /\ mnMade \in Nat /\ mnMade <= MaxMounts
           /\ \A m \in Objects : mnObj[m] \in MountObject
           /\ \A m \in 1..mnMade : m \in Objects /\ mnObj[m].proc \in {"open", "closed"} /\ mnObj[m].fs \in Systems
           /\ \A m \in Objects : m \notin 1..mnMade => mnObj[m] = NoMount
           /\ \A f \in Systems : mnNode[f] # 0 => mnNode[f] \in 1..mnMade /\ mnObj[mnNode[f]].fs = f
           /\ \A c \in MnClients, f \in Systems : mnMine[c][f] # 0 => mnMine[c][f] \in 1..mnMade
BY MountsAssumption DEF MountTypes, MnTypeOK, Objects

\* A step that makes no mount and lets some fade.
Fading == /\ mnObj' \in [Objects -> MountObject]
          /\ \A m \in Objects : mnObj'[m] = mnObj[m] \/ (m \in 1..mnMade /\ Faded(mnObj[m], mnObj'[m]))
          /\ mnMade' = mnMade

LEMMA FadingKeeps ==
    ASSUME MountsInv, Fading
    PROVE  /\ \A m \in Objects : (m > mnMade') = (mnObj'[m] = NoMount)
           /\ \A m \in 1..mnMade' : mnObj'[m].proc \in {"open", "closed"} /\ mnObj'[m].fs \in Systems
           /\ \A m \in 1..mnMade : mnObj'[m].fs = mnObj[m].fs
           /\ ClosedIsStuck'
           /\ (mnOpen' = mnOpen => ChildrenClosed')
           /\ \A m \in Objects : Served(mnObj'[m]) => Served(mnObj[m])
<1> USE DEF MountsInv, Fading
<1>1. \A m \in 1..mnMade : mnObj'[m].fs = mnObj[m].fs /\ mnObj'[m].proc # "none" /\ mnObj'[m] \in MountObject
  BY MadeObjects DEF Faded
<1>2. \A m \in 1..mnMade : mnObj'[m].proc \in {"open", "closed"} /\ mnObj'[m].fs \in Systems /\ mnObj'[m] # NoMount
  <2>1. NoMount.proc = "none"
    BY DEF NoMount
  <2>2. \A m \in 1..mnMade : mnObj'[m].proc \in {"none", "open", "closed"}
    BY <1>1 DEF MountObject
  <2>3. \A m \in 1..mnMade : mnObj[m].fs \in Systems
    BY MadeObjects
  <2> QED BY <1>1, <2>1, <2>2, <2>3
<1>3. \A m \in Objects : (m > mnMade') = (mnObj'[m] = NoMount)
  BY <1>2, MadeObjects DEF Objects
<1>4. ClosedIsStuck'
  <2> SUFFICES ASSUME NEW m \in Objects, mnObj'[m].proc = "closed", mnObj'[m].kernel = TRUE
               PROVE  mnObj'[m].stuck = TRUE
    BY DEF ClosedIsStuck
  <2>1. CASE mnObj'[m] = mnObj[m]
    BY <2>1 DEF ClosedIsStuck
  <2>2. CASE Faded(mnObj[m], mnObj'[m])
    <3>1. mnObj[m].proc = "closed" /\ mnObj[m].kernel = TRUE => mnObj[m].stuck = TRUE
      BY DEF ClosedIsStuck
    <3>2. mnObj'[m].stuck = TRUE \/ (mnObj[m].proc = "closed" /\ mnObj[m].kernel = TRUE /\ mnObj[m].stuck = FALSE)
      BY <2>2 DEF Faded
    <3> QED BY <3>1, <3>2
  <2> QED BY <2>1, <2>2
<1>5. mnOpen' = mnOpen => ChildrenClosed'
  BY DEF ChildrenClosed, Faded
<1>6. \A m \in Objects : Served(mnObj'[m]) => Served(mnObj[m])
  BY DEF Faded
<1> QED BY <1>1, <1>2, <1>3, <1>4, <1>5, <1>6

\* The promise of MnAllOrNothing, in terms of Served.
NoneServed == \A c \in MnClients : mnPc[c] = "error" =>
                \A f \in Systems : mnMine[c][f] # 0 => ~Served(mnObj[mnMine[c][f]])

LEMMA NoneServedIs == MountTypes => (MnAllOrNothing <=> NoneServed)
<1> SUFFICES ASSUME MountTypes PROVE MnAllOrNothing <=> NoneServed
  OBVIOUS
<1>1. \A c \in MnClients, f \in Systems : mnMine[c][f] # 0 => mnObj[mnMine[c][f]] \in MountObject
  BY MadeObjects
<1>2. \A o \in MountObject : (o.kernel /\ o.active => o.stuck) <=> ~Served(o)
  <2> SUFFICES ASSUME NEW o \in MountObject PROVE (o.kernel /\ o.active => o.stuck) <=> ~Served(o)
    OBVIOUS
  <2>1. o.kernel \in BOOLEAN /\ o.active \in BOOLEAN /\ o.stuck \in BOOLEAN
    BY DEF MountObject
  <2> QED BY <2>1, Zenon DEF Served
<1> QED BY <1>1, <1>2 DEF MnAllOrNothing, NoneServed

\* What the state of clients has to be: their types, and whose mounts are whose.
OwnStates == 
    \A c \in MnClients, f \in Systems :
        /\ mnJobs[c][f] \in {"waiting", "mounted"} => mnMine[c][f] # 0
        /\ mnPc[c] = "check" => mnMine[c][f] = 0 /\ mnJobs[c][f] = "none"
        /\ mnPc[c] = "mounting" /\ mnJobs[c][f] \in {"todo", "failed"} => mnMine[c][f] = 0
        /\ mnPc[c] # "mounting" => mnJobs[c][f] = "none"

ClientTypes ==
    /\ mnPc \in [MnClients -> {"idle", "check", "mounting", "undo", "ok", "error"}]
    /\ mnMine \in [MnClients -> [Systems -> 0..mnMade]]
    /\ mnJobs \in [MnClients -> [Systems -> {"none", "todo", "waiting", "mounted", "failed"}]]

\* A step in which mounts fade keeps the invariant when it keeps what it says of clients.
LEMMA FadingStep ==
    ASSUME MountsInv, Fading, ClientTypes', OwnStates', NoneServed',
           \A c \in MnClients, f \in Systems : mnMine'[c][f] = 0 \/ mnMine'[c][f] = mnMine[c][f],
           mnNode' = mnNode \/ \E c \in MnClients : mnNode' = mnMine[c],
           ChildrenClosed'
    PROVE  MountsInv'
<1> USE DEF MountsInv
<1>1. mnMade' \in 0..MaxMounts
  BY MadeObjects DEF Fading
<1> DEFINE NodeRight == /\ mnNode' \in [Systems -> 0..mnMade']
                        /\ \A f \in Systems : mnNode'[f] # 0 => mnNode'[f] \in 1..mnMade /\ mnObj[mnNode'[f]].fs = f
<1>2. NodeRight
  <2>1. CASE mnNode' = mnNode
    BY <2>1, MadeObjects DEF MountTypes, Fading
  <2>2. ASSUME NEW c \in MnClients, mnNode' = mnMine[c] PROVE NodeRight
    BY <2>2, MadeObjects DEF MountTypes, MnTypeOK, Fading, OwnMount
  <2> QED BY <2>1, <2>2
<1>3. \A f \in Systems : mnNode'[f] # 0 => mnObj'[mnNode'[f]].fs = f
  BY <1>2, FadingKeeps
<1>4. MnTypeOK'
  BY <1>1, <1>3, FadingKeeps DEF MnTypeOK, ClientTypes
<1>5. MountTypes'
  BY <1>2, <1>4 DEF MountTypes, Fading, ClientTypes
<1>6. OwnMount'
  <2>1. \A c \in MnClients, f \in Systems : mnMine'[c][f] # 0 => mnObj'[mnMine'[c][f]].fs = f
    BY MadeObjects, FadingKeeps DEF OwnMount
  <2> QED BY <2>1 DEF OwnMount, OwnStates
<1>7. MountTypes' => (MnAllOrNothing' <=> NoneServed')
  BY NoneServedIs, PTL
<1> QED BY <1>5, <1>6, <1>7, FadingKeeps

\* The same, when no command ends in the step.
LEMMA NoneServedKept ==
    ASSUME MountsInv, Fading,
           \A c \in MnClients : mnPc'[c] = "error" => mnPc[c] = "error",
           \A c \in MnClients, f \in Systems : mnMine'[c][f] = 0 \/ mnMine'[c][f] = mnMine[c][f]
    PROVE  NoneServed'
<1>1. NoneServed
  BY NoneServedIs DEF MountsInv
<1>2. \A c \in MnClients, f \in Systems : mnMine'[c][f] # 0 => mnMine'[c][f] = mnMine[c][f] /\ mnMine[c][f] \in Objects
  BY MadeObjects DEF MountsInv
<1> QED BY <1>1, <1>2, FadingKeeps DEF NoneServed

\* A step that leaves the mounts alone, and one that replaces mounts by what
\* unmounting makes of them.
LEMMA SameMounts ==
    ASSUME MountsInv, UNCHANGED <<mnObj, mnMade>>
    PROVE  Fading
BY DEF Fading, MountsInv, MountTypes

LEMMA OneFades ==
    ASSUME MountsInv, NEW m \in 1..mnMade, NEW p \in Unmount(mnObj[m]) \cup {Unmounted(mnObj[m]), Failed(mnObj[m])},
           mnObj' = [mnObj EXCEPT ![m] = p], mnMade' = mnMade
    PROVE  Fading /\ (Served(mnObj'[m]) => p = mnObj[m] /\ p.proc # "open")
<1>1. mnObj[m] \in MountObject /\ mnObj[m].proc # "none" /\ m \in Objects
  BY MadeObjects DEF MountsInv
<1>2. Faded(mnObj[m], p) /\ (Served(p) => p = mnObj[m] /\ mnObj[m].proc # "open")
  BY <1>1, UnmountFades
<1>3. mnObj \in [Objects -> MountObject]
  BY DEF MountsInv, MountTypes
<1> QED BY <1>1, <1>2, <1>3 DEF Fading, Faded

LEMMA MountsInvUnpacked ==
    ASSUME MountsInv
    PROVE  ClientTypes /\ OwnStates /\ NoneServed
BY NoneServedIs DEF MountsInv, ClientTypes, OwnStates, MountTypes, MnTypeOK, OwnMount

LEMMA MountCmdStep == ASSUME MountsInv, NEW c \in MnClients, MountCmd(c) PROVE MountsInv'
<1> USE DEF MountCmd
<1>1. Fading
  BY SameMounts
<1>2. ClientTypes' /\ OwnStates'
  BY MountsInvUnpacked, MadeObjects DEF ClientTypes, OwnStates, MountsInv
<1>3. /\ \A d \in MnClients : mnPc'[d] = "error" => mnPc[d] = "error"
      /\ \A d \in MnClients, f \in Systems : mnMine'[d][f] = 0 \/ mnMine'[d][f] = mnMine[d][f]
  BY MountsInvUnpacked DEF ClientTypes
<1>4. ChildrenClosed'
  BY DEF MountsInv, ChildrenClosed
<1> QED BY <1>1, <1>2, <1>3, <1>4, NoneServedKept, FadingStep

LEMMA MountStep == ASSUME MountsInv, NEW c \in MnClients, Mount(c) PROVE MountsInv'
<1> USE DEF Mount
<1>1. Fading
  <2>1. PICK a \in IF mnNode["ipfs"] = 0 THEN {NoMount} ELSE Unmount(mnObj[mnNode["ipfs"]]),
             b \in IF mnNode["ipns"] = 0 THEN {NoMount} ELSE Unmount(mnObj[mnNode["ipns"]]) :
          mnObj' = [m \in Objects |-> IF m = mnNode["ipfs"] THEN a
                                      ELSE IF m = mnNode["ipns"] THEN b ELSE mnObj[m]]
    OBVIOUS
  <2>2. mnNode["ipfs"] # 0 => mnNode["ipfs"] \in 1..mnMade /\ Faded(mnObj[mnNode["ipfs"]], a)
    BY UnmountFades, MadeObjects DEF MountsInv, Systems
  <2>3. mnNode["ipns"] # 0 => mnNode["ipns"] \in 1..mnMade /\ Faded(mnObj[mnNode["ipns"]], b)
    BY UnmountFades, MadeObjects DEF MountsInv, Systems
  <2>4. 0 \notin Objects
    BY DEF Objects
  <2>5. \A m \in Objects : mnObj'[m] = mnObj[m] \/ (m \in 1..mnMade /\ Faded(mnObj[m], mnObj'[m]))
    BY <2>1, <2>2, <2>3, <2>4
  <2>6. mnObj' \in [Objects -> MountObject]
    BY <2>1, <2>2, <2>3, <2>4, MadeObjects DEF MountsInv, Faded
  <2> QED BY <2>5, <2>6 DEF Fading
<1>2. ClientTypes' /\ OwnStates'
  BY MountsInvUnpacked, MadeObjects DEF ClientTypes, OwnStates, MountsInv
<1>3. /\ \A d \in MnClients : mnPc'[d] = "error" => mnPc[d] = "error"
      /\ \A d \in MnClients, f \in Systems : mnMine'[d][f] = 0 \/ mnMine'[d][f] = mnMine[d][f]
  BY MountsInvUnpacked DEF ClientTypes
<1>4. ChildrenClosed'
  BY <1>1, FadingKeeps
<1> QED BY <1>1, <1>2, <1>3, <1>4, NoneServedKept, FadingStep

LEMMA MountTimeoutStep ==
    ASSUME MountsInv, NEW c \in MnClients, NEW f \in Systems, MountTimeout(c, f) PROVE MountsInv'
<1> USE DEF MountTimeout
<1>0. mnMine[c][f] \in 1..mnMade /\ mnPc[c] = "mounting"
  BY MadeObjects, MountsInvUnpacked DEF MountsInv, OwnStates
<1>1. Fading
  BY <1>0, OneFades
<1>2. ClientTypes' /\ OwnStates'
  BY <1>0, MountsInvUnpacked, MadeObjects DEF ClientTypes, OwnStates, MountsInv
<1>3. /\ \A d \in MnClients : mnPc'[d] = "error" => mnPc[d] = "error"
      /\ \A d \in MnClients, g \in Systems : mnMine'[d][g] = 0 \/ mnMine'[d][g] = mnMine[d][g]
  BY MountsInvUnpacked DEF ClientTypes
<1>4. ChildrenClosed'
  BY <1>1, FadingKeeps
<1> QED BY <1>1, <1>2, <1>3, <1>4, NoneServedKept, FadingStep

LEMMA DoMountKeepStep == ASSUME MountsInv, NEW c \in MnClients, DoMountKeep(c) PROVE MountsInv'
<1> USE DEF DoMountKeep, NoJobs
<1>1. Fading
  BY SameMounts
<1>2. ClientTypes' /\ OwnStates'
  BY MountsInvUnpacked, MadeObjects DEF ClientTypes, OwnStates, MountsInv
<1>3. /\ \A d \in MnClients : mnPc'[d] = "error" => mnPc[d] = "error"
      /\ \A d \in MnClients, g \in Systems : mnMine'[d][g] = 0 \/ mnMine'[d][g] = mnMine[d][g]
  BY MountsInvUnpacked DEF ClientTypes
<1>4. ChildrenClosed'
  BY <1>1, FadingKeeps
<1> QED BY <1>1, <1>2, <1>3, <1>4, NoneServedKept, FadingStep

LEMMA CloseStep == ASSUME MountsInv, NodeClose \/ NodeClosed PROVE MountsInv'
<1> USE DEF NodeClose, NodeClosed
<1>1. Fading
  BY SameMounts
<1>2. ClientTypes' /\ OwnStates'
  BY MountsInvUnpacked, MadeObjects DEF ClientTypes, OwnStates, MountsInv
<1>3. /\ \A d \in MnClients : mnPc'[d] = "error" => mnPc[d] = "error"
      /\ \A d \in MnClients, g \in Systems : mnMine'[d][g] = 0 \/ mnMine'[d][g] = mnMine[d][g]
  OBVIOUS
<1>4. ChildrenClosed'
  BY DEF ChildrenClosed
<1> QED BY <1>1, <1>2, <1>3, <1>4, NoneServedKept, FadingStep

LEMMA OthersStep == ASSUME MountsInv, NEW m \in Objects, ServeEnds(m) \/ Teardown(m) PROVE MountsInv'
<1> USE DEF ServeEnds, Teardown
<1>1. Fading
  <2>1. CASE Teardown(m)
    <3>0. mnObj[m] # NoMount
      BY <2>1, NoMountIs
    <3>1. m \in 1..mnMade
      BY <3>0, MadeObjects DEF MountsInv
    <3> QED BY <2>1, <3>1, OneFades
  <2>2. CASE ServeEnds(m)
    <3>0. mnObj[m] # NoMount
      BY <2>2, NoMountIs
    <3>1. m \in 1..mnMade /\ mnObj[m] \in MountObject /\ mnObj \in [Objects -> MountObject] /\ mnObj[m].proc # "none"
      BY <3>0, MadeObjects DEF MountsInv, MountTypes
    <3> DEFINE p == ServeEnded(mnObj[m])
    <3>2. p \in MountObject /\ p.kernel = FALSE /\ p.fs = mnObj[m].fs /\ p.proc = mnObj[m].proc
      BY <3>1, ServeEndedIs
    <3>3. Faded(mnObj[m], p)
      BY <3>1, <3>2 DEF Faded, Served
    <3>4. mnObj' = [mnObj EXCEPT ![m] = p]
      BY <2>2, <3>1 DEF ServeEnded
    <3> HIDE DEF p
    <3> QED BY <2>2, <3>1, <3>2, <3>3, <3>4 DEF Fading
  <2> QED BY <2>1, <2>2
<1>2. ClientTypes' /\ OwnStates'
  BY MountsInvUnpacked, MadeObjects DEF ClientTypes, OwnStates, MountsInv
<1>3. /\ \A d \in MnClients : mnPc'[d] = "error" => mnPc[d] = "error"
      /\ \A d \in MnClients, g \in Systems : mnMine'[d][g] = 0 \/ mnMine'[d][g] = mnMine[d][g]
  OBVIOUS
<1>4. ChildrenClosed'
  BY <1>1, FadingKeeps
<1> QED BY <1>1, <1>2, <1>3, <1>4, NoneServedKept, FadingStep

\* Of the two mounts of a command that failed at most one is there.
LEMMA DoMountUndoStep == ASSUME MountsInv, NEW c \in MnClients, DoMountUndo(c) PROVE MountsInv'
<1> USE DEF DoMountUndo, NoJobs, Ended
<1> DEFINE up == {mnMine[c][f] : f \in Systems} \ {0}
<1>0. PICK bad \in Systems : mnJobs[c][bad] = "failed" /\ mnMine[c][bad] = 0
  BY MountsInvUnpacked DEF OwnStates
<1>1. \A f, g \in Systems : mnMine[c][f] # 0 /\ mnMine[c][g] # 0 => f = g
  BY <1>0 DEF Systems
<1>2. Fading /\ \A f \in Systems : mnMine[c][f] # 0 => ~Served(mnObj'[mnMine[c][f]])
  <2>1. CASE up = {}
    <3>1. UNCHANGED mnObj /\ mnMade' = mnMade
      BY <2>1
    <3>2. \A f \in Systems : mnMine[c][f] = 0
      BY <2>1
    <3> QED BY <3>1, <3>2, SameMounts
  <2>2. CASE up # {}
    <3>1. PICK m \in up, o \in UNION {Unmount(mnObj[n]) : n \in up} :
            o \in Unmount(mnObj[m]) /\ mnObj' = [mnObj EXCEPT ![m] = o]
      BY <2>2
    <3>2. m \in 1..mnMade /\ \A f \in Systems : mnMine[c][f] # 0 => mnMine[c][f] = m
      BY <1>1, <3>1, MadeObjects DEF MountsInv
    <3>3. Fading /\ (Served(mnObj'[m]) => o = mnObj[m] /\ o.proc # "open")
      BY <3>1, <3>2, OneFades
    <3>4. ~Served(mnObj'[m])
      <4>1. SUFFICES ASSUME Served(mnObj'[m]) PROVE FALSE
        OBVIOUS
      <4>2. mnObj'[m] = mnObj[m] /\ mnObj[m].proc = "closed" /\ m \in Objects
        BY <3>1, <3>2, <3>3, <4>1, MadeObjects DEF MountsInv, MountTypes
      <4>3. mnObj[m].kernel = TRUE /\ mnObj[m].stuck = FALSE
        BY <4>1, <4>2 DEF Served
      <4> QED BY <4>2, <4>3 DEF MountsInv, ClosedIsStuck
    <3> QED BY <3>2, <3>3, <3>4
  <2> QED BY <2>1, <2>2
<1>3. ClientTypes' /\ OwnStates'
  BY MountsInvUnpacked, MadeObjects DEF ClientTypes, OwnStates, MountsInv
<1>4. ChildrenClosed'
  BY <1>2, FadingKeeps
<1>5. NoneServed'
  <2>1. \A d \in MnClients : d # c => mnPc'[d] = mnPc[d]
    BY MountsInvUnpacked DEF ClientTypes
  <2>2. \A d \in MnClients, f \in Systems : mnMine[d][f] # 0 => mnMine[d][f] \in Objects
    BY MadeObjects DEF MountsInv
  <2> QED BY <1>2, <2>1, <2>2, FadingKeeps, MountsInvUnpacked DEF NoneServed
<1> QED BY <1>2, <1>3, <1>4, <1>5, FadingStep

\* Only a mount that is waited for becomes active: its command has not ended.
LEMMA MountReadyStep ==
    ASSUME MountsInv, NEW c \in MnClients, NEW f \in Systems, MountReady(c, f) PROVE MountsInv'
<1> USE DEF MountReady
<1> DEFINE m == mnMine[c][f]
<1>0. m \in 1..mnMade /\ m # 0 /\ mnPc[c] = "mounting" /\ mnObj \in [Objects -> MountObject] /\ m \in Objects
  BY MadeObjects, MountsInvUnpacked DEF MountsInv, OwnStates, MountTypes
<1> HIDE DEF m
<1>1. /\ mnObj' \in [Objects -> MountObject]
      /\ \A n \in Objects : n # m => mnObj'[n] = mnObj[n]
      /\ mnObj'[m].fs = mnObj[m].fs /\ mnObj'[m].proc = mnObj[m].proc
      /\ mnObj'[m].kernel = mnObj[m].kernel /\ mnObj'[m].stuck = mnObj[m].stuck
  <2> DEFINE o == [mnObj[m] EXCEPT !.active = TRUE]
  <2>1. mnObj[m] \in MountObject
    BY <1>0
  <2>2. o \in MountObject /\ o.fs = mnObj[m].fs /\ o.proc = mnObj[m].proc /\ o.kernel = mnObj[m].kernel /\ o.stuck = mnObj[m].stuck
    BY <2>1 DEF MountObject
  <2>3. mnObj' = [mnObj EXCEPT ![m] = o]
    BY <1>0 DEF m
  <2> HIDE DEF o
  <2>4. mnObj'[m] = o
    BY <1>0, <2>3
  <2> QED BY <1>0, <2>2, <2>3, <2>4
<1>2. \A n \in Objects : mnObj'[n].fs = mnObj[n].fs /\ mnObj'[n].proc = mnObj[n].proc
  BY <1>1
<1>3. ClientTypes' /\ OwnStates'
  BY <1>0, MountsInvUnpacked, MadeObjects DEF ClientTypes, OwnStates, MountsInv, m
<1>4. MountTypes'
  <2>1. \A n \in Objects : (n > mnMade') = (mnObj'[n] = NoMount)
    <3>1. mnObj'[m] # NoMount
      BY <1>0, <1>1, MadeObjects, NoMountIs DEF MountsInv
    <3>2. \A n \in Objects : (n > mnMade) = (mnObj[n] = NoMount)
      BY DEF MountsInv, MountTypes, MnTypeOK
    <3>3. \A n \in Objects : n # m => (n > mnMade') = (mnObj'[n] = NoMount)
      BY <1>1, <3>2
    <3>4. ~(m > mnMade')
      BY <1>0, MadeObjects DEF MountsInv
    <3> QED BY <3>1, <3>3, <3>4
  <2>2. \A n \in 1..mnMade' : mnObj'[n].proc \in {"open", "closed"} /\ mnObj'[n].fs \in Systems
    BY <1>2, MadeObjects DEF MountsInv
  <2>3. \A g \in Systems : mnNode'[g] # 0 => mnObj'[mnNode'[g]].fs = g
    BY <1>2, MadeObjects DEF MountsInv
  <2> QED BY <1>1, <1>3, <2>1, <2>2, <2>3 DEF MountsInv, MountTypes, MnTypeOK, ClientTypes
<1>5. ClosedIsStuck'
  BY <1>1 DEF MountsInv, ClosedIsStuck
<1>6. ChildrenClosed'
  BY <1>2 DEF MountsInv, ChildrenClosed
<1>7. OwnMount'
  <2>1. \A d \in MnClients, g \in Systems : mnMine'[d][g] # 0 => mnObj'[mnMine'[d][g]].fs = g
    BY <1>2, MadeObjects DEF MountsInv, OwnMount
  <2> QED BY <1>3, <2>1 DEF MountsInv, OwnMount, OwnStates
<1>8. NoneServed'
  <2>1. \A d \in MnClients, g \in Systems :
          mnPc[d] = "error" /\ mnMine[d][g] # 0 => mnMine[d][g] # m /\ mnMine[d][g] \in Objects
    BY <1>0, MadeObjects DEF MountsInv, OwnMount, m
  <2>2. mnPc' = mnPc /\ mnMine' = mnMine
    OBVIOUS
  <2>3. \A d \in MnClients, g \in Systems :
          mnPc[d] = "error" /\ mnMine[d][g] # 0 => mnObj'[mnMine[d][g]] = mnObj[mnMine[d][g]]
    BY <1>1, <2>1
  <2> HIDE DEF MountReady
  <2> QED BY <2>2, <2>3, MountsInvUnpacked DEF NoneServed
<1>9. MountTypes' => (MnAllOrNothing' <=> NoneServed')
  BY NoneServedIs, PTL
<1> QED BY <1>4, <1>5, <1>6, <1>7, <1>8, <1>9 DEF MountsInv

LEMMA NewMountStep ==
    ASSUME MountsInv, NEW c \in MnClients, NEW f \in Systems, NEW ok \in BOOLEAN, NewMount(c, f, ok) PROVE MountsInv'
<1> USE DEF NewMount
<1>1. CASE ~ok
  <2>1. Fading
    BY <1>1, SameMounts
  <2>0. /\ mnPc' = mnPc /\ mnMine' = mnMine /\ mnMade' = mnMade
        /\ mnJobs' = [mnJobs EXCEPT ![c][f] = "failed"] /\ mnJobs[c][f] = "todo" /\ mnPc[c] = "mounting"
    BY <1>1
  <2>a. \A d \in MnClients, g \in Systems : <<d, g>> # <<c, f>> => mnJobs'[d][g] = mnJobs[d][g]
    BY <2>0, MountsInvUnpacked DEF ClientTypes
  <2>b. mnJobs'[c][f] = "failed"
    BY <2>0, MountsInvUnpacked DEF ClientTypes
  <2>2. ClientTypes' /\ OwnStates'
    BY <2>0, <2>a, <2>b, MountsInvUnpacked DEF ClientTypes, OwnStates
  <2>3. ChildrenClosed'
    BY <2>1, FadingKeeps
  <2> QED BY <1>1, <2>1, <2>2, <2>3, NoneServedKept, FadingStep
<1>2. CASE ok
  <2> DEFINE m == mnMade + 1
             o == [NoMount EXCEPT !.fs = f, !.kernel = TRUE, !.proc = "open"]
  <2>1. m \in Objects /\ m > mnMade /\ mnMade' = m /\ mnObj \in [Objects -> MountObject]
    BY <1>2, MadeObjects, MountsAssumption DEF MountsInv, Objects, MountTypes
  <2>2. NoMount \in MountObject
    BY DEF NoMount, MountObject, Systems
  <2>3. o \in MountObject /\ o.fs = f /\ o.proc = "open"
    BY <2>2 DEF MountObject
  <2> HIDE DEF m, o
  <2>4. mnObj' = [mnObj EXCEPT ![m] = o]
    BY <1>2 DEF m, o
  <2>5. mnObj' \in [Objects -> MountObject] /\ mnObj'[m] = o /\ \A n \in Objects : n # m => mnObj'[n] = mnObj[n]
    BY <2>1, <2>3, <2>4
  <2>6. \A n \in 1..mnMade : n # m /\ n \in Objects /\ n \in 1..mnMade'
    BY <2>1, MadeObjects DEF MountsInv
  <2>0. /\ mnPc' = mnPc /\ mnMine' = [mnMine EXCEPT ![c][f] = m]
        /\ mnJobs' = [mnJobs EXCEPT ![c][f] = "waiting"] /\ mnJobs[c][f] = "todo" /\ mnPc[c] = "mounting"
    BY <1>2 DEF m
  <2>a. \A d \in MnClients, g \in Systems : <<d, g>> # <<c, f>> => mnJobs'[d][g] = mnJobs[d][g] /\ mnMine'[d][g] = mnMine[d][g]
    BY <2>0, MountsInvUnpacked DEF ClientTypes
  <2>b. mnJobs'[c][f] = "waiting" /\ mnMine'[c][f] = m
    BY <2>0, MountsInvUnpacked DEF ClientTypes
  <2>7. ClientTypes' /\ OwnStates'
    <3>1. m \in Nat \ {0} /\ mnMade \in Nat /\ mnMade < m
      BY MadeObjects DEF MountsInv, m
    <3>2. mnMine' \in [MnClients -> [Systems -> 0..mnMade']]
      BY <2>0, <2>1, <3>1, MountsInvUnpacked DEF ClientTypes
    <3> QED BY <2>0, <2>a, <2>b, <3>1, <3>2, MountsInvUnpacked DEF ClientTypes, OwnStates
  <2>8. MountTypes'
    <3>1. \A n \in Objects : (n > mnMade') = (mnObj'[n] = NoMount)
      <4>1. o # NoMount
        BY <2>3, NoMountIs
      <4>2. \A n \in Objects : (n > mnMade) = (mnObj[n] = NoMount)
        BY DEF MountsInv, MountTypes, MnTypeOK
      <4> QED BY <2>1, <2>5, <4>1, <4>2, MadeObjects DEF MountsInv, m, Objects
    <3>2. \A n \in 1..mnMade' : mnObj'[n].proc \in {"open", "closed"} /\ mnObj'[n].fs \in Systems
      BY <2>1, <2>3, <2>5, MadeObjects DEF MountsInv, m
    <3>3. \A g \in Systems : mnNode'[g] # 0 => mnObj'[mnNode'[g]].fs = g
      BY <2>5, <2>6, MadeObjects DEF MountsInv
    <3>4. mnNode' \in [Systems -> 0..mnMade'] /\ mnMade' \in 0..MaxMounts
      BY <2>1, MadeObjects, MountsAssumption DEF MountsInv, MountTypes, Objects
    <3> QED BY <2>5, <2>7, <3>1, <3>2, <3>3, <3>4 DEF MountTypes, MnTypeOK, ClientTypes
  <2>9. ClosedIsStuck'
    BY <2>3, <2>5 DEF MountsInv, ClosedIsStuck
  <2>10. ChildrenClosed'
    BY DEF ChildrenClosed
  <2>11. \A d \in MnClients, g \in Systems : <<d, g>> # <<c, f>> => mnMine'[d][g] = mnMine[d][g]
    BY <1>2, MountsInvUnpacked DEF ClientTypes
  <2>12. mnMine'[c][f] = m
    BY <1>2, MountsInvUnpacked DEF ClientTypes, m
  <2>13. OwnMount'
    <3>1. \A d \in MnClients, g \in Systems : mnMine'[d][g] # 0 => mnObj'[mnMine'[d][g]].fs = g
      BY <2>3, <2>5, <2>6, <2>11, <2>12, MadeObjects DEF MountsInv, OwnMount
    <3>2. \A d, e \in MnClients, g, h \in Systems :
            mnMine'[d][g] = mnMine'[e][h] /\ mnMine'[d][g] # 0 => d = e /\ g = h
      BY <2>6, <2>11, <2>12, MadeObjects DEF MountsInv, OwnMount
    <3> QED BY <2>7, <3>1, <3>2 DEF OwnMount, OwnStates
  <2>14. NoneServed'
    <3>1. \A d \in MnClients, g \in Systems :
            mnPc[d] = "error" /\ mnMine'[d][g] # 0 => mnMine'[d][g] = mnMine[d][g] /\ mnObj'[mnMine[d][g]] = mnObj[mnMine[d][g]]
      BY <2>5, <2>6, <2>11, MadeObjects DEF MountsInv
    <3> QED BY <3>1, MountsInvUnpacked DEF NoneServed
  <2>15. MountTypes' => (MnAllOrNothing' <=> NoneServed')
    BY NoneServedIs, PTL
  <2> QED BY <2>8, <2>9, <2>10, <2>13, <2>14, <2>15 DEF MountsInv
<1> QED BY <1>1, <1>2

LEMMA MountsInvStep == MountsInv /\ [MnNext]_mnVars => MountsInv'
<1> SUFFICES ASSUME MountsInv, [MnNext]_mnVars PROVE MountsInv'
  OBVIOUS
<1>1. ASSUME NEW c \in MnClients, MountCmd(c) \/ Mount(c) \/ DoMountKeep(c) \/ DoMountUndo(c) PROVE MountsInv'
  BY <1>1, MountCmdStep, MountStep, DoMountKeepStep, DoMountUndoStep
<1>2. ASSUME NEW c \in MnClients, NEW f \in Systems,
             (\E ok \in BOOLEAN : NewMount(c, f, ok)) \/ MountReady(c, f) \/ MountTimeout(c, f)
      PROVE MountsInv'
  BY <1>2, NewMountStep, MountReadyStep, MountTimeoutStep
<1>3. ASSUME NEW m \in Objects, ServeEnds(m) \/ Teardown(m) PROVE MountsInv'
  BY <1>3, OthersStep
<1>4. CASE NodeClose \/ NodeClosed
  BY <1>4, CloseStep
<1>5. CASE UNCHANGED mnVars
  BY <1>5 DEF mnVars, MountsInv, MountTypes, MnTypeOK, ClosedIsStuck, OwnMount, ChildrenClosed, MnAllOrNothing
<1> QED BY <1>1, <1>2, <1>3, <1>4, <1>5 DEF MnNext

LEMMA MountsInvSound == MountsInv => MnSound
<1> SUFFICES ASSUME MountsInv PROVE MnClosedIsDown
  BY DEF MnSound, MountsInv, MountTypes
<1> SUFFICES ASSUME mnOpen = "closed", NEW m \in Objects, mnObj[m].kernel PROVE mnObj[m].stuck
  BY DEF MnClosedIsDown
<1>1. mnObj[m] # NoMount
  BY NoMountIs
<1>2. mnObj[m].proc = "closed"
  BY <1>1, MadeObjects DEF MountsInv, ChildrenClosed
<1>3. mnObj[m].kernel = TRUE
  BY MadeObjects DEF MountsInv, MountObject
<1> QED BY <1>2, <1>3 DEF MountsInv, ClosedIsStuck

\* `ipfs mount` keeps both mounts or none, and closing the node takes down every
\* mount it ever made (doMount, NewMount), whatever others unmount meanwhile.
THEOREM MountsSound == MnInit /\ [][MnNext]_mnVars => []MnSound
BY MountsInvInit, MountsInvStep, MountsInvSound, PTL

-----------------------------------------------------------------------------
(* RepoCommands.                                                           *)

\* Well-founded induction on the naturals, for one set.
LEMMA HasLeast ==
    ASSUME NEW S, S \subseteq Nat, S # {}
    PROVE  \E x \in S : \A y \in S : x <= y
<1> DEFINE R == OpToRel(<, Nat)
<1>1. IsWellFoundedOn(R, Nat)
  BY NatLessThanWellFounded
<1>2. \A x, y \in Nat : <<y, x>> \in R <=> y < x
  BY DEF OpToRel
<1> HIDE DEF R
<1>3. PICK x \in S : \A y \in S : ~(<<y, x>> \in R)
  BY <1>1, WFMin
<1>4. ASSUME NEW y \in S PROVE x <= y
  <2>1. ~(y < x)
    BY <1>2, <1>3, Zenon
  <2> QED BY <2>1
<1> QED BY <1>4

\* The results under way hold an error.
HasError(out) == \E i \in 1..Len(out) : out[i] = "error"
ErrorWaits == HasError(rcGc.out)

\* What the answer of a collection rests on: an error it made is counted or waits
\* in the channel, until the channel is closed and empty.
GcInv ==
    /\ rcCmd = "gc" /\ rcFailed => rcErrs > 0 \/ ErrorWaits
    /\ rcCmd = "none" /\ rcMode # "none" /\ rcAnswer = "ok" => rcGc.at = "closed" /\ ~rcFailed
    /\ rcCmd \in {"verify", "stat"} => rcMode = "none" /\ rcGc.at \in {"none", "closed"}
    /\ rcGc.at = "none" => rcCmd # "gc"

Holding == {w \in RcWorkers : rcWork[w] > 0}

\* A key is with one worker at most until its result counts; every key that is
\* behind the channel was counted, is held, or was not there.
VerifyInv ==
    rcCmd = "verify" =>
        /\ Cardinality(Holding) + rcCount <= rcCursor /\ rcFails <= rcCount
        /\ \A w \in Holding : rcHist[rcWork[w]] # {"absent"} /\ rcHist[rcWork[w]] # {}
        /\ rcFails > 0 => \E k \in Blocks : rcHist[k] \notin {{"good"}, {"absent"}}
        /\ ~rcDone =>
            /\ \A k \in Blocks : rcHist[k] = {"corrupt"} =>
                  k > rcCursor \/ rcFails > 0 \/ \E w \in RcWorkers : rcWork[w] = k
            /\ (\E w \in RcWorkers : rcWork[w] = -1) =>
                  \A k \in Blocks : k > rcCursor => rcHist[k] # {"corrupt"}

AlwaysThere == {k \in Blocks : k <= rcCursor /\ "absent" \notin rcHist[k]}
SometimeThere == {k \in Blocks : k <= rcCursor /\ rcHist[k] # {"absent"}}

StatInv ==
    rcCmd = "stat" => /\ rcCount <= rcCursor
                      /\ Cardinality(AlwaysThere) <= rcCount /\ rcCount <= Cardinality(SometimeThere)

HistInv == rcCmd # "none" => \A k \in Blocks : rcDisk[k] \in rcHist[k]

RepoInv == RcTypeOK /\ GcInv /\ VerifyInv /\ StatInv /\ HistInv /\ RcNotOverFull

LEMMA NoLimitsIs ==
    /\ NoLimits \in [max : Nat, mark : Int, gc : Nat, on : BOOLEAN]
    /\ NoLimits.gc <= Allowed(NoLimits.max, NoLimits.mark)
    /\ 0 <= Allowed(NoLimits.max, NoLimits.mark)
<1>1. NoLimits.gc = 0 /\ NoLimits.max = 0 /\ NoLimits.mark = 0
  BY DEF NoLimits
<1>2. NoLimits \in [max : Nat, mark : Int, gc : Nat, on : BOOLEAN]
  BY DEF NoLimits
<1>3. Allowed(NoLimits.max, NoLimits.mark) = 0
  BY <1>1 DEF Allowed
<1> QED BY <1>1, <1>2, <1>3

GcStates == [at : {"none", "stuck", "mark", "sweep", "datastore", "closed"}, out : Seq({"removed", "error"})]

LEMMA RepoInvInit == RcInit => RepoInv
<1> SUFFICES ASSUME RcInit PROVE RepoInv
  OBVIOUS
<1>1. RcTypeOK
  <2>1. rcDisk \in [Blocks -> BlockStates] /\ rcHist \in [Blocks -> SUBSET BlockStates]
    BY DEF BlockStates, RcInit
  <2>2. rcGc = [at |-> "none", out |-> <<>>]
    BY DEF RcInit
  <2>3. rcGc \in GcStates /\ Len(rcGc.out) <= GcBuffer
    <3>1. <<>> \in Seq({"removed", "error"}) /\ Len(<<>>) = 0
      OBVIOUS
    <3>2. rcGc \in GcStates
      BY <2>2, <3>1 DEF GcStates
    <3>3. rcGc.out = <<>>
      BY <2>2
    <3> QED BY <3>1, <3>2, <3>3, RepoCommandsAssumption
  <2>4. rcWork \in [RcWorkers -> -1..RcKeys]
    <3>1. -1 \in -1..RcKeys
      BY RepoCommandsAssumption
    <3> QED BY <3>1 DEF RcInit
  <2>5. rcLimits \in [max : Nat, mark : Int, gc : Nat, on : BOOLEAN] /\ rcLimits.gc <= Allowed(rcLimits.max, rcLimits.mark)
    BY NoLimitsIs DEF RcInit
  <2>6. rcDone \in BOOLEAN /\ rcFailed \in BOOLEAN /\ rcLeft \in Nat
    BY DEF RcInit
  <2>7. /\ rcCursor \in 0..RcKeys /\ rcCount \in 0..RcKeys /\ rcFails \in 0..RcKeys
        /\ rcErrs \in Nat /\ rcRuns \in 0..MaxRepo
    <3>1. rcCursor = 0 /\ rcCount = 0 /\ rcFails = 0 /\ rcErrs = 0 /\ rcRuns = 0
      BY DEF RcInit
    <3>2. RcKeys \in Nat /\ MaxRepo \in Nat
      BY RepoCommandsAssumption
    <3> QED BY <3>1, <3>2
  <2>8. rcCmd = "none" /\ rcMode = "none" /\ rcAnswer = "none"
    BY DEF RcInit
  <2> QED BY <2>1, <2>3, <2>4, <2>5, <2>6, <2>7, <2>8 DEF RcTypeOK, GcStates
<1>2. GcInv /\ VerifyInv /\ StatInv /\ HistInv /\ RcNotOverFull
  BY NoLimitsIs DEF GcInv, VerifyInv, StatInv, HistInv, RcNotOverFull, RcInit
<1> QED BY <1>1, <1>2 DEF RepoInv

\* The next key is the least of those that are stored behind the last one.
LEMMA NextKeyIs ==
    ASSUME RcTypeOK
    PROVE  \/ NextKey = 0 /\ \A k \in Blocks : k > rcCursor => rcDisk[k] = "absent"
           \/ /\ NextKey \in Blocks /\ NextKey > rcCursor /\ NextKey # 0 /\ rcDisk[NextKey] # "absent"
              /\ \A k \in Blocks : k > rcCursor /\ k < NextKey => rcDisk[k] = "absent"
<1> DEFINE later == {k \in Stored : k > rcCursor}
<1>0. later \subseteq Nat /\ later \subseteq Blocks /\ \A k \in Blocks : k \in Nat \ {0}
  BY RepoCommandsAssumption DEF Stored, Blocks
<1>1. CASE later = {}
  BY <1>1 DEF NextKey, Stored
<1>2. CASE later # {}
  <2>1. NextKey = CHOOSE k \in later : \A i \in later : k <= i
    BY <1>2 DEF NextKey
  <2>2. \E k \in later : \A i \in later : k <= i
    BY <1>0, <1>2, HasLeast
  <2>3. NextKey \in later /\ \A i \in later : NextKey <= i
    BY <2>1, <2>2
  <2>4. NextKey \in Blocks /\ NextKey > rcCursor /\ NextKey # 0 /\ rcDisk[NextKey] # "absent"
    BY <1>0, <2>3 DEF Stored
  <2>5. ASSUME NEW k \in Blocks, k > rcCursor, k < NextKey PROVE rcDisk[k] = "absent"
    <3>1. k \notin later
      BY <1>0, <2>3, <2>4, <2>5
    <3> QED BY <2>5, <3>1 DEF Stored
  <2> QED BY <2>4, <2>5
<1> QED BY <1>1, <1>2

\* A collection begins where a period may not leave more, although the product
\* may overflow.
LEMMA StorageGCBelow ==
    ASSUME NEW max \in StorageMaxes, NEW mark \in Watermarks
    PROVE  /\ StorageGC(max, mark) \in Nat /\ Allowed(max, mark) \in Nat
           /\ StorageGC(max, mark) <= Allowed(max, mark)
<1> DEFINE d == IF mark = 0 THEN 90 ELSE mark
           m == d % Word
           x == max * m
<1>1. max \in Nat /\ mark \in Int /\ d \in Int /\ Word \in Nat \ {0}
  BY RepoCommandsAssumption
<1> HIDE DEF d
<1>2. m \in Nat /\ (d \in 0..100 => m <= d)
  BY <1>1
<1> HIDE DEF m
<1>3. x \in Nat /\ (m <= 100 => x <= max * 100)
  BY <1>1, <1>2
<1> HIDE DEF x
<1>4. x % Word \in Nat /\ x % Word <= x
  BY <1>1, <1>3
<1>5. StorageGC(max, mark) = (x % Word) \div 100
  BY DEF StorageGC, x, m, d
<1>6. CASE mark \in 0..100
  <2>1. d \in 0..100
    BY <1>6 DEF d
  <2>2. x % Word <= max * 100
    BY <1>1, <1>2, <1>3, <1>4, <2>1
  <2>3. Allowed(max, mark) = max
    BY <1>6 DEF Allowed
  <2> QED BY <1>1, <1>4, <1>5, <2>2, <2>3
<1>7. CASE mark \notin 0..100
  <2>1. d = mark
    BY <1>7 DEF d
  <2>2. Allowed(max, mark) = x \div 100
    BY <1>7, <2>1 DEF Allowed, x, m
  <2> QED BY <1>3, <1>4, <1>5, <2>2
<1> QED BY <1>6, <1>7

\* RcTypeOK, by the kind of the state.
DisksOK == rcDisk \in [Blocks -> BlockStates] /\ rcHist \in [Blocks -> SUBSET BlockStates]
WordsOK == /\ rcCmd \in {"none", "gc", "verify", "stat"} /\ rcMode \in {"none", "stream", "collect", "periodic"}
           /\ rcAnswer \in {"none", "ok", "error", "corrupt"}
           /\ rcDone \in BOOLEAN /\ rcFailed \in BOOLEAN /\ rcLeft \in Nat
CountsOK == /\ rcCursor \in 0..RcKeys /\ rcCount \in 0..RcKeys /\ rcFails \in 0..RcKeys
            /\ rcWork \in [RcWorkers -> -1..RcKeys] /\ rcErrs \in Nat /\ rcRuns \in 0..MaxRepo
ChannelOK == rcGc \in GcStates /\ Len(rcGc.out) <= GcBuffer
LimitsOK == rcLimits \in [max : Nat, mark : Int, gc : Nat, on : BOOLEAN] /\ rcLimits.gc <= Allowed(rcLimits.max, rcLimits.mark)

LEMMA RcTypeOKParts == RcTypeOK <=> DisksOK /\ WordsOK /\ CountsOK /\ ChannelOK /\ LimitsOK
BY Zenon DEF RcTypeOK, DisksOK, WordsOK, CountsOK, ChannelOK, LimitsOK, GcStates

LEMMA RepoAssembles ==
    ASSUME DisksOK', WordsOK', CountsOK', ChannelOK', LimitsOK', GcInv', VerifyInv', StatInv', HistInv', RcNotOverFull'
    PROVE  RepoInv'
<1>1. RcTypeOK' <=> DisksOK' /\ WordsOK' /\ CountsOK' /\ ChannelOK' /\ LimitsOK'
  BY RcTypeOKParts, PTL
<1> QED BY <1>1 DEF RepoInv

LEMMA RepoUnpacked ==
    ASSUME RepoInv
    PROVE  DisksOK /\ WordsOK /\ CountsOK /\ ChannelOK /\ LimitsOK /\ RcNotOverFull
BY RcTypeOKParts DEF RepoInv, RcNotOverFull

\* The results a channel holds, when one is sent and when one is taken.
LEMMA SentResult ==
    ASSUME NEW out \in Seq({"removed", "error"}), NEW r \in {"removed", "error"}
    PROVE  /\ Append(out, r) \in Seq({"removed", "error"}) /\ Len(Append(out, r)) = Len(out) + 1
           /\ HasError(Append(out, r)) <=> HasError(out) \/ r = "error"
<1>1. /\ Append(out, r) \in Seq({"removed", "error"}) /\ Len(Append(out, r)) = Len(out) + 1
      /\ Len(out) \in Nat
      /\ \A i \in 1..Len(out) : Append(out, r)[i] = out[i]
      /\ Append(out, r)[Len(out) + 1] = r
  OBVIOUS
<1>2. 1..(Len(out) + 1) = 1..Len(out) \cup {Len(out) + 1}
  BY <1>1
<1> QED BY <1>1, <1>2 DEF HasError

LEMMA TakenResult ==
    ASSUME NEW out \in Seq({"removed", "error"}), out # <<>>
    PROVE  /\ Tail(out) \in Seq({"removed", "error"}) /\ Len(Tail(out)) = Len(out) - 1
           /\ HasError(out) => HasError(Tail(out)) \/ Head(out) = "error"
<1>1. /\ Tail(out) \in Seq({"removed", "error"}) /\ Len(Tail(out)) = Len(out) - 1
      /\ Len(out) \in Nat \ {0} /\ Head(out) = out[1]
      /\ \A i \in 1..(Len(out) - 1) : Tail(out)[i] = out[i + 1]
  OBVIOUS
<1>2. ASSUME NEW i \in 1..Len(out), out[i] = "error" PROVE HasError(Tail(out)) \/ Head(out) = "error"
  <2>1. CASE i = 1
    BY <1>1, <1>2, <2>1
  <2>2. CASE i # 1
    <3>1. i - 1 \in 1..Len(Tail(out)) /\ Tail(out)[i - 1] = "error"
      BY <1>1, <1>2, <2>2
    <3> QED BY <3>1 DEF HasError
  <2> QED BY <2>1, <2>2
<1> QED BY <1>1, <1>2 DEF HasError

LEMMA NoResults == ~HasError(<<>>) /\ <<>> \in Seq({"removed", "error"}) /\ Len(<<>>) = 0
BY DEF HasError

\* A step that does not advance a verification or a count, and forgets no past of
\* a block.
Quiet ==
    rcCmd' \in {"verify", "stat"} =>
        /\ rcCmd' = rcCmd /\ UNCHANGED <<rcCursor, rcWork, rcFails, rcCount>>
        /\ ~rcDone' => ~rcDone
        /\ \A k \in Blocks : rcHist[k] \subseteq rcHist'[k]

LEMMA ThereFinite ==
    /\ IsFiniteSet(Blocks) /\ IsFiniteSet(AlwaysThere) /\ IsFiniteSet(SometimeThere)
    /\ Cardinality(AlwaysThere) \in Nat /\ Cardinality(SometimeThere) \in Nat
<1>1. IsFiniteSet(Blocks)
  BY RepoCommandsAssumption, FS_Interval DEF Blocks
<1>2. AlwaysThere \subseteq Blocks /\ SometimeThere \subseteq Blocks
  BY DEF AlwaysThere, SometimeThere
<1> QED BY <1>1, <1>2, FS_Subset, FS_CardinalityType

LEMMA QuietStep ==
    ASSUME RepoInv, DisksOK', Quiet
    PROVE  VerifyInv' /\ StatInv'
<1>0. RepoInv /\ (rcCmd # "none" => \A k \in Blocks : rcHist[k] # {})
  BY DEF RepoInv, HistInv
<1>1. CASE rcCmd' = "verify"
  <2>1. /\ rcCmd = "verify" /\ UNCHANGED <<rcCursor, rcWork, rcFails, rcCount>> /\ (~rcDone' => ~rcDone)
        /\ \A k \in Blocks : rcHist[k] \subseteq rcHist'[k] /\ rcHist[k] # {}
    BY <1>0, <1>1 DEF Quiet
  <2>2. Holding' = Holding
    BY <2>1 DEF Holding
  <2>3. Cardinality(Holding)' + rcCount' <= rcCursor' /\ rcFails' <= rcCount'
    BY <2>1, <2>2 DEF RepoInv, VerifyInv
  <2>4. \A w \in Holding' : rcHist'[rcWork'[w]] # {"absent"} /\ rcHist'[rcWork'[w]] # {}
    <3>1. \A w \in Holding : rcWork[w] \in Blocks
      BY RepoUnpacked DEF CountsOK, Holding, Blocks
    <3>2. \A w \in Holding : rcHist[rcWork[w]] # {"absent"} /\ rcHist[rcWork[w]] # {}
      BY <2>1 DEF RepoInv, VerifyInv
    <3> QED BY <2>1, <2>2, <3>1, <3>2
  <2>5. rcFails' > 0 => \E k \in Blocks : rcHist'[k] \notin {{"good"}, {"absent"}}
    <3>1. rcFails > 0 => \E k \in Blocks : rcHist[k] \notin {{"good"}, {"absent"}}
      BY <2>1 DEF RepoInv, VerifyInv
    <3> QED BY <2>1, <3>1
  <2>6. ASSUME ~rcDone'
        PROVE /\ \A k \in Blocks : rcHist'[k] = {"corrupt"} =>
                    k > rcCursor' \/ rcFails' > 0 \/ \E w \in RcWorkers : rcWork'[w] = k
              /\ (\E w \in RcWorkers : rcWork'[w] = -1) =>
                    \A k \in Blocks : k > rcCursor' => rcHist'[k] # {"corrupt"}
    <3>1. \A k \in Blocks : rcHist'[k] = {"corrupt"} => rcHist[k] = {"corrupt"}
      BY <2>1
    <3> QED BY <2>1, <2>6, <3>1 DEF RepoInv, VerifyInv
  <2> QED BY <1>1, <2>3, <2>4, <2>5, <2>6 DEF VerifyInv, StatInv
<1>2. CASE rcCmd' = "stat"
  <2>1. /\ rcCmd = "stat" /\ UNCHANGED <<rcCursor, rcCount>>
        /\ \A k \in Blocks : rcHist[k] \subseteq rcHist'[k] /\ rcHist[k] # {}
    BY <1>0, <1>2 DEF Quiet
  <2>2. AlwaysThere' \subseteq AlwaysThere /\ SometimeThere \subseteq SometimeThere'
    BY <2>1 DEF AlwaysThere, SometimeThere
  <2>3. IsFiniteSet(SometimeThere') /\ Cardinality(SometimeThere') \in Nat /\ Cardinality(AlwaysThere') \in Nat
    <3>1. SometimeThere' \subseteq Blocks /\ AlwaysThere' \subseteq Blocks
      BY DEF AlwaysThere, SometimeThere
    <3> QED BY <3>1, ThereFinite, FS_Subset, FS_CardinalityType
  <2>4. Cardinality(AlwaysThere') <= Cardinality(AlwaysThere) /\ Cardinality(SometimeThere) <= Cardinality(SometimeThere')
    BY <2>2, <2>3, ThereFinite, FS_Subset
  <2>5. rcCount <= rcCursor /\ Cardinality(AlwaysThere) <= rcCount /\ rcCount <= Cardinality(SometimeThere)
    BY <2>1 DEF RepoInv, StatInv
  <2>6. rcCount \in Nat
    BY RepoUnpacked, RepoCommandsAssumption DEF CountsOK
  <2> QED BY <1>2, <2>1, <2>3, <2>4, <2>5, <2>6, ThereFinite DEF VerifyInv, StatInv
<1>3. CASE rcCmd' \notin {"verify", "stat"}
  BY <1>3 DEF VerifyInv, StatInv
<1> QED BY <1>1, <1>2, <1>3

-----------------------------------------------------------------------------
\* Commands begin.
LEMMA RunKeeps ==
    ASSUME RepoInv, NEW cmd \in {"gc", "verify", "stat"}, NEW mode \in {"none", "stream", "collect", "periodic"}, Run(cmd, mode),
           UNCHANGED <<rcLeft, rcLimits>>
    PROVE  /\ DisksOK' /\ WordsOK' /\ HistInv' /\ RcNotOverFull'
           /\ rcCursor' = 0 /\ rcCount' = 0 /\ rcFails' = 0 /\ rcErrs' = 0 /\ rcRuns' \in 0..MaxRepo
           /\ rcCmd' = cmd /\ rcMode' = mode /\ rcAnswer' = "none" /\ rcDone' = FALSE /\ rcFailed' = FALSE
           /\ rcGc.at \in {"none", "closed"}
           /\ \A k \in Blocks : rcHist'[k] = {rcDisk'[k]}
<1> USE DEF Run
<1>1. rcDisk \in [Blocks -> BlockStates] /\ rcLeft \in Nat /\ rcRuns \in 0..MaxRepo
  BY RepoUnpacked DEF DisksOK, CountsOK, WordsOK
<1>2. DisksOK' /\ HistInv' /\ \A k \in Blocks : rcHist'[k] = {rcDisk'[k]}
  BY <1>1 DEF DisksOK, HistInv
<1>3. rcRuns' \in 0..MaxRepo
  BY <1>1, RepoCommandsAssumption
<1>4. rcDone' \in BOOLEAN /\ rcFailed' \in BOOLEAN /\ rcLeft' \in Nat
  BY <1>1
<1>5. WordsOK'
  BY <1>1, <1>4 DEF WordsOK
<1>6. RcNotOverFull'
  BY DEF RepoInv, RcNotOverFull
<1> QED BY <1>2, <1>3, <1>5, <1>6

LEMMA GcBegins ==
    ASSUME RepoInv, NEW mode \in {"stream", "collect", "periodic"}, Run("gc", mode), NEW at \in {"mark", "stuck"},
           rcGc' = [at |-> at, out |-> <<>>], UNCHANGED <<rcWork, rcLimits, rcLeft>>
    PROVE  RepoInv'
<1>1. rcGc' \in GcStates /\ rcGc'.at = at /\ rcGc'.out = <<>>
  BY NoResults DEF GcStates
<1>2. ChannelOK'
  BY <1>1, NoResults, RepoCommandsAssumption DEF ChannelOK
<1>3. CountsOK'
  <2>1. rcCursor' = 0 /\ rcCount' = 0 /\ rcFails' = 0 /\ rcErrs' = 0 /\ rcRuns' \in 0..MaxRepo
    BY RunKeeps
  <2> QED BY <2>1, RepoUnpacked, RepoCommandsAssumption DEF CountsOK
<1>4. LimitsOK'
  BY RepoUnpacked DEF LimitsOK
<1>5. rcCmd' = "gc" /\ rcFailed' = FALSE
  BY RunKeeps
<1>6. GcInv' /\ VerifyInv' /\ StatInv'
  BY <1>1, <1>5 DEF GcInv, VerifyInv, StatInv
<1> QED BY <1>2, <1>3, <1>4, <1>6, RunKeeps, RepoAssembles

LEMMA AllowedInt ==
    ASSUME NEW max \in Nat, NEW mark \in Int PROVE Allowed(max, mark) \in Int
BY RepoCommandsAssumption DEF Allowed

LEMMA MaybeGCStep == ASSUME RepoInv, MaybeGC PROVE RepoInv'
<1> USE DEF MaybeGC
<1>0. IsFiniteSet(Stored) /\ Cardinality(Stored) \in Nat
  BY ThereFinite, FS_Subset, FS_CardinalityType DEF Stored
<1>1. CASE Cardinality(Stored) > rcLimits.gc
  BY <1>1, GcBegins
<1>2. CASE ~(Cardinality(Stored) > rcLimits.gc)
  <2>1. /\ UNCHANGED <<rcDiskVars, rcCmd, rcDone, rcAnswer, rcCursor, rcMode, rcGc, rcFailed, rcErrs,
                        rcLimits, rcVerifyVars, rcCount, rcRuns>>
        /\ rcLeft' = Cardinality(Stored)
    BY <1>2
  <2>3. RcNotOverFull'
    <3> DEFINE a == Allowed(rcLimits.max, rcLimits.mark)
    <3>1. rcLimits.gc \in Nat /\ rcLimits.gc <= a /\ a \in Int
      BY RepoUnpacked, AllowedInt DEF LimitsOK
    <3>2. a' = a
      BY <2>1
    <3> HIDE DEF a
    <3>3. rcLeft' <= a'
      BY <1>0, <1>2, <2>1, <3>1, <3>2
    <3> QED BY <3>3 DEF RcNotOverFull, a
  <2>7. rcLeft' \in Nat
    BY <1>0, <2>1
  <2>4. DisksOK' /\ CountsOK' /\ ChannelOK' /\ LimitsOK'
    BY <2>1, RepoUnpacked DEF DisksOK, CountsOK, ChannelOK, LimitsOK, rcDiskVars, rcVerifyVars
  <2>5. WordsOK' /\ RcNotOverFull'
    BY <2>1, <2>3, <2>7, RepoUnpacked DEF WordsOK, RcNotOverFull
  <2>6. GcInv' /\ VerifyInv' /\ StatInv' /\ HistInv'
    BY <2>1 DEF RepoInv, GcInv, VerifyInv, StatInv, HistInv, ErrorWaits, Holding, AlwaysThere, SometimeThere, rcDiskVars, rcVerifyVars
  <2> QED BY <2>4, <2>5, <2>6, RepoAssembles
<1> QED BY <1>1, <1>2

LEMMA BeginSteps ==
    ASSUME RepoInv, (\E stream, ok \in BOOLEAN : RepoGcCmd(stream, ok)) \/ VerifyResultChan \/ RepoStatCmd
    PROVE  RepoInv'
<1>1. ASSUME NEW stream \in BOOLEAN, NEW ok \in BOOLEAN, RepoGcCmd(stream, ok) PROVE RepoInv'
  <2> DEFINE mode == IF stream THEN "stream" ELSE "collect"
             at == IF ok THEN "mark" ELSE "stuck"
  <2>1. Run("gc", mode) /\ rcGc' = [at |-> at, out |-> <<>>] /\ UNCHANGED <<rcWork, rcLimits, rcLeft>>
    BY <1>1 DEF RepoGcCmd, GarbageCollectAsync
  <2>2. mode \in {"stream", "collect", "periodic"} /\ at \in {"mark", "stuck"}
    OBVIOUS
  <2> HIDE DEF mode, at
  <2> QED BY <2>1, <2>2, GcBegins
<1>2. CASE VerifyResultChan
  <2>1. Run("verify", "none") /\ rcWork' = [w \in RcWorkers |-> 0] /\ UNCHANGED <<rcGc, rcLimits, rcLeft>>
    BY <1>2 DEF VerifyResultChan
  <2>2. /\ DisksOK' /\ WordsOK' /\ HistInv' /\ RcNotOverFull'
        /\ rcCursor' = 0 /\ rcCount' = 0 /\ rcFails' = 0 /\ rcErrs' = 0 /\ rcRuns' \in 0..MaxRepo
        /\ rcCmd' = "verify" /\ rcMode' = "none" /\ rcGc.at \in {"none", "closed"}
    BY <2>1, RunKeeps
  <2>3. rcWork' \in [RcWorkers -> -1..RcKeys]
    <3>1. 0 \in -1..RcKeys
      BY RepoCommandsAssumption
    <3> QED BY <2>1, <3>1
  <2>4. CountsOK' /\ ChannelOK' /\ LimitsOK'
    BY <2>1, <2>2, <2>3, RepoUnpacked, RepoCommandsAssumption DEF CountsOK, ChannelOK, LimitsOK
  <2>5. GcInv' /\ StatInv'
    BY <2>1, <2>2 DEF GcInv, StatInv
  <2>6. Holding' = {}
    BY <2>1 DEF Holding
  <2>7. Cardinality(Holding)' = 0
    BY <2>6, FS_EmptySet
  <2>8. VerifyInv'
    <3>1. \A w \in RcWorkers : rcWork'[w] # -1
      BY <2>1
    <3>2. \A k \in Blocks : k > rcCursor'
      BY <2>2 DEF Blocks
    <3> QED BY <2>2, <2>6, <2>7, <3>1, <3>2 DEF VerifyInv
  <2> QED BY <2>2, <2>4, <2>5, <2>8, RepoAssembles
<1>3. CASE RepoStatCmd
  <2>1. Run("stat", "none") /\ UNCHANGED <<rcGc, rcWork, rcLimits, rcLeft>>
    BY <1>3 DEF RepoStatCmd
  <2>2. /\ DisksOK' /\ WordsOK' /\ HistInv' /\ RcNotOverFull'
        /\ rcCursor' = 0 /\ rcCount' = 0 /\ rcFails' = 0 /\ rcErrs' = 0 /\ rcRuns' \in 0..MaxRepo
        /\ rcCmd' = "stat" /\ rcMode' = "none" /\ rcGc.at \in {"none", "closed"}
    BY <2>1, RunKeeps
  <2>3. CountsOK' /\ ChannelOK' /\ LimitsOK'
    BY <2>1, <2>2, RepoUnpacked, RepoCommandsAssumption DEF CountsOK, ChannelOK, LimitsOK
  <2>4. GcInv' /\ VerifyInv'
    BY <2>1, <2>2 DEF GcInv, VerifyInv
  <2>5. AlwaysThere' = {} /\ SometimeThere' = {}
    BY <2>2 DEF AlwaysThere, SometimeThere, Blocks
  <2>6. StatInv'
    BY <2>2, <2>5, FS_EmptySet DEF StatInv
  <2> QED BY <2>2, <2>3, <2>4, <2>6, RepoAssembles
<1> QED BY <1>1, <1>2, <1>3

-----------------------------------------------------------------------------
\* Others change the disk, a client goes away, the limits are read.
LEMMA DiskBecomesStep ==
    ASSUME RepoInv, NEW k \in Blocks, NEW s \in BlockStates, DiskBecomes(k, s)
    PROVE  RepoInv'
<1>1. /\ rcRuns < MaxRepo /\ rcRuns' = rcRuns + 1
      /\ rcDisk' = [rcDisk EXCEPT ![k] = s]
      /\ rcHist' = [rcHist EXCEPT ![k] = IF rcCmd = "none" THEN @ ELSE @ \cup {s}]
      /\ UNCHANGED <<rcCmd, rcDone, rcAnswer, rcCursor, rcGcVars, rcVerifyVars, rcCount>>
  BY DEF DiskBecomes
<1>2. DisksOK
  BY RepoUnpacked
<1>3. DisksOK' /\ \A b \in Blocks : rcHist[b] \subseteq rcHist'[b]
  BY <1>1, <1>2 DEF DisksOK
<1>4. HistInv'
  <2>1. \A b \in Blocks : b # k => rcDisk'[b] = rcDisk[b] /\ rcHist'[b] = rcHist[b]
    BY <1>1, <1>2 DEF DisksOK
  <2>2. rcCmd # "none" => rcDisk'[k] = s /\ s \in rcHist'[k]
    BY <1>1, <1>2 DEF DisksOK
  <2> QED BY <1>1, <2>1, <2>2 DEF RepoInv, HistInv
<1>5. CountsOK'
  <2>1. rcRuns \in 0..MaxRepo
    BY RepoUnpacked DEF CountsOK
  <2>2. rcRuns' \in 0..MaxRepo
    BY <1>1, <2>1, RepoCommandsAssumption
  <2> QED BY <1>1, <2>2, RepoUnpacked DEF CountsOK, rcGcVars, rcVerifyVars
<1>6. WordsOK' /\ ChannelOK' /\ LimitsOK' /\ GcInv' /\ RcNotOverFull'
  BY <1>1, RepoUnpacked DEF WordsOK, ChannelOK, LimitsOK, RepoInv, GcInv, ErrorWaits, RcNotOverFull, rcGcVars
<1>7. Quiet
  BY <1>1, <1>3 DEF Quiet, rcVerifyVars
<1> QED BY <1>3, <1>4, <1>5, <1>6, <1>7, QuietStep, RepoAssembles

LEMMA CancelStep == ASSUME RepoInv, RcCancel PROVE RepoInv'
<1>1. /\ rcDone' = TRUE
      /\ UNCHANGED <<rcDiskVars, rcCmd, rcAnswer, rcCursor, rcGcVars, rcVerifyVars, rcCount, rcRuns>>
  BY DEF RcCancel
<1>2. DisksOK' /\ WordsOK' /\ CountsOK' /\ ChannelOK' /\ LimitsOK'
  BY <1>1, RepoUnpacked DEF DisksOK, WordsOK, CountsOK, ChannelOK, LimitsOK, rcDiskVars, rcGcVars, rcVerifyVars
<1>3. GcInv' /\ HistInv' /\ RcNotOverFull'
  BY <1>1 DEF RepoInv, GcInv, HistInv, ErrorWaits, RcNotOverFull, rcDiskVars, rcGcVars
<1>4. Quiet
  BY <1>1 DEF Quiet, rcDiskVars, rcVerifyVars
<1> QED BY <1>2, <1>3, <1>4, QuietStep, RepoAssembles

LEMMA NewGCStep ==
    ASSUME RepoInv, NEW max \in StorageMaxes, NEW mark \in Watermarks, NewGC(max, mark) PROVE RepoInv'
<1>1. /\ rcLimits' = [max |-> max, mark |-> mark, gc |-> StorageGC(max, mark), on |-> TRUE] /\ rcLeft' = 0
      /\ UNCHANGED <<rcDiskVars, rcCmd, rcDone, rcAnswer, rcCursor, rcMode, rcGc, rcFailed, rcErrs,
                     rcVerifyVars, rcCount, rcRuns>>
  BY DEF NewGC
<1>2. DisksOK' /\ WordsOK' /\ CountsOK' /\ ChannelOK'
  BY <1>1, RepoUnpacked DEF DisksOK, WordsOK, CountsOK, ChannelOK, rcDiskVars, rcVerifyVars
<1>3. LimitsOK' /\ RcNotOverFull'
  <2>0. max \in Nat /\ mark \in Int
    BY RepoCommandsAssumption
  <2>1. /\ StorageGC(max, mark) \in Nat /\ Allowed(max, mark) \in Nat
        /\ StorageGC(max, mark) <= Allowed(max, mark)
    BY StorageGCBelow
  <2>2. rcLimits'.gc = StorageGC(max, mark) /\ rcLimits'.max = max /\ rcLimits'.mark = mark
    BY <1>1
  <2>3. rcLimits' \in [max : Nat, mark : Int, gc : Nat, on : BOOLEAN]
    BY <1>1, <2>0, <2>1
  <2>4. LimitsOK'
    BY <2>1, <2>2, <2>3 DEF LimitsOK
  <2>5. RcNotOverFull'
    BY <1>1, <2>1, <2>2 DEF RcNotOverFull
  <2> QED BY <2>4, <2>5
<1>4. GcInv' /\ HistInv'
  BY <1>1 DEF RepoInv, GcInv, HistInv, ErrorWaits, rcDiskVars
<1>5. Quiet
  BY <1>1 DEF Quiet, rcDiskVars, rcVerifyVars
<1> QED BY <1>2, <1>3, <1>4, <1>5, QuietStep, RepoAssembles

-----------------------------------------------------------------------------
\* The steps of a collection: the state of its channel, what it changes of the
\* disk, and whether an error it makes is told.
LEMMA GcProgress ==
    ASSUME RepoInv, rcGc.at \in {"mark", "sweep", "datastore"}, ChannelOK',
           rcGc'.at \in {"mark", "sweep", "datastore", "closed"},
           rcFailed' \in BOOLEAN, HasError(rcGc.out) => HasError(rcGc'.out),
           rcFailed' = TRUE => rcFailed = TRUE \/ HasError(rcGc'.out),
           rcCursor' \in 0..RcKeys, DisksOK', HistInv',
           UNCHANGED <<rcCmd, rcDone, rcAnswer, rcMode, rcErrs, rcLimits, rcLeft, rcVerifyVars, rcCount, rcRuns>>
    PROVE  RepoInv'
<1>1. WordsOK' /\ CountsOK' /\ LimitsOK' /\ RcNotOverFull'
  BY RepoUnpacked DEF WordsOK, CountsOK, LimitsOK, RcNotOverFull, rcVerifyVars
<1>2. rcCmd \in {"none", "gc"} /\ ~(rcCmd = "none" /\ rcMode # "none" /\ rcAnswer = "ok")
  BY RepoUnpacked DEF RepoInv, GcInv, WordsOK
<1>3. VerifyInv' /\ StatInv'
  BY <1>2 DEF VerifyInv, StatInv
<1>4. GcInv'
  <2>1. rcCmd = "gc" /\ rcFailed = TRUE => rcErrs > 0 \/ HasError(rcGc.out)
    BY DEF RepoInv, GcInv, ErrorWaits
  <2>2. rcCmd' = "gc" /\ rcFailed' => rcErrs' > 0 \/ HasError(rcGc'.out)
    BY <2>1
  <2> QED BY <1>2, <2>2 DEF GcInv, ErrorWaits
<1> QED BY <1>1, <1>3, <1>4, RepoAssembles

LEMMA GcMarkStep == ASSUME RepoInv, NEW ok \in BOOLEAN, GcMark(ok) PROVE RepoInv'
<1>0. /\ UNCHANGED <<rcDiskVars, rcCmd, rcDone, rcAnswer, rcCursor, rcMode, rcErrs, rcLimits, rcLeft, rcVerifyVars, rcCount, rcRuns>>
      /\ rcGc.at = "mark" /\ rcGc \in GcStates /\ rcGc.out \in Seq({"removed", "error"}) /\ Len(rcGc.out) <= GcBuffer
  BY RepoUnpacked DEF GcMark, ChannelOK, GcStates
<1>1. DisksOK' /\ HistInv' /\ rcCursor' \in 0..RcKeys
  BY <1>0, RepoUnpacked DEF DisksOK, RepoInv, HistInv, CountsOK, rcDiskVars
<1>2. CASE ok
  <2>1. rcGc' = [rcGc EXCEPT !.at = "sweep"] /\ rcFailed' = rcFailed
    BY <1>2 DEF GcMark
  <2>2. rcGc' \in GcStates /\ rcGc'.at = "sweep" /\ rcGc'.out = rcGc.out
    BY <1>0, <2>1 DEF GcStates
  <2>3. ChannelOK' /\ rcFailed' \in BOOLEAN
    BY <1>0, <2>1, <2>2, RepoUnpacked DEF ChannelOK, WordsOK
  <2> QED BY <1>0, <1>1, <2>1, <2>2, <2>3, GcProgress
<1>3. CASE ~ok
  <2>1. Len(rcGc.out) < GcBuffer /\ rcGc' = [at |-> "closed", out |-> Append(rcGc.out, "error")] /\ rcFailed' = TRUE
    BY <1>3 DEF GcMark
  <2>2. rcGc' \in GcStates /\ rcGc'.at = "closed" /\ rcGc'.out = Append(rcGc.out, "error")
    BY <1>0, <2>1, SentResult DEF GcStates
  <2>3. ChannelOK' /\ HasError(rcGc'.out)
    BY <1>0, <2>1, <2>2, SentResult, RepoCommandsAssumption DEF ChannelOK
  <2> QED BY <1>0, <1>1, <2>1, <2>2, <2>3, GcProgress
<1> QED BY <1>2, <1>3

LEMMA GcSummaryStep == ASSUME RepoInv, GcSummary PROVE RepoInv'
<1>0. /\ UNCHANGED <<rcDiskVars, rcCmd, rcDone, rcAnswer, rcCursor, rcMode, rcFailed, rcErrs, rcLimits, rcLeft, rcVerifyVars, rcCount, rcRuns>>
      /\ rcGc.at = "sweep" /\ rcGc \in GcStates /\ rcGc.out \in Seq({"removed", "error"}) /\ Len(rcGc.out) <= GcBuffer
      /\ rcFailed => Len(rcGc.out) < GcBuffer
      /\ rcGc' = [at |-> "datastore", out |-> IF rcFailed THEN Append(rcGc.out, "error") ELSE rcGc.out]
  BY RepoUnpacked DEF GcSummary, ChannelOK, GcStates
<1>1. DisksOK' /\ HistInv' /\ rcCursor' \in 0..RcKeys /\ rcFailed' \in BOOLEAN
  BY <1>0, RepoUnpacked DEF DisksOK, RepoInv, HistInv, CountsOK, WordsOK, rcDiskVars
<1>2. rcGc'.at = "datastore" /\ rcGc'.out = IF rcFailed THEN Append(rcGc.out, "error") ELSE rcGc.out
  BY <1>0
<1>3. ChannelOK' /\ (HasError(rcGc.out) => HasError(rcGc'.out))
  <2>1. rcGc'.out \in Seq({"removed", "error"}) /\ Len(rcGc'.out) <= GcBuffer /\ (HasError(rcGc.out) => HasError(rcGc'.out))
    BY <1>0, <1>2, SentResult, RepoCommandsAssumption
  <2>2. rcGc' \in GcStates
    BY <1>0, <1>2, <2>1 DEF GcStates
  <2> QED BY <2>1, <2>2 DEF ChannelOK
<1> QED BY <1>0, <1>1, <1>2, <1>3, GcProgress

LEMMA GcCloseStep == ASSUME RepoInv, NEW ok \in BOOLEAN, GcClose(ok) PROVE RepoInv'
<1>0. /\ UNCHANGED <<rcDiskVars, rcCmd, rcDone, rcAnswer, rcCursor, rcMode, rcErrs, rcLimits, rcLeft, rcVerifyVars, rcCount, rcRuns>>
      /\ rcGc.at \in {"mark", "sweep", "datastore"} /\ (ok \/ Len(rcGc.out) < GcBuffer)
      /\ rcGc \in GcStates /\ rcGc.out \in Seq({"removed", "error"}) /\ Len(rcGc.out) <= GcBuffer
      /\ rcGc' = [at |-> "closed", out |-> IF ok THEN rcGc.out ELSE Append(rcGc.out, "error")]
      /\ rcFailed' = (rcFailed \/ ~ok)
  BY RepoUnpacked DEF GcClose, ChannelOK, GcStates
<1>1. DisksOK' /\ HistInv' /\ rcCursor' \in 0..RcKeys
  BY <1>0, RepoUnpacked DEF DisksOK, RepoInv, HistInv, CountsOK, rcDiskVars
<1>2. rcGc'.at = "closed" /\ rcGc'.out = IF ok THEN rcGc.out ELSE Append(rcGc.out, "error")
  BY <1>0
<1>3. ChannelOK' /\ (HasError(rcGc.out) \/ ~ok => HasError(rcGc'.out))
  <2>1. rcGc'.out \in Seq({"removed", "error"}) /\ Len(rcGc'.out) <= GcBuffer
    BY <1>0, <1>2, SentResult, RepoCommandsAssumption
  <2>3. HasError(rcGc.out) \/ ~ok => HasError(rcGc'.out)
    BY <1>0, <1>2, SentResult
  <2>2. rcGc' \in GcStates
    BY <1>0, <1>2, <2>1 DEF GcStates
  <2> QED BY <2>1, <2>2, <2>3 DEF ChannelOK
<1>4. rcFailed' \in BOOLEAN
  BY <1>0, Zenon
<1>5. rcFailed' = TRUE => rcFailed = TRUE \/ HasError(rcGc'.out)
  BY <1>0, <1>3, RepoUnpacked DEF WordsOK
<1> QED BY <1>0, <1>1, <1>2, <1>3, <1>4, <1>5, GcProgress

LEMMA GcSweepStep == ASSUME RepoInv, NEW ok \in BOOLEAN, GcSweep(ok) PROVE RepoInv'
<1> DEFINE k == NextKey
<1>0. /\ UNCHANGED <<rcCmd, rcDone, rcAnswer, rcMode, rcErrs, rcLimits, rcLeft, rcVerifyVars, rcCount, rcRuns>>
      /\ rcGc.at = "sweep" /\ rcGc \in GcStates /\ rcGc.out \in Seq({"removed", "error"}) /\ Len(rcGc.out) <= GcBuffer
      /\ k # 0 /\ rcCursor' = k
  BY RepoUnpacked DEF GcSweep, ChannelOK, GcStates
<1>1. k \in Blocks
  BY <1>0, NextKeyIs DEF RepoInv
<1> HIDE DEF k
<1>2. rcCursor' \in 0..RcKeys
  BY <1>0, <1>1, RepoCommandsAssumption DEF Blocks
<1>3. CASE k \in RcPinned
  <2>1. UNCHANGED <<rcDiskVars, rcGc, rcFailed>>
    BY <1>3 DEF GcSweep, k
  <2>2. DisksOK' /\ HistInv' /\ ChannelOK' /\ rcFailed' \in BOOLEAN
    BY <1>0, <2>1, RepoUnpacked DEF DisksOK, ChannelOK, WordsOK, RepoInv, HistInv, rcDiskVars
  <2> QED BY <1>0, <1>2, <2>1, <2>2, GcProgress
<1>4. CASE k \notin RcPinned
  <2> DEFINE r == IF ok THEN "removed" ELSE "error"
  <2>1. /\ Send(r) /\ rcFailed' = (rcFailed \/ ~ok)
        /\ IF ok THEN /\ rcDisk' = [rcDisk EXCEPT ![k] = "absent"]
                      /\ rcHist' = [rcHist EXCEPT ![k] = @ \cup {"absent"}]
           ELSE UNCHANGED rcDiskVars
    BY <1>4 DEF GcSweep, k
  <2>2. DisksOK' /\ HistInv'
    <3>1. DisksOK /\ HistInv
      BY RepoUnpacked DEF RepoInv
    <3>2. CASE ok
      BY <1>0, <1>1, <2>1, <3>1, <3>2 DEF DisksOK, HistInv, BlockStates
    <3>3. CASE ~ok
      BY <1>0, <2>1, <3>1, <3>3 DEF DisksOK, HistInv, rcDiskVars
    <3> QED BY <3>2, <3>3
  <2>3. /\ Len(rcGc.out) < GcBuffer /\ rcGc' = [rcGc EXCEPT !.out = Append(@, r)] /\ r \in {"removed", "error"}
        /\ ~ok => r = "error"
    BY <2>1 DEF Send
  <2> HIDE DEF r
  <2>4. Append(rcGc.out, r) \in Seq({"removed", "error"}) /\ Len(Append(rcGc.out, r)) = Len(rcGc.out) + 1
        /\ (HasError(rcGc.out) \/ ~ok => HasError(Append(rcGc.out, r)))
    BY <1>0, <2>3, SentResult
  <2>5. rcGc' \in GcStates /\ rcGc'.at = "sweep" /\ rcGc'.out = Append(rcGc.out, r)
    BY <1>0, <2>3, <2>4 DEF GcStates
  <2>6. ChannelOK' /\ (HasError(rcGc.out) \/ ~ok => HasError(rcGc'.out))
    BY <1>0, <2>3, <2>4, <2>5, RepoCommandsAssumption DEF ChannelOK
  <2>7. rcFailed' \in BOOLEAN
    BY <2>1, Zenon
  <2>8. rcFailed' = TRUE => rcFailed = TRUE \/ HasError(rcGc'.out)
    BY <2>1, <2>6, RepoUnpacked DEF WordsOK
  <2> QED BY <1>0, <1>2, <2>2, <2>5, <2>6, <2>7, <2>8, GcProgress
<1> QED BY <1>3, <1>4

\* The command reads results, and answers.
LEMMA TakeResultStep ==
    ASSUME RepoInv, GcWait, TakeResult PROVE RepoInv'
<1>0. /\ UNCHANGED <<rcDiskVars, rcDone, rcCursor, rcMode, rcFailed, rcLimits, rcLeft, rcVerifyVars, rcCount, rcRuns, rcCmd, rcAnswer>>
      /\ rcCmd = "gc" /\ rcGc \in GcStates /\ rcGc.out \in Seq({"removed", "error"}) /\ Len(rcGc.out) <= GcBuffer
      /\ rcGc.out # <<>> /\ rcGc' = [rcGc EXCEPT !.out = Tail(@)]
      /\ rcErrs' = rcErrs + (IF Head(rcGc.out) = "error" THEN 1 ELSE 0)
  BY RepoUnpacked DEF GcWait, TakeResult, ChannelOK, GcStates
<1>1. rcErrs \in Nat
  BY RepoUnpacked DEF CountsOK
<1>2. rcErrs' \in Nat /\ rcErrs' >= rcErrs /\ (Head(rcGc.out) = "error" => rcErrs' > 0)
  BY <1>0, <1>1
<1>3. DisksOK' /\ WordsOK' /\ CountsOK' /\ LimitsOK' /\ HistInv' /\ RcNotOverFull'
  BY <1>0, <1>2, RepoUnpacked DEF DisksOK, WordsOK, CountsOK, LimitsOK, RepoInv, HistInv, RcNotOverFull, rcDiskVars, rcVerifyVars
<1>4. /\ Tail(rcGc.out) \in Seq({"removed", "error"}) /\ Len(Tail(rcGc.out)) = Len(rcGc.out) - 1
      /\ HasError(rcGc.out) => HasError(Tail(rcGc.out)) \/ Head(rcGc.out) = "error"
  BY <1>0, TakenResult
<1>5. rcGc' \in GcStates /\ rcGc'.at = rcGc.at /\ rcGc'.out = Tail(rcGc.out)
  BY <1>0, <1>4 DEF GcStates
<1>6. ChannelOK'
  BY <1>0, <1>4, <1>5, RepoCommandsAssumption DEF ChannelOK
<1>7. VerifyInv' /\ StatInv'
  BY <1>0 DEF VerifyInv, StatInv
<1>8. GcInv'
  <2>1. rcFailed => rcErrs > 0 \/ HasError(rcGc.out)
    BY <1>0 DEF RepoInv, GcInv, ErrorWaits
  <2>2. rcFailed' => rcErrs' > 0 \/ HasError(rcGc'.out)
    BY <1>0, <1>1, <1>2, <1>4, <1>5, <2>1
  <2> QED BY <1>0, <1>5, <2>2 DEF RepoInv, GcInv, ErrorWaits
<1> QED BY <1>3, <1>6, <1>7, <1>8, RepoAssembles

LEMMA GcAnswerStep ==
    ASSUME RepoInv, GcWait, NEW a \in {"ok", "error"}, Answer(a), UNCHANGED <<rcGc, rcErrs>>,
           a = "ok" => rcGc.out = <<>> /\ rcGc.at = "closed" /\ ~(rcErrs > 0)
    PROVE  RepoInv'
<1>0. /\ UNCHANGED <<rcDiskVars, rcDone, rcCursor, rcMode, rcFailed, rcLimits, rcLeft, rcVerifyVars, rcCount, rcRuns>>
      /\ rcCmd = "gc" /\ rcCmd' = "none" /\ rcAnswer' = a
  BY DEF GcWait, Answer
<1>1. DisksOK' /\ WordsOK' /\ CountsOK' /\ ChannelOK' /\ LimitsOK' /\ HistInv' /\ RcNotOverFull'
  BY <1>0, RepoUnpacked DEF DisksOK, WordsOK, CountsOK, ChannelOK, LimitsOK, RepoInv, HistInv, RcNotOverFull, rcDiskVars, rcVerifyVars
<1>2. VerifyInv' /\ StatInv'
  BY <1>0 DEF VerifyInv, StatInv
<1>3. a = "ok" => rcGc.at = "closed" /\ ~rcFailed
  BY <1>0, NoResults DEF RepoInv, GcInv, ErrorWaits
<1>4. GcInv'
  BY <1>0, <1>3 DEF GcInv
<1> QED BY <1>1, <1>2, <1>4, RepoAssembles

LEMMA ResultSteps == ASSUME RepoInv, CollectResult \/ StreamErrors PROVE RepoInv'
<1>1. CASE CollectResult
  <2>1. CASE GcWait /\ TakeResult
    BY <2>1, TakeResultStep
  <2>2. CASE GcWait /\ ResultsClosed /\ Answer(IF rcErrs > 0 THEN "error" ELSE "ok")
    BY <2>2, GcAnswerStep DEF ResultsClosed
  <2>3. CASE GcWait /\ Answer("error") /\ UNCHANGED <<rcGc, rcErrs>>
    BY <2>3, GcAnswerStep
  <2> QED BY <1>1, <2>1, <2>2, <2>3 DEF CollectResult
<1>2. CASE StreamErrors
  <2>1. CASE GcWait /\ TakeResult
    BY <2>1, TakeResultStep
  <2>2. CASE GcWait /\ ResultsClosed /\ Answer(IF rcErrs > 0 THEN "error" ELSE "ok")
    BY <2>2, GcAnswerStep DEF ResultsClosed
  <2>3. CASE GcWait /\ Answer("error") /\ UNCHANGED <<rcGc, rcErrs>>
    BY <2>3, GcAnswerStep
  <2> QED BY <1>2, <2>1, <2>2, <2>3 DEF StreamErrors
<1> QED BY <1>1, <1>2

-----------------------------------------------------------------------------
(* Verification.                                                           *)

LEMMA HoldingFinite == IsFiniteSet(Holding) /\ Cardinality(Holding) \in Nat
BY RepoCommandsAssumption, FS_Subset, FS_CardinalityType DEF Holding

\* What holds while a verification runs.
LEMMA Verifying ==
    ASSUME RepoInv, rcCmd = "verify"
    PROVE  /\ Cardinality(Holding) + rcCount <= rcCursor /\ rcFails <= rcCount
           /\ \A w \in Holding : rcHist[rcWork[w]] # {"absent"} /\ rcHist[rcWork[w]] # {}
           /\ rcFails > 0 => \E k \in Blocks : rcHist[k] \notin {{"good"}, {"absent"}}
           /\ ~rcDone =>
                /\ \A k \in Blocks : rcHist[k] = {"corrupt"} =>
                      k > rcCursor \/ rcFails > 0 \/ \E w \in RcWorkers : rcWork[w] = k
                /\ (\E w \in RcWorkers : rcWork[w] = -1) =>
                      \A k \in Blocks : k > rcCursor => rcHist[k] # {"corrupt"}
           /\ rcCursor \in Nat /\ rcCursor <= RcKeys /\ rcCount \in Nat /\ rcFails \in Nat
           /\ rcWork \in [RcWorkers -> -1..RcKeys] /\ RcKeys \in Nat
           /\ \A k \in Blocks : rcDisk[k] \in rcHist[k]
           /\ rcMode = "none" /\ rcGc.at \in {"none", "closed"}
BY RepoUnpacked, RepoCommandsAssumption DEF RepoInv, VerifyInv, HistInv, GcInv, CountsOK

\* The worker takes the next key, or ends.
LEMMA VerifyTakeStep == ASSUME RepoInv, NEW w \in RcWorkers, VerifyWorkerTake(w) PROVE RepoInv'
<1>0. /\ UNCHANGED <<rcDiskVars, rcCmd, rcDone, rcAnswer, rcGcVars, rcFails, rcCount, rcRuns>>
      /\ rcCmd = "verify" /\ rcWork[w] = 0
  BY DEF VerifyWorkerTake
<1>1. DisksOK' /\ WordsOK' /\ ChannelOK' /\ LimitsOK' /\ HistInv' /\ RcNotOverFull' /\ GcInv' /\ StatInv'
  BY <1>0, RepoUnpacked DEF DisksOK, WordsOK, ChannelOK, LimitsOK, RepoInv, HistInv, RcNotOverFull, GcInv, ErrorWaits,
     StatInv, rcDiskVars, rcGcVars
<1>2. w \notin Holding
  BY <1>0 DEF Holding
<1>3. /\ rcHist' = rcHist /\ rcDone' = rcDone /\ rcFails' = rcFails /\ rcCount' = rcCount /\ rcCmd' = "verify"
  BY <1>0 DEF rcDiskVars
<1>4. CASE NextKey # 0 /\ rcCursor' = NextKey /\ rcWork' = [rcWork EXCEPT ![w] = NextKey]
  <2> DEFINE n == NextKey
  <2>1. /\ n \in Blocks /\ n > rcCursor /\ n # 0 /\ rcDisk[n] # "absent"
        /\ \A k \in Blocks : k > rcCursor /\ k < n => rcDisk[k] = "absent"
    BY <1>4, NextKeyIs DEF RepoInv
  <2> HIDE DEF n
  <2>2. rcCursor' = n /\ rcWork' = [rcWork EXCEPT ![w] = n] /\ n \in Nat /\ n <= RcKeys
    BY <1>4, <2>1, RepoCommandsAssumption DEF n, Blocks
  <2>3. rcWork' \in [RcWorkers -> -1..RcKeys] /\ rcWork'[w] = n /\ \A v \in RcWorkers : v # w => rcWork'[v] = rcWork[v]
    BY <1>0, <2>2, Verifying
  <2>4. CountsOK'
    BY <1>0, <2>2, <2>3, RepoUnpacked, RepoCommandsAssumption DEF CountsOK, rcGcVars
  <2>5. Holding' = Holding \cup {w}
    BY <2>1, <2>2, <2>3 DEF Holding
  <2>6. Cardinality(Holding') = Cardinality(Holding) + 1
    BY <1>2, <2>5, HoldingFinite, FS_AddElement
  <2>7. Cardinality(Holding') + rcCount' <= rcCursor' /\ rcFails' <= rcCount'
    BY <1>0, <1>3, <2>1, <2>2, <2>6, HoldingFinite, Verifying
  <2>8. \A v \in Holding' : rcHist'[rcWork'[v]] # {"absent"} /\ rcHist'[rcWork'[v]] # {}
    <3>1. rcDisk[n] \in rcHist[n]
      BY <1>0, <2>1, Verifying
    <3>2. \A v \in Holding : rcHist[rcWork[v]] # {"absent"} /\ rcHist[rcWork[v]] # {} /\ rcWork'[v] = rcWork[v]
      BY <1>0, <1>2, <2>3, Verifying DEF Holding
    <3> QED BY <1>3, <2>1, <2>3, <2>5, <3>1, <3>2
  <2>9. ASSUME ~rcDone'
        PROVE /\ \A k \in Blocks : rcHist'[k] = {"corrupt"} =>
                    k > rcCursor' \/ rcFails' > 0 \/ \E v \in RcWorkers : rcWork'[v] = k
              /\ (\E v \in RcWorkers : rcWork'[v] = -1) =>
                    \A k \in Blocks : k > rcCursor' => rcHist'[k] # {"corrupt"}
    <3>1. \A k \in Blocks : k > rcCursor /\ k < n => rcHist[k] # {"corrupt"}
      <4>1. \A k \in Blocks : k > rcCursor /\ k < n => "absent" \in rcHist[k]
        BY <1>0, <2>1, Verifying
      <4> QED BY <4>1
    <3>2. ASSUME NEW k \in Blocks, rcHist'[k] = {"corrupt"}
          PROVE  k > rcCursor' \/ rcFails' > 0 \/ \E v \in RcWorkers : rcWork'[v] = k
      <4>0. k \in Nat \ {0} /\ rcHist[k] = {"corrupt"}
        BY <1>3, <3>2 DEF Blocks
      <4>1. CASE k > rcCursor
        <5>1. k > n \/ k = n
          BY <2>1, <2>2, <3>1, <4>0, <4>1
        <5> QED BY <2>2, <2>3, <5>1
      <4>2. CASE ~(k > rcCursor)
        <5>1. rcFails > 0 \/ \E v \in RcWorkers : rcWork[v] = k
          BY <1>0, <1>3, <2>9, <4>0, <4>2, Verifying
        <5>2. \A v \in RcWorkers : rcWork[v] = k => v # w
          BY <1>0, <4>0
        <5> QED BY <1>3, <2>3, <5>1, <5>2
      <4> QED BY <4>1, <4>2
    <3>3. ASSUME NEW v \in RcWorkers, rcWork'[v] = -1, NEW k \in Blocks, k > rcCursor'
          PROVE  rcHist'[k] # {"corrupt"}
      <4>1. v # w /\ rcWork[v] = -1
        BY <2>2, <2>3, <3>3
      <4>2. k > rcCursor
        BY <1>0, <2>1, <2>2, <3>3, Verifying DEF Blocks
      <4> QED BY <1>0, <1>3, <2>9, <4>1, <4>2, Verifying
    <3> QED BY <3>2, <3>3
  <2>10. VerifyInv'
    <3>1. rcFails' > 0 => \E k \in Blocks : rcHist'[k] \notin {{"good"}, {"absent"}}
      BY <1>0, <1>3, Verifying
    <3> QED BY <2>7, <2>8, <2>9, <3>1 DEF VerifyInv
  <2> QED BY <1>1, <2>4, <2>10, RepoAssembles
<1>5. CASE (NextKey = 0 \/ rcDone) /\ rcWork' = [rcWork EXCEPT ![w] = -1] /\ rcCursor' = rcCursor
  <2>1. -1 \in -1..RcKeys
    BY RepoCommandsAssumption
  <2>2. rcWork' \in [RcWorkers -> -1..RcKeys] /\ rcWork'[w] = -1 /\ \A v \in RcWorkers : v # w => rcWork'[v] = rcWork[v]
    BY <1>0, <1>5, <2>1, Verifying
  <2>3. CountsOK'
    BY <1>0, <1>5, <2>2, RepoUnpacked DEF CountsOK, rcGcVars
  <2>4. Holding' = Holding
    BY <1>2, <2>2 DEF Holding
  <2>5. \A v \in Holding : rcWork'[v] = rcWork[v]
    BY <1>2, <2>2 DEF Holding
  <2>6. \A v \in Holding' : rcHist'[rcWork'[v]] # {"absent"} /\ rcHist'[rcWork'[v]] # {}
    BY <1>0, <1>3, <2>4, <2>5, Verifying
  <2>7. Cardinality(Holding)' + rcCount' <= rcCursor' /\ rcFails' <= rcCount'
    BY <1>0, <1>3, <1>5, <2>4, Verifying
  <2>8. ASSUME ~rcDone'
        PROVE /\ \A k \in Blocks : rcHist'[k] = {"corrupt"} =>
                    k > rcCursor' \/ rcFails' > 0 \/ \E v \in RcWorkers : rcWork'[v] = k
              /\ (\E v \in RcWorkers : rcWork'[v] = -1) =>
                    \A k \in Blocks : k > rcCursor' => rcHist'[k] # {"corrupt"}
    <3>1. \A k \in Blocks : k > rcCursor => rcDisk[k] = "absent"
      BY <1>3, <1>5, <2>8, NextKeyIs DEF RepoInv
    <3>2. \A k \in Blocks : k > rcCursor' => "absent" \in rcHist'[k]
      BY <1>0, <1>3, <1>5, <3>1, Verifying
    <3>3. \A k \in Blocks : k > rcCursor' => rcHist'[k] # {"corrupt"}
      BY <3>2
    <3>4. \A k \in Blocks : \A v \in RcWorkers : rcWork[v] = k => rcWork'[v] = k
      BY <1>0, <2>2 DEF Blocks
    <3>5. \A k \in Blocks : rcHist'[k] = {"corrupt"} =>
                    k > rcCursor' \/ rcFails' > 0 \/ \E v \in RcWorkers : rcWork'[v] = k
      BY <1>0, <1>3, <1>5, <2>8, <3>4, Verifying
    <3> QED BY <3>3, <3>5
  <2>9. VerifyInv'
    <3>1. rcFails' > 0 => \E k \in Blocks : rcHist'[k] \notin {{"good"}, {"absent"}}
      BY <1>0, <1>3, Verifying
    <3> QED BY <2>6, <2>7, <2>8, <3>1 DEF VerifyInv
  <2> QED BY <1>1, <2>3, <2>9, RepoAssembles
<1> QED BY <1>4, <1>5 DEF VerifyWorkerTake

\* The worker reads its block and hands over the result, or gives up.
LEMMA VerifyRunStep == ASSUME RepoInv, NEW w \in RcWorkers, VerifyWorkerRun(w) PROVE RepoInv'
<1> DEFINE k == rcWork[w]
<1>0. /\ UNCHANGED <<rcDiskVars, rcCmd, rcDone, rcAnswer, rcCursor, rcGcVars, rcRuns>>
      /\ rcCmd = "verify" /\ k > 0
  BY DEF VerifyWorkerRun
<1>1. DisksOK' /\ WordsOK' /\ ChannelOK' /\ LimitsOK' /\ HistInv' /\ RcNotOverFull' /\ GcInv' /\ StatInv'
  BY <1>0, RepoUnpacked DEF DisksOK, WordsOK, ChannelOK, LimitsOK, RepoInv, HistInv, RcNotOverFull, GcInv, ErrorWaits,
     StatInv, rcDiskVars, rcGcVars
<1>2. w \in Holding /\ k \in Blocks /\ k \in Nat
  BY <1>0, Verifying DEF Holding, Blocks
<1>3. rcHist' = rcHist /\ rcDone' = rcDone /\ rcCursor' = rcCursor /\ rcCmd' = "verify"
  BY <1>0 DEF rcDiskVars
<1>4. Cardinality(Holding \ {w}) = Cardinality(Holding) - 1
  BY <1>2, HoldingFinite, FS_RemoveElement
<1>5. rcHist[k] # {"absent"} /\ rcHist[k] # {} /\ rcDisk[k] \in rcHist[k]
  BY <1>0, <1>2, Verifying
<1> HIDE DEF k
<1>6. CASE /\ rcWork' = [rcWork EXCEPT ![w] = 0]
           /\ rcFails' = rcFails + (IF rcDisk[k] = "good" THEN 0 ELSE 1)
           /\ rcCount' = rcCount + 1
  <2>1. rcWork' \in [RcWorkers -> -1..RcKeys] /\ rcWork'[w] = 0 /\ \A v \in RcWorkers : v # w => rcWork'[v] = rcWork[v]
    BY <1>0, <1>6, Verifying
  <2>2. Holding' = Holding \ {w}
    BY <2>1 DEF Holding
  <2>3. /\ rcFails' \in Nat /\ rcFails' >= rcFails /\ (rcDisk[k] # "good" => rcFails' > 0)
        /\ rcFails' <= rcFails + 1 /\ rcCount' \in Nat /\ (rcDisk[k] = "good" => rcFails' = rcFails)
    BY <1>0, <1>6, Verifying
  <2>4. Cardinality(Holding') + rcCount' <= rcCursor' /\ rcFails' <= rcCount' /\ rcCount' <= RcKeys /\ rcFails' <= RcKeys
    <3>1. Cardinality(Holding') + rcCount' = Cardinality(Holding) + rcCount
      BY <1>0, <1>4, <1>6, <2>2, HoldingFinite, Verifying
    <3>2. Cardinality(Holding') \in Nat
      BY <1>4, <2>2, <1>2, HoldingFinite, FS_Subset, FS_CardinalityType
    <3> QED BY <1>0, <1>3, <1>6, <2>3, <3>1, <3>2, Verifying
  <2>5. CountsOK'
    <3>1. rcCursor' \in 0..RcKeys /\ rcErrs' \in Nat /\ rcRuns' \in 0..MaxRepo
      BY <1>0, RepoUnpacked DEF CountsOK, rcGcVars
    <3> QED BY <2>1, <2>3, <2>4, <3>1, RepoCommandsAssumption DEF CountsOK
  <2>6. \A v \in Holding' : rcHist'[rcWork'[v]] # {"absent"} /\ rcHist'[rcWork'[v]] # {}
    <3>1. \A v \in Holding' : v \in Holding /\ rcWork'[v] = rcWork[v]
      BY <2>1, <2>2 DEF Holding
    <3> QED BY <1>0, <1>3, <3>1, Verifying
  <2>7. rcFails' > 0 => \E b \in Blocks : rcHist'[b] \notin {{"good"}, {"absent"}}
    <3>1. CASE rcDisk[k] = "good"
      BY <1>0, <1>3, <2>3, <3>1, Verifying
    <3>2. CASE rcDisk[k] # "good"
      <4>1. rcHist[k] # {"good"}
        BY <1>5, <3>2
      <4> QED BY <1>2, <1>3, <1>5, <4>1
    <3> QED BY <3>1, <3>2
  <2>8. ASSUME ~rcDone'
        PROVE /\ \A b \in Blocks : rcHist'[b] = {"corrupt"} =>
                    b > rcCursor' \/ rcFails' > 0 \/ \E v \in RcWorkers : rcWork'[v] = b
              /\ (\E v \in RcWorkers : rcWork'[v] = -1) =>
                    \A b \in Blocks : b > rcCursor' => rcHist'[b] # {"corrupt"}
    <3>1. ASSUME NEW b \in Blocks, rcHist'[b] = {"corrupt"}
          PROVE  b > rcCursor' \/ rcFails' > 0 \/ \E v \in RcWorkers : rcWork'[v] = b
      <4>1. CASE b = k
        <5>1. rcDisk[k] # "good"
          BY <1>3, <1>5, <3>1, <4>1
        <5> QED BY <2>3, <5>1
      <4>2. CASE b # k
        <5>1. b > rcCursor \/ rcFails > 0 \/ \E v \in RcWorkers : rcWork[v] = b
          BY <1>0, <1>3, <2>8, <3>1, Verifying
        <5>2. rcFails > 0 => rcFails' > 0
          BY <1>0, <2>3, Verifying
        <5>3. \A v \in RcWorkers : rcWork[v] = b => rcWork'[v] = b
          BY <2>1, <4>2 DEF k
        <5> QED BY <1>3, <5>1, <5>2, <5>3
      <4> QED BY <4>1, <4>2
    <3>2. \A v \in RcWorkers : rcWork'[v] = -1 => rcWork[v] = -1
      BY <2>1
    <3> QED BY <1>0, <1>3, <2>8, <3>1, <3>2, Verifying
  <2>9. VerifyInv'
    BY <2>4, <2>6, <2>7, <2>8 DEF VerifyInv
  <2> QED BY <1>1, <2>5, <2>9, RepoAssembles
<1>7. CASE rcDone /\ rcWork' = [rcWork EXCEPT ![w] = -1] /\ rcFails' = rcFails /\ rcCount' = rcCount
  <2>0. -1 \in -1..RcKeys
    BY RepoCommandsAssumption
  <2>1. rcWork' \in [RcWorkers -> -1..RcKeys] /\ rcWork'[w] = -1 /\ \A v \in RcWorkers : v # w => rcWork'[v] = rcWork[v]
    BY <1>0, <1>7, <2>0, Verifying
  <2>2. Holding' = Holding \ {w}
    BY <2>1 DEF Holding
  <2>3. Cardinality(Holding') + rcCount' <= rcCursor' /\ rcFails' <= rcCount'
    BY <1>0, <1>3, <1>4, <1>7, <2>2, HoldingFinite, Verifying
  <2>4. CountsOK'
    BY <1>0, <1>7, <2>1, RepoUnpacked DEF CountsOK, rcGcVars
  <2>5. \A v \in Holding' : rcHist'[rcWork'[v]] # {"absent"} /\ rcHist'[rcWork'[v]] # {}
    <3>1. \A v \in Holding' : v \in Holding /\ rcWork'[v] = rcWork[v]
      BY <2>1, <2>2 DEF Holding
    <3> QED BY <1>0, <1>3, <3>1, Verifying
  <2>6. rcFails' > 0 => \E b \in Blocks : rcHist'[b] \notin {{"good"}, {"absent"}}
    BY <1>0, <1>3, <1>7, Verifying
  <2>7. VerifyInv'
    BY <1>3, <1>7, <2>3, <2>5, <2>6 DEF VerifyInv
  <2> QED BY <1>1, <2>4, <2>7, RepoAssembles
<1> QED BY <1>6, <1>7 DEF VerifyWorkerRun, k

\* The answer of repo verify.
LEMMA RepoVerifyStep == ASSUME RepoInv, RepoVerify PROVE RepoInv'
<1> DEFINE a == IF rcDone THEN "error" ELSE IF rcFails # 0 THEN "corrupt" ELSE "ok"
<1>0. /\ UNCHANGED <<rcDiskVars, rcDone, rcCursor, rcGcVars, rcVerifyVars, rcCount, rcRuns>>
      /\ rcCmd = "verify" /\ rcCmd' = "none" /\ rcAnswer' = a
  BY DEF RepoVerify, Answer
<1>a. a \in {"error", "corrupt", "ok"}
  OBVIOUS
<1> HIDE DEF a
<1>1. DisksOK' /\ WordsOK' /\ CountsOK' /\ ChannelOK' /\ LimitsOK' /\ HistInv' /\ RcNotOverFull'
  BY <1>0, <1>a, RepoUnpacked DEF DisksOK, WordsOK, CountsOK, ChannelOK, LimitsOK, RepoInv, HistInv, RcNotOverFull,
     rcDiskVars, rcVerifyVars, rcGcVars
<1>2. VerifyInv' /\ StatInv'
  BY <1>0 DEF VerifyInv, StatInv
<1>3. GcInv'
  BY <1>0, Verifying DEF GcInv, rcGcVars
<1> QED BY <1>1, <1>2, <1>3, RepoAssembles

-----------------------------------------------------------------------------
(* The count.                                                              *)

LEMMA Counting ==
    ASSUME RepoInv, rcCmd = "stat"
    PROVE  /\ rcCount <= rcCursor
           /\ Cardinality(AlwaysThere) <= rcCount /\ rcCount <= Cardinality(SometimeThere)
           /\ rcCursor \in Nat /\ rcCursor <= RcKeys /\ rcCount \in Nat /\ RcKeys \in Nat
           /\ \A k \in Blocks : rcDisk[k] \in rcHist[k]
           /\ rcMode = "none" /\ rcGc.at \in {"none", "closed"}
BY RepoUnpacked, RepoCommandsAssumption DEF RepoInv, StatInv, HistInv, GcInv, CountsOK

LEMMA RepoStatStep == ASSUME RepoInv, RepoStat PROVE RepoInv'
<1>0. UNCHANGED <<rcDiskVars, rcDone, rcGcVars, rcVerifyVars, rcRuns>> /\ rcCmd = "stat"
  BY DEF RepoStat
<1>1. CASE NextKey # 0 /\ rcCursor' = NextKey /\ rcCount' = rcCount + 1 /\ UNCHANGED <<rcCmd, rcAnswer>>
  <2> DEFINE n == NextKey
  <2>1. /\ n \in Blocks /\ n > rcCursor /\ n # 0 /\ rcDisk[n] # "absent"
        /\ \A k \in Blocks : k > rcCursor /\ k < n => rcDisk[k] = "absent"
    BY <1>1, NextKeyIs DEF RepoInv
  <2>a. n \in Nat /\ n <= RcKeys
    BY <2>1, RepoCommandsAssumption DEF Blocks
  <2> HIDE DEF n
  <2>2. rcCursor' = n /\ rcCount' = rcCount + 1 /\ rcHist' = rcHist
    BY <1>0, <1>1 DEF n, rcDiskVars
  <2>3. \A k \in Blocks : k \in Nat
    BY DEF Blocks
  <2>4. AlwaysThere' \subseteq AlwaysThere \cup {n}
    <3>1. \A k \in Blocks : k > rcCursor /\ k < n => "absent" \in rcHist[k]
      BY <1>0, <2>1, Counting
    <3>2. \A k \in Blocks : k <= n => k <= rcCursor \/ (k > rcCursor /\ k < n) \/ k = n
      BY <1>0, <2>1, <2>a, <2>3, Counting
    <3> QED BY <2>2, <3>1, <3>2 DEF AlwaysThere
  <2>5. SometimeThere \cup {n} \subseteq SometimeThere' /\ n \notin SometimeThere /\ n \notin AlwaysThere
    <3>1. rcHist[n] # {"absent"}
      BY <1>0, <2>1, Counting
    <3>2. \A k \in Blocks : k <= rcCursor => k <= n
      BY <1>0, <2>1, <2>a, <2>3, Counting
    <3>3. ~(n <= rcCursor)
      BY <1>0, <2>1, <2>a, Counting
    <3> QED BY <2>1, <2>a, <2>2, <3>1, <3>2, <3>3 DEF SometimeThere, AlwaysThere
  <2>6. /\ Cardinality(AlwaysThere \cup {n}) = Cardinality(AlwaysThere) + 1 /\ IsFiniteSet(AlwaysThere \cup {n})
        /\ Cardinality(SometimeThere \cup {n}) = Cardinality(SometimeThere) + 1
    BY <2>5, ThereFinite, FS_AddElement
  <2>7. /\ IsFiniteSet(SometimeThere') /\ Cardinality(SometimeThere') \in Nat /\ Cardinality(AlwaysThere') \in Nat
    <3>1. SometimeThere' \subseteq Blocks /\ AlwaysThere' \subseteq Blocks
      BY DEF AlwaysThere, SometimeThere
    <3> QED BY <3>1, ThereFinite, FS_Subset, FS_CardinalityType
  <2>8. /\ Cardinality(AlwaysThere') <= Cardinality(AlwaysThere) + 1
        /\ Cardinality(SometimeThere) + 1 <= Cardinality(SometimeThere')
    BY <2>4, <2>5, <2>6, <2>7, FS_Subset
  <2>9. rcCount' <= rcCursor' /\ Cardinality(AlwaysThere') <= rcCount' /\ rcCount' <= Cardinality(SometimeThere')
        /\ rcCount' \in 0..RcKeys /\ rcCursor' \in 0..RcKeys
    BY <1>0, <2>1, <2>a, <2>2, <2>7, <2>8, ThereFinite, Counting
  <2>10. VerifyInv' /\ StatInv'
    BY <1>0, <1>1, <2>9 DEF VerifyInv, StatInv
  <2>11. CountsOK'
    BY <1>0, <2>9, RepoUnpacked DEF CountsOK, rcVerifyVars, rcGcVars
  <2>12. DisksOK' /\ WordsOK' /\ ChannelOK' /\ LimitsOK' /\ HistInv' /\ RcNotOverFull' /\ GcInv'
    BY <1>0, <1>1, RepoUnpacked DEF DisksOK, WordsOK, ChannelOK, LimitsOK, RepoInv, HistInv, RcNotOverFull, GcInv, ErrorWaits,
       rcDiskVars, rcGcVars
  <2> QED BY <2>10, <2>11, <2>12, RepoAssembles
<1>2. CASE Answer("ok") /\ UNCHANGED <<rcCursor, rcCount>>
  <2>1. rcCmd' = "none" /\ rcAnswer' = "ok"
    BY <1>2 DEF Answer
  <2>2. DisksOK' /\ WordsOK' /\ CountsOK' /\ ChannelOK' /\ LimitsOK' /\ HistInv' /\ RcNotOverFull'
    BY <1>0, <1>2, <2>1, RepoUnpacked DEF DisksOK, WordsOK, CountsOK, ChannelOK, LimitsOK, RepoInv, HistInv, RcNotOverFull,
       rcDiskVars, rcVerifyVars, rcGcVars
  <2>3. VerifyInv' /\ StatInv'
    BY <2>1 DEF VerifyInv, StatInv
  <2>4. GcInv'
    BY <1>0, <2>1, Counting DEF GcInv, rcGcVars
  <2> QED BY <2>2, <2>3, <2>4, RepoAssembles
<1> QED BY <1>1, <1>2 DEF RepoStat

LEMMA RepoInvStep == RepoInv /\ [RcNext]_rcVars => RepoInv'
<1> SUFFICES ASSUME RepoInv, [RcNext]_rcVars PROVE RepoInv'
  OBVIOUS
<1>1. CASE \E k \in Blocks, s \in BlockStates : DiskBecomes(k, s)
  BY <1>1, DiskBecomesStep
<1>2. CASE RcCancel \/ (\E m \in StorageMaxes, w \in Watermarks : NewGC(m, w)) \/ MaybeGC
  BY <1>2, CancelStep, NewGCStep, MaybeGCStep
<1>3. CASE (\E stream \in BOOLEAN, ok \in BOOLEAN : RepoGcCmd(stream, ok)) \/ VerifyResultChan \/ RepoStatCmd
  BY <1>3, BeginSteps
<1>4. CASE (\E ok \in BOOLEAN : GcMark(ok) \/ GcSweep(ok) \/ GcClose(ok)) \/ GcSummary \/ CollectResult \/ StreamErrors
  BY <1>4, GcMarkStep, GcSweepStep, GcCloseStep, GcSummaryStep, ResultSteps
<1>5. CASE (\E w \in RcWorkers : VerifyWorkerTake(w) \/ VerifyWorkerRun(w)) \/ RepoVerify \/ RepoStat
  BY <1>5, VerifyTakeStep, VerifyRunStep, RepoVerifyStep, RepoStatStep
<1>6. CASE UNCHANGED rcVars
  <2> USE <1>6 DEF rcVars, rcDiskVars, rcGcVars, rcVerifyVars
  <2>1. DisksOK' /\ WordsOK' /\ CountsOK' /\ ChannelOK' /\ LimitsOK' /\ HistInv' /\ RcNotOverFull'
    BY RepoUnpacked DEF DisksOK, WordsOK, CountsOK, ChannelOK, LimitsOK, RepoInv, HistInv, RcNotOverFull
  <2>2. VerifyInv' /\ StatInv' /\ GcInv'
    BY DEF RepoInv, VerifyInv, StatInv, GcInv, ErrorWaits, Holding, AlwaysThere, SometimeThere
  <2> QED BY <2>1, <2>2, RepoAssembles
<1> QED BY <1>1, <1>2, <1>3, <1>4, <1>5, <1>6 DEF RcNext

LEMMA RepoInvSound == RepoInv => RcSound
BY DEF RepoInv, RcSound, RcGcHonest, GcInv

\* Only their own last steps end a verification and a count.
LEMMA WhoEnds ==
    ASSUME RcNext
    PROVE  /\ rcCmd = "verify" /\ rcCmd' = "none" => RepoVerify
           /\ rcCmd = "stat" /\ rcCmd' = "none" => RepoStat
<1> SUFFICES ASSUME rcCmd \in {"verify", "stat"}, rcCmd' = "none", ~RepoVerify, ~RepoStat PROVE FALSE
  BY DEF RepoVerify, RepoStat
<1> USE DEF Run
<1>1. CASE \E k \in Blocks, s \in BlockStates : DiskBecomes(k, s)
  BY <1>1 DEF DiskBecomes
<1>2. CASE RcCancel \/ (\E m \in StorageMaxes, w \in Watermarks : NewGC(m, w)) \/ MaybeGC
  BY <1>2 DEF RcCancel, NewGC, MaybeGC
<1>3. CASE (\E stream \in BOOLEAN, ok \in BOOLEAN : RepoGcCmd(stream, ok)) \/ VerifyResultChan \/ RepoStatCmd
  BY <1>3 DEF RepoGcCmd, GarbageCollectAsync, VerifyResultChan, RepoStatCmd
<1>4. CASE (\E ok \in BOOLEAN : GcMark(ok) \/ GcSweep(ok) \/ GcClose(ok)) \/ GcSummary \/ CollectResult \/ StreamErrors
  BY <1>4 DEF GcMark, GcSweep, GcClose, GcSummary, CollectResult, StreamErrors, GcWait
<1>5. CASE \E w \in RcWorkers : VerifyWorkerTake(w) \/ VerifyWorkerRun(w)
  BY <1>5 DEF VerifyWorkerTake, VerifyWorkerRun
<1> QED BY <1>1, <1>2, <1>3, <1>4, <1>5 DEF RcNext

LEMMA VerifyHonestStep == RepoInv /\ RcNext => RcVerifyHonest
<1> SUFFICES ASSUME RepoInv, RcNext, rcCmd = "verify", rcCmd' = "none"
             PROVE  /\ rcAnswer' = "ok" => \A k \in Blocks : rcHist[k] # {"corrupt"}
                    /\ rcAnswer' = "corrupt" => \E k \in Blocks : rcHist[k] \notin {{"good"}, {"absent"}}
  BY DEF RcVerifyHonest
<1>1. /\ \A w \in RcWorkers : rcWork[w] = -1
      /\ rcAnswer' = IF rcDone THEN "error" ELSE IF rcFails # 0 THEN "corrupt" ELSE "ok"
  BY WhoEnds DEF RepoVerify, Answer
<1>2. rcFails \in Nat
  BY Verifying
<1>3. ASSUME rcAnswer' = "ok", NEW k \in Blocks PROVE rcHist[k] # {"corrupt"}
  <2>1. ~rcDone /\ ~(rcFails > 0)
    BY <1>1, <1>2, <1>3
  <2>2. PICK w \in RcWorkers : rcWork[w] = -1
    BY <1>1, RepoCommandsAssumption
  <2>3. k > rcCursor => rcHist[k] # {"corrupt"}
    BY <2>1, <2>2, Verifying
  <2>4. \A v \in RcWorkers : rcWork[v] # k
    BY <1>1 DEF Blocks
  <2> QED BY <2>1, <2>3, <2>4, Verifying
<1>4. rcAnswer' = "corrupt" => rcFails > 0
  BY <1>1, <1>2
<1> QED BY <1>3, <1>4, Verifying

LEMMA StatBoundsStep == RepoInv /\ RcNext => RcStatBounds
<1> SUFFICES ASSUME RepoInv, RcNext, rcCmd = "stat", rcCmd' = "none", ~rcDone
             PROVE  /\ rcCount >= Cardinality({k \in Blocks : "absent" \notin rcHist[k]})
                    /\ rcCount <= Cardinality({k \in Blocks : rcHist[k] # {"absent"}})
  BY DEF RcStatBounds
<1>1. NextKey = 0
  BY WhoEnds DEF RepoStat, Answer
<1>2. \A k \in Blocks : k > rcCursor => "absent" \in rcHist[k]
  <2>1. \A k \in Blocks : k > rcCursor => rcDisk[k] = "absent"
    BY <1>1, NextKeyIs DEF RepoInv
  <2> QED BY <2>1, Counting
<1>3. \A k \in Blocks : k <= rcCursor \/ k > rcCursor
  BY Counting DEF Blocks
<1>4. {k \in Blocks : "absent" \notin rcHist[k]} = AlwaysThere
  BY <1>2, <1>3 DEF AlwaysThere
<1>5. SometimeThere \subseteq {k \in Blocks : rcHist[k] # {"absent"}}
  BY DEF SometimeThere
<1> DEFINE some == {k \in Blocks : rcHist[k] # {"absent"}}
<1>6. IsFiniteSet(some) /\ Cardinality(some) \in Nat
  BY ThereFinite, FS_Subset, FS_CardinalityType
<1> HIDE DEF some
<1>7. Cardinality(SometimeThere) <= Cardinality(some)
  BY <1>5, <1>6, FS_Subset DEF some
<1>8. rcCount <= Cardinality(some)
  BY <1>6, <1>7, ThereFinite, Counting
<1>9. rcCount >= Cardinality(AlwaysThere)
  BY ThereFinite, Counting
<1> QED BY <1>4, <1>8, <1>9 DEF some

\* A collection that answers without an error did all it had to; and the periodic
\* collector lets no period pass with more than StorageMax stored if the watermark
\* is a percentage, or than any other integer makes of StorageMax, although the
\* product that NewGC computes may overflow; for every size of the channel, of the
\* datastore and of the limits (CollectResult, maybeGC, NewGC).
THEOREM RepoCommandsSound == RcInit /\ [][RcNext]_rcVars => []RcSound
BY RepoInvInit, RepoInvStep, RepoInvSound, PTL

\* The answers of repo verify and repo stat are about the blocks there were,
\* however many workers share the keys and whatever others do to the blocks
\* meanwhile (verifyResultChan, RepoStat).
THEOREM RepoCommandsReport == RcInit /\ [][RcNext]_rcVars => RcReports
<1>1. RepoInv /\ [RcNext]_rcVars => [RcVerifyHonest /\ RcStatBounds]_rcVars
  BY VerifyHonestStep, StatBoundsStep
<1> QED BY <1>1, RepoInvInit, RepoInvStep, PTL DEF RcReports

-----------------------------------------------------------------------------
(* RemotePins.                                                             *)

RrNotedJob(j, pins) ==
    IF j.at # "list" THEN j
    ELSE [j EXCEPT !.kept = @ \cap Matching(j, pins), !.ever = @ \cup Matching(j, pins)]

AtMostOne(S) == \A x, y \in S : x = y
Found(j) == {j.list[n] : n \in 1..Len(j.list)}

\* Where a command is, what it did so far, and what it may rely on: what matched
\* all along is found or still to come while it lists, and is at most one pin
\* when it goes on to delete without --force.
CmdOK(j, pins, made, pinned) ==
    /\ j.id \in 0..made /\ j.gone \subseteq 1..made /\ j.kept \subseteq j.ever
    /\ j.at = "post" => j.op = "add" /\ j.name \in RrNames
    /\ j.at = "poll" => j.op = "add" /\ j.id # 0
    /\ j.at = "list" =>
        /\ j.op \in {"ls", "rm"} /\ j.gone = {}
        /\ j.kept \subseteq Matching(j, pins) /\ Matching(j, pins) \subseteq j.ever
        /\ j.id # 0 => \A i \in j.kept : i >= j.id => i \in Found(j)
    /\ j.at = "delete" =>
        /\ j.op = "rm"
        /\ ~j.flag => Len(j.list) <= 1 /\ (j.list # <<>> => j.gone = {}) /\ AtMostOne(j.kept)
    /\ j.at = "stat" => j.op = "stat"
    /\ j.at \in {"post", "poll", "stat"} => j.gone = {}
    /\ j.at \in {"list", "delete"} => Found(j) \subseteq j.ever /\ Found(j) \subseteq 1..made
    /\ j.gone \subseteq j.ever
    /\ ~j.flag /\ j.gone # {} => AtMostOne(j.gone) /\ AtMostOne(j.kept)
    /\ j.at = "end" /\ j.op = "add" /\ j.ok /\ ~j.flag => j.id \in pinned
    /\ j.at = "end" /\ j.op = "stat" /\ j.ok => j.counts = Statuses

\* The requests of the service.
RequestsOK(pins) == pins \in [RrIds -> {NoPin} \cup [name : RrNames, status : Statuses]]
Requested(pins, made) == \A i \in RrIds : pins[i] # NoPin => i <= made
PinnedNoted(pins, pinned) == \A i \in RrIds : pins[i].status = "pinned" => i \in pinned
ServiceOK(pins, made, pinned) ==
    /\ made \in 2..MaxRequests /\ pinned \subseteq 1..made
    /\ RequestsOK(pins) /\ Requested(pins, made) /\ PinnedNoted(pins, pinned)

RemotePinsInv ==
    /\ rrConf \in {"absent", "url"} /\ rrRuns \in 0..MaxRemote /\ rrFaults \in 0..MaxRrFaults
    /\ ServiceOK(rrPins, rrMade, rrPinned)
    /\ rrJob \in [RrClients -> RemoteCmd]
    /\ \A c \in RrClients : CmdOK(rrJob[c], rrPins, rrMade, rrPinned)

LEMMA RrIdleIs ==
    RrIdle \in RemoteCmd /\ RrIdle.at = "end" /\ RrIdle.op = "none" /\ RrIdle.id = 0 /\ RrIdle.list = <<>>
        /\ RrIdle.gone = {} /\ RrIdle.kept = {} /\ RrIdle.ever = {}
BY DEF RrIdle, RemoteCmd

\* What matches a query depends on the query only.
LEMMA MatchingSame ==
    ASSUME NEW i, NEW j, NEW pins, i.status = j.status, i.name = j.name
    PROVE  Matching(i, pins) = Matching(j, pins)
BY DEF Matching, Matches

\* The world goes on: more requests, more of them pinned.
LEMMA CmdOKLater ==
    ASSUME NEW j, NEW pins, NEW made \in Nat, NEW pinned, NEW made2 \in Nat, NEW pinned2,
           made <= made2, pinned \subseteq pinned2, CmdOK(j, pins, made, pinned)
    PROVE  CmdOK(j, pins, made2, pinned2)
<1>1. 1..made \subseteq 1..made2 /\ 0..made \subseteq 0..made2
  OBVIOUS
<1> QED BY <1>1 DEF CmdOK

\* The pins change: every listing notes what matches it now.
LEMMA NotedKeeps ==
    ASSUME NEW j \in RemoteCmd, NEW pins, NEW made, NEW pinned, NEW pins2, CmdOK(j, pins, made, pinned)
    PROVE  RrNotedJob(j, pins2) \in RemoteCmd /\ CmdOK(RrNotedJob(j, pins2), pins2, made, pinned)
<1>1. CASE j.at # "list"
  <2>1. RrNotedJob(j, pins2) = j
    BY <1>1 DEF RrNotedJob
  <2>2. CmdOK(j, pins2, made, pinned)
    BY <1>1 DEF CmdOK
  <2> QED BY <2>1, <2>2
<1>2. CASE j.at = "list"
  <2> DEFINE M == Matching(j, pins2)
             n == RrNotedJob(j, pins2)
  <2>1. M \subseteq RrIds
    BY DEF Matching
  <2> HIDE DEF M
  <2>2. n = [j EXCEPT !.kept = @ \cap M, !.ever = @ \cup M]
    BY <1>2 DEF RrNotedJob, M
  <2> HIDE DEF n
  <2>3. /\ n \in RemoteCmd
        /\ n.op = j.op /\ n.at = j.at /\ n.name = j.name /\ n.status = j.status /\ n.flag = j.flag /\ n.id = j.id
        /\ n.list = j.list /\ n.gone = j.gone /\ n.kept = j.kept \cap M /\ n.ever = j.ever \cup M
        /\ n.counts = j.counts /\ n.ok = j.ok
    BY <2>1, <2>2 DEF RemoteCmd
  <2>4. Matching(n, pins2) = M
    BY <2>3, MatchingSame DEF M
  <2>5. Found(n) = Found(j)
    BY <2>3 DEF Found
  <2>6. n.kept \subseteq j.kept /\ n.kept \subseteq M /\ j.ever \subseteq n.ever /\ M \subseteq n.ever
    BY <2>3
  <2> HIDE DEF M
  <2>7. CmdOK(n, pins2, made, pinned)
    BY <1>2, <2>3, <2>4, <2>5, <2>6 DEF CmdOK
  <2> QED BY <2>3, <2>7 DEF n
<1> QED BY <1>1, <1>2

\* A step of one command, and one of the service.
LEMMA OwnCmdStep ==
    ASSUME RemotePinsInv, NEW c \in RrClients, NEW j, j \in RemoteCmd, CmdOK(j, rrPins, rrMade, rrPinned),
           rrJob' = [rrJob EXCEPT ![c] = j], UNCHANGED <<rrPins, rrMade, rrPinned>>,
           rrConf' \in {"absent", "url"}, rrRuns' \in 0..MaxRemote, rrFaults' \in 0..MaxRrFaults
    PROVE  RemotePinsInv'
<1>1. rrJob \in [RrClients -> RemoteCmd] /\ ServiceOK(rrPins, rrMade, rrPinned)
      /\ \A d \in RrClients : CmdOK(rrJob[d], rrPins, rrMade, rrPinned)
  BY DEF RemotePinsInv
<1>2. rrJob' \in [RrClients -> RemoteCmd] /\ \A d \in RrClients : rrJob'[d] = IF d = c THEN j ELSE rrJob[d]
  BY <1>1
<1>3. \A d \in RrClients : CmdOK(rrJob'[d], rrPins', rrMade', rrPinned')
  BY <1>1, <1>2
<1> QED BY <1>1, <1>2, <1>3 DEF RemotePinsInv

LEMMA ServiceCmdStep ==
    ASSUME RemotePinsInv, NEW jobs \in [RrClients -> RemoteCmd],
           \A d \in RrClients : CmdOK(jobs[d], rrPins, rrMade', rrPinned'),
           rrJob' = RrNoted(jobs, rrPins'), ServiceOK(rrPins', rrMade', rrPinned'),
           rrConf' = rrConf, rrRuns' = rrRuns, rrFaults' \in 0..MaxRrFaults
    PROVE  RemotePinsInv'
<1>1. rrJob' = [d \in RrClients |-> RrNotedJob(jobs[d], rrPins')]
  BY DEF RrNoted, RrNotedJob
<1>2. \A d \in RrClients : rrJob'[d] \in RemoteCmd /\ CmdOK(rrJob'[d], rrPins', rrMade', rrPinned')
  BY <1>1, NotedKeeps
<1>3. rrJob' \in [RrClients -> RemoteCmd]
  BY <1>1, <1>2
<1> QED BY <1>2, <1>3 DEF RemotePinsInv

LEMMA RemotePinsInit == RrInit => RemotePinsInv
<1> SUFFICES ASSUME RrInit PROVE RemotePinsInv
  OBVIOUS
<1>1. rrConf = "url" /\ rrRuns \in 0..MaxRemote /\ rrFaults \in 0..MaxRrFaults
  BY RemotePinsAssumption DEF RrInit
<1>2. rrJob \in [RrClients -> RemoteCmd] /\ \A c \in RrClients : rrJob[c] = RrIdle
  BY RrIdleIs DEF RrInit
<1>3. CmdOK(RrIdle, rrPins, rrMade, rrPinned)
  BY RrIdleIs DEF CmdOK, RrInit
<1>4. ServiceOK(rrPins, rrMade, rrPinned)
  <2>1. PICK n \in RrNames : rrPins = [i \in RrIds |->
            IF i <= 2 THEN [name |-> n, status |-> IF i = 1 THEN "pinned" ELSE "pinning"] ELSE NoPin]
    BY DEF RrInit
  <2>2. rrMade = 2 /\ rrPinned = {1} /\ rrMade \in 2..MaxRequests
    BY RemotePinsAssumption DEF RrInit
  <2>3. \A i \in RrIds : i \in Nat \ {0}
    BY DEF RrIds
  <2>4. ASSUME NEW i \in RrIds
        PROVE  /\ rrPins[i] \in {NoPin} \cup [name : RrNames, status : Statuses]
               /\ rrPins[i] # NoPin => i <= rrMade
               /\ rrPins[i].status = "pinned" => i \in rrPinned
    <3>1. CASE i = 1
      BY <2>1, <2>2, <3>1 DEF Statuses
    <3>2. CASE i = 2
      BY <2>1, <2>2, <3>2 DEF Statuses
    <3>3. CASE i # 1 /\ i # 2
      <4>1. rrPins[i] = NoPin
        BY <2>1, <2>3, <3>3
      <4>2. NoPin.status = "none"
        BY DEF NoPin
      <4> QED BY <4>1, <4>2
    <3> QED BY <3>1, <3>2, <3>3
  <2>5. rrPins \in [RrIds -> {NoPin} \cup [name : RrNames, status : Statuses]]
    <3>1. \E F : rrPins = [i \in RrIds |-> F[i]]
      <4>1. rrPins = [i \in RrIds |-> rrPins[i]]
        BY <2>1
      <4> QED BY <4>1
    <3> QED BY <2>4, <3>1
  <2> QED BY <2>2, <2>4, <2>5 DEF ServiceOK, RequestsOK, Requested, PinnedNoted
<1> QED BY <1>1, <1>2, <1>3, <1>4 DEF RemotePinsInv

\* How a command ends, and what that needs.
LEMMA RrEndIs ==
    ASSUME NEW j \in RemoteCmd, NEW ok \in BOOLEAN, NEW e, e = RrEnd(j, ok)
    PROVE  /\ e \in RemoteCmd
           /\ e.op = j.op /\ e.at = "end" /\ e.name = j.name /\ e.flag = j.flag /\ e.id = j.id
           /\ e.list = j.list /\ e.gone = j.gone /\ e.kept = j.kept /\ e.ever = j.ever
           /\ e.counts = j.counts /\ e.ok = ok
BY DEF RrEnd, RemoteCmd

LEMMA EndOK ==
    ASSUME NEW j \in RemoteCmd, NEW ok \in BOOLEAN, NEW pins, NEW made, NEW pinned, CmdOK(j, pins, made, pinned),
           ok = TRUE /\ j.op = "add" /\ ~j.flag => j.id \in pinned,
           ok = TRUE /\ j.op = "stat" => j.counts = Statuses
    PROVE  RrEnd(j, ok) \in RemoteCmd /\ CmdOK(RrEnd(j, ok), pins, made, pinned)
<1> DEFINE e == RrEnd(j, ok)
<1>1. /\ e \in RemoteCmd
      /\ e.op = j.op /\ e.at = "end" /\ e.name = j.name /\ e.flag = j.flag /\ e.id = j.id
      /\ e.list = j.list /\ e.gone = j.gone /\ e.kept = j.kept /\ e.ever = j.ever
      /\ e.counts = j.counts /\ e.ok = ok
  BY RrEndIs
<1> HIDE DEF e
<1>2. CmdOK(e, pins, made, pinned)
  BY <1>1 DEF CmdOK
<1> QED BY <1>1, <1>2 DEF e

\* The frame of a step of one command.
LEMMA StepFrame ==
    ASSUME RemotePinsInv, NEW c \in RrClients, NEW j, j \in RemoteCmd, CmdOK(j, rrPins, rrMade, rrPinned),
           RrStep(c, j), NoFault \/ Fault
    PROVE  RemotePinsInv'
<1>1. rrFaults' \in 0..MaxRrFaults
  BY RemotePinsAssumption DEF RemotePinsInv, NoFault, Fault
<1>2. /\ rrJob' = [rrJob EXCEPT ![c] = j] /\ UNCHANGED <<rrPins, rrMade, rrPinned>>
      /\ rrConf' \in {"absent", "url"} /\ rrRuns' \in 0..MaxRemote
  BY DEF RemotePinsInv, RrStep
<1> QED BY <1>1, <1>2, OwnCmdStep

LEMMA JobTypes ==
    ASSUME RemotePinsInv, NEW c \in RrClients
    PROVE  /\ rrJob[c] \in RemoteCmd /\ CmdOK(rrJob[c], rrPins, rrMade, rrPinned)
           /\ rrMade \in 2..MaxRequests /\ rrMade \in Nat /\ rrMade \in RrIds /\ rrMade # 0
BY RemotePinsAssumption DEF RemotePinsInv, ServiceOK, RrIds

LEMMA GetServiceStep ==
    ASSUME RemotePinsInv, NEW c \in RrClients, NEW op \in {"add", "ls", "rm", "stat"}, NEW at \in {"post", "list", "stat"},
           NEW name \in RrNames \cup {NoName}, NEW status \in SUBSET Statuses, NEW flag \in BOOLEAN,
           GetRemotePinService(c, op, at, name, status, flag),
           at = "post" => op = "add" /\ name \in RrNames,
           at = "list" => op \in {"ls", "rm"},
           at = "stat" => op = "stat"
    PROVE  RemotePinsInv'
<1> DEFINE j == [RrIdle EXCEPT !.op = op, !.at = at, !.name = name, !.status = status, !.flag = flag]
           m == IF at = "list" THEN Matching(j, rrPins) ELSE {}
           k == [j EXCEPT !.kept = m, !.ever = m]
<1>1. /\ j \in RemoteCmd /\ j.op = op /\ j.at = at /\ j.name = name /\ j.status = status /\ j.flag = flag
      /\ j.id = 0 /\ j.list = <<>> /\ j.gone = {} /\ j.kept = {} /\ j.ever = {}
  BY RrIdleIs DEF RemoteCmd
<1>2. rrJob' = [rrJob EXCEPT ![c] = IF rrConf = "absent" THEN RrEnd(j, FALSE) ELSE k]
  BY DEF GetRemotePinService
<1> HIDE DEF j
<1>3. m \in SUBSET RrIds
  BY DEF Matching
<1> HIDE DEF m
<1>4. /\ k \in RemoteCmd /\ k.op = op /\ k.at = at /\ k.name = name /\ k.status = status /\ k.flag = flag
      /\ k.id = 0 /\ k.list = <<>> /\ k.gone = {} /\ k.kept = m /\ k.ever = m
  BY <1>1, <1>3 DEF RemoteCmd
<1> HIDE DEF k
<1>5. UNCHANGED <<rrPins, rrMade, rrPinned>> /\ rrConf' \in {"absent", "url"} /\ rrRuns' \in 0..MaxRemote
      /\ rrFaults' \in 0..MaxRrFaults
  BY RemotePinsAssumption DEF RemotePinsInv, GetRemotePinService
<1>6. CASE rrConf = "absent"
  <2> DEFINE e == RrEnd(j, FALSE)
  <2>1. /\ e \in RemoteCmd /\ e.op = op /\ e.at = "end" /\ e.flag = flag /\ e.id = 0
        /\ e.list = <<>> /\ e.gone = {} /\ e.kept = {} /\ e.ever = {} /\ ~e.ok
    BY <1>1 DEF RrEnd, RemoteCmd
  <2> HIDE DEF e
  <2>2. CmdOK(e, rrPins, rrMade, rrPinned)
    BY <2>1, JobTypes DEF CmdOK
  <2>3. rrJob' = [rrJob EXCEPT ![c] = e]
    BY <1>2, <1>6 DEF e
  <2> QED BY <1>5, <2>1, <2>2, <2>3, OwnCmdStep
<1>7. CASE rrConf # "absent"
  <2>1. Found(k) = {}
    BY <1>4 DEF Found
  <2>2. k.at = "list" => m = Matching(k, rrPins)
    BY <1>1, <1>4, MatchingSame DEF m
  <2>3. CmdOK(k, rrPins, rrMade, rrPinned)
    BY <1>4, <2>1, <2>2, JobTypes DEF CmdOK
  <2>4. rrJob' = [rrJob EXCEPT ![c] = k]
    BY <1>2, <1>7
  <2> QED BY <1>4, <1>5, <2>3, <2>4, OwnCmdStep
<1> QED BY <1>6, <1>7

LEMMA CommandSteps ==
    ASSUME RemotePinsInv, NEW c \in RrClients,
           \/ \E n \in RrNames, background \in BOOLEAN : AddRemotePinCmd(c, n, background)
           \/ \E n \in RrNames \cup {NoName}, s \in {{"pinned"}, {"queued", "pinning"}}, force \in BOOLEAN :
                   RmRemotePinCmd(c, n, s, force)
           \/ ListRemotePinCmd(c) \/ LsRemotePinServiceCmd(c)
    PROVE  RemotePinsInv'
<1>1. {"pinned"} \in SUBSET Statuses /\ {"queued", "pinning"} \in SUBSET Statuses /\ {} \in SUBSET Statuses
      /\ Statuses \in SUBSET Statuses
  BY DEF Statuses
<1>2. ASSUME NEW n \in RrNames, NEW background \in BOOLEAN, AddRemotePinCmd(c, n, background) PROVE RemotePinsInv'
  BY <1>1, <1>2, GetServiceStep DEF AddRemotePinCmd
<1>3. ASSUME NEW n \in RrNames \cup {NoName}, NEW s \in {{"pinned"}, {"queued", "pinning"}}, NEW force \in BOOLEAN,
             RmRemotePinCmd(c, n, s, force)
      PROVE  RemotePinsInv'
  <2>1. s \in SUBSET Statuses
    BY <1>1
  <2> QED BY <1>3, <2>1, GetServiceStep DEF RmRemotePinCmd
<1>4. CASE ListRemotePinCmd(c)
  BY <1>1, <1>4, GetServiceStep DEF ListRemotePinCmd
<1>5. CASE LsRemotePinServiceCmd(c)
  BY <1>1, <1>5, GetServiceStep DEF LsRemotePinServiceCmd
<1> QED BY <1>2, <1>3, <1>4, <1>5

LEMMA ConfStep ==
    ASSUME RemotePinsInv, RemoteServiceRm \/ \E e \in {"url", "urlSlashes", "urlQuery", "pins", "path"} : RemoteServiceAdd(e)
    PROVE  RemotePinsInv'
<1>1. rrConf' \in {"absent", "url"} /\ rrRuns' \in 0..MaxRemote /\ UNCHANGED <<rrPins, rrMade, rrPinned, rrJob, rrFaults>>
  BY RemotePinsAssumption DEF RemotePinsInv, RemoteServiceRm, RemoteServiceAdd, NormalizeEndpoint
<1> QED BY <1>1 DEF RemotePinsInv

LEMMA ServiceStep ==
    ASSUME RemotePinsInv, NEW i \in RrIds, NEW s \in Statuses, ServiceWorks(i, s)
    PROVE  RemotePinsInv'
<1>1. /\ rrPins' = [rrPins EXCEPT ![i].status = s] /\ rrJob' = RrNoted(rrJob, rrPins')
      /\ rrPinned' = rrPinned \cup (IF s = "pinned" THEN {i} ELSE {})
      /\ UNCHANGED <<rrConf, rrMade, rrRuns, rrFaults>>
      /\ rrPins[i].status \in {"queued", "pinning"}
  BY DEF ServiceWorks
<1>2. ServiceOK(rrPins, rrMade, rrPinned)
  BY DEF RemotePinsInv
<1>3. rrPins[i] # NoPin /\ rrPins[i] \in [name : RrNames, status : Statuses] /\ i <= rrMade
  <2>1. NoPin.status = "none"
    BY DEF NoPin
  <2>2. rrPins[i] # NoPin
    BY <1>1, <2>1
  <2>3. rrPins[i] \in {NoPin} \cup [name : RrNames, status : Statuses]
    BY <1>2 DEF ServiceOK, RequestsOK
  <2>4. Requested(rrPins, rrMade)
    BY <1>2 DEF ServiceOK
  <2> QED BY <2>2, <2>3, <2>4 DEF Requested
<1> DEFINE p == [rrPins[i] EXCEPT !.status = s]
<1>4. p \in [name : RrNames, status : Statuses] /\ p.status = s
  BY <1>3
<1>5. rrPins' = [rrPins EXCEPT ![i] = p]
  BY <1>1
<1> HIDE DEF p
<1>6. ServiceOK(rrPins', rrMade', rrPinned')
  <2>1. RequestsOK(rrPins) /\ Requested(rrPins, rrMade) /\ PinnedNoted(rrPins, rrPinned)
        /\ rrMade \in 2..MaxRequests /\ rrPinned \subseteq 1..rrMade /\ i \in 1..rrMade
    BY <1>2, <1>3 DEF ServiceOK, RrIds
  <2>2. RequestsOK(rrPins')
    BY <1>4, <1>5, <2>1 DEF RequestsOK
  <2>3. \A k \in RrIds : rrPins'[k] = IF k = i THEN p ELSE rrPins[k]
    BY <1>5, <2>1 DEF RequestsOK
  <2>4. Requested(rrPins', rrMade)
    BY <1>3, <2>1, <2>3 DEF Requested
  <2>5. PinnedNoted(rrPins', rrPinned')
    BY <1>1, <1>4, <2>1, <2>3 DEF PinnedNoted
  <2>6. rrPinned' \subseteq 1..rrMade
    BY <1>1, <2>1
  <2> QED BY <1>1, <2>1, <2>2, <2>4, <2>5, <2>6 DEF ServiceOK
<1>7. rrMade \in Nat /\ rrPinned \subseteq rrPinned'
  BY <1>1, <1>2 DEF ServiceOK
<1>8. \A d \in RrClients : CmdOK(rrJob[d], rrPins, rrMade', rrPinned')
  BY <1>1, <1>7, CmdOKLater DEF RemotePinsInv
<1>9. rrJob \in [RrClients -> RemoteCmd] /\ rrFaults' \in 0..MaxRrFaults
  BY <1>1 DEF RemotePinsInv
<1> QED BY <1>1, <1>6, <1>8, <1>9, ServiceCmdStep

\* A step of a command that also changes the requests.
LEMMA BothStep ==
    ASSUME RemotePinsInv, NEW c \in RrClients, NEW j, j \in RemoteCmd, CmdOK(j, rrPins, rrMade', rrPinned'),
           rrMade' \in Nat, rrMade <= rrMade', rrPinned' = rrPinned,
           rrJob' = RrNoted([rrJob EXCEPT ![c] = j], rrPins'), ServiceOK(rrPins', rrMade', rrPinned'),
           rrConf' = rrConf, rrRuns' = rrRuns, NoFault \/ Fault
    PROVE  RemotePinsInv'
<1> DEFINE jobs == [rrJob EXCEPT ![c] = j]
<1>1. rrJob \in [RrClients -> RemoteCmd] /\ rrMade \in Nat
  BY DEF RemotePinsInv, ServiceOK
<1>2. jobs \in [RrClients -> RemoteCmd] /\ \A d \in RrClients : jobs[d] = IF d = c THEN j ELSE rrJob[d]
  BY <1>1
<1>3. \A d \in RrClients : CmdOK(rrJob[d], rrPins, rrMade', rrPinned')
  BY <1>1, CmdOKLater DEF RemotePinsInv
<1>4. \A d \in RrClients : CmdOK(jobs[d], rrPins, rrMade', rrPinned')
  BY <1>2, <1>3
<1>5. rrFaults' \in 0..MaxRrFaults
  BY RemotePinsAssumption DEF RemotePinsInv, NoFault, Fault
<1>6. rrJob' = RrNoted(jobs, rrPins')
  OBVIOUS
<1> HIDE DEF jobs
<1> QED BY <1>2, <1>4, <1>5, <1>6, ServiceCmdStep

LEMMA AddRemoteStep ==
    ASSUME RemotePinsInv, NEW c \in RrClients, AddRemotePin(c)
    PROVE  RemotePinsInv'
<1> DEFINE j == rrJob[c]
           i == rrMade + 1
<1>1. /\ j \in RemoteCmd /\ CmdOK(j, rrPins, rrMade, rrPinned) /\ rrMade \in Nat
      /\ j.at = "post"
  BY JobTypes DEF AddRemotePin
<1>2. j.op = "add" /\ j.name \in RrNames /\ j.gone = {} /\ j.kept \subseteq j.ever
  BY <1>1 DEF CmdOK
<1>3. CASE Fault /\ RrStep(c, RrEnd(j, FALSE))
  BY <1>1, <1>3, EndOK, StepFrame
<1>4. CASE ~(Fault /\ RrStep(c, RrEnd(j, FALSE)))
  <2> DEFINE made == [rrPins EXCEPT ![i] = [name |-> j.name, status |-> "queued"]]
             w == [j EXCEPT !.id = i]
             p == [j EXCEPT !.at = "poll", !.id = i]
  <2>1. /\ i \in RrIds /\ rrMade' = i /\ rrPins' = made /\ UNCHANGED <<rrConf, rrPinned, rrRuns>>
        /\ \/ Fault /\ rrJob' = RrNoted([rrJob EXCEPT ![c] = RrEnd(j, FALSE)], made)
           \/ NoFault /\ rrJob' = RrNoted([rrJob EXCEPT ![c] = IF j.flag THEN RrEnd(w, TRUE) ELSE p], made)
    BY <1>4 DEF AddRemotePin
  <2>2. ServiceOK(rrPins', rrMade', rrPinned')
    <3>1. ServiceOK(rrPins, rrMade, rrPinned)
      BY DEF RemotePinsInv
    <3> DEFINE q == [name |-> j.name, status |-> "queued"]
    <3>2. q \in [name : RrNames, status : Statuses] /\ q.status = "queued"
      BY <1>2 DEF Statuses
    <3>3. rrPins' = [rrPins EXCEPT ![i] = q]
      BY <2>1
    <3> HIDE DEF q
    <3>4. /\ rrMade' \in 2..MaxRequests /\ rrPinned' \subseteq 1..rrMade' /\ i \in RrIds
          /\ \A k \in RrIds : k <= rrMade => k <= rrMade'
          /\ RequestsOK(rrPins) /\ Requested(rrPins, rrMade) /\ PinnedNoted(rrPins, rrPinned)
      BY <2>1, <3>1 DEF ServiceOK, RrIds
    <3>5. RequestsOK(rrPins')
      BY <3>2, <3>3, <3>4 DEF RequestsOK
    <3>6. \A k \in RrIds : rrPins'[k] = IF k = i THEN q ELSE rrPins[k]
      BY <3>3, <3>4 DEF RequestsOK
    <3>7. i <= rrMade'
      BY <1>1, <2>1
    <3>8. Requested(rrPins', rrMade')
      BY <3>4, <3>6, <3>7 DEF Requested
    <3>9. PinnedNoted(rrPins', rrPinned')
      BY <2>1, <3>2, <3>4, <3>6 DEF PinnedNoted
    <3> QED BY <3>4, <3>5, <3>8, <3>9 DEF ServiceOK
  <2>3. CmdOK(j, rrPins, rrMade', rrPinned')
    BY <1>1, <2>1, CmdOKLater
  <2>4. /\ w \in RemoteCmd /\ w.op = j.op /\ w.at = j.at /\ w.name = j.name /\ w.status = j.status /\ w.flag = j.flag
        /\ w.id = i /\ w.list = j.list /\ w.gone = j.gone /\ w.kept = j.kept /\ w.ever = j.ever
        /\ p \in RemoteCmd /\ p.op = j.op /\ p.at = "poll" /\ p.name = j.name /\ p.status = j.status /\ p.flag = j.flag
        /\ p.id = i /\ p.list = j.list /\ p.gone = j.gone /\ p.kept = j.kept /\ p.ever = j.ever
    <3>1. i \in Nat
      BY <1>1
    <3> HIDE DEF i
    <3> QED BY <1>1, <3>1 DEF RemoteCmd
  <2>5. i \in 0..i /\ i # 0
    BY <1>1
  <2> HIDE DEF w, p, j, i, made
  <2>6. CmdOK(w, rrPins, rrMade', rrPinned') /\ CmdOK(p, rrPins, rrMade', rrPinned')
    BY <1>1, <1>2, <2>1, <2>3, <2>4, <2>5 DEF CmdOK
  <2>7. rrMade' \in Nat /\ rrMade <= rrMade'
    BY <1>1, <2>1 DEF i
  <2>8. CASE Fault /\ rrJob' = RrNoted([rrJob EXCEPT ![c] = RrEnd(j, FALSE)], made)
    <3>1. RrEnd(j, FALSE) \in RemoteCmd /\ CmdOK(RrEnd(j, FALSE), rrPins, rrMade', rrPinned')
      BY <1>1, <2>3, EndOK
    <3> QED BY <2>1, <2>2, <2>7, <2>8, <3>1, BothStep
  <2>9. CASE NoFault /\ rrJob' = RrNoted([rrJob EXCEPT ![c] = IF j.flag THEN RrEnd(w, TRUE) ELSE p], made)
    <3>1. CASE j.flag
      <4>1. RrEnd(w, TRUE) \in RemoteCmd /\ CmdOK(RrEnd(w, TRUE), rrPins, rrMade', rrPinned')
        BY <1>2, <2>4, <2>6, <3>1, EndOK
      <4> QED BY <2>1, <2>2, <2>7, <2>9, <3>1, <4>1, BothStep
    <3>2. CASE ~j.flag
      BY <2>1, <2>2, <2>4, <2>6, <2>7, <2>9, <3>2, BothStep
    <3> QED BY <3>1, <3>2
  <2> QED BY <2>1, <2>8, <2>9
<1> QED BY <1>3, <1>4

LEMMA PollStep ==
    ASSUME RemotePinsInv, NEW c \in RrClients, PollStatus(c)
    PROVE  RemotePinsInv'
<1> DEFINE j == rrJob[c]
           s == rrPins[j.id].status
<1>1. j \in RemoteCmd /\ CmdOK(j, rrPins, rrMade, rrPinned) /\ rrMade \in Nat
  BY JobTypes
<1>2. /\ j.at = "poll"
      /\ NoFault \/ Fault
      /\ \/ RrStep(c, RrEnd(j, FALSE))
         \/ s = "pinned" /\ RrStep(c, RrEnd(j, TRUE))
  BY DEF PollStatus
<1>3. j.op = "add" /\ j.id # 0 /\ j.id \in 0..rrMade
  BY <1>1, <1>2 DEF CmdOK
<1>4. ServiceOK(rrPins, rrMade, rrPinned)
  BY DEF RemotePinsInv
<1>5. s = "pinned" => j.id \in rrPinned
  <2>1. j.id \in RrIds
    <3>1. rrMade \in 2..MaxRequests /\ MaxRequests \in Nat
      BY <1>4, RemotePinsAssumption DEF ServiceOK
    <3> HIDE DEF j
    <3> QED BY <1>3, <3>1 DEF RrIds
  <2>2. PinnedNoted(rrPins, rrPinned)
    BY <1>4 DEF ServiceOK
  <2> QED BY <2>1, <2>2 DEF PinnedNoted
<1>6. CASE RrStep(c, RrEnd(j, FALSE))
  BY <1>1, <1>2, <1>6, EndOK, StepFrame
<1>7. CASE s = "pinned" /\ RrStep(c, RrEnd(j, TRUE))
  <2>1. RrEnd(j, TRUE) \in RemoteCmd /\ CmdOK(RrEnd(j, TRUE), rrPins, rrMade, rrPinned)
    BY <1>1, <1>3, <1>5, <1>7, EndOK
  <2> QED BY <1>2, <1>7, <2>1, StepFrame
<1> QED BY <1>2, <1>6, <1>7

LEMMA ListStep ==
    ASSUME RemotePinsInv, NEW c \in RrClients, LsRemote(c)
    PROVE  RemotePinsInv'
<1> DEFINE j == rrJob[c]
           i == IF j.id = 0 THEN rrMade ELSE j.id - 1
           l == IF Matches(j, rrPins[i]) THEN Append(j.list, i) ELSE j.list
           k == [j EXCEPT !.id = i, !.list = l]
<1>1. j \in RemoteCmd /\ CmdOK(j, rrPins, rrMade, rrPinned) /\ rrMade \in Nat /\ rrMade \in RrIds
  BY JobTypes
<1>2. j.at = "list" /\ j.id # 1 /\ i > 0 /\ NoFault /\ RrStep(c, k)
  BY DEF LsRemote
<1>3. j.id \in 0..rrMade /\ j.id \in Nat /\ j.list \in Seq(RrIds)
  BY <1>1 DEF CmdOK, RemoteCmd
<1> HIDE DEF j
<1>4. i \in 1..rrMade /\ i \in RrIds /\ i \in Nat
  <2>1. i \in 1..rrMade
    BY <1>1, <1>2, <1>3
  <2>2. 1..rrMade \subseteq RrIds
    BY <1>1, RemotePinsAssumption DEF RrIds
  <2> HIDE DEF i
  <2> QED BY <2>1, <2>2
<1>5. \A x \in RrIds : x > i => (j.id # 0 /\ x >= j.id) \/ (j.id = 0 /\ x > rrMade)
  BY <1>1, <1>3 DEF RrIds
<1>6. i \in 0..rrMade /\ i # 0
  BY <1>1, <1>4
<1> HIDE DEF i
<1>7. /\ l \in Seq(RrIds)
      /\ {l[n] : n \in 1..Len(l)} = IF Matches(j, rrPins[i]) THEN Found(j) \cup {i} ELSE Found(j)
  <2>1. CASE Matches(j, rrPins[i])
    <3>1. /\ l = Append(j.list, i) /\ l \in Seq(RrIds) /\ Len(l) = Len(j.list) + 1 /\ Len(j.list) \in Nat
          /\ l[Len(j.list) + 1] = i /\ \A n \in 1..Len(j.list) : l[n] = j.list[n]
      BY <1>3, <1>4, <2>1
    <3> HIDE DEF l
    <3>2. 1..Len(l) = (1..Len(j.list)) \cup {Len(j.list) + 1}
      BY <3>1
    <3>3. {l[n] : n \in 1..Len(l)} = Found(j) \cup {i}
      BY <3>1, <3>2 DEF Found
    <3> QED BY <2>1, <3>1, <3>3
  <2>2. CASE ~Matches(j, rrPins[i])
    BY <1>3, <2>2 DEF Found
  <2> QED BY <2>1, <2>2
<1> HIDE DEF l
<1>8. /\ k \in RemoteCmd /\ k.op = j.op /\ k.at = j.at /\ k.name = j.name /\ k.status = j.status /\ k.flag = j.flag
      /\ k.id = i /\ k.list = l /\ k.gone = j.gone /\ k.kept = j.kept /\ k.ever = j.ever
  BY <1>1, <1>4, <1>7 DEF RemoteCmd
<1> HIDE DEF k
<1>9. Matching(k, rrPins) = Matching(j, rrPins)
  BY <1>8, MatchingSame
<1>10. Found(k) = IF Matches(j, rrPins[i]) THEN Found(j) \cup {i} ELSE Found(j)
  BY <1>7, <1>8 DEF Found
<1>11. j.op \in {"ls", "rm"} /\ j.gone = {} /\ j.kept \subseteq Matching(j, rrPins)
       /\ Matching(j, rrPins) \subseteq j.ever /\ j.kept \subseteq j.ever
       /\ Found(j) \subseteq j.ever /\ Found(j) \subseteq 1..rrMade
       /\ (j.id # 0 => \A x \in j.kept : x >= j.id => x \in Found(j))
  BY <1>1, <1>2 DEF CmdOK
<1>12. i \in Matching(j, rrPins) <=> Matches(j, rrPins[i])
  BY <1>4 DEF Matching
<1>13. Found(k) \subseteq k.ever /\ Found(k) \subseteq 1..rrMade
  BY <1>4, <1>8, <1>10, <1>11, <1>12
<1>14. \A x \in k.kept : x >= i => x \in Found(k)
  <2> SUFFICES ASSUME NEW x \in j.kept, x >= i PROVE x \in Found(k)
    BY <1>8
  <2>1. x \in Matching(j, rrPins) /\ x \in RrIds /\ x \in Nat
    BY <1>11 DEF Matching, RrIds
  <2>2. CASE x = i
    BY <1>10, <1>12, <2>1, <2>2
  <2>3. CASE x # i
    <3>1. x > i
      BY <1>4, <2>1, <2>3
    <3>2. ~(j.id = 0 /\ x > rrMade)
      <4>1. Requested(rrPins, rrMade)
        BY DEF RemotePinsInv, ServiceOK
      <4>2. rrPins[x] # NoPin
        <5>1. NoPin.status = "none" /\ "none" \notin Statuses
          BY DEF NoPin, Statuses
        <5>2. rrPins[x].status \in j.status
          BY <2>1 DEF Matching, Matches
        <5>3. j.status \subseteq Statuses
          BY <1>1 DEF RemoteCmd
        <5> QED BY <5>1, <5>2, <5>3
      <4>3. x <= rrMade
        BY <2>1, <4>1, <4>2 DEF Requested
      <4> QED BY <1>1, <2>1, <4>3
    <3>3. j.id # 0 /\ x >= j.id
      BY <1>5, <2>1, <3>1, <3>2
    <3> QED BY <1>10, <1>11, <3>3
  <2> QED BY <2>2, <2>3
<1>15. CmdOK(k, rrPins, rrMade, rrPinned)
  BY <1>2, <1>6, <1>8, <1>9, <1>11, <1>13, <1>14 DEF CmdOK
<1> QED BY <1>2, <1>8, <1>15, StepFrame

LEMMA ListEndStep ==
    ASSUME RemotePinsInv, NEW c \in RrClients, NEW failed \in BOOLEAN, LsRemoteEnd(c, failed)
    PROVE  RemotePinsInv'
<1> DEFINE j == rrJob[c]
           d == [j EXCEPT !.at = "delete"]
<1>1. j \in RemoteCmd /\ CmdOK(j, rrPins, rrMade, rrPinned) /\ rrMade \in Nat /\ rrMade # 0
  BY JobTypes
<1>2. /\ j.at = "list" /\ (failed \/ j.id = 1 \/ rrMade = 0) /\ (NoFault \/ Fault)
      /\ RrStep(c, IF j.op = "ls" THEN RrEnd(j, ~failed)
                   ELSE IF failed \/ (Len(j.list) > 1 /\ ~j.flag) THEN RrEnd(j, FALSE) ELSE d)
  BY DEF LsRemoteEnd
<1> HIDE DEF j
<1>3. ASSUME NEW ok \in BOOLEAN, RrStep(c, RrEnd(j, ok)) PROVE RemotePinsInv'
  <2>1. j.op \in {"ls", "rm"}
    BY <1>1, <1>2 DEF CmdOK
  <2>2. RrEnd(j, ok) \in RemoteCmd /\ CmdOK(RrEnd(j, ok), rrPins, rrMade, rrPinned)
    BY <1>1, <2>1, EndOK
  <2> QED BY <1>2, <1>3, <2>2, StepFrame
<1>4. CASE RrStep(c, d) /\ ~failed /\ j.op # "ls" /\ ~(Len(j.list) > 1 /\ ~j.flag)
  <2>1. /\ d \in RemoteCmd /\ d.op = j.op /\ d.at = "delete" /\ d.name = j.name /\ d.status = j.status /\ d.flag = j.flag
        /\ d.id = j.id /\ d.list = j.list /\ d.gone = j.gone /\ d.kept = j.kept /\ d.ever = j.ever
    BY <1>1 DEF RemoteCmd
  <2> HIDE DEF d
  <2>2. j.id = 1
    BY <1>1, <1>2, <1>4
  <2>3. /\ j.op = "rm" /\ j.gone = {} /\ j.kept \subseteq j.ever /\ j.id \in 0..rrMade
        /\ Found(j) \subseteq j.ever /\ Found(j) \subseteq 1..rrMade
        /\ j.kept \subseteq Matching(j, rrPins) /\ \A x \in j.kept : x >= 1 => x \in Found(j)
    BY <1>1, <1>2, <1>4, <2>2 DEF CmdOK
  <2>4. j.kept \subseteq Found(j)
    BY <2>3 DEF Matching, RrIds
  <2>5. j.list \in Seq(RrIds)
    BY <1>1 DEF RemoteCmd
  <2>6. ~j.flag => Len(j.list) <= 1 /\ AtMostOne(j.kept)
    <3>1. SUFFICES ASSUME ~j.flag PROVE Len(j.list) <= 1 /\ AtMostOne(j.kept)
      OBVIOUS
    <3>2. Len(j.list) \in Nat /\ Len(j.list) <= 1
      BY <1>4, <2>5, <3>1
    <3>3. \A n \in 1..Len(j.list) : n = 1
      BY <3>2
    <3>4. AtMostOne(Found(j))
      BY <3>3 DEF AtMostOne, Found
    <3> QED BY <2>4, <3>2, <3>4 DEF AtMostOne
  <2>7. Found(d) = Found(j)
    BY <2>1 DEF Found
  <2>8. CmdOK(d, rrPins, rrMade, rrPinned)
    BY <1>1, <2>1, <2>3, <2>6, <2>7 DEF CmdOK
  <2> QED BY <1>2, <1>4, <2>1, <2>8, StepFrame
<1>5. (~failed) \in BOOLEAN /\ FALSE \in BOOLEAN
  OBVIOUS
<1> HIDE DEF d
<1> QED BY <1>2, <1>3, <1>4, <1>5

LEMMA DeleteStep ==
    ASSUME RemotePinsInv, NEW c \in RrClients, RmRemotePin(c)
    PROVE  RemotePinsInv'
<1> DEFINE j == rrJob[c]
           i == Head(j.list)
           l == Tail(j.list)
           without == [rrPins EXCEPT ![i] = NoPin]
           G == j.gone \cup {i}
           g == [j EXCEPT !.gone = G]
           k == [j EXCEPT !.gone = G, !.list = l]
<1>1. j \in RemoteCmd /\ CmdOK(j, rrPins, rrMade, rrPinned) /\ rrMade \in Nat /\ 1..rrMade \subseteq RrIds
  <2>1. 1..rrMade \subseteq RrIds
    BY JobTypes, RemotePinsAssumption DEF RrIds
  <2> QED BY <2>1, JobTypes
<1>2. /\ j.at = "delete" /\ j.list # <<>>
      /\ \/ Fault /\ RrStep(c, RrEnd(j, FALSE))
         \/ /\ NoFault \/ Fault
            /\ rrPins' = without
            /\ rrJob' = RrNoted([rrJob EXCEPT ![c] = IF rrFaults' # rrFaults THEN RrEnd(g, FALSE) ELSE k], without)
            /\ UNCHANGED <<rrConf, rrMade, rrPinned, rrRuns>>
  BY DEF RmRemotePin
<1> HIDE DEF j
<1>3. /\ j.list \in Seq(RrIds) /\ j.gone \subseteq RrIds
      /\ j.op = "rm" /\ j.id \in 0..rrMade /\ j.gone \subseteq 1..rrMade /\ j.kept \subseteq j.ever
      /\ Found(j) \subseteq j.ever /\ Found(j) \subseteq 1..rrMade /\ j.gone \subseteq j.ever
      /\ (~j.flag => Len(j.list) <= 1 /\ j.gone = {} /\ AtMostOne(j.kept))
  BY <1>1, <1>2 DEF CmdOK, RemoteCmd
<1>4. i \in Found(j) /\ l \in Seq(RrIds) /\ Len(l) = Len(j.list) - 1 /\ \A n \in 1..Len(l) : l[n] = j.list[n + 1]
      /\ Len(j.list) \in Nat /\ Len(j.list) >= 1
  BY <1>2, <1>3 DEF Found
<1>5. {l[n] : n \in 1..Len(l)} \subseteq Found(j)
  <2> SUFFICES ASSUME NEW n \in 1..Len(l) PROVE l[n] \in Found(j)
    OBVIOUS
  <2> HIDE DEF l
  <2>1. n + 1 \in 1..Len(j.list) /\ l[n] = j.list[n + 1]
    BY <1>4
  <2> QED BY <2>1 DEF Found
<1> HIDE DEF i, l
<1>6. G \in SUBSET RrIds /\ G \subseteq 1..rrMade /\ G \subseteq j.ever /\ (~j.flag => AtMostOne(G))
  BY <1>1, <1>3, <1>4 DEF AtMostOne
<1>7. CASE Fault /\ RrStep(c, RrEnd(j, FALSE))
  <2>1. RrEnd(j, FALSE) \in RemoteCmd /\ CmdOK(RrEnd(j, FALSE), rrPins, rrMade, rrPinned)
    BY <1>1, EndOK
  <2> QED BY <1>7, <2>1, StepFrame
<1>8. CASE ~(Fault /\ RrStep(c, RrEnd(j, FALSE)))
  <2>1. /\ NoFault \/ Fault
        /\ rrPins' = without
        /\ rrJob' = RrNoted([rrJob EXCEPT ![c] = IF rrFaults' # rrFaults THEN RrEnd(g, FALSE) ELSE k], rrPins')
        /\ UNCHANGED <<rrConf, rrMade, rrPinned, rrRuns>>
    BY <1>2, <1>8
  <2>2. ServiceOK(rrPins', rrMade', rrPinned')
    <3>1. ServiceOK(rrPins, rrMade, rrPinned)
      BY DEF RemotePinsInv
    <3>2. RequestsOK(rrPins')
      BY <2>1, <3>1 DEF ServiceOK, RequestsOK
    <3>3. \A n \in RrIds : rrPins'[n] = IF n = i THEN NoPin ELSE rrPins[n]
      BY <2>1, <3>1 DEF ServiceOK, RequestsOK
    <3>4. NoPin.status # "pinned"
      BY DEF NoPin
    <3>5. Requested(rrPins, rrMade) /\ PinnedNoted(rrPins, rrPinned)
      BY <3>1 DEF ServiceOK
    <3>6. Requested(rrPins', rrMade)
      BY <3>3, <3>5 DEF Requested
    <3>7. PinnedNoted(rrPins', rrPinned)
      BY <3>3, <3>4, <3>5 DEF PinnedNoted
    <3> QED BY <2>1, <3>1, <3>2, <3>6, <3>7 DEF ServiceOK
  <2> HIDE DEF G
  <2>3. /\ g \in RemoteCmd /\ g.op = j.op /\ g.at = j.at /\ g.name = j.name /\ g.status = j.status /\ g.flag = j.flag
        /\ g.id = j.id /\ g.list = j.list /\ g.gone = G /\ g.kept = j.kept /\ g.ever = j.ever
    BY <1>1, <1>6 DEF RemoteCmd
  <2>4. /\ k \in RemoteCmd /\ k.op = j.op /\ k.at = j.at /\ k.name = j.name /\ k.status = j.status /\ k.flag = j.flag
        /\ k.id = j.id /\ k.list = l /\ k.gone = G /\ k.kept = j.kept /\ k.ever = j.ever
    BY <1>1, <1>4, <1>6 DEF RemoteCmd
  <2> HIDE DEF g, k, without
  <2> DEFINE e == RrEnd(g, FALSE)
  <2>5. /\ e \in RemoteCmd /\ e.op = "rm" /\ e.at = "end" /\ e.flag = j.flag /\ e.id = j.id
        /\ e.gone = G /\ e.kept = j.kept /\ e.ever = j.ever
    BY <1>3, <2>3 DEF RrEnd, RemoteCmd
  <2> HIDE DEF e
  <2>6. CmdOK(e, rrPins, rrMade, rrPinned)
    BY <1>3, <1>6, <2>5 DEF CmdOK
  <2>7. ~j.flag => l = <<>>
    BY <1>3, <1>4
  <2>8. Found(k) \subseteq Found(j)
    BY <1>5, <2>4 DEF Found
  <2>9. ~j.flag => Len(l) <= 1
    BY <1>3, <1>4
  <2>10. CmdOK(k, rrPins, rrMade, rrPinned)
    BY <1>2, <1>3, <1>6, <2>4, <2>7, <2>8, <2>9 DEF CmdOK
  <2>11. rrMade' = rrMade /\ rrPinned' = rrPinned /\ rrMade' \in Nat /\ rrMade <= rrMade'
    BY <1>1, <2>1
  <2>12. CASE rrFaults' # rrFaults
    BY <2>1, <2>2, <2>5, <2>6, <2>11, <2>12, BothStep DEF e
  <2>13. CASE rrFaults' = rrFaults
    BY <2>1, <2>2, <2>4, <2>10, <2>11, <2>13, BothStep
  <2> QED BY <2>12, <2>13
<1> QED BY <1>7, <1>8

LEMMA RmEndStep ==
    ASSUME RemotePinsInv, NEW c \in RrClients, RmRemoteEnd(c)
    PROVE  RemotePinsInv'
<1> DEFINE j == rrJob[c]
<1>1. j \in RemoteCmd /\ CmdOK(j, rrPins, rrMade, rrPinned) /\ j.at = "delete" /\ NoFault /\ RrStep(c, RrEnd(j, TRUE))
  BY JobTypes DEF RmRemoteEnd
<1> HIDE DEF j
<1>2. j.op = "rm"
  BY <1>1 DEF CmdOK
<1>3. RrEnd(j, TRUE) \in RemoteCmd /\ CmdOK(RrEnd(j, TRUE), rrPins, rrMade, rrPinned)
  BY <1>1, <1>2, EndOK
<1> QED BY <1>1, <1>3, StepFrame

LEMMA PinCountStep ==
    ASSUME RemotePinsInv, NEW c \in RrClients, NEW s \in Statuses, PinCount(c, s)
    PROVE  RemotePinsInv'
<1> DEFINE j == rrJob[c]
           k == [j EXCEPT !.counts = @ \cup {s}]
           f == [j EXCEPT !.ok = FALSE]
<1>1. /\ j \in RemoteCmd /\ CmdOK(j, rrPins, rrMade, rrPinned) /\ j.at = "stat" /\ (NoFault \/ Fault)
      /\ RrStep(c, k) \/ RrStep(c, f)
  BY JobTypes DEF PinCount
<1> HIDE DEF j
<1>2. /\ k \in RemoteCmd /\ k.op = j.op /\ k.at = j.at /\ k.name = j.name /\ k.status = j.status /\ k.flag = j.flag
      /\ k.id = j.id /\ k.list = j.list /\ k.gone = j.gone /\ k.kept = j.kept /\ k.ever = j.ever
  BY <1>1 DEF RemoteCmd
<1>3. /\ f \in RemoteCmd /\ f.op = j.op /\ f.at = j.at /\ f.name = j.name /\ f.status = j.status /\ f.flag = j.flag
      /\ f.id = j.id /\ f.list = j.list /\ f.gone = j.gone /\ f.kept = j.kept /\ f.ever = j.ever
  BY <1>1 DEF RemoteCmd
<1> HIDE DEF k, f
<1>4. CmdOK(k, rrPins, rrMade, rrPinned)
  BY <1>1, <1>2 DEF CmdOK
<1>5. CmdOK(f, rrPins, rrMade, rrPinned)
  BY <1>1, <1>3 DEF CmdOK
<1>6. CASE RrStep(c, k)
  BY <1>1, <1>2, <1>4, <1>6, StepFrame
<1>7. CASE RrStep(c, f)
  BY <1>1, <1>3, <1>5, <1>7, StepFrame
<1> QED BY <1>1, <1>6, <1>7

LEMMA CountWaitStep ==
    ASSUME RemotePinsInv, NEW c \in RrClients, PinCountWait(c)
    PROVE  RemotePinsInv'
<1> DEFINE j == rrJob[c]
<1>1. /\ j \in RemoteCmd /\ CmdOK(j, rrPins, rrMade, rrPinned) /\ j.at = "stat" /\ (j.counts = Statuses \/ ~j.ok)
      /\ NoFault /\ RrStep(c, RrEnd(j, j.ok))
  BY JobTypes DEF PinCountWait
<1> HIDE DEF j
<1>2. j.op = "stat" /\ j.ok \in BOOLEAN
  BY <1>1 DEF CmdOK, RemoteCmd
<1>3. RrEnd(j, j.ok) \in RemoteCmd /\ CmdOK(RrEnd(j, j.ok), rrPins, rrMade, rrPinned)
  BY <1>1, <1>2, EndOK
<1> QED BY <1>1, <1>3, StepFrame

LEMMA RemotePinsStep == RemotePinsInv /\ [RrNext]_rrVars => RemotePinsInv'
<1> SUFFICES ASSUME RemotePinsInv, [RrNext]_rrVars PROVE RemotePinsInv'
  OBVIOUS
<1>1. CASE RemoteServiceRm \/ \E e \in {"url", "urlSlashes", "urlQuery", "pins", "path"} : RemoteServiceAdd(e)
  BY <1>1, ConfStep
<1>2. ASSUME NEW i \in RrIds, NEW s \in Statuses, ServiceWorks(i, s) PROVE RemotePinsInv'
  BY <1>2, ServiceStep
<1>3. ASSUME NEW c \in RrClients,
             \/ \E n \in RrNames, background \in BOOLEAN : AddRemotePinCmd(c, n, background)
             \/ \E n \in RrNames \cup {NoName}, s \in {{"pinned"}, {"queued", "pinning"}}, force \in BOOLEAN :
                    RmRemotePinCmd(c, n, s, force)
             \/ ListRemotePinCmd(c) \/ LsRemotePinServiceCmd(c)
      PROVE  RemotePinsInv'
  BY <1>3, CommandSteps
<1>4. ASSUME NEW c \in RrClients, AddRemotePin(c) \/ PollStatus(c) \/ LsRemote(c) PROVE RemotePinsInv'
  BY <1>4, AddRemoteStep, PollStep, ListStep
<1>5. ASSUME NEW c \in RrClients, (\E failed \in BOOLEAN : LsRemoteEnd(c, failed)) \/ RmRemotePin(c) \/ RmRemoteEnd(c)
      PROVE  RemotePinsInv'
  BY <1>5, ListEndStep, DeleteStep, RmEndStep
<1>6. ASSUME NEW c \in RrClients, (\E s \in Statuses : PinCount(c, s)) \/ PinCountWait(c) PROVE RemotePinsInv'
  BY <1>6, PinCountStep, CountWaitStep
<1>7. CASE UNCHANGED rrVars
  BY <1>7 DEF rrVars, RemotePinsInv
<1> QED BY <1>1, <1>2, <1>3, <1>4, <1>5, <1>6, <1>7 DEF RrNext

LEMMA AtMostOneCounts ==
    ASSUME NEW S, AtMostOne(S)
    PROVE  Cardinality(S) <= 1 /\ (S # {} => Cardinality(S) = 1)
<1>1. CASE S = {}
  BY <1>1, FS_EmptySet
<1>2. CASE S # {}
  <2>1. PICK x : x \in S
    BY <1>2
  <2>2. S = {x}
    BY <2>1 DEF AtMostOne
  <2>3. Cardinality(S) = 1
    BY <2>2, FS_Singleton
  <2> QED BY <2>3
<1> QED BY <1>1, <1>2

LEMMA RemotePinsInvSound == RemotePinsInv => RrSound
<1> SUFFICES ASSUME RemotePinsInv PROVE RrSound
  OBVIOUS
<1>1. \A c \in RrClients : rrJob[c] \in RemoteCmd /\ CmdOK(rrJob[c], rrPins, rrMade, rrPinned)
  BY DEF RemotePinsInv
<1>2. RrTypeOK
  <2>1. rrMade \in 0..MaxRequests /\ rrPinned \subseteq 1..rrMade /\ RequestsOK(rrPins)
    BY RemotePinsAssumption DEF RemotePinsInv, ServiceOK
  <2>2. \A c \in RrClients : /\ rrJob[c].id \in 0..rrMade /\ rrJob[c].gone \subseteq 1..rrMade
                             /\ rrJob[c].kept \subseteq rrJob[c].ever
    BY <1>1 DEF CmdOK
  <2>3. rrConf \in {"absent", "url"} /\ rrJob \in [RrClients -> RemoteCmd]
        /\ rrRuns \in 0..MaxRemote /\ rrFaults \in 0..MaxRrFaults
    BY DEF RemotePinsInv
  <2> QED BY <2>1, <2>2, <2>3 DEF RrTypeOK, RequestsOK
<1>3. RrAddPinned
  BY <1>1 DEF RrAddPinned, Succeeded, CmdOK
<1>4. RrStatWhole
  BY <1>1 DEF RrStatWhole, Succeeded, CmdOK
<1>5. RrRmCareful
  <2> SUFFICES ASSUME NEW c \in RrClients
               PROVE  /\ rrJob[c].gone \subseteq rrJob[c].ever
                      /\ ~rrJob[c].flag /\ rrJob[c].gone # {} =>
                          Cardinality(rrJob[c].gone) = 1 /\ Cardinality(rrJob[c].kept) <= 1
    BY DEF RrRmCareful
  <2>1. /\ rrJob[c].gone \subseteq rrJob[c].ever
        /\ ~rrJob[c].flag /\ rrJob[c].gone # {} => AtMostOne(rrJob[c].gone) /\ AtMostOne(rrJob[c].kept)
    BY <1>1 DEF CmdOK
  <2> QED BY <2>1, AtMostOneCounts
<1> QED BY <1>2, <1>3, <1>4, <1>5 DEF RrSound

\* What pin remote add and service ls --stat report is true, and pin remote rm
\* deletes what matched its query and without --force at most one pin that was
\* the only one, whoever else changes the requests while it reads the pages, and
\* whichever call fails (AddRemotePin, PollStatus, LsRemote, RmRemotePin).
THEOREM RemotePinCommandsSound == RrInit /\ [][RrNext]_rrVars => []RrSound
BY RemotePinsInit, RemotePinsStep, RemotePinsInvSound, PTL

-----------------------------------------------------------------------------
(* ipfs pin.  The DAG below a CID has it and what is below its links.      *)
PnClosed(X) == \A x \in X : Images(PnLinks[x]) \subseteq X

LEMMA LinksAre == ASSUME NEW c \in PnCids PROVE PnLinks[c] \in Seq(PnCids) /\ Images(PnLinks[c]) \subseteq PnCids
<1>1. PnLinks[c] \in Seq(PnCids)
  BY PinAssumption
<1> QED BY <1>1 DEF Images

LEMMA ReachIs ==
    ASSUME NEW c \in PnCids
    PROVE  PnReach[c] = {d \in PnCids : \A X \in SUBSET PnCids : c \in X /\ PnClosed(X) => d \in X}
BY DEF PnReach, PnClosed

LEMMA ReachHas ==
    ASSUME NEW c \in PnCids
    PROVE  PnReach[c] \subseteq PnCids /\ c \in PnReach[c] /\ PnClosed(PnReach[c])
<1>1. PnReach[c] \subseteq PnCids /\ c \in PnReach[c]
  BY ReachIs
<1>2. ASSUME NEW x \in PnReach[c], NEW y \in Images(PnLinks[x]) PROVE y \in PnReach[c]
  <2>1. x \in PnCids /\ y \in PnCids
    BY <1>1, <1>2, LinksAre
  <2>2. \A X \in SUBSET PnCids : c \in X /\ PnClosed(X) => x \in X
    BY <1>2, ReachIs
  <2>3. \A X \in SUBSET PnCids : c \in X /\ PnClosed(X) => y \in X
    BY <1>2, <2>2 DEF PnClosed
  <2> QED BY <2>1, <2>3, ReachIs
<1> QED BY <1>1, <1>2 DEF PnClosed

LEMMA ReachLeast ==
    ASSUME NEW c \in PnCids, NEW X \in SUBSET PnCids, c \in X, PnClosed(X)
    PROVE  PnReach[c] \subseteq X
BY ReachIs

LEMMA ReachBelow ==
    ASSUME NEW c \in PnCids, NEW d \in PnReach[c]
    PROVE  d \in PnCids /\ PnReach[d] \subseteq PnReach[c]
<1>1. d \in PnCids
  BY ReachHas
<1> QED BY <1>1, ReachHas, ReachLeast

LEMMA ReachStep ==
    ASSUME NEW c \in PnCids
    PROVE  /\ \A d \in Images(PnLinks[c]) : d \in PnCids /\ PnReach[d] \subseteq PnReach[c]
           /\ PnReach[c] \subseteq {c} \cup UNION {PnReach[d] : d \in Images(PnLinks[c])}
<1>1. ASSUME NEW d \in Images(PnLinks[c]) PROVE d \in PnCids /\ PnReach[d] \subseteq PnReach[c]
  <2>1. d \in PnReach[c]
    BY ReachHas DEF PnClosed
  <2> QED BY <2>1, ReachBelow
<1> DEFINE X == {c} \cup UNION {PnReach[d] : d \in Images(PnLinks[c])}
<1>2. X \subseteq PnCids
  BY <1>1, ReachHas
<1>3. ASSUME NEW x \in X, NEW y \in Images(PnLinks[x]) PROVE y \in X
  <2>1. CASE x = c
    <3>1. y \in PnCids /\ y \in Images(PnLinks[c])
      BY <1>3, <2>1, LinksAre
    <3>2. y \in PnReach[y]
      BY <3>1, ReachHas
    <3> QED BY <3>1, <3>2
  <2>2. CASE x # c
    <3>1. PICK d \in Images(PnLinks[c]) : x \in PnReach[d]
      BY <1>3, <2>2
    <3>2. y \in PnReach[d]
      BY <1>1, <1>3, <3>1, ReachHas DEF PnClosed
    <3> QED BY <3>2
  <2> QED BY <2>1, <2>2
<1>4. PnClosed(X)
  BY <1>3 DEF PnClosed
<1> HIDE DEF X
<1>5. c \in X
  BY DEF X
<1>6. PnReach[c] \subseteq X
  BY <1>2, <1>4, <1>5, ReachLeast
<1> QED BY <1>1, <1>6 DEF X

LEMMA BelowMore ==
    ASSUME NEW S, NEW T, S \subseteq T PROVE PnBelow(S) \subseteq PnBelow(T)
BY DEF PnBelow

LEMMA BelowIs ==
    ASSUME NEW S \in SUBSET PnCids PROVE PnBelow(S) \subseteq PnCids
<1> SUFFICES ASSUME NEW x \in PnBelow(S) PROVE x \in PnCids
  OBVIOUS
<1>1. PICK c \in S : \E d \in Images(PnLinks[c]) : x \in PnReach[d]
  BY DEF PnBelow
<1>2. PICK d \in Images(PnLinks[c]) : x \in PnReach[d]
  BY <1>1
<1> QED BY <1>2, LinksAre, ReachHas

LEMMA ImagesStep ==
    ASSUME NEW s \in Seq(PnCids), s # <<>>
    PROVE  /\ Head(s) \in PnCids /\ Tail(s) \in Seq(PnCids)
           /\ Images(s) = {Head(s)} \cup Images(Tail(s))
           /\ Len(s) = 1 => Images(s) = {Head(s)}
<1>1. Len(s) \in Nat /\ Len(s) > 0 /\ DOMAIN s = 1..Len(s) /\ Head(s) = s[1] /\ Head(s) \in PnCids
  OBVIOUS
<1>2. Tail(s) \in Seq(PnCids) /\ Len(Tail(s)) = Len(s) - 1 /\ DOMAIN Tail(s) = 1..(Len(s) - 1)
      /\ \A i \in 1..(Len(s) - 1) : Tail(s)[i] = s[i + 1]
  OBVIOUS
<1>3. Images(s) \subseteq {s[1]} \cup Images(Tail(s))
  <2> SUFFICES ASSUME NEW i \in 1..Len(s), i # 1 PROVE s[i] \in Images(Tail(s))
    BY <1>1 DEF Images
  <2>1. i - 1 \in 1..(Len(s) - 1) /\ (i - 1) + 1 = i
    BY <1>1
  <2>2. s[i] = Tail(s)[i - 1]
    BY <1>2, <2>1
  <2> QED BY <1>2, <2>1, <2>2 DEF Images
<1>4. {s[1]} \cup Images(Tail(s)) \subseteq Images(s)
  <2>1. 1 \in DOMAIN s
    BY <1>1
  <2>2. ASSUME NEW i \in 1..(Len(s) - 1) PROVE Tail(s)[i] \in Images(s)
    <3>1. i + 1 \in DOMAIN s
      BY <1>1
    <3> QED BY <1>2, <3>1 DEF Images
  <2> QED BY <1>2, <2>1, <2>2 DEF Images
<1>5. ASSUME Len(s) = 1 PROVE Images(s) = {Head(s)}
  <2>1. DOMAIN s = {1}
    BY <1>1, <1>5
  <2> QED BY <1>1, <2>1 DEF Images
<1> QED BY <1>1, <1>2, <1>3, <1>4, <1>5

LEMMA ImagesNone == Images(<<>>) = {}
BY DEF Images

(* A command as a record, and what its fields are.                         *)
PnIs(r) ==
    r = [op |-> r.op, opt |-> r.opt, todo |-> r.todo, args |-> r.args, keys |-> r.keys, out |-> r.out,
         stack |-> r.stack, ok |-> r.ok, was |-> r.was]
CmdTypes(r) ==
    /\ PnIs(r)
    /\ r.todo \in Seq(PnCids) /\ r.args \in Seq(PnCids) /\ r.keys \subseteq PnCids
    /\ DOMAIN r.out \subseteq PnCids /\ r.out = [d \in DOMAIN r.out |-> r.out[d]]

(* What it has seen, and later has.                                        *)
SawTypes(s) ==
    /\ s = [rec |-> s.rec, dir |-> s.dir, have |-> s.have,
            everRec |-> s.everRec, everDir |-> s.everDir, everHave |-> s.everHave]
    /\ s.rec \subseteq s.everRec /\ s.everRec \subseteq PnCids /\ s.everDir \subseteq PnCids
Later(s, t) ==
    /\ t.rec \subseteq s.rec /\ t.dir \subseteq s.dir /\ t.have \subseteq s.have
    /\ s.everRec \subseteq t.everRec /\ s.everDir \subseteq t.everDir /\ s.everHave \subseteq t.everHave
Walking(r) == r.op \in {"verify", "verifying"}
Sees(r, s, rec, dir, have) ==
    r.op \notin {"idle", "done"} =>
        /\ s.rec \subseteq rec /\ rec \subseteq s.everRec /\ s.dir \subseteq dir /\ dir \subseteq s.everDir
        /\ s.have \subseteq have /\ (Walking(r) => have \subseteq s.everHave)

Done(r, ops) == r.op = "done" /\ r.ok /\ r.was \in ops

(* add and rm have done what is no longer to do.                           *)
WasPinned(r, s) == IF r.opt = "recursive" THEN s.everRec ELSE s.everDir
ArgsOK(r, s) ==
    /\ r.op = "add" => Images(r.args) \subseteq Images(r.todo) \cup WasPinned(r, s)
    /\ Done(r, {"add"}) => Images(r.args) \subseteq WasPinned(r, s)
    /\ r.op = "rm" => Images(r.args) \cap (s.rec \cup s.dir) \subseteq Images(r.todo)
    /\ Done(r, {"rm"}) => Images(r.args) \cap (s.rec \cup s.dir) = {}
    /\ r.op = "update" => Len(r.todo) = 2

(* ls has read the recursive pins, or the direct ones, or both.            *)
Listed(r, t) == {d \in DOMAIN r.out : r.out[d] = t}
LsOps == {"ls", "lsDir", "lsRec", "lsWalk"}
TypesTrue(r, s) ==
    \A d \in DOMAIN r.out :
        /\ r.out[d] \in {"recursive", "direct", "indirect"}
        /\ r.out[d] = "recursive" => d \in s.everRec
        /\ r.out[d] = "direct" => d \in s.everDir
        /\ r.out[d] = "indirect" => d \in PnBelow(s.everRec)
KeysRead(r, s) == s.rec \subseteq r.keys /\ r.keys \subseteq s.everRec
ListOK(r, s) ==
    /\ r.op \in LsOps => r.opt \in {"all", "recursive", "direct", "indirect"}
    /\ r.op = "ls" => DOMAIN r.out = {}
    /\ r.op = "lsDir" => /\ r.opt \in {"all", "recursive"} /\ KeysRead(r, s) /\ DOMAIN r.out = r.keys
                         /\ \A d \in r.keys : r.out[d] = "recursive"
    /\ r.op = "lsRec" => /\ r.opt = "indirect" /\ s.dir \subseteq DOMAIN r.out /\ DOMAIN r.out \subseteq s.everDir
                         /\ \A d \in DOMAIN r.out : r.out[d] = "visited"
    /\ r.op = "lsWalk" => /\ r.opt \in {"all", "indirect"} /\ KeysRead(r, s) /\ r.keys \cup s.dir \subseteq DOMAIN r.out
                          /\ DOMAIN r.out \subseteq s.everRec \cup s.everDir
                          /\ \A d \in DOMAIN r.out :
                                /\ r.opt = "indirect" => r.out[d] = "visited"
                                /\ r.opt = "all" /\ d \in r.keys => r.out[d] = "recursive"
                                /\ r.opt = "all" /\ d \notin r.keys => r.out[d] = "direct" /\ d \in s.everDir
    /\ r.op = "lsKeys" \/ Done(r, LsOps \cup {"lsKeys"}) => TypesTrue(r, s)
    /\ Done(r, LsOps) =>
            /\ r.opt \in {"all", "recursive"} => s.rec \subseteq Listed(r, "recursive")
            /\ r.opt \in {"all", "direct"} => s.dir \subseteq Listed(r, "direct") \cup s.everRec
            /\ r.opt \in {"all", "indirect"} => PnBelow(s.rec) \ (s.everRec \cup s.everDir) \subseteq Listed(r, "indirect")
            /\ Listed(r, "indirect") \cap (s.rec \cup s.dir) = {}

(* verify: a status is right, also of a part that is shared; so is a frame *)
(* of the stack, about the links it is through with.                       *)
Accepted(r, have) == have \ (IF r.opt = "api" THEN {} ELSE PnInvalid)
StatusOK(v, d, all, some) ==
    /\ v.ok => PnReach[d] \subseteq all
    /\ ~v.ok => ~(PnReach[d] \subseteq some)
    /\ v.bad \subseteq PnReach[d] \ some
Frames == [links : Seq(PnCids), ok : BOOLEAN, bad : SUBSET PnCids, cid : SUBSET PnCids]
FrameOf(f, d, all, some) ==
    /\ f.cid = {d} /\ d \in all /\ Images(f.links) \subseteq Images(PnLinks[d])
    /\ f.ok => \A e \in Images(PnLinks[d]) : e \in Images(f.links) \/ PnReach[e] \subseteq all
    /\ ~f.ok => ~(PnReach[d] \subseteq some)
    /\ f.bad \subseteq PnReach[d] \ some
FrameOK(f, all, some) == \E d \in PnCids : FrameOf(f, d, all, some)
OutOK(r, all, some) == \A d \in DOMAIN r.out : StatusOK(r.out[d], d, all, some) /\ r.out[d].ok \in BOOLEAN /\ r.out[d].bad \subseteq PnCids
StackOK(r, all, some) ==
    /\ r.stack \in Seq(Frames) /\ Len(r.stack) > 0
    /\ r.stack[1].cid = {} /\ r.keys \subseteq DOMAIN r.out \cup Images(r.stack[1].links)
    /\ \A i \in 2..Len(r.stack) : FrameOK(r.stack[i], all, some)
VerifyOK(r, s) ==
    /\ r.op = "verify" => DOMAIN r.out = {}
    /\ r.op = "verifying" => StackOK(r, Accepted(r, s.everHave), Accepted(r, s.have))
    /\ r.op = "verifying" \/ Done(r, {"verify"}) => OutOK(r, Accepted(r, s.everHave), Accepted(r, s.have))

JobParts(r, s) == ArgsOK(r, s) /\ ListOK(r, s) /\ VerifyOK(r, s)

PinsInv ==
    /\ pnRec \subseteq PnCids /\ pnDir \subseteq PnCids /\ pnHave \subseteq PnCids
    /\ pnRuns \in 0..MaxPinCmds /\ pnEvents \in 0..MaxBlockEvents
    /\ pnJob = [c \in PnClients |-> pnJob[c]] /\ pnSaw = [c \in PnClients |-> pnSaw[c]]
    /\ \A c \in PnClients : /\ CmdTypes(pnJob[c]) /\ SawTypes(pnSaw[c]) /\ JobParts(pnJob[c], pnSaw[c])
                            /\ Sees(pnJob[c], pnSaw[c], pnRec, pnDir, pnHave)

\* What was true of what a command has seen stays true of more.
LEMMA StatusLater ==
    ASSUME NEW v, NEW d, NEW all, NEW some, NEW all2, NEW some2, StatusOK(v, d, all, some), all \subseteq all2, some2 \subseteq some
    PROVE  StatusOK(v, d, all2, some2)
BY DEF StatusOK

LEMMA FrameLater ==
    ASSUME NEW f, NEW all, NEW some, NEW all2, NEW some2, FrameOK(f, all, some), all \subseteq all2, some2 \subseteq some
    PROVE  FrameOK(f, all2, some2)
<1>1. PICK d \in PnCids : FrameOf(f, d, all, some)
  BY DEF FrameOK
<1>2. FrameOf(f, d, all2, some2)
  BY <1>1 DEF FrameOf
<1> QED BY <1>2 DEF FrameOK

LEMMA VerifyLater ==
    ASSUME NEW r, NEW s, NEW t, VerifyOK(r, s), Later(s, t) PROVE VerifyOK(r, t)
<1> DEFINE all == Accepted(r, s.everHave)
           some == Accepted(r, s.have)
           all2 == Accepted(r, t.everHave)
           some2 == Accepted(r, t.have)
<1>1. all \subseteq all2 /\ some2 \subseteq some
  BY DEF Later, Accepted
<1>2. r.op = "verifying" => StackOK(r, all, some)
  BY DEF VerifyOK
<1>3. r.op = "verifying" \/ Done(r, {"verify"}) => OutOK(r, all, some)
  BY DEF VerifyOK
<1>4. r.op = "verify" => DOMAIN r.out = {}
  BY DEF VerifyOK
<1>5. (r.op = "verifying" => StackOK(r, all2, some2)) /\ (r.op = "verifying" \/ Done(r, {"verify"}) => OutOK(r, all2, some2))
  <2> HIDE DEF all, some, all2, some2
  <2>1. ASSUME StackOK(r, all, some) PROVE StackOK(r, all2, some2)
    BY <1>1, <2>1, FrameLater DEF StackOK
  <2>2. ASSUME OutOK(r, all, some) PROVE OutOK(r, all2, some2)
    BY <1>1, <2>2, StatusLater DEF OutOK
  <2> QED BY <1>2, <1>3, <2>1, <2>2
<1> QED BY <1>4, <1>5 DEF VerifyOK

LEMMA PartsLater ==
    ASSUME NEW r, NEW s, NEW t, JobParts(r, s), Later(s, t) PROVE JobParts(r, t)
<1>1. ArgsOK(r, s) /\ ListOK(r, s) /\ VerifyOK(r, s)
  BY DEF JobParts
<1>2. ArgsOK(r, t)
  BY <1>1 DEF ArgsOK, Later, WasPinned
<1>3. ListOK(r, t)
  <2>1. PnBelow(s.everRec) \subseteq PnBelow(t.everRec) /\ PnBelow(t.rec) \subseteq PnBelow(s.rec)
    BY BelowMore DEF Later
  <2>2. TypesTrue(r, s) => TypesTrue(r, t)
    BY <2>1 DEF TypesTrue, Later
  <2>3. KeysRead(r, s) => KeysRead(r, t)
    BY DEF KeysRead, Later
  <2> QED BY <1>1, <2>1, <2>2, <2>3 DEF ListOK, Later
<1> QED BY <1>1, <1>2, <1>3, VerifyLater DEF JobParts

\* What is noted beside the commands bounds the pins and blocks they see.
LEMMA NotedLater ==
    ASSUME PinsInv, Noted, pnRec' \subseteq PnCids, pnDir' \subseteq PnCids
    PROVE  /\ pnSaw' = [c \in PnClients |-> pnSaw'[c]]
           /\ \A c \in PnClients : /\ SawTypes(pnSaw'[c]) /\ Later(pnSaw[c], pnSaw'[c])
                                   /\ Sees(pnJob[c], pnSaw'[c], pnRec', pnDir', pnHave')
<1> DEFINE seen(c) == [rec |-> pnSaw[c].rec \cap pnRec', dir |-> pnSaw[c].dir \cap pnDir', have |-> pnSaw[c].have \cap pnHave',
                       everRec |-> pnSaw[c].everRec \cup pnRec', everDir |-> pnSaw[c].everDir \cup pnDir',
                       everHave |-> pnSaw[c].everHave \cup (IF pnJob[c].op \in {"verify", "verifying"} THEN pnHave' ELSE {})]
<1>1. pnSaw' = [c \in PnClients |-> IF ~Running(c) THEN pnSaw[c] ELSE seen(c)]
  <2> DEFINE note == [rec |-> pnRec', dir |-> pnDir', have |-> pnHave']
  <2>1. note.rec = pnRec' /\ note.dir = pnDir' /\ note.have = pnHave'
    OBVIOUS
  <2> HIDE DEF note
  <2>2. \E now \in {note} : pnSaw' = [c \in PnClients |->
            IF ~Running(c) THEN pnSaw[c]
            ELSE [rec |-> pnSaw[c].rec \cap now.rec, dir |-> pnSaw[c].dir \cap now.dir, have |-> pnSaw[c].have \cap now.have,
                  everRec |-> pnSaw[c].everRec \cup now.rec, everDir |-> pnSaw[c].everDir \cup now.dir,
                  everHave |-> pnSaw[c].everHave \cup (IF pnJob[c].op \in {"verify", "verifying"} THEN now.have ELSE {})]]
    BY Zenon DEF Noted, note
  <2> QED BY <2>1, <2>2
<1>2. ASSUME NEW c \in PnClients
      PROVE  /\ SawTypes(pnSaw'[c]) /\ Later(pnSaw[c], pnSaw'[c])
             /\ Sees(pnJob[c], pnSaw'[c], pnRec', pnDir', pnHave')
  <2>1. SawTypes(pnSaw[c]) /\ Sees(pnJob[c], pnSaw[c], pnRec, pnDir, pnHave)
    BY DEF PinsInv
  <2>2. CASE ~Running(c)
    <3>1. pnSaw'[c] = pnSaw[c]
      BY <1>1, <2>2
    <3> QED BY <2>1, <2>2, <3>1 DEF Later, Sees, Running
  <2>3. CASE Running(c)
    <3>1. pnSaw'[c] = seen(c)
      BY <1>1, <2>3
    <3> DEFINE t == pnSaw'[c]
    <3>2. /\ t = [rec |-> t.rec, dir |-> t.dir, have |-> t.have, everRec |-> t.everRec, everDir |-> t.everDir, everHave |-> t.everHave]
          /\ t.rec = pnSaw[c].rec \cap pnRec' /\ t.dir = pnSaw[c].dir \cap pnDir' /\ t.have = pnSaw[c].have \cap pnHave'
          /\ t.everRec = pnSaw[c].everRec \cup pnRec' /\ t.everDir = pnSaw[c].everDir \cup pnDir'
          /\ t.everHave = pnSaw[c].everHave \cup (IF pnJob[c].op \in {"verify", "verifying"} THEN pnHave' ELSE {})
      BY <3>1
    <3> HIDE DEF t
    <3>3. SawTypes(t)
      BY <2>1, <3>2 DEF SawTypes
    <3>4. Later(pnSaw[c], t)
      BY <3>2 DEF Later
    <3>5. Sees(pnJob[c], t, pnRec', pnDir', pnHave')
      BY <3>2 DEF Sees, Walking
    <3> QED BY <3>3, <3>4, <3>5 DEF t
  <2> QED BY <2>2, <2>3
<1>3. pnSaw' = [c \in PnClients |-> pnSaw'[c]]
  BY <1>1
<1> QED BY <1>2, <1>3

\* A step of one command, that the others only see.
LEMMA CmdMoves ==
    ASSUME PinsInv, NEW c \in PnClients, NEW j, pnJob' = [pnJob EXCEPT ![c] = j],
           pnRec' \subseteq PnCids, pnDir' \subseteq PnCids, pnHave' \subseteq PnCids,
           pnRuns' \in 0..MaxPinCmds, pnEvents' \in 0..MaxBlockEvents,
           pnSaw' = [x \in PnClients |-> pnSaw'[x]],
           \A x \in PnClients : /\ SawTypes(pnSaw'[x]) /\ Later(pnSaw[x], pnSaw'[x])
                                /\ Sees(pnJob[x], pnSaw'[x], pnRec', pnDir', pnHave'),
           CmdTypes(j), JobParts(j, pnSaw'[c]),
           j.op = "done" \/ (Running(c) /\ (Walking(j) => Walking(pnJob[c])))
    PROVE  PinsInv'
<1>1. pnJob' = [x \in PnClients |-> IF x = c THEN j ELSE pnJob[x]]
  BY DEF PinsInv
<1>2. pnJob' = [x \in PnClients |-> pnJob'[x]] /\ pnJob'[c] = j /\ \A x \in PnClients : x # c => pnJob'[x] = pnJob[x]
  BY <1>1
<1>3. Sees(j, pnSaw'[c], pnRec', pnDir', pnHave')
  BY DEF Sees, Running
<1>4. ASSUME NEW x \in PnClients
      PROVE  /\ CmdTypes(pnJob'[x]) /\ JobParts(pnJob'[x], pnSaw'[x])
             /\ Sees(pnJob'[x], pnSaw'[x], pnRec', pnDir', pnHave')
  <2>1. CASE x = c
    BY <1>2, <1>3, <2>1
  <2>2. CASE x # c
    <3>1. CmdTypes(pnJob[x]) /\ JobParts(pnJob[x], pnSaw[x]) /\ pnJob'[x] = pnJob[x]
      BY <1>2, <2>2 DEF PinsInv
    <3> QED BY <3>1, PartsLater
  <2> QED BY <2>1, <2>2
<1> QED BY <1>2, <1>4 DEF PinsInv

LEMMA CmdStep ==
    ASSUME PinsInv, NEW c \in PnClients, NEW j, PnStep(c, j), CmdTypes(j), JobParts(j, pnSaw[c]),
           j.op = "done" \/ (Running(c) /\ (Walking(j) => Walking(pnJob[c])))
    PROVE  PinsInv'
<1>1. pnJob' = [pnJob EXCEPT ![c] = j] /\ UNCHANGED <<pnRec, pnDir, pnHave, pnSaw, pnRuns, pnEvents>>
  BY DEF PnStep, SetJob
<1>2. pnSaw' = [x \in PnClients |-> pnSaw'[x]]
  BY <1>1 DEF PinsInv
<1>3. \A x \in PnClients : /\ SawTypes(pnSaw'[x]) /\ Later(pnSaw[x], pnSaw'[x])
                           /\ Sees(pnJob[x], pnSaw'[x], pnRec', pnDir', pnHave')
  BY <1>1 DEF PinsInv, Later
<1>4. pnRec' \subseteq PnCids /\ pnDir' \subseteq PnCids /\ pnHave' \subseteq PnCids /\ pnRuns' \in 0..MaxPinCmds /\ pnEvents' \in 0..MaxBlockEvents
  BY <1>1 DEF PinsInv
<1> QED BY <1>1, <1>2, <1>3, <1>4, CmdMoves

LEMMA NotedStep ==
    ASSUME PinsInv, NEW c \in PnClients, NEW j, SetJob(c, j), UNCHANGED <<pnRuns, pnEvents>>, Noted,
           pnRec' \subseteq PnCids, pnDir' \subseteq PnCids, pnHave' \subseteq PnCids,
           CmdTypes(j), JobParts(j, pnSaw'[c]),
           j.op = "done" \/ (Running(c) /\ (Walking(j) => Walking(pnJob[c])))
    PROVE  PinsInv'
<1>1. pnJob' = [pnJob EXCEPT ![c] = j] /\ pnRuns' \in 0..MaxPinCmds /\ pnEvents' \in 0..MaxBlockEvents
  BY DEF SetJob, PinsInv
<1> QED BY <1>1, NotedLater, CmdMoves

LEMMA EndTypes ==
    ASSUME NEW j, CmdTypes(j), NEW ok
    PROVE  LET e == PnEnd(j, ok)
           IN /\ CmdTypes(e) /\ e.op = "done" /\ e.ok = ok /\ e.was = j.op
              /\ e.opt = j.opt /\ e.todo = j.todo /\ e.args = j.args /\ e.keys = j.keys /\ e.out = j.out
<1> DEFINE e == PnEnd(j, ok)
<1>1. PnIs(j)
  BY DEF CmdTypes
<1>0. e = [j EXCEPT !.op = "done", !.ok = ok, !.was = j.op]
  BY DEF PnEnd
<1> HIDE DEF e
<1>2. /\ PnIs(e) /\ e.op = "done" /\ e.ok = ok /\ e.was = j.op
      /\ e.opt = j.opt /\ e.todo = j.todo /\ e.args = j.args /\ e.keys = j.keys /\ e.out = j.out
  BY <1>0, <1>1 DEF PnIs
<1>3. CmdTypes(e)
  BY <1>2 DEF CmdTypes
<1> QED BY <1>2, <1>3 DEF e

LEMMA EndFails ==
    ASSUME NEW j, CmdTypes(j), NEW no, ~no, NEW s
    PROVE  CmdTypes(PnEnd(j, no)) /\ PnEnd(j, no).op = "done" /\ JobParts(PnEnd(j, no), s)
<1>1. CmdTypes(PnEnd(j, no)) /\ PnEnd(j, no).op = "done" /\ ~PnEnd(j, no).ok
  BY EndTypes
<1> DEFINE e == PnEnd(j, no)
<1> HIDE DEF e
<1>2. e.op = "done" /\ ~e.ok
  BY <1>1 DEF e
<1>3. JobParts(e, s)
  BY <1>2 DEF JobParts, ArgsOK, ListOK, VerifyOK, Done, LsOps
<1> QED BY <1>1, <1>3 DEF e

LEMMA PinInit == PnInit => PinsInv
<1> SUFFICES ASSUME PnInit PROVE PinsInv
  OBVIOUS
<1>1. PICK s \in PnStarts : pnRec = s[1] /\ pnDir = s[2]
  BY DEF PnInit
<1>2. s \in (SUBSET PnCids) \X (SUBSET PnCids)
  BY PinAssumption
<1>3. pnRec \subseteq PnCids /\ pnDir \subseteq PnCids /\ pnHave \subseteq PnCids
  BY <1>1, <1>2 DEF PnInit
<1>4. pnRuns \in 0..MaxPinCmds /\ pnEvents \in 0..MaxBlockEvents
  BY PinAssumption DEF PnInit
<1> DEFINE seen == Now({})
<1>5. SawTypes(seen)
  BY <1>3 DEF SawTypes, Now
<1>6. /\ CmdTypes(Idle) /\ Idle.op = "idle"
  BY DEF CmdTypes, PnIs, Idle, NoOut
<1>7. JobParts(Idle, seen)
  BY <1>6 DEF JobParts, ArgsOK, ListOK, VerifyOK, Done, LsOps
<1>8. Sees(Idle, seen, pnRec, pnDir, pnHave)
  BY <1>6 DEF Sees
<1>9. pnJob = [c \in PnClients |-> Idle] /\ pnSaw = [c \in PnClients |-> seen]
  BY DEF PnInit
<1> HIDE DEF seen
<1>10. \A c \in PnClients : pnJob[c] = Idle /\ pnSaw[c] = seen
  BY <1>9
<1>11. pnJob = [c \in PnClients |-> pnJob[c]] /\ pnSaw = [c \in PnClients |-> pnSaw[c]]
  BY <1>9
<1> QED BY <1>3, <1>4, <1>5, <1>6, <1>7, <1>8, <1>10, <1>11 DEF PinsInv

LEMMA BeginStep ==
    ASSUME PinsInv, NEW c \in PnClients, NEW op \in {"add", "rm", "update", "ls", "lsKeys", "verify"}, NEW opt,
           NEW args \in Seq(PnCids), PnBegin(c, op, opt, args),
           op = "ls" => opt \in {"all", "recursive", "direct", "indirect"}, op = "update" => Len(args) = 2
    PROVE  PinsInv'
<1> DEFINE j == [Idle EXCEPT !.op = op, !.opt = opt, !.todo = args, !.args = args]
           held == IF op = "verify" THEN pnHave ELSE {}
           seen == Now(held)
<1>1. /\ pnRuns < MaxPinCmds /\ pnRuns' = pnRuns + 1 /\ pnJob' = [pnJob EXCEPT ![c] = j] /\ pnSaw' = [pnSaw EXCEPT ![c] = seen]
      /\ UNCHANGED <<pnRec, pnDir, pnHave, pnEvents>>
  BY DEF PnBegin, SetJob
<1>0. j = [Idle EXCEPT !.op = op, !.opt = opt, !.todo = args, !.args = args]
  OBVIOUS
<1>i. PnIs(Idle) /\ Idle.keys = {} /\ Idle.out = NoOut
  BY DEF PnIs, Idle
<1> HIDE DEF j
<1>2. /\ PnIs(j) /\ j.op = op /\ j.opt = opt /\ j.todo = args /\ j.args = args /\ j.keys = {} /\ j.out = NoOut
  BY <1>0, <1>i DEF PnIs
<1>3. held \subseteq pnHave /\ (op = "verify" => held = pnHave)
  OBVIOUS
<1> HIDE DEF held
<1>4. /\ seen = [rec |-> seen.rec, dir |-> seen.dir, have |-> seen.have, everRec |-> seen.everRec, everDir |-> seen.everDir, everHave |-> seen.everHave]
      /\ seen.rec = pnRec /\ seen.dir = pnDir /\ seen.have = held /\ seen.everRec = pnRec /\ seen.everDir = pnDir /\ seen.everHave = held
  BY DEF Now
<1> HIDE DEF seen
<1>5. DOMAIN NoOut = {} /\ NoOut = [d \in DOMAIN NoOut |-> NoOut[d]]
  BY DEF NoOut
<1>6. CmdTypes(j)
  BY <1>2, <1>5 DEF CmdTypes
<1>7. SawTypes(seen) /\ Sees(j, seen, pnRec, pnDir, pnHave)
  BY <1>2, <1>3, <1>4 DEF SawTypes, Sees, Walking, PinsInv
<1>8. JobParts(j, seen)
  <2>1. ArgsOK(j, seen)
    BY <1>2 DEF ArgsOK, Done
  <2>2. ListOK(j, seen)
    BY <1>2, <1>5 DEF ListOK, Done, LsOps, TypesTrue
  <2>3. VerifyOK(j, seen)
    BY <1>2, <1>5 DEF VerifyOK, Done
  <2> QED BY <2>1, <2>2, <2>3 DEF JobParts
<1>9. pnRuns' \in 0..MaxPinCmds
  BY <1>1, PinAssumption DEF PinsInv
<1>10. pnJob' = [x \in PnClients |-> IF x = c THEN j ELSE pnJob[x]] /\ pnSaw' = [x \in PnClients |-> IF x = c THEN seen ELSE pnSaw[x]]
  BY <1>1 DEF PinsInv
<1>11. pnJob' = [x \in PnClients |-> pnJob'[x]] /\ pnSaw' = [x \in PnClients |-> pnSaw'[x]]
  BY <1>10
<1>12. ASSUME NEW x \in PnClients
       PROVE  CmdTypes(pnJob'[x]) /\ SawTypes(pnSaw'[x]) /\ JobParts(pnJob'[x], pnSaw'[x])
              /\ Sees(pnJob'[x], pnSaw'[x], pnRec, pnDir, pnHave)
  <2>1. CASE x = c
    BY <1>6, <1>7, <1>8, <1>10, <2>1
  <2>2. CASE x # c
    <3>1. pnJob'[x] = pnJob[x] /\ pnSaw'[x] = pnSaw[x]
      BY <1>10, <2>2
    <3> QED BY <3>1 DEF PinsInv
  <2> QED BY <2>1, <2>2
<1>13. pnRec' \subseteq PnCids /\ pnDir' \subseteq PnCids /\ pnHave' \subseteq PnCids /\ pnEvents' \in 0..MaxBlockEvents
  BY <1>1 DEF PinsInv
<1> QED BY <1>1, <1>9, <1>11, <1>12, <1>13 DEF PinsInv

\* The pinner keeps to the DAG, and pins what it said it did.
LEMMA PinDoes ==
    ASSUME PinsInv, NEW d \in PnCids, NEW recursive \in BOOLEAN, NEW ok \in BOOLEAN, PinnerPin(d, recursive, ok)
    PROVE  /\ pnRec' \subseteq PnCids /\ pnDir' \subseteq PnCids /\ pnHave' \subseteq PnCids
           /\ ok /\ recursive => d \in pnRec'
           /\ ok /\ ~recursive => d \in pnDir'
<1>1. PnReach[d] \subseteq PnCids
  BY ReachHas
<1> QED BY <1>1 DEF PinnerPin, PinsInv

LEMMA UnpinDoes ==
    ASSUME PinsInv, NEW d \in PnCids, NEW recursive \in BOOLEAN, NEW ok \in BOOLEAN, PinnerUnpin(d, recursive, ok)
    PROVE  /\ pnRec' \subseteq PnCids /\ pnDir' \subseteq PnCids /\ pnHave' \subseteq PnCids
           /\ ok => d \notin pnRec' /\ d \notin pnDir'
BY DEF PinnerUnpin, PinsInv

\* What a command that changes pins has at its next argument.
LEMMA Argument ==
    ASSUME PinsInv, NEW c \in PnClients, pnJob[c].todo # <<>>
    PROVE  LET j == pnJob[c]
               n == [j EXCEPT !.todo = Tail(j.todo)]
           IN /\ CmdTypes(j) /\ CmdTypes(n) /\ n.op = j.op /\ n.opt = j.opt /\ n.args = j.args /\ n.todo = Tail(j.todo)
              /\ Head(j.todo) \in PnCids /\ Images(j.todo) = {Head(j.todo)} \cup Images(n.todo)
              /\ Len(j.todo) = 1 => Images(j.todo) = {Head(j.todo)}
<1> DEFINE j == pnJob[c]
           tail == Tail(j.todo)
           n == [j EXCEPT !.todo = tail]
<1>1. CmdTypes(j)
  BY DEF PinsInv
<1>2. /\ Head(j.todo) \in PnCids /\ tail \in Seq(PnCids) /\ Images(j.todo) = {Head(j.todo)} \cup Images(tail)
      /\ Len(j.todo) = 1 => Images(j.todo) = {Head(j.todo)}
  BY <1>1, ImagesStep DEF CmdTypes
<1> HIDE DEF tail, j
<1>3. /\ PnIs(n) /\ n.op = j.op /\ n.opt = j.opt /\ n.args = j.args /\ n.todo = tail /\ n.keys = j.keys /\ n.out = j.out
  BY <1>1 DEF CmdTypes, PnIs
<1> HIDE DEF n
<1>4. CmdTypes(n)
  BY <1>1, <1>2, <1>3 DEF CmdTypes
<1> QED BY <1>1, <1>2, <1>3, <1>4 DEF n, tail, j

LEMMA Noting ==
    ASSUME PinsInv, NEW c \in PnClients, Noted, pnRec' \subseteq PnCids, pnDir' \subseteq PnCids
    PROVE  /\ CmdTypes(pnJob[c]) /\ JobParts(pnJob[c], pnSaw'[c]) /\ SawTypes(pnSaw'[c])
           /\ Sees(pnJob[c], pnSaw'[c], pnRec', pnDir', pnHave')
<1>1. CmdTypes(pnJob[c]) /\ JobParts(pnJob[c], pnSaw[c])
  BY DEF PinsInv
<1>2. SawTypes(pnSaw'[c]) /\ Later(pnSaw[c], pnSaw'[c]) /\ Sees(pnJob[c], pnSaw'[c], pnRec', pnDir', pnHave')
  BY NotedLater
<1> QED BY <1>1, <1>2, PartsLater

LEMMA AddManyStep ==
    ASSUME PinsInv, NEW c \in PnClients, NEW ok \in BOOLEAN, PinAddMany(c, ok) PROVE PinsInv'
<1> DEFINE j == pnJob[c]
           n == [j EXCEPT !.todo = Tail(j.todo)]
           d == Head(j.todo)
           deep == j.opt = "recursive"
           t == pnSaw'[c]
<1>0. PICK no : no = FALSE
  OBVIOUS
<1>1. /\ j.op = "add" /\ j.todo # <<>> /\ PinnerPin(d, deep, ok)
      /\ SetJob(c, IF ok THEN n ELSE PnEnd(j, no)) /\ UNCHANGED <<pnRuns, pnEvents>> /\ Noted
  BY <1>0 DEF PinAddMany
<1>2. /\ CmdTypes(j) /\ CmdTypes(n) /\ n.op = j.op /\ n.opt = j.opt /\ n.args = j.args
      /\ d \in PnCids /\ Images(j.todo) = {d} \cup Images(n.todo)
  BY <1>1, Argument
<1> HIDE DEF n, d
<1>3. /\ pnRec' \subseteq PnCids /\ pnDir' \subseteq PnCids /\ pnHave' \subseteq PnCids
      /\ ok /\ deep => d \in pnRec'
      /\ ok /\ ~deep => d \in pnDir'
  BY <1>1, <1>2, PinDoes
<1>4. JobParts(j, t) /\ Sees(j, t, pnRec', pnDir', pnHave')
  BY <1>1, <1>3, Noting
<1>5. CASE ok
  <2>1. d \in WasPinned(j, t)
    BY <1>1, <1>3, <1>4, <1>5 DEF WasPinned, Sees
  <2>2. Images(j.args) \subseteq Images(j.todo) \cup WasPinned(j, t)
    BY <1>1, <1>4 DEF JobParts, ArgsOK
  <2>3. WasPinned(n, t) = WasPinned(j, t)
    BY <1>2 DEF WasPinned
  <2> HIDE DEF j, t
  <2>4. JobParts(n, t)
    BY <1>1, <1>2, <2>1, <2>2, <2>3 DEF JobParts, ArgsOK, ListOK, VerifyOK, Done, LsOps
  <2>5. SetJob(c, n) /\ Running(c) /\ ~Walking(n)
    BY <1>1, <1>2, <1>5 DEF Running, Walking, j
  <2> QED BY <1>1, <1>2, <1>3, <2>4, <2>5, NotedStep DEF t
<1>6. CASE ~ok
  <2>1. SetJob(c, PnEnd(j, no)) /\ ~no
    BY <1>0, <1>1, <1>6
  <2>2. CmdTypes(PnEnd(j, no)) /\ PnEnd(j, no).op = "done" /\ JobParts(PnEnd(j, no), t)
    BY <1>2, <2>1, EndFails
  <2> QED BY <1>1, <1>3, <2>1, <2>2, NotedStep
<1> QED BY <1>5, <1>6

LEMMA AddCancelledStep ==
    ASSUME PinsInv, NEW c \in PnClients, PinAddCancelled(c) PROVE PinsInv'
<1> DEFINE j == pnJob[c]
           d == Head(j.todo)
           deep == j.opt = "recursive"
<1>0. PICK no : no = FALSE
  OBVIOUS
<1>1. /\ j.op = "add" /\ j.todo # <<>> /\ (UNCHANGED <<pnRec, pnDir, pnHave>> \/ PinnerPin(d, deep, ~no))
      /\ SetJob(c, PnEnd(j, no)) /\ UNCHANGED <<pnRuns, pnEvents>> /\ Noted
  BY <1>0 DEF PinAddCancelled
<1>2. CmdTypes(j) /\ d \in PnCids
  BY <1>1, Argument
<1>3. pnRec' \subseteq PnCids /\ pnDir' \subseteq PnCids /\ pnHave' \subseteq PnCids
  <2>1. CASE UNCHANGED <<pnRec, pnDir, pnHave>>
    BY <2>1 DEF PinsInv
  <2>2. CASE PinnerPin(d, deep, ~no)
    BY <1>2, <2>2, PinDoes
  <2> QED BY <1>1, <2>1, <2>2
<1>4. CmdTypes(PnEnd(j, no)) /\ PnEnd(j, no).op = "done" /\ JobParts(PnEnd(j, no), pnSaw'[c])
  BY <1>0, <1>2, EndFails
<1> QED BY <1>1, <1>3, <1>4, NotedStep

LEMMA AddEndStep ==
    ASSUME PinsInv, NEW c \in PnClients, PinAddEnd(c) PROVE PinsInv'
<1> DEFINE j == pnJob[c]
           s == pnSaw[c]
<1>0. PICK yes : yes = TRUE
  OBVIOUS
<1> DEFINE e == PnEnd(j, yes)
<1>1. j.op = "add" /\ j.todo = <<>> /\ PnStep(c, e)
  BY <1>0 DEF PinAddEnd
<1>2. CmdTypes(j) /\ JobParts(j, s)
  BY DEF PinsInv
<1>3. /\ CmdTypes(e) /\ e.op = "done" /\ e.ok = yes /\ e.was = j.op
      /\ e.opt = j.opt /\ e.args = j.args
  BY <1>2, EndTypes
<1> HIDE DEF e
<1>4. Images(j.args) \subseteq WasPinned(j, s)
  BY <1>1, <1>2, ImagesNone DEF JobParts, ArgsOK
<1>5. WasPinned(e, s) = WasPinned(j, s)
  BY <1>3 DEF WasPinned
<1>6. JobParts(e, s)
  <2> HIDE DEF j, s
  <2> QED BY <1>1, <1>3, <1>4, <1>5 DEF JobParts, ArgsOK, ListOK, VerifyOK, Done, LsOps
<1> QED BY <1>1, <1>3, <1>6, CmdStep

LEMMA RmStep ==
    ASSUME PinsInv, NEW c \in PnClients, NEW ok \in BOOLEAN, RmPin(c, ok) PROVE PinsInv'
<1> DEFINE j == pnJob[c]
           n == [j EXCEPT !.todo = Tail(j.todo)]
           d == Head(j.todo)
           deep == j.opt = "recursive"
           t == pnSaw'[c]
<1>0. PICK no, yes : no = FALSE /\ yes = TRUE
  OBVIOUS
<1> DEFINE e == PnEnd(j, yes)
<1>1. /\ j.op = "rm" /\ j.todo # <<>> /\ PinnerUnpin(d, deep, ok)
      /\ SetJob(c, IF ~ok THEN PnEnd(j, no) ELSE IF Len(j.todo) = 1 THEN e ELSE n)
      /\ UNCHANGED <<pnRuns, pnEvents>> /\ Noted
  BY <1>0 DEF RmPin
<1>2. /\ CmdTypes(j) /\ CmdTypes(n) /\ n.op = j.op /\ n.opt = j.opt /\ n.args = j.args
      /\ d \in PnCids /\ Images(j.todo) = {d} \cup Images(n.todo) /\ (Len(j.todo) = 1 => Images(j.todo) = {d})
  BY <1>1, Argument
<1> HIDE DEF n, d
<1>3. /\ pnRec' \subseteq PnCids /\ pnDir' \subseteq PnCids /\ pnHave' \subseteq PnCids
      /\ ok => d \notin pnRec' /\ d \notin pnDir'
  BY <1>1, <1>2, UnpinDoes
<1>4. JobParts(j, t) /\ Sees(j, t, pnRec', pnDir', pnHave')
  BY <1>1, <1>3, Noting
<1>5. Images(j.args) \cap (t.rec \cup t.dir) \subseteq Images(j.todo)
  BY <1>1, <1>4 DEF JobParts, ArgsOK
<1>6. ok => d \notin t.rec \cup t.dir
  BY <1>1, <1>3, <1>4 DEF Sees
<1>7. CASE ~ok
  <2>1. SetJob(c, PnEnd(j, no)) /\ ~no
    BY <1>0, <1>1, <1>7
  <2>2. CmdTypes(PnEnd(j, no)) /\ PnEnd(j, no).op = "done" /\ JobParts(PnEnd(j, no), t)
    BY <1>2, <2>1, EndFails
  <2> QED BY <1>1, <1>3, <2>1, <2>2, NotedStep
<1>8. CASE ok /\ Len(j.todo) = 1
  <2>1. SetJob(c, e)
    BY <1>1, <1>8
  <2>2. /\ CmdTypes(e) /\ e.op = "done" /\ e.was = j.op /\ e.args = j.args
    BY <1>2, EndTypes
  <2> HIDE DEF e
  <2>3. Images(e.args) \cap (t.rec \cup t.dir) = {}
    BY <1>2, <1>5, <1>6, <1>8, <2>2
  <2>4. JobParts(e, t)
    <3> HIDE DEF j, t
    <3> QED BY <1>1, <2>2, <2>3 DEF JobParts, ArgsOK, ListOK, VerifyOK, Done, LsOps
  <2> QED BY <1>1, <1>3, <2>1, <2>2, <2>4, NotedStep
<1>9. CASE ok /\ Len(j.todo) # 1
  <2>1. SetJob(c, n) /\ Running(c) /\ ~Walking(n)
    BY <1>1, <1>2, <1>9 DEF Running, Walking
  <2>2. Images(n.args) \cap (t.rec \cup t.dir) \subseteq Images(n.todo)
    BY <1>2, <1>5, <1>6, <1>9
  <2>3. JobParts(n, t)
    <3> HIDE DEF j, t
    <3> QED BY <1>1, <1>2, <2>2 DEF JobParts, ArgsOK, ListOK, VerifyOK, Done, LsOps
  <2> QED BY <1>1, <1>2, <1>3, <2>1, <2>3, NotedStep
<1> QED BY <1>7, <1>8, <1>9

LEMMA UpdateStep ==
    ASSUME PinsInv, NEW c \in PnClients, NEW ok \in BOOLEAN, UpdatePin(c, ok) PROVE PinsInv'
<1> DEFINE j == pnJob[c]
           from == j.todo[1]
           to == j.todo[2]
           unpin == j.opt = "unpin"
           e == PnEnd(j, ok)
           t == pnSaw'[c]
<1>1. j.op = "update" /\ PinnerUpdate(from, to, unpin, ok) /\ SetJob(c, e) /\ UNCHANGED <<pnRuns, pnEvents>> /\ Noted
  BY DEF UpdatePin
<1>2. CmdTypes(j) /\ JobParts(j, pnSaw[c])
  BY DEF PinsInv
<1>3. from \in PnCids /\ to \in PnCids
  <2>1. j.todo \in Seq(PnCids) /\ Len(j.todo) = 2
    BY <1>1, <1>2 DEF CmdTypes, JobParts, ArgsOK
  <2> QED BY <2>1
<1> HIDE DEF from, to, unpin
<1>4. PnReach[to] \subseteq PnCids
  BY <1>3, ReachHas
<1>5. pnRec' \subseteq PnCids /\ pnDir' \subseteq PnCids /\ pnHave' \subseteq PnCids
  BY <1>1, <1>3, <1>4 DEF PinnerUpdate, PinsInv
<1>6. CmdTypes(e) /\ e.op = "done" /\ e.was = j.op
  BY <1>2, EndTypes
<1> HIDE DEF e
<1>7. JobParts(e, t)
  <2> HIDE DEF j, t
  <2> QED BY <1>1, <1>6 DEF JobParts, ArgsOK, ListOK, VerifyOK, Done, LsOps
<1> QED BY <1>1, <1>5, <1>6, <1>7, NotedStep

LEMMA BlocksStep ==
    ASSUME PinsInv, NEW S \in SUBSET PnCids, BlocksBecome(S) PROVE PinsInv'
<1>1. /\ pnHave' = S /\ pnEvents < MaxBlockEvents /\ pnEvents' = pnEvents + 1
      /\ UNCHANGED <<pnRec, pnDir, pnJob, pnRuns>> /\ Noted
  BY DEF BlocksBecome
<1>2. pnRec' \subseteq PnCids /\ pnDir' \subseteq PnCids /\ pnHave' \subseteq PnCids /\ pnRuns' \in 0..MaxPinCmds
  BY <1>1 DEF PinsInv
<1>3. pnEvents' \in 0..MaxBlockEvents
  BY <1>1, PinAssumption DEF PinsInv
<1>4. pnSaw' = [c \in PnClients |-> pnSaw'[c]] /\ pnJob' = [c \in PnClients |-> pnJob'[c]]
  BY <1>1, <1>2, NotedLater DEF PinsInv
<1>5. \A c \in PnClients : /\ CmdTypes(pnJob'[c]) /\ JobParts(pnJob'[c], pnSaw'[c]) /\ SawTypes(pnSaw'[c])
                           /\ Sees(pnJob'[c], pnSaw'[c], pnRec', pnDir', pnHave')
  BY <1>1, <1>2, Noting
<1> QED BY <1>2, <1>3, <1>4, <1>5 DEF PinsInv

LEMMA PartsHere ==
    ASSUME PinsInv, NEW c \in PnClients
    PROVE  /\ CmdTypes(pnJob[c]) /\ SawTypes(pnSaw[c]) /\ ArgsOK(pnJob[c], pnSaw[c]) /\ ListOK(pnJob[c], pnSaw[c])
           /\ VerifyOK(pnJob[c], pnSaw[c]) /\ Sees(pnJob[c], pnSaw[c], pnRec, pnDir, pnHave)
BY DEF PinsInv, JobParts

LEMMA LsKeysStep ==
    ASSUME PinsInv, NEW c \in PnClients, PinLsKeys(c) PROVE PinsInv'
<1> DEFINE j == pnJob[c]
           s == pnSaw[c]
           d == Head(j.todo)
           tail == Tail(j.todo)
           type == PinType(d, j.opt)
           got == [x \in DOMAIN j.out \cup {d} |-> IF x = d THEN type ELSE j.out[x]]
           m == [j EXCEPT !.out = got]
           n == [j EXCEPT !.todo = tail, !.out = got]
<1>0. PICK no, yes : no = FALSE /\ yes = TRUE
  OBVIOUS
<1> DEFINE e == PnEnd(m, yes)
<1>1. /\ j.op = "lsKeys" /\ j.todo # <<>>
      /\ PnStep(c, IF type = "none" THEN PnEnd(j, no) ELSE IF Len(j.todo) = 1 THEN e ELSE n)
  BY <1>0 DEF PinLsKeys
<1>2. CmdTypes(j) /\ d \in PnCids /\ tail \in Seq(PnCids)
  BY <1>1, Argument, ImagesStep DEF CmdTypes
<1>3. TypesTrue(j, s) /\ pnRec \subseteq s.everRec /\ pnDir \subseteq s.everDir
  BY <1>1, PartsHere DEF ListOK, Sees
<1>4. PnBelow(pnRec) \subseteq PnBelow(s.everRec)
  BY <1>3, BelowMore
<1>5. /\ type \in {"recursive", "direct", "indirect", "none"}
      /\ type = "recursive" => d \in s.everRec
      /\ type = "direct" => d \in s.everDir
      /\ type = "indirect" => d \in PnBelow(s.everRec)
  BY <1>3, <1>4 DEF PinType
<1> HIDE DEF d, tail, type, s
<1>6. /\ DOMAIN got = DOMAIN j.out \cup {d} /\ got = [x \in DOMAIN got |-> got[x]] /\ got[d] = type
      /\ \A x \in DOMAIN j.out : x # d => got[x] = j.out[x]
  OBVIOUS
<1> HIDE DEF got
<1>e. m = [j EXCEPT !.out = got] /\ n = [j EXCEPT !.todo = tail, !.out = got]
  OBVIOUS
<1> HIDE DEF m, n
<1>7. /\ PnIs(m) /\ m.op = j.op /\ m.opt = j.opt /\ m.todo = j.todo /\ m.args = j.args /\ m.keys = j.keys /\ m.out = got
      /\ PnIs(n) /\ n.op = j.op /\ n.opt = j.opt /\ n.todo = tail /\ n.args = j.args /\ n.keys = j.keys /\ n.out = got
  <2> HIDE DEF j
  <2> QED BY <1>2, <1>e DEF CmdTypes, PnIs
<1>8. CmdTypes(m) /\ CmdTypes(n)
  BY <1>2, <1>6, <1>7 DEF CmdTypes
<1>9. CASE type = "none"
  <2>1. PnStep(c, PnEnd(j, no))
    BY <1>1, <1>9
  <2>2. CmdTypes(PnEnd(j, no)) /\ PnEnd(j, no).op = "done" /\ JobParts(PnEnd(j, no), s)
    BY <1>0, <1>2, EndFails
  <2> QED BY <2>1, <2>2, CmdStep DEF s
<1>10. ASSUME type # "none", NEW r, CmdTypes(r), r.out = got, r.op = "lsKeys" \/ (r.op = "done" /\ r.was = "lsKeys")
       PROVE  JobParts(r, s)
  <2>1. TypesTrue(r, s)
    <3> HIDE DEF j
    <3> QED BY <1>3, <1>5, <1>6, <1>10 DEF TypesTrue
  <2> HIDE DEF j
  <2> QED BY <1>10, <2>1 DEF JobParts, ArgsOK, ListOK, VerifyOK, Done, LsOps
<1>11. CASE type # "none" /\ Len(j.todo) = 1
  <2>1. PnStep(c, e)
    BY <1>1, <1>11
  <2>2. CmdTypes(e) /\ e.op = "done" /\ e.was = "lsKeys" /\ e.out = got
    BY <1>1, <1>7, <1>8, EndTypes
  <2> HIDE DEF e
  <2>3. JobParts(e, s)
    BY <1>10, <1>11, <2>2
  <2> QED BY <2>1, <2>2, <2>3, CmdStep DEF s
<1>12. CASE type # "none" /\ Len(j.todo) # 1
  <2>1. PnStep(c, n) /\ Running(c) /\ ~Walking(n)
    BY <1>1, <1>7, <1>12 DEF Running, Walking
  <2>2. JobParts(n, s)
    BY <1>1, <1>7, <1>8, <1>10, <1>12
  <2> QED BY <1>8, <2>1, <2>2, CmdStep DEF s
<1> QED BY <1>9, <1>11, <1>12

\* The first type that is found stays.
LEMMA AddKeys ==
    ASSUME NEW out, NEW more, NEW t
    PROVE  LET r == AddToResultKeys(out, more, t)
           IN /\ DOMAIN r = DOMAIN out \cup more /\ r = [x \in DOMAIN r |-> r[x]]
              /\ \A x \in DOMAIN out : r[x] = out[x]
              /\ \A x \in more : x \notin DOMAIN out => r[x] = t
BY DEF AddToResultKeys

LEMMA DirectRead ==
    ASSUME PinsInv, NEW c \in PnClients
    PROVE  LET j == pnJob[c]
               n == LsDirect(j)
           IN /\ CmdTypes(n) /\ n.op = "lsWalk" /\ n.opt = j.opt /\ n.keys = j.keys
              /\ DOMAIN n.out = DOMAIN j.out \cup pnDir
              /\ \A x \in DOMAIN j.out : n.out[x] = j.out[x]
              /\ \A x \in pnDir : x \notin DOMAIN j.out => n.out[x] = IF j.opt = "indirect" THEN "visited" ELSE "direct"
<1> DEFINE j == pnJob[c]
           n == LsDirect(j)
           type == IF j.opt = "indirect" THEN "visited" ELSE "direct"
           out == AddToResultKeys(j.out, pnDir, type)
<1>1. CmdTypes(j) /\ pnDir \subseteq PnCids
  BY DEF PinsInv
<1>2. n = [j EXCEPT !.op = "lsWalk", !.out = out]
  BY DEF LsDirect
<1> HIDE DEF type
<1>3. /\ DOMAIN out = DOMAIN j.out \cup pnDir /\ out = [x \in DOMAIN out |-> out[x]]
      /\ \A x \in DOMAIN j.out : out[x] = j.out[x]
      /\ \A x \in pnDir : x \notin DOMAIN j.out => out[x] = type
  BY AddKeys
<1> HIDE DEF n, out, j
<1>4. /\ PnIs(n) /\ n.op = "lsWalk" /\ n.opt = j.opt /\ n.todo = j.todo /\ n.args = j.args /\ n.keys = j.keys /\ n.out = out
  BY <1>1, <1>2 DEF CmdTypes, PnIs
<1>5. CmdTypes(n)
  BY <1>1, <1>3, <1>4 DEF CmdTypes
<1> QED BY <1>3, <1>4, <1>5 DEF n, j, type

LEMMA ReadRecursive ==
    ASSUME PinsInv, NEW c \in PnClients
    PROVE  LET j == pnJob[c]
               n == LsRecursive(j)
           IN /\ CmdTypes(n) /\ n.op = "lsDir" /\ n.opt = j.opt /\ n.keys = pnRec
              /\ DOMAIN n.out = DOMAIN j.out \cup pnRec
              /\ \A x \in DOMAIN j.out : n.out[x] = j.out[x]
              /\ \A x \in pnRec : x \notin DOMAIN j.out => n.out[x] = IF j.opt = "indirect" THEN "visited" ELSE "recursive"
<1> DEFINE j == pnJob[c]
           n == LsRecursive(j)
           type == IF j.opt = "indirect" THEN "visited" ELSE "recursive"
           out == AddToResultKeys(j.out, pnRec, type)
<1>1. CmdTypes(j) /\ pnRec \subseteq PnCids
  BY DEF PinsInv
<1>2. n = [j EXCEPT !.op = "lsDir", !.keys = pnRec, !.out = out]
  BY DEF LsRecursive
<1> HIDE DEF type
<1>3. /\ DOMAIN out = DOMAIN j.out \cup pnRec /\ out = [x \in DOMAIN out |-> out[x]]
      /\ \A x \in DOMAIN j.out : out[x] = j.out[x]
      /\ \A x \in pnRec : x \notin DOMAIN j.out => out[x] = type
  BY AddKeys
<1> HIDE DEF n, out, j
<1>4. /\ PnIs(n) /\ n.op = "lsDir" /\ n.opt = j.opt /\ n.todo = j.todo /\ n.args = j.args /\ n.keys = pnRec /\ n.out = out
  BY <1>1, <1>2 DEF CmdTypes, PnIs
<1>5. CmdTypes(n)
  BY <1>1, <1>3, <1>4 DEF CmdTypes
<1> QED BY <1>3, <1>4, <1>5 DEF n, j, type

\* The same record one step on.
LEMMA NextOp ==
    ASSUME NEW n, CmdTypes(n), NEW op
    PROVE  LET m == [n EXCEPT !.op = op]
           IN CmdTypes(m) /\ m.op = op /\ m.opt = n.opt /\ m.keys = n.keys /\ m.out = n.out
<1> DEFINE m == [n EXCEPT !.op = op]
<1>1. PnIs(m) /\ m.op = op /\ m.opt = n.opt /\ m.todo = n.todo /\ m.args = n.args /\ m.keys = n.keys /\ m.out = n.out
  BY DEF CmdTypes, PnIs
<1> HIDE DEF m
<1>2. CmdTypes(m)
  BY <1>1 DEF CmdTypes
<1> QED BY <1>1, <1>2 DEF m

\* pin ls reads one kind of pins,
LEMMA LsFirstStep ==
    ASSUME PinsInv, NEW c \in PnClients, LsFirst(c) PROVE PinsInv'
<1> DEFINE j == pnJob[c]
           s == pnSaw[c]
           dir == LsDirect(j)
           rec == LsRecursive(j)
           m == [dir EXCEPT !.op = "lsRec"]
<1>0. PICK yes : yes = TRUE
  OBVIOUS
<1> DEFINE e == PnEnd(dir, yes)
<1>1. /\ j.op = "ls"
      /\ PnStep(c, IF j.opt \in {"all", "recursive"} THEN rec ELSE IF j.opt = "direct" THEN e ELSE m)
  BY <1>0 DEF LsFirst
<1>2. /\ j.opt \in {"all", "recursive", "direct", "indirect"} /\ DOMAIN j.out = {}
      /\ s.rec \subseteq pnRec /\ pnRec \subseteq s.everRec /\ s.dir \subseteq pnDir /\ pnDir \subseteq s.everDir /\ Running(c)
  BY <1>1, PartsHere DEF ListOK, LsOps, Sees, Running
<1>3. /\ CmdTypes(dir) /\ dir.op = "lsWalk" /\ dir.opt = j.opt /\ dir.keys = j.keys
      /\ DOMAIN dir.out = DOMAIN j.out \cup pnDir
      /\ \A x \in pnDir : x \notin DOMAIN j.out => dir.out[x] = IF j.opt = "indirect" THEN "visited" ELSE "direct"
  BY DirectRead
<1>4. /\ CmdTypes(rec) /\ rec.op = "lsDir" /\ rec.opt = j.opt /\ rec.keys = pnRec
      /\ DOMAIN rec.out = DOMAIN j.out \cup pnRec
      /\ \A x \in pnRec : x \notin DOMAIN j.out => rec.out[x] = IF j.opt = "indirect" THEN "visited" ELSE "recursive"
  BY ReadRecursive
<1> HIDE DEF dir, rec
<1>5. CmdTypes(m) /\ m.op = "lsRec" /\ m.opt = dir.opt /\ m.keys = dir.keys /\ m.out = dir.out
  BY <1>3, NextOp
<1>6. CmdTypes(e) /\ e.op = "done" /\ e.was = "lsWalk" /\ e.opt = dir.opt /\ e.out = dir.out
  BY <1>3, EndTypes
<1> HIDE DEF m, e
<1>7. CASE j.opt \in {"all", "recursive"}
  <2>1. ListOK(rec, s)
    <3>1. KeysRead(rec, s) /\ DOMAIN rec.out = rec.keys /\ \A x \in rec.keys : rec.out[x] = "recursive"
      BY <1>2, <1>4, <1>7 DEF KeysRead
    <3> HIDE DEF j, s
    <3> QED BY <1>4, <1>7, <3>1 DEF ListOK, Done, LsOps
  <2>2. JobParts(rec, s)
    <3> HIDE DEF j, s
    <3> QED BY <1>4, <2>1 DEF JobParts, ArgsOK, VerifyOK, Done
  <2>3. PnStep(c, rec) /\ ~Walking(rec)
    BY <1>1, <1>4, <1>7 DEF Walking
  <2> QED BY <1>2, <1>4, <2>2, <2>3, CmdStep
<1>8. CASE j.opt = "direct"
  <2>1. ListOK(e, s)
    <3>1. DOMAIN e.out = pnDir /\ \A x \in pnDir : e.out[x] = "direct"
      BY <1>2, <1>3, <1>6, <1>8
    <3>2. TypesTrue(e, s) /\ s.dir \subseteq Listed(e, "direct") /\ Listed(e, "indirect") = {} /\ e.opt = "direct"
      BY <1>2, <1>3, <1>6, <1>8, <3>1 DEF TypesTrue, Listed
    <3> HIDE DEF j, s
    <3> QED BY <1>6, <3>2 DEF ListOK, Done, LsOps
  <2>2. JobParts(e, s)
    <3> HIDE DEF j, s
    <3> QED BY <1>6, <2>1 DEF JobParts, ArgsOK, VerifyOK, Done
  <2>3. PnStep(c, e)
    BY <1>1, <1>8
  <2> QED BY <1>6, <2>2, <2>3, CmdStep
<1>9. CASE j.opt = "indirect"
  <2>1. ListOK(m, s)
    <3>1. DOMAIN m.out = pnDir /\ \A x \in pnDir : m.out[x] = "visited"
      BY <1>2, <1>3, <1>5, <1>9
    <3>2. m.opt = "indirect" /\ s.dir \subseteq DOMAIN m.out /\ DOMAIN m.out \subseteq s.everDir
      BY <1>2, <1>3, <1>5, <1>9, <3>1
    <3> HIDE DEF j, s
    <3> QED BY <1>5, <3>1, <3>2 DEF ListOK, Done, LsOps
  <2>2. JobParts(m, s)
    <3> HIDE DEF j, s
    <3> QED BY <1>5, <2>1 DEF JobParts, ArgsOK, VerifyOK, Done
  <2>3. PnStep(c, m) /\ ~Walking(m)
    BY <1>1, <1>5, <1>9 DEF Walking
  <2> QED BY <1>2, <1>5, <2>2, <2>3, CmdStep
<1> QED BY <1>2, <1>7, <1>8, <1>9

\* then the other, which may have changed,
LEMMA LsSecondStep ==
    ASSUME PinsInv, NEW c \in PnClients, LsSecond(c) PROVE PinsInv'
<1> DEFINE j == pnJob[c]
           s == pnSaw[c]
           dir == LsDirect(j)
           rec == LsRecursive(j)
           m == [rec EXCEPT !.op = "lsWalk"]
<1>0. PICK yes : yes = TRUE
  OBVIOUS
<1> DEFINE e == PnEnd(j, yes)
<1>1. \/ j.op = "lsRec" /\ PnStep(c, m)
      \/ j.op = "lsDir" /\ PnStep(c, IF j.opt = "recursive" THEN e ELSE dir)
  BY <1>0 DEF LsSecond
<1>2. /\ CmdTypes(j) /\ ListOK(j, s) /\ Running(c)
      /\ s.rec \subseteq pnRec /\ pnRec \subseteq s.everRec /\ s.dir \subseteq pnDir /\ pnDir \subseteq s.everDir
  BY <1>1, PartsHere DEF Sees, Running
<1>3. /\ CmdTypes(dir) /\ dir.op = "lsWalk" /\ dir.opt = j.opt /\ dir.keys = j.keys
      /\ DOMAIN dir.out = DOMAIN j.out \cup pnDir
      /\ \A x \in DOMAIN j.out : dir.out[x] = j.out[x]
      /\ \A x \in pnDir : x \notin DOMAIN j.out => dir.out[x] = IF j.opt = "indirect" THEN "visited" ELSE "direct"
  BY DirectRead
<1>4. /\ CmdTypes(rec) /\ rec.op = "lsDir" /\ rec.opt = j.opt /\ rec.keys = pnRec
      /\ DOMAIN rec.out = DOMAIN j.out \cup pnRec
      /\ \A x \in DOMAIN j.out : rec.out[x] = j.out[x]
      /\ \A x \in pnRec : x \notin DOMAIN j.out => rec.out[x] = IF j.opt = "indirect" THEN "visited" ELSE "recursive"
  BY ReadRecursive
<1> HIDE DEF dir, rec
<1>5. CmdTypes(m) /\ m.op = "lsWalk" /\ m.opt = rec.opt /\ m.keys = rec.keys /\ m.out = rec.out
  BY <1>4, NextOp
<1>6. CmdTypes(e) /\ e.op = "done" /\ e.was = j.op /\ e.opt = j.opt /\ e.out = j.out
  BY <1>2, EndTypes
<1> HIDE DEF m, e
<1>7. CASE j.op = "lsRec"
  <2>1. /\ j.opt = "indirect" /\ s.dir \subseteq DOMAIN j.out /\ DOMAIN j.out \subseteq s.everDir
        /\ \A d \in DOMAIN j.out : j.out[d] = "visited"
    BY <1>2, <1>7 DEF ListOK
  <2>2. /\ m.opt = "indirect" /\ KeysRead(m, s) /\ m.keys \cup s.dir \subseteq DOMAIN m.out
        /\ DOMAIN m.out \subseteq s.everRec \cup s.everDir /\ \A d \in DOMAIN m.out : m.out[d] = "visited"
    BY <1>2, <1>4, <1>5, <2>1 DEF KeysRead
  <2>3. ListOK(m, s)
    <3> HIDE DEF j, s
    <3> QED BY <1>5, <2>2 DEF ListOK, Done, LsOps
  <2>4. JobParts(m, s)
    <3> HIDE DEF j, s
    <3> QED BY <1>5, <2>3 DEF JobParts, ArgsOK, VerifyOK, Done
  <2>5. PnStep(c, m) /\ ~Walking(m)
    BY <1>1, <1>5, <1>7 DEF Walking
  <2> QED BY <1>2, <1>5, <2>4, <2>5, CmdStep
<1>8. ASSUME j.op = "lsDir"
      PROVE  /\ j.opt \in {"all", "recursive"} /\ KeysRead(j, s) /\ DOMAIN j.out = j.keys
             /\ \A d \in j.keys : j.out[d] = "recursive"
  BY <1>2, <1>8 DEF ListOK
<1>9. CASE j.op = "lsDir" /\ j.opt = "recursive"
  <2>1. TypesTrue(e, s) /\ s.rec \subseteq Listed(e, "recursive") /\ Listed(e, "indirect") = {} /\ e.opt = "recursive"
    BY <1>6, <1>8, <1>9 DEF TypesTrue, Listed, KeysRead
  <2>2. ListOK(e, s)
    <3> HIDE DEF j, s
    <3> QED BY <1>6, <2>1 DEF ListOK, Done, LsOps
  <2>3. JobParts(e, s)
    <3> HIDE DEF j, s
    <3> QED BY <1>6, <1>9, <2>2 DEF JobParts, ArgsOK, VerifyOK, Done
  <2>4. PnStep(c, e)
    BY <1>1, <1>9
  <2> QED BY <1>6, <2>3, <2>4, CmdStep
<1>10. CASE j.op = "lsDir" /\ j.opt # "recursive"
  <2>1. j.opt = "all" /\ s.rec \subseteq j.keys /\ j.keys \subseteq s.everRec
    BY <1>8, <1>10 DEF KeysRead
  <2>2. /\ dir.opt = "all" /\ KeysRead(dir, s) /\ dir.keys \cup s.dir \subseteq DOMAIN dir.out
        /\ DOMAIN dir.out \subseteq s.everRec \cup s.everDir
        /\ \A d \in DOMAIN dir.out : /\ d \in dir.keys => dir.out[d] = "recursive"
                                     /\ d \notin dir.keys => dir.out[d] = "direct" /\ d \in s.everDir
    BY <1>2, <1>3, <1>8, <1>10, <2>1 DEF KeysRead
  <2>3. ListOK(dir, s)
    <3> HIDE DEF j, s
    <3> QED BY <1>3, <2>2 DEF ListOK, Done, LsOps
  <2>4. JobParts(dir, s)
    <3> HIDE DEF j, s
    <3> QED BY <1>3, <2>3 DEF JobParts, ArgsOK, VerifyOK, Done
  <2>5. PnStep(c, dir) /\ ~Walking(dir)
    BY <1>1, <1>3, <1>10 DEF Walking
  <2> QED BY <1>2, <1>3, <2>4, <2>5, CmdStep
<1> QED BY <1>1, <1>7, <1>9, <1>10

\* and goes through what is below the recursive pins it has read.
LEMMA LsWalkStep ==
    ASSUME PinsInv, NEW c \in PnClients, NEW ok \in BOOLEAN, LsWalk(c, ok) PROVE PinsInv'
<1> DEFINE j == pnJob[c]
           s == pnSaw[c]
           below == PnBelow(j.keys)
           all == AddToResultKeys(j.out, below, "indirect")
           out == IF ok THEN Emitted(all) ELSE j.out
           m == [j EXCEPT !.out = out]
           e == PnEnd(m, ok)
<1>1. j.op = "lsWalk" /\ PnStep(c, e)
  BY DEF LsWalk
<1>2. CmdTypes(j) /\ ListOK(j, s) /\ below \subseteq PnCids
  BY PartsHere, BelowIs DEF CmdTypes
<1>3. PnBelow(s.rec) \subseteq below /\ below \subseteq PnBelow(s.everRec)
  BY <1>1, <1>2, BelowMore DEF ListOK, KeysRead
<1> HIDE DEF below
<1>4. /\ DOMAIN all = DOMAIN j.out \cup below /\ all = [x \in DOMAIN all |-> all[x]]
      /\ \A x \in DOMAIN j.out : all[x] = j.out[x]
      /\ \A x \in below : x \notin DOMAIN j.out => all[x] = "indirect"
  BY AddKeys
<1> HIDE DEF all
<1>5. /\ DOMAIN Emitted(all) = {d \in DOMAIN all : all[d] # "visited"}
      /\ Emitted(all) = [d \in DOMAIN Emitted(all) |-> Emitted(all)[d]]
      /\ \A d \in DOMAIN all : all[d] # "visited" => Emitted(all)[d] = all[d]
  BY DEF Emitted
<1>6. out = [d \in DOMAIN out |-> out[d]] /\ DOMAIN out \subseteq PnCids
  BY <1>2, <1>4, <1>5 DEF CmdTypes
<1>o. ok => out = Emitted(all)
  OBVIOUS
<1> HIDE DEF out
<1>e. m = [j EXCEPT !.out = out]
  OBVIOUS
<1> HIDE DEF m
<1>7. /\ PnIs(m) /\ m.op = j.op /\ m.opt = j.opt /\ m.todo = j.todo /\ m.args = j.args /\ m.keys = j.keys /\ m.out = out
  <2> HIDE DEF j
  <2> QED BY <1>2, <1>e DEF CmdTypes, PnIs
<1>8. CmdTypes(m)
  BY <1>2, <1>6, <1>7 DEF CmdTypes
<1>9. CmdTypes(e) /\ e.op = "done" /\ e.ok = ok /\ e.was = "lsWalk" /\ e.opt = j.opt /\ e.out = out
  BY <1>1, <1>7, <1>8, EndTypes
<1>10. CASE ~ok
  BY <1>1, <1>8, <1>9, <1>10, EndFails, CmdStep
<1>11. CASE ok
  <2> HIDE DEF e
  <2>1. /\ j.opt \in {"all", "indirect"} /\ KeysRead(j, s) /\ j.keys \cup s.dir \subseteq DOMAIN j.out
        /\ DOMAIN j.out \subseteq s.everRec \cup s.everDir
        /\ \A d \in DOMAIN j.out :
                                /\ j.opt = "indirect" => j.out[d] = "visited"
                                /\ j.opt = "all" /\ d \in j.keys => j.out[d] = "recursive"
                                /\ j.opt = "all" /\ d \notin j.keys => j.out[d] = "direct" /\ d \in s.everDir
    BY <1>1, <1>2 DEF ListOK
  <2>2. s.rec \subseteq j.keys /\ j.keys \subseteq s.everRec
    BY <2>1 DEF KeysRead
  <2>3. /\ \A d \in DOMAIN e.out : d \in DOMAIN all /\ all[d] # "visited" /\ e.out[d] = all[d]
        /\ \A d \in DOMAIN all : all[d] # "visited" => d \in DOMAIN e.out /\ e.out[d] = all[d]
    BY <1>5, <1>9, <1>11, <1>o
  <2>4. /\ \A d \in DOMAIN j.out : d \in DOMAIN e.out => e.out[d] = j.out[d] /\ j.opt = "all"
        /\ \A d \in DOMAIN j.out : j.opt = "all" => d \in DOMAIN e.out
        /\ \A d \in DOMAIN e.out : d \notin DOMAIN j.out => d \in below /\ e.out[d] = "indirect"
        /\ \A d \in below : d \notin DOMAIN j.out => d \in DOMAIN e.out /\ e.out[d] = "indirect"
    <3> HIDE DEF j, s
    <3> QED BY <1>4, <2>1, <2>3
  <2> HIDE DEF j, s
  <2>5. TypesTrue(e, s)
    BY <1>3, <2>1, <2>2, <2>4 DEF TypesTrue
  <2>6. e.opt = "all" => s.rec \subseteq Listed(e, "recursive") /\ s.dir \subseteq Listed(e, "direct") \cup s.everRec
    BY <1>9, <2>1, <2>2, <2>4 DEF Listed
  <2>7. /\ PnBelow(s.rec) \ (s.everRec \cup s.everDir) \subseteq Listed(e, "indirect")
        /\ Listed(e, "indirect") \cap (s.rec \cup s.dir) = {}
    BY <1>3, <2>1, <2>2, <2>4 DEF Listed
  <2>8. ListOK(e, s)
    BY <1>9, <2>1, <2>5, <2>6, <2>7 DEF ListOK, Done, LsOps
  <2>9. JobParts(e, s)
    BY <1>9, <2>8 DEF JobParts, ArgsOK, VerifyOK, Done
  <2> QED BY <1>1, <1>9, <2>9, CmdStep DEF j, s
<1> QED BY <1>10, <1>11

LEMMA LsCancelledStep ==
    ASSUME PinsInv, NEW c \in PnClients, LsCancelled(c) PROVE PinsInv'
<1>0. PICK no : no = FALSE
  OBVIOUS
<1>1. PnStep(c, PnEnd(pnJob[c], no)) /\ CmdTypes(pnJob[c])
  BY <1>0, PartsHere DEF LsCancelled
<1> QED BY <1>0, <1>1, EndFails, CmdStep

LEMMA Marks ==
    ASSUME NEW j, CmdTypes(j), NEW d \in PnCids, NEW v
    PROVE  LET m == MarkVisited(j, d, v)
           IN /\ CmdTypes(m) /\ m.op = j.op /\ m.opt = j.opt /\ m.keys = j.keys /\ m.stack = j.stack
              /\ DOMAIN m.out = DOMAIN j.out \cup {d} /\ m.out[d] = v
              /\ \A x \in DOMAIN j.out : x # d => m.out[x] = j.out[x]
<1> DEFINE m == MarkVisited(j, d, v)
           out == [x \in DOMAIN j.out \cup {d} |-> IF x = d THEN v ELSE j.out[x]]
<1>1. m = [j EXCEPT !.out = out]
  BY DEF MarkVisited
<1>2. /\ DOMAIN out = DOMAIN j.out \cup {d} /\ out = [x \in DOMAIN out |-> out[x]] /\ out[d] = v
      /\ \A x \in DOMAIN j.out : x # d => out[x] = j.out[x]
  OBVIOUS
<1> HIDE DEF m, out
<1>3. /\ PnIs(m) /\ m.op = j.op /\ m.opt = j.opt /\ m.todo = j.todo /\ m.args = j.args /\ m.keys = j.keys
      /\ m.stack = j.stack /\ m.out = out
  BY <1>1 DEF CmdTypes, PnIs
<1>4. CmdTypes(m)
  BY <1>2, <1>3 DEF CmdTypes
<1> QED BY <1>2, <1>3, <1>4 DEF m

LEMMA NextStack ==
    ASSUME NEW j, CmdTypes(j), NEW stack
    PROVE  LET m == [j EXCEPT !.stack = stack]
           IN CmdTypes(m) /\ m.op = j.op /\ m.opt = j.opt /\ m.keys = j.keys /\ m.out = j.out /\ m.stack = stack
<1> DEFINE m == [j EXCEPT !.stack = stack]
<1>1. m = [j EXCEPT !.stack = stack]
  OBVIOUS
<1> HIDE DEF m
<1>2. /\ PnIs(m) /\ m.op = j.op /\ m.opt = j.opt /\ m.todo = j.todo /\ m.args = j.args /\ m.keys = j.keys
      /\ m.out = j.out /\ m.stack = stack
  BY <1>1 DEF CmdTypes, PnIs
<1>3. CmdTypes(m)
  BY <1>2 DEF CmdTypes
<1> QED BY <1>2, <1>3 DEF m

LEMMA VerifyParts ==
    ASSUME NEW r, NEW s, r.op = "verifying", VerifyOK(r, s) PROVE JobParts(r, s)
BY DEF JobParts, ArgsOK, ListOK, Done, LsOps

LEMMA VerifyBeginStep ==
    ASSUME PinsInv, NEW c \in PnClients, VerifyBegin(c) PROVE PinsInv'
<1> DEFINE j == pnJob[c]
           s == pnSaw[c]
<1>1. PICK order \in [1..Cardinality(pnRec) -> pnRec] :
        /\ Images(order) = pnRec
        /\ PnStep(c, [j EXCEPT !.op = "verifying", !.keys = pnRec,
                               !.stack = <<[links |-> order, ok |-> TRUE, bad |-> {}, cid |-> {}]>>])
  BY DEF VerifyBegin
<1> DEFINE first == [links |-> order, ok |-> TRUE, bad |-> {}, cid |-> {}]
           stack == <<first>>
           n == [j EXCEPT !.op = "verifying", !.keys = pnRec, !.stack = stack]
<1>2. CmdTypes(j) /\ VerifyOK(j, s) /\ pnRec \subseteq PnCids /\ j.op = "verify"
  BY PartsHere DEF PinsInv, VerifyBegin
<1>3. order \in Seq(PnCids)
  <2>1. Cardinality(pnRec) \in Nat
    BY <1>2, PinAssumption, FS_Subset, FS_CardinalityType
  <2>2. order \in [1..Cardinality(pnRec) -> PnCids]
    BY <1>2
  <2> QED BY <2>1, <2>2
<1>4. first \in Frames /\ first.cid = {} /\ first.links = order
  BY <1>3 DEF Frames
<1> HIDE DEF first
<1>5. stack \in Seq(Frames) /\ Len(stack) = 1 /\ stack[1] = first
  BY <1>4
<1>6. PnStep(c, n) /\ n = [j EXCEPT !.op = "verifying", !.keys = pnRec, !.stack = stack]
  BY <1>1 DEF first
<1> HIDE DEF stack, n
<1>7. /\ PnIs(n) /\ n.op = "verifying" /\ n.opt = j.opt /\ n.todo = j.todo /\ n.args = j.args /\ n.keys = pnRec
      /\ n.out = j.out /\ n.stack = stack
  <2> HIDE DEF j
  <2> QED BY <1>2, <1>6 DEF CmdTypes, PnIs
<1>8. CmdTypes(n)
  BY <1>2, <1>7 DEF CmdTypes
<1>9. VerifyOK(n, s)
  <2>1. DOMAIN n.out = {}
    BY <1>2, <1>7 DEF VerifyOK
  <2> DEFINE all == Accepted(n, s.everHave)
             some == Accepted(n, s.have)
  <2> HIDE DEF all, some
  <2>2. StackOK(n, all, some)
    <3>1. n.stack \in Seq(Frames) /\ Len(n.stack) = 1 /\ n.stack[1].cid = {} /\ n.stack[1].links = order
      BY <1>4, <1>5, <1>7
    <3>2. n.keys \subseteq DOMAIN n.out \cup Images(n.stack[1].links)
      BY <1>1, <1>7, <3>1
    <3>3. \A i \in 2..Len(n.stack) : FrameOK(n.stack[i], all, some)
      BY <3>1
    <3> QED BY <3>1, <3>2, <3>3 DEF StackOK
  <2>3. OutOK(n, all, some)
    BY <2>1 DEF OutOK
  <2> QED BY <1>7, <2>2, <2>3 DEF VerifyOK, all, some, Done
<1>10. Running(c) /\ Walking(pnJob[c])
  BY <1>2 DEF Running, Walking
<1> QED BY <1>6, <1>7, <1>8, <1>9, <1>10, VerifyParts, CmdStep

\* A frame takes the status of the link it was at.
LEMMA MergeFrame ==
    ASSUME NEW f \in Frames, NEW d \in PnCids, f.links # <<>> /\ d = Head(f.links),
           NEW v, v.ok \in BOOLEAN /\ v.bad \subseteq PnCids, NEW all, NEW some, StatusOK(v, d, all, some)
    PROVE  /\ Merge(f, v) \in Frames /\ Merge(f, v).cid = f.cid /\ Images(f.links) = {d} \cup Images(Merge(f, v).links)
           /\ FrameOK(f, all, some) => FrameOK(Merge(f, v), all, some)
<1> DEFINE g == Merge(f, v)
           tail == Tail(f.links)
<1>1. /\ d \in PnCids /\ tail \in Seq(PnCids) /\ Images(f.links) = {d} \cup Images(tail)
  BY ImagesStep DEF Frames
<1> HIDE DEF tail
<1>2. g = [f EXCEPT !.links = tail, !.bad = f.bad \cup v.bad, !.ok = f.ok /\ v.ok]
  BY DEF Merge, tail
<1>3. f = [links |-> f.links, ok |-> f.ok, bad |-> f.bad, cid |-> f.cid] /\ f.ok \in BOOLEAN /\ f.bad \subseteq PnCids /\ f.cid \subseteq PnCids
  BY DEF Frames
<1> HIDE DEF g
<1>4. /\ g = [links |-> g.links, ok |-> g.ok, bad |-> g.bad, cid |-> g.cid]
      /\ g.links = tail /\ g.bad = f.bad \cup v.bad /\ g.cid = f.cid /\ g.ok \in BOOLEAN /\ (g.ok <=> f.ok /\ v.ok)
  BY <1>2, <1>3
<1>5. g \in Frames
  BY <1>1, <1>3, <1>4 DEF Frames
<1>6. ASSUME NEW e \in PnCids, FrameOf(f, e, all, some) PROVE FrameOf(g, e, all, some)
  <2>1. d \in Images(PnLinks[e]) /\ Images(tail) \subseteq Images(PnLinks[e])
    BY <1>1, <1>6 DEF FrameOf
  <2>2. PnReach[d] \subseteq PnReach[e]
    BY <2>1, ReachStep
  <2>3. StatusOK(v, d, all, some)
    OBVIOUS
  <2>4. g.ok => \A x \in Images(PnLinks[e]) : x \in Images(g.links) \/ PnReach[x] \subseteq all
    <3>1. ASSUME g.ok, NEW x \in Images(PnLinks[e]), x \notin Images(g.links) PROVE PnReach[x] \subseteq all
      <4>1. x = d \/ PnReach[x] \subseteq all
        BY <1>1, <1>4, <1>6, <3>1 DEF FrameOf
      <4>2. PnReach[d] \subseteq all
        BY <1>4, <2>3, <3>1 DEF StatusOK
      <4> QED BY <4>1, <4>2
    <3> QED BY <3>1
  <2>5. ~g.ok => ~(PnReach[e] \subseteq some)
    BY <1>4, <1>6, <2>2, <2>3 DEF FrameOf, StatusOK
  <2>6. g.bad \subseteq PnReach[e] \ some
    BY <1>4, <1>6, <2>2, <2>3 DEF FrameOf, StatusOK
  <2>7. g.cid = {e} /\ e \in all /\ Images(g.links) \subseteq Images(PnLinks[e])
    BY <1>4, <1>6, <2>1 DEF FrameOf
  <2> QED BY <2>4, <2>5, <2>6, <2>7 DEF FrameOf
<1> QED BY <1>1, <1>4, <1>5, <1>6 DEF FrameOK, g

\* One more part is visited.
LEMMA OutMarked ==
    ASSUME NEW j, NEW m, NEW d, NEW all, NEW some, OutOK(j, all, some), DOMAIN m.out = DOMAIN j.out \cup {d},
           \A x \in DOMAIN j.out : x # d => m.out[x] = j.out[x],
           StatusOK(m.out[d], d, all, some), m.out[d].ok \in BOOLEAN, m.out[d].bad \subseteq PnCids
    PROVE  OutOK(m, all, some)
<1> SUFFICES ASSUME NEW x \in DOMAIN m.out
             PROVE  StatusOK(m.out[x], x, all, some) /\ m.out[x].ok \in BOOLEAN /\ m.out[x].bad \subseteq PnCids
  BY DEF OutOK
<1>1. CASE x = d
  BY <1>1
<1>2. CASE x # d
  BY <1>2 DEF OutOK
<1> QED BY <1>1, <1>2

LEMMA CheckPinStep ==
    ASSUME PinsInv, NEW c \in PnClients, CheckPin(c) PROVE PinsInv'
<1> DEFINE j == pnJob[c]
           s == pnSaw[c]
           n == Len(j.stack)
           f == j.stack[n]
           d == Head(f.links)
           all == Accepted(j, s.everHave)
           some == Accepted(j, s.have)
           merged == [j EXCEPT !.stack = [j.stack EXCEPT ![n] = Merge(f, j.out[d])]]
           bad == BadStatus(j, d)
           seen == MarkVisited(j, d, bad)
           frame == [links |-> PnLinks[d], ok |-> TRUE, bad |-> {}, cid |-> {d}]
           pushed == [j EXCEPT !.stack = Append(j.stack, frame)]
<1>1. /\ j.op = "verifying" /\ n > 0 /\ f.links # <<>>
      /\ PnStep(c, IF d \in DOMAIN j.out THEN merged
                   ELSE IF d \notin pnHave \/ (d \in PnInvalid /\ j.opt # "api") THEN seen ELSE pushed)
  BY DEF CheckPin
<1>2. CmdTypes(j) /\ StackOK(j, all, some) /\ OutOK(j, all, some) /\ Running(c) /\ Walking(pnJob[c])
  BY <1>1, PartsHere DEF VerifyOK, Running, Walking
<1>3. s.have \subseteq pnHave /\ pnHave \subseteq s.everHave
  BY <1>1, PartsHere DEF Sees, Walking
<1>4. /\ j.stack \in Seq(Frames) /\ n \in Nat /\ n > 0 /\ n \in 1..n /\ DOMAIN j.stack = 1..n
      /\ j.stack[1].cid = {} /\ j.keys \subseteq DOMAIN j.out \cup Images(j.stack[1].links)
      /\ \A i \in 2..n : FrameOK(j.stack[i], all, some)
  BY <1>2 DEF StackOK
<1>5. f \in Frames /\ f.links \in Seq(PnCids)
  <2>1. f \in Frames
    BY <1>4
  <2> HIDE DEF f
  <2> QED BY <2>1 DEF Frames
<1>6. d \in PnCids /\ Images(f.links) = {d} \cup Images(Tail(f.links))
  BY <1>1, <1>5, ImagesStep
<1>7. ASSUME NEW r, CmdTypes(r), r.op = j.op, r.opt = j.opt, StackOK(r, all, some), OutOK(r, all, some), PnStep(c, r)
      PROVE  PinsInv'
  <2>1. VerifyOK(r, s)
    BY <1>1, <1>7 DEF VerifyOK, Accepted
  <2>2. JobParts(r, s)
    BY <1>1, <1>7, <2>1, VerifyParts
  <2> QED BY <1>2, <1>7, <2>2, CmdStep
<1> HIDE DEF s, all, some
<1>8. CASE d \in DOMAIN j.out
  <2> DEFINE v == j.out[d]
             g == Merge(f, v)
             stack == [j.stack EXCEPT ![n] = g]
  <2>1. StatusOK(v, d, all, some) /\ v.ok \in BOOLEAN /\ v.bad \subseteq PnCids
    BY <1>2, <1>8 DEF OutOK
  <2>2. /\ g \in Frames /\ g.cid = f.cid /\ Images(f.links) = {d} \cup Images(g.links)
        /\ FrameOK(f, all, some) => FrameOK(g, all, some)
    <3>1. f.links # <<>> /\ d = Head(f.links) /\ f \in Frames /\ d \in PnCids
      BY <1>1, <1>5, <1>6
    <3> HIDE DEF f, d, v
    <3> QED BY <2>1, <3>1, MergeFrame
  <2> HIDE DEF g
  <2>3. stack \in Seq(Frames) /\ Len(stack) = n /\ stack[n] = g /\ \A i \in 1..n : i # n => stack[i] = j.stack[i]
    BY <1>4, <2>2
  <2>4. PnStep(c, merged) /\ merged = [j EXCEPT !.stack = stack]
    BY <1>1, <1>8 DEF g
  <2> HIDE DEF stack, merged
  <2>5. /\ CmdTypes(merged) /\ merged.op = j.op /\ merged.opt = j.opt /\ merged.keys = j.keys /\ merged.out = j.out
        /\ merged.stack = stack
    BY <1>2, <2>4, NextStack
  <2>6. stack[1].cid = {} /\ j.keys \subseteq DOMAIN j.out \cup Images(stack[1].links)
    <3>1. CASE n = 1
      BY <1>4, <1>8, <2>2, <2>3, <3>1
    <3>2. CASE n # 1
      BY <1>4, <2>3, <3>2
    <3> QED BY <3>1, <3>2
  <2>7. ASSUME NEW i \in 2..n PROVE FrameOK(stack[i], all, some)
    <3>1. i \in 1..n /\ FrameOK(j.stack[i], all, some)
      BY <1>4
    <3>2. CASE i = n
      BY <2>2, <2>3, <3>1, <3>2
    <3>3. CASE i # n
      BY <2>3, <3>1, <3>3
    <3> QED BY <3>2, <3>3
  <2>8. StackOK(merged, all, some)
    BY <1>4, <2>3, <2>5, <2>6, <2>7 DEF StackOK
  <2>9. OutOK(merged, all, some)
    BY <1>2, <2>5 DEF OutOK
  <2> QED BY <1>7, <2>4, <2>5, <2>8, <2>9
<1>9. CASE d \notin DOMAIN j.out /\ (d \notin pnHave \/ (d \in PnInvalid /\ j.opt # "api"))
  <2>1. PnStep(c, seen)
    BY <1>1, <1>9
  <2>2. bad.ok = FALSE /\ bad.bad \subseteq {d}
    BY DEF BadStatus
  <2> HIDE DEF bad
  <2>3. /\ CmdTypes(seen) /\ seen.op = j.op /\ seen.opt = j.opt /\ seen.keys = j.keys /\ seen.stack = j.stack
        /\ DOMAIN seen.out = DOMAIN j.out \cup {d} /\ seen.out[d] = bad
        /\ \A x \in DOMAIN j.out : x # d => seen.out[x] = j.out[x]
    <3>1. CmdTypes(j) /\ d \in PnCids
      BY <1>2, <1>6
    <3> HIDE DEF j, d
    <3> QED BY <3>1, Marks
  <2> HIDE DEF seen
  <2>4. d \notin some
    BY <1>3, <1>9 DEF some, Accepted
  <2>5. d \in PnReach[d]
    BY <1>6, ReachHas
  <2>6. StatusOK(bad, d, all, some)
    BY <2>2, <2>4, <2>5 DEF StatusOK
  <2>7. OutOK(seen, all, some)
    <3>1. StatusOK(seen.out[d], d, all, some) /\ seen.out[d].ok \in BOOLEAN /\ seen.out[d].bad \subseteq PnCids
      BY <1>6, <2>2, <2>3, <2>6
    <3> HIDE DEF j, d
    <3> QED BY <1>2, <2>3, <3>1, OutMarked
  <2>8. StackOK(seen, all, some)
    BY <1>2, <2>3 DEF StackOK
  <2> QED BY <1>7, <2>1, <2>3, <2>7, <2>8
<1>10. CASE d \notin DOMAIN j.out /\ d \in pnHave /\ ~(d \in PnInvalid /\ j.opt # "api")
  <2> DEFINE stack == Append(j.stack, frame)
  <2>1. PnStep(c, pushed) /\ pushed = [j EXCEPT !.stack = stack]
    BY <1>1, <1>10
  <2>2. PnLinks[d] \in Seq(PnCids)
    BY <1>6, LinksAre
  <2>3. frame \in Frames /\ frame.links = PnLinks[d] /\ frame.cid = {d} /\ frame.ok = TRUE /\ frame.bad = {}
    BY <1>6, <2>2 DEF Frames
  <2>4. d \in all
    BY <1>3, <1>10 DEF all, Accepted
  <2> HIDE DEF frame, pushed
  <2>5. FrameOK(frame, all, some)
    <3>1. FrameOf(frame, d, all, some)
      BY <2>3, <2>4 DEF FrameOf
    <3> QED BY <1>6, <3>1 DEF FrameOK
  <2>6. stack \in Seq(Frames) /\ Len(stack) = n + 1 /\ stack[n + 1] = frame /\ \A i \in 1..n : stack[i] = j.stack[i]
    <3> DEFINE st == j.stack
    <3>1. st \in Seq(Frames) /\ frame \in Frames
      BY <1>4, <2>3
    <3> HIDE DEF st
    <3>2. /\ Append(st, frame) \in Seq(Frames) /\ Len(Append(st, frame)) = Len(st) + 1
          /\ Append(st, frame)[Len(st) + 1] = frame /\ \A i \in 1..Len(st) : Append(st, frame)[i] = st[i]
      BY <3>1
    <3> QED BY <3>2 DEF st
  <2> HIDE DEF stack
  <2>7. /\ CmdTypes(pushed) /\ pushed.op = j.op /\ pushed.opt = j.opt /\ pushed.keys = j.keys /\ pushed.out = j.out
        /\ pushed.stack = stack
    BY <1>2, <2>1, NextStack
  <2>8. stack[1] = j.stack[1]
    BY <1>4, <2>6
  <2>9. ASSUME NEW i \in 2..(n + 1) PROVE FrameOK(stack[i], all, some)
    <3>1. CASE i = n + 1
      BY <2>5, <2>6, <3>1
    <3>2. CASE i # n + 1
      <4>1. i \in 2..n /\ i \in 1..n
        BY <1>4, <3>2
      <4> QED BY <1>4, <2>6, <4>1
    <3> QED BY <3>1, <3>2
  <2>10. StackOK(pushed, all, some)
    BY <1>4, <2>6, <2>7, <2>8, <2>9 DEF StackOK
  <2>11. OutOK(pushed, all, some)
    BY <1>2, <2>7 DEF OutOK
  <2> QED BY <1>7, <2>1, <2>7, <2>10, <2>11
<1> QED BY <1>8, <1>9, <1>10

LEMMA CheckPinReturnStep ==
    ASSUME PinsInv, NEW c \in PnClients, CheckPinReturn(c) PROVE PinsInv'
<1> DEFINE j == pnJob[c]
           s == pnSaw[c]
           n == Len(j.stack)
           f == j.stack[n]
           all == Accepted(j, s.everHave)
           some == Accepted(j, s.have)
           out == [x \in j.keys |-> j.out[x]]
           back == SubSeq(j.stack, 1, n - 1)
           whole == [j EXCEPT !.op = "verify", !.out = out, !.stack = <<>>]
<1>0. PICK yes : yes = TRUE
  OBVIOUS
<1> DEFINE e == PnEnd(whole, yes)
<1>1. j.op = "verifying" /\ n > 0 /\ f.links = <<>>
  BY DEF CheckPinReturn
<1>2. CmdTypes(j) /\ StackOK(j, all, some) /\ OutOK(j, all, some) /\ Running(c) /\ Walking(pnJob[c])
  BY <1>1, PartsHere DEF VerifyOK, Running, Walking
<1>4. /\ j.stack \in Seq(Frames) /\ n \in Nat /\ n > 0 /\ n \in 1..n /\ DOMAIN j.stack = 1..n
      /\ j.stack[1].cid = {} /\ j.keys \subseteq DOMAIN j.out \cup Images(j.stack[1].links)
      /\ \A i \in 2..n : FrameOK(j.stack[i], all, some)
  BY <1>2 DEF StackOK
<1>5. f \in Frames
  BY <1>4
<1>6. \/ n > 1 /\ \E d \in f.cid : PnStep(c, [MarkVisited(j, d, [ok |-> f.ok, bad |-> f.bad]) EXCEPT !.stack = SubSeq(@, 1, n - 1)])
      \/ n = 1 /\ PnStep(c, e)
  BY <1>0 DEF CheckPinReturn
<1>7. CASE n > 1
  <2>1. PICK d \in f.cid : PnStep(c, [MarkVisited(j, d, [ok |-> f.ok, bad |-> f.bad]) EXCEPT !.stack = SubSeq(@, 1, n - 1)])
    <3>1. n # 1
      BY <1>4, <1>7
    <3> HIDE DEF n, e
    <3> QED BY <1>6, <3>1
  <2> DEFINE v == [ok |-> f.ok, bad |-> f.bad]
             m == MarkVisited(j, d, v)
             r == [m EXCEPT !.stack = back]
  <2>2. n \in 2..n /\ n - 1 \in Nat /\ n - 1 >= 1
    BY <1>4, <1>7
  <2>3. FrameOK(f, all, some)
    BY <1>4, <2>2
  <2>4. v.ok = f.ok /\ v.bad = f.bad /\ f.ok \in BOOLEAN /\ f.bad \subseteq PnCids /\ f.cid \subseteq PnCids
    <3> HIDE DEF f
    <3> QED BY <1>5 DEF Frames
  <2>5. d \in PnCids
    BY <2>4
  <2> HIDE DEF v
  <2>6. /\ CmdTypes(m) /\ m.op = j.op /\ m.opt = j.opt /\ m.keys = j.keys /\ m.stack = j.stack
        /\ DOMAIN m.out = DOMAIN j.out \cup {d} /\ m.out[d] = v
        /\ \A x \in DOMAIN j.out : x # d => m.out[x] = j.out[x]
    <3> HIDE DEF j, f
    <3> QED BY <1>2, <2>5, Marks
  <2>7. PnStep(c, r)
    <3>1. PnStep(c, [m EXCEPT !.stack = SubSeq(m.stack, 1, n - 1)])
      BY <2>1 DEF v
    <3> HIDE DEF m
    <3> QED BY <2>6, <3>1
  <2> HIDE DEF m
  <2>8. back \in Seq(Frames) /\ Len(back) = n - 1 /\ \A i \in 1..(n - 1) : back[i] = j.stack[i]
    BY <1>4, <2>2
  <2> HIDE DEF back
  <2>9. CmdTypes(r) /\ r.op = m.op /\ r.opt = m.opt /\ r.keys = m.keys /\ r.out = m.out /\ r.stack = back
    BY <2>6, NextStack
  <2> HIDE DEF r
  <2>10. StatusOK(v, d, all, some)
    <3>1. PICK x \in PnCids : FrameOf(f, x, all, some)
      BY <2>3 DEF FrameOK
    <3>2. x = d
      BY <3>1 DEF FrameOf
    <3>3. FrameOf(f, d, all, some) /\ Images(f.links) = {}
      BY <1>1, <3>1, <3>2, ImagesNone
    <3>4. PnReach[d] \subseteq {d} \cup UNION {PnReach[y] : y \in Images(PnLinks[d])}
      BY <2>5, ReachStep
    <3>5. v.ok => PnReach[d] \subseteq all
      <4>1. ASSUME v.ok, NEW y \in Images(PnLinks[d]) PROVE PnReach[y] \subseteq all
        BY <2>4, <3>3, <4>1 DEF FrameOf
      <4> QED BY <3>3, <3>4, <4>1 DEF FrameOf
    <3>6. (~v.ok => ~(PnReach[d] \subseteq some)) /\ v.bad \subseteq PnReach[d] \ some
      BY <2>4, <3>3 DEF FrameOf
    <3> QED BY <3>5, <3>6 DEF StatusOK
  <2>11. OutOK(m, all, some)
    <3>1. StatusOK(m.out[d], d, all, some) /\ m.out[d].ok \in BOOLEAN /\ m.out[d].bad \subseteq PnCids
      BY <2>4, <2>6, <2>10
    <3>2. /\ OutOK(j, all, some) /\ DOMAIN m.out = DOMAIN j.out \cup {d}
          /\ \A x \in DOMAIN j.out : x # d => m.out[x] = j.out[x]
      BY <1>2, <2>6
    <3> HIDE DEF j, all, some, n, f
    <3> QED BY <3>1, <3>2, OutMarked
  <2>12. OutOK(r, all, some)
    BY <2>9, <2>11 DEF OutOK
  <2>13. StackOK(r, all, some)
    <3>1. r.stack[1] = j.stack[1] /\ Len(r.stack) = n - 1 /\ \A i \in 2..(n - 1) : r.stack[i] = j.stack[i]
      BY <2>2, <2>8, <2>9
    <3>2. \A i \in 2..(n - 1) : FrameOK(r.stack[i], all, some)
      BY <1>4, <3>1
    <3>3. r.keys \subseteq DOMAIN r.out \cup Images(r.stack[1].links)
      BY <1>4, <2>6, <2>9, <3>1
    <3> QED BY <1>4, <2>2, <2>8, <2>9, <3>1, <3>2, <3>3 DEF StackOK
  <2>14. VerifyOK(r, s) /\ r.op = "verifying"
    BY <1>1, <2>6, <2>9, <2>12, <2>13 DEF VerifyOK, Accepted
  <2> QED BY <1>2, <2>7, <2>9, <2>14, VerifyParts, CmdStep
<1>8. CASE n = 1
  <2>1. PnStep(c, e)
    BY <1>6, <1>8
  <2>2. j.keys \subseteq DOMAIN j.out
    BY <1>1, <1>4, <1>8, ImagesNone
  <2>3. whole = [j EXCEPT !.op = "verify", !.out = out, !.stack = <<>>]
    OBVIOUS
  <2>4. DOMAIN out = j.keys /\ out = [x \in DOMAIN out |-> out[x]] /\ \A x \in j.keys : out[x] = j.out[x]
    OBVIOUS
  <2> HIDE DEF out, whole
  <2>5. /\ PnIs(whole) /\ whole.op = "verify" /\ whole.opt = j.opt /\ whole.todo = j.todo /\ whole.args = j.args
        /\ whole.keys = j.keys /\ whole.out = out
    <3> HIDE DEF j
    <3> QED BY <1>2, <2>3 DEF CmdTypes, PnIs
  <2>6. CmdTypes(whole)
    BY <1>2, <2>4, <2>5 DEF CmdTypes
  <2>7. CmdTypes(e) /\ e.op = "done" /\ e.was = "verify" /\ e.opt = j.opt /\ e.out = out
    BY <2>5, <2>6, EndTypes
  <2> HIDE DEF e
  <2>8. OutOK(e, all, some)
    BY <1>2, <2>2, <2>4, <2>7 DEF OutOK
  <2>9. VerifyOK(e, s)
    BY <2>7, <2>8 DEF VerifyOK, Accepted
  <2>10. JobParts(e, s)
    BY <2>7, <2>9 DEF JobParts, ArgsOK, ListOK, Done, LsOps
  <2> QED BY <2>1, <2>7, <2>10, CmdStep
<1>9. n > 1 \/ n = 1
  <2>1. n \in Nat /\ n > 0
    BY <1>4
  <2> HIDE DEF n
  <2> QED BY <2>1
<1> QED BY <1>7, <1>8, <1>9

LEMMA PinsStep == PinsInv /\ [PnNext]_pnVars => PinsInv'
<1> SUFFICES ASSUME PinsInv, [PnNext]_pnVars PROVE PinsInv'
  OBVIOUS
<1>1. ASSUME NEW c \in PnClients, NEW a \in PnArgs, NEW r, AddPinCmd(c, a, r) \/ RmPinCmd(c, a, r) PROVE PinsInv'
  <2>1. a \in Seq(PnCids)
    BY PinAssumption
  <2> QED BY <1>1, <2>1, BeginStep DEF AddPinCmd, RmPinCmd
<1>2. ASSUME NEW c \in PnClients, NEW a \in PnArgs, NEW u, UpdatePinCmd(c, a, u) PROVE PinsInv'
  <2>1. a \in Seq(PnCids)
    BY PinAssumption
  <2> QED BY <1>2, <2>1, BeginStep DEF UpdatePinCmd
<1>3. ASSUME NEW c \in PnClients, NEW a \in PnArgs \cup {<<>>}, NEW t \in {"all", "recursive", "direct", "indirect"},
             ListPinCmd(c, a, t)
      PROVE  PinsInv'
  <2>0. <<>> \in Seq(PnCids)
    OBVIOUS
  <2>1. a \in Seq(PnCids)
    BY <2>0, PinAssumption
  <2> DEFINE op == IF a = <<>> THEN "ls" ELSE "lsKeys"
  <2>2. op \in {"ls", "lsKeys"} /\ PnBegin(c, op, t, a)
    BY <1>3 DEF ListPinCmd
  <2> HIDE DEF op
  <2> QED BY <2>1, <2>2, BeginStep
<1>4. ASSUME NEW c \in PnClients, NEW v, PnBegin(c, "verify", v, <<>>) PROVE PinsInv'
  <2> DEFINE a == <<>>
  <2>1. a \in Seq(PnCids) /\ PnBegin(c, "verify", v, a)
    BY <1>4
  <2> HIDE DEF a
  <2> QED BY <2>1, BeginStep
<1>5. ASSUME NEW c \in PnClients, \/ \E v \in {"explain", "quiet"} : VerifyPinCmd(c, v)
                                  \/ VerifyAPI(c)
      PROVE  PinsInv'
  BY <1>4, <1>5 DEF VerifyPinCmd, VerifyAPI
<1>6. ASSUME NEW c \in PnClients, PinAddEnd(c) \/ PinAddCancelled(c) \/ PinLsKeys(c) PROVE PinsInv'
  BY <1>6, AddEndStep, AddCancelledStep, LsKeysStep
<1>7. ASSUME NEW c \in PnClients, NEW ok \in BOOLEAN, PinAddMany(c, ok) \/ RmPin(c, ok) \/ UpdatePin(c, ok) \/ LsWalk(c, ok)
      PROVE  PinsInv'
  BY <1>7, AddManyStep, RmStep, UpdateStep, LsWalkStep
<1>8. ASSUME NEW c \in PnClients, LsFirst(c) \/ LsSecond(c) \/ LsCancelled(c) PROVE PinsInv'
  BY <1>8, LsFirstStep, LsSecondStep, LsCancelledStep
<1>9. ASSUME NEW c \in PnClients, VerifyBegin(c) \/ CheckPin(c) \/ CheckPinReturn(c) PROVE PinsInv'
  BY <1>9, VerifyBeginStep, CheckPinStep, CheckPinReturnStep
<1>10. ASSUME PnCollect PROVE PinsInv'
  <2> DEFINE S == pnHave \cap (pnDir \cup UNION {PnReach[d] : d \in pnRec})
  <2>1. S \in SUBSET PnCids
    BY DEF PinsInv
  <2>2. BlocksBecome(S)
    BY <1>10 DEF PnCollect
  <2> HIDE DEF S
  <2> QED BY <2>1, <2>2, BlocksStep
<1>11. ASSUME NEW d \in PnCids, PnFetch(d) \/ PnLose(d) PROVE PinsInv'
  <2>1. pnHave \cup {d} \in SUBSET PnCids /\ pnHave \ {d} \in SUBSET PnCids
    BY DEF PinsInv
  <2> QED BY <1>11, <2>1, BlocksStep DEF PnFetch, PnLose
<1>12. CASE UNCHANGED pnVars
  BY <1>12 DEF pnVars, PinsInv
<1>13. CASE PnNext
  <2>1. \/ \E c \in PnClients :
          \/ \E a \in PnArgs, r \in {"recursive", "direct"} : AddPinCmd(c, a, r) \/ RmPinCmd(c, a, r)
          \/ \E a \in PnArgs, u \in {"unpin", "keep"} : UpdatePinCmd(c, a, u)
          \/ \E t \in {"all", "recursive", "direct", "indirect"}, a \in PnArgs \cup {<<>>} : ListPinCmd(c, a, t)
          \/ (\E v \in {"explain", "quiet"} : VerifyPinCmd(c, v)) \/ VerifyAPI(c)
          \/ PinAddEnd(c) \/ PinAddCancelled(c) \/ PinLsKeys(c)
          \/ \E ok \in BOOLEAN : PinAddMany(c, ok) \/ RmPin(c, ok) \/ UpdatePin(c, ok) \/ LsWalk(c, ok)
          \/ LsFirst(c) \/ LsSecond(c) \/ LsCancelled(c)
          \/ VerifyBegin(c) \/ CheckPin(c) \/ CheckPinReturn(c)
        \/ PnCollect
        \/ \E d \in PnCids : PnFetch(d) \/ PnLose(d)
    BY <1>13, Zenon DEF PnNext
  <2> QED BY <1>1, <1>2, <1>3, <1>5, <1>6, <1>7, <1>8, <1>9, <1>10, <1>11, <2>1
<1> QED BY <1>12, <1>13

LEMMA PinsReport == PinsInv => PnTypeOK /\ PnAllDone /\ PnLsRight /\ PnVerifyRight
<1> SUFFICES ASSUME PinsInv PROVE PnTypeOK /\ PnAllDone /\ PnLsRight /\ PnVerifyRight
  OBVIOUS
<1>1. ASSUME NEW c \in PnClients
      PROVE  /\ CmdTypes(pnJob[c]) /\ SawTypes(pnSaw[c]) /\ ArgsOK(pnJob[c], pnSaw[c]) /\ ListOK(pnJob[c], pnSaw[c])
             /\ VerifyOK(pnJob[c], pnSaw[c])
             /\ \A ops : Finished(c, ops) => Done(pnJob[c], ops)
  BY PartsHere DEF Finished, Done
<1>2. PnTypeOK
  BY <1>1 DEF PnTypeOK, PinsInv, CmdTypes, SawTypes, VerifyOK
<1>3. PnAllDone
  BY <1>1 DEF PnAllDone, ArgsOK, WasPinned
<1>4. PnLsRight
  <2> SUFFICES ASSUME NEW c \in PnClients
               PROVE  LET j == pnJob[c]
                          s == pnSaw[c]
                          listed(t) == {d \in DOMAIN j.out : j.out[d] = t} IN
                      /\ Finished(c, {"ls", "lsDir", "lsRec", "lsWalk"}) =>
                          /\ j.opt \in {"all", "recursive"} => s.rec \subseteq listed("recursive")
                          /\ j.opt \in {"all", "direct"} => s.dir \subseteq listed("direct") \cup s.everRec
                          /\ j.opt \in {"all", "indirect"} =>
                              PnBelow(s.rec) \ (s.everRec \cup s.everDir) \subseteq listed("indirect")
                          /\ listed("indirect") \cap (s.rec \cup s.dir) = {}
                      /\ Finished(c, {"ls", "lsDir", "lsRec", "lsWalk", "lsKeys"}) =>
                          /\ listed("recursive") \subseteq s.everRec /\ listed("direct") \subseteq s.everDir
                          /\ listed("indirect") \subseteq PnBelow(s.everRec)
                          /\ DOMAIN j.out = listed("recursive") \cup listed("direct") \cup listed("indirect")
    BY DEF PnLsRight
  <2> DEFINE j == pnJob[c]
             s == pnSaw[c]
  <2>1. ListOK(j, s)
    BY <1>1
  <2>2. /\ Finished(c, {"ls", "lsDir", "lsRec", "lsWalk"}) => Done(j, LsOps)
        /\ Finished(c, {"ls", "lsDir", "lsRec", "lsWalk", "lsKeys"}) => Done(j, LsOps \cup {"lsKeys"})
    BY DEF Finished, Done, LsOps
  <2>3. Done(j, LsOps) =>
            /\ j.opt \in {"all", "recursive"} => s.rec \subseteq Listed(j, "recursive")
            /\ j.opt \in {"all", "direct"} => s.dir \subseteq Listed(j, "direct") \cup s.everRec
            /\ j.opt \in {"all", "indirect"} => PnBelow(s.rec) \ (s.everRec \cup s.everDir) \subseteq Listed(j, "indirect")
            /\ Listed(j, "indirect") \cap (s.rec \cup s.dir) = {}
    BY <2>1 DEF ListOK
  <2>4. Done(j, LsOps \cup {"lsKeys"}) =>
            /\ Listed(j, "recursive") \subseteq s.everRec /\ Listed(j, "direct") \subseteq s.everDir
            /\ Listed(j, "indirect") \subseteq PnBelow(s.everRec)
            /\ DOMAIN j.out = Listed(j, "recursive") \cup Listed(j, "direct") \cup Listed(j, "indirect")
    <3>1. Done(j, LsOps \cup {"lsKeys"}) => TypesTrue(j, s)
      BY <2>1 DEF ListOK
    <3> QED BY <3>1 DEF TypesTrue, Listed
  <2> QED BY <2>2, <2>3, <2>4 DEF Listed
<1>5. PnVerifyRight
  <2> SUFFICES ASSUME NEW c \in PnClients, Finished(c, {"verify"}), NEW d \in DOMAIN pnJob[c].out
               PROVE  LET j == pnJob[c]
                          invalid == IF j.opt = "api" THEN {} ELSE PnInvalid
                      IN /\ j.out[d].ok => PnReach[d] \subseteq pnSaw[c].everHave \ invalid
                         /\ ~j.out[d].ok => ~(PnReach[d] \subseteq pnSaw[c].have \ invalid)
                         /\ j.out[d].bad \subseteq PnReach[d] \ (pnSaw[c].have \ invalid)
    BY DEF PnVerifyRight
  <2>1. OutOK(pnJob[c], Accepted(pnJob[c], pnSaw[c].everHave), Accepted(pnJob[c], pnSaw[c].have))
    BY <1>1 DEF VerifyOK
  <2> QED BY <2>1 DEF OutOK, StatusOK, Accepted
<1> QED BY <1>2, <1>3, <1>4, <1>5

\* A pin command that succeeds has done all it was asked for; pin ls is right
\* while the pins change, and pin verify while blocks come and go, for any DAG,
\* any pins and any number of clients (pinAddMany, rmPinsCmd, Ls, PinAPI.Verify).
THEOREM PinCommandsSound == PnInit /\ [][PnNext]_pnVars => [](PnTypeOK /\ PnAllDone /\ PnLsRight /\ PnVerifyRight)
BY PinInit, PinsStep, PinsReport, PTL

-----------------------------------------------------------------------------
(* The parts together: each is its own specification.                      *)

LEMMA EachPart ==
    /\ StorageInit => Init /\ PnInit /\ RrInit /\ RcInit /\ MnInit
    /\ [StorageNext]_storageVars => [Next]_vars /\ [PnNext]_pnVars /\ [RrNext]_rrVars /\ [RcNext]_rcVars /\ [MnNext]_mnVars
<1>1. StorageInit => Init /\ PnInit /\ RrInit /\ RcInit /\ MnInit
  BY DEF StorageInit
<1>2. ASSUME [StorageNext]_storageVars
      PROVE  [Next]_vars /\ [PnNext]_pnVars /\ [RrNext]_rrVars /\ [RcNext]_rcVars /\ [MnNext]_mnVars
  BY <1>2 DEF StorageNext, storageVars
<1> QED BY <1>1, <1>2

\* ipfs repo and ipfs mount beside everything else (RepoCommandsSound and
\* MountsSound), for every number of blocks, workers, clients and mounts.
THEOREM RepoAndMountsHold == StorageSpec => []RepoAndMountsSound
<1>1. StorageSpec => RcInit /\ [][RcNext]_rcVars /\ MnInit /\ [][MnNext]_mnVars
  BY EachPart, PTL DEF StorageSpec
<1>2. RcSound /\ MnSound => RepoAndMountsSound
  BY DEF RepoAndMountsSound
<1> QED BY <1>1, <1>2, RepoCommandsSound, MountsSound, PTL

\* The remote pin commands beside everything else (RemotePinCommandsSound).
THEOREM RemotePinsHold == StorageSpec => []RrSound
<1>1. StorageSpec => RrInit /\ [][RrNext]_rrVars
  BY EachPart, PTL DEF StorageSpec
<1> QED BY <1>1, RemotePinCommandsSound, PTL

\* The answers of repo verify and repo stat (RepoCommandsReport).
THEOREM RepoReportsHold == StorageSpec => RcReports
<1>1. StorageSpec => RcInit /\ [][RcNext]_rcVars
  BY EachPart, PTL DEF StorageSpec
<1> QED BY <1>1, RepoCommandsReport, PTL

\* The pins: complete whatever is collected, removed and fetched, and as the pin
\* commands report them (TypeCorrect, PinsStayComplete, PinCommandsSound).  No
\* CID that RmBlocks is given shares its block with another one, and no client
\* unpins what an adder has pinned while it lets a collection in.
THEOREM PinsHold == ASSUME RmUnambiguous, RootsStay PROVE StorageSpec => []PinsSound
<1>1. StorageSpec => Spec /\ PnInit /\ [][PnNext]_pnVars
  BY EachPart, PTL DEF StorageSpec, Spec
<1>2. Spec => [](TypeOK /\ PinsComplete)
  BY TypeCorrect, PinsStayComplete, PTL
<1>3. (TypeOK /\ PinsComplete) /\ (PnTypeOK /\ PnAllDone /\ PnLsRight /\ PnVerifyRight) => PinsSound
  BY DEF PinsSound
<1> QED BY <1>1, <1>2, <1>3, PinCommandsSound, PTL

=============================================================================
