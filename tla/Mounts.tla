------------------------------- MODULE Mounts -------------------------------
(***************************************************************************)
(* `ipfs mount`: the two FUSE file systems of a node (fuse/mount,          *)
(* fuse/node, core/commands/mount_unix.go).  A command takes down the      *)
(* mounts the node has, makes both at once and keeps either both or none.  *)
(* FUSE is external: mounting may fail, never become ready or become ready *)
(* late; a mount point may be taken down by others at any time and refuse  *)
(* to be taken down while it is in use.                                    *)
(***************************************************************************)
EXTENDS Integers, FiniteSets

CONSTANTS
    MnClients,  \* who runs ipfs mount
    MaxMounts   \* how many mounts are made (a bound)

ASSUME MountsAssumption == MaxMounts \in Nat

Systems == {"ipfs", "ipns"}
Objects == 1..MaxMounts

VARIABLES
    mnObj,      \* the mount objects
    mnMade,     \* how many there are
    mnNode,     \* node.Mounts: per file system its object, 0 for nil
    mnPc,       \* per client: idle, check, mounting, undo, ok, error
    mnJobs,     \* per client and file system: none, todo, waiting, mounted, failed
    mnMine,     \* per client and file system: the object it made, 0 for nil
    mnOpen      \* the process of the node: open, closing, closed

mnVars == <<mnObj, mnMade, mnNode, mnPc, mnJobs, mnMine, mnOpen>>

(* A mount: its file system; whether the kernel has it, which is as long   *)
(* as fs.Serve runs; the field active; whether its process is a child of   *)
(* the node's that is still open; whether unmount has failed.              *)
NoMount == [fs |-> "", kernel |-> FALSE, active |-> FALSE, proc |-> "none", stuck |-> FALSE]

MnTypeOK ==
    /\ mnMade \in 0..MaxMounts
    /\ \A m \in Objects : (m > mnMade) = (mnObj[m] = NoMount)
    /\ \A m \in 1..mnMade : mnObj[m].proc \in {"open", "closed"} /\ mnObj[m].fs \in Systems
    /\ \A f \in Systems : mnNode[f] # 0 => mnObj[mnNode[f]].fs = f
    /\ mnPc \in [MnClients -> {"idle", "check", "mounting", "undo", "ok", "error"}]
    /\ mnMine \in [MnClients -> [Systems -> 0..mnMade]]

MnInit ==
    /\ mnObj = [m \in Objects |-> NoMount] /\ mnMade = 0
    /\ mnNode = [f \in Systems |-> 0]
    /\ mnPc = [c \in MnClients |-> "idle"]
    /\ mnJobs = [c \in MnClients |-> [f \in Systems |-> "none"]]
    /\ mnMine = [c \in MnClients |-> [f \in Systems |-> 0]]
    /\ mnOpen = "open"

(* The ways mount.unmount ends.  The FUSE library or the commands of the   *)
(* system take the mount down, or its connection is closed, which leaves a *)
(* mount point behind which nothing is served; or all of them fail.        *)
Unmounted(o) == [o EXCEPT !.kernel = FALSE, !.active = FALSE, !.proc = "closed"]
Failed(o) == [o EXCEPT !.proc = "closed", !.stuck = TRUE]

(* Unmount: nothing for a mount that is not active, and mount.unmount once *)
(* otherwise, as the teardown of the process.                              *)
Unmount(o) ==
    IF ~o.active \/ o.proc # "open" THEN {o} ELSE {Unmounted(o), Failed(o)}

-----------------------------------------------------------------------------
(* mount.NewMount, in a goroutine of doMount for each file system.         *)

\* fuse.Mount; the mount becomes a child of the node's process.
NewMount_NoParent(c, f, ok) ==
    /\ mnPc[c] = "mounting" /\ mnJobs[c][f] = "todo" /\ mnOpen # "closed"
    /\ IF ok THEN /\ mnMade < MaxMounts /\ mnMade' = mnMade + 1
                  /\ mnObj' = [mnObj EXCEPT ![mnMade + 1] =
                        [NoMount EXCEPT !.fs = f, !.kernel = TRUE, !.proc = "closed"]]
                  /\ mnMine' = [mnMine EXCEPT ![c][f] = mnMade + 1]
                  /\ mnJobs' = [mnJobs EXCEPT ![c][f] = "waiting"]
       ELSE /\ mnJobs' = [mnJobs EXCEPT ![c][f] = "failed"] /\ UNCHANGED <<mnMade, mnObj, mnMine>>
    /\ UNCHANGED <<mnNode, mnPc, mnOpen>>

NewMount(c, f, ok) ==
    /\ mnPc[c] = "mounting" /\ mnJobs[c][f] = "todo" /\ mnOpen # "closed"
    /\ IF ok THEN /\ mnMade < MaxMounts /\ mnMade' = mnMade + 1
                  /\ mnObj' = [mnObj EXCEPT ![mnMade + 1] =
                        [NoMount EXCEPT !.fs = f, !.kernel = TRUE, !.proc = "open"]]
                  /\ mnMine' = [mnMine EXCEPT ![c][f] = mnMade + 1]
                  /\ mnJobs' = [mnJobs EXCEPT ![c][f] = "waiting"]
       ELSE /\ mnJobs' = [mnJobs EXCEPT ![c][f] = "failed"] /\ UNCHANGED <<mnMade, mnObj, mnMine>>
    /\ UNCHANGED <<mnNode, mnPc, mnOpen>>

(* mount.mount waits until the mount is ready, fails, or five seconds have *)
(* passed.  NewMount then calls Unmount, which does nothing because the    *)
(* mount is not active yet, and returns nil.                               *)
MountReady(c, f) ==
    /\ mnJobs[c][f] = "waiting"
    /\ mnJobs' = [mnJobs EXCEPT ![c][f] = "mounted"]
    /\ mnObj' = [mnObj EXCEPT ![mnMine[c][f]].active = TRUE]
    /\ UNCHANGED <<mnMade, mnNode, mnPc, mnMine, mnOpen>>

MountTimeout(c, f) ==
    /\ mnJobs[c][f] = "waiting"
    /\ mnJobs' = [mnJobs EXCEPT ![c][f] = "failed"]
    /\ \E o \in Unmount(mnObj[mnMine[c][f]]) : mnObj' = [mnObj EXCEPT ![mnMine[c][f]] = o]
    /\ mnMine' = [mnMine EXCEPT ![c][f] = 0]
    /\ UNCHANGED <<mnMade, mnNode, mnPc, mnOpen>>

\* Somebody else unmounts; fs.Serve returns and its goroutine resets active.
ServeEnds(m) ==
    /\ mnObj[m].kernel
    /\ mnObj' = [mnObj EXCEPT ![m].kernel = FALSE, ![m].active = FALSE]
    /\ UNCHANGED <<mnMade, mnNode, mnPc, mnJobs, mnMine, mnOpen>>

-----------------------------------------------------------------------------
(* node.Mount and the command.                                             *)

MountCmd(c) ==
    /\ mnPc[c] \in {"idle", "ok", "error"} /\ mnOpen = "open" /\ mnMade < MaxMounts
    /\ mnPc' = [mnPc EXCEPT ![c] = "check"]
    /\ mnMine' = [mnMine EXCEPT ![c] = [f \in Systems |-> 0]]
    /\ UNCHANGED <<mnObj, mnMade, mnNode, mnJobs, mnOpen>>

\* The mounts the node has are taken down first, as far as that goes.
Mount(c) ==
    /\ mnPc[c] = "check"
    /\ \E a \in IF mnNode["ipfs"] = 0 THEN {NoMount} ELSE Unmount(mnObj[mnNode["ipfs"]]),
          b \in IF mnNode["ipns"] = 0 THEN {NoMount} ELSE Unmount(mnObj[mnNode["ipns"]]) :
        mnObj' = [m \in Objects |-> IF m = mnNode["ipfs"] THEN a
                                    ELSE IF m = mnNode["ipns"] THEN b ELSE mnObj[m]]
    /\ mnPc' = [mnPc EXCEPT ![c] = "mounting"]
    /\ mnJobs' = [mnJobs EXCEPT ![c] = [f \in Systems |-> "todo"]]
    /\ UNCHANGED <<mnMade, mnNode, mnMine, mnOpen>>

NoJobs(c) == mnJobs' = [mnJobs EXCEPT ![c] = [f \in Systems |-> "none"]]

Ended(c) == mnPc[c] = "mounting" /\ \A f \in Systems : mnJobs[c][f] \in {"mounted", "failed"}

\* doMount keeps both mounts,
DoMountKeep(c) ==
    /\ Ended(c) /\ \A f \in Systems : mnJobs[c][f] = "mounted"
    /\ mnNode' = mnMine[c]
    /\ mnPc' = [mnPc EXCEPT ![c] = "ok"] /\ NoJobs(c)
    /\ mnMine' = [mnMine EXCEPT ![c] = [f \in Systems |-> 0]]
    /\ UNCHANGED <<mnObj, mnMade, mnOpen>>

\* or takes down the one that came up.
DoMountUndo_Forget(c) ==
    /\ Ended(c) /\ \E f \in Systems : mnJobs[c][f] = "failed"
    /\ mnPc' = [mnPc EXCEPT ![c] = "error"] /\ NoJobs(c)
    /\ UNCHANGED <<mnObj, mnMade, mnNode, mnMine, mnOpen>>

DoMountUndo(c) ==
    /\ Ended(c) /\ \E f \in Systems : mnJobs[c][f] = "failed"
    /\ LET up == {mnMine[c][f] : f \in Systems} \ {0} IN
       IF up = {} THEN UNCHANGED mnObj
       ELSE \E m \in up, o \in UNION {Unmount(mnObj[m]) : m \in up} :
                /\ o \in Unmount(mnObj[m]) /\ mnObj' = [mnObj EXCEPT ![m] = o]
    /\ mnPc' = [mnPc EXCEPT ![c] = "error"] /\ NoJobs(c)
    /\ UNCHANGED <<mnMade, mnNode, mnMine, mnOpen>>

-----------------------------------------------------------------------------
(* The node closes: its process closes its children, the mounts, by their  *)
(* teardown mount.unmount.                                                 *)

NodeClose ==
    /\ mnOpen = "open" /\ mnOpen' = "closing"
    /\ UNCHANGED <<mnObj, mnMade, mnNode, mnPc, mnJobs, mnMine>>

Teardown(m) ==
    /\ mnOpen = "closing" /\ mnObj[m].proc = "open"
    /\ \E o \in {Unmounted(mnObj[m]), Failed(mnObj[m])} : mnObj' = [mnObj EXCEPT ![m] = o]
    /\ UNCHANGED <<mnMade, mnNode, mnPc, mnJobs, mnMine, mnOpen>>

NodeClosed ==
    /\ mnOpen = "closing" /\ \A m \in Objects : mnObj[m].proc # "open"
    /\ mnOpen' = "closed"
    /\ UNCHANGED <<mnObj, mnMade, mnNode, mnPc, mnJobs, mnMine>>

MnNext ==
    \/ \E c \in MnClients :
        \/ MountCmd(c) \/ Mount(c) \/ DoMountKeep(c) \/ DoMountUndo(c)
        \/ \E f \in Systems : (\E ok \in BOOLEAN : NewMount(c, f, ok)) \/ MountReady(c, f) \/ MountTimeout(c, f)
    \/ \E m \in Objects : ServeEnds(m) \/ Teardown(m)
    \/ NodeClose \/ NodeClosed

-----------------------------------------------------------------------------
(* Properties.                                                             *)

\* ipfs mount (doMount) mounts both file systems or none: after one that failed,
\* no mount it made is live and marked active, unless it refused to be unmounted,
\* also when others unmount or the node closes while it is at work.
MnAllOrNothing ==
    \A c \in MnClients : mnPc[c] = "error" =>
        \A f \in Systems : mnMine[c][f] # 0 =>
            LET m == mnObj[mnMine[c][f]] IN m.kernel /\ m.active => m.stuck

\* Closing the node takes down every mount it ever made, also one that became
\* ready too late for its command and that node.Mounts does not know, unless it
\* refused to be unmounted.
MnClosedIsDown ==
    mnOpen = "closed" => \A m \in Objects : mnObj[m].kernel => mnObj[m].stuck

\* Both mounts or none, and none once the node is closed (doMount, NewMount).
MnSound == MnTypeOK /\ MnAllOrNothing /\ MnClosedIsDown
=============================================================================
