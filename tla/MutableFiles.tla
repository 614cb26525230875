---------------------------- MODULE MutableFiles ----------------------------
(***************************************************************************)
(* `ipfs files` (core/commands/files.go) over the mutable file system of a *)
(* node and the root it keeps in the datastore (Files in core/node/core.go). *)
(*                                                                         *)
(* The tree exists three times: as commands see it (mfTree), as the root   *)
(* directory object records it (mfRoot), and as the datastore key          *)
(* /local/filesroot names it (mfDisk), which is all that is left after a   *)
(* crash.  Flushing a path brings the path, what is below it and the       *)
(* directories above it into the root; whether it brings other unflushed   *)
(* changes along is left open.  The republisher writes the root out later; *)
(* FlushPath waits for it, Directory.Flush does not.  The library go-mfs   *)
(* is external.                                                            *)
(***************************************************************************)
EXTENDS Integers, Sequences, FiniteSets

CONSTANTS
    MfClients,     \* commands that run at the same time
    MfData,        \* contents a file can have, besides none
    MaxCommands    \* commands run (a bound)

ASSUME FilesAssumption == IsFiniteSet(MfData) /\ {"dir", "none"} \cap MfData = {} /\ MaxCommands \in Nat

VARIABLES
    mfTree, mfRoot, mfDisk,
    mfJob,       \* the command of a client
    mfFresh,     \* what a command has flushed and nobody changed since
    mfAcked,     \* paths whose flushed state a command has reported
    mfCount      \* commands begun

mfVars == <<mfTree, mfRoot, mfDisk, mfJob, mfFresh, mfAcked, mfCount>>

\* Two names in the root directory, one in the first of them: a bound on the tree.
MfPaths == {<<"a">>, <<"b">>, <<"a", "x">>}
Slash == <<>>
FileNodes == MfData \cup {"empty"}
MfNodes == FileNodes \cup {"none", "dir"}
ParentOf(p) == IF p = Slash THEN Slash ELSE SubSeq(p, 1, Len(p) - 1)
Under(q, p) == Len(q) >= Len(p) /\ SubSeq(q, 1, Len(p)) = p
IsDir(t, p) == IF p = Slash THEN TRUE ELSE t[p] = "dir"

\* A tree: what exists is in a directory.
WellFormed(t) == \A p \in MfPaths : t[p] # "none" => IsDir(t, ParentOf(p))

MfIdle == [pc |-> "idle", path |-> Slash, data |-> "none"]

FilesCommand ==
    [pc : {"idle", "put", "handle", "open", "copy", "close", "flush", "wait"},
     path : MfPaths \cup {Slash}, data : MfNodes]

MfTypeOK ==
    /\ {mfTree, mfRoot, mfDisk} \subseteq [MfPaths -> MfNodes]
    /\ mfJob \in [MfClients -> FilesCommand]
    /\ mfFresh \in [MfClients -> SUBSET MfPaths] /\ mfAcked \subseteq MfPaths
    /\ mfCount \in 0..MaxCommands

MfInit ==
    /\ mfTree = [p \in MfPaths |-> "none"] /\ mfRoot = mfTree /\ mfDisk = mfTree
    /\ mfJob = [c \in MfClients |-> MfIdle]
    /\ mfFresh = [c \in MfClients |-> {}] /\ mfAcked = {} /\ mfCount = 0

MfBegin(c, job) ==
    /\ mfJob[c] = MfIdle /\ mfCount < MaxCommands
    /\ mfCount' = mfCount + 1
    /\ mfJob' = [mfJob EXCEPT ![c] = job]

\* A change of the tree: what was reported about a changed path is void.  A
\* change of the root directory itself is recorded at once.
MfSet(t) ==
    LET changed == {p \in MfPaths : t[p] # mfTree[p]}
    IN /\ mfTree' = t
       /\ mfFresh' = [c \in MfClients |-> mfFresh[c] \ changed]
       /\ mfAcked' = mfAcked \ changed

Cleared(t, p) == [q \in MfPaths |-> IF Under(q, p) THEN "none" ELSE t[q]]

\* The root after a flush of p: all that is on the way to p or below it, and
\* perhaps more.
Flushed(t, p) ==
    {[q \in MfPaths |-> IF Under(q, p) \/ Under(p, q) \/ q \in extra THEN t[q] ELSE mfRoot[q]]
        : extra \in {{}, MfPaths}}

\* mfs.Mkdir: the directory and, with -p, the ones above it; an existing one
\* is fine with -p only.
Mkdir(t, p, parents) ==
    IF p = Slash THEN {t}
    ELSE IF t[p] # "none" THEN IF parents /\ t[p] = "dir" THEN {t} ELSE {}
    ELSE IF IsDir(t, ParentOf(p)) THEN {[t EXCEPT ![p] = "dir"]}
    ELSE IF parents /\ t[ParentOf(p)] = "none" THEN {[t EXCEPT ![ParentOf(p)] = "dir", ![p] = "dir"]}
    ELSE {}

\* ensureContainingDirectoryExists
EnsureContaining(t, p) == IF Len(p) = 1 THEN {t} ELSE Mkdir(t, ParentOf(p), TRUE)

\* filesMkdirCmd.  Only directories of the root directory are made here: the
\* bound on the tree.  With --flush the new directory is flushed, not waited for.
FilesMkdir(c, p, parents, flush) ==
    /\ mfJob[c] = MfIdle /\ mfCount < MaxCommands /\ mfCount' = mfCount + 1
    /\ Len(p) = 1
    /\ \E t \in Mkdir(mfTree, p, parents) :
          /\ MfSet(t)
          /\ mfRoot' \in IF flush THEN Flushed(t, p) ELSE {mfRoot}
    /\ UNCHANGED <<mfDisk, mfJob>>

\* filesCpCmd up to PutNode: the source is a file of the DAG ("/ipfs/..." wins
\* over a file of that name) or of the tree, and may be a directory of it.
FilesCp(c, src, p, parents) ==
    /\ src \in MfNodes \ {"none"} /\ (src = "dir" => Len(p) = 1)
    /\ MfBegin(c, [MfIdle EXCEPT !.pc = "put", !.path = p, !.data = src])
    /\ \E t \in IF parents THEN EnsureContaining(mfTree, p) ELSE {mfTree} : MfSet(t)
    /\ UNCHANGED <<mfRoot, mfDisk>>

\* PutNode fails where something is, or without a directory to put it in.
CpPut(c, flush) ==
    LET p == mfJob[c].path
    IN /\ mfJob[c].pc = "put"
       /\ IF mfTree[p] = "none" /\ IsDir(mfTree, ParentOf(p))
          THEN /\ MfSet([mfTree EXCEPT ![p] = mfJob[c].data])
               /\ mfJob' = [mfJob EXCEPT ![c] = IF flush THEN [mfJob[c] EXCEPT !.pc = "flush"] ELSE MfIdle]
          ELSE mfJob' = [mfJob EXCEPT ![c] = MfIdle] /\ UNCHANGED <<mfTree, mfFresh, mfAcked>>
       /\ UNCHANGED <<mfRoot, mfDisk, mfCount>>

\* Mutant: the flush does not wait for the republisher.
FlushPath_NoWait(c) ==
    LET p == mfJob[c].path
    IN /\ mfJob[c].pc = "flush"
       /\ mfRoot' \in Flushed(mfTree, p)
       /\ mfJob' = [mfJob EXCEPT ![c] = MfIdle]
       /\ mfAcked' = mfAcked \cup {q \in MfPaths : Under(q, p)}
       /\ UNCHANGED <<mfTree, mfDisk, mfFresh, mfCount>>

\* FlushPath, at the end of cp, mv, chcid and flush: the path must still be
\* there; the root is updated ...
FlushPath(c) ==
    LET p == mfJob[c].path
    IN /\ mfJob[c].pc = "flush"
       /\ IF p # Slash /\ mfTree[p] = "none"
          THEN mfJob' = [mfJob EXCEPT ![c] = MfIdle] /\ UNCHANGED <<mfRoot, mfFresh>>
          ELSE /\ mfRoot' \in Flushed(mfTree, p)
               /\ mfJob' = [mfJob EXCEPT ![c].pc = "wait"]
               /\ mfFresh' = [mfFresh EXCEPT ![c] = {q \in MfPaths : Under(q, p)}]
       /\ UNCHANGED <<mfTree, mfDisk, mfAcked, mfCount>>

\* ... and WaitPub has the republisher put the root, whatever it is by now,
\* into the datastore, and returns when it is there.  The command ends, perhaps
\* after the root has moved on again; it has promised what nobody changed
\* meanwhile.
FlushWait(c) ==
    /\ mfJob[c].pc = "wait" /\ mfDisk' = mfRoot
    /\ mfJob' = [mfJob EXCEPT ![c] = MfIdle]
    /\ mfAcked' = mfAcked \cup mfFresh[c]
    /\ mfFresh' = [mfFresh EXCEPT ![c] = {}]
    /\ UNCHANGED <<mfTree, mfRoot, mfCount>>

\* Files: the republisher puts the root under /local/filesroot, its timer over.
Republish ==
    /\ mfDisk # mfRoot
    /\ mfDisk' = mfRoot
    /\ UNCHANGED <<mfTree, mfRoot, mfJob, mfFresh, mfAcked, mfCount>>

\* filesFlushCmd.
FilesFlush(c, p) ==
    /\ MfBegin(c, [MfIdle EXCEPT !.pc = "flush", !.path = p])
    /\ UNCHANGED <<mfTree, mfRoot, mfDisk, mfFresh, mfAcked>>

\* updatePath: a builder is for directories only.
UpdatePath(p, builder) == builder => IsDir(mfTree, p)

\* filesChcidCmd with --flush; what the builder changes is not told apart.
FilesChcid(c, p, builder) ==
    /\ UpdatePath(p, builder)
    /\ MfBegin(c, [MfIdle EXCEPT !.pc = "flush", !.path = p])
    /\ UNCHANGED <<mfTree, mfRoot, mfDisk, mfFresh, mfAcked>>

\* The place of q when src becomes dst.
Moved(q, src, dst) == dst \o SubSeq(q, Len(src) + 1, Len(q))

\* filesMvCmd: the subtree moves (mfs.Mv), an existing file is replaced and an
\* existing directory not moved into here; then the whole tree is flushed.
FilesMv(c, src, dst, flush) ==
    /\ src # dst /\ mfTree[src] # "none" /\ ~Under(dst, src)
    /\ IsDir(mfTree, ParentOf(dst)) /\ mfTree[dst] # "dir"
    /\ \A q \in MfPaths : Under(q, src) /\ mfTree[q] # "none" => Moved(q, src, dst) \in MfPaths
    /\ MfBegin(c, IF flush THEN [MfIdle EXCEPT !.pc = "flush"] ELSE MfIdle)
    /\ LET moved == [q \in MfPaths |-> IF Under(q, dst) /\ Moved(q, dst, src) \in MfPaths
                                       THEN mfTree[Moved(q, dst, src)]
                                       ELSE IF Under(q, dst) THEN "none" ELSE mfTree[q]]
       IN MfSet(Cleared(moved, src))
    /\ UNCHANGED <<mfRoot, mfDisk>>

\* removePath: not the root, and a directory with -r or --force only.
RemovePath(p, force, dashr) ==
    p # Slash /\ mfTree[p] # "none" /\ (mfTree[p] = "dir" => force \/ dashr)

\* filesRmCmd, one path: the parent directory is flushed whatever --flush says,
\* and not waited for.  The next path is another such step.
FilesRm(c, p, force, dashr) ==
    /\ mfJob[c] = MfIdle /\ mfCount < MaxCommands /\ mfCount' = mfCount + 1
    /\ RemovePath(p, force, dashr)
    /\ MfSet(Cleared(mfTree, p))
    /\ mfRoot' \in Flushed(Cleared(mfTree, p), ParentOf(p))
    /\ UNCHANGED <<mfDisk, mfJob>>

\* filesWriteCmd up to the file handle, parents made first.
FilesWrite(c, p, data, parents) ==
    /\ MfBegin(c, [pc |-> "handle", path |-> p, data |-> data])
    /\ \E t \in IF parents THEN EnsureContaining(mfTree, p) ELSE {mfTree} : MfSet(t)
    /\ UNCHANGED <<mfRoot, mfDisk>>

\* Mutant: a file is created over a missing or a wrong parent.
GetFileHandle_NoParent(c, create) ==
    LET p == mfJob[c].path
    IN /\ mfJob[c].pc = "handle"
       /\ IF mfTree[p] = "none" /\ create THEN MfSet([mfTree EXCEPT ![p] = "empty"])
          ELSE UNCHANGED <<mfTree, mfFresh, mfAcked>>
       /\ mfJob' = [mfJob EXCEPT ![c] = IF mfTree'[p] \in FileNodes THEN [mfJob[c] EXCEPT !.pc = "open"] ELSE MfIdle]
       /\ UNCHANGED <<mfRoot, mfDisk, mfCount>>

\* getFileHandle: an existing file, or with --create a new empty one in an
\* existing directory (getParentDir).
GetFileHandle(c, create) ==
    LET p == mfJob[c].path
    IN /\ mfJob[c].pc = "handle"
       /\ IF mfTree[p] = "none" /\ create /\ IsDir(mfTree, ParentOf(p))
          THEN MfSet([mfTree EXCEPT ![p] = "empty"])
          ELSE UNCHANGED <<mfTree, mfFresh, mfAcked>>
       /\ mfJob' = [mfJob EXCEPT ![c] = IF mfTree'[p] \in FileNodes THEN [mfJob[c] EXCEPT !.pc = "open"] ELSE MfIdle]
       /\ UNCHANGED <<mfRoot, mfDisk, mfCount>>

\* Only one writer of a file at a time (its descriptor lock).
Writing(c, p) == mfJob[c].pc \in {"copy", "close"} /\ mfJob[c].path = p
Present(p) == mfTree[p] \in FileNodes

\* Open and Truncate come before the arguments are all checked: a negative
\* --count, or no input (bad), ends the command with the file truncated.
WriteOpen(c, trunc, bad) ==
    LET p == mfJob[c].path
    IN /\ mfJob[c].pc = "open" /\ \A d \in MfClients \ {c} : ~Writing(d, p)
       /\ IF trunc /\ Present(p) THEN MfSet([mfTree EXCEPT ![p] = "empty"])
          ELSE UNCHANGED <<mfTree, mfFresh, mfAcked>>
       /\ mfJob' = [mfJob EXCEPT ![c].pc = IF bad THEN "close" ELSE "copy"]
       /\ UNCHANGED <<mfRoot, mfDisk, mfCount>>

\* The copy ends, whole or cut off by an error of the reader.
WriteCopy(c) ==
    LET p == mfJob[c].path
    IN /\ mfJob[c].pc = "copy"
       /\ IF Present(p) THEN MfSet([mfTree EXCEPT ![p] = mfJob[c].data])
          ELSE UNCHANGED <<mfTree, mfFresh, mfAcked>>
       /\ mfJob' = [mfJob EXCEPT ![c].pc = "close"]
       /\ UNCHANGED <<mfRoot, mfDisk, mfCount>>

\* The deferred Close: with --flush the file goes into the root.  A file that
\* was removed or moved away meanwhile may come back into its directory.
WriteClose(c, back, flush) ==
    LET p == mfJob[c].path
        t == IF back /\ mfTree[p] = "none" /\ IsDir(mfTree, ParentOf(p))
             THEN [mfTree EXCEPT ![p] = mfJob[c].data] ELSE mfTree
    IN /\ mfJob[c].pc = "close"
       /\ MfSet(t)
       /\ mfRoot' \in IF flush /\ t[p] # "none" THEN Flushed(t, p) ELSE {mfRoot}
       /\ mfJob' = [mfJob EXCEPT ![c] = MfIdle]
       /\ UNCHANGED <<mfDisk, mfCount>>

\* root.Close, when the node stops: all of the tree is flushed and published.
MfStop ==
    /\ mfRoot' = mfTree /\ mfDisk' = mfTree
    /\ mfJob' = [c \in MfClients |-> MfIdle] /\ mfFresh' = [c \in MfClients |-> {}]
    /\ UNCHANGED <<mfTree, mfAcked, mfCount>>

\* The process dies and the next one loads the root it finds (Files).
MfCrash ==
    /\ mfTree' = mfDisk /\ mfRoot' = mfDisk
    /\ mfJob' = [c \in MfClients |-> MfIdle] /\ mfFresh' = [c \in MfClients |-> {}]
    /\ UNCHANGED <<mfDisk, mfAcked, mfCount>>

MfNext ==
    \/ Republish \/ MfStop \/ MfCrash
    \/ \E c \in MfClients :
          \/ FlushPath(c) \/ FlushWait(c) \/ WriteCopy(c)
          \/ \E b \in BOOLEAN : GetFileHandle(c, b) \/ CpPut(c, b)
          \/ \E b1, b2 \in BOOLEAN : WriteOpen(c, b1, b2) \/ WriteClose(c, b1, b2)
          \/ \E p \in MfPaths \cup {Slash} :
                FilesFlush(c, p) \/ \E b \in BOOLEAN : FilesChcid(c, p, b)
          \/ \E p \in MfPaths, b1, b2 \in BOOLEAN :
                \/ FilesMkdir(c, p, b1, b2) \/ FilesRm(c, p, b1, b2)
                \/ \E src \in MfData \cup {"dir"} : FilesCp(c, src, p, b1)
                \/ \E d \in MfData : FilesWrite(c, p, d, b1)
                \/ \E dst \in MfPaths : FilesMv(c, p, dst, b1)

-----------------------------------------------------------------------------
(* Properties.                                                             *)

\* Commands that interleave leave a tree in memory, in the root and on disk:
\* nothing below a file or below what does not exist (getParentDir,
\* ensureContainingDirectoryExists, PutNode).
MfTrees == WellFormed(mfTree) /\ WellFormed(mfRoot) /\ WellFormed(mfDisk)

\* What cp, mv, chcid or flush reported as flushed is on disk and survives a
\* crash, until a later command changes it, and however other commands'
\* flushes and writes interleave (FlushPath).
MfDurable == \A p \in mfAcked : mfDisk[p] = mfTree[p]

\* Trees everywhere, and on disk what was reported as flushed (files commands).
MfSound == MfTypeOK /\ MfTrees /\ MfDurable
=============================================================================
