-------------------------- MODULE GarbageCollection --------------------------
(***************************************************************************)
(* Mark and sweep garbage collection of the block store (kubo/gc/gc.go,    *)
(* core/corerepo/gc.go) against everything that runs beside it: the pin    *)
(* API, the operations that put a block and pin it, CAR import, the adder  *)
(* of `ipfs add`, `ipfs block rm`, MFS, and blocks arriving with no lock.  *)
(*                                                                         *)
(* The GC locker.  PinLock is the read side and GCLock the write side of   *)
(* one Go RWMutex: a writer first announces itself, which makes later      *)
(* readers wait, then waits for the readers to leave; its unlock lets in   *)
(* every reader that waits.  GCRequested is true while a GCLock waits.     *)
(*                                                                         *)
(* Data.  A CID is a codec and a multihash (gc.go turns version 0 into 1); *)
(* the codec decides the links, the multihash names the stored block, so   *)
(* several CIDs may share a block.  A DAG is the constant Links.           *)
(***************************************************************************)
EXTENDS Naturals, Sequences

CONSTANTS
    Cids, Hashes,      \* content identifiers, and the multihashes of blocks
    Mh,                \* Mh[c] is the multihash of c
    Links,             \* Links[c] are the CIDs the node c links to
    Collectors,        \* processes that run a garbage collection
    Removers,          \* processes that call RmBlocks
    Clients,           \* processes that call the pinning operations
    Adders,            \* processes that run AddAllAndPin
    PinTargets,        \* CIDs the clients pin
    UnpinTargets,      \* CIDs the clients unpin
    PutTargets,        \* CIDs put and pinned without looking at the links
    RmTargets,         \* CIDs given to RmBlocks
    FetchTargets,      \* CIDs whose block may arrive with no lock held
    MfsRoots,          \* CIDs the MFS root takes; the first one is MfsInit
    MfsInit,
    Files,             \* Files[a] is the sequence of files adder a adds
    Roots,             \* Roots[a][n] is a's current root after n files
    Final,             \* Final[a] is the root that a pins in the end
    UnlockedDuringGC,  \* may MFS and fetches run during a collection?
    None

Procs == Collectors \cup Removers \cup Clients \cup Adders

ASSUME GCAssumption ==
    /\ Mh \in [Cids -> Hashes]
    /\ Links \in [Cids -> SUBSET Cids]
    /\ PinTargets \subseteq Cids /\ UnpinTargets \subseteq Cids
    /\ PutTargets \subseteq Cids /\ RmTargets \subseteq Cids
    /\ FetchTargets \subseteq Cids
    /\ MfsRoots \subseteq Cids /\ MfsInit \in MfsRoots
    /\ Files \in [Adders -> Seq(Cids)]
    /\ Final \in [Adders -> Cids]
    /\ \A a \in Adders : \A n \in 0..Len(Files[a]) : Roots[a][n] \in Cids
    /\ UnlockedDuringGC \in BOOLEAN
    /\ None \notin Procs
    /\ Collectors \cap (Removers \cup Clients \cup Adders) = {}
    /\ Removers \cap (Clients \cup Adders) = {}
    /\ Clients \cap Adders = {}

VARIABLES
    blocks,       \* the multihashes in the block store
    rpins, dpins, \* recursive and direct pins of the pinner
    unverified,   \* recursive pins made without a walk of all below (history)
    mfs,          \* the CID of the MFS root directory
    readers,      \* processes that hold PinLock
    rwait,        \* processes that wait in PinLock
    wwait,        \* processes inside GCLock that do not have it yet
    announced,    \* the writer that makes new readers wait
    writer,       \* the process that holds GCLock
    pc,           \* where each process is
    bestEffort,   \* the roots a collector read before it called GC
    marked,       \* gcs of the collection under way
    errors,       \* errors of ColoredSet of the collection under way
    keys,         \* blocks AllKeysChan still gives that are not in gcs, or the
                  \* CIDs RmBlocks still removes, as multihashes
    added         \* files an adder has added

store  == <<blocks, rpins, dpins, unverified, mfs>>
locker == <<readers, rwait, wwait, announced, writer>>
work   == <<bestEffort, marked, errors, keys, added>>
vars   == <<store, locker, pc, work>>

-----------------------------------------------------------------------------
(* DAGs.                                                                   *)

MhOf(cs) == {Mh[c] : c \in cs}

\* The CIDs a walk from R visits when only the blocks S can be read: a CID is
\* visited, then its links if its block is there.
Reach(R, S) ==
    {c \in Cids : \A T \in SUBSET Cids :
        (R \subseteq T /\ \A d \in T : Mh[d] \in S => Links[d] \subseteq T) => c \in T}

DescOf == [c \in Cids |-> Reach({c}, Hashes)]

\* Everything a recursive pin of the CIDs R stands for.
Desc(R) == UNION {DescOf[c] : c \in R}

Complete(R) == MhOf(Desc(R)) \subseteq blocks

FilesUpTo(a, n) == {Files[a][i] : i \in 1..n}

\* The root directory after n files holds these files, and below it no node of a
\* file that is still to come unless it is one of theirs too: the other nodes
\* are directories.
ASSUME RootsAssumption ==
    \A a \in Adders : \A n \in 0..Len(Files[a]) :
        /\ Desc(FilesUpTo(a, n)) \subseteq Desc({Roots[a][n]})
        /\ (Desc({Roots[a][n]}) \ {Roots[a][n]}) \cap Desc(FilesUpTo(a, Len(Files[a])))
                \subseteq Desc(FilesUpTo(a, n))

\* The blocks that the pins promise to keep.
PinnedBlocks == MhOf(Desc(rpins)) \cup MhOf(dpins)

-----------------------------------------------------------------------------
(* The GC locker (go-ipfs-blockstore), as a Go RWMutex.                    *)

GCRequested == wwait # {}

PinLock(p) ==
    /\ IF announced = None
       THEN readers' = readers \cup {p} /\ rwait' = rwait
       ELSE rwait' = rwait \cup {p} /\ readers' = readers
    /\ UNCHANGED <<wwait, announced, writer>>

PinUnlock(p) ==
    /\ readers' = readers \ {p}
    /\ UNCHANGED <<rwait, wwait, announced, writer>>

GCLock(p) ==
    /\ wwait' = wwait \cup {p}
    /\ UNCHANGED <<readers, rwait, announced, writer>>

GCAnnounce(p) ==
    /\ p \in wwait
    /\ announced = None
    /\ announced' = p
    /\ UNCHANGED <<readers, rwait, wwait, writer>>

GCAcquire(p) ==
    /\ announced = p
    /\ writer = None
    /\ readers = {}
    /\ writer' = p
    /\ wwait' = wwait \ {p}
    /\ UNCHANGED <<readers, rwait, announced>>

\* The unlock of the writer hands the lock to the readers that wait.
GCUnlock(p) ==
    /\ writer' = None
    /\ announced' = None
    /\ readers' = readers \cup rwait
    /\ rwait' = {}
    /\ UNCHANGED wwait

At(p, l)   == pc[p] = l
Goto(p, l) == pc' = [pc EXCEPT ![p] = l]
HasRead(p) == p \in readers

TypeOK ==
    /\ blocks \subseteq Hashes
    /\ rpins \subseteq Cids /\ dpins \subseteq Cids
    /\ unverified \subseteq Cids
    /\ mfs \in MfsRoots
    /\ readers \subseteq Procs /\ rwait \subseteq Procs /\ wwait \subseteq Procs
    /\ announced \in Procs \cup {None}
    /\ writer \in Procs \cup {None}
    /\ pc \in [Procs -> {"idle", "roots", "gclock", "mark", "best", "direct",
                         "sweep", "filter", "delete", "plock", "check", "write",
                         "finish", "done"}]
    /\ bestEffort \in [Collectors -> MfsRoots]
    /\ marked \subseteq Cids
    /\ errors \in BOOLEAN
    /\ keys \subseteq Hashes
    /\ added \in [Adders -> Nat]

\* The node has started with an empty MFS and nothing else.
Init ==
    /\ blocks = {Mh[MfsInit]}
    /\ rpins = {} /\ dpins = {} /\ unverified = {}
    /\ mfs = MfsInit
    /\ readers = {} /\ rwait = {} /\ wwait = {}
    /\ announced = None /\ writer = None
    /\ pc = [p \in Procs |-> "idle"]
    /\ bestEffort = [g \in Collectors |-> MfsInit]
    /\ marked = {} /\ errors = FALSE /\ keys = {}
    /\ added = [a \in Adders |-> 0]

-----------------------------------------------------------------------------
(* A collection: GarbageCollect and GC.                                    *)

\* BestEffortRoots, read before GC asks for the lock.
BestEffortRoots(g) ==
    /\ At(g, "idle")
    /\ bestEffort' = [bestEffort EXCEPT ![g] = mfs]
    /\ Goto(g, "roots")
    /\ UNCHANGED <<store, locker, marked, errors, keys, added>>

GCBegin(g) ==
    /\ At(g, "roots")
    /\ GCLock(g)
    /\ Goto(g, "gclock")
    /\ UNCHANGED <<store, work>>

GCAnnounced(p) ==
    /\ GCAnnounce(p)
    /\ UNCHANGED <<store, pc, work>>

GCLocked(g) ==
    /\ At(g, "gclock")
    /\ GCAcquire(g)
    /\ marked' = {} /\ errors' = FALSE /\ keys' = {}
    /\ Goto(g, "mark")
    /\ UNCHANGED <<store, bestEffort, added>>

\* ColoredSet, first walk: the recursive pins.  A block that is missing, or that
\* cannot be read (ioError), is an error, but the walk goes on.
ColoredSetPinned(g, ioError) ==
    /\ At(g, "mark")
    /\ marked' = Reach(rpins, blocks)
    /\ errors' = (ioError \/ ~(MhOf(Reach(rpins, blocks)) \subseteq blocks))
    /\ Goto(g, "best")
    /\ UNCHANGED <<store, locker, bestEffort, keys, added>>

\* Mutant: the best-effort roots are not walked.
ColoredSetBestEffort_Skipped(g, ioError) ==
    /\ At(g, "best")
    /\ errors' = (errors \/ ioError)
    /\ Goto(g, "direct")
    /\ UNCHANGED <<store, locker, bestEffort, marked, keys, added>>

\* ColoredSet, second walk: the best-effort roots, where a missing block is no
\* error.  (Without errors the first walk's set is closed under links, so that
\* skipping what it visited skips nothing below it.)
ColoredSetBestEffort(g, ioError) ==
    /\ At(g, "best")
    /\ marked' = marked \cup Reach({bestEffort[g]}, blocks)
    /\ errors' = (errors \/ ioError)
    /\ Goto(g, "direct")
    /\ UNCHANGED <<store, locker, bestEffort, keys, added>>

\* What AllKeysChan gives and the sweep does not find in the set of raw CIDs.
Unmarked(cs) == blocks \ MhOf(cs)

\* Mutant: the links of the recursive pins are swept (an off-by-one walk).
ColoredSetDirect_RootsOnly(g) ==
    /\ At(g, "direct")
    /\ ~errors
    /\ marked' = marked \cup dpins
    /\ keys' = Unmarked(rpins \cup dpins)
    /\ Goto(g, "sweep")
    /\ UNCHANGED <<store, locker, bestEffort, errors, added>>

\* The end of ColoredSet: the direct pins (the pinner has no internal pins),
\* then the listing of the keys, unless an error aborts the collection.
ColoredSetDirect(g) ==
    /\ At(g, "direct")
    /\ ~errors
    /\ marked' = marked \cup dpins
    /\ keys' = Unmarked(marked')
    /\ Goto(g, "sweep")
    /\ UNCHANGED <<store, locker, bestEffort, errors, added>>

\* One turn of the sweep; DeleteBlock may fail, and the sweep goes on.
GCSweep(g, k, deleteError) ==
    /\ At(g, "sweep")
    /\ k \in keys
    /\ keys' = keys \ {k}
    /\ blocks' = IF deleteError THEN blocks ELSE blocks \ {k}
    /\ UNCHANGED <<rpins, dpins, unverified, mfs, locker, pc, bestEffort, marked,
                   errors, added>>

GCReturn(g) ==
    /\ GCUnlock(g)
    /\ marked' = {} /\ errors' = FALSE /\ keys' = {}
    /\ Goto(g, "idle")
    /\ UNCHANGED <<store, bestEffort, added>>

\* GC returns: ColoredSet failed, or the keys are exhausted.
GCEnd(g) ==
    /\ (At(g, "direct") /\ errors) \/ (At(g, "sweep") /\ keys = {})
    /\ GCReturn(g)

\* The context is cancelled, at any point.
GCCancel(g) ==
    /\ pc[g] \in {"mark", "best", "direct", "sweep"}
    /\ GCReturn(g)

Collect(g) ==
    \/ BestEffortRoots(g)
    \/ GCBegin(g)
    \/ GCAnnounced(g)
    \/ GCLocked(g)
    \/ \E io \in BOOLEAN : ColoredSetPinned(g, io) \/ ColoredSetBestEffort(g, io)
    \/ ColoredSetDirect(g)
    \/ \E k \in Hashes, de \in BOOLEAN : GCSweep(g, k, de)
    \/ GCEnd(g)
    \/ GCCancel(g)

-----------------------------------------------------------------------------
(* RmBlocks.                                                               *)

RmBegin(p) ==
    /\ At(p, "idle")
    /\ GCLock(p)
    /\ Goto(p, "gclock")
    /\ UNCHANGED <<store, work>>

RmLocked(p) ==
    /\ At(p, "gclock")
    /\ GCAcquire(p)
    /\ Goto(p, "filter")
    /\ UNCHANGED <<store, work>>

\* The pinner's CheckIfPinned compares CIDs; it fails when the walk of a
\* recursive pin meets a missing block, and then nothing is removed.
CheckIfPinned(c) == c \in Desc(rpins) \/ c \in dpins

\* Mutant: only the direct and recursive roots are looked at.
FilterPinned_RootsOnly(p, cs) ==
    /\ At(p, "filter")
    /\ keys' = MhOf(cs \ (rpins \cup dpins))
    /\ Goto(p, "delete")
    /\ UNCHANGED <<store, locker, bestEffort, marked, errors, added>>

FilterPinned(p, cs) ==
    /\ At(p, "filter")
    /\ Complete(rpins)
    /\ keys' = MhOf({c \in cs : ~CheckIfPinned(c)})
    /\ Goto(p, "delete")
    /\ UNCHANGED <<store, locker, bestEffort, marked, errors, added>>

\* One turn of RmBlocks: the block may be absent, or the deletion fail.
RmBlock(p, k, deleteError) ==
    /\ At(p, "delete")
    /\ k \in keys
    /\ keys' = keys \ {k}
    /\ blocks' = IF deleteError THEN blocks ELSE blocks \ {k}
    /\ UNCHANGED <<rpins, dpins, unverified, mfs, locker, pc, bestEffort, marked,
                   errors, added>>

\* The deferred unlock, after the last block or after a failed pin check.
RmEnd(p) ==
    /\ At(p, "filter") \/ (At(p, "delete") /\ keys = {})
    /\ GCUnlock(p)
    /\ Goto(p, "idle")
    /\ UNCHANGED <<store, work>>

RmBlocks(p) ==
    \/ RmBegin(p)
    \/ GCAnnounced(p)
    \/ RmLocked(p)
    \/ \E c \in RmTargets : FilterPinned(p, {c})
    \/ \E k \in Hashes, de \in BOOLEAN : RmBlock(p, k, de)
    \/ RmEnd(p)

-----------------------------------------------------------------------------
(* The pin API, puts that pin, and CAR import: each holds PinLock.         *)

PinRequest(p) ==
    /\ At(p, "idle")
    /\ PinLock(p)
    /\ Goto(p, "plock")
    /\ UNCHANGED <<store, work>>

PinLocked(p) == At(p, "plock") /\ HasRead(p)

\* The deferred Unlock.
PinReturn(p) ==
    /\ PinUnlock(p)
    /\ Goto(p, "idle")
    /\ UNCHANGED <<mfs, work>>

\* The pinner's recursive Pin: it stores the node it is given, returns if it is
\* pinned already, and otherwise pins once the walk found every block.
\* (Missing blocks come from the network: see Fetch.)
PinRecursive(c) ==
    /\ blocks' = blocks \cup {Mh[c]}
    /\ \/ /\ c \in rpins
          /\ UNCHANGED <<rpins, dpins, unverified>>
       \/ /\ c \notin rpins
          /\ MhOf(Desc({c})) \subseteq blocks'
          /\ rpins' = rpins \cup {c}
          /\ dpins' = dpins \ {c}
          /\ UNCHANGED unverified

\* The pinner's PinWithMode(c, Recursive): no walk at all.
PinWithMode(c) ==
    /\ rpins' = rpins \cup {c}
    /\ UNCHANGED dpins

PinAdd(p, c) ==
    /\ PinLocked(p)
    /\ PinRecursive(c)
    /\ PinReturn(p)

PinAddDirect(p, c) ==
    /\ PinLocked(p)
    /\ c \notin rpins
    /\ blocks' = blocks \cup {Mh[c]}
    /\ dpins' = dpins \cup {c}
    /\ UNCHANGED <<rpins, unverified>>
    /\ PinReturn(p)

PinRm(p, c) ==
    /\ PinLocked(p)
    /\ c \in rpins \cup dpins
    /\ rpins' = rpins \ {c}
    /\ dpins' = dpins \ {c}
    /\ unverified' = unverified \ {c}
    /\ UNCHANGED blocks
    /\ PinReturn(p)

\* PinAPI.Update: the new pin is made before the old one goes.  The pinner gets
\* both nodes and walks what differs: branches that `from` has too are skipped,
\* as they are taken to be there (which ones depends on the order of the links;
\* any may be).  What `from` does not vouch for, `to` does not either.
PinUpdate(p, from, to, unpin) ==
    /\ PinLocked(p)
    /\ from \in rpins
    /\ to \notin rpins
    /\ MhOf({from, to} \cup (Desc({to}) \ Desc({from}))) \subseteq blocks
    /\ rpins' = (rpins \cup {to}) \ (IF unpin THEN {from} ELSE {})
    /\ unverified' = (unverified \cup (IF from \in unverified THEN {to} ELSE {}))
                         \ (IF unpin THEN {from} ELSE {})
    /\ UNCHANGED <<blocks, dpins>>
    /\ PinReturn(p)

\* Nodes are stored and pinned, whatever they link to.
PutPinned(p, cs) ==
    /\ PinLocked(p)
    /\ blocks' = blocks \cup MhOf(cs)
    /\ rpins' = rpins \cup cs
    /\ unverified' = unverified \cup (cs \ rpins)
    /\ UNCHANGED dpins
    /\ PinReturn(p)

\* The operations that do so: block put, object put and dag put with the pin
\* option.
BlockPut(p, c)        == PutPinned(p, {c})
ObjectPut(p, c)       == PutPinned(p, {c})
PinningAdd(p, c)      == PutPinned(p, {c})
PinningAddMany(p, cs) == PutPinned(p, cs)

\* dag import: one of the roots of the CAR file is pinned; the lock is kept.
ImportRoot(p, c) ==
    /\ PinLocked(p)
    /\ Mh[c] \in blocks
    /\ PinRecursive(c)
    /\ UNCHANGED <<mfs, locker, pc, work>>

\* The operation fails, or the import is over.
PinDone(p) ==
    /\ PinLocked(p)
    /\ UNCHANGED <<blocks, rpins, dpins, unverified>>
    /\ PinReturn(p)

ClientOp(p) ==
    \/ \E c \in PinTargets : PinAdd(p, c) \/ PinAddDirect(p, c) \/ ImportRoot(p, c)
    \/ \E c \in UnpinTargets : PinRm(p, c)
    \/ \E from \in UnpinTargets, to \in PinTargets, unpin \in BOOLEAN :
          PinUpdate(p, from, to, unpin)
    \/ \E c \in PutTargets : BlockPut(p, c) \/ ObjectPut(p, c) \/ PinningAdd(p, c)
    \/ PinningAddMany(p, PutTargets)
    \/ PinDone(p)

-----------------------------------------------------------------------------
(* AddAllAndPin, with the pin option.                                      *)

\* The blocks of directories that flushing the adder's MFS root stores.
DirBlocks(a, r) ==
    MhOf({r} \cup (Desc({r}) \ Desc(FilesUpTo(a, Len(Files[a])))))

\* tempRoot is never set, so nothing is unpinned here.
PinRoot(a, r) ==
    /\ blocks' = blocks \cup DirBlocks(a, r)
    /\ PinWithMode(r)
    /\ unverified' = unverified \ {r}
    /\ UNCHANGED mfs

AddBegin(a) ==
    /\ At(a, "idle")
    /\ PinLock(a)
    /\ Goto(a, "check")
    /\ UNCHANGED <<store, work>>

AfterCheck(a) == IF added[a] = Len(Files[a]) THEN "finish" ELSE "write"

\* addFileNode: GCRequested is false, so the next file is read.
AddFileNode(a) ==
    /\ At(a, "check")
    /\ HasRead(a)
    /\ ~GCRequested
    /\ Goto(a, AfterCheck(a))
    /\ UNCHANGED <<store, locker, work>>

\* Mutant: the lock is released with nothing pinned.
maybePauseForGC_NoPin(a) ==
    /\ At(a, "check")
    /\ HasRead(a)
    /\ GCRequested
    /\ PinUnlock(a)
    /\ Goto(a, "plock")
    /\ UNCHANGED <<store, work>>

\* Mutant: the adder locks again before it unlocks.
maybePauseForGC_Relock(a) ==
    /\ At(a, "check")
    /\ HasRead(a)
    /\ GCRequested
    /\ PinRoot(a, Roots[a][added[a]])
    /\ PinLock(a)
    /\ Goto(a, IF announced = None THEN AfterCheck(a) ELSE "done")
    /\ UNCHANGED work

\* A collection waits: the root so far is pinned and the lock released ...
maybePauseForGC(a) ==
    /\ At(a, "check")
    /\ HasRead(a)
    /\ GCRequested
    /\ PinRoot(a, Roots[a][added[a]])
    /\ PinUnlock(a)
    /\ Goto(a, "plock")
    /\ UNCHANGED work

\* ... and asked for again.
AddRelock(a) ==
    /\ At(a, "plock")
    /\ PinLock(a)
    /\ Goto(a, AfterCheck(a))
    /\ UNCHANGED <<store, work>>

CurFile(a) == Files[a][added[a] + 1]

\* A block of the file reaches the store before the final Commit.
AddBlock(a, k) ==
    /\ At(a, "write")
    /\ HasRead(a)
    /\ k \in MhOf(Desc({CurFile(a)})) \ blocks
    /\ blocks' = blocks \cup {k}
    /\ UNCHANGED <<rpins, dpins, unverified, mfs, locker, pc, work>>

\* The file's Commit, and addNode.
AddFile(a) ==
    /\ At(a, "write")
    /\ HasRead(a)
    /\ blocks' = blocks \cup MhOf(Desc({CurFile(a)}))
    /\ added' = [added EXCEPT ![a] = @ + 1]
    /\ Goto(a, IF added[a] + 1 = Len(Files[a]) THEN "finish" ELSE "check")
    /\ UNCHANGED <<rpins, dpins, unverified, mfs, locker, bestEffort, marked,
                   errors, keys>>

AddFinish(a) ==
    /\ At(a, "finish")
    /\ HasRead(a)
    /\ PinRoot(a, Final[a])
    /\ PinUnlock(a)
    /\ Goto(a, "done")
    /\ UNCHANGED work

\* An error anywhere: the deferred Unlock is all that happens.
AddFail(a) ==
    /\ pc[a] \in {"check", "write", "finish"}
    /\ HasRead(a)
    /\ PinUnlock(a)
    /\ Goto(a, "done")
    /\ UNCHANGED <<store, work>>

AddStep(a) ==
    \/ AddFileNode(a)
    \/ maybePauseForGC(a)
    \/ AddRelock(a)
    \/ \E k \in Hashes : AddBlock(a, k)
    \/ AddFile(a)
    \/ AddFinish(a)
    \/ AddFail(a)

-----------------------------------------------------------------------------
(* What takes no lock.                                                     *)

Undisturbed == UnlockedDuringGC \/ \A g \in Collectors : At(g, "idle")

\* Mutant: the block is stored under its CID.
Fetch_ByCid(c) ==
    /\ Undisturbed
    /\ Mh[c] \notin blocks
    /\ blocks' = blocks \cup {c}
    /\ UNCHANGED <<rpins, dpins, unverified, mfs, locker, pc, work>>

\* A block arrives: bitswap, a put without pin, an MFS write.  A listing of
\* the keys that is under way may or may not give it.
Fetch(c) ==
    /\ Undisturbed
    /\ Mh[c] \notin blocks
    /\ blocks' = blocks \cup {Mh[c]}
    /\ keys' \in {keys} \cup
           {keys \cup {Mh[c]} : g \in {x \in Collectors :
                                        At(x, "sweep") /\ Mh[c] \notin MhOf(marked)}}
    /\ UNCHANGED <<rpins, dpins, unverified, mfs, locker, pc, bestEffort, marked,
                   errors, added>>

\* An `ipfs files` command ends with another root directory.
MfsUpdate(r) ==
    /\ Undisturbed
    /\ mfs # r
    /\ mfs' = r
    /\ blocks' = blocks \cup {Mh[r]}
    /\ UNCHANGED <<rpins, dpins, unverified, locker, pc, work>>

Next ==
    \/ \E g \in Collectors : Collect(g)
    \/ \E p \in Removers : RmBlocks(p)
    \/ \E p \in Clients : PinRequest(p) \/ ClientOp(p)
    \/ \E a \in Adders : AddBegin(a) \/ AddStep(a)
    \/ \E c \in FetchTargets : Fetch(c)
    \/ \E r \in MfsRoots : MfsUpdate(r)

Spec == Init /\ [][Next]_vars

(***************************************************************************)
(* Fairness.  A collection or removal that has begun goes on, an adder     *)
(* between two files does, and a writer is not passed over for ever (Go's  *)
(* mutex hands itself to a starving waiter).  Nothing forces an operation  *)
(* to begin, a context to be cancelled or a block to arrive; nor, with     *)
(* PinLock held, a pin to get the blocks it asks the network for, or an    *)
(* adder to get its input and to get rid of its events.                    *)
(***************************************************************************)
Fairness ==
    /\ \A p \in Collectors \cup Removers : SF_vars(GCAnnounced(p))
    /\ \A g \in Collectors :
          /\ WF_vars(GCBegin(g))
          /\ WF_vars(GCLocked(g))
          /\ WF_vars(\E io \in BOOLEAN : \/ ColoredSetPinned(g, io)
                                         \/ ColoredSetBestEffort(g, io))
          /\ WF_vars(ColoredSetDirect(g))
          /\ WF_vars(\E k \in Hashes, de \in BOOLEAN : GCSweep(g, k, de))
          /\ WF_vars(GCEnd(g))
    /\ \A p \in Removers :
          /\ WF_vars(RmLocked(p))
          /\ WF_vars(\E k \in Hashes, de \in BOOLEAN : RmBlock(p, k, de))
          /\ WF_vars(RmEnd(p))
    /\ \A a \in Adders : WF_vars(AddFileNode(a) \/ maybePauseForGC(a))

FairSpec == Spec /\ Fairness

-----------------------------------------------------------------------------
(* Properties.                                                             *)

\* No step removes a block that a pin protects: not the sweep, whatever CID
\* the pin names the block by, and not RmBlocks, whose pin check and deletions
\* are apart.
PinnedKept ==
    [][(blocks \ blocks') \cap PinnedBlocks = {}]_vars

\* A recursive pin that an operation vouched for (pin add and import walk it,
\* update walks what the vouched-for old pin has not, an adder wrote all of it)
\* keeps every block below it; for the adder this spans the pauses in which it
\* lets collections run.
PinsComplete ==
    \A r \in rpins \ unverified : Complete({r})

\* "All files and folders within MFS are respected and will not be deleted
\* during garbage collections".
MfsRespected ==
    [][(writer \in Collectors) =>
          (blocks \ blocks') \cap MhOf(Reach({mfs}, blocks)) = {}]_vars

\* Holds PinLock at a point where it may wait for the network, for the input of
\* the add or for the reader of its events.
Stuck(p) ==
    /\ HasRead(p)
    /\ \/ p \in Clients /\ At(p, "plock")
       \/ p \in Adders /\ pc[p] \in {"write", "finish"}

\* Nobody waits for PinLock or GCLock for ever, unless a pin waits for ever for
\* blocks, or an adder for its input or its client, with PinLock held: the code
\* sets neither of them a limit (PinAPI.Add, Adder.addFile).
NoStarvation ==
    \/ \E q \in Clients \cup Adders : <>[]Stuck(q)
    \/ \A p \in Procs : p \in rwait \cup wwait ~> p \notin rwait \cup wwait

=============================================================================
