----------------------- MODULE GarbageCollectionProofs -----------------------
(***************************************************************************)
(* Proofs about GarbageCollection, for every DAG, every set of processes   *)
(* of each kind and any writes without a lock.                             *)
(***************************************************************************)
EXTENDS GarbageCollection, TLAPS

\* RmBlocks is only given CIDs that no other CID shares a block with.
RmUnambiguous ==
    \A c \in RmTargets, d \in Cids : Mh[c] = Mh[d] => c = d

-----------------------------------------------------------------------------
(* Walks.                                                                  *)

\* A walk visits its roots.
LEMMA ReachRoots ==
    ASSUME NEW R \in SUBSET Cids, NEW S
    PROVE  R \subseteq Reach(R, S)
BY DEF Reach

\* A walk that found every block it visited is closed under links.
LEMMA ReachClosed ==
    ASSUME NEW R \in SUBSET Cids, NEW S, MhOf(Reach(R, S)) \subseteq S,
           NEW d \in Reach(R, S)
    PROVE  Links[d] \subseteq Reach(R, S)
<1>1. d \in Cids /\ Mh[d] \in S
    BY DEF MhOf, Reach
<1>2. Links[d] \subseteq Cids
    BY <1>1, GCAssumption
<1> SUFFICES ASSUME NEW e \in Links[d], NEW T \in SUBSET Cids, R \subseteq T,
                    \A x \in T : Mh[x] \in S => Links[x] \subseteq T
             PROVE  e \in T
    BY <1>2 DEF Reach
<1>3. d \in T
    BY DEF Reach
<1> QED
    BY <1>1, <1>3

\* ColoredSet's criterion: when the walk of the pins found every block, it
\* visited everything the pins stand for.
LEMMA WalkIsDesc ==
    ASSUME NEW R \in SUBSET Cids, NEW S, MhOf(Reach(R, S)) \subseteq S
    PROVE  Desc(R) \subseteq Reach(R, S)
<1> SUFFICES ASSUME NEW c \in R, NEW x \in Reach({c}, Hashes)
             PROVE  x \in Reach(R, S)
    BY DEF Desc, DescOf
<1> DEFINE T == Reach(R, S)
<1>1. T \in SUBSET Cids
    BY DEF Reach
<1>2. {c} \subseteq T
    BY ReachRoots
<1>3. \A d \in T : Mh[d] \in Hashes => Links[d] \subseteq T
    BY ReachClosed
<1> QED
    BY <1>1, <1>2, <1>3 DEF Reach

LEMMA DescInCids ==
    ASSUME NEW R \in SUBSET Cids
    PROVE  R \subseteq Desc(R) /\ Desc(R) \subseteq Cids
<1>1. ASSUME NEW c \in R PROVE c \in DescOf[c]
    BY ReachRoots DEF DescOf
<1>2. ASSUME NEW c \in R PROVE DescOf[c] \subseteq Cids
    BY DEF DescOf, Reach
<1> QED
    BY <1>1, <1>2 DEF Desc

-----------------------------------------------------------------------------
(* The inductive invariant.                                                *)

Exclusive == {"mark", "best", "direct", "sweep", "filter", "delete"}

\* The write side excludes the read side, and whoever marks, sweeps, filters or
\* deletes holds the write side.
LockInv ==
    /\ writer # None => readers = {} /\ announced = writer
    /\ \A p \in Procs : pc[p] \in Exclusive => writer = p

\* A collection that is going to sweep has marked all that is pinned, and what
\* is about to be deleted is not pinned.
MarkInv ==
    \A p \in Procs :
        /\ pc[p] \in {"best", "direct"} /\ ~errors => Desc(rpins) \subseteq marked
        /\ pc[p] = "sweep" => Desc(rpins) \cup dpins \subseteq marked
        /\ pc[p] \in {"sweep", "delete"} => keys \cap PinnedBlocks = {}

\* An adder has added at most its files, and writes only a file it has.
AddInv ==
    \A a \in Adders :
        /\ added[a] \in 0..Len(Files[a])
        /\ pc[a] = "write" => added[a] # Len(Files[a])

\* The part that does not depend on what is marked, and the whole.
SInv == TypeOK /\ AddInv /\ LockInv
IInv == SInv /\ MarkInv

LEMMA InvInit == Init => IInv
<1> SUFFICES ASSUME Init PROVE IInv
    OBVIOUS
<1>1. TypeOK
  <2>1. Mh[MfsInit] \in Hashes
      BY GCAssumption
  <2> QED
      BY <2>1, GCAssumption DEF Init, TypeOK
<1>2. LockInv /\ MarkInv
    BY DEF Init, LockInv, MarkInv, Exclusive
<1>3. AddInv
  <2> SUFFICES ASSUME NEW a \in Adders
               PROVE  added[a] \in 0..Len(Files[a]) /\ pc[a] # "write"
      BY DEF AddInv
  <2>1. Len(Files[a]) \in Nat
      BY GCAssumption
  <2> QED
      BY <2>1 DEF Init, Procs
<1> QED
    BY <1>1, <1>2, <1>3 DEF IInv, SInv

LEMMA MhOfInHashes == ASSUME NEW cs \in SUBSET Cids PROVE MhOf(cs) \subseteq Hashes
BY GCAssumption DEF MhOf

\* Every variable keeps its type.
LEMMA TypeStep == TypeOK /\ AddInv /\ [Next]_vars => TypeOK'
<1> SUFFICES ASSUME TypeOK, AddInv, [Next]_vars PROVE TypeOK'
    OBVIOUS
<1> USE GCAssumption DEF TypeOK, Procs, At, Goto, HasRead, store, locker, work
<1>1. ASSUME NEW g \in Collectors, Collect(g) PROVE TypeOK'
  <2>1. CASE BestEffortRoots(g)
      BY <2>1 DEF BestEffortRoots
  <2>2. CASE GCBegin(g)
      BY <2>2 DEF GCBegin, GCLock
  <2>3. CASE GCAnnounced(g)
      BY <2>3 DEF GCAnnounced, GCAnnounce
  <2>4. CASE GCLocked(g)
      BY <2>4 DEF GCLocked, GCAcquire
  <2>5. ASSUME NEW io \in BOOLEAN, ColoredSetPinned(g, io) PROVE TypeOK'
      BY <2>5 DEF ColoredSetPinned, Reach
  <2>6. ASSUME NEW io \in BOOLEAN, ColoredSetBestEffort(g, io) PROVE TypeOK'
      BY <2>6 DEF ColoredSetBestEffort, Reach
  <2>7. CASE ColoredSetDirect(g)
      BY <2>7 DEF ColoredSetDirect, Unmarked
  <2>8. ASSUME NEW k \in Hashes, NEW de \in BOOLEAN, GCSweep(g, k, de) PROVE TypeOK'
      BY <2>8 DEF GCSweep
  <2>9. CASE GCEnd(g)
      BY <2>9 DEF GCEnd, GCReturn, GCUnlock
  <2>10. CASE GCCancel(g)
      BY <2>10 DEF GCCancel, GCReturn, GCUnlock
  <2> HIDE DEF TypeOK, Procs, At, Goto, HasRead, store, locker, work
  <2> QED
      BY <1>1, <2>1, <2>2, <2>3, <2>4, <2>5, <2>6, <2>7, <2>8, <2>9, <2>10
      DEF Collect
<1>2. ASSUME NEW p \in Removers, RmBlocks(p) PROVE TypeOK'
  <2>1. CASE RmBegin(p)
      BY <2>1 DEF RmBegin, GCLock
  <2>2. CASE GCAnnounced(p)
      BY <2>2 DEF GCAnnounced, GCAnnounce
  <2>3. CASE RmLocked(p)
      BY <2>3 DEF RmLocked, GCAcquire
  <2>4. ASSUME NEW c \in RmTargets, FilterPinned(p, {c}) PROVE TypeOK'
    <3>1. keys' \subseteq Hashes
        BY <2>4 DEF FilterPinned, MhOf
    <3> QED
        BY <2>4, <3>1 DEF FilterPinned
  <2>5. ASSUME NEW k \in Hashes, NEW de \in BOOLEAN, RmBlock(p, k, de) PROVE TypeOK'
      BY <2>5 DEF RmBlock
  <2>6. CASE RmEnd(p)
      BY <2>6 DEF RmEnd, GCUnlock
  <2> HIDE DEF TypeOK, Procs, At, Goto, HasRead, store, locker, work
  <2> QED
      BY <1>2, <2>1, <2>2, <2>3, <2>4, <2>5, <2>6 DEF RmBlocks
<1>3. ASSUME NEW p \in Clients, PinRequest(p) \/ ClientOp(p) PROVE TypeOK'
  <2> USE DEF PinLocked, PinReturn, PinUnlock
  <2>1. CASE PinRequest(p)
      BY <2>1 DEF PinRequest, PinLock
  <2>2. ASSUME NEW c \in PinTargets, PinAdd(p, c) PROVE TypeOK'
      BY <2>2 DEF PinAdd, PinRecursive
  <2>3. ASSUME NEW c \in PinTargets, PinAddDirect(p, c) PROVE TypeOK'
      BY <2>3 DEF PinAddDirect
  <2>4. ASSUME NEW c \in PinTargets, ImportRoot(p, c) PROVE TypeOK'
      BY <2>4 DEF ImportRoot, PinRecursive
  <2>5. ASSUME NEW c \in UnpinTargets, PinRm(p, c) PROVE TypeOK'
      BY <2>5 DEF PinRm
  <2>6. ASSUME NEW from \in UnpinTargets, NEW to \in PinTargets, NEW u \in BOOLEAN,
               PinUpdate(p, from, to, u) PROVE TypeOK'
      BY <2>6 DEF PinUpdate
  <2>7. ASSUME NEW cs \in SUBSET PutTargets, PutPinned(p, cs) PROVE TypeOK'
    <3>1. cs \in SUBSET Cids /\ MhOf(cs) \subseteq Hashes
        BY MhOfInHashes
    <3> QED
        BY <2>7, <3>1 DEF PutPinned
  <2>8. CASE PinDone(p)
      BY <2>8 DEF PinDone
  <2> HIDE DEF TypeOK, Procs, At, Goto, HasRead, store, locker, work
  <2>9. ASSUME NEW c \in PutTargets, PutPinned(p, {c}) PROVE TypeOK'
      BY <2>7, <2>9, {c} \in SUBSET PutTargets
  <2>10. PutPinned(p, PutTargets) => TypeOK'
      BY <2>7, PutTargets \in SUBSET PutTargets
  <2>11. ASSUME NEW c \in PutTargets, BlockPut(p, c) \/ ObjectPut(p, c) \/ PinningAdd(p, c)
         PROVE  TypeOK'
      BY <2>9, <2>11 DEF BlockPut, ObjectPut, PinningAdd
  <2>12. CASE PinningAddMany(p, PutTargets)
      BY <2>10, <2>12 DEF PinningAddMany
  <2> QED
      BY <1>3, <2>1, <2>2, <2>3, <2>4, <2>5, <2>6, <2>8, <2>11, <2>12 DEF ClientOp
<1>4. ASSUME NEW a \in Adders, AddBegin(a) \/ AddStep(a) PROVE TypeOK'
  <2> USE DEF PinUnlock, PinLock, PinWithMode, AfterCheck
  <2>1. ASSUME NEW r \in Cids, PinRoot(a, r)
        PROVE  blocks' \subseteq Hashes /\ rpins' \subseteq Cids
               /\ unverified' \subseteq Cids /\ dpins' = dpins /\ mfs' = mfs
    <3>1. DirBlocks(a, r) \subseteq Hashes
      <4> DEFINE F == FilesUpTo(a, Len(Files[a]))
      <4>1. {r} \cup (Desc({r}) \ Desc(F)) \in SUBSET Cids
        <5>1. Desc({r}) \subseteq Cids
            BY DescInCids, {r} \in SUBSET Cids
        <5> QED
            BY <5>1
      <4> HIDE DEF F
      <4> QED
          BY <4>1, MhOfInHashes DEF DirBlocks, F
    <3> QED
        BY <2>1, <3>1 DEF PinRoot
  <2>2. CASE AddBegin(a)
      BY <2>2 DEF AddBegin
  <2>3. CASE AddFileNode(a)
      BY <2>3 DEF AddFileNode
  <2>4. CASE maybePauseForGC(a)
    <3>1. Roots[a][added[a]] \in Cids
        BY DEF AddInv
    <3> QED
        BY <2>4, <2>1, <3>1 DEF maybePauseForGC
  <2>5. CASE AddRelock(a)
      BY <2>5 DEF AddRelock
  <2>6. ASSUME NEW k \in Hashes, AddBlock(a, k) PROVE TypeOK'
      BY <2>6 DEF AddBlock
  <2>7. CASE AddFile(a)
    <3>1. CurFile(a) \in Cids
        BY <2>7 DEF AddInv, AddFile, CurFile
    <3>2. MhOf(Desc({CurFile(a)})) \subseteq Hashes
        BY <3>1, DescInCids, MhOfInHashes
    <3>3. added' \in [Adders -> Nat] /\ blocks' \subseteq Hashes
      <4>1. added' = [added EXCEPT ![a] = @ + 1]
            /\ blocks' = blocks \cup MhOf(Desc({CurFile(a)}))
          BY <2>7 DEF AddFile
      <4>2. added' \in [Adders -> Nat]
          BY <4>1
      <4>3. blocks' \subseteq Hashes
          BY <4>1, <3>2
      <4> QED
          BY <4>2, <4>3
    <3>4. pc' = [pc EXCEPT ![a] = "finish"] \/ pc' = [pc EXCEPT ![a] = "check"]
        BY <2>7, Zenon DEF AddFile
    <3> QED
        BY <2>7, <3>3, <3>4 DEF AddFile
  <2>8. CASE AddFinish(a)
      BY <2>8, <2>1 DEF AddFinish
  <2>9. CASE AddFail(a)
      BY <2>9 DEF AddFail
  <2> HIDE DEF TypeOK, Procs, At, Goto, HasRead, store, locker, work
  <2> QED
      BY <1>4, <2>2, <2>3, <2>4, <2>5, <2>6, <2>7, <2>8, <2>9 DEF AddStep
<1>5. ASSUME NEW c \in FetchTargets, Fetch(c) PROVE TypeOK'
    BY <1>5 DEF Fetch
<1>6. ASSUME NEW r \in MfsRoots, MfsUpdate(r) PROVE TypeOK'
    BY <1>6 DEF MfsUpdate
<1>7. CASE UNCHANGED vars
    BY <1>7 DEF vars
<1> QED
    BY <1>1, <1>2, <1>3, <1>4, <1>5, <1>6, <1>7 DEF Next

\* Facts about where a process goes, shared by the steps below.
LEMMA Moved ==
    ASSUME TypeOK, NEW p \in Procs, NEW l, Goto(p, l)
    PROVE  /\ pc'[p] = l
           /\ \A q \in Procs : q # p => pc'[q] = pc[q]
BY DEF TypeOK, Goto

LEMMA KindsDiffer ==
    /\ \A p \in Collectors \cup Removers \cup Clients : p \notin Adders
    /\ None \notin Procs
BY GCAssumption

\* The locker's operations, by who is where.
LEMMA LockStep == ASSUME SInv, [Next]_vars PROVE LockInv'
<1> USE DEF SInv
<1> USE DEF store, locker, work
<1>k. None \notin Procs
    BY KindsDiffer
<1>p. ASSUME NEW p \in Procs, NEW l \in {"plock", "check", "write", "finish"},
             PinLock(p), Goto(p, l)
      PROVE  LockInv'
    BY <1>p, Moved DEF LockInv, PinLock, Exclusive
<1>u. ASSUME NEW p \in Procs, NEW l \in {"idle", "plock", "done"}, PinUnlock(p), Goto(p, l)
      PROVE  LockInv'
    BY <1>u, Moved DEF LockInv, PinUnlock, Exclusive
<1>a. ASSUME NEW p \in Procs, pc[p] \notin Exclusive, NEW l \in Exclusive, GCAcquire(p), Goto(p, l)
      PROVE  LockInv'
    BY <1>a, <1>k, Moved DEF LockInv, GCAcquire, Exclusive
<1>g. ASSUME NEW p \in Procs, pc[p] \in Exclusive, GCUnlock(p), Goto(p, "idle")
      PROVE  LockInv'
    BY <1>g, <1>k, Moved DEF LockInv, GCUnlock, Exclusive
<1>s. ASSUME NEW p \in Procs, NEW l, l \notin Exclusive \/ pc[p] \in Exclusive, Goto(p, l),
             readers' = readers, announced' = announced, writer' = writer
      PROVE  LockInv'
    BY <1>s, <1>k, Moved DEF LockInv, Exclusive
<1>n. ASSUME UNCHANGED <<locker, pc>> PROVE LockInv'
    BY <1>n DEF LockInv
<1>1. ASSUME NEW g \in Collectors, Collect(g) PROVE LockInv'
  <2>g. g \in Procs
      BY DEF Procs
  <2>1. CASE BestEffortRoots(g)
      BY <2>1, <2>g, <1>s DEF BestEffortRoots, Exclusive
  <2>2. CASE GCBegin(g)
      BY <2>2, <2>g, <1>s DEF GCBegin, GCLock, Exclusive
  <2>3. CASE GCAnnounced(g)
      BY <2>3, <2>g, <1>k DEF GCAnnounced, GCAnnounce, LockInv
  <2>4. CASE GCLocked(g)
      BY <2>4, <2>g, <1>a DEF GCLocked, At, Exclusive
  <2>5. ASSUME NEW io \in BOOLEAN, ColoredSetPinned(g, io) PROVE LockInv'
      BY <2>5, <2>g, <1>s DEF ColoredSetPinned, At, Exclusive
  <2>6. ASSUME NEW io \in BOOLEAN, ColoredSetBestEffort(g, io) PROVE LockInv'
      BY <2>6, <2>g, <1>s DEF ColoredSetBestEffort, At, Exclusive
  <2>7. CASE ColoredSetDirect(g)
      BY <2>7, <2>g, <1>s DEF ColoredSetDirect, At, Exclusive
  <2>8. ASSUME NEW k \in Hashes, NEW de \in BOOLEAN, GCSweep(g, k, de) PROVE LockInv'
      BY <2>8, <1>n DEF GCSweep
  <2>9. CASE GCEnd(g)
      BY <2>9, <2>g, <1>g DEF GCEnd, GCReturn, At, Exclusive
  <2>10. CASE GCCancel(g)
      BY <2>10, <2>g, <1>g DEF GCCancel, GCReturn, Exclusive
  <2> QED
      BY <1>1, <2>1, <2>2, <2>3, <2>4, <2>5, <2>6, <2>7, <2>8, <2>9, <2>10
      DEF Collect
<1>2. ASSUME NEW p \in Removers, RmBlocks(p) PROVE LockInv'
  <2>p. p \in Procs
      BY DEF Procs
  <2>1. CASE RmBegin(p)
      BY <2>1, <2>p, <1>s DEF RmBegin, GCLock, Exclusive
  <2>2. CASE GCAnnounced(p)
      BY <2>2, <2>p, <1>k DEF GCAnnounced, GCAnnounce, LockInv
  <2>3. CASE RmLocked(p)
      BY <2>3, <2>p, <1>a DEF RmLocked, At, Exclusive
  <2>4. ASSUME NEW c \in RmTargets, FilterPinned(p, {c}) PROVE LockInv'
      BY <2>4, <2>p, <1>s DEF FilterPinned, At, Exclusive
  <2>5. ASSUME NEW k \in Hashes, NEW de \in BOOLEAN, RmBlock(p, k, de) PROVE LockInv'
      BY <2>5, <1>n DEF RmBlock
  <2>6. CASE RmEnd(p)
      BY <2>6, <2>p, <1>g DEF RmEnd, At, Exclusive
  <2> QED
      BY <1>2, <2>1, <2>2, <2>3, <2>4, <2>5, <2>6 DEF RmBlocks
<1>3. ASSUME NEW p \in Clients, PinRequest(p) \/ ClientOp(p) PROVE LockInv'
  <2>p. p \in Procs
      BY DEF Procs
  <2>1. CASE PinRequest(p)
      BY <2>1, <2>p, <1>p DEF PinRequest
  <2>2. ASSUME PinReturn(p) PROVE LockInv'
      BY <2>2, <2>p, <1>u DEF PinReturn
  <2>3. ASSUME NEW c \in PinTargets, ImportRoot(p, c) PROVE LockInv'
      BY <2>3, <1>n DEF ImportRoot
  <2> QED
      BY <1>3, <2>1, <2>2, <2>3
      DEF ClientOp, PinAdd, PinAddDirect, PinRm, PinUpdate, PutPinned, BlockPut, ObjectPut, PinningAdd, PinningAddMany, PinDone
<1>4. ASSUME NEW a \in Adders, AddBegin(a) \/ AddStep(a) PROVE LockInv'
  <2>a. a \in Procs /\ AfterCheck(a) \in {"write", "finish"}
      BY DEF Procs, AfterCheck
  <2>1. CASE AddBegin(a)
      BY <2>1, <2>a, <1>p DEF AddBegin
  <2>2. CASE AddFileNode(a)
      BY <2>2, <2>a, <1>s DEF AddFileNode, Exclusive
  <2>3. CASE maybePauseForGC(a)
      BY <2>3, <2>a, <1>u DEF maybePauseForGC
  <2>4. CASE AddRelock(a)
      BY <2>4, <2>a, <1>p DEF AddRelock
  <2>5. ASSUME NEW k \in Hashes, AddBlock(a, k) PROVE LockInv'
      BY <2>5, <1>n DEF AddBlock
  <2>6. CASE AddFile(a)
      BY <2>6, <2>a, <1>s DEF AddFile, Exclusive
  <2>7. CASE AddFinish(a)
      BY <2>7, <2>a, <1>u DEF AddFinish
  <2>8. CASE AddFail(a)
      BY <2>8, <2>a, <1>u DEF AddFail
  <2> QED
      BY <1>4, <2>1, <2>2, <2>3, <2>4, <2>5, <2>6, <2>7, <2>8 DEF AddStep
<1>5. CASE \/ \E c \in FetchTargets : Fetch(c)
           \/ \E r \in MfsRoots : MfsUpdate(r)
           \/ UNCHANGED vars
    BY <1>5, <1>n DEF Fetch, MfsUpdate, vars
<1> QED
    BY <1>1, <1>2, <1>3, <1>4, <1>5 DEF Next

\* An adder's counter stays within its files.
LEMMA AddStepInv == ASSUME SInv, [Next]_vars PROVE AddInv'
<1> USE DEF SInv, store, locker, work
<1>n. ASSUME NEW p \in Procs \ Adders, NEW l, Goto(p, l), added' = added PROVE AddInv'
    BY <1>n, Moved DEF AddInv, Procs
<1>s. ASSUME UNCHANGED <<pc, added>> PROVE AddInv'
    BY <1>s DEF AddInv
<1>k. \A p \in Collectors \cup Removers \cup Clients : p \in Procs \ Adders
    BY KindsDiffer DEF Procs
<1>1. ASSUME NEW g \in Collectors, Collect(g) PROVE AddInv'
    BY <1>1, <1>n, <1>s, <1>k
    DEF Collect, BestEffortRoots, GCBegin, GCAnnounced, GCLocked, ColoredSetPinned,
        ColoredSetBestEffort, ColoredSetDirect, GCSweep, GCEnd, GCCancel, GCReturn
<1>2. ASSUME NEW p \in Removers, RmBlocks(p) PROVE AddInv'
    BY <1>2, <1>n, <1>s, <1>k
    DEF RmBlocks, RmBegin, GCAnnounced, RmLocked, FilterPinned, RmBlock, RmEnd
<1>3. ASSUME NEW p \in Clients, PinRequest(p) \/ ClientOp(p) PROVE AddInv'
    BY <1>3, <1>n, <1>s, <1>k
    DEF ClientOp, PinRequest, PinAdd, PinAddDirect, PinRm, PinUpdate, PutPinned, BlockPut,
        ObjectPut, PinningAdd, PinningAddMany, ImportRoot, PinDone, PinReturn
<1>4. ASSUME NEW a \in Adders, AddBegin(a) \/ AddStep(a) PROVE AddInv'
  <2>a. a \in Procs /\ Len(Files[a]) \in Nat
      BY GCAssumption DEF Procs
  <2>1. ASSUME NEW l \in {"check", "plock", "finish", "done"}, Goto(a, l), added' = added
        PROVE  AddInv'
      BY <2>1, <2>a, Moved DEF AddInv, Procs
  <2>2. ASSUME Goto(a, AfterCheck(a)), added' = added PROVE AddInv'
      BY <2>2, <2>a, Moved DEF AddInv, Procs, AfterCheck
  <2>3. CASE AddFile(a)
    <3>1. /\ added' = [added EXCEPT ![a] = @ + 1]
          /\ added \in [Adders -> Nat]
          /\ added[a] < Len(Files[a])
        BY <2>3, <2>a DEF AddFile, AddInv, At, TypeOK
    <3>2. pc'[a] # "write"
        BY <2>3, <2>a, Moved DEF AddFile
    <3>3. \A q \in Procs : q # a => pc'[q] = pc[q]
        BY <2>3, <2>a, Moved DEF AddFile
    <3>4. \A b \in Adders : b # a => added'[b] = added[b]
        BY <3>1
    <3>5. added'[a] \in 0..Len(Files[a])
        BY <3>1, <2>a
    <3> QED
        BY <3>2, <3>3, <3>4, <3>5 DEF AddInv, Procs
  <2> QED
      BY <1>4, <1>s, <2>1, <2>2, <2>3
      DEF AddStep, AddBegin, AddFileNode, maybePauseForGC, AddRelock, AddBlock,
          AddFinish, AddFail
<1>5. CASE \/ \E c \in FetchTargets : Fetch(c)
           \/ \E r \in MfsRoots : MfsUpdate(r)
           \/ UNCHANGED vars
    BY <1>5, <1>s DEF Fetch, MfsUpdate, vars
<1> QED
    BY <1>1, <1>2, <1>3, <1>4, <1>5 DEF Next

\* While somebody holds PinLock, nobody marks or deletes: a step of a reader may
\* change the pins as it likes.
LEMMA ReaderKeepsMark ==
    ASSUME IInv, NEW p \in readers,
           \/ pc' = pc
           \/ \E l : l \notin Exclusive /\ Goto(p, l)
    PROVE  MarkInv'
<1>1. p \in Procs /\ writer = None /\ None \notin Procs
    BY KindsDiffer DEF IInv, SInv, TypeOK, LockInv
<1>2. \A q \in Procs : pc[q] \notin Exclusive
    BY <1>1 DEF IInv, SInv, LockInv
<1>3. \A q \in Procs : pc'[q] \notin Exclusive
    BY <1>1, <1>2, Moved DEF IInv, SInv
<1> QED
    BY <1>3 DEF MarkInv, Exclusive

\* A step that changes neither the pins nor the collection's work, and enters
\* none of the stages that MarkInv is about.
LEMMA IdleKeepsMark ==
    ASSUME IInv, UNCHANGED <<rpins, dpins, marked, errors, keys>>,
           \/ pc' = pc
           \/ \E p \in Procs : \E l : /\ l \notin {"best", "direct", "sweep", "delete"}
                                      /\ Goto(p, l)
    PROVE  MarkInv'
<1>1. Desc(rpins)' = Desc(rpins) /\ PinnedBlocks' = PinnedBlocks
    BY DEF Desc, PinnedBlocks, MhOf
<1>2. ASSUME NEW q \in Procs
      PROVE  \/ pc'[q] = pc[q]
             \/ pc'[q] \notin {"best", "direct", "sweep", "delete"}
    BY Moved DEF IInv, SInv
<1> QED
    BY <1>1, <1>2 DEF MarkInv, IInv, SInv

\* When the writer moves, no other process is at a stage of MarkInv.
LEMMA WriterAlone ==
    ASSUME IInv, NEW p \in Procs, pc[p] \in Exclusive, pc' = pc \/ \E l : Goto(p, l)
    PROVE  \A q \in Procs : q # p => pc'[q] \notin Exclusive
BY Moved DEF IInv, SInv, LockInv

LEMMA CollectMark == ASSUME IInv, NEW g \in Collectors, Collect(g) PROVE MarkInv'
<1>g. g \in Procs
    BY DEF Procs
<1> USE DEF store, locker, work
<1>1. CASE BestEffortRoots(g) \/ GCBegin(g) \/ GCAnnounced(g)
    BY <1>1, <1>g, IdleKeepsMark DEF BestEffortRoots, GCBegin, GCAnnounced
<1>2. CASE GCLocked(g)
  <2>1. \A q \in Procs : pc[q] \notin Exclusive
      BY <1>2, KindsDiffer DEF GCLocked, GCAcquire, IInv, SInv, LockInv
  <2>2. \A q \in Procs : pc'[q] \notin Exclusive \/ pc'[q] = "mark"
      BY <1>2, <1>g, <2>1, Moved DEF GCLocked, IInv, SInv
  <2> QED
      BY <2>2 DEF MarkInv, Exclusive
<1>3. ASSUME NEW io \in BOOLEAN, ColoredSetPinned(g, io) PROVE MarkInv'
  <2>1. pc'[g] = "best"
      BY <1>3, <1>g, Moved DEF ColoredSetPinned, IInv, SInv
  <2>2. \A q \in Procs : q # g => pc'[q] \notin Exclusive
      BY <1>3, <1>g, WriterAlone DEF ColoredSetPinned, At, Exclusive
  <2>3. ~errors' => Desc(rpins) \subseteq marked'
      BY <1>3, WalkIsDesc DEF ColoredSetPinned, IInv, SInv, TypeOK
  <2>4. Desc(rpins)' = Desc(rpins)
      BY <1>3 DEF ColoredSetPinned, Desc
  <2> QED
      BY <2>1, <2>2, <2>3, <2>4 DEF MarkInv, Exclusive
<1>4. ASSUME NEW io \in BOOLEAN, ColoredSetBestEffort(g, io) PROVE MarkInv'
  <2>1. pc'[g] = "direct" /\ pc[g] = "best"
      BY <1>4, <1>g, Moved DEF ColoredSetBestEffort, IInv, SInv, At
  <2>2. \A q \in Procs : q # g => pc'[q] \notin Exclusive
      BY <1>4, <1>g, WriterAlone DEF ColoredSetBestEffort, At, Exclusive
  <2>3. ~errors' => Desc(rpins) \subseteq marked'
      BY <1>4, <1>g, <2>1 DEF ColoredSetBestEffort, IInv, SInv, MarkInv
  <2>4. Desc(rpins)' = Desc(rpins)
      BY <1>4 DEF ColoredSetBestEffort, Desc
  <2> QED
      BY <2>1, <2>2, <2>3, <2>4 DEF MarkInv, Exclusive
<1>5. CASE ColoredSetDirect(g)
  <2>1. pc'[g] = "sweep" /\ pc[g] = "direct" /\ ~errors
      BY <1>5, <1>g, Moved DEF ColoredSetDirect, IInv, SInv, At
  <2>2. \A q \in Procs : q # g => pc'[q] \notin Exclusive
      BY <1>5, <1>g, WriterAlone DEF ColoredSetDirect, At, Exclusive
  <2>3. Desc(rpins) \cup dpins \subseteq marked'
      BY <1>5, <1>g, <2>1 DEF ColoredSetDirect, IInv, SInv, MarkInv
  <2>4. keys' \cap PinnedBlocks = {}
      BY <1>5, <2>3 DEF ColoredSetDirect, Unmarked, PinnedBlocks, MhOf
  <2>5. Desc(rpins)' = Desc(rpins) /\ dpins' = dpins /\ PinnedBlocks' = PinnedBlocks
      BY <1>5 DEF ColoredSetDirect, Desc, PinnedBlocks, MhOf
  <2> QED
      BY <2>1, <2>2, <2>3, <2>4, <2>5 DEF MarkInv, Exclusive
<1>6. ASSUME NEW k \in Hashes, NEW de \in BOOLEAN, GCSweep(g, k, de) PROVE MarkInv'
  <2>1. Desc(rpins)' = Desc(rpins) /\ PinnedBlocks' = PinnedBlocks
      BY <1>6 DEF GCSweep, Desc, PinnedBlocks, MhOf
  <2> QED
      BY <1>6, <2>1 DEF GCSweep, IInv, SInv, MarkInv
<1>7. ASSUME pc[g] \in Exclusive, GCReturn(g) PROVE MarkInv'
  <2>1. \A q \in Procs : pc'[q] \notin Exclusive
      BY <1>7, <1>g, WriterAlone, Moved DEF GCReturn, IInv, SInv, Exclusive
  <2> QED
      BY <2>1 DEF MarkInv, Exclusive
<1> QED
    BY <1>1, <1>2, <1>3, <1>4, <1>5, <1>6, <1>7
    DEF Collect, GCEnd, GCCancel, At, Exclusive

LEMMA RmMark == ASSUME IInv, RmUnambiguous, NEW p \in Removers, RmBlocks(p) PROVE MarkInv'
<1>p. p \in Procs
    BY DEF Procs
<1> USE DEF store, locker, work
<1>1. CASE RmBegin(p) \/ GCAnnounced(p) \/ RmLocked(p) \/ RmEnd(p)
    BY <1>1, <1>p, IdleKeepsMark DEF RmBegin, GCAnnounced, RmLocked, RmEnd
<1>2. ASSUME NEW c \in RmTargets, FilterPinned(p, {c}) PROVE MarkInv'
  <2>1. pc'[p] = "delete"
      BY <1>2, <1>p, Moved DEF FilterPinned, IInv, SInv
  <2>2. \A q \in Procs : q # p => pc'[q] \notin Exclusive
      BY <1>2, <1>p, WriterAlone DEF FilterPinned, At, Exclusive
  <2>3. keys' \cap PinnedBlocks = {}
    <3> SUFFICES ASSUME NEW k \in keys', NEW d \in Desc(rpins) \cup dpins, k = Mh[d]
                 PROVE  FALSE
        BY DEF PinnedBlocks, MhOf
    <3>1. k = Mh[c] /\ ~CheckIfPinned(c)
        BY <1>2 DEF FilterPinned, MhOf
    <3>2. d \in Cids
        BY DescInCids DEF IInv, SInv, TypeOK
    <3>3. d = c
        BY <3>1, <3>2 DEF RmUnambiguous
    <3> QED
        BY <3>1, <3>3 DEF CheckIfPinned
  <2>4. PinnedBlocks' = PinnedBlocks
      BY <1>2 DEF FilterPinned, Desc, PinnedBlocks, MhOf
  <2> QED
      BY <2>1, <2>2, <2>3, <2>4 DEF MarkInv, Exclusive
<1>3. ASSUME NEW k \in Hashes, NEW de \in BOOLEAN, RmBlock(p, k, de) PROVE MarkInv'
  <2>1. Desc(rpins)' = Desc(rpins) /\ PinnedBlocks' = PinnedBlocks
      BY <1>3 DEF RmBlock, Desc, PinnedBlocks, MhOf
  <2> QED
      BY <1>3, <2>1 DEF RmBlock, IInv, SInv, MarkInv
<1> QED
    BY <1>1, <1>2, <1>3 DEF RmBlocks

LEMMA ReaderMark ==
    ASSUME IInv,
           \/ \E p \in Clients : PinRequest(p) \/ ClientOp(p)
           \/ \E a \in Adders : AddBegin(a) \/ AddStep(a)
    PROVE  MarkInv'
<1> USE DEF store, locker, work, HasRead
<1>1. ASSUME NEW p \in Clients, PinRequest(p) PROVE MarkInv'
    BY <1>1, IdleKeepsMark DEF PinRequest, Procs
<1>2. ASSUME NEW p \in Clients, ClientOp(p) PROVE MarkInv'
  <2>1. p \in readers
      BY <1>2 DEF ClientOp, PinAdd, PinAddDirect, ImportRoot, PinRm, PinUpdate,
                  PutPinned, BlockPut, ObjectPut, PinningAdd, PinningAddMany, PinDone, PinLocked
  <2>2. pc' = pc \/ Goto(p, "idle")
      BY <1>2 DEF ClientOp, PinAdd, PinAddDirect, ImportRoot, PinRm, PinUpdate,
                  PutPinned, BlockPut, ObjectPut, PinningAdd, PinningAddMany, PinDone, PinReturn
  <2> QED
      BY <2>1, <2>2, ReaderKeepsMark DEF Exclusive
<1>3. ASSUME NEW a \in Adders, AddBegin(a) \/ AddRelock(a) PROVE MarkInv'
  <2>1. AfterCheck(a) \in {"write", "finish"}
      BY DEF AfterCheck
  <2> QED
      BY <1>3, <2>1, IdleKeepsMark DEF AddBegin, AddRelock, Procs
<1>4. ASSUME NEW a \in Adders, AddStep(a), ~AddRelock(a) PROVE MarkInv'
  <2>1. a \in readers
      BY <1>4 DEF AddStep, AddFileNode, maybePauseForGC, AddBlock, AddFile, AddFinish,
                  AddFail
  <2>2. \/ pc' = pc
        \/ \E l \in {"check", "plock", "write", "finish", "done"} : Goto(a, l)
      BY <1>4 DEF AddStep, AddFileNode, maybePauseForGC, AddBlock, AddFile, AddFinish,
                  AddFail, AfterCheck
  <2> QED
      BY <2>1, <2>2, ReaderKeepsMark DEF Exclusive
<1> QED
    BY <1>1, <1>2, <1>3, <1>4

LEMMA MarkStep == ASSUME IInv, RmUnambiguous, [Next]_vars PROVE MarkInv'
<1>1. ASSUME NEW c \in FetchTargets, Fetch(c) PROVE MarkInv'
  <2>1. pc' = pc /\ Desc(rpins)' = Desc(rpins) /\ PinnedBlocks' = PinnedBlocks
      BY <1>1 DEF Fetch, Desc, PinnedBlocks, MhOf
  <2>2. CASE keys' = keys
      BY <1>1, <2>1, <2>2 DEF Fetch, IInv, SInv, MarkInv
  <2>3. ASSUME NEW g \in Collectors, pc[g] = "sweep", Mh[c] \notin MhOf(marked),
               keys' = keys \cup {Mh[c]}
        PROVE  MarkInv'
    <3>1. g \in Procs
        BY DEF Procs
    <3>2. Desc(rpins) \cup dpins \subseteq marked
        BY <2>3, <3>1 DEF IInv, SInv, MarkInv
    <3>3. Mh[c] \notin PinnedBlocks
        BY <2>3, <3>2 DEF PinnedBlocks, MhOf
    <3> QED
        BY <1>1, <2>1, <2>3, <3>3 DEF Fetch, IInv, SInv, MarkInv
  <2> QED
      BY <1>1, <2>2, <2>3 DEF Fetch, At
<1>2. ASSUME NEW r \in MfsRoots, MfsUpdate(r) PROVE MarkInv'
    BY <1>2, IdleKeepsMark DEF MfsUpdate, work
<1>3. CASE UNCHANGED vars
    BY <1>3, IdleKeepsMark DEF vars, store, work
<1> QED
    BY <1>1, <1>2, <1>3, CollectMark, RmMark, ReaderMark DEF Next

\* No step deletes the block of a pinned CID.
LEMMA DeletesUnpinned == IInv /\ [Next]_vars => (blocks \ blocks') \cap PinnedBlocks = {}
<1> SUFFICES ASSUME IInv, [Next]_vars PROVE (blocks \ blocks') \cap PinnedBlocks = {}
    OBVIOUS
<1> USE DEF store
<1>1. CASE blocks \subseteq blocks'
    BY <1>1
<1>2. ASSUME NEW p \in Procs, pc[p] \in {"sweep", "delete"}, NEW k \in keys,
             blocks' = blocks \ {k}
      PROVE  (blocks \ blocks') \cap PinnedBlocks = {}
    BY <1>2 DEF IInv, SInv, MarkInv
<1>3. ASSUME NEW g \in Collectors, Collect(g)
      PROVE  (blocks \ blocks') \cap PinnedBlocks = {}
    BY <1>3, <1>1, <1>2
    DEF Collect, BestEffortRoots, GCBegin, GCAnnounced, GCLocked, ColoredSetPinned,
        ColoredSetBestEffort, ColoredSetDirect, GCSweep, GCEnd, GCCancel, GCReturn,
        At, Procs
<1>4. ASSUME NEW p \in Removers, RmBlocks(p)
      PROVE  (blocks \ blocks') \cap PinnedBlocks = {}
    BY <1>4, <1>1, <1>2
    DEF RmBlocks, RmBegin, GCAnnounced, RmLocked, FilterPinned, RmBlock, RmEnd, At, Procs
<1>5. ASSUME NEW p \in Clients, PinRequest(p) \/ ClientOp(p) PROVE blocks \subseteq blocks'
    BY <1>5 DEF PinRequest, ClientOp, PinAdd, PinAddDirect, PinRm, PinUpdate, PutPinned, BlockPut,
                ObjectPut, PinningAdd, PinningAddMany, ImportRoot, PinDone, PinRecursive
<1>6. ASSUME NEW a \in Adders, AddBegin(a) \/ AddStep(a) PROVE blocks \subseteq blocks'
    BY <1>6 DEF AddBegin, AddStep, AddFileNode, maybePauseForGC, AddRelock, AddBlock,
                AddFile, AddFinish, AddFail, PinRoot
<1>7. CASE \/ \E c \in FetchTargets : Fetch(c)
           \/ \E r \in MfsRoots : MfsUpdate(r)
           \/ UNCHANGED vars
    BY <1>7 DEF Fetch, MfsUpdate, vars
<1> QED
    BY <1>1, <1>3, <1>4, <1>5, <1>6, <1>7 DEF Next

-----------------------------------------------------------------------------
(* Complete pins.                                                          *)

\* While an adder pauses, nobody unpins the root it has pinned.
RootsStay ==
    \A a \in Adders : \A n \in 1..(Len(Files[a]) - 1) : Roots[a][n] \notin UnpinTargets

AdderStages == {"plock", "check", "write", "finish"}

\* A running adder keeps the blocks of the files it has added: by its lock, and
\* while it does not hold it by the root it has pinned.
AdderKeeps(a) ==
    /\ pc[a] \in {"idle"} \cup AdderStages =>
        /\ MhOf(Desc(FilesUpTo(a, added[a]))) \subseteq blocks
        /\ a \notin readers /\ added[a] # 0 =>
            added[a] < Len(Files[a]) /\ Roots[a][added[a]] \in rpins
    /\ pc[a] = "idle" => added[a] = 0
    /\ pc[a] = "check" => added[a] = 0 \/ added[a] < Len(Files[a])
    /\ pc[a] = "finish" => added[a] = Len(Files[a])

PinInv == PinsComplete /\ \A a \in Adders : AdderKeeps(a)

LEMMA PinInvInit == Init => PinInv
<1> SUFFICES ASSUME Init PROVE PinInv
    OBVIOUS
<1>1. ASSUME NEW a \in Adders PROVE AdderKeeps(a)
  <2>1. FilesUpTo(a, 0) = {}
      BY DEF FilesUpTo
  <2>2. Desc({}) = {} /\ MhOf({}) = {}
      BY DEF Desc, MhOf
  <2>3. pc[a] = "idle" /\ added[a] = 0
      BY <1>1 DEF Init, Procs
  <2> QED
      BY <2>1, <2>2, <2>3 DEF AdderKeeps
<1>2. PinsComplete
    BY DEF Init, PinsComplete
<1> QED
    BY <1>1, <1>2 DEF PinInv

\* Who deletes a block has the lock to itself.
LEMMA DeletesAlone == IInv /\ [Next]_vars => blocks \subseteq blocks' \/ readers = {}
<1> SUFFICES ASSUME IInv, [Next]_vars, ~(blocks \subseteq blocks') PROVE readers = {}
    OBVIOUS
<1> USE DEF store
<1>1. ASSUME NEW p \in Procs, pc[p] \in {"sweep", "delete"} PROVE readers = {}
  <2>1. writer = p /\ writer # None
      BY <1>1, KindsDiffer DEF IInv, SInv, LockInv, Exclusive
  <2> QED
      BY <2>1 DEF IInv, SInv, LockInv
<1>2. ASSUME NEW g \in Collectors, Collect(g) PROVE readers = {}
    BY <1>1, <1>2 DEF Collect, BestEffortRoots, GCBegin, GCAnnounced, GCLocked, ColoredSetPinned,
        ColoredSetBestEffort, ColoredSetDirect, GCSweep, GCEnd, GCCancel, GCReturn, At, Procs
<1>3. ASSUME NEW p \in Removers, RmBlocks(p) PROVE readers = {}
    BY <1>1, <1>3 DEF RmBlocks, RmBegin, GCAnnounced, RmLocked, FilterPinned, RmBlock, RmEnd, At, Procs
<1>4. ASSUME NEW p \in Clients, PinRequest(p) \/ ClientOp(p) PROVE FALSE
    BY <1>4 DEF PinRequest, ClientOp, PinAdd, PinAddDirect, PinRm, PinUpdate, PutPinned, BlockPut,
                ObjectPut, PinningAdd, PinningAddMany, ImportRoot, PinDone, PinRecursive
<1>5. ASSUME NEW a \in Adders, AddBegin(a) \/ AddStep(a) PROVE FALSE
    BY <1>5 DEF AddBegin, AddStep, AddFileNode, maybePauseForGC, AddRelock, AddBlock,
                AddFile, AddFinish, AddFail, PinRoot
<1>6. CASE \/ \E c \in FetchTargets : Fetch(c)
           \/ \E r \in MfsRoots : MfsUpdate(r)
           \/ UNCHANGED vars
    BY <1>6 DEF Fetch, MfsUpdate, vars
<1> QED
    BY <1>2, <1>3, <1>4, <1>5, <1>6 DEF Next

\* A step that vouches for what it pins.
LEMMA VouchedPins ==
    ASSUME PinsComplete, (blocks \ blocks') \cap PinnedBlocks = {},
           \A r \in rpins' \ unverified' : r \in rpins \ unverified \/ MhOf(Desc({r})) \subseteq blocks'
    PROVE  PinsComplete'
<1> SUFFICES ASSUME NEW r \in rpins' \ unverified' PROVE MhOf(Desc({r})) \subseteq blocks'
    BY DEF PinsComplete, Complete
<1>1. CASE r \in rpins \ unverified
  <2>1. MhOf(Desc({r})) \subseteq blocks
      BY <1>1 DEF PinsComplete, Complete
  <2>2. MhOf(Desc({r})) \subseteq PinnedBlocks
      BY <1>1 DEF PinnedBlocks, MhOf, Desc
  <2> QED
      BY <2>1, <2>2
<1> QED
    BY <1>1

\* What a root with n files holds is there once the files and its directories
\* are.
LEMMA PinRootComplete ==
    ASSUME TypeOK, NEW a \in Adders, NEW n \in 0..Len(Files[a]),
           MhOf(Desc(FilesUpTo(a, n))) \subseteq blocks,
           PinRoot(a, Roots[a][n])
    PROVE  MhOf(Desc({Roots[a][n]})) \subseteq blocks'
<1> DEFINE r == Roots[a][n]
           D == Desc({r})
           F == Desc(FilesUpTo(a, Len(Files[a])))
           G == Desc(FilesUpTo(a, n))
<1>1. blocks' = blocks \cup MhOf({r} \cup (D \ F))
    BY DEF PinRoot, DirBlocks
<1>2. (D \ {r}) \cap F \subseteq G
    BY RootsAssumption
<1> HIDE DEF r, D, F, G
<1>3. MhOf(D) \subseteq MhOf(G) \cup MhOf({r} \cup (D \ F))
    BY <1>2 DEF MhOf
<1>4. MhOf(G) \subseteq blocks
    BY DEF G
<1> QED
    BY <1>1, <1>3, <1>4 DEF D, r

LEMMA FinalComplete ==
    ASSUME TypeOK, NEW a \in Adders, MhOf(Desc(FilesUpTo(a, Len(Files[a])))) \subseteq blocks,
           PinRoot(a, Final[a])
    PROVE  MhOf(Desc({Final[a]})) \subseteq blocks'
<1> DEFINE r == Final[a]
           D == Desc({r})
           F == Desc(FilesUpTo(a, Len(Files[a])))
<1>1. blocks' = blocks \cup MhOf({r} \cup (D \ F)) /\ MhOf(F) \subseteq blocks
    BY DEF PinRoot, DirBlocks
<1> HIDE DEF r, D, F
<1>2. MhOf(D) \subseteq MhOf(F) \cup MhOf({r} \cup (D \ F))
    BY DEF MhOf
<1> QED
    BY <1>1, <1>2 DEF D, r

LEMMA PinsCompleteStep == IInv /\ PinInv /\ [Next]_vars => PinsComplete'
<1> SUFFICES ASSUME IInv, PinInv, [Next]_vars PROVE PinsComplete'
    OBVIOUS
<1>0. PinsComplete /\ (blocks \ blocks') \cap PinnedBlocks = {}
    BY DeletesUnpinned DEF PinInv
<1> USE DEF store
<1>1. ASSUME rpins' \ unverified' \subseteq rpins \ unverified PROVE PinsComplete'
    BY <1>0, <1>1, VouchedPins
<1>2. ASSUME NEW g \in Collectors, Collect(g) PROVE PinsComplete'
    BY <1>1, <1>2 DEF Collect, BestEffortRoots, GCBegin, GCAnnounced, GCLocked, ColoredSetPinned,
        ColoredSetBestEffort, ColoredSetDirect, GCSweep, GCEnd, GCCancel, GCReturn
<1>3. ASSUME NEW p \in Removers, RmBlocks(p) PROVE PinsComplete'
    BY <1>1, <1>3 DEF RmBlocks, RmBegin, GCAnnounced, RmLocked, FilterPinned, RmBlock, RmEnd
<1>4. ASSUME NEW c \in Cids, PinRecursive(c) PROVE PinsComplete'
    BY <1>0, <1>4, VouchedPins DEF PinRecursive
<1>5. ASSUME NEW p \in Clients, PinRequest(p) \/ ClientOp(p) PROVE PinsComplete'
  <2>1. ASSUME NEW c \in PinTargets, PinAdd(p, c) \/ ImportRoot(p, c) PROVE PinsComplete'
      BY <1>4, <2>1, GCAssumption DEF PinAdd, ImportRoot
  <2>2. ASSUME NEW c, PinAddDirect(p, c) PROVE PinsComplete'
      BY <1>1, <2>2 DEF PinAddDirect
  <2>3. ASSUME NEW c, PinRm(p, c) PROVE PinsComplete'
      BY <1>1, <2>3 DEF PinRm
  <2>4. ASSUME NEW from, NEW to, NEW unpin \in BOOLEAN, PinUpdate(p, from, to, unpin) PROVE PinsComplete'
    <3>1. blocks' = blocks
        BY <2>4 DEF PinUpdate
    <3>2. ASSUME NEW r \in rpins' \ unverified', r \notin rpins \ unverified
          PROVE  MhOf(Desc({r})) \subseteq blocks'
      <4>1. r = to /\ from \in rpins \ unverified
          BY <2>4, <3>2 DEF PinUpdate
      <4>2. MhOf(Desc({from})) \subseteq blocks
          BY <1>0, <4>1 DEF PinsComplete, Complete
      <4>3. MhOf({from, to} \cup (Desc({to}) \ Desc({from}))) \subseteq blocks
          BY <2>4 DEF PinUpdate
      <4> HIDE DEF store
      <4> QED
          BY <3>1, <4>1, <4>2, <4>3 DEF MhOf
    <3> QED
        BY <1>0, <3>2, VouchedPins
  <2>5. ASSUME NEW cs, PutPinned(p, cs) PROVE PinsComplete'
      BY <1>1, <2>5 DEF PutPinned
  <2>6. CASE PinRequest(p) \/ PinDone(p)
      BY <1>1, <2>6 DEF PinRequest, PinDone
  <2> QED
      BY <1>5, <2>1, <2>2, <2>3, <2>4, <2>5, <2>6
      DEF ClientOp, BlockPut, ObjectPut, PinningAdd, PinningAddMany
<1>6. ASSUME NEW a \in Adders, AddBegin(a) \/ AddStep(a) PROVE PinsComplete'
  <2>1. AdderKeeps(a) /\ added[a] \in 0..Len(Files[a]) /\ TypeOK
      BY DEF PinInv, IInv, SInv, AddInv
  <2>2. ASSUME NEW r, PinRoot(a, r), MhOf(Desc({r})) \subseteq blocks' PROVE PinsComplete'
      BY <1>0, <2>2, VouchedPins DEF PinRoot, PinWithMode
  <2>3. CASE maybePauseForGC(a)
    <3>1. pc[a] = "check" /\ PinRoot(a, Roots[a][added[a]])
        BY <2>3 DEF maybePauseForGC, At
    <3>2. MhOf(Desc(FilesUpTo(a, added[a]))) \subseteq blocks
        BY <2>1, <3>1 DEF AdderKeeps, AdderStages
    <3> QED
        BY <2>1, <2>2, <3>1, <3>2, PinRootComplete
  <2>4. CASE AddFinish(a)
    <3>1. pc[a] = "finish" /\ PinRoot(a, Final[a])
        BY <2>4 DEF AddFinish, At
    <3>2. MhOf(Desc(FilesUpTo(a, Len(Files[a])))) \subseteq blocks
        BY <2>1, <3>1 DEF AdderKeeps, AdderStages
    <3> QED
        BY <2>1, <2>2, <3>1, <3>2, FinalComplete
  <2>5. CASE AddBegin(a) \/ AddFileNode(a) \/ AddRelock(a) \/ (\E k \in Hashes : AddBlock(a, k)) \/ AddFile(a) \/ AddFail(a)
      BY <1>1, <2>5 DEF AddBegin, AddFileNode, AddRelock, AddBlock, AddFile, AddFail
  <2> QED
      BY <1>6, <2>3, <2>4, <2>5 DEF AddStep
<1>7. CASE \/ \E c \in FetchTargets : Fetch(c)
           \/ \E r \in MfsRoots : MfsUpdate(r)
           \/ UNCHANGED vars
    BY <1>1, <1>7 DEF Fetch, MfsUpdate, vars
<1> QED
    BY <1>2, <1>3, <1>5, <1>6, <1>7 DEF Next

\* A step of somebody else: the adder stays where it is, with its lock, and the
\* root it has pinned stays pinned.
LEMMA AdderUndisturbed ==
    ASSUME IInv, [Next]_vars, NEW a \in Adders, AdderKeeps(a), pc'[a] = pc[a], added'[a] = added[a],
           a \in readers => a \in readers',
           \A n \in 1..(Len(Files[a]) - 1) : Roots[a][n] \in rpins => Roots[a][n] \in rpins'
    PROVE  AdderKeeps(a)'
<1>1. TypeOK /\ added[a] \in 0..Len(Files[a])
    BY DEF IInv, SInv, AddInv
<1>2. Len(Files[a]) \in Nat
    BY GCAssumption
<1>3. ASSUME pc[a] \in {"idle"} \cup AdderStages
      PROVE  /\ MhOf(Desc(FilesUpTo(a, added[a]))) \subseteq blocks'
             /\ a \notin readers' /\ added[a] # 0 =>
                  added[a] < Len(Files[a]) /\ Roots[a][added[a]] \in rpins'
  <2>1. /\ MhOf(Desc(FilesUpTo(a, added[a]))) \subseteq blocks
        /\ a \notin readers /\ added[a] # 0 => added[a] < Len(Files[a]) /\ Roots[a][added[a]] \in rpins
      BY <1>3 DEF AdderKeeps
  <2>2. CASE blocks \subseteq blocks' /\ a \in readers
      BY <2>1, <2>2
  <2>3. CASE a \notin readers
    <3>1. CASE added[a] = 0
      <4>1. FilesUpTo(a, 0) = {} /\ Desc({}) = {} /\ MhOf({}) = {}
          BY DEF FilesUpTo, Desc, MhOf
      <4> QED
          BY <3>1, <4>1
    <3>2. CASE added[a] # 0
      <4> DEFINE r == Roots[a][added[a]]
      <4>1. added[a] < Len(Files[a]) /\ r \in rpins
          BY <2>1, <2>3, <3>2
      <4>2. r \in rpins'
          BY <1>1, <1>2, <3>2, <4>1
      <4>3. Desc(FilesUpTo(a, added[a])) \subseteq Desc({r})
          BY <1>1, RootsAssumption
      <4> HIDE DEF r
      <4>4. Desc({r}) \subseteq Desc(rpins)
          BY <4>1 DEF Desc
      <4>5. MhOf(Desc(FilesUpTo(a, added[a]))) \subseteq PinnedBlocks
          BY <4>3, <4>4 DEF PinnedBlocks, MhOf
      <4>6. MhOf(Desc(FilesUpTo(a, added[a]))) \subseteq blocks'
          BY <2>1, <4>5, DeletesUnpinned
      <4> QED
          BY <4>1, <4>2, <4>6 DEF r
    <3> QED
        BY <3>1, <3>2
  <2> QED
      BY <2>2, <2>3, DeletesAlone
<1> QED
    BY <1>3 DEF AdderKeeps

\* Processes do not move each other, nor take each other's lock.
LEMMA OthersStay ==
    ASSUME TypeOK, NEW p \in Procs, NEW a \in Adders, a # p,
           \/ pc' = pc
           \/ \E l : Goto(p, l),
           \/ readers' = readers
           \/ PinLock(p)
           \/ PinUnlock(p)
           \/ GCUnlock(p)
    PROVE  pc'[a] = pc[a] /\ (a \in readers => a \in readers')
<1>1. a \in Procs
    BY DEF Procs
<1>2. pc'[a] = pc[a]
    BY <1>1, Moved
<1> QED
    BY <1>2 DEF PinLock, PinUnlock, GCUnlock

LEMMA AdderKeepsOthers ==
    ASSUME IInv, PinInv, RootsStay, [Next]_vars, NEW a \in Adders,
           ~(AddBegin(a) \/ AddStep(a))
    PROVE  AdderKeeps(a)'
<1>0. AdderKeeps(a) /\ TypeOK /\ a \in Procs
    BY DEF PinInv, IInv, SInv, Procs
<1> USE DEF store, work, locker
<1>1. ASSUME NEW p \in Procs, p # a,
             \/ pc' = pc
             \/ \E l : Goto(p, l),
             \/ readers' = readers
             \/ PinLock(p)
             \/ PinUnlock(p)
             \/ GCUnlock(p),
             added'[a] = added[a],
             \A n \in 1..(Len(Files[a]) - 1) : Roots[a][n] \in rpins => Roots[a][n] \in rpins'
      PROVE  AdderKeeps(a)'
  <2>1. pc'[a] = pc[a] /\ (a \in readers => a \in readers')
      BY <1>0, <1>1, OthersStay
  <2> QED
      BY <1>0, <1>1, <2>1, AdderUndisturbed
<1>2. ASSUME NEW g \in Collectors, Collect(g) PROVE AdderKeeps(a)'
  <2>1. g \in Procs /\ g # a
      BY KindsDiffer DEF Procs
  <2>2. pc' = pc \/ \E l : Goto(g, l)
      BY <1>2 DEF Collect, BestEffortRoots, GCBegin, GCAnnounced, GCLocked, ColoredSetPinned,
        ColoredSetBestEffort, ColoredSetDirect, GCSweep, GCEnd, GCCancel, GCReturn
  <2>3. readers' = readers \/ GCUnlock(g)
      BY <1>2 DEF Collect, BestEffortRoots, GCBegin, GCAnnounced, GCLocked, ColoredSetPinned,
        ColoredSetBestEffort, ColoredSetDirect, GCSweep, GCEnd, GCCancel, GCReturn,
        GCLock, GCAnnounce, GCAcquire
  <2>4. added' = added /\ rpins' = rpins
      BY <1>2 DEF Collect, BestEffortRoots, GCBegin, GCAnnounced, GCLocked, ColoredSetPinned,
        ColoredSetBestEffort, ColoredSetDirect, GCSweep, GCEnd, GCCancel, GCReturn
  <2> QED
      BY <1>1, <2>1, <2>2, <2>3, <2>4
<1>3. ASSUME NEW p \in Removers, RmBlocks(p) PROVE AdderKeeps(a)'
  <2>1. p \in Procs /\ p # a
      BY KindsDiffer DEF Procs
  <2>2. pc' = pc \/ \E l : Goto(p, l)
      BY <1>3 DEF RmBlocks, RmBegin, GCAnnounced, RmLocked, FilterPinned, RmBlock, RmEnd
  <2>3. readers' = readers \/ GCUnlock(p)
      BY <1>3 DEF RmBlocks, RmBegin, GCAnnounced, RmLocked, FilterPinned, RmBlock, RmEnd,
        GCLock, GCAnnounce, GCAcquire
  <2>4. added' = added /\ rpins' = rpins
      BY <1>3 DEF RmBlocks, RmBegin, GCAnnounced, RmLocked, FilterPinned, RmBlock, RmEnd
  <2> QED
      BY <1>1, <2>1, <2>2, <2>3, <2>4
<1>4. ASSUME NEW p \in Clients, PinRequest(p) \/ ClientOp(p) PROVE AdderKeeps(a)'
  <2>1. p \in Procs /\ p # a
      BY KindsDiffer DEF Procs
  <2>2. pc' = pc \/ \E l : Goto(p, l)
      BY <1>4 DEF PinRequest, ClientOp, PinAdd, PinAddDirect, ImportRoot, PinRm, PinUpdate,
                  PutPinned, BlockPut, ObjectPut, PinningAdd, PinningAddMany, PinDone, PinReturn
  <2>3. readers' = readers \/ PinLock(p) \/ PinUnlock(p)
      BY <1>4 DEF PinRequest, ClientOp, PinAdd, PinAddDirect, ImportRoot, PinRm, PinUpdate,
                  PutPinned, BlockPut, ObjectPut, PinningAdd, PinningAddMany, PinDone, PinReturn
  <2>4. added' = added
      BY <1>4 DEF PinRequest, ClientOp, PinAdd, PinAddDirect, ImportRoot, PinRm, PinUpdate,
                  PutPinned, BlockPut, ObjectPut, PinningAdd, PinningAddMany, PinDone, PinReturn
  <2>5. \A c \in rpins : c \notin rpins' => c \in UnpinTargets
      BY <1>4 DEF PinRequest, ClientOp, PinAdd, PinAddDirect, ImportRoot, PinRm, PinUpdate, PinRecursive,
                  PutPinned, BlockPut, ObjectPut, PinningAdd, PinningAddMany, PinDone, PinReturn
  <2>6. \A n \in 1..(Len(Files[a]) - 1) : Roots[a][n] \in rpins => Roots[a][n] \in rpins'
      BY <2>5 DEF RootsStay
  <2> QED
      BY <1>1, <2>1, <2>2, <2>3, <2>4, <2>6
<1>5. ASSUME NEW b \in Adders, AddBegin(b) \/ AddStep(b) PROVE AdderKeeps(a)'
  <2>1. b \in Procs /\ b # a
      BY <1>5 DEF Procs
  <2>2. pc' = pc \/ \E l : Goto(b, l)
      BY <1>5 DEF AddBegin, AddStep, AddFileNode, maybePauseForGC, AddRelock, AddBlock, AddFile, AddFinish, AddFail
  <2>3. readers' = readers \/ PinLock(b) \/ PinUnlock(b)
      BY <1>5 DEF AddBegin, AddStep, AddFileNode, maybePauseForGC, AddRelock, AddBlock, AddFile, AddFinish, AddFail
  <2>4. added'[a] = added[a]
    <3>1. added' = added \/ added' = [added EXCEPT ![b] = @ + 1]
        BY <1>5 DEF AddBegin, AddStep, AddFileNode, maybePauseForGC, AddRelock, AddBlock, AddFile, AddFinish, AddFail
    <3> QED
        BY <1>0, <2>1, <3>1 DEF TypeOK
  <2>5. rpins \subseteq rpins'
      BY <1>5 DEF AddBegin, AddStep, AddFileNode, maybePauseForGC, AddRelock, AddBlock, AddFile, AddFinish, AddFail,
                  PinRoot, PinWithMode
  <2> QED
      BY <1>1, <2>1, <2>2, <2>3, <2>4, <2>5
<1>6. CASE \/ \E c \in FetchTargets : Fetch(c)
           \/ \E r \in MfsRoots : MfsUpdate(r)
           \/ UNCHANGED vars
  <2>1. UNCHANGED <<pc, added, readers, rpins>>
      BY <1>6 DEF Fetch, MfsUpdate, vars
  <2> QED
      BY <1>0, <2>1, AdderUndisturbed
<1> QED
    BY <1>2, <1>3, <1>4, <1>5, <1>6 DEF Next

LEMMA AdderKeepsOwn ==
    ASSUME IInv, PinInv, NEW a \in Adders, AddBegin(a) \/ AddStep(a)
    PROVE  AdderKeeps(a)'
<1> DEFINE n == added[a]
           F == MhOf(Desc(FilesUpTo(a, n)))
<1>0. AdderKeeps(a) /\ TypeOK /\ a \in Procs /\ n \in 0..Len(Files[a]) /\ Len(Files[a]) \in Nat /\ n \in Nat
    BY GCAssumption DEF PinInv, IInv, SInv, AddInv, Procs
<1> USE DEF store, work, HasRead, At
<1>1. CASE AddBegin(a)
  <2>1. pc[a] = "idle" /\ pc'[a] = "check" /\ added' = added /\ blocks' = blocks
      BY <1>0, <1>1, Moved DEF AddBegin
  <2>2. n = 0 /\ F \subseteq blocks
      BY <1>0, <2>1 DEF AdderKeeps
  <2> QED
      BY <2>1, <2>2 DEF AdderKeeps
<1>2. CASE AddFileNode(a)
  <2>1. pc[a] = "check" /\ a \in readers /\ UNCHANGED <<readers, blocks, added, rpins>>
        /\ pc'[a] = IF n = Len(Files[a]) THEN "finish" ELSE "write"
      BY <1>0, <1>2, Moved DEF AddFileNode, AfterCheck, locker
  <2> QED
      BY <1>0, <2>1 DEF AdderKeeps, AdderStages
<1>3. CASE maybePauseForGC(a)
  <2>1. pc[a] = "check" /\ pc'[a] = "plock" /\ added' = added /\ PinRoot(a, Roots[a][n])
      BY <1>0, <1>3, Moved DEF maybePauseForGC
  <2>2. blocks \subseteq blocks' /\ Roots[a][n] \in rpins'
      BY <2>1 DEF PinRoot, PinWithMode
  <2>3. n = 0 \/ n < Len(Files[a])
      BY <1>0, <2>1 DEF AdderKeeps
  <2>4. F \subseteq blocks'
      BY <1>0, <2>1, <2>2 DEF AdderKeeps, AdderStages
  <2> QED
      BY <2>1, <2>2, <2>3, <2>4 DEF AdderKeeps
<1>4. CASE AddRelock(a)
  <2>1. pc[a] = "plock" /\ UNCHANGED <<blocks, added, rpins>> /\ readers \subseteq readers'
        /\ pc'[a] = IF n = Len(Files[a]) THEN "finish" ELSE "write"
      BY <1>0, <1>4, Moved DEF AddRelock, AfterCheck, PinLock
  <2> QED
      BY <1>0, <2>1 DEF AdderKeeps, AdderStages
<1>5. ASSUME NEW k \in Hashes, AddBlock(a, k) PROVE AdderKeeps(a)'
  <2>1. pc[a] = "write" /\ a \in readers /\ UNCHANGED <<readers, added, rpins, pc>> /\ blocks \subseteq blocks'
      BY <1>5 DEF AddBlock, locker
  <2> QED
      BY <1>0, <2>1 DEF AdderKeeps, AdderStages
<1>6. CASE AddFile(a)
  <2>1. /\ pc[a] = "write" /\ a \in readers /\ readers' = readers
        /\ blocks' = blocks \cup MhOf(Desc({CurFile(a)}))
        /\ added'[a] = n + 1
        /\ pc'[a] = IF n + 1 = Len(Files[a]) THEN "finish" ELSE "check"
      BY <1>0, <1>6, Moved DEF AddFile, locker, TypeOK
  <2>2. n # Len(Files[a])
      BY <2>1 DEF IInv, SInv, AddInv
  <2>3. FilesUpTo(a, n + 1) = FilesUpTo(a, n) \cup {CurFile(a)}
    <3>1. 1..(n + 1) = (1..n) \cup {n + 1}
        BY <1>0
    <3> QED
        BY <3>1 DEF FilesUpTo, CurFile
  <2>4. Desc(FilesUpTo(a, n + 1)) = Desc(FilesUpTo(a, n)) \cup Desc({CurFile(a)})
      BY <2>3 DEF Desc
  <2>5. MhOf(Desc(FilesUpTo(a, n + 1))) = F \cup MhOf(Desc({CurFile(a)}))
      BY <2>4 DEF MhOf
  <2>6. F \subseteq blocks
      BY <1>0, <2>1 DEF AdderKeeps, AdderStages
  <2>7. MhOf(Desc(FilesUpTo(a, n + 1))) \subseteq blocks'
      BY <2>1, <2>5, <2>6
  <2>8. n + 1 < Len(Files[a]) \/ n + 1 = Len(Files[a])
      BY <1>0, <2>2
  <2> QED
      BY <2>1, <2>7, <2>8 DEF AdderKeeps
<1>7. CASE AddFinish(a) \/ AddFail(a)
  <2>1. pc'[a] = "done"
      BY <1>0, <1>7, Moved DEF AddFinish, AddFail
  <2> QED
      BY <2>1 DEF AdderKeeps, AdderStages
<1> QED
    BY <1>1, <1>2, <1>3, <1>4, <1>5, <1>6, <1>7 DEF AddStep

LEMMA PinInvStep == RootsStay /\ IInv /\ PinInv /\ [Next]_vars => PinInv'
BY PinsCompleteStep, AdderKeepsOthers, AdderKeepsOwn DEF PinInv

-----------------------------------------------------------------------------
(* MFS, when nothing is written without a lock during a collection: a      *)
(* collection has read the root that MFS still has, what that root leads   *)
(* to is marked before anything is swept, and what is swept is not marked. *)
MfsInv ==
    \A g \in Collectors :
        /\ pc[g] # "idle" => bestEffort[g] = mfs
        /\ pc[g] \in {"direct", "sweep"} => Reach({mfs}, blocks) \subseteq marked
        /\ pc[g] = "sweep" => keys \cap MhOf(marked) = {}

\* The fewer blocks can be read, the less a walk visits.
LEMMA ReachMonotone ==
    ASSUME NEW R \in SUBSET Cids, NEW S, NEW U, S \subseteq U
    PROVE  Reach(R, S) \subseteq Reach(R, U)
BY DEF Reach

\* Only the writer marks and sweeps, so what a reader writes, and what a
\* process of another kind does that is not the writer, touches no collection.
LEMMA NobodySweeps ==
    ASSUME SInv, NEW p \in Procs, p \in readers \/ (pc[p] \in Exclusive /\ p \notin Collectors)
    PROVE  \A g \in Collectors : pc[g] \notin Exclusive
<1>1. \A g \in Collectors : g \in Procs
    BY DEF Procs
<1> QED
    BY <1>1, KindsDiffer DEF SInv, LockInv

\* A step of a process that is no collector, which leaves alone the root, what
\* the collectors have read and marked, and the blocks and keys while one sweeps.
LEMMA OthersKeepMfs ==
    ASSUME SInv, MfsInv, UNCHANGED <<mfs, bestEffort, marked>>,
           \A g \in Collectors : pc'[g] = pc[g],
           \/ UNCHANGED <<blocks, keys>>
           \/ \A g \in Collectors : pc[g] \notin Exclusive
    PROVE  MfsInv'
<1>1. CASE UNCHANGED <<blocks, keys>>
  <2>1. Reach({mfs}, blocks)' = Reach({mfs}, blocks) /\ MhOf(marked)' = MhOf(marked)
      BY <1>1 DEF Reach, MhOf
  <2> QED
      BY <1>1, <2>1 DEF MfsInv
<1>2. CASE \A g \in Collectors : pc[g] \notin Exclusive
    BY <1>2 DEF MfsInv, Exclusive
<1> QED
    BY <1>1, <1>2

LEMMA CollectKeepsMfs == ASSUME SInv, MfsInv, NEW g \in Collectors, Collect(g) PROVE MfsInv'
<1>g. g \in Procs /\ \A q \in Collectors : q \in Procs
    BY DEF Procs
<1>m. mfs \in MfsRoots /\ {mfs} \in SUBSET Cids
    BY GCAssumption DEF SInv, TypeOK
<1> USE DEF store, locker, work
<1>1. CASE BestEffortRoots(g)
  <2>1. pc'[g] = "roots" /\ bestEffort'[g] = mfs
      BY <1>1, <1>g DEF BestEffortRoots, Goto, SInv, TypeOK
  <2>2. \A q \in Collectors : q # g => pc'[q] = pc[q] /\ bestEffort'[q] = bestEffort[q]
      BY <1>1, <1>g DEF BestEffortRoots, Goto, SInv, TypeOK
  <2>3. Reach({mfs}, blocks)' = Reach({mfs}, blocks) /\ MhOf(marked)' = MhOf(marked)
      BY <1>1 DEF BestEffortRoots, Reach, MhOf
  <2> QED
      BY <1>1, <2>1, <2>2, <2>3 DEF BestEffortRoots, MfsInv
<1>2. CASE GCBegin(g) \/ GCAnnounced(g)
  <2>1. \A q \in Collectors : pc'[q] = pc[q] \/ (pc[q] = "roots" /\ pc'[q] = "gclock")
      BY <1>2, <1>g DEF GCBegin, GCAnnounced, At, Goto, SInv, TypeOK
  <2>2. UNCHANGED <<mfs, blocks, bestEffort, marked, keys>>
      BY <1>2 DEF GCBegin, GCAnnounced
  <2>3. Reach({mfs}, blocks)' = Reach({mfs}, blocks) /\ MhOf(marked)' = MhOf(marked)
      BY <2>2 DEF Reach, MhOf
  <2> QED
      BY <2>1, <2>2, <2>3 DEF MfsInv
<1>3. CASE GCLocked(g)
  <2>1. \A q \in Collectors : pc[q] \notin Exclusive
      BY <1>3, <1>g, KindsDiffer DEF GCLocked, GCAcquire, SInv, LockInv
  <2>2. \A q \in Collectors : pc'[q] \notin {"direct", "sweep"} /\ (pc'[q] # "idle" => pc[q] # "idle")
      BY <1>3, <1>g, <2>1 DEF GCLocked, At, Goto, SInv, TypeOK, Exclusive
  <2> QED
      BY <1>3, <2>2 DEF GCLocked, MfsInv
<1>4. ASSUME NEW io \in BOOLEAN, ColoredSetPinned(g, io) PROVE MfsInv'
  <2>1. \A q \in Collectors : q # g => pc[q] \notin Exclusive
      BY <1>4, <1>g DEF ColoredSetPinned, At, SInv, LockInv, Exclusive
  <2>2. \A q \in Collectors : pc'[q] \notin {"direct", "sweep"} /\ (pc'[q] # "idle" => pc[q] # "idle")
      BY <1>4, <1>g, <2>1 DEF ColoredSetPinned, At, Goto, SInv, TypeOK, Exclusive
  <2> QED
      BY <1>4, <2>2 DEF ColoredSetPinned, MfsInv
<1>5. ASSUME NEW io \in BOOLEAN, ColoredSetBestEffort(g, io) PROVE MfsInv'
  <2>1. \A q \in Collectors : q # g => pc[q] \notin Exclusive /\ pc'[q] = pc[q]
      BY <1>5, <1>g DEF ColoredSetBestEffort, At, Goto, SInv, TypeOK, LockInv, Exclusive
  <2>2. pc[g] = "best" /\ pc'[g] = "direct" /\ UNCHANGED <<mfs, blocks, bestEffort>>
      BY <1>5, <1>g DEF ColoredSetBestEffort, At, Goto, SInv, TypeOK
  <2>3. Reach({mfs}, blocks)' = Reach({mfs}, blocks)
      BY <2>2 DEF Reach
  <2>4. Reach({mfs}, blocks) \subseteq marked'
      BY <1>5, <2>2 DEF ColoredSetBestEffort, MfsInv
  <2> QED
      BY <2>1, <2>2, <2>3, <2>4 DEF MfsInv, Exclusive
<1>6. CASE ColoredSetDirect(g)
  <2>1. \A q \in Collectors : q # g => pc[q] \notin Exclusive /\ pc'[q] = pc[q]
      BY <1>6, <1>g DEF ColoredSetDirect, At, Goto, SInv, TypeOK, LockInv, Exclusive
  <2>2. pc[g] = "direct" /\ pc'[g] = "sweep" /\ UNCHANGED <<mfs, blocks, bestEffort>>
      BY <1>6, <1>g DEF ColoredSetDirect, At, Goto, SInv, TypeOK
  <2>3. Reach({mfs}, blocks)' = Reach({mfs}, blocks)
      BY <2>2 DEF Reach
  <2>4. Reach({mfs}, blocks) \subseteq marked'
      BY <1>6, <2>2 DEF ColoredSetDirect, MfsInv
  <2>5. keys' \cap MhOf(marked)' = {}
      BY <1>6 DEF ColoredSetDirect, Unmarked, MhOf
  <2> QED
      BY <2>1, <2>2, <2>3, <2>4, <2>5 DEF MfsInv, Exclusive
<1>7. ASSUME NEW k \in Hashes, NEW de \in BOOLEAN, GCSweep(g, k, de) PROVE MfsInv'
  <2>1. blocks' \subseteq blocks /\ keys' \subseteq keys /\ UNCHANGED <<mfs, pc, bestEffort, marked>>
      BY <1>7 DEF GCSweep
  <2>2. Reach({mfs}, blocks') \subseteq Reach({mfs}, blocks)
      BY <1>m, <2>1, ReachMonotone
  <2>3. Reach({mfs}, blocks)' = Reach({mfs}, blocks') /\ MhOf(marked)' = MhOf(marked)
      BY <2>1 DEF Reach, MhOf
  <2> QED
      BY <2>1, <2>2, <2>3 DEF MfsInv
<1>8. ASSUME pc[g] \in Exclusive, GCReturn(g) PROVE MfsInv'
  <2>1. \A q \in Collectors : q # g => pc[q] \notin Exclusive
      BY <1>8, <1>g DEF SInv, LockInv
  <2>2. \A q \in Collectors : pc'[q] \notin {"direct", "sweep"} /\ (pc'[q] # "idle" => pc[q] # "idle")
      BY <1>8, <1>g, <2>1 DEF GCReturn, Goto, SInv, TypeOK, Exclusive
  <2> QED
      BY <1>8, <2>2 DEF GCReturn, MfsInv
<1> QED
    BY <1>1, <1>2, <1>3, <1>4, <1>5, <1>6, <1>7, <1>8
    DEF Collect, GCEnd, GCCancel, At, Exclusive

LEMMA OthersMfs ==
    ASSUME SInv, MfsInv,
           \/ \E p \in Removers : RmBlocks(p)
           \/ \E p \in Clients : PinRequest(p) \/ ClientOp(p)
           \/ \E a \in Adders : AddBegin(a) \/ AddStep(a)
    PROVE  MfsInv'
<1> USE DEF store, locker, work, HasRead, Goto
<1>1. \A p \in Removers \cup Clients \cup Adders : p \in Procs /\ p \notin Collectors
    BY GCAssumption DEF Procs
<1>2. \A g \in Collectors : g \in Procs
    BY DEF Procs
<1>3. pc \in [Procs -> {"idle", "roots", "gclock", "mark", "best", "direct",
                         "sweep", "filter", "delete", "plock", "check", "write",
                         "finish", "done"}]
    BY DEF SInv, TypeOK
<1>4. ASSUME NEW p \in Removers, RmBlocks(p) PROVE MfsInv'
  <2>1. UNCHANGED <<mfs, bestEffort, marked>> /\ \A g \in Collectors : pc'[g] = pc[g]
      BY <1>1, <1>2, <1>3, <1>4 DEF RmBlocks, RmBegin, GCAnnounced, RmLocked, FilterPinned, RmBlock, RmEnd
  <2>2. UNCHANGED <<blocks, keys>> \/ pc[p] \in Exclusive
      BY <1>4 DEF RmBlocks, RmBegin, GCAnnounced, RmLocked, FilterPinned, RmBlock, RmEnd, At, Exclusive
  <2> QED
      BY <1>1, <2>1, <2>2, NobodySweeps, OthersKeepMfs
<1>5. ASSUME NEW p \in Clients, PinRequest(p) \/ ClientOp(p) PROVE MfsInv'
  <2>1. UNCHANGED <<mfs, bestEffort, marked>> /\ \A g \in Collectors : pc'[g] = pc[g]
      BY <1>1, <1>2, <1>3, <1>5
      DEF PinRequest, ClientOp, PinAdd, PinAddDirect, ImportRoot, PinRm, PinUpdate,
          PutPinned, BlockPut, ObjectPut, PinningAdd, PinningAddMany, PinDone, PinReturn
  <2>2. UNCHANGED <<blocks, keys>> \/ p \in readers
      BY <1>5 DEF PinRequest, ClientOp, PinAdd, PinAddDirect, ImportRoot, PinRm, PinUpdate,
          PutPinned, BlockPut, ObjectPut, PinningAdd, PinningAddMany, PinDone, PinLocked
  <2> QED
      BY <1>1, <2>1, <2>2, NobodySweeps, OthersKeepMfs
<1>6. ASSUME NEW a \in Adders, AddBegin(a) \/ AddStep(a) PROVE MfsInv'
  <2>1. UNCHANGED <<mfs, bestEffort, marked>> /\ \A g \in Collectors : pc'[g] = pc[g]
      BY <1>1, <1>2, <1>3, <1>6
      DEF AddBegin, AddStep, AddFileNode, maybePauseForGC, AddRelock, AddBlock, AddFile,
          AddFinish, AddFail, PinRoot
  <2>2. UNCHANGED <<blocks, keys>> \/ a \in readers
      BY <1>6 DEF AddBegin, AddStep, AddFileNode, maybePauseForGC, AddRelock, AddBlock, AddFile,
          AddFinish, AddFail
  <2> QED
      BY <1>1, <2>1, <2>2, NobodySweeps, OthersKeepMfs
<1> QED
    BY <1>4, <1>5, <1>6

LEMMA MfsStep == UnlockedDuringGC = FALSE /\ SInv /\ MfsInv /\ [Next]_vars => MfsInv'
<1> SUFFICES ASSUME UnlockedDuringGC = FALSE, SInv, MfsInv, [Next]_vars PROVE MfsInv'
    OBVIOUS
<1>1. CASE (\E c \in FetchTargets : Fetch(c)) \/ (\E r \in MfsRoots : MfsUpdate(r))
  <2>1. \A g \in Collectors : pc'[g] = "idle"
      BY <1>1 DEF Fetch, MfsUpdate, Undisturbed, At
  <2> QED
      BY <2>1 DEF MfsInv
<1>2. CASE UNCHANGED vars
    BY <1>2, OthersKeepMfs DEF vars, store, work
<1> QED
    BY <1>1, <1>2, CollectKeepsMfs, OthersMfs DEF Next

\* What a collection deletes is not below the root of MFS.
LEMMA DeletesOutsideMfs ==
    SInv /\ MfsInv /\ [Next]_vars =>
        (writer \in Collectors => (blocks \ blocks') \cap MhOf(Reach({mfs}, blocks)) = {})
<1> SUFFICES ASSUME SInv, MfsInv, [Next]_vars, writer \in Collectors
             PROVE  (blocks \ blocks') \cap MhOf(Reach({mfs}, blocks)) = {}
    OBVIOUS
<1> USE DEF store
<1>1. CASE blocks \subseteq blocks'
    BY <1>1
<1>2. ASSUME NEW g \in Collectors, Collect(g)
      PROVE  (blocks \ blocks') \cap MhOf(Reach({mfs}, blocks)) = {}
  <2>1. ASSUME NEW k \in Hashes, NEW de \in BOOLEAN, GCSweep(g, k, de)
        PROVE  (blocks \ blocks') \cap MhOf(Reach({mfs}, blocks)) = {}
    <3>1. pc[g] = "sweep" /\ k \in keys /\ blocks \ blocks' \subseteq {k}
        BY <2>1 DEF GCSweep, At
    <3>2. Reach({mfs}, blocks) \subseteq marked /\ keys \cap MhOf(marked) = {}
        BY <3>1 DEF MfsInv
    <3> QED
        BY <3>1, <3>2 DEF MhOf
  <2>2. ASSUME \A k \in Hashes, de \in BOOLEAN : ~GCSweep(g, k, de)
        PROVE  blocks \subseteq blocks'
      BY <1>2, <2>2 DEF Collect, BestEffortRoots, GCBegin, GCAnnounced, GCLocked, ColoredSetPinned,
         ColoredSetBestEffort, ColoredSetDirect, GCEnd, GCCancel, GCReturn
  <2> QED
      BY <1>1, <2>1, <2>2
<1>3. ASSUME NEW p \in Removers, RmBlocks(p) PROVE blocks \subseteq blocks'
  <2>1. p \in Procs /\ p \notin Collectors
      BY GCAssumption DEF Procs
  <2>2. pc[p] # "delete"
      BY <2>1 DEF SInv, LockInv, Exclusive
  <2> QED
      BY <1>3, <2>2 DEF RmBlocks, RmBegin, GCAnnounced, RmLocked, FilterPinned, RmBlock, RmEnd, At
<1>4. ASSUME NEW p \in Clients, PinRequest(p) \/ ClientOp(p) PROVE blocks \subseteq blocks'
    BY <1>4 DEF PinRequest, ClientOp, PinAdd, PinAddDirect, PinRm, PinUpdate, PutPinned, BlockPut,
                ObjectPut, PinningAdd, PinningAddMany, ImportRoot, PinDone, PinRecursive
<1>5. ASSUME NEW a \in Adders, AddBegin(a) \/ AddStep(a) PROVE blocks \subseteq blocks'
    BY <1>5 DEF AddBegin, AddStep, AddFileNode, maybePauseForGC, AddRelock, AddBlock,
                AddFile, AddFinish, AddFail, PinRoot
<1>6. CASE \/ \E c \in FetchTargets : Fetch(c)
           \/ \E r \in MfsRoots : MfsUpdate(r)
           \/ UNCHANGED vars
    BY <1>6 DEF Fetch, MfsUpdate, vars
<1> QED
    BY <1>1, <1>2, <1>3, <1>4, <1>5, <1>6 DEF Next

-----------------------------------------------------------------------------
(* The theorems.                                                           *)

\* The inductive invariant of the locker and the collection holds.
THEOREM Invariance == ASSUME RmUnambiguous PROVE Spec => []IInv
<1>1. IInv /\ [Next]_vars => IInv'
    BY TypeStep, LockStep, AddStepInv, MarkStep DEF IInv, SInv
<1> QED
    BY <1>1, InvInit, PTL DEF Spec

\* No variable of the collector, the pinner's clients or the adder leaves its
\* type, and the locker never lets a collection and a pinning operation in
\* together.
THEOREM TypeCorrect == Spec => [](TypeOK /\ LockInv)
<1>1. SInv /\ [Next]_vars => SInv'
    BY TypeStep, LockStep, AddStepInv DEF SInv
<1>2. SInv => TypeOK /\ LockInv
    BY DEF SInv
<1>3. Init => SInv
    BY InvInit DEF IInv
<1> QED
    BY <1>1, <1>2, <1>3, PTL DEF Spec

\* Neither the sweep of GC nor RmBlocks ever removes a block that a pin
\* protects, for any DAG and any number of collections, removals, pinning
\* operations, adders and writes without a lock.
THEOREM PinnedSafe == ASSUME RmUnambiguous PROVE Spec => PinnedKept
BY DeletesUnpinned, Invariance, PTL DEF Spec, PinnedKept

\* What an operation has pinned recursively stays whole, for any DAG and any
\* number of collections, removals and adders that pause for them, provided that
\* nobody unpins the root that a pausing adder has pinned (AddAllAndPin,
\* maybePauseForGC, PinRoot, Pin, Update).
THEOREM PinsStayComplete == ASSUME RmUnambiguous, RootsStay PROVE Spec => []PinsComplete
<1>1. PinInv => PinsComplete
    BY DEF PinInv
<1>2. IInv /\ PinInv /\ [Next]_vars => PinInv'
    BY PinInvStep
<1> QED
    BY <1>1, <1>2, PinInvInit, Invariance, PTL DEF Spec

\* A collection deletes no block that the root of MFS leads to, for any DAG and
\* any number of collections, provided that MFS and fetches do not write while
\* one is under way (BestEffortRoots, ColoredSet).  Without that the run
\* gc_mfs_lost shows a block lost.
THEOREM MfsStays == ASSUME UnlockedDuringGC = FALSE PROVE Spec => MfsRespected
<1>1. SInv /\ [Next]_vars => SInv'
    BY TypeStep, LockStep, AddStepInv DEF SInv
<1>2. Init => SInv /\ MfsInv
    BY InvInit DEF IInv, Init, MfsInv, Procs
<1>3. SInv /\ MfsInv /\ [Next]_vars => MfsInv'
    BY MfsStep
<1> QED
    BY <1>1, <1>2, <1>3, DeletesOutsideMfs, PTL DEF Spec, MfsRespected

=============================================================================
