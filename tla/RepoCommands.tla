---------------------------- MODULE RepoCommands ----------------------------
(***************************************************************************)
(* `ipfs repo gc, verify and stat` (core/commands/repo.go) and the         *)
(* automatic collections of a daemon (core/corerepo/gc.go), over a block   *)
(* store that changes while they run.                                      *)
(*                                                                         *)
(*   gc      a collection sends its results on a channel, the command      *)
(*           reads them and makes of them the answer to the user;          *)
(*   verify  workers take keys from one channel and send to another;       *)
(*   stat    counts the keys.                                              *)
(*                                                                         *)
(* What a collection may remove is the subject of GarbageCollection; here  *)
(* every block that is not in RcPinned is garbage.  The block store gives  *)
(* its keys in order (AllKeysChan), each as it is when it is reached.      *)
(***************************************************************************)
EXTENDS Integers, Sequences, FiniteSets

CONSTANTS
    RcKeys,         \* blocks are 1..RcKeys
    RcPinned,       \* those a collection keeps
    RcWorkers,      \* the goroutines of repo verify
    GcBuffer,       \* results the channel of a collection holds
    StorageMaxes, Watermarks,   \* values of Datastore.StorageMax and StorageGCWatermark
    Word,           \* uint64 is 0..Word-1
    MaxRepo         \* commands, writes and losses of a behaviour (a bound)

ASSUME RepoCommandsAssumption ==
    /\ RcKeys \in Nat /\ RcPinned \subseteq 1..RcKeys /\ GcBuffer \in Nat \ {0}
    /\ IsFiniteSet(RcWorkers) /\ RcWorkers # {}
    /\ Word \in Nat \ {0} /\ StorageMaxes \subseteq 0..Word-1 /\ Watermarks \subseteq Int /\ MaxRepo \in Nat

VARIABLES
    rcDisk,     \* per key: absent, good, corrupt
    rcHist,     \* per key: what it has been since the command began
    rcCmd,      \* what runs: none, gc, verify, stat
    rcMode,     \* of gc: stream (--stream-errors), collect, periodic
    rcDone,     \* the context of the command is cancelled
    rcAnswer,   \* what the last command answered: none, ok, error, corrupt
    rcCursor,   \* how far the key channel is
    rcGc,       \* the collection: mark, sweep, datastore, closed, with the results under way
    rcFailed,   \* something the collection was to do and could not
    rcErrs,     \* the errors the command has been told of
    rcWork,     \* per worker: the key it has, 0 for none, -1 when it has ended
    rcFails,    \* corrupt blocks reported
    rcCount,    \* results or keys counted
    rcLimits,   \* the periodic collector: StorageMax, the watermark and StorageGC, as it read them
    rcLeft,     \* what was stored when a period last ended and nothing was collected
    rcRuns

rcGcVars == <<rcMode, rcGc, rcFailed, rcErrs, rcLimits, rcLeft>>
rcVerifyVars == <<rcWork, rcFails>>
rcDiskVars == <<rcDisk, rcHist>>
rcVars == <<rcDiskVars, rcCmd, rcDone, rcAnswer, rcCursor, rcGcVars, rcVerifyVars, rcCount, rcRuns>>

Blocks == 1..RcKeys
BlockStates == {"absent", "good", "corrupt"}
Stored == {k \in Blocks : rcDisk[k] # "absent"}
NoLimits == [max |-> 0, mark |-> 0, gc |-> 0, on |-> FALSE]

\* What a period may leave: StorageMax, or, as nobody checks that the watermark
\* is a percentage, what another one makes of it.
Allowed(max, mark) == IF mark \in 0..100 THEN max ELSE (max * (mark % Word)) \div 100

RcTypeOK ==
    /\ rcDisk \in [Blocks -> BlockStates] /\ rcHist \in [Blocks -> SUBSET BlockStates]
    /\ rcCmd \in {"none", "gc", "verify", "stat"} /\ rcMode \in {"none", "stream", "collect", "periodic"}
    /\ rcAnswer \in {"none", "ok", "error", "corrupt"}
    /\ rcCursor \in 0..RcKeys /\ rcCount \in 0..RcKeys /\ rcFails \in 0..RcKeys
    /\ rcGc \in [at : {"none", "stuck", "mark", "sweep", "datastore", "closed"}, out : Seq({"removed", "error"})]
    /\ Len(rcGc.out) <= GcBuffer /\ rcErrs \in Nat
    /\ rcWork \in [RcWorkers -> -1..RcKeys]
    /\ rcLimits \in [max : Nat, mark : Int, gc : Nat, on : BOOLEAN]
    /\ rcLimits.gc <= Allowed(rcLimits.max, rcLimits.mark)
    /\ rcDone \in BOOLEAN /\ rcFailed \in BOOLEAN /\ rcLeft \in Nat
    /\ rcRuns \in 0..MaxRepo

RcInit ==
    /\ rcDisk \in [Blocks -> {"good", "corrupt"}]
    /\ rcHist = [k \in Blocks |-> {}]
    /\ rcCmd = "none" /\ rcMode = "none" /\ rcDone = FALSE /\ rcAnswer = "none" /\ rcCursor = 0
    /\ rcGc = [at |-> "none", out |-> <<>>] /\ rcFailed = FALSE /\ rcErrs = 0
    /\ rcWork = [w \in RcWorkers |-> -1] /\ rcFails = 0 /\ rcCount = 0
    /\ rcLimits = NoLimits /\ rcLeft = 0
    /\ rcRuns = 0

\* A command begins when the collection before it has noticed its end; one of
\* another process is among the changes of the disk.
Run(cmd, mode) ==
    /\ rcCmd = "none" /\ rcGc.at \in {"none", "closed"} /\ rcRuns < MaxRepo /\ rcRuns' = rcRuns + 1
    /\ rcCmd' = cmd /\ rcMode' = mode
    /\ rcDone' = FALSE /\ rcAnswer' = "none" /\ rcCursor' = 0 /\ rcFailed' = FALSE /\ rcErrs' = 0
    /\ rcFails' = 0 /\ rcCount' = 0
    /\ rcHist' = [k \in Blocks |-> {rcDisk[k]}]
    /\ UNCHANGED rcDisk

Answer(a) == rcCmd' = "none" /\ rcAnswer' = a

\* Blocks are written, removed and damaged by others.
DiskBecomes(k, s) ==
    /\ rcRuns < MaxRepo /\ rcRuns' = rcRuns + 1
    /\ rcDisk[k] # s /\ rcDisk' = [rcDisk EXCEPT ![k] = s]
    /\ rcHist' = [rcHist EXCEPT ![k] = IF rcCmd = "none" THEN @ ELSE @ \cup {s}]
    /\ UNCHANGED <<rcCmd, rcDone, rcAnswer, rcCursor, rcGcVars, rcVerifyVars, rcCount>>

\* The client goes away, or the daemon stops.
RcCancel ==
    /\ rcCmd # "none" /\ ~rcDone /\ rcDone' = TRUE
    /\ UNCHANGED <<rcDiskVars, rcCmd, rcAnswer, rcCursor, rcGcVars, rcVerifyVars, rcCount, rcRuns>>

\* The next key of AllKeysChan, or 0 when it is closed.
NextKey == LET later == {k \in Stored : k > rcCursor} IN
           IF later = {} THEN 0 ELSE CHOOSE k \in later : \A i \in later : k <= i

-----------------------------------------------------------------------------
(* Collections.                                                            *)

(* GarbageCollectAsync sends the error of reading the MFS root on a        *)
(* channel without room before it returns the channel: it never returns.   *)
GarbageCollectAsync(mode, rootsOk) ==
    /\ Run("gc", mode)
    /\ rcGc' = [at |-> IF rootsOk THEN "mark" ELSE "stuck", out |-> <<>>]
    /\ UNCHANGED <<rcWork, rcLimits, rcLeft>>

RepoGcCmd(streamErrors, rootsOk) == GarbageCollectAsync(IF streamErrors THEN "stream" ELSE "collect", rootsOk)

\* Sending waits for room, or for the end of the context.
Send(r) == /\ Len(rcGc.out) < GcBuffer
           /\ rcGc' = [rcGc EXCEPT !.out = Append(@, r)]

GcMark(ok) ==
    /\ rcGc.at = "mark"
    /\ IF ok THEN rcGc' = [rcGc EXCEPT !.at = "sweep"] /\ UNCHANGED rcFailed
       ELSE /\ Len(rcGc.out) < GcBuffer
            /\ rcGc' = [at |-> "closed", out |-> Append(rcGc.out, "error")]
            /\ rcFailed' = TRUE
    /\ UNCHANGED <<rcDiskVars, rcCmd, rcDone, rcAnswer, rcCursor, rcMode, rcErrs, rcLimits, rcLeft,
                   rcVerifyVars, rcCount, rcRuns>>

\* A block that cannot be deleted is reported, and the sweep goes on.
GcSweep(ok) ==
    LET k == NextKey IN
    /\ rcGc.at = "sweep" /\ k # 0 /\ rcCursor' = k
    /\ IF k \in RcPinned THEN ok /\ UNCHANGED <<rcDiskVars, rcGc, rcFailed>>
       ELSE /\ Send(IF ok THEN "removed" ELSE "error")
            /\ rcFailed' = (rcFailed \/ ~ok)
            /\ IF ok THEN /\ rcDisk' = [rcDisk EXCEPT ![k] = "absent"]
                          /\ rcHist' = [rcHist EXCEPT ![k] = @ \cup {"absent"}]
               ELSE UNCHANGED rcDiskVars
    /\ UNCHANGED <<rcCmd, rcDone, rcAnswer, rcMode, rcErrs, rcLimits, rcLeft, rcVerifyVars, rcCount, rcRuns>>

\* Behind the last key the blocks that could not be deleted are summed up in one
\* more error.
GcSummary ==
    /\ rcGc.at = "sweep" /\ NextKey = 0
    /\ rcFailed => Len(rcGc.out) < GcBuffer
    /\ rcGc' = [at |-> "datastore", out |-> IF rcFailed THEN Append(rcGc.out, "error") ELSE rcGc.out]
    /\ UNCHANGED <<rcDiskVars, rcCmd, rcDone, rcAnswer, rcCursor, rcMode, rcFailed, rcErrs, rcLimits, rcLeft,
                   rcVerifyVars, rcCount, rcRuns>>

\* The datastore's own collection, which may fail, or the end of the context
\* closes the channel.
GcClose(ok) ==
    /\ \/ rcGc.at = "datastore" /\ (ok \/ Len(rcGc.out) < GcBuffer)
       \/ rcGc.at \in {"mark", "sweep", "datastore"} /\ rcDone /\ ok
    /\ rcGc' = [at |-> "closed", out |-> IF ok THEN rcGc.out ELSE Append(rcGc.out, "error")]
    /\ rcFailed' = (rcFailed \/ ~ok)
    /\ UNCHANGED <<rcDiskVars, rcCmd, rcDone, rcAnswer, rcCursor, rcMode, rcErrs, rcLimits, rcLeft,
                   rcVerifyVars, rcCount, rcRuns>>

GcWait == rcCmd = "gc" /\ rcGc.at \in {"mark", "sweep", "datastore", "closed"}
            /\ UNCHANGED <<rcDiskVars, rcDone, rcCursor, rcMode, rcFailed, rcLimits, rcLeft,
                           rcVerifyVars, rcCount, rcRuns>>

TakeResult == /\ rcGc.out # <<>> /\ rcGc' = [rcGc EXCEPT !.out = Tail(@)]
              /\ rcErrs' = rcErrs + (IF Head(rcGc.out) = "error" THEN 1 ELSE 0)
              /\ UNCHANGED <<rcCmd, rcAnswer>>

ResultsClosed == rcGc.out = <<>> /\ rcGc.at = "closed" /\ UNCHANGED <<rcGc, rcErrs>>

\* CollectResult: one result, the closed channel, or the end of the context.
CollectResult_TwoErrors ==
    /\ GcWait /\ rcMode # "stream"
    /\ \/ TakeResult
       \/ ResultsClosed /\ Answer(IF rcErrs > 1 THEN "error" ELSE "ok")
       \/ rcDone /\ Answer("error") /\ UNCHANGED <<rcGc, rcErrs>>

CollectResult ==
    /\ GcWait /\ rcMode # "stream"
    /\ \/ TakeResult
       \/ ResultsClosed /\ Answer(IF rcErrs > 0 THEN "error" ELSE "ok")
       \/ rcDone /\ Answer("error") /\ UNCHANGED <<rcGc, rcErrs>>

\* The loop of --stream-errors does not look at the context; it ends early only
\* when a result cannot be written to a client that is gone.
StreamErrors ==
    /\ GcWait /\ rcMode = "stream"
    /\ \/ TakeResult
       \/ ResultsClosed /\ Answer(IF rcErrs > 0 THEN "error" ELSE "ok")
       \/ rcDone /\ rcGc.out # <<>> /\ Answer("error") /\ UNCHANGED <<rcGc, rcErrs>>

-----------------------------------------------------------------------------
(* The periodic collector of a daemon.  A block counts for one byte.       *)

\* NewGC: 90 percent by default, in the arithmetic of uint64; a negative watermark
\* is a huge one there, and above 100 StorageGC may exceed StorageMax.  (The slack
\* between them, which then wraps around, is stored and never read.)
StorageGC(max, mark) == ((max * ((IF mark = 0 THEN 90 ELSE mark) % Word)) % Word) \div 100

NewGC(max, mark) ==
    /\ ~rcLimits.on /\ rcCmd = "none"
    /\ rcLimits' = [max |-> max, mark |-> mark, gc |-> StorageGC(max, mark), on |-> TRUE]
    /\ rcLeft' = 0
    /\ UNCHANGED <<rcDiskVars, rcCmd, rcDone, rcAnswer, rcCursor, rcMode, rcGc, rcFailed, rcErrs,
                   rcVerifyVars, rcCount, rcRuns>>

\* maybeGC, after a period: over the watermark a collection begins.  An MFS
\* root that cannot be read is one more error at its beginning.
MaybeGC_Max ==
    /\ rcLimits.on
    /\ LET storage == Cardinality(Stored) IN
       IF storage > rcLimits.max + 1
       THEN /\ Run("gc", "periodic") /\ rcGc' = [at |-> "mark", out |-> <<>>] /\ UNCHANGED <<rcWork, rcLimits, rcLeft>>
       ELSE /\ rcCmd = "none"
            /\ rcLeft' = storage
            /\ UNCHANGED <<rcDiskVars, rcCmd, rcDone, rcAnswer, rcCursor, rcMode, rcGc, rcFailed, rcErrs,
                           rcLimits, rcVerifyVars, rcCount, rcRuns>>

MaybeGC ==
    /\ rcLimits.on
    /\ LET storage == Cardinality(Stored) IN
       IF storage > rcLimits.gc
       THEN /\ Run("gc", "periodic") /\ rcGc' = [at |-> "mark", out |-> <<>>] /\ UNCHANGED <<rcWork, rcLimits, rcLeft>>
       ELSE /\ rcCmd = "none"
            /\ rcLeft' = storage
            /\ UNCHANGED <<rcDiskVars, rcCmd, rcDone, rcAnswer, rcCursor, rcMode, rcGc, rcFailed, rcErrs,
                           rcLimits, rcVerifyVars, rcCount, rcRuns>>

-----------------------------------------------------------------------------
(* repo verify.                                                            *)

VerifyResultChan ==
    /\ Run("verify", "none")
    /\ rcWork' = [w \in RcWorkers |-> 0]
    /\ UNCHANGED <<rcGc, rcLimits, rcLeft>>

\* A worker takes a key, or ends with the channel or the context.
VerifyWorkerTake(w) ==
    /\ rcCmd = "verify" /\ rcWork[w] = 0
    /\ \/ /\ NextKey # 0 /\ rcCursor' = NextKey /\ rcWork' = [rcWork EXCEPT ![w] = NextKey]
       \/ /\ (NextKey = 0 \/ rcDone) /\ rcWork' = [rcWork EXCEPT ![w] = -1] /\ UNCHANGED rcCursor
    /\ UNCHANGED <<rcDiskVars, rcCmd, rcDone, rcAnswer, rcGcVars, rcFails, rcCount, rcRuns>>

\* It reads the block with its hash checked, and the command gets the result:
\* what is not there any more counts as corrupt.
VerifyWorkerRun(w) ==
    LET k == rcWork[w] IN
    /\ rcCmd = "verify" /\ k > 0
    /\ \/ /\ rcWork' = [rcWork EXCEPT ![w] = 0]
          /\ rcFails' = rcFails + (IF rcDisk[k] = "good" THEN 0 ELSE 1)
          /\ rcCount' = rcCount + 1
       \/ /\ rcDone /\ rcWork' = [rcWork EXCEPT ![w] = -1] /\ UNCHANGED <<rcFails, rcCount>>
    /\ UNCHANGED <<rcDiskVars, rcCmd, rcDone, rcAnswer, rcCursor, rcGcVars, rcRuns>>

\* The results end when all workers have; a cancelled run is not a success.
RepoVerify_NoCtx ==
    /\ rcCmd = "verify" /\ \A w \in RcWorkers : rcWork[w] = -1
    /\ Answer(IF rcFails # 0 THEN "corrupt" ELSE "ok")
    /\ UNCHANGED <<rcDiskVars, rcDone, rcCursor, rcGcVars, rcVerifyVars, rcCount, rcRuns>>

RepoVerify ==
    /\ rcCmd = "verify" /\ \A w \in RcWorkers : rcWork[w] = -1
    /\ Answer(IF rcDone THEN "error" ELSE IF rcFails # 0 THEN "corrupt" ELSE "ok")
    /\ UNCHANGED <<rcDiskVars, rcDone, rcCursor, rcGcVars, rcVerifyVars, rcCount, rcRuns>>

-----------------------------------------------------------------------------
(* repo stat.                                                              *)

RepoStatCmd == Run("stat", "none") /\ UNCHANGED <<rcGc, rcWork, rcLimits, rcLeft>>

\* A cancelled context closes the channel of the keys early, which is not
\* noticed: the answer is then the count so far.
RepoStat_Short ==
    /\ rcCmd = "stat"
    /\ \/ NextKey # 0 /\ rcCursor' = NextKey /\ rcCount' = rcCount + 1 /\ UNCHANGED <<rcCmd, rcAnswer>>
       \/ (NextKey \in {0, RcKeys} \/ rcDone) /\ Answer("ok") /\ UNCHANGED <<rcCursor, rcCount>>
    /\ UNCHANGED <<rcDiskVars, rcDone, rcGcVars, rcVerifyVars, rcRuns>>

RepoStat ==
    /\ rcCmd = "stat"
    /\ \/ NextKey # 0 /\ rcCursor' = NextKey /\ rcCount' = rcCount + 1 /\ UNCHANGED <<rcCmd, rcAnswer>>
       \/ (NextKey = 0 \/ rcDone) /\ Answer("ok") /\ UNCHANGED <<rcCursor, rcCount>>
    /\ UNCHANGED <<rcDiskVars, rcDone, rcGcVars, rcVerifyVars, rcRuns>>

RcNext ==
    \/ \E k \in Blocks, s \in BlockStates : DiskBecomes(k, s)
    \/ RcCancel
    \/ \E stream \in BOOLEAN, ok \in BOOLEAN : RepoGcCmd(stream, ok)
    \/ (\E ok \in BOOLEAN : GcMark(ok) \/ GcSweep(ok) \/ GcClose(ok)) \/ GcSummary \/ CollectResult \/ StreamErrors
    \/ (\E m \in StorageMaxes, w \in Watermarks : NewGC(m, w)) \/ MaybeGC
    \/ VerifyResultChan \/ (\E w \in RcWorkers : VerifyWorkerTake(w) \/ VerifyWorkerRun(w)) \/ RepoVerify
    \/ RepoStatCmd \/ RepoStat

-----------------------------------------------------------------------------
(* Properties.                                                             *)

\* A collection that answers without an error, its context alive, did all it
\* had to: it could mark, no block refused to be deleted and the datastore's own
\* collection succeeded.
RcGcHonest == rcCmd = "none" /\ rcMode # "none" /\ rcAnswer = "ok" /\ ~rcDone => ~rcFailed

\* The periodic collector never lets a period pass with more stored than
\* StorageMax, if the watermark is a percentage; and with any other one, negative
\* ones and those above 100 included, with no more than that makes of StorageMax,
\* although the product may overflow.
RcNotOverFull == rcLeft <= Allowed(rcLimits.max, rcLimits.mark)

\* A collection without an error did its work, and none is late (CollectResult,
\* maybeGC).
RcSound == RcTypeOK /\ RcGcHonest /\ RcNotOverFull

\* repo verify says that all blocks are valid only if no block was there and
\* corrupt all the time, however the workers shared the keys; and that some
\* were corrupt only if one was damaged or removed.
RcVerifyHonest ==
    rcCmd = "verify" /\ rcCmd' = "none" =>
        /\ rcAnswer' = "ok" => \A k \in Blocks : rcHist[k] # {"corrupt"}
        /\ rcAnswer' = "corrupt" => \E k \in Blocks : rcHist[k] \notin {{"good"}, {"absent"}}

\* The count of repo stat, unless it was cancelled, lies between the blocks that
\* were there all the time and those that were there at some time.
RcStatBounds ==
    rcCmd = "stat" /\ rcCmd' = "none" /\ ~rcDone =>
        /\ rcCount >= Cardinality({k \in Blocks : "absent" \notin rcHist[k]})
        /\ rcCount <= Cardinality({k \in Blocks : rcHist[k] # {"absent"}})

\* The answers of repo verify and repo stat, when they come, are about the
\* blocks there were (verifyResultChan, RepoStat).
RcReports == [][RcVerifyHonest /\ RcStatBounds]_rcVars
=============================================================================
