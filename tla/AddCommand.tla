----------------------------- MODULE AddCommand -----------------------------
(***************************************************************************)
(* `ipfs add` (core/commands/add.go): the command on the node, the adder   *)
(* that works beside it and reports on a bounded channel, the collector    *)
(* that waits for the adder's pin lock, and what the command line shows.   *)
(* What is stored and pinned is in GarbageCollection.                      *)
(***************************************************************************)
EXTENDS AddEvents

CONSTANTS
    AcEntries,               \* req.Files: per argument its name, dir, and its files (name, size, link)
    AcDests,                 \* values of --to-files; "none" when it is not given
    adderOutChanSize,
    progressReaderIncrement

IsSeq(s) == Len(s) \in Nat /\ s = [i \in 1..Len(s) |-> s[i]]

ASSUME AddAssumption ==
    /\ adderOutChanSize \in Nat \ {0} /\ progressReaderIncrement \in Nat \ {0}
    /\ AcDests # {}
    /\ IsSeq(AcEntries)
    /\ \A i \in 1..Len(AcEntries) :
        LET e == AcEntries[i] IN e.dir \in BOOLEAN /\ IsSeq(e.files) /\ (e.dir \/ Len(e.files) = 1)

VARIABLES
    acRun,      \* the command: idle, iter, range, ok, error
    acOpts,     \* its options
    acEntry,    \* the argument at hand
    acChan,     \* events: what is in the channel, and whether it is closed
    acErr,      \* errCh: none, ok, error
    acAdder,    \* the goroutine: where it is, the file it adds, how far it has read it
    acLock,     \* whether the adder holds the pin lock
    acGc,       \* the collector: no, wants, has
    acMfs,      \* what --to-files has to know of MFS: the names taken there
    acPut,      \* fileAddedToMFS
    acSent,     \* what the client got
    acGone      \* whether the client has gone

acVars == <<acRun, acOpts, acEntry, acChan, acErr, acAdder, acLock, acGc, acMfs, acPut, acSent, acGone>>

AcOptions == [pin : BOOLEAN, onlyHash : BOOLEAN, progress : BOOLEAN, silent : BOOLEAN, dest : AcDests]

\* With --only-hash the adder works on a node without a repository and pins nothing.
Pins == acOpts.pin /\ ~acOpts.onlyHash

Entry == AcEntries[acEntry]
File == Entry.files[acAdder.file]

NoAdder == [pc |-> "idle", file |-> 1, bytes |-> 0, last |-> 0]

AcTypeOK ==
    /\ acRun \in {"idle", "iter", "range", "ok", "error"}
    /\ acOpts \in AcOptions
    /\ acEntry \in 1..(Len(AcEntries) + 1)
    /\ Len(acChan.queue) <= adderOutChanSize /\ acChan.closed \in BOOLEAN
    /\ acErr \in {"none", "ok", "error"}
    /\ acAdder.pc \in {"idle", "lock", "file", "relock", "read", "node", "dirs", "finish", "files"}
    /\ acLock \in BOOLEAN /\ acGc \in {"no", "wants", "has"}
    /\ acPut \in BOOLEAN /\ acGone \in BOOLEAN

AcInit ==
    /\ acRun = "idle" /\ acOpts = (CHOOSE o \in AcOptions : TRUE) /\ acEntry = 1
    /\ acChan = [queue |-> <<>>, closed |-> FALSE] /\ acErr = "none"
    /\ acAdder = NoAdder /\ acLock = FALSE /\ acGc = "no"
    /\ acMfs = {} /\ acPut = FALSE /\ acSent = <<>> /\ acGone = FALSE

-----------------------------------------------------------------------------
(* The events of an adder: how much of a file is read, and what was added. *)
(* The command gives them their names: that of the argument for a file,    *)
(* below it for a directory.                                               *)

EntryName(sub) == IF Entry.dir THEN <<Entry.name>> \o sub ELSE <<Entry.name>>

Send(e) ==
    /\ Len(acChan.queue) < adderOutChanSize
    /\ acChan' = [acChan EXCEPT !.queue = Append(@, e)]

-----------------------------------------------------------------------------
(* UnixfsAPI.Add and the adder, in a goroutine of the command.             *)

\* The goroutine ends: the result is in errCh before the channel is closed.
AdderOver(result) ==
    /\ acErr' = result
    /\ acChan' = [acChan EXCEPT !.closed = TRUE]
    /\ acAdder' = NoAdder

\* A file is read; a symbolic link (addSymlink) has nothing to read.
AddKind == IF File.link THEN "node" ELSE "read"

\* AddAllAndPin takes the pin lock, which waits for a collector that wants it.
AdderLock ==
    /\ acAdder.pc \in {"lock", "relock"}
    /\ Pins => acGc = "no"
    /\ acLock' = Pins
    /\ acAdder' = [acAdder EXCEPT !.pc = IF acAdder.pc = "relock" THEN AddKind
                                         ELSE IF Entry.files = <<>> THEN "dirs" ELSE "file"]
    /\ UNCHANGED <<acRun, acOpts, acEntry, acChan, acErr, acGc, acMfs, acPut, acSent, acGone>>

\* addFileNode first lets a collector run (maybePauseForGC).
AdderFile ==
    /\ acAdder.pc = "file"
    /\ LET pause == acLock /\ acGc = "wants" IN
        /\ acLock' = (acLock /\ ~pause)
        /\ acAdder' = [acAdder EXCEPT !.pc = IF pause THEN "relock" ELSE AddKind]
    /\ UNCHANGED <<acRun, acOpts, acEntry, acChan, acErr, acGc, acMfs, acPut, acSent, acGone>>

\* progressReader.Read: a unit of the file, or its end.
AdderRead ==
    /\ acAdder.pc = "read"
    /\ LET eof == acAdder.bytes = File.size
           bytes == IF eof THEN acAdder.bytes ELSE acAdder.bytes + 1
           report == acOpts.progress /\ (eof \/ bytes - acAdder.last >= progressReaderIncrement) IN
        /\ acAdder' = [acAdder EXCEPT !.bytes = bytes, !.last = IF report THEN bytes ELSE @,
                                      !.pc = IF eof THEN "node" ELSE "read"]
        /\ IF report THEN Send(AddEvent(EntryName(<<File.name>>), FALSE, bytes))
           ELSE UNCHANGED acChan
    /\ UNCHANGED <<acRun, acOpts, acEntry, acErr, acLock, acGc, acMfs, acPut, acSent, acGone>>

\* addNode, and the next file of addDir.
AdderNode ==
    /\ acAdder.pc = "node"
    /\ IF acOpts.silent THEN UNCHANGED acChan
       ELSE Send(AddEvent(EntryName(<<File.name>>), TRUE, 0))
    /\ acAdder' = IF acAdder.file = Len(Entry.files) THEN [NoAdder EXCEPT !.pc = "dirs"]
                  ELSE [NoAdder EXCEPT !.pc = "file", !.file = acAdder.file + 1]
    /\ UNCHANGED <<acRun, acOpts, acEntry, acErr, acLock, acGc, acMfs, acPut, acSent, acGone>>

\* outputDirs, for a directory: whether or not the add is silent.
AdderDirs ==
    /\ acAdder.pc = "dirs"
    /\ IF Entry.dir THEN Send(AddEvent(EntryName(<<>>), TRUE, 0)) ELSE UNCHANGED acChan
    /\ acAdder' = [NoAdder EXCEPT !.pc = "finish"]
    /\ UNCHANGED <<acRun, acOpts, acEntry, acErr, acLock, acGc, acMfs, acPut, acSent, acGone>>

\* The root is pinned, AddAllAndPin unlocks, and the root is provided.
AdderFinish ==
    /\ acAdder.pc = "finish"
    /\ acLock' = FALSE
    /\ IF acOpts.dest = "none" THEN AdderOver("ok")
       ELSE acAdder' = [NoAdder EXCEPT !.pc = "files"] /\ UNCHANGED <<acErr, acChan>>
    /\ UNCHANGED <<acRun, acOpts, acEntry, acGc, acMfs, acPut, acSent, acGone>>

\* An error of the options, of a file that is read or of the store; the lock is
\* given back.
AdderFail_Locked ==
    /\ acAdder.pc \in {"lock", "file", "read", "node", "dirs", "finish", "files"}
    /\ AdderOver("error")
    /\ UNCHANGED <<acRun, acOpts, acEntry, acLock, acGc, acMfs, acPut, acSent, acGone>>

AdderFail ==
    /\ acAdder.pc \in {"lock", "file", "read", "node", "dirs", "finish", "files"}
    /\ acLock' = FALSE
    /\ AdderOver("error")
    /\ UNCHANGED <<acRun, acOpts, acEntry, acGc, acMfs, acPut, acSent, acGone>>

(* --to-files.  The destination is a directory, to which the name of the   *)
(* argument is added, or a file in an existing directory; or its path is   *)
(* invalid, a directory that is missing or no directory, or below one that *)
(* is missing.  A file takes one argument only, and MFS replaces nothing.  *)
(* After --only-hash the node has to come from the network, and may not.   *)
ToFilesName == IF acOpts.dest = "dir" THEN Entry.name ELSE acOpts.dest

ToFiles_Again ==
    /\ acAdder.pc = "files"
    /\ IF acOpts.dest \in {"dir", "new"}
       THEN acMfs' = acMfs \cup {ToFilesName} /\ acPut' = TRUE /\ AdderOver("ok")
       ELSE UNCHANGED <<acMfs, acPut>> /\ AdderOver("error")
    /\ UNCHANGED <<acRun, acOpts, acEntry, acLock, acGc, acSent, acGone>>

ToFiles ==
    /\ acAdder.pc = "files"
    /\ IF acOpts.dest \in {"dir", "new"} /\ ~(acPut /\ acOpts.dest = "new") /\ ToFilesName \notin acMfs
       THEN acMfs' = acMfs \cup {ToFilesName} /\ acPut' = TRUE /\ AdderOver("ok")
       ELSE UNCHANGED <<acMfs, acPut>> /\ AdderOver("error")
    /\ UNCHANGED <<acRun, acOpts, acEntry, acLock, acGc, acSent, acGone>>

-----------------------------------------------------------------------------
(* AddCmd.Run.                                                             *)

AddCmd(o) ==
    /\ acRun = "idle" /\ acRun' = "iter" /\ acOpts' = o
    /\ UNCHANGED <<acEntry, acChan, acErr, acAdder, acLock, acGc, acMfs, acPut, acSent, acGone>>

\* The next argument: new channels and a new goroutine.
RunNext ==
    /\ acRun = "iter" /\ acEntry <= Len(AcEntries)
    /\ acRun' = "range"
    /\ acChan' = [queue |-> <<>>, closed |-> FALSE] /\ acErr' = "none"
    /\ acAdder' = [NoAdder EXCEPT !.pc = "lock"]
    /\ UNCHANGED <<acOpts, acEntry, acLock, acGc, acMfs, acPut, acSent, acGone>>

\* No argument is left: that is an error when there was none.
RunEnd ==
    /\ acRun = "iter" /\ acEntry > Len(AcEntries)
    /\ acRun' = IF AcEntries = <<>> THEN "error" ELSE "ok"
    /\ UNCHANGED <<acOpts, acEntry, acChan, acErr, acAdder, acLock, acGc, acMfs, acPut, acSent, acGone>>

\* An option is wrong, or addit.Err: the arguments could not be read to their end.
RunBroken ==
    /\ acRun = "iter" /\ acRun' = "error"
    /\ UNCHANGED <<acOpts, acEntry, acChan, acErr, acAdder, acLock, acGc, acMfs, acPut, acSent, acGone>>

\* An event is emitted; when that fails the command returns at once.
RunEvent(ok) ==
    /\ acRun = "range" /\ acChan.queue # <<>>
    /\ ok \/ acGone
    /\ acChan' = [acChan EXCEPT !.queue = Tail(@)]
    /\ IF ok THEN acSent' = Append(acSent, Head(acChan.queue)) /\ UNCHANGED acRun
       ELSE acRun' = "error" /\ UNCHANGED acSent
    /\ UNCHANGED <<acOpts, acEntry, acErr, acAdder, acLock, acGc, acMfs, acPut, acGone>>

\* The channel is closed and empty, so errCh has the result.
RunErr_Early ==
    /\ acRun = "range" /\ acErr # "none"
    /\ IF acErr = "ok" THEN acRun' = "iter" /\ acEntry' = acEntry + 1
       ELSE acRun' = "error" /\ UNCHANGED acEntry
    /\ UNCHANGED <<acOpts, acChan, acErr, acAdder, acLock, acGc, acMfs, acPut, acSent, acGone>>

RunErr ==
    /\ acRun = "range" /\ acChan = [queue |-> <<>>, closed |-> TRUE]
    /\ IF acErr = "ok" THEN acRun' = "iter" /\ acEntry' = acEntry + 1
       ELSE acRun' = "error" /\ UNCHANGED acEntry
    /\ UNCHANGED <<acOpts, acChan, acErr, acAdder, acLock, acGc, acMfs, acPut, acSent, acGone>>

\* The client goes away; what is emitted fails from some time on.
ClientGoes ==
    /\ ~acGone /\ acGone' = TRUE
    /\ UNCHANGED <<acRun, acOpts, acEntry, acChan, acErr, acAdder, acLock, acGc, acMfs, acPut, acSent>>

\* A collector asks for the lock, gets it when no pin lock is held, and is done.
Collector ==
    /\ \/ acGc = "no" /\ acGc' = "wants" /\ acRun # "idle"
       \/ acGc = "wants" /\ ~acLock /\ acGc' = "has"
       \/ acGc = "has" /\ acGc' = "no"
    /\ UNCHANGED <<acRun, acOpts, acEntry, acChan, acErr, acAdder, acLock, acMfs, acPut, acSent, acGone>>

AdderStep == AdderLock \/ AdderFile \/ AdderRead \/ AdderNode \/ AdderDirs \/ AdderFinish \/ ToFiles

RunStep == RunNext \/ RunEnd \/ RunErr \/ \E ok \in BOOLEAN : RunEvent(ok)

AcNext ==
    \/ \E o \in AcOptions : AddCmd(o)
    \/ AdderStep \/ AdderFail \/ RunStep \/ RunBroken \/ ClientGoes \/ Collector

(* The goroutines are scheduled.  A collection ends, and one that wants    *)
(* the lock is served; whether there is another is open.                   *)
AcFairness ==
    /\ WF_acVars(AdderStep /\ ~(acAdder.pc = "files" /\ acOpts.onlyHash))
    /\ WF_acVars(RunStep)
    /\ WF_acVars(Collector /\ acGc # "no")

-----------------------------------------------------------------------------
(* Properties.                                                             *)

\* The adder can go on no more: its channel is full and nobody reads it.
AcStuck ==
    /\ acRun \in {"ok", "error"} /\ acGone
    /\ Len(acChan.queue) = adderOutChanSize /\ acAdder.pc \in {"read", "node", "dirs"}

\* When ipfs add succeeds, the client was told of every file and directory once,
\* a directory after what is in it, unless the add was silent (AddCmd.Run, outputDirs).
FilesOf(e, n) == [j \in 1..n |-> IF e.dir THEN <<e.name, e.files[j].name>> ELSE <<e.name>>]
AddedOf(silent, e) ==
    (IF silent THEN <<>> ELSE FilesOf(e, Len(e.files))) \o (IF e.dir THEN <<<<e.name>>>> ELSE <<>>)
AddedTo(silent) ==
    LET upTo[n \in 0..Len(AcEntries)] ==
            IF n = 0 THEN <<>> ELSE upTo[n - 1] \o AddedOf(silent, AcEntries[n])
    IN  upTo
AcAllTold == acRun = "ok" => NamesAdded(acSent) = AddedTo(acOpts.silent)[Len(AcEntries)]

\* The pin lock is held only while the command runs or after its client has gone
\* (AddAllAndPin in the goroutine of AddCmd.Run).
AcLockHeld == acLock => acRun = "range" \/ (acRun = "error" /\ acGone)

\* A file given to --to-files gets one argument at most, and one that succeeded
\* has put every argument there (AddCmd.Run).
AcToFiles ==
    /\ acOpts.dest = "new" /\ acRun = "ok" => Len(AcEntries) = 1
    /\ acRun = "ok" /\ acOpts.dest = "dir" => acMfs = {AcEntries[i].name : i \in 1..Len(AcEntries)}

AcSound == AcTypeOK /\ AcAllTold /\ AcLockHeld /\ AcToFiles

\* A collector that asks for the lock gets it, also when the add fails or its
\* client goes, unless the adder is then stuck on a full channel with the lock.
AcCollects == (acGc = "wants") ~> (acGc = "has" \/ AcStuck)
=============================================================================
