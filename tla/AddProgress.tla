----------------------------- MODULE AddProgress -----------------------------
(***************************************************************************)
(* What the command line does with the events of `ipfs add` (PostRun of    *)
(* AddCmd, core/commands/add.go): one goroutine takes them from the        *)
(* response, a second one prints and moves the progress bar, a third finds *)
(* out the size of what is added; the request may be cancelled.            *)
(***************************************************************************)
EXTENDS AddEvents

CONSTANT PbStreams   \* responses: sequences of events

PbNames == UNION {{in[i].name : i \in DOMAIN in} : in \in PbStreams}

\* The count of a file does not go down, and files that follow each other have
\* different names.
ASSUME ProgressAssumption ==
    /\ <<>> \notin PbNames
    /\ \A in \in PbStreams :
        /\ Len(in) \in Nat /\ in \in [1..Len(in) -> EventsOf(PbNames)]
        /\ \A i, j \in 1..Len(in) :
            ~in[i].added /\ NextCount(in, i, j) /\ in[i].name = in[j].name => in[i].bytes <= in[j].bytes

VARIABLES
    pbIn,       \* what is left of the response
    pbMain,     \* PostRun: idle, next, send, wait, ok, error, cancelled
    pbWhy,      \* what it returns after its deferred calls
    pbOut,      \* outChan is open, or closed
    pbBar,      \* progressBar: idle, select, done
    pbSize,     \* the size: unknown, sent, shown, failed
    pbMode,     \* options: quiet and progress of the request
    pbCtx,      \* whether the request is cancelled
    pbFile,     \* lastFile, lastBytes, prevFiles
    pbTotal,    \* totalProgress
    pbLast,     \* lastHash: the name of what was added last
    pbLines,    \* what is printed
    pbGot       \* the events the bar has had

pbVars == <<pbIn, pbMain, pbWhy, pbOut, pbBar, pbSize, pbMode, pbCtx, pbFile, pbTotal, pbLast, pbLines, pbGot>>

PbModes == [quieter : BOOLEAN, progress : BOOLEAN]
PbOptions == [quiet : BOOLEAN, quieter : BOOLEAN, silent : BOOLEAN, progress : {"unset", "on", "off"}]

\* There is a bar unless the output is to be quiet, or as the option says.
PreRun(o) ==
    [quieter |-> o.quieter,
     progress |-> o.progress = "on" \/ (o.progress = "unset" /\ ~(o.quiet \/ o.quieter \/ o.silent))]

PbTypeOK ==
    /\ pbMain \in {"idle", "next", "send", "wait", "ok", "error", "cancelled"}
    /\ pbWhy \in {"ok", "error", "cancelled"}
    /\ pbOut \in BOOLEAN /\ pbBar \in {"idle", "select", "done"}
    /\ pbSize \in {"unknown", "sent", "shown", "failed"}
    /\ pbMode \in PbModes /\ pbCtx \in BOOLEAN
    /\ pbTotal \in Nat

PbInit ==
    /\ pbIn = <<>> /\ pbMain = "idle" /\ pbWhy = "ok" /\ pbOut = TRUE /\ pbBar = "idle"
    /\ pbSize = "unknown" /\ pbMode = [quieter |-> FALSE, progress |-> FALSE] /\ pbCtx = FALSE
    /\ pbFile = [name |-> <<>>, bytes |-> 0, before |-> 0]
    /\ pbTotal = 0 /\ pbLast = <<>> /\ pbLines = <<>> /\ pbGot = <<>>

-----------------------------------------------------------------------------

\* The goroutines start; with an error for a response there is nothing to show.
PostRun(in, o, failed) ==
    /\ pbMain = "idle"
    /\ pbIn' = in /\ pbMode' = PreRun(o)
    /\ IF failed THEN pbMain' = "error" /\ pbOut' = FALSE /\ UNCHANGED pbBar
       ELSE pbMain' = "next" /\ pbBar' = "select" /\ UNCHANGED pbOut
    /\ UNCHANGED <<pbWhy, pbSize, pbCtx, pbFile, pbTotal, pbLast, pbLines, pbGot>>

\* The deferred calls: outChan is closed before the bar is waited for.
PostReturn_WaitFirst(why) == pbWhy' = why /\ pbMain' = "wait" /\ UNCHANGED pbOut

PostReturn(why) == pbWhy' = why /\ pbMain' = "wait" /\ pbOut' = FALSE

\* res.Next: an event, the end, or an error.
ResNext(broken) ==
    /\ pbMain = "next"
    /\ IF broken \/ pbIn = <<>> THEN PostReturn(IF broken THEN "error" ELSE "ok")
       ELSE pbMain' = "send" /\ UNCHANGED <<pbWhy, pbOut>>
    /\ UNCHANGED <<pbIn, pbBar, pbSize, pbMode, pbCtx, pbFile, pbTotal, pbLast, pbLines, pbGot>>

SendCancelled ==
    /\ pbMain = "send" /\ pbCtx
    /\ PostReturn("cancelled")
    /\ UNCHANGED <<pbIn, pbBar, pbSize, pbMode, pbCtx, pbFile, pbTotal, pbLast, pbLines, pbGot>>

Waited ==
    /\ pbMain = "wait" /\ pbBar = "done"
    /\ pbMain' = pbWhy
    /\ UNCHANGED <<pbIn, pbWhy, pbOut, pbBar, pbSize, pbMode, pbCtx, pbFile, pbTotal, pbLast, pbLines, pbGot>>

\* Something was added: it is printed, or kept for the end.
ShowAdded(e) ==
    /\ pbLast' = e.name
    /\ pbLines' = IF pbMode.quieter THEN pbLines ELSE Append(pbLines, e.name)
    /\ UNCHANGED <<pbFile, pbTotal>>

(* So much of a file is read: another file has begun when the name is      *)
(* another or the count is less than before.                               *)
ShowProgress_NoSum(e) ==
    /\ IF ~pbMode.progress THEN UNCHANGED <<pbFile, pbTotal>>
       ELSE LET before == IF pbFile.name # <<>> /\ e.bytes < pbFile.bytes
                          THEN pbFile.before + pbFile.bytes ELSE pbFile.before IN
            /\ pbFile' = [name |-> e.name, bytes |-> e.bytes, before |-> before]
            /\ pbTotal' = pbTotal + (before + e.bytes - pbTotal)
    /\ UNCHANGED <<pbLast, pbLines>>

ShowProgress(e) ==
    /\ IF ~pbMode.progress THEN UNCHANGED <<pbFile, pbTotal>>
       ELSE LET before == IF pbFile.name # <<>> /\ (e.name # pbFile.name \/ e.bytes < pbFile.bytes)
                          THEN pbFile.before + pbFile.bytes ELSE pbFile.before IN
            /\ pbFile' = [name |-> e.name, bytes |-> e.bytes, before |-> before]
            /\ pbTotal' = pbTotal + (before + e.bytes - pbTotal)
    /\ UNCHANGED <<pbLast, pbLines>>

\* outChan has no buffer: PostRun and the bar meet.
BarEvent ==
    /\ pbMain = "send" /\ pbBar = "select"
    /\ IF Head(pbIn).added THEN ShowAdded(Head(pbIn)) ELSE ShowProgress(Head(pbIn))
    /\ pbIn' = Tail(pbIn) /\ pbGot' = Append(pbGot, Head(pbIn)) /\ pbMain' = "next"
    /\ UNCHANGED <<pbWhy, pbOut, pbBar, pbSize, pbMode, pbCtx>>

\* outChan is closed: with --quieter what was added last is printed.
BarClosed ==
    /\ pbBar = "select" /\ ~pbOut
    /\ pbBar' = "done"
    /\ pbLines' = IF pbMode.quieter THEN Append(pbLines, pbLast) ELSE pbLines
    /\ UNCHANGED <<pbIn, pbMain, pbWhy, pbOut, pbSize, pbMode, pbCtx, pbFile, pbTotal, pbLast, pbGot>>

BarSize ==
    /\ pbBar = "select" /\ pbSize = "sent"
    /\ pbSize' = "shown"
    /\ UNCHANGED <<pbIn, pbMain, pbWhy, pbOut, pbBar, pbMode, pbCtx, pbFile, pbTotal, pbLast, pbLines, pbGot>>

BarCancelled ==
    /\ pbBar = "select" /\ pbCtx
    /\ pbBar' = "done"
    /\ UNCHANGED <<pbIn, pbMain, pbWhy, pbOut, pbSize, pbMode, pbCtx, pbFile, pbTotal, pbLast, pbLines, pbGot>>

\* The goroutine that asks for the size; its channel has room for it.
FindSize(ok) ==
    /\ pbMain # "idle" /\ pbSize = "unknown"
    /\ pbSize' = IF ok THEN "sent" ELSE "failed"
    /\ UNCHANGED <<pbIn, pbMain, pbWhy, pbOut, pbBar, pbMode, pbCtx, pbFile, pbTotal, pbLast, pbLines, pbGot>>

Cancel ==
    /\ pbMain # "idle" /\ ~pbCtx /\ pbCtx' = TRUE
    /\ UNCHANGED <<pbIn, pbMain, pbWhy, pbOut, pbBar, pbSize, pbMode, pbFile, pbTotal, pbLast, pbLines, pbGot>>

PbStep ==
    \/ \E broken \in BOOLEAN : ResNext(broken)
    \/ SendCancelled \/ Waited \/ BarEvent \/ BarClosed \/ BarSize \/ BarCancelled

PbNext ==
    \/ \E in \in PbStreams, o \in PbOptions, failed \in BOOLEAN : PostRun(in, o, failed)
    \/ PbStep \/ Cancel \/ \E ok \in BOOLEAN : FindSize(ok)

\* The goroutines are scheduled and the response ends or goes on.
PbFairness == WF_pbVars(PbStep)

-----------------------------------------------------------------------------
(* Properties.                                                             *)

\* What is printed is what was added, all of it in its order when the command
\* succeeds without being cancelled, and with --quieter the last of it only
\* (progressBar).
LastOf(names) == IF names = <<>> THEN <<>> ELSE names[Len(names)]
PbPrinted ==
    /\ ~pbMode.quieter => pbLines = NamesAdded(pbGot)
    /\ pbMode.quieter => pbLines \in {<<>>, <<LastOf(NamesAdded(pbGot))>>}
    /\ pbMain = "ok" /\ ~pbCtx => pbIn = <<>> /\ (pbMode.quieter => pbLines # <<>>)

\* The progress is the bytes read of every file, the last count of each, when
\* files that follow each other have different names (progressBar).
PbTotalRight == pbTotal = IF pbMode.progress THEN BytesRead(pbGot) ELSE 0

PbSound == PbTypeOK /\ PbPrinted /\ PbTotalRight

\* The command line comes back, however the request ends: neither goroutine waits
\* for the other for ever (PostRun).
PbReturns == (pbMain # "idle") ~> (pbMain \in {"ok", "error", "cancelled"})
=============================================================================
