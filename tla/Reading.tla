------------------------------ MODULE Reading ------------------------------
(***************************************************************************)
(* Commands that read: `ipfs refs` (core/commands/refs.go), a depth-first  *)
(* walk that prunes what it has seen, `ipfs cat` (core/commands/cat.go),   *)
(* which cuts a range out of several files, `ipfs files read`, and the     *)
(* walk of `ipfs files stat --with-local` (core/commands/files.go), which  *)
(* adds up what is local of a DAG.  Each behaviour is one command, its     *)
(* options chosen at first.                                                *)
(***************************************************************************)
EXTENDS Integers, Sequences, FiniteSets

CONSTANTS
    RfCids, RfLinks,    \* a DAG: the links of a CID, in order
    RfRoots,            \* the argument lists of refs
    RfDepths,           \* values of --max-depth; -1 is none
    CtFiles,            \* the argument lists of cat: sizes of files
    CtOffsets, CtMaxes  \* values of --offset and --length; -1 is none

\* A CID is the hash of a node with its links, so links lead to no node above:
\* some height of the nodes falls along each link.
RfDescends(height) == \A c \in RfCids : \A i \in DOMAIN RfLinks[c] : height[RfLinks[c][i]] < height[c]

ASSUME ReadingAssumption ==
    /\ RfLinks \in [RfCids -> Seq(RfCids)] /\ RfRoots \subseteq Seq(RfCids)
    /\ IsFiniteSet(RfCids)
    /\ \E height \in [RfCids -> 0..Cardinality(RfCids) - 1] : RfDescends(height)
    /\ RfDepths \subseteq Nat \cup {-1} /\ CtFiles \subseteq Seq(Nat)
    /\ CtOffsets \subseteq Nat /\ CtMaxes \subseteq Nat \cup {-1}

VARIABLES
    rfRoots,    \* the roots that are left
    rfAll,      \* all roots
    rfUnique, rfMax,    \* the options
    rfStack,    \* frames of writeRefsRecursive: links left
    rfSeen,     \* seen: the depth at which a CID was visited
    rfOut,      \* what has been written
    rfErr       \* a node could not be got

rfVars == <<rfRoots, rfAll, rfUnique, rfMax, rfStack, rfSeen, rfOut, rfErr>>

RfInit ==
    /\ rfRoots \in RfRoots /\ rfAll = rfRoots
    /\ rfUnique \in BOOLEAN /\ rfMax \in RfDepths
    /\ rfStack = <<>> /\ rfSeen = [c \in {} |-> 0] /\ rfOut = <<>> /\ rfErr = FALSE

\* The command: -r gives --max-depth, its absence a depth of one.  The roots
\* are walked in order, with one map of what was seen.
WriteRefs(ok) ==
    /\ rfStack = <<>> /\ rfRoots # <<>>
    /\ rfRoots' = Tail(rfRoots)
    /\ rfStack' = IF ok THEN <<RfLinks[Head(rfRoots)]>> ELSE <<>>
    /\ rfErr' = (rfErr \/ ~ok)
    /\ UNCHANGED <<rfAll, rfUnique, rfMax, rfSeen, rfOut>>

(* visit: whether to go deeper, whether to write, and what has been seen.  *)
(* A CID seen before is visited again when it is nearer to the root now    *)
(* and a depth is given, but not written again.                            *)
Visit_Once(c, depth) ==
    LET over == rfMax >= 0 /\ depth > rfMax
        old == c \in DOMAIN rfSeen
        prune == old
        set == [x \in DOMAIN rfSeen \cup {c} |-> IF x = c THEN depth ELSE rfSeen[x]] IN
    IF over \/ (rfUnique /\ prune) THEN [deeper |-> FALSE, write |-> FALSE, seen |-> rfSeen]
    ELSE [deeper |-> depth # rfMax, write |-> ~rfUnique \/ ~old, seen |-> IF rfUnique THEN set ELSE rfSeen]

Visit(c, depth) ==
    LET over == rfMax >= 0 /\ depth > rfMax
        old == c \in DOMAIN rfSeen
        prune == old /\ (rfMax < 0 \/ rfSeen[c] <= depth)
        set == [x \in DOMAIN rfSeen \cup {c} |-> IF x = c THEN depth ELSE rfSeen[x]] IN
    IF over \/ (rfUnique /\ prune) THEN [deeper |-> FALSE, write |-> FALSE, seen |-> rfSeen]
    ELSE [deeper |-> depth # rfMax, write |-> ~rfUnique \/ ~old, seen |-> IF rfUnique THEN set ELSE rfSeen]

(* One round of the loop over the links.  A CID is marked as seen before   *)
(* it is got; an error ends the walk of this root.                         *)
WriteRefsRecursive(ok) ==
    LET n == Len(rfStack)
        c == Head(rfStack[n])
        v == Visit(c, n)
        rest == [rfStack EXCEPT ![n] = Tail(@)] IN
    /\ n > 0 /\ rfStack[n] # <<>>
    /\ rfSeen' = v.seen
    /\ ok \/ v.write \/ v.deeper
    /\ rfStack' = IF ~ok THEN <<>> ELSE IF v.deeper THEN Append(rest, RfLinks[c]) ELSE rest
    /\ rfOut' = IF ok /\ v.write THEN Append(rfOut, c) ELSE rfOut
    /\ rfErr' = (rfErr \/ ~ok)
    /\ UNCHANGED <<rfRoots, rfAll, rfUnique, rfMax>>

ReturnRefs ==
    LET n == Len(rfStack) IN
    /\ n > 0 /\ rfStack[n] = <<>>
    /\ rfStack' = SubSeq(rfStack, 1, n - 1)
    /\ UNCHANGED <<rfRoots, rfAll, rfUnique, rfMax, rfSeen, rfOut, rfErr>>

RfNext == (\E ok \in BOOLEAN : WriteRefs(ok) \/ WriteRefsRecursive(ok)) \/ ReturnRefs

RfTypeOK ==
    /\ rfStack \in Seq(Seq(RfCids)) /\ rfOut \in Seq(RfCids)
    /\ DOMAIN rfSeen \subseteq RfCids /\ \A c \in DOMAIN rfSeen : rfSeen[c] \in Nat
    /\ Len(rfStack) <= Cardinality(RfCids)

-----------------------------------------------------------------------------
(* cat.  A byte is a file and a place in it.  A reader is the file and the *)
(* places it starts at and ends before.                                    *)

VARIABLES ctFiles, ctAsked, ctNext, ctOffset, ctMax, ctLength, ctReaders, ctDone, ctErr

ctVars == <<ctFiles, ctAsked, ctNext, ctOffset, ctMax, ctLength, ctReaders, ctDone, ctErr>>

CtInit ==
    /\ ctFiles \in CtFiles /\ ctOffset \in CtOffsets /\ ctMax \in CtMaxes
    /\ ctAsked = ctOffset
    /\ ctNext = 1 /\ ctLength = 0 /\ ctReaders = <<>>
    /\ ctDone = (ctMax = 0) /\ ctErr = FALSE

CtStay == UNCHANGED <<ctFiles, ctAsked, ctMax, ctErr>>

\* A file the offset lies behind is skipped.
CatSkip ==
    /\ ~ctDone /\ ctNext <= Len(ctFiles) /\ ctOffset > ctFiles[ctNext]
    /\ ctOffset' = ctOffset - ctFiles[ctNext] /\ ctNext' = ctNext + 1
    /\ UNCHANGED <<ctLength, ctReaders, ctDone>> /\ CtStay

\* A file is read from the offset on; the one that reaches the length asked
\* for is cut, and the last.
CatRead_Whole ==
    LET size == ctFiles[ctNext] - ctOffset
        full == ctMax > 0 /\ ctLength + size >= ctMax
        upTo == IF full THEN ctMax - ctLength ELSE ctFiles[ctNext] IN
    /\ ~ctDone /\ ctNext <= Len(ctFiles) /\ ctOffset <= ctFiles[ctNext]
    /\ ctReaders' = Append(ctReaders, [file |-> ctNext, from |-> ctOffset, upTo |-> upTo])
    /\ ctLength' = (IF full THEN ctMax ELSE ctLength + size)
    /\ ctOffset' = 0 /\ ctNext' = ctNext + 1 /\ ctDone' = full /\ CtStay

CatRead ==
    LET size == ctFiles[ctNext] - ctOffset
        full == ctMax > 0 /\ ctLength + size >= ctMax
        overshoot == IF full THEN ctLength + size - ctMax ELSE 0 IN
    /\ ~ctDone /\ ctNext <= Len(ctFiles) /\ ctOffset <= ctFiles[ctNext]
    /\ ctReaders' = Append(ctReaders, [file |-> ctNext, from |-> ctOffset,
                                       upTo |-> ctFiles[ctNext] - overshoot])
    /\ ctLength' = (IF full THEN ctMax ELSE ctLength + size)
    /\ ctOffset' = 0 /\ ctNext' = ctNext + 1 /\ ctDone' = full /\ CtStay

CatEnd ==
    /\ ~ctDone /\ ctNext > Len(ctFiles) /\ ctDone' = TRUE
    /\ UNCHANGED <<ctOffset, ctNext, ctLength, ctReaders>> /\ CtStay

\* A path that cannot be got, is no file or cannot be read ends the command.
CatFails ==
    /\ ~ctDone /\ ctNext <= Len(ctFiles) /\ ctDone' = TRUE /\ ctErr' = TRUE
    /\ UNCHANGED <<ctFiles, ctAsked, ctMax, ctOffset, ctNext, ctLength, ctReaders>>

\* filesReadCmd: the bytes of one file from the offset on, count of them at
\* most (-1: none given).  An offset behind the end is refused; so are
\* negative numbers.
FilesRead(size, offset, count) ==
    [ok |-> offset <= size, from |-> offset,
     upTo |-> IF count >= 0 /\ offset + count < size THEN offset + count ELSE size]

CtNext == CatSkip \/ CatRead \/ CatEnd \/ CatFails

CtTypeOK == ctOffset \in Nat /\ ctLength \in Nat /\ ctNext \in 1..Len(ctFiles) + 1

-----------------------------------------------------------------------------
(* files stat --with-local: walkBlock, over the blocks that are local.     *)
(* Others may store and remove blocks meanwhile.                           *)

CONSTANTS WkSizes,     \* the size of every block of the DAG RfLinks
          WkTsizes,    \* what each link says of the size of the DAG below it
          MaxBlockOps  \* blocks stored and removed meanwhile (a bound)

ASSUME WalkAssumption ==
    /\ WkSizes \in [RfCids -> Nat \ {0}] /\ MaxBlockOps \in Nat
    /\ WkTsizes \in [RfCids -> Seq(Nat)] /\ \A c \in RfCids : Len(WkTsizes[c]) = Len(RfLinks[c])

VARIABLES wkHave,      \* local blocks
          wkStack,     \* frames of walkBlock: [c, left, local, size]
          wkOut,       \* the answer: st is "none", "error", "plain" or "done" (with locality)
          wkOps        \* blocks stored and removed since the walk began

wkVars == <<wkHave, wkStack, wkOut, wkOps>>

\* The sizes below c added up link by link, a block as often as it is linked
\* to; and the part of that which H has.
WkTotal(s) ==
    LET upTo[n \in 0..Len(s)] == IF n = 0 THEN 0 ELSE upTo[n - 1] + s[n]
    IN upTo[Len(s)]
WkSum(H, c) ==
    LET sum[x \in RfCids] ==
            WkSizes[x] + WkTotal([i \in 1..Len(RfLinks[x]) |-> IF RfLinks[x][i] \in H THEN sum[RfLinks[x][i]] ELSE 0])
    IN sum[c]

NoAnswer(st) == [st |-> st, root |-> "none", cumulative |-> 0, local |-> FALSE, size |-> 0]

\* statNode: nd.Size adds to the node's own size what its links say, which
\* whoever made the node wrote there; a node that is no file and no directory
\* is refused.
StatNode(root) ==
    [NoAnswer("plain") EXCEPT !.root = root, !.cumulative = WkSizes[root] + WkTotal(WkTsizes[root])]

Walked(r) == [StatNode(r.c) EXCEPT !.st = "done", !.local = r.local, !.size = r.size]
Frame(c) == [c |-> c, left |-> RfLinks[c], local |-> TRUE, size |-> WkSizes[c]]

WkInit ==
    /\ wkHave \in SUBSET RfCids
    /\ wkStack = <<>> /\ wkOut = NoAnswer("none") /\ wkOps = 0

\* filesStatCmd: the node itself is got with the network's help (and stored);
\* the walk, when it is asked for, asks the local blocks only.
FilesStatCmd(root, withLocal, ok) ==
    /\ wkOut.st = "none" /\ wkStack = <<>>
    /\ wkHave' = IF ok THEN wkHave \cup {root} ELSE wkHave
    /\ wkStack' = IF ok /\ withLocal THEN <<Frame(root)>> ELSE <<>>
    /\ wkOut' = IF ~ok THEN NoAnswer("error") ELSE IF withLocal THEN wkOut ELSE StatNode(root)
    /\ UNCHANGED wkOps

\* The next link of the innermost call.  A block that is not there is noted
\* and passed over; any other error ends the command.
WalkBlock(ok) ==
    LET n == Len(wkStack)
        c == Head(wkStack[n].left)
        rest == [wkStack EXCEPT ![n].left = Tail(@)] IN
    /\ n > 0 /\ wkStack[n].left # <<>>
    /\ wkStack' = IF ~ok THEN <<>>
                  ELSE IF c \in wkHave THEN Append(rest, Frame(c))
                  ELSE [rest EXCEPT ![n].local = FALSE]
    /\ wkOut' = IF ok THEN wkOut ELSE NoAnswer("error")
    /\ UNCHANGED <<wkHave, wkOps>>

\* Mutant: the answer of a child overwrites what is known of its siblings.
WalkReturn_Last ==
    LET n == Len(wkStack)
        top == wkStack[n] IN
    /\ n > 0 /\ top.left = <<>>
    /\ wkStack' = [k \in 1..n - 1 |-> IF k < n - 1 THEN wkStack[k]
                                      ELSE [wkStack[k] EXCEPT !.local = top.local, !.size = @ + top.size]]
    /\ wkOut' = IF n = 1 THEN Walked(top) ELSE wkOut
    /\ UNCHANGED <<wkHave, wkOps>>

WalkReturn ==
    LET n == Len(wkStack)
        top == wkStack[n] IN
    /\ n > 0 /\ top.left = <<>>
    /\ wkStack' = [k \in 1..n - 1 |-> IF k < n - 1 THEN wkStack[k]
                                      ELSE [wkStack[k] EXCEPT !.local = @ /\ top.local, !.size = @ + top.size]]
    /\ wkOut' = IF n = 1 THEN Walked(top) ELSE wkOut
    /\ UNCHANGED <<wkHave, wkOps>>

\* A block is fetched, or collected.
WkBlock(c) ==
    /\ wkStack # <<>> /\ wkOps < MaxBlockOps /\ wkOps' = wkOps + 1
    /\ wkHave' = IF c \in wkHave THEN wkHave \ {c} ELSE wkHave \cup {c}
    /\ UNCHANGED <<wkStack, wkOut>>

WkNext ==
    \/ \E c \in RfCids, withLocal, ok \in BOOLEAN : FilesStatCmd(c, withLocal, ok)
    \/ \E c \in RfCids : WkBlock(c)
    \/ \E ok \in BOOLEAN : WalkBlock(ok)
    \/ WalkReturn

WkTypeOK ==
    /\ wkHave \subseteq RfCids /\ wkOps \in 0..MaxBlockOps
    /\ \A k \in DOMAIN wkStack : wkStack[k].c \in RfCids /\ wkStack[k].size \in Nat
    /\ Len(wkStack) <= Cardinality(RfCids)

-----------------------------------------------------------------------------
(* Properties.                                                             *)

\* What lies at most d links below c.
RfBelow[d \in 0..Cardinality(RfCids)] ==
    [c \in RfCids |->
        IF d = 0 THEN {} ELSE UNION {{RfLinks[c][i]} \cup RfBelow[d - 1][RfLinks[c][i]] : i \in DOMAIN RfLinks[c]}]

\* refs writes all that lies within the depth below its roots and no more, and
\* with --unique each CID once, although it prunes what it has seen and comes
\* to a CID on paths of several lengths.
RfRight ==
    rfRoots = <<>> /\ rfStack = <<>> /\ ~rfErr =>
        LET depth == IF rfMax \in 0..Cardinality(RfCids) THEN rfMax ELSE Cardinality(RfCids)
            wanted == UNION {RfBelow[depth][rfAll[i]] : i \in DOMAIN rfAll} IN
        /\ {rfOut[i] : i \in DOMAIN rfOut} = wanted
        /\ rfUnique => Len(rfOut) = Cardinality(wanted)

\* The bytes of the arguments one after the other.
CtPositions == UNION {{[file |-> f, at |-> p] : p \in 0..ctFiles[f] - 1} : f \in DOMAIN ctFiles}
CtBefore(b) == Cardinality({x \in CtPositions : x.file < b.file \/ (x.file = b.file /\ x.at < b.at)})

\* cat, unless it fails, returns exactly the bytes asked for of the files put
\* together, and says how many they are, wherever offset and length fall; and
\* files read, unless it refuses the offset, the same of one file.
CtRight ==
    ctDone /\ ~ctErr =>
        LET wanted == {b \in CtPositions : CtBefore(b) >= ctAsked
                                           /\ (ctMax < 0 \/ CtBefore(b) < ctAsked + ctMax)}
            got == {b \in CtPositions : \E i \in DOMAIN ctReaders :
                        ctReaders[i].file = b.file /\ b.at \in ctReaders[i].from..ctReaders[i].upTo - 1} IN
        /\ got = wanted /\ ctLength = Cardinality(wanted)
        /\ LET r == FilesRead(ctFiles[1], ctAsked, ctMax)
           IN Len(ctFiles) = 1 /\ r.ok => wanted = {[file |-> 1, at |-> p] : p \in r.from..r.upTo - 1}

\* Do the links of c say the size of what is below them?
Honest(c) == \A i \in DOMAIN RfLinks[c] : WkTsizes[c][i] = WkSum(RfCids, RfLinks[c][i])

\* files stat never claims more to be local than there is, it says Local exactly
\* when it has counted all of it, whatever arrives or vanishes during the walk,
\* and when nothing does it counts what is there (walkBlock).  What it shows beside
\* that as the whole, CumulativeSize, is the whole if the links of the node are
\* honest; if not, SizeLocal of a DAG that is Local may be more or less than it.
WkRight ==
    wkOut.st = "done" =>
        LET whole == WkSum(RfCids, wkOut.root) IN
        /\ wkOut.size <= whole
        /\ wkOut.local <=> wkOut.size = whole
        /\ wkOps = 0 => wkOut.size = WkSum(wkHave, wkOut.root)
        /\ Honest(wkOut.root) => wkOut.cumulative = whole

\* What refs, cat, files read and files stat answer is what was asked for.
ReadsRight == RfTypeOK /\ CtTypeOK /\ WkTypeOK /\ RfRight /\ CtRight /\ WkRight
=============================================================================
