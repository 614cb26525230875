---------------------------- MODULE PinCommands ----------------------------
(***************************************************************************)
(* `ipfs pin add, rm, update, ls, verify` (core/commands/pin/pin.go) and   *)
(* the parts of core/coreapi/pin.go they call.  A command takes its        *)
(* arguments one by one and a listing reads the recursive and the direct   *)
(* pins one after the other, so other commands run in between; a           *)
(* verification goes through the DAG block by block while blocks come and  *)
(* go.  What each running command could have seen is kept beside it, and   *)
(* the answers are compared with that.                                     *)
(*                                                                         *)
(* The pinner (go-ipfs-pinner) is external: one call is one step.  Its     *)
(* locks and the collector's are the subject of GarbageCollection.         *)
(***************************************************************************)
EXTENDS Integers, Sequences, FiniteSets

CONSTANTS
    PnCids, PnLinks,    \* a DAG: the links of a CID, in order
    PnInvalid,          \* CIDs whose hash function is not accepted
    PnReaders, PnWriters,   \* who runs the commands that list and verify, and the others
    PnArgs,             \* the argument lists of add, rm and ls
    PnStarts,           \* the pins there may be at first: recursive, direct
    MaxPinCmds,         \* commands of a behaviour (a bound)
    MaxBlockEvents      \* how often blocks come or go on their own (a bound)

ASSUME PinAssumption ==
    /\ IsFiniteSet(PnCids) /\ PnLinks \in [PnCids -> Seq(PnCids)] /\ PnInvalid \subseteq PnCids
    /\ PnArgs \subseteq Seq(PnCids) /\ PnStarts \subseteq (SUBSET PnCids) \X (SUBSET PnCids)
    /\ MaxPinCmds \in Nat /\ MaxBlockEvents \in Nat

VARIABLES
    pnRec, pnDir,   \* the pins
    pnHave,         \* the blocks on disk
    pnJob,          \* the command of each client
    pnSaw,          \* what was so from the beginning of it, and what was at some time
    pnRuns, pnEvents

PnClients == PnReaders \cup PnWriters

pnVars == <<pnRec, pnDir, pnHave, pnJob, pnSaw, pnRuns, pnEvents>>

Images(s) == {s[i] : i \in DOMAIN s}

\* The DAG below a CID, itself included: what every set has that has the CID
\* and the links of its members.
PnReach == [c \in PnCids |->
    {d \in PnCids : \A X \in SUBSET PnCids :
        c \in X /\ (\A x \in X : Images(PnLinks[x]) \subseteq X) => d \in X}]
PnBelow(S) == UNION {PnReach[d] : d \in UNION {Images(PnLinks[c]) : c \in S}}

Status == [ok : BOOLEAN, bad : SUBSET PnCids]
NoOut == [c \in {} |-> "none"]
(* A command: where it is and with which option; the arguments that are    *)
(* left and all of them; what it has read and found; once it is done,      *)
(* whether it succeeded and where it ended.                                *)
Idle == [op |-> "idle", opt |-> "none", todo |-> <<>>, args |-> <<>>, keys |-> {}, out |-> NoOut,
         stack |-> <<>>, ok |-> TRUE, was |-> "idle"]

\* Only pin verify looks at the blocks.
Now(blocks) == [rec |-> pnRec, dir |-> pnDir, have |-> blocks,
                everRec |-> pnRec, everDir |-> pnDir, everHave |-> blocks]

Running(c) == pnJob[c].op \notin {"idle", "done"}

PnTypeOK ==
    /\ pnRec \subseteq PnCids /\ pnDir \subseteq PnCids /\ pnHave \subseteq PnCids
    /\ \A c \in PnClients :
        /\ DOMAIN pnJob[c].out \subseteq PnCids
        /\ pnJob[c].op = "verify" => \A d \in DOMAIN pnJob[c].out : pnJob[c].out[d] \in Status
        /\ pnSaw[c].rec \subseteq pnSaw[c].everRec
    /\ pnRuns \in 0..MaxPinCmds /\ pnEvents \in 0..MaxBlockEvents

PnInit ==
    /\ \E s \in PnStarts : pnRec = s[1] /\ pnDir = s[2]
    /\ pnHave = PnCids
    /\ pnJob = [c \in PnClients |-> Idle] /\ pnSaw = [c \in PnClients |-> Now({})]
    /\ pnRuns = 0 /\ pnEvents = 0

(* Every step that changes pins or blocks is noted beside the commands     *)
(* that run.                                                               *)
Noted == \E now \in {[rec |-> pnRec', dir |-> pnDir', have |-> pnHave']} :
    pnSaw' = [c \in PnClients |->
        IF ~Running(c) THEN pnSaw[c]
        ELSE LET s == pnSaw[c] IN
             [rec |-> s.rec \cap now.rec, dir |-> s.dir \cap now.dir, have |-> s.have \cap now.have,
              everRec |-> s.everRec \cup now.rec, everDir |-> s.everDir \cup now.dir,
              everHave |-> s.everHave \cup (IF pnJob[c].op \in {"verify", "verifying"} THEN now.have ELSE {})]]

SetJob(c, j) == pnJob' = [pnJob EXCEPT ![c] = j]
PnStep(c, j) == SetJob(c, j) /\ UNCHANGED <<pnRec, pnDir, pnHave, pnSaw, pnRuns, pnEvents>>
PnEnd(j, ok) == [j EXCEPT !.op = "done", !.ok = ok, !.was = j.op]

-----------------------------------------------------------------------------
(* The pinner.                                                             *)

\* Pin fetches what is missing, which may fail after some blocks have come.
PinnerPin(d, recursive, ok) ==
    IF recursive
    THEN IF d \in pnRec THEN ok /\ UNCHANGED <<pnRec, pnDir, pnHave>>
         ELSE \E S \in {{}, {d}, PnReach[d]} :
                /\ pnHave' = pnHave \cup S
                /\ ok => S = PnReach[d]
                /\ pnRec' = IF ok THEN pnRec \cup {d} ELSE pnRec
                /\ pnDir' = IF ok THEN pnDir \ {d} ELSE pnDir
    ELSE /\ ok = (d \notin pnRec)
         /\ pnDir' = (IF ok THEN pnDir \cup {d} ELSE pnDir)
         /\ pnHave' = pnHave \cup {d}
         /\ UNCHANGED pnRec

PinnerUnpin(d, recursive, ok) ==
    /\ ok = ((d \in pnRec /\ recursive) \/ (d \notin pnRec /\ d \in pnDir))
    /\ pnRec' = (IF ok THEN pnRec \ {d} ELSE pnRec)
    /\ pnDir' = (IF ok THEN pnDir \ {d} ELSE pnDir)
    /\ UNCHANGED pnHave

\* Update gets what differs: of the branches that `from` has too it may skip any.
PinnerUpdate(from, to, unpin, ok) ==
    IF ok /\ from = to THEN from \in pnRec /\ UNCHANGED <<pnRec, pnDir, pnHave>>
    ELSE /\ ok => from \in pnRec /\ to \notin pnRec
         /\ pnRec' = (IF ok THEN (pnRec \cup {to}) \ (IF unpin THEN {from} ELSE {}) ELSE pnRec)
         /\ \E S \in {PnReach[to] \ PnReach[from], PnReach[to]} :
                pnHave' = (IF ok THEN pnHave \cup {from, to} \cup S ELSE pnHave)
         /\ UNCHANGED pnDir

\* IsPinnedWithType.
PinType(d, mode) ==
    IF mode \in {"all", "recursive"} /\ d \in pnRec THEN "recursive"
    ELSE IF mode \in {"all", "direct"} /\ d \in pnDir THEN "direct"
    ELSE IF mode \in {"all", "indirect"} /\ d \in PnBelow(pnRec) THEN "indirect"
    ELSE "none"

-----------------------------------------------------------------------------
(* The commands.                                                           *)

PnBegin(c, op, opt, args) ==
    /\ ~Running(c) /\ pnRuns < MaxPinCmds
    /\ pnRuns' = pnRuns + 1
    /\ SetJob(c, [Idle EXCEPT !.op = op, !.opt = opt, !.todo = args, !.args = args])
    /\ pnSaw' = [pnSaw EXCEPT ![c] = Now(IF op = "verify" THEN pnHave ELSE {})]
    /\ UNCHANGED <<pnRec, pnDir, pnHave, pnEvents>>

AddPinCmd(c, paths, recursive) == PnBegin(c, "add", recursive, paths)
RmPinCmd(c, paths, recursive) == PnBegin(c, "rm", recursive, paths)
UpdatePinCmd(c, paths, unpin) == Len(paths) = 2 /\ PnBegin(c, "update", unpin, paths)
ListPinCmd(c, paths, type) == PnBegin(c, IF paths = <<>> THEN "ls" ELSE "lsKeys", type, paths)
VerifyPinCmd(c, verbose) == PnBegin(c, "verify", verbose, <<>>)

\* PinAPI.Verify, the same walk for other clients of the API.
VerifyAPI(c) == PnBegin(c, "verify", "api", <<>>)

(* pinAddMany takes the paths in order and ends at the first error, with   *)
(* what it has pinned so far left pinned.                                  *)
PinAddMany_SkipErrors(c, ok) ==
    LET j == pnJob[c] IN
    /\ j.op = "add" /\ j.todo # <<>>
    /\ PinnerPin(Head(j.todo), j.opt = "recursive", ok)
    /\ SetJob(c, [j EXCEPT !.todo = Tail(@)])
    /\ UNCHANGED <<pnRuns, pnEvents>> /\ Noted

PinAddMany(c, ok) ==
    LET j == pnJob[c] IN
    /\ j.op = "add" /\ j.todo # <<>>
    /\ PinnerPin(Head(j.todo), j.opt = "recursive", ok)
    /\ SetJob(c, IF ok THEN [j EXCEPT !.todo = Tail(@)] ELSE PnEnd(j, FALSE))
    /\ UNCHANGED <<pnRuns, pnEvents>> /\ Noted

(* With --progress the pins are made by a goroutine that sends its result  *)
(* on a channel with room for it, and a cancelled command does not wait:   *)
(* the goroutine may still finish the pin it is at.                        *)
PinAddCancelled(c) ==
    LET j == pnJob[c] IN
    /\ j.op = "add" /\ j.todo # <<>>
    /\ \/ UNCHANGED <<pnRec, pnDir, pnHave>>
       \/ PinnerPin(Head(j.todo), j.opt = "recursive", TRUE)
    /\ SetJob(c, PnEnd(j, FALSE)) /\ UNCHANGED <<pnRuns, pnEvents>> /\ Noted

PinAddEnd(c) == pnJob[c].op = "add" /\ pnJob[c].todo = <<>> /\ PnStep(c, PnEnd(pnJob[c], TRUE))

RmPin(c, ok) ==
    LET j == pnJob[c] IN
    /\ j.op = "rm" /\ j.todo # <<>>
    /\ PinnerUnpin(Head(j.todo), j.opt = "recursive", ok)
    /\ SetJob(c, IF ~ok THEN PnEnd(j, FALSE)
                 ELSE IF Len(j.todo) = 1 THEN PnEnd(j, TRUE)
                 ELSE [j EXCEPT !.todo = Tail(@)])
    /\ UNCHANGED <<pnRuns, pnEvents>> /\ Noted

UpdatePin(c, ok) ==
    LET j == pnJob[c] IN
    /\ j.op = "update"
    /\ PinnerUpdate(j.todo[1], j.todo[2], j.opt = "unpin", ok)
    /\ SetJob(c, PnEnd(j, ok))
    /\ UNCHANGED <<pnRuns, pnEvents>> /\ Noted

\* pinLsKeys asks for each argument and fails for one that is not pinned so.
PinLsKeys(c) ==
    LET j == pnJob[c]
        d == Head(j.todo)
        t == PinType(d, j.opt)
        got == [x \in DOMAIN j.out \cup {d} |-> IF x = d THEN t ELSE j.out[x]] IN
    /\ j.op = "lsKeys" /\ j.todo # <<>>
    /\ PnStep(c, IF t = "none" THEN PnEnd(j, FALSE)
               ELSE IF Len(j.todo) = 1 THEN PnEnd([j EXCEPT !.out = got], TRUE)
               ELSE [j EXCEPT !.todo = Tail(@), !.out = got])

-----------------------------------------------------------------------------
(* Ls.  keys holds the recursive pins as they were read.                   *)

\* AddToResultKeys: the first type found for a CID is the one listed.
AddToResultKeys_Last(out, keys, t) ==
    [x \in DOMAIN out \cup keys |-> IF x \in keys THEN t ELSE out[x]]

AddToResultKeys(out, keys, t) ==
    [x \in DOMAIN out \cup keys |-> IF x \in DOMAIN out THEN out[x] ELSE t]

\* What is emitted has one of the three types; VisitKeys marks the rest.
Emitted(out) == [x \in {d \in DOMAIN out : out[d] # "visited"} |-> out[x]]

LsDirect(j) ==
    [j EXCEPT !.op = "lsWalk",
              !.out = AddToResultKeys(j.out, pnDir, IF j.opt = "indirect" THEN "visited" ELSE "direct")]

LsRecursive(j) ==
    [j EXCEPT !.op = "lsDir", !.keys = pnRec,
              !.out = AddToResultKeys(j.out, pnRec, IF j.opt = "indirect" THEN "visited" ELSE "recursive")]

\* Recursive pins come first, but for --type=indirect the direct ones do.
LsFirst(c) ==
    LET j == pnJob[c] IN
    /\ j.op = "ls"
    /\ PnStep(c, IF j.opt \in {"all", "recursive"} THEN LsRecursive(j)
                 ELSE IF j.opt = "direct" THEN PnEnd(LsDirect(j), TRUE)
                 ELSE [LsDirect(j) EXCEPT !.op = "lsRec"])

LsSecond(c) ==
    LET j == pnJob[c] IN
    \/ /\ j.op = "lsRec" /\ PnStep(c, [LsRecursive(j) EXCEPT !.op = "lsWalk"])
    \/ /\ j.op = "lsDir"
       /\ PnStep(c, IF j.opt = "recursive" THEN PnEnd(j, TRUE) ELSE LsDirect(j))

\* A block the walk cannot get is an error, sent in place of the rest.
LsWalk(c, ok) ==
    LET j == pnJob[c]
        out == AddToResultKeys(j.out, PnBelow(j.keys), "indirect") IN
    /\ j.op = "lsWalk"
    /\ ok \/ ~(PnBelow(j.keys) \cup j.keys \subseteq pnHave)
    /\ PnStep(c, PnEnd([j EXCEPT !.out = IF ok THEN Emitted(out) ELSE j.out], ok))

LsCancelled(c) ==
    /\ pnJob[c].op \in {"ls", "lsDir", "lsRec", "lsWalk"}
    /\ PnStep(c, PnEnd(pnJob[c], FALSE))

-----------------------------------------------------------------------------
(* Verify.  out is the map visited.  A frame of the stack is a checkPin    *)
(* that has its links; the first one stands for the loop over the pins.    *)

VerifyBegin(c) ==
    LET j == pnJob[c] IN
    /\ j.op = "verify" /\ j.stack = <<>>
    /\ \E order \in [1..Cardinality(pnRec) -> pnRec] :
        /\ Images(order) = pnRec
        /\ PnStep(c, [j EXCEPT !.op = "verifying", !.keys = pnRec,
                             !.stack = <<[links |-> order, ok |-> TRUE, bad |-> {}, cid |-> {}]>>])

MarkVisited(j, d, status) ==
    [j EXCEPT !.out = [x \in DOMAIN @ \cup {d} |-> IF x = d THEN status ELSE @[x]]]

\* A child already in visited, or just checked, counts for its parent.
Merge_KeepOk(f, s) == [f EXCEPT !.links = Tail(@), !.bad = @ \cup s.bad, !.ok = @ /\ (s.ok \/ s.bad = {})]
Merge(f, s) == [f EXCEPT !.links = Tail(@), !.bad = @ \cup s.bad, !.ok = @ /\ s.ok]

\* Without explain the bad nodes stay empty; only the command validates CIDs.
BadStatus(j, d) == [ok |-> FALSE, bad |-> IF j.opt = "quiet" THEN {} ELSE {d}]

CheckPin(c) ==
    LET j == pnJob[c]
        n == Len(j.stack)
        f == j.stack[n]
        d == Head(f.links) IN
    /\ j.op = "verifying" /\ n > 0 /\ f.links # <<>>
    /\ PnStep(c,
        IF d \in DOMAIN j.out
        THEN [j EXCEPT !.stack[n] = Merge(f, j.out[d])]
        ELSE IF d \notin pnHave \/ (d \in PnInvalid /\ j.opt # "api")
        THEN MarkVisited(j, d, BadStatus(j, d))
        ELSE [j EXCEPT !.stack = Append(@, [links |-> PnLinks[d], ok |-> TRUE, bad |-> {}, cid |-> {d}])])

CheckPinReturn(c) ==
    LET j == pnJob[c]
        n == Len(j.stack)
        f == j.stack[n] IN
    /\ j.op = "verifying" /\ n > 0 /\ f.links = <<>>
    /\ \/ /\ n > 1
          /\ \E d \in f.cid : PnStep(c, [MarkVisited(j, d, [ok |-> f.ok, bad |-> f.bad]) EXCEPT
                                            !.stack = SubSeq(@, 1, n - 1)])
       \/ /\ n = 1
          /\ PnStep(c, PnEnd([j EXCEPT !.op = "verify", !.out = [x \in j.keys |-> @[x]], !.stack = <<>>], TRUE))

-----------------------------------------------------------------------------
(* Blocks come and go while commands run.                                  *)

BlocksBecome(S) ==
    /\ S # pnHave /\ pnHave' = S
    /\ pnEvents < MaxBlockEvents /\ pnEvents' = pnEvents + 1
    /\ UNCHANGED <<pnRec, pnDir, pnJob, pnRuns>> /\ Noted

PnCollect == BlocksBecome(pnHave \cap (pnDir \cup UNION {PnReach[d] : d \in pnRec}))
PnFetch(d) == BlocksBecome(pnHave \cup {d})
PnLose(d) == BlocksBecome(pnHave \ {d})

PnNext ==
    \/ \E c \in PnClients :
        \/ /\ c \in PnWriters
           /\ \/ \E a \in PnArgs, r \in {"recursive", "direct"} : AddPinCmd(c, a, r) \/ RmPinCmd(c, a, r)
              \/ \E a \in PnArgs, u \in {"unpin", "keep"} : UpdatePinCmd(c, a, u)
        \/ /\ c \in PnReaders
           /\ \/ \E t \in {"all", "recursive", "direct", "indirect"}, a \in PnArgs \cup {<<>>} : ListPinCmd(c, a, t)
              \/ (\E v \in {"explain", "quiet"} : VerifyPinCmd(c, v)) \/ VerifyAPI(c)
        \/ PinAddEnd(c) \/ PinAddCancelled(c) \/ PinLsKeys(c)
        \/ \E ok \in BOOLEAN : PinAddMany(c, ok) \/ RmPin(c, ok) \/ UpdatePin(c, ok) \/ LsWalk(c, ok)
        \/ LsFirst(c) \/ LsSecond(c) \/ LsCancelled(c)
        \/ VerifyBegin(c) \/ CheckPin(c) \/ CheckPinReturn(c)
    \/ PnCollect
    \/ \E d \in PnCids : PnFetch(d) \/ PnLose(d)

-----------------------------------------------------------------------------
(* Properties.                                                             *)

Finished(c, ops) == pnJob[c].op = "done" /\ pnJob[c].ok /\ pnJob[c].was \in ops

\* A pin command that succeeds has done all it was asked for: each argument of
\* add was pinned at some time, and no argument of rm was pinned all along.
PnAllDone ==
    \A c \in PnClients :
        LET j == pnJob[c]
            args == Images(j.args) IN
        /\ Finished(c, {"add"}) =>
            args \subseteq IF j.opt = "recursive" THEN pnSaw[c].everRec ELSE pnSaw[c].everDir
        /\ Finished(c, {"rm"}) => args \cap (pnSaw[c].rec \cup pnSaw[c].dir) = {}

\* pin ls is right although the pins change while it reads them: a CID that
\* kept its pin is listed with the type of that pin, what is below a recursive
\* pin is listed unless it was pinned itself, and nothing is listed with a type
\* it never had, nor as indirect when it kept a pin of its own.
PnLsRight ==
    \A c \in PnClients :
        LET j == pnJob[c]
            s == pnSaw[c]
            listed(t) == {d \in DOMAIN j.out : j.out[d] = t} IN
        /\ Finished(c, {"ls", "lsDir", "lsRec", "lsWalk"}) =>
            /\ j.opt \in {"all", "recursive"} => s.rec \subseteq listed("recursive")
            /\ j.opt \in {"all", "direct"} => s.dir \subseteq listed("direct") \cup s.everRec
            /\ j.opt \in {"all", "indirect"} =>
                PnBelow(s.rec) \ (s.everRec \cup s.everDir) \subseteq listed("indirect")
            /\ listed("indirect") \cap (s.rec \cup s.dir) = {}
        /\ Finished(c, {"ls", "lsDir", "lsRec", "lsWalk", "lsKeys"}) =>
            /\ listed("recursive") \subseteq s.everRec /\ listed("direct") \subseteq s.everDir
            /\ listed("indirect") \subseteq PnBelow(s.everRec)
            /\ DOMAIN j.out = listed("recursive") \cup listed("direct") \cup listed("indirect")

\* pin verify calls a pin broken only if a block below it was missing at some
\* time, and whole only if each was there at some time, although results for
\* parts that several pins share are kept from one pin to the next.
PnVerifyRight ==
    \A c \in PnClients : Finished(c, {"verify"}) =>
        LET j == pnJob[c]
            invalid == IF j.opt = "api" THEN {} ELSE PnInvalid IN
        \A d \in DOMAIN j.out :
            /\ j.out[d].ok => PnReach[d] \subseteq pnSaw[c].everHave \ invalid
            /\ ~j.out[d].ok => ~(PnReach[d] \subseteq pnSaw[c].have \ invalid)
            /\ j.out[d].bad \subseteq PnReach[d] \ (pnSaw[c].have \ invalid)

=============================================================================
