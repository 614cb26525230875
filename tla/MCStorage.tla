----------------------------- MODULE MCStorage -----------------------------
(***************************************************************************)
(* An instance of the commands on stored blocks and pins, for TLC: the     *)
(* garbage collector with what runs beside it, `ipfs pin`, remote pins,    *)
(* `ipfs repo` and `ipfs mount`.  Each takes pins and blocks as its own    *)
(* model has them, so a behaviour is one of a single part: part names it,  *)
(* and the others stay in an initial state.                                *)
(***************************************************************************)
EXTENDS MCGarbageCollection, PinCommands, RemotePins, RepoCommands, Mounts, TLC

VARIABLE part

Parts == {"gc", "pins", "remotePins", "repo", "mounts"}

storageVars == <<vars, pnVars, rrVars, rcVars, mnVars, part>>

\* A verified pin stays complete whatever is collected, removed and fetched, and
\* what pin add, rm, ls and verify report of pins is so (GC, RmBlocks, PinAPI).
PinsSound ==
    /\ TypeOK /\ PinsComplete
    /\ PnTypeOK /\ PnAllDone /\ PnLsRight /\ PnVerifyRight

\* A collection without an error did its work and none is late; both mounts or
\* none, and none once the node is closed (CollectResult, maybeGC, doMount).
RepoAndMountsSound == RcSound /\ MnSound

\* The parts with more than one initial state have one of them when another
\* part runs.
StorageInit ==
    /\ part \in Parts
    /\ Init /\ RrInit /\ MnInit
    /\ PnInit /\ (part = "pins" \/ pnRec = {})
    /\ RcInit /\ (part = "repo" \/ \A k \in Blocks : rcDisk[k] = "good")

\* The garbage collector and its clients never stop; the other parts end at
\* their bounds.
StorageNext ==
    /\ UNCHANGED part
    /\ \/ part = "gc" /\ Next /\ UNCHANGED <<pnVars, rrVars, rcVars, mnVars>>
       \/ part = "pins" /\ PnNext /\ UNCHANGED <<vars, rrVars, rcVars, mnVars>>
       \/ part = "remotePins" /\ RrNext /\ UNCHANGED <<vars, pnVars, rcVars, mnVars>>
       \/ part = "repo" /\ RcNext /\ UNCHANGED <<vars, pnVars, rrVars, mnVars>>
       \/ part = "mounts" /\ MnNext /\ UNCHANGED <<vars, pnVars, rrVars, rcVars>>
       \/ part # "gc" /\ UNCHANGED <<vars, pnVars, rrVars, rcVars, mnVars>>

StorageSpec == StorageInit /\ [][StorageNext]_storageVars

-----------------------------------------------------------------------------
(* Values of the constants.                                                *)

MCPnLinks == [r |-> <<"a", "b">>, a |-> <<"b">>, b |-> <<>>]
MCPnStarts == {<<{}, {"b"}>>, <<{"r"}, {"b"}>>, <<{"r", "a"}, {}>>}
\* Percentages, the default, and what is neither.
MCWatermarks == {-1, 0, 100, 250}
MCPnArgs == {<<"r">>, <<"b">>, <<"r", "a">>}

\* Who asks a pinning service, and who mounts, is interchangeable.
Symmetry == Permutations(RrClients) \cup Permutations(MnClients)
=============================================================================
