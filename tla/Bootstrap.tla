----------------------------- MODULE Bootstrap ------------------------------
(***************************************************************************)
(* The bootstrap supervisor (core/bootstrap/bootstrap.go, called by        *)
(* IpfsNode.Bootstrap in core/core.go): rounds that connect to bootstrap   *)
(* peers while there are too few connections, one at once and then one at  *)
(* every tick, and the call of Routing.Bootstrap the first rounds wait for *)
(* on the channel doneWithRound.                                           *)
(*                                                                         *)
(* Two rounds can overlap: the one run at once and the first tick.  A      *)
(* round plans on the connections it sees and dials later, outside any     *)
(* lock.  The peer host and the network are external.                      *)
(***************************************************************************)
EXTENDS Integers, FiniteSets

CONSTANTS
    BootPeers,          \* what cfg.BootstrapPeers() returns
    MinPeerThreshold,   \* connections below which a round dials (4)
    MaxFaults           \* lost connections and failed dials (a bound)

ASSUME BootAssumption == IsFiniteSet(BootPeers) /\ MinPeerThreshold \in Nat \ {0} /\ MaxFaults \in Nat

VARIABLES
    bsPc,       \* where the call of Bootstrap is
    bsChan,     \* doneWithRound: open, or closed
    bsWorker,   \* the round run at once and the ones of the ticker
    bsDial,     \* the peers a round is about to dial
    bsRounds,   \* some round has ended
    bsConn,     \* the connected peers, BootPeers only
    bsFaults    \* faults so far

bsVars == <<bsPc, bsChan, bsWorker, bsDial, bsRounds, bsConn, bsFaults>>

Workers == {"now", "tick"}

BsTypeOK ==
    /\ bsPc \in {"idle", "routing", "send", "closing", "returned"}
    /\ bsChan \in {"open", "closed"}
    /\ bsWorker \in [Workers -> {"off", "round", "dial", "wait", "done"}]
    /\ bsDial \in [Workers -> SUBSET BootPeers]
    /\ bsRounds \in BOOLEAN
    /\ bsConn \subseteq BootPeers
    /\ bsFaults \in 0..MaxFaults

BsInit ==
    /\ bsPc = "idle" /\ bsChan = "open"
    /\ bsWorker = [w \in Workers |-> "off"]
    /\ bsDial = [w \in Workers |-> {}]
    /\ bsRounds = FALSE /\ bsConn = {} /\ bsFaults = 0

\* Tick and proc.Go start the workers; Routing.Bootstrap is next.
BsStart ==
    /\ bsPc = "idle"
    /\ bsPc' = "routing"
    /\ bsWorker' = [bsWorker EXCEPT !["now"] = "round"]
    /\ UNCHANGED <<bsChan, bsDial, bsRounds, bsConn, bsFaults>>

\* Routing.Bootstrap ends.  On an error Bootstrap closes the process, which
\* waits for the workers, which wait for a channel nobody will close: the
\* state "closing" is never left and the error never returned.
BsRouting(ok) ==
    /\ bsPc = "routing"
    /\ bsPc' = IF ok THEN "send" ELSE "closing"
    /\ UNCHANGED <<bsChan, bsWorker, bsDial, bsRounds, bsConn, bsFaults>>

\* Mutant: the channel is closed without the send.
BsDone_NoWait(w) ==
    /\ bsPc = "send" /\ bsPc' = "returned" /\ bsChan' = "closed"
    /\ UNCHANGED <<bsWorker, bsDial, bsRounds, bsConn, bsFaults>>

\* The send on doneWithRound needs a worker at its receive; then the channel
\* is closed for all others.
BsDone(w) ==
    /\ bsPc = "send" /\ bsWorker[w] = "wait"
    /\ bsPc' = "returned" /\ bsChan' = "closed"
    /\ bsWorker' = [bsWorker EXCEPT ![w] = "done"]
    /\ UNCHANGED <<bsDial, bsRounds, bsConn, bsFaults>>

\* The ticker runs its next round when its last one is over.
BsTick ==
    /\ bsPc \in {"routing", "send", "returned"}
    /\ bsWorker["tick"] \in {"off", "done"}
    /\ bsWorker' = [bsWorker EXCEPT !["tick"] = "round"]
    /\ UNCHANGED <<bsPc, bsChan, bsDial, bsRounds, bsConn, bsFaults>>

\* randomSubsetOfPeers: numToDial of the candidates, or all of them.
RandomSubset(in, max) ==
    {S \in SUBSET in : Cardinality(S) = IF max > Cardinality(in) THEN Cardinality(in) ELSE max}

\* A round is over: the worker is at its receive.
EndRound(w) == /\ bsWorker' = [bsWorker EXCEPT ![w] = "wait"]
               /\ bsRounds' = TRUE

\* bootstrapRound up to the dials: enough connections, or no candidate left
\* (ErrNotEnoughBootstrapPeers), ends the round.
BsPlan(w) ==
    /\ bsWorker[w] = "round"
    /\ LET missing == MinPeerThreshold - Cardinality(bsConn)
           notConnected == BootPeers \ bsConn
       IN IF missing <= 0 \/ notConnected = {}
          THEN EndRound(w) /\ UNCHANGED bsDial
          ELSE /\ \E S \in RandomSubset(notConnected, missing) : bsDial' = [bsDial EXCEPT ![w] = S]
               /\ bsWorker' = [bsWorker EXCEPT ![w] = "dial"]
               /\ UNCHANGED bsRounds
    /\ UNCHANGED <<bsPc, bsChan, bsConn, bsFaults>>

\* bootstrapConnect: every dial ends, by its timeout at the latest.
BsConnect(w, failed) ==
    /\ bsWorker[w] = "dial" /\ failed \subseteq bsDial[w]
    /\ bsFaults + Cardinality(failed) <= MaxFaults
    /\ bsFaults' = bsFaults + Cardinality(failed)
    /\ bsConn' = bsConn \cup (bsDial[w] \ failed)
    /\ bsDial' = [bsDial EXCEPT ![w] = {}]
    /\ EndRound(w)
    /\ UNCHANGED <<bsPc, bsChan>>

\* Mutant: the channel lets one worker through only.
BsRelease_Once(w) ==
    /\ bsWorker[w] = "wait" /\ bsChan = "closed" /\ w = "now"
    /\ bsWorker' = [bsWorker EXCEPT ![w] = "done"]
    /\ UNCHANGED <<bsPc, bsChan, bsDial, bsRounds, bsConn, bsFaults>>

\* The receive on the closed channel.
BsRelease(w) ==
    /\ bsWorker[w] = "wait" /\ bsChan = "closed"
    /\ bsWorker' = [bsWorker EXCEPT ![w] = "done"]
    /\ UNCHANGED <<bsPc, bsChan, bsDial, bsRounds, bsConn, bsFaults>>

\* A connection is lost.
BsDisconnect(p) ==
    /\ p \in bsConn /\ bsFaults < MaxFaults
    /\ bsConn' = bsConn \ {p} /\ bsFaults' = bsFaults + 1
    /\ UNCHANGED <<bsPc, bsChan, bsWorker, bsDial, bsRounds>>

BsWorkerStep(w) ==
    \/ BsPlan(w) \/ BsRelease(w)
    \/ \E failed \in SUBSET bsDial[w] : BsConnect(w, failed)

BsNext ==
    \/ BsStart \/ BsTick
    \/ \E ok \in BOOLEAN : BsRouting(ok)
    \/ \E w \in Workers : BsDone(w) \/ BsWorkerStep(w)
    \/ \E p \in BootPeers : BsDisconnect(p)

\* The ticker and the workers run; Routing.Bootstrap ends, and the send takes
\* place when some worker waits (a select of the runtime, so weakly fair).
BsFairness ==
    /\ WF_bsVars(\E ok \in BOOLEAN : BsRouting(ok))
    /\ WF_bsVars(\E w \in Workers : BsDone(w))
    /\ \A w \in Workers : WF_bsVars(BsWorkerStep(w))
    /\ WF_bsVars(BsTick)

-----------------------------------------------------------------------------
(* Properties.                                                             *)

\* Bootstrap returns only after a round has ended, as its comment on the
\* channel says (doneWithRound).
BsOneRound == bsPc = "returned" => bsRounds

\* Unless Routing.Bootstrap fails, Bootstrap returns, and again and again the
\* supervisor has brought the node to the threshold, or to all the bootstrap
\* peers there are: the send finds a worker that waits, the ticker does not
\* stay at the channel, and a failed dial does not spoil a round.
BsReconnects ==
    []<>(\/ bsPc \in {"idle", "closing"}
         \/ /\ bsPc = "returned"
            /\ Cardinality(bsConn) >= MinPeerThreshold \/ bsConn = BootPeers)
=============================================================================
