------------------------------- MODULE PeerLog -------------------------------
(***************************************************************************)
(* The peerlog plugin (plugin/plugins/peerlog): notifications of the       *)
(* network put events in a queue without ever waiting, and count the ones  *)
(* it has no room for; a goroutine logs the events and reports the losses. *)
(* The queue is its length, and how long the goroutine sleeps is left out. *)
(***************************************************************************)
EXTENDS Integers

CONSTANTS
    eventQueueSize,
    LgConfigs,   \* the plugin's configuration: "nil", "Enabled", and ones that say no or are malformed
    MaxEvents    \* how many notifications there are (a bound)

ASSUME PeerLogAssumption == eventQueueSize \in Nat \ {0} /\ MaxEvents \in Nat

busyDropAmount == eventQueueSize \div 8

VARIABLES
    lgEnabled,   \* the field enabled
    lgPc,        \* collectEvents: init, off, failed, top, sleep, drain, sum, wait, done
    lgQueue,     \* how many events are queued
    lgCount,     \* droppedCount
    lgLate,      \* emitters that found the queue full and have not counted that yet
    lgLocal,     \* collectEvents: dropped
    lgDrained,   \* collectEvents: i
    lgSeen,      \* notifications so far
    lgLogged,    \* events taken from the queue to be logged
    lgReported,  \* the losses reported, in total
    lgClosed     \* whether the context of the node is done

lgVars == <<lgEnabled, lgPc, lgQueue, lgCount, lgLate, lgLocal, lgDrained, lgSeen, lgLogged, lgReported, lgClosed>>

LgTypeOK ==
    /\ lgEnabled \in BOOLEAN /\ lgClosed \in BOOLEAN
    /\ lgPc \in {"init", "off", "failed", "top", "sleep", "drain", "sum", "wait", "done"}
    /\ lgQueue \in 0..eventQueueSize /\ lgDrained \in 0..busyDropAmount
    /\ {lgCount, lgLate, lgLocal, lgSeen, lgLogged, lgReported} \subseteq 0..MaxEvents

LgInit ==
    /\ lgEnabled = FALSE /\ lgPc = "init" /\ lgQueue = 0 /\ lgCount = 0 /\ lgLate = 0
    /\ lgLocal = 0 /\ lgDrained = 0 /\ lgSeen = 0 /\ lgLogged = 0 /\ lgReported = 0
    /\ lgClosed = FALSE

\* Enabled must be there, and the Boolean true.
extractEnabled(config) == config = "Enabled"

\* Init and Start; Start may fail before anything runs.
LgStart(config, ok) ==
    /\ lgPc = "init"
    /\ lgEnabled' = extractEnabled(config)
    /\ lgPc' = IF ~lgEnabled' THEN "off" ELSE IF ok THEN "top" ELSE "failed"
    /\ UNCHANGED <<lgQueue, lgCount, lgLate, lgLocal, lgDrained, lgSeen, lgLogged, lgReported, lgClosed>>

\* emit, called for a connection and by the subscriber, which both outlive the
\* node's context: a place in the queue, or a loss that is still to be counted.
Emit ==
    /\ lgPc \notin {"init", "off", "failed"} /\ lgSeen < MaxEvents
    /\ lgSeen' = lgSeen + 1
    /\ IF lgQueue < eventQueueSize THEN lgQueue' = lgQueue + 1 /\ UNCHANGED lgLate
       ELSE lgLate' = lgLate + 1 /\ UNCHANGED lgQueue
    /\ UNCHANGED <<lgEnabled, lgPc, lgCount, lgLocal, lgDrained, lgLogged, lgReported, lgClosed>>

EmitDrop ==
    /\ lgLate > 0 /\ lgLate' = lgLate - 1 /\ lgCount' = lgCount + 1
    /\ UNCHANGED <<lgEnabled, lgPc, lgQueue, lgLocal, lgDrained, lgSeen, lgLogged, lgReported, lgClosed>>

-----------------------------------------------------------------------------
(* collectEvents.                                                          *)

\* The counter is read and reset.
SwapDropped ==
    /\ lgPc = "top"
    /\ lgLocal' = lgCount /\ lgCount' = 0 /\ lgDrained' = 0
    /\ lgPc' = IF lgCount > 0 THEN "sleep" ELSE "wait"
    /\ UNCHANGED <<lgEnabled, lgQueue, lgLate, lgSeen, lgLogged, lgReported, lgClosed>>

Slept ==
    /\ lgPc = "sleep" /\ lgPc' = "drain"
    /\ UNCHANGED <<lgEnabled, lgQueue, lgCount, lgLate, lgLocal, lgDrained, lgSeen, lgLogged, lgReported, lgClosed>>

\* An eighth of the queue is thrown away, as far as there is so much.
DrainBacklog ==
    /\ lgPc = "drain"
    /\ IF lgDrained < busyDropAmount /\ lgQueue > 0
       THEN /\ lgQueue' = lgQueue - 1 /\ lgLocal' = lgLocal + 1 /\ lgDrained' = lgDrained + 1
            /\ UNCHANGED lgPc
       ELSE lgPc' = "sum" /\ UNCHANGED <<lgQueue, lgLocal, lgDrained>>
    /\ UNCHANGED <<lgEnabled, lgCount, lgLate, lgSeen, lgLogged, lgReported, lgClosed>>

\* The losses in the meantime are added, and all are reported.
ReportDropped_Reset ==
    /\ lgPc = "sum" /\ lgPc' = "wait"
    /\ lgReported' = lgReported + lgLocal /\ lgCount' = 0 /\ lgLocal' = 0
    /\ UNCHANGED <<lgEnabled, lgQueue, lgLate, lgDrained, lgSeen, lgLogged, lgClosed>>

ReportDropped ==
    /\ lgPc = "sum" /\ lgPc' = "wait"
    /\ lgReported' = lgReported + lgLocal + lgCount /\ lgCount' = 0 /\ lgLocal' = 0
    /\ UNCHANGED <<lgEnabled, lgQueue, lgLate, lgDrained, lgSeen, lgLogged, lgClosed>>

\* An event is taken and logged, or skipped when the agent of the peer is not
\* known; the loop goes on at its top.
LogEvent_Wait ==
    /\ lgPc = "wait" /\ lgQueue > 0
    /\ lgQueue' = lgQueue - 1 /\ lgLogged' = lgLogged + 1
    /\ UNCHANGED <<lgEnabled, lgPc, lgCount, lgLate, lgLocal, lgDrained, lgSeen, lgReported, lgClosed>>

LogEvent ==
    /\ lgPc = "wait" /\ lgQueue > 0 /\ lgPc' = "top"
    /\ lgQueue' = lgQueue - 1 /\ lgLogged' = lgLogged + 1
    /\ UNCHANGED <<lgEnabled, lgCount, lgLate, lgLocal, lgDrained, lgSeen, lgReported, lgClosed>>

\* The select statements also see the end of the context.
CollectEnds ==
    /\ lgPc \in {"sleep", "wait"} /\ lgClosed /\ lgPc' = "done"
    /\ UNCHANGED <<lgEnabled, lgQueue, lgCount, lgLate, lgLocal, lgDrained, lgSeen, lgLogged, lgReported, lgClosed>>

NodeDone ==
    /\ lgPc # "init" /\ ~lgClosed /\ lgClosed' = TRUE
    /\ UNCHANGED <<lgEnabled, lgPc, lgQueue, lgCount, lgLate, lgLocal, lgDrained, lgSeen, lgLogged, lgReported>>

CollectEvents == SwapDropped \/ Slept \/ DrainBacklog \/ ReportDropped \/ LogEvent

LgNext ==
    \/ \E config \in LgConfigs, ok \in BOOLEAN : LgStart(config, ok)
    \/ Emit \/ EmitDrop \/ CollectEvents \/ CollectEnds \/ NodeDone

(* The goroutines are scheduled.  A select with several ready cases takes  *)
(* each of them some time, so the end of the context is seen even if there *)
(* is always an event too: strong fairness.                                *)
LgFairness == WF_lgVars(CollectEvents) /\ WF_lgVars(EmitDrop) /\ SF_lgVars(CollectEnds)

-----------------------------------------------------------------------------
(* Properties.                                                             *)

\* Every notification is accounted for once: queued, logged, reported as lost, or
\* about to be (emit, collectEvents), however emitters and the collector interleave.
LgAccounted ==
    lgSeen = lgQueue + lgLogged + lgReported + lgLocal + lgCount + lgLate

LgSound == LgTypeOK /\ LgAccounted

\* A loss that is counted while there are events in the queue is reported without
\* waiting for another notification, and the collector ends after the node does.
LgReports ==
    /\ (lgCount > 0 /\ lgQueue > 0) ~> (lgCount = 0 \/ lgPc = "done")
    /\ lgClosed ~> (lgPc \in {"done", "off", "failed"})
=============================================================================
