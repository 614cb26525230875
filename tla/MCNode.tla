------------------------------- MODULE MCNode -------------------------------
(***************************************************************************)
(* An instance for TLC of the peering service, of the log of peers, which  *)
(* hears of the same connections, and of `ipfs add`, on the node and on    *)
(* the command line.  They share no state in these models, so a behaviour  *)
(* is one of a single part: part names it, and the others stay in their    *)
(* initial states.                                                         *)
(***************************************************************************)
EXTENDS Peering, PeerLog, AddCommand, AddProgress

VARIABLE part

nodeVars == <<vars, lgVars, acVars, pbVars, part>>

\* ipfs add reports all it adds and holds its lock no longer than it runs, the
\* command line shows just that, and the log of peers loses count of nothing
\* (AddCmd, collectEvents).
AddAndLogSound == AcSound /\ PbSound /\ LgSound

\* A collector waits for an add no longer than the add can go on, the command line
\* comes back however its request ends, and the log of peers reports what it lost
\* and ends with its node (AddCmd, collectEvents).
AddAndLogEnd == AcCollects /\ PbReturns /\ LgReports

NodeInit ==
    /\ part \in {"peering", "peerLog", "add", "addShown"}
    /\ Init /\ LgInit /\ AcInit /\ PbInit

NodeNext ==
    /\ UNCHANGED part
    /\ \/ part = "peering" /\ Next /\ UNCHANGED <<lgVars, acVars, pbVars>>
       \/ part = "peerLog" /\ LgNext /\ UNCHANGED <<vars, acVars, pbVars>>
       \/ part = "add" /\ AcNext /\ UNCHANGED <<vars, lgVars, pbVars>>
       \/ part = "addShown" /\ PbNext /\ UNCHANGED <<vars, lgVars, acVars>>

\* A part in its initial state has no enabled action that must happen, so the
\* fairness of the parts that do not run asks nothing.
NodeSpec ==
    /\ NodeInit /\ [][NodeNext]_nodeVars
    /\ Fairness /\ LgFairness /\ AcFairness /\ PbFairness

-----------------------------------------------------------------------------
(* Values of the constants.                                                *)

\* A file, and a directory of a file and a link; a stream of events of both, and none.
MCEntries ==
    << [name |-> "f", dir |-> FALSE, files |-> << [name |-> "", size |-> 3, link |-> FALSE] >>],
       [name |-> "d", dir |-> TRUE,
        files |-> << [name |-> "g", size |-> 1, link |-> FALSE], [name |-> "h", size |-> 0, link |-> TRUE] >>] >>
MCStreams ==
    {<<>>, << AddEvent(<<"f">>, FALSE, 2), AddEvent(<<"f">>, FALSE, 3), AddEvent(<<"f">>, TRUE, 0),
              AddEvent(<<"d", "g">>, FALSE, 1), AddEvent(<<"d", "g">>, TRUE, 0),
              AddEvent(<<"d", "h">>, FALSE, 1), AddEvent(<<"d", "h">>, TRUE, 0), AddEvent(<<"d">>, TRUE, 0) >>}
=============================================================================
