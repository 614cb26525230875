------------------------------- MODULE Peering -------------------------------
(***************************************************************************)
(* The peering service (kubo/peering/peering.go): it keeps a connection to *)
(* every registered peer, redialling after a disconnect from a timer.      *)
(*                                                                         *)
(* Concurrency.  A PeeringService has a mutex and each peerHandler another *)
(* one; a critical section is one atomic step here.  Everything started    *)
(* with "go" or by a timer is a pending goroutine, counted per handler     *)
(* and per kind, and runs in any order.  The network (libp2p) changes the  *)
(* connectedness of a peer in one step and delivers the notification in a  *)
(* later one.                                                              *)
(*                                                                         *)
(* A handler that was removed is still a live Go object while a goroutine  *)
(* or a timer refers to it, and adding the peer again makes another        *)
(* handler, so handlers are identities of their own.                       *)
(*                                                                         *)
(* The length of the back-off is left out: a handler's timer here          *)
(* only is nil, armed, or fired (still referenced, its callback launched). *)
(***************************************************************************)
EXTENDS Naturals

CONSTANTS
    Peers,        \* peer IDs
    Handlers,     \* identities of peerHandler objects; bounds the additions
    Addrs,        \* address lists a peer can be registered with
    Reachable,    \* the address lists under which a dial can succeed
    MaxFlaps,     \* bound on connections opened or closed by the environment
    MaxDials,     \* bound on a handler's dials to one address under way
    MaxStops,     \* bound on the stopIfConnected calls a timer may overtake
    EarlyDrop,    \* may a connection close before its goroutines have run?
    NoPeer, NoHandler

ASSUME PeeringAssumption ==
    /\ Addrs # {}
    /\ Reachable \subseteq Addrs
    /\ MaxFlaps \in Nat
    /\ MaxDials \in Nat \ {0}
    /\ MaxStops \in Nat \ {0}
    /\ EarlyDrop \in BOOLEAN
    /\ NoPeer \notin Peers
    /\ NoHandler \notin Handlers

VARIABLES
    state,        \* ps.state
    notifying,    \* is the service registered with the network's notifier?
    stopping,     \* has Stop passed StopNotify and not taken ps.mu yet?
    peers,        \* ps.peers: the handler registered for a peer
    protected,    \* peers tagged in the connection manager
    owner,        \* ph.peer, NoPeer while the handler does not exist
    addrs,        \* ph.addrs
    cancelled,    \* is ph.ctx cancelled?
    timer,        \* ph.reconnectTimer
    dials,        \* reconnect goroutines in host.Connect, by dialled address
    starts,       \* pending startIfDisconnected goroutines
    stops,        \* pending calls of stopIfConnected
    connected,    \* network connectedness of a peer
    pendConn,     \* Connected notifications not delivered yet
    pendDisc,     \* Disconnected notifications not delivered yet
    flaps         \* connections opened or closed by the environment so far

svcVars  == <<state, notifying, stopping, peers, protected>>
objVars  == <<owner, addrs, cancelled>>
taskVars == <<dials, starts, stops>>
netVars  == <<connected, pendConn, pendDisc, flaps>>
vars     == <<svcVars, objVars, timer, taskVars, netVars>>

Registered(p) == peers[p] # NoHandler

Inc(f, x) == [f EXCEPT ![x] = @ + 1]
Dec(f, x) == [f EXCEPT ![x] = @ - 1]

TypeOK ==
    /\ state \in {"init", "running", "stopped"}
    /\ notifying \in BOOLEAN
    /\ stopping \in BOOLEAN
    /\ peers \in [Peers -> Handlers \cup {NoHandler}]
    /\ protected \subseteq Peers
    /\ owner \in [Handlers -> Peers \cup {NoPeer}]
    /\ addrs \in [Handlers -> Addrs]
    /\ cancelled \in [Handlers -> BOOLEAN]
    /\ timer \in [Handlers -> {"nil", "armed", "fired"}]
    /\ dials \in [Handlers -> [Addrs -> Nat]]
    /\ starts \in [Handlers -> Nat]
    /\ stops \in [Handlers -> Nat]
    /\ connected \in [Peers -> BOOLEAN]
    /\ pendConn \in [Peers -> Nat]
    /\ pendDisc \in [Peers -> Nat]
    /\ flaps \in Nat

Init ==
    /\ state = "init"
    /\ notifying = FALSE
    /\ stopping = FALSE
    /\ peers = [p \in Peers |-> NoHandler]
    /\ protected = {}
    /\ owner = [h \in Handlers |-> NoPeer]
    /\ addrs = [h \in Handlers |-> CHOOSE a \in Addrs : TRUE]
    /\ cancelled = [h \in Handlers |-> FALSE]
    /\ timer = [h \in Handlers |-> "nil"]
    /\ dials = [h \in Handlers |-> [a \in Addrs |-> 0]]
    /\ starts = [h \in Handlers |-> 0]
    /\ stops = [h \in Handlers |-> 0]
    /\ connected = [p \in Peers |-> FALSE]
    /\ pendConn = [p \in Peers |-> 0]
    /\ pendDisc = [p \in Peers |-> 0]
    /\ flaps = 0

-----------------------------------------------------------------------------
(* The service's operations, each one critical section of ps.mu.           *)

\* Start: registers for notifications, then spawns one startIfDisconnected
\* per registered handler.  In the other states it changes nothing.  The node's
\* lifecycle calls Stop only after Start, so Start never overlaps Stop.
Start ==
    /\ state = "init"
    /\ ~stopping
    /\ notifying' = TRUE
    /\ state' = "running"
    /\ starts' = [h \in Handlers |->
                     IF \E p \in Peers : peers[p] = h THEN starts[h] + 1
                                                      ELSE starts[h]]
    /\ UNCHANGED <<stopping, peers, protected, objVars, timer, dials, stops,
                   netVars>>

\* The first half of Stop, before it takes ps.mu.
StopNotify ==
    /\ ~stopping
    /\ state # "stopped"
    /\ stopping' = TRUE
    /\ notifying' = FALSE
    /\ UNCHANGED <<state, peers, protected, objVars, timer, taskVars, netVars>>

\* peerHandler.stop on every handler of the set hs.
stop(hs) ==
    /\ cancelled' = [h \in Handlers |-> cancelled[h] \/ h \in hs]
    /\ timer' = [h \in Handlers |-> IF h \in hs THEN "nil" ELSE timer[h]]

\* The second half of Stop, under ps.mu.
StopHandlers ==
    /\ stopping
    /\ stopping' = FALSE
    /\ state' = "stopped"
    /\ stop({h \in Handlers : \E p \in Peers : peers[p] = h})
    /\ UNCHANGED <<notifying, peers, protected, owner, addrs, taskVars, netVars>>

\* AddPeer of a registered peer: only its addresses change.
UpdatePeer(p, a) ==
    /\ Registered(p)
    /\ addrs' = [addrs EXCEPT ![peers[p]] = a]
    /\ UNCHANGED <<svcVars, owner, cancelled, timer, taskVars, netVars>>

\* AddPeer of another peer: a new handler, started if the service runs and
\* cancelled at once if it has stopped.
AddPeer(p, a, h) ==
    /\ ~Registered(p)
    /\ owner[h] = NoPeer
    /\ protected' = protected \cup {p}
    /\ owner' = [owner EXCEPT ![h] = p]
    /\ addrs' = [addrs EXCEPT ![h] = a]
    /\ peers' = [peers EXCEPT ![p] = h]
    /\ starts' = IF state = "running" THEN Inc(starts, h) ELSE starts
    /\ cancelled' = [cancelled EXCEPT ![h] = (state = "stopped")]
    /\ UNCHANGED <<state, notifying, stopping, timer, dials, stops,
                   netVars>>

\* Mutants: the removed handler is not stopped; its tag is left behind.
RemovePeer_NoStop(p) ==
    /\ Registered(p)
    /\ protected' = protected \ {p}
    /\ peers' = [peers EXCEPT ![p] = NoHandler]
    /\ UNCHANGED <<state, notifying, stopping, objVars, timer, taskVars, netVars>>

RemovePeer_NoUnprotect(p) ==
    /\ Registered(p)
    /\ stop({peers[p]})
    /\ peers' = [peers EXCEPT ![p] = NoHandler]
    /\ UNCHANGED <<state, notifying, stopping, protected, owner, addrs, taskVars,
                   netVars>>

RemovePeer(p) ==
    /\ Registered(p)
    /\ protected' = protected \ {p}
    /\ stop({peers[p]})
    /\ peers' = [peers EXCEPT ![p] = NoHandler]
    /\ UNCHANGED <<state, notifying, stopping, owner, addrs, taskVars, netVars>>

-----------------------------------------------------------------------------
(* Notifications (netNotifee): they only spawn a goroutine.                *)

ConnectedEvent(p) ==
    /\ pendConn[p] > 0
    /\ pendConn' = Dec(pendConn, p)
    /\ stops' = IF notifying /\ Registered(p) THEN Inc(stops, peers[p])
                                              ELSE stops
    /\ UNCHANGED <<svcVars, objVars, timer, dials, starts, connected,
                   pendDisc, flaps>>

DisconnectedEvent(p) ==
    /\ pendDisc[p] > 0
    /\ pendDisc' = Dec(pendDisc, p)
    /\ starts' = IF notifying /\ Registered(p) THEN Inc(starts, peers[p])
                                               ELSE starts
    /\ UNCHANGED <<svcVars, objVars, timer, dials, stops, connected,
                   pendConn, flaps>>

-----------------------------------------------------------------------------
(* The handlers' goroutines.                                               *)

\* Mutant: the goroutine runs without having been spawned.
startIfDisconnected_Unspawned(h) ==
    /\ owner[h] # NoPeer
    /\ starts' = Dec(starts, h)
    /\ timer' = [timer EXCEPT ![h] =
                    IF @ = "nil" /\ ~connected[owner[h]] THEN "armed" ELSE @]
    /\ UNCHANGED <<svcVars, objVars, dials, stops, netVars>>

startIfDisconnected(h) ==
    /\ starts[h] > 0
    /\ starts' = Dec(starts, h)
    /\ timer' = [timer EXCEPT ![h] =
                    IF @ = "nil" /\ ~connected[owner[h]] THEN "armed" ELSE @]
    /\ UNCHANGED <<svcVars, objVars, dials, stops, netVars>>

\* Mutant: the timer is dropped without looking at the connectedness again.
stopIfConnected_Unchecked(h) ==
    /\ stops[h] > 0
    /\ stops' = Dec(stops, h)
    /\ timer' = [timer EXCEPT ![h] = "nil"]
    /\ UNCHANGED <<svcVars, objVars, dials, starts, netVars>>

stopIfConnected(h) ==
    /\ stops[h] > 0
    /\ stops' = Dec(stops, h)
    /\ timer' = [timer EXCEPT ![h] =
                    IF @ # "nil" /\ connected[owner[h]] THEN "nil" ELSE @]
    /\ UNCHANGED <<svcVars, objVars, dials, starts, netVars>>

\* The timer expires: a reconnect goroutine reads the addresses and dials.
reconnect(h) ==
    /\ timer[h] = "armed"
    /\ stops[h] < MaxStops
    /\ \A a \in Addrs : dials[h][a] < MaxDials
    /\ timer' = [timer EXCEPT ![h] = "fired"]
    /\ dials' = [dials EXCEPT ![h][addrs[h]] = @ + 1]
    /\ UNCHANGED <<svcVars, objVars, starts, stops, netVars>>

\* host.Connect returns nil: there was a connection, or the dial made one,
\* which takes a live context and a reachable address.
ConnectOk(h, a) ==
    LET p == owner[h] IN
    /\ dials[h][a] > 0
    /\ connected[p] \/ (~cancelled[h] /\ a \in Reachable)
    /\ dials' = [dials EXCEPT ![h][a] = @ - 1]
    /\ stops' = Inc(stops, h)
    /\ connected' = [connected EXCEPT ![p] = TRUE]
    /\ pendConn' = IF connected[p] THEN pendConn ELSE Inc(pendConn, p)
    /\ UNCHANGED <<svcVars, objVars, timer, starts, pendDisc, flaps>>

\* host.Connect returns an error, whatever happened to the peer meanwhile: the
\* timer is reset, unless someone has dropped it; the goroutine then calls
\* stopIfConnected, as it always does.  (Mutant: the timer is not reset.)
ConnectFail_NoReset(h, a) ==
    /\ dials[h][a] > 0
    /\ dials' = [dials EXCEPT ![h][a] = @ - 1]
    /\ stops' = Inc(stops, h)
    /\ UNCHANGED <<svcVars, objVars, timer, starts, netVars>>

ConnectFail(h, a) ==
    /\ dials[h][a] > 0
    /\ dials' = [dials EXCEPT ![h][a] = @ - 1]
    /\ stops' = Inc(stops, h)
    /\ timer' = [timer EXCEPT ![h] = IF @ # "nil" THEN "armed" ELSE @]
    /\ UNCHANGED <<svcVars, objVars, starts, netVars>>

-----------------------------------------------------------------------------
(* The network.                                                            *)

\* The peer, or another part of the node, opens a connection.
Inbound(p) ==
    /\ ~connected[p]
    /\ flaps < MaxFlaps
    /\ flaps' = flaps + 1
    /\ connected' = [connected EXCEPT ![p] = TRUE]
    /\ pendConn' = Inc(pendConn, p)
    /\ UNCHANGED <<svcVars, objVars, timer, taskVars, pendDisc>>

\* Have all goroutines that react to the connection to p run?
Settled(p) ==
    /\ pendConn[p] = 0
    /\ \A h \in Handlers : owner[h] = p => stops[h] = 0

Drop(p) ==
    /\ connected[p]
    /\ flaps < MaxFlaps
    /\ EarlyDrop \/ Settled(p)
    /\ flaps' = flaps + 1
    /\ connected' = [connected EXCEPT ![p] = FALSE]
    /\ pendDisc' = Inc(pendDisc, p)
    /\ UNCHANGED <<svcVars, objVars, timer, taskVars, pendConn>>

-----------------------------------------------------------------------------
Goroutine(h) ==
    \/ startIfDisconnected(h)
    \/ stopIfConnected(h)
    \/ reconnect(h)
    \/ \E a \in Addrs : ConnectOk(h, a) \/ ConnectFail(h, a)

Operation ==
    \/ Start
    \/ StopNotify
    \/ StopHandlers
    \/ \E p \in Peers, a \in Addrs :
          UpdatePeer(p, a) \/ \E h \in Handlers : AddPeer(p, a, h)
    \/ \E p \in Peers : RemovePeer(p)

Network(p) ==
    \/ ConnectedEvent(p)
    \/ DisconnectedEvent(p)
    \/ Inbound(p)
    \/ Drop(p)

Next ==
    \/ Operation
    \/ \E p \in Peers : Network(p)
    \/ \E h \in Handlers : Goroutine(h)

Spec == Init /\ [][Next]_vars

(***************************************************************************)
(* Fairness.  The Go scheduler runs every runnable goroutine and timer and *)
(* libp2p delivers every notification; a call of Stop that began ends.     *)
(* The operations, the environment's connections and the failure of a dial *)
(* are not forced.  A peer that stays reachable is not refused for ever:   *)
(* of infinitely many dials one succeeds.                                  *)
(***************************************************************************)
Fairness ==
    /\ WF_vars(StopHandlers)
    /\ \A p \in Peers : WF_vars(ConnectedEvent(p)) /\ WF_vars(DisconnectedEvent(p))
    /\ \A h \in Handlers :
          /\ WF_vars(startIfDisconnected(h))
          /\ WF_vars(stopIfConnected(h))
          /\ WF_vars(reconnect(h))
          /\ \A a \in Addrs : /\ WF_vars(ConnectOk(h, a) \/ ConnectFail(h, a))
                              /\ SF_vars(ConnectOk(h, a))

FairSpec == Spec /\ Fairness

-----------------------------------------------------------------------------
(* Properties.                                                             *)

\* A handler whose context is live is the one registered for its peer, and
\* the service has not stopped: RemovePeer, Stop and an AddPeer after Stop
\* between them cancel every other handler, so no peer ever has two handlers
\* dialling it.
LiveHandlerIsRegistered ==
    \A h \in Handlers :
        owner[h] # NoPeer /\ ~cancelled[h] =>
            peers[owner[h]] = h /\ state # "stopped"

\* The connection manager protects exactly the registered peers, through any
\* sequence of AddPeer, RemovePeer and Stop.
ProtectedIsRegistered ==
    protected = {p \in Peers : Registered(p)}

Dialling(h) == \E a \in Addrs : dials[h][a] > 0

\* While the service runs, no disconnect is forgotten: a registered peer is
\* connected, or something that will look again is pending: an armed timer, a
\* dial whose failure arms it, a startIfDisconnected goroutine, an undelivered
\* notification.  An expired timer alone is none of these: with EarlyDrop
\* it may be all that is left (peering_stranded), without it never.
DisconnectNotLost ==
    state = "running" /\ ~stopping =>
        \A p \in Peers : Registered(p) =>
            \/ connected[p]
            \/ timer[peers[p]] = "armed"
            \/ timer[peers[p]] = "fired" /\ Dialling(peers[p])
            \/ starts[peers[p]] > 0
            \/ pendDisc[p] > 0

ShouldPeer(p) ==
    /\ state = "running"
    /\ ~stopping
    /\ Registered(p)
    /\ addrs[peers[p]] \in Reachable

\* "PeeringService maintains connections to specified peers, reconnecting on
\* disconnect with a back-off": a peer that stays registered with addresses
\* that work, in a service that stays running, is connected again and again.
Maintains ==
    \A p \in Peers : <>[]ShouldPeer(p) => []<>connected[p]

\* No goroutine counter of a handler runs away, and the connection manager
\* protects exactly the registered peers (AddPeer, RemovePeer).
PeeringSound == TypeOK /\ ProtectedIsRegistered
=============================================================================
