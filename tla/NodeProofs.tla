----------------------------- MODULE NodeProofs -----------------------------
(***************************************************************************)
(* Proofs about the parts of MCNode, for any values of their constants:    *)
(* the peering service, the log of peers, `ipfs add` on the node and on    *)
(* the command line.  The first needs OwnerAgrees and RunningIsNotified,   *)
(* the last two follow what was added or counted through recursive         *)
(* functions of the events, whose equations are proved first.              *)
(***************************************************************************)
EXTENDS MCNode, WellFoundedInduction, TLAPS

-----------------------------------------------------------------------------
(* The peering service.                                                    *)

\* A handler registered for a peer belongs to that peer.
OwnerAgrees ==
    \A p \in Peers : Registered(p) => owner[peers[p]] = p

\* A running service that is not being stopped receives the notifications.
RunningIsNotified ==
    state = "running" /\ ~stopping => notifying

\* DisconnectNotLost but for what an expired timer is worth.
SomethingIsHeld ==
    state = "running" /\ ~stopping =>
        \A p \in Peers : Registered(p) =>
            \/ connected[p]
            \/ timer[peers[p]] # "nil"
            \/ starts[peers[p]] > 0
            \/ pendDisc[p] > 0

\* An expired timer has a dial under way, which arms it again if it fails, or a
\* stopIfConnected to come that will find the connection and drop the timer:
\* the connection outlives the goroutines its opening starts.
FiredIsDialling ==
    \A h \in Handlers :
        owner[h] # NoPeer /\ timer[h] = "fired" =>
            Dialling(h) \/ (connected[owner[h]] /\ stops[h] > 0)

\* A handler that does not exist yet has no timer, and nobody to set one.
UnownedIsIdle ==
    \A h \in Handlers : owner[h] = NoPeer => timer[h] = "nil" /\ starts[h] = 0

\* The inductive invariant.  OwnerAgrees makes a goroutine of the handler of p
\* look at the connectedness of p; RunningIsNotified makes the delivery of a
\* disconnect spawn a goroutine.
PeeringInv ==
    /\ TypeOK
    /\ OwnerAgrees
    /\ RunningIsNotified
    /\ LiveHandlerIsRegistered
    /\ ProtectedIsRegistered
    /\ SomethingIsHeld

USE DEF Registered, Inc, Dec

\* Every variable keeps its type: in particular no goroutine counter of the
\* service becomes negative.
LEMMA TypeStep == TypeOK /\ [Next]_vars => TypeOK'
<1> SUFFICES ASSUME TypeOK, [Next]_vars PROVE TypeOK'
    OBVIOUS
<1> USE PeeringAssumption DEF TypeOK, svcVars, objVars, taskVars, netVars
<1>1. CASE Start
    BY <1>1 DEF Start
<1>2. CASE StopNotify
    BY <1>2 DEF StopNotify
<1>3. CASE StopHandlers
    BY <1>3 DEF StopHandlers, stop
<1>4. ASSUME NEW p \in Peers, NEW a \in Addrs, UpdatePeer(p, a) PROVE TypeOK'
    BY <1>4 DEF UpdatePeer
<1>5. ASSUME NEW p \in Peers, NEW a \in Addrs, NEW h \in Handlers, AddPeer(p, a, h)
      PROVE TypeOK'
    BY <1>5 DEF AddPeer
<1>6. ASSUME NEW p \in Peers, RemovePeer(p) PROVE TypeOK'
    BY <1>6 DEF RemovePeer, stop
<1>7. ASSUME NEW p \in Peers, ConnectedEvent(p) PROVE TypeOK'
    BY <1>7 DEF ConnectedEvent
<1>8. ASSUME NEW p \in Peers, DisconnectedEvent(p) PROVE TypeOK'
    BY <1>8 DEF DisconnectedEvent
<1>9. ASSUME NEW h \in Handlers, startIfDisconnected(h) PROVE TypeOK'
    BY <1>9 DEF startIfDisconnected
<1>10. ASSUME NEW h \in Handlers, stopIfConnected(h) PROVE TypeOK'
    BY <1>10 DEF stopIfConnected
<1>11. ASSUME NEW h \in Handlers, reconnect(h) PROVE TypeOK'
    BY <1>11 DEF reconnect
<1>12. ASSUME NEW h \in Handlers, NEW a \in Addrs, ConnectOk(h, a) PROVE TypeOK'
  <2>1. dials' \in [Handlers -> [Addrs -> Nat]]
      BY <1>12 DEF ConnectOk
  <2>2. connected' \in [Peers -> BOOLEAN]
      BY <1>12, Zenon DEF ConnectOk
  <2>3. pendConn' \in [Peers -> Nat]
    <3>1. pendConn' = pendConn \/ pendConn' = Inc(pendConn, owner[h])
        BY <1>12, Zenon DEF ConnectOk
    <3>2. CASE owner[h] \in Peers
      <4>1. pendConn[owner[h]] \in Nat
          BY <3>2
      <4> QED
          BY <3>1, <3>2, <4>1
    <3>3. CASE owner[h] = NoPeer
        BY <3>1, <3>3
    <3> QED
        BY <3>2, <3>3
  <2>4. stops' \in [Handlers -> Nat]
      BY <1>12 DEF ConnectOk
  <2> QED
      BY <1>12, <2>1, <2>2, <2>3, <2>4 DEF ConnectOk
<1>13. ASSUME NEW h \in Handlers, NEW a \in Addrs, ConnectFail(h, a) PROVE TypeOK'
    BY <1>13 DEF ConnectFail
<1>14. ASSUME NEW p \in Peers, Inbound(p) PROVE TypeOK'
    BY <1>14 DEF Inbound
<1>15. ASSUME NEW p \in Peers, Drop(p) PROVE TypeOK'
    BY <1>15 DEF Drop
<1>16. CASE UNCHANGED vars
    BY <1>16 DEF vars
<1> QED
    BY <1>1, <1>2, <1>3, <1>4, <1>5, <1>6, <1>7, <1>8, <1>9, <1>10, <1>11, <1>12,
       <1>13, <1>14, <1>15, <1>16 DEF Next, Operation, Network, Goroutine

LEMMA InvInit == Init => PeeringInv
<1> SUFFICES ASSUME Init PROVE PeeringInv
    OBVIOUS
<1>1. TypeOK
    BY PeeringAssumption DEF Init, TypeOK
<1> QED
    BY <1>1, PeeringAssumption
    DEF Init, PeeringInv, TypeOK, OwnerAgrees, RunningIsNotified,
        LiveHandlerIsRegistered, ProtectedIsRegistered, SomethingIsHeld

\* The registry's operations keep every part of the invariant.
LEMMA OperationStep == PeeringInv /\ Operation => PeeringInv'
<1> SUFFICES ASSUME PeeringInv, Operation PROVE PeeringInv'
    OBVIOUS
<1>t. TypeOK'
    BY TypeStep DEF PeeringInv, Next
<1> USE PeeringAssumption, <1>t DEF TypeOK, PeeringInv, OwnerAgrees, RunningIsNotified,
        svcVars, objVars, taskVars, netVars
<1>1. CASE Start
    BY <1>1 DEF Start, LiveHandlerIsRegistered, ProtectedIsRegistered,
                SomethingIsHeld
<1>2. CASE StopNotify
    BY <1>2 DEF StopNotify, LiveHandlerIsRegistered, ProtectedIsRegistered,
                SomethingIsHeld
<1>3. CASE StopHandlers
    BY <1>3 DEF StopHandlers, stop, LiveHandlerIsRegistered,
                ProtectedIsRegistered, SomethingIsHeld
<1>4. ASSUME NEW p \in Peers, NEW a \in Addrs, UpdatePeer(p, a) PROVE PeeringInv'
    BY <1>4 DEF UpdatePeer, LiveHandlerIsRegistered, ProtectedIsRegistered,
                SomethingIsHeld
<1>5. ASSUME NEW p \in Peers, NEW a \in Addrs, NEW h \in Handlers, AddPeer(p, a, h)
      PROVE PeeringInv'
  <2>1. OwnerAgrees' /\ RunningIsNotified'
      BY <1>5 DEF AddPeer
  <2>2. LiveHandlerIsRegistered'
    <3> SUFFICES ASSUME NEW g \in Handlers, owner'[g] # NoPeer, ~cancelled'[g]
                 PROVE  peers'[owner'[g]] = g /\ state' # "stopped"
        BY DEF LiveHandlerIsRegistered
    <3>1. CASE g = h
        BY <1>5, <3>1 DEF AddPeer
    <3>2. CASE g # h
      <4>1. owner'[g] = owner[g] /\ cancelled'[g] = cancelled[g] /\ owner[g] \in Peers
          BY <1>5, <3>2 DEF AddPeer
      <4>2. peers[owner[g]] = g /\ state # "stopped"
          BY <4>1, Zenon DEF LiveHandlerIsRegistered
      <4> QED
          BY <1>5, <4>1, <4>2 DEF AddPeer
    <3> QED
        BY <3>1, <3>2
  <2>3. ProtectedIsRegistered'
      BY <1>5 DEF AddPeer, ProtectedIsRegistered
  <2>4. SomethingIsHeld'
      BY <1>5 DEF AddPeer, SomethingIsHeld
  <2> QED
      BY <2>1, <2>2, <2>3, <2>4
<1>6. ASSUME NEW p \in Peers, RemovePeer(p) PROVE PeeringInv'
  <2>1. OwnerAgrees' /\ RunningIsNotified'
      BY <1>6 DEF RemovePeer
  <2>2. LiveHandlerIsRegistered'
    <3> SUFFICES ASSUME NEW g \in Handlers, owner'[g] # NoPeer, ~cancelled'[g]
                 PROVE  peers'[owner'[g]] = g /\ state' # "stopped"
        BY DEF LiveHandlerIsRegistered
    <3>1. owner'[g] = owner[g] /\ ~cancelled[g] /\ g # peers[p] /\ owner[g] \in Peers
        BY <1>6 DEF RemovePeer, stop
    <3>2. peers[owner[g]] = g /\ state # "stopped"
        BY <3>1, Zenon DEF LiveHandlerIsRegistered
    <3> QED
        BY <1>6, <3>1, <3>2 DEF RemovePeer
  <2>3. ProtectedIsRegistered'
      BY <1>6 DEF RemovePeer, ProtectedIsRegistered
  <2>4. SomethingIsHeld'
      BY <1>6 DEF RemovePeer, stop, SomethingIsHeld
  <2> QED
      BY <2>1, <2>2, <2>3, <2>4
<1> QED
    BY <1>1, <1>2, <1>3, <1>4, <1>5, <1>6 DEF Operation

\* Notifications, goroutines and connections leave the registry alone, so only
\* SomethingIsHeld has to be looked at.
LEMMA RegistryUnchanged ==
    ASSUME PeeringInv, TypeOK', UNCHANGED <<svcVars, owner, cancelled>>, SomethingIsHeld'
    PROVE  PeeringInv'
BY DEF PeeringInv, svcVars, OwnerAgrees, RunningIsNotified, LiveHandlerIsRegistered,
       ProtectedIsRegistered

LEMMA NetworkStep == ASSUME PeeringInv, NEW p \in Peers, Network(p) PROVE PeeringInv'
<1>t. TypeOK'
    BY TypeStep DEF PeeringInv, Next
<1> USE PeeringAssumption, <1>t DEF TypeOK, PeeringInv, OwnerAgrees, RunningIsNotified,
        svcVars, objVars, taskVars, netVars, SomethingIsHeld
<1>1. CASE ConnectedEvent(p)
    BY <1>1, RegistryUnchanged DEF ConnectedEvent
<1>2. CASE DisconnectedEvent(p)
  <2>1. SomethingIsHeld'
      BY <1>2 DEF DisconnectedEvent
  <2> QED
      BY <1>2, <2>1, RegistryUnchanged DEF DisconnectedEvent
<1>3. CASE Inbound(p)
    BY <1>3, RegistryUnchanged DEF Inbound
<1>4. CASE Drop(p)
    BY <1>4, RegistryUnchanged DEF Drop
<1> QED
    BY <1>1, <1>2, <1>3, <1>4 DEF Network

LEMMA GoroutineStep == ASSUME PeeringInv, NEW h \in Handlers, Goroutine(h) PROVE PeeringInv'
<1>t. TypeOK'
    BY TypeStep DEF PeeringInv, Next
<1> USE PeeringAssumption, <1>t DEF TypeOK, PeeringInv, OwnerAgrees, svcVars, objVars,
        taskVars, netVars, SomethingIsHeld
<1>1. CASE startIfDisconnected(h)
    BY <1>1, RegistryUnchanged DEF startIfDisconnected
<1>2. CASE stopIfConnected(h)
    BY <1>2, RegistryUnchanged DEF stopIfConnected
<1>3. CASE reconnect(h)
    BY <1>3, RegistryUnchanged DEF reconnect
<1>4. ASSUME NEW a \in Addrs, ConnectOk(h, a) PROVE PeeringInv'
    BY <1>4, RegistryUnchanged DEF ConnectOk
<1>5. ASSUME NEW a \in Addrs, ConnectFail(h, a) PROVE PeeringInv'
    BY <1>5, RegistryUnchanged DEF ConnectFail
<1> QED
    BY <1>1, <1>2, <1>3, <1>4, <1>5 DEF Goroutine

LEMMA PeeringStep == PeeringInv /\ [Next]_vars => PeeringInv'
<1> SUFFICES ASSUME PeeringInv, [Next]_vars PROVE PeeringInv'
    OBVIOUS
<1>1. CASE UNCHANGED vars
    BY <1>1 DEF vars, svcVars, objVars, taskVars, netVars, PeeringInv, TypeOK,
                OwnerAgrees, RunningIsNotified, LiveHandlerIsRegistered,
                ProtectedIsRegistered, SomethingIsHeld
<1> QED
    BY <1>1, OperationStep, NetworkStep, GoroutineStep DEF Next

THEOREM Invariance == Spec => []PeeringInv
BY InvInit, PeeringStep, PTL DEF Spec

\* No variable of the service leaves its type, whatever the bounds.
THEOREM TypeCorrect == Spec => []TypeOK
BY Invariance, PTL DEF PeeringInv

\* Through any sequence of AddPeer, RemovePeer, Start and Stop, a handler that
\* can still dial is the one registered for its peer.
THEOREM OneLiveHandler == Spec => []LiveHandlerIsRegistered
BY Invariance, PTL DEF PeeringInv

\* AddPeer and RemovePeer keep the connection manager's protection in step
\* with the registry.
THEOREM ProtectionFollows == Spec => []ProtectedIsRegistered
BY Invariance, PTL DEF PeeringInv

\* What FiredIsDialling needs of a step: it concerns one handler at a time.
LEMMA FiredStep ==
    ~EarlyDrop /\ PeeringInv /\ UnownedIsIdle /\ FiredIsDialling /\ [Next]_vars
        => UnownedIsIdle' /\ FiredIsDialling'
<1> SUFFICES ASSUME ~EarlyDrop, PeeringInv, UnownedIsIdle, FiredIsDialling, [Next]_vars
             PROVE  UnownedIsIdle' /\ FiredIsDialling'
    OBVIOUS
<1>t. TypeOK /\ TypeOK' /\ OwnerAgrees
    BY TypeStep DEF PeeringInv
<1> USE PeeringAssumption, <1>t
        DEF TypeOK, svcVars, objVars, taskVars, netVars, UnownedIsIdle, FiredIsDialling,
            Dialling
<1>1. CASE Start
    BY <1>1 DEF Start, OwnerAgrees
<1>2. CASE StopNotify
    BY <1>2 DEF StopNotify
<1>3. CASE StopHandlers
    BY <1>3 DEF StopHandlers, stop
<1>4. ASSUME NEW p \in Peers, NEW a \in Addrs, UpdatePeer(p, a)
      PROVE  UnownedIsIdle' /\ FiredIsDialling'
    BY <1>4 DEF UpdatePeer
<1>5. ASSUME NEW p \in Peers, NEW a \in Addrs, NEW h \in Handlers, AddPeer(p, a, h)
      PROVE  UnownedIsIdle' /\ FiredIsDialling'
    BY <1>5 DEF AddPeer
<1>6. ASSUME NEW p \in Peers, RemovePeer(p) PROVE UnownedIsIdle' /\ FiredIsDialling'
    BY <1>6 DEF RemovePeer, stop
<1>7. ASSUME NEW p \in Peers, ConnectedEvent(p) PROVE UnownedIsIdle' /\ FiredIsDialling'
    BY <1>7 DEF ConnectedEvent
<1>8. ASSUME NEW p \in Peers, DisconnectedEvent(p) PROVE UnownedIsIdle' /\ FiredIsDialling'
    BY <1>8 DEF DisconnectedEvent, OwnerAgrees
<1>9. ASSUME NEW h \in Handlers, startIfDisconnected(h)
      PROVE  UnownedIsIdle' /\ FiredIsDialling'
    BY <1>9 DEF startIfDisconnected
<1>10. ASSUME NEW h \in Handlers, stopIfConnected(h)
       PROVE  UnownedIsIdle' /\ FiredIsDialling'
    BY <1>10 DEF stopIfConnected
<1>11. ASSUME NEW h \in Handlers, reconnect(h) PROVE UnownedIsIdle' /\ FiredIsDialling'
    BY <1>11 DEF reconnect
<1>12. ASSUME NEW h \in Handlers, NEW a \in Addrs, ConnectOk(h, a)
       PROVE  UnownedIsIdle' /\ FiredIsDialling'
    BY <1>12 DEF ConnectOk
<1>13. ASSUME NEW h \in Handlers, NEW a \in Addrs, ConnectFail(h, a)
       PROVE  UnownedIsIdle' /\ FiredIsDialling'
    BY <1>13 DEF ConnectFail
<1>14. ASSUME NEW p \in Peers, Inbound(p) PROVE UnownedIsIdle' /\ FiredIsDialling'
    BY <1>14 DEF Inbound
<1>15. ASSUME NEW p \in Peers, Drop(p) PROVE UnownedIsIdle' /\ FiredIsDialling'
    BY <1>15 DEF Drop, Settled
<1>16. CASE UNCHANGED vars
    BY <1>16 DEF vars
<1> QED
    BY <1>1, <1>2, <1>3, <1>4, <1>5, <1>6, <1>7, <1>8, <1>9, <1>10, <1>11, <1>12,
       <1>13, <1>14, <1>15, <1>16 DEF Next, Operation, Network, Goroutine

LEMMA FiredInit == Init => UnownedIsIdle /\ FiredIsDialling
BY DEF Init, UnownedIsIdle, FiredIsDialling

LEMMA NothingForgotten == PeeringInv /\ FiredIsDialling => DisconnectNotLost
<1> SUFFICES ASSUME PeeringInv, FiredIsDialling, state = "running", ~stopping,
                    NEW p \in Peers, Registered(p), ~connected[p],
                    timer[peers[p]] = "fired"
             PROVE  Dialling(peers[p])
    BY DEF PeeringInv, SomethingIsHeld, DisconnectNotLost, TypeOK
<1> QED
    BY PeeringAssumption DEF PeeringInv, TypeOK, OwnerAgrees, FiredIsDialling

\* While the service runs, a disconnect is never forgotten by the notifications
\* and goroutines that react to it (startIfDisconnected, stopIfConnected,
\* reconnect), provided no connection closes before the goroutines its opening
\* starts have run: ~EarlyDrop.
THEOREM NoDisconnectLost == ~EarlyDrop /\ Spec => []DisconnectNotLost
<1> SUFFICES ASSUME ~EarlyDrop PROVE Spec => []DisconnectNotLost
    OBVIOUS
<1>1. Init => PeeringInv /\ UnownedIsIdle /\ FiredIsDialling
    BY InvInit, FiredInit
<1>2. PeeringInv /\ UnownedIsIdle /\ FiredIsDialling /\ [Next]_vars
          => (PeeringInv /\ UnownedIsIdle /\ FiredIsDialling)'
    BY PeeringStep, FiredStep
<1> QED BY <1>1, <1>2, NothingForgotten, PTL DEF Spec

\* Types, and that AddPeer and RemovePeer keep protection and registration
\* together.
THEOREM Sound == Spec => []PeeringSound
<1>1. TypeOK /\ ProtectedIsRegistered => PeeringSound
  BY DEF PeeringSound
<1> QED BY <1>1, TypeCorrect, ProtectionFollows, PTL

-----------------------------------------------------------------------------
(* The log of peers.                                                       *)

\* The collector has nothing left to report when it reads the counter again.
LogInv == LgSound /\ (lgPc \in {"init", "top", "wait"} => lgLocal = 0)

LEMMA LogInit == LgInit => LogInv
<1> SUFFICES ASSUME LgInit PROVE LogInv
  OBVIOUS
<1>1. busyDropAmount \in Nat /\ eventQueueSize \in Nat
  BY PeerLogAssumption DEF busyDropAmount
<1>2. 0 \in 0..busyDropAmount /\ 0 \in 0..eventQueueSize /\ 0 \in 0..MaxEvents
  BY <1>1, PeerLogAssumption
<1>3. lgEnabled \in BOOLEAN /\ lgClosed \in BOOLEAN
  BY DEF LgInit
<1>4. lgPc \in {"init", "off", "failed", "top", "sleep", "drain", "sum", "wait", "done"}
  BY DEF LgInit
<1>5. lgQueue \in 0..eventQueueSize /\ lgDrained \in 0..busyDropAmount
  BY <1>2 DEF LgInit
<1>6. {lgCount, lgLate, lgLocal, lgSeen, lgLogged, lgReported} \subseteq 0..MaxEvents
  BY <1>2 DEF LgInit
<1>7. LgAccounted
  BY DEF LgInit, LgAccounted
<1>8. lgLocal = 0
  BY DEF LgInit
<1> QED BY <1>3, <1>4, <1>5, <1>6, <1>7, <1>8 DEF LgSound, LgTypeOK, LogInv

LEMMA LogStep == LogInv /\ [LgNext]_lgVars => LogInv'
<1> SUFFICES ASSUME LogInv, [LgNext]_lgVars PROVE LogInv'
  OBVIOUS
<1>1. /\ lgCount \in Nat /\ lgLate \in Nat /\ lgLocal \in Nat /\ lgSeen \in Nat /\ lgLogged \in Nat /\ lgReported \in Nat
      /\ lgSeen <= MaxEvents /\ lgQueue \in Nat /\ lgQueue <= eventQueueSize /\ eventQueueSize \in Nat /\ MaxEvents \in Nat
      /\ lgDrained \in 0..busyDropAmount /\ busyDropAmount \in Nat /\ 0 \in 0..busyDropAmount
  BY PeerLogAssumption DEF LogInv, LgSound, LgTypeOK, busyDropAmount
<1> USE <1>1 DEF LogInv, LgSound, LgTypeOK, LgAccounted
<1>2. CASE UNCHANGED lgVars
  BY <1>2 DEF lgVars
<1>3. ASSUME NEW config \in LgConfigs, NEW ok \in BOOLEAN, LgStart(config, ok) PROVE LogInv'
  BY <1>3 DEF LgStart, extractEnabled
<1>4. CASE Emit
  BY <1>4 DEF Emit
<1>5. CASE EmitDrop
  BY <1>5 DEF EmitDrop
<1>6. CASE SwapDropped
  <2>1. /\ lgEnabled' \in BOOLEAN /\ lgClosed' \in BOOLEAN
        /\ lgPc' \in {"init", "off", "failed", "top", "sleep", "drain", "sum", "wait", "done"}
    BY <1>6 DEF SwapDropped
  <2>2. lgQueue' \in 0..eventQueueSize /\ lgDrained' \in 0..busyDropAmount
    BY <1>6 DEF SwapDropped
  <2>3. {lgCount', lgLate', lgLocal', lgSeen', lgLogged', lgReported'} \subseteq 0..MaxEvents /\ LgAccounted'
    <3>1. lgSeen' = lgSeen /\ lgLate' = lgLate /\ lgReported' = lgReported /\ lgLogged' = lgLogged /\ lgCount' = 0 /\ lgLocal' = lgCount /\ lgQueue' = lgQueue
      BY <1>6 DEF SwapDropped
    <3>2. lgLocal = 0
      BY <1>6 DEF SwapDropped
    <3> QED BY <3>1, <3>2
  <2>4. lgPc' = "wait" => lgLocal' = 0
    BY <1>6 DEF SwapDropped
  <2>5. lgPc' \notin {"init", "top"}
    BY <1>6 DEF SwapDropped
  <2> QED BY <2>1, <2>2, <2>3, <2>4, <2>5
<1>7. CASE Slept
  BY <1>7 DEF Slept
<1>8. CASE DrainBacklog
  BY <1>8 DEF DrainBacklog
<1>9. CASE ReportDropped
  BY <1>9 DEF ReportDropped
<1>10. CASE LogEvent
  BY <1>10 DEF LogEvent
<1>11. CASE CollectEnds
  BY <1>11 DEF CollectEnds
<1>12. CASE NodeDone
  BY <1>12 DEF NodeDone
<1> QED
  BY <1>2, <1>3, <1>4, <1>5, <1>6, <1>7, <1>8, <1>9, <1>10, <1>11, <1>12 DEF LgNext, CollectEvents

\* The log of peers loses count of no notification, however the emitters and the
\* collector take turns (emit, collectEvents).
THEOREM NothingUncounted == LgInit /\ [][LgNext]_lgVars => []LgSound
<1>1. LogInv => LgSound
  BY DEF LogInv
<1> QED BY <1>1, LogInit, LogStep, PTL

-----------------------------------------------------------------------------
(* Induction and recursion over the naturals, for one set and one          *)
(* function.                                                               *)

LEMMA Least ==
    ASSUME NEW S, S \subseteq Nat, S # {}
    PROVE  \E x \in S : \A y \in S : x <= y
<1> DEFINE R == OpToRel(<, Nat)
<1>1. IsWellFoundedOn(R, Nat)
  BY NatLessThanWellFounded
<1>2. \A x, y \in Nat : <<y, x>> \in R <=> y < x
  BY DEF OpToRel
<1> HIDE DEF R
<1>3. PICK x \in S : \A y \in S : ~(<<y, x>> \in R)
  BY <1>1, WFMin
<1>4. ASSUME NEW y \in S PROVE x <= y
  <2>1. ~(y < x)
    BY <1>2, <1>3, Zenon
  <2> QED BY <2>1
<1> QED BY <1>4

\* Induction up to m, for a set.
LEMMA UpTo ==
    ASSUME NEW m \in Nat, NEW S, 0 \in S, \A n \in 1..m : n - 1 \in S => n \in S
    PROVE  0..m \subseteq S
<1> DEFINE R == (0..m) \ S
<1> SUFFICES ASSUME R # {} PROVE FALSE
  OBVIOUS
<1>1. R \subseteq Nat
  OBVIOUS
<1> HIDE DEF R
<1>2. PICK x \in R : \A y \in R : x <= y
  BY <1>1, Least
<1>3. x # 0 /\ x \in 1..m /\ x - 1 \in 0..m /\ ~(x <= x - 1)
  BY <1>2 DEF R
<1>4. x - 1 \in S
  BY <1>2, <1>3 DEF R
<1> QED BY <1>2, <1>3, <1>4 DEF R

\* A sequence of values in which each follows from the one before.
Follows(f, V, v, G, m) == f \in [0..m -> V] /\ f[0] = v /\ \A n \in 1..m : f[n] = G[<<n, f[n - 1]>>]

LEMMA Recursion ==
    ASSUME NEW V, NEW v \in V, NEW G \in [Nat \X V -> V], NEW m \in Nat
    PROVE  \E f : Follows(f, V, v, G, m)
<1> DEFINE Upto(k, f) == f \in [0..k -> V] /\ f[0] = v /\ \A n \in 1..k : f[n] = G[<<n, f[n - 1]>>]
           S == {k \in Nat : \E f : Upto(k, f)}
<1>1. 0 \in S
  <2> DEFINE f == [n \in 0..0 |-> v]
  <2>1. Upto(0, f)
    OBVIOUS
  <2> QED BY <2>1
<1>2. ASSUME NEW k \in 1..m, k - 1 \in S PROVE k \in S
  <2>1. PICK f : Upto(k - 1, f)
    BY <1>2
  <2> DEFINE g == [n \in 0..k |-> IF n < k THEN f[n] ELSE G[<<k, f[k - 1]>>]]
  <2>2. g \in [0..k -> V]
    BY <2>1
  <2>3. g[0] = v
    BY <2>1
  <2>4. ASSUME NEW n \in 1..k PROVE g[n] = G[<<n, g[n - 1]>>]
    <3>1. n - 1 \in 0..k /\ n - 1 < k /\ n \in 0..k
      OBVIOUS
    <3>2. g[n - 1] = f[n - 1]
      BY <3>1
    <3>3. CASE n < k
      BY <2>1, <3>1, <3>2, <3>3
    <3>4. CASE n = k
      BY <3>1, <3>2, <3>4
    <3> QED BY <3>3, <3>4
  <2>5. Upto(k, g)
    BY <2>2, <2>3, <2>4
  <2> HIDE DEF g
  <2> QED BY <2>5
<1> HIDE DEF S
<1>3. m \in S
  BY <1>1, <1>2, UpTo
<1> QED BY <1>3 DEF S, Follows

-----------------------------------------------------------------------------
(* What a sequence of events amounts to.                                   *)

\* The names of the events of s that tell of something added, up to the n-th.
NamesUpTo(s, f) ==
    f = [n \in 0..Len(s) |-> IF n = 0 THEN <<>> ELSE IF s[n].added THEN Append(f[n - 1], s[n].name) ELSE f[n - 1]]

\* NamesAdded is what its recursive equations say.
LEMMA NamesAre ==
    ASSUME NEW N, NEW s \in Seq(EventsOf(N))
    PROVE  \E f \in [0..Len(s) -> Seq(N)] : NamesUpTo(s, f) /\ NamesAdded(s) = f[Len(s)]
<1> DEFINE m == Len(s)
           G == [x \in Nat \X Seq(N) |->
                    IF x[1] \in 1..Len(s) /\ s[x[1]].added THEN Append(x[2], s[x[1]].name) ELSE x[2]]
           names == CHOOSE f : NamesUpTo(s, f)
<1>1. NamesAdded(s) = names[m]
  BY DEF NamesAdded, NamesUpTo
<1>2. m \in Nat /\ \A n \in 1..m : s[n] \in EventsOf(N)
  OBVIOUS
<1>3. <<>> \in Seq(N)
  OBVIOUS
<1>4. G \in [Nat \X Seq(N) -> Seq(N)]
  <2> SUFFICES ASSUME NEW x \in Nat \X Seq(N) PROVE G[x] \in Seq(N)
    OBVIOUS
  <2>1. x[2] \in Seq(N) /\ (x[1] \in 1..m => s[x[1]].name \in N)
    BY <1>2 DEF EventsOf
  <2> QED BY <2>1
<1>5. ASSUME NEW n \in 1..m, NEW e \in Seq(N)
      PROVE  G[<<n, e>>] = IF s[n].added THEN Append(e, s[n].name) ELSE e
  <2>1. <<n, e>> \in Nat \X Seq(N)
    OBVIOUS
  <2> QED BY <2>1
<1> HIDE DEF G, names, m
<1>6. PICK f \in [0..m -> Seq(N)] : f[0] = <<>> /\ \A n \in 1..m : f[n] = G[<<n, f[n - 1]>>]
  <2>1. PICK none : none = <<>>
    OBVIOUS
  <2> DEFINE V == Seq(N)
  <2>2. none \in V /\ G \in [Nat \X V -> V] /\ m \in Nat
    BY <1>2, <1>3, <1>4, <2>1
  <2> HIDE DEF V
  <2>3. \E f : Follows(f, V, none, G, m)
    BY <2>2, Recursion
  <2> QED BY <2>1, <2>3 DEF V, Follows
<1>7. ASSUME NEW n \in 0..m
      PROVE  f[n] = IF n = 0 THEN <<>> ELSE IF s[n].added THEN Append(f[n - 1], s[n].name) ELSE f[n - 1]
  <2>1. CASE n = 0
    BY <1>6, <2>1
  <2>2. CASE n # 0
    <3>1. n \in 1..m /\ n - 1 \in 0..m
      BY <1>2, <2>2
    <3>2. f[n] = G[<<n, f[n - 1]>>] /\ f[n - 1] \in Seq(N)
      BY <1>6, <3>1
    <3> QED BY <1>5, <2>2, <3>1, <3>2
  <2> QED BY <2>1, <2>2
<1>8. NamesUpTo(s, f)
  BY <1>6, <1>7 DEF NamesUpTo, m
<1>9. NamesUpTo(s, names)
  BY <1>8, Zenon DEF names
<1>10. ASSUME NEW n \in 0..m PROVE names[n] = IF n = 0 THEN <<>> ELSE IF s[n].added THEN Append(names[n - 1], s[n].name) ELSE names[n - 1]
  BY <1>9 DEF NamesUpTo, m
<1> DEFINE S == {n \in 0..m : names[n] = f[n]}
<1>11. 0 \in S
  BY <1>2, <1>6, <1>10
<1>12. ASSUME NEW n \in 1..m, n - 1 \in S PROVE n \in S
  <2>1. n # 0 /\ n \in 0..m /\ names[n - 1] = f[n - 1]
    BY <1>2, <1>12
  <2>2. f[n] = IF s[n].added THEN Append(f[n - 1], s[n].name) ELSE f[n - 1]
    BY <1>7, <2>1, Zenon
  <2>3. names[n] = IF s[n].added THEN Append(names[n - 1], s[n].name) ELSE names[n - 1]
    BY <1>10, <2>1, Zenon
  <2>4. names[n] = f[n]
    <3>1. CASE s[n].added
      BY <2>1, <2>2, <2>3, <3>1, Zenon
    <3>2. CASE ~s[n].added
      BY <2>1, <2>2, <2>3, <3>2, Zenon
    <3> QED BY <3>1, <3>2
  <2> QED BY <2>1, <2>4
<1> HIDE DEF S
<1>13. 0..m \subseteq S
  BY <1>2, <1>11, <1>12, UpTo
<1>14. names[m] = f[m]
  BY <1>2, <1>13 DEF S
<1> QED BY <1>1, <1>6, <1>8, <1>14 DEF m

LEMMA NamesType ==
    ASSUME NEW N, NEW s \in Seq(EventsOf(N)) PROVE NamesAdded(s) \in Seq(N)
<1>1. PICK f \in [0..Len(s) -> Seq(N)] : NamesAdded(s) = f[Len(s)]
  BY NamesAre
<1> QED BY <1>1

LEMMA NamesOfNone == NamesAdded(<<>>) = <<>>
<1> DEFINE N == {}
<1>1. <<>> \in Seq(EventsOf(N))
  OBVIOUS
<1> HIDE DEF N
<1>2. PICK none : none = <<>>
  OBVIOUS
<1>3. PICK f \in [0..Len(none) -> Seq(N)] : NamesUpTo(none, f) /\ NamesAdded(none) = f[Len(none)]
  BY <1>1, <1>2, NamesAre
<1>4. Len(none) = 0
  BY <1>2
<1>5. f[0] = <<>>
  BY <1>3, <1>4 DEF NamesUpTo
<1> QED BY <1>2, <1>3, <1>4, <1>5

LEMMA NamesEach ==
    ASSUME NEW s, NEW f, NEW m \in Nat, Len(s) = m, NamesUpTo(s, f)
    PROVE  /\ f[0] = <<>>
           /\ \A n \in 1..m : f[n] = IF s[n].added THEN Append(f[n - 1], s[n].name) ELSE f[n - 1]
<1>1. ASSUME NEW n \in 0..m
      PROVE  f[n] = IF n = 0 THEN <<>> ELSE IF s[n].added THEN Append(f[n - 1], s[n].name) ELSE f[n - 1]
  BY DEF NamesUpTo
<1>2. f[0] = <<>>
  BY <1>1
<1>3. ASSUME NEW n \in 1..m PROVE f[n] = IF s[n].added THEN Append(f[n - 1], s[n].name) ELSE f[n - 1]
  <2>1. n \in 0..m /\ n # 0
    OBVIOUS
  <2> QED BY <1>1, <2>1
<1> QED BY <1>2, <1>3

LEMMA NamesOfOneMore ==
    ASSUME NEW N, NEW s \in Seq(EventsOf(N)), NEW e \in EventsOf(N)
    PROVE  NamesAdded(Append(s, e)) = IF e.added THEN Append(NamesAdded(s), e.name) ELSE NamesAdded(s)
<1> DEFINE t == Append(s, e)
           m == Len(s)
<1>1. /\ t \in Seq(EventsOf(N)) /\ Len(t) = m + 1 /\ m \in Nat /\ t[m + 1] = e
      /\ \A n \in 1..m : t[n] = s[n]
  OBVIOUS
<1>2. PICK f \in [0..Len(s) -> Seq(N)] : NamesUpTo(s, f) /\ NamesAdded(s) = f[Len(s)]
  BY NamesAre
<1> HIDE DEF t
<1>3. PICK g \in [0..Len(t) -> Seq(N)] : NamesUpTo(t, g) /\ NamesAdded(t) = g[Len(t)]
  BY <1>1, NamesAre
<1>4. f[0] = <<>> /\ \A n \in 1..m : f[n] = IF s[n].added THEN Append(f[n - 1], s[n].name) ELSE f[n - 1]
  BY <1>1, <1>2, NamesEach
<1>5. g[0] = <<>> /\ \A n \in 1..(m + 1) : g[n] = IF t[n].added THEN Append(g[n - 1], t[n].name) ELSE g[n - 1]
  <2> DEFINE k == m + 1
  <2>1. k \in Nat /\ Len(t) = k
    BY <1>1
  <2> HIDE DEF k, m
  <2>2. g[0] = <<>> /\ \A n \in 1..k : g[n] = IF t[n].added THEN Append(g[n - 1], t[n].name) ELSE g[n - 1]
    BY <1>3, <2>1, NamesEach
  <2> QED BY <2>2 DEF k
<1> HIDE DEF m
<1> DEFINE S == {n \in 0..m : f[n] = g[n]}
<1>6. 0 \in S
  BY <1>1, <1>4, <1>5
<1>7. ASSUME NEW n \in 1..m, n - 1 \in S PROVE n \in S
  <2>1. n \in 1..(m + 1) /\ n \in 0..m /\ t[n] = s[n]
    BY <1>1
  <2> QED BY <1>4, <1>5, <1>7, <2>1
<1> HIDE DEF S
<1>8. 0..m \subseteq S
  BY <1>1, <1>6, <1>7, UpTo
<1>9. f[m] = g[m]
  BY <1>1, <1>8 DEF S
<1>10. g[m + 1] = IF e.added THEN Append(g[m], e.name) ELSE g[m]
  <2>1. m + 1 \in 1..(m + 1) /\ (m + 1) - 1 = m
    BY <1>1
  <2>2. g[m + 1] = IF t[m + 1].added THEN Append(g[(m + 1) - 1], t[m + 1].name) ELSE g[(m + 1) - 1]
    BY <1>5, <2>1
  <2> QED BY <1>1, <2>1, <2>2
<1> QED BY <1>1, <1>2, <1>3, <1>9, <1>10 DEF t, m

\* The bytes of the files that the events of s count, up to the n-th event.
BytesUpTo(s, f) ==
    f = [n \in 0..Len(s) |-> IF n = 0 THEN 0 ELSE f[n - 1] + (IF LastCount(s, n) THEN s[n].bytes ELSE 0)]

\* BytesRead is what its recursive equations say.
LEMMA BytesAre ==
    ASSUME NEW N, NEW s \in Seq(EventsOf(N))
    PROVE  \E f \in [0..Len(s) -> Nat] : /\ f[0] = 0 /\ BytesRead(s) = f[Len(s)]
                                         /\ \A n \in 1..Len(s) : f[n] = f[n - 1] + (IF LastCount(s, n) THEN s[n].bytes ELSE 0)
<1> DEFINE m == Len(s)
           bytes == [n \in 1..Len(s) |-> IF LastCount(s, n) THEN s[n].bytes ELSE 0]
           G == [x \in Nat \X Nat |-> IF x[1] \in 1..Len(s) THEN x[2] + bytes[x[1]] ELSE x[2]]
           total == CHOOSE f : BytesUpTo(s, f)
<1>1. BytesRead(s) = total[m]
  BY DEF BytesRead, BytesUpTo
<1>2. m \in Nat /\ \A n \in 1..m : s[n] \in EventsOf(N)
  OBVIOUS
<1>3. bytes \in [1..m -> Nat] /\ \A n \in 1..m : bytes[n] = IF LastCount(s, n) THEN s[n].bytes ELSE 0
  BY <1>2 DEF EventsOf
<1> HIDE DEF bytes
<1>4. G \in [Nat \X Nat -> Nat]
  <2> SUFFICES ASSUME NEW x \in Nat \X Nat PROVE G[x] \in Nat
    OBVIOUS
  <2>1. x[1] \in 1..m => bytes[x[1]] \in Nat
    BY <1>3
  <2> QED BY <2>1
<1>5. ASSUME NEW n \in 1..m, NEW k \in Nat PROVE G[<<n, k>>] = k + bytes[n]
  <2>1. <<n, k>> \in Nat \X Nat
    OBVIOUS
  <2> QED BY <2>1
<1> HIDE DEF G, total, m
<1>6. PICK f : Follows(f, Nat, 0, G, m)
  BY <1>2, <1>4, Recursion
<1>7. ASSUME NEW n \in 0..m PROVE f[n] = IF n = 0 THEN 0 ELSE f[n - 1] + (IF LastCount(s, n) THEN s[n].bytes ELSE 0)
  <2>1. CASE n = 0
    BY <1>6, <2>1 DEF Follows
  <2>2. CASE n # 0
    <3>1. n \in 1..m /\ n - 1 \in 0..m
      BY <1>2, <2>2
    <3>2. f[n] = G[<<n, f[n - 1]>>] /\ f[n - 1] \in Nat
      BY <1>6, <3>1 DEF Follows
    <3>3. f[n] = f[n - 1] + bytes[n]
      BY <1>5, <3>1, <3>2
    <3> QED BY <1>3, <2>2, <3>1, <3>3
  <2> QED BY <2>1, <2>2
<1>8. BytesUpTo(s, f)
  <2>1. f = [n \in 0..m |-> f[n]]
    BY <1>6 DEF Follows
  <2>2. [n \in 0..m |-> f[n]]
         = [n \in 0..m |-> IF n = 0 THEN 0 ELSE f[n - 1] + (IF LastCount(s, n) THEN s[n].bytes ELSE 0)]
    BY <1>7
  <2> QED BY <2>1, <2>2, Zenon DEF BytesUpTo, m
<1>9. BytesUpTo(s, total)
  BY <1>8, Zenon DEF total
<1>10. ASSUME NEW n \in 0..m
       PROVE  total[n] = IF n = 0 THEN 0 ELSE total[n - 1] + (IF LastCount(s, n) THEN s[n].bytes ELSE 0)
  BY <1>9 DEF BytesUpTo, m
<1> DEFINE S == {n \in 0..m : total[n] = f[n]}
<1>11. 0 \in S
  BY <1>2, <1>7, <1>10
<1>12. ASSUME NEW n \in 1..m, n - 1 \in S PROVE n \in S
  <2>1. n # 0 /\ n \in 0..m /\ total[n - 1] = f[n - 1]
    BY <1>2, <1>12
  <2> QED BY <1>7, <1>10, <2>1
<1> HIDE DEF S
<1>13. 0..m \subseteq S
  BY <1>2, <1>11, <1>12, UpTo
<1>14. total[m] = f[m]
  BY <1>2, <1>13 DEF S
<1>15. f \in [0..m -> Nat] /\ f[0] = 0
  BY <1>6 DEF Follows
<1>16. ASSUME NEW n \in 1..m PROVE f[n] = f[n - 1] + (IF LastCount(s, n) THEN s[n].bytes ELSE 0)
  <2>1. n \in 0..m /\ n # 0
    OBVIOUS
  <2> QED BY <1>7, <2>1
<1> QED BY <1>1, <1>14, <1>15, <1>16 DEF m

LEMMA BytesOfNone == BytesRead(<<>>) = 0
<1> DEFINE N == {}
<1>1. <<>> \in Seq(EventsOf(N))
  OBVIOUS
<1> HIDE DEF N
<1>2. PICK none : none = <<>>
  OBVIOUS
<1>3. PICK f \in [0..Len(none) -> Nat] : f[0] = 0 /\ BytesRead(none) = f[Len(none)]
  BY <1>1, <1>2, BytesAre
<1>4. Len(none) = 0
  BY <1>2
<1> QED BY <1>2, <1>3, <1>4

\* One event more, after which the same events have the last count of a file.
LEMMA BytesAdd ==
    ASSUME NEW N, NEW s \in Seq(EventsOf(N)), NEW e \in EventsOf(N),
           \A n \in 1..Len(s) : LastCount(Append(s, e), n) = LastCount(s, n),
           LastCount(Append(s, e), Len(s) + 1) = ~e.added
    PROVE  BytesRead(Append(s, e)) = BytesRead(s) + (IF e.added THEN 0 ELSE e.bytes)
<1> DEFINE t == Append(s, e)
           m == Len(s)
<1>1. /\ t \in Seq(EventsOf(N)) /\ Len(t) = m + 1 /\ m \in Nat /\ t[m + 1] = e
      /\ \A n \in 1..m : t[n] = s[n]
  OBVIOUS
<1>2. (\A n \in 1..m : LastCount(t, n) = LastCount(s, n)) /\ LastCount(t, m + 1) = ~e.added
  OBVIOUS
<1>3. PICK f \in [0..Len(s) -> Nat] : /\ f[0] = 0 /\ BytesRead(s) = f[Len(s)]
                                      /\ \A n \in 1..Len(s) : f[n] = f[n - 1] + (IF LastCount(s, n) THEN s[n].bytes ELSE 0)
  BY BytesAre
<1>11. t \in Seq(EventsOf(N))
  BY <1>1
<1> HIDE DEF t
<1>4. PICK g \in [0..Len(t) -> Nat] : /\ g[0] = 0 /\ BytesRead(t) = g[Len(t)]
                                      /\ \A n \in 1..Len(t) : g[n] = g[n - 1] + (IF LastCount(t, n) THEN t[n].bytes ELSE 0)
  BY <1>11, BytesAre
<1> HIDE DEF m
<1> DEFINE S == {n \in 0..m : g[n] = f[n]}
<1>5. 0 \in S
  BY <1>1, <1>3, <1>4
<1>6. ASSUME NEW n \in 1..m, n - 1 \in S PROVE n \in S
  <2>1. n \in 1..(m + 1) /\ n \in 0..m /\ t[n] = s[n] /\ LastCount(t, n) = LastCount(s, n) /\ g[n - 1] = f[n - 1]
    BY <1>1, <1>2, <1>6
  <2>2. g[n] = g[n - 1] + (IF LastCount(t, n) THEN t[n].bytes ELSE 0)
    BY <1>1, <1>4, <2>1
  <2>3. f[n] = f[n - 1] + (IF LastCount(s, n) THEN s[n].bytes ELSE 0)
    BY <1>3 DEF m
  <2> QED BY <2>1, <2>2, <2>3
<1> HIDE DEF S
<1>7. 0..m \subseteq S
  BY <1>1, <1>5, <1>6, UpTo
<1>8. g[m] = f[m]
  BY <1>1, <1>7 DEF S
<1>9. g[m + 1] = g[m] + (IF LastCount(t, m + 1) THEN t[m + 1].bytes ELSE 0)
  <2>1. m + 1 \in 1..Len(t) /\ (m + 1) - 1 = m
    BY <1>1
  <2> QED BY <1>4, <2>1
<1>10. f[m] \in Nat /\ e.bytes \in Nat
  BY <1>1, <1>3 DEF m, EventsOf
<1> QED BY <1>1, <1>2, <1>3, <1>4, <1>8, <1>9, <1>10 DEF t, m

\* One count more of the file that was counted last.
LEMMA BytesReplace ==
    ASSUME NEW N, NEW s \in Seq(EventsOf(N)), NEW e \in EventsOf(N), ~e.added,
           NEW j \in 1..Len(s), LastCount(s, j), ~LastCount(Append(s, e), j),
           \A n \in 1..Len(s) : n # j => LastCount(Append(s, e), n) = LastCount(s, n),
           LastCount(Append(s, e), Len(s) + 1)
    PROVE  BytesRead(Append(s, e)) = BytesRead(s) - s[j].bytes + e.bytes
<1> DEFINE t == Append(s, e)
           m == Len(s)
<1>1. /\ t \in Seq(EventsOf(N)) /\ Len(t) = m + 1 /\ m \in Nat /\ t[m + 1] = e /\ j \in 1..m
      /\ \A n \in 1..m : t[n] = s[n]
  OBVIOUS
<1>2. LastCount(s, j) /\ ~LastCount(t, j) /\ LastCount(t, m + 1) /\ \A n \in 1..m : n # j => LastCount(t, n) = LastCount(s, n)
  OBVIOUS
<1>3. PICK f \in [0..Len(s) -> Nat] : /\ f[0] = 0 /\ BytesRead(s) = f[Len(s)]
                                      /\ \A n \in 1..Len(s) : f[n] = f[n - 1] + (IF LastCount(s, n) THEN s[n].bytes ELSE 0)
  BY BytesAre
<1>4. s[j].bytes \in Nat /\ e.bytes \in Nat /\ \A n \in 1..m : s[n].bytes \in Nat
  <2>1. \A n \in 1..m : s[n] \in EventsOf(N)
    OBVIOUS
  <2> QED BY <2>1 DEF EventsOf
<1>11. t \in Seq(EventsOf(N))
  BY <1>1
<1> HIDE DEF t
<1>5. PICK g \in [0..Len(t) -> Nat] : /\ g[0] = 0 /\ BytesRead(t) = g[Len(t)]
                                      /\ \A n \in 1..Len(t) : g[n] = g[n - 1] + (IF LastCount(t, n) THEN t[n].bytes ELSE 0)
  BY <1>11, BytesAre
<1> HIDE DEF m
<1> DEFINE S == {n \in 0..m : g[n] = f[n] - (IF n >= j THEN s[j].bytes ELSE 0)}
<1>6. 0 \in S
  BY <1>1, <1>3, <1>5
<1>7. ASSUME NEW n \in 1..m, n - 1 \in S PROVE n \in S
  <2>1. n \in 1..(m + 1) /\ n \in 0..m /\ t[n] = s[n] /\ n - 1 \in 0..m /\ n \in Nat /\ j \in Nat
    <3>1. m \in Nat /\ j \in 1..m /\ t[n] = s[n]
      BY <1>1
    <3> QED BY <3>1
  <2>2. g[n] = g[n - 1] + (IF LastCount(t, n) THEN t[n].bytes ELSE 0)
    BY <1>1, <1>5, <2>1
  <2>3. f[n] = f[n - 1] + (IF LastCount(s, n) THEN s[n].bytes ELSE 0) /\ f[n] \in Nat /\ f[n - 1] \in Nat
    BY <1>3, <2>1 DEF m
  <2>4. g[n - 1] = f[n - 1] - (IF n - 1 >= j THEN s[j].bytes ELSE 0)
    BY <1>7
  <2>5. CASE n = j
    <3>1. g[n] = g[n - 1] /\ g[n - 1] = f[n - 1] /\ f[n] = f[n - 1] + s[j].bytes /\ n >= j
      BY <1>2, <1>5, <2>1, <2>2, <2>3, <2>4, <2>5
    <3>2. g[n] = f[n] - s[j].bytes
      <4> DEFINE b == s[j].bytes
      <4>1. b \in Nat /\ f[n - 1] \in Nat /\ g[n] = f[n - 1] /\ f[n] = f[n - 1] + b
        BY <1>4, <2>3, <3>1
      <4> HIDE DEF b
      <4>2. g[n] = f[n] - b
        BY <4>1
      <4> QED BY <4>2 DEF b
    <3> QED BY <2>1, <3>1, <3>2
  <2>6. CASE n # j
    <3>1. LastCount(t, n) = LastCount(s, n) /\ (n - 1 >= j <=> n >= j)
      BY <1>2, <2>1, <2>6
    <3>2. s[n].bytes \in Nat
      BY <1>4
    <3>3. s[j].bytes \in Nat /\ t[n].bytes = s[n].bytes
      BY <1>4, <2>1
    <3>4. g[n] = f[n] - (IF n >= j THEN s[j].bytes ELSE 0)
      <4> DEFINE more == IF LastCount(s, n) THEN s[n].bytes ELSE 0
                 less == IF n >= j THEN s[j].bytes ELSE 0
      <4>1. more \in Nat /\ less \in Nat /\ g[n] = g[n - 1] + more /\ f[n] = f[n - 1] + more /\ g[n - 1] = f[n - 1] - less
        BY <2>2, <2>3, <2>4, <3>1, <3>2, <3>3
      <4> HIDE DEF more, less
      <4>2. g[n] = f[n] - less
        BY <2>3, <4>1
      <4> QED BY <4>2 DEF less
    <3> QED BY <2>1, <3>4
  <2> QED BY <2>5, <2>6
<1> HIDE DEF S
<1>8. 0..m \subseteq S
  BY <1>1, <1>6, <1>7, UpTo
<1>9. g[m] = f[m] - s[j].bytes
  BY <1>1, <1>8 DEF S
<1>10. g[m + 1] = g[m] + t[m + 1].bytes
  <2>1. m + 1 \in 1..Len(t) /\ (m + 1) - 1 = m
    BY <1>1
  <2> QED BY <1>2, <1>5, <2>1
<1> QED BY <1>1, <1>3, <1>5, <1>9, <1>10 DEF t, m

\* No event of s counts; or the j-th is the last one that does.
Uncounted(s) == \A n \in 1..Len(s) : s[n].added
Counted(s, j) == j \in 1..Len(s) /\ ~s[j].added /\ \A n \in (j + 1)..Len(s) : s[n].added

LEMMA NextOfOneMore ==
    ASSUME NEW N, NEW s \in Seq(EventsOf(N)), NEW e \in EventsOf(N), NEW n \in 1..Len(s)
    PROVE  LET t == Append(s, e) IN
           /\ \A j \in 1..Len(s) : NextCount(t, n, j) <=> NextCount(s, n, j)
           /\ NextCount(t, n, Len(s) + 1) <=> ~e.added /\ \A k \in (n + 1)..Len(s) : s[k].added
           /\ LastCount(t, n) <=> LastCount(s, n) /\ (NextCount(t, n, Len(s) + 1) => e.name # s[n].name)
<1> DEFINE t == Append(s, e)
           m == Len(s)
<1>1. /\ Len(t) = m + 1 /\ m \in Nat /\ t[m + 1] = e /\ n \in 1..m
      /\ \A k \in 1..m : t[k] = s[k]
  OBVIOUS
<1> HIDE DEF t, m
<1>2. ASSUME NEW j \in 1..m PROVE NextCount(t, n, j) <=> NextCount(s, n, j)
  <2>1. t[j] = s[j] /\ \A k \in (n + 1)..(j - 1) : k \in 1..m /\ t[k] = s[k]
    BY <1>1
  <2> QED BY <2>1 DEF NextCount
<1>3. NextCount(t, n, m + 1) <=> ~e.added /\ \A k \in (n + 1)..m : s[k].added
  <2>1. n < m + 1 /\ (m + 1) - 1 = m /\ \A k \in (n + 1)..m : t[k] = s[k]
    BY <1>1
  <2> QED BY <1>1, <2>1 DEF NextCount
<1>4. LastCount(t, n) <=> LastCount(s, n) /\ (NextCount(t, n, m + 1) => e.name # s[n].name)
  <2>1. \A j : j \in 1..Len(t) <=> j \in 1..m \/ j = m + 1
    BY <1>1
  <2>2. LastCount(t, n) <=> ~s[n].added /\ \A j \in 1..Len(t) : NextCount(t, n, j) => t[j].name # s[n].name
    BY <1>1 DEF LastCount
  <2>3. LastCount(s, n) <=> ~s[n].added /\ \A j \in 1..m : NextCount(s, n, j) => s[j].name # s[n].name
    BY DEF LastCount, m
  <2>4. ASSUME LastCount(t, n) PROVE LastCount(s, n) /\ (NextCount(t, n, m + 1) => e.name # s[n].name)
    BY <1>1, <1>2, <2>1, <2>2, <2>3, <2>4
  <2>5. ASSUME LastCount(s, n), NextCount(t, n, m + 1) => e.name # s[n].name PROVE LastCount(t, n)
    BY <1>1, <1>2, <2>1, <2>2, <2>3, <2>5
  <2> QED BY <2>4, <2>5
<1> QED BY <1>2, <1>3, <1>4 DEF t, m

\* What one event more does to the sum.
LEMMA BytesOfOneMore ==
    ASSUME NEW N, NEW s \in Seq(EventsOf(N)), NEW e \in EventsOf(N)
    PROVE  /\ e.added => BytesRead(Append(s, e)) = BytesRead(s)
           /\ ~e.added /\ Uncounted(s) => BytesRead(Append(s, e)) = BytesRead(s) + e.bytes
           /\ \A j : ~e.added /\ Counted(s, j) /\ s[j].name # e.name => BytesRead(Append(s, e)) = BytesRead(s) + e.bytes
           /\ \A j : ~e.added /\ Counted(s, j) /\ s[j].name = e.name => BytesRead(Append(s, e)) = BytesRead(s) - s[j].bytes + e.bytes
<1> DEFINE t == Append(s, e)
           m == Len(s)
<1>1. /\ Len(t) = m + 1 /\ m \in Nat /\ t[m + 1] = e
      /\ \A k \in 1..m : t[k] = s[k]
  OBVIOUS
<1>2. ASSUME NEW n \in 1..m
      PROVE  /\ NextCount(t, n, m + 1) <=> ~e.added /\ \A k \in (n + 1)..m : s[k].added
             /\ LastCount(t, n) <=> LastCount(s, n) /\ (NextCount(t, n, m + 1) => e.name # s[n].name)
  BY NextOfOneMore
<1>3. BytesRead(s) \in Nat
  <2>1. PICK f \in [0..m -> Nat] : BytesRead(s) = f[m]
    BY BytesAre
  <2> QED BY <1>1, <2>1
<1> HIDE DEF t, m
<1>4. LastCount(t, m + 1) = ~e.added
  <2>1. \A j \in 1..Len(t) : ~NextCount(t, m + 1, j)
    BY <1>1 DEF NextCount
  <2> QED BY <1>1, <2>1 DEF LastCount
<1>5. ASSUME \A n \in 1..m : LastCount(t, n) = LastCount(s, n)
      PROVE  BytesRead(t) = BytesRead(s) + (IF e.added THEN 0 ELSE e.bytes)
  BY <1>4, <1>5, BytesAdd DEF t, m
<1>6. ASSUME e.added PROVE BytesRead(t) = BytesRead(s)
  <2>1. \A n \in 1..m : LastCount(t, n) = LastCount(s, n)
    BY <1>2, <1>6 DEF LastCount
  <2> QED BY <1>3, <1>5, <1>6, <2>1
<1>7. ASSUME ~e.added, Uncounted(s) PROVE BytesRead(t) = BytesRead(s) + e.bytes
  <2>1. \A n \in 1..m : LastCount(t, n) = LastCount(s, n)
    BY <1>1, <1>7 DEF LastCount, Uncounted, m
  <2> QED BY <1>5, <1>7, <2>1
<1>8. ASSUME NEW j, ~e.added, Counted(s, j), s[j].name # e.name PROVE BytesRead(t) = BytesRead(s) + e.bytes
  <2>1. ASSUME NEW n \in 1..m PROVE LastCount(t, n) = LastCount(s, n)
    <3>1. n # j => ~NextCount(t, n, m + 1) \/ s[n].added
      BY <1>1, <1>2, <1>8 DEF Counted, m
    <3>2. LastCount(s, n) => ~s[n].added
      BY DEF LastCount
    <3> QED BY <1>2, <1>8, <3>1, <3>2 DEF LastCount
  <2> QED BY <1>5, <1>8, <2>1
<1>9. ASSUME NEW j, ~e.added, Counted(s, j), s[j].name = e.name
      PROVE  BytesRead(t) = BytesRead(s) - s[j].bytes + e.bytes
  <2>1. j \in 1..m /\ ~s[j].added /\ \A n \in (j + 1)..m : s[n].added
    BY <1>9 DEF Counted, m
  <2>2. LastCount(s, j)
    <3>1. \A i \in 1..m : ~NextCount(s, j, i)
      BY <1>1, <2>1 DEF NextCount
    <3> QED BY <2>1, <3>1 DEF LastCount, m
  <2>3. NextCount(t, j, m + 1) /\ ~LastCount(t, j)
    BY <1>2, <1>9, <2>1
  <2>4. ASSUME NEW n \in 1..m, n # j PROVE LastCount(t, n) = LastCount(s, n)
    <3>1. ~NextCount(t, n, m + 1) \/ s[n].added
      BY <1>1, <1>2, <2>1, <2>4
    <3>2. LastCount(s, n) => ~s[n].added
      BY DEF LastCount
    <3>3. LastCount(t, n) <=> LastCount(s, n)
      BY <1>2, <3>1, <3>2
    <3> QED BY <3>3 DEF LastCount
  <2> QED BY <1>4, <1>9, <2>1, <2>2, <2>3, <2>4, BytesReplace DEF t, m
<1> QED BY <1>6, <1>7, <1>8, <1>9 DEF t

\* Moving an event from the channel to the client, and putting one there.
LEMMA Moved ==
    ASSUME NEW S, NEW s \in Seq(S), NEW q \in Seq(S), q # <<>>
    PROVE  /\ Append(s, Head(q)) \in Seq(S) /\ Tail(q) \in Seq(S) /\ Len(Tail(q)) = Len(q) - 1
           /\ Append(s, Head(q)) \o Tail(q) = s \o q
OBVIOUS

LEMMA PutLast ==
    ASSUME NEW S, NEW s \in Seq(S), NEW q \in Seq(S), NEW e \in S
    PROVE  s \o Append(q, e) = Append(s \o q, e) /\ s \o q \in Seq(S) /\ s \o Append(q, e) \in Seq(S)
OBVIOUS

LEMMA TwoNames == ASSUME NEW x, NEW y PROVE <<x>> \o <<y>> = <<x, y>>
<1> DEFINE s == <<x>>
           t == <<y>>
           S == {x, y}
<1>1. s \in Seq(S) /\ t \in Seq(S) /\ Len(s) = 1 /\ Len(t) = 1 /\ s[1] = x /\ t[1] = y
  OBVIOUS
<1> HIDE DEF s, t, S
<1>2. s \o t \in Seq(S) /\ Len(s \o t) = 2 /\ (s \o t)[1] = x /\ (s \o t)[2] = y
  <2>1. \A p, q \in Seq(S) : /\ p \o q \in Seq(S) /\ Len(p \o q) = Len(p) + Len(q)
                              /\ \A i \in 1..(Len(p) + Len(q)) : (p \o q)[i] = IF i <= Len(p) THEN p[i] ELSE q[i - Len(p)]
    OBVIOUS
  <2>2. s \o t \in Seq(S) /\ Len(s \o t) = 2
    BY <1>1, <2>1
  <2>3. \A i \in 1..2 : (s \o t)[i] = IF i <= 1 THEN s[i] ELSE t[i - 1]
    BY <1>1, <2>1
  <2> QED BY <1>1, <2>2, <2>3
<1> DEFINE u == s \o t
<1>3. u \in Seq(S) /\ Len(u) = 2 /\ u[1] = x /\ u[2] = y
  BY <1>2
<1> HIDE DEF u
<1>4. u = <<x, y>>
  BY <1>3
<1> QED BY <1>4 DEF u, s, t

-----------------------------------------------------------------------------
(* `ipfs add` on the node.                                                 *)

\* All names an event can have.
AcNames ==
    UNION {{<<AcEntries[i].name>>} \cup {<<AcEntries[i].name, AcEntries[i].files[j].name>> : j \in 1..Len(AcEntries[i].files)}
           : i \in 1..Len(AcEntries)}
AcEvents == EventsOf(AcNames)
AdderPcs == {"idle", "lock", "file", "relock", "read", "node", "dirs", "finish", "files"}

\* Where the command, its adder and their channel can be together.
AcShape ==
    /\ AcTypeOK
    /\ acChan \in [queue : Seq(AcEvents), closed : BOOLEAN] /\ acSent \in Seq(AcEvents)
    /\ acAdder \in [pc : AdderPcs, file : Nat, bytes : Nat, last : Nat]
    /\ acAdder.pc # "idle" => acRun \in {"range", "error"} /\ acErr = "none" /\ ~acChan.closed
    /\ acAdder.pc # "idle" /\ acRun = "error" => acGone
    /\ acAdder.pc \in {"file", "relock", "read", "node"} => acAdder.file \in 1..Len(Entry.files)
    /\ acAdder.pc = "lock" => acAdder.file = 1
    /\ acAdder.pc \in {"idle", "files"} => ~acLock
    /\ acRun = "range" /\ acAdder.pc = "idle" => acErr # "none"
    /\ acRun = "range" \/ acAdder.pc # "idle" => acEntry \in 1..Len(AcEntries)
    /\ acRun = "ok" => acEntry = Len(AcEntries) + 1 /\ Len(AcEntries) > 0

\* What is told of the arguments before the one at hand, and of this one.
Before == AddedTo(acOpts.silent)[acEntry - 1]
FilesTold(n) == IF acOpts.silent THEN <<>> ELSE FilesOf(Entry, n)
InHand ==
    IF acErr = "ok" \/ acAdder.pc \in {"finish", "files"} THEN AddedOf(acOpts.silent, Entry)
    ELSE IF acAdder.pc = "dirs" THEN FilesTold(Len(Entry.files))
    ELSE IF acAdder.pc \in {"file", "relock", "read", "node"} THEN FilesTold(acAdder.file - 1)
    ELSE <<>>
AcTold ==
    /\ acRun \in {"idle", "iter", "ok"} => NamesAdded(acSent) = Before
    /\ acRun = "range" /\ acErr # "error" => NamesAdded(acSent \o acChan.queue) = Before \o InHand

\* What --to-files has put into MFS: all arguments so far, or the only one.
EntriesDone == IF acRun = "range" /\ acErr = "ok" THEN acEntry ELSE acEntry - 1
AcPutThere ==
    acRun \in {"idle", "iter", "ok"} \/ (acRun = "range" /\ acErr # "error") =>
        /\ acOpts.dest = "dir" \/ acRun = "idle" => acMfs = {AcEntries[i].name : i \in 1..EntriesDone}
        /\ acOpts.dest = "new" \/ acRun = "idle" => EntriesDone = 0 \/ (EntriesDone = 1 /\ acPut)

AcStart == acRun = "idle" => acEntry = 1 /\ acSent = <<>> /\ acMfs = {}

AcInv == AcShape /\ AcTold /\ AcPutThere /\ AcStart

LEMMA EntryIs ==
    ASSUME NEW i \in 1..Len(AcEntries)
    PROVE  LET e == AcEntries[i] IN
           /\ e.dir \in BOOLEAN /\ Len(e.files) \in Nat /\ (e.dir \/ Len(e.files) = 1)
           /\ e.files # <<>> => Len(e.files) >= 1
           /\ <<e.name>> \in AcNames
           /\ \A j \in 1..Len(e.files) : <<e.name, e.files[j].name>> \in AcNames
<1> DEFINE e == AcEntries[i]
<1>1. e.dir \in BOOLEAN /\ Len(e.files) \in Nat /\ (e.dir \/ Len(e.files) = 1)
  BY AddAssumption DEF IsSeq
<1>2. <<e.name>> \in AcNames /\ \A j \in 1..Len(e.files) : <<e.name, e.files[j].name>> \in AcNames
  BY DEF AcNames
<1>3. ASSUME Len(e.files) = 0 PROVE e.files = <<>>
  <2>1. e.files = [j \in 1..Len(e.files) |-> e.files[j]]
    BY AddAssumption DEF IsSeq
  <2>2. e.files = [j \in 1..0 |-> e.files[j]]
    BY <1>3, <2>1
  <2> QED BY <2>2
<1> QED BY <1>1, <1>2, <1>3

LEMMA FilesAre ==
    ASSUME NEW i \in 1..Len(AcEntries), NEW n \in 0..Len(AcEntries[i].files)
    PROVE  LET e == AcEntries[i] IN
           /\ FilesOf(e, n) \in Seq(AcNames) /\ Len(FilesOf(e, n)) = n
           /\ n = 0 => FilesOf(e, n) = <<>>
           /\ n # 0 => FilesOf(e, n) = Append(FilesOf(e, n - 1),
                                            IF e.dir THEN <<e.name, e.files[n].name>> ELSE <<e.name>>)
<1> DEFINE e == AcEntries[i]
           name == [j \in 1..Len(e.files) |-> IF e.dir THEN <<e.name, e.files[j].name>> ELSE <<e.name>>]
<1>1. Len(e.files) \in Nat /\ n \in Nat /\ n <= Len(e.files)
  BY EntryIs
<1>2. \A j \in 1..Len(e.files) : name[j] \in AcNames
  BY EntryIs
<1>3. FilesOf(e, n) = [j \in 1..n |-> name[j]] /\ FilesOf(e, n - 1) = [j \in 1..(n - 1) |-> name[j]]
  BY <1>1 DEF FilesOf
<1>4. n # 0 => name[n] = IF e.dir THEN <<e.name, e.files[n].name>> ELSE <<e.name>>
  BY <1>1
<1> HIDE DEF name, e
<1>5. [j \in 1..n |-> name[j]] \in Seq(AcNames) /\ Len([j \in 1..n |-> name[j]]) = n
  BY <1>1, <1>2
<1>6. n = 0 => [j \in 1..n |-> name[j]] = <<>>
  OBVIOUS
<1>7. n # 0 => [j \in 1..n |-> name[j]] = Append([j \in 1..(n - 1) |-> name[j]], name[n])
  BY <1>1
<1> QED BY <1>3, <1>4, <1>5, <1>6, <1>7 DEF e

LEMMA AddedIs ==
    ASSUME NEW i \in 1..Len(AcEntries), NEW silent \in BOOLEAN
    PROVE  LET e == AcEntries[i]
               files == IF silent THEN <<>> ELSE FilesOf(e, Len(e.files)) IN
           /\ files \in Seq(AcNames) /\ AddedOf(silent, e) \in Seq(AcNames)
           /\ AddedOf(silent, e) = IF e.dir THEN Append(files, <<e.name>>) ELSE files
<1> DEFINE e == AcEntries[i]
           files == IF silent THEN <<>> ELSE FilesOf(e, Len(e.files))
<1>1. Len(e.files) \in Nat /\ e.dir \in BOOLEAN /\ <<e.name>> \in AcNames
  BY EntryIs
<1>2. files \in Seq(AcNames)
  <2>1. Len(e.files) \in 0..Len(e.files)
    BY <1>1
  <2>2. FilesOf(e, Len(e.files)) \in Seq(AcNames)
    BY <2>1, FilesAre
  <2>3. <<>> \in Seq(AcNames)
    OBVIOUS
  <2> QED BY <2>2, <2>3
<1>3. AddedOf(silent, e) = files \o (IF e.dir THEN <<<<e.name>>>> ELSE <<>>)
  BY DEF AddedOf
<1> HIDE DEF files, e
<1>4. AddedOf(silent, e) = IF e.dir THEN Append(files, <<e.name>>) ELSE files
  BY <1>1, <1>2, <1>3
<1> QED BY <1>1, <1>2, <1>4 DEF files, e

\* AddedTo is what its recursive equations say.
AddedUpTo(silent, f) ==
    f = [n \in 0..Len(AcEntries) |-> IF n = 0 THEN <<>> ELSE f[n - 1] \o AddedOf(silent, AcEntries[n])]

LEMMA AddedAre ==
    ASSUME NEW silent \in BOOLEAN
    PROVE  LET f == AddedTo(silent) IN
           /\ f[0] = <<>>
           /\ \A n \in 0..Len(AcEntries) : f[n] \in Seq(AcNames)
           /\ \A n \in 1..Len(AcEntries) : f[n] = f[n - 1] \o AddedOf(silent, AcEntries[n])
<1> DEFINE m == Len(AcEntries)
           V == Seq(AcNames)
           of == [n \in 1..Len(AcEntries) |-> AddedOf(silent, AcEntries[n])]
           G == [x \in Nat \X V |-> IF x[1] \in 1..Len(AcEntries) THEN x[2] \o of[x[1]] ELSE x[2]]
           added == CHOOSE f : AddedUpTo(silent, f)
<1>1. AddedTo(silent) = added
  BY DEF AddedTo, AddedUpTo
<1>2. m \in Nat
  BY AddAssumption DEF IsSeq
<1>3. \A n \in 1..m : of[n] \in V /\ of[n] = AddedOf(silent, AcEntries[n])
  BY AddedIs
<1> HIDE DEF of
<1>4. G \in [Nat \X V -> V]
  <2> SUFFICES ASSUME NEW x \in Nat \X V PROVE G[x] \in V
    OBVIOUS
  <2>1. x[2] \in V /\ (x[1] \in 1..m => of[x[1]] \in V)
    BY <1>3
  <2> QED BY <2>1
<1>5. ASSUME NEW n \in 1..m, NEW k \in V PROVE G[<<n, k>>] = k \o of[n]
  <2>1. <<n, k>> \in Nat \X V
    BY <1>2
  <2> QED BY <2>1
<1>6. PICK none : none = <<>> /\ none \in V
  <2>1. <<>> \in Seq(AcNames)
    OBVIOUS
  <2> HIDE DEF G, added
  <2> QED BY <2>1
<1> HIDE DEF G, added, m, V
<1>7. PICK f : Follows(f, V, none, G, m)
  BY <1>2, <1>4, <1>6, Recursion
<1>8. ASSUME NEW n \in 0..m PROVE f[n] = IF n = 0 THEN <<>> ELSE f[n - 1] \o AddedOf(silent, AcEntries[n])
  <2>1. CASE n = 0
    BY <1>6, <1>7, <2>1 DEF Follows
  <2>2. CASE n # 0
    <3>1. n \in 1..m /\ n - 1 \in 0..m
      BY <1>2, <2>2
    <3>2. f[n] = G[<<n, f[n - 1]>>] /\ f[n - 1] \in V
      BY <1>7, <3>1 DEF Follows
    <3>3. f[n] = f[n - 1] \o of[n]
      BY <1>5, <3>1, <3>2
    <3> QED BY <1>3, <2>2, <3>1, <3>3
  <2> QED BY <2>1, <2>2
<1>9. AddedUpTo(silent, f)
  <2>1. f = [n \in 0..m |-> f[n]]
    BY <1>7 DEF Follows
  <2>2. [n \in 0..m |-> f[n]] = [n \in 0..m |-> IF n = 0 THEN <<>> ELSE f[n - 1] \o AddedOf(silent, AcEntries[n])]
    BY <1>8
  <2> QED BY <2>1, <2>2, Zenon DEF AddedUpTo, m
<1>10. AddedUpTo(silent, added)
  BY <1>9, Zenon DEF added
<1>11. ASSUME NEW n \in 0..m PROVE added[n] = IF n = 0 THEN <<>> ELSE added[n - 1] \o AddedOf(silent, AcEntries[n])
  BY <1>10 DEF AddedUpTo, m
<1> DEFINE S == {n \in 0..m : added[n] = f[n]}
<1>12. 0 \in S
  BY <1>2, <1>8, <1>11
<1>13. ASSUME NEW n \in 1..m, n - 1 \in S PROVE n \in S
  <2>1. n # 0 /\ n \in 0..m /\ added[n - 1] = f[n - 1]
    BY <1>2, <1>13
  <2> QED BY <1>8, <1>11, <2>1
<1> HIDE DEF S
<1>14. 0..m \subseteq S
  BY <1>2, <1>12, <1>13, UpTo
<1>15. added[0] = <<>>
  BY <1>2, <1>11
<1>16. ASSUME NEW n \in 0..m PROVE added[n] \in V
  <2>1. added[n] = f[n]
    BY <1>14 DEF S
  <2> QED BY <1>7, <2>1 DEF Follows
<1>17. ASSUME NEW n \in 1..m PROVE added[n] = added[n - 1] \o AddedOf(silent, AcEntries[n])
  <2>1. n \in 0..m /\ n # 0
    OBVIOUS
  <2> QED BY <1>11, <2>1
<1> QED BY <1>1, <1>15, <1>16, <1>17 DEF m, V

LEMMA AddInit == AcInit => AcInv
<1> SUFFICES ASSUME AcInit PROVE AcInv
  OBVIOUS
<1>1. Len(AcEntries) \in Nat /\ adderOutChanSize \in Nat /\ 1 \in 1..(Len(AcEntries) + 1) /\ Len(<<>>) <= adderOutChanSize
  BY AddAssumption DEF IsSeq
<1>2. acOpts \in AcOptions
  <2>1. PICK d \in AcDests : TRUE
    BY AddAssumption
  <2>2. [pin |-> FALSE, onlyHash |-> FALSE, progress |-> FALSE, silent |-> FALSE, dest |-> d] \in AcOptions
    BY <2>1 DEF AcOptions
  <2> QED BY <2>2, Zenon DEF AcInit
<1>3. <<>> \in Seq(AcEvents)
  OBVIOUS
<1>4. AcTypeOK
  BY <1>1, <1>2 DEF AcInit, AcTypeOK, NoAdder
<1>5. AcShape
  BY <1>1, <1>3, <1>4 DEF AcInit, AcShape, NoAdder, AdderPcs
<1>6. AcTold
  <2>1. acOpts.silent \in BOOLEAN
    BY <1>2 DEF AcOptions
  <2>2. acEntry - 1 = 0
    BY DEF AcInit
  <2>3. Before = <<>>
    BY <2>1, <2>2, AddedAre DEF Before
  <2> QED BY <2>3, NamesOfNone DEF AcInit, AcTold
<1>7. AcPutThere
  BY DEF AcInit, AcPutThere, EntriesDone
<1> QED BY <1>5, <1>6, <1>7 DEF AcInv, AcInit, AcStart

\* What a step finds.
LEMMA AcHere ==
    ASSUME AcInv
    PROVE  /\ AcTypeOK /\ AcShape /\ AcTold /\ AcPutThere /\ AcStart
           /\ acOpts.silent \in BOOLEAN /\ acOpts \in AcOptions /\ Len(AcEntries) \in Nat /\ acEntry \in 1..(Len(AcEntries) + 1)
           /\ acChan.queue \in Seq(AcEvents) /\ acSent \in Seq(AcEvents) /\ acChan.closed \in BOOLEAN
           /\ acChan = [queue |-> acChan.queue, closed |-> acChan.closed]
           /\ acAdder = [pc |-> acAdder.pc, file |-> acAdder.file, bytes |-> acAdder.bytes, last |-> acAdder.last]
           /\ acAdder.pc \in AdderPcs /\ acAdder.file \in Nat /\ acAdder.bytes \in Nat /\ acAdder.last \in Nat
           /\ acSent \o acChan.queue \in Seq(AcEvents)
           /\ Len(acChan.queue) \in Nat /\ Len(acChan.queue) <= adderOutChanSize /\ adderOutChanSize \in Nat
<1>1. AcTypeOK /\ AcShape /\ AcTold /\ AcPutThere /\ AcStart
  BY DEF AcInv, AcShape
<1>2. Len(AcEntries) \in Nat /\ adderOutChanSize \in Nat
  BY AddAssumption DEF IsSeq
<1>3. acOpts \in AcOptions /\ acOpts.silent \in BOOLEAN /\ acEntry \in 1..(Len(AcEntries) + 1) /\ Len(acChan.queue) <= adderOutChanSize
  BY <1>1 DEF AcTypeOK, AcOptions
<1>4. acChan \in [queue : Seq(AcEvents), closed : BOOLEAN] /\ acSent \in Seq(AcEvents)
      /\ acAdder \in [pc : AdderPcs, file : Nat, bytes : Nat, last : Nat]
  BY <1>1 DEF AcShape
<1>5. acChan = [queue |-> acChan.queue, closed |-> acChan.closed] /\ acChan.queue \in Seq(AcEvents) /\ acChan.closed \in BOOLEAN
  BY <1>4
<1>6. /\ acAdder = [pc |-> acAdder.pc, file |-> acAdder.file, bytes |-> acAdder.bytes, last |-> acAdder.last]
      /\ acAdder.pc \in AdderPcs /\ acAdder.file \in Nat /\ acAdder.bytes \in Nat /\ acAdder.last \in Nat
  BY <1>4
<1>7. acSent \o acChan.queue \in Seq(AcEvents) /\ Len(acChan.queue) \in Nat
  BY <1>4, <1>5
<1> QED BY <1>1, <1>2, <1>3, <1>4, <1>5, <1>6, <1>7

\* A control part of the invariant that names what it needs of every variable.
ChanOK(c) == c \in [queue : Seq(AcEvents), closed : BOOLEAN] /\ Len(c.queue) <= adderOutChanSize
AdderOK(a) == a \in [pc : AdderPcs, file : Nat, bytes : Nat, last : Nat]

LEMMA SendsWell ==
    ASSUME AcInv, NEW e \in AcEvents, Send(e)
    PROVE  /\ ChanOK(acChan') /\ acChan'.closed = acChan.closed /\ acChan'.queue = Append(acChan.queue, e)
           /\ NamesAdded(acSent \o acChan'.queue) = IF e.added THEN Append(NamesAdded(acSent \o acChan.queue), e.name)
                                                    ELSE NamesAdded(acSent \o acChan.queue)
<1>1. /\ acChan.queue \in Seq(AcEvents) /\ acSent \in Seq(AcEvents) /\ acChan.closed \in BOOLEAN
      /\ acChan = [queue |-> acChan.queue, closed |-> acChan.closed] /\ acSent \o acChan.queue \in Seq(AcEvents)
      /\ Len(acChan.queue) \in Nat /\ adderOutChanSize \in Nat
  BY AcHere
<1>2. Len(acChan.queue) < adderOutChanSize /\ acChan' = [acChan EXCEPT !.queue = Append(acChan.queue, e)]
  BY DEF Send
<1>3. acChan' = [queue |-> Append(acChan.queue, e), closed |-> acChan.closed]
  BY <1>1, <1>2
<1>4. Append(acChan.queue, e) \in Seq(AcEvents) /\ Len(Append(acChan.queue, e)) = Len(acChan.queue) + 1
  BY <1>1
<1>5. ChanOK(acChan') /\ acChan'.closed = acChan.closed /\ acChan'.queue = Append(acChan.queue, e)
  <2> DEFINE q == Append(acChan.queue, e)
  <2>1. q \in Seq(AcEvents) /\ Len(q) <= adderOutChanSize
    BY <1>1, <1>2, <1>4
  <2> HIDE DEF q
  <2>2. acChan' = [queue |-> q, closed |-> acChan.closed]
    BY <1>3 DEF q
  <2> QED BY <1>1, <2>1, <2>2 DEF ChanOK, q
<1>6. acSent \o Append(acChan.queue, e) = Append(acSent \o acChan.queue, e)
  BY <1>1, PutLast
<1>7. acSent \o acChan.queue \in Seq(EventsOf(AcNames)) /\ e \in EventsOf(AcNames)
  BY <1>1 DEF AcEvents
<1>8. NamesAdded(Append(acSent \o acChan.queue, e)) = IF e.added THEN Append(NamesAdded(acSent \o acChan.queue), e.name)
                                                      ELSE NamesAdded(acSent \o acChan.queue)
  BY <1>7, NamesOfOneMore
<1> QED BY <1>5, <1>6, <1>8

LEMMA EventIs ==
    ASSUME AcInv, acEntry \in 1..Len(AcEntries), NEW added \in BOOLEAN, NEW bytes \in Nat
    PROVE  /\ Entry.dir => AddEvent(EntryName(<<>>), added, bytes) \in AcEvents /\ EntryName(<<>>) = <<Entry.name>>
           /\ acAdder.file \in 1..Len(Entry.files) =>
                 /\ AddEvent(EntryName(<<File.name>>), added, bytes) \in AcEvents
                 /\ EntryName(<<File.name>>) = IF Entry.dir THEN <<Entry.name, Entry.files[acAdder.file].name>> ELSE <<Entry.name>>
<1>1. /\ <<Entry.name>> \in AcNames /\ Entry.dir \in BOOLEAN
      /\ \A j \in 1..Len(Entry.files) : <<Entry.name, Entry.files[j].name>> \in AcNames
  BY EntryIs DEF Entry
<1>2. Entry.dir => EntryName(<<>>) = <<Entry.name>>
  BY DEF EntryName
<1>3. EntryName(<<File.name>>) = IF Entry.dir THEN <<Entry.name, Entry.files[acAdder.file].name>> ELSE <<Entry.name>>
  <2>1. \A x, y : <<x>> \o <<y>> = <<x, y>>
    BY TwoNames
  <2>2. EntryName(<<File.name>>) = IF Entry.dir THEN <<Entry.name>> \o <<File.name>> ELSE <<Entry.name>>
    BY DEF EntryName
  <2> QED BY <2>1, <2>2 DEF File
<1>4. \A name \in AcNames : AddEvent(name, added, bytes) \in AcEvents
  BY DEF AddEvent, AcEvents, EventsOf
<1> QED BY <1>1, <1>2, <1>3, <1>4

\* How a step that leaves the command, the argument and the options alone keeps
\* the shape: what the adder and the channel have become is right.
AdderFits ==
    /\ ChanOK(acChan') /\ AdderOK(acAdder') /\ acErr' \in {"none", "ok", "error"} /\ acLock' \in BOOLEAN
    /\ acAdder'.pc # "idle" => acErr' = "none" /\ ~acChan'.closed
    /\ acAdder'.pc \in {"file", "relock", "read", "node"} => acAdder'.file \in 1..Len(Entry.files)
    /\ acAdder'.pc \in {"idle", "files"} => ~acLock'
    /\ acAdder'.pc = "idle" => acErr' # "none"
    /\ acAdder'.pc # "lock"

LEMMA AdderKeepsShape ==
    ASSUME AcInv, acAdder.pc # "idle", UNCHANGED <<acRun, acOpts, acEntry, acGc, acSent, acGone>>, acPut' \in BOOLEAN, AdderFits
    PROVE  AcShape'
<1>1. acRun \in {"range", "error"} /\ acEntry \in 1..Len(AcEntries) /\ (acRun = "error" => acGone)
  BY AcHere DEF AcShape
<1>2. ChanOK(acChan') /\ AdderOK(acAdder') /\ acErr' \in {"none", "ok", "error"} /\ acLock' \in BOOLEAN
  BY DEF AdderFits
<1>3. AcTypeOK'
  BY <1>2, AcHere DEF AcTypeOK, ChanOK, AdderOK, AdderPcs
<1>4. acChan' \in [queue : Seq(AcEvents), closed : BOOLEAN] /\ acAdder' \in [pc : AdderPcs, file : Nat, bytes : Nat, last : Nat]
  BY <1>2 DEF ChanOK, AdderOK
<1>5. acSent' \in Seq(AcEvents) /\ Entry' = Entry
  BY AcHere DEF Entry
<1> QED BY <1>1, <1>3, <1>4, <1>5 DEF AcShape, AdderFits

LEMMA OverFits ==
    ASSUME AcInv, NEW result \in {"ok", "error"}, AdderOver(result), acLock' \in BOOLEAN, ~acLock'
    PROVE  AdderFits
<1>1. acChan' = [queue |-> acChan.queue, closed |-> TRUE] /\ ChanOK(acChan')
  BY AcHere DEF AdderOver, ChanOK
<1>2. acAdder' = NoAdder /\ AdderOK(acAdder') /\ acAdder'.pc = "idle"
  BY DEF AdderOver, NoAdder, AdderOK, AdderPcs
<1>3. acErr' = result
  BY DEF AdderOver
<1> QED BY <1>1, <1>2, <1>3 DEF AdderFits

LEMMA AdderShape == ASSUME AcInv, AdderStep \/ AdderFail PROVE AcShape'
<1>0. acAdder.pc # "idle"
  BY DEF AdderStep, AdderFail, AdderLock, AdderFile, AdderRead, AdderNode, AdderDirs, AdderFinish, ToFiles
<1> DEFINE a == acAdder
<1>1. /\ acErr = "none" /\ ~acChan.closed /\ acEntry \in 1..Len(AcEntries) /\ ChanOK(acChan) /\ acLock \in BOOLEAN /\ acPut \in BOOLEAN
      /\ a.pc \in {"file", "relock", "read", "node"} => a.file \in 1..Len(Entry.files)
      /\ a = [pc |-> a.pc, file |-> a.file, bytes |-> a.bytes, last |-> a.last]
      /\ a.file \in Nat /\ a.bytes \in Nat /\ a.last \in Nat
  BY <1>0, AcHere DEF AcShape, AcTypeOK, ChanOK
<1>2. Len(Entry.files) \in Nat /\ (Entry.files # <<>> => 1 \in 1..Len(Entry.files))
  BY <1>1, EntryIs DEF Entry
<1>3. ASSUME NEW pc \in AdderPcs, NEW file \in Nat, NEW bytes \in Nat, NEW last \in Nat
      PROVE  AdderOK([pc |-> pc, file |-> file, bytes |-> bytes, last |-> last])
  BY DEF AdderOK
<1> HIDE DEF a
<1>4. \A pc, file, bytes, last : LET r == [pc |-> pc, file |-> file, bytes |-> bytes, last |-> last] IN
          r.pc = pc /\ r.file = file
  OBVIOUS
<1>5. a.pc = "lock" => a.file = 1
  BY <1>0, AcHere DEF AcShape, a
<1>6. CASE AdderLock
  <2> DEFINE pc == IF a.pc = "relock" THEN AddKind ELSE IF Entry.files = <<>> THEN "dirs" ELSE "file"
  <2>1. acAdder' = [pc |-> pc, file |-> a.file, bytes |-> a.bytes, last |-> a.last] /\ acLock' \in BOOLEAN /\ a.pc \in {"lock", "relock"}
        /\ UNCHANGED <<acRun, acOpts, acEntry, acChan, acErr, acGc, acMfs, acPut, acSent, acGone>>
    BY <1>1, <1>6, AcHere DEF AdderLock, a, Pins, AcOptions
  <2>2. AddKind \in {"node", "read"}
    BY DEF AddKind
  <2>3. pc \in {"node", "read", "dirs", "file"} /\ pc \in AdderPcs /\ (pc \in {"file", "read", "node"} => a.file \in 1..Len(Entry.files))
    BY <1>1, <1>2, <1>5, <2>1, <2>2 DEF AdderPcs
  <2> HIDE DEF pc
  <2>4. AdderOK(acAdder') /\ acAdder'.pc = pc /\ acAdder'.file = a.file
    BY <1>1, <1>3, <1>4, <2>1, <2>3
  <2>5. AdderFits
    BY <1>1, <2>1, <2>3, <2>4 DEF AdderFits
  <2> QED BY <1>0, <1>1, <2>1, <2>5, AdderKeepsShape
<1>7. CASE AdderFile
  <2>1. PICK pc \in {"relock", "node", "read"} : acAdder' = [acAdder EXCEPT !.pc = pc]
    BY <1>7 DEF AdderFile, AddKind
  <2>2. /\ acAdder' = [pc |-> pc, file |-> a.file, bytes |-> a.bytes, last |-> a.last] /\ acLock' \in BOOLEAN /\ a.pc = "file"
        /\ UNCHANGED <<acRun, acOpts, acEntry, acChan, acErr, acGc, acMfs, acPut, acSent, acGone>>
    BY <1>1, <1>7, <2>1 DEF AdderFile, a
  <2>3. pc \in AdderPcs
    BY <2>1 DEF AdderPcs
  <2>4. AdderOK(acAdder') /\ acAdder'.pc = pc /\ acAdder'.file = a.file
    BY <1>1, <1>3, <1>4, <2>2, <2>3
  <2>5. AdderFits
    BY <1>1, <2>1, <2>2, <2>4 DEF AdderFits
  <2> QED BY <1>0, <1>1, <2>2, <2>5, AdderKeepsShape
<1>8. CASE AdderRead
  <2> DEFINE eof == a.bytes = File.size
             bytes == IF eof THEN a.bytes ELSE a.bytes + 1
             report == acOpts.progress /\ (eof \/ bytes - a.last >= progressReaderIncrement)
             last == IF report THEN bytes ELSE a.last
             pc == IF eof THEN "node" ELSE "read"
  <2>1. /\ acAdder' = [pc |-> pc, file |-> a.file, bytes |-> bytes, last |-> last]
        /\ a.pc = "read"
        /\ IF report THEN Send(AddEvent(EntryName(<<File.name>>), FALSE, bytes)) ELSE UNCHANGED acChan
        /\ UNCHANGED <<acRun, acOpts, acEntry, acErr, acLock, acGc, acMfs, acPut, acSent, acGone>>
    BY <1>1, <1>8 DEF AdderRead, a
  <2>2. bytes \in Nat /\ last \in Nat /\ pc \in AdderPcs /\ pc \in {"node", "read"}
    BY <1>1 DEF AdderPcs
  <2> HIDE DEF eof, bytes, report, last, pc
  <2>3. AdderOK(acAdder') /\ acAdder'.pc = pc /\ acAdder'.file = a.file
    BY <1>1, <1>3, <1>4, <2>1, <2>2
  <2>4. ChanOK(acChan') /\ acChan'.closed = acChan.closed
    <3>1. CASE report
      <4>1. AddEvent(EntryName(<<File.name>>), FALSE, bytes) \in AcEvents
        BY <1>1, <2>1, <2>2, EventIs DEF a
      <4> QED BY <2>1, <3>1, <4>1, SendsWell
    <3>2. CASE ~report
      BY <1>1, <2>1, <3>2
    <3> QED BY <3>1, <3>2
  <2>5. AdderFits
    BY <1>1, <2>1, <2>2, <2>3, <2>4 DEF AdderFits
  <2> QED BY <1>0, <1>1, <2>1, <2>5, AdderKeepsShape
<1>9. CASE AdderNode
  <2> DEFINE pc == IF a.file = Len(Entry.files) THEN "dirs" ELSE "file"
             file == IF a.file = Len(Entry.files) THEN 1 ELSE a.file + 1
  <2>1. /\ acAdder' = [pc |-> pc, file |-> file, bytes |-> 0, last |-> 0]
        /\ a.pc = "node"
        /\ IF acOpts.silent THEN UNCHANGED acChan ELSE Send(AddEvent(EntryName(<<File.name>>), TRUE, 0))
        /\ UNCHANGED <<acRun, acOpts, acEntry, acErr, acLock, acGc, acMfs, acPut, acSent, acGone>>
    BY <1>1, <1>9 DEF AdderNode, NoAdder, a
  <2>2. file \in Nat /\ pc \in AdderPcs /\ pc \in {"dirs", "file"} /\ (pc = "file" => file \in 1..Len(Entry.files))
    BY <1>1, <1>2, <2>1 DEF AdderPcs
  <2> HIDE DEF pc, file
  <2>3. AdderOK(acAdder') /\ acAdder'.pc = pc /\ acAdder'.file = file
    BY <1>3, <1>4, <2>1, <2>2
  <2>4. ChanOK(acChan') /\ acChan'.closed = acChan.closed
    <3>1. AddEvent(EntryName(<<File.name>>), TRUE, 0) \in AcEvents
      BY <1>1, <2>1, EventIs DEF a
    <3> QED BY <1>1, <2>1, <3>1, SendsWell
  <2>5. AdderFits
    BY <1>1, <2>1, <2>2, <2>3, <2>4 DEF AdderFits
  <2> QED BY <1>0, <1>1, <2>1, <2>5, AdderKeepsShape
<1>10. CASE AdderDirs
  <2>1. /\ acAdder' = [pc |-> "finish", file |-> 1, bytes |-> 0, last |-> 0]
        /\ IF Entry.dir THEN Send(AddEvent(EntryName(<<>>), TRUE, 0)) ELSE UNCHANGED acChan
        /\ UNCHANGED <<acRun, acOpts, acEntry, acErr, acLock, acGc, acMfs, acPut, acSent, acGone>>
    BY <1>10 DEF AdderDirs, NoAdder
  <2>2. AdderOK(acAdder') /\ acAdder'.pc = "finish"
    BY <2>1 DEF AdderOK, AdderPcs
  <2>3. ChanOK(acChan') /\ acChan'.closed = acChan.closed
    <3>1. Entry.dir => AddEvent(EntryName(<<>>), TRUE, 0) \in AcEvents
      BY <1>1, EventIs
    <3> QED BY <1>1, <2>1, <3>1, SendsWell
  <2>4. AdderFits
    BY <1>1, <2>1, <2>2, <2>3 DEF AdderFits
  <2> QED BY <1>0, <1>1, <2>1, <2>4, AdderKeepsShape
<1>11. CASE AdderFinish
  <2>1. ~acLock' /\ acLock' \in BOOLEAN /\ UNCHANGED <<acRun, acOpts, acEntry, acGc, acMfs, acPut, acSent, acGone>>
    BY <1>11 DEF AdderFinish
  <2>2. CASE AdderOver("ok")
    <3>1. AdderFits
      BY <2>1, <2>2, OverFits
    <3> QED BY <1>0, <1>1, <2>1, <3>1, AdderKeepsShape
  <2>3. CASE acAdder' = [NoAdder EXCEPT !.pc = "files"] /\ UNCHANGED <<acErr, acChan>>
    <3>1. AdderOK(acAdder') /\ acAdder'.pc = "files"
      BY <2>3 DEF AdderOK, AdderPcs, NoAdder
    <3>2. AdderFits
      BY <1>1, <2>1, <2>3, <3>1 DEF AdderFits
    <3> QED BY <1>0, <1>1, <2>1, <3>2, AdderKeepsShape
  <2> QED BY <1>11, <2>2, <2>3 DEF AdderFinish
<1>12. CASE ToFiles
  <2>1. UNCHANGED <<acRun, acOpts, acEntry, acLock, acGc, acSent, acGone>> /\ acPut' \in BOOLEAN /\ a.pc = "files"
    BY <1>1, <1>12 DEF ToFiles, a
  <2>2. PICK result \in {"ok", "error"} : AdderOver(result)
    BY <1>12 DEF ToFiles
  <2>3. ~acLock' /\ acLock' \in BOOLEAN
    BY <1>1, <2>1, AcHere DEF AcShape, a
  <2>4. AdderFits
    BY <2>2, <2>3, OverFits
  <2> QED BY <1>0, <1>1, <2>1, <2>4, AdderKeepsShape
<1>13. CASE AdderFail
  <2>1. ~acLock' /\ acLock' \in BOOLEAN /\ UNCHANGED <<acRun, acOpts, acEntry, acGc, acMfs, acPut, acSent, acGone>> /\ AdderOver("error")
    BY <1>13 DEF AdderFail
  <2>2. AdderFits
    BY <2>1, OverFits
  <2> QED BY <1>0, <1>1, <2>1, <2>2, AdderKeepsShape
<1> QED BY <1>6, <1>7, <1>8, <1>9, <1>10, <1>11, <1>12, <1>13 DEF AdderStep

\* The steps of the command, of its client and of the collector.
LEMMA RunShape ==
    ASSUME AcInv, \/ \E o \in AcOptions : AddCmd(o)
                  \/ RunNext \/ RunEnd \/ RunErr \/ (\E ok \in BOOLEAN : RunEvent(ok)) \/ RunBroken \/ ClientGoes \/ Collector
    PROVE  AcShape'
<1> DEFINE n == Len(AcEntries)
<1>1. /\ AcTypeOK /\ AcShape /\ n \in Nat /\ acEntry \in 1..(n + 1) /\ Len(acChan.queue) \in Nat /\ adderOutChanSize \in Nat \ {0}
      /\ Len(acChan.queue) <= adderOutChanSize /\ acChan.queue \in Seq(AcEvents) /\ acSent \in Seq(AcEvents)
  BY AcHere, AddAssumption
<1>2. acChan = [queue |-> acChan.queue, closed |-> acChan.closed] /\ acChan.closed \in BOOLEAN
  BY AcHere
<1>3. AcEntries # <<>> => n # 0
  <2>1. n = 0 => AcEntries = <<>>
    <3>1. AcEntries = [i \in 1..n |-> AcEntries[i]]
      BY AddAssumption DEF IsSeq
    <3> QED BY <3>1
  <2> QED BY <2>1
<1> HIDE DEF n
<1>4. CASE \E o \in AcOptions : AddCmd(o)
  <2>1. AcTypeOK'
    BY <1>1, <1>4 DEF AddCmd, AcTypeOK
  <2> QED BY <1>1, <1>4, <2>1 DEF AddCmd, AcShape, Entry
<1>5. CASE RunNext
  <2>1. acChan' = [queue |-> <<>>, closed |-> FALSE] /\ acChan'.queue = <<>> /\ Len(acChan'.queue) <= adderOutChanSize
    BY <1>1, <1>5 DEF RunNext
  <2>2. acAdder' = [pc |-> "lock", file |-> 1, bytes |-> 0, last |-> 0]
    BY <1>5 DEF RunNext, NoAdder
  <2>3. AcTypeOK'
    BY <1>1, <1>5, <2>1, <2>2 DEF RunNext, AcTypeOK
  <2>4. acChan' \in [queue : Seq(AcEvents), closed : BOOLEAN]
    BY <2>1
  <2>5. acAdder' \in [pc : AdderPcs, file : Nat, bytes : Nat, last : Nat]
    BY <2>2 DEF AdderPcs
  <2>6. acEntry' \in 1..n /\ acRun' = "range" /\ acErr' = "none" /\ UNCHANGED <<acLock, acSent>>
    BY <1>1, <1>5 DEF RunNext, n
  <2> QED BY <1>1, <2>1, <2>2, <2>3, <2>4, <2>5, <2>6 DEF AcShape, n
<1>6. CASE RunEnd
  <2>1. acEntry = n + 1 /\ acRun = "iter" /\ (acRun' = "ok" => n > 0) /\ acRun' \in {"ok", "error"}
        /\ UNCHANGED <<acOpts, acEntry, acChan, acErr, acAdder, acLock, acGc, acMfs, acPut, acSent, acGone>>
    BY <1>1, <1>3, <1>6 DEF RunEnd, n
  <2>2. AcTypeOK'
    BY <1>1, <2>1 DEF AcTypeOK
  <2> QED BY <1>1, <2>1, <2>2 DEF AcShape, n, Entry
<1>7. CASE RunBroken
  <2>1. AcTypeOK'
    BY <1>1, <1>7 DEF RunBroken, AcTypeOK
  <2> QED BY <1>1, <1>7, <2>1 DEF RunBroken, AcShape, Entry
<1>8. CASE ClientGoes
  <2>1. AcTypeOK'
    BY <1>1, <1>8 DEF ClientGoes, AcTypeOK
  <2> QED BY <1>1, <1>8, <2>1 DEF ClientGoes, AcShape, Entry
<1>9. CASE Collector
  <2>1. AcTypeOK'
    BY <1>1, <1>9 DEF Collector, AcTypeOK
  <2> QED BY <1>1, <1>9, <2>1 DEF Collector, AcShape, Entry
<1>10. CASE RunErr
  <2>1. acChan.closed /\ acRun = "range" /\ UNCHANGED <<acOpts, acChan, acErr, acAdder, acLock, acGc, acMfs, acPut, acSent, acGone>>
    BY <1>10 DEF RunErr
  <2>2. acAdder.pc = "idle" /\ acEntry \in 1..n
    BY <1>1, <2>1 DEF AcShape, n
  <2>3. acRun' \in {"iter", "error"} /\ acEntry' \in 1..(n + 1)
    BY <1>1, <1>10, <2>2 DEF RunErr
  <2>4. AcTypeOK'
    BY <1>1, <2>1, <2>3 DEF AcTypeOK, n
  <2> QED BY <1>1, <2>1, <2>2, <2>3, <2>4 DEF AcShape, n, Entry
<1>11. CASE \E ok \in BOOLEAN : RunEvent(ok)
  <2>1. PICK ok \in BOOLEAN : RunEvent(ok)
    BY <1>11
  <2> DEFINE q == Tail(acChan.queue)
  <2>2. acChan' = [queue |-> q, closed |-> acChan.closed] /\ acRun = "range" /\ acChan.queue # <<>>
        /\ UNCHANGED <<acOpts, acEntry, acErr, acAdder, acLock, acGc, acMfs, acPut, acGone>>
    BY <1>2, <2>1 DEF RunEvent
  <2>3. (acRun' = "range" /\ acSent' = Append(acSent, Head(acChan.queue))) \/ (acRun' = "error" /\ acGone /\ acSent' = acSent)
    BY <2>1, <2>2 DEF RunEvent
  <2>4. q \in Seq(AcEvents) /\ Len(q) <= adderOutChanSize /\ Append(acSent, Head(acChan.queue)) \in Seq(AcEvents)
    BY <1>1, <2>2, Moved
  <2> HIDE DEF q
  <2>5. acSent' \in Seq(AcEvents) /\ acRun' \in {"range", "error"} /\ (acRun' = "error" => acGone')
    BY <1>1, <2>2, <2>3, <2>4
  <2>6. acChan' \in [queue : Seq(AcEvents), closed : BOOLEAN] /\ acChan'.closed = acChan.closed /\ Len(acChan'.queue) <= adderOutChanSize
    BY <1>2, <2>2, <2>4
  <2>7. AcTypeOK'
    BY <1>1, <1>2, <2>2, <2>5, <2>6 DEF AcTypeOK
  <2> QED BY <1>1, <2>2, <2>5, <2>6, <2>7 DEF AcShape, Entry
<1> QED BY <1>4, <1>5, <1>6, <1>7, <1>8, <1>9, <1>10, <1>11

\* What is told goes on with what the adder has in hand.
LEMMA InHandIs ==
    ASSUME AcInv, acEntry \in 1..Len(AcEntries), NEW n \in 0..Len(Entry.files)
    PROVE  /\ FilesTold(n) \in Seq(AcNames) /\ FilesTold(0) = <<>>
           /\ acOpts.silent => FilesTold(n) = <<>>
           /\ ~acOpts.silent /\ n # 0 =>
                 FilesTold(n) = Append(FilesTold(n - 1), IF Entry.dir THEN <<Entry.name, Entry.files[n].name>> ELSE <<Entry.name>>)
           /\ AddedOf(acOpts.silent, Entry) \in Seq(AcNames)
           /\ AddedOf(acOpts.silent, Entry) = IF Entry.dir THEN Append(FilesTold(Len(Entry.files)), <<Entry.name>>)
                                              ELSE FilesTold(Len(Entry.files))
<1>1. /\ FilesOf(Entry, n) \in Seq(AcNames)
      /\ n # 0 => FilesOf(Entry, n) = Append(FilesOf(Entry, n - 1), IF Entry.dir THEN <<Entry.name, Entry.files[n].name>> ELSE <<Entry.name>>)
  BY FilesAre DEF Entry
<1>2. FilesOf(Entry, 0) = <<>>
  <2>1. 0 \in 0..Len(Entry.files)
    BY EntryIs DEF Entry
  <2> QED BY <2>1, FilesAre DEF Entry
<1>3. acOpts.silent \in BOOLEAN
  BY AcHere
<1>4. /\ AddedOf(acOpts.silent, Entry) \in Seq(AcNames)
      /\ AddedOf(acOpts.silent, Entry) = IF Entry.dir THEN Append(FilesTold(Len(Entry.files)), <<Entry.name>>)
                                         ELSE FilesTold(Len(Entry.files))
  BY <1>3, AddedIs DEF Entry, FilesTold
<1>5. <<>> \in Seq(AcNames)
  OBVIOUS
<1> QED BY <1>1, <1>2, <1>4, <1>5 DEF FilesTold

LEMMA BeforeIs ==
    ASSUME AcInv
    PROVE  /\ Before \in Seq(AcNames)
           /\ acEntry \in 1..Len(AcEntries) => AddedTo(acOpts.silent)[acEntry] = Before \o AddedOf(acOpts.silent, Entry)
<1>1. acOpts.silent \in BOOLEAN /\ acEntry - 1 \in 0..Len(AcEntries)
  BY AcHere
<1> QED BY <1>1, AddedAre DEF Before, Entry

LEMMA ToldGoesOn ==
    ASSUME AcInv, acAdder.pc # "idle", UNCHANGED <<acRun, acOpts, acEntry, acSent>>, InHand \in Seq(AcNames),
           \/ acErr' = "error"
           \/ /\ NamesAdded(acSent \o acChan'.queue) = NamesAdded(acSent \o acChan.queue)
              /\ InHand' = InHand
           \/ \E name \in AcNames :
                 /\ NamesAdded(acSent \o acChan'.queue) = Append(NamesAdded(acSent \o acChan.queue), name)
                 /\ InHand' = Append(InHand, name)
    PROVE  AcTold'
<1>1. acErr = "none" /\ acRun \in {"range", "error"}
  BY AcHere DEF AcShape
<1>2. Before' = Before
  BY DEF Before
<1>3. SUFFICES ASSUME acRun = "range", acErr' # "error"
               PROVE  NamesAdded(acSent \o acChan'.queue) = Before \o InHand'
  BY <1>1, <1>2 DEF AcTold
<1>4. NamesAdded(acSent \o acChan.queue) = Before \o InHand /\ Before \in Seq(AcNames)
  BY <1>1, <1>3, AcHere, BeforeIs DEF AcTold
<1>5. CASE \E name \in AcNames :
                 /\ NamesAdded(acSent \o acChan'.queue) = Append(NamesAdded(acSent \o acChan.queue), name)
                 /\ InHand' = Append(InHand, name)
  <2>1. PICK name \in AcNames :
                 /\ NamesAdded(acSent \o acChan'.queue) = Append(NamesAdded(acSent \o acChan.queue), name)
                 /\ InHand' = Append(InHand, name)
    BY <1>5
  <2>2. Before \o Append(InHand, name) = Append(Before \o InHand, name)
    BY <1>4, PutLast
  <2> QED BY <1>4, <2>1, <2>2
<1> QED BY <1>3, <1>4, <1>5

LEMMA AdderTold == ASSUME AcInv, AdderStep \/ AdderFail PROVE AcTold'
<1> DEFINE a == acAdder
           m == Len(Entry.files)
           silent == acOpts.silent
           Names(q) == NamesAdded(acSent \o q)
<1>1. a.pc # "idle"
  BY DEF AdderStep, AdderFail, AdderLock, AdderFile, AdderRead, AdderNode, AdderDirs, AdderFinish, ToFiles
<1>2. /\ acErr = "none" /\ acEntry \in 1..Len(AcEntries)
      /\ a.pc \in {"file", "relock", "read", "node"} => a.file \in 1..m
      /\ a.pc = "lock" => a.file = 1
      /\ a = [pc |-> a.pc, file |-> a.file, bytes |-> a.bytes, last |-> a.last] /\ a.pc \in AdderPcs
  BY <1>1, AcHere DEF AcShape
<1>3. m \in Nat /\ (Entry.files = <<>> => m = 0) /\ Entry.dir \in BOOLEAN /\ <<Entry.name>> \in AcNames
      /\ \A j \in 1..m : <<Entry.name, Entry.files[j].name>> \in AcNames
  BY <1>2, EntryIs DEF Entry
<1>4. silent \in BOOLEAN
  BY AcHere
<1>5. \A n \in 0..m :
         /\ FilesTold(n) \in Seq(AcNames) /\ FilesTold(0) = <<>>
         /\ silent => FilesTold(n) = <<>>
         /\ ~silent /\ n # 0 =>
               FilesTold(n) = Append(FilesTold(n - 1), IF Entry.dir THEN <<Entry.name, Entry.files[n].name>> ELSE <<Entry.name>>)
  BY <1>2, InHandIs
<1>6. /\ AddedOf(silent, Entry) \in Seq(AcNames)
      /\ AddedOf(silent, Entry) = IF Entry.dir THEN Append(FilesTold(m), <<Entry.name>>) ELSE FilesTold(m)
  <2>1. 0 \in 0..m
    BY <1>3
  <2> QED BY <1>2, <2>1, InHandIs
<1> HIDE DEF a, m, silent, Names
<1>7. InHand = IF a.pc \in {"finish", "files"} THEN AddedOf(silent, Entry)
               ELSE IF a.pc = "dirs" THEN FilesTold(m)
               ELSE IF a.pc \in {"file", "relock", "read", "node"} THEN FilesTold(a.file - 1) ELSE <<>>
  BY <1>2 DEF InHand, a, m, silent
<1>8. InHand \in Seq(AcNames)
  <2>1. a.pc \in {"file", "relock", "read", "node"} => a.file - 1 \in 0..m
    BY <1>2, <1>3
  <2>2. m \in 0..m /\ <<>> \in Seq(AcNames)
    BY <1>3
  <2> QED BY <1>5, <1>6, <1>7, <2>1, <2>2
<1>9. ASSUME UNCHANGED <<acOpts, acEntry>>
      PROVE  InHand' = IF acErr' = "ok" \/ acAdder'.pc \in {"finish", "files"} THEN AddedOf(silent, Entry)
                       ELSE IF acAdder'.pc = "dirs" THEN FilesTold(m)
                       ELSE IF acAdder'.pc \in {"file", "relock", "read", "node"} THEN FilesTold(acAdder'.file - 1) ELSE <<>>
  BY <1>9 DEF InHand, FilesTold, Entry, m, silent
<1>10. ASSUME UNCHANGED <<acRun, acOpts, acEntry, acSent>>, acErr' = "error" \/ (Names(acChan'.queue) = Names(acChan.queue) /\ InHand' = InHand)
       PROVE  AcTold'
  BY <1>1, <1>8, <1>10, ToldGoesOn DEF a, Names
<1>11. ASSUME UNCHANGED <<acRun, acOpts, acEntry, acSent>>, NEW name \in AcNames,
              Names(acChan'.queue) = Append(Names(acChan.queue), name), InHand' = Append(InHand, name)
       PROVE  AcTold'
  BY <1>1, <1>8, <1>11, ToldGoesOn DEF a, Names
<1>12. CASE AdderLock
  <2>1. /\ UNCHANGED <<acRun, acOpts, acEntry, acChan, acErr, acSent>>
        /\ acAdder' = [a EXCEPT !.pc = IF a.pc = "relock" THEN AddKind ELSE IF Entry.files = <<>> THEN "dirs" ELSE "file"]
        /\ a.pc \in {"lock", "relock"}
    BY <1>12 DEF AdderLock, a
  <2>2. AddKind \in {"node", "read"}
    BY DEF AddKind
  <2>3. acAdder'.file = a.file /\ acAdder'.pc = IF a.pc = "relock" THEN AddKind ELSE IF Entry.files = <<>> THEN "dirs" ELSE "file"
    BY <1>2, <2>1
  <2>4. FilesTold(0) = <<>>
    <3>1. 0 \in 0..m
      BY <1>3
    <3> QED BY <1>5, <3>1
  <2>5. CASE a.pc = "relock"
    <3>1. InHand' = FilesTold(a.file - 1) /\ InHand = FilesTold(a.file - 1)
      BY <1>2, <1>7, <1>9, <2>1, <2>2, <2>3, <2>5
    <3> QED BY <1>10, <2>1, <3>1
  <2>6. CASE a.pc = "lock"
    <3>1. InHand = <<>> /\ a.file - 1 = 0
      BY <1>2, <1>7, <2>6
    <3>2. InHand' = FilesTold(0)
      BY <1>2, <1>3, <1>9, <2>1, <2>3, <2>6, <3>1
    <3> QED BY <1>10, <2>1, <2>4, <3>1, <3>2
  <2> QED BY <2>1, <2>5, <2>6
<1>13. CASE AdderFile
  <2>1. PICK pc \in {"relock", "node", "read"} : acAdder' = [a EXCEPT !.pc = pc]
    BY <1>13 DEF AdderFile, AddKind, a
  <2>2. UNCHANGED <<acRun, acOpts, acEntry, acChan, acErr, acSent>> /\ a.pc = "file"
    BY <1>13 DEF AdderFile, a
  <2>3. acAdder'.file = a.file /\ acAdder'.pc = pc
    BY <1>2, <2>1
  <2>4. InHand' = FilesTold(a.file - 1) /\ InHand = FilesTold(a.file - 1)
    BY <1>2, <1>7, <1>9, <2>1, <2>2, <2>3
  <2> QED BY <1>10, <2>2, <2>4
<1>14. CASE AdderRead
  <2> DEFINE eof == a.bytes = File.size
             bytes == IF eof THEN a.bytes ELSE a.bytes + 1
             report == acOpts.progress /\ (eof \/ bytes - a.last >= progressReaderIncrement)
             last == IF report THEN bytes ELSE a.last
             pc == IF eof THEN "node" ELSE "read"
             e == AddEvent(EntryName(<<File.name>>), FALSE, bytes)
  <2>1. /\ acAdder' = [a EXCEPT !.bytes = bytes, !.last = last, !.pc = pc]
        /\ IF report THEN Send(e) ELSE UNCHANGED acChan
    BY <1>14 DEF AdderRead, a
  <2>2. UNCHANGED <<acRun, acOpts, acEntry, acErr, acSent>> /\ a.pc = "read"
    BY <1>14 DEF AdderRead, a
  <2>6. bytes \in Nat /\ pc \in {"node", "read"}
    BY AcHere DEF a
  <2>7. e \in AcEvents
    BY <1>2, <2>2, <2>6, EventIs DEF a, m
  <2>8. e.added = FALSE
    BY DEF AddEvent
  <2> HIDE DEF eof, bytes, report, last, pc, e
  <2>3. acAdder'.file = a.file /\ acAdder'.pc = pc
    BY <1>2, <2>1
  <2>4. InHand' = FilesTold(a.file - 1) /\ InHand = FilesTold(a.file - 1)
    BY <1>2, <1>7, <1>9, <2>2, <2>3, <2>6
  <2>5. Names(acChan'.queue) = Names(acChan.queue)
    <3>1. CASE report
      BY <2>1, <2>7, <2>8, <3>1, SendsWell DEF Names
    <3> QED BY <2>1, <3>1
  <2> QED BY <1>10, <2>2, <2>4, <2>5
<1>15. CASE AdderNode
  <2>1. UNCHANGED <<acRun, acOpts, acEntry, acErr, acSent>> /\ a.pc = "node"
    BY <1>15 DEF AdderNode, a
  <2>2. acAdder' = IF a.file = m THEN [NoAdder EXCEPT !.pc = "dirs"] ELSE [NoAdder EXCEPT !.pc = "file", !.file = a.file + 1]
    BY <1>15 DEF AdderNode, a, m
  <2>3. (a.file = m /\ acAdder'.pc = "dirs") \/ (a.file # m /\ acAdder'.pc = "file" /\ acAdder'.file = a.file + 1)
    BY <2>2 DEF NoAdder
  <2>4. InHand = FilesTold(a.file - 1) /\ InHand' = FilesTold(a.file) /\ a.file \in 1..m /\ a.file \in 0..m /\ a.file # 0
    <3>1. a.file \in 1..m /\ a.file \in 0..m /\ a.file # 0 /\ (a.file + 1) - 1 = a.file
      BY <1>2, <1>3, <2>1
    <3> QED BY <1>2, <1>7, <1>9, <2>1, <2>3, <3>1
  <2>5. CASE silent
    <3>1. a.file - 1 \in 0..m
      BY <1>3, <2>4
    <3>2. InHand' = InHand
      BY <1>5, <2>4, <2>5, <3>1
    <3>3. acChan' = acChan
      BY <1>15, <2>5 DEF AdderNode, silent
    <3> QED BY <1>10, <2>1, <3>2, <3>3
  <2>6. CASE ~silent
    <3> DEFINE e == AddEvent(EntryName(<<File.name>>), TRUE, 0)
               name == IF Entry.dir THEN <<Entry.name, Entry.files[a.file].name>> ELSE <<Entry.name>>
    <3>1. InHand' = Append(InHand, name)
      BY <1>5, <2>4, <2>6
    <3>2. e \in AcEvents /\ EntryName(<<File.name>>) = name
      BY <1>2, <2>4, EventIs DEF a, m
    <3>3. e.added = TRUE /\ e.name = name /\ name \in AcNames
      BY <1>3, <2>4, <3>2 DEF AddEvent
    <3>4. Send(e)
      BY <1>15, <2>6 DEF AdderNode, silent
    <3> HIDE DEF e, name
    <3>5. Names(acChan'.queue) = Append(Names(acChan.queue), name)
      BY <3>2, <3>3, <3>4, SendsWell DEF Names
    <3> QED BY <1>11, <2>1, <3>1, <3>3, <3>5
  <2> QED BY <2>5, <2>6
<1>16. CASE AdderDirs
  <2>1. UNCHANGED <<acRun, acOpts, acEntry, acErr, acSent>> /\ a.pc = "dirs" /\ acAdder'.pc = "finish"
    BY <1>16 DEF AdderDirs, a, NoAdder
  <2>2. InHand = FilesTold(m) /\ InHand' = AddedOf(silent, Entry)
    BY <1>2, <1>7, <1>9, <2>1
  <2>3. CASE Entry.dir
    <3> DEFINE e == AddEvent(EntryName(<<>>), TRUE, 0)
               name == <<Entry.name>>
    <3>1. InHand' = Append(InHand, name) /\ name \in AcNames
      BY <1>3, <1>6, <2>2, <2>3
    <3>2. e \in AcEvents /\ EntryName(<<>>) = name
      BY <1>2, <2>3, EventIs
    <3>3. e.added = TRUE /\ e.name = name
      BY <3>2 DEF AddEvent
    <3>4. Send(e)
      BY <1>16, <2>3 DEF AdderDirs
    <3> HIDE DEF e, name
    <3>5. Names(acChan'.queue) = Append(Names(acChan.queue), name)
      BY <3>2, <3>3, <3>4, SendsWell DEF Names
    <3> QED BY <1>11, <2>1, <3>1, <3>5
  <2>4. CASE ~Entry.dir
    <3>1. InHand' = InHand /\ acChan' = acChan
      BY <1>6, <1>16, <2>2, <2>4 DEF AdderDirs
    <3> QED BY <1>10, <2>1, <3>1
  <2> QED BY <2>3, <2>4
<1>17. CASE AdderFinish
  <2>1. UNCHANGED <<acRun, acOpts, acEntry, acSent>> /\ a.pc = "finish" /\ acChan'.queue = acChan.queue
        /\ (acErr' = "ok" \/ acAdder'.pc = "files")
    BY <1>17, AcHere DEF AdderFinish, AdderOver, NoAdder, a
  <2>2. InHand' = InHand
    BY <1>7, <1>9, <2>1
  <2> QED BY <1>10, <2>1, <2>2
<1>18. CASE ToFiles
  <2>1. UNCHANGED <<acRun, acOpts, acEntry, acSent>> /\ a.pc = "files" /\ acChan'.queue = acChan.queue /\ acErr' \in {"ok", "error"}
    BY <1>18, AcHere DEF ToFiles, AdderOver, a
  <2>2. acErr' = "ok" => InHand' = InHand
    BY <1>7, <1>9, <2>1
  <2> QED BY <1>10, <2>1, <2>2
<1>19. CASE AdderFail
  <2>1. UNCHANGED <<acRun, acOpts, acEntry, acSent>> /\ acErr' = "error"
    BY <1>19 DEF AdderFail, AdderOver
  <2> QED BY <1>10, <2>1
<1> QED BY <1>12, <1>13, <1>14, <1>15, <1>16, <1>17, <1>18, <1>19 DEF AdderStep

\* What the command does to what is told.
LEMMA RunTold ==
    ASSUME AcInv, \/ \E o \in AcOptions : AddCmd(o)
                  \/ RunNext \/ RunEnd \/ RunErr \/ (\E ok \in BOOLEAN : RunEvent(ok)) \/ RunBroken \/ ClientGoes \/ Collector
    PROVE  AcTold'
<1>1. /\ acOpts.silent \in BOOLEAN /\ acEntry \in 1..(Len(AcEntries) + 1) /\ AcTold
      /\ acChan.queue \in Seq(AcEvents) /\ acSent \in Seq(AcEvents) /\ Before \in Seq(AcNames)
  BY AcHere, BeforeIs
<1>2. acSent \o <<>> = acSent /\ Before \o <<>> = Before
  BY <1>1
<1>3. ASSUME UNCHANGED <<acOpts, acEntry>> PROVE Before' = Before
  BY <1>3 DEF Before
<1>4. CASE \E o \in AcOptions : AddCmd(o)
  <2>1. PICK o \in AcOptions : acRun = "idle" /\ acRun' = "iter" /\ acOpts' = o /\ UNCHANGED <<acEntry, acSent>>
    BY <1>4 DEF AddCmd
  <2>2. acEntry = 1 /\ acSent = <<>>
    BY <2>1, AcHere DEF AcStart
  <2>3. o.silent \in BOOLEAN
    BY DEF AcOptions
  <2>4. Before' = AddedTo(o.silent)[0]
    BY <2>1, <2>2 DEF Before
  <2>5. Before' = <<>>
    BY <2>3, <2>4, AddedAre
  <2> QED BY <2>1, <2>2, <2>5, NamesOfNone DEF AcTold
<1>5. CASE RunNext
  <2>1. acRun = "iter" /\ acRun' = "range" /\ acErr' = "none" /\ UNCHANGED <<acOpts, acEntry, acSent>>
    BY <1>5 DEF RunNext
  <2>2. acChan'.queue = <<>> /\ acAdder'.pc = "lock"
    BY <1>5 DEF RunNext, NoAdder
  <2>3. InHand' = <<>>
    BY <2>1, <2>2 DEF InHand
  <2>4. NamesAdded(acSent) = Before /\ Before' = Before
    BY <1>1, <1>3, <2>1 DEF AcTold
  <2>5. NamesAdded(acSent' \o acChan'.queue) = Before' \o InHand'
    BY <1>2, <2>1, <2>2, <2>3, <2>4
  <2> QED BY <2>1, <2>5 DEF AcTold
<1>6. CASE RunEnd
  <2>1. acRun = "iter" /\ acRun' \in {"ok", "error"} /\ UNCHANGED <<acOpts, acEntry, acSent>>
    BY <1>6 DEF RunEnd
  <2> QED BY <1>1, <1>3, <2>1 DEF AcTold
<1>7. CASE RunErr
  <2>1. /\ acRun = "range" /\ acChan.queue = <<>> /\ UNCHANGED <<acOpts, acSent>>
        /\ (acErr = "ok" /\ acRun' = "iter" /\ acEntry' = acEntry + 1) \/ acRun' = "error"
    BY <1>7 DEF RunErr
  <2>2. CASE acErr = "ok" /\ acRun' = "iter" /\ acEntry' = acEntry + 1
    <3>1. acEntry \in 1..Len(AcEntries)
      BY <2>1, AcHere DEF AcShape
    <3>2. InHand = AddedOf(acOpts.silent, Entry)
      BY <2>2 DEF InHand
    <3>3. NamesAdded(acSent \o acChan.queue) = Before \o InHand
      BY <1>1, <2>1, <2>2 DEF AcTold
    <3>4. AddedTo(acOpts.silent)[acEntry] = Before \o AddedOf(acOpts.silent, Entry)
      BY <3>1, BeforeIs
    <3>5. Before' = AddedTo(acOpts.silent)[acEntry]
      <4>1. acEntry' - 1 = acEntry
        BY <1>1, <2>2
      <4> QED BY <2>1, <4>1 DEF Before
    <3>6. NamesAdded(acSent) = Before'
      BY <1>2, <2>1, <3>2, <3>3, <3>4, <3>5
    <3> QED BY <2>1, <2>2, <3>6 DEF AcTold
  <2> QED BY <2>1, <2>2 DEF AcTold
<1>8. CASE \E ok \in BOOLEAN : RunEvent(ok)
  <2>1. PICK ok \in BOOLEAN : RunEvent(ok)
    BY <1>8
  <2>2. /\ acRun = "range" /\ acChan.queue # <<>> /\ acChan'.queue = Tail(acChan.queue)
        /\ UNCHANGED <<acOpts, acEntry, acErr, acAdder>>
        /\ (acRun' = "range" /\ acSent' = Append(acSent, Head(acChan.queue))) \/ acRun' = "error"
    BY <2>1, AcHere DEF RunEvent
  <2>3. CASE acRun' = "range" /\ acSent' = Append(acSent, Head(acChan.queue))
    <3>1. acSent' \o acChan'.queue = acSent \o acChan.queue
      <4> DEFINE q == acChan.queue
      <4>1. q # <<>> /\ q \in Seq(AcEvents) /\ acSent \in Seq(AcEvents)
        BY <1>1, <2>2
      <4> HIDE DEF q
      <4>2. Append(acSent, Head(q)) \o Tail(q) = acSent \o q
        BY <4>1, Moved
      <4> QED BY <2>2, <2>3, <4>2 DEF q
    <3>2. InHand' = InHand /\ Before' = Before
      BY <1>3, <2>2 DEF InHand, FilesTold, Entry
    <3> QED BY <1>1, <2>2, <2>3, <3>1, <3>2 DEF AcTold
  <2> QED BY <2>2, <2>3 DEF AcTold
<1>9. CASE RunBroken
  BY <1>9 DEF RunBroken, AcTold
<1>10. CASE ClientGoes \/ Collector
  <2>1. UNCHANGED <<acRun, acOpts, acEntry, acChan, acErr, acAdder, acSent>>
    BY <1>10 DEF ClientGoes, Collector
  <2>2. InHand' = InHand /\ Before' = Before
    BY <1>3, <2>1 DEF InHand, FilesTold, Entry
  <2> QED BY <1>1, <2>1, <2>2 DEF AcTold
<1> QED BY <1>4, <1>5, <1>6, <1>7, <1>8, <1>9, <1>10

\* What is in MFS, or put there, follows the argument at hand.
LEMMA PutStep == ASSUME AcInv, AcNext PROVE AcPutThere'
<1> DEFINE Put(n) == {AcEntries[i].name : i \in 1..n}
<1>1. acEntry \in 1..(Len(AcEntries) + 1) /\ Len(AcEntries) \in Nat /\ AcPutThere /\ acEntry \in Nat
  BY AcHere
<1>2. ASSUME acAdder.pc # "idle"
      PROVE  /\ acErr = "none" /\ acRun \in {"range", "error"}
             /\ acRun = "range" =>
                   /\ acOpts.dest = "dir" => acMfs = Put(acEntry - 1)
                   /\ acOpts.dest = "new" => acEntry - 1 = 0 \/ (acEntry - 1 = 1 /\ acPut)
  <2>1. acErr = "none" /\ acRun \in {"range", "error"}
    BY <1>2, AcHere DEF AcShape
  <2>2. EntriesDone = acEntry - 1
    BY <2>1 DEF EntriesDone
  <2> QED BY <1>1, <2>1, <2>2 DEF AcPutThere
<1>3. ASSUME acAdder.pc # "idle", UNCHANGED <<acRun, acOpts, acEntry, acMfs, acPut>>, acErr' \in {"none", "error"}
      PROVE  AcPutThere'
  <2>1. acErr' # "error" => EntriesDone' = acEntry - 1
    BY <1>3 DEF EntriesDone
  <2> QED BY <1>2, <1>3, <2>1 DEF AcPutThere
<1>4. CASE AdderLock \/ AdderFile \/ AdderRead \/ AdderNode \/ AdderDirs \/ AdderFail
  <2>1. acAdder.pc # "idle" /\ UNCHANGED <<acRun, acOpts, acEntry, acMfs, acPut>> /\ (UNCHANGED acErr \/ acErr' = "error")
    BY <1>4 DEF AdderLock, AdderFile, AdderRead, AdderNode, AdderDirs, AdderFail, AdderOver
  <2> QED BY <1>2, <1>3, <2>1
<1>5. CASE AdderFinish
  <2>1. /\ acAdder.pc # "idle" /\ UNCHANGED <<acRun, acOpts, acEntry, acMfs, acPut>>
        /\ (acOpts.dest = "none" /\ acErr' = "ok") \/ UNCHANGED acErr
    BY <1>5 DEF AdderFinish, AdderOver
  <2>2. CASE acOpts.dest = "none"
    BY <1>2, <2>1, <2>2 DEF AcPutThere
  <2>3. CASE UNCHANGED acErr
    BY <1>2, <1>3, <2>1, <2>3
  <2> QED BY <2>1, <2>2, <2>3
<1>6. CASE ToFiles
  <2>1. acAdder.pc # "idle" /\ UNCHANGED <<acRun, acOpts, acEntry>>
        /\ (acErr' = "error" \/ (/\ acErr' = "ok" /\ acMfs' = acMfs \cup {ToFilesName} /\ acPut' = TRUE
                                 /\ acOpts.dest = "new" => ~acPut))
    BY <1>6 DEF ToFiles, AdderOver
  <2>2. acRun = "error" \/ acErr' = "error" => AcPutThere'
    BY <1>2, <2>1 DEF AcPutThere
  <2>3. CASE acRun = "range" /\ acErr' = "ok"
    <3>1. EntriesDone' = acEntry
      BY <2>1, <2>3 DEF EntriesDone
    <3>2. ASSUME acOpts.dest = "dir" PROVE acMfs' = Put(acEntry)
      <4>1. ToFilesName = AcEntries[acEntry].name
        BY <3>2 DEF ToFilesName, Entry
      <4>2. 1..acEntry = (1..(acEntry - 1)) \cup {acEntry}
        BY <1>1
      <4>3. Put(acEntry) = Put(acEntry - 1) \cup {AcEntries[acEntry].name}
        BY <4>2
      <4>4. acMfs = Put(acEntry - 1)
        BY <1>2, <2>1, <2>3, <3>2
      <4> QED BY <2>1, <2>3, <4>1, <4>3, <4>4
    <3>3. ASSUME acOpts.dest = "new" PROVE acEntry = 1 /\ acPut'
      BY <1>1, <1>2, <2>1, <2>3, <3>3
    <3> QED BY <2>1, <2>3, <3>1, <3>2, <3>3 DEF AcPutThere
  <2> QED BY <1>2, <2>1, <2>2, <2>3
<1>7. CASE \E o \in AcOptions : AddCmd(o)
  <2>1. PICK o \in AcOptions : acRun = "idle" /\ acRun' = "iter" /\ UNCHANGED <<acEntry, acMfs>>
    BY <1>7 DEF AddCmd
  <2>2. acEntry = 1 /\ acMfs = {}
    BY <2>1, AcHere DEF AcStart
  <2>3. EntriesDone' = 0
    BY <2>1, <2>2 DEF EntriesDone
  <2>4. Put(0) = {}
    OBVIOUS
  <2> QED BY <2>1, <2>2, <2>3, <2>4 DEF AcPutThere
<1>8. ASSUME UNCHANGED <<acOpts, acMfs, acPut>>, acRun # "idle", acRun' # "idle",
             acRun' = "error" \/ (/\ acRun \in {"iter", "ok"} \/ (acRun = "range" /\ acErr # "error")
                                  /\ EntriesDone' = EntriesDone)
      PROVE  AcPutThere'
  BY <1>1, <1>8 DEF AcPutThere
<1>9. CASE RunNext
  <2>1. UNCHANGED <<acOpts, acMfs, acPut, acEntry>> /\ acRun = "iter" /\ acRun' = "range" /\ acErr' = "none"
    BY <1>9 DEF RunNext
  <2>2. EntriesDone' = EntriesDone
    BY <2>1 DEF EntriesDone
  <2> QED BY <1>8, <2>1, <2>2
<1>10. CASE RunEnd
  <2>1. UNCHANGED <<acOpts, acMfs, acPut, acEntry>> /\ acRun = "iter" /\ acRun' \in {"ok", "error"}
    BY <1>10 DEF RunEnd
  <2>2. EntriesDone' = EntriesDone
    BY <2>1 DEF EntriesDone
  <2> QED BY <1>8, <2>1, <2>2
<1>11. CASE RunErr
  <2>1. /\ UNCHANGED <<acOpts, acMfs, acPut>> /\ acRun = "range"
        /\ acRun' = "error" \/ (acErr = "ok" /\ acRun' = "iter" /\ acEntry' = acEntry + 1)
    BY <1>11 DEF RunErr
  <2>2. acErr = "ok" /\ acRun' = "iter" /\ acEntry' = acEntry + 1 => EntriesDone' = EntriesDone
    BY <1>1, <2>1 DEF EntriesDone
  <2> QED BY <1>8, <2>1, <2>2
<1>12. CASE (\E ok \in BOOLEAN : RunEvent(ok)) \/ RunBroken
  <2>1. /\ UNCHANGED <<acOpts, acMfs, acPut, acEntry, acErr>> /\ acRun \in {"range", "iter"}
        /\ acRun' = "error" \/ (acRun = "range" /\ UNCHANGED acRun)
    BY <1>12 DEF RunEvent, RunBroken
  <2>2. UNCHANGED acRun => EntriesDone' = EntriesDone
    BY <2>1 DEF EntriesDone
  <2> QED BY <1>1, <2>1, <2>2 DEF AcPutThere
<1>13. CASE ClientGoes \/ Collector
  <2>1. UNCHANGED <<acRun, acOpts, acEntry, acErr, acMfs, acPut>>
    BY <1>13 DEF ClientGoes, Collector
  <2>2. EntriesDone' = EntriesDone
    BY <2>1 DEF EntriesDone
  <2> QED BY <1>1, <2>1, <2>2 DEF AcPutThere
<1> QED BY <1>4, <1>5, <1>6, <1>7, <1>9, <1>10, <1>11, <1>12, <1>13 DEF AcNext, AdderStep, RunStep

LEMMA AddStep == AcInv /\ [AcNext]_acVars => AcInv'
<1> SUFFICES ASSUME AcInv, [AcNext]_acVars PROVE AcInv'
  OBVIOUS
<1>1. CASE AcNext
  <2>1. AcShape' /\ AcTold'
    <3>1. CASE AdderStep \/ AdderFail
      BY <3>1, AdderShape, AdderTold
    <3>2. CASE ~(AdderStep \/ AdderFail)
      <4>1. \/ \E o \in AcOptions : AddCmd(o)
            \/ RunNext \/ RunEnd \/ RunErr \/ (\E ok \in BOOLEAN : RunEvent(ok)) \/ RunBroken \/ ClientGoes \/ Collector
        BY <1>1, <3>2 DEF AcNext, RunStep
      <4> QED BY <4>1, RunShape, RunTold
    <3> QED BY <3>1, <3>2
  <2>2. AcPutThere'
    BY <1>1, PutStep
  <2>3. AcStart'
    <3>1. AdderStep \/ AdderFail => acRun # "idle" /\ UNCHANGED acRun
      <4>1. AdderStep \/ AdderFail => acAdder.pc # "idle"
        BY DEF AdderStep, AdderFail, AdderLock, AdderFile, AdderRead, AdderNode, AdderDirs, AdderFinish, ToFiles
      <4>2. AdderStep \/ AdderFail => UNCHANGED acRun
        BY DEF AdderStep, AdderFail, AdderLock, AdderFile, AdderRead, AdderNode, AdderDirs, AdderFinish, ToFiles
      <4> QED BY <4>1, <4>2, AcHere DEF AcShape
    <3>2. ClientGoes \/ Collector => UNCHANGED <<acRun, acEntry, acSent, acMfs>>
      BY DEF ClientGoes, Collector
    <3>3. acRun' # "idle" \/ AdderStep \/ AdderFail \/ ClientGoes \/ Collector
      BY <1>1 DEF AcNext, RunStep, AddCmd, RunNext, RunEnd, RunErr, RunEvent, RunBroken
    <3> QED BY <3>1, <3>2, <3>3, AcHere DEF AcStart
  <2> QED BY <2>1, <2>2, <2>3 DEF AcInv
<1>2. CASE UNCHANGED acVars
  <2>1. Entry' = Entry /\ Before' = Before /\ EntriesDone' = EntriesDone
    BY <1>2 DEF acVars, Entry, Before, EntriesDone
  <2>2. InHand' = InHand
    BY <1>2, <2>1 DEF acVars, InHand, FilesTold
  <2>3. AcShape'
    BY <1>2, <2>1 DEF acVars, AcInv, AcShape, AcTypeOK
  <2> QED BY <1>2, <2>1, <2>2, <2>3 DEF acVars, AcInv, AcTold, AcPutThere, AcStart
<1> QED BY <1>1, <1>2

LEMMA AddIsSound == AcInv => AcSound
<1> SUFFICES ASSUME AcInv PROVE AcSound
  OBVIOUS
<1>1. /\ AcTypeOK /\ AcShape /\ AcTold /\ AcPutThere /\ Len(AcEntries) \in Nat
  BY AcHere
<1>2. acRun = "ok" => acEntry - 1 = Len(AcEntries) /\ Len(AcEntries) > 0 /\ EntriesDone = Len(AcEntries)
  BY <1>1 DEF AcShape, EntriesDone
<1>3. AcAllTold
  BY <1>1, <1>2 DEF AcTold, Before, AcAllTold
<1>4. AcLockHeld
  BY <1>1 DEF AcShape, AcLockHeld
<1>5. AcToFiles
  <2>1. ASSUME acRun = "ok", acOpts.dest = "new" PROVE Len(AcEntries) = 1
    BY <1>1, <1>2, <2>1 DEF AcPutThere
  <2>2. ASSUME acRun = "ok", acOpts.dest = "dir" PROVE acMfs = {AcEntries[i].name : i \in 1..Len(AcEntries)}
    BY <1>1, <1>2, <2>2 DEF AcPutThere
  <2> QED BY <2>1, <2>2 DEF AcToFiles
<1> QED BY <1>1, <1>3, <1>4, <1>5 DEF AcSound

\* When ipfs add succeeds the client was told of every file and directory of
\* every argument once, in order, whatever the arguments, the capacity of the
\* channel and the steps of the adder, the client and the collector; the pin lock
\* is held no longer than the adder works; and --to-files has put every argument
\* into its directory, or the only one into its file (AddCmd.Run).
THEOREM AddTellsAll == AcInit /\ [][AcNext]_acVars => []AcSound
<1> QED BY AddInit, AddStep, AddIsSound, PTL

-----------------------------------------------------------------------------
(* What the command line shows of `ipfs add`.                              *)

PbEvents == EventsOf(PbNames)

\* Where PostRun and the bar can be, and what is left of the response and done.
PbShape ==
    /\ PbTypeOK
    /\ pbIn \in Seq(PbEvents) /\ pbGot \in Seq(PbEvents) /\ pbGot \o pbIn \in PbStreams \cup {<<>>}
    /\ pbMain = "idle" => /\ pbIn = <<>> /\ pbGot = <<>> /\ pbLines = <<>> /\ pbLast = <<>> /\ pbBar = "idle"
                          /\ pbWhy = "ok" /\ pbTotal = 0 /\ pbFile = [name |-> <<>>, bytes |-> 0, before |-> 0]
    /\ pbMain = "send" => pbIn # <<>>
    /\ pbMain = "ok" => pbWhy = "ok" /\ pbBar = "done"
    /\ pbMain \in {"wait", "ok"} /\ pbWhy = "ok" => pbIn = <<>>

\* What is printed, and kept for the end.
PbShown ==
    /\ pbLast = LastOf(NamesAdded(pbGot))
    /\ ~pbMode.quieter => pbLines = NamesAdded(pbGot)
    /\ pbMode.quieter => (pbLines = <<>> /\ (pbBar = "done" => pbCtx)) \/ (pbBar = "done" /\ pbLines = <<pbLast>>)

\* No count has come yet; or the bar knows the last one, the bytes of the files
\* before that one, and their sum.
PbCounted ==
    IF ~pbMode.progress THEN pbTotal = 0
    ELSE \/ Uncounted(pbGot) /\ pbFile = [name |-> <<>>, bytes |-> 0, before |-> 0] /\ pbTotal = 0 /\ BytesRead(pbGot) = 0
         \/ \E j : /\ Counted(pbGot, j) /\ pbFile.name = pbGot[j].name /\ pbFile.bytes = pbGot[j].bytes
                   /\ pbFile.before \in Nat /\ pbFile.before + pbFile.bytes = pbTotal /\ pbTotal = BytesRead(pbGot)

PbInv == PbShape /\ PbShown /\ PbCounted

LEMMA StreamIs == ASSUME NEW in \in PbStreams PROVE in \in Seq(PbEvents) /\ <<>> \o in = in
<1> DEFINE m == Len(in)
<1>1. m \in Nat /\ in \in [1..m -> PbEvents]
  BY ProgressAssumption DEF PbEvents
<1> HIDE DEF m
<1>2. in \in Seq(PbEvents)
  BY <1>1
<1> QED BY <1>2

LEMMA LastIs ==
    ASSUME NEW S, NEW s \in Seq(S), NEW x \in S
    PROVE  LastOf(Append(s, x)) = x /\ LastOf(<<>>) = <<>> /\ Append(<<>>, x) = <<x>>
<1> DEFINE t == Append(s, x)
<1>1. t \in Seq(S) /\ Len(t) = Len(s) + 1 /\ t[Len(s) + 1] = x /\ Len(s) \in Nat
  OBVIOUS
<1> HIDE DEF t
<1>2. t # <<>> /\ t[Len(t)] = x
  BY <1>1
<1> QED BY <1>2 DEF LastOf, t

LEMMA ShownInit == PbInit => PbInv
<1> SUFFICES ASSUME PbInit PROVE PbInv
  OBVIOUS
<1>1. PbShape
  <2>1. PbTypeOK
    BY DEF PbInit, PbTypeOK, PbModes
  <2>2. <<>> \in Seq(PbEvents) /\ <<>> \o <<>> = <<>>
    OBVIOUS
  <2> QED BY <2>1, <2>2 DEF PbInit, PbShape
<1>2. PbShown
  BY NamesOfNone DEF PbInit, PbShown, LastOf
<1>3. PbCounted
  BY DEF PbInit, PbCounted
<1> QED BY <1>1, <1>2, <1>3 DEF PbInv

\* What a step finds.
LEMMA PbHere ==
    ASSUME PbInv
    PROVE  /\ PbTypeOK /\ PbShape /\ PbShown /\ PbCounted
           /\ pbIn \in Seq(PbEvents) /\ pbGot \in Seq(PbEvents) /\ pbGot \in Seq(EventsOf(PbNames))
           /\ NamesAdded(pbGot) \in Seq(PbNames) /\ BytesRead(pbGot) \in Nat /\ pbTotal \in Nat
           /\ pbMode.progress \in BOOLEAN /\ pbMode.quieter \in BOOLEAN
<1>1. /\ PbTypeOK /\ PbShape /\ PbShown /\ PbCounted /\ pbIn \in Seq(PbEvents) /\ pbGot \in Seq(PbEvents)
      /\ pbGot \in Seq(EventsOf(PbNames))
  BY DEF PbInv, PbShape, PbEvents
<1>2. NamesAdded(pbGot) \in Seq(PbNames)
  BY <1>1, NamesType
<1>3. BytesRead(pbGot) \in Nat
  <2>1. PICK f \in [0..Len(pbGot) -> Nat] : BytesRead(pbGot) = f[Len(pbGot)]
    BY <1>1, BytesAre
  <2> QED BY <1>1, <2>1
<1>4. pbTotal \in Nat /\ pbMode.progress \in BOOLEAN /\ pbMode.quieter \in BOOLEAN
  BY <1>1 DEF PbTypeOK, PbModes
<1> QED BY <1>1, <1>2, <1>3, <1>4

\* The bar has one event more.
LEMMA EventShape ==
    ASSUME PbInv, BarEvent
    PROVE  /\ Head(pbIn) \in EventsOf(PbNames) /\ pbIn' \in Seq(PbEvents) /\ pbGot' \in Seq(PbEvents)
           /\ pbGot' \o pbIn' = pbGot \o pbIn /\ pbGot' = Append(pbGot, Head(pbIn))
           /\ pbGot \o pbIn \in PbStreams
           /\ \E in \in PbStreams : /\ in[Len(pbGot) + 1] = Head(pbIn) /\ Len(in) >= Len(pbGot) + 1
                                    /\ \A j \in 1..Len(pbGot) : in[j] = pbGot[j]
<1> DEFINE s == pbGot
           q == pbIn
           e == Head(q)
<1>1. s \in Seq(PbEvents) /\ q \in Seq(PbEvents) /\ q # <<>> /\ s \o q \in PbStreams \cup {<<>>}
  BY PbHere DEF BarEvent, PbShape
<1>2. pbIn' = Tail(q) /\ pbGot' = Append(s, e)
  BY DEF BarEvent
<1> HIDE DEF s, q
<1>3. e \in PbEvents /\ Tail(q) \in Seq(PbEvents) /\ Append(s, e) \in Seq(PbEvents) /\ Append(s, e) \o Tail(q) = s \o q
  BY <1>1, Moved
<1>4. /\ Len(s \o q) >= Len(s) + 1 /\ (s \o q)[Len(s) + 1] = e
      /\ \A j \in 1..Len(s) : (s \o q)[j] = s[j]
  BY <1>1
<1>5. s \o q # <<>>
  BY <1>1, <1>4
<1> DEFINE in == s \o q
<1>6. in \in PbStreams
  BY <1>1, <1>5
<1>7. in[Len(s) + 1] = e /\ Len(in) >= Len(s) + 1 /\ \A j \in 1..Len(s) : in[j] = s[j]
  BY <1>4
<1> HIDE DEF in
<1>8. \E i \in PbStreams : i[Len(s) + 1] = e /\ Len(i) >= Len(s) + 1 /\ \A j \in 1..Len(s) : i[j] = s[j]
  BY <1>6, <1>7
<1> QED BY <1>2, <1>3, <1>6, <1>8 DEF s, q, in, PbEvents

LEMMA EventShown == ASSUME PbInv, BarEvent PROVE PbShown'
<1> DEFINE e == Head(pbIn)
<1>1. e \in EventsOf(PbNames) /\ pbGot' = Append(pbGot, e)
  BY EventShape
<1>2. pbGot \in Seq(EventsOf(PbNames)) /\ NamesAdded(pbGot) \in Seq(PbNames) /\ PbShown
  BY PbHere
<1>3. pbBar = "select" /\ UNCHANGED <<pbBar, pbMode, pbCtx>> /\ IF e.added THEN ShowAdded(e) ELSE ShowProgress(e)
  BY DEF BarEvent
<1>4. e.name \in PbNames
  BY <1>1 DEF EventsOf
<1> HIDE DEF e
<1>5. NamesAdded(pbGot') = IF e.added THEN Append(NamesAdded(pbGot), e.name) ELSE NamesAdded(pbGot)
  BY <1>1, <1>2, NamesOfOneMore
<1>6. CASE e.added
  <2>1. pbLast' = e.name /\ pbLines' = IF pbMode.quieter THEN pbLines ELSE Append(pbLines, e.name)
    BY <1>3, <1>6 DEF ShowAdded
  <2>2. LastOf(Append(NamesAdded(pbGot), e.name)) = e.name
    BY <1>2, <1>4, LastIs
  <2> QED BY <1>2, <1>3, <1>5, <1>6, <2>1, <2>2 DEF PbShown
<1>7. CASE ~e.added
  <2>1. UNCHANGED <<pbLast, pbLines>>
    BY <1>3, <1>7 DEF ShowProgress
  <2> QED BY <1>2, <1>3, <1>5, <1>7, <2>1 DEF PbShown
<1> QED BY <1>6, <1>7

\* An event that tells of something added leaves the last count where it is.
LEMMA CountedOfOneMore ==
    ASSUME NEW N, NEW s \in Seq(EventsOf(N)), NEW e \in EventsOf(N)
    PROVE  LET t == Append(s, e) IN
           /\ e.added /\ Uncounted(s) => Uncounted(t)
           /\ \A j : e.added /\ Counted(s, j) => Counted(t, j) /\ t[j] = s[j]
           /\ ~e.added => Counted(t, Len(s) + 1) /\ t[Len(s) + 1] = e
<1> DEFINE t == Append(s, e)
           m == Len(s)
<1>1. /\ Len(t) = m + 1 /\ m \in Nat /\ t[m + 1] = e
      /\ \A k \in 1..m : t[k] = s[k]
  OBVIOUS
<1> HIDE DEF t
<1>2. \A k \in 1..(m + 1) : k \in 1..m \/ k = m + 1
  BY <1>1
<1>3. e.added /\ Uncounted(s) => Uncounted(t)
  BY <1>1, <1>2 DEF Uncounted
<1>4. ASSUME NEW j, e.added, Counted(s, j) PROVE Counted(t, j) /\ t[j] = s[j]
  <2>1. j \in 1..m /\ j \in 1..(m + 1) /\ t[j] = s[j] /\ ~t[j].added
    BY <1>1, <1>4 DEF Counted
  <2>2. ASSUME NEW n \in (j + 1)..(m + 1) PROVE t[n].added
    <3>1. CASE n = m + 1
      BY <1>1, <1>4, <3>1
    <3>2. CASE n # m + 1
      <4>1. n \in (j + 1)..m /\ n \in 1..m
        BY <1>1, <2>1, <3>2
      <4> QED BY <1>1, <1>4, <4>1 DEF Counted
    <3> QED BY <3>1, <3>2
  <2> QED BY <1>1, <2>1, <2>2 DEF Counted
<1>5. ~e.added => Counted(t, m + 1) /\ t[m + 1] = e
  BY <1>1 DEF Counted
<1> QED BY <1>3, <1>4, <1>5 DEF t, m

LEMMA EventCounted == ASSUME PbInv, BarEvent PROVE PbCounted'
<1> DEFINE e == Head(pbIn)
           s == pbGot
           m == Len(s)
           t == Append(s, e)
<1>1. e \in EventsOf(PbNames) /\ pbGot' = t
  BY EventShape
<1>2. s \in Seq(EventsOf(PbNames)) /\ BytesRead(s) \in Nat /\ pbTotal \in Nat /\ PbCounted /\ m \in Nat
  BY PbHere
<1>3. UNCHANGED pbMode /\ IF e.added THEN ShowAdded(e) ELSE ShowProgress(e)
  BY DEF BarEvent
<1>4. e.name \in PbNames /\ e.bytes \in Nat /\ e.added \in BOOLEAN /\ <<>> \notin PbNames
      /\ \A j \in 1..m : s[j].name \in PbNames /\ s[j].bytes \in Nat
  <2>1. \A j \in 1..m : s[j] \in EventsOf(PbNames)
    BY <1>2
  <2> QED BY <1>1, <2>1, ProgressAssumption DEF EventsOf
<1>5. PICK in \in PbStreams : in[m + 1] = e /\ Len(in) >= m + 1 /\ \A j \in 1..m : in[j] = s[j]
  BY EventShape
<1>6. /\ Len(in) \in Nat
      /\ \A i, j \in 1..Len(in) : ~in[i].added /\ NextCount(in, i, j) /\ in[i].name = in[j].name => in[i].bytes <= in[j].bytes
  BY ProgressAssumption
<1> HIDE DEF e, s
<1>7. /\ e.added => BytesRead(t) = BytesRead(s)
      /\ ~e.added /\ Uncounted(s) => BytesRead(t) = BytesRead(s) + e.bytes
      /\ \A j : ~e.added /\ Counted(s, j) /\ s[j].name # e.name => BytesRead(t) = BytesRead(s) + e.bytes
      /\ \A j : ~e.added /\ Counted(s, j) /\ s[j].name = e.name => BytesRead(t) = BytesRead(s) - s[j].bytes + e.bytes
  BY <1>1, <1>2, BytesOfOneMore
<1>8. /\ e.added /\ Uncounted(s) => Uncounted(t)
      /\ \A j : e.added /\ Counted(s, j) => Counted(t, j) /\ t[j] = s[j]
      /\ ~e.added => Counted(t, m + 1) /\ t[m + 1] = e
  BY <1>1, <1>2, CountedOfOneMore
<1>9. ASSUME NEW j, ~e.added, Counted(s, j), s[j].name = e.name PROVE s[j].bytes <= e.bytes
  <2>1. j \in 1..m /\ ~s[j].added /\ \A n \in (j + 1)..m : s[n].added
    BY <1>9 DEF Counted
  <2>2. j \in 1..Len(in) /\ m + 1 \in 1..Len(in) /\ in[j] = s[j] /\ in[m + 1] = e /\ j < m + 1 /\ (m + 1) - 1 = m
    BY <1>2, <1>5, <1>6, <2>1
  <2>3. \A n \in (j + 1)..m : in[n].added
    <3>1. \A n \in (j + 1)..m : n \in 1..m
      BY <1>2, <2>1
    <3> QED BY <1>5, <2>1, <3>1
  <2>4. NextCount(in, j, m + 1)
    BY <1>9, <2>2, <2>3 DEF NextCount
  <2> QED BY <1>6, <1>9, <2>1, <2>2, <2>4
<1> HIDE DEF t, m
<1>10. CASE ~pbMode.progress
  <2>1. pbTotal = 0 /\ UNCHANGED <<pbTotal, pbMode>>
    BY <1>2, <1>3, <1>10 DEF PbCounted, ShowAdded, ShowProgress
  <2> QED BY <1>10, <2>1 DEF PbCounted
<1>11. CASE pbMode.progress /\ e.added
  <2>1. UNCHANGED <<pbFile, pbTotal, pbMode>>
    BY <1>3, <1>11 DEF ShowAdded
  <2>2. CASE Uncounted(s) /\ pbFile = [name |-> <<>>, bytes |-> 0, before |-> 0] /\ pbTotal = 0 /\ BytesRead(s) = 0
    BY <1>1, <1>7, <1>8, <1>11, <2>1, <2>2 DEF PbCounted
  <2>3. ASSUME NEW j, Counted(s, j), pbFile.name = s[j].name, pbFile.bytes = s[j].bytes,
               pbFile.before \in Nat, pbFile.before + pbFile.bytes = pbTotal, pbTotal = BytesRead(s)
        PROVE  PbCounted'
    <3>1. Counted(t, j) /\ t[j] = s[j] /\ BytesRead(t) = BytesRead(s)
      BY <1>7, <1>8, <1>11, <2>3
    <3> QED BY <1>1, <1>11, <2>1, <2>3, <3>1 DEF PbCounted
  <2> QED BY <1>2, <1>11, <2>2, <2>3 DEF PbCounted, s
<1>12. CASE pbMode.progress /\ ~e.added
  <2> DEFINE before == IF pbFile.name # <<>> /\ (e.name # pbFile.name \/ e.bytes < pbFile.bytes)
                       THEN pbFile.before + pbFile.bytes ELSE pbFile.before
  <2>1. pbFile' = [name |-> e.name, bytes |-> e.bytes, before |-> before] /\ pbTotal' = pbTotal + (before + e.bytes - pbTotal)
        /\ UNCHANGED pbMode
    BY <1>3, <1>12 DEF ShowProgress
  <2>2. ASSUME before \in Nat, before + e.bytes = BytesRead(t) PROVE PbCounted'
    <3>1. Counted(t, m + 1) /\ t[m + 1] = e
      BY <1>8, <1>12
    <3>2. pbFile'.name = e.name /\ pbFile'.bytes = e.bytes /\ pbFile'.before = before
      BY <2>1
    <3> HIDE DEF before
    <3>3. pbTotal' = before + e.bytes
      BY <1>2, <1>4, <2>1, <2>2
    <3> QED BY <1>1, <1>12, <2>1, <2>2, <3>1, <3>2, <3>3 DEF PbCounted
  <2>3. CASE Uncounted(s) /\ pbFile = [name |-> <<>>, bytes |-> 0, before |-> 0] /\ pbTotal = 0 /\ BytesRead(s) = 0
    <3>1. before = 0
      BY <2>3
    <3> HIDE DEF before
    <3>2. BytesRead(t) = e.bytes
      BY <1>4, <1>7, <1>12, <2>3
    <3> QED BY <1>4, <2>2, <3>1, <3>2
  <2>4. ASSUME NEW j, Counted(s, j), pbFile.name = s[j].name, pbFile.bytes = s[j].bytes,
               pbFile.before \in Nat, pbFile.before + pbFile.bytes = pbTotal, pbTotal = BytesRead(s)
        PROVE  PbCounted'
    <3>1. pbFile.name # <<>> /\ s[j].bytes \in Nat /\ pbFile.bytes \in Nat
      BY <1>4, <2>4 DEF Counted, m
    <3>2. CASE e.name # pbFile.name
      <4>1. before = pbFile.before + pbFile.bytes
        BY <3>1, <3>2
      <4> HIDE DEF before
      <4>2. BytesRead(t) = BytesRead(s) + e.bytes
        BY <1>7, <1>12, <2>4, <3>2
      <4> QED BY <1>2, <1>4, <2>2, <2>4, <3>1, <4>1, <4>2
    <3>3. CASE e.name = pbFile.name
      <4>1. s[j].bytes <= e.bytes
        BY <1>9, <1>12, <2>4, <3>3
      <4>2. before = pbFile.before
        BY <1>4, <2>4, <3>1, <3>3, <4>1
      <4> HIDE DEF before
      <4>3. BytesRead(t) = BytesRead(s) - s[j].bytes + e.bytes
        BY <1>7, <1>12, <2>4, <3>3
      <4> QED BY <1>2, <1>4, <2>2, <2>4, <3>1, <4>2, <4>3
    <3> QED BY <3>2, <3>3
  <2> QED BY <1>2, <1>12, <2>3, <2>4 DEF PbCounted, s
<1> QED BY <1>4, <1>10, <1>11, <1>12, PbHere

LEMMA ShownStep == PbInv /\ [PbNext]_pbVars => PbInv'
<1> SUFFICES ASSUME PbInv, [PbNext]_pbVars PROVE PbInv'
  OBVIOUS
<1>1. /\ PbTypeOK /\ PbShape /\ PbShown /\ PbCounted
      /\ pbIn \in Seq(PbEvents) /\ pbGot \in Seq(PbEvents)
      /\ NamesAdded(pbGot) \in Seq(PbNames) /\ BytesRead(pbGot) \in Nat /\ pbTotal \in Nat
  BY PbHere
<1>2. CASE BarEvent
  <2>1. /\ pbIn' \in Seq(PbEvents) /\ pbGot' \in Seq(PbEvents) /\ pbGot' \o pbIn' = pbGot \o pbIn /\ pbGot \o pbIn \in PbStreams
    BY <1>2, EventShape
  <2>2. PbShown' /\ PbCounted'
    BY <1>2, EventShown, EventCounted
  <2>3. pbTotal' \in Nat
    <3>1. pbGot' \in Seq(EventsOf(PbNames))
      BY <2>1 DEF PbEvents
    <3>2. BytesRead(pbGot') \in Nat
      <4>1. PICK f \in [0..Len(pbGot') -> Nat] : BytesRead(pbGot') = f[Len(pbGot')]
        BY <3>1, BytesAre
      <4>2. Len(pbGot') \in 0..Len(pbGot')
        BY <3>1
      <4> QED BY <4>1, <4>2
    <3> QED BY <2>2, <3>2 DEF PbCounted
  <2>4. pbMain = "send" /\ pbMain' = "next" /\ UNCHANGED <<pbWhy, pbOut, pbBar, pbSize, pbMode, pbCtx>>
    BY <1>2 DEF BarEvent
  <2>5. PbTypeOK'
    BY <1>1, <2>3, <2>4 DEF PbTypeOK
  <2>6. PbShape'
    BY <2>1, <2>4, <2>5 DEF PbShape
  <2> QED BY <2>2, <2>6 DEF PbInv
<1>3. ASSUME NEW in \in PbStreams, NEW o \in PbOptions, NEW failed \in BOOLEAN, PostRun(in, o, failed) PROVE PbInv'
  <2>1. /\ pbMain = "idle" /\ pbIn' = in /\ pbMode' = PreRun(o) /\ UNCHANGED <<pbWhy, pbSize, pbCtx, pbFile, pbTotal, pbLast, pbLines, pbGot>>
        /\ \/ pbMain' = "error" /\ pbOut' = FALSE /\ pbBar' = pbBar
           \/ pbMain' = "next" /\ pbBar' = "select" /\ pbOut' = pbOut
    BY <1>3 DEF PostRun
  <2>2. /\ pbIn = <<>> /\ pbGot = <<>> /\ pbLines = <<>> /\ pbLast = <<>> /\ pbBar = "idle"
        /\ pbWhy = "ok" /\ pbTotal = 0 /\ pbFile = [name |-> <<>>, bytes |-> 0, before |-> 0]
    BY <1>1, <2>1 DEF PbShape
  <2>3. in \in Seq(PbEvents) /\ pbGot \o in = in
    BY <2>2, StreamIs
  <2>4. PreRun(o) \in PbModes
    BY DEF PreRun, PbModes, PbOptions
  <2>5. PbTypeOK'
    BY <1>1, <2>1, <2>4 DEF PbTypeOK
  <2>6. PbShape'
    BY <1>1, <2>1, <2>2, <2>3, <2>5 DEF PbShape
  <2>7. PbShown'
    BY <2>1, <2>2, NamesOfNone DEF PbShown, LastOf
  <2>8. PbCounted'
    <3>1. Uncounted(pbGot)
      BY <2>2 DEF Uncounted
    <3> QED BY <2>1, <2>2, <3>1, BytesOfNone DEF PbCounted
  <2> QED BY <2>6, <2>7, <2>8 DEF PbInv
<1>4. ASSUME UNCHANGED <<pbGot, pbFile, pbTotal, pbMode>> PROVE PbCounted'
  BY <1>1, <1>4 DEF PbCounted
<1>5. ASSUME UNCHANGED <<pbGot, pbLast, pbLines, pbMode, pbBar>>, pbCtx => pbCtx' PROVE PbShown'
  BY <1>1, <1>5 DEF PbShown
<1>6. CASE (\E broken \in BOOLEAN : ResNext(broken)) \/ SendCancelled
  <2>1. UNCHANGED <<pbIn, pbBar, pbSize, pbMode, pbCtx, pbFile, pbTotal, pbLast, pbLines, pbGot>> /\ pbMain \in {"next", "send"}
    BY <1>6 DEF ResNext, SendCancelled
  <2>2. \/ pbMain' = "send" /\ pbIn # <<>> /\ UNCHANGED <<pbWhy, pbOut>>
        \/ pbMain' = "wait" /\ pbOut' = FALSE /\ (pbWhy' \in {"error", "cancelled"} \/ (pbWhy' = "ok" /\ pbIn = <<>>))
    <3>1. ASSUME NEW broken \in BOOLEAN, ResNext(broken)
          PROVE  \/ pbMain' = "send" /\ pbIn # <<>> /\ UNCHANGED <<pbWhy, pbOut>>
                 \/ pbMain' = "wait" /\ pbOut' = FALSE /\ (pbWhy' = "error" \/ (pbWhy' = "ok" /\ pbIn = <<>>))
      <4>1. CASE broken \/ pbIn = <<>>
        BY <3>1, <4>1 DEF ResNext, PostReturn
      <4>2. CASE ~(broken \/ pbIn = <<>>)
        BY <3>1, <4>2 DEF ResNext
      <4> QED BY <4>1, <4>2
    <3>2. SendCancelled => pbMain' = "wait" /\ pbOut' = FALSE /\ pbWhy' = "cancelled"
      BY DEF SendCancelled, PostReturn
    <3> QED BY <1>6, <3>1, <3>2
  <2>3. PbTypeOK'
    BY <1>1, <2>1, <2>2 DEF PbTypeOK
  <2>4. PbShape'
    BY <1>1, <2>1, <2>2, <2>3 DEF PbShape
  <2> QED BY <1>4, <1>5, <2>1, <2>4 DEF PbInv
<1>7. CASE Waited
  <2>1. /\ pbMain = "wait" /\ pbBar = "done" /\ pbMain' = pbWhy
        /\ UNCHANGED <<pbIn, pbWhy, pbOut, pbBar, pbSize, pbMode, pbCtx, pbFile, pbTotal, pbLast, pbLines, pbGot>>
    BY <1>7 DEF Waited
  <2>2. PbTypeOK'
    BY <1>1, <2>1 DEF PbTypeOK
  <2>3. PbShape'
    BY <1>1, <2>1, <2>2 DEF PbShape, PbTypeOK
  <2> QED BY <1>4, <1>5, <2>1, <2>3 DEF PbInv
<1>8. CASE BarClosed \/ BarCancelled
  <2>1. /\ pbBar = "select" /\ pbBar' = "done"
        /\ UNCHANGED <<pbIn, pbMain, pbWhy, pbOut, pbSize, pbMode, pbCtx, pbFile, pbTotal, pbLast, pbGot>>
        /\ pbLines' = (IF pbMode.quieter THEN Append(pbLines, pbLast) ELSE pbLines) \/ (pbLines' = pbLines /\ pbCtx)
    BY <1>8 DEF BarClosed, BarCancelled
  <2>2. PbTypeOK'
    BY <1>1, <2>1 DEF PbTypeOK
  <2>3. PbShape'
    BY <1>1, <2>1, <2>2 DEF PbShape
  <2>4. PbShown'
    <3>1. CASE ~pbMode.quieter
      BY <1>1, <2>1, <3>1 DEF PbShown
    <3>2. CASE pbMode.quieter
      <4>1. pbLines = <<>>
        BY <1>1, <2>1, <3>2 DEF PbShown
      <4>2. Append(<<>>, pbLast) = <<pbLast>>
        OBVIOUS
      <4> QED BY <1>1, <2>1, <3>2, <4>1, <4>2 DEF PbShown
    <3> QED BY <3>1, <3>2
  <2> QED BY <1>4, <2>1, <2>3, <2>4 DEF PbInv
<1>9. CASE BarSize \/ Cancel \/ \E ok \in BOOLEAN : FindSize(ok)
  <2>1. /\ UNCHANGED <<pbIn, pbMain, pbWhy, pbOut, pbBar, pbMode, pbFile, pbTotal, pbLast, pbLines, pbGot>>
        /\ pbSize' \in {"unknown", "sent", "shown", "failed"} /\ pbCtx' \in BOOLEAN /\ (pbCtx => pbCtx')
    BY <1>1, <1>9 DEF BarSize, Cancel, FindSize, PbTypeOK
  <2>2. PbTypeOK'
    BY <1>1, <2>1 DEF PbTypeOK
  <2>3. PbShape'
    BY <1>1, <2>1, <2>2 DEF PbShape
  <2> QED BY <1>4, <1>5, <2>1, <2>3 DEF PbInv
<1>10. CASE UNCHANGED pbVars
  <2>1. PbShape'
    BY <1>1, <1>10 DEF pbVars, PbShape, PbTypeOK
  <2> QED BY <1>4, <1>5, <1>10, <2>1 DEF pbVars, PbInv
<1> QED BY <1>2, <1>3, <1>6, <1>7, <1>8, <1>9, <1>10 DEF PbNext, PbStep

LEMMA ShownIsSound == PbInv => PbSound
<1> SUFFICES ASSUME PbInv PROVE PbSound
  OBVIOUS
<1>1. PbTypeOK /\ PbShape /\ PbShown /\ PbCounted
  BY PbHere
<1>2. PbPrinted
  <2>1. pbMode.quieter => pbLines \in {<<>>, <<LastOf(NamesAdded(pbGot))>>}
    BY <1>1 DEF PbShown
  <2>2. pbMode.quieter /\ pbMain = "ok" /\ ~pbCtx => pbLines # <<>>
    <3>1. <<pbLast>> # <<>>
      <4>1. Len(<<pbLast>>) = 1 /\ Len(<<>>) = 0
        OBVIOUS
      <4> QED BY <4>1
    <3>2. pbMode.quieter /\ pbMain = "ok" /\ ~pbCtx => pbLines = <<pbLast>>
      BY <1>1 DEF PbShown, PbShape
    <3> QED BY <3>1, <3>2
  <2>3. pbMain = "ok" => pbIn = <<>>
    BY <1>1 DEF PbShape
  <2> QED BY <1>1, <2>1, <2>2, <2>3 DEF PbShown, PbPrinted
<1>3. PbTotalRight
  BY <1>1 DEF PbCounted, PbTotalRight
<1> QED BY <1>1, <1>2, <1>3 DEF PbSound

\* The command line prints the names of what was added, all in their order when it
\* succeeds without being cancelled, and its bar shows the bytes read of every
\* file, whatever streams of events come, as long as the count of a file does not
\* go down and files that follow each other differ in name (progressBar).
THEOREM ShownIsAdded == PbInit /\ [][PbNext]_pbVars => []PbSound
<1> QED BY ShownInit, ShownStep, ShownIsSound, PTL

-----------------------------------------------------------------------------
(* The parts together.                                                     *)

LEMMA AddAndLogInit == NodeInit => AcInv /\ PbInv /\ LogInv
<1> QED BY AddInit, ShownInit, LogInit DEF NodeInit

LEMMA AddAndLogStep == AcInv /\ PbInv /\ LogInv /\ [NodeNext]_nodeVars => (AcInv /\ PbInv /\ LogInv)'
<1> SUFFICES ASSUME AcInv, PbInv, LogInv, [NodeNext]_nodeVars PROVE (AcInv /\ PbInv /\ LogInv)'
  OBVIOUS
<1>1. [AcNext]_acVars
  BY DEF NodeNext, nodeVars
<1>2. [PbNext]_pbVars
  BY DEF NodeNext, nodeVars
<1>3. [LgNext]_lgVars
  BY DEF NodeNext, nodeVars
<1> QED BY <1>1, <1>2, <1>3, AddStep, ShownStep, LogStep

\* The service keeps what it promises also beside the other parts of the node
\* (AddPeer, RemovePeer, Start, Stop), under the same proviso on connections.
THEOREM NodeKeepsPeering ==
    ~EarlyDrop /\ NodeSpec
        => [](PeeringSound /\ LiveHandlerIsRegistered /\ DisconnectNotLost)
<1> SUFFICES ASSUME ~EarlyDrop
             PROVE  NodeSpec => [](PeeringSound /\ LiveHandlerIsRegistered /\ DisconnectNotLost)
    OBVIOUS
<1> DEFINE Kept == PeeringInv /\ UnownedIsIdle /\ FiredIsDialling
<1>1. NodeInit => Kept
  BY InvInit, FiredInit DEF NodeInit
<1>2. Kept /\ [NodeNext]_nodeVars => Kept'
  BY PeeringStep, FiredStep DEF NodeNext, nodeVars
<1>3. Kept => PeeringSound /\ LiveHandlerIsRegistered /\ DisconnectNotLost
  BY NothingForgotten DEF PeeringInv, PeeringSound
<1> HIDE DEF Kept
<1> QED BY <1>1, <1>2, <1>3, PTL DEF NodeSpec

\* ipfs add tells of all it adds and lets go of its lock, the command line shows
\* just that, and the log of peers loses count of nothing, for all arguments,
\* streams, options, capacities and interleavings (AddCmd, collectEvents).
THEOREM NodeHolds == NodeSpec => []AddAndLogSound
<1>1. AcInv /\ PbInv /\ LogInv => AddAndLogSound
  BY AddIsSound, ShownIsSound DEF AddAndLogSound, LogInv, LgSound
<1> QED BY <1>1, AddAndLogInit, AddAndLogStep, PTL DEF NodeSpec
=============================================================================
