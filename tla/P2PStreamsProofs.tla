-------------------------- MODULE P2PStreamsProofs --------------------------
(***************************************************************************)
(* Proofs about P2PStreams, for any number of peers, listeners and streams. *)
(*                                                                         *)
(* ConnsAgree is inductive once the peer of a registered stream is known   *)
(* not to change (StageInv), GoneIsClosed once a goroutine about to        *)
(* deregister is known to have closed both ends (EndsInv), and             *)
(* NoAddressLost once a listed or closing listener is known to hold its    *)
(* socket, alone on its address (SocketInv).                               *)
(***************************************************************************)
EXTENDS P2PStreams, FiniteSetTheorems, TLAPS

\* Only a running stream is registered or has a goroutine that ends it.
StageInv ==
    \A s \in Conns :
        s \in streams \/ (\E c \in Closers : closer[s][c] # "off") => stage[s] = "running"

\* Whoever deregisters a stream has closed its ends; they stay closed.
EndsInv ==
    \A s \in Conns :
        (\E c \in Closers : closer[s][c] = "deregister") =>
            local[s] = "closed" /\ remote[s] = "closed"

SocketInv ==
    /\ listed \subseteq bound
    /\ closing \subseteq bound
    /\ listed \cap closing = {}
    /\ \A l \in bound : lstage[l] # "none"
    /\ \A l \in listed \cup closing : lstage[l] = "ok"
    /\ \A l \in Locals : lstage[l] = "listening" => l \in bound
    /\ \A l, m \in bound : laddr[l] = laddr[m] => l = m

\* The registry's part: ConnsAgree and what keeps it.
RegistryInv == TypeOK /\ StageInv /\ ConnsAgree

IInv == RegistryInv /\ EndsInv /\ GoneIsClosed /\ SocketInv /\ NoAddressLost

-----------------------------------------------------------------------------
\* The streams of one peer: registering a stream adds one to its own peer's
\* count and leaves the others alone.
LEMMA CountAdd ==
    ASSUME NEW ss \in SUBSET Conns, NEW f, NEW s \in Conns, s \notin ss, NEW p
    PROVE  Cardinality(OfPeer(ss \cup {s}, f, p))
             = IF f[s] = p THEN Cardinality(OfPeer(ss, f, p)) + 1
                           ELSE Cardinality(OfPeer(ss, f, p))
<1>1. IsFiniteSet(OfPeer(ss, f, p))
  BY P2PAssumption, FS_Subset DEF OfPeer
<1>2. CASE f[s] = p
  <2>1. OfPeer(ss \cup {s}, f, p) = OfPeer(ss, f, p) \cup {s}
    BY <1>2 DEF OfPeer
  <2>2. s \notin OfPeer(ss, f, p)
    BY DEF OfPeer
  <2> QED BY <1>1, <1>2, <2>1, <2>2, FS_AddElement
<1>3. CASE f[s] # p
  <2>1. OfPeer(ss \cup {s}, f, p) = OfPeer(ss, f, p)
    BY <1>3 DEF OfPeer
  <2> QED BY <1>3, <2>1
<1> QED BY <1>2, <1>3

\* A peer with a registered stream has a positive count.
LEMMA CountPositive ==
    ASSUME NEW ss \in SUBSET Conns, NEW f, NEW s \in Conns, s \in ss
    PROVE  Cardinality(OfPeer(ss, f, f[s])) > 0
<1>1. IsFiniteSet(OfPeer(ss, f, f[s])) /\ s \in OfPeer(ss, f, f[s])
  BY P2PAssumption, FS_Subset DEF OfPeer
<1>2. Cardinality(OfPeer(ss, f, f[s])) \in Nat /\ Cardinality(OfPeer(ss, f, f[s])) # 0
  BY <1>1, FS_CardinalityType, FS_EmptySet
<1> QED BY <1>2

\* Deregistering a stream takes one away from its own peer's count.
LEMMA CountRemove ==
    ASSUME NEW ss \in SUBSET Conns, NEW f, NEW s \in Conns, s \in ss, NEW p
    PROVE  Cardinality(OfPeer(ss \ {s}, f, p))
             = IF f[s] = p THEN Cardinality(OfPeer(ss, f, p)) - 1
                           ELSE Cardinality(OfPeer(ss, f, p))
<1>1. CASE f[s] = p
  <2>1. OfPeer(ss \ {s}, f, p) = OfPeer(ss, f, p) \ {s} /\ s \in OfPeer(ss, f, p)
    BY <1>1 DEF OfPeer
  <2>2. IsFiniteSet(OfPeer(ss, f, p))
    BY P2PAssumption, FS_Subset DEF OfPeer
  <2>3. Cardinality(OfPeer(ss, f, p) \ {s}) = Cardinality(OfPeer(ss, f, p)) - 1
    BY <2>1, <2>2, FS_RemoveElement
  <2> QED BY <1>1, <2>1, <2>3
<1>2. CASE f[s] # p
  <2>1. OfPeer(ss \ {s}, f, p) = OfPeer(ss, f, p)
    BY <1>2 DEF OfPeer
  <2> QED BY <1>2, <2>1
<1> QED BY <1>1, <1>2

-----------------------------------------------------------------------------
\* What is left alone by the actions on listeners.
Apart == UNCHANGED <<setupVars, endVars, registryVars, closer>>

\* Every action on listeners leaves the streams alone.
LEMMA ListenersApart == Listeners => Apart
BY DEF Listeners, ForwardRemote, CloseRemote, Listen, RegisterLocal, CloseListener,
       CloseLocal, Apart

\* The types.  A count stays a natural number because it counts a set.
LEMMA TypeStep ==
    ASSUME RegistryInv, Next
    PROVE  TypeOK'
<1> USE DEF RegistryInv, TypeOK
<1>1. CASE Listeners
  <2> USE DEF setupVars, endVars, registryVars, localVars
  <2>1. CASE \E x \in Protos : ForwardRemote(x)
    BY <2>1 DEF ForwardRemote
  <2>2. CASE \E xs \in SUBSET Protos : CloseRemote(xs)
    BY <2>2 DEF CloseRemote
  <2>3. ASSUME NEW l \in Locals, NEW a \in Addrs, NEW p \in Peers, Listen(l, a, p)
        PROVE  TypeOK'
    BY <2>3 DEF Listen
  <2>4. ASSUME NEW l \in Locals, RegisterLocal(l) PROVE TypeOK'
    BY <2>4 DEF RegisterLocal
  <2>5. ASSUME NEW l \in Locals, CloseListener(l) PROVE TypeOK'
    BY <2>5 DEF CloseListener
  <2>6. CASE \E ls \in SUBSET Locals : CloseLocal(ls)
    BY <2>6 DEF CloseLocal
  <2> QED BY <1>1, <2>1, <2>2, <2>3, <2>4, <2>5, <2>6 DEF Listeners
<1>2. ASSUME NEW s \in Conns, Setup(s) PROVE TypeOK'
  <2> USE DEF listenerVars, localVars, registryVars, endVars
  <2>1. CASE \E x \in Protos, p \in Peers : Incoming(s, x, p)
    BY <2>1 DEF Incoming
  <2>2. CASE Handle(s)
    BY <2>2 DEF Handle
  <2>3. CASE handleStreamOk(s)
    BY <2>3 DEF handleStreamOk
  <2>4. ASSUME NEW d \in BOOLEAN, handleStreamFail(s, d) PROVE TypeOK'
    BY <2>4 DEF handleStreamFail
  <2>5. ASSUME NEW l \in Locals, Accept(l, s) PROVE TypeOK'
    BY <2>5 DEF Accept
  <2>6. ASSUME NEW ok \in BOOLEAN, setupStream(s, ok) PROVE TypeOK'
    BY <2>6 DEF setupStream
  <2> QED BY <1>2, <2>1, <2>2, <2>3, <2>4, <2>5, <2>6 DEF Setup
<1>3. ASSUME NEW s \in Conns, Registry(s) PROVE TypeOK'
  <2>1. CASE Register(s)
    <3>1. closer' \in [Conns -> [Closers -> {"off", "copy", "close", "deregister"}]]
      BY <2>1 DEF Register, Closers
    <3>2. speer[s] \in Peers /\ conns' \in [Peers -> Nat]
      BY <2>1 DEF Register
    <3>3. stage' \in [Conns -> {"none", "matched", "dialLocal", "dialRemote", "ready",
                               "running", "refused", "dropped"}]
      BY <2>1 DEF Register
    <3>4. streams' \subseteq Conns /\ tagged' \subseteq Peers
      BY <2>1, <3>2 DEF Register
    <3> QED BY <2>1, <3>1, <3>2, <3>3, <3>4 DEF Register, listenerVars, localVars, endVars
  <2>2. CASE StreamClose(s)
    BY <2>2 DEF StreamClose, listenerVars, localVars, setupVars, endVars, registryVars, Closers
  <2>3. ASSUME NEW c \in Closers, CopyEnd(s, c) PROVE TypeOK'
    BY <2>3 DEF CopyEnd, listenerVars, localVars, setupVars, endVars, registryVars
  <2>4. ASSUME NEW c \in Closers, CloseEnds(s, c) PROVE TypeOK'
    BY <2>4 DEF CloseEnds, listenerVars, localVars, setupVars, registryVars
  <2>5. ASSUME NEW c \in Closers, Deregister(s, c) PROVE TypeOK'
    <3>1. s \in streams => conns[speer[s]] > 0
      BY CountPositive DEF ConnsAgree
    <3> QED BY <2>5, <3>1 DEF Deregister, listenerVars, localVars, setupVars, endVars, registryVars
  <2> QED BY <1>3, <2>1, <2>2, <2>3, <2>4, <2>5 DEF Registry
<1> QED BY <1>1, <1>2, <1>3 DEF Next

LEMMA StageStep ==
    ASSUME RegistryInv, Next
    PROVE  StageInv'
<1> USE DEF RegistryInv, TypeOK, StageInv
<1>1. CASE Listeners
  BY <1>1, ListenersApart DEF Apart, setupVars, registryVars
<1>2. ASSUME NEW s \in Conns, Setup(s) PROVE StageInv'
  BY <1>2 DEF Setup, Incoming, Handle, handleStreamOk, handleStreamFail, Accept,
              setupStream, registryVars
<1>3. ASSUME NEW s \in Conns, Registry(s) PROVE StageInv'
  <2>1. CASE Register(s)
    BY <2>1 DEF Register, Closers
  <2>2. CASE StreamClose(s)
    BY <2>2 DEF StreamClose, setupVars, registryVars, Closers
  <2>3. ASSUME NEW c \in Closers, CopyEnd(s, c) PROVE StageInv'
    BY <2>3 DEF CopyEnd, setupVars, registryVars
  <2>4. ASSUME NEW c \in Closers, CloseEnds(s, c) PROVE StageInv'
    BY <2>4 DEF CloseEnds, setupVars, registryVars
  <2>5. ASSUME NEW c \in Closers, Deregister(s, c) PROVE StageInv'
    BY <2>5 DEF Deregister, setupVars, registryVars
  <2> QED BY <1>3, <2>1, <2>2, <2>3, <2>4, <2>5 DEF Registry
<1> QED BY <1>1, <1>2, <1>3 DEF Next

\* The count and the tag: only Register and the first Deregister touch them.
LEMMA ConnsStep ==
    ASSUME RegistryInv, Next
    PROVE  ConnsAgree'
<1> USE DEF RegistryInv, TypeOK
<1>1. ASSUME UNCHANGED <<registryVars, speer>> PROVE ConnsAgree'
  <2>1. streams' = streams /\ speer' = speer /\ conns' = conns /\ tagged' = tagged
    BY <1>1 DEF registryVars
  <2>2. \A p \in Peers : OfPeer(streams', speer', p) = OfPeer(streams, speer, p)
    BY <2>1
  <2> QED BY <2>1, <2>2 DEF ConnsAgree
<1>2. CASE Listeners
  BY <1>1, <1>2, ListenersApart DEF Apart, setupVars
<1>3. ASSUME NEW s \in Conns, Setup(s) PROVE ConnsAgree'
  <2>1. UNCHANGED registryVars /\ \A t \in streams : speer'[t] = speer[t]
    BY <1>3 DEF Setup, Incoming, Handle, handleStreamOk, handleStreamFail, Accept,
                setupStream, StageInv, registryVars
  <2>2. ASSUME NEW p \in Peers
        PROVE  OfPeer(streams, speer, p) = OfPeer(streams, speer', p)
    BY <2>1 DEF OfPeer
  <2> QED BY <2>1, <2>2 DEF ConnsAgree, registryVars
<1>4. ASSUME NEW s \in Conns, Registry(s) PROVE ConnsAgree'
  <2>1. CASE Register(s)
    <3>1. s \notin streams
      BY <2>1 DEF Register, StageInv
    <3>2. ASSUME NEW p \in Peers
          PROVE  conns'[p] = Cardinality(OfPeer(streams', speer', p))
                 /\ (p \in tagged' <=> conns'[p] > 0)
      <4>1. streams' = streams \cup {s} /\ speer' = speer /\ speer[s] \in Peers
            /\ tagged' = tagged \cup {speer[s]}
        BY <2>1 DEF Register
      <4>2. conns'[p] = IF speer[s] = p THEN conns[p] + 1 ELSE conns[p]
        BY <2>1 DEF Register
      <4>3. Cardinality(OfPeer(streams', speer', p))
              = IF speer[s] = p THEN Cardinality(OfPeer(streams, speer, p)) + 1
                                ELSE Cardinality(OfPeer(streams, speer, p))
        BY <3>1, <4>1, CountAdd
      <4>4. conns[p] = Cardinality(OfPeer(streams, speer, p)) /\ conns[p] \in Nat
            /\ (p \in tagged <=> conns[p] > 0)
        BY DEF ConnsAgree
      <4> HIDE DEF TypeOK, RegistryInv
      <4> QED BY <4>1, <4>2, <4>3, <4>4
    <3> QED BY <3>2 DEF ConnsAgree
  <2>2. ASSUME NEW c \in Closers, Deregister(s, c), s \in streams PROVE ConnsAgree'
    <3>1. ASSUME NEW p \in Peers
          PROVE  conns'[p] = Cardinality(OfPeer(streams', speer', p))
                 /\ (p \in tagged' <=> conns'[p] > 0)
      <4>1. streams' = streams \ {s} /\ speer' = speer /\ speer[s] \in Peers
        BY <2>2 DEF Deregister, setupVars, registryVars
      <4>2. conns'[p] = IF speer[s] = p THEN conns[p] - 1 ELSE conns[p]
        BY <2>2 DEF Deregister
      <4>3. /\ Cardinality(OfPeer(streams', speer', p))
                 = IF speer[s] = p THEN Cardinality(OfPeer(streams, speer, p)) - 1
                                   ELSE Cardinality(OfPeer(streams, speer, p))
            /\ speer[s] = p => Cardinality(OfPeer(streams, speer, p)) > 0
        BY <2>2, <4>1, CountRemove, CountPositive
      <4>4. conns[p] = Cardinality(OfPeer(streams, speer, p)) /\ conns[p] \in Nat
            /\ (p \in tagged <=> conns[p] > 0)
        BY DEF ConnsAgree
      <4>5. tagged' = IF conns[speer[s]] > 1 THEN tagged ELSE tagged \ {speer[s]}
        BY <2>2 DEF Deregister
      <4> HIDE DEF TypeOK, RegistryInv
      <4> QED BY <4>1, <4>2, <4>3, <4>4, <4>5
    <3> QED BY <3>1 DEF ConnsAgree
  <2>3. ASSUME NEW c \in Closers, Deregister(s, c), s \notin streams PROVE ConnsAgree'
    BY <1>1, <2>3 DEF Deregister, setupVars
  <2>4. CASE StreamClose(s) \/ \E c \in Closers : CopyEnd(s, c) \/ CloseEnds(s, c)
    BY <1>1, <2>4 DEF StreamClose, CopyEnd, CloseEnds, setupVars
  <2> QED BY <1>4, <2>1, <2>2, <2>3, <2>4 DEF Registry
<1> QED BY <1>2, <1>3, <1>4 DEF Next

\* Both ends are closed before the goroutine deregisters, and a running
\* stream is never reopened.
LEMMA EndsStep ==
    ASSUME RegistryInv, EndsInv, GoneIsClosed, Next
    PROVE  EndsInv' /\ GoneIsClosed'
<1> USE DEF RegistryInv, TypeOK, EndsInv, GoneIsClosed
<1>1. CASE Listeners
  BY <1>1, ListenersApart DEF Apart, setupVars, registryVars, endVars
<1>2. ASSUME NEW s \in Conns, Setup(s) PROVE EndsInv' /\ GoneIsClosed'
  BY <1>2 DEF Setup, Incoming, Handle, handleStreamOk, handleStreamFail, Accept,
              setupStream, registryVars, endVars, StageInv
<1>3. ASSUME NEW s \in Conns, Registry(s) PROVE EndsInv' /\ GoneIsClosed'
  <2>1. CASE Register(s)
    BY <2>1 DEF Register, endVars, StageInv, Closers
  <2>2. CASE StreamClose(s)
    BY <2>2 DEF StreamClose, setupVars, registryVars, endVars, Closers
  <2>3. ASSUME NEW c \in Closers, CopyEnd(s, c) PROVE EndsInv' /\ GoneIsClosed'
    BY <2>3 DEF CopyEnd, setupVars, registryVars, endVars
  <2>4. ASSUME NEW c \in Closers, CloseEnds(s, c) PROVE EndsInv' /\ GoneIsClosed'
    BY <2>4 DEF CloseEnds, setupVars, registryVars
  <2>5. ASSUME NEW c \in Closers, Deregister(s, c) PROVE EndsInv' /\ GoneIsClosed'
    BY <2>5 DEF Deregister, setupVars, registryVars, endVars
  <2> QED BY <1>3, <2>1, <2>2, <2>3, <2>4, <2>5 DEF Registry
<1> QED BY <1>1, <1>2, <1>3 DEF Next

\* The sockets: the map entry goes first, so a listed listener is alone on
\* its address and Register finds the key free.
LEMMA SocketStep ==
    ASSUME TypeOK, SocketInv, NoAddressLost, Next
    PROVE  SocketInv' /\ NoAddressLost'
<1> USE DEF TypeOK, SocketInv, NoAddressLost
<1>1. CASE UNCHANGED localVars
  BY <1>1 DEF localVars
<1>2. ASSUME NEW l \in Locals, NEW a \in Addrs, NEW p \in Peers, Listen(l, a, p)
      PROVE  SocketInv' /\ NoAddressLost'
  BY <1>2 DEF Listen
<1>3. ASSUME NEW l \in Locals, RegisterLocal(l) PROVE SocketInv' /\ NoAddressLost'
  <2>1. ~ \E m \in listed : laddr[m] = laddr[l]
    BY <1>3 DEF RegisterLocal
  <2> QED BY <1>3, <2>1 DEF RegisterLocal
<1>4. ASSUME NEW l \in Locals, CloseListener(l) PROVE SocketInv' /\ NoAddressLost'
  BY <1>4 DEF CloseListener
<1>5. ASSUME NEW ls \in SUBSET Locals, CloseLocal(ls) PROVE SocketInv' /\ NoAddressLost'
  BY <1>5 DEF CloseLocal
<1>6. CASE Listeners
  BY <1>1, <1>2, <1>3, <1>4, <1>5, <1>6 DEF Listeners, ForwardRemote, CloseRemote
<1>7. ASSUME NEW s \in Conns, Setup(s) \/ Registry(s) PROVE UNCHANGED localVars
  BY <1>7 DEF Setup, Incoming, Handle, handleStreamOk, handleStreamFail, Accept,
              setupStream, Registry, Register, StreamClose, CopyEnd, CloseEnds,
              Deregister, listenerVars
<1> QED BY <1>1, <1>6, <1>7 DEF Next

-----------------------------------------------------------------------------
\* The inductive invariant holds in every reachable state.
THEOREM Invariance == Spec => []IInv
<1>1. Init => IInv
  <2> SUFFICES ASSUME Init PROVE IInv
    OBVIOUS
  <2>1. TypeOK
    BY P2PAssumption DEF Init, TypeOK
  <2>2. \A p \in Peers : OfPeer(streams, speer, p) = {}
    BY DEF Init, OfPeer
  <2>3. \A p \in Peers : Cardinality(OfPeer(streams, speer, p)) = 0
    BY <2>2, FS_EmptySet
  <2>4. ConnsAgree
    BY <2>3 DEF Init, ConnsAgree
  <2> QED BY <2>1, <2>4 DEF Init, IInv, RegistryInv, StageInv, EndsInv, GoneIsClosed,
                            SocketInv, NoAddressLost
<1>2. IInv /\ [Next]_vars => IInv'
  <2> SUFFICES ASSUME IInv, [Next]_vars PROVE IInv'
    OBVIOUS
  <2>1. CASE Next
    BY <2>1, TypeStep, StageStep, ConnsStep, EndsStep, SocketStep DEF IInv, RegistryInv
  <2>2. CASE UNCHANGED vars
    <3>1. ConnsAgree'
      BY <2>2 DEF vars, registryVars, setupVars, IInv, RegistryInv, ConnsAgree
    <3> QED BY <2>2, <3>1 DEF vars, listenerVars, localVars, setupVars, endVars,
                  registryVars, IInv, RegistryInv, TypeOK, StageInv, EndsInv, GoneIsClosed,
                  SocketInv, NoAddressLost
  <2> QED BY <2>1, <2>2
<1> QED BY <1>1, <1>2, PTL DEF Spec

\* StreamRegistry.conns and the connection manager's tag agree with the
\* registered streams, whoever deregisters them and however often.
THEOREM CountsRight == Spec => [](TypeOK /\ ConnsAgree)
<1>1. IInv => TypeOK /\ ConnsAgree
  BY DEF IInv, RegistryInv
<1> QED BY <1>1, Invariance, PTL

\* A stream that Deregister removed has both its ends closed.
THEOREM UnlistedIsClosed == Spec => []GoneIsClosed
<1>1. IInv => GoneIsClosed
  BY DEF IInv
<1> QED BY <1>1, Invariance, PTL

\* ForwardLocal and Listeners.Close never lose a bound address.
THEOREM AddressesKept == Spec => []NoAddressLost
<1>1. IInv => NoAddressLost
  BY DEF IInv
<1> QED BY <1>1, Invariance, PTL

\* The registries of streams and listeners are right (StreamRegistry,
\* Listeners), for any number of streams, peers and concurrent closes.
THEOREM Sound == Spec => []P2PSound
<1>1. TypeOK /\ ConnsAgree /\ GoneIsClosed /\ NoAddressLost => P2PSound
  BY DEF P2PSound
<1> QED BY <1>1, CountsRight, UnlistedIsClosed, AddressesKept, PTL
=============================================================================
