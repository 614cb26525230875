----------------------------- MODULE P2PStreams -----------------------------
(***************************************************************************)
(* Stream mounting, `ipfs p2p` (kubo/p2p): listeners that forward libp2p   *)
(* streams to a local address or local connections to a peer, and the      *)
(* registry of the streams that are forwarded.                             *)
(*                                                                         *)
(* A forwarded stream has two ends and two copying goroutines.  Whichever  *)
(* copier returns first closes both ends and deregisters the stream, then  *)
(* the other one does it again; `p2p stream close` may be a third.  A      *)
(* critical section of the registry's or the listeners' mutex is one step, *)
(* and so is the closing of both ends, which takes no lock.                *)
(***************************************************************************)
EXTENDS Integers, FiniteSets

CONSTANTS
    Peers,      \* remote peers
    Protos,     \* protocol names, the keys of the remote listeners
    Addrs,      \* local addresses, the keys of the local listeners
    Locals,     \* localListener objects; bounds the calls of ForwardLocal
    Conns       \* forwarded streams, also their registry IDs (never reused)

ASSUME P2PAssumption == IsFiniteSet(Conns) /\ Peers # {} /\ Addrs # {} /\ Protos # {}

VARIABLES
    remotes,    \* ListenersP2P.Listeners: the protocols with a listener
    lstage,     \* where the call of ForwardLocal for a localListener is
    bound,      \* localListeners whose socket is open
    listed,     \* ListenersLocal.Listeners
    closing,    \* localListeners on the todo list of a Listeners.Close
    laddr,      \* the address it listens on
    lpeer,      \* the peer it forwards to
    stage,      \* where a stream is
    proto,      \* the protocol of an incoming stream
    speer,      \* the peer of a stream
    local,      \* the local end of a stream
    remote,     \* the remote end
    streams,    \* StreamRegistry.Streams
    conns,      \* StreamRegistry.conns
    tagged,     \* peers tagged in the connection manager
    closer      \* the copiers and the close command of a stream

localVars    == <<lstage, bound, listed, closing, laddr, lpeer>>
listenerVars == <<remotes, localVars>>
setupVars    == <<stage, proto, speer>>
endVars      == <<local, remote>>
registryVars == <<streams, conns, tagged>>
vars == <<listenerVars, setupVars, endVars, registryVars, closer>>

\* The copier into the local end, the one into the remote end, the command.
Closers == {"toLocal", "toRemote", "cmd"}

TypeOK ==
    /\ remotes \subseteq Protos
    /\ lstage \in [Locals -> {"none", "listening", "ok", "failed"}]
    /\ bound \subseteq Locals
    /\ listed \subseteq Locals
    /\ closing \subseteq Locals
    /\ laddr \in [Locals -> Addrs]
    /\ lpeer \in [Locals -> Peers]
    /\ stage \in [Conns -> {"none", "matched", "dialLocal", "dialRemote", "ready",
                            "running", "refused", "dropped"}]
    /\ proto \in [Conns -> Protos]
    /\ speer \in [Conns -> Peers]
    /\ local \in [Conns -> {"none", "open", "closed"}]
    /\ remote \in [Conns -> {"none", "open", "closed"}]
    /\ streams \subseteq Conns
    /\ conns \in [Peers -> Nat]
    /\ tagged \subseteq Peers
    /\ closer \in [Conns -> [Closers -> {"off", "copy", "close", "deregister"}]]

Init ==
    /\ remotes = {}
    /\ lstage = [l \in Locals |-> "none"]
    /\ bound = {} /\ listed = {} /\ closing = {}
    /\ laddr = [l \in Locals |-> CHOOSE x \in Addrs : TRUE]
    /\ lpeer = [l \in Locals |-> CHOOSE p \in Peers : TRUE]
    /\ stage = [s \in Conns |-> "none"]
    /\ proto = [s \in Conns |-> CHOOSE x \in Protos : TRUE]
    /\ speer = [s \in Conns |-> CHOOSE p \in Peers : TRUE]
    /\ local = [s \in Conns |-> "none"]
    /\ remote = [s \in Conns |-> "none"]
    /\ streams = {}
    /\ conns = [p \in Peers |-> 0]
    /\ tagged = {}
    /\ closer = [s \in Conns |-> [c \in Closers |-> "off"]]

-----------------------------------------------------------------------------
(* Listeners.                                                              *)

ForwardRemote(x) ==
    /\ x \notin remotes
    /\ remotes' = remotes \cup {x}
    /\ UNCHANGED <<localVars, setupVars, endVars, registryVars, closer>>

\* The system refuses an address that is still bound; ForwardLocal then
\* returns the error and nothing has changed.
Listen(l, a, p) ==
    /\ lstage[l] = "none"
    /\ \A m \in bound : laddr[m] # a
    /\ lstage' = [lstage EXCEPT ![l] = "listening"]
    /\ bound' = bound \cup {l}
    /\ laddr' = [laddr EXCEPT ![l] = a]
    /\ lpeer' = [lpeer EXCEPT ![l] = p]
    /\ UNCHANGED <<remotes, listed, closing, setupVars, endVars, registryVars, closer>>

\* Listeners.Register, then the accepting goroutine.  When the key is taken
\* ForwardLocal returns the error and leaves the socket open.
RegisterLocal(l) ==
    /\ lstage[l] = "listening"
    /\ LET taken == \E m \in listed : laddr[m] = laddr[l] IN
          /\ lstage' = [lstage EXCEPT ![l] = IF taken THEN "failed" ELSE "ok"]
          /\ listed' = IF taken THEN listed ELSE listed \cup {l}
    /\ UNCHANGED <<remotes, bound, closing, laddr, lpeer, setupVars, endVars,
                   registryVars, closer>>

\* Mutant: the sockets are closed first, the map is cleaned up afterwards.
CloseLocal_SocketFirst(ls) ==
    /\ ls # {} /\ ls \subseteq listed
    /\ bound' = bound \ ls
    /\ UNCHANGED <<remotes, lstage, listed, closing, laddr, lpeer, setupVars, endVars,
                   registryVars, closer>>

\* Listeners.Close: the matching listeners leave the map under the lock ...
CloseLocal(ls) ==
    /\ ls # {} /\ ls \subseteq listed
    /\ listed' = listed \ ls
    /\ closing' = closing \cup ls
    /\ UNCHANGED <<remotes, lstage, bound, laddr, lpeer, setupVars, endVars,
                   registryVars, closer>>

\* ... and are closed after it, one by one.
CloseListener(l) ==
    /\ l \in closing
    /\ closing' = closing \ {l}
    /\ bound' = bound \ {l}
    /\ UNCHANGED <<remotes, lstage, listed, laddr, lpeer, setupVars, endVars,
                   registryVars, closer>>

CloseRemote(xs) ==
    /\ xs # {} /\ xs \subseteq remotes
    /\ remotes' = remotes \ xs
    /\ UNCHANGED <<localVars, setupVars, endVars, registryVars, closer>>

-----------------------------------------------------------------------------
(* Setting a stream up.                                                    *)

\* A peer opens a stream and the match function finds a listener ...
Incoming(s, x, p) ==
    /\ stage[s] = "none"
    /\ x \in remotes
    /\ stage' = [stage EXCEPT ![s] = "matched"]
    /\ proto' = [proto EXCEPT ![s] = x]
    /\ speer' = [speer EXCEPT ![s] = p]
    /\ remote' = [remote EXCEPT ![s] = "open"]
    /\ UNCHANGED <<listenerVars, local, registryVars, closer>>

\* ... which the handler looks up again: it may be gone, and then the handler
\* does nothing with the stream.
Handle(s) ==
    /\ stage[s] = "matched"
    /\ stage' = [stage EXCEPT ![s] = IF proto[s] \in remotes THEN "dialLocal"
                                                             ELSE "dropped"]
    /\ UNCHANGED <<listenerVars, proto, speer, endVars, registryVars, closer>>

\* handleStream: the target is dialled and, if asked, told the peer.
handleStreamOk(s) ==
    /\ stage[s] = "dialLocal"
    /\ local' = [local EXCEPT ![s] = "open"]
    /\ stage' = [stage EXCEPT ![s] = "ready"]
    /\ UNCHANGED <<listenerVars, proto, speer, remote, registryVars, closer>>

\* It fails; if only the report failed, the local end stays open.
handleStreamFail(s, dialled) ==
    /\ stage[s] = "dialLocal"
    /\ local' = [local EXCEPT ![s] = IF dialled THEN "open" ELSE @]
    /\ remote' = [remote EXCEPT ![s] = "closed"]
    /\ stage' = [stage EXCEPT ![s] = "refused"]
    /\ UNCHANGED <<listenerVars, proto, speer, registryVars, closer>>

\* acceptConns: a removed listener accepts until it is closed.
Accept(l, s) ==
    /\ lstage[l] = "ok" /\ l \in bound
    /\ stage[s] = "none"
    /\ stage' = [stage EXCEPT ![s] = "dialRemote"]
    /\ speer' = [speer EXCEPT ![s] = lpeer[l]]
    /\ local' = [local EXCEPT ![s] = "open"]
    /\ UNCHANGED <<listenerVars, proto, remote, registryVars, closer>>

\* setupStream: the peer is dialled, within 30 seconds, or the connection closed.
setupStream(s, ok) ==
    /\ stage[s] = "dialRemote"
    /\ remote' = [remote EXCEPT ![s] = IF ok THEN "open" ELSE @]
    /\ local' = [local EXCEPT ![s] = IF ok THEN @ ELSE "closed"]
    /\ stage' = [stage EXCEPT ![s] = IF ok THEN "ready" ELSE "refused"]
    /\ UNCHANGED <<listenerVars, proto, speer, registryVars, closer>>

-----------------------------------------------------------------------------
(* The registry.                                                           *)

\* Register and startStreaming.
Register(s) ==
    /\ stage[s] = "ready"
    /\ stage' = [stage EXCEPT ![s] = "running"]
    /\ streams' = streams \cup {s}
    /\ conns' = [conns EXCEPT ![speer[s]] = @ + 1]
    /\ tagged' = tagged \cup {speer[s]}
    /\ closer' = [closer EXCEPT ![s]["toLocal"] = "copy", ![s]["toRemote"] = "copy"]
    /\ UNCHANGED <<listenerVars, proto, speer, endVars>>

\* io.Copy returns, with or without an error.
CopyEnd(s, c) ==
    /\ closer[s][c] = "copy"
    /\ closer' = [closer EXCEPT ![s][c] = "close"]
    /\ UNCHANGED <<listenerVars, setupVars, endVars, registryVars>>

\* `p2p stream close` picks the stream in the registry.
StreamClose(s) ==
    /\ s \in streams
    /\ closer[s]["cmd"] = "off"
    /\ closer' = [closer EXCEPT ![s]["cmd"] = "close"]
    /\ UNCHANGED <<listenerVars, setupVars, endVars, registryVars>>

\* Mutant: only the remote end is closed.
CloseEnds_KeepLocal(s, c) ==
    /\ closer[s][c] = "close"
    /\ remote' = [remote EXCEPT ![s] = "closed"]
    /\ closer' = [closer EXCEPT ![s][c] = "deregister"]
    /\ UNCHANGED <<listenerVars, setupVars, local, registryVars>>

\* Close or Reset, before Deregister.
CloseEnds(s, c) ==
    /\ closer[s][c] = "close"
    /\ local' = [local EXCEPT ![s] = "closed"]
    /\ remote' = [remote EXCEPT ![s] = "closed"]
    /\ closer' = [closer EXCEPT ![s][c] = "deregister"]
    /\ UNCHANGED <<listenerVars, setupVars, registryVars>>

\* Mutants: the stream is not looked up first; the count is kept but the tag
\* removed with any stream of the peer.
Deregister_Twice(s, c) ==
    /\ closer[s][c] = "deregister"
    /\ closer' = [closer EXCEPT ![s][c] = "off"]
    /\ streams' = streams \ {s}
    /\ conns' = [conns EXCEPT ![speer[s]] = @ - 1]
    /\ tagged' = IF conns[speer[s]] > 1 THEN tagged ELSE tagged \ {speer[s]}
    /\ UNCHANGED <<listenerVars, setupVars, endVars>>

Deregister_Untag(s, c) ==
    /\ closer[s][c] = "deregister"
    /\ closer' = [closer EXCEPT ![s][c] = "off"]
    /\ streams' = streams \ {s}
    /\ conns' = [conns EXCEPT ![speer[s]] = IF s \in streams THEN @ - 1 ELSE @]
    /\ tagged' = tagged \ {speer[s]}
    /\ UNCHANGED <<listenerVars, setupVars, endVars>>

Deregister(s, c) ==
    /\ closer[s][c] = "deregister"
    /\ closer' = [closer EXCEPT ![s][c] = "off"]
    /\ \/ /\ s \notin streams
          /\ UNCHANGED registryVars
       \/ /\ s \in streams
          /\ streams' = streams \ {s}
          /\ conns' = [conns EXCEPT ![speer[s]] = @ - 1]
          /\ tagged' = IF conns[speer[s]] > 1 THEN tagged ELSE tagged \ {speer[s]}
    /\ UNCHANGED <<listenerVars, setupVars, endVars>>

-----------------------------------------------------------------------------
Listeners ==
    \/ \E x \in Protos : ForwardRemote(x)
    \/ \E xs \in SUBSET Protos : CloseRemote(xs)
    \/ \E l \in Locals :
          \/ \E a \in Addrs, p \in Peers : Listen(l, a, p)
          \/ RegisterLocal(l)
          \/ CloseListener(l)
    \/ \E ls \in SUBSET Locals : CloseLocal(ls)

Setup(s) ==
    \/ \E x \in Protos, p \in Peers : Incoming(s, x, p)
    \/ Handle(s)
    \/ handleStreamOk(s)
    \/ \E d \in BOOLEAN : handleStreamFail(s, d)
    \/ \E l \in Locals : Accept(l, s)
    \/ \E ok \in BOOLEAN : setupStream(s, ok)

Registry(s) ==
    \/ Register(s)
    \/ StreamClose(s)
    \/ \E c \in Closers : CopyEnd(s, c) \/ CloseEnds(s, c) \/ Deregister(s, c)

Next == Listeners \/ \E s \in Conns : Setup(s) \/ Registry(s)

Spec == Init /\ [][Next]_vars

\* The end a copier reads from: once it is closed, the copier returns.
Source(s, c) == IF c = "toLocal" THEN remote[s] ELSE local[s]

(***************************************************************************)
(* Fairness.  A goroutine that can run does, and a read from a closed end  *)
(* returns.  A stream need never end by itself.                            *)
(***************************************************************************)
Fairness ==
    /\ \A s \in Conns, c \in Closers :
          WF_vars(\/ Source(s, c) = "closed" /\ CopyEnd(s, c)
                  \/ CloseEnds(s, c) \/ Deregister(s, c))
    /\ \A l \in Locals : WF_vars(CloseListener(l))

FairSpec == Spec /\ Fairness

-----------------------------------------------------------------------------
(* Properties.                                                             *)

\* The streams of ss whose peer is p; f gives the peers.
OfPeer(ss, f, p) == {s \in ss : f[s] = p}

\* The number of streams of a peer that the registry keeps is right, and the
\* peer is tagged exactly while there is one, however many goroutines and
\* commands deregister the same stream.
ConnsAgree ==
    \A p \in Peers :
        /\ conns[p] = Cardinality(OfPeer(streams, speer, p))
        /\ p \in tagged <=> conns[p] > 0

\* A stream that left the registry has no open end: nothing is forwarded that
\* `p2p stream ls` does not show.
GoneIsClosed ==
    \A s \in Conns :
        stage[s] = "running" /\ s \notin streams =>
            local[s] = "closed" /\ remote[s] = "closed"

\* Every open socket belongs to a ForwardLocal under way, to a listener that
\* `p2p ls` shows or to one that is being closed: an address that is busy can
\* always be freed with `p2p close`.  It depends on the order of Listeners.Close
\* and on ForwardLocal listening before it registers.
NoAddressLost ==
    \A l \in bound : lstage[l] = "listening" \/ l \in listed \/ l \in closing

\* When one copier has returned, or the stream was closed by command, the
\* stream leaves the registry and both copiers end.
TornDown ==
    \A s \in Conns :
        (\E c \in Closers : closer[s][c] \in {"close", "deregister"})
            ~> (s \notin streams /\ \A c \in Closers : closer[s][c] = "off")

\* The registries are right: the counts and tags of peers, no stream unlisted
\* with an end open, and no address bound that nobody can close
\* (StreamRegistry, Listeners).
P2PSound == TypeOK /\ ConnsAgree /\ GoneIsClosed /\ NoAddressLost
=============================================================================
