----------------------------- MODULE MCServices -----------------------------
(***************************************************************************)
(* An instance of the services of a daemon for TLC: the forwarded streams, *)
(* the life of the daemon itself with its plugins, the bootstrap           *)
(* supervisor and the remote pinning of the MFS root.  They share no state *)
(* in these models, so a behaviour is one of a single service: service     *)
(* names it, and the others stay in their initial states.                  *)
(***************************************************************************)
EXTENDS P2PStreams, Daemon, Bootstrap, RemoteMFSPin

VARIABLE service

servicesVars == <<vars, dmVars, bsVars, rpVars, service>>

\* The services of a daemon keep their types; plugins run only under a loader
\* that will close them, a daemon that ends leaves nothing behind and waits for
\* its servers, Bootstrap returns after a round, and remote pinning hangs
\* or pins twice only when the services changed (PluginLoader, daemonFunc, pinAllMFS).
ServicesSound ==
    /\ TypeOK /\ PlTypeOK /\ DmTypeOK /\ BsTypeOK
    /\ PlHeldWhileRunning /\ DmNothingLeft /\ DmWaitsForAll /\ BsOneRound
    /\ RpSound

ServicesInit ==
    /\ service \in {"streams", "daemon", "bootstrap", "remotePin"}
    /\ Init /\ DmInit /\ BsInit /\ RpInit

ServicesNext ==
    /\ UNCHANGED service
    /\ \/ service = "streams" /\ Next
          /\ UNCHANGED <<dmVars, bsVars, rpVars>>
       \/ service = "daemon" /\ DmNext
          /\ UNCHANGED <<vars, bsVars, rpVars>>
       \/ service = "bootstrap" /\ BsNext
          /\ UNCHANGED <<vars, dmVars, rpVars>>
       \/ service = "remotePin" /\ RpNext
          /\ UNCHANGED <<vars, dmVars, bsVars>>

\* A service in its initial state has no enabled action that must happen, so
\* the fairness of the services that do not run asks nothing.
ServicesFairness == Fairness /\ DmFairness /\ BsFairness /\ RpFairness

ServicesSpec == ServicesInit /\ [][ServicesNext]_servicesVars /\ ServicesFairness
=============================================================================
