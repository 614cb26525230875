----------------------------- MODULE MCCommands -----------------------------
(***************************************************************************)
(* An instance of what users and other programs ask of a node, for TLC:    *)
(* forwarded streams, migrations, the command line, `ipfs files`, the      *)
(* gateway and its hosts, routing, and the swarm commands.  They share no  *)
(* state in these models, so a behaviour is one of a single part: part     *)
(* names it, and the others stay in an initial state.                      *)
(***************************************************************************)
EXTENDS P2PStreams, Migrations, CommandLine, MutableFiles, Gateway, Hostname,
        Routing, Swarm

VARIABLE part

Parts == {"streams", "migrations", "commandLine", "files", "gateway", "hostname",
          "routers", "query", "swarm", "addresses"}

commandsVars == <<vars, mgVars, clVars, mfVars, gwVars, hnVars, rtVars, qcVars,
                  swVars, arVars, part>>

OneRequest == CHOOSE q \in Requested : TRUE

\* The parts with more than one initial state have one of them when another
\* part runs.
CommandsInit ==
    /\ part \in Parts
    /\ Init /\ MgInit /\ ClInit /\ MfInit /\ GwInit /\ SwInit
    /\ HnInit /\ (part = "hostname" \/ (hnFirst = OneRequest /\ hnSlash = "fine"))
    /\ (part = "routers" \/ rtKind = "none") /\ RtInit
    /\ QcInit
    /\ (part = "addresses" \/ (arArgs = <<"bad">> /\ arCmd = "connect")) /\ ArInit

CommandsNext ==
    /\ UNCHANGED part
    /\ \/ part = "streams" /\ Next
          /\ UNCHANGED <<mgVars, clVars, mfVars, gwVars, hnVars, rtVars, qcVars, swVars, arVars>>
       \/ part = "migrations" /\ MgStep
          /\ UNCHANGED <<vars, clVars, mfVars, gwVars, hnVars, rtVars, qcVars, swVars, arVars>>
       \/ part = "commandLine" /\ ClNext
          /\ UNCHANGED <<vars, mgVars, mfVars, gwVars, hnVars, rtVars, qcVars, swVars, arVars>>
       \/ part = "files" /\ MfNext
          /\ UNCHANGED <<vars, mgVars, clVars, gwVars, hnVars, rtVars, qcVars, swVars, arVars>>
       \/ part = "gateway" /\ GwNext
          /\ UNCHANGED <<vars, mgVars, clVars, mfVars, hnVars, rtVars, qcVars, swVars, arVars>>
       \/ part = "hostname" /\ HnNext
          /\ UNCHANGED <<vars, mgVars, clVars, mfVars, gwVars, rtVars, qcVars, swVars, arVars>>
       \/ part = "routers" /\ RtNext
          /\ UNCHANGED <<vars, mgVars, clVars, mfVars, gwVars, hnVars, qcVars, swVars, arVars>>
       \/ part = "query" /\ QcNext
          /\ UNCHANGED <<vars, mgVars, clVars, mfVars, gwVars, hnVars, rtVars, swVars, arVars>>
       \/ part = "swarm" /\ SwNext
          /\ UNCHANGED <<vars, mgVars, clVars, mfVars, gwVars, hnVars, rtVars, qcVars, arVars>>
       \/ part = "addresses" /\ ArNext
          /\ UNCHANGED <<vars, mgVars, clVars, mfVars, gwVars, hnVars, rtVars, qcVars, swVars>>

CommandsSpec == CommandsInit /\ [][CommandsNext]_commandsVars

-----------------------------------------------------------------------------
(* Values of the constants.                                                *)

MCSites == {[f |-> "v1", idx |-> "v1", rule |-> "notFound"],
            [f |-> "v2", idx |-> "none", rule |-> "rewrite"]}

\* The default gateway, and a configuration that removes it and adds gateways
\* with and without inlined DNSLink labels, and a website.
MCDefault == [localhost |-> [paths |-> {"ipfs", "ipns"}, subdomains |-> TRUE, inline |-> FALSE, noLink |-> FALSE]]
MCPublic == [localhost |-> NoGateway,
            dweb |-> [paths |-> {"ipfs", "ipns"}, subdomains |-> TRUE, inline |-> FALSE, noLink |-> TRUE],
            inl |-> [paths |-> {"ipfs", "ipns"}, subdomains |-> TRUE, inline |-> TRUE, noLink |-> FALSE],
            d |-> [paths |-> {"ipfs"}, subdomains |-> FALSE, inline |-> FALSE, noLink |-> FALSE]]

MCRouters == {[type |-> "dht", kids |-> <<>>], [type |-> "broken", kids |-> <<>>]}
    \cup {[type |-> "parallel", kids |-> k] :
            k \in {<<"a">>, <<"b">>, <<"c">>, <<"a", "b">>, <<"b", "c">>, <<"c", "a">>, <<"c", "b">>}}

\* Two roots that share a key.
MCRoots == << {1, 2}, {2, 3} >>

MCArgs == UNION {[1..n -> {"peer", "name", "bad"}] : n \in 1..3}
=============================================================================
