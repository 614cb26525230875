---------------------------- MODULE MCRepository ----------------------------
(***************************************************************************)
(* An instance of the configuration and the keys of a repository and of    *)
(* the commands that read what it stores, for TLC.  They share no state in *)
(* these models, so a behaviour is one of a single part: part names it,    *)
(* and the others stay in an initial state.                                *)
(***************************************************************************)
EXTENDS RepoConfig, Keys, Reading, TLC

CONSTANTS p1, p2

VARIABLE part

Parts == {"config", "keys", "refs", "cat", "stat"}

repositoryVars == <<vars, kyVars, rfVars, ctVars, wkVars, part>>

\* The parts with more than one initial state have one of them when another
\* part runs.
RepositoryInit ==
    /\ part \in Parts
    /\ Init /\ (part # "config" => /\ mem = (CHOOSE o \in Objs : TRUE)
                                   /\ file.extra = (CHOOSE x \in Extras : TRUE))
    /\ KyInit
    /\ RfInit /\ (part = "refs" \/ (rfRoots = <<"r">> /\ rfUnique /\ rfMax = 0))
    /\ CtInit /\ (part = "cat" \/ (ctFiles = <<0>> /\ ctOffset = 0 /\ ctMax = 0))
    /\ WkInit /\ (part = "stat" \/ wkHave = {})

RepositoryNext ==
    /\ UNCHANGED part
    /\ \/ part = "config" /\ Next /\ UNCHANGED <<kyVars, rfVars, ctVars, wkVars>>
       \/ part = "keys" /\ KyNext /\ UNCHANGED <<vars, rfVars, ctVars, wkVars>>
       \/ part = "refs" /\ RfNext /\ UNCHANGED <<vars, kyVars, ctVars, wkVars>>
       \/ part = "cat" /\ CtNext /\ UNCHANGED <<vars, kyVars, rfVars, wkVars>>
       \/ part = "stat" /\ WkNext /\ UNCHANGED <<vars, kyVars, rfVars, ctVars>>

RepositorySpec == RepositoryInit /\ [][RepositoryNext]_repositoryVars

-----------------------------------------------------------------------------
(* Values of the constants.                                                *)

Lists == {{p1}}

\* A chain with a shortcut: c is at depths one and three below r.
MCRfLinks == [r |-> <<"a", "c">>, a |-> <<"b">>, b |-> <<"c">>, c |-> <<"d">>, d |-> <<>>]
MCRfRoots == {<<"r">>, <<"a", "r">>, <<"b", "a">>, <<"r", "c", "r">>}
MCDepths == -1..4

MCWkSizes == [r |-> 2, a |-> 1, b |-> 3, c |-> 1, d |-> 2]

\* The links of b say too little, the second one of r too much.
MCWkTsizes ==
    [x \in RfCids |->
        [i \in DOMAIN RfLinks[x] |->
            IF x = "b" THEN 0
            ELSE WkSum(RfCids, RfLinks[x][i]) + IF x = "r" /\ i = 2 THEN 9 ELSE 0]]

MCFiles == UNION {[1..n -> 0..3] : n \in 1..3}
MCMaxes == -1..5

Symmetry == Permutations(Reqs) \cup Permutations(Objs)
=============================================================================
