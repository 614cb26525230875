------------------------------ MODULE RepoGuard ------------------------------
(***************************************************************************)
(* What the lock file and OnlyOne promise together: one process at a time  *)
(* may work on the repository, it hands out the repository only while it   *)
(* is that process, and it stays that process until it has taken the       *)
(* repository back or died.                                                *)
(***************************************************************************)
CONSTANTS Users, Nobody

VARIABLES
    holder,     \* the process that may touch the repository
    serving     \* the processes whose callers share an open repository

guardVars == <<holder, serving>>

GuardInit == holder = Nobody /\ serving = {}

Take(p) == holder = Nobody /\ holder' = p /\ UNCHANGED serving

Publish(p) == holder = p /\ serving' = serving \cup {p} /\ UNCHANGED holder

Withdraw(p) == p \in serving /\ serving' = serving \ {p} /\ UNCHANGED holder

Leave(p) == holder = p /\ p \notin serving /\ holder' = Nobody /\ UNCHANGED serving

Die(p) == holder = p /\ holder' = Nobody /\ serving' = serving \ {p}

GuardNext == \E p \in Users : Take(p) \/ Publish(p) \/ Withdraw(p) \/ Leave(p) \/ Die(p)

GuardSpec == GuardInit /\ [][GuardNext]_guardVars
=============================================================================
