------------------------------ MODULE MCFSRepo ------------------------------
(* Instances of FSRepo for TLC. *)
EXTENDS FSRepo, TLC

CONSTANTS p1, p2, c1, c2, c3

\* The caller that closes twice has a process of its own; two share another.
Apart == c1 :> p1 @@ c2 :> p2 @@ c3 :> p2

\* It shares its process with another caller.
Shared == c1 :> p1 @@ c2 :> p1

=============================================================================
