------------------------- MODULE MCGarbageCollection -------------------------
(***************************************************************************)
(* A DAG for the runs of GarbageCollection.                                *)
(*                                                                         *)
(*   dir -> {file, leaf},  file -> {chunk},  top -> {leaf},                *)
(*   rawFile names the block of file with the raw codec, so without links. *)
(*   empty is the empty directory, the first MFS root.                     *)
(***************************************************************************)
EXTENDS GarbageCollection

MCCids   == {"dir", "file", "rawFile", "leaf", "chunk", "top", "empty"}
MCHashes == MCCids \ {"rawFile"}

MCMh == [c \in MCCids |-> IF c = "rawFile" THEN "file" ELSE c]

MCLinks == [c \in MCCids |->
    CASE c = "dir"  -> {"file", "leaf"}
      [] c = "file" -> {"chunk"}
      [] c = "top"  -> {"leaf"}
      [] OTHER      -> {}]

\* Every adder adds a directory with the two files.
MCFiles == [a \in Adders |-> <<"file", "leaf">>]
MCRoots == [a \in Adders |->
    [n \in 0..2 |-> CASE n = 0 -> "empty" [] n = 1 -> "file" [] n = 2 -> "dir"]]
MCFinal == [a \in Adders |-> "dir"]
=============================================================================
