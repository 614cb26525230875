------------------------------ MODULE AddEvents ------------------------------
(***************************************************************************)
(* The events by which `ipfs add` tells of its progress (AddEvent in       *)
(* core/commands/add.go), and what a sequence of them amounts to.          *)
(***************************************************************************)
EXTENDS Integers, Sequences

\* How much of a file is read, or what was added.
AddEvent(name, added, bytes) == [name |-> name, added |-> added, bytes |-> bytes]

EventsOf(Names) == [name : Names, added : BOOLEAN, bytes : Nat]

\* The names of what was added, in order.
NamesAdded(s) ==
    LET upTo[n \in 0..Len(s)] ==
            IF n = 0 THEN <<>>
            ELSE IF s[n].added THEN Append(upTo[n - 1], s[n].name) ELSE upTo[n - 1]
    IN  upTo[Len(s)]

\* The j-th event is the next one after the i-th that counts bytes.
NextCount(s, i, j) == i < j /\ ~s[j].added /\ \A k \in (i + 1)..(j - 1) : s[k].added

\* The n-th event has the last count of a file: the next count is of another one.
LastCount(s, n) ==
    ~s[n].added /\ \A j \in 1..Len(s) : NextCount(s, n, j) => s[j].name # s[n].name

\* The bytes that were read: the last count of every file.
BytesRead(s) ==
    LET upTo[n \in 0..Len(s)] ==
            IF n = 0 THEN 0 ELSE upTo[n - 1] + (IF LastCount(s, n) THEN s[n].bytes ELSE 0)
    IN  upTo[Len(s)]
=============================================================================
