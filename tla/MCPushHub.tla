------------------------------ MODULE MCPushHub ------------------------------
(* Instances of the push hub for TLC.  The connection belongs to the first     *)
(* loop of the list, which gets the copy of a publication; the other loop gets *)
(* the original, and may be slower.  The threads are interchangeable.          *)
EXTENDS PushHub, TLC

OnFirst    == [u \in Ups |-> 1]
Both       == {"on_empty", "on_close"}
OnlyWrites == {"WRITE"}

Symmetry == Permutations(Threads)
=============================================================================
