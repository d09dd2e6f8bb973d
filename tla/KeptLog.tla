------------------------------- MODULE KeptLog -------------------------------
(***************************************************************************)
(* What the log of src/agoo/log.c promises whoever reads its files, with   *)
(* no ring, threads, buffers, archives or renaming: one sequence of        *)
(* entries that grows at its end and loses only its oldest, and that a     *)
(* process that dies cuts no shorter than what it was safe up to.          *)
(***************************************************************************)
EXTENDS Integers, Sequences

CONSTANTS
  Entries,
  Files, Size   \* the archives that are kept, and what one of them holds

VARIABLES
  pending,  \* the entries logged and not yet written, oldest first
  kept,     \* the entries that the files hold, oldest first
  safe,     \* how many of those would survive the end of the process
  deaths    \* how often the process died

log == <<pending, kept, safe, deaths>>

Init == pending = <<>> /\ kept = <<>> /\ safe = 0 /\ deaths = 0

Put(e) == /\ pending' = Append(pending, e)
          /\ UNCHANGED <<kept, safe, deaths>>

Write == /\ pending # <<>>
         /\ kept' = Append(kept, Head(pending))
         /\ pending' = Tail(pending)
         /\ UNCHANGED <<safe, deaths>>

Sync == /\ safe' \in safe .. Len(kept)
        /\ UNCHANGED <<pending, kept, deaths>>

\* The oldest n go, and leave what Files full files hold; but a process that
\* dies may leave an archive missing, which is counted as one.
Forget(n) == /\ kept' = SubSeq(kept, n + 1, Len(kept))
             /\ safe' = safe - n
             /\ Len(kept') >= (Files - deaths) * Size
             /\ UNCHANGED <<pending, deaths>>

\* The process dies and starts again: the n oldest are found again.
Die(n) == /\ kept' = SubSeq(kept, 1, n)
          /\ safe' = n
          /\ pending' = <<>>
          /\ deaths' = deaths + 1

Next == \/ \E e \in Entries : Put(e)
        \/ Write
        \/ Sync
        \/ \E n \in 1 .. safe : Forget(n)
        \/ \E n \in safe .. Len(kept) : Die(n)

Spec == Init /\ [][Next]_log
=============================================================================
