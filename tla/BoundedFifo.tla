----------------------------- MODULE BoundedFifo -----------------------------
(***************************************************************************)
(* What a queue of src/agoo/queue.c promises its callers, with no rings,   *)
(* locks or pipes: at most Capacity items, taken in the order they were    *)
(* put, each one by exactly one holder.                                    *)
(***************************************************************************)
EXTENDS Integers, Sequences

CONSTANTS Items, NULL, Holders, Capacity

VARIABLES
  queue,   \* the items put and not yet taken, oldest first
  hand     \* the item each holder took and still owns, or NULL

fifo == <<queue, hand>>

Owned == {queue[k] : k \in DOMAIN queue} \cup {hand[h] : h \in Holders}

Init == queue = <<>> /\ hand = [h \in Holders |-> NULL]

Put(i) == /\ i \notin Owned
          /\ Len(queue) < Capacity
          /\ queue' = Append(queue, i)
          /\ UNCHANGED hand

Take(h) == /\ queue # <<>>
           /\ hand[h] = NULL
           /\ hand' = [hand EXCEPT ![h] = Head(queue)]
           /\ queue' = Tail(queue)

Done(h) == /\ hand[h] # NULL
           /\ hand' = [hand EXCEPT ![h] = NULL]
           /\ UNCHANGED queue

Next == \/ \E i \in Items : Put(i)
        \/ \E h \in Holders : Take(h) \/ Done(h)

Spec == Init /\ [][Next]_fifo

\* The holders keep taking.
FairSpec == /\ Spec
            /\ WF_fifo(\E h \in Holders : Take(h))
            /\ \A h \in Holders : WF_fifo(Done(h))
=============================================================================
