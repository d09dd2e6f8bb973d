----------------------------- MODULE MCAgooQueue -----------------------------
(* Instances of the ring buffer for TLC: pushers and poppers are model values *)
(* that are interchangeable, and so are the items.                            *)
EXTENDS AgooQueue, TLC

Symmetry == Permutations(Pushers) \cup Permutations(Poppers) \cup Permutations(Items)

\* Several loops share con_queue alone, and only the listen thread pushes there.
OneListener ==
  (\E c, d \in loops : c # d) =>
    \A p, r \in Pushers : pstep[p] # "idle" /\ pstep[r] # "idle" => p = r
=============================================================================
