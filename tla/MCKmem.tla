------------------------------- MODULE MCKmem -------------------------------
(* A small instance of Kmem for TLC: pages of six units.                    *)
EXTENDS Kmem

CONSTANTS k2, k4, n1

MCBuiltin == <<k2, k4>>
MCSizeClass == k2 :> 2 @@ k4 :> 4

\* Four usable pages and the end of a fifth.
MCMap == {<<[start |-> 0, length |-> 27, usable |-> TRUE]>>}
=============================================================================
