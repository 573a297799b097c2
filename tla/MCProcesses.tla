----------------------------- MODULE MCProcesses -----------------------------
(* Small instances of Processes for TLC.                                   *)
EXTENDS Processes, TLC

CONSTANTS c1, c2, p1, p2, p3

OneCPU == {c1}
TwoCPUs == {c1, c2}
ThreeProcs == {p1, p2, p3}
Symmetry == Permutations({p2, p3})
=============================================================================
