------------------------------ MODULE MCConsole ------------------------------
(* Two CPUs, two readers, two terminals of four cells. *)
EXTENDS Console

CONSTANTS t1, t2, k1

TwoCPUs == {1, 2}
TwoTerminals == {1, 2}
OneKey == {k1}
TwoThreads == {t1, t2}
=============================================================================
