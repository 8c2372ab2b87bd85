------------------------------- MODULE MCSynch -------------------------------
(***************************************************************************)
(* A small instance of NachosSynch.  A table of 3 has room for 2: the code *)
(* keeps the last entry unused.                                            *)
(***************************************************************************)
EXTENDS NachosSynch, TLC

CONSTANTS t1, t2, t3
ThreeThreads == {t1, t2, t3}
Symmetric == Permutations(Thread)

TwoKeys == {11, 12}
ZeroOne == {0, 1}
=============================================================================
