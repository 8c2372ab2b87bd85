------------------------------ MODULE MCThreads ------------------------------
(***************************************************************************)
(* Small instances of NachosThreads.  MaxThreads = 5 allows four threads, *)
(* because the code keeps the last entry of its table unused.              *)
(***************************************************************************)
EXTENDS NachosThreads

TwoCodes == {0, 7}
OneCode == {0}
=============================================================================
