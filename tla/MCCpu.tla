-------------------------------- MODULE MCCpu --------------------------------
(* Instances of NachosCpu for TLC: the main thread and two others. *)
EXTENDS NachosCpu

ThreeThreads == 0 .. 2
=============================================================================
