-------------------------------- MODULE MCCpuA2 --------------------------------
(* The kernel of assignment 2 for TLC: the main thread and three others.    *)
EXTENDS NachosCpuA2

MCPid == 0 .. 3
MCPolicies == {"NACHOS_DEFAULT", "NON_PREEMPT_SJF", "ROUND_ROBIN", "UNIX_SCHED"}
=============================================================================
