------------------------------ MODULE MCThreadsA1 ------------------------------
(* The threads of assignment 1 with small executables.                      *)
EXTENDS NachosThreadsA1

MCFilePages == {1}
MCExitCode == {3}
=============================================================================
