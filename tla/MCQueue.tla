------------------------------- MODULE MCQueue -------------------------------
(***************************************************************************)
(* Small instances of NachosQueue: two enqueuers that compete for one slot.*)
(***************************************************************************)
EXTENDS NachosQueue

CONSTANTS m, e1, e2, d1, d2
TwoEnqueuers == {e1, e2}
TwoDequeuers == {d1, d2}
FourChildren == {m, e1, e2, d1, d2}
QueueKeys == {19, 20}
JustOne == {1}
=============================================================================
