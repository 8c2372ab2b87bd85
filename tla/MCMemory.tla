------------------------------- MODULE MCMemory -------------------------------
(* Instances of NachosMemory for TLC. *)
EXTENDS NachosMemory, TLC

Load(programs, processes, pages) ==
  [programs |-> programs, processes |-> processes, pages |-> pages]

(* A program of a page with contents and one that is clear.                 *)
Small == {Load({<<1, 0>>}, 3, 3)}

(* The same in four processes, two of which may fork at once; or a program  *)
(* of one page, which leaves room for shared memory.                        *)
ForksOrShares == {Load({<<1, 0>>}, 4, 2), Load({<<1>>}, 3, 2)}

Symmetric == Permutations(Thread)

(* A machine that has stopped takes no more steps; how it stopped is enough *)
(* to know.                                                                 *)
WhileOn == IF machine = "on" THEN memory ELSE <<machine>>
=============================================================================
