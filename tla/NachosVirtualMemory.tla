------------------------- MODULE NachosVirtualMemory -------------------------
(***************************************************************************)
(* What the address spaces of NachOS promise to user programs, without     *)
(* frames, page tables or demand paging: a process has pages, each private *)
(* to it or a page of a shared segment.  A private page changes only when  *)
(* its own process writes it or runs another program; a forked process     *)
(* starts with equal private pages and with the same shared ones.          *)
(***************************************************************************)
EXTENDS Integers, Sequences, FiniteSets, SequencesExt

CONSTANTS
  Process,     \* the processes
  Segment,     \* names of pages of shared memory
  Programs,    \* the executables: sequences of the initial values of their pages
  Value        \* the values of a page; 0 is a cleared page

VARIABLES
  pages,       \* process -> its pages, <<>> if it has none
  segments     \* shared page -> its value

Private(v) == [segment |-> {}, value |-> v]
Shared(s)  == [segment |-> {s}, value |-> 0]

(* Shared pages whose segment is not in use yet.                            *)
InUse == {s \in Segment : \E q \in Process : \E p \in DOMAIN pages[q] :
                            pages[q][p].segment = {s}}

VMInit == pages = [q \in Process |-> <<>>] /\ segments = [s \in Segment |-> 0]

Run(q, program) ==
  /\ pages' = [pages EXCEPT ![q] = [p \in DOMAIN program |-> Private(program[p])]]
  /\ UNCHANGED segments

Write(q, p, v) ==
  /\ p \in DOMAIN pages[q]
  /\ IF pages[q][p].segment = {}
     THEN pages' = [pages EXCEPT ![q][p] = Private(v)] /\ UNCHANGED segments
     ELSE /\ segments' = [s \in Segment |-> IF pages[q][p] = Shared(s) THEN v ELSE segments[s]]
          /\ UNCHANGED pages

Fork(q, r) ==
  /\ pages[r] = <<>>
  /\ pages' = [pages EXCEPT ![r] = pages[q]]
  /\ UNCHANGED segments

(* New shared pages are cleared, and no process has them.                   *)
Share(q, new) ==
  /\ pages' = [pages EXCEPT ![q] = @ \o [i \in DOMAIN new |-> Shared(new[i])]]
  /\ segments' = [s \in Segment |-> IF s \in ToSet(new) THEN 0 ELSE segments[s]]

VMNext ==
  \/ \E q \in Process, program \in Programs : Run(q, program)
  \/ \E q \in Process, v \in Value : \E p \in DOMAIN pages[q] : Write(q, p, v)
  \/ \E q, r \in Process : Fork(q, r)
  \/ \E q \in Process :
       /\ Len(pages'[q]) > Len(pages[q])   \* what follows implies it, and takes longer to evaluate
       /\ \E S \in SUBSET (Segment \ InUse) : \E new \in SetToSeqs(S) : Share(q, new)

VMSpec == VMInit /\ [][VMNext]_<<pages, segments>>
=============================================================================
