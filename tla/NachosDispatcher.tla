-------------------------- MODULE NachosDispatcher --------------------------
(***************************************************************************)
(* What the thread system promises, without saying how: one processor that *)
(* is never left without work while a thread wants it, threads that move   *)
(* only along the edges of their life cycle, and a finished thread whose   *)
(* memory is freed only once another thread has the processor.             *)
(* Module NachosThreads is the detailed specification that implements it.  *)
(***************************************************************************)
EXTENDS FiniteSets

CONSTANT Thread

VARIABLE state      \* thread -> its place in the life cycle

States == {"unborn", "runnable", "running", "waiting", "finished", "freed"}

(* The edges of the life cycle.  A thread created by a fork that must first *)
(* copy pages stays unborn until it is scheduled; one that finishes while   *)
(* others are ready is freed in the step that dispatches the next.          *)
Edges == { <<"unborn", "runnable">>, <<"runnable", "running">>,
           <<"running", "runnable">>, <<"running", "waiting">>,
           <<"running", "finished">>, <<"waiting", "runnable">>,
           <<"waiting", "running">>, <<"finished", "freed">>,
           <<"running", "freed">> }

In(st, s) == {t \in Thread : st[t] = s}

(* No two threads run, and none waits for a processor that nobody uses.     *)
OneProcessor(st) == \A t, u \in In(st, "running") : t = u
WorkConserving(st) == In(st, "runnable") # {} => In(st, "running") # {}

DispatcherInit == \E main \in Thread :
                    state = [t \in Thread |-> IF t = main THEN "running" ELSE "unborn"]

DispatcherNext ==
  /\ state' \in [Thread -> States]
  /\ \A t \in Thread : state'[t] # state[t] => <<state[t], state'[t]>> \in Edges
  /\ OneProcessor(state') /\ WorkConserving(state')
  /\ \A t \in Thread : state'[t] = "freed" /\ state[t] # "freed" =>
                         In(state', "running") # {}

DispatcherSpec == DispatcherInit /\ [][DispatcherNext]_state
=============================================================================
