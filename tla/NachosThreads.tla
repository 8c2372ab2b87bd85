--------------------------- MODULE NachosThreads ---------------------------
(***************************************************************************)
(* The thread life cycle of the assignment 3 kernel: creation and fork,    *)
(* the ready list and the dispatcher, yielding and preemption, sleeping,   *)
(* waiting on a synchronization queue, join, exit and reaping              *)
(* (threads/thread.cc, threads/scheduler.cc, TimerInterruptHandler in      *)
(* threads/system.cc and the Exit, Join, Fork, Yield and Sleep cases of    *)
(* userprog/exception.cc).                                                 *)
(*                                                                         *)
(* NachOS simulates one processor.  Control leaves a thread only inside    *)
(* PutThreadToSleep, Exit, FinishThread and YieldCPU, and a timer interrupt*)
(* is taken only where interrupts are on, so a kernel operation up to its  *)
(* next SWITCH is one action here.  Simulated time is abstracted to "a     *)
(* timer interrupt may come now": module NachosCpu has the clock.  The     *)
(* UNIX and SJF policies pick the ready thread of least priority; here any *)
(* ready thread may be the one (module NachosCpu computes priorities).     *)
(***************************************************************************)
EXTENDS Integers, Sequences, FiniteSets, SequencesExt

CONSTANTS
  MaxThreads,         \* MAX_THREAD_COUNT of threads/system.h
  MaxChildren,        \* MAX_CHILD_COUNT of threads/thread.h
  MaxPages,           \* resident private pages a fork may have to copy
  ExitCodes,          \* the values passed to system_Exit
  Policy,             \* schedulingAlgo
  MissingExecutable   \* can a name in a batch file fail to open?

Policies == {"NON_PREEMPTIVE_BASE", "NON_PREEMPTIVE_SJF", "ROUND_ROBIN", "UNIX_SCHED"}

ASSUME ThreadsAssumption ==
  /\ MaxThreads \in Nat /\ MaxThreads >= 2
  /\ MaxChildren \in Nat \ {0}
  /\ MaxPages \in Nat
  /\ 0 \in ExitCodes
  /\ Policy \in Policies
  /\ MissingExecutable \in BOOLEAN

Pid == 0 .. MaxThreads - 1
NoThread == -1                 \* NULL, ppid -1 and waitchild_id -1 in the code
MainThread == 0

VARIABLES
  thread_index,         \* number of threads ever created
  ppid,                 \* pid -> pid of the creator
  childcount,           \* pid -> children registered so far
  status,               \* pid -> ThreadStatus ("NONE" before construction)
  where,                \* pid -> what the thread is doing when it next runs
  pagesLeft,            \* pid -> pages its unfinished fork still has to copy
  currentThread,        \* the thread holding the CPU
  readyList,            \* scheduler->readyList
  sleeping,             \* the threads on the sleep queue
  waitchild_id,         \* pid -> the child it waits for
  exitThreadArray,      \* the threads that called Exit
  exitedChild,          \* the children whose exit their parent recorded
  childexitcode,        \* child pid -> exit code its parent recorded
  exitcode,             \* pid -> code it passed to Exit (history)
  whichchild,           \* pid -> the child its last Join named
  result,               \* pid -> what its last Join returned
  returned,             \* the threads whose last Join has returned
  threadToBeDestroyed,  \* the finished thread whose carcass is not deleted yet
  destroyed,            \* the threads whose memory has been freed
  machine               \* "on", "halted" or "aborted" (a failed ASSERT)

dispatch == <<currentThread, readyList, status, threadToBeDestroyed, destroyed>>
family   == <<thread_index, ppid, childcount>>
exits    == <<waitchild_id, exitThreadArray, exitedChild, childexitcode, exitcode>>
joined   == <<whichchild, result, returned>>
vars == <<dispatch, family, exits, where, pagesLeft, sleeping, joined, machine>>

Preemptive  == Policy \in {"ROUND_ROBIN", "UNIX_SCHED"}
ByPriority  == Policy \in {"NON_PREEMPTIVE_SJF", "UNIX_SCHED"}

InSynch == {t \in Pid : status[t] = "BLOCKED" /\ where[t] = "synch"}
Created == 0 .. thread_index - 1

(* The thread t holds the CPU and the machine still runs. *)
Running(t) == machine = "on" /\ currentThread = t /\ status[t] = "RUNNING"
Idle == machine = "on" /\ status[currentThread] = "BLOCKED"

-----------------------------------------------------------------------------
(* An operator whose name starts with Faulty is its successor with one      *)
(* plausible bug; no behaviour uses it, the mutation runs substitute it.    *)

(* Scheduler::FindNextToRun: positions of the ready list it may remove.     *)
FindNextToRun(rl) == IF ByPriority THEN DOMAIN rl ELSE {i \in DOMAIN rl : i = 1}

(* Faulty: the new thread is not marked RUNNING.                            *)
FaultyRunStatus(n, rl, st, dead) ==
  /\ readyList' = rl /\ status' = st
  /\ currentThread' = n /\ threadToBeDestroyed' = NoThread
  /\ destroyed' = destroyed \cup ({dead} \ {NoThread})

(* Faulty: the carcass is not deleted after the switch.                     *)
FaultyRunReap(n, rl, st, dead) ==
  /\ readyList' = rl /\ status' = [st EXCEPT ![n] = "RUNNING"]
  /\ currentThread' = n /\ threadToBeDestroyed' = NoThread
  /\ UNCHANGED destroyed

(* Scheduler::Run: dispatch n, then free the finished thread, if any.       *)
Run(n, rl, st, dead) ==
  /\ readyList' = rl
  /\ status' = [st EXCEPT ![n] = "RUNNING"]
  /\ currentThread' = n
  /\ threadToBeDestroyed' = NoThread
  /\ destroyed' = destroyed \cup ({dead} \ {NoThread})

(* The end of PutThreadToSleep and Exit: run the next thread, or stay on    *)
(* the CPU, blocked, in the Idle loop until an interrupt readies a thread.  *)
SwitchOrIdle(rl, st, dead) ==
  \/ /\ rl = <<>>
     /\ readyList' = rl /\ status' = st /\ threadToBeDestroyed' = dead
     /\ UNCHANGED <<currentThread, destroyed>>
  \/ \E i \in FindNextToRun(rl) : Run(rl[i], RemoveAt(rl, i), st, dead)

(* NachOSThread::PutThreadToSleep. *)
PutThreadToSleep(rl, st) ==
  SwitchOrIdle(rl, [st EXCEPT ![currentThread] = "BLOCKED"], threadToBeDestroyed)

(* Faulty: the yielding thread goes to the head of the ready list.          *)
FaultyYieldFront(rl, st) ==
  LET ready == [st EXCEPT ![currentThread] = "READY"]
  IN  IF rl = <<>>
      THEN readyList' = rl /\ status' = st
           /\ UNCHANGED <<currentThread, threadToBeDestroyed, destroyed>>
      ELSE Run(rl[1], <<currentThread>> \o Tail(rl), ready, threadToBeDestroyed)

(* Faulty: the second test for UNIX_SCHED is missing.                       *)
FaultyYieldTwice(rl, st) ==
  LET q == Append(rl, currentThread)
  IN  \E i \in FindNextToRun(q) :
        Run(q[i], Append(RemoveAt(q, i), currentThread),
            [st EXCEPT ![currentThread] = "READY"], threadToBeDestroyed)

(* NachOSThread::YieldCPU: only the UNIX scheduler competes with itself.    *)
YieldCPU(rl, st) ==
  LET me    == currentThread
      ready == [st EXCEPT ![me] = "READY"]
  IN  \/ /\ Policy = "UNIX_SCHED"
         /\ SwitchOrIdle(Append(rl, me), ready, threadToBeDestroyed)
      \/ /\ Policy # "UNIX_SCHED" /\ rl # <<>>
         /\ \E i \in FindNextToRun(rl) :
              Run(rl[i], Append(RemoveAt(rl, i), me), ready, threadToBeDestroyed)
      \/ /\ Policy # "UNIX_SCHED" /\ rl = <<>>
         /\ readyList' = rl /\ status' = st
         /\ UNCHANGED <<currentThread, threadToBeDestroyed, destroyed>>

(* Scheduler::ReadyToRun on each thread of the sequence w.                  *)
Awaken(st, w) == [t \in Pid |-> IF t \in ToSet(w) THEN "READY" ELSE st[t]]

-----------------------------------------------------------------------------
Init ==
  /\ thread_index = 1
  /\ ppid = [t \in Pid |-> NoThread]
  /\ childcount = [t \in Pid |-> 0]
  /\ status = [t \in Pid |-> IF t = MainThread THEN "RUNNING" ELSE "NONE"]
  /\ where = [t \in Pid |-> IF t = MainThread THEN "boot" ELSE "user"]
  /\ pagesLeft = [t \in Pid |-> 0]
  /\ currentThread = MainThread
  /\ readyList = <<>>
  /\ sleeping = {}
  /\ waitchild_id = [t \in Pid |-> NoThread]
  /\ exitThreadArray = {}
  /\ exitedChild = {}
  /\ childexitcode = [t \in Pid |-> 0]
  /\ exitcode = [t \in Pid |-> 0]
  /\ whichchild = [t \in Pid |-> NoThread]
  /\ result = [t \in Pid |-> 0]
  /\ returned = {}
  /\ threadToBeDestroyed = NoThread
  /\ destroyed = {}
  /\ machine = "on"

-----------------------------------------------------------------------------
(* system_Yield, and system_Sleep(0). *)
Yield(t) ==
  /\ Running(t) /\ where[t] = "user"
  /\ YieldCPU(readyList, status)
  /\ UNCHANGED <<family, exits, where, pagesLeft, sleeping, joined, machine>>

(* SortedInsertInWaitQueue: system_Sleep(n > 0) and the 1000 ticks of a     *)
(* page fault.                                                              *)
Sleep(t) ==
  /\ Running(t) /\ where[t] = "user"
  /\ sleeping' = sleeping \cup {t}
  /\ PutThreadToSleep(readyList, status)
  /\ UNCHANGED <<family, exits, where, pagesLeft, joined, machine>>

(* A step of a semaphore or condition operation: the running thread readies *)
(* the waiters w of some queue and then either returns to the user or goes  *)
(* to sleep on a queue, where a later step of the same operation resumes it.*)
SynchStep(t, w, blocks) ==
  LET rl == readyList \o w
      st == Awaken(status, w)
  IN  /\ Running(t) /\ where[t] \in {"user", "synch"}
      /\ where' = [where EXCEPT ![t] = IF blocks THEN "synch" ELSE "user"]
      /\ \/ blocks /\ PutThreadToSleep(rl, st)
         \/ /\ ~blocks
            /\ readyList' = rl /\ status' = st
            /\ UNCHANGED <<currentThread, threadToBeDestroyed, destroyed>>
      /\ UNCHANGED <<family, exits, pagesLeft, sleeping, joined, machine>>

-----------------------------------------------------------------------------
(* The copy constructor of AddrSpace sleeps 1000 ticks before it copies each *)
(* page.                                                                    *)
CopyNextPage(t, st) ==
  /\ where' = [where EXCEPT ![t] = "fork"]
  /\ sleeping' = sleeping \cup {t}
  /\ PutThreadToSleep(readyList, st)

(* Faulty: the ASSERTs allow the last table entry.                          *)
FaultyTablesFull(t) == thread_index + 1 > MaxThreads \/ childcount[t] + 1 > MaxChildren

(* The constructor of NachOSThread: its ASSERTs on the two tables fail when  *)
(* the new thread would use the last entry.                                 *)
TablesFull(t) == thread_index + 1 >= MaxThreads \/ childcount[t] + 1 >= MaxChildren

NewThread(t) ==
  /\ ~TablesFull(t)
  /\ thread_index' = thread_index + 1
  /\ ppid' = [ppid EXCEPT ![thread_index] = t]
  /\ childcount' = [childcount EXCEPT ![t] = @ + 1]

(* NachOSThread::Schedule: the new thread c goes on the ready list.         *)
ScheduleChild(c) ==
  /\ readyList' = Append(readyList, c)
  /\ status' = [status EXCEPT ![c] = "READY"]
  /\ UNCHANGED <<currentThread, threadToBeDestroyed, destroyed, sleeping>>

(* system_Fork: construct the child, then copy the address space, which     *)
(* takes one sleep a page, and schedule the child.                          *)
Fork(t) ==
  LET c == thread_index
  IN  /\ Running(t) /\ where[t] = "user"
      /\ NewThread(t)
      /\ \/ ScheduleChild(c) /\ UNCHANGED <<where, pagesLeft>>
         \/ \E pages \in 1 .. MaxPages :
              /\ pagesLeft' = [pagesLeft EXCEPT ![t] = pages]
              /\ CopyNextPage(t, [status EXCEPT ![c] = "JUST_CREATED"])
      /\ UNCHANGED <<exits, joined, machine>>

(* Faulty: the page counter of the copy loop does not advance.              *)
FaultyForkResumes(t) ==
  /\ Running(t) /\ where[t] = "fork"
  /\ CopyNextPage(t, status)
  /\ UNCHANGED <<family, exits, pagesLeft, joined, machine>>

(* The forking thread returns from the sleep that delays a page copy.       *)
ForkResumes(t) ==
  /\ Running(t) /\ where[t] = "fork"
  /\ pagesLeft' = [pagesLeft EXCEPT ![t] = @ - 1]
  /\ \/ pagesLeft[t] > 1 /\ CopyNextPage(t, status)
     \/ /\ pagesLeft[t] = 1
        /\ where' = [where EXCEPT ![t] = "user"]
        /\ \E c \in Created : /\ ppid[c] = t /\ status[c] = "JUST_CREATED"
                              /\ ScheduleChild(c)
  /\ UNCHANGED <<family, exits, joined, machine>>

(* The ASSERTs on thread_index and childcount stop the simulator.           *)
ForkAborts(t) ==
  /\ Running(t) /\ where[t] \in {"boot", "user"}
  /\ TablesFull(t)
  /\ machine' = "aborted"
  /\ UNCHANGED <<dispatch, family, exits, where, pagesLeft, sleeping, joined>>

-----------------------------------------------------------------------------
(* nachos -x: the main thread becomes the user program.                     *)
StartProcess ==
  /\ Running(MainThread) /\ where[MainThread] = "boot" /\ thread_index = 1
  /\ where' = [where EXCEPT ![MainThread] = "user"]
  /\ UNCHANGED <<dispatch, family, exits, pagesLeft, sleeping, joined, machine>>

(* nachos -F: an iteration of the loop of ReadInputAndFork, which makes one *)
(* program of the batch file ready; demand paging leaves nothing to copy.   *)
BatchFork ==
  /\ Running(MainThread) /\ where[MainThread] = "boot"
  /\ NewThread(MainThread)
  /\ ScheduleChild(thread_index)
  /\ UNCHANGED <<exits, where, pagesLeft, joined, machine>>

(* StartProcess or ReadInputAndFork returns because an executable does not  *)
(* open, and main() calls FinishThread, which does not mark the thread in   *)
(* exitThreadArray.  With no other thread, Idle finds nothing to wait for.  *)
FinishThread ==
  /\ MissingExecutable
  /\ Running(MainThread) /\ where[MainThread] = "boot"
  /\ where' = [where EXCEPT ![MainThread] = "dead"]
  /\ SwitchOrIdle(readyList, [status EXCEPT ![MainThread] = "BLOCKED"], MainThread)
  /\ machine' = IF thread_index = 1 THEN "halted" ELSE machine
  /\ UNCHANGED <<family, exits, pagesLeft, sleeping, joined>>

-----------------------------------------------------------------------------
(* CheckIfChild: c is in childpidArray of t. *)
CheckIfChild(t, c) == c \in Created /\ ppid[c] = t

(* JoinWithChild returns what the parent recorded for the child c.          *)
Joins(t, c) ==
  /\ whichchild' = [whichchild EXCEPT ![t] = c]
  /\ result' = [result EXCEPT ![t] = childexitcode[c]]
  /\ returned' = returned \cup {t}

(* The parent t waits for c; whichchild stays on its stack.                 *)
Awaits(t, c) ==
  /\ waitchild_id' = [waitchild_id EXCEPT ![t] = c]
  /\ whichchild' = [whichchild EXCEPT ![t] = c]
  /\ where' = [where EXCEPT ![t] = "join"]
  /\ returned' = returned \ {t}
  /\ PutThreadToSleep(readyList, status)
  /\ UNCHANGED <<family, exitThreadArray, exitedChild, childexitcode, exitcode,
                 pagesLeft, sleeping, result, machine>>

(* system_Join on a child that has exited returns its code at once.         *)
JoinExited(t, c) ==
  /\ Running(t) /\ where[t] = "user"
  /\ CheckIfChild(t, c) /\ c \in exitedChild
  /\ Joins(t, c)
  /\ UNCHANGED <<dispatch, family, exits, where, pagesLeft, sleeping, machine>>

(* Faulty: JoinWithChild does not test whether the child has exited.        *)
FaultyJoinWaits(t, c) ==
  Running(t) /\ where[t] = "user" /\ CheckIfChild(t, c) /\ Awaits(t, c)

(* JoinWithChild puts the parent to sleep until that child exits.           *)
JoinWaits(t, c) ==
  /\ Running(t) /\ where[t] = "user"
  /\ CheckIfChild(t, c) /\ c \notin exitedChild
  /\ Awaits(t, c)

(* JoinWithChild after its sleep: it reads the code without a second test.  *)
JoinReturns(t) ==
  /\ Running(t) /\ where[t] = "join"
  /\ where' = [where EXCEPT ![t] = "user"]
  /\ Joins(t, whichchild[t])
  /\ UNCHANGED <<dispatch, family, exits, pagesLeft, sleeping, machine>>

(* Faulty: any child's exit wakes a parent that waits for some child; no    *)
(* exit wakes a parent.                                                     *)
FaultyWakesAny(t, told) == told /\ waitchild_id[ppid[t]] # NoThread
FaultyWakesNone(t, told) == FALSE

(* SetChildExitCode readies the parent if it waits for this child.          *)
WakesParent(t, told) == told /\ waitchild_id[ppid[t]] = t

(* Faulty: the exit code is not stored.                                     *)
FaultySetCode(t, code, told) ==
  /\ exitedChild' = exitedChild \cup (IF told THEN {t} ELSE {})
  /\ UNCHANGED childexitcode
  /\ waitchild_id' = IF WakesParent(t, told)
                     THEN [waitchild_id EXCEPT ![ppid[t]] = NoThread] ELSE waitchild_id

(* SetChildExitCode, called on the parent of the exiting thread t if the    *)
(* parent is told.                                                          *)
SetChildExitCode(t, code, told) ==
  /\ exitedChild' = exitedChild \cup (IF told THEN {t} ELSE {})
  /\ childexitcode' = IF told THEN [childexitcode EXCEPT ![t] = code] ELSE childexitcode
  /\ waitchild_id' = IF WakesParent(t, told)
                     THEN [waitchild_id EXCEPT ![ppid[t]] = NoThread] ELSE waitchild_id

(* Faulty: the search for a thread that has not exited runs over the whole  *)
(* table; the exiting thread is not marked.                                 *)
FaultyAllExited(exited) == \A t \in Pid : t \in exited
FaultyMarked(t) == exitThreadArray

(* exitThreadArray after the system call has marked t.                      *)
Marked(t) == exitThreadArray \cup {t}
AllExited(exited) == \A t \in Created : t \in exited

(* system_Exit, the end of ReadInputAndFork (code 0), and NachOSThread::Exit.*)
Exit(t, code) ==
  LET told  == ppid[t] # NoThread /\ ppid[t] \notin Marked(t)
      wakes == WakesParent(t, told)
      rl    == IF wakes THEN Append(readyList, ppid[t]) ELSE readyList
      me    == [status EXCEPT ![t] = "BLOCKED"]
      st    == IF wakes THEN [me EXCEPT ![ppid[t]] = "READY"] ELSE me
  IN  /\ Running(t)
      /\ where[t] = "user" \/ (where[t] = "boot" /\ code = 0)
      /\ exitThreadArray' = Marked(t)
      /\ exitcode' = [exitcode EXCEPT ![t] = code]
      /\ where' = [where EXCEPT ![t] = "dead"]
      /\ SetChildExitCode(t, code, told)
      /\ SwitchOrIdle(rl, st, t)
      /\ machine' = IF rl = <<>> /\ AllExited(Marked(t)) THEN "halted" ELSE machine
      /\ UNCHANGED <<family, pagesLeft, sleeping, joined>>

(* system_Halt. *)
Halt(t) ==
  /\ Running(t) /\ where[t] = "user"
  /\ machine' = "halted"
  /\ UNCHANGED <<dispatch, family, exits, where, pagesLeft, sleeping, joined>>

-----------------------------------------------------------------------------
(* The interrupt handlers that come due together: the timer readies expired *)
(* sleepers, a device handler readies waiters of a semaphore.               *)
Wakeups == SetToAllKPermutations(sleeping \cup InSynch)

(* OneTick takes an interrupt while a thread runs with interrupts on; under *)
(* a preemptive policy the timer may find the quantum used up.              *)
TimerInterrupt(w, yield) ==
  LET rl == readyList \o w
      st == Awaken(status, w)
  IN  /\ machine = "on" /\ status[currentThread] = "RUNNING"
      /\ yield => Preemptive
      /\ sleeping' = sleeping \ ToSet(w)
      /\ \/ yield /\ YieldCPU(rl, st)
         \/ /\ ~yield
            /\ readyList' = rl /\ status' = st
            /\ UNCHANGED <<currentThread, threadToBeDestroyed, destroyed>>
      /\ UNCHANGED <<family, exits, where, pagesLeft, joined, machine>>

(* Interrupt::Idle, and the dispatch that follows it when a thread is ready.*)
IdleInterrupt(w) ==
  /\ Idle
  /\ sleeping' = sleeping \ ToSet(w)
  /\ SwitchOrIdle(w, Awaken(status, w), threadToBeDestroyed)
  /\ UNCHANGED <<family, exits, where, pagesLeft, joined, machine>>

(* The simulator process has ended. *)
Stopped == machine # "on" /\ UNCHANGED vars

UserStep(t) ==
  \/ Yield(t) \/ Sleep(t) \/ Fork(t) \/ ForkAborts(t) \/ Halt(t)
  \/ \E c \in Pid : JoinExited(t, c) \/ JoinWaits(t, c)
  \/ \E code \in ExitCodes : Exit(t, code)
  \/ \E w \in SetToAllKPermutations(InSynch), blocks \in BOOLEAN :
       SynchStep(t, w, blocks)

KernelStep(t) == ForkResumes(t) \/ JoinReturns(t)

Next ==
  \/ \E t \in Pid : UserStep(t) \/ KernelStep(t)
  \/ StartProcess \/ BatchFork \/ FinishThread
  \/ \E w \in Wakeups, yield \in BOOLEAN : TimerInterrupt(w, yield)
  \/ \E w \in Wakeups : IdleInterrupt(w)
  \/ Stopped

Spec == Init /\ [][Next]_vars

(***************************************************************************)
(* Fairness.  The timer device reschedules itself for ever, simulated time *)
(* advances with every instruction and every idle poll, so the quantum of  *)
(* a thread that keeps the processor runs out, and the deadline of every   *)
(* sleeper comes.  A thread that was dispatched holds the processor for at *)
(* least a quantum, which is longer than the rest of a kernel operation:   *)
(* hence strong fairness of the kernel's own steps.  Nothing is assumed of *)
(* the user programs or of the users of a semaphore.                       *)
(***************************************************************************)
Wakes(t) ==
  \E w \in Wakeups :
     /\ t \in ToSet(w)
     /\ IdleInterrupt(w) \/ \E yield \in BOOLEAN : TimerInterrupt(w, yield)

Fairness ==
  /\ WF_vars(\E w \in Wakeups : TimerInterrupt(w, TRUE))
  /\ \A t \in Pid : /\ SF_vars(KernelStep(t))
                    /\ WF_vars(t \in sleeping /\ Wakes(t))

FairSpec == Spec /\ Fairness

-----------------------------------------------------------------------------
TypeOK ==
  /\ thread_index \in 1 .. MaxThreads - 1
  /\ ppid \in [Pid -> Pid \cup {NoThread}]
  /\ childcount \in [Pid -> 0 .. MaxChildren - 1]
  /\ status \in [Pid -> {"NONE", "JUST_CREATED", "RUNNING", "READY", "BLOCKED"}]
  /\ where \in [Pid -> {"boot", "user", "fork", "join", "synch", "dead"}]
  /\ pagesLeft \in [Pid -> 0 .. MaxPages]
  /\ currentThread \in Pid
  /\ readyList \in Seq(Pid)
  /\ sleeping \subseteq Pid
  /\ waitchild_id \in [Pid -> Pid \cup {NoThread}]
  /\ exitThreadArray \subseteq Pid
  /\ exitedChild \subseteq Pid
  /\ childexitcode \in [Pid -> ExitCodes]
  /\ exitcode \in [Pid -> ExitCodes]
  /\ whichchild \in [Pid -> Pid \cup {NoThread}]
  /\ result \in [Pid -> ExitCodes]
  /\ returned \subseteq Pid
  /\ threadToBeDestroyed \in Pid \cup {NoThread}
  /\ destroyed \subseteq Pid
  /\ machine \in {"on", "halted", "aborted"}

-----------------------------------------------------------------------------
(* What may go wrong is that a thread is on two queues, on one queue twice, *)
(* or on none: each READY thread is on the ready list once, nobody else is, *)
(* only the current thread runs, and the ready list is empty whenever the   *)
(* processor has nothing to run (ReadyToRun, FindNextToRun, Run,            *)
(* PutThreadToSleep, YieldCPU, Exit).                                       *)
ReadyOnce ==
  /\ \A t \in Pid : status[t] = "READY" <=> t \in ToSet(readyList)
  /\ \A i, j \in DOMAIN readyList : readyList[i] = readyList[j] => i = j
RunsAlone ==
  /\ \A t \in Pid : status[t] = "RUNNING" => t = currentThread
  /\ status[currentThread] \in {"RUNNING", "BLOCKED"}
  /\ status[currentThread] = "BLOCKED" => readyList = <<>>

(* A blocked thread waits for exactly one thing, so that one wake-up cannot *)
(* put it on the ready list twice: a deadline, a child, a synchronization   *)
(* queue, or nothing because it has finished.                               *)
WaitsForOneThing ==
  /\ \A t \in sleeping : status[t] = "BLOCKED" /\ where[t] \in {"user", "fork"}
  /\ \A t \in Pid : status[t] = "BLOCKED" /\ where[t] \in {"user", "fork"}
                       => t \in sleeping
  /\ \A t \in Pid : waitchild_id[t] # NoThread
                       <=> status[t] = "BLOCKED" /\ where[t] = "join"

Placement == ReadyOnce /\ RunsAlone /\ WaitsForOneThing

(* threadToBeDestroyed is one global slot: no finished thread is forgotten  *)
(* when the next one finishes, none is freed while it is on the processor   *)
(* (the ASSERT of the destructor), and none is freed that has not finished. *)
OneCarcass ==
  /\ {t \in Pid : where[t] = "dead"} = destroyed \cup ({threadToBeDestroyed} \ {NoThread})
  /\ threadToBeDestroyed \notin destroyed
  /\ threadToBeDestroyed # NoThread =>
       currentThread = threadToBeDestroyed /\ status[currentThread] = "BLOCKED"

(* No pointer the kernel will follow leads to a freed thread: not from the  *)
(* ready list, the sleep queue or currentThread, and not from threadArray:  *)
(* Exit calls SetChildExitCode on a parent unless exitThreadArray says that *)
(* it has exited (the comment at that call: "provided the parent hasn't     *)
(* exited").                                                                *)
NoDanglingThread ==
  /\ destroyed \cap (ToSet(readyList) \cup sleeping \cup {currentThread}) = {}
  /\ \A t \in Created : ppid[t] \in destroyed => ppid[t] \in exitThreadArray

(* A parent never waits for a child that has exited already: its wake-up    *)
(* would have come before it slept (JoinWithChild, SetChildExitCode).       *)
JoinNotLost ==
  \A t \in Pid : waitchild_id[t] # NoThread =>
     /\ waitchild_id[t] = whichchild[t]
     /\ ppid[waitchild_id[t]] = t
     /\ waitchild_id[t] \notin exitThreadArray \cup exitedChild

(* Join returns the code the child passed to Exit, also when the parent     *)
(* reads it long after it was woken (JoinWithChild reads it after the       *)
(* sleep, with no second test).                                             *)
JoinResult ==
  \A t \in returned : /\ whichchild[t] \in exitThreadArray
                       /\ result[t] = exitcode[whichchild[t]]

(* When every thread has exited the last one finds the ready list empty and *)
(* halts the machine: the simulator does not idle for ever.                 *)
LastExitHalts == Created \subseteq exitThreadArray => machine = "halted"

(* A thread that joins leaves its wait only in the step in which the child  *)
(* it waits for exits: no other child, sleeper or semaphore wakes it.       *)
JoinerWokenByItsChild ==
  [][\A t \in Pid : waitchild_id[t] # NoThread /\ status'[t] # "BLOCKED" =>
       waitchild_id[t] \in exitThreadArray' \ exitThreadArray]_vars

(* Under a preemptive policy with a first-in first-out ready list no ready  *)
(* thread waits for ever, whatever the user programs do.                    *)
ReadyRuns ==
  \A t \in Pid : status[t] = "READY" ~> status[t] = "RUNNING" \/ machine # "on"

(* A parent whose awaited child exits returns from its Join.                *)
JoinEnds ==
  \A t \in Pid : where[t] = "join" /\ whichchild[t] \in exitThreadArray
                     ~> where[t] # "join" \/ machine # "on"

(* A fork that copies pages ends: the parent is woken once for each page.   *)
ForkEnds ==
  \A t \in Pid : where[t] = "fork" ~> where[t] # "fork" \/ machine # "on"

-----------------------------------------------------------------------------
(* The refinement mapping onto the abstract dispatcher.                     *)
LifeCycle(t) ==
  CASE t \in destroyed -> "freed"
    [] t \notin destroyed /\ where[t] = "dead" -> "finished"
    [] status[t] = "RUNNING" -> "running"
    [] status[t] = "READY" -> "runnable"
    [] status[t] = "BLOCKED" /\ where[t] # "dead" -> "waiting"
    [] OTHER -> "unborn"

Abstract == INSTANCE NachosDispatcher
              WITH Thread <- Pid, state <- [t \in Pid |-> LifeCycle(t)]

(* The thread system implements the abstract dispatcher.                    *)
ImplementsDispatcher == Abstract!DispatcherSpec
=============================================================================
