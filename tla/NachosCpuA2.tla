------------------------------ MODULE NachosCpuA2 ------------------------------
(***************************************************************************)
(* Threads, policies and time in the second assignment's kernel            *)
(* (cs330assignment2): a batch (-F of threads/main.cc) is forked by the    *)
(* main thread, which exits; the processes fork, join, sleep, yield and    *)
(* exit.  What differs from the third assignment is here: setStatus of     *)
(* threads/thread.cc keeps the accounts on every change of a status, and   *)
(* FindNextToRun of threads/scheduler.cc rotates or sorts the ready list   *)
(* by the estimates that it makes itself.                                  *)
(*                                                                         *)
(* The processes execute instructions of one tick and trap into the        *)
(* kernel, which costs SystemTick when it enables the interrupts again.    *)
(* Left out: the console's output, random timer intervals (-rs), address   *)
(* spaces (as in assignment 1), and figures that are only printed.         *)
(***************************************************************************)
EXTENDS Integers, Sequences, FiniteSets, SequencesExt, FiniteSetsExt, NachosSums

CONSTANTS
  Pid,             \* the threads, 0 being main
  Policies,        \* the values of scheduler->policy in the batch files
  Nice,            \* the priorities in the batch files
  SleepTimes,      \* the arguments of Sleep
  UserTick, SystemTick, TimerTicks, ConsoleTime, quantum, initialPriority0,
  Scale,           \* a tick in the units of LastBurst and EstimatedBurst
  MaxConsoles,     \* bound: polls of this number of consoles are modelled
  MaxTicks         \* bound: the clock stops here

ASSUME CpuA2Assumption ==
  /\ Pid \subseteq Nat /\ 0 \in Pid /\ Nice \subseteq Nat /\ SleepTimes \subseteq Nat \ {0}
  /\ Policies \subseteq {"NACHOS_DEFAULT", "NON_PREEMPT_SJF", "ROUND_ROBIN", "UNIX_SCHED"}
  /\ {UserTick, SystemTick, TimerTicks, ConsoleTime, quantum, Scale} \subseteq Nat \ {0}
  /\ {initialPriority0, MaxTicks} \subseteq Nat /\ MaxConsoles \in Nat \ {0}

NoChild == -1

VARIABLES
  policy,
  totalTicks, idleTicks, totalBurst,   \* of stats
  pending,                 \* interrupt->pending: a list sorted by "when"
  yieldOnReturn,
  mode,                    \* what the machine does: "run" the current thread, leave
                           \* the "kernel", look for interrupts that are "due",
                           \* "idle", "idleDue", or it is "halted"
  currentThread, readyList, sleepQueue,
  status,                  \* thread -> ThreadStatus, or "NONE"
  exitThreadArray, ppid, waitchild_id,
  exitedChild,             \* the threads whose parents know that they have exited
  burstStartTime,          \* one for all threads
  waitStartTime, LastBurst, EstimatedBurst, initialPriority,
  threadWaitTime,          \* summed over the threads
  readyIntegral            \* history: length of the ready list, summed over time

threads   == <<currentThread, readyList, status>>
family    == <<exitThreadArray, ppid, waitchild_id, exitedChild>>
accounts  == <<totalBurst, burstStartTime, waitStartTime, LastBurst, threadWaitTime>>
clock     == <<totalTicks, idleTicks, readyIntegral>>
cpuA2 == <<policy, clock, pending, yieldOnReturn, mode, threads, sleepQueue, family, accounts,
           EstimatedBurst, initialPriority>>

Created   == {t \in Pid : status[t] # "NONE"}
Burst     == totalTicks - burstStartTime
NotLate   == totalTicks < MaxTicks
InUser    == mode = "run" /\ currentThread # 0
InMain    == mode = "run" /\ currentThread = 0

SortedInsert(e, list) ==
  InsertAt(list, 1 + Cardinality({i \in DOMAIN list : list[i].when <= e.when}), e)

(* The Console that ExceptionHandler makes on every entry starts to poll.   *)
NewConsole ==
  LET consoles == {i \in DOMAIN pending : pending[i].type = "console"}
  IN  pending' = IF Cardinality(consoles) < MaxConsoles
                 THEN SortedInsert([type |-> "console", when |-> totalTicks + ConsoleTime], pending)
                 ELSE pending

-----------------------------------------------------------------------------
(* An operator whose name starts with Faulty is its successor with one      *)
(* plausible bug; no behaviour uses it, the mutation runs substitute it.    *)

(* Scheduler::FindNextToRun for a ready list that is not empty: the thread  *)
(* and the list that is left.  NON_PREEMPT_SJF estimates the burst of all   *)
(* that are on the list and rotates it up to the shortest one.              *)
Estimated(t, list, lasts) ==
  IF policy = "NON_PREEMPT_SJF" /\ t \in ToSet(list)
  THEN (lasts[t] + EstimatedBurst[t]) \div 2 ELSE EstimatedBurst[t]

Rotated(list, i) == SubSeq(list, i + 1, Len(list)) \o SubSeq(list, 1, i - 1)

ShortestFirst(list, lasts) ==
  LET i == CHOOSE i \in DOMAIN list : \A j \in DOMAIN list :
             LET a == Estimated(list[i], list, lasts)
                 b == Estimated(list[j], list, lasts)
             IN  a < b \/ (a = b /\ i <= j)
  IN  <<list[i]>> \o Rotated(list, i)

(* UNIX_SCHED sorts the list by priority.                                   *)
Key(t, lasts) == initialPriority[t] + lasts[t] \div (2 * Scale)
ByKey(list, lasts) ==
  LET before(i, j) == \/ Key(list[i], lasts) < Key(list[j], lasts)
                      \/ Key(list[i], lasts) = Key(list[j], lasts) /\ i < j
      rank(i) == Cardinality({j \in DOMAIN list : before(j, i)})
  IN  [k \in DOMAIN list |-> list[CHOOSE i \in DOMAIN list : rank(i) = k - 1]]

Arranged(list, lasts) ==
  CASE policy = "NON_PREEMPT_SJF" -> ShortestFirst(list, lasts)
    [] policy = "UNIX_SCHED"      -> ByKey(list, lasts)
    [] OTHER                      -> list

-----------------------------------------------------------------------------
(* NachOSThread::setStatus, by the transition.                              *)

(* From RUNNING: the burst ends, and under UNIX_SCHED the usage of every    *)
(* thread that has not exited decays.                                       *)
EndBurst ==
  LET last(t)   == IF t = currentThread THEN Burst * Scale ELSE LastBurst[t]
      decays(t) == policy = "UNIX_SCHED" /\ t \in Created \ exitThreadArray'
  IN  /\ totalBurst' = totalBurst + Burst
      /\ LastBurst' = [t \in Pid |-> IF decays(t) THEN last(t) \div 2 ELSE last(t)]

(* To READY: the wait in the ready queue starts.                            *)
Waiting(ts) == [t \in Pid |-> IF t \in ToSet(ts) THEN totalTicks ELSE waitStartTime[t]]
Readied(ts) == [t \in Pid |-> IF t \in ToSet(ts) THEN "READY" ELSE status[t]]

(* FindNextToRun and Run: to RUNNING, the wait ends and a burst starts.     *)
Dispatch(list, st, waits, lasts) ==
  LET next == Arranged(list, lasts)
      t    == Head(next)
  IN  /\ currentThread' = t /\ readyList' = Tail(next)
      /\ status' = [st EXCEPT ![t] = "RUNNING"]
      /\ EstimatedBurst' = [u \in Pid |-> Estimated(u, list, lasts)]
      /\ burstStartTime' = totalTicks
      /\ waitStartTime' = waits /\ threadWaitTime' = threadWaitTime + totalTicks - waits[t]
      /\ mode' = "kernel"

(* PutThreadToSleep, Exit: the next thread, or the idle loop.               *)
DispatchOrIdle(list, st, waits) ==
  IF list # <<>> THEN Dispatch(list, st, waits, LastBurst')
  ELSE /\ mode' = "idle" /\ status' = st
       /\ UNCHANGED <<currentThread, readyList, EstimatedBurst, burstStartTime, waitStartTime,
                      threadWaitTime>>

PutThreadToSleep ==
  /\ exitThreadArray' = exitThreadArray /\ EndBurst
  /\ DispatchOrIdle(readyList, [status EXCEPT ![currentThread] = "BLOCKED"], waitStartTime)

(* YieldCPU under UNIX_SCHED, which competes with itself.                   *)
YieldToAll ==
  LET me == <<currentThread>> IN
  /\ policy = "UNIX_SCHED" /\ EndBurst
  /\ Dispatch(readyList \o me, Readied(me), Waiting(me), LastBurst')

(* YieldCPU to the next of the others, behind whom it goes to the list.     *)
YieldToOther ==
  LET me   == <<currentThread>>
      next == Arranged(readyList, LastBurst)
  IN  /\ policy # "UNIX_SCHED" /\ readyList # <<>> /\ EndBurst
      /\ currentThread' = Head(next) /\ readyList' = Tail(next) \o me
      /\ status' = [Readied(me) EXCEPT ![Head(next)] = "RUNNING"]
      /\ EstimatedBurst' = [u \in Pid |-> Estimated(u, readyList, LastBurst)]
      /\ burstStartTime' = totalTicks
      /\ waitStartTime' = Waiting(me)
      /\ threadWaitTime' = threadWaitTime + totalTicks - waitStartTime[Head(next)]
      /\ mode' = "kernel"

(* Faulty: the next burst still begins with the last one.                   *)
FaultyNextBurst == UNCHANGED burstStartTime
NextBurst == burstStartTime' = totalTicks

(* YieldCPU with nobody else: a burst ends and another one starts.          *)
YieldAlone ==
  /\ policy # "UNIX_SCHED" /\ readyList = <<>> /\ EndBurst /\ NextBurst
  /\ mode' = "kernel"
  /\ UNCHANGED <<threads, EstimatedBurst, waitStartTime, threadWaitTime>>

YieldCPU ==
  /\ UNCHANGED family
  /\ YieldToAll \/ YieldToOther \/ YieldAlone

-----------------------------------------------------------------------------
(* Initialize, up to the call of interrupt->Enable(), and the policy that   *)
(* main() reads from the batch file.                                        *)
CpuA2Init ==
  /\ policy \in Policies
  /\ totalTicks = 0 /\ idleTicks = 0 /\ totalBurst = 0 /\ readyIntegral = 0
  /\ pending = <<[type |-> "timer", when |-> TimerTicks]>> /\ yieldOnReturn = FALSE
  /\ mode = "kernel"
  /\ currentThread = 0 /\ readyList = <<>> /\ sleepQueue = <<>>
  /\ status = [t \in Pid |-> IF t = 0 THEN "RUNNING" ELSE "NONE"]
  /\ exitThreadArray = {} /\ exitedChild = {}
  /\ ppid = [t \in Pid |-> NoChild] /\ waitchild_id = [t \in Pid |-> NoChild]
  /\ burstStartTime = 0 /\ waitStartTime = [t \in Pid |-> 0] /\ threadWaitTime = 0
  /\ LastBurst = [t \in Pid |-> 0] /\ EstimatedBurst = [t \in Pid |-> 0]
  /\ initialPriority = [t \in Pid |-> initialPriority0]

(* Interrupt::OneTick, first half: time passes.                             *)
OneTick(ticks) ==
  /\ NotLate
  /\ totalTicks' = totalTicks + ticks
  /\ readyIntegral' = readyIntegral + ticks * Len(readyList)
  /\ mode' = "due"
  /\ UNCHANGED <<policy, idleTicks, pending, yieldOnReturn, threads, sleepQueue, family, accounts,
                 EstimatedBurst, initialPriority>>

UserInstruction  == InUser /\ OneTick(UserTick)
EnableInterrupts == mode = "kernel" /\ OneTick(SystemTick)

QuantumOver == policy \in {"ROUND_ROBIN", "UNIX_SCHED"} /\ Burst >= quantum

(* TimerInterruptHandler: wake the sleepers whose time has come.            *)
TimerInterruptHandler ==
  LET due   == Cardinality({i \in DOMAIN sleepQueue : sleepQueue[i].when <= totalTicks})
      woken == [i \in 1 .. due |-> sleepQueue[i].thread]
  IN  /\ sleepQueue' = SubSeq(sleepQueue, due + 1, Len(sleepQueue))
      /\ readyList' = readyList \o woken
      /\ status' = Readied(woken) /\ waitStartTime' = Waiting(woken)
      /\ yieldOnReturn' = (yieldOnReturn \/ QuantumOver)

(* CheckIfDue fires the first pending interrupt; the device schedules its   *)
(* next one before it calls the handler.                                    *)
FireInterrupt ==
  LET head  == Head(pending)
      every == IF head.type = "timer" THEN TimerTicks ELSE ConsoleTime
  IN  /\ head.when <= totalTicks
      /\ pending' = SortedInsert([head EXCEPT !.when = totalTicks + every], Tail(pending))
      /\ \/ head.type = "timer" /\ TimerInterruptHandler
         \/ head.type = "console" /\ UNCHANGED <<sleepQueue, readyList, status, waitStartTime,
                                                 yieldOnReturn>>
      /\ UNCHANGED <<policy, clock, mode, currentThread, family, totalBurst, burstStartTime,
                     LastBurst, threadWaitTime, EstimatedBurst, initialPriority>>

(* CheckIfDue puts the first one back, behind those of the same time.       *)
NoneDue == /\ Head(pending).when > totalTicks
           /\ pending' = SortedInsert(Head(pending), Tail(pending))

InterruptDue == mode = "due" /\ FireInterrupt

(* OneTick, second half: back to the thread, or preempt it.                 *)
InterruptsDone ==
  /\ mode = "due" /\ NoneDue /\ yieldOnReturn' = FALSE
  /\ \/ /\ ~yieldOnReturn /\ mode' = "run"
        /\ UNCHANGED <<threads, family, accounts, EstimatedBurst>>
     \/ yieldOnReturn /\ YieldCPU
  /\ UNCHANGED <<policy, clock, sleepQueue, initialPriority>>

(* How far the clock is behind the first pending interrupt.                 *)
Ahead == Max({0, Head(pending).when - totalTicks})

(* Interrupt::Idle: the clock goes to the first pending interrupt.  Only    *)
(* the timer's would be the end.                                            *)
OnlyTimer == Len(pending) = 1 /\ Head(pending).type = "timer"
Idle ==
  /\ mode = "idle" /\ NotLate
  /\ totalTicks' = totalTicks + Ahead /\ idleTicks' = idleTicks + Ahead
  /\ mode' = IF OnlyTimer THEN "halted" ELSE "idleDue"
  /\ UNCHANGED <<policy, readyIntegral, pending, yieldOnReturn, threads, sleepQueue, family,
                 accounts, EstimatedBurst, initialPriority>>

IdleInterrupt == mode = "idleDue" /\ FireInterrupt

(* Back in PutThreadToSleep or Exit: FindNextToRun again.                   *)
IdleDone ==
  /\ mode = "idleDue" /\ NoneDue /\ yieldOnReturn' = FALSE
  /\ UNCHANGED <<policy, clock, sleepQueue, family, totalBurst, LastBurst, initialPriority>>
  /\ DispatchOrIdle(readyList, status, waitStartTime)

-----------------------------------------------------------------------------
Yield ==
  /\ InUser /\ NewConsole /\ YieldCPU
  /\ UNCHANGED <<policy, clock, yieldOnReturn, sleepQueue, initialPriority>>

(* SortedInsertInWaitQueue *)
Sleep(ticks) ==
  /\ InUser /\ NewConsole /\ PutThreadToSleep
  /\ sleepQueue' = SortedInsert([thread |-> currentThread, when |-> totalTicks + ticks], sleepQueue)
  /\ UNCHANGED <<policy, clock, yieldOnReturn, ppid, waitchild_id, exitedChild, initialPriority>>

(* Faulty: it sleeps also when the child has exited.                        *)
FaultyMustWait(child) == TRUE
MustWait(child) == child \notin exitedChild

(* JoinWithChild; CheckIfChild has found the child.                         *)
Join(child) ==
  /\ InUser /\ NewConsole /\ ppid[child] = currentThread /\ child \in Created
  /\ \/ /\ MustWait(child) /\ PutThreadToSleep
        /\ waitchild_id' = [waitchild_id EXCEPT ![currentThread] = child]
        /\ UNCHANGED <<ppid, exitedChild>>
     \/ /\ ~MustWait(child)   \* no change of the interrupt level, and no tick
        /\ UNCHANGED <<mode, threads, family, accounts, EstimatedBurst>>
  /\ UNCHANGED <<policy, clock, yieldOnReturn, sleepQueue, initialPriority>>

(* The constructor of NachOSThread, and NachOSThread::Schedule.             *)
NewThread(t, base) ==
  /\ status[t] = "NONE" /\ \A u \in Pid : u < t => u \in Created
  /\ ppid' = [ppid EXCEPT ![t] = currentThread]
  /\ initialPriority' = [initialPriority EXCEPT ![t] = base]
  /\ readyList' = Append(readyList, t)
  /\ status' = Readied(<<t>>) /\ waitStartTime' = Waiting(<<t>>)
  /\ mode' = "kernel"
  /\ UNCHANGED <<policy, clock, yieldOnReturn, currentThread, sleepQueue, exitThreadArray,
                 waitchild_id, exitedChild, totalBurst, burstStartTime, LastBurst, threadWaitTime,
                 EstimatedBurst>>

(* CreateAndEnqueue, and Fork, whose child inherits the priority.           *)
CreateAndEnqueue(t, nice) == InMain /\ NewThread(t, initialPriority0 + nice) /\ UNCHANGED pending
Fork(t) == InUser /\ NewConsole /\ NewThread(t, initialPriority[currentThread])

ParentIsTold(p) == p # NoChild /\ p \notin exitThreadArray

(* Faulty: the thread created last is not looked at.                        *)
FaultyAllExited(exited) == Created \ {Max(Created)} \subseteq exited
AllExited(exited) == Created \subseteq exited

(* NachOSThread::Exit, SetChildExitCode: a parent that waits for it becomes *)
(* ready; the last thread halts the machine.                                *)
ExitThread ==
  LET me    == currentThread
      p     == ppid[me]
      wakes == ParentIsTold(p) /\ waitchild_id[p] = me
      woken == IF wakes THEN <<p>> ELSE <<>>
      st    == [Readied(woken) EXCEPT ![me] = "BLOCKED"]
  IN  /\ exitThreadArray' = exitThreadArray \cup {me} /\ EndBurst
      /\ exitedChild' = IF ParentIsTold(p) THEN exitedChild \cup {me} ELSE exitedChild
      /\ waitchild_id' = IF wakes THEN [waitchild_id EXCEPT ![p] = NoChild] ELSE waitchild_id
      /\ \/ /\ AllExited(exitThreadArray') /\ readyList \o woken = <<>>
            /\ mode' = "halted" /\ status' = st
            /\ UNCHANGED <<currentThread, readyList, EstimatedBurst, burstStartTime, waitStartTime,
                           threadWaitTime>>
         \/ /\ ~AllExited(exitThreadArray') \/ readyList \o woken # <<>>
            /\ DispatchOrIdle(readyList \o woken, st, Waiting(woken))
      /\ UNCHANGED <<policy, clock, yieldOnReturn, sleepQueue, ppid, initialPriority>>

Exit      == InUser /\ NewConsole /\ ExitThread
BatchExit == InMain /\ ExitThread /\ UNCHANGED pending

Ended == (mode = "halted" \/ ~NotLate) /\ UNCHANGED cpuA2

CpuA2Next ==
  \/ UserInstruction \/ EnableInterrupts \/ InterruptDue \/ InterruptsDone
  \/ Idle \/ IdleInterrupt \/ IdleDone
  \/ Yield \/ Exit \/ BatchExit
  \/ \E d \in SleepTimes : Sleep(d)
  \/ \E t \in Pid : Join(t) \/ Fork(t) \/ \E nice \in Nice : CreateAndEnqueue(t, nice)
  \/ Ended

CpuA2Spec == CpuA2Init /\ [][CpuA2Next]_cpuA2

-----------------------------------------------------------------------------
(* "Total CPU busy time" and the idle time add up to the time simulated,    *)
(* and the waits in the ready queue to the length of the ready list over    *)
(* time, although setStatus keeps the accounts one transition at a time     *)
(* and YieldCPU of a lone thread does without it.                           *)
Busy == mode \in {"run", "kernel", "due"}
TicksAccounted ==
  /\ totalBurst + idleTicks + (IF Busy THEN Burst ELSE 0) = totalTicks
  /\ threadWaitTime + Waited(readyList, totalTicks, waitStartTime)
       = readyIntegral

(* A thread that has not exited runs, is on the ready list once, sleeps, or *)
(* waits for a child that has not exited and whose parent it is, however    *)
(* the policy rotates and sorts the list.                                   *)
Places(t) == Cardinality({i \in DOMAIN readyList : readyList[i] = t})
Sleeps(t) == Cardinality({i \in DOMAIN sleepQueue : sleepQueue[i].thread = t})
NobodyLost ==
  \A t \in Created \ exitThreadArray :
    /\ Places(t) = IF status[t] = "READY" THEN 1 ELSE 0
    /\ status[t] = "RUNNING" => t = currentThread /\ Busy
    /\ status[t] = "BLOCKED" =>
         \/ Sleeps(t) = 1 /\ waitchild_id[t] = NoChild
         \/ Sleeps(t) = 0 /\ waitchild_id[t] \in Created \ exitThreadArray /\ ppid[waitchild_id[t]] = t

(* The machine halts when every thread has exited, and not before: it never *)
(* finds itself idle with only the timer's interrupt pending.               *)
HaltsAtTheEnd ==
  /\ mode = "halted" => Created \subseteq exitThreadArray
  /\ Created \subseteq exitThreadArray => mode = "halted"
=============================================================================
