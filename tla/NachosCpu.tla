------------------------------- MODULE NachosCpu -------------------------------
(***************************************************************************)
(* Simulated time: the clock and the pending interrupts                    *)
(* (machine/interrupt.cc, machine/timer.cc), the four scheduling policies, *)
(* and the accounts of processor, waiting and idle time that the kernel    *)
(* keeps in threads/thread.cc, threads/scheduler.cc and machine/stats.h.   *)
(*                                                                         *)
(* The main thread runs a batch (ReadInputAndFork): it forks and exits.    *)
(* The others execute instructions of one tick and trap into the kernel,   *)
(* which costs SystemTick when it enables the interrupts again.  The life  *)
(* cycle of threads and join are in module NachosThreads: here a thread    *)
(* blocks, and another one or the end of another one readies it.           *)
(*                                                                         *)
(* Left out: the console's output and its keyboard (a poll that finds no   *)
(* character only schedules the next), random timer intervals (-rs), the   *)
(* counts of bursts and switches, completion times, and stats that are     *)
(* only printed.                                                           *)
(***************************************************************************)
EXTENDS Integers, Sequences, FiniteSets, SequencesExt, FiniteSetsExt, NachosSums

CONSTANTS
  Pid,             \* the threads, 0 being main
  Algorithms,      \* the values of schedulingAlgo in the batch files
  Nice,            \* the priorities in the batch files
  SleepTimes,      \* the arguments of system_Sleep
  Uninitialised,   \* the values that memory from malloc may hold
  UserTick, SystemTick, TimerTicks, ConsoleTime, SCHED_QUANTUM,
  DEFAULT_BASE_PRIORITY,
  MaxConsoles,     \* bound: polls of this number of consoles are modelled
  MaxTicks         \* bound: the clock stops here

Policies == {"NON_PREEMPTIVE_BASE", "NON_PREEMPTIVE_SJF", "ROUND_ROBIN", "UNIX_SCHED"}

ASSUME CpuAssumption ==
  /\ Pid \subseteq Nat /\ 0 \in Pid /\ Algorithms \subseteq Policies
  /\ Nice \subseteq Nat /\ SleepTimes \subseteq Nat \ {0} /\ Uninitialised \subseteq Int
  /\ {UserTick, SystemTick, TimerTicks, ConsoleTime, SCHED_QUANTUM} \subseteq Nat \ {0}
  /\ {DEFAULT_BASE_PRIORITY, MaxTicks} \subseteq Nat /\ MaxConsoles \in Nat \ {0}

VARIABLES
  schedulingAlgo,
  totalTicks, idleTicks,   \* of stats
  pending,                 \* interrupt->pending: a list sorted by "when"
  yieldOnReturn,           \* of interrupt
  mode,                    \* what the machine does: "run" the current thread,
                           \* leave the "kernel", look for interrupts that are
                           \* "due", "idle", "idleDue", or it is "halted" or
                           \* stopped by an ASSERT ("timerAssert", "yieldAssert")
  currentThread,
  status,                  \* thread -> ThreadStatus, "NONE", "EXITED" or "FINISHED"
  readyList,               \* scheduler->readyList
  sleepQueue,              \* sleepQueueHead: a list sorted by "when"
  cpu_burst_start_time,    \* the global one
  burst_start_time,        \* thread -> its own copy
  wait_start_time,         \* thread -> when it became ready
  usage, basePriority, schedPriority,
  cpu_time, total_wait_time, empty_ready_queue_time,   \* of stats
  empty_ready_queue_start_time,                        \* -1 or when the CPU became idle
  readyIntegral            \* history: length of the ready list, summed over time

queues     == <<currentThread, status, readyList, sleepQueue>>
starts     == <<cpu_burst_start_time, burst_start_time, wait_start_time>>
priorities == <<usage, basePriority, schedPriority>>
emptiness  == <<empty_ready_queue_time, empty_ready_queue_start_time>>
clock      == <<totalTicks, idleTicks, readyIntegral, yieldOnReturn>>
cpu == <<schedulingAlgo, clock, pending, mode, queues, starts, priorities, emptiness,
         cpu_time, total_wait_time>>

Preemptive == schedulingAlgo \in {"ROUND_ROBIN", "UNIX_SCHED"}
ByPriority == schedulingAlgo \in {"NON_PREEMPTIVE_SJF", "UNIX_SCHED"}

Live(t)   == status[t] \notin {"NONE", "EXITED", "FINISHED"}
Asleep    == {sleepQueue[i].thread : i \in DOMAIN sleepQueue}
Blocked   == {t \in Pid : status[t] = "BLOCKED"} \ Asleep
Burst     == totalTicks - cpu_burst_start_time
NotLate   == totalTicks < MaxTicks
InUser    == mode = "run" /\ currentThread # 0
InMain    == mode = "run" /\ currentThread = 0

-----------------------------------------------------------------------------
(* An operator whose name starts with Faulty is its successor with one      *)
(* plausible bug; no behaviour uses it, the mutation runs substitute it.    *)

(* Faulty: the new element goes to the end.                                 *)
FaultySortedInsert(e, list) == Append(list, e)

(* List::SortedInsert, SortedInsertInWaitQueue: behind the equal ones.      *)
SortedInsert(e, list) ==
  InsertAt(list, 1 + Cardinality({i \in DOMAIN list : list[i].when <= e.when}), e)

(* Faulty: the thread that became ready last.                               *)
FaultyChosen(list, priority) == Len(list)

(* List::GetMinPriorityThread, or the head of the list.                     *)
Chosen(list, priority) ==
  IF ByPriority
  THEN CHOOSE i \in DOMAIN list : \A j \in DOMAIN list :
         /\ priority[list[i]] <= priority[list[j]]
         /\ priority[list[i]] = priority[list[j]] => i <= j
  ELSE 1

(* Faulty: no console, so that nothing polls.                               *)
FaultyNewConsole == pending' = pending

(* The Console that ExceptionHandler makes on every entry starts to poll.   *)
NewConsole ==
  LET consoles == {i \in DOMAIN pending : pending[i].type = "console"}
  IN  pending' = IF Cardinality(consoles) < MaxConsoles
                 THEN SortedInsert([type |-> "console", when |-> totalTicks + ConsoleTime], pending)
                 ELSE pending

(* UpdateThreadPriority: usage decays, and the current thread is charged    *)
(* its burst.                                                               *)
Charged(t) == (usage[t] + (IF t = currentThread THEN Burst ELSE 0)) \div 2

(* Faulty: the priorities of the others are not computed again.             *)
FaultyUpdateThreadPriority ==
  /\ usage' = [t \in Pid |-> IF Live(t) THEN Charged(t) ELSE usage[t]]
  /\ schedPriority' = [schedPriority EXCEPT ![currentThread] =
                         basePriority[currentThread] + Charged(currentThread) \div 2]

UpdateThreadPriority ==
  /\ usage' = [t \in Pid |-> IF Live(t) THEN Charged(t) ELSE usage[t]]
  /\ schedPriority' = [t \in Pid |-> IF Live(t) THEN basePriority[t] + Charged(t) \div 2
                                     ELSE schedPriority[t]]

(* What a RUNNING thread does first in ReadyToRun, PutThreadToSleep, Exit.  *)
EndBurst ==
  /\ cpu_time' = cpu_time + Burst
  /\ \/ Burst > 0 /\ schedulingAlgo = "UNIX_SCHED" /\ UpdateThreadPriority
     \/ /\ Burst > 0 /\ schedulingAlgo = "NON_PREEMPTIVE_SJF"
        /\ schedPriority' = [schedPriority EXCEPT ![currentThread] = (Burst + @) \div 2]
        /\ UNCHANGED usage
     \/ /\ Burst = 0 \/ ~ByPriority
        /\ UNCHANGED <<usage, schedPriority>>

(* The end of the time without ready threads, when the threads ts become    *)
(* ready (ReadyToRun).                                                      *)
NoLongerEmpty(ts) ==
  LET ends == readyList = <<>> /\ ts # <<>> /\ empty_ready_queue_start_time # -1
  IN  /\ empty_ready_queue_time' =
           empty_ready_queue_time + IF ends THEN totalTicks - empty_ready_queue_start_time ELSE 0
      /\ empty_ready_queue_start_time' = IF ends THEN -1 ELSE empty_ready_queue_start_time

(* Faulty: a thread that becomes ready keeps the start of its last wait.    *)
FaultyWaitsFrom(ts) == wait_start_time

Readied(ts) == [t \in Pid |-> IF t \in ToSet(ts) THEN "READY" ELSE status[t]]
WaitsFrom(ts) == [t \in Pid |-> IF t \in ToSet(ts) THEN totalTicks ELSE wait_start_time[t]]

(* Scheduler::Run of the i-th thread of a ready list.                       *)
Run(list, i, st, waits) ==
  /\ currentThread' = list[i] /\ readyList' = RemoveAt(list, i)
  /\ status' = [st EXCEPT ![list[i]] = "RUNNING"]
  /\ cpu_burst_start_time' = totalTicks
  /\ burst_start_time' = [burst_start_time EXCEPT ![list[i]] = totalTicks]
  /\ wait_start_time' = waits
  /\ total_wait_time' = total_wait_time + totalTicks - waits[list[i]]
  /\ mode' = "kernel"

(* The end of PutThreadToSleep and Exit: the next thread, or the idle loop. *)
SwitchOrIdle(list, st, waits) ==
  IF list # <<>>
  THEN Run(list, Chosen(list, schedPriority'), st, waits) /\ UNCHANGED emptiness
  ELSE /\ empty_ready_queue_start_time' = totalTicks
       /\ mode' = "idle" /\ status' = st
       /\ UNCHANGED <<empty_ready_queue_time, currentThread, readyList, starts, total_wait_time>>

PutThreadToSleep ==
  EndBurst /\ SwitchOrIdle(readyList, [status EXCEPT ![currentThread] = "BLOCKED"],
                           wait_start_time)

(* YieldCPU when it finds another thread; UNIX_SCHED competes with itself.  *)
YieldToReady ==
  LET me == currentThread
      queue == Append(readyList, me)
  IN  /\ EndBurst /\ NoLongerEmpty(<<me>>)
      /\ Run(queue, Chosen(IF schedulingAlgo = "UNIX_SCHED" THEN queue ELSE readyList,
                           schedPriority'), Readied(<<me>>), WaitsFrom(<<me>>))

(* Faulty: the next burst still begins with the last one.                   *)
FaultyLoneYield ==
  /\ cpu_time' = cpu_time + Burst
  /\ mode' = "kernel"
  /\ UNCHANGED <<currentThread, status, readyList, starts, usage, schedPriority,
                 emptiness, total_wait_time>>

(* YieldCPU when there is no other thread: a burst ends and one begins.     *)
LoneYield ==
  /\ cpu_time' = cpu_time + Burst
  /\ cpu_burst_start_time' = totalTicks
  /\ burst_start_time' = [burst_start_time EXCEPT ![currentThread] = totalTicks]
  /\ mode' = "kernel"
  /\ UNCHANGED <<currentThread, status, readyList, wait_start_time, usage, schedPriority,
                 emptiness, total_wait_time>>

(* ASSERT(schedulingAlgo != NON_PREEMPTIVE_SJF) *)
LoneYieldAborts ==
  /\ mode' = "yieldAssert"
  /\ UNCHANGED <<currentThread, status, readyList, starts, usage, schedPriority, emptiness,
                 cpu_time, total_wait_time>>

YieldCPU ==
  LET alone == readyList = <<>> /\ schedulingAlgo # "UNIX_SCHED"
      fails == alone /\ Burst > 0 /\ schedulingAlgo = "NON_PREEMPTIVE_SJF"
  IN  /\ \/ ~alone /\ YieldToReady
         \/ alone /\ ~fails /\ LoneYield
         \/ fails /\ LoneYieldAborts
      /\ UNCHANGED <<sleepQueue, basePriority>>

-----------------------------------------------------------------------------
(* Initialize, up to the call of interrupt->Enable().                       *)
CpuInit ==
  /\ schedulingAlgo \in Algorithms
  /\ totalTicks = 0 /\ idleTicks = 0 /\ readyIntegral = 0 /\ yieldOnReturn = FALSE
  /\ pending = <<[type |-> "timer", when |-> TimerTicks]>>
  /\ mode = "kernel"
  /\ currentThread = 0 /\ readyList = <<>> /\ sleepQueue = <<>>
  /\ status = [t \in Pid |-> IF t = 0 THEN "RUNNING" ELSE "NONE"]
  /\ cpu_burst_start_time = 0
  /\ \E u \in Uninitialised : burst_start_time = [t \in Pid |-> u]
  /\ wait_start_time = [t \in Pid |-> 0]
  /\ usage = [t \in Pid |-> 0]
  /\ basePriority = [t \in Pid |-> DEFAULT_BASE_PRIORITY]
  /\ schedPriority = basePriority
  /\ cpu_time = 0 /\ total_wait_time = 0
  /\ empty_ready_queue_time = 0 /\ empty_ready_queue_start_time = -1

(* Interrupt::OneTick, first half: time passes.                             *)
OneTick(ticks) ==
  /\ NotLate
  /\ totalTicks' = totalTicks + ticks
  /\ readyIntegral' = readyIntegral + ticks * Len(readyList)
  /\ mode' = "due"
  /\ UNCHANGED <<schedulingAlgo, idleTicks, yieldOnReturn, pending, queues, starts, priorities,
                 emptiness, cpu_time, total_wait_time>>

UserInstruction  == InUser /\ OneTick(UserTick)
EnableInterrupts == mode = "kernel" /\ OneTick(SystemTick)

(* Faulty: UNIX_SCHED is forgotten.                                         *)
FaultyQuantumOver == schedulingAlgo = "ROUND_ROBIN" /\ Burst >= SCHED_QUANTUM
QuantumOver == Preemptive /\ Burst >= SCHED_QUANTUM

(* TimerInterruptHandler: wake the sleepers whose time has come, and ask    *)
(* for a context switch at the end of the quantum.                          *)
TimerInterruptHandler ==
  LET due   == Cardinality({i \in DOMAIN sleepQueue : sleepQueue[i].when <= totalTicks})
      woken == [i \in 1 .. due |-> sleepQueue[i].thread]
      agree == cpu_burst_start_time = burst_start_time[currentThread]
  IN  /\ sleepQueue' = SubSeq(sleepQueue, due + 1, Len(sleepQueue))
      /\ readyList' = readyList \o woken
      /\ status' = Readied(woken) /\ wait_start_time' = WaitsFrom(woken)
      /\ NoLongerEmpty(woken)
      /\ yieldOnReturn' = (yieldOnReturn \/ (QuantumOver /\ agree))
      /\ mode' = IF QuantumOver /\ ~agree THEN "timerAssert" ELSE mode

(* CheckIfDue fires the first pending interrupt; the device schedules its   *)
(* next one before it calls the handler (TimerExpired, CheckCharAvail).     *)
FireInterrupt ==
  LET head  == Head(pending)
      every == IF head.type = "timer" THEN TimerTicks ELSE ConsoleTime
  IN  /\ head.when <= totalTicks
      /\ pending' = SortedInsert([head EXCEPT !.when = totalTicks + every], Tail(pending))
      /\ \/ head.type = "timer" /\ TimerInterruptHandler
         \/ /\ head.type = "console"
            /\ UNCHANGED <<sleepQueue, readyList, status, wait_start_time, emptiness,
                           yieldOnReturn, mode>>
      /\ UNCHANGED <<schedulingAlgo, totalTicks, idleTicks, readyIntegral, currentThread,
                     cpu_burst_start_time, burst_start_time, priorities, cpu_time,
                     total_wait_time>>

(* CheckIfDue puts the first one back, behind those of the same time.       *)
NoneDue == /\ Head(pending).when > totalTicks
           /\ pending' = SortedInsert(Head(pending), Tail(pending))

InterruptDue == mode = "due" /\ FireInterrupt

(* OneTick, second half: back to the thread, or preempt it.                 *)
InterruptsDone ==
  /\ mode = "due" /\ NoneDue
  /\ \/ /\ ~yieldOnReturn
        /\ mode' = "run"
        /\ UNCHANGED <<yieldOnReturn, queues, starts, priorities, emptiness, cpu_time,
                       total_wait_time>>
     \/ yieldOnReturn /\ yieldOnReturn' = FALSE /\ YieldCPU
  /\ UNCHANGED <<schedulingAlgo, totalTicks, idleTicks, readyIntegral>>

-----------------------------------------------------------------------------
Yield ==
  /\ InUser /\ NewConsole /\ YieldCPU
  /\ UNCHANGED <<schedulingAlgo, clock>>

(* system_Sleep, a page fault or a page copied by a fork.                   *)
Sleep(ticks) ==
  /\ InUser /\ NewConsole
  /\ sleepQueue' = SortedInsert([thread |-> currentThread, when |-> totalTicks + ticks], sleepQueue)
  /\ PutThreadToSleep
  /\ UNCHANGED <<schedulingAlgo, clock, basePriority>>

(* A thread waits for a semaphore, a condition or a child.                  *)
Block ==
  /\ InUser /\ NewConsole /\ PutThreadToSleep
  /\ UNCHANGED <<schedulingAlgo, clock, basePriority, sleepQueue>>

Ready(t) ==
  /\ readyList' = Append(readyList, t)
  /\ status' = Readied(<<t>>) /\ wait_start_time' = WaitsFrom(<<t>>)
  /\ NoLongerEmpty(<<t>>)
  /\ mode' = "kernel"
  /\ UNCHANGED <<schedulingAlgo, clock, currentThread, sleepQueue, cpu_burst_start_time,
                 burst_start_time, cpu_time, total_wait_time>>

(* Another thread readies it: V, Signal. *)
Wake(t) == InUser /\ t \in Blocked /\ NewConsole /\ Ready(t) /\ UNCHANGED priorities

(* The constructor of NachOSThread, and NachOSThread::Schedule.             *)
NewThread(t, base) ==
  /\ status[t] = "NONE" /\ \A u \in Pid : u < t => status[u] # "NONE"
  /\ basePriority' = [basePriority EXCEPT ![t] = base]
  /\ schedPriority' = [schedPriority EXCEPT ![t] =
                         IF schedulingAlgo = "NON_PREEMPTIVE_SJF" THEN SystemTick ELSE base]
  /\ UNCHANGED usage
  /\ Ready(t)

BasePriority(nice) == nice + DEFAULT_BASE_PRIORITY

BatchFork(t, nice) == InMain /\ NewThread(t, BasePriority(nice)) /\ UNCHANGED pending
Fork(t) == InUser /\ NewConsole /\ NewThread(t, basePriority[currentThread])

(* NachOSThread::Exit.  A parent that waits for it becomes ready; the last  *)
(* thread halts the machine.                                                *)
ExitReadying(parent) ==
  LET others == {t \in Pid : status[t] \notin {"NONE", "EXITED"}} \ {currentThread}
      list   == readyList \o parent
      st     == [Readied(parent) EXCEPT ![currentThread] = "EXITED"]
  IN  /\ EndBurst
      /\ \/ others # {} /\ SwitchOrIdle(list, st, WaitsFrom(parent))
         \/ /\ others = {} /\ mode' = "halted" /\ status' = st
            /\ empty_ready_queue_start_time' = totalTicks
            /\ UNCHANGED <<empty_ready_queue_time, currentThread, readyList, starts,
                           total_wait_time>>
      /\ UNCHANGED <<schedulingAlgo, clock, basePriority, sleepQueue>>

Exit == /\ InUser /\ NewConsole
        /\ \E parent \in {<<>>} \cup {<<t>> : t \in Blocked} : ExitReadying(parent)
BatchExit == InMain /\ ExitReadying(<<>>) /\ UNCHANGED pending

(* main() ends in FinishThread when an executable of the batch is missing.  *)
FinishThread ==
  /\ InMain /\ EndBurst
  /\ SwitchOrIdle(readyList, [status EXCEPT ![0] = "FINISHED"], wait_start_time)
  /\ UNCHANGED <<schedulingAlgo, clock, pending, basePriority, sleepQueue>>

-----------------------------------------------------------------------------
(* Interrupt::Idle: the clock goes to the first pending interrupt.          *)
Idle ==
  /\ mode = "idle" /\ NotLate
  /\ LET jump == Max({0, Head(pending).when - totalTicks})
     IN  totalTicks' = totalTicks + jump /\ idleTicks' = idleTicks + jump
  /\ mode' = "idleDue"
  /\ UNCHANGED <<schedulingAlgo, readyIntegral, yieldOnReturn, pending, queues, starts,
                 priorities, emptiness, cpu_time, total_wait_time>>

(* Only the timer is left: the machine halts.                               *)
OnlyTimer == Len(pending) = 1 /\ Head(pending).type = "timer"
IdleHalts == mode = "idleDue" /\ OnlyTimer /\ mode' = "halted"
             /\ UNCHANGED <<schedulingAlgo, clock, pending, queues, starts, priorities,
                            emptiness, cpu_time, total_wait_time>>

IdleInterrupt == mode = "idleDue" /\ ~OnlyTimer /\ FireInterrupt

(* Back in PutThreadToSleep or Exit: FindNextToRun again.                   *)
IdleDone ==
  /\ mode = "idleDue" /\ ~OnlyTimer /\ NoneDue
  /\ yieldOnReturn' = FALSE
  /\ \/ /\ readyList = <<>> /\ mode' = "idle"
        /\ UNCHANGED <<currentThread, status, readyList, starts, total_wait_time>>
     \/ /\ readyList # <<>>
        /\ Run(readyList, Chosen(readyList, schedPriority), status, wait_start_time)
  /\ UNCHANGED <<schedulingAlgo, totalTicks, idleTicks, readyIntegral, sleepQueue, priorities,
                 emptiness, cpu_time>>

Ended == (mode \in {"halted", "timerAssert", "yieldAssert"} \/ ~NotLate) /\ UNCHANGED cpu

CpuNext ==
  \/ UserInstruction \/ EnableInterrupts \/ InterruptDue \/ InterruptsDone
  \/ Yield \/ Block \/ Exit \/ BatchExit \/ FinishThread
  \/ \E d \in SleepTimes : Sleep(d)
  \/ \E t \in Pid : Wake(t) \/ Fork(t) \/ \E nice \in Nice : BatchFork(t, nice)
  \/ Idle \/ IdleHalts \/ IdleInterrupt \/ IdleDone
  \/ Ended

CpuSpec == CpuInit /\ [][CpuNext]_cpu

-----------------------------------------------------------------------------
Busy == mode \in {"run", "kernel", "due"}

(* The times that the kernel prints add up, whatever yields, sleeps,        *)
(* wake-ups, preemptions and exits came in between.  Every tick is charged  *)
(* once: "Total CPU busy time" and the idle time are the time simulated.    *)
(* "Wait time in ready queue" is the length of the ready list summed over   *)
(* time.  The two records of the start of a burst, of the processor and of  *)
(* the thread, agree when the timer's ASSERT compares them, except for main,*)
(* for which nobody records the start of its first burst.                   *)
TimeAccounted ==
  /\ mode = "timerAssert" => currentThread = 0
  /\ mode \notin {"timerAssert", "yieldAssert"} =>
       cpu_time + idleTicks + (IF Busy THEN Burst ELSE 0) = totalTicks
  /\ total_wait_time + Waited(readyList, totalTicks, wait_start_time)
       = readyIntegral

(* A sleeper is woken by the first timer interrupt after its time: the list *)
(* of sleepers is in order, and no interrupt is forgotten or late.          *)
SleepersWoken ==
  mode \in {"run", "idle"} =>
    \A i \in DOMAIN sleepQueue : totalTicks < sleepQueue[i].when + TimerTicks

(* A preemptive policy leaves nobody on the processor for more than its     *)
(* quantum and the timer interval that the quantum may overshoot by, and    *)
(* under ROUND_ROBIN a ready thread waits for at most that and the switch   *)
(* for each other thread there is.                                          *)
WaitBounded ==
  mode = "run" =>
    /\ Preemptive => Burst < SCHED_QUANTUM + TimerTicks
    /\ schedulingAlgo = "ROUND_ROBIN" =>
         \A t \in ToSet(readyList) :
           totalTicks - wait_start_time[t]
             <= Cardinality({u \in Pid \ {t} : status[u] # "NONE"})
                  * (SCHED_QUANTUM + TimerTicks + SystemTick - 2)

(* The priorities that UNIX_SCHED compares are those of the usage that each *)
(* thread has now, also of threads that slept, were forked or are new.      *)
PriorityFollowsUsage ==
  schedulingAlgo = "UNIX_SCHED" =>
    \A t \in Pid : Live(t) => schedPriority[t] = basePriority[t] + usage[t] \div 2

(* The machine never halts on a thread that sleeps: that no interrupt but   *)
(* the timer's is pending means that nobody has used the kernel.            *)
HaltsWhenDone == mode = "halted" => sleepQueue = <<>> /\ readyList = <<>>
=============================================================================
