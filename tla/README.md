# A formal model of the NachOS kernels of cs330

This directory specifies, model-checks and partly proves the kernel of
assignment 3 (`src/cs330assignment3/nachos/code`, "A3"), which extends NachOS
with fork, exec, join, sleep, four scheduling policies, demand paging, shared
memory, semaphores and condition variables, and the hardware that NachOS simulates
for it. Assignments 1 and 2 ("A1", "A2", in `src/cs330assignment1` and `2`) are
earlier kernels with other protocols for the same calls; they have modules of their
own. Paths without `src/` are relative to A3's directory.

## 1. The system

NachOS is a user program that simulates a machine: one MIPS processor, page
frames, a clock, a timer, a console and, if compiled in, a disk and a network.
Kernel threads are coroutines. Control
leaves a thread in four functions only (`PutThreadToSleep`, `YieldCPU`, `Exit`,
`FinishThread`), all with interrupts off. The clock advances when an instruction
is executed, when interrupts are enabled again, and when the processor idles;
only then do interrupt handlers run. This is what makes the actions of the
models atomic: an action is a kernel operation up to its next switch.

| Component | State | Operations | What makes it correct |
|---|---|---|---|
| Threads and dispatcher (`threads/thread.cc`, `scheduler.cc`, `system.cc`) | thread table, parents and children, statuses, ready list, sleep queue, exit and join records, the one carcass slot | fork, batch fork, yield, sleep, block, join, exit, finish, forced yield, dispatch, idle | each thread is on one queue, once; a join is neither lost nor answered by the wrong child; finished threads are freed once, and never used again; the last exit halts |
| Semaphores and conditions (`threads/synch.cc`) | two tables with keys, values, queues | get, P, V, set, remove, wait, signal, broadcast | no permit is invented, lost or left free while threads sleep; no removed object is used |
| Address spaces (`userprog/addrspace.cc`, `machine/translate.cc`, `progtest.cc`) | `physPageStatus`, `numPagesAllocated`, page tables, frames | launch, page fault, fork, exec, share, exit | a frame has one owner; a process sees only its own writes and those to its shared pages |
| Simulated time (`machine/interrupt.cc`, `timer.cc`) | clock, pending interrupts | tick, schedule, fire, idle, halt | nothing that is due is forgotten; no sleeper is left behind |
| Policies and accounts (`scheduler.cc`, `thread.cc`, `machine/stats.h`) | bursts, waits, usage, priorities | charge, decay, choose | every tick is charged once; priorities follow usage; quanta are kept |
| System calls (`userprog/exception.cc`) | registers | one case per call | the cases are the entry points of the other components |
| Console (`machine/console.cc`, print calls of `exception.cc`, `progtest.cc`) | `putBusy`, `incoming`, two semaphores | put, get, poll, write done, the four print calls, `ConsoleTest` | a character is never put while another is on its way; every text arrives whole; every print ends |
| Processor (`machine/mipssim.cc`, `machine.cc`, register sets in `thread.cc`) | registers with a pending load and three program counters | decode, every instruction, exception, save and restore | a program cannot tell the simulator from an R2000 that never faults or switches |
| Disk (`machine/disk.cc`) | head, track buffer, one request | read, write, interrupt | a request completes exactly when its sector has passed |
| Network (`machine/network.cc`) | inbox, socket | send, poll, receive, start, stop | packets arrive in order, once, or not at all |
| Lists (`threads/list.cc`) | cells | append, remove, sorted insert, remove by key, minimum | first and last follow every change; no deleted cell is reached |
| User programs (`test/`) | shared memory | monitors built from the calls | `test/queue.c` is a bounded FIFO queue |
| A1 kernel | parent pointers, lists of living and exited children, `waitPid`, `numThreads` | fork, exec, join, exit, sleep, yield, timer | nobody is lost; parents and children find each other; a join knows its child |
| A2 kernel | thread table, one `burstStartTime`, accounts in `setStatus`, ready list rotated or sorted by estimates | the same and batches, four policies | no tick is lost or counted twice; no thread falls off the rotated list; it halts at the end |
| `sysdep`, boot, `SWITCH`, SynchList, bitmap | | | not modelled: pure I/O, assembly, or unused here |

How they interact: a system call enters `ExceptionHandler` on the stack of the
current thread. It changes the tables and puts threads on the ready list
(`ReadyToRun`), or blocks itself. The timer handler wakes expired sleepers and
asks for a yield on return. A page fault, and each page a fork copies, puts the
thread to sleep for 1000 ticks in the middle of an operation: these are the
places where other threads run between two halves of a kernel operation, and
the state tested before is used after. Threads share the frames, the two
semaphore tables, the ready list, the thread table with raw pointers to parents,
and the global `threadToBeDestroyed`.

The hard behaviours are listed in `PROJECT.json` under `hazards`, with the line
where each bites. The main ones: stale state across a sleep (fork, SYNCH_SET,
ShmAllocate), a wake-up lost or given to the wrong waiter (join, P, Wait), use
after free (threads, semaphores, address spaces), tables and counters at their
limit, accounts of time reset on one path and not on another, and a machine that
neither halts nor goes on.

## 2. The modules

| Module | What it is |
|---|---|
| `NachosThreads` | threads and dispatcher, detailed |
| `NachosDispatcher` | what a dispatcher promises; implemented by `NachosThreads` |
| `NachosThreadsProofs` | the theorems about `NachosThreads` |
| `NachosSynch` | semaphores, conditions and their system calls, detailed |
| `NachosSemaphores` | what semaphores promise; implemented by `NachosSynch` |
| `NachosQueue` | `test/queue.c` composed with `NachosSynch` (its kernel calls are that module's actions) |
| `NachosMemory` | frames, demand paging, the address spaces, detailed |
| `NachosVirtualMemory` | private and shared memory without frames; implemented by `NachosMemory` |
| `NachosCpu` | clock, interrupts, timer, policies and accounts |
| `NachosMips` | the processor: decoding, instructions, delayed loads, exceptions, register sets |
| `NachosIsa` | what a user program expects of it; implemented by `NachosMips` |
| `NachosConsole` | the console, the print calls and `ConsoleTest` |
| `NachosDisk`, `NachosNetwork` | the two other devices |
| `NachosHardware` | composes processor, console, disk and network |
| `NachosThreadsA1` | threads, family lists, join and exit of A1 |
| `NachosCpuA2` | threads, policies, accounts and clock of A2 |
| `NachosSynchProofs`, `NachosMemoryProofs`, `NachosCpuProofs`, `NachosCpuA2Proofs`, `NachosThreadsA1Proofs`, `NachosDevicesProofs` | the theorems about the other modules; the first one also about `NachosQueue`, the last one about console, disk and network |
| `NachosLists` | lemmas on sequences without duplicates (append, insert, take, drop, remove), least elements, remainders, sorted insertion, sums, recursive functions on numbers, and sequences that are joined |
| `NachosSums` | how long the threads of a list have waited together |
| `MCThreads`, `MCSynch`, `MCQueue`, `MCMemory`, `MCCpu`, `MCHardware`, `MCThreadsA1`, `MCCpuA2` | the small instances |

The components are specified apart, each leaving open what another one decides,
so that each is checked against every behaviour of the others and not only
against the actual one. `NachosSynch` and `NachosMemory` leave open which ready
thread runs; `NachosThreads` leaves open when the timer interrupts and which
thread a priority selects; `NachosCpu` has both but not who waits for whom.

An operator whose name starts with `Faulty` is the next operator with one
plausible mistake. No behaviour uses it; each property is tested by putting one
of them in the place of the right definition and looking for the violation.

### NachosThreads

Variables carry the names of the code (`thread_index`, `readyList`,
`waitchild_id`, `exitThreadArray`, `exitedChild`, `threadToBeDestroyed`, ...).
`where` is the program counter of a thread inside the kernel: `user`, `boot`
(`main` in `ReadInputAndFork`), `fork` (asleep in a page copy), `join` (asleep
in `JoinWithChild`), `synch`, `dead`. History variables: `exitcode`,
`whichchild`, `result`, `returned`, `destroyed`.

| Action | Code |
|---|---|
| `Fork`, `ForkResumes`, `BatchFork`, `StartProcess`, `ForkAborts` | `syscall_Fork`, the copy constructor of `AddrSpace`, `ReadInputAndFork`; the ASSERTs of the tables |
| `Yield`, `Sleep`, `SynchStep` | the system calls, and what a semaphore or condition does to the dispatcher |
| `JoinExited`, `JoinWaits`, `JoinReturns` | the halves of `syscall_Join` |
| `Exit`, `FinishThread`, `Halt` | `NachOSThread::Exit` with `SetChildExitCode`; the end of `main` |
| `TimerInterrupt`, `IdleInterrupt` | the handlers that come due together while a thread runs, and while the processor idles |

A `Sleep` of 0 is a yield. `NON_PREEMPTIVE_SJF` and `UNIX_SCHED` choose any ready
thread, and under `UNIX_SCHED` a yielding thread joins the ready list before the
choice, as in the code.

### NachosSynch and NachosQueue

`where` says which operation a thread is inside of and `target` the semaphore it
holds a pointer to: that is how a woken thread that retries in the loop of `P`
is distinguished from one that sleeps. The kernel does not protect a semaphore
that is in use from `SYNCH_SET` and `SYNCH_REMOVE`: its destructor says "Assume no
one is still waiting on the semaphore!" (`threads/synch.cc:51`). So the actions allow
both at any time, and the history variable `careful` records whether every program
has kept the rules so far: a semaphore is set or removed while no thread is inside an
operation on it, and not used while a `SYNCH_SET` of it is unfinished.
`SynchTypeOK` holds in any case; `NoStrandedPermit` and `ImplementsSemaphores` are
promised until a rule is broken, and no longer (TLC refutes the unconditional
`NoStrandedPermit` in four steps). The rules ask for more than the comment: that
nobody waits on the queue is not enough, for a thread that `V` has woken, one in
`Wait` with a pointer to the mutex and one whose `SYNCH_SET` sleeps for a page use
the semaphore again (`machine = "undefined"`, which the run reaches in each of these
ways). That is no promise of the kernel, so no property of `NachosSynch` speaks of it:
`NoUseAfterRemove` is a property of a program, `test/queue.c`, and rests on its joins.
`test/conditiontest.c:28` is a program that breaks the rules.

`NachosQueue` EXTENDS `NachosSynch`; its program steps conjoin a kernel action
with the program counter `pc` of the thread.

### NachosMemory

`copying` records a fork asleep between taking a frame and filling it;
`numPagesAllocated` is increased only after that sleep, `physPageStatus` before
it. `load` is the use of the machine that a behaviour is about: its executables, and
bounds on processes and on shared pages. Contents are single values. `machine` records how the run ended:
`aborted` (an ASSERT), `outside` (memory in front of `mainMemory` was cleared),
`deleted` (a program runs on with a freed page table). Invariants about the
machine's state are claimed while it is `on`.

### NachosCpu

`mode` follows `OneTick`, `CheckIfDue`, `Idle` and the kernel's exit; a
`UserInstruction` costs `UserTick`, leaving the kernel costs `SystemTick`.
Each pending interrupt has a type and a time, the list is the sorted one of the
code, and `CheckIfDue` puts the head back behind its equals. `readyIntegral` is a
history variable: the length of the ready list summed over time, against which
the waiting time printed by the kernel is compared. The statistics that are only
printed (counts, extremes, the error of the SJF estimate) are left out. Fields that
the code never sets have any value of `Uninitialised`. `empty_ready_queue_time` is
modelled, but no property is stated of it, because the one that its comment promises does
not hold: "Time for which the ready queue is empty" (`stats.h:37`, and `stats.cc:61` prints
it so) is counted only from the moment a thread blocks with nobody ready to the next
`ReadyToRun` (`thread.cc:272` and `396`, `scheduler.cc:82`), so that the time in which one
thread runs alone, with the queue as empty, is not in it. Two ASSERTs end a behaviour:
`timerAssert`, of the timer handler on the first burst of `main`, whose start nobody
recorded, and `yieldAssert`, of a thread that yields under `NON_PREEMPTIVE_SJF` with
nobody else ready.

### NachosMips and NachosIsa

`registers` is the machine's register file and `userRegisters` the saved ones of each
thread, numbered as in `machine.h`. `Alu`, `HiLo`, `Branch`, `Jump`, `Load`, `Store` and
`Syscall` are the cases of `OneInstruction`, each with what follows the case: the delayed
load and the three program counters. A fault or a system call goes through `RaiseException`, which completes the
pending load. Pages become valid by page faults, threads are switched between
instructions. `NachosIsa` has none of this: a load is complete at once, and its
arithmetic is defined on integers and sets of bits, not by shifts and masks. The
refinement mapping applies the pending load to the register file and takes the
registers of the threads that do not run from where they are saved. Programs must keep
the R2000's rule that the instruction after a load does not read its target, since the
two specifications differ there, as they should.

Words have `4 * ByteBits` bits. With two-bit bytes the words have eight, and the run
tries the operands at the ends of a word for each instruction. `OR`, which computes
`rs | rs` (`machine/mipssim.cc:377`), and `SRL`, `SRLV` of negative words, which shift
arithmetically (446-456), are left out of these programs: with them TLC refutes
`ImplementsIsa` at once. Not covered by the abstract machine either: the quotient of the
least integer by -1, which traps on the host (the model stops there), and `LWL`, `LWR`,
`SWL`, `SWR` of unaligned words, whose cases the code leaves to a failing ASSERT.

### NachosConsole

Each entry to `ExceptionHandler` makes a `Console`; the semaphore `writeDone` is static
and common to all. `pc` says whether a thread is before `P`, asleep in it, before
`PutChar` or in a page fault on its string, `text` what is still to be put. `PrintString`
reads its string byte by byte, before each `P`, and the first read on each page may
raise a page fault: `unread` holds, for the pages that are not in memory, how many
characters are still to come when the string gets there (0 is the null character).
Which pages these are, and where on a page of `PageChars` the string begins, is open;
a page that has come stays. The exception of a page fault makes a Console too, and the
thread sleeps with the rest of its string still to be put. The write
interrupt belongs to one console, the one that `V` follows may be another thread's.
`ConsoleTest` runs in mode `echo`. What the print calls compute (`PrintInt`,
`ConvertIntToHex`) is modelled digit by digit with the width of an `int`, as
`ScreenShowsText` compares it with the numeral; `MaxInt` is the largest `int`. `PrintInt` of
10^9 and above overflows its power of ten and prints no numeral (`Printable` leaves these
out); the character 0xFF typed is taken for the end of file and never reported (`Typed` leaves
it out).

### NachosDisk and NachosNetwork

The disk's latency is computed as the code does it. `SectorUnderHead` states it
independently: the least sector time after the head has settled in which the sector
passes whole. `request` and `settled` are history for that. The network delivers a packet
at a time into the inbox; `carried` is the history of what was put in the socket.
`sendBusy` is tested and reset but never set in the code, so several send interrupts may
be pending. Sending to a machine that is down stops the sender (`sysdep.cc` ASSERTs).
Neither device has its users in this repository: requests come whenever the ASSERTs allow.

### NachosThreadsA1

Cells of a child list are named by the child they hold: `first`, `last` and `next` are the
pointers of `List`. `waitPid` is compared by the child that exits. `returned` shows what
a `Join` returns in the step that returns it. Three things of this kernel do not hold,
and the module says where it stops:

* `RemoveElement` unlinks only the first or the last cell (`threads/list.cc:261`). When
  a middle child exits, the machine is `torn` and the behaviour ends.
* `Join` sets `waitPid` before it knows that the child exists
  (`userprog/exception.cc:329`). With `FutureJoins = TRUE` TLC refutes `A1Placement` in five
  states: a later child with that pid readies a parent that does not sleep. The run
  takes `FALSE`.
* The exit status is read through a pointer into the stack of the child
  (`userprog/exception.cc:336`). `JoinReturnsStatus` is not checked by a run: TLC refutes it
  in six states.

`main` never gets a `ppid`, and pages are never given back: `NoRoom` ends the machine.

### NachosCpuA2

The same clock as `NachosCpu`, but accounts are kept by the transitions of `setStatus`
with one `burstStartTime` for all threads, and `NON_PREEMPT_SJF` estimates every waiting
thread's burst anew at each look for the next thread. `LastBurst` and `EstimatedBurst` are
scaled by `Scale`, as the code halves `float`s. A batch with its policy is what `main` reads;
with `-x` policy and quantum are not initialised, which is left out.

## 3. What the runs check

| Run | Instance | Shows |
|---|---|---|
| `threads` | 5 table entries, 4 children each, 2 pages, UNIX_SCHED | all safety properties of the thread system where any ready thread may be next, even the one that yields; it implements `NachosDispatcher` |
| `threads_live` | 4 table entries, ROUND_ROBIN, fair, executables may be missing | every ready thread runs; joins and forks end |
| `threads_dangling` | 4 table entries, executables may be missing | violated: the exit of a child follows `threadArray` to the freed `main` |
| `synch` | 3 threads, 2 semaphores, 2 conditions | queues and places agree, one semaphore per key, whatever programs do; until one breaks the rules, no permit is stranded and `NachosSemaphores` is implemented |
| `queue` | 2 enqueuers, 2 dequeuers, 1 slot | mutual exclusion, FIFO, no deadlock (deadlock is checked), no primitive is removed while a child uses it, the program ends |
| `memory` | 4 processes with programs of two pages, or 3 with one page that share; 4 frames; files may be missing | frames have one owner, none is lost, the count runs behind by the sleeping forks; implements `NachosVirtualMemory` |
| `memory_shared` | 3 processes | violated: `ShmAllocate` passes its check with no frame left |
| `memory_exec` | 3 processes | violated: `Exec` of a missing file returns to a deleted address space |
| `cpu` | 3 threads, all four policies, 18 ticks, uninitialised fields 0 or 7 | accounts of time, sleepers, bursts, waits, priorities, halting |
| `hardware` | see below | the processor implements `NachosIsa`; characters, texts, prints; sectors; packets |
| `a1` | 4 threads, 3 children, 4 pages | nobody is lost, families know each other, a join knows its child |
| `a2` | 4 threads, all four policies, 18 ticks | accounts of `setStatus`, nobody lost by rotation or sorting, halting |

The three violated runs are disagreements between the code and its own comments that
modelling brought up; `findings` quotes the lines.

### Bounds, and why they are enough

* Threads: a join needs a parent, the child it waits for, another child that
  exits first, and a grandchild or a sleeper beside them: four threads. The
  tables have five entries because the code leaves the last unused; the run
  reaches the ASSERT. Two pages make a fork sleep, resume and sleep again.
  `UNIX_SCHED` chooses any ready thread, which includes what `ROUND_ROBIN` would
  choose; the proofs cover every policy. `threads_live` has three threads: one that
  waits, one it waits for, one in the way.
* Synchronization: three threads are a sleeper, a waker and a barger. Two
  semaphores and two conditions are what a monitor over another monitor's mutex
  can confuse. `MaxValue` 2 lets a permit be free while one is taken.
  Deadlock is not checked in `synch` only: there the programs may all block.
* Queue: one slot and two of each kind make both wait loops run more than once,
  and both kinds compete for the mutex with a woken thread.
* Memory: four frames and four processes with programs of two pages let two parents
  sleep in forks at once, and the frames run out in the middle of a copy. Three
  processes with programs of one page leave room for `ShmAllocate`; both uses are
  initial states of one run (`Loads`, and `load` never changes). `VIEW WhileOn`
  identifies the states in which the machine has stopped in the same way: no
  step follows, and the invariants speak of the machine while it is on.
* Time (`cpu`, `a2`): the ticks are scaled (user 1, system 2, timer 3, console 4, quantum
  3, in the code 1, 10, 100, 100, 100) so that sleeps, quanta and timer interrupts
  fall before, on and after each other. `MaxTicks` 18 exceeds the bound 12 that
  `WaitBounded` claims for three threads, and a thread sleeps, wakes and is
  preempted several times within it. At most one polling console: more only add
  polls. A console time that differs from the timer's makes their interrupts
  come apart and together. Quantum and timer interval are equal as in the code.
  `a2` has a fourth thread: with two on the ready list behind the one that yields,
  the rotation differs from the order of arrival.
* Hardware: words of eight bits; every instruction of the tables on the operands at
  the ends of a word, all programs of three out of fourteen instructions that interact
  (loads, partial loads, HI and LO, stores, branches, links), and pairs of programs
  whose threads are switched anywhere. Code and data pages fault. Two threads print
  a negative number, a string, a hexadecimal number and a character, with an `int` of 16
  bits (the theorem has any width); on pages of two characters the string of two and
  its null character lie on two pages, divided after the first or the second character,
  so that a fault may come before every one of the three reads. Nine sectors on
  three tracks, a seek of one and a half sector times, so that rotations do not align
  with seeks; eighteen ticks are three rotations. Two machines with two packets each
  and three starts: one restarts while packets are on their way.
* A1: a parent with three children has a first, a middle and a last cell; a fourth
  thread is then child and grandchild. `MaxChildren` bounds the living children
  (the code has no bound), four pages run out.

Deadlock is checked but where programs may all block or the machine may stop:
`synch`, `hardware` and `a1`. Symmetry is used in `synch` and `memory*`, where thread names are interchangeable and
only safety is checked. It is not used where threads are numbered or liveness is
checked.

### Fairness

`threads_live`: the timer reschedules itself for ever (`machine/timer.cc`) and
time passes with every instruction and every idle poll, so the forced yield and
the wake-up of a sleeper are weakly fair. A dispatched thread completes the rest
of its kernel operation before its quantum ends, hence strong fairness of the
kernel's own steps (the thread may be preempted before, but not always). User
programs are not assumed to do anything: a parent may wait for ever for a child
that loops.

`queue`: weak fairness of each thread's steps, as ROUND_ROBIN dispatches every ready
thread (`ReadyRuns` of `threads_live`). Weak is enough: a thread woken in `P` always
has a step, which takes the permit or goes back to sleep.

`hardware`: for `PrintsEnd`, the steps of each printing thread and each pending
interrupt are weakly fair: a ready thread is dispatched (`ReadyRuns`), and interrupts that
are due fire (`SleepersWoken` of `cpu`). What is typed is there from the start.

## 4. What is proved

TLC shows the properties on the instances of section 3. The theorems below say them
for every value of the constants that the `ASSUME` of the module allows: any number of
threads, frames, sectors, packets; any table size; any length of ticks and quanta.
Each proof has the same shape. No property is inductive by itself, so an invariant
`IInv` adds to it what it relies on; one lemma per action shows that the action keeps
`IInv`; the theorem combines them. TLC checked each `IInv` (and `WInv`) on the instance of its
module's run before it was proved.

### `NachosThreadsProofs`

From `ThreadsAssumption` only (table sizes, pages and exit codes arbitrary, any policy,
missing executables or not):

* `InvariantHolds`: `Spec => []IInv`.
* `TypeCorrect`, `PlacementHolds`, `OneCarcassHolds`, `JoinNeverLost`, `JoinIsRight`,
  `MachineHalts`: the invariants of `threads`.
* `NothingDangles`: `NoDanglingThread` if every executable opens. Without that
  assumption it is false: run `threads_dangling`.
* `OnlyTheChildWakes`: the action property `JoinerWokenByItsChild`.
* `Refinement`: `Spec => ImplementsDispatcher`.

The argument. That a wake-up puts a
thread on the ready list once (`Placement`) needs that a blocked thread waits for
one thing; that the exit of a child wakes a parent that is blocked in join needs
`JoinNotLost`; that the child has not exited before needs the relation of
`exitedChild`, `exitThreadArray` and `childexitcode`. So `IInv` conjoins

* `TypeOK`, `Placement`, `OneCarcass`;
* `Alive`: the threads on the processor, on the ready list, asleep or joining are
  created and not finished;
* `Joining`: whom a joining thread waits for, and what its records say;
* `JoinNotLost`, `JoinResult`;
* `OnlyExitFinishes`: without missing executables a thread finishes only by
  marking itself in `exitThreadArray`;
* `LastExitHalts`.

Lemmas about `Run`, `SwitchOrIdle`, `YieldCPU` and `Awaken` say once what a dispatch
does to `Placement` and `OneCarcass`; they rest on `NachosLists`. There is one lemma per action
(`ForkSchedules`, `ForkSleeps`, `ForkCopies`, `ForkEnded` for the cases of a fork,
`ExitAlone` and `ExitWakes` for those of an exit), each with a step per conjunct.
`NextKeeps` combines them and also gives `Moves`, the edges that one step may take
in the life cycle, from which the refinement follows: `LifeCycleOf` and
`DispatcherKeeps` translate `IInv` into facts on the abstract state, `StepRefines`
maps a step to a dispatcher step or a stutter.

### `NachosSynchProofs`

From `SynchAssumption`, where `Thread` is finite (a permit is counted against
the threads woken for it):

* `SynchInvariant` and `TablesAreSound` (`SynchTypeOK`) whatever programs do.
* `PermitsNotStranded` (`NoStrandedPermit`), which speaks of the time until a
  program breaks the rules (section 2).
* `SemaphoresImplemented`: `SynchSpec => ImplementsSemaphores`, if programs set no
  negative value, since a negative number of permits means nothing there. The abstract
  semaphores, too, promise nothing once a rule is broken.

`IInv` says that a thread is on a queue exactly while it sleeps in that operation and
points to that semaphore (`SemQueued`, `CondQueued`, `Pointing`), that slots not in use
are as the boot left them (`Fresh`, `Permits`), and in `WithCare` that, while
the rules are kept, those inside an operation hold a pointer to a semaphore that exists. Without `Pointing` a woken thread might
take the permit of another semaphore, and `NoStrandedPermit` would not survive `P`.

`QueueUsesKernel` shows that every behaviour of `NachosQueue` is one of
`NachosSynch`, so that `IInv` holds of it without a second proof. That the program keeps
the rules is not assumed: `ProgramKeepsRules` shows it, since `main` sets before its
forks and removes after its joins, and a child that is not asleep in a call holds no
pointer; with `WithCare`, `RemovedInTime` (`NoUseAfterRemove`) follows. `MutexExcludes` rests on a token: the mutex is
free or one thread is on its way from `P` to `V`, through `Wait` too.
`RingIsAQueue` proves `FirstInFirstOut` for every size: the indices `head` and `tail` are
remainders of the numbers of elements that went in and out, and fewer than `SIZE`
consecutive numbers have distinct remainders (`SlotsApart`).

### `NachosMemoryProofs`

From `MemoryAssumption` only: `MemoryInvariant`, `TypesAreKept` (`MemoryTypeOK`),
`FramesNotAliased` (`NoAliasing`), `FramesAccounted` (`NoFrameLost`) and
`VirtualMemoryImplemented` (`MemorySpec => ImplementsVirtualMemory`). The hard state is a fork
that sleeps between two pages while others run. `IInv` says, while the machine is on: a
valid entry leads to a taken frame (`EntriesOK`); a frame has one owner or is shared
(`OneOwner`); the frames that sleeping forks have taken are each of one fork and in
nobody's table (`Reserved`); the taken frames are those with an owner, and
`numPagesAllocated` is behind by one for each sleeping fork (`Accounted`); and the pages that
a sleeping fork has copied hold what the parent's had (`Forking`). That the next frame
is free follows from `NextFrame`: it is the least that is not in `physPageStatus`.

### `NachosCpuProofs` and `NachosCpuA2Proofs`

From `CpuAssumption` (at least one console polls: `ExceptionHandler` makes one on
every entry) and `CpuA2Assumption`:

* `CpuInvariant`, `TimesAddUp` (`TimeAccounted`), `SleepersNotForgotten`
  (`SleepersWoken`), `PrioritiesUpToDate` (`PriorityFollowsUsage`), `HaltsWithNobodyLeft`
  (`HaltsWhenDone`), `WaitsAreBounded` (`WaitBounded`). The last one assumes in addition
  `UserTick <= SystemTick` (1 and 10 in `machine/stats.h`): the switch that the bound
  grants to each turn is the longest instant between two looks at the interrupts.
* `CpuA2Invariant`, `SetStatusAccounts` (`TicksAccounted`), `NobodyIsLost` (`NobodyLost`),
  `HaltsWhenAllExited` (`HaltsAtTheEnd`).

That the clock is charged once needs to know what each mode owes: a burst is open exactly while
the machine is busy, and who runs then (`Modal`, `Accounts`). That the waits add up to the
integral of the length of the ready list needs that each thread is on it once (`OnLists`).
That a sleeper is woken by the first timer interrupt after its time needs that the
list of interrupts is sorted, always holds the timer's, and that `CheckIfDue` puts the
head back without losing it (`Timers`); that the machine does not halt on a sleeper needs in addition
that whoever sleeps has made a console, whose poll is pending.

`WaitsAreBounded` needs a second invariant, `WInv`. Of a burst (`Bursts`): the timer last
fired within the quantum, or the thread is about to yield; since the timer's interrupt is
always pending and not yet due when the thread is back in user code, the burst is shorter
than quantum and timer interval. Of the ready list (`Waiting`): whoever is i-th of it has let pass
at most the turns of those who were in front of it, `n - 1 - i` of the `n` threads there
are, and the burst of the one that runs. A fork adds a turn for everybody; a dispatch
takes the head off and closes a burst; who joins, joins at the end; and a list without
repetition is shorter than the number of threads (`ListedFew`).

In A2 nobody is lost because rotating and sorting a list keep its threads (`ArrangedIs`), and
because a blocked thread has exited, sleeps, or waits for a child that has not exited
(`Families`). The machine halts at the right time because whoever blocks has made a
console (`Polls`), so that `Idle` never finds only the timer while somebody is to come back.

### `NachosThreadsA1Proofs`

From `A1Assumption` and one restriction on programs, which each theorem states: no program joins
a pid that no thread has had yet (`~FutureJoins`). Without it A1 loses threads (section 2).

* `A1Invariant`: the inductive invariant.
* `A1PlacementHolds` (`A1Placement`), `FamilyKnownHolds` (`FamilyKnown`).
* `JoinKnowsChildHolds` (`JoinKnowsChild`), if in addition no program exits with -1: `Join` answers
  -1 for "no such child" and for a child that exited with -1 alike.

The list of a parent's children is a chain of cells, so the proof needs a predicate that ties the
chain to a sequence. `IsPath` says that the cells from the first on are those of a sequence,
`HasList` that this sequence has the threads of a given set, by pid, and ends in the last cell.
`WalkIs` shows that the walk of the code then finds that sequence; its argument on the number of cells
left takes the least counterexample. `ListAppend`, `ListTail` and `ListFront` say what the three changes
of the code do to such a chain, `ListKept` that a chain is not touched by changes to others:
families are disjoint, since a thread has one parent. The parts of `IInv` are

* `Queued`, `Counted`: the lists and `numThreads` follow the statuses;
* `Families`: unless the machine is `torn`, each living thread's chain holds its living children.
  `Fork` may append because a new pid exceeds all others (`Unborn`);
* `Kin`: a parent pointer is null or leads to a living thread, and the keys of exited children are
  complete;
* `Waiters`: a thread blocked in `Join` has the joined child in `waitPid`, and conversely whoever has
  a living child in `waitPid` is blocked in the `Join` of it. The converse is what `Exit`
  relies on when it readies the parent, and what a join of a future pid breaks.

### `NachosDevicesProofs`

The specifications of single devices (`ConsoleSpec`, `DiskSpec`, `NetworkSpec`) are what is
proved about; `NachosHardware` conjoins the same actions, but reaches `Bitwise`, which the
prover cannot use.

* `NetworkInvariant`, `DeliveredInOrder` (`PacketsInOrder`): received, inbox and socket are one
  sequence, numbered by each sender, over restarts and losses.
* `ConsoleInvariant`, `OneCharacterAtATime` (`OneCharOnItsWay`): one token is either the
  permit of `writeDone`, a thread between `P` and `PutChar`, or the write interrupt pending.
* `ScreenInvariant`, `ScreenShows` (`ScreenShowsText`): `SInv` is inductive together with `CInv`. For
  each thread there is a sequence of calls, `Begun`, such that the script is these calls and
  those still to make, and display and `text` are together the texts of these calls; a
  thread about to put has something to put. For `ConsoleTest`, the key that the Console
  holds is counted in `readAvail` or ConsoleTest is on its way to fetch it (`KeyHeld`), never
  both: that is why a key is neither lost nor echoed twice. The rest is what the calls compute
  (`PutIsExpected`): `ConvertIntToHex` by the least number where it would differ from
  the numeral; `PrintInt` in two steps: `PowersTo`, that exp is the power of ten
  above its argument and an `int`, and `Splits`, that the digits taken from the left end with the last
  one, so that leaving it out leaves the digits of a tenth. The theorem covers every
  `int` of `PrintIntHex`, every number up to 999999999 of `PrintInt`, and any strings.
* `DiskInvariant`, `SectorHasPassed` (`SectorUnderHead`): the latency that the code
  computes from remainders and rounding is the least one, for every geometry and all
  times. `DInv` adds when the track buffer was begun.

### Induction over data

The induction theorems of the library take an operator as a parameter, which the
provers cannot instantiate. Where a property needs a fact about all numbers up to a bound
(a sum, a least element, the position of an insertion) the proofs take the least counterexample
instead: `MinExists` gives it from the theorem on finite sets, and sums are functions
(`PartialSums`) about whose least disagreement `SumsUnique` argues. The same argument gives
recursive functions on numbers their values: `RecursionExists` shows that a function
satisfying the equation exists, so that the CHOOSE behind the definition finds one
(`ConvertIntToHexIs`, `PowerAboveIs`, `DigitsFromIs`, `ReversedIs`), and `FlattenAppend` does this for
the `FlattenSeq` of the community modules. What a RECURSIVE operator computes is not proved.

### Only model-checked

* Liveness (`ReadyRuns`, `JoinEnds`, `ForkEnds`, `ProgramEnds`, `PrintsEnd`): fairness and ENABLED are out of the prover's reach.
* `ImplementsIsa` (`Bitwise`).

## 5. What is not modelled

* `sysdep`: pure I/O. `SWITCH`: assembly, taken as atomic. Boot and command line,
  debugger and debugging output. `SynchList`, `BitMap` and `Lock` (an empty class) are
  used by nothing here.
* The file system and the post office: `FILESYS` and `NETWORK` have their devices in
  the repository but not the code that drives them. What a sector holds: a UNIX file.
* Random timer intervals (`-rs`), which no batch uses; the statistics that are only
  printed; use, dirty and readOnly bits and the TLB.
* A1 and A2 where they are the same as A3 in an earlier state: processor, devices,
  semaphores; A2's address spaces and its check of `MAX_THREAD_COUNT`.
* The test programs other than `test/queue.c`: straight-line uses of the calls whose
  modules leave the program open, so that every sequence of calls is covered.

## 6. Plan

Done, in this order: `NachosThreads` with its abstraction and proofs,
`NachosSynch`, `NachosQueue`, `NachosMemory`, `NachosCpu`, `NachosMips` with
`NachosIsa`, `NachosConsole`, `NachosDisk`, `NachosNetwork`, `NachosThreadsA1`,
`NachosCpuA2`.

Proved, in this order: `NachosThreads`; `NachosMemory`; `NachosSynch` and
`NachosQueue`; network, console, disk; `NachosCpu`; `NachosCpuA2`; `NachosThreadsA1`.

Next: A1's join repaired (the child found before `waitPid` is set, the status copied), as a
variant that satisfies `JoinReturnsStatus` without an assumption on programs.
