---------------------------- MODULE NachosThreadsA1 ----------------------------
(***************************************************************************)
(* The threads of the first assignment's kernel (cs330assignment1): fork,  *)
(* exec, join, exit, sleep and yield of userprog/exception.cc on the       *)
(* threads of threads/thread.cc and the round-robin ready list of          *)
(* threads/scheduler.cc.  Parents and children know each other by          *)
(* pointers: a child has its parentThread, a parent the list of its living *)
(* children, kept here cell by cell as threads/list.cc does.  A parent     *)
(* that joins sets waitPid and sleeps; the child that exits compares it    *)
(* with its own pid, leaves the parent a pointer to its exit status and    *)
(* wakes it.                                                               *)
(*                                                                         *)
(* A cell or a thread that is deleted may be read but not trusted.  Time   *)
(* is abstract: the timer wakes any number of the first sleepers.  What an *)
(* address space holds is left out, only its pages are counted.  Printing  *)
(* is in module NachosConsole.                                             *)
(***************************************************************************)
EXTENDS Integers, Sequences, SequencesExt, FiniteSets

CONSTANTS
  MaxThreads,     \* bound on the threads made
  MaxChildren,    \* bound on the living children of a thread
  ExitCode,       \* the arguments of Exit
  FutureJoins,    \* TRUE if a program may join a pid that no thread has had yet
  NumPhysPages,   \* pages of the machine
  FilePages       \* the sizes, in pages, of the executables

Thread == 1 .. MaxThreads       \* by pid
Main == 1
Null == 0
NoChild == -1
Garbage == -2                   \* what may be read from a freed stack or a field never set: no pid
Nothing == [thread |-> Null, pid |-> 0, value |-> NoChild]

ASSUME A1Assumption ==
  /\ MaxThreads \in Nat \ {0} /\ FutureJoins \in BOOLEAN
  /\ FilePages \subseteq 1 .. NumPhysPages

VARIABLES
  machine,              \* "on", "halted", "aborted" or "torn": a freed cell is in a list
  currentThread, readyList, sleepingThreads, threadToBeDestroyed,
  numThreads, currentPid,
  deleted,              \* the threads whose stack and object are freed
  status, parentThread, ppid, waitPid,
  joining,              \* thread -> the pid it joins while it is in Join, or 0
  first, last,          \* thread -> the cells at the ends of aliveChildProcesses
  next,                 \* cell -> the cell behind it
  exited,               \* thread -> the keys of exitedChildProcesses
  exitCode,             \* thread -> the argument of its Exit
  returned,             \* what Join returns in this step, if it does: its thread, pid and result
  totalAllocatedPages, numPages

a1Vars == <<machine, currentThread, readyList, sleepingThreads, threadToBeDestroyed, numThreads,
  currentPid, deleted, status, parentThread, ppid, waitPid, joining, first, last, next,
  exited, exitCode, returned, totalAllocatedPages, numPages>>

memoryVars == <<totalAllocatedPages, numPages>>
listVars   == <<first, last, next>>
familyVars == <<parentThread, ppid, listVars>>
exitVars   == <<exited, exitCode>>

Created == 1 .. currentPid - 1
Alive   == {t \in Created : status[t] # "FINISHED"}

-----------------------------------------------------------------------------
(* threads/list.cc, on the list of t's living children.  A thread is on one *)
(* such list, once, so a cell is named by the thread it holds.              *)

(* The cells that a walk over the list passes, not more than there are.     *)
Walk(t) ==
  LET from[n \in 0 .. MaxThreads] ==
        [c \in Thread \cup {Null} |->
           IF c = Null \/ n = 0 THEN <<>> ELSE <<c>> \o from[n - 1][next[c]]]
  IN  from[MaxThreads][first[t]]

(* GetValue finds the key.                                                  *)
Listed(t, key) == key \in ToSet(Walk(t))

(* SortedInsert puts c before the first cell with a larger key.             *)
SortedInsert(t, c) ==
  LET path   == Walk(t)
      n      == Cardinality({k \in DOMAIN path : path[k] <= c})
      behind == IF n = Len(path) THEN last[t] ELSE path[n]
  IN  /\ first' = IF n = 0 THEN [first EXCEPT ![t] = c] ELSE first
      /\ last'  = IF n = Len(path) THEN [last EXCEPT ![t] = c] ELSE last
      /\ next'  = [d \in Thread |-> IF d = c THEN IF n = Len(path) THEN Null ELSE path[n + 1]
                                    ELSE IF n > 0 /\ d = behind THEN c ELSE next[d]]

(* An operator whose name starts with Faulty is its successor with one      *)
(* plausible bug; no behaviour uses it, the mutation runs substitute it.    *)

(* Faulty: last is left on the cell that is deleted.                        *)
FaultyRemoveElement(t, key) ==
  LET k == CHOOSE n \in 1 .. MaxThreads : ~Listed(t, key) \/ Walk(t)[n] = key IN
  /\ first' = IF Listed(t, key) /\ k = 1 THEN [first EXCEPT ![t] = next[key]] ELSE first
  /\ next'  = IF Listed(t, key) /\ k > 1 THEN [next EXCEPT ![Walk(t)[k - 1]] = next[key]] ELSE next
  /\ UNCHANGED last

(* RemoveElement deletes the cell, but unlinks it only if it is the first   *)
(* or the last one.                                                         *)
RemoveElement(t, key) ==
  IF ~Listed(t, key) THEN UNCHANGED listVars
  ELSE LET path   == Walk(t)
           k      == CHOOSE n \in DOMAIN path : path[n] = key
           isLast == key = last[t]
       IN  /\ first' = IF k = 1 THEN [first EXCEPT ![t] = next[key]] ELSE first
           /\ last'  = IF ~isLast THEN last
                       ELSE [last EXCEPT ![t] = IF k = 1 THEN Null ELSE path[k - 1]]
           /\ next'  = IF k > 1 /\ isLast THEN [next EXCEPT ![path[k - 1]] = Null] ELSE next

(* Any other cell is freed and still in the list; what a walk over the list *)
(* does then is undefined, and the model ends there.                        *)
Tears(t, key) == Listed(t, key) /\ key \notin {first[t], last[t]}

-----------------------------------------------------------------------------
(* threads/scheduler.cc and threads/thread.cc                               *)
User(t) == machine = "on" /\ currentThread = t /\ status[t] = "RUNNING" /\ joining[t] = 0

(* Run of the first of a ready list.  The thread that runs then deletes the *)
(* one that has finished.                                                   *)
Run(ready, st) ==
  /\ currentThread' = Head(ready) /\ readyList' = Tail(ready)
  /\ status' = [st EXCEPT ![Head(ready)] = "RUNNING"]
  /\ deleted' = deleted \cup ({threadToBeDestroyed} \ {Null})
  /\ threadToBeDestroyed' = Null

(* YieldCPU: the next thread is taken before the current one is appended.   *)
YieldCPU(t, ready) ==
  IF ready = <<>> THEN UNCHANGED <<currentThread, readyList, status, deleted, threadToBeDestroyed>>
  ELSE Run(Append(ready, t), [status EXCEPT ![t] = "READY"])

(* PutThreadToSleep, once a thread is ready: at once, or after the machine  *)
(* has idled.                                                               *)
Dispatch ==
  /\ machine = "on" /\ status[currentThread] # "RUNNING" /\ readyList # <<>>
  /\ Run(readyList, status)
  /\ UNCHANGED <<machine, sleepingThreads, numThreads, currentPid, familyVars, waitPid, joining,
                 exitVars, memoryVars>>

(* TimerInterruptHandler takes the sleepers from their list in the order of *)
(* their times, wakes those whose time has come and inserts the first of    *)
(* the others again, behind those that have the same time; the thread that  *)
(* runs then yields.                                                        *)
Woken(n) == SubSeq(sleepingThreads, 1, n)
Readied(ts) == [t \in Thread |-> IF t \in ToSet(ts) THEN "READY" ELSE status[t]]
SleepOn(rest) ==
  IF rest = <<>> THEN sleepingThreads' = <<>>
  ELSE \E i \in 1 .. Len(rest) : sleepingThreads' = InsertAt(Tail(rest), i, Head(rest))

TimerInterrupt ==
  /\ machine = "on" /\ (joining[currentThread] = 0 \/ status[currentThread] # "RUNNING")
  /\ \E n \in 0 .. Len(sleepingThreads) :
       /\ SleepOn(SubSeq(sleepingThreads, n + 1, Len(sleepingThreads)))
       /\ \/ /\ status[currentThread] = "RUNNING"
             /\ LET ready == readyList \o Woken(n) IN
                IF ready = <<>>
                THEN UNCHANGED <<currentThread, readyList, status, deleted, threadToBeDestroyed>>
                ELSE Run(Append(ready, currentThread),
                         [Readied(Woken(n)) EXCEPT ![currentThread] = "READY"])
          \/ /\ status[currentThread] # "RUNNING" /\ readyList = <<>>
             /\ readyList' = Woken(n) /\ status' = Readied(Woken(n))
             /\ UNCHANGED <<currentThread, deleted, threadToBeDestroyed>>
  /\ UNCHANGED <<machine, numThreads, currentPid, familyVars, waitPid, joining, exitVars,
                 memoryVars>>

-----------------------------------------------------------------------------
(* userprog/exception.cc                                                    *)
Yield(t) ==
  /\ User(t) /\ YieldCPU(t, readyList)
  /\ UNCHANGED <<machine, sleepingThreads, numThreads, currentPid, familyVars, waitPid, joining,
                 exitVars, memoryVars>>

(* The time decides the place on the sorted list.                           *)
Sleep(t) ==
  /\ User(t)
  /\ \E i \in 1 .. Len(sleepingThreads) + 1 : sleepingThreads' = InsertAt(sleepingThreads, i, t)
  /\ status' = [status EXCEPT ![t] = "BLOCKED"]
  /\ UNCHANGED <<machine, currentThread, readyList, threadToBeDestroyed, numThreads, currentPid,
                 deleted, familyVars, waitPid, joining, exitVars, memoryVars>>

(* AddrSpace::AddrSpace takes the pages behind all those ever taken, or an  *)
(* ASSERT stops the machine.                                                *)
NewSpace(t, pages) ==
  /\ totalAllocatedPages + pages <= NumPhysPages
  /\ totalAllocatedPages' = totalAllocatedPages + pages
  /\ numPages' = [numPages EXCEPT ![t] = pages]

NoRoom(pages) ==
  /\ totalAllocatedPages + pages > NumPhysPages /\ machine' = "aborted"
  /\ UNCHANGED <<currentThread, readyList, sleepingThreads, threadToBeDestroyed, numThreads,
                 currentPid, deleted, status, familyVars, waitPid, joining, exitVars,
                 memoryVars>>

(* Exec of a file that does not exist returns -1 and changes nothing.       *)
Exec(t) ==
  /\ User(t)
  /\ \E pages \in FilePages :
       \/ /\ NewSpace(t, pages)
          /\ UNCHANGED <<machine, currentThread, readyList, sleepingThreads, threadToBeDestroyed,
                         numThreads, currentPid, deleted, status, familyVars, waitPid, joining,
                         exitVars>>
       \/ NoRoom(pages)

(* Fork: the thread object, its place among the parent's children, its      *)
(* address space, and ThreadFork.                                           *)
Fork(t) ==
  /\ User(t) /\ currentPid <= MaxThreads /\ Len(Walk(t)) < MaxChildren
  /\ LET child == currentPid IN
     \/ /\ NewSpace(child, numPages[t])
        /\ currentPid' = currentPid + 1 /\ numThreads' = numThreads + 1
        /\ SortedInsert(t, child)
        /\ parentThread' = [parentThread EXCEPT ![child] = t]
        /\ ppid' = [ppid EXCEPT ![child] = t]
        /\ status' = [status EXCEPT ![child] = "READY"]
        /\ readyList' = Append(readyList, child)
        /\ UNCHANGED <<machine, currentThread, sleepingThreads, threadToBeDestroyed, deleted,
                       waitPid, joining, exitVars>>
     \/ NoRoom(numPages[t])

(* Exit of the only thread halts the machine.                               *)
ExitHalts(t) ==
  /\ User(t) /\ numThreads = 1 /\ machine' = "halted"
  /\ UNCHANGED <<currentThread, readyList, sleepingThreads, threadToBeDestroyed, numThreads,
                 currentPid, deleted, status, familyVars, waitPid, joining, exitVars,
                 memoryVars>>

(* The children of t, by its list, become orphans.  What only the thread    *)
(* that exits could read is forgotten with it.                              *)
alertChildren(t) ==
  /\ parentThread' = [c \in Thread |-> IF c = t \/ Listed(t, c) THEN Null ELSE parentThread[c]]
  /\ ppid' = [c \in Thread |-> IF Listed(t, c) THEN 0 ELSE ppid[c]]

(* Faulty: a parent that does not wait yet is not told.                     *)
FaultyexitAppend(p, t) == exited' = [exited EXCEPT ![p] = IF waitPid[p] = t THEN @ \cup {t} ELSE @,
                                                   ![t] = {}]
exitAppend(p, t) == exited' = [exited EXCEPT ![p] = @ \cup {t}, ![t] = {}]

Exit(t) ==
  /\ User(t) /\ numThreads > 1
  /\ \E code \in ExitCode : exitCode' = [exitCode EXCEPT ![t] = code]
  /\ LET p     == parentThread[t]
         wakes == p # Null /\ waitPid[p] = t
     IN  /\ IF p = Null THEN exited' = [exited EXCEPT ![t] = {}] /\ UNCHANGED listVars
            ELSE exitAppend(p, t) /\ RemoveElement(p, t)
         /\ machine' = IF p # Null /\ Tears(p, t) THEN "torn" ELSE machine
         /\ waitPid' = [c \in Thread |-> IF c = t \/ (wakes /\ c = p) THEN 0 ELSE waitPid[c]]
         /\ readyList' = IF wakes THEN Append(readyList, p) ELSE readyList
         /\ status' = [c \in Thread |-> IF c = t THEN "FINISHED"
                                        ELSE IF wakes /\ c = p THEN "READY" ELSE status[c]]
  /\ alertChildren(t)
  /\ threadToBeDestroyed' = t /\ numThreads' = numThreads - 1
  /\ UNCHANGED <<currentThread, sleepingThreads, currentPid, deleted, joining,
                 memoryVars>>

(* The end of Join: the exit status is on the stack of the child, which is  *)
(* freed with it.                                                           *)
StatusOf(val) ==
  IF val \in deleted THEN {exitCode[val], Garbage} ELSE {exitCode[val]}
JoinAnswer(t, val) ==
  \E r \in IF val \in exited[t] THEN StatusOf(val) ELSE {NoChild} :
    returned' = [thread |-> t, pid |-> val, value |-> r]

(* Faulty: waitPid is set only if there is nothing to wait for.             *)
FaultyWaitsFor(t, val) == waitPid' = IF Listed(t, val) THEN waitPid ELSE [waitPid EXCEPT ![t] = val]

WaitsFor(t, val) == waitPid' = [waitPid EXCEPT ![t] = val]

Join(t, val) ==
  /\ User(t) /\ (FutureJoins \/ val \in Created)
  /\ WaitsFor(t, val)
  /\ IF Listed(t, val)
     THEN /\ status' = [status EXCEPT ![t] = "BLOCKED"]
          /\ joining' = [joining EXCEPT ![t] = val]
          /\ returned' = Nothing
     ELSE JoinAnswer(t, val) /\ UNCHANGED <<status, joining>>
  /\ UNCHANGED <<machine, currentThread, readyList, sleepingThreads, threadToBeDestroyed,
                 numThreads, currentPid, deleted, familyVars, exitVars, memoryVars>>

(* Interrupts are off until it is back in the program.                      *)
JoinReturns(t) ==
  /\ machine = "on" /\ currentThread = t /\ status[t] = "RUNNING" /\ joining[t] # 0
  /\ JoinAnswer(t, joining[t])
  /\ joining' = [joining EXCEPT ![t] = 0]
  /\ UNCHANGED <<machine, currentThread, readyList, sleepingThreads, threadToBeDestroyed,
                 numThreads, currentPid, deleted, status, familyVars, waitPid, exitVars, memoryVars>>

-----------------------------------------------------------------------------
A1Init ==
  /\ machine = "on" /\ currentThread = Main
  /\ readyList = <<>> /\ sleepingThreads = <<>> /\ threadToBeDestroyed = Null
  /\ numThreads = 1 /\ currentPid = 2 /\ deleted = {}
  /\ status = [t \in Thread |-> IF t = Main THEN "RUNNING" ELSE "FINISHED"]
  /\ parentThread = [t \in Thread |-> Null] /\ ppid = [t \in Thread |-> IF t = Main THEN Garbage ELSE 0]
  /\ waitPid = [t \in Thread |-> 0] /\ joining = [t \in Thread |-> 0]
  /\ first = [t \in Thread |-> Null] /\ last = [t \in Thread |-> Null]
  /\ next = [c \in Thread |-> Null]
  /\ exited = [t \in Thread |-> {}] /\ exitCode = [t \in Thread |-> 0]
  /\ returned = Nothing
  /\ \E pages \in FilePages :
       /\ totalAllocatedPages = pages
       /\ numPages = [t \in Thread |-> IF t = Main THEN pages ELSE 0]

A1Next ==
  \/ \E t \in Thread : \/ JoinReturns(t)
                       \/ \E val \in Thread : Join(t, val)
  \/ /\ \/ \E t \in Thread : \/ Yield(t) \/ Sleep(t) \/ Exec(t) \/ Fork(t)
                             \/ ExitHalts(t) \/ Exit(t)
        \/ TimerInterrupt \/ Dispatch
     /\ returned' = Nothing

A1Spec == A1Init /\ [][A1Next]_a1Vars

-----------------------------------------------------------------------------
(* No thread is lost and none is in two places: a living thread runs, or is *)
(* once on the ready list, or once on the list of sleepers, or it is        *)
(* blocked in Join and a living child that has it as its parent and that it *)
(* has in waitPid will wake it.  numThreads, by which Exit decides to halt  *)
(* the machine, counts the living.  Each of YieldCPU, PutThreadToSleep,     *)
(* TimerInterruptHandler, Exit and Join moves threads on its own.           *)
Places(t, list) == Cardinality({k \in DOMAIN list : list[k] = t})
Placed(t) ==
  /\ (status[t] = "RUNNING") = (currentThread = t /\ status[t] \notin {"READY", "BLOCKED"})
  /\ Places(t, readyList) = IF status[t] = "READY" THEN 1 ELSE 0
  /\ \/ Places(t, sleepingThreads) = 0 /\ (status[t] # "BLOCKED" \/ joining[t] # 0)
     \/ Places(t, sleepingThreads) = 1 /\ status[t] = "BLOCKED" /\ joining[t] = 0
  /\ status[t] = "BLOCKED" /\ joining[t] # 0 =>
       waitPid[t] = joining[t] /\ joining[t] \in Alive /\ parentThread[joining[t]] = t
A1Placement ==
  /\ numThreads = Cardinality(Alive)
  /\ \A t \in Alive : Placed(t)
  /\ (ToSet(readyList) \cup ToSet(sleepingThreads)) \cap deleted = {}

(* Parents and children know each other: the list of a living thread holds  *)
(* its living children, once each and in the order of their pids, and ends  *)
(* in its last cell; a thread's parent lives, and getppid tells its pid.    *)
(* So the pointers that alertChildren, Exit and Join follow are not         *)
(* dangling, until a child between two others exits.  Nothing sets the ppid *)
(* of the main thread.                                                      *)
Family(t) == {c \in Alive : parentThread[c] = t}
Ascending(path) == \A i, j \in DOMAIN path : i < j => path[i] < path[j]
FamilyKnown ==
  machine # "torn" => \A t \in Alive :
    /\ ToSet(Walk(t)) = Family(t) /\ Ascending(Walk(t))
    /\ last[t] = IF Walk(t) = <<>> THEN Null ELSE Last(Walk(t))
    /\ parentThread[t] \in Alive \cup {Null} /\ (t # Main => ppid[t] = parentThread[t])

(* A Join that comes back tells that there is no such child only if there   *)
(* never was one, whether the child exited before, in or after the Join     *)
(* and whatever else the parent forked and joined between.                  *)
JoinKnowsChild ==
  returned # Nothing => (returned.value = NoChild <=> ppid[returned.pid] # returned.thread)

(* "Simply return the exit status of the exited child" (exception.cc:336).  *)
JoinReturnsStatus ==
  returned.value # NoChild => returned.value = exitCode[returned.pid]
=============================================================================
