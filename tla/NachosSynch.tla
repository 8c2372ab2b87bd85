----------------------------- MODULE NachosSynch -----------------------------
(***************************************************************************)
(* Semaphores and condition variables (threads/synch.cc) and the system    *)
(* calls SemGet, SemOp, SemCtl, CondGet, CondOp and CondRemove             *)
(* (userprog/exception.cc).                                                *)
(*                                                                         *)
(* P, V and Wait run with interrupts off, and nothing advances the clock   *)
(* inside Signal, Broadcast or a table search, so each is one action up to *)
(* the point where the thread sleeps.  A woken thread is only put on the   *)
(* ready list (Mesa semantics): before it runs, any other thread may take  *)
(* the permit or remove the semaphore.  Which ready thread runs is left    *)
(* open here; module NachosThreads has the ready list.                     *)
(*                                                                         *)
(* The console takes the first two entries of the table, under the key -1  *)
(* that marks a free entry; identifiers start after them here.             *)
(*                                                                         *)
(* SemGet and CondGet of a key that exists, an operation on an identifier  *)
(* that was removed (it returns -1) and SYNCH_GET change nothing here.     *)
(***************************************************************************)
EXTENDS Integers, Sequences, FiniteSets, SequencesExt

CONSTANTS
  Thread,          \* the threads
  Keys,            \* the keys passed to SemGet and CondGet
  MaxSemaphores,   \* MAX_SEMAPHORE_COUNT of threads/system.h
  MaxConditions,   \* MAX_CONDITION_COUNT of threads/system.h
  SetValues,       \* the values passed to SemCtl with SYNCH_SET
  MaxValue         \* bound: no V beyond this value

ASSUME SynchAssumption ==
  /\ IsFiniteSet(Thread)   \* MAX_THREAD_COUNT of threads/system.h bounds them
  /\ MaxSemaphores \in Nat \ {0} /\ MaxConditions \in Nat \ {0}
  /\ SetValues \subseteq Int /\ MaxValue \in Nat

SemId  == 0 .. MaxSemaphores - 1
CondId == 0 .. MaxConditions - 1
NoSem  == -1

VARIABLES
  semaphoreIndex,   \* number of semaphores ever created
  semaphoreArray,   \* the identifiers whose entry is not NULL
  semaphoreKeys,    \* identifier -> key
  value,            \* identifier -> value of the semaphore
  semQueue,         \* identifier -> threads blocked in P, in order
  conditionIndex, conditionArray, conditionKeys,   \* the same of conditions
  condQueue,        \* identifier -> threads blocked in Wait, in order
  where,            \* thread -> the operation it is inside of, see Places
  target,           \* thread -> the semaphore that operation uses, if any
  setting,          \* thread -> the value an unfinished SYNCH_SET will store
  machine,          \* "on", "aborted" (a failed ASSERT) or "undefined"
                    \* (the kernel used a deleted object or a NULL pointer)
  careful           \* history: TRUE while no program has broken the rules below

tables == <<semaphoreIndex, semaphoreArray, semaphoreKeys,
            conditionIndex, conditionArray, conditionKeys>>
synch == <<tables, value, semQueue, condQueue, where, target, setting, machine, careful>>

(* "sem" and "cond": asleep on a queue.  "retry": woken by V, still inside  *)
(* the loop of P.  "woken": woken in Condition::Wait, before mutex->P().    *)
(* "set": asleep for the page that holds the value of a SYNCH_SET.          *)
Places == {"user", "sem", "retry", "cond", "woken", "set"}

Awake(t, place) == machine = "on" /\ where[t] = place
Inside(s) == {t \in Thread : target[t] = s}

(* The kernel lets a program set and remove a semaphore at any time.  The   *)
(* rules under which it keeps its promises are the programs' to keep: a     *)
(* semaphore is set or removed only while no thread is inside an operation  *)
(* on it, and used only while no SYNCH_SET of it is unfinished.  ~Semaphore *)
(* asks for a part of that: "Assume no one is still waiting on the          *)
(* semaphore!".                                                             *)
Changing(s) == careful' = (careful /\ Inside(s) = {})
Using(s) == careful' = (careful /\ \A t \in Inside(s) : where[t] # "set")

-----------------------------------------------------------------------------
SynchInit ==
  /\ semaphoreIndex = 0 /\ semaphoreArray = {}
  /\ semaphoreKeys = [s \in SemId |-> -1]
  /\ value = [s \in SemId |-> 0]
  /\ semQueue = [s \in SemId |-> <<>>]
  /\ conditionIndex = 0 /\ conditionArray = {}
  /\ conditionKeys = [c \in CondId |-> -1]
  /\ condQueue = [c \in CondId |-> <<>>]
  /\ where = [t \in Thread |-> "user"]
  /\ target = [t \in Thread |-> NoSem]
  /\ setting = [t \in Thread |-> 0]
  /\ machine = "on" /\ careful = TRUE

(* Faulty: the ASSERT lets the last entry be used; the search misses the    *)
(* last entry.                                                              *)
FaultyTableFull(index, size) == index + 1 > size
FaultySemFound(k) == {s \in semaphoreArray : s + 1 < semaphoreIndex /\ semaphoreKeys[s] = k}

(* The ASSERT of the constructors fails when the last entry would be used.  *)
TableFull(index, size) == index + 1 >= size

(* The identifiers that SemGet and CondGet find under the key k.            *)
SemFound(k) == {s \in semaphoreArray : semaphoreKeys[s] = k}
CondFound(k) == {c \in conditionArray : conditionKeys[c] = k}

(* syscall_SemGet and syscall_CondGet of a new key.                         *)
SemGet(t, k) ==
  /\ Awake(t, "user") /\ SemFound(k) = {} /\ ~TableFull(semaphoreIndex, MaxSemaphores)
  /\ semaphoreIndex' = semaphoreIndex + 1
  /\ semaphoreArray' = semaphoreArray \cup {semaphoreIndex}
  /\ semaphoreKeys' = [semaphoreKeys EXCEPT ![semaphoreIndex] = k]
  /\ UNCHANGED <<conditionIndex, conditionArray, conditionKeys, value, semQueue,
                 condQueue, where, target, setting, machine, careful>>

CondGet(t, k) ==
  /\ Awake(t, "user") /\ CondFound(k) = {} /\ ~TableFull(conditionIndex, MaxConditions)
  /\ conditionIndex' = conditionIndex + 1
  /\ conditionArray' = conditionArray \cup {conditionIndex}
  /\ conditionKeys' = [conditionKeys EXCEPT ![conditionIndex] = k]
  /\ UNCHANGED <<semaphoreIndex, semaphoreArray, semaphoreKeys, value, semQueue,
                 condQueue, where, target, setting, machine, careful>>

GetAborts(t, k) ==
  /\ Awake(t, "user")
  /\ \/ SemFound(k) = {} /\ TableFull(semaphoreIndex, MaxSemaphores)
     \/ CondFound(k) = {} /\ TableFull(conditionIndex, MaxConditions)
  /\ machine' = "aborted"
  /\ UNCHANGED <<tables, value, semQueue, condQueue, where, target, setting, careful>>

-----------------------------------------------------------------------------
(* An iteration of the loop of Semaphore::P. *)
TakeOrWait(t, s) ==
  /\ UNCHANGED machine
  /\ \/ /\ value[s] # 0
        /\ value' = [value EXCEPT ![s] = @ - 1]
        /\ where' = [where EXCEPT ![t] = "user"]
        /\ target' = [target EXCEPT ![t] = NoSem]
        /\ UNCHANGED semQueue
     \/ /\ value[s] = 0
        /\ semQueue' = [semQueue EXCEPT ![s] = Append(@, t)]
        /\ where' = [where EXCEPT ![t] = "sem"]
        /\ target' = [target EXCEPT ![t] = s]
        /\ UNCHANGED value

(* The thread t, which has slept, goes on with the semaphore it points to.  *)
Resume(t, place) ==
  LET s == target[t]
  IN  /\ Awake(t, place)
      /\ \/ s \in semaphoreArray /\ TakeOrWait(t, s)
         \/ /\ s \notin semaphoreArray
            /\ machine' = "undefined"
            /\ UNCHANGED <<value, semQueue, where, target>>
      /\ UNCHANGED <<tables, condQueue, setting, careful>>

(* syscall_SemOp with -1. *)
P(t, s) ==
  /\ Awake(t, "user") /\ s \in semaphoreArray /\ Using(s)
  /\ TakeOrWait(t, s)
  /\ UNCHANGED <<tables, condQueue, setting>>

(* A thread woken by V tests the value again.                               *)
Retry(t) == Resume(t, "retry")

(* List::Remove, n times: who leaves the queue q and who stays.             *)
First(q, n) == {q[i] : i \in 1 .. n}
Rest(q, n) == SubSeq(q, n + 1, Len(q))

(* How many List::Remove takes when it is called once.                      *)
AtMostOne(q) == IF q = <<>> THEN 0 ELSE 1

(* Faulty: V wakes a waiter only if there was no permit.                    *)
FaultyWakes(s) == IF value[s] = 0 THEN AtMostOne(semQueue[s]) ELSE 0

(* Semaphore::V: the first waiter is made ready, and the value is raised.   *)
Wakes(s) == AtMostOne(semQueue[s])
Woken(s) == First(semQueue[s], Wakes(s))
Release(s) ==
  /\ value[s] < MaxValue
  /\ value' = [value EXCEPT ![s] = @ + 1]
  /\ semQueue' = [semQueue EXCEPT ![s] = Rest(@, Wakes(s))]

(* syscall_SemOp with 1. *)
V(t, s) ==
  /\ Awake(t, "user") /\ s \in semaphoreArray /\ Using(s)
  /\ Release(s)
  /\ where' = [u \in Thread |-> IF u \in Woken(s) THEN "retry" ELSE where[u]]
  /\ UNCHANGED <<tables, condQueue, target, setting, machine>>

-----------------------------------------------------------------------------
(* Condition::Wait up to its sleep: queue the thread and give the mutex back*)
CondWait(t, c, s) ==
  /\ Awake(t, "user") /\ c \in conditionArray /\ s \in semaphoreArray /\ Using(s)
  /\ condQueue' = [condQueue EXCEPT ![c] = Append(@, t)]
  /\ Release(s)
  /\ where' = [u \in Thread |-> IF u = t THEN "cond"
                                ELSE IF u \in Woken(s) THEN "retry" ELSE where[u]]
  /\ target' = [target EXCEPT ![t] = s]
  /\ UNCHANGED <<tables, setting, machine>>

(* Condition::Wait after its sleep: mutex->P(). *)
CondResumes(t) == Resume(t, "woken")

(* Faulty: the woken waiters stay on the queue; Wait returns without the    *)
(* mutex.                                                                   *)
FaultyAwaken(c, n) ==
  /\ where' = [u \in Thread |-> IF u \in First(condQueue[c], n) THEN "woken" ELSE where[u]]
  /\ UNCHANGED condQueue
FaultyCondAwaken(c, n) ==
  /\ condQueue' = [condQueue EXCEPT ![c] = Rest(@, n)]
  /\ where' = [u \in Thread |-> IF u \in First(condQueue[c], n) THEN "user" ELSE where[u]]

(* The first n threads are taken off the queue of c and made ready.         *)
CondAwaken(c, n) ==
  /\ condQueue' = [condQueue EXCEPT ![c] = Rest(@, n)]
  /\ where' = [u \in Thread |-> IF u \in First(condQueue[c], n) THEN "woken" ELSE where[u]]

Signal(t, c) ==
  /\ Awake(t, "user") /\ c \in conditionArray
  /\ CondAwaken(c, AtMostOne(condQueue[c]))
  /\ UNCHANGED <<tables, value, semQueue, target, setting, machine, careful>>

Broadcast(t, c) ==
  /\ Awake(t, "user") /\ c \in conditionArray
  /\ CondAwaken(c, Len(condQueue[c]))
  /\ UNCHANGED <<tables, value, semQueue, target, setting, machine, careful>>

-----------------------------------------------------------------------------
(* syscall_SemCtl with SYNCH_SET tests the entry, reads the user's variable *)
(* (a page fault puts the thread to sleep) and then stores the value.       *)
SemSet(t, s, v) ==
  /\ Awake(t, "user") /\ s \in semaphoreArray /\ Changing(s)
  /\ \/ value' = [value EXCEPT ![s] = v] /\ UNCHANGED <<where, target, setting>>
     \/ /\ where' = [where EXCEPT ![t] = "set"]
        /\ target' = [target EXCEPT ![t] = s]
        /\ setting' = [setting EXCEPT ![t] = v]
        /\ UNCHANGED value
  /\ UNCHANGED <<tables, semQueue, condQueue, machine>>

(* The page is there: the entry is read again, but not tested again.        *)
SetResumes(t) ==
  LET s == target[t]
  IN  /\ Awake(t, "set")
      /\ \/ /\ s \in semaphoreArray
            /\ value' = [value EXCEPT ![s] = setting[t]]
            /\ where' = [where EXCEPT ![t] = "user"]
            /\ target' = [target EXCEPT ![t] = NoSem]
            /\ setting' = [setting EXCEPT ![t] = 0]
            /\ UNCHANGED machine
         \/ /\ s \notin semaphoreArray
            /\ machine' = "undefined" /\ UNCHANGED <<value, where, target, setting>>
      /\ UNCHANGED <<tables, semQueue, condQueue, careful>>

(* syscall_SemCtl with SYNCH_REMOVE, and syscall_CondRemove.                *)
SemRemove(t, s) ==
  /\ Awake(t, "user") /\ s \in semaphoreArray /\ Changing(s)
  /\ semaphoreArray' = semaphoreArray \ {s}
  /\ UNCHANGED <<semaphoreIndex, semaphoreKeys, conditionIndex, conditionArray,
                 conditionKeys, value, semQueue, condQueue, where, target, setting, machine>>

CondRemove(t, c) ==
  /\ Awake(t, "user") /\ c \in conditionArray
  /\ conditionArray' = conditionArray \ {c}
  /\ UNCHANGED <<semaphoreIndex, semaphoreArray, semaphoreKeys, conditionIndex,
                 conditionKeys, value, semQueue, condQueue, where, target, setting, machine,
                 careful>>

Ended == machine # "on" /\ UNCHANGED synch

SynchNext ==
  \/ \E t \in Thread :
       \/ \E k \in Keys : SemGet(t, k) \/ CondGet(t, k) \/ GetAborts(t, k)
       \/ \E s \in SemId : P(t, s) \/ V(t, s) \/ SemRemove(t, s)
       \/ \E s \in SemId, v \in SetValues : SemSet(t, s, v)
       \/ \E c \in CondId, s \in SemId : CondWait(t, c, s)
       \/ \E c \in CondId : Signal(t, c) \/ Broadcast(t, c) \/ CondRemove(t, c)
       \/ Retry(t) \/ CondResumes(t) \/ SetResumes(t)
  \/ Ended

SynchSpec == SynchInit /\ [][SynchNext]_synch

-----------------------------------------------------------------------------
(* A thread sleeps on one queue at most, and there once, exactly while it   *)
(* is blocked in P or Wait: no wake-up readies a thread twice, or leaves a  *)
(* queue entry of a thread that runs (P, V, Wait, Signal, Broadcast).       *)
OneQueue ==
  /\ \A s \in SemId : /\ IsInjective(semQueue[s])
                      /\ ToSet(semQueue[s]) = {t \in Inside(s) : where[t] = "sem"}
  /\ \A c \in CondId : IsInjective(condQueue[c])
  /\ \A t \in Thread : Cardinality({c \in CondId : t \in ToSet(condQueue[c])})
                         = IF where[t] = "cond" THEN 1 ELSE 0

(* Two threads that get the same key share one semaphore, whatever was      *)
(* removed and created in between.                                          *)
OneSemaphorePerKey ==
  \A r, s \in semaphoreArray : semaphoreKeys[r] = semaphoreKeys[s] => r = s

(* The variables hold what they may hold.                                   *)
SynchTypes ==
  /\ semaphoreIndex \in SemId /\ conditionIndex \in CondId
  /\ semaphoreArray \subseteq 0 .. semaphoreIndex - 1
  /\ conditionArray \subseteq 0 .. conditionIndex - 1
  /\ semaphoreKeys \in [SemId -> Keys \cup {-1}]
  /\ conditionKeys \in [CondId -> Keys \cup {-1}]
  /\ value \in [SemId -> Int]
  /\ semQueue \in [SemId -> Seq(Thread)] /\ condQueue \in [CondId -> Seq(Thread)]
  /\ where \in [Thread -> Places]
  /\ target \in [Thread -> SemId \cup {NoSem}]
  /\ setting \in [Thread -> SetValues \cup {0}]
  /\ machine \in {"on", "aborted", "undefined"} /\ careful \in BOOLEAN

(* So do the tables: each live key names one semaphore, and the queues say  *)
(* who is blocked where.                                                    *)
SynchTypeOK == SynchTypes /\ OneQueue /\ OneSemaphorePerKey

(* No permit is stranded while programs keep the rules: while a thread      *)
(* sleeps in P, every free permit has a woken thread that will come for it. *)
(* synch.h: "P() -- waits until value > 0, then decrement".                 *)
NoStrandedPermit ==
  careful =>
    \A s \in semaphoreArray :
       semQueue[s] # <<>> => value[s] <= Cardinality({t \in Inside(s) : where[t] = "retry"})

-----------------------------------------------------------------------------
(* The semaphores implement the abstract ones while programs keep the rules:*)
(* a thread asleep in P, woken by V or anywhere in Wait waits for its       *)
(* semaphore.                                                               *)
Abstract == INSTANCE NachosSemaphores
              WITH Semaphore <- SemId, NoSemaphore <- NoSem,
                   permits <- [s \in semaphoreArray |-> value[s]],
                   waitsFor <- [t \in Thread |->
                                  IF where[t] \in {"sem", "retry", "cond", "woken"}
                                  THEN target[t] ELSE NoSem]

ImplementsSemaphores == Abstract!SemaphoreSpec
=============================================================================
