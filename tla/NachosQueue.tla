----------------------------- MODULE NachosQueue -----------------------------
(***************************************************************************)
(* The bounded queue of test/queue.c: enqueuers and dequeuers that share   *)
(* an array in a shared memory region and use the kernel's semaphores and  *)
(* condition variables as a monitor.  Every step of a thread is either one *)
(* system call of NachosSynch or one access to the shared region, and pc   *)
(* says where it goes on when the call returns.                            *)
(***************************************************************************)
EXTENDS NachosSynch

CONSTANTS
  Main, Enqueuers, Dequeuers,   \* the parent and its children
  SIZE,                         \* slots of the queue
  NUM_ENQUEUE_OP                \* operations of each enqueuer

NUM_DEQUEUE_OP == (NUM_ENQUEUE_OP * Cardinality(Enqueuers)) \div Cardinality(Dequeuers)

Children == Enqueuers \cup Dequeuers

ASSUME QueueAssumption ==
  /\ Thread = {Main} \cup Children /\ Main \notin Children
  /\ Enqueuers \cap Dequeuers = {}
  /\ SIZE \in Nat \ {0} /\ NUM_ENQUEUE_OP \in Nat \ {0} /\ NUM_DEQUEUE_OP \in Nat
  /\ NUM_DEQUEUE_OP * Cardinality(Dequeuers) = NUM_ENQUEUE_OP * Cardinality(Enqueuers)
  /\ {19, 20} \subseteq Keys /\ 1 \in SetValues   \* what main() passes

VARIABLES
  pc,               \* thread -> the statement it executes next
  left,             \* thread -> operations it still has to do
  slots,            \* array[0 .. SIZE-1]
  head, tail, count,            \* array[SIZE], array[SIZE+1], array[SIZE+2]
  enqueued, dequeued            \* history: the values in order

shared == <<slots, head, tail, count, enqueued, dequeued>>
qvars == <<synch, pc, left, shared>>

(* The identifiers that main() gets: the tables are empty before.           *)
semid == 0
stdoutsemid == 1
notFullid == 0
notEmptyid == 1

GoTo(t, l) == pc' = [pc EXCEPT ![t] = l]
At(t, l) == Awake(t, "user") /\ pc[t] = l

(* Faulty: off by one; the wrong condition is signalled.                    *)
FaultyMustWait(t) == IF t \in Enqueuers THEN count = SIZE + 1 ELSE count = 0
FaultySignals(t) == IF t \in Enqueuers THEN notFullid ELSE notEmptyid

(* What the loops of Enqueue and Dequeue wait for, and what they signal.    *)
MustWait(t) == IF t \in Enqueuers THEN count = SIZE ELSE count = 0
WaitsOn(t)  == IF t \in Enqueuers THEN notFullid ELSE notEmptyid
Signals(t)  == IF t \in Enqueuers THEN notEmptyid ELSE notFullid

-----------------------------------------------------------------------------
QueueInit ==
  /\ SynchInit
  /\ pc = [t \in Thread |-> IF t = Main THEN "SemGet" ELSE "unborn"]
  /\ left = [t \in Thread |-> IF t \in Enqueuers THEN NUM_ENQUEUE_OP
                              ELSE IF t \in Dequeuers THEN NUM_DEQUEUE_OP ELSE 0]
  /\ slots = [i \in 0 .. SIZE - 1 |-> <<>>]
  /\ head = 0 /\ tail = 0 /\ count = 0
  /\ enqueued = <<>> /\ dequeued = <<>>

(* main() up to its forks.  The order in which the children are forked and   *)
(* joined, which the code fixes, is left open.                              *)
Setup ==
  /\ \/ At(Main, "SemGet") /\ SemGet(Main, 19) /\ GoTo(Main, "SemSet")
     \/ At(Main, "SemSet") /\ SemSet(Main, semid, 1) /\ GoTo(Main, "SemGet2")
     \/ At(Main, "SemGet2") /\ SemGet(Main, 20) /\ GoTo(Main, "SemSet2")
     \/ At(Main, "SemSet2") /\ SemSet(Main, stdoutsemid, 1) /\ GoTo(Main, "CondGet")
     \/ At(Main, "CondGet") /\ CondGet(Main, 19) /\ GoTo(Main, "CondGet2")
     \/ At(Main, "CondGet2") /\ CondGet(Main, 20) /\ GoTo(Main, "fork")
  /\ UNCHANGED <<left, shared>>

ForkChild(t) ==
  /\ At(Main, "fork") /\ pc[t] = "unborn"
  /\ pc' = [pc EXCEPT ![t] = "lock",
                      ![Main] = IF \E u \in Children \ {t} : pc[u] = "unborn"
                                THEN "fork" ELSE "join"]
  /\ UNCHANGED <<synch, left, shared>>

(* Faulty: the loop of joins ends one child too early.                      *)
FaultyAllJoined == Cardinality({t \in Children : pc[t] # "joined"}) <= 1

AllJoined == \A t \in Children : pc[t] = "joined"

(* The parent prints each exit code under the mutex of the standard output, *)
(* and removes the primitives when it has joined every child.               *)
JoinChild(t) ==
  /\ At(Main, "join") /\ pc[t] = "exited"
  /\ P(Main, stdoutsemid)
  /\ pc' = [pc EXCEPT ![t] = "joined", ![Main] = "joined"]
  /\ UNCHANGED <<left, shared>>

Finish ==
  /\ \/ /\ At(Main, "joined") /\ V(Main, stdoutsemid)
        /\ GoTo(Main, IF AllJoined THEN "remove" ELSE "join")
     \/ At(Main, "remove") /\ SemRemove(Main, semid) /\ GoTo(Main, "remove2")
     \/ At(Main, "remove2") /\ SemRemove(Main, stdoutsemid) /\ GoTo(Main, "remove3")
     \/ At(Main, "remove3") /\ CondRemove(Main, notFullid) /\ GoTo(Main, "remove4")
     \/ At(Main, "remove4") /\ CondRemove(Main, notEmptyid) /\ GoTo(Main, "end")
  /\ UNCHANGED <<left, shared>>

-----------------------------------------------------------------------------
(* Enqueue and Dequeue take the mutex and wait in a loop for a free or a    *)
(* full slot; while they hold it they print under a second mutex.           *)
Lock(t) ==
  /\ At(t, "lock") /\ P(t, semid)
  /\ GoTo(t, "test") /\ UNCHANGED <<left, shared>>

Test(t) ==
  /\ At(t, "test")
  /\ GoTo(t, IF MustWait(t) THEN "report" ELSE "slot")
  /\ UNCHANGED <<synch, left, shared>>

Report(t) ==
  /\ \/ At(t, "report") /\ P(t, stdoutsemid) /\ GoTo(t, "reported")
     \/ At(t, "reported") /\ V(t, stdoutsemid) /\ GoTo(t, "wait")
  /\ UNCHANGED <<left, shared>>

WaitForSlot(t) ==
  /\ At(t, "wait") /\ CondWait(t, WaitsOn(t), semid)
  /\ GoTo(t, "test") /\ UNCHANGED <<left, shared>>

(* The slot is written or read; then the index and the count are updated.   *)
EnqueueSlot(t) ==
  /\ t \in Enqueuers /\ At(t, "slot")
  /\ slots' = [slots EXCEPT ![tail] = <<t, left[t]>>]
  /\ enqueued' = Append(enqueued, <<t, left[t]>>)
  /\ GoTo(t, "count") /\ UNCHANGED <<synch, left, head, tail, count, dequeued>>

DequeueSlot(t) ==
  /\ t \in Dequeuers /\ At(t, "slot")
  /\ dequeued' = Append(dequeued, slots[head])
  /\ GoTo(t, "count") /\ UNCHANGED <<synch, left, slots, head, tail, count, enqueued>>

Count(t) ==
  /\ At(t, "count")
  /\ \/ /\ t \in Enqueuers
        /\ tail' = (tail + 1) % SIZE /\ count' = count + 1 /\ UNCHANGED head
     \/ /\ t \in Dequeuers
        /\ head' = (head + 1) % SIZE /\ count' = count - 1 /\ UNCHANGED tail
  /\ GoTo(t, "signal") /\ UNCHANGED <<synch, left, slots, enqueued, dequeued>>

(* The signal is given before the mutex is released.                        *)
Unlock(t) ==
  /\ \/ At(t, "signal") /\ Signal(t, Signals(t)) /\ GoTo(t, "unlock")
     \/ At(t, "unlock") /\ V(t, semid) /\ GoTo(t, "print")
  /\ UNCHANGED <<left, shared>>

(* The child prints what it did, and goes on or exits.                      *)
PrintResult(t) ==
  /\ \/ At(t, "print") /\ P(t, stdoutsemid) /\ GoTo(t, "printed") /\ UNCHANGED left
     \/ /\ At(t, "printed") /\ V(t, stdoutsemid)
        /\ left' = [left EXCEPT ![t] = @ - 1]
        /\ GoTo(t, IF left[t] = 1 THEN "exited" ELSE "lock")
  /\ UNCHANGED shared

(* A thread that sleeps in a call goes on with it when it is dispatched.    *)
Continue(t) ==
  /\ Retry(t) \/ CondResumes(t) \/ SetResumes(t)
  /\ UNCHANGED <<pc, left, shared>>

Done == pc[Main] = "end" /\ UNCHANGED qvars

ChildStep(t) ==
  \/ Lock(t) \/ Test(t) \/ Report(t) \/ WaitForSlot(t)
  \/ EnqueueSlot(t) \/ DequeueSlot(t) \/ Count(t) \/ Unlock(t) \/ PrintResult(t)
  \/ Continue(t)

MainStep == Setup \/ (\E t \in Children : ForkChild(t) \/ JoinChild(t)) \/ Finish \/ Continue(Main)

QueueNext == MainStep \/ (\E t \in Children : ChildStep(t)) \/ Done

QueueSpec == QueueInit /\ [][QueueNext]_qvars

(* Every ready thread is dispatched: property ReadyRuns of NachosThreads.   *)
QueueFairSpec ==
  QueueSpec /\ WF_qvars(MainStep) /\ \A t \in Children : WF_qvars(ChildStep(t))

-----------------------------------------------------------------------------
(* One thread at most is between Lock and Unlock, whatever was woken in     *)
(* between: Wait returns only with the mutex held.                          *)
Critical == {t \in Children :
               /\ pc[t] \in {"test", "report", "reported", "wait", "slot", "count",
                             "signal", "unlock"}
               /\ where[t] = "user" \/ target[t] = stdoutsemid}
MutualExclusion == Cardinality(Critical) <= 1

(* First in, first out: no element is lost, overwritten or taken twice, and *)
(* the count is right whenever nobody is inside.                            *)
FirstInFirstOut ==
  /\ IsPrefix(dequeued, enqueued)
  /\ Critical = {} => count = Len(enqueued) - Len(dequeued)

(* The kernel follows no pointer to a removed semaphore when the parent     *)
(* removes them: no child is left inside an operation on one, neither       *)
(* asleep in P nor woken and about to test the value again, nor in Wait and *)
(* about to take the mutex back.  ~Semaphore asks only that nobody is "still*)
(* waiting", which a woken thread no longer does, and nothing in the kernel *)
(* would keep the program from removing them too early.                     *)
NoUseAfterRemove == machine # "undefined"

(* The program ends, with everything dequeued and the primitives removed:   *)
(* no signal is lost and no thread is left asleep.                          *)
ProgramEnds == <>(pc[Main] = "end" /\ dequeued = enqueued)
=============================================================================
