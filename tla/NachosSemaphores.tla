-------------------------- MODULE NachosSemaphores --------------------------
(***************************************************************************)
(* What semaphores and condition variables promise: a permit is taken by   *)
(* one thread at a time and only when there is one, a thread waits only    *)
(* when there is none, and waiting on a condition gives the mutex back and *)
(* starts to wait for it in one step.  There are no queues here and no     *)
(* woken threads that test again: module NachosSynch has them, and         *)
(* implements this specification.  All this is promised to programs that   *)
(* keep the rules for setting, removing and using semaphores; whether they *)
(* have done so up to now is not decided here.                             *)
(***************************************************************************)
EXTENDS Integers

CONSTANTS Semaphore,    \* the semaphores there may be
          Thread,
          NoSemaphore   \* what a thread waits for that waits for nothing

VARIABLES permits,      \* semaphore that exists -> number of free permits
          waitsFor,     \* thread -> the semaphore it has to take, if any
          careful       \* FALSE once a program has broken the rules

Exists == DOMAIN permits
Waiters(s) == {t \in Thread : waitsFor[t] = s}

Create(s) ==
  /\ s \in Semaphore \ Exists /\ Waiters(s) = {}
  /\ permits' = [x \in Exists \cup {s} |-> IF x = s THEN 0 ELSE permits[x]]
  /\ UNCHANGED waitsFor

(* A semaphore is set or removed only while nobody waits for it.            *)
Initialise(s, v) ==
  /\ s \in Exists /\ Waiters(s) = {} /\ v >= 0
  /\ permits' = [permits EXCEPT ![s] = v] /\ UNCHANGED waitsFor

Destroy(s) ==
  /\ s \in Exists /\ Waiters(s) = {}
  /\ permits' = [x \in Exists \ {s} |-> permits[x]] /\ UNCHANGED waitsFor

Wait(t, s) ==
  /\ s \in Exists /\ waitsFor[t] = NoSemaphore /\ permits[s] = 0
  /\ waitsFor' = [waitsFor EXCEPT ![t] = s] /\ UNCHANGED permits

Acquire(t, s) ==
  /\ s \in Exists /\ waitsFor[t] \in {NoSemaphore, s} /\ permits[s] > 0
  /\ permits' = [permits EXCEPT ![s] = @ - 1]
  /\ waitsFor' = [waitsFor EXCEPT ![t] = NoSemaphore]

Release(s) ==
  /\ s \in Exists
  /\ permits' = [permits EXCEPT ![s] = @ + 1] /\ UNCHANGED waitsFor

ReleaseAndWait(t, s) ==
  /\ s \in Exists /\ waitsFor[t] = NoSemaphore
  /\ permits' = [permits EXCEPT ![s] = @ + 1]
  /\ waitsFor' = [waitsFor EXCEPT ![t] = s]

SemaphoreInit ==
  permits = [s \in {} |-> 0] /\ waitsFor = [t \in Thread |-> NoSemaphore] /\ careful = TRUE

SemaphoreNext ==
  \E s \in Semaphore :
     \/ Create(s) \/ Destroy(s) \/ Release(s)
     \/ \E v \in {permits'[x] : x \in DOMAIN permits'} : Initialise(s, v)
     \/ \E t \in Thread : Wait(t, s) \/ Acquire(t, s) \/ ReleaseAndWait(t, s)

(* Rules that are broken stay so, and nothing is promised from then on.     *)
SemaphoreStep == careful' => careful /\ SemaphoreNext

SemaphoreSpec == SemaphoreInit /\ [][SemaphoreStep]_<<permits, waitsFor, careful>>
=============================================================================
