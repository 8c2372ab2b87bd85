-------------------------- MODULE NachosSynchProofs --------------------------
(***************************************************************************)
(* Proofs about the semaphores and condition variables of NachosSynch: the *)
(* inductive invariant IInv, which ties the queues, the places of the      *)
(* threads and the pointers they hold to each other; that the state is     *)
(* well formed whatever programs do; and that, as long as they keep the    *)
(* rules, no permit is stranded and the kernel implements NachosSemaphores.*)
(* The second part is about the bounded queue of NachosQueue, a program    *)
(* that uses them and keeps the rules.                                     *)
(***************************************************************************)
EXTENDS NachosQueue, NachosLists, TLAPS

(* A thread is on the queue of a semaphore once, exactly while it sleeps in *)
(* P of that semaphore.                                                     *)
SemQueued ==
  \A s \in SemId :
    /\ Distinct(semQueue[s])
    /\ \A t \in Thread : t \in ToSet(semQueue[s]) <=> where[t] = "sem" /\ target[t] = s

(* A thread is on the queue of one condition, and there once, exactly while *)
(* it sleeps in Wait.                                                       *)
CondQueued ==
  /\ \A c \in CondId : Distinct(condQueue[c])
  /\ \A t \in Thread : where[t] = "cond" <=> \E c \in CondId : t \in ToSet(condQueue[c])
  /\ \A c, d \in CondId : \A t \in Thread :
       t \in ToSet(condQueue[c]) /\ t \in ToSet(condQueue[d]) => c = d

(* A thread inside of an operation points to a semaphore that was created.  *)
Pointing ==
  \A t \in Thread : IF where[t] = "user" THEN target[t] = NoSem
                    ELSE target[t] \in 0 .. semaphoreIndex - 1

(* A semaphore that was not created has no permits.                         *)
Fresh == \A s \in SemId : s >= semaphoreIndex => value[s] = 0

(* No value is negative if no program stores one.                           *)
Permits == SetValues \subseteq Nat => value \in [SemId -> Nat]

(* What holds as long as programs keep the rules: the semaphores that       *)
(* threads point to exist, one that is being set is used by nobody else,    *)
(* and no permit is stranded.                                               *)
WithCare ==
  careful =>
    /\ machine # "undefined"
    /\ \A t \in Thread : where[t] # "user" => target[t] \in semaphoreArray
    /\ \A t \in Thread : where[t] = "set" => Inside(target[t]) = {t}
    /\ NoStrandedPermit

IInv == /\ SynchTypes /\ SemQueued /\ CondQueued /\ Pointing
        /\ OneSemaphorePerKey /\ Fresh /\ Permits /\ WithCare

(* The threads on their way to a permit of s.                               *)
Retrying(s) == {t \in Inside(s) : where[t] = "retry"}
-----------------------------------------------------------------------------
(* Sets of threads are finite.                                              *)
LEMMA ThreadsFinite ==
  ASSUME NEW T \in SUBSET Thread
  PROVE  IsFiniteSet(T) /\ Cardinality(T) \in Nat
BY SynchAssumption, FS_Subset, FS_CardinalityType DEF SynchAssumption

(* One thread less counts one less, at most.                                *)
LEMMA OneLess ==
  ASSUME NEW T \in SUBSET Thread, NEW t
  PROVE  Cardinality(T \ {t}) >= Cardinality(T) - 1
<1>1. IsFiniteSet(T) /\ Cardinality(T) \in Nat
  BY ThreadsFinite
<1>2. CASE t \in T
  <2>1. Cardinality(T \ {t}) = Cardinality(T) - 1
    BY <1>1, <1>2, FS_RemoveElement
  <2> QED BY <1>1, <2>1
<1>3. CASE t \notin T
  <2>1. T \ {t} = T
    BY <1>3
  <2> QED BY <1>1, <2>1
<1> QED BY <1>2, <1>3

(* The numbers of semaphores and conditions.                                *)
LEMMA Identifiers ==
  /\ SemId \subseteq Nat /\ CondId \subseteq Nat /\ NoSem \notin SemId
  /\ 0 \in SemId /\ 0 \in CondId /\ MaxSemaphores \in Nat /\ MaxConditions \in Nat
BY SynchAssumption DEF SynchAssumption, SemId, CondId, NoSem

(* The tables are empty when the machine boots.                             *)
LEMMA InitIInv == ASSUME SynchInit PROVE IInv
<1>1. <<>> \in Seq(Thread) /\ ToSet(<<>>) = {} /\ Distinct(<<>>)
  BY DEF ToSet, Distinct
<1>2. SynchTypes
  BY <1>1, Identifiers DEF SynchInit, SynchTypes, Places
<1>3. SemQueued /\ CondQueued /\ Pointing
  BY <1>1 DEF SynchInit, SemQueued, CondQueued, Pointing
<1>4. OneSemaphorePerKey /\ Fresh /\ Permits /\ WithCare
  BY DEF SynchInit, OneSemaphorePerKey, Fresh, Permits, WithCare, NoStrandedPermit
<1> QED BY <1>2, <1>3, <1>4 DEF IInv

(* A broken rule stays broken; what the rules say when they are kept.       *)
LEMMA RulesKept ==
  ASSUME careful \in BOOLEAN, NEW s \in SemId
  PROVE  /\ Changing(s) => careful' \in BOOLEAN /\ (careful' => careful /\ Inside(s) = {})
         /\ Using(s) => /\ careful' \in BOOLEAN
                        /\ careful' => careful /\ \A u \in Inside(s) : where[u] # "set"
BY DEF Changing, Using

(* A step that changes no thread, no queue and no value.                    *)
LEMMA SameThreads ==
  ASSUME UNCHANGED <<value, semQueue, condQueue, where, target>>
  PROVE  /\ SemQueued => SemQueued'
         /\ CondQueued => CondQueued'
         /\ Permits => Permits'
         /\ \A s \in SemId : Inside(s)' = Inside(s) /\ Retrying(s)' = Retrying(s)
BY DEF SemQueued, CondQueued, Permits, Inside, Retrying

(* SemGet enters a semaphore without permits, under a key that is free.     *)
LEMMA SemGetKeeps ==
  ASSUME IInv, NEW t \in Thread, NEW k \in Keys, SemGet(t, k)
  PROVE  IInv'
<1>1. /\ SynchTypes /\ SemFound(k) = {} /\ ~TableFull(semaphoreIndex, MaxSemaphores)
      /\ semaphoreIndex' = semaphoreIndex + 1
      /\ semaphoreArray' = semaphoreArray \cup {semaphoreIndex}
      /\ semaphoreKeys' = [semaphoreKeys EXCEPT ![semaphoreIndex] = k]
      /\ UNCHANGED <<conditionIndex, conditionArray, conditionKeys, value, semQueue,
                     condQueue, where, target, setting, machine, careful>>
  BY DEF IInv, SemGet
<1>2. semaphoreIndex \in SemId /\ semaphoreIndex \in Nat /\ semaphoreIndex + 1 \in SemId
  BY <1>1, Identifiers DEF SynchTypes, TableFull, SemId
<1>3. SynchTypes'
  BY <1>1, <1>2 DEF SynchTypes
<1>4. /\ SemQueued' /\ CondQueued' /\ Permits'
      /\ \A s \in SemId : Inside(s)' = Inside(s) /\ Retrying(s)' = Retrying(s)
  BY <1>1, SameThreads DEF IInv
<1>5. Pointing' /\ Fresh'
  <2>1. \A i \in 0 .. semaphoreIndex - 1 : i \in 0 .. (semaphoreIndex + 1) - 1
    BY <1>2
  <2>2. Pointing'
    BY <1>1, <2>1 DEF IInv, Pointing
  <2>3. \A s \in SemId : s >= semaphoreIndex + 1 => s >= semaphoreIndex
    BY <1>2, Identifiers
  <2>4. Fresh'
    BY <1>1, <2>3 DEF IInv, Fresh
  <2> QED BY <2>2, <2>4
<1>6. \A s \in semaphoreArray : s # semaphoreIndex /\ s \in SemId
  <2>1. \A s \in 0 .. semaphoreIndex - 1 : s # semaphoreIndex /\ s \in SemId
    BY <1>2, Identifiers DEF SemId
  <2> QED BY <1>1, <2>1 DEF SynchTypes
<1>7. OneSemaphorePerKey'
  BY <1>1, <1>2, <1>6 DEF IInv, OneSemaphorePerKey, SemFound, SynchTypes
<1>8. ASSUME careful PROVE NoStrandedPermit'
  <2>1. semQueue[semaphoreIndex] = <<>>
    <3>1. semQueue[semaphoreIndex] \in Seq(Thread)
      BY <1>1, <1>2 DEF SynchTypes
    <3>2. \A u \in Thread : u \notin ToSet(semQueue[semaphoreIndex])
      BY <1>2 DEF IInv, SemQueued, Pointing
    <3> QED BY <3>1, <3>2 DEF ToSet
  <2> QED BY <1>1, <1>2, <1>4, <1>6, <1>8, <2>1 DEF IInv, WithCare, NoStrandedPermit, Retrying
<1>9. WithCare'
  BY <1>1, <1>4, <1>6, <1>8 DEF IInv, WithCare, Inside
<1> QED BY <1>3, <1>4, <1>5, <1>7, <1>9 DEF IInv

(* The tables of conditions, and the steps that end the run, leave the      *)
(* semaphores alone.                                                        *)
LEMMA CondTableKeeps ==
  ASSUME IInv, NEW t \in Thread,
         \/ \E k \in Keys : CondGet(t, k) \/ GetAborts(t, k)
         \/ \E c \in CondId : CondRemove(t, c)
  PROVE  IInv'
<1>1. UNCHANGED <<semaphoreIndex, semaphoreArray, semaphoreKeys, value, semQueue, condQueue,
                  where, target, setting, careful>> /\ machine' # "undefined"
  BY DEF CondGet, GetAborts, CondRemove, tables, Awake
<1>2. SynchTypes'
  <2>1. SynchTypes /\ conditionIndex \in CondId /\ conditionIndex \in Nat
    BY Identifiers DEF IInv, SynchTypes
  <2>2. ASSUME NEW k \in Keys, CondGet(t, k) PROVE SynchTypes'
    <3>1. conditionIndex + 1 \in CondId
      BY <2>1, <2>2, Identifiers DEF CondGet, TableFull, CondId
    <3> QED BY <2>1, <2>2, <3>1 DEF SynchTypes, CondGet
  <2>3. ASSUME NEW k \in Keys, GetAborts(t, k) PROVE SynchTypes'
    BY <2>1, <2>3 DEF SynchTypes, GetAborts, tables
  <2>4. ASSUME NEW c \in CondId, CondRemove(t, c) PROVE SynchTypes'
    BY <2>1, <2>4 DEF SynchTypes, CondRemove
  <2> QED BY <2>2, <2>3, <2>4
<1>3. SemQueued' /\ CondQueued' /\ Permits'
  BY <1>1, SameThreads DEF IInv
<1>4. Pointing' /\ Fresh' /\ OneSemaphorePerKey'
  BY <1>1 DEF IInv, Pointing, Fresh, OneSemaphorePerKey
<1>5. WithCare'
  BY <1>1 DEF IInv, WithCare, NoStrandedPermit, Inside
<1> QED BY <1>2, <1>3, <1>4, <1>5 DEF IInv

-----------------------------------------------------------------------------
(* The semaphores of the table have been created.                           *)
LEMMA Created ==
  ASSUME SynchTypes, NEW s \in semaphoreArray
  PROVE  s \in SemId /\ s \in 0 .. semaphoreIndex - 1
<1>1. semaphoreIndex \in SemId /\ s \in 0 .. semaphoreIndex - 1
  BY DEF SynchTypes
<1> QED BY <1>1, Identifiers DEF SemId

(* A thread that takes a permit.                                            *)
LEMMA TakeKeeps ==
  ASSUME IInv, NEW t \in Thread, NEW s \in semaphoreArray,
         where[t] \in {"user", "retry", "woken"}, where[t] # "user" => target[t] = s,
         value[s] # 0, value' = [value EXCEPT ![s] = value[s] - 1],
         where' = [where EXCEPT ![t] = "user"], target' = [target EXCEPT ![t] = NoSem],
         UNCHANGED <<tables, semQueue, condQueue, setting, machine>>,
         careful' \in BOOLEAN, careful' => careful
  PROVE  IInv'
<1>1. SynchTypes /\ s \in SemId /\ s \in 0 .. semaphoreIndex - 1
  BY Created DEF IInv
<1>2. /\ where'[t] = "user" /\ target'[t] = NoSem
      /\ \A u \in Thread : u # t => where'[u] = where[u] /\ target'[u] = target[u]
      /\ value'[s] = value[s] - 1 /\ value[s] \in Int
      /\ \A r \in SemId : r # s => value'[r] = value[r]
  BY <1>1 DEF SynchTypes
<1>3. SynchTypes'
  BY <1>1 DEF SynchTypes, tables, Places
<1>4. SemQueued' /\ CondQueued'
  BY <1>2 DEF IInv, SemQueued, CondQueued
<1>5. Pointing' /\ OneSemaphorePerKey'
  BY <1>2 DEF IInv, Pointing, OneSemaphorePerKey, tables
<1>6. Fresh'
  <2>1. \A r \in SemId : r >= semaphoreIndex => r # s
    BY <1>1, Identifiers DEF SynchTypes
  <2> QED BY <1>2, <2>1 DEF IInv, Fresh, tables
<1>7. Permits'
  <2> SUFFICES ASSUME SetValues \subseteq Nat PROVE value' \in [SemId -> Nat]
    BY DEF Permits
  <2>1. value \in [SemId -> Nat]
    BY DEF IInv, Permits
  <2> QED BY <1>1, <2>1
<1>8. WithCare'
  <2> SUFFICES ASSUME careful' PROVE WithCare'
    BY DEF WithCare
  <2>1. NoStrandedPermit /\ machine' # "undefined"
    BY DEF IInv, WithCare
  <2>2. \A u \in Thread : where'[u] # "user" => target'[u] \in semaphoreArray'
    BY <1>2 DEF IInv, WithCare, tables
  <2>3. \A u \in Thread : where'[u] = "set" => Inside(target[u])' = {u} /\ target'[u] = target[u]
    <3> SUFFICES ASSUME NEW u \in Thread, where'[u] = "set"
                 PROVE  Inside(target[u])' = {u} /\ target'[u] = target[u]
      OBVIOUS
    <3>1. u # t /\ where[u] = "set" /\ Inside(target[u]) = {u} /\ target'[u] = target[u]
      BY <1>2 DEF IInv, WithCare
    <3>2. target[u] # NoSem
      BY <3>1, Created, Identifiers DEF IInv, WithCare
    <3> QED BY <1>2, <3>1, <3>2 DEF Inside
  <2>4. ASSUME NEW r \in semaphoreArray, semQueue[r] # <<>>
        PROVE  value'[r] <= Cardinality(Retrying(r)')
    <3>1. r \in SemId /\ value[r] \in Int /\ value[r] <= Cardinality(Retrying(r))
      BY <1>1, <2>1, <2>4, Created DEF NoStrandedPermit, Retrying, SynchTypes
    <3>2. CASE r = s
      <4>1. Retrying(r)' = Retrying(r) \ {t}
        BY <1>1, <1>2, <3>1, Identifiers DEF Retrying, Inside
      <4>2. IsFiniteSet(Retrying(r)) /\ Cardinality(Retrying(r)) \in Nat
        BY ThreadsFinite DEF Retrying, Inside
      <4>3. Cardinality(Retrying(r) \ {t}) >= Cardinality(Retrying(r)) - 1
        <5>1. Retrying(r) \in SUBSET Thread
          BY DEF Retrying, Inside
        <5> QED BY <5>1, OneLess
      <4>4. Cardinality(Retrying(r) \ {t}) \in Nat
        BY ThreadsFinite DEF Retrying, Inside
      <4> QED BY <1>2, <3>1, <3>2, <4>1, <4>2, <4>3, <4>4
    <3>3. CASE r # s
      <4>1. Retrying(r)' = Retrying(r)
        BY <1>1, <1>2, <3>1, <3>3, Identifiers DEF Retrying, Inside
      <4> QED BY <1>2, <3>1, <3>3, <4>1
    <3> QED BY <3>2, <3>3
  <2>5. NoStrandedPermit'
    BY <2>4 DEF NoStrandedPermit, Retrying, tables
  <2> QED BY <2>1, <2>2, <2>3, <2>5 DEF WithCare
<1> QED BY <1>3, <1>4, <1>5, <1>6, <1>7, <1>8 DEF IInv

(* A thread that finds no permit.                                           *)
LEMMA WaitKeeps ==
  ASSUME IInv, NEW t \in Thread, NEW s \in semaphoreArray,
         where[t] \in {"user", "retry", "woken"}, where[t] # "user" => target[t] = s,
         careful' \in BOOLEAN, careful' => careful,
         careful' /\ where[t] = "user" => \A u \in Inside(s) : where[u] # "set",
         value[s] = 0, semQueue' = [semQueue EXCEPT ![s] = Append(semQueue[s], t)],
         where' = [where EXCEPT ![t] = "sem"], target' = [target EXCEPT ![t] = s],
         UNCHANGED <<tables, value, condQueue, setting, machine>>
  PROVE  IInv'
<1>1. SynchTypes /\ s \in SemId /\ s \in 0 .. semaphoreIndex - 1
  BY Created DEF IInv
<1>2. /\ where'[t] = "sem" /\ target'[t] = s
      /\ \A u \in Thread : u # t => where'[u] = where[u] /\ target'[u] = target[u]
      /\ semQueue'[s] = Append(semQueue[s], t) /\ semQueue[s] \in Seq(Thread)
      /\ \A r \in SemId : r # s => semQueue'[r] = semQueue[r]
  BY <1>1 DEF SynchTypes
<1>3. /\ Append(semQueue[s], t) \in Seq(Thread) /\ Distinct(Append(semQueue[s], t))
      /\ ToSet(Append(semQueue[s], t)) = ToSet(semQueue[s]) \cup {t}
  <2>1. Distinct(semQueue[s]) /\ t \notin ToSet(semQueue[s])
    BY <1>1 DEF IInv, SemQueued
  <2> QED BY <1>2, <2>1, AppendDistinct
<1>4. SynchTypes'
  BY <1>1, <1>3 DEF SynchTypes, tables, Places
<1>5. SemQueued' /\ CondQueued'
  BY <1>2, <1>3 DEF IInv, SemQueued, CondQueued
<1>6. Pointing' /\ OneSemaphorePerKey' /\ Fresh' /\ Permits'
  BY <1>1, <1>2 DEF IInv, Pointing, OneSemaphorePerKey, Fresh, Permits, tables
<1>7. WithCare'
  <2> SUFFICES ASSUME careful' PROVE WithCare'
    BY DEF WithCare
  <2>1. NoStrandedPermit /\ machine' # "undefined"
    BY DEF IInv, WithCare
  <2>2. \A u \in Thread : where'[u] # "user" => target'[u] \in semaphoreArray'
    BY <1>2 DEF IInv, WithCare, tables
  <2>3. \A u \in Thread : where'[u] = "set" => Inside(target[u])' = {u} /\ target'[u] = target[u]
    <3> SUFFICES ASSUME NEW u \in Thread, where'[u] = "set"
                 PROVE  Inside(target[u])' = {u} /\ target'[u] = target[u]
      OBVIOUS
    <3>1. u # t /\ where[u] = "set" /\ Inside(target[u]) = {u} /\ target'[u] = target[u]
      BY <1>2 DEF IInv, WithCare
    <3>2. target[u] # s
      BY <3>1 DEF Inside
    <3> QED BY <1>2, <3>1, <3>2 DEF Inside
  <2>4. ASSUME NEW r \in semaphoreArray, semQueue'[r] # <<>>
        PROVE  value[r] <= Cardinality(Retrying(r)')
    <3>1. r \in SemId
      BY <1>1, Created
    <3>2. CASE r = s
      BY <3>2, ThreadsFinite DEF Retrying, Inside
    <3>3. CASE r # s
      <4>1. Retrying(r)' = Retrying(r)
        BY <1>1, <1>2, <3>1, <3>3, Identifiers DEF Retrying, Inside, IInv, Pointing
      <4> QED BY <1>2, <2>1, <2>4, <3>1, <3>3, <4>1 DEF NoStrandedPermit, Retrying
    <3> QED BY <3>2, <3>3
  <2>5. NoStrandedPermit'
    BY <2>4 DEF NoStrandedPermit, Retrying, tables
  <2> QED BY <2>1, <2>2, <2>3, <2>5 DEF WithCare
<1> QED BY <1>4, <1>5, <1>6, <1>7 DEF IInv

(* P, and what follows a sleep in P or Wait.                                *)
LEMMA PKeeps ==
  ASSUME IInv, NEW t \in Thread,
         \/ \E s \in SemId : P(t, s)
         \/ Retry(t) \/ CondResumes(t)
  PROVE  IInv'
<1>1. ASSUME NEW s \in SemId, P(t, s) PROVE IInv'
  <2>1. /\ careful' \in BOOLEAN /\ (careful' => careful)
        /\ careful' => \A u \in Inside(s) : where[u] # "set"
    BY <1>1, RulesKept DEF P, IInv, SynchTypes
  <2> QED BY <1>1, <2>1, TakeKeeps, WaitKeeps DEF P, TakeOrWait, Awake
<1>2. ASSUME NEW place \in {"retry", "woken"}, Resume(t, place) PROVE IInv'
  <2>1. /\ where[t] = place /\ UNCHANGED <<tables, condQueue, setting, careful>>
        /\ careful' \in BOOLEAN
    BY <1>2 DEF Resume, Awake, IInv, SynchTypes
  <2>2. CASE target[t] \in semaphoreArray /\ TakeOrWait(t, target[t])
    BY <2>1, <2>2, TakeKeeps, WaitKeeps DEF TakeOrWait
  <2>3. CASE /\ target[t] \notin semaphoreArray /\ machine' = "undefined"
             /\ UNCHANGED <<value, semQueue, where, target>>
    <3>1. ~careful'
      BY <2>1, <2>3 DEF IInv, WithCare
    <3>2. SynchTypes'
      BY <2>1, <2>3 DEF IInv, SynchTypes, tables
    <3>3. SemQueued' /\ CondQueued' /\ Permits'
      BY <2>1, <2>3, SameThreads DEF IInv
    <3>4. Pointing' /\ Fresh' /\ OneSemaphorePerKey'
      BY <2>1, <2>3 DEF IInv, Pointing, Fresh, OneSemaphorePerKey, tables
    <3> QED BY <3>1, <3>2, <3>3, <3>4 DEF IInv, WithCare
  <2> QED BY <1>2, <2>2, <2>3 DEF Resume
<1> QED BY <1>1, <1>2 DEF Retry, CondResumes

-----------------------------------------------------------------------------
(* List::Remove, called n times, takes the first n threads.                 *)
LEMMA Removed ==
  ASSUME NEW q \in Seq(Thread), Distinct(q), NEW n \in 0 .. Len(q)
  PROVE  /\ Rest(q, n) \in Seq(Thread) /\ Distinct(Rest(q, n))
         /\ First(q, n) \in SUBSET ToSet(q) /\ ToSet(q) \in SUBSET Thread
         /\ ToSet(Rest(q, n)) = ToSet(q) \ First(q, n)
<1>1. First(q, n) \in SUBSET ToSet(q) /\ ToSet(q) \in SUBSET Thread
  BY DEF First, ToSet
<1> QED BY <1>1, DropDistinct DEF Rest, First

(* It is called once for V and for Signal.                                  *)
LEMMA OneAtMost ==
  ASSUME NEW q \in Seq(Thread)
  PROVE  /\ AtMostOne(q) \in 0 .. Len(q)
         /\ q # <<>> => \E u \in Thread : First(q, AtMostOne(q)) = {u}
         /\ Rest(q, AtMostOne(q)) # <<>> => q # <<>>
<1>1. CASE q = <<>>
  BY <1>1 DEF AtMostOne, First, Rest
<1>2. CASE q # <<>>
  <2>1. Len(q) \in Nat /\ Len(q) >= 1 /\ q[1] \in Thread
    BY <1>2
  <2>2. First(q, 1) = {q[1]}
    BY DEF First
  <2> QED BY <1>2, <2>1, <2>2 DEF AtMostOne
<1> QED BY <1>1, <1>2

(* What V and Wait do to the semaphore: its first waiter leaves the queue.  *)
LEMMA ReleaseDoes ==
  ASSUME IInv, NEW s \in SemId, Release(s)
  PROVE  /\ Woken(s) \in SUBSET Thread
         /\ \A u \in Woken(s) : where[u] = "sem" /\ target[u] = s
         /\ semQueue' \in [SemId -> Seq(Thread)] /\ Distinct(semQueue'[s])
         /\ ToSet(semQueue'[s]) = ToSet(semQueue[s]) \ Woken(s)
         /\ \A r \in SemId : r # s => semQueue'[r] = semQueue[r]
         /\ semQueue'[s] # <<>> => semQueue[s] # <<>> /\ \E u \in Thread : Woken(s) = {u}
         /\ value' \in [SemId -> Int] /\ value'[s] = value[s] + 1 /\ value[s] \in Int
         /\ \A r \in SemId : r # s => value'[r] = value[r]
<1> DEFINE q == semQueue[s]
           n == AtMostOne(q)
<1>1. SynchTypes /\ q \in Seq(Thread) /\ Distinct(q) /\ n \in 0 .. Len(q)
  BY OneAtMost DEF IInv, SynchTypes, SemQueued
<1>2. /\ value' = [value EXCEPT ![s] = value[s] + 1]
      /\ semQueue' = [semQueue EXCEPT ![s] = Rest(q, n)]
      /\ Woken(s) = First(q, n)
  BY DEF Release, Woken, Wakes
<1>3. /\ Rest(q, n) \in Seq(Thread) /\ Distinct(Rest(q, n))
      /\ First(q, n) \in SUBSET ToSet(q) /\ ToSet(q) \in SUBSET Thread
      /\ ToSet(Rest(q, n)) = ToSet(q) \ First(q, n)
  BY <1>1, Removed
<1>4. Rest(q, n) # <<>> => q # <<>> /\ \E u \in Thread : First(q, n) = {u}
  BY <1>1, OneAtMost
<1>5. \A u \in ToSet(q) : u \in Thread => where[u] = "sem" /\ target[u] = s
  BY DEF IInv, SemQueued
<1> HIDE DEF q, n
<1>6. semQueue'[s] = Rest(q, n) /\ \A r \in SemId : r # s => semQueue'[r] = semQueue[r]
  BY <1>1, <1>2 DEF SynchTypes
<1>7. semQueue' \in [SemId -> Seq(Thread)]
  BY <1>1, <1>2, <1>3 DEF SynchTypes
<1>8. /\ value' \in [SemId -> Int] /\ value'[s] = value[s] + 1 /\ value[s] \in Int
      /\ \A r \in SemId : r # s => value'[r] = value[r]
  BY <1>1, <1>2 DEF SynchTypes
<1> QED BY <1>2, <1>3, <1>4, <1>5, <1>6, <1>7, <1>8 DEF q

(* What V and Wait leave of the invariant once the semaphore is released    *)
(* and t goes on, or falls asleep on a condition.                           *)
LEMMA ReleaseKeeps ==
  ASSUME IInv, NEW t \in Thread, NEW s \in semaphoreArray, Release(s),
         careful' \in BOOLEAN, careful' => careful,
         careful' => \A u \in Inside(s) : where[u] # "set",
         where[t] = "user", where'[t] \in {"user", "cond"},
         target'[t] = IF where'[t] = "user" THEN NoSem ELSE s,
         \A u \in Thread : u # t => where'[u] = IF u \in Woken(s) THEN "retry" ELSE where[u],
         \A u \in Thread : u # t => target'[u] = target[u],
         UNCHANGED <<tables, setting, machine>>
  PROVE  /\ SemQueued' /\ Pointing' /\ OneSemaphorePerKey' /\ Fresh' /\ Permits' /\ WithCare'
         /\ \A u \in Thread : u # t => (where'[u] = "cond" <=> where[u] = "cond")
         /\ value' \in [SemId -> Int] /\ semQueue' \in [SemId -> Seq(Thread)]
<1> DEFINE W == Woken(s)
<1>1. SynchTypes /\ s \in SemId /\ s \in 0 .. semaphoreIndex - 1
  BY Created DEF IInv
<1>2. /\ W \in SUBSET Thread /\ t \notin W
      /\ \A u \in W : where[u] = "sem" /\ target[u] = s
      /\ semQueue' \in [SemId -> Seq(Thread)] /\ Distinct(semQueue'[s])
      /\ ToSet(semQueue'[s]) = ToSet(semQueue[s]) \ W
      /\ \A r \in SemId : r # s => semQueue'[r] = semQueue[r]
      /\ semQueue'[s] # <<>> => semQueue[s] # <<>> /\ \E u \in Thread : W = {u}
      /\ value' \in [SemId -> Int] /\ value'[s] = value[s] + 1 /\ value[s] \in Int
      /\ \A r \in SemId : r # s => value'[r] = value[r]
  BY <1>1, ReleaseDoes
<1>3. \A u \in Thread : u # t => where'[u] = IF u \in W THEN "retry" ELSE where[u]
  OBVIOUS
<1> HIDE DEF W
<1>4. SemQueued'
  <2> SUFFICES ASSUME NEW r \in SemId
               PROVE  /\ Distinct(semQueue'[r])
                      /\ \A u \in Thread : u \in ToSet(semQueue'[r])
                                             <=> where'[u] = "sem" /\ target'[u] = r
    BY DEF SemQueued
  <2>1. /\ Distinct(semQueue[r])
        /\ \A u \in Thread : u \in ToSet(semQueue[r]) <=> where[u] = "sem" /\ target[u] = r
    BY DEF IInv, SemQueued
  <2>2. CASE r = s
    BY <1>2, <1>3, <2>1, <2>2
  <2>3. CASE r # s
    BY SMTT(30), <1>2, <1>3, <2>1, <2>3
  <2> QED BY <2>2, <2>3
<1>5. Pointing' /\ OneSemaphorePerKey'
  <2>1. OneSemaphorePerKey' /\ semaphoreIndex' = semaphoreIndex
    BY DEF IInv, OneSemaphorePerKey, tables
  <2>2. ASSUME NEW u \in Thread
        PROVE  IF where'[u] = "user" THEN target'[u] = NoSem
               ELSE target'[u] \in 0 .. semaphoreIndex - 1
    <3>1. CASE u = t
      BY <1>1, <3>1
    <3>2. CASE u # t
      <4>1. /\ target'[u] = target[u] /\ where'[u] = IF u \in W THEN "retry" ELSE where[u]
            /\ IF where[u] = "user" THEN target[u] = NoSem
               ELSE target[u] \in 0 .. semaphoreIndex - 1
        BY <1>3, <3>2 DEF IInv, Pointing
      <4> QED BY <1>1, <1>2, <4>1
    <3> QED BY <3>1, <3>2
  <2> QED BY <2>1, <2>2 DEF Pointing
<1>6. Fresh'
  <2>1. \A r \in SemId : r >= semaphoreIndex => r # s
    BY <1>1, Identifiers DEF SynchTypes
  <2> QED BY <1>2, <2>1 DEF IInv, Fresh, tables
<1>7. Permits'
  <2> SUFFICES ASSUME SetValues \subseteq Nat PROVE value' \in [SemId -> Nat]
    BY DEF Permits
  <2>1. value \in [SemId -> Nat]
    BY DEF IInv, Permits
  <2>2. ASSUME NEW r \in SemId PROVE value'[r] \in Nat
    <3>1. value[r] \in Nat
      BY <2>1
    <3>2. value[s] \in Nat
      BY <1>1, <2>1
    <3>3. CASE r = s
      BY <1>2, <3>2, <3>3
    <3> QED BY <1>2, <3>1, <3>3
  <2> QED BY <1>2, <2>2
<1>8. WithCare'
  <2> SUFFICES ASSUME careful' PROVE WithCare'
    BY DEF WithCare
  <2>1. NoStrandedPermit /\ machine' # "undefined"
    BY DEF IInv, WithCare
  <2>2. \A u \in Thread : where'[u] # "user" => target'[u] \in semaphoreArray'
    BY <1>2, <1>3 DEF IInv, WithCare, tables
  <2>3. \A u \in Thread : where'[u] = "set" => Inside(target[u])' = {u} /\ target'[u] = target[u]
    <3> SUFFICES ASSUME NEW u \in Thread, where'[u] = "set"
                 PROVE  Inside(target[u])' = {u} /\ target'[u] = target[u]
      OBVIOUS
    <3>1. u # t /\ where[u] = "set" /\ Inside(target[u]) = {u} /\ target'[u] = target[u]
      BY <1>3 DEF IInv, WithCare
    <3>2. target[u] # s /\ target[u] # NoSem
      BY <3>1, Created, Identifiers DEF Inside, IInv, WithCare
    <3> QED BY <1>2, <3>1, <3>2 DEF Inside
  <2>4. ASSUME NEW r \in semaphoreArray, semQueue'[r] # <<>>
        PROVE  value'[r] <= Cardinality(Retrying(r)')
    <3>1. r \in SemId /\ target[t] = NoSem /\ NoSem # r
      BY <1>1, Created, Identifiers DEF IInv, Pointing
    <3>2. CASE r = s
      <4>1. PICK w \in Thread : W = {w}
        BY <1>2, <2>4, <3>2
      <4>2. Retrying(r)' = Retrying(r) \cup {w} /\ w \notin Retrying(r)
        <5>1. w # t /\ where[w] = "sem" /\ target[w] = r
          BY <1>2, <3>2, <4>1
        <5>2. \A u \in Thread : u # t => (target'[u] = r /\ where'[u] = "retry"
                                           <=> u = w \/ (target[u] = r /\ where[u] = "retry"))
          BY <1>3, <4>1, <5>1
        <5>3. where'[t] # "retry" /\ target[t] # r
          BY <3>1
        <5> QED BY <5>1, <5>2, <5>3 DEF Retrying, Inside
      <4>3. /\ IsFiniteSet(Retrying(r)) /\ Cardinality(Retrying(r)) \in Nat
            /\ value[r] <= Cardinality(Retrying(r))
        BY <1>2, <2>1, <2>4, <3>2, ThreadsFinite DEF Retrying, Inside, NoStrandedPermit
      <4>4. Cardinality(Retrying(r) \cup {w}) = Cardinality(Retrying(r)) + 1
        BY <4>2, <4>3, FS_AddElement
      <4> QED BY <1>2, <3>2, <4>2, <4>3, <4>4
    <3>3. CASE r # s
      <4>1. \A u \in Thread : target'[u] = r /\ where'[u] = "retry"
                                 <=> target[u] = r /\ where[u] = "retry"
        BY <1>2, <1>3, <3>1, <3>3
      <4>2. Retrying(r)' = Retrying(r)
        BY <4>1 DEF Retrying, Inside
      <4> QED BY <1>2, <2>1, <2>4, <3>1, <3>3, <4>2 DEF NoStrandedPermit, Retrying
    <3> QED BY <3>2, <3>3
  <2>5. NoStrandedPermit'
    BY <2>4 DEF NoStrandedPermit, Retrying, tables
  <2> QED BY <2>1, <2>2, <2>3, <2>5 DEF WithCare
<1> QED BY <1>2, <1>3, <1>4, <1>5, <1>6, <1>7, <1>8

(* V readies the first waiter, which tests the value again when it runs.    *)
LEMMA VKeeps ==
  ASSUME IInv, NEW t \in Thread, NEW s \in SemId, V(t, s)
  PROVE  IInv'
<1>1. /\ where[t] = "user" /\ s \in semaphoreArray /\ Using(s) /\ Release(s)
      /\ where' = [u \in Thread |-> IF u \in Woken(s) THEN "retry" ELSE where[u]]
      /\ UNCHANGED <<tables, condQueue, target, setting, machine>>
      /\ SynchTypes /\ Woken(s) \in SUBSET Thread
      /\ \A u \in Woken(s) : where[u] = "sem"
  BY ReleaseDoes DEF V, Awake, IInv
<1>6. careful' \in BOOLEAN /\ (careful' => careful /\ \A u \in Inside(s) : where[u] # "set")
  BY <1>1, RulesKept DEF SynchTypes
<1>2. /\ where'[t] = "user" /\ target'[t] = NoSem
      /\ \A u \in Thread : u # t => where'[u] = IF u \in Woken(s) THEN "retry" ELSE where[u]
      /\ \A u \in Thread : u # t => target'[u] = target[u]
  BY <1>1 DEF IInv, Pointing
<1>3. /\ SemQueued' /\ Pointing' /\ OneSemaphorePerKey' /\ Fresh' /\ Permits' /\ WithCare'
      /\ \A u \in Thread : u # t => (where'[u] = "cond" <=> where[u] = "cond")
      /\ value' \in [SemId -> Int] /\ semQueue' \in [SemId -> Seq(Thread)]
  <2>1. where'[t] \in {"user", "cond"}
    BY <1>2
  <2>2. target'[t] = IF where'[t] = "user" THEN NoSem ELSE s
    BY <1>2
  <2>3. UNCHANGED <<tables, setting, machine>>
    BY <1>1
  <2> QED BY <1>1, <1>2, <1>6, <2>1, <2>2, <2>3, ReleaseKeeps
<1>4. SynchTypes'
  <2>1. where' \in [Thread -> Places]
    BY <1>1 DEF SynchTypes, Places
  <2> QED BY <1>1, <1>3, <1>6, <2>1 DEF SynchTypes, tables
<1>5. CondQueued'
  BY <1>1, <1>2, <1>3 DEF IInv, CondQueued
<1> QED BY <1>3, <1>4, <1>5 DEF IInv

(* Wait puts the thread on the queue of the condition and releases.         *)
LEMMA CondWaitKeeps ==
  ASSUME IInv, NEW t \in Thread, NEW c \in CondId, NEW s \in SemId, CondWait(t, c, s)
  PROVE  IInv'
<1>1. /\ where[t] = "user" /\ s \in semaphoreArray /\ Using(s) /\ Release(s)
      /\ condQueue' = [condQueue EXCEPT ![c] = Append(condQueue[c], t)]
      /\ where' = [u \in Thread |-> IF u = t THEN "cond"
                                    ELSE IF u \in Woken(s) THEN "retry" ELSE where[u]]
      /\ target' = [target EXCEPT ![t] = s]
      /\ UNCHANGED <<tables, setting, machine>>
      /\ SynchTypes
  BY DEF CondWait, Awake, IInv
<1>8. careful' \in BOOLEAN /\ (careful' => careful /\ \A u \in Inside(s) : where[u] # "set")
  BY <1>1, RulesKept DEF SynchTypes
<1>2. /\ where'[t] = "cond" /\ target'[t] = s
      /\ \A u \in Thread : u # t => where'[u] = IF u \in Woken(s) THEN "retry" ELSE where[u]
      /\ \A u \in Thread : u # t => target'[u] = target[u]
  BY <1>1 DEF SynchTypes
<1>3. /\ SemQueued' /\ Pointing' /\ OneSemaphorePerKey' /\ Fresh' /\ Permits' /\ WithCare'
      /\ \A u \in Thread : u # t => (where'[u] = "cond" <=> where[u] = "cond")
      /\ value' \in [SemId -> Int] /\ semQueue' \in [SemId -> Seq(Thread)]
  <2>1. where'[t] \in {"user", "cond"}
    BY <1>2
  <2>2. target'[t] = IF where'[t] = "user" THEN NoSem ELSE s
    BY <1>2
  <2> QED BY <1>1, <1>2, <1>8, <2>1, <2>2, ReleaseKeeps
<1>4. /\ Append(condQueue[c], t) \in Seq(Thread) /\ Distinct(Append(condQueue[c], t))
      /\ ToSet(Append(condQueue[c], t)) = ToSet(condQueue[c]) \cup {t}
  <2>1. condQueue[c] \in Seq(Thread) /\ Distinct(condQueue[c]) /\ t \notin ToSet(condQueue[c])
    BY <1>1 DEF IInv, CondQueued, SynchTypes
  <2> QED BY <2>1, AppendDistinct
<1>5. condQueue'[c] = Append(condQueue[c], t) /\ \A d \in CondId : d # c => condQueue'[d] = condQueue[d]
  BY <1>1 DEF SynchTypes
<1>6. SynchTypes'
  <2>1. where' \in [Thread -> Places]
    BY <1>1 DEF SynchTypes, Places
  <2>2. target' \in [Thread -> SemId \cup {NoSem}] /\ condQueue' \in [CondId -> Seq(Thread)]
    BY <1>1, <1>4 DEF SynchTypes
  <2> QED BY <1>1, <1>3, <1>8, <2>1, <2>2 DEF SynchTypes, tables
<1>7. CondQueued'
  <2>1. \A d \in CondId : t \notin ToSet(condQueue[d])
    BY <1>1 DEF IInv, CondQueued
  <2>2. \A d \in CondId : \A u \in Thread :
          u \in ToSet(condQueue'[d]) <=> (IF u = t THEN d = c ELSE u \in ToSet(condQueue[d]))
    BY <1>4, <1>5, <2>1
  <2>3. \A d \in CondId : Distinct(condQueue'[d])
    BY <1>4, <1>5 DEF IInv, CondQueued
  <2> QED BY SMTT(30), ZenonT(30), <1>2, <1>3, <2>2, <2>3 DEF IInv, CondQueued
<1> QED BY <1>3, <1>6, <1>7 DEF IInv

(* Signal and Broadcast take waiters off the queue and ready them.          *)
LEMMA AwakenKeeps ==
  ASSUME IInv, NEW c \in CondId, NEW n \in 0 .. Len(condQueue[c]), CondAwaken(c, n),
         UNCHANGED <<tables, value, semQueue, target, setting, machine, careful>>
  PROVE  IInv'
<1> DEFINE F == First(condQueue[c], n)
<1>1. SynchTypes /\ condQueue[c] \in Seq(Thread) /\ Distinct(condQueue[c])
  BY DEF IInv, SynchTypes, CondQueued
<1>2. /\ Rest(condQueue[c], n) \in Seq(Thread) /\ Distinct(Rest(condQueue[c], n))
      /\ F \in SUBSET ToSet(condQueue[c]) /\ ToSet(condQueue[c]) \in SUBSET Thread
      /\ ToSet(Rest(condQueue[c], n)) = ToSet(condQueue[c]) \ F
  BY <1>1, Removed
<1>3. /\ where' = [u \in Thread |-> IF u \in F THEN "woken" ELSE where[u]]
      /\ condQueue' = [condQueue EXCEPT ![c] = Rest(condQueue[c], n)]
  BY DEF CondAwaken
<1> HIDE DEF F
<1>4. \A u \in F : u \in Thread /\ where[u] = "cond"
  BY <1>2 DEF IInv, CondQueued
<1>5. /\ condQueue'[c] = Rest(condQueue[c], n)
      /\ \A d \in CondId : d # c => condQueue'[d] = condQueue[d]
      /\ \A u \in Thread : where'[u] = IF u \in F THEN "woken" ELSE where[u]
  BY <1>1, <1>3 DEF SynchTypes
<1>6. SynchTypes'
  <2>1. where' \in [Thread -> Places] /\ condQueue' \in [CondId -> Seq(Thread)]
    BY <1>1, <1>2, <1>3 DEF SynchTypes, Places
  <2> QED BY <1>1, <2>1 DEF SynchTypes, tables
<1>7. SemQueued'
  BY <1>4, <1>5 DEF IInv, SemQueued
<1>8. CondQueued'
  <2>1. \A d \in CondId : \A u \in Thread :
          u \in ToSet(condQueue'[d]) <=> u \in ToSet(condQueue[d]) /\ u \notin F
    BY <1>2, <1>5 DEF IInv, CondQueued
  <2>2. \A d \in CondId : Distinct(condQueue'[d])
    BY <1>2, <1>5 DEF IInv, CondQueued
  <2> QED BY <1>5, <2>1, <2>2 DEF IInv, CondQueued
<1>9. Pointing' /\ OneSemaphorePerKey' /\ Fresh' /\ Permits'
  BY <1>4, <1>5 DEF IInv, Pointing, OneSemaphorePerKey, Fresh, Permits, tables
<1>10. \A s \in SemId : Inside(s)' = Inside(s) /\ Retrying(s)' = Retrying(s)
  BY <1>4, <1>5 DEF Inside, Retrying
<1>11. WithCare'
  <2> SUFFICES ASSUME careful' PROVE WithCare'
    BY DEF WithCare
  <2>1. machine' # "undefined" /\ \A u \in Thread : where'[u] # "user" => target'[u] \in semaphoreArray'
    BY <1>4, <1>5 DEF IInv, WithCare, tables
  <2>2. \A u \in Thread : where'[u] = "set" => Inside(target[u])' = {u}
    BY <1>5 DEF IInv, WithCare, Inside
  <2>3. NoStrandedPermit'
    BY <1>1, <1>10, Created DEF IInv, WithCare, NoStrandedPermit, Retrying, tables
  <2> QED BY <2>1, <2>2, <2>3 DEF WithCare
<1> QED BY <1>6, <1>7, <1>8, <1>9, <1>11 DEF IInv

(* Signal and Broadcast.                                                    *)
LEMMA SignalKeeps ==
  ASSUME IInv, NEW t \in Thread, NEW c \in CondId, Signal(t, c) \/ Broadcast(t, c)
  PROVE  IInv'
<1>1. condQueue[c] \in Seq(Thread) /\ Len(condQueue[c]) \in 0 .. Len(condQueue[c])
  BY DEF IInv, SynchTypes
<1>2. AtMostOne(condQueue[c]) \in 0 .. Len(condQueue[c])
  BY <1>1, OneAtMost
<1> QED BY <1>1, <1>2, AwakenKeeps DEF Signal, Broadcast

-----------------------------------------------------------------------------
(* SYNCH_SET stores the value at once, or after a page fault.               *)
LEMMA SemSetKeeps ==
  ASSUME IInv, NEW t \in Thread, NEW s \in SemId, NEW v \in SetValues, SemSet(t, s, v)
  PROVE  IInv'
<1>1. /\ SynchTypes /\ where[t] = "user" /\ s \in semaphoreArray /\ Changing(s)
      /\ UNCHANGED <<tables, semQueue, condQueue, machine>>
      /\ s \in 0 .. semaphoreIndex - 1 /\ v \in Int
  BY Created, SynchAssumption DEF SemSet, Awake, IInv, SynchAssumption
<1>2. /\ careful' \in BOOLEAN /\ (careful' => careful)
      /\ careful' => \A u \in Thread : target[u] # s
  BY <1>1, RulesKept DEF SynchTypes, Inside
<1>3. CASE value' = [value EXCEPT ![s] = v] /\ UNCHANGED <<where, target, setting>>
  <2>1. SynchTypes'
    BY <1>1, <1>2, <1>3 DEF SynchTypes, tables
  <2>2. SemQueued' /\ CondQueued' /\ Pointing' /\ OneSemaphorePerKey' /\ Permits'
    BY <1>1, <1>3 DEF IInv, SemQueued, CondQueued, Pointing, OneSemaphorePerKey, Permits, tables
  <2>3. Fresh'
    <3>1. \A r \in SemId : r >= semaphoreIndex => r # s
      BY <1>1, Identifiers DEF SynchTypes
    <3> QED BY <1>1, <1>3, <3>1 DEF IInv, Fresh, tables, SynchTypes
  <2>4. ASSUME careful' PROVE NoStrandedPermit'
    <3>1. semQueue[s] = <<>>
      <4>1. semQueue[s] \in Seq(Thread) /\ \A u \in Thread : u \notin ToSet(semQueue[s])
        BY <1>1, <1>2, <2>4 DEF IInv, SynchTypes, SemQueued
      <4> QED BY <4>1 DEF ToSet
    <3> QED BY <1>1, <1>2, <1>3, <2>4, <3>1, Created DEF IInv, WithCare, NoStrandedPermit, Inside, tables,
                                                  SynchTypes
  <2>5. WithCare'
    BY <1>1, <1>2, <1>3, <2>4 DEF IInv, WithCare, Inside, tables
  <2> QED BY <2>1, <2>2, <2>3, <2>5 DEF IInv
<1>4. CASE /\ where' = [where EXCEPT ![t] = "set"]
           /\ target' = [target EXCEPT ![t] = s]
           /\ setting' = [setting EXCEPT ![t] = v]
           /\ UNCHANGED value
  <2>1. /\ where'[t] = "set" /\ target'[t] = s
        /\ \A u \in Thread : u # t => where'[u] = where[u] /\ target'[u] = target[u]
    BY <1>1, <1>4 DEF SynchTypes
  <2>2. SynchTypes'
    BY <1>1, <1>2, <1>4 DEF SynchTypes, tables, Places
  <2>3. SemQueued' /\ CondQueued'
    BY <1>1, <2>1 DEF IInv, SemQueued, CondQueued
  <2>4. Pointing' /\ OneSemaphorePerKey' /\ Fresh' /\ Permits'
    BY <1>1, <1>4, <2>1 DEF IInv, Pointing, OneSemaphorePerKey, Fresh, Permits, tables
  <2>5. ASSUME careful' PROVE WithCare'
    <3>1. machine' # "undefined" /\ \A u \in Thread : where'[u] # "user" => target'[u] \in semaphoreArray'
      BY <1>1, <1>2, <2>1, <2>5 DEF IInv, WithCare, tables
    <3>2. \A u \in Thread : where'[u] = "set" => Inside(target[u])' = {u}
      <4> SUFFICES ASSUME NEW u \in Thread, where'[u] = "set" PROVE Inside(target[u])' = {u}
        OBVIOUS
      <4>1. CASE u = t
        BY <1>2, <2>1, <2>5, <4>1 DEF Inside
      <4>2. CASE u # t
        <5>1. where[u] = "set" /\ Inside(target[u]) = {u} /\ target'[u] = target[u]
          BY <1>2, <2>1, <2>5, <4>2 DEF IInv, WithCare
        <5>2. target[u] # s
          BY <1>2, <2>5
        <5> QED BY <2>1, <5>1, <5>2 DEF Inside
      <4> QED BY <4>1, <4>2
    <3>3. \A r \in SemId : Retrying(r)' = Retrying(r)
      BY <1>1, <2>1 DEF Retrying, Inside
    <3>4. NoStrandedPermit'
      BY <1>1, <1>2, <1>4, <2>5, <3>3, Created DEF IInv, WithCare, NoStrandedPermit, Retrying, tables
    <3> QED BY <3>1, <3>2, <3>4 DEF WithCare
  <2> QED BY <2>2, <2>3, <2>4, <2>5 DEF IInv, WithCare
<1> QED BY <1>3, <1>4 DEF SemSet

(* The page is there, and the value is stored in what the table holds.      *)
LEMMA SetResumesKeeps ==
  ASSUME IInv, NEW t \in Thread, SetResumes(t)
  PROVE  IInv'
<1> DEFINE s == target[t]
<1>1. SynchTypes /\ where[t] = "set" /\ UNCHANGED <<tables, semQueue, condQueue, careful>>
  BY DEF SetResumes, Awake, IInv
<1>2. CASE /\ s \in semaphoreArray
           /\ value' = [value EXCEPT ![s] = setting[t]]
           /\ where' = [where EXCEPT ![t] = "user"]
           /\ target' = [target EXCEPT ![t] = NoSem]
           /\ setting' = [setting EXCEPT ![t] = 0]
           /\ UNCHANGED machine
  <2>1. /\ s \in SemId /\ s \in 0 .. semaphoreIndex - 1 /\ NoSem # s
        /\ setting[t] \in SetValues \cup {0} /\ setting[t] \in Int
    <3>1. s \in SemId /\ s \in 0 .. semaphoreIndex - 1
      BY <1>1, <1>2, Created
    <3>2. setting[t] \in SetValues \cup {0}
      BY <1>1 DEF SynchTypes
    <3>3. NoSem # s
      BY <3>1, Identifiers
    <3>4. \A v \in SetValues \cup {0} : v \in Int
      BY SynchAssumption DEF SynchAssumption
    <3> QED BY <3>1, <3>2, <3>3, <3>4
  <2> HIDE DEF s
  <2>2. /\ where'[t] = "user" /\ target'[t] = NoSem
        /\ \A u \in Thread : u # t => where'[u] = where[u] /\ target'[u] = target[u]
        /\ \A r \in SemId : r # s => value'[r] = value[r]
    BY <1>1, <1>2, <2>1 DEF SynchTypes
  <2>3. SynchTypes'
    BY <1>1, <1>2, <2>1 DEF SynchTypes, tables, Places
  <2>4. SemQueued' /\ CondQueued'
    BY <1>1, <2>2 DEF IInv, SemQueued, CondQueued
  <2>5. Pointing' /\ OneSemaphorePerKey'
    BY <1>1, <2>2 DEF IInv, Pointing, OneSemaphorePerKey, tables
  <2>6. Fresh'
    <3>1. \A r \in SemId : r >= semaphoreIndex => r # s
      BY <1>1, <2>1, Identifiers DEF SynchTypes
    <3> QED BY <1>1, <2>2, <3>1 DEF IInv, Fresh, tables
  <2>7. Permits'
    BY <1>2, <2>1 DEF IInv, Permits
  <2>8. ASSUME careful PROVE WithCare'
    <3>1. machine' # "undefined" /\ \A u \in Thread : where'[u] # "user" => target'[u] \in semaphoreArray'
      BY <1>1, <1>2, <2>2, <2>8 DEF IInv, WithCare, tables
    <3>2. \A u \in Thread : target[u] = s <=> u = t
      BY <1>1, <2>8 DEF IInv, WithCare, Inside, s
    <3>3. \A u \in Thread : where'[u] = "set" => Inside(target[u])' = {u}
      <4> SUFFICES ASSUME NEW u \in Thread, where'[u] = "set" PROVE Inside(target[u])' = {u}
        OBVIOUS
      <4>1. /\ u # t /\ where[u] = "set" /\ Inside(target[u]) = {u} /\ target'[u] = target[u]
            /\ target[u] # NoSem
        BY <2>2, <2>8, Created, Identifiers DEF IInv, WithCare
      <4> QED BY <2>2, <4>1 DEF Inside
    <3>4. semQueue[s] = <<>>
      <4>1. semQueue[s] \in Seq(Thread) /\ \A u \in Thread : u \notin ToSet(semQueue[s])
        BY <1>1, <2>1, <3>2 DEF IInv, SynchTypes, SemQueued
      <4> QED BY <4>1 DEF ToSet
    <3>5. \A r \in SemId : Retrying(r)' = Retrying(r)
      BY <1>1, <2>1, <2>2, Identifiers DEF Retrying, Inside
    <3>6. NoStrandedPermit'
      BY <1>1, <2>2, <2>8, <3>4, <3>5, Created DEF IInv, WithCare, NoStrandedPermit, Retrying, tables
    <3> QED BY <3>1, <3>3, <3>6 DEF WithCare
  <2>9. careful' = careful
    BY <1>1
  <2>10. WithCare'
    BY <2>8, <2>9 DEF WithCare
  <2> QED BY <2>3, <2>4, <2>5, <2>6, <2>7, <2>10 DEF IInv
<1>3. CASE s \notin semaphoreArray /\ machine' = "undefined" /\ UNCHANGED <<value, where, target, setting>>
  <2>1. ~careful /\ ~careful'
    BY <1>1, <1>3 DEF IInv, WithCare
  <2>2. SynchTypes'
    BY <1>1, <1>3 DEF SynchTypes, tables
  <2>3. SemQueued' /\ CondQueued' /\ Permits'
    BY <1>1, <1>3, SameThreads DEF IInv
  <2>4. Pointing' /\ Fresh' /\ OneSemaphorePerKey'
    BY <1>1, <1>3 DEF IInv, Pointing, Fresh, OneSemaphorePerKey, tables
  <2> QED BY <2>1, <2>2, <2>3, <2>4 DEF IInv, WithCare
<1> QED BY <1>2, <1>3 DEF SetResumes

(* SYNCH_REMOVE of a semaphore that, by the rules, nobody is in.            *)
LEMMA SemRemoveKeeps ==
  ASSUME IInv, NEW t \in Thread, NEW s \in SemId, SemRemove(t, s)
  PROVE  IInv'
<1>1. /\ SynchTypes /\ semaphoreArray' = semaphoreArray \ {s}
      /\ UNCHANGED <<semaphoreIndex, semaphoreKeys, conditionIndex, conditionArray,
                     conditionKeys, value, semQueue, condQueue, where, target, setting, machine>>
      /\ Changing(s) /\ careful \in BOOLEAN
  BY DEF IInv, SemRemove, SynchTypes
<1>6. careful' \in BOOLEAN /\ (careful' => careful /\ Inside(s) = {})
  BY <1>1, RulesKept
<1>2. SynchTypes'
  BY <1>1, <1>6 DEF SynchTypes
<1>3. SemQueued' /\ CondQueued' /\ Permits' /\ \A r \in SemId : Inside(r)' = Inside(r)
  BY <1>1, SameThreads DEF IInv
<1>4. Pointing' /\ Fresh' /\ OneSemaphorePerKey'
  BY <1>1 DEF IInv, Pointing, Fresh, OneSemaphorePerKey
<1>5. ASSUME careful' PROVE WithCare'
  <2>1. \A u \in Thread : target[u] # s
    BY <1>5, <1>6 DEF Inside
  <2>2. machine' # "undefined" /\ \A u \in Thread : where'[u] # "user" => target'[u] \in semaphoreArray'
    BY <1>1, <1>5, <1>6, <2>1 DEF IInv, WithCare
  <2>3. \A u \in Thread : where'[u] = "set" => Inside(target[u])' = {u}
    BY <1>1, <1>5, <1>6 DEF IInv, WithCare, Inside
  <2>4. NoStrandedPermit'
    BY <1>1, <1>3, <1>5, <1>6 DEF IInv, WithCare, NoStrandedPermit, Inside
  <2> QED BY <2>2, <2>3, <2>4 DEF WithCare
<1> QED BY <1>2, <1>3, <1>4, <1>5 DEF IInv, WithCare

(* Every step keeps the invariant.                                          *)
LEMMA NextKeeps == ASSUME IInv, [SynchNext]_synch PROVE IInv'
<1>1. CASE UNCHANGED synch
  <2>1. SemQueued' /\ CondQueued' /\ Permits'
    BY <1>1, SameThreads DEF IInv, synch
  <2>2. SynchTypes' /\ Pointing' /\ Fresh' /\ OneSemaphorePerKey' /\ WithCare'
    BY <1>1 DEF IInv, synch, tables, SynchTypes, Pointing, Fresh, OneSemaphorePerKey, WithCare,
                NoStrandedPermit, Inside
  <2> QED BY <2>1, <2>2 DEF IInv
<1>2. ASSUME NEW t \in Thread, NEW k \in Keys, SemGet(t, k) \/ CondGet(t, k) \/ GetAborts(t, k)
      PROVE  IInv'
  BY <1>2, SemGetKeeps, CondTableKeeps
<1>3. ASSUME NEW t \in Thread, NEW s \in SemId, P(t, s) \/ V(t, s) \/ SemRemove(t, s)
      PROVE  IInv'
  BY <1>3, PKeeps, VKeeps, SemRemoveKeeps
<1>4. ASSUME NEW t \in Thread, NEW s \in SemId, NEW v \in SetValues, SemSet(t, s, v)
      PROVE  IInv'
  BY <1>4, SemSetKeeps
<1>5. ASSUME NEW t \in Thread, NEW c \in CondId, NEW s \in SemId, CondWait(t, c, s)
      PROVE  IInv'
  BY <1>5, CondWaitKeeps
<1>6. ASSUME NEW t \in Thread, NEW c \in CondId,
             Signal(t, c) \/ Broadcast(t, c) \/ CondRemove(t, c)
      PROVE  IInv'
  BY <1>6, SignalKeeps, CondTableKeeps
<1>7. ASSUME NEW t \in Thread, Retry(t) \/ CondResumes(t) \/ SetResumes(t)
      PROVE  IInv'
  BY <1>7, PKeeps, SetResumesKeeps
<1> QED BY <1>1, <1>2, <1>3, <1>4, <1>5, <1>6, <1>7 DEF SynchNext, Ended

(* The invariant of every run, whatever the programs do.                    *)
THEOREM SynchInvariant == SynchSpec => []IInv
<1> QED BY InitIInv, NextKeeps, PTL DEF SynchSpec

(* What SynchTypeOK says of the queues follows from the invariant.          *)
LEMMA QueuesTell == ASSUME IInv PROVE OneQueue
<1>1. \A s \in SemId : /\ IsInjective(semQueue[s])
                       /\ ToSet(semQueue[s]) = {t \in Inside(s) : where[t] = "sem"}
  <2> SUFFICES ASSUME NEW s \in SemId
               PROVE  /\ IsInjective(semQueue[s])
                      /\ ToSet(semQueue[s]) = {t \in Inside(s) : where[t] = "sem"}
    OBVIOUS
  <2>1. semQueue[s] \in Seq(Thread) /\ Distinct(semQueue[s])
    BY DEF IInv, SynchTypes, SemQueued
  <2>2. ToSet(semQueue[s]) \subseteq Thread
    BY <2>1 DEF ToSet
  <2> QED BY <2>1, <2>2 DEF IInv, SemQueued, Inside, IsInjective, Distinct
<1>2. \A c \in CondId : IsInjective(condQueue[c])
  BY DEF IInv, CondQueued, IsInjective, Distinct
<1>3. ASSUME NEW t \in Thread
      PROVE  Cardinality({c \in CondId : t \in ToSet(condQueue[c])})
               = IF where[t] = "cond" THEN 1 ELSE 0
  <2> DEFINE C == {c \in CondId : t \in ToSet(condQueue[c])}
  <2>1. CASE where[t] = "cond"
    <3>1. PICK c \in CondId : t \in ToSet(condQueue[c])
      BY <2>1 DEF IInv, CondQueued
    <3>2. C = {c}
      BY <3>1 DEF IInv, CondQueued
    <3> QED BY <2>1, <3>2, FS_Singleton
  <2>2. CASE where[t] # "cond"
    <3>1. C = {}
      BY <2>2 DEF IInv, CondQueued
    <3> QED BY <2>2, <3>1, FS_EmptySet
  <2> QED BY <2>1, <2>2
<1> QED BY <1>1, <1>2, <1>3 DEF OneQueue

(* The tables and the queues are well formed, whatever programs do: a       *)
(* thread is on one queue at most, exactly while it sleeps, and two threads *)
(* that get one key share one semaphore.                                    *)
THEOREM TablesAreSound == SynchSpec => []SynchTypeOK
<1>1. IInv => SynchTypeOK
  BY QueuesTell DEF IInv, SynchTypeOK
<1> QED BY <1>1, SynchInvariant, PTL

(* P and V as long as programs keep the rules: while a thread sleeps in P,  *)
(* every permit has a woken thread that will come for it.                   *)
THEOREM PermitsNotStranded == SynchSpec => []NoStrandedPermit
<1>1. IInv => NoStrandedPermit
  BY DEF IInv, WithCare, NoStrandedPermit
<1> QED BY <1>1, SynchInvariant, PTL

-----------------------------------------------------------------------------
(* The abstract state: the permits of each semaphore that exists, and what  *)
(* each thread waits for.                                                   *)
Free == [s \in semaphoreArray |-> value[s]]
Waiting == [t \in Thread |-> IF where[t] \in {"sem", "retry", "cond", "woken"}
                             THEN target[t] ELSE NoSem]

AbstractStep == Abstract!SemaphoreNext \/ UNCHANGED <<Free, Waiting>>

(* A rule that is broken stays broken.                                      *)
LEMMA OnceBroken == ASSUME IInv, [SynchNext]_synch, careful' PROVE careful
<1>1. careful \in BOOLEAN
  BY DEF IInv, SynchTypes
<1>2. CASE UNCHANGED careful
  BY <1>2
<1>3. CASE \E s \in SemId : Changing(s) \/ Using(s)
  BY <1>1, <1>3, RulesKept
<1> QED
  BY <1>2, <1>3 DEF SynchNext, Ended, synch, SemGet, CondGet, GetAborts, P, V, SemRemove, SemSet,
                    CondWait, Signal, Broadcast, CondRemove, Retry, CondResumes, Resume, SetResumes

(* Who waits for a semaphore is inside of an operation on it.               *)
LEMMA WaitersInside ==
  ASSUME NEW s \in SemId
  PROVE  /\ Abstract!Waiters(s) \subseteq Inside(s)
         /\ \A t \in Abstract!Waiters(s) : where[t] # "set"
BY Identifiers DEF Abstract!Waiters, Inside

(* SemGet creates.                                                          *)
LEMMA SemGetCreates ==
  ASSUME IInv, NEW t \in Thread, NEW k \in Keys, SemGet(t, k)
  PROVE  AbstractStep
<1>0. PICK i \in SemId : i = semaphoreIndex
  BY DEF IInv, SynchTypes
<1>1. /\ SynchTypes /\ i \in Nat
      /\ semaphoreArray' = semaphoreArray \cup {i} /\ UNCHANGED <<value, where, target>>
  BY <1>0, Identifiers DEF SemGet, IInv, SynchTypes
<1>2. i \notin semaphoreArray /\ Inside(i) = {} /\ value[i] = 0
  <2>1. i \notin 0 .. i - 1 /\ i = semaphoreIndex
    BY <1>0, <1>1
  <2>2. Inside(i) = {}
    BY <1>1, <2>1, Identifiers DEF Inside, IInv, Pointing
  <2> QED BY <1>1, <2>1, <2>2 DEF IInv, Fresh, SynchTypes
<1>3. Abstract!Waiters(i) = {}
  BY <1>1, <1>2, WaitersInside
<1>4. Waiting' = Waiting
  BY <1>1 DEF Waiting
<1>5. Free' = [x \in semaphoreArray \cup {i} |-> IF x = i THEN 0 ELSE Free[x]]
  BY <1>1, <1>2 DEF Free
<1>6. Abstract!Create(i)
  BY <1>1, <1>2, <1>3, <1>4, <1>5 DEF Abstract!Create, Abstract!Exists, Free, Waiting
<1> QED BY <1>6 DEF AbstractStep, Abstract!SemaphoreNext

(* An iteration of the loop of P acquires a permit, waits, or goes on       *)
(* waiting.                                                                 *)
LEMMA LoopAcquires ==
  ASSUME IInv, SetValues \subseteq Nat, NEW t \in Thread, NEW s \in semaphoreArray,
         where[t] \in {"user", "retry", "woken"}, where[t] # "user" => target[t] = s,
         TakeOrWait(t, s), UNCHANGED tables
  PROVE  AbstractStep
<1>1. SynchTypes /\ s \in SemId /\ semaphoreArray' = semaphoreArray
  BY Created DEF IInv, tables
<1>2. value[s] \in Nat
  BY <1>1 DEF IInv, Permits
<1>3. Waiting[t] = IF where[t] = "user" THEN NoSem ELSE s
  BY DEF Waiting
<1>4. CASE /\ value[s] # 0 /\ value' = [value EXCEPT ![s] = value[s] - 1]
           /\ where' = [where EXCEPT ![t] = "user"]
           /\ target' = [target EXCEPT ![t] = NoSem]
  <2>1. Free' = [Free EXCEPT ![s] = Free[s] - 1] /\ Free[s] = value[s]
    BY <1>1, <1>4, Created DEF Free, SynchTypes
  <2>2. Waiting' = [Waiting EXCEPT ![t] = NoSem]
    BY <1>1, <1>4 DEF Waiting, SynchTypes
  <2>3. Abstract!Acquire(t, s)
    BY <1>1, <1>2, <1>3, <1>4, <2>1, <2>2 DEF Abstract!Acquire, Abstract!Exists, Free, Waiting
  <2> QED BY <1>1, <2>3 DEF AbstractStep, Abstract!SemaphoreNext
<1>5. CASE /\ value[s] = 0 /\ value' = value
           /\ where' = [where EXCEPT ![t] = "sem"]
           /\ target' = [target EXCEPT ![t] = s]
  <2>1. Free' = Free /\ Free[s] = 0
    BY <1>1, <1>5 DEF Free
  <2>2. Waiting' = [Waiting EXCEPT ![t] = s]
    BY <1>1, <1>5 DEF Waiting, SynchTypes
  <2>3. CASE where[t] = "user"
    <3>1. Abstract!Wait(t, s)
      BY <1>1, <1>3, <2>1, <2>2, <2>3 DEF Abstract!Wait, Abstract!Exists, Free, Waiting
    <3> QED BY <1>1, <3>1 DEF AbstractStep, Abstract!SemaphoreNext
  <2>4. CASE where[t] # "user"
    <3>1. Waiting' = Waiting
      BY <1>3, <2>2, <2>4 DEF Waiting
    <3> QED BY <2>1, <3>1 DEF AbstractStep
  <2> QED BY <2>3, <2>4
<1> QED BY <1>4, <1>5 DEF TakeOrWait

(* V releases: the thread that it readies still waits.                      *)
LEMMA VReleases ==
  ASSUME IInv, NEW t \in Thread, NEW s \in SemId, V(t, s)
  PROVE  AbstractStep
<1>1. /\ SynchTypes /\ s \in semaphoreArray /\ Release(s)
      /\ where' = [u \in Thread |-> IF u \in Woken(s) THEN "retry" ELSE where[u]]
      /\ target' = target /\ semaphoreArray' = semaphoreArray
      /\ \A u \in Woken(s) : where[u] = "sem"
  BY ReleaseDoes DEF V, IInv, tables
<1>2. Waiting' = Waiting
  BY <1>1 DEF Waiting
<1>3. Free' = [Free EXCEPT ![s] = Free[s] + 1]
  BY <1>1, Created DEF Free, Release, SynchTypes
<1>4. Abstract!Release(s)
  BY <1>1, <1>2, <1>3 DEF Abstract!Release, Abstract!Exists, Free, Waiting
<1> QED BY <1>4 DEF AbstractStep, Abstract!SemaphoreNext

(* Wait releases the mutex and waits for it in one step.                    *)
LEMMA CondWaitReleases ==
  ASSUME IInv, NEW t \in Thread, NEW c \in CondId, NEW s \in SemId, CondWait(t, c, s)
  PROVE  AbstractStep
<1>1. /\ SynchTypes /\ where[t] = "user" /\ s \in semaphoreArray /\ Release(s)
      /\ where' = [u \in Thread |-> IF u = t THEN "cond"
                                    ELSE IF u \in Woken(s) THEN "retry" ELSE where[u]]
      /\ target' = [target EXCEPT ![t] = s] /\ semaphoreArray' = semaphoreArray
      /\ \A u \in Woken(s) : where[u] = "sem"
  BY ReleaseDoes DEF CondWait, IInv, tables, Awake
<1>2. Waiting' = [Waiting EXCEPT ![t] = s] /\ Waiting[t] = NoSem
  BY <1>1 DEF Waiting, SynchTypes
<1>3. Free' = [Free EXCEPT ![s] = Free[s] + 1]
  BY <1>1, Created DEF Free, Release, SynchTypes
<1>4. Abstract!ReleaseAndWait(t, s)
  BY <1>1, <1>2, <1>3 DEF Abstract!ReleaseAndWait, Abstract!Exists, Free, Waiting
<1> QED BY <1>4 DEF AbstractStep, Abstract!SemaphoreNext

(* Signal and Broadcast change nothing of it: the woken threads have yet to *)
(* take the mutex.                                                          *)
LEMMA SignalStutters ==
  ASSUME IInv, NEW t \in Thread, NEW c \in CondId, Signal(t, c) \/ Broadcast(t, c)
  PROVE  AbstractStep
<1>1. /\ SynchTypes /\ UNCHANGED <<value, target>> /\ semaphoreArray' = semaphoreArray
      /\ \E n \in 0 .. Len(condQueue[c]) : CondAwaken(c, n)
  <2>1. condQueue[c] \in Seq(Thread) /\ Len(condQueue[c]) \in 0 .. Len(condQueue[c])
    BY DEF IInv, SynchTypes
  <2>2. AtMostOne(condQueue[c]) \in 0 .. Len(condQueue[c])
    BY <2>1, OneAtMost
  <2> QED BY <2>1, <2>2 DEF IInv, Signal, Broadcast, tables
<1>2. PICK n \in 0 .. Len(condQueue[c]) : CondAwaken(c, n)
  BY <1>1
<1>3. \A u \in First(condQueue[c], n) : u \in Thread => where[u] = "cond"
  BY DEF IInv, CondQueued, SynchTypes, First, ToSet
<1>4. Waiting' = Waiting
  BY <1>1, <1>2, <1>3 DEF Waiting, CondAwaken
<1>5. Free' = Free
  BY <1>1 DEF Free
<1> QED BY <1>4, <1>5 DEF AbstractStep

(* SYNCH_SET initialises the semaphore when it stores the value.            *)
LEMMA SetInitialises ==
  ASSUME IInv, NEW s \in semaphoreArray, NEW v \in Nat, value' = [value EXCEPT ![s] = v],
         Abstract!Waiters(s) = {}, semaphoreArray' = semaphoreArray, Waiting' = Waiting
  PROVE  AbstractStep
<1>1. SynchTypes /\ s \in SemId
  BY Created DEF IInv
<1>2. Free' = [Free EXCEPT ![s] = v] /\ DOMAIN Free' = semaphoreArray /\ Free'[s] = v
  BY <1>1, Created DEF Free, SynchTypes
<1>3. Abstract!Initialise(s, v)
  BY <1>2 DEF Abstract!Initialise, Abstract!Exists, Free, Waiting
<1>4. v \in {Free'[x] : x \in DOMAIN Free'}
  BY <1>2
<1> QED BY <1>1, <1>3, <1>4 DEF AbstractStep, Abstract!SemaphoreNext, Free

(* The system calls that set and remove.                                    *)
LEMMA SetAndRemove ==
  ASSUME IInv, careful, careful', SetValues \subseteq Nat, NEW t \in Thread,
         \/ \E s \in SemId, v \in SetValues : SemSet(t, s, v)
         \/ SetResumes(t)
         \/ \E s \in SemId : SemRemove(t, s)
  PROVE  AbstractStep
<1>1. SynchTypes
  BY DEF IInv
<1>2. ASSUME NEW s \in SemId, NEW v \in SetValues, SemSet(t, s, v) PROVE AbstractStep
  <2>1. /\ s \in semaphoreArray /\ semaphoreArray' = semaphoreArray /\ where[t] = "user"
        /\ Abstract!Waiters(s) = {}
    BY <1>1, <1>2, WaitersInside, RulesKept DEF SemSet, SynchTypes, tables, Awake
  <2>2. CASE value' = [value EXCEPT ![s] = v] /\ UNCHANGED <<where, target>>
    <3>1. Waiting' = Waiting
      BY <2>2 DEF Waiting
    <3> QED BY <2>1, <2>2, <3>1, SetInitialises
  <2>3. CASE where' = [where EXCEPT ![t] = "set"] /\ target' = [target EXCEPT ![t] = s] /\ value' = value
    <3>1. Waiting' = Waiting
      BY <1>1, <2>1, <2>3 DEF Waiting, SynchTypes
    <3>2. Free' = Free
      BY <2>1, <2>3 DEF Free
    <3> QED BY <3>1, <3>2 DEF AbstractStep
  <2> QED BY <1>2, <2>2, <2>3 DEF SemSet
<1>3. ASSUME SetResumes(t) PROVE AbstractStep
  <2>1. /\ where[t] = "set" /\ target[t] \in semaphoreArray /\ Inside(target[t]) = {t}
        /\ value' = [value EXCEPT ![target[t]] = setting[t]]
        /\ where' = [where EXCEPT ![t] = "user"] /\ target' = [target EXCEPT ![t] = NoSem]
        /\ semaphoreArray' = semaphoreArray
    BY <1>3 DEF SetResumes, Awake, IInv, WithCare, tables
  <2>2. Abstract!Waiters(target[t]) = {}
    BY <1>1, <2>1, Created, WaitersInside
  <2>3. setting[t] \in Nat
    <3>1. setting[t] \in SetValues \cup {0}
      BY <1>1 DEF SynchTypes
    <3>2. \A v \in SetValues \cup {0} : v \in Nat
      OBVIOUS
    <3> QED BY <3>1, <3>2
  <2>4. Waiting' = Waiting
    BY <1>1, <2>1 DEF Waiting, SynchTypes
  <2> QED BY <2>1, <2>2, <2>3, <2>4, SetInitialises
<1>4. ASSUME NEW s \in SemId, SemRemove(t, s) PROVE AbstractStep
  <2>1. /\ s \in semaphoreArray /\ semaphoreArray' = semaphoreArray \ {s}
        /\ UNCHANGED <<value, where, target>> /\ Abstract!Waiters(s) = {}
    BY <1>1, <1>4, WaitersInside, RulesKept DEF SemRemove, SynchTypes
  <2>2. Waiting' = Waiting
    BY <2>1 DEF Waiting
  <2>3. Free' = [x \in semaphoreArray \ {s} |-> Free[x]]
    BY <2>1 DEF Free
  <2>4. Abstract!Destroy(s)
    BY <2>1, <2>2, <2>3 DEF Abstract!Destroy, Abstract!Exists, Free, Waiting
  <2> QED BY <2>4 DEF AbstractStep, Abstract!SemaphoreNext
<1> QED BY <1>2, <1>3, <1>4

(* Every step of the kernel is a step of the abstract semaphores or none.   *)
LEMMA StepImplements ==
  ASSUME IInv, careful', SetValues \subseteq Nat, [SynchNext]_synch
  PROVE  AbstractStep
<1>0. careful
  BY OnceBroken
<1>1. ASSUME UNCHANGED <<semaphoreArray, value, where, target>> PROVE AbstractStep
  BY <1>1 DEF AbstractStep, Free, Waiting
<1>2. CASE UNCHANGED synch
  BY <1>1, <1>2 DEF synch, tables
<1>3. ASSUME NEW t \in Thread, NEW k \in Keys, SemGet(t, k) \/ CondGet(t, k) \/ GetAborts(t, k)
      PROVE  AbstractStep
  BY <1>1, <1>3, SemGetCreates DEF CondGet, GetAborts, tables
<1>4. ASSUME NEW t \in Thread, NEW s \in SemId, P(t, s) \/ V(t, s) PROVE AbstractStep
  <2>1. CASE P(t, s)
    BY <2>1, LoopAcquires DEF P, Awake
  <2> QED BY <1>4, <2>1, VReleases
<1>5. ASSUME NEW t \in Thread, NEW place \in {"retry", "woken"}, Resume(t, place) PROVE AbstractStep
  <2>1. where[t] = place /\ target[t] \in semaphoreArray
    BY <1>0, <1>5 DEF Resume, Awake, IInv, WithCare
  <2> QED BY <1>5, <2>1, LoopAcquires DEF Resume
<1>6. ASSUME NEW t \in Thread, NEW c \in CondId, NEW s \in SemId, CondWait(t, c, s)
      PROVE  AbstractStep
  BY <1>6, CondWaitReleases
<1>7. ASSUME NEW t \in Thread, NEW c \in CondId, Signal(t, c) \/ Broadcast(t, c) \/ CondRemove(t, c)
      PROVE  AbstractStep
  BY <1>1, <1>7, SignalStutters DEF CondRemove
<1> QED
  BY <1>0, <1>2, <1>3, <1>4, <1>5, <1>6, <1>7, SetAndRemove DEF SynchNext, Ended, Retry, CondResumes

(* If no program stores a negative value, the semaphores and conditions of  *)
(* the kernel implement those of NachosSemaphores, which promise something  *)
(* as long as the programs keep the rules, for any number of threads and    *)
(* semaphores.                                                              *)
THEOREM SemaphoresImplemented ==
  SetValues \subseteq Nat => (SynchSpec => ImplementsSemaphores)
<1> SUFFICES ASSUME SetValues \subseteq Nat PROVE SynchSpec => ImplementsSemaphores
  OBVIOUS
<1>1. SynchInit => Abstract!SemaphoreInit
  BY DEF SynchInit, Abstract!SemaphoreInit
<1>2. IInv /\ [SynchNext]_synch
        => [Abstract!SemaphoreStep]_<<[s \in semaphoreArray |-> value[s]],
                                      [t \in Thread |->
                                         IF where[t] \in {"sem", "retry", "cond", "woken"}
                                         THEN target[t] ELSE NoSem], careful>>
  <2> SUFFICES ASSUME IInv, [SynchNext]_synch
               PROVE  Abstract!SemaphoreStep \/ UNCHANGED <<Free, Waiting, careful>>
    BY DEF Free, Waiting
  <2>1. ASSUME careful' PROVE careful /\ AbstractStep
    BY <2>1, OnceBroken, StepImplements
  <2>2. careful \in BOOLEAN /\ careful' \in BOOLEAN
    BY NextKeeps DEF IInv, SynchTypes
  <2> QED BY <2>1, <2>2 DEF Abstract!SemaphoreStep, AbstractStep
<1> QED BY <1>1, <1>2, SynchInvariant, PTL DEF SynchSpec, ImplementsSemaphores, Abstract!SemaphoreSpec

-----------------------------------------------------------------------------
(* The bounded queue of NachosQueue, for every number of enqueuers and      *)
(* dequeuers and every size: that the program only does what NachosSynch    *)
(* lets programs do, so that what is proved of the kernel holds of it; that *)
(* its mutex excludes; and that what is dequeued is what was enqueued, in   *)
(* order.                                                                   *)

(* The statements of main() before its children exist.                      *)
Preparing == {"SemGet", "SemSet", "SemGet2", "SemSet2", "CondGet", "CondGet2"}

(* The statements between Lock and Unlock.                                  *)
Inner == {"test", "report", "reported", "wait", "slot", "count", "signal", "unlock"}

Labels == Preparing \cup Inner
            \cup {"fork", "join", "joined", "remove", "remove2", "remove3", "remove4", "end",
                  "unborn", "lock", "print", "printed", "exited"}

(* No child takes a step before main() has prepared the primitives.         *)
Unborn == pc[Main] \in Preparing => \A t \in Children : pc[t] = "unborn"

(* The system call that a thread is inside of, by the statement behind it.  *)
Calling ==
  /\ \A t \in Children :
       where[t] # "user" => /\ where[t] # "set"
                            /\ \/ target[t] = semid /\ pc[t] = "test"
                               \/ target[t] = stdoutsemid /\ pc[t] \in {"reported", "printed"}
  /\ where[Main] = "set" => /\ setting[Main] = 1
                            /\ \/ target[Main] = semid /\ pc[Main] = "SemGet2"
                               \/ target[Main] = stdoutsemid /\ pc[Main] = "CondGet"
  /\ where[Main] \notin {"user", "set"} => target[Main] = stdoutsemid

(* main() has yet to give the mutex its permit.                             *)
NoPermitYet == \/ pc[Main] \in {"SemGet", "SemSet"}
               \/ where[Main] = "set" /\ target[Main] = semid

(* The mutex has its permit, or one child has it.                           *)
OnePermit ==
  \/ Critical = {} /\ (value[semid] = 1 \/ NoPermitYet)
  \/ value[semid] = 0 /\ \E t \in Children : Critical = {t}

MInv == pc \in [Thread -> Labels] /\ Unborn /\ Calling /\ OnePermit

(* The program keeps the rules of the kernel: it removes its primitives     *)
(* after its joins.                                                         *)
Removing == {"remove", "remove2", "remove3", "remove4", "end"}
Care == careful /\ (pc[Main] \in Removing => AllJoined)

(* The operations that the indices and the count know of: all of those that *)
(* have reached their slot, but the one that has yet to execute Count.      *)
Counting(ts) == \E t \in ts : pc[t] = "count"
Entered == Len(enqueued) - (IF Counting(Enqueuers) THEN 1 ELSE 0)
Left    == Len(dequeued) - (IF Counting(Dequeuers) THEN 1 ELSE 0)

Elements == Thread \X Int

(* The elements that were enqueued and not dequeued are in the slots from   *)
(* head on, not more of them than there are slots.                          *)
Ring ==
  /\ head = Left % SIZE /\ tail = Entered % SIZE /\ count = Entered - Left
  /\ count \in 0 .. SIZE /\ Len(enqueued) - Len(dequeued) \in 0 .. SIZE
  /\ \A k \in 1 .. Len(dequeued) : dequeued[k] = enqueued[k]
  /\ \A k \in Len(dequeued) .. Len(enqueued) - 1 : slots[k % SIZE] = enqueued[k + 1]

(* A thread that is about to use a slot has one.                            *)
Room ==
  \A t \in Children : pc[t] = "slot" => IF t \in Enqueuers THEN count < SIZE ELSE count > 0

RingTypes ==
  /\ enqueued \in Seq(Elements) /\ dequeued \in Seq(Elements \cup {<<>>})
  /\ slots \in [0 .. SIZE - 1 -> Elements \cup {<<>>}]
  /\ left \in [Thread -> Int]

FInv == RingTypes /\ Ring /\ Room
-----------------------------------------------------------------------------
(* The threads and the identifiers of the program.                          *)
LEMMA Program ==
  /\ Main \in Thread /\ Children \subseteq Thread /\ Main \notin Children
  /\ \A u \in Thread : u # Main => u \in Children
  /\ semid \in SemId /\ semid # NoSem /\ stdoutsemid # NoSem /\ semid # stdoutsemid
  /\ {19, 20} \subseteq Keys /\ 1 \in SetValues
BY QueueAssumption, Identifiers DEF QueueAssumption, semid, stdoutsemid, NoSem

(* A thread goes on in the program, or not, as before.                      *)
Undisturbed(u) ==
  /\ target'[u] = target[u] /\ setting'[u] = setting[u]
  /\ where[u] = "user" <=> where'[u] = "user"
  /\ where[u] = "set" <=> where'[u] = "set"

(* What the system calls do to their thread, to the others and to the       *)
(* values of the semaphores.                                                *)
LEMMA PDoes ==
  ASSUME IInv, NEW t \in Thread, NEW s \in semaphoreArray, TakeOrWait(t, s), UNCHANGED setting
  PROVE  /\ s \in SemId
         /\ \A u \in Thread : u # t => Undisturbed(u)
         /\ \A r \in SemId : r # s => value'[r] = value[r]
         /\ \/ /\ value[s] # 0 /\ value'[s] = value[s] - 1
               /\ where'[t] = "user" /\ target'[t] = NoSem
            \/ /\ value[s] = 0 /\ value'[s] = 0
               /\ where'[t] = "sem" /\ target'[t] = s
<1>1. SynchTypes /\ s \in SemId
  BY Created DEF IInv
<1>2. CASE /\ value[s] # 0 /\ value' = [value EXCEPT ![s] = value[s] - 1]
           /\ where' = [where EXCEPT ![t] = "user"]
           /\ target' = [target EXCEPT ![t] = NoSem]
  BY <1>1, <1>2 DEF SynchTypes, Undisturbed
<1>3. CASE /\ value[s] = 0 /\ value' = value
           /\ where' = [where EXCEPT ![t] = "sem"]
           /\ target' = [target EXCEPT ![t] = s]
  BY <1>1, <1>3 DEF SynchTypes, Undisturbed
<1> QED BY <1>1, <1>2, <1>3 DEF TakeOrWait

(* V gives a permit, and leaves every thread outside of the queue alone.    *)
LEMMA VDoes ==
  ASSUME IInv, NEW t \in Thread, NEW s \in semaphoreArray, V(t, s)
  PROVE  /\ s \in SemId /\ where[t] = "user" /\ value'[s] = value[s] + 1
         /\ \A u \in Thread : Undisturbed(u)
         /\ \A r \in SemId : r # s => value'[r] = value[r]
<1>1. s \in SemId /\ where[t] = "user" /\ Release(s) /\ UNCHANGED <<target, setting>>
      /\ where' = [u \in Thread |-> IF u \in Woken(s) THEN "retry" ELSE where[u]]
  BY Created DEF IInv, V, Awake
<1>2. /\ \A u \in Woken(s) : where[u] = "sem"
      /\ value'[s] = value[s] + 1 /\ \A r \in SemId : r # s => value'[r] = value[r]
  BY <1>1, ReleaseDoes
<1>3. \A u \in Thread : Undisturbed(u)
  BY <1>1, <1>2 DEF Undisturbed
<1> QED BY <1>1, <1>2, <1>3

(* A Wait gives back the mutex and puts the thread to sleep on c.           *)
LEMMA WaitDoes ==
  ASSUME IInv, NEW t \in Thread, NEW c, NEW s \in semaphoreArray, CondWait(t, c, s)
  PROVE  /\ s \in SemId /\ where[t] = "user" /\ where'[t] = "cond" /\ target'[t] = s
         /\ value'[s] = value[s] + 1
         /\ \A u \in Thread : u # t => Undisturbed(u)
         /\ \A r \in SemId : r # s => value'[r] = value[r]
<1>1. /\ SynchTypes /\ s \in SemId /\ where[t] = "user" /\ Release(s) /\ setting' = setting
      /\ target' = [target EXCEPT ![t] = s]
      /\ where' = [u \in Thread |-> IF u = t THEN "cond"
                                    ELSE IF u \in Woken(s) THEN "retry" ELSE where[u]]
  BY Created DEF IInv, CondWait, Awake
<1>2. /\ \A u \in Woken(s) : where[u] = "sem"
      /\ value'[s] = value[s] + 1 /\ \A r \in SemId : r # s => value'[r] = value[r]
  BY <1>1, ReleaseDoes
<1>3. where'[t] = "cond" /\ target'[t] = s
  BY <1>1 DEF SynchTypes
<1>4. \A u \in Thread : u # t => Undisturbed(u)
  BY <1>1, <1>2 DEF Undisturbed, SynchTypes
<1> QED BY <1>1, <1>2, <1>3, <1>4

(* A Signal touches no semaphore.                                           *)
LEMMA SignalDoes ==
  ASSUME IInv, NEW t \in Thread, NEW c \in conditionArray, Signal(t, c)
  PROVE  value' = value /\ where[t] = "user" /\ \A u \in Thread : Undisturbed(u)
<1>1. c \in CondId
  <2>1. conditionIndex \in CondId /\ c \in 0 .. conditionIndex - 1
    BY DEF IInv, SynchTypes
  <2> QED BY <2>1, Identifiers DEF CondId
<1>2. \A u \in First(condQueue[c], AtMostOne(condQueue[c])) : where[u] = "cond"
  <2>1. condQueue[c] \in Seq(Thread) /\ AtMostOne(condQueue[c]) \in 0 .. Len(condQueue[c])
    BY <1>1, OneAtMost DEF IInv, SynchTypes
  <2>2. \A i \in 1 .. Len(condQueue[c]) : condQueue[c][i] \in Thread /\ where[condQueue[c][i]] = "cond"
    BY <1>1, <2>1 DEF IInv, CondQueued, ToSet
  <2> QED BY <2>1, <2>2 DEF First
<1>3. /\ where' = [u \in Thread |-> IF u \in First(condQueue[c], AtMostOne(condQueue[c]))
                                    THEN "woken" ELSE where[u]]
      /\ UNCHANGED <<value, target, setting>> /\ where[t] = "user"
  BY DEF Signal, CondAwaken, Awake
<1> QED BY <1>2, <1>3 DEF Undisturbed

(* A thread that was asleep takes its permit, sleeps again, or finds that   *)
(* its semaphore is gone; then nothing changes.                             *)
LEMMA ResumeDoes ==
  ASSUME IInv, NEW t \in Thread, Retry(t) \/ CondResumes(t)
  PROVE  /\ where[t] \in {"retry", "woken"} /\ target[t] \in SemId
         /\ \A u \in Thread : u # t => Undisturbed(u)
         /\ \A r \in SemId : r # target[t] => value'[r] = value[r]
         /\ \/ /\ value[target[t]] # 0 /\ value'[target[t]] = value[target[t]] - 1
               /\ where'[t] = "user" /\ target'[t] = NoSem
            \/ /\ value'[target[t]] = value[target[t]] /\ target'[t] = target[t]
               /\ where'[t] \in {"sem", "retry", "woken"}
<1>1. /\ where[t] \in {"retry", "woken"} /\ UNCHANGED setting
      /\ \/ target[t] \in semaphoreArray /\ TakeOrWait(t, target[t])
         \/ UNCHANGED <<value, where, target>>
  BY DEF Retry, CondResumes, Resume, Awake
<1>2. target[t] \in SemId
  <2>1. target[t] \in SemId \cup {NoSem} /\ target[t] \in 0 .. semaphoreIndex - 1
    BY <1>1 DEF IInv, SynchTypes, Pointing
  <2> QED BY <2>1 DEF NoSem
<1>3. CASE target[t] \in semaphoreArray /\ TakeOrWait(t, target[t])
  BY <1>1, <1>2, <1>3, PDoes
<1>4. CASE UNCHANGED <<value, where, target>>
  BY <1>1, <1>2, <1>4 DEF Undisturbed
<1> QED BY <1>1, <1>3, <1>4

-----------------------------------------------------------------------------
(* The system calls that the program makes.                                 *)
LEMMA QueueCalls ==
  ASSUME IInv, [QueueNext]_qvars
  PROVE  [SynchNext]_synch
<1> DEFINE Call(t) ==
      \/ \E k \in Keys : SemGet(t, k) \/ CondGet(t, k)
      \/ \E s \in semaphoreArray : P(t, s) \/ V(t, s) \/ SemRemove(t, s)
      \/ \E s \in semaphoreArray, v \in SetValues : SemSet(t, s, v)
      \/ \E c \in conditionArray, s \in semaphoreArray : CondWait(t, c, s)
      \/ \E c \in conditionArray : Signal(t, c) \/ CondRemove(t, c)
      \/ Retry(t) \/ CondResumes(t) \/ SetResumes(t)
<1>1. /\ \A s \in semaphoreArray : s \in SemId
      /\ \A c \in conditionArray : c \in CondId
  <2>1. /\ conditionIndex \in CondId /\ \A c \in conditionArray : c \in 0 .. conditionIndex - 1
        /\ SynchTypes
    BY DEF IInv, SynchTypes
  <2> QED BY <2>1, Created, Identifiers DEF CondId
<1>2. ASSUME NEW t \in Thread, Call(t) PROVE SynchNext
  BY <1>1, <1>2 DEF SynchNext
<1>3. CASE MainStep
  <2>1. Main \in Thread /\ 19 \in Keys /\ 20 \in Keys /\ 1 \in SetValues
    BY Program
  <2>2. CASE Setup
    <3>1. Call(Main)
      BY <2>1, <2>2 DEF Setup, SemSet
    <3> QED BY <1>2, <2>1, <3>1
  <2>3. CASE \E t \in Children : ForkChild(t)
    BY <2>3 DEF ForkChild, synch
  <2>4. CASE \E t \in Children : JoinChild(t)
    <3>1. Call(Main)
      BY <2>4 DEF JoinChild, P
    <3> QED BY <1>2, <2>1, <3>1
  <2>5. CASE Finish
    <3>1. Call(Main)
      BY <2>5 DEF Finish, V, SemRemove, CondRemove
    <3> QED BY <1>2, <2>1, <3>1
  <2>6. CASE Continue(Main)
    <3>1. Call(Main)
      BY <2>6 DEF Continue
    <3> QED BY <1>2, <2>1, <3>1
  <2> QED BY <1>3, <2>2, <2>3, <2>4, <2>5, <2>6 DEF MainStep
<1>4. ASSUME NEW t \in Children, ChildStep(t) PROVE [SynchNext]_synch
  <2>1. t \in Thread
    BY Program
  <2>2. CASE Lock(t) \/ Report(t) \/ Unlock(t) \/ PrintResult(t)
    <3>1. Call(t)
      BY <2>2 DEF Lock, Report, Unlock, PrintResult, P, V, Signal
    <3> QED BY <1>2, <2>1, <3>1
  <2>3. CASE WaitForSlot(t)
    <3>1. Call(t)
      BY <2>3 DEF WaitForSlot, CondWait
    <3> QED BY <1>2, <2>1, <3>1
  <2>4. CASE Continue(t)
    <3>1. Call(t)
      BY <2>4 DEF Continue
    <3> QED BY <1>2, <2>1, <3>1
  <2>5. CASE Test(t) \/ EnqueueSlot(t) \/ DequeueSlot(t) \/ Count(t)
    BY <2>5 DEF Test, EnqueueSlot, DequeueSlot, Count, synch
  <2> QED BY <1>4, <2>2, <2>3, <2>4, <2>5 DEF ChildStep
<1> QED BY <1>3, <1>4 DEF QueueNext, Done, qvars

(* The program is one of the programs of NachosSynch.                       *)
THEOREM QueueUsesKernel == QueueSpec => SynchSpec /\ []IInv
<1>1. QueueInit => SynchInit
  BY DEF QueueInit
<1>2. IInv /\ [QueueNext]_qvars => [SynchNext]_synch
  BY QueueCalls
<1>3. IInv /\ [QueueNext]_qvars => IInv'
  BY QueueCalls, NextKeeps
<1> QED BY <1>1, <1>2, <1>3, InitIInv, PTL DEF QueueSpec, SynchSpec

-----------------------------------------------------------------------------
(* Who is between Lock and Unlock, after a step of one child.               *)
LEMMA CriticalFrame ==
  ASSUME NEW t \in Children, \A u \in Thread : u # t => Undisturbed(u) /\ pc'[u] = pc[u]
  PROVE  Critical' = IF pc'[t] \in Inner /\ (where'[t] = "user" \/ target'[t] = stdoutsemid)
                     THEN Critical \cup {t} ELSE Critical \ {t}
BY Program DEF Critical, Undisturbed, Inner

(* A child that lives and takes a step: it stays outside or inside, comes   *)
(* in with the permit, or leaves it.                                        *)
LEMMA ChildKeeps ==
  ASSUME MInv, NEW t \in Children, pc[t] # "unborn", NEW l \in Labels, l # "unborn",
         pc' = [pc EXCEPT ![t] = l],
         \A u \in Thread : u # t => Undisturbed(u),
         where'[t] # "user" =>
            /\ where'[t] # "set"
            /\ \/ target'[t] = semid /\ l = "test"
               \/ target'[t] = stdoutsemid /\ l \in {"reported", "printed"},
         LET in  == pc[t] \in Inner /\ (where[t] = "user" \/ target[t] = stdoutsemid)
             in2 == l \in Inner /\ (where'[t] = "user" \/ target'[t] = stdoutsemid)
         IN  \/ (in <=> in2) /\ value'[semid] = value[semid]
             \/ ~in /\ in2 /\ value[semid] # 0 /\ value'[semid] = value[semid] - 1
             \/ in /\ ~in2 /\ value'[semid] = value[semid] + 1
  PROVE  MInv'
<1> DEFINE in  == pc[t] \in Inner /\ (where[t] = "user" \/ target[t] = stdoutsemid)
           in2 == l \in Inner /\ (where'[t] = "user" \/ target'[t] = stdoutsemid)
<1>1. /\ t \in Thread /\ t # Main /\ pc' \in [Thread -> Labels] /\ pc'[t] = l
      /\ \A u \in Thread : u # t => pc'[u] = pc[u]
  BY Program DEF MInv
<1>2. pc[Main] \notin Preparing /\ pc'[Main] = pc[Main]
  BY <1>1, Program DEF MInv, Unborn
<1>3. Unborn'
  BY <1>2 DEF Unborn
<1>4. Undisturbed(Main)
  BY <1>1, Program
<1>5. Calling'
  <2>1. /\ \A u \in Children :
             where'[u] # "user" =>
               /\ where'[u] # "set"
               /\ \/ target'[u] = semid /\ pc'[u] = "test"
                  \/ target'[u] = stdoutsemid /\ pc'[u] \in {"reported", "printed"}
    BY <1>1, Program DEF MInv, Calling, Undisturbed
  <2>2. /\ where'[Main] = "set" => /\ setting'[Main] = 1
                                   /\ \/ target'[Main] = semid /\ pc'[Main] = "SemGet2"
                                      \/ target'[Main] = stdoutsemid /\ pc'[Main] = "CondGet"
        /\ where'[Main] \notin {"user", "set"} => target'[Main] = stdoutsemid
    BY <1>2, <1>4 DEF MInv, Calling, Undisturbed
  <2> QED BY <2>1, <2>2 DEF Calling
<1>6. ~NoPermitYet
  BY <1>2, Program DEF MInv, Calling, NoPermitYet, Preparing
<1>7. \/ Critical = {} /\ value[semid] = 1
      \/ value[semid] = 0 /\ \E u \in Children : Critical = {u}
  BY <1>6 DEF MInv, OnePermit
<1>8. Critical' = IF in2 THEN Critical \cup {t} ELSE Critical \ {t}
  BY <1>1, CriticalFrame
<1>9. t \in Critical <=> in
  BY DEF Critical, Inner
<1>10. \/ (in <=> in2) /\ value'[semid] = value[semid]
       \/ ~in /\ in2 /\ value[semid] # 0 /\ value'[semid] = value[semid] - 1
       \/ in /\ ~in2 /\ value'[semid] = value[semid] + 1
  OBVIOUS
<1> HIDE DEF in, in2
<1>11. \/ Critical' = {} /\ value'[semid] = 1
       \/ value'[semid] = 0 /\ \E u \in Children : Critical' = {u}
  <2>1. CASE (in <=> in2) /\ value'[semid] = value[semid]
    <3>1. Critical' = Critical
      BY <1>8, <1>9, <2>1
    <3> QED BY <1>7, <2>1, <3>1
  <2>2. CASE ~in /\ in2 /\ value[semid] # 0 /\ value'[semid] = value[semid] - 1
    <3>1. Critical' = {t} /\ value'[semid] = 0
      BY <1>7, <1>8, <2>2
    <3> QED BY <3>1
  <2>3. CASE in /\ ~in2 /\ value'[semid] = value[semid] + 1
    <3>1. Critical' = {} /\ value'[semid] = 1
      BY <1>7, <1>8, <1>9, <2>3
    <3> QED BY <3>1
  <2> QED BY <1>10, <2>1, <2>2, <2>3
<1>12. OnePermit'
  BY <1>11 DEF OnePermit
<1> QED BY <1>1, <1>3, <1>5, <1>12 DEF MInv


(* The statements of the children.                                          *)
LEMMA ChildSteps ==
  ASSUME IInv, MInv, NEW t \in Children, ChildStep(t)
  PROVE  MInv'
<1>1. t \in Thread /\ pc \in [Thread -> Labels]
  BY Program DEF MInv
<1>2. where[t] # "user" => /\ where[t] # "set"
                           /\ \/ target[t] = semid /\ pc[t] = "test"
                              \/ target[t] = stdoutsemid /\ pc[t] \in {"reported", "printed"}
  BY DEF MInv, Calling
<1>3. CASE Lock(t)
  <2>1. /\ pc[t] = "lock" /\ where[t] = "user" /\ pc' = [pc EXCEPT ![t] = "test"]
        /\ semid \in semaphoreArray /\ TakeOrWait(t, semid) /\ UNCHANGED setting
    BY <1>3 DEF Lock, At, GoTo, Awake, P
  <2>2. /\ \A u \in Thread : u # t => Undisturbed(u)
        /\ \/ /\ value[semid] # 0 /\ value'[semid] = value[semid] - 1
              /\ where'[t] = "user" /\ target'[t] = NoSem
           \/ /\ value[semid] = 0 /\ value'[semid] = 0
              /\ where'[t] = "sem" /\ target'[t] = semid
    BY <1>1, <2>1, PDoes
  <2> QED BY <2>1, <2>2, ChildKeeps, Program DEF Inner, Labels
<1>4. CASE Test(t)
  <2>1. PICK l \in {"report", "slot"} :
          pc[t] = "test" /\ where[t] = "user" /\ pc' = [pc EXCEPT ![t] = l]
    BY <1>4 DEF Test, At, GoTo, Awake
  <2>2. UNCHANGED <<value, where, target, setting>>
    BY <1>4 DEF Test, synch
  <2>3. \A u \in Thread : Undisturbed(u)
    BY <2>2 DEF Undisturbed
  <2> QED BY <1>1, <2>1, <2>2, <2>3, ChildKeeps DEF Inner, Labels
<1>5. ASSUME P(t, stdoutsemid),
             \/ pc[t] = "report" /\ GoTo(t, "reported")
             \/ pc[t] = "print" /\ GoTo(t, "printed")
      PROVE  MInv'
  <2>1. /\ where[t] = "user" /\ stdoutsemid \in semaphoreArray
        /\ TakeOrWait(t, stdoutsemid) /\ UNCHANGED setting
    BY <1>5 DEF P, Awake
  <2>2. /\ \A u \in Thread : u # t => Undisturbed(u)
        /\ value'[semid] = value[semid]
        /\ \/ where'[t] = "user" /\ target'[t] = NoSem
           \/ where'[t] = "sem" /\ target'[t] = stdoutsemid
    BY <1>1, <2>1, PDoes, Program
  <2>3. CASE pc[t] = "report" /\ GoTo(t, "reported")
    BY <2>1, <2>2, <2>3, ChildKeeps DEF Inner, Labels, GoTo
  <2>4. CASE pc[t] = "print" /\ GoTo(t, "printed")
    BY <2>1, <2>2, <2>4, ChildKeeps DEF Inner, Labels, GoTo
  <2> QED BY <1>5, <2>3, <2>4
<1>6. ASSUME V(t, stdoutsemid), NEW l \in {"wait", "exited", "lock"},
             pc[t] = (IF l = "wait" THEN "reported" ELSE "printed"), GoTo(t, l)
      PROVE  MInv'
  <2>1. /\ where[t] = "user" /\ \A u \in Thread : Undisturbed(u)
        /\ value'[semid] = value[semid]
    <3>1. stdoutsemid \in semaphoreArray
      BY <1>6 DEF V
    <3> QED BY <1>1, <1>6, <3>1, VDoes, Program
  <2>2. where'[t] = "user"
    BY <1>1, <2>1 DEF Undisturbed
  <2>3. l \in Labels /\ l # "unborn" /\ pc[t] # "unborn" /\ (pc[t] \in Inner <=> l \in Inner)
    BY <1>6 DEF Inner, Labels
  <2> QED BY <1>6, <2>1, <2>2, <2>3, ChildKeeps DEF GoTo
<1>7. CASE Report(t)
  BY <1>5, <1>6, <1>7 DEF Report, At
<1>8. CASE PrintResult(t)
  BY <1>5, <1>6, <1>8 DEF PrintResult, At
<1>9. CASE WaitForSlot(t)
  <2>1. /\ pc[t] = "wait" /\ CondWait(t, WaitsOn(t), semid) /\ pc' = [pc EXCEPT ![t] = "test"]
        /\ semid \in semaphoreArray
    BY <1>9 DEF WaitForSlot, At, GoTo, CondWait
  <2>2. /\ where[t] = "user" /\ where'[t] = "cond" /\ target'[t] = semid
        /\ value'[semid] = value[semid] + 1
        /\ \A u \in Thread : u # t => Undisturbed(u)
    BY <1>1, <2>1, WaitDoes
  <2> QED BY <2>1, <2>2, ChildKeeps, Program DEF Inner, Labels
<1>10. CASE EnqueueSlot(t) \/ DequeueSlot(t) \/ Count(t)
  <2>1. /\ where[t] = "user" /\ UNCHANGED synch
        /\ \/ pc[t] = "slot" /\ pc' = [pc EXCEPT ![t] = "count"]
           \/ pc[t] = "count" /\ pc' = [pc EXCEPT ![t] = "signal"]
    BY <1>10 DEF EnqueueSlot, DequeueSlot, Count, At, GoTo, Awake
  <2>2. UNCHANGED <<value, where, target, setting>>
    BY <2>1 DEF synch
  <2>3. \A u \in Thread : Undisturbed(u)
    BY <2>2 DEF Undisturbed
  <2> QED BY <2>1, <2>2, <2>3, ChildKeeps DEF Inner, Labels
<1>11. CASE Unlock(t)
  <2>1. CASE pc[t] = "signal" /\ Signal(t, Signals(t)) /\ GoTo(t, "unlock")
    <3>1. Signals(t) \in conditionArray
      BY <2>1 DEF Signal
    <3>2. value' = value /\ where[t] = "user" /\ \A u \in Thread : Undisturbed(u)
      BY <1>1, <2>1, <3>1, SignalDoes
    <3>3. where'[t] = "user"
      BY <1>1, <3>2 DEF Undisturbed
    <3> QED BY <2>1, <3>2, <3>3, ChildKeeps DEF Inner, Labels, GoTo
  <2>2. CASE pc[t] = "unlock" /\ V(t, semid) /\ GoTo(t, "print")
    <3>1. semid \in semaphoreArray
      BY <2>2 DEF V
    <3>2. /\ where[t] = "user" /\ value'[semid] = value[semid] + 1
          /\ \A u \in Thread : Undisturbed(u)
      BY <1>1, <2>2, <3>1, VDoes
    <3>3. where'[t] = "user"
      BY <1>1, <3>2 DEF Undisturbed
    <3> QED BY <2>2, <3>2, <3>3, ChildKeeps DEF Inner, Labels, GoTo
  <2> QED BY <1>11, <2>1, <2>2 DEF Unlock, At
<1>12. CASE Continue(t)
  <2>1. UNCHANGED pc /\ (Retry(t) \/ CondResumes(t))
    BY <1>2, <1>12 DEF Continue, SetResumes, Awake
  <2>2. /\ where[t] \in {"retry", "woken"}
        /\ \A u \in Thread : u # t => Undisturbed(u)
        /\ \A r \in SemId : r # target[t] => value'[r] = value[r]
        /\ \/ /\ value[target[t]] # 0 /\ value'[target[t]] = value[target[t]] - 1
              /\ where'[t] = "user" /\ target'[t] = NoSem
           \/ /\ value'[target[t]] = value[target[t]] /\ target'[t] = target[t]
              /\ where'[t] \in {"sem", "retry", "woken"}
    BY <1>1, <2>1, ResumeDoes
  <2>3. PICK l \in Labels : l = pc[t]
    BY <1>1
  <2>4. pc' = [pc EXCEPT ![t] = l]
    BY <1>1, <2>1, <2>3
  <2>5. CASE target[t] = semid /\ pc[t] = "test"
    BY <2>2, <2>3, <2>4, <2>5, ChildKeeps, Program DEF Inner, Labels
  <2>6. CASE target[t] = stdoutsemid /\ pc[t] \in {"reported", "printed"}
    <3>1. value'[semid] = value[semid]
      BY <2>2, <2>6, Program
    <3> QED BY <2>2, <2>3, <2>4, <2>6, <3>1, ChildKeeps, Program DEF Inner, Labels
  <2> QED BY <1>2, <2>2, <2>5, <2>6
<1> QED BY <1>3, <1>4, <1>7, <1>8, <1>9, <1>10, <1>11, <1>12 DEF ChildStep

(* A step of main(): it does not touch the mutex but to give it its permit. *)
LEMMA MainKeeps ==
  ASSUME MInv, pc' \in [Thread -> Labels],
         \A u \in Children : /\ Undisturbed(u)
                             /\ \/ pc'[u] = pc[u]
                                \/ pc[u] = "unborn" /\ pc'[u] = "lock" /\ pc'[Main] \notin Preparing
                                \/ pc[u] = "exited" /\ pc'[u] = "joined",
         pc[Main] \notin Preparing => pc'[Main] \notin Preparing,
         where'[Main] = "set" => /\ setting'[Main] = 1
                                 /\ \/ target'[Main] = semid /\ pc'[Main] = "SemGet2"
                                    \/ target'[Main] = stdoutsemid /\ pc'[Main] = "CondGet",
         where'[Main] \notin {"user", "set"} => target'[Main] = stdoutsemid,
         \/ value'[semid] = value[semid] /\ (NoPermitYet => NoPermitYet')
         \/ pc[Main] \in Preparing /\ (value'[semid] = 1 \/ NoPermitYet')
  PROVE  MInv'
<1>1. /\ \A t \in Children :
           where[t] # "user" => /\ where[t] # "set"
                                /\ \/ target[t] = semid /\ pc[t] = "test"
                                   \/ target[t] = stdoutsemid /\ pc[t] \in {"reported", "printed"}
      /\ pc[Main] \in Preparing => \A t \in Children : pc[t] = "unborn"
  BY DEF MInv, Calling, Unborn
<1>2. Unborn'
  BY <1>1 DEF Unborn
<1>3. \A u \in Children : u \in Thread
  BY Program
<1>4. Calling'
  <2>1. \A u \in Children :
          where'[u] # "user" =>
            /\ where'[u] # "set"
            /\ \/ target'[u] = semid /\ pc'[u] = "test"
               \/ target'[u] = stdoutsemid /\ pc'[u] \in {"reported", "printed"}
    BY <1>1, <1>3 DEF Undisturbed
  <2> QED BY <2>1 DEF Calling
<1>5. Critical' = Critical
  BY <1>3 DEF Critical, Undisturbed
<1>6. pc[Main] \in Preparing => Critical = {}
  BY <1>1 DEF Critical
<1>7. OnePermit'
  BY <1>5, <1>6 DEF MInv, OnePermit
<1> QED BY <1>2, <1>4, <1>7 DEF MInv

(* The statements of main().                                                *)
LEMMA MainSteps ==
  ASSUME IInv, MInv, MainStep
  PROVE  MInv'
<1>1. /\ Main \in Thread /\ pc \in [Thread -> Labels] /\ SynchTypes
      /\ \A u \in Children : u \in Thread /\ u # Main
  BY Program DEF MInv, IInv
<1>2. /\ where[Main] = "set" => /\ setting[Main] = 1
                                /\ \/ target[Main] = semid /\ pc[Main] = "SemGet2"
                                   \/ target[Main] = stdoutsemid /\ pc[Main] = "CondGet"
      /\ where[Main] \notin {"user", "set"} => target[Main] = stdoutsemid
  BY DEF MInv, Calling
<1>3. ASSUME NEW l \in Labels, GoTo(Main, l)
      PROVE  /\ pc' \in [Thread -> Labels] /\ pc'[Main] = l
             /\ \A u \in Children : pc'[u] = pc[u]
  BY <1>1, <1>3 DEF GoTo
<1>4. ASSUME UNCHANGED <<value, where, target, setting>>
      PROVE  \A u \in Thread : Undisturbed(u)
  BY <1>4 DEF Undisturbed
<1>5. CASE Setup
  <2>1. where[Main] = "user"
    BY <1>5 DEF Setup, At, Awake
  <2>2. ASSUME NEW k \in {19, 20}, SemGet(Main, k) \/ CondGet(Main, k),
               NEW l \in Labels, GoTo(Main, l), pc[Main] \in {"SemGet", "SemGet2", "CondGet", "CondGet2"},
               l = "SemSet" \/ (l # "SemGet" /\ pc[Main] # "SemGet")
        PROVE  MInv'
    <3>1. UNCHANGED <<value, where, target, setting>>
      BY <2>2 DEF SemGet, CondGet
    <3>2. NoPermitYet => NoPermitYet'
      BY <1>3, <2>1, <2>2 DEF NoPermitYet
    <3>3. /\ \A u \in Children : Undisturbed(u) /\ pc'[u] = pc[u]
          /\ pc' \in [Thread -> Labels] /\ pc[Main] \in Preparing /\ where'[Main] = "user"
      BY <1>1, <1>3, <1>4, <2>1, <2>2, <3>1 DEF Preparing
    <3> QED BY <3>1, <3>2, <3>3, MainKeeps
  <2>3. ASSUME NEW s \in {semid, stdoutsemid}, SemSet(Main, s, 1), NEW l \in Labels, GoTo(Main, l),
               IF s = semid THEN pc[Main] = "SemSet" /\ l = "SemGet2"
                            ELSE pc[Main] = "SemSet2" /\ l = "CondGet"
        PROVE  MInv'
    <3>1. s \in SemId
      BY <1>1, <2>3, Created DEF SemSet
    <3>2. CASE value' = [value EXCEPT ![s] = 1] /\ UNCHANGED <<where, target, setting>>
      <4>1. \A u \in Children : Undisturbed(u)
        BY <1>1, <3>2 DEF Undisturbed
      <4>2. value'[semid] = IF s = semid THEN 1 ELSE value[semid]
        BY <1>1, <3>1, <3>2, Program DEF SynchTypes
      <4>3. s # semid => ~NoPermitYet
        BY <2>1, <2>3 DEF NoPermitYet
      <4> QED BY <1>3, <2>1, <2>3, <3>2, <4>1, <4>2, <4>3, MainKeeps DEF Preparing
    <3>3. CASE /\ where' = [where EXCEPT ![Main] = "set"] /\ target' = [target EXCEPT ![Main] = s]
               /\ setting' = [setting EXCEPT ![Main] = 1] /\ UNCHANGED value
      <4>1. \A u \in Children : Undisturbed(u)
        BY <1>1, <3>3 DEF Undisturbed, SynchTypes
      <4>2. where'[Main] = "set" /\ target'[Main] = s /\ setting'[Main] = 1
        BY <1>1, <3>3 DEF SynchTypes
      <4>3. IF s = semid THEN NoPermitYet' ELSE ~NoPermitYet
        BY <2>1, <2>3, <4>2 DEF NoPermitYet
      <4> QED BY <1>3, <2>3, <3>3, <4>1, <4>2, <4>3, MainKeeps DEF Preparing
    <3> QED BY <2>3, <3>2, <3>3 DEF SemSet
  <2> QED BY <1>5, <2>2, <2>3, Program DEF Setup, At, Labels, Preparing
<1>6. ASSUME NEW t \in Children, ForkChild(t) PROVE MInv'
  <2>1. PICK l \in {"fork", "join"} :
          /\ pc[Main] = "fork" /\ pc[t] = "unborn" /\ where[Main] = "user"
          /\ pc' = [pc EXCEPT ![t] = "lock", ![Main] = l]
    BY <1>6 DEF ForkChild, At, Awake
  <2>2. UNCHANGED <<value, where, target, setting>>
    BY <1>6 DEF ForkChild, synch
  <2>3. /\ pc' \in [Thread -> Labels] /\ pc'[Main] = l /\ pc'[t] = "lock"
        /\ \A u \in Children : u # t => pc'[u] = pc[u]
    BY <1>1, <2>1 DEF Labels
  <2>4. ~NoPermitYet
    BY <2>1 DEF NoPermitYet
  <2> QED BY <1>1, <1>4, <2>1, <2>2, <2>3, <2>4, MainKeeps DEF Preparing
<1>7. ASSUME NEW t \in Children, JoinChild(t) PROVE MInv'
  <2>1. /\ pc[Main] = "join" /\ pc[t] = "exited" /\ where[Main] = "user"
        /\ pc' = [pc EXCEPT ![t] = "joined", ![Main] = "joined"]
        /\ stdoutsemid \in semaphoreArray /\ TakeOrWait(Main, stdoutsemid) /\ UNCHANGED setting
    BY <1>7 DEF JoinChild, At, Awake, P
  <2>2. /\ \A u \in Thread : u # Main => Undisturbed(u)
        /\ value'[semid] = value[semid]
        /\ \/ where'[Main] = "user" /\ target'[Main] = NoSem
           \/ where'[Main] = "sem" /\ target'[Main] = stdoutsemid
    BY <1>1, <2>1, PDoes, Program
  <2>3. /\ pc' \in [Thread -> Labels] /\ pc'[Main] = "joined" /\ pc'[t] = "joined"
        /\ \A u \in Children : u # t => pc'[u] = pc[u]
    BY <1>1, <2>1 DEF Labels
  <2>4. ~NoPermitYet
    BY <2>1 DEF NoPermitYet
  <2> QED BY <1>1, <2>1, <2>2, <2>3, <2>4, MainKeeps DEF Preparing
<1>8. CASE Finish
  <2>1. PICK l \in {"join", "remove", "remove2", "remove3", "remove4", "end"} : GoTo(Main, l)
    BY <1>8 DEF Finish
  <2>2. /\ pc[Main] \in {"joined", "remove", "remove2", "remove3", "remove4"} /\ where[Main] = "user"
        /\ l \in Labels /\ l \notin Preparing
    BY <1>8, <2>1 DEF Finish, At, Awake, Labels, Preparing
  <2>3. ~NoPermitYet /\ pc[Main] \notin Preparing
    BY <2>2 DEF NoPermitYet, Preparing
  <2>4. value'[semid] = value[semid] /\ \A u \in Thread : Undisturbed(u)
    <3>1. CASE V(Main, stdoutsemid)
      <4>1. stdoutsemid \in semaphoreArray
        BY <3>1 DEF V
      <4> QED BY <1>1, <3>1, <4>1, VDoes, Program
    <3>2. CASE \/ \E s : SemRemove(Main, s)
               \/ \E c : CondRemove(Main, c)
      BY <1>4, <3>2 DEF SemRemove, CondRemove
    <3> QED BY <1>8, <3>1, <3>2 DEF Finish
  <2>5. where'[Main] = "user"
    BY <1>1, <2>2, <2>4 DEF Undisturbed
  <2> QED BY <1>1, <1>3, <2>1, <2>2, <2>3, <2>4, <2>5, MainKeeps
<1>9. CASE Continue(Main)
  <2>1. pc' = pc
    BY <1>9 DEF Continue
  <2>2. CASE Retry(Main) \/ CondResumes(Main)
    <3>1. /\ where[Main] \in {"retry", "woken"}
          /\ \A u \in Thread : u # Main => Undisturbed(u)
          /\ \A r \in SemId : r # target[Main] => value'[r] = value[r]
          /\ \/ where'[Main] = "user" /\ target'[Main] = NoSem
             \/ target'[Main] = target[Main] /\ where'[Main] \in {"sem", "retry", "woken"}
      BY <1>1, <2>2, ResumeDoes
    <3>2. target[Main] = stdoutsemid /\ value'[semid] = value[semid]
      BY <1>2, <3>1, Program
    <3>3. NoPermitYet => NoPermitYet'
      BY <2>1, <3>1 DEF NoPermitYet
    <3> QED BY <1>1, <2>1, <3>1, <3>2, <3>3, MainKeeps
  <2>3. CASE SetResumes(Main)
    <3>1. where[Main] = "set" /\ setting[Main] = 1 /\ pc[Main] \in Preparing
      BY <1>2, <2>3 DEF SetResumes, Awake, Preparing
    <3>2. CASE UNCHANGED <<value, where, target, setting>>
      <4>1. NoPermitYet => NoPermitYet'
        BY <2>1, <3>2 DEF NoPermitYet
      <4> QED BY <1>1, <1>2, <1>4, <2>1, <3>2, <4>1, MainKeeps
    <3>3. CASE /\ target[Main] \in semaphoreArray
               /\ value' = [value EXCEPT ![target[Main]] = setting[Main]]
               /\ where' = [where EXCEPT ![Main] = "user"]
               /\ target' = [target EXCEPT ![Main] = NoSem]
               /\ setting' = [setting EXCEPT ![Main] = 0]
      <4>1. target[Main] \in SemId
        BY <1>1, <3>3, Created
      <4>2. value'[semid] = IF target[Main] = semid THEN 1 ELSE value[semid]
        BY <1>1, <3>1, <3>3, <4>1, Program DEF SynchTypes
      <4>3. where'[Main] = "user" /\ \A u \in Children : Undisturbed(u)
        BY <1>1, <3>3 DEF Undisturbed, SynchTypes
      <4>4. target[Main] # semid => ~NoPermitYet
        BY <1>2, <3>1, Program DEF NoPermitYet
      <4> QED BY <1>1, <2>1, <3>1, <4>2, <4>3, <4>4, MainKeeps
    <3> QED BY <2>3, <3>2, <3>3 DEF SetResumes
  <2> QED BY <1>9, <2>2, <2>3 DEF Continue
<1> QED BY <1>5, <1>6, <1>7, <1>8, <1>9 DEF MainStep

(* The mutex and its holder, through every run.                             *)
LEMMA MutexInvariant == QueueSpec => []MInv
<1>1. QueueInit => MInv
  <2> SUFFICES ASSUME QueueInit PROVE MInv
    OBVIOUS
  <2>1. /\ pc = [t \in Thread |-> IF t = Main THEN "SemGet" ELSE "unborn"]
        /\ where = [t \in Thread |-> "user"]
    BY DEF QueueInit, SynchInit
  <2>2. pc \in [Thread -> Labels] /\ pc[Main] = "SemGet" /\ \A t \in Children : pc[t] = "unborn"
    BY <2>1, Program DEF Labels, Preparing
  <2>3. Unborn /\ Calling /\ Critical = {} /\ NoPermitYet
    BY <2>1, <2>2, Program DEF Unborn, Calling, Critical, NoPermitYet
  <2> QED BY <2>2, <2>3 DEF MInv, OnePermit
<1>2. IInv /\ MInv /\ [QueueNext]_qvars => MInv'
  <2> SUFFICES ASSUME IInv, MInv, [QueueNext]_qvars PROVE MInv'
    OBVIOUS
  <2>1. CASE UNCHANGED qvars
    BY <2>1 DEF qvars, synch, MInv, Unborn, Calling, OnePermit, NoPermitYet, Critical
  <2> QED BY <2>1, MainSteps, ChildSteps DEF QueueNext, Done
<1> QED BY <1>1, <1>2, QueueUsesKernel, PTL DEF QueueSpec

(* Enqueue and Dequeue exclude each other: the permit of the mutex goes     *)
(* from one child to the next, and a Wait on a condition returns with it,   *)
(* for every number of children and however programs may use semaphores.    *)
THEOREM MutexExcludes == QueueSpec => []MutualExclusion
<1>1. MInv => MutualExclusion
  <2>1. ASSUME Critical = {} PROVE Cardinality(Critical) <= 1
    BY <2>1, FS_EmptySet
  <2>2. ASSUME NEW t \in Children, Critical = {t} PROVE Cardinality(Critical) <= 1
    BY <2>2, FS_Singleton
  <2> QED BY <2>1, <2>2 DEF MInv, OnePermit, MutualExclusion
<1> QED BY <1>1, MutexInvariant, PTL

-----------------------------------------------------------------------------
(* A system call of a thread that is not asleep keeps the rules: no value   *)
(* is being stored, and a semaphore that is set or removed is used by none. *)
LEMMA CallKeepsRules ==
  ASSUME IInv, MInv, careful, NEW t \in Thread, where[t] = "user", NEW s \in semaphoreArray
  PROVE  /\ Using(s) /\ (t = Main \/ pc[Main] \notin Preparing) => careful'
         /\ Changing(s) /\ t = Main /\ (\A u \in Children : pc[u] \in {"unborn", "joined"})
              => careful'
<1>1. ASSUME NEW u \in Inside(s), t = Main \/ pc[Main] \notin Preparing
      PROVE  where[u] # "set"
  <2>1. u \in Thread
    BY DEF Inside
  <2>2. CASE u = Main
    BY <1>1, <2>2 DEF MInv, Calling, Preparing
  <2>3. CASE u # Main
    BY <2>1, <2>3, Program DEF MInv, Calling
  <2> QED BY <2>2, <2>3
<1>2. ASSUME t = Main, \A u \in Children : pc[u] \in {"unborn", "joined"}
      PROVE  Inside(s) = {}
  <2>1. \A u \in Children : where[u] = "user"
    BY <1>2 DEF MInv, Calling
  <2>2. \A u \in Thread : target[u] = NoSem
    BY <1>2, <2>1, Program DEF IInv, Pointing
  <2>3. s # NoSem
    BY Created, Identifiers DEF IInv
  <2> QED BY <2>2, <2>3 DEF Inside
<1> QED BY <1>1, <1>2 DEF Using, Changing

(* Every step of the program keeps them.                                    *)
LEMMA ProgramKeepsRules ==
  ASSUME IInv, MInv, Care, [QueueNext]_qvars
  PROVE  Care'
<1>1. /\ pc \in [Thread -> Labels] /\ Main \in Thread /\ careful
      /\ \A u \in Children : u \in Thread /\ u # Main
      /\ pc[Main] \in Removing => AllJoined
  BY Program DEF MInv, Care
<1>2. CASE UNCHANGED qvars
  BY <1>1, <1>2 DEF qvars, synch, Care, AllJoined
<1>3. CASE MainStep
  <2>1. CASE Setup
    <3>1. /\ where[Main] = "user" /\ \A u \in Children : pc[u] = "unborn"
          /\ \E l \in Preparing \cup {"fork"} : GoTo(Main, l)
      BY <2>1 DEF Setup, At, Awake, MInv, Unborn, Preparing
    <3>2. pc'[Main] \notin Removing
      BY <1>1, <3>1 DEF GoTo, Removing, Preparing
    <3>3. careful' = careful \/ \E s \in semaphoreArray : Changing(s)
      BY <2>1 DEF Setup, SemGet, CondGet, SemSet
    <3>4. careful'
      BY <1>1, <3>1, <3>3, CallKeepsRules
    <3> QED BY <3>2, <3>4 DEF Care
  <2>2. ASSUME NEW t \in Children, ForkChild(t) PROVE Care'
    <3>1. careful' = careful /\ pc'[Main] \in {"fork", "join"}
      BY <1>1, <2>2 DEF ForkChild, synch
    <3> QED BY <1>1, <3>1 DEF Care, Removing
  <2>3. ASSUME NEW t \in Children, JoinChild(t) PROVE Care'
    <3>1. /\ where[Main] = "user" /\ stdoutsemid \in semaphoreArray /\ Using(stdoutsemid)
          /\ pc'[Main] = "joined"
      BY <1>1, <2>3 DEF JoinChild, P, At, Awake
    <3>2. careful'
      BY <1>1, <3>1, CallKeepsRules
    <3> QED BY <3>1, <3>2 DEF Care, Removing
  <2>4. CASE Finish
    <3>1. where[Main] = "user"
      BY <2>4 DEF Finish, At, Awake
    <3>2. PICK l : GoTo(Main, l) /\ (l \in Removing => AllJoined)
      BY <1>1, <2>4 DEF Finish, At, Removing
    <3>3. pc'[Main] = l /\ \A u \in Children : pc'[u] = pc[u]
      BY <1>1, <3>2 DEF GoTo
    <3>4. \/ careful' = careful
          \/ \E s \in semaphoreArray : Using(s)
          \/ pc[Main] \in Removing /\ \E s \in semaphoreArray : Changing(s)
      BY <2>4 DEF Finish, V, SemRemove, CondRemove, At, Removing
    <3>5. careful'
      BY <1>1, <3>1, <3>4, CallKeepsRules DEF AllJoined
    <3> QED BY <3>2, <3>3, <3>5 DEF Care, AllJoined
  <2>5. CASE Continue(Main)
    BY <1>1, <2>5 DEF Continue, Retry, CondResumes, Resume, SetResumes, Care, AllJoined
  <2> QED BY <1>3, <2>1, <2>2, <2>3, <2>4, <2>5 DEF MainStep
<1>4. ASSUME NEW t \in Children, ChildStep(t) PROVE Care'
  <2>1. CASE Continue(t)
    BY <1>1, <2>1 DEF Continue, Retry, CondResumes, Resume, SetResumes, Care, AllJoined
  <2>2. CASE /\ where[t] = "user" /\ pc[t] \notin {"unborn", "joined"} /\ \E l : GoTo(t, l)
             /\ careful' = careful \/ \E s \in semaphoreArray : Using(s)
    <3>1. pc[Main] \notin Removing /\ pc[Main] \notin Preparing
      BY <1>1, <2>2 DEF AllJoined, MInv, Unborn
    <3>2. pc'[Main] = pc[Main]
      BY <1>1, <2>2 DEF GoTo
    <3>3. careful'
      BY <1>1, <2>2, <3>1, CallKeepsRules
    <3> QED BY <3>1, <3>2, <3>3 DEF Care
  <2>3. CASE Lock(t) \/ Report(t) \/ WaitForSlot(t) \/ Unlock(t) \/ PrintResult(t)
    BY <2>2, <2>3 DEF Lock, Report, WaitForSlot, Unlock, PrintResult, At, Awake, P, V, CondWait, Signal
  <2>4. CASE Test(t) \/ EnqueueSlot(t) \/ DequeueSlot(t) \/ Count(t)
    BY <2>2, <2>4 DEF Test, EnqueueSlot, DequeueSlot, Count, At, Awake, synch
  <2> QED BY <1>4, <2>1, <2>3, <2>4 DEF ChildStep
<1> QED BY <1>2, <1>3, <1>4 DEF QueueNext, Done

(* The kernel of test/queue.c follows no pointer to a removed semaphore:    *)
(* the joins of main() leave nobody inside, for any number of children.     *)
THEOREM RemovedInTime == QueueSpec => []NoUseAfterRemove
<1>1. QueueInit => Care
  BY Program DEF QueueInit, SynchInit, Care, Removing
<1>2. IInv /\ MInv /\ Care /\ [QueueNext]_qvars => Care'
  BY ProgramKeepsRules
<1>3. IInv /\ Care => NoUseAfterRemove
  BY DEF IInv, WithCare, Care, NoUseAfterRemove
<1> QED BY <1>1, <1>2, <1>3, QueueUsesKernel, MutexInvariant, PTL DEF QueueSpec

-----------------------------------------------------------------------------
(* Only the holder of the mutex is at a slot or has yet to count.           *)
LEMMA Alone ==
  ASSUME MInv, NEW t \in Children, pc[t] \in {"test", "slot", "count"}, where[t] = "user",
         NEW u \in Children, u # t
  PROVE  pc[u] \notin {"slot", "count"}
<1>1. t \in Critical
  BY DEF Critical
<1>2. pc[u] \in {"slot", "count"} => u \in Critical
  BY DEF MInv, Calling, Critical
<1>3. \A v, w \in Critical : v = w
  BY DEF MInv, OnePermit
<1> QED BY <1>1, <1>2, <1>3

(* A step that does not touch the ring.                                     *)
LEMMA RingKept ==
  ASSUME FInv, UNCHANGED shared, left' \in [Thread -> Int],
         \A u \in Children : /\ pc'[u] = "count" <=> pc[u] = "count"
                             /\ pc'[u] = "slot" => \/ pc[u] = "slot"
                                                   \/ IF u \in Enqueuers THEN count < SIZE ELSE count > 0
  PROVE  FInv'
<1>1. Entered' = Entered /\ Left' = Left
  BY DEF shared, Entered, Left, Counting, Children
<1>2. Ring'
  BY <1>1 DEF FInv, Ring, shared
<1>3. Room'
  BY DEF FInv, Room, shared
<1> QED BY <1>2, <1>3 DEF FInv, RingTypes, shared

(* The same, when one thread goes on to another statement.                  *)
LEMMA OtherStatement ==
  ASSUME FInv, MInv, NEW t \in Thread, NEW l, GoTo(t, l), l \notin {"slot", "count"},
         pc[t] # "count", UNCHANGED shared, left' \in [Thread -> Int]
  PROVE  FInv'
<1>1. \A u \in Children : pc'[u] = IF u = t THEN l ELSE pc[u]
  BY Program DEF MInv, GoTo
<1> QED BY <1>1, RingKept

(* Enqueue and Dequeue: the test, the slot and the count.                   *)
LEMMA TestKeeps ==
  ASSUME FInv, MInv, NEW t \in Children, Test(t)
  PROVE  FInv'
<1>1. UNCHANGED <<left, shared>> /\ pc[t] = "test" /\ pc \in [Thread -> Labels] /\ t \in Thread
  BY Program DEF Test, At, MInv
<1>2. \A u \in Children : pc'[u] = IF u = t THEN IF MustWait(t) THEN "report" ELSE "slot" ELSE pc[u]
  BY <1>1, Program DEF Test, GoTo
<1>3. ~MustWait(t) => IF t \in Enqueuers THEN count < SIZE ELSE count > 0
  BY QueueAssumption DEF QueueAssumption, MustWait, FInv, Ring
<1> QED BY <1>1, <1>2, <1>3, RingKept DEF FInv, RingTypes

(* The statements of the buffer, one by one: an enqueue,                    *)
LEMMA EnqueueKeeps ==
  ASSUME FInv, MInv, NEW t \in Children, EnqueueSlot(t)
  PROVE  FInv'
<1> DEFINE x == <<t, left[t]>>
           e == Len(enqueued)
           d == Len(dequeued)
<1>1. /\ t \in Enqueuers /\ t \in Thread /\ pc[t] = "slot" /\ where[t] = "user"
      /\ slots' = [slots EXCEPT ![tail] = x] /\ enqueued' = Append(enqueued, x)
      /\ UNCHANGED <<left, head, tail, count, dequeued>>
      /\ x \in Elements /\ SIZE \in Nat \ {0}
      /\ e \in Nat /\ d \in Nat
  <2>1. left[t] \in Int /\ t \in Thread /\ e \in Nat /\ d \in Nat
    BY Program DEF FInv, RingTypes
  <2> QED BY <2>1, QueueAssumption DEF EnqueueSlot, At, Awake, QueueAssumption, Elements
<1>2. \A u \in Children : pc'[u] = IF u = t THEN "count" ELSE pc[u]
  BY <1>1, Program DEF EnqueueSlot, GoTo, MInv
<1>3. \A u \in Children : u # t => pc[u] \notin {"slot", "count"}
  BY <1>1, Alone
<1>4. /\ ~Counting(Enqueuers) /\ ~Counting(Dequeuers)
      /\ Counting(Enqueuers)' /\ ~Counting(Dequeuers)'
  <2>1. t \notin Dequeuers
    BY <1>1, QueueAssumption DEF QueueAssumption
  <2> QED BY <1>1, <1>2, <1>3, <2>1 DEF Counting, Children
<1>5. /\ tail = e % SIZE /\ head = d % SIZE /\ count = e - d /\ count \in 0 .. SIZE /\ count < SIZE
      /\ \A k \in 1 .. d : dequeued[k] = enqueued[k]
      /\ \A k \in d .. e - 1 : slots[k % SIZE] = enqueued[k + 1]
  BY <1>1, <1>4 DEF FInv, Ring, Room, Entered, Left
<1>6. /\ Len(enqueued') = e + 1 /\ enqueued'[e + 1] = x
      /\ \A k \in 1 .. e : enqueued'[k] = enqueued[k]
      /\ enqueued' \in Seq(Elements)
  BY <1>1 DEF FInv, RingTypes
<1>7. Entered' = e /\ Left' = d
  BY <1>1, <1>4, <1>6 DEF Entered, Left
<1> HIDE DEF x, e, d
<1>8. tail \in 0 .. SIZE - 1
  BY <1>1, <1>5, DivMod
<1>9. RingTypes'
  BY <1>1, <1>6, <1>8 DEF FInv, RingTypes
<1>10. \A k \in d .. (e + 1) - 1 : slots'[k % SIZE] = enqueued'[k + 1]
  <2>0. SIZE \in Nat \ {0} /\ e \in Int /\ d \in Int /\ (e + 1) - 1 = e
    BY <1>1
  <2> SUFFICES ASSUME NEW k \in d .. e PROVE slots'[k % SIZE] = enqueued'[k + 1]
    BY <2>0
  <2>1. k % SIZE \in 0 .. SIZE - 1 /\ k \in Int
    <3>1. k \in Int
      BY <2>0
    <3> QED BY <2>0, <3>1, DivMod
  <2>2. CASE k = e
    BY <1>1, <1>5, <1>6, <1>8, <2>2 DEF FInv, RingTypes
  <2>3. CASE k # e
    <3>1. k \in d .. e - 1 /\ k < e /\ e < k + SIZE /\ k + 1 \in 1 .. e
      BY <1>1, <1>5, <2>3
    <3>2. k % SIZE # tail
      <4>1. k % SIZE # e % SIZE
        BY <2>0, <2>1, <3>1, SlotsApart
      <4> QED BY <1>5, <4>1
    <3>3. slots'[k % SIZE] = slots[k % SIZE]
      BY <1>1, <2>1, <3>2 DEF FInv, RingTypes
    <3> QED BY <1>5, <1>6, <3>1, <3>3
  <2> QED BY <2>2, <2>3
<1>11. \A k \in 1 .. d : dequeued'[k] = enqueued'[k]
  BY <1>1, <1>5, <1>6
<1>12. Ring'
  <2>1. Len(dequeued') = d /\ (e + 1) - d \in 0 .. SIZE /\ head' = d % SIZE /\ tail' = e % SIZE
        /\ count' = e - d /\ count' \in 0 .. SIZE
    BY <1>1, <1>5 DEF d
  <2> QED BY <1>6, <1>7, <1>10, <1>11, <2>1 DEF Ring
<1>13. Room'
  BY <1>2, <1>3 DEF Room
<1> QED BY <1>9, <1>12, <1>13 DEF FInv

(* a dequeue,                                                               *)
LEMMA DequeueKeeps ==
  ASSUME FInv, MInv, NEW t \in Children, DequeueSlot(t)
  PROVE  FInv'
<1> DEFINE x == slots[head]
           e == Len(enqueued)
           d == Len(dequeued)
<1>1. /\ t \in Dequeuers /\ t \in Thread /\ pc[t] = "slot" /\ where[t] = "user"
      /\ dequeued' = Append(dequeued, x)
      /\ UNCHANGED <<left, slots, head, tail, count, enqueued>>
      /\ SIZE \in Nat \ {0} /\ e \in Nat /\ d \in Nat
  <2>1. t \in Thread /\ e \in Nat /\ d \in Nat
    BY Program DEF FInv, RingTypes
  <2> QED BY <2>1, QueueAssumption DEF DequeueSlot, At, Awake, QueueAssumption
<1>2. \A u \in Children : pc'[u] = IF u = t THEN "count" ELSE pc[u]
  BY <1>1, Program DEF DequeueSlot, GoTo, MInv
<1>3. \A u \in Children : u # t => pc[u] \notin {"slot", "count"}
  BY <1>1, Alone
<1>4. /\ ~Counting(Enqueuers) /\ ~Counting(Dequeuers) /\ t \notin Enqueuers
      /\ ~Counting(Enqueuers)' /\ Counting(Dequeuers)'
  <2>1. t \notin Enqueuers
    BY <1>1, QueueAssumption DEF QueueAssumption
  <2> QED BY <1>1, <1>2, <1>3, <2>1 DEF Counting, Children
<1>5. /\ tail = e % SIZE /\ head = d % SIZE /\ count = e - d /\ count \in 0 .. SIZE /\ count > 0
      /\ \A k \in 1 .. d : dequeued[k] = enqueued[k]
      /\ \A k \in d .. e - 1 : slots[k % SIZE] = enqueued[k + 1]
  BY <1>1, <1>4 DEF FInv, Ring, Room, Entered, Left
<1>6. x = enqueued[d + 1] /\ x \in Elements \cup {<<>>}
  <2>1. d \in d .. e - 1 /\ d + 1 \in 1 .. e /\ d % SIZE \in 0 .. SIZE - 1
    BY <1>1, <1>5, DivMod
  <2> QED BY <1>5, <2>1 DEF FInv, RingTypes
<1> HIDE DEF x
<1>7. /\ Len(dequeued') = d + 1 /\ dequeued'[d + 1] = x
      /\ \A k \in 1 .. d : dequeued'[k] = dequeued[k]
      /\ dequeued' \in Seq(Elements \cup {<<>>})
  BY <1>1, <1>6 DEF FInv, RingTypes
<1>8. Entered' = e /\ Left' = d
  BY <1>1, <1>4, <1>7 DEF Entered, Left
<1> HIDE DEF e, d
<1>9. RingTypes'
  BY <1>1, <1>7 DEF FInv, RingTypes
<1>10. Ring'
  <2>1. \A k \in 1 .. d + 1 : dequeued'[k] = enqueued'[k]
    BY <1>1, <1>5, <1>6, <1>7
  <2>2. \A k \in d + 1 .. e - 1 : slots'[k % SIZE] = enqueued'[k + 1]
    BY <1>1, <1>5
  <2>3. Len(enqueued') = e /\ e - (d + 1) \in 0 .. SIZE /\ head' = d % SIZE /\ tail' = e % SIZE
        /\ count' = e - d /\ count' \in 0 .. SIZE
    BY <1>1, <1>5 DEF e
  <2> QED BY <1>7, <1>8, <2>1, <2>2, <2>3 DEF Ring
<1>11. Room'
  BY <1>2, <1>3 DEF Room
<1> QED BY <1>9, <1>10, <1>11 DEF FInv

(* and the update of the count.                                             *)
LEMMA CountKeeps ==
  ASSUME FInv, MInv, NEW t \in Children, Count(t)
  PROVE  FInv'
<1> DEFINE e == Len(enqueued)
           d == Len(dequeued)
<1>1. /\ t \in Thread /\ pc[t] = "count" /\ where[t] = "user"
      /\ UNCHANGED <<left, slots, enqueued, dequeued>>
      /\ SIZE \in Nat \ {0} /\ e \in Nat /\ d \in Nat
  <2>1. t \in Thread /\ e \in Nat /\ d \in Nat
    BY Program DEF FInv, RingTypes
  <2> QED BY <2>1, QueueAssumption DEF Count, At, Awake, QueueAssumption
<1>2. \A u \in Children : pc'[u] = IF u = t THEN "signal" ELSE pc[u]
  BY <1>1, Program DEF Count, GoTo, MInv
<1>3. \A u \in Children : u # t => pc[u] \notin {"slot", "count"}
  BY <1>1, Alone
<1>4. ~Counting(Enqueuers)' /\ ~Counting(Dequeuers)'
  BY <1>2, <1>3 DEF Counting, Children
<1>5. Entered' = e /\ Left' = d
  BY <1>1, <1>4 DEF Entered, Left
<1>6. /\ e - d \in 0 .. SIZE
      /\ \A k \in 1 .. d : dequeued[k] = enqueued[k]
      /\ \A k \in d .. e - 1 : slots[k % SIZE] = enqueued[k + 1]
  BY DEF FInv, Ring
<1>7. tail' = e % SIZE /\ head' = d % SIZE /\ count' = e - d
  <2>1. CASE t \in Enqueuers
    <3>1. t \notin Dequeuers
      BY <2>1, QueueAssumption DEF QueueAssumption
    <3>2. Counting(Enqueuers) /\ ~Counting(Dequeuers)
      BY <1>1, <1>3, <2>1, <3>1 DEF Counting, Children
    <3>3. Entered = e - 1 /\ Left = d
      BY <1>1, <3>2 DEF Entered, Left
    <3>4. tail' = (tail + 1) % SIZE /\ count' = count + 1 /\ head' = head
      BY <3>1 DEF Count
    <3>5. tail = (e - 1) % SIZE /\ head = d % SIZE /\ count = (e - 1) - d
      BY <3>3 DEF FInv, Ring
    <3>6. (((e - 1) % SIZE) + 1) % SIZE = ((e - 1) + 1) % SIZE
      <4>1. SIZE \in Nat \ {0} /\ e - 1 \in Int
        BY <1>1
      <4> HIDE DEF e
      <4> QED BY <4>1, NextSlot
    <3>7. (e - 1) + 1 = e
      BY <1>1
    <3> QED BY <1>1, <3>4, <3>5, <3>6, <3>7
  <2>2. CASE t \notin Enqueuers
    <3>1. t \in Dequeuers
      BY <2>2 DEF Children
    <3>2. ~Counting(Enqueuers) /\ Counting(Dequeuers)
      BY <1>1, <1>3, <2>2, <3>1 DEF Counting, Children
    <3>3. Entered = e /\ Left = d - 1
      BY <1>1, <3>2 DEF Entered, Left
    <3>4. head' = (head + 1) % SIZE /\ count' = count - 1 /\ tail' = tail
      BY <2>2 DEF Count
    <3>5. tail = e % SIZE /\ head = (d - 1) % SIZE /\ count = e - (d - 1)
      BY <3>3 DEF FInv, Ring
    <3>6. (((d - 1) % SIZE) + 1) % SIZE = ((d - 1) + 1) % SIZE
      <4>1. SIZE \in Nat \ {0} /\ d - 1 \in Int
        BY <1>1
      <4> HIDE DEF d
      <4> QED BY <4>1, NextSlot
    <3>7. (d - 1) + 1 = d
      BY <1>1
    <3> QED BY <1>1, <3>4, <3>5, <3>6, <3>7
  <2> QED BY <2>1, <2>2
<1>8. Ring'
  BY <1>1, <1>5, <1>6, <1>7 DEF Ring
<1>9. Room'
  BY <1>2, <1>3 DEF Room
<1> QED BY <1>1, <1>8, <1>9 DEF FInv, RingTypes

(* Every step keeps the ring.                                               *)
LEMMA RingSteps ==
  ASSUME FInv, MInv, [QueueNext]_qvars
  PROVE  FInv'
<1>1. /\ pc \in [Thread -> Labels] /\ left \in [Thread -> Int] /\ Main \in Thread
      /\ \A u \in Children : u \in Thread /\ u # Main
  BY Program DEF MInv, FInv, RingTypes
<1>2. CASE UNCHANGED qvars
  BY <1>1, <1>2, RingKept DEF qvars
<1>3. CASE MainStep
  <2>1. UNCHANGED <<left, shared>>
    BY <1>3 DEF MainStep, Setup, ForkChild, JoinChild, Finish, Continue
  <2>2. ASSUME NEW l \in Labels, GoTo(Main, l) PROVE FInv'
    BY <1>1, <2>1, <2>2, RingKept DEF GoTo
  <2>3. CASE Setup \/ Finish
    BY <2>2, <2>3 DEF Setup, Finish, Labels, Preparing
  <2>4. ASSUME NEW t \in Children, ForkChild(t) \/ JoinChild(t) PROVE FInv'
    <3>1. \E l, k \in {"lock", "joined", "fork", "join"} :
             pc' = [pc EXCEPT ![t] = l, ![Main] = k] /\ pc[t] \in {"unborn", "exited"}
      BY <2>4 DEF ForkChild, JoinChild
    <3> QED BY <1>1, <2>1, <3>1, RingKept
  <2>5. CASE Continue(Main)
    BY <1>1, <2>1, <2>5, RingKept DEF Continue
  <2> QED BY <1>3, <2>3, <2>4, <2>5 DEF MainStep
<1>4. ASSUME NEW t \in Children, ChildStep(t) PROVE FInv'
  <2>1. CASE Lock(t) \/ Report(t) \/ WaitForSlot(t) \/ Unlock(t)
    <3>1. UNCHANGED <<left, shared>> /\ pc[t] # "count"
      BY <2>1 DEF Lock, Report, WaitForSlot, Unlock, At
    <3> QED BY <1>1, <2>1, <3>1, OtherStatement DEF Lock, Report, WaitForSlot, Unlock
  <2>2. CASE PrintResult(t)
    <3>1. UNCHANGED shared /\ pc[t] # "count" /\ left' \in [Thread -> Int]
      BY <1>1, <2>2 DEF PrintResult, At
    <3> QED BY <1>1, <2>2, <3>1, OtherStatement DEF PrintResult
  <2>3. CASE Continue(t)
    BY <1>1, <2>3, RingKept DEF Continue
  <2> QED BY <1>4, <2>1, <2>2, <2>3, TestKeeps, EnqueueKeeps, DequeueKeeps, CountKeeps DEF ChildStep
<1> QED BY <1>2, <1>3, <1>4 DEF QueueNext, Done

(* What is dequeued is what was enqueued, in order, and nothing between is  *)
(* overwritten, for every size of the ring and every number of children.    *)
THEOREM RingIsAQueue == QueueSpec => []FirstInFirstOut
<1>1. QueueInit => FInv
  <2> SUFFICES ASSUME QueueInit PROVE FInv
    OBVIOUS
  <2>1. SIZE \in Nat \ {0} /\ NUM_ENQUEUE_OP \in Nat /\ NUM_DEQUEUE_OP \in Nat
    BY QueueAssumption DEF QueueAssumption
  <2>2. RingTypes
    BY <2>1 DEF QueueInit, RingTypes
  <2>3. \A u \in Children : pc[u] = "unborn"
    BY Program DEF QueueInit
  <2>4. Entered = 0 /\ Left = 0
    BY <2>3 DEF QueueInit, Entered, Left, Counting, Children
  <2>5. 0 % SIZE = 0
    <3>1. (SIZE * 0 + 0) % SIZE = 0
      BY <2>1, Remainder
    <3> QED BY <2>1, <3>1
  <2>6. Ring
    BY <2>1, <2>4, <2>5 DEF QueueInit, Ring
  <2> QED BY <2>2, <2>3, <2>6 DEF FInv, Room
<1>2. FInv /\ MInv => FirstInFirstOut
  <2> SUFFICES ASSUME FInv, MInv PROVE FirstInFirstOut
    OBVIOUS
  <2>1. /\ enqueued \in Seq(Elements) /\ dequeued \in Seq(Elements \cup {<<>>})
        /\ Len(enqueued) \in Nat /\ Len(dequeued) \in Nat /\ Len(dequeued) <= Len(enqueued)
        /\ \A k \in 1 .. Len(dequeued) : dequeued[k] = enqueued[k]
    BY QueueAssumption DEF QueueAssumption, FInv, RingTypes, Ring
  <2>2. IsPrefix(dequeued, enqueued)
    BY <2>1 DEF IsPrefix
  <2>3. ASSUME Critical = {} PROVE count = Len(enqueued) - Len(dequeued)
    <3>1. ~Counting(Enqueuers) /\ ~Counting(Dequeuers)
      BY <2>3 DEF MInv, Calling, Critical, Counting, Children
    <3> QED BY <2>1, <3>1 DEF FInv, Ring, Entered, Left
  <2> QED BY <2>2, <2>3 DEF FirstInFirstOut
<1>3. FInv /\ MInv /\ [QueueNext]_qvars => FInv'
  BY RingSteps
<1> QED BY <1>1, <1>2, <1>3, MutexInvariant, PTL DEF QueueSpec
====
