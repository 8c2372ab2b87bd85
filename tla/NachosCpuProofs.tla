---------------------------- MODULE NachosCpuProofs ----------------------------
(***************************************************************************)
(* Proofs about NachosCpu: the accounts of time, the sleepers, the         *)
(* priorities, the halt and the length of waits, for every number of       *)
(* threads, every length of ticks, quanta and timer intervals, and every   *)
(* policy.                                                                 *)
(***************************************************************************)
EXTENDS NachosCpu, NachosLists

-----------------------------------------------------------------------------
(* The inductive invariant.                                                 *)
Statuses  == {"NONE", "READY", "RUNNING", "BLOCKED", "EXITED", "FINISHED"}
Modes     == {"run", "kernel", "due", "idle", "idleDue", "halted", "timerAssert", "yieldAssert"}
Interrupt == [type : {"timer", "console"}, when : Nat]
Sleeper   == [thread : Pid, when : Nat]

CpuTypes ==
  /\ schedulingAlgo \in Policies /\ mode \in Modes /\ currentThread \in Pid
  /\ totalTicks \in Nat /\ idleTicks \in Int /\ readyIntegral \in Int
  /\ cpu_burst_start_time \in Nat /\ cpu_burst_start_time <= totalTicks
  /\ burst_start_time \in [Pid -> Int] /\ wait_start_time \in [Pid -> Int]
  /\ usage \in [Pid -> Nat] /\ basePriority \in [Pid -> Nat] /\ schedPriority \in [Pid -> Nat]
  /\ cpu_time \in Int /\ total_wait_time \in Int
  /\ empty_ready_queue_time \in Int /\ empty_ready_queue_start_time \in Int

(* A ready thread is on the list of ready threads once, a sleeping one in   *)
(* the list of sleepers once, and nobody is in both.                        *)
OnLists(list, sleepers, st) ==
  /\ list \in Seq(Pid) /\ sleepers \in Seq(Sleeper) /\ st \in [Pid -> Statuses]
  /\ Distinct(list) /\ \A t \in ToSet(list) : st[t] = "READY"
  /\ \A i, j \in DOMAIN sleepers : sleepers[i].thread = sleepers[j].thread => i = j
  /\ \A i \in DOMAIN sleepers : st[sleepers[i].thread] = "BLOCKED"

(* The timer's interrupt is never far, and whoever sleeps was not due when  *)
(* it last fired; whoever sleeps has made a console, which polls for ever.  *)
Timers(pend, sleepers, now) ==
  /\ pend \in Seq(Interrupt) /\ Ordered(pend) /\ Ordered(sleepers)
  /\ \E e \in ToSet(pend) : e.type = "timer"
  /\ \A e \in ToSet(pend) : e.type = "timer" =>
       e.when <= now + TimerTicks /\ \A s \in ToSet(sleepers) : e.when < s.when + TimerTicks
  /\ sleepers # <<>> => \E e \in ToSet(pend) : e.type = "console"

(* What is known in each mode besides.                                      *)
Modal ==
  /\ Busy => status[currentThread] = "RUNNING" /\ empty_ready_queue_start_time = -1
  /\ mode \in {"idle", "idleDue"} =>
       (readyList = <<>> <=> empty_ready_queue_start_time # -1)
  /\ mode = "idle" \/ (mode = "idleDue" /\ OnlyTimer) => readyList = <<>>
  /\ mode \in {"run", "idle"} => \A e \in ToSet(pending) : totalTicks < e.when
  /\ mode = "halted" => sleepQueue = <<>> /\ readyList = <<>>

(* The accounts, as TimeAccounted has them.  The time that the code counts  *)
(* without ready threads is only that of the idle loop.                     *)
Accounts ==
  /\ currentThread # 0 => burst_start_time[currentThread] = cpu_burst_start_time
  /\ mode = "timerAssert" => currentThread = 0
  /\ mode \notin {"timerAssert", "yieldAssert"} =>
       cpu_time + idleTicks + (IF Busy THEN Burst ELSE 0) = totalTicks
  /\ total_wait_time + Waited(readyList, totalTicks, wait_start_time) = readyIntegral
  /\ empty_ready_queue_time
       + (IF empty_ready_queue_start_time = -1 THEN 0
          ELSE totalTicks - empty_ready_queue_start_time) = idleTicks

Priorities ==
  /\ \A t \in Pid : status[t] = "NONE" => usage[t] = 0
  /\ PriorityFollowsUsage

IInv == /\ CpuTypes /\ OnLists(readyList, sleepQueue, status)
        /\ Timers(pending, sleepQueue, totalTicks) /\ Modal /\ Accounts /\ Priorities

-----------------------------------------------------------------------------
(* Lists in the order of "when".                                            *)

(* Where SortedInsert puts a new element, and what it keeps.                *)
LEMMA InsertForm ==
  ASSUME NEW S, NEW q \in Seq(S), \A x \in S : x.when \in Nat, Ordered(q), NEW e \in S
  PROVE  /\ SortedInsert(e, q) \in Seq(S) /\ Len(SortedInsert(e, q)) = Len(q) + 1
         /\ \E d \in 0 .. Len(q) : InsertedAt(d, SortedInsert(e, q), e, q)
<1>1. SortedInsert(e, q) = Inserted(e, q)
  BY DEF SortedInsert, Inserted
<1>2. /\ Inserted(e, q) \in Seq(S) /\ Len(Inserted(e, q)) = Len(q) + 1
      /\ \E d \in 0 .. Len(q) : InsertedAt(d, Inserted(e, q), e, q)
  BY InsertedForm
<1> QED BY <1>1, <1>2

(* The list gains the element and stays in order.                           *)
LEMMA InsertKeeps ==
  ASSUME NEW S, NEW q \in Seq(S), \A x \in S : x.when \in Nat, Ordered(q), NEW e \in S
  PROVE  /\ SortedInsert(e, q) \in Seq(S) /\ Ordered(SortedInsert(e, q))
         /\ Len(SortedInsert(e, q)) = Len(q) + 1
         /\ ToSet(SortedInsert(e, q)) = ToSet(q) \cup {e}
<1>1. SortedInsert(e, q) = Inserted(e, q)
  BY DEF SortedInsert, Inserted
<1>2. /\ Inserted(e, q) \in Seq(S) /\ Ordered(Inserted(e, q))
      /\ Len(Inserted(e, q)) = Len(q) + 1
      /\ ToSet(Inserted(e, q)) = ToSet(q) \cup {e}
  BY InsertedKeeps
<1> QED BY <1>1, <1>2

-----------------------------------------------------------------------------
(* Whom a policy chooses.                                                   *)

(* GetMinPriorityThread finds a thread in every list that is not empty.     *)
LEMMA ChosenIn ==
  ASSUME NEW list \in Seq(Pid), list # <<>>, NEW priority \in [Pid -> Nat]
  PROVE  Chosen(list, priority) \in DOMAIN list
<1>1. DOMAIN list = 1 .. Len(list) /\ Len(list) \in Nat /\ 1 \in DOMAIN list
      /\ \A i \in DOMAIN list : list[i] \in Pid
  OBVIOUS
<1>2. CASE ByPriority
  <2> DEFINE P == {priority[list[i]] : i \in DOMAIN list}
  <2>1. P \in SUBSET Nat /\ P # {}
    BY <1>1
  <2>2. PICK p \in P : \A n \in P : p <= n
    <3> HIDE DEF P
    <3> QED BY <2>1, MinExists
  <2> DEFINE F == {i \in DOMAIN list : priority[list[i]] = p}
  <2>3. F \in SUBSET Nat /\ F # {}
    BY <1>1, <2>2
  <2>4. PICK i \in F : \A j \in F : i <= j
    <3> HIDE DEF F
    <3> QED BY <2>3, MinExists
  <2>5. i \in DOMAIN list /\ \A j \in DOMAIN list :
          /\ priority[list[i]] <= priority[list[j]]
          /\ priority[list[i]] = priority[list[j]] => i <= j
    BY <2>2, <2>4
  <2> HIDE DEF P, F
  <2> QED BY <1>2, <2>5 DEF Chosen
<1>3. CASE ~ByPriority
  BY <1>1, <1>3 DEF Chosen
<1> QED BY <1>2, <1>3

-----------------------------------------------------------------------------
(* The lists of threads.                                                    *)

(* Every sleeper is a thread with a time.                                   *)
LEMMA SleeperTypes ==
  ASSUME NEW sleepers \in Seq(Sleeper), NEW j \in DOMAIN sleepers
  PROVE  sleepers[j] \in Sleeper /\ sleepers[j].thread \in Pid /\ sleepers[j].when \in Nat
<1>1. sleepers[j] \in Sleeper
  OBVIOUS
<1> QED BY <1>1 DEF Sleeper

(* Scheduler::Run takes a thread off the list.                              *)
LEMMA RunLists ==
  ASSUME NEW list, NEW sleepers, NEW st, OnLists(list, sleepers, st), NEW i \in DOMAIN list
  PROVE  /\ OnLists(RemoveAt(list, i), sleepers, [st EXCEPT ![list[i]] = "RUNNING"])
         /\ list[i] \in Pid /\ st[list[i]] = "READY"
<1> DEFINE t == list[i]
<1>1. /\ RemoveAt(list, i) \in Seq(Pid) /\ ToSet(RemoveAt(list, i)) = ToSet(list) \ {t}
      /\ Distinct(RemoveAt(list, i)) /\ t \in ToSet(list) /\ t \in Pid
  BY RemoveAtDistinct DEF OnLists
<1> HIDE DEF t
<1>2. st[t] = "READY" /\ st \in [Pid -> Statuses]
  BY <1>1 DEF OnLists
<1>3. \A j \in DOMAIN sleepers : sleepers[j].thread # t
  BY <1>2 DEF OnLists
<1>4. [st EXCEPT ![t] = "RUNNING"] \in [Pid -> Statuses]
  BY <1>2 DEF Statuses
<1>5. \A u \in ToSet(RemoveAt(list, i)) : u # t /\ u \in Pid /\ st[u] = "READY"
  <2>1. \A u \in ToSet(list) : u \in Pid
    BY DEF ToSet, OnLists
  <2> QED BY <1>1, <2>1 DEF OnLists
<1>6. \A j \in DOMAIN sleepers : sleepers[j].thread \in Pid
  BY SleeperTypes DEF OnLists
<1> QED BY <1>1, <1>2, <1>3, <1>4, <1>5, <1>6 DEF OnLists, t

(* Threads that are on no list become ready.                                *)
LEMMA ReadyLists ==
  ASSUME NEW list, NEW sleepers, NEW st, OnLists(list, sleepers, st),
         NEW ts \in Seq(Pid), Distinct(ts), \A t \in ToSet(ts) : st[t] # "READY",
         \A j \in DOMAIN sleepers : sleepers[j].thread \notin ToSet(ts)
  PROVE  /\ OnLists(list \o ts, sleepers, [t \in Pid |-> IF t \in ToSet(ts) THEN "READY" ELSE st[t]])
         /\ ToSet(list) \cap ToSet(ts) = {}
<1>1. ToSet(list) \cap ToSet(ts) = {}
  BY DEF OnLists
<1>2. /\ list \o ts \in Seq(Pid) /\ ToSet(list \o ts) = ToSet(list) \cup ToSet(ts)
      /\ Distinct(list \o ts)
  BY <1>1, ConcatDistinct DEF OnLists
<1>3. \A t \in ToSet(list) : t \in Pid
  BY DEF ToSet, OnLists
<1>4. \A t \in ToSet(ts) : t \in Pid
  BY DEF ToSet
<1>5. \A j \in DOMAIN sleepers : sleepers[j].thread \in Pid
  BY SleeperTypes DEF OnLists
<1> DEFINE s2 == [t \in Pid |-> IF t \in ToSet(ts) THEN "READY" ELSE st[t]]
<1>6. s2 \in [Pid -> Statuses]
  BY DEF OnLists, Statuses
<1>7. \A t \in ToSet(list \o ts) : s2[t] = "READY"
  BY <1>2, <1>3, <1>4 DEF OnLists
<1>8. \A j \in DOMAIN sleepers : s2[sleepers[j].thread] = "BLOCKED"
  BY <1>5 DEF OnLists
<1> QED BY <1>1, <1>2, <1>6, <1>7, <1>8 DEF OnLists

(* The thread on the processor, or a new one, changes its status.           *)
LEMMA StatusLists ==
  ASSUME NEW list, NEW sleepers, NEW st, OnLists(list, sleepers, st), NEW t \in Pid,
         st[t] \notin {"READY", "BLOCKED"}, NEW s \in Statuses
  PROVE  OnLists(list, sleepers, [st EXCEPT ![t] = s])
<1>1. \A u \in ToSet(list) : u \in Pid /\ u # t
  BY DEF ToSet, OnLists
<1>2. \A j \in DOMAIN sleepers : sleepers[j].thread \in Pid /\ sleepers[j].thread # t
  BY SleeperTypes DEF OnLists
<1>3. [st EXCEPT ![t] = s] \in [Pid -> Statuses]
  BY DEF OnLists
<1> QED BY <1>1, <1>2, <1>3 DEF OnLists

(* A thread that has blocked is put among the sleepers.                     *)
LEMMA SleepLists ==
  ASSUME NEW list, NEW sleepers, NEW st, OnLists(list, sleepers, st), Ordered(sleepers),
         NEW t \in Pid, st[t] \notin {"READY", "BLOCKED"}, NEW when \in Nat
  PROVE  OnLists(list, SortedInsert([thread |-> t, when |-> when], sleepers),
                 [st EXCEPT ![t] = "BLOCKED"])
<1> DEFINE e == [thread |-> t, when |-> when]
           r == SortedInsert(e, sleepers)
           l == Len(sleepers)
           s2 == [st EXCEPT ![t] = "BLOCKED"]
<1>1. OnLists(list, sleepers, s2)
  BY StatusLists DEF Statuses
<1>2. sleepers \in Seq(Sleeper) /\ e \in Sleeper /\ \A x \in Sleeper : x.when \in Nat
  BY DEF OnLists, Sleeper
<1> HIDE DEF e, r
<1>3. r \in Seq(Sleeper) /\ Len(r) = l + 1 /\ \E d \in 0 .. l : InsertedAt(d, r, e, sleepers)
  BY <1>2, InsertForm, Zenon DEF r
<1>4. PICK d \in 0 .. l : InsertedAt(d, r, e, sleepers)
  BY <1>3
<1>5. DOMAIN r = 1 .. l + 1 /\ DOMAIN sleepers = 1 .. l /\ l \in Nat
  BY <1>2, <1>3
<1>6. \A j \in 1 .. l : sleepers[j].thread # t /\ s2[sleepers[j].thread] = "BLOCKED"
  BY <1>1, <1>5 DEF OnLists
<1>7. e.thread = t /\ s2[t] = "BLOCKED"
  BY DEF e, OnLists
<1>8. ASSUME NEW i \in 1 .. l + 1
      PROVE  \/ i = d + 1 /\ r[i] = e
             \/ i <= d /\ i \in 1 .. l /\ r[i] = sleepers[i]
             \/ i > d + 1 /\ i - 1 \in 1 .. l /\ r[i] = sleepers[i - 1]
  BY <1>4, <1>5 DEF InsertedAt
<1> HIDE DEF l, s2
<1>9. \A i \in 1 .. l + 1 : s2[r[i].thread] = "BLOCKED"
  BY <1>6, <1>7, <1>8
<1>10. ASSUME NEW i \in 1 .. l + 1, NEW j \in 1 .. l + 1, r[i].thread = r[j].thread PROVE i = j
  <2>1. \A m, n \in 1 .. l : sleepers[m].thread = sleepers[n].thread => m = n
    BY <1>5 DEF OnLists
  <2>2. CASE i = d + 1 /\ r[i] = e
    BY <1>6, <1>7, <1>8, <1>10, <2>2
  <2>3. CASE i <= d /\ i \in 1 .. l /\ r[i] = sleepers[i]
    <3>1. r[j] # e
      BY <1>6, <1>7, <1>10, <2>3
    <3>2. CASE j <= d /\ j \in 1 .. l /\ r[j] = sleepers[j]
      BY <1>10, <2>1, <2>3, <3>2
    <3>3. CASE j > d + 1 /\ j - 1 \in 1 .. l /\ r[j] = sleepers[j - 1]
      <4>1. i = j - 1
        BY <1>10, <2>1, <2>3, <3>3
      <4> QED BY <1>4, <1>5, <2>3, <3>3, <4>1
    <3> QED BY <1>8, <3>1, <3>2, <3>3
  <2>4. CASE i > d + 1 /\ i - 1 \in 1 .. l /\ r[i] = sleepers[i - 1]
    <3>1. r[j] # e
      BY <1>6, <1>7, <1>10, <2>4
    <3>2. CASE j <= d /\ j \in 1 .. l /\ r[j] = sleepers[j]
      <4>1. i - 1 = j
        BY <1>10, <2>1, <2>4, <3>2
      <4> QED BY <1>4, <1>5, <2>4, <3>2, <4>1
    <3>3. CASE j > d + 1 /\ j - 1 \in 1 .. l /\ r[j] = sleepers[j - 1]
      <4>1. i - 1 = j - 1
        BY <1>10, <2>1, <2>4, <3>3
      <4> QED BY <1>5, <4>1
    <3> QED BY <1>8, <3>1, <3>2, <3>3
  <2> QED BY <1>8, <2>2, <2>3, <2>4
<1> QED BY <1>1, <1>3, <1>5, <1>9, <1>10 DEF OnLists, r, e, s2

(* The first sleepers leave.                                                *)
FirstLeave(d, woken, rest, sleepers) ==
  /\ woken = [i \in 1 .. d |-> sleepers[i].thread]
  /\ rest = SubSeq(sleepers, d + 1, Len(sleepers))

(* Those who wake up are no longer among the sleepers.                      *)
LEMMA WokenLists ==
  ASSUME NEW list, NEW sleepers, NEW st, OnLists(list, sleepers, st), NEW d \in 0 .. Len(sleepers),
         NEW woken, NEW rest, FirstLeave(d, woken, rest, sleepers)
  PROVE  /\ woken \in Seq(Pid) /\ Distinct(woken) /\ \A t \in ToSet(woken) : st[t] = "BLOCKED"
         /\ OnLists(list, rest, st) /\ \A j \in DOMAIN rest : rest[j].thread \notin ToSet(woken)
         /\ Len(rest) = Len(sleepers) - d
         /\ \A j \in DOMAIN rest : d + j \in DOMAIN sleepers /\ rest[j] = sleepers[d + j]
<1> DEFINE l == Len(sleepers)
<1>1. /\ sleepers \in Seq(Sleeper) /\ DOMAIN sleepers = 1 .. l /\ l \in Nat /\ d \in Nat /\ d <= l
      /\ \A i, j \in 1 .. l : sleepers[i].thread = sleepers[j].thread => i = j
      /\ \A i \in 1 .. l : st[sleepers[i].thread] = "BLOCKED" /\ sleepers[i].thread \in Pid
  <2>1. sleepers \in Seq(Sleeper) /\ DOMAIN sleepers = 1 .. l /\ l \in Nat /\ d \in Nat /\ d <= l
    BY DEF OnLists
  <2>2. \A i \in DOMAIN sleepers : sleepers[i].thread \in Pid
    BY <2>1, SleeperTypes
  <2> HIDE DEF l
  <2> QED BY <2>1, <2>2 DEF OnLists
<1>2. rest \in Seq(Sleeper) /\ Len(rest) = l - d /\ \A i \in 1 .. l - d : rest[i] = sleepers[d + i]
  <2>1. d + 1 \in Int /\ l \in Int /\ \A i \in d + 1 .. l : sleepers[i] \in Sleeper
    BY <1>1
  <2> USE DEF FirstLeave
  <2>2. rest \in Seq(Sleeper)
    BY <2>1, SubSeqProperties
  <2>3. Len(rest) = IF d + 1 <= l THEN l - (d + 1) + 1 ELSE 0
    BY <2>1, SubSeqProperties
  <2>4. Len(rest) = l - d
    <3> HIDE DEF l
    <3>1. CASE d = l
      BY <1>1, <2>3, <3>1
    <3>2. CASE d # l
      <4>1. d + 1 <= l /\ l - (d + 1) + 1 = l - d
        BY <1>1, <3>2
      <4> QED BY <2>3, <4>1
    <3> QED BY <3>1, <3>2
  <2>5. \A i \in 1 .. l - d : rest[i] = sleepers[d + i]
    BY <1>1
  <2> QED BY <2>2, <2>4, <2>5
<1>3. DOMAIN rest = 1 .. l - d
  <2>1. DOMAIN rest = 1 .. Len(rest)
    BY <1>2
  <2> QED BY <1>2, <2>1
<1> HIDE DEF l
<1>4. woken \in Seq(Pid) /\ Len(woken) = d /\ DOMAIN woken = 1 .. d
      /\ \A i \in 1 .. d : woken[i] = sleepers[i].thread /\ i \in 1 .. l
  <2>1. \A i \in 1 .. d : i \in 1 .. l
    BY <1>1
  <2>2. \A i \in 1 .. d : sleepers[i].thread \in Pid
    BY <1>1, <2>1
  <2> QED BY <1>1, <2>1, <2>2 DEF FirstLeave
<1>5. ToSet(woken) = {sleepers[i].thread : i \in 1 .. d}
  BY <1>4 DEF ToSet
<1>6. Distinct(woken)
  BY <1>1, <1>4 DEF Distinct
<1>7. \A t \in ToSet(woken) : st[t] = "BLOCKED"
  BY <1>1, <1>4, <1>5
<1>8. \A j \in 1 .. l - d : d + j \in 1 .. l /\ ~(d + j <= d)
  BY <1>1
<1>9. ASSUME NEW j \in 1 .. l - d PROVE rest[j].thread \notin ToSet(woken)
  <2> SUFFICES ASSUME NEW i \in 1 .. d, rest[j].thread = sleepers[i].thread PROVE FALSE
    BY <1>5
  <2>1. d + j \in 1 .. l /\ ~(d + j <= d) /\ rest[j] = sleepers[d + j] /\ i \in 1 .. l
    BY <1>2, <1>4, <1>8
  <2>2. d + j = i
    BY <1>1, <2>1
  <2> QED BY <1>1, <2>1, <2>2
<1>10. OnLists(list, rest, st)
  <2>1. ASSUME NEW i \in 1 .. l - d, NEW j \in 1 .. l - d, rest[i].thread = rest[j].thread
        PROVE  i = j
    <3>1. d + i = d + j
      BY <1>1, <1>2, <1>8, <2>1
    <3> QED BY <1>1, <3>1
  <2>2. \A j \in 1 .. l - d : st[rest[j].thread] = "BLOCKED"
    BY <1>1, <1>2, <1>8
  <2> QED BY <1>2, <1>3, <2>1, <2>2 DEF OnLists
<1> QED BY <1>1, <1>2, <1>3, <1>4, <1>6, <1>7, <1>8, <1>9, <1>10 DEF l

-----------------------------------------------------------------------------
(* The pending interrupts.                                                  *)

(* Every pending interrupt has a time.                                      *)
LEMMA PendingTypes ==
  ASSUME NEW pend \in Seq(Interrupt), NEW e \in ToSet(pend)
  PROVE  e \in Interrupt /\ e.when \in Nat
<1>1. e \in Interrupt
  BY DEF ToSet
<1> QED BY <1>1 DEF Interrupt

(* Time passes.                                                             *)
LEMMA TimersLater ==
  ASSUME NEW pend, NEW sleepers, NEW now \in Nat, NEW later \in Nat,
         Timers(pend, sleepers, now), now <= later
  PROVE  Timers(pend, sleepers, later)
<1>1. \A e \in ToSet(pend) : e.type = "timer" => e.when <= later + TimerTicks
  <2>1. TimerTicks \in Nat
    BY CpuAssumption DEF CpuAssumption
  <2>2. \A e \in ToSet(pend) : e.when \in Nat
    BY PendingTypes DEF Timers
  <2> QED BY <2>1, <2>2 DEF Timers
<1> QED BY <1>1 DEF Timers

(* An interrupt more: a console's, or the timer's next one, for which those *)
(* who sleep were not due.                                                  *)
LEMMA TimersSchedule ==
  ASSUME NEW pend \in Seq(Interrupt), Ordered(pend), NEW sleepers, Ordered(sleepers), NEW now \in Nat,
         \A e \in ToSet(pend) : e.type = "timer" =>
           e.when <= now + TimerTicks /\ \A s \in ToSet(sleepers) : e.when < s.when + TimerTicks,
         NEW e \in Interrupt,
         e.type = "timer" =>
           e.when <= now + TimerTicks /\ \A s \in ToSet(sleepers) : e.when < s.when + TimerTicks,
         e.type = "timer" \/ \E f \in ToSet(pend) : f.type = "timer",
         sleepers # <<>> => \E f \in ToSet(pend) \cup {e} : f.type = "console"
  PROVE  Timers(SortedInsert(e, pend), sleepers, now)
<1>1. \A x \in Interrupt : x.when \in Nat
  BY DEF Interrupt
<1>2. /\ SortedInsert(e, pend) \in Seq(Interrupt) /\ Ordered(SortedInsert(e, pend))
      /\ ToSet(SortedInsert(e, pend)) = ToSet(pend) \cup {e}
  BY <1>1, InsertKeeps
<1> DEFINE r == SortedInsert(e, pend)
<1> HIDE DEF r
<1>3. \A f \in ToSet(r) : f.type = "timer" =>
        f.when <= now + TimerTicks /\ \A s \in ToSet(sleepers) : f.when < s.when + TimerTicks
  BY <1>2 DEF r
<1>4. \E f \in ToSet(r) : f.type = "timer"
  BY <1>2 DEF r
<1>5. sleepers # <<>> => \E f \in ToSet(r) : f.type = "console"
  BY <1>2 DEF r
<1>6. r \in Seq(Interrupt) /\ Ordered(r)
  BY <1>2 DEF r
<1>7. Timers(r, sleepers, now)
  BY <1>3, <1>4, <1>5, <1>6 DEF Timers
<1> QED BY <1>7 DEF r

(* CheckIfDue puts back what it took.                                       *)
LEMMA TimersPutBack ==
  ASSUME NEW pend, NEW sleepers, NEW now \in Nat, Timers(pend, sleepers, now)
  PROVE  /\ Timers(SortedInsert(Head(pend), Tail(pend)), sleepers, now)
         /\ ToSet(SortedInsert(Head(pend), Tail(pend))) = ToSet(pend)
         /\ \A e \in ToSet(pend) : Head(pend).when <= e.when
<1> DEFINE h == Head(pend)
           t == Tail(pend)
<1>1. pend \in Seq(Interrupt) /\ pend # <<>> /\ Ordered(pend)
  BY DEF Timers, ToSet
<1>2. /\ h \in Interrupt /\ t \in Seq(Interrupt) /\ Ordered(t) /\ ToSet(pend) = ToSet(t) \cup {h}
      /\ \A e \in ToSet(pend) : h.when <= e.when
  BY <1>1, TailKeeps
<1> HIDE DEF h, t
<1>3. ToSet(SortedInsert(h, t)) = ToSet(t) \cup {h}
  <2>1. \A x \in Interrupt : x.when \in Nat
    BY DEF Interrupt
  <2> QED BY <1>2, <2>1, InsertKeeps
<1>4. Timers(SortedInsert(h, t), sleepers, now)
  <2>1. Ordered(sleepers) /\ h \in ToSet(pend) /\ \A e \in ToSet(t) : e \in ToSet(pend)
    BY <1>2 DEF Timers
  <2>2. \A e \in ToSet(t) \cup {h} : e.type = "timer" =>
          e.when <= now + TimerTicks /\ \A s \in ToSet(sleepers) : e.when < s.when + TimerTicks
    BY <1>2 DEF Timers
  <2>3. h.type = "timer" \/ \E f \in ToSet(t) : f.type = "timer"
    BY <1>2 DEF Timers
  <2>4. sleepers # <<>> => \E f \in ToSet(t) \cup {h} : f.type = "console"
    BY <1>2 DEF Timers
  <2> QED BY <1>2, <2>1, <2>2, <2>3, <2>4, TimersSchedule
<1> QED BY <1>2, <1>3, <1>4 DEF h, t

(* A sleeper whose time is to come, when a console polls.                   *)
LEMMA TimersSleep ==
  ASSUME NEW pend, NEW sleepers \in Seq(Sleeper), NEW now \in Nat, Timers(pend, sleepers, now),
         \E e \in ToSet(pend) : e.type = "console", NEW s \in Sleeper, now < s.when
  PROVE  Timers(pend, SortedInsert(s, sleepers), now)
<1>1. \A x \in Sleeper : x.when \in Nat
  BY DEF Sleeper
<1>2. Ordered(sleepers)
  BY DEF Timers
<1>3. Ordered(SortedInsert(s, sleepers)) /\ ToSet(SortedInsert(s, sleepers)) = ToSet(sleepers) \cup {s}
  BY <1>1, <1>2, InsertKeeps
<1>4. \A e \in ToSet(pend) : e.type = "timer" => e.when < s.when + TimerTicks
  <2>1. TimerTicks \in Nat
    BY CpuAssumption DEF CpuAssumption
  <2>2. \A e \in ToSet(pend) : e.when \in Nat
    BY PendingTypes DEF Timers
  <2>3. s.when \in Nat
    BY <1>1
  <2> QED BY <2>1, <2>2, <2>3 DEF Timers
<1> DEFINE r == SortedInsert(s, sleepers)
<1> HIDE DEF r
<1>5. Ordered(r) /\ \A e \in ToSet(pend) : e.type = "timer" =>
        \A x \in ToSet(r) : e.when < x.when + TimerTicks
  BY <1>3, <1>4 DEF Timers, r
<1>6. Timers(pend, r, now)
  BY <1>5 DEF Timers
<1> QED BY <1>6 DEF r

(* A console polls again, at another time.                                  *)
LEMMA TimersPoll ==
  ASSUME NEW pend, NEW sleepers, NEW now \in Nat, Timers(pend, sleepers, now),
         Head(pend).type = "console", NEW when \in Nat
  PROVE  Timers(SortedInsert([Head(pend) EXCEPT !.when = when], Tail(pend)), sleepers, now)
<1> DEFINE h == Head(pend)
           t == Tail(pend)
           e == [h EXCEPT !.when = when]
<1>1. pend \in Seq(Interrupt) /\ pend # <<>> /\ Ordered(pend) /\ Ordered(sleepers)
  BY DEF Timers, ToSet
<1>2. h \in Interrupt /\ t \in Seq(Interrupt) /\ Ordered(t) /\ ToSet(pend) = ToSet(t) \cup {h}
  BY <1>1, TailKeeps
<1>3. e \in Interrupt /\ e.type = "console"
  BY <1>2 DEF Interrupt
<1> HIDE DEF t, e
<1>4. \A f \in ToSet(t) : f.type = "timer" =>
        f.when <= now + TimerTicks /\ \A s \in ToSet(sleepers) : f.when < s.when + TimerTicks
  BY <1>2 DEF Timers
<1>5. \E f \in ToSet(t) : f.type = "timer"
  BY <1>2 DEF Timers
<1>6. \E f \in ToSet(t) \cup {e} : f.type = "console"
  BY <1>3
<1> QED BY <1>1, <1>2, <1>3, <1>4, <1>5, <1>6, TimersSchedule DEF t, e

(* The timer fires: it comes again after TimerTicks, and those who are due  *)
(* sleep no longer.                                                         *)
LEMMA TimersFire ==
  ASSUME NEW pend, NEW sleepers, NEW now \in Nat, Timers(pend, sleepers, now),
         Head(pend).type = "timer",
         NEW rest \in Seq(Sleeper), Ordered(rest), \A s \in ToSet(rest) : s \in ToSet(sleepers) /\ now < s.when
                                                         /\ s.when \in Nat
  PROVE  Timers(SortedInsert([Head(pend) EXCEPT !.when = now + TimerTicks], Tail(pend)), rest, now)
<1> DEFINE h == Head(pend)
           t == Tail(pend)
           e == [h EXCEPT !.when = now + TimerTicks]
<1>1. pend \in Seq(Interrupt) /\ pend # <<>> /\ Ordered(pend) /\ TimerTicks \in Nat
  BY CpuAssumption DEF CpuAssumption, Timers, ToSet
<1>2. h \in Interrupt /\ t \in Seq(Interrupt) /\ Ordered(t) /\ ToSet(pend) = ToSet(t) \cup {h}
  BY <1>1, TailKeeps
<1>3. e \in Interrupt /\ e.type = "timer" /\ e.when = now + TimerTicks
  BY <1>1, <1>2 DEF Interrupt
<1> HIDE DEF t, e
<1>4. \A f \in ToSet(t) : f.type = "timer" =>
        f.when <= now + TimerTicks /\ \A s \in ToSet(rest) : f.when < s.when + TimerTicks
  BY <1>2 DEF Timers
<1>5. e.when <= now + TimerTicks /\ \A s \in ToSet(rest) : e.when < s.when + TimerTicks
  BY <1>1, <1>3
<1>6. rest # <<>> => \E f \in ToSet(t) : f.type = "console"
  <2> SUFFICES ASSUME rest # <<>> PROVE \E f \in ToSet(t) : f.type = "console"
    OBVIOUS
  <2>1. sleepers # <<>>
    <3>1. 1 \in DOMAIN rest
      OBVIOUS
    <3>2. rest[1] \in ToSet(sleepers)
      BY <3>1 DEF ToSet
    <3> QED BY <3>2 DEF ToSet
  <2> QED BY <1>2, <2>1 DEF Timers
<1> QED BY <1>2, <1>3, <1>4, <1>5, <1>6, TimersSchedule DEF t, e

-----------------------------------------------------------------------------
(* What the kernel does on the way to a switch.                             *)

(* ExceptionHandler makes a console, and the console polls.                 *)
LEMMA NewConsoleDoes ==
  ASSUME IInv, NewConsole
  PROVE  /\ Timers(pending', sleepQueue, totalTicks)
         /\ \E e \in ToSet(pending') : e.type = "console"
         /\ mode = "run" => \A e \in ToSet(pending') : totalTicks < e.when
<1> DEFINE consoles == {i \in DOMAIN pending : pending[i].type = "console"}
           e == [type |-> "console", when |-> totalTicks + ConsoleTime]
<1>1. /\ Timers(pending, sleepQueue, totalTicks) /\ totalTicks \in Nat
      /\ mode = "run" => \A f \in ToSet(pending) : totalTicks < f.when
      /\ ConsoleTime \in Nat \ {0} /\ MaxConsoles \in Nat \ {0}
  BY CpuAssumption DEF CpuAssumption, IInv, CpuTypes, Modal
<1>2. CASE Cardinality(consoles) < MaxConsoles
  <2>1. pending' = SortedInsert(e, pending)
    BY <1>2 DEF NewConsole
  <2>2. e \in Interrupt /\ e.type = "console" /\ totalTicks < e.when
    BY <1>1 DEF Interrupt
  <2> HIDE DEF e, consoles
  <2>3. Timers(SortedInsert(e, pending), sleepQueue, totalTicks)
    BY <1>1, <2>2, TimersSchedule DEF Timers
  <2>4. ToSet(SortedInsert(e, pending)) = ToSet(pending) \cup {e}
    <3>1. \A x \in Interrupt : x.when \in Nat
      BY DEF Interrupt
    <3> QED BY <1>1, <2>2, <3>1, InsertKeeps DEF Timers
  <2> QED BY <1>1, <2>1, <2>2, <2>3, <2>4
<1>3. CASE ~(Cardinality(consoles) < MaxConsoles)
  <2>1. pending' = pending
    BY <1>3 DEF NewConsole
  <2>2. consoles # {}
    <3>1. Cardinality({}) = 0
      BY FS_EmptySet
    <3>2. Cardinality(consoles) # 0
      <4> HIDE DEF consoles
      <4> QED BY <1>1, <1>3
    <3> HIDE DEF consoles
    <3> QED BY <3>1, <3>2
  <2>3. PICK i \in DOMAIN pending : pending[i].type = "console"
    BY <2>2
  <2>4. pending[i] \in ToSet(pending)
    BY DEF ToSet
  <2> QED BY <1>1, <2>1, <2>3, <2>4
<1> QED BY <1>2, <1>3

(* A burst ends: it is charged, and UNIX_SCHED computes all priorities.     *)
LEMMA BurstEnds ==
  ASSUME IInv, EndBurst
  PROVE  /\ cpu_time' = cpu_time + Burst /\ Burst \in Nat
         /\ usage' \in [Pid -> Nat] /\ schedPriority' \in [Pid -> Nat]
         /\ \A t \in Pid : status[t] = "NONE" => usage'[t] = 0
         /\ schedulingAlgo = "UNIX_SCHED" =>
              \A t \in Pid : Live(t) => schedPriority'[t] = basePriority[t] + usage'[t] \div 2
<1>1. /\ CpuTypes /\ Burst \in Nat /\ cpu_time' = cpu_time + Burst
      /\ \A t \in Pid : status[t] = "NONE" => usage[t] = 0
      /\ schedulingAlgo = "UNIX_SCHED" =>
           \A t \in Pid : Live(t) => schedPriority[t] = basePriority[t] + usage[t] \div 2
  BY DEF IInv, CpuTypes, Burst, EndBurst, Priorities, PriorityFollowsUsage
<1>2. /\ usage \in [Pid -> Nat] /\ basePriority \in [Pid -> Nat] /\ schedPriority \in [Pid -> Nat]
      /\ currentThread \in Pid
  BY <1>1 DEF CpuTypes
<1> HIDE DEF Burst
<1>3. CASE UpdateThreadPriority
  <2>1. \A t \in Pid : Charged(t) \in Nat /\ Charged(t) \div 2 \in Nat
    BY <1>1, <1>2 DEF Charged
  <2>2. /\ usage' = [t \in Pid |-> IF Live(t) THEN Charged(t) ELSE usage[t]]
        /\ schedPriority' = [t \in Pid |-> IF Live(t) THEN basePriority[t] + Charged(t) \div 2
                                           ELSE schedPriority[t]]
    BY <1>3 DEF UpdateThreadPriority
  <2>3. usage' \in [Pid -> Nat] /\ schedPriority' \in [Pid -> Nat]
    BY <1>2, <2>1, <2>2
  <2>4. \A t \in Pid : status[t] = "NONE" => usage'[t] = 0
    BY <1>1, <2>2 DEF Live
  <2>5. \A t \in Pid : Live(t) => schedPriority'[t] = basePriority[t] + usage'[t] \div 2
    BY <2>2
  <2> QED BY <1>1, <2>3, <2>4, <2>5
<1>4. CASE /\ schedulingAlgo = "NON_PREEMPTIVE_SJF" /\ usage' = usage
           /\ schedPriority' = [schedPriority EXCEPT ![currentThread] =
                                  (Burst + schedPriority[currentThread]) \div 2]
  <2>1. (Burst + schedPriority[currentThread]) \div 2 \in Nat
    BY <1>1, <1>2
  <2> QED BY <1>1, <1>2, <1>4, <2>1
<1>5. CASE usage' = usage /\ schedPriority' = schedPriority
  BY <1>1, <1>2, <1>5
<1> QED BY <1>3, <1>4, <1>5 DEF EndBurst

(* Nobody comes alive, and the priorities are those computed.               *)
LEMMA BurstPriorities ==
  ASSUME IInv, EndBurst, basePriority' = basePriority, schedulingAlgo' = schedulingAlgo,
         \A t \in Pid : /\ Live(t)' => Live(t)
                        /\ status'[t] = "NONE" => status[t] = "NONE"
  PROVE  Priorities'
<1>1. /\ \A t \in Pid : status[t] = "NONE" => usage'[t] = 0
      /\ schedulingAlgo = "UNIX_SCHED" =>
           \A t \in Pid : Live(t) => schedPriority'[t] = basePriority[t] + usage'[t] \div 2
  BY BurstEnds
<1> QED BY <1>1 DEF Priorities, PriorityFollowsUsage

(* Nobody comes alive, and nothing is charged.                              *)
LEMMA SamePriorities ==
  ASSUME Priorities, UNCHANGED <<usage, schedPriority, basePriority, schedulingAlgo>>,
         \A t \in Pid : /\ Live(t)' => Live(t)
                        /\ status'[t] = "NONE" => status[t] = "NONE"
  PROVE  Priorities'
BY DEF Priorities, PriorityFollowsUsage

(* A dispatch, whatever came before it in the same step.                    *)
LEMMA RunKeeps ==
  ASSUME IInv, NEW list, NEW i \in DOMAIN list, NEW st, NEW waits \in [Pid -> Int],
         Run(list, i, st, waits), OnLists(list, sleepQueue', st),
         total_wait_time + Waited(list, totalTicks, waits) = readyIntegral,
         Timers(pending', sleepQueue', totalTicks), Priorities',
         schedulingAlgo' = schedulingAlgo, totalTicks' = totalTicks, idleTicks' = idleTicks,
         readyIntegral' = readyIntegral,
         usage' \in [Pid -> Nat], basePriority' \in [Pid -> Nat], schedPriority' \in [Pid -> Nat],
         cpu_time' \in Int, cpu_time' + idleTicks = totalTicks,
         empty_ready_queue_start_time' = -1, empty_ready_queue_time' = idleTicks
  PROVE  IInv'
<1> DEFINE t == list[i]
<1>1. /\ currentThread' = t /\ readyList' = RemoveAt(list, i)
      /\ status' = [st EXCEPT ![t] = "RUNNING"] /\ cpu_burst_start_time' = totalTicks
      /\ burst_start_time' = [burst_start_time EXCEPT ![t] = totalTicks]
      /\ wait_start_time' = waits
      /\ total_wait_time' = total_wait_time + totalTicks - waits[t]
      /\ mode' = "kernel"
  BY DEF Run
<1>2. OnLists(RemoveAt(list, i), sleepQueue', [st EXCEPT ![t] = "RUNNING"]) /\ t \in Pid
  BY RunLists
<1>3. OnLists(readyList', sleepQueue', status')
  BY <1>1, <1>2
<1>4. Waited(RemoveAt(list, i), totalTicks, waits) + (totalTicks - waits[t])
        = Waited(list, totalTicks, waits)
  <2>1. list \in Seq(Pid) /\ totalTicks \in Int
    BY DEF OnLists, IInv, CpuTypes
  <2>2. i \in 1 .. Len(list)
    BY SMTT(30), <2>1
  <2> HIDE DEF t
  <2>3. Waited(RemoveAt(list, i), totalTicks, waits) + (totalTicks - waits[list[i]])
          = Waited(list, totalTicks, waits)
    <3>1. \A q \in Seq(Pid), now \in Int, since \in [Pid -> Int] : \A k \in 1 .. Len(q) :
            Waited(RemoveAt(q, k), now, since) + (now - since[q[k]]) = Waited(q, now, since)
      BY WaitedRemove
    <3> QED BY <2>1, <2>2, <3>1, Zenon
  <2> QED BY <2>3 DEF t
<1>5. /\ Waited(RemoveAt(list, i), totalTicks, waits) \in Int /\ waits[t] \in Int
      /\ Waited(list, totalTicks, waits) \in Int
  <2>1. RemoveAt(list, i) \in Seq(Pid) /\ list \in Seq(Pid) /\ totalTicks \in Int
    BY <1>2 DEF OnLists, IInv, CpuTypes
  <2> QED BY <1>2, <2>1, WaitedInt
<1> HIDE DEF t
<1>6. /\ schedulingAlgo \in Policies /\ totalTicks \in Nat /\ idleTicks \in Int
      /\ readyIntegral \in Int /\ total_wait_time \in Int /\ burst_start_time \in [Pid -> Int]
  BY DEF IInv, CpuTypes
<1>7. CpuTypes'
  <2>1. burst_start_time' \in [Pid -> Int] /\ burst_start_time'[t] = totalTicks
    BY <1>1, <1>2, <1>6
  <2>2. mode' \in Modes
    BY <1>1 DEF Modes
  <2>3. total_wait_time' \in Int
    BY <1>1, <1>5, <1>6
  <2> QED BY <1>1, <1>2, <1>6, <2>1, <2>2, <2>3 DEF CpuTypes
<1>8. Modal'
  <2>1. status'[currentThread'] = "RUNNING"
    BY <1>1, <1>2, <1>3 DEF OnLists
  <2> QED BY <1>1, <2>1 DEF Modal, Busy
<1>9. Accounts'
  <2>1. burst_start_time'[currentThread'] = cpu_burst_start_time'
    BY <1>1, <1>2, <1>6
  <2>2. total_wait_time' + Waited(RemoveAt(list, i), totalTicks, waits) = readyIntegral
    BY <1>1, <1>4, <1>5, <1>6
  <2>3. total_wait_time' + Waited(readyList', totalTicks', wait_start_time') = readyIntegral'
    BY <1>1, <2>2
  <2>4. cpu_time' + idleTicks' + (totalTicks' - cpu_burst_start_time') = totalTicks'
    <3>1. totalTicks - totalTicks = 0 /\ totalTicks + 0 = totalTicks
      BY <1>6
    <3>2. cpu_time' + idleTicks' = totalTicks /\ totalTicks' - cpu_burst_start_time' = 0
      BY <1>1, <3>1
    <3> QED BY <3>1, <3>2
  <2>5. cpu_time' + idleTicks' + (IF Busy THEN Burst ELSE 0)' = totalTicks'
    BY <1>1, <2>4 DEF Busy, Burst
  <2>6. empty_ready_queue_time' + (IF empty_ready_queue_start_time' = -1 THEN 0
          ELSE totalTicks' - empty_ready_queue_start_time') = idleTicks'
    BY <1>6
  <2> QED BY <1>1, <2>1, <2>3, <2>5, <2>6 DEF Accounts
<1>10. Timers(pending, sleepQueue, totalTicks)'
  <2>1. totalTicks' = totalTicks
    OBVIOUS
  <2> QED BY <2>1
<1> QED BY <1>3, <1>7, <1>8, <1>9, <1>10 DEF IInv

(* The processor has nobody to run, or the last thread has exited.          *)
LEMMA OffKeeps ==
  ASSUME IInv, Busy, mode' \in {"idle", "halted"}, readyList = <<>>, readyList' = <<>>,
         mode' = "halted" => sleepQueue' = <<>>,
         mode' = "idle" => \A e \in ToSet(pending') : totalTicks < e.when,
         OnLists(<<>>, sleepQueue', status'), Timers(pending', sleepQueue', totalTicks), Priorities',
         UNCHANGED <<schedulingAlgo, totalTicks, idleTicks, readyIntegral, currentThread, starts,
                     basePriority, total_wait_time, empty_ready_queue_time>>,
         usage' \in [Pid -> Nat], schedPriority' \in [Pid -> Nat],
         cpu_time' = cpu_time + Burst, empty_ready_queue_start_time' = totalTicks
  PROVE  IInv'
<1>1. /\ totalTicks' = totalTicks /\ idleTicks' = idleTicks /\ readyIntegral' = readyIntegral
      /\ currentThread' = currentThread /\ cpu_burst_start_time' = cpu_burst_start_time
      /\ burst_start_time' = burst_start_time /\ wait_start_time' = wait_start_time
      /\ basePriority' = basePriority /\ total_wait_time' = total_wait_time
      /\ empty_ready_queue_time' = empty_ready_queue_time /\ schedulingAlgo' = schedulingAlgo
  BY DEF starts
<1>2. /\ CpuTypes /\ mode \notin {"timerAssert", "yieldAssert"}
      /\ empty_ready_queue_start_time = -1
  BY DEF IInv, Modal, Busy
<1>3. /\ totalTicks \in Nat /\ idleTicks \in Int /\ cpu_time \in Int /\ Burst \in Int
      /\ empty_ready_queue_time \in Int /\ totalTicks # -1
  BY <1>2 DEF CpuTypes, Burst
<1>4. cpu_time + idleTicks + Burst = totalTicks /\ empty_ready_queue_time = idleTicks
  <2>1. cpu_time + idleTicks + (IF Busy THEN Burst ELSE 0) = totalTicks
    BY <1>2 DEF IInv, Accounts
  <2>2. empty_ready_queue_time + 0 = idleTicks
    BY <1>2 DEF IInv, Accounts
  <2> QED BY <1>3, <2>1, <2>2
<1> HIDE DEF Burst
<1>5. CpuTypes'
  <2>1. mode' \in Modes
    BY DEF Modes
  <2>2. cpu_time' \in Int
    BY <1>3
  <2> QED BY <1>1, <1>2, <1>3, <2>1, <2>2 DEF CpuTypes
<1>6. Modal'
  BY <1>1, <1>3 DEF Modal, Busy
<1>7. Accounts'
  <2>1. cpu_time' + idleTicks' = totalTicks'
    BY <1>1, <1>3, <1>4
  <2>2. cpu_time' + idleTicks' + (IF Busy THEN Burst ELSE 0)' = totalTicks'
    <3>1. ~Busy'
      BY DEF Busy
    <3>2. cpu_time' + idleTicks' \in Int
      BY <1>1, <1>3
    <3> QED BY <2>1, <3>1, <3>2
  <2>3. totalTicks' - empty_ready_queue_start_time' = 0
    BY <1>1, <1>3
  <2>4. empty_ready_queue_time' + (IF empty_ready_queue_start_time' = -1 THEN 0
          ELSE totalTicks' - empty_ready_queue_start_time') = idleTicks'
    BY <1>1, <1>3, <1>4, <2>3
  <2>5. total_wait_time' + Waited(readyList', totalTicks', wait_start_time') = readyIntegral'
    BY <1>1 DEF IInv, Accounts
  <2>6. currentThread' # 0 => burst_start_time'[currentThread'] = cpu_burst_start_time'
    BY <1>1 DEF IInv, Accounts
  <2> QED BY <2>2, <2>4, <2>5, <2>6 DEF Accounts
<1>8. Timers(pending, sleepQueue, totalTicks)'
  BY <1>1
<1>9. OnLists(readyList, sleepQueue, status)'
  OBVIOUS
<1> QED BY <1>5, <1>6, <1>7, <1>8, <1>9 DEF IInv

(* The end of PutThreadToSleep and Exit.                                    *)
LEMMA SwitchKeeps ==
  ASSUME IInv, Busy, EndBurst, NEW list, NEW st, NEW waits \in [Pid -> Int],
         SwitchOrIdle(list, st, waits), OnLists(list, sleepQueue', st),
         list = <<>> => readyList = <<>>,
         total_wait_time + Waited(list, totalTicks, waits) = readyIntegral,
         Timers(pending', sleepQueue', totalTicks),
         \A e \in ToSet(pending') : totalTicks < e.when,
         \A t \in Pid : /\ st[t] \notin {"NONE", "EXITED", "FINISHED"} => Live(t)
                        /\ st[t] = "NONE" => status[t] = "NONE",
         UNCHANGED <<schedulingAlgo, totalTicks, idleTicks, readyIntegral, basePriority>>
  PROVE  IInv'
<1>1. /\ cpu_time' = cpu_time + Burst /\ Burst \in Nat
      /\ usage' \in [Pid -> Nat] /\ schedPriority' \in [Pid -> Nat]
  BY BurstEnds
<1>2. /\ CpuTypes /\ mode \notin {"timerAssert", "yieldAssert"}
      /\ empty_ready_queue_start_time = -1
  BY DEF IInv, Modal, Busy
<1>3. /\ schedulingAlgo' = schedulingAlgo /\ totalTicks' = totalTicks /\ idleTicks' = idleTicks
      /\ readyIntegral' = readyIntegral /\ basePriority' = basePriority
      /\ totalTicks \in Nat /\ idleTicks \in Int /\ cpu_time \in Int
      /\ empty_ready_queue_time \in Int /\ basePriority' \in [Pid -> Nat]
  BY <1>2 DEF CpuTypes
<1>4. cpu_time + idleTicks + Burst = totalTicks /\ empty_ready_queue_time = idleTicks
  <2>1. cpu_time + idleTicks + (IF Busy THEN Burst ELSE 0) = totalTicks
    BY <1>2 DEF IInv, Accounts
  <2>2. empty_ready_queue_time + 0 = idleTicks
    BY <1>2 DEF IInv, Accounts
  <2> QED BY <1>3, <2>1, <2>2
<1> HIDE DEF Burst
<1>5. list \in Seq(Pid) /\ st \in [Pid -> Statuses]
  BY DEF OnLists
<1>6. CASE list # <<>>
  <2>1. PICK i : i = Chosen(list, schedPriority')
    OBVIOUS
  <2>2. Chosen(list, schedPriority') \in DOMAIN list
    BY <1>1, <1>5, <1>6, ChosenIn
  <2>3. Run(list, i, st, waits) /\ UNCHANGED emptiness
    BY <1>6, <2>1 DEF SwitchOrIdle, Run
  <2>4. status' = [st EXCEPT ![list[i]] = "RUNNING"] /\ i \in DOMAIN list
    BY <2>1, <2>2, <2>3 DEF Run
  <2>5. st[list[i]] = "READY" /\ list[i] \in Pid
    BY <2>4, RunLists
  <2>6. \A t \in Pid : (Live(t)' => Live(t)) /\ (status'[t] = "NONE" => status[t] = "NONE")
    BY <1>5, <2>4, <2>5 DEF Live
  <2>7. Priorities'
    BY <1>3, <2>6, BurstPriorities
  <2>8. empty_ready_queue_start_time' = -1 /\ empty_ready_queue_time' = idleTicks
    BY <1>2, <1>4, <2>3 DEF emptiness
  <2>9. cpu_time' \in Int /\ cpu_time' + idleTicks = totalTicks
    BY <1>1, <1>3, <1>4
  <2> QED BY <1>1, <1>3, <2>3, <2>4, <2>7, <2>8, <2>9, RunKeeps
<1>7. CASE list = <<>>
  <2>1. /\ empty_ready_queue_start_time' = totalTicks /\ mode' = "idle" /\ status' = st
        /\ empty_ready_queue_time' = empty_ready_queue_time /\ currentThread' = currentThread
        /\ readyList' = readyList /\ starts' = starts /\ total_wait_time' = total_wait_time
    BY <1>7 DEF SwitchOrIdle
  <2>2. \A t \in Pid : (Live(t)' => Live(t)) /\ (status'[t] = "NONE" => status[t] = "NONE")
    BY <2>1 DEF Live
  <2>3. Priorities'
    BY <1>3, <2>2, BurstPriorities
  <2>4. OnLists(<<>>, sleepQueue', status')
    BY <1>7, <2>1
  <2> QED BY <1>1, <1>3, <1>7, <2>1, <2>3, <2>4, OffKeeps
<1> QED BY <1>6, <1>7

-----------------------------------------------------------------------------
(* Threads become ready.                                                    *)

(* One thread as a list.                                                    *)
LEMMA Single ==
  ASSUME NEW t \in Pid, NEW list \in Seq(Pid)
  PROVE  /\ <<t>> \in Seq(Pid) /\ Distinct(<<t>>) /\ ToSet(<<t>>) = {t} /\ <<t>> # <<>>
         /\ Append(list, t) = list \o <<t>>
<1>1. <<t>> \in Seq(Pid) /\ <<t>> # <<>> /\ DOMAIN <<t>> = {1} /\ <<t>>[1] = t
  OBVIOUS
<1>2. Distinct(<<t>>)
  BY <1>1 DEF Distinct
<1>3. ToSet(<<t>>) = {t}
  BY <1>1 DEF ToSet
<1> QED BY <1>1, <1>2, <1>3, AppendIsConcat

(* Neither the lists nor the account of waits suffer.                       *)
LEMMA ReadyDoes ==
  ASSUME IInv, NEW sleepers, OnLists(readyList, sleepers, status),
         NEW ts \in Seq(Pid), Distinct(ts), \A t \in ToSet(ts) : status[t] # "READY",
         \A j \in DOMAIN sleepers : sleepers[j].thread \notin ToSet(ts)
  PROVE  /\ OnLists(readyList \o ts, sleepers, Readied(ts))
         /\ WaitsFrom(ts) \in [Pid -> Int]
         /\ total_wait_time + Waited(readyList \o ts, totalTicks, WaitsFrom(ts)) = readyIntegral
<1>1. /\ OnLists(readyList \o ts, sleepers, Readied(ts))
      /\ ToSet(readyList) \cap ToSet(ts) = {}
  BY ReadyLists DEF Readied
<1>2. wait_start_time \in [Pid -> Int] /\ totalTicks \in Int /\ readyList \in Seq(Pid)
  BY DEF IInv, CpuTypes, OnLists
<1>3. Waited(readyList \o ts, totalTicks, WaitsFrom(ts))
        = Waited(readyList, totalTicks, wait_start_time)
  <2>1. \A list \in Seq(Pid), since \in [Pid -> Int], now \in Int :
          ToSet(list) \cap ToSet(ts) = {} =>
            Waited(list \o ts, now, [t \in Pid |-> IF t \in ToSet(ts) THEN now ELSE since[t]])
              = Waited(list, now, since)
    BY WaitedJoined
  <2> QED BY <1>1, <1>2, <2>1, Zenon DEF WaitsFrom
<1>4. WaitsFrom(ts) \in [Pid -> Int]
  BY <1>2 DEF WaitsFrom
<1> QED BY <1>1, <1>3, <1>4 DEF IInv, Accounts

(* The account of the time without ready threads.                           *)
LEMMA EmptyDoes ==
  ASSUME IInv, NEW ts, NoLongerEmpty(ts)
  PROVE  /\ empty_ready_queue_time' \in Int /\ empty_ready_queue_start_time' \in Int
         /\ empty_ready_queue_time' + (IF empty_ready_queue_start_time' = -1 THEN 0
              ELSE totalTicks - empty_ready_queue_start_time') = idleTicks
         /\ empty_ready_queue_start_time' =
              IF readyList = <<>> /\ ts # <<>> THEN -1 ELSE empty_ready_queue_start_time
<1>1. /\ empty_ready_queue_time \in Int /\ empty_ready_queue_start_time \in Int
      /\ totalTicks \in Int /\ idleTicks \in Int
      /\ empty_ready_queue_time + (IF empty_ready_queue_start_time = -1 THEN 0
           ELSE totalTicks - empty_ready_queue_start_time) = idleTicks
  BY DEF IInv, CpuTypes, Accounts
<1>2. CASE readyList = <<>> /\ ts # <<>> /\ empty_ready_queue_start_time # -1
  <2>1. /\ empty_ready_queue_time' =
             empty_ready_queue_time + (totalTicks - empty_ready_queue_start_time)
        /\ empty_ready_queue_start_time' = -1
    BY <1>2 DEF NoLongerEmpty
  <2> QED BY <1>1, <1>2, <2>1
<1>3. CASE ~(readyList = <<>> /\ ts # <<>> /\ empty_ready_queue_start_time # -1)
  <2>1. /\ empty_ready_queue_time' = empty_ready_queue_time + 0
        /\ empty_ready_queue_start_time' = empty_ready_queue_start_time
    BY <1>3 DEF NoLongerEmpty
  <2> QED BY <1>1, <1>3, <2>1
<1> QED BY <1>2, <1>3

(* Another thread, or a new one, becomes ready while the current one runs.  *)
LEMMA ReadyKeeps ==
  ASSUME IInv, mode = "run", NEW t \in Pid, Ready(t), status[t] \notin {"READY", "RUNNING"},
         \A j \in DOMAIN sleepQueue : sleepQueue[j].thread # t,
         Timers(pending', sleepQueue, totalTicks), Priorities',
         usage' \in [Pid -> Nat], basePriority' \in [Pid -> Nat], schedPriority' \in [Pid -> Nat]
  PROVE  IInv'
<1>1. /\ readyList' = Append(readyList, t) /\ status' = Readied(<<t>>)
      /\ wait_start_time' = WaitsFrom(<<t>>) /\ NoLongerEmpty(<<t>>) /\ mode' = "kernel"
      /\ schedulingAlgo' = schedulingAlgo /\ totalTicks' = totalTicks /\ idleTicks' = idleTicks
      /\ readyIntegral' = readyIntegral /\ currentThread' = currentThread
      /\ sleepQueue' = sleepQueue /\ cpu_burst_start_time' = cpu_burst_start_time
      /\ burst_start_time' = burst_start_time /\ cpu_time' = cpu_time
      /\ total_wait_time' = total_wait_time
  BY DEF Ready, clock
<1>2. /\ CpuTypes /\ OnLists(readyList, sleepQueue, status) /\ Busy
      /\ status[currentThread] = "RUNNING" /\ empty_ready_queue_start_time = -1
  BY DEF IInv, Modal, Busy
<1>3. /\ <<t>> \in Seq(Pid) /\ Distinct(<<t>>) /\ ToSet(<<t>>) = {t}
      /\ Append(readyList, t) = readyList \o <<t>>
  BY <1>2, Single DEF OnLists
<1>4. PICK ts : ts = <<t>>
  OBVIOUS
<1>5. /\ OnLists(readyList \o ts, sleepQueue, Readied(ts))
      /\ WaitsFrom(ts) \in [Pid -> Int]
      /\ total_wait_time + Waited(readyList \o ts, totalTicks, WaitsFrom(ts)) = readyIntegral
  BY <1>2, <1>3, <1>4, ReadyDoes
<1>6. OnLists(readyList', sleepQueue', status')
  BY <1>1, <1>3, <1>4, <1>5
<1>7. empty_ready_queue_start_time' = -1 /\ empty_ready_queue_time' \in Int
      /\ empty_ready_queue_time' + 0 = idleTicks
  BY <1>1, <1>2, EmptyDoes
<1>8. CpuTypes'
  <2>1. mode' \in Modes
    BY <1>1 DEF Modes
  <2> QED BY <1>1, <1>2, <1>4, <1>5, <1>7, <2>1 DEF CpuTypes
<1>9. Modal'
  <2>1. status'[currentThread] = "RUNNING"
    <3>1. currentThread # t /\ currentThread \in Pid
      BY <1>2 DEF CpuTypes
    <3> QED BY <1>1, <1>2, <1>3, <3>1 DEF Readied
  <2> QED BY <1>1, <1>7, <2>1 DEF Modal, Busy
<1>10. Accounts'
  <2>1. total_wait_time' + Waited(readyList', totalTicks', wait_start_time') = readyIntegral'
    BY <1>1, <1>3, <1>4, <1>5
  <2>2. cpu_time' + idleTicks' + (IF Busy THEN Burst ELSE 0)' = totalTicks'
    <3>1. cpu_time + idleTicks + Burst = totalTicks
      BY <1>2 DEF IInv, Accounts, Busy
    <3>2. Busy' /\ Burst' = Burst
      BY <1>1 DEF Busy, Burst
    <3> QED BY <1>1, <3>1, <3>2
  <2>3. currentThread' # 0 => burst_start_time'[currentThread'] = cpu_burst_start_time'
    BY <1>1 DEF IInv, Accounts
  <2> QED BY <1>1, <1>7, <2>1, <2>2, <2>3 DEF Accounts
<1>11. Timers(pending, sleepQueue, totalTicks)'
  BY <1>1
<1> QED BY <1>6, <1>8, <1>9, <1>10, <1>11 DEF IInv

(* A yield, of a thread or by the timer.                                    *)
LEMMA YieldKeeps ==
  ASSUME IInv, Busy, YieldCPU, Timers(pending', sleepQueue, totalTicks),
         UNCHANGED <<schedulingAlgo, totalTicks, idleTicks, readyIntegral>>
  PROVE  IInv'
<1> DEFINE me == currentThread
<1>1. /\ schedulingAlgo' = schedulingAlgo /\ totalTicks' = totalTicks /\ idleTicks' = idleTicks
      /\ readyIntegral' = readyIntegral /\ sleepQueue' = sleepQueue
      /\ basePriority' = basePriority
  BY DEF YieldCPU
<1>2. /\ CpuTypes /\ OnLists(readyList, sleepQueue, status) /\ readyList \in Seq(Pid)
      /\ status[me] = "RUNNING" /\ empty_ready_queue_start_time = -1
      /\ mode \notin {"timerAssert", "yieldAssert"} /\ me \in Pid
  BY DEF IInv, Modal, Busy, OnLists, CpuTypes
<1>3. /\ totalTicks \in Nat /\ idleTicks \in Int /\ cpu_time \in Int /\ Burst \in Int
      /\ empty_ready_queue_time \in Int
      /\ basePriority \in [Pid -> Nat] /\ usage \in [Pid -> Nat] /\ schedPriority \in [Pid -> Nat]
  BY <1>2 DEF CpuTypes, Burst
<1>4. cpu_time + idleTicks + Burst = totalTicks /\ empty_ready_queue_time = idleTicks
  <2>1. cpu_time + idleTicks + (IF Busy THEN Burst ELSE 0) = totalTicks
    BY <1>2 DEF IInv, Accounts
  <2>2. empty_ready_queue_time + 0 = idleTicks
    BY <1>2 DEF IInv, Accounts
  <2> QED BY <1>3, <2>1, <2>2
<1>5. Timers(pending, sleepQueue, totalTicks)'
  BY <1>1
<1>6. CASE YieldToReady /\ (readyList # <<>> \/ schedulingAlgo = "UNIX_SCHED")
  <2>1. PICK ts : ts = <<me>>
    OBVIOUS
  <2>2. /\ ts \in Seq(Pid) /\ Distinct(ts) /\ ToSet(ts) = {me}
        /\ Append(readyList, me) = readyList \o ts
    BY <1>2, <2>1, Single
  <2>3. /\ OnLists(readyList \o ts, sleepQueue, Readied(ts))
        /\ WaitsFrom(ts) \in [Pid -> Int]
        /\ total_wait_time + Waited(readyList \o ts, totalTicks, WaitsFrom(ts)) = readyIntegral
    <3>1. \A j \in DOMAIN sleepQueue : sleepQueue[j].thread # me
      BY <1>2 DEF OnLists
    <3> QED BY <1>2, <2>2, <3>1, ReadyDoes
  <2>4. EndBurst /\ NoLongerEmpty(ts)
    BY <1>6, <2>1 DEF YieldToReady, NoLongerEmpty
  <2>5. PICK list, st, waits, i :
          /\ list = readyList \o ts /\ st = Readied(ts) /\ waits = WaitsFrom(ts)
          /\ i = Chosen(IF schedulingAlgo = "UNIX_SCHED" THEN Append(readyList, me) ELSE readyList,
                        schedPriority')
    OBVIOUS
  <2>6. Run(list, i, st, waits)
    BY <1>6, <2>1, <2>2, <2>5 DEF YieldToReady, Run
  <2>7. schedPriority' \in [Pid -> Nat] /\ usage' \in [Pid -> Nat] /\ cpu_time' = cpu_time + Burst
    BY <2>4, BurstEnds
  <2>8. i \in DOMAIN list
    <3>1. list \in Seq(Pid) /\ list # <<>> /\ \A j \in DOMAIN readyList : j \in DOMAIN list
      BY <1>2, <2>1, <2>2, <2>5
    <3>2. CASE schedulingAlgo = "UNIX_SCHED"
      <4>1. i = Chosen(list, schedPriority')
        BY <2>2, <2>5, <3>2
      <4>2. Chosen(list, schedPriority') \in DOMAIN list
        BY <2>7, <3>1, ChosenIn
      <4> QED BY <4>1, <4>2
    <3>3. CASE schedulingAlgo # "UNIX_SCHED"
      <4>1. i = Chosen(readyList, schedPriority')
        BY <2>5, <3>3
      <4>2. Chosen(readyList, schedPriority') \in DOMAIN readyList
        BY <1>2, <1>6, <2>7, <3>3, ChosenIn
      <4> QED BY <3>1, <4>1, <4>2
    <3> QED BY <3>2, <3>3
  <2>9. Priorities'
    <3>1. status' = [st EXCEPT ![list[i]] = "RUNNING"]
      BY <2>6 DEF Run
    <3>2. st \in [Pid -> Statuses] /\ st[list[i]] = "READY" /\ list[i] \in Pid
      <4>1. OnLists(list, sleepQueue, st)
        BY <2>3, <2>5
      <4>2. st[list[i]] = "READY" /\ list[i] \in Pid
        BY <2>8, <4>1, RunLists
      <4> QED BY <4>1, <4>2 DEF OnLists
    <3>3. \A t \in Pid : st[t] = IF t = me THEN "READY" ELSE status[t]
      BY <2>2, <2>5 DEF Readied
    <3>4. \A t \in Pid : (Live(t)' => Live(t)) /\ (status'[t] = "NONE" => status[t] = "NONE")
      BY <1>2, <3>1, <3>2, <3>3 DEF Live
    <3> QED BY <1>1, <2>4, <3>4, BurstPriorities
  <2>10. empty_ready_queue_start_time' = -1 /\ empty_ready_queue_time' = idleTicks
    <3>1. empty_ready_queue_start_time' = -1 /\ empty_ready_queue_time' + 0 = idleTicks
          /\ empty_ready_queue_time' \in Int
      BY <1>2, <2>4, EmptyDoes
    <3> QED BY <3>1
  <2>11. cpu_time' \in Int /\ cpu_time' + idleTicks = totalTicks
    BY <1>3, <1>4, <2>7
  <2>12. OnLists(list, sleepQueue', st) /\ waits \in [Pid -> Int]
         /\ total_wait_time + Waited(list, totalTicks, waits) = readyIntegral
    BY <1>1, <2>3, <2>5
  <2>13. basePriority' \in [Pid -> Nat] /\ Timers(pending', sleepQueue', totalTicks)
    BY <1>1, <1>3
  <2> QED BY <1>1, <2>6, <2>7, <2>8, <2>9, <2>10, <2>11, <2>12, <2>13, RunKeeps
<1>7. CASE LoneYield
  <2>1. /\ cpu_time' = cpu_time + Burst /\ cpu_burst_start_time' = totalTicks
        /\ burst_start_time' = [burst_start_time EXCEPT ![me] = totalTicks] /\ mode' = "kernel"
        /\ currentThread' = me /\ status' = status /\ readyList' = readyList
        /\ wait_start_time' = wait_start_time /\ usage' = usage /\ schedPriority' = schedPriority
        /\ empty_ready_queue_time' = empty_ready_queue_time
        /\ empty_ready_queue_start_time' = empty_ready_queue_start_time
        /\ total_wait_time' = total_wait_time
    BY <1>7 DEF LoneYield, emptiness
  <2>2. burst_start_time' \in [Pid -> Int] /\ burst_start_time'[me] = totalTicks
    BY <1>2, <1>3, <2>1 DEF CpuTypes
  <2>3. CpuTypes'
    <3>1. mode' \in Modes /\ cpu_time' \in Int
      BY <1>3, <2>1 DEF Modes
    <3> QED BY <1>1, <1>2, <2>1, <2>2, <3>1 DEF CpuTypes
  <2>4. Priorities'
    BY <1>1, <2>1, SamePriorities DEF IInv, Live
  <2>5. Modal'
    BY <1>2, <2>1 DEF Modal, Busy
  <2>6. Accounts'
    <3>1. cpu_time' + idleTicks' + (IF Busy THEN Burst ELSE 0)' = totalTicks'
      <4>1. Busy' /\ Burst' = 0
        BY <1>1, <1>3, <2>1 DEF Busy, Burst
      <4>2. cpu_time' + idleTicks' + 0 = totalTicks'
        BY <1>1, <1>3, <1>4, <2>1
      <4> QED BY <4>1, <4>2
    <3> QED BY <1>1, <1>2, <2>1, <2>2, <3>1 DEF IInv, Accounts
  <2>7. OnLists(readyList, sleepQueue, status)'
    BY <1>1, <1>2, <2>1
  <2> QED BY <1>5, <2>3, <2>4, <2>5, <2>6, <2>7 DEF IInv
<1>8. CASE LoneYieldAborts
  <2>1. /\ mode' = "yieldAssert" /\ starts' = starts /\ cpu_time' = cpu_time
        /\ currentThread' = me /\ status' = status /\ readyList' = readyList
        /\ usage' = usage /\ schedPriority' = schedPriority
        /\ empty_ready_queue_time' = empty_ready_queue_time
        /\ empty_ready_queue_start_time' = empty_ready_queue_start_time
        /\ total_wait_time' = total_wait_time
    BY <1>8 DEF LoneYieldAborts, emptiness
  <2>2. /\ wait_start_time' = wait_start_time /\ burst_start_time' = burst_start_time
        /\ cpu_burst_start_time' = cpu_burst_start_time
    BY <2>1 DEF starts
  <2>3. CpuTypes'
    <3>1. mode' \in Modes
      BY <2>1 DEF Modes
    <3> QED BY <1>1, <1>2, <2>1, <2>2, <3>1 DEF CpuTypes
  <2>4. Priorities'
    BY <1>1, <2>1, SamePriorities DEF IInv, Live
  <2>5. Modal'
    BY <2>1 DEF Modal, Busy
  <2>6. Accounts'
    BY <1>1, <1>2, <2>1, <2>2 DEF IInv, Accounts
  <2>7. OnLists(readyList, sleepQueue, status)'
    BY <1>1, <1>2, <2>1
  <2> QED BY <1>5, <2>3, <2>4, <2>5, <2>6, <2>7 DEF IInv
<1> QED BY <1>6, <1>7, <1>8 DEF YieldCPU

-----------------------------------------------------------------------------
(* The clock and its interrupts.                                            *)

(* Time passes for the thread on the processor.                             *)
LEMMA TickKeeps ==
  ASSUME IInv, NEW ticks \in Nat \ {0}, OneTick(ticks), mode \in {"run", "kernel"}
  PROVE  IInv'
<1>1. /\ totalTicks' = totalTicks + ticks
      /\ readyIntegral' = readyIntegral + ticks * Len(readyList) /\ mode' = "due"
      /\ schedulingAlgo' = schedulingAlgo /\ idleTicks' = idleTicks /\ pending' = pending
      /\ queues' = queues /\ starts' = starts /\ priorities' = priorities
      /\ emptiness' = emptiness /\ cpu_time' = cpu_time /\ total_wait_time' = total_wait_time
  BY DEF OneTick
<1>2. /\ currentThread' = currentThread /\ status' = status /\ readyList' = readyList
      /\ sleepQueue' = sleepQueue /\ cpu_burst_start_time' = cpu_burst_start_time
      /\ burst_start_time' = burst_start_time /\ wait_start_time' = wait_start_time
      /\ usage' = usage /\ basePriority' = basePriority /\ schedPriority' = schedPriority
      /\ empty_ready_queue_time' = empty_ready_queue_time
      /\ empty_ready_queue_start_time' = empty_ready_queue_start_time
  BY <1>1 DEF queues, starts, priorities, emptiness
<1>3. /\ CpuTypes /\ Busy /\ readyList \in Seq(Pid) /\ empty_ready_queue_start_time = -1
      /\ mode \notin {"timerAssert", "yieldAssert"}
  BY DEF IInv, Modal, Busy, OnLists
<1>4. /\ totalTicks \in Nat /\ totalTicks' \in Nat /\ totalTicks <= totalTicks'
      /\ Len(readyList) \in Nat /\ readyIntegral \in Int /\ ticks \in Int /\ idleTicks \in Int
      /\ cpu_time \in Int /\ cpu_burst_start_time \in Nat /\ cpu_burst_start_time <= totalTicks
      /\ total_wait_time \in Int /\ empty_ready_queue_time \in Int
      /\ wait_start_time \in [Pid -> Int]
  BY <1>1, <1>3 DEF CpuTypes
<1>5. ticks * Len(readyList) \in Int
  BY <1>4
<1>6. CpuTypes'
  <2>1. mode' \in Modes /\ readyIntegral' \in Int /\ cpu_burst_start_time <= totalTicks'
    BY <1>1, <1>4, <1>5 DEF Modes
  <2> QED BY <1>1, <1>2, <1>3, <1>4, <2>1 DEF CpuTypes
<1>7. OnLists(readyList, sleepQueue, status)'
  BY <1>2 DEF IInv
<1>8. Timers(pending, sleepQueue, totalTicks)'
  <2>1. PICK later : later = totalTicks'
    OBVIOUS
  <2>2. Timers(pending, sleepQueue, later)
    BY <1>4, <2>1, TimersLater DEF IInv
  <2> QED BY <1>1, <1>2, <2>1, <2>2
<1>9. Modal'
  BY <1>1, <1>2, <1>3 DEF IInv, Modal, Busy
<1>10. Priorities'
  BY <1>1, <1>2, SamePriorities DEF IInv, Live
<1>11. Accounts'
  <2>1. Waited(readyList, totalTicks + ticks, wait_start_time)
          = Waited(readyList, totalTicks, wait_start_time) + ticks * Len(readyList)
    <3>1. \A list \in Seq(Pid), now \in Int, since \in [Pid -> Int], x \in Int :
            Waited(list, now + x, since) = Waited(list, now, since) + x * Len(list)
      BY WaitedLonger
    <3>2. totalTicks \in Int
      BY <1>4
    <3> QED BY <1>3, <1>4, <3>1, <3>2, ZenonT(30)
  <2>2. Waited(readyList, totalTicks, wait_start_time) \in Int
    <3>1. totalTicks \in Int
      BY <1>4
    <3> QED BY <1>3, <1>4, <3>1, WaitedInt
  <2>3. total_wait_time + Waited(readyList, totalTicks, wait_start_time) = readyIntegral
    BY DEF IInv, Accounts
  <2>4. total_wait_time + Waited(readyList, totalTicks + ticks, wait_start_time) = readyIntegral'
    BY <1>1, <1>4, <1>5, <2>1, <2>2, <2>3
  <2>5. total_wait_time' + Waited(readyList', totalTicks', wait_start_time') = readyIntegral'
    BY <1>1, <1>2, <2>4
  <2>6. cpu_time' + idleTicks' + (IF Busy THEN Burst ELSE 0)' = totalTicks'
    <3>1. cpu_time + idleTicks + (totalTicks - cpu_burst_start_time) = totalTicks
      BY <1>3 DEF IInv, Accounts, Burst
    <3>2. cpu_time + idleTicks + (totalTicks' - cpu_burst_start_time) = totalTicks'
      BY <1>1, <1>4, <3>1
    <3>3. Busy' /\ Burst' = totalTicks' - cpu_burst_start_time
      BY <1>1, <1>2 DEF Busy, Burst
    <3> QED BY <1>1, <3>2, <3>3
  <2>7. empty_ready_queue_time' + (IF empty_ready_queue_start_time' = -1 THEN 0
          ELSE totalTicks' - empty_ready_queue_start_time') = idleTicks'
    BY <1>1, <1>2, <1>3 DEF IInv, Accounts
  <2> QED BY <1>1, <1>2, <2>5, <2>6, <2>7 DEF IInv, Accounts
<1> QED BY <1>6, <1>7, <1>8, <1>9, <1>10, <1>11 DEF IInv

(* Interrupt::Idle: the clock goes on, and nobody is ready.                 *)
LEMMA IdleKeeps ==
  ASSUME IInv, Idle PROVE IInv'
<1>1. /\ mode = "idle" /\ mode' = "idleDue" /\ schedulingAlgo' = schedulingAlgo
      /\ readyIntegral' = readyIntegral /\ pending' = pending
      /\ queues' = queues /\ starts' = starts /\ priorities' = priorities
      /\ emptiness' = emptiness /\ cpu_time' = cpu_time /\ total_wait_time' = total_wait_time
  BY DEF Idle
<1>2. /\ currentThread' = currentThread /\ status' = status /\ readyList' = readyList
      /\ sleepQueue' = sleepQueue /\ cpu_burst_start_time' = cpu_burst_start_time
      /\ burst_start_time' = burst_start_time /\ wait_start_time' = wait_start_time
      /\ usage' = usage /\ basePriority' = basePriority /\ schedPriority' = schedPriority
      /\ empty_ready_queue_time' = empty_ready_queue_time
      /\ empty_ready_queue_start_time' = empty_ready_queue_start_time
  BY <1>1 DEF queues, starts, priorities, emptiness
<1>3. /\ CpuTypes /\ readyList = <<>> /\ empty_ready_queue_start_time # -1 /\ ~Busy
      /\ totalTicks \in Nat /\ idleTicks \in Int /\ cpu_time \in Int
      /\ total_wait_time \in Int /\ empty_ready_queue_time \in Int
      /\ empty_ready_queue_start_time \in Int
      /\ cpu_burst_start_time \in Nat /\ cpu_burst_start_time <= totalTicks
  BY <1>1 DEF IInv, Modal, Busy, CpuTypes
<1>4. PICK jump \in Nat : totalTicks' = totalTicks + jump /\ idleTicks' = idleTicks + jump
  <2>1. PICK x : x = Head(pending).when - totalTicks
    OBVIOUS
  <2>2. x \in Int
    <3>1. pending \in Seq(Interrupt) /\ pending # <<>>
      BY DEF IInv, Timers, ToSet
    <3>2. Head(pending) \in Interrupt
      BY <3>1
    <3>3. Head(pending).when \in Nat
      BY <3>2 DEF Interrupt
    <3> QED BY <1>3, <2>1, <3>3
  <2>3. Max({0, x}) \in Nat
    <3>1. \E y \in {0, x} : \A z \in {0, x} : y >= z
      BY <2>2
    <3>2. Max({0, x}) \in {0, x} /\ \A z \in {0, x} : Max({0, x}) >= z
      BY <3>1 DEF Max
    <3> QED BY <2>2, <3>2
  <2> QED BY <2>1, <2>3 DEF Idle
<1>5. totalTicks' \in Nat /\ idleTicks' \in Int /\ totalTicks <= totalTicks'
  BY <1>3, <1>4
<1>6. CpuTypes'
  <2>1. mode' \in Modes /\ cpu_burst_start_time <= totalTicks'
    BY <1>1, <1>3, <1>5 DEF Modes
  <2> QED BY <1>1, <1>2, <1>3, <1>5, <2>1 DEF CpuTypes
<1>7. OnLists(readyList, sleepQueue, status)'
  BY <1>2 DEF IInv
<1>8. Timers(pending, sleepQueue, totalTicks)'
  <2>1. PICK later : later = totalTicks'
    OBVIOUS
  <2>2. Timers(pending, sleepQueue, later)
    BY <1>3, <1>5, <2>1, TimersLater DEF IInv
  <2> QED BY <1>1, <1>2, <2>1, <2>2
<1>9. Modal'
  BY <1>1, <1>2, <1>3 DEF Modal, Busy
<1>10. Priorities'
  BY <1>1, <1>2, SamePriorities DEF IInv, Live
<1>11. Accounts'
  <2>1. total_wait_time' + Waited(readyList', totalTicks', wait_start_time') = readyIntegral'
    <3>1. \A now : Waited(<<>>, now, wait_start_time) = 0
      BY WaitedNobody
    <3>2. total_wait_time + Waited(<<>>, totalTicks, wait_start_time) = readyIntegral
      BY <1>3 DEF IInv, Accounts
    <3> QED BY <1>1, <1>2, <1>3, <3>1, <3>2
  <2>2. cpu_time' + idleTicks' + (IF Busy THEN Burst ELSE 0)' = totalTicks'
    <3>1. cpu_time + idleTicks + 0 = totalTicks
      BY <1>1, <1>3 DEF IInv, Accounts
    <3>2. ~Busy'
      BY <1>1 DEF Busy
    <3>3. cpu_time' + idleTicks' + 0 = totalTicks'
      BY <1>1, <1>3, <1>4, <3>1
    <3> QED BY <3>2, <3>3
  <2>3. empty_ready_queue_time' + (IF empty_ready_queue_start_time' = -1 THEN 0
          ELSE totalTicks' - empty_ready_queue_start_time') = idleTicks'
    <3>1. empty_ready_queue_time + (totalTicks - empty_ready_queue_start_time) = idleTicks
      BY <1>3 DEF IInv, Accounts
    <3>2. empty_ready_queue_time + (totalTicks' - empty_ready_queue_start_time) = idleTicks'
      BY <1>3, <1>4, <3>1
    <3> QED BY <1>2, <1>3, <3>2
  <2> QED BY <1>1, <1>2, <2>1, <2>2, <2>3 DEF IInv, Accounts
<1> QED BY <1>6, <1>7, <1>8, <1>9, <1>10, <1>11 DEF IInv

-----------------------------------------------------------------------------
(* The interrupts.                                                          *)

(* The timer's handler: who wakes up, and what becomes of the accounts.     *)
LEMMA HandlerDoes ==
  ASSUME IInv, TimerInterruptHandler, Head(pending).type = "timer", currentThread' = currentThread
  PROVE  /\ OnLists(readyList', sleepQueue', status')
         /\ Timers(SortedInsert([Head(pending) EXCEPT !.when = totalTicks + TimerTicks], Tail(pending)),
                   sleepQueue', totalTicks)
         /\ wait_start_time' \in [Pid -> Int]
         /\ total_wait_time + Waited(readyList', totalTicks, wait_start_time') = readyIntegral
         /\ empty_ready_queue_time' \in Int /\ empty_ready_queue_start_time' \in Int
         /\ empty_ready_queue_time' + (IF empty_ready_queue_start_time' = -1 THEN 0
              ELSE totalTicks - empty_ready_queue_start_time') = idleTicks
         /\ empty_ready_queue_start_time' =
              IF readyList = <<>> /\ readyList' # <<>> THEN -1 ELSE empty_ready_queue_start_time
         /\ readyList' = <<>> => readyList = <<>>
         /\ mode' = mode \/ (mode' = "timerAssert" /\ currentThread = 0)
         /\ \A t \in Pid : \/ status'[t] = status[t]
                           \/ status[t] = "BLOCKED" /\ status'[t] = "READY"
<1>1. /\ CpuTypes /\ OnLists(readyList, sleepQueue, status) /\ Timers(pending, sleepQueue, totalTicks)
      /\ totalTicks \in Nat /\ sleepQueue \in Seq(Sleeper) /\ readyList \in Seq(Pid)
      /\ Ordered(sleepQueue) /\ DOMAIN sleepQueue = 1 .. Len(sleepQueue)
      /\ Len(sleepQueue) \in Nat
  BY SMTT(30), ZenonT(30) DEF IInv, CpuTypes, OnLists, Timers
<1>2. PICK d \in 0 .. Len(sleepQueue) :
        /\ d = Cardinality({i \in DOMAIN sleepQueue : sleepQueue[i].when <= totalTicks})
        /\ \A i \in DOMAIN sleepQueue : sleepQueue[i].when <= totalTicks <=> i <= d
  <2>1. \A e \in Sleeper : e.when \in Nat
    BY DEF Sleeper
  <2> QED BY <1>1, <2>1, DuePrefix
<1>3. PICK ts, rest : FirstLeave(d, ts, rest, sleepQueue)
  BY DEF FirstLeave
<1>4. /\ sleepQueue' = rest /\ readyList' = readyList \o ts
      /\ status' = Readied(ts) /\ wait_start_time' = WaitsFrom(ts)
      /\ NoLongerEmpty(ts)
      /\ mode' = IF QuantumOver /\ cpu_burst_start_time # burst_start_time[currentThread]
                 THEN "timerAssert" ELSE mode
  BY <1>2, <1>3 DEF FirstLeave, TimerInterruptHandler, Readied, WaitsFrom, NoLongerEmpty
<1>5. /\ ts \in Seq(Pid) /\ Distinct(ts) /\ \A t \in ToSet(ts) : status[t] = "BLOCKED"
      /\ OnLists(readyList, rest, status) /\ \A j \in DOMAIN rest : rest[j].thread \notin ToSet(ts)
      /\ \A j \in DOMAIN rest : d + j \in DOMAIN sleepQueue /\ rest[j] = sleepQueue[d + j]
  <2>1. OnLists(readyList, sleepQueue, status) /\ d \in 0 .. Len(sleepQueue)
    BY <1>1
  <2>2. /\ ts \in Seq(Pid) /\ Distinct(ts) /\ \A t \in ToSet(ts) : status[t] = "BLOCKED"
        /\ OnLists(readyList, rest, status) /\ \A j \in DOMAIN rest : rest[j].thread \notin ToSet(ts)
        /\ Len(rest) = Len(sleepQueue) - d
        /\ \A j \in DOMAIN rest : d + j \in DOMAIN sleepQueue /\ rest[j] = sleepQueue[d + j]
    BY <1>3, <2>1, WokenLists
  <2> QED BY <2>2
<1>6. /\ OnLists(readyList \o ts, rest, Readied(ts)) /\ WaitsFrom(ts) \in [Pid -> Int]
      /\ total_wait_time + Waited(readyList \o ts, totalTicks, WaitsFrom(ts)) = readyIntegral
  BY <1>5, ReadyDoes
<1>7. /\ empty_ready_queue_time' \in Int /\ empty_ready_queue_start_time' \in Int
      /\ empty_ready_queue_time' + (IF empty_ready_queue_start_time' = -1 THEN 0
           ELSE totalTicks - empty_ready_queue_start_time') = idleTicks
      /\ empty_ready_queue_start_time' =
           IF readyList = <<>> /\ ts # <<>> THEN -1 ELSE empty_ready_queue_start_time
  BY <1>4, EmptyDoes
<1>8. (readyList' = <<>> => readyList = <<>>) /\ (readyList = <<>> => readyList' = ts)
  BY <1>1, <1>4, <1>5
<1>9. mode' = mode \/ (mode' = "timerAssert" /\ currentThread = 0)
  BY <1>4 DEF IInv, Accounts
<1>10. \A t \in Pid : status'[t] = status[t] \/ (status[t] = "BLOCKED" /\ status'[t] = "READY")
  BY <1>4, <1>5 DEF Readied
<1>11. Timers(SortedInsert([Head(pending) EXCEPT !.when = totalTicks + TimerTicks], Tail(pending)),
              rest, totalTicks)
  <2>1. rest \in Seq(Sleeper) /\ DOMAIN rest = 1 .. Len(rest) /\ Len(rest) \in Nat
    BY <1>5 DEF OnLists
  <2>2. \A j \in DOMAIN rest : /\ d + j \in DOMAIN sleepQueue /\ ~(d + j <= d)
                               /\ rest[j] = sleepQueue[d + j]
    BY <1>2, <1>5, <2>1
  <2>3. \A j \in DOMAIN rest : ~(rest[j].when <= totalTicks)
    BY <1>2, <2>2
  <2>4. Ordered(rest)
    <3> SUFFICES ASSUME NEW i \in DOMAIN rest, NEW j \in DOMAIN rest, i <= j
                 PROVE  rest[i].when <= rest[j].when
      BY DEF Ordered
    <3>1. d + i <= d + j
      BY <1>2, <2>1
    <3>2. sleepQueue[d + i].when <= sleepQueue[d + j].when
      BY <1>1, <2>2, <3>1 DEF Ordered
    <3> QED BY <2>2, <3>2
  <2>5. ASSUME NEW s \in ToSet(rest)
        PROVE  s \in ToSet(sleepQueue) /\ totalTicks < s.when /\ s.when \in Nat
    <3>1. PICK j \in DOMAIN rest : s = rest[j]
      BY DEF ToSet
    <3>2. rest[j] \in Sleeper /\ rest[j].when \in Nat
      BY <2>1, SleeperTypes
    <3>3. totalTicks < rest[j].when
      BY <1>1, <2>3, <3>2
    <3>4. rest[j] \in ToSet(sleepQueue)
      BY <2>2 DEF ToSet
    <3> QED BY <3>1, <3>2, <3>3, <3>4
  <2> QED BY <1>1, <2>1, <2>4, <2>5, TimersFire
<1>12. /\ OnLists(readyList', sleepQueue', status')
       /\ Timers(SortedInsert([Head(pending) EXCEPT !.when = totalTicks + TimerTicks], Tail(pending)),
                 sleepQueue', totalTicks)
       /\ wait_start_time' \in [Pid -> Int]
       /\ total_wait_time + Waited(readyList', totalTicks, wait_start_time') = readyIntegral
  BY <1>4, <1>6, <1>11
<1> QED BY <1>7, <1>8, <1>9, <1>10, <1>12

(* An interrupt that fires is scheduled again, so that the timer does not   *)
(* become the only one.                                                     *)
LEMMA FireSchedules ==
  ASSUME IInv, FireInterrupt
  PROVE  OnlyTimer' => OnlyTimer
<1>1. /\ pending \in Seq(Interrupt) /\ pending # <<>> /\ Ordered(pending) /\ totalTicks \in Nat
      /\ TimerTicks \in Nat /\ ConsoleTime \in Nat
  BY CpuAssumption DEF CpuAssumption, IInv, CpuTypes, Timers, ToSet
<1>2. PICK h, t : h = Head(pending) /\ t = Tail(pending)
  OBVIOUS
<1>3. h \in Interrupt /\ t \in Seq(Interrupt) /\ Ordered(t) /\ Len(t) = Len(pending) - 1
  BY <1>1, <1>2, TailKeeps
<1>4. PICK e \in Interrupt : e.type = h.type /\ pending' = SortedInsert(e, t)
  <2>1. PICK every \in Nat : pending' = SortedInsert([h EXCEPT !.when = totalTicks + every], t)
    <3>1. CASE h.type = "timer"
      BY <1>1, <1>2, <3>1 DEF FireInterrupt
    <3>2. CASE h.type # "timer"
      BY <1>1, <1>2, <3>2 DEF FireInterrupt
    <3> QED BY <3>1, <3>2
  <2>2. [h EXCEPT !.when = totalTicks + every] \in Interrupt
    <3>1. totalTicks + every \in Nat /\ h.type \in {"timer", "console"}
          /\ h = [type |-> h.type, when |-> h.when]
      BY <1>1, <1>3 DEF Interrupt
    <3>2. [h EXCEPT !.when = totalTicks + every] = [type |-> h.type, when |-> totalTicks + every]
      BY <3>1
    <3> QED BY <3>1, <3>2 DEF Interrupt
  <2>3. [h EXCEPT !.when = totalTicks + every].type = h.type
    BY <1>3 DEF Interrupt
  <2> QED BY <2>1, <2>2, <2>3
<1>5. /\ pending' \in Seq(Interrupt) /\ Len(pending') = Len(t) + 1
      /\ ToSet(pending') = ToSet(t) \cup {e}
  <2>1. \A x \in Interrupt : x.when \in Nat
    BY DEF Interrupt
  <2> QED BY SMTT(30), ZenonT(30), <1>3, <1>4, <2>1, InsertKeeps
<1>6. ASSUME OnlyTimer' PROVE OnlyTimer
  <2>1. Len(pending') = 1 /\ Head(pending').type = "timer"
    BY <1>6 DEF OnlyTimer
  <2>2. PICK i \in 1 .. Len(pending') : e = pending'[i]
    <3>1. e \in ToSet(pending') /\ DOMAIN pending' = 1 .. Len(pending')
      BY <1>5
    <3> QED BY <3>1 DEF ToSet
  <2>3. e = Head(pending')
    <3>1. i = 1
      BY <2>1, <2>2
    <3>2. PICK q : q = pending'
      OBVIOUS
    <3>3. q \in Seq(Interrupt) /\ Len(q) = 1
      BY <1>5, <2>1, <3>2
    <3>4. Head(q) = q[1]
      BY <3>3
    <3> QED BY <2>2, <3>1, <3>2, <3>4
  <2>4. Len(pending) = 1
    BY <1>1, <1>3, <1>5, <2>1
  <2> QED BY <1>2, <1>4, <2>1, <2>3, <2>4 DEF OnlyTimer
<1> QED BY <1>6

(* CheckIfDue: the interrupt of the timer or of a console.                  *)
LEMMA FireKeeps ==
  ASSUME IInv, mode \in {"due", "idleDue"}, mode = "idleDue" => ~OnlyTimer, FireInterrupt
  PROVE  IInv'
<1>1. /\ schedulingAlgo' = schedulingAlgo /\ totalTicks' = totalTicks /\ idleTicks' = idleTicks
      /\ readyIntegral' = readyIntegral /\ currentThread' = currentThread
      /\ cpu_burst_start_time' = cpu_burst_start_time /\ burst_start_time' = burst_start_time
      /\ usage' = usage /\ basePriority' = basePriority /\ schedPriority' = schedPriority
      /\ cpu_time' = cpu_time /\ total_wait_time' = total_wait_time
  BY DEF FireInterrupt, priorities
<1>2. /\ CpuTypes /\ OnLists(readyList, sleepQueue, status) /\ Timers(pending, sleepQueue, totalTicks)
      /\ totalTicks \in Nat
  BY DEF IInv, CpuTypes
<1>3. /\ OnLists(readyList', sleepQueue', status')
      /\ Timers(pending', sleepQueue', totalTicks)
      /\ wait_start_time' \in [Pid -> Int]
      /\ total_wait_time + Waited(readyList', totalTicks, wait_start_time') = readyIntegral
      /\ empty_ready_queue_time' \in Int /\ empty_ready_queue_start_time' \in Int
      /\ empty_ready_queue_time' + (IF empty_ready_queue_start_time' = -1 THEN 0
           ELSE totalTicks - empty_ready_queue_start_time') = idleTicks
      /\ empty_ready_queue_start_time' =
           IF readyList = <<>> /\ readyList' # <<>> THEN -1 ELSE empty_ready_queue_start_time
      /\ readyList' = <<>> => readyList = <<>>
      /\ mode' = mode \/ (mode' = "timerAssert" /\ currentThread = 0)
      /\ \A t \in Pid : \/ status'[t] = status[t]
                        \/ status[t] = "BLOCKED" /\ status'[t] = "READY"
  <2>1. CASE Head(pending).type = "timer" /\ TimerInterruptHandler
    <3>1. pending' = SortedInsert([Head(pending) EXCEPT !.when = totalTicks + TimerTicks],
                                  Tail(pending))
      BY <2>1 DEF FireInterrupt
    <3> QED BY <1>1, <2>1, <3>1, HandlerDoes
  <2>2. CASE /\ Head(pending).type = "console"
             /\ UNCHANGED <<sleepQueue, readyList, status, wait_start_time, emptiness,
                            yieldOnReturn, mode>>
    <3>1. /\ sleepQueue' = sleepQueue /\ readyList' = readyList /\ status' = status
          /\ wait_start_time' = wait_start_time /\ mode' = mode
          /\ empty_ready_queue_time' = empty_ready_queue_time
          /\ empty_ready_queue_start_time' = empty_ready_queue_start_time
      BY <2>2 DEF emptiness
    <3>2. PICK when \in Nat :
            pending' = SortedInsert([Head(pending) EXCEPT !.when = when], Tail(pending))
      <4>1. ConsoleTime \in Nat /\ totalTicks + ConsoleTime \in Nat
        BY <1>2, CpuAssumption DEF CpuAssumption
      <4>2. pending' = SortedInsert([Head(pending) EXCEPT !.when = totalTicks + ConsoleTime],
                                    Tail(pending))
        BY <2>2 DEF FireInterrupt
      <4> QED BY <4>1, <4>2
    <3>3. Timers(pending', sleepQueue', totalTicks)
      BY <1>2, <2>2, <3>1, <3>2, TimersPoll
    <3>4. /\ wait_start_time' \in [Pid -> Int]
          /\ empty_ready_queue_time' \in Int /\ empty_ready_queue_start_time' \in Int
      BY <1>2, <3>1 DEF CpuTypes
    <3>5. /\ total_wait_time + Waited(readyList', totalTicks, wait_start_time') = readyIntegral
          /\ empty_ready_queue_time' + (IF empty_ready_queue_start_time' = -1 THEN 0
               ELSE totalTicks - empty_ready_queue_start_time') = idleTicks
      BY <3>1 DEF IInv, Accounts
    <3> QED BY <1>2, <3>1, <3>3, <3>4, <3>5
  <2> QED BY <2>1, <2>2 DEF FireInterrupt
<1>4. CpuTypes'
  <2>1. mode' \in Modes
    BY <1>2, <1>3 DEF CpuTypes, Modes
  <2> QED BY <1>1, <1>2, <1>3, <2>1 DEF CpuTypes
<1>5. Timers(pending, sleepQueue, totalTicks)'
  BY <1>1, <1>3
<1>6. Modal'
  <2>1. ASSUME Busy'
        PROVE  status'[currentThread'] = "RUNNING" /\ empty_ready_queue_start_time' = -1
    <3>1. Busy /\ currentThread \in Pid
      BY <1>2, <1>3, <2>1 DEF Busy, CpuTypes
    <3>2. status[currentThread] = "RUNNING" /\ empty_ready_queue_start_time = -1
      BY <3>1 DEF IInv, Modal
    <3> QED BY <1>1, <1>3, <3>1, <3>2
  <2>2. ASSUME mode' \in {"idle", "idleDue"}
        PROVE  readyList' = <<>> <=> empty_ready_queue_start_time' # -1
    <3>1. mode = "idleDue"
      BY <1>3, <2>2
    <3>2. readyList = <<>> <=> empty_ready_queue_start_time # -1
      BY <3>1 DEF IInv, Modal
    <3> QED BY <1>3, <3>2
  <2>3. ~(mode' = "idle" \/ (mode' = "idleDue" /\ OnlyTimer'))
    <3>1. OnlyTimer' => OnlyTimer
      BY FireSchedules
    <3> QED BY <1>3, <3>1
  <2>4. mode' \notin {"run", "idle", "halted"}
    BY <1>3
  <2> QED BY <2>1, <2>2, <2>3, <2>4 DEF Modal
<1>7. Accounts'
  <2>1. cpu_time + idleTicks + (IF Busy THEN Burst ELSE 0) = totalTicks
    BY DEF IInv, Accounts
  <2>2. mode' \notin {"timerAssert", "yieldAssert"} =>
          cpu_time' + idleTicks' + (IF Busy THEN Burst ELSE 0)' = totalTicks'
    <3>1. Burst' = Burst
      BY <1>1 DEF Burst
    <3>2. mode' # "timerAssert" => (Busy' <=> Busy)
      BY <1>3 DEF Busy
    <3> QED BY <1>1, <2>1, <3>1, <3>2
  <2>3. /\ currentThread' # 0 => burst_start_time'[currentThread'] = cpu_burst_start_time'
        /\ mode' = "timerAssert" => currentThread' = 0
    BY <1>1, <1>3 DEF IInv, Accounts
  <2> QED BY <1>1, <1>3, <2>2, <2>3 DEF Accounts
<1>8. Priorities'
  <2>1. \A t \in Pid : (Live(t)' => Live(t)) /\ (status'[t] = "NONE" => status[t] = "NONE")
    BY <1>3 DEF Live
  <2> QED BY <1>1, <2>1, SamePriorities DEF IInv
<1> QED BY <1>3, <1>4, <1>5, <1>6, <1>7, <1>8 DEF IInv

(* OneTick, second half.                                                    *)
LEMMA DoneKeeps ==
  ASSUME IInv, InterruptsDone PROVE IInv'
<1>1. /\ mode = "due" /\ Busy /\ NoneDue /\ totalTicks' = totalTicks /\ idleTicks' = idleTicks
      /\ readyIntegral' = readyIntegral /\ schedulingAlgo' = schedulingAlgo
  BY DEF InterruptsDone, Busy
<1>2. /\ CpuTypes /\ totalTicks \in Nat /\ Timers(pending, sleepQueue, totalTicks)
  BY DEF IInv, CpuTypes
<1>3. /\ Timers(pending', sleepQueue, totalTicks)
      /\ \A e \in ToSet(pending') : Head(pending).when <= e.when
      /\ totalTicks < Head(pending).when /\ Head(pending).when \in Nat
  <2>1. pending' = SortedInsert(Head(pending), Tail(pending)) /\ Head(pending).when > totalTicks
    BY <1>1 DEF NoneDue
  <2>2. Head(pending) \in Interrupt /\ Head(pending).when \in Nat
    <3>1. pending \in Seq(Interrupt) /\ pending # <<>>
      BY <1>2 DEF Timers, ToSet
    <3>2. Head(pending) \in Interrupt
      BY <3>1
    <3> QED BY <3>2 DEF Interrupt
  <2> QED BY <1>2, <2>1, <2>2, TimersPutBack
<1>4. CASE yieldOnReturn /\ YieldCPU
  BY <1>1, <1>3, <1>4, YieldKeeps
<1>5. CASE /\ mode' = "run"
           /\ UNCHANGED <<yieldOnReturn, queues, starts, priorities, emptiness, cpu_time,
                          total_wait_time>>
  <2>1. /\ currentThread' = currentThread /\ status' = status /\ readyList' = readyList
        /\ sleepQueue' = sleepQueue /\ cpu_burst_start_time' = cpu_burst_start_time
        /\ burst_start_time' = burst_start_time /\ wait_start_time' = wait_start_time
        /\ usage' = usage /\ basePriority' = basePriority /\ schedPriority' = schedPriority
        /\ empty_ready_queue_time' = empty_ready_queue_time
        /\ empty_ready_queue_start_time' = empty_ready_queue_start_time
        /\ cpu_time' = cpu_time /\ total_wait_time' = total_wait_time /\ mode' = "run"
    BY <1>5 DEF queues, starts, priorities, emptiness
  <2>2. CpuTypes'
    <3>1. mode' \in Modes
      BY <2>1 DEF Modes
    <3> QED BY <1>1, <1>2, <2>1, <3>1 DEF CpuTypes
  <2>3. OnLists(readyList, sleepQueue, status)'
    BY <2>1 DEF IInv
  <2>4. Timers(pending, sleepQueue, totalTicks)'
    BY <1>1, <1>3, <2>1
  <2>5. Modal'
    <3>1. \A e \in ToSet(pending') : totalTicks < e.when
      <4>1. pending' \in Seq(Interrupt)
        BY <1>3 DEF Timers
      <4>2. \A e \in ToSet(pending') : e.when \in Nat
        BY <4>1, PendingTypes
      <4> QED BY <1>2, <1>3, <4>2
    <3>2. status[currentThread] = "RUNNING" /\ empty_ready_queue_start_time = -1
      BY <1>1 DEF IInv, Modal
    <3> QED BY <1>1, <2>1, <3>1, <3>2 DEF Modal, Busy
  <2>6. Accounts'
    <3>1. Busy' /\ Burst' = Burst
      BY <1>1, <2>1 DEF Busy, Burst
    <3>2. cpu_time' + idleTicks' + (IF Busy THEN Burst ELSE 0)' = totalTicks'
      BY <1>1, <2>1, <3>1 DEF IInv, Accounts
    <3> QED BY <1>1, <2>1, <3>2 DEF IInv, Accounts
  <2>7. Priorities'
    BY <1>1, <2>1, SamePriorities DEF IInv, Live
  <2> QED BY <2>2, <2>3, <2>4, <2>5, <2>6, <2>7 DEF IInv
<1> QED BY <1>1, <1>4, <1>5 DEF InterruptsDone

-----------------------------------------------------------------------------
(* The operations of the kernel.                                            *)

(* What a thread in user code may rely on.                                  *)
LEMMA Running ==
  ASSUME IInv, mode = "run"
  PROVE  /\ Busy /\ currentThread \in Pid /\ status[currentThread] = "RUNNING"
         /\ OnLists(readyList, sleepQueue, status) /\ Timers(pending, sleepQueue, totalTicks)
         /\ readyList \in Seq(Pid) /\ status \in [Pid -> Statuses] /\ totalTicks \in Nat
         /\ wait_start_time \in [Pid -> Int] /\ basePriority \in [Pid -> Nat]
         /\ usage \in [Pid -> Nat] /\ schedPriority \in [Pid -> Nat]
         /\ \A e \in ToSet(pending) : totalTicks < e.when
         /\ total_wait_time + Waited(readyList, totalTicks, wait_start_time) = readyIntegral
BY DEF IInv, Modal, Busy, OnLists, CpuTypes, Accounts

(* A thread leaves the processor.                                           *)
LEMMA LeaveKeeps ==
  ASSUME IInv, mode = "run", EndBurst, NEW s \in {"BLOCKED", "FINISHED"},
         NEW list, list = readyList, NEW st, st = [status EXCEPT ![currentThread] = s],
         NEW waits, waits = wait_start_time, SwitchOrIdle(list, st, waits),
         OnLists(list, sleepQueue', st), Timers(pending', sleepQueue', totalTicks),
         \A e \in ToSet(pending') : totalTicks < e.when,
         UNCHANGED <<schedulingAlgo, totalTicks, idleTicks, readyIntegral, basePriority>>
  PROVE  IInv'
<1>1. /\ Busy /\ currentThread \in Pid /\ status[currentThread] = "RUNNING"
      /\ status \in [Pid -> Statuses] /\ waits \in [Pid -> Int]
      /\ total_wait_time + Waited(list, totalTicks, waits) = readyIntegral
  BY Running
<1>2. \A t \in Pid : /\ st[t] \notin {"NONE", "EXITED", "FINISHED"} => Live(t)
                     /\ st[t] = "NONE" => status[t] = "NONE"
  BY <1>1 DEF Live
<1> QED BY <1>1, <1>2, SwitchKeeps

(* system_Yield.                                                            *)
LEMMA YieldStep ==
  ASSUME IInv, Yield PROVE IInv'
<1>1. /\ mode = "run" /\ NewConsole /\ YieldCPU /\ schedulingAlgo' = schedulingAlgo
      /\ totalTicks' = totalTicks /\ idleTicks' = idleTicks /\ readyIntegral' = readyIntegral
  BY DEF Yield, InUser, clock
<1>2. Timers(pending', sleepQueue, totalTicks)
  BY <1>1, NewConsoleDoes
<1> QED BY <1>1, <1>2, Running, YieldKeeps

(* A thread waits for another one.                                          *)
LEMMA BlockStep ==
  ASSUME IInv, Block PROVE IInv'
<1>1. /\ mode = "run" /\ NewConsole /\ PutThreadToSleep /\ schedulingAlgo' = schedulingAlgo
      /\ totalTicks' = totalTicks /\ idleTicks' = idleTicks /\ readyIntegral' = readyIntegral
      /\ basePriority' = basePriority /\ sleepQueue' = sleepQueue
  BY DEF Block, InUser, clock
<1>2. PICK list, st, waits :
        /\ list = readyList /\ st = [status EXCEPT ![currentThread] = "BLOCKED"]
        /\ waits = wait_start_time
  OBVIOUS
<1>3. EndBurst /\ SwitchOrIdle(list, st, waits)
  BY <1>1, <1>2 DEF PutThreadToSleep, SwitchOrIdle, Run
<1>4. OnLists(list, sleepQueue', st)
  BY <1>1, <1>2, Running, StatusLists DEF Statuses
<1>5. Timers(pending', sleepQueue', totalTicks) /\ \A e \in ToSet(pending') : totalTicks < e.when
  BY <1>1, NewConsoleDoes
<1> QED BY <1>1, <1>2, <1>3, <1>4, <1>5, LeaveKeeps

(* main() ends.                                                             *)
LEMMA FinishStep ==
  ASSUME IInv, FinishThread PROVE IInv'
<1>1. /\ mode = "run" /\ currentThread = 0 /\ EndBurst /\ schedulingAlgo' = schedulingAlgo
      /\ totalTicks' = totalTicks /\ idleTicks' = idleTicks /\ readyIntegral' = readyIntegral
      /\ basePriority' = basePriority /\ sleepQueue' = sleepQueue /\ pending' = pending
  BY DEF FinishThread, InMain, clock
<1>2. PICK list, st, waits :
        /\ list = readyList /\ st = [status EXCEPT ![currentThread] = "FINISHED"]
        /\ waits = wait_start_time
  OBVIOUS
<1>3. SwitchOrIdle(list, st, waits)
  BY <1>1, <1>2 DEF FinishThread, SwitchOrIdle, Run
<1>4. OnLists(list, sleepQueue', st)
  BY <1>1, <1>2, Running, StatusLists DEF Statuses
<1>5. Timers(pending', sleepQueue', totalTicks) /\ \A e \in ToSet(pending') : totalTicks < e.when
  BY <1>1, Running
<1> QED BY <1>1, <1>2, <1>3, <1>4, <1>5, LeaveKeeps

(* system_Sleep.                                                            *)
LEMMA SleepStep ==
  ASSUME IInv, NEW ticks \in SleepTimes, Sleep(ticks) PROVE IInv'
<1>1. /\ mode = "run" /\ NewConsole /\ PutThreadToSleep /\ schedulingAlgo' = schedulingAlgo
      /\ totalTicks' = totalTicks /\ idleTicks' = idleTicks /\ readyIntegral' = readyIntegral
      /\ basePriority' = basePriority
      /\ sleepQueue' = SortedInsert([thread |-> currentThread, when |-> totalTicks + ticks],
                                    sleepQueue)
  BY DEF Sleep, InUser, clock
<1>2. PICK list, st, waits :
        /\ list = readyList /\ st = [status EXCEPT ![currentThread] = "BLOCKED"]
        /\ waits = wait_start_time
  OBVIOUS
<1>3. EndBurst /\ SwitchOrIdle(list, st, waits)
  BY <1>1, <1>2 DEF PutThreadToSleep, SwitchOrIdle, Run
<1>4. PICK t, when : t = currentThread /\ when = totalTicks + ticks
  OBVIOUS
<1>5. /\ t \in Pid /\ when \in Nat /\ totalTicks < when /\ status[t] = "RUNNING"
      /\ sleepQueue' = SortedInsert([thread |-> t, when |-> when], sleepQueue)
  <2>1. ticks \in Nat \ {0}
    BY CpuAssumption DEF CpuAssumption
  <2>2. totalTicks \in Nat /\ currentThread \in Pid /\ status[currentThread] = "RUNNING"
    BY <1>1, Running
  <2> QED BY <1>1, <1>4, <2>1, <2>2
<1>6. /\ Timers(pending', sleepQueue, totalTicks) /\ \E e \in ToSet(pending') : e.type = "console"
      /\ \A e \in ToSet(pending') : totalTicks < e.when
  BY <1>1, NewConsoleDoes
<1>7. OnLists(list, sleepQueue, status) /\ Ordered(sleepQueue) /\ sleepQueue \in Seq(Sleeper)
      /\ totalTicks \in Nat
  BY <1>1, <1>2, Running DEF Timers, OnLists
<1>8. OnLists(list, sleepQueue', st)
  BY <1>2, <1>4, <1>5, <1>7, SleepLists
<1>9. Timers(pending', sleepQueue', totalTicks)
  <2>1. PICK s : s = [thread |-> t, when |-> when]
    OBVIOUS
  <2>2. s \in Sleeper /\ totalTicks < s.when /\ sleepQueue' = SortedInsert(s, sleepQueue)
    BY <1>5, <2>1 DEF Sleeper
  <2> QED BY <1>6, <1>7, <2>2, TimersSleep
<1> QED BY <1>1, <1>2, <1>3, <1>6, <1>8, <1>9, LeaveKeeps

(* V and Signal.                                                            *)
LEMMA WakeStep ==
  ASSUME IInv, NEW t \in Pid, Wake(t) PROVE IInv'
<1>1. /\ mode = "run" /\ NewConsole /\ Ready(t) /\ status[t] = "BLOCKED" /\ t \notin Asleep
      /\ usage' = usage /\ basePriority' = basePriority /\ schedPriority' = schedPriority
      /\ schedulingAlgo' = schedulingAlgo /\ status' = Readied(<<t>>)
  BY DEF Wake, InUser, Blocked, priorities, Ready
<1>2. Timers(pending', sleepQueue, totalTicks)
  BY <1>1, NewConsoleDoes
<1>3. Priorities'
  <2>1. ToSet(<<t>>) = {t}
    BY <1>1, Running, Single
  <2>2. \A u \in Pid : (Live(u)' => Live(u)) /\ (status'[u] = "NONE" => status[u] = "NONE")
    BY <1>1, <2>1 DEF Live, Readied
  <2> QED BY <1>1, <2>2, SamePriorities DEF IInv
<1>4. \A j \in DOMAIN sleepQueue : sleepQueue[j].thread # t
  BY <1>1 DEF Asleep
<1>5. usage' \in [Pid -> Nat] /\ basePriority' \in [Pid -> Nat] /\ schedPriority' \in [Pid -> Nat]
  BY <1>1, Running
<1> QED BY <1>1, <1>2, <1>3, <1>4, <1>5, ReadyKeeps

(* The constructor of NachOSThread: a thread that has used nothing.         *)
LEMMA NewThreadKeeps ==
  ASSUME IInv, mode = "run", NEW t \in Pid, NEW base \in Nat, NewThread(t, base),
         Timers(pending', sleepQueue, totalTicks)
  PROVE  IInv'
<1>1. /\ status[t] = "NONE" /\ basePriority' = [basePriority EXCEPT ![t] = base]
      /\ schedPriority' = [schedPriority EXCEPT ![t] =
                             IF schedulingAlgo = "NON_PREEMPTIVE_SJF" THEN SystemTick ELSE base]
      /\ usage' = usage /\ Ready(t) /\ schedulingAlgo' = schedulingAlgo
      /\ status' = Readied(<<t>>)
  BY DEF NewThread, Ready
<1>2. /\ OnLists(readyList, sleepQueue, status) /\ readyList \in Seq(Pid)
      /\ usage \in [Pid -> Nat] /\ basePriority \in [Pid -> Nat] /\ schedPriority \in [Pid -> Nat]
  BY Running
<1>3. usage' \in [Pid -> Nat] /\ basePriority' \in [Pid -> Nat] /\ schedPriority' \in [Pid -> Nat]
  <2>1. SystemTick \in Nat
    BY CpuAssumption DEF CpuAssumption
  <2> QED BY <1>1, <1>2, <2>1
<1>4. \A j \in DOMAIN sleepQueue : sleepQueue[j].thread # t
  BY <1>1, <1>2 DEF OnLists
<1>5. Priorities'
  <2>1. ToSet(<<t>>) = {t}
    BY <1>2, Single
  <2>2. \A u \in Pid : status[u] = "NONE" => usage[u] = 0
    BY DEF IInv, Priorities
  <2>3. \A u \in Pid : status'[u] = "NONE" => usage'[u] = 0
    BY <1>1, <2>1, <2>2 DEF Readied
  <2>4. ASSUME schedulingAlgo = "UNIX_SCHED", NEW u \in Pid, Live(u)'
        PROVE  schedPriority'[u] = basePriority'[u] + usage'[u] \div 2
    <3>1. CASE u = t
      <4>1. usage'[u] = 0 /\ schedPriority'[u] = base /\ basePriority'[u] = base
        BY <1>1, <1>2, <2>2, <2>4, <3>1
      <4>2. base = base + 0 \div 2
        OBVIOUS
      <4> QED BY <4>1, <4>2
    <3>2. CASE u # t
      <4>1. Live(u)
        BY <1>1, <2>1, <2>4, <3>2 DEF Live, Readied
      <4>2. schedPriority[u] = basePriority[u] + usage[u] \div 2
        BY <2>4, <4>1 DEF IInv, Priorities, PriorityFollowsUsage
      <4> QED BY <1>1, <1>2, <3>2, <4>2
    <3> QED BY <3>1, <3>2
  <2> QED BY <1>1, <2>3, <2>4 DEF Priorities, PriorityFollowsUsage
<1> QED BY <1>1, <1>3, <1>4, <1>5, ReadyKeeps

(* system_Fork, and the forks of a batch.                                   *)
LEMMA ForkStep ==
  ASSUME IInv, NEW t \in Pid, Fork(t) \/ \E nice \in Nice : BatchFork(t, nice) PROVE IInv'
<1>1. CASE Fork(t)
  <2>1. PICK base : base = basePriority[currentThread]
    OBVIOUS
  <2>2. mode = "run" /\ NewConsole /\ NewThread(t, base)
    BY <1>1, <2>1 DEF Fork, InUser, NewThread
  <2>3. base \in Nat
    BY <2>1, <2>2, Running
  <2>4. Timers(pending', sleepQueue, totalTicks)
    BY <2>2, NewConsoleDoes
  <2> QED BY <2>2, <2>3, <2>4, NewThreadKeeps
<1>2. CASE \E nice \in Nice : BatchFork(t, nice)
  <2>1. PICK nice \in Nice : BatchFork(t, nice)
    BY <1>2
  <2>2. PICK base : base = BasePriority(nice)
    OBVIOUS
  <2>3. mode = "run" /\ pending' = pending /\ NewThread(t, base)
    BY <2>1, <2>2 DEF BatchFork, InMain, NewThread
  <2>4. base \in Nat
    BY <2>2, CpuAssumption DEF CpuAssumption, BasePriority
  <2>5. Timers(pending', sleepQueue, totalTicks)
    BY <2>3, Running
  <2> QED BY <2>3, <2>4, <2>5, NewThreadKeeps
<1> QED BY <1>1, <1>2

(* A list of nobody.                                                        *)
LEMMA NobodyIn ==
  ASSUME NEW S, NEW q \in Seq(S), \A i \in DOMAIN q : FALSE
  PROVE  q = <<>>
<1>1. DOMAIN q = 1 .. Len(q) /\ Len(q) \in Nat
  OBVIOUS
<1>2. Len(q) = 0
  <2>1. 1 \notin 1 .. Len(q)
    BY <1>1
  <2> QED BY <1>1, <2>1
<1> QED BY <1>2

(* Nobody joins nobody.                                                     *)
LEMMA NobodyJoined ==
  ASSUME NEW S, NEW p \in Seq(S), NEW q \in Seq(S), p \o q = <<>>
  PROVE  p = <<>>
<1>1. Len(p \o q) = Len(p) + Len(q) /\ Len(p) \in Nat /\ Len(q) \in Nat /\ Len(<<>>) = 0
  OBVIOUS
<1>2. Len(p) = 0
  BY <1>1
<1> QED BY <1>2

(* NachOSThread::Exit, with the parent that waits for the thread or nobody. *)
LEMMA ExitKeeps ==
  ASSUME IInv, mode = "run", NEW parent \in Seq(Pid), Distinct(parent),
         \A t \in ToSet(parent) : status[t] = "BLOCKED",
         \A j \in DOMAIN sleepQueue : sleepQueue[j].thread \notin ToSet(parent),
         ExitReadying(parent), Timers(pending', sleepQueue, totalTicks),
         \A e \in ToSet(pending') : totalTicks < e.when
  PROVE  IInv'
<1> DEFINE me == currentThread
           others == {t \in Pid : status[t] \notin {"NONE", "EXITED"}} \ {me}
<1>1. /\ EndBurst /\ schedulingAlgo' = schedulingAlgo /\ totalTicks' = totalTicks
      /\ idleTicks' = idleTicks /\ readyIntegral' = readyIntegral
      /\ basePriority' = basePriority /\ sleepQueue' = sleepQueue
  BY DEF ExitReadying, clock
<1>2. /\ Busy /\ me \in Pid /\ status[me] = "RUNNING" /\ status \in [Pid -> Statuses]
      /\ OnLists(readyList, sleepQueue, status) /\ readyList \in Seq(Pid)
  BY Running
<1>3. PICK list, st, waits :
        /\ list = readyList \o parent /\ st = [Readied(parent) EXCEPT ![me] = "EXITED"]
        /\ waits = WaitsFrom(parent)
  OBVIOUS
<1>4. /\ OnLists(list, sleepQueue, Readied(parent)) /\ waits \in [Pid -> Int]
      /\ total_wait_time + Waited(list, totalTicks, waits) = readyIntegral
  BY <1>2, <1>3, ReadyDoes
<1>5. me \notin ToSet(parent) /\ Readied(parent)[me] = "RUNNING"
  BY <1>2 DEF Readied
<1>6. OnLists(list, sleepQueue', st)
  BY <1>1, <1>2, <1>3, <1>4, <1>5, StatusLists DEF Statuses
<1>7. \A t \in Pid : /\ st[t] \notin {"NONE", "EXITED", "FINISHED"} => Live(t)
                     /\ st[t] = "NONE" => status[t] = "NONE"
  <2>1. \A t \in Pid : st[t] = IF t = me THEN "EXITED" ELSE Readied(parent)[t]
    BY <1>2, <1>3 DEF Readied
  <2> QED BY <1>2, <2>1 DEF Live, Readied
<1>8. CASE others # {}
  <2>1. SwitchOrIdle(list, st, waits)
    BY <1>3, <1>8 DEF ExitReadying, SwitchOrIdle, Run
  <2>2. list = <<>> => readyList = <<>>
    BY <1>2, <1>3, NobodyJoined
  <2>3. Timers(pending', sleepQueue', totalTicks)
    BY <1>1
  <2> QED BY <1>1, <1>2, <1>4, <1>6, <1>7, <2>1, <2>2, <2>3, SwitchKeeps
<1>9. CASE others = {}
  <2>1. /\ mode' = "halted" /\ status' = st /\ empty_ready_queue_start_time' = totalTicks
        /\ UNCHANGED <<empty_ready_queue_time, currentThread, readyList, starts, total_wait_time>>
    BY <1>3, <1>9 DEF ExitReadying
  <2>2. \A t \in Pid : t # me => status[t] \in {"NONE", "EXITED"}
    BY <1>9
  <2>3. readyList = <<>>
    <3>1. \A i \in DOMAIN readyList : status[readyList[i]] = "READY" /\ readyList[i] \in Pid
      BY <1>2 DEF OnLists, ToSet
    <3>2. \A i \in DOMAIN readyList : FALSE
      BY <1>2, <2>2, <3>1
    <3> QED BY <1>2, <3>2, NobodyIn
  <2>4. sleepQueue = <<>>
    <3>1. \A j \in DOMAIN sleepQueue : /\ status[sleepQueue[j].thread] = "BLOCKED"
                                       /\ sleepQueue[j].thread \in Pid
      BY <1>2, SleeperTypes DEF OnLists
    <3>2. \A j \in DOMAIN sleepQueue : FALSE
      BY <1>2, <2>2, <3>1
    <3>3. sleepQueue \in Seq(Sleeper)
      BY <1>2 DEF OnLists
    <3> QED BY <3>2, <3>3, NobodyIn
  <2>5. list = <<>>
    <3>1. \A i \in DOMAIN parent : status[parent[i]] = "BLOCKED" /\ parent[i] \in Pid
      BY DEF ToSet
    <3>2. \A i \in DOMAIN parent : FALSE
      BY <1>2, <2>2, <3>1
    <3>3. parent = <<>>
      BY <3>2, NobodyIn
    <3> QED BY <1>3, <2>3, <3>3
  <2>6. Priorities'
    <3>1. \A t \in Pid : (Live(t)' => Live(t)) /\ (status'[t] = "NONE" => status[t] = "NONE")
      BY <1>7, <2>1 DEF Live
    <3> QED BY <1>1, <3>1, BurstPriorities
  <2>7. /\ cpu_time' = cpu_time + Burst /\ usage' \in [Pid -> Nat]
        /\ schedPriority' \in [Pid -> Nat]
    BY <1>1, BurstEnds
  <2>8. OnLists(<<>>, sleepQueue', status') /\ Timers(pending', sleepQueue', totalTicks)
        /\ sleepQueue' = <<>> /\ readyList' = <<>>
    BY <1>1, <1>6, <2>1, <2>3, <2>4, <2>5
  <2> QED BY <1>1, <1>2, <2>1, <2>3, <2>6, <2>7, <2>8, OffKeeps
<1> QED BY <1>8, <1>9

(* system_Exit, and the exit of main after a batch.                         *)
LEMMA ExitStep ==
  ASSUME IInv, Exit \/ BatchExit PROVE IInv'
<1>1. CASE Exit
  <2>1. mode = "run" /\ NewConsole
    BY <1>1 DEF Exit, InUser
  <2>2. /\ Timers(pending', sleepQueue, totalTicks)
        /\ \A e \in ToSet(pending') : totalTicks < e.when
    BY <2>1, NewConsoleDoes
  <2>3. PICK parent \in {<<>>} \cup {<<t>> : t \in Blocked} : ExitReadying(parent)
    BY <1>1 DEF Exit
  <2>4. /\ parent \in Seq(Pid) /\ Distinct(parent) /\ \A t \in ToSet(parent) : status[t] = "BLOCKED"
        /\ \A j \in DOMAIN sleepQueue : sleepQueue[j].thread \notin ToSet(parent)
    <3>1. CASE parent = <<>>
      BY <3>1 DEF Distinct, ToSet
    <3>2. CASE parent # <<>>
      <4>1. PICK t \in Blocked : parent = <<t>>
        BY <2>3, <3>2
      <4>2. t \in Pid /\ status[t] = "BLOCKED" /\ t \notin Asleep
        BY DEF Blocked
      <4>3. parent \in Seq(Pid) /\ Distinct(parent) /\ ToSet(parent) = {t}
        BY <2>1, <4>1, <4>2, Single, Running
      <4> QED BY <4>2, <4>3 DEF Asleep
    <3> QED BY <3>1, <3>2
  <2> QED BY <2>1, <2>2, <2>3, <2>4, ExitKeeps
<1>2. CASE BatchExit
  <2>1. mode = "run" /\ pending' = pending
    BY <1>2 DEF BatchExit, InMain
  <2>2. PICK parent : parent = <<>>
    OBVIOUS
  <2>3. ExitReadying(parent)
    BY <1>2, <2>2 DEF BatchExit, ExitReadying
  <2>4. /\ parent \in Seq(Pid) /\ Distinct(parent) /\ \A t \in ToSet(parent) : status[t] = "BLOCKED"
        /\ \A j \in DOMAIN sleepQueue : sleepQueue[j].thread \notin ToSet(parent)
    BY <2>2 DEF Distinct, ToSet
  <2>5. /\ Timers(pending', sleepQueue, totalTicks)
        /\ \A e \in ToSet(pending') : totalTicks < e.when
    BY <2>1, Running
  <2> QED BY <2>1, <2>3, <2>4, <2>5, ExitKeeps
<1> QED BY <1>1, <1>2

-----------------------------------------------------------------------------
(* The idle loop.                                                           *)

(* Interrupt::Idle halts the machine: nobody sleeps, because a sleeper's    *)
(* console would still poll.                                                *)
LEMMA IdleHaltsKeeps ==
  ASSUME IInv, IdleHalts PROVE IInv'
<1>1. /\ mode = "idleDue" /\ OnlyTimer /\ mode' = "halted" /\ schedulingAlgo' = schedulingAlgo
      /\ totalTicks' = totalTicks /\ idleTicks' = idleTicks /\ readyIntegral' = readyIntegral
      /\ pending' = pending /\ currentThread' = currentThread /\ status' = status
      /\ readyList' = readyList /\ sleepQueue' = sleepQueue
      /\ cpu_burst_start_time' = cpu_burst_start_time
      /\ burst_start_time' = burst_start_time /\ wait_start_time' = wait_start_time
      /\ usage' = usage /\ basePriority' = basePriority /\ schedPriority' = schedPriority
      /\ empty_ready_queue_time' = empty_ready_queue_time
      /\ empty_ready_queue_start_time' = empty_ready_queue_start_time
      /\ cpu_time' = cpu_time /\ total_wait_time' = total_wait_time
  BY DEF IdleHalts, clock, queues, starts, priorities, emptiness
<1>2. /\ CpuTypes /\ Timers(pending, sleepQueue, totalTicks) /\ pending \in Seq(Interrupt)
      /\ readyList = <<>>
  BY <1>1 DEF IInv, Timers, Modal
<1>3. sleepQueue = <<>>
  <2>1. Len(pending) = 1 /\ Head(pending).type = "timer" /\ DOMAIN pending = 1 .. Len(pending)
    BY <1>1, <1>2 DEF OnlyTimer
  <2>2. Head(pending) = pending[1]
    BY <1>2, <2>1
  <2>3. \A e \in ToSet(pending) : e = pending[1]
    BY <2>1 DEF ToSet
  <2>4. ~ \E e \in ToSet(pending) : e.type = "console"
    BY <2>1, <2>2, <2>3
  <2> QED BY <1>2, <2>4 DEF Timers
<1>4. CpuTypes'
  <2>1. mode' \in Modes
    BY <1>1 DEF Modes
  <2> QED BY <1>1, <1>2, <2>1 DEF CpuTypes
<1>5. OnLists(readyList, sleepQueue, status)' /\ Timers(pending, sleepQueue, totalTicks)'
  BY <1>1 DEF IInv
<1>6. Modal'
  BY <1>1, <1>2, <1>3 DEF Modal, Busy
<1>7. Accounts'
  <2>1. ~Busy /\ ~Busy'
    BY <1>1 DEF Busy
  <2>2. cpu_time' + idleTicks' + (IF Busy THEN Burst ELSE 0)' = totalTicks'
    BY <1>1, <2>1 DEF IInv, Accounts
  <2> QED BY <1>1, <2>2 DEF IInv, Accounts
<1>8. Priorities'
  BY <1>1, SamePriorities DEF IInv, Live
<1> QED BY <1>4, <1>5, <1>6, <1>7, <1>8 DEF IInv

(* FindNextToRun, again.                                                    *)
LEMMA IdleDoneKeeps ==
  ASSUME IInv, IdleDone PROVE IInv'
<1>1. /\ mode = "idleDue" /\ NoneDue /\ schedulingAlgo' = schedulingAlgo
      /\ totalTicks' = totalTicks /\ idleTicks' = idleTicks /\ readyIntegral' = readyIntegral
      /\ sleepQueue' = sleepQueue /\ usage' = usage /\ basePriority' = basePriority
      /\ schedPriority' = schedPriority /\ cpu_time' = cpu_time
      /\ empty_ready_queue_time' = empty_ready_queue_time
      /\ empty_ready_queue_start_time' = empty_ready_queue_start_time
  BY DEF IdleDone, priorities, emptiness
<1>2. /\ CpuTypes /\ OnLists(readyList, sleepQueue, status) /\ Timers(pending, sleepQueue, totalTicks)
      /\ readyList \in Seq(Pid) /\ totalTicks \in Nat /\ idleTicks \in Int /\ cpu_time \in Int
      /\ schedPriority \in [Pid -> Nat] /\ usage \in [Pid -> Nat] /\ basePriority \in [Pid -> Nat]
      /\ wait_start_time \in [Pid -> Int] /\ empty_ready_queue_time \in Int /\ ~Busy
      /\ total_wait_time + Waited(readyList, totalTicks, wait_start_time) = readyIntegral
      /\ readyList = <<>> <=> empty_ready_queue_start_time # -1
  BY <1>1 DEF IInv, CpuTypes, OnLists, Accounts, Modal, Busy
<1>3. /\ Timers(pending', sleepQueue', totalTicks)
      /\ \A e \in ToSet(pending') : totalTicks < e.when
  <2>1. pending' = SortedInsert(Head(pending), Tail(pending)) /\ Head(pending).when > totalTicks
    BY <1>1 DEF NoneDue
  <2>2. /\ Timers(pending', sleepQueue, totalTicks)
        /\ \A e \in ToSet(pending') : Head(pending).when <= e.when
    BY <1>2, <2>1, TimersPutBack
  <2>3. Head(pending).when \in Nat
    <3>1. pending \in Seq(Interrupt) /\ pending # <<>>
      BY <1>2 DEF Timers, ToSet
    <3>2. Head(pending) \in Interrupt
      BY <3>1
    <3> QED BY <3>2 DEF Interrupt
  <2>4. \A e \in ToSet(pending') : e.when \in Nat
    <3>1. pending' \in Seq(Interrupt)
      BY <2>2 DEF Timers
    <3> QED BY <3>1, PendingTypes
  <2> QED BY <1>1, <1>2, <2>1, <2>2, <2>3, <2>4
<1>4. cpu_time + idleTicks = totalTicks
  <2>1. cpu_time + idleTicks + (IF Busy THEN Burst ELSE 0) = totalTicks
    BY <1>1 DEF IInv, Accounts
  <2> QED BY <1>2, <2>1
<1>5. CASE /\ readyList = <<>> /\ mode' = "idle"
           /\ UNCHANGED <<currentThread, status, readyList, starts, total_wait_time>>
  <2>1. /\ currentThread' = currentThread /\ status' = status /\ readyList' = readyList
        /\ cpu_burst_start_time' = cpu_burst_start_time
        /\ burst_start_time' = burst_start_time /\ wait_start_time' = wait_start_time
        /\ total_wait_time' = total_wait_time
    BY <1>5 DEF starts
  <2>2. CpuTypes'
    <3>1. mode' \in Modes
      BY <1>5 DEF Modes
    <3> QED BY <1>1, <1>2, <2>1, <3>1 DEF CpuTypes
  <2>3. OnLists(readyList, sleepQueue, status)' /\ Timers(pending, sleepQueue, totalTicks)'
    BY <1>1, <1>2, <1>3, <2>1
  <2>4. Modal'
    BY <1>1, <1>2, <1>3, <1>5, <2>1 DEF Modal, Busy
  <2>5. Accounts'
    <3>1. ~Busy'
      BY <1>5 DEF Busy
    <3>2. cpu_time' + idleTicks' + (IF Busy THEN Burst ELSE 0)' = totalTicks'
      BY <1>1, <1>2, <1>4, <3>1
    <3> QED BY <1>1, <1>5, <2>1, <3>2 DEF IInv, Accounts
  <2>6. Priorities'
    BY <1>1, <2>1, SamePriorities DEF IInv, Live
  <2> QED BY <2>2, <2>3, <2>4, <2>5, <2>6 DEF IInv
<1>6. CASE /\ readyList # <<>>
           /\ Run(readyList, Chosen(readyList, schedPriority), status, wait_start_time)
  <2>1. PICK list, i, st, waits :
          /\ list = readyList /\ i = Chosen(readyList, schedPriority) /\ st = status
          /\ waits = wait_start_time
    OBVIOUS
  <2>2. Run(list, i, st, waits)
    BY <1>6, <2>1 DEF Run
  <2>3. i \in DOMAIN list
    BY <1>2, <1>6, <2>1, ChosenIn
  <2>4. OnLists(list, sleepQueue', st) /\ waits \in [Pid -> Int]
        /\ total_wait_time + Waited(list, totalTicks, waits) = readyIntegral
    BY <1>1, <1>2, <2>1
  <2>5. Priorities'
    <3>1. status' = [status EXCEPT ![list[i]] = "RUNNING"] /\ list[i] \in Pid
          /\ status[list[i]] = "READY"
      BY <2>1, <2>2, <2>3, <2>4, RunLists DEF Run
    <3>2. \A t \in Pid : (Live(t)' => Live(t)) /\ (status'[t] = "NONE" => status[t] = "NONE")
      BY <1>2, <3>1 DEF Live, OnLists
    <3> QED BY <1>1, <3>2, SamePriorities DEF IInv
  <2>6. empty_ready_queue_start_time' = -1 /\ empty_ready_queue_time' = idleTicks
    <3>1. empty_ready_queue_start_time = -1
      BY <1>2, <1>6
    <3>2. empty_ready_queue_time + 0 = idleTicks
      BY <3>1 DEF IInv, Accounts
    <3> QED BY <1>1, <1>2, <3>1, <3>2
  <2> QED BY <1>1, <1>2, <1>3, <1>4, <2>2, <2>3, <2>4, <2>5, <2>6, RunKeeps
<1> QED BY <1>5, <1>6 DEF IdleDone

-----------------------------------------------------------------------------
(* The theorems.                                                            *)

(* Initialize.                                                              *)
LEMMA InitIInv ==
  CpuInit => IInv
<1> SUFFICES ASSUME CpuInit PROVE IInv
  OBVIOUS
<1>1. /\ 0 \in Pid /\ Algorithms \subseteq Policies /\ Uninitialised \subseteq Int
      /\ TimerTicks \in Nat \ {0} /\ DEFAULT_BASE_PRIORITY \in Nat
  BY CpuAssumption DEF CpuAssumption
<1>2. /\ schedulingAlgo \in Algorithms
      /\ totalTicks = 0 /\ idleTicks = 0 /\ readyIntegral = 0
      /\ pending = <<[type |-> "timer", when |-> TimerTicks]>>
      /\ mode = "kernel" /\ currentThread = 0 /\ readyList = <<>> /\ sleepQueue = <<>>
      /\ status = [t \in Pid |-> IF t = 0 THEN "RUNNING" ELSE "NONE"]
      /\ cpu_burst_start_time = 0
      /\ \E u \in Uninitialised : burst_start_time = [t \in Pid |-> u]
      /\ wait_start_time = [t \in Pid |-> 0] /\ usage = [t \in Pid |-> 0]
      /\ basePriority = [t \in Pid |-> DEFAULT_BASE_PRIORITY] /\ schedPriority = basePriority
      /\ cpu_time = 0 /\ total_wait_time = 0
      /\ empty_ready_queue_time = 0 /\ empty_ready_queue_start_time = -1
  BY DEF CpuInit
<1>3. CpuTypes
  <2>1. burst_start_time \in [Pid -> Int]
    BY <1>1, <1>2
  <2>2. /\ wait_start_time \in [Pid -> Int] /\ usage \in [Pid -> Nat]
        /\ basePriority \in [Pid -> Nat] /\ schedPriority \in [Pid -> Nat]
    BY <1>1, <1>2
  <2>3. schedulingAlgo \in Policies /\ mode \in Modes
    BY <1>1, <1>2 DEF Modes
  <2> QED BY <1>1, <1>2, <2>1, <2>2, <2>3 DEF CpuTypes
<1>4. OnLists(readyList, sleepQueue, status)
  <2>1. status \in [Pid -> Statuses]
    BY <1>2 DEF Statuses
  <2> QED BY <1>2, <2>1 DEF OnLists, Distinct, ToSet
<1>5. Timers(pending, sleepQueue, totalTicks)
  <2>1. PICK e : e = [type |-> "timer", when |-> TimerTicks]
    OBVIOUS
  <2>2. e \in Interrupt /\ e.type = "timer" /\ e.when = TimerTicks
    BY <1>1, <2>1 DEF Interrupt
  <2>3. pending = <<e>>
    BY <1>2, <2>1
  <2>4. pending \in Seq(Interrupt) /\ ToSet(pending) = {e} /\ DOMAIN pending = {1}
    BY <2>2, <2>3 DEF ToSet
  <2>5. Ordered(pending) /\ Ordered(sleepQueue)
    BY <1>1, <1>2, <2>2, <2>3, <2>4 DEF Ordered
  <2>6. ToSet(sleepQueue) = {}
    BY <1>2 DEF ToSet
  <2> QED BY <1>1, <1>2, <2>2, <2>4, <2>5, <2>6 DEF Timers
<1>6. Modal
  BY <1>1, <1>2 DEF Modal, Busy
<1>7. Accounts
  <2>1. Waited(<<>>, totalTicks, wait_start_time) = 0
    BY WaitedNobody
  <2>2. cpu_time + idleTicks + (IF Busy THEN Burst ELSE 0) = totalTicks
    BY <1>2 DEF Busy, Burst
  <2> QED BY <1>2, <2>1, <2>2 DEF Accounts
<1>8. Priorities
  <2>1. \A t \in Pid : schedPriority[t] = basePriority[t] + usage[t] \div 2
    <3>1. DEFAULT_BASE_PRIORITY = DEFAULT_BASE_PRIORITY + 0 \div 2
      BY <1>1
    <3> QED BY <1>2, <3>1
  <2> QED BY <1>2, <2>1 DEF Priorities, PriorityFollowsUsage
<1> QED BY <1>3, <1>4, <1>5, <1>6, <1>7, <1>8 DEF IInv

(* Nothing happens.                                                         *)
LEMMA StutterKeeps ==
  ASSUME IInv, UNCHANGED cpu PROVE IInv'
<1>1. /\ schedulingAlgo' = schedulingAlgo
      /\ totalTicks' = totalTicks /\ idleTicks' = idleTicks /\ readyIntegral' = readyIntegral
      /\ pending' = pending /\ mode' = mode /\ currentThread' = currentThread /\ status' = status
      /\ readyList' = readyList /\ sleepQueue' = sleepQueue
      /\ cpu_burst_start_time' = cpu_burst_start_time
      /\ burst_start_time' = burst_start_time /\ wait_start_time' = wait_start_time
      /\ usage' = usage /\ basePriority' = basePriority /\ schedPriority' = schedPriority
      /\ empty_ready_queue_time' = empty_ready_queue_time
      /\ empty_ready_queue_start_time' = empty_ready_queue_start_time
      /\ cpu_time' = cpu_time /\ total_wait_time' = total_wait_time
  BY DEF cpu, clock, queues, starts, priorities, emptiness
<1>2. CpuTypes'
  BY <1>1 DEF IInv, CpuTypes
<1>3. OnLists(readyList, sleepQueue, status)' /\ Timers(pending, sleepQueue, totalTicks)'
  BY <1>1 DEF IInv
<1>4. Modal'
  BY <1>1 DEF IInv, Modal, Busy, OnlyTimer
<1>5. Accounts'
  BY <1>1 DEF IInv, Accounts, Busy, Burst
<1>6. Priorities'
  BY <1>1, SamePriorities DEF IInv, Live
<1> QED BY <1>2, <1>3, <1>4, <1>5, <1>6 DEF IInv

(* Every step keeps the invariant.                                          *)
LEMMA NextKeeps ==
  ASSUME IInv, [CpuNext]_cpu PROVE IInv'
<1>1. CASE UserInstruction \/ EnableInterrupts
  <2>1. UserTick \in Nat \ {0} /\ SystemTick \in Nat \ {0}
    BY CpuAssumption DEF CpuAssumption
  <2> QED BY <1>1, <2>1, TickKeeps DEF UserInstruction, EnableInterrupts, InUser
<1>2. CASE InterruptDue \/ IdleInterrupt
  BY <1>2, FireKeeps DEF InterruptDue, IdleInterrupt
<1>3. CASE InterruptsDone
  BY <1>3, DoneKeeps
<1>4. CASE Yield
  BY <1>4, YieldStep
<1>5. CASE Block
  BY <1>5, BlockStep
<1>6. CASE Exit \/ BatchExit
  BY <1>6, ExitStep
<1>7. CASE FinishThread
  BY <1>7, FinishStep
<1>8. ASSUME NEW ticks \in SleepTimes, Sleep(ticks) PROVE IInv'
  BY <1>8, SleepStep
<1>9. ASSUME NEW t \in Pid, Wake(t) PROVE IInv'
  BY <1>9, WakeStep
<1>10. ASSUME NEW t \in Pid, Fork(t) \/ \E nice \in Nice : BatchFork(t, nice) PROVE IInv'
  BY <1>10, ForkStep
<1>11. CASE Idle
  BY <1>11, IdleKeeps
<1>12. CASE IdleHalts
  BY <1>12, IdleHaltsKeeps
<1>13. CASE IdleDone
  BY <1>13, IdleDoneKeeps
<1>14. CASE Ended \/ UNCHANGED cpu
  BY <1>14, StutterKeeps DEF Ended
<1> QED BY <1>1, <1>2, <1>3, <1>4, <1>5, <1>6, <1>7, <1>8, <1>9, <1>10, <1>11, <1>12, <1>13, <1>14
        DEF CpuNext

(* The invariant holds always.                                              *)
THEOREM CpuInvariant == CpuSpec => []IInv
<1>1. CpuInit => IInv
  BY InitIInv
<1>2. IInv /\ [CpuNext]_cpu => IInv'
  BY NextKeeps
<1> QED BY <1>1, <1>2, PTL DEF CpuSpec

(* The times that the kernel prints add up: processor and idle time to the  *)
(* time simulated, the waits to the length of the ready list summed over    *)
(* time.                                                                    *)
THEOREM TimesAddUp == CpuSpec => []TimeAccounted
<1>1. IInv => TimeAccounted
  BY DEF IInv, Accounts, TimeAccounted
<1> QED BY <1>1, CpuInvariant, PTL

(* No sleeper is forgotten or woken late.                                   *)
THEOREM SleepersNotForgotten == CpuSpec => []SleepersWoken
<1>1. ASSUME IInv PROVE SleepersWoken
  <2> SUFFICES ASSUME mode \in {"run", "idle"}, NEW i \in DOMAIN sleepQueue
               PROVE  totalTicks < sleepQueue[i].when + TimerTicks
    BY DEF SleepersWoken
  <2>1. /\ pending \in Seq(Interrupt) /\ sleepQueue \in Seq(Sleeper) /\ totalTicks \in Nat
        /\ \A e \in ToSet(pending) : totalTicks < e.when
    BY <1>1 DEF IInv, Timers, OnLists, Modal, CpuTypes
  <2>2. PICK e \in ToSet(pending) :
          e.type = "timer" /\ \A s \in ToSet(sleepQueue) : e.when < s.when + TimerTicks
    BY <1>1 DEF IInv, Timers
  <2>3. sleepQueue[i] \in ToSet(sleepQueue)
    BY DEF ToSet
  <2>4. totalTicks < e.when /\ e.when < sleepQueue[i].when + TimerTicks
    BY <2>1, <2>2, <2>3
  <2>5. e.when \in Nat /\ sleepQueue[i].when \in Nat /\ TimerTicks \in Nat
    BY <2>1, PendingTypes, SleeperTypes, CpuAssumption DEF CpuAssumption
  <2> QED BY <2>1, <2>4, <2>5
<1>2. IInv => SleepersWoken
  BY <1>1
<1> QED BY <1>2, CpuInvariant, PTL

(* UNIX_SCHED compares the priorities that belong to the usage.             *)
THEOREM PrioritiesUpToDate == CpuSpec => []PriorityFollowsUsage
<1>1. IInv => PriorityFollowsUsage
  BY DEF IInv, Priorities
<1> QED BY <1>1, CpuInvariant, PTL

(* The machine does not halt on threads that sleep or are ready.            *)
THEOREM HaltsWithNobodyLeft == CpuSpec => []HaltsWhenDone
<1>1. IInv => HaltsWhenDone
  BY DEF IInv, Modal, HaltsWhenDone
<1> QED BY <1>1, CpuInvariant, PTL

-----------------------------------------------------------------------------
(* How long a thread runs, and how long it waits.                           *)

(* The threads that have ever been made.                                    *)
Started == {t \in Pid : status[t] # "NONE"}

(* The time for which a thread runs at most before another one does, and    *)
(* that for which k threads run.                                            *)
Slice == SCHED_QUANTUM + TimerTicks + SystemTick - 2
Turns(k) == k * Slice

(* The timer last fired within the quantum, or the thread is about to be    *)
(* preempted.                                                               *)
Bursts ==
  /\ mode \in {"run", "kernel"} => Burst <= SCHED_QUANTUM + TimerTicks - 2
  /\ mode = "due" => Burst <= Slice
  /\ Busy /\ ~(mode = "due" /\ yieldOnReturn) =>
       \A e \in ToSet(pending) : e.type = "timer" =>
         e.when - TimerTicks < cpu_burst_start_time + SCHED_QUANTUM

(* Whoever is i-th has let at most those pass who were in front when it     *)
(* came, and the one that runs.                                             *)
InTurn(list, since, now, n, run) ==
  \A i \in DOMAIN list : now - since[list[i]] <= Turns(n - 1 - i) + run
Waiting ==
  /\ Busy => InTurn(readyList, wait_start_time, totalTicks, Cardinality(Started), Burst)
  /\ mode \in {"idle", "idleDue"} =>
       \A i \in DOMAIN readyList : wait_start_time[readyList[i]] = totalTicks

WInv == /\ IsFiniteSet(Started)
        /\ Preemptive => Bursts
        /\ schedulingAlgo = "ROUND_ROBIN" => Waiting

(* The lengths of time.                                                     *)
LEMMA Lengths ==
  /\ SCHED_QUANTUM \in Nat \ {0} /\ TimerTicks \in Nat \ {0} /\ SystemTick \in Nat \ {0}
  /\ UserTick \in Nat \ {0} /\ ConsoleTime \in Nat \ {0}
  /\ Slice \in Nat /\ SCHED_QUANTUM + TimerTicks - 2 \in Nat
  /\ SCHED_QUANTUM + TimerTicks - 2 <= Slice
BY CpuAssumption DEF CpuAssumption, Slice

(* One turn more is a slice more.                                           *)
LEMMA TurnsAre ==
  ASSUME NEW k \in Int
  PROVE  /\ Turns(k) \in Int /\ Turns(k) = Turns(k - 1) + Slice
         /\ \A l \in Int : k <= l => Turns(k) <= Turns(l)
         /\ 0 <= k => 0 <= Turns(k)
<1>1. PICK s \in Nat : s = Slice
  BY Lengths
<1>2. \A j \in Int : Turns(j) = j * s
  BY <1>1 DEF Turns
<1>3. Turns(k) \in Int /\ Turns(k) = Turns(k - 1) + Slice
  BY <1>1, <1>2
<1>4. ASSUME NEW l \in Int, k <= l PROVE Turns(k) <= Turns(l)
  <2>1. (l - k) * s >= 0
    BY <1>1, <1>4
  <2>2. l * s = k * s + (l - k) * s
    BY <1>1
  <2>3. l * s \in Int /\ k * s \in Int /\ (l - k) * s \in Int
    BY <1>1
  <2> QED BY <1>2, <2>1, <2>2, <2>3
<1>5. 0 <= k => 0 <= Turns(k)
  BY <1>1, <1>2
<1> QED BY <1>3, <1>4, <1>5

(* A list without repetition is not longer than there are threads for it.   *)
LEMMA ListedFew ==
  ASSUME NEW list, NEW sleepers, NEW st, OnLists(list, sleepers, st),
         NEW S, S = {t \in Pid : st[t] # "NONE"}, IsFiniteSet(S)
  PROVE  /\ Len(list) \in Nat /\ Cardinality(S) \in Nat /\ Len(list) <= Cardinality(S)
         /\ \A t \in Pid : st[t] = "RUNNING" => Len(list) <= Cardinality(S) - 1
<1>1. /\ list \in Seq(Pid) /\ Len(list) \in Nat /\ DOMAIN list = 1 .. Len(list)
      /\ \A i \in 1 .. Len(list) : list[i] \in Pid /\ st[list[i]] = "READY"
      /\ \A i, j \in 1 .. Len(list) : list[i] = list[j] => i = j
  BY DEF OnLists, Distinct, ToSet
<1>2. ASSUME NEW T, IsFiniteSet(T), \A i \in 1 .. Len(list) : list[i] \in T
      PROVE  Len(list) <= Cardinality(T)
  <2>1. list \in Injection(1 .. Len(list), T)
    BY <1>1, <1>2 DEF Injection, IsInjective
  <2>2. Cardinality(1 .. Len(list)) <= Cardinality(T)
    BY <1>2, <2>1, FS_Injection
  <2>3. Cardinality(1 .. Len(list)) = Len(list)
    <3>1. \A m \in Nat : Cardinality(1 .. m) = m
      BY FS_Interval
    <3> QED BY <1>1, <3>1
  <2> QED BY <2>2, <2>3
<1>3. Cardinality(S) \in Nat
  BY FS_CardinalityType
<1>4. Len(list) <= Cardinality(S)
  BY <1>1, <1>2
<1>5. ASSUME NEW t \in Pid, st[t] = "RUNNING" PROVE Len(list) <= Cardinality(S) - 1
  <2>1. IsFiniteSet(S \ {t}) /\ Cardinality(S \ {t}) = Cardinality(S) - 1
    <3>1. t \in S
      BY <1>5
    <3> QED BY <3>1, FS_RemoveElement
  <2>2. \A i \in 1 .. Len(list) : list[i] \in S \ {t}
    BY <1>1, <1>5
  <2> QED BY <1>2, <2>1, <2>2
<1> QED BY <1>1, <1>3, <1>4, <1>5

-----------------------------------------------------------------------------
(* The bursts.                                                              *)

(* When a burst begins the timer's interrupt is at most TimerTicks away.    *)
LEMMA BurstBegins ==
  ASSUME IInv', mode' = "kernel", cpu_burst_start_time' = totalTicks'
  PROVE  Bursts'
<1>1. /\ totalTicks' \in Nat /\ pending' \in Seq(Interrupt)
      /\ \A e \in ToSet(pending') : e.type = "timer" => e.when <= totalTicks' + TimerTicks
  BY DEF IInv, CpuTypes, Timers
<1>2. \A e \in ToSet(pending') : e.when \in Nat
  BY <1>1, PendingTypes
<1>3. Burst' = 0
  <2>1. Burst' = totalTicks' - cpu_burst_start_time'
    BY DEF Burst
  <2>2. \A x, y \in Nat : x = y => x - y = 0
    OBVIOUS
  <2>3. cpu_burst_start_time' \in Nat /\ totalTicks' = cpu_burst_start_time'
    BY <1>1
  <2> QED BY <1>1, <2>1, <2>2, <2>3
<1>4. \A e \in ToSet(pending') : e.type = "timer" =>
        e.when - TimerTicks < cpu_burst_start_time' + SCHED_QUANTUM
  BY <1>1, <1>2, Lengths
<1> QED BY <1>3, <1>4, Lengths DEF Bursts

(* An exception that goes back to the same thread does not change its burst.*)
LEMMA BurstGoesOn ==
  ASSUME Bursts, mode = "run", mode' = "kernel", totalTicks' = totalTicks,
         cpu_burst_start_time' = cpu_burst_start_time,
         \A e \in ToSet(pending') : e.type = "timer" => e \in ToSet(pending)
  PROVE  Bursts'
<1>1. Burst' = Burst
  BY DEF Burst
<1> QED BY <1>1 DEF Bursts, Busy

(* Time passes for the thread on the processor.                             *)
LEMMA BurstTicks ==
  ASSUME IInv, Bursts, mode \in {"run", "kernel"}, mode' = "due",
         NEW ticks \in Nat, ticks <= SystemTick, totalTicks' = totalTicks + ticks,
         cpu_burst_start_time' = cpu_burst_start_time, pending' = pending
  PROVE  Bursts' /\ Burst' = Burst + ticks
<1>1. /\ totalTicks \in Nat /\ cpu_burst_start_time \in Nat /\ Burst \in Int
      /\ Burst <= SCHED_QUANTUM + TimerTicks - 2
  BY DEF IInv, CpuTypes, Burst, Bursts
<1>2. Burst' = Burst + ticks
  BY <1>1 DEF Burst
<1>3. Burst' <= Slice
  BY <1>1, <1>2, Lengths DEF Slice
<1> QED BY <1>2, <1>3 DEF Bursts, Busy

(* When no interrupt is due the thread goes on, the timer's being still to  *)
(* come.                                                                    *)
LEMMA BurstResumes ==
  ASSUME IInv', Bursts, mode = "due", ~yieldOnReturn, mode' = "run", totalTicks' = totalTicks,
         cpu_burst_start_time' = cpu_burst_start_time, ToSet(pending') = ToSet(pending)
  PROVE  Bursts'
<1>1. /\ totalTicks' \in Nat /\ cpu_burst_start_time' \in Nat /\ pending' \in Seq(Interrupt)
      /\ \A e \in ToSet(pending') : totalTicks' < e.when
      /\ \E e \in ToSet(pending') : e.type = "timer"
  BY DEF IInv, CpuTypes, Timers, Modal
<1>2. \A e \in ToSet(pending') : e.type = "timer" =>
        e.when - TimerTicks < cpu_burst_start_time' + SCHED_QUANTUM
  BY DEF Bursts, Busy
<1>3. PICK e \in ToSet(pending') : e.type = "timer"
  BY <1>1
<1>4. e.when \in Nat
  BY <1>1, PendingTypes
<1>5. Burst' <= SCHED_QUANTUM + TimerTicks - 2
  BY <1>1, <1>2, <1>3, <1>4, Lengths DEF Burst
<1> QED BY <1>2, <1>5 DEF Bursts

-----------------------------------------------------------------------------
(* The waits.                                                               *)

(* The threads ts become ready, behind those of a list.                     *)
NewlyReady(list, ts, both, since, now, waits) ==
  /\ list \in Seq(Pid) /\ ts \in Seq(Pid) /\ both = list \o ts /\ ToSet(list) \cap ToSet(ts) = {}
  /\ since \in [Pid -> Int] /\ now \in Int
  /\ \A t \in Pid : waits[t] = IF t \in ToSet(ts) THEN now ELSE since[t]

(* Where the elements of the two lists are, and since when they wait.       *)
LEMMA JoinedAt ==
  ASSUME NEW list, NEW ts, NEW both, NEW since, NEW now, NEW waits,
         NewlyReady(list, ts, both, since, now, waits),
         NEW j \in DOMAIN both
  PROVE  /\ j \in Nat \ {0} /\ j <= Len(both) /\ Len(both) \in Nat
         /\ \/ j \in DOMAIN list /\ waits[both[j]] = since[list[j]] /\ since[list[j]] \in Int
            \/ waits[both[j]] = now
         /\ now \in Int
<1>1. /\ Len(list) \in Nat /\ DOMAIN list = 1 .. Len(list)
      /\ Len(ts) \in Nat /\ DOMAIN ts = 1 .. Len(ts)
      /\ Len(both) = Len(list) + Len(ts) /\ j \in 1 .. Len(list) + Len(ts)
      /\ both = list \o ts /\ list \in Seq(Pid) /\ ts \in Seq(Pid)
      /\ ToSet(list) \cap ToSet(ts) = {} /\ since \in [Pid -> Int] /\ now \in Int
      /\ \A t \in Pid : waits[t] = IF t \in ToSet(ts) THEN now ELSE since[t]
  BY DEF NewlyReady
<1>2. CASE j \in 1 .. Len(list)
  <2>1. both[j] = list[j] /\ list[j] \in Pid
    BY <1>1, <1>2
  <2>2. list[j] \in ToSet(list) /\ list[j] \notin ToSet(ts)
    BY <1>1, <1>2 DEF ToSet
  <2> QED BY <1>1, <1>2, <2>1, <2>2
<1>3. CASE j \notin 1 .. Len(list)
  <2>1. both[j] = ts[j - Len(list)] /\ j - Len(list) \in DOMAIN ts
    BY <1>1, <1>3
  <2>2. ts[j - Len(list)] \in ToSet(ts) /\ ts[j - Len(list)] \in Pid
    <3>1. \A k \in DOMAIN ts : ts[k] \in ToSet(ts) /\ ts[k] \in Pid
      BY <1>1 DEF ToSet
    <3> QED BY <2>1, <3>1
  <2> QED BY <1>1, <2>1, <2>2
<1> QED BY <1>2, <1>3

(* Whoever becomes ready goes to the end, and has not waited yet.           *)
LEMMA JoinsInTurn ==
  ASSUME NEW list, NEW ts, NEW both, NEW since, NEW now, NEW waits,
         NewlyReady(list, ts, both, since, now, waits),
         NEW n \in Nat, NEW m \in Nat, n <= m, NEW run \in Nat,
         InTurn(list, since, now, n, run), Len(both) <= m - 1
  PROVE  InTurn(both, waits, now, m, run)
<1> SUFFICES ASSUME NEW j \in DOMAIN both
             PROVE  now - waits[both[j]] <= Turns(m - 1 - j) + run
  BY DEF InTurn
<1>1. /\ j \in Nat \ {0} /\ j <= Len(both) /\ Len(both) \in Nat
      /\ \/ j \in DOMAIN list /\ waits[both[j]] = since[list[j]] /\ since[list[j]] \in Int
         \/ waits[both[j]] = now
      /\ now \in Int
  BY JoinedAt
<1>2. m - 1 - j \in Int /\ 0 <= m - 1 - j /\ n - 1 - j \in Int /\ n - 1 - j <= m - 1 - j
  BY <1>1
<1>3. PICK a, b : a = Turns(n - 1 - j) /\ b = Turns(m - 1 - j)
  OBVIOUS
<1>4. a \in Int /\ b \in Int /\ a <= b /\ 0 <= b
  BY <1>2, <1>3, TurnsAre
<1>5. CASE j \in DOMAIN list /\ waits[both[j]] = since[list[j]] /\ since[list[j]] \in Int
  <2>1. PICK x \in Int : x = since[list[j]]
    BY <1>5
  <2>2. now - x <= a + run /\ now \in Int
    BY <1>1, <1>3, <1>5, <2>1 DEF InTurn
  <2>3. now - x <= b + run
    BY <1>4, <2>1, <2>2
  <2> QED BY <1>3, <1>5, <2>1, <2>3
<1>6. CASE waits[both[j]] = now
  <2>1. now - now <= b + run
    BY <1>1, <1>4
  <2> QED BY <1>3, <1>6, <2>1
<1> QED BY <1>1, <1>5, <1>6

(* At the end of a burst, with those who become ready then.                 *)
LEMMA TurnEnds ==
  ASSUME NEW list, NEW ts, NEW both, NEW since, NEW now, NEW waits,
         NewlyReady(list, ts, both, since, now, waits),
         NEW n \in Nat, NEW run \in Nat, run <= Slice,
         InTurn(list, since, now, n, run), Len(both) <= n
  PROVE  \A j \in DOMAIN both : now - waits[both[j]] <= Turns(n - j)
<1> SUFFICES ASSUME NEW j \in DOMAIN both
             PROVE  now - waits[both[j]] <= Turns(n - j)
  OBVIOUS
<1>1. /\ j \in Nat \ {0} /\ j <= Len(both) /\ Len(both) \in Nat
      /\ \/ j \in DOMAIN list /\ waits[both[j]] = since[list[j]] /\ since[list[j]] \in Int
         \/ waits[both[j]] = now
      /\ now \in Int
  BY JoinedAt
<1>2. n - j \in Int /\ 0 <= n - j /\ n - 1 - j \in Int /\ n - j - 1 = n - 1 - j
  BY <1>1
<1>3. PICK a, b : a = Turns(n - 1 - j) /\ b = Turns(n - j)
  OBVIOUS
<1>4. a \in Int /\ b \in Int /\ b = a + Slice /\ 0 <= b /\ Slice \in Nat
  BY <1>2, <1>3, TurnsAre, Lengths
<1>5. CASE j \in DOMAIN list /\ waits[both[j]] = since[list[j]] /\ since[list[j]] \in Int
  <2>1. PICK x \in Int : x = since[list[j]]
    BY <1>5
  <2>2. now - x <= a + run /\ now \in Int
    BY <1>1, <1>3, <1>5, <2>1 DEF InTurn
  <2>3. now - x <= b
    BY <1>4, <2>1, <2>2
  <2> QED BY <1>3, <1>5, <2>1, <2>3
<1>6. CASE waits[both[j]] = now
  <2>1. now - now <= b
    BY <1>1, <1>4
  <2> QED BY <1>3, <1>6, <2>1
<1> QED BY <1>1, <1>5, <1>6

(* The first one runs, and all others have one in front of them less.       *)
LEMMA TurnBegins ==
  ASSUME NEW list \in Seq(Pid), NEW waits \in [Pid -> Int], NEW now \in Int, NEW n \in Nat,
         1 \in DOMAIN list,
         \A j \in DOMAIN list : now - waits[list[j]] <= Turns(n - j)
  PROVE  InTurn(RemoveAt(list, 1), waits, now, n, 0)
<1>1. RemoveAt(list, 1) = SubSeq(list, 1, 0) \o SubSeq(list, 2, Len(list))
  BY DEF RemoveAt
<1>2. Len(list) \in Nat /\ Len(list) >= 1 /\ DOMAIN list = 1 .. Len(list)
  OBVIOUS
<1>3. PICK rest \in Seq(Pid) : /\ rest = RemoveAt(list, 1) /\ Len(rest) = Len(list) - 1
                              /\ \A j \in 1 .. Len(list) - 1 : rest[j] = list[j + 1]
  <2> DEFINE head == SubSeq(list, 1, 0)
             tail == SubSeq(list, 2, Len(list))
  <2>1. head \in Seq(Pid) /\ Len(head) = 0
    BY <1>2
  <2>2. /\ tail \in Seq(Pid) /\ Len(tail) = Len(list) - 1
        /\ \A j \in 1 .. Len(list) - 1 : tail[j] = list[j + 1]
    BY <1>2
  <2>3. RemoveAt(list, 1) = head \o tail
    BY <1>1
  <2> HIDE DEF head, tail
  <2>4. head \o tail = tail
    BY <2>1, <2>2
  <2> QED BY <2>2, <2>3, <2>4
<1>4. ASSUME NEW j \in DOMAIN rest PROVE now - waits[rest[j]] <= Turns(n - 1 - j) + 0
  <2>1. j \in Nat /\ j + 1 \in DOMAIN list /\ rest[j] = list[j + 1] /\ list[j + 1] \in Pid
    <3>1. j \in 1 .. Len(list) - 1
      BY <1>3, <1>4
    <3>2. j \in Nat /\ j + 1 \in 1 .. Len(list)
      BY <1>2, <3>1
    <3> QED BY <1>2, <1>3, <3>1, <3>2
  <2>2. now - waits[list[j + 1]] <= Turns(n - (j + 1))
    BY <2>1
  <2>3. n - (j + 1) = n - 1 - j /\ n - 1 - j \in Int
    <3>1. \A k \in Nat : n - (k + 1) = n - 1 - k /\ n - 1 - k \in Int
      OBVIOUS
    <3> QED BY <2>1, <3>1
  <2>4. Turns(n - 1 - j) \in Int
    BY <2>3, TurnsAre
  <2> QED BY <2>1, <2>2, <2>3, <2>4
<1> QED BY <1>3, <1>4 DEF InTurn

-----------------------------------------------------------------------------
(* The steps.                                                               *)

(* Nobody is made.                                                          *)
LEMMA StartedSame ==
  ASSUME \A t \in Pid : status'[t] = "NONE" <=> status[t] = "NONE"
  PROVE  Started' = Started
BY DEF Started

(* A dispatch.                                                              *)
LEMMA RunTurns ==
  ASSUME IInv', NEW list, NEW i, NEW st, NEW waits \in [Pid -> Int], Run(list, i, st, waits),
         NEW now \in Nat, totalTicks = now, totalTicks' = now, IsFiniteSet(Started'),
         schedulingAlgo' = "ROUND_ROBIN" =>
           /\ i = 1 /\ 1 \in DOMAIN list /\ list \in Seq(Pid)
           /\ \A j \in DOMAIN list : now - waits[list[j]] <= Turns(Cardinality(Started') - j)
  PROVE  WInv'
<1>1. /\ mode' = "kernel" /\ cpu_burst_start_time' = now
      /\ readyList' = RemoveAt(list, i) /\ wait_start_time' = waits
  BY DEF Run
<1>2. Bursts'
  BY <1>1, BurstBegins
<1>3. ASSUME schedulingAlgo' = "ROUND_ROBIN" PROVE Waiting'
  <2>1. PICK n \in Nat : n = Cardinality(Started')
    BY FS_CardinalityType
  <2>2. InTurn(RemoveAt(list, 1), waits, now, n, 0)
    BY <1>3, <2>1, TurnBegins
  <2>3. Burst' = 0
    <3>1. Burst' = now - now
      BY <1>1 DEF Burst
    <3> QED BY <3>1
  <2>4. InTurn(readyList', wait_start_time', totalTicks', Cardinality(Started'), Burst')
    BY <1>1, <1>3, <2>1, <2>2, <2>3
  <2> QED BY <1>1, <2>4 DEF Waiting
<1> QED BY <1>2, <1>3 DEF WInv

(* A dispatch makes nobody.                                                 *)
LEMMA RunMakesNobody ==
  ASSUME NEW list, NEW sleepers, NEW st, OnLists(list, sleepers, st), NEW i \in DOMAIN list,
         NEW waits, Run(list, i, st, waits), \A t \in Pid : st[t] = "NONE" <=> status[t] = "NONE"
  PROVE  Started' = Started
<1>1. status' = [st EXCEPT ![list[i]] = "RUNNING"]
  BY DEF Run
<1>2. list[i] \in Pid /\ st[list[i]] = "READY" /\ st \in [Pid -> Statuses]
  BY RunLists DEF OnLists
<1>3. \A t \in Pid : status'[t] = "NONE" <=> st[t] = "NONE"
  BY <1>1, <1>2
<1> QED BY <1>3, StartedSame

(* What is known of the burst and the waits under ROUND_ROBIN.              *)
LEMMA InTurns ==
  ASSUME IInv, WInv, mode \in {"run", "kernel", "due"}
  PROVE  /\ totalTicks \in Nat /\ Burst \in Nat /\ Cardinality(Started) \in Nat
         /\ readyList \in Seq(Pid) /\ wait_start_time \in [Pid -> Int]
         /\ OnLists(readyList, sleepQueue, status)
         /\ currentThread \in Pid /\ status[currentThread] = "RUNNING"
         /\ Len(readyList) \in Nat /\ Len(readyList) <= Cardinality(Started) - 1
         /\ Preemptive => Burst <= Slice
         /\ schedulingAlgo = "ROUND_ROBIN" =>
              /\ Preemptive /\ ~ByPriority
              /\ InTurn(readyList, wait_start_time, totalTicks, Cardinality(Started), Burst)
<1>1. /\ totalTicks \in Nat /\ cpu_burst_start_time \in Nat /\ cpu_burst_start_time <= totalTicks
      /\ readyList \in Seq(Pid) /\ wait_start_time \in [Pid -> Int]
      /\ OnLists(readyList, sleepQueue, status) /\ currentThread \in Pid /\ Busy
  BY DEF IInv, CpuTypes, OnLists, Busy
<1>2. status[currentThread] = "RUNNING"
  BY <1>1 DEF IInv, Modal
<1>3. Burst \in Nat
  BY <1>1 DEF Burst
<1>4. PICK s : s = {t \in Pid : status[t] # "NONE"} /\ s = Started /\ IsFiniteSet(s)
  BY DEF Started, WInv
<1>5. Len(readyList) \in Nat /\ Cardinality(s) \in Nat /\ Len(readyList) <= Cardinality(s) - 1
  BY <1>1, <1>2, <1>4, ListedFew
<1>6. ASSUME Preemptive PROVE Burst <= Slice
  <2>1. mode = "due" => Burst <= Slice
    BY <1>6 DEF WInv, Bursts
  <2>2. mode # "due" => Burst <= SCHED_QUANTUM + TimerTicks - 2
    BY <1>6 DEF WInv, Bursts
  <2> QED BY <1>3, <2>1, <2>2, Lengths
<1>7. ASSUME schedulingAlgo = "ROUND_ROBIN"
      PROVE  /\ Preemptive /\ ~ByPriority
             /\ InTurn(readyList, wait_start_time, totalTicks, Cardinality(Started), Burst)
  BY <1>1, <1>7 DEF Preemptive, ByPriority, WInv, Waiting
<1> QED BY <1>1, <1>2, <1>3, <1>4, <1>5, <1>6, <1>7

(* Time passes.                                                             *)
LEMMA TickTurns ==
  ASSUME IInv, WInv, UserTick <= SystemTick, UserInstruction \/ EnableInterrupts
  PROVE  WInv'
<1>1. PICK ticks \in Nat : OneTick(ticks) /\ ticks <= SystemTick
  BY Lengths DEF UserInstruction, EnableInterrupts
<1>2. /\ mode \in {"run", "kernel"} /\ mode' = "due" /\ totalTicks' = totalTicks + ticks
      /\ schedulingAlgo' = schedulingAlgo /\ pending' = pending
      /\ status' = status /\ readyList' = readyList /\ wait_start_time' = wait_start_time
      /\ cpu_burst_start_time' = cpu_burst_start_time
  BY <1>1 DEF OneTick, UserInstruction, EnableInterrupts, InUser, queues, starts
<1>3. Started' = Started
  BY <1>2, StartedSame
<1>4. ASSUME Preemptive PROVE Bursts' /\ Burst' = Burst + ticks
  BY <1>1, <1>2, <1>4, BurstTicks DEF WInv
<1>5. ASSUME schedulingAlgo = "ROUND_ROBIN" PROVE Waiting'
  <2>1. /\ totalTicks \in Nat /\ Burst \in Nat /\ Cardinality(Started) \in Nat
        /\ readyList \in Seq(Pid) /\ wait_start_time \in [Pid -> Int] /\ Preemptive
        /\ InTurn(readyList, wait_start_time, totalTicks, Cardinality(Started), Burst)
    BY <1>2, <1>5, InTurns
  <2>2. Burst' = Burst + ticks
    BY <1>4, <2>1
  <2>3. ASSUME NEW i \in DOMAIN readyList
        PROVE  (totalTicks + ticks) - wait_start_time[readyList[i]]
                 <= Turns(Cardinality(Started) - 1 - i) + (Burst + ticks)
    <3>1. PICK x \in Int : x = wait_start_time[readyList[i]]
      BY <2>1
    <3>2. PICK a \in Int : a = Turns(Cardinality(Started) - 1 - i)
      <4>1. Cardinality(Started) - 1 - i \in Int
        BY <2>1
      <4> QED BY <4>1, TurnsAre
    <3>3. totalTicks - x <= a + Burst
      BY <2>1, <3>1, <3>2 DEF InTurn
    <3>4. (totalTicks + ticks) - x <= a + (Burst + ticks)
      BY <1>1, <2>1, <3>3
    <3> QED BY <3>1, <3>2, <3>4
  <2>4. InTurn(readyList, wait_start_time, totalTicks + ticks, Cardinality(Started), Burst + ticks)
    BY <2>3 DEF InTurn
  <2> QED BY <1>2, <1>3, <2>2, <2>4 DEF Waiting
<1>6. Preemptive' = Preemptive
  BY <1>2 DEF Preemptive
<1> QED BY <1>2, <1>3, <1>4, <1>5, <1>6 DEF WInv

(* The timer comes again when it has fired, and no other time.              *)
LEMMA FireTimers ==
  ASSUME IInv, FireInterrupt
  PROVE  \A e \in ToSet(pending') : e.type = "timer" =>
           \/ e \in ToSet(pending)
           \/ Head(pending).type = "timer" /\ e.when = totalTicks + TimerTicks
<1>1. /\ pending \in Seq(Interrupt) /\ pending # <<>> /\ Ordered(pending) /\ totalTicks \in Nat
      /\ TimerTicks \in Nat /\ ConsoleTime \in Nat
  BY CpuAssumption DEF CpuAssumption, IInv, CpuTypes, Timers, ToSet
<1>2. PICK h, t : h = Head(pending) /\ t = Tail(pending)
  OBVIOUS
<1>3. h \in Interrupt /\ t \in Seq(Interrupt) /\ Ordered(t) /\ ToSet(pending) = ToSet(t) \cup {h}
  BY <1>1, <1>2, TailKeeps
<1>4. PICK every \in Nat : /\ pending' = SortedInsert([h EXCEPT !.when = totalTicks + every], t)
                           /\ h.type = "timer" => every = TimerTicks
  <2>1. CASE h.type = "timer"
    BY <1>1, <1>2, <2>1 DEF FireInterrupt
  <2>2. CASE h.type # "timer"
    BY <1>1, <1>2, <2>2 DEF FireInterrupt
  <2> QED BY <2>1, <2>2
<1>5. PICK e \in Interrupt : /\ e = [h EXCEPT !.when = totalTicks + every]
                             /\ e.type = h.type /\ e.when = totalTicks + every
  <2>1. totalTicks + every \in Nat /\ h.type \in {"timer", "console"}
        /\ h = [type |-> h.type, when |-> h.when]
    BY <1>1, <1>3 DEF Interrupt
  <2>2. [h EXCEPT !.when = totalTicks + every] = [type |-> h.type, when |-> totalTicks + every]
    BY <2>1
  <2> QED BY <2>1, <2>2 DEF Interrupt
<1>6. ToSet(pending') = ToSet(t) \cup {e}
  <2>1. \A x \in Interrupt : x.when \in Nat
    BY DEF Interrupt
  <2>2. ToSet(SortedInsert(e, t)) = ToSet(t) \cup {e}
    BY <1>3, <2>1, InsertKeeps
  <2> QED BY <1>4, <1>5, <2>2
<1> QED BY <1>2, <1>3, <1>4, <1>5, <1>6

(* The handler of the timer's interrupt, or of a console's.                 *)
LEMMA FireReadies ==
  ASSUME IInv, FireInterrupt
  PROVE  /\ totalTicks' = totalTicks /\ schedulingAlgo' = schedulingAlgo
         /\ cpu_burst_start_time' = cpu_burst_start_time
         /\ \A t \in Pid : status'[t] = "NONE" <=> status[t] = "NONE"
         /\ \E ts : NewlyReady(readyList, ts, readyList', wait_start_time, totalTicks, wait_start_time')
         /\ \/ Head(pending).type # "timer" /\ mode' = mode /\ yieldOnReturn' = yieldOnReturn
            \/ /\ mode' \in {mode, "timerAssert"}
               /\ QuantumOver => mode' = "timerAssert" \/ yieldOnReturn'
               /\ yieldOnReturn => yieldOnReturn'
<1>1. /\ CpuTypes /\ OnLists(readyList, sleepQueue, status) /\ Timers(pending, sleepQueue, totalTicks)
      /\ totalTicks \in Nat /\ sleepQueue \in Seq(Sleeper) /\ readyList \in Seq(Pid)
      /\ Ordered(sleepQueue) /\ DOMAIN sleepQueue = 1 .. Len(sleepQueue)
      /\ Len(sleepQueue) \in Nat /\ wait_start_time \in [Pid -> Int] /\ status \in [Pid -> Statuses]
  BY SMTT(30), ZenonT(30) DEF IInv, CpuTypes, OnLists, Timers
<1>2. /\ totalTicks' = totalTicks /\ schedulingAlgo' = schedulingAlgo
      /\ cpu_burst_start_time' = cpu_burst_start_time
  BY DEF FireInterrupt
<1>3. CASE Head(pending).type = "timer" /\ TimerInterruptHandler
  <2>1. PICK d \in 0 .. Len(sleepQueue) :
          d = Cardinality({i \in DOMAIN sleepQueue : sleepQueue[i].when <= totalTicks})
    <3>1. \A e \in Sleeper : e.when \in Nat
      BY DEF Sleeper
    <3> QED BY <1>1, <3>1, DuePrefix
  <2>2. PICK ts, rest : FirstLeave(d, ts, rest, sleepQueue)
    BY DEF FirstLeave
  <2>3. /\ readyList' = readyList \o ts /\ status' = Readied(ts) /\ wait_start_time' = WaitsFrom(ts)
        /\ mode' \in {mode, "timerAssert"}
        /\ QuantumOver => mode' = "timerAssert" \/ yieldOnReturn'
        /\ yieldOnReturn => yieldOnReturn'
    BY <1>3, <2>1, <2>2 DEF FirstLeave, TimerInterruptHandler, Readied, WaitsFrom
  <2>4. ts \in Seq(Pid) /\ \A t \in ToSet(ts) : status[t] = "BLOCKED"
    BY <1>1, <2>2, WokenLists
  <2>5. NewlyReady(readyList, ts, readyList', wait_start_time, totalTicks, wait_start_time')
    <3>1. ToSet(readyList) \cap ToSet(ts) = {}
      BY <1>1, <2>4 DEF OnLists
    <3>2. \A t \in Pid : wait_start_time'[t]
                           = IF t \in ToSet(ts) THEN totalTicks ELSE wait_start_time[t]
      BY <2>3 DEF WaitsFrom
    <3> QED BY <1>1, <2>3, <2>4, <3>1, <3>2 DEF NewlyReady
  <2>6. \A t \in Pid : status'[t] = "NONE" <=> status[t] = "NONE"
    BY <2>3, <2>4 DEF Readied
  <2> QED BY <1>2, <2>3, <2>5, <2>6
<1>4. CASE /\ Head(pending).type = "console"
           /\ UNCHANGED <<sleepQueue, readyList, status, wait_start_time, emptiness,
                          yieldOnReturn, mode>>
  <2>1. /\ readyList' = readyList /\ status' = status /\ wait_start_time' = wait_start_time
        /\ mode' = mode /\ yieldOnReturn' = yieldOnReturn
    BY <1>4
  <2>2. NewlyReady(readyList, <<>>, readyList', wait_start_time, totalTicks, wait_start_time')
    <3>1. ToSet(<<>>) = {} /\ <<>> \in Seq(Pid) /\ readyList \o <<>> = readyList
      BY <1>1 DEF ToSet
    <3> QED BY <1>1, <2>1, <3>1 DEF NewlyReady
  <2>3. \E ts : NewlyReady(readyList, ts, readyList', wait_start_time, totalTicks, wait_start_time')
    BY <2>2
  <2> QED BY <1>2, <1>4, <2>1, <2>3
<1> QED BY <1>3, <1>4 DEF FireInterrupt

(* The current thread goes on, and others become ready in this step.        *)
LEMMA OthersReady ==
  ASSUME IInv, IInv', WInv, mode \in {"run", "due"}, mode' \in {"run", "kernel", "due"},
         schedulingAlgo = "ROUND_ROBIN", totalTicks' = totalTicks,
         cpu_burst_start_time' = cpu_burst_start_time,
         Started \subseteq Started', IsFiniteSet(Started'),
         NEW ts, NewlyReady(readyList, ts, readyList', wait_start_time, totalTicks, wait_start_time')
  PROVE  Waiting'
<1>1. /\ totalTicks \in Nat /\ Burst \in Nat /\ Cardinality(Started) \in Nat
      /\ InTurn(readyList, wait_start_time, totalTicks, Cardinality(Started), Burst)
  BY InTurns
<1>2. Burst' = Burst
  BY DEF Burst
<1>3. PICK m \in Nat : m = Cardinality(Started') /\ Cardinality(Started) <= m
  BY FS_Subset, FS_CardinalityType
<1>4. Len(readyList') <= m - 1
  <2>1. /\ OnLists(readyList', sleepQueue', status') /\ currentThread' \in Pid
        /\ status'[currentThread'] = "RUNNING"
    BY DEF IInv, CpuTypes, Modal, Busy
  <2>2. PICK s : s = {t \in Pid : status'[t] # "NONE"} /\ s = Started' /\ IsFiniteSet(s)
    BY DEF Started
  <2> QED BY <1>3, <2>1, <2>2, ListedFew
<1>5. InTurn(readyList', wait_start_time', totalTicks, m, Burst)
  BY <1>1, <1>3, <1>4, JoinsInTurn
<1> QED BY <1>2, <1>3, <1>5 DEF Waiting, Busy

(* An interrupt fires.                                                      *)
LEMMA FireTurns ==
  ASSUME IInv, IInv', WInv, mode \in {"due", "idleDue"}, FireInterrupt
  PROVE  WInv'
<1>1. /\ totalTicks' = totalTicks /\ schedulingAlgo' = schedulingAlgo
      /\ cpu_burst_start_time' = cpu_burst_start_time
      /\ \A t \in Pid : status'[t] = "NONE" <=> status[t] = "NONE"
      /\ mode' \in {mode, "timerAssert"}
      /\ Head(pending).type = "timer" /\ QuantumOver => mode' = "timerAssert" \/ yieldOnReturn'
      /\ mode' = "timerAssert" \/ (yieldOnReturn => yieldOnReturn')
  BY FireReadies
<1>2. PICK ts :
        NewlyReady(readyList, ts, readyList', wait_start_time, totalTicks, wait_start_time')
  BY FireReadies
<1>3. Started' = Started
  BY <1>1, StartedSame
<1>4. Preemptive' = Preemptive /\ totalTicks \in Nat /\ cpu_burst_start_time \in Nat
  BY <1>1 DEF Preemptive, IInv, CpuTypes
<1>5. ASSUME Preemptive PROVE Bursts'
  <2>1. CASE mode' # "due"
    BY <1>1, <2>1 DEF Bursts, Busy
  <2>2. CASE mode' = "due"
    <3>1. mode = "due" /\ Burst' = Burst /\ Burst <= Slice
      BY <1>1, <1>5, <2>2 DEF Burst, WInv, Bursts
    <3>2. ASSUME ~yieldOnReturn', NEW e \in ToSet(pending'), e.type = "timer"
          PROVE  e.when - TimerTicks < cpu_burst_start_time' + SCHED_QUANTUM
      <4>1. CASE e \in ToSet(pending)
        BY <1>1, <1>5, <2>2, <3>1, <3>2, <4>1 DEF WInv, Bursts, Busy
      <4>2. CASE Head(pending).type = "timer" /\ e.when = totalTicks + TimerTicks
        <5>1. ~(Burst >= SCHED_QUANTUM)
          BY <1>1, <1>5, <2>2, <3>2, <4>2 DEF QuantumOver
        <5>2. totalTicks - cpu_burst_start_time < SCHED_QUANTUM
          BY <1>4, <5>1, Lengths DEF Burst
        <5>3. e.when - TimerTicks = totalTicks
          BY <1>4, <4>2, Lengths
        <5> QED BY <1>1, <1>4, <5>2, <5>3, Lengths
      <4> QED BY <3>2, <4>1, <4>2, FireTimers
    <3> QED BY <2>2, <3>1, <3>2 DEF Bursts
  <2> QED BY <2>1, <2>2
<1>6. ASSUME schedulingAlgo = "ROUND_ROBIN" PROVE Waiting'
  <2>1. CASE mode' = "due"
    BY <1>1, <1>2, <1>3, <1>6, <2>1, OthersReady DEF WInv
  <2>2. CASE mode' = "timerAssert"
    BY <2>2 DEF Waiting, Busy
  <2>3. CASE mode' = "idleDue"
    <3>1. mode = "idleDue" /\ ~Busy'
      BY <1>1, <2>3 DEF Busy
    <3>2. \A i \in DOMAIN readyList : wait_start_time[readyList[i]] = totalTicks
      BY <1>6, <3>1 DEF WInv, Waiting
    <3>3. ASSUME NEW j \in DOMAIN readyList' PROVE wait_start_time'[readyList'[j]] = totalTicks
      BY <1>2, <3>2, JoinedAt
    <3> QED BY <1>1, <3>1, <3>3 DEF Waiting
  <2> QED BY <1>1, <2>1, <2>2, <2>3
<1> QED BY <1>1, <1>3, <1>4, <1>5, <1>6 DEF WInv

(* A yield, of a thread or by the timer.                                    *)
LEMMA YieldTurns ==
  ASSUME IInv, IInv', WInv, mode \in {"run", "due"}, YieldCPU,
         totalTicks' = totalTicks, schedulingAlgo' = schedulingAlgo
  PROVE  WInv'
<1> DEFINE me == currentThread
<1>1. /\ totalTicks \in Nat /\ Burst \in Nat /\ Cardinality(Started) \in Nat
      /\ readyList \in Seq(Pid) /\ wait_start_time \in [Pid -> Int]
      /\ OnLists(readyList, sleepQueue, status) /\ me \in Pid /\ status[me] = "RUNNING"
      /\ Len(readyList) <= Cardinality(Started) - 1 /\ Len(readyList) \in Nat
      /\ Preemptive => Burst <= Slice
      /\ schedulingAlgo = "ROUND_ROBIN" =>
           /\ Preemptive /\ ~ByPriority
           /\ InTurn(readyList, wait_start_time, totalTicks, Cardinality(Started), Burst)
  BY InTurns
<1> HIDE DEF me
<1>2. CASE YieldToReady /\ (readyList # <<>> \/ schedulingAlgo = "UNIX_SCHED")
  <2>1. PICK ts : ts = <<me>>
    OBVIOUS
  <2>2. /\ ts \in Seq(Pid) /\ ToSet(ts) = {me} /\ Append(readyList, me) = readyList \o ts
        /\ Len(readyList \o ts) = Len(readyList) + 1
    BY <1>1, <2>1, Single
  <2>3. PICK list, st, waits, i :
          /\ list = readyList \o ts /\ st = Readied(ts) /\ waits = WaitsFrom(ts)
          /\ i = Chosen(IF schedulingAlgo = "UNIX_SCHED" THEN Append(readyList, me) ELSE readyList,
                        schedPriority')
    OBVIOUS
  <2>4. Run(list, i, st, waits)
    BY <1>2, <2>1, <2>2, <2>3 DEF YieldToReady, Run, me
  <2>5. waits \in [Pid -> Int] /\ NewlyReady(readyList, ts, list, wait_start_time, totalTicks, waits)
    <3>1. ToSet(readyList) \cap ToSet(ts) = {}
      BY <1>1, <2>2 DEF OnLists
    <3>2. waits \in [Pid -> Int]
      BY <1>1, <2>3 DEF WaitsFrom
    <3>3. \A t \in Pid : waits[t] = IF t \in ToSet(ts) THEN totalTicks ELSE wait_start_time[t]
      BY <2>3 DEF WaitsFrom
    <3> QED BY <1>1, <2>2, <2>3, <3>1, <3>2, <3>3 DEF NewlyReady
  <2>6. Started' = Started
    <3>1. \A t \in Pid : st[t] = "NONE" <=> status[t] = "NONE"
      BY <1>1, <2>2, <2>3 DEF Readied
    <3>2. OnLists(list, sleepQueue, st)
      <4>1. \A j \in DOMAIN sleepQueue : sleepQueue[j].thread # me
        BY <1>1 DEF OnLists
      <4>2. Distinct(ts)
        BY <1>1, <2>1, Single
      <4> QED BY <1>1, <2>2, <2>3, <4>1, <4>2, ReadyDoes
    <3>3. i \in DOMAIN list
      <4>1. list \in Seq(Pid) /\ list # <<>> /\ \A j \in DOMAIN readyList : j \in DOMAIN list
        BY <1>1, <2>1, <2>2, <2>3
      <4>2. schedPriority' \in [Pid -> Nat]
        BY DEF IInv, CpuTypes
      <4>3. \A q \in Seq(Pid) : q # <<>> => Chosen(q, schedPriority') \in DOMAIN q
        BY <4>2, ChosenIn
      <4> QED BY <1>1, <1>2, <2>2, <2>3, <4>1, <4>3
    <3> QED BY <2>4, <3>1, <3>2, <3>3, RunMakesNobody
  <2>7. ASSUME schedulingAlgo' = "ROUND_ROBIN"
        PROVE  /\ i = 1 /\ 1 \in DOMAIN list /\ list \in Seq(Pid)
               /\ \A j \in DOMAIN list : totalTicks - waits[list[j]] <= Turns(Cardinality(Started') - j)
    <3>1. i = 1
      BY <1>1, <2>3, <2>7 DEF Chosen
    <3>2. list \in Seq(Pid) /\ 1 \in DOMAIN list /\ Len(list) <= Cardinality(Started)
      BY <1>1, <2>2, <2>3
    <3>3. \A j \in DOMAIN list : totalTicks - waits[list[j]] <= Turns(Cardinality(Started) - j)
      BY <1>1, <2>5, <2>7, <3>2, TurnEnds
    <3> QED BY <2>6, <3>1, <3>2, <3>3
  <2> QED BY <1>1, <2>4, <2>5, <2>6, <2>7, RunTurns DEF WInv
<1>3. CASE LoneYield /\ readyList = <<>>
  <2>1. /\ mode' = "kernel" /\ cpu_burst_start_time' = totalTicks /\ status' = status
        /\ readyList' = readyList
    BY <1>3 DEF LoneYield
  <2>2. Bursts' /\ Started' = Started
    BY <2>1, BurstBegins, StartedSame
  <2>3. Waiting'
    BY <1>3, <2>1 DEF Waiting, InTurn
  <2> QED BY <2>2, <2>3 DEF WInv
<1>4. CASE LoneYieldAborts
  <2>1. mode' = "yieldAssert" /\ status' = status
    BY <1>4 DEF LoneYieldAborts
  <2>2. Started' = Started
    BY <2>1, StartedSame
  <2> QED BY <2>1, <2>2 DEF WInv, Bursts, Waiting, Busy
<1> QED BY <1>2, <1>3, <1>4 DEF YieldCPU

(* A thread leaves the processor, and the next one runs or nobody.          *)
LEMMA SwitchTurns ==
  ASSUME IInv, IInv', WInv, mode = "run", NEW list, NEW ts, NEW st, NEW waits \in [Pid -> Int],
         SwitchOrIdle(list, st, waits),
         NewlyReady(readyList, ts, list, wait_start_time, totalTicks, waits),
         OnLists(list, sleepQueue, st), \A t \in Pid : st[t] = "NONE" <=> status[t] = "NONE",
         totalTicks' = totalTicks, schedulingAlgo' = schedulingAlgo
  PROVE  WInv'
<1>1. /\ totalTicks \in Nat /\ Burst \in Nat /\ Cardinality(Started) \in Nat
      /\ Preemptive => Burst <= Slice
      /\ schedulingAlgo = "ROUND_ROBIN" =>
           /\ Preemptive /\ ~ByPriority
           /\ InTurn(readyList, wait_start_time, totalTicks, Cardinality(Started), Burst)
  BY InTurns
<1>2. list \in Seq(Pid) /\ Len(list) \in Nat /\ Len(list) <= Cardinality(Started)
  <2>1. PICK s : s = {t \in Pid : st[t] # "NONE"} /\ s = Started /\ IsFiniteSet(s)
    BY DEF Started, WInv
  <2> QED BY <2>1, ListedFew DEF OnLists
<1>3. CASE list # <<>>
  <2>1. PICK i : i = Chosen(list, schedPriority')
    OBVIOUS
  <2>2. Run(list, i, st, waits)
    BY <1>3, <2>1 DEF SwitchOrIdle, Run
  <2>3. i \in DOMAIN list
    <3>1. schedPriority' \in [Pid -> Nat]
      BY DEF IInv, CpuTypes
    <3> QED BY <1>2, <1>3, <2>1, <3>1, ChosenIn
  <2>4. Started' = Started
    BY <2>2, <2>3, RunMakesNobody
  <2>5. ASSUME schedulingAlgo' = "ROUND_ROBIN"
        PROVE  /\ i = 1 /\ 1 \in DOMAIN list /\ list \in Seq(Pid)
               /\ \A j \in DOMAIN list : totalTicks - waits[list[j]] <= Turns(Cardinality(Started') - j)
    <3>1. i = 1
      BY <1>1, <2>1, <2>5 DEF Chosen
    <3>2. \A j \in DOMAIN list : totalTicks - waits[list[j]] <= Turns(Cardinality(Started) - j)
      BY <1>1, <1>2, <2>5, TurnEnds
    <3> QED BY <1>2, <2>3, <2>4, <3>1, <3>2
  <2> QED BY <1>1, <2>2, <2>4, <2>5, RunTurns DEF WInv
<1>4. CASE list = <<>>
  <2>1. mode' = "idle" /\ status' = st /\ readyList' = readyList
    BY <1>4 DEF SwitchOrIdle
  <2>2. readyList = <<>>
    BY <1>4, NobodyJoined DEF NewlyReady
  <2>3. Started' = Started
    BY <2>1, StartedSame
  <2> QED BY <2>1, <2>2, <2>3 DEF WInv, Bursts, Waiting, Busy
<1> QED BY <1>3, <1>4

(* Nobody becomes ready.                                                    *)
LEMMA NobodyReady ==
  ASSUME NEW list \in Seq(Pid), NEW since \in [Pid -> Int], NEW now \in Int
  PROVE  NewlyReady(list, <<>>, list, since, now, since)
<1>1. ToSet(<<>>) = {} /\ <<>> \in Seq(Pid) /\ list \o <<>> = list
  BY DEF ToSet
<1> QED BY <1>1 DEF NewlyReady

(* The steps in which a thread leaves the processor and readies nobody.     *)
LEMMA LeaveTurns ==
  ASSUME IInv, IInv', WInv, Block \/ FinishThread \/ \E ticks \in SleepTimes : Sleep(ticks)
  PROVE  WInv'
<1>1. PICK s \in {"BLOCKED", "FINISHED"} :
        SwitchOrIdle(readyList, [status EXCEPT ![currentThread] = s], wait_start_time)
  BY DEF Block, Sleep, PutThreadToSleep, FinishThread, InMain
<1>2. mode = "run" /\ totalTicks' = totalTicks /\ schedulingAlgo' = schedulingAlgo
  BY DEF Block, Sleep, FinishThread, InMain, InUser, clock
<1>3. PICK list, st, waits :
        /\ list = readyList /\ st = [status EXCEPT ![currentThread] = s]
        /\ waits = wait_start_time
  OBVIOUS
<1>4. SwitchOrIdle(list, st, waits)
  BY <1>1, <1>3 DEF SwitchOrIdle, Run
<1>5. /\ status[currentThread] = "RUNNING" /\ status \in [Pid -> Statuses]
      /\ readyList \in Seq(Pid) /\ wait_start_time \in [Pid -> Int] /\ totalTicks \in Int
      /\ OnLists(readyList, sleepQueue, status) /\ currentThread \in Pid
  BY <1>2, Running
<1>6. OnLists(list, sleepQueue, st)
  BY <1>3, <1>5, StatusLists DEF Statuses
<1>7. \A t \in Pid : st[t] = "NONE" <=> status[t] = "NONE"
  BY <1>3, <1>5
<1>8. PICK nobody : nobody = <<>> /\ NewlyReady(readyList, nobody, list, wait_start_time, totalTicks, waits)
  BY <1>3, <1>5, NobodyReady
<1> QED BY <1>2, <1>3, <1>4, <1>5, <1>6, <1>7, <1>8, SwitchTurns

(* NachOSThread::Exit.                                                      *)
LEMMA ExitTurns ==
  ASSUME IInv, IInv', WInv, mode = "run", NEW parent \in Seq(Pid), Distinct(parent),
         \A t \in ToSet(parent) : status[t] = "BLOCKED",
         \A j \in DOMAIN sleepQueue : sleepQueue[j].thread \notin ToSet(parent),
         ExitReadying(parent)
  PROVE  WInv'
<1> DEFINE me == currentThread
<1>1. totalTicks' = totalTicks /\ schedulingAlgo' = schedulingAlgo
  BY DEF ExitReadying, clock
<1>2. /\ me \in Pid /\ status[me] = "RUNNING" /\ status \in [Pid -> Statuses] /\ totalTicks \in Int
      /\ OnLists(readyList, sleepQueue, status) /\ readyList \in Seq(Pid)
      /\ wait_start_time \in [Pid -> Int]
  BY Running
<1>3. PICK list, st, waits :
        /\ list = readyList \o parent /\ st = [Readied(parent) EXCEPT ![me] = "EXITED"]
        /\ waits = WaitsFrom(parent)
  OBVIOUS
<1>4. OnLists(list, sleepQueue, Readied(parent)) /\ waits \in [Pid -> Int]
  BY <1>2, <1>3, ReadyDoes
<1>5. me \notin ToSet(parent) /\ Readied(parent)[me] = "RUNNING"
  BY <1>2 DEF Readied
<1>6. OnLists(list, sleepQueue, st)
  BY <1>2, <1>3, <1>4, <1>5, StatusLists DEF Statuses
<1>7. \A t \in Pid : st[t] = "NONE" <=> status[t] = "NONE"
  <2>1. \A t \in Pid : st[t] = IF t = me THEN "EXITED" ELSE Readied(parent)[t]
    BY <1>2, <1>3 DEF Readied
  <2> QED BY <1>2, <2>1 DEF Readied
<1>8. NewlyReady(readyList, parent, list, wait_start_time, totalTicks, waits)
  <2>1. ToSet(readyList) \cap ToSet(parent) = {}
    BY <1>2 DEF OnLists
  <2>2. \A t \in Pid : waits[t] = IF t \in ToSet(parent) THEN totalTicks ELSE wait_start_time[t]
    BY <1>3 DEF WaitsFrom
  <2> QED BY <1>2, <1>3, <2>1, <2>2 DEF NewlyReady
<1>9. CASE SwitchOrIdle(list, st, waits)
  BY <1>1, <1>4, <1>6, <1>7, <1>8, <1>9, SwitchTurns
<1>10. CASE mode' = "halted" /\ status' = st
  <2>1. Started' = Started
    BY <1>7, <1>10, StartedSame
  <2> QED BY <1>10, <2>1 DEF WInv, Bursts, Waiting, Busy
<1>11. SwitchOrIdle(list, st, waits) \/ (mode' = "halted" /\ status' = st)
  BY <1>3 DEF ExitReadying, SwitchOrIdle, Run
<1> QED BY <1>9, <1>10, <1>11

(* system_Exit, and the exit of main after a batch.                         *)
LEMMA ExitsTurns ==
  ASSUME IInv, IInv', WInv, Exit \/ BatchExit PROVE WInv'
<1>1. mode = "run"
  BY DEF Exit, BatchExit, InUser, InMain
<1>2. PICK parent \in {<<>>} \cup {<<t>> : t \in Blocked} : ExitReadying(parent)
  <2>1. CASE Exit
    BY <2>1 DEF Exit
  <2>2. CASE BatchExit
    <3>1. PICK parent : parent = <<>>
      OBVIOUS
    <3>2. ExitReadying(parent)
      BY <2>2, <3>1 DEF BatchExit, ExitReadying
    <3> QED BY <3>1, <3>2
  <2> QED BY <2>1, <2>2
<1>3. /\ parent \in Seq(Pid) /\ Distinct(parent) /\ \A t \in ToSet(parent) : status[t] = "BLOCKED"
      /\ \A j \in DOMAIN sleepQueue : sleepQueue[j].thread \notin ToSet(parent)
  <2>1. CASE parent = <<>>
    BY <2>1 DEF Distinct, ToSet
  <2>2. CASE parent # <<>>
    <3>1. PICK t \in Blocked : parent = <<t>>
      BY <1>2, <2>2
    <3>2. t \in Pid /\ status[t] = "BLOCKED" /\ t \notin Asleep
      BY DEF Blocked
    <3>3. parent \in Seq(Pid) /\ Distinct(parent) /\ ToSet(parent) = {t}
      BY <1>1, <3>1, <3>2, Single, Running
    <3> QED BY <3>2, <3>3 DEF Asleep
  <2> QED BY <2>1, <2>2
<1> QED BY <1>1, <1>2, <1>3, ExitTurns

(* A new console is not a timer.                                            *)
LEMMA ConsoleTimers ==
  ASSUME IInv, NewConsole
  PROVE  \A e \in ToSet(pending') : e.type = "timer" => e \in ToSet(pending)
<1>1. pending \in Seq(Interrupt) /\ Ordered(pending) /\ totalTicks \in Nat /\ ConsoleTime \in Nat
  BY CpuAssumption DEF CpuAssumption, IInv, Timers, CpuTypes
<1>2. PICK e : e = [type |-> "console", when |-> totalTicks + ConsoleTime]
  OBVIOUS
<1>3. pending' = SortedInsert(e, pending) \/ pending' = pending
  BY <1>2 DEF NewConsole
<1>4. e \in Interrupt /\ e.type = "console"
  BY <1>1, <1>2 DEF Interrupt
<1>5. ToSet(SortedInsert(e, pending)) = ToSet(pending) \cup {e}
  <2>1. \A x \in Interrupt : x.when \in Nat
    BY DEF Interrupt
  <2> QED BY <1>1, <1>4, <2>1, InsertKeeps
<1> QED BY <1>3, <1>4, <1>5

(* Another thread becomes ready, or a new one.                              *)
LEMMA ReadyTurns ==
  ASSUME IInv, IInv', WInv, mode = "run", NEW t \in Pid, Ready(t), status[t] \in {"NONE", "BLOCKED"},
         \A e \in ToSet(pending') : e.type = "timer" => e \in ToSet(pending)
  PROVE  WInv'
<1>1. /\ readyList' = Append(readyList, t) /\ status' = Readied(<<t>>)
      /\ wait_start_time' = WaitsFrom(<<t>>) /\ mode' = "kernel"
      /\ schedulingAlgo' = schedulingAlgo /\ totalTicks' = totalTicks
      /\ cpu_burst_start_time' = cpu_burst_start_time
  BY DEF Ready, clock
<1>2. /\ readyList \in Seq(Pid) /\ wait_start_time \in [Pid -> Int] /\ totalTicks \in Int
      /\ OnLists(readyList, sleepQueue, status) /\ status \in [Pid -> Statuses]
  BY Running
<1>3. PICK ts : ts = <<t>>
  OBVIOUS
<1>4. ts \in Seq(Pid) /\ ToSet(ts) = {t} /\ Append(readyList, t) = readyList \o ts
  BY <1>2, <1>3, Single
<1>5. NewlyReady(readyList, ts, readyList', wait_start_time, totalTicks, wait_start_time')
  <2>1. ToSet(readyList) \cap ToSet(ts) = {}
    BY <1>2, <1>4 DEF OnLists
  <2>2. \A u \in Pid : wait_start_time'[u] = IF u \in ToSet(ts) THEN totalTicks ELSE wait_start_time[u]
    BY <1>1, <1>3 DEF WaitsFrom
  <2> QED BY <1>1, <1>2, <1>4, <2>1, <2>2 DEF NewlyReady
<1>6. Started \subseteq Started' /\ IsFiniteSet(Started')
  <2>1. Started' = Started \cup {t}
    <3>1. \A u \in Pid : status'[u] = IF u = t THEN "READY" ELSE status[u]
      BY <1>1, <1>3, <1>4 DEF Readied
    <3> QED BY <3>1 DEF Started
  <2>2. IsFiniteSet(Started \cup {t})
    BY FS_AddElement DEF WInv
  <2> QED BY <2>1, <2>2
<1>7. Preemptive' = Preemptive
  BY <1>1 DEF Preemptive
<1>8. Preemptive => Bursts'
  BY <1>1, BurstGoesOn DEF WInv
<1>9. schedulingAlgo = "ROUND_ROBIN" => Waiting'
  BY <1>1, <1>5, <1>6, OthersReady
<1> QED BY <1>1, <1>6, <1>7, <1>8, <1>9 DEF WInv

(* V, Signal and the forks.                                                 *)
LEMMA WakesTurns ==
  ASSUME IInv, IInv', WInv, NEW t \in Pid,
         Wake(t) \/ Fork(t) \/ \E nice \in Nice : BatchFork(t, nice)
  PROVE  WInv'
<1>1. mode = "run" /\ Ready(t) /\ status[t] \in {"NONE", "BLOCKED"}
  BY DEF Wake, Fork, BatchFork, NewThread, InUser, InMain, Blocked
<1>2. NewConsole \/ pending' = pending
  BY DEF Wake, Fork, BatchFork
<1>3. \A e \in ToSet(pending') : e.type = "timer" => e \in ToSet(pending)
  BY <1>2, ConsoleTimers
<1> QED BY <1>1, <1>3, ReadyTurns

(* OneTick, second half.                                                    *)
LEMMA DoneTurns ==
  ASSUME IInv, IInv', WInv, InterruptsDone PROVE WInv'
<1>1. /\ mode = "due" /\ NoneDue /\ totalTicks' = totalTicks /\ schedulingAlgo' = schedulingAlgo
  BY DEF InterruptsDone
<1>2. CASE yieldOnReturn /\ YieldCPU
  BY <1>1, <1>2, YieldTurns
<1>3. CASE /\ ~yieldOnReturn /\ mode' = "run"
           /\ UNCHANGED <<yieldOnReturn, queues, starts, priorities, emptiness, cpu_time,
                          total_wait_time>>
  <2>1. /\ status' = status /\ readyList' = readyList /\ wait_start_time' = wait_start_time
        /\ cpu_burst_start_time' = cpu_burst_start_time
    BY <1>3 DEF queues, starts
  <2>2. Started' = Started
    BY <2>1, StartedSame
  <2>3. ToSet(pending') = ToSet(pending)
    <3>1. Timers(pending, sleepQueue, totalTicks) /\ totalTicks \in Nat
      BY DEF IInv, CpuTypes
    <3>2. pending' = SortedInsert(Head(pending), Tail(pending))
      BY <1>1 DEF NoneDue
    <3> QED BY <3>1, <3>2, TimersPutBack
  <2>4. Preemptive => Bursts'
    BY <1>1, <1>3, <2>1, <2>3, BurstResumes DEF WInv
  <2>5. Preemptive' = Preemptive /\ Burst' = Burst
    BY <1>1, <2>1 DEF Preemptive, Burst
  <2>6. schedulingAlgo = "ROUND_ROBIN" => Waiting'
    BY <1>1, <1>3, <2>1, <2>2, <2>5 DEF WInv, Waiting, Busy
  <2> QED BY <1>1, <2>2, <2>4, <2>5, <2>6 DEF WInv
<1> QED BY <1>2, <1>3 DEF InterruptsDone

(* FindNextToRun, again.                                                    *)
LEMMA IdleDoneTurns ==
  ASSUME IInv, IInv', WInv, IdleDone PROVE WInv'
<1>1. /\ mode = "idleDue" /\ schedulingAlgo' = schedulingAlgo
      /\ totalTicks' = totalTicks /\ schedPriority' = schedPriority
  BY DEF IdleDone, priorities
<1>2. /\ OnLists(readyList, sleepQueue, status) /\ readyList \in Seq(Pid) /\ totalTicks \in Nat
      /\ schedPriority \in [Pid -> Nat] /\ wait_start_time \in [Pid -> Int]
  BY DEF IInv, CpuTypes, OnLists
<1>3. Len(readyList) \in Nat /\ Cardinality(Started) \in Nat /\ Len(readyList) <= Cardinality(Started)
  <2>1. PICK s : s = {t \in Pid : status[t] # "NONE"} /\ s = Started /\ IsFiniteSet(s)
    BY DEF Started, WInv
  <2>2. Len(readyList) \in Nat /\ Cardinality(s) \in Nat /\ Len(readyList) <= Cardinality(s)
    BY <1>2, <2>1, ListedFew
  <2> QED BY <2>1, <2>2
<1>4. CASE readyList = <<>> /\ mode' = "idle" /\ UNCHANGED <<status, readyList>>
  <2>1. Started' = Started
    BY <1>4, StartedSame
  <2> QED BY <1>4, <2>1 DEF WInv, Bursts, Waiting, Busy
<1>5. CASE /\ readyList # <<>>
           /\ Run(readyList, Chosen(readyList, schedPriority), status, wait_start_time)
  <2>1. PICK list, i, st, waits :
          /\ list = readyList /\ i = Chosen(readyList, schedPriority) /\ st = status
          /\ waits = wait_start_time
    OBVIOUS
  <2>2. Run(list, i, st, waits)
    BY <1>5, <2>1 DEF Run
  <2>3. i \in DOMAIN list
    BY <1>2, <1>5, <2>1, ChosenIn
  <2>4. Started' = Started
    BY <1>2, <2>1, <2>2, <2>3, RunMakesNobody
  <2>5. ASSUME schedulingAlgo' = "ROUND_ROBIN"
        PROVE  /\ i = 1 /\ 1 \in DOMAIN list /\ list \in Seq(Pid)
               /\ \A j \in DOMAIN list : totalTicks - waits[list[j]] <= Turns(Cardinality(Started') - j)
    <3>1. i = 1
      BY <1>1, <2>1, <2>5 DEF Chosen, ByPriority
    <3>2. ASSUME NEW j \in DOMAIN list
          PROVE  totalTicks - waits[list[j]] <= Turns(Cardinality(Started) - j)
      <4>1. waits[list[j]] = totalTicks
        BY <1>1, <2>1, <2>5 DEF WInv, Waiting
      <4>2. Cardinality(Started) - j \in Int /\ 0 <= Cardinality(Started) - j
        BY <1>2, <1>3, <2>1
      <4>3. totalTicks - totalTicks = 0
        BY <1>2
      <4> QED BY <4>1, <4>2, <4>3, TurnsAre
    <3> QED BY <1>2, <2>1, <2>3, <2>4, <3>1, <3>2
  <2>6. waits \in [Pid -> Int]
    BY <1>2, <2>1
  <2> QED BY <1>1, <1>2, <2>2, <2>4, <2>5, <2>6, RunTurns DEF WInv
<1> QED BY <1>4, <1>5 DEF IdleDone

(* The clock of an idle machine goes on, and it halts.                      *)
LEMMA IdleTurns ==
  ASSUME IInv, WInv, Idle \/ IdleHalts PROVE WInv'
<1>1. /\ mode' \in {"idleDue", "halted"} /\ status' = status /\ readyList' = readyList
      /\ mode = "idle" \/ (mode = "idleDue" /\ OnlyTimer)
  BY DEF Idle, IdleHalts, queues
<1>2. readyList = <<>>
  BY <1>1 DEF IInv, Modal
<1>3. Started' = Started
  BY <1>1, StartedSame
<1> QED BY <1>1, <1>2, <1>3 DEF WInv, Bursts, Waiting, Busy

(* Nothing happens.                                                         *)
LEMMA StutterTurns ==
  ASSUME WInv, UNCHANGED cpu PROVE WInv'
<1>1. /\ schedulingAlgo' = schedulingAlgo /\ totalTicks' = totalTicks /\ pending' = pending
      /\ yieldOnReturn' = yieldOnReturn /\ mode' = mode /\ status' = status
      /\ readyList' = readyList /\ wait_start_time' = wait_start_time
      /\ cpu_burst_start_time' = cpu_burst_start_time
  BY DEF cpu, clock, queues, starts
<1>2. Started' = Started /\ Burst' = Burst /\ Preemptive' = Preemptive /\ (Busy <=> Busy')
  BY <1>1, StartedSame DEF Burst, Preemptive, Busy
<1>3. Bursts => Bursts'
  BY <1>1, <1>2 DEF Bursts
<1>4. Waiting => Waiting'
  BY <1>1, <1>2 DEF Waiting
<1> QED BY <1>1, <1>2, <1>3, <1>4 DEF WInv

-----------------------------------------------------------------------------
(* The theorem.                                                             *)

(* Every step keeps the bursts and the waits.                               *)
LEMMA NextTurns ==
  ASSUME UserTick <= SystemTick, IInv, IInv', WInv, [CpuNext]_cpu PROVE WInv'
<1>1. CASE UserInstruction \/ EnableInterrupts
  BY <1>1, TickTurns
<1>2. CASE InterruptDue \/ IdleInterrupt
  BY <1>2, FireTurns DEF InterruptDue, IdleInterrupt
<1>3. CASE InterruptsDone
  BY <1>3, DoneTurns
<1>4. CASE Yield
  <2>1. /\ mode = "run" /\ YieldCPU /\ schedulingAlgo' = schedulingAlgo
        /\ totalTicks' = totalTicks
    BY <1>4 DEF Yield, InUser, clock
  <2> QED BY <2>1, YieldTurns
<1>5. CASE Block \/ FinishThread \/ \E ticks \in SleepTimes : Sleep(ticks)
  BY <1>5, LeaveTurns
<1>6. CASE Exit \/ BatchExit
  BY <1>6, ExitsTurns
<1>7. ASSUME NEW t \in Pid, Wake(t) \/ Fork(t) \/ \E nice \in Nice : BatchFork(t, nice)
      PROVE  WInv'
  BY <1>7, WakesTurns
<1>8. CASE Idle \/ IdleHalts
  BY <1>8, IdleTurns
<1>9. CASE IdleDone
  BY <1>9, IdleDoneTurns
<1>10. CASE Ended \/ UNCHANGED cpu
  BY <1>10, StutterTurns DEF Ended
<1> QED BY <1>1, <1>2, <1>3, <1>4, <1>5, <1>6, <1>7, <1>8, <1>9, <1>10 DEF CpuNext

(* Initialize.                                                              *)
LEMMA InitTurns ==
  ASSUME CpuInit PROVE WInv
<1>1. /\ totalTicks = 0 /\ mode = "kernel" /\ readyList = <<>> /\ cpu_burst_start_time = 0
      /\ pending = <<[type |-> "timer", when |-> TimerTicks]>>
      /\ status = [t \in Pid |-> IF t = 0 THEN "RUNNING" ELSE "NONE"]
  BY DEF CpuInit
<1>2. IsFiniteSet(Started)
  <2>1. Started \subseteq {0}
    BY <1>1 DEF Started
  <2>2. IsFiniteSet({0})
    BY FS_Singleton
  <2> QED BY <2>1, <2>2, FS_Subset
<1>3. Bursts
  <2>1. PICK e : e = [type |-> "timer", when |-> TimerTicks]
    OBVIOUS
  <2>2. ToSet(pending) = {e} /\ e.when = TimerTicks
    BY <1>1, <2>1 DEF ToSet
  <2>3. Burst = 0
    BY <1>1 DEF Burst
  <2>4. TimerTicks - TimerTicks < 0 + SCHED_QUANTUM /\ 0 <= SCHED_QUANTUM + TimerTicks - 2
    BY Lengths
  <2> QED BY <1>1, <2>2, <2>3, <2>4 DEF Bursts
<1>4. Waiting
  BY <1>1 DEF Waiting, InTurn
<1> QED BY <1>2, <1>3, <1>4 DEF WInv

(* Under a preemptive policy nobody runs for longer than the quantum and    *)
(* what the timer lets it overshoot by, and under ROUND_ROBIN nobody waits  *)
(* for more than a turn of each other thread, if an instruction takes no    *)
(* longer than the kernel does to let the interrupts in (stats.h).          *)
THEOREM WaitsAreBounded ==
  UserTick <= SystemTick => (CpuSpec => []WaitBounded)
<1> SUFFICES ASSUME UserTick <= SystemTick PROVE CpuSpec => []WaitBounded
  OBVIOUS
<1>1. CpuInit => WInv
  BY InitTurns
<1>2. IInv /\ IInv' /\ WInv /\ [CpuNext]_cpu => WInv'
  BY NextTurns
<1>3. IInv /\ WInv => WaitBounded
  <2> SUFFICES ASSUME IInv, WInv, mode = "run" PROVE WaitBounded
    BY DEF WaitBounded
  <2>1. Preemptive => Burst < SCHED_QUANTUM + TimerTicks
    <3>1. Preemptive => Burst <= SCHED_QUANTUM + TimerTicks - 2
      BY DEF WInv, Bursts
    <3>2. Burst \in Nat
      BY InTurns
    <3> QED BY <3>1, <3>2, Lengths
  <2>2. ASSUME schedulingAlgo = "ROUND_ROBIN", NEW t \in ToSet(readyList)
        PROVE  totalTicks - wait_start_time[t]
                 <= Cardinality({u \in Pid \ {t} : status[u] # "NONE"})
                      * (SCHED_QUANTUM + TimerTicks + SystemTick - 2)
    <3>1. /\ totalTicks \in Nat /\ Burst \in Nat /\ Cardinality(Started) \in Nat
          /\ readyList \in Seq(Pid) /\ wait_start_time \in [Pid -> Int]
          /\ OnLists(readyList, sleepQueue, status) /\ Burst <= Slice
          /\ InTurn(readyList, wait_start_time, totalTicks, Cardinality(Started), Burst)
      BY <2>2, InTurns
    <3>2. PICK i \in DOMAIN readyList : t = readyList[i]
      BY <2>2 DEF ToSet
    <3>3. i \in Nat \ {0} /\ t \in Pid /\ status[t] = "READY"
      BY <3>1, <3>2 DEF OnLists, ToSet
    <3>4. PICK n \in Nat : n = Cardinality(Started)
      BY <3>1
    <3>5. Cardinality({u \in Pid \ {t} : status[u] # "NONE"}) = n - 1
      <4>1. {u \in Pid \ {t} : status[u] # "NONE"} = Started \ {t} /\ t \in Started
        BY <3>3 DEF Started
      <4> QED BY <3>4, <4>1, FS_RemoveElement DEF WInv
    <3>6. PICK a, b : a = Turns(n - 1 - i) /\ b = Turns(n - 1)
      OBVIOUS
    <3>7. a \in Int /\ b \in Int /\ a + Slice <= b /\ Slice \in Nat
      <4>1. n - 1 - i \in Int /\ n - 1 \in Int /\ n - 2 \in Int /\ n - 1 - i <= n - 2
            /\ (n - 1) - 1 = n - 2
        BY <3>3
      <4>2. PICK c : c = Turns(n - 2)
        OBVIOUS
      <4>3. a \in Int /\ a <= c
        BY <3>6, <4>1, <4>2, TurnsAre
      <4>4. c \in Int /\ b \in Int /\ b = c + Slice
        BY <3>6, <4>1, <4>2, TurnsAre
      <4> QED BY <4>3, <4>4, Lengths
    <3>8. PICK x \in Int : x = wait_start_time[t]
      BY <3>1, <3>3
    <3>9. totalTicks - x <= a + Burst
      BY <3>1, <3>2, <3>4, <3>6, <3>8 DEF InTurn
    <3>10. totalTicks - x <= b
      BY <3>1, <3>7, <3>9
    <3>11. b = (n - 1) * (SCHED_QUANTUM + TimerTicks + SystemTick - 2)
      BY <3>6 DEF Turns, Slice
    <3> QED BY <3>5, <3>8, <3>10, <3>11
  <2> QED BY <2>1, <2>2 DEF WaitBounded
<1> QED BY <1>1, <1>2, <1>3, CpuInvariant, PTL DEF CpuSpec
=============================================================================
