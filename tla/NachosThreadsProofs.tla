------------------------ MODULE NachosThreadsProofs ------------------------
(***************************************************************************)
(* Proofs about NachosThreads, for every size of the thread table, every   *)
(* scheduling policy and every set of exit codes.  The invariant IInv is   *)
(* inductive; every safety property of NachosThreads follows from it, and  *)
(* so does the refinement of NachosDispatcher.                             *)
(*                                                                         *)
(* The argument: every operation ends in at most one dispatch.  The lemmas *)
(* of the first part say what a dispatch does to the ready list and to the *)
(* status of threads, so that the second part never looks into a sequence. *)
(***************************************************************************)
EXTENDS NachosThreads, NachosLists

(* A list of threads that holds each READY thread of st exactly once.       *)
Holds(rl, st) ==
  /\ rl \in Seq(Pid)
  /\ \A t \in Pid : st[t] = "READY" <=> t \in ToSet(rl)
  /\ \A i, j \in DOMAIN rl : rl[i] = rl[j] => i = j

(* What TypeOK, Placement and OneCarcass need to be inductive: threads      *)
(* beyond thread_index do not exist, finished threads stay blocked and the  *)
(* current thread has not been freed.                                       *)
Alive ==
  /\ \A t \in Pid : status[t] = "NONE" <=> t >= thread_index
  /\ \A t \in Pid : where[t] = "dead" => status[t] = "BLOCKED"
  /\ \A t \in Pid : status[t] \in {"NONE", "JUST_CREATED"} => where[t] = "user"
  /\ currentThread \notin destroyed

(* What the join properties need: a wait names a child of the waiter, the   *)
(* parent's records agree with what the child did, and a parent that was    *)
(* woken finds them.                                                        *)
Joining ==
  /\ exitedChild \subseteq exitThreadArray
  /\ \A c \in exitThreadArray : where[c] = "dead"
  /\ \A c \in exitThreadArray :
       c \in exitedChild \/ ppid[c] \in exitThreadArray \cup {NoThread}
  /\ \A c \in exitedChild : childexitcode[c] = exitcode[c]
  /\ \A t \in Pid : where[t] = "join" =>
       /\ whichchild[t] \in Created /\ ppid[whichchild[t]] = t
       /\ t \notin returned
       /\ waitchild_id[t] = NoThread => whichchild[t] \in exitedChild

(* Without a missing executable, Exit is the only way to finish.            *)
OnlyExitFinishes ==
  ~MissingExecutable => \A t \in Pid : where[t] = "dead" => t \in exitThreadArray

IInv ==
  /\ TypeOK /\ Placement /\ OneCarcass /\ Alive
  /\ Joining /\ JoinNotLost /\ JoinResult /\ OnlyExitFinishes
  /\ LastExitHalts

(* What a step may do to a thread: no carcass comes back, a finished thread *)
(* stays finished, memory is freed only when a thread runs, only a running  *)
(* thread blocks or finishes, a new thread is ready before it runs, and a   *)
(* joining thread is woken only by the child it waits for.                  *)
Moves ==
  /\ destroyed \subseteq destroyed'
  /\ destroyed' # destroyed => status'[currentThread'] = "RUNNING"
  /\ \A t \in Pid : where[t] = "dead" => where'[t] = "dead"
  /\ \A t \in Pid : where'[t] = "dead" => where[t] = "dead" \/ status[t] = "RUNNING"
  /\ \A t \in Pid : status'[t] = "BLOCKED" => status[t] \in {"RUNNING", "BLOCKED"}
  /\ \A t \in Pid : status'[t] \in {"NONE", "JUST_CREATED"}
                       => status[t] \in {"NONE", "JUST_CREATED"}
  /\ \A t \in Pid : status[t] \in {"NONE", "JUST_CREATED"} => status'[t] # "RUNNING"
  /\ \A t \in Pid : waitchild_id[t] # NoThread /\ status'[t] # "BLOCKED" =>
       waitchild_id[t] \in exitThreadArray' \ exitThreadArray

-----------------------------------------------------------------------------
Statuses == {"NONE", "JUST_CREATED", "RUNNING", "READY", "BLOCKED"}

(* The two ways a dispatch ends: nobody is ready and the processor stays    *)
(* with the current thread, or a READY thread n gets it.                    *)
Stays(st, dead) ==
  /\ \A t \in Pid : st[t] # "READY"
  /\ readyList' = <<>> /\ status' = st
  /\ threadToBeDestroyed' = dead
  /\ currentThread' = currentThread /\ destroyed' = destroyed
Dispatches(n, st, dead) ==
  /\ status' = [st EXCEPT ![n] = "RUNNING"]
  /\ currentThread' = n
  /\ threadToBeDestroyed' = NoThread
  /\ destroyed' = destroyed \cup ({dead} \ {NoThread})

(* There are finitely many thread ids, and NULL is none of them.            *)
LEMMA PidFinite == ASSUME ThreadsAssumption PROVE IsFiniteSet(Pid) /\ NoThread \notin Pid
BY FS_Interval DEF ThreadsAssumption, Pid, NoThread

(* FindNextToRun removes an element the list has.                           *)
LEMMA FindNextToRunInDomain ==
  ASSUME NEW rl, NEW i \in FindNextToRun(rl) PROVE i \in DOMAIN rl
BY DEF FindNextToRun

(* A list is empty when it has no elements.                                 *)
LEMMA EmptyHolds ==
  ASSUME NEW rl \in Seq(Pid) PROVE rl = <<>> <=> ToSet(rl) = {}
<1>1. rl = <<>> => ToSet(rl) = {}
  BY DEF ToSet
<1>2. ASSUME rl # <<>> PROVE ToSet(rl) # {}
  <2>1. 1 \in DOMAIN rl
    BY <1>2
  <2> QED BY <2>1 DEF ToSet
<1> QED BY <1>1, <1>2

(* Scheduler::Run on the thread at position i keeps the list right.         *)
LEMMA RunHolds ==
  ASSUME NEW rl, NEW st \in [Pid -> Statuses], NEW dead, Holds(rl, st),
         NEW i \in FindNextToRun(rl), Run(rl[i], RemoveAt(rl, i), st, dead)
  PROVE  /\ Holds(readyList', status')
         /\ rl[i] \in Pid /\ st[rl[i]] = "READY" /\ Dispatches(rl[i], st, dead)
<1>1. i \in DOMAIN rl /\ rl \in Seq(Pid) /\ Distinct(rl)
  BY FindNextToRunInDomain DEF Holds, Distinct
<1>2. /\ readyList' \in Seq(Pid) /\ Distinct(readyList')
      /\ ToSet(readyList') = ToSet(rl) \ {rl[i]}
      /\ rl[i] \in ToSet(rl) /\ rl[i] \in Pid
  BY <1>1, RemoveAtDistinct DEF Run
<1>3. st[rl[i]] = "READY" /\ Dispatches(rl[i], st, dead)
  BY <1>2 DEF Holds, Dispatches, Run
<1>4. \A t \in Pid : status'[t] = "READY" <=> t \in ToSet(readyList')
  BY <1>2, <1>3 DEF Holds, Dispatches, Statuses
<1> QED BY <1>2, <1>3, <1>4 DEF Holds, Distinct

(* The end of PutThreadToSleep, Exit and FinishThread.                      *)
LEMMA SwitchOrIdleHolds ==
  ASSUME NEW rl, NEW st \in [Pid -> Statuses], NEW dead, Holds(rl, st),
         SwitchOrIdle(rl, st, dead)
  PROVE  /\ Holds(readyList', status')
         /\ \/ Stays(st, dead)
            \/ \E n \in Pid : st[n] = "READY" /\ Dispatches(n, st, dead)
<1>1. CASE rl = <<>> /\ readyList' = rl /\ status' = st /\ threadToBeDestroyed' = dead
            /\ UNCHANGED <<currentThread, destroyed>>
  <2>1. \A t \in Pid : st[t] # "READY"
    BY <1>1, EmptyHolds DEF Holds
  <2> QED BY <1>1, <2>1 DEF Stays
<1>2. ASSUME NEW i \in FindNextToRun(rl), Run(rl[i], RemoveAt(rl, i), st, dead)
      PROVE  /\ Holds(readyList', status')
             /\ \E n \in Pid : st[n] = "READY" /\ Dispatches(n, st, dead)
  BY <1>2, RunHolds
<1> QED BY <1>1, <1>2 DEF SwitchOrIdle

(* NachOSThread::YieldCPU: the yielding thread is ready again, and it or    *)
(* another ready thread runs.                                               *)
LEMMA YieldCPUHolds ==
  ASSUME NEW rl, NEW st \in [Pid -> Statuses], Holds(rl, st),
         currentThread \in Pid, st[currentThread] = "RUNNING", YieldCPU(rl, st)
  PROVE  /\ Holds(readyList', status')
         /\ \/ Stays(st, threadToBeDestroyed)
            \/ \E n \in Pid :
                 /\ n = currentThread \/ st[n] = "READY"
                 /\ Dispatches(n, [st EXCEPT ![currentThread] = "READY"],
                   threadToBeDestroyed)
<1> DEFINE me == currentThread
           ready == [st EXCEPT ![me] = "READY"]
<1>1. /\ ready \in [Pid -> Statuses] /\ Distinct(rl) /\ rl \in Seq(Pid)
      /\ me \notin ToSet(rl) /\ me \in Pid
  BY DEF Holds, Statuses, Distinct
<1>2. \A t \in Pid : ready[t] = "READY" <=> t = me \/ st[t] = "READY"
  OBVIOUS
<1>3. CASE Policy = "UNIX_SCHED" /\ SwitchOrIdle(Append(rl, me), ready, threadToBeDestroyed)
  <2>1. Holds(Append(rl, me), ready)
    BY <1>1, <1>2, AppendDistinct DEF Holds, Distinct
  <2>2. ~Stays(ready, threadToBeDestroyed)
    BY <1>1, <1>2 DEF Stays
  <2>3. /\ Holds(readyList', status')
        /\ \E n \in Pid : ready[n] = "READY" /\ Dispatches(n, ready, threadToBeDestroyed)
    BY <1>1, <1>3, <2>1, <2>2, SwitchOrIdleHolds
  <2> QED BY <1>2, <2>3
<1>4. ASSUME NEW i \in FindNextToRun(rl),
             Run(rl[i], Append(RemoveAt(rl, i), me), ready, threadToBeDestroyed)
      PROVE  /\ Holds(readyList', status')
             /\ rl[i] \in Pid /\ st[rl[i]] = "READY"
             /\ Dispatches(rl[i], ready, threadToBeDestroyed)
  <2>1. /\ RemoveAt(rl, i) \in Seq(Pid) /\ Distinct(RemoveAt(rl, i))
        /\ ToSet(RemoveAt(rl, i)) = ToSet(rl) \ {rl[i]}
        /\ rl[i] \in ToSet(rl) /\ rl[i] \in Pid
    BY <1>1, FindNextToRunInDomain, RemoveAtDistinct
  <2>2. /\ readyList' \in Seq(Pid) /\ Distinct(readyList')
        /\ ToSet(readyList') = (ToSet(rl) \ {rl[i]}) \cup {me}
    BY <1>1, <1>4, <2>1, AppendDistinct DEF Run
  <2>3. st[rl[i]] = "READY" /\ Dispatches(rl[i], ready, threadToBeDestroyed) /\ rl[i] # me
    BY <1>1, <1>4, <2>1 DEF Holds, Run, Dispatches
  <2>4. \A t \in Pid : status'[t] = "READY" <=> t \in ToSet(readyList')
    BY <1>1, <1>2, <2>1, <2>2, <2>3 DEF Holds, Dispatches
  <2> QED BY <2>1, <2>2, <2>3, <2>4 DEF Holds, Distinct
<1>5. CASE rl = <<>> /\ readyList' = rl /\ status' = st
            /\ UNCHANGED <<currentThread, threadToBeDestroyed, destroyed>>
  <2>1. \A t \in Pid : st[t] # "READY"
    BY <1>5, EmptyHolds DEF Holds
  <2> QED BY <1>5, <2>1 DEF Stays
<1> QED BY <1>3, <1>4, <1>5 DEF YieldCPU

(* ReadyToRun on the threads of w, none of which is ready yet.              *)
LEMMA AwakenHolds ==
  ASSUME NEW rl, NEW st \in [Pid -> Statuses], Holds(rl, st),
         NEW w \in Seq(Pid), Distinct(w), \A t \in ToSet(w) : st[t] = "BLOCKED"
  PROVE  /\ Holds(rl \o w, Awaken(st, w))
         /\ Awaken(st, w) \in [Pid -> Statuses]
<1>1. ToSet(w) \subseteq Pid
  BY DEF ToSet
<1>2. ToSet(rl) \cap ToSet(w) = {} /\ rl \in Seq(Pid) /\ Distinct(rl)
  BY <1>1 DEF Holds, Distinct
<1>3. rl \o w \in Seq(Pid) /\ Distinct(rl \o w) /\ ToSet(rl \o w) = ToSet(rl) \cup ToSet(w)
  BY <1>2, ConcatDistinct
<1>4. Awaken(st, w) \in [Pid -> Statuses]
  BY DEF Awaken, Statuses
<1>5. \A t \in Pid : Awaken(st, w)[t] = "READY" <=> t \in ToSet(rl) \cup ToSet(w)
  BY DEF Awaken, Holds
<1> QED BY <1>3, <1>4, <1>5 DEF Holds, Distinct

-----------------------------------------------------------------------------
(* The machine boots in a state of the invariant.                           *)
LEMMA InitIInv == ASSUME Init PROVE IInv
<1> USE ThreadsAssumption DEF Pid, NoThread, MainThread
<1>1. TypeOK
  BY DEF Init, TypeOK
<1>2. Placement
  BY DEF Init, Placement, ReadyOnce, RunsAlone, WaitsForOneThing, ToSet
<1>3. OneCarcass /\ Alive
  BY DEF Init, OneCarcass, Alive
<1>4. Joining /\ JoinNotLost /\ JoinResult /\ OnlyExitFinishes
  BY DEF Init, Joining, JoinNotLost, JoinResult, OnlyExitFinishes
<1>5. LastExitHalts
  BY DEF Init, LastExitHalts, Created
<1> QED BY <1>1, <1>2, <1>3, <1>4, <1>5 DEF IInv

-----------------------------------------------------------------------------
(* The invariant holds for the ready list before an operation.              *)
LEMMA QueueOK ==
  ASSUME IInv
  PROVE  Holds(readyList, status) /\ status \in [Pid -> Statuses] /\ currentThread \in Pid
BY DEF IInv, TypeOK, Placement, ReadyOnce, Holds, Statuses

(* What holds after an operation, whatever it dispatched: st is the status  *)
(* of the threads before the dispatch, dead the carcass it may free.  Only  *)
(* the READY and RUNNING threads of st can have a new status.               *)
Settled(st, dead) ==
  /\ status' \in [Pid -> Statuses] /\ currentThread' \in Pid /\ readyList' \in Seq(Pid)
  /\ ReadyOnce' /\ RunsAlone'
  /\ \A u \in Pid : status'[u] = "BLOCKED" <=> st[u] = "BLOCKED"
  /\ \A u \in Pid : status'[u] = "NONE" <=> st[u] = "NONE"
  /\ \A u \in Pid : status'[u] = "JUST_CREATED" <=> st[u] = "JUST_CREATED"
  /\ \/ /\ threadToBeDestroyed' = dead /\ destroyed' = destroyed
        /\ currentThread' = currentThread
     \/ /\ threadToBeDestroyed' = NoThread /\ destroyed' = destroyed \cup ({dead} \ {NoThread})
        /\ status'[currentThread'] = "RUNNING"

(* The running thread gave up the processor: nobody runs in st.             *)
LEMMA SwitchSettles ==
  ASSUME NEW rl, NEW st \in [Pid -> Statuses], NEW dead \in Pid \cup {NoThread},
         Holds(rl, st), \A u \in Pid : st[u] # "RUNNING",
         currentThread \in Pid, st[currentThread] \in {"BLOCKED", "READY"},
         SwitchOrIdle(rl, st, dead)
  PROVE  Settled(st, dead)
<1>1. Holds(readyList', status')
  BY SwitchOrIdleHolds
<1>2. ReadyOnce'
  BY <1>1 DEF Holds, ReadyOnce
<1>3. CASE Stays(st, dead)
  BY <1>1, <1>2, <1>3 DEF Stays, Settled, RunsAlone, Holds
<1>4. ASSUME NEW n \in Pid, st[n] = "READY", Dispatches(n, st, dead)
      PROVE  Settled(st, dead)
  BY <1>1, <1>2, <1>4 DEF Dispatches, Settled, RunsAlone, Holds, Statuses
<1> QED BY <1>3, <1>4, SwitchOrIdleHolds

(* The running thread has reaped the carcass of its predecessor.            *)
LEMMA RunningFacts ==
  ASSUME IInv, NEW t \in Pid, Running(t)
  PROVE  /\ t = currentThread /\ status[t] = "RUNNING" /\ machine = "on"
         /\ threadToBeDestroyed = NoThread
         /\ where[t] # "dead" /\ t \notin sleeping /\ waitchild_id[t] = NoThread
         /\ t \in Created /\ t \notin destroyed /\ t \notin exitThreadArray
BY ThreadsAssumption DEF Running, IInv, TypeOK, OneCarcass, Placement, WaitsForOneThing,
   Alive, Joining, Created, Pid

(* The running thread blocks; rl and st are what it left behind.            *)
LEMMA SleepSettles ==
  ASSUME IInv, NEW t \in Pid, Running(t), NEW rl, NEW st \in [Pid -> Statuses],
         Holds(rl, st), \A u \in Pid : st[u] = "RUNNING" <=> u = t,
         PutThreadToSleep(rl, st)
  PROVE  Settled([st EXCEPT ![t] = "BLOCKED"], NoThread)
<1> DEFINE bl == [st EXCEPT ![t] = "BLOCKED"]
<1>1. t = currentThread /\ threadToBeDestroyed = NoThread
  BY RunningFacts
<1>2. bl \in [Pid -> Statuses] /\ Holds(rl, bl) /\ bl[t] = "BLOCKED"
      /\ \A u \in Pid : bl[u] # "RUNNING"
  BY DEF Statuses, Holds
<1>3. SwitchOrIdle(rl, bl, NoThread)
  BY <1>1 DEF PutThreadToSleep
<1> QED BY <1>1, <1>2, <1>3, SwitchSettles

(* The running thread yields; rl and st are what it left behind.            *)
LEMMA YieldSettles ==
  ASSUME NEW t \in Pid, t = currentThread, threadToBeDestroyed = NoThread,
         NEW rl, NEW st \in [Pid -> Statuses], Holds(rl, st),
         \A u \in Pid : st[u] = "RUNNING" <=> u = t, YieldCPU(rl, st)
  PROVE  Settled(st, NoThread)
<1> DEFINE ready == [st EXCEPT ![t] = "READY"]
<1>1. /\ Holds(readyList', status')
      /\ \/ Stays(st, NoThread)
         \/ \E n \in Pid : (n = t \/ st[n] = "READY") /\ Dispatches(n, ready, NoThread)
  BY YieldCPUHolds
<1>2. ReadyOnce'
  BY <1>1 DEF Holds, ReadyOnce
<1>3. CASE Stays(st, NoThread)
  BY <1>1, <1>2, <1>3 DEF Stays, Settled, RunsAlone, Holds
<1>4. ASSUME NEW n \in Pid, n = t \/ st[n] = "READY", Dispatches(n, ready, NoThread)
      PROVE  Settled(st, NoThread)
  BY <1>1, <1>2, <1>4 DEF Dispatches, Settled, RunsAlone, Holds, Statuses
<1> QED BY <1>1, <1>3, <1>4

(* An interrupt handler or a synchronization operation readies blocked      *)
(* threads.                                                                 *)
LEMMA WakeHolds ==
  ASSUME IInv, NEW S \in SUBSET Pid, \A t \in S : status[t] = "BLOCKED",
         NEW w \in SetToAllKPermutations(S)
  PROVE  /\ Holds(readyList \o w, Awaken(status, w))
         /\ Awaken(status, w) \in [Pid -> Statuses]
         /\ ToSet(w) \subseteq S /\ w \in Seq(Pid)
         /\ \A t \in Pid : Awaken(status, w)[t] =
                            IF t \in ToSet(w) THEN "READY" ELSE status[t]
         /\ \A t \in Pid : (Awaken(status, w)[t] = "RUNNING") <=> (status[t] = "RUNNING")
         /\ \A t \in Pid : (Awaken(status, w)[t] = "NONE") <=> (status[t] = "NONE")
         /\ \A t \in Pid :
              (Awaken(status, w)[t] = "JUST_CREATED") <=> (status[t] = "JUST_CREATED")
         /\ \A t \in Pid : (Awaken(status, w)[t] = "BLOCKED")
                              <=> (status[t] = "BLOCKED" /\ t \notin ToSet(w))
<1>1. IsFiniteSet(S)
  BY PidFinite, ThreadsAssumption, FS_Subset
<1>2. w \in Seq(S) /\ Distinct(w) /\ ToSet(w) \subseteq S
  BY <1>1, PermutationDistinct
<1>3. w \in Seq(Pid)
  BY <1>2
<1>4. Holds(readyList \o w, Awaken(status, w)) /\ Awaken(status, w) \in [Pid -> Statuses]
  BY <1>2, <1>3, QueueOK, AwakenHolds
<1>5. \A t \in Pid : Awaken(status, w)[t] = IF t \in ToSet(w) THEN "READY" ELSE status[t]
  BY DEF Awaken
<1>6. \A t \in ToSet(w) : status[t] = "BLOCKED"
  BY <1>2
<1>7. /\ \A t \in Pid : (Awaken(status, w)[t] = "RUNNING") <=> (status[t] = "RUNNING")
      /\ \A t \in Pid : (Awaken(status, w)[t] = "NONE") <=> (status[t] = "NONE")
      /\ \A t \in Pid :
           (Awaken(status, w)[t] = "JUST_CREATED") <=> (status[t] = "JUST_CREATED")
      /\ \A t \in Pid : (Awaken(status, w)[t] = "BLOCKED")
                           <=> (status[t] = "BLOCKED" /\ t \notin ToSet(w))
  BY <1>5, <1>6
<1> QED BY <1>2, <1>3, <1>4, <1>5, <1>7

(* An operation without a dispatch.                                         *)
LEMMA UnchangedSettles ==
  ASSUME IInv, UNCHANGED dispatch
  PROVE  Settled(status, threadToBeDestroyed)
BY QueueOK DEF dispatch, Settled, IInv, TypeOK, Placement, ReadyOnce, RunsAlone

(* A new thread goes on the ready list.                                     *)
LEMMA ScheduleSettles ==
  ASSUME IInv, NEW c \in Pid, status[c] \in {"NONE", "JUST_CREATED"}, ScheduleChild(c),
         status[currentThread] = "RUNNING"
  PROVE  Settled([status EXCEPT ![c] = "READY"], threadToBeDestroyed)
<1>1. /\ Holds(readyList, status) /\ status \in [Pid -> Statuses] /\ currentThread \in Pid
      /\ readyList \in Seq(Pid) /\ Distinct(readyList) /\ c \notin ToSet(readyList)
  BY QueueOK DEF Holds, Distinct
<1>2. /\ readyList' = Append(readyList, c) /\ status' = [status EXCEPT ![c] = "READY"]
      /\ UNCHANGED <<currentThread, threadToBeDestroyed, destroyed>>
  BY DEF ScheduleChild
<1>3. /\ readyList' \in Seq(Pid) /\ Distinct(readyList')
      /\ ToSet(readyList') = ToSet(readyList) \cup {c}
  BY <1>1, <1>2, AppendDistinct
<1>4. ReadyOnce'
  BY <1>1, <1>2, <1>3 DEF Holds, ReadyOnce, Distinct
<1>5. RunsAlone' /\ status' \in [Pid -> Statuses]
  BY <1>1, <1>2 DEF IInv, Placement, RunsAlone, Statuses
<1> QED BY <1>1, <1>2, <1>3, <1>4, <1>5 DEF Settled

-----------------------------------------------------------------------------
(* Yield(t) keeps IInv and moves threads along their edges. *)
LEMMA YieldKeeps ==
  ASSUME IInv, NEW t \in Pid, Yield(t)
  PROVE  IInv' /\ Moves
<1>1. /\ t = currentThread /\ status[t] = "RUNNING" /\ machine = "on"
      /\ threadToBeDestroyed = NoThread /\ where[t] # "dead" /\ t \notin sleeping
      /\ waitchild_id[t] = NoThread /\ t \in Created /\ t \notin exitThreadArray
      /\ \A u \in Pid : status[u] = "RUNNING" <=> u = t
  BY RunningFacts DEF Yield, IInv, Placement, RunsAlone
<1>2. Settled(status, NoThread)
  BY <1>1, QueueOK, YieldSettles DEF Yield
<1>3. UNCHANGED <<family, exits, where, pagesLeft, sleeping, joined, machine>>
  BY DEF Yield
<1>4. TypeOK'
  BY <1>1, <1>2, <1>3, ThreadsAssumption DEF IInv, TypeOK, Statuses, Settled, Pid, family,
    exits, joined
<1>5. Placement'
  <2>1. ReadyOnce' /\ RunsAlone'
    BY <1>1, <1>2, <1>3 DEF IInv, TypeOK, Placement, ReadyOnce, RunsAlone, Settled, family,
      exits, joined
  <2>2. \A u \in sleeping' : status'[u] = "BLOCKED" /\ where'[u] \in {"user", "fork"}
    BY <1>1, <1>2, <1>3 DEF IInv, TypeOK, Placement, Settled, WaitsForOneThing, Alive,
      family, exits, joined
  <2>3. \A u \in Pid : status'[u] = "BLOCKED" /\ where'[u] \in {"user", "fork"}
                       => u \in sleeping'
    BY <1>1, <1>2, <1>3 DEF IInv, TypeOK, Placement, Settled, WaitsForOneThing, Alive,
      family, exits, joined
  <2>4. \A u \in Pid : (waitchild_id'[u] # NoThread)
                       <=> (status'[u] = "BLOCKED" /\ where'[u] = "join")
    BY <1>1, <1>2, <1>3 DEF IInv, TypeOK, Placement, Settled, WaitsForOneThing, Alive,
      family, exits, joined
  <2> QED BY <2>1, <2>2, <2>3, <2>4 DEF Placement, WaitsForOneThing
<1>6. OneCarcass'
  BY <1>1, <1>2, <1>3 DEF IInv, TypeOK, OneCarcass, Alive, Settled, family, exits, joined
<1>7. Alive'
  BY <1>1, <1>2, <1>3 DEF IInv, TypeOK, OneCarcass, Alive, Settled, Pid, family, exits,
    joined
<1>8. Joining'
  BY <1>1, <1>2, <1>3 DEF IInv, TypeOK, Joining, Created, family, exits, joined
<1>9. JoinNotLost'
  BY <1>1, <1>2, <1>3 DEF IInv, TypeOK, Joining, JoinNotLost, Placement, WaitsForOneThing,
    family, exits, joined
<1>10. JoinResult' /\ OnlyExitFinishes' /\ LastExitHalts'
  BY <1>1, <1>2, <1>3 DEF IInv, TypeOK, Joining, JoinResult, OnlyExitFinishes,
    LastExitHalts, Created, family, exits, joined
<1>11. Moves
  <2>1. destroyed \subseteq destroyed' /\ (destroyed' # destroyed => status'[currentThread'] = "RUNNING")
    BY <1>1, <1>2, <1>3 DEF IInv, TypeOK, Moves, Placement, WaitsForOneThing, Alive,
      JoinNotLost, Settled, family, exits, joined
  <2>2. \A u \in Pid : /\ where[u] = "dead" => where'[u] = "dead"
                       /\ where'[u] = "dead" => where[u] = "dead" \/ status[u] = "RUNNING"
    BY <1>1, <1>2, <1>3 DEF IInv, TypeOK, Moves, Placement, WaitsForOneThing, Alive,
      JoinNotLost, Settled, family, exits, joined
  <2>3. \A u \in Pid : status'[u] = "BLOCKED" => status[u] \in {"RUNNING", "BLOCKED"}
    BY <1>1, <1>2, <1>3 DEF IInv, TypeOK, Moves, Placement, WaitsForOneThing, Alive,
      JoinNotLost, Settled, family, exits, joined
  <2>4. \A u \in Pid : /\ status'[u] \in {"NONE", "JUST_CREATED"}
                            => status[u] \in {"NONE", "JUST_CREATED"}
                       /\ status[u] \in {"NONE", "JUST_CREATED"}
                            => status'[u] # "RUNNING"
    BY <1>1, <1>2, <1>3 DEF IInv, TypeOK, Moves, Placement, WaitsForOneThing, Alive,
      JoinNotLost, Settled, family, exits, joined
  <2>5. \A u \in Pid : waitchild_id[u] # NoThread /\ status'[u] # "BLOCKED" =>
                      waitchild_id[u] \in exitThreadArray' \ exitThreadArray
    BY <1>1, <1>2, <1>3 DEF IInv, TypeOK, Moves, Placement, WaitsForOneThing, Alive,
      JoinNotLost, Settled, family, exits, joined
  <2> QED BY <2>1, <2>2, <2>3, <2>4, <2>5 DEF Moves
<1> QED BY <1>4, <1>5, <1>6, <1>7, <1>8, <1>9, <1>10, <1>11 DEF IInv

(* Sleep(t) keeps IInv and moves threads along their edges. *)
LEMMA SleepKeeps ==
  ASSUME IInv, NEW t \in Pid, Sleep(t)
  PROVE  IInv' /\ Moves
<1>1. /\ t = currentThread /\ status[t] = "RUNNING" /\ machine = "on"
      /\ threadToBeDestroyed = NoThread /\ where[t] # "dead" /\ t \notin sleeping
      /\ waitchild_id[t] = NoThread /\ t \in Created /\ t \notin exitThreadArray
      /\ \A u \in Pid : status[u] = "RUNNING" <=> u = t
  BY RunningFacts DEF Sleep, IInv, Placement, RunsAlone
<1>2. Settled([status EXCEPT ![t] = "BLOCKED"], NoThread)
  BY <1>1, QueueOK, SleepSettles DEF Sleep
<1>3. /\ where[t] = "user" /\ sleeping' = sleeping \cup {t}
      /\ UNCHANGED <<family, exits, where, pagesLeft, joined, machine>>
  BY DEF Sleep
<1>4. TypeOK'
  BY <1>1, <1>2, <1>3, ThreadsAssumption DEF IInv, TypeOK, Statuses, Settled, Pid, family,
    exits, joined
<1>5. Placement'
  <2>1. ReadyOnce' /\ RunsAlone'
    BY <1>1, <1>2, <1>3 DEF IInv, TypeOK, Placement, ReadyOnce, RunsAlone, Settled, family,
      exits, joined
  <2>2. \A u \in sleeping' : status'[u] = "BLOCKED" /\ where'[u] \in {"user", "fork"}
    BY <1>1, <1>2, <1>3 DEF IInv, TypeOK, Placement, Settled, WaitsForOneThing, Alive,
      family, exits, joined
  <2>3. \A u \in Pid : status'[u] = "BLOCKED" /\ where'[u] \in {"user", "fork"}
                       => u \in sleeping'
    BY <1>1, <1>2, <1>3 DEF IInv, TypeOK, Placement, Settled, WaitsForOneThing, Alive,
      family, exits, joined
  <2>4. \A u \in Pid : (waitchild_id'[u] # NoThread)
                       <=> (status'[u] = "BLOCKED" /\ where'[u] = "join")
    BY <1>1, <1>2, <1>3 DEF IInv, TypeOK, Placement, Settled, WaitsForOneThing, Alive,
      family, exits, joined
  <2> QED BY <2>1, <2>2, <2>3, <2>4 DEF Placement, WaitsForOneThing
<1>6. OneCarcass'
  BY <1>1, <1>2, <1>3 DEF IInv, TypeOK, OneCarcass, Alive, Settled, family, exits, joined
<1>7. Alive'
  BY <1>1, <1>2, <1>3 DEF IInv, TypeOK, OneCarcass, Alive, Settled, Pid, family, exits,
    joined
<1>8. Joining'
  BY <1>1, <1>2, <1>3 DEF IInv, TypeOK, Joining, Created, family, exits, joined
<1>9. JoinNotLost'
  BY <1>1, <1>2, <1>3 DEF IInv, TypeOK, Joining, JoinNotLost, Placement, WaitsForOneThing,
    family, exits, joined
<1>10. JoinResult' /\ OnlyExitFinishes' /\ LastExitHalts'
  BY <1>1, <1>2, <1>3 DEF IInv, TypeOK, Joining, JoinResult, OnlyExitFinishes,
    LastExitHalts, Created, family, exits, joined
<1>11. Moves
  <2>1. destroyed \subseteq destroyed' /\ (destroyed' # destroyed => status'[currentThread'] = "RUNNING")
    BY <1>1, <1>2, <1>3 DEF IInv, TypeOK, Moves, Placement, WaitsForOneThing, Alive,
      JoinNotLost, Settled, family, exits, joined
  <2>2. \A u \in Pid : /\ where[u] = "dead" => where'[u] = "dead"
                       /\ where'[u] = "dead" => where[u] = "dead" \/ status[u] = "RUNNING"
    BY <1>1, <1>2, <1>3 DEF IInv, TypeOK, Moves, Placement, WaitsForOneThing, Alive,
      JoinNotLost, Settled, family, exits, joined
  <2>3. \A u \in Pid : status'[u] = "BLOCKED" => status[u] \in {"RUNNING", "BLOCKED"}
    BY <1>1, <1>2, <1>3 DEF IInv, TypeOK, Moves, Placement, WaitsForOneThing, Alive,
      JoinNotLost, Settled, family, exits, joined
  <2>4. \A u \in Pid : /\ status'[u] \in {"NONE", "JUST_CREATED"}
                            => status[u] \in {"NONE", "JUST_CREATED"}
                       /\ status[u] \in {"NONE", "JUST_CREATED"}
                            => status'[u] # "RUNNING"
    BY <1>1, <1>2, <1>3 DEF IInv, TypeOK, Moves, Placement, WaitsForOneThing, Alive,
      JoinNotLost, Settled, family, exits, joined
  <2>5. \A u \in Pid : waitchild_id[u] # NoThread /\ status'[u] # "BLOCKED" =>
                      waitchild_id[u] \in exitThreadArray' \ exitThreadArray
    BY <1>1, <1>2, <1>3 DEF IInv, TypeOK, Moves, Placement, WaitsForOneThing, Alive,
      JoinNotLost, Settled, family, exits, joined
  <2> QED BY <2>1, <2>2, <2>3, <2>4, <2>5 DEF Moves
<1> QED BY <1>4, <1>5, <1>6, <1>7, <1>8, <1>9, <1>10, <1>11 DEF IInv

(* JoinWaits(t, c) keeps IInv and moves threads along their edges. *)
LEMMA JoinWaitsKeeps ==
  ASSUME IInv, NEW t \in Pid, NEW c \in Pid, JoinWaits(t, c)
  PROVE  IInv' /\ Moves
<1>1. /\ t = currentThread /\ status[t] = "RUNNING" /\ machine = "on"
      /\ threadToBeDestroyed = NoThread /\ where[t] # "dead" /\ t \notin sleeping
      /\ waitchild_id[t] = NoThread /\ t \in Created /\ t \notin exitThreadArray
      /\ \A u \in Pid : status[u] = "RUNNING" <=> u = t
  BY RunningFacts DEF JoinWaits, IInv, Placement, RunsAlone
<1>2. Settled([status EXCEPT ![t] = "BLOCKED"], NoThread)
  BY <1>1, QueueOK, SleepSettles DEF JoinWaits, Awaits
<1>3. /\ where[t] = "user" /\ c \in Created /\ ppid[c] = t /\ c \notin exitedChild
      /\ c # NoThread /\ t # NoThread
      /\ waitchild_id' = [waitchild_id EXCEPT ![t] = c]
      /\ whichchild' = [whichchild EXCEPT ![t] = c]
      /\ where' = [where EXCEPT ![t] = "join"]
      /\ returned' = returned \ {t}
      /\ UNCHANGED <<family, exitThreadArray, exitedChild, childexitcode, exitcode,
                     pagesLeft, sleeping, result, machine>>
  BY DEF JoinWaits, CheckIfChild, Awaits, Pid, NoThread
<1>4. TypeOK'
  BY <1>1, <1>2, <1>3, ThreadsAssumption DEF IInv, TypeOK, Statuses, Settled, Pid, family,
    exits, joined
<1>5. Placement'
  <2>1. ReadyOnce' /\ RunsAlone'
    BY <1>1, <1>2, <1>3 DEF IInv, TypeOK, Placement, ReadyOnce, RunsAlone, Settled, family,
      exits, joined
  <2>2. \A u \in sleeping' : status'[u] = "BLOCKED" /\ where'[u] \in {"user", "fork"}
    BY <1>1, <1>2, <1>3 DEF IInv, TypeOK, Placement, Settled, WaitsForOneThing, Alive,
      family, exits, joined
  <2>3. \A u \in Pid : status'[u] = "BLOCKED" /\ where'[u] \in {"user", "fork"}
                       => u \in sleeping'
    BY <1>1, <1>2, <1>3 DEF IInv, TypeOK, Placement, Settled, WaitsForOneThing, Alive,
      family, exits, joined
  <2>4. \A u \in Pid : (waitchild_id'[u] # NoThread)
                       <=> (status'[u] = "BLOCKED" /\ where'[u] = "join")
    BY <1>1, <1>2, <1>3 DEF IInv, TypeOK, Placement, Settled, WaitsForOneThing, Alive,
      family, exits, joined
  <2> QED BY <2>1, <2>2, <2>3, <2>4 DEF Placement, WaitsForOneThing
<1>6. OneCarcass'
  BY <1>1, <1>2, <1>3 DEF IInv, TypeOK, OneCarcass, Alive, Settled, family, exits, joined
<1>7. Alive'
  BY <1>1, <1>2, <1>3 DEF IInv, TypeOK, OneCarcass, Alive, Settled, Pid, family, exits,
    joined
<1>8. Joining'
  <2>1. ASSUME NEW u \in Pid, where'[u] = "join"
        PROVE  /\ whichchild'[u] \in Created /\ ppid[whichchild'[u]] = u
               /\ u \notin returned'
               /\ waitchild_id'[u] = NoThread => whichchild'[u] \in exitedChild
    <3>1. CASE u = t
      BY <1>3, <3>1 DEF IInv, TypeOK
    <3>2. CASE u # t
      <4>1. where[u] = "join" /\ whichchild'[u] = whichchild[u] /\ waitchild_id'[u] = waitchild_id[u]
        BY <1>3, <2>1, <3>2 DEF IInv, TypeOK
      <4> QED BY <1>3, <4>1 DEF IInv, Joining
    <3> QED BY <3>1, <3>2
  <2>2. \A u \in exitThreadArray : where'[u] = "dead"
    BY <1>1, <1>3 DEF IInv, TypeOK, Joining
  <2> QED BY <1>3, <2>1, <2>2 DEF IInv, Joining, Created, family
<1>9. JoinNotLost'
  BY <1>1, <1>2, <1>3 DEF IInv, TypeOK, Joining, JoinNotLost, Placement, WaitsForOneThing,
    family, exits, joined
<1>10. JoinResult' /\ OnlyExitFinishes' /\ LastExitHalts'
  BY <1>1, <1>2, <1>3 DEF IInv, TypeOK, Joining, JoinResult, OnlyExitFinishes,
    LastExitHalts, Created, family, exits, joined
<1>11. Moves
  <2>1. destroyed \subseteq destroyed' /\ (destroyed' # destroyed => status'[currentThread'] = "RUNNING")
    BY <1>1, <1>2, <1>3 DEF IInv, TypeOK, Moves, Placement, WaitsForOneThing, Alive,
      JoinNotLost, Settled, family, exits, joined
  <2>2. \A u \in Pid : /\ where[u] = "dead" => where'[u] = "dead"
                       /\ where'[u] = "dead" => where[u] = "dead" \/ status[u] = "RUNNING"
    BY <1>1, <1>2, <1>3 DEF IInv, TypeOK, Moves, Placement, WaitsForOneThing, Alive,
      JoinNotLost, Settled, family, exits, joined
  <2>3. \A u \in Pid : status'[u] = "BLOCKED" => status[u] \in {"RUNNING", "BLOCKED"}
    BY <1>1, <1>2, <1>3 DEF IInv, TypeOK, Moves, Placement, WaitsForOneThing, Alive,
      JoinNotLost, Settled, family, exits, joined
  <2>4. \A u \in Pid : /\ status'[u] \in {"NONE", "JUST_CREATED"}
                            => status[u] \in {"NONE", "JUST_CREATED"}
                       /\ status[u] \in {"NONE", "JUST_CREATED"}
                            => status'[u] # "RUNNING"
    BY <1>1, <1>2, <1>3 DEF IInv, TypeOK, Moves, Placement, WaitsForOneThing, Alive,
      JoinNotLost, Settled, family, exits, joined
  <2>5. \A u \in Pid : waitchild_id[u] # NoThread /\ status'[u] # "BLOCKED" =>
                      waitchild_id[u] \in exitThreadArray' \ exitThreadArray
    BY <1>1, <1>2, <1>3 DEF IInv, TypeOK, Moves, Placement, WaitsForOneThing, Alive,
      JoinNotLost, Settled, family, exits, joined
  <2> QED BY <2>1, <2>2, <2>3, <2>4, <2>5 DEF Moves
<1> QED BY <1>4, <1>5, <1>6, <1>7, <1>8, <1>9, <1>10, <1>11 DEF IInv

(* SynchStep(t, w, blocks) keeps IInv and moves threads along their edges. *)
LEMMA SynchStepKeeps ==
  ASSUME IInv, NEW t \in Pid, NEW w \in SetToAllKPermutations(InSynch),
         NEW blocks \in BOOLEAN, SynchStep(t, w, blocks)
  PROVE  IInv' /\ Moves
<1>1. /\ t = currentThread /\ status[t] = "RUNNING" /\ machine = "on"
      /\ threadToBeDestroyed = NoThread /\ where[t] # "dead" /\ t \notin sleeping
      /\ waitchild_id[t] = NoThread /\ t \in Created /\ t \notin exitThreadArray
      /\ \A u \in Pid : status[u] = "RUNNING" <=> u = t
  BY RunningFacts DEF SynchStep, IInv, Placement, RunsAlone
<1>2. /\ Holds(readyList \o w, Awaken(status, w)) /\ Awaken(status, w) \in [Pid -> Statuses]
      /\ ToSet(w) \subseteq InSynch
      /\ \A u \in Pid : Awaken(status, w)[u] = IF u \in ToSet(w) THEN "READY" ELSE status[u]
  BY WakeHolds DEF InSynch
<1>3. \A u \in Pid : Awaken(status, w)[u] = "RUNNING" <=> u = t
  BY <1>1, <1>2 DEF InSynch
<1>4. /\ where[t] \in {"user", "synch"}
      /\ where' = [where EXCEPT ![t] = IF blocks THEN "synch" ELSE "user"]
      /\ UNCHANGED <<family, exits, pagesLeft, sleeping, joined, machine>>
  BY DEF SynchStep
<1>5. \/ blocks /\ Settled([Awaken(status, w) EXCEPT ![t] = "BLOCKED"], NoThread)
      \/ ~blocks /\ Settled(Awaken(status, w), NoThread)
  <2>1. CASE blocks /\ PutThreadToSleep(readyList \o w, Awaken(status, w))
    BY <1>2, <1>3, <2>1, SleepSettles DEF SynchStep
  <2>2. CASE /\ ~blocks /\ readyList' = readyList \o w /\ status' = Awaken(status, w)
             /\ UNCHANGED <<currentThread, threadToBeDestroyed, destroyed>>
    BY <1>1, <1>2, <1>3, <2>2 DEF Settled, Holds, ReadyOnce, RunsAlone
  <2> QED BY <2>1, <2>2 DEF SynchStep
<1>6. \A u \in InSynch : status[u] = "BLOCKED" /\ where[u] = "synch"
  BY DEF InSynch
<1>7. /\ \A u \in Pid : (status'[u] = "NONE") <=> (status[u] = "NONE")
      /\ \A u \in Pid : (status'[u] = "JUST_CREATED") <=> (status[u] = "JUST_CREATED")
      /\ \A u \in Pid \ {t} :
           (status'[u] = "BLOCKED") <=> (status[u] = "BLOCKED" /\ u \notin ToSet(w))
      /\ (status'[t] = "BLOCKED") <=> blocks
  BY <1>1, <1>2, <1>5, <1>6 DEF Settled
<1>8. where'[t] # "dead" /\ \A u \in Pid : u # t => where'[u] = where[u]
  BY <1>4 DEF IInv, TypeOK
<1>9. \A u \in Pid : where[u] = "dead" => status'[u] = "BLOCKED" /\ where'[u] = "dead"
  BY <1>1, <1>2, <1>6, <1>7, <1>8 DEF IInv, Alive
<1>10. TypeOK'
  BY <1>1, <1>2, <1>3, <1>4, <1>5, <1>6, <1>7, <1>8, <1>9, ThreadsAssumption DEF IInv,
    TypeOK, Statuses, Settled, Pid, family, exits, joined
<1>11. Placement'
  <2>1. ReadyOnce' /\ RunsAlone'
    BY <1>1, <1>2, <1>3, <1>4, <1>5, <1>6, <1>7, <1>8, <1>9 DEF IInv, TypeOK, Placement,
      ReadyOnce, RunsAlone, Settled, family, exits, joined
  <2>2. \A u \in sleeping' : status'[u] = "BLOCKED" /\ where'[u] \in {"user", "fork"}
    BY <1>1, <1>2, <1>3, <1>4, <1>5, <1>6, <1>7, <1>8, <1>9 DEF IInv, TypeOK, Placement,
      Settled, WaitsForOneThing, Alive, family, exits, joined
  <2>3. \A u \in Pid : status'[u] = "BLOCKED" /\ where'[u] \in {"user", "fork"}
                       => u \in sleeping'
    BY <1>1, <1>2, <1>3, <1>4, <1>5, <1>6, <1>7, <1>8, <1>9 DEF IInv, TypeOK, Placement,
      Settled, WaitsForOneThing, Alive, family, exits, joined
  <2>4. \A u \in Pid : (waitchild_id'[u] # NoThread)
                       <=> (status'[u] = "BLOCKED" /\ where'[u] = "join")
    BY <1>1, <1>2, <1>3, <1>4, <1>5, <1>6, <1>7, <1>8, <1>9 DEF IInv, TypeOK, Placement,
      Settled, WaitsForOneThing, Alive, family, exits, joined
  <2> QED BY <2>1, <2>2, <2>3, <2>4 DEF Placement, WaitsForOneThing
<1>12. OneCarcass'
  BY <1>1, <1>2, <1>3, <1>4, <1>5, <1>6, <1>7, <1>8, <1>9 DEF IInv, TypeOK, OneCarcass,
    Alive, Settled, family, exits, joined
<1>13. Alive'
  BY <1>1, <1>2, <1>3, <1>4, <1>5, <1>6, <1>7, <1>8, <1>9 DEF IInv, TypeOK, OneCarcass,
    Alive, Settled, Pid, family, exits, joined
<1>14. Joining'
  BY <1>1, <1>2, <1>3, <1>4, <1>5, <1>6, <1>7, <1>8, <1>9 DEF IInv, TypeOK, Joining,
    Created, family, exits, joined
<1>15. JoinNotLost'
  BY <1>1, <1>2, <1>3, <1>4, <1>5, <1>6, <1>7, <1>8, <1>9 DEF IInv, TypeOK, Joining,
    JoinNotLost, Placement, WaitsForOneThing, family, exits, joined
<1>16. JoinResult' /\ OnlyExitFinishes' /\ LastExitHalts'
  BY <1>1, <1>2, <1>3, <1>4, <1>5, <1>6, <1>7, <1>8, <1>9 DEF IInv, TypeOK, Joining,
    JoinResult, OnlyExitFinishes, LastExitHalts, Created, family, exits, joined
<1>17. Moves
  <2>1. destroyed \subseteq destroyed' /\ (destroyed' # destroyed => status'[currentThread'] = "RUNNING")
    BY <1>1, <1>2, <1>3, <1>4, <1>5, <1>6, <1>7, <1>8, <1>9 DEF IInv, TypeOK, Moves,
      Placement, WaitsForOneThing, Alive, JoinNotLost, Settled, family, exits, joined
  <2>2. \A u \in Pid : /\ where[u] = "dead" => where'[u] = "dead"
                       /\ where'[u] = "dead" => where[u] = "dead" \/ status[u] = "RUNNING"
    BY <1>1, <1>2, <1>3, <1>4, <1>5, <1>6, <1>7, <1>8, <1>9 DEF IInv, TypeOK, Moves,
      Placement, WaitsForOneThing, Alive, JoinNotLost, Settled, family, exits, joined
  <2>3. \A u \in Pid : status'[u] = "BLOCKED" => status[u] \in {"RUNNING", "BLOCKED"}
    BY <1>1, <1>2, <1>3, <1>4, <1>5, <1>6, <1>7, <1>8, <1>9 DEF IInv, TypeOK, Moves,
      Placement, WaitsForOneThing, Alive, JoinNotLost, Settled, family, exits, joined
  <2>4. \A u \in Pid : /\ status'[u] \in {"NONE", "JUST_CREATED"}
                            => status[u] \in {"NONE", "JUST_CREATED"}
                       /\ status[u] \in {"NONE", "JUST_CREATED"}
                            => status'[u] # "RUNNING"
    BY <1>1, <1>2, <1>3, <1>4, <1>5, <1>6, <1>7, <1>8, <1>9 DEF IInv, TypeOK, Moves,
      Placement, WaitsForOneThing, Alive, JoinNotLost, Settled, family, exits, joined
  <2>5. \A u \in Pid : waitchild_id[u] # NoThread /\ status'[u] # "BLOCKED" =>
                      waitchild_id[u] \in exitThreadArray' \ exitThreadArray
    BY <1>1, <1>2, <1>3, <1>4, <1>5, <1>6, <1>7, <1>8, <1>9 DEF IInv, TypeOK, Moves,
      Placement, WaitsForOneThing, Alive, JoinNotLost, Settled, family, exits, joined
  <2> QED BY <2>1, <2>2, <2>3, <2>4, <2>5 DEF Moves
<1> QED BY <1>10, <1>11, <1>12, <1>13, <1>14, <1>15, <1>16, <1>17 DEF IInv

(* Halt(t) keeps IInv and moves threads along their edges. *)
LEMMA HaltKeeps ==
  ASSUME IInv, NEW t \in Pid, Halt(t)
  PROVE  IInv' /\ Moves
<1>1. /\ t = currentThread /\ status[t] = "RUNNING" /\ machine = "on"
      /\ threadToBeDestroyed = NoThread /\ where[t] # "dead" /\ t \notin sleeping
      /\ waitchild_id[t] = NoThread /\ t \in Created /\ t \notin exitThreadArray
      /\ \A u \in Pid : status[u] = "RUNNING" <=> u = t
  BY RunningFacts DEF Halt, IInv, Placement, RunsAlone
<1>2. Settled(status, NoThread)
  BY <1>1, UnchangedSettles DEF Halt
<1>3. /\ machine' = "halted"
      /\ UNCHANGED <<family, exits, where, pagesLeft, sleeping, joined>>
  BY DEF Halt
<1>4. TypeOK'
  BY <1>1, <1>2, <1>3, ThreadsAssumption DEF IInv, TypeOK, Statuses, Settled, Pid, family,
    exits, joined
<1>5. Placement'
  <2>1. ReadyOnce' /\ RunsAlone'
    BY <1>1, <1>2, <1>3 DEF IInv, TypeOK, Placement, ReadyOnce, RunsAlone, Settled, family,
      exits, joined
  <2>2. \A u \in sleeping' : status'[u] = "BLOCKED" /\ where'[u] \in {"user", "fork"}
    BY <1>1, <1>2, <1>3 DEF IInv, TypeOK, Placement, Settled, WaitsForOneThing, Alive,
      family, exits, joined
  <2>3. \A u \in Pid : status'[u] = "BLOCKED" /\ where'[u] \in {"user", "fork"}
                       => u \in sleeping'
    BY <1>1, <1>2, <1>3 DEF IInv, TypeOK, Placement, Settled, WaitsForOneThing, Alive,
      family, exits, joined
  <2>4. \A u \in Pid : (waitchild_id'[u] # NoThread)
                       <=> (status'[u] = "BLOCKED" /\ where'[u] = "join")
    BY <1>1, <1>2, <1>3 DEF IInv, TypeOK, Placement, Settled, WaitsForOneThing, Alive,
      family, exits, joined
  <2> QED BY <2>1, <2>2, <2>3, <2>4 DEF Placement, WaitsForOneThing
<1>6. OneCarcass'
  BY <1>1, <1>2, <1>3 DEF IInv, TypeOK, OneCarcass, Alive, Settled, family, exits, joined
<1>7. Alive'
  BY <1>1, <1>2, <1>3 DEF IInv, TypeOK, OneCarcass, Alive, Settled, Pid, family, exits,
    joined
<1>8. Joining'
  BY <1>1, <1>2, <1>3 DEF IInv, TypeOK, Joining, Created, family, exits, joined
<1>9. JoinNotLost'
  BY <1>1, <1>2, <1>3 DEF IInv, TypeOK, Joining, JoinNotLost, Placement, WaitsForOneThing,
    family, exits, joined
<1>10. JoinResult' /\ OnlyExitFinishes' /\ LastExitHalts'
  BY <1>1, <1>2, <1>3 DEF IInv, TypeOK, Joining, JoinResult, OnlyExitFinishes,
    LastExitHalts, Created, family, exits, joined
<1>11. Moves
  <2>1. destroyed \subseteq destroyed' /\ (destroyed' # destroyed => status'[currentThread'] = "RUNNING")
    BY <1>1, <1>2, <1>3 DEF IInv, TypeOK, Moves, Placement, WaitsForOneThing, Alive,
      JoinNotLost, Settled, family, exits, joined
  <2>2. \A u \in Pid : /\ where[u] = "dead" => where'[u] = "dead"
                       /\ where'[u] = "dead" => where[u] = "dead" \/ status[u] = "RUNNING"
    BY <1>1, <1>2, <1>3 DEF IInv, TypeOK, Moves, Placement, WaitsForOneThing, Alive,
      JoinNotLost, Settled, family, exits, joined
  <2>3. \A u \in Pid : status'[u] = "BLOCKED" => status[u] \in {"RUNNING", "BLOCKED"}
    BY <1>1, <1>2, <1>3 DEF IInv, TypeOK, Moves, Placement, WaitsForOneThing, Alive,
      JoinNotLost, Settled, family, exits, joined
  <2>4. \A u \in Pid : /\ status'[u] \in {"NONE", "JUST_CREATED"}
                            => status[u] \in {"NONE", "JUST_CREATED"}
                       /\ status[u] \in {"NONE", "JUST_CREATED"}
                            => status'[u] # "RUNNING"
    BY <1>1, <1>2, <1>3 DEF IInv, TypeOK, Moves, Placement, WaitsForOneThing, Alive,
      JoinNotLost, Settled, family, exits, joined
  <2>5. \A u \in Pid : waitchild_id[u] # NoThread /\ status'[u] # "BLOCKED" =>
                      waitchild_id[u] \in exitThreadArray' \ exitThreadArray
    BY <1>1, <1>2, <1>3 DEF IInv, TypeOK, Moves, Placement, WaitsForOneThing, Alive,
      JoinNotLost, Settled, family, exits, joined
  <2> QED BY <2>1, <2>2, <2>3, <2>4, <2>5 DEF Moves
<1> QED BY <1>4, <1>5, <1>6, <1>7, <1>8, <1>9, <1>10, <1>11 DEF IInv

(* ForkAborts(t) keeps IInv and moves threads along their edges. *)
LEMMA ForkAbortsKeeps ==
  ASSUME IInv, NEW t \in Pid, ForkAborts(t)
  PROVE  IInv' /\ Moves
<1>1. /\ t = currentThread /\ status[t] = "RUNNING" /\ machine = "on"
      /\ threadToBeDestroyed = NoThread /\ where[t] # "dead" /\ t \notin sleeping
      /\ waitchild_id[t] = NoThread /\ t \in Created /\ t \notin exitThreadArray
      /\ \A u \in Pid : status[u] = "RUNNING" <=> u = t
  BY RunningFacts DEF ForkAborts, IInv, Placement, RunsAlone
<1>2. Settled(status, NoThread)
  BY <1>1, UnchangedSettles DEF ForkAborts
<1>3. /\ machine' = "aborted" /\ machine # "halted"
      /\ UNCHANGED <<family, exits, where, pagesLeft, sleeping, joined>>
  BY <1>1 DEF ForkAborts
<1>4. TypeOK'
  BY <1>1, <1>2, <1>3, ThreadsAssumption DEF IInv, TypeOK, Statuses, Settled, Pid, family,
    exits, joined
<1>5. Placement'
  <2>1. ReadyOnce' /\ RunsAlone'
    BY <1>1, <1>2, <1>3 DEF IInv, TypeOK, Placement, ReadyOnce, RunsAlone, Settled, family,
      exits, joined
  <2>2. \A u \in sleeping' : status'[u] = "BLOCKED" /\ where'[u] \in {"user", "fork"}
    BY <1>1, <1>2, <1>3 DEF IInv, TypeOK, Placement, Settled, WaitsForOneThing, Alive,
      family, exits, joined
  <2>3. \A u \in Pid : status'[u] = "BLOCKED" /\ where'[u] \in {"user", "fork"}
                       => u \in sleeping'
    BY <1>1, <1>2, <1>3 DEF IInv, TypeOK, Placement, Settled, WaitsForOneThing, Alive,
      family, exits, joined
  <2>4. \A u \in Pid : (waitchild_id'[u] # NoThread)
                       <=> (status'[u] = "BLOCKED" /\ where'[u] = "join")
    BY <1>1, <1>2, <1>3 DEF IInv, TypeOK, Placement, Settled, WaitsForOneThing, Alive,
      family, exits, joined
  <2> QED BY <2>1, <2>2, <2>3, <2>4 DEF Placement, WaitsForOneThing
<1>6. OneCarcass'
  BY <1>1, <1>2, <1>3 DEF IInv, TypeOK, OneCarcass, Alive, Settled, family, exits, joined
<1>7. Alive'
  BY <1>1, <1>2, <1>3 DEF IInv, TypeOK, OneCarcass, Alive, Settled, Pid, family, exits,
    joined
<1>8. Joining'
  BY <1>1, <1>2, <1>3 DEF IInv, TypeOK, Joining, Created, family, exits, joined
<1>9. JoinNotLost'
  BY <1>1, <1>2, <1>3 DEF IInv, TypeOK, Joining, JoinNotLost, Placement, WaitsForOneThing,
    family, exits, joined
<1>10. JoinResult' /\ OnlyExitFinishes' /\ LastExitHalts'
  BY <1>1, <1>2, <1>3 DEF IInv, TypeOK, Joining, JoinResult, OnlyExitFinishes,
    LastExitHalts, Created, family, exits, joined
<1>11. Moves
  <2>1. destroyed \subseteq destroyed' /\ (destroyed' # destroyed => status'[currentThread'] = "RUNNING")
    BY <1>1, <1>2, <1>3 DEF IInv, TypeOK, Moves, Placement, WaitsForOneThing, Alive,
      JoinNotLost, Settled, family, exits, joined
  <2>2. \A u \in Pid : /\ where[u] = "dead" => where'[u] = "dead"
                       /\ where'[u] = "dead" => where[u] = "dead" \/ status[u] = "RUNNING"
    BY <1>1, <1>2, <1>3 DEF IInv, TypeOK, Moves, Placement, WaitsForOneThing, Alive,
      JoinNotLost, Settled, family, exits, joined
  <2>3. \A u \in Pid : status'[u] = "BLOCKED" => status[u] \in {"RUNNING", "BLOCKED"}
    BY <1>1, <1>2, <1>3 DEF IInv, TypeOK, Moves, Placement, WaitsForOneThing, Alive,
      JoinNotLost, Settled, family, exits, joined
  <2>4. \A u \in Pid : /\ status'[u] \in {"NONE", "JUST_CREATED"}
                            => status[u] \in {"NONE", "JUST_CREATED"}
                       /\ status[u] \in {"NONE", "JUST_CREATED"}
                            => status'[u] # "RUNNING"
    BY <1>1, <1>2, <1>3 DEF IInv, TypeOK, Moves, Placement, WaitsForOneThing, Alive,
      JoinNotLost, Settled, family, exits, joined
  <2>5. \A u \in Pid : waitchild_id[u] # NoThread /\ status'[u] # "BLOCKED" =>
                      waitchild_id[u] \in exitThreadArray' \ exitThreadArray
    BY <1>1, <1>2, <1>3 DEF IInv, TypeOK, Moves, Placement, WaitsForOneThing, Alive,
      JoinNotLost, Settled, family, exits, joined
  <2> QED BY <2>1, <2>2, <2>3, <2>4, <2>5 DEF Moves
<1> QED BY <1>4, <1>5, <1>6, <1>7, <1>8, <1>9, <1>10, <1>11 DEF IInv

(* JoinExited(t, c) keeps IInv and moves threads along their edges. *)
LEMMA JoinExitedKeeps ==
  ASSUME IInv, NEW t \in Pid, NEW c \in Pid, JoinExited(t, c)
  PROVE  IInv' /\ Moves
<1>1. /\ t = currentThread /\ status[t] = "RUNNING" /\ machine = "on"
      /\ threadToBeDestroyed = NoThread /\ where[t] # "dead" /\ t \notin sleeping
      /\ waitchild_id[t] = NoThread /\ t \in Created /\ t \notin exitThreadArray
      /\ \A u \in Pid : status[u] = "RUNNING" <=> u = t
  BY RunningFacts DEF JoinExited, IInv, Placement, RunsAlone
<1>2. Settled(status, NoThread)
  BY <1>1, UnchangedSettles DEF JoinExited
<1>3. /\ where[t] = "user" /\ c \in exitedChild
      /\ whichchild' = [whichchild EXCEPT ![t] = c]
      /\ result' = [result EXCEPT ![t] = childexitcode[c]]
      /\ returned' = returned \cup {t}
      /\ UNCHANGED <<family, exits, where, pagesLeft, sleeping, machine>>
  BY DEF JoinExited, Joins
<1>4. TypeOK'
  BY <1>1, <1>2, <1>3, ThreadsAssumption DEF IInv, TypeOK, Statuses, Settled, Pid, family,
    exits, joined
<1>5. Placement'
  <2>1. ReadyOnce' /\ RunsAlone'
    BY <1>1, <1>2, <1>3 DEF IInv, TypeOK, Placement, ReadyOnce, RunsAlone, Settled, family,
      exits, joined
  <2>2. \A u \in sleeping' : status'[u] = "BLOCKED" /\ where'[u] \in {"user", "fork"}
    BY <1>1, <1>2, <1>3 DEF IInv, TypeOK, Placement, Settled, WaitsForOneThing, Alive,
      family, exits, joined
  <2>3. \A u \in Pid : status'[u] = "BLOCKED" /\ where'[u] \in {"user", "fork"}
                       => u \in sleeping'
    BY <1>1, <1>2, <1>3 DEF IInv, TypeOK, Placement, Settled, WaitsForOneThing, Alive,
      family, exits, joined
  <2>4. \A u \in Pid : (waitchild_id'[u] # NoThread)
                       <=> (status'[u] = "BLOCKED" /\ where'[u] = "join")
    BY <1>1, <1>2, <1>3 DEF IInv, TypeOK, Placement, Settled, WaitsForOneThing, Alive,
      family, exits, joined
  <2> QED BY <2>1, <2>2, <2>3, <2>4 DEF Placement, WaitsForOneThing
<1>6. OneCarcass'
  BY <1>1, <1>2, <1>3 DEF IInv, TypeOK, OneCarcass, Alive, Settled, family, exits, joined
<1>7. Alive'
  BY <1>1, <1>2, <1>3 DEF IInv, TypeOK, OneCarcass, Alive, Settled, Pid, family, exits,
    joined
<1>8. Joining'
  BY <1>1, <1>2, <1>3 DEF IInv, TypeOK, Joining, Created, family, exits, joined
<1>9. JoinNotLost'
  BY <1>1, <1>2, <1>3 DEF IInv, TypeOK, Joining, JoinNotLost, Placement, WaitsForOneThing,
    family, exits, joined
<1>10. JoinResult' /\ OnlyExitFinishes' /\ LastExitHalts'
  BY <1>1, <1>2, <1>3 DEF IInv, TypeOK, Joining, JoinResult, OnlyExitFinishes,
    LastExitHalts, Created, family, exits, joined
<1>11. Moves
  <2>1. destroyed \subseteq destroyed' /\ (destroyed' # destroyed => status'[currentThread'] = "RUNNING")
    BY <1>1, <1>2, <1>3 DEF IInv, TypeOK, Moves, Placement, WaitsForOneThing, Alive,
      JoinNotLost, Settled, family, exits, joined
  <2>2. \A u \in Pid : /\ where[u] = "dead" => where'[u] = "dead"
                       /\ where'[u] = "dead" => where[u] = "dead" \/ status[u] = "RUNNING"
    BY <1>1, <1>2, <1>3 DEF IInv, TypeOK, Moves, Placement, WaitsForOneThing, Alive,
      JoinNotLost, Settled, family, exits, joined
  <2>3. \A u \in Pid : status'[u] = "BLOCKED" => status[u] \in {"RUNNING", "BLOCKED"}
    BY <1>1, <1>2, <1>3 DEF IInv, TypeOK, Moves, Placement, WaitsForOneThing, Alive,
      JoinNotLost, Settled, family, exits, joined
  <2>4. \A u \in Pid : /\ status'[u] \in {"NONE", "JUST_CREATED"}
                            => status[u] \in {"NONE", "JUST_CREATED"}
                       /\ status[u] \in {"NONE", "JUST_CREATED"}
                            => status'[u] # "RUNNING"
    BY <1>1, <1>2, <1>3 DEF IInv, TypeOK, Moves, Placement, WaitsForOneThing, Alive,
      JoinNotLost, Settled, family, exits, joined
  <2>5. \A u \in Pid : waitchild_id[u] # NoThread /\ status'[u] # "BLOCKED" =>
                      waitchild_id[u] \in exitThreadArray' \ exitThreadArray
    BY <1>1, <1>2, <1>3 DEF IInv, TypeOK, Moves, Placement, WaitsForOneThing, Alive,
      JoinNotLost, Settled, family, exits, joined
  <2> QED BY <2>1, <2>2, <2>3, <2>4, <2>5 DEF Moves
<1> QED BY <1>4, <1>5, <1>6, <1>7, <1>8, <1>9, <1>10, <1>11 DEF IInv

(* JoinReturns(t) keeps IInv and moves threads along their edges. *)
LEMMA JoinReturnsKeeps ==
  ASSUME IInv, NEW t \in Pid, JoinReturns(t)
  PROVE  IInv' /\ Moves
<1>1. /\ t = currentThread /\ status[t] = "RUNNING" /\ machine = "on"
      /\ threadToBeDestroyed = NoThread /\ where[t] # "dead" /\ t \notin sleeping
      /\ waitchild_id[t] = NoThread /\ t \in Created /\ t \notin exitThreadArray
      /\ \A u \in Pid : status[u] = "RUNNING" <=> u = t
  BY RunningFacts DEF JoinReturns, IInv, Placement, RunsAlone
<1>2. Settled(status, NoThread)
  BY <1>1, UnchangedSettles DEF JoinReturns
<1>3. /\ where[t] = "join" /\ whichchild[t] \in exitedChild
      /\ where' = [where EXCEPT ![t] = "user"]
      /\ whichchild' = [whichchild EXCEPT ![t] = whichchild[t]]
      /\ result' = [result EXCEPT ![t] = childexitcode[whichchild[t]]]
      /\ returned' = returned \cup {t}
      /\ UNCHANGED <<family, exits, pagesLeft, sleeping, machine>>
  BY <1>1 DEF JoinReturns, Joins, IInv, Joining
<1>4. TypeOK'
  BY <1>1, <1>2, <1>3, ThreadsAssumption DEF IInv, TypeOK, Statuses, Settled, Pid, family,
    exits, joined
<1>5. Placement'
  <2>1. ReadyOnce' /\ RunsAlone'
    BY <1>1, <1>2, <1>3 DEF IInv, TypeOK, Placement, ReadyOnce, RunsAlone, Settled, family,
      exits, joined
  <2>2. \A u \in sleeping' : status'[u] = "BLOCKED" /\ where'[u] \in {"user", "fork"}
    BY <1>1, <1>2, <1>3 DEF IInv, TypeOK, Placement, Settled, WaitsForOneThing, Alive,
      family, exits, joined
  <2>3. \A u \in Pid : status'[u] = "BLOCKED" /\ where'[u] \in {"user", "fork"}
                       => u \in sleeping'
    BY <1>1, <1>2, <1>3 DEF IInv, TypeOK, Placement, Settled, WaitsForOneThing, Alive,
      family, exits, joined
  <2>4. \A u \in Pid : (waitchild_id'[u] # NoThread)
                       <=> (status'[u] = "BLOCKED" /\ where'[u] = "join")
    BY <1>1, <1>2, <1>3 DEF IInv, TypeOK, Placement, Settled, WaitsForOneThing, Alive,
      family, exits, joined
  <2> QED BY <2>1, <2>2, <2>3, <2>4 DEF Placement, WaitsForOneThing
<1>6. OneCarcass'
  BY <1>1, <1>2, <1>3 DEF IInv, TypeOK, OneCarcass, Alive, Settled, family, exits, joined
<1>7. Alive'
  BY <1>1, <1>2, <1>3 DEF IInv, TypeOK, OneCarcass, Alive, Settled, Pid, family, exits,
    joined
<1>8. Joining'
  BY <1>1, <1>2, <1>3 DEF IInv, TypeOK, Joining, Created, family, exits, joined
<1>9. JoinNotLost'
  BY <1>1, <1>2, <1>3 DEF IInv, TypeOK, Joining, JoinNotLost, Placement, WaitsForOneThing,
    family, exits, joined
<1>10. JoinResult' /\ OnlyExitFinishes' /\ LastExitHalts'
  BY <1>1, <1>2, <1>3 DEF IInv, TypeOK, Joining, JoinResult, OnlyExitFinishes,
    LastExitHalts, Created, family, exits, joined
<1>11. Moves
  <2>1. destroyed \subseteq destroyed' /\ (destroyed' # destroyed => status'[currentThread'] = "RUNNING")
    BY <1>1, <1>2, <1>3 DEF IInv, TypeOK, Moves, Placement, WaitsForOneThing, Alive,
      JoinNotLost, Settled, family, exits, joined
  <2>2. \A u \in Pid : /\ where[u] = "dead" => where'[u] = "dead"
                       /\ where'[u] = "dead" => where[u] = "dead" \/ status[u] = "RUNNING"
    BY <1>1, <1>2, <1>3 DEF IInv, TypeOK, Moves, Placement, WaitsForOneThing, Alive,
      JoinNotLost, Settled, family, exits, joined
  <2>3. \A u \in Pid : status'[u] = "BLOCKED" => status[u] \in {"RUNNING", "BLOCKED"}
    BY <1>1, <1>2, <1>3 DEF IInv, TypeOK, Moves, Placement, WaitsForOneThing, Alive,
      JoinNotLost, Settled, family, exits, joined
  <2>4. \A u \in Pid : /\ status'[u] \in {"NONE", "JUST_CREATED"}
                            => status[u] \in {"NONE", "JUST_CREATED"}
                       /\ status[u] \in {"NONE", "JUST_CREATED"}
                            => status'[u] # "RUNNING"
    BY <1>1, <1>2, <1>3 DEF IInv, TypeOK, Moves, Placement, WaitsForOneThing, Alive,
      JoinNotLost, Settled, family, exits, joined
  <2>5. \A u \in Pid : waitchild_id[u] # NoThread /\ status'[u] # "BLOCKED" =>
                      waitchild_id[u] \in exitThreadArray' \ exitThreadArray
    BY <1>1, <1>2, <1>3 DEF IInv, TypeOK, Moves, Placement, WaitsForOneThing, Alive,
      JoinNotLost, Settled, family, exits, joined
  <2> QED BY <2>1, <2>2, <2>3, <2>4, <2>5 DEF Moves
<1> QED BY <1>4, <1>5, <1>6, <1>7, <1>8, <1>9, <1>10, <1>11 DEF IInv

(* StartProcess keeps IInv and moves threads along their edges. *)
LEMMA StartProcessKeeps ==
  ASSUME IInv, NEW t \in Pid, t = MainThread, StartProcess
  PROVE  IInv' /\ Moves
<1>1. /\ t = currentThread /\ status[t] = "RUNNING" /\ machine = "on"
      /\ threadToBeDestroyed = NoThread /\ where[t] # "dead" /\ t \notin sleeping
      /\ waitchild_id[t] = NoThread /\ t \in Created /\ t \notin exitThreadArray
      /\ \A u \in Pid : status[u] = "RUNNING" <=> u = t
  BY RunningFacts DEF StartProcess, IInv, Placement, RunsAlone
<1>2. Settled(status, NoThread)
  BY <1>1, UnchangedSettles DEF StartProcess
<1>3. /\ where' = [where EXCEPT ![t] = "user"] /\ where[t] = "boot"
      /\ UNCHANGED <<family, exits, pagesLeft, sleeping, joined, machine>>
  BY DEF StartProcess
<1>4. TypeOK'
  BY <1>1, <1>2, <1>3, ThreadsAssumption DEF IInv, TypeOK, Statuses, Settled, Pid, family,
    exits, joined
<1>5. Placement'
  <2>1. ReadyOnce' /\ RunsAlone'
    BY <1>1, <1>2, <1>3 DEF IInv, TypeOK, Placement, ReadyOnce, RunsAlone, Settled, family,
      exits, joined
  <2>2. \A u \in sleeping' : status'[u] = "BLOCKED" /\ where'[u] \in {"user", "fork"}
    BY <1>1, <1>2, <1>3 DEF IInv, TypeOK, Placement, Settled, WaitsForOneThing, Alive,
      family, exits, joined
  <2>3. \A u \in Pid : status'[u] = "BLOCKED" /\ where'[u] \in {"user", "fork"}
                       => u \in sleeping'
    BY <1>1, <1>2, <1>3 DEF IInv, TypeOK, Placement, Settled, WaitsForOneThing, Alive,
      family, exits, joined
  <2>4. \A u \in Pid : (waitchild_id'[u] # NoThread)
                       <=> (status'[u] = "BLOCKED" /\ where'[u] = "join")
    BY <1>1, <1>2, <1>3 DEF IInv, TypeOK, Placement, Settled, WaitsForOneThing, Alive,
      family, exits, joined
  <2> QED BY <2>1, <2>2, <2>3, <2>4 DEF Placement, WaitsForOneThing
<1>6. OneCarcass'
  BY <1>1, <1>2, <1>3 DEF IInv, TypeOK, OneCarcass, Alive, Settled, family, exits, joined
<1>7. Alive'
  BY <1>1, <1>2, <1>3 DEF IInv, TypeOK, OneCarcass, Alive, Settled, Pid, family, exits,
    joined
<1>8. Joining'
  BY <1>1, <1>2, <1>3 DEF IInv, TypeOK, Joining, Created, family, exits, joined
<1>9. JoinNotLost'
  BY <1>1, <1>2, <1>3 DEF IInv, TypeOK, Joining, JoinNotLost, Placement, WaitsForOneThing,
    family, exits, joined
<1>10. JoinResult' /\ OnlyExitFinishes' /\ LastExitHalts'
  BY <1>1, <1>2, <1>3 DEF IInv, TypeOK, Joining, JoinResult, OnlyExitFinishes,
    LastExitHalts, Created, family, exits, joined
<1>11. Moves
  <2>1. destroyed \subseteq destroyed' /\ (destroyed' # destroyed => status'[currentThread'] = "RUNNING")
    BY <1>1, <1>2, <1>3 DEF IInv, TypeOK, Moves, Placement, WaitsForOneThing, Alive,
      JoinNotLost, Settled, family, exits, joined
  <2>2. \A u \in Pid : /\ where[u] = "dead" => where'[u] = "dead"
                       /\ where'[u] = "dead" => where[u] = "dead" \/ status[u] = "RUNNING"
    BY <1>1, <1>2, <1>3 DEF IInv, TypeOK, Moves, Placement, WaitsForOneThing, Alive,
      JoinNotLost, Settled, family, exits, joined
  <2>3. \A u \in Pid : status'[u] = "BLOCKED" => status[u] \in {"RUNNING", "BLOCKED"}
    BY <1>1, <1>2, <1>3 DEF IInv, TypeOK, Moves, Placement, WaitsForOneThing, Alive,
      JoinNotLost, Settled, family, exits, joined
  <2>4. \A u \in Pid : /\ status'[u] \in {"NONE", "JUST_CREATED"}
                            => status[u] \in {"NONE", "JUST_CREATED"}
                       /\ status[u] \in {"NONE", "JUST_CREATED"}
                            => status'[u] # "RUNNING"
    BY <1>1, <1>2, <1>3 DEF IInv, TypeOK, Moves, Placement, WaitsForOneThing, Alive,
      JoinNotLost, Settled, family, exits, joined
  <2>5. \A u \in Pid : waitchild_id[u] # NoThread /\ status'[u] # "BLOCKED" =>
                      waitchild_id[u] \in exitThreadArray' \ exitThreadArray
    BY <1>1, <1>2, <1>3 DEF IInv, TypeOK, Moves, Placement, WaitsForOneThing, Alive,
      JoinNotLost, Settled, family, exits, joined
  <2> QED BY <2>1, <2>2, <2>3, <2>4, <2>5 DEF Moves
<1> QED BY <1>4, <1>5, <1>6, <1>7, <1>8, <1>9, <1>10, <1>11 DEF IInv

(* FinishThread keeps IInv and moves threads along their edges. *)
LEMMA FinishThreadKeeps ==
  ASSUME IInv, NEW t \in Pid, t = MainThread, FinishThread
  PROVE  IInv' /\ Moves
<1>1. /\ t = currentThread /\ status[t] = "RUNNING" /\ machine = "on"
      /\ threadToBeDestroyed = NoThread /\ where[t] # "dead" /\ t \notin sleeping
      /\ waitchild_id[t] = NoThread /\ t \in Created /\ t \notin exitThreadArray
      /\ \A u \in Pid : status[u] = "RUNNING" <=> u = t
  BY RunningFacts DEF FinishThread, IInv, Placement, RunsAlone
<1>2. /\ MissingExecutable /\ where[t] = "boot"
      /\ where' = [where EXCEPT ![t] = "dead"]
      /\ SwitchOrIdle(readyList, [status EXCEPT ![t] = "BLOCKED"], t)
      /\ machine' = IF thread_index = 1 THEN "halted" ELSE machine
      /\ UNCHANGED <<family, exits, pagesLeft, sleeping, joined>>
  BY DEF FinishThread
<1>3. Settled([status EXCEPT ![t] = "BLOCKED"], t)
  <2>1. /\ [status EXCEPT ![t] = "BLOCKED"] \in [Pid -> Statuses]
        /\ Holds(readyList, [status EXCEPT ![t] = "BLOCKED"])
    BY <1>1, QueueOK DEF Statuses, Holds
  <2> QED BY <1>1, <1>2, <2>1, QueueOK, SwitchSettles
<1>4. t # NoThread
  BY PidFinite, ThreadsAssumption
<1>5. TypeOK'
  BY <1>1, <1>2, <1>3, <1>4, ThreadsAssumption DEF IInv, TypeOK, Statuses, Settled, Pid,
    family, exits, joined
<1>6. Placement'
  <2>1. ReadyOnce' /\ RunsAlone'
    BY <1>1, <1>2, <1>3, <1>4 DEF IInv, TypeOK, Placement, ReadyOnce, RunsAlone, Settled,
      family, exits, joined
  <2>2. \A u \in sleeping' : status'[u] = "BLOCKED" /\ where'[u] \in {"user", "fork"}
    BY <1>1, <1>2, <1>3, <1>4 DEF IInv, TypeOK, Placement, Settled, WaitsForOneThing,
      Alive, family, exits, joined
  <2>3. \A u \in Pid : status'[u] = "BLOCKED" /\ where'[u] \in {"user", "fork"}
                       => u \in sleeping'
    BY <1>1, <1>2, <1>3, <1>4 DEF IInv, TypeOK, Placement, Settled, WaitsForOneThing,
      Alive, family, exits, joined
  <2>4. \A u \in Pid : (waitchild_id'[u] # NoThread)
                       <=> (status'[u] = "BLOCKED" /\ where'[u] = "join")
    BY <1>1, <1>2, <1>3, <1>4 DEF IInv, TypeOK, Placement, Settled, WaitsForOneThing,
      Alive, family, exits, joined
  <2> QED BY <2>1, <2>2, <2>3, <2>4 DEF Placement, WaitsForOneThing
<1>7. OneCarcass'
  BY <1>1, <1>2, <1>3, <1>4 DEF IInv, TypeOK, OneCarcass, Alive, Settled, family, exits,
    joined
<1>8. Alive'
  BY <1>1, <1>2, <1>3, <1>4 DEF IInv, TypeOK, OneCarcass, Alive, Settled, Pid, family,
    exits, joined
<1>9. Joining'
  BY <1>1, <1>2, <1>3, <1>4 DEF IInv, TypeOK, Joining, Created, family, exits, joined
<1>10. JoinNotLost'
  BY <1>1, <1>2, <1>3, <1>4 DEF IInv, TypeOK, Joining, JoinNotLost, Placement,
    WaitsForOneThing, family, exits, joined
<1>11. JoinResult' /\ OnlyExitFinishes' /\ LastExitHalts'
  BY <1>1, <1>2, <1>3, <1>4 DEF IInv, TypeOK, Joining, JoinResult, OnlyExitFinishes,
    LastExitHalts, Created, family, exits, joined
<1>12. Moves
  <2>1. destroyed \subseteq destroyed' /\ (destroyed' # destroyed => status'[currentThread'] = "RUNNING")
    BY <1>1, <1>2, <1>3, <1>4 DEF IInv, TypeOK, Moves, Placement, WaitsForOneThing, Alive,
      JoinNotLost, Settled, family, exits, joined
  <2>2. \A u \in Pid : /\ where[u] = "dead" => where'[u] = "dead"
                       /\ where'[u] = "dead" => where[u] = "dead" \/ status[u] = "RUNNING"
    BY <1>1, <1>2, <1>3, <1>4 DEF IInv, TypeOK, Moves, Placement, WaitsForOneThing, Alive,
      JoinNotLost, Settled, family, exits, joined
  <2>3. \A u \in Pid : status'[u] = "BLOCKED" => status[u] \in {"RUNNING", "BLOCKED"}
    BY <1>1, <1>2, <1>3, <1>4 DEF IInv, TypeOK, Moves, Placement, WaitsForOneThing, Alive,
      JoinNotLost, Settled, family, exits, joined
  <2>4. \A u \in Pid : /\ status'[u] \in {"NONE", "JUST_CREATED"}
                            => status[u] \in {"NONE", "JUST_CREATED"}
                       /\ status[u] \in {"NONE", "JUST_CREATED"}
                            => status'[u] # "RUNNING"
    BY <1>1, <1>2, <1>3, <1>4 DEF IInv, TypeOK, Moves, Placement, WaitsForOneThing, Alive,
      JoinNotLost, Settled, family, exits, joined
  <2>5. \A u \in Pid : waitchild_id[u] # NoThread /\ status'[u] # "BLOCKED" =>
                      waitchild_id[u] \in exitThreadArray' \ exitThreadArray
    BY <1>1, <1>2, <1>3, <1>4 DEF IInv, TypeOK, Moves, Placement, WaitsForOneThing, Alive,
      JoinNotLost, Settled, family, exits, joined
  <2> QED BY <2>1, <2>2, <2>3, <2>4, <2>5 DEF Moves
<1> QED BY <1>5, <1>6, <1>7, <1>8, <1>9, <1>10, <1>11, <1>12 DEF IInv

(* The constructor of NachOSThread finds a free entry: nothing refers to the  *)
(* new thread yet.                                                          *)
LEMMA NewThreadFacts ==
  ASSUME IInv, NEW t \in Pid, Running(t), NewThread(t)
  PROVE  /\ thread_index \in Pid /\ status[thread_index] = "NONE" /\ thread_index # t
         /\ thread_index \notin Created /\ thread_index \notin exitThreadArray
         /\ thread_index \notin exitedChild
         /\ where[thread_index] = "user" /\ thread_index \notin sleeping
         /\ thread_index' = thread_index + 1 /\ thread_index' \in 1 .. MaxThreads - 1
         /\ ppid' = [ppid EXCEPT ![thread_index] = t]
         /\ childcount' = [childcount EXCEPT ![t] = @ + 1]
         /\ childcount' \in [Pid -> 0 .. MaxChildren - 1]
         /\ \A u \in Pid : (u >= thread_index') <=> (u >= thread_index /\ u # thread_index)
         /\ Created' = Created \cup {thread_index}
         /\ \A u \in Pid : waitchild_id[u] # thread_index
         /\ \A u \in Pid : where[u] = "join" => whichchild[u] # thread_index
         /\ \A u \in returned : whichchild[u] # thread_index
<1>1. /\ thread_index \in Nat /\ thread_index + 1 < MaxThreads /\ MaxThreads \in Nat
      /\ childcount[t] + 1 < MaxChildren /\ childcount \in [Pid -> 0 .. MaxChildren - 1]
      /\ thread_index >= 1 /\ MaxChildren \in Nat
  BY ThreadsAssumption DEF NewThread, TablesFull, IInv, TypeOK
<1>2. thread_index \in Pid /\ status[thread_index] = "NONE" /\ thread_index \notin Created
  BY <1>1 DEF Pid, Created, IInv, Alive
<1>3. thread_index # t
  BY <1>2, RunningFacts
<1>4. /\ where[thread_index] = "user" /\ thread_index \notin exitThreadArray
      /\ thread_index \notin exitedChild /\ thread_index \notin sleeping
  BY <1>2 DEF IInv, Alive, Joining, Placement, WaitsForOneThing
<1>5. /\ thread_index' = thread_index + 1 /\ thread_index' \in 1 .. MaxThreads - 1
      /\ ppid' = [ppid EXCEPT ![thread_index] = t]
      /\ childcount' = [childcount EXCEPT ![t] = @ + 1]
  BY <1>1 DEF NewThread
<1>6. childcount' \in [Pid -> 0 .. MaxChildren - 1]
  BY <1>1, <1>5
<1>7. /\ \A u \in Pid : (u >= thread_index') <=> (u >= thread_index /\ u # thread_index)
      /\ Created' = Created \cup {thread_index}
  BY <1>1, <1>5 DEF Created, Pid
<1>8. \A u \in Pid : where[u] = "join" => whichchild[u] # thread_index
  BY <1>2 DEF IInv, Joining
<1>9. \A u \in Pid : waitchild_id[u] # thread_index
  <2>1. thread_index # NoThread
    BY <1>1 DEF NoThread
  <2> QED BY <1>8, <2>1 DEF IInv, Placement, WaitsForOneThing, JoinNotLost
<1>10. \A u \in returned : whichchild[u] # thread_index
  BY <1>4 DEF IInv, JoinResult
<1> QED BY <1>1, <1>2, <1>3, <1>4, <1>5, <1>6, <1>7, <1>8, <1>9, <1>10

(* BatchFork keeps IInv and moves threads along their edges. *)
LEMMA BatchForkKeeps ==
  ASSUME IInv, NEW t \in Pid, t = MainThread, BatchFork
  PROVE  IInv' /\ Moves
<1>1. /\ t = currentThread /\ status[t] = "RUNNING" /\ machine = "on"
      /\ threadToBeDestroyed = NoThread /\ where[t] # "dead" /\ t \notin sleeping
      /\ waitchild_id[t] = NoThread /\ t \in Created /\ t \notin exitThreadArray
      /\ \A u \in Pid : status[u] = "RUNNING" <=> u = t
  BY RunningFacts DEF BatchFork, IInv, Placement, RunsAlone
<1>2. /\ thread_index \in Pid /\ status[thread_index] = "NONE" /\ thread_index # t
      /\ thread_index \notin Created /\ thread_index \notin exitThreadArray
      /\ thread_index \notin exitedChild
      /\ where[thread_index] = "user" /\ thread_index \notin sleeping
      /\ thread_index' \in 1 .. MaxThreads - 1
      /\ ppid' = [ppid EXCEPT ![thread_index] = t]
      /\ childcount' \in [Pid -> 0 .. MaxChildren - 1]
      /\ \A u \in Pid : (u >= thread_index') <=> (u >= thread_index /\ u # thread_index)
      /\ Created' = Created \cup {thread_index}
      /\ \A u \in Pid : waitchild_id[u] # thread_index
      /\ \A u \in Pid : where[u] = "join" => whichchild[u] # thread_index
      /\ \A u \in returned : whichchild[u] # thread_index
  BY NewThreadFacts DEF BatchFork
<1>3. Settled([status EXCEPT ![thread_index] = "READY"], NoThread)
  BY <1>1, <1>2, ScheduleSettles DEF BatchFork
<1>4. /\ UNCHANGED <<exits, where, pagesLeft, sleeping, joined, machine, destroyed>>
      /\ status'[thread_index] = "READY"
  BY <1>2, QueueOK DEF BatchFork, ScheduleChild
<1>5. \A u \in Pid : (status'[u] = "BLOCKED") <=> (status[u] = "BLOCKED")
  BY <1>2, <1>3, QueueOK DEF Settled
<1>6. TypeOK'
  BY <1>1, <1>2, <1>3, <1>4, <1>5, ThreadsAssumption DEF IInv, TypeOK, Statuses, Settled,
    Pid, family, exits, joined
<1>7. Placement'
  <2>1. ReadyOnce' /\ RunsAlone'
    BY <1>1, <1>2, <1>3, <1>4, <1>5 DEF IInv, TypeOK, Placement, ReadyOnce, RunsAlone,
      Settled, family, exits, joined
  <2>2. \A u \in sleeping' : status'[u] = "BLOCKED" /\ where'[u] \in {"user", "fork"}
    BY <1>4, <1>5 DEF IInv, TypeOK, Placement, WaitsForOneThing, family, exits, joined
  <2>3. \A u \in Pid : status'[u] = "BLOCKED" /\ where'[u] \in {"user", "fork"}
                       => u \in sleeping'
    BY <1>4, <1>5 DEF IInv, TypeOK, Placement, WaitsForOneThing, family, exits, joined
  <2>4. \A u \in Pid : (waitchild_id'[u] # NoThread)
                       <=> (status'[u] = "BLOCKED" /\ where'[u] = "join")
    BY <1>4, <1>5 DEF IInv, TypeOK, Placement, WaitsForOneThing, family, exits, joined
  <2> QED BY <2>1, <2>2, <2>3, <2>4 DEF Placement, WaitsForOneThing
<1>8. OneCarcass'
  BY <1>1, <1>3, <1>4 DEF IInv, TypeOK, OneCarcass, Alive, Settled, family, exits, joined
<1>9. Alive'
  BY <1>1, <1>2, <1>3, <1>4, <1>5 DEF IInv, TypeOK, OneCarcass, Alive, Settled, Pid,
    family, exits, joined
<1>10. Joining'
  <2>1. \A c \in exitThreadArray : ppid'[c] = ppid[c]
    BY <1>2 DEF IInv, TypeOK
  <2>2. \A u \in Pid : where[u] = "join" => /\ whichchild[u] \in Created /\ ppid[whichchild[u]] = u
                                        /\ ppid'[whichchild[u]] = ppid[whichchild[u]]
    BY <1>2 DEF IInv, TypeOK, Joining, Created
  <2> QED BY <1>2, <1>4, <2>1, <2>2 DEF IInv, Joining, exits, joined
<1>11. JoinNotLost'
  BY <1>1, <1>2, <1>3, <1>4, <1>5 DEF IInv, TypeOK, Joining, JoinNotLost, Placement,
    WaitsForOneThing, family, exits, joined
<1>12. JoinResult' /\ OnlyExitFinishes' /\ LastExitHalts'
  BY <1>1, <1>2, <1>3, <1>4, <1>5 DEF IInv, TypeOK, Joining, JoinResult, OnlyExitFinishes,
    LastExitHalts, Created, family, exits, joined
<1>13. Moves
  <2>1. status' = [status EXCEPT ![thread_index] = "READY"] /\ status \in [Pid -> Statuses]
    BY QueueOK DEF BatchFork, ScheduleChild
  <2>2. /\ \A u \in Pid : (status'[u] = "BLOCKED") <=> (status[u] = "BLOCKED")
        /\ \A u \in Pid : status'[u] \in {"NONE", "JUST_CREATED"}
                           => status[u] \in {"NONE", "JUST_CREATED"}
        /\ \A u \in Pid : status[u] \in {"NONE", "JUST_CREATED"} => status'[u] # "RUNNING"
    BY <1>2, <2>1
  <2> QED BY <1>1, <1>4, <2>2 DEF IInv, TypeOK, Moves, Placement, WaitsForOneThing, exits
<1> QED BY <1>6, <1>7, <1>8, <1>9, <1>10, <1>11, <1>12, <1>13 DEF IInv

(* A fork with nothing to copy keeps IInv and moves threads along their edges. *)
LEMMA ForkSchedules ==
  ASSUME IInv, NEW t \in Pid, UNCHANGED pagesLeft, UNCHANGED where,
         ScheduleChild(thread_index), Fork(t)
  PROVE  IInv' /\ Moves
<1>1. /\ t = currentThread /\ status[t] = "RUNNING" /\ machine = "on"
      /\ threadToBeDestroyed = NoThread /\ where[t] # "dead" /\ t \notin sleeping
      /\ waitchild_id[t] = NoThread /\ t \in Created /\ t \notin exitThreadArray
      /\ \A u \in Pid : status[u] = "RUNNING" <=> u = t
  BY RunningFacts DEF Fork, IInv, Placement, RunsAlone
<1>2. /\ thread_index \in Pid /\ status[thread_index] = "NONE" /\ thread_index # t
      /\ thread_index \notin Created /\ thread_index \notin exitThreadArray
      /\ thread_index \notin exitedChild
      /\ where[thread_index] = "user" /\ thread_index \notin sleeping
      /\ thread_index' \in 1 .. MaxThreads - 1
      /\ ppid' = [ppid EXCEPT ![thread_index] = t]
      /\ childcount' \in [Pid -> 0 .. MaxChildren - 1]
      /\ \A u \in Pid : (u >= thread_index') <=> (u >= thread_index /\ u # thread_index)
      /\ Created' = Created \cup {thread_index}
      /\ \A u \in Pid : waitchild_id[u] # thread_index
      /\ \A u \in Pid : where[u] = "join" => whichchild[u] # thread_index
      /\ \A u \in returned : whichchild[u] # thread_index
  BY NewThreadFacts DEF Fork
<1>3. Settled([status EXCEPT ![thread_index] = "READY"], NoThread)
  BY <1>1, <1>2, ScheduleSettles DEF Fork
<1>4. /\ UNCHANGED <<exits, where, pagesLeft, sleeping, joined, machine, destroyed>>
      /\ status'[thread_index] = "READY"
  BY <1>2, QueueOK DEF Fork, ScheduleChild
<1>5. \A u \in Pid : (status'[u] = "BLOCKED") <=> (status[u] = "BLOCKED")
  BY <1>2, <1>3, QueueOK DEF Settled
<1>6. TypeOK'
  BY <1>1, <1>2, <1>3, <1>4, <1>5, ThreadsAssumption DEF IInv, TypeOK, Statuses, Settled,
    Pid, family, exits, joined
<1>7. Placement'
  <2>1. ReadyOnce' /\ RunsAlone'
    BY <1>1, <1>2, <1>3, <1>4, <1>5 DEF IInv, TypeOK, Placement, ReadyOnce, RunsAlone,
      Settled, family, exits, joined
  <2>2. \A u \in sleeping' : status'[u] = "BLOCKED" /\ where'[u] \in {"user", "fork"}
    BY <1>4, <1>5 DEF IInv, TypeOK, Placement, WaitsForOneThing, family, exits, joined
  <2>3. \A u \in Pid : status'[u] = "BLOCKED" /\ where'[u] \in {"user", "fork"}
                       => u \in sleeping'
    BY <1>4, <1>5 DEF IInv, TypeOK, Placement, WaitsForOneThing, family, exits, joined
  <2>4. \A u \in Pid : (waitchild_id'[u] # NoThread)
                       <=> (status'[u] = "BLOCKED" /\ where'[u] = "join")
    BY <1>4, <1>5 DEF IInv, TypeOK, Placement, WaitsForOneThing, family, exits, joined
  <2> QED BY <2>1, <2>2, <2>3, <2>4 DEF Placement, WaitsForOneThing
<1>8. OneCarcass'
  BY <1>1, <1>3, <1>4 DEF IInv, TypeOK, OneCarcass, Alive, Settled, family, exits, joined
<1>9. Alive'
  BY <1>1, <1>2, <1>3, <1>4, <1>5 DEF IInv, TypeOK, OneCarcass, Alive, Settled, Pid,
    family, exits, joined
<1>10. Joining'
  <2>1. \A c \in exitThreadArray : ppid'[c] = ppid[c]
    BY <1>2 DEF IInv, TypeOK
  <2>2. \A u \in Pid : where[u] = "join" => /\ whichchild[u] \in Created /\ ppid[whichchild[u]] = u
                                        /\ ppid'[whichchild[u]] = ppid[whichchild[u]]
    BY <1>2 DEF IInv, TypeOK, Joining, Created
  <2> QED BY <1>2, <1>4, <2>1, <2>2 DEF IInv, Joining, exits, joined
<1>11. JoinNotLost'
  BY <1>1, <1>2, <1>3, <1>4, <1>5 DEF IInv, TypeOK, Joining, JoinNotLost, Placement,
    WaitsForOneThing, family, exits, joined
<1>12. JoinResult' /\ OnlyExitFinishes' /\ LastExitHalts'
  BY <1>1, <1>2, <1>3, <1>4, <1>5 DEF IInv, TypeOK, Joining, JoinResult, OnlyExitFinishes,
    LastExitHalts, Created, family, exits, joined
<1>13. Moves
  <2>1. status' = [status EXCEPT ![thread_index] = "READY"] /\ status \in [Pid -> Statuses]
    BY QueueOK DEF ScheduleChild
  <2>2. /\ \A u \in Pid : (status'[u] = "BLOCKED") <=> (status[u] = "BLOCKED")
        /\ \A u \in Pid : status'[u] \in {"NONE", "JUST_CREATED"}
                           => status[u] \in {"NONE", "JUST_CREATED"}
        /\ \A u \in Pid : status[u] \in {"NONE", "JUST_CREATED"} => status'[u] # "RUNNING"
    BY <1>2, <2>1
  <2> QED BY <1>1, <1>4, <2>2 DEF IInv, TypeOK, Moves, Placement, WaitsForOneThing, exits
<1> QED BY <1>6, <1>7, <1>8, <1>9, <1>10, <1>11, <1>12, <1>13 DEF IInv

(* A fork that sleeps for a page keeps IInv and moves threads along their edges. *)
LEMMA ForkSleeps ==
  ASSUME IInv, NEW t \in Pid, NEW pages \in 1 .. MaxPages,
         pagesLeft' = [pagesLeft EXCEPT ![t] = pages],
         CopyNextPage(t, [status EXCEPT ![thread_index] = "JUST_CREATED"]), Fork(t)
  PROVE  IInv' /\ Moves
<1>1. /\ t = currentThread /\ status[t] = "RUNNING" /\ machine = "on"
      /\ threadToBeDestroyed = NoThread /\ where[t] # "dead" /\ t \notin sleeping
      /\ waitchild_id[t] = NoThread /\ t \in Created /\ t \notin exitThreadArray
      /\ \A u \in Pid : status[u] = "RUNNING" <=> u = t
  BY RunningFacts DEF Fork, IInv, Placement, RunsAlone
<1>2. /\ thread_index \in Pid /\ status[thread_index] = "NONE" /\ thread_index # t
      /\ thread_index \notin Created /\ thread_index \notin exitThreadArray
      /\ thread_index \notin exitedChild
      /\ where[thread_index] = "user" /\ thread_index \notin sleeping
      /\ thread_index' \in 1 .. MaxThreads - 1
      /\ ppid' = [ppid EXCEPT ![thread_index] = t]
      /\ childcount' \in [Pid -> 0 .. MaxChildren - 1]
      /\ \A u \in Pid : (u >= thread_index') <=> (u >= thread_index /\ u # thread_index)
      /\ Created' = Created \cup {thread_index}
      /\ \A u \in Pid : waitchild_id[u] # thread_index
      /\ \A u \in Pid : where[u] = "join" => whichchild[u] # thread_index
      /\ \A u \in returned : whichchild[u] # thread_index
  BY NewThreadFacts DEF Fork
<1>3. Settled([[status EXCEPT ![thread_index] = "JUST_CREATED"] EXCEPT ![t] = "BLOCKED"],
              NoThread)
  <2> DEFINE st == [status EXCEPT ![thread_index] = "JUST_CREATED"]
  <2>1. st \in [Pid -> Statuses] /\ Holds(readyList, st)
    BY <1>2, QueueOK DEF Statuses, Holds
  <2>2. \A u \in Pid : st[u] = "RUNNING" <=> u = t
    BY <1>1, <1>2, QueueOK
  <2>3. PutThreadToSleep(readyList, st)
    BY DEF CopyNextPage
  <2> QED BY <2>1, <2>2, <2>3, SleepSettles DEF Fork
<1>4. /\ where' = [where EXCEPT ![t] = "fork"] /\ sleeping' = sleeping \cup {t}
      /\ pagesLeft' \in [Pid -> 0 .. MaxPages]
      /\ UNCHANGED <<exits, joined, machine>> /\ where[t] = "user"
  BY ThreadsAssumption DEF Fork, CopyNextPage, IInv, TypeOK
<1>5. /\ status' \in [Pid -> Statuses] /\ currentThread' \in Pid /\ readyList' \in Seq(Pid)
      /\ ReadyOnce' /\ RunsAlone'
      /\ \A u \in Pid : (status'[u] = "BLOCKED") <=> (u = t \/ status[u] = "BLOCKED")
      /\ \A u \in Pid : (status'[u] = "NONE") <=> (u # thread_index /\ status[u] = "NONE")
      /\ \A u \in Pid : (status'[u] = "JUST_CREATED") <=>
                        (u = thread_index \/ status[u] = "JUST_CREATED")
      /\ threadToBeDestroyed' = NoThread /\ destroyed' = destroyed
      /\ currentThread' = t \/ status'[currentThread'] = "RUNNING"
  BY SMTT(30), ZenonT(30), <1>1, <1>2, <1>3, QueueOK DEF Settled
<1>6. /\ \A u \in Pid : (where'[u] = "join") <=> (where[u] = "join")
      /\ \A u \in Pid : (where'[u] = "dead") <=> (where[u] = "dead")
      /\ \A u \in Pid : (where'[u] \in {"user", "fork"}) <=> (where[u] \in {"user", "fork"})
      /\ \A u \in Pid : u # t => where'[u] = where[u]
      /\ where' \in [Pid -> {"boot", "user", "fork", "join", "synch", "dead"}]
  BY <1>4 DEF IInv, TypeOK
<1>7. /\ sleeping' = sleeping \cup {t}
      /\ UNCHANGED <<waitchild_id, exitThreadArray, exitedChild, childexitcode, exitcode,
                     whichchild, result, returned, machine>>
  BY <1>4 DEF exits, joined
<1>8. TypeOK'
  BY <1>2, <1>4, <1>5, ThreadsAssumption DEF IInv, TypeOK, Statuses, Settled, Pid, family,
    exits, joined
<1>9. Placement'
  <2>1. WaitsForOneThing'
    <3>1. ASSUME NEW u \in sleeping'
          PROVE  status'[u] = "BLOCKED" /\ where'[u] \in {"user", "fork"}
      BY <1>1, <1>4, <1>5, <1>6, <1>7 DEF IInv, TypeOK, Placement, WaitsForOneThing
    <3>2. ASSUME NEW u \in Pid, status'[u] = "BLOCKED", where'[u] \in {"user", "fork"}
          PROVE  u \in sleeping'
      BY <1>1, <1>5, <1>6, <1>7, <3>2 DEF IInv, Placement, WaitsForOneThing
    <3>3. ASSUME NEW u \in Pid
          PROVE  waitchild_id'[u] # NoThread <=> status'[u] = "BLOCKED" /\ where'[u] = "join"
      <4>1. waitchild_id[u] # NoThread <=> status[u] = "BLOCKED" /\ where[u] = "join"
        BY DEF IInv, Placement, WaitsForOneThing
      <4> QED BY <1>1, <1>4, <1>5, <1>6, <1>7, <4>1
    <3> QED BY <3>1, <3>2, <3>3 DEF WaitsForOneThing
  <2> QED BY <1>5, <2>1 DEF Placement
<1>10. OneCarcass'
  <2>1. {u \in Pid : where'[u] = "dead"} = {u \in Pid : where[u] = "dead"}
    BY <1>6
  <2> QED BY <1>1, <1>5, <2>1, PidFinite, ThreadsAssumption DEF IInv, OneCarcass
<1>11. Alive'
  BY <1>1, <1>2, <1>5, <1>6 DEF IInv, TypeOK, OneCarcass, Alive, Settled, Pid, family,
    exits, joined
<1>12. Joining'
  <2>1. /\ (exitedChild \subseteq exitThreadArray)'
        /\ (\A c \in exitedChild : childexitcode[c] = exitcode[c])'
    BY <1>7 DEF IInv, Joining
  <2>2. (\A c \in exitThreadArray : where[c] = "dead")'
    BY <1>6, <1>7 DEF IInv, Joining, TypeOK
  <2>3. ASSUME NEW c \in exitThreadArray
        PROVE  c \in exitedChild \/ ppid'[c] \in exitThreadArray \cup {NoThread}
    <3>1. c # thread_index /\ c \in Pid /\ ppid'[c] = ppid[c]
      BY <1>2 DEF IInv, TypeOK
    <3> QED BY <3>1 DEF IInv, Joining
  <2>4. ASSUME NEW u \in Pid, where'[u] = "join"
        PROVE  /\ whichchild[u] \in Created' /\ ppid'[whichchild[u]] = u
               /\ u \notin returned
               /\ waitchild_id[u] = NoThread => whichchild[u] \in exitedChild
    <3>1. /\ where[u] = "join" /\ whichchild[u] \in Created /\ ppid[whichchild[u]] = u
          /\ u \notin returned
          /\ waitchild_id[u] = NoThread => whichchild[u] \in exitedChild
      BY <1>6, <2>4 DEF IInv, Joining
    <3>2. ppid'[whichchild[u]] = ppid[whichchild[u]]
      <4>1. whichchild[u] \in Pid /\ whichchild[u] # thread_index
        BY <1>2, <3>1, ThreadsAssumption DEF Pid, Created, IInv, TypeOK
      <4> QED BY <1>2, <4>1 DEF IInv, TypeOK
    <3> QED BY <1>2, <3>1, <3>2
  <2> QED BY <1>7, <2>1, <2>2, <2>3, <2>4 DEF Joining
<1>13. JoinNotLost'
  BY <1>2, <1>7 DEF IInv, TypeOK, Joining, JoinNotLost, Placement, WaitsForOneThing,
    family, exits, joined
<1>14. JoinResult' /\ OnlyExitFinishes' /\ LastExitHalts'
  BY <1>2, <1>6, <1>7 DEF IInv, TypeOK, Joining, JoinResult, OnlyExitFinishes,
    LastExitHalts, Created, family, exits, joined
<1>15. Moves
  <2>1. destroyed \subseteq destroyed' /\ (destroyed' # destroyed => status'[currentThread'] = "RUNNING")
    BY <1>1, <1>2, <1>3, <1>4, <1>5, <1>6, <1>7 DEF IInv, TypeOK, Moves, Placement,
      WaitsForOneThing, Alive, JoinNotLost, Settled, family, exits, joined
  <2>2. \A u \in Pid : /\ where[u] = "dead" => where'[u] = "dead"
                       /\ where'[u] = "dead" => where[u] = "dead" \/ status[u] = "RUNNING"
    BY <1>1, <1>2, <1>3, <1>4, <1>5, <1>6, <1>7 DEF IInv, TypeOK, Moves, Placement,
      WaitsForOneThing, Alive, JoinNotLost, Settled, family, exits, joined
  <2>3. \A u \in Pid : status'[u] = "BLOCKED" => status[u] \in {"RUNNING", "BLOCKED"}
    BY <1>1, <1>2, <1>3, <1>4, <1>5, <1>6, <1>7 DEF IInv, TypeOK, Moves, Placement,
      WaitsForOneThing, Alive, JoinNotLost, Settled, family, exits, joined
  <2>4. \A u \in Pid : /\ status'[u] \in {"NONE", "JUST_CREATED"}
                            => status[u] \in {"NONE", "JUST_CREATED"}
                       /\ status[u] \in {"NONE", "JUST_CREATED"}
                            => status'[u] # "RUNNING"
    BY <1>2, <1>5 DEF IInv, TypeOK
  <2>5. \A u \in Pid : waitchild_id[u] # NoThread /\ status'[u] # "BLOCKED" =>
                      waitchild_id[u] \in exitThreadArray' \ exitThreadArray
    BY <1>1, <1>2, <1>3, <1>4, <1>5, <1>6, <1>7 DEF IInv, TypeOK, Moves, Placement,
      WaitsForOneThing, Alive, JoinNotLost, Settled, family, exits, joined
  <2> QED BY <2>1, <2>2, <2>3, <2>4, <2>5 DEF Moves
<1> QED BY <1>8, <1>9, <1>10, <1>11, <1>12, <1>13, <1>14, <1>15 DEF IInv

(* A fork with more pages to copy keeps IInv and moves threads along their edges. *)
LEMMA ForkCopies ==
  ASSUME IInv, NEW t \in Pid, pagesLeft[t] > 1, CopyNextPage(t, status), ForkResumes(t)
  PROVE  IInv' /\ Moves
<1>1. /\ t = currentThread /\ status[t] = "RUNNING" /\ machine = "on"
      /\ threadToBeDestroyed = NoThread /\ where[t] # "dead" /\ t \notin sleeping
      /\ waitchild_id[t] = NoThread /\ t \in Created /\ t \notin exitThreadArray
      /\ \A u \in Pid : status[u] = "RUNNING" <=> u = t
  BY RunningFacts DEF ForkResumes, IInv, Placement, RunsAlone
<1>2. Settled([status EXCEPT ![t] = "BLOCKED"], NoThread)
  BY <1>1, QueueOK, SleepSettles DEF ForkResumes, CopyNextPage
<1>3. /\ where[t] = "fork" /\ sleeping' = sleeping \cup {t}
      /\ where' = [where EXCEPT ![t] = "fork"]
      /\ pagesLeft' \in [Pid -> 0 .. MaxPages]
      /\ UNCHANGED <<family, exits, joined, machine>>
  BY ThreadsAssumption DEF ForkResumes, CopyNextPage, IInv, TypeOK
<1>4. TypeOK'
  BY <1>1, <1>2, <1>3, ThreadsAssumption DEF IInv, TypeOK, Statuses, Settled, Pid, family,
    exits, joined
<1>5. Placement'
  <2>1. ReadyOnce' /\ RunsAlone'
    BY <1>1, <1>2, <1>3 DEF IInv, TypeOK, Placement, ReadyOnce, RunsAlone, Settled, family,
      exits, joined
  <2>2. \A u \in sleeping' : status'[u] = "BLOCKED" /\ where'[u] \in {"user", "fork"}
    BY <1>1, <1>2, <1>3 DEF IInv, TypeOK, Placement, Settled, WaitsForOneThing, Alive,
      family, exits, joined
  <2>3. \A u \in Pid : status'[u] = "BLOCKED" /\ where'[u] \in {"user", "fork"}
                       => u \in sleeping'
    BY <1>1, <1>2, <1>3 DEF IInv, TypeOK, Placement, Settled, WaitsForOneThing, Alive,
      family, exits, joined
  <2>4. \A u \in Pid : (waitchild_id'[u] # NoThread)
                       <=> (status'[u] = "BLOCKED" /\ where'[u] = "join")
    BY <1>1, <1>2, <1>3 DEF IInv, TypeOK, Placement, Settled, WaitsForOneThing, Alive,
      family, exits, joined
  <2> QED BY <2>1, <2>2, <2>3, <2>4 DEF Placement, WaitsForOneThing
<1>6. OneCarcass'
  BY <1>1, <1>2, <1>3 DEF IInv, TypeOK, OneCarcass, Alive, Settled, family, exits, joined
<1>7. Alive'
  BY <1>1, <1>2, <1>3 DEF IInv, TypeOK, OneCarcass, Alive, Settled, Pid, family, exits,
    joined
<1>8. Joining'
  BY <1>1, <1>2, <1>3 DEF IInv, TypeOK, Joining, Created, family, exits, joined
<1>9. JoinNotLost'
  BY <1>1, <1>2, <1>3 DEF IInv, TypeOK, Joining, JoinNotLost, Placement, WaitsForOneThing,
    family, exits, joined
<1>10. JoinResult' /\ OnlyExitFinishes' /\ LastExitHalts'
  BY <1>1, <1>2, <1>3 DEF IInv, TypeOK, Joining, JoinResult, OnlyExitFinishes,
    LastExitHalts, Created, family, exits, joined
<1>11. Moves
  <2>1. destroyed \subseteq destroyed' /\ (destroyed' # destroyed => status'[currentThread'] = "RUNNING")
    BY <1>1, <1>2, <1>3 DEF IInv, TypeOK, Moves, Placement, WaitsForOneThing, Alive,
      JoinNotLost, Settled, family, exits, joined
  <2>2. \A u \in Pid : /\ where[u] = "dead" => where'[u] = "dead"
                       /\ where'[u] = "dead" => where[u] = "dead" \/ status[u] = "RUNNING"
    BY <1>1, <1>2, <1>3 DEF IInv, TypeOK, Moves, Placement, WaitsForOneThing, Alive,
      JoinNotLost, Settled, family, exits, joined
  <2>3. \A u \in Pid : status'[u] = "BLOCKED" => status[u] \in {"RUNNING", "BLOCKED"}
    BY <1>1, <1>2, <1>3 DEF IInv, TypeOK, Moves, Placement, WaitsForOneThing, Alive,
      JoinNotLost, Settled, family, exits, joined
  <2>4. \A u \in Pid : /\ status'[u] \in {"NONE", "JUST_CREATED"}
                            => status[u] \in {"NONE", "JUST_CREATED"}
                       /\ status[u] \in {"NONE", "JUST_CREATED"}
                            => status'[u] # "RUNNING"
    BY <1>1, <1>2, <1>3 DEF IInv, TypeOK, Moves, Placement, WaitsForOneThing, Alive,
      JoinNotLost, Settled, family, exits, joined
  <2>5. \A u \in Pid : waitchild_id[u] # NoThread /\ status'[u] # "BLOCKED" =>
                      waitchild_id[u] \in exitThreadArray' \ exitThreadArray
    BY <1>1, <1>2, <1>3 DEF IInv, TypeOK, Moves, Placement, WaitsForOneThing, Alive,
      JoinNotLost, Settled, family, exits, joined
  <2> QED BY <2>1, <2>2, <2>3, <2>4, <2>5 DEF Moves
<1> QED BY <1>4, <1>5, <1>6, <1>7, <1>8, <1>9, <1>10, <1>11 DEF IInv

(* The end of a fork keeps IInv and moves threads along their edges. *)
LEMMA ForkEnded ==
  ASSUME IInv, NEW t \in Pid, NEW c \in Pid, pagesLeft[t] = 1,
         status[c] = "JUST_CREATED", ScheduleChild(c),
         where' = [where EXCEPT ![t] = "user"], ForkResumes(t)
  PROVE  IInv' /\ Moves
<1>1. /\ t = currentThread /\ status[t] = "RUNNING" /\ machine = "on"
      /\ threadToBeDestroyed = NoThread /\ where[t] # "dead" /\ t \notin sleeping
      /\ waitchild_id[t] = NoThread /\ t \in Created /\ t \notin exitThreadArray
      /\ \A u \in Pid : status[u] = "RUNNING" <=> u = t
  BY RunningFacts DEF ForkResumes, IInv, Placement, RunsAlone
<1>2. Settled([status EXCEPT ![c] = "READY"], NoThread)
  BY <1>1, ScheduleSettles
<1>3. /\ where[t] = "fork" /\ status[c] = "JUST_CREATED"
      /\ where' = [where EXCEPT ![t] = "user"]
      /\ pagesLeft' \in [Pid -> 0 .. MaxPages]
      /\ UNCHANGED <<family, exits, sleeping, joined, machine, destroyed>>
      /\ status'[c] = "READY"
  <2>1. status'[c] = "READY"
    BY QueueOK DEF ScheduleChild
  <2>2. pagesLeft' \in [Pid -> 0 .. MaxPages]
    BY ThreadsAssumption DEF ForkResumes, IInv, TypeOK
  <2> QED BY <2>1, <2>2 DEF ForkResumes, ScheduleChild
<1>4. TypeOK'
  BY SMTT(30), ZenonT(30), <1>2, <1>3, ThreadsAssumption DEF IInv, TypeOK, Statuses, Settled, Pid, family, exits,
    joined
<1>5. Placement'
  <2>1. ReadyOnce' /\ RunsAlone'
    BY <1>1, <1>2, <1>3 DEF IInv, TypeOK, Placement, ReadyOnce, RunsAlone, Settled, family,
      exits, joined
  <2>2. \A u \in sleeping' : status'[u] = "BLOCKED" /\ where'[u] \in {"user", "fork"}
    BY <1>1, <1>2, <1>3 DEF IInv, TypeOK, Placement, Settled, WaitsForOneThing, Alive,
      family, exits, joined
  <2>3. \A u \in Pid : status'[u] = "BLOCKED" /\ where'[u] \in {"user", "fork"}
                       => u \in sleeping'
    BY <1>1, <1>2, <1>3 DEF IInv, TypeOK, Placement, Settled, WaitsForOneThing, Alive,
      family, exits, joined
  <2>4. \A u \in Pid : (waitchild_id'[u] # NoThread)
                       <=> (status'[u] = "BLOCKED" /\ where'[u] = "join")
    BY <1>1, <1>2, <1>3 DEF IInv, TypeOK, Placement, Settled, WaitsForOneThing, Alive,
      family, exits, joined
  <2> QED BY <2>1, <2>2, <2>3, <2>4 DEF Placement, WaitsForOneThing
<1>6. OneCarcass'
  BY <1>1, <1>2, <1>3 DEF IInv, TypeOK, OneCarcass, Alive, Settled, family, exits, joined
<1>7. Alive'
  BY <1>1, <1>2, <1>3 DEF IInv, TypeOK, OneCarcass, Alive, Settled, Pid, family, exits,
    joined
<1>8. Joining'
  BY <1>1, <1>2, <1>3 DEF IInv, TypeOK, Joining, Created, family, exits, joined
<1>9. JoinNotLost'
  BY <1>1, <1>2, <1>3 DEF IInv, TypeOK, Joining, JoinNotLost, Placement, WaitsForOneThing,
    family, exits, joined
<1>10. JoinResult' /\ OnlyExitFinishes' /\ LastExitHalts'
  BY <1>1, <1>2, <1>3 DEF IInv, TypeOK, Joining, JoinResult, OnlyExitFinishes,
    LastExitHalts, Created, family, exits, joined
<1>11. Moves
  <2>1. status' = [status EXCEPT ![c] = "READY"] /\ status \in [Pid -> Statuses]
    BY QueueOK DEF ScheduleChild
  <2>2. /\ \A u \in Pid : (status'[u] = "BLOCKED") <=> (status[u] = "BLOCKED")
        /\ \A u \in Pid : status'[u] \in {"NONE", "JUST_CREATED"}
                           => status[u] \in {"NONE", "JUST_CREATED"}
        /\ \A u \in Pid : status[u] \in {"NONE", "JUST_CREATED"} => status'[u] # "RUNNING"
    BY <1>2, <2>1, <1>3
  <2> QED BY <1>1, <1>3, <2>2 DEF IInv, TypeOK, Moves, Placement, WaitsForOneThing, exits
<1> QED BY <1>4, <1>5, <1>6, <1>7, <1>8, <1>9, <1>10, <1>11 DEF IInv

(* TimerInterrupt(w, yield) keeps IInv and moves threads along their edges. *)
LEMMA TimerInterruptKeeps ==
  ASSUME IInv, NEW w \in Wakeups, NEW yield \in BOOLEAN, NEW t \in Pid,
         t = currentThread, TimerInterrupt(w, yield)
  PROVE  IInv' /\ Moves
<1>1. /\ t = currentThread /\ status[t] = "RUNNING" /\ machine = "on"
      /\ threadToBeDestroyed = NoThread /\ where[t] # "dead" /\ t \notin sleeping
      /\ waitchild_id[t] = NoThread /\ t \in Created /\ t \notin exitThreadArray
      /\ \A u \in Pid : status[u] = "RUNNING" <=> u = t
  BY RunningFacts DEF Running, TimerInterrupt, IInv, Placement, RunsAlone
<1>2. /\ Holds(readyList \o w, Awaken(status, w)) /\ Awaken(status, w) \in [Pid -> Statuses]
      /\ ToSet(w) \subseteq sleeping \cup InSynch /\ w \in Seq(Pid)
      /\ \A u \in Pid : Awaken(status, w)[u] = IF u \in ToSet(w) THEN "READY" ELSE status[u]
      /\ \A u \in Pid : (Awaken(status, w)[u] = "RUNNING") <=> (status[u] = "RUNNING")
      /\ \A u \in Pid : (Awaken(status, w)[u] = "NONE") <=> (status[u] = "NONE")
      /\ \A u \in Pid :
           (Awaken(status, w)[u] = "JUST_CREATED") <=> (status[u] = "JUST_CREATED")
      /\ \A u \in Pid : (Awaken(status, w)[u] = "BLOCKED")
                           <=> (status[u] = "BLOCKED" /\ u \notin ToSet(w))
  <2>1. /\ sleeping \cup InSynch \in SUBSET Pid
        /\ \A u \in sleeping \cup InSynch : status[u] = "BLOCKED"
        /\ w \in SetToAllKPermutations(sleeping \cup InSynch)
    BY DEF InSynch, Wakeups, IInv, TypeOK, Placement, WaitsForOneThing
  <2> QED BY <2>1, WakeHolds
<1>3. \A u \in ToSet(w) : /\ u \in Pid /\ status[u] = "BLOCKED"
                          /\ u \in sleeping \/ where[u] = "synch"
                          /\ where[u] \in {"user", "fork", "synch"}
  BY <1>2 DEF InSynch, IInv, TypeOK, Placement, WaitsForOneThing
<1>4. Settled(Awaken(status, w), NoThread)
  <2>1. \A u \in Pid : Awaken(status, w)[u] = "RUNNING" <=> u = t
    BY <1>1, <1>2, <1>3
  <2>2. CASE YieldCPU(readyList \o w, Awaken(status, w))
    BY <1>1, <1>2, <2>1, <2>2, YieldSettles
  <2>3. CASE /\ readyList' = readyList \o w /\ status' = Awaken(status, w)
             /\ UNCHANGED <<currentThread, threadToBeDestroyed, destroyed>>
    BY <1>1, <1>2, <2>1, <2>3 DEF Settled, Holds, ReadyOnce, RunsAlone
  <2> QED BY <2>2, <2>3 DEF TimerInterrupt
<1>5. /\ sleeping' = sleeping \ ToSet(w)
      /\ UNCHANGED <<family, exits, where, pagesLeft, joined, machine>>
  BY DEF TimerInterrupt
<1>6. /\ \A u \in Pid : (status'[u] = "NONE") <=> (status[u] = "NONE")
      /\ \A u \in Pid : (status'[u] = "JUST_CREATED") <=> (status[u] = "JUST_CREATED")
      /\ \A u \in Pid :
           (status'[u] = "BLOCKED") <=> (status[u] = "BLOCKED" /\ u \notin ToSet(w))
  BY <1>2, <1>4 DEF Settled
<1>7. \A u \in Pid : where[u] = "dead" => status'[u] = "BLOCKED"
  BY <1>3, <1>6 DEF IInv, Alive
<1>8. TypeOK'
  BY <1>1, <1>2, <1>3, <1>4, <1>5, <1>6, <1>7, ThreadsAssumption DEF IInv, TypeOK,
    Statuses, Settled, Pid, family, exits, joined
<1>9. Placement'
  <2>1. ReadyOnce' /\ RunsAlone'
    BY <1>1, <1>2, <1>3, <1>4, <1>5, <1>6, <1>7 DEF IInv, TypeOK, Placement, ReadyOnce,
      RunsAlone, Settled, family, exits, joined
  <2>2. \A u \in sleeping' : status'[u] = "BLOCKED" /\ where'[u] \in {"user", "fork"}
    BY <1>3, <1>5, <1>6 DEF IInv, TypeOK, Placement, WaitsForOneThing, family, exits, joined
  <2>3. \A u \in Pid : status'[u] = "BLOCKED" /\ where'[u] \in {"user", "fork"}
                       => u \in sleeping'
    BY <1>3, <1>5, <1>6 DEF IInv, TypeOK, Placement, WaitsForOneThing, family, exits, joined
  <2>4. \A u \in Pid : (waitchild_id'[u] # NoThread)
                       <=> (status'[u] = "BLOCKED" /\ where'[u] = "join")
    BY <1>3, <1>5, <1>6 DEF IInv, TypeOK, Placement, WaitsForOneThing, family, exits, joined
  <2> QED BY <2>1, <2>2, <2>3, <2>4 DEF Placement, WaitsForOneThing
<1>10. OneCarcass'
  BY <1>1, <1>2, <1>3, <1>4, <1>5, <1>6, <1>7 DEF IInv, TypeOK, OneCarcass, Alive, Settled,
    family, exits, joined
<1>11. Alive'
  BY <1>1, <1>2, <1>3, <1>4, <1>5, <1>6, <1>7 DEF IInv, TypeOK, OneCarcass, Alive, Settled,
    Pid, family, exits, joined
<1>12. Joining'
  BY <1>1, <1>2, <1>3, <1>4, <1>5, <1>6, <1>7 DEF IInv, TypeOK, Joining, Created, family,
    exits, joined
<1>13. JoinNotLost'
  BY <1>1, <1>2, <1>3, <1>4, <1>5, <1>6, <1>7 DEF IInv, TypeOK, Joining, JoinNotLost,
    Placement, WaitsForOneThing, family, exits, joined
<1>14. JoinResult' /\ OnlyExitFinishes' /\ LastExitHalts'
  BY <1>1, <1>2, <1>3, <1>4, <1>5, <1>6, <1>7 DEF IInv, TypeOK, Joining, JoinResult,
    OnlyExitFinishes, LastExitHalts, Created, family, exits, joined
<1>15. Moves
  <2>1. destroyed \subseteq destroyed' /\ (destroyed' # destroyed => status'[currentThread'] = "RUNNING")
    BY <1>1, <1>2, <1>3, <1>4, <1>5, <1>6, <1>7 DEF IInv, TypeOK, Moves, Placement,
      WaitsForOneThing, Alive, JoinNotLost, Settled, family, exits, joined
  <2>2. \A u \in Pid : /\ where[u] = "dead" => where'[u] = "dead"
                       /\ where'[u] = "dead" => where[u] = "dead" \/ status[u] = "RUNNING"
    BY <1>1, <1>2, <1>3, <1>4, <1>5, <1>6, <1>7 DEF IInv, TypeOK, Moves, Placement,
      WaitsForOneThing, Alive, JoinNotLost, Settled, family, exits, joined
  <2>3. \A u \in Pid : status'[u] = "BLOCKED" => status[u] \in {"RUNNING", "BLOCKED"}
    BY <1>1, <1>2, <1>3, <1>4, <1>5, <1>6, <1>7 DEF IInv, TypeOK, Moves, Placement,
      WaitsForOneThing, Alive, JoinNotLost, Settled, family, exits, joined
  <2>4. \A u \in Pid : /\ status'[u] \in {"NONE", "JUST_CREATED"}
                            => status[u] \in {"NONE", "JUST_CREATED"}
                       /\ status[u] \in {"NONE", "JUST_CREATED"}
                            => status'[u] # "RUNNING"
    BY <1>1, <1>2, <1>3, <1>4, <1>5, <1>6, <1>7 DEF IInv, TypeOK, Moves, Placement,
      WaitsForOneThing, Alive, JoinNotLost, Settled, family, exits, joined
  <2>5. \A u \in Pid : waitchild_id[u] # NoThread /\ status'[u] # "BLOCKED" =>
                      waitchild_id[u] \in exitThreadArray' \ exitThreadArray
    BY <1>3, <1>5, <1>6 DEF IInv, TypeOK, Placement, WaitsForOneThing, exits
  <2> QED BY <2>1, <2>2, <2>3, <2>4, <2>5 DEF Moves
<1> QED BY <1>8, <1>9, <1>10, <1>11, <1>12, <1>13, <1>14, <1>15 DEF IInv

(* IdleInterrupt(w) keeps IInv and moves threads along their edges. *)
LEMMA IdleInterruptKeeps ==
  ASSUME IInv, NEW w \in Wakeups, IdleInterrupt(w)
  PROVE  IInv' /\ Moves
<1>1. /\ status[currentThread] = "BLOCKED" /\ readyList = <<>> /\ currentThread \in Pid
      /\ \A u \in Pid : status[u] # "RUNNING"
      /\ threadToBeDestroyed \in Pid \cup {NoThread}
  BY DEF IdleInterrupt, Idle, IInv, TypeOK, Placement, RunsAlone
<1>2. /\ Holds(readyList \o w, Awaken(status, w)) /\ Awaken(status, w) \in [Pid -> Statuses]
      /\ ToSet(w) \subseteq sleeping \cup InSynch /\ w \in Seq(Pid)
      /\ \A u \in Pid : Awaken(status, w)[u] = IF u \in ToSet(w) THEN "READY" ELSE status[u]
      /\ \A u \in Pid : (Awaken(status, w)[u] = "RUNNING") <=> (status[u] = "RUNNING")
      /\ \A u \in Pid : (Awaken(status, w)[u] = "NONE") <=> (status[u] = "NONE")
      /\ \A u \in Pid :
           (Awaken(status, w)[u] = "JUST_CREATED") <=> (status[u] = "JUST_CREATED")
      /\ \A u \in Pid : (Awaken(status, w)[u] = "BLOCKED")
                           <=> (status[u] = "BLOCKED" /\ u \notin ToSet(w))
  <2>1. /\ sleeping \cup InSynch \in SUBSET Pid
        /\ \A u \in sleeping \cup InSynch : status[u] = "BLOCKED"
        /\ w \in SetToAllKPermutations(sleeping \cup InSynch)
    BY DEF InSynch, Wakeups, IInv, TypeOK, Placement, WaitsForOneThing
  <2> QED BY <2>1, WakeHolds
<1>3. \A u \in ToSet(w) : /\ u \in Pid /\ status[u] = "BLOCKED"
                          /\ u \in sleeping \/ where[u] = "synch"
                          /\ where[u] \in {"user", "fork", "synch"}
  BY <1>2 DEF InSynch, IInv, TypeOK, Placement, WaitsForOneThing
<1>4. Settled(Awaken(status, w), threadToBeDestroyed)
  <2>1. Holds(w, Awaken(status, w))
    <3>1. readyList \o w = w
      BY <1>1, <1>2
    <3> QED BY <1>2, <3>1
  <2>2. /\ \A u \in Pid : Awaken(status, w)[u] # "RUNNING"
        /\ Awaken(status, w)[currentThread] \in {"BLOCKED", "READY"}
    BY <1>1, <1>2
  <2> QED BY <1>1, <1>2, <2>1, <2>2, SwitchSettles DEF IdleInterrupt
<1>5. /\ sleeping' = sleeping \ ToSet(w)
      /\ UNCHANGED <<family, exits, where, pagesLeft, joined, machine>>
  BY DEF IdleInterrupt
<1>6. /\ \A u \in Pid : (status'[u] = "NONE") <=> (status[u] = "NONE")
      /\ \A u \in Pid : (status'[u] = "JUST_CREATED") <=> (status[u] = "JUST_CREATED")
      /\ \A u \in Pid :
           (status'[u] = "BLOCKED") <=> (status[u] = "BLOCKED" /\ u \notin ToSet(w))
  BY <1>2, <1>4 DEF Settled
<1>7. \A u \in Pid : where[u] = "dead" => status'[u] = "BLOCKED"
  BY <1>3, <1>6 DEF IInv, Alive
<1>8. /\ status' \in [Pid -> Statuses] /\ currentThread' \in Pid /\ readyList' \in Seq(Pid)
      /\ ReadyOnce' /\ RunsAlone'
      /\ \/ /\ threadToBeDestroyed' = threadToBeDestroyed /\ destroyed' = destroyed
            /\ currentThread' = currentThread
         \/ /\ threadToBeDestroyed' = NoThread
            /\ destroyed' = destroyed \cup ({threadToBeDestroyed} \ {NoThread})
            /\ status'[currentThread'] = "RUNNING"
  BY <1>4 DEF Settled
<1>9. TypeOK'
  BY <1>1, <1>5, <1>8, ThreadsAssumption DEF IInv, TypeOK, Statuses, Settled, Pid, family,
    exits, joined
<1>10. Placement'
  <2>1. ReadyOnce' /\ RunsAlone'
    BY <1>3, <1>5, <1>6, <1>8 DEF IInv, TypeOK, Placement, ReadyOnce, RunsAlone, Settled,
      family, exits, joined
  <2>2. \A u \in sleeping' : status'[u] = "BLOCKED" /\ where'[u] \in {"user", "fork"}
    BY <1>3, <1>5, <1>6, <1>8 DEF IInv, TypeOK, Placement, Settled, WaitsForOneThing,
      Alive, family, exits, joined
  <2>3. \A u \in Pid : status'[u] = "BLOCKED" /\ where'[u] \in {"user", "fork"}
                       => u \in sleeping'
    BY <1>3, <1>5, <1>6, <1>8 DEF IInv, TypeOK, Placement, Settled, WaitsForOneThing,
      Alive, family, exits, joined
  <2>4. \A u \in Pid : (waitchild_id'[u] # NoThread)
                       <=> (status'[u] = "BLOCKED" /\ where'[u] = "join")
    BY <1>3, <1>5, <1>6, <1>8 DEF IInv, TypeOK, Placement, Settled, WaitsForOneThing,
      Alive, family, exits, joined
  <2> QED BY <2>1, <2>2, <2>3, <2>4 DEF Placement, WaitsForOneThing
<1>11. OneCarcass'
  <2>1. /\ where' = where /\ NoThread \notin Pid
        /\ {u \in Pid : where[u] = "dead"}
              = destroyed \cup ({threadToBeDestroyed} \ {NoThread})
        /\ threadToBeDestroyed \notin destroyed
        /\ threadToBeDestroyed # NoThread =>
             currentThread = threadToBeDestroyed /\ status'[currentThread] = "BLOCKED"
    BY <1>1, <1>5, <1>7, PidFinite, ThreadsAssumption DEF IInv, OneCarcass
  <2>2. NoThread \notin destroyed
    BY <2>1 DEF IInv, TypeOK
  <2>3. CASE /\ threadToBeDestroyed' = threadToBeDestroyed /\ destroyed' = destroyed
             /\ currentThread' = currentThread
    BY <2>1, <2>3 DEF OneCarcass
  <2>4. CASE /\ threadToBeDestroyed' = NoThread
             /\ destroyed' = destroyed \cup ({threadToBeDestroyed} \ {NoThread})
    BY <2>1, <2>2, <2>4 DEF OneCarcass
  <2> QED BY <1>8, <2>3, <2>4
<1>12. Alive'
  BY <1>3, <1>5, <1>6, <1>7, <1>8 DEF IInv, TypeOK, OneCarcass, Alive, Settled, Pid,
    family, exits, joined
<1>13. Joining'
  BY <1>1, <1>2, <1>3, <1>4, <1>5, <1>6, <1>7, <1>8 DEF IInv, TypeOK, Joining, Created,
    family, exits, joined
<1>14. JoinNotLost'
  BY <1>1, <1>2, <1>3, <1>4, <1>5, <1>6, <1>7, <1>8 DEF IInv, TypeOK, Joining, JoinNotLost,
    Placement, WaitsForOneThing, family, exits, joined
<1>15. JoinResult' /\ OnlyExitFinishes' /\ LastExitHalts'
  BY <1>1, <1>2, <1>3, <1>4, <1>5, <1>6, <1>7, <1>8 DEF IInv, TypeOK, Joining, JoinResult,
    OnlyExitFinishes, LastExitHalts, Created, family, exits, joined
<1>16. Moves
  <2>1. destroyed \subseteq destroyed' /\ (destroyed' # destroyed => status'[currentThread'] = "RUNNING")
    BY <1>1, <1>2, <1>3, <1>4, <1>5, <1>6, <1>7, <1>8 DEF IInv, TypeOK, Moves, Placement,
      WaitsForOneThing, Alive, JoinNotLost, Settled, family, exits, joined
  <2>2. \A u \in Pid : /\ where[u] = "dead" => where'[u] = "dead"
                       /\ where'[u] = "dead" => where[u] = "dead" \/ status[u] = "RUNNING"
    BY <1>1, <1>2, <1>3, <1>4, <1>5, <1>6, <1>7, <1>8 DEF IInv, TypeOK, Moves, Placement,
      WaitsForOneThing, Alive, JoinNotLost, Settled, family, exits, joined
  <2>3. \A u \in Pid : status'[u] = "BLOCKED" => status[u] \in {"RUNNING", "BLOCKED"}
    BY <1>1, <1>2, <1>3, <1>4, <1>5, <1>6, <1>7, <1>8 DEF IInv, TypeOK, Moves, Placement,
      WaitsForOneThing, Alive, JoinNotLost, Settled, family, exits, joined
  <2>4. \A u \in Pid : /\ status'[u] \in {"NONE", "JUST_CREATED"}
                            => status[u] \in {"NONE", "JUST_CREATED"}
                       /\ status[u] \in {"NONE", "JUST_CREATED"}
                            => status'[u] # "RUNNING"
    BY <1>1, <1>2, <1>3, <1>4, <1>5, <1>6, <1>7, <1>8 DEF IInv, TypeOK, Moves, Placement,
      WaitsForOneThing, Alive, JoinNotLost, Settled, family, exits, joined
  <2>5. \A u \in Pid : waitchild_id[u] # NoThread /\ status'[u] # "BLOCKED" =>
                      waitchild_id[u] \in exitThreadArray' \ exitThreadArray
    BY <1>3, <1>5, <1>6 DEF IInv, TypeOK, Placement, WaitsForOneThing, exits
  <2> QED BY <2>1, <2>2, <2>3, <2>4, <2>5 DEF Moves
<1> QED BY <1>9, <1>10, <1>11, <1>12, <1>13, <1>14, <1>15, <1>16 DEF IInv

(* An exit that wakes nobody keeps IInv and moves threads along their edges. *)
LEMMA ExitAlone ==
  ASSUME IInv, NEW t \in Pid, NEW code \in ExitCodes,
         ~WakesParent(t, ppid[t] # NoThread /\ ppid[t] \notin Marked(t)), Exit(t, code)
  PROVE  IInv' /\ Moves
<1>1. /\ t = currentThread /\ status[t] = "RUNNING" /\ machine = "on"
      /\ threadToBeDestroyed = NoThread /\ where[t] # "dead" /\ t \notin sleeping
      /\ waitchild_id[t] = NoThread /\ t \in Created /\ t \notin exitThreadArray
      /\ \A u \in Pid : status[u] = "RUNNING" <=> u = t
  BY RunningFacts DEF Exit, IInv, Placement, RunsAlone
<1>2. /\ where[t] \in {"user", "boot"} /\ t # NoThread /\ NoThread \notin Pid
      /\ exitThreadArray' = exitThreadArray \cup {t}
      /\ exitcode' = [exitcode EXCEPT ![t] = code]
      /\ where' = [where EXCEPT ![t] = "dead"]
      /\ UNCHANGED <<family, pagesLeft, sleeping, joined>>
  BY PidFinite, ThreadsAssumption DEF Exit, Marked
<1>3. /\ exitedChild' = IF ppid[t] # NoThread /\ ppid[t] \notin exitThreadArray \cup {t}
                         THEN exitedChild \cup {t} ELSE exitedChild
      /\ childexitcode' = IF ppid[t] # NoThread /\ ppid[t] \notin exitThreadArray \cup {t}
                          THEN [childexitcode EXCEPT ![t] = code] ELSE childexitcode
      /\ waitchild_id' = waitchild_id
      /\ SwitchOrIdle(readyList, [status EXCEPT ![t] = "BLOCKED"], t)
      /\ machine' = IF readyList = <<>> /\ Created \subseteq exitThreadArray'
                    THEN "halted" ELSE machine
  BY DEF Exit, SetChildExitCode, WakesParent, Marked, AllExited
<1>4. Settled([status EXCEPT ![t] = "BLOCKED"], t)
  <2>1. /\ [status EXCEPT ![t] = "BLOCKED"] \in [Pid -> Statuses]
        /\ Holds(readyList, [status EXCEPT ![t] = "BLOCKED"])
    BY <1>1, QueueOK DEF Statuses, Holds
  <2> QED BY <1>1, <1>3, <2>1, QueueOK, SwitchSettles
<1>5. /\ status' \in [Pid -> Statuses] /\ currentThread' \in Pid /\ readyList' \in Seq(Pid)
      /\ ReadyOnce' /\ RunsAlone'
      /\ \/ /\ threadToBeDestroyed' = t /\ destroyed' = destroyed /\ currentThread' = t
         \/ /\ threadToBeDestroyed' = NoThread /\ destroyed' = destroyed \cup {t}
            /\ status'[currentThread'] = "RUNNING"
      /\ \A u \in Pid : (status'[u] = "BLOCKED") <=> (status[u] = "BLOCKED" \/ u = t)
      /\ \A u \in Pid : (status'[u] = "NONE") <=> (status[u] = "NONE")
      /\ \A u \in Pid : (status'[u] = "JUST_CREATED") <=> (status[u] = "JUST_CREATED")
  BY <1>1, <1>2, <1>4, QueueOK DEF Settled
<1>6. /\ \A u \in Pid : (where'[u] = "dead") <=> (where[u] = "dead" \/ u = t)
      /\ \A u \in Pid : u # t => where'[u] = where[u]
      /\ where' \in [Pid -> {"boot", "user", "fork", "join", "synch", "dead"}]
      /\ \A u \in Pid : (where'[u] = "join") <=> (where[u] = "join")
  BY <1>2 DEF IInv, TypeOK
<1>7. \A u \in Pid : waitchild_id[u] # t
  <2>1. SUFFICES ASSUME NEW u \in Pid, waitchild_id[u] = t PROVE FALSE
    OBVIOUS
  <2>2. u = ppid[t] /\ status[u] = "BLOCKED" /\ where[u] = "join"
    BY <1>2, <2>1 DEF IInv, JoinNotLost, Placement, WaitsForOneThing
  <2>3. u # t /\ u \notin exitThreadArray /\ u # NoThread
    BY <1>1, <1>2, <2>2 DEF IInv, Joining
  <2> QED BY <2>1, <2>2, <2>3 DEF Marked, WakesParent
<1>8. TypeOK'
  <2>1. /\ status' \in [Pid -> Statuses] /\ currentThread' \in Pid /\ readyList' \in Seq(Pid)
        /\ threadToBeDestroyed' \in Pid \cup {NoThread} /\ destroyed' \subseteq Pid
    BY <1>5 DEF IInv, TypeOK
  <2>2. /\ exitThreadArray' \subseteq Pid /\ exitedChild' \subseteq Pid
        /\ childexitcode' \in [Pid -> ExitCodes] /\ exitcode' \in [Pid -> ExitCodes]
        /\ waitchild_id' \in [Pid -> Pid \cup {NoThread}]
    BY <1>2, <1>3 DEF IInv, TypeOK
  <2>3. machine' \in {"on", "halted", "aborted"}
    BY <1>2, <1>3, <1>5 DEF IInv, TypeOK
  <2> QED BY <1>2, <1>6, <2>1, <2>2, <2>3 DEF IInv, TypeOK, Statuses, family, joined
<1>9. Placement'
  <2>1. \A u \in sleeping' : status'[u] = "BLOCKED" /\ where'[u] \in {"user", "fork"}
    BY <1>1, <1>2, <1>3, <1>5, <1>6 DEF IInv, TypeOK, Placement, WaitsForOneThing
  <2>2. ASSUME NEW u \in Pid, status'[u] = "BLOCKED", where'[u] \in {"user", "fork"}
        PROVE  u \in sleeping'
    BY <1>1, <1>2, <1>3, <1>5, <1>6, <2>2 DEF IInv, Placement, WaitsForOneThing
  <2>3. ASSUME NEW u \in Pid
        PROVE  (waitchild_id'[u] # NoThread) <=> (status'[u] = "BLOCKED" /\ where'[u] = "join")
    <3>1. (waitchild_id[u] # NoThread) <=> (status[u] = "BLOCKED" /\ where[u] = "join")
      BY DEF IInv, Placement, WaitsForOneThing
    <3> QED BY <1>1, <1>2, <1>3, <1>5, <1>6, <3>1 DEF IInv, TypeOK
  <2> QED BY <1>5, <2>1, <2>2, <2>3 DEF Placement, WaitsForOneThing
<1>10. OneCarcass'
  <2>1. {u \in Pid : where'[u] = "dead"} = {u \in Pid : where[u] = "dead"} \cup {t}
    BY <1>6
  <2>2. {u \in Pid : where[u] = "dead"} = destroyed /\ t \notin destroyed
        /\ NoThread \notin destroyed
    BY <1>1, <1>2 DEF IInv, TypeOK, OneCarcass
  <2> QED BY <1>2, <1>3, <1>5, <2>1, <2>2 DEF OneCarcass, RunsAlone
<1>11. Alive'
  BY <1>1, <1>2, <1>5, <1>6 DEF IInv, TypeOK, OneCarcass, Alive, Settled, Pid, family,
    exits, joined
<1>12. Joining'
  <2>1. (exitedChild \subseteq exitThreadArray)'
    BY <1>2, <1>3 DEF IInv, Joining
  <2>2. (\A c \in exitThreadArray : where[c] = "dead")'
    BY <1>2, <1>6 DEF IInv, Joining, TypeOK
  <2>3. ASSUME NEW c \in exitThreadArray'
        PROVE  c \in exitedChild' \/ ppid[c] \in exitThreadArray' \cup {NoThread}
    BY <1>2, <1>3 DEF IInv, Joining
  <2>4. ASSUME NEW c \in exitedChild' PROVE childexitcode'[c] = exitcode'[c]
    <3>1. CASE c = t /\ c \notin exitedChild
      BY <1>2, <1>3, <3>1 DEF IInv, TypeOK
    <3>2. CASE c \in exitedChild
      BY <1>1, <1>2, <1>3, <3>2 DEF IInv, Joining, TypeOK
    <3> QED BY <1>3, <3>1, <3>2
  <2>5. ASSUME NEW u \in Pid, where'[u] = "join"
        PROVE  /\ whichchild[u] \in Created /\ ppid[whichchild[u]] = u
               /\ u \notin returned
               /\ waitchild_id'[u] = NoThread => whichchild[u] \in exitedChild'
    BY <1>3, <1>6, <2>5 DEF IInv, Joining
  <2> QED BY <1>2, <2>1, <2>2, <2>3, <2>4, <2>5 DEF Joining, Created, family, joined
<1>13. JoinNotLost'
  BY <1>2, <1>3, <1>7 DEF IInv, TypeOK, Joining, JoinNotLost, Placement, WaitsForOneThing,
    family, exits, joined
<1>14. JoinResult' /\ OnlyExitFinishes'
  BY <1>1, <1>2, <1>6 DEF IInv, TypeOK, Joining, JoinResult, OnlyExitFinishes, joined
<1>15. LastExitHalts'
  <2>1. SUFFICES ASSUME Created \subseteq exitThreadArray' PROVE machine' = "halted"
    BY <1>2 DEF LastExitHalts, Created, family
  <2>2. ASSUME NEW u \in Pid PROVE status[u] # "READY"
    <3>1. CASE u \in Created
      BY <1>1, <1>2, <2>1, <3>1 DEF IInv, Joining, Alive
    <3>2. CASE u \notin Created
      BY <3>2, ThreadsAssumption DEF IInv, Alive, Created, Pid, TypeOK
    <3> QED BY <3>1, <3>2
  <2>3. readyList = <<>>
    BY <2>2, QueueOK, EmptyHolds DEF Holds, ToSet
  <2> QED BY <1>3, <2>1, <2>3
<1>16. Moves
  <2>1. destroyed \subseteq destroyed' /\ (destroyed' # destroyed => status'[currentThread'] = "RUNNING")
    BY <1>1, <1>2, <1>3, <1>4, <1>5, <1>6, <1>7 DEF IInv, TypeOK, Moves, Placement,
      WaitsForOneThing, Alive, JoinNotLost, Settled, family, exits, joined
  <2>2. \A u \in Pid : /\ where[u] = "dead" => where'[u] = "dead"
                       /\ where'[u] = "dead" => where[u] = "dead" \/ status[u] = "RUNNING"
    BY <1>1, <1>2, <1>3, <1>4, <1>5, <1>6, <1>7 DEF IInv, TypeOK, Moves, Placement,
      WaitsForOneThing, Alive, JoinNotLost, Settled, family, exits, joined
  <2>3. \A u \in Pid : status'[u] = "BLOCKED" => status[u] \in {"RUNNING", "BLOCKED"}
    BY <1>1, <1>2, <1>3, <1>4, <1>5, <1>6, <1>7 DEF IInv, TypeOK, Moves, Placement,
      WaitsForOneThing, Alive, JoinNotLost, Settled, family, exits, joined
  <2>4. \A u \in Pid : /\ status'[u] \in {"NONE", "JUST_CREATED"}
                            => status[u] \in {"NONE", "JUST_CREATED"}
                       /\ status[u] \in {"NONE", "JUST_CREATED"}
                            => status'[u] # "RUNNING"
    BY <1>1, <1>2, <1>3, <1>4, <1>5, <1>6, <1>7 DEF IInv, TypeOK, Moves, Placement,
      WaitsForOneThing, Alive, JoinNotLost, Settled, family, exits, joined
  <2>5. \A u \in Pid : waitchild_id[u] # NoThread /\ status'[u] # "BLOCKED" =>
                      waitchild_id[u] \in exitThreadArray' \ exitThreadArray
    BY <1>1, <1>2, <1>3, <1>4, <1>5, <1>6, <1>7 DEF IInv, TypeOK, Moves, Placement,
      WaitsForOneThing, Alive, JoinNotLost, Settled, family, exits, joined
  <2> QED BY <2>1, <2>2, <2>3, <2>4, <2>5 DEF Moves
<1> QED BY <1>8, <1>9, <1>10, <1>11, <1>12, <1>13, <1>14, <1>15, <1>16 DEF IInv

(* An exit that wakes the parent keeps IInv and moves threads along their edges. *)
LEMMA ExitWakes ==
  ASSUME IInv, NEW t \in Pid, NEW code \in ExitCodes, NEW p, p = ppid[t],
         WakesParent(t, ppid[t] # NoThread /\ ppid[t] \notin Marked(t)), Exit(t, code)
  PROVE  IInv' /\ Moves
<1>1. /\ t = currentThread /\ status[t] = "RUNNING" /\ machine = "on"
      /\ threadToBeDestroyed = NoThread /\ where[t] # "dead" /\ t \notin sleeping
      /\ waitchild_id[t] = NoThread /\ t \in Created /\ t \notin exitThreadArray
      /\ \A u \in Pid : status[u] = "RUNNING" <=> u = t
  BY RunningFacts DEF Exit, IInv, Placement, RunsAlone
<1>2. /\ where[t] \in {"user", "boot"} /\ t # NoThread /\ NoThread \notin Pid
      /\ exitThreadArray' = exitThreadArray \cup {t}
      /\ exitcode' = [exitcode EXCEPT ![t] = code]
      /\ where' = [where EXCEPT ![t] = "dead"]
      /\ UNCHANGED <<family, pagesLeft, sleeping, joined>>
  BY PidFinite, ThreadsAssumption DEF Exit, Marked
<1>3. /\ p = ppid[t] /\ p \notin exitThreadArray /\ p # t /\ waitchild_id[p] = t
      /\ p \in Pid /\ status[p] = "BLOCKED" /\ where[p] = "join" /\ p \in Created
      /\ whichchild[p] = t
  <2>1. p = ppid[t] /\ p \notin exitThreadArray /\ p # t /\ waitchild_id[p] = t
    BY <1>2 DEF WakesParent, Marked
  <2>2. p \in Pid /\ status[p] = "BLOCKED" /\ where[p] = "join" /\ whichchild[p] = t
    BY <1>2, <2>1, ThreadsAssumption
       DEF WakesParent, IInv, TypeOK, Placement, WaitsForOneThing, JoinNotLost
  <2>3. p \in Created
    BY <2>2, ThreadsAssumption DEF IInv, TypeOK, Alive, Created, Pid
  <2> QED BY <2>1, <2>2, <2>3
<1>4. /\ exitedChild' = exitedChild \cup {t}
      /\ childexitcode' = [childexitcode EXCEPT ![t] = code]
      /\ waitchild_id' = [waitchild_id EXCEPT ![p] = NoThread]
      /\ SwitchOrIdle(Append(readyList, p),
                      [[status EXCEPT ![t] = "BLOCKED"] EXCEPT ![p] = "READY"], t)
      /\ Append(readyList, p) # <<>> => machine' = machine
  BY DEF Exit, SetChildExitCode, WakesParent, Marked, AllExited
<1>5. Settled([[status EXCEPT ![t] = "BLOCKED"] EXCEPT ![p] = "READY"], t)
  <2> DEFINE st == [[status EXCEPT ![t] = "BLOCKED"] EXCEPT ![p] = "READY"]
  <2>1. /\ Holds(readyList, status) /\ readyList \in Seq(Pid) /\ Distinct(readyList)
        /\ p \notin ToSet(readyList) /\ st \in [Pid -> Statuses]
        /\ \A u \in Pid : (st[u] = "READY") <=> (status[u] = "READY" \/ u = p)
        /\ \A u \in Pid : st[u] # "RUNNING"
        /\ st[t] = "BLOCKED"
    BY <1>1, <1>3, QueueOK DEF Statuses, Holds, Distinct
  <2>2. /\ Append(readyList, p) \in Seq(Pid) /\ Distinct(Append(readyList, p))
        /\ ToSet(Append(readyList, p)) = ToSet(readyList) \cup {p}
    BY <1>3, <2>1, AppendDistinct
  <2>3. Holds(Append(readyList, p), st)
    BY <2>1, <2>2 DEF Holds, Distinct
  <2>4. /\ SwitchOrIdle(Append(readyList, p), st, t) /\ currentThread \in Pid
        /\ st[currentThread] \in {"BLOCKED", "READY"}
    BY <1>1, <1>4, <2>1
  <2> HIDE DEF st
  <2>5. Settled(st, t)
    BY <2>1, <2>3, <2>4, SwitchSettles
  <2> QED BY <2>5 DEF st
<1>6. /\ status' \in [Pid -> Statuses] /\ currentThread' \in Pid /\ readyList' \in Seq(Pid)
      /\ ReadyOnce' /\ RunsAlone'
      /\ \/ /\ threadToBeDestroyed' = t /\ destroyed' = destroyed /\ currentThread' = t
         \/ /\ threadToBeDestroyed' = NoThread /\ destroyed' = destroyed \cup {t}
            /\ status'[currentThread'] = "RUNNING"
      /\ \A u \in Pid : (status'[u] = "BLOCKED") <=> (u # p /\ (status[u] = "BLOCKED" \/ u = t))
      /\ \A u \in Pid : (status'[u] = "NONE") <=> (status[u] = "NONE")
      /\ \A u \in Pid : (status'[u] = "JUST_CREATED") <=> (status[u] = "JUST_CREATED")
  BY <1>1, <1>2, <1>3, <1>5, QueueOK DEF Settled
<1>7. /\ \A u \in Pid : (where'[u] = "dead") <=> (where[u] = "dead" \/ u = t)
      /\ \A u \in Pid : u # t => where'[u] = where[u]
      /\ where' \in [Pid -> {"boot", "user", "fork", "join", "synch", "dead"}]
      /\ \A u \in Pid : (where'[u] = "join") <=> (where[u] = "join")
  BY <1>2 DEF IInv, TypeOK
<1>8. /\ \A u \in Pid : u # p => waitchild_id[u] # t
      /\ waitchild_id'[p] = NoThread /\ \A u \in Pid : u # p => waitchild_id'[u] = waitchild_id[u]
  BY <1>2, <1>3, <1>4 DEF IInv, TypeOK, JoinNotLost
<1>9. machine' = machine
  BY <1>3, <1>4, QueueOK DEF Holds
<1>10. TypeOK'
  <2>1. /\ status' \in [Pid -> Statuses] /\ currentThread' \in Pid /\ readyList' \in Seq(Pid)
        /\ threadToBeDestroyed' \in Pid \cup {NoThread} /\ destroyed' \subseteq Pid
    BY <1>6 DEF IInv, TypeOK
  <2>2. /\ exitThreadArray' \subseteq Pid /\ exitedChild' \subseteq Pid
        /\ childexitcode' \in [Pid -> ExitCodes] /\ exitcode' \in [Pid -> ExitCodes]
        /\ waitchild_id' \in [Pid -> Pid \cup {NoThread}]
    BY <1>2, <1>4 DEF IInv, TypeOK
  <2> QED BY <1>2, <1>7, <1>9, <2>1, <2>2 DEF IInv, TypeOK, Statuses, family, joined
<1>11. Placement'
  <2>1. \A u \in sleeping' : status'[u] = "BLOCKED" /\ where'[u] \in {"user", "fork"}
    BY <1>1, <1>2, <1>3, <1>6, <1>7, <1>8 DEF IInv, TypeOK, Placement, WaitsForOneThing
  <2>2. ASSUME NEW u \in Pid, status'[u] = "BLOCKED", where'[u] \in {"user", "fork"}
        PROVE  u \in sleeping'
    BY <1>1, <1>2, <1>3, <1>6, <1>7, <1>8, <2>2 DEF IInv, Placement, WaitsForOneThing
  <2>3. ASSUME NEW u \in Pid
        PROVE  (waitchild_id'[u] # NoThread) <=> (status'[u] = "BLOCKED" /\ where'[u] = "join")
    <3>1. (waitchild_id[u] # NoThread) <=> (status[u] = "BLOCKED" /\ where[u] = "join")
      BY DEF IInv, Placement, WaitsForOneThing
    <3> QED BY <1>1, <1>2, <1>3, <1>6, <1>7, <1>8, <3>1 DEF IInv, TypeOK
  <2> QED BY <1>6, <2>1, <2>2, <2>3 DEF Placement, WaitsForOneThing
<1>12. OneCarcass'
  <2>1. {u \in Pid : where'[u] = "dead"} = {u \in Pid : where[u] = "dead"} \cup {t}
    BY <1>7
  <2>2. {u \in Pid : where[u] = "dead"} = destroyed /\ t \notin destroyed
        /\ NoThread \notin destroyed
    BY <1>1, <1>2 DEF IInv, TypeOK, OneCarcass
  <2> QED BY <1>2, <1>3, <1>6, <2>1, <2>2 DEF OneCarcass, RunsAlone
<1>13. Alive'
  BY <1>1, <1>2, <1>3, <1>6, <1>7 DEF IInv, TypeOK, OneCarcass, Alive, Settled, Pid,
    family, exits, joined
<1>14. Joining'
  <2>1. (exitedChild \subseteq exitThreadArray)'
    BY <1>2, <1>4 DEF IInv, Joining
  <2>2. (\A c \in exitThreadArray : where[c] = "dead")'
    BY <1>2, <1>7 DEF IInv, Joining, TypeOK
  <2>3. ASSUME NEW c \in exitThreadArray'
        PROVE  c \in exitedChild' \/ ppid[c] \in exitThreadArray' \cup {NoThread}
    BY <1>2, <1>4 DEF IInv, Joining
  <2>4. ASSUME NEW c \in exitedChild' PROVE childexitcode'[c] = exitcode'[c]
    <3>1. CASE c = t
      BY <1>2, <1>4, <3>1 DEF IInv, TypeOK
    <3>2. CASE c \in exitedChild
      BY <1>1, <1>2, <1>4, <3>2 DEF IInv, Joining, TypeOK
    <3> QED BY <1>4, <3>1, <3>2
  <2>5. ASSUME NEW u \in Pid, where'[u] = "join"
        PROVE  /\ whichchild[u] \in Created /\ ppid[whichchild[u]] = u
               /\ u \notin returned
               /\ waitchild_id'[u] = NoThread => whichchild[u] \in exitedChild'
    BY <1>3, <1>4, <1>7, <1>8, <2>5 DEF IInv, Joining
  <2> QED BY <1>2, <2>1, <2>2, <2>3, <2>4, <2>5 DEF Joining, Created, family, joined
<1>15. JoinNotLost'
  BY <1>2, <1>3, <1>4, <1>8 DEF IInv, TypeOK, Joining, JoinNotLost, Placement,
    WaitsForOneThing, family, exits, joined
<1>16. JoinResult' /\ OnlyExitFinishes' /\ LastExitHalts'
  BY <1>1, <1>2, <1>3, <1>7, <1>9 DEF IInv, TypeOK, Joining, JoinResult, OnlyExitFinishes,
    LastExitHalts, Created, family, exits, joined
<1>17. Moves
  <2>1. destroyed \subseteq destroyed' /\ (destroyed' # destroyed => status'[currentThread'] = "RUNNING")
    BY <1>1, <1>2, <1>3, <1>4, <1>5, <1>6, <1>7, <1>8, <1>9 DEF IInv, TypeOK, Moves,
      Placement, WaitsForOneThing, Alive, JoinNotLost, Settled, family, exits, joined
  <2>2. \A u \in Pid : /\ where[u] = "dead" => where'[u] = "dead"
                       /\ where'[u] = "dead" => where[u] = "dead" \/ status[u] = "RUNNING"
    BY <1>1, <1>2, <1>3, <1>4, <1>5, <1>6, <1>7, <1>8, <1>9 DEF IInv, TypeOK, Moves,
      Placement, WaitsForOneThing, Alive, JoinNotLost, Settled, family, exits, joined
  <2>3. \A u \in Pid : status'[u] = "BLOCKED" => status[u] \in {"RUNNING", "BLOCKED"}
    BY <1>1, <1>2, <1>3, <1>4, <1>5, <1>6, <1>7, <1>8, <1>9 DEF IInv, TypeOK, Moves,
      Placement, WaitsForOneThing, Alive, JoinNotLost, Settled, family, exits, joined
  <2>4. \A u \in Pid : /\ status'[u] \in {"NONE", "JUST_CREATED"}
                            => status[u] \in {"NONE", "JUST_CREATED"}
                       /\ status[u] \in {"NONE", "JUST_CREATED"}
                            => status'[u] # "RUNNING"
    BY <1>1, <1>2, <1>3, <1>4, <1>5, <1>6, <1>7, <1>8, <1>9 DEF IInv, TypeOK, Moves,
      Placement, WaitsForOneThing, Alive, JoinNotLost, Settled, family, exits, joined
  <2>5. \A u \in Pid : waitchild_id[u] # NoThread /\ status'[u] # "BLOCKED" =>
                      waitchild_id[u] \in exitThreadArray' \ exitThreadArray
    BY <1>1, <1>2, <1>3, <1>4, <1>5, <1>6, <1>7, <1>8, <1>9 DEF IInv, TypeOK, Moves,
      Placement, WaitsForOneThing, Alive, JoinNotLost, Settled, family, exits, joined
  <2> QED BY <2>1, <2>2, <2>3, <2>4, <2>5 DEF Moves
<1> QED BY <1>10, <1>11, <1>12, <1>13, <1>14, <1>15, <1>16, <1>17 DEF IInv

(* Every step, and a stuttering step, keeps the invariant and moves threads    *)
(* along the edges of their life cycle.                                      *)
LEMMA NextKeeps == ASSUME IInv, [Next]_vars PROVE IInv' /\ Moves
<1>1. ASSUME NEW t \in Pid, UserStep(t) PROVE IInv' /\ Moves
  <2>1. CASE Fork(t)
    <3>1. CASE ScheduleChild(thread_index) /\ UNCHANGED <<where, pagesLeft>>
      BY <2>1, <3>1, ForkSchedules
    <3>2. ASSUME NEW pages \in 1 .. MaxPages,
                 pagesLeft' = [pagesLeft EXCEPT ![t] = pages],
                 CopyNextPage(t, [status EXCEPT ![thread_index] = "JUST_CREATED"])
          PROVE  IInv' /\ Moves
      BY <2>1, <3>2, ForkSleeps
    <3> QED BY <2>1, <3>1, <3>2 DEF Fork
  <2>2. ASSUME NEW c \in Pid, JoinExited(t, c) \/ JoinWaits(t, c) PROVE IInv' /\ Moves
    BY <2>2, JoinExitedKeeps, JoinWaitsKeeps
  <2>3. ASSUME NEW code \in ExitCodes, Exit(t, code) PROVE IInv' /\ Moves
    BY <2>3, ExitAlone, ExitWakes
  <2>4. ASSUME NEW w \in SetToAllKPermutations(InSynch), NEW blocks \in BOOLEAN,
               SynchStep(t, w, blocks)
        PROVE  IInv' /\ Moves
    BY <2>4, SynchStepKeeps
  <2> QED BY <1>1, <2>1, <2>2, <2>3, <2>4, YieldKeeps, SleepKeeps, ForkAbortsKeeps,
    HaltKeeps
      DEF UserStep
<1>2. ASSUME NEW t \in Pid, KernelStep(t) PROVE IInv' /\ Moves
  <2>1. CASE ForkResumes(t)
    <3>1. CASE pagesLeft[t] > 1 /\ CopyNextPage(t, status)
      BY <2>1, <3>1, ForkCopies
    <3>2. ASSUME pagesLeft[t] = 1, where' = [where EXCEPT ![t] = "user"],
                 NEW c \in Created, status[c] = "JUST_CREATED", ScheduleChild(c)
          PROVE  IInv' /\ Moves
      <4>1. c \in Pid
        BY ThreadsAssumption DEF Created, Pid, IInv, TypeOK
      <4> QED BY <2>1, <3>2, <4>1, ForkEnded
    <3> QED BY <2>1, <3>1, <3>2 DEF ForkResumes
  <2> QED BY <1>2, <2>1, JoinReturnsKeeps DEF KernelStep
<1>3. MainThread \in Pid /\ currentThread \in Pid
  BY QueueOK, ThreadsAssumption DEF MainThread, Pid
<1>4. ASSUME NEW w \in Wakeups, NEW yield \in BOOLEAN, TimerInterrupt(w,
  yield) PROVE IInv' /\ Moves
  BY <1>3, <1>4, TimerInterruptKeeps
<1>5. ASSUME NEW w \in Wakeups, IdleInterrupt(w) PROVE IInv' /\ Moves
  BY <1>5, IdleInterruptKeeps
<1>6. CASE UNCHANGED vars
  BY <1>6 DEF vars, dispatch, family, exits, joined, IInv, TypeOK, Placement, ReadyOnce,
     RunsAlone, WaitsForOneThing, OneCarcass, Alive, Joining, JoinNotLost, JoinResult,
     OnlyExitFinishes, LastExitHalts, Created, Moves
<1> QED BY <1>1, <1>2, <1>3, <1>4, <1>5, <1>6, StartProcessKeeps, BatchForkKeeps,
  FinishThreadKeeps
    DEF Next, Stopped

(* IInv is an invariant: it holds at boot and every step keeps it.           *)
THEOREM InvariantHolds == Spec => []IInv
<1>1. Init => IInv
  BY InitIInv
<1>2. IInv /\ [Next]_vars => IInv'
  BY NextKeeps
<1> QED BY <1>1, <1>2, PTL DEF Spec

(* A joining thread is woken only by the exit of the child it waits for.     *)
THEOREM OnlyTheChildWakes == Spec => JoinerWokenByItsChild
<1>1. IInv /\ [Next]_vars =>
        [\A t \in Pid : waitchild_id[t] # NoThread /\ status'[t] # "BLOCKED" =>
           waitchild_id[t] \in exitThreadArray' \ exitThreadArray]_vars
  BY NextKeeps DEF Moves
<1> QED BY <1>1, InvariantHolds, PTL DEF Spec, JoinerWokenByItsChild

(* Every variable keeps its type, whatever the sizes of the tables.          *)
THEOREM TypeCorrect == Spec => []TypeOK
BY InvariantHolds, PTL DEF IInv

(* Every thread is where its status says: READY threads once on the ready    *)
(* list, one RUNNING thread at most, a blocked thread on one queue.          *)
THEOREM PlacementHolds == Spec => []Placement
BY InvariantHolds, PTL DEF IInv

(* The slot threadToBeDestroyed loses no carcass and frees no thread twice,  *)
(* too early or while it holds the processor.                                *)
THEOREM OneCarcassHolds == Spec => []OneCarcass
BY InvariantHolds, PTL DEF IInv

(* A parent never waits for a child that has already exited.                 *)
THEOREM JoinNeverLost == Spec => []JoinNotLost
BY InvariantHolds, PTL DEF IInv

(* A join that returns returns the exit code of the child it named.          *)
THEOREM JoinIsRight == Spec => []JoinResult
BY InvariantHolds, PTL DEF IInv

(* The machine halts when every thread has exited.                           *)
THEOREM MachineHalts == Spec => []LastExitHalts
BY InvariantHolds, PTL DEF IInv

(* As long as every executable opens, SetChildExitCode never follows a       *)
(* pointer to a thread that Run has deleted.                                 *)
THEOREM NothingDangles == ASSUME ~MissingExecutable PROVE Spec => []NoDanglingThread
<1>1. IInv => NoDanglingThread
  <2>1. SUFFICES ASSUME IInv PROVE NoDanglingThread
    OBVIOUS
  <2>2. \A t \in destroyed : /\ t \in Pid /\ where[t] = "dead" /\ t \in exitThreadArray
                             /\ status[t] = "BLOCKED" /\ t \notin sleeping
    BY <2>1 DEF IInv, TypeOK, OneCarcass, OnlyExitFinishes, Alive, Placement,
      WaitsForOneThing
  <2> QED BY <2>1, <2>2 DEF NoDanglingThread, IInv, Alive, Placement, ReadyOnce
<1> QED BY <1>1, InvariantHolds, PTL

-----------------------------------------------------------------------------
(* The place of a thread in its life cycle, read from its status.            *)
LifeCycleFacts ==
  \A t \in Pid :
     /\ LifeCycle(t) \in {"unborn", "runnable", "running", "waiting", "finished", "freed"}
     /\ (LifeCycle(t) = "freed") <=> (t \in destroyed)
     /\ (LifeCycle(t) = "finished") <=> (where[t] = "dead" /\ t \notin destroyed)
     /\ (LifeCycle(t) = "waiting") <=> (status[t] = "BLOCKED" /\ where[t] # "dead")
     /\ (LifeCycle(t) = "running") <=> (status[t] = "RUNNING")
     /\ (LifeCycle(t) = "runnable") <=> (status[t] = "READY")
     /\ (LifeCycle(t) = "unborn") <=> (status[t] \in {"NONE", "JUST_CREATED"})

(* One processor, never without work while a thread is ready.                *)
OneProcessorFacts ==
  /\ currentThread \in Pid
  /\ \A t, u \in Pid : LifeCycle(t) = "running" /\ LifeCycle(u) = "running" => t = u
  /\ \A t \in Pid : LifeCycle(t) = "runnable" => LifeCycle(currentThread) = "running"

(* The two summaries hold in every state of the invariant.                  *)
LEMMA LifeCycleOf == IInv => LifeCycleFacts
<1> SUFFICES ASSUME IInv, NEW t \in Pid
    PROVE  /\ LifeCycle(t) \in {"unborn", "runnable", "running", "waiting", "finished", "freed"}
           /\ (LifeCycle(t) = "freed") <=> (t \in destroyed)
           /\ (LifeCycle(t) = "finished") <=> (where[t] = "dead" /\ t \notin destroyed)
           /\ (LifeCycle(t) = "waiting") <=> (status[t] = "BLOCKED" /\ where[t] # "dead")
           /\ (LifeCycle(t) = "running") <=> (status[t] = "RUNNING")
           /\ (LifeCycle(t) = "runnable") <=> (status[t] = "READY")
           /\ (LifeCycle(t) = "unborn") <=> (status[t] \in {"NONE", "JUST_CREATED"})
  BY DEF LifeCycleFacts
<1>1. /\ status[t] \in {"NONE", "JUST_CREATED", "RUNNING", "READY", "BLOCKED"}
      /\ t \in destroyed => where[t] = "dead"
      /\ where[t] = "dead" => status[t] = "BLOCKED"
  BY DEF IInv, TypeOK, OneCarcass, Alive
<1>2. CASE where[t] = "dead"
  BY <1>1, <1>2 DEF LifeCycle
<1>3. CASE where[t] # "dead"
  BY <1>1, <1>3 DEF LifeCycle
<1> QED BY <1>2, <1>3

(* The processor is held by at most one thread, and by one if any is ready.  *)
LEMMA DispatcherKeeps == IInv => OneProcessorFacts
<1> SUFFICES ASSUME IInv PROVE OneProcessorFacts
  OBVIOUS
<1>1. currentThread \in Pid
  BY QueueOK
<1>2. ASSUME NEW t \in Pid, NEW u \in Pid, LifeCycle(t) = "running",
  LifeCycle(u) = "running"
      PROVE  t = u
  BY <1>2, LifeCycleOf DEF IInv, Placement, RunsAlone, LifeCycleFacts
<1>3. ASSUME NEW t \in Pid,
  LifeCycle(t) = "runnable" PROVE LifeCycle(currentThread) = "running"
  <2>1. t \in ToSet(readyList)
    BY <1>3, LifeCycleOf DEF IInv, Placement, ReadyOnce, LifeCycleFacts
  <2>2. readyList # <<>>
    BY <2>1, QueueOK, EmptyHolds DEF Holds
  <2> QED BY <1>1, <2>2, LifeCycleOf DEF IInv, Placement, RunsAlone, LifeCycleFacts
<1> QED BY <1>1, <1>2, <1>3 DEF OneProcessorFacts

(* The initial state of the thread system is one of the dispatcher's.        *)
LEMMA InitRefines == ASSUME Init PROVE Abstract!DispatcherInit
<1>1. MainThread \in Pid
  BY ThreadsAssumption DEF MainThread, Pid
<1>2. \A t \in Pid : LifeCycle(t) = IF t = MainThread THEN "running" ELSE "unborn"
  BY DEF Init, LifeCycle
<1> QED BY <1>1, <1>2 DEF Abstract!DispatcherInit

(* Every step of the thread system moves each thread along an edge.          *)
LEMMA StepRefines ==
  ASSUME IInv, IInv', Moves PROVE Abstract!DispatcherNext
<1> DEFINE L(t) == LifeCycle(t)
<1>0. LifeCycleFacts /\ LifeCycleFacts' /\ OneProcessorFacts'
  <2>1. LifeCycleFacts
    BY LifeCycleOf
  <2>2. IInv' => LifeCycleFacts' /\ OneProcessorFacts'
    BY LifeCycleOf, DispatcherKeeps, PTL
  <2> QED BY <2>1, <2>2
<1>1. \A t \in Pid : L(t)' \in Abstract!States
  BY <1>0 DEF Abstract!States, LifeCycleFacts
<1>2. ASSUME NEW t \in Pid, L(t)' # L(t) PROVE <<L(t), L(t)'>> \in Abstract!Edges
  <2>1. /\ L(t) \in {"unborn", "runnable", "running", "waiting", "finished", "freed"}
        /\ (L(t) = "freed") <=> (t \in destroyed)
        /\ (L(t) = "finished") <=> (where[t] = "dead" /\ t \notin destroyed)
        /\ (L(t) = "waiting") <=> (status[t] = "BLOCKED" /\ where[t] # "dead")
        /\ (L(t) = "running") <=> (status[t] = "RUNNING")
        /\ (L(t) = "runnable") <=> (status[t] = "READY")
        /\ (L(t) = "unborn") <=> (status[t] \in {"NONE", "JUST_CREATED"})
    BY <1>0 DEF LifeCycleFacts
  <2>2. /\ L(t)' \in {"unborn", "runnable", "running", "waiting", "finished", "freed"}
        /\ (L(t)' = "freed") <=> (t \in destroyed')
        /\ (L(t)' = "finished") <=> (where'[t] = "dead" /\ t \notin destroyed')
        /\ (L(t)' = "waiting") <=> (status'[t] = "BLOCKED" /\ where'[t] # "dead")
        /\ (L(t)' = "running") <=> (status'[t] = "RUNNING")
        /\ (L(t)' = "runnable") <=> (status'[t] = "READY")
        /\ (L(t)' = "unborn") <=> (status'[t] \in {"NONE", "JUST_CREATED"})
    BY <1>0 DEF LifeCycleFacts
  <2>3. /\ where[t] = "dead" => status[t] = "BLOCKED"
        /\ where'[t] = "dead" => status'[t] = "BLOCKED"
        /\ t \in destroyed => where[t] = "dead"
        /\ t \in destroyed' => where'[t] = "dead"
        /\ status[t] \in Statuses /\ status'[t] \in Statuses
    <3>1. (IInv => Alive /\ OneCarcass /\ TypeOK) /\ (IInv' => Alive' /\ OneCarcass' /\ TypeOK')
      BY DEF IInv
    <3>2. Alive /\ OneCarcass /\ TypeOK =>
                  /\ where[t] = "dead" => status[t] = "BLOCKED"
                  /\ t \in destroyed => where[t] = "dead"
                  /\ status[t] \in Statuses
      BY DEF Alive, OneCarcass, TypeOK, Statuses
    <3>3. Alive' /\ OneCarcass' /\ TypeOK' =>
                   /\ where'[t] = "dead" => status'[t] = "BLOCKED"
                   /\ t \in destroyed' => where'[t] = "dead"
                   /\ status'[t] \in Statuses
      BY DEF Alive, OneCarcass, TypeOK, Statuses
    <3> QED BY <3>1, <3>2, <3>3
  <2>4. /\ t \in destroyed => t \in destroyed'
        /\ where[t] = "dead" => where'[t] = "dead"
        /\ where'[t] = "dead" => where[t] = "dead" \/ status[t] = "RUNNING"
        /\ status'[t] = "BLOCKED" => status[t] \in {"RUNNING", "BLOCKED"}
        /\ status'[t] \in {"NONE", "JUST_CREATED"} => status[t] \in {"NONE", "JUST_CREATED"}
        /\ status[t] \in {"NONE", "JUST_CREATED"} => status'[t] # "RUNNING"
    BY DEF Moves
  <2> HIDE DEF L
  <2>5. CASE L(t) \in {"freed", "finished"}
    BY <1>2, <2>1, <2>2, <2>3, <2>4, <2>5 DEF Abstract!Edges
  <2>6. CASE L(t) = "running"
    BY <1>2, <2>1, <2>2, <2>3, <2>4, <2>6 DEF Abstract!Edges
  <2>7. CASE L(t) = "waiting"
    BY <1>2, <2>1, <2>2, <2>3, <2>4, <2>7 DEF Abstract!Edges
  <2>8. CASE L(t) = "runnable"
    BY <1>2, <2>1, <2>2, <2>3, <2>4, <2>8 DEF Abstract!Edges
  <2>9. CASE L(t) = "unborn"
    BY <1>2, <2>1, <2>2, <2>3, <2>4, <2>9 DEF Abstract!Edges
  <2> QED BY <2>1, <2>5, <2>6, <2>7, <2>8, <2>9
<1>3. /\ \A t, u \in Pid : L(t)' = "running" /\ L(u)' = "running" => t = u
      /\ \A t \in Pid : L(t)' = "runnable" => LifeCycle(currentThread)' = "running"
      /\ currentThread' \in Pid
  BY <1>0 DEF OneProcessorFacts
<1>4. ASSUME NEW t \in Pid, L(t)' = "freed", L(t) # "freed"
      PROVE  \E u \in Pid : L(u)' = "running"
  <2>1. t \in destroyed' /\ t \notin destroyed
    BY <1>0, <1>4 DEF LifeCycleFacts
  <2>2. status'[currentThread'] = "RUNNING" /\ currentThread' \in Pid
    BY <1>3, <2>1 DEF Moves
  <2>3. LifeCycle(currentThread)' = "running"
    BY <1>0, <2>2 DEF LifeCycleFacts
  <2> QED BY <2>2, <2>3
<1> QED BY <1>1, <1>2, <1>3, <1>4
    DEF Abstract!DispatcherNext, Abstract!OneProcessor, Abstract!WorkConserving, Abstract!In

(* The thread system implements the abstract dispatcher.                     *)
THEOREM Refinement == Spec => ImplementsDispatcher
<1>1. Init => Abstract!DispatcherInit
  BY InitRefines
<1>2. IInv /\ IInv' /\ [Next]_vars => [Abstract!DispatcherNext]_([t \in Pid |-> LifeCycle(t)])
  BY NextKeeps, StepRefines
<1> QED BY <1>1, <1>2, InvariantHolds, PTL DEF Spec, ImplementsDispatcher,
  Abstract!DispatcherSpec

=============================================================================
