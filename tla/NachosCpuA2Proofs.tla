--------------------------- MODULE NachosCpuA2Proofs ---------------------------
(***************************************************************************)
(* Proofs about NachosCpuA2, the second assignment's kernel: that the      *)
(* accounts of setStatus add up, that no policy loses a thread from the    *)
(* ready list, and that the machine halts when all threads have exited,    *)
(* for every number of threads, every policy and every length of ticks,    *)
(* quanta and timer intervals.                                             *)
(***************************************************************************)
EXTENDS NachosCpuA2, NachosLists

-----------------------------------------------------------------------------
(* The inductive invariant.                                                 *)
Statuses  == {"NONE", "READY", "RUNNING", "BLOCKED"}
Modes     == {"run", "kernel", "due", "idle", "idleDue", "halted"}
Interrupt == [type : {"timer", "console"}, when : Nat]
Sleeper   == [thread : Pid, when : Nat]

CpuA2Types ==
  /\ policy \in Policies /\ mode \in Modes /\ currentThread \in Pid
  /\ totalTicks \in Nat /\ idleTicks \in Int /\ readyIntegral \in Int
  /\ burstStartTime \in Nat /\ burstStartTime <= totalTicks
  /\ waitStartTime \in [Pid -> Int] /\ totalBurst \in Int /\ threadWaitTime \in Int
  /\ LastBurst \in [Pid -> Nat] /\ EstimatedBurst \in [Pid -> Nat] /\ initialPriority \in [Pid -> Nat]

(* The ready threads are those on the ready list, which has each once.      *)
OnList(list, st) ==
  /\ list \in Seq(Pid) /\ st \in [Pid -> Statuses] /\ Distinct(list)
  /\ \A t \in Pid : t \in ToSet(list) <=> st[t] = "READY"

(* A thread sleeps once.                                                    *)
Asleep(sleepers) == {sleepers[i].thread : i \in DOMAIN sleepers}
Sleeping(sleepers) ==
  /\ sleepers \in Seq(Sleeper) /\ Ordered(sleepers)
  /\ \A i, j \in DOMAIN sleepers : sleepers[i].thread = sleepers[j].thread => i = j

(* A thread that is blocked has exited, sleeps, or waits for a child that   *)
(* has not exited; a parent that has not exited knows which children have.  *)
Families(st, asleep, exited, waits, par, told) ==
  /\ exited \subseteq Pid
  /\ waits \in [Pid -> Pid \cup {NoChild}] /\ par \in [Pid -> Pid \cup {NoChild}]
  /\ \A t \in Pid :
       /\ t \in exited => st[t] = "BLOCKED" /\ waits[t] = NoChild
       /\ t \in asleep => st[t] = "BLOCKED" /\ waits[t] = NoChild /\ t \notin exited
       /\ waits[t] # NoChild =>
            st[t] = "BLOCKED" /\ st[waits[t]] # "NONE" /\ waits[t] \notin exited /\ par[waits[t]] = t
       /\ st[t] = "BLOCKED" /\ t \notin exited /\ waits[t] = NoChild => t \in asleep
       /\ t \in exited /\ par[t] # NoChild /\ par[t] \notin exited => t \in told

(* Whoever has blocked, but for main, has made a console, which polls for   *)
(* ever.                                                                    *)
Polls(pend, st) ==
  /\ pend \in Seq(Interrupt) /\ pend # <<>> /\ Ordered(pend)
  /\ (\E t \in Pid : t # 0 /\ st[t] = "BLOCKED") => \E e \in ToSet(pend) : e.type = "console"

Modal(st) ==
  /\ \A t \in Pid : st[t] = "RUNNING" <=> Busy /\ t = currentThread
  /\ mode = "idle" => readyList = <<>>
  /\ st[0] = "BLOCKED" => 0 \in exitThreadArray

IInv == /\ CpuA2Types /\ OnList(readyList, status) /\ Sleeping(sleepQueue)
        /\ Families(status, Asleep(sleepQueue), exitThreadArray, waitchild_id, ppid, exitedChild)
        /\ Polls(pending, status) /\ Modal(status) /\ TicksAccounted /\ HaltsAtTheEnd

-----------------------------------------------------------------------------
(* Lists of sleepers and of interrupts.                                     *)

(* Where SortedInsert puts a new element, and what it keeps.                *)
LEMMA InsertForm ==
  ASSUME NEW S, NEW q \in Seq(S), \A x \in S : x.when \in Nat, Ordered(q), NEW e \in S
  PROVE  /\ SortedInsert(e, q) \in Seq(S) /\ Len(SortedInsert(e, q)) = Len(q) + 1
         /\ Ordered(SortedInsert(e, q))
         /\ ToSet(SortedInsert(e, q)) = ToSet(q) \cup {e}
         /\ \E d \in 0 .. Len(q) : InsertedAt(d, SortedInsert(e, q), e, q)
<1>1. SortedInsert(e, q) = Inserted(e, q)
  BY DEF SortedInsert, Inserted
<1>2. /\ Inserted(e, q) \in Seq(S) /\ Len(Inserted(e, q)) = Len(q) + 1
      /\ \E d \in 0 .. Len(q) : InsertedAt(d, Inserted(e, q), e, q)
  BY InsertedForm
<1>3. Ordered(Inserted(e, q)) /\ ToSet(Inserted(e, q)) = ToSet(q) \cup {e}
  BY InsertedKeeps
<1> QED BY <1>1, <1>2, <1>3

(* Who sleeps are the threads of the elements.                              *)
LEMMA AsleepIs ==
  ASSUME NEW sleepers
  PROVE  Asleep(sleepers) = {e.thread : e \in ToSet(sleepers)}
BY DEF Asleep, ToSet

(* A thread that does not sleep falls asleep.                               *)
LEMMA SleepersInsert ==
  ASSUME NEW sleepers, Sleeping(sleepers), NEW t \in Pid, t \notin Asleep(sleepers), NEW when \in Nat
  PROVE  /\ Sleeping(SortedInsert([thread |-> t, when |-> when], sleepers))
         /\ Asleep(SortedInsert([thread |-> t, when |-> when], sleepers)) = Asleep(sleepers) \cup {t}
<1> DEFINE l == Len(sleepers)
<1>1. PICK e : e = [thread |-> t, when |-> when]
  OBVIOUS
<1>2. PICK r : r = SortedInsert(e, sleepers)
  OBVIOUS
<1>3. sleepers \in Seq(Sleeper) /\ e \in Sleeper /\ e.thread = t /\ \A x \in Sleeper : x.when \in Nat
  BY <1>1 DEF Sleeping, Sleeper
<1>4. /\ r \in Seq(Sleeper) /\ Len(r) = l + 1 /\ Ordered(r) /\ ToSet(r) = ToSet(sleepers) \cup {e}
      /\ \E d \in 0 .. l : InsertedAt(d, r, e, sleepers)
  BY SMTT(30), ZenonT(30), <1>2, <1>3, InsertForm DEF Sleeping
<1>5. PICK d \in 0 .. l : InsertedAt(d, r, e, sleepers)
  BY <1>4
<1>6. DOMAIN r = 1 .. l + 1 /\ DOMAIN sleepers = 1 .. l /\ l \in Nat
  BY <1>3, <1>4
<1>7. \A j \in 1 .. l : sleepers[j].thread # t
  BY <1>6 DEF Asleep
<1>8. ASSUME NEW i \in 1 .. l + 1
      PROVE  \/ i = d + 1 /\ r[i] = e
             \/ i <= d /\ i \in 1 .. l /\ r[i] = sleepers[i]
             \/ i > d + 1 /\ i - 1 \in 1 .. l /\ r[i] = sleepers[i - 1]
  BY <1>5, <1>6 DEF InsertedAt
<1>9. \A m, n \in 1 .. l : sleepers[m].thread = sleepers[n].thread => m = n
  BY <1>6 DEF Sleeping
<1> HIDE DEF l
<1>10. ASSUME NEW i \in 1 .. l + 1, NEW j \in 1 .. l + 1, r[i].thread = r[j].thread PROVE i = j
  <2>2. CASE i = d + 1 /\ r[i] = e
    BY <1>3, <1>7, <1>8, <1>10, <2>2
  <2>3. CASE i <= d /\ i \in 1 .. l /\ r[i] = sleepers[i]
    <3>1. r[j] # e
      BY <1>3, <1>7, <1>10, <2>3
    <3>2. CASE j <= d /\ j \in 1 .. l /\ r[j] = sleepers[j]
      BY <1>10, <1>9, <2>3, <3>2
    <3>3. CASE j > d + 1 /\ j - 1 \in 1 .. l /\ r[j] = sleepers[j - 1]
      <4>1. i = j - 1
        BY <1>10, <1>9, <2>3, <3>3
      <4> QED BY <1>5, <1>6, <2>3, <3>3, <4>1
    <3> QED BY <1>8, <3>1, <3>2, <3>3
  <2>4. CASE i > d + 1 /\ i - 1 \in 1 .. l /\ r[i] = sleepers[i - 1]
    <3>1. r[j] # e
      BY <1>3, <1>7, <1>10, <2>4
    <3>2. CASE j <= d /\ j \in 1 .. l /\ r[j] = sleepers[j]
      <4>1. i - 1 = j
        BY <1>10, <1>9, <2>4, <3>2
      <4> QED BY <1>5, <1>6, <2>4, <3>2, <4>1
    <3>3. CASE j > d + 1 /\ j - 1 \in 1 .. l /\ r[j] = sleepers[j - 1]
      <4>1. i - 1 = j - 1
        BY <1>10, <1>9, <2>4, <3>3
      <4> QED BY <1>6, <4>1
    <3> QED BY <1>8, <3>1, <3>2, <3>3
  <2> QED BY <1>8, <2>2, <2>3, <2>4
<1>11. Sleeping(r)
  BY <1>4, <1>6, <1>10 DEF Sleeping
<1>12. Asleep(r) = Asleep(sleepers) \cup {t}
  <2>1. Asleep(r) = {x.thread : x \in ToSet(r)} /\ Asleep(sleepers) = {x.thread : x \in ToSet(sleepers)}
    BY AsleepIs
  <2> QED BY <1>3, <1>4, <2>1
<1> QED BY <1>1, <1>2, <1>11, <1>12

(* The first sleepers leave.                                                *)
FirstLeave(d, woken, rest, sleepers) ==
  /\ woken = [i \in 1 .. d |-> sleepers[i].thread]
  /\ rest = SubSeq(sleepers, d + 1, Len(sleepers))

(* Each sleeper is among those who leave or those who stay.                 *)
LEMMA SleepersLeave ==
  ASSUME NEW sleepers, Sleeping(sleepers), NEW d \in 0 .. Len(sleepers),
         NEW woken, NEW rest, FirstLeave(d, woken, rest, sleepers)
  PROVE  /\ woken \in Seq(Pid) /\ Distinct(woken) /\ Sleeping(rest)
         /\ ToSet(woken) \cap Asleep(rest) = {}
         /\ ToSet(woken) \cup Asleep(rest) = Asleep(sleepers)
<1> DEFINE l == Len(sleepers)
<1>1. /\ sleepers \in Seq(Sleeper) /\ DOMAIN sleepers = 1 .. l /\ l \in Nat /\ d \in Nat /\ d <= l
      /\ \A i, j \in 1 .. l : sleepers[i].thread = sleepers[j].thread => i = j
      /\ \A i \in 1 .. l : sleepers[i].thread \in Pid
      /\ \A i, j \in 1 .. l : i <= j => sleepers[i].when <= sleepers[j].when
  <2>1. sleepers \in Seq(Sleeper) /\ DOMAIN sleepers = 1 .. l /\ l \in Nat /\ d \in Nat /\ d <= l
    BY DEF Sleeping
  <2>2. \A i \in 1 .. l : sleepers[i] \in Sleeper
    BY <2>1
  <2>3. \A i \in 1 .. l : sleepers[i].thread \in Pid
    BY <2>2 DEF Sleeper
  <2> HIDE DEF l
  <2> QED BY <2>1, <2>3 DEF Sleeping, Ordered
<1>2. rest \in Seq(Sleeper) /\ Len(rest) = l - d /\ \A i \in 1 .. l - d : rest[i] = sleepers[d + i]
  <2>1. d + 1 \in Int /\ l \in Int /\ \A i \in d + 1 .. l : sleepers[i] \in Sleeper
    BY <1>1
  <2> USE DEF FirstLeave
  <2>2. rest \in Seq(Sleeper)
    BY <2>1, SubSeqProperties
  <2>3. Len(rest) = IF d + 1 <= l THEN l - (d + 1) + 1 ELSE 0
    BY <2>1, SubSeqProperties
  <2>4. Len(rest) = l - d
    <3> HIDE DEF l
    <3>1. CASE d = l
      BY <1>1, <2>3, <3>1
    <3>2. CASE d # l
      <4>1. d + 1 <= l /\ l - (d + 1) + 1 = l - d
        BY <1>1, <3>2
      <4> QED BY <2>3, <4>1
    <3> QED BY <3>1, <3>2
  <2>5. \A i \in 1 .. l - d : rest[i] = sleepers[d + i]
    BY <1>1
  <2> QED BY <2>2, <2>4, <2>5
<1>3. DOMAIN rest = 1 .. l - d
  <2>1. DOMAIN rest = 1 .. Len(rest)
    BY <1>2
  <2> QED BY <1>2, <2>1
<1> HIDE DEF l
<1>4. woken \in Seq(Pid) /\ Len(woken) = d /\ DOMAIN woken = 1 .. d
      /\ \A i \in 1 .. d : woken[i] = sleepers[i].thread /\ i \in 1 .. l
  <2>1. \A i \in 1 .. d : i \in 1 .. l
    BY <1>1
  <2>2. \A i \in 1 .. d : sleepers[i].thread \in Pid
    BY <1>1, <2>1
  <2> QED BY <1>1, <2>1, <2>2 DEF FirstLeave
<1>5. Distinct(woken)
  BY <1>1, <1>4 DEF Distinct
<1>6. \A j \in 1 .. l - d : d + j \in 1 .. l /\ ~(d + j <= d)
  BY <1>1
<1>7. Sleeping(rest)
  <2>1. ASSUME NEW i \in 1 .. l - d, NEW j \in 1 .. l - d, rest[i].thread = rest[j].thread
        PROVE  i = j
    <3>1. d + i = d + j
      BY <1>1, <1>2, <1>6, <2>1
    <3> QED BY <1>1, <3>1
  <2>2. ASSUME NEW i \in 1 .. l - d, NEW j \in 1 .. l - d, i <= j PROVE rest[i].when <= rest[j].when
    <3>1. d + i <= d + j
      BY <1>1, <2>2
    <3> QED BY <1>1, <1>2, <1>6, <3>1
  <2> QED BY <1>2, <1>3, <2>1, <2>2 DEF Sleeping, Ordered
<1>8. /\ ToSet(woken) = {sleepers[i].thread : i \in 1 .. d}
      /\ Asleep(rest) = {sleepers[d + i].thread : i \in 1 .. l - d}
      /\ Asleep(sleepers) = {sleepers[i].thread : i \in 1 .. l}
  <2>1. ToSet(woken) = {sleepers[i].thread : i \in 1 .. d}
    BY <1>4 DEF ToSet
  <2>2. Asleep(rest) = {rest[i].thread : i \in 1 .. l - d}
    BY <1>3 DEF Asleep
  <2>3. Asleep(sleepers) = {sleepers[i].thread : i \in 1 .. l}
    BY <1>1 DEF Asleep
  <2> QED BY <1>2, <2>1, <2>2, <2>3
<1>9. ToSet(woken) \cap Asleep(rest) = {}
  <2> SUFFICES ASSUME NEW i \in 1 .. d, NEW j \in 1 .. l - d,
                      sleepers[i].thread = sleepers[d + j].thread
               PROVE  FALSE
    BY <1>8
  <2>1. i = d + j
    BY <1>1, <1>4, <1>6
  <2> QED BY <1>6, <2>1
<1>10. ToSet(woken) \cup Asleep(rest) = Asleep(sleepers)
  <2>1. \A i \in 1 .. l : i \in 1 .. d \/ (i - d \in 1 .. l - d /\ d + (i - d) = i)
    BY <1>1
  <2>2. ASSUME NEW i \in 1 .. l PROVE sleepers[i].thread \in ToSet(woken) \cup Asleep(rest)
    <3>1. CASE i \in 1 .. d
      BY <1>8, <3>1
    <3>2. CASE i - d \in 1 .. l - d /\ d + (i - d) = i
      BY <1>8, <3>2
    <3> QED BY <2>1, <3>1, <3>2
  <2>3. \A i \in 1 .. d : sleepers[i].thread \in Asleep(sleepers)
    BY <1>4, <1>8
  <2>4. \A j \in 1 .. l - d : sleepers[d + j].thread \in Asleep(sleepers)
    BY <1>6, <1>8
  <2>5. ToSet(woken) \subseteq Asleep(sleepers) /\ Asleep(rest) \subseteq Asleep(sleepers)
    BY <1>8, <2>3, <2>4
  <2>6. Asleep(sleepers) \subseteq ToSet(woken) \cup Asleep(rest)
    BY <1>8, <2>2
  <2> QED BY <2>5, <2>6
<1> QED BY <1>4, <1>5, <1>7, <1>9, <1>10

-----------------------------------------------------------------------------
(* The ready list, arranged by the policies.                                *)

(* A list that is shortened by its head.                                    *)
LEMMA HeadLeaves ==
  ASSUME NEW q \in Seq(Pid), q # <<>>, Distinct(q), NEW now \in Int, NEW since \in [Pid -> Int]
  PROVE  /\ Head(q) \in Pid /\ Head(q) \in ToSet(q) /\ Tail(q) \in Seq(Pid) /\ Distinct(Tail(q))
         /\ ToSet(Tail(q)) = ToSet(q) \ {Head(q)}
         /\ Waited(Tail(q), now, since) + (now - since[Head(q)]) = Waited(q, now, since)
<1>1. Len(q) \in Nat /\ DOMAIN q = 1 .. Len(q) /\ 1 \in DOMAIN q /\ 1 \in 1 .. Len(q)
      /\ Head(q) = q[1] /\ Tail(q) \in Seq(Pid) /\ q[1] \in Pid
  OBVIOUS
<1>2. Tail(q) = RemoveAt(q, 1)
  <2> DEFINE none == SubSeq(q, 1, 0)
             rest == SubSeq(q, 2, Len(q))
  <2>1. RemoveAt(q, 1) = none \o rest
    <3>1. 1 - 1 = 0 /\ 1 + 1 = 2
      OBVIOUS
    <3> QED BY <3>1 DEF RemoveAt
  <2>2. none = <<>>
    OBVIOUS
  <2>3. rest = Tail(q) /\ rest \in Seq(Pid)
    OBVIOUS
  <2> HIDE DEF none, rest
  <2>4. <<>> \o rest = rest
    BY <2>3
  <2> QED BY <2>1, <2>2, <2>3, <2>4
<1>3. ToSet(Tail(q)) = ToSet(q) \ {q[1]} /\ Distinct(Tail(q)) /\ q[1] \in ToSet(q)
  <2>1. /\ ToSet(RemoveAt(q, 1)) = ToSet(q) \ {q[1]} /\ Distinct(RemoveAt(q, 1))
        /\ q[1] \in ToSet(q)
    BY <1>1, RemoveAtDistinct
  <2> QED BY <1>2, <2>1
<1>4. Waited(RemoveAt(q, 1), now, since) + (now - since[q[1]]) = Waited(q, now, since)
  BY <1>1, WaitedRemove
<1> QED BY <1>1, <1>2, <1>3, <1>4

(* What arranging a list may not change.                                    *)
SameThreads(q, list) == q \in Seq(Pid) /\ Distinct(q) /\ ToSet(q) = ToSet(list)

(* A rotation shows each thread once.                                       *)
LEMMA RotationIs ==
  ASSUME NEW list \in Seq(Pid), Distinct(list), NEW i \in DOMAIN list
  PROVE  SameThreads(<<list[i]>> \o Rotated(list, i), list)
<1> DEFINE n    == Len(list)
           me   == <<list[i]>>
           back == SubSeq(list, i + 1, n)
           fore == SubSeq(list, 1, i - 1)
<1>1. DOMAIN list = 1 .. n /\ n \in Nat /\ i \in 1 .. n /\ \A k \in 1 .. n : list[k] \in Pid
  OBVIOUS
<1>2. /\ fore \in Seq(Pid) /\ DOMAIN fore = 1 .. i - 1
      /\ \A k \in 1 .. i - 1 : fore[k] = list[k] /\ k \in 1 .. n /\ k # i
  BY <1>1
<1>3. /\ back \in Seq(Pid) /\ DOMAIN back = 1 .. n - i
      /\ \A k \in 1 .. n - i : back[k] = list[k + i] /\ k + i \in 1 .. n /\ k + i # i /\ ~(k + i < i)
  <2>1. i + 1 \in Int /\ n \in Int /\ \A k \in i + 1 .. n : list[k] \in Pid
    BY <1>1
  <2>2. back \in Seq(Pid) /\ Len(back) = IF i + 1 <= n THEN n - (i + 1) + 1 ELSE 0
    BY <2>1, SubSeqProperties
  <2>3. Len(back) = n - i
    BY <1>1, <2>2
  <2>4. \A k \in 1 .. n - i : back[k] = list[k + i]
    BY <1>1
  <2>5. \A k \in 1 .. n - i : k + i \in 1 .. n /\ k + i # i /\ ~(k + i < i)
    BY <1>1
  <2>6. DOMAIN back = 1 .. Len(back)
    BY <2>2
  <2> QED BY <2>2, <2>3, <2>4, <2>5, <2>6
<1>4. me \in Seq(Pid) /\ DOMAIN me = {1} /\ me[1] = list[i]
  BY <1>1
<1>5. \A j, k \in 1 .. n : list[j] = list[k] => j = k
  BY <1>1 DEF Distinct
<1> HIDE DEF n, me, back, fore
<1>6. /\ ToSet(fore) = {list[k] : k \in 1 .. i - 1} /\ Distinct(fore)
      /\ ToSet(me) = {list[i]} /\ Distinct(me)
  <2>1. ToSet(fore) = {list[k] : k \in 1 .. i - 1}
    BY <1>2 DEF ToSet
  <2>2. ToSet(me) = {list[i]}
    BY <1>4 DEF ToSet
  <2> QED BY <1>2, <1>4, <1>5, <2>1, <2>2 DEF Distinct
<1>7. ToSet(back) = {list[k + i] : k \in 1 .. n - i} /\ Distinct(back)
  <2>1. ToSet(back) = {back[k] : k \in 1 .. n - i}
    BY <1>3 DEF ToSet
  <2>2. ASSUME NEW j \in 1 .. n - i, NEW k \in 1 .. n - i, back[j] = back[k] PROVE j = k
    <3>1. j + i = k + i
      BY <1>3, <1>5, <2>2
    <3> QED BY <1>1, <3>1
  <2> QED BY <1>3, <2>1, <2>2 DEF Distinct
<1>8. ToSet(back) \cap ToSet(fore) = {}
  <2> SUFFICES ASSUME NEW j \in 1 .. n - i, NEW k \in 1 .. i - 1, list[j + i] = list[k] PROVE FALSE
    BY <1>6, <1>7
  <2>1. j + i = k
    BY <1>2, <1>3, <1>5
  <2> QED BY <1>1, <2>1
<1>9. list[i] \notin ToSet(back) \cup ToSet(fore)
  <2>1. \A k \in 1 .. i - 1 : list[k] # list[i]
    BY <1>1, <1>2, <1>5
  <2>2. \A k \in 1 .. n - i : list[k + i] # list[i]
    BY <1>1, <1>3, <1>5
  <2> QED BY <1>6, <1>7, <2>1, <2>2
<1>10. /\ back \o fore \in Seq(Pid) /\ Distinct(back \o fore)
       /\ ToSet(back \o fore) = ToSet(back) \cup ToSet(fore)
  <2>1. PICK b : b = back
    OBVIOUS
  <2>2. PICK f : f = fore
    OBVIOUS
  <2>3. /\ b \in Seq(Pid) /\ f \in Seq(Pid) /\ Distinct(b) /\ Distinct(f)
        /\ ToSet(b) \cap ToSet(f) = {}
    BY <1>2, <1>3, <1>6, <1>7, <1>8, <2>1, <2>2
  <2>4. b \o f \in Seq(Pid) /\ Distinct(b \o f) /\ ToSet(b \o f) = ToSet(b) \cup ToSet(f)
    BY <2>3, ConcatDistinct
  <2> QED BY <2>1, <2>2, <2>4
<1>11. /\ me \o (back \o fore) \in Seq(Pid) /\ Distinct(me \o (back \o fore))
       /\ ToSet(me \o (back \o fore)) = ToSet(me) \cup ToSet(back \o fore)
  <2>1. PICK rot : rot = back \o fore
    OBVIOUS
  <2>2. rot \in Seq(Pid) /\ Distinct(rot) /\ ToSet(me) \cap ToSet(rot) = {}
    BY <1>6, <1>9, <1>10, <2>1
  <2>3. me \o rot \in Seq(Pid) /\ Distinct(me \o rot) /\ ToSet(me \o rot) = ToSet(me) \cup ToSet(rot)
    BY <1>4, <1>6, <2>2, ConcatDistinct
  <2> QED BY <2>1, <2>3
<1>12. ToSet(list) = ToSet(me) \cup (ToSet(back) \cup ToSet(fore))
  <2>1. ToSet(list) = {list[k] : k \in 1 .. n}
    BY <1>1 DEF ToSet
  <2>2. \A k \in 1 .. n : k = i \/ k \in 1 .. i - 1 \/ (k - i \in 1 .. n - i /\ (k - i) + i = k)
    BY <1>1
  <2>3. ASSUME NEW k \in 1 .. n PROVE list[k] \in ToSet(me) \cup (ToSet(back) \cup ToSet(fore))
    <3>1. CASE k = i
      BY <1>6, <3>1
    <3>2. CASE k \in 1 .. i - 1
      BY <1>6, <3>2
    <3>3. CASE k - i \in 1 .. n - i /\ (k - i) + i = k
      BY <1>7, <3>3
    <3> QED BY <2>2, <3>1, <3>2, <3>3
  <2>4. ToSet(me) \cup (ToSet(back) \cup ToSet(fore)) \subseteq {list[k] : k \in 1 .. n}
    BY <1>1, <1>2, <1>3, <1>6, <1>7
  <2> QED BY <2>1, <2>3, <2>4
<1>13. <<list[i]>> \o Rotated(list, i) = me \o (back \o fore)
  BY DEF Rotated, me, back, fore, n
<1> QED BY <1>10, <1>11, <1>12, <1>13 DEF SameThreads

(* NON_PREEMPT_SJF: some thread has the least estimate, and the first such  *)
(* one is taken.                                                            *)
LEMMA ShortestIs ==
  ASSUME NEW list \in Seq(Pid), list # <<>>, Distinct(list), NEW lasts \in [Pid -> Nat],
         EstimatedBurst \in [Pid -> Nat]
  PROVE  SameThreads(ShortestFirst(list, lasts), list)
<1> DEFINE E(k) == Estimated(list[k], list, lasts)
           First(i) == \A j \in DOMAIN list : E(i) < E(j) \/ (E(i) = E(j) /\ i <= j)
           least == CHOOSE i \in DOMAIN list : First(i)
<1>1. DOMAIN list = 1 .. Len(list) /\ Len(list) \in Nat /\ 1 \in DOMAIN list
      /\ \A k \in DOMAIN list : list[k] \in Pid
  OBVIOUS
<1>2. \A k \in DOMAIN list : E(k) \in Nat
  BY <1>1 DEF Estimated
<1> HIDE DEF E
<1>3. \E i \in DOMAIN list : First(i)
  <2> DEFINE V == {E(k) : k \in DOMAIN list}
  <2>1. V \in SUBSET Nat /\ V # {}
    BY <1>1, <1>2
  <2>2. PICK v \in V : \A n \in V : v <= n
    <3> HIDE DEF V
    <3> QED BY <2>1, MinExists
  <2> DEFINE F == {k \in DOMAIN list : E(k) = v}
  <2>3. F \in SUBSET Nat /\ F # {}
    BY <1>1, <2>2
  <2>4. PICK i \in F : \A j \in F : i <= j
    <3> HIDE DEF F
    <3> QED BY <2>3, MinExists
  <2>5. ASSUME NEW j \in DOMAIN list PROVE E(i) < E(j) \/ (E(i) = E(j) /\ i <= j)
    <3>1. E(i) = v /\ v <= E(j) /\ E(j) \in Nat /\ E(i) \in Nat
      BY <1>2, <2>2, <2>4
    <3>2. E(j) = v => i <= j
      BY <2>4, <2>5
    <3> QED BY <3>1, <3>2
  <2> QED BY <2>4, <2>5
<1>4. least \in DOMAIN list
  <2> HIDE DEF First
  <2> QED BY <1>3
<1>5. ShortestFirst(list, lasts) = <<list[least]>> \o Rotated(list, least)
  BY DEF ShortestFirst, E
<1> HIDE DEF least
<1> QED BY <1>4, <1>5, RotationIs

(* UNIX_SCHED: of the pairs of key and position, each has another number of *)
(* pairs before it, so that each thread of the list has its place.          *)
LEMMA ByKeyIs ==
  ASSUME NEW list \in Seq(Pid), Distinct(list), NEW lasts \in [Pid -> Nat],
         initialPriority \in [Pid -> Nat]
  PROVE  SameThreads(ByKey(list, lasts), list)
<1> DEFINE n == Len(list)
           K(i) == Key(list[i], lasts)
           Before(i, j) == K(i) < K(j) \/ (K(i) = K(j) /\ i < j)
           Earlier(i) == {j \in DOMAIN list : Before(j, i)}
           Rank(i) == Cardinality(Earlier(i))
           place == [k \in 1 .. n |-> CHOOSE i \in 1 .. n : Rank(i) = k - 1]
           q == ByKey(list, lasts)
<1>1. DOMAIN list = 1 .. n /\ n \in Nat /\ \A k \in 1 .. n : list[k] \in Pid
  OBVIOUS
<1>2. \A k \in 1 .. n : K(k) \in Int
  <2>1. Scale \in Nat \ {0}
    BY CpuA2Assumption DEF CpuA2Assumption
  <2>2. 2 * Scale \in Nat \ {0}
    BY <2>1
  <2>3. \A x \in Nat : x \div (2 * Scale) \in Int
    BY <2>2
  <2> SUFFICES ASSUME NEW k \in 1 .. n PROVE K(k) \in Int
    OBVIOUS
  <2>4. list[k] \in Pid
    BY <1>1
  <2>5. initialPriority[list[k]] \in Nat /\ lasts[list[k]] \in Nat
    BY <2>4
  <2>6. lasts[list[k]] \div (2 * Scale) \in Int
    BY <2>3, <2>5
  <2>7. K(k) = initialPriority[list[k]] + lasts[list[k]] \div (2 * Scale)
    BY DEF Key
  <2> HIDE DEF K
  <2> QED BY <2>5, <2>6, <2>7
<1>3. q = [k \in 1 .. n |-> list[CHOOSE i \in DOMAIN list : Rank(i) = k - 1]]
  BY <1>1 DEF ByKey
<1> HIDE DEF K, q, n
<1>4. IsFiniteSet(1 .. n) /\ Cardinality(1 .. n) = n
  BY <1>1, FS_Interval
<1>5. ASSUME NEW i \in 1 .. n
      PROVE  IsFiniteSet(Earlier(i)) /\ Rank(i) \in 0 .. n - 1
  <2>1. Earlier(i) \in SUBSET (1 .. n) /\ Earlier(i) # 1 .. n
    <3>1. ~(K(i) < K(i)) /\ ~(i < i)
      BY <1>1, <1>2
    <3>2. i \notin Earlier(i)
      BY <3>1
    <3> QED BY <1>1, <3>2
  <2> HIDE DEF Earlier
  <2>2. IsFiniteSet(Earlier(i)) /\ Rank(i) <= n /\ Rank(i) # n
    BY <1>4, <2>1, FS_Subset
  <2>3. Rank(i) \in Nat
    BY <2>2, FS_CardinalityType
  <2> QED BY <1>1, <2>2, <2>3
<1>6. ASSUME NEW i \in 1 .. n, NEW j \in 1 .. n, Before(i, j) PROVE Rank(i) # Rank(j)
  <2>1. i \in Earlier(j) /\ i \notin Earlier(i)
    BY <1>1, <1>2, <1>6
  <2>2. \A k \in Earlier(i) : k \in Earlier(j)
    BY SMTT(30), ZenonT(30), <1>1, <1>2, <1>6
  <2>3. Earlier(i) \in SUBSET Earlier(j) /\ Earlier(i) # Earlier(j)
    BY <2>1, <2>2
  <2> HIDE DEF Earlier
  <2> QED BY <1>5, <2>3, FS_Subset
<1>7. \A i, j \in 1 .. n : Rank(i) = Rank(j) => i = j
  <2> SUFFICES ASSUME NEW i \in 1 .. n, NEW j \in 1 .. n, Rank(i) = Rank(j), i # j PROVE FALSE
    OBVIOUS
  <2>1. Before(i, j) \/ Before(j, i)
    BY <1>1, <1>2
  <2> HIDE DEF Before, Earlier
  <2> QED BY <1>6, <2>1
<1> HIDE DEF Before, Earlier
<1> DEFINE rank == [i \in 1 .. n |-> Rank(i)]
<1>8. \A k \in 0 .. n - 1 : \E i \in 1 .. n : Rank(i) = k
  <2>1. rank \in [1 .. n -> 0 .. n - 1]
    BY <1>5
  <2>2. \A i, j \in 1 .. n : rank[i] = rank[j] => i = j
    BY <1>7
  <2> HIDE DEF rank
  <2>3. rank \in Injection(1 .. n, 0 .. n - 1)
    BY <2>1, <2>2 DEF Injection, IsInjective
  <2>4. IsFiniteSet(0 .. n - 1) /\ Cardinality(0 .. n - 1) = n
    <3>1. 0 \in Int /\ n - 1 \in Int
      BY <1>1
    <3>2. IsFiniteSet(0 .. n - 1)
          /\ Cardinality(0 .. n - 1) = IF 0 > n - 1 THEN 0 ELSE (n - 1) - 0 + 1
      BY <3>1, FS_Interval
    <3> QED BY <1>1, <3>2
  <2>5. rank \in Surjection(1 .. n, 0 .. n - 1)
    BY <1>4, <2>3, <2>4, FS_Injection
  <2>6. \A k \in 0 .. n - 1 : \E i \in 1 .. n : rank[i] = k
    BY <2>5 DEF Surjection
  <2> QED BY <2>6 DEF rank
<1> HIDE DEF rank
<1>9. \A k \in 1 .. n : place[k] \in 1 .. n /\ Rank(place[k]) = k - 1
  <2> SUFFICES ASSUME NEW k \in 1 .. n PROVE place[k] \in 1 .. n /\ Rank(place[k]) = k - 1
    OBVIOUS
  <2>1. k - 1 \in 0 .. n - 1
    BY <1>1
  <2>2. \E i \in 1 .. n : Rank(i) = k - 1
    BY <1>8, <2>1
  <2>3. place[k] = CHOOSE i \in 1 .. n : Rank(i) = k - 1
    OBVIOUS
  <2> QED BY <2>2, <2>3
<1>10. q = [k \in 1 .. n |-> list[place[k]]]
  BY <1>1, <1>3
<1> HIDE DEF place
<1>11. \A i \in 1 .. n : \E k \in 1 .. n : place[k] = i
  <2> SUFFICES ASSUME NEW i \in 1 .. n PROVE \E k \in 1 .. n : place[k] = i
    OBVIOUS
  <2>1. PICK k : k = Rank(i) + 1
    OBVIOUS
  <2>2. k \in 1 .. n /\ k - 1 = Rank(i)
    <3>1. PICK r : r = Rank(i)
      OBVIOUS
    <3>2. r \in 0 .. n - 1
      BY <1>5, <3>1
    <3>3. r + 1 \in 1 .. n /\ (r + 1) - 1 = r
      BY <1>1, <3>2
    <3>4. k = r + 1
      BY <2>1, <3>1
    <3> QED BY <3>1, <3>3, <3>4
  <2>3. place[k] \in 1 .. n /\ Rank(place[k]) = Rank(i)
    BY <1>9, <2>2
  <2> QED BY <1>7, <2>2, <2>3
<1>12. \A j, k \in 1 .. n : place[j] = place[k] => j = k
  <2> SUFFICES ASSUME NEW j \in 1 .. n, NEW k \in 1 .. n, place[j] = place[k] PROVE j = k
    OBVIOUS
  <2>1. j - 1 = k - 1
    BY <1>9
  <2> QED BY <1>1, <2>1
<1>13. q \in Seq(Pid) /\ DOMAIN q = 1 .. n
  BY <1>1, <1>9, <1>10
<1>14. Distinct(q)
  <2>1. \A i, j \in 1 .. n : list[i] = list[j] => i = j
    BY <1>1 DEF Distinct
  <2>2. \A k \in 1 .. n : q[k] = list[place[k]] /\ place[k] \in 1 .. n
    BY <1>9, <1>10
  <2>3. ASSUME NEW j \in 1 .. n, NEW k \in 1 .. n, q[j] = q[k] PROVE j = k
    <3>1. place[j] = place[k]
      <4>1. PICK a : a = place[j]
        OBVIOUS
      <4>2. PICK b : b = place[k]
        OBVIOUS
      <4>3. a \in 1 .. n /\ b \in 1 .. n /\ list[a] = list[b]
        BY <2>2, <2>3, <4>1, <4>2
      <4> QED BY <2>1, <4>1, <4>2, <4>3
    <3> QED BY <1>12, <3>1
  <2> QED BY <1>13, <2>3 DEF Distinct
<1>15. ToSet(q) = ToSet(list)
  <2>1. ToSet(q) = {list[place[k]] : k \in 1 .. n} /\ ToSet(list) = {list[i] : i \in 1 .. n}
    BY <1>1, <1>10, <1>13 DEF ToSet
  <2>2. \A k \in 1 .. n : place[k] \in 1 .. n
    BY <1>9
  <2>3. ASSUME NEW i \in 1 .. n PROVE list[i] \in {list[place[k]] : k \in 1 .. n}
    <3>1. PICK k \in 1 .. n : place[k] = i
      BY <1>11
    <3> QED BY <3>1
  <2> QED BY <2>1, <2>2, <2>3
<1> QED BY <1>13, <1>14, <1>15 DEF SameThreads, q

(* Every policy arranges the threads that are on the list.                  *)
LEMMA ArrangedIs ==
  ASSUME CpuA2Types, NEW list \in Seq(Pid), list # <<>>, Distinct(list), NEW lasts \in [Pid -> Nat]
  PROVE  SameThreads(Arranged(list, lasts), list) /\ Arranged(list, lasts) # <<>>
<1>1. EstimatedBurst \in [Pid -> Nat] /\ initialPriority \in [Pid -> Nat]
  BY DEF CpuA2Types
<1>2. SameThreads(list, list)
  BY DEF SameThreads
<1>3. SameThreads(ShortestFirst(list, lasts), list) /\ SameThreads(ByKey(list, lasts), list)
  BY <1>1, ShortestIs, ByKeyIs
<1>4. SameThreads(Arranged(list, lasts), list)
  <2>1. CASE policy = "NON_PREEMPT_SJF"
    BY <1>3, <2>1 DEF Arranged
  <2>2. CASE policy # "NON_PREEMPT_SJF" /\ policy = "UNIX_SCHED"
    BY <1>3, <2>2 DEF Arranged
  <2>3. CASE policy # "NON_PREEMPT_SJF" /\ policy # "UNIX_SCHED"
    BY <1>2, <2>3 DEF Arranged
  <2> QED BY <2>1, <2>2, <2>3
<1>5. ToSet(list) # {}
  <2>1. list[1] \in ToSet(list)
    BY DEF ToSet
  <2> QED BY <2>1
<1>6. ToSet(<<>>) = {}
  BY DEF ToSet
<1>7. ToSet(Arranged(list, lasts)) = ToSet(list)
  BY <1>4 DEF SameThreads
<1> QED BY <1>4, <1>5, <1>6, <1>7

-----------------------------------------------------------------------------
(* What a change of statuses does to the list, the families and the polls.  *)

(* No thread of the batch is NoChild.                                       *)
LEMMA NoThread == NoChild \notin Pid
BY CpuA2Assumption DEF CpuA2Assumption, NoChild

(* The head of the arranged list runs.                                      *)
LEMMA OnListRun ==
  ASSUME NEW list, NEW st, OnList(list, st), NEW q, q # <<>>, SameThreads(q, list)
  PROVE  /\ OnList(Tail(q), [st EXCEPT ![Head(q)] = "RUNNING"])
         /\ Head(q) \in Pid /\ st[Head(q)] = "READY" /\ Head(q) \notin ToSet(Tail(q))
<1>1. q \in Seq(Pid) /\ Distinct(q) /\ ToSet(q) = ToSet(list)
  BY DEF SameThreads
<1>2. /\ Head(q) \in Pid /\ Head(q) \in ToSet(q) /\ Tail(q) \in Seq(Pid) /\ Distinct(Tail(q))
      /\ ToSet(Tail(q)) = ToSet(q) \ {Head(q)}
  <2>1. PICK since \in [Pid -> Int] : TRUE
    <3>1. [t \in Pid |-> 0] \in [Pid -> Int]
      OBVIOUS
    <3> QED BY <3>1
  <2>2. PICK now \in Int : now = 0
    OBVIOUS
  <2> QED BY <1>1, HeadLeaves
<1>3. PICK h, r : h = Head(q) /\ r = Tail(q)
  OBVIOUS
<1>4. st \in [Pid -> Statuses] /\ \A t \in Pid : t \in ToSet(list) <=> st[t] = "READY"
  BY DEF OnList
<1>5. OnList(r, [st EXCEPT ![h] = "RUNNING"])
  BY <1>1, <1>2, <1>3, <1>4 DEF OnList, Statuses
<1> QED BY <1>1, <1>2, <1>3, <1>4, <1>5

(* Other threads become ready.                                              *)
LEMMA OnListReady ==
  ASSUME NEW list, NEW st, OnList(list, st), NEW ts \in Seq(Pid), Distinct(ts),
         \A t \in ToSet(ts) : st[t] # "READY"
  PROVE  /\ OnList(list \o ts, [t \in Pid |-> IF t \in ToSet(ts) THEN "READY" ELSE st[t]])
         /\ ToSet(list) \cap ToSet(ts) = {}
<1>1. /\ list \in Seq(Pid) /\ Distinct(list) /\ st \in [Pid -> Statuses]
      /\ \A t \in Pid : t \in ToSet(list) <=> st[t] = "READY"
  BY DEF OnList
<1>2. ToSet(ts) \subseteq Pid
  BY DEF ToSet
<1>3. ToSet(list) \cap ToSet(ts) = {}
  BY <1>1, <1>2
<1>4. /\ list \o ts \in Seq(Pid) /\ Distinct(list \o ts)
      /\ ToSet(list \o ts) = ToSet(list) \cup ToSet(ts)
  BY <1>1, <1>3, ConcatDistinct
<1>5. PICK both : both = list \o ts
  OBVIOUS
<1>6. OnList(both, [t \in Pid |-> IF t \in ToSet(ts) THEN "READY" ELSE st[t]])
  BY <1>1, <1>2, <1>4, <1>5 DEF OnList, Statuses
<1> QED BY <1>3, <1>5, <1>6

(* A thread that is not ready stays off the list.                           *)
LEMMA OnListOff ==
  ASSUME NEW list, NEW st, OnList(list, st), NEW t \in Pid, st[t] # "READY"
  PROVE  OnList(list, [st EXCEPT ![t] = "BLOCKED"])
BY DEF OnList, Statuses

(* Families do not tell running threads from ready ones.                    *)
LEMMA FamiliesStatus ==
  ASSUME NEW st, NEW later, NEW asleep, NEW exited, NEW waits, NEW par, NEW told,
         Families(st, asleep, exited, waits, par, told),
         \A t \in Pid : /\ later[t] = "BLOCKED" <=> st[t] = "BLOCKED"
                        /\ st[t] # "NONE" => later[t] # "NONE"
  PROVE  Families(later, asleep, exited, waits, par, told)
<1>1. \A t \in Pid : waits[t] # NoChild => waits[t] \in Pid
  BY DEF Families
<1> QED BY <1>1 DEF Families

(* A thread falls asleep.                                                   *)
LEMMA FamiliesSleep ==
  ASSUME NEW st, NEW asleep, NEW exited, NEW waits, NEW par, NEW told,
         st \in [Pid -> Statuses], Families(st, asleep, exited, waits, par, told),
         NEW me \in Pid, st[me] = "RUNNING"
  PROVE  Families([st EXCEPT ![me] = "BLOCKED"], asleep \cup {me}, exited, waits, par, told)
<1>1. \A t \in Pid : waits[t] # NoChild => waits[t] \in Pid
  BY DEF Families
<1>2. waits[me] = NoChild /\ me \notin exited
  BY DEF Families
<1> QED BY <1>1, <1>2 DEF Families

(* A thread waits for a child of which it does not know that it has exited. *)
LEMMA FamiliesJoin ==
  ASSUME NEW st, NEW asleep, NEW exited, NEW waits, NEW par, NEW told,
         st \in [Pid -> Statuses], Families(st, asleep, exited, waits, par, told),
         NEW me \in Pid, st[me] = "RUNNING",
         NEW child \in Pid, st[child] # "NONE", par[child] = me, child \notin told
  PROVE  Families([st EXCEPT ![me] = "BLOCKED"], asleep, exited, [waits EXCEPT ![me] = child],
                  par, told)
<1>1. \A t \in Pid : waits[t] # NoChild => waits[t] \in Pid
  BY DEF Families
<1>2. me \notin exited /\ me \notin asleep /\ me # NoChild /\ child # NoChild
  BY NoThread DEF Families
<1>3. child \notin exited
  BY <1>2 DEF Families
<1>4. PICK w : w = [waits EXCEPT ![me] = child]
  OBVIOUS
<1>5. /\ w \in [Pid -> Pid \cup {NoChild}] /\ w[me] = child
      /\ \A t \in Pid : t # me => w[t] = waits[t]
  BY <1>4 DEF Families
<1>6. PICK s : s = [st EXCEPT ![me] = "BLOCKED"]
  OBVIOUS
<1>7. /\ s[me] = "BLOCKED" /\ \A t \in Pid : t # me => s[t] = st[t]
      /\ \A t \in Pid : st[t] # "NONE" => s[t] # "NONE"
  BY <1>6
<1>8. Families(s, asleep, exited, w, par, told)
  BY <1>1, <1>2, <1>3, <1>5, <1>7 DEF Families
<1> QED BY <1>4, <1>6, <1>8

(* A child is born.                                                         *)
LEMMA FamiliesBorn ==
  ASSUME NEW st, NEW asleep, NEW exited, NEW waits, NEW par, NEW told,
         Families(st, asleep, exited, waits, par, told),
         NEW me \in Pid, NEW t \in Pid, st[t] = "NONE", NEW later,
         \A u \in Pid : later[u] = IF u = t THEN "READY" ELSE st[u]
  PROVE  Families(later, asleep, exited, waits, [par EXCEPT ![t] = me], told)
<1>1. \A u \in Pid : waits[u] # NoChild => waits[u] \in Pid /\ waits[u] # t
  BY DEF Families
<1>2. PICK p : p = [par EXCEPT ![t] = me]
  OBVIOUS
<1>3. p \in [Pid -> Pid \cup {NoChild}] /\ \A u \in Pid : u # t => p[u] = par[u]
  BY <1>2 DEF Families
<1>4. Families(later, asleep, exited, waits, p, told)
  BY <1>1, <1>3 DEF Families
<1> QED BY <1>2, <1>4

(* Sleepers wake up.                                                        *)
LEMMA FamiliesWake ==
  ASSUME NEW st, NEW asleep, NEW exited, NEW waits, NEW par, NEW told,
         Families(st, asleep, exited, waits, par, told),
         NEW woken, NEW rest, woken \cap rest = {}, woken \cup rest = asleep, NEW later,
         \A t \in Pid : later[t] = IF t \in woken THEN "READY" ELSE st[t]
  PROVE  Families(later, rest, exited, waits, par, told)
<1>1. \A t \in Pid : waits[t] # NoChild => waits[t] \in Pid
  BY DEF Families
<1>2. \A t \in Pid : t \in woken => st[t] = "BLOCKED" /\ waits[t] = NoChild /\ t \notin exited
  BY DEF Families
<1> QED BY <1>1, <1>2 DEF Families

(* The parent that an exiting thread tells and wakes, if it waits for it.   *)
Wakes(me, exited, waits, par) ==
  par[me] # NoChild /\ par[me] \notin exited /\ waits[par[me]] = me

(* A thread exits.                                                          *)
LEMMA FamiliesExit ==
  ASSUME NEW st, NEW asleep, NEW exited, NEW waits, NEW par, NEW told,
         st \in [Pid -> Statuses], Families(st, asleep, exited, waits, par, told),
         NEW me \in Pid, st[me] = "RUNNING", NEW later, NEW left, NEW knows,
         \A t \in Pid : later[t] = IF t = me THEN "BLOCKED"
                                   ELSE IF Wakes(me, exited, waits, par) /\ t = par[me] THEN "READY"
                                   ELSE st[t],
         left \in [Pid -> Pid \cup {NoChild}],
         \A t \in Pid : left[t] = IF Wakes(me, exited, waits, par) /\ t = par[me] THEN NoChild
                                  ELSE waits[t],
         told \subseteq knows, par[me] # NoChild /\ par[me] \notin exited => me \in knows
  PROVE  Families(later, asleep, exited \cup {me}, left, par, knows)
<1>1. \A t \in Pid : waits[t] # NoChild => waits[t] \in Pid
  BY DEF Families
<1>2. /\ waits[me] = NoChild /\ me \notin exited /\ me \notin asleep
      /\ me # NoChild
  BY NoThread DEF Families
<1>3. \A t \in Pid : waits[t] = me => Wakes(me, exited, waits, par) /\ t = par[me]
  BY <1>2, NoThread DEF Families, Wakes
<1>4. Wakes(me, exited, waits, par) =>
        /\ par[me] \in Pid /\ par[me] # me /\ par[me] \notin exited /\ par[me] \notin asleep
        /\ st[par[me]] = "BLOCKED" /\ waits[par[me]] = me
  BY <1>2 DEF Families, Wakes
<1>5. /\ exited \subseteq Pid /\ par \in [Pid -> Pid \cup {NoChild}]
      /\ \A t \in Pid :
           /\ t \in exited => st[t] = "BLOCKED" /\ waits[t] = NoChild
           /\ t \in asleep => st[t] = "BLOCKED" /\ waits[t] = NoChild /\ t \notin exited
           /\ waits[t] # NoChild =>
                st[t] = "BLOCKED" /\ st[waits[t]] # "NONE" /\ waits[t] \notin exited
                /\ par[waits[t]] = t
           /\ st[t] = "BLOCKED" /\ t \notin exited /\ waits[t] = NoChild => t \in asleep
           /\ t \in exited /\ par[t] # NoChild /\ par[t] \notin exited => t \in told
  BY DEF Families
<1>6. CASE Wakes(me, exited, waits, par)
  <2>1. PICK p \in Pid : p = par[me]
    BY <1>4, <1>6
  <2>2. /\ \A t \in Pid : later[t] = IF t = me THEN "BLOCKED" ELSE IF t = p THEN "READY" ELSE st[t]
        /\ \A t \in Pid : left[t] = IF t = p THEN NoChild ELSE waits[t]
        /\ p # me /\ p \notin exited /\ p \notin asleep /\ waits[p] = me
        /\ \A t \in Pid : waits[t] = me => t = p
    BY <1>3, <1>4, <1>6, <2>1
  <2>3. \A t \in Pid : st[t] # "NONE" => later[t] # "NONE"
    BY <2>2
  <2>4. ASSUME NEW t \in Pid
        PROVE  /\ t \in exited \cup {me} => later[t] = "BLOCKED" /\ left[t] = NoChild
               /\ t \in asleep =>
                    later[t] = "BLOCKED" /\ left[t] = NoChild /\ t \notin exited \cup {me}
               /\ later[t] = "BLOCKED" /\ t \notin exited \cup {me} /\ left[t] = NoChild
                    => t \in asleep
    BY <1>2, <1>5, <2>2
  <2>5. ASSUME NEW t \in Pid, left[t] # NoChild
        PROVE  /\ later[t] = "BLOCKED" /\ later[left[t]] # "NONE" /\ left[t] \notin exited \cup {me}
               /\ par[left[t]] = t
    <3>1. t # p /\ left[t] = waits[t] /\ waits[t] # me /\ waits[t] \in Pid
      BY <1>1, <2>2, <2>5
    <3> QED BY <1>2, <1>5, <2>2, <2>3, <2>5, <3>1
  <2>6. ASSUME NEW t \in Pid, t \in exited \cup {me}, par[t] # NoChild, par[t] \notin exited \cup {me}
        PROVE  t \in knows
    BY <1>5, <2>6
  <2> QED BY <1>5, <2>4, <2>5, <2>6 DEF Families
<1>7. CASE ~Wakes(me, exited, waits, par)
  <2>2. /\ \A t \in Pid : later[t] = IF t = me THEN "BLOCKED" ELSE st[t]
        /\ \A t \in Pid : left[t] = waits[t] /\ waits[t] # me
    BY <1>3, <1>7
  <2>3. \A t \in Pid : st[t] # "NONE" => later[t] # "NONE"
    BY <2>2
  <2>4. ASSUME NEW t \in Pid
        PROVE  /\ t \in exited \cup {me} => later[t] = "BLOCKED" /\ left[t] = NoChild
               /\ t \in asleep =>
                    later[t] = "BLOCKED" /\ left[t] = NoChild /\ t \notin exited \cup {me}
               /\ later[t] = "BLOCKED" /\ t \notin exited \cup {me} /\ left[t] = NoChild
                    => t \in asleep
    BY <1>2, <1>5, <2>2
  <2>5. ASSUME NEW t \in Pid, left[t] # NoChild
        PROVE  /\ later[t] = "BLOCKED" /\ later[left[t]] # "NONE" /\ left[t] \notin exited \cup {me}
               /\ par[left[t]] = t
    <3>1. left[t] = waits[t] /\ waits[t] # me /\ waits[t] \in Pid
      BY <1>1, <2>2, <2>5
    <3> QED BY <1>2, <1>5, <2>2, <2>3, <2>5, <3>1
  <2>6. ASSUME NEW t \in Pid, t \in exited \cup {me}, par[t] # NoChild, par[t] \notin exited \cup {me}
        PROVE  t \in knows
    BY <1>5, <2>6
  <2> QED BY <1>5, <2>4, <2>5, <2>6 DEF Families
<1> QED BY <1>6, <1>7

(* Nobody else blocks.                                                      *)
LEMMA PollsStatus ==
  ASSUME NEW pend, NEW st, NEW later, Polls(pend, st),
         \A t \in Pid : t # 0 /\ later[t] = "BLOCKED" => st[t] = "BLOCKED"
  PROVE  Polls(pend, later)
BY DEF Polls

-----------------------------------------------------------------------------
(* What the kernel does on the way to a switch.                             *)

(* ExceptionHandler makes a console, and the console polls.                 *)
LEMMA NewConsoleDoes ==
  ASSUME IInv, NewConsole
  PROVE  \A st : Polls(pending', st)
<1> DEFINE consoles == {i \in DOMAIN pending : pending[i].type = "console"}
           e == [type |-> "console", when |-> totalTicks + ConsoleTime]
<1>1. /\ pending \in Seq(Interrupt) /\ pending # <<>> /\ Ordered(pending) /\ totalTicks \in Nat
      /\ ConsoleTime \in Nat \ {0} /\ MaxConsoles \in Nat \ {0}
  BY CpuA2Assumption DEF CpuA2Assumption, IInv, CpuA2Types, Polls
<1>2. CASE Cardinality(consoles) < MaxConsoles
  <2>1. pending' = SortedInsert(e, pending)
    BY <1>2 DEF NewConsole
  <2>2. e \in Interrupt /\ e.type = "console"
    BY <1>1 DEF Interrupt
  <2> HIDE DEF e, consoles
  <2>3. \A x \in Interrupt : x.when \in Nat
    BY DEF Interrupt
  <2>4. /\ pending' \in Seq(Interrupt) /\ Len(pending') = Len(pending) + 1 /\ Ordered(pending')
        /\ ToSet(pending') = ToSet(pending) \cup {e}
    BY SMTT(30), ZenonT(30), <1>1, <2>1, <2>2, <2>3, InsertForm
  <2>5. pending' # <<>>
    BY <1>1, <2>4
  <2> QED BY <2>2, <2>4, <2>5 DEF Polls
<1>3. CASE ~(Cardinality(consoles) < MaxConsoles)
  <2>1. pending' = pending
    BY <1>3 DEF NewConsole
  <2>2. consoles # {}
    <3>1. Cardinality({}) = 0
      BY FS_EmptySet
    <3>2. Cardinality(consoles) # 0
      <4> HIDE DEF consoles
      <4> QED BY <1>1, <1>3
    <3> HIDE DEF consoles
    <3> QED BY <3>1, <3>2
  <2>3. PICK i \in DOMAIN pending : pending[i].type = "console"
    BY <2>2
  <2>4. pending[i] \in ToSet(pending)
    BY DEF ToSet
  <2> QED BY <1>1, <2>1, <2>3, <2>4 DEF Polls
<1> QED BY <1>2, <1>3

(* A burst ends, and is charged.                                            *)
LEMMA BurstEnds ==
  ASSUME IInv, EndBurst
  PROVE  /\ totalBurst' = totalBurst + Burst /\ Burst \in Nat /\ LastBurst' \in [Pid -> Nat]
         /\ Busy => totalBurst' \in Int /\ totalBurst' + idleTicks = totalTicks
<1>1. /\ totalTicks \in Nat /\ idleTicks \in Int /\ totalBurst \in Int /\ Burst \in Nat
      /\ LastBurst \in [Pid -> Nat]
  BY DEF IInv, CpuA2Types, Burst
<1>2. totalBurst + idleTicks + (IF Busy THEN Burst ELSE 0) = totalTicks
  BY DEF IInv, TicksAccounted
<1>3. totalBurst' = totalBurst + Burst
  BY DEF EndBurst
<1>4. Scale \in Nat
  BY CpuA2Assumption DEF CpuA2Assumption
<1> HIDE DEF Burst
<1>5. LastBurst' \in [Pid -> Nat]
  <2> DEFINE last(t) == IF t = currentThread THEN Burst * Scale ELSE LastBurst[t]
  <2>1. \A t \in Pid : last(t) \in Nat
    BY <1>1, <1>4
  <2>2. LastBurst' = [t \in Pid |->
           IF policy = "UNIX_SCHED" /\ t \in Created \ exitThreadArray' THEN last(t) \div 2
           ELSE last(t)]
    BY DEF EndBurst
  <2> HIDE DEF last
  <2>3. \A t \in Pid : last(t) \div 2 \in Nat
    BY <2>1
  <2> QED BY <2>1, <2>2, <2>3
<1> QED BY <1>1, <1>2, <1>3, <1>5

(* The estimates that are made are numbers.                                 *)
LEMMA EstimatesAre ==
  ASSUME CpuA2Types, NEW list, NEW lasts \in [Pid -> Nat]
  PROVE  [u \in Pid |-> Estimated(u, list, lasts)] \in [Pid -> Nat]
<1>1. EstimatedBurst \in [Pid -> Nat]
  BY DEF CpuA2Types
<1>2. \A u \in Pid : (lasts[u] + EstimatedBurst[u]) \div 2 \in Nat
  BY <1>1
<1> QED BY <1>1, <1>2 DEF Estimated

(* A thread has been dispatched, whatever came before it in the same step.  *)
LEMMA RunsKeeps ==
  ASSUME IInv, NEW st,
         UNCHANGED <<policy, totalTicks, idleTicks, readyIntegral, initialPriority>>,
         mode' = "kernel", currentThread' \in Pid, OnList(readyList', status'),
         \A t \in Pid : status'[t] = "RUNNING" <=> t = currentThread',
         burstStartTime' = totalTicks, totalBurst' \in Int, totalBurst' + idleTicks = totalTicks,
         LastBurst' \in [Pid -> Nat], EstimatedBurst' \in [Pid -> Nat],
         waitStartTime' \in [Pid -> Int], threadWaitTime' \in Int,
         threadWaitTime' + Waited(readyList', totalTicks, waitStartTime') = readyIntegral,
         Sleeping(sleepQueue'),
         Families(st, Asleep(sleepQueue'), exitThreadArray', waitchild_id', ppid', exitedChild'),
         Polls(pending', st), st[0] = "BLOCKED" => 0 \in exitThreadArray',
         \A t \in Pid : /\ status'[t] = "BLOCKED" <=> st[t] = "BLOCKED"
                        /\ st[t] # "NONE" => status'[t] # "NONE"
  PROVE  IInv'
<1>1. /\ policy' = policy /\ totalTicks' = totalTicks /\ idleTicks' = idleTicks
      /\ readyIntegral' = readyIntegral /\ initialPriority' = initialPriority
  OBVIOUS
<1>2. CpuA2Types /\ totalTicks \in Nat /\ 0 \in Pid
  BY CpuA2Assumption DEF IInv, CpuA2Types, CpuA2Assumption
<1>3. CpuA2Types'
  <2>1. mode' \in Modes
    BY DEF Modes
  <2> QED BY <1>1, <1>2, <2>1 DEF CpuA2Types
<1>4. Families(status', Asleep(sleepQueue'), exitThreadArray', waitchild_id', ppid', exitedChild')
  <2>1. PICK s, z, x, w, p, k : /\ s = status' /\ z = Asleep(sleepQueue') /\ x = exitThreadArray'
                                /\ w = waitchild_id' /\ p = ppid' /\ k = exitedChild'
    OBVIOUS
  <2>2. Families(s, z, x, w, p, k)
    <3>1. Families(st, z, x, w, p, k)
      BY <2>1
    <3> QED BY <2>1, <3>1, FamiliesStatus
  <2> QED BY <2>1, <2>2
<1>5. Polls(pending', status')
  <2>1. PICK s, q : s = status' /\ q = pending'
    OBVIOUS
  <2>2. Polls(q, s)
    BY <2>1, PollsStatus
  <2> QED BY <2>1, <2>2
<1>6. Modal(status)'
  BY <1>2 DEF Modal, Busy
<1>7. TicksAccounted'
  <2>1. totalTicks - totalTicks = 0
    BY <1>2
  <2>2. Busy' /\ Burst' = 0
    BY <1>1, <2>1 DEF Busy, Burst
  <2>3. totalBurst' + idleTicks' + 0 = totalTicks'
    BY <1>1, <1>2
  <2> QED BY <1>1, <2>2, <2>3 DEF TicksAccounted
<1>8. HaltsAtTheEnd'
  <2>1. currentThread' \in Created'
    BY DEF Created
  <2>2. currentThread' \notin exitThreadArray'
    BY <1>4 DEF Families
  <2> QED BY <2>1, <2>2 DEF HaltsAtTheEnd
<1> QED BY <1>3, <1>4, <1>5, <1>6, <1>7, <1>8 DEF IInv

(* Nobody runs: the processor has nothing to do, or the machine is halted.  *)
LEMMA OffKeeps ==
  ASSUME IInv,
         UNCHANGED <<policy, totalTicks, idleTicks, readyIntegral, initialPriority, currentThread,
                     EstimatedBurst, burstStartTime, waitStartTime, threadWaitTime, readyList>>,
         mode' \in {"idle", "halted"}, readyList = <<>>, OnList(readyList, status'),
         \A t \in Pid : status'[t] # "RUNNING",
         totalBurst' \in Int, totalBurst' + idleTicks = totalTicks, LastBurst' \in [Pid -> Nat],
         Sleeping(sleepQueue'),
         Families(status', Asleep(sleepQueue'), exitThreadArray', waitchild_id', ppid', exitedChild'),
         Polls(pending', status'), status'[0] = "BLOCKED" => 0 \in exitThreadArray',
         mode' = "halted" <=> Created' \subseteq exitThreadArray'
  PROVE  IInv'
<1>1. /\ policy' = policy /\ totalTicks' = totalTicks /\ idleTicks' = idleTicks
      /\ readyIntegral' = readyIntegral /\ initialPriority' = initialPriority
      /\ currentThread' = currentThread /\ EstimatedBurst' = EstimatedBurst
      /\ burstStartTime' = burstStartTime /\ waitStartTime' = waitStartTime
      /\ threadWaitTime' = threadWaitTime /\ readyList' = readyList
  OBVIOUS
<1>2. CpuA2Types /\ totalTicks \in Nat
  BY DEF IInv, CpuA2Types
<1>3. CpuA2Types'
  <2>1. mode' \in Modes
    BY DEF Modes
  <2> QED BY <1>1, <1>2, <2>1 DEF CpuA2Types
<1>4. ~Busy'
  BY DEF Busy
<1>5. Modal(status)'
  BY <1>1, <1>4 DEF Modal
<1>6. TicksAccounted'
  <2>1. threadWaitTime + Waited(readyList, totalTicks, waitStartTime) = readyIntegral
    BY DEF IInv, TicksAccounted
  <2>2. totalBurst' + idleTicks' + 0 = totalTicks'
    BY <1>1, <1>2
  <2> QED BY <1>1, <1>4, <2>1, <2>2 DEF TicksAccounted
<1>7. HaltsAtTheEnd'
  BY DEF HaltsAtTheEnd
<1>8. OnList(readyList', status')
  BY <1>1
<1> QED BY <1>3, <1>5, <1>6, <1>7, <1>8 DEF IInv

(* FindNextToRun and Run.                                                   *)
LEMMA DispatchKeeps ==
  ASSUME IInv, NEW list, NEW st, NEW waits \in [Pid -> Int], NEW lasts \in [Pid -> Nat],
         list # <<>>, Dispatch(list, st, waits, lasts), OnList(list, st),
         \A t \in Pid : st[t] # "RUNNING",
         threadWaitTime + Waited(list, totalTicks, waits) = readyIntegral,
         UNCHANGED <<policy, totalTicks, idleTicks, readyIntegral, initialPriority>>,
         totalBurst' \in Int, totalBurst' + idleTicks = totalTicks, LastBurst' \in [Pid -> Nat],
         Sleeping(sleepQueue'),
         Families(st, Asleep(sleepQueue'), exitThreadArray', waitchild_id', ppid', exitedChild'),
         Polls(pending', st), st[0] = "BLOCKED" => 0 \in exitThreadArray'
  PROVE  IInv'
<1>1. PICK next : next = Arranged(list, lasts)
  OBVIOUS
<1>2. PICK t : t = Head(next)
  OBVIOUS
<1>3. /\ currentThread' = t /\ readyList' = Tail(next) /\ status' = [st EXCEPT ![t] = "RUNNING"]
      /\ EstimatedBurst' = [u \in Pid |-> Estimated(u, list, lasts)]
      /\ burstStartTime' = totalTicks /\ waitStartTime' = waits
      /\ threadWaitTime' = threadWaitTime + totalTicks - waits[t] /\ mode' = "kernel"
  BY <1>1, <1>2 DEF Dispatch
<1>4. CpuA2Types /\ totalTicks \in Int /\ threadWaitTime \in Int /\ readyIntegral \in Int
  BY DEF IInv, CpuA2Types
<1>5. list \in Seq(Pid) /\ Distinct(list) /\ st \in [Pid -> Statuses]
  BY DEF OnList
<1>6. SameThreads(next, list) /\ next # <<>>
  BY <1>1, <1>4, <1>5, ArrangedIs
<1>7. /\ OnList(Tail(next), [st EXCEPT ![t] = "RUNNING"]) /\ t \in Pid /\ st[t] = "READY"
  BY <1>2, <1>6, OnListRun
<1>8. OnList(readyList', status')
  BY <1>3, <1>7
<1>9. /\ \A u \in Pid : status'[u] = "RUNNING" <=> u = currentThread'
      /\ \A u \in Pid : /\ status'[u] = "BLOCKED" <=> st[u] = "BLOCKED"
                        /\ st[u] # "NONE" => status'[u] # "NONE"
  BY <1>3, <1>5, <1>7
<1>10. EstimatedBurst' \in [Pid -> Nat]
  BY <1>3, <1>4, EstimatesAre
<1>11. threadWaitTime' \in Int
       /\ threadWaitTime' + Waited(readyList', totalTicks, waitStartTime') = readyIntegral
  <2>1. next \in Seq(Pid) /\ Distinct(next) /\ ToSet(next) = ToSet(list)
    BY <1>6 DEF SameThreads
  <2>2. Waited(next, totalTicks, waits) = Waited(list, totalTicks, waits)
    BY <1>4, <1>5, <2>1, WaitedPermuted
  <2>3. Waited(Tail(next), totalTicks, waits) + (totalTicks - waits[t])
          = Waited(next, totalTicks, waits)
    BY <1>2, <1>4, <1>6, <2>1, HeadLeaves
  <2>4. Waited(next, totalTicks, waits) \in Int /\ Waited(Tail(next), totalTicks, waits) \in Int
    <3>1. Tail(next) \in Seq(Pid)
      BY <1>7 DEF OnList
    <3> QED BY <1>4, <2>1, <3>1, WaitedInt
  <2>5. waits[t] \in Int
    BY <1>7
  <2>6. threadWaitTime + totalTicks - waits[t] \in Int
        /\ (threadWaitTime + totalTicks - waits[t]) + Waited(Tail(next), totalTicks, waits)
             = readyIntegral
    BY <1>4, <2>2, <2>3, <2>4, <2>5
  <2> QED BY <1>3, <2>6
<1>12. waitStartTime' \in [Pid -> Int] /\ currentThread' \in Pid
       /\ burstStartTime' = totalTicks /\ mode' = "kernel"
  BY <1>3, <1>7
<1> QED BY <1>8, <1>9, <1>10, <1>11, <1>12, RunsKeeps

(* The end of PutThreadToSleep and Exit: the next thread or the idle loop.  *)
LEMMA SwitchKeeps ==
  ASSUME IInv, NEW list, NEW st, NEW waits \in [Pid -> Int],
         DispatchOrIdle(list, st, waits), OnList(list, st),
         list = <<>> => readyList = <<>>,
         \A t \in Pid : st[t] # "RUNNING",
         threadWaitTime + Waited(list, totalTicks, waits) = readyIntegral,
         UNCHANGED <<policy, totalTicks, idleTicks, readyIntegral, initialPriority>>,
         totalBurst' \in Int, totalBurst' + idleTicks = totalTicks, LastBurst' \in [Pid -> Nat],
         Sleeping(sleepQueue'),
         Families(st, Asleep(sleepQueue'), exitThreadArray', waitchild_id', ppid', exitedChild'),
         Polls(pending', st), st[0] = "BLOCKED" => 0 \in exitThreadArray',
         list = <<>> => \E t \in Pid : st[t] # "NONE" /\ t \notin exitThreadArray'
  PROVE  IInv'
<1>1. CASE list # <<>>
  <2>1. PICK lasts : lasts = LastBurst'
    OBVIOUS
  <2>2. lasts \in [Pid -> Nat]
    BY <2>1
  <2>3. Dispatch(list, st, waits, lasts)
    BY <1>1, <2>1 DEF DispatchOrIdle, Dispatch
  <2> QED BY <1>1, <2>2, <2>3, DispatchKeeps
<1>2. CASE list = <<>>
  <2>1. /\ mode' = "idle" /\ status' = st /\ readyList = <<>>
        /\ UNCHANGED <<currentThread, readyList, EstimatedBurst, burstStartTime, waitStartTime,
                       threadWaitTime>>
    BY <1>2 DEF DispatchOrIdle
  <2>2. ~(Created' \subseteq exitThreadArray')
    BY <1>2, <2>1 DEF Created
  <2>3. OnList(readyList, status')
    BY <1>2, <2>1
  <2> QED BY <2>1, <2>2, <2>3, OffKeeps
<1> QED BY <1>1, <1>2

(* One thread as a list.                                                    *)
LEMMA Single ==
  ASSUME NEW t \in Pid, NEW list \in Seq(Pid)
  PROVE  /\ <<t>> \in Seq(Pid) /\ Distinct(<<t>>) /\ ToSet(<<t>>) = {t} /\ <<t>> # <<>>
         /\ Append(list, t) = list \o <<t>>
<1>1. <<t>> \in Seq(Pid) /\ <<t>> # <<>> /\ DOMAIN <<t>> = {1} /\ <<t>>[1] = t
  OBVIOUS
<1>2. Distinct(<<t>>)
  BY <1>1 DEF Distinct
<1>3. ToSet(<<t>>) = {t}
  BY <1>1 DEF ToSet
<1> QED BY <1>1, <1>2, <1>3, AppendIsConcat

(* Threads become ready, behind those that are.                             *)
LEMMA ReadyDoes ==
  ASSUME IInv, NEW ts \in Seq(Pid), Distinct(ts), \A t \in ToSet(ts) : status[t] # "READY"
  PROVE  /\ OnList(readyList \o ts, Readied(ts))
         /\ Waiting(ts) \in [Pid -> Int]
         /\ threadWaitTime + Waited(readyList \o ts, totalTicks, Waiting(ts)) = readyIntegral
         /\ readyList \o ts = <<>> => readyList = <<>> /\ ts = <<>>
<1>1. /\ OnList(readyList \o ts, Readied(ts))
      /\ ToSet(readyList) \cap ToSet(ts) = {}
  BY OnListReady DEF IInv, Readied
<1>2. waitStartTime \in [Pid -> Int] /\ totalTicks \in Int /\ readyList \in Seq(Pid)
  BY DEF IInv, CpuA2Types, OnList
<1>3. Waited(readyList \o ts, totalTicks, Waiting(ts))
        = Waited(readyList, totalTicks, waitStartTime)
  <2>1. \A list \in Seq(Pid), since \in [Pid -> Int], now \in Int :
          ToSet(list) \cap ToSet(ts) = {} =>
            Waited(list \o ts, now, [t \in Pid |-> IF t \in ToSet(ts) THEN now ELSE since[t]])
              = Waited(list, now, since)
    BY WaitedJoined
  <2> QED BY <1>1, <1>2, <2>1, Zenon DEF Waiting
<1>4. Waiting(ts) \in [Pid -> Int]
  BY <1>2 DEF Waiting
<1>5. readyList \o ts = <<>> => readyList = <<>> /\ ts = <<>>
  BY <1>2
<1> QED BY <1>1, <1>3, <1>4, <1>5 DEF IInv, TicksAccounted

(* What is known of the thread that runs.                                   *)
LEMMA Running ==
  ASSUME IInv, Busy
  PROVE  /\ currentThread \in Pid /\ status[currentThread] = "RUNNING"
         /\ \A t \in Pid : status[t] = "RUNNING" => t = currentThread
         /\ currentThread \notin exitThreadArray /\ waitchild_id[currentThread] = NoChild
         /\ currentThread \notin Asleep(sleepQueue)
         /\ status[0] = "BLOCKED" => 0 \in exitThreadArray
         /\ status \in [Pid -> Statuses] /\ 0 \in Pid
         /\ totalTicks \in Nat /\ threadWaitTime \in Int /\ readyIntegral \in Int
<1>1. /\ currentThread \in Pid /\ 0 \in Pid /\ status \in [Pid -> Statuses]
      /\ totalTicks \in Nat /\ threadWaitTime \in Int /\ readyIntegral \in Int
  BY CpuA2Assumption DEF CpuA2Assumption, IInv, CpuA2Types, OnList
<1>2. /\ \A t \in Pid : status[t] = "RUNNING" <=> t = currentThread
      /\ status[0] = "BLOCKED" => 0 \in exitThreadArray
  BY DEF IInv, Modal
<1>3. status[currentThread] = "RUNNING"
  BY <1>1, <1>2
<1>4. /\ currentThread \notin exitThreadArray /\ waitchild_id[currentThread] = NoChild
      /\ currentThread \notin Asleep(sleepQueue)
  BY <1>1, <1>3 DEF IInv, Families
<1> QED BY <1>1, <1>2, <1>3, <1>4

(* A yield, of a thread or by the timer.                                    *)
LEMMA YieldKeeps ==
  ASSUME IInv, Busy, YieldCPU, Polls(pending', status),
         UNCHANGED <<policy, totalTicks, idleTicks, readyIntegral, initialPriority, sleepQueue>>
  PROVE  IInv'
<1>1. PICK t : t = currentThread
  OBVIOUS
<1>2. PICK me : me = <<t>>
  OBVIOUS
<1>3. /\ t \in Pid /\ status[t] = "RUNNING" /\ \A u \in Pid : status[u] = "RUNNING" => u = t
      /\ status[0] = "BLOCKED" => 0 \in exitThreadArray
      /\ status \in [Pid -> Statuses] /\ 0 \in Pid /\ totalTicks \in Int
      /\ threadWaitTime \in Int /\ readyIntegral \in Int
  BY <1>1, Running
<1>4. OnList(readyList, status) /\ readyList \in Seq(Pid) /\ Distinct(readyList) /\ CpuA2Types
  BY DEF IInv, OnList
<1>5. me \in Seq(Pid) /\ Distinct(me) /\ ToSet(me) = {t} /\ me # <<>>
  BY <1>2, <1>3, <1>4, Single
<1>6. /\ exitThreadArray' = exitThreadArray /\ ppid' = ppid /\ waitchild_id' = waitchild_id
      /\ exitedChild' = exitedChild /\ sleepQueue' = sleepQueue
  BY DEF YieldCPU, family
<1>7. /\ Sleeping(sleepQueue')
      /\ Families(status, Asleep(sleepQueue'), exitThreadArray', waitchild_id', ppid', exitedChild')
  BY <1>6 DEF IInv
<1>8. /\ OnList(readyList \o me, Readied(me)) /\ Waiting(me) \in [Pid -> Int]
      /\ threadWaitTime + Waited(readyList \o me, totalTicks, Waiting(me)) = readyIntegral
      /\ readyList \o me # <<>>
  BY <1>3, <1>5, ReadyDoes
<1>9. \A u \in Pid : Readied(me)[u] = IF u = t THEN "READY" ELSE status[u]
  BY <1>5 DEF Readied
<1>10. ASSUME EndBurst
       PROVE  /\ totalBurst' \in Int /\ totalBurst' + idleTicks = totalTicks
              /\ LastBurst' \in [Pid -> Nat]
  BY <1>10, BurstEnds
<1>11. CASE YieldToAll
  <2>1. PICK st, waits, lasts, list : /\ st = Readied(me) /\ waits = Waiting(me)
                                      /\ lasts = LastBurst' /\ list = readyList \o me
    OBVIOUS
  <2>2. EndBurst /\ Dispatch(list, st, waits, lasts)
    BY <1>1, <1>2, <1>11, <2>1 DEF YieldToAll, Dispatch
  <2>3. \A u \in Pid : /\ st[u] # "RUNNING" /\ (st[u] = "BLOCKED" <=> status[u] = "BLOCKED")
                       /\ status[u] # "NONE" => st[u] # "NONE"
    BY <1>3, <1>9, <2>1
  <2>4. Families(st, Asleep(sleepQueue'), exitThreadArray', waitchild_id', ppid', exitedChild')
    <3>1. PICK z, x, w, p, k : /\ z = Asleep(sleepQueue') /\ x = exitThreadArray'
                               /\ w = waitchild_id' /\ p = ppid' /\ k = exitedChild'
      OBVIOUS
    <3>2. Families(status, z, x, w, p, k)
      BY <1>7, <3>1
    <3>3. Families(st, z, x, w, p, k)
      BY <2>3, <3>2, FamiliesStatus
    <3> QED BY <3>1, <3>3
  <2>5. Polls(pending', st)
    <3>1. PICK q : q = pending'
      OBVIOUS
    <3>2. Polls(q, st)
      BY <2>3, <3>1, PollsStatus
    <3> QED BY <3>1, <3>2
  <2>6. st[0] = "BLOCKED" => 0 \in exitThreadArray'
    BY <1>3, <1>6, <2>3
  <2>7. /\ totalBurst' \in Int /\ totalBurst' + idleTicks = totalTicks
        /\ LastBurst' \in [Pid -> Nat] /\ lasts \in [Pid -> Nat]
    BY <1>10, <2>1, <2>2
  <2>8. /\ waits \in [Pid -> Int] /\ list # <<>> /\ OnList(list, st)
        /\ threadWaitTime + Waited(list, totalTicks, waits) = readyIntegral
    BY <1>8, <2>1
  <2> QED BY <1>7, <2>2, <2>3, <2>4, <2>5, <2>6, <2>7, <2>8, DispatchKeeps
<1>12. CASE YieldToOther
  <2>1. PICK next : next = Arranged(readyList, LastBurst)
    OBVIOUS
  <2>2. PICK h, r : h = Head(next) /\ r = Tail(next)
    OBVIOUS
  <2>3. /\ readyList # <<>> /\ EndBurst /\ currentThread' = h /\ readyList' = r \o me
        /\ status' = [Readied(me) EXCEPT ![h] = "RUNNING"]
        /\ EstimatedBurst' = [u \in Pid |-> Estimated(u, readyList, LastBurst)]
        /\ burstStartTime' = totalTicks /\ waitStartTime' = Waiting(me)
        /\ threadWaitTime' = threadWaitTime + totalTicks - waitStartTime[h] /\ mode' = "kernel"
    BY <1>1, <1>2, <1>12, <2>1, <2>2 DEF YieldToOther
  <2>4. LastBurst \in [Pid -> Nat] /\ waitStartTime \in [Pid -> Int]
    BY <1>4 DEF CpuA2Types
  <2>5. SameThreads(next, readyList) /\ next # <<>>
    BY <1>4, <2>1, <2>3, <2>4, ArrangedIs
  <2>6. PICK st : st = [status EXCEPT ![h] = "RUNNING"]
    OBVIOUS
  <2>7. OnList(r, st) /\ h \in Pid /\ status[h] = "READY" /\ h # t
    BY <1>3, <1>4, <2>2, <2>5, <2>6, OnListRun
  <2>8. /\ OnList(r \o me, [u \in Pid |-> IF u \in ToSet(me) THEN "READY" ELSE st[u]])
        /\ ToSet(r) \cap ToSet(me) = {}
    <3>1. \A u \in ToSet(me) : st[u] # "READY"
      BY <1>3, <1>5, <2>6, <2>7
    <3> QED BY <1>5, <2>7, <3>1, OnListReady
  <2>9. status' = [u \in Pid |-> IF u \in ToSet(me) THEN "READY" ELSE st[u]]
    BY <1>3, <1>5, <2>3, <2>6, <2>7 DEF Readied
  <2>10. OnList(readyList', status')
    BY <2>3, <2>8, <2>9
  <2>11. \A u \in Pid : /\ status'[u] = "RUNNING" <=> u = currentThread'
                        /\ status'[u] = "BLOCKED" <=> status[u] = "BLOCKED"
                        /\ status[u] # "NONE" => status'[u] # "NONE"
    BY <1>3, <1>5, <2>3, <2>6, <2>7, <2>9
  <2>12. /\ threadWaitTime' \in Int
         /\ threadWaitTime' + Waited(readyList', totalTicks, waitStartTime') = readyIntegral
    <3>1. next \in Seq(Pid) /\ Distinct(next) /\ ToSet(next) = ToSet(readyList) /\ r \in Seq(Pid)
      BY <2>5, <2>7 DEF SameThreads, OnList
    <3>2. Waited(next, totalTicks, waitStartTime) = Waited(readyList, totalTicks, waitStartTime)
      BY <1>3, <1>4, <2>4, <3>1, WaitedPermuted
    <3>3. Waited(r, totalTicks, waitStartTime) + (totalTicks - waitStartTime[h])
            = Waited(next, totalTicks, waitStartTime)
      BY <1>3, <2>2, <2>4, <2>5, <3>1, HeadLeaves
    <3>4. Waited(r \o me, totalTicks, Waiting(me)) = Waited(r, totalTicks, waitStartTime)
      <4>1. \A list \in Seq(Pid), since \in [Pid -> Int], now \in Int :
              ToSet(list) \cap ToSet(me) = {} =>
                Waited(list \o me, now, [u \in Pid |-> IF u \in ToSet(me) THEN now ELSE since[u]])
                  = Waited(list, now, since)
        BY <1>5, WaitedJoined
      <4> QED BY <1>3, <2>4, <2>8, <3>1, <4>1, Zenon DEF Waiting
    <3>5. /\ Waited(next, totalTicks, waitStartTime) \in Int
          /\ Waited(r, totalTicks, waitStartTime) \in Int
      BY <1>3, <2>4, <3>1, WaitedInt
    <3>6. threadWaitTime + Waited(readyList, totalTicks, waitStartTime) = readyIntegral
      BY DEF IInv, TicksAccounted
    <3>7. waitStartTime[h] \in Int
      BY <2>4, <2>7
    <3>8. /\ threadWaitTime + totalTicks - waitStartTime[h] \in Int
          /\ (threadWaitTime + totalTicks - waitStartTime[h]) + Waited(r, totalTicks, waitStartTime)
               = readyIntegral
      BY <1>3, <3>2, <3>3, <3>5, <3>6, <3>7
    <3> QED BY <2>3, <3>4, <3>8
  <2>13. EstimatedBurst' \in [Pid -> Nat]
    BY <1>4, <2>3, <2>4, EstimatesAre
  <2>14. currentThread' \in Pid /\ waitStartTime' \in [Pid -> Int]
    BY <1>8, <2>3, <2>7
  <2> QED BY <1>3, <1>6, <1>7, <1>10, <2>3, <2>10, <2>11, <2>12, <2>13, <2>14, RunsKeeps
<1>13. CASE YieldAlone
  <2>1. /\ EndBurst /\ burstStartTime' = totalTicks /\ mode' = "kernel"
        /\ currentThread' = currentThread /\ readyList' = readyList /\ status' = status
        /\ EstimatedBurst' = EstimatedBurst /\ waitStartTime' = waitStartTime
        /\ threadWaitTime' = threadWaitTime
    BY <1>13 DEF YieldAlone, NextBurst, threads
  <2>2. OnList(readyList', status') /\ currentThread' \in Pid
    BY <1>1, <1>3, <1>4, <2>1
  <2>3. /\ EstimatedBurst' \in [Pid -> Nat] /\ waitStartTime' \in [Pid -> Int]
        /\ threadWaitTime' \in Int
        /\ threadWaitTime' + Waited(readyList', totalTicks, waitStartTime') = readyIntegral
    BY <2>1 DEF IInv, CpuA2Types, TicksAccounted
  <2>4. \A u \in Pid : /\ status'[u] = "RUNNING" <=> u = currentThread'
                       /\ status'[u] = "BLOCKED" <=> status[u] = "BLOCKED"
                       /\ status[u] # "NONE" => status'[u] # "NONE"
    BY <1>1, <1>3, <2>1
  <2> QED BY <1>3, <1>6, <1>7, <1>10, <2>1, <2>2, <2>3, <2>4, RunsKeeps
<1> QED BY <1>11, <1>12, <1>13 DEF YieldCPU

-----------------------------------------------------------------------------
(* Time and the interrupts.                                                 *)

(* Interrupt::OneTick, first half.                                          *)
LEMMA TickKeeps ==
  ASSUME IInv, NEW ticks \in Nat \ {0}, OneTick(ticks), mode \in {"run", "kernel"}
  PROVE  IInv'
<1>1. /\ totalTicks' = totalTicks + ticks
      /\ readyIntegral' = readyIntegral + ticks * Len(readyList) /\ mode' = "due"
      /\ policy' = policy /\ idleTicks' = idleTicks /\ pending' = pending
      /\ currentThread' = currentThread /\ readyList' = readyList /\ status' = status
      /\ sleepQueue' = sleepQueue /\ exitThreadArray' = exitThreadArray /\ ppid' = ppid
      /\ waitchild_id' = waitchild_id /\ exitedChild' = exitedChild /\ totalBurst' = totalBurst
      /\ burstStartTime' = burstStartTime /\ waitStartTime' = waitStartTime
      /\ LastBurst' = LastBurst /\ threadWaitTime' = threadWaitTime
      /\ EstimatedBurst' = EstimatedBurst /\ initialPriority' = initialPriority
  BY DEF OneTick, threads, family, accounts
<1>2. CpuA2Types /\ readyList \in Seq(Pid) /\ Busy
  BY DEF IInv, OnList, Busy
<1>3. /\ totalTicks \in Nat /\ totalTicks' \in Nat /\ totalTicks <= totalTicks'
      /\ Len(readyList) \in Nat /\ readyIntegral \in Int /\ ticks \in Int /\ idleTicks \in Int
      /\ totalBurst \in Int /\ burstStartTime \in Nat /\ burstStartTime <= totalTicks
      /\ threadWaitTime \in Int /\ waitStartTime \in [Pid -> Int]
  BY <1>1, <1>2 DEF CpuA2Types
<1>4. ticks * Len(readyList) \in Int
  BY <1>3
<1>5. CpuA2Types'
  <2>1. mode' \in Modes /\ readyIntegral' \in Int /\ burstStartTime <= totalTicks'
    BY <1>1, <1>3, <1>4 DEF Modes
  <2> QED BY <1>1, <1>2, <1>3, <2>1 DEF CpuA2Types
<1>6. OnList(readyList, status)' /\ Sleeping(sleepQueue)' /\ Polls(pending, status)'
  BY <1>1 DEF IInv
<1>7. Families(status, Asleep(sleepQueue), exitThreadArray, waitchild_id, ppid, exitedChild)'
  BY <1>1 DEF IInv
<1>8. Modal(status)'
  BY <1>1, <1>2 DEF IInv, Modal, Busy
<1>9. TicksAccounted'
  <2>1. Waited(readyList, totalTicks + ticks, waitStartTime)
          = Waited(readyList, totalTicks, waitStartTime) + ticks * Len(readyList)
    <3>1. \A list \in Seq(Pid), now \in Int, since \in [Pid -> Int], x \in Int :
            Waited(list, now + x, since) = Waited(list, now, since) + x * Len(list)
      BY WaitedLonger
    <3>2. totalTicks \in Int
      BY <1>3
    <3> QED BY <1>2, <1>3, <3>1, <3>2, ZenonT(30)
  <2>2. Waited(readyList, totalTicks, waitStartTime) \in Int
    <3>1. totalTicks \in Int
      BY <1>3
    <3> QED BY <1>2, <1>3, <3>1, WaitedInt
  <2>3. threadWaitTime + Waited(readyList, totalTicks, waitStartTime) = readyIntegral
    BY DEF IInv, TicksAccounted
  <2>4. threadWaitTime + Waited(readyList, totalTicks + ticks, waitStartTime) = readyIntegral'
    BY <1>1, <1>3, <1>4, <2>1, <2>2, <2>3
  <2>5. threadWaitTime' + Waited(readyList', totalTicks', waitStartTime') = readyIntegral'
    BY <1>1, <2>4
  <2>6. totalBurst' + idleTicks' + (IF Busy THEN Burst ELSE 0)' = totalTicks'
    <3>1. totalBurst + idleTicks + (totalTicks - burstStartTime) = totalTicks
      BY <1>2 DEF IInv, TicksAccounted, Burst
    <3>2. totalBurst + idleTicks + (totalTicks' - burstStartTime) = totalTicks'
      BY <1>1, <1>3, <3>1
    <3>3. Busy' /\ Burst' = totalTicks' - burstStartTime
      BY <1>1 DEF Busy, Burst
    <3> QED BY <1>1, <3>2, <3>3
  <2> QED BY <2>5, <2>6 DEF TicksAccounted
<1>10. HaltsAtTheEnd'
  BY <1>1 DEF IInv, HaltsAtTheEnd, Created
<1> QED BY <1>5, <1>6, <1>7, <1>8, <1>9, <1>10 DEF IInv

(* A thread that has not exited and is not ready makes a console poll.      *)
LEMMA SomebodyPolls ==
  ASSUME IInv, mode = "idle"
  PROVE  ~OnlyTimer
<1>1. ~(Created \subseteq exitThreadArray) /\ readyList = <<>> /\ ~Busy
  BY DEF IInv, HaltsAtTheEnd, Modal, Busy
<1>2. PICK t \in Pid : status[t] # "NONE" /\ t \notin exitThreadArray
  BY <1>1 DEF Created
<1>3. status[t] # "READY" /\ status[t] # "RUNNING" /\ status[t] \in Statuses
  <2>1. ToSet(readyList) = {}
    BY <1>1 DEF ToSet
  <2>2. OnList(readyList, status)
    BY DEF IInv
  <2>3. status[t] # "READY" /\ status[t] \in Statuses
    BY <2>1, <2>2 DEF OnList
  <2>4. status[t] # "RUNNING"
    BY <1>1 DEF IInv, Modal
  <2> QED BY <2>3, <2>4
<1>4. status[t] = "BLOCKED" /\ t # 0
  <2>1. status[t] = "BLOCKED"
    BY <1>2, <1>3 DEF Statuses
  <2> QED BY <1>2, <2>1 DEF IInv, Modal
<1>5. PICK e \in ToSet(pending) : e.type = "console"
  BY <1>4 DEF IInv, Polls
<1>6. ASSUME OnlyTimer PROVE FALSE
  <2>1. pending \in Seq(Interrupt) /\ Len(pending) = 1 /\ Head(pending).type = "timer"
    BY <1>6 DEF OnlyTimer, IInv, Polls
  <2>2. PICK i \in DOMAIN pending : e = pending[i]
    BY <1>5 DEF ToSet
  <2>3. i = 1 /\ Head(pending) = pending[1]
    BY <2>1, <2>2
  <2> QED BY <1>5, <2>1, <2>2, <2>3
<1> QED BY <1>6

(* Interrupt::Idle.                                                         *)
LEMMA IdleKeeps ==
  ASSUME IInv, Idle PROVE IInv'
<1>1. /\ mode = "idle" /\ mode' = "idleDue"
      /\ readyIntegral' = readyIntegral
      /\ policy' = policy /\ pending' = pending
      /\ currentThread' = currentThread /\ readyList' = readyList /\ status' = status
      /\ sleepQueue' = sleepQueue /\ exitThreadArray' = exitThreadArray /\ ppid' = ppid
      /\ waitchild_id' = waitchild_id /\ exitedChild' = exitedChild /\ totalBurst' = totalBurst
      /\ burstStartTime' = burstStartTime /\ waitStartTime' = waitStartTime
      /\ LastBurst' = LastBurst /\ threadWaitTime' = threadWaitTime
      /\ EstimatedBurst' = EstimatedBurst /\ initialPriority' = initialPriority
  BY SomebodyPolls DEF Idle, threads, family, accounts
<1>2. /\ CpuA2Types /\ readyList = <<>> /\ ~Busy /\ totalTicks \in Nat /\ idleTicks \in Int
      /\ totalBurst \in Int /\ burstStartTime \in Nat /\ burstStartTime <= totalTicks
  BY <1>1 DEF IInv, Modal, Busy, CpuA2Types
<1>3. PICK jump \in Nat : totalTicks' = totalTicks + jump /\ idleTicks' = idleTicks + jump
  <2>1. PICK x : x = Head(pending).when - totalTicks
    OBVIOUS
  <2>2. x \in Int
    <3>1. pending \in Seq(Interrupt) /\ pending # <<>>
      BY DEF IInv, Polls
    <3>2. Head(pending) \in Interrupt
      BY <3>1
    <3>3. Head(pending).when \in Nat
      BY <3>2 DEF Interrupt
    <3> QED BY <1>2, <2>1, <3>3
  <2>3. Max({0, x}) \in Nat
    <3>1. \E y \in {0, x} : \A z \in {0, x} : y >= z
      BY <2>2
    <3>2. Max({0, x}) \in {0, x} /\ \A z \in {0, x} : Max({0, x}) >= z
      BY <3>1 DEF Max
    <3> QED BY <2>2, <3>2
  <2> QED BY <2>1, <2>3 DEF Idle, Ahead
<1>4. totalTicks' \in Nat /\ idleTicks' \in Int /\ totalTicks <= totalTicks'
  BY <1>2, <1>3
<1>5. CpuA2Types'
  <2>1. mode' \in Modes /\ burstStartTime <= totalTicks'
    BY <1>1, <1>2, <1>4 DEF Modes
  <2> QED BY <1>1, <1>2, <1>4, <2>1 DEF CpuA2Types
<1>6. OnList(readyList, status)' /\ Sleeping(sleepQueue)' /\ Polls(pending, status)'
  BY <1>1 DEF IInv
<1>7. Families(status, Asleep(sleepQueue), exitThreadArray, waitchild_id, ppid, exitedChild)'
  BY <1>1 DEF IInv
<1>8. Modal(status)'
  BY <1>1, <1>2 DEF IInv, Modal, Busy
<1>9. TicksAccounted'
  <2>1. threadWaitTime' + Waited(readyList', totalTicks', waitStartTime') = readyIntegral'
    <3>1. \A now : Waited(<<>>, now, waitStartTime) = 0
      BY WaitedNobody
    <3>2. threadWaitTime + Waited(<<>>, totalTicks, waitStartTime) = readyIntegral
      BY <1>2 DEF IInv, TicksAccounted
    <3> QED BY <1>1, <1>2, <3>1, <3>2
  <2>2. totalBurst' + idleTicks' + (IF Busy THEN Burst ELSE 0)' = totalTicks'
    <3>1. totalBurst + idleTicks + 0 = totalTicks
      BY <1>2 DEF IInv, TicksAccounted
    <3>2. ~Busy'
      BY <1>1 DEF Busy
    <3>3. totalBurst' + idleTicks' + 0 = totalTicks'
      BY <1>1, <1>2, <1>3, <3>1
    <3> QED BY <3>2, <3>3
  <2> QED BY <2>1, <2>2 DEF TicksAccounted
<1>10. HaltsAtTheEnd'
  BY <1>1 DEF IInv, HaltsAtTheEnd, Created
<1> QED BY <1>5, <1>6, <1>7, <1>8, <1>9, <1>10 DEF IInv

(* An interrupt goes back to the list, at the same or at another time.      *)
LEMMA PutBack ==
  ASSUME NEW pend, NEW st, Polls(pend, st), NEW when \in Nat
  PROVE  /\ Polls(SortedInsert([Head(pend) EXCEPT !.when = when], Tail(pend)), st)
         /\ Polls(SortedInsert(Head(pend), Tail(pend)), st)
<1>1. PICK h, r : h = Head(pend) /\ r = Tail(pend)
  OBVIOUS
<1>2. /\ h \in Interrupt /\ r \in Seq(Interrupt) /\ Ordered(r)
      /\ ToSet(pend) = ToSet(r) \cup {h}
      /\ (\E t \in Pid : t # 0 /\ st[t] = "BLOCKED") => \E e \in ToSet(pend) : e.type = "console"
  BY <1>1, TailKeeps DEF Polls
<1>3. \A x \in Interrupt : x.when \in Nat
  BY DEF Interrupt
<1>4. ASSUME NEW e \in Interrupt, e.type = h.type
      PROVE  Polls(SortedInsert(e, r), st)
  <2>1. PICK q : q = SortedInsert(e, r)
    OBVIOUS
  <2>2. /\ q \in Seq(Interrupt) /\ Len(q) = Len(r) + 1 /\ Ordered(q)
        /\ ToSet(q) = ToSet(r) \cup {e}
    <3>1. r \in Seq(Interrupt) /\ Ordered(r)
      BY <1>2
    <3>2. /\ SortedInsert(e, r) \in Seq(Interrupt) /\ Len(SortedInsert(e, r)) = Len(r) + 1
          /\ Ordered(SortedInsert(e, r)) /\ ToSet(SortedInsert(e, r)) = ToSet(r) \cup {e}
      BY <1>3, <3>1, InsertForm
    <3> QED BY <2>1, <3>2
  <2>3. q # <<>>
    BY <1>2, <2>2
  <2>4. (\E t \in Pid : t # 0 /\ st[t] = "BLOCKED") => \E x \in ToSet(q) : x.type = "console"
    BY <1>2, <1>4, <2>2
  <2> QED BY <2>1, <2>2, <2>3, <2>4 DEF Polls
<1>5. PICK f : f = [h EXCEPT !.when = when]
  OBVIOUS
<1>6. f \in Interrupt /\ f.type = h.type
  <2>1. h.type \in {"timer", "console"} /\ h = [type |-> h.type, when |-> h.when]
    BY <1>2 DEF Interrupt
  <2>2. f = [type |-> h.type, when |-> when]
    BY <1>5, <2>1
  <2> QED BY <2>1, <2>2 DEF Interrupt
<1> QED BY <1>1, <1>2, <1>4, <1>5, <1>6

(* The timer's handler: who wakes up.                                       *)
LEMMA HandlerDoes ==
  ASSUME IInv, TimerInterruptHandler
  PROVE  /\ OnList(readyList', status') /\ Sleeping(sleepQueue')
         /\ Families(status', Asleep(sleepQueue'), exitThreadArray, waitchild_id, ppid, exitedChild)
         /\ waitStartTime' \in [Pid -> Int]
         /\ threadWaitTime + Waited(readyList', totalTicks, waitStartTime') = readyIntegral
         /\ \A t \in Pid : \/ status'[t] = status[t]
                           \/ status[t] = "BLOCKED" /\ status'[t] = "READY"
<1>1. /\ Sleeping(sleepQueue) /\ totalTicks \in Nat /\ status \in [Pid -> Statuses]
      /\ Families(status, Asleep(sleepQueue), exitThreadArray, waitchild_id, ppid, exitedChild)
  BY DEF IInv, CpuA2Types, OnList
<1>2. PICK d \in 0 .. Len(sleepQueue) :
        d = Cardinality({i \in DOMAIN sleepQueue : sleepQueue[i].when <= totalTicks})
  <2>1. \A e \in Sleeper : e.when \in Nat
    BY DEF Sleeper
  <2>2. sleepQueue \in Seq(Sleeper) /\ Ordered(sleepQueue)
    BY <1>1 DEF Sleeping
  <2> QED BY <1>1, <2>1, <2>2, DuePrefix
<1>3. PICK ts, rest : FirstLeave(d, ts, rest, sleepQueue)
  BY DEF FirstLeave
<1>4. /\ sleepQueue' = rest /\ readyList' = readyList \o ts
      /\ status' = Readied(ts) /\ waitStartTime' = Waiting(ts)
  BY <1>2, <1>3 DEF FirstLeave, TimerInterruptHandler, Readied, Waiting
<1>5. /\ ts \in Seq(Pid) /\ Distinct(ts) /\ Sleeping(rest)
      /\ ToSet(ts) \cap Asleep(rest) = {} /\ ToSet(ts) \cup Asleep(rest) = Asleep(sleepQueue)
  BY <1>1, <1>3, SleepersLeave
<1>6. \A t \in ToSet(ts) : status[t] = "BLOCKED"
  <2>1. ToSet(ts) \subseteq Pid
    BY <1>5 DEF ToSet
  <2> QED BY <1>1, <1>5, <2>1 DEF Families
<1>7. /\ OnList(readyList \o ts, Readied(ts)) /\ Waiting(ts) \in [Pid -> Int]
      /\ threadWaitTime + Waited(readyList \o ts, totalTicks, Waiting(ts)) = readyIntegral
  BY <1>5, <1>6, ReadyDoes
<1>8. Families(Readied(ts), Asleep(rest), exitThreadArray, waitchild_id, ppid, exitedChild)
  <2>1. PICK later, woken, left : later = Readied(ts) /\ woken = ToSet(ts) /\ left = Asleep(rest)
    OBVIOUS
  <2>2. \A t \in Pid : later[t] = IF t \in woken THEN "READY" ELSE status[t]
    BY <2>1 DEF Readied
  <2>3. Families(later, left, exitThreadArray, waitchild_id, ppid, exitedChild)
    BY <1>1, <1>5, <2>1, <2>2, FamiliesWake
  <2> QED BY <2>1, <2>3
<1>9. \A t \in Pid : status'[t] = status[t] \/ (status[t] = "BLOCKED" /\ status'[t] = "READY")
  BY <1>4, <1>6 DEF Readied
<1> QED BY <1>4, <1>5, <1>7, <1>8, <1>9

(* CheckIfDue: the interrupt of the timer or of a console.                  *)
LEMMA FireKeeps ==
  ASSUME IInv, mode \in {"due", "idleDue"}, FireInterrupt
  PROVE  IInv'
<1>1. /\ policy' = policy /\ totalTicks' = totalTicks /\ idleTicks' = idleTicks
      /\ readyIntegral' = readyIntegral /\ mode' = mode /\ currentThread' = currentThread
      /\ exitThreadArray' = exitThreadArray /\ ppid' = ppid
      /\ waitchild_id' = waitchild_id /\ exitedChild' = exitedChild /\ totalBurst' = totalBurst
      /\ burstStartTime' = burstStartTime /\ LastBurst' = LastBurst
      /\ threadWaitTime' = threadWaitTime /\ EstimatedBurst' = EstimatedBurst
      /\ initialPriority' = initialPriority
  BY DEF FireInterrupt, clock, family
<1>2. CpuA2Types /\ totalTicks \in Nat /\ 0 \in Pid /\ Polls(pending, status)
  BY CpuA2Assumption DEF CpuA2Assumption, IInv, CpuA2Types
<1>3. Polls(pending', status)
  <2>1. PICK when \in Nat :
          pending' = SortedInsert([Head(pending) EXCEPT !.when = when], Tail(pending))
    <3>1. totalTicks + ConsoleTime \in Nat /\ totalTicks + TimerTicks \in Nat
      BY <1>2, CpuA2Assumption DEF CpuA2Assumption
    <3>2. CASE Head(pending).type = "timer"
      BY <3>1, <3>2 DEF FireInterrupt
    <3>3. CASE Head(pending).type # "timer"
      BY <3>1, <3>3 DEF FireInterrupt
    <3> QED BY <3>2, <3>3
  <2>2. PICK p : p = pending
    OBVIOUS
  <2>3. Polls(SortedInsert([Head(p) EXCEPT !.when = when], Tail(p)), status)
    BY <1>2, <2>2, PutBack
  <2> QED BY <2>1, <2>2, <2>3
<1>4. /\ OnList(readyList', status') /\ Sleeping(sleepQueue')
      /\ Families(status', Asleep(sleepQueue'), exitThreadArray, waitchild_id, ppid, exitedChild)
      /\ waitStartTime' \in [Pid -> Int]
      /\ threadWaitTime + Waited(readyList', totalTicks, waitStartTime') = readyIntegral
      /\ \A t \in Pid : \/ status'[t] = status[t]
                        \/ status[t] = "BLOCKED" /\ status'[t] = "READY"
  <2>1. CASE TimerInterruptHandler
    BY <2>1, HandlerDoes
  <2>2. CASE UNCHANGED <<sleepQueue, readyList, status, waitStartTime, yieldOnReturn>>
    BY <2>2 DEF IInv, CpuA2Types, TicksAccounted
  <2> QED BY <2>1, <2>2 DEF FireInterrupt
<1>5. CpuA2Types'
  BY <1>1, <1>2, <1>4 DEF CpuA2Types
<1>6. Polls(pending', status')
  <2>1. PICK q, s : q = pending' /\ s = status'
    OBVIOUS
  <2>2. Polls(q, s)
    BY <1>3, <1>4, <2>1, PollsStatus
  <2> QED BY <2>1, <2>2
<1>7. Families(status', Asleep(sleepQueue'), exitThreadArray', waitchild_id', ppid', exitedChild')
  BY <1>1, <1>4
<1>8. Modal(status)'
  <2>1. Busy' <=> Busy
    BY <1>1 DEF Busy
  <2>2. /\ \A t \in Pid : status[t] = "RUNNING" <=> Busy /\ t = currentThread
        /\ status[0] = "BLOCKED" => 0 \in exitThreadArray
    BY DEF IInv, Modal
  <2>3. \A t \in Pid : status'[t] = "RUNNING" <=> Busy' /\ t = currentThread'
    BY <1>1, <1>4, <2>1, <2>2
  <2>4. mode' # "idle"
    BY <1>1
  <2>5. status'[0] = "BLOCKED" => 0 \in exitThreadArray'
    BY <1>1, <1>2, <1>4, <2>2
  <2> QED BY <2>3, <2>4, <2>5 DEF Modal
<1>9. TicksAccounted'
  <2>1. (Busy' <=> Busy) /\ Burst' = Burst
    BY <1>1 DEF Busy, Burst
  <2>2. totalBurst' + idleTicks' + (IF Busy THEN Burst ELSE 0)' = totalTicks'
    BY <1>1, <2>1 DEF IInv, TicksAccounted
  <2> QED BY <1>1, <1>4, <2>2 DEF TicksAccounted
<1>10. HaltsAtTheEnd'
  <2>1. Created' = Created
    BY <1>4 DEF Created
  <2> QED BY <1>1, <2>1 DEF IInv, HaltsAtTheEnd
<1> QED BY <1>4, <1>5, <1>6, <1>7, <1>8, <1>9, <1>10 DEF IInv

(* The thread goes on, back in the kernel or in user code.                  *)
LEMMA StaysKeeps ==
  ASSUME IInv, Busy, mode' \in {"run", "kernel"}, Polls(pending', status),
         UNCHANGED <<policy, totalTicks, idleTicks, readyIntegral, initialPriority, sleepQueue,
                     threads, family, accounts, EstimatedBurst>>
  PROVE  IInv'
<1>1. /\ policy' = policy /\ totalTicks' = totalTicks /\ idleTicks' = idleTicks
      /\ readyIntegral' = readyIntegral /\ sleepQueue' = sleepQueue
      /\ initialPriority' = initialPriority
      /\ currentThread' = currentThread /\ readyList' = readyList /\ status' = status
      /\ exitThreadArray' = exitThreadArray /\ ppid' = ppid
      /\ waitchild_id' = waitchild_id /\ exitedChild' = exitedChild /\ totalBurst' = totalBurst
      /\ burstStartTime' = burstStartTime /\ waitStartTime' = waitStartTime
      /\ LastBurst' = LastBurst /\ threadWaitTime' = threadWaitTime
      /\ EstimatedBurst' = EstimatedBurst
  BY DEF threads, family, accounts
<1>2. CpuA2Types'
  <2>1. mode' \in Modes
    BY DEF Modes
  <2> QED BY <1>1, <2>1 DEF IInv, CpuA2Types
<1>3. OnList(readyList, status)' /\ Sleeping(sleepQueue)' /\ Polls(pending, status)'
  BY <1>1 DEF IInv
<1>4. Families(status, Asleep(sleepQueue), exitThreadArray, waitchild_id, ppid, exitedChild)'
  BY <1>1 DEF IInv
<1>5. Busy' /\ Burst' = Burst
  BY <1>1 DEF Busy, Burst
<1>6. Modal(status)'
  BY <1>1, <1>5 DEF IInv, Modal
<1>7. TicksAccounted'
  <2>1. totalBurst' + idleTicks' + (IF Busy THEN Burst ELSE 0)' = totalTicks'
    BY <1>1, <1>5 DEF IInv, TicksAccounted
  <2> QED BY <1>1, <2>1 DEF IInv, TicksAccounted
<1>8. HaltsAtTheEnd'
  BY <1>1, <1>5 DEF IInv, HaltsAtTheEnd, Created, Busy
<1> QED BY <1>2, <1>3, <1>4, <1>6, <1>7, <1>8 DEF IInv

(* OneTick, second half.                                                    *)
LEMMA DoneKeeps ==
  ASSUME IInv, InterruptsDone PROVE IInv'
<1>1. /\ mode = "due" /\ Busy /\ NoneDue /\ policy' = policy /\ totalTicks' = totalTicks
      /\ idleTicks' = idleTicks /\ readyIntegral' = readyIntegral /\ sleepQueue' = sleepQueue
      /\ initialPriority' = initialPriority
  BY DEF InterruptsDone, Busy, clock
<1>2. Polls(pending', status)
  <2>1. pending' = SortedInsert(Head(pending), Tail(pending)) /\ Polls(pending, status)
    BY <1>1 DEF NoneDue, IInv
  <2>2. PICK p : p = pending
    OBVIOUS
  <2>3. Polls(SortedInsert(Head(p), Tail(p)), status)
    <3>1. 0 \in Nat
      OBVIOUS
    <3> QED BY <2>1, <2>2, <3>1, PutBack
  <2> QED BY <2>1, <2>2, <2>3
<1>3. CASE yieldOnReturn /\ YieldCPU
  BY <1>1, <1>2, <1>3, YieldKeeps
<1>4. CASE mode' = "run" /\ UNCHANGED <<threads, family, accounts, EstimatedBurst>>
  BY <1>1, <1>2, <1>4, StaysKeeps
<1> QED BY <1>3, <1>4 DEF InterruptsDone

(* Back in PutThreadToSleep or Exit, after the interrupts.                  *)
LEMMA IdleDoneKeeps ==
  ASSUME IInv, IdleDone PROVE IInv'
<1>1. /\ mode = "idleDue" /\ ~Busy /\ NoneDue /\ policy' = policy /\ totalTicks' = totalTicks
      /\ idleTicks' = idleTicks /\ readyIntegral' = readyIntegral /\ sleepQueue' = sleepQueue
      /\ initialPriority' = initialPriority /\ totalBurst' = totalBurst /\ LastBurst' = LastBurst
      /\ exitThreadArray' = exitThreadArray /\ ppid' = ppid
      /\ waitchild_id' = waitchild_id /\ exitedChild' = exitedChild
      /\ DispatchOrIdle(readyList, status, waitStartTime)
  BY DEF IdleDone, Busy, clock, family
<1>2. Polls(pending', status)
  <2>1. pending' = SortedInsert(Head(pending), Tail(pending)) /\ Polls(pending, status)
    BY <1>1 DEF NoneDue, IInv
  <2>2. PICK p : p = pending
    OBVIOUS
  <2>3. Polls(SortedInsert(Head(p), Tail(p)), status)
    <3>1. 0 \in Nat
      OBVIOUS
    <3> QED BY <2>1, <2>2, <3>1, PutBack
  <2> QED BY <2>1, <2>2, <2>3
<1>3. PICK list, st, waits : list = readyList /\ st = status /\ waits = waitStartTime
  OBVIOUS
<1>4. DispatchOrIdle(list, st, waits)
  BY <1>1, <1>3 DEF DispatchOrIdle, Dispatch
<1>5. /\ waits \in [Pid -> Int] /\ OnList(list, st)
      /\ threadWaitTime + Waited(list, totalTicks, waits) = readyIntegral
      /\ \A t \in Pid : st[t] # "RUNNING"
      /\ st[0] = "BLOCKED" => 0 \in exitThreadArray'
      /\ LastBurst' \in [Pid -> Nat]
  BY <1>1, <1>3 DEF IInv, CpuA2Types, TicksAccounted, Modal
<1>6. totalBurst' \in Int /\ totalBurst' + idleTicks = totalTicks
  <2>1. totalBurst + idleTicks + 0 = totalTicks /\ totalBurst \in Int /\ idleTicks \in Int
    BY <1>1 DEF IInv, TicksAccounted, CpuA2Types
  <2> QED BY <1>1, <2>1
<1>7. /\ Sleeping(sleepQueue')
      /\ Families(st, Asleep(sleepQueue'), exitThreadArray', waitchild_id', ppid', exitedChild')
  BY <1>1, <1>3 DEF IInv
<1>8. \E t \in Pid : st[t] # "NONE" /\ t \notin exitThreadArray'
  BY <1>1, <1>3 DEF IInv, HaltsAtTheEnd, Created
<1>9. Polls(pending', st)
  BY <1>2, <1>3
<1>10. list = <<>> => readyList = <<>>
  BY <1>3
<1> QED BY <1>1, <1>4, <1>5, <1>6, <1>7, <1>8, <1>9, <1>10, SwitchKeeps

-----------------------------------------------------------------------------
(* The operations of the kernel.                                            *)

(* Yield of a process.                                                      *)
LEMMA YieldStep ==
  ASSUME IInv, Yield PROVE IInv'
<1>1. Busy /\ YieldCPU /\ NewConsole
  BY DEF Yield, InUser, Busy
<1>2. Polls(pending', status)
  BY <1>1, NewConsoleDoes
<1>3. UNCHANGED <<policy, totalTicks, idleTicks, readyIntegral, initialPriority, sleepQueue>>
  BY DEF Yield, clock
<1> QED BY <1>1, <1>2, <1>3, YieldKeeps

(* PutThreadToSleep of a process.                                           *)
LEMMA BlockKeeps ==
  ASSUME IInv, InUser, NewConsole, PutThreadToSleep,
         UNCHANGED <<policy, totalTicks, idleTicks, readyIntegral, initialPriority>>,
         Sleeping(sleepQueue'),
         Families([status EXCEPT ![currentThread] = "BLOCKED"], Asleep(sleepQueue'),
                  exitThreadArray, waitchild_id', ppid', exitedChild')
  PROVE  IInv'
<1>1. PICK me : me = currentThread
  OBVIOUS
<1>2. Busy /\ me # 0
  BY <1>1 DEF InUser, Busy
<1>3. /\ me \in Pid /\ status[me] = "RUNNING" /\ \A t \in Pid : status[t] = "RUNNING" => t = me
      /\ me \notin exitThreadArray /\ status \in [Pid -> Statuses] /\ 0 \in Pid
      /\ status[0] = "BLOCKED" => 0 \in exitThreadArray
  BY <1>1, <1>2, Running
<1>4. PICK list, st, waits : /\ list = readyList /\ st = [status EXCEPT ![me] = "BLOCKED"]
                             /\ waits = waitStartTime
  OBVIOUS
<1>5. exitThreadArray' = exitThreadArray /\ EndBurst /\ DispatchOrIdle(list, st, waits)
  BY <1>1, <1>4 DEF PutThreadToSleep, DispatchOrIdle, Dispatch
<1>6. OnList(list, st)
  <2>1. OnList(list, status)
    BY <1>4 DEF IInv
  <2> QED BY <1>3, <1>4, <2>1, OnListOff
<1>7. /\ waits \in [Pid -> Int]
      /\ threadWaitTime + Waited(list, totalTicks, waits) = readyIntegral
  BY <1>4 DEF IInv, CpuA2Types, TicksAccounted
<1>8. /\ \A t \in Pid : st[t] # "RUNNING"
      /\ st[0] = "BLOCKED" => 0 \in exitThreadArray'
      /\ st[me] # "NONE" /\ me \notin exitThreadArray'
  BY <1>2, <1>3, <1>4, <1>5
<1>9. /\ totalBurst' \in Int /\ totalBurst' + idleTicks = totalTicks /\ LastBurst' \in [Pid -> Nat]
  BY <1>2, <1>5, BurstEnds
<1>10. Polls(pending', st)
  BY NewConsoleDoes
<1>11. Families(st, Asleep(sleepQueue'), exitThreadArray', waitchild_id', ppid', exitedChild')
  BY <1>1, <1>4, <1>5
<1>12. list = <<>> => readyList = <<>>
  BY <1>4
<1>13. \E t \in Pid : st[t] # "NONE" /\ t \notin exitThreadArray'
  BY <1>3, <1>8
<1> QED BY <1>5, <1>6, <1>7, <1>8, <1>9, <1>10, <1>11, <1>12, <1>13, SwitchKeeps

(* Sleep.                                                                   *)
LEMMA SleepStep ==
  ASSUME IInv, NEW ticks \in SleepTimes, Sleep(ticks) PROVE IInv'
<1>1. PICK me, when : me = currentThread /\ when = totalTicks + ticks
  OBVIOUS
<1>2. /\ InUser /\ Busy /\ NewConsole /\ PutThreadToSleep
      /\ sleepQueue' = SortedInsert([thread |-> me, when |-> when], sleepQueue)
      /\ ppid' = ppid /\ waitchild_id' = waitchild_id /\ exitedChild' = exitedChild
      /\ UNCHANGED <<policy, totalTicks, idleTicks, readyIntegral, initialPriority>>
  BY <1>1 DEF Sleep, InUser, Busy, clock
<1>3. /\ me \in Pid /\ status[me] = "RUNNING" /\ me \notin Asleep(sleepQueue)
      /\ status \in [Pid -> Statuses] /\ totalTicks \in Nat
  BY <1>1, <1>2, Running
<1>4. when \in Nat
  <2>1. ticks \in Nat
    BY CpuA2Assumption DEF CpuA2Assumption
  <2> QED BY <1>1, <1>3, <2>1
<1>5. PICK before, after : before = sleepQueue /\ after = sleepQueue'
  OBVIOUS
<1>6. Sleeping(after) /\ Asleep(after) = Asleep(before) \cup {me}
  <2>1. Sleeping(before) /\ me \notin Asleep(before)
    BY <1>3, <1>5 DEF IInv
  <2>2. after = SortedInsert([thread |-> me, when |-> when], before)
    BY <1>2, <1>5
  <2> QED BY <1>3, <1>4, <2>1, <2>2, SleepersInsert
<1>7. Families([status EXCEPT ![me] = "BLOCKED"], Asleep(before) \cup {me}, exitThreadArray,
               waitchild_id, ppid, exitedChild)
  <2>1. Families(status, Asleep(before), exitThreadArray, waitchild_id, ppid, exitedChild)
    BY <1>5 DEF IInv
  <2> QED BY <1>3, <2>1, FamiliesSleep
<1>8. /\ Sleeping(sleepQueue')
      /\ Families([status EXCEPT ![currentThread] = "BLOCKED"], Asleep(sleepQueue'),
                  exitThreadArray, waitchild_id', ppid', exitedChild')
  BY <1>1, <1>2, <1>5, <1>6, <1>7
<1> QED BY <1>2, <1>8, BlockKeeps

(* Join.                                                                    *)
LEMMA JoinStep ==
  ASSUME IInv, NEW child \in Pid, Join(child) PROVE IInv'
<1>1. PICK me : me = currentThread
  OBVIOUS
<1>2. /\ InUser /\ Busy /\ NewConsole /\ ppid[child] = me /\ status[child] # "NONE"
      /\ sleepQueue' = sleepQueue
      /\ UNCHANGED <<policy, totalTicks, idleTicks, readyIntegral, initialPriority>>
  BY <1>1 DEF Join, InUser, Busy, clock, Created
<1>3. CASE /\ MustWait(child) /\ PutThreadToSleep
           /\ waitchild_id' = [waitchild_id EXCEPT ![me] = child]
           /\ UNCHANGED <<ppid, exitedChild>>
  <2>1. /\ me \in Pid /\ status[me] = "RUNNING" /\ status \in [Pid -> Statuses]
    BY <1>1, <1>2, Running
  <2>2. Families(status, Asleep(sleepQueue), exitThreadArray, waitchild_id, ppid, exitedChild)
        /\ Sleeping(sleepQueue)
    BY DEF IInv
  <2>3. child \notin exitedChild
    BY <1>3 DEF MustWait
  <2>4. Families([status EXCEPT ![me] = "BLOCKED"], Asleep(sleepQueue), exitThreadArray,
                 [waitchild_id EXCEPT ![me] = child], ppid, exitedChild)
    BY <1>2, <2>1, <2>2, <2>3, FamiliesJoin
  <2>5. /\ Sleeping(sleepQueue')
        /\ Families([status EXCEPT ![currentThread] = "BLOCKED"], Asleep(sleepQueue'),
                    exitThreadArray, waitchild_id', ppid', exitedChild')
    BY <1>1, <1>2, <1>3, <2>2, <2>4
  <2> QED BY <1>2, <1>3, <2>5, BlockKeeps
<1>4. CASE UNCHANGED <<mode, threads, family, accounts, EstimatedBurst>>
  <2>1. Polls(pending', status) /\ mode' = "run"
    BY <1>2, <1>4, NewConsoleDoes DEF InUser
  <2> QED BY <1>2, <1>4, <2>1, StaysKeeps
<1> QED BY <1>1, <1>3, <1>4 DEF Join

(* Fork, and CreateAndEnqueue of the batch.                                 *)
LEMMA NewThreadKeeps ==
  ASSUME IInv, Busy, NEW t \in Pid, NEW base \in Nat, NewThread(t, base), Polls(pending', status)
  PROVE  IInv'
<1>1. PICK me : me = currentThread
  OBVIOUS
<1>2. /\ status[t] = "NONE" /\ ppid' = [ppid EXCEPT ![t] = me]
      /\ initialPriority' = [initialPriority EXCEPT ![t] = base]
      /\ readyList' = Append(readyList, t) /\ status' = Readied(<<t>>)
      /\ waitStartTime' = Waiting(<<t>>) /\ mode' = "kernel"
      /\ policy' = policy /\ totalTicks' = totalTicks /\ idleTicks' = idleTicks
      /\ readyIntegral' = readyIntegral /\ currentThread' = me /\ sleepQueue' = sleepQueue
      /\ exitThreadArray' = exitThreadArray
      /\ waitchild_id' = waitchild_id /\ exitedChild' = exitedChild /\ totalBurst' = totalBurst
      /\ burstStartTime' = burstStartTime /\ LastBurst' = LastBurst
      /\ threadWaitTime' = threadWaitTime /\ EstimatedBurst' = EstimatedBurst
  BY <1>1 DEF NewThread, clock
<1>3. /\ me \in Pid /\ status[me] = "RUNNING" /\ \A u \in Pid : status[u] = "RUNNING" => u = me
      /\ me \notin exitThreadArray /\ status \in [Pid -> Statuses] /\ 0 \in Pid
      /\ status[0] = "BLOCKED" => 0 \in exitThreadArray
  BY <1>1, Running
<1>4. PICK ts : ts = <<t>>
  OBVIOUS
<1>5. /\ ts \in Seq(Pid) /\ Distinct(ts) /\ ToSet(ts) = {t}
      /\ Append(readyList, t) = readyList \o ts
  <2>1. readyList \in Seq(Pid)
    BY DEF IInv, OnList
  <2> QED BY <1>4, <2>1, Single
<1>6. /\ OnList(readyList \o ts, Readied(ts)) /\ Waiting(ts) \in [Pid -> Int]
      /\ threadWaitTime + Waited(readyList \o ts, totalTicks, Waiting(ts)) = readyIntegral
  BY <1>2, <1>5, ReadyDoes
<1>7. OnList(readyList', status') /\ waitStartTime' \in [Pid -> Int]
  BY <1>2, <1>4, <1>5, <1>6
<1>8. \A u \in Pid : status'[u] = IF u = t THEN "READY" ELSE status[u]
  BY <1>2, <1>4, <1>5 DEF Readied
<1>9. CpuA2Types'
  <2>1. mode' \in Modes
    BY <1>2 DEF Modes
  <2>2. CpuA2Types
    BY DEF IInv
  <2> QED BY <1>2, <1>3, <1>7, <2>1, <2>2 DEF CpuA2Types
<1>10. Families(status', Asleep(sleepQueue'), exitThreadArray', waitchild_id', ppid', exitedChild')
  <2>1. PICK later : later = status'
    OBVIOUS
  <2>2. Families(status, Asleep(sleepQueue), exitThreadArray, waitchild_id, ppid, exitedChild)
    BY DEF IInv
  <2>3. Families(later, Asleep(sleepQueue), exitThreadArray, waitchild_id,
                 [ppid EXCEPT ![t] = me], exitedChild)
    BY <1>2, <1>3, <1>8, <2>1, <2>2, FamiliesBorn
  <2> QED BY <1>2, <2>1, <2>3
<1>11. Polls(pending', status')
  <2>1. PICK q, s : q = pending' /\ s = status'
    OBVIOUS
  <2>2. Polls(q, s)
    BY <1>8, <2>1, PollsStatus
  <2> QED BY <2>1, <2>2
<1>12. Busy' /\ Burst' = Burst
  BY <1>2 DEF Busy, Burst
<1>13. Modal(status)'
  <2>1. \A u \in Pid : status'[u] = "RUNNING" <=> u = me
    BY <1>2, <1>3, <1>8
  <2>2. status'[0] = "BLOCKED" => 0 \in exitThreadArray'
    BY <1>2, <1>3, <1>8
  <2> QED BY <1>2, <1>12, <2>1, <2>2 DEF Modal
<1>14. TicksAccounted'
  <2>1. threadWaitTime' + Waited(readyList', totalTicks', waitStartTime') = readyIntegral'
    BY <1>2, <1>4, <1>5, <1>6
  <2>2. totalBurst' + idleTicks' + (IF Busy THEN Burst ELSE 0)' = totalTicks'
    BY <1>2, <1>12 DEF IInv, TicksAccounted
  <2> QED BY <2>1, <2>2 DEF TicksAccounted
<1>15. HaltsAtTheEnd'
  <2>1. me \in Created' /\ me \notin exitThreadArray'
    BY <1>2, <1>3, <1>8 DEF Created
  <2> QED BY <1>2, <2>1 DEF HaltsAtTheEnd
<1>16. Sleeping(sleepQueue)'
  BY <1>2 DEF IInv
<1> QED BY <1>7, <1>9, <1>10, <1>11, <1>13, <1>14, <1>15, <1>16 DEF IInv

(* The empty list.                                                          *)
LEMMA Nobody ==
  /\ <<>> \in Seq(Pid) /\ Distinct(<<>>) /\ ToSet(<<>>) = {}
  /\ \A list \in Seq(Pid) : list \o <<>> = list
<1>1. <<>> \in Seq(Pid) /\ DOMAIN <<>> = {}
  OBVIOUS
<1>2. Distinct(<<>>) /\ ToSet(<<>>) = {}
  BY <1>1 DEF Distinct, ToSet
<1>3. \A list \in Seq(Pid) : list \o <<>> = list
  OBVIOUS
<1> QED BY <1>1, <1>2, <1>3

(* Exit, of a process or of main.                                           *)
LEMMA ExitKeeps ==
  ASSUME IInv, Busy, ExitThread, \A st : (currentThread # 0 => Polls(pending', st)),
         currentThread = 0 => pending' = pending
  PROVE  IInv'
<1>1. PICK me, p : me = currentThread /\ p = ppid[me]
  OBVIOUS
<1> DEFINE wakes == Wakes(me, exitThreadArray, waitchild_id, ppid)
           woken == IF wakes THEN <<p>> ELSE <<>>
<1>2. PICK ts, list, waits, st : /\ ts = woken /\ list = readyList \o ts /\ waits = Waiting(ts)
                                 /\ st = [Readied(ts) EXCEPT ![me] = "BLOCKED"]
  OBVIOUS
<1>3. /\ me \in Pid /\ status[me] = "RUNNING" /\ \A t \in Pid : status[t] = "RUNNING" => t = me
      /\ me \notin exitThreadArray /\ status \in [Pid -> Statuses] /\ 0 \in Pid
      /\ status[0] = "BLOCKED" => 0 \in exitThreadArray
  BY <1>1, Running
<1>4. /\ Families(status, Asleep(sleepQueue), exitThreadArray, waitchild_id, ppid, exitedChild)
      /\ OnList(readyList, status) /\ readyList \in Seq(Pid) /\ Sleeping(sleepQueue)
      /\ Polls(pending, status)
  BY DEF IInv, OnList
<1>5. wakes <=> ParentIsTold(p) /\ waitchild_id[p] = me
  BY <1>1 DEF Wakes, ParentIsTold
<1>6. /\ exitThreadArray' = exitThreadArray \cup {me} /\ EndBurst
      /\ exitedChild' = IF ParentIsTold(p) THEN exitedChild \cup {me} ELSE exitedChild
      /\ waitchild_id' = IF wakes THEN [waitchild_id EXCEPT ![p] = NoChild] ELSE waitchild_id
      /\ ppid' = ppid /\ sleepQueue' = sleepQueue
      /\ UNCHANGED <<policy, totalTicks, idleTicks, readyIntegral, initialPriority>>
  BY <1>1, <1>5 DEF ExitThread, clock
<1>7. \/ /\ AllExited(exitThreadArray') /\ list = <<>>
         /\ mode' = "halted" /\ status' = st
         /\ UNCHANGED <<currentThread, readyList, EstimatedBurst, burstStartTime, waitStartTime,
                        threadWaitTime>>
      \/ /\ ~AllExited(exitThreadArray') \/ list # <<>>
         /\ DispatchOrIdle(list, st, waits)
  BY <1>1, <1>2, <1>5 DEF ExitThread, DispatchOrIdle, Dispatch, ParentIsTold
<1>8. wakes => p \in Pid /\ status[p] = "BLOCKED" /\ p # me
  BY <1>1, <1>3, <1>4 DEF Wakes, Families
<1>9. /\ ts \in Seq(Pid) /\ Distinct(ts) /\ ToSet(ts) = (IF wakes THEN {p} ELSE {})
  <2>1. CASE wakes
    BY <1>2, <1>4, <1>8, <2>1, Single
  <2>2. CASE ~wakes
    BY <1>2, <2>2, Nobody
  <2> QED BY <2>1, <2>2
<1> HIDE DEF wakes
<1>10. \A t \in Pid : st[t] = IF t = me THEN "BLOCKED" ELSE IF wakes /\ t = p THEN "READY"
                              ELSE status[t]
  BY <1>2, <1>3, <1>9 DEF Readied
<1>11. /\ OnList(readyList \o ts, Readied(ts)) /\ Waiting(ts) \in [Pid -> Int]
       /\ threadWaitTime + Waited(readyList \o ts, totalTicks, Waiting(ts)) = readyIntegral
       /\ readyList \o ts = <<>> => readyList = <<>>
  BY <1>8, <1>9, ReadyDoes
<1>12. /\ OnList(list, st) /\ waits \in [Pid -> Int]
       /\ threadWaitTime + Waited(list, totalTicks, waits) = readyIntegral
       /\ list = <<>> => readyList = <<>>
  <2>1. PICK ready : ready = Readied(ts)
    OBVIOUS
  <2>2. ready[me] # "READY"
    BY <1>3, <1>8, <1>9, <2>1 DEF Readied
  <2>3. OnList(list, [ready EXCEPT ![me] = "BLOCKED"])
    BY <1>2, <1>3, <1>11, <2>1, <2>2, OnListOff
  <2> QED BY <1>2, <1>11, <2>1, <2>3
<1>13. \A t \in Pid : st[t] # "RUNNING" /\ (st[t] # "NONE" <=> status[t] # "NONE")
  <2>1. wakes => status[p] # "NONE"
    BY <1>8
  <2> QED BY <1>3, <1>10, <2>1
<1>14. st[0] = "BLOCKED" => 0 \in exitThreadArray'
  BY <1>3, <1>6, <1>10
<1>15. Families(st, Asleep(sleepQueue'), exitThreadArray', waitchild_id', ppid', exitedChild')
  <2>1. PICK left, knows : left = waitchild_id' /\ knows = exitedChild'
    OBVIOUS
  <2>2. /\ left \in [Pid -> Pid \cup {NoChild}]
        /\ \A t \in Pid : left[t] = IF wakes /\ t = p THEN NoChild ELSE waitchild_id[t]
    <3>1. waitchild_id \in [Pid -> Pid \cup {NoChild}]
      BY <1>4 DEF Families
    <3> QED BY <1>6, <1>8, <2>1, <3>1
  <2>3. exitedChild \subseteq knows /\ (ppid[me] # NoChild /\ ppid[me] \notin exitThreadArray => me \in knows)
    BY <1>1, <1>6, <2>1 DEF ParentIsTold
  <2>4. \A t \in Pid :
          /\ st[t] = IF t = me THEN "BLOCKED"
                     ELSE IF Wakes(me, exitThreadArray, waitchild_id, ppid) /\ t = ppid[me] THEN "READY"
                     ELSE status[t]
          /\ left[t] = IF Wakes(me, exitThreadArray, waitchild_id, ppid) /\ t = ppid[me] THEN NoChild
                       ELSE waitchild_id[t]
    BY <1>1, <1>10, <2>2 DEF wakes
  <2>5. Families(st, Asleep(sleepQueue), exitThreadArray \cup {me}, left, ppid, knows)
    BY SMTT(30), ZenonT(30), <1>3, <1>4, <2>2, <2>3, <2>4, FamiliesExit
  <2> QED BY <1>6, <2>1, <2>5
<1>16. Polls(pending', st)
  <2>1. CASE me # 0
    BY <1>1, <2>1
  <2>2. CASE me = 0
    <3>1. \A t \in Pid : t # 0 /\ st[t] = "BLOCKED" => status[t] = "BLOCKED"
      BY <1>10, <2>2
    <3>2. Polls(pending, st)
      BY <1>4, <3>1, PollsStatus
    <3> QED BY <1>1, <2>2, <3>2
  <2> QED BY <2>1, <2>2
<1>17. totalBurst' \in Int /\ totalBurst' + idleTicks = totalTicks /\ LastBurst' \in [Pid -> Nat]
  BY <1>6, BurstEnds
<1>18. Sleeping(sleepQueue')
  BY <1>4, <1>6
<1>19. CASE /\ AllExited(exitThreadArray') /\ list = <<>>
            /\ mode' = "halted" /\ status' = st
            /\ UNCHANGED <<currentThread, readyList, EstimatedBurst, burstStartTime, waitStartTime,
                           threadWaitTime>>
  <2>1. Created' \subseteq exitThreadArray'
    BY <1>13, <1>19 DEF AllExited, Created
  <2>2. readyList = <<>> /\ OnList(readyList, status')
    BY <1>12, <1>19
  <2>3. /\ Families(status', Asleep(sleepQueue'), exitThreadArray', waitchild_id', ppid', exitedChild')
        /\ Polls(pending', status') /\ (status'[0] = "BLOCKED" => 0 \in exitThreadArray')
        /\ \A t \in Pid : status'[t] # "RUNNING"
    BY <1>13, <1>14, <1>15, <1>16, <1>19
  <2> QED BY <1>6, <1>17, <1>18, <1>19, <2>1, <2>2, <2>3, OffKeeps
<1>20. CASE /\ ~AllExited(exitThreadArray') \/ list # <<>>
            /\ DispatchOrIdle(list, st, waits)
  <2>1. list = <<>> => \E t \in Pid : st[t] # "NONE" /\ t \notin exitThreadArray'
    BY <1>13, <1>20 DEF AllExited, Created
  <2> QED BY <1>6, <1>12, <1>13, <1>14, <1>15, <1>16, <1>17, <1>18, <1>20, <2>1, SwitchKeeps
<1> QED BY <1>7, <1>19, <1>20

-----------------------------------------------------------------------------
(* The invariant.                                                           *)

(* Initialize establishes it.                                               *)
LEMMA InitIInv ==
  ASSUME CpuA2Init PROVE IInv
<1>1. /\ policy \in Policies
      /\ totalTicks = 0 /\ idleTicks = 0 /\ totalBurst = 0 /\ readyIntegral = 0
      /\ pending = <<[type |-> "timer", when |-> TimerTicks]>>
      /\ mode = "kernel" /\ currentThread = 0 /\ readyList = <<>> /\ sleepQueue = <<>>
      /\ status = [t \in Pid |-> IF t = 0 THEN "RUNNING" ELSE "NONE"]
      /\ exitThreadArray = {} /\ exitedChild = {}
      /\ ppid = [t \in Pid |-> NoChild] /\ waitchild_id = [t \in Pid |-> NoChild]
      /\ burstStartTime = 0 /\ waitStartTime = [t \in Pid |-> 0] /\ threadWaitTime = 0
      /\ LastBurst = [t \in Pid |-> 0] /\ EstimatedBurst = [t \in Pid |-> 0]
      /\ initialPriority = [t \in Pid |-> initialPriority0]
  BY DEF CpuA2Init
<1>2. 0 \in Pid /\ initialPriority0 \in Nat /\ TimerTicks \in Nat
  BY CpuA2Assumption DEF CpuA2Assumption
<1>3. CpuA2Types
  BY <1>1, <1>2 DEF CpuA2Types, Modes
<1>4. OnList(readyList, status)
  BY <1>1, Nobody DEF OnList, Statuses
<1>5. Sleeping(sleepQueue) /\ Asleep(sleepQueue) = {}
  <2>1. <<>> \in Seq(Sleeper) /\ DOMAIN <<>> = {}
    OBVIOUS
  <2> QED BY <1>1, <2>1 DEF Sleeping, Asleep, Ordered
<1>6. Families(status, Asleep(sleepQueue), exitThreadArray, waitchild_id, ppid, exitedChild)
  BY <1>1, <1>5 DEF Families
<1>7. Polls(pending, status)
  <2>1. PICK e : e = [type |-> "timer", when |-> TimerTicks]
    OBVIOUS
  <2>2. e \in Interrupt
    BY <1>2, <2>1 DEF Interrupt
  <2>3. <<e>> \in Seq(Interrupt) /\ <<e>> # <<>> /\ DOMAIN <<e>> = {1} /\ <<e>>[1] = e
    BY <2>2
  <2>4. Ordered(<<e>>)
    <3>1. e.when \in Nat
      BY <2>2 DEF Interrupt
    <3> QED BY <2>3, <3>1 DEF Ordered
  <2>5. \A t \in Pid : status[t] # "BLOCKED"
    BY <1>1
  <2> QED BY <1>1, <2>1, <2>3, <2>4, <2>5 DEF Polls
<1>8. Busy
  BY <1>1 DEF Busy
<1>9. Modal(status)
  BY <1>1, <1>2, <1>8 DEF Modal
<1>10. TicksAccounted
  <2>1. Waited(<<>>, totalTicks, waitStartTime) = 0
    BY WaitedNobody
  <2>2. Burst = 0
    BY <1>1 DEF Burst
  <2> QED BY <1>1, <1>8, <2>1, <2>2 DEF TicksAccounted
<1>11. HaltsAtTheEnd
  <2>1. 0 \in Created
    BY <1>1, <1>2 DEF Created
  <2> QED BY <1>1, <2>1 DEF HaltsAtTheEnd
<1> QED BY <1>3, <1>4, <1>5, <1>6, <1>7, <1>9, <1>10, <1>11 DEF IInv

(* Nothing changes.                                                         *)
LEMMA StutterKeeps ==
  ASSUME IInv, UNCHANGED cpuA2 PROVE IInv'
<1>1. /\ policy' = policy /\ totalTicks' = totalTicks /\ idleTicks' = idleTicks /\ mode' = mode
      /\ readyIntegral' = readyIntegral /\ sleepQueue' = sleepQueue /\ pending' = pending
      /\ initialPriority' = initialPriority
      /\ currentThread' = currentThread /\ readyList' = readyList /\ status' = status
      /\ exitThreadArray' = exitThreadArray /\ ppid' = ppid
      /\ waitchild_id' = waitchild_id /\ exitedChild' = exitedChild /\ totalBurst' = totalBurst
      /\ burstStartTime' = burstStartTime /\ waitStartTime' = waitStartTime
      /\ LastBurst' = LastBurst /\ threadWaitTime' = threadWaitTime
      /\ EstimatedBurst' = EstimatedBurst
  BY DEF cpuA2, clock, threads, family, accounts
<1>2. CpuA2Types'
  BY <1>1 DEF IInv, CpuA2Types
<1>3. OnList(readyList, status)' /\ Sleeping(sleepQueue)' /\ Polls(pending, status)'
  BY <1>1 DEF IInv
<1>4. Families(status, Asleep(sleepQueue), exitThreadArray, waitchild_id, ppid, exitedChild)'
  BY <1>1 DEF IInv
<1>5. (Busy' <=> Busy) /\ Burst' = Burst
  BY <1>1 DEF Busy, Burst
<1>6. Modal(status)'
  BY <1>1, <1>5 DEF IInv, Modal
<1>7. TicksAccounted'
  <2>1. totalBurst' + idleTicks' + (IF Busy THEN Burst ELSE 0)' = totalTicks'
    BY <1>1, <1>5 DEF IInv, TicksAccounted
  <2> QED BY <1>1, <2>1 DEF IInv, TicksAccounted
<1>8. HaltsAtTheEnd'
  BY <1>1 DEF IInv, HaltsAtTheEnd, Created
<1> QED BY <1>2, <1>3, <1>4, <1>6, <1>7, <1>8 DEF IInv

(* Every step keeps it.                                                     *)
LEMMA NextKeeps ==
  ASSUME IInv, [CpuA2Next]_cpuA2 PROVE IInv'
<1>1. UserTick \in Nat \ {0} /\ SystemTick \in Nat \ {0}
  BY CpuA2Assumption DEF CpuA2Assumption
<1>2. CASE UserInstruction
  BY <1>1, <1>2, TickKeeps DEF UserInstruction, InUser
<1>3. CASE EnableInterrupts
  BY <1>1, <1>3, TickKeeps DEF EnableInterrupts
<1>4. CASE InterruptDue \/ IdleInterrupt
  BY <1>4, FireKeeps DEF InterruptDue, IdleInterrupt
<1>5. CASE InterruptsDone
  BY <1>5, DoneKeeps
<1>6. CASE Idle
  BY <1>6, IdleKeeps
<1>7. CASE IdleDone
  BY <1>7, IdleDoneKeeps
<1>8. CASE Yield
  BY <1>8, YieldStep
<1>9. CASE Exit
  <2>1. Busy /\ currentThread # 0 /\ NewConsole /\ ExitThread
    BY <1>9 DEF Exit, InUser, Busy
  <2>2. \A st : Polls(pending', st)
    BY <2>1, NewConsoleDoes
  <2> QED BY <2>1, <2>2, ExitKeeps
<1>10. CASE BatchExit
  <2>1. Busy /\ currentThread = 0 /\ pending' = pending /\ ExitThread
    BY <1>10 DEF BatchExit, InMain, Busy
  <2> QED BY <2>1, ExitKeeps
<1>11. ASSUME NEW ticks \in SleepTimes, Sleep(ticks) PROVE IInv'
  BY <1>11, SleepStep
<1>12. ASSUME NEW t \in Pid, Join(t) PROVE IInv'
  BY <1>12, JoinStep
<1>13. ASSUME NEW t \in Pid, Fork(t) PROVE IInv'
  <2>1. Busy /\ NewConsole /\ NewThread(t, initialPriority[currentThread])
    BY <1>13 DEF Fork, InUser, Busy
  <2>2. Polls(pending', status)
    BY <2>1, NewConsoleDoes
  <2>3. initialPriority[currentThread] \in Nat
    BY DEF IInv, CpuA2Types
  <2>4. PICK base \in Nat : base = initialPriority[currentThread]
    BY <2>3
  <2>5. NewThread(t, base)
    BY <2>1, <2>4 DEF NewThread
  <2> QED BY <2>1, <2>2, <2>5, NewThreadKeeps
<1>14. ASSUME NEW t \in Pid, NEW nice \in Nice, CreateAndEnqueue(t, nice) PROVE IInv'
  <2>1. Busy /\ pending' = pending /\ NewThread(t, initialPriority0 + nice)
    BY <1>14 DEF CreateAndEnqueue, InMain, Busy
  <2>2. Polls(pending', status)
    BY <2>1 DEF IInv
  <2>3. initialPriority0 + nice \in Nat
    BY CpuA2Assumption DEF CpuA2Assumption
  <2>4. PICK base \in Nat : base = initialPriority0 + nice
    BY <2>3
  <2>5. NewThread(t, base)
    BY <2>1, <2>4 DEF NewThread
  <2> QED BY <2>1, <2>2, <2>5, NewThreadKeeps
<1>15. CASE Ended \/ UNCHANGED cpuA2
  BY <1>15, StutterKeeps DEF Ended
<1> QED BY <1>2, <1>3, <1>4, <1>5, <1>6, <1>7, <1>8, <1>9, <1>10, <1>11, <1>12, <1>13, <1>14,
           <1>15 DEF CpuA2Next

(* In every behaviour of the second assignment's kernel, the invariant      *)
(* holds, and with it the types of its state.                               *)
THEOREM CpuA2Invariant == CpuA2Spec => []IInv
BY InitIInv, NextKeeps, PTL DEF CpuA2Spec

(* setStatus accounts for every tick: busy and idle time add up to the time *)
(* simulated, and the waits to the length of the ready list over time.      *)
THEOREM SetStatusAccounts == CpuA2Spec => []TicksAccounted
<1>1. IInv => TicksAccounted
  BY DEF IInv
<1> QED BY <1>1, CpuA2Invariant, PTL

(* The machine halts exactly when every thread has exited.                  *)
THEOREM HaltsWhenAllExited == CpuA2Spec => []HaltsAtTheEnd
<1>1. IInv => HaltsAtTheEnd
  BY DEF IInv
<1> QED BY <1>1, CpuA2Invariant, PTL

(* How many elements a set has that has at most one.                        *)
LEMMA CountIs ==
  ASSUME NEW S, \A i, j \in S : i = j
  PROVE  Cardinality(S) = IF S = {} THEN 0 ELSE 1
<1>1. CASE S # {}
  <2>1. PICK i \in S : S = {i}
    BY <1>1
  <2> QED BY <2>1, FS_Singleton
<1>2. CASE S = {}
  BY <1>2, FS_EmptySet
<1> QED BY <1>1, <1>2

(* No thread is lost, whatever the policy does to the ready list: it runs,  *)
(* is on the list once, sleeps, or waits for a child of its own that has    *)
(* not exited.                                                              *)
THEOREM NobodyIsLost == CpuA2Spec => []NobodyLost
<1>1. ASSUME IInv, NEW t \in Created \ exitThreadArray
      PROVE  /\ Places(t) = IF status[t] = "READY" THEN 1 ELSE 0
             /\ status[t] = "RUNNING" => t = currentThread /\ Busy
             /\ status[t] = "BLOCKED" =>
                  \/ Sleeps(t) = 1 /\ waitchild_id[t] = NoChild
                  \/ /\ Sleeps(t) = 0 /\ waitchild_id[t] \in Created \ exitThreadArray
                     /\ ppid[waitchild_id[t]] = t
  <2>1. t \in Pid /\ t \notin exitThreadArray
    BY DEF Created
  <2>2. OnList(readyList, status) /\ Sleeping(sleepQueue)
        /\ Families(status, Asleep(sleepQueue), exitThreadArray, waitchild_id, ppid, exitedChild)
    BY <1>1 DEF IInv
  <2>3. Places(t) = IF status[t] = "READY" THEN 1 ELSE 0
    <3> DEFINE S == {i \in DOMAIN readyList : readyList[i] = t}
    <3>1. \A i, j \in S : i = j
      BY <2>2 DEF OnList, Distinct
    <3>2. S # {} <=> status[t] = "READY"
      BY <2>1, <2>2 DEF OnList, ToSet
    <3>3. Places(t) = Cardinality(S)
      BY DEF Places
    <3> HIDE DEF S
    <3>4. Cardinality(S) = IF S = {} THEN 0 ELSE 1
      BY <3>1, CountIs
    <3> QED BY <3>2, <3>3, <3>4
  <2>4. Sleeps(t) = IF t \in Asleep(sleepQueue) THEN 1 ELSE 0
    <3> DEFINE S == {i \in DOMAIN sleepQueue : sleepQueue[i].thread = t}
    <3>1. \A i, j \in S : i = j
      BY <2>2 DEF Sleeping
    <3>2. S # {} <=> t \in Asleep(sleepQueue)
      BY DEF Asleep
    <3>3. Sleeps(t) = Cardinality(S)
      BY DEF Sleeps
    <3> HIDE DEF S
    <3>4. Cardinality(S) = IF S = {} THEN 0 ELSE 1
      BY <3>1, CountIs
    <3> QED BY <3>2, <3>3, <3>4
  <2>5. status[t] = "RUNNING" => t = currentThread /\ Busy
    BY <1>1, <2>1 DEF IInv, Modal
  <2>6. ASSUME status[t] = "BLOCKED"
        PROVE  \/ Sleeps(t) = 1 /\ waitchild_id[t] = NoChild
               \/ /\ Sleeps(t) = 0 /\ waitchild_id[t] \in Created \ exitThreadArray
                  /\ ppid[waitchild_id[t]] = t
    <3>1. CASE waitchild_id[t] = NoChild
      <4>1. t \in Asleep(sleepQueue)
        BY <2>1, <2>2, <2>6, <3>1 DEF Families
      <4> QED BY <2>4, <3>1, <4>1
    <3>2. CASE waitchild_id[t] # NoChild
      <4>1. t \notin Asleep(sleepQueue)
        BY <2>1, <2>2, <3>2 DEF Families
      <4>2. waitchild_id[t] \in Created \ exitThreadArray /\ ppid[waitchild_id[t]] = t
        BY <2>1, <2>2, <3>2 DEF Families, Created
      <4> QED BY <2>4, <4>1, <4>2
    <3> QED BY <3>1, <3>2
  <2> QED BY <2>3, <2>5, <2>6
<1>2. IInv => NobodyLost
  BY <1>1 DEF NobodyLost
<1> QED BY <1>2, CpuA2Invariant, PTL
=============================================================================
