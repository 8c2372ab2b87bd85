------------------------- MODULE NachosThreadsA1Proofs -------------------------
(***************************************************************************)
(* Proofs about the threads of assignment 1 (NachosThreadsA1), for any     *)
(* number of threads and children: that no thread is lost, that parents    *)
(* and children know each other, and that a Join knows whether it has a    *)
(* child.  The list of a parent's children is a chain of cells; IsPath     *)
(* ties the chain to the sequence of the children, and each operation of   *)
(* threads/list.cc is shown to do on the chain what it should do on the    *)
(* sequence.                                                               *)
(***************************************************************************)
EXTENDS NachosThreadsA1, NachosLists

(* The cells from c on, by the pointers nx.                                 *)
IsPath(nx, c, p) ==
  /\ c = IF p = <<>> THEN Null ELSE p[1]
  /\ \A i \in 1 .. Len(p) : nx[p[i]] = IF i = Len(p) THEN Null ELSE p[i + 1]

(* A list with the ends f and l holds the threads of S in the order of      *)
(* their pids.                                                              *)
ListIs(nx, f, l, S, p) ==
  /\ IsPath(nx, f, p) /\ Ascending(p) /\ ToSet(p) = S
  /\ l = IF p = <<>> THEN Null ELSE p[Len(p)]
HasList(nx, f, l, S) == \E p \in Seq(Thread) : ListIs(nx, f, l, S, p)

-----------------------------------------------------------------------------
(* The walk over a list.                                                    *)

(* Null is no thread.                                                       *)
LEMMA Pids ==
  /\ MaxThreads \in Nat /\ Thread \subseteq Nat /\ Null \notin Thread /\ NoChild \notin Thread
  /\ Garbage \notin Thread /\ Garbage # Null /\ NoChild # Null /\ Main \in Thread
  /\ \A c, d \in Thread : c < d \/ d < c \/ c = d
BY A1Assumption DEF Thread, Null, NoChild, Garbage, Main

(* An ascending list of pids has no more cells than there are pids.         *)
LEMMA AscendingShort ==
  ASSUME NEW p \in Seq(Thread), Ascending(p)
  PROVE  Len(p) <= MaxThreads
<1> DEFINE S == {i \in 1 .. Len(p) : p[i] < i}
<1>1. /\ MaxThreads \in Nat /\ Len(p) \in Nat /\ DOMAIN p = 1 .. Len(p)
      /\ \A i \in 1 .. Len(p) : p[i] \in 1 .. MaxThreads
  BY A1Assumption DEF Thread
<1>2. S = {}
  <2> SUFFICES ASSUME S # {} PROVE FALSE
    OBVIOUS
  <2>1. PICK m \in S : \A k \in S : m <= k
    <3>1. S \in SUBSET Nat
      BY <1>1
    <3> HIDE DEF S
    <3> QED BY <3>1, MinExists
  <2>2. m \in 1 .. Len(p) /\ p[m] < m
    BY <2>1
  <2>3. m # 1
    BY <1>1, <2>2
  <2>4. m - 1 \in 1 .. Len(p) /\ m - 1 \notin S
    <3>1. m - 1 \in 1 .. Len(p) /\ ~(m <= m - 1)
      BY <1>1, <2>2, <2>3
    <3> HIDE DEF S
    <3> QED BY <2>1, <3>1
  <2>5. ~(p[m - 1] < m - 1)
    BY <2>4
  <2>7. p[m - 1] < p[m]
    <3>1. m - 1 < m /\ m - 1 \in DOMAIN p /\ m \in DOMAIN p
      BY <1>1, <2>2, <2>4
    <3> QED BY <3>1 DEF Ascending
  <2>6. p[m - 1] \in Int /\ p[m] \in Int /\ m \in Int
    BY <1>1, <2>2, <2>4
  <2> QED BY <2>2, <2>5, <2>6, <2>7
<1>3. CASE Len(p) = 0
  BY <1>1, <1>3
<1>4. CASE Len(p) # 0
  <2>1. Len(p) \in 1 .. Len(p)
    BY <1>1, <1>4
  <2>2. ~(p[Len(p)] < Len(p)) /\ p[Len(p)] \in 1 .. MaxThreads
    BY <1>1, <1>2, <2>1
  <2> QED BY <1>1, <2>2
<1> QED BY <1>3, <1>4

(* An ascending list holds each thread once.                                *)
LEMMA AscendingDistinct ==
  ASSUME NEW p \in Seq(Thread), Ascending(p)
  PROVE  Distinct(p)
<1>1. DOMAIN p = 1 .. Len(p) /\ \A i \in DOMAIN p : p[i] \in Int
  <2>1. DOMAIN p = 1 .. Len(p) /\ \A i \in DOMAIN p : p[i] \in Thread
    OBVIOUS
  <2>2. \A c \in Thread : c \in Int
    BY Pids
  <2> QED BY <2>1, <2>2
<1> SUFFICES ASSUME NEW i \in DOMAIN p, NEW j \in DOMAIN p, p[i] = p[j] PROVE i = j
  BY DEF Distinct
<1>2. ~(i < j) /\ ~(j < i)
  BY <1>1 DEF Ascending
<1> QED BY <1>1, <1>2

(* The cells behind the first one.                                          *)
LEMMA PathBehind ==
  ASSUME NEW nx, NEW c, NEW p \in Seq(Thread), p # <<>>, IsPath(nx, c, p)
  PROVE  /\ c = p[1] /\ c = Head(p) /\ c \in Thread /\ c # Null /\ p = <<c>> \o Tail(p)
         /\ Tail(p) \in Seq(Thread) /\ Len(Tail(p)) = Len(p) - 1
         /\ IsPath(nx, nx[c], Tail(p))
<1>1. /\ Len(p) \in Nat /\ 1 \in 1 .. Len(p) /\ p[1] \in Thread /\ Head(p) = p[1]
      /\ Tail(p) \in Seq(Thread) /\ Len(Tail(p)) = Len(p) - 1
      /\ \A i \in 1 .. Len(p) - 1 : Tail(p)[i] = p[i + 1]
  OBVIOUS
<1>2. c = p[1] /\ c # Null
  BY <1>1, Pids DEF IsPath
<1>3. p = <<p[1]>> \o Tail(p)
  <2>1. PICK me, rest : me = <<p[1]>> /\ rest = Tail(p)
    OBVIOUS
  <2>2. me \in Seq(Thread) /\ Len(me) = 1 /\ me[1] = p[1]
    BY <1>1, <2>1
  <2>3. me \o rest = [i \in 1 .. (Len(me) + Len(rest)) |->
                        IF i <= Len(me) THEN me[i] ELSE rest[i - Len(me)]]
    BY <1>1, <2>1, <2>2, Joined
  <2>4. p = [i \in 1 .. Len(p) |-> p[i]]
    OBVIOUS
  <2>5. Len(me) + Len(rest) = Len(p)
    BY <1>1, <2>1, <2>2
  <2>6. ASSUME NEW i \in 1 .. Len(p)
        PROVE  p[i] = IF i <= Len(me) THEN me[i] ELSE rest[i - Len(me)]
    <3>1. CASE i = 1
      BY <2>2, <3>1
    <3>2. CASE i # 1
      <4>1. ~(i <= Len(me)) /\ i - 1 \in 1 .. Len(p) - 1 /\ (i - 1) + 1 = i
        BY <1>1, <2>2, <3>2
      <4> QED BY <1>1, <2>1, <2>2, <4>1
    <3> QED BY <3>1, <3>2
  <2> QED BY <2>1, <2>3, <2>4, <2>5, <2>6
<1>4. PICK r, l : r = Tail(p) /\ l = Len(p)
  OBVIOUS
<1>5. l \in Nat /\ r \in Seq(Thread) /\ Len(r) = l - 1 /\ \A i \in 1 .. l - 1 : r[i] = p[i + 1] /\ i + 1 \in 1 .. l
  BY <1>1, <1>4
<1>6. nx[c] = IF r = <<>> THEN Null ELSE r[1]
  <2>1. nx[c] = IF 1 = l THEN Null ELSE p[1 + 1]
    BY <1>1, <1>2, <1>4 DEF IsPath
  <2>2. r = <<>> <=> l = 1
    <3>1. \A s \in Seq(Thread) : s = <<>> <=> Len(s) = 0
      OBVIOUS
    <3>2. r = <<>> <=> Len(r) = 0
      BY <1>5, <3>1
    <3> QED BY <1>5, <3>2
  <2>3. l # 1 => 1 \in 1 .. l - 1
    BY <1>1, <1>4, <1>5
  <2> QED BY <1>5, <2>1, <2>2, <2>3
<1>7. ASSUME NEW i \in 1 .. Len(r) PROVE nx[r[i]] = IF i = Len(r) THEN Null ELSE r[i + 1]
  <2>1. r[i] = p[i + 1] /\ i + 1 \in 1 .. l /\ (i = l - 1 <=> i + 1 = l)
    BY <1>5
  <2>2. nx[p[i + 1]] = IF i + 1 = l THEN Null ELSE p[(i + 1) + 1]
    BY <1>4, <2>1 DEF IsPath
  <2>3. i # l - 1 => r[i + 1] = p[(i + 1) + 1]
    BY <1>5
  <2> QED BY <1>5, <2>1, <2>2, <2>3
<1>8. IsPath(nx, nx[c], r)
  BY <1>6, <1>7 DEF IsPath
<1> QED BY <1>1, <1>2, <1>3, <1>4, <1>8

(* The recursion of Walk, up to m cells.                                    *)
WalkStep(f, n, c) == IF c = Null \/ n = 0 THEN <<>> ELSE <<c>> \o f[n - 1][next[c]]
WalkUpTo(f, m) == f = [n \in 0 .. m |-> [c \in Thread \cup {Null} |-> WalkStep(f, n, c)]]

(* It has a solution.                                                       *)
LEMMA WalkExists ==
  ASSUME next \in [Thread -> Thread \cup {Null}]
  PROVE  \E f : WalkUpTo(f, MaxThreads)
<1> DEFINE S == {m \in 0 .. MaxThreads : ~ \E f : WalkUpTo(f, m)}
           C == Thread \cup {Null}
<1>1. MaxThreads \in Nat
  BY Pids
<1>2. S = {}
  <2> SUFFICES ASSUME S # {} PROVE FALSE
    OBVIOUS
  <2>1. PICK m \in S : \A k \in S : m <= k
    <3>1. S \in SUBSET Nat
      BY <1>1
    <3> HIDE DEF S
    <3> QED BY <3>1, MinExists
  <2>2. m \in 0 .. MaxThreads /\ ~ \E f : WalkUpTo(f, m)
    BY <2>1
  <2>3. ASSUME m = 0 PROVE FALSE
    <3> DEFINE h == [n \in 0 .. 0 |-> [c \in C |-> <<>>]]
    <3>1. \A n \in 0 .. 0 : n = 0
      OBVIOUS
    <3>2. \A n \in 0 .. 0 : \A c \in C : WalkStep(h, n, c) = <<>>
      BY <3>1 DEF WalkStep
    <3>3. WalkUpTo(h, 0)
      BY <3>2 DEF WalkUpTo
    <3> QED BY <2>2, <2>3, <3>3
  <2>4. m - 1 \in 0 .. MaxThreads /\ m - 1 \notin S /\ m \in Nat
    <3>1. m - 1 \in 0 .. MaxThreads /\ ~(m <= m - 1) /\ m \in Nat
      BY <1>1, <2>2, <2>3
    <3>2. m - 1 \notin S
      <4> HIDE DEF S
      <4> QED BY <2>1, <3>1
    <3> QED BY <3>1, <3>2
  <2>5. PICK g : WalkUpTo(g, m - 1)
    BY <2>4
  <2> DEFINE h == [n \in 0 .. m |-> IF n = m THEN [c \in C |-> WalkStep(g, m, c)] ELSE g[n]]
  <2>6. ASSUME NEW n \in 0 .. m PROVE h[n] = [c \in C |-> WalkStep(h, n, c)]
    <3>1. n # 0 => n - 1 \in 0 .. m /\ n - 1 # m
      BY <2>4
    <3>2. n # 0 => h[n - 1] = g[n - 1]
      BY <3>1
    <3>3. \A c \in C : WalkStep(h, n, c) = WalkStep(g, n, c)
      <4> HIDE DEF h
      <4> QED BY <3>2 DEF WalkStep
    <3>4. CASE n = m
      <4>1. h[n] = [c \in C |-> WalkStep(g, n, c)]
        BY <3>4
      <4> HIDE DEF h
      <4> QED BY <3>3, <4>1
    <3>5. CASE n # m
      <4>1. h[n] = g[n] /\ n \in 0 .. m - 1
        BY <2>4, <3>5
      <4>2. g[n] = [c \in C |-> WalkStep(g, n, c)]
        BY <2>5, <4>1 DEF WalkUpTo
      <4> HIDE DEF h
      <4> QED BY <3>3, <4>1, <4>2
    <3> QED BY <3>4, <3>5
  <2>7. h = [n \in 0 .. m |-> h[n]]
    OBVIOUS
  <2>8. WalkUpTo(h, m)
    <3> HIDE DEF h
    <3> QED BY <2>6, <2>7 DEF WalkUpTo
  <2> QED BY <2>2, <2>8
<1> QED BY <1>1, <1>2

(* A solution follows the pointers to the end of the list.                  *)
LEMMA WalkFollows ==
  ASSUME NEW f, WalkUpTo(f, MaxThreads), NEW c, NEW p \in Seq(Thread), IsPath(next, c, p),
         Len(p) <= MaxThreads
  PROVE  f[MaxThreads][c] = p
<1> DEFINE Wrong(k, n, d, q) == Len(q) = k /\ IsPath(next, d, q) /\ f[n][d] # q
           Fails(k) == \E n \in k .. MaxThreads : \E d : \E q \in Seq(Thread) : Wrong(k, n, d, q)
           S == {k \in Nat : Fails(k)}
<1>1. MaxThreads \in Nat /\ Len(p) \in Nat
  BY Pids
<1> SUFFICES ASSUME S # {} PROVE FALSE
  <2>1. Len(p) \in Nat /\ MaxThreads \in Len(p) .. MaxThreads
    BY <1>1
  <2> QED BY <2>1
<1>2. PICK k \in S : \A i \in S : k <= i
  <2>1. S \in SUBSET Nat
    OBVIOUS
  <2> HIDE DEF S
  <2> QED BY <2>1, MinExists
<1>3. PICK n \in k .. MaxThreads : \E d : \E q \in Seq(Thread) : Wrong(k, n, d, q)
  BY <1>2
<1>4. PICK d : \E q \in Seq(Thread) : Wrong(k, n, d, q)
  BY <1>3
<1>5. PICK q \in Seq(Thread) : Wrong(k, n, d, q)
  BY <1>4
<1>6. k \in Nat /\ n \in 0 .. MaxThreads /\ n \in Nat /\ k <= n
  BY <1>1, <1>2, <1>3
<1>7. ASSUME d \in Thread \cup {Null} PROVE f[n][d] = WalkStep(f, n, d)
  <2>1. f[n] = [e \in Thread \cup {Null} |-> WalkStep(f, n, e)]
    BY <1>6 DEF WalkUpTo
  <2> QED BY <1>7, <2>1
<1>8. CASE q = <<>>
  <2>1. d = Null
    BY <1>5, <1>8 DEF IsPath
  <2>2. f[n][d] = <<>>
    BY <1>7, <2>1 DEF WalkStep
  <2> QED BY <1>5, <1>8, <2>2
<1>9. CASE q # <<>>
  <2>1. /\ d \in Thread /\ d # Null /\ q = <<d>> \o Tail(q) /\ Tail(q) \in Seq(Thread)
        /\ Len(Tail(q)) = Len(q) - 1 /\ IsPath(next, next[d], Tail(q)) /\ Len(q) = k
    BY <1>5, <1>9, PathBehind
  <2>2. k - 1 \in Nat /\ n # 0 /\ n - 1 \in k - 1 .. MaxThreads /\ ~(k <= k - 1)
    <3>1. Len(Tail(q)) \in Nat
      BY <2>1
    <3> QED BY <1>1, <1>6, <2>1, <3>1
  <2>3. k - 1 \notin S
    <3> HIDE DEF S
    <3> QED BY <1>2, <2>2
  <2>4. f[n - 1][next[d]] = Tail(q)
    <3>1. ~Wrong(k - 1, n - 1, next[d], Tail(q))
      <4>1. ~Fails(k - 1)
        BY <2>2, <2>3
      <4> HIDE DEF Wrong
      <4> QED BY <2>1, <2>2, <4>1
    <3> QED BY <2>1, <3>1
  <2>5. f[n][d] = <<d>> \o Tail(q)
    BY <1>7, <2>1, <2>2, <2>4 DEF WalkStep
  <2> QED BY <1>5, <2>1, <2>5
<1> QED BY <1>8, <1>9

(* The walk over a list of threads is that sequence of threads.             *)
LEMMA WalkIs ==
  ASSUME next \in [Thread -> Thread \cup {Null}], NEW t \in Thread, NEW p \in Seq(Thread),
         IsPath(next, first[t], p), Ascending(p)
  PROVE  Walk(t) = p
<1> DEFINE F(f) == f = [n \in 0 .. MaxThreads |->
                          [c \in Thread \cup {Null} |->
                             IF c = Null \/ n = 0 THEN <<>> ELSE <<c>> \o f[n - 1][next[c]]]]
           from == CHOOSE f : F(f)
<1>1. \A f : F(f) <=> WalkUpTo(f, MaxThreads)
  BY DEF WalkUpTo, WalkStep
<1>2. Walk(t) = from[MaxThreads][first[t]]
  BY DEF Walk
<1>3. \E f : F(f)
  <2> HIDE DEF F
  <2> QED BY <1>1, WalkExists
<1>4. F(from)
  <2> HIDE DEF F
  <2> QED BY <1>3
<1> HIDE DEF F, from
<1>5. WalkUpTo(from, MaxThreads)
  BY <1>1, <1>4
<1>6. from[MaxThreads][first[t]] = p
  BY <1>5, AscendingShort, WalkFollows
<1> QED BY <1>2, <1>6

-----------------------------------------------------------------------------
(* What the operations of threads/list.cc do to a list of children.         *)

(* The ends of a list.                                                      *)
LEMMA ListEnds ==
  ASSUME NEW nx, NEW f, NEW l, NEW S, NEW p \in Seq(Thread), ListIs(nx, f, l, S, p)
  PROVE  /\ Len(p) \in Nat /\ DOMAIN p = 1 .. Len(p) /\ \A i \in 1 .. Len(p) : p[i] \in Thread
         /\ S = {p[i] : i \in 1 .. Len(p)} /\ S \subseteq Thread /\ Distinct(p)
         /\ (p = <<>> <=> Len(p) = 0) /\ (p = <<>> <=> S = {})
         /\ p = <<>> => f = Null /\ l = Null
         /\ p # <<>> => /\ 1 \in 1 .. Len(p) /\ Len(p) \in 1 .. Len(p)
                        /\ f = p[1] /\ l = p[Len(p)] /\ f \in S /\ l \in S
<1>1. /\ Len(p) \in Nat /\ DOMAIN p = 1 .. Len(p) /\ \A i \in 1 .. Len(p) : p[i] \in Thread
      /\ p = <<>> <=> Len(p) = 0
  OBVIOUS
<1>2. S = {p[i] : i \in 1 .. Len(p)}
  BY <1>1 DEF ListIs, ToSet
<1>3. p # <<>> => 1 \in 1 .. Len(p) /\ Len(p) \in 1 .. Len(p)
  BY <1>1
<1>4. S \subseteq Thread
  BY <1>1, <1>2
<1>5. p = <<>> <=> S = {}
  <2>1. p # <<>> => S # {}
    BY <1>2, <1>3
  <2>2. p = <<>> => 1 .. Len(p) = {}
    BY <1>1
  <2> QED BY <1>2, <2>1, <2>2
<1>6. Distinct(p)
  BY AscendingDistinct DEF ListIs
<1>7. p = <<>> => f = Null /\ l = Null
  BY DEF ListIs, IsPath
<1>8. p # <<>> => f = p[1] /\ l = p[Len(p)]
  BY DEF ListIs, IsPath
<1>9. p # <<>> => f \in S /\ l \in S
  BY <1>2, <1>3, <1>8
<1> QED BY <1>1, <1>2, <1>3, <1>4, <1>5, <1>6, <1>7, <1>8, <1>9

(* A list whose cells are not touched.                                      *)
LEMMA ListKept ==
  ASSUME NEW nx, NEW nx2, NEW f, NEW l, NEW S, HasList(nx, f, l, S),
         \A d \in S : nx2[d] = nx[d]
  PROVE  HasList(nx2, f, l, S)
<1>1. PICK p \in Seq(Thread) : ListIs(nx, f, l, S, p)
  BY DEF HasList
<1>2. \A i \in 1 .. Len(p) : p[i] \in S
  BY <1>1, ListEnds
<1>3. IsPath(nx2, f, p)
  BY <1>1, <1>2 DEF ListIs, IsPath
<1> QED BY <1>1, <1>3 DEF HasList, ListIs

(* A cell behind the last one.                                              *)
LEMMA ListAppend ==
  ASSUME NEW nx, NEW nx2, NEW f, NEW l, NEW S, HasList(nx, f, l, S), NEW x \in Thread,
         \A d \in S : d < x, nx2[x] = Null, S # {} => nx2[l] = x,
         \A d \in S : d # l => nx2[d] = nx[d]
  PROVE  HasList(nx2, IF S = {} THEN x ELSE f, x, S \cup {x})
<1>1. PICK p \in Seq(Thread) : ListIs(nx, f, l, S, p)
  BY DEF HasList
<1>2. /\ Len(p) \in Nat /\ DOMAIN p = 1 .. Len(p) /\ \A i \in 1 .. Len(p) : p[i] \in Thread
      /\ S = {p[i] : i \in 1 .. Len(p)} /\ S \subseteq Thread /\ Distinct(p)
      /\ (p = <<>> <=> Len(p) = 0) /\ (p = <<>> <=> S = {})
      /\ p = <<>> => f = Null /\ l = Null
      /\ p # <<>> => /\ 1 \in 1 .. Len(p) /\ Len(p) \in 1 .. Len(p)
                     /\ f = p[1] /\ l = p[Len(p)] /\ f \in S /\ l \in S
  BY <1>1, ListEnds
<1>3. PICK q, n : q = Append(p, x) /\ n = Len(p)
  OBVIOUS
<1>4. /\ q \in Seq(Thread) /\ Len(q) = n + 1 /\ n \in Nat /\ DOMAIN q = 1 .. n + 1
      /\ \A i \in 1 .. n : q[i] = p[i] /\ p[i] \in S
      /\ q[n + 1] = x /\ q # <<>>
  BY <1>2, <1>3
<1>5. \A i \in 1 .. n + 1 : i \in 1 .. n \/ i = n + 1
  BY <1>4
<1>6. ToSet(q) = S \cup {x}
  <2>1. ToSet(p) = S /\ x \notin S
    <3>1. ~(x < x)
      BY Pids
    <3> QED BY <1>1, <3>1 DEF ListIs
  <2> QED BY <1>2, <1>3, <2>1, AppendDistinct
<1>7. Ascending(q)
  <2> SUFFICES ASSUME NEW i \in 1 .. n + 1, NEW j \in 1 .. n + 1, i < j PROVE q[i] < q[j]
    BY <1>4 DEF Ascending
  <2>1. i \in 1 .. n
    BY <1>4
  <2>2. CASE j \in 1 .. n
    <3>1. p[i] < p[j]
      BY <1>1, <1>2, <1>3, <2>1, <2>2 DEF ListIs, Ascending
    <3> QED BY <1>4, <2>1, <2>2, <3>1
  <2>3. CASE j = n + 1
    BY <1>4, <2>1, <2>3
  <2> QED BY <1>5, <2>2, <2>3
<1>8. (IF S = {} THEN x ELSE f) = q[1]
  <2>1. CASE S = {}
    <3>1. p = <<>>
      BY <1>2, <2>1
    <3>2. n = 0 /\ 0 + 1 = 1
      BY <1>2, <1>3, <3>1
    <3> QED BY <1>4, <2>1, <3>2
  <2>2. CASE S # {}
    BY <1>2, <1>3, <1>4, <2>2
  <2> QED BY <2>1, <2>2
<1>9. ASSUME NEW i \in 1 .. n + 1 PROVE nx2[q[i]] = IF i = n + 1 THEN Null ELSE q[i + 1]
  <2>1. CASE i = n + 1
    BY <1>4, <2>1
  <2>2. CASE i = n /\ i # n + 1 /\ i \in 1 .. n
    <3>1. q[i] = l /\ S # {}
      BY <1>2, <1>3, <1>4, <2>2
    <3> QED BY <1>4, <2>2, <3>1
  <2>3. CASE i \in 1 .. n /\ i # n /\ i # n + 1
    <3>1. i + 1 \in 1 .. n /\ n \in 1 .. n
      BY <1>4, <2>3
    <3>2. q[i] = p[i] /\ q[i + 1] = p[i + 1] /\ p[i] \in S
      BY <1>4, <2>3, <3>1
    <3>3. p[i] # l
      <4>1. n \in DOMAIN p /\ i \in DOMAIN p
        BY <1>2, <1>3, <2>3, <3>1
      <4>2. p[i] # p[n]
        BY <2>3, <4>1, <1>2 DEF Distinct
      <4>3. l = p[n]
        BY <1>2, <1>3, <3>2
      <4> QED BY <4>2, <4>3
    <3>4. nx[p[i]] = p[i + 1]
      BY <1>1, <1>3, <2>3 DEF ListIs, IsPath
    <3> QED BY <2>3, <3>2, <3>3, <3>4
  <2> QED BY <1>4, <1>5, <2>1, <2>2, <2>3
<1>10. IsPath(nx2, IF S = {} THEN x ELSE f, q)
  BY <1>4, <1>8, <1>9 DEF IsPath
<1>11. x = q[Len(q)]
  BY <1>4
<1> QED BY <1>4, <1>6, <1>7, <1>10, <1>11 DEF HasList, ListIs

(* The first cell goes.                                                     *)
LEMMA ListTail ==
  ASSUME NEW nx, NEW f, NEW l, NEW S, HasList(nx, f, l, S), S # {}
  PROVE  HasList(nx, nx[f], IF l = f THEN Null ELSE l, S \ {f})
<1>1. PICK p \in Seq(Thread) : ListIs(nx, f, l, S, p)
  BY DEF HasList
<1>2. /\ Len(p) \in Nat /\ DOMAIN p = 1 .. Len(p) /\ \A i \in 1 .. Len(p) : p[i] \in Thread
      /\ Distinct(p) /\ p # <<>> /\ 1 \in 1 .. Len(p) /\ Len(p) \in 1 .. Len(p)
      /\ f = p[1] /\ l = p[Len(p)] /\ ToSet(p) = S /\ IsPath(nx, f, p)
  BY <1>1, ListEnds DEF ListIs
<1>3. PICK q, n : q = Tail(p) /\ n = Len(p)
  OBVIOUS
<1>4. f = Head(p) /\ q \in Seq(Thread) /\ Len(q) = n - 1 /\ IsPath(nx, nx[f], q)
  BY <1>2, <1>3, PathBehind
<1>5. /\ n \in Nat /\ n >= 1 /\ DOMAIN q = 1 .. n - 1
      /\ \A i \in 1 .. n - 1 : q[i] = p[i + 1] /\ i + 1 \in 1 .. n
      /\ q = <<>> <=> n - 1 = 0
  <2>1. n \in Nat /\ n >= 1 /\ \A i \in 1 .. n - 1 : i + 1 \in 1 .. n
    BY <1>2, <1>3
  <2>2. DOMAIN q = 1 .. n - 1 /\ (q = <<>> <=> Len(q) = 0)
    <3>1. \A s \in Seq(Thread) : DOMAIN s = 1 .. Len(s) /\ (s = <<>> <=> Len(s) = 0)
      OBVIOUS
    <3>2. DOMAIN q = 1 .. Len(q) /\ (q = <<>> <=> Len(q) = 0)
      BY <1>4, <3>1
    <3> QED BY <1>4, <3>2
  <2>3. \A i \in 1 .. n - 1 : q[i] = p[i + 1]
    BY <1>2, <1>3
  <2> QED BY <1>4, <2>1, <2>2, <2>3
<1>6. ToSet(q) = S \ {f}
  BY <1>2, <1>3, <1>4, HeadTailDistinct
<1>7. Ascending(q)
  <2> SUFFICES ASSUME NEW i \in 1 .. n - 1, NEW j \in 1 .. n - 1, i < j PROVE q[i] < q[j]
    BY <1>5 DEF Ascending
  <2>1. i + 1 < j + 1 /\ i + 1 \in DOMAIN p /\ j + 1 \in DOMAIN p
    BY <1>2, <1>3, <1>5
  <2>2. p[i + 1] < p[j + 1]
    BY <1>1, <2>1 DEF ListIs, Ascending
  <2> QED BY <1>5, <2>2
<1>8. (IF l = f THEN Null ELSE l) = IF q = <<>> THEN Null ELSE q[Len(q)]
  <2>1. CASE n = 1
    BY <1>2, <1>3, <1>5, <2>1
  <2>2. CASE n # 1
    <3>1. l # f
      BY <1>2, <1>3, <2>2 DEF Distinct
    <3>2. n - 1 \in 1 .. n - 1 /\ (n - 1) + 1 = n /\ q # <<>>
      BY <1>5, <2>2
    <3>3. q[n - 1] = p[n]
      BY <1>5, <3>2
    <3> QED BY <1>2, <1>3, <1>4, <3>1, <3>2, <3>3
  <2> QED BY <2>1, <2>2
<1> QED BY <1>4, <1>6, <1>7, <1>8 DEF HasList, ListIs

(* The cell b becomes the last one of a list with the threads of S.         *)
CutBehind(nx, nx2, S, b) == nx2[b] = Null /\ \A d \in S : d # b => nx2[d] = nx[d]

(* The last cell goes, and the one before it is told.                       *)
LEMMA ListFront ==
  ASSUME NEW nx, NEW nx2, NEW f, NEW l, NEW S, NEW p \in Seq(Thread), ListIs(nx, f, l, S, p),
         Len(p) > 1, NEW b, b = p[Len(p) - 1], CutBehind(nx, nx2, S, b)
  PROVE  b \in S /\ HasList(nx2, f, b, S \ {l})
<1>1. /\ Len(p) \in Nat /\ DOMAIN p = 1 .. Len(p) /\ \A i \in 1 .. Len(p) : p[i] \in Thread
      /\ S = {p[i] : i \in 1 .. Len(p)} /\ Distinct(p)
      /\ f = p[1] /\ l = p[Len(p)]
  BY ListEnds
<1>2. nx2[b] = Null /\ \A d \in S : d # b => nx2[d] = nx[d]
  BY DEF CutBehind
<1>3. PICK n : n = Len(p) - 1
  OBVIOUS
<1>4. n \in Nat /\ n >= 1 /\ Len(p) = n + 1 /\ n \in 0 .. Len(p) /\ b = p[n]
  BY <1>1, <1>3
<1>5. PICK q : q = SubSeq(p, 1, n)
  OBVIOUS
<1>6. /\ q \in Seq(Thread) /\ Len(q) = n /\ DOMAIN q = 1 .. n
      /\ \A i \in 1 .. n : q[i] = p[i] /\ i \in 1 .. Len(p)
      /\ q # <<>>
  BY <1>1, <1>4, <1>5
<1>7. ToSet(q) = S \ {l}
  <2>1. ToSet(q) = {p[i] : i \in 1 .. n}
    BY <1>1, <1>4, <1>5, TakeDistinct
  <2>2. \A i \in 1 .. Len(p) : i \in 1 .. n \/ i = Len(p)
    BY <1>4
  <2>3. \A i \in 1 .. n : i # Len(p) /\ i \in DOMAIN p /\ Len(p) \in DOMAIN p
    BY <1>1, <1>4
  <2>4. \A i \in 1 .. n : p[i] # l
    BY <1>1, <2>3 DEF Distinct
  <2> QED BY <1>1, <1>6, <2>1, <2>2, <2>4
<1>8. Ascending(q)
  BY <1>1, <1>6 DEF ListIs, Ascending
<1>9. ASSUME NEW i \in 1 .. n PROVE nx2[q[i]] = IF i = n THEN Null ELSE q[i + 1]
  <2>1. CASE i = n
    BY <1>4, <1>6, <1>2, <2>1
  <2>2. CASE i # n
    <3>1. i + 1 \in 1 .. n /\ i \in DOMAIN p /\ n \in DOMAIN p /\ i # Len(p)
      BY <1>1, <1>4, <2>2
    <3>2. p[i] # b /\ p[i] \in S
      BY <1>1, <1>4, <2>2, <3>1 DEF Distinct
    <3>3. nx[p[i]] = p[i + 1]
      BY <1>1, <3>1 DEF ListIs, IsPath
    <3> QED BY <1>6, <1>2, <2>2, <3>1, <3>2, <3>3
  <2> QED BY <2>1, <2>2
<1>10. IsPath(nx2, f, q)
  <2>1. f = q[1]
    BY <1>1, <1>4, <1>6
  <2> QED BY <1>6, <1>9, <2>1 DEF IsPath
<1>11. b = q[Len(q)] /\ b \in S
  <2>1. n \in 1 .. n /\ n \in 1 .. Len(p)
    BY <1>4
  <2> QED BY <1>1, <1>4, <1>6, <2>1
<1> QED BY <1>6, <1>7, <1>8, <1>10, <1>11 DEF HasList, ListIs

-----------------------------------------------------------------------------
(* The inductive invariant.                                                 *)

Statuses == {"RUNNING", "READY", "BLOCKED", "FINISHED"}
A1Types ==
  /\ machine \in {"on", "halted", "aborted", "torn"}
  /\ currentPid \in 2 .. MaxThreads + 1 /\ currentThread \in Created
  /\ threadToBeDestroyed \in Thread \cup {Null} /\ deleted \in SUBSET Thread
  /\ status \in [Thread -> Statuses]
  /\ parentThread \in [Thread -> Thread \cup {Null}]
  /\ ppid \in [Thread -> Thread \cup {Null, Garbage}]
  /\ waitPid \in [Thread -> Nat] /\ joining \in [Thread -> Nat]
  /\ first \in [Thread -> Thread \cup {Null}] /\ last \in [Thread -> Thread \cup {Null}]
  /\ next \in [Thread -> Thread \cup {Null}]
  /\ exited \in [Thread -> SUBSET Thread] /\ exitCode \in [Thread -> ExitCode \cup {0}]

(* A thread is on the ready list once, exactly while it is ready, and on    *)
(* the list of sleepers once, exactly while it is blocked outside of Join.  *)
Queued ==
  /\ readyList \in Seq(Thread) /\ Distinct(readyList)
  /\ sleepingThreads \in Seq(Thread) /\ Distinct(sleepingThreads)
  /\ ToSet(readyList) = {t \in Thread : status[t] = "READY"}
  /\ ToSet(sleepingThreads) = {t \in Thread : status[t] = "BLOCKED" /\ joining[t] = 0}
  /\ \A t \in Thread : status[t] = "RUNNING" => currentThread = t

(* numThreads counts the living, and only the dead are deleted.             *)
Counted ==
  /\ numThreads = Cardinality(Alive)
  /\ \A t \in deleted \cup ({threadToBeDestroyed} \ {Null}) :
       t \in Created /\ status[t] = "FINISHED"

(* A thread that is not made yet has no children.                           *)
Unborn ==
  \A t \in Thread \ Created :
    status[t] = "FINISHED" /\ first[t] = Null /\ last[t] = Null /\ exited[t] = {}

(* The parent of a thread lives or has told it that it exits; a living      *)
(* thread has the keys of its children that have exited.                    *)
Kin ==
  /\ parentThread[Main] = Null /\ ppid[Main] = Garbage
  /\ \A t \in Thread \ Created : parentThread[t] = Null /\ ppid[t] = 0
  /\ \A t \in Created : ppid[t] < currentPid
  /\ \A t \in Alive : /\ parentThread[t] \in Alive \cup {Null}
                      /\ t # Main => ppid[t] = parentThread[t]
                      /\ exited[t] = {c \in Created : status[c] = "FINISHED" /\ ppid[c] = t}

(* The list of a living thread holds its living children.                   *)
Families ==
  machine # "torn" => \A t \in Alive : HasList(next, first[t], last[t], Family(t))

(* A thread blocked in Join has a living child that will wake it; one that  *)
(* is back in Join has the key of that child; and a thread that has a       *)
(* living child in waitPid is blocked in the Join of it.                    *)
Waiters ==
  /\ \A t \in Thread \ Created : waitPid[t] = 0 /\ joining[t] = 0
  /\ \A t \in Created : waitPid[t] < currentPid /\ (status[t] = "FINISHED" => joining[t] = 0)
  /\ \A t \in Alive : joining[t] # 0 =>
       IF status[t] = "BLOCKED"
       THEN waitPid[t] = joining[t] /\ joining[t] \in Alive /\ parentThread[joining[t]] = t
       ELSE joining[t] \in exited[t]
  /\ \A t, c \in Alive :
       waitPid[t] = c /\ parentThread[c] = t => status[t] = "BLOCKED" /\ joining[t] = c

IInv == A1Types /\ Queued /\ Counted /\ Unborn /\ Kin /\ Families /\ Waiters

(* What Walk finds on a list.                                               *)
LEMMA WalkOfList ==
  ASSUME A1Types, NEW t \in Thread, NEW S, HasList(next, first[t], last[t], S)
  PROVE  /\ Walk(t) \in Seq(Thread) /\ ListIs(next, first[t], last[t], S, Walk(t))
         /\ \A c : Listed(t, c) <=> c \in S
<1>1. PICK p \in Seq(Thread) : ListIs(next, first[t], last[t], S, p)
  BY DEF HasList
<1>2. Walk(t) = p
  BY <1>1, WalkIs DEF ListIs, A1Types
<1> QED BY <1>1, <1>2 DEF Listed, ListIs

(* SortedInsert of a thread that is younger than all on the list.           *)
LEMMA SortedInsertAppends ==
  ASSUME A1Types, NEW t \in Thread, NEW S, HasList(next, first[t], last[t], S),
         NEW c \in Thread, \A d \in S : d < c, SortedInsert(t, c)
  PROVE  /\ first' = IF S = {} THEN [first EXCEPT ![t] = c] ELSE first
         /\ last' = [last EXCEPT ![t] = c]
         /\ next' = [d \in Thread |-> IF d = c THEN Null
                                      ELSE IF S # {} /\ d = last[t] THEN c ELSE next[d]]
         /\ HasList(next', first'[t], last'[t], S \cup {c})
<1>1. PICK p : p = Walk(t)
  OBVIOUS
<1>2. p \in Seq(Thread) /\ ListIs(next, first[t], last[t], S, p)
  BY <1>1, WalkOfList
<1>3. /\ Len(p) \in Nat /\ DOMAIN p = 1 .. Len(p) /\ S = {p[i] : i \in 1 .. Len(p)}
      /\ (p = <<>> <=> Len(p) = 0) /\ (p = <<>> <=> S = {})
      /\ p # <<>> => last[t] \in S
      /\ S \subseteq Thread
  BY <1>2, ListEnds
<1>4. \A d \in S : d <= c
  <2>1. \A d \in S : d \in Nat /\ c \in Nat
    BY <1>3, Pids
  <2> QED BY <2>1
<1>5. {k \in DOMAIN p : p[k] <= c} = 1 .. Len(p)
  BY <1>3, <1>4
<1>6. Cardinality(1 .. Len(p)) = Len(p)
  <2>1. Cardinality(1 .. Len(p)) = IF 1 > Len(p) THEN 0 ELSE Len(p) - 1 + 1
    BY <1>3, FS_Interval
  <2> QED BY <1>3, <2>1
<1>7. PICK n : n = Cardinality({k \in DOMAIN p : p[k] <= c})
  OBVIOUS
<1>8. n = Len(p) /\ n \in Nat
  BY <1>3, <1>5, <1>6, <1>7
<1>9. /\ first' = IF n = 0 THEN [first EXCEPT ![t] = c] ELSE first
      /\ last' = [last EXCEPT ![t] = c]
      /\ next' = [d \in Thread |-> IF d = c THEN Null
                                   ELSE IF n > 0 /\ d = last[t] THEN c ELSE next[d]]
  BY <1>1, <1>7, <1>8 DEF SortedInsert
<1>10. (n = 0 <=> S = {}) /\ (n > 0 <=> S # {})
  <2>1. n = 0 <=> p = <<>>
    BY <1>3, <1>8
  <2>2. n = 0 <=> S = {}
    BY <1>3, <2>1
  <2> QED BY <1>8, <2>2
<1>11. /\ first' = IF S = {} THEN [first EXCEPT ![t] = c] ELSE first
       /\ last' = [last EXCEPT ![t] = c]
       /\ next' = [d \in Thread |-> IF d = c THEN Null
                                    ELSE IF S # {} /\ d = last[t] THEN c ELSE next[d]]
  BY <1>9, <1>10
<1>12. c \notin S
  <2>1. ~(c < c)
    BY Pids
  <2> QED BY <2>1
<1>13. next'[c] = Null /\ \A d \in S : next'[d] = IF d = last[t] THEN c ELSE next[d]
  BY <1>3, <1>11, <1>12
<1>14. S # {} => last[t] \in S
  BY <1>3
<1>15. HasList(next', IF S = {} THEN c ELSE first[t], c, S \cup {c})
  BY <1>13, <1>14, ListAppend
<1>16. first'[t] = (IF S = {} THEN c ELSE first[t]) /\ last'[t] = c
  BY <1>11 DEF A1Types
<1> QED BY <1>11, <1>15, <1>16

(* RemoveElement, as long as the cell is at an end of the list.             *)
LEMMA RemoveElementRemoves ==
  ASSUME A1Types, NEW t \in Thread, NEW S, HasList(next, first[t], last[t], S),
         NEW c \in S, RemoveElement(t, c)
  PROVE  /\ first' \in [Thread -> Thread \cup {Null}] /\ last' \in [Thread -> Thread \cup {Null}]
         /\ next' \in [Thread -> Thread \cup {Null}]
         /\ \A u \in Thread : u # t => first'[u] = first[u] /\ last'[u] = last[u]
         /\ \A d \in Thread : d \notin S => next'[d] = next[d]
         /\ c \in {first[t], last[t]} => HasList(next', first'[t], last'[t], S \ {c})
<1>1. PICK p : p = Walk(t)
  OBVIOUS
<1>2. p \in Seq(Thread) /\ ListIs(next, first[t], last[t], S, p) /\ Listed(t, c)
  BY <1>1, WalkOfList
<1>3. /\ Len(p) \in Nat /\ DOMAIN p = 1 .. Len(p) /\ \A i \in 1 .. Len(p) : p[i] \in Thread
      /\ S = {p[i] : i \in 1 .. Len(p)} /\ S \subseteq Thread /\ Distinct(p) /\ p # <<>>
      /\ 1 \in 1 .. Len(p) /\ Len(p) \in 1 .. Len(p) /\ first[t] = p[1] /\ last[t] = p[Len(p)]
  BY <1>2, ListEnds
<1>4. PICK k : k = CHOOSE n \in DOMAIN p : p[n] = c
  OBVIOUS
<1>5. k \in DOMAIN p /\ p[k] = c
  <2>1. \E n \in DOMAIN p : p[n] = c
    BY <1>3
  <2> QED BY <1>4, <2>1
<1>6. /\ first' = IF k = 1 THEN [first EXCEPT ![t] = next[c]] ELSE first
      /\ last'  = IF c # last[t] THEN last
                  ELSE [last EXCEPT ![t] = IF k = 1 THEN Null ELSE p[k - 1]]
      /\ next'  = IF k > 1 /\ c = last[t] THEN [next EXCEPT ![p[k - 1]] = Null] ELSE next
  BY <1>1, <1>2, <1>4 DEF RemoveElement
<1>7. k \in Int /\ k >= 1 /\ (k # 1 => k - 1 \in 1 .. Len(p) /\ k > 1)
  BY <1>3, <1>5
<1>8. k # 1 => p[k - 1] \in S /\ p[k - 1] \in Thread
  BY <1>3, <1>7
<1>9. /\ first' \in [Thread -> Thread \cup {Null}] /\ last' \in [Thread -> Thread \cup {Null}]
      /\ next' \in [Thread -> Thread \cup {Null}]
  <2>1. first' \in [Thread -> Thread \cup {Null}]
    BY <1>3, <1>6 DEF A1Types
  <2>2. last' \in [Thread -> Thread \cup {Null}]
    BY <1>6, <1>8 DEF A1Types
  <2>3. next' \in [Thread -> Thread \cup {Null}]
    BY <1>6 DEF A1Types
  <2> QED BY <2>1, <2>2, <2>3
<1>10. \A u \in Thread : u # t => first'[u] = first[u] /\ last'[u] = last[u]
  <2>1. \A u \in Thread : u # t => first'[u] = first[u]
    BY <1>6 DEF A1Types
  <2>2. \A u \in Thread : u # t => last'[u] = last[u]
    BY <1>6 DEF A1Types
  <2> QED BY <2>1, <2>2
<1>11. \A d \in Thread : d \notin S => next'[d] = next[d]
  <2>1. \A d \in Thread : d \notin S /\ k # 1 => d # p[k - 1]
    BY <1>8
  <2> QED BY <1>6, <1>7, <2>1 DEF A1Types
<1>12. CASE c = first[t]
  <2>1. k = 1
    BY <1>3, <1>5, <1>12 DEF Distinct
  <2>2. next' = next /\ first'[t] = next[first[t]]
    BY <1>6, <1>7, <1>12, <2>1 DEF A1Types
  <2>3. last'[t] = IF last[t] = first[t] THEN Null ELSE last[t]
    BY <1>6, <1>12, <2>1 DEF A1Types
  <2>4. S # {}
    OBVIOUS
  <2>5. HasList(next, next[first[t]], IF last[t] = first[t] THEN Null ELSE last[t], S \ {first[t]})
    BY <2>4, ListTail
  <2>6. HasList(next', first'[t], last'[t], S \ {c})
    BY <1>12, <2>2, <2>3, <2>5
  <2> QED BY <1>9, <1>10, <1>11, <2>6
<1>13. CASE c = last[t] /\ c # first[t]
  <2>1. k = Len(p) /\ k # 1
    BY <1>3, <1>5, <1>13 DEF Distinct
  <2>2. PICK b : b = p[Len(p) - 1]
    OBVIOUS
  <2>3. b \in S /\ b \in Thread /\ Len(p) > 1
    BY <1>7, <1>8, <2>1, <2>2
  <2>4. /\ next' = [next EXCEPT ![b] = Null] /\ first'[t] = first[t]
        /\ last' = [last EXCEPT ![t] = b]
    BY <1>6, <1>7, <1>13, <2>1, <2>2
  <2>5. next'[b] = Null /\ \A d \in S : d # b => next'[d] = next[d]
    BY <1>3, <2>3, <2>4 DEF A1Types
  <2>6. last'[t] = b
    BY <2>4 DEF A1Types
  <2>7. HasList(next', first[t], b, S \ {last[t]})
    <3>1. PICK nx, nx2, f, l : nx = next /\ nx2 = next' /\ f = first[t] /\ l = last[t]
      OBVIOUS
    <3>2. ListIs(nx, f, l, S, p) /\ CutBehind(nx, nx2, S, b)
      BY <1>2, <2>5, <3>1 DEF CutBehind
    <3>3. HasList(nx2, f, b, S \ {l})
      BY <1>2, <2>2, <2>3, <3>2, ListFront
    <3> QED BY <3>1, <3>3
  <2>8. HasList(next', first'[t], last'[t], S \ {c})
    BY <1>13, <2>4, <2>6, <2>7
  <2> QED BY <1>9, <1>10, <1>11, <2>8
<1> QED BY <1>9, <1>10, <1>11, <1>12, <1>13

-----------------------------------------------------------------------------
(* Threads that move between the processor and the lists.                   *)

(* The threads that are made, and the living ones.                          *)
LEMMA Living ==
  ASSUME IInv
  PROVE  /\ Created \subseteq Thread /\ Alive \subseteq Created
         /\ Alive = {t \in Thread : status[t] # "FINISHED"} /\ IsFiniteSet(Alive)
         /\ Main \in Created /\ currentPid \in Nat
         /\ \A t \in Thread : t \in Created <=> t < currentPid
<1>1. /\ currentPid \in 2 .. MaxThreads + 1 /\ MaxThreads \in Nat
  BY Pids DEF IInv, A1Types
<1>2. Created \subseteq Thread /\ Alive \subseteq Created /\ Main \in Created
  BY <1>1 DEF Created, Alive, Thread, Main
<1>3. Alive = {t \in Thread : status[t] # "FINISHED"}
  BY <1>2 DEF Alive, IInv, Unborn
<1>4. IsFiniteSet(Alive)
  <2>1. IsFiniteSet(Thread)
    BY <1>1, FS_Interval DEF Thread
  <2> QED BY <1>2, <2>1, FS_Subset
<1>5. \A t \in Thread : t \in Created <=> t < currentPid
  BY <1>1 DEF Thread, Created
<1> QED BY <1>1, <1>2, <1>3, <1>4, <1>5

(* The thread that makes a system call.                                     *)
LEMMA Caller ==
  ASSUME IInv, NEW t \in Thread, User(t)
  PROVE  /\ machine = "on" /\ currentThread = t /\ status[t] = "RUNNING" /\ joining[t] = 0
         /\ t \in Alive /\ t \in Created
         /\ t \notin ToSet(readyList) /\ t \notin ToSet(sleepingThreads)
         /\ \A u \in Thread : status[u] = "RUNNING" => u = t
<1>1. machine = "on" /\ currentThread = t /\ status[t] = "RUNNING" /\ joining[t] = 0
  BY DEF User
<1>2. t \in Alive /\ t \in Created
  BY <1>1, Living
<1>3. t \notin ToSet(readyList) /\ t \notin ToSet(sleepingThreads)
  BY <1>1 DEF IInv, Queued
<1>4. \A u \in Thread : status[u] = "RUNNING" => u = t
  BY <1>1 DEF IInv, Queued
<1> QED BY <1>1, <1>2, <1>3, <1>4

(* Nobody is made and nobody exits.                                         *)
SameLives ==
  /\ UNCHANGED <<numThreads, currentPid, familyVars, exited, exitCode>>
  /\ status' \in [Thread -> Statuses]
  /\ \A t \in Thread : status'[t] = "FINISHED" <=> status[t] = "FINISHED"
  /\ \A t \in deleted' \cup ({threadToBeDestroyed'} \ {Null}) :
       t \in deleted \cup ({threadToBeDestroyed} \ {Null})

(* Then families stay as they are.                                          *)
LEMMA LivesKept ==
  ASSUME IInv, machine = "on", SameLives
  PROVE  /\ Created' = Created /\ Alive' = Alive
         /\ Counted' /\ Unborn' /\ Kin' /\ Families'
<1>1. /\ numThreads' = numThreads /\ currentPid' = currentPid
      /\ parentThread' = parentThread /\ ppid' = ppid
      /\ first' = first /\ last' = last /\ next' = next
      /\ exited' = exited /\ exitCode' = exitCode
  BY DEF SameLives, familyVars, listVars
<1>2. Created' = Created
  BY <1>1 DEF Created
<1>3. Alive' = Alive
  BY <1>2, Living DEF Alive, SameLives
<1>4. Counted'
  <2>1. deleted \cup ({threadToBeDestroyed} \ {Null}) \subseteq Thread
    BY DEF IInv, A1Types
  <2>2. numThreads' = Cardinality(Alive')
    BY <1>1, <1>3 DEF IInv, Counted
  <2>3. \A t \in deleted' \cup ({threadToBeDestroyed'} \ {Null}) :
          t \in Created' /\ status'[t] = "FINISHED"
    BY <1>2, <2>1 DEF IInv, Counted, SameLives
  <2> QED BY <2>2, <2>3 DEF Counted
<1>5. Unborn'
  BY <1>1, <1>2 DEF IInv, Unborn, SameLives
<1>6. Kin'
  <2>1. {c \in Created' : status'[c] = "FINISHED" /\ TRUE} = {c \in Created : status[c] = "FINISHED"}
    BY <1>2, Living DEF SameLives
  <2>2. ASSUME NEW t \in Alive
        PROVE  exited'[t] = {c \in Created' : status'[c] = "FINISHED" /\ ppid'[c] = t}
    <3>1. exited[t] = {c \in Created : status[c] = "FINISHED" /\ ppid[c] = t}
      BY DEF IInv, Kin
    <3> QED BY <1>1, <2>1, <3>1
  <2> QED BY <1>1, <1>2, <1>3, <2>2 DEF IInv, Kin
<1>7. Families'
  <2>1. \A t : Family(t)' = Family(t)
    BY <1>1, <1>3 DEF Family
  <2>2. \A t \in Alive : HasList(next, first[t], last[t], Family(t))
    BY DEF IInv, Families
  <2>3. \A t \in Alive : HasList(next', first'[t], last'[t], Family(t)')
    BY <1>1, <2>1, <2>2
  <2> QED BY <1>3, <2>3 DEF Families
<1> QED BY <1>2, <1>3, <1>4, <1>5, <1>6, <1>7

(* A ready list and the status of the threads.                              *)
Ready(q, st) ==
  /\ q \in Seq(Thread) /\ Distinct(q) /\ st \in [Thread -> Statuses]
  /\ ToSet(q) = {t \in Thread : st[t] = "READY"}

(* Nobody enters or leaves a Join.                                          *)
SameJoins ==
  /\ UNCHANGED <<waitPid, joining>>
  /\ \A t \in Thread : joining[t] # 0 => (status'[t] = "BLOCKED" <=> status[t] = "BLOCKED")

(* The lists and the processor after a step.                                *)
Arranged ==
  /\ Ready(readyList', status') /\ currentThread' \in Created
  /\ \A t \in Thread : status'[t] = "RUNNING" => currentThread' = t
  /\ sleepingThreads' \in Seq(Thread) /\ Distinct(sleepingThreads')
  /\ ToSet(sleepingThreads') = {t \in Thread : status'[t] = "BLOCKED" /\ joining'[t] = 0}

(* Then those who join are waited for as before.                            *)
LEMMA JoinsKept ==
  ASSUME IInv, machine = "on", SameLives, SameJoins
  PROVE  Waiters'
<1>1. /\ Created' = Created /\ Alive' = Alive /\ waitPid' = waitPid /\ joining' = joining
      /\ currentPid' = currentPid /\ parentThread' = parentThread /\ exited' = exited
  BY LivesKept DEF SameLives, SameJoins, familyVars
<1>2. /\ \A t \in Thread \ Created : waitPid[t] = 0 /\ joining[t] = 0
      /\ \A t \in Created : waitPid[t] < currentPid /\ (status[t] = "FINISHED" => joining[t] = 0)
      /\ Created \subseteq Thread /\ Alive \subseteq Thread
  BY Living DEF IInv, Waiters
<1>3. \A t \in Created : status'[t] = "FINISHED" => joining[t] = 0
  BY <1>2 DEF SameLives
<1>4. ASSUME NEW t \in Alive, joining[t] # 0
      PROVE  IF status'[t] = "BLOCKED"
             THEN waitPid[t] = joining[t] /\ joining[t] \in Alive /\ parentThread[joining[t]] = t
             ELSE joining[t] \in exited[t]
  <2>1. status'[t] = "BLOCKED" <=> status[t] = "BLOCKED"
    BY <1>2, <1>4 DEF SameJoins
  <2>2. IF status[t] = "BLOCKED"
        THEN waitPid[t] = joining[t] /\ joining[t] \in Alive /\ parentThread[joining[t]] = t
        ELSE joining[t] \in exited[t]
    BY <1>4 DEF IInv, Waiters
  <2> QED BY <2>1, <2>2
<1>5. ASSUME NEW t \in Alive, NEW c \in Alive, waitPid[t] = c, parentThread[c] = t
      PROVE  status'[t] = "BLOCKED" /\ joining[t] = c
  <2>1. status[t] = "BLOCKED" /\ joining[t] = c
    BY <1>5 DEF IInv, Waiters
  <2>2. c # 0
    BY <1>2, Pids DEF Null
  <2> QED BY <1>2, <2>1, <2>2 DEF SameJoins
<1> QED BY <1>1, <1>2, <1>3, <1>4, <1>5 DEF Waiters

(* A step that only moves threads between the processor and the lists.      *)
LEMMA MoveKeeps ==
  ASSUME IInv, machine = "on", machine' = "on", SameLives, SameJoins, Arranged,
         threadToBeDestroyed' \in Thread \cup {Null}, deleted' \in SUBSET Thread
  PROVE  IInv'
<1>1. Created' = Created /\ Counted' /\ Unborn' /\ Kin' /\ Families' /\ Waiters'
  BY LivesKept, JoinsKept
<1>2. A1Types'
  BY <1>1 DEF IInv, A1Types, SameLives, SameJoins, Arranged, familyVars, listVars
<1>3. Queued'
  BY DEF Arranged, Ready, Queued
<1> QED BY <1>1, <1>2, <1>3 DEF IInv

(* Run of the first of a ready list.                                        *)
LEMMA RunMoves ==
  ASSUME NEW q, NEW st, Ready(q, st), q # <<>>, \A t \in Thread : st[t] # "RUNNING", Run(q, st)
  PROVE  /\ Ready(readyList', status') /\ currentThread' \in Thread
         /\ st[currentThread'] = "READY" /\ status' = [st EXCEPT ![currentThread'] = "RUNNING"]
         /\ \A t \in Thread : status'[t] = "RUNNING" => currentThread' = t
         /\ threadToBeDestroyed' = Null /\ deleted' = deleted \cup ({threadToBeDestroyed} \ {Null})
<1>1. PICK h, r : h = Head(q) /\ r = Tail(q)
  OBVIOUS
<1>2. /\ h \in Thread /\ h \in ToSet(q) /\ r \in Seq(Thread) /\ Distinct(r)
      /\ ToSet(r) = ToSet(q) \ {h}
  BY <1>1, HeadTailDistinct DEF Ready
<1>3. /\ currentThread' = h /\ readyList' = r /\ status' = [st EXCEPT ![h] = "RUNNING"]
      /\ threadToBeDestroyed' = Null /\ deleted' = deleted \cup ({threadToBeDestroyed} \ {Null})
  BY <1>1 DEF Run
<1>4. st[h] = "READY" /\ st \in [Thread -> Statuses]
  BY <1>2 DEF Ready
<1>5. status' \in [Thread -> Statuses]
  BY <1>3, <1>4 DEF Statuses
<1>6. ToSet(r) = {t \in Thread : status'[t] = "READY"}
  BY <1>2, <1>3, <1>4 DEF Ready
<1>7. \A t \in Thread : status'[t] = "RUNNING" => h = t
  BY <1>3, <1>4
<1> QED BY <1>2, <1>3, <1>4, <1>5, <1>6, <1>7 DEF Ready

(* Whom a dispatch may choose is made and lives.                            *)
LEMMA ReadyLives ==
  ASSUME IInv, NEW t \in Thread, status[t] # "FINISHED"
  PROVE  t \in Created
BY Living

(* Dispatch.                                                                *)
LEMMA DispatchKeeps ==
  ASSUME IInv, Dispatch
  PROVE  IInv'
<1>1. /\ machine = "on" /\ machine' = "on" /\ status[currentThread] # "RUNNING"
      /\ readyList # <<>> /\ Run(readyList, status)
      /\ UNCHANGED <<sleepingThreads, numThreads, currentPid, familyVars, waitPid, joining, exitVars>>
  BY DEF Dispatch
<1>2. Ready(readyList, status) /\ \A t \in Thread : status[t] # "RUNNING"
  BY <1>1 DEF IInv, A1Types, Queued, Ready
<1>3. /\ Ready(readyList', status') /\ currentThread' \in Thread
      /\ status[currentThread'] = "READY" /\ status' = [status EXCEPT ![currentThread'] = "RUNNING"]
      /\ \A t \in Thread : status'[t] = "RUNNING" => currentThread' = t
      /\ threadToBeDestroyed' = Null /\ deleted' = deleted \cup ({threadToBeDestroyed} \ {Null})
  BY <1>1, <1>2, RunMoves
<1>4. PICK h : h = currentThread'
  OBVIOUS
<1>5. h \in Thread /\ status[h] = "READY" /\ status' = [status EXCEPT ![h] = "RUNNING"]
  BY <1>3, <1>4
<1>6. status \in [Thread -> Statuses] /\ status' \in [Thread -> Statuses]
  BY <1>3 DEF IInv, A1Types, Ready
<1>7. \A t \in Thread : /\ status'[t] = "FINISHED" <=> status[t] = "FINISHED"
                        /\ status'[t] = "BLOCKED" <=> status[t] = "BLOCKED"
  BY <1>5, <1>6
<1>8. SameLives
  BY <1>1, <1>3, <1>6, <1>7 DEF SameLives, exitVars
<1>9. SameJoins
  BY <1>1, <1>7 DEF SameJoins
<1>10. h \in Created
  BY <1>5, ReadyLives
<1>11. Arranged
  BY <1>1, <1>3, <1>4, <1>7, <1>10 DEF IInv, Queued, Arranged
<1>12. threadToBeDestroyed' \in Thread \cup {Null} /\ deleted' \in SUBSET Thread
  BY <1>3 DEF IInv, A1Types
<1> QED BY <1>1, <1>8, <1>9, <1>11, <1>12, MoveKeeps

(* The thread that calls and those just woken go behind the ready list, and *)
(* the first of it runs.                                                    *)
LEMMA TurnKeeps ==
  ASSUME IInv, machine = "on", machine' = "on", status[currentThread] = "RUNNING",
         NEW q, NEW st, Ready(q, st), q # <<>>, st[currentThread] = "READY",
         \A t \in Thread : t # currentThread =>
           \/ st[t] = status[t]
           \/ st[t] = "READY" /\ status[t] = "BLOCKED" /\ joining[t] = 0,
         Run(q, st),
         UNCHANGED <<numThreads, currentPid, familyVars, waitPid, joining, exitVars>>,
         joining[currentThread] = 0,
         sleepingThreads' \in Seq(Thread), Distinct(sleepingThreads'),
         ToSet(sleepingThreads') = {t \in Thread : st[t] = "BLOCKED" /\ joining[t] = 0}
  PROVE  IInv'
<1>1. /\ status \in [Thread -> Statuses] /\ st \in [Thread -> Statuses] /\ currentThread \in Thread
      /\ \A t \in Thread : status[t] = "RUNNING" => currentThread = t
  BY Living DEF IInv, A1Types, Queued, Ready
<1>2. \A t \in Thread : st[t] # "RUNNING"
  BY <1>1
<1>3. /\ Ready(readyList', status') /\ currentThread' \in Thread
      /\ st[currentThread'] = "READY" /\ status' = [st EXCEPT ![currentThread'] = "RUNNING"]
      /\ \A t \in Thread : status'[t] = "RUNNING" => currentThread' = t
      /\ threadToBeDestroyed' = Null /\ deleted' = deleted \cup ({threadToBeDestroyed} \ {Null})
  BY <1>2, RunMoves
<1>4. PICK h : h = currentThread'
  OBVIOUS
<1>5. h \in Thread /\ st[h] = "READY" /\ status' = [st EXCEPT ![h] = "RUNNING"]
  BY <1>3, <1>4
<1>6. status' \in [Thread -> Statuses]
  BY <1>3 DEF Ready
<1>7. \A t \in Thread : /\ status'[t] = "FINISHED" <=> st[t] = "FINISHED"
                        /\ status'[t] = "BLOCKED" <=> st[t] = "BLOCKED"
  BY <1>1, <1>5
<1>8. \A t \in Thread : /\ st[t] = "FINISHED" <=> status[t] = "FINISHED"
                        /\ joining[t] # 0 => (st[t] = "BLOCKED" <=> status[t] = "BLOCKED")
  BY <1>1
<1>9. SameLives
  BY <1>3, <1>6, <1>7, <1>8 DEF SameLives, exitVars
<1>10. SameJoins
  BY <1>7, <1>8 DEF SameJoins
<1>11. h \in Created
  BY <1>5, <1>8, ReadyLives
<1>12. Arranged
  BY <1>3, <1>4, <1>7, <1>11 DEF Arranged
<1>13. threadToBeDestroyed' \in Thread \cup {Null} /\ deleted' \in SUBSET Thread
  BY <1>3 DEF IInv, A1Types
<1> QED BY <1>9, <1>10, <1>12, <1>13, MoveKeeps

(* Nothing happens to threads and lists.                                    *)
LEMMA StillKeeps ==
  ASSUME IInv, machine = "on", machine' \in {"on", "halted", "aborted"},
         UNCHANGED <<currentThread, readyList, sleepingThreads, threadToBeDestroyed, numThreads,
                     currentPid, deleted, status, familyVars, waitPid, joining, exitVars>>
  PROVE  IInv'
<1>1. SameLives /\ SameJoins
  BY DEF SameLives, SameJoins, IInv, A1Types, exitVars
<1>2. Created' = Created /\ Counted' /\ Unborn' /\ Kin' /\ Families' /\ Waiters'
  BY <1>1, LivesKept, JoinsKept
<1>3. A1Types'
  BY <1>2 DEF IInv, A1Types, familyVars, listVars, exitVars
<1>4. Queued'
  BY DEF IInv, Queued
<1> QED BY <1>2, <1>3, <1>4 DEF IInv

(* Yield.                                                                   *)
LEMMA YieldKeeps ==
  ASSUME IInv, NEW t \in Thread, Yield(t)
  PROVE  IInv'
<1>1. /\ User(t) /\ machine' = machine /\ YieldCPU(t, readyList)
      /\ UNCHANGED <<sleepingThreads, numThreads, currentPid, familyVars, waitPid, joining, exitVars>>
  BY DEF Yield
<1>2. /\ machine = "on" /\ currentThread = t /\ status[t] = "RUNNING" /\ joining[t] = 0
      /\ t \notin ToSet(readyList)
  BY <1>1, Caller
<1>3. CASE readyList = <<>>
  BY <1>1, <1>2, <1>3, StillKeeps DEF YieldCPU
<1>4. CASE readyList # <<>>
  <2>1. PICK q, st : q = Append(readyList, t) /\ st = [status EXCEPT ![t] = "READY"]
    OBVIOUS
  <2>2. Run(q, st)
    BY <1>1, <1>4, <2>1 DEF YieldCPU
  <2>3. readyList \in Seq(Thread) /\ Distinct(readyList) /\ status \in [Thread -> Statuses]
        /\ ToSet(readyList) = {u \in Thread : status[u] = "READY"}
    BY DEF IInv, A1Types, Queued
  <2>4. q \in Seq(Thread) /\ ToSet(q) = ToSet(readyList) \cup {t} /\ Distinct(q) /\ q # <<>>
    <3>1. q \in Seq(Thread) /\ ToSet(q) = ToSet(readyList) \cup {t} /\ Distinct(q)
      BY <1>2, <2>1, <2>3, AppendDistinct
    <3>2. q # <<>>
      BY <2>1, <2>3
    <3> QED BY <3>1, <3>2
  <2>5. st \in [Thread -> Statuses] /\ st[t] = "READY" /\ \A u \in Thread : u # t => st[u] = status[u]
    BY <2>1, <2>3 DEF Statuses
  <2>6. Ready(q, st)
    BY <2>3, <2>4, <2>5 DEF Ready
  <2>7. /\ sleepingThreads' \in Seq(Thread) /\ Distinct(sleepingThreads')
        /\ ToSet(sleepingThreads') = {u \in Thread : st[u] = "BLOCKED" /\ joining[u] = 0}
    BY <1>1, <1>2, <2>5 DEF IInv, Queued
  <2> QED BY <1>1, <1>2, <2>2, <2>4, <2>5, <2>6, <2>7, TurnKeeps
<1> QED BY <1>3, <1>4

(* Sleep.                                                                   *)
LEMMA SleepKeeps ==
  ASSUME IInv, NEW t \in Thread, Sleep(t)
  PROVE  IInv'
<1>1. /\ User(t) /\ machine' = machine
      /\ status' = [status EXCEPT ![t] = "BLOCKED"]
      /\ UNCHANGED <<currentThread, readyList, threadToBeDestroyed, deleted, numThreads, currentPid,
                     familyVars, waitPid, joining, exitVars>>
  BY DEF Sleep
<1>2. PICK i \in 1 .. Len(sleepingThreads) + 1 :
        sleepingThreads' = InsertAt(sleepingThreads, i, t)
  BY DEF Sleep
<1>3. /\ machine = "on" /\ currentThread = t /\ status[t] = "RUNNING" /\ joining[t] = 0
      /\ t \notin ToSet(sleepingThreads) /\ t \in Created
      /\ \A u \in Thread : status[u] = "RUNNING" => u = t
  BY <1>1, Caller
<1>4. /\ readyList \in Seq(Thread) /\ Distinct(readyList) /\ status \in [Thread -> Statuses]
      /\ ToSet(readyList) = {u \in Thread : status[u] = "READY"}
      /\ sleepingThreads \in Seq(Thread) /\ Distinct(sleepingThreads)
      /\ ToSet(sleepingThreads) = {u \in Thread : status[u] = "BLOCKED" /\ joining[u] = 0}
  BY DEF IInv, A1Types, Queued
<1>5. /\ sleepingThreads' \in Seq(Thread) /\ Distinct(sleepingThreads')
      /\ ToSet(sleepingThreads') = ToSet(sleepingThreads) \cup {t}
  BY <1>2, <1>3, <1>4, InsertAtDistinct
<1>6. /\ status' \in [Thread -> Statuses] /\ status'[t] = "BLOCKED"
      /\ \A u \in Thread : u # t => status'[u] = status[u]
  BY <1>1, <1>4 DEF Statuses
<1>7. Ready(readyList', status')
  BY <1>1, <1>3, <1>4, <1>6 DEF Ready
<1>8. ToSet(sleepingThreads') = {u \in Thread : status'[u] = "BLOCKED" /\ joining'[u] = 0}
  BY <1>1, <1>3, <1>4, <1>5, <1>6
<1>9. \A u \in Thread : status'[u] = "RUNNING" => currentThread' = u
  BY <1>3, <1>6
<1>10. Arranged
  BY <1>1, <1>3, <1>5, <1>7, <1>8, <1>9 DEF Arranged
<1>11. SameLives /\ SameJoins
  BY <1>1, <1>3, <1>6 DEF SameLives, SameJoins, exitVars
<1>12. threadToBeDestroyed' \in Thread \cup {Null} /\ deleted' \in SUBSET Thread
  BY <1>1 DEF IInv, A1Types
<1> QED BY <1>1, <1>3, <1>10, <1>11, <1>12, MoveKeeps

(* Exec, and the ends of the machine.                                       *)
LEMMA ExecKeeps ==
  ASSUME IInv, NEW t \in Thread, Exec(t) \/ ExitHalts(t) \/ (User(t) /\ \E pages : NoRoom(pages))
  PROVE  IInv'
<1>1. User(t)
  BY DEF Exec, ExitHalts
<1>2. /\ machine = "on" /\ (machine' = machine \/ machine' \in {"halted", "aborted"})
      /\ UNCHANGED <<currentThread, readyList, sleepingThreads, threadToBeDestroyed, numThreads,
                     currentPid, deleted, status, familyVars, waitPid, joining, exitVars>>
  BY <1>1, Caller DEF Exec, ExitHalts, NoRoom
<1> QED BY <1>2, StillKeeps

(* The sleepers that go on sleeping.                                        *)
LEMMA SleepOnKeeps ==
  ASSUME NEW r \in Seq(Thread), Distinct(r), SleepOn(r)
  PROVE  /\ sleepingThreads' \in Seq(Thread) /\ Distinct(sleepingThreads')
         /\ ToSet(sleepingThreads') = ToSet(r)
<1>1. CASE r = <<>>
  BY <1>1 DEF SleepOn
<1>2. CASE r # <<>>
  <2>1. PICK h, w : h = Head(r) /\ w = Tail(r)
    OBVIOUS
  <2>2. /\ h \in Thread /\ h \in ToSet(r) /\ w \in Seq(Thread) /\ Distinct(w)
        /\ ToSet(w) = ToSet(r) \ {h} /\ Len(w) = Len(r) - 1
    BY <1>2, <2>1, HeadTailDistinct
  <2>3. PICK i \in 1 .. Len(r) : sleepingThreads' = InsertAt(w, i, h)
    BY <1>2, <2>1 DEF SleepOn
  <2>4. i \in 1 .. Len(w) + 1
    <3>1. Len(r) \in Nat
      OBVIOUS
    <3>2. Len(w) + 1 = Len(r)
      BY <2>2, <3>1
    <3> QED BY <2>3, <3>2
  <2>5. /\ InsertAt(w, i, h) \in Seq(Thread) /\ Distinct(InsertAt(w, i, h))
        /\ ToSet(InsertAt(w, i, h)) = ToSet(w) \cup {h}
    BY <2>2, <2>4, InsertAtDistinct
  <2> QED BY <2>2, <2>3, <2>5
<1> QED BY <1>1, <1>2

(* TimerInterrupt.                                                          *)
LEMMA TimerKeeps ==
  ASSUME IInv, TimerInterrupt
  PROVE  IInv'
<1>1. /\ machine = "on" /\ machine' = "on"
      /\ joining[currentThread] = 0 \/ status[currentThread] # "RUNNING"
      /\ UNCHANGED <<numThreads, currentPid, familyVars, waitPid, joining, exitVars>>
  BY DEF TimerInterrupt
<1>2. PICK n \in 0 .. Len(sleepingThreads) :
        /\ SleepOn(SubSeq(sleepingThreads, n + 1, Len(sleepingThreads)))
        /\ \/ /\ status[currentThread] = "RUNNING"
              /\ LET ready == readyList \o Woken(n) IN
                 IF ready = <<>>
                 THEN UNCHANGED <<currentThread, readyList, status, deleted, threadToBeDestroyed>>
                 ELSE Run(Append(ready, currentThread),
                          [Readied(Woken(n)) EXCEPT ![currentThread] = "READY"])
           \/ /\ status[currentThread] # "RUNNING" /\ readyList = <<>>
              /\ readyList' = Woken(n) /\ status' = Readied(Woken(n))
              /\ UNCHANGED <<currentThread, deleted, threadToBeDestroyed>>
  BY DEF TimerInterrupt
<1>3. PICK w, rest, s : /\ w = Woken(n) /\ s = sleepingThreads
                        /\ rest = SubSeq(sleepingThreads, n + 1, Len(sleepingThreads))
  OBVIOUS
<1>4. /\ readyList \in Seq(Thread) /\ Distinct(readyList) /\ status \in [Thread -> Statuses]
      /\ ToSet(readyList) = {u \in Thread : status[u] = "READY"}
      /\ s \in Seq(Thread) /\ Distinct(s)
      /\ ToSet(s) = {u \in Thread : status[u] = "BLOCKED" /\ joining[u] = 0}
      /\ \A u \in Thread : status[u] = "RUNNING" => currentThread = u
      /\ currentThread \in Created /\ currentThread \in Thread
  BY <1>3, Living DEF IInv, A1Types, Queued
<1>5. /\ w \in Seq(Thread) /\ Distinct(w) /\ ToSet(w) = {s[i] : i \in 1 .. n}
      /\ rest \in Seq(Thread) /\ Distinct(rest) /\ ToSet(rest) = ToSet(s) \ {s[i] : i \in 1 .. n}
  <2>1. w = SubSeq(s, 1, n) /\ rest = SubSeq(s, n + 1, Len(s)) /\ n \in 0 .. Len(s)
    BY <1>2, <1>3 DEF Woken
  <2>2. w \in Seq(Thread) /\ Distinct(w) /\ ToSet(w) = {s[i] : i \in 1 .. n}
    BY <1>4, <2>1, TakeDistinct
  <2>3. rest \in Seq(Thread) /\ Distinct(rest) /\ ToSet(rest) = ToSet(s) \ {s[i] : i \in 1 .. n}
    BY <1>4, <2>1, DropDistinct
  <2> QED BY <2>2, <2>3
<1>6. ToSet(w) \subseteq ToSet(s)
  <2>1. \A i \in 1 .. n : i \in DOMAIN s
    BY <1>2, <1>3, <1>4
  <2> QED BY <1>5, <2>1 DEF ToSet
<1>7. /\ sleepingThreads' \in Seq(Thread) /\ Distinct(sleepingThreads')
      /\ ToSet(sleepingThreads') = ToSet(s) \ ToSet(w)
  <2>1. SleepOn(rest)
    BY <1>2, <1>3
  <2> QED BY <1>5, <2>1, SleepOnKeeps
<1>8. PICK awake : awake = Readied(w)
  OBVIOUS
<1>9. /\ awake \in [Thread -> Statuses]
      /\ \A u \in Thread : awake[u] = IF u \in ToSet(w) THEN "READY" ELSE status[u]
  BY <1>4, <1>8 DEF Readied, Statuses
<1>10. \A u \in ToSet(w) : u \in Thread /\ status[u] = "BLOCKED" /\ joining[u] = 0
  BY <1>4, <1>6
<1>11. /\ readyList \o w \in Seq(Thread) /\ Distinct(readyList \o w)
       /\ ToSet(readyList \o w) = ToSet(readyList) \cup ToSet(w)
  <2>1. ToSet(readyList) \cap ToSet(w) = {}
    BY <1>4, <1>10
  <2> QED BY <1>4, <1>5, <2>1, ConcatDistinct
<1>12. PICK ready : ready = readyList \o w
  OBVIOUS
<1>13. /\ ready \in Seq(Thread) /\ Distinct(ready)
       /\ ToSet(ready) = {u \in Thread : awake[u] = "READY"}
  <2>1. \A u \in Thread : awake[u] = "READY" <=> u \in ToSet(w) \/ status[u] = "READY"
    BY <1>9
  <2>2. ToSet(w) \subseteq Thread
    BY <1>10
  <2> QED BY <1>4, <1>11, <1>12, <2>1, <2>2
<1>14. ToSet(sleepingThreads') = {u \in Thread : awake[u] = "BLOCKED" /\ joining[u] = 0}
  <2>1. \A u \in Thread : awake[u] = "BLOCKED" <=> status[u] = "BLOCKED" /\ u \notin ToSet(w)
    BY <1>9
  <2> QED BY <1>4, <1>7, <2>1
<1>15. \A u \in Thread : \/ awake[u] = status[u]
                         \/ awake[u] = "READY" /\ status[u] = "BLOCKED" /\ joining[u] = 0
  BY <1>9, <1>10
<1>16. CASE /\ status[currentThread] = "RUNNING" /\ ready = <<>>
            /\ UNCHANGED <<currentThread, readyList, status, deleted, threadToBeDestroyed>>
  <2>1. SameLives /\ SameJoins
    BY <1>1, <1>4, <1>16 DEF SameLives, SameJoins, exitVars
  <2>2. ToSet(ready) = {}
    BY <1>16 DEF ToSet
  <2>3. \A u \in Thread : awake[u] = status[u]
    BY <1>13, <1>15, <2>2
  <2>4. Ready(readyList', status')
    BY <1>4, <1>16 DEF Ready
  <2>5. Arranged
    BY <1>1, <1>4, <1>7, <1>14, <1>16, <2>3, <2>4 DEF Arranged
  <2>6. threadToBeDestroyed' \in Thread \cup {Null} /\ deleted' \in SUBSET Thread
    BY <1>16 DEF IInv, A1Types
  <2> QED BY <1>1, <2>1, <2>5, <2>6, MoveKeeps
<1>17. CASE /\ status[currentThread] = "RUNNING"
            /\ Run(Append(ready, currentThread), [awake EXCEPT ![currentThread] = "READY"])
  <2>1. PICK q, st, c : /\ c = currentThread /\ q = Append(ready, c)
                        /\ st = [awake EXCEPT ![c] = "READY"]
    OBVIOUS
  <2>2. c \in Thread /\ status[c] = "RUNNING" /\ awake[c] = "RUNNING" /\ joining[c] = 0
    BY <1>1, <1>4, <1>9, <1>10, <1>17, <2>1
  <2>3. c \notin ToSet(ready)
    BY <1>13, <2>2
  <2>4. q \in Seq(Thread) /\ Distinct(q) /\ ToSet(q) = ToSet(ready) \cup {c} /\ q # <<>>
    <3>1. q \in Seq(Thread) /\ Distinct(q) /\ ToSet(q) = ToSet(ready) \cup {c}
      BY <1>13, <2>1, <2>2, <2>3, AppendDistinct
    <3>2. q # <<>>
      BY <1>13, <2>1
    <3> QED BY <3>1, <3>2
  <2>5. /\ st \in [Thread -> Statuses] /\ st[c] = "READY"
        /\ \A u \in Thread : u # c => st[u] = awake[u]
    BY <1>9, <2>1, <2>2 DEF Statuses
  <2>6. Ready(q, st)
    BY <1>13, <2>2, <2>4, <2>5 DEF Ready
  <2>7. ToSet(sleepingThreads') = {u \in Thread : st[u] = "BLOCKED" /\ joining[u] = 0}
    BY <1>14, <2>2, <2>5
  <2>8. \A u \in Thread : u # currentThread =>
           \/ st[u] = status[u]
           \/ st[u] = "READY" /\ status[u] = "BLOCKED" /\ joining[u] = 0
    BY <1>15, <2>1, <2>5
  <2>9. Run(q, st) /\ st[currentThread] = "READY" /\ joining[currentThread] = 0
    BY <1>17, <2>1, <2>2, <2>5
  <2> QED BY <1>1, <1>7, <1>17, <2>4, <2>6, <2>7, <2>8, <2>9, TurnKeeps
<1>18. CASE /\ status[currentThread] # "RUNNING" /\ readyList = <<>>
            /\ readyList' = w /\ status' = awake
            /\ UNCHANGED <<currentThread, deleted, threadToBeDestroyed>>
  <2>1. \A u \in Thread : /\ awake[u] = "FINISHED" <=> status[u] = "FINISHED"
                          /\ joining[u] # 0 => (awake[u] = "BLOCKED" <=> status[u] = "BLOCKED")
                          /\ awake[u] = "RUNNING" => status[u] = "RUNNING"
    BY <1>15
  <2>2. SameLives /\ SameJoins
    BY <1>1, <1>9, <1>18, <2>1 DEF SameLives, SameJoins, exitVars
  <2>3. ToSet(w) = {u \in Thread : awake[u] = "READY"}
    <3>1. ToSet(readyList) = {}
      BY <1>18 DEF ToSet
    <3> QED BY <1>11, <1>12, <1>13, <3>1
  <2>4. Ready(readyList', status')
    BY <1>5, <1>9, <1>18, <2>3 DEF Ready
  <2>5. Arranged
    BY <1>1, <1>4, <1>7, <1>14, <1>18, <2>1, <2>4 DEF Arranged
  <2>6. threadToBeDestroyed' \in Thread \cup {Null} /\ deleted' \in SUBSET Thread
    BY <1>18 DEF IInv, A1Types
  <2> QED BY <1>1, <2>2, <2>5, <2>6, MoveKeeps
<1> QED BY <1>2, <1>3, <1>8, <1>12, <1>16, <1>17, <1>18

-----------------------------------------------------------------------------
(* Fork.                                                                    *)

(* The list of a thread without children.                                   *)
LEMMA EmptyList ==
  ASSUME NEW nx
  PROVE  HasList(nx, Null, Null, {})
<1>1. PICK p : p = <<>>
  OBVIOUS
<1>2. p \in Seq(Thread) /\ Len(p) = 0 /\ DOMAIN p = {}
  BY <1>1
<1>3. IsPath(nx, Null, p)
  BY <1>1, <1>2 DEF IsPath
<1>4. Ascending(p) /\ ToSet(p) = {}
  BY <1>2 DEF Ascending, ToSet
<1> QED BY <1>1, <1>2, <1>3, <1>4 DEF HasList, ListIs

(* The list of a thread that calls, and what Listed says of it.             *)
LEMMA MyList ==
  ASSUME IInv, NEW t \in Alive, machine = "on"
  PROVE  /\ HasList(next, first[t], last[t], Family(t))
         /\ \A c : Listed(t, c) <=> c \in Family(t)
         /\ Family(t) \subseteq Alive /\ (Family(t) # {} => last[t] \in Family(t))
<1>1. HasList(next, first[t], last[t], Family(t))
  BY DEF IInv, Families
<1>2. t \in Thread /\ A1Types
  BY Living DEF IInv
<1>3. \A c : Listed(t, c) <=> c \in Family(t)
  BY <1>1, <1>2, WalkOfList
<1>4. Family(t) \subseteq Alive
  BY DEF Family
<1>5. Family(t) # {} => last[t] \in Family(t)
  <2>1. PICK p \in Seq(Thread) : ListIs(next, first[t], last[t], Family(t), p)
    BY <1>1 DEF HasList
  <2> QED BY <2>1, ListEnds
<1> QED BY <1>1, <1>3, <1>4, <1>5

(* What Fork does, when there are pages for it.                             *)
Forks(t, c) ==
  /\ User(t) /\ c = currentPid /\ c <= MaxThreads /\ machine' = machine
  /\ currentPid' = currentPid + 1 /\ numThreads' = numThreads + 1
  /\ SortedInsert(t, c)
  /\ parentThread' = [parentThread EXCEPT ![c] = t] /\ ppid' = [ppid EXCEPT ![c] = t]
  /\ status' = [status EXCEPT ![c] = "READY"] /\ readyList' = Append(readyList, c)
  /\ UNCHANGED <<currentThread, sleepingThreads, threadToBeDestroyed, deleted, waitPid, joining,
                 exited, exitCode>>

(* The child is new.                                                        *)
LEMMA ForkFacts ==
  ASSUME IInv, NEW t \in Thread, NEW c, Forks(t, c)
  PROVE  /\ machine = "on" /\ t \in Alive /\ t # c /\ c \in Thread \ Created /\ c # Main
         /\ currentThread = t /\ status[t] = "RUNNING"
         /\ Created' = Created \cup {c} /\ Alive' = Alive \cup {c}
         /\ \A u \in Created : u < c /\ u # c
         /\ status' \in [Thread -> Statuses] /\ status'[c] = "READY" /\ status[c] = "FINISHED"
         /\ \A u \in Thread : u # c => status'[u] = status[u]
         /\ \A u \in Thread : parentThread'[u] = IF u = c THEN t ELSE parentThread[u]
         /\ \A u \in Thread : ppid'[u] = IF u = c THEN t ELSE ppid[u]
<1>1. machine = "on" /\ currentThread = t /\ status[t] = "RUNNING" /\ t \in Alive /\ t \in Created
  BY Caller DEF Forks
<1>2. /\ c = currentPid /\ c \in Nat /\ c <= MaxThreads /\ c >= 2 /\ currentPid' = c + 1
      /\ MaxThreads \in Nat
  BY Pids DEF Forks, IInv, A1Types
<1>3. c \in Thread \ Created /\ c # Main /\ \A u \in Created : u < c /\ u # c
  BY <1>2 DEF Thread, Created, Main
<1>4. Created' = Created \cup {c}
  <2>1. 1 .. (c + 1) - 1 = (1 .. c - 1) \cup {c}
    BY <1>2
  <2> QED BY <1>2, <2>1 DEF Created
<1>5. /\ status' \in [Thread -> Statuses] /\ status'[c] = "READY" /\ status[c] = "FINISHED"
      /\ \A u \in Thread : u # c => status'[u] = status[u]
  BY <1>3 DEF Forks, IInv, A1Types, Unborn, Statuses
<1>6. Alive' = Alive \cup {c}
  <2>1. Created \subseteq Thread
    BY Living
  <2> QED BY <1>3, <1>4, <1>5, <2>1 DEF Alive
<1>7. /\ \A u \in Thread : parentThread'[u] = IF u = c THEN t ELSE parentThread[u]
      /\ \A u \in Thread : ppid'[u] = IF u = c THEN t ELSE ppid[u]
  BY DEF Forks, IInv, A1Types
<1> QED BY <1>1, <1>3, <1>4, <1>5, <1>6, <1>7

(* The families after it.                                                   *)
LEMMA ForkFamilies ==
  ASSUME IInv, NEW t \in Thread, NEW c, Forks(t, c)
  PROVE  /\ Families' /\ Unborn'
         /\ first' \in [Thread -> Thread \cup {Null}] /\ last' \in [Thread -> Thread \cup {Null}]
         /\ next' \in [Thread -> Thread \cup {Null}]
<1>1. /\ machine = "on" /\ t \in Alive /\ t # c /\ c \in Thread \ Created
      /\ Created' = Created \cup {c} /\ Alive' = Alive \cup {c}
      /\ \A u \in Created : u < c /\ u # c
      /\ \A u \in Thread : parentThread'[u] = IF u = c THEN t ELSE parentThread[u]
      /\ Alive \subseteq Created /\ Created \subseteq Thread
  BY ForkFacts, Living
<1>2. /\ HasList(next, first[t], last[t], Family(t)) /\ Family(t) \subseteq Alive
      /\ Family(t) # {} => last[t] \in Family(t)
  BY <1>1, MyList
<1>3. /\ first' = IF Family(t) = {} THEN [first EXCEPT ![t] = c] ELSE first
      /\ last' = [last EXCEPT ![t] = c]
      /\ next' = [d \in Thread |-> IF d = c THEN Null
                                   ELSE IF Family(t) # {} /\ d = last[t] THEN c ELSE next[d]]
      /\ HasList(next', first'[t], last'[t], Family(t) \cup {c})
  <2>1. \A d \in Family(t) : d < c
    BY <1>1, <1>2
  <2>2. A1Types /\ SortedInsert(t, c)
    BY DEF IInv, Forks
  <2> QED BY <1>1, <1>2, <2>1, <2>2, SortedInsertAppends
<1>4. /\ first' \in [Thread -> Thread \cup {Null}] /\ last' \in [Thread -> Thread \cup {Null}]
      /\ next' \in [Thread -> Thread \cup {Null}]
  BY <1>1, <1>3 DEF IInv, A1Types
<1>5. \A u \in Thread : u # t => first'[u] = first[u] /\ last'[u] = last[u]
  BY <1>3 DEF IInv, A1Types
<1>6. Family(t)' = Family(t) \cup {c}
  BY <1>1 DEF Family
<1>7. ASSUME NEW u \in Alive, u # t
      PROVE  HasList(next', first'[u], last'[u], Family(u)')
  <2>1. Family(u)' = Family(u)
    BY <1>1, <1>7 DEF Family
  <2>2. HasList(next, first[u], last[u], Family(u))
    BY <1>1, MyList
  <2>3. \A d \in Family(u) : d \in Thread /\ d # c /\ d \notin Family(t)
    BY <1>1, <1>7 DEF Family
  <2>4. \A d \in Family(u) : next'[d] = next[d]
    BY <1>2, <1>3, <2>3
  <2>5. HasList(next', first[u], last[u], Family(u))
    BY <2>2, <2>4, ListKept
  <2>6. first'[u] = first[u] /\ last'[u] = last[u]
    BY <1>1, <1>5, <1>7
  <2> QED BY <2>1, <2>5, <2>6
<1>8. HasList(next', first'[c], last'[c], Family(c)')
  <2>1. first'[c] = Null /\ last'[c] = Null
    BY <1>1, <1>5 DEF IInv, Unborn
  <2>2. \A d \in Alive : parentThread[d] # c
    BY <1>1, Pids DEF IInv, Kin
  <2>3. Family(c)' = {}
    BY <1>1, <2>2 DEF Family
  <2> QED BY <2>1, <2>3, EmptyList
<1>9. Families'
  <2>1. \A u \in Alive' : HasList(next', first'[u], last'[u], Family(u)')
    BY <1>1, <1>3, <1>6, <1>7, <1>8
  <2> QED BY <2>1 DEF Families
<1>10. Unborn'
  <2> SUFFICES ASSUME NEW u \in Thread \ Created'
               PROVE  /\ status'[u] = "FINISHED" /\ first'[u] = Null /\ last'[u] = Null
                      /\ exited'[u] = {}
    BY DEF Unborn
  <2>1. u \in Thread \ Created /\ u # c /\ u # t
    BY <1>1
  <2>2. status'[u] = status[u] /\ exited' = exited
    BY <2>1, ForkFacts DEF Forks
  <2> QED BY <1>5, <2>1, <2>2 DEF IInv, Unborn
<1> QED BY <1>4, <1>9, <1>10

(* Fork with pages for the child.                                           *)
LEMMA ForksKeeps ==
  ASSUME IInv, NEW t \in Thread, NEW c, Forks(t, c)
  PROVE  IInv'
<1>1. /\ machine = "on" /\ t \in Alive /\ t # c /\ c \in Thread \ Created /\ c # Main
      /\ currentThread = t /\ status[t] = "RUNNING"
      /\ Created' = Created \cup {c} /\ Alive' = Alive \cup {c}
      /\ \A u \in Created : u < c /\ u # c
      /\ status' \in [Thread -> Statuses] /\ status'[c] = "READY" /\ status[c] = "FINISHED"
      /\ \A u \in Thread : u # c => status'[u] = status[u]
      /\ \A u \in Thread : parentThread'[u] = IF u = c THEN t ELSE parentThread[u]
      /\ \A u \in Thread : ppid'[u] = IF u = c THEN t ELSE ppid[u]
  BY ForkFacts
<1>2. /\ c = currentPid /\ currentPid' = currentPid + 1 /\ machine' = machine
      /\ numThreads' = numThreads + 1 /\ currentThread' = currentThread
      /\ readyList' = Append(readyList, c) /\ sleepingThreads' = sleepingThreads
      /\ threadToBeDestroyed' = threadToBeDestroyed /\ deleted' = deleted
      /\ waitPid' = waitPid /\ joining' = joining /\ exited' = exited /\ exitCode' = exitCode
      /\ c <= MaxThreads
  BY DEF Forks
<1>3. /\ Families' /\ Unborn'
      /\ first' \in [Thread -> Thread \cup {Null}] /\ last' \in [Thread -> Thread \cup {Null}]
      /\ next' \in [Thread -> Thread \cup {Null}]
  BY ForkFamilies
<1>4. Alive \subseteq Created /\ Created \subseteq Thread /\ currentPid \in Nat /\ IsFiniteSet(Alive)
  BY Living
<1>5. A1Types'
  <2>1. currentPid' \in 2 .. MaxThreads + 1
    BY <1>2, Pids DEF IInv, A1Types
  <2>2. /\ parentThread' \in [Thread -> Thread \cup {Null}]
        /\ ppid' \in [Thread -> Thread \cup {Null, Garbage}]
    BY DEF Forks, IInv, A1Types
  <2> QED BY <1>1, <1>2, <1>3, <2>1, <2>2 DEF IInv, A1Types
<1>6. Queued'
  <2>1. /\ readyList \in Seq(Thread) /\ Distinct(readyList)
        /\ ToSet(readyList) = {u \in Thread : status[u] = "READY"}
    BY DEF IInv, Queued
  <2>2. c \notin ToSet(readyList)
    BY <1>1, <2>1
  <2>3. /\ readyList' \in Seq(Thread) /\ Distinct(readyList')
        /\ ToSet(readyList') = ToSet(readyList) \cup {c}
    BY <1>1, <1>2, <2>1, <2>2, AppendDistinct
  <2>4. ToSet(readyList') = {u \in Thread : status'[u] = "READY"}
    BY <1>1, <2>1, <2>3
  <2>5. ToSet(sleepingThreads') = {u \in Thread : status'[u] = "BLOCKED" /\ joining'[u] = 0}
    BY <1>1, <1>2 DEF IInv, Queued
  <2>6. \A u \in Thread : status'[u] = "RUNNING" => currentThread' = u
    BY <1>1, <1>2 DEF IInv, Queued
  <2> QED BY <1>2, <2>3, <2>4, <2>5, <2>6 DEF IInv, Queued
<1>7. Counted'
  <2>1. c \notin Alive
    BY <1>1, <1>4
  <2>2. Cardinality(Alive \cup {c}) = Cardinality(Alive) + 1
    BY <1>4, <2>1, FS_AddElement
  <2>3. ASSUME NEW u \in deleted \cup ({threadToBeDestroyed} \ {Null})
        PROVE  u \in Created' /\ status'[u] = "FINISHED"
    <3>1. u \in Created /\ status[u] = "FINISHED"
      BY DEF IInv, Counted
    <3> QED BY <1>1, <1>4, <3>1
  <2> QED BY <1>1, <1>2, <2>2, <2>3 DEF IInv, Counted
<1>8. Kin'
  <2>1. parentThread'[Main] = Null /\ ppid'[Main] = Garbage
    BY <1>1, Pids DEF IInv, Kin
  <2>2. \A u \in Thread \ Created' : parentThread'[u] = Null /\ ppid'[u] = 0
    BY <1>1 DEF IInv, Kin
  <2>3. \A u \in Created' : ppid'[u] < currentPid'
    <3>1. \A u \in Created : ppid[u] < currentPid /\ ppid[u] \in Int
      <4>1. Thread \cup {Null, Garbage} \subseteq Int
        BY Pids DEF Null, Garbage
      <4>2. \A u \in Created : ppid[u] \in Thread \cup {Null, Garbage}
        BY <1>4 DEF IInv, A1Types
      <4> QED BY <4>1, <4>2 DEF IInv, Kin
    <3>2. t < currentPid /\ t \in Nat
      BY <1>1, <1>2, <1>4, Pids
    <3> QED BY <1>1, <1>2, <1>4, <3>1, <3>2
  <2>4. \A u \in Alive' : parentThread'[u] \in Alive' \cup {Null}
                          /\ (u # Main => ppid'[u] = parentThread'[u])
    BY <1>1, <1>4 DEF IInv, Kin
  <2>5. ASSUME NEW u \in Alive'
        PROVE  exited'[u] = {d \in Created' : status'[d] = "FINISHED" /\ ppid'[d] = u}
    <3>1. {d \in Created' : status'[d] = "FINISHED" /\ ppid'[d] = u}
            = {d \in Created : status[d] = "FINISHED" /\ ppid[d] = u}
      BY <1>1, <1>4
    <3>2. CASE u = c
      <4>1. \A d \in Created : ppid[d] # c
        <5>1. \A d \in Created : ppid[d] < c
          BY <1>2 DEF IInv, Kin
        <5>2. ~(c < c)
          BY <1>2, <1>4
        <5> QED BY <5>1, <5>2
      <4>2. exited[c] = {}
        BY <1>1 DEF IInv, Unborn
      <4> QED BY <1>2, <3>1, <3>2, <4>1, <4>2
    <3>3. CASE u \in Alive
      BY <1>2, <3>1, <3>3 DEF IInv, Kin
    <3> QED BY <1>1, <3>2, <3>3
  <2> QED BY <2>1, <2>2, <2>3, <2>4, <2>5 DEF Kin
<1>9. Waiters'
  <2>1. /\ \A u \in Thread \ Created : waitPid[u] = 0 /\ joining[u] = 0
        /\ \A u \in Created : /\ waitPid[u] < currentPid
                              /\ status[u] = "FINISHED" => joining[u] = 0
    BY DEF IInv, Waiters
  <2>2. \A u \in Thread \ Created' : waitPid[u] = 0 /\ joining[u] = 0
    BY <1>1, <2>1
  <2>3. \A u \in Created' : waitPid[u] < currentPid'
                            /\ (status'[u] = "FINISHED" => joining[u] = 0)
    <3>1. \A u \in Created' : waitPid[u] < currentPid'
      <4>1. \A u \in Created' : waitPid[u] \in Nat
        BY <1>1, <1>4 DEF IInv, A1Types
      <4>2. waitPid[c] = 0
        BY <1>1, <2>1
      <4> QED BY <1>1, <1>2, <1>4, <2>1, <4>1, <4>2
    <3> QED BY <1>1, <1>4, <2>1, <3>1
  <2>4. ASSUME NEW u \in Alive', joining[u] # 0
        PROVE  IF status'[u] = "BLOCKED"
               THEN /\ waitPid[u] = joining[u] /\ joining[u] \in Alive'
                    /\ parentThread'[joining[u]] = u
               ELSE joining[u] \in exited[u]
    <3>1. u \in Alive /\ u # c
      BY <1>1, <1>4, <2>1, <2>4
    <3>2. IF status[u] = "BLOCKED"
          THEN waitPid[u] = joining[u] /\ joining[u] \in Alive /\ parentThread[joining[u]] = u
          ELSE joining[u] \in exited[u]
      BY <2>4, <3>1 DEF IInv, Waiters
    <3> QED BY <1>1, <1>4, <3>1, <3>2
  <2>5. ASSUME NEW u \in Alive', NEW d \in Alive', waitPid[u] = d, parentThread'[d] = u
        PROVE  status'[u] = "BLOCKED" /\ joining[u] = d
    <3>1. u # c
      <4>1. waitPid[c] = 0
        BY <1>1, <2>1
      <4>2. d # 0
        BY <1>1, <1>4, Pids DEF Null
      <4> QED BY <2>5, <4>1, <4>2
    <3>2. u \in Alive /\ u \in Created
      BY <1>1, <1>4, <3>1
    <3>3. d # c
      <4>1. waitPid[u] < c
        BY <1>2, <2>1, <3>2
      <4>2. ~(c < c)
        BY <1>2, <1>4
      <4> QED BY <2>5, <4>1, <4>2
    <3>4. d \in Alive /\ parentThread[d] = u
      BY <1>1, <1>4, <2>5, <3>3
    <3>5. status[u] = "BLOCKED" /\ joining[u] = d
      BY <2>5, <3>2, <3>4 DEF IInv, Waiters
    <3> QED BY <1>1, <1>4, <3>1, <3>2, <3>5
  <2> QED BY <1>2, <2>2, <2>3, <2>4, <2>5 DEF Waiters
<1> QED BY <1>3, <1>5, <1>6, <1>7, <1>8, <1>9 DEF IInv

(* Fork.                                                                    *)
LEMMA ForkKeeps ==
  ASSUME IInv, NEW t \in Thread, Fork(t)
  PROVE  IInv'
<1>1. User(t) /\ (Forks(t, currentPid) \/ NoRoom(numPages[t]))
  BY DEF Fork, Forks, exitVars
<1> QED BY <1>1, ForksKeeps, ExecKeeps

-----------------------------------------------------------------------------
(* Join and Exit.                                                           *)

(* Join, of a thread that is made.                                          *)
LEMMA JoinKeeps ==
  ASSUME IInv, ~FutureJoins, NEW t \in Thread, NEW val \in Thread, Join(t, val)
  PROVE  IInv'
<1>1. /\ User(t) /\ val \in Created /\ waitPid' = [waitPid EXCEPT ![t] = val]
      /\ UNCHANGED <<machine, currentThread, readyList, sleepingThreads, threadToBeDestroyed,
                     numThreads, currentPid, deleted, familyVars, exitVars>>
      /\ \/ /\ Listed(t, val) /\ status' = [status EXCEPT ![t] = "BLOCKED"]
            /\ joining' = [joining EXCEPT ![t] = val]
         \/ ~Listed(t, val) /\ UNCHANGED <<status, joining>>
  BY DEF Join, WaitsFor
<1>2. /\ machine = "on" /\ currentThread = t /\ status[t] = "RUNNING" /\ joining[t] = 0
      /\ t \in Alive /\ t \in Created
      /\ \A u \in Thread : status[u] = "RUNNING" => u = t
  BY <1>1, Caller
<1>3. Listed(t, val) <=> val \in Family(t)
  BY <1>2, MyList
<1>4. val # 0 /\ val \in Nat /\ val < currentPid
  BY <1>1, Living, Pids DEF Null
<1>5. /\ status \in [Thread -> Statuses] /\ joining \in [Thread -> Nat]
      /\ waitPid \in [Thread -> Nat]
  BY DEF IInv, A1Types
<1>6. status' \in [Thread -> Statuses] /\ \A u \in Thread : u # t => status'[u] = status[u]
  BY <1>1, <1>5 DEF Statuses
<1>7. status'[t] \in {"RUNNING", "BLOCKED"}
  BY <1>1, <1>2, <1>5
<1>8. joining' \in [Thread -> Nat] /\ \A u \in Thread : u # t => joining'[u] = joining[u]
  BY <1>1, <1>4, <1>5
<1>9. /\ waitPid' \in [Thread -> Nat] /\ waitPid'[t] = val
      /\ \A u \in Thread : u # t => waitPid'[u] = waitPid[u]
  BY <1>1, <1>4, <1>5
<1>10. SameLives
  BY <1>1, <1>2, <1>6, <1>7 DEF SameLives, exitVars
<1>11. Created' = Created /\ Alive' = Alive /\ Counted' /\ Unborn' /\ Kin' /\ Families'
  BY <1>2, <1>10, LivesKept
<1>12. A1Types'
  BY <1>1, <1>6, <1>8, <1>9, <1>11 DEF IInv, A1Types, familyVars, listVars, exitVars
<1>13. status'[t] = "BLOCKED" => joining'[t] # 0
  BY <1>1, <1>2, <1>4, <1>5
<1>14. Queued'
  <2>1. ToSet(readyList') = {u \in Thread : status'[u] = "READY"}
    BY <1>1, <1>2, <1>6, <1>7 DEF IInv, Queued
  <2>2. ToSet(sleepingThreads') = {u \in Thread : status'[u] = "BLOCKED" /\ joining'[u] = 0}
    BY <1>1, <1>2, <1>6, <1>8, <1>13 DEF IInv, Queued
  <2>3. \A u \in Thread : status'[u] = "RUNNING" => currentThread' = u
    BY <1>1, <1>2, <1>6
  <2> QED BY <1>1, <2>1, <2>2, <2>3 DEF IInv, Queued
<1>15. Waiters'
  <2>1. Created \subseteq Thread /\ Alive \subseteq Created
    BY Living
  <2>2. \A u \in Thread \ Created : waitPid'[u] = 0 /\ joining'[u] = 0
    BY <1>2, <1>8, <1>9 DEF IInv, Waiters
  <2>3. \A u \in Created : /\ waitPid'[u] < currentPid
                           /\ status'[u] = "FINISHED" => joining'[u] = 0
    <3>1. \A u \in Created : /\ waitPid[u] < currentPid
                             /\ status[u] = "FINISHED" => joining[u] = 0
      BY DEF IInv, Waiters
    <3> QED BY <1>4, <1>6, <1>7, <1>8, <1>9, <2>1, <3>1
  <2>4. ASSUME NEW u \in Alive, joining'[u] # 0
        PROVE  IF status'[u] = "BLOCKED"
               THEN /\ waitPid'[u] = joining'[u] /\ joining'[u] \in Alive
                    /\ parentThread[joining'[u]] = u
               ELSE joining'[u] \in exited[u]
    <3>1. CASE u = t
      <4>1. val \in Family(t) /\ status'[t] = "BLOCKED" /\ joining'[t] = val
        BY <1>1, <1>2, <1>3, <1>5, <2>4, <3>1
      <4> QED BY <1>9, <3>1, <4>1 DEF Family
    <3>2. CASE u # t
      <4>1. status'[u] = status[u] /\ joining'[u] = joining[u] /\ waitPid'[u] = waitPid[u]
        BY <1>6, <1>8, <1>9, <2>1, <3>2
      <4> QED BY <2>4, <4>1 DEF IInv, Waiters
    <3> QED BY <3>1, <3>2
  <2>5. ASSUME NEW u \in Alive, NEW d \in Alive, waitPid'[u] = d, parentThread[d] = u
        PROVE  status'[u] = "BLOCKED" /\ joining'[u] = d
    <3>1. CASE u = t
      <4>1. val \in Family(t)
        BY <1>9, <2>5, <3>1 DEF Family
      <4> QED BY <1>1, <1>3, <1>5, <1>9, <2>5, <3>1, <4>1
    <3>2. CASE u # t
      <4>1. status'[u] = status[u] /\ joining'[u] = joining[u] /\ waitPid'[u] = waitPid[u]
        BY <1>6, <1>8, <1>9, <2>1, <3>2
      <4> QED BY <2>5, <4>1 DEF IInv, Waiters
    <3> QED BY <3>1, <3>2
  <2>6. currentPid' = currentPid /\ parentThread' = parentThread /\ exited' = exited
    BY <1>1 DEF familyVars, exitVars
  <2> QED BY <1>11, <2>2, <2>3, <2>4, <2>5, <2>6 DEF Waiters
<1> QED BY <1>11, <1>12, <1>14, <1>15 DEF IInv

(* The end of Join.                                                         *)
LEMMA JoinReturnsKeeps ==
  ASSUME IInv, NEW t \in Thread, JoinReturns(t)
  PROVE  IInv'
<1>1. /\ machine = "on" /\ currentThread = t /\ status[t] = "RUNNING" /\ joining[t] # 0
      /\ joining' = [joining EXCEPT ![t] = 0]
      /\ UNCHANGED <<machine, currentThread, readyList, sleepingThreads, threadToBeDestroyed,
                     numThreads, currentPid, deleted, status, familyVars, waitPid, exitVars>>
  BY DEF JoinReturns
<1>2. SameLives
  BY <1>1 DEF SameLives, exitVars, IInv, A1Types
<1>3. Created' = Created /\ Alive' = Alive /\ Counted' /\ Unborn' /\ Kin' /\ Families'
  BY <1>1, <1>2, LivesKept
<1>4. /\ joining' \in [Thread -> Nat] /\ joining'[t] = 0
      /\ \A u \in Thread : u # t => joining'[u] = joining[u]
  BY <1>1 DEF IInv, A1Types
<1>5. A1Types'
  BY <1>1, <1>3, <1>4 DEF IInv, A1Types, familyVars, listVars, exitVars
<1>6. Queued'
  <2>1. ToSet(sleepingThreads') = {u \in Thread : status'[u] = "BLOCKED" /\ joining'[u] = 0}
    BY <1>1, <1>4 DEF IInv, Queued
  <2> QED BY <1>1, <2>1 DEF IInv, Queued
<1>7. Waiters'
  <2>1. Created \subseteq Thread /\ Alive \subseteq Created
    BY Living
  <2>2. /\ currentPid' = currentPid /\ parentThread' = parentThread /\ exited' = exited
        /\ status' = status /\ waitPid' = waitPid
    BY <1>1 DEF familyVars, exitVars
  <2>3. \A u \in Thread : joining'[u] = 0 \/ joining'[u] = joining[u]
    BY <1>4
  <2>4. \A u, c \in Alive : waitPid[u] = c /\ parentThread[c] = u =>
          status[u] = "BLOCKED" /\ joining'[u] = c
    BY <1>1, <1>4, <2>1 DEF IInv, Waiters
  <2>5. \A u \in Alive : joining'[u] # 0 =>
         IF status[u] = "BLOCKED"
         THEN /\ waitPid[u] = joining'[u] /\ joining'[u] \in Alive
              /\ parentThread[joining'[u]] = u
         ELSE joining'[u] \in exited[u]
    BY <2>1, <2>3 DEF IInv, Waiters
  <2>6. /\ \A u \in Thread \ Created : waitPid[u] = 0 /\ joining'[u] = 0
        /\ \A u \in Created : waitPid[u] < currentPid /\ (status[u] = "FINISHED" => joining'[u] = 0)
    BY <2>1, <2>3 DEF IInv, Waiters
  <2> QED BY <1>3, <2>2, <2>4, <2>5, <2>6 DEF Waiters
<1> QED BY <1>3, <1>5, <1>6, <1>7 DEF IInv

(* What Exit does to the threads: t exits, with the parent p, which it      *)
(* wakes if it waits for t.                                                 *)
Wakes(t, p) == p # Null /\ waitPid[p] = t
Exits(t, p) ==
  /\ machine = "on" /\ currentThread = t /\ status[t] = "RUNNING" /\ joining[t] = 0
  /\ t \in Alive /\ p = parentThread[t] /\ p \in Alive \cup {Null}
  /\ Wakes(t, p) => p # t /\ status[p] = "BLOCKED" /\ joining[p] = t
  /\ numThreads' = numThreads - 1 /\ threadToBeDestroyed' = t
  /\ machine' = IF p # Null /\ Tears(p, t) THEN "torn" ELSE "on"
  /\ exitCode' \in [Thread -> ExitCode \cup {0}]
  /\ \A u \in Thread :
       /\ status'[u] = IF u = t THEN "FINISHED"
                       ELSE IF Wakes(t, p) /\ u = p THEN "READY" ELSE status[u]
       /\ waitPid'[u] = IF u = t \/ (Wakes(t, p) /\ u = p) THEN 0 ELSE waitPid[u]
       /\ exited'[u] = IF u = t THEN {} ELSE IF u = p THEN exited[u] \cup {t} ELSE exited[u]
       /\ parentThread'[u] = IF u = t \/ u \in Family(t) THEN Null ELSE parentThread[u]
       /\ ppid'[u] = IF u \in Family(t) THEN 0 ELSE ppid[u]
  /\ status' \in [Thread -> Statuses] /\ waitPid' \in [Thread -> Nat]
  /\ exited' \in [Thread -> SUBSET Thread] /\ parentThread' \in [Thread -> Thread \cup {Null}]
  /\ ppid' \in [Thread -> Thread \cup {Null, Garbage}]
  /\ readyList' = IF Wakes(t, p) THEN Append(readyList, p) ELSE readyList
  /\ IF p = Null THEN UNCHANGED listVars ELSE RemoveElement(p, t)
  /\ UNCHANGED <<currentThread, sleepingThreads, currentPid, deleted, joining>>

(* Exit does that.                                                          *)
LEMMA ExitIs ==
  ASSUME IInv, NEW t \in Thread, Exit(t)
  PROVE  Exits(t, parentThread[t])
<1>1. PICK p : p = parentThread[t]
  OBVIOUS
<1>2. /\ User(t) /\ numThreads' = numThreads - 1 /\ threadToBeDestroyed' = t
      /\ \E code \in ExitCode : exitCode' = [exitCode EXCEPT ![t] = code]
      /\ IF p = Null THEN exited' = [exited EXCEPT ![t] = {}] /\ UNCHANGED listVars
         ELSE exitAppend(p, t) /\ RemoveElement(p, t)
      /\ machine' = IF p # Null /\ Tears(p, t) THEN "torn" ELSE machine
      /\ waitPid' = [c \in Thread |-> IF c = t \/ (Wakes(t, p) /\ c = p) THEN 0 ELSE waitPid[c]]
      /\ readyList' = IF Wakes(t, p) THEN Append(readyList, p) ELSE readyList
      /\ status' = [c \in Thread |-> IF c = t THEN "FINISHED"
                                     ELSE IF Wakes(t, p) /\ c = p THEN "READY" ELSE status[c]]
      /\ alertChildren(t)
      /\ UNCHANGED <<currentThread, sleepingThreads, currentPid, deleted, joining>>
  <2>1. /\ User(t) /\ numThreads' = numThreads - 1 /\ threadToBeDestroyed' = t
        /\ \E code \in ExitCode : exitCode' = [exitCode EXCEPT ![t] = code]
        /\ alertChildren(t)
        /\ UNCHANGED <<currentThread, sleepingThreads, currentPid, deleted, joining>>
    BY DEF Exit
  <2>2. IF p = Null THEN exited' = [exited EXCEPT ![t] = {}] /\ UNCHANGED listVars
        ELSE exitAppend(p, t) /\ RemoveElement(p, t)
    BY <1>1 DEF Exit
  <2>3. machine' = IF p # Null /\ Tears(p, t) THEN "torn" ELSE machine
    BY <1>1 DEF Exit
  <2>4. waitPid' = [c \in Thread |-> IF c = t \/ (Wakes(t, p) /\ c = p) THEN 0 ELSE waitPid[c]]
    BY <1>1 DEF Exit, Wakes
  <2>5. readyList' = IF Wakes(t, p) THEN Append(readyList, p) ELSE readyList
    BY <1>1 DEF Exit, Wakes
  <2>6. status' = [c \in Thread |-> IF c = t THEN "FINISHED"
                                   ELSE IF Wakes(t, p) /\ c = p THEN "READY" ELSE status[c]]
    BY <1>1 DEF Exit, Wakes
  <2> QED BY <2>1, <2>2, <2>3, <2>4, <2>5, <2>6
<1>3. /\ machine = "on" /\ currentThread = t /\ status[t] = "RUNNING" /\ joining[t] = 0
      /\ t \in Alive
  BY <1>2, Caller
<1>4. p \in Alive \cup {Null} /\ Alive \subseteq Thread
  BY <1>1, <1>3, Living DEF IInv, Kin
<1>5. Wakes(t, p) => p # t /\ status[p] = "BLOCKED" /\ joining[p] = t
  <2>1. Wakes(t, p) => p \in Alive /\ waitPid[p] = t /\ parentThread[t] = p
    BY <1>1, <1>4 DEF Wakes
  <2>2. Wakes(t, p) => status[p] = "BLOCKED" /\ joining[p] = t
    BY <1>3, <2>1 DEF IInv, Waiters
  <2> QED BY <1>3, <2>2
<1>6. \A c : Listed(t, c) <=> c \in Family(t)
  BY <1>3, MyList
<1>7. /\ parentThread' = [c \in Thread |-> IF c = t \/ c \in Family(t) THEN Null ELSE parentThread[c]]
      /\ ppid' = [c \in Thread |-> IF c \in Family(t) THEN 0 ELSE ppid[c]]
  BY <1>2, <1>6 DEF alertChildren
<1>8. /\ status \in [Thread -> Statuses] /\ waitPid \in [Thread -> Nat]
      /\ exited \in [Thread -> SUBSET Thread] /\ parentThread \in [Thread -> Thread \cup {Null}]
      /\ ppid \in [Thread -> Thread \cup {Null, Garbage}]
      /\ exitCode \in [Thread -> ExitCode \cup {0}]
  BY DEF IInv, A1Types
<1>9. /\ status' \in [Thread -> Statuses] /\ waitPid' \in [Thread -> Nat]
      /\ parentThread' \in [Thread -> Thread \cup {Null}]
      /\ ppid' \in [Thread -> Thread \cup {Null, Garbage}]
      /\ exitCode' \in [Thread -> ExitCode \cup {0}]
  <2>1. status' \in [Thread -> Statuses]
    BY <1>2, <1>8 DEF Statuses
  <2>2. waitPid' \in [Thread -> Nat] /\ exitCode' \in [Thread -> ExitCode \cup {0}]
    BY <1>2, <1>8
  <2>3. /\ parentThread' \in [Thread -> Thread \cup {Null}]
        /\ ppid' \in [Thread -> Thread \cup {Null, Garbage}]
    BY <1>7, <1>8 DEF Null
  <2> QED BY <2>1, <2>2, <2>3
<1>10. /\ exited' \in [Thread -> SUBSET Thread]
       /\ \A u \in Thread : exited'[u] = IF u = t THEN {} ELSE IF u = p THEN exited[u] \cup {t}
                                         ELSE exited[u]
  <2>1. CASE p = Null
    <3>1. p \notin Thread
      BY <2>1, Pids
    <3> QED BY <1>2, <1>8, <2>1, <3>1
  <2>2. CASE p # Null
    <3>1. exited' = [exited EXCEPT ![p] = @ \cup {t}, ![t] = {}] /\ p \in Thread
      BY <1>2, <1>4, <2>2 DEF exitAppend
    <3> QED BY <1>8, <3>1
  <2> QED BY <2>1, <2>2
<1>11. \A u \in Thread :
         /\ status'[u] = IF u = t THEN "FINISHED"
                         ELSE IF Wakes(t, p) /\ u = p THEN "READY" ELSE status[u]
         /\ waitPid'[u] = IF u = t \/ (Wakes(t, p) /\ u = p) THEN 0 ELSE waitPid[u]
         /\ parentThread'[u] = IF u = t \/ u \in Family(t) THEN Null ELSE parentThread[u]
         /\ ppid'[u] = IF u \in Family(t) THEN 0 ELSE ppid[u]
  BY <1>2, <1>7
<1>12. machine' = IF p # Null /\ Tears(p, t) THEN "torn" ELSE "on"
  BY <1>2, <1>3
<1>13. IF p = Null THEN UNCHANGED listVars ELSE RemoveElement(p, t)
  BY <1>2
<1> QED BY <1>1, <1>2, <1>3, <1>4, <1>5, <1>9, <1>10, <1>11, <1>12, <1>13 DEF Exits

(* The lives after it.                                                      *)
LEMMA ExitLives ==
  ASSUME IInv, NEW t \in Thread, NEW p, Exits(t, p)
  PROVE  /\ Created' = Created /\ Alive' = Alive \ {t} /\ t \in Alive /\ t \in Created
         /\ Alive \subseteq Created /\ Created \subseteq Thread
         /\ \A c \in Thread : c \in Family(t) <=> c \in Alive /\ parentThread[c] = t
         /\ \A c \in Thread : status'[c] = "FINISHED" <=> c = t \/ status[c] = "FINISHED"
         /\ \A u \in Alive : u # t => Family(u)' = Family(u) \ {t}
<1>1. Created' = Created
  BY DEF Exits, Created
<1>2. Alive \subseteq Created /\ Created \subseteq Thread /\ t \in Alive
  BY Living DEF Exits
<1>3. \A c \in Thread : status'[c] = "FINISHED" <=> c = t \/ status[c] = "FINISHED"
  BY DEF Exits
<1>4. Alive' = Alive \ {t}
  BY <1>1, <1>2, <1>3 DEF Alive
<1>5. \A c \in Thread : c \in Family(t) <=> c \in Alive /\ parentThread[c] = t
  BY DEF Family
<1>6. ASSUME NEW u \in Alive, u # t PROVE Family(u)' = Family(u) \ {t}
  <2>1. \A c \in Alive : c # t => (parentThread'[c] = u <=> parentThread[c] = u)
    <3>1. u # Null
      BY <1>2, Pids
    <3> QED BY <1>2, <1>5, <1>6, <3>1 DEF Exits
  <2> QED BY <1>4, <2>1 DEF Family
<1> QED BY <1>1, <1>2, <1>3, <1>4, <1>5, <1>6

(* The families after it, if no list is torn.                               *)
LEMMA ExitFamilies ==
  ASSUME IInv, NEW t \in Thread, NEW p, Exits(t, p)
  PROVE  /\ Families' /\ Unborn'
         /\ first' \in [Thread -> Thread \cup {Null}] /\ last' \in [Thread -> Thread \cup {Null}]
         /\ next' \in [Thread -> Thread \cup {Null}]
<1>1. /\ Created' = Created /\ Alive' = Alive \ {t} /\ t \in Alive /\ t \in Created
      /\ Alive \subseteq Created /\ Created \subseteq Thread
      /\ \A u \in Alive : u # t => Family(u)' = Family(u) \ {t}
  BY ExitLives
<1>2. /\ machine = "on" /\ p = parentThread[t] /\ p \in Alive \cup {Null}
      /\ machine' = IF p # Null /\ Tears(p, t) THEN "torn" ELSE "on"
      /\ IF p = Null THEN UNCHANGED listVars ELSE RemoveElement(p, t)
  BY DEF Exits
<1>3. CASE p = Null
  <2>1. first' = first /\ last' = last /\ next' = next
    BY <1>2, <1>3 DEF listVars
  <2>2. ASSUME NEW u \in Alive, u # t
        PROVE  HasList(next', first'[u], last'[u], Family(u)')
    <3>1. t \notin Family(u)
      <4>1. u \in Thread
        BY <1>1, <2>2
      <4>2. parentThread[t] # u
        BY <1>2, <1>3, <4>1, Pids
      <4> QED BY <4>2 DEF Family
    <3>2. HasList(next, first[u], last[u], Family(u))
      BY <1>2, <2>2, MyList
    <3>3. Family(u)' = Family(u)
      BY <1>1, <2>2, <3>1
    <3> QED BY <2>1, <3>2, <3>3
  <2>3. Families'
    BY <1>1, <2>2 DEF Families
  <2>4. Unborn'
    BY <1>1, <1>2, <1>3, <2>1, Pids DEF IInv, Unborn, Exits
  <2> QED BY <2>1, <2>3, <2>4 DEF IInv, A1Types
<1>4. CASE p # Null
  <2>1. p \in Alive /\ p \in Thread /\ t \in Family(p)
    BY <1>1, <1>2, <1>4 DEF Family
  <2>2. HasList(next, first[p], last[p], Family(p)) /\ Listed(p, t)
    BY <1>2, <2>1, MyList
  <2>3. /\ first' \in [Thread -> Thread \cup {Null}] /\ last' \in [Thread -> Thread \cup {Null}]
        /\ next' \in [Thread -> Thread \cup {Null}]
        /\ \A u \in Thread : u # p => first'[u] = first[u] /\ last'[u] = last[u]
        /\ \A d \in Thread : d \notin Family(p) => next'[d] = next[d]
        /\ t \in {first[p], last[p]} => HasList(next', first'[p], last'[p], Family(p) \ {t})
    <3>1. A1Types /\ RemoveElement(p, t)
      BY <1>2, <1>4 DEF IInv
    <3> QED BY <2>1, <2>2, <3>1, RemoveElementRemoves
  <2>4. ASSUME machine' # "torn", NEW u \in Alive, u # t
        PROVE  HasList(next', first'[u], last'[u], Family(u)')
    <3>1. t \in {first[p], last[p]}
      BY <1>2, <1>4, <2>2, <2>4 DEF Tears
    <3>2. Family(u)' = Family(u) \ {t}
      BY <1>1, <2>4
    <3>3. CASE u = p
      BY <2>3, <3>1, <3>2, <3>3
    <3>4. CASE u # p
      <4>1. t \notin Family(u) /\ HasList(next, first[u], last[u], Family(u))
        BY <1>2, <2>4, <3>4, MyList DEF Family
      <4>2. \A d \in Family(u) : d \in Thread /\ d \notin Family(p)
        BY <1>1, <3>4 DEF Family
      <4>3. \A d \in Family(u) : next'[d] = next[d]
        BY <2>3, <4>2
      <4>4. HasList(next', first[u], last[u], Family(u))
        BY <4>1, <4>3, ListKept
      <4>5. first'[u] = first[u] /\ last'[u] = last[u] /\ Family(u)' = Family(u)
        BY <1>1, <2>3, <2>4, <3>2, <3>4, <4>1
      <4> QED BY <4>4, <4>5
    <3> QED BY <3>3, <3>4
  <2>5. Families'
    BY <1>1, <2>4 DEF Families
  <2>6. Unborn'
    <3> SUFFICES ASSUME NEW u \in Thread \ Created
                 PROVE  /\ status'[u] = "FINISHED" /\ first'[u] = Null /\ last'[u] = Null
                        /\ exited'[u] = {}
      BY <1>1 DEF Unborn
    <3>1. u # p /\ u # t
      BY <1>1, <2>1
    <3>2. /\ status[u] = "FINISHED" /\ first[u] = Null /\ last[u] = Null /\ exited[u] = {}
      BY DEF IInv, Unborn
    <3>3. status'[u] = status[u] /\ exited'[u] = exited[u]
      BY <3>1 DEF Exits
    <3> QED BY <2>3, <3>1, <3>2, <3>3
  <2> QED BY <2>3, <2>5, <2>6
<1> QED BY <1>3, <1>4

(* The queues and the types after it.                                       *)
LEMMA ExitQueues ==
  ASSUME IInv, NEW t \in Thread, NEW p, Exits(t, p)
  PROVE  A1Types' /\ Queued'
<1>1. /\ Created' = Created /\ t \in Thread /\ currentThread = t /\ status[t] = "RUNNING"
      /\ joining[t] = 0 /\ currentThread \in Created /\ Alive \subseteq Thread
  <2>1. currentThread \in Created /\ Alive \subseteq Thread
    BY Living DEF IInv, A1Types
  <2> QED BY <2>1, ExitLives DEF Exits
<1>2. A1Types'
  <2>1. /\ first' \in [Thread -> Thread \cup {Null}] /\ last' \in [Thread -> Thread \cup {Null}]
        /\ next' \in [Thread -> Thread \cup {Null}]
    BY ExitFamilies
  <2>2. machine' \in {"on", "torn"}
    BY DEF Exits
  <2>3. /\ status' \in [Thread -> Statuses] /\ waitPid' \in [Thread -> Nat]
        /\ exited' \in [Thread -> SUBSET Thread] /\ parentThread' \in [Thread -> Thread \cup {Null}]
        /\ ppid' \in [Thread -> Thread \cup {Null, Garbage}]
        /\ exitCode' \in [Thread -> ExitCode \cup {0}] /\ threadToBeDestroyed' = t
        /\ UNCHANGED <<currentThread, currentPid, deleted, joining>>
    BY DEF Exits
  <2> QED BY <1>1, <2>1, <2>2, <2>3 DEF IInv, A1Types
<1>3. /\ readyList \in Seq(Thread) /\ Distinct(readyList)
      /\ sleepingThreads \in Seq(Thread) /\ Distinct(sleepingThreads)
      /\ ToSet(readyList) = {u \in Thread : status[u] = "READY"}
      /\ ToSet(sleepingThreads) = {u \in Thread : status[u] = "BLOCKED" /\ joining[u] = 0}
      /\ \A u \in Thread : status[u] = "RUNNING" => currentThread = u
  BY DEF IInv, Queued
<1>4. /\ Wakes(t, p) => p \in Thread /\ p # t /\ status[p] = "BLOCKED" /\ joining[p] = t
      /\ readyList' = IF Wakes(t, p) THEN Append(readyList, p) ELSE readyList
      /\ sleepingThreads' = sleepingThreads /\ joining' = joining /\ currentThread' = t
      /\ \A u \in Thread : status'[u] = IF u = t THEN "FINISHED"
                                        ELSE IF Wakes(t, p) /\ u = p THEN "READY" ELSE status[u]
  BY <1>1 DEF Exits, Wakes
<1>5. \A u \in Thread : status'[u] = "RUNNING" => currentThread' = u
  BY <1>1, <1>3, <1>4
<1>6. ToSet(sleepingThreads') = {u \in Thread : status'[u] = "BLOCKED" /\ joining'[u] = 0}
  <2>1. t # 0
    BY Pids DEF Null
  <2>2. \A u \in Thread : status'[u] = "BLOCKED" /\ joining[u] = 0
                            <=> status[u] = "BLOCKED" /\ joining[u] = 0
    BY <1>1, <1>4, <2>1
  <2> QED BY <1>3, <1>4, <2>2
<1>7. /\ readyList' \in Seq(Thread) /\ Distinct(readyList')
      /\ ToSet(readyList') = {u \in Thread : status'[u] = "READY"}
  <2>1. CASE Wakes(t, p)
    <3>1. p \in Thread /\ p \notin ToSet(readyList)
      BY <1>3, <1>4, <2>1
    <3>2. /\ readyList' \in Seq(Thread) /\ Distinct(readyList')
          /\ ToSet(readyList') = ToSet(readyList) \cup {p}
      BY <1>3, <1>4, <2>1, <3>1, AppendDistinct
    <3>3. \A u \in Thread : status'[u] = "READY" <=> status[u] = "READY" \/ u = p
      BY <1>1, <1>4, <2>1
    <3> QED BY <1>3, <3>1, <3>2, <3>3
  <2>2. CASE ~Wakes(t, p)
    <3>1. \A u \in Thread : status'[u] = "READY" <=> status[u] = "READY"
      BY <1>1, <1>4, <2>2
    <3> QED BY <1>3, <1>4, <2>2, <3>1
  <2> QED BY <2>1, <2>2
<1>8. Queued'
  BY <1>3, <1>4, <1>5, <1>6, <1>7 DEF Queued
<1> QED BY <1>2, <1>8

(* The count, and the kin, after it.                                        *)
LEMMA ExitKin ==
  ASSUME IInv, NEW t \in Thread, NEW p, Exits(t, p)
  PROVE  Counted' /\ Kin'
<1>1. /\ Created' = Created /\ Alive' = Alive \ {t} /\ t \in Alive /\ t \in Created
      /\ Alive \subseteq Created /\ Created \subseteq Thread
      /\ \A c \in Thread : c \in Family(t) <=> c \in Alive /\ parentThread[c] = t
      /\ \A c \in Thread : status'[c] = "FINISHED" <=> c = t \/ status[c] = "FINISHED"
  BY ExitLives
<1>2. /\ numThreads' = numThreads - 1 /\ threadToBeDestroyed' = t /\ deleted' = deleted
      /\ currentPid' = currentPid /\ p = parentThread[t]
      /\ \A u \in Thread :
           /\ exited'[u] = IF u = t THEN {} ELSE IF u = p THEN exited[u] \cup {t} ELSE exited[u]
           /\ parentThread'[u] = IF u = t \/ u \in Family(t) THEN Null ELSE parentThread[u]
           /\ ppid'[u] = IF u \in Family(t) THEN 0 ELSE ppid[u]
  BY DEF Exits
<1>3. Counted'
  <2>1. Cardinality(Alive') = Cardinality(Alive) - 1
    BY <1>1, Living, FS_RemoveElement
  <2>2. deleted \subseteq Thread /\ \A u \in deleted : u \in Created /\ status[u] = "FINISHED"
    BY DEF IInv, A1Types, Counted
  <2>3. \A u \in deleted' \cup ({threadToBeDestroyed'} \ {Null}) :
          u \in Created' /\ status'[u] = "FINISHED"
    BY <1>1, <1>2, <2>2
  <2> QED BY <1>2, <2>1, <2>3 DEF IInv, Counted
<1>4. /\ parentThread[Main] = Null /\ ppid[Main] = Garbage
      /\ \A u \in Thread \ Created : parentThread[u] = Null /\ ppid[u] = 0
      /\ \A u \in Created : ppid[u] < currentPid
      /\ \A u \in Alive : /\ parentThread[u] \in Alive \cup {Null}
                          /\ u # Main => ppid[u] = parentThread[u]
                          /\ exited[u] = {c \in Created : status[c] = "FINISHED" /\ ppid[c] = u}
  BY DEF IInv, Kin
<1>5. Main \in Thread /\ Main \notin Family(t) /\ t # Null
  BY <1>1, <1>4, Pids
<1>6. parentThread'[Main] = Null /\ ppid'[Main] = Garbage
  BY <1>2, <1>4, <1>5
<1>7. \A u \in Thread \ Created' : parentThread'[u] = Null /\ ppid'[u] = 0
  BY <1>1, <1>2, <1>4
<1>8. \A u \in Created' : ppid'[u] < currentPid'
  <2>1. 0 < currentPid
    BY <1>1, Living, Pids DEF IInv, A1Types
  <2> QED BY <1>1, <1>2, <1>4, <2>1
<1>9. \A u \in Alive' : /\ parentThread'[u] \in Alive' \cup {Null}
                        /\ u # Main => ppid'[u] = parentThread'[u]
  BY <1>1, <1>2, <1>4 DEF Null
<1>10. ASSUME NEW u \in Alive'
       PROVE  exited'[u] = {c \in Created' : status'[c] = "FINISHED" /\ ppid'[c] = u}
  <2>1. u \in Alive /\ u # t /\ u \in Thread /\ u # 0
    BY <1>1, <1>10, Pids DEF Null
  <2>2. \A c \in Family(t) : c \in Alive /\ ppid'[c] = 0 /\ ppid[c] # u
    <3>1. \A c \in Family(t) : c \in Alive /\ c # Main /\ parentThread[c] = t
      BY <1>5 DEF Family
    <3> QED BY <1>1, <1>2, <1>4, <2>1, <3>1
  <2>3. \A c \in Created : ppid'[c] = u <=> ppid[c] = u
    BY <1>1, <1>2, <2>1, <2>2
  <2>4. ppid[t] = u <=> u = p
    <3>1. CASE t = Main
      <4>1. Garbage # u /\ p = Null
        BY <1>2, <1>4, <2>1, <3>1, Pids
      <4> QED BY <1>4, <2>1, <3>1, <4>1, Pids
    <3>2. CASE t # Main
      BY <1>1, <1>2, <1>4, <3>2
    <3> QED BY <3>1, <3>2
  <2>5. exited'[u] = IF u = p THEN exited[u] \cup {t} ELSE exited[u]
    BY <1>2, <2>1
  <2>6. exited[u] = {c \in Created : status[c] = "FINISHED" /\ ppid[c] = u}
    BY <1>4, <2>1
  <2>7. \A c \in Created : status'[c] = "FINISHED" <=> c = t \/ status[c] = "FINISHED"
    BY <1>1
  <2> QED BY <1>1, <2>3, <2>4, <2>5, <2>6, <2>7
<1>11. Kin'
  BY <1>6, <1>7, <1>8, <1>9, <1>10 DEF Kin
<1> QED BY <1>3, <1>11

(* The threads in Join after it.                                            *)
LEMMA ExitWaiters ==
  ASSUME IInv, NEW t \in Thread, NEW p, Exits(t, p)
  PROVE  Waiters'
<1>1. /\ Created' = Created /\ Alive' = Alive \ {t} /\ t \in Alive /\ t \in Created
      /\ Alive \subseteq Created /\ Created \subseteq Thread
      /\ \A c \in Thread : c \in Family(t) <=> c \in Alive /\ parentThread[c] = t
      /\ \A c \in Thread : status'[c] = "FINISHED" <=> c = t \/ status[c] = "FINISHED"
  BY ExitLives
<1>2. /\ joining[t] = 0 /\ p = parentThread[t] /\ currentPid' = currentPid /\ joining' = joining
      /\ Wakes(t, p) => p # t /\ status[p] = "BLOCKED" /\ joining[p] = t
      /\ \A u \in Thread :
           /\ status'[u] = IF u = t THEN "FINISHED"
                           ELSE IF Wakes(t, p) /\ u = p THEN "READY" ELSE status[u]
           /\ waitPid'[u] = IF u = t \/ (Wakes(t, p) /\ u = p) THEN 0 ELSE waitPid[u]
           /\ exited'[u] = IF u = t THEN {} ELSE IF u = p THEN exited[u] \cup {t} ELSE exited[u]
           /\ parentThread'[u] = IF u = t \/ u \in Family(t) THEN Null ELSE parentThread[u]
  BY DEF Exits
<1>3. /\ \A u \in Thread \ Created : waitPid[u] = 0 /\ joining[u] = 0
      /\ \A u \in Created : waitPid[u] < currentPid /\ (status[u] = "FINISHED" => joining[u] = 0)
      /\ \A u \in Alive : joining[u] # 0 =>
           IF status[u] = "BLOCKED"
           THEN waitPid[u] = joining[u] /\ joining[u] \in Alive /\ parentThread[joining[u]] = u
           ELSE joining[u] \in exited[u]
      /\ \A u, c \in Alive :
           waitPid[u] = c /\ parentThread[c] = u => status[u] = "BLOCKED" /\ joining[u] = c
  BY DEF IInv, Waiters
<1>4. \A u \in Thread : u # Null /\ u # 0
  BY Pids DEF Null
<1>5. \A u \in Thread \ Created' : waitPid'[u] = 0 /\ joining'[u] = 0
  BY <1>1, <1>2, <1>3
<1>6. \A u \in Created' : waitPid'[u] < currentPid' /\ (status'[u] = "FINISHED" => joining'[u] = 0)
  <2>1. 0 < currentPid
    BY Pids DEF IInv, A1Types
  <2> QED BY <1>1, <1>2, <1>3, <2>1
<1>7. ASSUME NEW u \in Alive', joining'[u] # 0
      PROVE  IF status'[u] = "BLOCKED"
             THEN /\ waitPid'[u] = joining'[u] /\ joining'[u] \in Alive'
                  /\ parentThread'[joining'[u]] = u
             ELSE joining'[u] \in exited'[u]
  <2>1. u \in Alive /\ u # t /\ u \in Thread /\ joining[u] # 0 /\ joining'[u] = joining[u]
    BY <1>1, <1>2, <1>7
  <2>2. CASE Wakes(t, p) /\ u = p
    BY <1>2, <2>1, <2>2
  <2>3. CASE ~(Wakes(t, p) /\ u = p) /\ status[u] = "BLOCKED"
    <3>1. PICK v : v = joining[u]
      OBVIOUS
    <3>2. waitPid[u] = v /\ v \in Alive /\ parentThread[v] = u /\ v \in Thread
      BY <1>1, <1>3, <2>1, <2>3, <3>1
    <3>3. v # t
      <4>1. v = t => u = p /\ Wakes(t, p)
        BY <1>2, <1>4, <2>1, <3>2 DEF Wakes
      <4> QED BY <2>3, <4>1
    <3>4. v \notin Family(t)
      BY <1>1, <2>1, <3>2
    <3>5. waitPid'[u] = v /\ parentThread'[v] = u /\ status'[u] = "BLOCKED"
      BY <1>2, <2>1, <2>3, <3>2, <3>3, <3>4
    <3> QED BY <1>1, <2>1, <3>1, <3>2, <3>3, <3>5
  <2>4. CASE ~(Wakes(t, p) /\ u = p) /\ status[u] # "BLOCKED"
    <3>1. joining[u] \in exited[u]
      BY <1>3, <2>1, <2>4
    <3>2. status'[u] # "BLOCKED" /\ exited[u] \subseteq exited'[u]
      BY <1>2, <2>1, <2>4
    <3> QED BY <2>1, <3>1, <3>2
  <2> QED BY <2>2, <2>3, <2>4
<1>8. ASSUME NEW u \in Alive', NEW c \in Alive', waitPid'[u] = c, parentThread'[c] = u
      PROVE  status'[u] = "BLOCKED" /\ joining'[u] = c
  <2>1. u \in Alive /\ u # t /\ u \in Thread /\ c \in Alive /\ c # t /\ c \in Thread
    BY <1>1, <1>8
  <2>2. ~(Wakes(t, p) /\ u = p) /\ waitPid[u] = c
    BY <1>2, <1>4, <1>8, <2>1
  <2>3. parentThread[c] = u
    BY <1>2, <1>4, <1>8, <2>1
  <2>4. status[u] = "BLOCKED" /\ joining[u] = c
    BY <1>3, <2>1, <2>2, <2>3
  <2> QED BY <1>2, <2>1, <2>2, <2>4
<1> QED BY <1>5, <1>6, <1>7, <1>8 DEF Waiters

(* Exit.                                                                    *)
LEMMA ExitKeeps ==
  ASSUME IInv, NEW t \in Thread, Exit(t)
  PROVE  IInv'
<1>1. PICK p : p = parentThread[t]
  OBVIOUS
<1>2. Exits(t, p)
  BY <1>1, ExitIs
<1>3. A1Types' /\ Queued' /\ Counted' /\ Unborn' /\ Kin' /\ Families' /\ Waiters'
  BY <1>2, ExitQueues, ExitKin, ExitFamilies, ExitWaiters
<1> QED BY <1>3 DEF IInv

-----------------------------------------------------------------------------
(* The theorems.  What a program may join is a pid that some thread has or  *)
(* had: with FutureJoins a thread may wait for the pid of a child to come,  *)
(* and Exit then wakes it although it sleeps or is ready.                   *)

(* The first state.                                                         *)
LEMMA InitHolds ==
  ASSUME A1Init
  PROVE  IInv
<1>1. /\ MaxThreads \in Nat /\ MaxThreads >= 1 /\ Main \in Thread /\ Main = 1
      /\ currentPid = 2 /\ currentThread = Main
  BY Pids, A1Assumption DEF A1Init, Main
<1>2. Created = {Main}
  BY <1>1 DEF Created
<1>3. \A t \in Thread : status[t] = IF t = Main THEN "RUNNING" ELSE "FINISHED"
  BY DEF A1Init
<1>4. Alive = {Main}
  BY <1>1, <1>2, <1>3 DEF Alive
<1>5. /\ \A t \in Thread : /\ parentThread[t] = Null /\ waitPid[t] = 0 /\ joining[t] = 0
                           /\ first[t] = Null /\ last[t] = Null /\ exited[t] = {}
                           /\ ppid[t] = IF t = Main THEN Garbage ELSE 0
      /\ numThreads = 1 /\ threadToBeDestroyed = Null /\ deleted = {}
      /\ readyList = <<>> /\ sleepingThreads = <<>>
  BY DEF A1Init
<1>6. A1Types
  <2>1. /\ machine = "on" /\ currentPid \in 2 .. MaxThreads + 1 /\ currentThread \in Created
        /\ threadToBeDestroyed \in Thread \cup {Null} /\ deleted \in SUBSET Thread
    BY <1>1, <1>2, <1>5 DEF A1Init
  <2>2. /\ status \in [Thread -> Statuses] /\ waitPid \in [Thread -> Nat]
        /\ joining \in [Thread -> Nat]
    BY DEF A1Init, Statuses
  <2>3. /\ parentThread \in [Thread -> Thread \cup {Null}]
        /\ ppid \in [Thread -> Thread \cup {Null, Garbage}]
    BY DEF A1Init, Null
  <2>4. /\ first \in [Thread -> Thread \cup {Null}] /\ last \in [Thread -> Thread \cup {Null}]
        /\ next \in [Thread -> Thread \cup {Null}]
    BY DEF A1Init
  <2>5. exited \in [Thread -> SUBSET Thread] /\ exitCode \in [Thread -> ExitCode \cup {0}]
    BY DEF A1Init
  <2> QED BY <2>1, <2>2, <2>3, <2>4, <2>5 DEF A1Types
<1>7. Queued
  <2>1. <<>> \in Seq(Thread) /\ DOMAIN <<>> = {}
    OBVIOUS
  <2>2. Distinct(<<>>) /\ ToSet(<<>>) = {}
    BY <2>1 DEF Distinct, ToSet
  <2> QED BY <1>1, <1>3, <1>5, <2>1, <2>2 DEF Queued
<1>8. Counted
  BY <1>4, <1>5, FS_Singleton DEF Counted
<1>9. Unborn
  BY <1>2, <1>3, <1>5 DEF Unborn
<1>10. Kin
  <2>1. Garbage < 2 /\ Garbage # Main
    BY DEF Garbage, Main
  <2> QED BY <1>1, <1>2, <1>3, <1>4, <1>5, <2>1 DEF Kin
<1>11. Families
  <2>1. Family(Main) = {}
    BY <1>1, <1>4, <1>5, Pids DEF Family
  <2>2. first[Main] = Null /\ last[Main] = Null
    BY <1>1, <1>5
  <2>3. HasList(next, Null, Null, {})
    BY EmptyList
  <2>4. HasList(next, first[Main], last[Main], Family(Main))
    BY <2>1, <2>2, <2>3
  <2> QED BY <1>4, <2>4 DEF Families
<1>12. Waiters
  BY <1>1, <1>2, <1>3, <1>4, <1>5, Pids DEF Waiters
<1> QED BY <1>6, <1>7, <1>8, <1>9, <1>10, <1>11, <1>12 DEF IInv

(* Every step.                                                              *)
LEMMA NextKeeps ==
  ASSUME ~FutureJoins, IInv, [A1Next]_a1Vars
  PROVE  IInv'
<1>1. CASE UNCHANGED a1Vars
  <2>1. /\ UNCHANGED <<machine, currentThread, readyList, sleepingThreads, threadToBeDestroyed,
                       numThreads, currentPid, deleted, status, parentThread, ppid>>
        /\ UNCHANGED <<waitPid, joining, first, last, next, exited, exitCode>>
    BY <1>1 DEF a1Vars
  <2>2. Created' = Created /\ Alive' = Alive
    BY <2>1 DEF Created, Alive
  <2>3. \A t : Family(t)' = Family(t)
    BY <2>1, <2>2 DEF Family
  <2>4. A1Types'
    BY <2>1, <2>2 DEF IInv, A1Types
  <2>5. Queued' /\ Counted' /\ Unborn'
    BY <2>1, <2>2 DEF IInv, Queued, Counted, Unborn
  <2>6. Kin'
    BY <2>1, <2>2 DEF IInv, Kin
  <2>7. Families'
    <3>1. \A t \in Alive : machine # "torn" => HasList(next, first[t], last[t], Family(t))
      BY DEF IInv, Families
    <3>2. \A t \in Alive : machine' # "torn" => HasList(next', first'[t], last'[t], Family(t)')
      BY <2>1, <2>3, <3>1
    <3> QED BY <2>2, <3>2 DEF Families
  <2>8. Waiters'
    BY <2>1, <2>2 DEF IInv, Waiters
  <2> QED BY <2>4, <2>5, <2>6, <2>7, <2>8 DEF IInv
<1>2. CASE A1Next
  <2>1. ASSUME NEW t \in Thread, JoinReturns(t) PROVE IInv'
    BY <2>1, JoinReturnsKeeps
  <2>2. ASSUME NEW t \in Thread, NEW val \in Thread, Join(t, val) PROVE IInv'
    BY <2>2, JoinKeeps
  <2>3. ASSUME NEW t \in Thread, Yield(t) PROVE IInv'
    BY <2>3, YieldKeeps
  <2>4. ASSUME NEW t \in Thread, Sleep(t) PROVE IInv'
    BY <2>4, SleepKeeps
  <2>5. ASSUME NEW t \in Thread, Exec(t) \/ ExitHalts(t) PROVE IInv'
    BY <2>5, ExecKeeps
  <2>6. ASSUME NEW t \in Thread, Fork(t) PROVE IInv'
    BY <2>6, ForkKeeps
  <2>7. ASSUME NEW t \in Thread, Exit(t) PROVE IInv'
    BY <2>7, ExitKeeps
  <2>8. ASSUME TimerInterrupt PROVE IInv'
    BY <2>8, TimerKeeps
  <2>9. ASSUME Dispatch PROVE IInv'
    BY <2>9, DispatchKeeps
  <2> QED BY <1>2, <2>1, <2>2, <2>3, <2>4, <2>5, <2>6, <2>7, <2>8, <2>9 DEF A1Next
<1> QED BY <1>1, <1>2

(* The inductive invariant.  When programs join no pid that is yet to come, *)
(* the ready list and the list of sleepers hold each thread at most once    *)
(* and just those of their status, a blocked parent is told by a living     *)
(* child, and the lists of children are the families.                       *)
THEOREM A1Invariant ==
  ~FutureJoins => (A1Spec => []IInv)
<1> SUFFICES ASSUME ~FutureJoins PROVE A1Spec => []IInv
  OBVIOUS
<1>1. A1Init => IInv
  BY InitHolds
<1>2. IInv /\ [A1Next]_a1Vars => IInv'
  BY NextKeeps
<1> QED BY <1>1, <1>2, PTL DEF A1Spec

(* How often a thread is on a list that has nobody twice.                   *)
LEMMA PlacesOf ==
  ASSUME NEW q \in Seq(Thread), Distinct(q), NEW t
  PROVE  Places(t, q) = IF t \in ToSet(q) THEN 1 ELSE 0
<1>1. CASE t \in ToSet(q)
  <2>1. PICK i \in DOMAIN q : q[i] = t
    BY <1>1 DEF ToSet
  <2>2. {k \in DOMAIN q : q[k] = t} = {i}
    BY <2>1 DEF Distinct
  <2> QED BY <1>1, <2>2, FS_Singleton DEF Places
<1>2. CASE t \notin ToSet(q)
  <2>1. {k \in DOMAIN q : q[k] = t} = {}
    BY <1>2 DEF ToSet
  <2> QED BY <1>2, <2>1, FS_EmptySet DEF Places
<1> QED BY <1>1, <1>2

(* No thread is lost and none is in two places, for any number of threads   *)
(* and pages: a living thread runs, or is once on the ready list or once    *)
(* among the sleepers, or a living child will wake it; and numThreads,      *)
(* by which Exit decides to halt, counts the living.                        *)
THEOREM A1PlacementHolds ==
  ~FutureJoins => (A1Spec => []A1Placement)
<1> SUFFICES ASSUME ~FutureJoins PROVE A1Spec => []A1Placement
  OBVIOUS
<1>1. ASSUME IInv PROVE A1Placement
  <2>1. /\ readyList \in Seq(Thread) /\ Distinct(readyList)
        /\ sleepingThreads \in Seq(Thread) /\ Distinct(sleepingThreads)
        /\ ToSet(readyList) = {t \in Thread : status[t] = "READY"}
        /\ ToSet(sleepingThreads) = {t \in Thread : status[t] = "BLOCKED" /\ joining[t] = 0}
        /\ \A t \in Thread : status[t] = "RUNNING" => currentThread = t
    BY <1>1 DEF IInv, Queued
  <2>2. ASSUME NEW t \in Alive PROVE Placed(t)
    <3>1. t \in Thread /\ status[t] \in Statuses /\ status[t] # "FINISHED"
      BY <1>1, Living DEF IInv, A1Types
    <3>2. Places(t, readyList) = IF status[t] = "READY" THEN 1 ELSE 0
      BY <2>1, <3>1, PlacesOf
    <3>3. Places(t, sleepingThreads) = IF status[t] = "BLOCKED" /\ joining[t] = 0 THEN 1 ELSE 0
      BY <2>1, <3>1, PlacesOf
    <3>4. (status[t] = "RUNNING") = (currentThread = t /\ status[t] \notin {"READY", "BLOCKED"})
      BY <2>1, <3>1 DEF Statuses
    <3>5. status[t] = "BLOCKED" /\ joining[t] # 0 =>
            waitPid[t] = joining[t] /\ joining[t] \in Alive /\ parentThread[joining[t]] = t
      BY <1>1 DEF IInv, Waiters
    <3>6. \/ Places(t, sleepingThreads) = 0 /\ (status[t] # "BLOCKED" \/ joining[t] # 0)
          \/ Places(t, sleepingThreads) = 1 /\ status[t] = "BLOCKED" /\ joining[t] = 0
      BY <3>3
    <3> QED BY <3>2, <3>4, <3>5, <3>6 DEF Placed
  <2>3. (ToSet(readyList) \cup ToSet(sleepingThreads)) \cap deleted = {}
    <3>1. \A t \in deleted : status[t] = "FINISHED"
      BY <1>1 DEF IInv, Counted
    <3> QED BY <2>1, <3>1
  <2> QED BY <1>1, <2>2, <2>3 DEF A1Placement, IInv, Counted
<1> QED BY <1>1, A1Invariant, PTL

(* Parents and children know each other, for any number of them, until a    *)
(* child between two others exits: the list of a living thread is its       *)
(* living children in the order of their pids and ends in its last cell,    *)
(* and what a thread calls its parent lives.                                *)
THEOREM FamilyKnownHolds ==
  ~FutureJoins => (A1Spec => []FamilyKnown)
<1> SUFFICES ASSUME ~FutureJoins PROVE A1Spec => []FamilyKnown
  OBVIOUS
<1>1. ASSUME IInv PROVE FamilyKnown
  <2> SUFFICES ASSUME machine # "torn", NEW t \in Alive
               PROVE  /\ ToSet(Walk(t)) = Family(t) /\ Ascending(Walk(t))
                      /\ last[t] = IF Walk(t) = <<>> THEN Null ELSE Last(Walk(t))
                      /\ parentThread[t] \in Alive \cup {Null}
                      /\ t # Main => ppid[t] = parentThread[t]
    BY DEF FamilyKnown
  <2>1. HasList(next, first[t], last[t], Family(t)) /\ t \in Thread /\ A1Types
    BY <1>1, Living DEF IInv, Families
  <2>2. PICK w : w = Walk(t)
    OBVIOUS
  <2>3. w \in Seq(Thread) /\ ListIs(next, first[t], last[t], Family(t), w)
    BY <2>1, <2>2, WalkOfList
  <2>4. ToSet(w) = Family(t) /\ Ascending(w)
    BY <2>3 DEF ListIs
  <2>5. last[t] = IF w = <<>> THEN Null ELSE Last(w)
    BY <2>3, ListEnds DEF Last
  <2>6. parentThread[t] \in Alive \cup {Null} /\ (t # Main => ppid[t] = parentThread[t])
    BY <1>1 DEF IInv, Kin
  <2> QED BY <2>2, <2>4, <2>5, <2>6
<1> QED BY <1>1, A1Invariant, PTL

(* What a Join that comes back answers.                                     *)
LEMMA AnswerKnows ==
  ASSUME IInv, NoChild \notin ExitCode, NEW t \in Alive, NEW val \in Thread,
         val \in exited[t] <=> ppid[val] = t, JoinAnswer(t, val), ppid' = ppid
  PROVE  JoinKnowsChild'
<1>1. exitCode[val] # NoChild
  <2>1. exitCode[val] \in ExitCode \cup {0}
    BY DEF IInv, A1Types
  <2> QED BY <2>1 DEF NoChild
<1>2. PICK r \in (IF val \in exited[t] THEN StatusOf(val) ELSE {NoChild}) :
        returned' = [thread |-> t, pid |-> val, value |-> r]
  BY DEF JoinAnswer
<1>3. r = NoChild <=> val \notin exited[t]
  <2>1. Garbage # NoChild
    BY DEF Garbage, NoChild
  <2>2. \A s \in StatusOf(val) : s # NoChild
    BY <1>1, <2>1 DEF StatusOf
  <2> QED BY <1>2, <2>2
<1>4. returned'.thread = t /\ returned'.pid = val /\ returned'.value = r
  BY <1>2
<1> QED BY <1>3, <1>4 DEF JoinKnowsChild

(* A Join tells that there is no such child only if there never was one,    *)
(* for any number of threads and whenever the child exits.  A child that    *)
(* exits with -1 cannot be told from no child, so no program may do that.   *)
THEOREM JoinKnowsChildHolds ==
  ~FutureJoins /\ NoChild \notin ExitCode => (A1Spec => []JoinKnowsChild)
<1> SUFFICES ASSUME ~FutureJoins, NoChild \notin ExitCode PROVE A1Spec => []JoinKnowsChild
  OBVIOUS
<1>1. A1Init => JoinKnowsChild
  BY DEF A1Init, JoinKnowsChild
<1>2. ASSUME IInv, A1Next PROVE JoinKnowsChild'
  <2>1. ASSUME returned' = Nothing PROVE JoinKnowsChild'
    BY <2>1 DEF JoinKnowsChild
  <2>2. ASSUME NEW t \in Thread, NEW val \in Thread, Join(t, val) PROVE JoinKnowsChild'
    <3>1. /\ User(t) /\ val \in Created /\ ppid' = ppid
          /\ returned' = Nothing \/ (~Listed(t, val) /\ JoinAnswer(t, val))
      BY <2>2 DEF Join, familyVars
    <3>2. t \in Alive /\ machine = "on"
      BY <1>2, <3>1, Caller
    <3>3. CASE ~Listed(t, val) /\ JoinAnswer(t, val)
      <4>1. val \notin Family(t)
        BY <1>2, <3>2, <3>3, MyList
      <4>2. exited[t] = {c \in Created : status[c] = "FINISHED" /\ ppid[c] = t}
        BY <1>2, <3>2 DEF IInv, Kin
      <4>3. ppid[val] = t => status[val] = "FINISHED"
        <5>1. ASSUME ppid[val] = t, val \in Alive PROVE FALSE
          <6>1. val # Main
            BY <1>2, <5>1, Pids DEF IInv, Kin
          <6>2. parentThread[val] = t
            BY <1>2, <5>1, <6>1 DEF IInv, Kin
          <6> QED BY <4>1, <5>1, <6>2 DEF Family
        <5> QED BY <3>1, <5>1 DEF Alive
      <4>4. val \in exited[t] <=> ppid[val] = t
        BY <3>1, <4>2, <4>3
      <4> QED BY <1>2, <3>1, <3>2, <3>3, <4>4, AnswerKnows
    <3> QED BY <2>1, <3>1, <3>3
  <2>3. ASSUME NEW t \in Thread, JoinReturns(t) PROVE JoinKnowsChild'
    <3>1. /\ status[t] = "RUNNING" /\ joining[t] # 0 /\ JoinAnswer(t, joining[t]) /\ ppid' = ppid
      BY <2>3 DEF JoinReturns, familyVars
    <3>2. PICK val : val = joining[t]
      OBVIOUS
    <3>3. t \in Alive
      BY <1>2, <3>1, Living
    <3>4. val \in exited[t]
      BY <1>2, <3>1, <3>2, <3>3 DEF IInv, Waiters
    <3>5. exited[t] = {c \in Created : status[c] = "FINISHED" /\ ppid[c] = t}
      BY <1>2, <3>3 DEF IInv, Kin
    <3>6. val \in Thread /\ (val \in exited[t] <=> ppid[val] = t)
      BY <1>2, <3>4, <3>5, Living
    <3>7. JoinAnswer(t, val)
      BY <3>1, <3>2
    <3> QED BY <1>2, <3>1, <3>3, <3>6, <3>7, AnswerKnows
  <2> QED BY <1>2, <2>1, <2>2, <2>3 DEF A1Next
<1>3. JoinKnowsChild /\ UNCHANGED a1Vars => JoinKnowsChild'
  BY DEF JoinKnowsChild, a1Vars
<1>4. A1Init => IInv
  BY InitHolds
<1>5. IInv /\ [A1Next]_a1Vars => IInv'
  BY NextKeeps
<1> QED BY <1>1, <1>2, <1>3, <1>4, <1>5, PTL DEF A1Spec
=============================================================================
