---------------------------- MODULE NachosLists ----------------------------
(***************************************************************************)
(* Lemmas about the kernel's queues as sequences: what appending, removing *)
(* at a position and concatenating do to the elements of a queue that      *)
(* holds each of them once; about the numbers that the search for a free   *)
(* page frame compares; about the indices of a ring; about the sums of     *)
(* NachosSums; and about recursive functions on numbers, which a least     *)
(* counterexample settles, and sequences of sequences that are joined.     *)
(***************************************************************************)
EXTENDS Integers, Sequences, FiniteSets, SequencesExt, NachosSums, TLAPS,
        FiniteSetTheorems, SequenceTheorems

Distinct(q) == \A i, j \in DOMAIN q : q[i] = q[j] => i = j

(* List::Append of a new element.                                           *)
LEMMA AppendDistinct ==
  ASSUME NEW S, NEW q \in Seq(S), NEW x \in S, Distinct(q), x \notin ToSet(q)
  PROVE  /\ Append(q, x) \in Seq(S)
         /\ ToSet(Append(q, x)) = ToSet(q) \cup {x}
         /\ Distinct(Append(q, x))
<1>1. /\ Append(q, x) \in Seq(S) /\ Len(Append(q, x)) = Len(q) + 1
      /\ \A i \in 1 .. Len(q) : Append(q, x)[i] = q[i]
      /\ Append(q, x)[Len(q) + 1] = x
  OBVIOUS
<1>2. DOMAIN Append(q, x) = 1 .. (Len(q) + 1) /\ DOMAIN q = 1 .. Len(q) /\ Len(q) \in Nat
  BY <1>1
<1>3. 1 .. (Len(q) + 1) = (1 .. Len(q)) \cup {Len(q) + 1}
  BY <1>2
<1>4. ToSet(Append(q, x)) = ToSet(q) \cup {x}
  BY <1>1, <1>2, <1>3 DEF ToSet
<1>5. Distinct(Append(q, x))
  <2> SUFFICES ASSUME NEW i \in 1 .. (Len(q) + 1), NEW j \in 1 .. (Len(q) + 1),
                      Append(q, x)[i] = Append(q, x)[j]
               PROVE  i = j
    BY <1>2 DEF Distinct
  <2>1. \A k \in 1 .. Len(q) : q[k] # x
    BY <1>2 DEF ToSet
  <2> QED
    BY <1>1, <1>2, <1>3, <2>1 DEF Distinct
<1> QED BY <1>1, <1>4, <1>5

(* Concatenation of two queues without a common element.                    *)
LEMMA ConcatDistinct ==
  ASSUME NEW S, NEW q \in Seq(S), NEW w \in Seq(S),
         Distinct(q), Distinct(w), ToSet(q) \cap ToSet(w) = {}
  PROVE  /\ q \o w \in Seq(S)
         /\ ToSet(q \o w) = ToSet(q) \cup ToSet(w)
         /\ Distinct(q \o w)
<1> DEFINE m == Len(q)
           n == Len(w)
<1>1. /\ q \o w \in Seq(S) /\ Len(q \o w) = m + n
      /\ \A i \in 1 .. m + n : (q \o w)[i] = IF i <= m THEN q[i] ELSE w[i - m]
      /\ DOMAIN (q \o w) = 1 .. m + n /\ DOMAIN q = 1 .. m /\ DOMAIN w = 1 .. n
      /\ m \in Nat /\ n \in Nat
  OBVIOUS
<1> HIDE DEF m, n
<1>2. ToSet(q \o w) \subseteq ToSet(q) \cup ToSet(w)
  <2> SUFFICES ASSUME NEW i \in 1 .. m + n
               PROVE  (q \o w)[i] \in ToSet(q) \cup ToSet(w)
    BY <1>1 DEF ToSet
  <2>1. CASE i <= m
    BY <1>1, <2>1 DEF ToSet
  <2>2. CASE i > m
    <3>1. i - m \in 1 .. n
      BY <1>1, <2>2
    <3> QED BY SMTT(30), <1>1, <2>2, <3>1 DEF ToSet
  <2> QED BY <1>1, <2>1, <2>2
<1>3. ToSet(q) \subseteq ToSet(q \o w)
  <2> SUFFICES ASSUME NEW i \in 1 .. m PROVE q[i] \in ToSet(q \o w)
    BY <1>1 DEF ToSet
  <2>1. i \in 1 .. m + n /\ (q \o w)[i] = q[i]
    BY <1>1
  <2> QED BY <1>1, <2>1 DEF ToSet
<1>4. ToSet(w) \subseteq ToSet(q \o w)
  <2> SUFFICES ASSUME NEW i \in 1 .. n PROVE w[i] \in ToSet(q \o w)
    BY <1>1 DEF ToSet
  <2>1. i + m \in 1 .. m + n /\ ~(i + m <= m) /\ (i + m) - m = i
    BY <1>1
  <2>2. (q \o w)[i + m] = w[i]
    BY <1>1, <2>1
  <2> QED BY <1>1, <2>1, <2>2 DEF ToSet
<1>5. Distinct(q \o w)
  <2> SUFFICES ASSUME NEW i \in 1 .. m + n, NEW j \in 1 .. m + n,
                      (q \o w)[i] = (q \o w)[j]
               PROVE  i = j
    BY <1>1 DEF Distinct
  <2>1. \A k \in 1 .. m, l \in 1 .. n : q[k] # w[l]
    BY <1>1 DEF ToSet
  <2>2. CASE i <= m /\ j <= m
    BY <1>1, <2>2 DEF Distinct
  <2>3. CASE i > m /\ j > m
    <3>1. i - m \in 1 .. n /\ j - m \in 1 .. n /\ w[i - m] = w[j - m]
      BY <1>1, <2>3
    <3>2. i - m = j - m
      BY <1>1, <3>1 DEF Distinct
    <3> QED BY <1>1, <3>2
  <2>4. CASE i <= m /\ j > m
    <3>1. i \in 1 .. m /\ j - m \in 1 .. n /\ q[i] = w[j - m]
      BY <1>1, <2>4
    <3> QED BY <2>1, <3>1
  <2>5. CASE i > m /\ j <= m
    <3>1. j \in 1 .. m /\ i - m \in 1 .. n /\ q[j] = w[i - m]
      BY <1>1, <2>5
    <3> QED BY <2>1, <3>1
  <2> QED BY <1>1, <2>2, <2>3, <2>4, <2>5
<1> QED BY <1>1, <1>2, <1>3, <1>4, <1>5

(* Removal at a position, as List::Remove and GetMinPriorityThread do.      *)
LEMMA RemoveAtDistinct ==
  ASSUME NEW S, NEW q \in Seq(S), NEW i \in DOMAIN q, Distinct(q)
  PROVE  /\ RemoveAt(q, i) \in Seq(S)
         /\ ToSet(RemoveAt(q, i)) = ToSet(q) \ {q[i]}
         /\ Distinct(RemoveAt(q, i))
         /\ q[i] \in ToSet(q) /\ q[i] \in S
<1> DEFINE n == Len(q)
           head == SubSeq(q, 1, i - 1)
           tail == SubSeq(q, i + 1, n)
<1>1. DOMAIN q = 1 .. n /\ n \in Nat /\ i \in 1 .. n /\ \A k \in 1 .. n : q[k] \in S
  OBVIOUS
<1>2. /\ head \in Seq(S) /\ Len(head) = i - 1 /\ DOMAIN head = 1 .. i - 1
      /\ \A k \in 1 .. i - 1 : head[k] = q[k]
  BY <1>1
<1>3. /\ tail \in Seq(S) /\ Len(tail) = n - i /\ DOMAIN tail = 1 .. n - i
      /\ \A k \in 1 .. n - i : tail[k] = q[k + i]
  BY SMTT(30), <1>1
<1>4. RemoveAt(q, i) = head \o tail
  BY DEF RemoveAt
<1> HIDE DEF n, head, tail
<1>5. Distinct(head) /\ Distinct(tail)
  <2>1. \A k \in 1 .. i - 1 : k \in 1 .. n
    BY <1>1
  <2>2. \A k \in 1 .. n - i : k + i \in 1 .. n
    BY <1>1
  <2>3. Distinct(head)
    BY <1>1, <1>2, <2>1 DEF Distinct
  <2>4. Distinct(tail)
    <3> SUFFICES ASSUME NEW j \in 1 .. n - i, NEW k \in 1 .. n - i, tail[j] = tail[k]
                 PROVE  j = k
      BY <1>3 DEF Distinct
    <3>1. j + i = k + i
      BY <1>1, <1>3, <2>2 DEF Distinct
    <3> QED BY <1>1, <3>1
  <2> QED BY <2>3, <2>4
<1>6. ToSet(head) = {q[k] : k \in 1 .. i - 1}
  BY <1>2 DEF ToSet
<1>7. ToSet(tail) = {q[k] : k \in i + 1 .. n}
  <2>1. ASSUME NEW k \in 1 .. n - i PROVE tail[k] \in {q[l] : l \in i + 1 .. n}
    <3>1. k + i \in i + 1 .. n
      BY <1>1
    <3> QED BY <1>3, <3>1
  <2>2. ASSUME NEW l \in i + 1 .. n PROVE q[l] \in ToSet(tail)
    <3>1. l - i \in 1 .. n - i /\ (l - i) + i = l
      BY <1>1
    <3>2. tail[l - i] = q[l]
      BY <1>3, <3>1
    <3> QED BY <1>3, <3>1, <3>2 DEF ToSet
  <2> QED BY <1>3, <2>1, <2>2 DEF ToSet
<1>8. ToSet(head) \cap ToSet(tail) = {}
  <2> SUFFICES ASSUME NEW k \in 1 .. i - 1, NEW l \in i + 1 .. n, q[k] = q[l] PROVE FALSE
    BY <1>6, <1>7
  <2> QED BY <1>1 DEF Distinct
<1>9. ToSet(head) \cup ToSet(tail) = ToSet(q) \ {q[i]}
  <2>1. ToSet(q) = {q[k] : k \in 1 .. n}
    BY <1>1 DEF ToSet
  <2>2. \A k \in 1 .. n : k \in 1 .. i - 1 \/ k \in i + 1 .. n <=> k # i
    BY <1>1
  <2>3. \A k \in 1 .. n : q[k] = q[i] => k = i
    BY <1>1 DEF Distinct
  <2>4. \A k \in 1 .. i - 1 : k \in 1 .. n
    BY <1>1
  <2>5. \A k \in i + 1 .. n : k \in 1 .. n
    BY <1>1
  <2> QED BY <1>6, <1>7, <2>1, <2>2, <2>3, <2>4, <2>5
<1>10. q[i] \in ToSet(q) /\ q[i] \in S
  BY <1>1 DEF ToSet
<1> QED BY <1>2, <1>3, <1>4, <1>5, <1>8, <1>9, <1>10, ConcatDistinct

(* The orders in which interrupt handlers may ready the threads of a set.   *)
LEMMA PermutationDistinct ==
  ASSUME NEW S, IsFiniteSet(S), NEW w \in SetToAllKPermutations(S)
  PROVE  w \in Seq(S) /\ Distinct(w) /\ ToSet(w) \subseteq S
<1>1. PICK s \in SUBSET S : w \in SetToSeqs(s)
  BY DEF SetToAllKPermutations
<1>2. IsFiniteSet(s) /\ Cardinality(s) \in Nat
  BY FS_Subset, FS_CardinalityType
<1>3. /\ w \in [1 .. Cardinality(s) -> s]
      /\ \A i, j \in 1 .. Cardinality(s) : i # j => w[i] # w[j]
  BY <1>1 DEF SetToSeqs
<1>4. w \in Seq(S)
  BY <1>2, <1>3
<1> QED BY <1>2, <1>3, <1>4 DEF Distinct, ToSet

-----------------------------------------------------------------------------
(* A set of natural numbers has a least element.                            *)
LEMMA MinExists ==
  ASSUME NEW S \in SUBSET Nat, S # {}
  PROVE  \E m \in S : \A n \in S : m <= n
<1> DEFINE B(m) == {n \in Nat : n <= m}
           F == {B(m) : m \in S}
<1>1. IsWellFoundedOn(StrictSubsetOrdering(Nat), FiniteSubsetsOf(Nat))
  BY FS_StrictSubsetOrderingWellFounded
<1>2. \A m \in Nat : B(m) \in FiniteSubsetsOf(Nat)
  <2> TAKE m \in Nat
  <2>1. B(m) = 0 .. m
    OBVIOUS
  <2>2. IsFiniteSet(0 .. m)
    BY FS_Interval
  <2> QED BY <2>1, <2>2 DEF FiniteSubsetsOf
<1>3. F \subseteq FiniteSubsetsOf(Nat) /\ F # {}
  BY <1>2
<1> HIDE DEF F
<1>4. PICK x \in F : \A y \in F : <<y, x>> \notin StrictSubsetOrdering(Nat)
  BY <1>1, <1>3, WFMin
<1>5. PICK m \in S : x = B(m)
  BY DEF F
<1>6. ASSUME NEW n \in S, ~(m <= n) PROVE FALSE
  <2>1. B(n) \subseteq B(m) /\ m \in B(m) /\ m \notin B(n) /\ B(n) \in F
    BY <1>6 DEF F
  <2>2. <<B(n), B(m)>> \in StrictSubsetOrdering(Nat)
    BY <2>1 DEF StrictSubsetOrdering
  <2> QED BY <1>4, <1>5, <2>1, <2>2
<1> QED BY <1>6

(* In a finite set of numbers, for each i below its size, one element has i *)
(* elements below it.                                                       *)
LEMMA RankExists ==
  ASSUME NEW S \in SUBSET Int, IsFiniteSet(S), NEW i \in 0 .. Cardinality(S) - 1
  PROVE  \E x \in S : Cardinality({y \in S : y < x}) = i
<1> DEFINE Below(x) == {y \in S : y < x}
           n == Cardinality(S)
           R == 0 .. n - 1
           rank == [x \in S |-> Cardinality(Below(x))]
<1>1. n \in Nat
  BY FS_CardinalityType
<1>2. ASSUME NEW x \in S
      PROVE  IsFiniteSet(Below(x)) /\ Cardinality(Below(x)) \in R
  <2>1. Below(x) \in SUBSET S /\ Below(x) # S
    OBVIOUS
  <2>2. IsFiniteSet(Below(x)) /\ Cardinality(Below(x)) <= n /\ Cardinality(Below(x)) # n
    BY <2>1, FS_Subset
  <2>3. Cardinality(Below(x)) \in Nat
    BY <2>2, FS_CardinalityType
  <2> QED BY <1>1, <2>2, <2>3
<1>3. ASSUME NEW x \in S, NEW y \in S, x < y
      PROVE  Cardinality(Below(x)) # Cardinality(Below(y))
  <2>1. Below(x) \in SUBSET Below(y) /\ Below(x) # Below(y)
    <3>1. x \in Below(y) /\ x \notin Below(x)
      BY <1>3
    <3>2. \A z \in Below(x) : z \in Below(y)
      BY <1>3
    <3> QED BY <3>1, <3>2
  <2> QED BY <1>2, <2>1, FS_Subset
<1> HIDE DEF Below, n
<1>4. rank \in [S -> R]
  BY <1>2
<1>5. ASSUME NEW x \in S, NEW y \in S, rank[x] = rank[y] PROVE x = y
  BY <1>3, <1>5
<1>6. rank \in Injection(S, R)
  BY <1>4, <1>5 DEF Injection, IsInjective
<1>7. IsFiniteSet(R) /\ Cardinality(R) = n
  BY <1>1, FS_Interval
<1>8. rank \in Surjection(S, R)
  BY <1>6, <1>7, FS_Injection DEF n
<1> HIDE DEF rank
<1>9. i \in R
  BY DEF n
<1>10. PICK x \in S : rank[x] = i
  BY <1>8, <1>9 DEF Surjection
<1> QED BY <1>10 DEF rank, Below

(* Two sequences, one after the other.                                      *)
LEMMA Joined ==
  ASSUME NEW R, NEW f \in Seq(R), NEW h \in Seq(R)
  PROVE  f \o h = [i \in 1 .. (Len(f) + Len(h)) |->
                     IF i <= Len(f) THEN f[i] ELSE h[i - Len(f)]]
<1>1. f \o h \in Seq(R) /\ Len(f \o h) = Len(f) + Len(h)
  OBVIOUS
<1>2. \A i \in 1 .. (Len(f) + Len(h)) :
        (f \o h)[i] = IF i <= Len(f) THEN f[i] ELSE h[i - Len(f)]
  OBVIOUS
<1>3. f \o h = [i \in 1 .. (Len(f) + Len(h)) |-> (f \o h)[i]]
  <2>1. \A s \in Seq(R) : s = [i \in 1 .. Len(s) |-> s[i]]
    OBVIOUS
  <2> QED BY <1>1, <2>1
<1> QED BY <1>1, <1>2, <1>3

(* Removal of the first n elements, as List::Remove does n times.           *)
LEMMA DropDistinct ==
  ASSUME NEW S, NEW q \in Seq(S), NEW n \in 0 .. Len(q), Distinct(q)
  PROVE  /\ SubSeq(q, n + 1, Len(q)) \in Seq(S)
         /\ ToSet(SubSeq(q, n + 1, Len(q))) = ToSet(q) \ {q[i] : i \in 1 .. n}
         /\ Distinct(SubSeq(q, n + 1, Len(q)))
<1> DEFINE r == SubSeq(q, n + 1, Len(q))
           m == Len(q)
<1>1. /\ r \in Seq(S) /\ Len(r) = m - n /\ \A i \in 1 .. m - n : r[i] = q[n + i]
      /\ DOMAIN r = 1 .. m - n /\ DOMAIN q = 1 .. m /\ m \in Nat /\ n \in Nat /\ n <= m
  OBVIOUS
<1> HIDE DEF r, m
<1>2. \A i \in 1 .. m - n : n + i \in 1 .. m /\ n + i \notin 1 .. n
  BY <1>1
<1>3. \A i \in 1 .. m : i \notin 1 .. n => i - n \in 1 .. m - n /\ n + (i - n) = i
  BY <1>1
<1>4. ToSet(r) \subseteq ToSet(q) \ {q[i] : i \in 1 .. n}
  <2> SUFFICES ASSUME NEW i \in 1 .. m - n PROVE r[i] \in ToSet(q) \ {q[j] : j \in 1 .. n}
    BY <1>1 DEF ToSet
  <2>1. r[i] = q[n + i] /\ n + i \in 1 .. m /\ n + i \notin 1 .. n
    BY <1>1, <1>2
  <2>2. \A j \in 1 .. n : j \in 1 .. m
    BY <1>1
  <2> QED BY SMTT(30), <1>1, <2>1, <2>2 DEF ToSet, Distinct
<1>5. ToSet(q) \ {q[i] : i \in 1 .. n} \subseteq ToSet(r)
  <2> SUFFICES ASSUME NEW i \in 1 .. m, i \notin 1 .. n PROVE q[i] \in ToSet(r)
    BY <1>1 DEF ToSet
  <2> QED BY <1>1, <1>3 DEF ToSet
<1>6. Distinct(r)
  <2> SUFFICES ASSUME NEW i \in 1 .. m - n, NEW j \in 1 .. m - n, r[i] = r[j] PROVE i = j
    BY <1>1 DEF Distinct
  <2>1. n + i = n + j
    BY <1>1, <1>2 DEF Distinct
  <2> QED BY <1>1, <2>1
<1> QED BY <1>1, <1>4, <1>5, <1>6 DEF r, m

(* The first elements of a queue.                                           *)
LEMMA TakeDistinct ==
  ASSUME NEW S, NEW q \in Seq(S), NEW n \in 0 .. Len(q), Distinct(q)
  PROVE  /\ SubSeq(q, 1, n) \in Seq(S)
         /\ ToSet(SubSeq(q, 1, n)) = {q[i] : i \in 1 .. n}
         /\ Distinct(SubSeq(q, 1, n))
<1> DEFINE r == SubSeq(q, 1, n)
<1>1. /\ r \in Seq(S) /\ DOMAIN r = 1 .. n /\ DOMAIN q = 1 .. Len(q)
      /\ \A i \in 1 .. n : r[i] = q[i] /\ i \in 1 .. Len(q)
  OBVIOUS
<1> HIDE DEF r
<1>2. ToSet(r) = {q[i] : i \in 1 .. n}
  BY <1>1 DEF ToSet
<1>3. Distinct(r)
  BY <1>1 DEF Distinct
<1> QED BY <1>1, <1>2, <1>3 DEF r

(* The first element of a queue, and the others.                            *)
LEMMA HeadTailDistinct ==
  ASSUME NEW S, NEW q \in Seq(S), q # <<>>, Distinct(q)
  PROVE  /\ Head(q) \in S /\ Head(q) \in ToSet(q) /\ Tail(q) \in Seq(S)
         /\ ToSet(Tail(q)) = ToSet(q) \ {Head(q)}
         /\ Distinct(Tail(q)) /\ Len(Tail(q)) = Len(q) - 1
<1>1. /\ Len(q) \in Nat /\ 1 \in 0 .. Len(q) /\ 1 \in DOMAIN q
      /\ Head(q) = q[1] /\ q[1] \in S /\ Len(Tail(q)) = Len(q) - 1 /\ Tail(q) \in Seq(S)
  OBVIOUS
<1>2. Tail(q) = SubSeq(q, 1 + 1, Len(q))
  BY <1>1
<1>3. {q[i] : i \in 1 .. 1} = {q[1]} /\ q[1] \in ToSet(q)
  BY <1>1 DEF ToSet
<1>4. /\ ToSet(SubSeq(q, 1 + 1, Len(q))) = ToSet(q) \ {q[i] : i \in 1 .. 1}
      /\ Distinct(SubSeq(q, 1 + 1, Len(q)))
  BY <1>1, DropDistinct
<1>5. ToSet(Tail(q)) = ToSet(q) \ {q[1]} /\ Distinct(Tail(q))
  BY <1>2, <1>3, <1>4
<1> QED BY <1>1, <1>3, <1>5

(* Insertion anywhere of a new element.                                     *)
LEMMA InsertAtDistinct ==
  ASSUME NEW S, NEW q \in Seq(S), NEW i \in 1 .. Len(q) + 1, NEW x \in S,
         Distinct(q), x \notin ToSet(q)
  PROVE  /\ InsertAt(q, i, x) \in Seq(S) /\ Distinct(InsertAt(q, i, x))
         /\ ToSet(InsertAt(q, i, x)) = ToSet(q) \cup {x}
<1>1. PICK n : n = i - 1
  OBVIOUS
<1>2. n \in 0 .. Len(q) /\ n + 1 = i /\ DOMAIN q = 1 .. Len(q) /\ \A k \in 1 .. n : k \in DOMAIN q
  BY <1>1
<1>3. PICK head, tail, mid : /\ head = SubSeq(q, 1, n) /\ tail = SubSeq(q, n + 1, Len(q))
                             /\ mid = head \o <<x>>
  OBVIOUS
<1>4. head \in Seq(S) /\ ToSet(head) = {q[k] : k \in 1 .. n} /\ Distinct(head)
  BY <1>2, <1>3, TakeDistinct
<1>5. tail \in Seq(S) /\ ToSet(tail) = ToSet(q) \ {q[k] : k \in 1 .. n} /\ Distinct(tail)
  BY <1>2, <1>3, DropDistinct
<1>6. ToSet(head) \subseteq ToSet(q)
  BY <1>2, <1>4 DEF ToSet
<1>7. mid \in Seq(S) /\ ToSet(mid) = ToSet(head) \cup {x} /\ Distinct(mid)
  <2>1. PICK me : me = <<x>>
    OBVIOUS
  <2>2. me \in Seq(S) /\ ToSet(me) = {x} /\ Distinct(me)
    BY <2>1 DEF ToSet, Distinct
  <2>3. ToSet(head) \cap ToSet(me) = {}
    BY <1>6, <2>2
  <2>4. /\ head \o me \in Seq(S) /\ ToSet(head \o me) = ToSet(head) \cup ToSet(me)
        /\ Distinct(head \o me)
    BY <1>4, <2>2, <2>3, ConcatDistinct
  <2> QED BY <1>3, <2>1, <2>2, <2>4
<1>8. /\ mid \o tail \in Seq(S) /\ ToSet(mid \o tail) = ToSet(mid) \cup ToSet(tail)
      /\ Distinct(mid \o tail)
  <2>1. ToSet(mid) \cap ToSet(tail) = {}
    BY <1>4, <1>5, <1>7
  <2> QED BY <1>5, <1>7, <2>1, ConcatDistinct
<1>9. InsertAt(q, i, x) = mid \o tail
  <2>1. SubSeq(q, 1, i - 1) = head /\ SubSeq(q, i, Len(q)) = tail
    BY <1>1, <1>2, <1>3
  <2> QED BY <1>3, <2>1 DEF InsertAt
<1>10. ToSet(mid \o tail) = ToSet(q) \cup {x}
  BY <1>4, <1>5, <1>6, <1>7, <1>8
<1> QED BY <1>8, <1>9, <1>10

-----------------------------------------------------------------------------
(* Indices of a ring of n slots.                                            *)
LEMMA DivMod ==
  ASSUME NEW n \in Nat \ {0}, NEW a \in Int
  PROVE  a \div n \in Int /\ a % n \in 0 .. n - 1 /\ a = n * (a \div n) + (a % n)
<1>1. a \div n \in Int
  OBVIOUS
<1>2. a % n \in 0 .. n - 1
  OBVIOUS
<1>3. a = n * (a \div n) + (a % n)
  OBVIOUS
<1> QED BY <1>1, <1>2, <1>3

(* A number determines its remainder.                                       *)
LEMMA Remainder ==
  ASSUME NEW n \in Nat \ {0}, NEW q \in Int, NEW r \in 0 .. n - 1
  PROVE  (n * q + r) % n = r
OBVIOUS

(* The slot behind the one with the index a.                                *)
LEMMA NextSlot ==
  ASSUME NEW n \in Nat \ {0}, NEW a \in Int
  PROVE  ((a % n) + 1) % n = (a + 1) % n
<1> DEFINE q == a \div n
           r == a % n
<1>1. q \in Int /\ r \in 0 .. n - 1 /\ a = n * q + r
  BY DivMod
<1> HIDE DEF q, r
<1>2. CASE r + 1 \in 0 .. n - 1
  <2>1. (n * q + (r + 1)) % n = r + 1
    BY <1>1, <1>2, Remainder
  <2>2. (n * 0 + (r + 1)) % n = r + 1
    BY <1>2, Remainder
  <2>3. n * q + (r + 1) = a + 1 /\ n * 0 + (r + 1) = r + 1
    BY <1>1
  <2>4. (a + 1) % n = r + 1 /\ (r + 1) % n = r + 1
    BY <2>1, <2>2, <2>3
  <2> QED BY <2>4 DEF r
<1>3. CASE r + 1 = n
  <2>1. (n * (q + 1) + 0) % n = 0 /\ (n * 1 + 0) % n = 0
    BY <1>1, Remainder
  <2>2. n * (q + 1) + 0 = a + 1 /\ n * 1 + 0 = r + 1
    BY <1>1, <1>3
  <2>3. (a + 1) % n = 0 /\ (r + 1) % n = 0
    BY <2>1, <2>2
  <2> QED BY <2>3 DEF r
<1> QED BY <1>1, <1>2, <1>3

(* Fewer than n elements in a row have slots of their own.                  *)
LEMMA SlotsApart ==
  ASSUME NEW n \in Nat \ {0}, NEW a \in Int, NEW b \in Int, a < b, b < a + n
  PROVE  a % n # b % n
<1> DEFINE p == a \div n
           q == b \div n
           r == a % n
<1> SUFFICES ASSUME r = b % n PROVE FALSE
  OBVIOUS
<1>1. p \in Int /\ q \in Int /\ r \in Int /\ a = n * p + r /\ b = n * q + r
  BY DivMod
<1> HIDE DEF p, q, r
<1>2. n * (q - p) = b - a /\ q - p \in Int
  BY <1>1
<1>3. CASE q - p >= 1
  <2>1. n * (q - p) >= n
    BY <1>2, <1>3
  <2> QED BY <1>2, <2>1
<1>4. CASE q - p <= 0
  <2>1. n * (q - p) <= 0
    BY <1>2, <1>4
  <2> QED BY <1>2, <2>1
<1> QED BY <1>2, <1>3, <1>4

-----------------------------------------------------------------------------
(* The sums of NachosSums, without looking at their recursion again.        *)
PartialSums(g, q, m) == g[0] = 0 /\ \A n \in 1 .. m : g[n] = g[n - 1] + q[n]

(* Partial sums of the same sequence are the same.                          *)
LEMMA SumsUnique ==
  ASSUME NEW q \in Seq(Int), NEW g, NEW h, NEW m \in 0 .. Len(q),
         PartialSums(g, q, m), PartialSums(h, q, m)
  PROVE  g[m] = h[m]
<1> DEFINE S == {n \in 0 .. m : g[n] # h[n]}
<1>1. m \in Nat
  OBVIOUS
<1>2. CASE S # {}
  <2>1. PICK n \in S : \A k \in S : n <= k
    <3>1. S \in SUBSET Nat
      BY <1>1
    <3> HIDE DEF S
    <3> QED BY <1>2, <3>1, MinExists
  <2>2. n \in 1 .. m /\ n - 1 \in 0 .. m
    BY <1>1, <2>1 DEF PartialSums
  <2>3. n - 1 \notin S
    BY <2>1, <2>2
  <2>4. g[n - 1] = h[n - 1]
    BY <2>2, <2>3
  <2>5. g[n] = h[n]
    BY <2>2, <2>4 DEF PartialSums
  <2> QED BY <2>1, <2>5
<1>3. CASE S = {}
  BY <1>1, <1>3
<1> QED BY <1>2, <1>3

(* The recursion in Total has a solution, and computes it.                  *)
LEMMA TotalSums ==
  ASSUME NEW q \in Seq(Int)
  PROVE  \E g \in [0 .. Len(q) -> Int] : PartialSums(g, q, Len(q)) /\ Total(q) = g[Len(q)]
<1> DEFINE l == Len(q)
           S == {m \in 0 .. l : ~ \E g \in [0 .. m -> Int] : PartialSums(g, q, m)}
<1>1. l \in Nat /\ \A n \in 1 .. l : q[n] \in Int
  OBVIOUS
<1> HIDE DEF l
<1>2. S = {}
  <2> SUFFICES ASSUME S # {} PROVE FALSE
    OBVIOUS
  <2>1. PICK m \in S : \A k \in S : m <= k
    <3>1. S \in SUBSET Nat
      BY <1>1
    <3> HIDE DEF S
    <3> QED BY <3>1, MinExists
  <2>2. m \in 0 .. l /\ ~ \E g \in [0 .. m -> Int] : PartialSums(g, q, m)
    BY <2>1
  <2>3. m # 0
    <3>1. [n \in 0 .. 0 |-> 0] \in [0 .. 0 -> Int] /\ PartialSums([n \in 0 .. 0 |-> 0], q, 0)
      BY DEF PartialSums
    <3> QED BY <2>2, <3>1
  <2>4. m - 1 \in 0 .. l /\ m - 1 \notin S /\ m \in 1 .. l
    <3>1. m - 1 \in 0 .. l /\ m \in 1 .. l /\ m - 1 \in Int /\ m \in Int
      BY <1>1, <2>2, <2>3
    <3>2. m - 1 \notin S
      <4> HIDE DEF S
      <4>1. m - 1 \in S => m <= m - 1
        BY <2>1
      <4> QED BY <3>1, <4>1
    <3> QED BY <3>1, <3>2
  <2>5. PICK g \in [0 .. m - 1 -> Int] : PartialSums(g, q, m - 1)
    BY <2>4
  <2> DEFINE h == [n \in 0 .. m |-> IF n = m THEN g[m - 1] + q[m] ELSE g[n]]
  <2>6. g[m - 1] \in Int /\ q[m] \in Int
    BY <1>1, <2>4, <2>5
  <2>7. h \in [0 .. m -> Int]
    BY <1>1, <2>4, <2>5, <2>6
  <2>8. PartialSums(h, q, m)
    <3>1. h[0] = 0
      BY <2>4, <2>5 DEF PartialSums
    <3>2. ASSUME NEW n \in 1 .. m PROVE h[n] = h[n - 1] + q[n]
      <4>1. CASE n = m
        BY <2>4, <4>1
      <4>2. CASE n # m
        <5>1. n \in 1 .. m - 1 /\ n - 1 \in 0 .. m /\ n - 1 # m /\ n \in 0 .. m
          BY <2>4, <4>2
        <5> QED BY <2>5, <4>2, <5>1 DEF PartialSums
      <4> QED BY <4>1, <4>2
    <3> QED BY <3>1, <3>2 DEF PartialSums
  <2> QED BY <2>2, <2>7, <2>8
<1>3. PICK g \in [0 .. l -> Int] : PartialSums(g, q, l)
  BY SMTT(30), <1>1, <1>2
<1> DEFINE F(s) == s = [n \in 0 .. l |-> IF n = 0 THEN 0 ELSE s[n - 1] + q[n]]
           sum == CHOOSE s : F(s)
<1>4. F(g)
  <2>1. \A n \in 0 .. l : g[n] = IF n = 0 THEN 0 ELSE g[n - 1] + q[n]
    BY <1>1, <1>3 DEF PartialSums
  <2> QED BY <1>3, <2>1
<1>5. Total(q) = sum[l]
  BY DEF Total, l
<1> HIDE DEF F
<1>6. F(sum)
  BY <1>4
<1>7. PartialSums(sum, q, l)
  <2> USE DEF F
  <2>1. \A n \in 0 .. l : sum[n] = IF n = 0 THEN 0 ELSE sum[n - 1] + q[n]
    BY <1>6
  <2> QED BY SMTT(30), <1>1, <2>1 DEF PartialSums
<1>8. sum[l] = g[l]
  <2>1. l \in 0 .. Len(q) /\ l \in Nat
    BY <1>1 DEF l
  <2> HIDE DEF sum
  <2> QED BY SMTT(30), <1>3, <1>7, <2>1, SumsUnique
<1> QED BY <1>3, <1>5, <1>8 DEF l

(* So whatever adds up is the total.                                        *)
LEMMA TotalIs ==
  ASSUME NEW q \in Seq(Int), NEW g, PartialSums(g, q, Len(q))
  PROVE  Total(q) = g[Len(q)] /\ Total(q) \in Int
<1>1. PICK h \in [0 .. Len(q) -> Int] : PartialSums(h, q, Len(q)) /\ Total(q) = h[Len(q)]
  BY TotalSums
<1>2. Len(q) \in 0 .. Len(q)
  OBVIOUS
<1>3. g[Len(q)] = h[Len(q)]
  BY <1>1, <1>2, SumsUnique
<1> QED BY <1>1, <1>2, <1>3

(* Nobody has not waited.                                                   *)
LEMMA WaitedNobody ==
  ASSUME NEW now, NEW since PROVE Waited(<<>>, now, since) = 0
<1>1. [i \in DOMAIN <<>> |-> now - since[<<>>[i]]] = <<>> /\ <<>> \in Seq(Int) /\ Len(<<>>) = 0
  OBVIOUS
<1>2. PartialSums([n \in 0 .. 0 |-> 0], <<>>, 0)
  BY DEF PartialSums
<1>3. Total(<<>>) = [n \in 0 .. 0 |-> 0][0]
  BY <1>1, <1>2, TotalIs
<1> QED BY <1>1, <1>3 DEF Waited

(* The waits of a list, one by one.                                         *)
Waits(w, list, now, since) ==
  /\ Len(w) = Len(list) /\ Waited(list, now, since) = Total(w)
  /\ \A i \in 1 .. Len(list) : w[i] = now - since[list[i]] /\ w[i] \in Int

(* The waits of a list exist as a sequence.                                 *)
LEMMA WaitsOf ==
  ASSUME NEW S, NEW list \in Seq(S), NEW now \in Int, NEW since \in [S -> Int]
  PROVE  \E w \in Seq(Int) : Waits(w, list, now, since)
<1> DEFINE w == [i \in DOMAIN list |-> now - since[list[i]]]
<1>1. DOMAIN list = 1 .. Len(list) /\ Len(list) \in Nat /\ \A i \in 1 .. Len(list) : list[i] \in S
  OBVIOUS
<1>2. \A i \in 1 .. Len(list) : now - since[list[i]] \in Int
  BY <1>1
<1>3. w \in Seq(Int) /\ Len(w) = Len(list)
  BY <1>1, <1>2
<1>4. Waits(w, list, now, since)
  BY <1>1, <1>2, <1>3 DEF Waited, Waits
<1> QED BY <1>3, <1>4

(* Waits are numbers of ticks.                                              *)
LEMMA WaitedInt ==
  ASSUME NEW S, NEW list \in Seq(S), NEW now \in Int, NEW since \in [S -> Int]
  PROVE  Waited(list, now, since) \in Int
<1>1. PICK w \in Seq(Int) : Waits(w, list, now, since)
  BY WaitsOf, Zenon
<1>2. PICK g \in [0 .. Len(w) -> Int] : Total(w) = g[Len(w)]
  BY TotalSums
<1>3. Len(w) \in 0 .. Len(w)
  OBVIOUS
<1> QED BY <1>1, <1>2, <1>3 DEF Waits

(* When time passes, each thread of the list has waited longer.             *)
LEMMA WaitedLonger ==
  ASSUME NEW S, NEW list \in Seq(S), NEW now \in Int, NEW since \in [S -> Int], NEW ticks \in Int
  PROVE  Waited(list, now + ticks, since) = Waited(list, now, since) + ticks * Len(list)
<1> DEFINE l == Len(list)
<1>1. l \in Nat /\ now + ticks \in Int /\ l \in 0 .. l
  OBVIOUS
<1>2. PICK w \in Seq(Int) : Waits(w, list, now, since)
  BY WaitsOf, Zenon
<1>3. PICK v \in Seq(Int) : Waits(v, list, now + ticks, since)
  BY <1>1, WaitsOf, Zenon
<1>4. PICK g \in [0 .. l -> Int] : PartialSums(g, w, l) /\ Total(w) = g[l]
  BY <1>2, TotalSums DEF Waits
<1> DEFINE h == [n \in 0 .. l |-> g[n] + ticks * n]
<1>5. \A i \in 1 .. l : v[i] = w[i] + ticks /\ w[i] \in Int
  <2>1. \A i \in 1 .. l : since[list[i]] \in Int
    BY <1>1
  <2> QED BY SMTT(30), ZenonT(30), <1>2, <1>3, <2>1 DEF Waits
<1> HIDE DEF l
<1>6. PartialSums(h, v, l)
  <2>1. h[0] = 0
    BY <1>1, <1>4 DEF PartialSums
  <2>2. ASSUME NEW n \in 1 .. l PROVE h[n] = h[n - 1] + v[n]
    <3>1. n \in 0 .. l /\ n - 1 \in 0 .. l /\ n \in Int
      BY <1>1
    <3>2. g[n] = g[n - 1] + w[n] /\ v[n] = w[n] + ticks
      BY <1>4, <1>5 DEF PartialSums
    <3>3. g[n - 1] \in Int /\ w[n] \in Int
      BY <1>4, <1>5, <3>1
    <3>4. h[n] = g[n] + ticks * n /\ h[n - 1] = g[n - 1] + ticks * (n - 1)
      BY <3>1
    <3>5. ticks * n = ticks * (n - 1) + ticks /\ ticks * (n - 1) \in Int
      BY <3>1
    <3> HIDE DEF h
    <3> QED BY <3>2, <3>3, <3>4, <3>5
  <2> QED BY <2>1, <2>2 DEF PartialSums
<1>7. Total(v) = h[l]
  <2>1. Len(v) = l
    BY <1>3 DEF Waits, l
  <2> HIDE DEF h
  <2> QED BY <1>3, <1>6, <2>1, TotalIs
<1> QED BY <1>1, <1>2, <1>3, <1>4, <1>7 DEF l, Waits

(* The waits of two lists add up.                                           *)
LEMMA WaitedBoth ==
  ASSUME NEW S, NEW p \in Seq(S), NEW q \in Seq(S), NEW now \in Int, NEW since \in [S -> Int]
  PROVE  Waited(p \o q, now, since) = Waited(p, now, since) + Waited(q, now, since)
<1> DEFINE m == Len(p)
           n == Len(q)
<1>1. /\ p \o q \in Seq(S) /\ Len(p \o q) = m + n /\ m \in Nat /\ n \in Nat
      /\ \A i \in 1 .. m + n : (p \o q)[i] = IF i <= m THEN p[i] ELSE q[i - m]
  OBVIOUS
<1>2. PICK v \in Seq(Int) : Waits(v, p, now, since)
  BY WaitsOf, Zenon
<1>3. PICK w \in Seq(Int) : Waits(w, q, now, since)
  BY WaitsOf, Zenon
<1>4. PICK u \in Seq(Int) : Waits(u, p \o q, now, since)
  BY <1>1, WaitsOf, Zenon
<1>5. PICK g \in [0 .. m -> Int] : PartialSums(g, v, m) /\ Total(v) = g[m]
  BY <1>2, TotalSums DEF Waits
<1>6. PICK h \in [0 .. n -> Int] : PartialSums(h, w, n) /\ Total(w) = h[n]
  BY <1>3, TotalSums DEF Waits
<1>12. /\ \A i \in 1 .. m : v[i] = now - since[p[i]]
       /\ \A i \in 1 .. n : w[i] = now - since[q[i]] /\ w[i] \in Int
       /\ \A i \in 1 .. m + n : u[i] = now - since[(p \o q)[i]]
  BY <1>1, <1>2, <1>3, <1>4 DEF Waits
<1> HIDE DEF m, n
<1> DEFINE f == [i \in 0 .. m + n |-> IF i <= m THEN g[i] ELSE g[m] + h[i - m]]
<1>7. g[m] \in Int /\ h[0] = 0
  BY <1>1, <1>5, <1>6 DEF PartialSums
<1>8. PartialSums(f, u, m + n)
  <2>1. f[0] = 0
    BY <1>1, <1>5 DEF PartialSums
  <2>2. ASSUME NEW i \in 1 .. m + n PROVE f[i] = f[i - 1] + u[i]
    <3>1. CASE i <= m
      <4>1. i \in 1 .. m /\ i - 1 <= m /\ i \in 0 .. m + n /\ i - 1 \in 0 .. m + n
        BY <1>1, <3>1
      <4>2. u[i] = v[i]
        BY <1>1, <1>12, <3>1, <4>1
      <4>3. g[i] = g[i - 1] + v[i]
        BY <1>5, <4>1 DEF PartialSums
      <4> QED BY <3>1, <4>1, <4>2, <4>3
    <3>2. CASE i > m
      <4>1. i - m \in 1 .. n /\ i \in 0 .. m + n /\ i - 1 \in 0 .. m + n /\ ~(i <= m)
            /\ (i - 1) - m = (i - m) - 1
        BY <1>1, <3>2
      <4>2. u[i] = w[i - m] /\ w[i - m] \in Int
        BY <1>1, <1>12, <4>1
      <4>3. h[i - m] = h[(i - m) - 1] + w[i - m]
        BY <1>6, <4>1 DEF PartialSums
      <4>4. h[(i - m) - 1] \in Int
        BY SMTT(30), <1>1, <1>6, <4>1
      <4>5. f[i] = g[m] + h[i - m]
        BY <4>1
      <4>6. f[i - 1] = g[m] + h[(i - m) - 1]
        <5>1. CASE i - 1 = m
          <6>1. i - 1 <= m /\ (i - m) - 1 = 0 /\ i - 1 \in 0 .. m + n
            BY <1>1, <4>1, <5>1
          <6> QED BY <1>7, <5>1, <6>1
        <5>2. CASE i - 1 # m
          <6>1. ~(i - 1 <= m)
            BY <1>1, <3>2, <5>2
          <6> QED BY <4>1, <6>1
        <5> QED BY <5>1, <5>2
      <4> HIDE DEF f
      <4> QED BY <1>7, <4>2, <4>3, <4>4, <4>5, <4>6
    <3> QED BY <1>1, <3>1, <3>2
  <2> QED BY <2>1, <2>2 DEF PartialSums
<1>9. Total(u) = f[m + n]
  BY <1>1, <1>4, <1>8, TotalIs DEF Waits
<1>10. f[m + n] = g[m] + h[n]
  <2>1. CASE n = 0
    BY <1>1, <1>7, <2>1
  <2>2. CASE n > 0
    <3>1. ~(m + n <= m) /\ (m + n) - m = n /\ m + n \in 0 .. m + n
      BY <1>1, <2>2
    <3> QED BY <3>1
  <2> QED BY <1>1, <2>1, <2>2
<1> QED BY <1>2, <1>3, <1>4, <1>5, <1>6, <1>9, <1>10 DEF Waits

(* Who became ready now has not waited.                                     *)
LEMMA WaitedFresh ==
  ASSUME NEW S, NEW list \in Seq(S), NEW now \in Int, NEW since \in [S -> Int],
         \A i \in DOMAIN list : since[list[i]] = now
  PROVE  Waited(list, now, since) = 0
<1>1. PICK w \in Seq(Int) : Waits(w, list, now, since)
  BY WaitsOf, Zenon
<1>2. Len(list) \in Nat /\ DOMAIN list = 1 .. Len(list)
      /\ \A i \in DOMAIN list : list[i] \in S /\ since[list[i]] \in Int
  OBVIOUS
<1>3. Len(w) = Len(list) /\ \A i \in 1 .. Len(w) : w[i] = 0
  <2>1. now - now = 0
    OBVIOUS
  <2>2. Len(w) = Len(list) /\ \A i \in 1 .. Len(list) : w[i] = now - since[list[i]]
    BY <1>1 DEF Waits
  <2> QED BY <1>2, <2>1, <2>2, Zenon
<1> DEFINE g == [n \in 0 .. Len(w) |-> 0]
<1>4. PartialSums(g, w, Len(w)) /\ g[Len(w)] = 0
  BY <1>2, <1>3 DEF PartialSums
<1> HIDE DEF g
<1>5. Total(w) = 0
  BY <1>4, TotalIs
<1> QED BY <1>1, <1>5 DEF Waits

(* Only the times of those in the list count.                               *)
LEMMA WaitedSame ==
  ASSUME NEW list, NEW now, NEW since, NEW later,
         \A i \in DOMAIN list : later[list[i]] = since[list[i]]
  PROVE  Waited(list, now, later) = Waited(list, now, since)
<1>1. [i \in DOMAIN list |-> now - later[list[i]]] = [i \in DOMAIN list |-> now - since[list[i]]]
  OBVIOUS
<1> QED BY <1>1 DEF Waited

(* Threads that become ready now leave the waits of the others as they are. *)
LEMMA WaitedJoined ==
  ASSUME NEW S, NEW list \in Seq(S), NEW ts \in Seq(S), NEW now \in Int,
         NEW since \in [S -> Int], ToSet(list) \cap ToSet(ts) = {}
  PROVE  Waited(list \o ts, now, [t \in S |-> IF t \in ToSet(ts) THEN now ELSE since[t]])
           = Waited(list, now, since)
<1> DEFINE later == [t \in S |-> IF t \in ToSet(ts) THEN now ELSE since[t]]
<1>1. later \in [S -> Int]
  OBVIOUS
<1>2. \A i \in DOMAIN ts : ts[i] \in S /\ ts[i] \in ToSet(ts)
  BY DEF ToSet
<1>3. \A i \in DOMAIN list : list[i] \in S /\ list[i] \notin ToSet(ts)
  <2>1. \A i \in DOMAIN list : list[i] \in S /\ list[i] \in ToSet(list)
    BY DEF ToSet
  <2> QED BY <2>1
<1>4. \A i \in DOMAIN ts : later[ts[i]] = now
  BY <1>2
<1>5. \A i \in DOMAIN list : later[list[i]] = since[list[i]]
  BY <1>3
<1> HIDE DEF later
<1>6. Waited(list, now, later) = Waited(list, now, since)
  BY <1>5, WaitedSame, Zenon
<1>7. Waited(ts, now, later) = 0
  BY <1>1, <1>4, WaitedFresh
<1>8. Waited(list \o ts, now, later) = Waited(list, now, later) + Waited(ts, now, later)
  BY <1>1, WaitedBoth
<1>9. Waited(list, now, since) \in Int
  BY WaitedInt
<1> QED BY <1>6, <1>7, <1>8, <1>9 DEF later

(* A thread that is dispatched takes its wait with it.                      *)
LEMMA WaitedRemove ==
  ASSUME NEW S, NEW list \in Seq(S), NEW now \in Int, NEW since \in [S -> Int],
         NEW k \in 1 .. Len(list)
  PROVE  Waited(RemoveAt(list, k), now, since) + (now - since[list[k]])
           = Waited(list, now, since)
<1> DEFINE head == SubSeq(list, 1, k - 1)
           tail == SubSeq(list, k + 1, Len(list))
           me   == <<list[k]>>
<1>1. k \in Nat /\ k >= 1 /\ Len(list) \in Nat /\ k <= Len(list) /\ list[k] \in S
  OBVIOUS
<1>2. head \in Seq(S) /\ tail \in Seq(S) /\ me \in Seq(S)
  BY <1>1
<1>3. RemoveAt(list, k) = head \o tail
  BY DEF RemoveAt
<1>4. list = (head \o me) \o tail
  <2>1. SubSeq(list, 1, k - 1) \o SubSeq(list, k - 1 + 1, k) = SubSeq(list, 1, k)
    BY <1>1, ConcatAdjacentSubSeq
  <2>2. SubSeq(list, 1, k) \o SubSeq(list, k + 1, Len(list)) = SubSeq(list, 1, Len(list))
    BY <1>1, ConcatAdjacentSubSeq
  <2>3. SubSeq(list, k - 1 + 1, k) = me
    <3>1. k - 1 + 1 = k /\ \A i \in k .. k : list[i] \in S
      BY <1>1
    <3>2. /\ SubSeq(list, k, k) \in Seq(S) /\ Len(SubSeq(list, k, k)) = 1
          /\ SubSeq(list, k, k)[1] = list[k]
      BY <1>1
    <3>3. me \in Seq(S) /\ Len(me) = 1 /\ me[1] = list[k]
      BY <1>1
    <3> HIDE DEF me
    <3>4. \A i \in 1 .. 1 : SubSeq(list, k, k)[i] = me[i]
      BY <3>2, <3>3
    <3> QED BY <3>1, <3>2, <3>3, <3>4, SeqEqual
  <2> QED BY <2>1, <2>2, <2>3, SubSeqFull, Zenon
<1>5. Waited(me, now, since) = now - since[list[k]]
  <2>1. PICK w \in Seq(Int) : Waits(w, me, now, since)
    BY <1>2, WaitsOf, Zenon
  <2>2. Len(w) = 1 /\ w[1] = now - since[list[k]] /\ w[1] \in Int
    BY <1>1, <2>1 DEF Waits
  <2> DEFINE g == [n \in 0 .. 1 |-> IF n = 0 THEN 0 ELSE w[1]]
  <2>3. PartialSums(g, w, 1) /\ g[1] = w[1]
    BY <2>2 DEF PartialSums
  <2> HIDE DEF g
  <2>4. Total(w) = w[1]
    BY <2>2, <2>3, TotalIs
  <2> QED BY <2>1, <2>2, <2>4 DEF Waits
<1> HIDE DEF head, tail, me
<1>6. head \o me \in Seq(S)
  BY <1>2
<1>7. /\ Waited(list, now, since) = Waited(head \o me, now, since) + Waited(tail, now, since)
      /\ Waited(head \o me, now, since) = Waited(head, now, since) + Waited(me, now, since)
      /\ Waited(head \o tail, now, since) = Waited(head, now, since) + Waited(tail, now, since)
  <2>1. \A p, q \in Seq(S) :
          Waited(p \o q, now, since) = Waited(p, now, since) + Waited(q, now, since)
    BY WaitedBoth
  <2> QED BY <1>2, <1>4, <1>6, <2>1, Zenon
<1>8. Waited(head, now, since) \in Int /\ Waited(tail, now, since) \in Int
      /\ Waited(me, now, since) \in Int
  BY <1>2, WaitedInt
<1>9. since[list[k]] \in Int
  BY <1>1
<1> QED BY <1>3, <1>5, <1>7, <1>8, <1>9

-----------------------------------------------------------------------------
(* Lists in the order of "when", as List::SortedInsert keeps them.          *)
Ordered(q) == \A i, j \in DOMAIN q : i <= j => q[i].when <= q[j].when

(* List::SortedInsert: behind all those whose time is not later.            *)
Inserted(e, q) == InsertAt(q, 1 + Cardinality({i \in DOMAIN q : q[i].when <= e.when}), e)

(* Those that are due are the first ones.                                   *)
LEMMA DuePrefix ==
  ASSUME NEW S, NEW q \in Seq(S), \A e \in S : e.when \in Nat, Ordered(q), NEW now \in Nat
  PROVE  \E d \in 0 .. Len(q) :
           /\ d = Cardinality({i \in DOMAIN q : q[i].when <= now})
           /\ \A i \in DOMAIN q : q[i].when <= now <=> i <= d
<1> DEFINE due == {i \in DOMAIN q : q[i].when <= now}
           late == {i \in DOMAIN q : ~(q[i].when <= now)}
<1>1. DOMAIN q = 1 .. Len(q) /\ Len(q) \in Nat /\ \A i \in 1 .. Len(q) : q[i].when \in Nat
  OBVIOUS
<1>2. PICK d \in 0 .. Len(q) : \A i \in DOMAIN q : q[i].when <= now <=> i <= d
  <2>1. CASE late = {}
    <3>1. Len(q) \in 0 .. Len(q) /\ \A i \in DOMAIN q : q[i].when <= now <=> i <= Len(q)
      BY <1>1, <2>1
    <3> QED BY <3>1
  <2>2. CASE late # {}
    <3>1. late \in SUBSET Nat
      BY <1>1
    <3>2. PICK m \in late : \A i \in late : m <= i
      <4> HIDE DEF late
      <4> QED BY <2>2, <3>1, MinExists
    <3>3. m \in 1 .. Len(q) /\ ~(q[m].when <= now) /\ m - 1 \in 0 .. Len(q)
      BY <1>1, <3>2
    <3>4. ASSUME NEW i \in DOMAIN q PROVE q[i].when <= now <=> i <= m - 1
      <4>1. CASE i <= m - 1
        <5>1. ~(m <= i)
          BY <1>1, <3>3, <4>1
        <5>2. i \notin late
          BY <3>2, <5>1
        <5> QED BY <4>1, <5>2
      <4>2. CASE ~(i <= m - 1)
        <5>1. m <= i /\ m \in DOMAIN q
          BY <1>1, <3>3, <4>2
        <5>2. q[m].when <= q[i].when
          BY <5>1 DEF Ordered
        <5> QED BY <1>1, <3>3, <4>2, <5>1, <5>2
      <4> QED BY <4>1, <4>2
    <3> QED BY <3>3, <3>4
  <2> QED BY <2>1, <2>2
<1>3. due = 1 .. d
  BY <1>1, <1>2
<1>4. Cardinality(1 .. d) = d
  <2>1. d \in Nat /\ 1 \in Int /\ d \in Int
    BY <1>1, <1>2
  <2>2. Cardinality(1 .. d) = IF 1 > d THEN 0 ELSE d - 1 + 1
    BY <2>1, FS_Interval
  <2> QED BY <2>1, <2>2
<1> QED BY <1>2, <1>3, <1>4

(* Where SortedInsert puts a new element.                                   *)
InsertedAt(d, r, e, q) ==
  /\ \A i \in 1 .. Len(q) : q[i].when <= e.when <=> i <= d
  /\ \A i \in 1 .. d : r[i] = q[i]
  /\ r[d + 1] = e
  /\ \A i \in d + 2 .. Len(q) + 1 : r[i] = q[i - 1]

(* SortedInsert puts it behind all those whose time is not later.           *)
LEMMA InsertedForm ==
  ASSUME NEW S, NEW q \in Seq(S), \A x \in S : x.when \in Nat, Ordered(q), NEW e \in S
  PROVE  /\ Inserted(e, q) \in Seq(S) /\ Len(Inserted(e, q)) = Len(q) + 1
         /\ \E d \in 0 .. Len(q) : InsertedAt(d, Inserted(e, q), e, q)
<1>1. DOMAIN q = 1 .. Len(q) /\ Len(q) \in Nat /\ e.when \in Nat
      /\ \A i \in 1 .. Len(q) : q[i] \in S
  OBVIOUS
<1>2. PICK d \in 0 .. Len(q) :
        /\ d = Cardinality({i \in DOMAIN q : q[i].when <= e.when})
        /\ \A i \in DOMAIN q : q[i].when <= e.when <=> i <= d
  BY <1>1, DuePrefix
<1> DEFINE head == SubSeq(q, 1, d)
           me   == <<e>>
           tail == SubSeq(q, d + 1, Len(q))
           r    == (head \o me) \o tail
<1>3. Inserted(e, q) = r
  <2>1. (1 + d) - 1 = d /\ 1 + d = d + 1
    BY <1>2
  <2> QED BY <1>2, <2>1 DEF Inserted, InsertAt
<1>4. d \in Nat /\ d <= Len(q)
  BY <1>1, <1>2
<1>5. head \in Seq(S) /\ Len(head) = d /\ \A i \in 1 .. d : head[i] = q[i]
  BY <1>1, <1>4
<1>6. tail \in Seq(S) /\ Len(tail) = Len(q) - d /\ \A i \in 1 .. Len(q) - d : tail[i] = q[d + i]
  <2>1. tail \in Seq(S)
    BY <1>1, <1>4
  <2>2. Len(tail) = Len(q) - d
    <3>1. d + 1 \in Int /\ Len(q) \in Int /\ \A i \in d + 1 .. Len(q) : q[i] \in S
      BY <1>1, <1>4
    <3>2. Len(tail) = IF d + 1 <= Len(q) THEN Len(q) - (d + 1) + 1 ELSE 0
      BY <3>1, SubSeqProperties
    <3>3. CASE d = Len(q)
      BY <1>4, <3>1, <3>2, <3>3
    <3>4. CASE d # Len(q)
      <4>1. d + 1 <= Len(q) /\ Len(q) - (d + 1) + 1 = Len(q) - d
        BY <1>4, <3>1, <3>4
      <4> HIDE DEF tail
      <4> QED BY <3>2, <4>1
    <3> QED BY <3>3, <3>4
  <2>3. \A i \in 1 .. Len(q) - d : tail[i] = q[d + i]
    BY <1>1, <1>4
  <2> QED BY <2>1, <2>2, <2>3
<1>7. me \in Seq(S) /\ Len(me) = 1 /\ me[1] = e
  OBVIOUS
<1> HIDE DEF head, me, tail
<1>8. \A p, w \in Seq(S) :
        /\ p \o w \in Seq(S) /\ Len(p \o w) = Len(p) + Len(w)
        /\ \A i \in 1 .. Len(p) : (p \o w)[i] = p[i]
        /\ \A i \in 1 .. Len(w) : (p \o w)[Len(p) + i] = w[i]
  OBVIOUS
<1>9. /\ head \o me \in Seq(S) /\ Len(head \o me) = d + 1
      /\ \A i \in 1 .. d : (head \o me)[i] = q[i]
      /\ (head \o me)[d + 1] = e
  <2>1. /\ head \o me \in Seq(S) /\ Len(head \o me) = Len(head) + Len(me)
        /\ \A i \in 1 .. Len(head) : (head \o me)[i] = head[i]
        /\ \A i \in 1 .. Len(me) : (head \o me)[Len(head) + i] = me[i]
    BY <1>5, <1>7, <1>8, Zenon
  <2> QED BY <1>5, <1>7, <2>1
<1>10. /\ r \in Seq(S) /\ Len(r) = (d + 1) + (Len(q) - d)
       /\ \A i \in 1 .. d + 1 : r[i] = (head \o me)[i]
       /\ \A i \in 1 .. Len(q) - d : r[(d + 1) + i] = q[d + i]
  <2>1. /\ r \in Seq(S) /\ Len(r) = Len(head \o me) + Len(tail)
        /\ \A i \in 1 .. Len(head \o me) : r[i] = (head \o me)[i]
        /\ \A i \in 1 .. Len(tail) : r[Len(head \o me) + i] = tail[i]
    BY <1>6, <1>8, <1>9, Zenon
  <2> QED BY <1>6, <1>9, <2>1
<1> HIDE DEF r
<1>11. Len(r) = Len(q) + 1
  BY <1>1, <1>4, <1>10
<1>12. \A i \in 1 .. d : r[i] = q[i]
  <2>1. \A i \in 1 .. d : i \in 1 .. d + 1
    BY <1>4
  <2> QED BY <1>9, <1>10, <2>1
<1>13. r[d + 1] = e
  BY <1>4, <1>9, <1>10
<1>14. ASSUME NEW i \in d + 2 .. Len(q) + 1 PROVE r[i] = q[i - 1]
  <2>1. PICK l : l = Len(q)
    OBVIOUS
  <2>2. i \in d + 2 .. l + 1 /\ l \in Nat /\ d \in Nat /\ d <= l
    BY <1>1, <1>4, <2>1
  <2>3. i - (d + 1) \in 1 .. l - d /\ (d + 1) + (i - (d + 1)) = i /\ d + (i - (d + 1)) = i - 1
    BY <2>2
  <2> QED BY <1>10, <2>1, <2>3
<1>15. InsertedAt(d, r, e, q)
  BY <1>1, <1>2, <1>12, <1>13, <1>14 DEF InsertedAt
<1> QED BY <1>2, <1>3, <1>10, <1>11, <1>15

(* The list gains the element and stays in order.                           *)
LEMMA InsertedKeeps ==
  ASSUME NEW S, NEW q \in Seq(S), \A x \in S : x.when \in Nat, Ordered(q), NEW e \in S
  PROVE  /\ Inserted(e, q) \in Seq(S) /\ Ordered(Inserted(e, q))
         /\ Len(Inserted(e, q)) = Len(q) + 1
         /\ ToSet(Inserted(e, q)) = ToSet(q) \cup {e}
<1> DEFINE r == Inserted(e, q)
           l == Len(q)
<1>1. /\ r \in Seq(S) /\ Len(r) = l + 1 /\ l \in Nat /\ DOMAIN q = 1 .. l /\ DOMAIN r = 1 .. l + 1
      /\ \A i \in 1 .. l : q[i] \in S /\ q[i].when \in Nat
      /\ e.when \in Nat
  <2>1. r \in Seq(S) /\ Len(r) = l + 1
    BY InsertedForm
  <2> HIDE DEF r
  <2> QED BY <2>1
<1>20. PICK d \in 0 .. l : InsertedAt(d, r, e, q)
  BY InsertedForm, Zenon
<1>2. /\ \A i \in 1 .. l : q[i].when <= e.when <=> i <= d
      /\ \A i \in 1 .. d : r[i] = q[i]
      /\ r[d + 1] = e
      /\ \A i \in d + 2 .. l + 1 : r[i] = q[i - 1]
  <2> HIDE DEF r
  <2> QED BY <1>20 DEF InsertedAt
<1>3. \A i, j \in 1 .. l : i <= j => q[i].when <= q[j].when
  BY <1>1 DEF Ordered
<1> HIDE DEF r, l
<1>4. ASSUME NEW i \in 1 .. l + 1
      PROVE  \/ i \in 1 .. d /\ i \in 1 .. l /\ r[i] = q[i]
             \/ i = d + 1 /\ r[i] = e
             \/ i \in d + 2 .. l + 1 /\ i - 1 \in 1 .. l /\ r[i] = q[i - 1] /\ ~(i - 1 <= d)
  BY <1>1, <1>2
<1>5. Ordered(r)
  <2> SUFFICES ASSUME NEW i \in 1 .. l + 1, NEW j \in 1 .. l + 1, i <= j
               PROVE  r[i].when <= r[j].when
    BY <1>1 DEF Ordered
  <2>1. CASE i \in 1 .. d /\ i \in 1 .. l /\ r[i] = q[i]
    <3>1. CASE j \in 1 .. l /\ r[j] = q[j]
      BY <1>3, <2>1, <3>1
    <3>2. CASE r[j] = e
      BY <1>2, <2>1, <3>2
    <3>3. CASE j \in d + 2 .. l + 1 /\ j - 1 \in 1 .. l /\ r[j] = q[j - 1]
      <4>1. i <= j - 1
        BY <1>1, <1>2, <2>1, <3>3
      <4> QED BY <1>3, <2>1, <3>3, <4>1
    <3> QED BY <1>4, <3>1, <3>2, <3>3
  <2>2. CASE i = d + 1 /\ r[i] = e
    <3>1. CASE j = d + 1
      BY <1>1, <2>2, <3>1
    <3>2. CASE j - 1 \in 1 .. l /\ r[j] = q[j - 1] /\ ~(j - 1 <= d)
      <4>1. ~(q[j - 1].when <= e.when)
        BY <1>2, <3>2
      <4> QED BY <1>1, <2>2, <3>2, <4>1
    <3>3. ~(j \in 1 .. d)
      BY <1>1, <1>2, <2>2
    <3> QED BY <1>4, <3>1, <3>2, <3>3
  <2>3. CASE i \in d + 2 .. l + 1 /\ i - 1 \in 1 .. l /\ r[i] = q[i - 1]
    <3>1. j \in d + 2 .. l + 1 /\ j - 1 \in 1 .. l /\ i - 1 <= j - 1
      BY <1>1, <1>2, <2>3
    <3>2. r[j] = q[j - 1]
      BY <1>2, <3>1
    <3> QED BY <1>3, <2>3, <3>1, <3>2
  <2> QED BY <1>4, <2>1, <2>2, <2>3
<1>6. ToSet(r) \subseteq ToSet(q) \cup {e}
  BY <1>1, <1>4 DEF ToSet
<1>7. ToSet(q) \cup {e} \subseteq ToSet(r)
  <2>1. e \in ToSet(r)
    <3>1. d + 1 \in 1 .. l + 1
      BY <1>1, <1>2
    <3> QED BY <1>1, <1>2, <3>1 DEF ToSet
  <2>2. ASSUME NEW i \in 1 .. l PROVE q[i] \in ToSet(r)
    <3>1. CASE i <= d
      <4>1. i \in 1 .. d /\ i \in 1 .. l + 1
        BY <1>1, <1>2, <3>1
      <4> QED BY <1>1, <1>2, <4>1 DEF ToSet
    <3>2. CASE ~(i <= d)
      <4>1. i + 1 \in d + 2 .. l + 1 /\ (i + 1) - 1 = i /\ i + 1 \in 1 .. l + 1
        BY <1>1, <1>2, <3>2
      <4>2. r[i + 1] = q[i]
        BY <1>2, <4>1
      <4> QED BY <1>1, <4>1, <4>2 DEF ToSet
    <3> QED BY <3>1, <3>2
  <2>3. ToSet(q) = {q[i] : i \in 1 .. l}
    BY <1>1 DEF ToSet
  <2> QED BY <2>1, <2>2, <2>3
<1> QED BY <1>1, <1>5, <1>6, <1>7 DEF r, l

(* The first interrupt, and the others.                                     *)
LEMMA TailKeeps ==
  ASSUME NEW S, NEW q \in Seq(S), q # <<>>, Ordered(q)
  PROVE  /\ Head(q) \in S /\ Tail(q) \in Seq(S) /\ Ordered(Tail(q)) /\ Len(Tail(q)) = Len(q) - 1
         /\ ToSet(q) = ToSet(Tail(q)) \cup {Head(q)}
         /\ \A e \in ToSet(q) : Head(q).when <= e.when
<1> DEFINE r == Tail(q)
           l == Len(q)
<1>1. /\ l \in Nat /\ l >= 1 /\ DOMAIN q = 1 .. l /\ Head(q) = q[1] /\ q[1] \in S
      /\ r \in Seq(S) /\ Len(r) = l - 1 /\ \A i \in 1 .. l - 1 : r[i] = q[i + 1]
  OBVIOUS
<1>2. DOMAIN r = 1 .. l - 1
  BY <1>1
<1>3. \A i \in 1 .. l - 1 : i + 1 \in 1 .. l
  BY <1>1
<1> HIDE DEF r, l
<1>4. ASSUME NEW i \in 1 .. l - 1, NEW j \in 1 .. l - 1, i <= j PROVE r[i].when <= r[j].when
  <2>1. i + 1 <= j + 1 /\ i + 1 \in 1 .. l /\ j + 1 \in 1 .. l
    BY <1>1, <1>4
  <2> QED BY <1>1, <2>1 DEF Ordered
<1>5. \A e \in ToSet(q) : Head(q).when <= e.when
  <2>1. \A i \in 1 .. l : 1 <= i /\ 1 \in 1 .. l
    BY <1>1
  <2> QED BY <1>1, <2>1 DEF Ordered, ToSet
<1>6. ToSet(q) = ToSet(r) \cup {Head(q)}
  <2>1. ToSet(q) = {q[i] : i \in 1 .. l} /\ ToSet(r) = {r[i] : i \in 1 .. l - 1}
    BY <1>1, <1>2 DEF ToSet
  <2>2. \A i \in 1 .. l : i = 1 \/ (i - 1 \in 1 .. l - 1 /\ (i - 1) + 1 = i)
    BY <1>1
  <2>3. 1 \in 1 .. l
    BY <1>1
  <2>4. ASSUME NEW i \in 1 .. l PROVE q[i] \in ToSet(r) \cup {Head(q)}
    <3>1. CASE i = 1
      BY <1>1, <3>1
    <3>2. CASE i # 1
      <4>1. r[i - 1] = q[i] /\ i - 1 \in 1 .. l - 1
        BY <1>1, <2>2, <3>2
      <4> QED BY <2>1, <4>1
    <3> QED BY <3>1, <3>2
  <2>5. \A i \in 1 .. l - 1 : r[i] \in ToSet(q)
    BY <1>1, <1>3, <2>1
  <2>6. Head(q) \in ToSet(q)
    BY <1>1, <2>1, <2>3
  <2> QED BY <2>1, <2>4, <2>5, <2>6
<1> QED BY <1>1, <1>2, <1>4, <1>5, <1>6 DEF r, l, Ordered

(* Two orders of the same threads have waited equally long.                 *)
LEMMA WaitedPermuted ==
  ASSUME NEW S, NEW p \in Seq(S), NEW q \in Seq(S), Distinct(p), Distinct(q),
         ToSet(p) = ToSet(q), NEW now \in Int, NEW since \in [S -> Int]
  PROVE  Waited(p, now, since) = Waited(q, now, since)
<1> DEFINE Differ(n, f, g) == /\ Len(f) = n /\ Distinct(f) /\ Distinct(g) /\ ToSet(f) = ToSet(g)
                              /\ Waited(f, now, since) # Waited(g, now, since)
           N == {n \in Nat : \E f, g \in Seq(S) : Differ(n, f, g)}
<1> SUFFICES ASSUME N # {} PROVE FALSE
  <2>1. Len(p) \in Nat
    OBVIOUS
  <2> QED BY <2>1
<1>1. PICK n \in N : \A m \in N : n <= m
  <2>1. N \in SUBSET Nat
    OBVIOUS
  <2> HIDE DEF N
  <2> QED BY <2>1, MinExists
<1>2. PICK f \in Seq(S), g \in Seq(S) : Differ(n, f, g)
  BY <1>1
<1>3. n \in Nat /\ Len(f) = n /\ DOMAIN f = 1 .. n /\ DOMAIN g = 1 .. Len(g) /\ Len(g) \in Nat
  BY <1>1, <1>2
<1>4. CASE n = 0
  <2>1. ToSet(f) = {}
    BY <1>3, <1>4 DEF ToSet
  <2>2. g = <<>> /\ f = <<>>
    <3>1. ToSet(g) = {}
      BY <1>2, <2>1
    <3>2. DOMAIN g = {}
      <4> SUFFICES ASSUME NEW i \in DOMAIN g PROVE FALSE
        OBVIOUS
      <4>1. g[i] \in ToSet(g)
        BY DEF ToSet
      <4> QED BY <3>1, <4>1
    <3> QED BY <1>3, <1>4, <3>2
  <2> QED BY <1>2, <2>2
<1>5. CASE n # 0
  <2>1. 1 \in DOMAIN f /\ 1 \in 1 .. Len(f)
    BY <1>3, <1>5
  <2>2. f[1] \in ToSet(f)
    BY <2>1 DEF ToSet
  <2>3. PICK k \in 1 .. Len(g) : g[k] = f[1]
    BY <1>2, <1>3, <2>2 DEF ToSet
  <2>4. PICK f1, g1 : f1 = RemoveAt(f, 1) /\ g1 = RemoveAt(g, k)
    OBVIOUS
  <2>5. /\ f1 \in Seq(S) /\ Distinct(f1) /\ ToSet(f1) = ToSet(f) \ {f[1]}
    BY SMTT(30), <1>2, <2>1, <2>4, RemoveAtDistinct
  <2>6. /\ g1 \in Seq(S) /\ Distinct(g1) /\ ToSet(g1) = ToSet(g) \ {g[k]}
    <3>1. k \in DOMAIN g /\ Distinct(g)
      BY <1>2, <1>3
    <3> QED BY <2>4, <3>1, RemoveAtDistinct
  <2>7. Len(f1) = n - 1 /\ n - 1 \in Nat /\ ~(n <= n - 1)
    <3> DEFINE none == SubSeq(f, 1, 0)
               rest == SubSeq(f, 2, n)
    <3>1. f1 = none \o rest
      <4>1. 1 - 1 = 0 /\ 1 + 1 = 2
        OBVIOUS
      <4> QED BY <1>3, <2>4, <4>1 DEF RemoveAt
    <3>2. none \in Seq(S) /\ Len(none) = 0
      OBVIOUS
    <3>3. rest \in Seq(S) /\ Len(rest) = n - 1
      BY SMTT(30), <1>3, <1>5
    <3> HIDE DEF none, rest
    <3>4. Len(none \o rest) = Len(none) + Len(rest)
      BY <3>2, <3>3
    <3> QED BY <1>3, <1>5, <3>1, <3>2, <3>3, <3>4
  <2>8. Waited(f1, now, since) = Waited(g1, now, since)
    <3>1. n - 1 \notin N
      <4> HIDE DEF N
      <4> QED BY <1>1, <2>7
    <3>2. ~Differ(n - 1, f1, g1)
      BY <2>5, <2>6, <2>7, <3>1
    <3> QED BY <1>2, <2>3, <2>5, <2>6, <2>7, <3>2
  <2>9. /\ Waited(f1, now, since) + (now - since[f[1]]) = Waited(f, now, since)
        /\ Waited(g1, now, since) + (now - since[g[k]]) = Waited(g, now, since)
    BY SMTT(30), ZenonT(30), <2>1, <2>3, <2>4, WaitedRemove
  <2> QED BY <1>2, <2>3, <2>8, <2>9
<1> QED BY <1>4, <1>5

-----------------------------------------------------------------------------
(* Definitions by recursion: what f says of n is G[n] of what it says of    *)
(* the smaller number down[n]; g does so up to m.                           *)
Lower(down) == \A n \in Nat \ {0} : down[n] < n
Recurs(f, z, down, G) == \A n \in Nat : f[n] = IF n = 0 THEN z ELSE G[n][f[down[n]]]
Solves(g, m, z, down, G) ==
  \A n \in 0 .. m : g[n] = IF n = 0 THEN z ELSE G[n][g[down[n]]]

(* Two functions that do so agree.                                          *)
LEMMA SolvesOnce ==
  ASSUME NEW z, NEW down \in [Nat -> Nat], Lower(down), NEW G,
         NEW f, NEW g, NEW m \in Nat, Solves(f, m, z, down, G), Solves(g, m, z, down, G)
  PROVE  \A n \in 0 .. m : f[n] = g[n]
<1> DEFINE S == {n \in 0 .. m : f[n] # g[n]}
<1> SUFFICES ASSUME S # {} PROVE FALSE
  OBVIOUS
<1>1. PICK n \in S : \A k \in S : n <= k
  <2>1. S \in SUBSET Nat
    OBVIOUS
  <2> HIDE DEF S
  <2> QED BY <2>1, MinExists
<1>2. n # 0
  BY <1>1 DEF Solves
<1>3. down[n] \in 0 .. m /\ ~(n <= down[n])
  <2>1. n \in Nat \ {0} /\ n <= m /\ down[n] \in Nat /\ down[n] < n
    BY <1>1, <1>2 DEF Lower
  <2> QED BY <2>1
<1>4. f[down[n]] = g[down[n]]
  BY <1>1, <1>3
<1>5. f[n] = g[n]
  BY <1>1, <1>2, <1>4 DEF Solves
<1> QED BY <1>1, <1>5

(* A recursion on smaller numbers has a solution.                           *)
LEMMA RecursionExists ==
  ASSUME NEW X, NEW z \in X, NEW down \in [Nat -> Nat], Lower(down),
         NEW G \in [Nat -> [X -> X]]
  PROVE  \E f \in [Nat -> X] : Recurs(f, z, down, G)
<1> DEFINE S == {m \in Nat : ~ \E g \in [Nat -> X] : Solves(g, m, z, down, G)}
           Best(m) == CHOOSE g \in [Nat -> X] : Solves(g, m, z, down, G)
           f == [n \in Nat |-> Best(n)[n]]
<1>1. S = {}
  <2> SUFFICES ASSUME S # {} PROVE FALSE
    OBVIOUS
  <2>1. PICK m \in S : \A k \in S : m <= k
    <3>1. S \in SUBSET Nat
      OBVIOUS
    <3> HIDE DEF S
    <3> QED BY <3>1, MinExists
  <2>2. m \in Nat /\ ~ \E g \in [Nat -> X] : Solves(g, m, z, down, G)
    BY <2>1
  <2>3. m # 0
    <3>1. Solves([n \in Nat |-> z], 0, z, down, G) /\ [n \in Nat |-> z] \in [Nat -> X]
      BY DEF Solves
    <3> QED BY <2>2, <3>1
  <2>4. m - 1 \in Nat /\ ~(m <= m - 1)
    BY <2>2, <2>3
  <2>5. PICK g \in [Nat -> X] : Solves(g, m - 1, z, down, G)
    BY <2>1, <2>4
  <2>6. PICK h : h = [g EXCEPT ![m] = G[m][g[down[m]]]]
    OBVIOUS
  <2>7. /\ h[m] = G[m][g[down[m]]] /\ \A n \in Nat : n # m => h[n] = g[n]
        /\ h \in [Nat -> X]
    <3>1. G[m][g[down[m]]] \in X
      BY <2>2
    <3> QED BY <2>2, <2>6, <3>1
  <2>8. ASSUME NEW n \in 0 .. m PROVE h[n] = IF n = 0 THEN z ELSE G[n][h[down[n]]]
    <3>1. n \in Nat /\ (n = 0 \/ (down[n] \in Nat /\ down[n] # m))
      BY <2>2 DEF Lower
    <3>2. n # 0 => h[down[n]] = g[down[n]]
      BY <2>7, <3>1
    <3>3. CASE n = m
      BY <2>3, <2>7, <3>2, <3>3
    <3>4. CASE n # m
      <4>1. n \in 0 .. m - 1 /\ h[n] = g[n]
        BY <2>2, <2>7, <3>1, <3>4
      <4> QED BY <2>5, <3>2, <4>1 DEF Solves
    <3> QED BY <3>3, <3>4
  <2> QED BY <2>2, <2>7, <2>8 DEF Solves
<1>2. \A m \in Nat : Best(m) \in [Nat -> X] /\ Solves(Best(m), m, z, down, G)
  BY <1>1
<1> HIDE DEF S, Best
<1>3. f \in [Nat -> X]
  BY <1>2
<1>4. ASSUME NEW n \in Nat PROVE f[n] = IF n = 0 THEN z ELSE G[n][f[down[n]]]
  <2>1. Best(n)[n] = IF n = 0 THEN z ELSE G[n][Best(n)[down[n]]]
    BY <1>2 DEF Solves
  <2>2. n # 0 => Best(n)[down[n]] = f[down[n]]
    <3> SUFFICES ASSUME n # 0 PROVE Best(n)[down[n]] = f[down[n]]
      OBVIOUS
    <3>1. PICK k \in Nat : k = down[n] /\ k < n
      BY DEF Lower
    <3>2. Solves(Best(n), k, z, down, G) /\ Solves(Best(k), k, z, down, G)
      BY <1>2, <3>1 DEF Solves
    <3>3. k \in 0 .. k
      OBVIOUS
    <3>4. Best(n)[k] = Best(k)[k]
      BY <3>2, <3>3, SolvesOnce
    <3> QED BY <3>1, <3>4
  <2> QED BY <2>1, <2>2
<1> QED BY <1>3, <1>4 DEF Recurs

(* What comes first comes last when reversed.                               *)
LEMMA ReverseCons ==
  ASSUME NEW S, NEW q \in Seq(S), NEW x \in S
  PROVE  Reverse(<<x>> \o q) = Append(Reverse(q), x) /\ Reverse(q) \in Seq(S)
<1> DEFINE l == Len(q)
           c == <<x>> \o q
           r == Reverse(q)
<1>1. l \in Nat /\ Len(c) = l + 1 /\ c[1] = x /\ \A i \in 2 .. l + 1 : c[i] = q[i - 1]
  OBVIOUS
<1>2. r \in Seq(S) /\ Len(r) = l /\ \A i \in 1 .. l : r[i] = q[l - i + 1]
  <2>1. \A i \in 1 .. l : l - i + 1 \in 1 .. l
    BY <1>1
  <2>2. \A i \in 1 .. l : q[i] \in S
    OBVIOUS
  <2> QED BY <1>1, <2>1, <2>2 DEF Reverse
<1>3. Append(r, x) \in Seq(S) /\ Len(Append(r, x)) = l + 1 /\ Append(r, x)[l + 1] = x
      /\ \A i \in 1 .. l : Append(r, x)[i] = r[i]
  BY <1>2
<1> HIDE DEF l, r
<1>4. Append(r, x) = [i \in 1 .. l + 1 |-> Append(r, x)[i]]
  <2>1. \A s \in Seq(S) : s = [i \in 1 .. Len(s) |-> s[i]]
    OBVIOUS
  <2> QED BY <1>3, <2>1
<1>5. \A i \in 1 .. l + 1 : Append(r, x)[i] = c[(l + 1 - i) + 1]
  <2> TAKE i \in 1 .. l + 1
  <2>1. CASE i = l + 1
    BY <1>1, <1>3, <2>1
  <2>2. CASE i # l + 1
    <3>1. i \in 1 .. l /\ (l + 1 - i) + 1 \in 2 .. l + 1 /\ ((l + 1 - i) + 1) - 1 = l - i + 1
      BY <1>1, <2>2
    <3>2. c[(l + 1 - i) + 1] = q[l - i + 1]
      BY <1>1, <3>1
    <3> QED BY <1>2, <1>3, <3>1, <3>2
  <2> QED BY <2>1, <2>2
<1>6. Reverse(c) = [i \in 1 .. l + 1 |-> c[(l + 1 - i) + 1]]
  <2> HIDE DEF c
  <2> QED BY <1>1 DEF Reverse
<1>7. Reverse(c) = Append(r, x)
  BY <1>4, <1>5, <1>6, Zenon
<1> QED BY <1>2, <1>7 DEF r

(* What the first n sequences of s are, joined, for n up to m.              *)
JoinedSoFar(f, s, m) == f[0] = <<>> /\ \A n \in 1 .. m : f[n] = f[n - 1] \o s[n]
Agree(f, g, m) == \A n \in 0 .. m : f[n] = g[n]

(* Two functions that join the sequences agree.                             *)
LEMMA JoinsOnce ==
  ASSUME NEW s, NEW f, NEW g, NEW m \in Nat, JoinedSoFar(f, s, m), JoinedSoFar(g, s, m)
  PROVE  Agree(f, g, m)
<1> DEFINE S == {n \in 0 .. m : f[n] # g[n]}
<1> SUFFICES ASSUME S # {} PROVE FALSE
  BY DEF Agree
<1>1. PICK n \in S : \A k \in S : n <= k
  <2>1. S \in SUBSET Nat
    OBVIOUS
  <2> HIDE DEF S
  <2> QED BY <2>1, MinExists
<1>2. n # 0
  BY <1>1 DEF JoinedSoFar
<1>3. n - 1 \in 0 .. m /\ ~(n <= n - 1) /\ n \in 1 .. m
  BY <1>1, <1>2
<1>4. f[n - 1] = g[n - 1]
  BY <1>1, <1>3
<1>5. f[n] = g[n]
  BY <1>3, <1>4 DEF JoinedSoFar
<1> QED BY <1>1, <1>5

(* FlattenSeq joins them.                                                   *)
LEMMA FlattenJoins ==
  ASSUME NEW Y, NEW s \in Seq(Seq(Y))
  PROVE  \E f \in [Nat -> Seq(Y)] : JoinedSoFar(f, s, Len(s)) /\ FlattenSeq(s) = f[Len(s)]
<1> DEFINE down == [n \in Nat |-> IF n = 0 THEN 0 ELSE n - 1]
           G == [n \in Nat |-> [q \in Seq(Y) |-> IF n \in 1 .. Len(s) THEN q \o s[n] ELSE q]]
<1>1. /\ down \in [Nat -> Nat] /\ \A n \in Nat \ {0} : down[n] < n /\ down[n] = n - 1
      /\ <<>> \in Seq(Y)
  OBVIOUS
<1>2. G \in [Nat -> [Seq(Y) -> Seq(Y)]]
  OBVIOUS
<1>3. PICK f \in [Nat -> Seq(Y)] : \A n \in Nat : f[n] = IF n = 0 THEN <<>> ELSE G[n][f[down[n]]]
  <2>1. <<>> \in Seq(Y) /\ down \in [Nat -> Nat] /\ Lower(down)
    BY <1>1 DEF Lower
  <2> HIDE DEF down, G
  <2>2. \E f \in [Nat -> Seq(Y)] : Recurs(f, <<>>, down, G)
    BY <1>2, <2>1, RecursionExists
  <2> QED BY <2>2 DEF Recurs
<1> DEFINE l == Len(s)
<1>4. l \in Nat /\ \A n \in 1 .. l : n \in Nat \ {0} /\ n - 1 \in Nat /\ s[n] \in Seq(Y)
  OBVIOUS
<1>5. JoinedSoFar(f, s, l)
  <2>1. f[0] = <<>>
    BY <1>3
  <2>2. ASSUME NEW n \in 1 .. l PROVE f[n] = f[n - 1] \o s[n]
    <3>1. f[n] = G[n][f[down[n]]] /\ down[n] = n - 1 /\ n \in Nat /\ f[n - 1] \in Seq(Y)
      <4> HIDE DEF G, down
      <4> QED BY <1>1, <1>3, <1>4
    <3>2. G[n][f[n - 1]] = f[n - 1] \o s[n]
      BY <3>1
    <3> QED BY <3>1, <3>2, Zenon
  <2> QED BY <2>1, <2>2 DEF JoinedSoFar
<1> HIDE DEF down, G
<1>6. CASE l = 0
  <2>1. s = <<>>
    BY <1>6
  <2>2. FlattenSeq(s) = s
    BY <1>6 DEF FlattenSeq
  <2> QED BY <1>5, <1>6, <2>1, <2>2 DEF JoinedSoFar
<1>7. CASE l # 0
  <2> DEFINE Def(g) == g = [i \in 1 .. l |-> IF i = 1 THEN s[i] ELSE g[i - 1] \o s[i]]
             h == [i \in 1 .. l |-> f[i]]
             flatten == CHOOSE g : Def(g)
  <2>1. FlattenSeq(s) = flatten[l]
    BY <1>7 DEF FlattenSeq
  <2>2. ASSUME NEW i \in 1 .. l PROVE h[i] = IF i = 1 THEN s[i] ELSE h[i - 1] \o s[i]
    <3>1. h[i] = f[i] /\ f[i] = f[i - 1] \o s[i] /\ s[i] \in Seq(Y)
      BY <1>4, <1>5 DEF JoinedSoFar
    <3>2. CASE i = 1
      <4>1. f[i - 1] = <<>>
        BY <1>5, <3>2 DEF JoinedSoFar
      <4>2. \A q \in Seq(Y) : <<>> \o q = q
        OBVIOUS
      <4> QED BY <3>1, <3>2, <4>1, <4>2
    <3>3. CASE i # 1
      <4>1. i - 1 \in 1 .. l
        BY <1>4, <3>3
      <4> QED BY <3>1, <3>3, <4>1
    <3> QED BY <3>2, <3>3
  <2>3. Def(h)
    <3>1. h = [i \in 1 .. l |-> h[i]]
      OBVIOUS
    <3> HIDE DEF h
    <3>2. [i \in 1 .. l |-> h[i]] = [i \in 1 .. l |-> IF i = 1 THEN s[i] ELSE h[i - 1] \o s[i]]
      BY <2>2
    <3> QED BY <3>1, <3>2
  <2>4. Def(flatten)
    <3> HIDE DEF Def, h
    <3> QED BY <2>3
  <2>8. \A n \in 1 .. l : flatten[n] = IF n = 1 THEN s[n] ELSE flatten[n - 1] \o s[n]
    <3>1. flatten = [i \in 1 .. l |-> IF i = 1 THEN s[i] ELSE flatten[i - 1] \o s[i]]
      BY <2>4
    <3> HIDE DEF flatten, Def
    <3> QED BY <3>1
  <2> DEFINE k == [n \in 0 .. l |-> IF n = 0 THEN <<>> ELSE flatten[n]]
  <2>5. JoinedSoFar(k, s, l)
    <3>0. k[0] = <<>>
      <4> HIDE DEF flatten
      <4> QED BY <1>4
    <3> HIDE DEF flatten
    <3> SUFFICES ASSUME NEW n \in 1 .. l PROVE k[n] = k[n - 1] \o s[n]
      <4> HIDE DEF k
      <4> QED BY <3>0 DEF JoinedSoFar
    <3>1. k[n] = flatten[n] /\ flatten[n] = IF n = 1 THEN s[n] ELSE flatten[n - 1] \o s[n]
      <4>1. n \in 0 .. l /\ n # 0
        BY <1>4
      <4> QED BY <2>8, <4>1
    <3>2. CASE n = 1
      <4>1. k[n - 1] = <<>> /\ s[n] \in Seq(Y)
        BY <1>4, <3>2
      <4>2. \A q \in Seq(Y) : <<>> \o q = q
        OBVIOUS
      <4> QED BY <3>1, <3>2, <4>1, <4>2
    <3>3. CASE n # 1
      <4>1. n - 1 \in 0 .. l /\ n - 1 # 0
        BY <1>4, <3>3
      <4>2. k[n - 1] = flatten[n - 1]
        BY <4>1
      <4> QED BY <3>1, <3>3, <4>2
    <3> QED BY <3>2, <3>3
  <2>6. k[l] = f[l]
    <3>1. l \in 0 .. l
      BY <1>4
    <3> HIDE DEF k, l
    <3> QED BY <1>4, <1>5, <2>5, <3>1, JoinsOnce DEF Agree
  <2>7. k[l] = flatten[l]
    <3> HIDE DEF flatten
    <3> QED BY <1>4, <1>7
  <2> QED BY <1>5, <2>1, <2>6, <2>7
<1> QED BY <1>6, <1>7

(* One more sequence is joined behind the others.                           *)
LEMMA FlattenAppend ==
  ASSUME NEW Y, NEW s \in Seq(Seq(Y)), NEW x \in Seq(Y)
  PROVE  FlattenSeq(s) \in Seq(Y) /\ FlattenSeq(Append(s, x)) = FlattenSeq(s) \o x
<1> DEFINE l == Len(s)
           t == Append(s, x)
<1>1. l \in Nat /\ t \in Seq(Seq(Y)) /\ Len(t) = l + 1 /\ t[l + 1] = x
      /\ \A n \in 1 .. l : t[n] = s[n]
  OBVIOUS
<1> HIDE DEF t, l
<1>2. PICK f \in [Nat -> Seq(Y)] : JoinedSoFar(f, s, l) /\ FlattenSeq(s) = f[l]
  BY FlattenJoins DEF l
<1>3. PICK g \in [Nat -> Seq(Y)] : JoinedSoFar(g, t, l + 1) /\ FlattenSeq(t) = g[l + 1]
  <2>1. \E g \in [Nat -> Seq(Y)] : JoinedSoFar(g, t, Len(t)) /\ FlattenSeq(t) = g[Len(t)]
    BY <1>1, FlattenJoins
  <2> QED BY <1>1, <2>1
<1>4. JoinedSoFar(g, s, l)
  <2>1. \A n \in 1 .. l : n \in 1 .. l + 1
    BY <1>1
  <2> QED BY <1>1, <1>3, <2>1 DEF JoinedSoFar
<1>5. g[l] = f[l]
  <2>1. l \in 0 .. l
    BY <1>1
  <2>2. Agree(g, f, l)
    BY <1>1, <1>2, <1>4, JoinsOnce
  <2> QED BY <2>1, <2>2 DEF Agree
<1>6. g[l + 1] = g[l] \o t[l + 1]
  <2>0. l \in Nat
    BY <1>1
  <2>1. l + 1 \in 1 .. l + 1 /\ (l + 1) - 1 = l
    BY <2>0
  <2> QED BY <1>3, <2>1 DEF JoinedSoFar
<1> QED BY <1>1, <1>2, <1>3, <1>5, <1>6 DEF t
=============================================================================
