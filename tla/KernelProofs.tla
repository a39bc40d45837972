---------------------------- MODULE KernelProofs ----------------------------
(***************************************************************************)
(* The safety properties of KernelProps.tla, for any number of tasks, line  *)
(* buffer size, UART depth, read sizes and switch count width: the         *)
(* scheduler's steps, the theorems, and the balance of the switch counts.   *)
(* The steps of interrupts and of system calls are in KernelStepProofs.tla. *)
(***************************************************************************)
EXTENDS KernelStepProofs, BasicLemmas, FiniteSetTheorems

USE ZenonT(60)

(***************************************************************************)
(* How a sum over the tasks changes with one of its terms, and what the run *)
(* queue's two operators guarantee for every ring.                          *)
(***************************************************************************)

\* Partial sums exist.
LEMMA SumExists ==
  ASSUME NEW count \in Nat, NEW terms, \A i \in 1..count : terms[i] \in Int
  PROVE  \E f \in [0..count -> Int] : f[0] = 0 /\ \A i \in 1..count : f[i] = f[i - 1] + terms[i]
<1> DEFINE g == [i \in 1..count |-> [x \in Int |-> x + terms[i]]]
<1>1. g \in [1..count -> [Int -> Int]]
  BY SMTT(60)
<1>2. \A i \in 1..count, x \in Int : g[i][x] = x + terms[i]
  OBVIOUS
<1>3. PICK f \in [0..count -> Int] : f[0] = 0 /\ \A i \in 1..count : f[i] = g[i][f[i - 1]]
  <2> DEFINE S == Int
             zero == 0
             N == count
             G == g
  <2>1. zero \in S /\ N \in Nat /\ G \in [1..N -> [S -> S]]
    BY <1>1, SMTT(60)
  <2> HIDE DEF g, G, N, S, zero
  <2>2. \E f \in [0..N -> S] : f[0] = zero /\ \A i \in 1..N : f[i] = G[i][f[i - 1]]
    BY <2>1, RecursionExists, SMTT(60)
  <2> QED
    BY <2>2 DEF G, N, S, zero
<1> HIDE DEF g
<1>4. \A i \in 1..count : i - 1 \in 0..count
  BY SMTT(60)
<1>5. \A i \in 1..count : f[i] = f[i - 1] + terms[i]
  BY <1>2, <1>3, <1>4
<1> QED
  BY <1>3, <1>5

\* When one term changes by d, the sum does.
LEMMA SumOneChanged ==
  ASSUME NEW n \in Nat, NEW a \in [1..n -> Int], NEW j \in 1..n, NEW d \in Int,
         NEW f \in [0..n -> Int], f[0] = 0, \A i \in 1..n : f[i] = f[i - 1] + a[i],
         NEW h \in [0..n -> Int], h[0] = 0,
         \A i \in 1..n : h[i] = h[i - 1] + a[i] + (IF i = j THEN d ELSE 0)
  PROVE  h[n] = f[n] + d
<1> DEFINE T == {i \in 0..n : h[i] = f[i] + (IF i < j THEN 0 ELSE d)}
<1>1. 0 \in T
  BY SMTT(60)
<1>2. \A i \in 1..n : i - 1 \in T => i \in T
  <2> SUFFICES ASSUME NEW i \in 1..n, i - 1 \in T
               PROVE  i \in T
    OBVIOUS
  <2>0. i - 1 \in 0..n /\ i \in 0..n
    BY SMTT(60)
  <2>1. f[i - 1] \in Int /\ a[i] \in Int /\ i - 1 \in 0..n /\ i \in 0..n
    BY <2>0
  <2>2. h[i - 1] = f[i - 1] + (IF i - 1 < j THEN 0 ELSE d)
    OBVIOUS
  <2>3. f[i] = f[i - 1] + a[i] /\ h[i] = h[i - 1] + a[i] + (IF i = j THEN d ELSE 0)
    OBVIOUS
  <2>4. CASE i < j
    BY <2>1, <2>2, <2>3, <2>4, SMTT(60)
  <2>5. CASE i = j
    BY <2>1, <2>2, <2>3, <2>5, SMTT(60)
  <2>6. CASE i > j
    BY <2>1, <2>2, <2>3, <2>6, SMTT(60)
  <2> QED
    BY <2>4, <2>5, <2>6, SMTT(60)
<1> HIDE DEF T
<1>3. \A i \in 0..n : i \in T
  BY <1>1, <1>2, InductionUpTo
<1> QED
  BY <1>3, SMTT(60) DEF T

\* OrderOf numbers the members of a finite set, each once.
LEMMA OrderCounts ==
  ASSUME NEW S, IsFiniteSet(S)
  PROVE  LET n == Cardinality(S)
         IN  /\ n \in Nat
             /\ OrderOf(S) \in [1..n -> S]
             /\ \A t \in S : \E j \in 1..n : OrderOf(S)[j] = t
             /\ \A i, j \in 1..n : OrderOf(S)[i] = OrderOf(S)[j] => i = j
<1>1. Cardinality(S) \in Nat /\ ExistsBijection(1..Cardinality(S), S)
  BY FS_CardinalityType
<1>2. OrderOf(S) \in Bijection(1..Cardinality(S), S)
  BY <1>1 DEF ExistsBijection, OrderOf
<1> QED
  BY <1>1, <1>2 DEF Bijection, Injection, Surjection, IsInjective

\* SumOver adds up the values in that order.
LEMMA SumOverIs ==
  \A S, count : IsFiniteSet(S) /\ (\A t \in S : count[t] \in Int) =>
    \E s \in [0..Cardinality(S) -> Int] :
      /\ s[0] = 0
      /\ \A i \in 1..Cardinality(S) : s[i] = s[i - 1] + count[OrderOf(S)[i]]
      /\ SumOver(S, count) = s[Cardinality(S)]
<1>0. SUFFICES ASSUME NEW S, NEW count, IsFiniteSet(S), \A t \in S : count[t] \in Int
               PROVE  \E s \in [0..Cardinality(S) -> Int] :
                        /\ s[0] = 0
                        /\ \A i \in 1..Cardinality(S) : s[i] = s[i - 1] + count[OrderOf(S)[i]]
                        /\ SumOver(S, count) = s[Cardinality(S)]
  OBVIOUS
<1> DEFINE n == Cardinality(S)
           terms == [i \in 1..n |-> count[OrderOf(S)[i]]]
           Solves(f) == f = [k \in 0..n |-> IF k = 0 THEN 0 ELSE f[k - 1] + count[OrderOf(S)[k]]]
           upto == CHOOSE f : Solves(f)
<1>1. n \in Nat /\ \A i \in 1..n : OrderOf(S)[i] \in S
  BY <1>0, OrderCounts
<1>2. \A i \in 1..n : terms[i] = count[OrderOf(S)[i]]
  OBVIOUS
<1>a. \A i \in 1..n : terms[i] \in Int
  BY <1>0, <1>1
<1>3. PICK s : s \in [0..n -> Int] /\ s[0] = 0 /\ \A i \in 1..n : s[i] = s[i - 1] + terms[i]
  <2> HIDE DEF n, terms
  <2> QED
    <3>1. n \in Nat
      BY <1>1
    <3>2. \E f \in [0..n -> Int] : f[0] = 0 /\ \A i \in 1..n : f[i] = f[i - 1] + terms[i]
      <4> HIDE DEF Solves, upto
      <4> QED
        BY <3>1, <1>a, SumExists
    <3> QED
      BY <3>2
<1>4. \A i \in 1..n : s[i] = s[i - 1] + count[OrderOf(S)[i]]
  BY <1>2, <1>3
<1>5. Solves(s)
  <2>1. s = [k \in 0..n |-> s[k]]
    BY <1>3
  <2>2. \A k \in 0..n : s[k] = IF k = 0 THEN 0 ELSE s[k - 1] + count[OrderOf(S)[k]]
    BY <1>1, <1>3, <1>4, SMTT(60)
  <2> HIDE DEF n
  <2> QED
    BY <2>1, <2>2
<1>6. Solves(upto)
  BY <1>5
<1>7. SumOver(S, count) = upto[n]
  BY DEF SumOver, OrderOf
<1> HIDE DEF upto
<1>8. \A k \in 0..n : upto[k] = s[k]
  <2>1. upto[0] = s[0]
    BY <1>1, <1>3, <1>6, SMTT(60)
  <2>2. \A i \in 1..n : upto[i - 1] = s[i - 1] => upto[i] = s[i]
    BY <1>1, <1>4, <1>6, SMTT(60)
  <2> HIDE DEF n
  <2> QED
    BY <1>1, <2>1, <2>2, RecursionUnique, SMTT(60)
<1> QED
  BY <1>1, <1>3, <1>4, <1>7, <1>8, SMTT(60)

\* What is added to one value is added to the sum.
LEMMA SumOverChanges ==
  \A S, count, new, t :
    /\ IsFiniteSet(S) /\ t \in S
    /\ \A u \in S : count[u] \in Int /\ new[u] \in Int
    /\ \A u \in S : u # t => new[u] = count[u]
    => /\ SumOver(S, count) \in Int
       /\ SumOver(S, new) = SumOver(S, count) + (new[t] - count[t])
<1>0. SUFFICES ASSUME NEW S, NEW count, NEW new, NEW t, IsFiniteSet(S), t \in S,
                      \A u \in S : count[u] \in Int /\ new[u] \in Int,
                      \A u \in S : u # t => new[u] = count[u]
               PROVE  /\ SumOver(S, count) \in Int
                      /\ SumOver(S, new) = SumOver(S, count) + (new[t] - count[t])
  BY SMTT(60)
<1> DEFINE n == Cardinality(S)
           a == [i \in 1..n |-> count[OrderOf(S)[i]]]
           d == new[t] - count[t]
<1>1. n \in Nat /\ \A i \in 1..n : OrderOf(S)[i] \in S
  BY <1>0, OrderCounts
<1>2. PICK j : j \in 1..n /\ OrderOf(S)[j] = t
  BY <1>0, OrderCounts, SMTT(60)
<1>3. \A i \in 1..n : OrderOf(S)[i] = t => i = j
  BY <1>0, <1>2, OrderCounts
<1>4. PICK f : /\ f \in [0..n -> Int] /\ f[0] = 0
               /\ \A i \in 1..n : f[i] = f[i - 1] + count[OrderOf(S)[i]]
               /\ SumOver(S, count) = f[n]
  BY <1>0, SumOverIs
<1>5. PICK h : /\ h \in [0..n -> Int] /\ h[0] = 0
               /\ \A i \in 1..n : h[i] = h[i - 1] + new[OrderOf(S)[i]]
               /\ SumOver(S, new) = h[n]
  BY <1>0, SumOverIs
<1>6. a \in [1..n -> Int] /\ d \in Int /\ \A i \in 1..n : f[i] = f[i - 1] + a[i]
  BY <1>0, <1>1, <1>4, SMTT(60)
<1>7. \A i \in 1..n : h[i] = h[i - 1] + a[i] + (IF i = j THEN d ELSE 0)
  <2> SUFFICES ASSUME NEW i \in 1..n
               PROVE  h[i] = h[i - 1] + a[i] + (IF i = j THEN d ELSE 0)
    OBVIOUS
  <2>1. h[i - 1] \in Int /\ a[i] \in Int /\ a[i] = count[OrderOf(S)[i]] /\ OrderOf(S)[i] \in S
    <3>1. i - 1 \in 0..n /\ OrderOf(S)[i] \in S
      BY <1>1, SMTT(60)
    <3>2. a[i] = count[OrderOf(S)[i]] /\ count[OrderOf(S)[i]] \in Int
      BY <1>0, <3>1
    <3>3. h[i - 1] \in Int
      BY <1>5, <3>1
    <3> QED
      BY <3>1, <3>2, <3>3
  <2>2. CASE i = j
    <3>1. new[OrderOf(S)[i]] = new[t] /\ a[i] = count[t] /\ new[t] \in Int
      BY <1>0, <1>2, <2>1, <2>2
    <3> HIDE DEF a
    <3> QED
      BY <1>5, <2>1, <2>2, <3>1, SMTT(60)
  <2>3. CASE i # j
    <3>1. new[OrderOf(S)[i]] = a[i]
      BY <1>0, <1>3, <2>1, <2>3
    <3> HIDE DEF a
    <3> QED
      BY <1>5, <2>1, <2>3, <3>1, SMTT(60)
  <2> QED
    BY <2>2, <2>3
<1>8. h[n] = f[n] + d
  <2> HIDE DEF n, a, d
  <2> QED
    BY <1>1, <1>2, <1>4, <1>5, <1>6, <1>7, SumOneChanged
<1> QED
  BY <1>1, <1>4, <1>5, <1>8, SMTT(60)

\* Values elsewhere do not count.
LEMMA SumOverSame ==
  \A S, count, new :
    IsFiniteSet(S) /\ (\A u \in S : count[u] \in Int /\ new[u] = count[u])
    => SumOver(S, count) \in Int /\ SumOver(S, new) = SumOver(S, count)
<1>0. SUFFICES ASSUME NEW S, NEW count, NEW new, IsFiniteSet(S),
                      \A u \in S : count[u] \in Int /\ new[u] = count[u]
               PROVE  SumOver(S, count) \in Int /\ SumOver(S, new) = SumOver(S, count)
  OBVIOUS
<1> DEFINE n == Cardinality(S)
<1>1. n \in Nat /\ \A i \in 1..n : OrderOf(S)[i] \in S
  BY <1>0, OrderCounts
<1>2. PICK f : /\ f \in [0..n -> Int] /\ f[0] = 0
               /\ \A i \in 1..n : f[i] = f[i - 1] + count[OrderOf(S)[i]]
               /\ SumOver(S, count) = f[n]
  BY <1>0, SumOverIs
<1>3. PICK h : /\ h \in [0..n -> Int] /\ h[0] = 0
               /\ \A i \in 1..n : h[i] = h[i - 1] + new[OrderOf(S)[i]]
               /\ SumOver(S, new) = h[n]
  BY <1>0, SumOverIs
<1>4. \A i \in 1..n : f[i - 1] = h[i - 1] => f[i] = h[i]
  BY <1>0, <1>1, <1>2, <1>3
<1>5. f[0] = h[0]
  BY <1>2, <1>3
<1>6. \A i \in 0..n : f[i] = h[i]
  <2> HIDE DEF n
  <2> QED
    BY <1>1, <1>4, <1>5, RecursionUnique, SMTT(60)
<1> QED
  BY <1>1, <1>2, <1>3, <1>6, SMTT(60)

\* A sum of zeros is zero.
LEMMA SumOverZero ==
  \A S, count : IsFiniteSet(S) /\ (\A t \in S : count[t] = 0) => SumOver(S, count) = 0
<1>0. SUFFICES ASSUME NEW S, NEW count, IsFiniteSet(S), \A t \in S : count[t] = 0
               PROVE  SumOver(S, count) = 0
  OBVIOUS
<1> DEFINE n == Cardinality(S)
<1>1. PICK s : /\ s \in [0..n -> Int] /\ s[0] = 0
               /\ \A i \in 1..n : s[i] = s[i - 1] + count[OrderOf(S)[i]]
               /\ SumOver(S, count) = s[n]
  <2>1. \A u \in S : count[u] \in Int
    BY <1>0, SMTT(60)
  <2> QED
    BY <1>0, <2>1, SumOverIs
<1> DEFINE T == {i \in 0..n : s[i] = 0}
<1>2. n \in Nat /\ \A i \in 1..n : OrderOf(S)[i] \in S
  BY <1>0, OrderCounts
<1>3. 0 \in T /\ \A i \in 1..n : i - 1 \in T => i \in T
  BY <1>0, <1>1, <1>2, SMTT(60)
<1>4. n \in T
  <2> HIDE DEF n, T
  <2>1. \A i \in 0..n : i \in T
    BY <1>2, <1>3, InductionUpTo
  <2> QED
    BY <1>2, <2>1, SMTT(60)
<1> QED
  BY <1>1, <1>4

\* Following next from any place of the ring reaches every place of it
\* within one lap.
LEMMA LapReachesAll ==
  ASSUME NEW S, NEW r \in Seq(S),
         NEW i \in DOMAIN r, NEW j \in DOMAIN r
  PROVE  \E k \in 1..Len(r) : Ahead(r, i, k) = r[j]
<1> DEFINE n == Len(r)
           k == IF j > i THEN j - i ELSE j - i + n
<1>1. n \in Nat /\ i \in 1..n /\ j \in 1..n
  BY LenIs
<1>2. k \in 1..n
  BY <1>1, SMTT(60)
<1>3. (i + k - 1) % n = j - 1
  <2>1. CASE j > i
    <3>1. i + k - 1 = j - 1
      BY <1>1, <2>1, SMTT(60)
    <3>2. (j - 1) % n = j - 1
      BY <1>1, SMTT(60)
    <3> QED
      BY <3>1, <3>2
  <2>2. CASE ~(j > i)
    <3>1. i + k - 1 = (j - 1) + n
      BY <1>1, <2>2, SMTT(60)
    <3>2. ((j - 1) + n) % n = j - 1
      BY <1>1, SMTT(60)
    <3> QED
      BY <3>1, <3>2
  <2> QED
    BY <2>1, <2>2
<1>4. Ahead(r, i, k) = r[j]
  <2>1. (j - 1) + 1 = j
    BY <1>1, SMTT(60)
  <2> QED
    BY <1>3, <2>1 DEF Ahead
<1> HIDE DEF k
<1> QED
  BY <1>2, <1>4

\* sched_pick_next returns a ready task of the ring if there is one, and
\* none only if there is not: the loop misses nobody, whatever the cursor.
THEOREM PickNextCorrect ==
  ASSUME NEW S, NEW r \in Seq(S), NEW from, NEW ready, NEW none
  PROVE  LET t == FirstReady(r, from, ready, none)
         IN  \/ t \in ready \cap Range(r)
             \/ t = none /\ ready \cap Range(r) = {}
<1> DEFINE i == StartAt(r, from)
           hit(k) == Ahead(r, i, k) \in ready
           H == {k \in 1..Len(r) : hit(k)}
<1>1. Len(r) \in Nat /\ DOMAIN r = 1..Len(r)
  BY LenIs
<1>2. ASSUME NEW k \in 1..Len(r)
      PROVE  Ahead(r, i, k) \in Range(r)
  <2>1. i \in DOMAIN r
    BY <1>1, SMTT(60) DEF StartAt, Range
  <2>2. (i + k - 1) % Len(r) \in 0..(Len(r) - 1)
    BY <1>1, <2>1, SMTT(60)
  <2> QED
    BY <1>1, <2>2, SMTT(60) DEF Ahead, Range
<1>3. CASE H # {}
  <2>1. PICK m \in H : \A k \in H : m <= k
    <3>1. H \in SUBSET Nat
      BY <1>1, SMTT(60)
    <3> HIDE DEF H
    <3> QED
      BY <1>3, <3>1, LeastNat
  <2>2. m \in 1..Len(r) /\ hit(m) /\ \A j \in 1..(m - 1) : ~hit(j)
    BY <2>1, <1>1, SMTT(60)
  <2>3. \E k \in 1..Len(r) : hit(k) /\ \A j \in 1..(k - 1) : ~hit(j)
    BY <2>2
  <2> DEFINE c == CHOOSE k \in 1..Len(r) : hit(k) /\ \A j \in 1..(k - 1) : ~hit(j)
  <2>4. c \in 1..Len(r) /\ hit(c)
    BY <2>3
  <2>5. FirstReady(r, from, ready, none) = Ahead(r, i, c)
    BY <1>3 DEF FirstReady
  <2> QED
    BY <1>2, <2>4, <2>5
<1>4. CASE H = {}
  <2>1. FirstReady(r, from, ready, none) = none
    BY <1>4 DEF FirstReady
  <2>2. ASSUME NEW j \in DOMAIN r, r[j] \in ready
        PROVE  FALSE
    <3>1. i \in DOMAIN r
      BY <1>1, SMTT(60) DEF StartAt, Range
    <3>2. PICK k \in 1..Len(r) : Ahead(r, i, k) = r[j]
      BY <3>1, LapReachesAll
    <3> QED
      BY <1>4, <2>2, <3>2
  <2> QED
    BY <2>1, <2>2 DEF Range
<1> QED
  BY <1>3, <1>4

\* sched_add_task keeps every queued task in the ring and adds the new one.
THEOREM AddKeepsQueued ==
  ASSUME NEW S, NEW r \in Seq(S), NEW t \in S
  PROVE  LET new == AddAfterHead(r, t)
         IN  /\ new \in Seq(S)
             /\ Range(new) = Range(r) \cup {t}
<1> DEFINE new == AddAfterHead(r, t)
<1>1. CASE r = <<>>
  BY <1>1, SMTT(60) DEF AddAfterHead, Range
<1>2. CASE r # <<>>
  <2>1. /\ Head(r) = r[1] /\ Tail(r) \in Seq(S) /\ Head(r) \in S
        /\ Len(r) \in Nat /\ Len(r) >= 1 /\ DOMAIN r = 1..Len(r)
        /\ Len(Tail(r)) = Len(r) - 1
        /\ \A j \in 1..(Len(r) - 1) : Tail(r)[j] = r[j + 1]
    BY <1>2, HeadTailIs, LenIs, EmptyIs, SMTT(60)
  <2>2. new = <<Head(r), t>> \o Tail(r)
    BY <1>2 DEF AddAfterHead
  <2>3. /\ new \in Seq(S) /\ Len(new) = Len(r) + 1
        /\ DOMAIN new = 1..(Len(r) + 1)
        /\ new[1] = r[1] /\ new[2] = t
        /\ \A j \in 3..(Len(r) + 1) : new[j] = r[j - 1]
    BY <2>1, <2>2, SMTT(60)
  <2>4. ASSUME NEW i \in DOMAIN new
        PROVE  new[i] \in {r[j] : j \in DOMAIN r} \cup {t}
    <3>1. i = 1 \/ i = 2 \/ (i \in 3..(Len(r) + 1) /\ i - 1 \in DOMAIN r)
      BY <2>1, <2>3, SMTT(60)
    <3> QED
      BY <2>1, <2>3, <3>1, SMTT(60)
  <2>5. ASSUME NEW j \in DOMAIN r
        PROVE  \E i \in DOMAIN new : new[i] = r[j]
    <3>1. CASE j = 1
      BY <2>1, <2>3, <3>1, SMTT(60)
    <3>2. CASE j # 1
      <4>1. j + 1 \in 3..(Len(r) + 1) /\ (j + 1) - 1 = j
        BY <2>1, <3>2, SMTT(60)
      <4>2. new[j + 1] = r[j] /\ j + 1 \in DOMAIN new
        BY <2>3, <4>1, SMTT(60)
      <4> HIDE DEF new
      <4> QED
        BY <4>2
    <3> QED
      BY <3>1, <3>2
  <2>6. \E i \in DOMAIN new : new[i] = t
    BY <2>1, <2>3, SMTT(60)
  <2> QED
    BY <2>3, <2>4, <2>5, <2>6, SMTT(60) DEF Range
<1> QED
  BY <1>1, <1>2

(***************************************************************************)
(* The inductive invariant holds at first, and every step of main and of the*)
(* scheduler thread keeps it.                                               *)
(***************************************************************************)

\* sched_pick_next returns a READY task of the run queue, or NULL when there
\* is none.
LEMMA PickNext ==
  ASSUME TypeOK
  PROVE  \/ sched_pick_next \in Ready /\ sched_pick_next \in Tasks
         \/ sched_pick_next = NULL /\ Ready = {}
<1>1. ring \in Seq(Tasks)
  BY DEF TypeOK
<1>2. Ready \cap Queued = Ready
  BY DEF Ready
<1>3. Queued \subseteq Tasks
  BY <1>1, SMTT(60) DEF Queued, Range
<1>4. \/ sched_pick_next \in Ready \cap Queued
      \/ sched_pick_next = NULL /\ Ready \cap Queued = {}
  BY <1>1, PickNextCorrect DEF sched_pick_next, Queued
<1> QED
  BY <1>2, <1>3, <1>4 DEF Ready

\* sched_add_task loses no queued task.
LEMMA AddTask ==
  ASSUME TypeOK, NEW t \in Tasks, sched_add_task(t)
  PROVE  ring' \in Seq(Tasks) /\ Queued' = Queued \cup {t}
<1>1. ring \in Seq(Tasks)
  BY DEF TypeOK
<1>2. ring' = AddAfterHead(ring, t)
  BY DEF sched_add_task
<1> QED
  BY <1>1, <1>2, AddKeepsQueued DEF Queued

\* A switch count stays below its width.
LEMMA CountWraps ==
  ASSUME NEW n \in 0..(CountMod - 1)
  PROVE  (n + 1) % CountMod \in 0..(CountMod - 1)
BY SchedAssumption, SMTT(60)

\* The invariant holds when main starts.
LEMMA InitInv == Init => IInv
<1> SUFFICES ASSUME Init PROVE IInv
  OBVIOUS
<1> USE SchedAssumption DEF Init, SchedInit
<1>1. TypeOK
  <2>1. ring \in Seq(Tasks) /\ rx \in 0..RxDepth /\ switch_count \in [Contexts -> 0..(CountMod - 1)]
    BY KernelAssumption, SMTT(60)
  <2>2. ld \in LdiscType
    BY SMTT(60) DEF ldisc_init, LdiscType
  <2> QED
    BY <2>1, <2>2 DEF TypeOK, Contexts, TaskStates, Frames, TaskPc, BootPc, TrapPc
<1>2. CpuInv
  BY DEF CpuInv, Contexts, Parked, OpenPc
<1>3. LockInv /\ StateInv /\ WakeInv
  BY DEF LockInv, StateInv, WakeInv, Contexts, ldisc_ready, ldisc_init
<1>4. LeavesByOwnFrame /\ IdlesOnlyWhenNothingReady
  BY DEF LeavesByOwnFrame, IdlesOnlyWhenNothingReady, Contexts, At
<1> QED
  BY <1>1, <1>2, <1>3, <1>4 DEF IInv

\* main queues a task.
LEMMA BootAddInv ==
  ASSUME IInv, NEW t \in Tasks, BootAdd(t)
  PROVE  IInv'
<1> USE SchedAssumption DEF IInv, TypeOK, CpuInv, Contexts, Parked, OpenPc, TaskPc, BootPc, TrapPc,
         BootAdd, cpuVars, conVars, At
<1>0. ring' \in Seq(Tasks) /\ Queued' = Queued \cup {t}
  BY AddTask
<1>1. TypeOK'
  BY <1>0 DEF sched_add_task
<1>2. CpuInv' /\ LockInv'
  BY DEF LockInv, sched_add_task
<1>3. StateInv' /\ WakeInv'
  BY <1>0 DEF StateInv, WakeInv, ldisc_ready, sched_add_task
<1>4. LeavesByOwnFrame'
  BY DEF LeavesByOwnFrame, FrameOf, sched_add_task
<1>5. IdlesOnlyWhenNothingReady'
  BY DEF IdlesOnlyWhenNothingReady
<1> HIDE DEF TypeOK, CpuInv
<1> QED
  BY <1>1, <1>2, <1>3, <1>4, <1>5

\* main enters scheduler().
LEMMA BootDoneInv ==
  ASSUME IInv, BootDone
  PROVE  IInv'
<1> USE SchedAssumption DEF IInv, TypeOK, CpuInv, Contexts, Parked, OpenPc, TaskPc, BootPc, TrapPc,
         BootDone, schedVars, conVars, At, Goto
<1>1. TypeOK'
  BY ZenonT(60) DEF TaskStates
<1>2. CpuInv' /\ LockInv'
  BY DEF LockInv
<1>3. StateInv' /\ WakeInv'
  BY DEF StateInv, WakeInv, Queued, TaskStates, ldisc_ready
<1>4. LeavesByOwnFrame'
  BY DEF LeavesByOwnFrame, FrameOf
<1>5. IdlesOnlyWhenNothingReady'
  BY DEF IdlesOnlyWhenNothingReady, At, Ready, sched_any_alive, Queued
<1> HIDE DEF TypeOK, CpuInv
<1> QED
  BY <1>1, <1>2, <1>3, <1>4, <1>5

\* The scheduler dispatches the task it picked, which was READY and parked.
LEMMA SchedulerDispatchInv ==
  ASSUME IInv, SchedulerDispatch
  PROVE  IInv'
<1> USE SchedAssumption DEF IInv, TypeOK, CpuInv, Contexts, Parked, OpenPc, TaskPc, BootPc, TrapPc,
         SchedulerDispatch, conVars, At
<1> DEFINE next == sched_pick_next
<1>0. next \in Tasks /\ next \in Queued /\ state[next] = "READY" /\ Dispatch /\ on_cpu' = next
  BY PickNext DEF Ready, Dispatch
<1> HIDE DEF next
<1>d. /\ cursor' = next /\ current' = next /\ loaded' = next
      /\ state' = [state EXCEPT ![next] = "RUNNING"]
      /\ switch_count' = [switch_count EXCEPT ![next] = (@ + 1) % CountMod]
      /\ UNCHANGED <<ring, need_resched, chan, trap_frame>>
  BY <1>0 DEF Dispatch, next
<1>1. TypeOK'
  <2>1. switch_count' \in [Contexts -> 0..(CountMod - 1)]
    BY <1>0, <1>d, CountWraps
  <2>2. state' \in [Tasks -> TaskStates]
    BY <1>0, <1>d DEF TaskStates
  <2> QED
    BY <1>0, <1>d, <2>1, <2>2
<1>2. CpuInv' /\ LockInv'
  BY <1>0, <1>d DEF LockInv, StateInv
<1>3. StateInv'
  <2>1. /\ on_cpu \notin Tasks /\ state \in [Tasks -> TaskStates] /\ StateInv
        /\ UNCHANGED <<pc, trap>>
    BY <1>0, <1>d
  <2> HIDE DEF IInv, TypeOK, CpuInv, Contexts, Parked, OpenPc, TaskPc, BootPc, TrapPc,
           SchedulerDispatch, conVars, At
  <2> QED
    BY <1>0, <1>d, <2>1, SMTT(60) DEF StateInv, Queued
<1>4. WakeInv'
  BY <1>0, <1>d DEF WakeInv, ldisc_ready
<1>5. LeavesByOwnFrame'
  BY <1>0, <1>d DEF LeavesByOwnFrame, FrameOf
<1>6. IdlesOnlyWhenNothingReady'
  BY <1>0, <1>d DEF IdlesOnlyWhenNothingReady
<1> HIDE DEF TypeOK, CpuInv
<1> QED
  BY <1>1, <1>2, <1>3, <1>4, <1>5, <1>6

\* The scheduler thread runs again.
LEMMA SchedulerTakeBackInv ==
  ASSUME IInv, SchedulerTakeBack
  PROVE  IInv'
<1> USE SchedAssumption DEF IInv, TypeOK, CpuInv, Contexts, Parked, OpenPc, TaskPc, BootPc, TrapPc,
         SchedulerTakeBack, conVars, At, Goto
<1>1. TypeOK'
  <2>1. switch_count' \in [Contexts -> 0..(CountMod - 1)]
    BY CountWraps DEF TakeBack
  <2> QED
    BY <2>1 DEF TakeBack
<1>2. CpuInv' /\ LockInv'
  BY DEF LockInv, TakeBack
<1>3. StateInv' /\ WakeInv'
  BY DEF StateInv, WakeInv, Queued, TaskStates, ldisc_ready, TakeBack
<1>4. LeavesByOwnFrame'
  BY DEF LeavesByOwnFrame, FrameOf, TakeBack
<1>5. IdlesOnlyWhenNothingReady'
  BY DEF IdlesOnlyWhenNothingReady, TakeBack
<1> HIDE DEF TypeOK, CpuInv
<1> QED
  BY <1>1, <1>2, <1>3, <1>4, <1>5

\* The scheduler found nothing READY.
LEMMA SchedulerIdleInv ==
  ASSUME IInv, SchedulerIdle
  PROVE  IInv'
<1> USE SchedAssumption DEF IInv, TypeOK, CpuInv, Contexts, Parked, OpenPc, TaskPc, BootPc, TrapPc,
         SchedulerIdle, schedVars, conVars, At, Goto
<1>1. TypeOK'
  BY DEF TaskStates
<1>2. CpuInv' /\ LockInv'
  BY DEF LockInv
<1>3. StateInv' /\ WakeInv'
  BY DEF StateInv, WakeInv, Queued, TaskStates, ldisc_ready
<1>4. LeavesByOwnFrame'
  BY DEF LeavesByOwnFrame, FrameOf
<1>5. IdlesOnlyWhenNothingReady'
  BY PickNext DEF IdlesOnlyWhenNothingReady, At, Ready, sched_any_alive, Queued
<1> HIDE DEF TypeOK, CpuInv
<1> QED
  BY <1>1, <1>2, <1>3, <1>4, <1>5

\* The scheduler leaves arch_idle.
LEMMA SchedulerWakeInv ==
  ASSUME IInv, SchedulerWake
  PROVE  IInv'
<1> USE SchedAssumption DEF IInv, TypeOK, CpuInv, Contexts, Parked, OpenPc, TaskPc, BootPc, TrapPc,
         SchedulerWake, schedVars, conVars, At, Goto
<1>1. TypeOK'
  BY ZenonT(60) DEF TaskStates
<1>2. CpuInv' /\ LockInv'
  BY DEF LockInv
<1>3. StateInv' /\ WakeInv'
  BY DEF StateInv, WakeInv, Queued, TaskStates, ldisc_ready
<1>4. LeavesByOwnFrame'
  BY DEF LeavesByOwnFrame, FrameOf
<1>5. IdlesOnlyWhenNothingReady'
  BY DEF IdlesOnlyWhenNothingReady, At, Ready, sched_any_alive, Queued
<1> HIDE DEF TypeOK, CpuInv
<1> QED
  BY <1>1, <1>2, <1>3, <1>4, <1>5

\* The scheduler found nothing alive.
LEMMA SchedulerShutdownInv ==
  ASSUME IInv, SchedulerShutdown
  PROVE  IInv'
<1> USE SchedAssumption DEF IInv, TypeOK, CpuInv, Contexts, Parked, OpenPc, TaskPc, BootPc, TrapPc,
         SchedulerShutdown, schedVars, conVars, At, Goto
<1>1. TypeOK'
  BY DEF TaskStates
<1>2. CpuInv' /\ LockInv'
  BY DEF LockInv
<1>3. StateInv' /\ WakeInv'
  BY DEF StateInv, WakeInv, Queued, TaskStates, ldisc_ready
<1>4. LeavesByOwnFrame'
  BY DEF LeavesByOwnFrame, FrameOf
<1>5. IdlesOnlyWhenNothingReady'
  BY DEF IdlesOnlyWhenNothingReady, At, Ready, sched_any_alive, Queued
<1> HIDE DEF TypeOK, CpuInv
<1> QED
  BY <1>1, <1>2, <1>3, <1>4, <1>5

\* The machine stays off.
LEMMA HaltedInv ==
  ASSUME IInv, Halted
  PROVE  IInv'
<1> USE SchedAssumption DEF IInv, TypeOK, CpuInv, Contexts, Parked, OpenPc, TaskPc, BootPc, TrapPc,
         Halted, vars, schedVars, cpuVars, conVars, At
<1>1. TypeOK'
  BY DEF TaskStates
<1>2. CpuInv' /\ LockInv'
  BY DEF LockInv
<1>3. StateInv' /\ WakeInv'
  BY DEF StateInv, WakeInv, Queued, TaskStates, ldisc_ready
<1>4. LeavesByOwnFrame'
  BY DEF LeavesByOwnFrame, FrameOf
<1>5. IdlesOnlyWhenNothingReady'
  BY DEF IdlesOnlyWhenNothingReady, At, Ready, sched_any_alive, Queued
<1> HIDE DEF TypeOK, CpuInv
<1> QED
  BY <1>1, <1>2, <1>3, <1>4, <1>5

(***************************************************************************)
(* The theorems.                                                            *)
(***************************************************************************)

\* The invariant is inductive: every step of the kernel keeps it.
LEMMA NextInv ==
  ASSUME IInv, [Next]_vars
  PROVE  IInv'
<1>1. CASE UNCHANGED vars
  <2> USE <1>1 DEF IInv, vars, schedVars, cpuVars, conVars
  <2>1. TypeOK'
    BY DEF TypeOK
  <2>2. CpuInv' /\ LockInv'
    BY DEF CpuInv, Parked, LockInv
  <2>3. StateInv' /\ WakeInv'
    BY DEF StateInv, WakeInv, Queued, ldisc_ready
  <2>4. LeavesByOwnFrame' /\ IdlesOnlyWhenNothingReady'
    BY DEF LeavesByOwnFrame, FrameOf, IdlesOnlyWhenNothingReady, At, Ready, sched_any_alive, Queued
  <2> QED
    BY <2>1, <2>2, <2>3, <2>4
<1>2. CASE ByteArrives \/ TimerIrq \/ SerialIrq \/ OtherIrq
  BY <1>2, ByteArrivesInv, TimerIrqInv, SerialIrqInv, OtherIrqInv
<1>3. CASE HandlerStep
  BY <1>3, SerialByteInv, FeedUnlockInv, FeedWakeupInv, SerialDoneInv, IrqExitInv DEF HandlerStep
<1>4. ASSUME NEW t \in Tasks, BootAdd(t) \/ Syscall(t)
      PROVE  IInv'
  BY <1>4, BootAddInv, SyscallInv
<1>5. ASSUME NEW t \in Tasks, MaskedStep(t)
      PROVE  IInv'
  BY <1>5, ResumeTrapExitInv, SyscallExitInv, ReadLockInv, ReadDrainInv,
     ReadSleepInv, SleepSwitchInv, SleepResumeInv, ReadUnlockInv DEF MaskedStep
<1>6. ASSUME NEW t \in Tasks, OpenStep(t)
      PROVE  IInv'
  BY <1>6, SyscallDispatchInv, SysExitTailInv, SyscallMaskInv, ReadMaskInv DEF OpenStep
<1>7. CASE SchedulerStep
  BY <1>7, BootDoneInv, SchedulerDispatchInv, SchedulerTakeBackInv,
     SchedulerIdleInv, SchedulerWakeInv, SchedulerShutdownInv DEF SchedulerStep
<1>8. CASE Halted
  BY <1>8, HaltedInv
<1> QED
  BY <1>1, <1>2, <1>3, <1>4, <1>5, <1>6, <1>7, <1>8 DEF Next

\* The invariant holds in every reachable state.
LEMMA Invariant == Spec => []IInv
BY InitInv, NextInv, PTL DEF Spec

\* Every variable keeps its kind, for any number of tasks and any sizes.
THEOREM TypeCorrect == Spec => []TypeOK
<1>1. IInv => TypeOK
  BY DEF IInv
<1> QED
  BY <1>1, Invariant, PTL

\* Nobody ever waits for the console's lock: console_dev_feed and
\* console_dev_ops_read find it free whenever they ask for it.
THEOREM LockNeverSpins == Spec => []NeverSpins
<1>1. IInv => NeverSpins
  BY DEF IInv, LockInv, NeverSpins, InTrap, At
<1> QED
  BY <1>1, Invariant, PTL

\* sleep() and wakeup() lose no wakeup: outside the feed that finished it, a
\* finished line leaves no reader asleep.
THEOREM WakeupNotLost == Spec => []NoLostWakeup
<1>1. IInv => NoLostWakeup
  BY DEF IInv, TypeOK, WakeInv, NoLostWakeup
<1> QED
  BY <1>1, Invariant, PTL

\* The processor runs the task scheduler() dispatched, on its own stack and
\* in its own address space.
THEOREM CurrentRuns == Spec => []RunsCurrent
<1>1. IInv => RunsCurrent
  <2> SUFFICES ASSUME IInv PROVE RunsCurrent
    OBVIOUS
  <2> USE SchedAssumption DEF IInv, TypeOK, Contexts
  <2>1. \A t \in Tasks : state[t] = "RUNNING" => current = t /\ on_cpu = t
    BY DEF CpuInv, StateInv
  <2>2. current # NULL => on_cpu = current \/ At(BOOT, "returned")
    BY DEF CpuInv, At
  <2>3. ASSUME on_cpu # BOOT
        PROVE  /\ current = on_cpu /\ loaded = on_cpu
               /\ \/ state[on_cpu] = "RUNNING"
                  \/ state[on_cpu] = "BLOCKED" /\ pc[on_cpu] = "sleeping"
                  \/ state[on_cpu] = "DEAD" /\ pc[on_cpu] \in {"exiting", "done", "exit"}
    BY <2>3 DEF CpuInv, StateInv, TaskStates
  <2> QED
    BY <2>1, <2>2, <2>3 DEF RunsCurrent
<1> QED
  BY <1>1, Invariant, PTL

\* A task leaves a trap through its own frame, whatever was nested in it.
THEOREM OwnFrame == Spec => []LeavesByOwnFrame
<1>1. IInv => LeavesByOwnFrame
  BY DEF IInv
<1> QED
  BY <1>1, Invariant, PTL

\* The kpanic() checks of sched.c on frames, masking and dispatch never fire.
THEOREM NeverPanics == Spec => []NoPanic
<1>1. IInv => NoPanic
  BY SchedAssumption DEF IInv, TypeOK, CpuInv, OpenPc, NoPanic, InTrap, At, Contexts
<1> QED
  BY <1>1, Invariant, PTL

\* scheduler() idles only with nothing to run, and powers off only when all
\* tasks are DEAD.
THEOREM IdleIsRight == Spec => []IdlesOnlyWhenNothingReady
<1>1. IInv => IdlesOnlyWhenNothingReady
  BY DEF IInv
<1> QED
  BY <1>1, Invariant, PTL

\* Nor does the scheduler pick a DEAD task.
LEMMA DeadStep ==
  ASSUME IInv, [Next]_vars, NEW t \in Tasks
  PROVE  DeadStays(t)
<1>1. ASSUME SchedulerStep, state[t] = "DEAD"
      PROVE  state'[t] = "DEAD" /\ pc'[t] # "user" /\ (on_cpu # t => on_cpu' # t)
  <2> USE <1>1, SchedAssumption DEF IInv, TypeOK, Contexts
  <2>0. pc[t] \in {"exiting", "done", "exit", "off"} /\ t # BOOT
    BY DEF StateInv
  <2>1. CASE SchedulerDispatch
    <3>1. sched_pick_next \in Tasks /\ sched_pick_next # t
      BY <2>1, PickNext DEF SchedulerDispatch, Dispatch, Ready
    <3> QED
      BY <2>0, <2>1, <3>1 DEF SchedulerDispatch, Dispatch
  <2>2. CASE BootDone \/ SchedulerTakeBack \/ SchedulerIdle \/ SchedulerWake \/ SchedulerShutdown
    BY <2>0, <2>2 DEF BootDone, SchedulerTakeBack, TakeBack, SchedulerIdle, SchedulerWake,
       SchedulerShutdown, schedVars, Goto
  <2> QED
    BY <1>1, <2>1, <2>2 DEF SchedulerStep
<1> QED
  BY <1>1, DeadTaskStep DEF DeadStays, Next

\* exit is final, whatever interrupts it.
THEOREM ExitIsFinal == Spec => DeadNeverRunsAgain
<1>1. IInv /\ [Next]_vars => [\A t \in Tasks : DeadStays(t)]_vars
  BY DeadStep
<1>2. IInv /\ [Next]_vars =>
        [\A t \in Tasks : state[t] = "DEAD" => /\ state'[t] = "DEAD"
                                               /\ pc'[t] # "user"
                                               /\ on_cpu # t => on_cpu' # t]_vars
  BY <1>1 DEF DeadStays
<1> QED
  BY <1>2, Invariant, PTL DEF Spec, DeadNeverRunsAgain

(***************************************************************************)
(* The switch counts.                                                       *)
(***************************************************************************)

\* Multiples of the count's width.
LEMMA WidthApart ==
  ASSUME NEW x \in Int, x % CountMod = 0
  PROVE  (x - CountMod) % CountMod = 0 /\ (x + CountMod) % CountMod = 0
<1> DEFINE q == x \div CountMod
<1>0. CountMod \in Nat /\ CountMod > 0 /\ q \in Int
  BY SchedAssumption, SMTT(60)
<1>1. x = CountMod * q
  BY <1>0, SMTT(60)
<1>2. \A k \in Int : (CountMod * k) % CountMod = 0
  BY <1>0, SMTT(60)
<1> HIDE DEF q
<1>3. x - CountMod = CountMod * (q - 1) /\ x + CountMod = CountMod * (q + 1)
  BY <1>0, <1>1, SMTT(60)
<1> QED
  BY <1>0, <1>2, <1>3, SMTT(60)

\* Only a dispatch and its return change a count or who is dispatched.
LEMMA CountsOtherwiseKept ==
  ASSUME IInv, [Next]_vars, ~SchedulerDispatch, ~SchedulerTakeBack
  PROVE  UNCHANGED <<current, switch_count>>
<1>1. CASE UNCHANGED vars
  BY <1>1 DEF vars, schedVars
<1>2. CASE ByteArrives \/ TimerIrq \/ SerialIrq \/ OtherIrq \/ Halted
  BY <1>2 DEF ByteArrives, TimerIrq, sched_on_timer_tick, SerialIrq, OtherIrq, Halted,
     Interrupt, vars, schedVars
<1>3. ASSUME NEW c \in Contexts, SerialByte(c) \/ FeedUnlock(c) \/ FeedWakeup(c) \/ SerialDone(c)
      PROVE  UNCHANGED <<current, switch_count>>
  BY <1>3 DEF SerialByte, FeedUnlock, FeedWakeup, wakeup, SerialDone, schedVars
<1>4. ASSUME NEW c \in Contexts, IrqExit(c)
      PROVE  UNCHANGED <<current, switch_count>>
  BY <1>4 DEF IrqExit, TrapExitStay, TrapExitSwitch, schedVars
<1>5. ASSUME NEW t \in Tasks, BootAdd(t) \/ Syscall(t)
      PROVE  UNCHANGED <<current, switch_count>>
  BY <1>5 DEF BootAdd, sched_add_task, Syscall, schedVars
<1>6. ASSUME NEW t \in Tasks, OpenStep(t)
      PROVE  UNCHANGED <<current, switch_count>>
  BY <1>6 DEF OpenStep, SyscallDispatch, ExitFlagDead, SysExitTail, ExitAskResched, SyscallMask,
     ReadMask, schedVars
<1>7. ASSUME NEW t \in Tasks, ResumeTrapExit(t) \/ SyscallExit(t)
      PROVE  UNCHANGED <<current, switch_count>>
  BY <1>7 DEF ResumeTrapExit, SyscallExit, TrapExitStay, TrapExitSwitch, schedVars
<1>8. ASSUME NEW t \in Tasks, ReadLock(t) \/ ReadDrain(t) \/ ReadSleep(t) \/ SleepSwitch(t)
                                \/ SleepResume(t) \/ ReadUnlock(t)
      PROVE  UNCHANGED <<current, switch_count>>
  BY <1>8 DEF ReadLock, ReadDrain, ReadSleep, SleepOn, SleepSwitch, SleepResume, SleepOver,
     ReadUnlock, schedVars
<1>9. CASE BootDone \/ SchedulerIdle \/ SchedulerWake \/ SchedulerShutdown
  BY <1>9 DEF BootDone, SchedulerIdle, SchedulerWake, SchedulerShutdown, schedVars
<1> QED
  BY <1>1, <1>2, <1>3, <1>4, <1>5, <1>6, <1>7, <1>8, <1>9
     DEF Next, HandlerStep, MaskedStep, SchedulerStep

\* A dispatch is owed until it is paid back by the return, and both wrap.
LEMMA BalanceStep ==
  ASSUME IInv, [Next]_vars, SwitchCountsBalance
  PROVE  SwitchCountsBalance'
<1> DEFINE x == SumOver(Tasks, switch_count) - (IF current = NULL THEN 0 ELSE 1) - switch_count[BOOT]
<1>0. /\ switch_count \in [Contexts -> 0..(CountMod - 1)] /\ switch_count \in [Contexts -> Int]
      /\ BOOT \in Contexts /\ BOOT \notin Tasks /\ NULL \notin Tasks /\ CountMod \in Nat \ {0}
      /\ x % CountMod = 0
  BY SchedAssumption, SMTT(60) DEF IInv, TypeOK, SwitchCountsBalance, Contexts
<1>1. CASE SchedulerDispatch
  <2> DEFINE next == sched_pick_next
             c == switch_count[next]
             v == (c + 1) % CountMod
  <2>1. /\ next \in Tasks /\ current = NULL /\ current' = next
        /\ switch_count' = [switch_count EXCEPT ![next] = v]
    BY <1>1, PickNext DEF SchedulerDispatch, Dispatch, IInv, CpuInv, At
  <2>2. c \in 0..(CountMod - 1) /\ v = (IF c + 1 = CountMod THEN 0 ELSE c + 1) /\ v \in Int
    BY <1>0, <2>1, SMTT(60) DEF Contexts
  <2> HIDE DEF next, c, v
  <2>3. /\ SumOver(Tasks, switch_count) \in Int
        /\ SumOver(Tasks, switch_count') = SumOver(Tasks, switch_count) + (v - switch_count[next])
    <3>1. \A u \in Tasks : switch_count[u] \in Int /\ switch_count'[u] \in Int
      BY <1>0, <2>1, <2>2 DEF Contexts
    <3>2. \A u \in Tasks : u # next => switch_count'[u] = switch_count[u]
      BY <1>0, <2>1 DEF Contexts
    <3>3. switch_count'[next] = v
      BY <1>0, <2>1 DEF Contexts
    <3>4. /\ SumOver(Tasks, switch_count) \in Int
          /\ SumOver(Tasks, switch_count') = SumOver(Tasks, switch_count)
                                              + (switch_count'[next] - switch_count[next])
      <4>1. IsFiniteSet(Tasks) /\ next \in Tasks
        BY <2>1, SchedAssumption
      <4> QED
        BY <4>1, <3>1, <3>2, SumOverChanges, SMTT(60)
    <3> QED
      BY <3>3, <3>4
  <2>4. switch_count'[BOOT] = switch_count[BOOT] /\ switch_count[BOOT] \in Int
    BY <1>0, <2>1
  <2>5. SumOver(Tasks, switch_count') - 1 - switch_count'[BOOT] \in {x, x - CountMod}
    <3>1. x = SumOver(Tasks, switch_count) - 0 - switch_count[BOOT]
      BY <2>1
    <3>2. v - switch_count[next] \in {1, 1 - CountMod} /\ v - switch_count[next] \in Int
      BY <1>0, <2>2, SMTT(60) DEF c
    <3> DEFINE old == SumOver(Tasks, switch_count)
               new == SumOver(Tasks, switch_count')
               b == switch_count[BOOT]
               e == v - switch_count[next]
    <3>3. /\ old \in Int /\ b \in Int /\ x = old - b /\ new = old + e
          /\ e = 1 \/ e = 1 - CountMod
      BY <2>3, <2>4, <3>1, <3>2, SMTT(60)
    <3>4. new - 1 - b = x \/ new - 1 - b = x - CountMod
      <4> HIDE DEF x, old, new, b, e
      <4> QED
        BY <1>0, <3>3, SMTT(60)
    <3> QED
      BY <2>4, <3>4
  <2>6. x \in Int
    BY <2>1, <2>3, <2>4, SMTT(60)
  <2>7. (SumOver(Tasks, switch_count') - 1 - switch_count'[BOOT]) % CountMod = 0
    <3> HIDE DEF x
    <3> QED
      BY <1>0, <2>5, <2>6, WidthApart
  <2> QED
    BY <1>0, <2>1, <2>7 DEF SwitchCountsBalance
<1>2. CASE SchedulerTakeBack
  <2> DEFINE b == switch_count[BOOT]
             v == (b + 1) % CountMod
  <2>1. /\ current # NULL /\ current' = NULL
        /\ switch_count' = [switch_count EXCEPT ![BOOT] = v]
    BY <1>2 DEF SchedulerTakeBack, TakeBack, IInv, CpuInv, At
  <2>2. b \in 0..(CountMod - 1) /\ v = (IF b + 1 = CountMod THEN 0 ELSE b + 1) /\ v \in Int
    BY <1>0, SMTT(60)
  <2> HIDE DEF v
  <2>3. SumOver(Tasks, switch_count) \in Int /\ SumOver(Tasks, switch_count') = SumOver(Tasks, switch_count)
    <3>1. \A u \in Tasks : switch_count[u] \in Int /\ switch_count'[u] = switch_count[u]
      BY <1>0, <2>1 DEF Contexts
    <3> QED
      BY <3>1, SchedAssumption, SumOverSame
  <2>4. switch_count'[BOOT] = v
    BY <1>0, <2>1
  <2>5. SumOver(Tasks, switch_count') - 0 - switch_count'[BOOT] \in {x, x + CountMod}
    BY <1>0, <2>1, <2>2, <2>3, <2>4, SMTT(60)
  <2>6. x \in Int
    BY <2>1, <2>2, <2>3, SMTT(60)
  <2>7. (SumOver(Tasks, switch_count') - 0 - switch_count'[BOOT]) % CountMod = 0
    <3> HIDE DEF x
    <3> QED
      BY <1>0, <2>5, <2>6, WidthApart
  <2> QED
    BY <2>1, <2>7 DEF SwitchCountsBalance
<1>3. CASE ~SchedulerDispatch /\ ~SchedulerTakeBack
  BY <1>3, CountsOtherwiseKept DEF SwitchCountsBalance
<1> QED
  BY <1>1, <1>2, <1>3

\* Every dispatch is paid back by one return, however often the counts wrap.
THEOREM CountsBalance == Spec => []SwitchCountsBalance
<1>1. Init => SwitchCountsBalance
  <2> SUFFICES ASSUME Init PROVE SwitchCountsBalance
    OBVIOUS
  <2>1. current = NULL /\ switch_count = [c \in Contexts |-> 0]
    BY DEF Init, SchedInit
  <2>2. \A t \in Tasks : switch_count[t] = 0
    BY <2>1 DEF Contexts
  <2>3. SumOver(Tasks, switch_count) = 0
    BY <2>2, SchedAssumption, SumOverZero
  <2>4. switch_count[BOOT] = 0
    BY <2>1 DEF Contexts
  <2> QED
    BY <2>1, <2>3, <2>4, SchedAssumption, SMTT(60) DEF SwitchCountsBalance
<1>2. IInv /\ [Next]_vars /\ SwitchCountsBalance => SwitchCountsBalance'
  BY BalanceStep
<1> QED
  BY <1>1, <1>2, Invariant, PTL DEF Spec
=============================================================================
