--------------------------- MODULE RunQueueProofs ---------------------------
(***************************************************************************)
(* The circular list of proc/sched.c, for any number of tasks: the links    *)
(* always form one ring, a READY task waits a bounded number of dispatches, *)
(* and the pointers implement ReadyQueue's sequence.                        *)
(***************************************************************************)
EXTENDS RunQueue, BasicLemmas, FiniteSetTheorems

USE ZenonT(60)

Queued == Cardinality(Members)

\* f is one lap of the list from t: it follows next, meets every queued task
\* once, and the step after the last one is t again.
Lap(f, t) ==
  /\ f \in [0..Queued -> Members]
  /\ f[0] = t
  /\ f[Queued] = t
  /\ \A i \in 0..(Queued - 1) : next[f[i]] = f[i + 1]
  /\ \A i, j \in 0..(Queued - 1) : f[i] = f[j] => i = j
  /\ \A u \in Members : \E i \in 0..(Queued - 1) : f[i] = u

\* The links: an empty list, or one lap from the head.
RingInv ==
  \/ run_queue_head = NULL /\ Members = {}
  \/ run_queue_head \in Members /\ \E f \in [0..Queued -> Members] : Lap(f, run_queue_head)

Start == IF cursor # NULL THEN cursor ELSE run_queue_head

\* The cursor: on a queued task, the only one that can be running.
CursorInv ==
  /\ cursor \in Members \cup {NULL}
  /\ \A t \in Tasks : state[t] = "RUNNING" => t = cursor
  /\ \A t \in Tasks : state[t] = "BLOCKED" => waited[t] = 0
  /\ cursor = NULL => \A t \in Tasks : waited[t] = 0

\* A READY task k links ahead of the cursor has been passed over at most as
\* often as the cursor has already moved on its lap.
WaitInv ==
  \A f \in [0..Queued -> Members] :
    Lap(f, Start) =>
      \A k \in 1..Queued : state[f[k]] = "READY" => waited[f[k]] + k <= Queued

IInv == TypeOK /\ RingInv /\ CursorInv /\ WaitInv

-----------------------------------------------------------------------------
\* How many tasks are queued is a number, and no more than there are tasks.
LEMMA QueuedNat ==
  ASSUME TypeOK
  PROVE  /\ IsFiniteSet(Members)
         /\ Queued \in Nat
         /\ Queued <= Cardinality(Tasks)
         /\ Cardinality(Tasks) \in Nat
         /\ Members # {} => Queued >= 1
<1>1. Members \in SUBSET Tasks
  BY DEF Members
<1>2. IsFiniteSet(Tasks) /\ Cardinality(Tasks) \in Nat
  BY TasksAssumption, FS_CardinalityType
<1>3. IsFiniteSet(Members) /\ Queued <= Cardinality(Tasks)
  BY <1>1, <1>2, FS_Subset DEF Queued
<1>4. Queued \in Nat
  BY <1>3, FS_CardinalityType DEF Queued
<1>5. Members # {} => Queued # 0
  BY <1>3, FS_EmptySet DEF Queued
<1> QED
  BY <1>2, <1>3, <1>4, <1>5, SMTT(60)

\* Following next k times gives the k-th task of the lap.
LEMMA WalkFollowsLap ==
  ASSUME TypeOK, NEW t \in Members, NEW f, Lap(f, t), NEW k \in 0..Queued
  PROVE  Walk(t, k) = f[k]
<1> DEFINE rhs(g, i) == IF i = 0 THEN t
                        ELSE IF g[i - 1] = NULL THEN NULL ELSE next[g[i - 1]]
           at == CHOOSE g : g = [i \in 0..k |-> rhs(g, i)]
           w == [i \in 0..k |-> f[i]]
<1>1. Queued \in Nat /\ k \in Nat /\ k <= Queued /\ NULL \notin Members
  BY QueuedNat, TasksAssumption, SMTT(60) DEF Members
<1>2. w = [i \in 0..k |-> rhs(w, i)]
  <2>1. ASSUME NEW i \in 0..k
        PROVE  w[i] = rhs(w, i)
    <3>1. CASE i = 0
      BY <3>1 DEF Lap
    <3>2. CASE i # 0
      <4>1. i - 1 \in 0..k /\ i - 1 \in 0..(Queued - 1) /\ (i - 1) + 1 = i
        BY <1>1, <3>2, SMTT(60)
      <4>2. w[i - 1] = f[i - 1] /\ f[i - 1] # NULL /\ w[i] = f[i]
        BY <1>1, <4>1, SMTT(60) DEF Lap
      <4>3. next[f[i - 1]] = f[i]
        BY <4>1 DEF Lap
      <4> QED
        BY <3>2, <4>2, <4>3
    <3> QED
      BY <3>1, <3>2
  <2> QED
    BY <2>1
<1>3. at = [i \in 0..k |-> rhs(at, i)]
  BY <1>2
<1>4. Walk(t, k) = at[k]
  BY DEF Walk
<1> DEFINE bad == {i \in 0..k : at[i] # f[i]}
<1>5. bad = {}
  <2> SUFFICES ASSUME bad # {}
               PROVE  FALSE
    OBVIOUS
  <2>1. bad \in SUBSET Nat
    BY <1>1, SMTT(60)
  <2>2. PICK m \in bad : \A n \in bad : m <= n
    <3> HIDE DEF bad
    <3> QED
      BY <2>1, LeastNat
  <2>3. m \in 0..k /\ at[m] # f[m]
    BY <2>2
  <2>4. at[m] = rhs(at, m)
    <3> HIDE DEF at
    <3> QED
      BY <1>3, <2>3
  <2>5. CASE m = 0
    BY <2>3, <2>4, <2>5 DEF Lap
  <2>6. CASE m # 0
    <3>1. m - 1 \in 0..k /\ m - 1 \in 0..(Queued - 1) /\ (m - 1) + 1 = m /\ ~(m <= m - 1)
      BY <1>1, <2>3, <2>6, SMTT(60)
    <3>2. at[m - 1] = f[m - 1]
      BY <2>2, <3>1
    <3>3. f[m - 1] # NULL /\ next[f[m - 1]] = f[m]
      <4>1. f[m - 1] \in Members
        BY <1>1, <3>1, SMTT(60) DEF Lap
      <4>2. next[f[m - 1]] = f[(m - 1) + 1]
        BY <3>1 DEF Lap
      <4> QED
        BY <1>1, <3>1, <4>1, <4>2
    <3> HIDE DEF at
    <3> QED
      BY <2>3, <2>4, <2>6, <3>2, <3>3
  <2> QED
    BY <2>5, <2>6
<1> HIDE DEF at
<1> QED
  BY <1>1, <1>4, <1>5, SMTT(60)

\* The walk from a task first meets it again when the lap is complete.
LEMMA LapLength ==
  ASSUME TypeOK, NEW t \in Members, NEW f, Lap(f, t)
  PROVE  LapOf(t) = Queued
<1>1. Queued \in Nat /\ Queued >= 1 /\ Queued <= Cardinality(Tasks) /\ Cardinality(Tasks) \in Nat
  BY QueuedNat
<1>2. Queued \in Steps /\ Steps \subseteq Nat
  BY <1>1, SMTT(60) DEF Steps
<1>3. Walk(t, Queued) = t
  <2>1. Queued \in 0..Queued
    BY <1>1, SMTT(60)
  <2>2. Walk(t, Queued) = f[Queued]
    BY <2>1, WalkFollowsLap
  <2> QED
    BY <2>2 DEF Lap
<1>4. ASSUME NEW j \in 1..(Queued - 1)
      PROVE  Walk(t, j) # t
  <2>1. j \in 0..Queued /\ j \in 0..(Queued - 1) /\ 0 \in 0..(Queued - 1) /\ j # 0
    BY <1>1, SMTT(60)
  <2>2. Walk(t, j) = f[j]
    BY <2>1, WalkFollowsLap
  <2> QED
    BY <2>1, <2>2 DEF Lap
<1> DEFINE first(k) == Walk(t, k) = t /\ \A j \in 1..(k - 1) : Walk(t, j) # t
           c == CHOOSE k \in Steps : first(k)
<1>5. first(Queued)
  BY <1>3, <1>4
<1>6. c \in Steps /\ first(c)
  BY <1>2, <1>5
<1>7. c \in Nat /\ c >= 1
  BY <1>1, <1>6, SMTT(60) DEF Steps
<1>8. LapOf(t) = c
  BY <1>2, <1>3 DEF LapOf
<1> HIDE DEF c
<1>9. c = Queued
  <2>1. ~(c < Queued)
    BY <1>1, <1>4, <1>6, <1>7, SMTT(60)
  <2>2. ~(Queued < c)
    BY <1>1, <1>3, <1>6, <1>7, SMTT(60)
  <2> QED
    BY <1>1, <1>7, <2>1, <2>2, SMTT(60)
<1> QED
  BY <1>8, <1>9

\* The lap f entered p links further on.
Shift(f, p) ==
  [k \in 0..Queued |-> IF p + k <= Queued THEN f[p + k] ELSE f[p + k - Queued]]

\* A lap can be entered anywhere.
LEMMA LapShifted ==
  ASSUME TypeOK, NEW t \in Members, NEW f, Lap(f, t), NEW p \in 0..Queued
  PROVE  Lap(Shift(f, p), f[p])
<1> DEFINE n == Queued
           g == Shift(f, p)
<1>1. n \in Nat /\ n >= 1 /\ p \in Nat /\ p <= n
  BY QueuedNat, SMTT(60)
<1>2. /\ f \in [0..n -> Members] /\ f[0] = t /\ f[n] = t
      /\ \A i \in 0..(n - 1) : next[f[i]] = f[i + 1]
      /\ \A i, j \in 0..(n - 1) : f[i] = f[j] => i = j
      /\ \A u \in Members : \E i \in 0..(n - 1) : f[i] = u
  BY DEF Lap
<1>3. /\ g \in [0..n -> Members]
      /\ \A k \in 0..n : g[k] = IF p + k <= n THEN f[p + k] ELSE f[p + k - n]
  <2>1. \A k \in 0..n : /\ p + k <= n => p + k \in 0..n
                        /\ ~(p + k <= n) => p + k - n \in 0..n
    BY <1>1, SMTT(60)
  <2> QED
    BY <1>2, <2>1 DEF Shift
<1> HIDE DEF n, g
<1>4. g[0] = f[p] /\ g[n] = f[p]
  <2>1. 0 \in 0..n /\ n \in 0..n /\ p + 0 = p /\ p + 0 <= n /\ p + n - n = p
    BY <1>1, SMTT(60)
  <2>2. g[0] = f[p]
    BY <1>3, <2>1
  <2>3. g[n] = f[p]
    <3>1. CASE p = 0
      <4>1. p + n <= n /\ p + n = n
        BY <1>1, <3>1, SMTT(60)
      <4> QED
        BY <1>2, <1>3, <2>1, <3>1, <4>1
    <3>2. CASE p # 0
      <4>1. ~(p + n <= n)
        BY <1>1, <3>2, SMTT(60)
      <4> QED
        BY <1>3, <2>1, <4>1
    <3> QED
      BY <3>1, <3>2
  <2> QED
    BY <2>2, <2>3
<1>5. ASSUME NEW k \in 0..(n - 1)
      PROVE  next[g[k]] = g[k + 1]
  <2>1. k \in 0..n /\ k + 1 \in 0..n
    BY <1>1, SMTT(60)
  <2>2. CASE p + k < n
    <3>1. p + k <= n /\ p + (k + 1) <= n /\ p + k \in 0..(n - 1) /\ p + (k + 1) = (p + k) + 1
      BY <1>1, <2>2, SMTT(60)
    <3>2. g[k] = f[p + k] /\ g[k + 1] = f[(p + k) + 1]
      BY <1>3, <2>1, <3>1, SMTT(60)
    <3> QED
      BY <1>2, <3>1, <3>2
  <2>3. CASE p + k = n
    <3>1. p + k <= n /\ ~(p + (k + 1) <= n) /\ p + (k + 1) - n = 1 /\ 0 \in 0..(n - 1) /\ 0 + 1 = 1
      BY <1>1, <2>3, SMTT(60)
    <3>2. g[k] = f[0]
      BY <1>2, <1>3, <2>1, <2>3, <3>1
    <3>3. g[k + 1] = f[0 + 1]
      BY <1>3, <2>1, <3>1, SMTT(60)
    <3> QED
      BY <1>2, <3>1, <3>2, <3>3
  <2>4. CASE p + k > n
    <3>1. /\ ~(p + k <= n) /\ ~(p + (k + 1) <= n) /\ p + k - n \in 0..(n - 1)
          /\ p + (k + 1) - n = (p + k - n) + 1
      BY <1>1, <2>4, SMTT(60)
    <3>2. g[k] = f[p + k - n] /\ g[k + 1] = f[(p + k - n) + 1]
      BY <1>3, <2>1, <3>1, SMTT(60)
    <3> QED
      BY <1>2, <3>1, <3>2
  <2> QED
    BY <1>1, <2>2, <2>3, <2>4, SMTT(60)
<1> DEFINE at(k) == IF p + k < n THEN p + k ELSE p + k - n
<1>6. ASSUME NEW k \in 0..(n - 1)
      PROVE  at(k) \in 0..(n - 1) /\ g[k] = f[at(k)]
  <2>1. at(k) \in 0..(n - 1) /\ k \in 0..n
    BY <1>1, SMTT(60)
  <2>2. CASE p + k = n
    <3>1. p + k <= n /\ at(k) = 0
      BY <1>1, <2>2, SMTT(60)
    <3> QED
      BY <1>2, <1>3, <2>1, <2>2, <3>1, SMTT(60)
  <2>3. CASE p + k # n
    <3>1. (p + k <= n) <=> (p + k < n)
      BY <1>1, <2>3, SMTT(60)
    <3> QED
      BY <1>3, <2>1, <3>1
  <2> QED
    BY <2>2, <2>3
<1>7. ASSUME NEW i \in 0..(n - 1), NEW j \in 0..(n - 1), g[i] = g[j]
      PROVE  i = j
  <2>1. at(i) = at(j)
    <3>1. f[at(i)] = f[at(j)] /\ at(i) \in 0..(n - 1) /\ at(j) \in 0..(n - 1)
      BY <1>6, <1>7
    <3> HIDE DEF at
    <3> QED
      BY <1>2, <3>1
  <2> QED
    BY <1>1, <2>1, SMTT(60)
<1>8. ASSUME NEW u \in Members
      PROVE  \E k \in 0..(n - 1) : g[k] = u
  <2>1. PICK i \in 0..(n - 1) : f[i] = u
    BY <1>2
  <2> DEFINE k == IF p = n THEN i ELSE IF p <= i THEN i - p ELSE i - p + n
  <2>2. k \in 0..(n - 1) /\ at(k) = i
    BY <1>1, SMTT(60)
  <2> HIDE DEF k, at
  <2> QED
    BY <1>6, <2>1, <2>2
<1> QED
  BY <1>3, <1>4, <1>5, <1>7, <1>8 DEF Lap, n, g

\* There is only one lap from a task: the walk.
LEMMA LapUnique ==
  ASSUME TypeOK, NEW t \in Members, NEW f, Lap(f, t), NEW g, Lap(g, t)
  PROVE  f = g
<1>1. \A k \in 0..Queued : f[k] = g[k]
  BY WalkFollowsLap
<1>2. f \in [0..Queued -> Members] /\ g \in [0..Queued -> Members]
  BY DEF Lap
<1>3. f = [k \in 0..Queued |-> f[k]] /\ g = [k \in 0..Queued |-> g[k]]
  BY <1>2
<1>4. [k \in 0..Queued |-> f[k]] = [k \in 0..Queued |-> g[k]]
  BY <1>1
<1> QED
  BY <1>3, <1>4, Zenon

\* From every queued task there is a lap.
LEMMA LapFromEvery ==
  ASSUME TypeOK, RingInv, NEW t \in Members
  PROVE  \E f \in [0..Queued -> Members] : Lap(f, t)
<1>1. PICK f \in [0..Queued -> Members] : Lap(f, run_queue_head)
  BY DEF RingInv
<1>2. Queued \in Nat /\ run_queue_head \in Members
  BY QueuedNat DEF RingInv
<1>3. PICK p \in 0..(Queued - 1) : f[p] = t
  BY <1>1 DEF Lap
<1>4. p \in 0..Queued
  BY <1>2, SMTT(60)
<1>5. Lap(Shift(f, p), t)
  BY <1>1, <1>2, <1>3, <1>4, LapShifted
<1> QED
  BY <1>5 DEF Lap

\* The invariant says what OneRing says of the code's loops over the list.
LEMMA RingImpliesOneRing ==
  ASSUME TypeOK, RingInv
  PROVE  OneRing
<1> SUFFICES ASSUME NEW t \in Members
             PROVE  /\ LapOf(t) = Queued
                    /\ {Walk(t, k) : k \in 1..LapOf(t)} = Members
  BY DEF OneRing, Queued
<1>1. PICK f \in [0..Queued -> Members] : Lap(f, t)
  BY LapFromEvery
<1>2. Queued \in Nat /\ Queued >= 1 /\ LapOf(t) = Queued
  BY <1>1, QueuedNat, LapLength
<1>3. \A k \in 1..Queued : k \in 0..Queued
  BY <1>2, SMTT(60)
<1>4. \A k \in 1..Queued : Walk(t, k) = f[k] /\ f[k] \in Members
  BY <1>1, <1>3, WalkFollowsLap
<1>5. ASSUME NEW u \in Members
      PROVE  \E k \in 1..Queued : Walk(t, k) = u
  <2>1. PICK i \in 0..(Queued - 1) : f[i] = u
    BY <1>1 DEF Lap
  <2>2. f[0] = f[Queued]
    BY <1>1 DEF Lap
  <2>3. i \in 1..Queued \/ (i = 0 /\ Queued \in 1..Queued)
    BY <1>2, SMTT(60)
  <2> QED
    BY <1>4, <2>1, <2>2, <2>3
<1> QED
  BY <1>2, <1>4, <1>5, SMTT(60)

\* The do-while loop of sched_pick_next stops at the first READY task of the
\* lap, and gives up only if the lap has none.
LEMMA PickAlongLap ==
  ASSUME TypeOK, Start \in Members, run_queue_head # NULL, NEW f, Lap(f, Start)
  PROVE  \/ /\ sched_pick_next = NULL
            /\ \A k \in 1..Queued : state[f[k]] # "READY"
         \/ \E m \in 1..Queued : /\ sched_pick_next = f[m]
                                 /\ state[f[m]] = "READY"
                                 /\ \A j \in 1..(m - 1) : state[f[j]] # "READY"
<1> DEFINE hit(k) == state[Walk(Start, k)] = "READY"
           H == {k \in 1..Queued : hit(k)}
           c == CHOOSE k \in 1..LapOf(Start) : hit(k) /\ \A j \in 1..(k - 1) : ~hit(j)
<1>1. Queued \in Nat /\ LapOf(Start) = Queued
  BY QueuedNat, LapLength
<1>2. \A k \in 1..Queued : Walk(Start, k) = f[k]
  <2>1. \A k \in 1..Queued : k \in 0..Queued
    BY <1>1, SMTT(60)
  <2> QED
    BY <2>1, WalkFollowsLap
<1>3. sched_pick_next = IF ~\E k \in 1..LapOf(Start) : hit(k) THEN NULL ELSE Walk(Start, c)
  BY SMTT(60) DEF sched_pick_next, Start
<1>4. CASE H = {}
  <2>1. \A k \in 1..Queued : ~hit(k)
    BY <1>4
  <2>2. sched_pick_next = NULL
    <3> HIDE DEF hit
    <3> QED
      BY <1>1, <1>3, <2>1
  <2> QED
    BY <1>2, <2>1, <2>2
<1>5. CASE H # {}
  <2>1. PICK m \in H : \A k \in H : m <= k
    <3>1. H \in SUBSET Nat
      BY <1>1, SMTT(60)
    <3> HIDE DEF H
    <3> QED
      BY <1>5, <3>1, LeastNat
  <2>2. m \in 1..Queued /\ hit(m) /\ \A j \in 1..(m - 1) : ~hit(j)
    <3>1. m \in 1..Queued /\ hit(m)
      OBVIOUS
    <3>2. ASSUME NEW j \in 1..(m - 1)
          PROVE  ~hit(j)
      <4>1. j \in 1..Queued /\ ~(m <= j)
        BY <1>1, <3>1, SMTT(60)
      <4> QED
        BY <2>1, <4>1
    <3> QED
      BY <3>1, <3>2
  <2>3. c \in 1..Queued /\ hit(c) /\ \A j \in 1..(c - 1) : ~hit(j)
    <3> HIDE DEF hit
    <3> QED
      BY <1>1, <2>2
  <2>4. sched_pick_next = Walk(Start, c)
    BY <1>1, <1>3, <2>2
  <2> HIDE DEF c
  <2>5. \A j \in 1..(c - 1) : j \in 1..Queued
    BY <1>1, <2>3, SMTT(60)
  <2>6. state[f[c]] = "READY" /\ \A j \in 1..(c - 1) : state[f[j]] # "READY"
    BY <1>2, <2>3, <2>5
  <2>7. sched_pick_next = f[c]
    BY <1>2, <2>3, <2>4
  <2> QED
    BY <2>3, <2>6, <2>7
<1> QED
  BY <1>4, <1>5

\* Before the list is entered from the cursor or the head, there is one.
LEMMA StartQueued ==
  ASSUME TypeOK, RingInv, CursorInv, run_queue_head # NULL
  PROVE  /\ Start \in Members
         /\ \E f \in [0..Queued -> Members] : Lap(f, Start)
<1>1. Start \in Members
  BY DEF RingInv, CursorInv, Start
<1> QED
  BY <1>1, LapFromEvery

\* sched_add_task keeps the ring: the new task becomes the ring, or is linked
\* in behind the head, between it and what followed it.
LEMMA AddKeepsRing ==
  ASSUME TypeOK, RingInv, NEW t \in Tasks, sched_add_task(t)
  PROVE  /\ RingInv'
         /\ Members' = Members \cup {t}
         /\ Queued' = Queued + 1
         /\ run_queue_head = NULL => run_queue_head' = t
         /\ run_queue_head # NULL =>
              /\ run_queue_head' = run_queue_head
              /\ \E f \in [0..Queued -> Members], g \in [0..Queued' -> Members'] :
                   /\ Lap(f, run_queue_head)
                   /\ Lap(g, run_queue_head)'
                   /\ g[0] = run_queue_head /\ g[1] = t
                   /\ \A i \in 2..(Queued + 1) : g[i] = f[i - 1]
<1>1. /\ t \notin Members /\ next \in [Tasks -> Tasks \cup {NULL}]
      /\ NULL \notin Tasks /\ IsFiniteSet(Members) /\ Queued \in Nat
  BY TasksAssumption, QueuedNat DEF sched_add_task, TypeOK
<1>2. Members' = Members \cup {t} => Queued' = Queued + 1
  BY <1>1, FS_AddElement DEF Queued
<1>3. CASE run_queue_head = NULL
  <2>1. run_queue_head' = t /\ next' = [next EXCEPT ![t] = t]
    BY <1>3 DEF sched_add_task
  <2>2. Members = {}
    BY <1>1, <1>3 DEF RingInv, Members
  <2>3. Members' = Members \cup {t} /\ next'[t] = t
    BY <1>1, <2>1 DEF Members
  <2>4. Queued' = 1
    <3>1. Queued = 0
      BY <2>2, FS_EmptySet DEF Queued
    <3> QED
      BY <1>2, <2>3, <3>1, SMTT(60)
  <2> DEFINE f == [i \in 0..1 |-> t]
  <2>5. Lap(f, t)'
    <3>1. f \in [0..1 -> Members'] /\ f[0] = t /\ f[1] = t
      BY <2>3, SMTT(60)
    <3>2. \A i \in 0..0 : i = 0
      BY SMTT(60)
    <3>3. \A u \in Members' : u = t
      BY <2>2, <2>3
    <3> HIDE DEF f
    <3> QED
      BY <2>3, <2>4, <3>1, <3>2, <3>3, SMTT(60) DEF Lap
  <2>6. RingInv'
    BY <2>1, <2>3, <2>5 DEF RingInv, Lap
  <2> QED
    BY <1>2, <1>3, <2>1, <2>3, <2>6
<1>4. CASE run_queue_head # NULL
  <2> DEFINE h == run_queue_head
             n == Queued
  <2>1. PICK f \in [0..n -> Members] : Lap(f, h)
    BY <1>4 DEF RingInv
  <2>2. h \in Members /\ h # t /\ h \in Tasks
    BY <1>1, <1>4 DEF RingInv, Members
  <2>3. /\ h' = h /\ next' \in [Tasks -> Tasks \cup {NULL}]
        /\ next'[t] = next[h] /\ next'[h] = t
        /\ \A u \in Tasks : u # t /\ u # h => next'[u] = next[u]
    BY <1>1, <1>4, <2>2 DEF sched_add_task
  <2>4. n >= 1 /\ n \in Nat
    BY <2>2, QueuedNat
  <2>5. Members' = Members \cup {t}
    <3>1. next[h] # NULL /\ t # NULL
      BY <1>1, <2>2 DEF Members
    <3> QED
      BY <1>1, <2>2, <2>3, <3>1 DEF Members
  <2>6. Queued' = n + 1
    BY <1>2, <2>5
  <2>7. /\ f[0] = h /\ f[n] = h
        /\ \A i \in 0..(n - 1) : next[f[i]] = f[i + 1]
        /\ \A i, j \in 0..(n - 1) : f[i] = f[j] => i = j
        /\ \A u \in Members : \E i \in 0..(n - 1) : f[i] = u
    BY <2>1 DEF Lap
  <2>8. PICK g \in [0..(n + 1) -> Members'] :
          g[0] = h /\ g[1] = t /\ \A i \in 2..(n + 1) : g[i] = f[i - 1]
    <3> DEFINE w == [i \in 0..(n + 1) |-> IF i = 0 THEN h ELSE IF i = 1 THEN t ELSE f[i - 1]]
    <3>1. \A i \in 0..(n + 1) : i # 0 => i - 1 \in 0..n
      BY <2>4, SMTT(60)
    <3>2. \A i \in 2..(n + 1) : i \in 0..(n + 1) /\ i # 0 /\ i # 1
      BY <2>4, SMTT(60)
    <3>3. 0 \in 0..(n + 1) /\ 1 \in 0..(n + 1)
      BY <2>4, SMTT(60)
    <3>4. w \in [0..(n + 1) -> Members']
      BY <2>1, <2>2, <2>5, <3>1
    <3>5. w[0] = h /\ w[1] = t /\ \A i \in 2..(n + 1) : w[i] = f[i - 1]
      BY <3>2, <3>3
    <3> HIDE DEF w
    <3> QED
      BY <3>4, <3>5
  <2> HIDE DEF n, h
  <2>9. g[n + 1] = h
    <3>1. n + 1 \in 2..(n + 1) /\ (n + 1) - 1 = n
      BY <2>4, SMTT(60)
    <3> QED
      BY <2>7, <2>8, <3>1
  <2>10. ASSUME NEW i \in 0..n
         PROVE  next'[g[i]] = g[i + 1]
    <3>1. CASE i = 0
      BY <2>3, <2>8, <3>1, SMTT(60)
    <3>2. CASE i = 1
      <4>1. 0 \in 0..(n - 1) /\ i + 1 \in 2..(n + 1) /\ (i + 1) - 1 = 0 + 1
        BY <2>4, <3>2, SMTT(60)
      <4>2. next[h] = f[0 + 1]
        BY <2>7, <4>1
      <4>3. g[i + 1] = f[0 + 1]
        BY <2>8, <4>1, SMTT(60)
      <4> QED
        BY <2>3, <2>8, <3>2, <4>2, <4>3
    <3>3. CASE i # 0 /\ i # 1
      <4>1. /\ i - 1 \in 0..(n - 1) /\ i \in 2..(n + 1) /\ i + 1 \in 2..(n + 1)
            /\ (i + 1) - 1 = (i - 1) + 1 /\ 0 \in 0..(n - 1) /\ i - 1 # 0 /\ i - 1 \in 0..n
        BY <2>4, <3>3, SMTT(60)
      <4>2. g[i] = f[i - 1] /\ g[i + 1] = f[(i - 1) + 1]
        BY <2>8, <4>1, SMTT(60)
      <4>3. f[i - 1] # h /\ f[i - 1] # t /\ f[i - 1] \in Tasks
        BY <1>1, <2>1, <2>7, <4>1, SMTT(60) DEF Members
      <4>4. next[f[i - 1]] = f[(i - 1) + 1]
        BY <2>7, <4>1
      <4> QED
        BY <2>3, <4>2, <4>3, <4>4
    <3> QED
      BY <3>1, <3>2, <3>3
  <2>11. ASSUME NEW i \in 0..n, NEW j \in 0..n, g[i] = g[j], i < j
         PROVE  FALSE
    <3>1. CASE i = 0 /\ j = 1
      BY <2>2, <2>8, <2>11, <3>1
    <3>2. CASE i = 0 /\ j # 1
      <4>1. j \in 2..(n + 1) /\ j - 1 \in 0..(n - 1) /\ 0 \in 0..(n - 1) /\ j - 1 # 0
        BY <2>4, <2>11, <3>2, SMTT(60)
      <4> QED
        BY <2>7, <2>8, <2>11, <3>2, <4>1, SMTT(60)
    <3>3. CASE i = 1
      <4>1. j \in 2..(n + 1) /\ j - 1 \in 0..n
        BY <2>4, <2>11, <3>3, SMTT(60)
      <4> QED
        BY <1>1, <2>1, <2>8, <2>11, <3>3, <4>1
    <3>4. CASE i # 0 /\ i # 1
      <4>1. /\ i \in 2..(n + 1) /\ j \in 2..(n + 1) /\ i - 1 # j - 1
            /\ i - 1 \in 0..(n - 1) /\ j - 1 \in 0..(n - 1)
        BY <2>4, <2>11, <3>4, SMTT(60)
      <4> QED
        BY <2>7, <2>8, <2>11, <4>1, SMTT(60)
    <3> QED
      BY <3>1, <3>2, <3>3, <3>4
  <2>12. ASSUME NEW u \in Members'
         PROVE  \E i \in 0..n : g[i] = u
    <3>1. CASE u = t
      <4>1. 1 \in 0..n
        BY <2>4, SMTT(60)
      <4> QED
        BY <2>8, <3>1, <4>1
    <3>2. CASE u # t
      <4>1. PICK i \in 0..(n - 1) : f[i] = u
        BY <2>5, <2>7, <3>2
      <4>2. CASE i = 0
        BY <2>4, <2>7, <2>8, <4>1, <4>2, SMTT(60)
      <4>3. CASE i # 0
        <5>1. i + 1 \in 2..(n + 1) /\ (i + 1) - 1 = i /\ i + 1 \in 0..n
          BY <2>4, <4>3, SMTT(60)
        <5>2. g[i + 1] = u
          BY <2>8, <4>1, <5>1
        <5> QED
          BY <5>1, <5>2
      <4> QED
        BY <4>2, <4>3
    <3> QED
      BY <3>1, <3>2
  <2>13. \A i, j \in 0..n : g[i] = g[j] => i = j
    <3>1. \A i, j \in 0..n : i < j \/ j < i \/ i = j
      BY <2>4, SMTT(60)
    <3> QED
      BY <2>11, <3>1
  <2>14. (n + 1) - 1 = n
    BY <2>4, SMTT(60)
  <2>15. Lap(g, run_queue_head)'
    <3>1. h' = run_queue_head'
      BY DEF h
    <3> QED
      BY <3>1, <2>3, <2>6, <2>8, <2>9, <2>10, <2>12, <2>13, <2>14 DEF Lap
  <2>16. g \in [0..Queued' -> Members'] /\ h' \in Members'
    BY <2>2, <2>3, <2>5, <2>6, <2>8
  <2>17. RingInv'
    BY <2>15, <2>16 DEF RingInv, h
  <2>18. \E w \in [0..Queued' -> Members'] :
           /\ Lap(w, run_queue_head)' /\ w[0] = h /\ w[1] = t
           /\ \A i \in 2..(n + 1) : w[i] = f[i - 1]
    BY <2>8, <2>15, <2>16
  <2> QED
    BY <1>2, <1>4, <2>1, <2>3, <2>5, <2>17, <2>18 DEF h, n
<1> QED
  BY <1>3, <1>4

-----------------------------------------------------------------------------
\* Initially no task is queued.
LEMMA InitInv == Init => IInv
<1> SUFFICES ASSUME Init
             PROVE  IInv
  OBVIOUS
<1>1. Members = {}
  BY DEF Init, Members
<1>2. TypeOK
  BY DEF Init, TypeOK
<1>3. RingInv /\ CursorInv
  BY <1>1 DEF Init, RingInv, CursorInv
<1>4. WaitInv
  <2>1. Queued = 0
    BY <1>1, FS_EmptySet DEF Queued
  <2> QED
    BY <2>1, SMTT(60) DEF WaitInv
<1> QED
  BY <1>2, <1>3, <1>4 DEF IInv

\* What is queued, and in which order, depends on the links alone.
LEMMA SameLinks ==
  ASSUME UNCHANGED <<run_queue_head, next>>
  PROVE  /\ Members' = Members
         /\ Queued' = Queued
         /\ \A f, t : Lap(f, t)' = Lap(f, t)
         /\ RingInv => RingInv'
<1>1. Members' = Members
  BY DEF Members
<1>2. Queued' = Queued
  BY <1>1 DEF Queued
<1>3. ASSUME NEW f, NEW t
      PROVE  Lap(f, t)' = Lap(f, t)
  BY <1>1, <1>2 DEF Lap
<1>4. RingInv => RingInv'
  BY <1>1, <1>2, <1>3 DEF RingInv
<1> QED
  BY <1>1, <1>2, <1>3, <1>4

\* scheduler()'s dispatch moves the cursor to the task it picked: every READY
\* task it has not reached yet is that many links closer.
LEMMA PickKeeps ==
  ASSUME IInv, Pick
  PROVE  IInv'
<1> DEFINE t == sched_pick_next
<1>1. TypeOK /\ RingInv /\ CursorInv /\ WaitInv
  BY DEF IInv
<1>2. /\ t # NULL /\ cursor' = t /\ state' = [state EXCEPT ![t] = "RUNNING"]
      /\ waited' = [u \in Tasks |-> IF u # t /\ u \in Members /\ state[u] = "READY"
                                    THEN waited[u] + 1 ELSE waited[u]]
      /\ UNCHANGED <<run_queue_head, next>>
      /\ \A u \in Tasks : state[u] # "RUNNING"
  BY DEF Pick
<1>3. /\ Members' = Members /\ Queued' = Queued /\ RingInv'
      /\ \A f, u : Lap(f, u)' = Lap(f, u)
  BY <1>1, <1>2, SameLinks
<1>4. run_queue_head # NULL
  BY <1>2 DEF sched_pick_next
<1>5. Start \in Members
  BY <1>1, <1>4, StartQueued
<1>6. PICK f \in [0..Queued -> Members] : Lap(f, Start)
  BY <1>1, <1>4, StartQueued
<1>7. PICK m \in 1..Queued : /\ t = f[m]
                             /\ state[f[m]] = "READY"
                             /\ \A j \in 1..(m - 1) : state[f[j]] # "READY"
  BY <1>1, <1>2, <1>4, <1>5, <1>6, PickAlongLap
<1>8. Queued \in Nat /\ m \in Nat /\ m >= 1 /\ m <= Queued /\ m \in 0..Queued
  BY <1>1, QueuedNat, SMTT(60)
<1>9. t \in Members /\ t \in Tasks /\ Members \subseteq Tasks
  BY <1>6, <1>7, <1>8 DEF Members
<1> HIDE DEF t
<1>10. TypeOK'
  BY <1>1, <1>2, <1>9, SMTT(60) DEF TypeOK
<1>11. CursorInv'
  <2>1. \A u \in Tasks : state'[u] = IF u = t THEN "RUNNING" ELSE state[u]
    BY <1>1, <1>2 DEF TypeOK
  <2>2. \A u \in Tasks : state[u] = "BLOCKED" => waited'[u] = waited[u]
    BY <1>2
  <2> QED
    BY <1>1, <1>2, <1>3, <1>9, <2>1, <2>2, TasksAssumption, SMTT(60) DEF CursorInv
<1>12. WaitInv'
  <2> SUFFICES ASSUME NEW g \in [0..Queued -> Members], Lap(g, t),
                      NEW k \in 1..Queued, state'[g[k]] = "READY"
               PROVE  waited'[g[k]] + k <= Queued
    <3>1. Start' = t
      BY <1>2 DEF Start
    <3> QED
      BY <1>3, <3>1 DEF WaitInv
  <2>1. g = Shift(f, m)
    BY <1>1, <1>5, <1>6, <1>7, <1>8, <1>9, LapShifted, LapUnique
  <2>2. k \in Nat /\ k >= 1 /\ k <= Queued /\ k \in 0..Queued
    BY <1>8, SMTT(60)
  <2>3. g[k] \in Tasks /\ g[k] # t /\ state[g[k]] = "READY" /\ g[k] \in Members
    BY <1>1, <1>2, <1>9, <2>2 DEF TypeOK
  <2>4. waited'[g[k]] = waited[g[k]] + 1 /\ waited[g[k]] \in Nat
    BY <1>1, <1>2, <2>3 DEF TypeOK
  <2>5. CASE m + k <= Queued
    <3>1. g[k] = f[m + k] /\ m + k \in 1..Queued
      BY <1>8, <2>1, <2>2, <2>5, SMTT(60) DEF Shift
    <3>2. waited[f[m + k]] + (m + k) <= Queued
      BY <1>1, <1>6, <2>3, <3>1 DEF WaitInv
    <3> QED
      BY <1>8, <2>2, <2>4, <3>1, <3>2, SMTT(60)
  <2>6. CASE ~(m + k <= Queued)
    <3>1. g[k] = f[m + k - Queued] /\ m + k - Queued \in 1..m
      BY <1>8, <2>1, <2>2, <2>6, SMTT(60) DEF Shift
    <3>2. m + k - Queued \in 1..(m - 1) \/ m + k - Queued = m
      BY <1>8, <2>2, <3>1, SMTT(60)
    <3> QED
      BY <1>7, <2>3, <3>1, <3>2
  <2> QED
    BY <2>5, <2>6
<1> QED
  BY <1>3, <1>10, <1>11, <1>12 DEF IInv

\* A task that stops running is the one at the cursor, a whole lap away from
\* its next turn; a sleeper that wakes has been passed over by nobody yet.
LEMMA LeaveKeeps ==
  ASSUME IInv, NEW t \in Tasks, Leave(t)
  PROVE  IInv'
<1>1. TypeOK /\ RingInv /\ CursorInv /\ WaitInv
  BY DEF IInv
<1>2. PICK s \in {"READY", "BLOCKED", "DEAD"} : state' = [state EXCEPT ![t] = s]
  BY DEF Leave
<1>3. /\ state[t] = "RUNNING" /\ waited' = [waited EXCEPT ![t] = 0]
      /\ UNCHANGED <<run_queue_head, next, cursor>>
  BY DEF Leave
<1>4. /\ Members' = Members /\ Queued' = Queued /\ RingInv'
      /\ \A f, u : Lap(f, u)' = Lap(f, u)
  BY <1>1, <1>3, SameLinks
<1>5. TypeOK'
  BY <1>1, <1>2, <1>3 DEF TypeOK
<1>6. /\ \A u \in Tasks : u # t => state'[u] = state[u] /\ waited'[u] = waited[u]
      /\ state'[t] = s /\ waited'[t] = 0
  BY <1>1, <1>2, <1>3 DEF TypeOK
<1>7. CursorInv'
  BY <1>1, <1>3, <1>4, <1>6 DEF CursorInv
<1>8. t = cursor /\ t \in Members
  BY <1>1, <1>3, TasksAssumption DEF CursorInv
<1>9. WaitInv'
  <2> SUFFICES ASSUME NEW f \in [0..Queued -> Members], Lap(f, Start),
                      NEW k \in 1..Queued, state'[f[k]] = "READY"
               PROVE  waited'[f[k]] + k <= Queued
    <3>1. Start' = Start
      BY <1>3 DEF Start
    <3> QED
      BY <1>4, <3>1 DEF WaitInv
  <2>1. Queued \in Nat /\ k \in 0..Queued
    BY <1>1, QueuedNat, SMTT(60)
  <2>2. f[k] \in Tasks
    BY <2>1 DEF Members
  <2>3. CASE f[k] = t
    BY <1>6, <2>1, <2>3, SMTT(60)
  <2>4. CASE f[k] # t
    BY <1>1, <1>6, <2>2, <2>4 DEF WaitInv
  <2> QED
    BY <2>3, <2>4
<1> QED
  BY <1>4, <1>5, <1>7, <1>9 DEF IInv

\* The same for a sleeper that wakes: BLOCKED, it was never passed over.
LEMMA WakeKeeps ==
  ASSUME IInv, NEW t \in Tasks, Wake(t)
  PROVE  IInv'
<1>1. TypeOK /\ RingInv /\ CursorInv /\ WaitInv
  BY DEF IInv
<1>2. /\ state[t] = "BLOCKED" /\ state' = [state EXCEPT ![t] = "READY"]
      /\ UNCHANGED <<run_queue_head, next, cursor, waited>>
  BY DEF Wake
<1>3. /\ Members' = Members /\ Queued' = Queued /\ RingInv'
      /\ \A f, u : Lap(f, u)' = Lap(f, u)
  BY <1>1, <1>2, SameLinks
<1>4. TypeOK'
  BY <1>1, <1>2 DEF TypeOK
<1>5. /\ \A u \in Tasks : u # t => state'[u] = state[u]
      /\ state'[t] = "READY" /\ waited[t] = 0
  BY <1>1, <1>2 DEF TypeOK, CursorInv
<1>6. CursorInv'
  BY <1>1, <1>2, <1>3, <1>5 DEF CursorInv
<1>7. WaitInv'
  <2> SUFFICES ASSUME NEW f \in [0..Queued -> Members], Lap(f, Start),
                      NEW k \in 1..Queued, state'[f[k]] = "READY"
               PROVE  waited[f[k]] + k <= Queued
    <3>1. Start' = Start
      BY <1>2 DEF Start
    <3> QED
      BY <1>2, <1>3, <3>1 DEF WaitInv
  <2>1. Queued \in Nat /\ k \in 0..Queued
    BY <1>1, QueuedNat, SMTT(60)
  <2>2. f[k] \in Tasks
    BY <2>1 DEF Members
  <2>3. CASE f[k] = t
    BY <1>5, <2>1, <2>3, SMTT(60)
  <2>4. CASE f[k] # t
    BY <1>1, <1>5, <2>2, <2>4 DEF WaitInv
  <2> QED
    BY <2>3, <2>4
<1> QED
  BY <1>3, <1>4, <1>6, <1>7 DEF IInv

\* main adds tasks before the first dispatch, when nobody has waited yet.
LEMMA AddKeeps ==
  ASSUME IInv, NEW t \in Tasks, cursor = NULL, sched_add_task(t)
  PROVE  IInv'
<1>1. TypeOK /\ RingInv /\ CursorInv /\ WaitInv
  BY DEF IInv
<1>2. RingInv' /\ Members' = Members \cup {t} /\ UNCHANGED <<cursor, state, waited>>
  BY <1>1, AddKeepsRing DEF sched_add_task
<1>3. TypeOK'
  BY <1>1 DEF TypeOK, sched_add_task
<1>4. CursorInv'
  BY <1>1, <1>2 DEF CursorInv
<1>5. WaitInv'
  <2> SUFFICES ASSUME NEW f \in [0..Queued' -> Members'],
                      NEW k \in 1..Queued'
               PROVE  waited'[f[k]] + k <= Queued'
    BY DEF WaitInv
  <2>1. Queued' \in Nat
    <3>1. IsFiniteSet(Members')
      BY <1>1, <1>2, QueuedNat, FS_AddElement
    <3> QED
      BY <3>1, FS_CardinalityType DEF Queued
  <2>2. k \in 0..Queued'
    BY <2>1, SMTT(60)
  <2>3. f[k] \in Tasks
    BY <2>2 DEF Members
  <2>4. waited'[f[k]] = 0
    BY <1>1, <1>2, <2>3 DEF CursorInv
  <2> QED
    BY <2>1, <2>4, SMTT(60)
<1> QED
  BY <1>2, <1>3, <1>4, <1>5 DEF IInv

\* The invariant holds in every reachable state.
THEOREM RunQueueInv == Spec => []IInv
<1>1. IInv /\ [Next]_vars => IInv'
  <2> SUFFICES ASSUME IInv, [Next]_vars
               PROVE  IInv'
    OBVIOUS
  <2>1. CASE Pick
    BY <2>1, PickKeeps
  <2>2. CASE \E t \in Tasks : cursor = NULL /\ sched_add_task(t)
    BY <2>2, AddKeeps
  <2>3. CASE \E t \in Tasks : Leave(t)
    BY <2>3, LeaveKeeps
  <2>4. CASE \E t \in Tasks : Wake(t)
    BY <2>4, WakeKeeps
  <2>5. CASE UNCHANGED vars
    <3>1. UNCHANGED <<run_queue_head, next, cursor, state, waited>>
      BY <2>5 DEF vars
    <3>2. /\ Members' = Members /\ Queued' = Queued /\ RingInv'
          /\ \A f, u : Lap(f, u)' = Lap(f, u)
      BY <3>1, SameLinks DEF IInv
    <3>3. TypeOK' /\ CursorInv'
      BY <3>1, <3>2 DEF IInv, TypeOK, CursorInv
    <3>4. WaitInv'
      BY <3>1, <3>2 DEF IInv, WaitInv, Start
    <3> QED
      BY <3>2, <3>3, <3>4 DEF IInv
  <2> QED
    BY <2>1, <2>2, <2>3, <2>4, <2>5 DEF Next
<1> QED
  BY <1>1, InitInv, PTL DEF Spec

\* Every variable keeps its kind.
THEOREM RunQueueTyped == Spec => []TypeOK
<1>1. IInv => TypeOK
  BY DEF IInv
<1> QED
  BY <1>1, RunQueueInv, PTL

\* The list is one ring in every reachable state, for any number of tasks:
\* every loop over it ends, and misses no queued task.
THEOREM RunQueueOneRing == Spec => []OneRing
<1>1. IInv => OneRing
  BY RingImpliesOneRing DEF IInv
<1> QED
  BY <1>1, RunQueueInv, PTL

\* No READY task starves, for any number of tasks: sched_pick_next passes it
\* over fewer times than there are queued tasks before it is its turn.
THEOREM RunQueueBoundedWait == Spec => []BoundedWait
<1>1. IInv => BoundedWait
  <2> SUFFICES ASSUME IInv, NEW t \in Members, state[t] = "READY"
               PROVE  waited[t] < Queued
    BY DEF BoundedWait, Queued
  <2>1. TypeOK /\ RingInv /\ CursorInv /\ WaitInv
    BY DEF IInv
  <2>2. run_queue_head # NULL
    BY <2>1, TasksAssumption DEF RingInv, Members
  <2>3. PICK f \in [0..Queued -> Members] : Lap(f, Start)
    BY <2>1, <2>2, StartQueued
  <2>4. Queued \in Nat /\ Queued >= 1
    BY <2>1, QueuedNat
  <2>5. PICK i \in 0..(Queued - 1) : f[i] = t
    BY <2>3 DEF Lap
  <2>6. \E k \in 1..Queued : f[k] = t
    <3>1. f[0] = f[Queued]
      BY <2>3 DEF Lap
    <3>2. i \in 1..Queued \/ (i = 0 /\ Queued \in 1..Queued)
      BY <2>4, SMTT(60)
    <3> QED
      BY <2>5, <3>1, <3>2
  <2>7. PICK k \in 1..Queued : f[k] = t
    BY <2>6
  <2>8. waited[t] + k <= Queued
    BY <2>1, <2>3, <2>7 DEF WaitInv
  <2>9. waited[t] \in Nat
    BY <2>1 DEF TypeOK, Members
  <2> QED
    BY <2>4, <2>8, <2>9, SMTT(60)
<1> QED
  BY <1>1, RunQueueInv, PTL

-----------------------------------------------------------------------------
\* The sequence the pointers stand for, read off the lap from the head.
LEMMA ListedIsLap ==
  \A f : TypeOK /\ run_queue_head \in Members /\ Lap(f, run_queue_head)
           => Listed = [k \in 1..Queued |-> f[k - 1]]
<1> SUFFICES ASSUME NEW f, TypeOK, run_queue_head \in Members, Lap(f, run_queue_head)
             PROVE  Listed = [k \in 1..Queued |-> f[k - 1]]
  OBVIOUS
<1>1. Queued \in Nat /\ LapOf(run_queue_head) = Queued /\ run_queue_head # NULL
  BY QueuedNat, LapLength, TasksAssumption DEF Members
<1>2. ASSUME NEW k \in 1..Queued
      PROVE  Walk(run_queue_head, k - 1) = f[k - 1]
  <2>1. k - 1 \in 0..Queued
    BY <1>1, SMTT(60)
  <2> QED
    BY <2>1, WalkFollowsLap
<1>3. Listed = [k \in 1..Queued |-> Walk(run_queue_head, k - 1)]
  BY <1>1 DEF Listed
<1> QED
  BY <1>2, <1>3

\* Its members are the queued tasks.
LEMMA ListedRange ==
  ASSUME TypeOK, RingInv
  PROVE  Ring!Range(Listed) = Members
<1>1. CASE run_queue_head = NULL
  BY <1>1, TasksAssumption, SMTT(60) DEF Listed, Ring!Range, RingInv, Members
<1>2. CASE run_queue_head # NULL
  <2>1. PICK f \in [0..Queued -> Members] : Lap(f, run_queue_head)
    BY <1>2 DEF RingInv
  <2>2. Listed = [k \in 1..Queued |-> f[k - 1]]
    BY <1>2, <2>1, ListedIsLap DEF RingInv
  <2>3. Queued \in Nat
    BY QueuedNat
  <2>4. Ring!Range(Listed) = {f[k - 1] : k \in 1..Queued}
    BY <2>2 DEF Ring!Range
  <2>5. \A k \in 1..Queued : f[k - 1] \in Members
    <3>1. \A k \in 1..Queued : k - 1 \in 0..Queued
      BY <2>3, SMTT(60)
    <3> QED
      BY <3>1
  <2>6. ASSUME NEW u \in Members
        PROVE  \E k \in 1..Queued : f[k - 1] = u
    <3>1. PICK i \in 0..(Queued - 1) : f[i] = u
      BY <2>1 DEF Lap
    <3>2. i + 1 \in 1..Queued /\ (i + 1) - 1 = i
      BY <2>3, SMTT(60)
    <3> QED
      BY <3>1, <3>2
  <2> QED
    BY <2>4, <2>5, <2>6
<1> QED
  BY <1>1, <1>2

\* Counting positions modulo the length, as RoundRobin does, is following
\* the links: the k-th task ahead of the start is the k-th of its lap.
LEMMA AheadIsLap ==
  ASSUME TypeOK, RingInv, CursorInv, run_queue_head # NULL,
         NEW g, Lap(g, Start), NEW k \in 1..Queued
  PROVE  Ring!Ahead(Listed, Ring!StartAt(Listed, cursor), k) = g[k]
<1> DEFINE n == Queued
           i == Ring!StartAt(Listed, cursor)
<1>1. PICK f \in [0..n -> Members] : Lap(f, run_queue_head)
  BY DEF RingInv
<1>2. run_queue_head \in Members /\ Start \in Members
  BY StartQueued DEF RingInv
<1>3. Listed = [j \in 1..n |-> f[j - 1]]
  BY <1>1, <1>2, ListedIsLap
<1>4. n \in Nat /\ n >= 1 /\ f[0] = run_queue_head /\ f[n] = f[0] /\ Len(Listed) = n
  BY <1>1, <1>2, <1>3, QueuedNat, SMTT(60) DEF Lap
<1>5. i \in 1..n /\ f[i - 1] = Start
  <2>1. CASE cursor = NULL
    <3>1. i = 1
      BY <2>1, ListedRange, TasksAssumption DEF Ring!StartAt, Members
    <3> QED
      BY <1>4, <2>1, <3>1, SMTT(60) DEF Start
  <2>2. CASE cursor # NULL
    <3>1. cursor \in Ring!Range(Listed) /\ Start = cursor
      BY <2>2, ListedRange DEF CursorInv, Start
    <3>2. \E j \in DOMAIN Listed : Listed[j] = cursor
      BY <3>1 DEF Ring!Range
    <3>3. i = CHOOSE j \in DOMAIN Listed : Listed[j] = cursor
      BY <3>1 DEF Ring!StartAt
    <3>4. i \in DOMAIN Listed /\ Listed[i] = cursor
      BY <3>2, <3>3
    <3> HIDE DEF i
    <3> QED
      BY <1>3, <3>1, <3>4
  <2> QED
    BY <2>1, <2>2
<1> HIDE DEF i, n
<1>6. i - 1 \in 0..n
  BY <1>4, <1>5, SMTT(60)
<1>7. g = Shift(f, i - 1)
  <2>1. i - 1 \in 0..Queued
    BY <1>6 DEF n
  <2>2. Lap(Shift(f, i - 1), f[i - 1])
    BY <1>1, <1>2, <2>1, LapShifted
  <2>3. Lap(Shift(f, i - 1), Start)
    BY <1>5, <2>2
  <2> QED
    BY <1>2, <2>3, LapUnique
<1>8. k \in 0..n /\ k \in 1..n
  BY <1>4, SMTT(60) DEF n
<1>9. g[k] = IF (i - 1) + k <= n THEN f[(i - 1) + k] ELSE f[(i - 1) + k - n]
  BY <1>7, <1>8 DEF Shift, n
<1> DEFINE q == i + k - 1
           r == q % n
<1>10. q \in 1..(2 * n) /\ (i - 1) + k = q /\ (i - 1) + k - n = q - n /\ q < 2 * n
  BY <1>4, <1>5, <1>8, SMTT(60)
<1>11. r \in 0..(n - 1) /\ (q < n => r = q) /\ (q = n => r = 0) /\ (q > n => r = q - n)
  <2> HIDE DEF q
  <2>1. q < n => q % n = q
    BY <1>4, <1>10, SMTT(60)
  <2>2. q >= n => q % n = q - n
    BY <1>4, <1>10, SMTT(60)
  <2> QED
    BY <1>4, <1>10, <2>1, <2>2, SMTT(60)
<1>12. Ring!Ahead(Listed, i, k) = f[r]
  <2>1. r + 1 \in 1..n /\ (r + 1) - 1 = r
    BY <1>4, <1>11, SMTT(60)
  <2>2. Listed[r + 1] = f[r]
    BY <1>3, <2>1 DEF n
  <2> QED
    BY <1>4, <2>2 DEF Ring!Ahead, n
<1> HIDE DEF q, r
<1> QED
  BY <1>4, <1>9, <1>10, <1>11, <1>12, SMTT(60) DEF i

\* The pointer walk and the sequence operator pick the same task.
LEMMA PickIsFirstReady ==
  ASSUME TypeOK, RingInv, CursorInv, run_queue_head # NULL
  PROVE  Ring!FirstReady(Listed, cursor,
                         {u \in Ring!Range(Listed) : state[u] = "READY"}, NULL)
           = sched_pick_next
<1> DEFINE n == Queued
           i == Ring!StartAt(Listed, cursor)
           ready == {u \in Ring!Range(Listed) : state[u] = "READY"}
           hit(k) == Ring!Ahead(Listed, i, k) \in ready
           c == CHOOSE k \in 1..Len(Listed) : hit(k) /\ \A j \in 1..(k - 1) : ~hit(j)
<1>1. Start \in Members
  BY StartQueued
<1>2. PICK g \in [0..n -> Members] : Lap(g, Start)
  BY StartQueued
<1>3. n \in Nat /\ Len(Listed) = n
  <2>1. PICK f \in [0..n -> Members] : Lap(f, run_queue_head)
    BY DEF RingInv
  <2>2. Listed = [k \in 1..n |-> f[k - 1]]
    BY <2>1, ListedIsLap DEF RingInv
  <2>3. n \in Nat
    BY QueuedNat
  <2> QED
    BY <2>2, <2>3, SMTT(60)
<1>4. ASSUME NEW k \in 1..n
      PROVE  /\ Ring!Ahead(Listed, i, k) = g[k]
             /\ hit(k) <=> state[g[k]] = "READY"
  <2>1. Ring!Ahead(Listed, i, k) = g[k]
    BY <1>2, AheadIsLap
  <2>2. g[k] \in Members
    BY <1>3, SMTT(60)
  <2> QED
    BY <2>1, <2>2, ListedRange, SMTT(60)
<1>5. Ring!FirstReady(Listed, cursor, ready, NULL)
        = IF \E k \in 1..Len(Listed) : hit(k) THEN Ring!Ahead(Listed, i, c) ELSE NULL
  BY DEF Ring!FirstReady
<1> HIDE DEF hit, i, ready
<1>6. CASE sched_pick_next = NULL /\ \A k \in 1..n : state[g[k]] # "READY"
  BY <1>3, <1>4, <1>5, <1>6 DEF ready
<1>7. CASE \E m \in 1..n : /\ sched_pick_next = g[m]
                           /\ state[g[m]] = "READY"
                           /\ \A j \in 1..(m - 1) : state[g[j]] # "READY"
  <2>1. PICK m \in 1..n : /\ sched_pick_next = g[m]
                          /\ state[g[m]] = "READY"
                          /\ \A j \in 1..(m - 1) : state[g[j]] # "READY"
    BY <1>7
  <2>2. \A j \in 1..(m - 1) : j \in 1..n
    BY <1>3, SMTT(60)
  <2>3. hit(m) /\ \A j \in 1..(m - 1) : ~hit(j)
    BY <1>4, <2>1, <2>2
  <2>4. c \in 1..n /\ hit(c) /\ \A j \in 1..(c - 1) : ~hit(j)
    BY <1>3, <2>3
  <2> HIDE DEF c
  <2>5. c = m
    <3>1. ~(c < m) /\ ~(m < c)
      BY <1>3, <2>3, <2>4, SMTT(60)
    <3> QED
      BY <1>3, <2>4, <3>1, SMTT(60)
  <2>6. Ring!FirstReady(Listed, cursor, ready, NULL) = Ring!Ahead(Listed, i, c)
    BY <1>3, <1>5, <2>4
  <2>7. Ring!FirstReady(Listed, cursor, ready, NULL) = sched_pick_next
    BY <1>4, <2>1, <2>5, <2>6
  <2> QED
    BY <2>7 DEF ready
<1> QED
  BY <1>1, <1>2, <1>6, <1>7, PickAlongLap

\* Linking a task behind the head inserts it after the first of the sequence.
LEMMA AddIsAddAfterHead ==
  ASSUME IInv, NEW t \in Tasks, cursor = NULL, sched_add_task(t)
  PROVE  Ring!Add(t)
<1>1. TypeOK /\ RingInv
  BY DEF IInv
<1>2. t \notin Ring!Range(Listed) /\ UNCHANGED <<cursor, state>>
  BY <1>1, ListedRange DEF sched_add_task
<1>3. IInv'
  BY AddKeeps
<1>4. (\A f : TypeOK /\ run_queue_head \in Members /\ Lap(f, run_queue_head)
                => Listed = [k \in 1..Queued |-> f[k - 1]])'
  BY ListedIsLap, PTL
<1>5. /\ TypeOK' /\ RingInv' /\ Queued' = Queued + 1 /\ Members' = Members \cup {t}
      /\ Queued \in Nat
  BY <1>1, <1>3, AddKeepsRing, QueuedNat DEF IInv
<1>6. CASE run_queue_head = NULL
  <2>1. run_queue_head' = t /\ Members = {}
    BY <1>1, <1>6, AddKeepsRing, TasksAssumption DEF RingInv, Members
  <2>2. Queued' = 1
    <3>1. Queued = 0
      BY <2>1, FS_EmptySet DEF Queued
    <3> QED
      BY <1>5, <3>1, SMTT(60)
  <2>3. t \in Members' /\ t # NULL
    BY <1>5, TasksAssumption
  <2>4. PICK f \in [0..Queued' -> Members'] : Lap(f, run_queue_head)'
    BY <1>5, <2>1, <2>3 DEF RingInv
  <2>5. Listed' = [k \in 1..Queued' |-> f[k - 1]]
    BY <1>4, <1>5, <2>1, <2>3, <2>4
  <2>6. f[0] = t
    BY <2>1, <2>4 DEF Lap
  <2>7. Listed' = <<t>>
    <3>1. \A k \in 1..1 : k - 1 = 0
      BY SMTT(60)
    <3>2. Listed' = [k \in 1..1 |-> t]
      BY <2>2, <2>5, <2>6, <3>1
    <3> QED
      BY <3>2, SMTT(60)
  <2>8. Listed = <<>>
    BY <1>6 DEF Listed
  <2> QED
    BY <1>2, <2>7, <2>8 DEF Ring!Add, Ring!AddAfterHead
<1>7. CASE run_queue_head # NULL
  <2> DEFINE n == Queued
             h == run_queue_head
  <2>1. /\ h' = h
        /\ \E f \in [0..n -> Members], g \in [0..Queued' -> Members'] :
             /\ Lap(f, run_queue_head) /\ Lap(g, run_queue_head)'
             /\ g[0] = h /\ g[1] = t /\ \A i \in 2..(n + 1) : g[i] = f[i - 1]
    BY <1>1, <1>7, AddKeepsRing, SMTT(60)
  <2>2. PICK f \in [0..n -> Members], g \in [0..Queued' -> Members'] :
             /\ Lap(f, run_queue_head) /\ Lap(g, run_queue_head)'
             /\ g[0] = h /\ g[1] = t /\ \A i \in 2..(n + 1) : g[i] = f[i - 1]
    BY <2>1
  <2>3. h \in Members /\ h \in Members'
    BY <1>1, <1>5, <1>7 DEF RingInv
  <2>4. Listed = [k \in 1..n |-> f[k - 1]]
    BY <1>1, <2>2, <2>3, ListedIsLap
  <2>5. Listed' = [k \in 1..(n + 1) |-> g[k - 1]]
    BY <1>4, <1>5, <2>1, <2>2, <2>3
  <2>6. n \in Nat /\ n >= 1 /\ f[0] = h
    BY <1>1, <2>2, <2>3, QueuedNat DEF Lap
  <2> HIDE DEF n, h
  <2>7. /\ Listed \in Seq(Members) /\ Listed # <<>> /\ Len(Listed) = n
        /\ Head(Listed) = h /\ Tail(Listed) = [k \in 1..(n - 1) |-> f[k]]
    <3>1. \A k \in 1..n : k - 1 \in 0..n
      BY <2>6, SMTT(60)
    <3>2. Listed \in Seq(Members) /\ Len(Listed) = n /\ Listed[1] = h
      BY <2>4, <2>6, <3>1, SMTT(60)
    <3>3. Tail(Listed) = [k \in 1..(n - 1) |-> Listed[k + 1]]
      BY <2>6, <3>2, SMTT(60)
    <3>4. \A k \in 1..(n - 1) : Listed[k + 1] = f[k]
      <4>1. \A k \in 1..(n - 1) : k + 1 \in 1..n /\ (k + 1) - 1 = k
        BY <2>6, SMTT(60)
      <4> QED
        BY <2>4, <4>1
    <3> QED
      BY <2>6, <3>2, <3>3, <3>4, SMTT(60)
  <2> DEFINE new == <<h, t>> \o Tail(Listed)
  <2>8. new = [k \in 1..(n + 1) |-> g[k - 1]]
    <3>1. /\ Tail(Listed) \in Seq(Members) /\ Len(Tail(Listed)) = n - 1
          /\ \A k \in 1..(n - 1) : Tail(Listed)[k] = f[k]
      <4>1. Tail(Listed) \in Seq(Members) /\ Len(Tail(Listed)) = n - 1
        BY <2>7, SMTT(60)
      <4> QED
        BY <2>7, <4>1
    <3>2. /\ Len(new) = n + 1 /\ new[1] = h /\ new[2] = t
          /\ \A k \in 3..(n + 1) : new[k] = Tail(Listed)[k - 2]
      BY <2>6, <3>1, SMTT(60)
    <3>3. ASSUME NEW k \in 1..(n + 1)
          PROVE  new[k] = g[k - 1]
      <4>1. CASE k = 1 \/ k = 2
        BY <2>2, <3>2, <4>1, SMTT(60)
      <4>2. CASE k # 1 /\ k # 2
        <5>1. k \in 3..(n + 1) /\ k - 2 \in 1..(n - 1) /\ k - 1 \in 2..(n + 1) /\ (k - 1) - 1 = k - 2
          BY <2>6, <4>2, SMTT(60)
        <5>2. g[k - 1] = f[k - 2]
          BY <2>2, <5>1
        <5> QED
          BY <3>1, <3>2, <5>1, <5>2
      <4> QED
        BY <4>1, <4>2
    <3>4. new = [k \in 1..(n + 1) |-> new[k]]
      BY <2>6, <3>1, SMTT(60)
    <3> HIDE DEF new
    <3> QED
      BY <3>3, <3>4
  <2>9. Listed' = new
    BY <2>5, <2>8
  <2>10. Ring!AddAfterHead(Listed, t) = new
    BY <2>7 DEF Ring!AddAfterHead
  <2> QED
    BY <1>2, <2>9, <2>10 DEF Ring!Add
<1> QED
  BY <1>6, <1>7

\* While the links do not change, neither does the sequence.
LEMMA SameListed ==
  ASSUME UNCHANGED <<run_queue_head, next>>
  PROVE  Listed' = Listed
BY SMTT(60) DEF Listed, LapOf, Walk

\* The circular list of proc/sched.c implements the sequence the scheduler's
\* model is built on, for any number of tasks: sched_add_task inserts after
\* the first element, sched_pick_next picks what FirstReady picks.
THEOREM RunQueueImplements == Spec => ImplementsReadyQueue
<1>1. Init => Ring!Init
  BY DEF Init, Ring!Init, Listed
<1>2. IInv /\ [Next]_vars => [Ring!Next]_<<Listed, cursor, state>>
  <2> SUFFICES ASSUME IInv, [Next]_vars
               PROVE  Ring!Next \/ UNCHANGED <<Listed, cursor, state>>
    OBVIOUS
  <2>1. CASE Pick
    <3>1. /\ sched_pick_next # NULL /\ cursor' = sched_pick_next
          /\ state' = [state EXCEPT ![sched_pick_next] = "RUNNING"]
          /\ UNCHANGED <<run_queue_head, next>>
      BY <2>1 DEF Pick
    <3>2. run_queue_head # NULL
      BY <3>1 DEF sched_pick_next
    <3>3. Ring!FirstReady(Listed, cursor,
                          {u \in Ring!Range(Listed) : state[u] = "READY"}, NULL)
            = sched_pick_next
      BY <3>2, PickIsFirstReady DEF IInv
    <3>4. Listed' = Listed
      BY <3>1, SameListed
    <3>5. Ring!Pick
      BY <3>1, <3>3, <3>4 DEF Ring!Pick
    <3> QED
      BY <3>5 DEF Ring!Next
  <2>2. CASE \E t \in Tasks : cursor = NULL /\ sched_add_task(t)
    BY <2>2, AddIsAddAfterHead DEF Ring!Next
  <2>3. CASE \E t \in Tasks : Leave(t)
    <3>1. PICK t \in Tasks : Leave(t)
      BY <2>3
    <3>2. Listed' = Listed
      BY <3>1, SameListed DEF Leave
    <3>3. Ring!SetState(t)
      BY <3>1, <3>2 DEF Leave, Ring!SetState
    <3> QED
      BY <3>3 DEF Ring!Next
  <2>4. CASE \E t \in Tasks : Wake(t)
    <3>1. PICK t \in Tasks : Wake(t)
      BY <2>4
    <3>2. Listed' = Listed
      BY <3>1, SameListed DEF Wake
    <3>3. Ring!SetState(t)
      BY <3>1, <3>2 DEF Wake, Ring!SetState
    <3> QED
      BY <3>3 DEF Ring!Next
  <2>5. CASE UNCHANGED vars
    BY <2>5, SameListed DEF vars
  <2> QED
    BY <2>1, <2>2, <2>3, <2>4, <2>5 DEF Next
<1> QED
  BY <1>1, <1>2, RunQueueInv, PTL DEF Spec, ImplementsReadyQueue, Ring!Spec
=============================================================================
