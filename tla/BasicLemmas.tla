---------------------------- MODULE BasicLemmas ----------------------------
(***************************************************************************)
(* What the proofs about lines, searches, walks and loops rest on: the      *)
(* operators on sequences, element by element; first means least; a         *)
(* recurrence has exactly one solution; and induction up to a bound.        *)
(***************************************************************************)
EXTENDS Sequences, WellFoundedInduction, TLAPS

\* A sequence has a length and is a function on its places.
LEMMA LenIs ==
  ASSUME NEW S, NEW s \in Seq(S)
  PROVE  Len(s) \in Nat /\ s \in [1..Len(s) -> S] /\ DOMAIN s = 1..Len(s)
OBVIOUS

\* Only the empty sequence has no places.
LEMMA EmptyIs ==
  ASSUME NEW S
  PROVE  /\ <<>> \in Seq(S) /\ Len(<<>>) = 0
         /\ \A s \in Seq(S) : s # <<>> => Len(s) \in Nat \ {0}
OBVIOUS

\* Appending keeps what is there.
LEMMA AppendIs ==
  ASSUME NEW S, NEW s \in Seq(S), NEW e \in S
  PROVE  /\ Append(s, e) \in Seq(S) /\ Append(s, e) # <<>>
         /\ Len(Append(s, e)) = Len(s) + 1
         /\ \A i \in 1..Len(s) : Append(s, e)[i] = s[i]
         /\ Append(s, e)[Len(s) + 1] = e
OBVIOUS

\* One sequence behind the other.
LEMMA ConcatIs ==
  ASSUME NEW S, NEW s \in Seq(S), NEW t \in Seq(S)
  PROVE  /\ s \o t \in Seq(S) /\ Len(s \o t) = Len(s) + Len(t)
         /\ \A i \in 1..(Len(s) + Len(t)) :
              (s \o t)[i] = IF i <= Len(s) THEN s[i] ELSE t[i - Len(s)]
OBVIOUS

\* The piece from m to n.
LEMMA SubSeqIs ==
  ASSUME NEW S, NEW s, NEW m \in Int, NEW n \in Int, \A i \in m..n : s[i] \in S
  PROVE  /\ SubSeq(s, m, n) \in Seq(S)
         /\ Len(SubSeq(s, m, n)) = IF m <= n THEN n - m + 1 ELSE 0
         /\ \A i \in 1..(n - m + 1) : SubSeq(s, m, n)[i] = s[m + i - 1]
OBVIOUS

\* The first element and the others.
LEMMA HeadTailIs ==
  ASSUME NEW S, NEW s \in Seq(S), s # <<>>
  PROVE  /\ Head(s) \in S /\ Tail(s) \in Seq(S)
         /\ Len(Tail(s)) = Len(s) - 1
         /\ \A i \in 1..Len(Tail(s)) : Tail(s)[i] = s[i + 1]
OBVIOUS

\* A non-empty set of naturals has a least member.
LEMMA LeastNat ==
  ASSUME NEW T \in SUBSET Nat, T # {}
  PROVE  \E m \in T : \A n \in T : m <= n
<1>1. \E m \in T : \A n \in T : ~(<<n, m>> \in OpToRel(<, Nat))
  BY NatLessThanWellFounded, WFMin
<1>2. PICK m \in T : \A n \in T : ~(<<n, m>> \in OpToRel(<, Nat))
  BY <1>1
<1>3. \A n \in T : <<n, m>> \in OpToRel(<, Nat) <=> n < m
  BY DEF OpToRel
<1>4. \A n \in T : ~(n < m)
  BY <1>2, <1>3
<1>5. m \in Nat /\ \A n \in T : n \in Nat
  OBVIOUS
<1>6. \A n \in T : m <= n
  BY <1>4, <1>5
<1> QED
  BY <1>6

\* A recurrence has a solution: n steps, the i-th applying g[i].
LEMMA RecursionExists ==
  ASSUME NEW S, NEW a \in S, NEW n \in Nat, NEW g \in [1..n -> [S -> S]]
  PROVE  \E f \in [0..n -> S] : f[0] = a /\ \A i \in 1..n : f[i] = g[i][f[i - 1]]
<1> DEFINE solves(f, m) == f[0] = a /\ \A i \in 1..m : f[i] = g[i][f[i - 1]]
           bad == {m \in 0..n : ~\E f \in [0..m -> S] : solves(f, m)}
<1>1. CASE bad = {}
  <2>1. n \in 0..n
    OBVIOUS
  <2>2. \E f \in [0..n -> S] : solves(f, n)
    <3> HIDE DEF solves
    <3> QED
      BY <1>1, <2>1
  <2> QED
    BY <2>2
<1>2. CASE bad # {}
  <2>1. PICK m \in bad : \A k \in bad : m <= k
    <3>1. bad \in SUBSET Nat
      OBVIOUS
    <3> HIDE DEF bad
    <3> QED
      BY <1>2, <3>1, LeastNat
  <2>2. m \in 0..n /\ ~\E f \in [0..m -> S] : solves(f, m)
    OBVIOUS
  <2>3. CASE m = 0
    <3> DEFINE f == [i \in 0..0 |-> a]
    <3>1. f \in [0..0 -> S] /\ f[0] = a /\ 1..0 = {}
      OBVIOUS
    <3> HIDE DEF f
    <3>2. solves(f, 0)
      BY <3>1
    <3> HIDE DEF solves
    <3> QED
      BY <2>2, <2>3, <3>1, <3>2
  <2>4. CASE m # 0
    <3>1. m - 1 \in 0..n /\ ~(m <= m - 1) /\ m \in 1..n
      BY <2>2, <2>4
    <3>2. m - 1 \notin bad
      <4> HIDE DEF bad
      <4> QED
        BY <2>1, <3>1
    <3>3. PICK f \in [0..(m - 1) -> S] : solves(f, m - 1)
      <4> HIDE DEF solves
      <4> QED
        BY <3>1, <3>2
    <3> DEFINE h == [i \in 0..m |-> IF i = m THEN g[m][f[m - 1]] ELSE f[i]]
    <3>4. h \in [0..m -> S]
      <4>1. \A i \in 0..m : i # m => i \in 0..(m - 1)
        BY <2>2
      <4>2. f[m - 1] \in S /\ g[m] \in [S -> S]
        BY <3>1
      <4> QED
        BY <4>1, <4>2
    <3>5. h[0] = a
      BY <2>2, <2>4, <3>3
    <3>6. ASSUME NEW i \in 1..m
          PROVE  h[i] = g[i][h[i - 1]]
      <4>1. i \in 0..m /\ i - 1 \in 0..m /\ i - 1 # m
        BY <2>2
      <4>2. h[i - 1] = f[i - 1]
        BY <4>1
      <4>3. CASE i = m
        BY <4>1, <4>2, <4>3
      <4>4. CASE i # m
        <5>1. i \in 1..(m - 1)
          BY <2>2, <4>4
        <5> QED
          BY <3>3, <4>1, <4>2, <4>4, <5>1
      <4> QED
        BY <4>3, <4>4
    <3> HIDE DEF h
    <3>7. solves(h, m)
      BY <3>5, <3>6
    <3> HIDE DEF solves
    <3> QED
      BY <2>2, <3>4, <3>7
  <2> QED
    BY <2>3, <2>4
<1> QED
  BY <1>1, <1>2, ZenonT(60)

\* f runs through S from a, its i-th step applying g[i].
RunsIn(f, S, a, n, g) ==
  f \in [0..n -> S] /\ f[0] = a /\ \A i \in 1..n : f[i] = g[i][f[i - 1]]

\* The same, for loops.
LEMMA LoopRuns ==
  ASSUME NEW S, NEW a \in S, NEW n \in Nat, NEW g \in [1..n -> [S -> S]]
  PROVE  \E f : RunsIn(f, S, a, n, g)
<1>1. PICK f \in [0..n -> S] : f[0] = a /\ \A i \in 1..n : f[i] = g[i][f[i - 1]]
  BY RecursionExists
<1> QED
  BY <1>1 DEF RunsIn

\* It has only one: two solutions that start alike agree everywhere.
LEMMA RecursionUnique ==
  ASSUME NEW n \in Nat, NEW f, NEW h, f[0] = h[0],
         \A i \in 1..n : f[i - 1] = h[i - 1] => f[i] = h[i]
  PROVE  \A i \in 0..n : f[i] = h[i]
<1> DEFINE bad == {i \in 0..n : f[i] # h[i]}
<1> SUFFICES ASSUME bad # {}
             PROVE  FALSE
  OBVIOUS
<1>1. PICK m \in bad : \A k \in bad : m <= k
  <2>1. bad \in SUBSET Nat
    OBVIOUS
  <2> HIDE DEF bad
  <2> QED
    BY <2>1, LeastNat, ZenonT(60)
<1>2. m \in 0..n /\ f[m] # h[m]
  OBVIOUS
<1>3. m # 0
  BY <1>2
<1>4. m - 1 \in 0..n /\ ~(m <= m - 1) /\ m \in 1..n
  BY <1>2, <1>3
<1>5. f[m - 1] = h[m - 1]
  BY <1>1, <1>4
<1> QED
  BY <1>2, <1>4, <1>5

\* Induction, for a property given as the set of numbers that have it.
LEMMA InductionUpTo ==
  ASSUME NEW n \in Nat, NEW T, 0 \in T,
         \A i \in 1..n : i - 1 \in T => i \in T
  PROVE  \A i \in 0..n : i \in T
<1> DEFINE bad == {i \in 0..n : i \notin T}
<1> SUFFICES ASSUME bad # {}
             PROVE  FALSE
  OBVIOUS
<1>1. PICK m \in bad : \A k \in bad : m <= k
  <2>1. bad \in SUBSET Nat
    OBVIOUS
  <2> HIDE DEF bad
  <2> QED
    BY <2>1, LeastNat
<1>2. m \in 0..n /\ m \notin T /\ m # 0
  OBVIOUS
<1>3. m - 1 \in 0..n /\ ~(m <= m - 1) /\ m \in 1..n
  BY <1>2
<1>4. m - 1 \in T
  BY <1>1, <1>3
<1> QED
  BY <1>2, <1>3, <1>4
=============================================================================
