--------------------------- MODULE TerminalProofs ---------------------------
(***************************************************************************)
(* The line discipline first: a finished line has something to read, the    *)
(* buffer is the line the typed keys make, and a read hands out each byte   *)
(* of it once, for every buffer size and every typing.                      *)
(* Then what the human sees while typing, for every text that is printed    *)
(* meanwhile and every moment an interrupt comes at: the serial terminal    *)
(* shows the line that is edited.                                           *)
(***************************************************************************)
EXTENDS Terminal, BasicLemmas

USE ZenonT(60)

\* Until Enter the line leaves the last slot free and nothing of it is taken.
LdiscInv ==
  /\ ld \in LdiscType
  /\ ~ld.complete => Len(ld.buf) <= LDISC_BUF_SIZE - 1 /\ ld.consumed = 0
  /\ ReadyHasBytes

\* A line that starts anew satisfies it.
LEMMA FreshLine ==
  ASSUME ld = ldisc_init
  PROVE  LdiscInv
<1>1. ld.buf = <<>> /\ ld.consumed = 0 /\ ld.complete = FALSE
  BY DEF ldisc_init
<1>2. ld \in LdiscType
  BY EmptyIs DEF ldisc_init, LdiscType
<1>3. Len(ld.buf) <= LDISC_BUF_SIZE - 1
  BY <1>1, EmptyIs, LdiscAssumption, SMTT(60)
<1> QED
  BY <1>1, <1>2, <1>3 DEF LdiscInv, ReadyHasBytes, ldisc_ready

\* A key keeps it: the newline always finds the slot kept for it.
LEMMA FeedKeepsRoom ==
  ASSUME LdiscInv, NEW byte \in Bytes, ld' = ldisc_feed(ld, byte)
  PROVE  LdiscInv'
<1>1. /\ ld.buf \in Seq(LineBytes) /\ ld.consumed \in Nat /\ ld.complete \in BOOLEAN
      /\ ld = [buf |-> ld.buf, consumed |-> ld.consumed, complete |-> ld.complete]
  BY DEF LdiscInv, LdiscType
<1>2. Len(ld.buf) \in Nat
  BY <1>1, LenIs
<1>3. CASE ld.complete
  BY <1>3 DEF LdiscInv, ReadyHasBytes, ldisc_feed, ldisc_ready
<1>4. CASE ~ld.complete /\ byte = "nl"
  <2>1. Len(ld.buf) < LDISC_BUF_SIZE /\ ld.consumed = 0
    BY <1>2, <1>4, LdiscAssumption, SMTT(60) DEF LdiscInv
  <2>2. ld' = [buf |-> Append(ld.buf, "nl"), consumed |-> ld.consumed, complete |-> TRUE]
    BY <1>1, <1>4, <2>1, LdiscAssumption DEF ldisc_feed, Storable
  <2>3. /\ Append(ld.buf, "nl") \in Seq(LineBytes)
        /\ Len(Append(ld.buf, "nl")) = Len(ld.buf) + 1
        /\ Append(ld.buf, "nl")[Len(ld.buf) + 1] = "nl"
    BY <1>1, AppendIs, SMTT(60) DEF LineBytes
  <2>4. ld' \in LdiscType
    BY <1>1, <2>2, <2>3, SMTT(60) DEF LdiscType
  <2>5. ReadyHasBytes'
    BY <1>2, <2>1, <2>2, <2>3, LdiscAssumption, SMTT(60) DEF ReadyHasBytes, ldisc_ready
  <2> QED
    BY <2>2, <2>4, <2>5, SMTT(60) DEF LdiscInv
<1>5. CASE ~ld.complete /\ byte # "nl"
  <2>1. /\ Len(ld.buf) <= LDISC_BUF_SIZE - 1 /\ ld.consumed = 0
    BY <1>5 DEF LdiscInv
  <2>2. ASSUME NEW b \in Seq(LineBytes), Len(b) <= LDISC_BUF_SIZE - 1,
               ld' = [ld EXCEPT !.buf = b]
        PROVE  LdiscInv'
    <3>1. ld' = [buf |-> b, consumed |-> 0, complete |-> FALSE]
      BY <1>1, <1>5, <2>1, <2>2
    <3>2. ld' \in LdiscType
      BY <3>1, SMTT(60) DEF LdiscType
    <3> QED
      BY <2>2, <3>1, <3>2, SMTT(60) DEF LdiscInv, ReadyHasBytes, ldisc_ready
  <2>3. CASE byte = "bs" /\ ld.buf # <<>>
    <3> DEFINE b == SubSeq(ld.buf, 1, Len(ld.buf) - 1)
    <3>1. ld' = [ld EXCEPT !.buf = b]
      BY <1>5, <2>3, LdiscAssumption DEF ldisc_feed, Storable
    <3>2. Len(ld.buf) - 1 \in Nat
      BY <1>1, <1>2, <2>3, EmptyIs, SMTT(60)
    <3>3. b \in Seq(LineBytes) /\ Len(b) = Len(ld.buf) - 1
      <4>1. \A i \in 1..(Len(ld.buf) - 1) : ld.buf[i] \in LineBytes
        BY <1>1, <1>2, <3>2, SMTT(60)
      <4>2. /\ b \in Seq(LineBytes)
            /\ Len(b) = IF 1 <= Len(ld.buf) - 1 THEN (Len(ld.buf) - 1) - 1 + 1 ELSE 0
        BY <1>2, <4>1, SubSeqIs, SMTT(60)
      <4> HIDE DEF b
      <4> QED
        BY <1>2, <3>2, <4>2, SMTT(60)
    <3>4. Len(b) <= LDISC_BUF_SIZE - 1
      BY <1>2, <2>1, <3>3, LdiscAssumption, SMTT(60)
    <3> HIDE DEF b
    <3> QED
      BY <2>2, <3>1, <3>3, <3>4
  <2>4. CASE byte \in Chars /\ Len(ld.buf) < Room
    <3> DEFINE b == Append(ld.buf, byte)
    <3>1. ld' = [ld EXCEPT !.buf = b]
      BY <1>5, <2>4, LdiscAssumption DEF ldisc_feed, Storable
    <3>2. b \in Seq(LineBytes) /\ Len(b) = Len(ld.buf) + 1
      BY <1>1, <2>4, AppendIs, SMTT(60) DEF LineBytes
    <3>3. Len(b) <= LDISC_BUF_SIZE - 1
      BY <1>2, <2>4, <3>2, LdiscAssumption, SMTT(60) DEF Room
    <3> HIDE DEF b
    <3> QED
      BY <2>2, <3>1, <3>2, <3>3
  <2>5. CASE ~(byte = "bs" /\ ld.buf # <<>>) /\ ~(byte \in Chars /\ Len(ld.buf) < Room)
    <3>1. ld' = [ld EXCEPT !.buf = ld.buf]
      BY <1>1, <1>5, <2>5, LdiscAssumption DEF ldisc_feed, Storable
    <3> QED
      BY <1>1, <2>1, <2>2, <3>1
  <2> QED
    BY <2>3, <2>4, <2>5
<1> QED
  BY <1>3, <1>4, <1>5

\* A read keeps it: it starts a fresh line exactly when it takes the last
\* byte.
LEMMA DrainKeepsBytes ==
  ASSUME LdiscInv, NEW size \in Nat, ld' = ldisc_drain(ld, size)
  PROVE  LdiscInv'
<1>1. /\ ld.buf \in Seq(LineBytes) /\ ld.consumed \in Nat /\ ld.complete \in BOOLEAN
      /\ ld = [buf |-> ld.buf, consumed |-> ld.consumed, complete |-> ld.complete]
  BY DEF LdiscInv, LdiscType
<1>2. Len(ld.buf) \in Nat
  BY <1>1, LenIs
<1> DEFINE next == ld.consumed + DrainCount(ld, size)
<1>3. CASE ~ld.complete
  BY <1>3 DEF LdiscInv, ReadyHasBytes, ldisc_drain, ldisc_ready
<1>4. CASE ld.complete /\ next = Len(ld.buf)
  <2>1. ld' = ldisc_init
    BY <1>4 DEF ldisc_drain
  <2>2. /\ ld'.buf = <<>> /\ ld'.consumed = 0 /\ ld'.complete = FALSE
        /\ ld' \in LdiscType
    BY <2>1, EmptyIs, SMTT(60) DEF ldisc_init, LdiscType
  <2> QED
    BY <2>2, EmptyIs, LdiscAssumption, SMTT(60) DEF LdiscInv, ReadyHasBytes, ldisc_ready
<1>5. CASE ld.complete /\ next # Len(ld.buf)
  <2>1. next \in Nat /\ next < Len(ld.buf)
    BY <1>1, <1>2, <1>5, SMTT(60) DEF DrainCount, LdiscInv, ReadyHasBytes, ldisc_ready
  <2>2. ld' = [buf |-> ld.buf, consumed |-> next, complete |-> TRUE]
    BY <1>1, <1>5 DEF ldisc_drain
  <2> HIDE DEF next
  <2>3. ld' \in LdiscType
    BY <1>1, <2>1, <2>2, SMTT(60) DEF LdiscType
  <2> QED
    BY <1>5, <2>1, <2>2, <2>3, SMTT(60) DEF LdiscInv, ReadyHasBytes, ldisc_ready
<1> QED
  BY <1>3, <1>4, <1>5

\* Whenever a line is finished it has a byte left to read and ends in the
\* newline, also after more was typed than fits: console_dev_ops_read never
\* returns 0 for a finished line.
THEOREM FinishedLineHasBytes == Spec => []ReadyHasBytes
<1>1. Init => LdiscInv
  BY FreshLine DEF Init
<1>2. LdiscInv /\ [Next]_vars => LdiscInv'
  <2> SUFFICES ASSUME LdiscInv, [Next]_vars PROVE LdiscInv'
    OBVIOUS
  <2>1. ASSUME NEW byte \in Bytes, Type(byte) PROVE LdiscInv'
    BY <2>1, FeedKeepsRoom DEF Type
  <2>2. ASSUME NEW size \in ReadSizes, Drain(size) PROVE LdiscInv'
    BY <2>2, ReadSizesAssumption, DrainKeepsBytes DEF Drain
  <2>3. CASE UNCHANGED vars
    BY <2>3 DEF vars, LdiscInv, ReadyHasBytes, ldisc_ready
  <2> QED
    BY <2>1, <2>2, <2>3 DEF Next
<1>3. LdiscInv => ReadyHasBytes
  BY DEF LdiscInv
<1> QED
  BY <1>1, <1>2, <1>3, PTL DEF Spec

-----------------------------------------------------------------------------
(***************************************************************************)
(* Editing.  LengthAfter is a recursive function and Edited chooses keys by *)
(* it; what they compute is proved for every sequence of keys.              *)
(***************************************************************************)
\* How one key changes the length of the line.
KeyLength(key, len) ==
  IF key = "bs" /\ len > 0 THEN len - 1
  ELSE IF key \in Chars /\ len < LDISC_BUF_SIZE - 1 THEN len + 1
  ELSE len

\* f is the length of the line before and after each key.
Lengths(f, ks) ==
  /\ f \in [0..Len(ks) -> Nat]
  /\ f[0] = 0
  /\ \A i \in 1..Len(ks) : f[i] = KeyLength(ks[i], f[i - 1])

\* LengthAfter computes them.
LEMMA LengthAfterComputes ==
  ASSUME NEW ks \in Seq(Bytes)
  PROVE  Lengths(LengthAfter(ks), ks)
<1> DEFINE n == Len(ks)
           rhs(f, i) == IF i = 0 THEN 0
                        ELSE IF ks[i] = "bs" /\ f[i - 1] > 0 THEN f[i - 1] - 1
                        ELSE IF ks[i] \in Chars /\ f[i - 1] < LDISC_BUF_SIZE - 1 THEN f[i - 1] + 1
                        ELSE f[i - 1]
           g == [i \in 1..n |-> [x \in Nat |-> KeyLength(ks[i], x)]]
<1>1. n \in Nat
  BY LenIs
<1>2. \A key, x : x \in Nat => KeyLength(key, x) \in Nat
  BY SMTT(60) DEF KeyLength
<1>3. g \in [1..n -> [Nat -> Nat]]
  BY <1>2
<1>4. PICK f \in [0..n -> Nat] : f[0] = 0 /\ \A i \in 1..n : f[i] = g[i][f[i - 1]]
  <2> DEFINE S == Nat
             a == 0
  <2>1. a \in S /\ n \in Nat /\ g \in [1..n -> [S -> S]]
    BY <1>1, <1>3
  <2> HIDE DEF g, n, S, a
  <2>2. \E f : RunsIn(f, S, a, n, g)
    BY <2>1, LoopRuns
  <2> QED
    BY <2>2 DEF S, a, RunsIn
<1>5. \A i \in 0..n : i # 0 => i \in 1..n /\ i - 1 \in 0..n
  BY <1>1, SMTT(60)
<1>6. f = [i \in 0..n |-> rhs(f, i)]
  <2>1. ASSUME NEW i \in 0..n
        PROVE  f[i] = rhs(f, i)
    <3>1. CASE i = 0
      BY <1>4, <3>1
    <3>2. CASE i # 0
      <4>1. i \in 1..n /\ f[i - 1] \in Nat
        BY <1>4, <1>5, <3>2
      <4>2. f[i] = KeyLength(ks[i], f[i - 1])
        BY <1>4, <4>1
      <4> QED
        BY <3>2, <4>2 DEF KeyLength
    <3> QED
      BY <3>1, <3>2
  <2> QED
    BY <2>1
<1> DEFINE len == CHOOSE h : h = [i \in 0..n |-> rhs(h, i)]
<1>7. len = [i \in 0..n |-> rhs(len, i)]
  BY <1>6
<1>8. LengthAfter(ks) = len
  BY DEF LengthAfter
<1> HIDE DEF len
<1>9. len[0] = 0 /\ \A i \in 1..n : len[i] = KeyLength(ks[i], len[i - 1])
  <2>1. \A i \in 1..n : i \in 0..n /\ i # 0
    BY <1>1, SMTT(60)
  <2>2. 0 \in 0..n
    BY <1>1, SMTT(60)
  <2> QED
    BY <1>7, <2>1, <2>2 DEF KeyLength
<1>10. \A i \in 0..n : len[i] = f[i]
  <2>1. \A i \in 1..n : f[i] = KeyLength(ks[i], f[i - 1])
    <3>1. \A i \in 1..n : f[i - 1] \in Nat
      BY <1>1, <1>4, SMTT(60)
    <3> QED
      BY <1>4, <3>1
  <2>2. \A i \in 1..n : len[i - 1] = f[i - 1] => len[i] = f[i]
    BY <1>9, <2>1
  <2>3. len[0] = f[0]
    BY <1>4, <1>9
  <2> DEFINE T == {i \in 0..n : len[i] = f[i]}
  <2>4. 0 \in T /\ \A i \in 1..n : i - 1 \in T => i \in T
    BY <1>1, <2>2, <2>3, SMTT(60)
  <2>5. \A i \in 0..n : i \in T
    <3> HIDE DEF T, n
    <3> QED
      BY <1>1, <2>4, InductionUpTo
  <2> QED
    BY <2>5
<1>11. len \in [0..n -> Nat]
  <2>1. DOMAIN len = 0..n /\ len = [i \in 0..n |-> len[i]]
    BY <1>7
  <2> QED
    BY <1>10, <2>1
<1> QED
  BY <1>8, <1>9, <1>11 DEF Lengths

\* The key that contributes the p-th byte: it made the line p long, and the
\* line was never shorter afterwards.
KeptBy(ks, f, i, p) ==
  f[i] = p /\ f[i - 1] = p - 1 /\ \A j \in i..Len(ks) : f[j] >= p

\* There is exactly one such key for every byte of the line.
LEMMA KeptByOne ==
  ASSUME NEW ks \in Seq(Bytes), NEW f, Lengths(f, ks), NEW p \in 1..f[Len(ks)]
  PROVE  /\ \E i \in 1..Len(ks) : KeptBy(ks, f, i, p)
         /\ \A i, k \in 1..Len(ks) : KeptBy(ks, f, i, p) /\ KeptBy(ks, f, k, p) => i = k
<1> DEFINE n == Len(ks)
<1>1. n \in Nat /\ f \in [0..n -> Nat] /\ f[0] = 0 /\ f[n] \in Nat /\ p \in Nat /\ p >= 1
  BY LenIs, SMTT(60) DEF Lengths
<1>2. \E i \in 1..n : KeptBy(ks, f, i, p)
  <2> DEFINE back == {d \in 0..n : f[n - d] < p}
  <2>1. n \in back
    BY <1>1, SMTT(60)
  <2>2. PICK d \in back : \A e \in back : d <= e
    <3>1. back \in SUBSET Nat /\ back # {}
      <4>1. \A e \in 0..n : e \in Nat
        BY <1>1, SMTT(60)
      <4> QED
        BY <2>1, <4>1
    <3> HIDE DEF back
    <3> QED
      BY <3>1, LeastNat
  <2>3. d \in 0..n /\ f[n - d] < p /\ d # 0
    BY <1>1, <2>2, SMTT(60)
  <2> DEFINE i == n - d + 1
  <2>4. i \in 1..n /\ i - 1 \in 0..n /\ i - 1 = n - d
    BY <1>1, <2>3, SMTT(60)
  <2>5. ASSUME NEW j \in i..n
        PROVE  f[j] >= p
    <3>1. n - j \in 0..n /\ ~(d <= n - j) /\ n - (n - j) = j /\ j \in 0..n
      BY <1>1, <2>3, <2>4, SMTT(60)
    <3>2. n - j \notin back
      <4> HIDE DEF back
      <4> QED
        BY <2>2, <3>1
    <3>3. ~(f[j] < p) /\ f[j] \in Nat
      BY <1>1, <3>1, <3>2
    <3> QED
      BY <1>1, <3>3, SMTT(60)
  <2>6. f[i] >= p /\ f[i - 1] < p
    <3>1. i \in i..n
      BY <1>1, <2>4, SMTT(60)
    <3> HIDE DEF i
    <3>2. f[i] >= p
      BY <2>5, <3>1
    <3> QED
      BY <2>3, <2>4, <3>2
  <2> HIDE DEF i
  <2>7. f[i] = KeyLength(ks[i], f[i - 1]) /\ f[i] \in Nat /\ f[i - 1] \in Nat
    <3>1. i \in 0..n
      BY <1>1, <2>4, SMTT(60)
    <3> QED
      BY <1>1, <2>4, <3>1 DEF Lengths
  <2>8. f[i] <= f[i - 1] + 1
    BY <2>7, LdiscAssumption, SMTT(60) DEF KeyLength
  <2>9. f[i] = p /\ f[i - 1] = p - 1
    <3>1. p \in Nat /\ f[i] \in Nat /\ f[i - 1] \in Nat
      BY <1>1, <2>7
    <3> QED
      BY <2>6, <2>8, <3>1, SMTT(60)
  <2> QED
    BY <2>4, <2>5, <2>9 DEF KeptBy
<1>3. ASSUME NEW i \in 1..n, NEW k \in 1..n, i < k,
             KeptBy(ks, f, i, p), KeptBy(ks, f, k, p)
      PROVE  FALSE
  <2>1. k - 1 \in i..n
    BY <1>1, <1>3, SMTT(60)
  <2>2. f[k - 1] >= p /\ f[k - 1] = p - 1
    BY <1>3, <2>1 DEF KeptBy
  <2> QED
    BY <1>1, <2>2, SMTT(60)
<1>4. \A i, k \in 1..n : i < k \/ k < i \/ i = k
  BY <1>1, SMTT(60)
<1> QED
  BY <1>2, <1>3, <1>4

\* Edited in those terms.
LEMMA EditedIs ==
  ASSUME NEW ks \in Seq(Bytes)
  PROVE  LET f == LengthAfter(ks)
         IN  /\ Edited(ks) = [p \in 1..f[Len(ks)] |-> Edited(ks)[p]]
             /\ \A p \in 1..f[Len(ks)], i \in 1..Len(ks) :
                  KeptBy(ks, f, i, p) => Edited(ks)[p] = ks[i]
             /\ \A p \in 1..f[Len(ks)] : \E i \in 1..Len(ks) : KeptBy(ks, f, i, p)
<1> DEFINE f == LengthAfter(ks)
           n == Len(ks)
<1>1. Lengths(f, ks)
  BY LengthAfterComputes
<1>2. Edited(ks) = [p \in 1..f[n] |-> ks[CHOOSE i \in 1..n : KeptBy(ks, f, i, p)]]
  BY DEF Edited, KeptBy
<1> HIDE DEF f, n
<1>3. ASSUME NEW p \in 1..f[n]
      PROVE  \E i \in 1..n : KeptBy(ks, f, i, p)
  BY <1>1, KeptByOne DEF n
<1>4. ASSUME NEW p \in 1..f[n], NEW i \in 1..n, KeptBy(ks, f, i, p)
      PROVE  Edited(ks)[p] = ks[i]
  <2> DEFINE c == CHOOSE k \in 1..n : KeptBy(ks, f, k, p)
  <2>1. c \in 1..n /\ KeptBy(ks, f, c, p)
    BY <1>4
  <2> HIDE DEF c
  <2>2. c = i
    BY <1>1, <1>4, <2>1, KeptByOne DEF n
  <2>3. Edited(ks)[p] = ks[c]
    BY <1>2 DEF c
  <2> QED
    BY <2>2, <2>3
<1>5. Edited(ks) = [p \in 1..f[n] |-> Edited(ks)[p]]
  BY <1>2
<1> QED
  BY <1>3, <1>4, <1>5 DEF f, n

\* A further key: the bytes before the shorter of the two lengths stay, and
\* a key that lengthens the line is its new last byte.
LEMMA EditedOneMore ==
  ASSUME NEW ks \in Seq(Bytes), NEW b \in Bytes
  PROVE  LET e == Edited(ks)
             e2 == Edited(Append(ks, b))
         IN  /\ e \in Seq(Bytes) /\ e2 \in Seq(Bytes)
             /\ Len(e2) = KeyLength(b, Len(e))
             /\ \A p \in 1..Len(e) : p <= Len(e2) => e2[p] = e[p]
             /\ Len(e2) = Len(e) + 1 => e2[Len(e2)] = b
<1> DEFINE n == Len(ks)
           ks2 == Append(ks, b)
           f == LengthAfter(ks)
           f2 == LengthAfter(ks2)
           e == Edited(ks)
           e2 == Edited(ks2)
<1>1. /\ ks2 \in Seq(Bytes) /\ n \in Nat /\ Len(ks2) = n + 1 /\ ks2[n + 1] = b
      /\ \A i \in 1..n : ks2[i] = ks[i]
  BY AppendIs, LenIs, SMTT(60)
<1> HIDE DEF ks2
<1>2. Lengths(f, ks) /\ Lengths(f2, ks2)
  BY <1>1, LengthAfterComputes
<1>3. /\ e = [p \in 1..f[n] |-> e[p]]
      /\ \A p \in 1..f[n], i \in 1..n : KeptBy(ks, f, i, p) => e[p] = ks[i]
      /\ \A p \in 1..f[n] : \E i \in 1..n : KeptBy(ks, f, i, p)
  BY EditedIs
<1>4. /\ e2 = [p \in 1..f2[n + 1] |-> e2[p]]
      /\ \A p \in 1..f2[n + 1], i \in 1..(n + 1) : KeptBy(ks2, f2, i, p) => e2[p] = ks2[i]
      /\ \A p \in 1..f2[n + 1] : \E i \in 1..(n + 1) : KeptBy(ks2, f2, i, p)
  BY <1>1, EditedIs, SMTT(60)
<1> HIDE DEF f, f2, e, e2
<1>5. /\ f \in [0..n -> Nat] /\ f2 \in [0..(n + 1) -> Nat] /\ f[0] = 0 /\ f2[0] = 0
      /\ \A i \in 1..n : f[i] = KeyLength(ks[i], f[i - 1])
      /\ \A i \in 1..(n + 1) : f2[i] = KeyLength(ks2[i], f2[i - 1])
  BY <1>1, <1>2 DEF Lengths
<1> HIDE DEF n
<1>6. \A i \in 0..n : f2[i] = f[i]
  <2>1. \A i \in 1..n : i \in 1..(n + 1)
    BY <1>1, SMTT(60)
  <2>2. \A i \in 1..n : f2[i - 1] = f[i - 1] => f2[i] = f[i]
    BY <1>1, <1>5, <2>1
  <2>3. f2[0] = f[0]
    BY <1>5
  <2> DEFINE T == {i \in 0..n : f2[i] = f[i]}
  <2>4. n \in Nat /\ 0 \in T /\ \A i \in 1..n : i - 1 \in T => i \in T
    BY <1>1, <2>2, <2>3, SMTT(60)
  <2>5. \A i \in 0..n : i \in T
    <3> HIDE DEF T
    <3> QED
      BY <2>4, InductionUpTo
  <2> QED
    BY <2>5
<1>7. f[n] \in Nat /\ f2[n + 1] \in Nat /\ f2[n + 1] = KeyLength(b, f[n])
  <2>1. n \in 0..n /\ n + 1 \in 0..(n + 1) /\ n + 1 \in 1..(n + 1) /\ (n + 1) - 1 = n
    BY <1>1, SMTT(60)
  <2> QED
    BY <1>1, <1>5, <1>6, <2>1, SMTT(60)
<1>8. e \in Seq(Bytes) /\ Len(e) = f[n]
  <2>1. \A i \in 1..n : ks[i] \in Bytes
    BY SMTT(60) DEF n
  <2>2. \A p \in 1..f[n] : e[p] \in Bytes
    BY <1>3, <2>1
  <2>3. e \in [1..f[n] -> Bytes]
    BY <1>3, <2>2
  <2> QED
    BY <1>7, <2>3, SMTT(60)
<1>9. e2 \in Seq(Bytes) /\ Len(e2) = f2[n + 1]
  <2>1. \A i \in 1..(n + 1) : ks2[i] \in Bytes
    BY <1>1, SMTT(60)
  <2>2. \A p \in 1..f2[n + 1] : e2[p] \in Bytes
    BY <1>4, <2>1
  <2>3. e2 \in [1..f2[n + 1] -> Bytes]
    BY <1>4, <2>2
  <2> QED
    BY <1>7, <2>3, SMTT(60)
<1>10. ASSUME NEW p \in 1..f[n], p <= f2[n + 1]
       PROVE  e2[p] = e[p]
  <2>1. PICK i \in 1..n : KeptBy(ks, f, i, p)
    BY <1>3
  <2>2. i \in 0..n /\ i - 1 \in 0..n /\ i \in 1..(n + 1) /\ p \in 1..f2[n + 1]
    BY <1>1, <1>7, <1>10, SMTT(60)
  <2>3. f2[i] = p /\ f2[i - 1] = p - 1
    BY <1>6, <2>1, <2>2 DEF KeptBy
  <2>4. ASSUME NEW j \in i..Len(ks2)
        PROVE  f2[j] >= p
    <3>1. j = n + 1 \/ (j \in i..Len(ks) /\ j \in 0..n)
      BY <1>1, SMTT(60) DEF n
    <3>2. CASE j = n + 1
      BY <1>7, <1>10, <3>2
    <3>3. CASE j \in i..Len(ks) /\ j \in 0..n
      BY <1>6, <2>1, <3>3 DEF KeptBy
    <3> QED
      BY <3>1, <3>2, <3>3
  <2>5. KeptBy(ks2, f2, i, p)
    BY <2>3, <2>4 DEF KeptBy
  <2>6. e2[p] = ks2[i] /\ e[p] = ks[i]
    BY <1>3, <1>4, <2>1, <2>2, <2>5
  <2> QED
    BY <1>1, <2>6
<1>11. ASSUME f2[n + 1] = f[n] + 1
       PROVE  e2[f2[n + 1]] = b
  <2>1. n + 1 \in 1..(n + 1) /\ f2[n + 1] \in 1..f2[n + 1] /\ (n + 1) - 1 = n /\ n \in 0..n
    BY <1>1, <1>7, <1>11, SMTT(60)
  <2>2. \A j \in (n + 1)..Len(ks2) : j = n + 1
    BY <1>1, SMTT(60)
  <2>3. f2[(n + 1) - 1] = f2[n + 1] - 1
    BY <1>6, <1>7, <1>11, <2>1, SMTT(60)
  <2>4. KeptBy(ks2, f2, n + 1, f2[n + 1])
    BY <1>7, <2>2, <2>3, SMTT(60) DEF KeptBy
  <2> QED
    BY <1>1, <1>4, <2>1, <2>4
<1>12. \A p \in 1..Len(e) : p <= Len(e2) => e2[p] = e[p]
  BY <1>8, <1>9, <1>10
<1>13. Len(e2) = Len(e) + 1 => e2[Len(e2)] = b
  BY <1>8, <1>9, <1>11
<1>14. Len(e2) = KeyLength(b, Len(e))
  BY <1>7, <1>8, <1>9
<1> QED
  BY <1>8, <1>9, <1>12, <1>13, <1>14 DEF e, e2, ks2

\* Nothing typed, nothing in the line.
LEMMA EditedNothing == Edited(<<>>) = <<>>
<1>1. <<>> \in Seq(Bytes) /\ Len(<<>>) = 0
  BY EmptyIs
<1>2. LengthAfter(<<>>)[0] = 0
  BY <1>1, LengthAfterComputes DEF Lengths
<1>3. Edited(<<>>) = [p \in 1..LengthAfter(<<>>)[Len(<<>>)] |-> Edited(<<>>)[p]]
  BY <1>1, EditedIs
<1>4. LengthAfter(<<>>)[Len(<<>>)] = 0
  BY <1>1, <1>2
<1>5. 1..0 = {}
  BY SMTT(60)
<1> DEFINE e == Edited(<<>>)
<1>6. e = [p \in 1..0 |-> e[p]]
  BY <1>3, <1>4, SMTT(60)
<1> HIDE DEF e
<1>7. e = <<>>
  BY <1>6, SMTT(60)
<1> QED
  BY <1>7 DEF e

\* ldisc_feed edits the buffer as the keys say.
LEMMA FeedEdits ==
  ASSUME NEW ks \in Seq(Bytes), NEW byte \in Bytes, byte # "nl",
         LdiscInv, ~ld.complete, ld.buf = Edited(ks)
  PROVE  ldisc_feed(ld, byte).buf = Edited(Append(ks, byte))
<1> DEFINE e == Edited(ks)
           e2 == Edited(Append(ks, byte))
           new == ldisc_feed(ld, byte).buf
<1>1. /\ e \in Seq(Bytes) /\ e2 \in Seq(Bytes)
      /\ Len(e2) = KeyLength(byte, Len(e))
      /\ \A p \in 1..Len(e) : p <= Len(e2) => e2[p] = e[p]
      /\ Len(e2) = Len(e) + 1 => e2[Len(e2)] = byte
  BY EditedOneMore
<1>2. /\ ld.buf = e /\ Len(e) \in Nat /\ Len(e2) \in Nat
      /\ ld = [buf |-> e, consumed |-> ld.consumed, complete |-> ld.complete]
  BY <1>1, LenIs DEF LdiscInv, LdiscType
<1> HIDE DEF e, e2
<1>3. CASE byte = "bs" /\ e # <<>>
  <2>1. new = SubSeq(e, 1, Len(e) - 1)
    BY <1>2, <1>3, LdiscAssumption DEF ldisc_feed, Storable
  <2>2. Len(e) > 0
    BY <1>1, <1>2, <1>3, EmptyIs, SMTT(60)
  <2>3. Len(e2) = Len(e) - 1
    BY <1>1, <1>2, <1>3, <2>2 DEF KeyLength
  <2>4. \A p \in 1..(Len(e) - 1) : e2[p] = e[p]
    BY <1>1, <1>2, <2>3, SMTT(60)
  <2>5. e2 = [p \in 1..(Len(e) - 1) |-> e2[p]]
    BY <1>1, <2>3, SMTT(60)
  <2>6. SubSeq(e, 1, Len(e) - 1) = [p \in 1..(Len(e) - 1) |-> e[p]]
    BY <1>1, <1>2, <2>2, SMTT(60)
  <2> QED
    BY <2>1, <2>4, <2>5, <2>6 DEF e2
<1>4. CASE byte \in Chars /\ Len(e) < Room
  <2>1. new = Append(e, byte)
    BY <1>2, <1>4, LdiscAssumption DEF ldisc_feed, Storable
  <2>2. Len(e2) = Len(e) + 1
    BY <1>1, <1>2, <1>4, LdiscAssumption DEF KeyLength, Room
  <2>3. \A p \in 1..(Len(e) + 1) : e2[p] = Append(e, byte)[p]
    <3>1. \A p \in 1..(Len(e) + 1) : p = Len(e) + 1 \/ p \in 1..Len(e)
      BY <1>2, SMTT(60)
    <3>2. /\ \A p \in 1..Len(e) : Append(e, byte)[p] = e[p]
          /\ Append(e, byte)[Len(e) + 1] = byte
      BY <1>1, AppendIs, SMTT(60)
    <3>3. \A p \in 1..Len(e) : e2[p] = e[p]
      BY <1>1, <1>2, <2>2, SMTT(60)
    <3> QED
      BY <1>1, <2>2, <3>1, <3>2, <3>3
  <2>4. e2 = [p \in 1..(Len(e) + 1) |-> e2[p]]
    BY <1>1, <2>2, SMTT(60)
  <2> DEFINE a == Append(e, byte)
  <2>5. a = [p \in 1..(Len(e) + 1) |-> a[p]]
    <3>1. a \in Seq(Bytes) /\ Len(a) = Len(e) + 1
      BY <1>1, AppendIs, SMTT(60)
    <3> HIDE DEF a
    <3> QED
      BY <3>1, SMTT(60)
  <2> HIDE DEF a
  <2>6. e2 = a
    BY <2>3, <2>4, <2>5 DEF a
  <2> QED
    BY <2>1, <2>6 DEF a, e2
<1>5. CASE ~(byte = "bs" /\ e # <<>>) /\ ~(byte \in Chars /\ Len(e) < Room)
  <2>1. new = e
    BY <1>2, <1>5, LdiscAssumption DEF ldisc_feed, Storable
  <2>2. Len(e2) = Len(e)
    BY <1>1, <1>2, <1>5, EmptyIs, LdiscAssumption, SMTT(60) DEF KeyLength, Room
  <2>3. e2 = [p \in 1..Len(e) |-> e2[p]] /\ e = [p \in 1..Len(e) |-> e[p]]
    BY <1>1, <2>2, SMTT(60)
  <2>4. \A p \in 1..Len(e) : e2[p] = e[p]
    BY <1>1, <1>2, <2>2, SMTT(60)
  <2>5. e2 = e
    BY <2>3, <2>4
  <2> QED
    BY <2>1, <2>5 DEF e2
<1> QED
  BY <1>3, <1>4, <1>5

-----------------------------------------------------------------------------
\* Reading on where the last read stopped extends the prefix handed out.
LEMMA PrefixGrows ==
  ASSUME NEW S, NEW s \in Seq(S), NEW c \in Nat, NEW k \in Nat, c + k <= Len(s)
  PROVE  /\ SubSeq(s, 1, c) \o SubSeq(s, c + 1, c + k) = SubSeq(s, 1, c + k)
         /\ Len(SubSeq(s, 1, c + k)) = c + k
         /\ SubSeq(s, 1, c + k) \in Seq(S)
<1> DEFINE a == SubSeq(s, 1, c)
           b == SubSeq(s, c + 1, c + k)
           w == SubSeq(s, 1, c + k)
<1>1. Len(s) \in Nat /\ \A i \in 1..Len(s) : s[i] \in S
  BY LenIs
<1>2. a \in Seq(S) /\ Len(a) = c /\ \A i \in 1..c : a[i] = s[i]
  BY <1>1, SMTT(60)
<1>3. b \in Seq(S) /\ Len(b) = k /\ \A i \in 1..k : b[i] = s[c + i]
  BY <1>1, SMTT(60)
<1>4. w \in Seq(S) /\ Len(w) = c + k /\ \A i \in 1..(c + k) : w[i] = s[i]
  BY <1>1, SMTT(60)
<1> HIDE DEF a, b, w
<1>5. /\ a \o b \in Seq(S) /\ Len(a \o b) = c + k
      /\ \A i \in 1..(c + k) : (a \o b)[i] = IF i <= c THEN a[i] ELSE b[i - c]
  <2>1. /\ a \o b \in Seq(S) /\ Len(a \o b) = Len(a) + Len(b)
        /\ \A i \in 1..(Len(a) + Len(b)) :
             (a \o b)[i] = IF i <= Len(a) THEN a[i] ELSE b[i - Len(a)]
    BY <1>2, <1>3, ConcatIs
  <2>2. Len(a) = c /\ Len(b) = k
    BY <1>2, <1>3
  <2> QED
    BY <2>1, <2>2
<1>6. ASSUME NEW i \in 1..(c + k)
      PROVE  (a \o b)[i] = w[i]
  <2>1. CASE i <= c
    <3>1. i \in 1..c
      BY <2>1, SMTT(60)
    <3> QED
      BY <1>2, <1>4, <1>5, <2>1, <3>1
  <2>2. CASE ~(i <= c)
    <3>1. i - c \in 1..k /\ c + (i - c) = i
      BY <2>2, SMTT(60)
    <3> QED
      BY <1>3, <1>4, <1>5, <2>2, <3>1
  <2> QED
    BY <2>1, <2>2
<1>7. a \o b = w
  <2> DEFINE d == a \o b
  <2>1. d \in Seq(S) /\ Len(d) = c + k /\ \A i \in 1..(c + k) : d[i] = w[i]
    BY <1>5, <1>6
  <2> HIDE DEF d
  <2>2. d = [i \in 1..(c + k) |-> d[i]] /\ w = [i \in 1..(c + k) |-> w[i]]
    BY <1>4, <2>1, SMTT(60)
  <2>3. d = w
    BY <2>1, <2>2
  <2> QED
    BY <2>3 DEF d
<1> QED
  BY <1>4, <1>7 DEF a, b, w

\* The buffer against the reference, and the histories' types.
LineInv ==
  /\ LdiscInv
  /\ keys \in Seq(Bytes) /\ line \in Seq(Bytes) /\ given \in Seq(Bytes)
  /\ EditsLine
  /\ HandsOutLine

\* A key is applied to the buffer and, in the reference, to the keys.
LEMMA TypeKeepsLine ==
  ASSUME LineInv, NEW byte \in Bytes, Type(byte)
  PROVE  LineInv'
<1>1. LdiscInv' /\ LdiscInv
  BY FeedKeepsRoom DEF LineInv, Type
<1>2. /\ ld.buf \in Seq(LineBytes) /\ ld.consumed \in Nat /\ ld.complete \in BOOLEAN
      /\ ld = [buf |-> ld.buf, consumed |-> ld.consumed, complete |-> ld.complete]
      /\ Len(ld.buf) \in Nat
  BY <1>1, LenIs DEF LdiscInv, LdiscType
<1>3. CASE ld.complete
  <2>1. ld' = ld /\ UNCHANGED <<keys, line, given>>
    BY <1>3 DEF Type, ldisc_feed, ldisc_ready
  <2> QED
    BY <1>1, <2>1 DEF LineInv, EditsLine, HandsOutLine, ldisc_ready
<1>4. CASE ~ld.complete /\ byte = "nl"
  <2> DEFINE e == Edited(keys)
  <2>1. /\ keys' = Append(keys, byte) /\ line' = Append(e, "nl") /\ given' = <<>>
        /\ ld.buf = e /\ ld.consumed = 0 /\ Len(ld.buf) <= LDISC_BUF_SIZE - 1
    BY <1>1, <1>4 DEF Type, ldisc_ready, LineInv, EditsLine, LdiscInv
  <2>2. ld' = [buf |-> Append(ld.buf, "nl"), consumed |-> 0, complete |-> TRUE]
    <3>1. ld' = ldisc_feed(ld, byte) /\ Len(ld.buf) < LDISC_BUF_SIZE
      BY <1>2, <2>1, LdiscAssumption, SMTT(60) DEF Type
    <3> QED
      BY <1>2, <1>4, <2>1, <3>1, LdiscAssumption DEF ldisc_feed, Storable
  <2>3. "nl" \in Bytes /\ LineBytes \subseteq Bytes
    BY DEF Bytes, LineBytes
  <2>4. e \in Seq(Bytes)
    <3>1. \A i \in 1..Len(ld.buf) : ld.buf[i] \in Bytes
      BY <1>2, <2>3, SMTT(60)
    <3>2. ld.buf \in Seq(Bytes)
      BY <1>2, <3>1, SMTT(60)
    <3> QED
      BY <2>1, <3>2
  <2>5. keys' \in Seq(Bytes) /\ line' \in Seq(Bytes) /\ given' \in Seq(Bytes)
    BY <2>1, <2>3, <2>4, AppendIs, EmptyIs DEF LineInv
  <2>6. Len(<<>>) = 0 /\ SubSeq(line', 1, 0) = <<>>
    BY <2>5, EmptyIs, SMTT(60)
  <2>7. EditsLine' /\ HandsOutLine'
    BY <2>1, <2>2, <2>6 DEF EditsLine, HandsOutLine, ldisc_ready
  <2> QED
    BY <1>1, <2>5, <2>7 DEF LineInv
<1>5. CASE ~ld.complete /\ byte # "nl"
  <2>1. keys' = Append(keys, byte) /\ UNCHANGED <<line, given>> /\ ld' = ldisc_feed(ld, byte)
    BY <1>5 DEF Type, ldisc_ready
  <2>2. ld.buf = Edited(keys) /\ keys \in Seq(Bytes)
    BY <1>5 DEF LineInv, EditsLine, ldisc_ready
  <2>3. ld'.buf = Edited(keys')
    BY <1>1, <1>5, <2>1, <2>2, FeedEdits
  <2>4. ld'.complete = FALSE
    BY <1>2, <1>5, <2>1, LdiscAssumption DEF ldisc_feed, Storable
  <2>5. keys' \in Seq(Bytes)
    BY <2>1, <2>2, AppendIs
  <2>6. given = line /\ given = SubSeq(line, 1, Len(given))
    BY <1>5 DEF LineInv, HandsOutLine, ldisc_ready
  <2>7. EditsLine' /\ HandsOutLine'
    BY <2>1, <2>3, <2>4, <2>6 DEF EditsLine, HandsOutLine, ldisc_ready
  <2> QED
    BY <1>1, <2>1, <2>5, <2>7 DEF LineInv
<1> QED
  BY <1>2, <1>3, <1>4, <1>5

\* A read takes the next bytes of the finished line, and nothing of one that
\* is still edited.
LEMMA DrainKeepsLine ==
  ASSUME LineInv, NEW size \in Nat, Drain(size)
  PROVE  LineInv'
<1>1. LdiscInv' /\ LdiscInv
  BY DrainKeepsBytes DEF LineInv, Drain
<1>2. /\ ld.buf \in Seq(LineBytes) /\ ld.consumed \in Nat /\ ld.complete \in BOOLEAN
      /\ ld = [buf |-> ld.buf, consumed |-> ld.consumed, complete |-> ld.complete]
      /\ Len(ld.buf) \in Nat
  BY <1>1, LenIs DEF LdiscInv, LdiscType
<1>3. /\ keys \in Seq(Bytes) /\ line \in Seq(Bytes) /\ given \in Seq(Bytes)
      /\ Len(given) \in Nat
  BY LenIs DEF LineInv
<1>4. CASE ~ld.complete
  <2>1. ld' = ld /\ keys' = keys /\ line' = line
    BY <1>4 DEF Drain, ldisc_drain, ldisc_ready
  <2>2. DrainBytes(ld, size) = <<>>
    <3>1. DrainCount(ld, size) = 0
      BY <1>4 DEF DrainCount
    <3> QED
      BY <1>2, <3>1, SMTT(60) DEF DrainBytes
  <2>3. given' = given
    BY <1>3, <2>2, SMTT(60) DEF Drain
  <2> QED
    BY <1>1, <2>1, <2>3 DEF LineInv, EditsLine, HandsOutLine, ldisc_ready
<1>5. CASE ld.complete
  <2> DEFINE c == Len(given)
             k == DrainCount(ld, size)
  <2>1. ld.buf = line /\ ld.consumed = c /\ given = SubSeq(line, 1, c)
    BY <1>5 DEF LineInv, HandsOutLine, ldisc_ready
  <2>2. c < Len(line)
    BY <1>1, <1>5, <2>1 DEF LdiscInv, ReadyHasBytes, ldisc_ready
  <2>3. k \in Nat /\ c + k <= Len(line)
    BY <1>2, <1>3, <1>5, <2>1, <2>2, SMTT(60) DEF DrainCount
  <2>4. given' = given \o SubSeq(line, c + 1, c + k) /\ line' = line
    BY <2>1 DEF Drain, DrainBytes
  <2> HIDE DEF c, k
  <2>5. c \in Nat
    BY <1>3 DEF c
  <2>6. given' = SubSeq(line, 1, c + k) /\ Len(given') = c + k /\ given' \in Seq(Bytes)
    <3>1. SubSeq(line, 1, c) \o SubSeq(line, c + 1, c + k) = SubSeq(line, 1, c + k)
      BY <1>3, <2>3, <2>5, PrefixGrows, SMTT(60)
    <3>2. given' = SubSeq(line, 1, c + k)
      BY <2>1, <2>4, <3>1
    <3>3. Len(SubSeq(line, 1, c + k)) = c + k /\ SubSeq(line, 1, c + k) \in Seq(Bytes)
      BY <1>3, <2>3, <2>5, PrefixGrows, SMTT(60)
    <3> QED
      BY <3>2, <3>3
  <2>7. CASE c + k = Len(line)
    <3>1. ld' = ldisc_init
      BY <1>5, <2>1, <2>7 DEF Drain, ldisc_drain, k
    <3>2. ld'.complete = FALSE /\ ld'.buf = <<>>
      BY <3>1 DEF ldisc_init
    <3>3. keys' = <<>>
      BY <1>5, <3>2 DEF Drain, ldisc_ready
    <3>4. given' = line
      BY <1>3, <2>6, <2>7, SMTT(60)
    <3>5. EditsLine'
      BY <3>2, <3>3, EditedNothing DEF EditsLine
    <3>6. HandsOutLine'
      BY <2>4, <2>6, <3>2, <3>4 DEF HandsOutLine, ldisc_ready
    <3> QED
      BY <1>1, <1>3, <2>4, <2>6, <3>3, <3>5, <3>6, EmptyIs DEF LineInv
  <2>8. CASE c + k # Len(line)
    <3>1. ld' = [buf |-> ld.buf, consumed |-> c + k, complete |-> TRUE]
      BY <1>2, <1>5, <2>1, <2>8 DEF Drain, ldisc_drain, k
    <3>2. keys' = keys
      BY <3>1, SMTT(60) DEF Drain, ldisc_ready
    <3>3. EditsLine' /\ HandsOutLine'
      BY <2>1, <2>4, <2>6, <3>1 DEF EditsLine, HandsOutLine, ldisc_ready
    <3> QED
      BY <1>1, <1>3, <2>4, <2>6, <3>2, <3>3 DEF LineInv
  <2> QED
    BY <2>7, <2>8
<1> QED
  BY <1>2, <1>4, <1>5

\* Nothing is typed at first.
LEMMA LineAtFirst == Init => LineInv
<1> SUFFICES ASSUME Init PROVE LineInv
  OBVIOUS
<1>1. LdiscInv /\ ld.complete = FALSE /\ ld.buf = <<>>
  BY FreshLine DEF Init, ldisc_init
<1>2. keys = <<>> /\ line = <<>> /\ given = <<>> /\ <<>> \in Seq(Bytes) /\ Len(<<>>) = 0
  BY EmptyIs DEF Init
<1>3. SubSeq(<<>>, 1, 0) = <<>>
  BY SMTT(60)
<1> QED
  BY <1>1, <1>2, <1>3, EditedNothing DEF LineInv, EditsLine, HandsOutLine, ldisc_ready

\* The buffer agrees with the reference in every reachable state.
THEOREM LineInvariant == Spec => []LineInv
<1>1. Init => LineInv
  BY LineAtFirst
<1>2. LineInv /\ [Next]_vars => LineInv'
  <2> SUFFICES ASSUME LineInv, [Next]_vars PROVE LineInv'
    OBVIOUS
  <2>1. ASSUME NEW byte \in Bytes, Type(byte) PROVE LineInv'
    BY <2>1, TypeKeepsLine
  <2>2. ASSUME NEW size \in ReadSizes, Drain(size) PROVE LineInv'
    BY <2>2, ReadSizesAssumption, DrainKeepsLine
  <2>3. CASE UNCHANGED vars
    BY <2>3 DEF vars, LineInv, LdiscInv, ReadyHasBytes, EditsLine, HandsOutLine, ldisc_ready
  <2> QED
    BY <2>1, <2>2, <2>3 DEF Next
<1> QED
  BY <1>1, <1>2, PTL DEF Spec

\* ldisc_feed leaves in the buffer exactly what the keys typed amount to, for
\* every sequence of keys and every buffer size.
THEOREM BufferIsEditedLine == Spec => []EditsLine
<1>1. LineInv => EditsLine
  BY DEF LineInv
<1> QED
  BY <1>1, LineInvariant, PTL

\* ldisc_drain hands the finished line out once and in order, whatever sizes
\* the readers ask for.
THEOREM LineHandedOutOnce == Spec => []HandsOutLine
<1>1. LineInv => HandsOutLine
  BY DEF LineInv
<1> QED
  BY <1>1, LineInvariant, PTL
-----------------------------------------------------------------------------

\* The characters of a text, and all that can reach the serial line.
Letters == Chars \cup {" ", "nl"} \cup UNION {{text[i] : i \in DOMAIN text} : text \in Texts \cup Dumps}

\* Nothing but the echo of an erase and the CR before kprintf's LF moves the
\* terminal's cursor back.
PlainTexts == \A text \in Texts \cup Dumps : \A i \in DOMAIN text : text[i] \notin {"cr", "\\b"}

Plain == Letters \ {"cr", "\\b"}

\* A terminal whose cursor stands on or behind its text, with nothing but
\* blanks from there on.
TtyOK(t) ==
  /\ t \in [line : Seq(Letters), at : Nat, ansi : {"NORMAL", "ESC", "CSI"}]
  /\ t.at <= Len(t.line)
  /\ \A i \in (t.at + 1)..Len(t.line) : t.line[i] = " "

\* A terminal by its fields.
Tty(l, k, a) == [line |-> l, at |-> k, ansi |-> a]

\* The fields a terminal is made of are its fields.
LEMMA TtyHas ==
  \A l, k, a : Tty(l, k, a).line = l /\ Tty(l, k, a).at = k /\ Tty(l, k, a).ansi = a
BY DEF Tty

\* Its fields.
TtyIs(t, l, m, k, a) ==
  /\ t = Tty(l, k, a)
  /\ l \in Seq(Letters) /\ l \in [1..m -> Letters] /\ m = Len(l)
  /\ m \in Nat /\ k \in Nat /\ k <= m /\ a \in {"NORMAL", "ESC", "CSI"}
  /\ \A i \in (k + 1)..m : l[i] = " "

\* Every such terminal has these fields.
LEMMA TtyFields ==
  \A t : TtyOK(t) => \E l, m, k, a : TtyIs(t, l, m, k, a)
<1> TAKE t
<1>0. HAVE TtyOK(t)
<1>1. t \in [line : Seq(Letters), at : Nat, ansi : {"NORMAL", "ESC", "CSI"}]
  BY <1>0 DEF TtyOK
<1>2. t.line \in Seq(Letters) /\ t.at \in Nat /\ t.ansi \in {"NORMAL", "ESC", "CSI"}
  BY <1>1
<1>3. t = Tty(t.line, t.at, t.ansi)
  BY <1>1 DEF Tty
<1>4. Len(t.line) \in Nat /\ t.line \in [1..Len(t.line) -> Letters]
  BY <1>2, LenIs
<1>5. t.at <= Len(t.line) /\ \A i \in (t.at + 1)..Len(t.line) : t.line[i] = " "
  BY <1>0 DEF TtyOK
<1> WITNESS t.line, Len(t.line), t.at, t.ansi
<1> QED
  BY <1>2, <1>3, <1>4, <1>5 DEF TtyIs

\* And such fields make one.
LEMMA TtyMade ==
  \A l, m, k, a :
    /\ l \in Seq(Letters) /\ m = Len(l) /\ k \in Nat /\ k <= m /\ a \in {"NORMAL", "ESC", "CSI"}
    /\ \A i \in (k + 1)..m : l[i] = " "
    => TtyOK(Tty(l, k, a))
<1> TAKE l, m, k, a
<1>1. HAVE /\ l \in Seq(Letters) /\ m = Len(l) /\ k \in Nat /\ k <= m
           /\ a \in {"NORMAL", "ESC", "CSI"}
           /\ \A i \in (k + 1)..m : l[i] = " "
<1> DEFINE t == Tty(l, k, a)
<1>2. t.line = l /\ t.at = k
  BY TtyHas, SMTT(60)
<1>3. t \in [line : Seq(Letters), at : Nat, ansi : {"NORMAL", "ESC", "CSI"}]
  BY <1>1 DEF Tty
<1> HIDE DEF t
<1>4. TtyOK(t)
  BY <1>1, <1>2, <1>3 DEF TtyOK
<1> QED
  BY <1>4 DEF t

\* A new line is one.
LEMMA TtyBare ==
  \A a \in {"NORMAL", "ESC", "CSI"} : TtyOK(Tty(<<>>, 0, a))
<1>1. <<>> \in Seq(Letters) /\ Len(<<>>) = 0
  BY EmptyIs
<1>2. ~\E i \in (0 + 1)..0 : TRUE
  BY SMTT(60)
<1>3. 0 \in Nat /\ 0 <= 0
  BY SMTT(60)
<1> QED
  BY <1>1, <1>2, <1>3, TtyMade

\* The state of an escape sequence after one of its characters.
NextAnsi(a, c) ==
  IF a = "NORMAL" THEN "ESC"
  ELSE IF c \in (IF a = "ESC" THEN {"["} ELSE Digits \cup {";"}) THEN "CSI" ELSE "NORMAL"

\* A character put into cell k + 1 of a line of m: that cell changes and no
\* other.
Overwritten(l, m, k, c) ==
  [i \in 1..(IF k < m THEN m ELSE k + 1) |-> IF i = k + 1 THEN c ELSE l[i]]

\* What the terminal does with a character, field by field.
LEMMA TtyPutIs ==
  \A l, k, a, c :
    /\ ~IsText(a, c) => TtyPut(Tty(l, k, a), c) = Tty(l, k, NextAnsi(a, c))
    /\ IsText(a, c) /\ c = "nl" => TtyPut(Tty(l, k, a), c) = Tty(<<>>, 0, a)
    /\ IsText(a, c) /\ c = "cr" => TtyPut(Tty(l, k, a), c) = Tty(l, 0, a)
    /\ IsText(a, c) /\ c = "\\b" /\ k = 0 => TtyPut(Tty(l, k, a), c) = Tty(l, 0, a)
    /\ IsText(a, c) /\ c = "\\b" /\ k # 0 => TtyPut(Tty(l, k, a), c) = Tty(l, k - 1, a)
    /\ IsText(a, c) /\ c \notin {"nl", "cr", "\\b"}
         => TtyPut(Tty(l, k, a), c) = Tty(Overwritten(l, Len(l), k, c), k + 1, a)
<1> TAKE l, k, a, c
<1> DEFINE t == [line |-> l, at |-> k, ansi |-> a]
<1>0. Tty(l, k, a) = t
  BY DEF Tty
<1>1. t.line = l /\ t.at = k /\ t.ansi = a
  OBVIOUS
<1>2. ASSUME ~IsText(a, c) PROVE TtyPut(t, c) = Tty(l, k, NextAnsi(a, c))
  BY <1>1, <1>2 DEF TtyPut, NextAnsi, Tty
<1>3. ASSUME IsText(a, c), c = "nl" PROVE TtyPut(t, c) = Tty(<<>>, 0, a)
  BY <1>1, <1>3 DEF TtyPut, Tty
<1>4. ASSUME IsText(a, c), c = "cr" PROVE TtyPut(t, c) = Tty(l, 0, a)
  BY <1>1, <1>4 DEF TtyPut, Tty
<1>5. ASSUME IsText(a, c), c = "\\b"
      PROVE  /\ k = 0 => TtyPut(t, c) = Tty(l, 0, a)
             /\ k # 0 => TtyPut(t, c) = Tty(l, k - 1, a)
  BY <1>1, <1>5 DEF TtyPut, Tty
<1>6. ASSUME IsText(a, c), c \notin {"nl", "cr", "\\b"}
      PROVE  TtyPut(t, c) = Tty(Overwritten(l, Len(l), k, c), k + 1, a)
  BY <1>1, <1>6 DEF TtyPut, Overwritten, Tty
<1> HIDE DEF t
<1> QED
  BY <1>0, <1>2, <1>3, <1>4, <1>5, <1>6

\* The state is text or an escape sequence.
LEMMA AnsiIs ==
  \A a, c : /\ IsText(a, c) => a = "NORMAL"
            /\ a = "NORMAL" /\ c \in {"nl", "cr", "\\b", " "} => IsText(a, c)
            /\ a # "NORMAL" => ~IsText(a, c)
            /\ NextAnsi(a, c) \in {"NORMAL", "ESC", "CSI"}
            /\ a \in {"ESC", "CSI"} /\ c \in {"nl", "cr", "\\b"} => NextAnsi(a, c) = "NORMAL"
BY DEF IsText, NextAnsi, Digits

\* BS, and a blank, in text.
LEMMA TtyBack ==
  \A l : \A k \in Nat :
    /\ k = 0 => TtyPut(Tty(l, k, "NORMAL"), "\\b") = Tty(l, k, "NORMAL")
    /\ k # 0 => TtyPut(Tty(l, k, "NORMAL"), "\\b") = Tty(l, k - 1, "NORMAL")
    /\ TtyPut(Tty(l, k, "NORMAL"), " ") = Tty(Overwritten(l, Len(l), k, " "), k + 1, "NORMAL")
<1> TAKE l
<1> TAKE k \in Nat
<1> DEFINE t == [line |-> l, at |-> k, ansi |-> "NORMAL"]
<1>1. t.line = l /\ t.at = k /\ t.ansi = "NORMAL" /\ t = Tty(l, k, "NORMAL")
  BY DEF Tty
<1>2. IsText("NORMAL", "\\b") /\ IsText("NORMAL", " ")
  BY AnsiIs
<1>3. /\ k = 0 => TtyPut(t, "\\b") = Tty(l, k, "NORMAL")
      /\ k # 0 => TtyPut(t, "\\b") = Tty(l, k - 1, "NORMAL")
  BY <1>1, <1>2 DEF TtyPut, Tty
<1>4. TtyPut(t, " ") = Tty(Overwritten(l, Len(l), k, " "), k + 1, "NORMAL")
  BY <1>1, <1>2 DEF TtyPut, Tty, Overwritten
<1> HIDE DEF t
<1> QED
  BY <1>1, <1>3, <1>4

\* A character that is shown replaces what is under the cursor.
LEMMA TtyPutShown ==
  \A t, c : TtyOK(t) /\ c \in Letters /\ IsText(t.ansi, c) /\ c \notin {"nl", "cr", "\\b"}
    => /\ TtyPut(t, c) = Tty(Overwritten(t.line, Len(t.line), t.at, c), t.at + 1, "NORMAL")
       /\ TtyOK(TtyPut(t, c))
<1>0. SUFFICES ASSUME NEW t, NEW c, TtyOK(t), c \in Letters, IsText(t.ansi, c),
                      c \notin {"nl", "cr", "\\b"}
               PROVE  /\ TtyPut(t, c) = Tty(Overwritten(t.line, Len(t.line), t.at, c), t.at + 1, "NORMAL")
                      /\ TtyOK(TtyPut(t, c))
  OBVIOUS
<1>1. PICK l, m, k, a : TtyIs(t, l, m, k, a)
  BY <1>0, TtyFields
<1>a. m \in Nat /\ k \in Nat /\ k <= m
  BY <1>1 DEF TtyIs
<1>b. l \in [1..m -> Letters] /\ \A i \in (k + 1)..m : l[i] = " "
  BY <1>1 DEF TtyIs
<1> DEFINE L == Overwritten(l, m, k, c)
           n == IF k < m THEN m ELSE k + 1
<1>2. /\ t.line = l /\ t.at = k /\ Len(l) = m
      /\ TtyPut(t, c) = Tty(L, k + 1, "NORMAL")
  <2>1. t = Tty(l, k, a) /\ m = Len(l)
    BY <1>1 DEF TtyIs
  <2>2. t.line = l /\ t.at = k /\ t.ansi = a
    BY <2>1, TtyHas, SMTT(60)
  <2>3. a = "NORMAL" /\ IsText(a, c)
    BY <1>0, <2>2, AnsiIs
  <2>4. TtyPut(t, c) = Tty(Overwritten(l, Len(l), k, c), k + 1, a)
    BY <1>0, <2>1, <2>3, TtyPutIs, SMTT(60)
  <2> QED
    BY <2>1, <2>2, <2>3, <2>4
<1>3. n \in Nat /\ n >= k + 1 /\ k + 1 \in Nat /\ \A i \in 1..n : i # k + 1 => i \in 1..m
  BY <1>a, SMTT(60)
<1>4. L = [i \in 1..n |-> IF i = k + 1 THEN c ELSE l[i]]
  BY DEF Overwritten
<1> HIDE DEF L, n
<1>5. L \in [1..n -> Letters] /\ \A i \in 1..n : i # k + 1 => L[i] = l[i]
  BY <1>0, <1>b, <1>3, <1>4
<1>6. L \in Seq(Letters)
  BY <1>3, <1>5, SMTT(60)
<1>7. Len(L) = n
  BY <1>3, <1>5, <1>6, SMTT(60)
<1>8. \A i \in (k + 1 + 1)..n : L[i] = " "
  <2> SUFFICES ASSUME NEW i, i \in (k + 1 + 1)..n PROVE L[i] = " "
    OBVIOUS
  <2>1. i \in 1..n /\ i # k + 1 /\ i >= k + 1 /\ i \in Nat
    BY <1>a, <1>3, SMTT(60)
  <2>2. L[i] = l[i] /\ i \in 1..m
    BY <1>3, <1>5, <2>1
  <2>3. i \in (k + 1)..m
    BY <1>a, <2>1, <2>2, SMTT(60)
  <2> QED
    BY <1>b, <2>2, <2>3
<1>9. TtyOK(Tty(L, k + 1, "NORMAL"))
  BY <1>3, <1>6, <1>7, <1>8, TtyMade
<1> QED
  BY <1>2, <1>9 DEF L

\* What else is not CR or BS keeps the terminal so.
LEMMA TtyPutPlain ==
  \A t, c : TtyOK(t) /\ c \in Plain => TtyOK(TtyPut(t, c))
<1>0. SUFFICES ASSUME NEW t, NEW c, TtyOK(t), c \in Plain PROVE TtyOK(TtyPut(t, c))
  OBVIOUS
<1>1. PICK l, m, k, a : TtyIs(t, l, m, k, a)
  BY <1>0, TtyFields
<1>2. t = Tty(l, k, a) /\ a \in {"NORMAL", "ESC", "CSI"}
  BY <1>1 DEF TtyIs
<1>3. t.ansi = a /\ c \in Letters /\ c \notin {"cr", "\\b"}
  BY <1>0, <1>2, TtyHas, SMTT(60) DEF Plain
<1>4. CASE IsText(a, c) /\ c = "nl"
  <2>1. TtyPut(t, c) = Tty(<<>>, 0, a)
    BY <1>2, <1>4, TtyPutIs, SMTT(60)
  <2> QED
    BY <1>2, <2>1, TtyBare
<1>5. CASE IsText(a, c) /\ c # "nl"
  BY <1>0, <1>3, <1>5, TtyPutShown
<1>6. CASE ~IsText(a, c)
  <2>1. TtyPut(t, c) = Tty(l, k, NextAnsi(a, c))
    BY <1>2, <1>6, TtyPutIs, SMTT(60)
  <2>2. NextAnsi(a, c) \in {"NORMAL", "ESC", "CSI"}
    BY AnsiIs
  <2>3. TtyOK(Tty(l, k, NextAnsi(a, c)))
    BY <1>1, <2>2, TtyMade DEF TtyIs
  <2> QED
    BY <2>1, <2>3
<1> QED
  BY <1>4, <1>5, <1>6

\* kprintf's CR and LF, the blank an erase puts and steps back over, and the
\* whole echo of an erase.
CrLf(t) == TtyPut(TtyPut(t, "cr"), "nl")
Blanked(t) == TtyPut(TtyPut(t, " "), "\\b")
Erased(t) == Blanked(TtyPut(t, "\\b"))

\* The CR before kprintf's LF leaves nothing behind.
LEMMA TtyCrLf ==
  \A t : TtyOK(t) => TtyOK(CrLf(t))
<1>0. SUFFICES ASSUME NEW t, TtyOK(t) PROVE TtyOK(CrLf(t))
  OBVIOUS
<1>1. PICK l, m, k, a : TtyIs(t, l, m, k, a)
  BY <1>0, TtyFields
<1>2. t = Tty(l, k, a) /\ a \in {"NORMAL", "ESC", "CSI"}
  BY <1>1 DEF TtyIs
<1>3. CASE a = "NORMAL"
  <2>1. IsText(a, "cr") /\ IsText(a, "nl")
    BY <1>3, AnsiIs
  <2>2. TtyPut(t, "cr") = Tty(l, 0, a)
    BY <1>2, <2>1, TtyPutIs, SMTT(60)
  <2>3. TtyPut(Tty(l, 0, a), "nl") = Tty(<<>>, 0, a)
    BY <2>1, TtyPutIs, SMTT(60)
  <2> QED
    BY <1>2, <2>2, <2>3, TtyBare DEF CrLf
<1>4. CASE a # "NORMAL"
  <2>1. ~IsText(a, "cr") /\ NextAnsi(a, "cr") = "NORMAL"
    BY <1>2, <1>4, AnsiIs
  <2> DEFINE u == Tty(l, k, "NORMAL")
  <2>2. TtyPut(t, "cr") = u
    BY <1>2, <2>1, TtyPutIs, SMTT(60)
  <2>3. TtyOK(u)
    BY <1>1, TtyMade DEF TtyIs
  <2>4. "nl" \in Plain
    BY DEF Plain, Letters
  <2> HIDE DEF u
  <2> QED
    BY <2>2, <2>3, <2>4, TtyPutPlain DEF CrLf
<1> QED
  BY <1>3, <1>4

\* The blank of an erase.
LEMMA TtyBlank ==
  \A t : TtyOK(t) /\ t.ansi = "NORMAL" => TtyOK(Blanked(t))
<1>0. SUFFICES ASSUME NEW t, TtyOK(t), t.ansi = "NORMAL" PROVE TtyOK(Blanked(t))
  OBVIOUS
<1> DEFINE k == t.at
           L == Overwritten(t.line, Len(t.line), k, " ")
           u == TtyPut(t, " ")
<1>1. IsText("NORMAL", " ") /\ IsText("NORMAL", "\\b") /\ " " \in Letters
  BY AnsiIs DEF Letters
<1>2. u = Tty(L, k + 1, "NORMAL") /\ TtyOK(u)
  BY <1>0, <1>1, TtyPutShown
<1>3. k \in Nat /\ L[k + 1] = " "
  <2>1. PICK l, m, j, a : TtyIs(t, l, m, j, a)
    BY <1>0, TtyFields
  <2>2. t.line = l /\ k = j /\ Len(l) = m /\ m \in Nat /\ j \in Nat
    <3>1. t = Tty(l, j, a) /\ m = Len(l) /\ m \in Nat /\ j \in Nat
      BY <2>1 DEF TtyIs
    <3> QED
      BY <3>1, TtyHas, SMTT(60)
  <2>3. j + 1 \in 1..(IF j < m THEN m ELSE j + 1)
    BY <2>2, SMTT(60)
  <2> QED
    BY <2>2, <2>3 DEF Overwritten
<1> HIDE DEF L, k, u
<1>4. PICK l, m, j, a : TtyIs(u, l, m, j, a)
  BY <1>2, TtyFields
<1>5. l = L /\ j = k + 1
  <2>1. Tty(L, k + 1, "NORMAL") = Tty(l, j, a)
    BY <1>2, <1>4 DEF TtyIs
  <2> QED
    BY <2>1, TtyHas, SMTT(60)
<1>6. m = Len(L) /\ L \in Seq(Letters) /\ \A i \in (j + 1)..m : L[i] = " "
  BY <1>4, <1>5 DEF TtyIs
<1>7. k \in Nat /\ m \in Nat /\ j <= m /\ j = k + 1
  BY <1>3, <1>4, <1>5 DEF TtyIs
<1>8. k + 1 \in Nat /\ k + 1 # 0 /\ k + 1 - 1 = k /\ k <= m /\ \A i \in (k + 1)..m : i # k + 1 => i \in (j + 1)..m
  BY <1>7, SMTT(60)
<1>9. \A i \in (k + 1)..m : L[i] = " "
  BY <1>3, <1>6, <1>8
<1>10. TtyPut(u, "\\b") = Tty(L, k, "NORMAL")
  <2> DEFINE n == k + 1
  <2>0. u = Tty(L, n, "NORMAL")
    BY <1>2
  <2>1. n \in Nat /\ n # 0 /\ n - 1 = k
    BY <1>7, SMTT(60)
  <2> HIDE DEF n
  <2>2. TtyPut(u, "\\b") = Tty(L, n - 1, "NORMAL")
    BY <2>0, <2>1, TtyBack
  <2> QED
    BY <2>1, <2>2
<1>11. TtyOK(Tty(L, k, "NORMAL"))
  BY <1>3, <1>6, <1>8, <1>9, TtyMade
<1> QED
  BY <1>10, <1>11 DEF Blanked, u

\* With the cursor behind a character of the line an erase blanks that one.
LEMMA TtyEraseExact ==
  \A t : TtyOK(t) /\ t.ansi = "NORMAL" /\ t.at # 0 =>
    /\ TtyOK(Erased(t)) /\ Erased(t).at = t.at - 1
    /\ \A i \in 1..(t.at - 1) : Erased(t).line[i] = t.line[i]
<1>0. SUFFICES ASSUME NEW t, TtyOK(t), t.ansi = "NORMAL", t.at # 0
               PROVE  /\ TtyOK(Erased(t)) /\ Erased(t).at = t.at - 1
                      /\ \A i \in 1..(t.at - 1) : Erased(t).line[i] = t.line[i]
  OBVIOUS
<1>1. PICK l, m, k, a : TtyIs(t, l, m, k, a)
  BY <1>0, TtyFields
<1>2. /\ t = Tty(l, k, a) /\ a = "NORMAL"
      /\ t.at = k /\ t.line = l /\ m = Len(l)
  <2>1. t = Tty(l, k, a) /\ m = Len(l)
    BY <1>1 DEF TtyIs
  <2> QED
    BY <1>0, <2>1, TtyHas, SMTT(60)
<1>3. m \in Nat /\ k \in Nat /\ k <= m /\ k # 0
  BY <1>0, <1>1, <1>2 DEF TtyIs
<1>b. l \in [1..m -> Letters] /\ \A i \in (k + 1)..m : l[i] = " "
  BY <1>1 DEF TtyIs
<1> DEFINE L == [i \in 1..m |-> IF i = k THEN " " ELSE l[i]]
           j == k - 1
<1>4. /\ j \in Nat /\ j + 1 = k /\ (IF j < m THEN m ELSE j + 1) = m /\ j <= m
      /\ \A i \in 1..j : i \in 1..m /\ i # k
      /\ \A i \in (j + 1)..m : i \in 1..m /\ (i = k \/ i \in (k + 1)..m)
  BY <1>3, SMTT(60)
<1>5. L = Overwritten(l, m, j, " ")
  BY <1>4 DEF Overwritten
<1>6. L \in [1..m -> Letters]
  BY <1>b DEF Letters
<1>7. (\A i \in 1..j : L[i] = l[i]) /\ \A i \in (j + 1)..m : L[i] = " "
  BY <1>b, <1>4
<1> HIDE DEF L, j
<1>8. L \in Seq(Letters)
  BY <1>3, <1>6, SMTT(60)
<1>9. Len(L) = m
  BY <1>3, <1>6, <1>8, SMTT(60)
<1>11. TtyPut(t, "\\b") = Tty(l, j, "NORMAL")
  BY <1>2, <1>3, TtyBack DEF j
<1>12. TtyPut(Tty(l, j, "NORMAL"), " ")
         = Tty(L, k, "NORMAL")
  <2>1. TtyPut(Tty(l, j, "NORMAL"), " ")
          = Tty(Overwritten(l, Len(l), j, " "), j + 1, "NORMAL")
    BY <1>4, TtyBack
  <2> QED
    BY <1>2, <1>4, <1>5, <2>1
<1>13. TtyPut(Tty(L, k, "NORMAL"), "\\b")
         = Tty(L, j, "NORMAL")
  BY <1>3, TtyBack DEF j
<1>14. Erased(t) = Tty(L, j, "NORMAL")
  BY <1>11, <1>12, <1>13 DEF Erased, Blanked
<1>15. TtyOK(Tty(L, j, "NORMAL"))
  BY <1>4, <1>7, <1>8, <1>9, TtyMade
<1>16. Erased(t).line = L /\ Erased(t).at = j
  BY <1>14, TtyHas, SMTT(60)
<1> QED
  BY <1>2, <1>7, <1>14, <1>15, <1>16 DEF j

\* Wherever the cursor stands an erase leaves only blanks behind it.
LEMMA TtyErase ==
  \A t : TtyOK(t) => TtyOK(Erased(t))
<1>0. SUFFICES ASSUME NEW t, TtyOK(t) PROVE TtyOK(Erased(t))
  OBVIOUS
<1>1. PICK l, m, k, a : TtyIs(t, l, m, k, a)
  BY <1>0, TtyFields
<1>2. t = Tty(l, k, a) /\ a \in {"NORMAL", "ESC", "CSI"}
  BY <1>1 DEF TtyIs
<1>3. CASE a = "NORMAL" /\ k # 0
  BY <1>0, <1>2, <1>3, TtyHas, TtyEraseExact, SMTT(60)
<1>4. CASE a = "NORMAL" /\ k = 0
  <2>1. TtyPut(t, "\\b") = t
    <3>1. 0 \in Nat
      OBVIOUS
    <3> QED
      BY <1>2, <1>4, <3>1, TtyBack
  <2>2. t.ansi = "NORMAL"
    BY <1>2, <1>4, TtyHas, SMTT(60)
  <2> QED
    BY <1>0, <2>1, <2>2, TtyBlank DEF Erased
<1>5. CASE a # "NORMAL"
  <2>1. ~IsText(a, "\\b") /\ NextAnsi(a, "\\b") = "NORMAL"
    BY <1>2, <1>5, AnsiIs
  <2> DEFINE u == Tty(l, k, "NORMAL")
  <2>2. TtyPut(t, "\\b") = u /\ u.ansi = "NORMAL"
    BY <1>2, <2>1, TtyPutIs, TtyHas, SMTT(60)
  <2>3. TtyOK(u)
    BY <1>1, TtyMade DEF TtyIs
  <2> HIDE DEF u
  <2> QED
    BY <2>2, <2>3, TtyBlank DEF Erased
<1> QED
  BY <1>3, <1>4, <1>5

\* A character sent by kprintf or by the echo.
Send(kprintf, s, c) == IF kprintf THEN _putchar(s, c) ELSE console_putc(s, c)

\* f is what is left of the loop over n characters, from a.
SendRun(f, a, chars, kprintf, n) ==
  f = [k \in 0..n |-> IF k = 0 THEN a ELSE Send(kprintf, f[k - 1], chars[k])]

\* The loop has a result.
LEMMA SendRuns ==
  \A a, chars, kprintf : \A n \in Nat : \E f : SendRun(f, a, chars, kprintf, n)
<1> TAKE a, chars, kprintf
<1> TAKE n \in Nat
<1> DEFINE Runs(f, i) == f = [k \in 0..i |-> IF k = 0 THEN a ELSE Send(kprintf, f[k - 1], chars[k])]
           T == {i \in 0..n : \E f : Runs(f, i)}
<1>1. 0 \in T
  <2> DEFINE f == [k \in 0..0 |-> a]
  <2>1. Runs(f, 0)
    BY SMTT(60)
  <2>2. 0 \in 0..n
    BY SMTT(60)
  <2> HIDE DEF Runs, f
  <2> QED
    BY <2>1, <2>2
<1>2. ASSUME NEW i \in 1..n, i - 1 \in T
      PROVE  i \in T
  <2>1. PICK f : Runs(f, i - 1)
    BY <1>2
  <2> DEFINE h == [k \in 0..i |-> IF k < i THEN f[k] ELSE Send(kprintf, f[i - 1], chars[i])]
  <2>2. \A k \in 0..i : h[k] = IF k = 0 THEN a ELSE Send(kprintf, h[k - 1], chars[k])
    <3> SUFFICES ASSUME NEW k \in 0..i
                 PROVE  h[k] = IF k = 0 THEN a ELSE Send(kprintf, h[k - 1], chars[k])
      OBVIOUS
    <3>1. CASE k < i
      <4>1. k \in 0..(i - 1) /\ (k # 0 => k - 1 \in 0..i /\ k - 1 < i)
        BY <3>1, SMTT(60)
      <4>2. h[k] = f[k] /\ (k # 0 => h[k - 1] = f[k - 1])
        BY <3>1, <4>1
      <4>3. f[k] = IF k = 0 THEN a ELSE Send(kprintf, f[k - 1], chars[k])
        BY <2>1, <4>1
      <4> HIDE DEF h
      <4> QED
        BY <4>2, <4>3
    <3>2. CASE k = i
      <4>1. k # 0 /\ i - 1 \in 0..i /\ i - 1 < i /\ ~(i < i)
        BY <3>2, SMTT(60)
      <4>2. h[i] = Send(kprintf, f[i - 1], chars[i]) /\ h[i - 1] = f[i - 1]
        BY <4>1, SMTT(60)
      <4> HIDE DEF h
      <4> QED
        BY <3>2, <4>1, <4>2
    <3> QED
      BY <3>1, <3>2, SMTT(60)
  <2>3. h = [k \in 0..i |-> h[k]]
    OBVIOUS
  <2>4. Runs(h, i)
    <3> HIDE DEF h
    <3> QED
      BY <2>2, <2>3
  <2>5. i \in 0..n
    BY SMTT(60)
  <2> HIDE DEF Runs, h
  <2> QED
    BY <2>4, <2>5
<1>3. n \in T
  <2> HIDE DEF T
  <2>1. \A i \in 0..n : i \in T
    BY <1>1, <1>2, InductionUpTo
  <2> QED
    BY <2>1, SMTT(60)
<1>4. \E f : Runs(f, n)
  <2> HIDE DEF Runs
  <2> QED
    BY <1>3
<1>5. PICK f : Runs(f, n)
  BY <1>4
<1>6. SendRun(f, a, chars, kprintf, n)
  BY <1>5 DEF SendRun
<1> QED
  BY <1>6

\* What they make of the terminal: kprintf sends CR before LF.
TtySend(kprintf, t, c) ==
  IF kprintf /\ c = "nl" THEN CrLf(t) ELSE TtyPut(t, c)

\* The serial terminal sees a character of kprintf's, or of console_write's,
\* as TtySend says: the frame buffer beside it takes nothing away.
LEMMA SendTty ==
  \A s, c, kprintf : kprintf \in BOOLEAN => Send(kprintf, s, c).tty = TtySend(kprintf, s.tty, c)
<1> TAKE s, c, kprintf
<1>0. HAVE kprintf \in BOOLEAN
<1>1. \A r, d : console_putc(r, d).tty = TtyPut(r.tty, d)
  BY DEF console_putc
<1> QED
  BY <1>0, <1>1 DEF Send, TtySend, CrLf, _putchar

\* The terminal after an echo or a dump, character by character.
LEMMA SentTo ==
  ASSUME NEW kprintf \in BOOLEAN, NEW chars, Len(chars) \in Nat,
         IF kprintf THEN Put(_putchar, chars) ELSE Put(console_putc, chars)
  PROVE  \E g : /\ g[0] = tty /\ tty' = g[Len(chars)]
                /\ \A i \in 1..Len(chars) : g[i] = TtySend(kprintf, g[i - 1], chars[i])
<1> DEFINE n == Len(chars)
           a == [fb |-> fb, tty |-> tty, paper |-> paper]
           upto == CHOOSE f : f = [k \in 0..n |-> IF k = 0 THEN a ELSE Send(kprintf, f[k - 1], chars[k])]
<1>1. \E f : SendRun(f, a, chars, kprintf, n)
  <2>1. n \in Nat
    OBVIOUS
  <2> HIDE DEF n, a
  <2> QED
    BY <2>1, SendRuns
<1>2. upto = [k \in 0..n |-> IF k = 0 THEN a ELSE Send(kprintf, upto[k - 1], chars[k])]
  BY <1>1 DEF SendRun
<1>3. tty' = upto[n].tty
  <2>1. CASE kprintf
    BY <2>1, SMTT(60) DEF Put, Send
  <2>2. CASE ~kprintf
    BY <2>2, SMTT(60) DEF Put, Send
  <2> QED
    BY <2>1, <2>2
<1> HIDE DEF upto
<1>4. upto[0] = a
  BY <1>2, SMTT(60)
<1>5. \A i \in 1..n : upto[i] = Send(kprintf, upto[i - 1], chars[i])
  BY <1>2, SMTT(60)
<1> DEFINE g == [i \in 0..n |-> upto[i].tty]
<1>6. g[0] = tty /\ g[n] = tty'
  BY <1>3, <1>4, SMTT(60)
<1>7. \A i \in 1..n : g[i] = TtySend(kprintf, g[i - 1], chars[i])
  <2> SUFFICES ASSUME NEW i \in 1..n PROVE g[i] = TtySend(kprintf, g[i - 1], chars[i])
    OBVIOUS
  <2>1. g[i] = upto[i].tty /\ g[i - 1] = upto[i - 1].tty
    BY SMTT(60)
  <2>2. upto[i].tty = TtySend(kprintf, upto[i - 1].tty, chars[i])
    BY <1>5, SendTty, SMTT(60)
  <2> HIDE DEF g
  <2> QED
    BY <2>1, <2>2
<1> HIDE DEF g
<1> QED
  BY <1>6, <1>7

\* Cells b + 1, b + 2, ... of a line hold buf.
Cells(l, b, buf) == \A i \in 1..Len(buf) : l[b + i] = buf[i]

\* A piece of a line, byte by byte.
LEMMA PieceIs ==
  \A l \in Seq(Letters), buf \in Seq(Letters), b \in Nat, k \in Nat :
    k = b + Len(buf) /\ k <= Len(l) => (SubSeq(l, b + 1, k) = buf <=> Cells(l, b, buf))
<1> SUFFICES \A l, buf, b, k :
               /\ l \in Seq(Letters) /\ buf \in Seq(Letters) /\ b \in Nat
               /\ k = b + Len(buf) /\ k <= Len(l)
               => (SubSeq(l, b + 1, k) = buf <=> Cells(l, b, buf))
  OBVIOUS
<1> TAKE l, buf, b, k
<1>a. HAVE /\ l \in Seq(Letters) /\ buf \in Seq(Letters) /\ b \in Nat
           /\ k = b + Len(buf) /\ k <= Len(l)
<1> DEFINE n == Len(buf)
<1>0. l \in Seq(Letters) /\ buf \in Seq(Letters) /\ n = Len(buf) /\ b \in Nat /\ b + n <= Len(l)
  BY <1>a
<1> HIDE DEF n
<1> DEFINE m == Len(l)
           p == SubSeq(l, b + 1, b + n)
<1>1. n \in Nat /\ m \in Nat /\ b \in Nat /\ b + n <= m
  BY <1>0, LenIs
<1>2. \A i \in 1..m : l[i] \in Letters
  BY <1>0, LenIs
<1>3. p \in Seq(Letters) /\ Len(p) = n /\ \A i \in 1..n : p[i] = l[b + i]
  <2> HIDE DEF m
  <2>1. /\ b + 1 \in Int /\ b + n \in Int /\ \A i \in (b + 1)..(b + n) : i \in 1..m
        /\ (b + n) - (b + 1) + 1 = n /\ (~(b + 1 <= b + n) => n = 0)
    BY <1>1, SMTT(60)
  <2>2. \A i \in (b + 1)..(b + n) : l[i] \in Letters
    BY <1>2, <2>1
  <2>3. /\ p \in Seq(Letters) /\ Len(p) = (IF b + 1 <= b + n THEN (b + n) - (b + 1) + 1 ELSE 0)
        /\ \A i \in 1..((b + n) - (b + 1) + 1) : p[i] = l[(b + 1) + i - 1]
    BY <2>1, <2>2, SubSeqIs, SMTT(60)
  <2>4. \A i \in 1..n : (b + 1) + i - 1 = b + i
    BY <1>1, SMTT(60)
  <2> HIDE DEF p
  <2> QED
    BY <1>1, <2>1, <2>3, <2>4
<1>4. n = Len(buf) /\ buf \in Seq(Letters)
  BY <1>0
<1> HIDE DEF p, m
<1>5. p = [i \in 1..n |-> p[i]] /\ buf = [i \in 1..n |-> buf[i]]
  BY <1>3, <1>4, SMTT(60)
<1>6. p = buf <=> \A i \in 1..n : p[i] = buf[i]
  <2>1. (\A i \in 1..n : p[i] = buf[i]) => [i \in 1..n |-> p[i]] = [i \in 1..n |-> buf[i]]
    OBVIOUS
  <2> QED
    BY <1>5, <2>1
<1>7. p = buf <=> \A i \in 1..n : l[b + i] = buf[i]
  BY <1>3, <1>6
<1> QED
  BY <1>7, <1>a DEF p, n, Cells

\* The terminal shows the bytes buf from column b on, as EchoShowsLine says.
Shows(t, b, buf) ==
  /\ t.at = b + Len(buf)
  /\ SubSeq(t.line, b + 1, t.at) = buf
  /\ \A i \in (t.at + 1)..Len(t.line) : t.line[i] = " "

\* It does if the cells do and only blanks follow.
LEMMA ShowsCells ==
  \A t, b, buf : TtyOK(t) /\ b \in Nat /\ buf \in Seq(LineBytes) =>
    (Shows(t, b, buf) <=> t.at = b + Len(buf) /\ \A i \in 1..Len(buf) : t.line[b + i] = buf[i])
<1> TAKE t, b, buf
<1>0. HAVE TtyOK(t) /\ b \in Nat /\ buf \in Seq(LineBytes)
<1>1. PICK l, m, k, a : TtyIs(t, l, m, k, a)
  BY <1>0, TtyFields
<1>2. buf \in Seq(Letters) /\ Len(buf) \in Nat
  <2>1. LineBytes \subseteq Letters
    BY DEF LineBytes, Letters
  <2> QED
    BY <1>0, <2>1, LenIs, SMTT(60)
<1>a. t = Tty(l, k, a) /\ m = Len(l) /\ l \in Seq(Letters)
  BY <1>1 DEF TtyIs
<1>c. m = Len(l) /\ \A i \in (k + 1)..m : l[i] = " "
  BY <1>1 DEF TtyIs
<1>3. t.line = l /\ t.at = k
  BY <1>a, TtyHas, SMTT(60)
<1>b. k <= m /\ k \in Nat
  BY <1>1 DEF TtyIs
<1>4. CASE k = b + Len(buf)
  <2>1. SubSeq(l, b + 1, k) = buf <=> Cells(l, b, buf)
    <3>1. l \in Seq(Letters) /\ buf \in Seq(Letters) /\ b \in Nat /\ k \in Nat /\ k = b + Len(buf) /\ k <= Len(l)
      BY <1>0, <1>2, <1>4, <1>a, <1>b
    <3> QED
      BY <3>1, PieceIs, SMTT(60)
  <2> QED
    BY <1>c, <1>3, <1>4, <2>1 DEF Shows, Cells
<1>5. CASE k # b + Len(buf)
  BY <1>3, <1>5 DEF Shows
<1> QED
  BY <1>4, <1>5

\* A line begins where the cursor is.
LEMMA ShowsNothing ==
  \A t, buf : TtyOK(t) /\ buf = <<>> => t.at \in Nat /\ Shows(t, t.at, buf)
<1> TAKE t, buf
<1>0. HAVE TtyOK(t) /\ buf = <<>>
<1>1. t.at \in Nat
  <2>1. t \in [line : Seq(Letters), at : Nat, ansi : {"NORMAL", "ESC", "CSI"}]
    BY <1>0 DEF TtyOK
  <2> QED
    BY <2>1
<1>2. buf \in Seq(LineBytes) /\ Len(buf) = 0
  BY <1>0, EmptyIs
<1>3. t.at = t.at + Len(buf) /\ \A i \in 1..Len(buf) : t.line[t.at + i] = buf[i]
  BY <1>1, <1>2, SMTT(60)
<1> QED
  BY <1>0, <1>1, <1>2, <1>3, ShowsCells
\* A stored key is shown behind the line.
LEMMA ShowsTyped ==
  \A t, b, buf, c :
    /\ TtyOK(t) /\ t.ansi = "NORMAL" /\ b \in Nat /\ buf \in Seq(LineBytes) /\ c \in Chars
    /\ Shows(t, b, buf)
    => TtyOK(TtyPut(t, c)) /\ Shows(TtyPut(t, c), b, Append(buf, c))
<1> TAKE t, b, buf, c
<1>0. HAVE /\ TtyOK(t) /\ t.ansi = "NORMAL" /\ b \in Nat /\ buf \in Seq(LineBytes) /\ c \in Chars
           /\ Shows(t, b, buf)
<1>1. c \in Letters /\ IsText(t.ansi, c) /\ c \notin {"nl", "cr", "\\b"}
  BY <1>0, TextAssumption, LdiscAssumption DEF Letters, IsText
<1> DEFINE n == Len(buf)
           L == Overwritten(t.line, Len(t.line), t.at, c)
           u == TtyPut(t, c)
           app == Append(buf, c)
<1>2. u = Tty(L, t.at + 1, "NORMAL") /\ TtyOK(u)
  BY <1>0, <1>1, TtyPutShown
<1>3. t.at = b + n /\ \A i \in 1..n : t.line[b + i] = buf[i]
  BY <1>0, ShowsCells, SMTT(60)
<1>4. /\ n \in Nat /\ app \in Seq(LineBytes) /\ Len(app) = n + 1
      /\ \A i \in 1..n : app[i] = buf[i]
      /\ app[n + 1] = c
  <2>1. c \in LineBytes /\ buf \in Seq(LineBytes)
    BY <1>0 DEF LineBytes
  <2> QED
    BY <2>1, AppendIs, LenIs, SMTT(60)
<1>5. PICK l, m, k, a : TtyIs(t, l, m, k, a)
  BY <1>0, TtyFields
<1>a. t = Tty(l, k, a) /\ m = Len(l) /\ m \in Nat /\ k \in Nat /\ k <= m
  BY <1>5 DEF TtyIs
<1>6. t.line = l /\ Len(t.line) = m /\ t.at = k /\ m \in Nat /\ k \in Nat /\ k <= m
  BY <1>a, TtyHas, SMTT(60)
<1>7. L = [i \in 1..(IF k < m THEN m ELSE k + 1) |-> IF i = k + 1 THEN c ELSE l[i]]
  BY <1>6 DEF Overwritten
<1> HIDE DEF n, L, u, app
<1>8. k = b + n /\ b \in Nat /\ n \in Nat
  BY <1>0, <1>3, <1>4, <1>6
<1>9. ASSUME NEW i, i \in 1..(n + 1) PROVE L[b + i] = app[i]
  <2>1. CASE i = n + 1
    <3>1. b + i = k + 1 /\ k + 1 \in 1..(IF k < m THEN m ELSE k + 1)
      BY <1>6, <1>8, <2>1, SMTT(60)
    <3>2. L[k + 1] = c
      BY <1>7, <3>1
    <3> QED
      BY <1>4, <2>1, <3>1, <3>2
  <2>2. CASE i # n + 1
    <3>1. i \in 1..n
      BY <1>8, <1>9, <2>2, SMTT(60)
    <3>2. b + i # k + 1 /\ b + i \in 1..(IF k < m THEN m ELSE k + 1)
      BY <1>6, <1>8, <3>1, SMTT(60)
    <3>3. L[b + i] = l[b + i]
      BY <1>7, <3>2
    <3> QED
      BY <1>3, <1>4, <1>6, <3>1, <3>3
  <2> QED
    BY <2>1, <2>2
<1>10. u.line = L /\ u.at = k + 1 /\ k + 1 = b + (n + 1)
  <2>1. u.line = L /\ u.at = k + 1
    BY <1>2, <1>6, TtyHas, SMTT(60)
  <2> QED
    BY <1>8, <2>1, SMTT(60)
<1>11. u.at = b + Len(app) /\ \A i \in 1..Len(app) : u.line[b + i] = app[i]
  BY <1>4, <1>9, <1>10
<1>12. Shows(u, b, app)
  BY <1>0, <1>2, <1>4, <1>11, ShowsCells
<1> QED
  BY <1>2, <1>12 DEF u, app

\* An erase takes the last byte of the line off the terminal.
LEMMA ShowsErased ==
  \A t, b, buf :
    /\ TtyOK(t) /\ t.ansi = "NORMAL" /\ b \in Nat /\ buf \in Seq(LineBytes) /\ buf # <<>>
    /\ Shows(t, b, buf)
    => Shows(Erased(t), b, SubSeq(buf, 1, Len(buf) - 1))
<1> TAKE t, b, buf
<1>0. HAVE /\ TtyOK(t) /\ t.ansi = "NORMAL" /\ b \in Nat /\ buf \in Seq(LineBytes) /\ buf # <<>>
           /\ Shows(t, b, buf)
<1> DEFINE n == Len(buf)
           short == SubSeq(buf, 1, Len(buf) - 1)
<1>1. t.at = b + n /\ \A i \in 1..n : t.line[b + i] = buf[i]
  BY <1>0, ShowsCells, SMTT(60)
<1>2. n \in Nat \ {0} /\ \A i \in 1..n : buf[i] \in LineBytes
  BY <1>0, EmptyIs, LenIs
<1>3. short \in Seq(LineBytes) /\ Len(short) = n - 1 /\ \A i \in 1..(n - 1) : short[i] = buf[i]
  <2> DEFINE j == n - 1
  <2>1. j \in Nat /\ 1 \in Int /\ \A i \in 1..j : i \in 1..n
    BY <1>2, SMTT(60)
  <2>2. \A i \in 1..j : buf[i] \in LineBytes
    BY <1>2, <2>1
  <2> HIDE DEF j
  <2>3. /\ SubSeq(buf, 1, j) \in Seq(LineBytes)
        /\ Len(SubSeq(buf, 1, j)) = j
        /\ \A i \in 1..j : SubSeq(buf, 1, j)[i] = buf[i]
    BY <2>1, <2>2, SubSeqIs, SMTT(60)
  <2> QED
    BY <2>3 DEF j
<1>4. PICK l, m, k, a : TtyIs(t, l, m, k, a)
  BY <1>0, TtyFields
<1>a. t = Tty(l, k, a) /\ m \in Nat /\ k \in Nat /\ k <= m
  BY <1>4 DEF TtyIs
<1>5. t.line = l /\ t.at = k /\ m \in Nat /\ k \in Nat /\ k <= m
  BY <1>a, TtyHas, SMTT(60)
<1> HIDE DEF n, short
<1>6. k = b + n /\ b \in Nat /\ k \in 1..m
  BY <1>0, <1>1, <1>2, <1>5, SMTT(60)
<1>7. /\ TtyOK(Erased(t)) /\ Erased(t).at = t.at - 1
      /\ \A i \in 1..(t.at - 1) : Erased(t).line[i] = t.line[i]
  <2>1. t.at # 0
    BY <1>5, <1>6, SMTT(60)
  <2> QED
    BY <1>0, <2>1, TtyEraseExact
<1>8. /\ \A i \in 1..(n - 1) : b + i \in 1..(k - 1) /\ i \in 1..n
      /\ k - 1 = b + (n - 1)
  BY <1>2, <1>5, <1>6, SMTT(60)
<1>9. \A i \in 1..(n - 1) : Erased(t).line[b + i] = short[i]
  BY <1>1, <1>3, <1>5, <1>7, <1>8
<1>10. Erased(t).at = b + (n - 1)
  BY <1>5, <1>7, <1>8
<1>11. /\ Erased(t).at = b + Len(short)
       /\ \A i \in 1..Len(short) : Erased(t).line[b + i] = short[i]
  BY <1>3, <1>9, <1>10
<1>12. Shows(Erased(t), b, short)
  BY <1>0, <1>3, <1>7, <1>11, ShowsCells
<1> QED
  BY <1>12 DEF short

\* The write under way has a character left.
OutOK(o) ==
  /\ o = [text |-> o.text, pc |-> o.pc, ansi |-> o.ansi, x |-> o.x, y |-> o.y]
  /\ o.text \in Seq(Plain)
  /\ o.pc # "idle" => o.text # <<>>

\* The inductive invariant: the cursor never stands before anything but
\* blanks, so a line can begin wherever it stands.
EchoInv ==
  /\ LineInv
  /\ TtyOK(tty)
  /\ base = <<>> \/ \E b \in Nat : base = <<b>>
  /\ OutOK(out)
  /\ EchoShowsLine

\* What EchoShowsLine says of a line that is edited.
LEMMA EchoIs ==
  (\A b : base = <<b>> /\ ~ldisc_ready(ld) => Shows(tty, b, ld.buf))
  /\ (base = <<>> \/ \E b \in Nat : base = <<b>>)
  => EchoShowsLine
<1> SUFFICES ASSUME \A b : base = <<b>> /\ ~ldisc_ready(ld) => Shows(tty, b, ld.buf),
                    base # <<>>, \E b \in Nat : base = <<b>>, ~ldisc_ready(ld)
             PROVE  EchoShowsLine
  BY DEF EchoShowsLine
<1>1. PICK b : base = <<b>>
  OBVIOUS
<1>2. Shows(tty, b, ld.buf) /\ base[1] = b
  BY <1>1
<1> QED
  BY <1>2 DEF Shows, EchoShowsLine

\* What EchoShowsLine says of a line that is not finished.
LEMMA EchoGives ==
  \A b : EchoShowsLine /\ base = <<b>> /\ ~ldisc_ready(ld) => Shows(tty, b, ld.buf)
<1> SUFFICES ASSUME NEW b, EchoShowsLine, base = <<b>>, ~ldisc_ready(ld)
             PROVE  Shows(tty, b, ld.buf)
  OBVIOUS
<1>1. base # <<>> /\ base[1] = b
  OBVIOUS
<1> QED
  BY <1>1 DEF Shows, EchoShowsLine

\* Output that is not echo starts the line anew, or gives up showing it.
LEMMA NewBaseShows ==
  ASSUME TtyOK(tty'), UNCHANGED ld, NewBase
  PROVE  EchoShowsLine' /\ (base = <<>> \/ \E b \in Nat : base = <<b>>)'
<1>1. CASE ld.buf = <<>>
  <2>1. base' = <<tty'.at>> /\ tty'.at \in Nat /\ Shows(tty', tty'.at, ld'.buf)
    BY <1>1, ShowsNothing DEF NewBase
  <2>2. (base = <<>> \/ \E b \in Nat : base = <<b>>)'
    BY <2>1
  <2>3. \A b : base' = <<b>> => b = tty'.at
    BY <2>1
  <2>4. (\A b : base = <<b>> /\ ~ldisc_ready(ld) => Shows(tty, b, ld.buf))'
    BY <2>1, <2>3
  <2>5. EchoShowsLine'
    BY <2>2, <2>4, EchoIs, PTL
  <2> QED
    BY <2>2, <2>5
<1>2. CASE ld.buf # <<>>
  <2>1. base' = <<>>
    BY <1>2 DEF NewBase
  <2> QED
    BY <2>1 DEF EchoShowsLine
<1> QED
  BY <1>1, <1>2

\* A text that moves no cursor back is made of characters that do not.
LEMMA PlainText ==
  ASSUME PlainTexts, NEW text \in Texts \cup Dumps
  PROVE  text \in Seq(Plain) /\ Len(text) \in Nat /\ \A i \in 1..Len(text) : text[i] \in Plain
<1> DEFINE R == {text[i] : i \in DOMAIN text}
<1>1. text \in Seq(R)
  BY TextAssumption
<1>2. R \subseteq Plain
  <2> SUFFICES ASSUME NEW i \in DOMAIN text PROVE text[i] \in Plain
    OBVIOUS
  <2>1. text[i] \notin {"cr", "\\b"}
    BY DEF PlainTexts
  <2>2. text[i] \in R /\ R \in {{u[k] : k \in DOMAIN u} : u \in Texts \cup Dumps}
    OBVIOUS
  <2>3. text[i] \in Letters
    <3> HIDE DEF R
    <3> QED
      BY <2>2 DEF Letters
  <2> QED
    BY <2>1, <2>3 DEF Plain
<1> HIDE DEF R
<1>3. text \in Seq(Plain)
  BY <1>1, <1>2, SMTT(60)
<1> QED
  BY <1>3, LenIs

\* Nothing the line discipline keeps is touched.
LEMMA LineKept ==
  ASSUME LineInv, UNCHANGED vars
  PROVE  LineInv' /\ UNCHANGED ld
BY DEF vars, LineInv, LdiscInv, ReadyHasBytes, EditsLine, HandsOutLine, ldisc_ready

\* The task dump leaves the cursor behind everything it printed.
LEMMA DumpKeeps ==
  ASSUME PlainTexts, EchoInv, sched_task_dump_all
  PROVE  EchoInv'
<1>1. PICK text : text \in Dumps /\ Put(_putchar, text)
  BY DEF sched_task_dump_all
<1>2. text \in Texts \cup Dumps
  BY <1>1
<1>3. Len(text) \in Nat /\ \A i \in 1..Len(text) : text[i] \in Plain
  BY <1>2, PlainText
<1>4. PICK g : /\ g[0] = tty /\ tty' = g[Len(text)]
               /\ \A i \in 1..Len(text) : g[i] = TtySend(TRUE, g[i - 1], text[i])
  BY <1>1, <1>3, SentTo
<1> DEFINE n == Len(text)
           T == {i \in 0..n : TtyOK(g[i])}
<1>5. 0 \in T
  BY <1>3, <1>4, SMTT(60) DEF EchoInv
<1>6. ASSUME NEW i, i \in 1..n, i - 1 \in T PROVE i \in T
  <2>1. TtyOK(g[i - 1]) /\ g[i] = TtySend(TRUE, g[i - 1], text[i]) /\ text[i] \in Plain
    BY <1>3, <1>4, <1>6
  <2>2. TtyOK(g[i])
    BY <2>1, TtyCrLf, TtyPutPlain DEF TtySend
  <2>3. i \in 0..n
    BY <1>3, <1>6, SMTT(60)
  <2> QED
    BY <2>2, <2>3
<1>7. TtyOK(tty')
  <2>1. n \in Nat /\ \A i \in 1..n : i - 1 \in T => i \in T
    BY <1>3, <1>6
  <2>2. n \in T
    <3> HIDE DEF n, T
    <3>1. \A i \in 0..n : i \in T
      BY <1>5, <2>1, InductionUpTo
    <3> QED
      BY <2>1, <3>1, SMTT(60)
  <2> QED
    BY <1>4, <2>2
<1>8. out' = out /\ NewBase /\ UNCHANGED vars
  BY <1>1 DEF sched_task_dump_all, Put
<1>9. LineInv' /\ UNCHANGED ld
  BY <1>8, LineKept DEF EchoInv
<1>10. EchoShowsLine' /\ (base = <<>> \/ \E b \in Nat : base = <<b>>)'
  BY <1>7, <1>8, <1>9, NewBaseShows
<1>11. OutOK(out)'
  BY <1>8 DEF EchoInv
<1> QED
  BY <1>7, <1>9, <1>10, <1>11 DEF EchoInv

\* What a key does to the line and what is echoed for it.
LEMMA FeedAndEchoCases ==
  ASSUME LdiscInv, NEW byte \in Bytes
  PROVE  \/ /\ Echo(byte) = <<>>
            /\ ldisc_feed(ld, byte).buf = ld.buf /\ ldisc_feed(ld, byte).complete = ld.complete
         \/ /\ Echo(byte) = <<"\\b", " ", "\\b">> /\ ld.buf # <<>> /\ ~ld.complete
            /\ ldisc_feed(ld, byte).buf = SubSeq(ld.buf, 1, Len(ld.buf) - 1)
         \/ Echo(byte) = <<"nl">> /\ ldisc_feed(ld, byte).complete
         \/ /\ byte \in Chars /\ Echo(byte) = <<byte>> /\ ~ld.complete
            /\ ldisc_feed(ld, byte).buf = Append(ld.buf, byte)
<1>1. ld = [buf |-> ld.buf, consumed |-> ld.consumed, complete |-> ld.complete]
      /\ ld.complete \in BOOLEAN
  BY DEF LdiscInv, LdiscType
<1> DEFINE b == ld.buf
<1>2. CASE ld.complete
  BY <1>2 DEF Echo, ldisc_ready, ldisc_feed
<1>3. CASE ~ld.complete /\ byte = "bs"
  <2>1. CASE b = <<>>
    <3>1. Echo(byte) = <<>>
      BY <1>3, <2>1 DEF Echo, ldisc_ready
    <3>2. ldisc_feed(ld, byte) = [ld EXCEPT !.buf = ld.buf]
      BY <1>3, <2>1, LdiscAssumption DEF ldisc_feed, Storable
    <3> QED
      BY <1>1, <3>1, <3>2
  <2>2. CASE b # <<>>
    <3>1. Echo(byte) = <<"\\b", " ", "\\b">>
      BY <1>3, <2>2 DEF Echo, ldisc_ready
    <3>2. ldisc_feed(ld, byte) = [ld EXCEPT !.buf = SubSeq(ld.buf, 1, Len(ld.buf) - 1)]
      BY <1>3, <2>2, LdiscAssumption DEF ldisc_feed, Storable
    <3>3. ldisc_feed(ld, byte).buf = SubSeq(ld.buf, 1, Len(ld.buf) - 1)
      BY <1>1, <3>2
    <3> QED
      BY <1>3, <2>2, <3>1, <3>3
  <2> QED
    BY <2>1, <2>2
<1>4. CASE ~ld.complete /\ byte = "nl"
  <2>1. Echo(byte) = <<"nl">>
    BY <1>4 DEF Echo, ldisc_ready
  <2>2. ldisc_feed(ld, byte).complete
    <3>1. ldisc_feed(ld, byte)
            = [ld EXCEPT !.buf = IF Len(@) < LDISC_BUF_SIZE THEN Append(@, "nl") ELSE @,
                         !.complete = TRUE]
      BY <1>4, LdiscAssumption DEF ldisc_feed, Storable
    <3> QED
      BY <1>1, <3>1
  <2> QED
    BY <2>1, <2>2
<1>5. CASE ~ld.complete /\ byte \notin {"bs", "nl"} /\ Storable(byte) /\ Len(ld.buf) < Room
  <2>1. Echo(byte) = <<byte>>
    BY <1>5 DEF Echo, ldisc_ready
  <2>2. ldisc_feed(ld, byte) = [ld EXCEPT !.buf = Append(ld.buf, byte)]
    BY <1>5 DEF ldisc_feed
  <2>3. ldisc_feed(ld, byte).buf = Append(ld.buf, byte)
    BY <1>1, <2>2
  <2> QED
    BY <1>5, <2>1, <2>3 DEF Storable
<1>6. CASE ~ld.complete /\ byte \notin {"bs", "nl"} /\ ~(Storable(byte) /\ Len(ld.buf) < Room)
  <2>1. Echo(byte) = <<>>
    BY <1>6 DEF Echo, ldisc_ready
  <2>2. ldisc_feed(ld, byte) = ld \/ ldisc_feed(ld, byte) = [ld EXCEPT !.buf = ld.buf]
    BY <1>6 DEF ldisc_feed
  <2> QED
    BY <1>1, <2>1, <2>2
<1> QED
  BY <1>2, <1>3, <1>4, <1>5, <1>6

\* Of an echo the terminal is left as its characters leave it.
LEMMA EchoTty ==
  ASSUME NEW chars, Put(console_putc, chars)
  PROVE  /\ chars = <<>> => tty' = tty
         /\ chars = <<"\\b", " ", "\\b">> => tty' = Erased(tty)
         /\ \A c : chars = <<c>> => tty' = TtyPut(tty, c)
<1>1. ASSUME Len(chars) \in Nat
      PROVE  \E g : /\ g[0] = tty /\ tty' = g[Len(chars)]
                    /\ \A i \in 1..Len(chars) : g[i] = TtyPut(g[i - 1], chars[i])
  <2>1. PICK g : /\ g[0] = tty /\ tty' = g[Len(chars)]
                 /\ \A i \in 1..Len(chars) : g[i] = TtySend(FALSE, g[i - 1], chars[i])
    BY <1>1, SentTo
  <2> QED
    BY <2>1 DEF TtySend
<1>2. CASE chars = <<>>
  <2>1. Len(chars) = 0
    BY <1>2
  <2> QED
    BY <1>1, <1>2, <2>1
<1>3. CASE chars = <<"\\b", " ", "\\b">>
  <2>1. Len(chars) = 3 /\ chars[1] = "\\b" /\ chars[2] = " " /\ chars[3] = "\\b"
    BY <1>3
  <2>a. 3 \in Nat
    OBVIOUS
  <2>b. PICK g : /\ g[0] = tty /\ tty' = g[Len(chars)]
                 /\ \A i \in 1..Len(chars) : g[i] = TtyPut(g[i - 1], chars[i])
    <3> QED
      BY <1>1, <2>1, <2>a
  <2>2. g[0] = tty /\ tty' = g[3] /\ \A i \in 1..3 : g[i] = TtyPut(g[i - 1], chars[i])
    BY <2>1, <2>b
  <2>3. g[1] = TtyPut(g[0], chars[1]) /\ g[2] = TtyPut(g[1], chars[2]) /\ g[3] = TtyPut(g[2], chars[3])
    BY <2>2, SMTT(60)
  <2> QED
    BY <1>3, <2>1, <2>2, <2>3 DEF Erased, Blanked
<1>4. ASSUME NEW c, chars = <<c>> PROVE tty' = TtyPut(tty, c)
  <2>1. Len(chars) = 1 /\ chars[1] = c
    BY <1>4
  <2>2. PICK g : /\ g[0] = tty /\ tty' = g[1]
                 /\ \A i \in 1..1 : g[i] = TtyPut(g[i - 1], chars[i])
    BY <1>1, <2>1, SMTT(60)
  <2>3. g[1] = TtyPut(g[0], chars[1])
    BY <2>2, SMTT(60)
  <2> QED
    BY <2>1, <2>2, <2>3
<1> QED
  BY <1>2, <1>3, <1>4

\* A key keeps the terminal showing the line.
LEMMA FeedKeeps ==
  ASSUME EchoInv, NEW byte \in Bytes, FeedAndEcho(byte)
  PROVE  EchoInv'
<1>1. LineInv' /\ LdiscInv
  BY TypeKeepsLine DEF EchoInv, FeedAndEcho, LineInv
<1>2. ld' = ldisc_feed(ld, byte) /\ Put(console_putc, Echo(byte)) /\ out' = out
  BY DEF FeedAndEcho, Type, Put
<1>3. OutOK(out)'
  BY <1>2 DEF EchoInv
<1>4. ld.buf \in Seq(LineBytes) /\ TtyOK(tty)
  BY <1>1 DEF EchoInv, LdiscInv, LdiscType
<1>5. /\ Echo(byte) = <<>> => tty' = tty
      /\ Echo(byte) = <<"\\b", " ", "\\b">> => tty' = Erased(tty)
      /\ \A c : Echo(byte) = <<c>> => tty' = TtyPut(tty, c)
  BY <1>2, EchoTty
<1>6. SUFFICES /\ TtyOK(tty')
               /\ base' = <<>> \/ \E b \in Nat : base' = <<b>>
               /\ \A b : base' = <<b>> /\ ~ldisc_ready(ld') => Shows(tty', b, ld'.buf)
  <2>1. (/\ (\A b : base = <<b>> /\ ~ldisc_ready(ld) => Shows(tty, b, ld.buf))
         /\ base = <<>> \/ \E b \in Nat : base = <<b>>)'
    BY <1>6
  <2>2. EchoShowsLine'
    BY <2>1, EchoIs, PTL
  <2> QED
    BY <1>1, <1>3, <1>6, <2>2 DEF EchoInv
<1>7. base = <<>> \/ \E b \in Nat : base = <<b>>
  BY DEF EchoInv
<1>8. \A b : base = <<b>> => b \in Nat
  BY <1>7, SMTT(60)
<1>9. \A b : base = <<b>> /\ ~ldisc_ready(ld) => Shows(tty, b, ld.buf)
  BY EchoGives DEF EchoInv
<1>10. CASE /\ Echo(byte) = <<>>
            /\ ldisc_feed(ld, byte).buf = ld.buf /\ ldisc_feed(ld, byte).complete = ld.complete
  <2>1. tty' = tty /\ base' = base
    BY <1>5, <1>10, SMTT(60) DEF FeedAndEcho
  <2>2. ld'.buf = ld.buf /\ (ldisc_ready(ld') <=> ldisc_ready(ld))
    BY <1>2, <1>10 DEF ldisc_ready
  <2> QED
    BY <1>4, <1>7, <1>9, <2>1, <2>2
<1>11. CASE /\ Echo(byte) = <<"\\b", " ", "\\b">> /\ ld.buf # <<>> /\ ~ld.complete
            /\ ldisc_feed(ld, byte).buf = SubSeq(ld.buf, 1, Len(ld.buf) - 1)
  <2>1. tty' = Erased(tty) /\ TtyOK(tty')
    BY <1>4, <1>5, <1>11, TtyErase
  <2>2. base' = IF tty.ansi = "NORMAL" THEN base ELSE <<>>
    <3>1. Echo(byte) # <<>> /\ Echo(byte) # <<"nl">>
      <4>1. Len(Echo(byte)) = 3 /\ Len(<<>>) = 0 /\ Len(<<"nl">>) = 1
        BY <1>11
      <4> QED
        BY <4>1, SMTT(60)
    <3> QED
      BY <3>1 DEF FeedAndEcho
  <2>3. ASSUME NEW b, base' = <<b>> PROVE Shows(tty', b, ld'.buf)
    <3>1. tty.ansi = "NORMAL" /\ base = <<b>>
      BY <2>2, <2>3, SMTT(60)
    <3>2. b \in Nat /\ Shows(tty, b, ld.buf)
      BY <1>8, <1>9, <1>11, <3>1 DEF ldisc_ready
    <3>3. Shows(Erased(tty), b, SubSeq(ld.buf, 1, Len(ld.buf) - 1))
      BY <1>4, <1>11, <3>1, <3>2, ShowsErased
    <3> QED
      BY <1>2, <1>11, <2>1, <3>3
  <2> QED
    BY <1>7, <2>1, <2>2, <2>3
<1>12. CASE Echo(byte) = <<"nl">> /\ ldisc_feed(ld, byte).complete
  <2>1. TtyOK(tty')
    <3>1. "nl" \in Plain
      BY DEF Plain, Letters
    <3> QED
      BY <1>4, <1>5, <1>12, <3>1, TtyPutPlain
  <2>2. base' = <<>> \/ base' = <<0>>
    BY <1>12, SMTT(60) DEF FeedAndEcho
  <2>3. ldisc_ready(ld')
    BY <1>2, <1>12 DEF ldisc_ready
  <2> QED
    BY <2>1, <2>2, <2>3
<1>13. CASE /\ byte \in Chars /\ Echo(byte) = <<byte>> /\ ~ld.complete
            /\ ldisc_feed(ld, byte).buf = Append(ld.buf, byte)
  <2>1. tty' = TtyPut(tty, byte)
    BY <1>5, <1>13
  <2>2. TtyOK(tty')
    <3>1. byte \in Plain
      BY <1>13, TextAssumption DEF Plain, Letters
    <3> QED
      BY <1>4, <2>1, <3>1, TtyPutPlain
  <2>3. base' = IF tty.ansi = "NORMAL" THEN base ELSE <<>>
    <3>1. Echo(byte) # <<>> /\ Echo(byte) # <<"nl">>
      BY <1>13, LdiscAssumption, SMTT(60)
    <3> QED
      BY <3>1 DEF FeedAndEcho
  <2>4. ASSUME NEW b, base' = <<b>> PROVE Shows(tty', b, ld'.buf)
    <3>1. tty.ansi = "NORMAL" /\ base = <<b>>
      BY <2>3, <2>4, SMTT(60)
    <3>2. b \in Nat /\ Shows(tty, b, ld.buf)
      BY <1>8, <1>9, <1>13, <3>1 DEF ldisc_ready
    <3>3. Shows(TtyPut(tty, byte), b, Append(ld.buf, byte))
      BY <1>4, <1>13, <3>1, <3>2, ShowsTyped
    <3> QED
      BY <1>2, <1>13, <2>1, <3>3
  <2> QED
    BY <1>7, <2>2, <2>3, <2>4
<1> QED
  BY <1>1, <1>10, <1>11, <1>12, <1>13, FeedAndEchoCases

\* A read that ends the line starts the next one at the cursor.
LEMMA ReadKeeps ==
  ASSUME EchoInv, NEW size \in ReadSizes, console_dev_ops_read(size)
  PROVE  EchoInv'
<1>1. LineInv' /\ LineInv /\ LdiscInv /\ LdiscInv'
  BY ReadSizesAssumption, DrainKeepsLine DEF EchoInv, console_dev_ops_read, LineInv
<1>2. ld' = ldisc_drain(ld, size) /\ tty' = tty /\ out' = out
  BY DEF console_dev_ops_read, Drain
<1>3. base = <<>> \/ \E b \in Nat : base = <<b>>
  BY DEF EchoInv
<1>4. \A b : base = <<b>> /\ ~ldisc_ready(ld) => Shows(tty, b, ld.buf)
  BY EchoGives DEF EchoInv
<1>5. TtyOK(tty) /\ OutOK(out)
  BY DEF EchoInv
<1>6. CASE ldisc_ready(ld) /\ ~ldisc_ready(ld')
  <2>1. ld' = ldisc_init
    <3>1. ld = [buf |-> ld.buf, consumed |-> ld.consumed, complete |-> ld.complete]
      BY <1>1 DEF LdiscInv, LdiscType
    <3> QED
      BY <1>2, <1>6, <3>1 DEF ldisc_drain, ldisc_ready
  <2>2. ld'.buf = <<>>
    BY <2>1 DEF ldisc_init
  <2>3. base' = <<tty.at>>
    BY <1>6 DEF console_dev_ops_read
  <2>4. tty.at \in Nat /\ Shows(tty, tty.at, ld'.buf)
    BY <1>5, <2>2, ShowsNothing
  <2>5. \A b : base' = <<b>> => b = tty.at
    BY <2>3
  <2>6. (/\ (\A b : base = <<b>> /\ ~ldisc_ready(ld) => Shows(tty, b, ld.buf))
         /\ base = <<>> \/ \E b \in Nat : base = <<b>>)'
    BY <1>2, <2>3, <2>4, <2>5
  <2>7. EchoShowsLine'
    BY <2>6, EchoIs, PTL
  <2> QED
    BY <1>1, <1>2, <1>5, <2>6, <2>7 DEF EchoInv
<1>7. CASE ~(ldisc_ready(ld) /\ ~ldisc_ready(ld'))
  <2>1. base' = base
    BY <1>7 DEF console_dev_ops_read
  <2>2. ~ldisc_ready(ld') => ld' = ld
    BY <1>2, <1>7 DEF ldisc_drain, ldisc_ready
  <2>3. (/\ (\A b : base = <<b>> /\ ~ldisc_ready(ld) => Shows(tty, b, ld.buf))
         /\ base = <<>> \/ \E b \in Nat : base = <<b>>)'
    BY <1>2, <1>3, <1>4, <2>1, <2>2
  <2>4. EchoShowsLine'
    BY <2>3, EchoIs, PTL
  <2> QED
    BY <1>1, <1>2, <1>5, <2>3, <2>4 DEF EchoInv
<1> QED
  BY <1>6, <1>7

\* Between two characters, or to its end, the write takes the next one.
LEMMA NextCharKeeps ==
  ASSUME OutOK(out), out.pc # "idle", NextChar
  PROVE  OutOK(out')
<1>1. out.text \in Seq(Plain) /\ out.text # <<>>
  BY DEF OutOK
<1>2. OutOK(Idle)
  BY EmptyIs DEF OutOK, Idle
<1>3. CASE Len(out.text) = 1
  BY <1>2, <1>3 DEF NextChar
<1>4. CASE Len(out.text) # 1
  <2> DEFINE rest == Tail(out.text)
  <2>1. rest \in Seq(Plain) /\ rest # <<>>
    <3>1. Len(out.text) \in Nat /\ Len(out.text) # 0
      BY <1>1, EmptyIs, LenIs
    <3>2. rest \in Seq(Plain) /\ Len(rest) = Len(out.text) - 1
      BY <1>1, HeadTailIs
    <3>3. Len(rest) # 0
      BY <1>4, <3>1, <3>2, SMTT(60)
    <3>4. Len(<<>>) = 0
      OBVIOUS
    <3> HIDE DEF rest
    <3> QED
      BY <3>2, <3>3, <3>4
  <2> HIDE DEF rest
  <2>2. out' = [text |-> rest, pc |-> "serial", ansi |-> "NORMAL", x |-> 0, y |-> 0]
    BY <1>4 DEF NextChar, Idle, rest
  <2> QED
    BY <2>1, <2>2 DEF OutOK
<1> QED
  BY <1>3, <1>4

\* The program's write: each character goes to the terminal once, and what
\* follows for the screen leaves terminal and line alone.
LEMMA WriteKeeps ==
  ASSUME PlainTexts, EchoInv,
         \/ \E text \in Texts : console_dev_ops_write(text)
         \/ serial_putc \/ PrintChar \/ AdvanceCursor \/ WrapCursor \/ FeedLine \/ ScrollScreen
  PROVE  EchoInv'
<1>1. LineInv /\ TtyOK(tty) /\ OutOK(out) /\ EchoShowsLine
      /\ (base = <<>> \/ \E b \in Nat : base = <<b>>)
  BY DEF EchoInv
<1>2. LineInv' /\ UNCHANGED ld
  <2>1. UNCHANGED vars
    BY DEF console_dev_ops_write, serial_putc, PrintChar, AdvanceCursor, WrapCursor, FeedLine,
           ScrollScreen, Step
  <2> QED
    BY <1>1, <2>1, LineKept
<1>3. ASSUME UNCHANGED <<tty, base>>, OutOK(out')
      PROVE  EchoInv'
  <2>1. EchoShowsLine'
    BY <1>1, <1>2, <1>3 DEF EchoShowsLine, ldisc_ready
  <2> QED
    BY <1>1, <1>2, <1>3, <2>1 DEF EchoInv
<1>4. ASSUME NEW text \in Texts, console_dev_ops_write(text)
      PROVE  EchoInv'
  <2>1. text \in Seq(Plain) /\ text # <<>>
    BY PlainText, TextAssumption
  <2>2. out' = [text |-> text, pc |-> "serial", ansi |-> "NORMAL", x |-> 0, y |-> 0]
    BY <1>4 DEF console_dev_ops_write, Idle
  <2>3. OutOK(out')
    BY <2>1, <2>2 DEF OutOK
  <2> QED
    BY <1>3, <1>4, <2>3 DEF console_dev_ops_write
<1>5. ASSUME serial_putc PROVE EchoInv'
  <2>1. out.text \in Seq(Plain) /\ out.text # <<>>
    BY <1>1, <1>5 DEF OutOK, serial_putc, Step
  <2>2. Head(out.text) \in Plain
    BY <2>1, HeadTailIs
  <2>3. TtyOK(tty')
    BY <1>1, <1>5, <2>2, TtyPutPlain DEF serial_putc
  <2>4. EchoShowsLine' /\ (base = <<>> \/ \E b \in Nat : base = <<b>>)'
    BY <1>2, <1>5, <2>3, NewBaseShows DEF serial_putc
  <2>5. OutOK(out')
    <3>1. out' = [text |-> out.text, pc |-> "print", ansi |-> fb.ansi, x |-> out.x, y |-> out.y]
      BY <1>1, <1>5 DEF serial_putc, OutOK
    <3> QED
      BY <2>1, <3>1 DEF OutOK
  <2> QED
    BY <1>2, <2>3, <2>4, <2>5 DEF EchoInv
<1>6. ASSUME NEW pc, NEW ansi, NEW x, NEW y, out.pc # "idle",
             out' = [text |-> out.text, pc |-> pc, ansi |-> ansi, x |-> x, y |-> y]
      PROVE  OutOK(out')
  BY <1>1, <1>6 DEF OutOK
<1>7. ASSUME PrintChar PROVE EchoInv'
  <2>1. out.pc = "print" /\ UNCHANGED <<tty, base>>
    BY <1>7 DEF PrintChar, Step
  <2>2. NextChar \/ out' = [text |-> out.text, pc |-> "drawn", ansi |-> out.ansi,
                            x |-> fb.x, y |-> fb.y]
    BY <1>1, <1>7 DEF PrintChar, OutOK
  <2> QED
    BY <1>1, <1>3, <1>6, <2>1, <2>2, NextCharKeeps
<1>8. ASSUME AdvanceCursor PROVE EchoInv'
  <2>1. out.pc = "drawn" /\ UNCHANGED <<tty, base>>
    BY <1>8 DEF AdvanceCursor, Step
  <2>2. \E pc : out' = [text |-> out.text, pc |-> pc, ansi |-> out.ansi, x |-> fb'.x, y |-> out.y]
    BY <1>1, <1>8 DEF AdvanceCursor, OutOK
  <2> QED
    BY <1>3, <1>6, <2>1, <2>2
<1>9. ASSUME WrapCursor PROVE EchoInv'
  <2>1. out.pc = "advanced" /\ UNCHANGED <<tty, base>>
    BY <1>9 DEF WrapCursor, Step
  <2>2. \E pc : out' = [text |-> out.text, pc |-> pc, ansi |-> out.ansi, x |-> out.x, y |-> out.y]
    BY <1>1, <1>9 DEF WrapCursor, OutOK
  <2> QED
    BY <1>3, <1>6, <2>1, <2>2
<1>10. ASSUME FeedLine PROVE EchoInv'
  <2>1. out.pc = "feed" /\ UNCHANGED <<tty, base>>
    BY <1>10 DEF FeedLine, Step
  <2>2. out' = [text |-> out.text, pc |-> "moved", ansi |-> out.ansi, x |-> out.x, y |-> fb'.y]
    BY <1>1, <1>10 DEF FeedLine, OutOK
  <2> QED
    BY <1>3, <1>6, <2>1, <2>2
<1>11. ASSUME ScrollScreen PROVE EchoInv'
  <2>1. out.pc = "moved" /\ UNCHANGED <<tty, base>> /\ NextChar
    BY <1>11 DEF ScrollScreen, Step
  <2> QED
    BY <1>1, <1>3, <2>1, NextCharKeeps
<1> QED
  BY <1>4, <1>5, <1>7, <1>8, <1>9, <1>10, <1>11

\* What is typed and read at the terminal is a behaviour of the line
\* discipline alone: neither the echo nor the output gets in its way.
THEOREM TerminalLine == TSpec => Spec
<1>1. TInit => Init
  BY DEF TInit
<1>2. [TNext]_tvars => [Next]_vars
  <2> SUFFICES ASSUME [TNext]_tvars PROVE [Next]_vars
    OBVIOUS
  <2>1. CASE UNCHANGED tvars
    BY <2>1 DEF tvars
  <2>2. ASSUME NEW byte \in Bytes, console_dev_feed(byte) PROVE [Next]_vars
    BY <2>2 DEF console_dev_feed, sched_task_dump_all, FeedAndEcho, Next
  <2>3. ASSUME NEW size \in ReadSizes, console_dev_ops_read(size) PROVE [Next]_vars
    BY <2>3 DEF console_dev_ops_read, Next
  <2>4. CASE \/ \E text \in Texts : console_dev_ops_write(text)
             \/ serial_putc \/ PrintChar \/ AdvanceCursor \/ WrapCursor \/ FeedLine \/ ScrollScreen
    BY <2>4 DEF console_dev_ops_write, serial_putc, PrintChar, AdvanceCursor, WrapCursor, FeedLine,
                ScrollScreen, Step
  <2> QED
    BY <2>1, <2>2, <2>3, <2>4 DEF TNext
<1> QED
  BY <1>1, <1>2, PTL DEF TSpec, Spec

\* As long as nothing printed moves the cursor back by itself, the serial
\* terminal shows the line being edited and nothing else behind it, for every
\* text, every typing and every moment an interrupt comes at.
THEOREM EchoIsExact ==
  ASSUME PlainTexts
  PROVE  TSpec => []EchoShowsLine
<1>1. TInit => EchoInv
  <2> SUFFICES ASSUME TInit PROVE EchoInv
    OBVIOUS
  <2>1. LineInv /\ ld.buf = <<>>
    BY LineAtFirst DEF TInit, Init, ldisc_init
  <2>2. TtyOK(tty)
    BY EmptyIs, SMTT(60) DEF TInit, TtyOK
  <2>3. OutOK(out)
    BY EmptyIs DEF TInit, OutOK, Idle
  <2>4. base = <<0>> /\ tty.at = 0
    BY DEF TInit
  <2>5. Shows(tty, 0, ld.buf)
    BY <2>1, <2>2, <2>4, ShowsNothing
  <2>6. /\ (\A b : base = <<b>> /\ ~ldisc_ready(ld) => Shows(tty, b, ld.buf))
        /\ base = <<>> \/ \E b \in Nat : base = <<b>>
    BY <2>4, <2>5, SMTT(60)
  <2> QED
    BY <2>1, <2>2, <2>3, <2>6, EchoIs DEF EchoInv
<1>2. EchoInv /\ [TNext]_tvars => EchoInv'
  <2> SUFFICES ASSUME EchoInv, [TNext]_tvars PROVE EchoInv'
    OBVIOUS
  <2>1. CASE UNCHANGED tvars
    BY <2>1, LineKept DEF tvars, EchoInv, EchoShowsLine, ldisc_ready
  <2>2. ASSUME NEW byte \in Bytes, console_dev_feed(byte) PROVE EchoInv'
    BY <2>2, DumpKeeps, FeedKeeps DEF console_dev_feed
  <2>3. ASSUME NEW size \in ReadSizes, console_dev_ops_read(size) PROVE EchoInv'
    BY <2>3, ReadKeeps
  <2>4. CASE \/ \E text \in Texts : console_dev_ops_write(text)
             \/ serial_putc \/ PrintChar \/ AdvanceCursor \/ WrapCursor \/ FeedLine \/ ScrollScreen
    BY <2>4, WriteKeeps
  <2> QED
    BY <2>1, <2>2, <2>3, <2>4 DEF TNext
<1>3. EchoInv => EchoShowsLine
  BY DEF EchoInv
<1> QED
  BY <1>1, <1>2, <1>3, PTL DEF TSpec
=============================================================================
