---------------------------- MODULE FilesProofs ----------------------------
(***************************************************************************)
(* Proofs about Files, for any page size and any number of tasks, files,    *)
(* descriptors and pages.  First the loops of ramfs.c and file.c that move   *)
(* the bytes of a read or a write: what a round keeps, and so what the loop  *)
(* leaves, whichever round ends it.  Then the whole: every struct file       *)
(* counts its descriptors, and no page is lost or held for bytes no file     *)
(* has.                                                                     *)
(***************************************************************************)
EXTENDS Files, BasicLemmas, FiniteSetTheorems

USE ZenonT(60)

Offsets == 0..(2^W - 1)

Page == [0..(PAGE_SIZE - 1) -> Nat]

Node == [size : Offsets, pages : Seq({Hole} \cup Page)]

File == [node : Nodes, offset : Offsets, write : BOOLEAN, ref_count : Nat]

\* Two to the width, by what the assumption says of it.
LEMMA WidthIs ==
  /\ PAGE_SIZE \in Nat \ {0} /\ MAX_SLOTS \in Nat \ {0} /\ 2^W \in Nat \ {0}
  /\ MAX_SLOTS * PAGE_SIZE < 2^W
BY RamfsAssumption

\* Offsets stay offsets, and a sum that fits is not wrapped.
LEMMA WrapIs ==
  ASSUME NEW n \in Int
  PROVE  /\ Wrap(n) \in Offsets
         /\ n \in Offsets => Wrap(n) = n
<1> DEFINE M == 2^W
<1>1. M \in Nat \ {0}
  BY WidthIs
<1> HIDE DEF M
<1>2. n % M \in 0..(M - 1) /\ (n \in 0..(M - 1) => n % M = n)
  BY <1>1, SMTT(60)
<1> QED
  BY <1>2 DEF M, Wrap, Offsets

\* The page an offset lies in, the place in it, and the length of a chunk.
LEMMA ChunkIs ==
  ASSUME NEW offset \in Offsets, NEW remaining \in Nat
  PROVE  LET c == ramfs_get_chunk_info(offset, remaining)
         IN  /\ c.index \in Nat /\ c.at \in 0..(PAGE_SIZE - 1) /\ c.len \in Nat
             /\ offset = c.index * PAGE_SIZE + c.at
             /\ c.len <= remaining /\ c.at + c.len <= PAGE_SIZE
             /\ remaining > 0 => c.len > 0
<1>1. offset \in Nat /\ PAGE_SIZE \in Nat \ {0}
  BY WidthIs, SMTT(60) DEF Offsets
<1>2. /\ offset \div PAGE_SIZE \in Nat /\ offset % PAGE_SIZE \in 0..(PAGE_SIZE - 1)
      /\ offset = (offset \div PAGE_SIZE) * PAGE_SIZE + (offset % PAGE_SIZE)
  BY <1>1, SMTT(60)
<1> QED
  BY <1>1, <1>2, SMTT(60) DEF ramfs_get_chunk_info, Least

\* The doubled length covers the index.
LEMMA NewCountIs ==
  ASSUME NEW count \in Nat, NEW index \in Nat, index >= count
  PROVE  NewCount(count, index) \in Nat /\ NewCount(count, index) > index
<1> DEFINE start == IF count = 0 THEN 4 ELSE 2 * count
           n == index + 1
           after == CHOOSE f : f = [k \in 0..n |-> IF k = 0 THEN start ELSE Doubled(f[k - 1], index)]
           g == [i \in 1..n |-> [x \in Nat |-> Doubled(x, index)]]
<1>1. start \in Nat /\ start > 0 /\ n \in Nat /\ g \in [1..n -> [Nat -> Nat]]
  BY SMTT(60) DEF Doubled
<1>2. after = [k \in 0..n |-> IF k = 0 THEN start ELSE Doubled(after[k - 1], index)]
  <2> HIDE DEF g
  <2>1. PICK h \in [0..n -> Nat] : h[0] = start /\ \A k \in 1..n : h[k] = g[k][h[k - 1]]
    <3> DEFINE S == Nat
    <3>1. start \in S /\ n \in Nat /\ g \in [1..n -> [S -> S]]
      BY <1>1
    <3> HIDE DEF start, n, S
    <3>2. \E h \in [0..n -> S] : h[0] = start /\ \A k \in 1..n : h[k] = g[k][h[k - 1]]
      BY <3>1, RecursionExists, SMTT(60)
    <3> QED
      BY <3>2 DEF S
  <2>2. \A k \in 0..n : k # 0 => k \in 1..n /\ k - 1 \in 0..n
    BY <1>1, SMTT(60)
  <2>3. \A k \in 1..n, x \in Nat : g[k][x] = Doubled(x, index)
    BY DEF g
  <2> HIDE DEF start, n
  <2>4. h = [k \in 0..n |-> IF k = 0 THEN start ELSE Doubled(h[k - 1], index)]
    BY <2>1, <2>2, <2>3, SMTT(60)
  <2> QED
    BY <2>4
<1> DEFINE T == {k \in 0..n : after[k] \in Nat /\ (after[k] > index \/ after[k] > k)}
<1> HIDE DEF after, start
<1>3. 0 \in T
  BY <1>1, <1>2, SMTT(60)
<1>4. ASSUME NEW k \in 1..n, k - 1 \in T
      PROVE  k \in T
  <2>1. k \in 0..n /\ k # 0
    BY <1>1, SMTT(60)
  <2>2. after[k] = Doubled(after[k - 1], index)
    <3> HIDE DEF n
    <3> QED
      BY <1>2, <2>1
  <2> QED
    BY <1>1, <1>4, <2>1, <2>2, SMTT(60) DEF Doubled
<1>5. n \in T
  <2> HIDE DEF T
  <2> QED
    BY <1>1, <1>3, <1>4, InductionUpTo, SMTT(60)
<1>6. NewCount(count, index) = after[n]
  BY DEF NewCount, after, start
<1> QED
  BY <1>5, <1>6, SMTT(60)


-----------------------------------------------------------------------------
\* What sys_write and ramfs_ops_write thread through their loops.
WriteState ==
  {m \in [node : Node, free : Nat, heap : BOOLEAN, ok : BOOLEAN, done : Nat,
          total : Nat, fault : BOOLEAN, ended : BOOLEAN] : Len(m.node.pages) <= MAX_SLOTS}

\* The places of a page list that hold a page.
Slots(pages) == {i \in 1..Len(pages) : pages[i] # Hole}

\* What getting a page leaves alone.
SameCall(w, m) ==
  /\ w.node.size = m.node.size /\ w.heap = m.heap /\ w.done = m.done
  /\ w.total = m.total /\ w.fault = m.fault /\ w.ended = m.ended

\* A state with another page list.
LEMMA PagesChange ==
  ASSUME NEW m \in WriteState, NEW pages \in Seq({Hole} \cup Page), Len(pages) <= MAX_SLOTS
  PROVE  LET w == [m EXCEPT !.node.pages = pages]
         IN  w \in WriteState /\ SameCall(w, m) /\ w.node.pages = pages
                /\ w.free = m.free /\ w.ok = m.ok
<1> DEFINE w == [m EXCEPT !.node.pages = pages]
<1>1. m.node \in Node
  BY DEF WriteState
<1>2. [m.node EXCEPT !.pages = pages] \in Node /\ [m.node EXCEPT !.pages = pages].pages = pages
         /\ [m.node EXCEPT !.pages = pages].size = m.node.size
  BY <1>1 DEF Node
<1>3. w.node = [m.node EXCEPT !.pages = pages]
  BY DEF WriteState
<1>4. w \in WriteState
  BY <1>2, <1>3 DEF WriteState
<1>5. SameCall(w, m)
  BY <1>2, <1>3 DEF WriteState, SameCall
<1> QED
  BY <1>2, <1>3, <1>4, <1>5 DEF WriteState

\* Growing the list adds holes only.
LEMMA GrowListIs ==
  ASSUME NEW m \in WriteState, m.ok, NEW index \in Nat
  PROVE  LET g == GrowList(m, index)
         IN  /\ g \in WriteState /\ SameCall(g, m) /\ g.free = m.free
             /\ Slots(g.node.pages) = Slots(m.node.pages)
             /\ g.ok => index < Len(g.node.pages)
<1> DEFINE count == Len(m.node.pages)
           new == NewCount(count, index)
           more == [i \in 1..(new - count) |-> Hole]
           g == GrowList(m, index)
<1>1. m.node.pages \in Seq({Hole} \cup Page) /\ count \in Nat
  BY SMTT(60) DEF WriteState, Node
<1>2. CASE index < count
  BY <1>2 DEF GrowList, SameCall
<1>3. CASE ~(index < count) /\ (~m.heap \/ new > MAX_SLOTS)
  <2>1. g = [m EXCEPT !.ok = FALSE]
    BY <1>3 DEF GrowList
  <2> QED
    BY <2>1 DEF WriteState, SameCall
<1>4. CASE ~(index < count) /\ ~(~m.heap \/ new > MAX_SLOTS)
  <2>1. g = [m EXCEPT !.node.pages = m.node.pages \o more]
    BY <1>4 DEF GrowList, WriteState, Node
  <2>2. new \in Nat /\ new > index /\ index >= count /\ new <= MAX_SLOTS
    <3>1. index >= count
      BY <1>1, <1>4, SMTT(60)
    <3>2. new \in Nat /\ new > index
      <4> HIDE DEF count
      <4> QED
        BY <1>1, <3>1, NewCountIs
    <3> HIDE DEF new, count
    <3> QED
      BY <1>4, <3>1, <3>2, WidthIs, SMTT(60)
  <2>3. more \in Seq({Hole} \cup Page) /\ Len(more) = new - count
           /\ \A i \in 1..(new - count) : more[i] = Hole
    BY <1>1, <2>2, SMTT(60)
  <2> DEFINE pages == m.node.pages \o more
  <2> HIDE DEF new, more, count
  <2>4. /\ pages \in Seq({Hole} \cup Page) /\ Len(pages) = new
        /\ \A i \in 1..new : pages[i] = IF i <= count THEN m.node.pages[i] ELSE Hole
    BY <1>1, <2>2, <2>3, ConcatIs, SMTT(60) DEF count
  <2>5. Slots(pages) = Slots(m.node.pages)
    BY <1>1, <2>2, <2>4, SMTT(60) DEF Slots, count
  <2> HIDE DEF pages
  <2>6. g = [m EXCEPT !.node.pages = pages]
    BY <2>1 DEF pages
  <2> QED
    BY <2>2, <2>4, <2>5, <2>6, PagesChange, SMTT(60)
<1> QED
  BY <1>2, <1>3, <1>4

\* Getting a page fills at most the place asked for, from the free pages.
Walked(w, m, index) ==
  /\ w \in WriteState /\ SameCall(w, m)
  /\ w.ok => /\ index < Len(w.node.pages) /\ w.node.pages[index + 1] \in Page
             /\ Slots(w.node.pages) = Slots(m.node.pages) \cup {index + 1}
  /\ \/ w.free = m.free /\ Slots(w.node.pages) = Slots(m.node.pages)
     \/ /\ w.ok /\ w.free = m.free - 1 /\ index + 1 \notin Slots(m.node.pages)

\* So does ramfs_walk_page.
LEMMA WalkPageIs ==
  ASSUME NEW m \in WriteState, m.ok, NEW index \in Nat
  PROVE  Walked(ramfs_walk_page(m, index), m, index)
<1> DEFINE g == GrowList(m, index)
           w == ramfs_walk_page(m, index)
           old == g.node.pages
<1>1. /\ g \in WriteState /\ SameCall(g, m) /\ g.free = m.free
      /\ Slots(old) = Slots(m.node.pages)
      /\ g.ok => index < Len(old)
  BY GrowListIs
<1> HIDE DEF g
<1>2. w = IF ~g.ok \/ old[index + 1] # Hole THEN g
          ELSE IF g.free = 0 THEN [g EXCEPT !.ok = FALSE]
          ELSE [g EXCEPT !.node.pages[index + 1] = ZeroPage, !.free = @ - 1]
  BY DEF ramfs_walk_page, g
<1> SUFFICES Walked(w, m, index)
  OBVIOUS
<1> HIDE DEF w
<1>3. old \in Seq({Hole} \cup Page) /\ Len(old) \in Nat
  BY <1>1, SMTT(60) DEF WriteState, Node
<1>4. \A i \in 1..Len(old) : old[i] \in Page <=> old[i] # Hole
  <2>1. Hole \notin Page
    BY WidthIs, SMTT(60) DEF Hole, Page
  <2> QED
    BY <1>3, <2>1, SMTT(60)
<1>5. g.ok => index + 1 \in 1..Len(old)
  BY <1>1, <1>3, SMTT(60)
<1>6. CASE ~g.ok
  BY <1>1, <1>2, <1>6 DEF Walked
<1>7. CASE g.ok /\ old[index + 1] # Hole
  <2>1. index + 1 \in Slots(old) /\ old[index + 1] \in Page
    BY <1>4, <1>5, <1>7 DEF Slots
  <2>2. Slots(old) = Slots(old) \cup {index + 1}
    BY <2>1
  <2> QED
    BY <1>1, <1>2, <1>7, <2>1, <2>2 DEF Walked
<1>8. CASE g.ok /\ old[index + 1] = Hole /\ g.free = 0
  <2>1. w = [g EXCEPT !.ok = FALSE]
    BY <1>2, <1>8
  <2>2. w \in WriteState /\ SameCall(w, g) /\ ~w.ok /\ w.free = g.free /\ w.node.pages = old
    BY <1>1, <2>1 DEF WriteState, SameCall
  <2> QED
    BY <1>1, <2>2 DEF SameCall, Walked
<1>9. CASE g.ok /\ old[index + 1] = Hole /\ g.free # 0
  <2> DEFINE pages == [old EXCEPT ![index + 1] = ZeroPage]
             v == [g EXCEPT !.node.pages = pages]
  <2>1. ZeroPage \in Page
    BY WidthIs DEF ZeroPage, Page
  <2>2. pages \in Seq({Hole} \cup Page) /\ Len(pages) = Len(old) /\ pages[index + 1] = ZeroPage
           /\ \A i \in 1..Len(old) : i # index + 1 => pages[i] = old[i]
    BY <1>3, <1>5, <1>9, <2>1, SMTT(60)
  <2>3. Slots(pages) = Slots(old) \cup {index + 1} /\ index + 1 \notin Slots(old)
    <3>1. ZeroPage # Hole
      BY <2>1, WidthIs, SMTT(60) DEF Hole, Page
    <3> HIDE DEF pages
    <3> QED
      BY <1>3, <1>5, <1>9, <2>2, <3>1 DEF Slots
  <2>4. w = [v EXCEPT !.free = g.free - 1]
    BY <1>1, <1>2, <1>9 DEF WriteState, Node
  <2>5. v \in WriteState /\ SameCall(v, g) /\ v.node.pages = pages /\ v.free = g.free /\ v.ok = g.ok
    <3> HIDE DEF pages
    <3>1. Len(pages) <= MAX_SLOTS
      BY <1>1, <2>2 DEF WriteState
    <3> QED
      BY <1>1, <2>2, <3>1, PagesChange
  <2> HIDE DEF v, pages
  <2>6. w \in WriteState /\ SameCall(w, v) /\ w.node.pages = pages /\ w.free = g.free - 1 /\ w.ok
    <3>1. g.free - 1 \in Nat
      BY <1>1, <1>9, SMTT(60) DEF WriteState
    <3>2. w \in WriteState /\ SameCall(w, v) /\ w.node = v.node /\ w.free = g.free - 1 /\ w.ok = v.ok
      <4> DEFINE f == g.free - 1
      <4> HIDE DEF f
      <4>1. f \in Nat /\ w = [v EXCEPT !.free = f]
        BY <2>4, <3>1 DEF f
      <4> QED
        BY <2>5, <4>1 DEF WriteState, SameCall, f
    <3> QED
      BY <1>9, <2>5, <3>2
  <2>7. SameCall(w, m)
    BY <1>1, <2>5, <2>6 DEF SameCall
  <2> QED
    <3>1. index < Len(pages) /\ pages[index + 1] \in Page
      BY <1>1, <1>9, <2>1, <2>2
    <3>2. w.free = m.free - 1
      BY <1>1, <2>6
    <3>3. Slots(pages) = Slots(m.node.pages) \cup {index + 1} /\ index + 1 \notin Slots(m.node.pages)
      BY <1>1, <2>3
    <3> QED
      BY <2>6, <2>7, <3>1, <3>2, <3>3 DEF Walked
<1> QED
  BY <1>6, <1>7, <1>8, <1>9

-----------------------------------------------------------------------------
\* In the middle of a write at offset, that began with all pages: none is
\* lost, a page beyond the size is there for bytes already written, and those
\* bytes lie within the longest list.
Writing(m, offset, all) ==
  /\ IsFiniteSet(Slots(m.node.pages))
  /\ m.free + Cardinality(Slots(m.node.pages)) = all
  /\ \A i \in Slots(m.node.pages) :
       (i - 1) * PAGE_SIZE < m.node.size \/ (m.done > 0 /\ (i - 1) * PAGE_SIZE < offset + m.done)
  /\ m.done > 0 => offset + m.done <= MAX_SLOTS * PAGE_SIZE

\* A write reaches no further than the longest list, so its offset never wraps.
LEMMA SlotEnds ==
  ASSUME NEW i \in Nat, i < MAX_SLOTS
  PROVE  i * PAGE_SIZE + PAGE_SIZE <= MAX_SLOTS * PAGE_SIZE
BY WidthIs, SMTT(60)

\* A round of the loop.
LEMMA WriteRoundKeeps ==
  ASSUME NEW offset \in Offsets, NEW bytes \in Seq(Nat), NEW all \in Nat,
         NEW m \in WriteState, m.done <= Len(bytes), Writing(m, offset, all)
  PROVE  LET v == WriteRound(m, offset, bytes)
         IN  /\ v \in WriteState /\ v.done <= Len(bytes) /\ Writing(v, offset, all)
             /\ v.total = m.total /\ v.ended = m.ended /\ v.fault = m.fault
<1> DEFINE at == Wrap(offset + m.done)
           c == ramfs_get_chunk_info(at, Len(bytes) - m.done)
           w == ramfs_walk_page(m, c.index)
           v == WriteRound(m, offset, bytes)
<1>1. m.done \in Nat /\ Len(bytes) \in Nat /\ m.ok \in BOOLEAN /\ offset \in Nat
  BY LenIs, SMTT(60) DEF WriteState, Offsets
<1>2. at = offset + m.done /\ at \in Offsets
  <2>1. offset + m.done \in Offsets
    <3>1. CASE m.done = 0
      BY <1>1, <3>1, SMTT(60)
    <3>2. CASE m.done > 0
      BY <1>1, <3>2, WidthIs, SMTT(60) DEF Writing, Offsets
    <3> QED
      BY <1>1, <3>1, <3>2, SMTT(60)
  <2> QED
    BY <1>1, <2>1, WrapIs, SMTT(60)
<1>3. /\ c.index \in Nat /\ c.at \in 0..(PAGE_SIZE - 1) /\ c.len \in Nat
      /\ at = c.index * PAGE_SIZE + c.at
      /\ c.len <= Len(bytes) - m.done /\ c.at + c.len <= PAGE_SIZE
      /\ Len(bytes) - m.done > 0 => c.len > 0
  <2>1. Len(bytes) - m.done \in Nat
    BY <1>1, SMTT(60)
  <2> HIDE DEF at
  <2> QED
    BY <1>2, <2>1, ChunkIs
<1>4. CASE m.done = Len(bytes) \/ ~m.ok
  BY <1>4 DEF WriteRound
<1>5. CASE ~(m.done = Len(bytes) \/ ~m.ok)
  <2>1. Walked(w, m, c.index)
    <3> HIDE DEF c
    <3> QED
      BY <1>3, <1>5, WalkPageIs
  <2> DEFINE new == [i \in DOMAIN w.node.pages[c.index + 1] |->
                       IF i \in c.at..(c.at + c.len - 1) THEN bytes[m.done + i - c.at + 1]
                       ELSE w.node.pages[c.index + 1][i]]
             pages == [w.node.pages EXCEPT ![c.index + 1] = new]
             u == [w EXCEPT !.node.pages = pages]
  <2>2. v = IF ~w.ok THEN w ELSE [u EXCEPT !.done = w.done + c.len]
    <3>1. w \in WriteState
      BY <2>1 DEF Walked
    <3> HIDE DEF w, c
    <3>2. WriteRound(m, offset, bytes) =
             IF ~w.ok THEN w
             ELSE [w EXCEPT !.done = w.done + c.len, !.node.pages = pages]
      BY <1>5, <3>1 DEF WriteRound, w, c, WriteState, Node
    <3> QED
      BY <3>1, <3>2 DEF WriteState, Node
  <2>3. /\ w \in WriteState /\ SameCall(w, m)
        /\ w.ok => /\ c.index < Len(w.node.pages) /\ w.node.pages[c.index + 1] \in Page
                   /\ Slots(w.node.pages) = Slots(m.node.pages) \cup {c.index + 1}
        /\ \/ w.free = m.free /\ Slots(w.node.pages) = Slots(m.node.pages)
           \/ w.ok /\ w.free = m.free - 1 /\ c.index + 1 \notin Slots(m.node.pages)
    BY <2>1 DEF Walked
  <2> HIDE DEF w, v, at, c
  <2>4. IsFiniteSet(Slots(w.node.pages)) /\ w.free + Cardinality(Slots(w.node.pages)) = all
    <3> DEFINE old == Slots(m.node.pages)
    <3>1. IsFiniteSet(old) /\ m.free + Cardinality(old) = all
      BY DEF Writing
    <3>2. IsFiniteSet(old \cup {c.index + 1}) /\ Cardinality(old) \in Nat
             /\ (c.index + 1 \notin old =>
                   Cardinality(old \cup {c.index + 1}) = Cardinality(old) + 1)
      BY <3>1, FS_AddElement, FS_CardinalityType
    <3>3. m.free \in Nat
      BY DEF WriteState
    <3> HIDE DEF old
    <3>4. CASE w.free = m.free /\ Slots(w.node.pages) = old
      BY <3>1, <3>4
    <3>5. CASE /\ w.ok /\ w.free = m.free - 1 /\ c.index + 1 \notin old
      <4>1. Slots(w.node.pages) = old \cup {c.index + 1}
        BY <2>3, <3>5 DEF old
      <4>2. Cardinality(Slots(w.node.pages)) = Cardinality(old) + 1
        BY <3>2, <3>5, <4>1
      <4>3. \A f, k \in Nat : f - 1 + (k + 1) = f + k
        BY SMTT(60)
      <4>4. m.free - 1 + (Cardinality(old) + 1) = m.free + Cardinality(old)
        BY <3>2, <3>3, <4>3
      <4> QED
        BY <3>1, <3>2, <3>5, <4>1, <4>2, <4>4
    <3> QED
      BY <2>3, <3>4, <3>5 DEF old
  <2>5. CASE ~w.ok
    <3>1. v = w /\ Slots(w.node.pages) = Slots(m.node.pages)
      BY <2>2, <2>3, <2>5
    <3>2. Writing(w, offset, all)
      BY <2>3, <2>4, <3>1 DEF Writing, SameCall
    <3> QED
      BY <2>3, <3>1, <3>2 DEF SameCall, v
  <2>6. CASE w.ok
    <3>1. c.index + 1 \in 1..Len(w.node.pages) /\ w.node.pages \in Seq({Hole} \cup Page)
             /\ Len(w.node.pages) \in Nat /\ Len(w.node.pages) <= MAX_SLOTS
      <4>1. w.node.pages \in Seq({Hole} \cup Page) /\ Len(w.node.pages) <= MAX_SLOTS
        BY <2>3 DEF WriteState, Node
      <4>2. Len(w.node.pages) \in Nat
        BY <4>1, LenIs
      <4>3. \A i, k \in Nat : i < k => i + 1 \in 1..k
        BY SMTT(60)
      <4> QED
        BY <1>3, <2>3, <2>6, <4>1, <4>2, <4>3
    <3>2. new \in Page
      <4>1. DOMAIN w.node.pages[c.index + 1] = 0..(PAGE_SIZE - 1)
               /\ \A i \in 0..(PAGE_SIZE - 1) : w.node.pages[c.index + 1][i] \in Nat
        BY <2>3, <2>6 DEF Page
      <4>2. \A i \in c.at..(c.at + c.len - 1) : m.done + i - c.at + 1 \in 1..Len(bytes)
        <5>1. \A a, l, n, e \in Nat, i \in Int :
                 l <= e - n /\ i \in a..(a + l - 1) => n + i - a + 1 \in 1..e
          BY SMTT(60)
        <5>2. c.at \in Nat /\ \A i \in c.at..(c.at + c.len - 1) : i \in Int
          BY <1>3, WidthIs, SMTT(60)
        <5> QED
          BY <1>1, <1>3, <5>1, <5>2
      <4>3. \A i \in c.at..(c.at + c.len - 1) : bytes[m.done + i - c.at + 1] \in Nat
        BY <4>2, LenIs
      <4> QED
        BY <4>1, <4>3 DEF Page
    <3> HIDE DEF new
    <3>3. pages \in Seq({Hole} \cup Page) /\ Len(pages) = Len(w.node.pages) /\ pages[c.index + 1] = new
             /\ \A i \in 1..Len(pages) : i # c.index + 1 => pages[i] = w.node.pages[i]
      BY <3>1, <3>2, SMTT(60)
    <3> HIDE DEF pages
    <3>4. Slots(pages) = Slots(w.node.pages)
      <4>1. Hole \notin Page
        BY WidthIs, SMTT(60) DEF Hole, Page
      <4> QED
        BY <2>3, <2>6, <3>1, <3>2, <3>3, <4>1 DEF Slots
    <3>5. u \in WriteState /\ SameCall(u, w) /\ u.node.pages = pages /\ u.free = w.free
      BY <2>3, <3>1, <3>3, PagesChange
    <3> HIDE DEF u
    <3>6. w.done + c.len \in Nat /\ w.done = m.done
      BY <1>1, <1>3, <2>3, SMTT(60) DEF SameCall
    <3> DEFINE d == w.done + c.len
    <3> HIDE DEF d
    <3>7. /\ v \in WriteState /\ v.done = d /\ v.node = u.node /\ v.free = u.free
          /\ v.total = u.total /\ v.ended = u.ended /\ v.fault = u.fault
      <4>1. v = [u EXCEPT !.done = d] /\ d \in Nat
        BY <2>2, <2>6, <3>6 DEF d
      <4> QED
        BY <3>5, <4>1 DEF WriteState
    <3>8. d = m.done + c.len /\ d > m.done /\ d <= Len(bytes) /\ d > 0
      <4>1. \A n, l, e \in Nat : n <= e /\ n # e /\ l <= e - n /\ (e - n > 0 => l > 0)
               => n + l > n /\ n + l <= e /\ n + l > 0
        BY SMTT(60)
      <4> QED
        BY <1>1, <1>3, <1>5, <3>6, <4>1 DEF d
    <3>9. offset + d <= MAX_SLOTS * PAGE_SIZE /\ c.index * PAGE_SIZE < offset + d
      <4>1. c.index * PAGE_SIZE + PAGE_SIZE <= MAX_SLOTS * PAGE_SIZE
        <5>1. \A i, k \in Nat : i + 1 \in 1..k /\ k <= MAX_SLOTS => i < MAX_SLOTS
          BY WidthIs, SMTT(60)
        <5> QED
          BY <1>3, <3>1, <5>1, SlotEnds
      <4>2. \A o, n, l, s, a, e, z \in Nat :
               o + n = s + a /\ s + z <= e /\ a + l <= z /\ l > 0 =>
                 o + (n + l) <= e /\ s < o + (n + l)
        BY SMTT(60)
      <4>3. c.index * PAGE_SIZE \in Nat /\ MAX_SLOTS * PAGE_SIZE \in Nat /\ c.at \in Nat
               /\ PAGE_SIZE \in Nat
        BY <1>3, WidthIs, SMTT(60)
      <4>4. c.len > 0
        <5>1. \A n, e \in Nat : n <= e /\ n # e => e - n > 0
          BY SMTT(60)
        <5> QED
          BY <1>1, <1>3, <1>5, <5>1
      <4> QED
        BY <1>1, <1>2, <1>3, <3>8, <4>1, <4>2, <4>3, <4>4
    <3>10. ASSUME NEW i \in Slots(w.node.pages)
           PROVE  (i - 1) * PAGE_SIZE < m.node.size \/ (i - 1) * PAGE_SIZE < offset + d
      <4>1. CASE i \in Slots(m.node.pages)
        <5> DEFINE p == (i - 1) * PAGE_SIZE
        <5>1. p < m.node.size \/ (m.done > 0 /\ p < offset + m.done)
          BY <4>1 DEF Writing
        <5>2. p \in Int
          BY <3>1, WidthIs, SMTT(60) DEF Slots
        <5> HIDE DEF p
        <5>3. p < m.node.size \/ p < offset + d
          BY <1>1, <3>6, <3>8, <5>1, <5>2, SMTT(60) DEF d
        <5> QED
          BY <5>3 DEF p
      <4>2. CASE i = c.index + 1
        <5>1. i - 1 = c.index
          BY <1>3, <4>2, SMTT(60)
        <5> QED
          BY <3>9, <5>1
      <4> QED
        BY <2>3, <2>6, <4>1, <4>2
    <3>11. Writing(v, offset, all)
      <4>1. v.node.pages = pages /\ v.free = w.free /\ v.node.size = m.node.size
        BY <2>3, <3>5, <3>7 DEF SameCall
      <4> QED
        BY <2>4, <3>4, <3>7, <3>8, <3>9, <3>10, <4>1 DEF Writing
    <3> QED
      BY <2>3, <3>5, <3>7, <3>8, <3>11 DEF SameCall, v
  <2> QED
    BY <2>3, <2>5, <2>6 DEF WriteState
<1> QED
  BY <1>4, <1>5

\* The loop of ramfs_ops_write ends in S when its rounds stay there.
LEMMA WriteLoopRuns ==
  ASSUME NEW S, NEW m \in S, NEW offset, NEW bytes, Len(bytes) \in Nat,
         \A x \in S : WriteRound(x, offset, bytes) \in S
  PROVE  WriteLoop(m, offset, bytes) \in S
<1> DEFINE n == Len(bytes)
           after == CHOOSE f : f = [k \in 0..n |-> IF k = 0 THEN m ELSE WriteRound(f[k - 1], offset, bytes)]
           g == [i \in 1..n |-> [x \in S |-> WriteRound(x, offset, bytes)]]
<1>1. n \in Nat /\ g \in [1..n -> [S -> S]]
  OBVIOUS
<1>2. PICK h : RunsIn(h, S, m, n, g)
  <2> HIDE DEF g, n
  <2> QED
    BY <1>1, LoopRuns
<1>3. \A k \in 0..n : k # 0 => k \in 1..n /\ k - 1 \in 0..n
  BY SMTT(60)
<1> HIDE DEF n
<1>4. h = [k \in 0..n |-> IF k = 0 THEN m ELSE WriteRound(h[k - 1], offset, bytes)]
  BY <1>2, <1>3 DEF RunsIn
<1>5. after = [k \in 0..n |-> IF k = 0 THEN m ELSE WriteRound(after[k - 1], offset, bytes)]
  BY <1>4
<1>6. WriteLoop(m, offset, bytes) = after[n]
  BY DEF WriteLoop, n
<1> HIDE DEF after
<1> DEFINE T == {k \in 0..n : after[k] \in S}
<1>7. 0 \in T
  BY <1>1, <1>5, SMTT(60)
<1>8. ASSUME NEW k \in 1..n, k - 1 \in T
      PROVE  k \in T
  <2>1. k \in 0..n /\ k # 0
    BY <1>1, SMTT(60)
  <2> QED
    BY <1>5, <1>8, <2>1
<1>9. n \in T
  <2> HIDE DEF T
  <2>1. n \in 0..n
    BY <1>1, SMTT(60)
  <2> QED
    BY <1>1, <1>7, <1>8, <2>1, InductionUpTo
<1> QED
  BY <1>6, <1>9

\* What holds before the loop and is kept by a round holds after it.
LEMMA WriteLoopKeeps ==
  ASSUME NEW offset \in Offsets, NEW bytes \in Seq(Nat), NEW all \in Nat,
         NEW m \in WriteState, m.done <= Len(bytes), Writing(m, offset, all)
  PROVE  LET v == WriteLoop(m, offset, bytes)
         IN  /\ v \in WriteState /\ v.done <= Len(bytes) /\ Writing(v, offset, all)
             /\ v.total = m.total /\ v.ended = m.ended /\ v.fault = m.fault
<1> DEFINE S == {x \in WriteState : /\ x.done <= Len(bytes) /\ Writing(x, offset, all)
                                    /\ x.total = m.total /\ x.ended = m.ended /\ x.fault = m.fault}
<1>1. Len(bytes) \in Nat /\ m \in S
  BY LenIs
<1>2. \A x \in S : WriteRound(x, offset, bytes) \in S
  <2> SUFFICES ASSUME NEW x \in S
               PROVE  WriteRound(x, offset, bytes) \in S
    OBVIOUS
  <2> QED
    BY WriteRoundKeeps
<1>3. WriteLoop(m, offset, bytes) \in S
  <2> HIDE DEF S
  <2> QED
    BY <1>1, <1>2, WriteLoopRuns
<1> QED
  BY <1>3

\* Between two writes: no page is lost, and every page is there for bytes
\* below the size.
Settled(m, all) ==
  /\ IsFiniteSet(Slots(m.node.pages))
  /\ m.free + Cardinality(Slots(m.node.pages)) = all
  /\ \A i \in Slots(m.node.pages) : (i - 1) * PAGE_SIZE < m.node.size

\* ramfs_ops_write, however short it falls.
LEMMA OpsWriteKeeps ==
  ASSUME NEW offset \in Offsets, NEW bytes \in Seq(Nat), NEW all \in Nat,
         NEW m \in WriteState, Settled(m, all)
  PROVE  LET v == ramfs_ops_write(m, offset, bytes)
         IN  /\ v \in WriteState /\ v.done <= Len(bytes) /\ Settled(v, all)
             /\ v.total = m.total /\ v.ended = m.ended /\ v.fault = m.fault
<1> DEFINE a == [m EXCEPT !.ok = TRUE, !.done = 0]
           w == WriteLoop(a, offset, bytes)
           end == Wrap(offset + w.done)
           size == IF w.done > 0 /\ end > w.node.size THEN end ELSE w.node.size
           v == ramfs_ops_write(m, offset, bytes)
<1>1. /\ a \in WriteState /\ a.done = 0 /\ a.node = m.node /\ a.free = m.free
      /\ a.total = m.total /\ a.ended = m.ended /\ a.fault = m.fault
  BY DEF WriteState
<1>2. Len(bytes) \in Nat /\ offset \in Nat
  BY LenIs, SMTT(60) DEF Offsets
<1>3. Writing(a, offset, all) /\ a.done <= Len(bytes)
  BY <1>1, <1>2, SMTT(60) DEF Writing, Settled
<1> HIDE DEF a
<1>4. /\ w \in WriteState /\ w.done <= Len(bytes) /\ Writing(w, offset, all)
      /\ w.total = m.total /\ w.ended = m.ended /\ w.fault = m.fault
  BY <1>1, <1>3, WriteLoopKeeps
<1> HIDE DEF w
<1>5. w.done \in Nat /\ w.node.size \in Offsets /\ w.node.size \in Nat /\ w.node \in Node
  BY <1>4, SMTT(60) DEF WriteState, Node, Offsets
<1>6. end \in Offsets /\ (w.done > 0 => end = offset + w.done)
  <2>1. w.done > 0 => offset + w.done <= MAX_SLOTS * PAGE_SIZE
    BY <1>4 DEF Writing
  <2> DEFINE most == MAX_SLOTS * PAGE_SIZE
             M == 2^W
  <2>2. most \in Nat /\ M \in Nat /\ most < M
    BY WidthIs, SMTT(60)
  <2> HIDE DEF most, M
  <2>3. w.done > 0 => offset + w.done \in 0..(M - 1)
    BY <1>2, <1>5, <2>1, <2>2, SMTT(60) DEF most
  <2>4. offset + w.done \in Int
    BY <1>2, <1>5, SMTT(60)
  <2> QED
    BY <2>3, <2>4, WrapIs DEF Offsets, M
<1>7. size \in Offsets /\ size >= w.node.size /\ (w.done > 0 => size >= offset + w.done)
         /\ size \in Nat
  BY <1>2, <1>5, <1>6, SMTT(60) DEF Offsets
<1> HIDE DEF end
<1>8. v = [w EXCEPT !.node.size = size]
  BY DEF ramfs_ops_write, w, a, end
<1> HIDE DEF v, size
<1>9. v.node = [w.node EXCEPT !.size = size]
  BY <1>4, <1>8 DEF WriteState
<1>10. v.node \in Node /\ v.node.pages = w.node.pages /\ v.node.size = size
  BY <1>5, <1>7, <1>9 DEF Node
<1>11. /\ v \in WriteState /\ v.done = w.done /\ v.free = w.free
       /\ v.total = w.total /\ v.ended = w.ended /\ v.fault = w.fault
  BY <1>4, <1>8, <1>10 DEF WriteState
<1>12. ASSUME NEW i \in Slots(w.node.pages)
       PROVE  (i - 1) * PAGE_SIZE < size
  <2> DEFINE p == (i - 1) * PAGE_SIZE
  <2>1. p < w.node.size \/ (w.done > 0 /\ p < offset + w.done)
    BY <1>4 DEF Writing
  <2>2. p \in Int
    <3>1. i \in Int
      BY SMTT(60) DEF Slots
    <3> QED
      BY <3>1, WidthIs, SMTT(60)
  <2> HIDE DEF p
  <2>3. p < size
    BY <1>2, <1>5, <1>7, <2>1, <2>2, SMTT(60)
  <2> QED
    BY <2>3 DEF p
<1>13. Settled(v, all)
  BY <1>4, <1>10, <1>11, <1>12 DEF Settled, Writing
<1> QED
  BY <1>4, <1>11, <1>13 DEF v

\* A round of sys_write: a chunk, or the end of the loop.
LEMMA WriteChunkKeeps ==
  ASSUME NEW offset \in Offsets, NEW count \in 0..Len(Buffer), NEW buf, NEW all \in Nat,
         NEW m \in WriteState, m.total <= count, Settled(m, all)
  PROVE  LET v == WriteChunk(m, offset, count, buf)
         IN  v \in WriteState /\ v.total <= count /\ Settled(v, all)
<1> DEFINE len == Least(count - m.total, COPY_BUFFER_SIZE)
           bytes == SubSeq(Buffer, m.total + 1, m.total + len)
           w == ramfs_ops_write(m, Wrap(offset + m.total), bytes)
           v == WriteChunk(m, offset, count, buf)
<1>1. Len(Buffer) \in Nat /\ count \in Nat /\ count <= Len(Buffer) /\ m.total \in Nat /\ offset \in Nat
  BY FilesAssumption, LenIs, SMTT(60) DEF WriteState, Offsets
<1>2. len \in Nat /\ len <= count - m.total
  BY <1>1, FilesAssumption, SMTT(60) DEF Least
<1> HIDE DEF len
<1>3. bytes \in Seq(Nat) /\ Len(bytes) = len
  <2>1. \A i \in (m.total + 1)..(m.total + len) : i \in 1..Len(Buffer)
    BY <1>1, <1>2, SMTT(60)
  <2>2. \A i \in (m.total + 1)..(m.total + len) : Buffer[i] \in Nat
    BY <2>1, FilesAssumption, LenIs
  <2>3. m.total + 1 \in Int /\ m.total + len \in Int
    BY <1>1, <1>2, SMTT(60)
  <2> DEFINE lo == m.total + 1
             hi == m.total + len
  <2>4. lo \in Int /\ hi \in Int /\ \A i \in lo..hi : Buffer[i] \in Nat
    BY <2>2, <2>3
  <2>5. bytes = SubSeq(Buffer, lo, hi)
    OBVIOUS
  <2>6. (IF lo <= hi THEN hi - lo + 1 ELSE 0) = len
    BY <1>1, <1>2, SMTT(60)
  <2> HIDE DEF lo, hi, bytes
  <2> DEFINE N == Nat
  <2>7. \A i \in lo..hi : Buffer[i] \in N
    BY <2>4
  <2> HIDE DEF N
  <2>8. bytes \in Seq(N) /\ Len(bytes) = IF lo <= hi THEN hi - lo + 1 ELSE 0
    BY <2>4, <2>5, <2>7, SubSeqIs, SMTT(60)
  <2> QED
    BY <2>6, <2>8 DEF N
<1> HIDE DEF bytes
<1>4. Wrap(offset + m.total) \in Offsets
  BY <1>1, WrapIs, SMTT(60)
<1>5. /\ w \in WriteState /\ w.done <= Len(bytes) /\ Settled(w, all) /\ w.total = m.total
      /\ w.ended = m.ended /\ w.fault = m.fault
  BY <1>3, <1>4, OpsWriteKeeps
<1> HIDE DEF w
<1>6. v = IF m.total = count \/ m.ended THEN m
          ELSE IF ~copy_user(Wrap(buf + m.total), len)
          THEN [m EXCEPT !.fault = (m.total = 0), !.ended = TRUE]
          ELSE [w EXCEPT !.total = w.total + w.done, !.ended = (w.done = 0)]
  BY <1>5 DEF WriteChunk, w, len, bytes, WriteState
<1> HIDE DEF v
<1>7. CASE v = m
  BY <1>7 DEF v
<1>8. CASE v = [m EXCEPT !.fault = (m.total = 0), !.ended = TRUE]
  <2>1. v \in WriteState /\ v.total = m.total /\ v.node = m.node /\ v.free = m.free
    BY <1>8 DEF WriteState
  <2> QED
    BY <2>1 DEF Settled, v
<1>9. CASE v = [w EXCEPT !.total = w.total + w.done, !.ended = (w.done = 0)]
  <2> DEFINE t == w.total + w.done
  <2>1. t \in Nat /\ t <= count
    BY <1>1, <1>2, <1>3, <1>5, SMTT(60) DEF WriteState
  <2> HIDE DEF t
  <2>2. v = [w EXCEPT !.total = t, !.ended = (w.done = 0)]
    BY <1>9 DEF t
  <2>3. v \in WriteState /\ v.total = t /\ v.node = w.node /\ v.free = w.free
    BY <1>5, <2>1, <2>2 DEF WriteState
  <2> QED
    BY <1>5, <2>1, <2>3 DEF Settled, v
<1> QED
  BY <1>6, <1>7, <1>8, <1>9

\* The loop of sys_write ends in S when its rounds stay there.
LEMMA WriteChunksRuns ==
  ASSUME NEW S, NEW m \in S, NEW offset, NEW count \in Nat, NEW buf,
         \A x \in S : WriteChunk(x, offset, count, buf) \in S
  PROVE  WriteChunks(m, offset, count, buf) \in S
<1> DEFINE after == CHOOSE f : f = [k \in 0..count |->
                      IF k = 0 THEN m ELSE WriteChunk(f[k - 1], offset, count, buf)]
           g == [i \in 1..count |-> [x \in S |-> WriteChunk(x, offset, count, buf)]]
<1>1. g \in [1..count -> [S -> S]]
  OBVIOUS
<1>2. PICK h : RunsIn(h, S, m, count, g)
  <2> HIDE DEF g
  <2> QED
    BY <1>1, LoopRuns
<1>3. \A k \in 0..count : k # 0 => k \in 1..count /\ k - 1 \in 0..count
  BY SMTT(60)
<1>4. h = [k \in 0..count |-> IF k = 0 THEN m ELSE WriteChunk(h[k - 1], offset, count, buf)]
  BY <1>2, <1>3 DEF RunsIn
<1>5. after = [k \in 0..count |->
                 IF k = 0 THEN m ELSE WriteChunk(after[k - 1], offset, count, buf)]
  BY <1>4
<1>6. WriteChunks(m, offset, count, buf) = after[count]
  BY DEF WriteChunks
<1> HIDE DEF after
<1> DEFINE T == {k \in 0..count : after[k] \in S}
<1>7. 0 \in T
  BY <1>5, SMTT(60)
<1>8. ASSUME NEW k \in 1..count, k - 1 \in T
      PROVE  k \in T
  <2>1. k \in 0..count /\ k # 0
    BY SMTT(60)
  <2> QED
    BY <1>5, <1>8, <2>1
<1>9. count \in T
  <2> HIDE DEF T
  <2>1. count \in 0..count
    BY SMTT(60)
  <2> QED
    BY <1>7, <1>8, <2>1, InductionUpTo
<1> QED
  BY <1>6, <1>9

\* A whole sys_write to a file neither loses a page nor leaves one for bytes
\* the file does not have, wherever it stops.
LEMMA WriteChunksKeep ==
  ASSUME NEW offset \in Offsets, NEW count \in 0..Len(Buffer), NEW buf, NEW all \in Nat,
         NEW m \in WriteState, m.total <= count, Settled(m, all)
  PROVE  LET v == WriteChunks(m, offset, count, buf)
         IN  v \in WriteState /\ v.total <= count /\ Settled(v, all)
<1> DEFINE S == {x \in WriteState : x.total <= count /\ Settled(x, all)}
<1>1. count \in Nat /\ m \in S
  BY FilesAssumption, LenIs, SMTT(60)
<1>2. \A x \in S : WriteChunk(x, offset, count, buf) \in S
  <2> SUFFICES ASSUME NEW x \in S
               PROVE  WriteChunk(x, offset, count, buf) \in S
    OBVIOUS
  <2> QED
    BY WriteChunkKeeps
<1>3. WriteChunks(m, offset, count, buf) \in S
  <2> HIDE DEF S
  <2> QED
    BY <1>1, <1>2, WriteChunksRuns
<1> QED
  BY <1>3

-----------------------------------------------------------------------------
\* A round of ramfs_ops_read adds bytes, no more than asked for.
LEMMA ReadRoundTyped ==
  ASSUME NEW node \in Node, NEW offset \in Offsets, NEW size \in Nat,
         NEW r \in Seq(Nat), Len(r) <= size
  PROVE  LET v == ReadRound(node, offset, size, r) IN v \in Seq(Nat) /\ Len(v) <= size
<1> DEFINE c == ramfs_get_chunk_info(Wrap(offset + Len(r)), size - Len(r))
           page == PageAt(node, c.index)
           more == [i \in 1..c.len |-> IF page = Hole THEN 0 ELSE page[c.at + i - 1]]
<1>1. Len(r) \in Nat /\ offset \in Nat
  BY LenIs, SMTT(60) DEF Offsets
<1>2. /\ c.index \in Nat /\ c.at \in 0..(PAGE_SIZE - 1) /\ c.len \in Nat
      /\ c.len <= size - Len(r) /\ c.at + c.len <= PAGE_SIZE
  <2>1. Wrap(offset + Len(r)) \in Offsets /\ size - Len(r) \in Nat
    BY <1>1, WrapIs, SMTT(60)
  <2> QED
    BY <2>1, ChunkIs
<1> HIDE DEF c
<1>3. page = Hole \/ page \in Page
  <2>1. node.pages \in Seq({Hole} \cup Page) /\ Len(node.pages) \in Nat
    BY LenIs DEF Node
  <2>2. \A k \in Nat : c.index < k => c.index + 1 \in 1..k
    BY <1>2, SMTT(60)
  <2> QED
    BY <2>1, <2>2, LenIs, SMTT(60) DEF PageAt
<1> HIDE DEF page
<1>4. \A i \in 1..c.len : (IF page = Hole THEN 0 ELSE page[c.at + i - 1]) \in Nat
  <2>1. \A i \in 1..c.len : c.at + i - 1 \in 0..(PAGE_SIZE - 1)
    <3>1. \A a, l, z \in Nat, i \in Int :
             a + l <= z /\ i \in 1..l => a + i - 1 \in 0..(z - 1)
      BY SMTT(60)
    <3>2. c.at \in Nat /\ PAGE_SIZE \in Nat /\ \A i \in 1..c.len : i \in Int
      BY <1>2, WidthIs, SMTT(60)
    <3> QED
      BY <1>2, <3>1, <3>2
  <2> QED
    BY <1>3, <2>1 DEF Page
<1>5. more \in Seq(Nat) /\ Len(more) = c.len
  <2> DEFINE n == c.len
  <2>1. more \in [1..n -> Nat] /\ n \in Nat
    BY <1>2, <1>4
  <2> HIDE DEF more, n
  <2>2. more \in Seq(Nat) /\ Len(more) = n
    BY <2>1, SMTT(60)
  <2> QED
    BY <2>2 DEF n
<1> HIDE DEF more
<1>6. r \o more \in Seq(Nat) /\ Len(r \o more) = Len(r) + c.len
  <2> DEFINE N == Nat
  <2>1. r \in Seq(N) /\ more \in Seq(N)
    BY <1>5
  <2> HIDE DEF N
  <2>2. r \o more \in Seq(N) /\ Len(r \o more) = Len(r) + Len(more)
    BY <2>1, ConcatIs
  <2> QED
    BY <1>5, <2>2 DEF N
<1>7. ReadRound(node, offset, size, r) = IF Len(r) = size THEN r ELSE r \o more
  BY DEF ReadRound, c, page, more
<1> QED
  BY <1>1, <1>2, <1>6, <1>7, SMTT(60)

\* The loop of ramfs_ops_read ends in S when its rounds stay there.
LEMMA ReadLoopRuns ==
  ASSUME NEW S, <<>> \in S, NEW node, NEW offset, NEW size \in Nat,
         \A x \in S : ReadRound(node, offset, size, x) \in S
  PROVE  ReadLoop(node, offset, size) \in S
<1> DEFINE after == CHOOSE f : f = [k \in 0..size |->
                      IF k = 0 THEN <<>> ELSE ReadRound(node, offset, size, f[k - 1])]
           g == [i \in 1..size |-> [x \in S |-> ReadRound(node, offset, size, x)]]
<1>1. g \in [1..size -> [S -> S]]
  OBVIOUS
<1>2. PICK h : RunsIn(h, S, <<>>, size, g)
  <2> HIDE DEF g
  <2> QED
    BY <1>1, LoopRuns
<1>3. \A k \in 0..size : k # 0 => k \in 1..size /\ k - 1 \in 0..size
  BY SMTT(60)
<1>4. h = [k \in 0..size |-> IF k = 0 THEN <<>> ELSE ReadRound(node, offset, size, h[k - 1])]
  BY <1>2, <1>3 DEF RunsIn
<1>5. after = [k \in 0..size |->
                 IF k = 0 THEN <<>> ELSE ReadRound(node, offset, size, after[k - 1])]
  BY <1>4
<1>6. ReadLoop(node, offset, size) = after[size]
  BY DEF ReadLoop
<1> HIDE DEF after
<1> DEFINE T == {k \in 0..size : after[k] \in S}
<1>7. 0 \in T
  BY <1>5, SMTT(60)
<1>8. ASSUME NEW k \in 1..size, k - 1 \in T
      PROVE  k \in T
  <2>1. k \in 0..size /\ k # 0
    BY SMTT(60)
  <2> QED
    BY <1>5, <1>8, <2>1
<1>9. size \in T
  <2> HIDE DEF T
  <2>1. size \in 0..size
    BY SMTT(60)
  <2> QED
    BY <1>7, <1>8, <2>1, InductionUpTo
<1> QED
  BY <1>6, <1>9

\* ramfs_ops_read hands out bytes, no more than asked for.
LEMMA OpsReadTyped ==
  ASSUME NEW node \in Node, NEW offset \in Offsets, NEW size \in Nat
  PROVE  LET v == ramfs_ops_read(node, offset, size) IN v \in Seq(Nat) /\ Len(v) <= size
<1> DEFINE n == Least(size, node.size - offset)
           S == {x \in Seq(Nat) : Len(x) <= n}
<1>1. node.size \in Nat /\ offset \in Nat
  BY SMTT(60) DEF Node, Offsets
<1>2. CASE offset >= node.size
  BY <1>2, EmptyIs, SMTT(60) DEF ramfs_ops_read
<1>3. CASE ~(offset >= node.size)
  <2>1. n \in Nat /\ n <= size
    BY <1>1, <1>3, SMTT(60) DEF Least
  <2> HIDE DEF n
  <2>2. <<>> \in S
    BY <2>1, SMTT(60)
  <2>3. \A x \in S : ReadRound(node, offset, n, x) \in S
    <3> SUFFICES ASSUME NEW x \in S
                 PROVE  ReadRound(node, offset, n, x) \in S
      OBVIOUS
    <3> QED
      BY <2>1, ReadRoundTyped
  <2>4. ReadLoop(node, offset, n) \in S
    <3> HIDE DEF S
    <3> QED
      BY <2>1, <2>2, <2>3, ReadLoopRuns
  <2>5. ramfs_ops_read(node, offset, size) = ReadLoop(node, offset, n)
    BY <1>3 DEF ramfs_ops_read, n
  <2>6. \A x \in S : x \in Seq(Nat) /\ Len(x) <= size
    BY <2>1, LenIs, SMTT(60)
  <2> HIDE DEF S
  <2> QED
    BY <2>4, <2>5, <2>6
<1> QED
  BY <1>2, <1>3

\* What sys_read threads through its loop.
ReadState == [offset : Offsets, got : Seq(Nat), fault : BOOLEAN]

\* A round of sys_read: a chunk, or the end of the loop.
LEMMA ReadChunkTyped ==
  ASSUME NEW node \in Node, NEW count \in Nat, NEW buf, NEW r \in ReadState, Len(r.got) <= count
  PROVE  LET v == ReadChunk(node, r, count, buf) IN v \in ReadState /\ Len(v.got) <= count
<1> DEFINE total == Len(r.got)
           len == Least(count - total, COPY_BUFFER_SIZE)
           chunk == ramfs_ops_read(node, r.offset, len)
           v == ReadChunk(node, r, count, buf)
<1>1. r.offset \in Offsets /\ r.offset \in Nat /\ r.got \in Seq(Nat) /\ total \in Nat
  BY LenIs, SMTT(60) DEF ReadState, Offsets
<1>2. len \in Nat /\ len <= count - total
  <2>1. \A t \in Nat : t <= count => /\ Least(count - t, COPY_BUFFER_SIZE) \in Nat
                                     /\ Least(count - t, COPY_BUFFER_SIZE) <= count - t
    BY FilesAssumption, SMTT(60) DEF Least
  <2> QED
    BY <1>1, <2>1
<1> HIDE DEF len
<1>3. chunk \in Seq(Nat) /\ Len(chunk) <= len
  BY <1>1, <1>2, OpsReadTyped
<1> HIDE DEF chunk
<1> DEFINE got == r.got \o chunk
           offset == Wrap(r.offset + Len(chunk))
<1>4. Len(chunk) \in Nat
  BY <1>3, LenIs
<1>5. got \in Seq(Nat) /\ Len(got) <= count
  <2> DEFINE N == Nat
  <2>1. r.got \in Seq(N) /\ chunk \in Seq(N)
    BY <1>1, <1>3
  <2> HIDE DEF N
  <2>2. got \in Seq(N) /\ Len(got) = total + Len(chunk)
    BY <2>1, ConcatIs
  <2> QED
    BY <1>1, <1>2, <1>3, <1>4, <2>2, SMTT(60) DEF N
<1>6. offset \in Offsets
  BY <1>1, <1>4, WrapIs, SMTT(60)
<1>7. v = IF total = count \/ chunk = <<>> THEN r
          ELSE IF ~copy_user(Wrap(buf + total), Len(chunk)) THEN [r EXCEPT !.fault = (total = 0)]
          ELSE [r EXCEPT !.got = got, !.offset = offset]
  BY DEF ReadChunk, chunk, len, ReadState
<1> HIDE DEF v, got, offset
<1>8. CASE v = r
  BY <1>8 DEF v
<1>9. CASE v = [r EXCEPT !.fault = (total = 0)]
  <2>1. v \in ReadState /\ v.got = r.got
    BY <1>9 DEF ReadState
  <2> QED
    BY <2>1 DEF v
<1>10. CASE v = [r EXCEPT !.got = got, !.offset = offset]
  <2>1. v \in ReadState /\ v.got = got
    BY <1>5, <1>6, <1>10 DEF ReadState
  <2> QED
    BY <1>5, <2>1 DEF v
<1> QED
  BY <1>7, <1>8, <1>9, <1>10

\* The loop of sys_read ends in S when its rounds stay there.
LEMMA ReadChunksRuns ==
  ASSUME NEW S, NEW node, NEW offset, NEW count \in Nat, NEW buf,
         [offset |-> offset, got |-> <<>>, fault |-> FALSE] \in S,
         \A x \in S : ReadChunk(node, x, count, buf) \in S
  PROVE  ReadChunks(node, offset, count, buf) \in S
<1> DEFINE a == [offset |-> offset, got |-> <<>>, fault |-> FALSE]
           after == CHOOSE f : f = [k \in 0..count |->
                      IF k = 0 THEN a ELSE ReadChunk(node, f[k - 1], count, buf)]
           g == [i \in 1..count |-> [x \in S |-> ReadChunk(node, x, count, buf)]]
<1>1. g \in [1..count -> [S -> S]] /\ a \in S
  OBVIOUS
<1>2. ReadChunks(node, offset, count, buf) = after[count]
  BY DEF ReadChunks
<1> HIDE DEF a
<1>3. PICK h : RunsIn(h, S, a, count, g)
  <2> HIDE DEF g
  <2> QED
    BY <1>1, LoopRuns
<1>4. \A k \in 0..count : k # 0 => k \in 1..count /\ k - 1 \in 0..count
  BY SMTT(60)
<1>5. h = [k \in 0..count |-> IF k = 0 THEN a ELSE ReadChunk(node, h[k - 1], count, buf)]
  BY <1>3, <1>4 DEF RunsIn
<1>6. after = [k \in 0..count |-> IF k = 0 THEN a ELSE ReadChunk(node, after[k - 1], count, buf)]
  BY <1>5
<1> HIDE DEF after
<1> DEFINE T == {k \in 0..count : after[k] \in S}
<1>7. 0 \in T
  BY <1>1, <1>6, SMTT(60)
<1>8. ASSUME NEW k \in 1..count, k - 1 \in T
      PROVE  k \in T
  <2>1. k \in 0..count /\ k # 0
    BY SMTT(60)
  <2> QED
    BY <1>6, <1>8, <2>1
<1>9. count \in T
  <2> HIDE DEF T
  <2>1. count \in 0..count
    BY SMTT(60)
  <2> QED
    BY <1>7, <1>8, <2>1, InductionUpTo
<1> QED
  BY <1>2, <1>9

\* A whole sys_read ends at an offset, with no more bytes than asked for.
LEMMA ReadChunksTyped ==
  ASSUME NEW node \in Node, NEW offset \in Offsets, NEW count \in Nat, NEW buf
  PROVE  LET v == ReadChunks(node, offset, count, buf) IN v \in ReadState /\ Len(v.got) <= count
<1> DEFINE S == {x \in ReadState : Len(x.got) <= count}
           a == [offset |-> offset, got |-> <<>>, fault |-> FALSE]
<1>1. a \in S
  BY SMTT(60) DEF ReadState
<1>2. \A x \in S : ReadChunk(node, x, count, buf) \in S
  <2> SUFFICES ASSUME NEW x \in S
               PROVE  ReadChunk(node, x, count, buf) \in S
    OBVIOUS
  <2> QED
    BY ReadChunkTyped
<1>3. ReadChunks(node, offset, count, buf) \in S
  <2> HIDE DEF S
  <2> QED
    BY <1>1, <1>2, ReadChunksRuns
<1> QED
  BY <1>3

-----------------------------------------------------------------------------
\* A table of struct files, some of them freed.
FileTable == [FileIds -> {Freed} \cup File]

\* Each struct file counts the descriptors that refer to it: refs gives them.
Counted(fs, refs) ==
  \A f \in FileIds : IF fs[f] = Freed THEN refs[f] = {}
                     ELSE fs[f].ref_count = Cardinality(refs[f]) /\ refs[f] # {}

\* Which descriptors refer to a file.
RefsOf(tables) ==
  [f \in FileIds |-> {d \in Tasks \X Fds : tables[d[1]] # NoTask /\ tables[d[1]][d[2]] = f}]

\* A struct file in use is not a freed one.
LEMMA FileNotFreed == Freed \notin File
<1> SUFFICES ASSUME Freed \in File
             PROVE  FALSE
  OBVIOUS
<1>1. DOMAIN Freed = {"node", "offset", "write", "ref_count"}
  BY DEF File
<1>2. "node" \notin DOMAIN Freed
  BY SMTT(60) DEF Freed
<1> QED
  BY <1>1, <1>2

\* There are finitely many descriptors.
LEMMA DescriptorsFinite == IsFiniteSet(Tasks \X Fds)
<1>1. MAX_OPEN_FILES - 1 \in Int /\ IsFiniteSet(Tasks)
  BY FilesAssumption, SMTT(60)
<1>2. IsFiniteSet(Fds)
  BY <1>1, FS_Interval, SMTT(60) DEF Fds
<1> QED
  BY <1>1, <1>2, FS_Product

\* file_unref by the owner of a descriptor that refers to the file.
LEMMA UnrefCounts ==
  ASSUME NEW fs \in FileTable, NEW refs \in [FileIds -> SUBSET (Tasks \X Fds)], Counted(fs, refs),
         NEW f \in FileIds, NEW d \in refs[f]
  PROVE  /\ file_unref(fs, f) \in FileTable
         /\ Counted(file_unref(fs, f), [refs EXCEPT ![f] = @ \ {d}])
<1> DEFINE v == file_unref(fs, f)
           now == [refs EXCEPT ![f] = @ \ {d}]
<1>1. IsFiniteSet(refs[f])
  BY DescriptorsFinite, FS_Subset
<1>2. fs[f] \in File /\ fs[f].ref_count = Cardinality(refs[f]) /\ fs[f].ref_count \in Nat
  BY DEF Counted, FileTable, File
<1>3. IsFiniteSet(refs[f] \ {d}) /\ Cardinality(refs[f] \ {d}) = Cardinality(refs[f]) - 1
  BY <1>1, FS_RemoveElement
<1>4. \A e \in FileIds : now[e] = IF e = f THEN refs[f] \ {d} ELSE refs[e]
  OBVIOUS
<1>5. CASE fs[f].ref_count > 1
  <2> DEFINE c == fs[f].ref_count - 1
             rec == [fs[f] EXCEPT !.ref_count = c]
  <2>1. c \in Nat /\ c # 0 /\ c = Cardinality(refs[f] \ {d})
    BY <1>2, <1>3, <1>5, SMTT(60)
  <2> HIDE DEF c
  <2>2. rec \in File /\ rec.ref_count = c
    BY <1>2, <2>1 DEF File
  <2>3. v = [fs EXCEPT ![f] = rec]
    BY <1>5 DEF file_unref, FileTable, c
  <2>4. refs[f] \ {d} # {}
    BY <2>1, FS_EmptySet
  <2> HIDE DEF rec, v, now
  <2>5. v \in FileTable /\ v[f] = rec /\ \A e \in FileIds : e # f => v[e] = fs[e]
    BY <2>2, <2>3 DEF FileTable
  <2>6. Counted(v, now)
    BY <1>4, <2>1, <2>2, <2>4, <2>5, FileNotFreed DEF Counted
  <2> QED
    BY <2>5, <2>6 DEF v, now
<1>6. CASE ~(fs[f].ref_count > 1)
  <2>1. Cardinality(refs[f] \ {d}) \in Nat
    BY <1>3, FS_CardinalityType
  <2>2. Cardinality(refs[f] \ {d}) = 0
    BY <1>2, <1>3, <1>6, <2>1, SMTT(60)
  <2>3. refs[f] \ {d} = {}
    BY <1>3, <2>2, FS_EmptySet
  <2>4. v = [fs EXCEPT ![f] = Freed]
    BY <1>6 DEF file_unref
  <2> HIDE DEF v, now
  <2>5. v \in FileTable /\ v[f] = Freed /\ \A e \in FileIds : e # f => v[e] = fs[e]
    BY <2>4 DEF FileTable
  <2>6. Counted(v, now)
    BY <1>4, <2>3, <2>5 DEF Counted
  <2> QED
    BY <2>5, <2>6 DEF v, now
<1> QED
  BY <1>5, <1>6

\* file_open_node and the file_refs that follow it: as many descriptors as
\* references are counted.
LEMMA OpenCounts ==
  ASSUME NEW fs \in FileTable, NEW refs \in [FileIds -> SUBSET (Tasks \X Fds)], Counted(fs, refs),
         NEW f \in FileIds, fs[f] = Freed, NEW rec \in File, NEW D,
         rec.ref_count = Cardinality(D), D # {}
  PROVE  /\ [fs EXCEPT ![f] = rec] \in FileTable
         /\ Counted([fs EXCEPT ![f] = rec], [refs EXCEPT ![f] = D])
BY FileNotFreed DEF FileTable, Counted

\* Another position in the file changes no count.
LEMMA SeekCounts ==
  ASSUME NEW fs \in FileTable, NEW refs, Counted(fs, refs),
         NEW f \in FileIds, fs[f] # Freed, NEW offset \in Offsets
  PROVE  /\ [fs EXCEPT ![f].offset = offset] \in FileTable
         /\ Counted([fs EXCEPT ![f].offset = offset], refs)
<1> DEFINE rec == [fs[f] EXCEPT !.offset = offset]
           v == [fs EXCEPT ![f] = rec]
<1>1. fs[f] \in File
  BY DEF FileTable
<1>2. rec \in File /\ rec.ref_count = fs[f].ref_count
  BY <1>1 DEF File
<1>3. [fs EXCEPT ![f].offset = offset] = v
  BY DEF FileTable
<1> HIDE DEF rec
<1>4. v \in FileTable /\ v[f] = rec /\ \A e \in FileIds : e # f => v[e] = fs[e]
  BY <1>2 DEF FileTable
<1> HIDE DEF v
<1>5. Counted(v, refs)
  BY <1>2, <1>4, FileNotFreed DEF Counted
<1> QED
  BY <1>3, <1>4, <1>5

\* The loop of task_destroy over the table ends in the last of the sets its
\* steps lead through.
LEMMA UnrefAllRuns ==
  ASSUME NEW S, NEW n \in Nat, n = MAX_OPEN_FILES, NEW good \in [0..n -> SUBSET S],
         NEW fs \in good[0], NEW table,
         \A k \in 1..n : \A x \in good[k - 1] : UnrefSlot(x, table[k - 1]) \in good[k]
  PROVE  UnrefAll(fs, table) \in good[n]
<1> DEFINE upto == CHOOSE f : f = [k \in 0..n |->
                     IF k = 0 THEN fs ELSE UnrefSlot(f[k - 1], table[k - 1])]
           step(k, x) == UnrefSlot(x, table[k - 1])
           g == [k \in 1..n |-> [x \in S |-> IF x \in good[k - 1] THEN step(k, x) ELSE x]]
<1>1. \A k \in 0..n : k # 0 => k \in 1..n /\ k - 1 \in 0..n
  BY SMTT(60)
<1>2. \A k \in 1..n : k \in 0..n /\ k - 1 \in 0..n /\ k # 0
  BY SMTT(60)
<1>3. \A k \in 0..n : good[k] \subseteq S
  OBVIOUS
<1>4. \A k \in 1..n : \A x \in good[k - 1] : step(k, x) \in good[k]
  OBVIOUS
<1>5. UnrefAll(fs, table) = upto[n]
  BY DEF UnrefAll
<1> HIDE DEF step
<1>6. g \in [1..n -> [S -> S]] /\ fs \in S
  BY <1>2, <1>3, <1>4, SMTT(60)
<1>7. PICK h : RunsIn(h, S, fs, n, g)
  <2> HIDE DEF g
  <2> QED
    BY <1>6, LoopRuns
<1> DEFINE T == {k \in 0..n : h[k] \in good[k]}
<1>8. /\ h \in [0..n -> S] /\ h[0] = fs
      /\ \A k \in 1..n : h[k - 1] \in good[k - 1] => h[k] = step(k, h[k - 1])
  BY <1>2, <1>3, <1>7 DEF RunsIn
<1> HIDE DEF g
<1>9. \A k \in 0..n : k \in T
  <2>1. 0 \in T
    BY <1>8, SMTT(60)
  <2>2. \A k \in 1..n : k - 1 \in T => k \in T
    BY <1>2, <1>4, <1>8, SMTT(60)
  <2> HIDE DEF T
  <2> QED
    BY <2>1, <2>2, InductionUpTo
<1>10. \A k \in 1..n : h[k] = step(k, h[k - 1])
  BY <1>2, <1>8, <1>9
<1>11. h = [k \in 0..n |-> IF k = 0 THEN fs ELSE UnrefSlot(h[k - 1], table[k - 1])]
  BY <1>1, <1>8, <1>10 DEF step
<1>12. upto = [k \in 0..n |-> IF k = 0 THEN fs ELSE UnrefSlot(upto[k - 1], table[k - 1])]
  BY <1>11
<1> HIDE DEF upto
<1> DEFINE U == {k \in 0..n : upto[k] \in good[k]}
<1>13. 0 \in U
  BY <1>12, SMTT(60)
<1>14. \A k \in 1..n : k - 1 \in U => k \in U
  <2>1. \A k \in 1..n : upto[k] = step(k, upto[k - 1])
    BY <1>2, <1>12 DEF step
  <2> QED
    BY <1>2, <1>4, <2>1, SMTT(60)
<1>15. n \in U
  <2> HIDE DEF U
  <2>1. n \in 0..n
    BY SMTT(60)
  <2> QED
    BY <1>13, <1>14, <2>1, InductionUpTo
<1> QED
  BY <1>5, <1>15

\* A task that ends takes its references back, one descriptor after the other.
LEMMA UnrefAllCounts ==
  ASSUME NEW fs \in FileTable, NEW tables \in [Tasks -> {NoTask} \cup [Fds -> FileIds \cup {NULL}]],
         Counted(fs, RefsOf(tables)), NEW t \in Tasks, tables[t] # NoTask
  PROVE  /\ UnrefAll(fs, tables[t]) \in FileTable
         /\ Counted(UnrefAll(fs, tables[t]), RefsOf([tables EXCEPT ![t] = NoTask]))
<1> DEFINE n == MAX_OPEN_FILES
           refs == RefsOf(tables)
           left(k) == [f \in FileIds |-> refs[f] \ ({t} \X (0..(k - 1)))]
           good == [k \in 0..n |-> {x \in FileTable : Counted(x, left(k))}]
           table == tables[t]
<1>1. n \in Nat /\ Fds = 0..(n - 1)
  BY FilesAssumption DEF Fds
<1>2. table \in [Fds -> FileIds \cup {NULL}]
  OBVIOUS
<1>3. \A f \in FileIds : refs[f] = {d \in Tasks \X Fds : tables[d[1]] # NoTask /\ tables[d[1]][d[2]] = f}
  BY DEF RefsOf
<1>4. \A f \in FileIds, e \in Fds : <<t, e>> \in refs[f] <=> table[e] = f
  BY <1>3, SMTT(60)
<1> HIDE DEF n, refs, table
<1>5. left(0) = refs
  <2>1. refs \in [FileIds -> SUBSET (Tasks \X Fds)]
    BY DEF refs, RefsOf
  <2>2. 0..(0 - 1) = {}
    BY SMTT(60)
  <2> QED
    BY <2>1, <2>2
<1>6. fs \in good[0]
  <2>1. Counted(fs, left(0))
    BY <1>5 DEF refs
  <2> HIDE DEF left
  <2> QED
    BY <1>1, <2>1, SMTT(60)
<1>7. good \in [0..n -> SUBSET FileTable]
  OBVIOUS
<1>8. ASSUME NEW k \in 1..n, NEW x \in good[k - 1]
      PROVE  UnrefSlot(x, table[k - 1]) \in good[k]
  <2> DEFINE e == k - 1
             d == <<t, e>>
             f == table[e]
  <2>1. e \in Fds /\ k \in 0..n /\ e \in 0..n /\ 0..(k - 1) = (0..(e - 1)) \cup {e} /\ e \notin 0..(e - 1)
    BY <1>1, SMTT(60)
  <2>2. x \in FileTable /\ Counted(x, left(e))
    BY <2>1
  <2>3. \A h \in FileIds : left(k)[h] = left(e)[h] \ {d}
    <3> HIDE DEF e
    <3>1. left(k) = [h \in FileIds |-> refs[h] \ ({t} \X ((0..(e - 1)) \cup {e}))]
      BY <2>1 DEF e
    <3>2. {t} \X ((0..(e - 1)) \cup {e}) = ({t} \X (0..(e - 1))) \cup {<<t, e>>}
      BY SMTT(60)
    <3> QED
      BY <3>1, <3>2
  <2>4. \A h \in FileIds : d \in left(e)[h] <=> h = f
    <3> HIDE DEF e
    <3> QED
      BY <1>4, <2>1
  <2>5. left(e) \in [FileIds -> SUBSET (Tasks \X Fds)]
    BY <1>3, SMTT(60)
  <2>6. \A y \in FileTable : y \in good[k] <=> Counted(y, left(k))
    BY <2>1
  <2> DEFINE old == left(e)
             new == left(k)
  <2> HIDE DEF left, good, e
  <2>7. CASE f = NULL
    <3>1. UnrefSlot(x, f) = x
      BY <2>7 DEF UnrefSlot
    <3>2. \A h \in FileIds : new[h] = old[h]
      <4>1. NULL \notin FileIds
        BY FilesAssumption
      <4>2. \A h \in FileIds : d \notin old[h]
        BY <2>4, <2>7, <4>1
      <4> HIDE DEF d, f
      <4> QED
        BY <2>3, <4>2
    <3>3. Counted(x, new)
      <4> HIDE DEF old, new
      <4>1. Counted(x, old)
        BY <2>2 DEF old
      <4> QED
        BY <3>2, <4>1 DEF Counted
    <3> QED
      BY <2>2, <2>6, <3>1, <3>3 DEF e
  <2>8. CASE f \in FileIds
    <3>1. UnrefSlot(x, f) = file_unref(x, f)
      BY <2>8, FilesAssumption DEF UnrefSlot
    <3>2. d \in old[f]
      BY <2>4, <2>8
    <3> DEFINE now == [old EXCEPT ![f] = @ \ {d}]
    <3>3. file_unref(x, f) \in FileTable /\ Counted(file_unref(x, f), now)
      <4> HIDE DEF f, d, old
      <4> QED
        BY <2>2, <2>5, <2>8, <3>2, UnrefCounts DEF old
    <3>4. \A h \in FileIds : new[h] = now[h]
      <4>1. \A h \in FileIds : now[h] = IF h = f THEN old[h] \ {d} ELSE old[h]
        BY <2>5
      <4>2. \A h \in FileIds : h # f => old[h] \ {d} = old[h]
        BY <2>4
      <4> QED
        BY <2>3, <4>1, <4>2
    <3>5. Counted(file_unref(x, f), new)
      <4> HIDE DEF now, new
      <4> QED
        BY <3>3, <3>4 DEF Counted
    <3> QED
      BY <2>6, <3>1, <3>3, <3>5 DEF e
  <2> QED
    BY <1>2, <2>1, <2>7, <2>8 DEF e
<1>9. UnrefAll(fs, table) \in good[n]
  <2> HIDE DEF good
  <2> QED
    BY <1>1, <1>6, <1>7, <1>8, UnrefAllRuns DEF n
<1>10. left(n) = RefsOf([tables EXCEPT ![t] = NoTask])
  <2> DEFINE later == [tables EXCEPT ![t] = NoTask]
  <2>1. \A f \in FileIds : left(n)[f] = RefsOf(later)[f]
    <3> SUFFICES ASSUME NEW f \in FileIds
                 PROVE  left(n)[f] = RefsOf(later)[f]
      OBVIOUS
    <3>1. left(n)[f] = refs[f] \ ({t} \X Fds)
      BY <1>1
    <3>2. RefsOf(later)[f] = {d \in Tasks \X Fds : later[d[1]] # NoTask /\ later[d[1]][d[2]] = f}
      BY DEF RefsOf
    <3> QED
      BY <1>3, <3>1, <3>2
  <2> QED
    BY <2>1 DEF RefsOf
<1>11. n \in 0..n
  BY <1>1, SMTT(60)
<1> QED
  BY <1>9, <1>10, <1>11 DEF table

-----------------------------------------------------------------------------
\* The descriptor tables and the struct files.
TableInv ==
  /\ files \in FileTable
  /\ fds \in [Tasks -> {NoTask} \cup [Fds -> FileIds \cup {NULL}]]
  /\ Counted(files, RefsOf(fds))

\* It says what DescriptorsCounted says.
LEMMA CountedIs == TableInv => DescriptorsCounted
<1> SUFFICES ASSUME TableInv, NEW f \in FileIds
             PROVE  LET refs == {d \in Live \X Fds : fds[d[1]][d[2]] = f}
                    IN  IF files[f] = Freed THEN refs = {}
                        ELSE files[f].ref_count = Cardinality(refs) /\ refs # {}
  BY DEF DescriptorsCounted
<1>1. RefsOf(fds)[f] = {d \in Tasks \X Fds : fds[d[1]] # NoTask /\ fds[d[1]][d[2]] = f}
  BY DEF RefsOf
<1>2. RefsOf(fds)[f] = {d \in Live \X Fds : fds[d[1]][d[2]] = f}
  BY <1>1 DEF Live
<1> QED
  BY <1>2 DEF TableInv, Counted

\* A descriptor that is not NULL leads to a struct file in use.
LEMMA LiveFile ==
  ASSUME TableInv, NEW t \in Live, NEW fd \in Fds, fds[t][fd] # NULL
  PROVE  /\ fds[t][fd] \in FileIds /\ files[fds[t][fd]] # Freed /\ files[fds[t][fd]] \in File
         /\ <<t, fd>> \in RefsOf(fds)[fds[t][fd]]
<1>1. t \in Tasks /\ fds[t] # NoTask
  BY DEF Live
<1>2. fds[t] \in [Fds -> FileIds \cup {NULL}]
  BY <1>1 DEF TableInv
<1>3. fds[t][fd] \in FileIds
  BY <1>2
<1> DEFINE f == fds[t][fd]
<1>4. <<t, fd>> \in RefsOf(fds)[f]
  BY <1>1, <1>3 DEF RefsOf
<1>5. files[f] # Freed
  BY <1>3, <1>4 DEF TableInv, Counted
<1> QED
  BY <1>3, <1>4, <1>5 DEF TableInv, FileTable

\* Offset 0, and the console's node.
LEMMA ZeroAndConsole == 0 \in Offsets /\ Console \in Nodes
<1>1. 0 \in Offsets
  BY WidthIs, SMTT(60) DEF Offsets
<1>2. Console \in Nodes
  BY FilesAssumption DEF Console
<1> QED
  BY <1>1, <1>2

\* RefsOf is a function to sets of descriptors.
LEMMA RefsTyped ==
  ASSUME NEW tables
  PROVE  RefsOf(tables) \in [FileIds -> SUBSET (Tasks \X Fds)]
BY DEF RefsOf

\* Three are three.
LEMMA ThreeCount ==
  ASSUME NEW a, NEW b, NEW c, a # b, a # c, b # c
  PROVE  Cardinality({a, b, c}) = 3
<1>1. IsFiniteSet({a}) /\ Cardinality({a}) = 1
  BY FS_Singleton
<1>2. IsFiniteSet({a} \cup {b}) /\ Cardinality({a} \cup {b}) = 1 + 1
  BY <1>1, FS_AddElement
<1>3. {a} \cup {b} = {a, b}
  OBVIOUS
<1>4. Cardinality({a, b} \cup {c}) = Cardinality({a, b}) + 1
  <2>1. c \notin {a, b}
    OBVIOUS
  <2> QED
    BY <1>2, <1>3, <2>1, FS_AddElement
<1>5. {a, b} \cup {c} = {a, b, c}
  OBVIOUS
<1>6. Cardinality({a, b}) = 2
  BY <1>2, <1>3, SMTT(60)
<1> QED
  BY <1>4, <1>5, <1>6, SMTT(60)

\* task_open_std_fds: three descriptors, three references.
LEMMA StartCounts ==
  ASSUME TableInv, NEW t \in Tasks, task_open_std_fds(t)
  PROVE  TableInv'
<1>1. CASE UNCHANGED <<files, fds>>
  BY <1>1 DEF TableInv
<1>2. ASSUME NEW f \in FileIds, files[f] = Freed, fds[t] = NoTask,
             files' = file_ref(file_ref(file_open_node(files, f, Console, TRUE), f), f),
             fds' = [fds EXCEPT ![t] = [fd \in Fds |-> IF fd < 3 THEN f ELSE NULL]]
      PROVE  TableInv'
  <2> DEFINE rec == [node |-> Console, offset |-> 0, write |-> TRUE, ref_count |-> 3]
             D == {<<t, 0>>, <<t, 1>>, <<t, 2>>}
             table == [fd \in Fds |-> IF fd < 3 THEN f ELSE NULL]
  <2>1. files' = [files EXCEPT ![f] = rec]
    BY <1>2, SMTT(60) DEF TableInv, FileTable, file_ref, file_open_node
  <2>2. rec \in File /\ rec.ref_count = 3
    BY ZeroAndConsole DEF File
  <2>3. Cardinality(D) = 3 /\ D # {}
    <3>1. <<t, 0>> # <<t, 1>> /\ <<t, 0>> # <<t, 2>> /\ <<t, 1>> # <<t, 2>>
      BY SMTT(60)
    <3> QED
      BY <3>1, ThreeCount
  <2> HIDE DEF rec, D
  <2>4. files' \in FileTable /\ Counted(files', [RefsOf(fds) EXCEPT ![f] = D])
    <3>1. files \in FileTable /\ Counted(files, RefsOf(fds))
      BY DEF TableInv
    <3> DEFINE refs == RefsOf(fds)
    <3>2. refs \in [FileIds -> SUBSET (Tasks \X Fds)] /\ Counted(files, refs)
      BY <3>1, RefsTyped
    <3>3. rec.ref_count = Cardinality(D)
      BY <2>2, <2>3
    <3> HIDE DEF refs
    <3>4. [files EXCEPT ![f] = rec] \in FileTable
             /\ Counted([files EXCEPT ![f] = rec], [refs EXCEPT ![f] = D])
      BY <1>2, <2>2, <2>3, <3>1, <3>2, <3>3, OpenCounts
    <3> QED
      BY <2>1, <3>4 DEF refs
  <2>5. table \in [Fds -> FileIds \cup {NULL}] /\ table # NoTask
           /\ \A fd \in Fds : table[fd] = f <=> fd \in {0, 1, 2}
    <3>1. 0 \in Fds /\ \A fd \in Fds : fd \in Nat
      BY FilesAssumption, SMTT(60) DEF Fds
    <3>2. f # NULL
      BY FilesAssumption
    <3> QED
      BY <3>1, <3>2, SMTT(60) DEF NoTask
  <2>6. \A fd \in Fds, h \in FileIds : h # f => table[fd] # h
    BY FilesAssumption
  <2> HIDE DEF table
  <2>7. fds' = [fds EXCEPT ![t] = table]
    BY <1>2 DEF table
  <2>8. fds' \in [Tasks -> {NoTask} \cup [Fds -> FileIds \cup {NULL}]]
    BY <2>5, <2>7 DEF TableInv
  <2>9. RefsOf(fds') = [RefsOf(fds) EXCEPT ![f] = D]
    <3>1. 0 \in Fds /\ 1 \in Fds /\ 2 \in Fds
      BY FilesAssumption, SMTT(60) DEF Fds
    <3>2. \A s \in Tasks : fds'[s] = IF s = t THEN table ELSE fds[s]
      BY <2>7 DEF TableInv
    <3>3. RefsOf(fds)[f] = {}
      BY <1>2 DEF TableInv, Counted
    <3>4. \A s \in Tasks, fd \in Fds : fds[s] # NoTask => fds[s][fd] # f
      <4> SUFFICES ASSUME NEW s \in Tasks, NEW fd \in Fds, fds[s] # NoTask, fds[s][fd] = f
                   PROVE  FALSE
        OBVIOUS
      <4>1. <<s, fd>> \in RefsOf(fds)[f]
        BY DEF RefsOf
      <4> QED
        BY <3>3, <4>1
    <3>5. RefsOf(fds')[f] = D
      <4>1. RefsOf(fds')[f] = {d \in Tasks \X Fds : fds'[d[1]] # NoTask /\ fds'[d[1]][d[2]] = f}
        BY DEF RefsOf
      <4> QED
        BY <2>5, <3>1, <3>2, <3>4, <4>1, SMTT(60) DEF D
    <3>6. \A h \in FileIds : h # f => RefsOf(fds')[h] = RefsOf(fds)[h]
      BY <1>2, <2>6, <3>2, SMTT(60) DEF RefsOf
    <3>7. RefsOf(fds) \in [FileIds -> SUBSET (Tasks \X Fds)]
             /\ RefsOf(fds') \in [FileIds -> SUBSET (Tasks \X Fds)]
      BY RefsTyped
    <3> QED
      BY <3>5, <3>6, <3>7
  <2> QED
    BY <2>4, <2>8, <2>9 DEF TableInv
<1> QED
  BY <1>1, <1>2 DEF task_open_std_fds

\* Entry fd of t's table is f in later: only f's descriptors are more.
RefsChanged(later, tables, t, fd, f, h) ==
  RefsOf(later)[h] = IF h = f THEN RefsOf(tables)[h] \cup {<<t, fd>>}
                     ELSE RefsOf(tables)[h] \ {<<t, fd>>}

EntryChanged(later, tables, t, fd, f) ==
  /\ later \in [Tasks -> {NoTask} \cup [Fds -> FileIds \cup {NULL}]]
  /\ \A h \in FileIds : RefsChanged(later, tables, t, fd, f, h)

\* The same of h, entry by entry.
EntryIs(later, tables, t, fd, f, h) ==
  \A s \in Tasks, e \in Fds :
    (later[s] # NoTask /\ later[s][e] = h) <=>
      IF s = t /\ e = fd THEN h = f ELSE tables[s] # NoTask /\ tables[s][e] = h

\* From entries to sets of descriptors.
LEMMA RefsChange ==
  ASSUME NEW tables, NEW later, NEW t \in Tasks, NEW fd \in Fds, NEW f, NEW h \in FileIds,
         EntryIs(later, tables, t, fd, f, h)
  PROVE  RefsChanged(later, tables, t, fd, f, h)
<1>1. RefsOf(later)[h] = {d \in Tasks \X Fds : later[d[1]] # NoTask /\ later[d[1]][d[2]] = h}
  BY DEF RefsOf
<1>2. RefsOf(tables)[h] = {d \in Tasks \X Fds : tables[d[1]] # NoTask /\ tables[d[1]][d[2]] = h}
  BY DEF RefsOf
<1>3. CASE h = f
  BY <1>1, <1>2, <1>3, SMTT(60) DEF EntryIs, RefsChanged
<1>4. CASE h # f
  BY <1>1, <1>2, <1>4, SMTT(60) DEF EntryIs, RefsChanged
<1> QED
  BY <1>3, <1>4

\* Changing an entry does just that.
LEMMA OneEntryChanges ==
  ASSUME NEW tables, tables \in [Tasks -> {NoTask} \cup [Fds -> FileIds \cup {NULL}]],
         NEW t \in Tasks, tables[t] # NoTask, NEW fd \in Fds, NEW f \in FileIds \cup {NULL},
         NEW later, later = [tables EXCEPT ![t][fd] = f]
  PROVE  EntryChanged(later, tables, t, fd, f)
<1> DEFINE table == [tables[t] EXCEPT ![fd] = f]
<1>1. tables[t] \in [Fds -> FileIds \cup {NULL}]
  OBVIOUS
<1>2. table \in [Fds -> FileIds \cup {NULL}] /\ \A e \in Fds : table[e] = IF e = fd THEN f ELSE tables[t][e]
  BY <1>1
<1>3. table # NoTask
  <2>1. fd \in DOMAIN table
    BY <1>2
  <2>2. fd \notin DOMAIN NoTask
    BY SMTT(60) DEF NoTask
  <2> QED
    BY <2>1, <2>2
<1>4. later = [tables EXCEPT ![t] = table]
  OBVIOUS
<1> HIDE DEF table
<1>5. later \in [Tasks -> {NoTask} \cup [Fds -> FileIds \cup {NULL}]]
         /\ \A s \in Tasks : later[s] = IF s = t THEN table ELSE tables[s]
  BY <1>2, <1>4
<1>6. ASSUME NEW h \in FileIds
      PROVE  RefsChanged(later, tables, t, fd, f, h)
  <2>1. EntryIs(later, tables, t, fd, f, h)
    BY <1>2, <1>3, <1>5 DEF EntryIs
  <2> QED
    BY <2>1, RefsChange
<1> QED
  BY <1>5, <1>6 DEF EntryChanged

\* sys_openat: the new descriptor is the only one of the new struct file.
LEMMA OpenatCounts ==
  ASSUME TableInv, NEW t \in Tasks, NEW node \in Nodes \cup {NULL}, NEW write \in BOOLEAN,
         sys_openat(t, node, write)
  PROVE  TableInv'
<1> DEFINE slots == {fd \in Fds : fd >= 3 /\ fds[t][fd] = NULL}
           fd == CHOOSE i \in slots : \A j \in slots : i <= j
<1>1. CASE UNCHANGED <<files, fds>>
  BY <1>1 DEF TableInv
<1>2. ASSUME t \in Live, node # NULL, slots # {}, NEW f \in FileIds, files[f] = Freed,
             files' = file_open_node(files, f, node, write), fds' = [fds EXCEPT ![t][fd] = f]
      PROVE  TableInv'
  <2>1. fd \in slots
    <3>1. slots \in SUBSET Nat
      BY FilesAssumption, SMTT(60) DEF Fds
    <3> HIDE DEF slots
    <3>2. \E i \in slots : \A j \in slots : i <= j
      BY <1>2, <3>1, LeastNat
    <3> QED
      BY <3>2
  <2>2. fd \in Fds /\ fds[t][fd] = NULL
    BY <2>1
  <2>3. fds' = [fds EXCEPT ![t][fd] = f]
    BY <1>2
  <2> HIDE DEF fd, slots
  <2> DEFINE rec == [node |-> node, offset |-> 0, write |-> write, ref_count |-> 1]
             refs == RefsOf(fds)
             D == {<<t, fd>>}
  <2>4. files' = [files EXCEPT ![f] = rec]
    BY <1>2, SMTT(60) DEF TableInv, FileTable, file_ref, file_open_node
  <2>5. rec \in File /\ rec.ref_count = 1
    BY <1>2, ZeroAndConsole DEF File
  <2>6. Cardinality(D) = 1 /\ D # {}
    BY FS_Singleton
  <2>7. files \in FileTable /\ Counted(files, refs) /\ refs \in [FileIds -> SUBSET (Tasks \X Fds)]
    BY RefsTyped DEF TableInv
  <2>8. refs[f] = {}
    BY <1>2, <2>7 DEF Counted
  <2>9. fds' \in [Tasks -> {NoTask} \cup [Fds -> FileIds \cup {NULL}]]
           /\ \A h \in FileIds : RefsOf(fds')[h] = IF h = f THEN refs[h] \cup D ELSE refs[h] \ D
    <3>1. fds[t] # NoTask /\ f \in FileIds \cup {NULL}
      BY <1>2 DEF Live
    <3>2. EntryChanged(fds', fds, t, fd, f)
      BY <2>2, <2>3, <3>1, OneEntryChanges DEF TableInv
    <3> QED
      BY <3>2 DEF EntryChanged, RefsChanged
  <2>10. \A h \in FileIds : refs[h] \ D = refs[h]
    <3>1. \A h \in FileIds : <<t, fd>> \notin refs[h]
      <4> SUFFICES ASSUME NEW h \in FileIds, <<t, fd>> \in refs[h]
                   PROVE  FALSE
        OBVIOUS
      <4>1. fds[t][fd] = h
        BY DEF RefsOf
      <4> QED
        BY <2>2, <4>1, FilesAssumption
    <3> HIDE DEF refs
    <3> QED
      BY <3>1
  <2> HIDE DEF rec, refs, D
  <2>11. [files EXCEPT ![f] = rec] \in FileTable
            /\ Counted([files EXCEPT ![f] = rec], [refs EXCEPT ![f] = D])
    <3>1. rec.ref_count = Cardinality(D)
      BY <2>5, <2>6
    <3> QED
      BY <1>2, <2>5, <2>6, <2>7, <3>1, OpenCounts
  <2>12. \A h \in FileIds : RefsOf(fds')[h] = [refs EXCEPT ![f] = D][h]
    BY <2>7, <2>8, <2>9, <2>10
  <2>13. Counted(files', RefsOf(fds'))
    BY <2>4, <2>11, <2>12 DEF Counted
  <2> QED
    BY <2>4, <2>9, <2>11, <2>13 DEF TableInv
<1> QED
  BY <1>1, <1>2 DEF sys_openat

\* sys_close: one descriptor less, one reference less.
LEMMA CloseCounts ==
  ASSUME TableInv, NEW t \in Tasks, NEW fd \in Fds, sys_close(t, fd)
  PROVE  TableInv'
<1>1. CASE UNCHANGED <<files, fds>>
  BY <1>1 DEF TableInv
<1>2. CASE /\ t \in Live /\ fds[t][fd] # NULL /\ files' = file_unref(files, fds[t][fd])
           /\ fds' = [fds EXCEPT ![t][fd] = NULL]
  <2> DEFINE f == fds[t][fd]
             refs == RefsOf(fds)
             d == <<t, fd>>
             now == [refs EXCEPT ![f] = @ \ {d}]
  <2>1. f \in FileIds /\ d \in refs[f]
    BY <1>2, LiveFile
  <2>2. files \in FileTable /\ Counted(files, refs) /\ refs \in [FileIds -> SUBSET (Tasks \X Fds)]
    BY RefsTyped DEF TableInv
  <2>3. fds' \in [Tasks -> {NoTask} \cup [Fds -> FileIds \cup {NULL}]]
           /\ \A h \in FileIds : RefsOf(fds')[h] = refs[h] \ {d}
    <3>1. fds[t] # NoTask /\ NULL \in FileIds \cup {NULL} /\ fds' = [fds EXCEPT ![t][fd] = NULL]
      BY <1>2 DEF Live
    <3>2. fds' \in [Tasks -> {NoTask} \cup [Fds -> FileIds \cup {NULL}]]
             /\ \A h \in FileIds : RefsOf(fds')[h] = IF h = NULL THEN refs[h] \cup {d} ELSE refs[h] \ {d}
      <4>1. EntryChanged(fds', fds, t, fd, NULL)
        BY <3>1, OneEntryChanges DEF TableInv
      <4> QED
        BY <4>1 DEF EntryChanged, RefsChanged
    <3> QED
      BY <3>2, FilesAssumption
  <2>4. \A h \in FileIds : d \in refs[h] => h = f
    BY DEF RefsOf
  <2> HIDE DEF f, refs, d
  <2>5. file_unref(files, f) \in FileTable /\ Counted(file_unref(files, f), now)
    BY <2>1, <2>2, UnrefCounts
  <2>6. \A h \in FileIds : RefsOf(fds')[h] = now[h]
    <3>1. \A h \in FileIds : now[h] = IF h = f THEN refs[h] \ {d} ELSE refs[h]
      BY <2>2
    <3>2. \A h \in FileIds : h # f => refs[h] \ {d} = refs[h]
      BY <2>4
    <3> QED
      BY <2>3, <3>1, <3>2
  <2> HIDE DEF now
  <2>7. Counted(file_unref(files, f), RefsOf(fds'))
    BY <2>5, <2>6 DEF Counted
  <2>8. files' = file_unref(files, f)
    BY <1>2 DEF f
  <2> QED
    BY <2>3, <2>5, <2>7, <2>8 DEF TableInv
<1> QED
  BY <1>1, <1>2 DEF sys_close

\* task_destroy gives every reference of the task back.
LEMMA DestroyCounts ==
  ASSUME TableInv, NEW t \in Tasks, task_destroy(t)
  PROVE  TableInv'
<1>1. fds[t] # NoTask /\ files' = UnrefAll(files, fds[t]) /\ fds' = [fds EXCEPT ![t] = NoTask]
  BY DEF task_destroy, Live
<1>2. UnrefAll(files, fds[t]) \in FileTable
         /\ Counted(UnrefAll(files, fds[t]), RefsOf([fds EXCEPT ![t] = NoTask]))
  BY <1>1, UnrefAllCounts DEF TableInv
<1>3. fds' \in [Tasks -> {NoTask} \cup [Fds -> FileIds \cup {NULL}]]
  BY <1>1 DEF TableInv
<1> QED
  BY <1>1, <1>2, <1>3 DEF TableInv

\* A call that only moves the position of an open file.
LEMMA MoveCounts ==
  ASSUME TableInv, NEW f \in FileIds, files[f] # Freed, NEW offset \in Offsets,
         files' = [files EXCEPT ![f].offset = offset], fds' = fds
  PROVE  TableInv'
<1> DEFINE refs == RefsOf(fds)
<1>1. files \in FileTable /\ Counted(files, refs)
  BY DEF TableInv
<1> HIDE DEF refs
<1>2. files' \in FileTable /\ Counted(files', refs)
  BY <1>1, SeekCounts
<1> QED
  BY <1>2 DEF TableInv, refs
-----------------------------------------------------------------------------
\* The pages of all files.
PageInv ==
  /\ nodes \in [Nodes -> Node] /\ free \in Nat
  /\ \A n \in Nodes : Len(nodes[n].pages) <= MAX_SLOTS
  /\ PagesAccounted

\* The inductive invariant.
FilesInv == TableInv /\ PageInv /\ program \in DOMAIN Programs

\* The pages of every node but n, and those of n.
Owned(ns) ==
  {p \in Nodes \X (1..MAX_SLOTS) : p[2] <= Len(ns[p[1]].pages) /\ ns[p[1]].pages[p[2]] # Hole}

Others(ns, n) == {p \in Owned(ns) : p[1] # n}

\* They add up.
LEMMA OwnedSplit ==
  ASSUME NEW ns \in [Nodes -> Node], NEW n \in Nodes, Len(ns[n].pages) <= MAX_SLOTS
  PROVE  /\ IsFiniteSet(Slots(ns[n].pages))
         /\ Cardinality(Slots(ns[n].pages)) \in Nat /\ Cardinality(Others(ns, n)) \in Nat
         /\ Cardinality(Owned(ns)) = Cardinality(Others(ns, n)) + Cardinality(Slots(ns[n].pages))
<1> DEFINE slots == Slots(ns[n].pages)
           mine == {n} \X slots
           rest == Others(ns, n)
<1>1. ns[n].pages \in Seq({Hole} \cup Page) /\ Len(ns[n].pages) \in Nat
  BY LenIs DEF Node
<1>2. IsFiniteSet(1..MAX_SLOTS)
  BY FS_Interval, WidthIs, SMTT(60)
<1>3. slots \subseteq 1..MAX_SLOTS
  BY <1>1, WidthIs, SMTT(60) DEF Slots
<1>4. IsFiniteSet(slots) /\ IsFiniteSet(Nodes \X (1..MAX_SLOTS))
  <2>1. IsFiniteSet(Nodes)
    BY FilesAssumption
  <2> QED
    BY <1>2, <1>3, <2>1, FS_Subset, FS_Product
<1>5. Owned(ns) = rest \cup mine
  <2>1. \A i \in 1..MAX_SLOTS : i \in slots <=> i <= Len(ns[n].pages) /\ ns[n].pages[i] # Hole
    BY <1>1, WidthIs, SMTT(60) DEF Slots
  <2>2. \A p \in mine : p \in Owned(ns)
    <3> HIDE DEF slots
    <3> QED
      BY <1>3, <2>1 DEF Owned
  <2>3. \A p \in Owned(ns) : p[1] = n => p \in mine
    <3> HIDE DEF slots
    <3> QED
      BY <2>1 DEF Owned
  <2> HIDE DEF mine
  <2> QED
    BY <2>2, <2>3 DEF Others
<1>6. rest \cap mine = {}
  BY DEF Others
<1>7. IsFiniteSet(rest)
  <2>1. rest \subseteq Nodes \X (1..MAX_SLOTS)
    BY DEF Others, Owned
  <2> QED
    BY <1>4, <2>1, FS_Subset
<1> HIDE DEF slots, rest
<1>8. IsFiniteSet(mine) /\ Cardinality(mine) = Cardinality(slots)
  <2>1. IsFiniteSet({n}) /\ Cardinality({n}) = 1
    BY FS_Singleton
  <2>2. IsFiniteSet(mine) /\ Cardinality(mine) = Cardinality({n}) * Cardinality(slots)
    BY <1>4, <2>1, FS_Product
  <2>3. Cardinality(slots) \in Nat
    BY <1>4, FS_CardinalityType
  <2>4. \A k \in Nat : 1 * k = k
    BY SMTT(60)
  <2> QED
    BY <2>1, <2>2, <2>3, <2>4
<1>9. Cardinality(rest) \in Nat /\ Cardinality(slots) \in Nat
  BY <1>4, <1>7, FS_CardinalityType
<1> HIDE DEF mine
<1>10. Cardinality(rest \cup mine) = Cardinality(rest) + Cardinality(mine) - Cardinality(rest \cap mine)
  BY <1>7, <1>8, FS_Union
<1>11. Cardinality(rest \cap mine) = 0
  BY <1>6, FS_EmptySet
<1>12. \A a, b \in Nat : a + b - 0 = a + b
  BY SMTT(60)
<1>13. Cardinality(Owned(ns)) = Cardinality(rest) + Cardinality(slots)
  BY <1>5, <1>8, <1>9, <1>10, <1>11, <1>12
<1> QED
  BY <1>4, <1>9, <1>13 DEF slots, rest

\* One file's page list and the free pages change together: m is what a write
\* to node n leaves.
LEMMA WriteAccounts ==
  ASSUME PageInv, NEW n \in Nodes, Kind[n] = "VFS_FILE", NEW m \in WriteState,
         Settled(m, free + Cardinality(Slots(nodes[n].pages))),
         nodes' = [nodes EXCEPT ![n] = m.node], free' = m.free
  PROVE  PageInv'
<1>1. /\ nodes \in [Nodes -> Node] /\ free \in Nat
      /\ \A k \in Nodes : Len(nodes[k].pages) <= MAX_SLOTS
      /\ free + Cardinality(Owned(nodes)) = TotalPages
      /\ \A p \in Owned(nodes) : Kind[p[1]] = "VFS_FILE" /\ (p[2] - 1) * PAGE_SIZE < nodes[p[1]].size
  BY DEF PageInv, PagesAccounted, Owned
<1>2. m.node \in Node /\ m.free \in Nat /\ Len(m.node.pages) <= MAX_SLOTS
  BY DEF WriteState
<1>3. nodes' \in [Nodes -> Node] /\ \A k \in Nodes : nodes'[k] = IF k = n THEN m.node ELSE nodes[k]
  BY <1>1, <1>2
<1>4. \A k \in Nodes : Len(nodes'[k].pages) <= MAX_SLOTS
  BY <1>1, <1>2, <1>3
<1>5. Others(nodes', n) = Others(nodes, n)
  BY <1>3 DEF Others, Owned
<1> DEFINE old == Cardinality(Slots(nodes[n].pages))
           new == Cardinality(Slots(m.node.pages))
           rest == Cardinality(Others(nodes, n))
<1>6. /\ old \in Nat /\ rest \in Nat /\ Cardinality(Owned(nodes)) = rest + old
  BY <1>1, OwnedSplit
<1>7. new \in Nat /\ Cardinality(Owned(nodes')) = rest + new
  <2>1. Len(nodes'[n].pages) <= MAX_SLOTS /\ nodes'[n] = m.node
    BY <1>3, <1>4
  <2> QED
    BY <1>3, <1>5, <2>1, OwnedSplit
<1>8. m.free + new = free + old
  BY DEF Settled
<1>9. free' + Cardinality(Owned(nodes')) = TotalPages
  <2> DEFINE mf == m.free
  <2>1. mf \in Nat /\ mf + new = free + old
    BY <1>2, <1>8
  <2> HIDE DEF old, new, rest, mf
  <2>2. mf + (rest + new) = free + (rest + old)
    BY <1>1, <1>6, <1>7, <2>1, SMTT(60)
  <2> QED
    BY <1>1, <1>6, <1>7, <2>2 DEF mf
<1>10. ASSUME NEW p \in Owned(nodes')
       PROVE  Kind[p[1]] = "VFS_FILE" /\ (p[2] - 1) * PAGE_SIZE < nodes'[p[1]].size
  <2>1. p[1] \in Nodes /\ p[2] \in 1..MAX_SLOTS
           /\ p[2] <= Len(nodes'[p[1]].pages) /\ nodes'[p[1]].pages[p[2]] # Hole
    BY DEF Owned
  <2>2. CASE p[1] = n
    <3>1. Len(m.node.pages) \in Nat
      BY <1>2, LenIs DEF Node
    <3>2. nodes'[p[1]] = m.node
      BY <1>3, <2>1, <2>2
    <3>3. p[2] \in 1..Len(m.node.pages) /\ m.node.pages[p[2]] # Hole
      BY <2>1, <3>1, <3>2, WidthIs, SMTT(60)
    <3>4. p[2] \in Slots(m.node.pages)
      BY <3>3 DEF Slots
    <3>5. (p[2] - 1) * PAGE_SIZE < m.node.size
      BY <3>4 DEF Settled
    <3> QED
      BY <2>2, <3>2, <3>5
  <2>3. CASE p[1] # n
    <3>1. p \in Owned(nodes)
      BY <1>3, <2>1, <2>3 DEF Owned
    <3> QED
      BY <1>1, <1>3, <2>1, <2>3, <3>1
  <2> QED
    BY <2>2, <2>3
<1>11. PagesAccounted'
  BY <1>9, <1>10 DEF PagesAccounted, Owned
<1> QED
  BY <1>2, <1>3, <1>4, <1>11 DEF PageInv

\* sys_write to a file.
LEMMA WriteFileKeeps ==
  ASSUME FilesInv, NEW t \in Live, NEW fd \in Fds, fds[t][fd] # NULL, NEW count \in 0..Len(Buffer),
         NEW buf, NEW heap \in BOOLEAN, WriteFile(t, fd, count, buf, heap)
  PROVE  FilesInv'
<1> DEFINE f == fds[t][fd]
           n == files[f].node
           a == [node |-> nodes[n], free |-> free, heap |-> heap, ok |-> TRUE,
                 done |-> 0, total |-> 0, fault |-> FALSE, ended |-> FALSE]
           offset == files[f].offset
           m == WriteChunks(a, offset, count, buf)
           all == free + Cardinality(Slots(nodes[n].pages))
<1>1. f \in FileIds /\ files[f] # Freed /\ files[f] \in File
  BY LiveFile DEF FilesInv
<1>2. n \in Nodes /\ offset \in Offsets
  BY <1>1 DEF File
<1>3. /\ Kind[n] = "VFS_FILE" /\ nodes' = [nodes EXCEPT ![n] = m.node] /\ free' = m.free
      /\ files' = [files EXCEPT ![f].offset = Wrap(files[f].offset + m.total)]
      /\ fds' = fds /\ program' = program
  BY DEF WriteFile
<1>4. count \in Nat
  BY FilesAssumption, LenIs, SMTT(60)
<1> HIDE DEF f, n, offset
<1>5. a \in WriteState
  BY <1>2 DEF FilesInv, PageInv, WriteState
<1>6. all \in Nat /\ Settled(a, all)
  <2>1. nodes \in [Nodes -> Node] /\ free \in Nat /\ Len(nodes[n].pages) <= MAX_SLOTS
    BY <1>2 DEF FilesInv, PageInv
  <2>2. IsFiniteSet(Slots(nodes[n].pages)) /\ Cardinality(Slots(nodes[n].pages)) \in Nat
    BY <1>2, <2>1, OwnedSplit
  <2>3. ASSUME NEW i \in Slots(nodes[n].pages)
        PROVE  (i - 1) * PAGE_SIZE < nodes[n].size
    <3>1. Len(nodes[n].pages) \in Nat
      BY <1>2, <2>1, LenIs DEF Node
    <3>2. i \in 1..MAX_SLOTS /\ i <= Len(nodes[n].pages) /\ nodes[n].pages[i] # Hole
      BY <2>1, <3>1, WidthIs, SMTT(60) DEF Slots
    <3>3. <<n, i>> \in Owned(nodes)
      BY <1>2, <3>2 DEF Owned
    <3>4. \A p \in Owned(nodes) : (p[2] - 1) * PAGE_SIZE < nodes[p[1]].size
      BY DEF FilesInv, PageInv, PagesAccounted, Owned
    <3>5. <<n, i>>[1] = n /\ <<n, i>>[2] = i
      OBVIOUS
    <3> QED
      BY <3>3, <3>4, <3>5
  <2> QED
    BY <2>1, <2>2, <2>3, SMTT(60) DEF Settled
<1>7. a.total <= count
  BY <1>4, SMTT(60)
<1> HIDE DEF a
<1>8. m \in WriteState /\ Settled(m, all)
  <2> HIDE DEF all
  <2> QED
    BY <1>2, <1>5, <1>6, <1>7, WriteChunksKeep
<1> HIDE DEF m
<1>9. PageInv'
  <2>1. PageInv
    BY DEF FilesInv
  <2> QED
    BY <1>2, <1>3, <1>8, <2>1, WriteAccounts
<1>10. TableInv'
  <2>1. Wrap(files[f].offset + m.total) \in Offsets
    <3>1. files[f].offset \in Offsets /\ m.total \in Nat
      BY <1>1, <1>8 DEF File, WriteState
    <3>2. files[f].offset + m.total \in Int
      BY <3>1, WidthIs, SMTT(60) DEF Offsets
    <3> QED
      BY <3>2, WrapIs
  <2> DEFINE o == Wrap(files[f].offset + m.total)
  <2>2. o \in Offsets /\ files' = [files EXCEPT ![f].offset = o] /\ TableInv
    BY <1>3, <2>1 DEF FilesInv
  <2> HIDE DEF o
  <2> QED
    BY <1>1, <1>3, <2>2, MoveCounts
<1> QED
  BY <1>3, <1>9, <1>10 DEF FilesInv

\* sys_read from a file.
LEMMA ReadFileKeeps ==
  ASSUME FilesInv, NEW t \in Live, NEW fd \in Fds, fds[t][fd] # NULL, NEW count \in Nat,
         NEW buf, ReadFile(t, fd, count, buf)
  PROVE  FilesInv'
<1> DEFINE f == fds[t][fd]
           r == ReadChunks(nodes[files[f].node], files[f].offset, count, buf)
<1>1. f \in FileIds /\ files[f] # Freed /\ files[f] \in File
  BY LiveFile DEF FilesInv
<1>2. files[f].node \in Nodes /\ files[f].offset \in Offsets
  BY <1>1 DEF File
<1>3. /\ files' = [files EXCEPT ![f].offset = r.offset]
      /\ fds' = fds /\ program' = program /\ UNCHANGED <<nodes, free>>
  BY DEF ReadFile
<1>4. r \in ReadState
  <2>1. nodes[files[f].node] \in Node
    BY <1>2 DEF FilesInv, PageInv
  <2> HIDE DEF f
  <2> QED
    BY <1>2, <2>1, ReadChunksTyped
<1> HIDE DEF f, r
<1>5. TableInv'
  <2>1. r.offset \in Offsets /\ TableInv
    BY <1>4 DEF ReadState, FilesInv
  <2> QED
    BY <1>1, <1>3, <2>1, MoveCounts
<1>6. PageInv'
  BY <1>3 DEF FilesInv, PageInv, PagesAccounted
<1> QED
  BY <1>3, <1>5, <1>6 DEF FilesInv

\* sys_lseek, to whatever the 64-bit sum comes to.
LEMMA SeekKeeps ==
  ASSUME FilesInv, NEW t \in Tasks, NEW fd \in Fds, NEW seek \in Seeks,
         sys_lseek(t, fd, seek[1], seek[2])
  PROVE  FilesInv'
<1> DEFINE f == fds[t][fd]
           base == CASE seek[1] = "SEEK_SET" -> 0
                     [] seek[1] = "SEEK_CUR" -> files[f].offset
                     [] seek[1] = "SEEK_END" -> nodes[files[f].node].size
<1>1. /\ UNCHANGED <<nodes, free>> /\ fds' = fds /\ program' = program /\ t \in Live
      /\ \/ UNCHANGED files
         \/ f # NULL /\ files' = [files EXCEPT ![f].offset = Wrap(base + seek[2])]
  BY DEF sys_lseek
<1>2. PageInv' /\ (program \in DOMAIN Programs)'
  BY <1>1 DEF FilesInv, PageInv, PagesAccounted
<1>3. CASE UNCHANGED files
  BY <1>1, <1>2, <1>3 DEF FilesInv, TableInv
<1>4. CASE f # NULL /\ files' = [files EXCEPT ![f].offset = Wrap(base + seek[2])]
  <2>1. f \in FileIds /\ files[f] # Freed /\ files[f] \in File
    BY <1>1, <1>4, LiveFile DEF FilesInv
  <2>2. files[f].offset \in Nat /\ nodes[files[f].node].size \in Nat
    BY <2>1, SMTT(60) DEF FilesInv, PageInv, File, Node, Offsets
  <2>3. base \in Nat
    <3>1. seek[1] \in {"SEEK_SET", "SEEK_CUR", "SEEK_END"}
      BY FilesAssumption
    <3> QED
      BY <2>2, <3>1
  <2>4. seek[2] \in Int
    BY FilesAssumption
  <2> HIDE DEF base, f
  <2> DEFINE o == Wrap(base + seek[2])
  <2>5. o \in Offsets
    <3>1. base + seek[2] \in Int
      BY <2>3, <2>4, SMTT(60)
    <3> QED
      BY <3>1, WrapIs
  <2>6. files' = [files EXCEPT ![f].offset = o] /\ TableInv
    BY <1>4 DEF FilesInv
  <2> HIDE DEF o
  <2>7. TableInv'
    BY <1>1, <2>1, <2>5, <2>6, MoveCounts
  <2> QED
    BY <1>2, <2>7 DEF FilesInv
<1> QED
  BY <1>1, <1>3, <1>4

\* A step that leaves descriptors, struct files and pages alone.
LEMMA IdleKeeps ==
  ASSUME FilesInv, UNCHANGED <<nodes, free, files, fds, program>>
  PROVE  FilesInv'
BY DEF FilesInv, TableInv, PageInv, PagesAccounted

\* A step on the descriptor tables that leaves the pages alone.
LEMMA TableKeeps ==
  ASSUME FilesInv, TableInv', UNCHANGED <<nodes, free, program>>
  PROVE  FilesInv'
BY DEF FilesInv, PageInv, PagesAccounted

\* Every step keeps the invariant.
LEMMA FilesStep == FilesInv /\ [Next]_vars => FilesInv'
<1> SUFFICES ASSUME FilesInv, [Next]_vars
             PROVE  FilesInv'
  OBVIOUS
<1>1. program \in DOMAIN Programs /\ TableInv
  BY DEF FilesInv
<1>2. /\ Programs[program].opens \subseteq Nodes \cup {NULL} /\ Programs[program].flags \subseteq BOOLEAN
      /\ Programs[program].fds \subseteq Fds /\ Programs[program].counts \subseteq 0..Len(Buffer)
  BY <1>1, FilesAssumption
<1>3. CASE UNCHANGED vars
  BY <1>3, IdleKeeps DEF vars
<1>4. CASE FinishLine
  BY <1>4, IdleKeeps DEF FinishLine
<1>5. ASSUME NEW t \in Tasks, task_open_std_fds(t)
      PROVE  FilesInv'
  <2>1. TableInv'
    BY <1>1, <1>5, StartCounts
  <2> QED
    BY <1>5, <2>1, TableKeeps DEF task_open_std_fds
<1>6. ASSUME NEW t \in Tasks, task_destroy(t)
      PROVE  FilesInv'
  <2>1. TableInv'
    BY <1>1, <1>6, DestroyCounts
  <2> QED
    BY <1>6, <2>1, TableKeeps DEF task_destroy
<1>7. ASSUME NEW t \in Tasks, NEW node \in Programs[program].opens, NEW write \in Programs[program].flags,
             sys_openat(t, node, write)
      PROVE  FilesInv'
  <2>1. node \in Nodes \cup {NULL} /\ write \in BOOLEAN
    BY <1>2
  <2>2. TableInv'
    BY <1>1, <1>7, <2>1, OpenatCounts
  <2>3. UNCHANGED <<nodes, free, program>>
    BY <1>7 DEF sys_openat
  <2> QED
    BY <2>2, <2>3, TableKeeps
<1>8. ASSUME NEW t \in Tasks, NEW fd \in Programs[program].fds
      PROVE  /\ sys_close(t, fd) => FilesInv'
             /\ \A count \in Programs[program].counts, buf \in Programs[program].bufs :
                  sys_read(t, fd, count, buf) \/ sys_write(t, fd, count, buf) => FilesInv'
             /\ \A seek \in Seeks : sys_lseek(t, fd, seek[1], seek[2]) => FilesInv'
  <2>1. fd \in Fds
    BY <1>2
  <2>2. ASSUME sys_close(t, fd)
        PROVE  FilesInv'
    <3>1. TableInv'
      BY <1>1, <2>1, <2>2, CloseCounts
    <3> QED
      BY <2>2, <3>1, TableKeeps DEF sys_close
  <2>3. ASSUME NEW count \in Programs[program].counts, NEW buf \in Programs[program].bufs,
               sys_read(t, fd, count, buf)
        PROVE  FilesInv'
    <3>1. count \in 0..Len(Buffer) /\ count \in Nat
      BY <1>2, FilesAssumption, LenIs, SMTT(60)
    <3>2. t \in Live
      BY <2>3 DEF sys_read
    <3>3. CASE Refused \/ ReadConsole(t, fd, count, buf) \/ OnDirectory(t, fd, count)
      BY <3>3, IdleKeeps DEF Refused, ReadConsole, OnDirectory
    <3>4. CASE fds[t][fd] # NULL /\ ReadFile(t, fd, count, buf)
      BY <2>1, <3>1, <3>2, <3>4, ReadFileKeeps
    <3> QED
      BY <2>3, <3>3, <3>4 DEF sys_read
  <2>4. ASSUME NEW count \in Programs[program].counts, NEW buf \in Programs[program].bufs,
               sys_write(t, fd, count, buf)
        PROVE  FilesInv'
    <3>1. count \in 0..Len(Buffer)
      BY <1>2
    <3>2. t \in Live
      BY <2>4 DEF sys_write
    <3>3. CASE Refused \/ WriteConsole(t, fd, count, buf) \/ OnDirectory(t, fd, count)
      BY <3>3, IdleKeeps DEF Refused, WriteConsole, OnDirectory
    <3>4. ASSUME NEW heap \in BOOLEAN, fds[t][fd] # NULL, WriteFile(t, fd, count, buf, heap)
          PROVE  FilesInv'
      BY <2>1, <3>1, <3>2, <3>4, WriteFileKeeps
    <3> QED
      BY <2>4, <3>3, <3>4 DEF sys_write
  <2>5. ASSUME NEW seek \in Seeks, sys_lseek(t, fd, seek[1], seek[2])
        PROVE  FilesInv'
    BY <2>1, <2>5, SeekKeeps
  <2> QED
    BY <2>2, <2>3, <2>4, <2>5
<1> QED
  BY <1>3, <1>4, <1>5, <1>6, <1>7, <1>8 DEF Next

\* The invariant holds at the start: no task, no file, every page free.
LEMMA FilesStart == Init => FilesInv
<1> SUFFICES ASSUME Init
             PROVE  FilesInv
  OBVIOUS
<1>1. nodes \in [Nodes -> Node] /\ \A n \in Nodes : nodes[n].pages = <<>>
  BY ZeroAndConsole, SMTT(60) DEF Init, Node
<1>2. Len(<<>>) = 0
  OBVIOUS
<1>3. Owned(nodes) = {}
  BY <1>1, <1>2, SMTT(60) DEF Owned
<1>4. free + Cardinality(Owned(nodes)) = TotalPages /\ free \in Nat
  <2>1. free = TotalPages /\ TotalPages \in Nat
    BY FilesAssumption DEF Init
  <2>2. Cardinality(Owned(nodes)) = 0
    BY <1>3, FS_EmptySet
  <2> QED
    BY <2>1, <2>2, SMTT(60)
<1>5. PageInv
  BY <1>1, <1>2, <1>3, <1>4, WidthIs, SMTT(60) DEF PageInv, PagesAccounted, Owned
<1>6. files \in FileTable /\ fds \in [Tasks -> {NoTask} \cup [Fds -> FileIds \cup {NULL}]]
  BY DEF Init, FileTable
<1>7. Counted(files, RefsOf(fds))
  BY DEF Init, Counted, RefsOf
<1> QED
  BY <1>5, <1>6, <1>7 DEF Init, FilesInv, TableInv

\* Every struct file is referenced by exactly as many descriptors as
\* file_ref and file_unref count, for any number of tasks and descriptors: it
\* is freed with its last descriptor, not before and not later.
THEOREM ReferencesExact == Spec => []DescriptorsCounted
<1>1. FilesInv => DescriptorsCounted
  BY CountedIs DEF FilesInv
<1> QED
  BY <1>1, FilesStart, FilesStep, PTL DEF Spec

\* ramfs loses no physical page and keeps none for bytes beyond the end of a
\* file, wherever kmalloc, pmm_alloc or a copy from the program makes a write
\* stop, for any page size, file length and number of files.
THEOREM NoPageLost == Spec => []PagesAccounted
<1>1. FilesInv => PagesAccounted
  BY DEF FilesInv, PageInv
<1> QED
  BY <1>1, FilesStart, FilesStep, PTL DEF Spec
=============================================================================
