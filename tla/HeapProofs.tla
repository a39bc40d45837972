----------------------------- MODULE HeapProofs -----------------------------
(***************************************************************************)
(* The calls of heap.c: kmalloc, kcalloc, krealloc and kfree keep the heap   *)
(* tiled, aligned and disjoint from every page handed out, and change no     *)
(* byte that somebody else holds.                                           *)
(***************************************************************************)
EXTENDS HeapBlockProofs

USE ZenonT(60)

-----------------------------------------------------------------------------
IsState(s) == s = [pages |-> s.pages, blocks |-> s.blocks, mem |-> s.mem]

\* The state a call finds and leaves.
StateOK(s, W, stk) ==
  IsState(s) /\ List(s.blocks) /\ HeapOK(s.pages, Pages(s.blocks), s.mem, W, stk)

\* The block at ptr has room for n bytes.
Room(bs, ptr, n) ==
  \E i \in 1..Len(bs) : ptr = bs[i].addr + HEAP_HEADER_SIZE /\ n <= bs[i].size

\* A call that handed out ptr, with room for n bytes.
Got(s, ptr, n, W, stk) ==
  /\ ptr \in Nat \ {0} /\ Fresh(W, ptr)
  /\ Room(s.blocks, ptr, n)
  /\ \A v : StateOK(s, W \cup {Grant(ptr, 0, v)}, stk)

\* A state with other blocks, other memory or both.
LEMMA StateIs ==
  ASSUME NEW s, IsState(s), NEW x, NEW y
  PROVE  /\ [s EXCEPT !.blocks = x] = [pages |-> s.pages, blocks |-> x, mem |-> s.mem]
         /\ [s EXCEPT !.mem = y] = [pages |-> s.pages, blocks |-> s.blocks, mem |-> y]
         /\ [s EXCEPT !.blocks = x, !.mem = y] = [pages |-> s.pages, blocks |-> x, mem |-> y]
<1>1. s \in [pages : {s.pages}, blocks : {s.blocks}, mem : {s.mem}]
  BY DEF IsState
<1>2. [s EXCEPT !.blocks = x] = [pages |-> s.pages, blocks |-> x, mem |-> s.mem]
  BY <1>1, SMTT(60)
<1>3. [s EXCEPT !.mem = y] = [pages |-> s.pages, blocks |-> s.blocks, mem |-> y]
  BY <1>1, SMTT(60)
<1>4. [s EXCEPT !.blocks = x, !.mem = y] = [pages |-> s.pages, blocks |-> x, mem |-> y]
  <2> DEFINE t == [s EXCEPT !.blocks = x]
  <2>1. t \in [pages : {s.pages}, blocks : {x}, mem : {s.mem}] /\ t.pages = s.pages /\ t.blocks = x
    BY <1>1
  <2> HIDE DEF t
  <2>2. [t EXCEPT !.mem = y] = [pages |-> t.pages, blocks |-> t.blocks, mem |-> y]
    BY <2>1, SMTT(60)
  <2> QED
    BY <2>1, <2>2 DEF t
<1> QED
  BY <1>2, <1>3, <1>4

\* A state put together.
LEMMA MakeState ==
  ASSUME NEW l, NEW bs, NEW m, NEW W, NEW stk, List(bs), HeapOK(l, Pages(bs), m, W, stk)
  PROVE  StateOK([pages |-> l, blocks |-> bs, mem |-> m], W, stk)
BY DEF StateOK, IsState

\* A pointer handed out leads to the block that holds it, by the walk that
\* kfree and krealloc do.
LEMMA IndexOfIs ==
  ASSUME NEW l, NEW bs, NEW m, NEW W, NEW stk, List(bs), HeapOK(l, Pages(bs), m, W, stk),
         NEW w \in W
  PROVE  LET i == IndexOf(bs, w.ptr)
         IN  i \in 1..Len(bs) /\ Holds(bs[i], w) /\ bs[i] \in Block /\ bs[i] \in Pages(bs)
<1>1. PICK b \in Pages(bs) : Holds(b, w)
  BY DEF HeapOK, GrantsOK, Held
<1>2. PICK j \in 1..Len(bs) : b = bs[j]
  BY DEF Pages
<1>3. /\ BlocksOK(Pages(bs)) /\ b \in Block /\ b.addr \in Nat /\ HEAP_HEADER_SIZE \in Nat
      /\ \A c \in Pages(bs) : c \in Block
  BY BlockIs, HeaderIs DEF HeapOK, BlocksOK
<1>4. b.addr = w.ptr - HEAP_HEADER_SIZE
  BY <1>1, <1>3, SMTT(60) DEF Holds
<1> DEFINE i == IndexOf(bs, w.ptr)
<1>5. i \in 1..Len(bs) /\ bs[i].addr = w.ptr - HEAP_HEADER_SIZE
  BY <1>2, <1>4 DEF IndexOf
<1> HIDE DEF i
<1>6. bs[i] \in Pages(bs)
  BY <1>5 DEF Pages
<1>7. bs[i] = b
  BY <1>3, <1>4, <1>5, <1>6, SpansApart
<1> QED
  BY <1>1, <1>3, <1>5, <1>6, <1>7 DEF i

\* The holder of a pointer is the block in front of it; a free block has none.
LEMMA HolderIs ==
  ASSUME NEW l, NEW B, NEW m, NEW W, NEW stk, HeapOK(l, B, m, W, stk), NEW b \in B
  PROVE  /\ \A w \in W : w.ptr = b.addr + HEAP_HEADER_SIZE => Holds(b, w)
         /\ b.is_free => \A n : Within(W, b, n)
<1>1. BlocksOK(B) /\ Held(B, W) /\ \A c \in B : c.addr \in Nat /\ HEAP_HEADER_SIZE \in Nat
  BY BlockIs, HeaderIs DEF HeapOK, BlocksOK, GrantsOK
<1>2. ASSUME NEW w \in W, w.ptr = b.addr + HEAP_HEADER_SIZE PROVE Holds(b, w)
  <2>1. PICK c \in B : Holds(c, w)
    BY <1>1 DEF Held
  <2>2. c.addr = b.addr
    BY <1>1, <1>2, <2>1, SMTT(60) DEF Holds
  <2> QED
    BY <1>1, <2>1, <2>2, SpansApart
<1> QED
  BY <1>2 DEF Within, Holds

\* Handing out a block of the list.
LEMMA TakeKeeps ==
  ASSUME NEW s, NEW W, NEW stk, StateOK(s, W, stk), NEW i \in 1..Len(s.blocks),
         NEW size \in Nat, Aligned(size), Fits(s.blocks[i], size)
  PROVE  Got(Take(s, i, size), s.blocks[i].addr + HEAP_HEADER_SIZE, size, W, stk)
<1> DEFINE l == s.pages
           bs == s.blocks
           b == bs[i]
           ptr == b.addr + HEAP_HEADER_SIZE
           c == heap_block_split(bs, i, size)
           m == SplitMem(s.mem, b, size)
           d == [c[i] EXCEPT !.is_free = FALSE]
           e == [c EXCEPT ![i].is_free = FALSE]
<1>1. /\ IsState(s) /\ List(bs) /\ HeapOK(l, Pages(bs), s.mem, W, stk)
      /\ b.is_free /\ size <= b.size
  <2>1. b.is_free /\ b.size >= size
    BY DEF Fits
  <2>2. b \in Block /\ b.size \in Nat
    BY LenIs, BlockIs, SMTT(60) DEF StateOK, List
  <2> QED
    BY <2>1, <2>2 DEF StateOK
<1>2. b \in Pages(bs) /\ b \in Block /\ bs \in Seq(Block)
  BY <1>1, LenIs DEF Pages, List
<1>3. Take(s, i, size) = [pages |-> l, blocks |-> e, mem |-> m]
  <2>1. Take(s, i, size) = [s EXCEPT !.blocks = e, !.mem = m]
    BY DEF Take
  <2> HIDE DEF e, m
  <2> QED
    BY <1>1, <2>1, StateIs
<1> HIDE DEF l, bs, b
<1>4. Within(W, b, size)
  BY <1>1, <1>2, HolderIs
<1>5. /\ List(c) /\ HeapOK(l, Pages(c), m, W, stk) /\ i \in 1..Len(c)
      /\ c[i].addr = b.addr /\ c[i].is_free = b.is_free /\ size <= c[i].size
  <2> DEFINE mm == s.mem
  <2>1. HeapOK(l, Pages(bs), mm, W, stk) /\ Within(W, bs[i], size) /\ size <= bs[i].size
    BY <1>1, <1>4 DEF b
  <2>2. i \in 1..Len(bs)
    BY DEF bs
  <2> HIDE DEF mm
  <2>3. LET x == heap_block_split(bs, i, size)
        IN  /\ List(x) /\ HeapOK(l, Pages(x), SplitMem(mm, bs[i], size), W, stk)
            /\ i \in 1..Len(x) /\ x[i].addr = bs[i].addr /\ x[i].is_free = bs[i].is_free
            /\ size <= x[i].size
    BY <1>1, <2>1, <2>2, SplitKeeps
  <2> QED
    BY <2>3 DEF mm, b
<1> HIDE DEF c, m
<1>6. c[i] \in Block /\ c[i] \in Pages(c) /\ c \in Seq(Block) /\ DOMAIN c = 1..Len(c)
  BY <1>5, LenIs DEF List, Pages
<1>7. d \in Block /\ d.addr = c[i].addr /\ d.size = c[i].size /\ d.is_free = FALSE
  BY <1>6, FlaggedIs
<1>8. e = Put(c, i, d)
  BY <1>5, <1>6 DEF Put
<1> HIDE DEF d, e
<1>9. /\ d \notin Pages(c) \ {c[i]} /\ Fresh(W, ptr)
      /\ Granted(l, Swap(Pages(c), c[i], d), m, W, ptr, stk)
  <2> DEFINE C == Pages(c)
             x == c[i]
  <2>1. /\ HeapOK(l, C, m, W, stk) /\ x \in C /\ x.is_free /\ MarksUsed(x, d)
        /\ ptr = x.addr + HEAP_HEADER_SIZE
    BY <1>1, <1>5, <1>6, <1>7 DEF MarksUsed, MarksFree
  <2> HIDE DEF C, x, ptr
  <2>2. d \notin C \ {x} /\ Fresh(W, ptr) /\ Granted(l, Swap(C, x, d), m, W, ptr, stk)
    BY <2>1, TakeMark, SMTT(60)
  <2> QED
    BY <2>2 DEF C, x
<1>10. List(e) /\ Len(e) = Len(c) /\ e[i] = d /\ Pages(e) = Swap(Pages(c), c[i], d)
  BY <1>5, <1>7, <1>8, <1>9, UpdateList, SMTT(60) DEF Swap
<1>11. ptr \in Nat \ {0}
  <2>1. b.addr \in Nat /\ HEAP_HEADER_SIZE \in Nat /\ SIZEOF_BLOCK \in Nat \ {0}
        /\ SIZEOF_BLOCK <= HEAP_HEADER_SIZE
    BY <1>2, BlockIs, HeaderIs
  <2> QED
    BY <2>1, SMTT(60)
<1>12. Room(e, ptr, size)
  <2>1. i \in 1..Len(e) /\ e[i].addr = b.addr /\ size <= e[i].size
    BY <1>5, <1>7, <1>10
  <2> QED
    BY <2>1 DEF Room
<1>13. \A v : StateOK([pages |-> l, blocks |-> e, mem |-> m], W \cup {Grant(ptr, 0, v)}, stk)
  BY <1>9, <1>10, MakeState DEF Granted
<1>14. Got([pages |-> l, blocks |-> e, mem |-> m], ptr, size, W, stk)
  BY <1>9, <1>11, <1>12, <1>13 DEF Got
<1> QED
  BY <1>3, <1>14 DEF b, bs


\* kfree: the block is free again, and takes in what follows it.
LEMMA FreeKeeps ==
  ASSUME NEW s, NEW W, NEW stk, StateOK(s, W, stk), NEW w \in W
  PROVE  StateOK(kfree(s, w.ptr), W \ {w}, stk)
<1> DEFINE l == s.pages
           bs == s.blocks
           m == s.mem
           i == IndexOf(bs, w.ptr)
           b == bs[i]
           d == [b EXCEPT !.is_free = TRUE]
           e == [bs EXCEPT ![i].is_free = TRUE]
           c == heap_block_coalesce(e, i)
           V == W \ {w}
<1>1. IsState(s) /\ List(bs) /\ HeapOK(l, Pages(bs), m, W, stk)
  BY DEF StateOK
<1>2. kfree(s, w.ptr) = [pages |-> l, blocks |-> c, mem |-> m]
  <2>1. kfree(s, w.ptr) = [s EXCEPT !.blocks = c]
    BY DEF kfree
  <2> HIDE DEF c
  <2> QED
    BY <1>1, <2>1, StateIs
<1> HIDE DEF l, bs, m
<1>3. i \in 1..Len(bs) /\ Holds(b, w) /\ b \in Block /\ b \in Pages(bs)
  BY <1>1, IndexOfIs
<1> HIDE DEF i
<1>4. bs \in Seq(Block) /\ DOMAIN bs = 1..Len(bs)
  BY <1>1, LenIs DEF List
<1>5. MarksFree(b, d)
  BY <1>3, FlaggedIs DEF MarksFree
<1>6. e = Put(bs, i, d)
  BY <1>3, <1>4 DEF Put
<1>7. w.ptr = b.addr + HEAP_HEADER_SIZE
  BY <1>3 DEF Holds
<1> HIDE DEF d, e
<1>8. d \notin Pages(bs) \ {b} /\ HeapOK(l, Swap(Pages(bs), b, d), m, V, stk)
  <2> DEFINE B == Pages(bs)
  <2> HIDE DEF B, b
  <2>1. HeapOK(l, B, m, W, stk) /\ b \in B
    BY <1>1, <1>3 DEF B
  <2>2. d \notin B \ {b} /\ HeapOK(l, Swap(B, b, d), m, W \ {w}, stk)
    BY <1>5, <1>7, <2>1, FreeMark
  <2> QED
    BY <2>2 DEF B
<1>9. List(e) /\ Len(e) = Len(bs) /\ Pages(e) = Swap(Pages(bs), b, d)
  BY <1>1, <1>3, <1>5, <1>6, <1>8, UpdateList, SMTT(60) DEF Swap, MarksFree
<1> HIDE DEF V
<1>10. List(c) /\ HeapOK(l, Pages(c), m, V, stk)
  <2>1. i \in 1..Len(e) /\ HeapOK(l, Pages(e), m, V, stk)
    BY <1>3, <1>8, <1>9
  <2> QED
    BY <1>9, <2>1, CoalesceKeeps
<1> HIDE DEF c
<1>11. StateOK([pages |-> l, blocks |-> c, mem |-> m], V, stk)
  BY <1>10, MakeState
<1> QED
  BY <1>2, <1>11 DEF V

\* krealloc's block takes in what follows it, and stays where it is.
LEMMA GrowKeeps ==
  ASSUME NEW s, NEW W, NEW stk, StateOK(s, W, stk), NEW w \in W
  PROVE  LET i == IndexOf(s.blocks, w.ptr)
             g == [s EXCEPT !.blocks = heap_block_coalesce(@, i)]
         IN  /\ StateOK(g, W, stk) /\ g.blocks[IndexOf(g.blocks, w.ptr)] = g.blocks[i]
             /\ s.blocks[i].size <= g.blocks[i].size
<1> DEFINE l == s.pages
           bs == s.blocks
           m == s.mem
           i == IndexOf(bs, w.ptr)
           c == heap_block_coalesce(bs, i)
           g == [s EXCEPT !.blocks = c]
<1>1. IsState(s) /\ List(bs) /\ HeapOK(l, Pages(bs), m, W, stk)
  BY DEF StateOK
<1>2. g = [pages |-> l, blocks |-> c, mem |-> m]
  <2> HIDE DEF c
  <2> QED
    BY <1>1, StateIs
<1> HIDE DEF g, l, bs, m
<1>3. i \in 1..Len(bs) /\ Holds(bs[i], w)
  BY <1>1, IndexOfIs
<1> HIDE DEF i
<1>4. List(c) /\ HeapOK(l, Pages(c), m, W, stk) /\ i \in 1..Len(c) /\ Grown(bs[i], c[i])
  BY <1>1, <1>3, CoalesceKeeps
<1> HIDE DEF c
<1>5. StateOK(g, W, stk) /\ g.blocks = c
  BY <1>2, <1>4, MakeState
<1>6. c[IndexOf(c, w.ptr)] = c[i]
  <2> DEFINE k == IndexOf(c, w.ptr)
  <2>1. k \in 1..Len(c) /\ Holds(c[k], w) /\ c[k] \in Pages(c)
    BY <1>4, IndexOfIs
  <2> HIDE DEF k
  <2>2. c[i] \in Pages(c) /\ BlocksOK(Pages(c))
    BY <1>4 DEF Pages, HeapOK
  <2>3. c[k].addr \in Nat /\ c[i].addr \in Nat /\ HEAP_HEADER_SIZE \in Nat
    BY <2>1, <2>2, BlockIs, HeaderIs DEF BlocksOK
  <2>4. c[k].addr = c[i].addr
    <3>1. c[k].addr + HEAP_HEADER_SIZE = c[i].addr + HEAP_HEADER_SIZE
      BY <1>3, <1>4, <2>1 DEF Holds, Grown
    <3>2. \A x, y, h \in Nat : x + h = y + h => x = y
      BY SMTT(60)
    <3> QED
      BY <2>3, <3>1, <3>2
  <2> QED
    BY <2>1, <2>2, <2>4, SpansApart, SMTT(60) DEF k
<1> QED
  BY <1>4, <1>5, <1>6 DEF Grown, g, c, i, bs

\* A block that is large enough keeps its place and its caller.
LEMMA KeepKeeps ==
  ASSUME NEW s, NEW W, NEW stk, StateOK(s, W, stk), NEW w \in W, NEW size \in Nat, Aligned(size),
         size <= s.blocks[IndexOf(s.blocks, w.ptr)].size, w.size <= size
  PROVE  LET r == Keep(s, w.ptr, size)
         IN  r.ptr = w.ptr /\ StateOK(r.s, W, stk) /\ Room(r.s.blocks, w.ptr, size)
<1> DEFINE l == s.pages
           bs == s.blocks
           mm == s.mem
           i == IndexOf(bs, w.ptr)
           c == heap_block_split(bs, i, size)
           m == SplitMem(mm, bs[i], size)
           r == Keep(s, w.ptr, size)
<1>1. IsState(s) /\ List(bs) /\ HeapOK(l, Pages(bs), mm, W, stk) /\ size <= bs[i].size
  BY DEF StateOK
<1>2. r.ptr = w.ptr /\ r.s = [pages |-> l, blocks |-> c, mem |-> m]
  <2>1. r = Result(w.ptr, [s EXCEPT !.blocks = c, !.mem = m])
    BY DEF Keep
  <2> HIDE DEF c, m, r
  <2>2. [s EXCEPT !.blocks = c, !.mem = m] = [pages |-> l, blocks |-> c, mem |-> m]
    BY <1>1, StateIs
  <2> QED
    BY <2>1, <2>2 DEF Result
<1> HIDE DEF l, bs, mm, r
<1>3. i \in 1..Len(bs) /\ Holds(bs[i], w)
  BY <1>1, IndexOfIs
<1> HIDE DEF i
<1>4. Within(W, bs[i], size)
  BY <1>1, <1>3 DEF Within, Holds, HeapOK, GrantsOK
<1>5. /\ List(c) /\ HeapOK(l, Pages(c), m, W, stk) /\ i \in 1..Len(c)
      /\ c[i].addr = bs[i].addr /\ size <= c[i].size
  BY <1>1, <1>3, <1>4, SplitKeeps, SMTT(60)
<1> HIDE DEF c, m
<1>6. StateOK(r.s, W, stk) /\ r.s.blocks = c
  BY <1>2, <1>5, MakeState, SMTT(60)
<1>7. Room(c, w.ptr, size)
  BY <1>3, <1>5 DEF Room, Holds
<1> QED
  BY <1>2, <1>6, <1>7 DEF r


\* A call that handed out more than was asked for handed out that.
LEMMA GotLess ==
  ASSUME NEW s, NEW ptr, NEW n \in Nat, NEW k \in Nat, NEW W, NEW stk, Got(s, ptr, n, W, stk),
         k <= n
  PROVE  Got(s, ptr, k, W, stk)
<1>1. PICK i \in 1..Len(s.blocks) : ptr = s.blocks[i].addr + HEAP_HEADER_SIZE /\ n <= s.blocks[i].size
  BY DEF Got, Room
<1>2. s.blocks[i].size \in Nat
  <2>1. List(s.blocks)
    BY DEF Got, StateOK
  <2>2. s.blocks[i] \in Block
    BY <2>1, LenIs DEF List
  <2> QED
    BY <2>2, BlockIs
<1>3. k <= s.blocks[i].size
  BY <1>1, <1>2, SMTT(60)
<1>4. Room(s.blocks, ptr, k)
  BY <1>1, <1>3 DEF Room
<1> QED
  BY <1>4 DEF Got

\* The size kmalloc works with holds what was asked for, keeps the alignment and
\* leaves the sum that counts the pages below SIZE_MAX.
AllocSize(asked) ==
  LET up == HEAP_ALIGN_UP(asked) IN IF up = 0 THEN HEAP_ALIGNMENT ELSE up

\* kmalloc: what passed its guard is rounded up and no sum wraps.
LEMMA AllocSizeIs ==
  ASSUME NEW asked \in Nat, ~TooLarge(asked)
  PROVE  /\ AllocSize(asked) \in Nat /\ Aligned(AllocSize(asked)) /\ asked <= AllocSize(asked)
         /\ HEAP_HEADER_SIZE + AllocSize(asked) + PAGE_SIZE - 1 <= SIZE_MAX
<1> DEFINE up == HEAP_ALIGN_UP(asked)
           A == HEAP_ALIGNMENT
           H == HEAP_HEADER_SIZE
           P == PAGE_SIZE
           M == SIZE_MAX
<1>1. A \in Nat \ {0} /\ H \in Nat /\ P \in Nat \ {0} /\ M \in Nat
  BY HeaderIs
<1>2. ~(asked > M - H - P - A)
  BY DEF TooLarge
<1>3. Aligned(A)
  <2>1. (A * 1) % A = 0
    BY <1>1, MultipleIs
  <2>2. A * 1 = A
    BY <1>1, SMTT(60)
  <2> QED
    BY <2>1, <2>2 DEF Aligned
<1> HIDE DEF A, H, P, M, up
<1>4. asked + (A - 1) <= M
  BY <1>1, <1>2, SMTT(60)
<1>5. up \in Nat /\ Aligned(up) /\ asked <= up /\ up <= asked + (A - 1)
  BY <1>4, AlignUpIs DEF up, A, M
<1>6. CASE up = 0
  <2>1. AllocSize(asked) = A
    BY <1>6 DEF AllocSize, up, A
  <2>2. asked <= A /\ H + A + P - 1 <= M
    BY <1>1, <1>2, <1>5, <1>6, SMTT(60)
  <2> QED
    BY <1>1, <1>3, <2>1, <2>2 DEF H, P, M
<1>7. CASE up # 0
  <2>1. AllocSize(asked) = up
    BY <1>7 DEF AllocSize, up
  <2>2. H + up + P - 1 <= M
    BY <1>1, <1>2, <1>5, SMTT(60)
  <2> QED
    BY <1>5, <2>1, <2>2 DEF H, P, M
<1> QED
  BY <1>6, <1>7

\* First fit finds a block that fits when there is one.
LEMMA FirstFitIs ==
  ASSUME NEW s, NEW size, Len(s.blocks) \in Nat, HasFit(s, size)
  PROVE  FirstFit(s, size) \in 1..Len(s.blocks) /\ Fits(s.blocks[FirstFit(s, size)], size)
<1> DEFINE S == {i \in 1..Len(s.blocks) : Fits(s.blocks[i], size)}
<1>1. PICK n \in S : \A k \in S : n <= k
  <2>1. S \subseteq Nat /\ S # {}
    BY SMTT(60) DEF HasFit
  <2> HIDE DEF S
  <2> QED
    BY <2>1, LeastNat
<1>2. \A j \in 1..(n - 1) : ~Fits(s.blocks[j], size)
  BY <1>1, SMTT(60)
<1> QED
  BY <1>1, <1>2 DEF FirstFit

\* The state kmalloc goes on with when it took fresh pages.
FreshState(s, k) ==
  [pages  |-> AfterAlloc(s.pages, k),
   blocks |-> Insert(s.blocks, 1, NewBlock(pmm_alloc(s.pages, k), k)),
   mem    |-> WriteHeader(s.mem, pmm_phys_to_virt(pmm_alloc(s.pages, k)))]

\* kmalloc: fresh pages come in as a free block at the list's head.
LEMMA FreshStateKeeps ==
  ASSUME NEW s, NEW W, NEW stk, StateOK(s, W, stk), NEW k \in Nat, HasRun(s.pages, k)
  PROVE  LET t == FreshState(s, k)
         IN  /\ StateOK(t, W, stk) /\ 1 \in 1..Len(t.blocks) /\ t.blocks[1].is_free
             /\ t.blocks[1].size = k * PAGE_SIZE - HEAP_HEADER_SIZE
<1> DEFINE l == s.pages
           bs == s.blocks
           mm == s.mem
           page == pmm_alloc(l, k)
           b == NewBlock(page, k)
           l2 == AfterAlloc(l, k)
           c == Insert(bs, 1, b)
           m == WriteHeader(mm, pmm_phys_to_virt(page))
           t == FreshState(s, k)
<1>1. List(bs) /\ HeapOK(l, Pages(bs), mm, W, stk) /\ HasRun(l, k)
  BY DEF StateOK
<1>2. t = [pages |-> l2, blocks |-> c, mem |-> m]
  BY DEF FreshState
<1> HIDE DEF t, l, bs, mm
<1>3. /\ b \in Block /\ b \notin Pages(bs) /\ b.is_free
      /\ b.size = k * PAGE_SIZE - HEAP_HEADER_SIZE
      /\ HeapOK(l2, Pages(bs) \cup {b}, m, W, stk)
  BY <1>1, FreshKeeps
<1> HIDE DEF b, l2, m
<1>4. bs \in Seq(Block) /\ Len(bs) \in Nat /\ 1 \in 1..(Len(bs) + 1)
  BY <1>1, LenIs, SMTT(60) DEF List
<1>5. List(c) /\ Pages(c) = Pages(bs) \cup {b}
  BY <1>1, <1>3, <1>4, InsertList
<1>6. Len(c) = Len(bs) + 1 /\ c[1] = b
  BY <1>3, <1>4, InsertIs, SMTT(60)
<1> HIDE DEF c
<1>7. StateOK(t, W, stk) /\ t.blocks = c
  BY <1>2, <1>3, <1>5, MakeState
<1> QED
  BY <1>3, <1>4, <1>6, <1>7 DEF t


\* kmalloc refuses and changes nothing, or hands out a block of its own with
\* room for what was asked.
LEMMA MallocKeeps ==
  ASSUME NEW s, NEW W, NEW stk, StateOK(s, W, stk), NEW asked \in Nat
  PROVE  LET r == kmalloc(s, asked)
         IN  r = Result(0, s) \/ Got(r.s, r.ptr, asked, W, stk)
<1> DEFINE size == AllocSize(asked)
           k == PagesFor(size)
           page == pmm_alloc(s.pages, k)
           from(t, i) == Result(t.blocks[i].addr + HEAP_HEADER_SIZE, Take(t, i, size))
           r == kmalloc(s, asked)
<1>1. r = IF TooLarge(asked) THEN Result(0, s)
          ELSE IF HasFit(s, size) THEN from(s, FirstFit(s, size))
          ELSE IF page = 0 THEN Result(0, s)
          ELSE from(FreshState(s, k), 1)
  BY DEF kmalloc, AllocSize, FreshState
<1> HIDE DEF r, k
<1>2. CASE TooLarge(asked)
  BY <1>1, <1>2 DEF r
<1>3. CASE ~TooLarge(asked)
  <2>1. /\ size \in Nat /\ Aligned(size) /\ asked <= size
        /\ HEAP_HEADER_SIZE + size + PAGE_SIZE - 1 <= SIZE_MAX
    BY <1>3, AllocSizeIs
  <2>2. k \in Nat \ {0} /\ HEAP_HEADER_SIZE + size <= k * PAGE_SIZE
    BY <2>1, PagesForIs DEF k
  <2> HIDE DEF size
  <2>3. ASSUME NEW t, StateOK(t, W, stk), NEW i \in 1..Len(t.blocks), Fits(t.blocks[i], size),
               r = from(t, i)
        PROVE  Got(r.s, r.ptr, asked, W, stk)
    <3> DEFINE ptr == t.blocks[i].addr + HEAP_HEADER_SIZE
               u == Take(t, i, size)
    <3>1. Got(u, ptr, size, W, stk)
      BY <2>1, <2>3, TakeKeeps
    <3>2. r.ptr = ptr /\ r.s = u
      BY <2>3 DEF Result
    <3> HIDE DEF ptr, u
    <3> QED
      BY <2>1, <3>1, <3>2, GotLess
  <2>4. CASE HasFit(s, size)
    <3>1. Len(s.blocks) \in Nat
      BY LenIs DEF StateOK, List
    <3> DEFINE i == FirstFit(s, size)
    <3>2. i \in 1..Len(s.blocks) /\ Fits(s.blocks[i], size)
      BY <2>4, <3>1, FirstFitIs
    <3>3. r = from(s, i)
      BY <1>1, <1>3, <2>4
    <3> HIDE DEF i
    <3> QED
      BY <2>3, <3>2, <3>3 DEF r
  <2>5. CASE ~HasFit(s, size) /\ page = 0
    BY <1>1, <1>3, <2>5 DEF r
  <2>6. CASE ~HasFit(s, size) /\ page # 0
    <3> DEFINE t == FreshState(s, k)
    <3>1. HasRun(s.pages, k)
      BY <2>6 DEF pmm_alloc
    <3>2. /\ StateOK(t, W, stk) /\ 1 \in 1..Len(t.blocks) /\ t.blocks[1].is_free
          /\ t.blocks[1].size = k * PAGE_SIZE - HEAP_HEADER_SIZE
      BY <2>2, <3>1, FreshStateKeeps
    <3>3. r = from(t, 1)
      BY <1>1, <1>3, <2>6
    <3> HIDE DEF t
    <3>4. t.blocks[1].size >= size
      <4>1. HEAP_HEADER_SIZE \in Nat /\ k * PAGE_SIZE \in Nat
        BY <2>2, HeaderIs, PagesAligned
      <4>2. \A h, n, x \in Nat : h + n <= x => x - h >= n
        BY SMTT(60)
      <4> QED
        BY <2>1, <2>2, <3>2, <4>1, <4>2
    <3>5. Fits(t.blocks[1], size)
      BY <3>2, <3>4 DEF Fits
    <3> QED
      BY <2>3, <3>2, <3>3, <3>5 DEF r
  <2> QED
    BY <2>4, <2>5, <2>6
<1> QED
  BY <1>2, <1>3

\* A caller stores in the room it has, and what it is granted changes.
LEMMA StoreKeeps ==
  ASSUME NEW s, NEW W, NEW stk, StateOK(s, W, stk), NEW w \in W, NEW n \in Nat,
         Room(s.blocks, w.ptr, n), NEW k \in Nat, k <= n, NEW m2,
         Rewrites(s.mem, m2, w.ptr, w.ptr + n - 1), NEW v, \A a \in Bytes(w.ptr, k) : m2[a] = v
  PROVE  HeapOK(s.pages, Pages(s.blocks), m2, (W \ {w}) \cup {Grant(w.ptr, k, v)}, stk)
<1> DEFINE l == s.pages
           bs == s.blocks
           m == s.mem
           B == Pages(bs)
<1>1. List(bs) /\ HeapOK(l, B, m, W, stk) /\ Rewrites(m, m2, w.ptr, w.ptr + n - 1)
  BY DEF StateOK
<1>2. PICK i \in 1..Len(bs) : w.ptr = bs[i].addr + HEAP_HEADER_SIZE /\ n <= bs[i].size
  BY DEF Room
<1> DEFINE b == bs[i]
<1>3. b \in Block /\ b \in B
  BY <1>1, LenIs DEF List, Pages
<1> HIDE DEF l, bs, m, B, b
<1>4. b.addr \in Nat /\ b.size \in Nat /\ BlockEnd(b) = b.addr + HEAP_HEADER_SIZE + b.size
      /\ HEAP_HEADER_SIZE \in Nat
  BY <1>3, BlockIs, HeaderIs
<1>5. w.ptr = b.addr + HEAP_HEADER_SIZE /\ n <= b.size
  BY <1>2 DEF b
<1>6. k <= b.size
  BY <1>4, <1>5, SMTT(60)
<1>7. Rewrites(m, m2, w.ptr, BlockEnd(b) - 1)
  <2> DEFINE hi == BlockEnd(b) - 1
             mid == w.ptr + n - 1
  <2>1. hi \in Int /\ mid \in Int /\ w.ptr \in Int /\ mid <= hi
    <3>1. \A a, h, z, x \in Nat :
            x <= z => /\ (a + h + z) - 1 \in Int /\ (a + h) + x - 1 \in Int /\ a + h \in Int
                      /\ (a + h) + x - 1 <= (a + h + z) - 1
      BY SMTT(60)
    <3> QED
      BY <1>4, <1>5, <3>1
  <2>2. \A a : a \in w.ptr..mid => a \in w.ptr..hi
    <3> HIDE DEF hi, mid
    <3> QED
      BY <2>1, SMTT(60)
  <2> HIDE DEF hi, mid
  <2>3. Rewrites(m, m2, w.ptr, mid)
    BY <1>1 DEF mid
  <2>4. Rewrites(m, m2, w.ptr, hi)
    BY <2>2, <2>3 DEF Rewrites
  <2> QED
    BY <2>4 DEF hi
<1>8. HeapOK(l, B, m2, (W \ {w}) \cup {Grant(w.ptr, k, v)}, stk)
  BY <1>1, <1>3, <1>5, <1>6, <1>7, Regrant
<1> QED
  BY <1>8 DEF l, B, bs


\* A block with room for more has room for less, and its bytes are memory.
LEMMA RoomIs ==
  ASSUME NEW s, NEW W, NEW stk, StateOK(s, W, stk), NEW ptr, NEW n \in Nat, Room(s.blocks, ptr, n)
  PROVE  /\ ptr \in Nat /\ Bytes(ptr, n) \subseteq DOMAIN s.mem
         /\ \A k \in Nat : k <= n => Room(s.blocks, ptr, k)
<1> DEFINE l == s.pages
           bs == s.blocks
           m == s.mem
           B == Pages(bs)
<1>1. List(bs) /\ HeapOK(l, B, m, W, stk)
  BY DEF StateOK
<1>2. PICK i \in 1..Len(bs) : ptr = bs[i].addr + HEAP_HEADER_SIZE /\ n <= bs[i].size
  BY DEF Room
<1> DEFINE b == bs[i]
<1>3. b \in Block /\ b \in B
  BY <1>1, LenIs DEF List, Pages
<1>4. ptr = b.addr + HEAP_HEADER_SIZE /\ n <= b.size
  BY <1>2
<1> HIDE DEF l, m, B, b
<1>5. b.addr \in Nat /\ b.size \in Nat /\ BlockEnd(b) = b.addr + HEAP_HEADER_SIZE + b.size
      /\ HEAP_HEADER_SIZE \in Nat
  BY <1>3, BlockIs, HeaderIs
<1>6. ptr \in Nat /\ \A k \in Nat : k <= n => k <= b.size
  BY <1>4, <1>5, SMTT(60)
<1>7. \A k \in Nat : k <= n => Room(bs, ptr, k)
  BY <1>2, <1>6 DEF Room, b
<1>8. Bytes(ptr, n) \subseteq Span(b)
  <2>1. \A a, h, z, x, y \in Nat :
          x <= z /\ y \in (a + h)..((a + h) + x - 1) => y \in a..((a + h + z) - 1)
    BY SMTT(60)
  <2>2. \A y \in Bytes(ptr, n) : y \in Nat /\ y \in ptr..(ptr + n - 1)
    BY <1>6, SMTT(60) DEF Bytes
  <2>3. \A y \in Bytes(ptr, n) : y \in b.addr..((b.addr + HEAP_HEADER_SIZE + b.size) - 1)
    BY <1>4, <1>5, <2>1, <2>2
  <2> QED
    BY <1>5, <2>3 DEF Span
<1>9. Span(b) \subseteq DOMAIN m
  <2>1. BlocksOK(B) /\ PoolOK(l, B, stk) /\ DOMAIN m = PageBytes(UsablePages)
    BY <1>1 DEF HeapOK, MemOK
  <2>2. Span(b) \subseteq Cover(B)
    BY <1>3, <2>1, SpansApart
  <2> QED
    BY <2>1, <2>2, CoverIs
<1> QED
  BY <1>6, <1>7, <1>8, <1>9 DEF m

\* A call that handed out n bytes at ptr, the first k of which hold v: with v in
\* the others the caller has what it is granted.
Handed(s, ptr, k, n, v, W, stk) ==
  /\ ptr \in Nat \ {0} /\ Fresh(W, ptr) /\ IsState(s) /\ List(s.blocks)
  /\ HeapOK(s.pages, Pages(s.blocks), Fill(s.mem, ptr + k, n - k, v),
            W \cup {Grant(ptr, n, v)}, stk)

\* Bytes at an offset.
LEMMA BytesIs ==
  ASSUME NEW ptr \in Nat, NEW k \in Nat, NEW n \in Nat, k <= n
  PROVE  /\ Bytes(ptr + k, n - k) \subseteq Bytes(ptr, n)
         /\ Bytes(ptr, k) \subseteq Bytes(ptr, n)
         /\ \A a \in Bytes(ptr, n) : a \in Bytes(ptr + k, n - k) \/ a \in Bytes(ptr, k)
         /\ Bytes(ptr, n) = ptr..(ptr + n - 1)
BY SMTT(60) DEF Bytes

\* The caller fills the room it has, after the bytes it was granted.
LEMMA GrantFills ==
  ASSUME NEW s, NEW W, NEW stk, NEW ptr, NEW k \in Nat, NEW n \in Nat, k <= n, NEW v,
         StateOK(s, W \cup {Grant(ptr, k, v)}, stk), Fresh(W, ptr), ptr \in Nat \ {0},
         Room(s.blocks, ptr, n)
  PROVE  Handed(s, ptr, k, n, v, W, stk)
<1> DEFINE m == s.mem
           g == Grant(ptr, k, v)
           V == W \cup {g}
           m2 == Fill(m, ptr + k, n - k, v)
<1>1. g \in V /\ g.ptr = ptr /\ g.size = k /\ g.val = v
  BY DEF Grant
<1>2. V \ {g} = W
  BY <1>1 DEF Fresh
<1> HIDE DEF g, V
<1>3. StateOK(s, V, stk)
  BY DEF V, g
<1>4. Bytes(ptr, n) \subseteq DOMAIN m
  BY <1>3, RoomIs
<1>5. \A a \in Bytes(ptr, k) : m[a] = v
  BY <1>1, <1>3 DEF StateOK, HeapOK, MemOK
<1>6. /\ DOMAIN m2 = DOMAIN m
      /\ \A a \in DOMAIN m : m2[a] = IF a \in Bytes(ptr + k, n - k) THEN v ELSE m[a]
  BY FillIs, SMTT(60)
<1> HIDE DEF m, m2
<1>7. \A a \in Bytes(ptr, n) : m2[a] = v
  BY <1>4, <1>5, <1>6, BytesIs, SMTT(60)
<1>8. Rewrites(m, m2, ptr, ptr + n - 1)
  <2>1. Bytes(ptr + k, n - k) \subseteq ptr..(ptr + n - 1)
    BY BytesIs
  <2> QED
    BY <1>6, <2>1 DEF Rewrites
<1>9. HeapOK(s.pages, Pages(s.blocks), m2, (V \ {g}) \cup {Grant(g.ptr, n, v)}, stk)
  <2>1. /\ Room(s.blocks, g.ptr, n) /\ Rewrites(s.mem, m2, g.ptr, g.ptr + n - 1)
        /\ n <= n /\ \A a \in Bytes(g.ptr, n) : m2[a] = v
    BY <1>1, <1>7, <1>8, SMTT(60) DEF m
  <2> QED
    BY <1>1, <1>3, <2>1, StoreKeeps
<1>10. HeapOK(s.pages, Pages(s.blocks), m2, W \cup {Grant(ptr, n, v)}, stk)
  BY <1>1, <1>2, <1>9
<1> QED
  BY <1>3, <1>10 DEF Handed, StateOK, m2, m


\* What kmalloc returns is a pointer and a state.
LEMMA MallocIs ==
  ASSUME NEW s, NEW asked
  PROVE  \E p, t : kmalloc(s, asked) = Result(p, t)
<1> DEFINE size == AllocSize(asked)
           k == PagesFor(size)
           i == FirstFit(s, size)
           u == FreshState(s, k)
           at(t, j) == t.blocks[j].addr + HEAP_HEADER_SIZE
<1>1. \/ kmalloc(s, asked) = Result(0, s)
      \/ kmalloc(s, asked) = Result(at(s, i), Take(s, i, size))
      \/ kmalloc(s, asked) = Result(at(u, 1), Take(u, 1, size))
  BY DEF kmalloc, AllocSize, FreshState
<1> QED
  BY <1>1

\* A result with other memory.
LEMMA ResultIs ==
  ASSUME NEW p, NEW t, IsState(t), NEW y
  PROVE  /\ Result(p, t).ptr = p /\ Result(p, t).s = t
         /\ [Result(p, t) EXCEPT !.s.mem = y]
              = Result(p, [pages |-> t.pages, blocks |-> t.blocks, mem |-> y])
<1> DEFINE r == Result(p, t)
           u == [t EXCEPT !.mem = y]
<1>1. r \in [ptr : {p}, s : {t}] /\ r.ptr = p /\ r.s = t
  BY DEF Result
<1>2. [r EXCEPT !.s.mem = y] = [r EXCEPT !.s = u]
  BY <1>1
<1>3. u = [pages |-> t.pages, blocks |-> t.blocks, mem |-> y]
  BY StateIs
<1> HIDE DEF r, u
<1>4. [r EXCEPT !.s = u] = Result(p, u)
  BY <1>1, SMTT(60) DEF Result
<1> QED
  BY <1>1, <1>2, <1>3, <1>4 DEF r

\* kcalloc refuses, or hands out zeroes: the product it asks for did not wrap.
LEMMA CallocKeeps ==
  ASSUME NEW s, NEW W, NEW stk, StateOK(s, W, stk), NEW num \in Nat, NEW size \in Nat,
         num <= SIZE_MAX
  PROVE  LET r == kcalloc(s, num, size)
             n == num * size
         IN  r = Result(0, s) \/ Handed(r.s, r.ptr, n, n, 0, W, stk)
<1> DEFINE n == num * size
           q == kmalloc(s, n)
           r == kcalloc(s, num, size)
<1>1. CASE ArrayTooLarge(num, size)
  BY <1>1 DEF kcalloc
<1>2. CASE ~ArrayTooLarge(num, size)
  <2>1. n \in Nat /\ n <= SIZE_MAX
    <3>1. SIZE_MAX \in Nat
      BY HeaderIs
    <3>2. CASE size = 0
      BY <3>1, <3>2, SMTT(60)
    <3>3. CASE size # 0
      <4> DEFINE d == SIZE_MAX \div size
      <4>1. d \in Nat /\ SIZE_MAX = size * d + (SIZE_MAX % size) /\ SIZE_MAX % size \in Nat
        BY <3>1, <3>3, RemainderIs, SMTT(60)
      <4>2. num <= d
        BY <1>2, <3>3, <4>1, SMTT(60) DEF ArrayTooLarge
      <4> HIDE DEF d
      <4>3. num * size <= d * size /\ num * size \in Nat /\ d * size \in Nat
        BY <4>1, <4>2, TimesKeepsOrder
      <4>4. d * size = size * d
        BY <4>1, SMTT(60)
      <4> QED
        BY <3>1, <4>1, <4>3, <4>4, SMTT(60)
    <3> QED
      BY <3>2, <3>3
  <2> HIDE DEF n
  <2>2. Wrap(n) = n
    <3>1. SIZE_MAX + 1 \in Nat \ {0} /\ n < SIZE_MAX + 1
      BY <2>1, HeaderIs, SMTT(60)
    <3> QED
      BY <2>1, <3>1, RemainderIs DEF Wrap
  <2>3. r = IF q.ptr = 0 THEN q ELSE [q EXCEPT !.s.mem = Fill(q.s.mem, q.ptr, n, 0)]
    <3>1. Wrap(num * size) = n
      BY <2>2 DEF n
    <3> QED
      BY <1>2, <3>1 DEF kcalloc
  <2>4. PICK p, t : q = Result(p, t)
    BY MallocIs
  <2>5. q.ptr = p /\ q.s = t
    BY <2>4, SMTT(60) DEF Result
  <2>6. q = Result(0, s) \/ Got(t, p, n, W, stk)
    BY <2>1, <2>5, MallocKeeps
  <2> HIDE DEF q, r
  <2>7. CASE q = Result(0, s)
    <3>1. q.ptr = 0
      BY <2>7 DEF Result
    <3> QED
      BY <2>3, <2>7, <3>1 DEF r
  <2>8. CASE Got(t, p, n, W, stk)
    <3> DEFINE m2 == Fill(t.mem, p, n, 0)
               u == [pages |-> t.pages, blocks |-> t.blocks, mem |-> m2]
    <3>1. p \in Nat \ {0} /\ Fresh(W, p) /\ Room(t.blocks, p, n)
          /\ StateOK(t, W \cup {Grant(p, 0, 0)}, stk)
      BY <2>8 DEF Got
    <3>2. r = Result(p, u)
      <4>1. r = [q EXCEPT !.s.mem = m2]
        BY <2>3, <2>5, <3>1
      <4> HIDE DEF m2
      <4>2. IsState(t)
        BY <3>1 DEF StateOK
      <4> QED
        BY <2>4, <4>1, <4>2, ResultIs, SMTT(60)
    <3>3. Handed(t, p, 0, n, 0, W, stk)
      <4>1. 0 \in Nat /\ 0 <= n
        BY <2>1, SMTT(60)
      <4> QED
        BY <2>1, <3>1, <4>1, GrantFills
    <3>4. StateOK(u, W \cup {Grant(p, n, 0)}, stk)
      <4>1. p + 0 = p /\ n - 0 = n
        BY <2>1, <3>1, SMTT(60)
      <4>2. List(t.blocks) /\ HeapOK(t.pages, Pages(t.blocks), m2, W \cup {Grant(p, n, 0)}, stk)
        BY <3>3, <4>1 DEF Handed
      <4> HIDE DEF m2
      <4> QED
        BY <4>2, MakeState
    <3>5. u.blocks = t.blocks
      OBVIOUS
    <3> HIDE DEF u
    <3>6. Handed(u, p, n, n, 0, W, stk)
      <4>1. Room(u.blocks, p, n) /\ n <= n
        BY <2>1, <3>1, <3>5, SMTT(60)
      <4> QED
        BY <2>1, <3>1, <3>4, <4>1, GrantFills
    <3>7. r.ptr = p /\ r.s = u
      BY <3>2 DEF Result
    <3> QED
      BY <3>6, <3>7 DEF r, n
  <2> QED
    BY <2>6, <2>7, <2>8
<1> QED
  BY <1>1, <1>2


\* A caller gives up the end of what it was granted.
LEMMA ShrinkKeeps ==
  ASSUME NEW s, NEW W, NEW stk, StateOK(s, W, stk), NEW w \in W, NEW k \in Nat, k <= w.size
  PROVE  /\ StateOK(s, (W \ {w}) \cup {Grant(w.ptr, k, w.val)}, stk)
         /\ Fresh(W \ {w}, w.ptr) /\ w.ptr \in Nat \ {0}
<1> DEFINE l == s.pages
           bs == s.blocks
           m == s.mem
           i == IndexOf(bs, w.ptr)
           V == (W \ {w}) \cup {Grant(w.ptr, k, w.val)}
<1>1. IsState(s) /\ List(bs) /\ HeapOK(l, Pages(bs), m, W, stk)
  BY DEF StateOK
<1>2. i \in 1..Len(bs) /\ Holds(bs[i], w) /\ bs[i] \in Block
  <2> HIDE DEF l, bs, m
  <2> QED
    BY <1>1, IndexOfIs
<1> HIDE DEF i
<1>3. /\ bs[i].addr \in Nat /\ bs[i].size \in Nat /\ HEAP_HEADER_SIZE \in Nat
      /\ SIZEOF_BLOCK \in Nat \ {0} /\ SIZEOF_BLOCK <= HEAP_HEADER_SIZE
  BY <1>2, BlockIs, HeaderIs
<1>4. w.ptr = bs[i].addr + HEAP_HEADER_SIZE /\ w.size \in Nat /\ w.size <= bs[i].size
  BY <1>2 DEF Holds
<1>5. w.ptr \in Nat \ {0}
  BY <1>3, <1>4, SMTT(60)
<1>6. k <= bs[i].size
  BY <1>3, <1>4, SMTT(60)
<1>7. Room(bs, w.ptr, k)
  BY <1>2, <1>4, <1>6 DEF Room
<1>8. \A a \in Bytes(w.ptr, k) : m[a] = w.val
  <2>1. Bytes(w.ptr, k) \subseteq Bytes(w.ptr, w.size)
    BY <1>4, <1>5, BytesIs
  <2> QED
    BY <1>1, <2>1 DEF HeapOK, MemOK
<1>9. Rewrites(m, m, w.ptr, w.ptr + k - 1)
  BY DEF Rewrites
<1>10. HeapOK(l, Pages(bs), m, V, stk)
  <2>1. k <= k
    BY SMTT(60)
  <2>2. HeapOK(s.pages, Pages(s.blocks), m, (W \ {w}) \cup {Grant(w.ptr, k, w.val)}, stk)
    <3> DEFINE v == w.val
               ptr == w.ptr
    <3> HIDE DEF m
    <3>1. Rewrites(s.mem, m, w.ptr, w.ptr + k - 1) /\ Room(s.blocks, w.ptr, k)
      BY <1>7, <1>9 DEF m
    <3>2. \A a \in Bytes(w.ptr, k) : m[a] = v
      BY <1>8
    <3> HIDE DEF v
    <3>3. HeapOK(s.pages, Pages(s.blocks), m, (W \ {w}) \cup {Grant(w.ptr, k, v)}, stk)
      BY <2>1, <3>1, <3>2, StoreKeeps
    <3> QED
      BY <3>3 DEF v
  <2> QED
    BY <2>2
<1>11. StateOK(s, V, stk)
  BY <1>1, <1>10 DEF StateOK
<1>12. Fresh(W \ {w}, w.ptr)
  BY <1>1 DEF Fresh, HeapOK, GrantsOK
<1> QED
  BY <1>5, <1>11, <1>12

\* A block that keeps its place keeps what its caller stored, up to the new size.
LEMMA KeepHands ==
  ASSUME NEW s, NEW W, NEW stk, StateOK(s, W, stk), NEW w \in W, NEW asked \in Nat,
         NEW size \in Nat, Aligned(size), asked <= size,
         size <= s.blocks[IndexOf(s.blocks, w.ptr)].size,
         NEW k \in Nat, k <= w.size, k <= asked
  PROVE  LET r == Keep(s, w.ptr, size)
         IN  Handed(r.s, r.ptr, k, asked, w.val, W \ {w}, stk)
<1> DEFINE g == Grant(w.ptr, k, w.val)
           U == W \ {w}
           V == U \cup {g}
           v == w.val
           ptr == w.ptr
           r == Keep(s, ptr, size)
<1>1. StateOK(s, V, stk) /\ Fresh(U, ptr) /\ ptr \in Nat \ {0}
  BY ShrinkKeeps
<1>2. g \in V /\ g.ptr = ptr /\ g.size = k
  BY DEF Grant
<1>3. size <= s.blocks[IndexOf(s.blocks, g.ptr)].size /\ g.size <= size
  <2>1. k <= size
    BY SMTT(60)
  <2> QED
    BY <1>2, <2>1
<1> HIDE DEF g, V, U, v, ptr
<1>4. r.ptr = ptr /\ StateOK(r.s, V, stk) /\ Room(r.s.blocks, ptr, size)
  <2>1. LET x == Keep(s, g.ptr, size)
        IN  x.ptr = g.ptr /\ StateOK(x.s, V, stk) /\ Room(x.s.blocks, g.ptr, size)
    BY <1>1, <1>2, <1>3, KeepKeeps
  <2> QED
    BY <1>2, <2>1
<1> HIDE DEF r
<1>5. Room(r.s.blocks, ptr, asked)
  BY <1>4, RoomIs
<1>6. StateOK(r.s, U \cup {Grant(ptr, k, v)}, stk)
  BY <1>4 DEF V, g, ptr, v
<1>7. Handed(r.s, ptr, k, asked, v, U, stk)
  BY <1>1, <1>5, <1>6, GrantFills
<1> QED
  BY <1>4, <1>7 DEF r, ptr, v, U

\* The blocks kfree leaves; it stores nothing.
FreedBlocks(bs, ptr) ==
  LET i == IndexOf(bs, ptr) IN heap_block_coalesce([bs EXCEPT ![i].is_free = TRUE], i)

\* kfree changes the list and neither the pages nor a byte.
LEMMA FreeIs ==
  ASSUME NEW l, NEW bs, NEW m, NEW ptr
  PROVE  kfree([pages |-> l, blocks |-> bs, mem |-> m], ptr)
           = [pages |-> l, blocks |-> FreedBlocks(bs, ptr), mem |-> m]
<1> DEFINE s == [pages |-> l, blocks |-> bs, mem |-> m]
           c == FreedBlocks(bs, ptr)
<1>1. IsState(s) /\ s.pages = l /\ s.blocks = bs /\ s.mem = m
  BY DEF IsState
<1> HIDE DEF s
<1>2. kfree(s, ptr) = [s EXCEPT !.blocks = c]
  BY <1>1 DEF kfree, FreedBlocks
<1> HIDE DEF c
<1> QED
  BY <1>1, <1>2, StateIs DEF s, c

\* memcpy to the room of a new block.
LEMMA CopyIs ==
  ASSUME NEW m, NEW dst, NEW src, NEW n
  PROVE  /\ DOMAIN Copy(m, dst, src, n) = DOMAIN m
         /\ \A a \in DOMAIN m : Copy(m, dst, src, n)[a]
                                 = IF a \in Bytes(dst, n) THEN m[src + a - dst] ELSE m[a]
BY DEF Copy


\* n bytes at a hold v; they are memory.
AllAre(m, a, n, v) == \A x \in Bytes(a, n) : m[x] = v
InMemory(m, a, n) == Bytes(a, n) \subseteq DOMAIN m

\* What a moved block holds once its caller has filled the rest of it.
Moved(m, dst, src, n, k, asked, v) == Fill(Copy(m, dst, src, n), dst + k, asked - k, v)

\* krealloc's move writes in the new block only, and the contents come along.
LEMMA MovedBytes ==
  ASSUME NEW m, NEW dst \in Nat, NEW src \in Nat, NEW n \in Nat, NEW k \in Nat, NEW asked \in Nat,
         NEW size \in Nat, k <= n, k <= asked, n <= size, asked <= size, NEW v,
         InMemory(m, dst, size), AllAre(m, src, k, v)
  PROVE  LET full == Moved(m, dst, src, n, k, asked, v)
         IN  Rewrites(m, full, dst, dst + size - 1) /\ AllAre(full, dst, asked, v)
<1> DEFINE c == Copy(m, dst, src, n)
           full == Fill(c, dst + k, asked - k, v)
<1>1. /\ DOMAIN c = DOMAIN m
      /\ \A a \in DOMAIN m : c[a] = IF a \in Bytes(dst, n) THEN m[src + a - dst] ELSE m[a]
  BY CopyIs, SMTT(60)
<1> HIDE DEF c
<1>2. /\ DOMAIN full = DOMAIN m
      /\ \A a \in DOMAIN m : full[a] = IF a \in Bytes(dst + k, asked - k) THEN v ELSE c[a]
  BY <1>1, FillIs, SMTT(60)
<1> HIDE DEF full
<1>3. /\ Bytes(dst, n) \subseteq Bytes(dst, size) /\ Bytes(dst, asked) \subseteq Bytes(dst, size)
      /\ Bytes(dst, size) = dst..(dst + size - 1)
  BY BytesIs
<1>4. /\ Bytes(dst + k, asked - k) \subseteq Bytes(dst, asked)
      /\ \A a \in Bytes(dst, asked) : a \in Bytes(dst + k, asked - k) \/ a \in Bytes(dst, k)
      /\ Bytes(dst, k) \subseteq Bytes(dst, n)
  BY BytesIs
<1>5. Rewrites(m, full, dst, dst + size - 1)
  <2>1. \A a \in DOMAIN m : a \notin Bytes(dst, size) => full[a] = m[a]
    BY <1>1, <1>2, <1>3, <1>4
  <2> QED
    BY <1>2, <1>3, <2>1 DEF Rewrites
<1>6. \A a \in Bytes(dst, k) : src + a - dst \in Bytes(src, k)
  BY SMTT(60) DEF Bytes
<1>7. \A a \in Bytes(dst, k) : c[a] = v
  BY <1>1, <1>3, <1>4, <1>6 DEF AllAre, InMemory
<1>8. \A a \in Bytes(dst, asked) : full[a] = v
  BY <1>2, <1>3, <1>4, <1>7 DEF InMemory
<1> QED
  BY <1>5, <1>8 DEF full, c, Moved, AllAre

\* krealloc's move: refused, or a new block with the old contents, and the old
\* one is free.
LEMMA MoveHands ==
  ASSUME NEW s, NEW W, NEW stk, StateOK(s, W, stk), NEW w \in W, NEW asked \in Nat,
         NEW size \in Nat, asked <= size, s.blocks[IndexOf(s.blocks, w.ptr)].size <= size,
         NEW k \in Nat, k <= w.size, k <= asked
  PROVE  LET r == MoveBlock(s, w.ptr, size)
         IN  r = Result(0, s) \/ Handed(r.s, r.ptr, k, asked, w.val, W \ {w}, stk)
<1> DEFINE q == kmalloc(s, size)
           src == w.ptr
           v == w.val
           i == IndexOf(s.blocks, src)
           n == s.blocks[i].size
           r == MoveBlock(s, src, size)
<1>1. PICK p, t : q = Result(p, t)
  BY MallocIs
<1>2. q.ptr = p /\ q.s = t
  BY <1>1, SMTT(60) DEF Result
<1>3. q = Result(0, s) \/ Got(t, p, size, W, stk)
  BY <1>2, MallocKeeps
<1>4. r = IF q.ptr = 0 THEN q
          ELSE Result(q.ptr, kfree([q.s EXCEPT !.mem = Copy(q.s.mem, q.ptr, src, n)], src))
  BY DEF MoveBlock
<1>5. n \in Nat /\ n <= size /\ k <= n /\ src \in Nat
  <2>1. Holds(s.blocks[i], w) /\ s.blocks[i] \in Block
    BY IndexOfIs DEF StateOK
  <2>2. w.size \in Nat /\ w.size <= n /\ src = s.blocks[i].addr + HEAP_HEADER_SIZE
    BY <2>1 DEF Holds
  <2>3. n \in Nat /\ s.blocks[i].addr \in Nat /\ HEAP_HEADER_SIZE \in Nat
    BY <2>1, BlockIs, HeaderIs
  <2> HIDE DEF n
  <2>4. k <= n
    BY <2>2, <2>3, SMTT(60)
  <2> QED
    BY <2>2, <2>3, <2>4, SMTT(60) DEF n
<1> HIDE DEF q, r, n, i
<1>6. CASE q = Result(0, s)
  <2>1. q.ptr = 0
    BY <1>6 DEF Result
  <2> QED
    BY <1>4, <1>6, <2>1 DEF r
<1>7. CASE Got(t, p, size, W, stk)
  <2> DEFINE c == Copy(t.mem, p, src, n)
             full == Fill(c, p + k, asked - k, v)
             g0 == Grant(p, 0, v)
             g1 == Grant(p, asked, v)
             V == W \cup {g0}
             G == W \cup {g1}
             l == t.pages
             bs == t.blocks
  <2>1. p \in Nat \ {0} /\ Fresh(W, p) /\ Room(bs, p, size) /\ StateOK(t, V, stk)
    BY <1>7 DEF Got
  <2>2. g0.ptr = p /\ g1.ptr = p
    BY DEF Grant
  <2>3. V \ {g0} = W /\ G \ {w} = (W \ {w}) \cup {g1} /\ w \in G
    BY <2>1, <2>2 DEF Fresh
  <2>4. Bytes(p, size) \subseteq DOMAIN t.mem
    BY <2>1, RoomIs
  <2>5. \A a \in Bytes(src, k) : t.mem[a] = v
    <3>1. w.size \in Nat /\ src \in Nat /\ Bytes(src, k) \subseteq Bytes(src, w.size)
      <4>1. w.size \in Nat
        BY DEF StateOK, HeapOK, GrantsOK, Held, Holds
      <4> QED
        BY <1>5, <4>1, BytesIs
    <3>2. \A a \in Bytes(w.ptr, w.size) : t.mem[a] = w.val
      BY <2>1 DEF StateOK, HeapOK, MemOK
    <3> QED
      BY <3>1, <3>2
  <2> HIDE DEF v, src
  <2>6. Rewrites(t.mem, full, p, p + size - 1) /\ \A a \in Bytes(p, asked) : full[a] = v
    <3> DEFINE mm == t.mem
    <3>1. InMemory(mm, p, size) /\ AllAre(mm, src, k, v)
      BY <2>4, <2>5 DEF InMemory, AllAre
    <3>2. p \in Nat /\ src \in Nat /\ n \in Nat /\ k <= n /\ k <= asked /\ n <= size /\ asked <= size
      BY <1>5, <2>1
    <3> HIDE DEF mm
    <3>3. LET f == Moved(mm, p, src, n, k, asked, v)
          IN  Rewrites(mm, f, p, p + size - 1) /\ AllAre(f, p, asked, v)
      BY <3>1, <3>2, MovedBytes
    <3> QED
      BY <3>3 DEF mm, Moved, AllAre
  <2>7. r = Result(p, kfree([pages |-> l, blocks |-> bs, mem |-> c], src))
    <3>1. r = Result(p, kfree([t EXCEPT !.mem = c], src))
      BY <1>2, <1>4, <2>1
    <3> HIDE DEF c
    <3>2. [t EXCEPT !.mem = c] = [pages |-> l, blocks |-> bs, mem |-> c]
      BY <2>1, StateIs DEF StateOK
    <3> QED
      BY <3>1, <3>2
  <2> HIDE DEF full
  <2>8. HeapOK(l, Pages(bs), full, G, stk)
    <3> HIDE DEF V, g0
    <3>1. g0 \in V
      BY DEF V
    <3>2. Room(t.blocks, g0.ptr, size) /\ Rewrites(t.mem, full, g0.ptr, g0.ptr + size - 1)
          /\ \A a \in Bytes(g0.ptr, asked) : full[a] = v
      BY <2>1, <2>2, <2>6
    <3>3. HeapOK(t.pages, Pages(t.blocks), full, (V \ {g0}) \cup {Grant(g0.ptr, asked, v)}, stk)
      BY <2>1, <3>1, <3>2, StoreKeeps
    <3> QED
      BY <2>2, <2>3, <3>3
  <2> HIDE DEF l, bs, c, g1
  <2>9. List(bs)
    BY <2>1 DEF StateOK, bs
  <2> DEFINE d == FreedBlocks(bs, src)
             x == [pages |-> l, blocks |-> d, mem |-> full]
  <2>10. StateOK(x, G \ {w}, stk)
    <3> DEFINE y == [pages |-> l, blocks |-> bs, mem |-> full]
    <3>1. StateOK(y, G, stk)
      BY <2>8, <2>9, MakeState
    <3>2. kfree(y, src) = x
      BY FreeIs
    <3> HIDE DEF y, x, G
    <3>3. StateOK(kfree(y, w.ptr), G \ {w}, stk)
      BY <2>3, <3>1, FreeKeeps
    <3> QED
      BY <3>2, <3>3 DEF src
  <2>11. r.ptr = p /\ r.s = [pages |-> l, blocks |-> d, mem |-> c]
    <3>1. kfree([pages |-> l, blocks |-> bs, mem |-> c], src)
            = [pages |-> l, blocks |-> d, mem |-> c]
      BY FreeIs
    <3> HIDE DEF d
    <3> QED
      BY <2>7, <3>1 DEF Result
  <2> HIDE DEF d
  <2>12. List(d) /\ HeapOK(l, Pages(d), full, (W \ {w}) \cup {g1}, stk)
    BY <2>3, <2>10 DEF StateOK
  <2>13. IsState(r.s) /\ r.s.pages = l /\ r.s.blocks = d /\ r.s.mem = c
    BY <2>11, SMTT(60) DEF IsState
  <2>14. Fresh(W \ {w}, p)
    BY <2>1 DEF Fresh
  <2>15. Handed(r.s, p, k, asked, v, W \ {w}, stk)
    BY <2>1, <2>12, <2>13, <2>14 DEF Handed, full, g1
  <2> QED
    BY <2>11, <2>15 DEF r, v, src
<1> QED
  BY <1>3, <1>6, <1>7


\* What krealloc of a live block leads to: refused with the caller's block as it
\* was, freed when no bytes were asked for, or the contents up to the smaller
\* of the sizes in a block of the caller's own.
Reallocated(r, w, asked, k, W, stk) ==
  \/ r.ptr = 0 /\ asked # 0 /\ StateOK(r.s, W, stk)
  \/ r.ptr = 0 /\ asked = 0 /\ StateOK(r.s, W \ {w}, stk)
  \/ asked # 0 /\ Handed(r.s, r.ptr, k, asked, w.val, W \ {w}, stk)

\* krealloc of a live block, through each of its five ways out.
LEMMA ReallocKeeps ==
  ASSUME NEW s, NEW W, NEW stk, StateOK(s, W, stk), NEW w \in W, NEW asked \in Nat,
         NEW k \in Nat, k <= w.size, k <= asked
  PROVE  Reallocated(krealloc(s, w.ptr, asked), w, asked, k, W, stk)
<1> DEFINE ptr == w.ptr
           size == HEAP_ALIGN_UP(asked)
           i == IndexOf(s.blocks, ptr)
           grown == [s EXCEPT !.blocks = heap_block_coalesce(@, i)]
           r == krealloc(s, ptr, asked)
<1>1. r = IF asked > SIZE_MAX - (HEAP_ALIGNMENT - 1) THEN Result(0, s)
          ELSE IF ptr = 0 THEN kmalloc(s, asked)
          ELSE IF asked = 0 THEN Result(0, kfree(s, ptr))
          ELSE IF size <= s.blocks[i].size THEN Keep(s, ptr, size)
          ELSE IF size <= grown.blocks[i].size THEN Keep(grown, ptr, size)
          ELSE MoveBlock(grown, ptr, size)
  BY DEF krealloc
<1>2. ptr \in Nat \ {0}
  BY ShrinkKeeps
<1>3. /\ StateOK(grown, W, stk) /\ grown.blocks[IndexOf(grown.blocks, ptr)] = grown.blocks[i]
  BY GrowKeeps
<1>4. \A t, u : Result(t, u).ptr = t /\ Result(t, u).s = u
  BY DEF Result
<1>5. /\ s.blocks[i].size \in Nat
      /\ grown.blocks[IndexOf(grown.blocks, ptr)].size \in Nat
  <2>1. s.blocks[i] \in Block
    BY IndexOfIs DEF StateOK
  <2> HIDE DEF grown
  <2>2. grown.blocks[IndexOf(grown.blocks, ptr)] \in Block
    BY <1>3, IndexOfIs DEF StateOK
  <2> QED
    BY <2>1, <2>2, BlockIs
<1> HIDE DEF grown, r
<1>6. CASE asked > SIZE_MAX - (HEAP_ALIGNMENT - 1)
  <2>1. r = Result(0, s)
    BY <1>1, <1>6
  <2>2. asked # 0
    <3>1. SIZE_MAX - (HEAP_ALIGNMENT - 1) >= 0
      BY HeapAssumption, SMTT(60)
    <3>2. SIZE_MAX - (HEAP_ALIGNMENT - 1) \in Int
      BY HeaderIs, SMTT(60)
    <3> QED
      BY <1>6, <3>1, <3>2, SMTT(60)
  <2> QED
    BY <1>4, <2>1, <2>2 DEF Reallocated, r
<1>7. CASE ~(asked > SIZE_MAX - (HEAP_ALIGNMENT - 1)) /\ asked = 0
  <2>1. r = Result(0, kfree(s, ptr))
    BY <1>1, <1>2, <1>7
  <2>2. StateOK(kfree(s, w.ptr), W \ {w}, stk)
    BY FreeKeeps
  <2> QED
    BY <1>4, <1>7, <2>1, <2>2, SMTT(60) DEF Reallocated, r
<1>8. CASE ~(asked > SIZE_MAX - (HEAP_ALIGNMENT - 1)) /\ asked # 0
  <2>1. size \in Nat /\ Aligned(size) /\ asked <= size
    <3>1. asked + (HEAP_ALIGNMENT - 1) <= SIZE_MAX
      BY <1>8, HeaderIs, SMTT(60)
    <3> QED
      BY <3>1, AlignUpIs
  <2>2. r = IF size <= s.blocks[i].size THEN Keep(s, ptr, size)
            ELSE IF size <= grown.blocks[i].size THEN Keep(grown, ptr, size)
            ELSE MoveBlock(grown, ptr, size)
    BY <1>1, <1>2, <1>8
  <2> HIDE DEF size
  <2>3. CASE size <= s.blocks[i].size
    <3>1. LET x == Keep(s, w.ptr, size) IN Handed(x.s, x.ptr, k, asked, w.val, W \ {w}, stk)
      BY <2>1, <2>3, KeepHands
    <3> QED
      BY <1>8, <2>2, <2>3, <3>1 DEF Reallocated, r
  <2>4. CASE ~(size <= s.blocks[i].size) /\ size <= grown.blocks[i].size
    <3>1. size <= grown.blocks[IndexOf(grown.blocks, w.ptr)].size
      BY <1>3, <2>4
    <3>2. LET x == Keep(grown, w.ptr, size) IN Handed(x.s, x.ptr, k, asked, w.val, W \ {w}, stk)
      BY <1>3, <2>1, <3>1, KeepHands
    <3> QED
      BY <1>8, <2>2, <2>4, <3>2 DEF Reallocated, r
  <2>5. CASE ~(size <= s.blocks[i].size) /\ ~(size <= grown.blocks[i].size)
    <3>1. grown.blocks[IndexOf(grown.blocks, w.ptr)].size <= size
      BY <1>3, <1>5, <2>1, <2>5, SMTT(60)
    <3>2. LET x == MoveBlock(grown, w.ptr, size)
          IN  x = Result(0, grown) \/ Handed(x.s, x.ptr, k, asked, w.val, W \ {w}, stk)
      BY <1>3, <2>1, <3>1, MoveHands
    <3>3. r = MoveBlock(grown, ptr, size)
      BY <2>2, <2>5
    <3>4. CASE r = Result(0, grown)
      BY <1>3, <1>4, <1>8, <3>4, SMTT(60) DEF Reallocated, r
    <3>5. CASE Handed(r.s, r.ptr, k, asked, w.val, W \ {w}, stk)
      BY <1>8, <3>5 DEF Reallocated, r
    <3> QED
      BY <3>2, <3>3, <3>4, <3>5
  <2> QED
    BY <2>3, <2>4, <2>5
<1> QED
  BY <1>6, <1>7, <1>8


-----------------------------------------------------------------------------
(***************************************************************************)
(* The callers.                                                             *)
(***************************************************************************)

\* What the callers hold, each its own.
Grants(own) == {own[id] : id \in Ids} \ {Idle}

Owners(own) ==
  /\ own = [id \in Ids |-> own[id]]
  /\ \A i, j \in Ids : own[i] = own[j] /\ own[i] # Idle => i = j

\* The invariant of the heap with its callers and the other user of pages.
HeapInv ==
  /\ Owners(live) /\ List(heap_block_list)
  /\ HeapOK(free_list, Pages(heap_block_list), mem, Grants(live), stacks)
  /\ held = stacks \cup HeapPages(heap_block_list)

\* A page holds its bytes and no others.
LEMMA PageIs ==
  ASSUME NEW p \in Nat
  PROVE  /\ pmm_phys_to_virt(p) \in Nat /\ PAGE_SIZE \in Nat \ {0}
         /\ pmm_phys_to_virt(p + 1) = pmm_phys_to_virt(p) + PAGE_SIZE
         /\ PageBytes({p}) = Bytes(pmm_phys_to_virt(p), PAGE_SIZE)
         /\ Bytes(pmm_phys_to_virt(p), PAGE_SIZE)
              = pmm_phys_to_virt(p)..(pmm_phys_to_virt(p + 1) - 1)
<1>1. pmm_phys_to_virt(p) \in Nat /\ PAGE_SIZE \in Nat \ {0} /\ HHDM_OFFSET \in Nat
  BY PagesAligned, HeaderIs
<1>2. pmm_phys_to_virt(p + 1) = pmm_phys_to_virt(p) + PAGE_SIZE
  <2>1. (p + 1) * PAGE_SIZE = p * PAGE_SIZE + 1 * PAGE_SIZE /\ p * PAGE_SIZE \in Nat
    BY <1>1, TimesKeepsOrder, SMTT(60)
  <2>2. 1 * PAGE_SIZE = PAGE_SIZE
    BY <1>1, SMTT(60)
  <2> QED
    BY <1>1, <2>1, <2>2, SMTT(60) DEF pmm_phys_to_virt
<1>3. PageBytes({p}) = Bytes(pmm_phys_to_virt(p), PAGE_SIZE)
  BY DEF PageBytes
<1> QED
  BY <1>1, <1>2, <1>3, SMTT(60) DEF Bytes

\* The pages the blocks lie in are those neither on the free list nor with the
\* other user.
LEMMA HeapPagesIs ==
  ASSUME NEW l, NEW bs, NEW stk, List(bs), BlocksOK(Pages(bs)), PoolOK(l, Pages(bs), stk)
  PROVE  HeapPages(bs) = UsablePages \ (Pages(l) \cup stk)
<1> DEFINE B == Pages(bs)
           Q == UsablePages \ (Pages(l) \cup stk)
<1>1. Cover(B) = PageBytes(Q) /\ Q \subseteq Nat /\ UsablePages \subseteq Nat
  BY UsableAreNat DEF PoolOK
<1>2. ASSUME NEW p \in Q PROVE p \in HeapPages(bs)
  <2> DEFINE x == pmm_phys_to_virt(p)
  <2>1. p \in Nat /\ x \in Nat /\ PAGE_SIZE \in Nat \ {0} /\ pmm_phys_to_virt(p + 1) = x + PAGE_SIZE
    BY <1>1, PageIs
  <2>2. x \in Bytes(x, PAGE_SIZE)
    BY <2>1, SMTT(60) DEF Bytes
  <2>3. x \in Cover(B)
    BY <1>1, <2>2 DEF PageBytes
  <2>4. PICK b \in B : x \in Span(b)
    BY <2>3 DEF Cover
  <2>5. b.addr \in Nat /\ BlockEnd(b) \in Nat
    BY BlockIs DEF BlocksOK
  <2>6. b.addr < pmm_phys_to_virt(p + 1) /\ x < BlockEnd(b)
    <3> HIDE DEF x
    <3> QED
      BY <2>1, <2>4, <2>5, SMTT(60) DEF Span
  <2> QED
    BY <2>6 DEF HeapPages, Pages
<1>3. ASSUME NEW p \in HeapPages(bs), p \notin Q PROVE FALSE
  <2> DEFINE x == pmm_phys_to_virt(p)
             y == pmm_phys_to_virt(p + 1)
  <2>1. PICK i \in 1..Len(bs) : bs[i].addr < y /\ x < BlockEnd(bs[i])
    BY DEF HeapPages
  <2> DEFINE b == bs[i]
  <2>2. p \in Nat /\ b \in B
    BY <1>1 DEF HeapPages, Pages
  <2>3. x \in Nat /\ PAGE_SIZE \in Nat \ {0} /\ y = x + PAGE_SIZE /\ PageBytes({p}) = x..(y - 1)
    BY <2>2, PageIs
  <2>4. b.addr \in Nat /\ BlockEnd(b) \in Nat /\ b.addr < BlockEnd(b)
    BY <2>2, BlockIs DEF BlocksOK
  <2>5. b.addr < y /\ x < BlockEnd(b)
    BY <2>1
  <2> HIDE DEF x, y, b, Q, B
  <2>6. PICK a \in Nat : a \in Span(b) /\ a \in x..(y - 1)
    <3> DEFINE a == IF b.addr < x THEN x ELSE b.addr
    <3>1. a \in Nat /\ a \in b.addr..(BlockEnd(b) - 1) /\ a \in x..(y - 1)
      BY <2>3, <2>4, <2>5, SMTT(60)
    <3> QED
      BY <3>1 DEF Span
  <2>7. a \in PageBytes(Q)
    BY <1>1, <2>2, <2>6 DEF Cover
  <2>8. PageBytes({p}) \cap PageBytes(Q) = {}
    BY <1>1, <1>3, <2>2, PageBytesApart
  <2> QED
    BY <2>3, <2>6, <2>7, <2>8
<1> QED
  BY <1>2, <1>3

\* x may become the entry of caller id.
MayHold(own, id, x) == x = Idle \/ Fresh(Grants(own) \ {own[id]}, x.ptr)

\* A caller's entry changes, and nobody else's.
LEMMA LiveMoves ==
  ASSUME NEW own, Owners(own), NEW id \in Ids, NEW x, MayHold(own, id, x)
  PROVE  LET new == [own EXCEPT ![id] = x]
         IN  /\ Owners(new) /\ new[id] = x
             /\ Grants(new) = (Grants(own) \ {own[id]}) \cup ({x} \ {Idle})
<1> DEFINE new == [own EXCEPT ![id] = x]
<1>1. new = [j \in Ids |-> IF j = id THEN x ELSE own[j]]
  BY DEF Owners
<1> HIDE DEF new
<1>2. new[id] = x /\ \A j \in Ids : j # id => new[j] = own[j]
  BY <1>1
<1>3. \A j \in Ids : j # id /\ own[j] # Idle => own[j] \in Grants(own) \ {own[id]}
  BY DEF Owners, Grants
<1>4. \A j \in Ids : j # id /\ own[j] # Idle /\ x # Idle => own[j] # x
  BY <1>3 DEF Fresh, MayHold
<1>5. Owners(new)
  <2>1. new = [j \in Ids |-> new[j]]
    BY <1>1
  <2>2. \A i, j \in Ids : new[i] = new[j] /\ new[i] # Idle => i = j
    BY <1>2, <1>4 DEF Owners
  <2> QED
    BY <2>1, <2>2 DEF Owners
<1>6. Grants(new) = (Grants(own) \ {own[id]}) \cup ({x} \ {Idle})
  <2>1. ASSUME NEW w \in Grants(new) PROVE w \in (Grants(own) \ {own[id]}) \cup ({x} \ {Idle})
    BY <1>2, <1>3 DEF Grants
  <2>2. ASSUME NEW w \in Grants(own) \ {own[id]} PROVE w \in Grants(new)
    <3>1. PICK j \in Ids : w = own[j] /\ own[j] # Idle /\ j # id
      BY DEF Grants
    <3> QED
      BY <1>2, <3>1 DEF Grants
  <2>3. ASSUME NEW w \in {x} \ {Idle} PROVE w \in Grants(new)
    BY <1>2 DEF Grants
  <2> QED
    BY <2>1, <2>2, <2>3
<1> QED
  BY <1>2, <1>5, <1>6 DEF new


\* Forgetting what nobody owns keeps the heap.
LEMMA OwnedKeeps ==
  ASSUME NEW l, NEW bs, NEW m, NEW own, NEW stk,
         HeapOK(l, Pages(bs), m, Grants(own), stk)
  PROVE  HeapOK(l, Pages(bs), Owned(m, bs, own, stk), Grants(own), stk)
<1> DEFINE kept == (UNION {Bytes(b.addr, SIZEOF_BLOCK) : b \in Pages(bs)})
                     \cup (UNION {Bytes(own[id].ptr, own[id].size) : id \in Ids})
                     \cup (UNION {Bytes(pmm_phys_to_virt(p), PAGE_SIZE) : p \in stk})
           m2 == Owned(m, bs, own, stk)
           B == Pages(bs)
<1>1. m2 = [a \in DOMAIN m |-> IF a \in kept THEN m[a] ELSE "junk"]
  BY DEF Owned
<1>2. \A b \in B : Bytes(b.addr, SIZEOF_BLOCK) \subseteq kept
  OBVIOUS
<1>3. \A w \in Grants(own) : Bytes(w.ptr, w.size) \subseteq kept
  BY DEF Grants
<1>4. PageBytes(stk) \subseteq kept
  BY DEF PageBytes
<1> HIDE DEF kept, m2, B
<1>5. DOMAIN m2 = DOMAIN m /\ \A a \in DOMAIN m : a \in kept => m2[a] = m[a]
  BY <1>1
<1>6. HeapOK(l, B, m, Grants(own), stk)
  BY DEF B
<1> DEFINE W == Grants(own)
<1> HIDE DEF W
<1>7. HeapOK(l, B, m2, W, stk)
  BY <1>2, <1>3, <1>4, <1>5, <1>6, Forget DEF W
<1> QED
  BY <1>7 DEF B, m2, W

\* The state a heap call starts from.
LEMMA StateHolds ==
  ASSUME HeapInv
  PROVE  StateOK(State, Grants(live), stacks)
BY MakeState DEF HeapInv, State

\* The call handed out a block, and its caller owns it.
LEMMA CommitHands ==
  ASSUME HeapInv, NEW id \in Ids, NEW r, NEW n \in Nat, NEW v, NEW k \in Nat, Commit(id, r, n, v, k),
         Handed(r.s, r.ptr, k, n, v, Grants(live) \ {live[id]}, stacks)
  PROVE  HeapInv'
<1> DEFINE x == Grant(r.ptr, n, v)
           s == r.s
           W == Grants(live) \ {live[id]}
           m == Fill(s.mem, r.ptr + k, n - k, v)
<1>1. /\ r.ptr \in Nat \ {0} /\ Fresh(W, r.ptr) /\ List(s.blocks)
      /\ HeapOK(s.pages, Pages(s.blocks), m, W \cup {x}, stacks)
  BY DEF Handed
<1>2. x # Idle /\ x.ptr = r.ptr
  <2>1. x.ptr = r.ptr /\ Idle.ptr = 0
    BY DEF Grant, Idle
  <2> QED
    BY <1>1, <2>1
<1>3. /\ free_list' = s.pages /\ heap_block_list' = s.blocks
      /\ held' = stacks \cup HeapPages(s.blocks) /\ live' = [live EXCEPT ![id] = x]
      /\ mem' = Owned(m, s.blocks, live', stacks) /\ stacks' = stacks
  BY <1>1 DEF Commit, Grant
<1> HIDE DEF x, s, m
<1>4. Owners(live') /\ Grants(live') = W \cup {x}
  <2>1. Owners(live)
    BY DEF HeapInv
  <2>2. {x} \ {Idle} = {x}
    BY <1>2
  <2> QED
    <3>1. MayHold(live, id, x)
      BY <1>1, <1>2 DEF MayHold
    <3>2. LET new == [live EXCEPT ![id] = x]
          IN  /\ Owners(new)
              /\ Grants(new) = (Grants(live) \ {live[id]}) \cup ({x} \ {Idle})
      BY <2>1, <3>1, LiveMoves
    <3> QED
      BY <1>3, <2>2, <3>2
<1> HIDE DEF W
<1>5. HeapOK(s.pages, Pages(s.blocks), m, Grants(live'), stacks)
  BY <1>1, <1>4
<1>6. HeapOK(s.pages, Pages(s.blocks), mem', Grants(live'), stacks)
  BY <1>3, <1>5, OwnedKeeps
<1> QED
  BY <1>1, <1>3, <1>4, <1>6 DEF HeapInv

\* The call left its caller without a block.
LEMMA CommitFrees ==
  ASSUME HeapInv, NEW id \in Ids, NEW r, NEW n, NEW v, NEW k, Commit(id, r, n, v, k), r.ptr = 0,
         StateOK(r.s, Grants(live) \ {live[id]}, stacks)
  PROVE  HeapInv'
<1> DEFINE s == r.s
           W == Grants(live) \ {live[id]}
<1>1. List(s.blocks) /\ HeapOK(s.pages, Pages(s.blocks), s.mem, W, stacks)
  BY DEF StateOK
<1>2. /\ free_list' = s.pages /\ heap_block_list' = s.blocks
      /\ held' = stacks \cup HeapPages(s.blocks) /\ live' = [live EXCEPT ![id] = Idle]
      /\ mem' = Owned(s.mem, s.blocks, live', stacks) /\ stacks' = stacks
  BY DEF Commit
<1> HIDE DEF s
<1>3. Owners(live') /\ Grants(live') = W
  <2>1. Owners(live)
    BY DEF HeapInv
  <2>2. W \cup ({Idle} \ {Idle}) = W
    OBVIOUS
  <2> QED
    <3>1. MayHold(live, id, Idle)
      BY DEF MayHold
    <3>2. LET new == [live EXCEPT ![id] = Idle]
          IN  /\ Owners(new)
              /\ Grants(new) = (Grants(live) \ {live[id]}) \cup ({Idle} \ {Idle})
      BY <2>1, <3>1, LiveMoves
    <3> QED
      BY <1>2, <2>2, <3>2
<1> HIDE DEF W
<1>4. HeapOK(s.pages, Pages(s.blocks), s.mem, Grants(live'), stacks)
  BY <1>1, <1>3
<1>5. HeapOK(s.pages, Pages(s.blocks), mem', Grants(live'), stacks)
  <2> DEFINE m == s.mem
             l == s.pages
  <2> HIDE DEF m, l
  <2>1. HeapOK(l, Pages(s.blocks), m, Grants(live'), stacks)
    BY <1>4 DEF m, l
  <2>2. HeapOK(l, Pages(s.blocks), Owned(m, s.blocks, live', stacks), Grants(live'), stacks)
    BY <2>1, OwnedKeeps
  <2> QED
    BY <1>2, <2>2 DEF m, l
<1> QED
  BY <1>1, <1>2, <1>3, <1>5 DEF HeapInv

\* An idle caller has nothing.
LEMMA IdleIs ==
  ASSUME NEW own, NEW id \in Ids
  PROVE  /\ own[id] = Idle => Grants(own) \ {own[id]} = Grants(own)
         /\ own[id] # Idle => own[id] \in Grants(own)
BY DEF Grants

\* kmalloc's caller.
LEMMA KmallocKeeps ==
  ASSUME HeapInv, NEW id \in Ids, NEW size \in Nat, Kmalloc(id, size)
  PROVE  HeapInv'
<1> DEFINE W == Grants(live)
           s == State
           r == kmalloc(s, size)
<1>1. live[id] = Idle /\ Commit(id, r, size, id, 0)
  BY DEF Kmalloc
<1>2. W \ {live[id]} = W /\ StateOK(s, W, stacks)
  BY <1>1, IdleIs, StateHolds
<1> HIDE DEF s, W
<1>3. r = Result(0, s) \/ Got(r.s, r.ptr, size, W, stacks)
  BY <1>2, MallocKeeps
<1> HIDE DEF r
<1>4. CASE r = Result(0, s)
  <2>1. r.ptr = 0 /\ r.s = s
    BY <1>4 DEF Result
  <2> QED
    BY <1>1, <1>2, <2>1, CommitFrees DEF W
<1>5. CASE Got(r.s, r.ptr, size, W, stacks)
  <2> DEFINE t == r.s
             p == r.ptr
  <2> HIDE DEF t, p
  <2>1. /\ p \in Nat \ {0} /\ Fresh(W, p) /\ Room(t.blocks, p, size)
        /\ StateOK(t, W \cup {Grant(p, 0, id)}, stacks)
    BY <1>5 DEF Got, t, p
  <2>2. 0 \in Nat /\ 0 <= size
    BY SMTT(60)
  <2>3. Handed(t, p, 0, size, id, W, stacks)
    BY <2>1, <2>2, GrantFills
  <2> QED
    BY <1>1, <1>2, <2>2, <2>3, CommitHands DEF t, p, W
<1> QED
  BY <1>3, <1>4, <1>5

\* kcalloc's caller.
LEMMA KcallocKeeps ==
  ASSUME HeapInv, NEW id \in Ids, NEW num \in Nat, NEW size \in Nat, num <= SIZE_MAX,
         Kcalloc(id, num, size)
  PROVE  HeapInv'
<1> DEFINE W == Grants(live)
           s == State
           r == kcalloc(s, num, size)
           n == num * size
<1>1. live[id] = Idle /\ Commit(id, r, n, 0, n) /\ n \in Nat
  BY TimesKeepsOrder DEF Kcalloc
<1>2. W \ {live[id]} = W /\ StateOK(s, W, stacks)
  BY <1>1, IdleIs, StateHolds
<1> HIDE DEF s, W
<1>3. r = Result(0, s) \/ Handed(r.s, r.ptr, n, n, 0, W, stacks)
  BY <1>2, CallocKeeps
<1> HIDE DEF r, n
<1>4. CASE r = Result(0, s)
  <2>1. r.ptr = 0 /\ r.s = s
    BY <1>4 DEF Result
  <2> QED
    BY <1>1, <1>2, <2>1, CommitFrees DEF W
<1>5. CASE Handed(r.s, r.ptr, n, n, 0, W, stacks)
  BY <1>1, <1>2, <1>5, CommitHands DEF W
<1> QED
  BY <1>3, <1>4, <1>5


\* kfree's caller.
LEMMA KfreeKeeps ==
  ASSUME HeapInv, NEW id \in Ids, Kfree(id)
  PROVE  HeapInv'
<1> DEFINE W == Grants(live)
           s == State
           w == live[id]
           t == kfree(s, w.ptr)
           r == Result(0, t)
<1>1. w # Idle /\ Commit(id, r, 0, "junk", 0)
  BY DEF Kfree
<1>2. w \in W /\ StateOK(s, W, stacks)
  BY <1>1, IdleIs, StateHolds
<1> HIDE DEF s, W
<1>3. StateOK(t, W \ {w}, stacks)
  <2> HIDE DEF w
  <2> QED
    BY <1>2, FreeKeeps
<1> HIDE DEF t
<1>4. r.ptr = 0 /\ r.s = t
  BY DEF Result
<1> HIDE DEF r
<1> QED
  BY <1>1, <1>3, <1>4, CommitFrees DEF W

\* A refused krealloc: the caller still owns its block.
LEMMA RefusedKeeps ==
  ASSUME HeapInv, NEW s, StateOK(s, Grants(live), stacks), free_list' = s.pages,
         heap_block_list' = s.blocks, mem' = Owned(s.mem, s.blocks, live, stacks),
         held' = stacks \cup HeapPages(s.blocks), UNCHANGED <<live, stacks>>
  PROVE  HeapInv'
<1> DEFINE l == s.pages
           bs == s.blocks
           m == s.mem
<1>1. List(bs) /\ HeapOK(l, Pages(bs), m, Grants(live), stacks)
  BY DEF StateOK
<1> HIDE DEF l, bs, m
<1>2. HeapOK(l, Pages(bs), Owned(m, bs, live, stacks), Grants(live), stacks)
  BY <1>1, OwnedKeeps
<1>3. Owners(live)
  BY DEF HeapInv
<1> QED
  BY <1>1, <1>2, <1>3 DEF HeapInv, l, bs, m

\* krealloc's caller.
LEMMA KreallocKeeps ==
  ASSUME HeapInv, NEW id \in Ids, NEW size \in Nat, Krealloc(id, size)
  PROVE  HeapInv'
<1> DEFINE W == Grants(live)
           s == State
           own == live[id]
           r == krealloc(s, own.ptr, size)
           val == IF own = Idle THEN id ELSE own.val
           k == IF size < own.size THEN size ELSE own.size
<1>1. StateOK(s, W, stacks)
  BY StateHolds
<1>2. IF r.ptr = 0 /\ size # 0
      THEN /\ free_list' = r.s.pages /\ heap_block_list' = r.s.blocks
           /\ mem' = Owned(r.s.mem, r.s.blocks, live, stacks)
           /\ held' = stacks \cup HeapPages(r.s.blocks) /\ UNCHANGED <<live, stacks>>
      ELSE Commit(id, r, size, val, k)
  BY DEF Krealloc
<1> HIDE DEF s, W
<1>3. CASE own = Idle
  <2>1. own.ptr = 0 /\ own.size = 0 /\ val = id /\ W \ {own} = W
    BY <1>3, IdleIs, SMTT(60) DEF Idle, W
  <2>2. k = 0
    BY <2>1, SMTT(60)
  <2>3. r = Result(0, s) \/ r = kmalloc(s, size)
    BY <2>1 DEF krealloc
  <2> HIDE DEF r
  <2>4. r = Result(0, s) \/ Got(r.s, r.ptr, size, W, stacks)
    BY <1>1, <2>3, MallocKeeps
  <2>5. CASE r = Result(0, s)
    <3>1. r.ptr = 0 /\ r.s = s
      BY <2>5 DEF Result
    <3>2. CASE size # 0
      BY <1>1, <1>2, <3>1, <3>2, RefusedKeeps DEF W
    <3>3. CASE size = 0
      <4>1. Commit(id, r, size, val, k)
        BY <1>2, <3>3
      <4>2. StateOK(r.s, Grants(live) \ {live[id]}, stacks)
        BY <1>1, <2>1, <3>1 DEF W
      <4> HIDE DEF val, k
      <4> QED
        BY <3>1, <4>1, <4>2, CommitFrees
    <3> QED
      BY <3>2, <3>3
  <2>6. CASE Got(r.s, r.ptr, size, W, stacks)
    <3> DEFINE t == r.s
               p == r.ptr
    <3>1. /\ p \in Nat \ {0} /\ Fresh(W, p) /\ Room(t.blocks, p, size)
          /\ StateOK(t, W \cup {Grant(p, 0, id)}, stacks)
      BY <2>6 DEF Got
    <3>2. Commit(id, r, size, id, 0)
      BY <1>2, <2>1, <2>2, <3>1
    <3> HIDE DEF t, p
    <3>3. 0 \in Nat /\ 0 <= size
      BY SMTT(60)
    <3>4. Handed(t, p, 0, size, id, W, stacks)
      BY <3>1, <3>3, GrantFills
    <3>5. Handed(r.s, r.ptr, 0, size, id, Grants(live) \ {live[id]}, stacks)
      BY <2>1, <3>4 DEF t, p, W
    <3> QED
      BY <3>2, <3>3, <3>5, CommitHands
  <2> QED
    BY <2>4, <2>5, <2>6
<1>4. CASE own # Idle
  <2>1. own \in W /\ val = own.val
    BY <1>4, IdleIs DEF W
  <2>2. own.size \in Nat
    BY <1>1, <2>1 DEF StateOK, HeapOK, GrantsOK, Held, Holds
  <2>3. k \in Nat /\ k <= own.size /\ k <= size
    BY <2>2, SMTT(60)
  <2> HIDE DEF k
  <2>4. Reallocated(r, own, size, k, W, stacks)
    <3> HIDE DEF own
    <3> QED
      BY <1>1, <2>1, <2>3, ReallocKeeps
  <2> HIDE DEF r
  <2>5. CASE r.ptr = 0 /\ size # 0 /\ StateOK(r.s, W, stacks)
    BY <1>2, <2>5, RefusedKeeps DEF W
  <2>6. CASE r.ptr = 0 /\ size = 0 /\ StateOK(r.s, W \ {own}, stacks)
    <3>1. Commit(id, r, size, val, k)
      BY <1>2, <2>6
    <3> HIDE DEF val
    <3> QED
      BY <2>6, <3>1, CommitFrees DEF W
  <2>7. CASE size # 0 /\ Handed(r.s, r.ptr, k, size, own.val, W \ {own}, stacks)
    <3>1. r.ptr # 0
      BY <2>7 DEF Handed
    <3>2. Commit(id, r, size, own.val, k)
      BY <1>2, <2>1, <3>1
    <3>3. Handed(r.s, r.ptr, k, size, own.val, Grants(live) \ {live[id]}, stacks)
      BY <2>7 DEF W
    <3> QED
      BY <2>3, <3>2, <3>3, CommitHands
  <2> QED
    BY <2>4, <2>5, <2>6, <2>7 DEF Reallocated
<1> QED
  BY <1>3, <1>4


\* The other user takes pages.
LEMMA TakePagesKeeps ==
  ASSUME HeapInv, NEW count \in Nat, TakePages(count)
  PROVE  HeapInv'
<1> DEFINE page == pmm_alloc(free_list, count)
           B == Pages(heap_block_list)
           W == Grants(live)
<1>1. /\ Owners(live) /\ List(heap_block_list) /\ HeapOK(free_list, B, mem, W, stacks)
      /\ held = stacks \cup HeapPages(heap_block_list)
  BY DEF HeapInv
<1>2. /\ page # 0 /\ free_list' = AfterAlloc(free_list, count)
      /\ held' = held \cup Run(page, count) /\ stacks' = stacks \cup Run(page, count)
      /\ mem' = Fill(mem, pmm_phys_to_virt(page), count * PAGE_SIZE, "page")
      /\ heap_block_list' = heap_block_list /\ live' = live
  BY DEF TakePages, Alloc
<1>3. HasRun(free_list, count)
  BY <1>2 DEF pmm_alloc
<1> HIDE DEF B, W
<1>4. HeapOK(AfterAlloc(free_list, count), B,
             Fill(mem, pmm_phys_to_virt(page), count * PAGE_SIZE, "page"), W,
             stacks \cup Run(page, count))
  BY <1>1, <1>3, UserTakes
<1> HIDE DEF page
<1>5. HeapOK(free_list', B, mem', W, stacks')
  BY <1>2, <1>4
<1>6. held' = stacks' \cup HeapPages(heap_block_list)
  BY <1>1, <1>2
<1> QED
  BY <1>1, <1>2, <1>5, <1>6 DEF HeapInv, B, W

\* The other user returns pages.
LEMMA ReturnPagesKeeps ==
  ASSUME HeapInv, NEW count \in Nat, NEW page \in stacks, ReturnPages(page, count)
  PROVE  HeapInv'
<1> DEFINE bs == heap_block_list
           l == pmm_free(free_list, page, count)
           stk == stacks \ Run(page, count)
<1>1. /\ Owners(live) /\ List(bs) /\ HeapOK(free_list, Pages(bs), mem, Grants(live), stacks)
      /\ held = stacks \cup HeapPages(bs)
  BY DEF HeapInv
<1>2. /\ Run(page, count) \subseteq stacks /\ free_list' = l /\ held' = held \ Run(page, count)
      /\ stacks' = stk /\ mem' = Owned(mem, bs, live, stk) /\ heap_block_list' = bs /\ live' = live
  BY DEF ReturnPages, Free
<1>3. HeapOK(l, Pages(bs), mem, Grants(live), stk)
  <2> DEFINE B == Pages(bs)
             W == Grants(live)
  <2> HIDE DEF B, W
  <2>1. HeapOK(free_list, B, mem, W, stacks)
    BY <1>1 DEF B, W
  <2>2. HeapOK(l, B, mem, W, stk)
    BY <1>2, <2>1, UserReturns
  <2> QED
    BY <2>2 DEF B, W
<1>4. HeapPages(bs) = UsablePages \ (Pages(free_list) \cup stacks)
  BY <1>1, HeapPagesIs DEF HeapOK
<1>5. held' = stk \cup HeapPages(bs)
  BY <1>1, <1>2, <1>4
<1> HIDE DEF l, stk
<1>6. HeapOK(l, Pages(bs), mem', Grants(live), stk)
  BY <1>2, <1>3, OwnedKeeps
<1> QED
  BY <1>1, <1>2, <1>5, <1>6 DEF HeapInv

\* heap_init: one page is the first block, and nobody holds anything.
LEMMA InitHolds ==
  ASSUME HeapInit
  PROVE  HeapInv
<1> DEFINE junk == [a \in PageBytes(UsablePages) |-> "junk"]
           page == pmm_alloc(Usable, 1)
           b == NewBlock(page, 1)
           l == AfterAlloc(Usable, 1)
           m == WriteHeader(junk, pmm_phys_to_virt(page))
<1>1. /\ free_list = l /\ heap_block_list = <<b>> /\ mem = m /\ held = {page}
      /\ live = [id \in Ids |-> Idle] /\ stacks = {}
  BY DEF HeapInit, PageBytes
<1>2. /\ Usable \in PageList /\ Distinct(Usable) /\ Len(Usable) \in Nat
      /\ \A i \in 1..Len(Usable) : Usable[i] \in Nat
  <2>1. Usable \in Seq(Nat \ {0}) /\ Distinct(Usable)
    BY MemmapAssumption DEF Distinct
  <2> QED
    BY <2>1, LenIs, SMTT(60) DEF PageList
<1>3. HasRun(Usable, 1)
  <2>1. PICK i \in 1..Len(Usable) : TRUE
    BY HeapAssumption DEF UsablePages, Pages
  <2>2. i + 1 - 1 <= Len(Usable) /\ i..(i + 1 - 2) = {}
    BY <1>2, SMTT(60)
  <2>3. IsRun(Usable, i, 1)
    BY <2>2, SMTT(60) DEF IsRun
  <2> QED
    BY <2>3 DEF HasRun
<1>4. HeapOK(Usable, {}, junk, {}, {})
  <2>1. PageBytes({}) = {} /\ Cover({}) = {}
    BY DEF PageBytes, Cover
  <2>2. UsablePages \ (Pages(Usable) \cup {}) = {} /\ Pages(Usable) \cup {} \subseteq UsablePages
    BY DEF UsablePages
  <2>3. PoolOK(Usable, {}, {})
    BY <1>2, <2>1, <2>2 DEF PoolOK
  <2>4. MemOK(junk, {}, {}, {})
    BY DEF MemOK
  <2>5. BlocksOK({}) /\ GrantsOK({}, {})
    BY DEF BlocksOK, GrantsOK, Held
  <2> QED
    BY <2>3, <2>4, <2>5 DEF HeapOK
<1> HIDE DEF junk
<1>5. b \in Block /\ HeapOK(l, {} \cup {b}, m, {}, {})
  <2>1. 1 \in Nat
    OBVIOUS
  <2> QED
    BY <1>3, <1>4, <2>1, FreshKeeps
<1>6. Pages(l) = UsablePages \ {page} /\ page \in UsablePages
  <2>1. /\ Pages(l) = Pages(Usable) \ Run(page, 1) /\ Run(page, 1) \subseteq Pages(Usable)
        /\ page \in Nat
    BY <1>2, <1>3, AllocMoves
  <2>2. Run(page, 1) = {page}
    <3> HIDE DEF page
    <3> QED
      BY <2>1, SMTT(60) DEF Run
  <2> QED
    BY <2>1, <2>2 DEF UsablePages
<1> HIDE DEF page, b, l, m
<1>7. Pages(<<b>>) = {b} /\ List(<<b>>)
  <2>1. <<b>> \in Seq(Block) /\ Len(<<b>>) = 1 /\ <<b>>[1] = b
    BY <1>5, SMTT(60)
  <2>2. \A i \in 1..1 : i = 1
    BY SMTT(60)
  <2> QED
    BY <2>1, <2>2, SMTT(60) DEF Pages, List, Distinct
<1>8. Owners(live) /\ Grants(live) = {}
  BY <1>1 DEF Owners, Grants
<1>9. HeapOK(l, Pages(<<b>>), m, {}, {})
  <2>1. {} \cup {b} = {b}
    OBVIOUS
  <2> QED
    BY <1>5, <1>7, <2>1
<1>10. {page} = {} \cup HeapPages(<<b>>)
  <2>1. HeapPages(<<b>>) = UsablePages \ (Pages(l) \cup {})
    BY <1>7, <1>9, HeapPagesIs DEF HeapOK
  <2> QED
    BY <1>6, <2>1
<1> QED
  BY <1>1, <1>7, <1>8, <1>9, <1>10 DEF HeapInv


\* Every step of the heap's callers and of the other user keeps the invariant.
LEMMA HeapStepKeeps ==
  ASSUME HeapInv, [HeapNext]_heap_vars
  PROVE  HeapInv'
<1>1. ASSUME NEW id \in Ids, NEW size \in Sizes, Kmalloc(id, size) PROVE HeapInv'
  <2>1. size \in Nat
    BY HeapAssumption, SMTT(60)
  <2> QED
    BY <1>1, <2>1, KmallocKeeps
<1>2. ASSUME NEW id \in Ids, NEW size \in Sizes, Krealloc(id, size) PROVE HeapInv'
  <2>1. size \in Nat
    BY HeapAssumption, SMTT(60)
  <2> QED
    BY <1>2, <2>1, KreallocKeeps
<1>3. ASSUME NEW id \in Ids, NEW a \in Arrays, Kcalloc(id, a[1], a[2]) PROVE HeapInv'
  <2> DEFINE num == a[1]
             size == a[2]
  <2>1. num \in Nat /\ size \in Nat /\ num <= SIZE_MAX
    BY HeapAssumption, SMTT(60)
  <2>2. Kcalloc(id, num, size)
    BY <1>3
  <2> HIDE DEF num, size
  <2> QED
    BY <2>1, <2>2, KcallocKeeps
<1>4. ASSUME NEW id \in Ids, Kfree(id) PROVE HeapInv'
  BY <1>4, KfreeKeeps
<1>5. ASSUME NEW count \in 1..MaxRun, TakePages(count) PROVE HeapInv'
  <2>1. count \in Nat
    BY MaxRunAssumption, SMTT(60)
  <2> QED
    BY <1>5, <2>1, TakePagesKeeps
<1>6. ASSUME NEW count \in 1..MaxRun, NEW page \in stacks, ReturnPages(page, count) PROVE HeapInv'
  <2>1. count \in Nat
    BY MaxRunAssumption, SMTT(60)
  <2> QED
    BY <1>6, <2>1, ReturnPagesKeeps
<1>7. CASE UNCHANGED heap_vars
  BY <1>7 DEF heap_vars, HeapInv
<1> QED
  BY <1>1, <1>2, <1>3, <1>4, <1>5, <1>6, <1>7 DEF HeapNext

\* However calls interleave, the invariant holds.
LEMMA HeapInvHolds == HeapSpec => []HeapInv
<1>1. HeapInit => HeapInv
  BY InitHolds
<1>2. HeapInv /\ [HeapNext]_heap_vars => HeapInv'
  BY HeapStepKeeps
<1> QED
  BY <1>1, <1>2, PTL DEF HeapSpec

\* Each caller's bytes lie in its block.
LEMMA CallerIs ==
  ASSUME HeapInv, NEW id \in Ids
  PROVE  \/ live[id] = Idle
         \/ live[id] \in Grants(live) /\ \E b \in Pages(heap_block_list) : Holds(b, live[id])
<1>1. Held(Pages(heap_block_list), Grants(live))
  BY DEF HeapInv, HeapOK, GrantsOK
<1> QED
  BY <1>1, IdleIs DEF Held

\* Blocks and pointers have the shapes of the C structures, and every pointer
\* handed out keeps HEAP_ALIGNMENT, through every split, merge and move.
THEOREM HeapTypesAndAlignment == HeapSpec => []HeapTypeOK
<1>1. HeapInv => HeapTypeOK
  <2> SUFFICES ASSUME HeapInv PROVE HeapTypeOK
    OBVIOUS
  <2>1. BlocksOK(Pages(heap_block_list)) /\ stacks \subseteq held
    BY DEF HeapInv, HeapOK
  <2>2. \A b \in Pages(heap_block_list) : b.addr \in Nat /\ b.size \in Nat /\ b.is_free \in BOOLEAN
    BY <2>1, BlockIs DEF BlocksOK
  <2>3. ASSUME NEW id \in Ids PROVE live[id].ptr % HEAP_ALIGNMENT = 0
    <3>1. CASE live[id] = Idle
      <4>1. live[id].ptr = 0
        BY <3>1, SMTT(60) DEF Idle
      <4>2. HEAP_ALIGNMENT * 0 = 0 /\ (HEAP_ALIGNMENT * 0) % HEAP_ALIGNMENT = 0
        BY HeaderIs, MultipleIs, SMTT(60)
      <4> QED
        BY <4>1, <4>2
    <3>2. CASE \E b \in Pages(heap_block_list) : Holds(b, live[id])
      <4>1. PICK b \in Pages(heap_block_list) : live[id].ptr = b.addr + HEAP_HEADER_SIZE
        BY <3>2 DEF Holds
      <4>2. Aligned(b.addr + HEAP_HEADER_SIZE)
        <5>1. b.addr \in Nat /\ Aligned(b.addr) /\ HEAP_HEADER_SIZE \in Nat /\ Aligned(HEAP_HEADER_SIZE)
          BY <2>1, <2>2, HeaderIs DEF BlocksOK
        <5> QED
          BY <5>1, AlignedAdds
      <4> QED
        BY <4>1, <4>2 DEF Aligned
    <3> QED
      BY <3>1, <3>2, CallerIs
  <2> QED
    BY <2>1, <2>2, <2>3 DEF HeapTypeOK
<1> QED
  BY <1>1, HeapInvHolds, PTL

\* No split, merge, move or page taken by the other user overwrites a header, a
\* caller's bytes or a page of the other user; krealloc carries contents along
\* and kcalloc's bytes are zero, for every size and every order of calls.
THEOREM HeapOverwritesNothing == HeapSpec => []NothingOverwritten
<1>1. HeapInv => NothingOverwritten
  <2> SUFFICES ASSUME HeapInv PROVE NothingOverwritten
    OBVIOUS
  <2>1. MemOK(mem, Pages(heap_block_list), Grants(live), stacks)
    BY DEF HeapInv, HeapOK
  <2>2. ASSUME NEW id \in Ids, NEW a \in Bytes(live[id].ptr, live[id].size)
        PROVE  mem[a] = live[id].val
    <3>1. CASE live[id] = Idle
      <4>1. live[id].ptr = 0 /\ live[id].size = 0
        BY <3>1, SMTT(60) DEF Idle
      <4>2. Bytes(0, 0) = {}
        BY SMTT(60) DEF Bytes
      <4> QED
        BY <4>1, <4>2
    <3>2. CASE live[id] \in Grants(live)
      BY <2>1, <3>2 DEF MemOK
    <3> QED
      BY <3>1, <3>2, CallerIs
  <2> QED
    BY <2>1, <2>2 DEF NothingOverwritten, MemOK
<1> QED
  BY <1>1, HeapInvHolds, PTL


\* The blocks tile the heap's pages, each byte in exactly one, and the blocks in
\* use are exactly those callers hold: no memory is lost and no block leaks.
THEOREM HeapIsTiled == HeapSpec => []BlocksTileHeap
<1>1. HeapInv => BlocksTileHeap
  <2> SUFFICES ASSUME HeapInv PROVE BlocksTileHeap
    OBVIOUS
  <2> DEFINE bs == heap_block_list
             B == Pages(bs)
             W == Grants(live)
             covers(i, a) == a \in Bytes(bs[i].addr, BlockEnd(bs[i]) - bs[i].addr)
  <2>1. List(bs) /\ BlocksOK(B) /\ GrantsOK(B, W) /\ PoolOK(free_list, B, stacks)
    BY DEF HeapInv, HeapOK
  <2>2. \A i \in 1..Len(bs) : bs[i] \in B /\ bs[i] \in Block
    BY <2>1 DEF Pages, BlocksOK
  <2>3. ASSUME NEW i \in 1..Len(bs), NEW a PROVE covers(i, a) <=> a \in Span(bs[i])
    <3> DEFINE b == bs[i]
    <3>1. b.addr \in Nat /\ BlockEnd(b) \in Nat
      BY <2>2, BlockIs
    <3> DEFINE lo == b.addr
               hi == BlockEnd(b)
    <3> HIDE DEF lo, hi
    <3>2. lo \in Nat /\ hi \in Nat
      BY <3>1 DEF lo, hi
    <3>3. lo..(lo + (hi - lo) - 1) = lo..(hi - 1)
      BY <3>2, SMTT(60)
    <3> QED
      BY <3>3 DEF Bytes, Span, lo, hi
  <2>4. \A i, j \in 1..Len(bs) : \A a : covers(i, a) /\ covers(j, a) => j = i
    <3> SUFFICES ASSUME NEW i \in 1..Len(bs), NEW j \in 1..Len(bs), NEW a,
                        covers(i, a), covers(j, a), j # i
                 PROVE  FALSE
      OBVIOUS
    <3>1. a \in Span(bs[i]) /\ a \in Span(bs[j])
      BY <2>3
    <3>2. bs[i] # bs[j]
      BY <2>1 DEF List, Distinct
    <3> QED
      BY <2>1, <2>2, <3>1, <3>2, SpansApart
  <2>5. ASSUME NEW p \in HeapPages(bs), NEW a \in Bytes(pmm_phys_to_virt(p), PAGE_SIZE)
        PROVE  \E i \in 1..Len(bs) : covers(i, a) /\ \A j \in 1..Len(bs) : covers(j, a) => j = i
    <3>1. p \in UsablePages \ (Pages(free_list) \cup stacks)
      BY <2>1, HeapPagesIs
    <3>2. a \in Cover(B)
      BY <2>1, <3>1 DEF PoolOK, PageBytes
    <3>3. PICK b \in B : a \in Span(b)
      BY <3>2 DEF Cover
    <3>4. PICK i \in 1..Len(bs) : b = bs[i]
      BY DEF Pages
    <3>5. covers(i, a)
      BY <2>3, <3>3, <3>4
    <3> HIDE DEF covers
    <3> QED
      BY <2>4, <3>5
  <2>6. {b.addr + HEAP_HEADER_SIZE : b \in {c \in B : ~c.is_free}} = {live[id].ptr : id \in Ids} \ {0}
    <3>1. ASSUME NEW b \in B, ~b.is_free
          PROVE  b.addr + HEAP_HEADER_SIZE \in {live[id].ptr : id \in Ids} \ {0}
      <4>1. PICK w \in W : w.ptr = b.addr + HEAP_HEADER_SIZE
        BY <2>1, <3>1 DEF GrantsOK
      <4>2. b.addr \in Nat /\ HEAP_HEADER_SIZE \in Nat /\ SIZEOF_BLOCK \in Nat \ {0}
            /\ SIZEOF_BLOCK <= HEAP_HEADER_SIZE
        BY <2>1, BlockIs, HeaderIs DEF BlocksOK
      <4>3. b.addr + HEAP_HEADER_SIZE # 0
        BY <4>2, SMTT(60)
      <4>4. PICK id \in Ids : w = live[id]
        BY DEF Grants
      <4> QED
        BY <4>1, <4>3, <4>4
    <3>2. ASSUME NEW id \in Ids, live[id].ptr # 0
          PROVE  \E b \in B : ~b.is_free /\ live[id].ptr = b.addr + HEAP_HEADER_SIZE
      <4>1. live[id] # Idle
        BY <3>2, SMTT(60) DEF Idle
      <4>2. PICK b \in B : Holds(b, live[id])
        BY <4>1, CallerIs
      <4> QED
        BY <4>2 DEF Holds
    <3> HIDE DEF B
    <3> QED
      BY <3>1, <3>2
  <2> QED
    BY <2>5, <2>6 DEF BlocksTileHeap
<1> QED
  BY <1>1, HeapInvHolds, PTL

\* With the heap and the other user on one free list, every page of the boot
\* loader's is on the list once, in the heap or with the other user.
THEOREM HeapConservesPages == HeapSpec => []PagesConserved
<1>1. HeapInv => PagesConserved
  <2> SUFFICES ASSUME HeapInv PROVE PagesConserved
    OBVIOUS
  <2>1. /\ List(heap_block_list) /\ BlocksOK(Pages(heap_block_list))
        /\ PoolOK(free_list, Pages(heap_block_list), stacks)
        /\ held = stacks \cup HeapPages(heap_block_list)
    BY DEF HeapInv, HeapOK
  <2>2. HeapPages(heap_block_list) = UsablePages \ (Pages(free_list) \cup stacks)
    BY <2>1, HeapPagesIs
  <2>3. /\ Distinct(free_list) /\ Pages(free_list) \cup stacks \subseteq UsablePages
        /\ Pages(free_list) \cap stacks = {}
    BY <2>1 DEF PoolOK
  <2>4. Pages(free_list) \cap held = {} /\ Pages(free_list) \cup held = UsablePages
    BY <2>1, <2>2, <2>3
  <2> QED
    BY <2>3, <2>4 DEF PagesConserved, Distinct
<1> QED
  BY <1>1, HeapInvHolds, PTL
=============================================================================
