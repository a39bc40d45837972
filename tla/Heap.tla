-------------------------------- MODULE Heap --------------------------------
(***************************************************************************)
(* The kernel heap of mm/heap.c on top of the page allocator, with another  *)
(* user of pages beside it.  heap_block_list is the list of blocks in list  *)
(* order; mem is the memory the blocks, the headers and the callers' data   *)
(* live in, at the addresses of the direct map: a byte holds "hdr", the     *)
(* value its owner stored, or "junk".                                       *)
(***************************************************************************)
EXTENDS PagePool

CONSTANTS HEAP_ALIGNMENT,
          SIZEOF_BLOCK,   \* sizeof(struct heap_block)
          SIZE_MAX,       \* of size_t
          HHDM_OFFSET,    \* of the direct map
          Ids,            \* callers of the heap
          Sizes,          \* sizes callers ask for
          Arrays          \* bound: <<num, size>> pairs asked of kcalloc

VARIABLES heap_block_list,   \* sequence of [addr, size, is_free]
          mem,
          live,              \* history: per caller [ptr, size, val], ptr 0 when idle
          stacks             \* pages of the other user

heap_vars == <<free_list, held, heap_block_list, mem, live, stacks>>

pmm_phys_to_virt(page) == page * PAGE_SIZE + HHDM_OFFSET

Wrap(n) == n % (SIZE_MAX + 1)

HEAP_ALIGN_UP(size) == LET up == Wrap(size + HEAP_ALIGNMENT - 1) IN up - (up % HEAP_ALIGNMENT)

\* Mutant of HEAP_HEADER_SIZE: the header is not padded.
HeaderUnpadded == SIZEOF_BLOCK

HEAP_HEADER_SIZE == HEAP_ALIGN_UP(SIZEOF_BLOCK)

Bytes(addr, count) == addr..(addr + count - 1)

\* memset and memcpy.
Fill(m, addr, count, val) == [a \in DOMAIN m |-> IF a \in Bytes(addr, count) THEN val ELSE m[a]]

Copy(m, dst, src, count) ==
  [a \in DOMAIN m |-> IF a \in Bytes(dst, count) THEN m[src + a - dst] ELSE m[a]]

WriteHeader(m, addr) == Fill(m, addr, SIZEOF_BLOCK, "hdr")

\* Pages and the direct map keep the heap's alignment, a page has room for a
\* block, sizes are of size_t, and there is a page for heap_init.
ASSUME HeapAssumption ==
  /\ {PAGE_SIZE, HEAP_ALIGNMENT, SIZEOF_BLOCK} \subseteq Nat \ {0}
  /\ {SIZE_MAX, HHDM_OFFSET} \subseteq Nat
  /\ PAGE_SIZE % HEAP_ALIGNMENT = 0 /\ HHDM_OFFSET % HEAP_ALIGNMENT = 0
  /\ SIZEOF_BLOCK + HEAP_ALIGNMENT <= PAGE_SIZE
  /\ 2 * PAGE_SIZE + HEAP_ALIGNMENT <= SIZE_MAX
  /\ Sizes \subseteq 0..SIZE_MAX
  /\ Arrays \subseteq (0..SIZE_MAX) \X (0..SIZE_MAX)
  /\ UsablePages # {}

BlockEnd(b) == b.addr + HEAP_HEADER_SIZE + b.size

\* The list with b put before its i-th block.
Insert(bs, i, b) ==
  [j \in 1..(Len(bs) + 1) |-> IF j < i THEN bs[j] ELSE IF j = i THEN b ELSE bs[j - 1]]

\* The list whose i-th block has taken in the next one, header and all.
Absorb(bs, i) ==
  [j \in 1..(Len(bs) - 1) |->
     IF j < i THEN bs[j]
     ELSE IF j = i THEN [bs[i] EXCEPT !.size = @ + HEAP_HEADER_SIZE + bs[i + 1].size]
     ELSE bs[j + 1]]

\* Mutant of CoalesceRound: it does not test that the next block is free.
CoalesceUsed(bs, i) ==
  IF i < Len(bs) /\ BlockEnd(bs[i]) = bs[i + 1].addr THEN Absorb(bs, i) ELSE bs

\* One round of the loop: block i absorbs the next block of the list if that
\* is free and follows it in memory.
CoalesceRound(bs, i) ==
  IF i < Len(bs) /\ bs[i + 1].is_free /\ BlockEnd(bs[i]) = bs[i + 1].addr
  THEN Absorb(bs, i) ELSE bs

\* A round shortens the list or is the last that does anything.
heap_block_coalesce(bs, i) ==
  LET after[k \in 0..Len(bs)] == IF k = 0 THEN bs ELSE CoalesceRound(after[k - 1], i)
  IN  after[Len(bs)]

CanSplit(b, size) == b.size >= size + HEAP_HEADER_SIZE + HEAP_ALIGNMENT

Remainder(b, size) ==
  [addr |-> b.addr + HEAP_HEADER_SIZE + size,
   size |-> b.size - HEAP_HEADER_SIZE - size, is_free |-> TRUE]

heap_block_split(bs, i, size) ==
  IF ~CanSplit(bs[i], size) THEN bs
  ELSE heap_block_coalesce(
         Insert([bs EXCEPT ![i].size = size], i + 1, Remainder(bs[i], size)), i + 1)

SplitMem(m, b, size) ==
  IF CanSplit(b, size) THEN WriteHeader(m, Remainder(b, size).addr) ELSE m

IndexOf(bs, ptr) == CHOOSE i \in 1..Len(bs) : bs[i].addr = ptr - HEAP_HEADER_SIZE

NewBlock(page, pages) ==
  [addr |-> pmm_phys_to_virt(page), size |-> pages * PAGE_SIZE - HEAP_HEADER_SIZE,
   is_free |-> TRUE]

\* The part of the kernel's state a heap call reads and writes.
State == [pages |-> free_list, blocks |-> heap_block_list, mem |-> mem]

\* The block at index i is cut to size and handed out.
Take(s, i, size) ==
  [s EXCEPT !.blocks = [heap_block_split(@, i, size) EXCEPT ![i].is_free = FALSE],
            !.mem = SplitMem(@, s.blocks[i], size)]

\* The first free block of the list that is large enough, and the pages a new
\* one needs.
Fits(b, size) == b.is_free /\ b.size >= size

HasFit(s, size) == \E i \in 1..Len(s.blocks) : Fits(s.blocks[i], size)

FirstFit(s, size) ==
  CHOOSE i \in 1..Len(s.blocks) :
    Fits(s.blocks[i], size) /\ \A j \in 1..(i - 1) : ~Fits(s.blocks[j], size)

PagesFor(size) == Wrap(HEAP_HEADER_SIZE + size + PAGE_SIZE - 1) \div PAGE_SIZE

\* Mutant of TooLarge: the guard forgets that the size is aligned up.
TooLargeUnaligned(size) == size > SIZE_MAX

TooLarge(size) == size > SIZE_MAX - HEAP_HEADER_SIZE - PAGE_SIZE - HEAP_ALIGNMENT

\* A call's result and the state it leaves.
Result(ptr, s) == [ptr |-> ptr, s |-> s]

\* First fit; else the block is made of fresh pages and becomes the head.
kmalloc(s, asked) ==
  LET up    == HEAP_ALIGN_UP(asked)
      size  == IF up = 0 THEN HEAP_ALIGNMENT ELSE up
      page  == pmm_alloc(s.pages, PagesFor(size))
      fresh == [pages  |-> AfterAlloc(s.pages, PagesFor(size)),
                blocks |-> Insert(s.blocks, 1, NewBlock(page, PagesFor(size))),
                mem    |-> WriteHeader(s.mem, pmm_phys_to_virt(page))]
      from(t, i) == Result(t.blocks[i].addr + HEAP_HEADER_SIZE, Take(t, i, size))
  IN  IF TooLarge(asked) THEN Result(0, s)
      ELSE IF HasFit(s, size) THEN from(s, FirstFit(s, size))
      ELSE IF page = 0 THEN Result(0, s)
      ELSE from(fresh, 1)

ArrayTooLarge(num, size) == size # 0 /\ num > SIZE_MAX \div size

kcalloc(s, num, size) ==
  LET r == kmalloc(s, Wrap(num * size))
  IN  IF ArrayTooLarge(num, size) THEN Result(0, s)
      ELSE IF r.ptr = 0 THEN r
      ELSE [r EXCEPT !.s.mem = Fill(@, r.ptr, Wrap(num * size), 0)]

kfree(s, ptr) ==
  LET i == IndexOf(s.blocks, ptr)
  IN  [s EXCEPT !.blocks = heap_block_coalesce([@ EXCEPT ![i].is_free = TRUE], i)]

\* Case 5 of krealloc: a new block, the old one's bytes, then the old is freed.
MoveBlock(s, ptr, size) ==
  LET r   == kmalloc(s, size)
      old == s.blocks[IndexOf(s.blocks, ptr)]
  IN  IF r.ptr = 0 THEN r
      ELSE Result(r.ptr, kfree([r.s EXCEPT !.mem = Copy(@, r.ptr, ptr, old.size)], ptr))

\* A block that is large enough keeps its place and hands back what is left.
Keep(s, ptr, size) ==
  LET i == IndexOf(s.blocks, ptr)
  IN  Result(ptr, [s EXCEPT !.blocks = heap_block_split(@, i, size),
                            !.mem = SplitMem(@, s.blocks[i], size)])

krealloc(s, ptr, asked) ==
  LET size  == HEAP_ALIGN_UP(asked)
      i     == IndexOf(s.blocks, ptr)
      grown == [s EXCEPT !.blocks = heap_block_coalesce(@, i)]
  IN  IF asked > SIZE_MAX - (HEAP_ALIGNMENT - 1) THEN Result(0, s)
      ELSE IF ptr = 0 THEN kmalloc(s, asked)
      ELSE IF asked = 0 THEN Result(0, kfree(s, ptr))
      ELSE IF size <= s.blocks[i].size THEN Keep(s, ptr, size)
      ELSE IF size <= grown.blocks[i].size THEN Keep(grown, ptr, size)
      ELSE MoveBlock(grown, ptr, size)

\* The pages blocks lie in.
HeapPages(bs) ==
  {p \in UsablePages : \E i \in 1..Len(bs) :
     bs[i].addr < pmm_phys_to_virt(p + 1) /\ pmm_phys_to_virt(p) < BlockEnd(bs[i])}

Idle == [ptr |-> 0, size |-> 0, val |-> "junk"]

\* heap_init: the first block is one page.
HeapInit ==
  LET page == pmm_alloc(Usable, 1)
  IN  /\ free_list = AfterAlloc(Usable, 1)
      /\ heap_block_list = <<NewBlock(page, 1)>>
      /\ mem = WriteHeader([a \in UNION {Bytes(pmm_phys_to_virt(p), PAGE_SIZE) : p \in UsablePages}
                              |-> "junk"], pmm_phys_to_virt(page))
      /\ held = {page}
      /\ live = [id \in Ids |-> Idle]
      /\ stacks = {}

\* What bytes nobody owns hold is forgotten: no code reads them.
Owned(m, bs, own, pages) ==
  LET kept == (UNION {Bytes(b.addr, SIZEOF_BLOCK) : b \in Pages(bs)})
                \cup (UNION {Bytes(own[id].ptr, own[id].size) : id \in Ids})
                \cup (UNION {Bytes(pmm_phys_to_virt(p), PAGE_SIZE) : p \in pages})
  IN  [a \in DOMAIN m |-> IF a \in kept THEN m[a] ELSE "junk"]

\* The call of caller id has run and left the state r.s; the caller owns size
\* bytes at r.ptr and has stored val in those from the kept first ones on.
Commit(id, r, size, val, kept) ==
  /\ free_list' = r.s.pages
  /\ heap_block_list' = r.s.blocks
  /\ held' = stacks \cup HeapPages(r.s.blocks)
  /\ live' = [live EXCEPT ![id] = IF r.ptr = 0 THEN Idle
                                  ELSE [ptr |-> r.ptr, size |-> size, val |-> val]]
  /\ mem' = Owned(IF r.ptr = 0 THEN r.s.mem
                  ELSE Fill(r.s.mem, r.ptr + kept, size - kept, val),
                  heap_block_list', live', stacks)
  /\ UNCHANGED stacks

Kmalloc(id, size) ==
  /\ live[id] = Idle
  /\ Commit(id, kmalloc(State, size), size, id, 0)

\* The caller of kcalloc relies on the zeroes and stores nothing.
Kcalloc(id, num, size) ==
  /\ live[id] = Idle
  /\ Commit(id, kcalloc(State, num, size), num * size, 0, num * size)

Kfree(id) ==
  /\ live[id] # Idle
  /\ Commit(id, Result(0, kfree(State, live[id].ptr)), 0, "junk", 0)

\* A caller keeps its old pointer when krealloc refuses.
Krealloc(id, size) ==
  LET own == live[id]
      r   == krealloc(State, own.ptr, size)
      val == IF own = Idle THEN id ELSE own.val
  IN  IF r.ptr = 0 /\ size # 0
      THEN /\ free_list' = r.s.pages
           /\ heap_block_list' = r.s.blocks
           /\ mem' = Owned(r.s.mem, r.s.blocks, live, stacks)
           /\ held' = stacks \cup HeapPages(r.s.blocks)
           /\ UNCHANGED <<live, stacks>>
      ELSE Commit(id, r, size, val, IF size < own.size THEN size ELSE own.size)

\* kstack_alloc, vmm and ramfs take pages from the same list, and fill them.
TakePages(count) ==
  LET page == pmm_alloc(free_list, count)
  IN  /\ page # 0
      /\ Alloc(count)
      /\ stacks' = stacks \cup Run(page, count)
      /\ mem' = Fill(mem, pmm_phys_to_virt(page), count * PAGE_SIZE, "page")
      /\ UNCHANGED <<heap_block_list, live>>

ReturnPages(page, count) ==
  /\ Run(page, count) \subseteq stacks
  /\ Free(page, count)
  /\ stacks' = stacks \ Run(page, count)
  /\ mem' = Owned(mem, heap_block_list, live, stacks')
  /\ UNCHANGED <<heap_block_list, live>>

HeapNext ==
  \/ \E id \in Ids :
       \/ \E size \in Sizes : Kmalloc(id, size) \/ Krealloc(id, size)
       \/ \E a \in Arrays : Kcalloc(id, a[1], a[2])
       \/ Kfree(id)
  \/ \E count \in 1..MaxRun :
       TakePages(count) \/ \E page \in stacks : ReturnPages(page, count)

HeapSpec == HeapInit /\ [][HeapNext]_heap_vars

(***************************************************************************)
(* Properties.                                                              *)
(***************************************************************************)

\* State has the shape of the C structures, and the pointers handed out keep
\* the alignment heap.h promises.
HeapTypeOK ==
  /\ \A b \in Pages(heap_block_list) : b.addr \in Nat /\ b.size \in Nat /\ b.is_free \in BOOLEAN
  /\ \A id \in Ids : live[id].ptr % HEAP_ALIGNMENT = 0
  /\ stacks \subseteq held

\* However calls interleave, every header, every caller's bytes and every page
\* of the other user hold what was last stored there: splits, absorptions and
\* moves give nobody bytes that are in use, krealloc carries the contents
\* along, kcalloc's are zero, and a refused krealloc leaves the old ones.
NothingOverwritten ==
  /\ \A b \in Pages(heap_block_list) : \A a \in Bytes(b.addr, SIZEOF_BLOCK) : mem[a] = "hdr"
  /\ \A id \in Ids : \A a \in Bytes(live[id].ptr, live[id].size) : mem[a] = live[id].val
  /\ \A p \in stacks : \A a \in Bytes(pmm_phys_to_virt(p), PAGE_SIZE) : mem[a] = "page"

\* The blocks of the list tile the heap's pages: each byte of a page the heap
\* took belongs to exactly one block, so no memory is lost to a bad split or
\* merge, and the blocks in use are exactly those callers hold.
BlocksTileHeap ==
  LET bs == heap_block_list
      covers(i, a) == a \in Bytes(bs[i].addr, BlockEnd(bs[i]) - bs[i].addr)
  IN  /\ \A p \in HeapPages(bs) : \A a \in Bytes(pmm_phys_to_virt(p), PAGE_SIZE) :
           \E i \in 1..Len(bs) : covers(i, a) /\ \A j \in 1..Len(bs) : covers(j, a) => j = i
      /\ {b.addr + HEAP_HEADER_SIZE : b \in {c \in Pages(bs) : ~c.is_free}}
           = {live[id].ptr : id \in Ids} \ {0}
=============================================================================
