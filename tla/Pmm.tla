--------------------------------- MODULE Pmm ---------------------------------
(***************************************************************************)
(* The physical page allocator of mm/pmm.c.  Page n stands for the address  *)
(* n * PAGE_SIZE.  The free list is threaded through the free pages and is  *)
(* a stack: it is the sequence l of its pages from the head on.  Page 0 is  *)
(* the failure value of pmm_alloc.                                          *)
(***************************************************************************)
EXTENDS Integers, Sequences

CONSTANTS PAGE_SIZE,   \* bytes in a page
          Memmap       \* the boot loader's map: records [base, length, type]

Pages(l) == {l[i] : i \in 1..Len(l)}

\* pmm_free pushes the pages of a block in ascending order.
pmm_free(l, page, count) ==
  IF page = 0 THEN l
  ELSE [j \in 1..(count + Len(l)) |-> IF j <= count THEN page + count - j ELSE l[j - count]]

\* pmm_claim keeps the whole pages of an entry; page 0 is never pushed.
ClaimEntry(l, e) ==
  LET base  == (e.base + PAGE_SIZE - 1) \div PAGE_SIZE
      top   == (e.base + e.length) \div PAGE_SIZE
      first == IF base = 0 THEN 1 ELSE base
  IN  IF first >= top THEN l ELSE pmm_free(l, first, top - first)

pmm_claim(type) ==
  LET claimed[n \in 0..Len(Memmap)] ==
        IF n = 0 THEN <<>>
        ELSE IF Memmap[n].type = type THEN ClaimEntry(claimed[n - 1], Memmap[n])
        ELSE claimed[n - 1]
  IN  claimed[Len(Memmap)]

Usable == pmm_claim("usable")

UsablePages == Pages(Usable)

\* The highest address of any entry, whatever its type.
max_phys_addr ==
  LET tops == {Memmap[n].base + Memmap[n].length : n \in 1..Len(Memmap)} \cup {0}
  IN  CHOOSE top \in tops : \A other \in tops : other <= top

\* The boot loader's usable entries overlap nowhere: no page is claimed twice.
ASSUME MemmapAssumption ==
  /\ Usable \in Seq(Nat \ {0})
  /\ \A i, j \in 1..Len(Usable) : i # j => Usable[i] # Usable[j]

\* Mutant of IsRun: the loop tests one page less than it takes.
IsRunShort(l, i, count) ==
  /\ count > 0
  /\ i + count - 1 <= Len(l)
  /\ \A j \in i..(i + count - 3) : l[j + 1] = l[j] - 1

\* Blocks are pushed in ascending order, so a run descends along the list.
\* For count = 0 the bound of the loop wraps and no run is long enough.
IsRun(l, i, count) ==
  /\ count > 0
  /\ i + count - 1 <= Len(l)
  /\ \A j \in i..(i + count - 2) : l[j + 1] = l[j] - 1

\* The list without the count pages from the i-th on.
Cut(l, i, count) ==
  [j \in 1..(Len(l) - count) |-> IF j < i THEN l[j] ELSE l[j + count]]

HasRun(l, count) == \E i \in 1..Len(l) : IsRun(l, i, count)

FirstRun(l, count) ==
  CHOOSE i \in 1..Len(l) :
    IsRun(l, i, count) /\ \A k \in 1..(i - 1) : ~IsRun(l, k, count)

\* The lowest page of the first run, 0 when there is none; and the list left.
pmm_alloc(l, count) ==
  IF HasRun(l, count) THEN l[FirstRun(l, count)] - (count - 1) ELSE 0

AfterAlloc(l, count) ==
  IF HasRun(l, count) THEN Cut(l, FirstRun(l, count), count) ELSE l

Run(page, count) == page..(page + count - 1)
=============================================================================
