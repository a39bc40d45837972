------------------------------ MODULE RamfsFile ------------------------------
(***************************************************************************)
(* File contents in fs/ramfs/ramfs.c.  A node is a record: size in bytes    *)
(* and pages, its page list, where Hole is a NULL entry and a page is a     *)
(* function from byte offset to byte.  The operators thread a record m of   *)
(* that node, the free physical pages and whether the heap answers:         *)
(* [node, free, heap, ok, done], done counting the bytes written so far.    *)
(* uint64_t offsets are taken modulo 2^W.                                   *)
(***************************************************************************)
EXTENDS Integers, Sequences

CONSTANTS PAGE_SIZE,
          W,           \* width of a uint64_t, in bits
          MAX_SLOTS    \* longest page list the heap could ever hold

ASSUME RamfsAssumption ==
  /\ {PAGE_SIZE, W, MAX_SLOTS, 2^W} \subseteq Nat \ {0}
  /\ MAX_SLOTS * PAGE_SIZE < 2^W

Wrap(n) == n % 2^W

\* What a function that returns int64_t makes of an unsigned number.
Signed(n) == IF n < 2^(W - 1) THEN n ELSE n - 2^W

Least(a, b) == IF a < b THEN a ELSE b

Hole == <<>>

ZeroPage == [i \in 0..(PAGE_SIZE - 1) |-> 0]

\* The page list is doubled, from a floor of four, until it covers index.
Doubled(n, index) == IF n > index THEN n ELSE 2 * n

NewCount(count, index) ==
  LET after[k \in 0..(index + 1)] ==
        IF k = 0 THEN IF count = 0 THEN 4 ELSE 2 * count
        ELSE Doubled(after[k - 1], index)
  IN  after[index + 1]

\* Mutant of GrowList: the whole list is cleared, not only its new part.
GrowListClears(m, index) ==
  LET count == Len(m.node.pages)
      new   == NewCount(count, index)
  IN  IF index < count THEN m
      ELSE IF ~m.heap \/ new > MAX_SLOTS THEN [m EXCEPT !.ok = FALSE]
      ELSE [m EXCEPT !.node.pages = [i \in 1..new |-> Hole]]

GrowList(m, index) ==
  LET count == Len(m.node.pages)
      new   == NewCount(count, index)
  IN  IF index < count THEN m
      ELSE IF ~m.heap \/ new > MAX_SLOTS THEN [m EXCEPT !.ok = FALSE]
      ELSE [m EXCEPT !.node.pages = @ \o [i \in 1..(new - count) |-> Hole]]

\* ramfs_walk_page with alloc set: the list grows first, then a fresh zeroed
\* page fills the hole; either may fail, the first keeping its effect.
ramfs_walk_page(m, index) ==
  LET g == GrowList(m, index)
  IN  IF ~g.ok \/ g.node.pages[index + 1] # Hole THEN g
      ELSE IF g.free = 0 THEN [g EXCEPT !.ok = FALSE]
      ELSE [g EXCEPT !.node.pages[index + 1] = ZeroPage, !.free = @ - 1]

\* With alloc clear nothing changes: NULL for a hole or beyond the list.
PageAt(node, index) ==
  IF index < Len(node.pages) THEN node.pages[index + 1] ELSE Hole

ramfs_get_chunk_info(offset, remaining) ==
  [index |-> offset \div PAGE_SIZE, at |-> offset % PAGE_SIZE,
   len |-> Least(PAGE_SIZE - (offset % PAGE_SIZE), remaining)]

\* A round of the loop of ramfs_ops_read; r carries the bytes read so far.
ReadRound(node, offset, size, r) ==
  LET c    == ramfs_get_chunk_info(Wrap(offset + Len(r)), size - Len(r))
      page == PageAt(node, c.index)
  IN  IF Len(r) = size THEN r
      ELSE r \o [i \in 1..c.len |-> IF page = Hole THEN 0 ELSE page[c.at + i - 1]]

\* Every round of it reads a byte at least.
ReadLoop(node, offset, size) ==
  LET after[k \in 0..size] ==
        IF k = 0 THEN <<>> ELSE ReadRound(node, offset, size, after[k - 1])
  IN  after[size]

\* The bytes a read hands out; a hole reads as zeros.
ramfs_ops_read(node, offset, size) ==
  IF offset >= node.size THEN <<>>
  ELSE ReadLoop(node, offset, Least(size, node.size - offset))

\* A round of the loop of ramfs_ops_write, which ends at the first page it
\* cannot get.
WriteRound(m, offset, bytes) ==
  LET c == ramfs_get_chunk_info(Wrap(offset + m.done), Len(bytes) - m.done)
      w == ramfs_walk_page(m, c.index)
  IN  IF m.done = Len(bytes) \/ ~m.ok THEN m
      ELSE IF ~w.ok THEN w
      ELSE [w EXCEPT !.done = @ + c.len, !.node.pages[c.index + 1] =
              [i \in DOMAIN @ |-> IF i \in c.at..(c.at + c.len - 1)
                                  THEN bytes[m.done + i - c.at + 1] ELSE @[i]]]

\* Every round of it writes a byte or is the last.
WriteLoop(m, offset, bytes) ==
  LET after[k \in 0..Len(bytes)] ==
        IF k = 0 THEN m ELSE WriteRound(after[k - 1], offset, bytes)
  IN  after[Len(bytes)]

\* Mutant of ramfs_ops_write: a short write does not count towards the size.
WriteSizesWhole(m, offset, bytes) ==
  LET w == WriteLoop([m EXCEPT !.ok = TRUE, !.done = 0], offset, bytes)
  IN  [w EXCEPT !.node.size = IF w.ok /\ offset + w.done > @ THEN offset + w.done ELSE @]

\* A write stops at the first page it cannot get; the size then covers what
\* was written and no more, and done is the count returned.
ramfs_ops_write(m, offset, bytes) ==
  LET w   == WriteLoop([m EXCEPT !.ok = TRUE, !.done = 0], offset, bytes)
      end == Wrap(offset + w.done)
  IN  [w EXCEPT !.node.size = IF w.done > 0 /\ end > @ THEN end ELSE @]
=============================================================================
