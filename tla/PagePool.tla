------------------------------ MODULE PagePool ------------------------------
(***************************************************************************)
(* The page allocator of mm/pmm.c and callers that take and return blocks   *)
(* of pages in any order.                                                   *)
(***************************************************************************)
EXTENDS Pmm

CONSTANT MaxRun   \* bound: pages asked for in one call

ASSUME MaxRunAssumption == MaxRun \in Nat

VARIABLES free_list,
          held         \* history: pages handed out and not returned

pmm_vars == <<free_list, held>>

PmmInit ==
  /\ free_list = Usable
  /\ held = {}

\* A caller takes a block of pages, or is refused.
Alloc(count) ==
  LET page == pmm_alloc(free_list, count)
  IN  /\ free_list' = AfterAlloc(free_list, count)
      /\ held' = IF page = 0 THEN held ELSE held \cup Run(page, count)

\* A caller returns pages it holds, in blocks of its own choosing.
Free(page, count) ==
  /\ Run(page, count) \subseteq held
  /\ free_list' = pmm_free(free_list, page, count)
  /\ held' = held \ Run(page, count)

PmmNext ==
  \E count \in 0..MaxRun :
    Alloc(count) \/ \E page \in held : Free(page, count)

PmmSpec == PmmInit /\ [][PmmNext]_pmm_vars

(***************************************************************************)
(* Properties.                                                              *)
(***************************************************************************)

\* Whatever the order of frees and however the list is cut, every page the
\* boot loader gave is on the free list once or with one caller: pmm_alloc
\* hands no page out twice and no page is lost.
PagesConserved ==
  /\ \A i, j \in 1..Len(free_list) : i # j => free_list[i] # free_list[j]
  /\ Pages(free_list) \cap held = {}
  /\ Pages(free_list) \cup held = UsablePages
=============================================================================
