--------------------------------- MODULE Vmm ---------------------------------
(***************************************************************************)
(* Page tables: mm/vmm.c and the arch_vmm_* functions of both               *)
(* architectures.  Addresses are page numbers; LEVELS levels of tables with *)
(* FANOUT entries stand for 4 levels of 512.  The operators work on the     *)
(* record m of the machine's memory:                                        *)
(*   arch   "x86_64" or "aarch64"                                           *)
(*   free   the page allocator's list                                       *)
(*   table  for each page, its entries when it is used as a table           *)
(*   byte   for each page, its bytes when it is used for data               *)
(*   heap   how many objects kmalloc can still hand out                     *)
(*   root   the user root register: CR3 or TTBR0_EL1                        *)
(*   tlb    the translations <<page, frame>> the processor may have cached  *)
(***************************************************************************)
EXTENDS Pmm

LOCAL INSTANCE SequencesExt

CONSTANTS LEVELS,        \* VMM_LEVELS, 4 in the code
          FANOUT,        \* entries of a table, 512 in the code
          BOOT_ROOT,     \* the root table the boot loader left
          HHDM_PAGE      \* first page of the direct map

VMM_ADDR_SPLIT == FANOUT^LEVELS \div 2

VMM_INDEX(virt, level) == (virt \div FANOUT^level) % FANOUT

VMM_FLAGS == {"PRESENT", "WRITABLE", "USER", "CACHE_DISABLE", "NO_EXECUTE"}

(***************************************************************************)
(* Entries: a frame and the set of the bits set.                            *)
(***************************************************************************)
X86_BIT == [PRESENT |-> 0, WRITABLE |-> 1, USER |-> 2, CACHE_DISABLE |-> 4, NO_EXECUTE |-> 63]

X86Bits(flags) == {X86_BIT[f] : f \in flags}

If(cond, bits) == IF cond THEN bits ELSE {}

\* Access flag, shareability, and AP[2], which says read-only.
ArmBits(flags) ==
  {1, 8, 9, 10} \cup If("PRESENT" \in flags, {0}) \cup If("CACHE_DISABLE" \in flags, {2})
    \cup If("USER" \in flags, {6}) \cup If("WRITABLE" \notin flags, {7})
    \cup If("NO_EXECUTE" \in flags, {53, 54})

arch_vmm_make_pte(arch, phys, flags, is_table) ==
  [phys |-> phys,
   bits |-> IF arch = "x86_64" THEN X86Bits(flags)
            ELSE IF is_table THEN {0, 1} ELSE ArmBits(flags)]

NoPte == [phys |-> 0, bits |-> {}]

arch_vmm_pte_is_present(pte) == 0 \in pte.bits

arch_vmm_pte_get_flags(arch, pte) ==
  IF arch = "x86_64"
  THEN {f \in VMM_FLAGS : X86_BIT[f] \in pte.bits}
  ELSE If(0 \in pte.bits, {"PRESENT"}) \cup If(7 \notin pte.bits, {"WRITABLE"})
         \cup If(6 \in pte.bits, {"USER"}) \cup If(2 \in pte.bits, {"CACHE_DISABLE"})
         \cup If(54 \in pte.bits, {"NO_EXECUTE"})

BlankTable == [i \in 0..(FANOUT - 1) |-> NoPte]

BlankBytes == [o \in 0..(PAGE_SIZE - 1) |-> 0]

(***************************************************************************)
(* Pages.  Nobody clears a returned page: what it held, and the list's link *)
(* written over it, are junk to the next owner, with entries that look      *)
(* present and bytes that are not zero.                                     *)
(***************************************************************************)
JunkTable == [i \in 0..(FANOUT - 1) |-> [phys |-> BOOT_ROOT, bits |-> {0}]]

JunkBytes == [o \in 0..(PAGE_SIZE - 1) |-> 99]

TakePages(m, count) == [m EXCEPT !.free = AfterAlloc(@, count)]

DropPage(m, page) ==
  [m EXCEPT !.free = pmm_free(@, page, 1), !.table[page] = JunkTable, !.byte[page] = JunkBytes]

DropPages(m, pages) == FoldLeft(DropPage, m, pages)

(***************************************************************************)
(* The root registers.                                                      *)
(***************************************************************************)
arch_vmm_get_kernel_root(m) == IF m.arch = "x86_64" THEN m.root ELSE BOOT_ROOT

\* Writing the register drops every cached translation.
arch_vmm_set_user_root(m, root) == [m EXCEPT !.root = root, !.tlb = {}]

\* Mutant of CloneUpperHalf: a new root starts empty on both architectures.
CloneNothing(m, root) == m

\* One register serves both halves on x86_64: a new root needs the kernel's.
CloneUpperHalf(m, root) ==
  IF m.arch = "aarch64" THEN m
  ELSE [m EXCEPT !.table[root] =
         [i \in DOMAIN @ |-> IF i >= FANOUT \div 2
                             THEN m.table[arch_vmm_get_kernel_root(m)][i] ELSE @[i]]]

\* The root of a new context, 0 when there is no page for it.
arch_vmm_new_context_root(m) == pmm_alloc(m.free, 1)

(***************************************************************************)
(* Walks.  Table 0 stands for NULL.                                         *)
(***************************************************************************)
get_root_table(m, root, virt) ==
  IF virt >= VMM_ADDR_SPLIT THEN arch_vmm_get_kernel_root(m) ELSE root

\* One level down, with a fresh table where the entry is not present.
get_or_create_table(m, table, index) ==
  LET pte == m.table[table][index]
      new == pmm_alloc(m.free, 1)
  IN  IF arch_vmm_pte_is_present(pte) THEN [m |-> m, table |-> pte.phys]
      ELSE IF new = 0 THEN [m |-> m, table |-> 0]
      ELSE [m |-> [TakePages(m, 1) EXCEPT
                     !.table[new] = BlankTable,
                     !.table[table][index] =
                        arch_vmm_make_pte(m.arch, new, {"PRESENT", "WRITABLE", "USER"}, TRUE)],
            table |-> new]

\* The table that holds virt's leaf, made on the way; and the one there is.
WalkCreate(m, root, virt) ==
  LET at[level \in 0..(LEVELS - 1)] ==
        IF level = LEVELS - 1 THEN [m |-> m, table |-> get_root_table(m, root, virt)]
        ELSE LET up == at[level + 1]
             IN  IF up.table = 0 THEN up
                 ELSE get_or_create_table(up.m, up.table, VMM_INDEX(virt, level + 1))
  IN  at[0]

Walk(m, root, virt) ==
  LET at[level \in 0..(LEVELS - 1)] ==
        IF level = LEVELS - 1 THEN get_root_table(m, root, virt)
        ELSE LET up  == at[level + 1]
                 pte == m.table[up][VMM_INDEX(virt, level + 1)]
             IN  IF up # 0 /\ arch_vmm_pte_is_present(pte) THEN pte.phys ELSE 0
  IN  at[0]

\* virt's leaf, NoPte when there is none.
Leaf(m, root, virt) ==
  LET t == Walk(m, root, virt)
  IN  IF t = 0 THEN NoPte ELSE m.table[t][VMM_INDEX(virt, 0)]

vmm_virt_to_phys(m, root, virt) ==
  LET pte == Leaf(m, root, virt) IN IF arch_vmm_pte_is_present(pte) THEN pte.phys ELSE 0

\* Mutant of arch_vmm_invlpg: nothing is flushed.
FlushNothing(m, virt) == m

\* x86_64 drops one page's translation, AArch64 all of them.
arch_vmm_invlpg(m, virt) ==
  [m EXCEPT !.tlb = IF m.arch = "x86_64" THEN {e \in @ : e[1] # virt} ELSE {}]

\* On failure the tables made on the way stay.
vmm_map_page(m, root, virt, phys, flags) ==
  LET w == WalkCreate(m, root, virt)
      leaf == arch_vmm_make_pte(m.arch, phys, flags \cup {"PRESENT"}, FALSE)
  IN  IF w.table = 0 THEN [ok |-> FALSE, m |-> w.m]
      ELSE [ok |-> TRUE,
            m  |-> arch_vmm_invlpg([w.m EXCEPT !.table[w.table][VMM_INDEX(virt, 0)] = leaf], virt)]

vmm_unmap_page(m, root, virt) ==
  IF ~arch_vmm_pte_is_present(Leaf(m, root, virt)) THEN [ok |-> FALSE, m |-> m]
  ELSE [ok |-> TRUE,
        m  |-> arch_vmm_invlpg(
                 [m EXCEPT !.table[Walk(m, root, virt)][VMM_INDEX(virt, 0)] = NoPte], virt)]

(***************************************************************************)
(* Contexts.                                                                *)
(***************************************************************************)

\* A new root and the kmalloc'ed context: [root, m], root 0 on failure.
vmm_create_context(m) ==
  LET root == arch_vmm_new_context_root(m)
      made == CloneUpperHalf([TakePages(m, 1) EXCEPT !.table[root] = BlankTable], root)
  IN  IF root = 0 THEN [root |-> 0, m |-> m]
      ELSE IF m.heap = 0 THEN [root |-> 0, m |-> DropPage(made, root)]
      ELSE [root |-> root, m |-> [made EXCEPT !.heap = @ - 1]]

\* The present children of a table among the entries 0..(n - 1).
Children(m, table, n) ==
  SelectSeq([i \in 1..n |-> m.table[table][i - 1]], arch_vmm_pte_is_present)

\* The pages under a table, in the order vmm_free_table_recursive frees them:
\* what is below a child, then the child.
vmm_free_table_recursive(m) ==
  LET under[level \in 0..(LEVELS - 2)] ==
        [table \in DOMAIN m.table |->
           FlattenSeq([i \in 1..Len(Children(m, table, FANOUT)) |->
             LET child == Children(m, table, FANOUT)[i].phys
             IN  (IF level > 0 THEN under[level - 1][child] ELSE <<>>) \o <<child>>])]
  IN  under

\* The entries of a root below the kernel's half.
LowerHalf == FANOUT \div 2

\* Every page of the lower half, then the root, then the context itself.
ContextPages(m, root) ==
  FlattenSeq([i \in 1..Len(Children(m, root, LowerHalf)) |->
    LET child == Children(m, root, LowerHalf)[i].phys
    IN  vmm_free_table_recursive(m)[LEVELS - 2][child] \o <<child>>]) \o <<root>>

vmm_destroy_context(m, root) ==
  [DropPages(m, ContextPages(m, root)) EXCEPT !.heap = @ + 1]

(***************************************************************************)
(* Page faults.  The processor's error code tells a missing translation     *)
(* from a forbidden access (external: FaultCode).                           *)
(***************************************************************************)
FaultCode(arch, present, write) ==
  IF arch = "x86_64" THEN (IF present THEN 1 ELSE 0) + (IF write THEN 2 ELSE 0)
  ELSE (IF present THEN 15 ELSE 7) + (IF write THEN 64 ELSE 0)

arch_vmm_fault_is_present(arch, code) ==
  IF arch = "x86_64" THEN code % 2 = 1 ELSE (code % 64) \div 4 # 1

\* The direct map is extended to the devices above memory.
try_handle_hhdm_mmio_fault(m, kernel_root, virt, code) ==
  LET inside == virt >= HHDM_PAGE /\ virt < HHDM_PAGE + max_phys_addr \div PAGE_SIZE
  IN  IF ~inside \/ arch_vmm_fault_is_present(m.arch, code) THEN [ok |-> FALSE, m |-> m]
      ELSE vmm_map_page(m, kernel_root, virt, virt - HHDM_PAGE, {"WRITABLE", "CACHE_DISABLE"})

\* Mutant of DemandMap: a page that cannot be mapped is not returned.
DemandMapLeaks(m, root, virt) ==
  LET phys == pmm_alloc(m.free, 1)
  IN  IF phys = 0 THEN [ok |-> FALSE, m |-> m]
      ELSE vmm_map_page(TakePages(m, 1), root, virt, phys, {"WRITABLE", "USER"})

\* A zeroed page for virt; given back when it cannot be mapped.
DemandMap(m, root, virt) ==
  LET phys == pmm_alloc(m.free, 1)
      r    == vmm_map_page([TakePages(m, 1) EXCEPT !.byte[phys] = BlankBytes],
                           root, virt, phys, {"WRITABLE", "USER"})
  IN  IF phys = 0 THEN [ok |-> FALSE, m |-> m]
      ELSE IF ~r.ok THEN [ok |-> FALSE, m |-> DropPage(r.m, phys)]
      ELSE r

\* ctx is the current context's record [root, lo, hi].
try_handle_demand_page_fault(m, ctx, virt, code) ==
  IF virt < ctx.lo \/ virt >= ctx.hi \/ arch_vmm_fault_is_present(m.arch, code)
  THEN [ok |-> FALSE, m |-> m]
  ELSE DemandMap(m, ctx.root, virt)

vmm_handle_page_fault(m, kernel_root, ctx, virt, code) ==
  LET r == try_handle_hhdm_mmio_fault(m, kernel_root, virt, code)
  IN  IF r.ok THEN r ELSE try_handle_demand_page_fault(r.m, ctx, virt, code)
=============================================================================
