------------------------------- MODULE Process -------------------------------
(***************************************************************************)
(* Address spaces and tasks over the page tables: what _start, the self     *)
(* tests and page faults do with vmm.c, elf.c, task.c and kstack.c.  Memory *)
(* runs out at every point: how many pages or heap objects there are at the *)
(* start is chosen by Init.  The context of a caller goes from "new" to     *)
(* "loaded" and "stacked", or to "failed"; task_create_user hands it to a   *)
(* task.                                                                    *)
(***************************************************************************)
EXTENDS ElfLoad, FiniteSets

LOCAL INSTANCE FiniteSetsExt
LOCAL INSTANCE SequencesExt

CONSTANTS CtxIds,         \* contexts besides the kernel's
          TaskIds,
          Images,         \* programs, as functions of their names
          KSTACK_PAGES,
          BootTables,     \* page tables the boot loader left: page -> entries
          DemandRange,    \* <<lo, hi>>: the range of the self tests
          StackTop,       \* USER_STACK_TOP
          Touched,        \* pages programs and the kernel touch
          MapAt,          \* page the self tests map and unmap
          ArgLists,       \* lengths of argument strings
          Starts          \* bound: records [taken, objects, contexts, program, tests]:
                          \* pages taken before, objects the heap can hold, contexts
                          \* ever created, the file to load, whether the self tests
                          \* or programs run

VARIABLES m,
          ctxs,      \* the contexts by name
          current,   \* vmm_current_context
          tasks,
          lost,      \* history: pages elf.c lost
          orphans,   \* history: tables of the kernel's half no root leads to
          panicked,  \* the kernel has stopped
          start,     \* history: pages, heap objects and program at the start
          created    \* history: contexts created so far

vars == <<m, ctxs, current, tasks, lost, orphans, panicked, start, created>>

AllPages == UsablePages \cup DOMAIN BootTables

NoCtx == [root |-> 0, lo |-> 0, hi |-> 0, stage |-> "none", image |-> "none"]

NewCtx(root) == [NoCtx EXCEPT !.root = root, !.stage = "new"]

NoTask == [exists |-> FALSE, ctx |-> "none", kstack |-> 0, fpu |-> FALSE, file |-> FALSE]

KernelRoot == ctxs["kernel"].root

\* vmm_init: AArch64 has no user root yet and takes a blank page for one.
Init ==
  \E arch \in {"x86_64", "aarch64"}, s \in Starts :
    LET list == SubSeq(Usable, s.taken + 1, Len(Usable))
        root == IF arch = "x86_64" THEN BOOT_ROOT ELSE pmm_alloc(list, 1)
    IN  /\ m = [arch |-> arch,
                free |-> IF arch = "x86_64" THEN list ELSE AfterAlloc(list, 1),
                table |-> [p \in AllPages |-> IF p \in DOMAIN BootTables THEN BootTables[p]
                                              ELSE IF p = root THEN BlankTable ELSE JunkTable],
                byte |-> [p \in AllPages |-> JunkBytes],
                heap |-> s.objects, root |-> root, tlb |-> {}]
        /\ ctxs = [id \in CtxIds \cup {"kernel"} |-> IF id = "kernel" THEN NewCtx(root) ELSE NoCtx]
        /\ current = "kernel"
        /\ tasks = [t \in TaskIds |-> NoTask]
        /\ lost = {} /\ orphans = {}
        /\ panicked = FALSE
        /\ start = [pages |-> Pages(list), objects |-> s.objects, contexts |-> s.contexts,
                    program |-> s.program, tests |-> s.tests]
        /\ created = 0

Exists(id) == ctxs[id].stage # "none"

Live == {id \in DOMAIN ctxs : Exists(id)}

HeldByTask(id) == \E t \in TaskIds : tasks[t].ctx = id

\* A context its creator still holds and has not activated.
Callers(id) == id \in CtxIds /\ Exists(id) /\ ~HeldByTask(id) /\ current # id

\* The tables under the upper half of the roots, the boot loader's included.
\* Those the kernel adds on x86_64 hang in the root that is active then; when
\* that is destroyed, nothing leads to them unless a later root cloned it.
KernelTables ==
  LET half(level) == IF level = LEVELS - 1 THEN FANOUT \div 2 ELSE 0
      at[level \in 0..(LEVELS - 1)] ==
        IF level = LEVELS - 1 THEN {BOOT_ROOT} \cup {ctxs[id].root : id \in Live}
        ELSE {pte.phys : pte \in {e \in {m.table[t][i] : t \in at[level + 1],
                                                       i \in half(level + 1)..(FANOUT - 1)} :
                                 arch_vmm_pte_is_present(e)}}
  IN  UNION {at[level] : level \in 0..(LEVELS - 2)}

\* A context may be gone, and its kernel half with it.
Orphan == orphans' = orphans \cup (KernelTables \ KernelTables')

(***************************************************************************)
(* Contexts.                                                                *)
(***************************************************************************)
\* _start makes a context for a program; a self test opts its own into demand
\* paging.
CreateContext(id, range) ==
  LET r == vmm_create_context(m)
  IN  /\ range = IF start.tests THEN DemandRange ELSE <<0, 0>>
      /\ ~Exists(id)
      /\ created < start.contexts
      /\ m' = r.m
      /\ ctxs' = IF r.root = 0 THEN ctxs
                 ELSE [ctxs EXCEPT ![id] = [NewCtx(r.root) EXCEPT !.lo = range[1], !.hi = range[2]]]
      /\ created' = IF r.root = 0 THEN created ELSE created + 1
      /\ UNCHANGED <<current, tasks, lost, orphans, start>>

DestroyContext(id) ==
  /\ Callers(id)
  /\ m' = vmm_destroy_context(m, ctxs[id].root)
  /\ ctxs' = [ctxs EXCEPT ![id] = NoCtx]
  /\ Orphan
  /\ UNCHANGED <<current, tasks, lost, start, created>>

vmm_switch_context(id) ==
  /\ Exists(id)
  /\ current # id
  /\ m' = arch_vmm_set_user_root(m, ctxs[id].root)
  /\ current' = id
  /\ UNCHANGED <<ctxs, tasks, lost, orphans, start, created>>

\* The self tests map a page of their own in the kernel's context, and unmap
\* and return it.
MapPage ==
  LET id   == "kernel"
      phys == pmm_alloc(m.free, 1)
      r    == vmm_map_page(TakePages(m, 1), ctxs[id].root, MapAt, phys, {"WRITABLE"})
  IN  /\ start.tests
      /\ phys # 0
      /\ vmm_virt_to_phys(m, ctxs[id].root, MapAt) = 0
      /\ m' = IF r.ok THEN r.m ELSE DropPage(r.m, phys)
      /\ UNCHANGED <<ctxs, current, tasks, lost, orphans, start, created>>

UnmapPage ==
  LET id == "kernel"
      r  == vmm_unmap_page(m, ctxs[id].root, MapAt)
  IN  /\ r.ok
      /\ m' = DropPage(r.m, vmm_virt_to_phys(m, ctxs[id].root, MapAt))
      /\ UNCHANGED <<ctxs, current, tasks, lost, orphans, start, created>>

\* Code runs in the current context and touches a page.  A page without a
\* translation faults first; the access is tried again when that is resolved,
\* and else the kernel panics.
Touch(virt) ==
  LET phys == vmm_virt_to_phys(m, m.root, virt)
      cached(n) == [n EXCEPT !.tlb = @ \cup {<<virt, vmm_virt_to_phys(n, n.root, virt)>>}]
  IN  /\ \A e \in m.tlb : e[1] # virt
      /\ \E r \in {IF phys # 0 THEN [ok |-> TRUE, m |-> m]
                  ELSE vmm_handle_page_fault(m, KernelRoot, ctxs[current], virt,
                                             FaultCode(m.arch, FALSE, TRUE))} :
           /\ m' = IF r.ok THEN cached(r.m) ELSE r.m
           /\ panicked' = ~r.ok
      /\ UNCHANGED <<ctxs, current, tasks, lost, orphans, start, created>>

(***************************************************************************)
(* Programs.                                                                *)
(***************************************************************************)
Load(id) ==
  /\ Callers(id)
  /\ ctxs[id].stage = "new"
  /\ ctxs[id].hi = 0
  /\ \E r \in {elf_load(m, ctxs[id].root, Images[start.program])} :
       /\ m' = r.m
       /\ lost' = lost \cup r.lost
       /\ ctxs' = [ctxs EXCEPT ![id].stage = IF r.ok THEN "loaded" ELSE "failed",
                               ![id].image = IF r.ok THEN start.program ELSE @]
  /\ UNCHANGED <<current, tasks, orphans, start, created>>

BuildStack(id) ==
  /\ Callers(id)
  /\ ctxs[id].stage = "loaded"
  /\ \E r \in {elf_build_user_stack(m, ctxs[id].root, StackTop)} :
       /\ m' = r.m
       /\ lost' = lost \cup r.lost
       /\ ctxs' = [ctxs EXCEPT ![id].stage = IF r.ok THEN "stacked" ELSE "failed"]
  /\ UNCHANGED <<current, tasks, orphans, start, created>>

(***************************************************************************)
(* Tasks.  kmalloc and kfree are a count of objects.                        *)
(***************************************************************************)
Kfree(n, had) == [n EXCEPT !.heap = IF had THEN @ + 1 ELSE @]

\* Mutant of task_destroy: the kernel's context is destroyed like any other.
task_destroy_kernel(n, t) ==
  LET n1 == Kfree(n, t.file)
      n2 == IF t.ctx = "none" THEN n1 ELSE vmm_destroy_context(n1, ctxs[t.ctx].root)
      n3 == [n2 EXCEPT !.free = pmm_free(@, t.kstack, KSTACK_PAGES)]
  IN  Kfree(Kfree(n3, t.fpu), TRUE)

\* Files, context unless it is the kernel's, stack, FPU area, the task.
task_destroy(n, t) ==
  LET n1 == Kfree(n, t.file)
      n2 == IF t.ctx \in {"none", "kernel"} THEN n1 ELSE vmm_destroy_context(n1, ctxs[t.ctx].root)
      n3 == [n2 EXCEPT !.free = pmm_free(@, t.kstack, KSTACK_PAGES)]
  IN  Kfree(Kfree(n3, t.fpu), TRUE)

kstack_alloc(n) == pmm_alloc(n.free, KSTACK_PAGES)

\* Each allocation may fail; what was taken before is then given back.
task_inner_create(n, ctx) ==
  LET take(k)   == [n EXCEPT !.heap = @ - k]
      stack     == kstack_alloc(n)
      t1        == [NoTask EXCEPT !.exists = TRUE]
      t2        == [t1 EXCEPT !.fpu = TRUE]
      t3        == [t2 EXCEPT !.kstack = stack, !.ctx = ctx]
      n3        == TakePages(take(2), KSTACK_PAGES)
      failed(k, t) == [task |-> NoTask, m |-> task_destroy(k, t), freed |-> {t.ctx} \cap CtxIds]
  IN  IF n.heap = 0 THEN [task |-> NoTask, m |-> n, freed |-> {}]
      ELSE IF n.heap = 1 THEN failed(take(1), t1)
      ELSE IF stack = 0 THEN failed(take(2), t2)
      ELSE IF n.heap = 2 THEN failed(n3, t3)
      ELSE [task |-> [t3 EXCEPT !.file = TRUE], m |-> [n3 EXCEPT !.heap = @ - 1], freed |-> {}]

\* task_create for kernel threads, task_create_user for programs.
CreateTask(t, id) ==
  LET r == task_inner_create(m, id)
  IN  /\ ~tasks[t].exists
      /\ id = "kernel" \/ (Callers(id) /\ ctxs[id].stage = "stacked")
      /\ m' = r.m
      /\ tasks' = [tasks EXCEPT ![t] = r.task]
      /\ ctxs' = [c \in DOMAIN ctxs |-> IF c \in r.freed THEN NoCtx ELSE ctxs[c]]
      /\ Orphan
      /\ UNCHANGED <<current, lost, start, created>>

DestroyTask(t) ==
  LET id == tasks[t].ctx
  IN  /\ tasks[t].exists
      /\ id = "kernel" \/ current # id
      /\ m' = task_destroy(m, tasks[t])
      /\ tasks' = [tasks EXCEPT ![t] = NoTask]
      /\ ctxs' = [c \in DOMAIN ctxs |-> IF c = id /\ c # "kernel" THEN NoCtx ELSE ctxs[c]]
      /\ Orphan
      /\ UNCHANGED <<current, lost, start, created>>

Calls ==
  \/ \E id \in CtxIds :
       \/ \E range \in {<<0, 0>>, DemandRange} : CreateContext(id, range)
       \/ DestroyContext(id) \/ Load(id) \/ BuildStack(id)
  \/ \E id \in CtxIds \cup {"kernel"} :
       vmm_switch_context(id) \/ \E t \in TaskIds : CreateTask(t, id)
  \/ MapPage \/ UnmapPage
  \/ \E t \in TaskIds : DestroyTask(t)

Next ==
  \/ ~panicked /\ Calls /\ UNCHANGED panicked
  \/ ~panicked /\ \E virt \in Touched : Touch(virt)

Spec == Init /\ [][Next]_vars

(***************************************************************************)
(* Properties.                                                              *)
(***************************************************************************)
\* The state has its shape: lists of usable pages, roots that are pages.
TypeOK ==
  /\ Pages(m.free) \subseteq UsablePages
  /\ m.heap \in 0..start.objects
  /\ \A id \in Live : ctxs[id].root \in AllPages
  /\ current \in Live
  /\ m.root = ctxs[current].root

\* Whatever fails half way, every page is in one place: on the free list, in
\* the tree of one context, under the kernel's half, in a task's stack, or
\* lost; and every heap object belongs to a context or a task.  So nothing is
\* freed twice and destroying returns the rest.  Pages are lost in two ways:
\* elf_load and elf_build_user_stack lose the one they could not map, and a
\* destroyed x86_64 context the tables that only its kernel half had.
ResourcesAccounted ==
  LET stack(t) == IF tasks[t].exists THEN Run(tasks[t].kstack, KSTACK_PAGES) ELSE {}
      kernel   == KernelTables \cap UsablePages
      gone     == lost \cup orphans
      trees    == FlattenSeq(SetToSeq({ContextPages(m, ctxs[id].root) : id \in Live}))
  IN  /\ Len(m.free) + Cardinality(kernel) + Cardinality(gone) + Len(trees)
           + MapThenSumSet(LAMBDA t : Cardinality(stack(t)), TaskIds)
             = Cardinality(start.pages) + (IF m.arch = "x86_64" THEN 1 ELSE 0)
      /\ Pages(m.free) \cup kernel \cup gone \cup Pages(trees) \cup UNION {stack(t) : t \in TaskIds}
           = start.pages \cup (IF m.arch = "x86_64" THEN {BOOT_ROOT} ELSE {})
      /\ m.arch = "aarch64" => orphans = {}
      /\ m.heap + Cardinality(Live \ {"kernel"})
           + 3 * Cardinality({t \in TaskIds : tasks[t].exists}) = start.objects

\* What the processor finds at virt with the context active.
SeenIn(id, virt) == Leaf([m EXCEPT !.root = ctxs[id].root], ctxs[id].root, virt)

\* The entries the boot loader left, and the roots that lead to them.
BootEntries ==
  {e \in (DOMAIN BootTables) \X (0..(FANOUT - 1)) : arch_vmm_pte_is_present(BootTables[e[1]][e[2]])}

KernelRoots == IF m.arch = "x86_64" THEN {ctxs[id].root : id \in Live} ELSE {BOOT_ROOT}

\* The kernel runs in every context: each sees what the boot loader mapped in
\* the kernel's half, and a device mapped there later is the same one in all
\* that have it.  Not all do: on x86_64 it hangs in the root that was active,
\* and the others fault on it again.
KernelHalfAgrees ==
  /\ \A e \in BootEntries : \A t \in IF e[1] = BOOT_ROOT THEN KernelRoots ELSE {e[1]} :
       m.table[t][e[2]] = BootTables[e[1]][e[2]]
  /\ \A virt \in {v \in Touched : v >= HHDM_PAGE} :
       Cardinality({SeenIn(id, virt) : id \in Live} \ {NoPte}) <= 1

\* The processor never holds a translation the current tables do not give:
\* no access goes to a page that was unmapped, replaced or returned.
TlbCoherent == \A e \in m.tlb : vmm_virt_to_phys(m, m.root, e[1]) = e[2]

LoadSegments(name) == {k \in 1..Len(Images[name].phdrs) : Images[name].phdrs[k].type = "PT_LOAD"}

\* What the program's file says of a byte: of the last segment whose file part
\* covers it, else zero.
ImageByte(name, addr) ==
  LET ph(k)  == Images[name].phdrs[k]
      covers == {k \in LoadSegments(name) : addr \in ph(k).vaddr..(ph(k).vaddr + ph(k).filesz - 1)}
      k      == Max(covers)
  IN  IF covers = {} THEN 0 ELSE ph(k).offset + addr - ph(k).vaddr + 1

\* A loaded program is in memory as its file says, whichever pages its segments
\* share and whatever else is loaded, mapped, faulted in or destroyed: each
\* byte has its value, each page the rights of the last segment on it.
ImageLoaded ==
  \A id \in Live : ctxs[id].image # "none" =>
    LET name == ctxs[id].image
        segs == LoadSegments(name)
        ph(k) == Images[name].phdrs[k]
        onPage(page) == {k \in segs : page \in Pages(SegmentPages(ph(k)))}
    IN  /\ \A k \in segs : \A addr \in ph(k).vaddr..(ph(k).vaddr + ph(k).memsz - 1) :
             LET phys == vmm_virt_to_phys(m, ctxs[id].root, addr \div PAGE_SIZE)
             IN  phys # 0 /\ m.byte[phys][addr % PAGE_SIZE] = ImageByte(name, addr)
        /\ \A page \in UNION {Pages(SegmentPages(ph(k))) : k \in segs} :
             arch_vmm_pte_get_flags(m.arch, Leaf(m, ctxs[id].root, page))
               = {"PRESENT", "USER"}
                   \cup If("W" \in ph(Max(onPage(page))).flags, {"WRITABLE"})
                   \cup If("X" \notin ph(Max(onPage(page))).flags, {"NO_EXECUTE"})

\* What the program finds at an offset of its stack's page.
WordIs(page, at, word) ==
  at >= 0 /\ at + 7 < STACK_BYTES /\ \A k \in 0..7 : page[at + k] = WordByte(word, k)

StringIs(page, at, strings, i) ==
  /\ at + strings[i] < STACK_BYTES
  /\ \A k \in 0..strings[i] : page[at + k] = Character(strings, i, k)

\* The ABI's initial stack: from the aligned stack pointer up, argc, pointers
\* to the arguments, NULL, pointers to the environment, NULL, AT_NULL.
AbiStack(argv, envp) ==
  LET page    == StackPage(StackTop, argv, envp)
      strings == argv \o envp
      sp      == StackCursor(argv, envp)
      slot(i) == sp + 8 * (IF i <= Len(argv) THEN i ELSE i + 1)
      nulls   == {Len(argv) + 1} \cup {Len(strings) + k : k \in 2..4}
  IN  /\ sp >= 0 /\ sp % 16 = 0
      /\ WordIs(page, sp, Len(argv))
      /\ \A i \in 1..Len(strings) : \E at \in 0..(STACK_BYTES - 1) :
           WordIs(page, slot(i), (StackTop - 1) * STACK_BYTES + at) /\ StringIs(page, at, strings, i)
      /\ \A k \in nulls : WordIs(page, sp + 8 * k, 0)

\* The strings and the words are no more than a page.
FitsPage(argv, envp) ==
  StringBytes(argv) + StringBytes(envp) + 8 * StackSlots(argv, envp) <= STACK_BYTES

StacksWellFormed == \A argv, envp \in ArgLists : AbiStack(argv, envp) <=> FitsPage(argv, envp)

\* Arguments that fit the page, to the last byte, reach the program whole
\* and where the ABI wants them: padding and alignment never take more than
\* is left, and no word is written over a string.  elf_build_user_stack has
\* no check for the ones that do not fit, and their stack is broken.
StackWellFormed == (\E id \in Live : ctxs[id].stage = "stacked") => StacksWellFormed

\* A context is destroyed by its owner only.  task.c calls the context handed
\* to task_create_user one "we dont own".
OnlyOwnersDestroy ==
  [][\A id \in CtxIds : Exists(id) /\ ~Exists(id)' =>
       DestroyContext(id) \/ \E t \in TaskIds : DestroyTask(t)]_vars
=============================================================================
