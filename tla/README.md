# A TLA+ model of the pros kernel

pros is a small kernel for x86_64 and aarch64: one processor, preemptive kernel
threads and user tasks, a serial console with a line discipline and a screen, an
in-memory file system, an ELF loader. This directory models it, checks the models
with TLC on small instances and proves the safety of its concurrent core, of the
page allocator and of the line buffer for every instance with TLAPS.
`PROJECT.json` holds the machine-readable side: components, runs, hazards,
theorems, and for every definition the source lines it models.

## The system and its parts

| Part | Source (under `src/kernel/src/`) | Here |
|---|---|---|
| Scheduler, run queue | `proc/sched.c` | `RoundRobin`, `Sched`, `ReadyQueue`, `RunQueue` |
| Trap entry, exit, stack switch | `arch/*/{isr,vectors,syscall_entry,switch}.S`, `idt.c`, `exceptions.c` | `Kernel` |
| Console device and its lock | `drivers/console_dev.c`, `core/spinlock.c` | `Kernel`, `LineSource`, `Terminal` |
| Line discipline | `core/ldisc.c` | `Ldisc`, `LdiscLine`, `Terminal` |
| Text output | `core/console.c`, `core/kprintf.c`, `core/fb.c` | `Framebuffer`, `Terminal` |
| Page allocator, heap | `mm/pmm.c`, `mm/heap.c` | `Pmm`, `PagePool`, `Heap` |
| Virtual memory | `mm/vmm.c`, `arch/*/arch.c` | `Vmm`, `Process` |
| ELF loader | `proc/elf.c` | `ElfLoad`, `Process` |
| Task creation and destruction, kernel stacks | `proc/task.c`, `proc/kstack.c` | `Process`, `Files` |
| Descriptors and open files | `fs/vfs/file.c`, `mm/uaccess.c` | `Files`, `OpenFiles`, `VfsTree` (getdents64) |
| VFS, ramfs, tar | `fs/vfs/vfs.c`, `fs/ramfs/ramfs.c`, `fs/tar/tar.c` | `RamfsFile`, `Vfs`, `VfsTree` |
| Timer tick, boot, system call dispatch | `core/timer.c`, `core/main.c`, `syscall/syscall.c` | in part, in `Kernel`, `Process`, `Files`, `VfsTree` |

How they interact: user tasks enter the kernel by system calls, which run with
interrupts on and may be preempted. The timer interrupt asks for a reschedule;
every trap exit may hand the processor to the scheduler thread (`scheduler()`, on
the boot stack), which picks the next READY task of a circular list. The serial
interrupt feeds the line discipline under the console's spinlock, echoes, and
wakes the readers sleeping on it; the echo prints on the same screen as a write
it may have interrupted. Boot fills the file tree from an archive, loads the first
program into an address space and hands that to a task.

## Modules

The concurrent core:

- **`RoundRobin`**: the run queue as a sequence; `AddAfterHead` is
  `sched_add_task`, `FirstReady` is `sched_pick_next`.
- **`Sched`**: the static variables of `sched.c` and the fields of `struct task`
  it works on, one operator per function or per stretch of one between two
  places where control leaves it.
- **`Ldisc`**: `struct ldisc` as a record and the functions on it as operators.
- **`Kernel`** composes the two on the processor. `on_cpu` is the kernel stack
  the processor stands on; `pc` says where the task's own code is on each stack,
  `trap` where the handler of an interrupt that hit it is. Only what runs on
  `on_cpu` moves, and an interrupt may come whenever `irq_on`. One action is one
  stretch of code that no interrupt can split or, in masked code, one stretch
  between the steps a property tells apart.
- **`KernelProps`** states the properties, **`LineSource`** the abstract promise
  of the console, **`KernelInv`** the inductive invariant, **`MCKernel`** the
  instance for TLC.
- **`ReadyQueue`**, **`RunQueue`**, **`MCRunQueue`**: the queue as `Sched` uses
  it, the queue as linked pointers, and the instance.

What the human sees:

- **`LdiscLine`**: a typist and a reader on `Ldisc`, against a buffer-free
  reference of what the typed keys amount to.
- **`Framebuffer`**: `fb.c` as operators on a record of pixels, cursor, escape
  state and colours; `fb_terminal_print_char` is split where an interrupt can
  come between a load and a store.
- **`Terminal`** composes the two. A program's write goes step by step
  (`serial_putc`, `PrintChar`, `AdvanceCursor`, `WrapCursor`, `FeedLine`,
  `ScrollScreen`); the serial interrupt, with its echo or the task dump of
  Ctrl-P, is one step that may come between any two. **`MCTerminal`** is the
  instance.

Memory:

- **`Pmm`**: the free list as the sequence of its pages. **`PagePool`**: callers
  that take and return blocks.
- **`Heap`** on `PagePool`: the block list, and the memory the headers and the
  callers' data live in. Every caller writes all of what it was given, and
  another user takes pages. **`MCHeap`** is the instance.
- **`Vmm`**: tables, entries of both architectures, walks, contexts, page faults
  and the TLB as operators on a record `m` of the machine's memory, with the free
  list of `Pmm` inside. **`ElfLoad`**: both passes of the loader and the page of
  the first stack. **`Process`**: the calls boot, self tests, page faults and
  tasks make of them, one action each. **`MCProcess`** is the instance.

Files:

- **`RamfsFile`**: a file's page list with its holes, reads and writes. **`Files`**: the
  calls of `file.c` on descriptor tables. **`OpenFiles`** is the abstract
  specification: a file is a sequence of bytes, a descriptor a position in it.
  **`MCFiles`** is the instance.
- **`Vfs`**: directories, mounts and path walks. **`VfsTree`**: boot up to the
  mounted console, `tar_load` header by header, then the creations of the self
  tests beside calls of getdents64. **`MCVfsTree`** is the instance.

Proofs: **`BasicLemmas`** (sequences, least numbers, recurrences, loops),
**`KernelStepProofs`** and **`KernelProofs`**, **`RunQueueProofs`**, **`TerminalProofs`**,
**`FilesProofs`**, **`HeapBlockProofs`** and **`HeapProofs`**.

Definitions whose comment starts with "Mutant of" are faulty variants of the
definition that follows. No specification uses them; substituting one must make
the property paired with it in `PROJECT.json` fail, which shows that the property
depends on that code.

### What is abstracted

In the concurrent core:

- Tasks: `main` queues one task, and `fork` answers ENOSYS. The model queues any
  number through the same `sched_add_task`, before `scheduler()` starts, because
  the scheduler and the console are written for several.
- A trap frame pointer is "user" (the frame at the top of the kernel stack),
  "nested" (the frame of an interrupt inside a system call) or "dangling" (the
  place of a nested frame already popped). Register contents are left out.
- `loaded` stands for the kernel stack top and the address space together:
  `scheduler()` sets both, masked, one after the other.
- A system call is a console read that passed its argument checks, an exit, or a
  call that touches neither the scheduler nor console input. The read's size is
  chosen when it is used. Page faults, fatal exceptions and the stack guard words
  are left out of `Kernel`.
- An interrupt with nothing to do, spurious ones included, is `OtherIrq`.
- Interrupts are off from boot until the first task runs or the scheduler idles.
- Idling follows x86_64 (`sti; hlt; cli`). On aarch64 (`wfi`, then a window) the
  wait may also end with no interrupt taken, which repeats the scheduler's loop.
- Bytes are printable ones (`Chars`), backspace, newline, Ctrl-P and the other
  control bytes.

On the screen:

- A glyph is solid: what counts is which cell shows which character in which
  colour. The font's bitmaps are data, and bytes from 128 on are left out.
- The terminal at the other end of the serial line is external: it prints, backs
  up on BS, starts a line on newline and follows escape sequences.
- The cursor and the escape state are plain C variables an interrupt also writes.
  Where the compiler may use a value loaded before the interrupt or load it again,
  both are possible. Pixels torn inside one drawing loop are not modelled: after
  such an interrupt the run claims nothing of the pixels (`mixed`), only that the
  cursor stays on the screen.
- The texts of the instance set foreground colours; background codes are in the
  model and not in the texts.

In memory and files:

- Pages are numbers, a page has few bytes, tables have 3 levels of 4 entries (the
  code: 4 of 512). Flags are the real bits of each architecture.
- In `Process` the heap is a number of objects that can still be allocated: what
  it does with them is `Heap`'s matter. The three standard descriptors share one
  open file, so a task is four allocations: itself, its FPU area, its stack and
  that file.
- The checks of an ELF header are one flag of an image. The byte at offset k of a
  file is k + 1, so that a misplaced byte shows.
- `Files` runs one of a few programs, each a set of arguments it may pass in any
  order: one works on a file through two descriptors, one on console and
  directory. System calls of the one program do not overlap, and no interrupt
  touches their state, so each is one step. `sys_lseek` is called by the self tests
  only, there being no entry for it in the system call table.
- Offsets and sizes wrap at a width of few bits (`W`, `SIZE_MAX`).
- A page that was never used or was returned holds junk: entries that look present
  and bytes that are not zero. Nobody clears a page on its way through the allocator,
  so a table or a page of a program is right only if its taker clears it.
- An archive is whole blocks, at least as many as its headers say.
- The contents of a program's first stack are a page of their own (`StackPage`), as
  pages in `Process` have two bytes.
- In `Vfs` a path is a sequence of characters, because its rules are about them:
  repeated slashes, names cut to their buffer, mounts chosen by prefix.

## Runs

| Run | Instance | What it shows |
|---|---|---|
| `kernel_safety` | 3 tasks | the invariants below and `DeadNeverRunsAgain` |
| `kernel_liveness` | 2 tasks, with fairness | `ReadyRuns`, `LastExitPowersOff`, `ServesLines` |
| `kernel_trap_frame` | 2 tasks | the comment on `task->trap_frame` is not what the code does |
| `run_queue` | 4 tasks | `OneRing`, `BoundedWait`, pointers implement `ReadyQueue` |
| `terminal` | 2 characters, 3-byte line, a screen of 2 rows by 2 columns and a strip, 4 keys, 1 write | a line typed, echoed and read while a write is interrupted |
| `terminal_erase` | the same keys, 3 rows by 8 columns | an erased character stays on the screen, where nothing wraps or scrolls |
| `heap` | 3 callers, 3 pages | no byte of anybody's is overwritten, no memory is lost |
| `address_space` | 10 pages, 2 contexts, 1 task, both architectures | memory, mappings and loaded programs |
| `context_ownership` | the same | a failed `task_create_user` destroys its caller's context |
| `files` | 1 file, 1 directory, the console, 2 pages, 5 descriptors | descriptors, pages, and that the calls implement `OpenFiles` |
| `vfs_tree` | 7 archives and none, with and without their end, 11 amounts of memory | the tree, the archive's contents in it, listing it |
| `mount_prefix` | the same | a mount hides paths that only start like its own |

The concurrent core:

- **`NeverSpins`**: nobody asks for the console's lock while it is taken. With
  one processor that would never end.
- **`NoLostWakeup`**: no task sleeps while a finished line is there, except
  between the feed that finished it and its `wakeup()`.
- **`RunsCurrent`**: the running task, `current`, the loaded stack and address
  space and the RUNNING state agree.
- **`LeavesByOwnFrame`**: a preempted task leaves a trap through that trap's
  frame, whatever nested traps did to `task->trap_frame`.
- **`NoPanic`**: the checks of `sched.c` that would panic hold, the stack guard
  words apart.
- **`IdlesOnlyWhenNothingReady`**: idle means nothing READY and something alive;
  power-off means everything DEAD.
- **`DeadNeverRunsAgain`**: exit is final, also when a tick falls between the two
  assignments of `sched_exit_current`.
- **`ReadyRuns`**, **`LastExitPowersOff`**: no starvation; the machine stops.
- **`ServesLines`**: the console implements `LineSource`. A finished line is
  handed out exactly once in non-empty pieces, and while it is there and somebody
  reads, somebody is served. This is where the `while` around `sleep()` matters.
- **`OneRing`**, **`BoundedWait`**, **`ImplementsReadyQueue`**: the links form one
  ring; a READY task waits for at most one dispatch of each other task; the
  pointers pick what the sequence picks.

What the human sees:

- **`EditsLine`**, **`HandsOutLine`**, **`ReadyHasBytes`**: the buffer holds what
  the keys amount to; reads of any size hand it out once and in order; a finished
  line is never empty, also after an overflow.
- **`EchoShowsLine`**: until other output runs into it, the line on the serial
  terminal is the line in the buffer, and an erase never reaches the prompt.
- **`ScreenShowsOutput`**: whatever interrupts a write, between two characters the
  cursor is inside the screen; and unless an interrupt printed inside a character,
  the pixels show the text put out last, wrapped, scrolled, and the strip below
  the last whole row blank.

Memory:

- **`PagesConserved`**: each usable page is free or handed out, once.
- **`NothingOverwritten`**, **`BlocksTileHeap`**: every header, every caller's
  bytes and every page of the other user keep what was stored there, with sizes
  at the edge of `size_t`; each byte of the heap's pages is in exactly one block.
- **`ResourcesAccounted`**: wherever memory runs out, each page is in one place and
  each heap object has its owner. Two losses are counted, and the property says
  that there is no other: the page that a failed mapping in `elf.c` neither maps nor
  frees (`lost`), and on x86_64 the tables of the kernel's half that hung only in the
  root of a destroyed context (`orphans`).
- **`KernelHalfAgrees`**: every context sees what the boot loader mapped in the
  kernel's half, and a device mapped there later never means two things. It is not
  one shared half: `arch_vmm_new_context_root` copies the root's upper entries once,
  and on x86_64 a device behind an entry that was absent then is mapped in the root
  that is active at the fault (`arch_vmm_get_kernel_root`), so other contexts fault
  on it again and get tables of their own. **`TlbCoherent`**: the processor holds no
  stale translation.
- **`ImageLoaded`**: a loaded program is in memory byte for byte with the rights of
  its segments, shared pages and the zeroed part behind the file's bytes included.
- **`StackWellFormed`**: read from the stack pointer as the ABI says, the first stack
  gives argc, every argument and environment string whole, both terminators and
  AT_NULL, exactly when strings and words are no more than a page.
  `elf_build_user_stack` checks nothing, so longer arguments give a broken stack;
  its one caller passes none.

Files:

- **`DescriptorsCounted`**: an open file lives exactly as long as a descriptor
  refers to it. **`PagesAccounted`**: no page is lost, and none is kept beyond a
  file's size.
- **`KeepsPromises`**: the calls implement `OpenFiles`. Every answer, short writes,
  faults in the second chunk and wrapped positions included, says what was
  transferred and how far the position moved. `sys_lseek` answers the position as a
  signed number, so beyond half the range the answer is negative and the position
  has moved all the same. A console read whose destination is
  not writable loses the bytes it drained; `OpenFiles` allows that.
- **`TreeSound`**: nodes form trees, one under each mount, without two children of
  one name, names cut to a node's length excepted: `ramfs_node_new` stores a long
  name cut, `ramfs_ops_finddir` looks for the whole one, and so creating it twice
  makes two nodes.
- **`InitrdLoaded`**: a lookup of every packed entry's path finds it with its bytes,
  unless a mount's path begins the same; a name that fills its header field is found
  without its last character, which the loader's path buffer has no room for. A well
  packed archive is given up on only for want of memory.
- **`ListsInOrder`**: getdents64 hands out each entry once and in order, also while
  the directory grows.

### Bounds

Three tasks give a reader that drains, one that is woken for nothing and one that
is preempted. A 2-byte buffer holds one character and the newline, so it fills up
and is read in one or two pieces. One byte in the UART (`RxDepth`) suffices: the
receive loop meets an arriving byte at each turn, so it takes any number of them.
`CountMod` 1 erases the switch counters, which only the theorem `CountsBalance` is
about.

In `terminal`, four keys fill the 3-byte line, overflow it and erase; with the
write's escape sequence, character and newline they wrap and scroll a screen whose
sides are no multiples of the font's. The 2 pages of `files` are fewer than a write
across a hole needs, a copy chunk divides neither page nor request, and the 5 bits
of an offset wrap. In `heap`, a size of 127 is `SIZE_MAX` and 19 does not fit one page with
its header. `address_space` starts with each number of free pages that
makes another allocation the first to fail, and with 1 to 4 heap objects. Ten pages
hold one program with its task; where there are seven or fewer, two contexts compete
for them. A program's two segments share a page and the last one ends in zeroed bytes.
The kernel's half has an entry that is absent at boot, and programs touch a device
behind it. The page of `StackWellFormed` has 80 bytes, which up to two arguments and
two environment strings fill to the last byte and overflow. The archives of
`vfs_tree` have missing and nested directories, a name that fills its field, an entry
of another type, a name twice, a path through a file, a damaged header, a path the
console hides, and nothing at all; the self tests create names of a node's full
length, longer ones, and a path longer than the VFS takes. `Starts`, `MaxTexts`,
`MaxTyped`, `MaxKeys` and the budgets of `Files` bound what would not end.

Symmetry is used over tasks (not with fairness), keys, heap callers, contexts and
addresses of open files, none of which a definition tells apart. The view of
`terminal` drops pixels and reference text once an interrupt printed inside a
character: after that no property reads them, and no guard or cursor depends on
them. Runs that may stop (all tasks DEAD, a panic, a budget used up) do not check
deadlock; the kernel's runs, `terminal` and `heap` do.

### Fairness

`FairSpec` assumes: the processor executes the handler or masked code it stands in
(weak fairness). Open code and the scheduler thread, which interrupts may disable
again and again, get strong fairness: interrupts leave time to what they
interrupt. The timer keeps firing (it is periodic). The receive loop ends, because
it is faster than a serial line. Nothing is assumed of user programs, of typing, or
of other interrupts. The other modules claim safety only: each of their calls is
one step that ends.

### The disagreements found

- `kernel/include/proc/task.h:21` says that `trap_frame` is "rewritten on every
  kernel entry". The code writes it only in `sched_on_trap_exit`, as a trap ends
  (`proc/sched.c:74`), so inside a system call it is an earlier trap's pointer and
  may name a frame already popped. Nothing reads it in between
  (`LeavesByOwnFrame`).
- `proc/task.c:58` calls the context passed to `task_create_user` one "we dont
  own", and `doc/archive/PHASE5_STEP2_SYSCALL_SURFACE.md:139` has failure paths free
  it only if owned. When the standard descriptors cannot be opened, `task_destroy`
  (`proc/task.c:107`) destroys it, and the caller still holds it. `main.c` panics
  then, so nothing uses it today.
- `core/ldisc.c:35` erases by "back up, paint over it, back up again", after which
  the character "visually disappears" (`doc/archive/PHASE6_TALK_BACK.md:161`).
  `fb_terminal_print_char` has no case for BS and draws it as a blank that moves the
  cursor on (`core/fb.c:287`): on the screen the character stays and three blanks
  follow. The serial terminal shows it right.
- `doc/archive/PHASE2_STEP14_RAMFS.md:507` knows of a "prefix bug", "harmless with one
  mount": `vfs_get_mountpoint` compares characters, not components (`fs/vfs/vfs.c:49`).
  There is a second mount now, `/dev/console`, and an entry of the archive whose name
  only begins so is not found once it is mounted. The archive has none today.

## Proofs

For any finite set of tasks, any buffer, UART and counter size and any read sizes,
from the assumptions `SchedAssumption`, `LdiscAssumption` and `KernelAssumption`
only (`KernelProofs`): `TypeCorrect`, `LockNeverSpins`, `WakeupNotLost`,
`CurrentRuns`, `OwnFrame`, `NeverPanics`, `IdleIsRight` and `ExitIsFinal` prove
the seven invariants and the action property of `kernel_safety`.

None of the invariants is inductive alone. `IInv` (`KernelInv`) adds:

- `CpuInv`: every stack the processor is not on is parked in `sched()` or new, and
  interrupts are on exactly in the listed places;
- `LockInv`: the lock is taken exactly inside the two critical sections;
- `StateInv`: which states go with which places in the code, and that a DEAD task
  on the processor is about to be switched out;
- `WakeInv`: with a finished line nobody is BLOCKED outside the feed.

`WakeInv` rests on `LockInv` and `CpuInv`: a reader that found no line is masked
until it is BLOCKED and off the processor, so no feed comes in between.
There is one lemma per action: `KernelStepProofs` has those of interrupt handlers and
system calls, `KernelProofs` those of boot and the scheduler thread, the induction and
the theorems. It also proves that `sched_pick_next` returns a READY queued task
whenever there is one (`PickNextCorrect`, on which `IdleIsRight` rests), that
`sched_add_task` loses no task (`AddKeepsQueued`), for every ring, and
`SwitchCountsBalance` (`CountsBalance`), which `doc/PHASE7_STEP1_BLOCKING.md:856`
states and which holds also when the counters wrap: a dispatch and a return each change one
summand by one, modulo the counters' size, and which of the two is due follows from
`IInv`.

`RunQueueProofs` proves the four properties of `run_queue` for any number of tasks,
the refinement `ImplementsReadyQueue` included. Its `IInv` says that the links are
empty or one lap (`RingInv`: a function from positions to tasks, one to one, that
follows `next` and comes back to its start), where the cursor may be (`CursorInv`),
and `WaitInv`: a READY task k links ahead of the cursor has been passed over at most
as often as the cursor has moved on its lap. `BoundedWait` alone is not inductive,
because it forgets how far ahead the task is.

`HeapBlockProofs` starts with the page allocator: `PagesConserved` for every order of
allocations and frees of any number of pages (`PagesAreConserved`), from
`MemmapAssumption`: the boot loader's usable entries overlap nowhere. `PmmInv` adds that
the free list holds pages other than 0, the failure value. The argument: the search stops
at a place where the list descends page by page, so the addresses handed out are the very
pages cut from the list; a free puts back pages its caller holds, none of which is on the
list.

`HeapProofs` proves the four properties of `heap` for any callers, sizes, arrays, alignment,
header and page size and any memory map, from `HeapAssumption` besides: pages and the
direct map are aligned, a page has room for a header, the sizes asked for and two pages fit `size_t`,
and there is a page for `heap_init` (`HeapTypesAndAlignment`, `HeapOverwritesNothing`,
`HeapIsTiled`, `HeapConservesPages`). The properties need each other: a header is not
overwritten because blocks lie apart, which holds because every byte of the heap's pages
is in exactly one block, which holds because pages the heap takes are nobody else's.
`HeapOK` states this once, of the set of blocks rather than of the list:

- `BlocksOK`: blocks lie apart, at aligned addresses and with aligned sizes;
- `GrantsOK`: what callers hold lies in a block in use, one caller for each;
- `MemOK`: headers, callers' bytes and the other user's pages hold what they should;
- `PoolOK`: the blocks' bytes are exactly those of the pages neither on the free list nor
  with the other user.

The rest of `HeapBlockProofs` has one lemma for each of the few moves the code is made
of, which says that it keeps `HeapOK`: two neighbours join (`JoinKeeps`), a block is cut
(`CutKeeps`), handed out or back (`TakeMark`, `FreeMark`), made of fresh pages
(`FreshKeeps`), and a caller stores in its room (`Regrant`). The list is carried along
beside the set, without repetition (`List`). Coalescing is a loop, and a set of lists
every round stays in is one it ends in (`CoalesceRuns`). On top, in `HeapProofs`, are
the calls: `MallocKeeps`, `CallocKeeps` (the product that passed the guard does not
wrap), `FreeKeeps` and `ReallocKeeps`, which has the five ways out of `krealloc`. That
the guard of `kmalloc` leaves no sum that wraps is `AllocSizeIs`.

`TerminalProofs` starts with the line discipline, for every buffer size and every
typing. `FinishedLineHasBytes` proves `ReadyHasBytes`; the strengthening `LdiscInv`
says that until Enter the last slot is free and nothing of the line is taken, so the
newline always finds room. `BufferIsEditedLine` and `LineHandedOutOnce` prove
`EditsLine` and `HandsOutLine` (`LineInv`); the reference they compare with counts the
line's length key by key, and `EditedOneMore` says what one more key does to it.
`TerminalLine` shows that the terminal's steps are the line's, and `EchoIsExact` proves
`EchoShowsLine` for every interleaving of keys, prints and interrupts. `EchoInv` adds
that the terminal's cursor has only blanks behind it, which an erase needs in order to
leave no trace. It assumes `TextAssumption` and `PlainTexts`: no text that is printed
holds CR, BS or the start of a line's own control bytes; such a text moves the cursor
by itself, and then what is shown is no longer the line.

`FilesProofs` proves `DescriptorsCounted` (`ReferencesExact`) and `PagesAccounted`
(`NoPageLost`) for any number of tasks, descriptors, nodes and pages and any program,
from `RamfsAssumption` and `FilesAssumption`: the sets are finite, the table has room
for the three standard descriptors, sizes are not zero, a page list's bytes fit the
offset's width, the programs' arguments are in range. `FilesInv` counts descriptors
through one function from files to sets of descriptors (`RefsOf`), and pages through
`Settled`: a write in progress, whichever round it is in, has as many pages free and
listed as before, and none listed at or beyond the size it has reached. Its first half
is about the loops. Each loop of `ramfs.c` and `file.c` is a recursive function of the
round; a lemma `...Runs` says that a set every round stays in is a set the loop ends in,
and a lemma `...Keep` gives the set.

`BasicLemmas` has the one induction these proofs need, from the library's
well-foundedness of the naturals: a set of naturals that is not empty has a least
member. From it follow that recurrences have solutions (`RecursionExists`,
`LoopRuns`), that they have one (`RecursionUnique`), and induction over sets
(`InductionUpTo`). So what a loop computes is proved by its invariant as a set, not by
an induction scheme with a predicate.

Only model-checked:

- the liveness properties and `ServesLines`: fairness is out of the prover's reach;
- `ScreenShowsOutput`, a comparison of pixels with a text wrapped and scrolled from its
  start;
- `KeepsPromises`, which compares page lists with byte sequences after each chunk;
- address spaces and the file tree, whose walks over page tables and directories are
  recursive operators.

## Not modelled

- The ring buffer: only its own test uses it.
- Saving and restoring FPU registers: `arch_fpu_save` and `arch_fpu_restore` are
  declared and not implemented; the area is allocated and freed in `Process`.
- `vmm_copy_context`: declared (`mm/vmm.h:52`), not implemented. `fork`, `clone` and
  `wait4` answer ENOSYS.
- Overlapping calls of the page allocator, the heap and the file system, which have no
  locks. One program runs, and interrupts allocate nothing, so calls do not overlap.
  With a second program they would, and `PagePool`, `Heap`, `Process` and `Files` would
  need finer steps.
- Device programming (UART, PIC, LAPIC, GIC, timers), GDT, TSS and MSR setup: hardware
  I/O without a state of the kernel's own.
- The requests to the boot loader, the command line, banners, logging, number
  formatting and the font: data.
- The boot task's creation, on the stack it already runs on; it is never destroyed.
- The stack guard word and the stack usage count: they look at memory contents
  nothing else depends on.
- The self tests' reports and the code of user programs: the models let any caller make
  the calls with arguments from small sets.
