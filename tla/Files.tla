-------------------------------- MODULE Files --------------------------------
(***************************************************************************)
(* Open files: the calls of fs/vfs/file.c on the descriptor tables of       *)
(* tasks, over ramfs files, directories and the console.  One program runs  *)
(* at a time, fork and clone being refused, and no interrupt that comes in  *)
(* the middle of its call touches this state: each call is one step.  The   *)
(* console read is one once a line is there, its sleep being modelled in    *)
(* Kernel.  Resolving a path to a node is modelled in VfsTree, editing a    *)
(* line in LdiscLine, output on the screen in Terminal.                     *)
(***************************************************************************)
EXTENDS RamfsFile, FiniteSets

CONSTANTS Tasks,
          FileIds,            \* addresses a struct file may be allocated at
          Nodes,              \* ramfs files, directories and the console
          Kind,               \* Nodes -> VFS_FILE, VFS_DIRECTORY, VFS_CHARDEVICE
          MAX_OPEN_FILES, COPY_BUFFER_SIZE, VMM_ADDR_SPLIT,
          Buffer,             \* what a program's buffer holds when it writes
          Seeks,              \* <<whence, offset>> pairs it may pass
          Line,               \* what is typed
          Programs,           \* what programs do: see program below
          TotalPages

VARIABLES nodes,     \* [size, pages] of each ramfs node
          free,      \* free physical pages
          files,     \* each struct file, or Freed
          fds,       \* task -> descriptor -> struct file or NULL, or NoTask
          typed,     \* the finished line, what of it is not drained
          shown,     \* console output
          told,      \* history: the last call's answer
          program,   \* which of Programs runs: the arguments it may pass
          budget     \* bound: lines typed, bytes shown, reads, writes and seeks left

vars == <<nodes, free, files, fds, typed, shown, told, program, budget>>

NULL == "NULL"
Freed == <<>>
NoTask == <<>>
Fds == 0..(MAX_OPEN_FILES - 1)
Console == CHOOSE n \in Nodes : Kind[n] = "VFS_CHARDEVICE"
Live == {t \in Tasks : fds[t] # NoTask}

\* Finitely many tasks and files, room for the standard descriptors, and
\* programs that pass descriptors of the table (any other is answered like a
\* closed one), nodes a path leads to, and no more bytes than they have.
ASSUME FilesAssumption ==
  /\ IsFiniteSet(Tasks) /\ IsFiniteSet(Nodes)
  /\ MAX_OPEN_FILES \in Nat /\ MAX_OPEN_FILES >= 3
  /\ COPY_BUFFER_SIZE \in Nat \ {0} /\ TotalPages \in Nat
  /\ NULL \notin FileIds
  /\ \E n \in Nodes : Kind[n] = "VFS_CHARDEVICE"
  /\ Buffer \in Seq(Nat)
  /\ \A s \in Seeks : s[1] \in {"SEEK_SET", "SEEK_CUR", "SEEK_END"} /\ s[2] \in Int
  /\ \A p \in DOMAIN Programs :
       /\ Programs[p].opens \subseteq Nodes \cup {NULL} /\ Programs[p].flags \subseteq BOOLEAN
       /\ Programs[p].fds \subseteq Fds /\ Programs[p].counts \subseteq 0..Len(Buffer)

Answer(call, asked, count, bytes) ==
  told' = [call |-> call, asked |-> asked, count |-> count, bytes |-> bytes]
Error == Answer("none", 0, -1, <<>>)

\* The bounds of the model: what a program has left of a kind of call.
Spend(what, n) == budget[what] >= n /\ budget' = [budget EXCEPT ![what] = @ - n]

-----------------------------------------------------------------------------
\* copy_to_user and copy_from_user: may the range be copied.
copy_user(addr, len) ==
  LET end == Wrap(addr + len) IN end >= addr /\ end <= VMM_ADDR_SPLIT

\* Mutant of file_unref: freed although still referenced.
UnrefFrees(fs, f) == [fs EXCEPT ![f] = Freed]

file_ref(fs, f) == [fs EXCEPT ![f].ref_count = @ + 1]

file_unref(fs, f) ==
  IF fs[f].ref_count > 1 THEN [fs EXCEPT ![f].ref_count = @ - 1] ELSE [fs EXCEPT ![f] = Freed]

\* A fresh struct file, referenced once; neither ramfs nor the console has an
\* open operation that could refuse.
file_open_node(fs, f, node, write) ==
  file_ref([fs EXCEPT ![f] = [node |-> node, offset |-> 0, write |-> write, ref_count |-> 0]], f)

\* Drops every descriptor of the table, as task_destroy does.
UnrefSlot(fs, f) == IF f = NULL THEN fs ELSE file_unref(fs, f)

UnrefAll(fs, table) ==
  LET upto[n \in 0..MAX_OPEN_FILES] ==
        IF n = 0 THEN fs ELSE UnrefSlot(upto[n - 1], table[n - 1])
  IN  upto[MAX_OPEN_FILES]

Init ==
  /\ nodes = [n \in Nodes |-> [size |-> 0, pages |-> <<>>]]
  /\ free = TotalPages
  /\ files = [f \in FileIds |-> Freed]
  /\ fds = [t \in Tasks |-> NoTask]
  /\ typed = <<>> /\ shown = <<>>
  /\ told = [call |-> "none", asked |-> 0, count |-> 0, bytes |-> <<>>]
  /\ program \in DOMAIN Programs
  /\ budget = Programs[program].budget

\* A task is created: its first three descriptors share one open console.
\* Without memory for it task_inner_create fails and nothing is left behind.
task_open_std_fds(t) ==
  /\ fds[t] = NoTask
  /\ \/ \E f \in FileIds :
          /\ files[f] = Freed
          /\ files' = file_ref(file_ref(file_open_node(files, f, Console, TRUE), f), f)
          /\ fds' = [fds EXCEPT ![t] = [fd \in Fds |-> IF fd < 3 THEN f ELSE NULL]]
          /\ Answer("start", 0, 0, <<>>)
     \/ Error /\ UNCHANGED <<files, fds>>
  /\ UNCHANGED <<nodes, free, typed, shown, program, budget>>

task_destroy(t) ==
  /\ t \in Live
  /\ files' = UnrefAll(files, fds[t])
  /\ fds' = [fds EXCEPT ![t] = NoTask]
  /\ Answer("close", 0, 0, <<>>)
  /\ UNCHANGED <<nodes, free, typed, shown, program, budget>>

\* The lowest unused slot from 3 on.  node is what vfs_lookup found, NULL if
\* nothing; -ENOENT, -EAGAIN and -ENOMEM leave the table as it was.
sys_openat(t, node, write) ==
  LET slots == {fd \in Fds : fd >= 3 /\ fds[t][fd] = NULL}
      fd    == CHOOSE i \in slots : \A j \in slots : i <= j
  IN  /\ t \in Live
      /\ \/ /\ node # NULL /\ slots # {}
            /\ \E f \in FileIds :
                 /\ files[f] = Freed
                 /\ files' = file_open_node(files, f, node, write)
                 /\ fds' = [fds EXCEPT ![t][fd] = f]
            /\ Answer("open", 0, 0, <<>>)
         \/ Error /\ UNCHANGED <<files, fds>>
      /\ UNCHANGED <<nodes, free, typed, shown, program, budget>>

sys_close(t, fd) ==
  /\ t \in Live
  /\ IF fds[t][fd] = NULL THEN Error /\ UNCHANGED <<files, fds>>
     ELSE /\ files' = file_unref(files, fds[t][fd])
          /\ fds' = [fds EXCEPT ![t][fd] = NULL]
          /\ Answer("close", 0, 0, <<>>)
  /\ UNCHANGED <<nodes, free, typed, shown, program, budget>>
-----------------------------------------------------------------------------
\* A round of the loop of sys_read over a ramfs file: a chunk through the
\* kernel buffer.  r carries the position and the bytes delivered; a round that
\* changes nothing ends the loop.
ReadChunk(node, r, count, buf) ==
  LET total == Len(r.got)
      chunk == ramfs_ops_read(node, r.offset, Least(count - total, COPY_BUFFER_SIZE))
  IN  IF total = count \/ chunk = <<>> THEN r
      ELSE IF ~copy_user(Wrap(buf + total), Len(chunk)) THEN [r EXCEPT !.fault = (total = 0)]
      ELSE [r EXCEPT !.got = @ \o chunk, !.offset = Wrap(@ + Len(chunk))]

\* Until the request, the file or the program's buffer ends.
ReadChunks(node, offset, count, buf) ==
  LET after[k \in 0..count] ==
        IF k = 0 THEN [offset |-> offset, got |-> <<>>, fault |-> FALSE]
        ELSE ReadChunk(node, after[k - 1], count, buf)
  IN  after[count]

ReadFile(t, fd, count, buf) ==
  LET f == fds[t][fd]
  IN  /\ Kind[files[f].node] = "VFS_FILE"
      /\ \E r \in {ReadChunks(nodes[files[f].node], files[f].offset, count, buf)} :
           /\ IF r.fault THEN Error ELSE Answer("read", count, Len(r.got), r.got)
           /\ files' = [files EXCEPT ![f].offset = r.offset]
      /\ Spend("calls", 1)
      /\ UNCHANGED <<nodes, free, fds, typed, shown, program>>

\* One chunk of the console's line, which is drained before it is copied: a
\* copy that fails loses it.  Nothing is asked of the driver for 0 bytes.
ReadConsole(t, fd, count, buf) ==
  LET chunk == SubSeq(typed, 1, Least(Least(count, COPY_BUFFER_SIZE), Len(typed)))
  IN  /\ Kind[files[fds[t][fd]].node] = "VFS_CHARDEVICE"
      /\ count = 0 \/ typed # <<>>
      /\ typed' = SubSeq(typed, Len(chunk) + 1, Len(typed))
      /\ IF count = 0 \/ copy_user(buf, Len(chunk)) THEN Answer("read", count, Len(chunk), chunk)
         ELSE Error
      /\ UNCHANGED <<nodes, free, files, fds, shown, program, budget>>

\* ramfs refuses to read or write a directory; a loop that never starts
\* reports 0.
OnDirectory(t, fd, count) ==
  /\ Kind[files[fds[t][fd]].node] = "VFS_DIRECTORY"
  /\ IF count = 0 THEN Answer("read", 0, 0, <<>>) ELSE Error
  /\ UNCHANGED <<nodes, free, files, fds, typed, shown, program, budget>>

Refused == Error /\ UNCHANGED <<nodes, free, files, fds, typed, shown, program, budget>>

sys_read(t, fd, count, buf) ==
  /\ t \in Live
  /\ IF buf = 0 \/ fds[t][fd] = NULL THEN Refused
     ELSE \/ ReadFile(t, fd, count, buf)
          \/ ReadConsole(t, fd, count, buf)
          \/ OnDirectory(t, fd, count)
-----------------------------------------------------------------------------
\* A round of the loop of sys_write: a chunk is copied in, written, and moves
\* the position by what ramfs took of it; nothing taken ends the loop.
WriteChunk(m, offset, count, buf) ==
  LET len == Least(count - m.total, COPY_BUFFER_SIZE)
      w   == ramfs_ops_write(m, Wrap(offset + m.total), SubSeq(Buffer, m.total + 1, m.total + len))
  IN  IF m.total = count \/ m.ended THEN m
      ELSE IF ~copy_user(Wrap(buf + m.total), len)
      THEN [m EXCEPT !.fault = (m.total = 0), !.ended = TRUE]
      ELSE [w EXCEPT !.total = @ + w.done, !.ended = (w.done = 0)]

WriteChunks(m, offset, count, buf) ==
  LET after[k \in 0..count] ==
        IF k = 0 THEN m ELSE WriteChunk(after[k - 1], offset, count, buf)
  IN  after[count]

WriteFile(t, fd, count, buf, heap) ==
  LET f     == fds[t][fd]
      n     == files[f].node
      start == [node |-> nodes[n], free |-> free, heap |-> heap, ok |-> TRUE,
                done |-> 0, total |-> 0, fault |-> FALSE, ended |-> FALSE]
  IN  /\ Kind[n] = "VFS_FILE"
      /\ \E m \in {WriteChunks(start, files[f].offset, count, buf)} :
           /\ IF m.fault THEN Error ELSE Answer("write", count, m.total, <<>>)
           /\ nodes' = [nodes EXCEPT ![n] = m.node]
           /\ free' = m.free
           /\ files' = [files EXCEPT ![f].offset = Wrap(@ + m.total)]
      /\ Spend("calls", 1)
      /\ UNCHANGED <<fds, typed, shown, program>>

\* A character device takes one chunk, whatever was asked.
WriteConsole(t, fd, count, buf) ==
  LET len == Least(count, COPY_BUFFER_SIZE)
  IN  /\ Kind[files[fds[t][fd]].node] = "VFS_CHARDEVICE"
      /\ Spend("output", len)
      /\ IF count = 0 \/ copy_user(buf, len)
         THEN Answer("write", count, len, <<>>) /\ shown' = shown \o SubSeq(Buffer, 1, len)
         ELSE Error /\ UNCHANGED shown
      /\ UNCHANGED <<nodes, free, files, fds, typed, program>>

sys_write(t, fd, count, buf) ==
  /\ t \in Live
  /\ IF buf = 0 \/ fds[t][fd] = NULL THEN Refused
     ELSE IF ~files[fds[t][fd]].write THEN Refused
     ELSE \/ \E heap \in BOOLEAN : WriteFile(t, fd, count, buf, heap)
          \/ WriteConsole(t, fd, count, buf)
          \/ OnDirectory(t, fd, count)

\* Only the self tests seek, it is not in the system call table.  No range
\* check: a position is whatever the 64-bit sum comes to, and is returned as
\* a signed number.
sys_lseek(t, fd, whence, offset) ==
  LET f    == fds[t][fd]
      base == CASE whence = "SEEK_SET" -> 0
                [] whence = "SEEK_CUR" -> files[f].offset
                [] whence = "SEEK_END" -> nodes[files[f].node].size
  IN  /\ t \in Live
      /\ IF f = NULL THEN Error /\ UNCHANGED files
         ELSE IF Kind[files[f].node] = "VFS_CHARDEVICE" THEN Error /\ UNCHANGED files
         ELSE /\ files' = [files EXCEPT ![f].offset = Wrap(base + offset)]
              /\ Answer("seek", 0, Signed(Wrap(base + offset)), <<>>)
      /\ Spend("calls", 1)
      /\ UNCHANGED <<nodes, free, fds, typed, shown, program>>

\* The line discipline finishes a line once the last one is drained.
FinishLine ==
  /\ typed = <<>>
  /\ typed' = Line
  /\ Spend("lines", 1)
  /\ UNCHANGED <<nodes, free, files, fds, shown, told, program>>

Next ==
  \/ FinishLine
  \/ \E t \in Tasks :
       \/ task_open_std_fds(t)
       \/ task_destroy(t)
       \/ \E node \in Programs[program].opens, write \in Programs[program].flags :
            sys_openat(t, node, write)
       \/ \E fd \in Programs[program].fds :
            \/ sys_close(t, fd)
            \/ \E count \in Programs[program].counts, buf \in Programs[program].bufs :
                 sys_read(t, fd, count, buf) \/ sys_write(t, fd, count, buf)
            \/ \E seek \in Seeks : sys_lseek(t, fd, seek[1], seek[2])

Spec == Init /\ [][Next]_vars
-----------------------------------------------------------------------------
\* Every struct file is referenced by exactly as many descriptors as it
\* counts, so none is freed while a descriptor refers to it and none outlives
\* its last descriptor, across opens, closes, shared standard descriptors and
\* tasks that end with files open.
DescriptorsCounted ==
  \A f \in FileIds :
    LET refs == {d \in Live \X Fds : fds[d[1]][d[2]] = f}
    IN  IF files[f] = Freed THEN refs = {}
        ELSE files[f].ref_count = Cardinality(refs) /\ refs # {}

\* Physical pages: those in page lists and the free ones are all there are;
\* a page is only ever there for bytes below the size, so neither a read nor
\* a failed or short write leaves one behind; directories have none.
PagesAccounted ==
  LET owned == {p \in Nodes \X (1..MAX_SLOTS) :
                  p[2] <= Len(nodes[p[1]].pages) /\ nodes[p[1]].pages[p[2]] # Hole}
  IN  /\ free + Cardinality(owned) = TotalPages
      /\ \A p \in owned : Kind[p[1]] = "VFS_FILE" /\ (p[2] - 1) * PAGE_SIZE < nodes[p[1]].size

\* The bytes of a file, a byte in a hole being 0.
Contents(node) ==
  [i \in 1..node.size |-> LET page == PageAt(node, (i - 1) \div PAGE_SIZE)
                          IN  IF page = Hole THEN 0 ELSE page[(i - 1) % PAGE_SIZE]]

\* What programs see is what OpenFiles promises: files are byte sequences in
\* which gaps read as zeros, and every answer, short writes and faults
\* included, says exactly what was transferred and how far the position moved.
\* A seek is promised less: its answer is the new position as a signed number,
\* so that one beyond the middle of the range is told like an error code.
Store == INSTANCE OpenFiles WITH
  Objects <- Nodes, Modulus <- 2^W,
  data <- [n \in Nodes \ {Console} |-> Contents(nodes[n])],
  open <- [d \in Tasks \X Fds |->
             IF fds[d[1]] = NoTask THEN <<>>
             ELSE IF fds[d[1]][d[2]] = NULL THEN <<>>
             ELSE LET f == files[fds[d[1]][d[2]]]
                  IN  [object |-> f.node, pos |-> f.offset, write |-> f.write]]

KeepsPromises == Store!Spec
=============================================================================
