------------------------------- MODULE VfsTree -------------------------------
(***************************************************************************)
(* The file tree from boot on: main.c mounts a ramfs on "/", tar_load fills *)
(* it from the initrd, the console is mounted on its path, the self tests   *)
(* create more nodes, and list directories with getdents64 as programs do.  *)
(* The archive is a sequence of blocks, each a header, data or the empty    *)
(* name; a header's size is a sequence of octal digits.                     *)
(***************************************************************************)
EXTENDS Vfs, FiniteSets
LOCAL INSTANCE SequencesExt

CONSTANTS TAR_BLOCK_SIZE, TAR_NAME_SIZE,
          DIRENT_NAME_OFFSET, DIRENT_ALIGN,
          Initrds,        \* what was packed: sequences of [name, type, data]
          ConsolePath,    \* "/dev/console"
          TestPaths,      \* paths the self tests create files on
          Dir,            \* path of a directory that is listed
          Buffers,        \* <<count, room>>: a buffer's size and how much of
                          \* it lies below VMM_ADDR_SPLIT
          Heaps           \* <<n, p>>: room for n nodes and mounts, and for file pages

VARIABLES fs,        \* [tree, mounts, target, heap, pages]
          initrd, archive,
          addr,      \* block tar_load has come to, 0 if there is no initrd
          boot,      \* "root", "tar", "console", "up" or "panic"
          offset,    \* position of the descriptor open on Dir
          listed,    \* history: nodes getdents64 handed out since offset 0
          answer     \* history: what it answered last

vars == <<fs, initrd, archive, addr, boot, offset, listed, answer>>

\* ustar: a header and the data, padded to whole blocks.
Octal(n) == IF n < 8 THEN <<n>> ELSE <<n \div 8, n % 8>>

DataBlocks(data) ==
  [b \in 1..((Len(data) + TAR_BLOCK_SIZE - 1) \div TAR_BLOCK_SIZE) |->
     [kind |-> "data",
      data |-> [i \in 1..TAR_BLOCK_SIZE |->
                  LET at == (b - 1) * TAR_BLOCK_SIZE + i
                  IN  IF at <= Len(data) THEN data[at] ELSE 0]]]

RECURSIVE Pack(_)
Pack(entries) ==
  IF entries = <<>> THEN <<>>
  ELSE LET e == Head(entries)
       IN  <<[kind |-> IF e.type = "bad" THEN "bad" ELSE "header", name |-> e.name,
              type |-> e.type, size |-> Octal(Len(e.data))]>>
             \o DataBlocks(e.data) \o Pack(Tail(entries))

\* The boot loader passes an archive, with or without the zero block that
\* should end it, or none.
Init ==
  /\ initrd \in Initrds
  /\ \E end \in {<<>>, <<[kind |-> "zero"]>>} : archive = Pack(initrd) \o end
  /\ addr \in {0, 1} /\ (addr = 0 => archive = <<>>)
  /\ \E h \in Heaps : fs = [tree |-> <<>>, mounts |-> <<>>, target |-> NULL,
                            heap |-> h[1], pages |-> h[2]]
  /\ boot = "root"
  /\ offset = 0 /\ listed = <<>> /\ answer = "none"

listing == <<offset, listed, answer>>

\* _start creates a root and mounts it; it panics unless both succeed.
CreateAndMount(node, path, next) ==
  IF fs.heap = 0 THEN boot' = "panic" /\ UNCHANGED fs
  ELSE LET made == [fs EXCEPT !.tree = Append(@, node), !.heap = @ - 1]
       IN  IF made.heap = 0 THEN boot' = "panic" /\ fs' = [fs EXCEPT !.heap = 0]
           ELSE boot' = next /\ fs' = vfs_mount(made, path, Len(made.tree))

MountRoot ==
  /\ boot = "root"
  /\ CreateAndMount(ramfs_create_root, <<"/">>, IF addr = 0 THEN "console" ELSE "tar")
  /\ UNCHANGED <<initrd, archive, addr, listing>>
-----------------------------------------------------------------------------
tar_parse_octal(field) ==
  LET value[i \in 0..Len(field)] == IF i = 0 THEN 0 ELSE value[i - 1] * 8 + field[i]
  IN  value[Len(field)]

\* The path of a header: a leading slash, and what fits with it into a
\* buffer one byte longer than the name field.
TarPath(header) == Cut(<<"/">> \o header.name, TAR_NAME_SIZE + 1)

DataBytes(first, size) ==
  [i \in 1..size |->
     archive[first + ((i - 1) \div TAR_BLOCK_SIZE)].data[((i - 1) % TAR_BLOCK_SIZE) + 1]]

\* A file's data overwrites the node's from offset 0.  ramfs refuses to write
\* to a directory, and comes up short without pages.
WriteData(f, node, bytes) ==
  IF f.tree[node].flags # "VFS_FILE" \/ (bytes # <<>> /\ ~f.pages) THEN [f EXCEPT !.target = NULL]
  ELSE [f EXCEPT !.tree[node].data = bytes \o SubSeq(@, Len(bytes) + 1, Len(@))]

\* One file or directory entry; target is NULL if it could not be made.
TarEntry(f, header, data) ==
  LET path    == TarPath(header)
      parents == vfs_mkdir_parents(f, path)
      flags   == IF header.type = "dir" THEN "VFS_DIRECTORY" ELSE "VFS_FILE"
      made    == vfs_create(parents, path, flags)
  IN  IF header.type = "other" THEN [f EXCEPT !.target = 1]
      ELSE IF parents.target = NULL THEN parents
      ELSE IF made.target = NULL \/ header.type = "dir" THEN made
      ELSE WriteData(made, made.target, data)

\* Mutant of NextHeader: a partly filled last data block is not skipped.
NextHeaderShort(at, size) == at + 1 + size \div TAR_BLOCK_SIZE

NextHeader(at, size) == at + 1 + (size + TAR_BLOCK_SIZE - 1) \div TAR_BLOCK_SIZE

\* One round of tar_load's loop, which ends at an empty name or at the end of
\* the archive.  An archive shorter than a block, a header without the magic,
\* or an entry that could not be made, and _start panics.
tar_load ==
  /\ boot = "tar"
  /\ IF Len(archive) < 1 THEN boot' = "panic" /\ UNCHANGED <<fs, addr>>
     ELSE IF addr > Len(archive) \/ archive[addr].kind = "zero"
     THEN boot' = "console" /\ UNCHANGED <<fs, addr>>
     ELSE IF archive[addr].kind # "header" THEN boot' = "panic" /\ UNCHANGED <<fs, addr>>
     ELSE LET header == archive[addr]
              size   == tar_parse_octal(header.size)
              after  == TarEntry(fs, header, DataBytes(addr + 1, size))
          IN  IF after.target = NULL
              THEN boot' = "panic" /\ fs' = after /\ UNCHANGED addr
              ELSE /\ fs' = after
                   /\ addr' = NextHeader(addr, size)
                   /\ UNCHANGED boot
  /\ UNCHANGED <<initrd, archive, listing>>

MountConsole ==
  /\ boot = "console"
  /\ CreateAndMount(console_dev_create, ConsolePath, "up")
  /\ UNCHANGED <<initrd, archive, addr, listing>>

\* The self tests' test_vfs_make_file.
MakeFile(path) ==
  LET parents == vfs_mkdir_parents(fs, path)
  IN  /\ boot = "up"
      /\ fs' = IF parents.target = NULL THEN parents ELSE vfs_create(parents, path, "VFS_FILE")
      /\ answer' = "none"
      /\ UNCHANGED <<initrd, archive, addr, boot, offset, listed>>
-----------------------------------------------------------------------------
reclen(node) ==
  LET n == DIRENT_NAME_OFFSET + Len(fs.tree[node].name) + 1
  IN  ((n + DIRENT_ALIGN - 1) \div DIRENT_ALIGN) * DIRENT_ALIGN

\* Mutant of Dents: the entry that does not fit is passed over.
RECURSIVE DentsSkip(_, _, _)
DentsSkip(dir, d, buf) ==
  LET node == ramfs_ops_readdir(fs, dir, d.offset)
  IN  IF node = NULL THEN d
      ELSE IF d.len + reclen(node) > buf[1] THEN [d EXCEPT !.error = (d.len = 0), !.offset = @ + 1]
      ELSE IF d.len + reclen(node) > buf[2] THEN [d EXCEPT !.error = (d.len = 0)]
      ELSE DentsSkip(dir, [d EXCEPT !.offset = @ + 1, !.len = @ + reclen(node),
                                    !.out = Append(@, node)], buf)

\* The loop of sys_getdents64: d carries the position, the bytes and the
\* entries written.  An entry that does not fit, or that cannot be copied,
\* ends it, as an error if it is the first.
RECURSIVE Dents(_, _, _)
Dents(dir, d, buf) ==
  LET node == ramfs_ops_readdir(fs, dir, d.offset)
  IN  IF node = NULL THEN d
      ELSE IF d.len + reclen(node) > buf[1] \/ d.len + reclen(node) > buf[2]
      THEN [d EXCEPT !.error = (d.len = 0)]
      ELSE Dents(dir, [d EXCEPT !.offset = @ + 1, !.len = @ + reclen(node),
                                !.out = Append(@, node)], buf)

sys_getdents64(buf) ==
  LET dir == vfs_lookup(fs, Dir).target
      d   == Dents(dir, [offset |-> offset, len |-> 0, out |-> <<>>, error |-> FALSE], buf)
  IN  /\ boot = "up" /\ dir # NULL
      /\ fs.tree[dir].flags = "VFS_DIRECTORY"
      /\ offset' = d.offset
      /\ listed' = listed \o d.out
      /\ answer' = IF d.error THEN "error" ELSE IF d.len = 0 THEN "end" ELSE "entries"
      /\ UNCHANGED <<fs, initrd, archive, addr, boot>>

\* A self test goes back to the entry after the first k, with the d_off it got.
sys_lseek(k) ==
  /\ boot = "up" /\ k < Len(listed)
  /\ offset' = k
  /\ listed' = SubSeq(listed, 1, k)
  /\ answer' = "none"
  /\ UNCHANGED <<fs, initrd, archive, addr, boot>>

Next ==
  \/ MountRoot \/ tar_load \/ MountConsole
  \/ \E path \in TestPaths : MakeFile(path)
  \/ \E buf \in Buffers : sys_getdents64(buf)
  \/ \E k \in 0..Len(listed) : sys_lseek(k)

Spec == Init /\ [][Next]_vars
-----------------------------------------------------------------------------
\* The tree is a tree: files and devices have no children, every node but the
\* mounted roots is the child of exactly one directory, and no two children of
\* a directory share a name, whatever the archive and the creations after it.
\* The one exception is a name as long as a node can hold: ramfs stores a
\* longer one cut to that length and never finds it again, so that creating
\* it twice makes two nodes of one name.
TreeSound ==
  LET nodes == DOMAIN fs.tree
      links == {l \in nodes \X (1..Len(fs.tree)) : l[2] <= Len(fs.tree[l[1]].children)}
      child(l) == fs.tree[l[1]].children[l[2]]
      name(l) == fs.tree[child(l)].name
      roots == {fs.mounts[i].root : i \in DOMAIN fs.mounts}
  IN  /\ \A l \in links : fs.tree[l[1]].flags = "VFS_DIRECTORY" /\ child(l) \notin roots
      /\ \A n \in nodes \ roots : Cardinality({l \in links : child(l) = n}) = 1
      /\ \A k, l \in links :
           k[1] = l[1] /\ name(k) = name(l) => k = l \/ Len(name(k)) = VFS_NAME_SIZE - 1

Entries == {i \in DOMAIN initrd : initrd[i].type \in {"reg", "dir"}}

\* Where an entry belongs: under its name, but for one that fills the header's
\* field, from which the loader's path buffer takes the last character.
EntryPath(e) == <<"/">> \o IF Len(e.name) < TAR_NAME_SIZE THEN e.name ELSE Front(e.name)

EntryTokens(e) == Tokens(EntryPath(e))

EntryKind(e) == IF e.type = "dir" THEN "VFS_DIRECTORY" ELSE "VFS_FILE"

\* Something packed, no damaged header, and no path both a file and something
\* else.
WellPacked ==
  /\ archive # <<>>
  /\ \A i \in DOMAIN initrd : initrd[i].type # "bad"
  /\ \A i, j \in Entries :
       LET p == EntryTokens(initrd[i])
           q == EntryTokens(initrd[j])
       IN  initrd[i].type = "reg" /\ IsPrefix(p, q)
             => p = q /\ initrd[j].type = "reg"

\* A mount other than the root's whose path the path begins with, character by
\* character: lookups end there.
MountedOver(path) ==
  \E i \in DOMAIN fs.mounts : fs.mounts[i].path # <<"/">> /\ IsPrefix(fs.mounts[i].path, path)

\* After the boot loaded the initrd, a lookup of the path of each of its
\* entries finds a node of its kind with, for the last of its name, its bytes
\* in front, unless another mount's path begins the entry's; nothing else is
\* in the tree until the self tests add to it.  A well packed initrd is only
\* given up on for want of memory.
InitrdLoaded ==
  /\ boot \in {"console", "up"} =>
       \A i \in Entries :
         LET path == EntryPath(initrd[i])
             n    == vfs_lookup(fs, path).target
             last == \A j \in Entries : j > i => EntryTokens(initrd[j]) # EntryTokens(initrd[i])
         IN  \/ MountedOver(path)
             \/ /\ n # NULL
                /\ fs.tree[n].flags = EntryKind(initrd[i])
                /\ last => IsPrefix(initrd[i].data, fs.tree[n].data)
  /\ boot = "console" =>
       Len(fs.tree) = Cardinality(UNION {{SubSeq(EntryTokens(initrd[i]), 1, k) :
                         k \in 0..Len(EntryTokens(initrd[i]))} : i \in Entries} \cup {<<>>})
  /\ boot = "panic" => ~WellPacked \/ fs.heap = 0 \/ ~fs.pages

\* A mount covers what lies at or below its path.  Hence an entry of the
\* initrd is found once everything is mounted, unless the components of a
\* mount's path begin those of its own: a mount at /foo leaves /foobar alone.
MountsCoverSubtrees ==
  boot = "up" =>
    \A i \in Entries :
      LET n == vfs_lookup(fs, EntryPath(initrd[i])).target
      IN  \/ n # NULL /\ fs.tree[n].flags = EntryKind(initrd[i])
          \/ \E m \in DOMAIN fs.mounts :
               fs.mounts[m].path # <<"/">>
                 /\ IsPrefix(Tokens(fs.mounts[m].path), EntryTokens(initrd[i]))

\* Whoever lists a directory with buffers of any size sees its entries
\* once each and in order, also when an entry falls on the end of a buffer, a
\* call fails, the position is set back, or the directory grows meanwhile; and
\* the end is reported only when all have been seen.
ListsInOrder ==
  boot = "up" /\ vfs_lookup(fs, Dir).target # NULL =>
    LET cs == fs.tree[vfs_lookup(fs, Dir).target].children
    IN  /\ offset = Len(listed) /\ IsPrefix(listed, cs)
        /\ answer = "end" => offset = Len(cs)
=============================================================================
