--------------------------------- MODULE Vfs ---------------------------------
(***************************************************************************)
(* Paths: the directory side of fs/ramfs/ramfs.c and fs/vfs/vfs.c.  A path  *)
(* is a sequence of characters, a name one without "/".  fs is a record of  *)
(* tree, the nodes in order of allocation, and mounts, newest first.  A     *)
(* node is [name, flags, children, data]; children stands for the           *)
(* first_child and next_sibling links and data for a file's contents, whose *)
(* pages RamfsFile models.  heap says how many more nodes kcalloc yields.   *)
(***************************************************************************)
EXTENDS Naturals, Sequences
LOCAL INSTANCE SequencesExt

CONSTANTS VFS_NAME_SIZE, VFS_PATH_MAX

NULL == 0

\* snprintf into a buffer of size bytes, its NUL included.
Cut(s, size) == SubSeq(s, 1, IF Len(s) < size THEN Len(s) ELSE size - 1)

\* The first index whose entry has P, 0 if there is none.
FirstAt(s, P(_)) ==
  LET at == {i \in DOMAIN s : P(s[i])}
  IN  IF at = {} THEN 0 ELSE CHOOSE i \in at : \A j \in at : i <= j

Node(name, flags, data) ==
  [name |-> Cut(name, VFS_NAME_SIZE), flags |-> flags, children |-> <<>>, data |-> data]

\* A name of VFS_NAME_SIZE characters or more equals no stored one.
ramfs_ops_finddir(fs, node, name) ==
  LET cs == fs.tree[node].children
      i  == FirstAt(cs, LAMBDA c : fs.tree[c].name = name)
  IN  IF i = 0 THEN NULL ELSE cs[i]

\* Mutant of ramfs_ops_create: the new node becomes the only child.
CreateReplaces(fs, dir, name, flags) ==
  LET new == Len(fs.tree) + 1
  IN  IF \/ fs.tree[dir].flags # "VFS_DIRECTORY"
         \/ ramfs_ops_finddir(fs, dir, name) # NULL
         \/ fs.heap = 0
      THEN [fs EXCEPT !.target = NULL]
      ELSE [fs EXCEPT !.tree = Append([@ EXCEPT ![dir].children = <<new>>],
                                      Node(name, flags, <<>>)),
                      !.target = new, !.heap = @ - 1]

\* ramfs_node_new and the link behind the last sibling; target is the new
\* node, NULL without memory, in a file or when the name exists.
ramfs_ops_create(fs, dir, name, flags) ==
  LET new == Len(fs.tree) + 1
  IN  IF \/ fs.tree[dir].flags # "VFS_DIRECTORY"
         \/ ramfs_ops_finddir(fs, dir, name) # NULL
         \/ fs.heap = 0
      THEN [fs EXCEPT !.target = NULL]
      ELSE [fs EXCEPT !.tree = Append([@ EXCEPT ![dir].children = Append(@, new)],
                                      Node(name, flags, <<>>)),
                      !.target = new, !.heap = @ - 1]

ramfs_create_root == Node(<<"/">>, "VFS_DIRECTORY", <<>>)

console_dev_create == Node(<<"c">>, "VFS_CHARDEVICE", <<>>)

\* The index-th child, NULL past the last.
ramfs_ops_readdir(fs, node, index) ==
  LET cs == fs.tree[node].children
  IN  IF index < Len(cs) THEN cs[index + 1] ELSE NULL
-----------------------------------------------------------------------------
\* Called with room on the heap.
vfs_mount(fs, path, root) ==
  [fs EXCEPT !.mounts = <<[path |-> Cut(path, VFS_NAME_SIZE), root |-> root]>> \o @,
             !.heap = @ - 1]

RECURSIVE SkipSlashes(_)
SkipSlashes(path) ==
  IF path # <<>> /\ Head(path) = "/" THEN SkipSlashes(Tail(path)) ELSE path

\* The longest mount path that begins the path, the newest of equals; no
\* component boundary is asked for.
vfs_get_mountpoint(fs, path) ==
  LET fits(m)    == m.path # <<>> /\ IsPrefix(m.path, path)
      longest(m) == \A i \in DOMAIN fs.mounts :
                      fits(fs.mounts[i]) => Len(fs.mounts[i].path) <= Len(m.path)
      i          == FirstAt(fs.mounts, LAMBDA m : fits(m) /\ longest(m))
      best       == fs.mounts[i]
  IN  IF i = 0 THEN [root |-> NULL, rest |-> <<>>]
      ELSE [root |-> best.root, rest |-> SkipSlashes(SubSeq(path, Len(best.path) + 1, Len(path)))]

\* strtokr: the names between slashes, runs of slashes counting as one.
RECURSIVE Tokens(_)
Tokens(path) ==
  LET p   == SkipSlashes(path)
      end == FirstAt(p, LAMBDA c : c = "/")
      len == IF end = 0 THEN Len(p) ELSE end - 1
  IN  IF p = <<>> THEN <<>>
      ELSE <<SubSeq(p, 1, len)>> \o Tokens(SubSeq(p, len + 1, Len(p)))

\* A name that is not there: created as the flags say, or not at all.
Missing(fs, parent, token, is_last, flags) ==
  IF is_last /\ flags = "VFS_FILE" THEN ramfs_ops_create(fs, parent, token, "VFS_FILE")
  ELSE IF flags = "VFS_DIRECTORY" THEN ramfs_ops_create(fs, parent, token, "VFS_DIRECTORY")
  ELSE [fs EXCEPT !.target = NULL]

\* The loop over the tokens, fs.target being both target and parent.
RECURSIVE Descend(_, _, _, _)
Descend(fs, tokens, stop_at_parent, flags) ==
  LET is_last == Len(tokens) = 1
      found   == ramfs_ops_finddir(fs, fs.target, Head(tokens))
      next    == IF found # NULL THEN [fs EXCEPT !.target = found]
                 ELSE Missing(fs, fs.target, Head(tokens), is_last, flags)
  IN  IF tokens = <<>> THEN fs
      ELSE IF fs.tree[fs.target].flags # "VFS_DIRECTORY" THEN [fs EXCEPT !.target = NULL]
      ELSE IF is_last /\ stop_at_parent THEN fs
      ELSE IF next.target = NULL THEN next
      ELSE Descend(next, Tail(tokens), stop_at_parent, flags)

vfs_inner_find_and_create(fs, path, stop_at_parent, flags) ==
  LET mp == vfs_get_mountpoint(fs, path)
  IN  IF Len(path) >= VFS_PATH_MAX \/ mp.root = NULL THEN [fs EXCEPT !.target = NULL]
      ELSE Descend([fs EXCEPT !.target = mp.root], Tokens(mp.rest), stop_at_parent, flags)

vfs_lookup(fs, path) == vfs_inner_find_and_create(fs, path, FALSE, "none")

vfs_create(fs, path, flags) == vfs_inner_find_and_create(fs, path, FALSE, flags)

vfs_mkdir_parents(fs, path) == vfs_inner_find_and_create(fs, path, TRUE, "VFS_DIRECTORY")
=============================================================================
