------------------------------- MODULE MCFiles -------------------------------
(* A small instance of Files: one file, one directory and the console.  A   *)
(* copy chunk is shorter than a page and divides neither it nor a request.  *)
EXTENDS Files, TLC

AllNodes == {"notes", "root", "console"}
KindOf == [n \in AllNodes |->
             CASE n = "notes" -> "VFS_FILE" [] n = "root" -> "VFS_DIRECTORY"
               [] OTHER -> "VFS_CHARDEVICE"]
Bytes == <<1, 2, 3, 4, 5>>
TypedLine == <<7, 8, 9>>
SeekTo == {<<"SEEK_SET", 0>>, <<"SEEK_SET", 13>>, <<"SEEK_SET", -1>>,
           <<"SEEK_CUR", 2>>, <<"SEEK_END", 1>>}

\* One program works on a file through two descriptors, the other on the
\* console and on a directory.
Editor == [opens |-> {"notes", NULL}, flags |-> {TRUE}, fds |-> {3, 4},
           counts |-> {1, 5}, bufs |-> {8, 17},
           budget |-> [lines |-> 0, output |-> 0, calls |-> 4]]
Shell == [opens |-> {"console", "root"}, flags |-> {FALSE}, fds |-> {2, 3},
          counts |-> {0, 3}, bufs |-> {0, 8, 31},
          budget |-> [lines |-> 1, output |-> 2, calls |-> 1]]
OpenFileIds == Permutations(FileIds)
TwoPrograms == [p \in {"editor", "shell"} |-> IF p = "editor" THEN Editor ELSE Shell]
=============================================================================
