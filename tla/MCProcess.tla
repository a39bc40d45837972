------------------------------ MODULE MCProcess ------------------------------
(***************************************************************************)
(* Ten pages of two bytes.  A program of two segments that share a page,    *)
(* and files the loader refuses: a bad header, a short program header, a    *)
(* segment the file is too short for.                                       *)
(***************************************************************************)
EXTENDS Process, TLC

MCMemmap ==
  << [base |-> 2, length |-> 20, type |-> "usable"],
     [base |-> 22, length |-> 14, type |-> "reserved"] >>

Entry(page) == [phys |-> page, bits |-> {0, 1}]

\* The kernel's half of the root leads to the image and to the direct map of
\* memory.  The devices above memory lie in an entry of the root of their own,
\* which is not present.
MCBootTables ==
  11 :> [BlankTable EXCEPT ![2] = Entry(12)] @@
  12 :> [i \in 0..3 |-> Entry(13 + i)] @@
  13 :> [BlankTable EXCEPT ![0] = Entry(17)] @@
  14 :> [i \in 0..3 |-> IF i < 2 THEN NoPte ELSE Entry(i - 1)] @@
  15 :> [i \in 0..3 |-> Entry(i + 3)] @@
  16 :> [i \in 0..3 |-> Entry(i + 7)]

Segment(type, vaddr, memsz, filesz, offset, flags) ==
  [type |-> type, vaddr |-> vaddr, memsz |-> memsz, filesz |-> filesz,
   offset |-> offset, flags |-> flags]

Text == Segment("PT_LOAD", 8, 3, 3, 0, {"X"})
Data == Segment("PT_LOAD", 11, 3, 1, 3, {"W"})
Note == Segment("PT_NOTE", 0, 2, 2, 0, {})
Short == Segment("short", 0, 0, 0, 0, {})

MCImages ==
  [init    |-> [valid |-> TRUE, size |-> 4, phdrs |-> <<Text, Note, Data>>],
   badhdr  |-> [valid |-> FALSE, size |-> 4, phdrs |-> <<>>],
   noph    |-> [valid |-> TRUE, size |-> 4, phdrs |-> <<Text, Short>>],
   trunc   |-> [valid |-> TRUE, size |-> 3, phdrs |-> <<Text, Data>>]]

\* A task needs nine pages and four objects with its program; two contexts
\* compete for the pages where there are fewer.
MCStarts ==
  LET at(taken, objects, contexts, program, tests) ==
        [taken |-> taken, objects |-> objects, contexts |-> contexts,
         program |-> program, tests |-> tests]
  IN  {at(taken, 4, 2, "init", FALSE) : taken \in 3..8}
        \cup {at(taken, 4, 2, "init", TRUE) : taken \in 5..8}
        \cup {at(taken, objects, 1, "init", FALSE) : taken \in 0..1, objects \in 1..4}
        \cup {at(5, 4, 2, program, FALSE) : program \in {"badhdr", "noph", "trunc"}}

MCDemandRange == <<12, 14>>

Contexts == Permutations(CtxIds)

\* Up to two strings each: they fill a stack of 80 bytes, and more.
MCArgLists == {<<>>} \cup {<<a>> : a \in 0..32} \cup {<<a, b>> : a, b \in 0..3}
=============================================================================
