------------------------------- MODULE ElfLoad -------------------------------
(***************************************************************************)
(* proc/elf.c: loading a program into an address space that is not active,  *)
(* and its first stack.  An image is a record: valid says whether the ELF   *)
(* header passes the checks, size is the file's length, phdrs the program   *)
(* headers in file order; the byte at offset k of the file is k + 1.  A     *)
(* header the file is too short for has type "short".  lost collects the    *)
(* pages a failed call took and neither mapped nor returned.                *)
(***************************************************************************)
EXTENDS Vmm

LOCAL INSTANCE SequencesExt

CONSTANT STACK_BYTES   \* PAGE_SIZE of the stack's contents, 4096 in the code

\* The pages [vaddr_lo, vaddr_hi) of a segment, in the order they are visited.
SegmentPages(ph) ==
  LET lo == ph.vaddr \div PAGE_SIZE
      hi == (ph.vaddr + ph.memsz + PAGE_SIZE - 1) \div PAGE_SIZE
  IN  [k \in 1..(hi - lo) |-> lo + k - 1]

\* The bytes of the page the segment's file range covers, after the read.
ReadInto(bytes, size, ph, page) ==
  [o \in DOMAIN bytes |->
     LET at == page * PAGE_SIZE + o - ph.vaddr
     IN  IF at \in 0..(ph.filesz - 1) /\ ph.offset + at < size
         THEN ph.offset + at + 1 ELSE bytes[o]]

\* Whether node->ops->read returns all that was asked for.
FullRead(size, ph, page) ==
  \A o \in 0..(PAGE_SIZE - 1) :
    LET at == page * PAGE_SIZE + o - ph.vaddr
    IN  at \in 0..(ph.filesz - 1) => ph.offset + at < size

Failed(s) == [s EXCEPT !.ok = FALSE]

\* Mutant of FreshPage: the page is not cleared.
FreshPageDirty(s, root, page) ==
  LET new == pmm_alloc(s.m.free, 1)
      r   == vmm_map_page(TakePages(s.m, 1), root, page, new, {"USER", "WRITABLE"})
  IN  IF vmm_virt_to_phys(s.m, root, page) # 0 THEN s
      ELSE IF new = 0 THEN Failed(s)
      ELSE IF ~r.ok THEN [ok |-> FALSE, m |-> r.m, lost |-> s.lost \cup {new}]
      ELSE [s EXCEPT !.m = r.m]

\* A page for the address unless there is one.  When it cannot be mapped the
\* load fails and nobody returns it.
FreshPage(s, root, page) ==
  LET new == pmm_alloc(s.m.free, 1)
      r   == vmm_map_page(TakePages(s.m, 1), root, page, new, {"USER", "WRITABLE"})
  IN  IF vmm_virt_to_phys(s.m, root, page) # 0 THEN s
      ELSE IF new = 0 THEN Failed(s)
      ELSE IF ~r.ok THEN [ok |-> FALSE, m |-> r.m, lost |-> s.lost \cup {new}]
      ELSE [s EXCEPT !.m = [r.m EXCEPT !.byte[new] = BlankBytes]]

\* The segment's part of a page that is mapped.
ReadPage(s, root, size, ph, page) ==
  IF ~s.ok THEN s
  ELSE [s EXCEPT !.ok = FullRead(size, ph, page),
                 !.m.byte[vmm_virt_to_phys(s.m, root, page)] = ReadInto(@, size, ph, page)]

\* Pass 1: one page of a segment.
LoadPage(s, root, size, ph, page) ==
  IF s.ok THEN ReadPage(FreshPage(s, root, page), root, size, ph, page) ELSE s

LoadSegment(s, root, size, ph) ==
  IF ~s.ok \/ ph.type = "short" THEN Failed(s)
  ELSE IF ph.type # "PT_LOAD" THEN s
  ELSE FoldLeft(LAMBDA t, page : LoadPage(t, root, size, ph, page), s, SegmentPages(ph))

SegmentFlags(ph) ==
  {"USER"} \cup If("W" \in ph.flags, {"WRITABLE"}) \cup If("X" \notin ph.flags, {"NO_EXECUTE"})

\* Pass 2: the real permissions; where segments share a page the last wins.
ProtectSegment(m, root, ph) ==
  IF ph.type # "PT_LOAD" THEN m
  ELSE FoldLeft(LAMBDA n, page :
                  vmm_map_page(n, root, page, vmm_virt_to_phys(n, root, page), SegmentFlags(ph)).m,
                m, SegmentPages(ph))

ProtectSegments(s, root, image) ==
  IF ~s.ok THEN s
  ELSE [s EXCEPT !.m = FoldLeft(LAMBDA n, ph : ProtectSegment(n, root, ph), @, image.phdrs)]

elf_load(m, root, image) ==
  ProtectSegments(
    FoldLeft(LAMBDA s, ph : LoadSegment(s, root, image.size, ph),
             [ok |-> image.valid, m |-> m, lost |-> {}], image.phdrs),
    root, image)

(***************************************************************************)
(* The stack: the strings, then AT_NULL, envp, argv and argc below them.    *)
(* argv and envp are given by the lengths of their strings.                 *)
(***************************************************************************)
StringBytes(lens) == FoldLeft(LAMBDA sum, len : sum + len + 1, 0, lens)

StackSlots(argv, envp) == 1 + (Len(argv) + 1) + (Len(envp) + 1) + 2

\* The offset of the lowest string, and the top of the words below it.
StringsBase(argv, envp) == STACK_BYTES - StringBytes(argv) - StringBytes(envp)

\* Mutant of WordsTop: the padding ignores how many words follow.
WordsTopUnpadded(argv, envp) ==
  LET top == StringsBase(argv, envp) - (StringsBase(argv, envp) % 8)
  IN  IF top % 16 # 0 THEN top - 8 ELSE top

WordsTop(argv, envp) ==
  LET top == StringsBase(argv, envp) - (StringsBase(argv, envp) % 8)
  IN  IF (top - StackSlots(argv, envp) * 8) % 16 # 0 THEN top - 8 ELSE top

\* AT_NULL, then envp and its terminator, argv and its terminator, argc: where
\* the pointers start, and where the stack does.
EnvpAt(argv, envp) == WordsTop(argv, envp) - 16 - 8 - 8 * Len(envp)

ArgvAt(argv, envp) == EnvpAt(argv, envp) - 8 - 8 * Len(argv)

StackCursor(argv, envp) == ArgvAt(argv, envp) - 8

\* Where the i-th string starts.
StringAt(strings, i) == STACK_BYTES - StringBytes(SubSeq(strings, 1, i))

\* The words written.  The terminators and AT_NULL are what the cleared page
\* has there.
StackWords(stack_top, argv, envp) ==
  LET user(i) == (stack_top - 1) * STACK_BYTES + StringAt(argv \o envp, i)
  IN  {[at |-> EnvpAt(argv, envp) + 8 * (i - 1), word |-> user(Len(argv) + i)] : i \in 1..Len(envp)}
        \cup {[at |-> ArgvAt(argv, envp) + 8 * (i - 1), word |-> user(i)] : i \in 1..Len(argv)}
        \cup {[at |-> StackCursor(argv, envp), word |-> Len(argv)]}

\* A byte of the page is a pair: <<w, k>> for byte k of the word w, <<-i, k>>
\* for character k of the i-th string, <<0, 0>> for zero.
WordByte(word, k) == IF word = 0 THEN <<0, 0>> ELSE <<word, k>>

Character(strings, i, k) == IF k = strings[i] THEN <<0, 0>> ELSE <<-i, k>>

\* The page with the strings copied and then the words written.  Nothing
\* checks that they fit: a write below the page goes elsewhere.
StackPage(stack_top, argv, envp) ==
  LET strings == argv \o envp
      words   == StackWords(stack_top, argv, envp)
  IN  [o \in 0..(STACK_BYTES - 1) |->
         LET over == {w \in words : o \in w.at..(w.at + 7)}
             text == {i \in 1..Len(strings) : o - StringAt(strings, i) \in 0..strings[i]}
         IN  IF over # {} THEN LET w == CHOOSE w \in over : TRUE IN WordByte(w.word, o - w.at)
             ELSE IF text # {} THEN LET i == CHOOSE i \in text : TRUE
                                    IN  Character(strings, i, o - StringAt(strings, i))
             ELSE <<0, 0>>]

\* One page below stack_top; StackPage says what is in it.  When it cannot be
\* mapped nobody returns it.
elf_build_user_stack(m, root, stack_top) ==
  LET new == pmm_alloc(m.free, 1)
      r   == vmm_map_page([TakePages(m, 1) EXCEPT !.byte[new] = BlankBytes], root, stack_top - 1,
                          new, {"USER", "WRITABLE", "NO_EXECUTE"})
  IN  IF new = 0 THEN [ok |-> FALSE, m |-> m, lost |-> {}]
      ELSE [ok |-> r.ok, m |-> r.m, lost |-> IF r.ok THEN {} ELSE {new}]
=============================================================================
