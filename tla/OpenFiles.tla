------------------------------ MODULE OpenFiles ------------------------------
(***************************************************************************)
(* What the file system calls promise a program, without page lists, copy   *)
(* chunks, reference counts or memory: a file is a sequence of bytes, a     *)
(* descriptor is a position in it, a read copies from that position, a      *)
(* write replaces what is there and fills any gap with zeros, and both move *)
(* the position by exactly the count the program is told.  The console has  *)
(* no position: reads take from what was typed, writes append to what is    *)
(* shown.                                                                   *)
(***************************************************************************)
EXTENDS Integers, Sequences

CONSTANTS Objects, Console, Tasks, Fds, Buffer,
          Modulus     \* positions are numbers below it

VARIABLES data,    \* contents of each object
          typed,   \* console input nobody read yet
          shown,   \* console output
          open,    \* what each descriptor refers to, or Closed
          told     \* the last call's answer

Closed == <<>>

Descriptors == Tasks \X Fds

Table(t) == {t} \X Fds

Files == Objects \ {Console}

Splice(bytes, pos, new) ==
  [i \in 1..(IF pos + Len(new) > Len(bytes) THEN pos + Len(new) ELSE Len(bytes)) |->
     IF i \in (pos + 1)..(pos + Len(new)) THEN new[i - pos]
     ELSE IF i <= Len(bytes) THEN bytes[i] ELSE 0]

Init ==
  /\ data = [o \in Files |-> <<>>]
  /\ typed = <<>> /\ shown = <<>>
  /\ open = [d \in Descriptors |-> Closed]
  /\ told = [call |-> "none", asked |-> 0, count |-> 0, bytes |-> <<>>]

\* A call that fails changes nothing, except that input may be lost when it
\* could not be delivered.  A seek may be told like a failure: see Seek.
Fail ==
  /\ told'.count = -1
  /\ \E n \in 0..Len(typed) : typed' = SubSeq(typed, n + 1, Len(typed))
  /\ UNCHANGED <<data, shown, open>>

Type ==
  /\ Len(typed') > Len(typed) /\ SubSeq(typed', 1, Len(typed)) = typed
  /\ UNCHANGED <<data, shown, open, told>>

Open(d) ==
  /\ told'.call = "open"
  /\ open[d] = Closed /\ open'[d] # Closed
  /\ open'[d].object \in Objects /\ open'[d].pos = 0
  /\ open' = [open EXCEPT ![d] = open'[d]]
  /\ UNCHANGED <<data, typed, shown>>

\* A new task's three standard descriptors appear together, and a task's
\* descriptors disappear together.
Start(t) ==
  /\ told'.call = "start"
  /\ \A d \in Table(t) : open[d] = Closed
  /\ open' = [d \in Descriptors |->
                IF d \in {t} \X (0..2) THEN [object |-> Console, pos |-> 0, write |-> TRUE]
                ELSE open[d]]
  /\ UNCHANGED <<data, typed, shown>>

Close(ds) ==
  /\ told'.call = "close"
  /\ open' = [d \in Descriptors |-> IF d \in ds THEN Closed ELSE open[d]]
  /\ UNCHANGED <<data, typed, shown>>

\* The answer to a read of what is left: no more than was asked for, and 0
\* only at the end or when nothing was asked for, so that a program may take
\* 0 for the end of the file.
Copies(left) ==
  /\ told'.count \in 0..told'.asked /\ told'.count <= Len(left)
  /\ told'.count = 0 => told'.asked = 0 \/ left = <<>>
  /\ told'.bytes = SubSeq(left, 1, told'.count)

Read(d) ==
  /\ told'.call = "read" /\ told'.count # -1
  /\ open[d] # Closed
  /\ IF open[d].object = Console
     THEN /\ Copies(typed)
          /\ typed' = SubSeq(typed, told'.count + 1, Len(typed))
          /\ UNCHANGED open
     ELSE /\ Copies(SubSeq(data[open[d].object], open[d].pos + 1, Len(data[open[d].object])))
          /\ open' = [open EXCEPT ![d].pos = @ + told'.count]
          /\ UNCHANGED typed
  /\ UNCHANGED <<data, shown>>

\* A write may be short, even empty.
Write(d) ==
  LET new == SubSeq(Buffer, 1, told'.count)
  IN  /\ told'.call = "write" /\ told'.count # -1
      /\ open[d] # Closed
      /\ told'.count \in 0..told'.asked
      /\ told'.count > 0 => open[d].write
      /\ IF open[d].object = Console
         THEN shown' = shown \o new /\ UNCHANGED <<data, open>>
         ELSE /\ open' = [open EXCEPT ![d].pos = @ + told'.count]
              /\ IF new = <<>> THEN UNCHANGED data
                 ELSE data' = [data EXCEPT ![open[d].object] = Splice(@, open[d].pos, new)]
              /\ UNCHANGED shown
      /\ UNCHANGED typed

\* The answer is signed and the position is not.  A negative answer, -1
\* included, is therefore no sign that the position stayed: a program cannot
\* tell a seek to the last position from one that failed.
Seek(d) ==
  /\ told'.call = "seek"
  /\ open[d] # Closed /\ open[d].object # Console
  /\ told'.count \in (-(Modulus \div 2))..((Modulus - 1) \div 2)
  /\ open' = [open EXCEPT ![d].pos = told'.count % Modulus]
  /\ UNCHANGED <<data, typed, shown>>

Next ==
  \/ Fail \/ Type
  \/ \E t \in Tasks : Start(t) \/ Close(Table(t))
  \/ \E d \in Descriptors : Open(d) \/ Close({d}) \/ Read(d) \/ Write(d) \/ Seek(d)

Spec == Init /\ [][Next]_<<data, typed, shown, open, told>>
=============================================================================
