-------------------------------- MODULE Ldisc --------------------------------
(***************************************************************************)
(* The line discipline of core/ldisc.c.  A struct ldisc is a record: buf    *)
(* holds the len bytes of the line, consumed how many of them readers took, *)
(* complete whether Enter was pressed.  Printable bytes are the members of  *)
(* Chars; the control bytes the code tells apart are "bs" (BS and DEL),     *)
(* "nl" (CR and LF), "ctrlp" (0x10, the console driver's dump key) and      *)
(* "ctl" (every other byte below 0x20).  Terminal models the echo.          *)
(***************************************************************************)
EXTENDS Naturals, Sequences

CONSTANTS Chars,           \* printable bytes
          LDISC_BUF_SIZE   \* capacity of buf, 256 in the code

ASSUME LdiscAssumption ==
  /\ LDISC_BUF_SIZE \in Nat \ {0}
  /\ Chars \cap {"bs", "nl", "ctrlp", "ctl"} = {}

Bytes == Chars \cup {"bs", "nl", "ctrlp", "ctl"}

LineBytes == Chars \cup {"nl"}

LdiscType == [buf : Seq(LineBytes), consumed : Nat, complete : BOOLEAN]

ldisc_init == [buf |-> <<>>, consumed |-> 0, complete |-> FALSE]

\* Mutant of Room: no slot is kept for the newline.
RoomForAll == LDISC_BUF_SIZE

\* Bytes a line is made of, and how long it may grow before Enter.
Storable(byte) == byte \in Chars

Room == LDISC_BUF_SIZE - 1

\* One typed byte.  A finished line swallows everything until it is drained;
\* the last slot of buf is kept for the newline.
ldisc_feed(ld, byte) ==
  CASE ld.complete -> ld
    [] ~ld.complete /\ byte = "bs" ->
         [ld EXCEPT !.buf = IF @ = <<>> THEN @ ELSE SubSeq(@, 1, Len(@) - 1)]
    [] ~ld.complete /\ byte = "nl" ->
         [ld EXCEPT !.buf = IF Len(@) < LDISC_BUF_SIZE THEN Append(@, "nl") ELSE @,
                    !.complete = TRUE]
    [] ~ld.complete /\ Storable(byte) ->
         [ld EXCEPT !.buf = IF Len(@) < Room THEN Append(@, byte) ELSE @]
    [] OTHER -> ld

ldisc_ready(ld) == ld.complete

\* How many bytes a drain of at most size bytes hands out, and which ones.
DrainCount(ld, size) ==
  LET avail == Len(ld.buf) - ld.consumed
  IN  IF ~ld.complete THEN 0 ELSE IF size < avail THEN size ELSE avail

DrainBytes(ld, size) ==
  SubSeq(ld.buf, ld.consumed + 1, ld.consumed + DrainCount(ld, size))

\* Mutants of ldisc_drain: a partial read throws the rest of the line away;
\* the drained line's bytes stay in the buffer.
DrainForgetsRest(ld, size) == IF ~ld.complete THEN ld ELSE ldisc_init

DrainKeepsLen(ld, size) ==
  IF ~ld.complete THEN ld
  ELSE IF ld.consumed + DrainCount(ld, size) = Len(ld.buf)
  THEN [ld EXCEPT !.consumed = 0, !.complete = FALSE]
  ELSE [ld EXCEPT !.consumed = @ + DrainCount(ld, size)]

\* The line after that drain: forgotten once every byte of it is taken.
ldisc_drain(ld, size) ==
  IF ~ld.complete THEN ld
  ELSE IF ld.consumed + DrainCount(ld, size) = Len(ld.buf) THEN ldisc_init
  ELSE [ld EXCEPT !.consumed = @ + DrainCount(ld, size)]
=============================================================================
