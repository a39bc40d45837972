------------------------------ MODULE LdiscLine ------------------------------
(***************************************************************************)
(* The line discipline of core/ldisc.c under a typist and a reader, against *)
(* a reference: what a line should contain is defined from the keys typed,  *)
(* without a buffer.                                                        *)
(***************************************************************************)
EXTENDS Ldisc

CONSTANTS MaxKeys,    \* bound: keys typed into one line
          ReadSizes   \* sizes a reader may ask for

ASSUME ReadSizesAssumption == ReadSizes \subseteq Nat

VARIABLES
  ld,
  keys,    \* history: keys typed since the last line was drained
  line,    \* history: what the last finished line should contain
  given    \* history: bytes handed out of that line

vars == <<ld, keys, line, given>>

\* The length of the line being edited after each of the keys ks.
LengthAfter(ks) ==
  LET len[i \in 0..Len(ks)] ==
        IF i = 0 THEN 0
        ELSE IF ks[i] = "bs" /\ len[i - 1] > 0 THEN len[i - 1] - 1
        ELSE IF ks[i] \in Chars /\ len[i - 1] < LDISC_BUF_SIZE - 1 THEN len[i - 1] + 1
        ELSE len[i - 1]
  IN  len

\* What the keys ks amount to: the p-th byte is the key that made the line p
\* long and after which it was never shorter.
Edited(ks) ==
  LET len == LengthAfter(ks)
      keeps(i, p) == /\ len[i] = p /\ len[i - 1] = p - 1
                     /\ \A j \in i..Len(ks) : len[j] >= p
  IN  [p \in 1..len[Len(ks)] |-> ks[CHOOSE i \in 1..Len(ks) : keeps(i, p)]]

Init ==
  /\ ld = ldisc_init
  /\ keys = <<>>
  /\ line = <<>>
  /\ given = <<>>

\* A key; what is typed on a finished line is lost.
Type(byte) ==
  /\ Len(keys) < MaxKeys
  /\ ld' = ldisc_feed(ld, byte)
  /\ IF ldisc_ready(ld)
     THEN UNCHANGED <<keys, line, given>>
     ELSE /\ keys' = Append(keys, byte)
          /\ IF byte = "nl"
             THEN line' = Append(Edited(keys), "nl") /\ given' = <<>>
             ELSE UNCHANGED <<line, given>>

\* A reader; a drain before the line is finished yields nothing.
Drain(size) ==
  /\ ld' = ldisc_drain(ld, size)
  /\ given' = given \o DrainBytes(ld, size)
  /\ keys' = IF ldisc_ready(ld) /\ ~ldisc_ready(ld') THEN <<>> ELSE keys
  /\ UNCHANGED line

Next ==
  \/ \E byte \in Bytes : Type(byte)
  \/ \E size \in ReadSizes : Drain(size)

Spec == Init /\ [][Next]_vars

-----------------------------------------------------------------------------
\* Editing: until Enter the buffer holds what the keys amount to, erased
\* bytes gone, control bytes and bytes beyond the capacity never stored.
EditsLine == ~ldisc_ready(ld) => ld.buf = Edited(keys)

\* Every byte of a finished line is handed out exactly once and in order,
\* however the reads cut it, and no byte typed meanwhile slips in.
HandsOutLine ==
  /\ given = SubSeq(line, 1, Len(given))
  /\ ldisc_ready(ld) => ld.buf = line /\ ld.consumed = Len(given)
  /\ ~ldisc_ready(ld) => given = line

\* A finished line has a byte left to read and ends in the newline, even
\* when typing overflowed: a read of it never returns 0.
ReadyHasBytes ==
  ldisc_ready(ld) => /\ ld.consumed < Len(ld.buf)
                     /\ Len(ld.buf) <= LDISC_BUF_SIZE
                     /\ ld.buf[Len(ld.buf)] = "nl"
=============================================================================
