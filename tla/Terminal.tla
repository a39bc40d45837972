------------------------------- MODULE Terminal -------------------------------
(***************************************************************************)
(* What the human sees: the keys LdiscLine's typist presses are echoed      *)
(* through console_putc, the program and the task dump write through it as  *)
(* well, and it feeds both the serial line, with a terminal at its other    *)
(* end, and the framebuffer.  Echo and dump run in the serial interrupt,    *)
(* masked, and are one step each.  The program's write is a system call,    *)
(* which runs with interrupts on: they may come between any two of its      *)
(* steps, and what it has loaded before is then out of date.                *)
(***************************************************************************)
EXTENDS LdiscLine, Framebuffer, FiniteSets

CONSTANTS Texts,       \* what the program writes: sequences of characters
          Dumps,       \* what a task dump says
          MaxTexts,    \* bounds on writes
          MaxTyped     \* and keys

\* What can be typed into a line is printable; a write of nothing is no step.
ASSUME TextAssumption ==
  /\ Chars \cap {"esc", "cr", "\\b"} = {}
  /\ \A text \in Texts \cup Dumps : text \in Seq({text[i] : i \in DOMAIN text})
  /\ <<>> \notin Texts

VARIABLES fb,       \* the screen
          tty,      \* the serial terminal's current line, cursor and escape state
          out,      \* the write under way: the characters left, where in the
                    \* first of them it is, and ansi_state and cursor as loaded
          base,     \* history: column the typed line starts at, <<>> once
                    \* output ran into it
          paper,    \* history: the rows of text put out last
          mixed,    \* history: an interrupt printed inside a character
          left      \* bounds: writes and keys left

tvars == <<vars, fb, tty, out, base, paper, mixed, left>>

Idle == [text |-> <<>>, pc |-> "idle", ansi |-> "NORMAL", x |-> 0, y |-> 0]

\* Mutant of Echo: an erase is echoed even with nothing to erase.
EchoBlindly(byte) ==
  CASE ldisc_ready(ld) -> <<>>
    [] ~ldisc_ready(ld) /\ byte = "bs" -> <<"\\b", " ", "\\b">>
    [] ~ldisc_ready(ld) /\ byte = "nl" -> <<"nl">>
    [] OTHER -> IF Storable(byte) /\ Len(ld.buf) < Room THEN <<byte>> ELSE <<>>

\* What ldisc_feed echoes.
Echo(byte) ==
  CASE ldisc_ready(ld) -> <<>>
    [] ~ldisc_ready(ld) /\ byte = "bs" -> IF ld.buf = <<>> THEN <<>> ELSE <<"\\b", " ", "\\b">>
    [] ~ldisc_ready(ld) /\ byte = "nl" -> <<"nl">>
    [] OTHER -> IF Storable(byte) /\ Len(ld.buf) < Room THEN <<byte>> ELSE <<>>

\* A serial terminal: BS moves the cursor back, CR to the margin, anything
\* else replaces what is under the cursor.  It takes escape sequences, too.
TtyPut(t, c) ==
  CASE ~IsText(t.ansi, c) ->
         [t EXCEPT !.ansi = IF @ = "NORMAL" THEN "ESC"
                            ELSE IF c \in (IF @ = "ESC" THEN {"["} ELSE Digits \cup {";"})
                            THEN "CSI" ELSE "NORMAL"]
    [] IsText(t.ansi, c) /\ c = "nl" -> [t EXCEPT !.line = <<>>, !.at = 0]
    [] IsText(t.ansi, c) /\ c = "cr" -> [t EXCEPT !.at = 0]
    [] IsText(t.ansi, c) /\ c = "\\b" -> [t EXCEPT !.at = IF @ = 0 THEN 0 ELSE @ - 1]
    [] OTHER -> [t EXCEPT !.line = [i \in 1..(IF t.at < Len(@) THEN Len(@) ELSE t.at + 1) |->
                                      IF i = t.at + 1 THEN c ELSE @[i]],
                          !.at = @ + 1]

\* The rows a screen should end with: a row is full when no further character
\* fits, and as many are kept as the screen shows, the topmost in part.
PaperPut(p, c) ==
  LET row  == IF c = "nl" THEN p[Len(p)] ELSE Append(p[Len(p)], c)
      done == c = "nl" \/ Len(row) = WIDTH \div FONT_WIDTH
      all  == SubSeq(p, 1, Len(p) - 1) \o (IF done THEN <<row, <<>>>> ELSE <<row>>)
  IN  IF Len(all) <= HEIGHT \div FONT_HEIGHT + 1 THEN all ELSE Tail(all)

\* One character to both, with interrupts off.
console_putc(s, c) ==
  [fb    |-> fb_terminal_print_char(s.fb, c),
   tty   |-> TtyPut(s.tty, c),
   paper |-> IF IsText(s.fb.ansi, c) THEN PaperPut(s.paper, c) ELSE s.paper]

\* kprintf sends CR before LF; a program's write does not.
_putchar(s, c) ==
  IF c = "nl" THEN console_putc(console_putc(s, "cr"), "nl") ELSE console_putc(s, c)

\* Inside a character: from its glyph to its last step.
InsideChar == out.pc \in {"drawn", "advanced", "feed", "moved"}

\* What an interrupt puts out, with putc, a character after the other.
Put(putc(_, _), chars) ==
  LET upto[i \in 0..Len(chars)] ==
        IF i = 0 THEN [fb |-> fb, tty |-> tty, paper |-> paper]
        ELSE putc(upto[i - 1], chars[i])
      s == upto[Len(chars)]
  IN  /\ fb' = s.fb /\ tty' = s.tty /\ paper' = s.paper
      /\ mixed' = (mixed \/ (InsideChar /\ chars # <<>>))
      /\ UNCHANGED out

TInit ==
  /\ Init
  /\ fb = fb_init
  /\ tty = [line |-> <<>>, at |-> 0, ansi |-> "NORMAL"]
  /\ out = Idle
  /\ base = <<0>>
  /\ paper = <<<<>>>>
  /\ mixed = FALSE
  /\ left = [texts |-> MaxTexts, keys |-> MaxTyped]

\* Where a line typed after the output starts.
NewBase == base' = IF ld.buf = <<>> THEN <<tty'.at>> ELSE <<>>

\* Ctrl-P: a line for every task.
sched_task_dump_all ==
  /\ \E text \in Dumps : Put(_putchar, text)
  /\ NewBase
  /\ UNCHANGED vars

\* Any other key is fed to the line discipline and echoed.
FeedAndEcho(byte) ==
  /\ Type(byte)
  /\ Put(console_putc, Echo(byte))
  /\ base' = CASE Echo(byte) = <<>> -> base
               [] Echo(byte) # <<>> /\ tty.ansi # "NORMAL" -> <<>>
               [] Echo(byte) = <<"nl">> /\ tty.ansi = "NORMAL" -> <<0>>
               [] OTHER -> base

console_dev_feed(byte) ==
  /\ left.keys > 0
  /\ left' = [left EXCEPT !.keys = @ - 1]
  /\ IF byte = "ctrlp" THEN sched_task_dump_all ELSE FeedAndEcho(byte)

\* The program is in one system call at a time.
console_dev_ops_read(size) ==
  /\ out = Idle
  /\ Drain(size)
  /\ base' = IF ldisc_ready(ld) /\ ~ldisc_ready(ld') THEN <<tty.at>> ELSE base
  /\ UNCHANGED <<fb, tty, out, paper, mixed, left>>

console_dev_ops_write(text) ==
  /\ out = Idle
  /\ left.texts > 0
  /\ out' = [Idle EXCEPT !.text = text, !.pc = "serial"]
  /\ left' = [left EXCEPT !.texts = @ - 1]
  /\ UNCHANGED <<vars, fb, tty, base, paper, mixed>>
-----------------------------------------------------------------------------
(***************************************************************************)
(* The write, a step of a character at a time.  A value the code loaded may *)
(* be kept in a register or loaded again where it is next used.             *)
(***************************************************************************)
Step(pc) == out.pc = pc /\ UNCHANGED <<vars, mixed, left>>

NextChar ==
  out' = IF Len(out.text) = 1 THEN Idle ELSE [Idle EXCEPT !.text = Tail(out.text), !.pc = "serial"]

serial_putc ==
  /\ Step("serial")
  /\ tty' = TtyPut(tty, Head(out.text))
  /\ NewBase
  /\ out' = [out EXCEPT !.pc = "print", !.ansi = fb.ansi]
  /\ UNCHANGED <<fb, paper>>

PrintChar ==
  LET c == Head(out.text)
  IN  /\ Step("print")
      /\ \E ansi \in {out.ansi, fb.ansi} :
           IF IsText(ansi, c)
           THEN /\ fb' = Glyph(fb, c)
                /\ paper' = PaperPut(paper, c)
                /\ out' = [out EXCEPT !.pc = "drawn", !.x = fb.x, !.y = fb.y]
           ELSE fb' = Escape(fb, ansi, c) /\ NextChar /\ UNCHANGED paper
      /\ UNCHANGED <<tty, base>>

AdvanceCursor ==
  LET c == Head(out.text)
  IN  /\ Step("drawn")
      /\ \E x \in {out.x, fb.x} :
           /\ fb' = Advance(fb, c, x)
           /\ out' = [out EXCEPT !.pc = IF c = "nl" THEN "feed" ELSE "advanced", !.x = fb'.x]
      /\ UNCHANGED <<tty, base, paper>>

WrapCursor ==
  /\ Step("advanced")
  /\ \E x \in {out.x, fb.x} :
       /\ fb' = IF NoRoom(x) THEN Return(fb) ELSE fb
       /\ out' = [out EXCEPT !.pc = IF NoRoom(x) THEN "feed" ELSE "moved"]
  /\ UNCHANGED <<tty, base, paper>>

FeedLine ==
  /\ Step("feed")
  /\ \E y \in {out.y, fb.y} :
       /\ fb' = LineFeed(fb, y)
       /\ out' = [out EXCEPT !.pc = "moved", !.y = fb'.y]
  /\ UNCHANGED <<tty, base, paper>>

ScrollScreen ==
  /\ Step("moved")
  /\ \E y \in {out.y, fb.y} : fb' = Scroll(fb, y)
  /\ NextChar
  /\ UNCHANGED <<tty, base, paper>>

TNext ==
  \/ \E byte \in Bytes : console_dev_feed(byte)
  \/ \E size \in ReadSizes : console_dev_ops_read(size)
  \/ \E text \in Texts : console_dev_ops_write(text)
  \/ serial_putc \/ PrintChar \/ AdvanceCursor \/ WrapCursor \/ FeedLine
  \/ ScrollScreen

TSpec == TInit /\ [][TNext]_tvars
-----------------------------------------------------------------------------
\* While a line is being edited the serial terminal shows it: after whatever
\* stood there, such as a prompt, exactly the bytes of the line and blanks
\* where bytes were erased, with the cursor behind the last.  Erasing never
\* reaches into the prompt, and keys that are not stored are not shown.
EchoShowsLine ==
  ~ldisc_ready(ld) /\ base # <<>> =>
    /\ tty.at = base[1] + Len(ld.buf)
    /\ SubSeq(tty.line, base[1] + 1, tty.at) = ld.buf
    /\ \A i \in (tty.at + 1)..Len(tty.line) : tty.line[i] = " "

\* The text a pixel row shows, Black where nothing was painted.
Shown(row) ==
  [c \in Columns |-> IF c < Len(row) /\ row[c + 1] \in Visible THEN row[c + 1] ELSE "none"]

PixelText(y) == [c \in Columns |-> IF fb.px[y][c][1] \in Visible THEN fb.px[y][c][1] ELSE "none"]

\* The rows of paper, counted up from the cursor's, that pixel row y lies in.
\* Where the height is no multiple of the font's, rows written before the
\* first scroll, the gap-th and those above it, stay the remainder higher.
RowsAt(y, gap) ==
  {k \in 0..(Len(paper) - 1) :
     LET up == k * FONT_HEIGHT + IF k >= gap THEN HEIGHT % FONT_HEIGHT ELSE 0
     IN  y + up >= fb.y /\ y + up < fb.y + FONT_HEIGHT}

\* Whatever an interrupt hits, between two characters the cursor is a whole
\* character inside the screen.  Unless one printed inside a character, the
\* screen then shows the last rows of what was put out, wrapped at its width:
\* the row being written under the cursor and the earlier ones stacked above
\* it, none overdrawn, and nothing anywhere else, also when it has scrolled.
ScreenShowsOutput ==
  ~InsideChar =>
    /\ fb.x % FONT_WIDTH = 0 /\ fb.x + FONT_WIDTH <= WIDTH /\ fb.y + FONT_HEIGHT <= HEIGHT
    /\ mixed \/ /\ fb.x = Len(paper[Len(paper)]) * FONT_WIDTH
                /\ \E gap \in 1..Len(paper) : \A y \in Rows :
                     LET ks == RowsAt(y, gap)
                         k  == CHOOSE n \in ks : TRUE
                     IN  PixelText(y) = Shown(IF ks = {} THEN <<>> ELSE paper[Len(paper) - k])

\* How many pixel rows of a character ch there are on the screen.
Painted(ch) == Cardinality({p \in Rows \X Columns : PixelText(p[1])[p[2]] = ch})

\* While the first line is typed, on a screen that shows nothing else, each
\* of its characters is on the screen as often as in the line: an erased one
\* disappears, as the comment on the echo of an erase says.
EraseDisappears ==
  left.texts = MaxTexts /\ line = <<>> /\ Len(keys) + left.keys = MaxTyped =>
    \A ch \in Chars :
      Painted(ch) = FONT_HEIGHT * Cardinality({i \in DOMAIN ld.buf : ld.buf[i] = ch})
=============================================================================
