----------------------------- MODULE Framebuffer -----------------------------
(***************************************************************************)
(* The screen terminal of core/fb.c.  fb is a record: px, pixel rows of one *)
(* entry per character column, the cursor in pixels, the escape sequence    *)
(* state and the colours.  An entry is Black or what painted it: a glyph is *)
(* taken as solid, except that of a character without one (space, CR, BS),  *)
(* which paints only a background that is not black.                        *)
(***************************************************************************)
EXTENDS Naturals, Sequences, TLC

CONSTANTS FONT_WIDTH, FONT_HEIGHT, WIDTH, HEIGHT,
          Visible     \* characters with a glyph that shows

ASSUME GeometryAssumption ==
  /\ {FONT_WIDTH, FONT_HEIGHT} \subseteq Nat \ {0}
  /\ WIDTH \in Nat /\ WIDTH >= FONT_WIDTH
  /\ HEIGHT \in Nat /\ HEIGHT >= FONT_HEIGHT

Black == <<"black">>

Digits == {"0", "1", "2", "3", "4", "5", "6", "7", "8", "9"}
Value(d) == CHOOSE n \in 0..9 : ToString(n) = d

Columns == 0..(WIDTH \div FONT_WIDTH - 1)
Rows == 0..(HEIGHT - 1)

\* The colour of an SGR code: its last digit, bright from 90 on.
fb_ansi_color(code) == <<code % 10, code >= 90>>

White == fb_ansi_color(97)
Dark == fb_ansi_color(40)

fb_init ==
  [px |-> [y \in Rows |-> [c \in Columns |-> Black]], x |-> 0, y |-> 0,
   ansi |-> "NORMAL", param |-> 0, fg |-> White, bg |-> Dark]

fb_ansi_apply(fb, code) ==
  CASE code = 0 -> [fb EXCEPT !.fg = White, !.bg = Dark]
    [] code \in 30..37 \cup 90..97 -> [fb EXCEPT !.fg = fb_ansi_color(code)]
    [] code \in 40..47 \cup 100..107 -> [fb EXCEPT !.bg = fb_ansi_color(code)]
    [] OTHER -> fb

\* What a pixel of character c becomes, if it is painted at all.
Paint(fb, c, old) ==
  IF c \in Visible THEN <<c, fb.fg>> ELSE IF fb.bg # Dark THEN <<"bg", fb.bg>> ELSE old

\* What lies outside the screen is not painted.
fb_draw_char(fb, c) ==
  [fb EXCEPT !.px = [y \in Rows |->
     IF y \in fb.y..(fb.y + FONT_HEIGHT - 1) /\ fb.x \div FONT_WIDTH \in Columns
     THEN [@[y] EXCEPT ![fb.x \div FONT_WIDTH] = Paint(fb, c, @)] ELSE @[y]]]

\* Mutant of terminal_scroll: the bottom strip keeps its old pixels.
ScrollNoClear(fb) ==
  [fb EXCEPT !.px = [y \in Rows |-> IF y < HEIGHT - FONT_HEIGHT THEN @[y + FONT_HEIGHT] ELSE @[y]],
             !.y = HEIGHT - FONT_HEIGHT]

terminal_scroll(fb) ==
  [fb EXCEPT !.px = [y \in Rows |-> IF y < HEIGHT - FONT_HEIGHT THEN @[y + FONT_HEIGHT]
                                    ELSE [c \in Columns |-> Black]],
             !.y = HEIGHT - FONT_HEIGHT]

(***************************************************************************)
(* fb_terminal_print_char in the steps an interrupt can come between.  x    *)
(* and y are the cursor as the code has it when it needs it, which may be   *)
(* older than fb.x and fb.y.                                                *)
(***************************************************************************)
\* Whether the character, read in state ansi, is drawn: all but escape
\* sequences are, CR and BS like any other.
IsText(ansi, c) == ansi = "NORMAL" /\ c # "esc"

\* Escape sequences set colours or are dropped.
Escape(fb, ansi, c) ==
  CASE ansi = "NORMAL" -> [fb EXCEPT !.ansi = "ESC"]
    [] ansi = "ESC" -> IF c = "[" THEN [fb EXCEPT !.ansi = "CSI", !.param = 0]
                       ELSE [fb EXCEPT !.ansi = "NORMAL"]
    [] ansi = "CSI" /\ c \in Digits -> [fb EXCEPT !.param = @ * 10 + Value(c)]
    [] ansi = "CSI" /\ c = ";" -> [fb_ansi_apply(fb, fb.param) EXCEPT !.param = 0]
    [] ansi = "CSI" /\ c = "m" -> [fb_ansi_apply(fb, fb.param) EXCEPT !.ansi = "NORMAL"]
    [] OTHER -> [fb EXCEPT !.ansi = "NORMAL"]

Glyph(fb, c) == IF c = "nl" THEN fb ELSE fb_draw_char(fb, c)

Advance(fb, c, x) == [fb EXCEPT !.x = IF c = "nl" THEN 0 ELSE x + FONT_WIDTH]

NoRoom(x) == x + FONT_WIDTH > WIDTH

Return(fb) == [fb EXCEPT !.x = 0]

LineFeed(fb, y) == [fb EXCEPT !.y = y + FONT_HEIGHT]

Scroll(fb, y) == IF y + FONT_HEIGHT > HEIGHT THEN terminal_scroll(fb) ELSE fb

\* All of it, with no interrupt in between.
fb_terminal_print_char(fb, c) ==
  LET moved == Advance(Glyph(fb, c), c, fb.x)
      fed   == IF c = "nl" THEN LineFeed(moved, fb.y)
               ELSE IF NoRoom(moved.x) THEN LineFeed(Return(moved), fb.y)
               ELSE moved
  IN  IF IsText(fb.ansi, c) THEN Scroll(fed, fed.y) ELSE Escape(fb, fb.ansi, c)
=============================================================================
