----------------------------- MODULE MCTerminal -----------------------------
(***************************************************************************)
(* Instances of Terminal.                                                   *)
(***************************************************************************)
EXTENDS Terminal

CONSTANTS a, b    \* the keys that are stored

MCVisible == {a, b, "c"}

\* A write sets a colour, the dump sets the one of its tag and resets it.
MCTexts == {<<"esc", "[", "m", "c", "nl">>}

MCDumps == {<<"esc", "[", "9", "0", "m", "c", "esc", "[", "0", "m", "nl">>}

\* No definition tells one key from the other.
Keys == Permutations({a, b})

\* Once an interrupt has printed inside a character no property looks at
\* pixels and paper again, and nothing else ever depends on them.
Seen ==
  <<vars, tty, out, base, mixed, left, fb.x, fb.y, fb.ansi, fb.param,
    IF mixed THEN <<>> ELSE <<fb, paper>>>>
=============================================================================
