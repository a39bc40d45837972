SPECIFICATION TSpec
CONSTANTS
  a = a
  b = b
  Chars = {a, b}
  Visible <- MCVisible
  LDISC_BUF_SIZE = 3
  ReadSizes = {1, 5}
  MaxKeys = 4
  FONT_WIDTH = 2
  FONT_HEIGHT = 2
  WIDTH = 5
  HEIGHT = 5
  Texts <- MCTexts
  Dumps <- MCDumps
  MaxTexts = 1
  MaxTyped = 4
SYMMETRY Keys
VIEW Seen
INVARIANTS EditsLine HandsOutLine ReadyHasBytes EchoShowsLine ScreenShowsOutput
