CONSTANTS
  Cols = 3
  GlyphH = 2
  Rows = 5
  ScrollAt = 3
  ScrollCopy = 21
  ScrollBlank = 9
  TabStop = 2
  Chars <- MCChars
  Space = " "
  MaxLine = 3
SPECIFICATION ConsoleSpec
INVARIANTS
  WidestLineFits
PROPERTY ShowsText
