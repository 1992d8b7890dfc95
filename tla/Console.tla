------------------------------- MODULE Console -------------------------------
(***************************************************************************)
(* The text console: PutC and Print (mstdio.h:107-155), update_screen and  *)
(* clear_screen (util.h:210-238).  A character is drawn as GlyphH strips   *)
(* of eight pixels; one cell of fb stands for one strip, so a pixel row is *)
(* Cols cells and a line of text GlyphH * Cols.  Nothing stops cursor_x at *)
(* the right edge: a character past it is drawn one pixel row further      *)
(* down, at the left.  Colours belong to the character.                    *)
(*                                                                         *)
(* Print runs with no other writer of the screen or the cursor: the two    *)
(* interrupt handlers that return do not print.  One character is one      *)
(* step; which character comes next is the caller's choice.                *)
(***************************************************************************)
EXTENDS Integers

CONSTANTS
  Cols,         \* WIDTH / 8, 128
  GlyphH,       \* 16
  Rows,         \* HEIGHT / GlyphH, 48
  ScrollAt,     \* 46, the value of cursor_y that scrolls
  ScrollCopy,   \* 0xBA000 / 8, the strips moved up
  ScrollBlank,  \* 0x6000 / 8, the strips blacked out below them
  TabStop,      \* 4
  Chars,        \* glyphs
  Space,        \* a character whose glyph has no pixel set
  MaxLine       \* bound: callers print no line longer than this

FbSize == Rows * GlyphH * Cols
LineCells == GlyphH * Cols

(* Where cursor_x must stop for the last strip of a character on line       *)
(* ScrollAt - 1 to be in the framebuffer: 4224 on the PC.                   *)
WidestLine == (((Rows - ScrollAt) * GlyphH) + 1) * Cols

ASSUME ConsoleAssumption ==
  /\ Cols \in Nat \ {0} /\ GlyphH \in Nat \ {0} /\ TabStop \in Nat
  /\ Rows \in Nat /\ ScrollAt \in 1 .. Rows - 1
  /\ ScrollCopy \in Nat /\ ScrollBlank \in Nat
  /\ ScrollCopy + ScrollBlank = FbSize     \* 0xBA000 + 0x6000 = 1024 * 768
  /\ ScrollCopy + LineCells <= FbSize
  /\ (ScrollAt - 1) * LineCells <= ScrollCopy  \* 45 lines of text are moved up whole
  /\ MaxLine \in Nat /\ Cols <= MaxLine /\ MaxLine <= WidestLine
  /\ Space \notin Chars

VARIABLES fb, cursor_x, cursor_y

consoleVars == <<fb, cursor_x, cursor_y>>

(* A definition X_... just above a definition X is a faulty variant of it     *)
(* that the code does not contain: the properties must tell the two apart.    *)

-----------------------------------------------------------------------------
Black == <<>>
Strip(c, k) == IF c = Space THEN Black ELSE <<c, k>>

(* The cell of strip k of the character at (x, y). *)
Cell(x, y, k) == x + (y * LineCells) + (k * Cols)
CellsOf(x, y) == {Cell(x, y, k) : k \in 0 .. GlyphH - 1}

AllBlack == [p \in 0 .. FbSize - 1 |-> Black]

(* Setting the video mode clears the screen; kernel_main puts the cursor    *)
(* somewhere on it (kernel.c:27-28).                                        *)
ConsoleInit == fb = AllBlack /\ cursor_x \in 0 .. Cols - 1 /\ cursor_y \in 0 .. ScrollAt - 1

Drawn(c) ==
  [p \in DOMAIN fb |->
     IF p \in CellsOf(cursor_x, cursor_y)
       THEN Strip(c, (p - Cell(cursor_x, cursor_y, 0)) \div Cols) ELSE fb[p]]

PutC(c) ==
  /\ cursor_x < MaxLine
  /\ fb' = Drawn(c)
  /\ cursor_x' = cursor_x + 1
  /\ UNCHANGED cursor_y

(* case '\t' of Print: nothing is drawn. *)
Tab ==
  /\ cursor_x + TabStop <= MaxLine
  /\ cursor_x' = cursor_x + TabStop
  /\ UNCHANGED <<fb, cursor_y>>

(* The two loops of update_screen, one up over the other. *)
Scrolled_NotBlanked ==
  [p \in DOMAIN fb |->
     IF p < (ScrollAt - 1) * LineCells THEN fb[p + LineCells] ELSE fb[p]]
Scrolled ==
  [p \in DOMAIN fb |-> IF p < ScrollCopy THEN fb[p + LineCells] ELSE Black]

(* case '\n' of Print: cursor_y++, cursor_x = 0, update_screen(). *)
AtBottom_TooLate(y) == y > ScrollAt
AtBottom(y) == y >= ScrollAt

NewLine ==
  /\ cursor_x' = 0
  /\ IF AtBottom(cursor_y + 1)
       THEN fb' = Scrolled /\ UNCHANGED cursor_y
       ELSE cursor_y' = cursor_y + 1 /\ UNCHANGED fb

clear_screen == fb' = AllBlack /\ cursor_x' = 0 /\ cursor_y' = 0

ConsoleNext == (\E c \in Chars \cup {Space} : PutC(c)) \/ Tab \/ NewLine \/ clear_screen

ConsoleSpec == ConsoleInit /\ [][ConsoleNext]_consoleVars

-----------------------------------------------------------------------------
(* The types: the cursor stays above the line that scrolls, and strips of     *)
(* glyphs are all that is ever written (mstdio.h:107-155, util.h:210-238).    *)
ConsoleTypeOK ==
  /\ fb \in [0 .. FbSize - 1 -> {Black} \cup (Chars \X (0 .. GlyphH - 1))]
  /\ cursor_x \in 0 .. MaxLine
  /\ cursor_y \in 0 .. ScrollAt - 1

(* Whatever has been printed, the line the cursor is on has room for          *)
(* WidestLine characters, all their strips inside the framebuffer, far past   *)
(* the right edge: PutC itself checks nothing (mstdio.h:112-122), and only    *)
(* the scroll keeps the cursor high enough (util.h:214).                      *)
WidestLineFits ==
  \A x \in 0 .. WidestLine - 1 : CellsOf(x, cursor_y) \subseteq DOMAIN fb

(* The framebuffer read back: the character whose strips are at (x, y).       *)
Garbled == "garbled"
Glyph(c) == [k \in 0 .. GlyphH - 1 |-> Strip(c, k)]
CharOf(strips) ==
  IF \E c \in Chars \cup {Space} : strips = Glyph(c)
    THEN CHOOSE c \in Chars \cup {Space} : strips = Glyph(c) ELSE Garbled
CharAt(x, y) == CharOf([k \in 0 .. GlyphH - 1 |-> fb[Cell(x, y, k)]])

Screen == INSTANCE TextScreen
            WITH Lines <- ScrollAt, Blank <- Space, Chars <- Chars \cup {Space},
                 text <- [y \in 0 .. ScrollAt - 1 |->
                            [x \in 0 .. Cols - 1 |-> CharAt(x, y)]]

(* As long as lines fit the screen, the framebuffer always shows the text of  *)
(* the abstract screen: characters are drawn whole, at the cursor, and        *)
(* scrolling moves whole lines and leaves nothing behind on the line it opens.*)
ShowsText == Screen!Spec

=============================================================================
