------------------------------ MODULE TextScreen ------------------------------
(***************************************************************************)
(* What the console promises: a screen of Lines lines of Cols characters.  *)
(* A character goes to the cursor, a new line clears the way for the next  *)
(* one and, at the bottom, pushes the topmost line out.  Kernel code       *)
(* (mstdio.h, util.h) implements it on a linear framebuffer; see Console.  *)
(***************************************************************************)
EXTENDS Integers

CONSTANTS Lines, Cols, TabStop, Chars, Blank

VARIABLES text, cursor_x, cursor_y

BlankLine == [x \in 0 .. Cols - 1 |-> Blank]
Empty == [y \in 0 .. Lines - 1 |-> BlankLine]

Init == text = Empty /\ cursor_x \in 0 .. Cols /\ cursor_y \in 0 .. Lines - 1

Put(c) ==
  /\ cursor_x < Cols
  /\ text' = [text EXCEPT ![cursor_y][cursor_x] = c]
  /\ cursor_x' = cursor_x + 1
  /\ UNCHANGED cursor_y

Tab ==
  /\ cursor_x' = cursor_x + TabStop
  /\ UNCHANGED <<text, cursor_y>>

NewLine ==
  /\ cursor_x' = 0
  /\ IF cursor_y < Lines - 1
       THEN cursor_y' = cursor_y + 1 /\ UNCHANGED text
       ELSE /\ UNCHANGED cursor_y
            /\ text' = [y \in 0 .. Lines - 1 |->
                          IF y < Lines - 1 THEN text[y + 1] ELSE BlankLine]

Clear == text' = Empty /\ cursor_x' = 0 /\ cursor_y' = 0

Next == (\E c \in Chars : Put(c)) \/ Tab \/ NewLine \/ Clear

Spec == Init /\ [][Next]_<<text, cursor_x, cursor_y>>

=============================================================================
