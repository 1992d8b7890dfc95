------------------------------- MODULE MCInput -------------------------------
(* Two scancodes, the first a shift, against two packets and the two unread   *)
(* replies of init_mouse; the warm-up ends and comes back inside a packet.  A  *)
(* controller at its best, and one at its worst.                              *)
EXTENDS Input
MCShiftKeys == {1}
MCControllers == {{"paced"}, {"race"}}
=============================================================================
