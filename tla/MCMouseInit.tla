----------------------------- MODULE MCMouseInit -----------------------------
(* Command bytes 0x65 (mouse off, no IRQ 12) and 0x47 (as after a BIOS that   *)
(* used the mouse); the scancode 0x1E, which has bit 4, and 0x26, which has   *)
(* bits 1 and 5, the two that init_mouse changes.                             *)
EXTENDS MouseInit
MCBiosBytes == {{0, 2, 5, 6}, {0, 1, 2, 6}}
MCScancodes == {{1, 2, 3, 4}, {1, 2, 5}}
=============================================================================
