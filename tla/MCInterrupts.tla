----------------------------- MODULE MCInterrupts -----------------------------
(* Timer, keyboard, mouse and disk; every exception; a BIOS that     *)
(* masked everything, nothing, or all but the keyboard.                       *)
EXTENDS Interrupts
MCLines == {0, 1, 12, 14}
MCExceptions == 0 .. 31
MCBiosMasks == {{}, 0 .. 15, 0 .. 15 \ {1}}
=============================================================================
