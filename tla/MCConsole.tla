------------------------------ MODULE MCConsole ------------------------------
(* Small screens on which, as on the PC, two lines stay unused below the last *)
(* one, and the scroll moves half a line more than is in use and blacks out   *)
(* the rest.                                                                  *)
EXTENDS Console
MCChars == {"a", "b"}
=============================================================================
