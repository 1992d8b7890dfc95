------------------------------- MODULE Numbers -------------------------------
(***************************************************************************)
(* PrintHex and PrintNum (mstdio.h:168-227): what they print of a uint32.  *)
(* Both store the digits from the lowest on and turn the buffer round.     *)
(***************************************************************************)
EXTENDS Integers, Sequences
Seqs == INSTANCE SequencesExt

numbers == <<"0", "1", "2", "3", "4", "5", "6", "7", "8", "9", "A", "B", "C", "D", "E", "F">>

HexLow[number \in Nat] ==
  IF number = 0 THEN <<>> ELSE <<numbers[(number % 16) + 1]>> \o HexLow[number \div 16]

DecLow[number \in Nat] ==
  IF number = 0 THEN <<>> ELSE <<numbers[(number % 10) + 1]>> \o DecLow[number \div 10]

PrintHex_Unturned(number) == <<"0", "x">> \o HexLow[number]
PrintHex(number) ==
  IF number = 0 THEN <<"0", "x", "0">> ELSE Seqs!Reverse(HexLow[number] \o <<"x", "0">>)

(* Of zero there is no digit, i goes from 0 to 255, and bytes are swapped that *)
(* lie outside dec: what is printed is what lay there.                         *)
Wild == <<"whatever lies behind dec">>
PrintNum(number) == IF number = 0 THEN Wild ELSE Seqs!Reverse(DecLow[number])
=============================================================================
