---------------------------- MODULE MCAllocators ----------------------------
(* Twelve blocks in three words, three slots for five who may hold a process;  *)
(* a heap table of as many blocks as a block has bytes, as in the code; pages   *)
(* whose table entries are the words 0, 1 and 2.                               *)
EXTENDS Allocators

MCEntryKinds == {{}, {"global"}}
=============================================================================
