-------------------------------- MODULE Heap --------------------------------
(***************************************************************************)
(* heap.h.  heap_bitmap is a table of pointers in a fresh process, and     *)
(* nobody stores pointers in it: in memory that is zero every entry is the *)
(* outline at address 0, whose block_addr is the word there (low[0]) and   *)
(* whose `occupied' lies in the next one.                                  *)
(***************************************************************************)
EXTENDS ProcAlloc, Sequences

CONSTANTS
  HeapStart,     \* HEAP_ADDR at the start, 0xA000
  padding        \* 4

ASSUME HeapAssumption == HeapStart \in 1 .. UInt - 1 /\ padding \in Nat

VARIABLES
  HEAP_ADDR, heap_index,
  heap_bitmap,   \* "unset"; "nulls", a table of null pointers; "wild", in memory not its own
  heapBlocks     \* what allocate has handed out, in order, and whether free was called

heapVars == <<HEAP_ADDR, heap_index, heap_bitmap, heapBlocks>>

HeapInit ==
  /\ HEAP_ADDR = HeapStart
  /\ heap_index = 0
  /\ heap_bitmap = "unset"
  /\ heapBlocks = <<>>

(* The rest of init_heap_bitmap, once m_alloc has returned. *)
HeapBitmapAt(table) ==
  /\ heap_bitmap' = table
  /\ heap_index' = 0
  /\ UNCHANGED <<HEAP_ADDR, heapBlocks>>

(* bytes = size * chunk_size; too many are reported and then allocated. *)
allocate_NotRaised(bytes) ==
  LET from == (low[0] + HEAP_ADDR) % UInt
  IN /\ heap_bitmap = "nulls"
     /\ low' = [low EXCEPT ![0] = from, ![1] = 1]
     /\ heapBlocks' = Append(heapBlocks, [from |-> from, bytes |-> bytes, freed |-> FALSE])
     /\ heap_index' = heap_index + 1
     /\ UNCHANGED <<HEAP_ADDR, heap_bitmap>>

allocate(bytes) ==
  LET from == (low[0] + HEAP_ADDR) % UInt
  IN /\ heap_bitmap = "nulls"
     /\ low' = [low EXCEPT ![0] = from, ![1] = 1]
     /\ heapBlocks' = Append(heapBlocks, [from |-> from, bytes |-> bytes, freed |-> FALSE])
     /\ HEAP_ADDR' = (HEAP_ADDR + bytes * padding) % UInt
     /\ heap_index' = heap_index + 1
     /\ UNCHANGED heap_bitmap

(* The end of the block, or HEAP_ADDR, would not fit 32 bits. *)
Wraps(bytes) == low[0] + HEAP_ADDR + bytes * padding >= UInt

(* free looks for block_addr in the first word of the block, which is the     *)
(* client's: it may be found or not.  The caller's copy keeps its size.       *)
free(k) ==
  /\ heap_bitmap = "nulls"
  /\ heapBlocks' = [heapBlocks EXCEPT ![k].freed = TRUE]
  /\ \/ UNCHANGED <<HEAP_ADDR, low>>
     \/ /\ heap_index > 0
        /\ HEAP_ADDR' = (HEAP_ADDR - heapBlocks[k].bytes * padding) % UInt
        /\ low' = [low EXCEPT ![1] = 0]
  /\ UNCHANGED <<heap_index, heap_bitmap>>

End(b) == b.from + b.bytes * padding
=============================================================================
