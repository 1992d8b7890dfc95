------------------------------ MODULE ProcAlloc ------------------------------
(***************************************************************************)
(* xxtra.c: the block allocator.  A bitmap of blocks, the counters, and    *)
(* the table all_processes, of which callers get a copy.                   *)
(*                                                                         *)
(* memory_map is the set of its one-bits.  What callers do with the copies *)
(* is the business of the modules that extend this one.                    *)
(***************************************************************************)
EXTENDS Integers, FiniteSets

CONSTANTS
  BLOCK_SIZE,    \* 1024
  WordBits,      \* 32
  VisibleBits,   \* 8: test() returns a uint8
  UInt,          \* 2^32
  Slots          \* of all_processes, 25

ASSUME ProcAllocAssumption ==
  /\ BLOCK_SIZE \in Nat \ {0} /\ WordBits \in Nat \ {0} /\ VisibleBits \in 0 .. WordBits
  /\ UInt \in Nat \ {0} /\ Slots \in 1 .. UInt - 1

VARIABLES
  memory_map, max_blocks, used_blocks, total_allocated,
  all_processes, curr_pID,
  low            \* the words at 0 and 4: where the null pointers of heap.h and
                 \* virtual_mem.h lead

procVars == <<memory_map, max_blocks, used_blocks, total_allocated, all_processes, curr_pID>>

NoProcess == [occupied |-> 0, pID |-> 0, address |-> 0, allocation_size |-> 0,
              allocation_used |-> 0]
Freed == [NoProcess EXCEPT !.occupied = 1]

ProcInit ==
  /\ memory_map = {}
  /\ max_blocks = 0 /\ used_blocks = 0 /\ total_allocated = 0
  /\ all_processes = [s \in 0 .. Slots - 1 |-> NoProcess]
  /\ curr_pID = 0

Bits == 0 .. max_blocks - 1

-----------------------------------------------------------------------------
init_mem(size) ==
  /\ max_blocks' = size \div BLOCK_SIZE
  /\ used_blocks' = max_blocks'
  /\ memory_map' = 0 .. max_blocks' - 1
  /\ UNCHANGED <<total_allocated, all_processes, curr_pID>>

Region(base, size) ==
  base \div BLOCK_SIZE .. base \div BLOCK_SIZE + size \div BLOCK_SIZE - 1

init_region(base, size) ==
  /\ memory_map' = (memory_map \ Region(base, size)) \cup {0}
  /\ used_blocks' = (used_blocks - size \div BLOCK_SIZE) % UInt
  /\ UNCHANGED <<max_blocks, total_allocated, all_processes, curr_pID>>

deinit_region(base, size) ==
  /\ memory_map' = memory_map \cup (Region(base, size) \cap Bits)
  /\ used_blocks' = (used_blocks + size \div BLOCK_SIZE) % UInt
  /\ UNCHANGED <<max_blocks, total_allocated, all_processes, curr_pID>>

-----------------------------------------------------------------------------
(* find_blocks does not look at the blocks it returns: for bit j of word i it *)
(* tests the bits from i*32 + 2^j on, blocks + 1 of them, of which `blocks'   *)
(* must be clear; test shows the low bits of a word only.  What lies behind   *)
(* the map, or before it for the sign bit, is any memory.                     *)
Looked(bit, blocks) ==
  LET sb == (bit \div WordBits) * WordBits + 2^(bit % WordBits) IN sb .. sb + blocks

Hidden(bit) == bit % WordBits >= VisibleBits
SignBit(first) == first % WordBits = WordBits - 1

SurelyFit(first, blocks) ==
  /\ ~SignBit(first)
  /\ Cardinality({t \in Looked(first, blocks) : Hidden(t) \/ t \in Bits \ memory_map}) >= blocks
MayFit(first, blocks) ==
  \/ SignBit(first)
  \/ Cardinality({t \in Looked(first, blocks) : Hidden(t) \/ t \notin memory_map}) >= blocks

Clear == {b \in Bits : b \div WordBits < max_blocks \div WordBits} \ memory_map

find_blocks(blocks) ==
  IF blocks = 0 THEN {-1}
  ELSE {b \in Clear : MayFit(b, blocks) /\ \A c \in Clear : c < b => ~SurelyFit(c, blocks)}
       \cup (IF \A c \in Clear : ~SurelyFit(c, blocks) THEN {-1} ELSE {})

-----------------------------------------------------------------------------
(* m_alloc: the blocks it may find, -1 for a refusal.  That changes nothing   *)
(* and returns process 0, whoever has it; a grant enters the next slot.       *)
Available == (max_blocks - used_blocks) % UInt

Found(blocks) == IF Available < blocks THEN {-1} ELSE find_blocks(blocks)

Granted(blocks, first) ==
  [occupied |-> 0, pID |-> curr_pID,
   address |-> first * BLOCK_SIZE
               + IF curr_pID > 0 THEN all_processes[curr_pID - 1].allocation_size ELSE 0,
   allocation_size |-> blocks, allocation_used |-> 0]

Grant_KeepsID(blocks, first) ==
  /\ memory_map' = memory_map \cup ({first + 1} \cap Bits)
  /\ used_blocks' = (used_blocks + blocks) % UInt
  /\ total_allocated' = (total_allocated + blocks) % UInt
  /\ all_processes' = [all_processes EXCEPT ![curr_pID] = Granted(blocks, first)]
  /\ UNCHANGED <<max_blocks, curr_pID>>

Grant(blocks, first) ==
  /\ memory_map' = memory_map \cup ({first + 1} \cap Bits)    \* first+1, `blocks' times
  /\ used_blocks' = (used_blocks + blocks) % UInt
  /\ total_allocated' = (total_allocated + blocks) % UInt
  /\ all_processes' = [all_processes EXCEPT ![curr_pID] = Granted(blocks, first)]
  /\ curr_pID' = curr_pID + 1
  /\ UNCHANGED max_blocks

Returned(blocks, first) == IF first = -1 THEN all_processes[0] ELSE Granted(blocks, first)

m_alloc(blocks, first) ==
  IF first = -1 THEN UNCHANGED procVars ELSE curr_pID \in 0 .. Slots - 1 /\ Grant(blocks, first)

(* m_free: pID is zero by the time it is used, so that slot 0 is cleared.     *)
m_free_ClearsFirst(process) ==
  LET frame == process.address \div BLOCK_SIZE
  IN /\ memory_map' = memory_map \ (frame .. frame + process.allocation_size - 1)
     /\ all_processes' = [all_processes EXCEPT ![0] = Freed]
     /\ curr_pID' = (curr_pID - 1) % UInt
     /\ UNCHANGED <<max_blocks, used_blocks, total_allocated>>

m_free_KeepsID(process) ==
  LET frame == process.address \div BLOCK_SIZE
  IN /\ memory_map' = memory_map \ (frame .. frame + process.allocation_size - 1)
     /\ used_blocks' = (used_blocks - process.allocation_size) % UInt
     /\ total_allocated' = (total_allocated - process.allocation_size) % UInt
     /\ all_processes' = [all_processes EXCEPT ![0] = Freed]
     /\ UNCHANGED <<max_blocks, curr_pID>>

m_free(process) ==
  LET frame == process.address \div BLOCK_SIZE
  IN /\ memory_map' = memory_map \ (frame .. frame + process.allocation_size - 1)
     /\ used_blocks' = (used_blocks - process.allocation_size) % UInt
     /\ total_allocated' = (total_allocated - process.allocation_size) % UInt
     /\ all_processes' = [all_processes EXCEPT ![0] = Freed]
     /\ curr_pID' = (curr_pID - 1) % UInt
     /\ UNCHANGED max_blocks

(* assign_value: the last block is never used. *)
Assigned(process) == [process EXCEPT !.allocation_used = @ + 1]

assign_value(process) ==
  /\ process.allocation_used # process.allocation_size
  /\ process.allocation_used + 1 < process.allocation_size
  /\ all_processes' = [all_processes EXCEPT ![process.pID] = Assigned(process)]
  /\ UNCHANGED <<memory_map, max_blocks, used_blocks, total_allocated, curr_pID>>
=============================================================================
