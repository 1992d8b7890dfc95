------------------------------- MODULE PhysMem -------------------------------
(***************************************************************************)
(* The physical memory manager of Kernel/memory.h and the only code that   *)
(* drives it: the memory section of kernel_main (Kernel/kernel.c:135-164). *)
(* kernel_main walks the E820 table the boot loader left at 0x8504 twice:  *)
(* first to add up the available memory (init_pmm), then to hand every     *)
(* available region to init_region; at last deinit_region takes back the   *)
(* blocks of the kernel image.  Interrupts are off all along, so the       *)
(* section is one sequential process; a loop iteration is one step.        *)
(*                                                                         *)
(* The bitmap is the set of the bit numbers that are 1.  set_entry and     *)
(* unset_entry index the word with `b/32', where b is not a parameter but  *)
(* the enumerator b = 0x30 of enum kb_scancodes (mstdio.h:44).             *)
(***************************************************************************)
EXTENDS Integers, Sequences, Sums

CONSTANTS
  Smaps,       \* the E820 tables considered: sequences of entries
  BlockSize,   \* BLOCK_SIZE, 1024
  WordBits,    \* bits of a bitmap word, 32
  EnumB,       \* the value of enumerator b, 0x30
  UIntMod,     \* 2^32, the modulus of uint32
  KernelStart, \* 0x1F00
  KernelEnd    \* (uint32)&end, set by the linker

Available == 1   \* E820 type 1

Entry == [base : Nat, length : Nat, type : Nat]

ASSUME SmapsAssumption == Smaps \subseteq Seq(Entry)
ASSUME GeometryAssumption ==
  /\ BlockSize \in Nat \ {0}
  /\ WordBits \in Nat \ {0}
  /\ UIntMod \in Nat \ {0, 1}
  /\ EnumB \in Nat
ASSUME KernelAssumption ==
  /\ KernelStart \in Nat
  /\ KernelEnd \in Nat
  /\ KernelEnd < UIntMod
  /\ BlockSize <= KernelStart    \* 0x1F00 lies in block 7

VARIABLES
  pc,           \* where kernel_main is in the section
  smap,         \* the E820 table
  i,            \* index of the entry the loop is at
  total,        \* kernel_main's `uint32 total'
  bitmap,       \* moca_pmm.bitmap, the bits that are 1
  max_blocks,   \* moca_pmm.max_blocks
  used_blocks,  \* moca_pmm.used_blocks
  free_blocks,  \* moca_pmm.free_blocks
  align,        \* block number the region loop is at
  left          \* iterations the region loop has left

counters == <<max_blocks, used_blocks, free_blocks>>
loop == <<align, left>>
vars == <<pc, smap, i, total, bitmap, max_blocks, used_blocks, free_blocks,
          align, left>>

-----------------------------------------------------------------------------
(* uint32 ++ and --, and the conversion of a wider value to uint32.  A       *)
(* definition X_... just above a definition X is a faulty variant of it that *)
(* the code does not contain: the properties must tell the two apart.        *)
UInt == 0 .. UIntMod - 1
Inc(n) == IF n = UIntMod - 1 THEN 0 ELSE n + 1
Dec_Saturating(n) == IF n = 0 THEN 0 ELSE n - 1
Dec(n) == IF n = 0 THEN UIntMod - 1 ELSE n - 1
ToUInt(n) == n % UIntMod

(* addr / BLOCK_SIZE and length / BLOCK_SIZE of the arguments of init_region. *)
Blocks_RoundedUp(n) == (ToUInt(n) + BlockSize - 1) \div BlockSize
Blocks(n) == ToUInt(n) \div BlockSize

(* deinit_region(0x1F00, (uint32)&end): the length is the end address. *)
KernelFirst == KernelStart \div BlockSize
KernelCount == KernelEnd \div BlockSize

(* The bit that set_entry(bit) and unset_entry(bit) really touch. *)
EntryWord == EnumB \div WordBits
BitOf(bit) == (EntryWord * WordBits) + (bit % WordBits)

set_entry_Xor(bit) ==
  bitmap' = IF BitOf(bit) \in bitmap THEN bitmap \ {BitOf(bit)} ELSE bitmap \cup {BitOf(bit)}
set_entry(bit) == bitmap' = bitmap \cup {BitOf(bit)}
unset_entry(bit) == bitmap' = bitmap \ {BitOf(bit)}

(* memset(bitmap, 0xFF, max_blocks) counts bytes: eight bits for each block. *)
MemsetBits(blocks) == 0 .. 8 * blocks - 1

-----------------------------------------------------------------------------
(* .bss is zero: the padding of the disk image is loaded over it. *)
Init ==
  /\ pc = "total"
  /\ smap \in Smaps
  /\ i = 1
  /\ total = 0
  /\ bitmap = {}
  /\ max_blocks = 0 /\ used_blocks = 0 /\ free_blocks = 0
  /\ align = 0 /\ left = 0

AtEntry == i <= Len(smap)

(* One iteration of the first loop: total += smap->length, in 32 bits. *)
SumEntry ==
  /\ pc = "total"
  /\ AtEntry
  /\ total' = IF smap[i].type = Available
                THEN ToUInt(total + smap[i].length) ELSE total
  /\ i' = i + 1
  /\ UNCHANGED <<pc, smap, bitmap, counters, loop>>

(* init_pmm(MEMADDR, total) *)
init_pmm ==
  /\ pc = "total"
  /\ ~AtEntry
  /\ max_blocks' = total \div BlockSize
  /\ used_blocks' = max_blocks'
  /\ free_blocks' = 0
  /\ bitmap' = bitmap \cup MemsetBits(max_blocks')
  /\ i' = 1
  /\ pc' = "regions"
  /\ UNCHANGED <<smap, total, loop>>

(* The second loop, at an entry that is not available memory. *)
SkipEntry_Stuck == pc = "regions" /\ AtEntry /\ UNCHANGED vars

SkipEntry ==
  /\ pc = "regions"
  /\ AtEntry
  /\ smap[i].type # Available
  /\ i' = i + 1
  /\ UNCHANGED <<pc, smap, total, bitmap, counters, loop>>

(* ... at available memory: init_region(smap->base, smap->length) starts. *)
EnterRegion ==
  /\ pc = "regions"
  /\ AtEntry
  /\ smap[i].type = Available
  /\ align' = Blocks(smap[i].base)
  /\ left' = Blocks(smap[i].length)
  /\ pc' = "init_region"
  /\ UNCHANGED <<smap, i, total, bitmap, counters>>

(* One iteration of the loop of init_region. *)
FreeBlock ==
  /\ pc = "init_region"
  /\ left > 0
  /\ unset_entry(align)
  /\ align' = align + 1
  /\ used_blocks' = Dec(used_blocks)
  /\ free_blocks' = Inc(free_blocks)
  /\ left' = left - 1
  /\ UNCHANGED <<pc, smap, i, total, max_blocks>>

LeaveRegion ==
  /\ pc = "init_region"
  /\ left = 0
  /\ i' = i + 1
  /\ pc' = "regions"
  /\ UNCHANGED <<smap, total, bitmap, counters, loop>>

(* All regions are in: deinit_region starts. *)
EnterKernelRegion ==
  /\ pc = "regions"
  /\ ~AtEntry
  /\ align' = KernelFirst
  /\ left' = KernelCount
  /\ pc' = "deinit_region"
  /\ UNCHANGED <<smap, i, total, bitmap, counters>>

(* One iteration of the loop of deinit_region. *)
TakeBlock ==
  /\ pc = "deinit_region"
  /\ left > 0
  /\ set_entry(align)
  /\ align' = align + 1
  /\ used_blocks' = Inc(used_blocks)
  /\ free_blocks' = Dec(free_blocks)
  /\ left' = left - 1
  /\ UNCHANGED <<pc, smap, i, total, max_blocks>>

LeaveKernelRegion ==
  /\ pc = "deinit_region"
  /\ left = 0
  /\ pc' = "done"
  /\ UNCHANGED <<smap, i, total, bitmap, counters, loop>>

Next ==
  \/ SumEntry \/ init_pmm
  \/ SkipEntry \/ EnterRegion \/ FreeBlock \/ LeaveRegion
  \/ EnterKernelRegion \/ TakeBlock \/ LeaveKernelRegion

(* The processor executes kernel_main, with interrupts off, until it is done. *)
Spec == Init /\ [][Next]_vars /\ WF_vars(Next)

-----------------------------------------------------------------------------
(* The types: each counter is a uint32, and init_region is entered only at   *)
(* an entry of the table (kernel.c:155-158).                                 *)
TypeOK ==
  /\ pc \in {"total", "regions", "init_region", "deinit_region", "done"}
  /\ smap \in Smaps
  /\ i \in 1 .. Len(smap) + 1
  /\ pc = "init_region" => AtEntry
  /\ total \in UInt /\ max_blocks \in UInt
  /\ used_blocks \in UInt /\ free_blocks \in UInt
  /\ bitmap \subseteq Nat
  /\ align \in Nat /\ left \in Nat

(* The two counters of moca_pmm always account for every block, even when  *)
(* one of them has wrapped around: used + free = max in 32-bit arithmetic.  *)
CountersBalance ==
  used_blocks + free_blocks \in {max_blocks, max_blocks + UIntMod}

(* The blocks that hold a byte of [KernelStart, KernelEnd), the memory that *)
(* `preserve the memory of the kernel' (kernel.c:163) is about.             *)
KernelBlocks ==
  {k \in 0 .. KernelEnd : /\ k * BlockSize < KernelEnd
                          /\ KernelStart < (k + 1) * BlockSize}

(* Once the section is done every block of the kernel that the bitmap can   *)
(* describe is marked in use.  Both deinit_region's arguments and the word  *)
(* that set_entry touches could break it: the length passed is the end      *)
(* address, and every bit but those of one word must survive init_region.   *)
KernelReserved ==
  pc = "done" => \A k \in KernelBlocks \cap MemsetBits(max_blocks) : k \in bitmap

(* Why KernelReserved holds, as an inductive invariant: the entry functions  *)
(* can only touch the bits of one word, so every other bit keeps what memset *)
(* gave it; and the bits deinit_region has passed are set, the ones it is    *)
(* still to pass reaching to the last block of its argument.                 *)
TouchedBits == EntryWord * WordBits .. (EntryWord * WordBits) + WordBits - 1

OtherWordsKept == pc # "total" => MemsetBits(max_blocks) \ TouchedBits \subseteq bitmap

KernelTaken ==
  /\ pc = "deinit_region" => /\ align \in KernelFirst .. KernelFirst + KernelCount
                             /\ align + left = KernelFirst + KernelCount
                             /\ \A k \in KernelFirst .. align - 1 : BitOf(k) \in bitmap
  /\ pc = "done" =>
       \A k \in KernelFirst .. KernelFirst + KernelCount - 1 : BitOf(k) \in bitmap

ReservationInv == TypeOK /\ OtherWordsKept /\ KernelTaken

(* What the table calls available: the sum of the lengths of its available  *)
(* entries, each measured in units of u; of the first n entries, and of all. *)
Lengths(u) == [e \in 1 .. Len(smap) |->
                 IF smap[e].type = Available THEN smap[e].length \div u ELSE 0]
AvailableUpTo(u, n) == SumTo(Lengths(u), n)
AvailableIn(u) == AvailableUpTo(u, Len(smap))

(* Where both loops are when the table fits in 32 bits, as an inductive      *)
(* invariant: the first has the sum of the entries it has passed, the second *)
(* has freed their blocks, the entry it is at in part, and deinit_region has *)
(* taken the blocks it has passed from the free ones.                        *)
BlocksInv ==
  AvailableIn(1) < UIntMod =>
    /\ pc = "total" => /\ total = AvailableUpTo(1, i - 1)
                       /\ used_blocks = 0 /\ free_blocks = 0
    /\ pc # "total" => max_blocks = AvailableIn(1) \div BlockSize
    /\ pc = "regions" => /\ used_blocks = max_blocks - AvailableUpTo(BlockSize, i - 1)
                         /\ free_blocks = AvailableUpTo(BlockSize, i - 1)
    /\ pc = "init_region" => /\ smap[i].type = Available
                             /\ left <= smap[i].length \div BlockSize
                             /\ used_blocks = max_blocks - (AvailableUpTo(BlockSize, i) - left)
                             /\ free_blocks = AvailableUpTo(BlockSize, i) - left
    /\ pc = "deinit_region" =>
         /\ left <= KernelCount
         /\ free_blocks = ToUInt(AvailableIn(BlockSize) - (KernelCount - left))
    /\ pc = "done" => free_blocks = ToUInt(AvailableIn(BlockSize) - KernelCount)

(* init_region never takes used_blocks below zero: the blocks of all the    *)
(* regions together are no more than the total divided by the block size,   *)
(* although both are rounded (as long as the total fits in 32 bits).        *)
UsedNeverUnderflows ==
  [][FreeBlock /\ AvailableIn(1) < UIntMod => used_blocks > 0]_vars

(* When kernel_main goes on, the number `mem' prints as available is the    *)
(* blocks of all available regions less the blocks taken for the kernel.    *)
AccountsForMap ==
  pc = "done" /\ AvailableIn(1) < UIntMod =>
    free_blocks = ToUInt(AvailableIn(BlockSize) - (KernelEnd \div BlockSize))

(* The section ends: each loop counts down to zero or runs off the table.   *)
BringUpTerminates == <>(pc = "done")

(* kernel.c:153: `Inititalize each region ... to map out all available      *)
(* memory location': an available block that the kernel does not occupy     *)
(* would have its bit cleared.                                              *)
AvailableMapped ==
  pc = "done" =>
    \A e \in 1 .. Len(smap) : smap[e].type = Available =>
      LET first == smap[e].base \div BlockSize
          last  == first + (smap[e].length \div BlockSize) - 1
      IN \A k \in first .. last :
           k >= KernelFirst + KernelCount => k \notin bitmap

=============================================================================
