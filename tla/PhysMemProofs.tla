--------------------------- MODULE PhysMemProofs ---------------------------
(***************************************************************************)
(* Proofs about PhysMem for every E820 table and every geometry: types,    *)
(* the balance of the counters, the reservation of the kernel's blocks,    *)
(* and what the counters say of the table.                                 *)
(***************************************************************************)
EXTENDS PhysMem, NumberTheorems

(* A quotient is no larger than its dividend. *)
LEMMA QuotientBound ==
  ASSUME NEW n \in Nat, NEW d \in Nat \ {0}
  PROVE  n \div d \in 0 .. n
  OBVIOUS

(* What the conversion to uint32 returns. *)
LEMMA ToUIntType ==
  ASSUME NEW n \in Nat PROVE ToUInt(n) \in UInt /\ ToUInt(n) \in Nat
<1>1. UIntMod \in Nat \ {0}
  BY GeometryAssumption
<1>2. n % UIntMod \in 0 .. UIntMod - 1
  BY <1>1, DivMod
<1>3. QED
  BY <1>1, <1>2 DEF ToUInt, UInt

(* Bit numbers are natural numbers. *)
LEMMA BitOfType ==
  ASSUME NEW bit \in Nat PROVE BitOf(bit) \in Nat
<1>1. EnumB \div WordBits \in Nat /\ bit % WordBits \in Nat
  BY DivMod, GeometryAssumption
<1>2. (EnumB \div WordBits) * WordBits \in Nat
  BY <1>1, GeometryAssumption
<1>3. QED
  BY <1>1, <1>2 DEF BitOf, EntryWord

(* Both stay within uint32. *)
LEMMA IncDecType ==
  ASSUME NEW n \in UInt PROVE Inc(n) \in UInt /\ Dec(n) \in UInt
BY GeometryAssumption DEF UInt, Inc, Dec

(* kernel_main's section keeps every variable in its type: no table makes a  *)
(* counter leave uint32 or a loop run past the table (kernel.c:135-164).     *)
THEOREM TypeCorrect == Spec => []TypeOK
<1> USE GeometryAssumption, KernelAssumption, SmapsAssumption
<1>1. Init => TypeOK
  <2>1. ASSUME Init PROVE smap \in Seq(Entry)
    BY <2>1 DEF Init
  <2>2. QED
    BY <2>1 DEF Init, TypeOK, UInt
<1>2. TypeOK /\ [Next]_vars => TypeOK'
  <2> SUFFICES ASSUME TypeOK, [Next]_vars PROVE TypeOK'
    OBVIOUS
  <2> USE DEF TypeOK
  <2>0. smap \in Seq(Entry)
    OBVIOUS
  <2>1. CASE SumEntry
    <3>1. smap[i] \in Entry
      BY <2>0, <2>1 DEF SumEntry, AtEntry
    <3>2. smap[i].length \in Nat /\ total + smap[i].length \in Nat
      BY <3>1 DEF Entry, UInt
    <3>3. total' \in UInt
      BY <2>1, <3>2, ToUIntType DEF SumEntry
    <3>4. QED
      BY <2>0, <2>1, <3>3 DEF SumEntry, AtEntry, counters, loop
  <2>2. CASE init_pmm
    <3>1. total \div BlockSize \in UInt
      BY QuotientBound DEF UInt
    <3>2. MemsetBits(max_blocks') \subseteq Nat
      BY DEF MemsetBits
    <3>3. i' \in 1 .. Len(smap') + 1
      BY <2>0, <2>2 DEF init_pmm
    <3>4. bitmap' \subseteq Nat
      BY <2>2, <3>2 DEF init_pmm
    <3>5. QED
      BY <2>2, <3>1, <3>3, <3>4 DEF init_pmm, loop, UInt
  <2>3. CASE SkipEntry
    BY <2>0, <2>3 DEF SkipEntry, AtEntry, counters, loop
  <2>4. CASE EnterRegion
    <3>1. smap[i] \in Entry
      BY <2>0, <2>4 DEF EnterRegion, AtEntry
    <3>2. smap[i].base \in Nat /\ smap[i].length \in Nat
      BY <3>1 DEF Entry
    <3>3. ToUInt(smap[i].base) \in Nat /\ ToUInt(smap[i].length) \in Nat
      BY <3>2, ToUIntType
    <3>4. align' \in Nat /\ left' \in Nat
      BY <2>4, <3>3, DivMod DEF EnterRegion, Blocks
    <3>5. QED
      BY <2>4, <3>4 DEF EnterRegion, AtEntry, counters
  <2>5. CASE FreeBlock
    <3>1. align' \in Nat /\ left' \in Nat
      BY <2>5 DEF FreeBlock
    <3>2. used_blocks' \in UInt /\ free_blocks' \in UInt
      BY <2>5, IncDecType DEF FreeBlock
    <3>3. bitmap' \subseteq Nat
      BY <2>5 DEF FreeBlock, unset_entry
    <3>4. QED
      BY <2>5, <3>1, <3>2, <3>3 DEF FreeBlock, AtEntry
  <2>6. CASE LeaveRegion
    <3>1. i' \in 1 .. Len(smap') + 1
      BY <2>0, <2>6 DEF LeaveRegion, AtEntry
    <3>2. QED
      BY <2>6, <3>1 DEF LeaveRegion, counters, loop
  <2>7. CASE EnterKernelRegion
    BY <2>7, DivMod DEF EnterKernelRegion, KernelFirst, KernelCount, AtEntry, counters
  <2>8. CASE TakeBlock
    <3>1. align' \in Nat /\ left' \in Nat
      BY <2>8 DEF TakeBlock
    <3>2. used_blocks' \in UInt /\ free_blocks' \in UInt
      BY <2>8, IncDecType DEF TakeBlock
    <3>3. BitOf(align) \in Nat
      BY BitOfType
    <3>4. bitmap' \subseteq Nat
      BY <2>8, <3>3 DEF TakeBlock, set_entry
    <3>5. QED
      BY <2>8, <3>1, <3>2, <3>4 DEF TakeBlock, AtEntry
  <2>9. CASE LeaveKernelRegion
    BY <2>9 DEF LeaveKernelRegion, counters, loop
  <2>10. CASE UNCHANGED vars
    BY <2>10 DEF vars, AtEntry
  <2>11. QED
    BY <2>1, <2>2, <2>3, <2>4, <2>5, <2>6, <2>7, <2>8, <2>9, <2>10 DEF Next
<1>3. QED
  BY <1>1, <1>2, PTL DEF Spec

-----------------------------------------------------------------------------
(* One ++ against one -- keeps the two counters in balance, wraps included. *)
LEMMA BalanceStep ==
  ASSUME NEW u \in UInt, NEW f \in UInt, NEW m \in UInt,
         u + f \in {m, m + UIntMod}
  PROVE  /\ Dec(u) + Inc(f) \in {m, m + UIntMod}
         /\ Inc(u) + Dec(f) \in {m, m + UIntMod}
BY GeometryAssumption DEF UInt, Inc, Dec

(* The counters of moca_pmm add up to max_blocks modulo 2^32 at every point  *)
(* of the section, for every table and every geometry (memory.h:43-45 sets   *)
(* the balance, the loops of init_region and deinit_region keep it).         *)
THEOREM CountersCorrect == Spec => []CountersBalance
<1>1. Init => CountersBalance
  BY DEF Init, CountersBalance
<1>2. TypeOK /\ TypeOK' /\ CountersBalance /\ [Next]_vars => CountersBalance'
  <2> SUFFICES ASSUME TypeOK, TypeOK', CountersBalance, [Next]_vars
               PROVE  CountersBalance'
    OBVIOUS
  <2>1. used_blocks \in UInt /\ free_blocks \in UInt /\ max_blocks \in UInt
    BY DEF TypeOK
  <2>2. CASE init_pmm
    <3>1. max_blocks' \in Nat
      BY GeometryAssumption DEF TypeOK, UInt
    <3>2. QED
      BY <2>2, <3>1 DEF init_pmm, CountersBalance
  <2>3. CASE FreeBlock
    BY <2>1, <2>3, BalanceStep DEF FreeBlock, CountersBalance
  <2>4. CASE TakeBlock
    BY <2>1, <2>4, BalanceStep DEF TakeBlock, CountersBalance
  <2>5. CASE UNCHANGED counters
    BY <2>5 DEF counters, CountersBalance
  <2>6. QED
    BY <2>2, <2>3, <2>4, <2>5
    DEF Next, vars, SumEntry, SkipEntry, EnterRegion, LeaveRegion,
        EnterKernelRegion, LeaveKernelRegion, counters
<1>3. QED
  BY <1>1, <1>2, TypeCorrect, PTL DEF Spec

-----------------------------------------------------------------------------
(* set_entry and unset_entry stay inside one word, and inside that word bit  *)
(* k is the bit of block k.                                                  *)
LEMMA BitOfInWord ==
  ASSUME NEW k \in Nat PROVE BitOf(k) \in TouchedBits
<1>1. EntryWord \in Nat /\ k % WordBits \in 0 .. WordBits - 1
  BY DivMod, GeometryAssumption DEF EntryWord
<1>2. EntryWord * WordBits \in Nat
  BY <1>1, GeometryAssumption
<1>3. QED
  BY <1>1, <1>2, GeometryAssumption DEF BitOf, TouchedBits

(* A bit of that word is its own image. *)
LEMMA BitOfFixed ==
  ASSUME NEW k \in TouchedBits PROVE BitOf(k) = k
<1> DEFINE w == EntryWord
<1>1. w \in Nat /\ WordBits \in Nat \ {0}
  BY DivMod, GeometryAssumption DEF EntryWord
<1>2. w * WordBits \in Nat
  BY <1>1
<1>3. PICK r \in 0 .. WordBits - 1 : k = (w * WordBits) + r
  <2>1. k - (w * WordBits) \in 0 .. WordBits - 1
    BY <1>1, <1>2 DEF TouchedBits
  <2>2. k = (w * WordBits) + (k - (w * WordBits))
    BY <1>1, <1>2 DEF TouchedBits
  <2>3. QED
    BY <2>1, <2>2
<1>4. k % WordBits = r
  BY <1>1, <1>3, ModOfSum
<1>5. QED
  BY <1>3, <1>4 DEF BitOf

(* A block of the kernel is one of the blocks deinit_region walks over.      *)
LEMMA KernelBlocksWalked ==
  ASSUME NEW k \in KernelBlocks
  PROVE  k \in KernelFirst .. KernelFirst + KernelCount - 1
<1> USE GeometryAssumption, KernelAssumption
<1>0. k \in Nat /\ BlockSize \in Nat \ {0}
  BY DEF KernelBlocks
<1>1. k * BlockSize < KernelEnd /\ KernelStart < (k + 1) * BlockSize
  BY DEF KernelBlocks
<1>2. /\ KernelFirst \in Nat
      /\ KernelFirst * BlockSize <= KernelStart
      /\ KernelStart < (KernelFirst + 1) * BlockSize
  BY QuotientBetween DEF KernelFirst
<1>3. KernelCount \in Nat /\ KernelEnd < (KernelCount + 1) * BlockSize
  BY QuotientBetween DEF KernelCount
<1>4. KernelFirst >= 1
  BY <1>2
<1>5. k * BlockSize < (KernelCount + 1) * BlockSize
  BY <1>0, <1>1, <1>3
<1>6. k < KernelCount + 1
  BY <1>0, <1>3, <1>5, CancelFactor
<1>7. KernelFirst * BlockSize < (k + 1) * BlockSize
  BY <1>0, <1>1, <1>2
<1>8. KernelFirst < k + 1
  BY <1>0, <1>2, <1>7, CancelFactor
<1>9. QED
  BY <1>0, <1>2, <1>3, <1>4, <1>6, <1>8

(* The words set_entry cannot reach keep what memset wrote, and the bits that *)
(* deinit_region has passed stay set: the induction behind KernelReserved.    *)
LEMMA ReservationInductive == Spec => []ReservationInv
<1> USE GeometryAssumption, KernelAssumption
<1>1. Init => OtherWordsKept /\ KernelTaken
  BY DEF Init, OtherWordsKept, KernelTaken
<1>2. ASSUME TypeOK, OtherWordsKept, KernelTaken, [Next]_vars
      PROVE  OtherWordsKept' /\ KernelTaken'
  <2>0. KernelFirst \in Nat /\ KernelCount \in Nat
    BY QuotientBetween DEF KernelFirst, KernelCount
  <2>1. align \in Nat /\ left \in Nat /\ bitmap \subseteq Nat
    BY <1>2 DEF TypeOK
  <2>2. BitOf(align) \in TouchedBits
    BY <2>1, BitOfInWord
  <2>3. CASE init_pmm
    BY <2>3 DEF init_pmm, OtherWordsKept, KernelTaken
  <2>4. CASE FreeBlock
    BY <1>2, <2>2, <2>4 DEF FreeBlock, unset_entry, OtherWordsKept, KernelTaken
  <2>5. CASE EnterKernelRegion
    <3>0. align' = KernelFirst /\ left' = KernelCount /\ pc' = "deinit_region"
      BY <2>5 DEF EnterKernelRegion
    <3>1. KernelTaken'
      <4>1. KernelFirst .. align' - 1 = {}
        BY <2>0, <3>0
      <4>2. /\ align' \in KernelFirst .. KernelFirst + KernelCount
            /\ align' + left' = KernelFirst + KernelCount
        BY <2>0, <3>0
      <4>3. QED
        BY <3>0, <4>1, <4>2 DEF KernelTaken
    <3>2. QED
      BY <1>2, <2>5, <3>1 DEF EnterKernelRegion, OtherWordsKept, counters
  <2>6. CASE TakeBlock
    <3>1. OtherWordsKept'
      BY <1>2, <2>6 DEF TakeBlock, set_entry, OtherWordsKept
    <3>2. \A k \in KernelFirst .. align' - 1 : BitOf(k) \in bitmap'
      <4>1. \A k \in KernelFirst .. align - 1 : BitOf(k) \in bitmap
        BY <1>2, <2>6 DEF TakeBlock, KernelTaken
      <4>2. align' - 1 = align /\ bitmap' = bitmap \cup {BitOf(align)}
        BY <2>1, <2>6 DEF TakeBlock, set_entry
      <4>3. \A k \in KernelFirst .. align : k \in KernelFirst .. align - 1 \/ k = align
        BY <2>0, <2>1
      <4>4. QED
        BY <4>1, <4>2, <4>3
    <3>3. /\ align' \in KernelFirst .. KernelFirst + KernelCount
          /\ align' + left' = KernelFirst + KernelCount
      BY <1>2, <2>0, <2>1, <2>6 DEF TakeBlock, KernelTaken
    <3>4. pc' = "deinit_region"
      BY <2>6 DEF TakeBlock
    <3>5. QED
      BY <3>1, <3>2, <3>3, <3>4 DEF KernelTaken
  <2>7. CASE LeaveKernelRegion
    <3>1. align = KernelFirst + KernelCount
      BY <1>2, <2>0, <2>1, <2>7 DEF LeaveKernelRegion, KernelTaken
    <3>2. KernelTaken'
      <4>1. \A k \in KernelFirst .. align - 1 : BitOf(k) \in bitmap
        BY <1>2, <2>7 DEF LeaveKernelRegion, KernelTaken
      <4>2. pc' = "done" /\ bitmap' = bitmap
        BY <2>7 DEF LeaveKernelRegion
      <4>3. \A k \in KernelFirst .. KernelFirst + KernelCount - 1 : BitOf(k) \in bitmap'
        BY <2>0, <2>1, <3>1, <4>1, <4>2
      <4>4. QED
        BY <4>2, <4>3 DEF KernelTaken
    <3>3. QED
      BY <1>2, <2>7, <3>2 DEF LeaveKernelRegion, OtherWordsKept, counters
  <2>8. CASE SumEntry \/ SkipEntry \/ EnterRegion \/ LeaveRegion
    BY <1>2, <2>8
    DEF SumEntry, SkipEntry, EnterRegion, LeaveRegion, OtherWordsKept,
        KernelTaken, counters
  <2>9. CASE UNCHANGED vars
    BY <1>2, <2>9 DEF vars, OtherWordsKept, KernelTaken
  <2>10. QED
    BY <1>2, <2>3, <2>4, <2>5, <2>6, <2>7, <2>8, <2>9 DEF Next
<1>3. QED
  BY <1>1, <1>2, TypeCorrect, PTL DEF Spec, ReservationInv

(* Whatever the memory map and wherever the linker puts `end', the blocks of *)
(* the kernel image are marked in use when the section is over               *)
(* (kernel.c:162-164), as far as the bitmap reaches.                         *)
THEOREM KernelReservedCorrect == Spec => []KernelReserved
<1>1. ReservationInv => KernelReserved
  <2> SUFFICES ASSUME ReservationInv, pc = "done",
                      NEW k \in KernelBlocks \cap MemsetBits(max_blocks)
               PROVE  k \in bitmap
    BY DEF KernelReserved
  <2>1. CASE k \notin TouchedBits
    BY <2>1 DEF ReservationInv, OtherWordsKept
  <2>2. CASE k \in TouchedBits
    <3>1. BitOf(k) \in bitmap
      BY KernelBlocksWalked DEF ReservationInv, KernelTaken
    <3>2. QED
      BY <2>2, <3>1, BitOfFixed
  <2>3. QED
    BY <2>1, <2>2
<1>2. QED
  BY <1>1, ReservationInductive, PTL

-----------------------------------------------------------------------------
(* The terms of the two sums are numbers. *)
LEMMA LengthsType ==
  ASSUME TypeOK, NEW u \in Nat \ {0}, NEW e \in 1 .. Len(smap)
  PROVE  /\ Lengths(u)[e] \in Nat
         /\ smap[e].length \in Nat
         /\ Lengths(u)[e] =
              IF smap[e].type = Available THEN smap[e].length \div u ELSE 0
<1>1. smap \in Seq(Entry)
  BY SmapsAssumption DEF TypeOK
<1>2. smap[e] \in Entry
  BY <1>1
<1>3. smap[e].length \in Nat
  BY <1>2 DEF Entry
<1>4. smap[e].length \div u \in Nat
  BY <1>3, DivMod
<1>5. QED
  BY <1>3, <1>4 DEF Lengths

(* One more entry. *)
LEMMA UpToNext ==
  ASSUME TypeOK, NEW u \in Nat \ {0}, NEW n \in Nat, n < Len(smap)
  PROVE  /\ AvailableUpTo(u, n) \in Nat
         /\ AvailableUpTo(u, n + 1) = AvailableUpTo(u, n) + Lengths(u)[n + 1]
<1>1. Len(smap) \in Nat
  BY SmapsAssumption DEF TypeOK
<1>2. \A k \in 1 .. n + 1 : Lengths(u)[k] \in Nat
  BY <1>1, LengthsType
<1>3. QED
  BY <1>2, SumToNext DEF AvailableUpTo

(* The sums are numbers. *)
LEMMA UpToType ==
  ASSUME TypeOK, NEW u \in Nat \ {0}, NEW n \in 0 .. Len(smap)
  PROVE  AvailableUpTo(u, n) \in Nat
<1>1. Len(smap) \in Nat
  BY SmapsAssumption DEF TypeOK
<1>2. \A k \in 1 .. n : Lengths(u)[k] \in Nat
  BY <1>1, LengthsType
<1>3. QED
  BY <1>2, SumToType DEF AvailableUpTo

(* Nothing is available before the first entry. *)
LEMMA UpToZero == ASSUME NEW u PROVE AvailableUpTo(u, 0) = 0
BY SumToZero DEF AvailableUpTo

(* Part of the table has no more than all of it. *)
LEMMA UpToMonotone ==
  ASSUME TypeOK, NEW u \in Nat \ {0}, NEW m \in 0 .. Len(smap)
  PROVE  AvailableUpTo(u, m) <= AvailableIn(u)
<1> DEFINE T == {n \in Nat : m + n <= Len(smap) =>
                               AvailableUpTo(u, m) <= AvailableUpTo(u, m + n)}
<1>0. Len(smap) \in Nat
  BY SmapsAssumption DEF TypeOK
<1>1. 0 \in T
  BY <1>0, UpToType
<1>2. ASSUME NEW n \in Nat, n \in T PROVE n + 1 \in T
  <2> SUFFICES ASSUME m + (n + 1) <= Len(smap)
               PROVE  AvailableUpTo(u, m) <= AvailableUpTo(u, m + (n + 1))
    OBVIOUS
  <2>1. m + n \in Nat /\ m + n < Len(smap) /\ m + (n + 1) = (m + n) + 1
    BY <1>0
  <2>2. AvailableUpTo(u, m) <= AvailableUpTo(u, m + n)
    BY <1>2, <2>1
  <2>3. /\ AvailableUpTo(u, m + n) \in Nat
        /\ AvailableUpTo(u, (m + n) + 1) = AvailableUpTo(u, m + n) + Lengths(u)[(m + n) + 1]
    BY <2>1, UpToNext
  <2>4. Lengths(u)[(m + n) + 1] \in Nat /\ AvailableUpTo(u, m) \in Nat
    BY <1>0, <2>1, LengthsType, UpToType
  <2>5. QED
    BY <2>1, <2>2, <2>3, <2>4
<1> HIDE DEF T
<1>3. Len(smap) - m \in T
  BY <1>0, <1>1, <1>2, NatInduct
<1>4. QED
  BY <1>0, <1>3 DEF T, AvailableIn

(* Rounding each entry down to blocks loses no less than rounding the sum. *)
LEMMA UpToBlocks ==
  ASSUME TypeOK, NEW m \in 0 .. Len(smap)
  PROVE  AvailableUpTo(BlockSize, m) * BlockSize <= AvailableUpTo(1, m)
<1> USE GeometryAssumption
<1> DEFINE T == {n \in Nat : n <= Len(smap) =>
                    AvailableUpTo(BlockSize, n) * BlockSize <= AvailableUpTo(1, n)}
<1>0. Len(smap) \in Nat
  BY SmapsAssumption DEF TypeOK
<1>1. 0 \in T
  BY UpToZero
<1>2. ASSUME NEW n \in Nat, n \in T PROVE n + 1 \in T
  <2> SUFFICES ASSUME n + 1 <= Len(smap)
               PROVE  AvailableUpTo(BlockSize, n + 1) * BlockSize <= AvailableUpTo(1, n + 1)
    OBVIOUS
  <2> DEFINE B == AvailableUpTo(BlockSize, n)
             S == AvailableUpTo(1, n)
             x == Lengths(BlockSize)[n + 1]
             y == Lengths(1)[n + 1]
  <2>1. n < Len(smap) /\ n + 1 \in 1 .. Len(smap)
    BY <1>0
  <2>2. B \in Nat /\ AvailableUpTo(BlockSize, n + 1) = B + x
    BY <2>1, UpToNext
  <2>3. S \in Nat /\ AvailableUpTo(1, n + 1) = S + y
    BY <2>1, UpToNext
  <2>4. x \in Nat /\ y \in Nat /\ x * BlockSize <= y
    <3> DEFINE l == smap[n + 1].length
    <3>1. /\ l \in Nat
          /\ x = IF smap[n + 1].type = Available THEN l \div BlockSize ELSE 0
      BY <2>1, LengthsType
    <3>2. y = IF smap[n + 1].type = Available THEN l \div 1 ELSE 0
      BY <2>1, LengthsType
    <3> HIDE DEF l, x, y
    <3>3. l \div 1 = l /\ l \div BlockSize \in Nat /\ (l \div BlockSize) * BlockSize <= l
      BY <3>1, QuotientBetween
    <3>4. QED
      BY <3>1, <3>2, <3>3
  <2>5. B * BlockSize <= S
    BY <1>2, <2>1
  <2> HIDE DEF B, S, x, y
  <2>6. (B + x) * BlockSize = (B * BlockSize) + (x * BlockSize)
    BY <2>2, <2>4
  <2>7. B * BlockSize \in Nat /\ x * BlockSize \in Nat
    BY <2>2, <2>4
  <2>8. QED
    BY <2>2, <2>3, <2>4, <2>5, <2>6, <2>7
<1> HIDE DEF T
<1>3. m \in T
  BY <1>0, <1>1, <1>2, NatInduct
<1>4. QED
  BY <1>0, <1>3 DEF T

(* So the blocks of all regions are no more than the blocks of the total. *)
LEMMA BlocksOfTotal ==
  ASSUME TypeOK
  PROVE  /\ AvailableIn(1) \in Nat /\ AvailableIn(BlockSize) \in Nat
         /\ AvailableIn(1) \div BlockSize \in Nat
         /\ AvailableIn(BlockSize) <= AvailableIn(1) \div BlockSize
         /\ AvailableIn(1) \div BlockSize <= AvailableIn(1)
<1> USE GeometryAssumption
<1> DEFINE S == AvailableIn(1)
           B == AvailableIn(BlockSize)
<1>0. Len(smap) \in Nat
  BY SmapsAssumption DEF TypeOK
<1>1. S \in Nat /\ B \in Nat /\ B * BlockSize <= S
  BY <1>0, UpToType, UpToBlocks DEF AvailableIn
<1> HIDE DEF S, B
<1>2. S \div BlockSize \in 0 .. S /\ S < ((S \div BlockSize) + 1) * BlockSize
  BY <1>1, QuotientBetween, QuotientBound
<1>3. B * BlockSize < ((S \div BlockSize) + 1) * BlockSize
  BY <1>1, <1>2
<1>4. B < (S \div BlockSize) + 1
  BY <1>1, <1>2, <1>3, CancelFactor
<1>5. QED
  BY <1>1, <1>2, <1>4 DEF S, B

(* BlocksInv in the next state, with the sums of this one: nothing changes   *)
(* the table.                                                                *)
LEMMA BlocksInvNext ==
  ASSUME smap' = smap,
         AvailableIn(1) < UIntMod =>
           /\ pc' = "total" => /\ total' = AvailableUpTo(1, i' - 1)
                               /\ used_blocks' = 0 /\ free_blocks' = 0
           /\ pc' # "total" => max_blocks' = AvailableIn(1) \div BlockSize
           /\ pc' = "regions" =>
                /\ used_blocks' = max_blocks' - AvailableUpTo(BlockSize, i' - 1)
                /\ free_blocks' = AvailableUpTo(BlockSize, i' - 1)
           /\ pc' = "init_region" =>
                /\ smap[i'].type = Available
                /\ left' <= smap[i'].length \div BlockSize
                /\ used_blocks' = max_blocks' - (AvailableUpTo(BlockSize, i') - left')
                /\ free_blocks' = AvailableUpTo(BlockSize, i') - left'
           /\ pc' = "deinit_region" =>
                /\ left' <= KernelCount
                /\ free_blocks' = ToUInt(AvailableIn(BlockSize) - (KernelCount - left'))
           /\ pc' = "done" => free_blocks' = ToUInt(AvailableIn(BlockSize) - KernelCount)
  PROVE  BlocksInv'
BY DEF BlocksInv, AvailableIn, AvailableUpTo, Lengths, ToUInt, KernelCount

(* Decrementing is subtracting one, in 32 bits. *)
LEMMA DecIsMinusOne ==
  ASSUME NEW n \in Int
  PROVE  Dec(ToUInt(n)) = ToUInt(n - 1)
<1> USE GeometryAssumption
<1> DEFINE r == n % UIntMod
<1>1. r \in 0 .. UIntMod - 1
  BY DivModInt
<1>2. (r + (-1)) % UIntMod = (n + (-1)) % UIntMod
  <2>1. -1 \in Int
    OBVIOUS
  <2>2. QED
    BY <2>1, ModOfModPlus, Zenon
<1>3. r # 0 => (r - 1) % UIntMod = r - 1
  <2>1. r # 0 => r - 1 \in 0 .. UIntMod - 1
    BY <1>1
  <2>2. QED
    BY <2>1, ModSmall
<1>4. (-1) % UIntMod = UIntMod - 1
  <2>1. (((-1) * UIntMod) + (UIntMod - 1)) % UIntMod = UIntMod - 1
    BY ModOfSum
  <2>2. ((-1) * UIntMod) + (UIntMod - 1) = -1
    OBVIOUS
  <2>3. QED
    BY <2>1, <2>2
<1> HIDE DEF r
<1>5. r + (-1) = r - 1 /\ n + (-1) = n - 1
  BY <1>1
<1>6. CASE r = 0
  BY <1>2, <1>4, <1>6, <1>5 DEF Dec, ToUInt, r
<1>7. CASE r # 0
  BY <1>2, <1>3, <1>7, <1>5 DEF Dec, ToUInt, r
<1>8. QED
  BY <1>6, <1>7

(* The whole account of the two loops: what has been added up, freed and     *)
(* taken (kernel.c:141-164, memory.h:44-78).                                 *)
LEMMA BlocksInductive == Spec => []BlocksInv
<1> USE GeometryAssumption, KernelAssumption
<1>1. Init /\ TypeOK => BlocksInv
  BY UpToZero DEF Init, BlocksInv
<1>2. TypeOK /\ BlocksInv /\ [Next]_vars => BlocksInv'
  <2> SUFFICES ASSUME TypeOK, BlocksInv, [Next]_vars PROVE BlocksInv'
    OBVIOUS
  <2> DEFINE S(n) == AvailableUpTo(1, n)
             B(n) == AvailableUpTo(BlockSize, n)
             All == AvailableIn(BlockSize)
             Fits == AvailableIn(1) < UIntMod
  <2>1. smap' = smap
    BY DEF Next, vars, SumEntry, init_pmm, SkipEntry, EnterRegion, FreeBlock,
           LeaveRegion, EnterKernelRegion, TakeBlock, LeaveKernelRegion
  <2>2. /\ Len(smap) \in Nat /\ i \in 1 .. Len(smap) + 1
        /\ total \in UInt /\ max_blocks \in UInt /\ used_blocks \in UInt
        /\ free_blocks \in UInt /\ left \in Nat
    BY SmapsAssumption DEF TypeOK
  <2>3. /\ AvailableIn(1) \in Nat /\ All \in Nat
        /\ All <= AvailableIn(1) \div BlockSize
        /\ AvailableIn(1) \div BlockSize \in 0 .. AvailableIn(1)
        /\ AvailableIn(1) = S(Len(smap)) /\ All = B(Len(smap))
    BY BlocksOfTotal DEF AvailableIn
  <2>4. KernelCount \in Nat
    BY QuotientBetween DEF KernelCount
  <2>5. ASSUME AtEntry
        PROVE  /\ S(i - 1) \in Nat /\ S(i) = S(i - 1) + Lengths(1)[i]
               /\ B(i - 1) \in Nat /\ B(i) = B(i - 1) + Lengths(BlockSize)[i]
               /\ S(i) <= AvailableIn(1) /\ B(i) <= All
               /\ S(i) \in Nat /\ B(i) \in Nat
               /\ smap[i].length \in Nat
               /\ Lengths(1)[i] =
                    IF smap[i].type = Available THEN smap[i].length \div 1 ELSE 0
               /\ Lengths(BlockSize)[i] =
                    IF smap[i].type = Available THEN smap[i].length \div BlockSize ELSE 0
    <3>1. i - 1 \in Nat /\ i - 1 < Len(smap) /\ (i - 1) + 1 = i /\ i \in 1 .. Len(smap)
          /\ i \in 0 .. Len(smap)
      BY <2>2, <2>5 DEF AtEntry
    <3>2. /\ S(i - 1) \in Nat /\ S((i - 1) + 1) = S(i - 1) + Lengths(1)[(i - 1) + 1]
      BY <3>1, UpToNext
    <3>3. /\ B(i - 1) \in Nat
          /\ B((i - 1) + 1) = B(i - 1) + Lengths(BlockSize)[(i - 1) + 1]
      BY <3>1, UpToNext
    <3>4. S(i) <= AvailableIn(1) /\ B(i) <= All /\ S(i) \in Nat /\ B(i) \in Nat
      BY <3>1, UpToMonotone, UpToType
    <3>5. /\ smap[i].length \in Nat
          /\ Lengths(1)[i] =
               IF smap[i].type = Available THEN smap[i].length \div 1 ELSE 0
          /\ Lengths(BlockSize)[i] =
               IF smap[i].type = Available THEN smap[i].length \div BlockSize ELSE 0
      BY <3>1, LengthsType
    <3>6. QED
      BY <3>1, <3>2, <3>3, <3>4, <3>5
  <2>6. ASSUME AtEntry, smap[i].type = Available, Fits
        PROVE  /\ Lengths(1)[i] = smap[i].length
               /\ smap[i].length \in 0 .. UIntMod - 1
               /\ Blocks(smap[i].length) = smap[i].length \div BlockSize
               /\ Lengths(BlockSize)[i] = smap[i].length \div BlockSize
               /\ smap[i].length \div BlockSize \in Nat
    <3> DEFINE l == smap[i].length
    <3>1. l \in Nat /\ Lengths(1)[i] = l \div 1 /\ Lengths(BlockSize)[i] = l \div BlockSize
      BY <2>5, <2>6
    <3>2. S(i) = S(i - 1) + Lengths(1)[i] /\ S(i) <= AvailableIn(1) /\ S(i - 1) \in Nat
      BY <2>5, <2>6
    <3> HIDE DEF l, S
    <3>3. l \div 1 = l /\ l \div BlockSize \in Nat
      BY <3>1, DivMod
    <3>4. l \in 0 .. UIntMod - 1
      BY <2>3, <2>6, <3>1, <3>2, <3>3
    <3>5. l % UIntMod = l
      BY <3>4, ModSmall
    <3>6. QED
      BY <3>1, <3>3, <3>4, <3>5 DEF Blocks, ToUInt, l
  <2> HIDE DEF S, B, All
  <2>7. CASE SumEntry
    <3>1. Fits => total' = S(i' - 1)
      <4> SUFFICES ASSUME Fits PROVE total' = S(i)
        BY <2>2, <2>7 DEF SumEntry
      <4>1. AtEntry /\ total = S(i - 1)
        BY <2>7 DEF SumEntry, BlocksInv, S
      <4>2. CASE smap[i].type = Available
        <5>1. total + smap[i].length = S(i)
          BY <2>5, <2>6, <4>1, <4>2
        <5>2. S(i) \in 0 .. UIntMod - 1
          BY <2>3, <2>5, <4>1
        <5>3. QED
          BY <2>7, <4>2, <5>1, <5>2, ModSmall DEF SumEntry, ToUInt
      <4>3. CASE smap[i].type # Available
        BY <2>5, <2>7, <4>1, <4>3 DEF SumEntry
      <4>4. QED
        BY <4>2, <4>3
    <3>2. pc' = "total" /\ (Fits => used_blocks' = 0 /\ free_blocks' = 0)
      BY <2>7 DEF SumEntry, BlocksInv, counters
    <3>3. QED
      BY <2>1, <3>1, <3>2, BlocksInvNext DEF S
  <2>8. CASE init_pmm
    <3>1. i - 1 = Len(smap)
      BY <2>2, <2>8 DEF init_pmm, AtEntry
    <3>2. Fits => total = AvailableIn(1)
      BY <2>3, <2>8, <3>1 DEF init_pmm, BlocksInv, S
    <3>3. i' - 1 = 0 /\ B(0) = 0
      BY <2>8, UpToZero DEF init_pmm, B
    <3>4. /\ pc' = "regions"
          /\ Fits => max_blocks' = AvailableIn(1) \div BlockSize
          /\ Fits => used_blocks' = max_blocks' - B(i' - 1) /\ free_blocks' = B(i' - 1)
      BY <2>3, <2>8, <3>2, <3>3 DEF init_pmm
    <3>5. QED
      BY <2>1, <3>4, BlocksInvNext DEF B
  <2>9. CASE SkipEntry
    <3>1. B(i' - 1) = B(i - 1)
      <4>1. i' - 1 = i
        BY <2>2, <2>9 DEF SkipEntry
      <4>2. QED
        BY <2>5, <2>9, <4>1 DEF SkipEntry
    <3>2. /\ pc' = "regions"
          /\ Fits => max_blocks' = AvailableIn(1) \div BlockSize
          /\ Fits => used_blocks' = max_blocks' - B(i' - 1) /\ free_blocks' = B(i' - 1)
      BY <2>9, <3>1 DEF SkipEntry, counters, BlocksInv, B
    <3>3. QED
      BY <2>1, <3>2, BlocksInvNext DEF B
  <2>10. CASE EnterRegion
    <3>1. /\ pc' = "init_region" /\ i' = i /\ smap[i].type = Available
          /\ left' = Blocks(smap[i].length)
          /\ Fits => max_blocks' = AvailableIn(1) \div BlockSize
          /\ Fits => used_blocks' = max_blocks' - B(i - 1) /\ free_blocks' = B(i - 1)
      BY <2>10 DEF EnterRegion, counters, BlocksInv, B
    <3>2. Fits => /\ left' = smap[i].length \div BlockSize
                  /\ B(i) - left' = B(i - 1) /\ left' \in Nat
      BY <2>5, <2>6, <2>10, <3>1 DEF EnterRegion
    <3>3. QED
      BY <2>1, <3>1, <3>2, BlocksInvNext DEF B
  <2>11. CASE FreeBlock
    <3>1. /\ pc' = "init_region" /\ i' = i /\ max_blocks' = max_blocks
          /\ left > 0 /\ left' = left - 1 /\ AtEntry
          /\ used_blocks' = Dec(used_blocks) /\ free_blocks' = Inc(free_blocks)
      BY <2>11 DEF FreeBlock, TypeOK
    <3>2. Fits => /\ smap[i].type = Available /\ max_blocks = AvailableIn(1) \div BlockSize
                  /\ left <= smap[i].length \div BlockSize
                  /\ used_blocks = max_blocks - (B(i) - left)
                  /\ free_blocks = B(i) - left
      BY <2>11 DEF FreeBlock, BlocksInv, B
    <3>3. B(i) \in Nat /\ B(i) <= All
      BY <2>5, <3>1
    <3>4. Fits => used_blocks' = used_blocks - 1 /\ free_blocks' = free_blocks + 1
      <4> SUFFICES ASSUME Fits PROVE used_blocks # 0 /\ free_blocks # UIntMod - 1
        BY <3>1 DEF Inc, Dec
      <4> DEFINE b == B(i)
      <4>1. b \in Nat /\ b <= max_blocks
        BY <2>3, <3>2, <3>3
      <4>2. max_blocks \in Nat /\ max_blocks < UIntMod /\ left \in Nat /\ left > 0
        BY <2>2, <3>1 DEF UInt
      <4>3. used_blocks = max_blocks - (b - left) /\ free_blocks = b - left
        BY <3>2
      <4> HIDE DEF b, Fits
      <4>4. QED
        BY <4>1, <4>2, <4>3
    <3>5. Fits => /\ smap[i'].type = Available
                  /\ left' <= smap[i'].length \div BlockSize
                  /\ used_blocks' = max_blocks' - (B(i') - left')
                  /\ free_blocks' = B(i') - left'
                  /\ max_blocks' = AvailableIn(1) \div BlockSize
      <4> SUFFICES ASSUME Fits
                   PROVE  /\ left - 1 <= smap[i].length \div BlockSize
                          /\ used_blocks - 1 = max_blocks - (B(i) - (left - 1))
                          /\ free_blocks + 1 = B(i) - (left - 1)
        BY <3>1, <3>2, <3>4
      <4> DEFINE b == B(i)
                 l == smap[i].length \div BlockSize
      <4>1. b \in Nat /\ max_blocks \in Nat /\ l \in Nat /\ left \in Nat
        BY <2>2, <2>6, <3>1, <3>2, <3>3 DEF UInt
      <4>2. /\ left <= l
            /\ used_blocks = max_blocks - (b - left) /\ free_blocks = b - left
        BY <3>2
      <4> HIDE DEF b, l, Fits
      <4>3. /\ left - 1 <= l /\ used_blocks - 1 = max_blocks - (b - (left - 1))
            /\ free_blocks + 1 = b - (left - 1)
        BY <4>1, <4>2
      <4>4. QED
        BY <4>3 DEF b, l
    <3>6. QED
      BY <2>1, <3>1, <3>5, BlocksInvNext DEF B
  <2>12. CASE LeaveRegion
    <3>1. /\ pc' = "regions" /\ i' - 1 = i /\ AtEntry /\ left = 0
          /\ Fits => /\ max_blocks' = max_blocks /\ max_blocks = AvailableIn(1) \div BlockSize
                     /\ used_blocks' = max_blocks - (B(i) - left)
                     /\ free_blocks' = B(i) - left
      BY <2>2, <2>12 DEF LeaveRegion, TypeOK, counters, BlocksInv, B
    <3>2. B(i) - left = B(i)
      BY <2>5, <3>1
    <3>3. Fits => /\ used_blocks' = max_blocks' - B(i' - 1)
                  /\ free_blocks' = B(i' - 1)
                  /\ max_blocks' = AvailableIn(1) \div BlockSize
      BY <3>1, <3>2
    <3>4. QED
      BY <2>1, <3>1, <3>3, BlocksInvNext DEF B
  <2>13. CASE EnterKernelRegion
    <3>1. /\ pc' = "deinit_region" /\ left' = KernelCount /\ i - 1 = Len(smap)
          /\ Fits => /\ max_blocks' = AvailableIn(1) \div BlockSize
                     /\ free_blocks' = B(i - 1)
      BY <2>2, <2>13 DEF EnterKernelRegion, AtEntry, counters, BlocksInv, B
    <3>2. Fits => free_blocks' = ToUInt(All - (KernelCount - left'))
      <4> SUFFICES ASSUME Fits PROVE All = ToUInt(All - 0)
        BY <2>3, <2>4, <3>1
      <4>1. All \in 0 .. UIntMod - 1
        BY <2>3
      <4>2. QED
        BY <4>1, ModSmall DEF ToUInt
    <3>3. left' <= KernelCount
      BY <2>4, <3>1
    <3>4. QED
      BY <2>1, <3>1, <3>2, <3>3, BlocksInvNext DEF All
  <2>14. CASE TakeBlock
    <3>1. /\ pc' = "deinit_region" /\ left > 0 /\ left' = left - 1
          /\ free_blocks' = Dec(free_blocks)
          /\ Fits => /\ max_blocks' = AvailableIn(1) \div BlockSize
                     /\ left <= KernelCount
                     /\ free_blocks = ToUInt(All - (KernelCount - left))
      BY <2>14 DEF TakeBlock, BlocksInv, All
    <3>2. Fits => free_blocks' = ToUInt(All - (KernelCount - left'))
      <4>1. All - (KernelCount - left) \in Int
        BY <2>2, <2>3, <2>4
      <4>2. Dec(ToUInt(All - (KernelCount - left))) = ToUInt((All - (KernelCount - left)) - 1)
        BY <4>1, DecIsMinusOne
      <4>3. (All - (KernelCount - left)) - 1 = All - (KernelCount - left')
        BY <2>2, <2>3, <2>4, <3>1
      <4>4. QED
        BY <3>1, <4>2, <4>3
    <3>3. Fits => left' <= KernelCount
      BY <2>2, <2>4, <3>1
    <3>4. QED
      BY <2>1, <3>1, <3>2, <3>3, BlocksInvNext DEF All
  <2>15. CASE LeaveKernelRegion
    <3>1. /\ pc' = "done" /\ left = 0
          /\ Fits => /\ max_blocks' = AvailableIn(1) \div BlockSize
                     /\ free_blocks' = ToUInt(All - (KernelCount - left))
      BY <2>15 DEF LeaveKernelRegion, counters, BlocksInv, All
    <3>2. All - (KernelCount - left) = All - KernelCount
      BY <2>3, <2>4, <3>1
    <3>3. QED
      BY <2>1, <3>1, <3>2, BlocksInvNext DEF All
  <2>16. CASE UNCHANGED vars
    BY <2>16, BlocksInvNext DEF vars, BlocksInv
  <2>17. QED
    BY <2>7, <2>8, <2>9, <2>10, <2>11, <2>12, <2>13, <2>14, <2>15, <2>16 DEF Next
<1>3. QED
  BY <1>1, <1>2, TypeCorrect, PTL DEF Spec

(* When kernel_main goes on, the free blocks it has counted are those of all *)
(* available regions less the kernel's (kernel.c:141-164).                   *)
THEOREM AccountsForMapCorrect == Spec => []AccountsForMap
<1>1. BlocksInv => AccountsForMap
  BY DEF BlocksInv, AccountsForMap, KernelCount
<1>2. QED
  BY <1>1, BlocksInductive, PTL

(* No table that fits in 32 bits makes init_region count below zero          *)
(* (memory.h:52-62).                                                         *)
THEOREM UsedNeverUnderflowsCorrect == Spec => UsedNeverUnderflows
<1> USE GeometryAssumption
<1>1. ASSUME TypeOK, BlocksInv, FreeBlock, AvailableIn(1) < UIntMod
      PROVE  used_blocks > 0
  <2>1. /\ left > 0 /\ max_blocks = AvailableIn(1) \div BlockSize
        /\ used_blocks = max_blocks - (AvailableUpTo(BlockSize, i) - left)
    BY <1>1 DEF FreeBlock, BlocksInv
  <2>2. i \in 0 .. Len(smap) /\ left \in Nat
    BY <1>1, SmapsAssumption DEF FreeBlock, TypeOK, AtEntry
  <2>3. /\ AvailableUpTo(BlockSize, i) \in Nat
        /\ AvailableUpTo(BlockSize, i) <= AvailableIn(BlockSize)
    BY <1>1, <2>2, UpToType, UpToMonotone
  <2>4. AvailableIn(BlockSize) \in Nat /\ AvailableIn(BlockSize) <= max_blocks
        /\ max_blocks \in Nat
    BY <1>1, <2>1, BlocksOfTotal
  <2>5. QED
    BY <2>1, <2>2, <2>3, <2>4
<1>2. TypeOK /\ BlocksInv /\ [Next]_vars
        => [FreeBlock /\ AvailableIn(1) < UIntMod => used_blocks > 0]_vars
  BY <1>1
<1>3. QED
  BY <1>2, TypeCorrect, BlocksInductive, PTL DEF Spec, UsedNeverUnderflows

=============================================================================
