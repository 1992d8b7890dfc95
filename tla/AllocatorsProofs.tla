--------------------------- MODULE AllocatorsProofs ---------------------------
(***************************************************************************)
(* Proofs about the allocators, for any sizes, arenas, clients and number  *)
(* of calls: the bump allocators by themselves first, then the process     *)
(* allocator with its clients, the heap and the page tables.               *)
(***************************************************************************)
EXTENDS Allocators, NumberTheorems

(* A multiple leaves nothing. *)
LEMMA TimesMod ==
  ASSUME NEW p \in Nat \ {0}, NEW k \in Nat
  PROVE  (p * k) % p = 0
<1>1. p * k \in Nat
  OBVIOUS
<1>2. \A n \in Nat : /\ n \div p \in Nat /\ n % p \in 0 .. p - 1
                    /\ n = p * (n \div p) + (n % p)
  OBVIOUS
<1>q. PICK q \in Nat : q = (p * k) \div p
  BY <1>1, <1>2
<1>3. PICK r \in 0 .. p - 1 : r = (p * k) % p /\ p * k = p * q + r
  BY <1>1, <1>2, <1>q
<1>4. p * k - p * q = p * (k - q)
  OBVIOUS
<1>5. \A d \in Nat : d > 0 => p * d >= p
  <2> SUFFICES ASSUME NEW d \in Nat, d > 0 PROVE p * d >= p
    OBVIOUS
  <2>1. p * d = p * (d - 1) + p /\ d - 1 \in Nat
    OBVIOUS
  <2>2. p * (d - 1) \in Nat
    BY <2>1
  <2>3. QED
    BY <2>1, <2>2
<1>6. ~(k - q > 0)
  <2>1. k - q > 0 => p * (k - q) >= p
    BY <1>5
  <2>2. QED
    BY <1>3, <1>4, <2>1
<1>7. ~(q - k > 0)
  <2>1. q - k > 0 => p * (q - k) >= p
    BY <1>5
  <2>2. p * q - p * k = p * (q - k)
    OBVIOUS
  <2>3. QED
    BY <1>1, <1>3, <2>1, <2>2
<1>8. k = q
  BY <1>6, <1>7
<1>9. QED
  BY <1>3, <1>4, <1>8

(* Rounding down leaves a multiple, and one more is one too. *)
LEMMA RoundMod ==
  ASSUME NEW p \in Nat \ {0}, NEW a \in Nat
  PROVE  /\ a - (a % p) \in Nat /\ a - (a % p) <= a /\ a < a - (a % p) + p
         /\ (a - (a % p)) % p = 0 /\ (a - (a % p) + p) % p = 0
<1>1. PICK q \in Nat : q = a \div p
  OBVIOUS
<1>2. PICK r \in 0 .. p - 1 : r = a % p /\ a = p * q + r
  BY <1>1
<1>3. a - (a % p) = p * q /\ p * q + p = p * (q + 1) /\ p * q \in Nat /\ q + 1 \in Nat
  BY <1>2
<1>4. (p * q) % p = 0 /\ (p * (q + 1)) % p = 0
  BY <1>3, TimesMod
<1>5. (a - (a % p)) % p = 0
  BY <1>3, <1>4
<1>6. (a - (a % p) + p) % p = 0
  BY <1>3, <1>4
<1>7. QED
  BY <1>2, <1>3, <1>5, <1>6

(* Rounding up to a page gives no less, and from a page on a multiple. *)
LEMMA PageUpIs ==
  ASSUME NEW a \in Nat
  PROVE  /\ PageUp(a) \in Nat /\ PageUp(a) >= a
         /\ a >= PageBytes => PageUp(a) % PageBytes = 0
<1>1. PageBytes \in Nat \ {0}
  BY BumpAssumption
<1>2. CASE a >= PageBytes
  <2>1. PageUp(a) = a - (a % PageBytes) + PageBytes
    BY <1>2 DEF PageUp
  <2>2. /\ a - (a % PageBytes) \in Nat /\ a < a - (a % PageBytes) + PageBytes
        /\ (a - (a % PageBytes) + PageBytes) % PageBytes = 0
    BY <1>1, RoundMod
  <2>3. \A n \in Nat : n + PageBytes \in Nat
    BY <1>1
  <2>4. PageUp(a) \in Nat
    BY <2>1, <2>2, <2>3
  <2>5. PageUp(a) >= a
    BY <1>1, <2>1, <2>2, <2>4
  <2>6. PageUp(a) % PageBytes = 0
    BY <2>1, <2>2
  <2>7. QED
    BY <2>4, <2>5, <2>6
<1>3. CASE ~(a >= PageBytes)
  BY <1>3 DEF PageUp
<1>4. QED
  BY <1>2, <1>3

(* Rounding up to words gives a multiple, and no less. *)
LEMMA AlignUpIs ==
  ASSUME NEW a \in Nat
  PROVE  AlignUp(a, 4) \in Nat /\ AlignUp(a, 4) >= a /\ AlignUp(a, 4) % 4 = 0
<1>1. CASE a % 4 = 0
  BY <1>1 DEF AlignUp
<1>2. CASE a % 4 # 0
  <2>1. AlignUp(a, 4) = a - (a % 4) + 4
    BY <1>2 DEF AlignUp
  <2>2. (a - (a % 4) + 4) \in Nat /\ (a - (a % 4) + 4) >= a
    OBVIOUS
  <2>3. (a - (a % 4) + 4) % 4 = 0
    OBVIOUS
  <2>4. QED
    BY <2>1, <2>2, <2>3
<1>3. QED
  BY <1>1, <1>2

-----------------------------------------------------------------------------
(* Each arena: its blocks lie between its start and its counter.             *)
ArenaInv ==
  /\ addr >= AddrStart
  /\ \A b \in given :
       /\ b.from <= b.to
       /\ b.by = "moca_alloc" => b.to <= bump_allocator_base
       /\ b.by \in {"kmalloc", "kmalloc_ap"} => AddrStart <= b.from /\ b.to <= addr

BumpInv == BumpTypeOK /\ ArenaInv /\ BumpBlocksApart

(* What every allocator does: a block at or behind its counter, which moves  *)
(* to the block's end.                                                       *)
LEMMA AddrBlock ==
  ASSUME BumpInv, NEW by \in {"kmalloc", "kmalloc_ap"}, NEW from \in Nat, NEW size \in Nat,
         from >= addr, by = "kmalloc_ap" => from % PageBytes = 0,
         given' = given \cup {Block(by, from, size)}, addr' = from + size,
         UNCHANGED <<end, bump_allocator_base>>
  PROVE  BumpInv'
<1> USE DEF BumpInv
<1> DEFINE b == Block(by, from, size)
<1>1. b.by = by /\ b.from = from /\ b.to = from + size
  BY DEF Block
<1>2. b \in [by : {"kmalloc", "kmalloc_p", "kmalloc_ap", "moca_alloc"}, from : Nat, to : Nat]
  BY DEF Block
<1>3. BumpTypeOK'
  BY <1>2 DEF BumpTypeOK
<1>t. /\ addr \in Nat /\ AddrStart \in Nat /\ bump_allocator_base \in Nat
      /\ \A x \in given : x.from \in Nat /\ x.to \in Nat
         /\ x.by \in {"kmalloc", "kmalloc_p", "kmalloc_ap", "moca_alloc"}
  BY BumpAssumption DEF BumpTypeOK
<1> HIDE DEF b
<1>g. given' = given \cup {b} /\ UNCHANGED bump_allocator_base
  BY DEF b
<1>4. ArenaInv'
  BY <1>1, <1>t, <1>g DEF ArenaInv
<1>5. ASSUME bump_allocator_base <= AddrStart, NEW x \in given, x.by # "kmalloc_p"
      PROVE  Apart(x, b) /\ Apart(b, x)
  BY <1>1, <1>t, <1>5 DEF ArenaInv, Apart
<1>6. BumpBlocksApart'
  <2>1. ASSUME bump_allocator_base <= AddrStart, NEW x \in given', NEW y \in given',
               x.by # "kmalloc_p", y.by # "kmalloc_p", x # y
        PROVE  Apart(x, y)
    <3>1. CASE x \in given /\ y \in given
      BY <2>1, <3>1 DEF BumpBlocksApart
    <3>2. CASE x = b \/ y = b
      BY <1>5, <1>g, <2>1, <3>2
    <3>3. QED
      BY <1>g, <3>1, <3>2
  <2>2. ASSUME NEW x \in given'
        PROVE  /\ x.by = "kmalloc_ap" => x.from % PageBytes = 0
               /\ x.by = "moca_alloc" => x.from % 4 = 0
    <3>1. CASE x \in given
      BY <3>1 DEF BumpBlocksApart
    <3>2. CASE x = b
      BY <1>1, <3>2
    <3>3. QED
      BY <1>g, <3>1, <3>2
  <2>3. QED
    BY <1>g, <2>1, <2>2 DEF BumpBlocksApart, Apart
<1>7. QED
  BY <1>3, <1>4, <1>6

(* A block behind the pointer of its arena is apart from all that arena has given. *)
LEMMA ArenaBlock ==
  ASSUME BumpInv, NEW from \in Nat, NEW size \in Nat,
         from >= bump_allocator_base, from % 4 = 0,
         given' = given \cup {Block("moca_alloc", from, size)},
         bump_allocator_base' = from + size,
         UNCHANGED <<addr, end>>
  PROVE  BumpInv'
<1> USE DEF BumpInv
<1> DEFINE b == Block("moca_alloc", from, size)
<1>1. b.by = "moca_alloc" /\ b.from = from /\ b.to = from + size
  BY DEF Block
<1>2. b \in [by : {"kmalloc", "kmalloc_p", "kmalloc_ap", "moca_alloc"}, from : Nat, to : Nat]
  BY DEF Block
<1>3. BumpTypeOK'
  BY <1>2 DEF BumpTypeOK
<1>t. /\ addr \in Nat /\ AddrStart \in Nat /\ bump_allocator_base \in Nat
      /\ \A x \in given : x.from \in Nat /\ x.to \in Nat
         /\ x.by \in {"kmalloc", "kmalloc_p", "kmalloc_ap", "moca_alloc"}
  BY BumpAssumption DEF BumpTypeOK
<1> HIDE DEF b
<1>g. given' = given \cup {b} /\ UNCHANGED addr
  BY DEF b
<1>4. ArenaInv'
  BY <1>1, <1>t, <1>g DEF ArenaInv
<1>5. ASSUME bump_allocator_base' <= AddrStart, NEW x \in given, x.by # "kmalloc_p"
      PROVE  Apart(x, b) /\ Apart(b, x)
  BY <1>1, <1>t, <1>5 DEF ArenaInv, Apart
<1>6. BumpBlocksApart'
  <2>1. ASSUME bump_allocator_base' <= AddrStart, NEW x \in given', NEW y \in given',
               x.by # "kmalloc_p", y.by # "kmalloc_p", x # y
        PROVE  Apart(x, y)
    <3>1. CASE x \in given /\ y \in given
      <4>1. bump_allocator_base <= AddrStart
        BY <1>t, <2>1
      <4>2. QED
        BY <2>1, <3>1, <4>1 DEF BumpBlocksApart
    <3>2. CASE x = b \/ y = b
      BY <1>5, <1>g, <2>1, <3>2
    <3>3. QED
      BY <1>g, <3>1, <3>2
  <2>2. ASSUME NEW x \in given'
        PROVE  /\ x.by = "kmalloc_ap" => x.from % PageBytes = 0
               /\ x.by = "moca_alloc" => x.from % 4 = 0
    <3>1. CASE x \in given
      BY <3>1 DEF BumpBlocksApart
    <3>2. CASE x = b
      BY <1>1, <3>2
    <3>3. QED
      BY <1>g, <3>1, <3>2
  <2>3. QED
    BY <2>1, <2>2 DEF BumpBlocksApart, Apart
<1>7. QED
  BY <1>3, <1>4, <1>6

(* The block of kmalloc_p moves nothing but `end', and addr up to a page.     *)
LEMMA LostBlock ==
  ASSUME BumpInv, NEW from \in Nat, NEW size \in Nat, from >= addr,
         given' = given \cup {Block("kmalloc_p", from, size)},
         addr' = from, end' \in Nat, UNCHANGED bump_allocator_base
  PROVE  BumpInv'
<1> USE DEF BumpInv
<1> DEFINE b == Block("kmalloc_p", from, size)
<1>1. b.by = "kmalloc_p" /\ b.from = from /\ b.to = from + size
  BY DEF Block
<1>2. b \in [by : {"kmalloc", "kmalloc_p", "kmalloc_ap", "moca_alloc"}, from : Nat, to : Nat]
  BY DEF Block
<1>3. BumpTypeOK'
  BY <1>2 DEF BumpTypeOK
<1>t. /\ addr \in Nat /\ AddrStart \in Nat /\ bump_allocator_base \in Nat
      /\ \A x \in given : x.from \in Nat /\ x.to \in Nat
  BY BumpAssumption DEF BumpTypeOK
<1> HIDE DEF b
<1>g. given' = given \cup {b} /\ UNCHANGED bump_allocator_base
  BY DEF b
<1>4. ArenaInv'
  BY <1>1, <1>t, <1>g DEF ArenaInv
<1>5. BumpBlocksApart'
  BY <1>1, <1>g DEF BumpBlocksApart, Apart
<1>6. QED
  BY <1>3, <1>4, <1>5

(* Every step keeps the blocks below the pointer of their arena. *)
LEMMA BumpInductive ==
  /\ BumpInit => BumpInv
  /\ BumpInv /\ [BumpNext]_bumpVars => BumpInv'
<1>1. BumpInit => BumpInv
  BY BumpAssumption DEF BumpInit, BumpInv, BumpTypeOK, ArenaInv, BumpBlocksApart
<1>2. ASSUME BumpInv, NEW size \in Sizes, kmalloc(size) PROVE BumpInv'
  <2>1. size \in Nat /\ addr \in Nat
    BY <1>2, BumpAssumption DEF BumpInv, BumpTypeOK
  <2>2. QED
    BY <1>2, <2>1, AddrBlock DEF kmalloc
<1>3. ASSUME BumpInv, NEW size \in Sizes, NEW align \in {0, 1}, kmalloc_p(size, align)
      PROVE  BumpInv'
  <2>1. size \in Nat /\ addr \in Nat /\ end \in Nat
    BY <1>3, BumpAssumption DEF BumpInv, BumpTypeOK
  <2>2. PICK tmp \in Nat : tmp = (IF align = 1 THEN PageUp(addr) ELSE addr) /\ tmp >= addr
    BY <2>1, PageUpIs
  <2>3. /\ given' = given \cup {Block("kmalloc_p", tmp, size)} /\ addr' = tmp
        /\ end' = end + size * size /\ UNCHANGED bump_allocator_base
    BY <1>3, <2>2 DEF kmalloc_p
  <2>4. end' \in Nat
    BY <2>1, <2>3
  <2>5. QED
    BY <1>3, <2>1, <2>2, <2>3, <2>4, LostBlock
<1>4. ASSUME BumpInv, NEW size \in Sizes, NEW align \in {0, 1}, kmalloc_ap(size, align)
      PROVE  BumpInv'
  <2>1. size \in Nat /\ addr \in Nat
    BY <1>4, BumpAssumption DEF BumpInv, BumpTypeOK
  <2>2. addr >= PageBytes
    BY <1>4, <2>1, BumpAssumption DEF BumpInv, ArenaInv
  <2>3. CASE align = 1
    <3>1. /\ PageUp(addr) \in Nat /\ PageUp(addr) >= addr
          /\ PageUp(addr) % PageBytes = 0
      BY <2>1, <2>2, PageUpIs
    <3>2. /\ given' = given \cup {Block("kmalloc_ap", PageUp(addr), size)}
          /\ addr' = PageUp(addr) + size /\ UNCHANGED <<end, bump_allocator_base>>
      BY <1>4, <2>3 DEF kmalloc_ap
    <3>3. QED
      BY <1>4, <2>1, <3>1, <3>2, AddrBlock
  <2>4. CASE align # 1
    <3>1. /\ given' = given \cup {Block("kmalloc", addr, size)}
          /\ addr' = addr + size /\ UNCHANGED <<end, bump_allocator_base>>
      BY <1>4, <2>4 DEF kmalloc_ap
    <3>2. QED
      BY <1>4, <2>1, <3>1, AddrBlock
  <2>5. QED
    BY <2>3, <2>4
<1>5. ASSUME BumpInv, NEW size \in Sizes, moca_alloc(size) PROVE BumpInv'
  <2>1. size \in Nat /\ bump_allocator_base \in Nat
    BY <1>5, BumpAssumption DEF BumpInv, BumpTypeOK
  <2>2. PICK ret \in Nat : /\ ret = AlignUp(bump_allocator_base, 4)
                           /\ ret >= bump_allocator_base /\ ret % 4 = 0
    BY <2>1, AlignUpIs
  <2>3. QED
    BY <1>5, <2>1, <2>2, ArenaBlock DEF moca_alloc
<1>6. BumpInv /\ UNCHANGED bumpVars => BumpInv'
  BY DEF bumpVars, BumpInv, BumpTypeOK, ArenaInv, BumpBlocksApart, Apart
<1>7. QED
  BY <1>1, <1>2, <1>3, <1>4, <1>5, <1>6 DEF BumpNext

(* The types, for any sizes and arenas (xxtra.c:34-86). *)
THEOREM BumpTypeCorrect == BumpSpec => []BumpTypeOK
<1>1. BumpInv => BumpTypeOK
  BY DEF BumpInv
<1>2. QED
  BY BumpInductive, <1>1, PTL DEF BumpSpec

(* No byte is handed out twice, and blocks are aligned as asked, after any     *)
(* number of calls (xxtra.c:34-86).                                            *)
THEOREM BumpsApart == BumpSpec => []BumpBlocksApart
<1>1. BumpInv => BumpBlocksApart
  BY DEF BumpInv
<1>2. QED
  BY BumpInductive, <1>1, PTL DEF BumpSpec

-----------------------------------------------------------------------------
(* Numbers are taken modulo 2^32. *)
LEMMA ModUInt ==
  ASSUME NEW n \in Int
  PROVE  n % UInt \in 0 .. UInt - 1 /\ n % UInt \in Nat
<1>1. UInt \in Nat \ {0}
  BY ProcAllocAssumption
<1>2. n % UInt \in 0 .. UInt - 1
  BY <1>1, DivModInt
<1>3. QED
  BY <1>1, <1>2

(* What Found offers is a refusal or a block of the map. *)
LEMMA FoundType ==
  ASSUME ProcType, NEW blocks, NEW first \in Found(blocks)
  PROVE  first \in Nat \/ first = -1
<1>1. Clear \subseteq Nat
  BY DEF Clear, Bits, ProcType
<1>2. QED
  BY <1>1 DEF Found, find_blocks

(* What m_alloc returns is a process. *)
LEMMA ReturnedType ==
  ASSUME ProcType, NEW blocks \in Nat, NEW first \in Found(blocks), m_alloc(blocks, first)
  PROVE  Returned(blocks, first) \in Process
<1> USE ProcAllocAssumption
<1>1. CASE first = -1
  BY <1>1 DEF Returned, ProcType
<1>2. CASE first # -1
  <2>1. first \in Nat /\ curr_pID \in 0 .. Slots - 1
    BY <1>2, FoundType DEF m_alloc
  <2>2. curr_pID > 0 => all_processes[curr_pID - 1].allocation_size \in Nat
    <3>1. curr_pID > 0 => curr_pID - 1 \in 0 .. Slots - 1
      BY <2>1
    <3>2. QED
      BY <3>1 DEF ProcType, Process
  <2>3. first * BLOCK_SIZE \in Nat
    BY <2>1
  <2> DEFINE a == first * BLOCK_SIZE
                  + IF curr_pID > 0 THEN all_processes[curr_pID - 1].allocation_size ELSE 0
  <2>4. a \in Nat
    BY <2>2, <2>3
  <2>5. Granted(blocks, first) \in Process
    <3>1. curr_pID \in Nat
      BY <2>1
    <3>2. QED
      BY <2>4, <3>1 DEF Granted, Process
  <2>6. QED
    BY <1>2, <2>5 DEF Returned
<1>3. QED
  BY <1>1, <1>2

(* m_alloc and m_free keep the types. *)
LEMMA AllocType ==
  ASSUME ProcType, NEW blocks \in Nat, NEW first \in Found(blocks), m_alloc(blocks, first)
  PROVE  ProcType'
<1> USE ProcAllocAssumption
<1>1. CASE first = -1
  BY <1>1 DEF m_alloc, procVars, ProcType, Process
<1>2. CASE first # -1
  <2>1. curr_pID \in 0 .. Slots - 1 /\ Grant(blocks, first)
    BY <1>2 DEF m_alloc
  <2>2. Granted(blocks, first) \in Process
    BY <1>2, ReturnedType DEF Returned
  <2>3. all_processes' \in [0 .. Slots - 1 -> Process]
    BY <2>1, <2>2 DEF Grant, ProcType
  <2>4. used_blocks' \in Nat /\ total_allocated' \in Nat
    <3>1. used_blocks + blocks \in Int /\ total_allocated + blocks \in Int
      BY DEF ProcType
    <3>2. QED
      BY <2>1, <3>1, ModUInt DEF Grant
  <2>5. memory_map' \subseteq Nat /\ max_blocks' \in Nat
    <3>1. Bits \subseteq Nat /\ memory_map \subseteq Nat /\ max_blocks \in Nat
      BY DEF Bits, ProcType
    <3>2. QED
      BY <2>1, <3>1 DEF Grant
  <2>6. curr_pID' \in 0 .. UInt - 1
    BY <2>1 DEF Grant
  <2>7. QED
    BY <2>3, <2>4, <2>5, <2>6 DEF ProcType, Process
<1>3. QED
  BY <1>1, <1>2

(* m_free keeps them, whatever process it is given. *)
LEMMA FreeType ==
  ASSUME ProcType, NEW process \in Process, m_free(process)
  PROVE  ProcType'
<1> USE ProcAllocAssumption
<1>1. Freed \in Process
  BY DEF Freed, NoProcess, Process
<1>2. all_processes' \in [0 .. Slots - 1 -> Process]
  BY <1>1 DEF m_free, ProcType
<1>3. process.allocation_size \in Nat
  BY DEF Process
<1>4. used_blocks' \in Nat /\ total_allocated' \in Nat /\ curr_pID' \in 0 .. UInt - 1
  <2>1. /\ used_blocks - process.allocation_size \in Int
        /\ total_allocated - process.allocation_size \in Int
        /\ curr_pID - 1 \in Int
    BY <1>3 DEF ProcType
  <2>2. QED
    BY <2>1, ModUInt DEF m_free
<1>5. memory_map' \subseteq Nat /\ max_blocks' \in Nat
  BY DEF m_free, ProcType
<1>6. QED
  BY <1>2, <1>4, <1>5 DEF ProcType, Process

(* Without leaves others' processes. *)
LEMMA WithoutIs ==
  ASSUME NEW who, live \in Seq(Owned)
  PROVE  \/ Of(who) = {} /\ Without(who) = live
         \/ \E k \in DOMAIN live :
              live[k].by = who /\ Of(who) # {} /\ Without(who) = RemoveAt(live, k)
<1>1. CASE Of(who) = {}
  BY <1>1 DEF Without
<1>2. CASE Of(who) # {}
  <2>1. (CHOOSE k \in Of(who) : TRUE) \in Of(who)
    BY <1>2
  <2>2. QED
    BY <1>2, <2>1 DEF Without, Of
<1>3. QED
  BY <1>1, <1>2

(* A sequence without its element k. *)
LEMMA RemoveAtIs ==
  ASSUME NEW S, NEW s \in Seq(S), NEW k \in DOMAIN s
  PROVE  /\ RemoveAt(s, k) \in Seq(S)
         /\ Len(RemoveAt(s, k)) = Len(s) - 1
         /\ DOMAIN RemoveAt(s, k) = 1 .. Len(s) - 1
         /\ \A j \in 1 .. Len(s) - 1 : RemoveAt(s, k)[j] = IF j < k THEN s[j] ELSE s[j + 1]
<1> DEFINE a == SubSeq(s, 1, k - 1)
           b == SubSeq(s, k + 1, Len(s))
<1>1. k \in 1 .. Len(s) /\ Len(s) \in Nat
  OBVIOUS
<1>2. a \in Seq(S) /\ Len(a) = k - 1 /\ \A j \in 1 .. k - 1 : a[j] = s[j]
  BY <1>1
<1>3. b \in Seq(S) /\ Len(b) = Len(s) - k /\ \A j \in 1 .. Len(s) - k : b[j] = s[k + j]
  BY <1>1
<1> HIDE DEF a, b
<1>4. a \o b \in Seq(S) /\ Len(a \o b) = Len(s) - 1 /\ DOMAIN (a \o b) = 1 .. Len(s) - 1
  BY <1>1, <1>2, <1>3
<1>5. ASSUME NEW j \in 1 .. Len(s) - 1
      PROVE  (a \o b)[j] = IF j < k THEN s[j] ELSE s[j + 1]
  <2>1. CASE j < k
    BY <1>1, <1>2, <1>3, <2>1
  <2>2. CASE ~(j < k)
    <3>1. (a \o b)[j] = b[j - (k - 1)]
      BY <1>1, <1>2, <1>3, <2>2
    <3>2. j - (k - 1) \in 1 .. Len(s) - k /\ k + (j - (k - 1)) = j + 1
      BY <1>1, <2>2
    <3>3. QED
      BY <1>3, <2>2, <3>1, <3>2
  <2>3. QED
    BY <2>1, <2>2
<1>6. RemoveAt(s, k) = a \o b
  BY DEF RemoveAt, a, b
<1>7. QED
  BY <1>4, <1>5, <1>6

(* Holders with one process more are holders. *)
LEMMA LiveWithType ==
  ASSUME ProcType, NEW who \in Clients \cup {"kernel", "page"}, NEW blocks \in Nat,
         NEW first, NEW others \in Seq(Owned)
  PROVE  LiveWith(who, blocks, first, others) \in Seq(Owned)
<1>1. Entry(who, blocks) \in Owned
  BY DEF Entry, Owned, ProcType
<1>2. QED
  BY <1>1 DEF LiveWith

(* And with one less. *)
LEMMA WithoutType ==
  ASSUME NEW who, live \in Seq(Owned)
  PROVE  Without(who) \in Seq(Owned)
BY WithoutIs, RemoveAtIs

(* alloc_page forgets whose its process is, and nothing else. *)
LEMMA ForgottenType ==
  ASSUME live \in Seq(Owned)
  PROVE  /\ Forgotten \in Seq(Owned) /\ Len(Forgotten) = Len(live)
         /\ DOMAIN Forgotten = DOMAIN live
         /\ \A k \in DOMAIN live :
              /\ Forgotten[k].size = live[k].size /\ Forgotten[k].pID = live[k].pID
              /\ Forgotten[k].by = IF live[k].by = "page" THEN "kernel" ELSE live[k].by
<1>1. ASSUME NEW k \in DOMAIN live
      PROVE  /\ Forgotten[k] \in Owned
             /\ Forgotten[k].size = live[k].size /\ Forgotten[k].pID = live[k].pID
             /\ Forgotten[k].by = IF live[k].by = "page" THEN "kernel" ELSE live[k].by
  <2>1. live[k] \in Owned
    OBVIOUS
  <2>2. Forgotten[k] = IF live[k].by = "page" THEN [live[k] EXCEPT !.by = "kernel"] ELSE live[k]
    BY DEF Forgotten
  <2>3. QED
    BY <2>1, <2>2 DEF Owned
<1>2. DOMAIN Forgotten = DOMAIN live
  BY DEF Forgotten
<1>3. Forgotten \in [1 .. Len(live) -> Owned]
  BY <1>1, <1>2 DEF Forgotten
<1>4. QED
  BY <1>1, <1>2, <1>3


(* Who touches nothing of a part keeps its types. *)
LEMMA ProcSame == ASSUME ProcType, UNCHANGED procVars PROVE ProcType'
BY DEF procVars, ProcType

(* So for the heap. *)
LEMMA HeapSame == ASSUME HeapType, UNCHANGED <<low, heapVars>> PROVE HeapType'
BY DEF heapVars, HeapType

(* So for the holders. *)
LEMMA HolderSame ==
  ASSUME HolderType, UNCHANGED <<allocations, handle, live>> PROVE HolderType'
BY DEF HolderType

(* Bring-up, and what it leaves alone. *)
LEMMA BringUpType ==
  ASSUME TypeOK, BringUp PROVE TypeOK'
<1> USE ProcAllocAssumption, AllocatorsAssumption
<1>1. MemSize \in Nat /\ UsableBase \in Nat /\ UsableSize \in Nat
      /\ KernelBase \in Nat /\ KernelSize \in Nat
  OBVIOUS
<1>2. \A n \in Nat : n \div BLOCK_SIZE \in Nat
  BY DivMod
<1>a. /\ ProcType /\ HeapType /\ HolderType
      /\ Bits \subseteq Nat /\ memory_map \subseteq Nat /\ used_blocks \in Nat
  BY DEF TypeOK, ProcType, Bits
<1>b. /\ MemSize \div BLOCK_SIZE \in Nat /\ UsableSize \div BLOCK_SIZE \in Nat
      /\ KernelSize \div BLOCK_SIZE \in Nat
  BY <1>1, <1>2
<1>3. ProcType'
  <2>1. CASE init_mem(MemSize)
    <3>1. 0 .. max_blocks' - 1 \subseteq Nat
      OBVIOUS
    <3>2. QED
      BY <1>a, <1>b, <2>1, <3>1 DEF init_mem, ProcType
  <2>2. CASE init_region(UsableBase, UsableSize)
    <3>1. (used_blocks - UsableSize \div BLOCK_SIZE) % UInt \in Nat
      BY <1>a, <1>b, ModUInt
    <3>2. memory_map' \subseteq Nat
      <4>1. memory_map' \subseteq memory_map \cup {0}
        BY <2>2 DEF init_region
      <4>2. QED
        BY <1>a, <4>1
    <3>3. QED
      BY <1>a, <2>2, <3>1, <3>2 DEF init_region, ProcType
  <2>3. CASE deinit_region(KernelBase, KernelSize)
    <3>1. (used_blocks + KernelSize \div BLOCK_SIZE) % UInt \in Nat
      BY <1>a, <1>b, ModUInt
    <3>2. memory_map' \subseteq Nat
      BY <1>a, <2>3 DEF deinit_region
    <3>3. QED
      BY <1>a, <2>3, <3>1, <3>2 DEF deinit_region, ProcType
  <2>4. QED
    BY <2>1, <2>2, <2>3 DEF BringUp
<1>4. HeapType' /\ HolderType'
  BY <1>a, HeapSame, HolderSame DEF BringUp, Kernel, vmVars
<1>5. PhaseType'
  BY DEF BringUp, Kernel, PhaseType
<1>6. QED
  BY <1>3, <1>4, <1>5 DEF TypeOK

(* The words at 0 and 4 stay numbers. *)
LEMMA EnterType ==
  ASSUME NEW words \in [{0, 1} -> Nat], NEW virt, EnterPage(words, virt)
  PROVE  low' \in [{0, 1} -> Nat]
<1>1. \A n \in Nat : n % PAGE_SIZE \in Nat
  BY DivMod, VirtualMemAssumption
<1>2. \A n \in Nat : Entered(n) \in Nat
  BY <1>1 DEF Entered
<1>3. QED
  BY <1>2 DEF EnterPage

(* The heap's calls. *)
LEMMA HeapCallType ==
  ASSUME TypeOK, HeapCall PROVE HeapType'
<1> USE ProcAllocAssumption, HeapAssumption, AllocatorsAssumption
<1>0. HeapType /\ UInt \in Nat \ {0}
  BY DEF TypeOK
<1>1. ASSUME NEW bytes \in HeapAsks, allocate(bytes) PROVE HeapType'
  <2>1. bytes \in Nat /\ bytes * padding \in Nat
    OBVIOUS
  <2>2. low[0] + HEAP_ADDR \in Int /\ HEAP_ADDR + bytes * padding \in Int
    BY <1>0, <2>1 DEF HeapType
  <2>3. /\ (low[0] + HEAP_ADDR) % UInt \in Nat
        /\ (HEAP_ADDR + bytes * padding) % UInt \in 0 .. UInt - 1
    BY <2>2, ModUInt
  <2>4. low' \in [{0, 1} -> Nat]
    BY <1>0, <1>1, <2>3 DEF allocate, HeapType
  <2>5. heapBlocks' \in Seq(HeapBlock)
    BY <1>0, <1>1, <2>1, <2>3 DEF allocate, HeapType, HeapBlock
  <2>6. HEAP_ADDR' \in 0 .. UInt - 1 /\ heap_index' \in Nat
    BY <1>0, <1>1, <2>3 DEF allocate, HeapType
  <2>7. QED
    BY <1>0, <1>1, <2>4, <2>5, <2>6 DEF allocate, HeapType
<1>2. ASSUME NEW k \in DOMAIN heapBlocks, free(k) PROVE HeapType'
  <2>1. heapBlocks[k] \in HeapBlock
    BY <1>0 DEF HeapType
  <2>2. heapBlocks[k].bytes * padding \in Nat
    BY <2>1 DEF HeapBlock
  <2>3. (HEAP_ADDR - heapBlocks[k].bytes * padding) % UInt \in 0 .. UInt - 1
    <3>1. HEAP_ADDR - heapBlocks[k].bytes * padding \in Int
      BY <1>0, <2>2 DEF HeapType
    <3>2. QED
      BY <3>1, ModUInt
  <2>4. heapBlocks' \in Seq(HeapBlock)
    <3>1. [heapBlocks[k] EXCEPT !.freed = TRUE] \in HeapBlock
      BY <2>1 DEF HeapBlock
    <3>2. heapBlocks \in Seq(HeapBlock)
      BY <1>0 DEF HeapType
    <3>3. heapBlocks' = [heapBlocks EXCEPT ![k] = [heapBlocks[k] EXCEPT !.freed = TRUE]]
      BY <1>2 DEF free
    <3>4. \A b \in HeapBlock : [heapBlocks EXCEPT ![k] = b] \in Seq(HeapBlock)
      BY <3>2
    <3>5. QED
      BY <3>1, <3>3, <3>4
  <2>5. low' \in [{0, 1} -> Nat]
    <3>1. low \in [{0, 1} -> Nat] /\ [low EXCEPT ![1] = 0] \in [{0, 1} -> Nat]
      BY <1>0 DEF HeapType
    <3>2. low' = low \/ low' = [low EXCEPT ![1] = 0]
      BY <1>2 DEF free
    <3>3. QED
      BY <3>1, <3>2
  <2>7. HEAP_ADDR' \in 0 .. UInt - 1
    BY <1>0, <1>2, <2>3 DEF free, HeapType
  <2>8. QED
    BY <1>0, <1>2, <2>4, <2>5, <2>7 DEF free, HeapType
<1>3. QED
  BY <1>1, <1>2 DEF HeapCall

(* The allocators keep their types, whoever calls them and how often           *)
(* (xxtra.c:119-232, heap.h:63-109, virtual_mem.h:64-139).                     *)
THEOREM TypeCorrect == Spec => []TypeOK
<1> USE ProcAllocAssumption, HeapAssumption, AllocatorsAssumption
<1>1. Init => TypeOK
  <2> SUFFICES ASSUME Init PROVE TypeOK
    OBVIOUS
  <2>1. NoProcess \in Process
    BY DEF NoProcess, Process
  <2>2. ProcType
    BY <2>1 DEF Init, ProcInit, ProcType
  <2>3. HeapType
    <3>1. low \in [{0, 1} -> Nat]
      BY DEF Init
    <3>2. QED
      BY <3>1 DEF Init, HeapInit, HeapType
  <2>4. HolderType
    BY <2>1 DEF Init, VmInit, HolderType
  <2>5. PhaseType
    BY DEF Init, PhaseType
  <2>6. QED
    BY <2>2, <2>3, <2>4, <2>5 DEF TypeOK
<1>2. TypeOK /\ [Next]_vars => TypeOK'
  <2> SUFFICES ASSUME TypeOK, [Next]_vars PROVE TypeOK'
    OBVIOUS
  <2>0. ProcType /\ HeapType /\ HolderType /\ PhaseType
    BY DEF TypeOK
  <2>1. CASE Bumps
    <3>1. UNCHANGED <<low, heapVars>> /\ UNCHANGED <<allocations, handle, live>>
      BY <2>1 DEF Bumps, Kernel, vmVars
    <3>2. ProcType'
      BY <2>0, <2>1, ProcSame DEF Bumps
    <3>3. PhaseType'
      BY <2>0, <2>1 DEF Bumps, Kernel, PhaseType
    <3>4. QED
      BY <2>0, <3>1, <3>2, <3>3, HeapSame, HolderSame DEF TypeOK
  <2>2. CASE BringUp
    BY <2>2, BringUpType
  <2>3. CASE Overrun
    <3>1. UNCHANGED <<low, heapVars>> /\ UNCHANGED <<allocations, handle, live>>
      BY <2>3 DEF Overrun, Kernel, vmVars
    <3>2. ProcType'
      BY <2>0, <2>3, ProcSame DEF Overrun
    <3>3. PhaseType'
      BY <2>0, <2>3 DEF Overrun, Call, PhaseType
    <3>4. QED
      BY <2>0, <3>1, <3>2, <3>3, HeapSame, HolderSame DEF TypeOK
  <2>4. ASSUME NEW c \in Clients, Free(c) PROVE TypeOK'
    <3>1. c \in DOMAIN handle /\ handle[c] \in Process /\ m_free(handle[c])
      BY <2>0, <2>4 DEF Free, HolderType
    <3>2. ProcType'
      BY <2>0, <3>1, FreeType
    <3>3. Freed \in Process
      BY DEF Freed, NoProcess, Process
    <3>4. HolderType'
      <4>1. live' \in Seq(Owned)
        BY <2>0, <2>4, WithoutType DEF Free, HolderType
      <4>2. DOMAIN handle' \subseteq Clients /\ \A d \in DOMAIN handle' : handle'[d] \in Process
        BY <2>0, <2>4, <3>3 DEF Free, HolderType
      <4>3. QED
        BY <2>0, <2>4, <4>1, <4>2 DEF Free, vmVars, HolderType
    <3>5. HeapType' /\ PhaseType'
      BY <2>0, <2>4 DEF Free, Call, heapVars, HeapType, PhaseType
    <3>6. QED
      BY <3>2, <3>4, <3>5 DEF TypeOK
  <2>5. ASSUME NEW c \in Clients, Assign(c) PROVE TypeOK'
    <3>1. c \in DOMAIN handle /\ handle[c] \in Process /\ assign_value(handle[c])
      BY <2>0, <2>5 DEF Assign, HolderType
    <3>2. Assigned(handle[c]) \in Process
      BY <3>1 DEF Assigned, Process
    <3>3. ProcType'
      BY <2>0, <3>1, <3>2 DEF assign_value, ProcType
    <3>4. HolderType'
      BY <2>0, <2>5, <3>2 DEF Assign, vmVars, HolderType
    <3>5. HeapType' /\ PhaseType'
      BY <2>0, <2>5 DEF Assign, Call, heapVars, HeapType, PhaseType
    <3>6. QED
      BY <3>3, <3>4, <3>5 DEF TypeOK
  <2>6. ASSUME NEW c \in Clients, NEW blocks \in Asks, Alloc(c, blocks) PROVE TypeOK'
    <3>1. PICK first \in Found(blocks) :
            /\ m_alloc(blocks, first)
            /\ handle' = [h \in DOMAIN handle \cup {c} |->
                            IF h = c THEN Returned(blocks, first) ELSE handle[h]]
            /\ live' = LiveWith(c, blocks, first, live)
      BY <2>6 DEF Alloc
    <3>2. blocks \in Nat
      OBVIOUS
    <3>3. ProcType' /\ Returned(blocks, first) \in Process
      BY <2>0, <3>1, <3>2, AllocType, ReturnedType
    <3>4. live' \in Seq(Owned)
      BY <2>0, <3>1, <3>2, LiveWithType DEF HolderType
    <3>5. HolderType'
      BY <2>0, <2>6, <3>1, <3>3, <3>4 DEF Alloc, vmVars, HolderType
    <3>6. HeapType' /\ PhaseType'
      BY <2>0, <2>6 DEF Alloc, Call, heapVars, HeapType, PhaseType
    <3>7. QED
      BY <3>3, <3>5, <3>6 DEF TypeOK
  <2>7. ASSUME NEW type \in HeapTypes, init_heap_bitmap(type) PROVE TypeOK'
    <3>1. PICK first \in Found(type) :
            /\ m_alloc(type, first)
            /\ HeapBitmapAt(IF first = -1 THEN "wild" ELSE "nulls")
            /\ live' = LiveWith("kernel", type, first, live)
      BY <2>7 DEF init_heap_bitmap
    <3>2. type \in Nat
      OBVIOUS
    <3>3. ProcType'
      BY <2>0, <3>1, <3>2, AllocType
    <3>4. live' \in Seq(Owned)
      BY <2>0, <3>1, <3>2, LiveWithType DEF HolderType
    <3>5. HolderType'
      BY <2>0, <2>7, <3>4 DEF init_heap_bitmap, vmVars, HolderType
    <3>6. HeapType' /\ PhaseType'
      BY <2>0, <2>7, <3>1
      DEF init_heap_bitmap, HeapBitmapAt, Call, HeapType, PhaseType
    <3>7. QED
      BY <3>3, <3>5, <3>6 DEF TypeOK
  <2>8. CASE HeapCall
    <3>1. HeapType'
      BY <2>8, HeapCallType
    <3>2. ProcType' /\ HolderType' /\ PhaseType'
      BY <2>0, <2>8 DEF HeapCall, Call, procVars, vmVars, ProcType, HolderType, PhaseType
    <3>3. QED
      BY <3>1, <3>2 DEF TypeOK
  <2>9. ASSUME NEW e \in Pages, alloc_page(e) PROVE TypeOK'
    <3>1. PICK first \in Found(1) :
            /\ m_alloc(1, first)
            /\ PageFrom(e, Returned(1, first))
            /\ live' = LiveWith("page", 1, first, Forgotten)
      BY <2>9 DEF alloc_page
    <3>2. ProcType' /\ Returned(1, first) \in Process
      BY <2>0, <3>1, AllocType, ReturnedType
    <3>3. live' \in Seq(Owned)
      BY <2>0, <3>1, LiveWithType, ForgottenType DEF HolderType
    <3>4. HolderType'
      BY <2>0, <2>9, <3>1, <3>2, <3>3 DEF alloc_page, PageFrom, HolderType
    <3>5. HeapType' /\ PhaseType'
      BY <2>0, <2>9 DEF alloc_page, Call, heapVars, HeapType, PhaseType
    <3>6. QED
      BY <3>2, <3>4, <3>5 DEF TypeOK
  <2>10. ASSUME NEW e \in Pages, FreePage(e) PROVE TypeOK'
    <3>1. allocations \in Process /\ Freed \in Process
      BY <2>0 DEF HolderType, Freed, NoProcess, Process
    <3>2. ProcType'
      <4>1. CASE HasAddress(e)
        BY <2>0, <2>10, <3>1, <4>1, FreeType DEF FreePage, free_page
      <4>2. CASE ~HasAddress(e)
        BY <2>0, <2>10, <4>2 DEF FreePage, free_page, procVars, ProcType
      <4>3. QED
        BY <4>1, <4>2
    <3>3. allocations' \in Process
      BY <2>10, <3>1 DEF FreePage, free_page
    <3>4. live' \in Seq(Owned)
      BY <2>0, <2>10, WithoutType DEF FreePage, HolderType
    <3>5. HolderType'
      BY <2>0, <2>10, <3>3, <3>4 DEF FreePage, HolderType
    <3>6. HeapType' /\ PhaseType'
      BY <2>0, <2>10 DEF FreePage, Call, heapVars, HeapType, PhaseType
    <3>7. QED
      BY <3>2, <3>5, <3>6 DEF TypeOK
  <2>11. ASSUME NEW virt \in Virts, map_page(virt) PROVE TypeOK'
    <3>1. /\ UNCHANGED <<heapVars, pc, handle>> /\ Call
          /\ \/ MapInTable(virt) /\ UNCHANGED procVars /\ UNCHANGED live
             \/ \E first \in Found(1) :
                  /\ m_alloc(1, first)
                  /\ MapNewTable(virt, Returned(1, first))
                  /\ live' = LiveWith("kernel", 1, first, live)
      BY <2>11 DEF map_page
    <3>2. CASE MapInTable(virt) /\ UNCHANGED procVars /\ UNCHANGED live
      <4>1. low' \in [{0, 1} -> Nat]
        BY <2>0, <3>2, EnterType DEF MapInTable, HeapType
      <4>2. QED
        <5>1. ProcType' /\ HolderType'
          BY <2>0, <3>1, <3>2, ProcSame, HolderSame DEF MapInTable, vmVars
        <5>2. HeapType' /\ PhaseType'
          BY <2>0, <3>1, <4>1 DEF Call, heapVars, HeapType, PhaseType
        <5>3. QED
          BY <5>1, <5>2 DEF TypeOK
    <3>3. ASSUME NEW first \in Found(1), m_alloc(1, first),
                 MapNewTable(virt, Returned(1, first)),
                 live' = LiveWith("kernel", 1, first, live)
          PROVE  TypeOK'
      <4>1. ProcType'
        BY <2>0, <3>3, AllocType
      <4>2. low' \in [{0, 1} -> Nat]
        <5>1. \A table : Blanked(table) \in [{0, 1} -> Nat]
          BY <2>0 DEF Blanked, HeapType
        <5>2. QED
          BY <3>3, <5>1, EnterType DEF MapNewTable
      <4>3. live' \in Seq(Owned)
        BY <2>0, <3>3, LiveWithType DEF HolderType
      <4>4. HolderType'
        BY <2>0, <3>1, <3>3, <4>3 DEF MapNewTable, HolderType
      <4>5. HeapType' /\ PhaseType'
        BY <2>0, <3>1, <4>2 DEF Call, heapVars, HeapType, PhaseType
      <4>6. QED
        BY <4>1, <4>4, <4>5 DEF TypeOK
    <3>4. QED
      BY <3>1, <3>2, <3>3 DEF TypeOK
  <2>12. CASE SetPageDir
    <3>1. ProcType' /\ HeapType' /\ HolderType'
      BY <2>0, <2>12, ProcSame, HeapSame, HolderSame DEF SetPageDir, set_page_dir
    <3>2. PhaseType'
      BY <2>0, <2>12 DEF SetPageDir, Call, PhaseType
    <3>3. QED
      BY <3>1, <3>2 DEF TypeOK
  <2>13. CASE UNCHANGED vars
    <3>1. ProcType' /\ HeapType' /\ HolderType'
      BY <2>0, <2>13, ProcSame, HeapSame, HolderSame DEF vars, vmVars
    <3>2. PhaseType'
      BY <2>0, <2>13 DEF vars, PhaseType
    <3>3. QED
      BY <3>1, <3>2 DEF TypeOK
  <2>14. QED
    BY <2>1, <2>2, <2>3, <2>4, <2>5, <2>6, <2>7, <2>8, <2>9, <2>10, <2>11, <2>12, <2>13
    DEF Next
<1>3. QED
  BY <1>1, <1>2, PTL DEF Spec

-----------------------------------------------------------------------------
(* The bump allocators do in this company what they do alone. *)
LEMMA BumpAlone == Spec => BumpSpec
<1>1. Init => BumpInit
  BY DEF Init
<1>2. [Next]_vars => [BumpNext]_bumpVars
  BY DEF Next, vars, Bumps, BringUp, Overrun, Call, Free, Assign, Alloc, init_heap_bitmap,
         HeapCall, alloc_page, FreePage, map_page, SetPageDir
<1>3. QED
  BY <1>1, <1>2, PTL DEF Spec, BumpSpec

(* So no byte of theirs is handed out twice (xxtra.c:34-86).                  *)
THEOREM BumpBlocksApartCorrect == Spec => []BumpBlocksApart
BY BumpAlone, BumpsApart, PTL

-----------------------------------------------------------------------------
(* The blocks that the holders in s have together. *)
SizesOf(s) == [k \in DOMAIN s |-> s[k].size]
HeldBy(s) == SumTo(SizesOf(s), Len(s))

(* Their sizes are numbers, and so is the sum. *)
LEMMA SizesType ==
  ASSUME NEW s \in Seq(Owned)
  PROVE  /\ Len(s) \in Nat
         /\ \A k \in 1 .. Len(s) : SizesOf(s)[k] \in Nat /\ SizesOf(s)[k] = s[k].size
<1>1. Len(s) \in Nat /\ DOMAIN s = 1 .. Len(s)
  OBVIOUS
<1>2. \A k \in 1 .. Len(s) : s[k] \in Owned
  OBVIOUS
<1>3. \A k \in 1 .. Len(s) : s[k].size \in Nat
  BY <1>2 DEF Owned
<1>4. \A k \in 1 .. Len(s) : SizesOf(s)[k] = s[k].size
  BY <1>1 DEF SizesOf
<1>5. QED
  BY <1>1, <1>3, <1>4

(* The sum is a number. *)
LEMMA HeldType ==
  ASSUME NEW s \in Seq(Owned)
  PROVE  HeldBy(s) \in Nat
BY SizesType, SumToType DEF HeldBy

(* One more process. *)
LEMMA HeldAppend ==
  ASSUME NEW s \in Seq(Owned), NEW e \in Owned
  PROVE  HeldBy(Append(s, e)) = HeldBy(s) + e.size
<1> DEFINE t == Append(s, e)
           n == Len(s)
<1>1. n \in Nat /\ t \in Seq(Owned) /\ Len(t) = n + 1
  OBVIOUS
<1>2. \A k \in 1 .. n : t[k] = s[k]
  OBVIOUS
<1>3. t[n + 1] = e
  OBVIOUS
<1> HIDE DEF t
<1>4. \A k \in 1 .. n : SizesOf(s)[k] \in Nat /\ SizesOf(s)[k] = SizesOf(t)[k]
  BY <1>1, <1>2, SizesType
<1>5. SumTo(SizesOf(s), n) = SumTo(SizesOf(t), n)
  BY <1>1, <1>4, SumToSame
<1>6. \A k \in 1 .. n + 1 : SizesOf(t)[k] \in Nat
  BY <1>1, SizesType
<1>7. SumTo(SizesOf(t), n + 1) = SumTo(SizesOf(t), n) + SizesOf(t)[n + 1]
  BY <1>1, <1>6, SumToNext
<1>8. SizesOf(t)[n + 1] = e.size
  BY <1>1, <1>3, SizesType
<1>9. QED
  BY <1>1, <1>5, <1>7, <1>8 DEF HeldBy, t

(* One process less. *)
LEMMA HeldRemove ==
  ASSUME NEW s \in Seq(Owned), NEW k \in DOMAIN s
  PROVE  /\ HeldBy(RemoveAt(s, k)) = HeldBy(s) - s[k].size
         /\ s[k].size \in Nat
<1> DEFINE t == RemoveAt(s, k)
           n == Len(s)
<1>1. n \in Nat /\ k \in 1 .. n
  OBVIOUS
<1>2. /\ t \in Seq(Owned) /\ Len(t) = n - 1 /\ DOMAIN t = 1 .. n - 1
      /\ \A j \in 1 .. n - 1 : t[j] = IF j < k THEN s[j] ELSE s[j + 1]
  BY RemoveAtIs
<1> HIDE DEF t
<1>3. \A j \in 1 .. n : SizesOf(s)[j] \in Nat /\ SizesOf(s)[j] = s[j].size
  BY SizesType
<1>4. ASSUME NEW j \in 1 .. n - 1
      PROVE  SizesOf(t)[j] = IF j < k THEN SizesOf(s)[j] ELSE SizesOf(s)[j + 1]
  <2>1. SizesOf(t)[j] = t[j].size
    BY <1>2, SizesType
  <2>2. j \in 1 .. n /\ j + 1 \in 1 .. n
    BY <1>1
  <2>3. QED
    BY <1>2, <1>3, <2>1, <2>2
<1>5. SumTo(SizesOf(t), n - 1) + SizesOf(s)[k] = SumTo(SizesOf(s), n)
  BY <1>1, <1>3, <1>4, SumToWithout
<1>6. HeldBy(t) + s[k].size = HeldBy(s)
  BY <1>1, <1>2, <1>3, <1>5 DEF HeldBy
<1>7. HeldBy(t) \in Nat /\ HeldBy(s) \in Nat /\ s[k].size \in Nat
  BY <1>1, <1>2, <1>3, HeldType
<1>8. QED
  BY <1>6, <1>7 DEF t

(* A process that is forgotten is still held. *)
LEMMA HeldForgotten ==
  ASSUME live \in Seq(Owned) PROVE HeldBy(Forgotten) = HeldBy(live)
<1>1. SizesOf(Forgotten) = SizesOf(live)
  BY ForgottenType DEF SizesOf
<1>2. QED
  BY <1>1, ForgottenType DEF HeldBy

(* t has only elements of s, each once, and none of who's. *)
Keeps(s, t, who, up) ==
  /\ \A j \in DOMAIN t : up[j] \in DOMAIN s /\ t[j] = s[up[j]] /\ t[j].by # who
  /\ \A i, j \in DOMAIN t : up[i] = up[j] => i = j

(* All are kept if none is his. *)
LEMMA KeepsAll ==
  ASSUME NEW s, NEW who, \A j \in DOMAIN s : s[j].by # who
  PROVE  \E up : Keeps(s, s, who, up)
<1> DEFINE up == [j \in DOMAIN s |-> j]
<1>1. Keeps(s, s, who, up)
  BY DEF Keeps
<1>2. QED
  BY <1>1

(* Without drops only what is his. *)
LEMMA WithoutKeeps ==
  ASSUME live \in Seq(Owned), HoldersInv, NEW who, who # "kernel"
  PROVE  \E up : Keeps(live, Without(who), who, up)
<1>1. CASE Of(who) = {} /\ Without(who) = live
  <2>1. \A j \in DOMAIN live : live[j].by # who
    BY <1>1 DEF Of
  <2>2. QED
    BY <1>1, <2>1, KeepsAll
<1>2. ASSUME NEW k \in DOMAIN live, live[k].by = who, Without(who) = RemoveAt(live, k)
      PROVE  \E up : Keeps(live, Without(who), who, up)
  <2> DEFINE up == [j \in 1 .. Len(live) - 1 |-> IF j < k THEN j ELSE j + 1]
  <2>1. /\ DOMAIN Without(who) = 1 .. Len(live) - 1
        /\ \A j \in 1 .. Len(live) - 1 :
             Without(who)[j] = IF j < k THEN live[j] ELSE live[j + 1]
    BY <1>2, RemoveAtIs
  <2>2. DOMAIN live = 1 .. Len(live) /\ Len(live) \in Nat
    OBVIOUS
  <2>3. \A j \in 1 .. Len(live) - 1 : up[j] \in 1 .. Len(live) /\ up[j] # k
    BY <2>2
  <2>4. \A i, j \in 1 .. Len(live) - 1 : up[i] = up[j] => i = j
    BY <2>2
  <2>5. \A j \in 1 .. Len(live) - 1 : Without(who)[j] = live[up[j]]
    BY <2>1
  <2>6. Keeps(live, Without(who), who, up)
    <3> HIDE DEF up
    <3>1. \A j \in 1 .. Len(live) - 1 : live[up[j]].by # who
      BY <1>2, <2>2, <2>3 DEF HoldersInv
    <3>2. QED
      BY <2>1, <2>2, <2>3, <2>4, <2>5, <3>1 DEF Keeps
  <2> HIDE DEF up
  <2>7. QED
    BY <2>6
<1>3. QED
  BY <1>1, <1>2, WithoutIs

-----------------------------------------------------------------------------
(* Who holds a process, of any sequence s of them, with the copies h and a. *)
HoldersOf(s, h, a) ==
  /\ \A j, k \in DOMAIN s : s[j].by = s[k].by /\ s[j].by # "kernel" => j = k
  /\ \A k \in DOMAIN s :
       /\ s[k].by \in Clients => /\ s[k].by \in DOMAIN h
                                 /\ h[s[k].by].allocation_size = s[k].size
       /\ s[k].by = "page" => a.allocation_size = s[k].size

(* Some have given up theirs, and at most the copy of who, who has none now,  *)
(* has changed.                                                               *)
LEMMA HoldersKept ==
  ASSUME NEW s, NEW t, NEW who, NEW up, Keeps(s, t, who, up),
         NEW h, NEW a, HoldersOf(s, h, a),
         NEW g, NEW b,
         \A c \in Clients : c # who /\ c \in DOMAIN h => c \in DOMAIN g /\ g[c] = h[c],
         who # "page" => b = a
  PROVE  HoldersOf(t, g, b)
<1>1. ASSUME NEW j \in DOMAIN t, NEW k \in DOMAIN t,
             t[j].by = t[k].by, t[j].by # "kernel"
      PROVE  j = k
  <2>1. up[j] \in DOMAIN s /\ up[k] \in DOMAIN s /\ t[j] = s[up[j]] /\ t[k] = s[up[k]]
    BY DEF Keeps
  <2>2. up[j] = up[k]
    BY <1>1, <2>1 DEF HoldersOf
  <2>3. QED
    BY <2>2 DEF Keeps
<1>2. ASSUME NEW k \in DOMAIN t
      PROVE  /\ t[k].by \in Clients => /\ t[k].by \in DOMAIN g
                                       /\ g[t[k].by].allocation_size = t[k].size
             /\ t[k].by = "page" => b.allocation_size = t[k].size
  <2>1. up[k] \in DOMAIN s /\ t[k] = s[up[k]] /\ t[k].by # who
    BY DEF Keeps
  <2>2. /\ t[k].by \in Clients => /\ t[k].by \in DOMAIN h
                                  /\ h[t[k].by].allocation_size = t[k].size
        /\ t[k].by = "page" => a.allocation_size = t[k].size
    BY <2>1 DEF HoldersOf
  <2>3. QED
    BY <2>1, <2>2
<1>3. QED
  BY <1>1, <1>2 DEF HoldersOf

(* One more process, of one who had none, or of the kernel. *)
LEMMA HoldersAppend ==
  ASSUME NEW s \in Seq(Owned), NEW e \in Owned, NEW h, NEW a, HoldersOf(s, h, a),
         e.by # "kernel" => \A k \in DOMAIN s : s[k].by # e.by,
         e.by \in Clients => e.by \in DOMAIN h /\ h[e.by].allocation_size = e.size,
         e.by = "page" => a.allocation_size = e.size
  PROVE  HoldersOf(Append(s, e), h, a)
<1> DEFINE t == Append(s, e)
           n == Len(s)
<1>1. n \in Nat /\ DOMAIN s = 1 .. n /\ DOMAIN t = 1 .. n + 1
  OBVIOUS
<1>2. (\A k \in 1 .. n : t[k] = s[k]) /\ t[n + 1] = e
  OBVIOUS
<1>3. \A k \in DOMAIN t : (k \in DOMAIN s /\ t[k] = s[k]) \/ (k = n + 1 /\ t[k] = e)
  BY <1>1, <1>2
<1> HIDE DEF t, n
<1>4. \A j, k \in DOMAIN t : t[j].by = t[k].by /\ t[j].by # "kernel" => j = k
  BY <1>3 DEF HoldersOf
<1>5. \A k \in DOMAIN t :
        /\ t[k].by \in Clients => /\ t[k].by \in DOMAIN h
                                  /\ h[t[k].by].allocation_size = t[k].size
        /\ t[k].by = "page" => a.allocation_size = t[k].size
  BY <1>3 DEF HoldersOf
<1>6. HoldersOf(t, h, a)
  BY <1>4, <1>5 DEF HoldersOf
<1>7. QED
  BY <1>6 DEF t

(* alloc_page forgets the process it had. *)
LEMMA HoldersForgotten ==
  ASSUME live \in Seq(Owned), HoldersInv, NEW b
  PROVE  /\ HoldersOf(Forgotten, handle, b)
         /\ \A k \in DOMAIN Forgotten : Forgotten[k].by # "page"
<1>1. /\ DOMAIN Forgotten = DOMAIN live
      /\ \A k \in DOMAIN live :
           /\ Forgotten[k].size = live[k].size
           /\ Forgotten[k].by = IF live[k].by = "page" THEN "kernel" ELSE live[k].by
  BY ForgottenType
<1>2. "page" \notin Clients /\ "kernel" \notin Clients
  BY AllocatorsAssumption
<1>3. \A k \in DOMAIN Forgotten :
        /\ Forgotten[k].by # "page"
        /\ Forgotten[k].by # "kernel" => Forgotten[k].by = live[k].by
  BY <1>1
<1>4. \A j, k \in DOMAIN Forgotten :
        Forgotten[j].by = Forgotten[k].by /\ Forgotten[j].by # "kernel" => j = k
  BY <1>1, <1>3 DEF HoldersInv
<1>5. \A k \in DOMAIN Forgotten : Forgotten[k].by \in Clients =>
        /\ Forgotten[k].by \in DOMAIN handle
        /\ handle[Forgotten[k].by].allocation_size = Forgotten[k].size
  BY <1>1, <1>2, <1>3 DEF HoldersInv
<1>6. QED
  BY <1>3, <1>4, <1>5 DEF HoldersOf

(* Every step keeps it that each has one process at most, and a true copy. *)
LEMMA HoldersInductive ==
  ASSUME TypeOK, HoldersInv, [Next]_vars PROVE HoldersInv'
<1> DEFINE Now == HoldersOf(live, handle, allocations)
           Then == HoldersOf(live', handle', allocations')
<1>1. ProcType /\ HolderType /\ Now /\ live \in Seq(Owned)
  BY DEF TypeOK, HolderType, HoldersInv, HoldersOf
<1>2. Then => HoldersInv'
  BY DEF HoldersInv, HoldersOf
<1>3. "page" \notin Clients /\ "kernel" \notin Clients
  BY AllocatorsAssumption
<1>4. ASSUME UNCHANGED <<live, handle, allocations>> PROVE Then
  BY <1>1, <1>4
<1>5. ASSUME NEW blocks \in Nat, NEW first,
             live' = LiveWith("kernel", blocks, first, live), UNCHANGED <<handle, allocations>>
      PROVE  Then
  <2>1. Entry("kernel", blocks) \in Owned /\ Entry("kernel", blocks).by = "kernel"
    BY <1>1 DEF Entry, Owned, ProcType
  <2>2. HoldersOf(Append(live, Entry("kernel", blocks)), handle, allocations)
    BY <1>1, <1>3, <2>1, HoldersAppend
  <2>3. QED
    BY <1>1, <1>5, <2>2 DEF LiveWith
<1>6. ASSUME NEW c \in Clients, Free(c) PROVE Then
  <2>1. c # "kernel" /\ c # "page"
    BY <1>3
  <2>2. PICK up : Keeps(live, Without(c), c, up)
    BY <1>1, <2>1, WithoutKeeps
  <2>3. /\ \A d \in Clients : d # c /\ d \in DOMAIN handle =>
             d \in DOMAIN handle' /\ handle'[d] = handle[d]
        /\ allocations' = allocations /\ live' = Without(c)
    BY <1>6 DEF Free, vmVars
  <2>4. QED
    BY <1>1, <2>2, <2>3, HoldersKept
<1>7. ASSUME NEW c \in Clients, Assign(c) PROVE Then
  <2>1. c \in DOMAIN handle /\ handle[c] \in Process
    BY <1>1, <1>7 DEF Assign, HolderType
  <2>2. Assigned(handle[c]).allocation_size = handle[c].allocation_size
    BY <2>1 DEF Assigned, Process
  <2>3. /\ DOMAIN handle' = DOMAIN handle
        /\ \A d \in DOMAIN handle :
             handle'[d].allocation_size = handle[d].allocation_size
    BY <1>7, <2>2 DEF Assign
  <2>4. UNCHANGED <<live, allocations>>
    BY <1>7 DEF Assign, vmVars
  <2>5. QED
    BY <1>1, <2>3, <2>4 DEF HoldersOf
<1>8. ASSUME NEW c \in Clients, NEW blocks \in Asks, Alloc(c, blocks) PROVE Then
  <2>1. PICK first \in Found(blocks) :
          /\ m_alloc(blocks, first)
          /\ handle' = [h \in DOMAIN handle \cup {c} |->
                          IF h = c THEN Returned(blocks, first) ELSE handle[h]]
          /\ live' = LiveWith(c, blocks, first, live)
    BY <1>8 DEF Alloc
  <2>2. allocations' = allocations /\ \A j \in DOMAIN live : live[j].by # c
    BY <1>8 DEF Alloc, vmVars, Of
  <2>3. PICK up : Keeps(live, live, c, up)
    BY <2>2, KeepsAll
  <2>4. \A d \in Clients : d # c /\ d \in DOMAIN handle =>
          d \in DOMAIN handle' /\ handle'[d] = handle[d]
    BY <2>1
  <2>5. HoldersOf(live, handle', allocations')
    BY <1>1, <2>2, <2>3, <2>4, HoldersKept
  <2>6. CASE first = -1
    BY <2>1, <2>5, <2>6 DEF LiveWith
  <2>7. CASE first # -1
    <3>1. blocks \in Nat
      BY AllocatorsAssumption
    <3>2. /\ Entry(c, blocks) \in Owned
          /\ Entry(c, blocks).by = c /\ Entry(c, blocks).size = blocks
      BY <1>1, <3>1 DEF Entry, Owned, ProcType
    <3>3. handle'[c] = Granted(blocks, first) /\ c \in DOMAIN handle'
      BY <2>1, <2>7 DEF Returned
    <3>4. handle'[c].allocation_size = blocks
      BY <3>3 DEF Granted
    <3>5. HoldersOf(Append(live, Entry(c, blocks)), handle', allocations')
      BY <1>1, <1>3, <2>2, <2>5, <3>2, <3>3, <3>4, HoldersAppend
    <3>6. QED
      BY <2>1, <2>7, <3>5 DEF LiveWith
  <2>8. QED
    BY <2>6, <2>7
<1>9. ASSUME NEW e \in Pages, alloc_page(e) PROVE Then
  <2>1. PICK first \in Found(1) :
          /\ PageFrom(e, Returned(1, first))
          /\ live' = LiveWith("page", 1, first, Forgotten)
          /\ UNCHANGED handle
    BY <1>9 DEF alloc_page
  <2>2. /\ HoldersOf(Forgotten, handle, allocations')
        /\ \A k \in DOMAIN Forgotten : Forgotten[k].by # "page"
        /\ Forgotten \in Seq(Owned)
    BY <1>1, HoldersForgotten, ForgottenType
  <2>3. CASE first = -1
    BY <2>1, <2>2, <2>3 DEF LiveWith
  <2>4. CASE first # -1
    <3>1. /\ Entry("page", 1) \in Owned
          /\ Entry("page", 1).by = "page" /\ Entry("page", 1).size = 1
      BY <1>1 DEF Entry, Owned, ProcType
    <3>2. allocations' = Granted(1, first)
      BY <2>1, <2>4 DEF PageFrom, Returned
    <3>3. allocations'.allocation_size = 1
      BY <3>2 DEF Granted
    <3>4. HoldersOf(Append(Forgotten, Entry("page", 1)), handle, allocations')
      BY <1>3, <2>2, <3>1, <3>3, HoldersAppend
    <3>5. QED
      BY <2>1, <2>4, <3>4 DEF LiveWith
  <2>5. QED
    BY <2>3, <2>4
<1>10. ASSUME NEW e \in Pages, FreePage(e) PROVE Then
  <2>1. CASE HasAddress(e)
    <3>1. PICK up : Keeps(live, Without("page"), "page", up)
      BY <1>1, WithoutKeeps
    <3>2. handle' = handle /\ live' = Without("page")
      BY <1>10, <2>1 DEF FreePage
    <3>3. QED
      BY <1>1, <3>1, <3>2, HoldersKept
  <2>2. CASE ~HasAddress(e)
    BY <1>4, <1>10, <2>2 DEF FreePage, free_page
  <2>3. QED
    BY <2>1, <2>2
<1>11. ASSUME NEW type \in HeapTypes, init_heap_bitmap(type) PROVE Then
  <2>1. type \in Nat
    BY AllocatorsAssumption
  <2>2. QED
    BY <1>5, <1>11, <2>1 DEF init_heap_bitmap, vmVars
<1>12. ASSUME NEW virt \in Virts, map_page(virt) PROVE Then
  BY <1>4, <1>5, <1>12 DEF map_page, MapInTable, MapNewTable, vmVars
<1>13. Bumps \/ BringUp \/ Overrun \/ HeapCall \/ SetPageDir \/ UNCHANGED vars =>
         UNCHANGED <<live, handle, allocations>>
  BY DEF Bumps, BringUp, Overrun, HeapCall, SetPageDir, set_page_dir, Kernel, vmVars, vars
<1>14. QED
  <2> HIDE DEF Then
  <2>1. QED
    BY <1>2, <1>4, <1>6, <1>7, <1>8, <1>9, <1>10, <1>11, <1>12, <1>13 DEF Next

(* Everybody but the kernel has one process at most, and the copy he will     *)
(* pass to m_free has its size (xxtra.c:146-232, virtual_mem.h:64-82).        *)
THEOREM HoldersCorrect == Spec => []HoldersInv
<1>1. Init => HoldersInv
  BY DEF Init, HoldersInv
<1>2. QED
  BY <1>1, HoldersInductive, TypeCorrect, PTL DEF Spec

-----------------------------------------------------------------------------
(* What a step is to the counters and the slots: a grant to who, of so many   *)
(* blocks; a call of m_free by who; or neither.                               *)
Grants(who, blocks, first, others) ==
  /\ m_alloc(blocks, first) /\ first # -1
  /\ live' = Append(others, Entry(who, blocks))
  /\ pc = "serve" /\ pc' = "serve" /\ met \subseteq met'

Frees(who, process) ==
  /\ m_free(process)
  /\ live' = Without(who)
  /\ met' = met \cup Wrong(who, process)
  /\ pc = "serve" /\ pc' = "serve"

Rests(others) ==
  /\ UNCHANGED <<used_blocks, total_allocated, curr_pID, pc>>
  /\ live' = others /\ met \subseteq met'

GrantStep ==
  \E who \in Clients \cup {"kernel", "page"}, blocks \in Nat, others \in {live, Forgotten} :
    \E first : Grants(who, blocks, first, others)

FreeStep ==
  \E process \in Process : \E who :
    /\ who # "kernel" /\ Frees(who, process)
    /\ \A k \in DOMAIN live : live[k].by = who => process.allocation_size = live[k].size

RestStep == Rests(live) \/ Rests(Forgotten)

(* Every step of Next is one of these, or bring-up, or the overrun. *)
LEMMA StepKinds ==
  ASSUME TypeOK, HoldersInv, [Next]_vars
  PROVE  BringUp \/ Overrun \/ RestStep \/ GrantStep \/ FreeStep
<1> DEFINE Kinds == BringUp \/ Overrun \/ RestStep \/ GrantStep \/ FreeStep
<1>1. HolderType
  BY DEF TypeOK
<1>2. "page" \notin Clients /\ "kernel" \notin Clients
  BY AllocatorsAssumption
<1>3. ASSUME NEW who \in Clients \cup {"kernel", "page"}, NEW blocks \in Nat, NEW first,
             NEW others \in {live, Forgotten}, m_alloc(blocks, first),
             live' = LiveWith(who, blocks, first, others),
             pc = "serve", pc' = "serve", met \subseteq met'
      PROVE  Kinds
  <2>1. CASE first = -1
    <3>1. Rests(others)
      BY <1>3, <2>1 DEF m_alloc, procVars, LiveWith, Rests
    <3>2. QED
      BY <3>1 DEF RestStep
  <2>2. CASE first # -1
    <3>1. Grants(who, blocks, first, others)
      BY <1>3, <2>2 DEF LiveWith, Grants
    <3>2. QED
      BY <3>1 DEF GrantStep
  <2>3. QED
    BY <2>1, <2>2
<1>4. ASSUME UNCHANGED <<procVars, live, pc>>, met \subseteq met' PROVE Kinds
  <2>1. Rests(live)
    BY <1>4 DEF Rests, procVars
  <2>2. QED
    BY <2>1 DEF RestStep
<1>5. ASSUME NEW c \in Clients, Free(c) PROVE Kinds
  <2>1. c \in DOMAIN handle /\ handle[c] \in Process /\ c # "kernel"
    BY <1>1, <1>2, <1>5 DEF Free, HolderType
  <2>2. Frees(c, handle[c])
    BY <1>5 DEF Free, Call, Frees
  <2>3. \A k \in DOMAIN live : live[k].by = c => handle[c].allocation_size = live[k].size
    BY DEF HoldersInv
  <2>4. QED
    BY <2>1, <2>2, <2>3 DEF FreeStep
<1>6. ASSUME NEW e \in Pages, FreePage(e) PROVE Kinds
  <2>1. CASE HasAddress(e)
    <3>1. allocations \in Process /\ "page" # "kernel"
      BY <1>1 DEF HolderType
    <3>2. Frees("page", allocations)
      BY <1>6, <2>1 DEF FreePage, free_page, Call, Frees
    <3>3. \A k \in DOMAIN live : live[k].by = "page" => allocations.allocation_size = live[k].size
      BY DEF HoldersInv
    <3>4. QED
      BY <3>1, <3>2, <3>3 DEF FreeStep
  <2>2. CASE ~HasAddress(e)
    BY <1>4, <1>6, <2>2 DEF FreePage, free_page
  <2>3. QED
    BY <2>1, <2>2
<1>7. ASSUME NEW c \in Clients, NEW blocks \in Asks, Alloc(c, blocks) PROVE Kinds
  <2>1. PICK first \in Found(blocks) :
          m_alloc(blocks, first) /\ live' = LiveWith(c, blocks, first, live)
    BY <1>7 DEF Alloc
  <2>2. blocks \in Nat /\ pc = "serve" /\ pc' = "serve" /\ met \subseteq met'
    BY <1>7, AllocatorsAssumption DEF Alloc, Call
  <2>3. QED
    BY <1>3, <2>1, <2>2
<1>8. ASSUME NEW type \in HeapTypes, init_heap_bitmap(type) PROVE Kinds
  <2>1. PICK first \in Found(type) :
          m_alloc(type, first) /\ live' = LiveWith("kernel", type, first, live)
    BY <1>8 DEF init_heap_bitmap
  <2>2. type \in Nat /\ pc = "serve" /\ pc' = "serve" /\ met \subseteq met'
    BY <1>8, AllocatorsAssumption DEF init_heap_bitmap, Call
  <2>3. QED
    BY <1>3, <2>1, <2>2
<1>9. ASSUME NEW e \in Pages, alloc_page(e) PROVE Kinds
  <2>1. PICK first \in Found(1) :
          m_alloc(1, first) /\ live' = LiveWith("page", 1, first, Forgotten)
    BY <1>9 DEF alloc_page
  <2>2. pc = "serve" /\ pc' = "serve" /\ met \subseteq met'
    BY <1>9 DEF alloc_page, Call
  <2>3. QED
    BY <1>3, <2>1, <2>2
<1>10. ASSUME NEW virt \in Virts, map_page(virt) PROVE Kinds
  <2>1. pc = "serve" /\ pc' = "serve" /\ met \subseteq met'
    BY <1>10 DEF map_page, Call
  <2>2. \/ UNCHANGED <<procVars, live>>
        \/ \E first \in Found(1) :
             m_alloc(1, first) /\ live' = LiveWith("kernel", 1, first, live)
    BY <1>10 DEF map_page
  <2>3. QED
    BY <1>3, <1>4, <2>1, <2>2
<1>11. Bumps \/ HeapCall \/ SetPageDir \/ UNCHANGED vars =>
         UNCHANGED <<procVars, live, pc>> /\ met \subseteq met'
  BY DEF Bumps, HeapCall, SetPageDir, set_page_dir, Kernel, vars
<1>12. ASSUME NEW c \in Clients, Assign(c) PROVE Kinds
  <2>1. Rests(live)
    BY <1>12 DEF Assign, assign_value, Rests
  <2>2. QED
    BY <2>1 DEF RestStep
<1>13. QED
  <2>1. BringUp => Kinds
    OBVIOUS
  <2>2. Overrun => Kinds
    OBVIOUS
  <2> HIDE DEF Kinds
  <2>3. Kinds
    BY <1>4, <1>5, <1>6, <1>7, <1>8, <1>9, <1>10, <1>11, <1>12, <2>1, <2>2 DEF Next
  <2>4. QED
    BY <2>3 DEF Kinds

-----------------------------------------------------------------------------
Start == MemSize \div BLOCK_SIZE - UsableSize \div BLOCK_SIZE + KernelSize \div BLOCK_SIZE

(* The counters, given what is held. *)
Match(held, used, total) == used = (Start + held) % UInt /\ total = held % UInt

(* Held as a function of the holders. *)
LEMMA HeldIs == Held = HeldBy(live) /\ Held' = HeldBy(live')
BY DEF Held, HeldBy, SizesOf

(* What is in use when bring-up is over. *)
LEMMA StartType == Start \in Int
<1>1. /\ BLOCK_SIZE \in Nat \ {0}
      /\ MemSize \in Nat /\ UsableSize \in Nat /\ KernelSize \in Nat
  BY ProcAllocAssumption, AllocatorsAssumption
<1>2. \A n \in Nat : n \div BLOCK_SIZE \in Int
  BY <1>1, DivMod
<1>3. QED
  BY <1>1, <1>2 DEF Start

(* A grant, or a free, of so many blocks counts them once. *)
LEMMA MatchChange ==
  ASSUME NEW held \in Nat, NEW by \in Int, NEW used, NEW total, Match(held, used, total)
  PROVE  Match(held + by, (used + by) % UInt, (total + by) % UInt)
<1>1. UInt \in Nat \ {0} /\ Start \in Int
  BY ProcAllocAssumption, StartType
<1>2. (((Start + held) % UInt) + by) % UInt = (Start + held + by) % UInt
  <2>1. Start + held \in Int
    BY <1>1
  <2>2. QED
    BY <1>1, <2>1, ModOfModPlus
<1>3. ((held % UInt) + by) % UInt = (held + by) % UInt
  <2>1. held \in Int
    OBVIOUS
  <2>2. QED
    BY <1>1, <2>1, ModOfModPlus
<1>4. Start + held + by = Start + (held + by)
  BY <1>1
<1>5. QED
  BY <1>2, <1>3, <1>4 DEF Match

(* Bring-up counts its regions. *)
LEMMA BringUpCounts ==
  ASSUME TypeOK, CountersInv, BringUp PROVE CountersInv'
<1> DEFINE a == MemSize \div BLOCK_SIZE
           b == UsableSize \div BLOCK_SIZE
           c == KernelSize \div BLOCK_SIZE
<1>1. /\ UInt \in Nat \ {0} /\ BLOCK_SIZE \in Nat \ {0}
      /\ MemSize \in Nat /\ UsableSize \in Nat /\ KernelSize \in Nat
  BY ProcAllocAssumption, AllocatorsAssumption
<1>2. \A n \in Nat : n \div BLOCK_SIZE \in Int
  BY <1>1, DivMod
<1>3. a \in Int /\ b \in Int /\ c \in Int
  BY <1>1, <1>2
<1>4. live = <<>> /\ live' = <<>> /\ total_allocated = 0 /\ total_allocated' = 0 /\ met' = met
  BY DEF BringUp, Kernel, CountersInv, init_mem, init_region, deinit_region
<1>5. CASE pc = "init_mem"
  <2>1. pc' = "init_region" /\ used_blocks' = a
    BY <1>5 DEF BringUp, init_mem
  <2>2. QED
    BY <1>4, <2>1 DEF CountersInv, CountersMatch
<1>6. CASE pc = "init_region"
  <2>1. pc' = "deinit_region" /\ used_blocks' = (used_blocks - b) % UInt /\ used_blocks = a
    BY <1>6 DEF BringUp, init_region, CountersInv
  <2>2. QED
    BY <1>4, <2>1 DEF CountersInv, CountersMatch
<1>7. CASE pc = "deinit_region"
  <2>1. /\ pc' = "serve" /\ used_blocks' = (used_blocks + c) % UInt
        /\ used_blocks = (a - b) % UInt
    BY <1>7 DEF BringUp, deinit_region, CountersInv
  <2>2. used_blocks' = (Start + 0) % UInt
    <3>1. a - b \in Int /\ c \in Int /\ Start + 0 = (a - b) + c
      BY <1>3 DEF Start
    <3> HIDE DEF a, b, c
    <3>2. (((a - b) % UInt) + c) % UInt = ((a - b) + c) % UInt
      BY <1>1, <3>1, ModOfModPlus
    <3>3. QED
      BY <2>1, <3>1, <3>2
  <2>3. HeldBy(<<>>) = 0
    BY SumToZero DEF HeldBy
  <2>4. 0 % UInt = 0
    BY <1>1, ModSmall
  <2>5. Held' = 0
    BY <1>4, <2>3, HeldIs
  <2>6. used_blocks' = (Start + Held') % UInt /\ total_allocated' = Held' % UInt
    BY <1>4, <2>2, <2>4, <2>5
  <2>7. QED
    BY <1>4, <2>1, <2>6 DEF CountersInv, CountersMatch, Start
<1>8. QED
  BY <1>5, <1>6, <1>7 DEF BringUp

(* Every step keeps the counters. *)
LEMMA CountersInductive ==
  ASSUME TypeOK, HoldersInv, CountersInv, [Next]_vars PROVE CountersInv'
<1>1. /\ ProcType /\ live \in Seq(Owned) /\ Forgotten \in Seq(Owned)
      /\ HeldBy(live) \in Nat /\ HeldBy(Forgotten) = HeldBy(live)
  BY ForgottenType, HeldType, HeldForgotten DEF TypeOK, HolderType
<1>2. pc \in {"serve", "overrun"} /\ "borrowed" \notin met =>
        Match(HeldBy(live), used_blocks, total_allocated)
  BY HeldIs DEF CountersInv, CountersMatch, Match, Start
<1>3. ASSUME pc' \in {"serve", "overrun"},
             "borrowed" \notin met' => Match(HeldBy(live'), used_blocks', total_allocated')
      PROVE  CountersInv'
  BY <1>3, HeldIs DEF CountersInv, CountersMatch, Match, Start
<1>4. ASSUME NEW others \in {live, Forgotten}, Rests(others) PROVE CountersInv'
  <2>1. HeldBy(live') = HeldBy(live)
    BY <1>1, <1>4 DEF Rests
  <2>2. CASE pc \in {"serve", "overrun"}
    <3>1. pc' \in {"serve", "overrun"} /\ met \subseteq met'
          /\ used_blocks' = used_blocks /\ total_allocated' = total_allocated
      BY <1>4, <2>2 DEF Rests
    <3>2. QED
      BY <1>2, <1>3, <2>1, <2>2, <3>1
  <2>3. CASE pc \notin {"serve", "overrun"}
    <3>1. live = <<>> /\ total_allocated = 0
      BY <2>3 DEF CountersInv
    <3>2. Forgotten = <<>>
      BY <1>1, <3>1, ForgottenType
    <3>3. UNCHANGED <<used_blocks, total_allocated, live, pc>>
      BY <1>4, <3>1, <3>2 DEF Rests
    <3>4. QED
      BY <2>3, <3>1, <3>3 DEF CountersInv, CountersMatch
  <2>4. QED
    BY <2>2, <2>3
<1>5. ASSUME NEW who \in Clients \cup {"kernel", "page"}, NEW blocks \in Nat, NEW first,
             NEW others \in {live, Forgotten}, Grants(who, blocks, first, others)
      PROVE  CountersInv'
  <2>1. Entry(who, blocks) \in Owned /\ Entry(who, blocks).size = blocks
    BY <1>1 DEF Entry, Owned, ProcType
  <2>2. HeldBy(live') = HeldBy(live) + blocks
    BY <1>1, <1>5, <2>1, HeldAppend DEF Grants
  <2>3. /\ used_blocks' = (used_blocks + blocks) % UInt
        /\ total_allocated' = (total_allocated + blocks) % UInt
        /\ pc = "serve" /\ pc' = "serve" /\ met \subseteq met'
    BY <1>5 DEF Grants, m_alloc, Grant
  <2>4. blocks \in Int
    OBVIOUS
  <2>5. "borrowed" \notin met' => Match(HeldBy(live'), used_blocks', total_allocated')
    BY <1>1, <1>2, <2>2, <2>3, <2>4, MatchChange
  <2>6. QED
    BY <1>3, <2>3, <2>5
<1>6. ASSUME NEW process \in Process, NEW who, who # "kernel", Frees(who, process),
             \A k \in DOMAIN live : live[k].by = who => process.allocation_size = live[k].size
      PROVE  CountersInv'
  <2> DEFINE size == process.allocation_size
  <2>1. /\ used_blocks' = (used_blocks - size) % UInt
        /\ total_allocated' = (total_allocated - size) % UInt
        /\ pc = "serve" /\ pc' = "serve" /\ met' = met \cup Wrong(who, process)
        /\ live' = Without(who)
    BY <1>6 DEF Frees, m_free
  <2>2. size \in Nat
    BY DEF Process
  <2>3. "borrowed" \notin met' => HeldBy(live') = HeldBy(live) - size
    <3>1. CASE Of(who) = {} /\ Without(who) = live
      <4>1. "borrowed" \notin met' => ~(size > 0)
        BY <2>1, <3>1 DEF Wrong
      <4>2. QED
        BY <1>1, <2>1, <2>2, <3>1, <4>1
    <3>2. ASSUME NEW k \in DOMAIN live, live[k].by = who, Without(who) = RemoveAt(live, k)
          PROVE  HeldBy(live') = HeldBy(live) - size
      BY <1>1, <1>6, <2>1, <3>2, HeldRemove
    <3>3. QED
      BY <1>1, <3>1, <3>2, WithoutIs
  <2> HIDE DEF size
  <2>4. "borrowed" \notin met' => Match(HeldBy(live'), used_blocks', total_allocated')
    <3>1. SUFFICES ASSUME "borrowed" \notin met'
                   PROVE  Match(HeldBy(live'), used_blocks', total_allocated')
      OBVIOUS
    <3>2. -size \in Int /\ ProcType
      BY <1>1, <2>2
    <3>3. Match(HeldBy(live), used_blocks, total_allocated)
      BY <1>2, <2>1, <3>1
    <3>4. Match(HeldBy(live) + (-size), (used_blocks + (-size)) % UInt,
                (total_allocated + (-size)) % UInt)
      BY <1>1, <3>2, <3>3, MatchChange
    <3>5. /\ HeldBy(live) + (-size) = HeldBy(live')
          /\ used_blocks + (-size) = used_blocks - size
          /\ total_allocated + (-size) = total_allocated - size
      BY <1>1, <2>2, <2>3, <3>1 DEF ProcType
    <3>6. QED
      BY <2>1, <3>4, <3>5
  <2>5. QED
    BY <1>3, <2>1, <2>4
<1>7. CASE Overrun
  <2>1. /\ UNCHANGED <<used_blocks, total_allocated, live, met>>
        /\ pc = "serve" /\ pc' = "overrun"
    BY <1>7 DEF Overrun, Call, Kernel, procVars
  <2>2. QED
    BY <1>2, <1>3, <2>1
<1>8. CASE BringUp
  BY <1>8, BringUpCounts
<1>9. QED
  BY <1>4, <1>5, <1>6, <1>7, <1>8, StepKinds DEF RestStep, GrantStep, FreeStep

(* The counters are what the holders of processes have, in whatever order     *)
(* they free them, as long as nobody frees the process that a refusal returned *)
(* (xxtra.c:146-212, virtual_mem.h:64-139).                                   *)
THEOREM CountersMatchCorrect == Spec => []CountersMatch
<1>1. Init => CountersInv
  BY DEF Init, ProcInit, CountersInv, CountersMatch
<1>2. CountersInv => CountersMatch
  BY DEF CountersInv
<1>3. QED
  BY <1>1, <1>2, CountersInductive, HoldersCorrect, TypeCorrect, PTL DEF Spec

-----------------------------------------------------------------------------
(* The slots, given who is alive. *)
Tidy == met \cap {"borrowed", "empty"} = {}
Ordered == met \cap {"borrowed", "empty", "order"} = {}

(* The newest goes: the slots of the others stay as they were. *)
LEMMA SlotsAfterFree ==
  ASSUME TypeOK, HoldersInv, SlotsInv, NEW process, NEW who, who # "kernel",
         Frees(who, process), Tidy'
  PROVE  /\ curr_pID' = Len(live') /\ Len(live') <= Slots
         /\ Ordered' => \A j \in DOMAIN live' : live'[j].pID = j - 1
<1>1. ProcType /\ live \in Seq(Owned) /\ Len(live) \in Nat /\ DOMAIN live = 1 .. Len(live)
  BY DEF TypeOK, HolderType
<1>2. /\ curr_pID' = (curr_pID - 1) % UInt /\ live' = Without(who)
      /\ met' = met \cup Wrong(who, process)
  BY DEF Frees, m_free
<1>3. /\ Tidy /\ (Ordered' => Ordered)
      /\ curr_pID = Len(live) /\ Len(live) <= Slots
      /\ Ordered => \A k \in DOMAIN live : live[k].pID = k - 1
  BY <1>2 DEF Tidy, Ordered, SlotsInv, SlotsDistinct
<1>4. Of(who) # {}
  BY <1>2 DEF Wrong, Tidy
<1>5. PICK k \in DOMAIN live : live[k].by = who /\ live' = RemoveAt(live, k)
  BY <1>1, <1>2, <1>4, WithoutIs
<1>6. /\ Len(live') = Len(live) - 1 /\ DOMAIN live' = 1 .. Len(live) - 1
      /\ \A j \in 1 .. Len(live) - 1 : live'[j] = IF j < k THEN live[j] ELSE live[j + 1]
  BY <1>1, <1>5, RemoveAtIs
<1>7. curr_pID' = Len(live) - 1
  <2>1. Len(live) - 1 \in 0 .. UInt - 1 /\ UInt \in Nat \ {0}
    BY <1>1, <1>3, <1>5, ProcAllocAssumption
  <2>2. QED
    BY <1>2, <1>3, <2>1, ModSmall
<1>8. ASSUME Ordered', NEW j \in DOMAIN live' PROVE live'[j].pID = j - 1
  <2>1. Last(live).by = who
    BY <1>2, <1>4, <1>8 DEF Wrong, Ordered
  <2>2. k = Len(live)
    <3>1. Len(live) \in DOMAIN live /\ live[Len(live)].by = who
      BY <1>1, <1>5, <2>1 DEF Last
    <3>2. QED
      BY <1>5, <3>1 DEF HoldersInv
  <2>3. j \in DOMAIN live /\ live'[j] = live[j]
    BY <1>1, <1>6, <2>2
  <2>4. QED
    BY <1>3, <1>8, <2>3
<1>9. Slots \in Nat
  BY ProcAllocAssumption
<1>10. QED
  BY <1>1, <1>3, <1>6, <1>7, <1>8, <1>9

(* Every step keeps the slots. *)
LEMMA SlotsInductive ==
  ASSUME TypeOK, HoldersInv, SlotsInv, [Next]_vars PROVE SlotsInv'
<1>1. /\ ProcType /\ live \in Seq(Owned)
      /\ Forgotten \in Seq(Owned) /\ Len(Forgotten) = Len(live)
      /\ DOMAIN Forgotten = DOMAIN live
      /\ \A k \in DOMAIN live : Forgotten[k].pID = live[k].pID
      /\ Len(live) \in Nat /\ DOMAIN live = 1 .. Len(live) /\ Slots \in Nat
  BY ForgottenType, ProcAllocAssumption DEF TypeOK, HolderType
<1>2. /\ Tidy => curr_pID = Len(live) /\ Len(live) <= Slots
      /\ Ordered => curr_pID = Len(live) /\ \A k \in DOMAIN live : live[k].pID = k - 1
      /\ pc = "overrun" => Len(live) = Slots \/ ~Tidy
  BY DEF SlotsInv, SlotsDistinct, SlotsSuffice, Tidy, Ordered
<1>3. Ordered => Tidy
  BY DEF Tidy, Ordered
<1>4. Ordered' => Tidy'
  BY DEF Tidy, Ordered
<1>5. ASSUME Tidy' => curr_pID' = Len(live') /\ Len(live') <= Slots,
             Ordered' => \A k \in DOMAIN live' : live'[k].pID = k - 1,
             pc' = "overrun" => Len(live') = Slots \/ ~Tidy'
      PROVE  SlotsInv'
  BY <1>4, <1>5 DEF SlotsInv, SlotsDistinct, SlotsSuffice, Tidy, Ordered
<1>6. met \subseteq met' => (Tidy' => Tidy) /\ (Ordered' => Ordered)
  BY DEF Tidy, Ordered
<1>7. ASSUME NEW others \in {live, Forgotten}, Rests(others) PROVE SlotsInv'
  <2>1. /\ Len(live') = Len(live) /\ DOMAIN live' = DOMAIN live
        /\ \A k \in DOMAIN live : live'[k].pID = live[k].pID
        /\ UNCHANGED <<curr_pID, pc>> /\ (Tidy' => Tidy) /\ (Ordered' => Ordered)
    BY <1>1, <1>6, <1>7 DEF Rests
  <2>2. QED
    BY <1>2, <1>5, <2>1
<1>8. ASSUME NEW who \in Clients \cup {"kernel", "page"}, NEW blocks \in Nat, NEW first,
             NEW others \in {live, Forgotten}, Grants(who, blocks, first, others)
      PROVE  SlotsInv'
  <2>1. /\ curr_pID \in 0 .. Slots - 1 /\ curr_pID' = curr_pID + 1
        /\ live' = Append(others, Entry(who, blocks)) /\ pc' = "serve"
        /\ (Tidy' => Tidy) /\ (Ordered' => Ordered)
    BY <1>6, <1>8 DEF Grants, m_alloc, Grant
  <2>2. others \in Seq(Owned) /\ Len(others) = Len(live)
        /\ \A k \in 1 .. Len(live) : others[k].pID = live[k].pID
    BY <1>1
  <2>3. Len(live') = Len(live) + 1 /\ DOMAIN live' = 1 .. Len(live) + 1
    BY <1>1, <2>1, <2>2
  <2>4. /\ \A k \in 1 .. Len(live) : live'[k] = others[k]
        /\ live'[Len(live) + 1] = Entry(who, blocks)
    BY <1>1, <2>1, <2>2
  <2>5. Tidy' => curr_pID' = Len(live') /\ Len(live') <= Slots
    <3>1. ASSUME NEW n \in Nat, NEW id, id = n, id \in 0 .. Slots - 1
          PROVE  id + 1 = n + 1 /\ n + 1 <= Slots
      BY <1>1, <3>1
    <3>2. Tidy' => curr_pID = Len(live)
      BY <1>2, <2>1
    <3>3. QED
      BY <1>1, <2>1, <2>3, <3>1, <3>2
  <2>6. ASSUME Ordered', NEW k \in DOMAIN live' PROVE live'[k].pID = k - 1
    <3>1. CASE k \in 1 .. Len(live)
      BY <1>1, <1>2, <2>1, <2>2, <2>4, <2>6, <3>1
    <3>2. CASE k = Len(live) + 1
      <4>1. live'[k].pID = curr_pID
        BY <2>4, <3>2 DEF Entry
      <4>2. curr_pID = Len(live)
        BY <1>2, <2>1, <2>6
      <4>3. QED
        BY <1>1, <3>2, <4>1, <4>2
    <3>3. QED
      BY <1>1, <2>3, <3>1, <3>2
  <2>7. QED
    BY <1>5, <2>1, <2>5, <2>6
<1>9. ASSUME NEW process \in Process, NEW who, who # "kernel", Frees(who, process)
      PROVE  SlotsInv'
  <2>1. pc' = "serve"
    BY <1>9 DEF Frees
  <2>2. QED
    BY <1>4, <1>5, <1>9, <2>1, SlotsAfterFree
<1>10. CASE Overrun
  <2>1. UNCHANGED <<curr_pID, live, met>> /\ curr_pID \notin 0 .. Slots - 1
    BY <1>10 DEF Overrun, Kernel, procVars
  <2>2. Tidy => Len(live) = Slots
    <3>1. \A n \in Nat : n <= Slots /\ n \notin 0 .. Slots - 1 => n = Slots
      BY <1>1
    <3>2. QED
      BY <1>1, <1>2, <2>1, <3>1
  <2>3. (Tidy' <=> Tidy) /\ (Ordered' <=> Ordered)
    BY <2>1 DEF Tidy, Ordered
  <2>4. QED
    BY <1>2, <1>5, <2>1, <2>2, <2>3
<1>11. CASE BringUp
  <2>1. UNCHANGED <<curr_pID, live, met>> /\ pc' # "overrun"
    BY <1>11 DEF BringUp, Kernel, init_mem, init_region, deinit_region
  <2>2. (Tidy' <=> Tidy) /\ (Ordered' <=> Ordered)
    BY <2>1 DEF Tidy, Ordered
  <2>3. QED
    BY <1>2, <1>5, <2>1, <2>2
<1>12. QED
  BY <1>7, <1>8, <1>9, <1>10, <1>11, StepKinds DEF RestStep, GrantStep, FreeStep

(* Until somebody frees what is not his, curr_pID is the number of live       *)
(* processes, whatever their order (xxtra.c:176, 209).                        *)
THEOREM SlotsInvCorrect == Spec => []SlotsInv
<1>1. Init => SlotsInv
  BY ProcAllocAssumption DEF Init, ProcInit, SlotsInv, SlotsDistinct, SlotsSuffice
<1>2. QED
  BY <1>1, SlotsInductive, HoldersCorrect, TypeCorrect, PTL DEF Spec

(* Processes that are alive have slots of their own, in the order of their    *)
(* ages, as long as the newest is freed first (xxtra.c:176-183, 203-211).     *)
THEOREM SlotsDistinctCorrect == Spec => []SlotsDistinct
BY SlotsInvCorrect, PTL DEF SlotsInv

(* The table overflows only when all its processes are alive, or somebody has *)
(* freed what was not his (util.h:82-84, xxtra.c:176).                        *)
THEOREM SlotsSufficeCorrect == Spec => []SlotsSuffice
BY SlotsInvCorrect, PTL DEF SlotsInv

-----------------------------------------------------------------------------
(* The bytes in use of the blocks s of the heap. *)
Room(s) == [k \in DOMAIN s |-> IF s[k].freed THEN 0 ELSE s[k].bytes * padding]

(* Blocks, and what they take, are numbers. *)
LEMMA RoomType ==
  ASSUME NEW s \in Seq(HeapBlock)
  PROVE  /\ Len(s) \in Nat /\ DOMAIN s = 1 .. Len(s)
         /\ \A k \in 1 .. Len(s) :
              /\ s[k].from \in Nat /\ s[k].bytes \in Nat /\ s[k].freed \in BOOLEAN
              /\ s[k].bytes * padding \in Nat
              /\ Room(s)[k] \in Nat
              /\ Room(s)[k] = IF s[k].freed THEN 0 ELSE s[k].bytes * padding
         /\ SumTo(Room(s), Len(s)) \in Nat
<1>1. Len(s) \in Nat /\ DOMAIN s = 1 .. Len(s)
  OBVIOUS
<1>2. ASSUME NEW k \in 1 .. Len(s)
      PROVE  /\ s[k].from \in Nat /\ s[k].bytes \in Nat /\ s[k].freed \in BOOLEAN
             /\ s[k].bytes * padding \in Nat
             /\ Room(s)[k] \in Nat
             /\ Room(s)[k] = IF s[k].freed THEN 0 ELSE s[k].bytes * padding
  <2>1. s[k] \in HeapBlock
    OBVIOUS
  <2>2. s[k].from \in Nat /\ s[k].bytes \in Nat /\ s[k].freed \in BOOLEAN
    BY <2>1 DEF HeapBlock
  <2>3. s[k].bytes * padding \in Nat
    BY <2>2, HeapAssumption
  <2>4. Room(s)[k] = IF s[k].freed THEN 0 ELSE s[k].bytes * padding
    BY <1>1 DEF Room
  <2>5. QED
    BY <2>2, <2>3, <2>4
<1>3. QED
  BY <1>1, <1>2, SumToType

(* InUse as a function of the blocks. *)
LEMMA InUseIs ==
  /\ InUse = SumTo(Room(heapBlocks), Len(heapBlocks))
  /\ InUse' = SumTo(Room(heapBlocks'), Len(heapBlocks'))
BY DEF InUse, Room

(* What keeps the blocks of the heap apart, given that nothing forbidden was met. *)
Sound == met \cap {"twice", "word 0", "wrapped"} = {}

HeapApart(s) == \A i, j \in DOMAIN s :
              ~s[i].freed /\ ~s[j].freed /\ i < j => End(s[i]) <= s[j].from

Bounded(s, words, top) ==
  SumTo(Room(s), Len(s)) <= top /\ \A k \in DOMAIN s : s[k].from <= words[0]

(* HeapInv as a function of blocks, word 0 and HEAP_ADDR. *)
LEMMA HeapInvIs ==
  /\ HeapInv <=> (Sound => Bounded(heapBlocks, low, HEAP_ADDR) /\ HeapApart(heapBlocks))
  /\ HeapInv' <=> (Sound' => Bounded(heapBlocks', low', HEAP_ADDR') /\ HeapApart(heapBlocks'))
BY InUseIs DEF HeapInv, HeapBlocksApart, Sound, Bounded, HeapApart, End

(* A new block begins behind all that are in use. *)
LEMMA AllocateKeepsApart ==
  ASSUME HeapType, HeapInv, NEW bytes \in HeapAsks, allocate(bytes),
         met' = met \cup (IF Wraps(bytes) THEN {"wrapped"} ELSE {})
  PROVE  HeapInv'
<1> DEFINE n == Len(heapBlocks)
           new == [from |-> low[0] + HEAP_ADDR, bytes |-> bytes, freed |-> FALSE]
<1>1. SUFFICES ASSUME Sound'
               PROVE  Bounded(heapBlocks', low', HEAP_ADDR') /\ HeapApart(heapBlocks')
  BY HeapInvIs
<1>2. Sound /\ ~Wraps(bytes)
  BY <1>1 DEF Sound
<1>3. Bounded(heapBlocks, low, HEAP_ADDR) /\ HeapApart(heapBlocks)
  BY <1>2, HeapInvIs
<1>4. /\ bytes \in Nat /\ bytes * padding \in Nat /\ UInt \in Nat \ {0}
      /\ low \in [{0, 1} -> Nat] /\ low[0] \in Nat /\ HEAP_ADDR \in Nat
      /\ heapBlocks \in Seq(HeapBlock)
  BY AllocatorsAssumption, HeapAssumption, ProcAllocAssumption DEF HeapType
<1>5. low[0] + HEAP_ADDR \in 0 .. UInt - 1 /\ HEAP_ADDR + bytes * padding \in 0 .. UInt - 1
  BY <1>2, <1>4 DEF Wraps
<1>6. /\ (low[0] + HEAP_ADDR) % UInt = low[0] + HEAP_ADDR
      /\ (HEAP_ADDR + bytes * padding) % UInt = HEAP_ADDR + bytes * padding
  BY <1>4, <1>5, ModSmall
<1>7. /\ heapBlocks' = Append(heapBlocks, new)
      /\ low'[0] = low[0] + HEAP_ADDR /\ HEAP_ADDR' = HEAP_ADDR + bytes * padding
  <2>1. /\ heapBlocks' = Append(heapBlocks, new)
        /\ low' = [low EXCEPT ![0] = low[0] + HEAP_ADDR, ![1] = 1]
        /\ HEAP_ADDR' = HEAP_ADDR + bytes * padding
    BY <1>6 DEF allocate
  <2>2. low'[0] = low[0] + HEAP_ADDR
    BY <1>4, <2>1
  <2>3. QED
    BY <2>1, <2>2
<1>8. new \in HeapBlock /\ heapBlocks' \in Seq(HeapBlock)
  BY <1>4, <1>7 DEF HeapBlock
<1>9. /\ n \in Nat /\ Len(heapBlocks') = n + 1 /\ DOMAIN heapBlocks' = 1 .. n + 1
      /\ DOMAIN heapBlocks = 1 .. n
      /\ \A k \in 1 .. n : heapBlocks'[k] = heapBlocks[k]
      /\ heapBlocks'[n + 1] = new
  BY <1>4, <1>7, <1>8
<1>10. new.from = low[0] + HEAP_ADDR /\ new.bytes = bytes /\ ~new.freed
  OBVIOUS
<1> HIDE DEF n, new
<1>11. \A k \in 1 .. n : Room(heapBlocks)[k] \in Nat /\ Room(heapBlocks)[k] = Room(heapBlocks')[k]
  <2> SUFFICES ASSUME NEW k \in 1 .. n
               PROVE  Room(heapBlocks)[k] \in Nat /\ Room(heapBlocks)[k] = Room(heapBlocks')[k]
    OBVIOUS
  <2>1. k \in 1 .. n + 1
    BY <1>9
  <2>2. QED
    BY <1>4, <1>8, <1>9, <2>1, RoomType DEF n
<1>12. /\ SumTo(Room(heapBlocks), n) = SumTo(Room(heapBlocks'), n)
       /\ SumTo(Room(heapBlocks'), n + 1) = SumTo(Room(heapBlocks'), n) + bytes * padding
  <2>1. SumTo(Room(heapBlocks), n) = SumTo(Room(heapBlocks'), n)
    BY <1>9, <1>11, SumToSame
  <2>2. \A k \in 1 .. n + 1 : Room(heapBlocks')[k] \in Nat
    BY <1>8, <1>9, RoomType
  <2>3. SumTo(Room(heapBlocks'), n + 1) = SumTo(Room(heapBlocks'), n) + Room(heapBlocks')[n + 1]
    BY <1>9, <2>2, SumToNext
  <2>4. Room(heapBlocks')[n + 1] = bytes * padding
    <3>1. n + 1 \in DOMAIN heapBlocks'
      BY <1>9
    <3>2. QED
      BY <1>9, <1>10, <3>1 DEF Room
  <2>5. QED
    BY <2>1, <2>3, <2>4
<1>13. SumTo(Room(heapBlocks), n) \in Nat /\ SumTo(Room(heapBlocks), n) <= HEAP_ADDR
  BY <1>3, <1>4, RoomType DEF Bounded, n
<1>14. ASSUME NEW k \in DOMAIN heapBlocks'
       PROVE  heapBlocks'[k].from <= low'[0]
  <2>1. CASE k = n + 1
    BY <1>4, <1>7, <1>9, <1>10, <2>1
  <2>2. CASE k \in 1 .. n
    <3>1. heapBlocks[k].from <= low[0] /\ heapBlocks[k].from \in Nat
      BY <1>3, <1>4, <1>9, <2>2, RoomType DEF Bounded, n
    <3>2. QED
      BY <1>4, <1>7, <1>9, <2>2, <3>1
  <2>3. QED
    BY <1>9, <2>1, <2>2
<1>15. Bounded(heapBlocks', low', HEAP_ADDR')
  <2>1. SumTo(Room(heapBlocks'), n + 1) <= HEAP_ADDR'
    BY <1>4, <1>7, <1>12, <1>13
  <2>2. QED
    BY <1>9, <1>14, <2>1 DEF Bounded
<1>16. ASSUME NEW i \in 1 .. n, ~heapBlocks[i].freed PROVE End(heapBlocks[i]) <= new.from
  <2>1. /\ heapBlocks[i].from \in Nat /\ heapBlocks[i].bytes * padding \in Nat
        /\ Room(heapBlocks)[i] = heapBlocks[i].bytes * padding
        /\ \A k \in 1 .. n : Room(heapBlocks)[k] \in Nat
    BY <1>4, <1>16, RoomType DEF n
  <2>2. Room(heapBlocks)[i] <= SumTo(Room(heapBlocks), n)
    BY <1>9, <2>1, SumToBound
  <2>3. heapBlocks[i].from <= low[0]
    BY <1>3, <1>9 DEF Bounded
  <2>4. QED
    BY <1>4, <1>10, <1>13, <2>1, <2>2, <2>3 DEF End
<1>17. HeapApart(heapBlocks')
  <2> SUFFICES ASSUME NEW i \in 1 .. n + 1, NEW j \in 1 .. n + 1, i < j,
                      ~heapBlocks'[i].freed, ~heapBlocks'[j].freed
               PROVE  End(heapBlocks'[i]) <= heapBlocks'[j].from
    BY <1>9 DEF HeapApart
  <2>1. i \in 1 .. n /\ (j \in 1 .. n \/ j = n + 1)
    BY <1>9
  <2>2. QED
    BY <1>3, <1>9, <1>16, <2>1 DEF HeapApart
<1>18. QED
  BY <1>15, <1>17

(* free takes no more off HEAP_ADDR than the block had. *)
LEMMA FreeKeepsApart ==
  ASSUME HeapType, HeapInv, NEW k \in DOMAIN heapBlocks, free(k),
         met' = met \cup (IF heapBlocks[k].freed THEN {"twice"} ELSE {})
  PROVE  HeapInv'
<1> DEFINE n == Len(heapBlocks)
           size == heapBlocks[k].bytes * padding
<1>1. SUFFICES ASSUME Sound'
               PROVE  Bounded(heapBlocks', low', HEAP_ADDR') /\ HeapApart(heapBlocks')
  BY HeapInvIs
<1>2. Sound /\ ~heapBlocks[k].freed
  BY <1>1 DEF Sound
<1>3. Bounded(heapBlocks, low, HEAP_ADDR) /\ HeapApart(heapBlocks)
  BY <1>2, HeapInvIs
<1>4. /\ UInt \in Nat \ {0} /\ low \in [{0, 1} -> Nat] /\ HEAP_ADDR \in 0 .. UInt - 1
      /\ heapBlocks \in Seq(HeapBlock) /\ n \in Nat /\ DOMAIN heapBlocks = 1 .. n
  BY ProcAllocAssumption, RoomType DEF HeapType
<1>5. /\ heapBlocks' = [heapBlocks EXCEPT ![k].freed = TRUE]
      /\ \/ UNCHANGED <<HEAP_ADDR, low>>
         \/ HEAP_ADDR' = (HEAP_ADDR - size) % UInt /\ low' = [low EXCEPT ![1] = 0]
  BY DEF free
<1>6. /\ heapBlocks' \in Seq(HeapBlock) /\ Len(heapBlocks') = n /\ DOMAIN heapBlocks' = 1 .. n
      /\ heapBlocks'[k].freed
      /\ \A j \in 1 .. n : /\ heapBlocks'[j].from = heapBlocks[j].from
                           /\ heapBlocks'[j].bytes = heapBlocks[j].bytes
                           /\ j # k => heapBlocks'[j] = heapBlocks[j]
  <2>1. \A j \in 1 .. n : heapBlocks[j] \in HeapBlock
    BY <1>4
  <2>2. [heapBlocks[k] EXCEPT !.freed = TRUE] \in HeapBlock
    BY <1>4, <2>1 DEF HeapBlock
  <2>3. heapBlocks' \in Seq(HeapBlock) /\ Len(heapBlocks') = n /\ DOMAIN heapBlocks' = 1 .. n
    BY <1>4, <1>5, <2>2
  <2>4. /\ heapBlocks'[k] = [heapBlocks[k] EXCEPT !.freed = TRUE]
        /\ \A j \in 1 .. n : j # k => heapBlocks'[j] = heapBlocks[j]
    BY <1>4, <1>5
  <2>5. QED
    BY <1>4, <2>1, <2>3, <2>4 DEF HeapBlock
<1>7. low'[0] = low[0]
  BY <1>4, <1>5
<1> HIDE DEF n
<1>8. /\ \A j \in 1 .. n : Room(heapBlocks)[j] \in Nat /\ Room(heapBlocks')[j] \in Nat
                           /\ (j # k => Room(heapBlocks')[j] = Room(heapBlocks)[j])
      /\ Room(heapBlocks)[k] = size /\ Room(heapBlocks')[k] = 0
  <2>1. \A j \in 1 .. n :
          /\ Room(heapBlocks)[j] \in Nat
          /\ Room(heapBlocks)[j] =
               IF heapBlocks[j].freed THEN 0 ELSE heapBlocks[j].bytes * padding
    BY <1>4, RoomType DEF n
  <2>2. \A j \in 1 .. n :
          /\ Room(heapBlocks')[j] \in Nat
          /\ Room(heapBlocks')[j] =
               IF heapBlocks'[j].freed THEN 0 ELSE heapBlocks'[j].bytes * padding
    BY <1>6, RoomType
  <2>3. \A j \in 1 .. n : j # k => Room(heapBlocks')[j] = Room(heapBlocks)[j]
    <3> SUFFICES ASSUME NEW j \in 1 .. n, j # k
                 PROVE  Room(heapBlocks')[j] = Room(heapBlocks)[j]
      OBVIOUS
    <3>1. heapBlocks'[j] = heapBlocks[j]
      BY <1>6
    <3>2. QED
      BY <2>1, <2>2, <3>1
  <2>4. k \in 1 .. n
    BY <1>4
  <2>5. Room(heapBlocks)[k] = size
    BY <1>2, <2>1, <2>4
  <2>6. Room(heapBlocks')[k] = 0
    BY <1>6, <2>2, <2>4
  <2>7. QED
    BY <2>1, <2>2, <2>3, <2>5, <2>6
<1>9. SumTo(Room(heapBlocks'), n) + size = SumTo(Room(heapBlocks), n) + 0
  <2>1. SumTo(Room(heapBlocks'), n) + Room(heapBlocks)[k]
          = SumTo(Room(heapBlocks), n) + Room(heapBlocks')[k]
    <3> DEFINE v == Room(heapBlocks)
               w == Room(heapBlocks')
    <3>1. k \in 1 .. n /\ n \in Nat
      BY <1>4
    <3>2. \A j \in 1 .. n : v[j] \in Nat /\ w[j] \in Nat /\ (j # k => w[j] = v[j])
      BY <1>8
    <3> HIDE DEF v, w
    <3>3. SumTo(w, n) + v[k] = SumTo(v, n) + w[k]
      BY <3>1, <3>2, SumToChange
    <3>4. QED
      BY <3>3 DEF v, w
  <2>2. QED
    BY <1>8, <2>1
<1>10. /\ SumTo(Room(heapBlocks), n) \in Nat /\ SumTo(Room(heapBlocks'), n) \in Nat
       /\ SumTo(Room(heapBlocks), n) <= HEAP_ADDR /\ size \in Nat
  BY <1>3, <1>4, <1>6, RoomType DEF Bounded, n
<1> HIDE DEF size
<1>11. SumTo(Room(heapBlocks'), n) <= HEAP_ADDR'
  <2>1. HEAP_ADDR - size \in 0 .. UInt - 1
    BY <1>4, <1>9, <1>10
  <2>2. (HEAP_ADDR - size) % UInt = HEAP_ADDR - size
    BY <1>4, <2>1, ModSmall
  <2>3. HEAP_ADDR' = HEAP_ADDR \/ HEAP_ADDR' = HEAP_ADDR - size
    BY <1>5, <2>2 DEF size
  <2>4. QED
    BY <1>4, <1>9, <1>10, <2>3
<1>12. Bounded(heapBlocks', low', HEAP_ADDR')
  BY <1>3, <1>4, <1>6, <1>7, <1>11 DEF Bounded
<1>13. HeapApart(heapBlocks')
  <2> SUFFICES ASSUME NEW i \in 1 .. n, NEW j \in 1 .. n, i < j,
                      ~heapBlocks'[i].freed, ~heapBlocks'[j].freed
               PROVE  End(heapBlocks'[i]) <= heapBlocks'[j].from
    BY <1>6 DEF HeapApart
  <2>1. heapBlocks'[i] = heapBlocks[i] /\ heapBlocks'[j] = heapBlocks[j]
    BY <1>6
  <2>2. QED
    BY <1>3, <1>4, <2>1 DEF HeapApart
<1>14. QED
  BY <1>12, <1>13

(* Only the heap's own calls and map_page can disturb it. *)
LEMMA HeapInductive ==
  ASSUME TypeOK, HeapInv, [Next]_vars PROVE HeapInv'
<1>1. ASSUME UNCHANGED <<HEAP_ADDR, heapBlocks>>, met \subseteq met',
             Sound' => heapBlocks = <<>> \/ low'[0] = low[0]
      PROVE  HeapInv'
  <2>1. SUFFICES ASSUME Sound'
                 PROVE  Bounded(heapBlocks', low', HEAP_ADDR') /\ HeapApart(heapBlocks')
    BY HeapInvIs
  <2>2. Sound
    BY <1>1, <2>1 DEF Sound
  <2>3. Bounded(heapBlocks, low, HEAP_ADDR) /\ HeapApart(heapBlocks)
    BY <2>2, HeapInvIs
  <2>4. QED
    BY <1>1, <2>1, <2>3 DEF Bounded
<1>2. ASSUME NEW virt \in Virts, map_page(virt) PROVE HeapInv'
  <2>1. /\ UNCHANGED <<HEAP_ADDR, heapBlocks>>
        /\ met' = met \cup (IF heapBlocks # <<>> /\ low'[0] # low[0] THEN {"word 0"} ELSE {})
    BY <1>2 DEF map_page, heapVars
  <2>2. Sound' => heapBlocks = <<>> \/ low'[0] = low[0]
    BY <2>1 DEF Sound
  <2>3. QED
    BY <1>1, <2>1, <2>2
<1>3. ASSUME NEW type \in HeapTypes, init_heap_bitmap(type) PROVE HeapInv'
  <2>1. UNCHANGED <<HEAP_ADDR, heapBlocks, low, met>>
    BY <1>3 DEF init_heap_bitmap, HeapBitmapAt
  <2>2. QED
    BY <1>1, <2>1
<1>4. CASE HeapCall
  <2>1. HeapType
    BY DEF TypeOK
  <2>2. QED
    BY <1>4, <2>1, AllocateKeepsApart, FreeKeepsApart DEF HeapCall
<1>5. ASSUME \/ Bumps \/ BringUp \/ Overrun \/ SetPageDir \/ UNCHANGED vars
             \/ \E c \in Clients : Free(c) \/ Assign(c) \/ \E blocks \in Asks : Alloc(c, blocks)
             \/ \E e \in Pages : alloc_page(e) \/ FreePage(e)
      PROVE  HeapInv'
  <2>1. UNCHANGED <<HEAP_ADDR, heapBlocks, low>> /\ met \subseteq met'
    BY <1>5 DEF Bumps, BringUp, Overrun, SetPageDir, vars, Free, Assign, Alloc, alloc_page,
                FreePage, Kernel, heapVars
  <2>2. QED
    BY <1>1, <2>1
<1>6. QED
  BY <1>2, <1>3, <1>4, <1>5 DEF Next

(* Blocks of the heap that are in use never overlap, whichever of them are    *)
(* freed and in which order (heap.h:78-109, virtual_mem.h:114-139).           *)
THEOREM HeapBlocksApartCorrect == Spec => []HeapBlocksApart
<1>1. Init => HeapInv
  <2> SUFFICES ASSUME Init PROVE HeapInv
    OBVIOUS
  <2>1. heapBlocks = <<>> /\ HEAP_ADDR \in Nat
    BY HeapAssumption, ProcAllocAssumption DEF Init, HeapInit
  <2>2. SumTo(Room(<<>>), Len(<<>>)) = 0
    BY SumToZero
  <2>3. Bounded(heapBlocks, low, HEAP_ADDR) /\ HeapApart(heapBlocks)
    BY <2>1, <2>2 DEF Bounded, HeapApart
  <2>4. QED
    BY <2>3, HeapInvIs
<1>2. HeapInv => HeapBlocksApart
  BY DEF HeapInv
<1>3. QED
  BY <1>1, <1>2, HeapInductive, TypeCorrect, PTL DEF Spec

=============================================================================
