----------------------------- MODULE Allocators -----------------------------
(***************************************************************************)
(* The allocators of the kernel together: clients that use m_alloc, m_free *)
(* and assign_value, the heap and the page tables, which use m_alloc too   *)
(* and meet at address 0.  The bump allocators share nothing with these;   *)
(* a behaviour has either (part).                                          *)
(*                                                                         *)
(* The model ends where all_processes is left or a pointer is wild.        *)
(***************************************************************************)
EXTENDS Bump, Heap, VirtualMem, SequencesExt, Sums

CONSTANTS
  MemSize, UsableBase, UsableSize, KernelBase, KernelSize,   \* for the regions
  Clients, Asks,       \* who calls m_alloc, and for how many blocks
  HeapTypes, HeapAsks, \* for init_heap_bitmap; in bytes, for allocate
  Virts,               \* the pages that are mapped
  MaxCalls             \* bound: calls in a behaviour

ASSUME AllocatorsAssumption ==
  /\ {MemSize, UsableBase, UsableSize, KernelBase, KernelSize, MaxCalls} \subseteq Nat
  /\ Clients \cap {"kernel", "page"} = {}
  /\ Asks \cup HeapTypes \cup HeapAsks \cup Virts \subseteq Nat

VARIABLES
  part,      \* "bump" or "blocks"
  pc,        \* of bring-up; then "serve"; "overrun"
  calls,
  handle,    \* client -> its copy of an MProcess, from its first m_alloc on
  live,      \* the processes granted and not freed, oldest first, and whose they are
  assigned,  \* something has been written into a process
  met        \* what callers have done that is not right

vars == <<bumpVars, procVars, low, heapVars, vmVars, part, pc, calls, handle, live,
          assigned, met>>

Init ==
  /\ BumpInit /\ ProcInit /\ HeapInit /\ VmInit
  /\ low \in {[w \in {0, 1} |-> 0], [w \in {0, 1} |-> 3]}
  /\ part \in {"bump", "blocks"}
  /\ pc = "init_mem"
  /\ calls = 0 /\ handle = <<>> /\ live = <<>> /\ assigned = FALSE /\ met = {}

Kernel == \* all that bring-up and the bump allocators leave alone
  UNCHANGED <<low, heapVars, vmVars, part, handle, live, assigned, met>>

Bumps ==
  /\ part = "bump" /\ calls < MaxCalls /\ calls' = calls + 1
  /\ BumpNext
  /\ UNCHANGED procVars /\ Kernel /\ UNCHANGED pc

BringUp ==
  /\ part = "blocks"
  /\ \/ pc = "init_mem" /\ init_mem(MemSize) /\ pc' = "init_region"
     \/ pc = "init_region" /\ init_region(UsableBase, UsableSize) /\ pc' = "deinit_region"
     \/ pc = "deinit_region" /\ deinit_region(KernelBase, KernelSize) /\ pc' = "serve"
  /\ UNCHANGED <<bumpVars, calls>> /\ Kernel

Call ==
  /\ part = "blocks" /\ pc = "serve" /\ calls < MaxCalls
  /\ calls' = calls + 1
  /\ UNCHANGED bumpVars /\ UNCHANGED part

-----------------------------------------------------------------------------
Entry(who, blocks) == [by |-> who, pID |-> curr_pID, size |-> blocks]
LiveWith(who, blocks, first, others) ==
  IF first = -1 THEN others ELSE Append(others, Entry(who, blocks))

(* Each but the kernel has at most one. *)
Of(who) == {k \in DOMAIN live : live[k].by = who}
Without(who) == IF Of(who) = {} THEN live ELSE RemoveAt(live, CHOOSE k \in Of(who) : TRUE)

(* What is wrong with freeing this process: it is not the caller's, but the   *)
(* process 0 that a refusal returned, or empty; or it is not the newest.      *)
Wrong(who, process) ==
  IF Of(who) = {}
  THEN IF process.allocation_size > 0 THEN {"borrowed"} ELSE {"empty"}
  ELSE IF Last(live).by = who THEN {} ELSE {"order"}

Alloc(c, blocks) ==
  /\ Call
  /\ Of(c) = {}
  /\ \E first \in Found(blocks) :
       /\ m_alloc(blocks, first)
       /\ handle' = [h \in DOMAIN handle \cup {c} |->
                        IF h = c THEN Returned(blocks, first) ELSE handle[h]]
       /\ live' = LiveWith(c, blocks, first, live)
  /\ UNCHANGED <<low, heapVars, vmVars, pc, assigned, met>>

Free(c) ==
  /\ Call
  /\ c \in DOMAIN handle
  /\ m_free(handle[c])
  /\ handle' = [handle EXCEPT ![c] = Freed]
  /\ live' = Without(c)
  /\ met' = met \cup Wrong(c, handle[c])
  /\ UNCHANGED <<low, heapVars, vmVars, pc, assigned>>

Assign(c) ==
  /\ Call
  /\ c \in DOMAIN handle
  /\ assign_value(handle[c])
  /\ handle' = [handle EXCEPT ![c] = Assigned(@)]
  /\ assigned' = TRUE
  /\ UNCHANGED <<low, heapVars, vmVars, pc, live, met>>

init_heap_bitmap(type) ==
  /\ Call
  /\ \E first \in Found(type) :
       /\ m_alloc(type, first)
       /\ HeapBitmapAt(IF first = -1 THEN "wild" ELSE "nulls")
       /\ live' = LiveWith("kernel", type, first, live)
  /\ UNCHANGED <<low, vmVars, pc, handle, assigned, met>>

(* Processes share their memory with the table of the heap: once one has been *)
(* written to, its pointers are wild.                                         *)
HeapCall ==
  /\ Call /\ ~assigned
  /\ \/ \E bytes \in HeapAsks :
          allocate(bytes) /\ met' = met \cup (IF Wraps(bytes) THEN {"wrapped"} ELSE {})
     \/ \E k \in DOMAIN heapBlocks :
          free(k) /\ met' = met \cup (IF heapBlocks[k].freed THEN {"twice"} ELSE {})
  /\ UNCHANGED <<procVars, vmVars, pc, handle, live, assigned>>

-----------------------------------------------------------------------------
(* The process of the page before is not freed, only forgotten.               *)
Forgotten == [k \in DOMAIN live |->
                IF live[k].by = "page" THEN [live[k] EXCEPT !.by = "kernel"] ELSE live[k]]

alloc_page(e) ==
  /\ Call
  /\ \E first \in Found(1) :
       /\ m_alloc(1, first)
       /\ PageFrom(e, Returned(1, first))
       /\ live' = LiveWith("page", 1, first, Forgotten)
  /\ UNCHANGED <<low, heapVars, pc, handle, assigned, met>>

FreePage(e) ==
  /\ Call
  /\ free_page(e)
  /\ live' = IF HasAddress(e) THEN Without("page") ELSE live
  /\ met' = met \cup (IF HasAddress(e) THEN Wrong("page", allocations) ELSE {})
  /\ UNCHANGED <<low, heapVars, pc, handle, assigned>>

map_page(virt) ==
  /\ Call
  /\ \/ MapInTable(virt) /\ UNCHANGED procVars /\ UNCHANGED live
     \/ \E first \in Found(1) :
          /\ m_alloc(1, first)
          /\ MapNewTable(virt, Returned(1, first))
          /\ live' = LiveWith("kernel", 1, first, live)
  /\ met' = met \cup (IF heapBlocks # <<>> /\ low'[0] # low[0] THEN {"word 0"} ELSE {})
  /\ UNCHANGED <<heapVars, pc, handle, assigned>>

SetPageDir ==
  /\ Call /\ set_page_dir
  /\ UNCHANGED <<procVars, low, heapVars, pc, handle, live, assigned, met>>

(* A grant for which all_processes has no slot. *)
Overrun ==
  /\ Call
  /\ curr_pID \notin 0 .. Slots - 1
  /\ \E blocks \in Asks \cup HeapTypes \cup {1} : Found(blocks) # {-1}
  /\ pc' = "overrun"
  /\ UNCHANGED procVars /\ Kernel

Next ==
  \/ Bumps \/ BringUp \/ Overrun
  \/ \E c \in Clients : Free(c) \/ Assign(c) \/ \E blocks \in Asks : Alloc(c, blocks)
  \/ \E type \in HeapTypes : init_heap_bitmap(type)
  \/ HeapCall
  \/ \E e \in Pages : alloc_page(e) \/ FreePage(e)
  \/ \E virt \in Virts : map_page(virt)
  \/ SetPageDir

Spec == Init /\ [][Next]_vars

-----------------------------------------------------------------------------
(* The types: processes and blocks of the heap keep their shape, handles are *)
(* the clients', and the bump allocators run in behaviours of their own.     *)
Process == [occupied : {0, 1}, pID : Nat, address : Nat, allocation_size : Nat,
            allocation_used : Nat]
Owned == [by : Clients \cup {"kernel", "page"}, pID : Nat, size : Nat]
HeapBlock == [from : Nat, bytes : Nat, freed : BOOLEAN]

PhaseType ==
  /\ part = "bump" => pc = "init_mem"
  /\ pc \in {"init_mem", "init_region", "deinit_region", "serve", "overrun"}

ProcType ==
  /\ memory_map \subseteq Nat
  /\ max_blocks \in Nat /\ used_blocks \in Nat /\ total_allocated \in Nat
  /\ all_processes \in [0 .. Slots - 1 -> Process] /\ curr_pID \in 0 .. UInt - 1

HeapType ==
  /\ low \in [{0, 1} -> Nat]
  /\ HEAP_ADDR \in 0 .. UInt - 1 /\ heap_index \in Nat
  /\ heap_bitmap \in {"unset", "nulls", "wild"}
  /\ heapBlocks \in Seq(HeapBlock)

HolderType ==
  /\ allocations \in Process
  /\ DOMAIN handle \subseteq Clients /\ \A c \in DOMAIN handle : handle[c] \in Process
  /\ live \in Seq(Owned)

TypeOK == PhaseType /\ ProcType /\ HeapType /\ HolderType

(* Who holds a process: everybody but the kernel one at most, and the copy    *)
(* that will be passed to m_free is as large as the process.                  *)
HoldersInv ==
  /\ \A j, k \in DOMAIN live : live[j].by = live[k].by /\ live[j].by # "kernel" => j = k
  /\ \A k \in DOMAIN live :
       /\ live[k].by \in Clients => /\ live[k].by \in DOMAIN handle
                                    /\ handle[live[k].by].allocation_size = live[k].size
       /\ live[k].by = "page" => allocations.allocation_size = live[k].size

(* The counters are what the holders of processes have, whatever they freed   *)
(* and in which order, twice even, as long as nobody frees the process that   *)
(* a refusal returned (xxtra.c:146-212, virtual_mem.h:64-139).                *)
Held == SumTo([k \in DOMAIN live |-> live[k].size], Len(live))

CountersMatch ==
  LET held == Held
      start == MemSize \div BLOCK_SIZE - UsableSize \div BLOCK_SIZE + KernelSize \div BLOCK_SIZE
  IN pc \in {"serve", "overrun"} /\ "borrowed" \notin met =>
       /\ used_blocks = (start + held) % UInt
       /\ total_allocated = held % UInt

CountersInv ==
  LET blocks(bytes) == bytes \div BLOCK_SIZE
  IN /\ pc \notin {"serve", "overrun"} => live = <<>> /\ total_allocated = 0
     /\ pc = "init_region" => used_blocks = blocks(MemSize)
     /\ pc = "deinit_region" => used_blocks = (blocks(MemSize) - blocks(UsableSize)) % UInt
     /\ CountersMatch

(* Processes that are alive have slots of their own, in the order of their    *)
(* ages, as long as the newest is freed first: m_free does not look whose     *)
(* slot it gives back (xxtra.c:176-183, 203-211).                             *)
SlotsDistinct ==
  met \cap {"borrowed", "empty", "order"} = {} =>
    curr_pID = Len(live) /\ \A k \in DOMAIN live : live[k].pID = k - 1

(* The table overflows only when all its processes are alive, or somebody has *)
(* freed what was not his (util.h:82-84, xxtra.c:176).                        *)
SlotsSuffice ==
  pc = "overrun" => Len(live) = Slots \/ met \cap {"borrowed", "empty"} # {}

SlotsInv ==
  /\ met \cap {"borrowed", "empty"} = {} => curr_pID = Len(live) /\ Len(live) <= Slots
  /\ SlotsDistinct
  /\ SlotsSuffice

(* Blocks of the heap that are in use never overlap, though every one of them *)
(* has the same outline and free lowers HEAP_ADDR whichever block it is given *)
(* -- unless a block is freed twice, map_page has written over the outline, or *)
(* an address has wrapped around (heap.h:78-109, virtual_mem.h:114-139).      *)
HeapBlocksApart ==
  met \cap {"twice", "word 0", "wrapped"} = {} =>
    \A i, j \in {k \in DOMAIN heapBlocks : ~heapBlocks[k].freed} :
      i < j => End(heapBlocks[i]) <= heapBlocks[j].from

(* HEAP_ADDR is never less than what is in use, whatever free has taken off   *)
(* it, so that a new block begins behind them all.                            *)
InUse == SumTo([k \in DOMAIN heapBlocks |->
                  IF heapBlocks[k].freed THEN 0 ELSE heapBlocks[k].bytes * padding],
               Len(heapBlocks))

HeapInv ==
  /\ met \cap {"twice", "word 0", "wrapped"} = {} =>
       /\ InUse <= HEAP_ADDR
       /\ \A k \in DOMAIN heapBlocks : heapBlocks[k].from <= low[0]
  /\ HeapBlocksApart

=============================================================================
