----------------------------- MODULE VirtualMem -----------------------------
(***************************************************************************)
(* virtual_mem.h.  SET_FRAME clears the frame of an entry and puts nothing *)
(* in its place.  So a directory entry that map_page has filled leads to   *)
(* address 0, and the table it then writes to is the memory from there on, *)
(* of which this module has the first two words (low).                     *)
(***************************************************************************)
EXTENDS ProcAlloc

CONSTANTS
  Pages,         \* the entries that callers pass to alloc_page and free_page
  EntryKinds,    \* what these may be before: sets of "present", "frame", "global"
  PAGE_SIZE,     \* 4096
  PAGES_PER_TABLE

ASSUME VirtualMemAssumption ==
  /\ PAGE_SIZE \in Nat \ {0} /\ PAGES_PER_TABLE \in Nat \ {0}
  /\ EntryKinds \subseteq SUBSET {"present", "frame", "global"}

VARIABLES
  page,          \* entry -> its bits
  allocations,   \* the process of the last alloc_page
  current_dir,   \* whether there is one
  dir            \* its entries that are present

vmVars == <<page, allocations, current_dir, dir>>

VmInit ==
  /\ page \in [Pages -> EntryKinds]
  /\ allocations = NoProcess
  /\ current_dir = FALSE
  /\ dir = {}

PD_INDEX(address) == address \div (PAGE_SIZE * PAGES_PER_TABLE)
PT_INDEX(address) == (address \div PAGE_SIZE) % PAGES_PER_TABLE

(* SET_ATTRIB(present) and SET_FRAME on a word; its highest bit is left out. *)
Entered(word) == IF (word % PAGE_SIZE) % 2 = 0 THEN (word % PAGE_SIZE) + 1 ELSE word % PAGE_SIZE

(* alloc_page, once m_alloc has returned p.                                  *)
PageFrom(e, p) ==
  /\ page' = [page EXCEPT ![e] = (@ \ {"frame"}) \cup {"present"}]
  /\ allocations' = p
  /\ UNCHANGED <<current_dir, dir>>

(* PAGE_PHYS_ADDR keeps bits 8 to 11: a global page has an address.          *)
HasAddress(e) == page[e] \cap {"frame", "global"} # {}

free_page(e) ==
  /\ page' = [page EXCEPT ![e] = @ \ {"present"}]
  /\ IF HasAddress(e)
     THEN m_free(allocations) /\ allocations' = Freed
     ELSE UNCHANGED procVars /\ UNCHANGED allocations
  /\ UNCHANGED <<current_dir, dir>>

set_page_dir ==
  /\ current_dir' = TRUE
  /\ UNCHANGED <<page, allocations, dir>>

(* The end of map_page, for every page: its entry in the table at 0.          *)
EnterPage(words, virt) ==
  low' = IF PT_INDEX(virt) \in {0, 1}
         THEN [words EXCEPT ![PT_INDEX(virt)] = Entered(@)] ELSE words

(* memset of a new table. *)
Blanked(table) == IF table = 0 THEN [w \in {0, 1} |-> 0] ELSE low

(* map_page with the directory entry there, and without it, where m_alloc     *)
(* has returned p.                                                            *)
MapInTable(virt) ==
  /\ current_dir /\ PD_INDEX(virt) \in dir
  /\ EnterPage(low, virt)
  /\ UNCHANGED vmVars

MapNewTable(virt, p) ==
  /\ current_dir /\ PD_INDEX(virt) \notin dir
  /\ dir' = dir \cup {PD_INDEX(virt)}
  /\ EnterPage(Blanked(p.address), virt)
  /\ UNCHANGED <<page, allocations, current_dir>>
=============================================================================
