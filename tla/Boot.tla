--------------------------------- MODULE Boot ---------------------------------
(***************************************************************************)
(* The boot path: boot.s loads the disk image, second_stage.s records the  *)
(* E820 memory map, picks a video mode and enters protected mode, and      *)
(* kernel_main prints three numbers and stops (kernel.c:22-40).  One       *)
(* process; a BIOS call is one step and may fail where the code tests it.  *)
(* The BIOS's answers are external: a list of E820 entries whose last one  *)
(* comes with ebx = 0, a list of video modes.                              *)
(*                                                                         *)
(* Memory is counted in units of 512 bytes, the disk in sectors.           *)
(***************************************************************************)
EXTENDS Integers, Sequences, FiniteSets

CONSTANTS
  Smaps,   \* the E820 lists considered: sequences over Entries
  Modes,   \* the mode lists considered: sequences over Mode
  Mode     \* video modes, each [num, fits]

(* An entry of the memory map: an identity, whether its length is zero and    *)
(* whether the BIOS reports (in cx) to have stored anything at all.           *)
Entries == [id : Nat, empty : BOOLEAN, stored : BOOLEAN]
Useful(entry) == entry.stored /\ ~entry.empty

ASSUME BootAssumption ==
  /\ Smaps \subseteq Seq(Entries) \ {<<>>}
  /\ Modes \subseteq Seq(Mode)
  /\ \A m \in Mode : m.fits \in BOOLEAN

VARIABLES
  pc,
  mem,    \* unit of memory -> sector of the disk loaded there, or 0
  smap,   \* the BIOS's memory map
  asked,  \* entries of it handed out
  table,  \* what lies at 0x8504, by slot of 24 bytes
  bp,     \* slots kept; di is 0x8504 + 24 * bp
  modes,  \* the BIOS's video modes
  si,     \* the next of them
  mode,   \* [mode], the last number read
  info,   \* mode_info_block: the mode it describes
  video,  \* the mode the display is in
  vib,    \* the copy at 0x4000 that the kernel uses
  failed  \* history: a BIOS call has reported an error

disk == <<mem>>
e820 == <<asked, table, bp>>
vbe == <<si, mode, info, video, vib>>
vars == <<pc, disk, smap, e820, modes, vbe, failed>>

(* A definition X_... just above a definition X is a faulty variant of it     *)
(* that the code does not contain: the properties must tell the two apart.    *)

-----------------------------------------------------------------------------
(* The Makefile's image, in sectors: boot, second stage, font, picture,       *)
(* kernel.                                                                    *)
Parts == [second_stage |-> 2 .. 5, font |-> 6 .. 9, picture |-> 10 .. 11,
          kernel |-> 12 .. 24]

(* Where the code expects them: org and jmp of the second stage, FONT,        *)
(* BMP_HDR_ADDR, and .text of kernel.ld.                                      *)
Place == [second_stage |-> 8, font |-> 72, picture |-> 104, kernel |-> 120]
FirstOf(part) == CHOOSE s \in Parts[part] : \A t \in Parts[part] : s <= t

(* The four int 0x13 calls: where to, how many sectors, from which one.       *)
KernelSector_OffByOne == 13
KernelSector == 12
Reads ==
  << [to |-> 8,   count |-> 4,  from |-> 2],
     [to |-> 72,  count |-> 6,  from |-> 6],
     [to |-> 104, count |-> 2,  from |-> 10],
     [to |-> 120, count |-> 16, from |-> KernelSector] >>

NoMode == [num |-> 0, fits |-> FALSE]
NoEntry == [id |-> 0, empty |-> TRUE, stored |-> FALSE]

Init ==
  /\ pc = [at |-> "read", n |-> 1]
  /\ mem = [u \in 0 .. 159 |-> 0]
  /\ smap \in Smaps
  /\ asked = 0
  /\ table = [k \in 0 .. Len(smap) |-> NoEntry]
  /\ bp = 0
  /\ modes \in Modes
  /\ si = 1
  /\ mode = NoMode /\ info = NoMode /\ video = NoMode /\ vib = NoMode
  /\ failed = FALSE

At(where) == pc.at = where
Go(where) == pc' = [pc EXCEPT !.at = where]

-----------------------------------------------------------------------------
(* boot.s: a read, with its test of the carry.  After the last one it sets    *)
(* text mode and jumps to 0x1000.                                             *)
LastRead == pc.n = Len(Reads)

ReadSectors ==
  /\ At("read")
  /\ LET r == Reads[pc.n] IN
     mem' = [u \in DOMAIN mem |->
               IF u \in r.to .. r.to + r.count - 1 THEN r.from + (u - r.to) ELSE mem[u]]
  /\ pc' = IF LastRead THEN [pc EXCEPT !.at = "get_mem_map"]
                                ELSE [pc EXCEPT !.n = pc.n + 1]
  /\ UNCHANGED <<smap, e820, modes, vbe, failed>>

(* A BIOS call reports an error where the code tests for one: a letter or a   *)
(* message on the screen, cli, hlt.                                           *)
Fail ==
  /\ \/ At("read") \/ At("get_mem_map") \/ At("setup_vesa")
     \/ At("mode_info") \/ At("set_mode")
  /\ Go("halted")
  /\ failed' = TRUE
  /\ UNCHANGED <<disk, smap, e820, modes, vbe>>

-----------------------------------------------------------------------------
(* int 0x15: the next entry goes to es:di, whatever the code makes of it.     *)
Ask ==
  /\ asked' = asked + 1
  /\ table' = [table EXCEPT ![bp] = IF smap[asked'].stored THEN smap[asked'] ELSE @]
LastAsked == asked = Len(smap)

(* The first call: a map that ends here counts as an error.                   *)
FirstEntry ==
  /\ At("get_mem_map")
  /\ Ask
  /\ Go(IF Len(smap) = 1 THEN "halted" ELSE "start")
  /\ UNCHANGED <<disk, smap, bp, modes, vbe, failed>>

(* .next_entry, where the carry is not tested.                                *)
NextEntry ==
  /\ At("next_entry")
  /\ Ask
  /\ Go("start")
  /\ UNCHANGED <<disk, smap, bp, modes, vbe, failed>>

(* .start: jcxz, the test of the length, inc bp and add di; .skip.            *)
Keep_Stored(entry) == entry.stored
Keep(entry) == entry.stored /\ ~entry.empty

Start ==
  /\ At("start")
  /\ bp' = IF Keep(smap[asked]) THEN bp + 1 ELSE bp
  /\ Go(IF LastAsked THEN "setup_vesa" ELSE "next_entry")
  /\ UNCHANGED <<disk, smap, asked, table, modes, vbe, failed>>

-----------------------------------------------------------------------------
SetupVesa ==
  /\ At("setup_vesa")
  /\ Go("find_mode")
  /\ UNCHANGED <<disk, smap, e820, modes, vbe, failed>>

(* find_mode: the next number of the list, or its end: 'N', cli, hlt.         *)
NextMode_Same(k) == k
NextMode(k) == k + 1

FindMode ==
  /\ At("find_mode")
  /\ IF si <= Len(modes)
       THEN mode' = modes[si] /\ si' = NextMode(si) /\ Go("mode_info")
       ELSE UNCHANGED <<mode, si>> /\ Go("halted")
  /\ UNCHANGED <<disk, smap, e820, modes, info, video, vib, failed>>

(* int 0x10, ax = 0x4F01, then the tests of width, height and depth.          *)
ModeInfo ==
  /\ At("mode_info")
  /\ info' = mode
  /\ Go(IF mode.fits THEN "set_mode" ELSE "find_mode")
  /\ UNCHANGED <<disk, smap, e820, modes, si, mode, video, vib, failed>>

(* int 0x10, ax = 0x4F02; enter_pm_mode; init_pm copies mode_info_block to    *)
(* 0x4000 and jumps to 0xF000.                                                *)
CopiedInfo_Stale == vib
CopiedInfo == info
SetMode ==
  /\ At("set_mode")
  /\ video' = mode
  /\ vib' = CopiedInfo
  /\ Go("kernel_main")
  /\ UNCHANGED <<disk, smap, e820, modes, si, mode, info, failed>>

(* kernel_main prints what it finds at 0xD006, 0xD00A and 0xD00E, and stops.  *)
KernelMain ==
  /\ At("kernel_main")
  /\ Go("kernel_halted")
  /\ UNCHANGED <<disk, smap, e820, modes, vbe, failed>>

Next ==
  \/ ReadSectors \/ Fail
  \/ FirstEntry \/ NextEntry \/ Start
  \/ SetupVesa \/ FindMode \/ ModeInfo \/ SetMode
  \/ KernelMain

(* The processor executes the next instruction. *)
Spec == Init /\ [][Next]_vars /\ WF_vars(Next)

-----------------------------------------------------------------------------
InKernel == pc.at \in {"kernel_main", "kernel_halted"}

(* The types.  At most one slot is kept for each entry handed out, and si     *)
(* never passes the end of the mode list (second_stage.s:36, 86-92).          *)
TypeOK ==
  /\ pc.at \in {"read", "get_mem_map", "start", "next_entry", "setup_vesa",
                "find_mode", "mode_info", "set_mode", "kernel_main",
                "kernel_halted", "halted"}
  /\ pc.n \in DOMAIN Reads
  /\ \A u \in DOMAIN mem : mem[u] \in 0 .. 32
  /\ asked \in 0 .. Len(smap) /\ bp \in 0 .. asked
  /\ si \in 1 .. Len(modes) + 1

(* When the second stage starts, every part of the image is where the code    *)
(* that uses it looks, although the reads take more sectors than the parts    *)
(* have: no read has overwritten what an earlier one loaded (boot.s:15-65,    *)
(* Makefile:13-16, kernel.ld, util.h:158, kernel.c:9).                        *)
ImageInPlace ==
  ~At("read") /\ ~failed =>
    \A part \in DOMAIN Parts : \A s \in Parts[part] :
      mem[Place[part] + (s - FirstOf(part))] = s

(* How many of the BIOS's first n entries are worth a slot. *)
UsefulUpTo(n) == Cardinality({k \in 1 .. n : Useful(smap[k])})

(* The count stored at 0x8500 is that of the BIOS's entries that have a       *)
(* length, and the slots at 0x8504 hold them in their order, one next to the  *)
(* other, although an entry to be skipped is written over the slot of the     *)
(* next one (second_stage.s:25-51).                                           *)
MapRecorded ==
  pc.at \in {"setup_vesa", "find_mode", "mode_info", "set_mode"} \/ InKernel =>
    /\ bp = UsefulUpTo(Len(smap))
    /\ \A k \in DOMAIN smap : Useful(smap[k]) => table[UsefulUpTo(k) - 1] = smap[k]

FirstFit(list) == CHOOSE k \in DOMAIN list :
                    list[k].fits /\ \A j \in 1 .. k - 1 : ~list[j].fits

(* The kernel draws in the mode that is set: its information block describes  *)
(* that mode and no other, and it is the first of the list that fits          *)
(* (second_stage.s:85-123, 166-170; util.h:93).                               *)
KernelSeesMode == InKernel => vib = video /\ video = modes[FirstFit(modes)]

(* The kernel is reached unless a call fails, no mode fits, or the memory map *)
(* has a single entry, which the code takes for an error.                     *)
BootsIfItCan ==
  <>(InKernel \/ failed \/ Len(smap) = 1 \/ \A k \in DOMAIN modes : ~modes[k].fits)

=============================================================================
