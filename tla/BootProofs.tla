----------------------------- MODULE BootProofs -----------------------------
(***************************************************************************)
(* Proofs about Boot, for every memory map and every list of modes: no     *)
(* index leaves its list, the image lies where the code looks for it, the  *)
(* memory map is recorded whole and in order, and the kernel is told of    *)
(* the mode that is set.                                                   *)
(***************************************************************************)
EXTENDS Boot, FiniteSetTheorems, TLAPS

Labels == {"read", "get_mem_map", "start", "next_entry", "setup_vesa", "find_mode",
           "mode_info", "set_mode", "kernel_main", "kernel_halted", "halted"}

(* The types, with what a step needs of the values that never change.         *)
TypeInv ==
  /\ pc \in [at : Labels, n : 1 .. 4]
  /\ smap \in Seq(Entries) /\ Len(smap) >= 1
  /\ modes \in Seq(Mode)
  /\ mem \in [0 .. 159 -> 0 .. 32]
  /\ asked \in 0 .. Len(smap) /\ bp \in 0 .. asked
  /\ si \in 1 .. Len(modes) + 1

(* How far get_mem_map is: nothing is asked before it starts, .start has an   *)
(* entry at hand that it has not counted, .next_entry has one left to ask.    *)
AskedInv ==
  /\ pc.at \in {"read", "get_mem_map"} => asked = 0
  /\ pc.at = "start" => bp < asked
  /\ pc.at = "next_entry" => asked < Len(smap)

(* What the first n reads of boot.s leave in memory: none of them reaches     *)
(* into what another one loaded.                                              *)
Loaded(m, n) ==
  /\ n >= 1 => \A u \in 8 .. 11 : m[u] = u - 6
  /\ n >= 2 => \A u \in 72 .. 77 : m[u] = u - 66
  /\ n >= 3 => \A u \in 104 .. 105 : m[u] = u - 94
  /\ n >= 4 => \A u \in 120 .. 135 : m[u] = u - 108
LoadedInv ==
  /\ pc.at = "read" => Loaded(mem, pc.n - 1)
  /\ pc.at # "read" /\ ~failed => Loaded(mem, 4)

(* Where the search for a mode stands: the modes before the one looked at do  *)
(* not fit; the one that is set does, and its block is the last one read.     *)
NoneBefore(k) == \A j \in 1 .. k - 1 : ~modes[j].fits
ModeInv ==
  /\ pc.at \in {"read", "get_mem_map", "start", "next_entry", "setup_vesa"} => si = 1
  /\ pc.at = "find_mode" => NoneBefore(si)
  /\ pc.at \in {"mode_info", "set_mode"} =>
       /\ si - 1 \in 1 .. Len(modes)
       /\ mode = modes[si - 1]
       /\ NoneBefore(si - 1)
  /\ pc.at = "set_mode" => info = mode /\ mode.fits
  /\ InKernel =>
       /\ si - 1 \in 1 .. Len(modes)
       /\ vib = video /\ video = modes[si - 1]
       /\ video.fits /\ NoneBefore(si - 1)

IInv == TypeInv /\ AskedInv /\ LoadedInv /\ ModeInv

-----------------------------------------------------------------------------
(* What the four reads are, spelled out.                                      *)
LEMMA ReadsAre ==
  /\ DOMAIN Reads = 1 .. 4 /\ Len(Reads) = 4
  /\ Reads[1] = [to |-> 8, count |-> 4, from |-> 2]
  /\ Reads[2] = [to |-> 72, count |-> 6, from |-> 6]
  /\ Reads[3] = [to |-> 104, count |-> 2, from |-> 10]
  /\ Reads[4] = [to |-> 120, count |-> 16, from |-> 12]
BY DEF Reads, KernelSector

(* One read more, on any memory.                                              *)
LEMMA LoadStep ==
  ASSUME NEW m, NEW m2, NEW n \in 1 .. 4, Loaded(m, n - 1),
         \A u \in 0 .. 159 :
           m2[u] = IF u \in Reads[n].to .. Reads[n].to + Reads[n].count - 1
                     THEN Reads[n].from + (u - Reads[n].to) ELSE m[u]
  PROVE  Loaded(m2, n)
<1>1. CASE n = 1
  <2>1. \A u \in 0 .. 159 : m2[u] = IF u \in 8 .. 11 THEN u - 6 ELSE m[u]
    BY <1>1, ReadsAre
  <2>2. Loaded(m, 0)
    BY <1>1
  <2>3. Loaded(m2, 1)
    BY <2>1, <2>2 DEF Loaded
  <2> QED BY <1>1, <2>3
<1>2. CASE n = 2
  <2>1. \A u \in 0 .. 159 : m2[u] = IF u \in 72 .. 77 THEN u - 66 ELSE m[u]
    BY <1>2, ReadsAre
  <2>2. Loaded(m, 1)
    BY <1>2
  <2>3. Loaded(m2, 2)
    BY <2>1, <2>2 DEF Loaded
  <2> QED BY <1>2, <2>3
<1>3. CASE n = 3
  <2>1. \A u \in 0 .. 159 : m2[u] = IF u \in 104 .. 105 THEN u - 94 ELSE m[u]
    BY <1>3, ReadsAre
  <2>2. Loaded(m, 2)
    BY <1>3
  <2>3. Loaded(m2, 3)
    BY <2>1, <2>2 DEF Loaded
  <2> QED BY <1>3, <2>3
<1>4. CASE n = 4
  <2>1. \A u \in 0 .. 159 : m2[u] = IF u \in 120 .. 135 THEN u - 108 ELSE m[u]
    BY <1>4, ReadsAre
  <2>2. Loaded(m, 3)
    BY <1>4
  <2>3. Loaded(m2, 4)
    BY <2>1, <2>2 DEF Loaded
  <2> QED BY <1>4, <2>3
<1> QED BY <1>1, <1>2, <1>3, <1>4

(* A unit of memory holds a sector that the reads take, or what it held. *)
LEMMA LoadedBytes ==
  ASSUME NEW m \in [0 .. 159 -> 0 .. 32], NEW n \in 1 .. 4, NEW u \in 0 .. 159
  PROVE  (IF u \in Reads[n].to .. Reads[n].to + Reads[n].count - 1
            THEN Reads[n].from + (u - Reads[n].to) ELSE m[u]) \in 0 .. 32
<1>1. m[u] \in 0 .. 32
  OBVIOUS
<1>2. CASE n = 1
  BY <1>1, <1>2, ReadsAre
<1>3. CASE n = 2
  BY <1>1, <1>3, ReadsAre
<1>4. CASE n = 3
  BY <1>1, <1>4, ReadsAre
<1>5. CASE n = 4
  BY <1>1, <1>5, ReadsAre
<1> QED BY <1>2, <1>3, <1>4, <1>5

(* The invariant holds at the start. *)
LEMMA InitIInv == Init => IInv
<1> SUFFICES ASSUME Init PROVE IInv
  OBVIOUS
<1> USE BootAssumption
<1>1. smap \in Seq(Entries) /\ Len(smap) >= 1
  <2>1. smap \in Seq(Entries) /\ smap # <<>>
    BY DEF Init
  <2> QED BY <2>1
<1>2. TypeInv
  <2>1. modes \in Seq(Mode)
    BY DEF Init
  <2>2. Len(modes) \in Nat /\ Len(smap) \in Nat
    BY <1>1, <2>1
  <2> QED BY <1>1, <2>1, <2>2 DEF Init, TypeInv, Labels
<1>3. AskedInv
  BY DEF Init, AskedInv
<1>4. LoadedInv
  BY DEF Init, LoadedInv, Loaded
<1>5. ModeInv
  BY DEF Init, ModeInv, InKernel
<1> QED BY <1>2, <1>3, <1>4, <1>5 DEF IInv

(* One read of boot.s: it brings its own sectors and leaves the others.       *)
LEMMA ReadStep ==
  ASSUME IInv, ReadSectors
  PROVE  IInv'
<1>1. pc.n \in 1 .. 4 /\ pc.at = "read"
  BY DEF IInv, TypeInv, ReadSectors, At
<1>2. mem' = [u \in 0 .. 159 |->
        IF u \in Reads[pc.n].to .. Reads[pc.n].to + Reads[pc.n].count - 1
          THEN Reads[pc.n].from + (u - Reads[pc.n].to) ELSE mem[u]]
  BY DEF IInv, TypeInv, ReadSectors
<1>3. \A u \in 0 .. 159 :
        mem'[u] = IF u \in Reads[pc.n].to .. Reads[pc.n].to + Reads[pc.n].count - 1
                    THEN Reads[pc.n].from + (u - Reads[pc.n].to) ELSE mem[u]
  BY <1>2
<1>4. mem' \in [0 .. 159 -> 0 .. 32]
  <2>1. mem \in [0 .. 159 -> 0 .. 32]
    BY DEF IInv, TypeInv
  <2>2. \A u \in 0 .. 159 :
          (IF u \in Reads[pc.n].to .. Reads[pc.n].to + Reads[pc.n].count - 1
             THEN Reads[pc.n].from + (u - Reads[pc.n].to) ELSE mem[u]) \in 0 .. 32
    BY <1>1, <2>1, LoadedBytes
  <2> QED BY <1>2, <2>2
<1>5. \/ pc.n = 4 /\ pc' = [pc EXCEPT !.at = "get_mem_map"]
      \/ pc.n \in 1 .. 3 /\ pc' = [pc EXCEPT !.n = pc.n + 1]
  BY <1>1, ReadsAre DEF IInv, TypeInv, LastRead, ReadSectors
<1>6. /\ pc' \in [at : Labels, n : 1 .. 4]
      /\ pc'.at = IF pc.n = 4 THEN "get_mem_map" ELSE "read"
      /\ pc'.at = "read" => pc'.n = pc.n + 1
  <2>1. pc \in [at : Labels, n : 1 .. 4]
    BY DEF IInv, TypeInv
  <2>2. CASE pc.n = 4 /\ pc' = [pc EXCEPT !.at = "get_mem_map"]
    <3>1. pc'.at = "get_mem_map" /\ pc'.n = 4
      BY <2>1, <2>2
    <3>2. pc' \in [at : Labels, n : 1 .. 4]
      BY <2>1, <2>2 DEF Labels
    <3> QED BY <2>2, <3>1, <3>2
  <2>3. CASE pc.n \in 1 .. 3 /\ pc' = [pc EXCEPT !.n = pc.n + 1]
    <3>1. pc'.at = "read" /\ pc'.n = pc.n + 1
      BY <1>1, <2>1, <2>3
    <3>2. pc' \in [at : Labels, n : 1 .. 4]
      BY <2>1, <2>3
    <3> QED BY <2>3, <3>1, <3>2
  <2> QED BY <1>5, <2>2, <2>3
<1>7. TypeInv'
  BY <1>4, <1>6 DEF IInv, TypeInv, ReadSectors, e820, vbe
<1>8. AskedInv'
  BY <1>1, <1>6 DEF IInv, AskedInv, ReadSectors, e820
<1>9. Loaded(mem', pc.n)
  <2>1. Loaded(mem, pc.n - 1)
    BY <1>1 DEF IInv, LoadedInv
  <2> QED BY <1>1, <1>3, <2>1, LoadStep
<1>10. LoadedInv'
  BY <1>1, <1>6, <1>9 DEF LoadedInv
<1>11. ModeInv'
  BY <1>1, <1>6 DEF IInv, ModeInv, InKernel, ReadSectors, vbe
<1> QED BY <1>7, <1>8, <1>10, <1>11 DEF IInv

(* The steps that leave the image alone.                                      *)
LEMMA LaterStep ==
  ASSUME IInv, Next, ~ReadSectors
  PROVE  IInv'
<1>0. Len(smap) \in Nat /\ Len(modes) \in Nat
  <2>1. smap \in Seq(Entries) /\ modes \in Seq(Mode)
    BY DEF IInv, TypeInv
  <2> QED BY <2>1
<1>goto. ASSUME NEW label \in Labels, Go(label)
         PROVE  pc' \in [at : Labels, n : 1 .. 4] /\ pc'.at = label
  <2>1. pc \in [at : Labels, n : 1 .. 4]
    BY DEF IInv, TypeInv
  <2> QED BY <1>goto, <2>1 DEF Go
<1> USE DEF IInv, At
<1>1. CASE Fail
  <2>1. pc' = [pc EXCEPT !.at = "halted"] /\ failed' = TRUE
    BY <1>1 DEF Fail, Go
  <2> QED BY <1>1, <2>1 DEF Fail, disk, e820, vbe, TypeInv, AskedInv, LoadedInv, ModeInv,
             InKernel, Labels
<1>2. ASSUME pc.at # "read", UNCHANGED <<mem, failed>>, pc'.at # "read"
      PROVE  LoadedInv'
  BY <1>2 DEF LoadedInv, Loaded
<1>3. CASE FirstEntry \/ NextEntry
  <2>1. /\ pc.at \in {"get_mem_map", "next_entry"}
        /\ pc' \in [at : Labels, n : 1 .. 4] /\ pc'.at \in {"start", "halted"}
        /\ asked' = asked + 1
        /\ UNCHANGED <<mem, smap, bp, modes, si, mode, info, video, vib, failed>>
    BY <1>3, <1>goto DEF FirstEntry, NextEntry, Ask, Labels, disk, vbe
  <2>2. TypeInv'
    BY <1>0, <2>1 DEF TypeInv, AskedInv
  <2>3. AskedInv'
    <3>1. asked \in Int /\ bp \in 0 .. asked
      BY <1>0 DEF TypeInv
    <3>2. bp < asked + 1
      BY <3>1
    <3>3. pc'.at = "start" => bp' < asked'
      BY <2>1, <3>2
    <3> QED BY <2>1, <3>3 DEF AskedInv
  <2>4. ModeInv'
    BY <2>1 DEF ModeInv, InKernel
  <2> QED BY <1>2, <2>1, <2>2, <2>3, <2>4
<1>4. CASE Start
  <2>1. /\ pc.at = "start"
        /\ pc' \in [at : Labels, n : 1 .. 4]
        /\ pc'.at = IF asked = Len(smap) THEN "setup_vesa" ELSE "next_entry"
        /\ bp' \in {bp, bp + 1}
        /\ UNCHANGED <<mem, smap, asked, modes, si, mode, info, video, vib, failed>>
    BY <1>4, <1>goto DEF Start, LastAsked, Labels, disk, vbe
  <2>2. TypeInv'
    <3>1. asked \in 0 .. Len(smap) /\ bp \in 0 .. asked /\ bp < asked
      BY <2>1 DEF TypeInv, AskedInv
    <3>2. bp' \in 0 .. asked
      BY <1>0, <2>1, <3>1
    <3> QED BY <2>1, <3>1, <3>2 DEF TypeInv
  <2>3. AskedInv'
    BY <1>0, <2>1 DEF TypeInv, AskedInv
  <2>4. ModeInv'
    BY <2>1 DEF ModeInv, InKernel
  <2> QED BY <1>2, <2>1, <2>2, <2>3, <2>4
<1>5. CASE SetupVesa
  <2>1. /\ pc.at = "setup_vesa"
        /\ pc' \in [at : Labels, n : 1 .. 4] /\ pc'.at = "find_mode"
        /\ UNCHANGED <<mem, smap, asked, bp, modes, si, mode, info, video, vib, failed>>
    BY <1>5, <1>goto DEF SetupVesa, Labels, disk, e820, vbe
  <2>2. TypeInv' /\ AskedInv'
    BY <1>0, <2>1 DEF TypeInv, AskedInv
  <2>3. ModeInv'
    BY <2>1 DEF ModeInv, InKernel, NoneBefore
  <2> QED BY <1>2, <2>1, <2>2, <2>3
<1>6. CASE FindMode
  <2>1. /\ pc.at = "find_mode"
        /\ pc' \in [at : Labels, n : 1 .. 4]
        /\ UNCHANGED <<mem, smap, asked, bp, modes, info, video, vib, failed>>
        /\ \/ /\ si <= Len(modes) /\ pc'.at = "mode_info"
              /\ mode' = modes[si] /\ si' = si + 1
           \/ pc'.at = "halted" /\ UNCHANGED <<mode, si>>
    BY <1>6, <1>goto DEF FindMode, NextMode, Labels, disk, e820
  <2>2. TypeInv' /\ AskedInv'
    <3>0. si \in 1 .. Len(modes) + 1
      BY DEF TypeInv
    <3>1. si' \in 1 .. Len(modes) + 1
      <4>1. si' = si \/ (si <= Len(modes) /\ si' = si + 1)
        BY <2>1
      <4> HIDE DEF IInv
      <4> QED BY <1>0, <3>0, <4>1
    <3>2. asked \in 0 .. Len(smap) /\ bp \in 0 .. asked
      BY DEF TypeInv
    <3>3. TypeInv'
      BY <2>1, <3>1, <3>2 DEF TypeInv
    <3>4. AskedInv'
      BY <2>1 DEF AskedInv
    <3> QED BY <3>3, <3>4
  <2>3. ModeInv'
    <3>1. CASE pc'.at = "halted"
      BY <3>1 DEF ModeInv, InKernel
    <3>2. CASE pc'.at = "mode_info"
      <4>1. si \in 1 .. Len(modes) /\ si' - 1 = si /\ mode' = modes[si]
        BY <2>1, <3>2 DEF TypeInv
      <4>2. NoneBefore(si)
        BY <2>1 DEF ModeInv
      <4>3. NoneBefore(si - 1)'
        BY <2>1, <4>1, <4>2 DEF NoneBefore
      <4> QED BY <2>1, <3>2, <4>1, <4>3 DEF ModeInv, InKernel
    <3> QED BY <2>1, <3>1, <3>2
  <2>4. pc'.at # "read"
    BY <2>1
  <2> QED BY <1>2, <2>1, <2>2, <2>3, <2>4
<1>7. CASE ModeInfo
  <2>1. /\ pc.at = "mode_info"
        /\ pc' \in [at : Labels, n : 1 .. 4]
        /\ pc'.at = IF mode.fits THEN "set_mode" ELSE "find_mode"
        /\ info' = mode
        /\ UNCHANGED <<mem, smap, asked, bp, modes, si, mode, video, vib, failed>>
    BY <1>7, <1>goto DEF ModeInfo, Labels, disk, e820
  <2>2. TypeInv' /\ AskedInv'
    BY <1>0, <2>1 DEF TypeInv, AskedInv
  <2>3. ModeInv'
    <3>1. /\ si - 1 \in 1 .. Len(modes) /\ mode = modes[si - 1]
          /\ NoneBefore(si - 1)
      BY <2>1 DEF ModeInv
    <3>2. CASE mode.fits
      BY <2>1, <3>1, <3>2 DEF ModeInv, InKernel, NoneBefore
    <3>3. CASE ~mode.fits
      <4>1. NoneBefore(si)'
        <5>1. si \in Int /\ si' = si /\ modes' = modes
          BY <1>0, <2>1 DEF TypeInv
        <5>2. \A j \in 1 .. si - 1 : j = si - 1 \/ j \in 1 .. (si - 1) - 1
          BY <5>1
        <5> QED BY <3>1, <3>3, <5>1, <5>2 DEF NoneBefore
      <4> QED BY <2>1, <3>3, <4>1 DEF ModeInv, InKernel
    <3> QED BY <3>2, <3>3
  <2>4. pc'.at # "read"
    BY <2>1
  <2> QED BY <1>2, <2>1, <2>2, <2>3, <2>4
<1>8. CASE SetMode
  <2>1. /\ pc.at = "set_mode"
        /\ pc' \in [at : Labels, n : 1 .. 4] /\ pc'.at = "kernel_main"
        /\ video' = mode /\ vib' = info
        /\ UNCHANGED <<mem, smap, asked, bp, modes, si, mode, info, failed>>
    BY <1>8, <1>goto DEF SetMode, CopiedInfo, Labels, disk, e820
  <2>2. TypeInv' /\ AskedInv'
    BY <1>0, <2>1 DEF TypeInv, AskedInv
  <2>3. ModeInv'
    BY <2>1 DEF ModeInv, InKernel, NoneBefore
  <2> QED BY <1>2, <2>1, <2>2, <2>3
<1>9. CASE KernelMain
  <2>1. /\ pc.at = "kernel_main"
        /\ pc' \in [at : Labels, n : 1 .. 4] /\ pc'.at = "kernel_halted"
        /\ UNCHANGED <<mem, smap, asked, bp, modes, si, mode, info, video, vib, failed>>
    BY <1>9, <1>goto DEF KernelMain, Labels, disk, e820, vbe
  <2>2. TypeInv' /\ AskedInv'
    BY <1>0, <2>1 DEF TypeInv, AskedInv
  <2>3. ModeInv'
    BY <2>1 DEF ModeInv, InKernel, NoneBefore
  <2> QED BY <1>2, <2>1, <2>2, <2>3
<1> QED BY <1>1, <1>3, <1>4, <1>5, <1>6, <1>7, <1>8, <1>9 DEF Next

(* Every step keeps it. *)
LEMMA StepIInv == IInv /\ [Next]_vars => IInv'
<1> SUFFICES ASSUME IInv, [Next]_vars PROVE IInv'
  OBVIOUS
<1>1. CASE ReadSectors
  BY <1>1, ReadStep
<1>2. CASE Next /\ ~ReadSectors
  BY <1>2, LaterStep
<1>3. CASE UNCHANGED vars
  BY <1>3 DEF vars, disk, e820, vbe, IInv, TypeInv, AskedInv, LoadedInv, Loaded, ModeInv,
    NoneBefore, InKernel
<1> QED BY <1>1, <1>2, <1>3

(* It always holds. *)
LEMMA Invariance == Spec => []IInv
<1>1. Init => IInv
  BY InitIInv
<1>2. IInv /\ [Next]_vars => IInv'
  BY StepIInv
<1> QED BY <1>1, <1>2, PTL DEF Spec

-----------------------------------------------------------------------------
(* Where each part of the image starts on the disk.                           *)
LEMMA FirstSectors ==
  /\ FirstOf("second_stage") = 2 /\ FirstOf("font") = 6
  /\ FirstOf("picture") = 10 /\ FirstOf("kernel") = 12
<1>1. ASSUME NEW a \in Int, NEW b \in Int, a <= b
      PROVE  (CHOOSE s \in a .. b : \A t \in a .. b : s <= t) = a
  <2>1. a \in a .. b /\ \A t \in a .. b : a <= t
    BY <1>1
  <2>2. \A s \in a .. b : (\A t \in a .. b : s <= t) => s = a
    BY <2>1
  <2> QED BY <2>1, <2>2
<1>2. FirstOf("second_stage") = 2
  BY <1>1 DEF FirstOf, Parts
<1>3. FirstOf("font") = 6
  BY <1>1 DEF FirstOf, Parts
<1>4. FirstOf("picture") = 10
  BY <1>1 DEF FirstOf, Parts
<1>5. FirstOf("kernel") = 12
  BY <1>1 DEF FirstOf, Parts
<1> QED BY <1>2, <1>3, <1>4, <1>5

(* No index leaves its table or list, for any memory map and any mode list    *)
(* (second_stage.s:17-51, 85-92).                                             *)
THEOREM TypeCorrect == Spec => []TypeOK
<1>1. IInv => TypeOK
  <2> SUFFICES ASSUME IInv PROVE TypeOK
    OBVIOUS
  <2> QED BY ReadsAre DEF IInv, TypeInv, TypeOK, Labels
<1> QED BY <1>1, Invariance, PTL

(* The image is in place when the second stage starts: no read of boot.s      *)
(* overwrites what an earlier one loaded (boot.s:15-65, Makefile:13-16).      *)
THEOREM ImageInPlaceCorrect == Spec => []ImageInPlace
<1>1. IInv => ImageInPlace
  <2> SUFFICES ASSUME IInv, pc.at # "read", ~failed,
                      NEW part \in DOMAIN Parts, NEW s \in Parts[part]
               PROVE  mem[Place[part] + (s - FirstOf(part))] = s
    BY DEF ImageInPlace, At
  <2>1. Loaded(mem, 4)
    BY DEF IInv, LoadedInv
  <2>2. part \in {"second_stage", "font", "picture", "kernel"}
    BY DEF Parts
  <2>3. CASE part = "second_stage"
    BY <2>1, <2>3, FirstSectors DEF Loaded, Parts, Place
  <2>4. CASE part = "font"
    BY <2>1, <2>4, FirstSectors DEF Loaded, Parts, Place
  <2>5. CASE part = "picture"
    BY <2>1, <2>5, FirstSectors DEF Loaded, Parts, Place
  <2>6. CASE part = "kernel"
    BY <2>1, <2>6, FirstSectors DEF Loaded, Parts, Place
  <2> QED BY <2>2, <2>3, <2>4, <2>5, <2>6
<1> QED BY <1>1, Invariance, PTL

(* The block the kernel finds describes the mode that is set, which is the    *)
(* first of the list that fits, whatever the list (second_stage.s:85-170).    *)
THEOREM KernelSeesModeCorrect == Spec => []KernelSeesMode
<1>1. IInv => KernelSeesMode
  <2> SUFFICES ASSUME IInv, InKernel
               PROVE  vib = video /\ video = modes[FirstFit(modes)]
    BY DEF KernelSeesMode
  <2> DEFINE k == si - 1
  <2>1. /\ k \in 1 .. Len(modes) /\ vib = video /\ video = modes[k]
        /\ modes[k].fits /\ NoneBefore(k)
    BY DEF IInv, ModeInv
  <2>2. DOMAIN modes = 1 .. Len(modes) /\ Len(modes) \in Nat
    BY DEF IInv, TypeInv
  <2> HIDE DEF k
  <2>3. FirstFit(modes) = k
    <3>1. \A j \in 1 .. Len(modes) :
            modes[j].fits /\ (\A i \in 1 .. j - 1 : ~modes[i].fits) => j = k
      BY <2>1, <2>2 DEF NoneBefore
    <3>2. \A i \in 1 .. k - 1 : ~modes[i].fits
      BY <2>1 DEF NoneBefore
    <3> QED BY <2>1, <2>2, <3>1, <3>2 DEF FirstFit
  <2> QED BY <2>1, <2>3
<1> QED BY <1>1, Invariance, PTL


-----------------------------------------------------------------------------
(* The number of entries counted before the one at hand; and the slots of the *)
(* first n entries.                                                           *)
Done == IF pc.at = "start" THEN asked - 1 ELSE asked
Recorded(n) == \A k \in 1 .. n : Useful(smap[k]) => table[UsefulUpTo(k) - 1] = smap[k]

(* Where the recording stands: what has been counted is recorded, and the     *)
(* entry at hand is in the slot that it will have if it is counted.           *)
MapInv ==
  /\ DOMAIN table = 0 .. Len(smap)
  /\ pc.at # "halted" => bp = UsefulUpTo(Done) /\ Recorded(Done)
  /\ pc.at = "start" /\ smap[asked].stored => table[bp] = smap[asked]
  /\ pc.at \in {"setup_vesa", "find_mode", "mode_info", "set_mode",
                "kernel_main", "kernel_halted"} => asked = Len(smap)

(* Counting the useful entries one by one: none at first, one more with each  *)
(* that is useful, so that none loses its number to a later one.              *)
LEMMA UsefulCount ==
  ASSUME NEW n \in Nat
  PROVE  /\ UsefulUpTo(n) \in Nat
         /\ UsefulUpTo(0) = 0
         /\ UsefulUpTo(n + 1) = UsefulUpTo(n) + (IF Useful(smap[n + 1]) THEN 1 ELSE 0)
         /\ \A k \in 1 .. n : UsefulUpTo(k) <= UsefulUpTo(n)
         /\ \A k \in 1 .. n : Useful(smap[k]) => UsefulUpTo(k) >= 1
<1> DEFINE S(k) == {j \in 1 .. k : Useful(smap[j])}
<1>1. \A k \in Nat : IsFiniteSet(S(k)) /\ UsefulUpTo(k) = Cardinality(S(k))
  <2> SUFFICES ASSUME NEW k \in Nat PROVE IsFiniteSet(S(k)) /\ UsefulUpTo(k) = Cardinality(S(k))
    OBVIOUS
  <2>1. IsFiniteSet(1 .. k) /\ S(k) \subseteq 1 .. k
    BY FS_Interval
  <2>2. IsFiniteSet(S(k))
    BY <2>1, FS_Subset
  <2> QED BY <2>2 DEF UsefulUpTo
<1>2. \A k \in Nat : UsefulUpTo(k) \in Nat
  BY <1>1, FS_CardinalityType
<1>3. UsefulUpTo(0) = 0
  <2>1. S(0) = {}
    OBVIOUS
  <2> QED BY <1>1, <2>1, FS_EmptySet
<1>4. UsefulUpTo(n + 1) = UsefulUpTo(n) + (IF Useful(smap[n + 1]) THEN 1 ELSE 0)
  <2>1. CASE Useful(smap[n + 1])
    <3>1. S(n + 1) = S(n) \cup {n + 1} /\ n + 1 \notin S(n)
      BY <2>1
    <3>2. IsFiniteSet(S(n)) /\ n + 1 \in Nat
      BY <1>1
    <3> HIDE DEF S
    <3>3. Cardinality(S(n + 1)) = Cardinality(S(n)) + 1
      BY <3>1, <3>2, FS_AddElement
    <3> QED BY <1>1, <2>1, <3>2, <3>3
  <2>2. CASE ~Useful(smap[n + 1])
    <3>1. S(n + 1) = S(n)
      BY <2>2
    <3>2. UsefulUpTo(n) \in Nat /\ n + 1 \in Nat
      BY <1>2
    <3> HIDE DEF S
    <3> QED BY <1>1, <2>2, <3>1, <3>2
  <2> QED BY <2>1, <2>2
<1>5. ASSUME NEW k \in 1 .. n PROVE UsefulUpTo(k) <= UsefulUpTo(n)
  <2>1. S(k) \subseteq S(n) /\ k \in Nat
    OBVIOUS
  <2> HIDE DEF S
  <2> QED BY <1>1, <2>1, FS_Subset
<1>6. ASSUME NEW k \in 1 .. n, Useful(smap[k]) PROVE UsefulUpTo(k) >= 1
  <2>1. {k} \subseteq S(k) /\ k \in Nat
    BY <1>6
  <2>2. Cardinality({k}) = 1
    BY FS_Singleton
  <2> HIDE DEF S
  <2>3. Cardinality({k}) <= Cardinality(S(k))
    BY <1>1, <2>1, FS_Subset
  <2> QED BY <1>1, <1>2, <2>1, <2>2, <2>3
<1> QED BY <1>2, <1>3, <1>4, <1>5, <1>6

(* The invariant holds at the start. *)
LEMMA InitMapInv == Init => MapInv
<1> SUFFICES ASSUME Init PROVE MapInv
  OBVIOUS
<1>1. Done = 0 /\ bp = 0 /\ pc.at = "read"
  BY DEF Init, Done
<1>2. UsefulUpTo(0) = 0 /\ Recorded(0)
  BY UsefulCount DEF Recorded
<1>3. DOMAIN table = 0 .. Len(smap)
  BY DEF Init
<1> QED BY <1>1, <1>2, <1>3 DEF MapInv

(* An entry asked for goes to the slot after the last one counted, and lies   *)
(* there alone.                                                               *)
LEMMA AskMapInv ==
  ASSUME IInv, MapInv, Ask, UNCHANGED <<smap, bp>>,
         pc.at \in {"get_mem_map", "next_entry"}, pc'.at \in {"start", "halted"}
  PROVE  MapInv'
<1>1. /\ Done = asked /\ bp = UsefulUpTo(asked) /\ Recorded(asked)
      /\ DOMAIN table = 0 .. Len(smap)
  BY DEF MapInv, Done
<1>2. /\ Len(smap) \in Nat /\ asked \in 0 .. Len(smap) /\ asked < Len(smap)
      /\ bp \in 0 .. asked
  BY DEF IInv, TypeInv, AskedInv
<1>3. /\ asked' = asked + 1
      /\ table' = [table EXCEPT ![bp] = IF smap[asked'].stored THEN smap[asked'] ELSE @]
  BY DEF Ask
<1>4. bp \in DOMAIN table
  BY <1>1, <1>2
<1>5. DOMAIN table' = 0 .. Len(smap)'
  BY <1>1, <1>3
<1>6. smap[asked'].stored => table'[bp] = smap[asked']
  BY <1>3, <1>4
<1>7. \A k \in 1 .. asked : Useful(smap[k]) => table'[UsefulUpTo(k) - 1] = smap[k]
  <2> SUFFICES ASSUME NEW k \in 1 .. asked, Useful(smap[k])
               PROVE  table'[UsefulUpTo(k) - 1] = smap[k]
    OBVIOUS
  <2>1. asked \in Nat /\ k \in Nat
    BY <1>2
  <2>2. UsefulUpTo(k) \in Nat /\ UsefulUpTo(k) >= 1 /\ UsefulUpTo(k) <= bp
    BY <1>1, <2>1, UsefulCount
  <2>3. UsefulUpTo(k) - 1 \in 0 .. Len(smap) /\ UsefulUpTo(k) - 1 # bp
    BY <1>2, <2>2
  <2>4. table[UsefulUpTo(k) - 1] = smap[k]
    BY <1>1 DEF Recorded
  <2> QED BY <1>1, <1>3, <2>3, <2>4
<1>8. ASSUME pc'.at = "start" PROVE bp' = UsefulUpTo(Done)' /\ Recorded(Done)'
  <2>1. Done' = asked
    BY <1>2, <1>3, <1>8 DEF Done
  <2> QED BY <1>1, <1>7, <2>1 DEF Recorded, UsefulUpTo
<1> QED BY <1>5, <1>6, <1>8 DEF MapInv

(* The entry at hand is counted, or its slot left to the next one. *)
LEMMA StartMapInv ==
  ASSUME IInv, MapInv, Start
  PROVE  MapInv'
<1>1. /\ pc.at = "start" /\ bp' = IF Useful(smap[asked]) THEN bp + 1 ELSE bp
      /\ UNCHANGED <<smap, asked, table>>
      /\ pc'.at = IF asked = Len(smap) THEN "setup_vesa" ELSE "next_entry"
  BY DEF Start, At, Go, Keep, Useful, LastAsked, IInv, TypeInv
<1>2. asked - 1 \in Nat /\ (asked - 1) + 1 = asked
  <2>1. Len(smap) \in Nat /\ asked \in 0 .. Len(smap) /\ bp \in 0 .. asked /\ bp < asked
    BY <1>1 DEF IInv, TypeInv, AskedInv
  <2> QED BY <2>1
<1>3. /\ bp = UsefulUpTo(asked - 1) /\ Recorded(asked - 1)
      /\ smap[asked].stored => table[bp] = smap[asked]
      /\ DOMAIN table = 0 .. Len(smap)
  BY <1>1 DEF MapInv, Done
<1>4. /\ bp \in Nat
      /\ UsefulUpTo(asked) = bp + (IF Useful(smap[asked]) THEN 1 ELSE 0)
  <2>1. UsefulUpTo((asked - 1) + 1)
          = UsefulUpTo(asked - 1) + (IF Useful(smap[(asked - 1) + 1]) THEN 1 ELSE 0)
    BY <1>2, UsefulCount
  <2>2. UsefulUpTo(asked - 1) \in Nat
    BY <1>2, UsefulCount
  <2> QED BY <1>2, <1>3, <2>1, <2>2
<1>5. bp' = UsefulUpTo(asked)
  BY <1>1, <1>4
<1>6. Recorded(asked)
  <2> SUFFICES ASSUME NEW k \in 1 .. asked, Useful(smap[k])
               PROVE  table[UsefulUpTo(k) - 1] = smap[k]
    BY DEF Recorded
  <2>1. CASE k = asked
    <3>1. UsefulUpTo(k) - 1 = bp
      BY <1>4, <2>1
    <3> QED BY <1>3, <2>1, <3>1 DEF Useful
  <2>2. CASE k # asked
    <3>1. k \in 1 .. asked - 1
      BY <1>2, <2>2
    <3> QED BY <1>3, <3>1 DEF Recorded
  <2> QED BY <2>1, <2>2
<1>7. Done' = asked
  BY <1>1 DEF Done
<1>8. bp' = UsefulUpTo(Done)' /\ Recorded(Done)'
  BY <1>1, <1>5, <1>6, <1>7 DEF Recorded, UsefulUpTo
<1> QED BY <1>1, <1>3, <1>8 DEF MapInv

(* Every step keeps it. *)
LEMMA StepMapInv ==
  ASSUME IInv, MapInv, [Next]_vars
  PROVE  MapInv'
<1>1. CASE FirstEntry \/ NextEntry
  <2>1. /\ Ask /\ UNCHANGED <<smap, bp>>
        /\ pc.at \in {"get_mem_map", "next_entry"} /\ pc'.at \in {"start", "halted"}
    BY <1>1 DEF FirstEntry, NextEntry, At, Go, IInv, TypeInv
  <2> QED BY <2>1, AskMapInv
<1>2. CASE Start
  BY <1>2, StartMapInv
<1>3. CASE (Next /\ ~FirstEntry /\ ~NextEntry /\ ~Start) \/ UNCHANGED vars
  <2>1. UNCHANGED <<smap, asked, table, bp>>
    BY <1>3 DEF Next, vars, ReadSectors, Fail, SetupVesa, FindMode, ModeInfo, SetMode,
      KernelMain, e820
  <2>2. \/ pc'.at \in {"read", "get_mem_map", "halted"}
        \/ pc'.at = pc.at
        \/ /\ pc.at \in {"setup_vesa", "find_mode", "mode_info", "set_mode", "kernel_main"}
           /\ pc'.at # "start"
    BY <1>3 DEF Next, vars, ReadSectors, Fail, SetupVesa, FindMode, ModeInfo, SetMode,
      KernelMain, At, Go, IInv, TypeInv
  <2>3. pc'.at \in {"read", "get_mem_map"} => pc.at \in {"read", "get_mem_map"}
    BY <1>3 DEF Next, vars, ReadSectors, Fail, SetupVesa, FindMode, ModeInfo, SetMode,
      KernelMain, At, Go, IInv, TypeInv
  <2>4. pc'.at # "halted" => pc.at # "halted" /\ Done' = Done
    BY <2>1, <2>2, <2>3 DEF Done
  <2>5. pc'.at # "halted" => bp' = UsefulUpTo(Done)' /\ Recorded(Done)'
    BY <2>1, <2>4 DEF MapInv, Recorded, UsefulUpTo
  <2>6. pc'.at = "start" => pc.at = "start"
    BY <2>2
  <2>7. pc'.at \in {"setup_vesa", "find_mode", "mode_info", "set_mode",
                    "kernel_main", "kernel_halted"} => asked = Len(smap)
    BY <2>2 DEF MapInv
  <2> QED BY <2>1, <2>5, <2>6, <2>7 DEF MapInv
<1> QED BY <1>1, <1>2, <1>3

(* What is recorded when the video mode is looked for, and from then on, is   *)
(* the BIOS's memory map without its empty entries, for every map the BIOS    *)
(* may have (second_stage.s:25-51).                                           *)
THEOREM MapRecordedCorrect == Spec => []MapRecorded
<1>1. Init => MapInv
  BY InitMapInv
<1>2. IInv /\ MapInv /\ [Next]_vars => MapInv'
  BY StepMapInv
<1>3. IInv /\ MapInv => MapRecorded
  <2> SUFFICES ASSUME IInv, MapInv,
                      pc.at \in {"setup_vesa", "find_mode", "mode_info", "set_mode",
                                 "kernel_main", "kernel_halted"}
               PROVE  /\ bp = UsefulUpTo(Len(smap))
                      /\ \A k \in DOMAIN smap :
                           Useful(smap[k]) => table[UsefulUpTo(k) - 1] = smap[k]
    BY DEF MapRecorded, InKernel
  <2>1. asked = Len(smap) /\ Done = asked /\ bp = UsefulUpTo(Done) /\ Recorded(Done)
    BY DEF MapInv, Done
  <2>2. DOMAIN smap = 1 .. Len(smap)
    BY DEF IInv, TypeInv
  <2> QED BY <2>1, <2>2 DEF Recorded
<1> QED BY <1>1, <1>2, <1>3, Invariance, PTL DEF Spec

=============================================================================
