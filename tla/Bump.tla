-------------------------------- MODULE Bump --------------------------------
(***************************************************************************)
(* xxtra.c: the allocators that only go up.  kmalloc, kmalloc_p and        *)
(* kmalloc_ap share `addr', moca_alloc has its own arena.  Nothing is ever *)
(* given back.                                                             *)
(***************************************************************************)
EXTENDS Integers

CONSTANTS
  Sizes,         \* what clients ask for
  PageBytes,     \* 0x1000
  AddrStart,     \* 0xA0000000
  BumpStart,     \* 0x1000000
  AddrLimit      \* bound: addresses stop here, before 2^32

ASSUME BumpAssumption ==
  /\ Sizes \subseteq Nat
  /\ PageBytes \in Nat \ {0}
  /\ BumpStart \in Nat /\ AddrStart \in Nat /\ AddrLimit \in Nat
  /\ BumpStart <= AddrStart /\ PageBytes <= AddrStart

VARIABLES
  addr, end, bump_allocator_base,
  given         \* what has been handed out: by whom, from where, up to where

bumpVars == <<addr, end, bump_allocator_base, given>>

Block(by, from, size) == [by |-> by, from |-> from, to |-> from + size]

BumpInit ==
  /\ addr = AddrStart
  /\ end = 0                  \* by how much the symbol has been moved
  /\ bump_allocator_base = BumpStart
  /\ given = {}

-----------------------------------------------------------------------------
(* addr & 0xFFFFF000, and a page further: an aligned address moves up too.   *)
PageUp_Down(a) == a - (a % PageBytes)
PageUp(a) == IF a >= PageBytes THEN a - (a % PageBytes) + PageBytes ELSE a

kmalloc(size) ==
  /\ addr + size <= AddrLimit
  /\ given' = given \cup {Block("kmalloc", addr, size)}
  /\ addr' = addr + size
  /\ UNCHANGED <<end, bump_allocator_base>>

(* It moves `end', the kernel's, and leaves addr where its block begins. *)
kmalloc_p(size, align) ==
  LET tmp == IF align = 1 THEN PageUp(addr) ELSE addr
  IN /\ tmp + size <= AddrLimit
     /\ given' = given \cup {Block("kmalloc_p", tmp, size)}
     /\ addr' = tmp
     /\ end' = end + size * size
     /\ UNCHANGED bump_allocator_base

kmalloc_ap(size, align) ==
  LET tmp == IF align = 1 THEN PageUp(addr) ELSE addr
  IN /\ tmp + size <= AddrLimit
     /\ given' = given \cup
          {Block(IF align = 1 THEN "kmalloc_ap" ELSE "kmalloc", tmp, size)}
     /\ addr' = tmp + size
     /\ UNCHANGED <<end, bump_allocator_base>>

AlignUp_Down(a, alignment) == a - (a % alignment)
AlignUp(a, alignment) ==
  a - (a % alignment) + (IF a % alignment = 0 THEN 0 ELSE alignment)

(* balloc_aligned(size, 4) *)
moca_alloc(size) ==
  LET ret == AlignUp(bump_allocator_base, 4)
  IN /\ ret + size <= AddrLimit
     /\ given' = given \cup {Block("moca_alloc", ret, size)}
     /\ bump_allocator_base' = ret + size
     /\ UNCHANGED <<addr, end>>

BumpNext ==
  \E size \in Sizes :
    \/ kmalloc(size)
    \/ \E align \in {0, 1} : kmalloc_p(size, align) \/ kmalloc_ap(size, align)
    \/ moca_alloc(size)

BumpSpec == BumpInit /\ [][BumpNext]_bumpVars

-----------------------------------------------------------------------------
BumpTypeOK ==
  /\ addr \in Nat /\ end \in Nat /\ bump_allocator_base \in Nat
  /\ given \subseteq
       [by : {"kmalloc", "kmalloc_p", "kmalloc_ap", "moca_alloc"}, from : Nat, to : Nat]

Apart(a, b) == a.to <= b.from \/ b.to <= a.from

(* No byte is handed out twice and every block is aligned as asked, in any   *)
(* order of calls and sizes, unless moca_alloc's arena has grown into the    *)
(* other one, which nothing prevents (xxtra.c:34-86).  The blocks of         *)
(* kmalloc_p are not among them: the next call gets the same bytes.          *)
BumpBlocksApart ==
  /\ bump_allocator_base <= AddrStart =>
       \A a, b \in {x \in given : x.by # "kmalloc_p"} : a # b => Apart(a, b)
  /\ \A b \in given :
       /\ b.by = "kmalloc_ap" => b.from % PageBytes = 0
       /\ b.by = "moca_alloc" => b.from % 4 = 0
=============================================================================
