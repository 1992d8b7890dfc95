------------------------------ MODULE MCPhysMem ------------------------------
(* Small instances of PhysMem: 4-byte blocks, 4-bit words, uint32 of 6 bits.  *)
(* The kernel occupies blocks 1 to 6 of two words, word 1 being the one that  *)
(* set_entry touches, as on the PC (blocks 7 to 66, words 0 to 2, word 1).    *)
EXTENDS PhysMem

E(base, length, type) == [base |-> base, length |-> length, type |-> type]

(* Tables in address order, as a BIOS returns them: low memory of several    *)
(* sizes, then up to two regions above it, of either type, aligned or not.   *)
Low  == {E(0, n, 1) : n \in {27, 28, 30}}
High == {E(b, n, t) : b \in {32, 34}, n \in {3, 8, 11}, t \in {1, 2}}
Top  == {E(48, n, t) : n \in {5, 12}, t \in {1, 2}}

(* Tables with more than UIntMod bytes of available memory. *)
BigSmaps == {<<E(0, 28, 1), E(64, n, 1)>> : n \in 30 .. 60}

MCSmaps == {<<l>> : l \in Low}
           \cup {<<l, h>> : l \in Low, h \in High}
           \cup {<<l, h, t>> : l \in Low, h \in High, t \in Top}
           \cup BigSmaps

=============================================================================
