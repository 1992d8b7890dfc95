------------------------------- MODULE MCFat12 -------------------------------
(* A chain that goes up, down and over odd and even clusters, in two layouts  *)
(* of the disk; the sizes at both ends of its last cluster.  Then a disk with *)
(* clusters of two sectors, one without the file, and damaged ones: any table *)
(* of four entries, any first cluster.                                        *)
EXTENDS Fat12, TLC

Base == [ReservedSectors |-> 1, FatCount |-> 2, SectorsPerFat |-> 9,
         DirEntryCount |-> 224, SectorsPerCluster |-> 1, entries |-> 7,
         fat |-> (0 :> 4080 @@ 1 :> 4095 @@ 2 :> 6 @@ 3 :> 4095 @@ 4 :> 0
                  @@ 5 :> 2 @@ 6 :> 3),
         named |-> TRUE, FirstClusterLow |-> 5, Size |-> 2048,
         chain |-> <<5, 2, 6, 3>>]

Resized == {[Base EXCEPT !.Size = n] : n \in {1537, 2047, 2048}}
Layouts == {[d EXCEPT !.ReservedSectors = 4, !.FatCount = 1, !.DirEntryCount = 17] : d \in Resized}
Large == {[d EXCEPT !.SectorsPerCluster = 2, !.Size = n] : d \in Resized, n \in {3073, 4096}}
Absent == {[Base EXCEPT !.named = FALSE]}
Targets == {0, 2, 3, 4080, 4087, 4088, 4095}
Damaged == {[Base EXCEPT !.entries = 4, !.fat = (0 :> 4080 @@ 1 :> 4095 @@ 2 :> x @@ 3 :> y),
                         !.FirstClusterLow = c, !.chain = <<>>, !.Size = 600] :
              x \in Targets, y \in Targets, c \in {0, 2, 3, 5}}

MCDisks == Resized \cup Layouts \cup Large \cup Absent \cup Damaged
=============================================================================
