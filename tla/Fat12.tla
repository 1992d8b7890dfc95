-------------------------------- MODULE Fat12 --------------------------------
(***************************************************************************)
(* try.c: the host program that prints one file of a FAT12 disk image.     *)
(* main reads boot sector, FAT and root directory, looks the file up and   *)
(* follows its chain of clusters into a buffer.  Every read may fail.      *)
(*                                                                         *)
(* A disk is what its image says, the chain of clusters included into      *)
(* which the file was written; on a damaged disk (chain <<>>) the table    *)
(* and the directory say what they like.  A write behind the buffer ends   *)
(* the model: what the program does then is undefined.                     *)
(***************************************************************************)
EXTENDS Integers, Sequences

CONSTANTS
  Disks,            \* the disk images to look at
  BytesPerSector,   \* 512
  EntrySize         \* sizeof(DirectoryEntry), 32

Eof == 4088         \* 0xFF8: entries from here on end a chain
Links == 0 .. 4095  \* twelve bits

DiskType(d) ==
  /\ d.ReservedSectors \in Nat /\ d.FatCount \in Nat /\ d.SectorsPerFat \in Nat
  /\ d.DirEntryCount \in Nat
  /\ d.SectorsPerCluster \in Nat \ {0}
  /\ d.entries \in Nat \ {0} /\ d.entries <= Eof   \* of the FAT: 2 + the clusters
  /\ d.fat \in [0 .. d.entries - 1 -> Links]
  /\ d.named \in BOOLEAN                            \* the file is in the root directory
  /\ d.FirstClusterLow \in Nat /\ d.Size \in Nat    \* its DirectoryEntry
  /\ d.chain \in Seq(2 .. d.entries - 1)            \* where the file was written

ASSUME Fat12Assumption ==
  /\ BytesPerSector \in Nat \ {0} /\ EntrySize \in Nat
  /\ \A d \in Disks : DiskType(d)

VARIABLES
  pc,                 \* the next call of main; "overrun"; the code it has returned
  disk,
  held,               \* malloc'ed and not yet freed
  g_RootDirectoryEnd,
  currentCluster,
  room,               \* bytes of the buffer behind outputBuffer
  output              \* the buffer: for each cluster read, its first sector on the disk

vars == <<pc, disk, held, g_RootDirectoryEnd, currentCluster, room, output>>

Init ==
  /\ pc = "readBootSector"
  /\ disk \in Disks
  /\ held = {}
  /\ g_RootDirectoryEnd = 0 /\ currentCluster = 0 /\ room = 0
  /\ output = <<>>

(* return code, with what is freed before it. *)
Exit(code, freed) == pc' = code /\ held' = held \ freed

-----------------------------------------------------------------------------
readBootSector ==
  /\ pc = "readBootSector"
  /\ \/ Exit("-2", {})
     \/ pc' = "readFat" /\ UNCHANGED held
  /\ UNCHANGED <<disk, g_RootDirectoryEnd, currentCluster, room, output>>

readFat ==
  /\ pc = "readFat"
  /\ \/ Exit("-3", {})                         \* malloc, read and free(g_Fat)
     \/ pc' = "readRootDirectory" /\ held' = held \cup {"g_Fat"}
  /\ UNCHANGED <<disk, g_RootDirectoryEnd, currentCluster, room, output>>

RootSectors_RoundDown == (EntrySize * disk.DirEntryCount) \div BytesPerSector
RootSectors ==
  LET size == EntrySize * disk.DirEntryCount
  IN size \div BytesPerSector + (IF size % BytesPerSector > 0 THEN 1 ELSE 0)

readRootDirectory_Leaks ==
  /\ pc = "readRootDirectory"
  /\ g_RootDirectoryEnd' =
       disk.ReservedSectors + disk.SectorsPerFat * disk.FatCount + RootSectors
  /\ \/ Exit("-4", {})
     \/ pc' = "findFile" /\ held' = held \cup {"g_RootDirectory"}
  /\ UNCHANGED <<disk, currentCluster, room, output>>

readRootDirectory ==
  /\ pc = "readRootDirectory"
  /\ g_RootDirectoryEnd' =
       disk.ReservedSectors + disk.SectorsPerFat * disk.FatCount + RootSectors
  /\ \/ Exit("-4", {"g_Fat"})               \* and the root directory just malloc'ed
     \/ pc' = "findFile" /\ held' = held \cup {"g_RootDirectory"}
  /\ UNCHANGED <<disk, currentCluster, room, output>>

(* findFile, the malloc of the buffer and the start of readFile. *)
Capacity_NoSpare == disk.Size
Capacity == disk.Size + BytesPerSector

findFile ==
  /\ pc = "findFile"
  /\ \/ ~disk.named /\ Exit("-5", {"g_Fat", "g_RootDirectory"})
        /\ UNCHANGED <<currentCluster, room>>
     \/ disk.named
        /\ pc' = "readFile" /\ held' = held \cup {"buffer"}
        /\ currentCluster' = disk.FirstClusterLow
        /\ room' = Capacity
  /\ UNCHANGED <<disk, g_RootDirectoryEnd, output>>

-----------------------------------------------------------------------------
(* The FAT on the disk: two entries of twelve bits in three bytes.           *)
Entry(k) == IF k < disk.entries THEN disk.fat[k] ELSE 0
FatByte(i) ==
  LET low == Entry(2 * (i \div 3))
      high == Entry(2 * (i \div 3) + 1)
  IN IF i % 3 = 0 THEN low % 256
     ELSE IF i % 3 = 1 THEN low \div 256 + 16 * (high % 16)
     ELSE high \div 16

(* What readFile makes of it: the 16 bits at 3c/2, the lower or upper twelve. *)
NextCluster_NoShift(c) ==
  (FatByte((c * 3) \div 2) + 256 * FatByte((c * 3) \div 2 + 1)) % 4096
NextCluster_Stays(c) == c
NextCluster(c) ==
  LET word == FatByte((c * 3) \div 2) + 256 * FatByte((c * 3) \div 2 + 1)
  IN IF c % 2 = 0 THEN word % 4096 ELSE word \div 16

Lba(c) == g_RootDirectoryEnd + (c - 2) * disk.SectorsPerCluster

ClusterBytes == disk.SectorsPerCluster * BytesPerSector

(* One turn of the loop.  A cluster the disk does not have cannot be read;    *)
(* clusters 0 and 1 can: their sectors lie before the data.                   *)
ReadCluster ==
  /\ pc = "readFile"
  /\ room >= ClusterBytes
  /\ currentCluster < disk.entries /\ Lba(currentCluster) >= 0
  /\ output' = Append(output, Lba(currentCluster))
  /\ room' = room - ClusterBytes
  /\ currentCluster' = NextCluster(currentCluster)
  /\ pc' = IF currentCluster' < Eof THEN "readFile" ELSE "print"
  /\ UNCHANGED <<disk, held, g_RootDirectoryEnd>>

ReadFails ==
  /\ pc = "readFile"
  /\ Exit("-5", {"g_Fat", "g_RootDirectory", "buffer"})
  /\ UNCHANGED <<disk, g_RootDirectoryEnd, currentCluster, room, output>>

Overrun ==
  /\ pc = "readFile"
  /\ room < ClusterBytes
  /\ currentCluster < disk.entries /\ Lba(currentCluster) >= 0
  /\ pc' = "overrun"
  /\ UNCHANGED <<disk, held, g_RootDirectoryEnd, currentCluster, room, output>>

(* The file is printed, everything is freed. *)
PrintFile ==
  /\ pc = "print"
  /\ Exit("0", {"g_Fat", "g_RootDirectory", "buffer"})
  /\ UNCHANGED <<disk, g_RootDirectoryEnd, currentCluster, room, output>>

Next == readBootSector \/ readFat \/ readRootDirectory \/ findFile
        \/ ReadCluster \/ ReadFails \/ Overrun \/ PrintFile

Spec == Init /\ [][Next]_vars /\ WF_vars(Next)

-----------------------------------------------------------------------------
Exits == {"-2", "-3", "-4", "-5", "0"}

TypeOK ==
  /\ pc \in Exits \cup {"readBootSector", "readFat", "readRootDirectory", "findFile",
                      "readFile", "print", "overrun"}
  /\ disk \in Disks
  /\ held \subseteq {"g_Fat", "g_RootDirectory", "buffer"}
  /\ g_RootDirectoryEnd \in Nat /\ room \in Nat
  /\ currentCluster \in Links \cup {disk.FirstClusterLow}
  /\ output \in Seq(Nat)

(* A disk on which the file is what its directory entry says: the entry and  *)
(* the table lead along the chain, which has the clusters the size needs.    *)
WellFormed(d) ==
  LET n == Len(d.chain)
      bytes == d.SectorsPerCluster * BytesPerSector
  IN /\ d.named /\ n > 0
     /\ d.FirstClusterLow = d.chain[1]
     /\ \A k \in 1 .. n - 1 : d.fat[d.chain[k]] = d.chain[k + 1]
     /\ d.fat[d.chain[n]] >= Eof
     /\ (n - 1) * bytes < d.Size /\ d.Size <= n * bytes

(* Where FAT12 puts the data: behind the tables and the sectors that the      *)
(* root directory touches.                                                    *)
ClusterAt(d, c) ==
  LET root == CHOOSE n \in 0 .. EntrySize * d.DirEntryCount :
                /\ n * BytesPerSector >= EntrySize * d.DirEntryCount
                /\ (n - 1) * BytesPerSector < EntrySize * d.DirEntryCount
  IN d.ReservedSectors + d.SectorsPerFat * d.FatCount + root
     + (c - 2) * d.SectorsPerCluster

(* What is read are the clusters of the file, all of them and in order,       *)
(* whatever the layout of the disk and however the chain jumps about: the     *)
(* twelve-bit entries are unpacked right for odd and even clusters            *)
(* (try.c:106-125) and the data area is found (try.c:84-90).                  *)
ReadsFile ==
  LET n == Len(output)
      chain == disk.chain
  IN WellFormed(disk) /\ pc \in {"readFile", "print", "0"} =>
       /\ n <= Len(chain)
       /\ \A k \in 1 .. n : output[k] = ClusterAt(disk, chain[k])
       /\ pc = "readFile" => n < Len(chain) /\ currentCluster = chain[n + 1]
       /\ pc # "readFile" => n = Len(chain)

(* With clusters of one sector the spare sector of the buffer takes what the  *)
(* last cluster has more than the file (try.c:166).  Larger clusters may      *)
(* overrun it.                                                                *)
StaysInBuffer ==
  WellFormed(disk) /\ disk.SectorsPerCluster = 1 => pc # "overrun"

(* However main ends, and whichever of its calls failed, everything it has    *)
(* allocated is freed (try.c:140-185).                                        *)
NothingLeaked == pc \in Exits => held = {}

(* The loop of readFile ends for every file (try.c:122).                      *)
Ends == WellFormed(disk) /\ disk.SectorsPerCluster = 1 => <>(pc \in Exits)

=============================================================================
