----------------------------- MODULE Fat12Proofs -----------------------------
(***************************************************************************)
(* Proofs about Fat12 for all disks: any layout, any chain, any table.     *)
(***************************************************************************)
EXTENDS Fat12, SequenceTheorems, TLAPS

(* The fields of the disk at hand. *)
LEMMA DiskFields ==
  ASSUME disk \in Disks
  PROVE  /\ disk.ReservedSectors \in Nat /\ disk.FatCount \in Nat
         /\ disk.SectorsPerFat \in Nat /\ disk.DirEntryCount \in Nat
         /\ disk.SectorsPerCluster \in Nat \ {0}
         /\ disk.entries \in Nat \ {0} /\ disk.entries <= Eof
         /\ disk.fat \in [0 .. disk.entries - 1 -> Links]
         /\ disk.FirstClusterLow \in Nat /\ disk.Size \in Nat
         /\ disk.chain \in Seq(2 .. disk.entries - 1)
<1>1. DiskType(disk)
  BY Fat12Assumption
<1>2. QED
  BY <1>1 DEF DiskType

(* Quotients and remainders by the constants of the packing. *)
LEMMA Div3 ==
  ASSUME NEW q \in Nat, NEW r \in 0 .. 2
  PROVE  (3 * q + r) \div 3 = q /\ (3 * q + r) % 3 = r
OBVIOUS

(* The quotient by 16 forgets what is less than 16. *)
LEMMA Div16 ==
  ASSUME NEW q \in Nat, NEW r \in 0 .. 15 PROVE (16 * q + r) \div 16 = q
OBVIOUS

(* The remainder by 4096 is the lower twelve bits. *)
LEMMA Div4096 ==
  ASSUME NEW q \in Nat, NEW r \in Links PROVE (4096 * q + r) % 4096 = r
BY DEF Links

(* An entry is a byte and a half. *)
LEMMA Split16 ==
  ASSUME NEW n \in Links
  PROVE  n \div 16 \in 0 .. 255 /\ n % 16 \in 0 .. 15 /\ n = 16 * (n \div 16) + (n % 16)
<1>1. n \div 16 \in 0 .. 255
  BY DEF Links
<1>2. n % 16 \in 0 .. 15
  BY DEF Links
<1>3. n = 16 * (n \div 16) + (n % 16)
  BY DEF Links
<1>4. QED
  BY <1>1, <1>2, <1>3

(* Or half a byte and a byte. *)
LEMMA Split256 ==
  ASSUME NEW n \in Links
  PROVE  n \div 256 \in 0 .. 15 /\ n % 256 \in 0 .. 255 /\ n = 256 * (n \div 256) + (n % 256)
<1>1. n \div 256 \in 0 .. 15
  BY DEF Links
<1>2. n % 256 \in 0 .. 255
  BY DEF Links
<1>3. n = 256 * (n \div 256) + (n % 256)
  BY DEF Links
<1>4. QED
  BY <1>1, <1>2, <1>3

(* Twelve bits in two bytes: what packing splits, unpacking puts together. *)
LEMMA UnpackEven ==
  ASSUME NEW low \in Links, NEW high \in Links
  PROVE  ((low % 256) + 256 * (low \div 256 + 16 * (high % 16))) % 4096 = low
<1>1. PICK l \in 0 .. 15, m \in 0 .. 255 :
        low = 256 * l + m /\ l = low \div 256 /\ m = low % 256
  BY Split256
<1>2. PICK h \in 0 .. 15 : h = high % 16
  BY Split16
<1>3. m + 256 * (l + 16 * h) = 4096 * h + low /\ h \in Nat
  BY <1>1
<1>4. QED
  BY <1>1, <1>2, <1>3, Div4096

(* An odd entry: the upper twelve bits of its word. *)
LEMMA UnpackOdd ==
  ASSUME NEW low \in Links, NEW high \in Links
  PROVE  (low \div 256 + 16 * (high % 16) + 256 * (high \div 16)) \div 16 = high
<1>1. PICK l \in 0 .. 15 : l = low \div 256
  BY Split256
<1>2. PICK h \in 0 .. 255, k \in 0 .. 15 :
        high = 16 * h + k /\ h = high \div 16 /\ k = high % 16
  BY Split16
<1>3. l + 16 * k + 256 * h = 16 * high + l /\ high \in Nat
  BY <1>2
<1>4. QED
  BY <1>1, <1>2, <1>3, Div16

(* A cluster is even or odd, and where its two bytes are. *)
LEMMA Parity ==
  ASSUME NEW c \in Nat
  PROVE  \E m \in Nat :
           \/ c = 2 * m /\ c % 2 = 0 /\ (c * 3) \div 2 = 3 * m
           \/ c = 2 * m + 1 /\ c % 2 = 1 /\ (c * 3) \div 2 = 3 * m + 1
<1>1. \E m \in Nat : (c = 2 * m /\ c % 2 = 0) \/ (c = 2 * m + 1 /\ c % 2 = 1)
  <2>1. c \div 2 \in Nat /\ (c = 2 * (c \div 2) \/ c = 2 * (c \div 2) + 1)
    OBVIOUS
  <2>2. QED
    BY <2>1
<1>2. \A m \in Nat : (2 * m * 3) \div 2 = 3 * m /\ ((2 * m + 1) * 3) \div 2 = 3 * m + 1
  OBVIOUS
<1>3. QED
  BY <1>1, <1>2

(* readFile reads the entry of every cluster the table has (try.c:116-120). *)
LEMMA NextClusterIsEntry ==
  ASSUME disk \in Disks, NEW c \in 0 .. disk.entries - 1
  PROVE  NextCluster(c) = disk.fat[c]
<1>f. disk.fat \in [0 .. disk.entries - 1 -> Links] /\ disk.entries \in Nat \ {0}
  BY DiskFields
<1>g. disk.entries \in Nat
  BY <1>f
<1>z. 0 \in Links
  BY DEF Links
<1>t. \A k \in Nat : Entry(k) \in Links
  BY <1>f, <1>g, <1>z DEF Entry
<1>e. Entry(c) = disk.fat[c]
  BY <1>g DEF Entry
<1>n. c \in Nat
  BY <1>g
<1>p. PICK m \in Nat :
         \/ c = 2 * m /\ c % 2 = 0 /\ (c * 3) \div 2 = 3 * m
         \/ c = 2 * m + 1 /\ c % 2 = 1 /\ (c * 3) \div 2 = 3 * m + 1
  BY <1>n, Parity
<1>d. /\ (3 * m) \div 3 = m /\ (3 * m) % 3 = 0
      /\ (3 * m + 1) \div 3 = m /\ (3 * m + 1) % 3 = 1
      /\ (3 * m + 2) \div 3 = m /\ (3 * m + 2) % 3 = 2
  OBVIOUS
<1>l. PICK low \in Links : low = Entry(2 * m)
  BY <1>t
<1>h. PICK high \in Links : high = Entry(2 * m + 1)
  BY <1>t
<1>b. /\ FatByte(3 * m) = low % 256
      /\ FatByte(3 * m + 1) = low \div 256 + 16 * (high % 16)
      /\ FatByte(3 * m + 2) = high \div 16
  BY <1>d, <1>l, <1>h DEF FatByte
<1>1. CASE c = 2 * m /\ c % 2 = 0 /\ (c * 3) \div 2 = 3 * m
  <2>1. NextCluster(c) = (FatByte(3 * m) + 256 * FatByte(3 * m + 1)) % 4096
    BY <1>1 DEF NextCluster
  <2>2. NextCluster(c) = low
    BY <1>b, <2>1, UnpackEven
  <2>3. QED
    BY <1>e, <1>l, <1>1, <2>2
<1>2. CASE c = 2 * m + 1 /\ c % 2 = 1 /\ (c * 3) \div 2 = 3 * m + 1
  <2>1. NextCluster(c) = (FatByte(3 * m + 1) + 256 * FatByte(3 * m + 1 + 1)) \div 16
    BY <1>2 DEF NextCluster
  <2>2. 3 * m + 1 + 1 = 3 * m + 2
    OBVIOUS
  <2>3. NextCluster(c) = high
    BY <1>b, <2>1, <2>2, UnpackOdd
  <2>4. QED
    BY <1>e, <1>h, <1>2, <2>3
<1>3. QED
  BY <1>p, <1>1, <1>2

-----------------------------------------------------------------------------
(* The sizes of the layout are numbers. *)
LEMMA SizesType ==
  ASSUME disk \in Disks
  PROVE  /\ ClusterBytes \in Nat /\ Capacity \in Nat
         /\ EntrySize * disk.DirEntryCount \in Nat
         /\ disk.SectorsPerFat * disk.FatCount \in Nat
<1>1. \A a \in Nat, b \in Nat : a * b \in Nat
  OBVIOUS
<1>2. ClusterBytes \in Nat
  BY <1>1, DiskFields, Fat12Assumption DEF ClusterBytes
<1>3. Capacity \in Nat
  BY DiskFields, Fat12Assumption DEF Capacity
<1>4. EntrySize * disk.DirEntryCount \in Nat
  BY <1>1, DiskFields, Fat12Assumption
<1>5. disk.SectorsPerFat * disk.FatCount \in Nat
  BY <1>1, DiskFields
<1>6. QED
  BY <1>2, <1>3, <1>4, <1>5

(* The sectors of the root directory are a number. *)
LEMMA RootSectorsType ==
  ASSUME disk \in Disks
  PROVE  RootSectors \in Nat
<1>1. EntrySize * disk.DirEntryCount \in Nat
  BY SizesType
<1>2. \A x \in Nat, b \in Nat \ {0} : x \div b \in Nat
  OBVIOUS
<1>3. (EntrySize * disk.DirEntryCount) \div BytesPerSector \in Nat
  BY <1>1, <1>2, Fat12Assumption
<1>4. \A q \in Nat : q + 1 \in Nat /\ q + 0 \in Nat
  OBVIOUS
<1>5. QED
  BY <1>3, <1>4 DEF RootSectors

(* Every step keeps the types. *)
LEMMA TypeInductive == /\ Init => TypeOK
                       /\ TypeOK /\ [Next]_vars => TypeOK'
<1>1. Init => TypeOK
  <2>1. ASSUME Init PROVE TypeOK
    <3>1. disk \in Disks /\ 0 \in Links
      BY <2>1 DEF Init, Links
    <3>2. QED
      BY <2>1, <3>1 DEF Init, TypeOK
  <2>2. QED
    BY <2>1
<1>2. TypeOK /\ [Next]_vars => TypeOK'
  <2> SUFFICES ASSUME TypeOK, [Next]_vars PROVE TypeOK'
    OBVIOUS
  <2>f. DiskType(disk) /\ disk \in Disks
    BY Fat12Assumption DEF TypeOK
  <2>1. CASE readBootSector
    BY <2>1 DEF readBootSector, Exit, TypeOK, Exits
  <2>2. CASE readFat
    BY <2>2 DEF readFat, Exit, TypeOK, Exits
  <2>3. CASE readRootDirectory
    <3>1. g_RootDirectoryEnd' \in Nat
      <4>1. /\ disk.ReservedSectors \in Nat /\ RootSectors \in Nat
            /\ disk.SectorsPerFat * disk.FatCount \in Nat
        BY <2>f, RootSectorsType, SizesType, DiskFields
      <4>2. \A a \in Nat, b \in Nat, n \in Nat : a + b + n \in Nat
        OBVIOUS
      <4>3. g_RootDirectoryEnd' = disk.ReservedSectors + disk.SectorsPerFat * disk.FatCount + RootSectors
        BY <2>3 DEF readRootDirectory
      <4>4. QED
        BY <4>1, <4>2, <4>3
    <3>2. QED
      BY <2>3, <3>1 DEF readRootDirectory, Exit, TypeOK, Exits
  <2>4. CASE findFile
    BY <2>4, <2>f, SizesType DEF findFile, Exit, TypeOK, Exits
  <2>5. CASE ReadCluster
    <3>1. currentCluster \in 0 .. disk.entries - 1 /\ currentCluster \in Nat
      <4>1. currentCluster \in Nat
        BY <2>f, DiskFields DEF TypeOK, Links
      <4>2. QED
        BY <2>5, <4>1, <2>f, DiskFields DEF ReadCluster
    <3>2. currentCluster' \in Links
      <4>1. currentCluster' = disk.fat[currentCluster]
        BY <2>5, <2>f, <3>1, NextClusterIsEntry DEF ReadCluster
      <4>2. disk.fat \in [0 .. disk.entries - 1 -> Links]
        BY <2>f, DiskFields
      <4>3. QED
        BY <4>1, <4>2, <3>1
    <3>3. room' \in Nat
      BY <2>5, <2>f, SizesType DEF ReadCluster, TypeOK
    <3>4. Lba(currentCluster) \in Nat
      <4>1. (currentCluster - 2) * disk.SectorsPerCluster \in Int
        BY <3>1, <2>f, DiskFields
      <4>2. Lba(currentCluster) \in Int
        BY <4>1 DEF Lba, TypeOK
      <4>3. QED
        BY <2>5, <4>2 DEF ReadCluster
    <3>5. output' \in Seq(Nat)
      BY <2>5, <3>4 DEF ReadCluster, TypeOK
    <3>6. pc' \in {"readFile", "print"} /\ UNCHANGED <<disk, held, g_RootDirectoryEnd>>
      BY <2>5 DEF ReadCluster
    <3>7. QED
      BY <3>2, <3>3, <3>5, <3>6 DEF TypeOK
  <2>6. CASE ReadFails
    BY <2>6 DEF ReadFails, Exit, TypeOK, Exits
  <2>7. CASE Overrun
    BY <2>7 DEF Overrun, TypeOK
  <2>8. CASE PrintFile
    BY <2>8 DEF PrintFile, Exit, TypeOK, Exits
  <2>9. CASE UNCHANGED vars
    BY <2>9 DEF vars, TypeOK
  <2>10. QED
    BY <2>1, <2>2, <2>3, <2>4, <2>5, <2>6, <2>7, <2>8, <2>9 DEF Next
<1>3. QED
  BY <1>1, <1>2

(* The types, for every disk (try.c:57-60, 106-125). *)
THEOREM TypeCorrect == Spec => []TypeOK
<1>1. QED
  BY TypeInductive, PTL DEF Spec

-----------------------------------------------------------------------------
(* What is allocated at each call of main. *)
HeldInv ==
  /\ pc \in {"readBootSector", "readFat"} => held = {}
  /\ pc = "readRootDirectory" => held = {"g_Fat"}
  /\ pc = "findFile" => held = {"g_Fat", "g_RootDirectory"}
  /\ pc \in {"readFile", "print"} => held = {"g_Fat", "g_RootDirectory", "buffer"}
  /\ NothingLeaked

(* Every way out of main frees what was allocated (try.c:140-185). *)
THEOREM NothingLeakedCorrect == Spec => []NothingLeaked
<1>1. Init => HeldInv
  BY DEF Init, HeldInv, NothingLeaked, Exits
<1>2. HeldInv /\ [Next]_vars => HeldInv'
  <2> SUFFICES ASSUME HeldInv, [Next]_vars PROVE HeldInv'
    OBVIOUS
  <2> USE DEF HeldInv, NothingLeaked, Exits, Exit
  <2>1. CASE readBootSector
    BY <2>1 DEF readBootSector
  <2>2. CASE readFat
    BY <2>2 DEF readFat
  <2>3. CASE readRootDirectory
    BY <2>3 DEF readRootDirectory
  <2>4. CASE findFile
    BY <2>4 DEF findFile
  <2>5. CASE ReadCluster
    BY <2>5 DEF ReadCluster
  <2>6. CASE ReadFails
    BY <2>6 DEF ReadFails
  <2>7. CASE Overrun
    BY <2>7 DEF Overrun
  <2>8. CASE PrintFile
    BY <2>8 DEF PrintFile
  <2>9. CASE UNCHANGED vars
    BY <2>9 DEF vars
  <2>10. QED
    BY <2>1, <2>2, <2>3, <2>4, <2>5, <2>6, <2>7, <2>8, <2>9 DEF Next
<1>3. HeldInv => NothingLeaked
  BY DEF HeldInv
<1>4. QED
  BY <1>1, <1>2, <1>3, PTL DEF Spec

-----------------------------------------------------------------------------
(* At most one number of blocks is the least that holds x. *)
LEMMA LeastUnique ==
  ASSUME NEW b \in Nat \ {0}, NEW x \in Nat, NEW m \in Nat, NEW n \in Nat,
         m * b >= x, (m - 1) * b < x, n * b >= x, (n - 1) * b < x
  PROVE  m = n
<1>1. \A i \in Nat, j \in Nat : i < j => i * b <= (j - 1) * b
  <2> SUFFICES ASSUME NEW i \in Nat, NEW j \in Nat, i < j PROVE i * b <= (j - 1) * b
    OBVIOUS
  <2>1. (j - 1) * b = i * b + (j - 1 - i) * b
    OBVIOUS
  <2>2. (j - 1 - i) \in Nat
    OBVIOUS
  <2>3. \A k \in Nat : k * b \in Nat
    OBVIOUS
  <2>4. QED
    BY <2>1, <2>2, <2>3
<1>2. ~(m < n)
  <2>1. m < n => m * b <= (n - 1) * b
    BY <1>1
  <2>2. m * b \in Int /\ (n - 1) * b \in Int
    OBVIOUS
  <2>3. QED
    BY <2>1, <2>2
<1>3. ~(n < m)
  <2>1. n < m => n * b <= (m - 1) * b
    BY <1>1
  <2>2. n * b \in Int /\ (m - 1) * b \in Int
    OBVIOUS
  <2>3. QED
    BY <2>1, <2>2
<1>4. QED
  BY <1>2, <1>3

(* A quotient that is rounded up is that number. *)
LEMMA RoundedUp ==
  ASSUME NEW x \in Nat, NEW b \in Nat \ {0}, NEW n \in Nat,
         n = x \div b + (IF x % b > 0 THEN 1 ELSE 0)
  PROVE  n * b >= x /\ (n - 1) * b < x /\ n <= x
<1>1. PICK q \in Nat : q = x \div b
  OBVIOUS
<1>2. PICK r \in 0 .. b - 1 : r = x % b
  OBVIOUS
<1>3. x = q * b + r
  BY <1>1, <1>2
<1>4. q * b \in Nat /\ q <= q * b
  <2>1. \A k \in Nat : q * (k + 1) = q * k + q /\ q * k \in Nat
    OBVIOUS
  <2>2. b - 1 \in Nat /\ b = (b - 1) + 1
    OBVIOUS
  <2>3. q * b = q * (b - 1) + q /\ q * (b - 1) \in Nat
    BY <2>1, <2>2
  <2>4. QED
    BY <2>3
<1>5. CASE r = 0
  <2>1. n = q
    BY <1>1, <1>2, <1>5
  <2>2. (q - 1) * b = q * b - b
    OBVIOUS
  <2>3. QED
    BY <1>3, <1>4, <1>5, <2>1, <2>2
<1>6. CASE r > 0
  <2>1. n = q + 1
    BY <1>1, <1>2, <1>6
  <2>2. (q + 1) * b = q * b + b /\ (q + 1) - 1 = q
    OBVIOUS
  <2>3. QED
    BY <1>3, <1>4, <1>6, <2>1, <2>2
<1>7. QED
  BY <1>2, <1>5, <1>6

(* readRootDirectory finds where the data begins (try.c:84-90). *)
LEMMA RootSectorsIsLeast ==
  ASSUME disk \in Disks
  PROVE  RootSectors = CHOOSE n \in 0 .. EntrySize * disk.DirEntryCount :
           /\ n * BytesPerSector >= EntrySize * disk.DirEntryCount
           /\ (n - 1) * BytesPerSector < EntrySize * disk.DirEntryCount
<1> DEFINE x == EntrySize * disk.DirEntryCount
           P(n) == n * BytesPerSector >= x /\ (n - 1) * BytesPerSector < x
<1>1. x \in Nat /\ BytesPerSector \in Nat \ {0} /\ RootSectors \in Nat
  BY SizesType, RootSectorsType, Fat12Assumption
<1>2. RootSectors = x \div BytesPerSector + (IF x % BytesPerSector > 0 THEN 1 ELSE 0)
  BY DEF RootSectors
<1> HIDE DEF x
<1>3. P(RootSectors) /\ RootSectors \in 0 .. x
  <2>1. /\ RootSectors * BytesPerSector >= x
        /\ (RootSectors - 1) * BytesPerSector < x
        /\ RootSectors <= x
    BY <1>1, <1>2, RoundedUp, Zenon
  <2>2. QED
    BY <1>1, <2>1
<1>4. \A n \in 0 .. x : P(n) => n = RootSectors
  BY <1>1, <1>3, LeastUnique
<1> HIDE DEF P
<1>5. RootSectors = CHOOSE n \in 0 .. x : P(n)
  BY <1>3, <1>4
<1>6. QED
  BY <1>5 DEF x, P

-----------------------------------------------------------------------------
(* Where the data area is, from the moment main knows it; how the buffer      *)
(* fills, and that it never overruns.                                         *)
AreaInv ==
  /\ pc \in {"readBootSector", "readFat", "readRootDirectory", "findFile"} => output = <<>>
  /\ pc \in {"findFile", "readFile", "print", "0"} =>
       g_RootDirectoryEnd =
         disk.ReservedSectors + disk.SectorsPerFat * disk.FatCount + RootSectors

RoomInv == pc = "readFile" => room + Len(output) * ClusterBytes = Capacity

FileInv == TypeOK /\ AreaInv /\ RoomInv /\ ReadsFile /\ StaysInBuffer

(* The clusters of a file are entries of the table. *)
LEMMA ChainFields ==
  ASSUME disk \in Disks, WellFormed(disk), NEW k \in 1 .. Len(disk.chain)
  PROVE  /\ Len(disk.chain) \in Nat \ {0}
         /\ disk.chain[k] \in 0 .. disk.entries - 1 /\ disk.chain[k] < Eof
<1>1. disk.chain \in Seq(2 .. disk.entries - 1)
  BY DiskFields
<1>2. disk.chain[k] \in 2 .. disk.entries - 1
  BY <1>1, ElementOfSeq
<1>3. disk.entries \in Nat /\ disk.entries <= Eof /\ Eof \in Nat
  BY DiskFields DEF Eof
<1>4. Len(disk.chain) \in Nat /\ Len(disk.chain) > 0
  BY <1>1 DEF WellFormed
<1>5. disk.chain[k] < Eof
  BY <1>2, <1>3
<1>6. QED
  BY <1>2, <1>3, <1>4, <1>5

(* A cluster read is the next one of the chain. *)
LEMMA ReadClusterKeepsFile ==
  ASSUME TypeOK, AreaInv, ReadsFile, ReadCluster
  PROVE  ReadsFile'
<1> SUFFICES ASSUME WellFormed(disk)
             PROVE  ReadsFile'
  BY DEF ReadsFile, ReadCluster
<1> DEFINE n == Len(output)
<1>d. disk \in Disks /\ disk' = disk /\ pc = "readFile"
  BY DEF TypeOK, ReadCluster
<1>1. /\ n < Len(disk.chain) /\ currentCluster = disk.chain[n + 1]
      /\ \A k \in 1 .. n : output[k] = ClusterAt(disk, disk.chain[k])
  BY <1>d DEF ReadsFile
<1>t. n \in Nat /\ n + 1 \in Nat /\ Len(disk.chain) \in Nat /\ output \in Seq(Nat)
  BY <1>d, DiskFields DEF TypeOK
<1>2. n + 1 \in 1 .. Len(disk.chain)
  BY <1>1, <1>t
<1>3. currentCluster \in 0 .. disk.entries - 1
  BY <1>d, <1>1, <1>2, ChainFields
<1>4. Lba(currentCluster) = ClusterAt(disk, disk.chain[n + 1])
  <2>1. g_RootDirectoryEnd =
          disk.ReservedSectors + disk.SectorsPerFat * disk.FatCount + RootSectors
    BY <1>d DEF AreaInv
  <2>2. QED
    BY <1>d, <1>1, <2>1, RootSectorsIsLeast DEF Lba, ClusterAt
<1>5. currentCluster' = disk.fat[disk.chain[n + 1]]
  BY <1>d, <1>1, <1>3, NextClusterIsEntry DEF ReadCluster
<1>6. output' = Append(output, Lba(currentCluster)) /\ Lba(currentCluster) \in Nat
  <2>1. (currentCluster - 2) * disk.SectorsPerCluster \in Int
    BY <1>d, <1>3, DiskFields
  <2>2. Lba(currentCluster) \in Int
    BY <2>1 DEF Lba, TypeOK
  <2>3. QED
    BY <2>2 DEF ReadCluster
<1>7. Len(output') = n + 1
  BY <1>6, <1>t
<1>8. \A k \in 1 .. n + 1 : output'[k] = ClusterAt(disk, disk.chain[k])
  <2>1. output'[n + 1] = ClusterAt(disk, disk.chain[n + 1])
    BY <1>4, <1>6, <1>t
  <2>2. \A k \in 1 .. n : output'[k] = output[k]
    BY <1>6, <1>t
  <2>3. QED
    BY <1>1, <1>t, <2>1, <2>2
<1>9. CASE n + 1 < Len(disk.chain)
  <2>1. n + 1 \in 1 .. Len(disk.chain) - 1 /\ n + 2 \in 1 .. Len(disk.chain)
    BY <1>9, <1>t
  <2>2. disk.fat[disk.chain[n + 1]] = disk.chain[n + 1 + 1]
    BY <2>1 DEF WellFormed
  <2>3. currentCluster' = disk.chain[n + 2] /\ disk.chain[n + 2] < Eof
    <3>1. n + 1 + 1 = n + 2
      BY <1>t
    <3>2. QED
      BY <1>d, <1>5, <2>1, <2>2, <3>1, ChainFields
  <2>4. pc' = "readFile"
    BY <2>3 DEF ReadCluster
  <2>5. n + 1 + 1 = n + 2
    BY <1>t
  <2>6. currentCluster' = disk.chain[n + 1 + 1]
    BY <2>3, <2>5
  <2>7. n + 1 <= Len(disk.chain)
    BY <1>9, <1>t
  <2>8. QED
    BY <1>d, <1>7, <1>8, <1>9, <2>4, <2>6, <2>7 DEF ReadsFile
<1>10. CASE n + 1 = Len(disk.chain)
  <2>1. disk.fat[disk.chain[n + 1]] >= Eof
    BY <1>10 DEF WellFormed
  <2>2. currentCluster' \in Nat
    <3>1. disk.fat \in [0 .. disk.entries - 1 -> Links]
      BY <1>d, DiskFields
    <3>2. disk.fat[disk.chain[n + 1]] \in Links
      BY <1>1, <1>3, <3>1
    <3>3. Links \subseteq Nat
      BY DEF Links
    <3>4. QED
      BY <1>5, <3>2, <3>3
  <2>3. ~(currentCluster' < Eof)
    BY <1>5, <2>1, <2>2 DEF Eof
  <2>4. pc' = "print"
    BY <2>3 DEF ReadCluster
  <2>5. n + 1 <= Len(disk.chain)
    BY <1>10, <1>t
  <2>6. QED
    BY <1>d, <1>7, <1>8, <1>10, <2>4, <2>5 DEF ReadsFile
<1>11. n + 1 < Len(disk.chain) \/ n + 1 = Len(disk.chain)
  BY <1>2, <1>t
<1>12. QED
  BY <1>9, <1>10, <1>11

(* Every step keeps the place in the chain. *)
LEMMA FileInductive ==
  /\ Init => FileInv
  /\ FileInv /\ [Next]_vars => FileInv'
<1>1. Init => AreaInv /\ RoomInv /\ ReadsFile /\ StaysInBuffer
  BY DEF Init, AreaInv, RoomInv, ReadsFile, StaysInBuffer
<1>2. ASSUME FileInv, [Next]_vars PROVE (AreaInv /\ RoomInv /\ ReadsFile /\ StaysInBuffer)'
  <2> USE <1>2 DEF FileInv
  <2>d. disk \in Disks /\ disk.chain \in Seq(2 .. disk.entries - 1)
    BY DiskFields DEF TypeOK
  <2>1. CASE readBootSector
    BY <2>1 DEF readBootSector, Exit, AreaInv, RoomInv, ReadsFile, StaysInBuffer
  <2>2. CASE readFat
    BY <2>2 DEF readFat, Exit, AreaInv, RoomInv, ReadsFile, StaysInBuffer
  <2>3. CASE readRootDirectory
    <3>1. RootSectors' = RootSectors
      BY <2>3 DEF readRootDirectory, RootSectors
    <3>2. QED
      BY <2>3, <3>1 DEF readRootDirectory, Exit, AreaInv, RoomInv, ReadsFile, StaysInBuffer
  <2>4. CASE findFile
    <3>1. output' = <<>> /\ Len(output') = 0 /\ disk' = disk
      BY <2>4 DEF findFile, AreaInv
    <3>2. RootSectors' = RootSectors /\ Capacity' = Capacity /\ ClusterBytes' = ClusterBytes
      BY <3>1 DEF RootSectors, Capacity, ClusterBytes
    <3>3. CASE ~disk.named
      BY <2>4, <3>1, <3>2, <3>3
         DEF findFile, Exit, AreaInv, RoomInv, ReadsFile, StaysInBuffer
    <3>4. CASE disk.named
      <4>1. /\ pc' = "readFile" /\ room' = Capacity
            /\ currentCluster' = disk.FirstClusterLow
            /\ g_RootDirectoryEnd' = g_RootDirectoryEnd
        BY <2>4, <3>4 DEF findFile
      <4>2. AreaInv' /\ StaysInBuffer'
        BY <2>4, <3>1, <3>2, <4>1 DEF findFile, AreaInv, StaysInBuffer
      <4>3. RoomInv'
        <5>1. Capacity + 0 * ClusterBytes = Capacity
          BY <2>d, SizesType
        <5>2. QED
          BY <3>1, <3>2, <4>1, <5>1 DEF RoomInv
      <4>4. ReadsFile'
        <5>1. ASSUME WellFormed(disk)
              PROVE  0 < Len(disk.chain) /\ disk.FirstClusterLow = disk.chain[0 + 1]
          <6>1. 0 + 1 = 1 /\ Len(disk.chain) \in Nat
            BY <2>d
          <6>2. QED
            BY <5>1, <6>1 DEF WellFormed
        <5>2. QED
          BY <2>d, <3>1, <4>1, <5>1 DEF ReadsFile
      <4>5. QED
        BY <4>2, <4>3, <4>4
    <3>5. QED
      BY <3>3, <3>4
  <2>5. CASE ReadCluster
    <3>1. ReadsFile'
      BY <2>5, ReadClusterKeepsFile
    <3>2. /\ RootSectors' = RootSectors /\ Capacity' = Capacity /\ ClusterBytes' = ClusterBytes
          /\ pc' \in {"readFile", "print"} /\ pc = "readFile"
      BY <2>5 DEF ReadCluster, RootSectors, Capacity, ClusterBytes
    <3>3. AreaInv' /\ StaysInBuffer'
      BY <2>5, <3>2 DEF ReadCluster, AreaInv, StaysInBuffer
    <3>4. RoomInv'
      <4>1. Len(output') = Len(output) + 1 /\ Len(output) \in Nat
        BY <2>5 DEF ReadCluster, TypeOK
      <4>2. \A l \in Nat, b \in Nat, r \in Nat : r - b + (l + 1) * b = r + l * b
        OBVIOUS
      <4>3. room' + Len(output') * ClusterBytes = room + Len(output) * ClusterBytes
        BY <2>5, <2>d, <4>1, <4>2, SizesType DEF ReadCluster, TypeOK
      <4>4. QED
        BY <3>2, <4>3 DEF RoomInv
    <3>5. QED
      BY <3>1, <3>3, <3>4
  <2>6. CASE ReadFails
    BY <2>6 DEF ReadFails, Exit, AreaInv, RoomInv, ReadsFile, StaysInBuffer
  <2>7. CASE Overrun
    <3>1. AreaInv' /\ RoomInv' /\ ReadsFile'
      BY <2>7 DEF Overrun, AreaInv, RoomInv, ReadsFile
    <3>2. ASSUME WellFormed(disk), disk.SectorsPerCluster = 1 PROVE FALSE
      <4>1. ClusterBytes = BytesPerSector /\ BytesPerSector \in Nat
        BY <3>2, Fat12Assumption DEF ClusterBytes
      <4>2. room < ClusterBytes /\ room + Len(output) * ClusterBytes = Capacity
        BY <2>7 DEF Overrun, RoomInv
      <4>3. Len(output) < Len(disk.chain)
        BY <2>7, <3>2 DEF Overrun, ReadsFile
      <4>4. (Len(disk.chain) - 1) * BytesPerSector < disk.Size
        BY <3>2, <4>1 DEF WellFormed, ClusterBytes
      <4>5. Len(output) \in Nat /\ Len(disk.chain) \in Nat /\ room \in Nat
        BY <2>d DEF TypeOK
      <4>6. disk.Size \in Nat
        BY <2>d, DiskFields
      <4>7. Len(output) * BytesPerSector <= (Len(disk.chain) - 1) * BytesPerSector
        <5>1. \A i \in Nat, j \in Nat, b \in Nat :
                i < j => (j - 1) * b = i * b + (j - 1 - i) * b /\ (j - 1 - i) * b \in Nat
          OBVIOUS
        <5>2. \A i \in Nat, b \in Nat : i * b \in Nat
          OBVIOUS
        <5>3. QED
          BY <4>1, <4>3, <4>5, <5>1, <5>2
      <4>8. Len(output) * BytesPerSector \in Nat /\ (Len(disk.chain) - 1) * BytesPerSector \in Int
        BY <4>1, <4>5
      <4>9. QED
        BY <4>1, <4>2, <4>4, <4>5, <4>6, <4>7, <4>8 DEF Capacity
    <3>3. StaysInBuffer'
      BY <2>7, <3>2 DEF Overrun, StaysInBuffer
    <3>4. QED
      BY <3>1, <3>3
  <2>8. CASE PrintFile
    <3>1. RootSectors' = RootSectors /\ Capacity' = Capacity /\ ClusterBytes' = ClusterBytes
      BY <2>8 DEF PrintFile, RootSectors, Capacity, ClusterBytes
    <3>2. QED
      BY <2>8, <3>1 DEF PrintFile, Exit, AreaInv, RoomInv, ReadsFile, StaysInBuffer
  <2>9. CASE UNCHANGED vars
    BY <2>9 DEF vars, AreaInv, RoomInv, ReadsFile, StaysInBuffer, RootSectors, Capacity, ClusterBytes
  <2>10. QED
    BY <2>1, <2>2, <2>3, <2>4, <2>5, <2>6, <2>7, <2>8, <2>9 DEF Next
<1>3. Init => TypeOK
  BY TypeInductive
<1>4. TypeOK /\ [Next]_vars => TypeOK'
  BY TypeInductive
<1>5. QED
  BY <1>1, <1>2, <1>3, <1>4 DEF FileInv

(* For every disk on which the file is what its entry says, its clusters are   *)
(* read in order and in full (try.c:84-125).                                   *)
THEOREM ReadsFileCorrect == Spec => []ReadsFile
<1>1. FileInv => ReadsFile
  BY DEF FileInv
<1>2. QED
  BY FileInductive, <1>1, PTL DEF Spec

(* With one sector for each cluster the buffer always has room (try.c:166).    *)
THEOREM StaysInBufferCorrect == Spec => []StaysInBuffer
<1>1. FileInv => StaysInBuffer
  BY DEF FileInv
<1>2. QED
  BY FileInductive, <1>1, PTL DEF Spec

=============================================================================
