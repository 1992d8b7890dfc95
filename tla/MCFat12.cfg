CONSTANTS
  Disks <- MCDisks
  BytesPerSector = 512
  EntrySize = 32
SPECIFICATION Spec
CHECK_DEADLOCK FALSE
INVARIANTS
  ReadsFile
  StaysInBuffer
  
 
