CONSTANTS
  Letters <- MCLetters
  H = "h"
  NUL = "NUL"
  Names <- MCNames
  BufLen = 4
  Memories <- MCMemories
  UInt = 65536
SPECIFICATION Spec
CHECK_DEADLOCK FALSE
INVARIANTS
  TypeOK
  RunsWhatWasTyped
  
