CONSTANTS
  Polls = 2
  BiosBytes <- MCBiosBytes
  Scancodes <- MCScancodes
  MaxKeys = 2
SPECIFICATION HandshakeSpec
CHECK_DEADLOCK FALSE
INVARIANTS
  
  MouseReports
  CommandByteKept
  UnreadAreLast
PROPERTY InitEnds
