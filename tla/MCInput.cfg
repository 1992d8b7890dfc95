CONSTANTS
  NKeys = 2
  NPackets = 2
  Leftover = 2
  ShiftKeys <- MCShiftKeys
  WarmUp = 1
  TickMod = 2
  Controllers <- MCControllers
SPECIFICATION Spec
CHECK_DEADLOCK FALSE
INVARIANTS
  KeyFaithful
  KeysConserved
  KeysOnce
  PacketsWhole
  DiscardInsidePacket
  EoiBalanced
PROPERTIES
  KeysArrive
  BytesConsumed
