CONSTANTS
  BlockSize = 4
  WordBits = 4
  EnumB = 6
  UIntMod = 64
  KernelStart = 7
  KernelEnd = 26
  Smaps <- MCSmaps
SPECIFICATION Spec
CHECK_DEADLOCK FALSE
INVARIANT AvailableMapped
