CONSTANTS
  Sizes = {0, 3, 8}
  PageBytes = 8
  AddrStart = 42
  BumpStart = 18
  AddrLimit = 90
  BLOCK_SIZE = 4
  WordBits = 4
  VisibleBits = 1
  UInt = 65536
  Slots = 3
  HeapStart = 40
  padding = 4
  Pages = {"e1"}
  EntryKinds <- MCEntryKinds
  PAGE_SIZE = 4096
  PAGES_PER_TABLE = 1024
  MemSize = 50
  UsableBase = 0
  UsableSize = 48
  KernelBase = 4
  KernelSize = 4
  Clients = {"a", "b", "c"}
  Asks = {1, 2}
  HeapTypes = {4}
  HeapAsks = {1, 12}
  Virts = {0, 4096, 8192}
  MaxCalls = 5
SPECIFICATION Spec
CHECK_DEADLOCK FALSE
INVARIANTS
  
  CountersMatch
  SlotsDistinct
  
  
