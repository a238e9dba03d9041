SPECIFICATION Spec
CONSTANTS
  None = None
  Mallocator = Mallocator
  other = other
  a1 = a1
  a2 = a2
  byte = byte
  word = word
  Stacks <- MCStacks
  Mallocators <- MCMallocators
  Base <- MCBase
  S <- MCS
  HeapStart = 24
  HeapEnd = 26
  Allocators = {x1, x2}
  Types <- MCTypes
  SizeOf <- MCSizeOf
  AlignOf <- MCAlignOf
  Counts = {0, 1, 2, 24}
  RawRequests <- MCRawRequests
  MaxSize = 47
  Depth = 2
SYMMETRY Interchangeable
INVARIANTS TypeOK BlocksPlaced BlocksApart BlocksAligned HeapAccounted NothingLost
