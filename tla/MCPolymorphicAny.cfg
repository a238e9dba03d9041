SPECIFICATION Spec
CONSTANTS
  None = None
  Mallocator = Mallocator
  arena = arena
  small = small
  pinned = pinned
  big = big
  bulk = bulk
  Slots = {s1, s2, s3}
  Objects = {o1, o2, o3}
  Blocks = {b1, b2, b3}
  Values = {v1, v2}
  Resources <- MCResources
  Types <- AllTypes
  Inline <- InlineTypes
  Throwing <- ThrowingTypes
  Relocatable <- RelocatableTypes
SYMMETRY Interchangeable
INVARIANTS TypeOK BlocksHeldOnce ObjectsAccounted Coherent
PROPERTIES ValueSemantics
\* The program may end: by termination, or at the first undefined behaviour.
CHECK_DEADLOCK FALSE
