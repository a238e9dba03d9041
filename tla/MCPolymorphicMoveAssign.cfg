SPECIFICATION Spec
CONSTANTS
  None = None
  Mallocator = Mallocator
  arena = arena
  small = small
  pinned = pinned
  big = big
  bulk = bulk
  Slots = {s1, s2}
  Objects = {o1, o2}
  Blocks = {b1, b2}
  Values = {v1, v2}
  Resources <- MCResources
  Types <- AllTypes
  Inline <- InlineTypes
  Throwing <- ThrowingTypes
  Relocatable <- RelocatableTypes
SYMMETRY Interchangeable
INVARIANT DestroyedOnce
\* The program may end: by termination, or at the first undefined behaviour.
CHECK_DEADLOCK FALSE
