SPECIFICATION PtrSpec
CONSTANTS
  None = None
  Mallocator = Mallocator
  small = small
  big = big
  x = x
  p1 = p1
  p2 = p2
  p3 = p3
  Slots = {s1, s2}
  Objects = {o1, o2}
  Blocks = {b1, b2}
  Values = {v1}
  Resources <- MCResources
  Types <- MCTypes
  Inline <- MCInline
  Throwing <- MCThrowing
  Relocatable <- MCRelocatable
  Refs <- MCRefs
  TagsOf <- MCTagsOf
  OwnerTags <- MCOwnerTags
  Things <- MCThings
  TypeOf <- MCTypeOf
SYMMETRY Interchangeable
INVARIANTS UpcastFindsFunction
\* The program may end by undefined behaviour or termination.
CHECK_DEADLOCK FALSE
