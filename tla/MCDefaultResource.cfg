SPECIFICATION FairSpec
CONSTANTS
  None = None
  Main = Main
  t1 = t1
  t2 = t2
  Mallocator = Mallocator
  NewDelete = NewDelete
  arena = arena
  Threads <- MCThreads
  Resources <- MCResources
  MaxCalls = 4
INVARIANTS TypeOK NeverEmpty
PROPERTIES ImplementsRegister CallsReturn
\* The threads may stop calling.
CHECK_DEADLOCK FALSE
