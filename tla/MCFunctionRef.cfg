SPECIFICATION FnSpec
CONSTANTS
  None = None
  set1 = set1
  set2 = set2
  one = one
  plain = plain
  taking = taking
  f = f
  m = m
  outer = outer
  inner = inner
  a1 = a1
  a2 = a2
  Variables <- MCVariables
  SignaturesOf <- MCSignaturesOf
  Functions <- MCFunctions
  Methods <- MCMethods
  Classes <- MCClasses
  Callable <- MCCallable
  PartsOf <- MCPartsOf
  Addresses <- MCAddresses
SYMMETRY Interchangeable
INVARIANT EqualIsSameObject
PROPERTY CallsMeant
