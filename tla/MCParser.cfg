SPECIFICATION Spec
CONSTANTS
  Types <- MCTypes
  Nesting <- MCNesting
  Json <- MCJson
  Shapes <- MCShapes
  Documents <- MCDocuments
  NoDocument = NoDocument
INVARIANTS
  ParserTypeOK
  SuccessSaysDocument
  NothingStale
  FirstFaultCaught
PROPERTIES
  FailureStopsThere
