SPECIFICATION Spec
CONSTANTS
  Slots = {x, y}
  a = a
  b = b
  c = c
  byte = byte
  int = int
  double = double
  string = string
  Tags <- MCTags
  Types = {byte, int, double, string}
  Size <- MCSize
  Alignment <- MCAlignment
  FieldLists <- MCFieldLists
  Integral = {byte, int}
  Floating = {double}
  Throwing = {string}
  Values <- MCValues
  Given <- MCGiven
  GivenPair <- MCGivenPair
  Raw = Raw
  Moved = 9
  MaxCat = 3
PROPERTIES
  ConvertedIsEqual
CHECK_DEADLOCK FALSE
