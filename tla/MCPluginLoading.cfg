SPECIFICATION FairSpec
CONSTANTS
  p1 = p1
  p2 = p2
  l1 = l1
  l2 = l2
  f = f
  g = g
  here = here
  dot = dot
  wd = wd
  root = root
  v1 = v1
  v2 = v2
  Program = Program
  None = None
  Null = Null
  Absent = Absent
  Mistyped = Mistyped
  NoDocument = NoDocument
  NoDirectory = NoDirectory
  Plugins <- MCPlugins
  NumSettings = 2
  MayBeLeftOut = {2}
  NumPointers = 1
  Libraries = {l1, l2}
  Symbols = {f, g}
  Exports <- MCExports
  Directories = {wd, root}
  Names <- MCNames
  LibraryFile <- MCLibraryFile
  Values = {v1, v2}
  Documents <- MCDocuments
  Files <- MCFiles
  WorkingDirectory = wd
  RootDirectory = root
  InitialValue = v1
  MaxEra = 1
INVARIANTS
  PluginTypeOK
  Installed
  ListOfOneLibrary
PROPERTIES
  ChangedInOrder
  LoadsEnd
