SPECIFICATION Spec
CONSTANTS
  obj = obj
  jclass = jclass
  clo = clo
  ser = ser
  str = str
  a = a
  m = m
  jlcFile = jlcFile
  strs = strs
  ints = ints
  int = int
  void = void
  Names <- MCNames
  Object = obj
  Jlc = jclass
  JlcFile = jlcFile
  ArrayInterfaces <- MCArrayInterfaces
  Arrays = {strs, ints}
  PrimitiveTypes <- MCPrimitiveTypes
  StringClass = str
  StringArray = strs
  Hierarchies <- MCPlain
  Paths <- MCPaths
  SuffixTests = {TRUE}
  Widths <- MCWidths
  MainClass = m
  MaxDepth = 9
  MaxObjects = 14
INVARIANTS StoredClassesLoad
CHECK_DEADLOCK FALSE
