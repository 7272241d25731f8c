SPECIFICATION FairSpec
CONSTANTS
  obj = obj
  jclass = jclass
  clo = clo
  ser = ser
  str = str
  a = a
  m = m
  jlcFile = jlcFile
  strs = strs
  ints = ints
  int = int
  void = void
  Names <- MCNames
  Object = obj
  Jlc = jclass
  JlcFile = jlcFile
  ArrayInterfaces <- MCArrayInterfaces
  Arrays = {strs, ints}
  PrimitiveTypes <- MCPrimitiveTypes
  StringClass = str
  StringArray = strs
  Hierarchies <- MCHierarchies
  Paths <- MCPaths
  SuffixTests = {TRUE, FALSE}
  Widths <- MCWidths
  MainClass = m
  MaxDepth = 9
  MaxObjects = 14
INVARIANTS TypeOK SupersReady LayoutNests ClassOfClasses DiesOnlyWithReason
PROPERTIES AnswersStay LoadEnds
CHECK_DEADLOCK FALSE
