SPECIFICATION Spec
CONSTANTS
  Base = 2
  SizeTModulus = 65536
  StackSizes <- MCStackSizes
  LocalSizes <- MCLocalSizes
  NarrowValues <- MCNarrow
  WideValues <- MCWide
  Indexes <- MCIndexes
  NoValue = NoValue
INVARIANTS TypeOK WildOnlyWhenEmpty
PROPERTIES WideRoundTrip ImplementsWordFrame
CHECK_DEADLOCK FALSE
