SPECIFICATION Spec
CONSTANTS
  MaxSize = 1024
  FrameSize = 80
  HeaderSize = 20
  m0 = m0
  m45 = m45
  Methods <- MCMethods
  SlotNeed <- MCSlotNeed
  Garbage = Garbage
  Null = Null
INVARIANTS TypeOK Chained OnlyNewestSpills
PROPERTIES ImplementsCallStack
CHECK_DEADLOCK FALSE
