SPECIFICATION Spec
CONSTANTS
  MaxSize = 1024
  FrameSize = 80
  HeaderSize = 20
  m0 = m0
  m45 = m45
  Methods <- MCMethods
  SlotNeed <- MCSlotNeed
  Garbage = Garbage
  Null = Null
INVARIANTS FramesInsideBlock
CHECK_DEADLOCK FALSE
