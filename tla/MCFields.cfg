\* The heap of the unit test, 4097 bytes asked for.
CONSTANTS
  MaxSize = 4097
  ClassSize = 232
  Classes <- MCClasses
  Words <- MCWords
  MaxObjects = 4
  MaxWritten = 2
SPECIFICATION Spec
INVARIANTS
  FreshAccounted
  
  StaticsReadBack
\* a program may stop
CHECK_DEADLOCK FALSE
