SPECIFICATION HierarchySpec
CONSTANTS
  MaxClasses = 4
  MaxInterfaces = 2
  MaxDims = 2
  Cloneables = {1}
INVARIANTS CanAssign
CHECK_DEADLOCK FALSE
