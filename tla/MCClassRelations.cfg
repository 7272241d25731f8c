SPECIFICATION HierarchySpec
CONSTANTS
  MaxClasses = 5
  MaxInterfaces = 2
  MaxDims = 2
  Cloneables = {1}
INVARIANTS SubclassIsReachability AssignableByShape OverrideWins FieldFoundIffReachable LegalUseResolves
PROPERTIES AnswersStay
CHECK_DEADLOCK FALSE
