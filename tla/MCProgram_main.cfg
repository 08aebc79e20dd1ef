CONSTANTS
  CommandLines <- MCCommandLines
  Capacity = 3
  DevCount = 2
  NULL = NULL
  Unspecified = Unspecified
SPECIFICATION Spec
INVARIANTS ServesBuiltTable ServesEachPortOnce UsualFormAccepted AcceptedIsMeant
CHECK_DEADLOCK FALSE
