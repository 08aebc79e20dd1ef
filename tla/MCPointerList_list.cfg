SPECIFICATION Spec
CONSTANTS
  Values <- MCValues
  UINT = 8
  MaxLen = 8
  NULL = NULL
  Garbage = Garbage
INVARIANT TypeOK
INVARIANT ExitsExplained
PROPERTY ImplementsSeqList
CHECK_DEADLOCK FALSE
