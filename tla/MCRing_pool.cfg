CONSTANTS
  t1 = t1
  t2 = t2
  t3 = t3
  o1 = o1
  o2 = o2
  o3 = o3
  Threads <- MCThree
  Objects <- MCPool
  Stored <- MCOne
  UINT = 8
  size = 4
  FirstIndex = 6
  Bulks = {1, 2}
  MaxMoved = 2
SPECIFICATION FairSpec
INVARIANTS SlotExclusive PutNeverRefused
PROPERTIES ImplementsFifo ReservedIsReleased
CHECK_DEADLOCK FALSE
