SPECIFICATION Spec
CONSTANTS
  W = 4
  P = 2
  NH_ID_TO_INFO_SIZE = 4
  TBLLONG_TABLE_SIZE = 1
  ID_LIMIT = 8
  hopA = hopA
  ZeroHop = ZeroHop
  NULL = NULL
  Unspecified = Unspecified
  NextHops <- MCHops
  RouteAddrs = {6, 12}
  RoutePrefixes = {0, 2, 3, 5}
  MaxBuilds = 2
INVARIANTS IInv LongestPrefixMatch BuildExitIsExhaustion
PROPERTIES ImplementsFib
CHECK_DEADLOCK FALSE
