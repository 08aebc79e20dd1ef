SPECIFICATION Spec
CONSTANTS
  W = 4
  P = 2
  NH_ID_TO_INFO_SIZE = 4
  TBLLONG_TABLE_SIZE = 3
  ID_LIMIT = 8
  hopA = hopA
  ZeroHop = ZeroHop
  NULL = NULL
  Unspecified = Unspecified
  NextHops <- MCHops
  RouteAddrs <- MCAddrs
  RoutePrefixes <- MCPrefixes
  MaxBuilds = 1
INVARIANT EveryRouteCanBeBuilt
CHECK_DEADLOCK FALSE
