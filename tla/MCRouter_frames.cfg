SPECIFICATION Spec
CONSTANTS
  b1 = b1
  b2 = b2
  B = 65536
  MacOf <- MCMacOf
  Hop <- MCHop
  NoHop = NoHop
  Broadcast = "ff"
  Ports = {0, 1, 2}
  LcoreCount = 1
  MAX_BURST_SIZE = 1
  MAX_TRANSMIT_TRIAL = 1
  RX_DESCS = 1
  TX_DESCS = 1
  Mbufs = {b1}
  FrameSet <- MCEveryShape
  IntConfLists <- MCSomeInterfaces
INVARIANT ForwardedAlongRoute
INVARIANT ChecksumDecides
 
INVARIANT OnlyStrayRouteUndefined
CHECK_DEADLOCK FALSE
