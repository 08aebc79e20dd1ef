SPECIFICATION FairSpec
CONSTANTS
  b1 = b1
  b2 = b2
  B = 65536
  MacOf <- MCMacOf
  Hop <- MCHop
  NoHop = NoHop
  Broadcast = "ff"
  Ports = {0, 1}
  LcoreCount = 2
  MAX_BURST_SIZE = 2
  MAX_TRANSMIT_TRIAL = 1
  RX_DESCS = 2
  TX_DESCS = 2
  Mbufs = {b1, b2}
  FrameSet <- MCOnePacket
  IntConfLists <- MCUpToTwoInterfaces
INVARIANT TypeOK
INVARIANT MbufOwnedOnce
INVARIANT ReceiveOrderKept
INVARIANT TxQueueExclusive
INVARIANT EvenlyDistributed
PROPERTY QuitEnds
PROPERTY FirstQueueServed
CHECK_DEADLOCK FALSE
