CONSTANTS
  Interfaces = {0, 1}
  Typed = {0, 1, 2, 3, 257}
  BURST = 2
  TX_DESCS = 1
  UINT32 = 3
  MaxArrivals = 3
SPECIFICATION FFairSpec
INVARIANTS QueuesExclusive OnlyInterleavingLoses
PROPERTIES BackToPolling
CHECK_DEADLOCK FALSE
