CONSTANTS
  Lcores = {0, 1}
  PoolSizes = {9, 16}
  cache_size = 2
  MAX_SIZE = 2
  Bulks = {1}
  master = 0
  worker = 1
  Ports = {0, 1}
  RX_DESCS = 4
  TX_DESCS = 3
  free_thresh = 1
  MAX_BURST_SIZE = 3
  DESC_PER_CACHELINE = 2
  MAX_TRANSMIT_TRIAL = 2
SPECIFICATION BFairSpec
INVARIANTS BuffersConserved RefillSucceeds CacheWithinArray
PROPERTIES KeepsReceiving
