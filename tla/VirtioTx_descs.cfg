CONSTANTS
  nentries = 2
  U16 = 4
  FirstIndex = 3
  Mbufs = {m1, m2, m3}
  NULL = NULL
  free_thresh = 1
  Slots = {1, 2}
SPECIFICATION FairSpec
INVARIANTS DescriptorsConserved SentOnce
PROPERTIES InFlightStable RetrySucceeds
