CONSTANTS
  RTE_MAX_LCORE = 5
  LcoreSets = {{0}, {0, 1, 2}, {0, 1, 2, 3, 4}, {0, 2}, {1, 2, 3}}
SPECIFICATION LFairSpec
INVARIANTS FreedAfterLast LaunchNeverRefused
PROPERTIES EndsAfterQuit
CHECK_DEADLOCK FALSE
