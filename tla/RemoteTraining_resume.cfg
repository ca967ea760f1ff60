SPECIFICATION FairSpec
CONSTANTS
  Jobs = {1}
  Chunks = 2
  RetryLimit = 1
  MaxFaults = 0
  MaxKills = 1
CHECK_DEADLOCK FALSE
PROPERTY PersistedJobEnds
