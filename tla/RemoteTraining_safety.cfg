SPECIFICATION FairSpec
CONSTANTS
  Jobs = {1, 2}
  Chunks = 2
  RetryLimit = 2
  MaxFaults = 3
  MaxKills = 3
CHECK_DEADLOCK FALSE
INVARIANTS OneRemoteJob ShutdownKeepsRemote
PROPERTIES ModelHandedOver AcceptedJobEnds CancelEnds
