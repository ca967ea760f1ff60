SPECIFICATION FairSpec
CONSTANTS
  Models = {"A"}
  MaxLeaderFailures = 2
  MaxCommands = 4
  MaxLoads = 2
  MaxFaults = 2
CHECK_DEADLOCK FALSE
INVARIANT PolicyIsWanted
INVARIANT AttachedIsConnected
PROPERTY NewestAttached
PROPERTY ArmingEnds
PROPERTY NoPolicyLeaks
