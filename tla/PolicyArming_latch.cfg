SPECIFICATION Spec
CONSTANTS
  Models = {"A", "B"}
  MaxLeaderFailures = 2
  MaxCommands = 4
  MaxLoads = 2
  MaxFaults = 2
CHECK_DEADLOCK FALSE
INVARIANT HoldIsFresh
