SPECIFICATION FairSpec
CONSTANTS
  MaxLoads = 2
  MaxStarts = 3
  MaxQueue = 1
  JoinCanTimeOut = TRUE
CHECK_DEADLOCK FALSE
INVARIANTS CountIsUncopied SavedIsKept AcceptedCommandsRun
PROPERTIES TeardownEnds
