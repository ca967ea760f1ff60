SPECIFICATION FairSpec
CONSTANTS
  c1 = c1
  c2 = c2
  Clients = {c1, c2}
  Documents <- PreviewAndRecorder
  MaxSpawns = 4
  MaxCrashes = 0
  MaxFollowing = 0
CHECK_DEADLOCK FALSE
PROPERTY ConnectEnds
PROPERTY SessionEnds
