SPECIFICATION Spec
CONSTANTS
  c1 = c1
  c2 = c2
  Clients = {c1, c2}
  Documents <- AnyDocument
  MaxSpawns = 4
  MaxCrashes = 1
  MaxFollowing = 1
SYMMETRY Symmetry
CHECK_DEADLOCK FALSE
INVARIANT GuardSeesArm
INVARIANT ArmUnderLock
INVARIANT PinsReleased
