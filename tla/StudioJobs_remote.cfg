SPECIFICATION Spec
CONSTANTS
  t1 = t1
  gpu = gpu
  NoDevice = NoDevice
  Trainers = {t1}
  Units = {gpu}
  NumJobs = 2
  Target <- RemoteTargets
  MaxRestarts = 1
  MaxFaults = 1
  MaxCrashes = 0
  JoinCanTimeOut = FALSE
INVARIANTS TypeOK TargetsExclusive CancelRetained
PROPERTIES FinishedStaysFinished RecoveryTouchesAbandonedOnly
