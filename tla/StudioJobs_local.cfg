SPECIFICATION FairSpec
CONSTANTS
  t1 = t1
  gpu = gpu
  NoDevice = NoDevice
  Trainers = {t1}
  Units = {gpu}
  NumJobs = 2
  Target <- LocalTargets
  MaxRestarts = 1
  MaxFaults = 1
  MaxCrashes = 0
  JoinCanTimeOut = TRUE
PROPERTIES StartedInOrder JobsSettle
