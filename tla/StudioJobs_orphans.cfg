SPECIFICATION FairSpec
CONSTANTS
  t1 = t1
  gpu = gpu
  NoDevice = NoDevice
  Trainers = {t1}
  Units = {gpu}
  NumJobs = 1
  Target <- OneRemote
  MaxRestarts = 1
  MaxFaults = 0
  MaxCrashes = 1
  JoinCanTimeOut = FALSE
PROPERTIES JobsSettle
