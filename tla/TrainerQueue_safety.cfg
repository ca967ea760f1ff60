SPECIFICATION FairSpec
CONSTANTS
  cuda0 = cuda0
  AnyDevice = AnyDevice
  NumJobs = 2
  Device <- DeviceAndAuto
  MaxConcurrent = 2
  NumUploads <- TwoAndOne
  Chunks <- OneAndTwo
  MaxRestarts = 1
CHECK_DEADLOCK FALSE
INVARIANTS TypeOK RowsMatchTasks DevicesExclusive ArtifactKept DatasetKept
PROPERTIES TerminalIsFinal QueuedJobsEnd ImplementsContract KeepsMoving
