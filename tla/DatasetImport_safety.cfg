SPECIFICATION FairSpec
CONSTANTS
  Jobs = {1}
  Requests = {"r1", "r2"}
  MaxRequests = 4
  MaxCrashes = 2
CHECK_DEADLOCK FALSE
INVARIANT CompletedHasDataset
INVARIANT CommitIsConfirmed
PROPERTY RunningEnds
PROPERTY QueuedIsTaken
