SPECIFICATION DownloadSpec
CONSTANTS
  i1 = i1
  i2 = i2
  None = None
  Jobs = {1}
  Items = {i1, i2}
  JobOf <- OneJob
  Runnable = {1}
  AutoRetry = {}
  RetryMaxAttempts = 2
  Priorities = {1}
  Offered <- AllControls
  MaxControls = 2
  MaxCrashes = 1
  MaxFaults = 0
  MaxTasks = 3
  MaxLapses = 1
  Forgetful = TRUE
SYMMETRY Symmetry
CONSTRAINT FewDisturbances
INVARIANTS
  DownloadTypeOK
  ReplicaIsComplete
  CompletedHasReplica
  RecordPointsHome
PROPERTIES
  LostOnlyUnrecorded
CHECK_DEADLOCK FALSE
