SPECIFICATION DownloadFairSpec
CONSTANTS
  i1 = i1
  i2 = i2
  None = None
  Jobs = {1}
  Items = {i1}
  JobOf <- OneJob
  Runnable = {1}
  AutoRetry = {1}
  RetryMaxAttempts = 2
  Priorities = {1}
  Offered <- NoControls
  MaxControls = 0
  MaxCrashes = 2
  MaxFaults = 0
  MaxTasks = 4
  MaxLapses = 1
  Forgetful = TRUE
PROPERTIES
  DownloadsSettle
CHECK_DEADLOCK FALSE
