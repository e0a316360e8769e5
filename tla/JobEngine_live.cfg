SPECIFICATION FairSpec
CONSTANTS
  i1 = i1
  i2 = i2
  i3 = i3
  None = None
  Jobs = {1, 2}
  Items = {i1, i2, i3}
  JobOf <- UnevenJobs
  Runnable = {1}
  AutoRetry = {}
  RetryMaxAttempts = 2
  Priorities = {1}
  Offered <- JobControls
  MaxControls = 2
  MaxCrashes = 0
  MaxFaults = 0
PROPERTIES
  JobsAreServed
  PauseQuiesces
  CancellationSettles
CHECK_DEADLOCK FALSE
