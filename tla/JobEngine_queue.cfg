SPECIFICATION Spec
CONSTANTS
  i1 = i1
  i2 = i2
  i3 = i3
  None = None
  Jobs = {1, 2}
  Items = {i1, i2, i3}
  JobOf <- UnevenJobs
  Runnable = {1}
  AutoRetry = {1}
  RetryMaxAttempts = 2
  Priorities = {0, 1}
  Offered <- QueueControls
  MaxControls = 1
  MaxCrashes = 1
  MaxFaults = 1
SYMMETRY Symmetry
INVARIANTS
  SucceedsOnce
CHECK_DEADLOCK FALSE
