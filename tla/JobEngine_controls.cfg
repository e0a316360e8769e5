SPECIFICATION Spec
CONSTANTS
  i1 = i1
  i2 = i2
  i3 = i3
  None = None
  Jobs = {1}
  Items = {i1, i2}
  JobOf <- OneJob
  Runnable = {1}
  AutoRetry = {1}
  RetryMaxAttempts = 2
  Priorities = {1}
  Offered <- AllControls
  MaxControls = 3
  MaxCrashes = 1
  MaxFaults = 0
SYMMETRY Symmetry
INVARIANTS
  TypeOK
  VerdictHolds
  NoGhostRunning
  CountersAgree
  RunningIsWorked
PROPERTIES
  FinishedIsFinal
  ImplementsLedger
CHECK_DEADLOCK FALSE
