SPECIFICATION GovernanceSpec
CONSTANTS
  m1 = m1
  m2 = m2
  None = None
  Mounts = {m1, m2}
  Stocked = {m1}
  Watched = {m1}
  Policies <- OneScheduledOneAtStart
  Slots = 2
  MaxControls = 1
  MaxMishaps = 1
  MaxMoves = 1
INVARIANTS
  GovernanceTypeOK
  OneScanPerMount
  BeatFollowsPolicy
PROPERTIES
  ScansGoOn
  BeatsGoOn
  LossIsReported
CHECK_DEADLOCK FALSE
