SPECIFICATION GovernanceSpec
CONSTANTS
  m1 = m1
  m2 = m2
  None = None
  Mounts = {m1}
  Stocked = {m1}
  Watched = {}
  Policies <- OneScheduled
  Slots = 2
  MaxControls = 0
  MaxMishaps = 0
  MaxMoves = 2
PROPERTIES
  RecoveredIsResolved
CHECK_DEADLOCK FALSE
