SPECIFICATION CatalogueSpec
CONSTANTS
  local = local
  nas = nas
  v1 = v1
  v2 = v2
  Cut = Cut
  None = None
  Assets = {1}
  Mounts = {local, nas}
  Nas = {nas}
  Versions = {v1, v2}
  MaxTasks = 2
  MaxEdits = 1
  MaxMishaps = 1
SYMMETRY SameContents
INVARIANTS
  CatalogueTypeOK
  AssetKeepsReplica
  DriftIsExplained
  CutIsFromInterruption
  PendingHasTask
CHECK_DEADLOCK FALSE
