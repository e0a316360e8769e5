SPECIFICATION ImportSpec
CONSTANTS
  f1 = f1
  f2 = f2
  t1 = t1
  t2 = t2
  l1 = l1
  l2 = l2
  dir = dir
  one = one
  None = None
  Files = {f1}
  Targets = {t1, t2}
  Picks = {one}
  Under <- DirAndFile
  Libraries = {l1, l2}
  LibraryOf <- OneLibrary
  MaxJobs = 1
  MaxControls = 1
  MaxMishaps = 1
  MaxRetries = 1
INVARIANTS
  ImportTypeOK
  ImportedIsWhole
  IngestedIsReported
  CompletedIsImported
PROPERTIES
  ItemsEnd
CHECK_DEADLOCK FALSE
