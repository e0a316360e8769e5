SPECIFICATION Spec
CONSTANTS
  j1 = j1
  j2 = j2
  None = None
  Generic = Generic
  Worker = Worker
  Jobs = {j1}
  Items <- TwoItems
  JobOf <- ItsJob
  ObjectOf <- OneObject
  Messages = {m1}
  Users = {u1}
  Choices = {}
  Streaming = TRUE
  MaxIssues = 2
  MaxFailures = 2
  MaxActions = 2
INVARIANTS
  SyncSeesTheJob
PROPERTIES
  SyncExplains
CHECK_DEADLOCK FALSE
