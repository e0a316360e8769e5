SPECIFICATION Spec
CONSTANTS
  j1 = j1
  j2 = j2
  None = None
  Generic = Generic
  Worker = Worker
  Jobs = {j1, j2}
  Items <- OneItemEach
  JobOf <- ItsJob
  ObjectOf <- OneObject
  Messages = {m1}
  Users = {u1}
  Choices = {"confirm", "ignore", "retry"}
  Streaming = TRUE
  MaxIssues = 2
  MaxFailures = 2
  MaxActions = 1
INVARIANTS
  TypeOK
  OneIssuePerJobAndKey
  CountersSettle
  NoticesSettle
PROPERTIES
  IgnoredStays
SYMMETRY Symmetry
CHECK_DEADLOCK FALSE
