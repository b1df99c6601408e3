SPECIFICATION FairSpec
CONSTANTS
  t1 = t1
  t2 = t2
  t3 = t3
  e1 = e1
  e2 = e2
  k1 = k1
  Tasks = {t1}
  NoTask = NoTask
  Executors = {e1, e2}
  Keys = {k1}
  NoKey = NoKey
  KeyOf <- KeyOfNone
  ScopeOf <- ScopeSucceeded
  Undecodable = {}
  MaxRetry = 2
  HardLimit = 0
  DelayedMax = 0
  DelayedOverflow = "drop_farthest"
  DLQMax = 0
  Disruptions = {}
  MaxDisruptions = 0
  MaxMsgs = 4
PROPERTIES
  AcceptedTasksSettle
CHECK_DEADLOCK FALSE
