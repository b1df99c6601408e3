SPECIFICATION FairSpec
CONSTANTS
  t1 = t1
  Tasks = {t1}
  MaxExecutors = 2
  NoTask = NoTask
  Retained = TRUE
  CompletedMax = 1
  MaxRetries = 1
  MaxOverlaps = 1
  MaxFaults = 1
INVARIANTS
  RecordsAgree
PROPERTIES
  CancelTakesEffect
  StopEnds
  DeletedActiveEnds
CHECK_DEADLOCK FALSE
