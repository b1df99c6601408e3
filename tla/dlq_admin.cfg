SPECIFICATION FairSpec
CONSTANTS
  t1 = t1
  a1 = a1
  a2 = a2
  Tasks = {t1}
  NoTask = NoTask
  Admins = {a1, a2}
  AgePurge = TRUE
  MaxFailures = 2
  MaxAbandons = 1
  MaxCopies = 2
INVARIANTS
  RetryLosesNothing
  NoOrphans
PROPERTIES
  CallsReturn
CHECK_DEADLOCK FALSE
