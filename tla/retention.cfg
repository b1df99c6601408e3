SPECIFICATION MCSpec
CONSTANTS
  c1 = c1
  c2 = c2
  c3 = c3
  t1 = t1
  t2 = t2
  t3 = t3
  t4 = t4
  Readers = {c1}
  Reclaimer = c3
  NoConsumer = NoConsumer
  Tasks = {t1, t2, t3, t4}
  SafeTrimEnabled = TRUE
  PurgeCancelledDelayed = TRUE
  PurgeIdle = TRUE
  Batch = 2
  MaxOffset = 3
  MaxMsgs = 3
  MaxFailures = 1
INVARIANTS
  UndeliveredKept
  PendingKept
  DeliveredCovered
PROPERTIES
  PurgeCatchesUp
CHECK_DEADLOCK FALSE
