SPECIFICATION FairSpec
CONSTANTS
  t1 = t1
  t2 = t2
  t3 = t3
  e1 = e1
  e2 = e2
  k1 = k1
  Tasks = {t1, t2}
  NoTask = NoTask
  Executors = {e1, e2}
  Keys = {k1}
  NoKey = NoKey
  KeyOf <- KeyOfAll
  ScopeOf <- ScopeMixed
  Undecodable = {t2}
  MaxRetry = 2
  HardLimit = 2
  DelayedMax = 1
  DelayedOverflow = "drop_farthest"
  DLQMax = 1
  Disruptions = {"crash", "brokerError", "lostReply", "overlap", "miscount", "rateLimit", "lockExpiry"}
  MaxDisruptions = 2
  MaxMsgs = 8
INVARIANTS
  Conservation
  DeliveryCoverage
  CapacityBounds
PROPERTIES
  Drains
CHECK_DEADLOCK FALSE
