SPECIFICATION Spec
CONSTANTS
  t1 = t1
  t2 = t2
  t3 = t3
  e1 = e1
  e2 = e2
  k1 = k1
  Tasks = {t1, t2, t3}
  NoTask = NoTask
  Executors = {e1, e2}
  Keys = {k1}
  NoKey = NoKey
  KeyOf <- KeyOfAll
  ScopeOf <- ScopeKept
  Undecodable = {}
  MaxRetry = 2
  HardLimit = 0
  DelayedMax = 1
  DelayedOverflow = "reject"
  DLQMax = 1
  Disruptions = {"crash", "brokerError", "rateLimit"}
  MaxDisruptions = 3
  MaxMsgs = 4
SYMMETRY Symmetry
INVARIANTS
  OnePlace
  UniqueInFlight
  PoisonPillCutOff
PROPERTIES
  ImplementsContract
CHECK_DEADLOCK FALSE
