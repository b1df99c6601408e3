SPECIFICATION Spec
CONSTANTS
  q1 = q1
  q2 = q2
  p1 = p1
  p2 = p2
  Queues = {q1, q2}
  Procs = {p1, p2}
  QueueConfigs <- QueueConfigsMC
  NoProc = NoProc
  MaxStarts = 3
  MaxBeatFaults = 2
  t1 = t1
  t2 = t2
  g = g
  Tasks = {t1, t2}
  Policies <- PoliciesMC
  Groups = {g}
  NoGroup = NoGroup
  NoField = NoField
  Grain = 2
  Milli = 4
  Second = 8
  Width = 5
  NoLimit = NoLimit
  MaxTime = 16
  MaxFaults = 2
  c1 = c1
  c2 = c2
  Clients = {c1, c2}
  Requests <- RequestsMC
  Settings <- SettingsMC
  ChunkSize = 2
  Nil = Nil
  NoLock = NoLock
  MaxBreaks = 1
  Length16 = 4
  Word32 = 16
  NotUTF8 = {9}
  Replacement = 8
SYMMETRY Alike
INVARIANTS
  PanicConfigured
  HeartbeatTruthful
  ListedAgain
  BucketAgrees
  DeferralsBounded
  RetryBudget
  RetrySpacing
  ContextEnds
  ReportsTruthful
  DeliveredAsSubmitted
CHECK_DEADLOCK FALSE
