SPECIFICATION MCSpec
CONSTANTS
  t1 = t1
  t2 = t2
  t3 = t3
  s1 = s1
  a1 = a1
  Tasks = {t1, t2, t3}
  UniqueTasks = {t1, t2}
  Scope = "UntilSucceeded"
  NoTask = NoTask
  Schedulers = {s1}
  Admins = {a1}
  Delays = {0, 4}
  MaxSleep = 3
  MinSleep = 1
  MaxJitter = 2
  PollInterval = 2
  BatchSize = 1
  HardLimit = 2
  MaxRetries = 1
  MaxFaults = 1
INVARIANTS
  LatenessBounded
  OneEntry
  UniqueUnfinished
SYMMETRY UniqueTasksAlike
CHECK_DEADLOCK FALSE
