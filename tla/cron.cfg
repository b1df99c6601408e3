SPECIFICATION FairSpec
CONSTANTS
  j1 = j1
  v1 = v1
  v2 = v2
  a1 = a1
  h1 = h1
  Jobs = {j1}
  Versions = {v1, v2}
  None = None
  Admins = {a1}
  Healers = {h1}
  HardLimit = 1
  MaxDelayed = 1
  DropFarthest = FALSE
  MaxCopies = 3
  MaxPromoted = 1
  MaxCalls = 3
  MaxRetries = 1
  MaxFaults = 2
INVARIANTS
  ChainUnbroken
PROPERTIES
  JobsKeepRunning
CHECK_DEADLOCK FALSE
