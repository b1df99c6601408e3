SPECIFICATION FairSpec
CONSTANTS
  high = high
  low = low
  c1 = c1
  c2 = c2
  PriorityQueues = {high, low}
  Weight <- Weights
  NoQueue = NoQueue
  Consumers = {c1, c2}
  PoolSize = 1
  Cap = 1
  MaxReadFaults = 1
INVARIANTS
  StrictDominance
PROPERTIES
  NoStarvation
  FetchedEnds
CHECK_DEADLOCK FALSE
