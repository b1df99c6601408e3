SPECIFICATION FairSpec
CONSTANTS
  c1 = c1
  c2 = c2
  a1 = a1
  a2 = a2
  Consumers = {c1, c2}
  Admins = {a1, a2}
  MaxCommands = 2
PROPERTIES
  ActiveQueueConsumes
