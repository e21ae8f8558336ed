SPECIFICATION FairSpec
CONSTANT MaxStarts = 3
INVARIANTS
  OneRunAtATime
  QuietWhenStopped
  StopNotLost
  RefusalIsHonest
PROPERTIES
  StopReturns
  ServiceSpec
