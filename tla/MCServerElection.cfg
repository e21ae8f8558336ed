SPECIFICATION FairSpec
CONSTANTS
  Procs = {p1, p2, p3}
  Inodes = {i1, i2, i3, i4}
  None = None
  MaxReleases = 1
  MaxFaults = 1
INVARIANTS
  ServersOwnTheirLock
  OneServerUnlessReleased
  NoForgottenLock
PROPERTY
  EveryoneServed
CHECK_DEADLOCK FALSE
