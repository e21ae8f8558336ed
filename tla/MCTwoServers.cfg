SPECIFICATION Spec
CONSTANTS
  Procs = {p1, p2}
  Inodes = {i1, i2, i3}
  None = None
  MaxReleases = 1
  MaxFaults = 0
INVARIANT
  SameNetwork
CHECK_DEADLOCK FALSE
