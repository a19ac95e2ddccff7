\* Three starts, one Ctrl-C, fair processes: what a restart comes to.
SPECIFICATION FairSpec
CONSTANTS
  MasterAt = m
  SlavesAt = {m, s}
  Sizes = {2}
  Faults = {"fork"}
  MaxJobs = 3
  MaxStops = 1
  MaxBacklog = 1
PROPERTIES
  HeardOrEnds
  NewestWins
  PortFreed
CHECK_DEADLOCK FALSE
