\* Three starts of the program on one machine or on two, every fault.
SPECIFICATION Spec
CONSTANTS
  MasterAt = m
  SlavesAt = {m, s}
  Sizes = {2, 3}
  Faults = {"kill", "fork", "network"}
  MaxJobs = 3
  MaxStops = 1
  MaxBacklog = 1
INVARIANTS
  TypeOK
  InMemory
  Tidy
CHECK_DEADLOCK FALSE
