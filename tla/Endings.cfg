\* One slave, every fault, fair processes: what happens in the end.
SPECIFICATION FairSpec
CONSTANTS
  Master = master
  Slaves = {s1}
  Nobody = nobody
  Text = text
  MaxTaken = 1
  Faults = {"kill", "timeout", "unready"}
  MaxBacklog = 2
PROPERTIES
  MasterRestored
  ReporterEnds
  HandlerEnds
  FallsInStep
  ReportReaches
CHECK_DEADLOCK FALSE
