\* One slave, one client: early handlers, late replies, either server stopped anywhere.
SPECIFICATION ClusterSpec
CONSTANTS
  Master = master
  Slaves = {s1}
  Nobody = nobody
  Text = text
  MaxTaken = 1
  Faults = {"kill"}
  MaxBacklog = 1
  Clients = {c1}
  Followed = {s1}
  Mishaps = {"stop", "early", "late"}
  MaxOwed = 2
INVARIANTS
  ShownBehind
PROPERTIES
  ClientsSpec
CHECK_DEADLOCK FALSE
