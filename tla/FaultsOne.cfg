\* One slave, every fault: what holds of the table whatever happens.
SPECIFICATION Spec
CONSTANTS
  Master = master
  Slaves = {s1}
  Nobody = nobody
  Text = text
  MaxTaken = 2
  Faults = {"kill", "timeout", "unready"}
  MaxBacklog = 3
INVARIANTS
  TypeOK
  SlotOwner
  InOrder
PROPERTIES
  SlotForward
  TableSpec
CHECK_DEADLOCK FALSE
