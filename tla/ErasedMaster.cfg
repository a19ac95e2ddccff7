\* A slave stopped between its two writes: a handler writes the slot of the master.
SPECIFICATION Spec
CONSTANTS
  Master = master
  Slaves = {s1}
  Nobody = nobody
  Text = text
  MaxTaken = 1
  Faults = {"kill"}
  MaxBacklog = 1
PROPERTIES
  MasterSlotOwn
CHECK_DEADLOCK FALSE
