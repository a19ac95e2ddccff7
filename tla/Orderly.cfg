\* Two slaves, no fault, every segment read before the next is written.
SPECIFICATION Spec
CONSTANTS
  Master = master
  Slaves = {s1, s2}
  Nobody = nobody
  Text = text
  MaxTaken = 1
  Faults = {}
  MaxBacklog = 1
INVARIANTS
  InStep
  NoFalseAlarm
PROPERTIES
  MasterSlotOwn
SYMMETRY SlaveSymmetry
