\* A slow handler: the alarm of the master without anything over a threshold.
SPECIFICATION Spec
CONSTANTS
  Master = master
  Slaves = {s1}
  Nobody = nobody
  Text = text
  MaxTaken = 1
  Faults = {}
  MaxBacklog = 2
INVARIANTS
  NoFalseAlarm
