\* One client and the slots of two slaves, no reply is late.
SPECIFICATION Spec
CONSTANTS
  Master = master
  Slaves = {s1, s2}
  Nobody = nobody
  Text = text
  MaxTaken = 1
  Clients = {c1}
  Followed = {s1, s2}
  Mishaps = {"stop", "quit", "early"}
  MaxOwed = 2
INVARIANTS
  InPhase
PROPERTIES
  FreshReply
SYMMETRY SlaveSymmetry
