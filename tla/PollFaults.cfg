\* One client, one slave: late replies, a stopped master, a stopped client.
SPECIFICATION FairSpec
CONSTANTS
  Master = master
  Slaves = {s1}
  Nobody = nobody
  Text = text
  MaxTaken = 2
  Clients = {c1}
  Followed = {s1}
  Mishaps = {"late", "stop", "quit"}
  MaxOwed = 2
INVARIANTS
  ShownOwner
  InOrder
PROPERTIES
  ShownForward
  ClientEnds
  HandlerEnds
  Served
  TableShown
