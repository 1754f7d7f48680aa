SPECIFICATION FairSpec
CONSTANTS
  n1 = n1
  n2 = n2
  a = a
  b = b
  Bastion = Bastion
  None = None
  Proc = {p1, p2}
  Key = {k}
  Inventory <- TwoInventories
  Selector <- AllNodes
  Script = {s1}
  MaxEdits = 0
PROPERTIES
  QueuedRuns
CHECK_DEADLOCK FALSE
