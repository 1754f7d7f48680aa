SPECIFICATION Spec
CONSTANTS
  n1 = n1
  n2 = n2
  a = a
  b = b
  Bastion = Bastion
  None = None
  Proc = {p1, p2}
  Key = {k}
  Inventory <- MCInventory
  Selector <- MCSelector
  Script = {s1, s2}
  MaxEdits = 1
SYMMETRY Symmetry
INVARIANTS
  TypeOK
  ReuseSameWork
  ContactsOnRecord
  ExitZeroTruthful
PROPERTIES
  ImplementsLife
CHECK_DEADLOCK FALSE
