SPECIFICATION Spec
CONSTANTS
  n1 = n1
  o1 = o1
  o2 = o2
  Node = {n1}
  Owner = {o1, o2}
  NoOwner = NoOwner
  NoUid = NoUid
  RunId = RunId
  Concurrency = 1
  FaultClass = {"conn_timeout"}
  OutputKind = {"stored"}
  Faults = FALSE
SYMMETRY Symmetry
INVARIANTS
  BlockedOnlyInterrupted
CHECK_DEADLOCK FALSE
