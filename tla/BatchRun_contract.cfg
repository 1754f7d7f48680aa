SPECIFICATION Spec
CONSTANTS
  n1 = n1
  n2 = n2
  o1 = o1
  o2 = o2
  Node = {n1, n2}
  Owner = {o1, o2}
  NoOwner = NoOwner
  NoUid = NoUid
  RunId = RunId
  Concurrency = 2
  FaultClass = {}
  OutputKind = {"stored", "binary"}
  Faults = FALSE
SYMMETRY Symmetry
PROPERTIES
  ImplementsContract
  ImplementsLife
CHECK_DEADLOCK FALSE
