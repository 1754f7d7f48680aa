SPECIFICATION FairSpec
CONSTANTS
  n1 = n1
  n2 = n2
  o1 = o1
  o2 = o2
  Node = {n1, n2}
  Owner = {o1, o2}
  NoOwner = NoOwner
  NoUid = NoUid
  RunId = RunId
  Concurrency = 1
  FaultClass = {}
  OutputKind = {"stored"}
  Faults = FALSE
PROPERTIES
  ProcessEnds
  StaleRunReclaimed
CHECK_DEADLOCK FALSE
