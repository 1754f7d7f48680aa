SPECIFICATION Spec
CONSTANTS
  n1 = n1
  o1 = o1
  o2 = o2
  o3 = o3
  Node = {n1}
  Owner = {o1, o2, o3}
  NoOwner = NoOwner
  NoUid = NoUid
  RunId = RunId
  Concurrency = 1
  FaultClass = {"conn_timeout"}
  OutputKind = {"stored"}
  Faults = FALSE
SYMMETRY Symmetry
INVARIANTS
  AttemptLedger
  RetryBudget
  LiveOwnerUndisturbed
  BlockedStaysOpen
PROPERTIES
  HistoryKept
CHECK_DEADLOCK FALSE
