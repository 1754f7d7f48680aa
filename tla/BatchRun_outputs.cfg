SPECIFICATION Spec
CONSTANTS
  n1 = n1
  o1 = o1
  o2 = o2
  Node = {n1}
  Owner = {o1, o2}
  NoOwner = NoOwner
  NoUid = NoUid
  RunId = RunId
  Concurrency = 1
  FaultClass = {"conn_timeout", "exec_timeout", "auth_failed"}
  OutputKind = {"stored", "binary", "fallback", "lost"}
  Faults = TRUE
SYMMETRY Symmetry
INVARIANTS
  TypeOK
  NodeCommitAtomic
  ResultMatchesLedger
  AuditReplay
CHECK_DEADLOCK FALSE
