SPECIFICATION MCSpec
CONSTANTS
  Worker = {h, u, v}
  Healthy = {h}
  LeaseTime = 5
  HeartbeatInterval = 1
  Wait = 1
  Delay = 1
  NoOwner = NoOwner
  Horizon = 12
  Node = {n1, n2, n3}
  Permits = 2
  Spacing = 2
  MaxLate = 1
  MaxAttempts = 2
  LoopHorizon = 6
  Thread = {t1, t2}
  CounterSize = 3
  MaxClock = 3
  MaxIssued = 9
INVARIANTS
  ClockTypes
  HealthyKeepsLease
  RateBounded
PROPERTIES
  StrictlyMonotonic
CHECK_DEADLOCK FALSE
