SPECIFICATION MCSpec
CONSTANTS
  Onboarder = {p1, p2}
  Slot = {s1}
  Fingerprint = {k1, k2}
  Unreviewed = Unreviewed
  MaxCrashes = 1
  Place = {1, 2}
  Name = {uptime, disk}
  Digit = {0, 1}
  HashLen = 2
  Hash <- MCHash
  Path = {f1, f2}
  Id = {"a", "b", "c"}
  NoBastion = NoBastion
  MaxNodes = 3
  b1 = b1
  b2 = b2
  b3 = b3
  Proc = {b1, b2, b3}
  Version <- MCVersion
  MaxFaults = 1
  Writer = {w1, w2}
  Content = {c1, c2}
  MaxKills = 1
  MaxOutages = 1
SYMMETRY MCSymmetry
INVARIANTS
  FileTypes
  TrustAccounted
  LogVerdict
  SchemaSound
  BlobsAgree
PROPERTIES
  TrustKept
  ReferencesKept
  CheckRight
CHECK_DEADLOCK FALSE
