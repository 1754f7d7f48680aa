SPECIFICATION MCSpec
CONSTANTS
  MaxCancels = 2
  HardCap = 4
  InlineCap = 3
  BlobAttempts = 2
  MaxBytes = 6
  MaxChunk = 3
  Expected = {0, 3}
  ExitCodes <- MCExitCodes
  NoExit = NoExit
  Clock = {1, 2}
  MaxMinor = 2
INVARIANTS
  SessionTypes
  NothingLeft
  EncodingRight
  TailTold
  NoGoodResultRefused
PROPERTIES
  ScriptPhaseEnds
CHECK_DEADLOCK FALSE
