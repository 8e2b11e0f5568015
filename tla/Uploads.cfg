SPECIFICATION UploadSpec
CONSTANTS
  Puts = {p1, p2, p3}
  Nil = Nil
  MaxSize = 3
  MaxAttempts = 2
  MaxFaults = 2
INVARIANTS
  UploadTypeOK
  WholeFile
PROPERTIES
  Arrives
CHECK_DEADLOCK FALSE
