SPECIFICATION Spec
CONSTANTS
  Runners = {1, 2}
  Hand = 0
  MaxFailures = 2
  MaxExports = 3
  MaxLevel = 1
  MaxFaults = 1
  skip_unchanged = TRUE
  Slow = FALSE
INVARIANTS TypeOK OneRunner Chain
PROPERTIES CatchesUp
CHECK_DEADLOCK FALSE
