SPECIFICATION Spec
CONSTANTS
  Sha = {a, b}
  Flaky = {b}
  Proc = {p, q}
  None = None
  FlushThreshold = 2
  MaxPuts = 3
  MaxFiles = 2
  MaxFaults = 1
  MaxCrashes = 1
INVARIANT CompactionKeepsObjects
CHECK_DEADLOCK FALSE
