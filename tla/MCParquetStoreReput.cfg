SPECIFICATION Spec
CONSTANTS
  Sha = {a, b}
  Flaky = {b}
  Proc = {p, q}
  None = None
  FlushThreshold = 2
  MaxPuts = 3
  MaxFiles = 2
  MaxFaults = 0
  MaxCrashes = 0
INVARIANT BufferedIsReadable
CHECK_DEADLOCK FALSE
