SPECIFICATION FairSpec
CONSTANTS
  Reader = {r1}
  Flusher = {f1, f2}
  Writer = {w1, w2}
INVARIANTS TypeOK NoStrandedWaiter
PROPERTIES ImplementsExclusiveAccess CompactionProceeds ReadsProceed
