SPECIFICATION Spec
CONSTANTS
  Reader = {r1}
  Flusher = {}
  Writer = {w1}
INVARIANT CompactionRunsAlone
