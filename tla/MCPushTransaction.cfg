SPECIFICATION Spec
CONSTANTS
  main = main
  dev = dev
  Ref = {main, dev}
  Sha = {a, b}
  None = None
  SnapshotInterval = 2
  Push = {p, q}
  Packs <- MCPacks
  Commands <- MCCommands
  Rules <- MCRules
  MaxFaults = 1
  MaxCrashes = 1
INVARIANTS TypeOK RefsResolve LogMirrorsRefs SnapshotIsFaithful LogChains
PROPERTIES AtomicPush ProtectedRefsStay
SYMMETRY Symmetry
CHECK_DEADLOCK FALSE
