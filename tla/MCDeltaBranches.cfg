SPECIFICATION Spec
CONSTANTS
  Ref = {main, dev}
  Sha = {a, b}
  None = None
  SnapshotInterval = 2
  Branch = {x, y}
  MaxAppends = 3
  MaxRollbacks = 1
  MaxOwn = 2
SYMMETRY Symmetry
INVARIANTS TypeOK MergeIsThreeWay FastForwardIsMerge
PROPERTIES BranchesAreIsolated
