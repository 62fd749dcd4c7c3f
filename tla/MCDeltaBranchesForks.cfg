SPECIFICATION Spec
CONSTANTS
  Ref = {main, dev}
  Sha = {a, b}
  None = None
  SnapshotInterval = 2
  Branch = {x, y}
  MaxAppends = 3
  MaxRollbacks = 0
  MaxOwn = 2
SYMMETRY Symmetry
INVARIANT MergeAcrossForks
