SPECIFICATION MCSpec
CONSTANTS
  main = main dev = dev a = a b = b d = d p = p q = q x = x y = y u = u None = None
  Homes = {"storage", "lazy", "table", "receive", "all"}
  Name = {main, dev} Sha = {a, b} Proc = {p, q} Order <- ByName Listings <- EitherWay
  PromptRemoval = TRUE Locking = TRUE MaxRetries = 1 MaxCalls = 3 MaxFaults = 1
  TableName = {x, y} TableSha = {u} Users <- UsersMC Sync = {p, q} MaxSyncs = 2 PutFaults = 1
  Commit = {a, b, d} Ancestor <- AncestorMC CanSwap = TRUE MaxPushes = 2 StoreFaults = 2
  Calls <- FewCalls Pushes <- BothPushes
SYMMETRY Symmetry
INVARIANTS TypesOK LocksAreOrdered CacheMissesOnlyOthers CleanMissesOnlyOthers ReportsExplainRefs RollbackRestores
PROPERTIES ImplementsAtomicRefs PackIsSnapshot FastForwardOnly
CHECK_DEADLOCK FALSE
