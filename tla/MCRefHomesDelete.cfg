SPECIFICATION MCSpec
CONSTANTS
  main = main dev = dev a = a b = b d = d p = p q = q x = x y = y u = u None = None
  Homes = {"storage"}
  Name = {main, dev} Sha = {a, b} Proc = {p, q} Order <- ByName Listings <- EitherWay
  PromptRemoval = FALSE Locking = TRUE MaxRetries = 1 MaxCalls = 2 MaxFaults = 0
  TableName = {x, y} TableSha = {u} Users <- UsersMC Sync = {p, q} MaxSyncs = 2 PutFaults = 1
  Commit = {a, b, d} Ancestor <- AncestorMC CanSwap = TRUE MaxPushes = 2 StoreFaults = 2
  Calls <- FewCalls Pushes <- BothPushes
PROPERTIES DeleteRemovesWhatItSaw
CHECK_DEADLOCK FALSE
