SPECIFICATION MCSpec
CONSTANTS
  p = p q = q t = t j = j m = m d = d e = e f = f None = None
  Homes = {"pack", "upload", "collection", "alarm", "tier", "cdc"}
  Proc = {p, q} TTL = 2 Grace = 1 MaxTime = 3 MaxCalls = 3 MaxPuts = 3
  Cleaner = {p, q} Deleter = {j} UploadFaults = 2
  Object <- ObjectsMC Needs <- NeedsMC Ref = {m} Pusher = {j}
  CollectGrace = 2 MaxDeletes = 2 PushTime = 1 MarkTime = 0 CollectTime = 3
  MaxAttempts = 3 MaxRequests = 3
  Mover = {p, q} Job = {j} Target <- TargetsMC VerifyChecksum = TRUE MaxWrites = 1 MoveFaults = 2
  Event <- EventsMC Stop = {p, q} BatchSize = 2 MaxRetries = 1 Handlers = 2 MaxStarts = 2 MaxFlushes = 1
SYMMETRY Symmetry
CONSTRAINT Promised
INVARIANTS TypesOK OneHolder HandleIsBacked PackIsWhole  TriesAreBounded ObjectIsKept EventsAreKept SettledOnce
PROPERTIES LiveLockIsOwners
CHECK_DEADLOCK FALSE
