SPECIFICATION FairSpec
CONSTANTS
  v0 = v0
  v1 = v1
  v2 = v2
  Images = {v0, v1, v2}
  Factory = v0
  Junk = Junk
  NBlocks = 2
  NoReq = NoReq
  NoId = NoId
  DiskFaults = FALSE
  ActiveFallback = FALSE
  Ids = {i1, i2}
  Requests <- LiveRequests
  PersistFaults = FALSE
  Rpcs = {r1}
  BadImages = {v1}
  Flaky = FALSE
  UpdateFaults = TRUE
  Stalls = TRUE
  AllowCancel = TRUE
  AllowInstall = FALSE
  Interrupts = TRUE
  MaxTime = 1
  MaxRestarts = 2
PROPERTIES DueIsTaken BadImageIsRolledBack
CHECK_DEADLOCK FALSE
