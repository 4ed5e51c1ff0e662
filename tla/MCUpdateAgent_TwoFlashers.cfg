SPECIFICATION Spec
CONSTANTS
  v0 = v0
  v1 = v1
  v2 = v2
  Images = {v0, v1, v2}
  Factory = v0
  Junk = Junk
  NBlocks = 2
  NoReq = NoReq
  NoId = NoId
  DiskFaults = FALSE
  ActiveFallback = FALSE
  Ids = {i1}
  Requests <- TwoRequests
  PersistFaults = FALSE
  Rpcs = {r1}
  BadImages = {}
  Flaky = FALSE
  UpdateFaults = FALSE
  Stalls = FALSE
  AllowCancel = FALSE
  AllowInstall = TRUE
  Interrupts = TRUE
  MaxTime = 0
  MaxRestarts = 0
PROPERTIES CompletedIsInstalled
CHECK_DEADLOCK FALSE
