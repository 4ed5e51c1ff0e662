SPECIFICATION Spec
CONSTANTS
  v0 = v0
  v1 = v1
  v2 = v2
  Images = {v0, v1, v2}
  Factory = v0
  Junk = Junk
  NBlocks = 2
  NoReq = NoReq
  NoId = NoId
  DiskFaults = FALSE
  ActiveFallback = TRUE
  Ids = {i1, i2}
  Requests <- TwoRequests
  PersistFaults = FALSE
  Rpcs = {r1}
  BadImages = {}
  Flaky = FALSE
  UpdateFaults = FALSE
  Stalls = FALSE
  AllowCancel = FALSE
  AllowInstall = FALSE
  Interrupts = TRUE
  MaxTime = 0
  MaxRestarts = 1
PROPERTIES RunningSlotUntouched
CHECK_DEADLOCK FALSE
