SPECIFICATION Spec
CONSTANTS
  v0 = v0
  v1 = v1
  v2 = v2
  Images = {v0, v1, v2}
  Factory = v0
  Junk = Junk
  NBlocks = 1
  NoReq = NoReq
  NoId = NoId
  DiskFaults = TRUE
  ActiveFallback = FALSE
  Ids = {i1}
  Requests <- DeltaRequest
  PersistFaults = TRUE
  Rpcs = {r1}
  BadImages = {}
  Flaky = TRUE
  UpdateFaults = TRUE
  Stalls = TRUE
  AllowCancel = TRUE
  AllowInstall = TRUE
  Interrupts = TRUE
  MaxTime = 0
  MaxRestarts = 0
PROPERTIES RunningSlotUntouched FailedIsFinal
CHECK_DEADLOCK FALSE
