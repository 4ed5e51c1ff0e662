SPECIFICATION Spec
CONSTANTS
  v0 = v0
  v1 = v1
  v2 = v2
  Images = {v0, v1, v2}
  Factory = v0
  Junk = Junk
  NBlocks = 2
  NoReq = NoReq
  NoId = NoId
  DiskFaults = FALSE
  ActiveFallback = FALSE
  Ids = {i1, i2}
  Requests <- ScheduleRequests
  PersistFaults = FALSE
  Rpcs = {r1}
  BadImages = {}
  Flaky = TRUE
  UpdateFaults = TRUE
  Stalls = FALSE
  AllowCancel = TRUE
  AllowInstall = FALSE
  Interrupts = TRUE
  MaxTime = 3
  MaxRestarts = 1
INVARIANTS TypeOK AtMostOnce SavedWhenQuiet FirstUpdateBoots
PROPERTIES RunningSlotUntouched CompletedIsInstalled WindowIsChecked ImplementsJournal
CHECK_DEADLOCK FALSE
