SPECIFICATION FairSpec
CONSTANTS
  Handlers = {h1}
  SpawnFaults = FALSE
  WriteFaults = FALSE
  DiskFaults = FALSE
  MaxBootstraps = 0
  MaxAttempts = 1
  MaxReboots = 0
PROPERTY CrashedIsRestarted
