SPECIFICATION FairSpec
CONSTANTS
  Handlers = {h1}
  SpawnFaults = TRUE
  WriteFaults = TRUE
  DiskFaults = TRUE
  MaxBootstraps = 1
  MaxAttempts = 1
  MaxReboots = 2
INVARIANTS TypeOK OneInstance BootstrapNotMissed
PROPERTIES BootstrapPickedUp PermanentPickedUp
