SPECIFICATION Spec
CONSTANTS
  Messages = {"oom_kill"}
  DefaultDuration = 1
  MaxDuration = 2
  MaxTime = 1
  Groups <- MCGroups
  Durations = {0, 3}
  MaxCalls = 3
  MaxActive = 2
  MaxFaults = 1
  MaxCrashes = 1
INVARIANTS TypeOK LossBounded GrantsDisjoint ReportMatchesDump SavedIsStored
PROPERTY AcceptedIsLoaded
CHECK_DEADLOCK FALSE
