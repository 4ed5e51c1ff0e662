SPECIFICATION FairSpec
CONSTANTS
  Handlers = {h1, h2}
  Requests <- SomeRequests
  Hardware <- ThreeLinks
  Names <- SomeNames
  V4Nets <- Nets4
  V6Nets <- Nets6
  V4Addrs <- Addrs4
  V6Addrs <- Addrs6
  OnLink <- Neighbours
  IpFaults <- Faults
  Size <- TextSize
  MaxCalls = 3
  MaxFaults = 1
  MaxCrashes = 2
INVARIANTS TypeOK StaticIsUp ShownIsAccepted
PROPERTIES NextBootApplies SpoiltFileIsAccessible AutoRebootApplies
CHECK_DEADLOCK FALSE
