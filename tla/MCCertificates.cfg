SPECIFICATION FairSpec
CONSTANTS
  Keys <- SomeKeys
  Rotators = {r1}
  MaxMishaps = 2
  MaxRotations = 1
INVARIANTS TypeOK OneWriter Recoverable
PROPERTIES SuccessMatches DaemonRenews
CHECK_DEADLOCK FALSE
