SPECIFICATION FairSpec
CONSTANTS
  Nodes = {a, b}
  None = None
  TTL = 2
  Timeout = 1
  HasWatchdog = FALSE
  RenewBound = 1
  AcquireBound = 1
PROPERTY DeposedStops
