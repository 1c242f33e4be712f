SPECIFICATION Spec
CONSTANTS
  Nodes = {a, b, c}
  None = None
  TTL = 4
  Timeout = 2
  HasWatchdog = TRUE
  RenewBound = 5
  AcquireBound = 2
SYMMETRY Symmetry
INVARIANTS PrimaryHoldsKey IInv
