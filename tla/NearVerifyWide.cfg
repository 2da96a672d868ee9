SPECIFICATION Spec
CONSTANTS
  Requests <- WideRequests
  States <- GoodStates
  Genesis = 2
  MaxHeight = 4
  MaxLag = 1
  MaxFailures = 3
  MaxU64 = 7
  MaxU128 = 7
  NonceRange = 2
INVARIANTS
  AmbiguousMeansLookupFailed
