SPECIFICATION Spec
CONSTANTS
  h1 = h1
  c1 = c1
  Hashes = {h1}
  Clients = {c1}
  Requests <- MCRequests
  NoId = NoId
  NoClient = NoClient
  NoPrint = NoPrint
  AnchorOf <- MCAnchorOf
  Evm = TRUE
  Reservation = 1
  GlobalLimit = 2
  ClientLimits = {9}
  Fees = {1}
  Depths = {1, 2}
  Nonces = {1, 2, 3}
  MaxAttempts = 2
  MaxDay = 1
  Procs = {p1}
  Workers = {w1}
  Handlers = {x1}
  NoProc = NoProc
  NoHash = NoHash
  NoRequest = NoRequest
  FaultKinds = {"crash", "session", "store", "lost_ack", "rpc", "drop", "foreign", "stale", "funds", "fees"}
  MaxFaults = 1
  Policies <- TwoPolicies
  NoPolicy = NoPolicy
  Expiry = 1
  MaxReorg = 0
  Overruns = {3}
INVARIANTS
  TerminalIsBuried
  OverspentOnlyInQuarantine
  RecoveryAcceptsOwnBytes
  GateSound
