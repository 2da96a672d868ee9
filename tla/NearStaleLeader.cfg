SPECIFICATION Spec
CONSTANTS
  h1 = h1
  h2 = h2
  c1 = c1
  Hashes = {h1}
  Clients = {c1}
  Requests <- MCRequests
  NoId = NoId
  NoClient = NoClient
  NoPrint = NoPrint
  AnchorOf <- MCAnchorOf
  Evm = FALSE
  Reservation = 1
  GlobalLimit = 9
  ClientLimits = {9}
  Fees = {1}
  Depths = {1}
  Nonces = {1}
  MaxAttempts = 2
  MaxDay = 1
  Procs = {p1, p2}
  Workers = {w1, w2}
  Handlers = {x1}
  NoProc = NoProc
  NoHash = NoHash
  NoRequest = NoRequest
  FaultKinds = {"session"}
  MaxFaults = 1
  Expiry = 1
  Unacceptable = {}
  MaxHeight = 2
  MaxLag = 0
INVARIANT OutcomeTruthful
