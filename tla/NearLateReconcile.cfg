SPECIFICATION Spec
CONSTANTS
  h1 = h1
  h2 = h2
  c1 = c1
  Hashes = {h1}
  Clients = {c1}
  Requests <- MCRequests
  NoId = NoId
  NoClient = NoClient
  NoPrint = NoPrint
  AnchorOf <- MCAnchorOf
  Evm = FALSE
  Reservation = 1
  GlobalLimit = 9
  ClientLimits = {9}
  Fees = {1}
  Depths = {1}
  Nonces = {1, 2}
  MaxAttempts = 2
  MaxDay = 1
  Procs = {p1}
  Workers = {w1}
  Handlers = {x1}
  NoProc = NoProc
  NoHash = NoHash
  NoRequest = NoRequest
  FaultKinds = {"session"}
  MaxFaults = 1
  Expiry = 2
  Unacceptable = {}
  MaxHeight = 3
  MaxLag = 0
PROPERTY TermStartsUnreconciled
