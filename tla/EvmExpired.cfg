SPECIFICATION Spec
CONSTANTS
  h1 = h1
  c1 = c1
  Hashes = {h1}
  Clients = {c1}
  Requests <- MCRequests
  NoId = NoId
  NoClient = NoClient
  NoPrint = NoPrint
  AnchorOf <- MCAnchorOf
  Evm = TRUE
  Reservation = 1
  GlobalLimit = 9
  ClientLimits = {9}
  Fees = {1}
  Depths = {1}
  Nonces = {1, 2, 3}
  MaxAttempts = 1
  MaxDay = 1
  Procs = {p1}
  Workers = {w1}
  Handlers = {x1}
  NoProc = NoProc
  NoHash = NoHash
  NoRequest = NoRequest
  FaultKinds = {"lose"}
  MaxFaults = 1
  Policies <- ShallowPolicy
  NoPolicy = NoPolicy
  Expiry = 1
  MaxReorg = 0
  Overruns = {}
PROPERTIES
  RebroadcastWhileValid
