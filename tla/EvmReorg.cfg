SPECIFICATION FairSpec
CONSTANTS
  h1 = h1
  c1 = c1
  Hashes = {h1}
  Clients = {c1}
  Requests <- MCRequests
  NoId = NoId
  NoClient = NoClient
  NoPrint = NoPrint
  AnchorOf <- MCAnchorOf
  Evm = TRUE
  Reservation = 1
  GlobalLimit = 9
  ClientLimits = {9}
  Fees = {1}
  Depths = {2}
  Nonces = {1, 2, 3}
  MaxAttempts = 1
  MaxDay = 1
  Procs = {p1}
  Workers = {w1}
  Handlers = {x1}
  NoProc = NoProc
  NoHash = NoHash
  NoRequest = NoRequest
  FaultKinds = {"crash", "lost_ack", "reorg", "lose"}
  MaxFaults = 1
  Policies <- OnePolicy
  NoPolicy = NoPolicy
  Expiry = 1
  MaxReorg = 1
  Overruns = {}
INVARIANTS
  TerminalIsBuried
PROPERTIES
  KeepsContract
  SubmissionResolves
