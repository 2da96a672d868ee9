CONSTANTS
  h1 = h1  h2 = h2  h3 = h3  c1 = c1  c2 = c2  i1 = i1
  NoId = NoId  NoClient = NoClient  NoPrint = NoPrint
  Hashes <- MCHashes
  Clients = {c1, c2}
  Requests <- MCRequests
  AnchorOf <- MCAnchorOf
  Evm = TRUE
  Reservation = 2
  GlobalLimit = 3
  ClientLimits <- MCClientLimits
  Fees <- MCFees
  Depths <- MCDepths
  Nonces <- MCNonces
  MaxAttempts = 2
  MaxDay = 2
SPECIFICATION JournalSpec
INVARIANTS LedgerExact SponsorshipWithinLimits OwnedOnce OneActiveSigner SchemaChecks
PROPERTIES SubmissionIsPermanent
