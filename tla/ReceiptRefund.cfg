SPECIFICATION ReceiptSpec
CONSTANTS
  d = d
  t = t
  x = x
  m = m
  Ids = {d, t, x, m}
  Payer = Payer
  Asset = Asset
  Truths <- Transfers
  Shown <- Whole
  Others = {}
INVARIANTS
  DefinitiveMeansUnpaid
