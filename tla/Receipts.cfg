SPECIFICATION ReceiptSpec
CONSTANTS
  d = d
  t = t
  x = x
  m = m
  Ids = {d, t, x, m}
  Payer = Payer
  Asset = Asset
  Truths <- Executions
  Shown <- AnyPart
  Others <- Transfers
INVARIANTS
  SuccessMeansSettled
  SettledIsAccepted
  FailureIsOnChain
