CONSTANTS
  Base = Base
  Token = Token
  Alice = Alice
  Bob = Bob
  Shop = Shop
  Hot = Hot
  Cold = Cold
  None = None
  ChainId = Base
  Usdc = Token
  DomainName = "USD Coin"
  MaxU128 = 20
  MaxI32 = 2
  MinGas = 2
  MaxGas = 4
  MinAmount = 2
  MaxRestarts = 2
  Nonces = {1}
  Files <- SignerFiles
  Requests <- OneRequest
  Strays <- NoStrays
  FeeAnswers <- Estimates
  L1Fees = {1}
  Balances = {14}
SPECIFICATION Spec
CHECK_DEADLOCK FALSE
INVARIANT SignerPersisted
