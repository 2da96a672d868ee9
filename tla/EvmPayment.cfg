CONSTANTS
  Base = Base
  Token = Token
  Alice = Alice
  Bob = Bob
  Shop = Shop
  Hot = Hot
  Cold = Cold
  None = None
  ChainId = Base
  Usdc = Token
  DomainName = "USD Coin"
  MaxU128 = 20
  MaxI32 = 2
  MinGas = 2
  MaxGas = 4
  MinAmount = 2
  MaxRestarts = 2
  Nonces = {1}
  Files <- PaymentFiles
  Requests <- PaymentRequests
  Strays <- PaymentStrays
  FeeAnswers <- Estimates
  L1Fees = {0, 2, 3, 7}
  Balances = {8, 12, 14}
SPECIFICATION Spec
CHECK_DEADLOCK FALSE
INVARIANT OwnBytesAccepted
INVARIANT AcceptedIsThePayment
INVARIANT NoSelfInflictedFailure
INVARIANT HardStopKept
INVARIANT BookedIsCharged
