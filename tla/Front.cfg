\* Base: rotations, a revocation and policy changes race the requests of one
\* connection.
SPECIFICATION Spec
CONSTANTS
    Clients = {c1}
    Keys = {k1, k2}
    Admins = {a1, a2}
    Environments = {"testnet", "mainnet"}
    Networks <- BaseTiers
    Tier = "testnet"
    Network = "eip155:84532"
    Eip155 = {"eip155:84532", "eip155:8453"}
    Asset <- BaseAsset
    Addresses <- BaseAddresses
    MaxPayees = 1
    NoClient = NoClient
    NoKey = NoKey
    Requests = {r1}
    Operations = {"verify"}
    ClientRate <- VerifyRate
    ConfigRate <- VerifyRate
    Window = 2
    MaxTime = 2
    Slots = 1
    FlawSets <- SomeFlaws
    NoWindow = NoWindow
INVARIANTS DeadKeyStaysOut SlotsConserved RateBound
PROPERTIES RefusedAtLimit ReadyMeansServable
SYMMETRY Interchangeable
CHECK_DEADLOCK FALSE
