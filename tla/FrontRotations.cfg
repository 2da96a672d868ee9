\* Two rotations of one client at once.
SPECIFICATION Spec
CONSTANTS
    Clients = {c1}
    Keys = {k1, k2, k3}
    Admins = {a1, a2}
    Environments = {"testnet", "mainnet"}
    Networks <- TwoTiers
    Tier = "testnet"
    Network = "near:testnet"
    Eip155 = {}
    Asset <- NearAsset
    Addresses <- NearAddresses
    MaxPayees = 1
    NoClient = NoClient
    NoKey = NoKey
    Requests = {r1}
    Operations = {"verify"}
    ClientRate <- VerifyRate
    ConfigRate <- VerifyRate
    Window = 2
    MaxTime = 0
    Slots = 1
    FlawSets <- NoFlaws
    NoWindow = NoWindow
INVARIANT OneActiveKey
CHECK_DEADLOCK FALSE
