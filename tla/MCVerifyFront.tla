--------------------------- MODULE MCVerifyFront ----------------------------
(* Instances of VerifyFront. *)
EXTENDS VerifyFront, TLC

TwoTiers  == [n \in {"near:testnet", "near:mainnet"} |->
                IF n = "near:mainnet" THEN "mainnet" ELSE "testnet"]
BaseTiers == [n \in {"eip155:84532", "eip155:8453"} |->
                IF n = "eip155:8453" THEN "mainnet" ELSE "testnet"]
Spelling(name, upper) == [name |-> name, upper |-> upper]
NearAddresses == {Spelling("usdc", FALSE), Spelling("shop", FALSE)}
BaseAddresses == {Spelling("usdc", u) : u \in BOOLEAN}
NearAsset == Spelling("usdc", FALSE)
BaseAsset == Spelling("usdc", TRUE)
VerifyRate == [o \in {"verify"} |-> 2]
NoFlaws   == {{}}
SomeFlaws == {{}, {"malformed_request", "invalid_network"}}
Interchangeable == Permutations(Keys) \cup Permutations(Admins)
=============================================================================
