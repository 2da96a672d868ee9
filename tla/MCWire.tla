------------------------------- MODULE MCWire -------------------------------
(* Requests around one payment, written in both dialects, and the ways in  *)
(* which clients get them wrong.                                           *)
EXTENDS Wire, TLC

MCAliases == ("base" :> "eip155:8453") @@ ("base-sepolia" :> "eip155:84532")
MCFamily ==
  ("eip155:8453" :> "eip155") @@ ("eip155:84532" :> "eip155") @@ ("near:mainnet" :> "near")
  @@ ("solana:main" :> "other")
MCValue == ("0" :> 0) @@ ("10" :> 10) @@ ("010" :> 10) @@ ("20" :> 20)
MCSpelling == ("0xUSDC" :> "0xusdc") @@ ("0xPAYER" :> "0xpayer")
MCDomain == [name |-> "USD Coin", version |-> "2"]
MCIdentifiers == {"id-1"}
MCNonces32 == {"0x1", "0x2"}
MCDelegates == {"signed"}

Instance(kind, network, asset, v1, required) ==
  [kind |-> kind, network |-> network, asset |-> asset, minimum |-> "10",
   acceptV1 |-> v1, idRequired |-> required]

MCInstances ==
  {Instance("eip155", "eip155:8453", "0xUSDC", v1, required) : v1, required \in BOOLEAN}
  \cup {Instance("near", "near:mainnet", "usdc.near", v1, FALSE) : v1 \in BOOLEAN}

RequiredInstances == {Instance("eip155", "eip155:8453", "0xUSDC", TRUE, TRUE)}

-----------------------------------------------------------------------------

Authorization(from, value, nonce) ==
  [from |-> from, to |-> "0xpayee", value |-> value, validAfter |-> "0", validBefore |-> "20",
   nonce |-> nonce]
Mechanism(from, value, nonce) ==
  [authorization |-> Authorization(from, value, nonce), signature |-> "0xsig"]
First == Mechanism("0xpayer", "10", "0x1")

Terms(network, asset, amount) ==
  [scheme |-> "exact", network |-> network, asset |-> asset, amount |-> amount,
   payTo |-> "0xpayee", maxTimeoutSeconds |-> 60]
BaseTerms == Terms("eip155:8453", "0xUSDC", "10") @@ [extra |-> MCDomain]
NearTerms == Terms("near:mainnet", "usdc.near", "10")

V2(terms, mechanism) ==
  [x402Version |-> 2,
   paymentPayload |-> [x402Version |-> 2, accepted |-> terms, payload |-> mechanism],
   paymentRequirements |-> terms]
With(body, fields) == [body EXCEPT !.paymentPayload = @ @@ fields]
WithId(body, id) ==
  With(body, [extensions |-> ("payment-identifier" :>
    [info |-> [required |-> FALSE, id |-> id], schema |-> << >>])])

V1Base ==
  [scheme |-> "exact", network |-> "base", asset |-> "0xUSDC", maxAmountRequired |-> "10",
   payTo |-> "0xpayee", maxTimeoutSeconds |-> 60, extra |-> MCDomain]
V1(required, network, mechanism) ==
  [x402Version |-> 1,
   paymentPayload |-> [x402Version |-> 1, scheme |-> "exact", network |-> network, payload |-> mechanism],
   paymentRequirements |-> required]

\* Requests that settle, among them several spellings of one payment.
Payments ==
  {V2(BaseTerms, First),
   V2(BaseTerms, Mechanism("0xPAYER", "10", "0x1")),
   V2(BaseTerms, Mechanism("0xpayer", "010", "0x1")),
   V2([BaseTerms EXCEPT !.maxTimeoutSeconds = 30], First),
   With(V2(BaseTerms, First), [resource |-> [url |-> "/r"]]),
   WithId(V2(BaseTerms, First), "id-1"),
   WithId(V2(BaseTerms, Mechanism("0xpayer", "10", "0x2")), "id-1"),
   V1(V1Base, "base", First),
   V1(V1Base @@ [resource |-> "/r", description |-> "d", mimeType |-> "m", outputSchema |-> << >>],
      "base", First),
   V2([BaseTerms EXCEPT !.extra = @ @@ [decimals |-> "6"]], First),
   V2(NearTerms, [signedDelegateAction |-> "signed"]),
   [V2(NearTerms, [signedDelegateAction |-> "signed"])
      EXCEPT !.paymentPayload.accepted.maxTimeoutSeconds = 30]}

\* Requests that parse and are turned away for what they ask.
Unserved ==
  {V2(Terms("eip155:84532", "0xUSDC", "10"), First),
   V2(Terms("solana:main", "0xUSDC", "10"), [signedDelegateAction |-> "signed"]),
   V2(Terms("eip155:8453", "0xUSDC", "0"), First),
   V2(Terms("eip155:8453", "0xother", "10"), First),
   V2(Terms("eip155:8453", "0xUSDC", "10"), First),
   V2(NearTerms, [signedDelegateAction |-> "torn"]),
   V2(NearTerms @@ [extra |-> [assetTransferMethod |-> "intents"]], << >>),
   [V2(BaseTerms, First) EXCEPT !.paymentRequirements.amount = "20"],
   [V2(BaseTerms, First) EXCEPT !.x402Version = 3],
   V1([V1Base EXCEPT !.network = "base-sepolia"], "base-sepolia", First)}

\* Requests the parser refuses.
Refused ==
  {[x402Version |-> 2],
   V2(BaseTerms @@ [memo |-> "x"], First),
   V2([BaseTerms EXCEPT !.maxTimeoutSeconds = Bad], First),
   V2([BaseTerms EXCEPT !.amount = "ten"], First),
   V2(BaseTerms, Mechanism("0xpayer", "10", "0x")),
   V2(NearTerms @@ [extra |-> [assetTransferMethod |-> Bad]], << >>),
   With(V2(BaseTerms, First), [resource |-> [url |-> "/r", tags |-> Bad]]),
   WithId(V2(BaseTerms, First), "short"),
   V1([V1Base EXCEPT !.network = "optimism"], "optimism", First),
   V1(V1Base, "base-sepolia", First),
   V1([V1Base EXCEPT !.maxTimeoutSeconds = 0], "base", First),
   V1(V1Base @@ [amount |-> "10"], "base", First)}

MCBodies == Payments \cup Unserved \cup Refused
==============================================================================
