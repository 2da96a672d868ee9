---------------------------- MODULE MCNearVerify -----------------------------
(* Small instances of NearVerify.                                           *)
EXTENDS NearVerify

Request(flaws, nonce, maxBlock, amount) ==
  [flaws |-> flaws, nonce |-> nonce, maxBlock |-> maxBlock, amount |-> amount, timeout |-> 2]

\* Nothing wrong, one thing wrong, and a signature wrong next to something
\* else; nonces, expiries and amounts around every boundary.
FlawSets == {{}} \cup {{f} : f \in ToSet(StaticChecks)} \cup {{"signature", f} : f \in ToSet(StaticChecks)}

SmallRequests ==
  {Request({}, nonce, maxBlock, amount) : nonce \in {1, 2, 6}, maxBlock \in 2..6, amount \in {1, 2}}
  \cup {Request(f, 2, 4, 1) : f \in FlawSets}
  \cup {Request({}, 2, 4, 8)}

\* An amount beyond a u128, and one within.
WideRequests == {Request({}, 2, 4, amount) : amount \in {1, 8}}

State(permission, keyNonce, account, token, balance, storage) ==
  [permission |-> permission, keyNonce |-> keyNonce, account |-> account,
   token |-> token, balance |-> balance, storage |-> storage]

\* Funds and registration move in opposite directions, and each single thing
\* that can be missing.
SmallStates ==
  {State("full", 1, TRUE, "code", 2, "registered"),
   State("full", 1, TRUE, "code", 2, "null"),
   State("full", 1, TRUE, "code", 0, "registered"),
   State("full", 2, TRUE, "code", 1, "no_method"),
   State("function_call", 1, TRUE, "code", 2, "registered"),
   State("gas_key", 1, TRUE, "code", 2, "registered"),
   State("none", 0, TRUE, "code", 2, "registered"),
   State("none", 0, FALSE, "code", 2, "registered"),
   State("full", 1, TRUE, "none", 0, "no_method"),
   State("full", 1, TRUE, "no_code", 0, "no_method")}

GoodStates == {State("full", 1, TRUE, "code", 2, "registered")}

=============================================================================
