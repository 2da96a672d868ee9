-------------------------- MODULE NearProviderProofs -------------------------
(***************************************************************************)
(* Proofs about the NEAR provider: the verification of a payment, for      *)
(* every set of requests and chain states, any lag, any number of failing  *)
(* reads and any widths of the integers; and what is concluded from the    *)
(* outcome of a transaction, for every execution and every part of it an   *)
(* endpoint may show.  The two do not depend on each other.                *)
(*                                                                         *)
(* For the verification the argument is Established: what the checks       *)
(* passed so far have found holds of the pinned block.  The chain may go   *)
(* on, but a block that is there does not change, and the pinned block     *)
(* changes only when an attempt starts over, with every check still to     *)
(* come.                                                                   *)
(*                                                                         *)
(* For the outcome it is Walked: nothing below a visited receipt is        *)
(* forgotten and the visited have run, so when the queue is empty the      *)
(* walk has met all that the transaction led to.                           *)
(***************************************************************************)
EXTENDS NearVerify, ReceiptGraph, FiniteSetTheorems, SequenceTheorems, TLAPS

-----------------------------------------------------------------------------
(* The verification of a NEAR payment.                                     *)

Pcs == {"static", "block", "key", "payer", "token", "balance", "storage", "done"}

\* The nonce bound of every height the chain reaches fits a u64, or no nonce is
\* the largest u64.  Beyond that saturating_mul makes the bound smaller than
\* the chain's own, and the largest nonce is refused for it.
BoundsFit ==
  \/ \A b \in Genesis..MaxHeight : b * NonceRange <= MaxU64
  \/ \A r \in Requests : r.nonce < MaxU64

VerifyTypes ==
  /\ request \in Requests
  /\ height \in Genesis..MaxHeight
  /\ blocks \in [Genesis..height -> States]
  /\ pc \in Pcs
  /\ pinned \in Genesis..height

\* What the checks on the block's height and on the access key say.
InWindow ==
  /\ pinned < request.maxBlock
  /\ request.maxBlock <= pinned + request.timeout
  /\ request.nonce < pinned * NonceRange
KeyGood == At.account /\ At.permission = "full" /\ At.keyNonce < request.nonce

\* The checks that are passed when a read is next.
Established ==
  /\ pc \notin {"static", "done"} => request.flaws = {}
  /\ pc \in {"key", "payer", "token", "balance", "storage"} => InWindow
  /\ pc \in {"payer", "token", "balance", "storage"} => KeyGood
  /\ pc \in {"balance", "storage"} => At.token = "code"
  /\ pc = "storage" => request.amount <= At.balance

\* What the result says of the pinned block.
Judged ==
  /\ result.kind \in {"pending", "valid", "failure"}
  /\ pc # "done" => result = Pending
  /\ result = Valid => ExecutableAt(request, pinned)
  /\ BoundsFit /\ Definitive => ~ExecutableAt(request, pinned)

VerifyInv == VerifyTypes /\ Established /\ Judged

-----------------------------------------------------------------------------

\* A block that is there stays as it is.
LEMMA BlocksStay ==
  ASSUME VerifyTypes, NextBlock
  PROVE  /\ VerifyTypes'
         /\ At' = At
         /\ \A r : ExecutableAt(r, pinned)' <=> ExecutableAt(r, pinned)
<1>1. /\ height \in Nat /\ height' = height + 1
      /\ Genesis \in Nat /\ height' \in Genesis..MaxHeight
  BY VerifyAssumption DEF VerifyTypes, NextBlock
<1>2. PICK s \in States :
        blocks' = [b \in Genesis..height + 1 |-> IF b <= height THEN blocks[b] ELSE s]
  BY Zenon DEF NextBlock
<1>3. \A b \in Genesis..height + 1 : b <= height => b \in Genesis..height
  BY <1>1
<1>4. blocks' \in [Genesis..height' -> States]
  BY <1>1, <1>2, <1>3, Zenon DEF VerifyTypes
<1>5. pinned' = pinned /\ pinned \in Genesis..height' /\ request' = request /\ pc' = pc
  BY <1>1 DEF NextBlock, VerifyTypes
<1>6. blocks'[pinned] = blocks[pinned]
  BY <1>1, <1>2, <1>5 DEF VerifyTypes
<1> QED BY <1>1, <1>4, <1>5, <1>6, Zenon DEF VerifyTypes, At, ExecutableAt

\* How an attempt ends: an ambiguous failure starts over or is the answer,
\* every other failure is the answer.
LEMMA FailGoes ==
  ASSUME NEW reason, Fail(reason)
  PROVE  \/ pc' = "static" /\ result' = result
         \/ pc' = "done" /\ result' = Failure(reason)
  BY Zenon DEF Fail

LEMMA FailDefinitive ==
  ASSUME NEW reason, Fail(reason), reason \notin Ambiguous
  PROVE  pc' = "done" /\ result' = Failure(reason) /\ tries' = tries
  BY Zenon DEF Fail, Transient

\* An attempt that ends keeps the invariant when a definitive reason has its
\* cause in the pinned block.
LEMMA FailKeeps ==
  ASSUME VerifyInv, NEW reason, Fail(reason), chain' = chain,
         pinned' \in Genesis..height, pc # "done",
         BoundsFit /\ reason \notin Ambiguous => ~ExecutableAt(request, pinned')
  PROVE  VerifyInv'
<1>1. VerifyTypes'
  BY FailGoes, Zenon DEF VerifyInv, VerifyTypes, chain, Pcs
<1>2. pc' \in {"static", "done"}
  BY FailGoes, Zenon
<1>3. Established'
  BY <1>2, Zenon DEF Established
<1>4. request' = request /\ blocks' = blocks
  BY Zenon DEF chain
<1>5. result = Pending
  BY Zenon DEF VerifyInv, Judged
<1>6. CASE pc' = "static" /\ result' = result
  BY <1>1, <1>3, <1>5, <1>6, Zenon DEF VerifyInv, Judged, Definitive, Pending, Valid
<1>7. CASE pc' = "done" /\ result' = Failure(reason)
  <2>1. result'.kind = "failure" /\ result'.reason = reason /\ result' # Valid
    BY <1>7, Zenon DEF Failure, Valid
  <2>2. BoundsFit /\ Definitive' => ~ExecutableAt(request, pinned)'
    BY <2>1, <1>4, Zenon DEF Definitive, ExecutableAt
  <2> QED BY <1>1, <1>3, <1>7, <2>1, <2>2, Zenon DEF VerifyInv, Judged
<1> QED BY <1>1, <1>3, <1>6, <1>7, FailGoes, Zenon DEF VerifyInv

\* A read goes on to the next check with what it established.
LEMMA GotoKeeps ==
  ASSUME VerifyInv, NEW read \in Pcs \ {"done"}, Goto(read), chain' = chain,
         pinned' \in Genesis..height, pc # "done", Established'
  PROVE  VerifyInv'
<1>1. VerifyTypes'
  BY Zenon DEF VerifyInv, VerifyTypes, chain, Goto
<1>2. result' = Pending
  BY Zenon DEF VerifyInv, Judged, Goto
<1>3. Judged'
  BY <1>2 DEF Judged, Pending, Valid, Definitive, Goto
<1> QED BY <1>1, <1>3, Zenon DEF VerifyInv

-----------------------------------------------------------------------------
(* One step of the verification.                                           *)

LEMMA CheckRequestKeeps ==
  ASSUME VerifyInv, CheckRequest
  PROVE  VerifyInv'
<1> DEFINE failed == {i \in DOMAIN StaticChecks : StaticChecks[i] \in request.flaws}
<1>1. pc = "static" /\ chain' = chain /\ pinned' = pinned /\ pinned \in Genesis..height
  BY Zenon DEF CheckRequest, VerifyInv, VerifyTypes
<1>2. CASE failed = {} /\ Goto("block")
  <2>1. request.flaws \subseteq ToSet(StaticChecks)
    BY VerifyAssumption, Zenon DEF VerifyInv, VerifyTypes
  <2>2. request.flaws = {}
    BY <1>2, <2>1, Zenon DEF ToSet
  <2>3. Established'
    BY <1>1, <1>2, <2>2, Zenon DEF Established, Goto, chain
  <2> QED BY <1>1, <1>2, <2>3, GotoKeeps, Zenon DEF Pcs
<1>3. ASSUME NEW i \in failed, Fail(StaticChecks[i])
      PROVE  VerifyInv'
  <2>1. request.flaws # {}
    BY <1>3, Zenon
  <2>2. ~ExecutableAt(request, pinned')
    BY <2>1, Zenon DEF ExecutableAt
  <2> QED BY <1>1, <1>3, <2>2, FailKeeps, Zenon
<1> QED BY <1>2, <1>3, Zenon DEF CheckRequest

LEMMA ReadBlockKeeps ==
  ASSUME VerifyInv, ReadBlock
  PROVE  VerifyInv'
<1>1. PICK b \in Genesis..height :
        /\ pinned' = b
        /\ IF Expired(request, b) THEN Fail("expired")
           ELSE IF request.maxBlock - b > request.timeout THEN Fail("timeout_window")
           ELSE IF request.nonce >= Saturating(b * NonceRange) THEN Fail("nonce_range")
           ELSE Goto("key")
  BY Zenon DEF ReadBlock
<1>2. pc = "block" /\ chain' = chain /\ request.flaws = {}
  BY Zenon DEF ReadBlock, VerifyInv, Established
<1>3. /\ b \in Nat /\ request.maxBlock \in Nat /\ request.timeout \in Nat /\ request.nonce \in Nat
      /\ NonceRange \in Nat /\ MaxU64 \in Nat
  BY VerifyAssumption DEF VerifyInv, VerifyTypes
<1>4. b * NonceRange \in Nat
  BY <1>3
<1>5. CASE Expired(request, b) /\ Fail("expired")
  <2>1. ~ExecutableAt(request, b)
    BY <1>3, <1>5 DEF Expired, ExecutableAt
  <2> QED BY <1>1, <1>2, <1>5, <2>1, FailKeeps, Zenon
<1>6. CASE request.maxBlock - b > request.timeout /\ Fail("timeout_window")
  <2>1. ~ExecutableAt(request, b)
    BY <1>3, <1>6 DEF ExecutableAt
  <2> QED BY <1>1, <1>2, <1>6, <2>1, FailKeeps, Zenon
<1>7. CASE request.nonce >= Saturating(b * NonceRange) /\ Fail("nonce_range")
  <2>1. b \in Genesis..MaxHeight /\ request \in Requests
    BY VerifyAssumption DEF VerifyInv, VerifyTypes
  <2>2. BoundsFit => b * NonceRange <= MaxU64 \/ request.nonce < MaxU64
    BY <2>1, Zenon DEF BoundsFit
  <2>3. BoundsFit => ~(request.nonce < b * NonceRange)
    BY <1>3, <1>4, <1>7, <2>2 DEF Saturating
  <2>4. BoundsFit => ~ExecutableAt(request, b)
    BY <2>3, Zenon DEF ExecutableAt
  <2> QED BY <1>1, <1>2, <1>7, <2>4, FailKeeps, Zenon
<1>8. CASE /\ ~Expired(request, b) /\ ~(request.maxBlock - b > request.timeout)
           /\ ~(request.nonce >= Saturating(b * NonceRange)) /\ Goto("key")
  <2>1. Saturating(b * NonceRange) <= b * NonceRange /\ Saturating(b * NonceRange) \in Nat
    BY <1>3, <1>4 DEF Saturating
  <2>2. b < request.maxBlock /\ request.maxBlock <= b + request.timeout /\ request.nonce < b * NonceRange
    BY <1>3, <1>4, <1>8, <2>1 DEF Expired
  <2>3. Established'
    BY <1>1, <1>2, <1>8, <2>2, Zenon DEF Established, InWindow, Goto, chain
  <2> QED BY <1>1, <1>2, <1>8, <2>3, GotoKeeps, Zenon DEF Pcs
<1> QED BY <1>1, <1>5, <1>6, <1>7, <1>8, Zenon

\* A read of the pinned block: what it may rely on.
LEMMA AtRead ==
  ASSUME VerifyInv, NEW read \in Pcs \ {"static", "block", "done"}, Read(read)
  PROVE  /\ pc = read /\ chain' = chain /\ pinned' = pinned /\ pinned' \in Genesis..height
         /\ At \in States /\ At' = At /\ At = blocks[pinned]
         /\ request' = request /\ request \in Requests
         /\ request.flaws = {} /\ InWindow /\ InWindow'
<1>1. pc = read /\ UNCHANGED <<chain, pinned, failures>>
  BY Zenon DEF Read
<1>2. request' = request /\ blocks' = blocks /\ height' = height /\ pinned' = pinned
  BY <1>1, Zenon DEF chain
<1>3. request \in Requests /\ pinned \in Genesis..height /\ blocks \in [Genesis..height -> States]
  BY Zenon DEF VerifyInv, VerifyTypes
<1>4. request.flaws = {} /\ InWindow
  BY <1>1, Zenon DEF VerifyInv, Established, Pcs
<1>5. At \in States /\ At' = At /\ InWindow'
  BY <1>2, <1>3, <1>4, Zenon DEF At, InWindow
<1> QED BY <1>1, <1>2, <1>3, <1>4, <1>5, Zenon DEF chain, At

LEMMA ReadKeyKeeps ==
  ASSUME VerifyInv, ReadKey
  PROVE  VerifyInv'
<1>1. Read("key") /\ "key" \in Pcs \ {"static", "block", "done"} /\ "key" # "done"
  BY Zenon DEF ReadKey, Pcs
<1>2. /\ At.permission \in {"none", "full", "function_call", "gas_key"}
      /\ At.keyNonce \in Nat /\ request.nonce \in Nat
  BY <1>1, AtRead, VerifyAssumption, Zenon
<1>3. ASSUME NEW reason, Fail(reason),
             \/ At.permission # "full"
             \/ ~At.account
             \/ request.nonce <= At.keyNonce
      PROVE  VerifyInv'
  <2>1. ~ExecutableAt(request, pinned')
    BY <1>1, <1>2, <1>3, AtRead DEF ExecutableAt
  <2> QED BY <1>1, <1>3, <2>1, AtRead, FailKeeps, Zenon
<1>4. ASSUME Goto("payer"), At.permission = "full", At.account, ~(request.nonce <= At.keyNonce)
      PROVE  VerifyInv'
  <2>1. KeyGood'
    BY <1>1, <1>2, <1>4, AtRead DEF KeyGood
  <2>2. Established'
    BY <1>1, <1>4, <2>1, AtRead, Zenon DEF Established, Goto
  <2> QED BY <1>1, <1>4, <2>2, AtRead, GotoKeeps, Zenon DEF Pcs
<1> QED BY <1>2, <1>3, <1>4, Zenon DEF ReadKey

LEMMA ReadPayerKeeps ==
  ASSUME VerifyInv, ReadPayer
  PROVE  VerifyInv'
<1>1. Read("payer") /\ "payer" \in Pcs \ {"static", "block", "done"}
  BY Zenon DEF ReadPayer, Pcs
<1>2. KeyGood
  BY <1>1, Zenon DEF Read, VerifyInv, Established
<1>3. CASE Goto("token")
  <2>1. Established'
    BY <1>1, <1>2, <1>3, AtRead, Zenon DEF Established, Goto, KeyGood
  <2> QED BY <1>1, <1>3, <2>1, AtRead, GotoKeeps, Zenon DEF Pcs
<1> QED BY <1>2, <1>3, Zenon DEF ReadPayer, KeyGood

LEMMA ReadTokenKeeps ==
  ASSUME VerifyInv, ReadToken
  PROVE  VerifyInv'
<1>1. Read("token") /\ "token" \in Pcs \ {"static", "block", "done"}
  BY Zenon DEF ReadToken, Pcs
<1>2. KeyGood /\ At.token \in {"none", "no_code", "code"}
  BY <1>1, AtRead, VerifyAssumption, Zenon DEF VerifyInv, Established
<1>3. ASSUME NEW reason, Fail(reason), At.token # "code"
      PROVE  VerifyInv'
  <2>1. ~ExecutableAt(request, pinned')
    BY <1>1, <1>3, AtRead, Zenon DEF ExecutableAt
  <2> QED BY <1>1, <1>3, <2>1, AtRead, FailKeeps, Zenon
<1>4. ASSUME Goto("balance"), At.token = "code"
      PROVE  VerifyInv'
  <2>1. Established'
    BY <1>1, <1>2, <1>4, AtRead, Zenon DEF Established, Goto, KeyGood
  <2> QED BY <1>1, <1>4, <2>1, AtRead, GotoKeeps, Zenon DEF Pcs
<1> QED BY <1>2, <1>3, <1>4, Zenon DEF ReadToken

LEMMA ReadBalanceKeeps ==
  ASSUME VerifyInv, ReadBalance
  PROVE  VerifyInv'
<1>1. Read("balance") /\ "balance" \in Pcs \ {"static", "block", "done"}
  BY Zenon DEF ReadBalance, Pcs
<1>2. KeyGood /\ At.token = "code" /\ At.balance \in Nat /\ request.amount \in Nat
  BY <1>1, AtRead, VerifyAssumption, Zenon DEF VerifyInv, Established
<1>3. CASE Fail("balance_check")
  BY <1>1, <1>3, AtRead, FailKeeps, Zenon DEF Ambiguous
<1>4. CASE At.balance < request.amount /\ Fail("insufficient_funds")
  <2>1. ~ExecutableAt(request, pinned')
    BY <1>1, <1>2, <1>4, AtRead DEF ExecutableAt
  <2> QED BY <1>1, <1>4, <2>1, AtRead, FailKeeps, Zenon
<1>5. CASE ~(At.balance < request.amount) /\ Goto("storage")
  <2>1. Established'
    BY <1>1, <1>2, <1>5, AtRead DEF Established, Goto, KeyGood
  <2> QED BY <1>1, <1>5, <2>1, AtRead, GotoKeeps, Zenon DEF Pcs
<1> QED BY <1>3, <1>4, <1>5, Zenon DEF ReadBalance, BalanceBlock, At

LEMMA ReadStorageKeeps ==
  ASSUME VerifyInv, ReadStorage
  PROVE  VerifyInv'
<1>1. Read("storage") /\ "storage" \in Pcs \ {"static", "block", "done"}
  BY Zenon DEF ReadStorage, Pcs
<1>2. KeyGood /\ At.token = "code" /\ request.amount <= At.balance
  BY <1>1, Zenon DEF Read, VerifyInv, Established
<1>3. CASE At.storage = "null" /\ Fail("recipient_not_registered")
  <2>1. ~ExecutableAt(request, pinned')
    BY <1>1, <1>3, AtRead, Zenon DEF ExecutableAt
  <2> QED BY <1>1, <1>3, <2>1, AtRead, FailKeeps, Zenon
<1>4. CASE At.storage # "null" /\ Accept
  <2>1. VerifyTypes'
    BY <1>1, <1>4, AtRead, Zenon DEF VerifyInv, VerifyTypes, chain, Accept, Pcs
  <2>2. Established'
    BY <1>4, Zenon DEF Established, Accept
  <2>3. ExecutableAt(request, pinned)'
    BY <1>1, <1>2, <1>4, AtRead, Zenon DEF ExecutableAt, At, KeyGood, InWindow
  <2>4. Judged'
    BY <1>4, <2>3, Zenon DEF Judged, Accept, Valid, Definitive
  <2> QED BY <2>1, <2>2, <2>4, Zenon DEF VerifyInv
<1> QED BY <1>3, <1>4, Zenon DEF ReadStorage

\* A read that fails is ambiguous, whichever read it is.
LEMMA AnyReadFailsKeeps ==
  ASSUME VerifyInv, AnyReadFails
  PROVE  VerifyInv'
<1>1. PICK read \in Pcs \ {"static", "done"}, reason \in Ambiguous : ReadFails(read, reason)
  BY Zenon DEF AnyReadFails, KeyLookupFailed, Ambiguous, Pcs
<1>2. /\ pc # "done" /\ Fail(reason) /\ chain' = chain
      /\ pinned' = pinned /\ pinned' \in Genesis..height
  BY <1>1, Zenon DEF ReadFails, VerifyInv, VerifyTypes
<1> QED BY <1>1, <1>2, FailKeeps, Zenon

LEMMA VerifyInvStep ==
  ASSUME VerifyInv, [Next]_vars
  PROVE  VerifyInv'
<1>1. CASE NextBlock
  <2>1. UNCHANGED <<request, pc, pinned, result>>
    BY <1>1, Zenon DEF NextBlock
  <2>2. VerifyTypes' /\ At' = At /\ (ExecutableAt(request, pinned)' <=> ExecutableAt(request, pinned))
    BY <1>1, BlocksStay, Zenon DEF VerifyInv, NextBlock
  <2>3. Established'
    BY <2>1, <2>2, Zenon DEF VerifyInv, Established, InWindow, KeyGood
  <2>4. Judged'
    BY <2>1, <2>2, Zenon DEF VerifyInv, Judged, Definitive
  <2> QED BY <2>2, <2>3, <2>4, Zenon DEF VerifyInv
<1>2. CASE UNCHANGED vars
  BY <1>2, Zenon DEF vars, VerifyInv, VerifyTypes, Established, InWindow, KeyGood, At, Judged,
              ExecutableAt, Definitive
<1> QED
  BY <1>1, <1>2, CheckRequestKeeps, ReadBlockKeeps, ReadKeyKeeps, ReadPayerKeeps, ReadTokenKeeps,
     ReadBalanceKeeps, ReadStorageKeeps, AnyReadFailsKeeps, Zenon
  DEF Next, Step, Stopped

LEMMA VerifyInvInit ==
  ASSUME Init
  PROVE  VerifyInv
<1>1. Genesis \in Nat /\ MaxHeight \in Nat /\ Genesis <= MaxHeight
  BY VerifyAssumption, Zenon
<1>2. Genesis..Genesis = {Genesis}
  BY <1>1
<1>3. VerifyTypes
  BY <1>1, <1>2 DEF Init, VerifyTypes, Pcs
<1>4. Established /\ Judged
  BY Zenon DEF Init, Established, Judged, Pending, Valid, Definitive
<1> QED BY <1>3, <1>4, Zenon DEF VerifyInv

LEMMA VerifyInvHolds == Spec => []VerifyInv
  BY VerifyInvInit, VerifyInvStep, PTL DEF Spec

\* A verified payment could be executed at one block of the chain
\* (verify_proto_request, ExecutableAt): no check is made of another block than
\* the others, however the chain goes on and whichever reads fail and are
\* retried.
THEOREM ValidIsExecutable == Spec => []ValidAtOneBlock
<1>1. VerifyInv => ValidAtOneBlock
  BY Zenon DEF VerifyInv, VerifyTypes, Judged, ValidAtOneBlock
<1> QED BY <1>1, VerifyInvHolds, PTL

\* A payment is refused for good only because of something a block says
\* (near_verification_is_rpc_ambiguous keeps failing reads apart), as long as
\* the nonce bound does not saturate.
THEOREM RefusalHasCause == BoundsFit => (Spec => []RefusedForCause)
<1> SUFFICES ASSUME BoundsFit PROVE Spec => []RefusedForCause
  BY Zenon
<1>1. VerifyInv => RefusedForCause
  BY Zenon DEF VerifyInv, VerifyTypes, Judged, RefusedForCause
<1> QED BY <1>1, VerifyInvHolds, PTL

FailuresCounted == failures \in Nat

LEMMA FailuresCount == Spec => []FailuresCounted
<1>1. Init => FailuresCounted
  BY DEF Init, FailuresCounted
<1>2. ASSUME FailuresCounted, [Next]_vars PROVE FailuresCounted'
  <2>1. ASSUME NEW read, NEW reason, ReadFails(read, reason) PROVE FailuresCounted'
    BY <1>2, <2>1 DEF ReadFails, FailuresCounted
  <2>2. CASE ~AnyReadFails
    BY <1>2, <2>2, Zenon DEF Next, Step, Stopped, vars, NextBlock, CheckRequest, ReadBlock, ReadKey, ReadPayer,
                      ReadToken, ReadBalance, ReadStorage, Read, FailuresCounted
  <2> QED BY <2>1, <2>2, Zenon DEF AnyReadFails
<1> QED BY <1>1, <1>2, PTL DEF Spec

\* An attempt is repeated only after a read that failed, or for an amount that
\* does not fit a u128 (retry_while_transient): no definitive refusal is tried
\* again.
THEOREM RetriesAreForAmbiguity == Spec => RetriesOnlyAmbiguity
<1> DEFINE Retry == tries' # tries => failures' # failures \/ request.amount > MaxU128 \/ At.balance > MaxU128
<1>1. ASSUME NEW reason, Fail(reason), reason \notin Ambiguous PROVE Retry
  BY <1>1, FailDefinitive, Zenon
<1>2. ASSUME NEW read, Goto(read) PROVE Retry
  BY <1>2, Zenon DEF Goto
<1>3. ASSUME FailuresCounted, NEW read, NEW reason, ReadFails(read, reason) PROVE Retry
  BY <1>3 DEF ReadFails, FailuresCounted
<1>4. ASSUME CheckRequest PROVE Retry
  <2>1. \A i \in DOMAIN StaticChecks : StaticChecks[i] \notin Ambiguous
    BY DEF StaticChecks, Ambiguous
  <2> QED BY <1>1, <1>2, <1>4, <2>1, Zenon DEF CheckRequest
<1>5. ASSUME ReadBlock PROVE Retry
  BY <1>1, <1>2, <1>5, Zenon DEF ReadBlock, Ambiguous
<1>6. ASSUME ReadKey PROVE Retry
  BY <1>1, <1>2, <1>6, Zenon DEF ReadKey, Ambiguous
<1>7. ASSUME ReadPayer PROVE Retry
  BY <1>1, <1>2, <1>7, Zenon DEF ReadPayer, Ambiguous
<1>8. ASSUME ReadToken PROVE Retry
  BY <1>1, <1>2, <1>8, Zenon DEF ReadToken, Ambiguous
<1>9. ASSUME ReadBalance PROVE Retry
  BY <1>1, <1>2, <1>9, Zenon DEF ReadBalance, Ambiguous, BalanceBlock, At
<1>10. ASSUME ReadStorage PROVE Retry
  BY <1>1, <1>10, Zenon DEF ReadStorage, Ambiguous, Accept
<1>11. ASSUME FailuresCounted, [Next]_vars PROVE Retry \/ UNCHANGED vars
  <2>1. CASE NextBlock
    BY <2>1, Zenon DEF NextBlock
  <2>2. CASE AnyReadFails
    BY <1>3, <1>11, <2>2, Zenon DEF AnyReadFails
  <2> QED BY <1>4, <1>5, <1>6, <1>7, <1>8, <1>9, <1>10, <1>11, <2>1, <2>2, Zenon DEF Next, Step, Stopped
<1> QED BY <1>11, FailuresCount, PTL DEF Spec, RetriesOnlyAmbiguity

-----------------------------------------------------------------------------
(* The outcome of a NEAR transaction: what the walk rests on.              *)

\* The outcome u of a receipt is v, or is v without its result.
Same(u, v) ==
  /\ u.id = v.id /\ u.executor = v.executor /\ u.children = v.children
  /\ u.status \in {v.status, "unknown"}

\* What an endpoint shows of the execution t: every outcome in it is one of
\* t's, and when no receipt has two, they agree wherever both have one.
Shows(o, t) ==
  /\ o.final = t.final /\ o.tx = t.tx
  /\ Len(o.receipts) \in Nat /\ DOMAIN o.receipts = 1..Len(o.receipts)
  /\ \A i \in DOMAIN o.receipts : \E j \in DOMAIN t.receipts : Same(o.receipts[i], t.receipts[j])
  /\ Unique(o) => \A i \in DOMAIN o.receipts, j \in DOMAIN t.receipts :
       o.receipts[i].id = t.receipts[j].id => Same(o.receipts[i], t.receipts[j])

\* The walk so far, with the receipts in seen visited and those in open to
\* come: no receipt below a visited one is forgotten, and all of the visited
\* have run, but for the result of the token receipt.
Walked(o, seen, open) ==
  /\ Refusal(o) = NoVerdict
  /\ seen \subseteq Known(o)
  /\ \A r \in seen : ~Failed(o, r) /\ (r # Token(o) => Outcome(o, r).status # "unknown")
  /\ ToSet(o.tx.children) \subseteq seen \cup open
  /\ \A r \in seen : ToSet(Children(o, r)) \subseteq seen \cup open

\* A reported success is of an execution that paid, failed nowhere and left no
\* receipt waiting.
SuccessIsWhole == Succeeded => Paid(truth) /\ ~SomethingFailed(truth) /\ Ran(truth)

WalkInv ==
  /\ truth \in Truths
  /\ \A i \in 1..2 : lookups[i] \in Lookups(truth)
  /\ phase = "identity" => (out.bound => Shows(out, truth))
  /\ phase \in {"check", "walk", "sort"} => Shows(out, truth)
  /\ phase \in {"merge", "identity", "check"} => visited = {}
  /\ phase = "walk" => queue \in Seq(Reachable(truth)) /\ Walked(out, visited, ToSet(queue))
  /\ phase = "sort" => Walked(out, visited, {})
  /\ FailureIsOnChain
  /\ SuccessIsWhole

LEMMA TruthIsExecution ==
  ASSUME NEW t \in Truths \cup Others
  PROVE  IsExecution(t)
BY ReceiptAssumption, Zenon

\* Reachable holds the transaction's receipts and is closed.
LEMMA ReachableCloses ==
  ASSUME NEW o, o.tx.children \in Seq(Ids)
  PROVE  /\ Reachable(o) \subseteq Ids
         /\ ToSet(o.tx.children) \subseteq Reachable(o)
         /\ Closed(o, Reachable(o))
<1> DEFINE from == ToSet(o.tx.children)
           R == Reachable(o)
<1>1. R = {r \in Ids : \A S \in SUBSET Ids : from \subseteq S /\ Closed(o, S) => r \in S}
  BY Zenon DEF Reachable, Closure
<1>2. from \subseteq Ids
  BY DEF ToSet
<1> HIDE DEF from, R
<1>3. from \subseteq R /\ R \subseteq Ids
  BY <1>1, <1>2, Zenon
<1>4. ASSUME NEW r \in Listed(o, R) PROVE r \in R
  <2>1. r \in Ids
    BY Zenon DEF Listed
  <2>2. ASSUME NEW S \in SUBSET Ids, from \subseteq S, Closed(o, S) PROVE r \in S
    <3>1. R \subseteq S
      BY <1>1, <2>2, Zenon
    <3>2. r \in Listed(o, S)
      BY <3>1, Zenon DEF Listed
    <3> QED BY <2>2, <3>2, Zenon DEF Closed
  <2> QED BY <1>1, <2>1, <2>2, Zenon
<1> QED BY <1>3, <1>4, Zenon DEF Closed, from, R

LEMMA RemovedIsPart ==
  ASSUME NEW s, s \in Seq({s[i] : i \in DOMAIN s}), NEW i \in DOMAIN s
  PROVE  /\ \A k \in DOMAIN RemoveAt(s, i) : \E j \in DOMAIN s : RemoveAt(s, i)[k] = s[j]
         /\ Len(RemoveAt(s, i)) \in Nat /\ DOMAIN RemoveAt(s, i) = 1..Len(RemoveAt(s, i))
<1> DEFINE T == {s[j] : j \in DOMAIN s}
           a == SubSeq(s, 1, i - 1)
           b == SubSeq(s, i + 1, Len(s))
<1>1. s \in Seq(T) /\ DOMAIN s = 1..Len(s) /\ Len(s) \in Nat
  OBVIOUS
<1> HIDE DEF T
<1>2. a \in Seq(T) /\ b \in Seq(T)
  BY <1>1
<1>3. RemoveAt(s, i) \in Seq(T)
  BY <1>2 DEF RemoveAt
<1>4. \A k \in DOMAIN RemoveAt(s, i) : RemoveAt(s, i)[k] \in T
  BY <1>3
<1>5. Len(RemoveAt(s, i)) \in Nat /\ DOMAIN RemoveAt(s, i) = 1..Len(RemoveAt(s, i))
  BY <1>3
<1> QED BY <1>4, <1>5, Zenon DEF T

\* The outcome in a lookup, when it is of this transaction, shows the
\* execution on chain.
LEMMA LookupShows ==
  ASSUME NEW t \in Truths, NEW l \in Lookups(t), l.kind = "final", l.outcome.bound
  PROVE  Shows(l.outcome, t)
<1> DEFINE o == l.outcome
<1>1. \/ l = Final(t)
      \/ "dropped" \in Shown[t] /\ \E s \in Dropped(t) : l = Final(s)
      \/ \E s \in Blank(t) \cup Foreign : l = Final(s)
      \/ \E kind \in LookupKinds \ {"final", "dropped", "blank", "foreign"} : l = NoOutcome(kind)
  <2>1. PICK kind \in Shown[t] :
          l \in CASE kind = "final"   -> {Final(t)}
                  [] kind = "dropped" -> {Final(s) : s \in Dropped(t)}
                  [] kind = "blank"   -> {Final(s) : s \in Blank(t)}
                  [] kind = "foreign" -> {Final(s) : s \in Foreign}
                  [] OTHER            -> {NoOutcome(kind)}
    BY Zenon DEF Lookups
  <2>2. kind \in LookupKinds
    BY ReceiptAssumption, Zenon
  <2> QED BY <2>1, <2>2, Zenon DEF LookupKinds
<1>2. o = t \/ ("dropped" \in Shown[t] /\ o \in Dropped(t)) \/ o \in Blank(t) \cup Foreign
  BY <1>1 DEF Final, NoOutcome, LookupKinds
<1>3. /\ DOMAIN t = {"final", "bound", "tx", "receipts"}
      /\ t.receipts \in Seq({t.receipts[i] : i \in DOMAIN t.receipts})
      /\ \A i \in DOMAIN t.receipts : DOMAIN t.receipts[i] = {"id", "executor", "status", "children"}
  <2>1. IsExecution(t)
    BY TruthIsExecution, Zenon
  <2> QED BY <2>1, Zenon DEF IsExecution
<1>4. Len(t.receipts) \in Nat /\ DOMAIN t.receipts = 1..Len(t.receipts)
  BY <1>3
<1> SUFFICES Shows(o, t)
  BY Zenon
<1> HIDE DEF o
<1>5. CASE o = t
  <2>1. \A i \in DOMAIN t.receipts : Same(t.receipts[i], t.receipts[i])
    BY Zenon DEF Same
  <2> QED BY <1>4, <1>5, <2>1, Zenon DEF Shows, Unique
<1>6. CASE "dropped" \in Shown[t] /\ o \in Dropped(t)
  <2>1. PICK i \in DOMAIN t.receipts : o = [t EXCEPT !.receipts = RemoveAt(@, i)]
    BY <1>6, Zenon DEF Dropped
  <2>2. o.final = t.final /\ o.tx = t.tx /\ o.receipts = RemoveAt(t.receipts, i)
    BY <1>3, <2>1, Zenon
  <2>3. /\ \A k \in DOMAIN o.receipts : \E j \in DOMAIN t.receipts : o.receipts[k] = t.receipts[j]
        /\ Len(o.receipts) \in Nat /\ DOMAIN o.receipts = 1..Len(o.receipts)
    BY <1>3, <2>2, RemovedIsPart
  <2>4. Unique(t)
    BY <1>6, ReceiptAssumption, Zenon
  <2>5. \A j \in DOMAIN t.receipts : Same(t.receipts[j], t.receipts[j])
    BY Zenon DEF Same
  <2>6. ASSUME NEW k \in DOMAIN o.receipts, NEW j \in DOMAIN t.receipts,
               o.receipts[k].id = t.receipts[j].id
        PROVE  Same(o.receipts[k], t.receipts[j])
    <3>1. PICK n \in DOMAIN t.receipts : o.receipts[k] = t.receipts[n]
      BY <2>3, Zenon
    <3> QED BY <2>4, <2>5, <2>6, <3>1, Zenon DEF Unique
  <2> QED BY <2>2, <2>3, <2>5, <2>6, Zenon DEF Shows
<1>7. CASE o \in Blank(t)
  <2>1. PICK i \in DOMAIN t.receipts : o = [t EXCEPT !.receipts[i].status = "unknown"]
    BY <1>7, Zenon DEF Blank
  <2>2. /\ o.final = t.final /\ o.tx = t.tx
        /\ o.receipts = [t.receipts EXCEPT ![i].status = "unknown"]
    BY <1>3, <2>1, Zenon
  <2>3. /\ DOMAIN o.receipts = DOMAIN t.receipts
        /\ \A k \in DOMAIN t.receipts : k # i => o.receipts[k] = t.receipts[k]
        /\ o.receipts[i] = [t.receipts[i] EXCEPT !.status = "unknown"]
    BY <2>2, Zenon
  <2>4. Len(o.receipts) \in Nat /\ DOMAIN o.receipts = 1..Len(o.receipts)
    <3> DEFINE S == {o.receipts[k] : k \in DOMAIN o.receipts}
    <3>1. o.receipts \in [1..Len(t.receipts) -> S]
      BY <1>4, <2>2, <2>3, Zenon
    <3>2. o.receipts \in Seq(S)
      BY <1>4, <3>1, SeqDef, Zenon
    <3> HIDE DEF S
    <3> QED BY <3>2
  <2>5. ASSUME NEW k \in DOMAIN t.receipts PROVE Same(o.receipts[k], t.receipts[k])
    <3>1. CASE k = i
      BY <1>3, <2>3, <3>1 DEF Same
    <3>2. CASE k # i
      BY <2>3, <3>2, Zenon DEF Same
    <3> QED BY <3>1, <3>2, Zenon
  <2>6. \A k \in DOMAIN t.receipts : o.receipts[k].id = t.receipts[k].id
    BY <2>5, Zenon DEF Same
  <2>7. ASSUME Unique(o), NEW k \in DOMAIN o.receipts, NEW j \in DOMAIN t.receipts,
               o.receipts[k].id = t.receipts[j].id
        PROVE  Same(o.receipts[k], t.receipts[j])
    <3>1. k = j
      BY <2>3, <2>6, <2>7, Zenon DEF Unique
    <3> QED BY <2>5, <3>1, Zenon
  <2> QED BY <2>2, <2>3, <2>4, <2>5, <2>7, Zenon DEF Shows
<1>8. CASE o \in Foreign
  <2>1. PICK s \in Others : o = [s EXCEPT !.bound = FALSE]
    BY <1>8, Zenon DEF Foreign
  <2>2. "bound" \in DOMAIN s
    <3>1. IsExecution(s)
      BY TruthIsExecution, Zenon
    <3> QED BY <3>1, Zenon DEF IsExecution
  <2>3. o.bound = FALSE
    BY <2>1, <2>2, Zenon
  <2> QED BY <2>3, Zenon DEF o
<1> QED BY <1>2, <1>5, <1>6, <1>7, <1>8, Zenon

\* by_id refuses an outcome with two of one receipt.
LEMMA CountedIsUnique ==
  ASSUME NEW o, Len(o.receipts) \in Nat, DOMAIN o.receipts = 1..Len(o.receipts), ~Duplicate(o)
  PROVE  Unique(o)
<1> DEFINE n == Len(o.receipts)
           f == [i \in 1..n |-> o.receipts[i].id]
<1>1. IsFiniteSet(1..n) /\ Cardinality(1..n) = n
  BY FS_Interval
<1>2. Known(o) = {f[i] : i \in 1..n}
  BY Zenon DEF Known
<1>3. f \in Surjection(1..n, Known(o))
  BY <1>2, Zenon DEF Surjection
<1>4. Cardinality(Known(o)) = Cardinality(1..n)
  BY <1>1, Zenon DEF Duplicate
<1>5. f \in Injection(1..n, Known(o))
  BY <1>1, <1>3, <1>4, FS_SurjSameCardinalityImpliesInj, Zenon
<1>6. \A i, j \in 1..n : f[i] = f[j] => i = j
  BY <1>5, Zenon DEF Injection, IsInjective
<1> QED BY <1>6, Zenon DEF Unique

\* The outcome of a receipt is one the execution on chain has, and, when no
\* receipt has two, every one it has.
LEMMA OutcomeIsShown ==
  ASSUME NEW o, NEW t, Shows(o, t), NEW r \in Known(o)
  PROVE  /\ \E j \in DOMAIN t.receipts : t.receipts[j].id = r /\ Same(Outcome(o, r), t.receipts[j])
         /\ Unique(o) => \A j \in DOMAIN t.receipts :
                          t.receipts[j].id = r => Same(Outcome(o, r), t.receipts[j])
<1>1. PICK i \in DOMAIN o.receipts : o.receipts[i].id = r /\ Outcome(o, r) = o.receipts[i]
  BY Zenon DEF Known, Outcome
<1>2. PICK j \in DOMAIN t.receipts : Same(Outcome(o, r), t.receipts[j])
  BY <1>1, Zenon DEF Shows
<1>3. t.receipts[j].id = r
  BY <1>1, <1>2, Zenon DEF Same
<1>4. Unique(o) => \A k \in DOMAIN t.receipts : t.receipts[k].id = r => Same(Outcome(o, r), t.receipts[k])
  BY <1>1, Zenon DEF Shows
<1> QED BY <1>2, <1>3, <1>4, Zenon

\* A failed receipt the transaction led to is a failure on chain.
LEMMA FailedIsShown ==
  ASSUME NEW o, NEW t, Shows(o, t), NEW r \in Known(o), Failed(o, r), r \in Reachable(t)
  PROVE  SomethingFailed(t)
<1>1. PICK j \in DOMAIN t.receipts : t.receipts[j].id = r /\ t.receipts[j].status = "failure"
  BY OutcomeIsShown DEF Failed, Same
<1>2. "failure" \in StatusIn(t, r)
  BY <1>1, Zenon DEF StatusIn
<1> QED BY <1>2, Zenon DEF SomethingFailed

\* When nothing is left to visit, the walk has met all of the execution.
LEMMA WalkedIsWhole ==
  ASSUME NEW o, NEW t \in Truths, Shows(o, t), Unique(o), NEW seen, Walked(o, seen, {})
  PROVE  Reachable(t) \subseteq seen
<1>1. seen \subseteq Ids
  <2>1. ASSUME NEW r \in Known(o) PROVE r \in Ids
    <3>1. IsExecution(t)
      BY TruthIsExecution, Zenon
    <3>2. PICK j \in DOMAIN t.receipts : t.receipts[j].id = r
      BY OutcomeIsShown
    <3> QED BY <3>1, <3>2, Zenon DEF IsExecution
  <2> QED BY <2>1, Zenon DEF Walked
<1>2. ToSet(t.tx.children) \subseteq seen
  BY Zenon DEF Walked, Shows
<1>3. ASSUME NEW r \in Listed(t, seen) PROVE r \in seen
  <2>1. PICK j \in DOMAIN t.receipts : t.receipts[j].id \in seen /\ r \in ToSet(t.receipts[j].children)
    BY Zenon DEF Listed
  <2>2. t.receipts[j].id \in Known(o)
    BY <2>1, Zenon DEF Walked
  <2>3. Same(Outcome(o, t.receipts[j].id), t.receipts[j])
    BY <2>2, OutcomeIsShown, Zenon
  <2>4. r \in ToSet(Children(o, t.receipts[j].id))
    BY <2>1, <2>3, Zenon DEF Same, Children
  <2> QED BY <2>1, <2>4, Zenon DEF Walked
<1> QED BY <1>1, <1>2, <1>3, Zenon DEF Reachable, Closure, Closed

\* The checks before the walk, all passed.
LEMMA HeadPasses ==
  ASSUME NEW o, Refusal(o) = NoVerdict
  PROVE  /\ o.final # "failure" /\ o.tx.status # "failure" /\ Len(o.tx.children) = 1
         /\ ~Duplicate(o)
         /\ Delegate(o) \in Known(o) /\ Outcome(o, Delegate(o)).executor = Payer
         /\ ToSet(Children(o, Delegate(o))) \subseteq Known(o)
         /\ Cardinality(TokenAt(o)) = 1
BY Zenon DEF Refusal, Indeterminate, Terminal, NoVerdict, Children

\* One receipt below the delegate is on the token contract, and it returned:
\* the execution paid.
LEMMA TokenPaid ==
  ASSUME NEW o, NEW t \in Truths, Shows(o, t), Unique(o), Refusal(o) = NoVerdict,
         Outcome(o, Token(o)).status = "value"
  PROVE  Paid(t)
<1> DEFINE d == Delegate(o)
           kids == Children(o, Delegate(o))
           onAsset == {r \in ToSet(kids) : Outcome(o, r).executor = Asset}
<1>0. IsExecution(t)
  BY TruthIsExecution, Zenon
<1>1. \A r \in Known(o) :
        /\ \E j \in DOMAIN t.receipts : t.receipts[j].id = r /\ Same(Outcome(o, r), t.receipts[j])
        /\ \A j \in DOMAIN t.receipts : t.receipts[j].id = r => Same(Outcome(o, r), t.receipts[j])
  BY OutcomeIsShown, Zenon
<1>2. d \in Known(o) /\ Outcome(o, d).executor = Payer /\ ToSet(kids) \subseteq Known(o)
  BY HeadPasses, Zenon
<1>3. kids \in Seq(Ids)
  <2>1. PICK j \in DOMAIN t.receipts : Same(Outcome(o, d), t.receipts[j])
    BY <1>1, <1>2, Zenon
  <2>2. t.receipts[j].children \in Seq(Ids) /\ t.receipts[j].children = kids
    BY <1>0, <2>1, Zenon DEF IsExecution, Same, Children
  <2> QED BY <2>2, Zenon
<1>4. ToSet(t.tx.children) = {d}
  <2>1. t.tx.children = o.tx.children /\ t.tx.children \in Seq(Ids) /\ Len(t.tx.children) = 1
    BY <1>0, HeadPasses, Zenon DEF IsExecution, Shows
  <2>2. DOMAIN t.tx.children = {1}
    BY <2>1
  <2> QED BY <2>1, <2>2, Zenon DEF ToSet, Delegate
<1>5. \A r \in ToSet(kids) : OnAsset(t, r) <=> Outcome(o, r).executor = Asset
  <2> SUFFICES ASSUME NEW r \in ToSet(kids) PROVE OnAsset(t, r) <=> Outcome(o, r).executor = Asset
    BY Zenon
  <2>1. \A j \in DOMAIN t.receipts : t.receipts[j].id = r => Outcome(o, r).executor = t.receipts[j].executor
    BY <1>1, <1>2, Zenon DEF Same
  <2>2. \E j \in DOMAIN t.receipts : t.receipts[j].id = r
    BY <1>1, <1>2, Zenon
  <2> QED BY <2>1, <2>2, Zenon DEF OnAsset
<1>6. UNION {ToSet(t.receipts[i].children) :
               i \in {j \in DOMAIN t.receipts :
                        t.receipts[j].id \in ToSet(t.tx.children) /\ t.receipts[j].executor = Payer}}
        = ToSet(kids)
  <2>1. \A j \in DOMAIN t.receipts : t.receipts[j].id \in ToSet(t.tx.children) => t.receipts[j].children = kids
    BY <1>1, <1>2, <1>4, Zenon DEF Same, Children
  <2>2. \E j \in DOMAIN t.receipts : t.receipts[j].id \in ToSet(t.tx.children) /\ t.receipts[j].executor = Payer
    BY <1>1, <1>2, <1>4, Zenon DEF Same
  <2> HIDE DEF kids
  <2> QED BY <2>1, <2>2, Zenon
<1>7. TransferOf(t) = onAsset
  BY <1>5, <1>6, Zenon DEF TransferOf
<1>8. PICK k : TokenAt(o) = {k}
  <2>1. TokenAt(o) \subseteq 1..Len(kids) /\ Len(kids) \in Nat
    <3>1. TokenAt(o) \subseteq DOMAIN kids
      BY Zenon DEF TokenAt
    <3>2. DOMAIN kids = 1..Len(kids) /\ Len(kids) \in Nat
      BY <1>3
    <3> QED BY <3>1, <3>2, Zenon
  <2>2. IsFiniteSet(TokenAt(o))
    <3> HIDE DEF kids
    <3>1. IsFiniteSet(1..Len(kids))
      BY <2>1, FS_Interval
    <3> QED BY <2>1, <3>1, FS_Subset, Zenon
  <2> QED BY <2>2, HeadPasses, FS_Singleton, Zenon
<1>9. Token(o) = kids[k] /\ k \in DOMAIN kids
  BY <1>8, Zenon DEF Token, TokenAt
<1>10. onAsset = {Token(o)}
  BY <1>8, <1>9, Zenon DEF TokenAt, ToSet
<1>11. Cardinality(TransferOf(t)) = 1
  BY <1>7, <1>10, FS_Singleton, Zenon
<1>12. Token(o) \in Known(o)
  BY <1>2, <1>10, Zenon
<1>13. StatusIn(t, Token(o)) = {"value"}
  <2>1. \A j \in DOMAIN t.receipts : t.receipts[j].id = Token(o) => t.receipts[j].status = "value"
    BY <1>1, <1>12, Zenon DEF Same
  <2>2. \E j \in DOMAIN t.receipts : t.receipts[j].id = Token(o)
    BY <1>1, <1>12, Zenon
  <2> QED BY <2>1, <2>2, Zenon DEF StatusIn
<1> HIDE DEF onAsset
<1> QED BY <1>7, <1>10, <1>11, <1>13, Zenon DEF Paid

\* What a success rests on.
LEMMA SuccessHolds ==
  ASSUME NEW o, NEW t \in Truths, Shows(o, t), NEW seen, Walked(o, seen, {}),
         Outcome(o, Token(o)).status = "value"
  PROVE  Paid(t) /\ ~SomethingFailed(t) /\ Ran(t)
<1>1. Refusal(o) = NoVerdict
  BY Zenon DEF Walked
<1>2. Unique(o)
  BY <1>1, HeadPasses, CountedIsUnique, Zenon DEF Shows
<1>3. Reachable(t) \subseteq seen
  BY <1>2, WalkedIsWhole, Zenon
<1>4. IsExecution(t)
  BY TruthIsExecution, Zenon
<1>5. ASSUME NEW r \in Reachable(t)
      PROVE  "failure" \notin StatusIn(t, r) /\ StatusIn(t, r) \cap {"value", "receipt"} # {}
  <2>1. r \in seen /\ r \in Known(o)
    BY <1>3, <1>5, Zenon DEF Walked
  <2>2. Outcome(o, r).status \notin {"failure", "unknown"}
    BY <2>1, Zenon DEF Walked, Failed
  <2>3. \A j \in DOMAIN t.receipts : t.receipts[j].id = r => t.receipts[j].status = Outcome(o, r).status
    BY <1>2, <2>1, <2>2, OutcomeIsShown DEF Same
  <2>4. PICK j \in DOMAIN t.receipts : t.receipts[j].id = r
    BY <2>1, OutcomeIsShown
  <2>5. StatusIn(t, r) = {Outcome(o, r).status}
    BY <2>3, <2>4, Zenon DEF StatusIn
  <2>6. Outcome(o, r).status \in {"value", "receipt"}
    <3>1. t.receipts[j].status \in Statuses
      BY <1>4, Zenon DEF IsExecution
    <3> QED BY <2>2, <2>3, <2>4, <3>1, Zenon DEF Statuses
  <2> QED BY <2>2, <2>5, <2>6, Zenon
<1>6. t.final # "failure" /\ t.tx.status # "failure"
  BY <1>1, HeadPasses, Zenon DEF Shows
<1> QED BY <1>1, <1>2, <1>5, <1>6, TokenPaid, Zenon DEF SomethingFailed, Ran

-----------------------------------------------------------------------------
(* The outcome of a NEAR transaction: the steps.                           *)

LEMMA WalkInvInit == ReceiptInit => WalkInv
BY DEF ReceiptInit, WalkInv, FailureIsOnChain, FailedForGood, SuccessIsWhole, Succeeded

\* A step that concludes nothing keeps what the verdicts mean.
LEMMA NothingConcluded ==
  ASSUME phase' # "done"
  PROVE  FailureIsOnChain' /\ SuccessIsWhole'
BY Zenon DEF FailureIsOnChain, FailedForGood, SuccessIsWhole, Succeeded

\* A step that leaves things undecided, too.
LEMMA Undecided ==
  ASSUME verdict'.kind # "terminal"
  PROVE  FailureIsOnChain' /\ SuccessIsWhole'
BY DEF FailureIsOnChain, FailedForGood, SuccessIsWhole, Succeeded, Terminal

\* A failure that is on chain may be reported.
LEMMA FailureReported ==
  ASSUME SomethingFailed(truth'), verdict'.reason # "success"
  PROVE  FailureIsOnChain' /\ SuccessIsWhole'
BY DEF FailureIsOnChain, SuccessIsWhole, Succeeded, Terminal

LEMMA MergeKeepsInv == WalkInv /\ MergeLookups => WalkInv'
<1> SUFFICES ASSUME WalkInv, MergeLookups PROVE WalkInv'
  BY Zenon
<1>0. UNCHANGED <<truth, lookups, visited>> /\ visited = {} /\ truth \in Truths
  BY Zenon DEF MergeLookups, KeepWalk, WalkInv
<1>1. CASE phase' = "done"
  <2>1. verdict'.kind # "terminal"
    BY <1>1 DEF MergeLookups, Done, Verdict
  <2> QED BY <1>0, <1>1, <2>1, Undecided, Zenon DEF WalkInv
<1>2. CASE phase' # "done"
  <2>1. PICK i \in 1..2 : lookups[i].kind = "final" /\ out' = lookups[i].outcome /\ phase' = "identity"
    BY <1>2 DEF MergeLookups, Done, Finals
  <2>2. lookups[i] \in Lookups(truth)
    BY <2>1, Zenon DEF WalkInv
  <2>3. out'.bound => Shows(out', truth')
    BY <1>0, <2>1, <2>2, LookupShows, Zenon
  <2> QED BY <1>0, <2>1, <2>3, NothingConcluded, Zenon DEF WalkInv
<1> QED BY <1>1, <1>2, Zenon

LEMMA IdentityKeepsInv == WalkInv /\ ValidateIdentity => WalkInv'
<1> SUFFICES ASSUME WalkInv, ValidateIdentity PROVE WalkInv'
  BY Zenon
<1>0. UNCHANGED <<truth, lookups, out, visited>> /\ visited = {}
  BY Zenon DEF ValidateIdentity, KeepWalk, WalkInv
<1>1. CASE ~out.bound
  <2>1. phase' = "done" /\ verdict'.kind # "terminal"
    BY <1>1 DEF ValidateIdentity, Done, Indeterminate
  <2> QED BY <1>0, <2>1, Undecided, Zenon DEF WalkInv
<1>2. CASE out.bound
  <2>1. phase = "identity" /\ phase' = "check"
    BY <1>2, Zenon DEF ValidateIdentity
  <2>2. Shows(out', truth')
    BY <1>0, <1>2, <2>1, Zenon DEF WalkInv
  <2> QED BY <1>0, <2>1, <2>2, NothingConcluded, Zenon DEF WalkInv
<1> QED BY <1>1, <1>2, Zenon

LEMMA HeadKeepsInv == WalkInv /\ CheckHead => WalkInv'
<1> SUFFICES ASSUME WalkInv, CheckHead PROVE WalkInv'
  BY Zenon
<1>0. /\ UNCHANGED <<truth, lookups, out, visited>> /\ visited = {}
      /\ truth \in Truths /\ Shows(out, truth)
  BY Zenon DEF CheckHead, WalkInv
<1>1. out.tx = truth.tx /\ out.final = truth.final /\ truth.tx.children \in Seq(Ids)
  <2>1. IsExecution(truth)
    BY <1>0, TruthIsExecution, Zenon
  <2> QED BY <1>0, <2>1, Zenon DEF IsExecution, Shows
<1>2. CASE Refusal(out) = NoVerdict
  <2>1. phase' = "walk" /\ queue' = truth.tx.children
    BY <1>1, <1>2, Zenon DEF CheckHead
  <2>2. queue' \in Seq(Reachable(truth'))
    BY <1>0, <1>1, <2>1, ReachableCloses DEF ToSet
  <2>3. Walked(out', visited', ToSet(queue'))
    BY <1>0, <1>1, <1>2, <2>1, Zenon DEF Walked
  <2> QED BY <1>0, <2>1, <2>2, <2>3, NothingConcluded, Zenon DEF WalkInv
<1>3. CASE Refusal(out) # NoVerdict
  <2>1. phase' = "done" /\ verdict' = Refusal(out)
    BY <1>3, Zenon DEF CheckHead, Done
  <2>2. CASE Refusal(out).kind # "terminal"
    BY <1>0, <2>1, <2>2, Undecided, Zenon DEF WalkInv
  <2>3. CASE Refusal(out).kind = "terminal"
    <3>1. \/ out.final = "failure" \/ out.tx.status = "failure"
          \/ /\ Len(out.tx.children) = 1 /\ Delegate(out) \in Known(out)
             /\ Failed(out, Delegate(out))
      BY <2>3, Zenon DEF Refusal, Indeterminate, Terminal, NoVerdict, Failed
    <3>2. SomethingFailed(truth)
      <4>1. CASE out.final = "failure" \/ out.tx.status = "failure"
        BY <1>1, <4>1, Zenon DEF SomethingFailed
      <4>2. CASE Len(out.tx.children) = 1 /\ Delegate(out) \in Known(out) /\ Failed(out, Delegate(out))
        <5>1. Delegate(out) \in ToSet(truth.tx.children)
          BY <1>1, <4>2 DEF Delegate, ToSet
        <5>2. Delegate(out) \in Reachable(truth)
          BY <1>1, <5>1, ReachableCloses, Zenon
        <5> QED BY <1>0, <4>2, <5>2, FailedIsShown, Zenon
      <4> QED BY <3>1, <4>1, <4>2, Zenon
    <3>3. Refusal(out).reason # "success"
      BY <2>3, Zenon DEF Refusal, Indeterminate, Terminal, NoVerdict
    <3> QED BY <1>0, <2>1, <3>2, <3>3, FailureReported, Zenon DEF WalkInv
  <2> QED BY <2>2, <2>3, Zenon
<1> QED BY <1>2, <1>3, Zenon

\* What the members of a concatenation and of a tail are.
LEMMA SetOfSeq ==
  ASSUME NEW S, NEW q \in Seq(S), q # <<>>
  PROVE  /\ ToSet(q) \subseteq {Head(q)} \cup ToSet(Tail(q))
         /\ Head(q) \in S /\ Tail(q) \in Seq(S)
         /\ \A c \in Seq(S) : ToSet(Tail(q)) \subseteq ToSet(Tail(q) \o c) /\ ToSet(c) \subseteq ToSet(Tail(q) \o c)
<1>1. Head(q) \in S /\ Tail(q) \in Seq(S) /\ Len(q) \in Nat /\ Len(q) # 0
  OBVIOUS
<1>2. ASSUME NEW i \in DOMAIN q PROVE q[i] \in {Head(q)} \cup ToSet(Tail(q))
  <2>1. CASE i = 1
    BY <2>1
  <2>2. CASE i # 1
    <3>1. i - 1 \in DOMAIN Tail(q) /\ Tail(q)[i - 1] = q[i]
      BY <1>1, <2>2
    <3> QED BY <3>1, Zenon DEF ToSet
  <2> QED BY <2>1, <2>2, Zenon
<1>3. ASSUME NEW c \in Seq(S)
      PROVE  ToSet(Tail(q)) \subseteq ToSet(Tail(q) \o c) /\ ToSet(c) \subseteq ToSet(Tail(q) \o c)
  <2> DEFINE a == Tail(q)
  <2>1. a \in Seq(S)
    BY <1>1, Zenon
  <2> HIDE DEF a
  <2>2. ASSUME NEW i \in DOMAIN a PROVE i \in DOMAIN (a \o c) /\ (a \o c)[i] = a[i]
    BY <2>1
  <2>3. ASSUME NEW i \in DOMAIN c PROVE i + Len(a) \in DOMAIN (a \o c) /\ (a \o c)[i + Len(a)] = c[i]
    BY <2>1
  <2> QED BY <2>2, <2>3, Zenon DEF ToSet, a
<1> QED BY <1>1, <1>2, <1>3, Zenon DEF ToSet

\* One visited receipt more, its children after those to come.
LEMMA VisitedMore ==
  ASSUME NEW o, NEW seen, NEW S, NEW q \in Seq(S), q # <<>>, Walked(o, seen, ToSet(q)),
         Head(q) \in Known(o), ~Failed(o, Head(q)),
         Head(q) = Token(o) \/ Outcome(o, Head(q)).status # "unknown",
         Children(o, Head(q)) \in Seq(S)
  PROVE  Walked(o, seen \cup {Head(q)}, ToSet(Tail(q) \o Children(o, Head(q))))
<1> DEFINE r == Head(q)
           more == ToSet(Tail(q) \o Children(o, r))
<1>1. ToSet(q) \subseteq {r} \cup more /\ ToSet(Children(o, r)) \subseteq more
  BY SetOfSeq, Zenon
<1> HIDE DEF r, more
<1>2. /\ r \in Known(o) /\ ~Failed(o, r) /\ (r = Token(o) \/ Outcome(o, r).status # "unknown")
  BY Zenon DEF r
<1>3. seen \cup ToSet(q) \subseteq seen \cup {r} \cup more
  BY <1>1, Zenon
<1>4. Walked(o, seen \cup {r}, more)
  BY <1>1, <1>2, <1>3, Zenon DEF Walked
<1> QED BY <1>4, Zenon DEF r, more

\* A receipt visited before is passed over.
LEMMA VisitedAgain ==
  ASSUME NEW o, NEW seen, NEW S, NEW q \in Seq(S), q # <<>>, Walked(o, seen, ToSet(q)), Head(q) \in seen
  PROVE  Walked(o, seen, ToSet(Tail(q)))
<1>1. ToSet(q) \subseteq {Head(q)} \cup ToSet(Tail(q))
  BY SetOfSeq, Zenon
<1>2. seen \cup ToSet(q) \subseteq seen \cup ToSet(Tail(q))
  BY <1>1, Zenon
<1> QED BY <1>2, Zenon DEF Walked

LEMMA VisitKeepsInv == WalkInv /\ Visit => WalkInv'
<1> SUFFICES ASSUME WalkInv, Visit PROVE WalkInv'
  BY Zenon
<1> DEFINE r == Head(queue)
<1>0. /\ UNCHANGED <<truth, lookups, out>> /\ truth \in Truths /\ Shows(out, truth)
      /\ queue \in Seq(Reachable(truth)) /\ queue # <<>> /\ phase = "walk"
      /\ Walked(out, visited, ToSet(queue))
  BY Zenon DEF Visit, WalkInv
<1>1. r \in Reachable(truth) /\ Tail(queue) \in Seq(Reachable(truth))
  BY <1>0
<1>2. CASE r \in visited
  <2>1. phase' = "walk" /\ queue' = Tail(queue) /\ visited' = visited
    BY <1>0, <1>2, Zenon DEF Visit
  <2>2. Walked(out', visited', ToSet(queue'))
    BY <1>0, <1>2, <2>1, VisitedAgain, Zenon
  <2> QED BY <1>0, <1>1, <2>1, <2>2, NothingConcluded, Zenon DEF WalkInv
<1>3. CASE r \notin visited /\ phase' = "done"
  <2>1. verdict' = Indeterminate("incomplete")
        \/ (verdict' = Terminal("reachable_failure") /\ r \in Known(out) /\ Failed(out, r))
    BY <1>0, <1>3, Zenon DEF Visit, Done
  <2>2. CASE verdict' = Indeterminate("incomplete")
    <3>1. verdict'.kind # "terminal"
      BY <2>2, Zenon DEF Indeterminate
    <3> QED BY <1>0, <1>3, <3>1, Undecided, Zenon DEF WalkInv
  <2>3. CASE verdict' = Terminal("reachable_failure") /\ r \in Known(out) /\ Failed(out, r)
    <3>1. SomethingFailed(truth')
      BY <1>0, <1>1, <2>3, FailedIsShown, Zenon
    <3>2. verdict'.reason # "success"
      BY <2>3, Zenon DEF Terminal
    <3> QED BY <1>0, <1>3, <3>1, <3>2, FailureReported, Zenon DEF WalkInv
  <2> QED BY <2>1, <2>2, <2>3, Zenon
<1>4. CASE r \notin visited /\ phase' # "done"
  <2>1. /\ phase' = "walk" /\ visited' = visited \cup {r} /\ queue' = Tail(queue) \o Children(out, r)
        /\ r \in Known(out) /\ ~Failed(out, r)
        /\ r = Token(out) \/ Outcome(out, r).status # "unknown"
    BY <1>0, <1>4, Zenon DEF Visit, Done
  <2>2. Children(out, r) \in Seq(Reachable(truth))
    <3>1. PICK j \in DOMAIN truth.receipts : truth.receipts[j].id = r /\ Same(Outcome(out, r), truth.receipts[j])
      BY <1>0, <2>1, OutcomeIsShown, Zenon
    <3>2. IsExecution(truth)
      BY <1>0, TruthIsExecution, Zenon
    <3>3. Children(out, r) = truth.receipts[j].children /\ Children(out, r) \in Seq(Ids)
      BY <3>1, <3>2, Zenon DEF IsExecution, Same, Children
    <3>4. ToSet(Children(out, r)) \subseteq Listed(truth, Reachable(truth))
      BY <1>1, <3>1, <3>3 DEF Listed, ToSet
    <3>5. truth.tx.children \in Seq(Ids)
      BY <3>2, Zenon DEF IsExecution
    <3>6. ToSet(Children(out, r)) \subseteq Reachable(truth)
      BY <3>4, <3>5, ReachableCloses, Zenon DEF Closed
    <3> QED BY <3>3, <3>6 DEF ToSet
  <2>3. queue' \in Seq(Reachable(truth'))
    BY <1>0, <1>1, <2>1, <2>2
  <2>4. Walked(out', visited', ToSet(queue'))
    BY <1>0, <2>1, <2>2, VisitedMore, Zenon
  <2> QED BY <1>0, <2>1, <2>3, <2>4, NothingConcluded, Zenon DEF WalkInv
<1> QED BY <1>2, <1>3, <1>4, Zenon

LEMMA SortKeepsInv == WalkInv /\ (StartSort \/ SortRoot) => WalkInv'
<1> SUFFICES ASSUME WalkInv, StartSort \/ SortRoot PROVE WalkInv'
  BY Zenon
<1>1. /\ UNCHANGED <<truth, lookups, out, visited, queue>> /\ phase' = "sort" /\ Shows(out, truth)
      /\ phase = "walk" => queue = <<>>
      /\ phase \in {"walk", "sort"}
  BY Zenon DEF StartSort, SortRoot, WalkInv
<1>2. Walked(out, visited, {})
  <2>1. ToSet(<<>>) = {}
    BY DEF ToSet
  <2> QED BY <1>1, <2>1, Zenon DEF WalkInv
<1> QED BY <1>1, <1>2, NothingConcluded, Zenon DEF WalkInv

LEMMA ConcludeKeepsInv == WalkInv /\ ConcludeWalk => WalkInv'
<1> SUFFICES ASSUME WalkInv, ConcludeWalk PROVE WalkInv'
  BY Zenon
<1>1. /\ UNCHANGED <<truth, lookups, out, visited>> /\ phase' = "done" /\ truth \in Truths
      /\ Shows(out, truth) /\ Walked(out, visited, {})
  BY Zenon DEF ConcludeWalk, Done, WalkInv
<1>2. CASE verdict'.kind # "terminal"
  BY <1>1, <1>2, Undecided, Zenon DEF WalkInv
<1>3. CASE verdict'.kind = "terminal"
  <2>1. verdict' = Terminal("success") /\ Outcome(out, Token(out)).status = "value"
    BY <1>3, Zenon DEF ConcludeWalk, Done, Indeterminate
  <2>2. Paid(truth') /\ ~SomethingFailed(truth') /\ Ran(truth')
    BY <1>1, <2>1, SuccessHolds, Zenon
  <2>3. verdict'.reason = "success"
    BY <2>1, Zenon DEF Terminal
  <2>4. FailureIsOnChain' /\ SuccessIsWhole'
    BY <2>2, <2>3, Zenon DEF FailureIsOnChain, FailedForGood, SuccessIsWhole
  <2> QED BY <1>1, <2>4, Zenon DEF WalkInv
<1> QED BY <1>2, <1>3, Zenon

\* One reconciliation keeps the walk's invariant.
LEMMA WalkInvStep == WalkInv /\ [ReceiptNext]_receiptVars => WalkInv'
<1> SUFFICES ASSUME WalkInv, [ReceiptNext]_receiptVars PROVE WalkInv'
  BY Zenon
<1>1. CASE UNCHANGED receiptVars
  BY <1>1, Zenon DEF receiptVars, WalkInv, FailureIsOnChain, FailedForGood, SuccessIsWhole, Succeeded
<1> QED BY <1>1, MergeKeepsInv, IdentityKeepsInv, HeadKeepsInv, VisitKeepsInv, SortKeepsInv,
           ConcludeKeepsInv, Zenon DEF ReceiptNext, Reported

\* Of every execution and whatever part of it the endpoints show: a definitive
\* failure is reported only when the transaction or a receipt it led to failed
\* on chain (interpret_final_outcome, validate_final_outcome_identity).
THEOREM FailuresAreOnChain == ReceiptSpec => []FailureIsOnChain
<1>1. WalkInv => FailureIsOnChain
  BY Zenon DEF WalkInv
<1> QED BY <1>1, WalkInvInit, WalkInvStep, PTL DEF ReceiptSpec

\* Of every execution, too: a success is reported only when the token receipt
\* returned, every receipt the transaction led to has run and none failed
\* (interpret_final_outcome).
THEOREM SuccessesAreWhole == ReceiptSpec => []SuccessIsWhole
<1>1. WalkInv => SuccessIsWhole
  BY Zenon DEF WalkInv
<1> QED BY <1>1, WalkInvInit, WalkInvStep, PTL DEF ReceiptSpec

=============================================================================
