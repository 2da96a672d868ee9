----------------------------- MODULE NearVerify ------------------------------
(***************************************************************************)
(* Verification of one NEAR payment: verify_proto_request, its ordered     *)
(* checks and its reads of the chain, and the bounded retry around it,     *)
(* while the chain goes on.  Every read after the first names the block    *)
(* the first one returned; the block may be behind the chain, and a read   *)
(* may fail.                                                               *)
(***************************************************************************)
EXTENDS Integers, Sequences, FiniteSets, SequencesExt

CONSTANTS
  Requests,     \* payments that may be presented
  States,       \* what a block may say of payer, token and recipient
  Genesis,      \* height of the first block
  MaxHeight,    \* bound: height of the last block
  MaxLag,       \* bound: blocks an endpoint's final view lags behind
  MaxFailures,  \* bound: reads that fail
  MaxU64,       \* largest u64
  MaxU128,      \* largest u128
  NonceRange    \* NONCE_RANGE_MULTIPLIER

\* What can be wrong with a request by itself, in the order of the checks,
\* and the failure each one is reported as.
StaticChecks ==
  <<"payload_shape", "x402_version", "scheme", "network", "network_mismatch",
    "asset_mismatch", "pay_to_mismatch", "amount_mismatch", "max_timeout",
    "delegate_shape", "delegate_bytes", "signature_curve", "signature",
    "relayer_is_payer", "action_count", "action_kind", "method_name",
    "token_contract", "transfer_args", "recipient", "transfer_amount",
    "attached_deposit", "gas_limit">>

\* near_verification_is_rpc_ambiguous
Ambiguous ==
  {"block_unavailable", "access_key_lookup", "account_lookup",
   "token_lookup", "balance_check", "storage_check"}

ASSUME VerifyAssumption ==
  /\ \A r \in Requests :
       /\ r.flaws \subseteq ToSet(StaticChecks)
       /\ {r.nonce, r.maxBlock, r.amount, r.timeout} \subseteq Nat
       /\ r.timeout > 0
  /\ \A s \in States :
       /\ s.permission \in {"none", "full", "function_call", "gas_key"}
       /\ s.token \in {"none", "no_code", "code"}
       /\ s.storage \in {"registered", "null", "no_method"}
       /\ s.account \in BOOLEAN
       /\ {s.keyNonce, s.balance} \subseteq Nat
  /\ {Genesis, MaxHeight, MaxLag, MaxFailures, MaxU64, MaxU128, NonceRange} \subseteq Nat
  /\ Genesis <= MaxHeight

VARIABLES
  request,
  blocks,    \* what each final block says
  height,    \* the final block of the chain
  pc,        \* the next read, or done
  pinned,    \* the block the verification reads at
  tries,     \* attempts that ended ambiguously
  failures,  \* reads that failed
  result

vars == <<request, blocks, height, pc, pinned, tries, failures, result>>
chain == <<request, blocks, height>>

\* RPC_RETRY_DELAYS: two retries.
Retries == 2

Pending == [kind |-> "pending", reason |-> "none"]
Valid == [kind |-> "valid", reason |-> "none"]
Failure(reason) == [kind |-> "failure", reason |-> reason]

Init ==
  /\ request \in Requests
  /\ blocks \in [{Genesis} -> States]
  /\ height = Genesis
  /\ pc = "static"
  /\ pinned = Genesis
  /\ tries = 0
  /\ failures = 0
  /\ result = Pending

\* The chain goes on while the verification reads.
NextBlock ==
  /\ height < MaxHeight
  /\ height' = height + 1
  /\ \E s \in States : blocks' = [b \in Genesis..height + 1 |-> IF b <= height THEN blocks[b] ELSE s]
  /\ UNCHANGED <<request, pc, pinned, tries, failures, result>>

-----------------------------------------------------------------------------

Goto(read) == pc' = read /\ UNCHANGED <<tries, result>>

\* Plausible bug: a definitive rejection is tried again as well.
Transient_Always(reason) == TRUE

\* The predicate of retry_while_transient in chain.rs.
Transient(reason) == reason \in Ambiguous

\* Plausible bug: the delays are not counted.
Fail_Forever(reason) ==
  IF Transient(reason)
  THEN pc' = "static" /\ UNCHANGED <<tries, result>>
  ELSE pc' = "done" /\ result' = Failure(reason) /\ UNCHANGED tries

\* The attempt ends.  An ambiguous failure is tried again from the start as
\* long as a delay is left.
Fail(reason) ==
  IF Transient(reason) /\ tries < Retries
  THEN pc' = "static" /\ tries' = tries + 1 /\ UNCHANGED result
  ELSE pc' = "done" /\ result' = Failure(reason) /\ UNCHANGED tries

Accept == pc' = "done" /\ result' = Valid /\ UNCHANGED tries

\* The shape, the envelope, the signature and the transfer itself, in order.
CheckRequest ==
  /\ pc = "static"
  /\ LET failed == {i \in DOMAIN StaticChecks : StaticChecks[i] \in request.flaws}
     IN  \/ failed = {} /\ Goto("block")
         \/ \E i \in failed : (\A j \in failed : i <= j) /\ Fail(StaticChecks[i])
  /\ UNCHANGED <<chain, pinned, failures>>

\* A read that fails, with an error that query_error does not recognise.
ReadFails(read, reason) ==
  /\ pc = read
  /\ failures < MaxFailures
  /\ failures' = failures + 1
  /\ Fail(reason)
  /\ UNCHANGED <<chain, pinned>>

Saturating(n) == IF n > MaxU64 THEN MaxU64 ELSE n

\* checked_sub and the test for zero.
Expired(r, b) == r.maxBlock <= b

\* final_block, and the checks on its height alone.
ReadBlock ==
  /\ pc = "block"
  /\ \E b \in Genesis..height :
       /\ b + MaxLag >= height
       /\ pinned' = b
       /\ IF Expired(request, b) THEN Fail("expired")
          ELSE IF request.maxBlock - b > request.timeout THEN Fail("timeout_window")
          ELSE IF request.nonce >= Saturating(b * NonceRange) THEN Fail("nonce_range")
          ELSE Goto("key")
  /\ UNCHANGED <<chain, failures>>

At == blocks[pinned]

Read(read) == pc = read /\ UNCHANGED <<chain, pinned, failures>>

\* view_access_key.  An account that does not exist has no key.
ReadKey ==
  /\ Read("key")
  /\ IF At.permission = "none" \/ ~At.account THEN Fail("access_key_not_found")
     ELSE IF request.nonce <= At.keyNonce THEN Fail("nonce_used")
     ELSE IF At.permission = "function_call" THEN Fail("function_call_key")
     ELSE IF At.permission = "gas_key" THEN Fail("unsupported_permission")
     ELSE Goto("payer")

ReadPayer ==
  /\ Read("payer")
  /\ IF At.account THEN Goto("token") ELSE Fail("sender_not_found")

ReadToken ==
  /\ Read("token")
  /\ CASE At.token = "none"    -> Fail("token_not_found")
       [] At.token = "no_code" -> Fail("token_no_code")
       [] OTHER                -> Goto("balance")

\* Plausible bug: the balance is read at the newest block.
BalanceBlock_Latest == height

\* ft_balance_of is called at the pinned block.
BalanceBlock == pinned

\* parse_decimal: both amounts have to fit a u128.
ReadBalance ==
  /\ Read("balance")
  /\ IF blocks[BalanceBlock].balance > MaxU128 \/ request.amount > MaxU128 THEN Fail("balance_check")
     ELSE IF blocks[BalanceBlock].balance < request.amount THEN Fail("insufficient_funds")
     ELSE Goto("storage")

\* storage_balance_of; a contract without the method needs no registration.
ReadStorage ==
  /\ Read("storage")
  /\ IF At.storage = "null" THEN Fail("recipient_not_registered") ELSE Accept

\* Plausible bug: an access key that cannot be looked up does not exist.
KeyLookupFailed_NotFound == "access_key_not_found"

\* What an unrecognised error of view_access_key is reported as.
KeyLookupFailed == "access_key_lookup"

AnyReadFails ==
  \/ ReadFails("block", "block_unavailable")
  \/ ReadFails("key", KeyLookupFailed)
  \/ ReadFails("payer", "account_lookup")
  \/ ReadFails("token", "token_lookup")
  \/ ReadFails("balance", "balance_check")
  \/ ReadFails("storage", "storage_check")

Step ==
  \/ CheckRequest \/ ReadBlock \/ ReadKey \/ ReadPayer \/ ReadToken \/ ReadBalance \/ ReadStorage
  \/ AnyReadFails

Stopped == pc = "done" /\ height = MaxHeight /\ UNCHANGED vars

Next == NextBlock \/ Step \/ Stopped

Spec == Init /\ [][Next]_vars

\* Each call of an RPC endpoint ends: RPC_CALL_TIMEOUT turns silence into a
\* failure.
FairSpec == Spec /\ WF_vars(Step)

-----------------------------------------------------------------------------
(* What a verification means, stated on the chain.                         *)

\* The payment can be executed on top of block b: the whole of what the
\* checks are for, at one block.
ExecutableAt(r, b) ==
  LET s == blocks[b]
  IN  /\ r.flaws = {}
      /\ b < r.maxBlock /\ r.maxBlock <= b + r.timeout
      /\ s.keyNonce < r.nonce /\ r.nonce < b * NonceRange
      /\ s.account /\ s.permission = "full"
      /\ s.token = "code"
      /\ r.amount <= s.balance
      /\ s.storage # "null"

Definitive == result.kind = "failure" /\ result.reason \notin Ambiguous

\* A payment reported valid was executable at one block of the chain: the
\* nonce, the key, the balance and the registration all held together there,
\* not each at a moment of its own.
ValidAtOneBlock == result = Valid => \E b \in Genesis..height : ExecutableAt(request, b)

\* A payment is refused for good only when it could not be executed at some
\* block of the chain: a read that failed never becomes a reason to refuse.
RefusedForCause == Definitive => \E b \in Genesis..height : ~ExecutableAt(request, b)

\* A definitive refusal is the answer of the attempt that met it: only what
\* is ambiguous is tried again.
RetriesOnlyAmbiguity ==
  [][tries' # tries => failures' # failures \/ request.amount > MaxU128 \/ At.balance > MaxU128]_vars

\* Every verification gets an answer.
Answered == <>(pc = "done")

\* What the comment on near_verification_is_rpc_ambiguous says: an ambiguous
\* failure reflects a lookup that failed, not an invalid payment.
AmbiguousMeansLookupFailed ==
  result.kind = "failure" /\ result.reason \in Ambiguous => failures > 0

=============================================================================
