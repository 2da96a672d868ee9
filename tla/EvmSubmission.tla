---------------------------- MODULE EvmSubmission ----------------------------
(***************************************************************************)
(* One eip155 payment from the request to the booked fee: the offline      *)
(* identity, both verifications, the claim, the signed EIP-1559 envelope   *)
(* and its fee bounds, the journaled columns, the check that recovery      *)
(* makes of the stored bytes, and the receipt.  EvmEngine leaves out what  *)
(* is inside the bytes; here the fields and the numbers are kept and the   *)
(* chain is reduced to one transaction.                                    *)
(***************************************************************************)
EXTENDS Integers

CONSTANTS
  Files,       \* configuration files an operator may install
  Requests,    \* settle requests, as parsed
  Strays,      \* submission columns of other settlements
  FeeAnswers,  \* what an endpoint answers to a fee estimate: max and tip
  L1Fees,      \* L1 data fees, estimated and charged
  Balances,    \* balances of the signer
  Nonces,      \* account nonces of the signer
  ChainId,     \* expected_chain_id of the environment
  Usdc,        \* expected_usdc of the environment
  DomainName,  \* canonical_domain_name of the chain
  MaxU128,     \* width of the amounts in wei
  MaxI32,      \* width of the required_confirmations column
  MinGas, MaxGas,  \* band of eip155.gas_limit
  MinAmount,   \* least minimum_amount
  MaxRestarts,
  None

VARIABLES
  conf,      \* the configuration of the running process
  req,       \* the payment the client presents
  step,      \* where the handler, and then the worker, of the process is
  hash,      \* offline_payment_hash, computed by the handler
  payment,   \* the VerifiedPayment at hand
  prepared,  \* what prepare returned, kept for the properties after a restart
  row,       \* the settlement row; state "none" before the claim
  swapped,   \* the submission columns were replaced by those of another row
  verdict,   \* validate_stored_submission in the last reconciliation
  wire,      \* the bytes that were broadcast first
  floor,     \* the hard stop in force when they were
  balance,   \* of the signer
  cost,      \* what the mined transaction cost
  booked,    \* actual fee in the journal
  restarts

\* An address is an identity and the form it is written in; the numbers of a
\* file, of an estimate and of a transaction are unsigned.
ASSUME SubmissionAssumption ==
  /\ MaxU128 \in Nat /\ MaxI32 \in Nat /\ MinGas \in Nat \ {0} /\ MaxGas \in Nat
  /\ L1Fees \subseteq Nat /\ Balances \subseteq Nat
  /\ None \notin BOOLEAN /\ None \notin [used: Nat, price: Nat, l1: Nat, fee: Nat]
  /\ \A f \in Files :
       /\ {f.depth, f.gas, f.cap, f.reservation, f.hardStop} \subseteq Nat
       /\ DOMAIN f.asset = {"id", "form"}
  /\ \A r \in Requests :
       /\ DOMAIN r.required.asset = {"id", "form"} /\ DOMAIN r.required.payTo = {"id", "form"}
       /\ {r.required.amount.n, r.accepted.amount.n} \subseteq Nat
       /\ r.auth = [x \in {"from", "to", "value", "after", "before", "nonce"} |-> r.auth[x]]
       /\ DOMAIN r.sig = {"shape", "by", "over"}
  /\ \A a \in FeeAnswers : {a.max, a.tip} \subseteq Nat
  /\ \A s \in Strays : s.bytes.max \in Nat

vars == <<conf, req, step, hash, payment, prepared, row, swapped, verdict, wire, floor,
          balance, cost, booked, restarts>>

-----------------------------------------------------------------------------
(* Text.  An address is journaled and compared as text, in the form the    *)
(* client or the provider wrote it; a decimal may have leading zeros.      *)

Checksum(id) == [id |-> id, form |-> "checksum"]
Lower(text) == [text EXCEPT !.form = "lower"]
EqIgnoreCase(s, t) == Lower(s) = Lower(t)

Decimal(n) == [n |-> n, zeros |-> 0]
DecimalIsAtLeast(a, b) == a.n >= b.n

Fits(n) == n <= MaxU128

-----------------------------------------------------------------------------
(* Configuration.                                                          *)

ValidateEip155(f) ==
  /\ f.chainId = ChainId
  /\ f.network = ChainId
  /\ f.asset.id = Usdc
  /\ f.depth \in 1..MaxI32
  /\ f.gas \in MinGas..MaxGas
  /\ f.cap \in 1..MaxU128
  /\ Fits(f.gas * f.cap)
  /\ f.reservation \in (f.gas * f.cap + 1)..MaxU128

\* The launch policy: independent endpoints, the sponsorship thresholds, and
\* the settings with fixed values (HTTPS, loopback, USDC, request limits).
Validate(f) ==
  /\ f.primaryHost # f.backupHost
  /\ f.fixedSettings
  /\ f.minimum >= MinAmount
  /\ f.hardStop < f.warning
  /\ f.reservation <= f.clientDaily /\ f.reservation <= f.globalDaily
  /\ ValidateEip155(f)

PolicySnapshot(f) ==
  [network |-> f.network, asset |-> f.asset, chainId |-> f.chainId,
   depth |-> f.depth, gas |-> f.gas, cap |-> f.cap]

-----------------------------------------------------------------------------
(* Identity and verification of a payment.                                 *)

\* eip712_transfer_hash under the provider's own domain.
TransferHash(auth) == [name |-> DomainName, chainId |-> ChainId, token |-> Usdc, auth |-> auth]

\* static_settle_failure, for what varies within an eip155 instance.
StaticOK(r) ==
  /\ EqIgnoreCase(r.required.asset, conf.asset)
  /\ DecimalIsAtLeast(r.required.amount, Decimal(conf.minimum))

\* The checks verify and offline_payment_hash share.
WellFormed(r) ==
  /\ r.scheme = "eip3009"
  /\ r.accepted.asset.id = conf.asset.id
  /\ r.accepted.name = DomainName

\* A signature is taken for the payer's own when it recovers to the payer, and
\* otherwise for one a contract wallet must judge.
ClassifySignature(payer, sig, prehash) ==
  CASE sig.shape = "6492" -> "counterfactual"
    [] sig.shape = "torn" -> "malformed"
    [] sig.shape \in {"64", "65"} /\ sig.by = payer /\ sig.over = prehash -> "eoa"
    [] OTHER -> "eip1271"

Settleable(r) == ClassifySignature(r.auth.from, r.sig, TransferHash(r.auth)) \in {"eoa", "eip1271"}

\* verify_eip3009_payment of the upstream crate.  It alone compares the
\* authorization with the terms.  A wallet may refuse, a payer may be out of
\* funds, an endpoint may not answer.
Upstream(r) ==
  {"invalid", "ambiguous"} \cup
  IF /\ r.accepted.asset.id = r.required.asset.id
     /\ r.accepted.payTo.id = r.required.payTo.id
     /\ r.accepted.amount.n = r.required.amount.n
     /\ r.auth.to = r.accepted.payTo.id
     /\ r.auth.value = r.accepted.amount.n
  THEN {"valid"}
  ELSE {}

\* verify: the signature is classified before upstream is asked.
Verify(r, answer) == IF ~WellFormed(r) \/ ~Settleable(r) THEN "invalid" ELSE answer

\* What verify returns for a request that upstream finds valid.
VerifiedPayment(r) ==
  [payer |-> Checksum(r.auth.from),
   hash |-> TransferHash(r.auth),
   asset |-> Checksum(r.accepted.asset.id),
   payTo |-> Checksum(r.accepted.payTo.id),
   amount |-> Decimal(r.accepted.amount.n),
   auth |-> r.auth,
   sig |-> r.sig]

Identity(p) ==
  [hash |-> p.hash,
   scope |-> [network |-> ChainId, asset |-> Lower(p.asset), payer |-> Lower(p.payer)],
   anchor |-> p.auth.nonce,
   after |-> p.auth.after,
   before |-> p.auth.before]

-----------------------------------------------------------------------------
(* Fees.                                                                   *)

Larger(a, b) == IF a >= b THEN a ELSE b

SaneEstimate(a) == a.max > 0 /\ a.tip <= a.max

BoundedFeeEnvelope(p, b) ==
  LET max == Larger(p.max, b.max)
  IN  IF SaneEstimate(p) /\ SaneEstimate(b) /\ max <= conf.cap
      THEN [gas |-> conf.gas, max |-> max, tip |-> Larger(p.tip, b.tip)]
      ELSE None

ReservationCoversLiability(l1) ==
  LET liability == conf.gas * conf.cap + l1
  IN  Fits(liability) /\ conf.reservation >= liability

\* Plausible bug: the reservation is not kept on top of the hard stop.
SignerIsFunded_HardStop(amount) == amount >= conf.hardStop

SignerIsFunded(amount) ==
  LET required == conf.hardStop + conf.reservation
  IN  Fits(required) /\ amount >= required

RecoveryBalanceOK(amount) ==
  LET required == conf.hardStop + row.reserved
  IN  Fits(required) /\ amount >= required

-----------------------------------------------------------------------------
(* The signed transaction.                                                 *)

\* The overload with (v, r, s) carries the 65 bytes of a recovered signature.
SettlementCalldata(p) ==
  IF ClassifySignature(p.auth.from, p.sig, p.hash) = "eoa"
  THEN [overload |-> "vrs", auth |-> p.auth, sig |-> [p.sig EXCEPT !.shape = "65"]]
  ELSE [overload |-> "bytes", auth |-> p.auth, sig |-> p.sig]

SignSettlementTransaction(nonce, fees, call) ==
  [encoding |-> "canonical", type |-> 2, by |-> conf.signer, chainId |-> conf.chainId,
   nonce |-> nonce, gas |-> fees.gas, max |-> fees.max, tip |-> fees.tip,
   to |-> conf.asset.id, value |-> 0, accessList |-> {}, call |-> call]

\* Plausible bug: the envelope is validated and the calldata is not.
ValidateSignedTransaction_EnvelopeOnly(f, r) ==
  /\ r.bytes.encoding = "canonical"
  /\ r.bytes = r.txHash
  /\ r.bytes.by = r.signer.id
  /\ r.bytes.chainId = f.chainId
  /\ r.bytes.nonce = r.nonce
  /\ r.bytes.to = r.asset.id
  /\ r.bytes.gas = r.policy.gas
  /\ r.bytes.max <= r.policy.cap

\* A transaction hash stands for the bytes it is the hash of.
ValidateSignedTransaction(f, r) ==
  LET tx == r.bytes
      call == tx.call
      kind == ClassifySignature(call.auth.from, call.sig, TransferHash(call.auth))
  IN  /\ tx.encoding = "canonical"
      /\ tx.type = 2
      /\ tx = r.txHash
      /\ tx.by = r.signer.id
      /\ tx.chainId = f.chainId
      /\ tx.nonce = r.nonce
      /\ tx.to = r.asset.id
      /\ tx.value = 0
      /\ tx.gas = r.policy.gas
      /\ tx.max <= r.policy.cap
      /\ tx.max # 0 /\ tx.tip <= tx.max
      /\ tx.accessList = {}
      /\ call.auth = [from |-> r.payer.id, to |-> r.payTo.id, value |-> r.amount.n,
                      after |-> r.after, before |-> r.before, nonce |-> r.anchor]
      /\ TransferHash(call.auth) = r.hash
      /\ \/ kind = "eoa" /\ call.overload = "vrs"
         \/ kind = "eip1271" /\ call.overload = "bytes"

ValidateStoredSubmission(f, r) ==
  /\ r.network = f.chainId
  /\ r.signer.id = f.signer
  /\ r.asset.id = f.asset.id
  /\ r.scope = [network |-> r.network, asset |-> Lower(r.asset), payer |-> Lower(r.payer)]
  /\ ValidateSignedTransaction(f, r)

EvmPolicySnapshotOK(r) ==
  /\ r.policy.network = r.network
  /\ EqIgnoreCase(r.policy.asset, r.asset)
  /\ r.policy.chainId = r.network
  /\ r.policy.gas > 0 /\ r.policy.cap > 0 /\ r.policy.depth > 0

\* The checks of reconcile_prepared_evm before it asks an endpoint.
Recovers(f, r) ==
  /\ r.signer = Checksum(f.signer)
  /\ f.depth <= MaxI32
  /\ EvmPolicySnapshotOK(r)
  /\ Larger(r.depth, f.depth) >= r.policy.depth
  /\ ValidateStoredSubmission(f, r)

-----------------------------------------------------------------------------
Init ==
  /\ conf \in {f \in Files : Validate(f)}
  /\ req \in Requests
  /\ balance \in Balances
  /\ step = "idle"
  /\ hash = None /\ payment = None /\ prepared = None
  /\ row = [state |-> "none"]
  /\ swapped = FALSE
  /\ verdict = None
  /\ wire = None /\ floor = None /\ cost = None /\ booked = None
  /\ restarts = 0

CanRetry == row.state \in {"none", "awaiting_retry"}

\* settle_inner up to the journal lookup: the payment's identity.
Present ==
  /\ step = "idle"
  /\ CanRetry
  /\ IF StaticOK(req) /\ WellFormed(req)
     THEN step' = "identified" /\ hash' = TransferHash(req.auth)
     ELSE step' = "refused" /\ hash' = None
  /\ UNCHANGED <<conf, req, payment, prepared, row, swapped, verdict, wire, floor, balance,
                 cost, booked, restarts>>

\* The handler verifies; ambiguous evidence answers 503 and may be retried.
HandlerVerify(answer) ==
  /\ step = "identified"
  /\ answer \in Upstream(req)
  /\ CASE Verify(req, answer) = "invalid" -> step' = "refused" /\ payment' = None
       [] Verify(req, answer) = "ambiguous" -> step' = "idle" /\ payment' = None
       [] OTHER -> /\ payment' = VerifiedPayment(req)
                   /\ step' = IF payment'.hash = hash THEN "verified" ELSE "inconsistent"
  /\ UNCHANGED <<conf, req, hash, prepared, row, swapped, verdict, wire, floor, balance,
                 cost, booked, restarts>>

\* A new row; its terms are the text of the payment requirements.
ClaimSettlement ==
  /\ step = "verified"
  /\ row.state = "none"
  /\ LET id == Identity(payment)
     IN  row' = [state |-> "reserved", hash |-> id.hash, scope |-> id.scope, anchor |-> id.anchor,
                 after |-> id.after, before |-> id.before, network |-> conf.network,
                 asset |-> req.required.asset, payTo |-> req.required.payTo,
                 amount |-> req.required.amount, payer |-> payment.payer,
                 signer |-> Checksum(conf.signer), policy |-> PolicySnapshot(conf),
                 reserved |-> conf.reservation, bytes |-> None, txHash |-> None, nonce |-> None,
                 depth |-> None]
  /\ step' = "claimed"
  /\ UNCHANGED <<conf, req, hash, payment, prepared, swapped, verdict, wire, floor, balance,
                 cost, booked, restarts>>

\* Plausible bug: a resumed row keeps the policy it was claimed under.
ResumeAwaitingRetry_OldPolicy ==
  /\ step = "verified"
  /\ row.state # "none"
  /\ row' = [row EXCEPT !.state = "reserved", !.reserved = conf.reservation]
  /\ step' = "claimed"
  /\ UNCHANGED <<conf, req, hash, payment, prepared, swapped, verdict, wire, floor, balance,
                 cost, booked, restarts>>

\* The same payment again, under the policy of today.
ResumeAwaitingRetry ==
  /\ step = "verified"
  /\ row.state # "none"
  /\ row' = [row EXCEPT !.state = "reserved", !.policy = PolicySnapshot(conf),
                        !.reserved = conf.reservation]
  /\ step' = "claimed"
  /\ UNCHANGED <<conf, req, hash, payment, prepared, swapped, verdict, wire, floor, balance,
                 cost, booked, restarts>>

-----------------------------------------------------------------------------
(* The worker.                                                             *)

Release ==
  /\ row' = [row EXCEPT !.state = "awaiting_retry"]
  /\ step' = "idle"

Terminate(reason) ==
  /\ row' = [row EXCEPT !.state = "failed"]
  /\ step' = reason

\* Plausible bug: the payee is compared as text.
SamePayment_ExactText(p) ==
  LET id == Identity(p)
  IN  /\ row.hash = id.hash /\ row.scope = id.scope /\ row.anchor = id.anchor
      /\ row.payer = p.payer /\ row.network = ChainId
      /\ EqIgnoreCase(row.asset, p.asset) /\ row.payTo = p.payTo
      /\ DecimalIsAtLeast(row.amount, p.amount) /\ DecimalIsAtLeast(p.amount, row.amount)

\* The journaled row against the payment verified again.
SamePayment(p) ==
  LET id == Identity(p)
  IN  /\ row.hash = id.hash /\ row.scope = id.scope /\ row.anchor = id.anchor
      /\ row.payer = p.payer /\ row.network = ChainId
      /\ EqIgnoreCase(row.asset, p.asset) /\ EqIgnoreCase(row.payTo, p.payTo)
      /\ DecimalIsAtLeast(row.amount, p.amount) /\ DecimalIsAtLeast(p.amount, row.amount)

WorkerVerify(answer) ==
  /\ step = "claimed"
  /\ answer \in Upstream(req)
  /\ CASE Verify(req, answer) = "ambiguous" -> Release
       [] Verify(req, answer) = "invalid" -> Terminate("rejected")
       [] OTHER -> IF SamePayment(VerifiedPayment(req))
                   THEN step' = "checked" /\ row' = row
                   ELSE Terminate("mismatch")
  /\ UNCHANGED <<conf, req, hash, payment, prepared, swapped, verdict, wire, floor, balance,
                 cost, booked, restarts>>

\* fresh_signer_head, prepare and the liability check; l1p and l1b are the two
\* endpoints' L1 estimates, None when one fails.
WorkerPrepare(nonce, p, b, l1p, l1b) ==
  LET fees == BoundedFeeEnvelope(p, b)
      l1 == IF None \in {l1p, l1b} THEN None ELSE Larger(l1p, l1b)
  IN  /\ step = "checked"
      /\ IF /\ SignerIsFunded(balance)
            /\ fees # None
            /\ l1 # None
            /\ ReservationCoversLiability(l1)
         THEN /\ prepared' = [bytes |-> SignSettlementTransaction(nonce, fees, SettlementCalldata(payment)),
                              l1 |-> l1]
              /\ step' = "signed"
              /\ row' = row
         ELSE Release /\ prepared' = None
      /\ UNCHANGED <<conf, req, hash, payment, swapped, verdict, wire, floor, balance, cost,
                     booked, restarts>>

MarkPreparedEvm ==
  /\ step = "signed"
  /\ IF conf.depth <= MaxI32
     THEN /\ row' = [row EXCEPT !.state = "prepared", !.bytes = prepared.bytes,
                       !.txHash = prepared.bytes, !.nonce = prepared.bytes.nonce, !.depth = conf.depth]
          /\ step' = "stored"
     ELSE step' = "unjournalable" /\ row' = row
  /\ UNCHANGED <<conf, req, hash, payment, prepared, swapped, verdict, wire, floor, balance,
                 cost, booked, restarts>>

\* The worker's own broadcast, after a last look at the signer.
WorkerSend ==
  /\ step = "stored"
  /\ SignerIsFunded(balance)
  /\ wire' = row.bytes
  /\ floor' = conf.hardStop
  /\ step' = "sent"
  /\ UNCHANGED <<conf, req, hash, payment, prepared, row, swapped, verdict, balance, cost,
                 booked, restarts>>

-----------------------------------------------------------------------------
(* Restart, recovery, chain.                                               *)

\* The process comes back with any valid configuration; a reserved row without
\* a transaction is released.
Restart(f) ==
  /\ restarts < MaxRestarts
  /\ Validate(f)
  /\ conf' = f
  /\ restarts' = restarts + 1
  /\ row' = IF row.state = "reserved"
            THEN [row EXCEPT !.state = "awaiting_retry"] ELSE row
  /\ step' = "idle"
  /\ hash' = None /\ payment' = None
  /\ verdict' = None
  /\ UNCHANGED <<req, prepared, swapped, wire, floor, balance, cost, booked>>

\* The journal's submission columns become those of another row.
Swap(s) ==
  /\ ~swapped
  /\ wire = None
  /\ row.state = "prepared"
  /\ step = "idle"
  /\ row' = [row EXCEPT !.bytes = s.bytes, !.txHash = s.txHash, !.nonce = s.nonce]
  /\ swapped' = TRUE
  /\ verdict' = None
  /\ UNCHANGED <<conf, req, step, hash, payment, prepared, wire, floor, balance, cost, booked, restarts>>

ReconcilePreparedEvm ==
  /\ row.state = "prepared"
  /\ step \in {"idle", "sent"}
  /\ verdict' = Recovers(conf, row)
  /\ row' = [row EXCEPT !.depth = IF row.signer = Checksum(conf.signer) THEN Larger(@, conf.depth) ELSE @]
  /\ UNCHANGED <<conf, req, step, hash, payment, prepared, swapped, wire, floor, balance, cost,
                 booked, restarts>>

\* No endpoint knows the transaction: the stored bytes are sent again.
Rebroadcast ==
  /\ verdict = TRUE
  /\ cost = None
  /\ SignerIsFunded(balance) /\ RecoveryBalanceOK(balance)
  /\ wire' = IF wire = None THEN row.bytes ELSE wire
  /\ floor' = IF wire = None THEN conf.hardStop ELSE floor
  /\ UNCHANGED <<conf, req, step, hash, payment, prepared, row, swapped, verdict, balance,
                 cost, booked, restarts>>

\* The chain charges what was used at the price of the block, and the L1 fee
\* of that block.
Mine(used, price, l1) ==
  /\ wire # None
  /\ cost = None
  /\ cost' = [used |-> used, price |-> price, l1 |-> l1, fee |-> used * price + l1]
  /\ cost'.fee <= balance
  /\ balance' = balance - cost'.fee
  /\ UNCHANGED <<conf, req, step, hash, payment, prepared, row, swapped, verdict, wire, floor,
                 booked, restarts>>

\* An endpoint's receipt: of the mined transaction, of another one, or without
\* a field that not every node fills in.
Receipts ==
  LET full == [transactionHash |-> wire, mined |-> TRUE, gasUsed |-> cost.used,
               effectiveGasPrice |-> cost.price, l1Fee |-> cost.l1]
  IN  {full, [full EXCEPT !.transactionHash = None], [full EXCEPT !.mined = FALSE],
       [full EXCEPT !.effectiveGasPrice = None], [full EXCEPT !.l1Fee = None]}

\* Plausible bug: a receipt without an L1 fee has none.
ParseRawReceipt_L1Optional(expected, raw) ==
  IF raw.transactionHash # expected \/ ~raw.mined \/ raw.effectiveGasPrice = None THEN None
  ELSE LET l1 == IF raw.l1Fee = None THEN 0 ELSE raw.l1Fee
       IN  raw.gasUsed * raw.effectiveGasPrice + l1

\* The fee of a mined receipt; None for a pending one and for every error.
ParseRawReceipt(expected, raw) ==
  IF \/ raw.transactionHash # expected
     \/ ~raw.mined
     \/ None \in {raw.gasUsed, raw.effectiveGasPrice, raw.l1Fee}
     \/ ~Fits(raw.gasUsed * raw.effectiveGasPrice + raw.l1Fee)
  THEN None
  ELSE raw.gasUsed * raw.effectiveGasPrice + raw.l1Fee

Book(raw) ==
  /\ verdict = TRUE
  /\ cost # None /\ booked = None
  /\ booked' = ParseRawReceipt(row.txHash, raw)
  /\ UNCHANGED <<conf, req, step, hash, payment, prepared, row, swapped, verdict, wire, floor,
                 balance, cost, restarts>>

Next ==
  \/ Present
  \/ \E answer \in {"valid", "invalid", "ambiguous"} : HandlerVerify(answer) \/ WorkerVerify(answer)
  \/ ClaimSettlement
  \/ ResumeAwaitingRetry
  \/ \E nonce \in Nonces, p, b \in FeeAnswers, l1p, l1b \in L1Fees \cup {None} :
       WorkerPrepare(nonce, p, b, l1p, l1b)
  \/ MarkPreparedEvm
  \/ WorkerSend
  \/ \E f \in Files : Restart(f)
  \/ \E s \in Strays : Swap(s)
  \/ ReconcilePreparedEvm
  \/ Rebroadcast
  \/ wire # None /\ \E used \in 1..wire.gas, price \in 1..wire.max, l1 \in L1Fees : Mine(used, price, l1)
  \/ cost # None /\ \E raw \in Receipts : Book(raw)

Spec == Init /\ [][Next]_vars

-----------------------------------------------------------------------------
Prepared == row.state = "prepared"

\* Bytes the facilitator signed and journaled itself pass the recovery checks
\* of every configuration it may be restarted with (reconcile_prepared_evm,
\* validate_stored_submission), however the client spelt addresses and amounts
\* and whatever the policy was when the payment was claimed or resumed.
OwnBytesAccepted ==
  Prepared /\ ~swapped => \A f \in Files : Validate(f) => Recovers(f, row)

\* Bytes that recovery accepts, those of a damaged journal included, carry out
\* the row's own payment and nothing else, and cost at most its reservation
\* before L1 fees ("bind them to the exact settlement row").
AcceptedIsThePayment ==
  verdict = TRUE =>
    LET tx == row.bytes
        auth == tx.call.auth
    IN  /\ <<tx.chainId, tx.to>> = <<row.network, row.asset.id>>
        /\ <<auth.from, auth.to, auth.value>> = <<row.payer.id, row.payTo.id, row.amount.n>>
        /\ auth.nonce = row.anchor
        /\ tx.by = conf.signer
        /\ tx.gas * tx.max <= row.reserved

\* A payment the handler accepted is never failed by the facilitator's own
\* consistency checks: not by verification_inconsistent, not by the worker's
\* settlement_identity_mismatch, and its depth can always be journaled.
NoSelfInflictedFailure == step \notin {"inconsistent", "mismatch", "unjournalable"}

\* A transaction that was broadcast and met no higher L1 fee than estimated is
\* paid by its reservation and leaves the hard stop of that broadcast in the
\* account (signer_is_funded, evm_reservation_covers_liability,
\* require_evm_recovery_balance), through restarts with other settings.
HardStopKept ==
  cost # None /\ cost.l1 <= prepared.l1 => cost.fee <= row.reserved /\ balance >= floor

\* The fee that is booked is the fee the chain charged, to the wei
\* (parse_raw_receipt): a receipt that lacks a part of it books nothing.
BookedIsCharged == booked # None => booked = cost.fee

\* "Persist the signer identity, account nonce, exact signed bytes": the signer
\* in the row is the one that signed its bytes.
SignerPersisted == Prepared /\ ~swapped => row.signer = Checksum(row.bytes.by)
==============================================================================
