# Verification of the x402 facilitator

TLA+ models of the facilitator in `src/`, model-checked with TLC and proved with
TLAPS. Paths below are relative to `src/crates/x402-near-facilitator/src/`
unless they say otherwise; `near/` and `eip155/` stand for the `src/` of
`x402-chain-near` and `x402-chain-eip155-provider`.

## The system

One facilitator process serves one network. A resource server posts a payer's
signed authorization to `/settle`; the facilitator pays the network fee of the
transaction that executes it (the *outer* transaction or *submission*), and
answers with what the chain says. The parts:

| Part | Code | State | Operations |
| --- | --- | --- | --- |
| HTTP boundary | `protocol.rs`, `v1_compat.rs` | – | parse, translate the v1 dialect, fingerprint, replay, answer in the request's dialect |
| Request front | `service.rs` `verify_inner`, `RateLimiter`, `auth.rs` | rate windows, verification slots | authenticate, limit, check payees, verify |
| Administration | `bin/admin.rs`, `store.rs` | `api_clients`, `api_keys`, `api_client_payees` | create, rotate, revoke, allow payees |
| Verification | `near/mechanism.rs`, `near/rpc.rs`, `retry.rs`; `eip155/provider.rs`, `settle.rs` | – | ordered checks, reads at one block, bounded retry; signature classes |
| Settle handler | `service.rs` `settle`, `settle_inner` | one request | idempotency lookup, readiness check, claim or resume, spawn, wait |
| Settlement worker | `service.rs` `run_new_settlement`, `settle_prepared_evm` | detached task, relayer mutex | verify, sign, journal, mark submitted, broadcast, terminalize |
| Settlement journal | `store.rs`, `src/migrations/` | `settlements`, daily sponsorship ledgers (global, per client), `relayers` | claim, release for retry, resume, prepare, submit, raise depth, terminalize, quarantine |
| Reconciliation | `service.rs` `reconcile`, `reconcile_prepared`, `reconcile_prepared_evm`, `main.rs` | one call at a time per process | release reserved rows, resolve or rebroadcast signed ones, open the gate |
| Leadership, readiness | `leadership.rs`, `refresh_chain_readiness` | advisory lock of a database session, the gates | acquire, lose, notice at a heartbeat, refresh |
| Evidence | `chain.rs`, `near/receipt.rs`, `eip155/provider.rs` | – | merge two endpoints' answers, walk the receipt graph, count confirmations |
| eip155 envelope | `eip155/prepare.rs`, `config.rs` | – | fee bounds, signing, validation of stored bytes |

What is hard: a worker, the reconcile loop, the leadership loop, the readiness
monitor and the request handlers run concurrently and meet in the gates, in the
relayer mutex and in the journal; two processes can overlap after a lost
session; every store call may fail, or commit and report an error; a broadcast may
time out and still be included; the two RPC endpoints may lag, show a part or
disagree; an eip155 chain may reorganise; an operator may restart with another
configuration; the process may stop anywhere. `PROJECT.json` lists the hazards
with their lines.

What must hold: a payment is transferred at most once and the recorded verdict
is the truth; nothing is broadcast that the journal would not know after a
crash; what the journal holds can be recovered; the sponsorship ledgers are
exact and within their limits; a quarantined key signs nothing; nothing signed
stays in flight for ever, and nothing stays reserved behind a closed gate or with
a worker on it; a request meets its own settlement and no other.

## Modules

| Module | Models | Lines up with the code as |
| --- | --- | --- |
| `Journal` | the store | one operator per transaction of `PgStore`; a row is addressed by its payment hash; `nonce` stands for the nonce, bytes and hash columns, which are written together |
| `Engine` | the chain-neutral engine for a set of processes | one action per piece of code between two awaits; the relayer mutex is held by the task whose `pc` is past `queued` |
| `NearEngine` | the NEAR half of worker and reconciliation, the chain and its two endpoints | as `Engine`; `final`, `height` and `nonceAt` are the chain, an endpoint answers from any block of `Views` |
| `EvmEvidence` | the merge and classification rules of `eip155/provider.rs` | one operator per function |
| `EvmEngine` | the eip155 half, with a mempool, reorganisations and two endpoints | as `NearEngine`; `look` is the state of `reconcile_with_confirmations` between its reads, the fork number stands for block hashes |
| `Settlement` | the promise to the callers | abstract specification (`Transfer`, `Report`) that both engines implement |
| `EvmSubmission` | one eip155 payment with its fields, numbers and spellings | `validate`, `verify`, `bounded_fee_envelope`, `sign_settlement_transaction`, `validate_signed_transaction`, `parse_raw_receipt` as operators; handler, worker and recovery as steps |
| `ReceiptGraph` | the verdict on a NEAR transaction | the two lookups, the identity check, and `interpret_final_outcome` with one step per receipt of the walk and of the sort |
| `NearVerify` | verification of one NEAR payment | one step per RPC read of `verify_proto_request`; `Fail` is the retry loop |
| `Access` | clients, keys, payees | one step per statement of a transaction, under READ COMMITTED |
| `VerifyFront` | the way of a request through authentication, limits, checks, slots | one step per await, beside `Access` |
| `Wire` | parsing, the v1 dialect, fingerprint, replay | a JSON object is a function of its keys; one operator per function of the parser |
| `MC…` | – | the instances TLC checks |
| `EvmInvariants` | – | the inductive invariants of `EvmEngine` and the forms of its steps |
| `…Proofs` | – | the theorems, see [Proofs](#proofs) |

How they compose: `Engine` extends `Journal`, so every store call of the engine
*is* the journal's transaction. It may also have no effect, or commit while the
caller sees an error: `StoreCall` says so of the calls of workers and
reconciliation, `SpawnOrStrand` of claim and resume, whose handler then answers
503 and leaves a reserved row without a worker. `NearEngine` and `EvmEngine` extend
`Engine`, `EvmEngine` also `EvmEvidence`; `VerifyFront` extends `Access`. The
other modules justify choices the engines make freely: `ReceiptGraph` and
`EvmEvidence` the verdicts, `NearVerify` and `EvmSubmission` verification and
the recovery checks, `Wire` and `VerifyFront` which requests get to the engine.

### Simplifications

Journal and engines:

- A claim is one atomic transaction. The code first runs the lookups as
  queries of their own; the unique indexes decide again at the INSERT, so the
  result is that of the atomic action. The error the loser of a race gets is
  not modelled. The date is read just before the transaction.
- Authentication, rate limits, parsing, payee policy and verification are the
  free choices of `Admit`, `Claim` and `WorkerVerify`.
- NEAR: both signer heads of `reconcile_prepared` are read in one step, each
  from a view of its own; with lagging views this loses no combination.
  Inclusion and final execution happen in one block, and the inner transfer may
  succeed or fail.
- eip155: the two endpoints' receipts and transactions are read in one step, and
  so are signer head, policy and send; a balance or a fee liability that does
  not suffice is a fault (`funds`, `fees`); an endpoint follows the chain
  monotonically; empty blocks are mined only where a depth can depend on them.
  A reorganisation keeps the height, and the configured depth is larger than
  `MaxReorg`: the operator's margin, an assumption of every confirmation rule.
- `reconcile` takes rows in any order; the code takes them by `created_at`.
- `NextDay` is part of `Journal` and not of the engines' next-state relations.
- A row is resumed at most `MaxAttempts - 1` times; the code has no bound.

Algorithms and boundary:

- `EvmSubmission`: words are small (`MaxU128`, `MaxI32` name their largest
  values), the transaction hash is the bytes themselves, and the chain is one
  transaction. Addresses keep their spelling and numbers their leading zeros.
  The upstream verification is external, and `OwnBytesAccepted` rests on it:
  what it accepts has `authorization.to = payTo`, `value = amount` and the
  accepted terms equal to the required ones.
- `ReceiptGraph`: the five fields of the identity are one boolean; gas and fee
  sums are left out; the token receipts are the positions the filter keeps; the
  sort takes its roots in any order.
- `NearVerify`: a missing account has no access key; every failing read is of
  one kind; what is wrong with a request is a set whose first member in the
  order of the checks is reported.
- `Access`, `VerifyFront`: the row locks of one UPDATE are taken together; the
  two statements of allow-payee are one step; digests are the keys themselves;
  `last_used_at` is left out; `set_client_budget` is the free choice of
  `ClientLimits` in `Journal`; what verification finds is a free choice.
- `Wire`: one request is one step, since `Engine` has the interleavings; a value
  of a wrong JSON type is `Bad`; the canonical text of a value is the value;
  `TurnedAway` stands for readiness, payees, verification and budget. `Meaning` has
  the payload's version: the parser takes any u8 there and the fingerprint covers
  it, so requests that differ in it are different requests.

## Runs

| Run | Instance | Shows |
| --- | --- | --- |
| `JournalEvm` | 3 payments, two of them over one authorization nonce, 2 clients, one identifier used twice, 2 days, fees below and at the reservation, limits below two full fees, depths 1 and 2 | `LedgerExact`, `SponsorshipWithinLimits`, `OwnedOnce`, `OneActiveSigner`, `SchemaChecks`, `SubmissionIsPermanent` |
| `NearSafety` | 1 process, 2 payments (one the network refuses), 2 workers, 2 faults of 8 kinds, 3 blocks, endpoints lag by up to one | `JournaledBeforeBroadcast`, `GateSound`, `QuarantineStopsBroadcast`, and that the engine implements `Settlement` (`KeepsContract`) |
| `NearLiveness` | 1 process, 1 payment, 2 faults of 7 kinds, fairness | `SubmissionResolves`; a reservation does not last while somebody works on it (`WorkedReservationResolves`) nor behind a closed gate (`ClosedGateReleases`) |
| `EvmFaults` | 1 payment, 1 fault of 10 kinds, two configurations that differ in depth and caps, a fee above the reservation | `TerminalIsBuried`, `OverspentOnlyInQuarantine`, `RecoveryAcceptsOwnBytes`, `GateSound` |
| `EvmReorg` | 1 payment, depth 2, a crash, an unacknowledged commit, a lost transaction or a reorganisation of one block, fairness | `TerminalIsBuried`, `SubmissionResolves`, and that the engine implements `Settlement` when only transfers too deep to be undone count as paid |
| `EvmPayment` | 17 requests, 8 configuration files (two valid), 16 sets of submission columns put in place of the row's own, every fee, L1 fee and balance around the limits, 2 restarts | `OwnBytesAccepted`, `AcceptedIsThePayment`, `NoSelfInflictedFailure`, `HardStopKept`, `BookedIsCharged` |
| `Receipts` | every small graph below one delegate receipt, every head, and honest transfers of which an endpoint shows any part | `SuccessMeansSettled`, `FailureIsOnChain`, `SettledIsAccepted` |
| `NearVerify` | nonces, expiries and amounts around each boundary, single and paired flaws, 10 account states, 3 blocks, 3 failing reads | `ValidAtOneBlock`, `RefusedForCause`, `RetriesOnlyAmbiguity`, `Answered` |
| `Front` | 1 client, 2 keys, 2 administrators, one connection, 2 requests per minute of 2 ticks, 1 slot | `DeadKeyStaysOut`, `SlotsConserved`, `RateBound`, `RefusedAtLimit`, `ReadyMeansServable` |
| `WireDialects` | 2 clients, 34 bodies in both dialects, 6 configurations of which the validation refuses some | `RetryMeetsItself`, `OutcomeIsOwn`, `AnswerSpeaksDialect` |

The bounds are the smallest at which the cases happen. Two payments are needed
for a new NEAR settlement to sign on top of an unresolved one and for a nonce to
be contested; on eip155 the single signer slot keeps a second one out, so one
payment suffices there. Two faults give a failure during the recovery from one.
Three NEAR blocks let a submission be included before, at and after the expiry
height of 2 while an endpoint still shows the block before. A depth of two and a
reorganisation of one block are the least at which a transaction is undone after
it was seen and before it counts. `NearLiveness` has four nonces: with fewer the
worker could run out of them, which real nonces do not. In `Front` one
connection carries one request after the other; two of them for the single slot
do not fit into TLC's reach. `NearSafety` and `Front` use symmetry of
interchangeable workers, administrators and keys; the runs with liveness do not.
The EVM runs use no foreign holder of the key where they check liveness.

The receipts are compared with a definition that knows no walk: `Reachable` is
the least set closed under children, `Settled` that each member ran and none
lies below itself. A verification is compared with `ExecutableAt`, all the
conditions at one block; the dialects with `Meaning`, what the fields of a
request say.

Runs that may stop switch the deadlock check off: the payment of `EvmPayment`
is finished or stuck, and `Front` reaches the end of its clock and keys.

Two runs show code that departs from what the repository says of it;
`PROJECT.json` quotes the lines.

| Run | Property violated | What happens |
| --- | --- | --- |
| `NearStaleLeader` | `OutcomeTruthful` | a worker of a process that lost its lock, and does not know yet, records a payment as failed that the new leader has broadcast |
| `NearDropped` | `ReservationResolves` | the request deadline drops the handler while its claim commits: no worker, and no reconciliation either. `NearLostClaim` is the same with a store that reports an error after the commit |

`KeepsContract` therefore holds for one process at a time and not for two
overlapping ones, and is proved for one. What still holds for any number of
processes is proved too: `BroadcastIsJournaled`, `EngineImplementsJournal`,
`BookedVerdictsStand` and `SubmissionsAreJournaled`. Of reservations,
`NearLiveness` shows what `NearDropped` leaves: a row with a worker is signed,
refused or released, and a row without one is released once a crash, a lost lock
or a failed write has closed the gate.

### Further counterexamples

These configurations are kept beside the runs. Each one checks a sentence of a
document or comment that says more than the code does, and TLC finds it violated
(`tlc -config X.cfg M`).

| Configuration, module | Property | The sentence, and what happens |
| --- | --- | --- |
| `NearQuarantine`, `MCNearEngine` | `QuarantineMeansForeignNonce` | `docs/architecture.md:241-242` "a consumed relayer nonce with no known stored transaction quarantines the key". The transaction becomes final between the status query and the nonce query (`service.rs:2562-2571`), and the key is quarantined for its own nonce |
| `NearLostClaim`, `MCNearEngine` | `ReservationResolves` | `service.rs:1556` tells the caller of a repeated request "settlement is still pending; retry with the same payment identifier". The claim committed, its acknowledgement was lost or the reload of the row failed (`store.rs:789-793`; for a resume `store.rs:1019-1023`), and the handler answered 503 without a worker (`service.rs:1335`): the row stays reserved until a failure or a restart closes the gate |
| `NearLateReconcile`, `MCNearEngine` | `TermStartsUnreconciled` | the test at `leadership.rs:326` is named `losing_leadership_also_invalidates_reconciliation`. A reconcile call that outlives its term opens the gate of the next (`service.rs:2475`) |
| `NearRebroadcast`, `MCNearEngine` | `RebroadcastLeads` | `service.rs:2617` "Leadership is rechecked immediately before the rebroadcast side effect." Two signer-head queries lie in between |
| `EvmQuarantine`, `MCEvmEngine` | `QuarantineMeansForeignNonce` | `docs/evm-v2-design.md:258-263` "No NEAR nonce-quarantine" and "(a single serialized signer makes it unreachable in normal operation)". `service.rs:2783` quarantines when the nonce is used, also by the signer's own transaction that arrived after the status query |
| `EvmExpired`, `MCEvmEngine` | `RebroadcastWhileValid` | `docs/architecture.md:243-244` "exact stored bytes may be rebroadcast only while the authorization remains valid". `service.rs:2769-2832` does not look at the expiry |
| `EvmSignerReplaced`, `MCEvmSubmission` | `SignerPersisted` | `docs/architecture.md:171` "Persist the signer identity, account nonce, exact signed bytes". A row resumed under another configured signer keeps the signer of its claim (`store.rs:955-961`), and recovery then refuses it (`chain.rs:145`) |
| `ReceiptRefund`, `MCReceiptGraph` | `DefinitiveMeansUnpaid` | `near/receipt.rs:104` "authoritative evidence that the submitted payment failed on chain". A receipt that fails after the token receipt returned makes the payment a definitive failure |
| `NearVerifyWide`, `MCNearVerify` | `AmbiguousMeansLookupFailed` | `chain.rs:1274` "an unavailable/ambiguous RPC lookup rather than a definitive invalid payment". An amount that does not fit its type is reported as a failed balance check (`near/mechanism.rs:516`) and retried |
| `FrontRotations`, `MCVerifyFront` | `OneActiveKey` | `docs/api-keys.md:70` "Rotation atomically revokes every active key for that client". Two rotations at once under READ COMMITTED leave two active keys (`store.rs:1417-1444`) |
| `WireRequiredId`, `MCWire` | `AcceptsV1` | `docs/configuration.md:144` on `accept_v1`: "to accept legacy x402 v1 wire requests". When payment identifiers are required no v1 request can carry one and all are malformed (`protocol.rs:497`); the validation (`config.rs:383`) allows both settings |

### Fairness

`FairSpec` of both engines assumes: a task that can go on does (tokio runs it);
a task that waits for the relayer mutex gets it (tokio's mutex is a FIFO queue,
hence strong fairness); the leadership loop, the 15 s readiness monitor and the
2 s reconcile loop never end (`main.rs`); blocks are produced. On NEAR an
endpoint that is asked again and again about a transaction does not answer from
an outdated view for ever. On eip155 a request arrives or is lost, a block takes
up what the mempool holds, and each endpoint follows the chain. Faults are
finite in number and never forced. Request handlers get no fairness: clients may
go away. `NearVerify` assumes that each RPC call ends, which its timeout ensures.

## Proofs

The theorems hold for every value of the constants that satisfies the named
assumptions of the modules. `PROJECT.json` lists them with the property each one
states.

| Module | Proves | About |
| --- | --- | --- |
| `JournalProofs` | `RowsCorrect`, `LedgerCorrect`, `LimitsCorrect`, `OwnershipCorrect`, `SignerSlotCorrect`, `PermanenceCorrect` | the journal, any payments, clients, requests, limits, days |
| `NearEngineProofs` | `EngineTypeCorrect`, `BroadcastIsJournaled`, `EngineImplementsJournal` | the NEAR engine, any number of processes |
| `NearContractProofs` | `GateIsSound`, `QuarantineIsFinal`, `ContractKept`, `VerdictsAreTrue` | the NEAR engine, one process |
| `EvmStepProofs` | lemmas | how a step of the eip155 engine acts on its parts |
| `EvmEngineProofs` | `OverspendingIsQuarantined`, `BookedVerdictsStand`, `SubmissionsAreJournaled`; `GateIsSound`, `OwnBytesPassRecovery`, `TerminalsAreBuried`, `ContractKept` | the eip155 engine: the first three for any number of processes, the others for one |
| `NearProviderProofs` | `ValidIsExecutable`, `RefusalHasCause`, `RetriesAreForAmbiguity`; `FailuresAreOnChain`, `SuccessesAreWhole` | NEAR verification, all requests, chain states, widths; the verdict on a NEAR transaction, all executions and views of them |
| `RequestProofs` | `RetriesMeetThemselves`, `OutcomesAreOwn`, `AnswersSpeakDialect`; `NoInternalFailure`, `AcceptedBytesPay`, `HardStopHolds`, `BookedFeeIsCharged`, `OwnBytesRecover` | the boundary, all bodies, clients, configurations; one eip155 payment, all requests, files, fees, balances |
| `VerifyFrontProofs` | `DeadKeysStayOut`, `SlotsAreConserved`, `ReadyIsServable`, `RateIsBounded`, `RefusalAtLimit` | the request front, any clients, keys, admins, connections, rates |

`OneProcess`, the hypothesis of the engines' contract theorems, says that all
tasks that share the journal belong to one process, which may crash and restart
any number of times and with other configurations. It is what the advisory lock
is for, and it is needed: `NearStaleLeader` shows `OutcomeTruthful` violated when
two processes overlap.

### The journal

- `RowsInv` is inductive: the type invariant, `SchemaChecks` and `OwnerKnown` (a
  row's client exists, a missing row carries no submission).
- `LedgerCorrect`: `LedgerExact` and `ReleaseNeverFails`. Relative to
  `RowsInv` every transaction is of one of three kinds: it makes one row active
  today and reserves (`LedgerReserve`), makes one inactive and releases on the
  row's day (`LedgerRelease`), or changes neither (`LedgerKeep`). The lemma
  `ReservedTotal` relates the cardinality of the active rows to the ledger.
  `SchemaChecks` is needed because the release subtracts what the row says.
- `LimitsCorrect`: `SponsorshipWithinLimits`, from `FeesAssumption` (a fee
  never exceeds the reservation). The code checks this before signing on
  eip155; on NEAR it is the operator's configuration.
- `OwnershipCorrect` and `SignerSlotCorrect`: `OwnedOnce` and `OneActiveSigner`
  are inductive relative to `RowsInv`.
- `PermanenceCorrect`: the action property `SubmissionIsPermanent`.

The assumptions are those named in `Journal`: the set of payments is finite,
the reservation is positive, and the fingerprint of a request determines its
payment and identifier.

### The NEAR engine

`JournaledBeforeBroadcast` is not inductive: a task sends what it read or wrote
several steps before. `EngineInv` adds `TasksInv`: a worker past the signature
knows its nonce, past `mark_prepared` its row has that nonce, at the broadcast
its row was marked submitted; the rows a reconcile call took for signed or
submitted are, and so is the one it is about to rebroadcast. Other tasks and
processes change the same rows in between; that they cannot make this false is
the step property behind `PermanenceCorrect` (`PermanentStep`), which applies
because the engine implements the journal (`EngineImplementsJournal`: every step
is one transaction of the store or leaves the journal alone). All this holds for
two leaders at once.

With one process:

- `Mutex`: one worker at most holds the relayer mutex, and none while a
  reconcile call runs.
- `GateInv` is why an open gate means that nothing is unresolved. An unresolved
  row is in the hands of the worker that holds the mutex (`UnresolvedHeld`), a
  reconcile call about to open the gate is right about it (`OpenMeansResolved`),
  a worker that has not signed does not work on a signed row (`SignsFresh`), and
  from signature to broadcast the key is active (`KeyActive`), which gives
  `QuarantineIsFinal`.
- `ChainInv` and `VerdictInv`: the verdict that a task carries to the journal
  is true already and stays true. For a failure that is `Dead`: the payment has
  not been made, and the network refuses it, or it is past its expiry, or its
  one submission is used up, or nothing was signed for it.
- `ContractKept` maps the payments made and the terminal rows to `Settlement`:
  each step is a `Transfer`, a `Report` or a stutter. `VerdictsAreTrue` is
  `OutcomeTruthful`.

### The eip155 engine

`EvmInvariants` holds the invariants and the forms of a step, `EvmStepProofs`
shows that every step has one of the forms: what it writes to the journal
(`EngineWrites`), how that changes a row (`RowMoves`), how a worker and a
reconcile call move (`WorkerMoves`, `CallMoves`). An invariant is then followed
through the few forms that disturb it, not through every action.

For any number of processes (`EngineInv`):

- `ChainInv`: what an endpoint shows deeper than `MaxReorg` is never replaced
  (`DeepIsKept`), and the transactions kept have the nonces 1, 2, .. in the order
  of their blocks (`NoncesInOrder`).
- `SentIsJournaled`: what is on its way, in a mempool or mined is the submission
  in its row.
- `LookInv` follows `reconcile_with_confirmations`. Each of its reads may be
  old when the next is made; when it decides, the transaction is `Buried`: mined
  with that result, for good. `BookedIsBuried` is the same of the journal.
- `LimitsInv`: the limits hold until the signer is quarantined. A fee above the
  reservation (`Overruns`) is outside `FeesAssumption`, so `LimitsCorrect` does not
  cover it, and `OverspendingIsQuarantined` takes its place.

With one process (`ContractInv`): `GateInv` as on NEAR, except that every broadcast
ends unresolved and the worker closes the gate. `PolicyInv`: a row is signed
under the configuration stored when it was reserved, and asks for at least its
depth, through release, resumption and restart. `DepthInv`: only the process that
reconciles raises a depth, so the depth a call works with is the row's.
`TerminalRows`: a verdict that is not the chain's is on a row that was never
signed. `ContractKept` needs that one nonce is mined once (`NonceIsUnique`, from
`NoncesInOrder`), so that a failed submission can never be followed by a paid one.
The assumption that matters is `EvmAssumption`: every configured depth is larger
than `MaxReorg`.

### NEAR provider, request, front

- `NearProviderProofs`, verification: `Established` says that what the checks passed so far have
  found holds of the pinned block; the block does not change, and it is given
  up only when an attempt starts over. `RefusalHasCause` assumes `BoundsFit`: where
  `saturating_mul` would cut the nonce bound off, the largest u64 nonce is
  refused although the chain would take it.
- `NearProviderProofs`, verdict: `Shows` says what an endpoint may leave out of an
  execution, and that where it has an outcome of a receipt it has the chain's.
  `Walked` says that nothing below a visited receipt is forgotten and that the
  visited have run. `Reachable` is the least closed set, so when the queue is empty
  the visited receipts contain it (`WalkedIsWhole`): no induction along the graph is
  needed. `SuccessesAreWhole` gives `SuccessMeansSettled` but for its last part, that
  no receipt lies below itself. `ReceiptAssumption` types the executions and says
  that one of which an endpoint shows a part has one outcome of each receipt;
  `by_id` refuses the others.
- `RequestProofs`, boundary: `SameRequest` says that two bodies that are served,
  of either dialect, are parsed to the same value exactly when they ask for the
  same (`Meaning`). From left to right no field that counts is dropped, from right
  to left none of what v1 carries besides gets in. The fingerprint is the parsed
  value, so the lookup decides by `Meaning`; `BoundaryInv` adds that a row is the
  row of a body that was served and that a client has one row per identifier.
  `BodiesAssumption` is what JSON is here: an object is a function of its keys, and
  an absent key is no value.
- `RequestProofs`, eip155 payment: `SubmissionInv` says for each step of handler, worker and
  recovery what is known of the row, the bytes, the broadcast transaction, its
  cost and the booking. `HardStopHolds` is the chain of bounds from the fee
  envelope over the reservation to the balance. `OwnBytesRecover` assumes
  `OneSigner`, that the valid files name one signing key; `EvmSignerReplaced` shows
  what happens otherwise. `SubmissionAssumption` only types the constants.
- `VerifyFrontProofs`: a key is drawn once (`DrawnKeys`), so a dead key stays dead.
  A permit belongs to one request being verified (`SlotsInv`). A fixed window
  counts what went through since it opened (`RateInv`): two windows touch a
  minute at most, and the second one opens with a request, hence 2 * limit - 1.
  `admitted` is the history that the bound is about.

### Model-checked only

- Liveness (`SubmissionResolves`, `WorkedReservationResolves`,
  `ClosedGateReleases`, `Answered`): it rests on fairness, which is beyond the
  prover.
- `ReceiptGraph`: that an accepted graph has no cycle and that a settled one is
  accepted. Both rest on the sort, a fold that counts edges, and need induction
  over it.
- That `EvmEngine` implements `Journal`: it does not where a fee exceeds the
  reservation, since `Fees` bounds what the journal books.

## Not modelled

- The single queries of `claim_settlement` and `resume_awaiting_retry`, and what
  the loser of a race is told; the migrations and the scrubbing of old rows.
- What the readiness refresh reads of the chain: its result is a free choice in
  the engines. `ReadinessFailureTracker` and telemetry only choose what is
  logged.
- `validate_near`, bootstrap and catalog: read once, before anything runs. The
  admin commands that generate keys or run `reconcile` offline.
- Bytes: borsh, RLP, base64, JSON text, signatures, digests. They are injective
  in the models, and what fails to decode is one flaw.
- The example servers, deployment scripts, fuzz targets and vendored
  cryptography. They are not part of the running facilitator.
