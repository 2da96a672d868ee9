------------------------------ MODULE EvmEngine ------------------------------
(***************************************************************************)
(* The settlement engine on an eip155 chain: Engine, settle_prepared_evm,  *)
(* reconcile_prepared_evm, the eip155 provider's evidence rules, and a     *)
(* chain with a mempool, reorganisations and two RPC endpoints that each   *)
(* follow it at their own pace.                                            *)
(***************************************************************************)
EXTENDS Engine, EvmEvidence

CONSTANTS
  Policies,   \* eip155 configurations: depth, and the gas and fee caps
  NoPolicy,
  Expiry,     \* valid_before of the authorizations, as a block height
  MaxReorg,   \* most blocks a reorganisation replaces
  Overruns    \* fees above the reservation that a receipt may show

\* The configured depth is the operator's reorg margin.
ASSUME EvmAssumption ==
  /\ Evm = TRUE
  /\ Expiry \in Nat
  /\ MaxReorg \in Nat
  /\ \A c \in Policies : c.depth \in Depths /\ c.depth > MaxReorg
  /\ Overruns \subseteq Nat /\ \A fee \in Overruns : fee > Reservation

VARIABLES
  net,       \* transactions in requests that no node has received yet
  pool,      \* transactions in some node's mempool
  mined,     \* transactions in blocks, also in blocks that were replaced
  tip,       \* height of the chain
  fork,      \* number of reorganisations so far
  ep,        \* the fork and height each RPC endpoint shows
  policy,    \* the configuration each process runs with
  snapshot,  \* policy_snapshot column: the configuration at admission
  signed,    \* the configuration whose caps the stored bytes were signed with
  look       \* reconcile_with_confirmations of each process

chain == <<net, pool, mined, tip, fork, ep>>
settings == <<policy, snapshot, signed>>
vars == <<evars, chain, settings, look>>

Endpoints == {"primary", "backup"}

\* The signed transaction of a row, and one of another holder of the key.
Submission(h) == [hash |-> h, nonce |-> rows[h].nonce]
Foreign(nonce) == [hash |-> NoHash, nonce |-> nonce]

-----------------------------------------------------------------------------
(* The chain.  A mined transaction is on every fork from the one of its    *)
(* block up to the one that replaced it; the fork stands for block hashes. *)

\* Later than every fork a run reaches.
Never == MaxFaults + 1

ChainInit ==
  /\ net = {}
  /\ pool = {}
  /\ mined = {}
  /\ tip = 0
  /\ fork = 0
  /\ ep = [e \in Endpoints |-> [fork |-> 0, height |-> 0]]

On(m, view) == m.fork <= view.fork /\ view.fork < m.until /\ m.number <= view.height
ChainAt(view) == {m \in mined : On(m, view)}
Canonical == ChainAt([fork |-> fork, height |-> tip])

\* Nonces start at 1 here: 0 stands for NULL in the journal.
AccountNonce(view) == Cardinality(ChainAt(view)) + 1
PendingNonce(view, known) ==
  CHOOSE n \in AccountNonce(view)..(AccountNonce(view) + Cardinality(known)) :
    /\ n \notin {t.nonce : t \in known}
    /\ \A k \in AccountNonce(view)..(n - 1) : k \in {t.nonce : t \in known}

NextUnused == AccountNonce([fork |-> fork, height |-> tip])

Paid(h) == \E m \in Canonical : m.tx.hash = h /\ m.ok

\* The next block takes up a transaction of the mempool.  The authorization is
\* good for one transfer, up to its expiry.
Mine(t, ok) ==
  /\ t \in pool
  /\ t.nonce = NextUnused
  /\ ok => tip + 1 <= Expiry /\ ~Paid(t.hash)
  /\ mined' = mined \cup {[tx |-> t, ok |-> ok, number |-> tip + 1, fork |-> fork, until |-> Never]}
  /\ tip' = tip + 1
  /\ pool' = pool \ {t}
  /\ UNCHANGED <<evars, settings, look, net, fork, ep>>

\* Another holder of the signer key uses its next nonce.
MineForeign ==
  /\ NextUnused \in Nonces
  /\ mined' = mined \cup
       {[tx |-> Foreign(NextUnused), ok |-> TRUE, number |-> tip + 1, fork |-> fork, until |-> Never]}
  /\ tip' = tip + 1
  /\ pool' = {t \in pool : t.nonce # NextUnused}
  /\ Fault("foreign")
  /\ UNCHANGED <<jvars, gate, leader, worker, handler, rc, settings, look, net, fork, ep>>

\* A block without a transaction of the signer.  Blocks that neither confirm
\* one nor bring an expiry closer change nothing and are left out.
DeepestDepth == CHOOSE d \in Depths : \A c \in Depths : c <= d
MineEmpty ==
  /\ \/ tip < Expiry
     \/ \E m \in Canonical : tip - m.number + 1 < DeepestDepth
  /\ tip' = tip + 1
  /\ UNCHANGED <<evars, settings, look, net, pool, mined, fork, ep>>

\* The last `depth` blocks are replaced; their transactions go back to the
\* mempool or are forgotten.
Reorg(depth) ==
  LET gone == {m \in Canonical : m.number > tip - depth}
  IN  /\ gone # {}
      /\ fork' = fork + 1
      /\ mined' = {IF m \in gone THEN [m EXCEPT !.until = fork + 1] ELSE m : m \in mined}
      /\ pool' \in {pool, pool \cup {m.tx : m \in gone}}
      /\ Fault("reorg")
      /\ UNCHANGED <<jvars, gate, leader, worker, handler, rc, settings, look, net, tip, ep>>

\* A request arrives, however late; a node drops what can no longer be mined.
Deliver(t) ==
  /\ t \in net
  /\ net' = net \ {t}
  /\ pool' = IF t.nonce >= NextUnused THEN pool \cup {t} ELSE pool
  /\ UNCHANGED <<evars, settings, look, mined, tip, fork, ep>>

\* A request is lost, or every mempool evicts the transaction.
Lose(t) ==
  /\ t \in net \cup pool
  /\ net' = net \ {t}
  /\ pool' = pool \ {t}
  /\ Fault("lose")
  /\ UNCHANGED <<jvars, gate, leader, worker, handler, rc, settings, look, mined, tip, fork, ep>>

\* An endpoint catches up, part of the way or to the tip.
Sync(e) ==
  /\ \E height \in ep[e].height..tip :
       /\ [fork |-> fork, height |-> height] # ep[e]
       /\ ep' = [ep EXCEPT ![e] = [fork |-> fork, height |-> height]]
  /\ UNCHANGED <<evars, settings, look, net, pool, mined, tip, fork>>

-----------------------------------------------------------------------------
(* What one endpoint answers, from the chain it shows and the part of the  *)
(* mempool it knows, and what the provider makes of both answers.          *)

Facts(m) == [number |-> m.number, hash |-> m.fork, ok |-> m.ok]
Known == SUBSET pool

\* transaction_receipt
ReceiptAt(e, t) ==
  LET found == {m \in ChainAt(ep[e]) : m.tx = t}
  IN  IF found = {} THEN UnknownReceipt
      ELSE MinedReceipt(Facts(CHOOSE m \in found : TRUE))

\* transaction_observation
TransactionAt(e, t, known) ==
  LET found == {m \in ChainAt(ep[e]) : m.tx = t}
  IN  IF found # {} THEN LET m == CHOOSE m \in found : TRUE IN MinedTx(t.nonce, m.number, m.fork)
      ELSE IF t \in known THEN PendingTx(t.nonce)
      ELSE MissingTx

\* endpoint_head_once; the balance is left to Fault("funds").
HeadAt(e, known) ==
  [kind |-> "head", chainId |-> 1, nonce |-> PendingNonce(ep[e], known),
   block |-> ep[e].height, balance |-> 0]

Receipts(t) == MergeReceipts(ReceiptAt("primary", t), ReceiptAt("backup", t))
Transactions(t) ==
  {MergeTransactions(TransactionAt("primary", t, k1), TransactionAt("backup", t, k2)) :
     k1 \in Known, k2 \in Known}
Heads == {MergeHeads(1, HeadAt("primary", k1), HeadAt("backup", k2)) : k1 \in Known, k2 \in Known}
SignerNonces == {head.nonce : head \in {h \in Heads : ~IsError(h)}}
HeadsDisagree == \E head \in Heads : IsError(head)

\* safe_block_number
SafeBlockNumber == Smaller(ep["primary"].height, ep["backup"].height)

-----------------------------------------------------------------------------
(* run_new_settlement from the signature on: settle_prepared_evm.          *)

SetGates(p, ready, closes) ==
  gate' = [gate EXCEPT ![p].relayer = ready, ![p].reconciliation = @ /\ ~closes]

\* fresh_signer_head fails: the endpoints disagree or one is down, the policy
\* row is not active or cannot be read, the balance is below the hard stop.
SignerHeadFails(p, closes) ==
  \/ HeadsDisagree /\ SetGates(p, FALSE, closes) /\ NoFault
  \/ relayer # "active" /\ SetGates(p, FALSE, closes) /\ NoFault
  \/ SetGates(p, FALSE, closes) /\ (Fault("rpc") \/ Fault("funds"))
  \/ SetGates(p, gate[p].relayer, closes) /\ Fault("store")

\* Sign for the pending nonce.  The fee envelope, the L1 estimate and the
\* liability check may each hand the payment back for a retry.
WorkerSign(w) ==
  LET p == worker[w].proc
  IN  /\ At(w, "sign")
      /\ \/ \E nonce \in SignerNonces \cap Nonces :
              /\ relayer = "active"
              /\ SetGates(p, TRUE, FALSE)
              /\ \/ worker' = [worker EXCEPT ![w].pc = "prepare", ![w].nonce = nonce] /\ NoFault
                 \/ Goto(w, "retry") /\ Fault("fees")
         \/ Goto(w, "retry") /\ SignerHeadFails(p, FALSE)
      /\ UNCHANGED <<jvars, leader, handler, rc, chain, settings, look>>

\* A journal write, then can_settle: go on, or fail closed and end.
WorkerStore(w, guard, Op, next) ==
  LET p == worker[w].proc
      stop == EndWorker(w) /\ FailClosed(p)
  IN  /\ StoreCall(guard, Op, IF CanSettle(p) THEN Goto(w, next) /\ UNCHANGED gate ELSE stop, stop)
      /\ UNCHANGED <<leader, handler, rc, chain, look>>

\* mark_prepared_evm stores the bytes and the configured depth.
WorkerPrepare(w) ==
  LET h == worker[w].hash
      n == worker[w].nonce
      c == policy[worker[w].proc]
  IN  /\ At(w, "prepare")
      /\ WorkerStore(w, rows[h].state = "reserved" /\ NonceIsFree(h, n),
                     MarkPrepared(h, n, c.depth), "submit")
      /\ signed' = IF rows' # rows THEN [signed EXCEPT ![h] = c] ELSE signed
      /\ UNCHANGED <<policy, snapshot>>

WorkerSubmit(w) ==
  /\ At(w, "submit")
  /\ WorkerStore(w, rows[worker[w].hash].state = "prepared", MarkSubmitted(worker[w].hash), "recheck")
  /\ UNCHANGED settings

Send(t) == net' = net \cup {t}
KeepChain == UNCHANGED <<pool, mined, tip, fork, ep>>

\* The pending nonce again: another one quarantines the signer, the same one
\* and can_settle are directly followed by the broadcast.
WorkerSend(w) ==
  LET p == worker[w].proc
  IN  /\ At(w, "recheck")
      /\ \/ \E nonce \in SignerNonces :
              /\ relayer = "active"
              /\ NoFault
              /\ IF nonce # worker[w].nonce
                 THEN Goto(w, "quarantine") /\ SetGates(p, TRUE, FALSE) /\ UNCHANGED net
                 ELSE IF gate[p].leadership /\ gate[p].reconciliation /\ gate[p].rpc
                 THEN /\ Goto(w, "await")
                      /\ SetGates(p, TRUE, FALSE)
                      /\ Send([hash |-> worker[w].hash, nonce |-> nonce])
                 ELSE EndWorker(w) /\ SetGates(p, TRUE, TRUE) /\ UNCHANGED net
         \/ EndWorker(w) /\ SignerHeadFails(p, TRUE) /\ UNCHANGED net
      /\ UNCHANGED <<jvars, leader, handler, rc, settings, look>>
      /\ KeepChain

\* The gates close whether or not the quarantine could be stored.
WorkerQuarantine(w) ==
  /\ At(w, "quarantine")
  /\ StoreCall(TRUE, QuarantineRelayer, TRUE, TRUE)
  /\ SetGates(worker[w].proc, FALSE, TRUE)
  /\ EndWorker(w)
  /\ UNCHANGED <<leader, handler, rc, chain, settings, look>>

\* Plausible bug: an indeterminate broadcast does not start reconciliation.
WorkerAwait_KeepGate(w) ==
  /\ At(w, "await")
  /\ EndWorker(w)
  /\ UNCHANGED <<jvars, gate, leader, handler, rc, faults, chain, settings, look>>

\* broadcast_raw is Pending whether the node accepted, refused or never
\* answered: the outcome is left to reconciliation.
WorkerAwait(w) ==
  /\ At(w, "await")
  /\ EndWorker(w)
  /\ FailClosed(worker[w].proc)
  /\ UNCHANGED <<jvars, leader, handler, rc, faults, chain, settings, look>>

-----------------------------------------------------------------------------
(* reconcile_prepared_evm, for the row cur.                                *)

NoLook == [step |-> "raise", required |-> 0, first |-> UnknownReceipt, tx |-> MissingTx,
           head |-> 0, confirmations |-> 0, fee |-> 0]

RGoto(p, pc) == SetRc(p, "pc", pc)
Looking(p, step) == rc[p].pc = "status" /\ look[p].step = step
Forget(p) == look' = [look EXCEPT ![p] = NoLook]
Fail(p) == EndReconcile(p) /\ Forget(p)

\* evm_policy_snapshot and validate_stored_submission: what was signed obeys
\* the caps in force when the payment was admitted.
AcceptsBytes(h) == signed[h].caps = snapshot[h].caps

\* Plausible bug: the depth asked for is the configured one, not the row's.
ReconcileRaise_Configured(p) ==
  LET h == rc[p].cur
  IN  /\ Looking(p, "raise")
      /\ StoreCall(rows[h].state \in {"prepared", "submitted"},
           RaiseRequiredConfirmations(h, policy[p].depth),
           IF rows'[h].depth < snapshot[h].depth THEN Fail(p) /\ UNCHANGED gate
           ELSE IF ~AcceptsBytes(h) THEN Fail(p) /\ SetGates(p, FALSE, FALSE)
           ELSE /\ look' = [look EXCEPT ![p] = [NoLook EXCEPT !.step = "read", !.required = policy[p].depth]]
                /\ UNCHANGED <<rc, gate>>,
           Fail(p) /\ UNCHANGED gate)
      /\ UNCHANGED <<leader, worker, handler, chain, settings>>

\* raise_required_confirmations with the configured depth, then the checks of
\* the stored row against its admission policy.
ReconcileRaise(p) ==
  LET h == rc[p].cur
  IN  /\ Looking(p, "raise")
      /\ StoreCall(rows[h].state \in {"prepared", "submitted"},
           RaiseRequiredConfirmations(h, policy[p].depth),
           IF rows'[h].depth < snapshot[h].depth THEN Fail(p) /\ UNCHANGED gate
           ELSE IF ~AcceptsBytes(h) THEN Fail(p) /\ SetGates(p, FALSE, FALSE)
           ELSE /\ look' = [look EXCEPT ![p] = [NoLook EXCEPT !.step = "read", !.required = rows'[h].depth]]
                /\ UNCHANGED <<rc, gate>>,
           Fail(p) /\ UNCHANGED gate)
      /\ UNCHANGED <<leader, worker, handler, chain, settings>>

\* An endpoint fails or the two disagree: Ambiguous.
Ambiguous(p) == Fail(p) /\ FailClosed(p)

\* Both endpoints are asked for the receipt and for the transaction.
ReconcileRead(p) ==
  LET t == Submission(rc[p].cur)
      first == Receipts(t)
  IN  /\ Looking(p, "read")
      /\ \/ \E tx \in Transactions(t) :
              IF IsError(first) \/ IsError(tx)
              THEN Ambiguous(p) /\ NoFault
              ELSE /\ look' = [look EXCEPT ![p] = [@ EXCEPT !.step = "head", !.first = first, !.tx = tx]]
                   /\ UNCHANGED <<rc, gate>>
                   /\ NoFault
         \/ Ambiguous(p) /\ Fault("rpc")
      /\ UNCHANGED <<jvars, leader, worker, handler, chain, settings>>

\* Then for their heads.
ReconcileHead(p) ==
  /\ Looking(p, "head")
  /\ \/ /\ look' = [look EXCEPT ![p] = [@ EXCEPT !.step = "again", !.head = SafeBlockNumber]]
        /\ UNCHANGED <<rc, gate>>
        /\ NoFault
     \/ Ambiguous(p) /\ Fault("rpc")
  /\ UNCHANGED <<jvars, leader, worker, handler, chain, settings>>

\* Then, when it was mined, for the receipt again; and the verdict.
ReconcileVerdict(p) ==
  LET l == look[p]
      again == IF l.first.kind = "mined" THEN Receipts(Submission(rc[p].cur)) ELSE l.first
      verdict == ClassifyReconciliation(l.first, l.tx, again, l.head, l.required)
  IN  /\ Looking(p, "again")
      /\ \/ /\ NoFault
            /\ IF IsError(again) \/ verdict.kind = "error" THEN Ambiguous(p)
               ELSE \/ verdict.kind = "pending" /\ RGoto(p, "pending") /\ Forget(p) /\ UNCHANGED gate
                    \/ verdict.kind = "unknown" /\ RGoto(p, "resubmit") /\ Forget(p) /\ UNCHANGED gate
                    \/ /\ verdict.kind = "terminal"
                       /\ RGoto(p, IF verdict.facts.ok THEN "success" ELSE "transaction_failed")
                       /\ \E fee \in Fees \cup Overruns :
                            look' = [look EXCEPT ![p] = [NoLook EXCEPT !.fee = fee,
                              !.step = IF fee > rows[rc[p].cur].reserved THEN "overrun" ELSE "book",
                              !.confirmations = verdict.confirmations]]
                       /\ UNCHANGED gate
         \/ l.first.kind = "mined" /\ Ambiguous(p) /\ Fault("rpc")
      /\ UNCHANGED <<jvars, leader, worker, handler, chain, settings>>

\* Pending: nothing is decided and the row is read again.
ReconcilePending(p) ==
  /\ rc[p].pc \in {"pending", "await"}
  /\ UNCHANGED <<jvars, gate, leader, worker, handler, faults, chain, settings, look>>
  /\ Proceed(p)

\* Plausible bug: the overrun is booked before the signer is quarantined.
ReconcileOverrun_BookFirst(p) ==
  /\ rc[p].pc \in {"success", "transaction_failed"}
  /\ look[p].step = "overrun"
  /\ look' = [look EXCEPT ![p].step = "book"]
  /\ SetGates(p, FALSE, TRUE)
  /\ UNCHANGED <<jvars, faults, rc, leader, worker, handler, chain, settings>>

\* A fee above the reservation closes the gates and quarantines the signer.
ReconcileOverrun(p) ==
  /\ rc[p].pc \in {"success", "transaction_failed"}
  /\ look[p].step = "overrun"
  /\ StoreCall(TRUE, QuarantineRelayer, look' = [look EXCEPT ![p].step = "book"] /\ UNCHANGED rc, Fail(p))
  /\ SetGates(p, FALSE, TRUE)
  /\ UNCHANGED <<leader, worker, handler, chain, settings>>

\* finalize_reconciled_terminal; after an overrun it reports an error.
ReconcileBook(p, response) ==
  LET h == rc[p].cur
      done == IF look[p].fee > rows[h].reserved THEN EndReconcile(p) ELSE Proceed(p)
  IN  /\ rc[p].pc = response
      /\ look[p].step = "book"
      /\ \/ StoreCall(TerminalRepeats(h, response)
                        \/ (TerminalAllowed(h, response, look[p].confirmations) /\ Releasable(h)),
                      MarkTerminal(h, response, look[p].fee, look[p].confirmations),
                      done, EndReconcile(p))
         \/ TerminalRepeats(h, response) /\ UNCHANGED jvars /\ done /\ NoFault
      /\ Forget(p)
      /\ UNCHANGED <<gate, leader, worker, handler, chain, settings>>

\* Unknown: a prepared row becomes submitted before its bytes are sent.
ReconcileResubmit(p) ==
  LET h == rc[p].cur
      next == IF CanReconciliationBroadcast(p) THEN RGoto(p, "reheads") ELSE EndReconcile(p)
  IN  /\ rc[p].pc = "resubmit"
      /\ IF h \in rc[p].prepared
         THEN StoreCall(rows[h].state = "prepared", MarkSubmitted(h), next, EndReconcile(p))
         ELSE next /\ UNCHANGED jvars /\ NoFault
      /\ UNCHANGED <<gate, leader, worker, handler, chain, settings, look>>

\* Plausible bug: an unknown transaction is only waited for.
ReconcileRebroadcast_Wait(p) ==
  /\ rc[p].pc = "reheads"
  /\ RGoto(p, "await")
  /\ UNCHANGED <<jvars, gate, leader, worker, handler, faults, chain, settings, look>>

\* The signer's head and balance; a nonce that advanced quarantines the signer,
\* one that went back is an error, the same one is followed by the rebroadcast.
ReconcileRebroadcast(p) ==
  LET n == rows[rc[p].cur].nonce
      fails == EndReconcile(p) /\ UNCHANGED net
  IN  /\ rc[p].pc = "reheads"
      /\ \/ \E nonce \in SignerNonces :
              /\ relayer = "active"
              /\ \/ SetGates(p, FALSE, TRUE) /\ fails /\ Fault("funds")
                 \/ nonce > n /\ SetGates(p, TRUE, FALSE) /\ RGoto(p, "quarantine") /\ UNCHANGED net /\ NoFault
                 \/ nonce < n /\ SetGates(p, TRUE, TRUE) /\ fails /\ NoFault
                 \/ /\ nonce = n
                    /\ SetGates(p, TRUE, FALSE)
                    /\ IF gate[p].leadership /\ gate[p].rpc
                       THEN RGoto(p, "await") /\ Send(Submission(rc[p].cur))
                       ELSE fails
                    /\ NoFault
         \/ fails /\ SignerHeadFails(p, FALSE)
      /\ UNCHANGED <<jvars, leader, worker, handler, settings, look>>
      /\ KeepChain

ReconcileQuarantine(p) ==
  /\ rc[p].pc = "quarantine"
  /\ StoreCall(TRUE, QuarantineRelayer, SetGates(p, FALSE, TRUE), UNCHANGED gate)
  /\ EndReconcile(p)
  /\ UNCHANGED <<leader, worker, handler, chain, settings, look>>

-----------------------------------------------------------------------------

Init ==
  /\ EngineInit
  /\ ChainInit
  /\ policy \in [Procs -> Policies]
  /\ snapshot = [h \in Hashes |-> NoPolicy]
  /\ signed = [h \in Hashes |-> NoPolicy]
  /\ look = [p \in Procs |-> NoLook]

ChainStep ==
  \/ \E t \in pool, ok \in BOOLEAN : Mine(t, ok)
  \/ MineEmpty
  \/ \E t \in net : Deliver(t)

\* One head snapshot decides both gates.
Refresh(p) ==
  /\ \/ RefreshReadiness(p) /\ (gate'[p].relayer => gate'[p].rpc)
     \/ /\ HeadsDisagree
        /\ gate' = [gate EXCEPT ![p].rpc = FALSE, ![p].relayer = FALSE]
        /\ UNCHANGED <<jvars, leader, worker, handler, rc, faults>>
  /\ UNCHANGED <<chain, settings, look>>

\* A process that starts again may have been given another configuration.
Restart(p) ==
  /\ Crash(p)
  /\ Forget(p)
  /\ \E c \in Policies : policy' = [policy EXCEPT ![p] = c]
  /\ UNCHANGED <<chain, snapshot, signed>>

ProcessStep(p) ==
  \/ /\ \/ AcquireLeadership(p)
        \/ LoseSession(p)
        \/ HeartbeatFails(p)
        \/ \E x \in Handlers, r \in Requests : Admit(x, p, r)
     /\ UNCHANGED <<chain, settings, look>>
  \/ Refresh(p)
  \/ Restart(p)

\* Plausible bug: only the first admission stores the configuration.
TakeSnapshot_Once(p) ==
  snapshot' = [h \in Hashes |->
    IF snapshot[h] = NoPolicy /\ rows'[h].state = "reserved" THEN policy[p] ELSE snapshot[h]]

\* A claim stores the configuration it was admitted under, and so does a resume.
TakeSnapshot(p) ==
  snapshot' = [h \in Hashes |->
    IF rows[h].state # "reserved" /\ rows'[h].state = "reserved" THEN policy[p] ELSE snapshot[h]]

HandlerStep(x) ==
  /\ Claim(x) \/ Resume(x)
  /\ TakeSnapshot(handler[x].proc)
  /\ UNCHANGED <<chain, policy, signed, look>>

WorkerStep(w) ==
  \/ /\ \/ WorkerLock(w)
        \/ WorkerVerify(w)
        \/ WorkerRetry(w)
        \/ WorkerTerminalize(w, "protocol_failure")
     /\ UNCHANGED <<chain, settings, look>>
  \/ WorkerSign(w)
  \/ WorkerPrepare(w)
  \/ WorkerSubmit(w)
  \/ WorkerSend(w)
  \/ WorkerQuarantine(w)
  \/ WorkerAwait(w)

ReconcileStep(p) ==
  \/ /\ \/ ReconcileBegin(p)
        \/ ReconcileScan(p)
        \/ ReconcileRelease(p)
        \/ ReconcileNext(p)
        \/ ReconcileRemaining(p)
        \/ ReconcileOpen(p)
     /\ UNCHANGED <<chain, settings, look>>
  \/ ReconcileAbort(p) /\ Forget(p) /\ UNCHANGED <<chain, settings>>
  \/ ReconcileRaise(p)
  \/ ReconcileRead(p)
  \/ ReconcileHead(p)
  \/ ReconcileVerdict(p)
  \/ ReconcilePending(p)
  \/ ReconcileOverrun(p)
  \/ \E response \in {"success", "transaction_failed"} : ReconcileBook(p, response)
  \/ ReconcileResubmit(p)
  \/ ReconcileRebroadcast(p)
  \/ ReconcileQuarantine(p)

Next ==
  \/ ChainStep
  \/ MineForeign
  \/ \E depth \in 1..MaxReorg : Reorg(depth)
  \/ \E t \in net \cup pool : Lose(t)
  \/ \E e \in Endpoints : Sync(e)
  \/ \E p \in Procs : ProcessStep(p) \/ ReconcileStep(p)
  \/ \E x \in Handlers : HandlerStep(x)
  \/ \E w \in Workers : WorkerStep(w)

Spec == Init /\ [][Next]_vars

\* As for NEAR: tasks go on, waiting tasks get the mutex, the loops run for
\* ever.  Requests arrive or are lost, blocks are produced and take up what
\* the mempool holds, and the endpoints follow the chain.
Fairness ==
  /\ WF_vars(\E t \in net : Deliver(t))
  /\ WF_vars(\E t \in pool, ok \in BOOLEAN : Mine(t, ok))
  /\ WF_vars(MineEmpty)
  /\ \A e \in Endpoints : WF_vars(Sync(e))
  /\ \A p \in Procs :
       /\ WF_vars(AcquireLeadership(p) /\ UNCHANGED <<chain, settings, look>>)
       /\ WF_vars(HeartbeatFails(p) /\ UNCHANGED <<chain, settings, look>>)
       /\ WF_vars(Refresh(p))
       /\ WF_vars(ReconcileStep(p))
       /\ SF_vars(ReconcileScan(p) /\ UNCHANGED <<chain, settings, look>>)
  /\ \A w \in Workers :
       /\ WF_vars(WorkerStep(w))
       /\ SF_vars(WorkerLock(w) /\ UNCHANGED <<chain, settings, look>>)

FairSpec == Spec /\ Fairness

-----------------------------------------------------------------------------
(* Properties.                                                             *)

\* A verdict of the chain is recorded only once its transaction lies as deep as
\* the row requires on the chain that survives: neither a lagging endpoint, a
\* reorganisation between two reads, nor a lowered configuration gets a
\* shallower one recorded (reconcile_with_confirmations).
TerminalIsBuried ==
  \A h \in Hashes :
    rows[h].response \in {"success", "transaction_failed"} =>
      \E m \in Canonical :
        /\ m.tx = Submission(h)
        /\ m.ok = (rows[h].response = "success")
        /\ tip - m.number + 1 >= rows[h].depth

\* The facilitator keeps its promise to its callers also across
\* reorganisations, when only transfers too deep to be undone count as paid.
Contract == INSTANCE Settlement WITH
  Payments <- Hashes,
  paid <- {h \in Hashes : \E m \in Canonical : m.tx.hash = h /\ m.ok /\ tip - m.number >= MaxReorg},
  verdict <- [h \in Hashes |-> IF rows[h].state \in Terminal THEN rows[h].state ELSE "none"]
KeepsContract == Contract!Spec

\* The bytes in the journal pass the checks recovery makes on them, whatever
\* the configuration was when the payment was admitted, released, taken up
\* again and signed: a restart with other caps strands no transaction.
RecoveryAcceptsOwnBytes ==
  \A h \in Hashes :
    rows[h].state \in {"prepared", "submitted"} =>
      AcceptsBytes(h) /\ rows[h].depth >= snapshot[h].depth

\* The daily budget is exceeded only by a fee above its reservation, and then
\* the signer is already quarantined (finalize_reconciled_terminal).
OverspentOnlyInQuarantine ==
  \A d \in Days :
    globalUsage[d].reserved + globalUsage[d].spent > GlobalLimit => relayer = "quarantined"

\* While the reconciliation gate is open and the mutex free, no transaction is
\* unresolved, although on eip155 every broadcast ends unresolved.
GateSound ==
  \A p \in Procs :
    gate[p].reconciliation /\ LockFree(p) => RowsIn({"prepared", "submitted"}) = {}

\* Another holder of the signer key used one of its nonces.
ForeignNonceUsed == \E m \in mined : m.tx.hash = NoHash

\* What the eip155 design says of an unknown transaction whose nonce is used up:
\* one serialized signer makes it unreachable.  The status and the nonce are
\* read at different times, and the signer's own transaction arriving in
\* between quarantines it.
QuarantineMeansForeignNonce ==
  relayer = "quarantined" => ForeignNonceUsed

\* What the recovery rules say of a rebroadcast: the stored bytes are sent again
\* only while the authorization is valid.  reconcile_prepared_evm does not look
\* at the expiry.
RebroadcastWhileValid ==
  [][\A p \in Procs : rc[p].pc = "reheads" /\ rc'[p].pc = "await" => tip < Expiry]_vars

\* Every signed settlement is resolved, or the signer quarantined, although
\* requests get lost, mempools evict and reorganisations undo: the exact bytes
\* are sent again until they are buried.
SubmissionResolves ==
  \A h \in Hashes :
    rows[h].state \in {"prepared", "submitted"} ~>
      rows[h].state \in Terminal \/ relayer = "quarantined"

=============================================================================
