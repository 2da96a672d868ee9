----------------------------- MODULE NearEngine ------------------------------
(***************************************************************************)
(* The settlement engine on NEAR: Engine, the NEAR half of                 *)
(* run_new_settlement, reconcile_prepared, and the NEAR chain as the two   *)
(* RPC endpoints show it.                                                  *)
(***************************************************************************)
EXTENDS Engine

CONSTANTS
  Expiry,        \* max_block_height of the delegate actions
  Unacceptable,  \* payments whose outer transaction the network refuses
  MaxHeight,     \* bound: blocks
  MaxLag         \* bound: blocks an RPC endpoint's final view lags behind

ASSUME NearAssumption ==
  /\ Evm = FALSE
  /\ Expiry \in Nat
  /\ Unacceptable \subseteq Hashes
  /\ MaxHeight \in Nat
  /\ MaxLag \in Nat

VARIABLES
  net,      \* submissions handed to an RPC endpoint: payment and outer nonce
  final,    \* final execution outcomes: submission, success, block height
  height,   \* final block height
  nonceAt   \* access-key nonce of the relayer as of each final block

chain == <<net, final, height, nonceAt>>
vars == <<evars, chain>>

Submission(h) == [hash |-> h, nonce |-> rows[h].nonce]

-----------------------------------------------------------------------------
(* The chain.  A submission stays in net for good: a request may be        *)
(* delivered late, and a block may or may not take it up.                  *)

ChainInit ==
  /\ net = {}
  /\ final = {}
  /\ height = 0
  /\ nonceAt = [b \in 0..MaxHeight |-> 0]

NextBlock(nonce) ==
  /\ height < MaxHeight
  /\ height' = height + 1
  /\ nonceAt' = [b \in 0..MaxHeight |-> IF b > height THEN nonce ELSE nonceAt[b]]
  /\ UNCHANGED <<evars, net>>

PaidBy(t) == \E o \in final : o.tx = t /\ o.ok
Paid(h) == \E o \in final : o.tx.hash = h /\ o.ok

\* A block takes up a submission: its nonce is above the key's, and the inner
\* transfer can succeed once and only up to the expiry height.
MineSubmission(t, ok) ==
  /\ t \in net
  /\ t.hash \notin Unacceptable
  /\ t.nonce > nonceAt[height]
  /\ ok => height + 1 <= Expiry /\ ~Paid(t.hash)
  /\ final' = final \cup {[tx |-> t, ok |-> ok, at |-> height + 1]}
  /\ NextBlock(t.nonce)

\* Another holder of the relayer key uses its next nonce.
MineForeign ==
  /\ nonceAt[height] + 1 \in Nonces
  /\ final' = final
  /\ height < MaxHeight
  /\ height' = height + 1
  /\ nonceAt' = [b \in 0..MaxHeight |-> IF b > height THEN nonceAt[height] + 1 ELSE nonceAt[b]]
  /\ Fault("foreign")
  /\ UNCHANGED <<jvars, gate, leader, worker, handler, rc, net>>

MineEmpty == final' = final /\ NextBlock(nonceAt[height])

\* What an RPC endpoint may present as the final block.
Views == {b \in 0..height : b + MaxLag >= height}

FinalIn(t, view) == {o \in final : o.tx = t /\ o.at <= view}
Verdict(o) == IF o.ok THEN "success" ELSE "transaction_failed"

\* reconcile_status: query both endpoints.  One of them knowing the final
\* outcome is enough; otherwise the transaction is Pending or Unknown.
StatusTerminal(t) == UNION {{Verdict(o) : o \in FinalIn(t, view)} : view \in Views}
StatusOpen(t) == \E view \in Views : FinalIn(t, view) = {}

-----------------------------------------------------------------------------
(* run_new_settlement, from the signature on.                              *)

\* fresh_signer_head sets the relayer gate, except when the policy cannot be
\* read.  `closes`: the caller closes the reconciliation gate on its way out.
SetRelayer(p, ready) == gate' = [gate EXCEPT ![p].relayer = ready]
SetGates(p, ready, closes) ==
  gate' = [gate EXCEPT ![p].relayer = ready, ![p].reconciliation = @ /\ ~closes]
SignerHeadFails(p, closes) ==
  \/ relayer # "active" /\ SetGates(p, FALSE, closes) /\ NoFault
  \/ SetGates(p, FALSE, closes) /\ Fault("rpc")
  \/ SetGates(p, gate[p].relayer, closes) /\ Fault("store")

\* prepare_outer_transaction: the access-key nonce of the head, plus one.
NextNonce(view) == nonceAt[view] + 1

\* Plausible bug: the relayer policy is not read before signing.
WorkerSign_NoPolicy(w) ==
  /\ At(w, "sign")
  /\ \E view \in Views :
       /\ NextNonce(view) \in Nonces
       /\ worker' = [worker EXCEPT ![w].pc = "prepare", ![w].nonce = NextNonce(view)]
  /\ SetRelayer(worker[w].proc, TRUE)
  /\ UNCHANGED <<jvars, leader, handler, rc, faults, chain>>

WorkerSign(w) ==
  LET p == worker[w].proc
  IN  /\ At(w, "sign")
      /\ \/ \E view \in Views :
              /\ relayer = "active"
              /\ NextNonce(view) \in Nonces
              /\ worker' = [worker EXCEPT ![w].pc = "prepare", ![w].nonce = NextNonce(view)]
              /\ SetRelayer(p, TRUE)
              /\ NoFault
         \/ Goto(w, "retry") /\ SignerHeadFails(p, FALSE)
      /\ UNCHANGED <<jvars, leader, handler, rc, chain>>

\* The outcomes of a journal write: go on, or fail closed and end.
WorkerStore(w, guard, Op, next) ==
  /\ StoreCall(guard, Op,
       Goto(w, next) /\ UNCHANGED gate,
       EndWorker(w) /\ FailClosed(worker[w].proc))
  /\ UNCHANGED <<leader, handler, rc, chain>>

WorkerPrepare(w) ==
  LET h == worker[w].hash
      n == worker[w].nonce
  IN  /\ At(w, "prepare")
      /\ WorkerStore(w, rows[h].state = "reserved" /\ NonceIsFree(h, n), MarkPrepared(h, n, 0), "recheck")

\* The nonce is read again: when it changed, the relayer is quarantined.
WorkerRecheck(w) ==
  LET p == worker[w].proc
  IN  /\ At(w, "recheck")
      /\ \/ \E view \in Views :
              /\ relayer = "active"
              /\ IF nonceAt[view] # worker[w].nonce - 1
                 THEN Goto(w, "quarantine") /\ SetRelayer(p, TRUE)
                 ELSE IF gate[p].leadership /\ gate[p].reconciliation /\ gate[p].rpc
                      THEN Goto(w, "submit") /\ SetRelayer(p, TRUE)
                      ELSE EndWorker(w) /\ SetGates(p, TRUE, TRUE)
              /\ NoFault
         \/ EndWorker(w) /\ SignerHeadFails(p, TRUE)
      /\ UNCHANGED <<jvars, leader, handler, rc, chain>>

\* The gates close whether or not the quarantine could be stored.
WorkerQuarantine(w) ==
  /\ At(w, "quarantine")
  /\ StoreCall(TRUE, QuarantineRelayer, TRUE, TRUE)
  /\ gate' = [gate EXCEPT ![worker[w].proc].relayer = FALSE, ![worker[w].proc].reconciliation = FALSE]
  /\ EndWorker(w)
  /\ UNCHANGED <<leader, handler, rc, chain>>

\* Plausible bug: the result of mark_submitted is not looked at.
WorkerSubmit_Ignore(w) ==
  /\ At(w, "submit")
  /\ StoreCall(rows[worker[w].hash].state = "prepared", MarkSubmitted(worker[w].hash), TRUE, TRUE)
  /\ Goto(w, "send")
  /\ UNCHANGED <<gate, leader, handler, rc, chain>>

WorkerSubmit(w) ==
  /\ At(w, "submit")
  /\ WorkerStore(w, rows[worker[w].hash].state = "prepared", MarkSubmitted(worker[w].hash), "send")

\* can_settle, directly followed by the broadcast of the prepared bytes.
WorkerSend(w) ==
  LET p == worker[w].proc
  IN  /\ At(w, "send")
      /\ IF CanSettle(p)
         THEN /\ net' = net \cup {[hash |-> worker[w].hash, nonce |-> worker[w].nonce]}
              /\ Goto(w, "await")
              /\ UNCHANGED gate
         ELSE EndWorker(w) /\ FailClosed(p) /\ UNCHANGED net
      /\ UNCHANGED <<jvars, leader, handler, rc, faults, final, height, nonceAt>>

\* Plausible bug: a rejection that depends on chain state counts as definitive.
Rejections_Any(t) == {"transaction_rejected"}

\* classify_invalid_transaction: only an error that no later chain state can
\* change is a rejection; the others leave the outcome open.
Rejections(t) == IF t.hash \in Unacceptable THEN {"transaction_rejected"} ELSE {}

\* broadcast and rebroadcast: the outcome of send_transaction_final.
BroadcastOutcomes(t) == StatusTerminal(t) \cup Rejections(t) \cup {"pending"}

\* Plausible bug: an indeterminate broadcast does not start reconciliation.
WorkerAwait_KeepGate(w) ==
  /\ At(w, "await")
  /\ \E outcome \in BroadcastOutcomes([hash |-> worker[w].hash, nonce |-> worker[w].nonce]) :
       IF outcome = "pending" THEN EndWorker(w) ELSE Goto(w, outcome)
  /\ UNCHANGED <<jvars, gate, leader, handler, rc, faults, chain>>

WorkerAwait(w) ==
  /\ At(w, "await")
  /\ \E outcome \in BroadcastOutcomes([hash |-> worker[w].hash, nonce |-> worker[w].nonce]) :
       IF outcome = "pending"
       THEN EndWorker(w) /\ FailClosed(worker[w].proc)
       ELSE Goto(w, outcome) /\ UNCHANGED gate
  /\ UNCHANGED <<jvars, leader, handler, rc, faults, chain>>

-----------------------------------------------------------------------------
(* reconcile_prepared, for the row cur.                                    *)

RGoto(p, pc) == SetRc(p, "pc", pc)

ReconcileStatus(p) ==
  LET t == Submission(rc[p].cur)
  IN  /\ rc[p].pc = "status"
      /\ \/ \E verdict \in StatusTerminal(t) : RGoto(p, verdict) /\ UNCHANGED gate /\ NoFault
         \/ StatusOpen(t) /\ RGoto(p, "heads") /\ UNCHANGED gate /\ NoFault
         \/ StatusOpen(t) /\ t \in net /\ RGoto(p, "pending") /\ UNCHANGED gate /\ NoFault
         \/ FailClosed(p) /\ Fault("rpc") /\ (EndReconcile(p) \/ RGoto(p, "pending"))
      /\ UNCHANGED <<jvars, leader, worker, handler, chain>>

\* Pending or Indeterminate: nothing is decided and the row is read again.
ReconcilePending(p) ==
  /\ rc[p].pc = "pending"
  /\ UNCHANGED <<jvars, gate, leader, worker, handler, faults, chain>>
  /\ Proceed(p)

\* fresh_signer_head or backup_signer_head fails, and so does reconcile.
HeadsFail(p) ==
  /\ EndReconcile(p)
  /\ \/ SignerHeadFails(p, FALSE)
     \/ relayer = "active" /\ SetRelayer(p, TRUE) /\ Fault("rpc")

ReconcileHeads(p) ==
  LET n == rows[rc[p].cur].nonce
  IN  /\ rc[p].pc = "heads"
      /\ \/ \E primary, backup \in Views :
              /\ relayer = "active"
              /\ SetRelayer(p, TRUE)
              /\ NoFault
              /\ IF nonceAt[primary] >= n \/ nonceAt[backup] >= n
                 THEN RGoto(p, "quarantine")
                 ELSE IF primary >= Expiry \/ backup >= Expiry
                 THEN RGoto(p, "protocol_failure")
                 ELSE rc' = [rc EXCEPT ![p].pc = "resubmit",
                        ![p].primary = nonceAt[primary], ![p].backup = nonceAt[backup]]
         \/ HeadsFail(p)
      /\ UNCHANGED <<jvars, leader, worker, handler, chain>>

ReconcileQuarantine(p) ==
  /\ rc[p].pc = "quarantine"
  /\ StoreCall(TRUE, QuarantineRelayer, SetRelayer(p, FALSE), UNCHANGED gate)
  /\ EndReconcile(p)
  /\ UNCHANGED <<leader, worker, handler, chain>>

\* A prepared row becomes submitted before its bytes are sent for the first time.
ReconcileResubmit(p) ==
  LET h == rc[p].cur
  IN  /\ rc[p].pc = "resubmit"
      /\ IF h \in rc[p].prepared
         THEN StoreCall(rows[h].state = "prepared", MarkSubmitted(h), RGoto(p, "check"), EndReconcile(p))
         ELSE RGoto(p, "check") /\ UNCHANGED jvars /\ NoFault
      /\ UNCHANGED <<gate, leader, worker, handler, chain>>

ReconcileCheck(p) ==
  /\ rc[p].pc = "check"
  /\ IF CanReconciliationBroadcast(p) THEN RGoto(p, "reheads") ELSE EndReconcile(p)
  /\ UNCHANGED <<jvars, gate, leader, worker, handler, faults, chain>>

\* Unchanged nonces on both endpoints, directly followed by the rebroadcast.
ReconcileRebroadcast(p) ==
  /\ rc[p].pc = "reheads"
  /\ \/ \E primary, backup \in Views :
          /\ relayer = "active"
          /\ NoFault
          /\ IF nonceAt[primary] = rc[p].primary /\ nonceAt[backup] = rc[p].backup
             THEN /\ SetRelayer(p, TRUE)
                  /\ RGoto(p, "await")
                  /\ net' = net \cup {Submission(rc[p].cur)}
             ELSE /\ SetRelayer(p, FALSE)
                  /\ EndReconcile(p)
                  /\ UNCHANGED net
     \/ HeadsFail(p) /\ UNCHANGED net
  /\ UNCHANGED <<jvars, leader, worker, handler, final, height, nonceAt>>

ReconcileAwait(p) ==
  /\ rc[p].pc = "await"
  /\ \E outcome \in BroadcastOutcomes(Submission(rc[p].cur)) : RGoto(p, outcome)
  /\ UNCHANGED <<jvars, gate, leader, worker, handler, faults, chain>>

-----------------------------------------------------------------------------

Init == EngineInit /\ ChainInit

ChainStep ==
  \/ \E t \in net, ok \in BOOLEAN : MineSubmission(t, ok)
  \/ MineForeign
  \/ MineEmpty

ProcessStep(p) ==
  /\ \/ AcquireLeadership(p)
     \/ LoseSession(p)
     \/ HeartbeatFails(p)
     \/ RefreshReadiness(p)
     \/ Crash(p)
     \/ \E x \in Handlers, r \in Requests : Admit(x, p, r)
  /\ UNCHANGED chain

HandlerStep(x) == (Claim(x) \/ Resume(x)) /\ UNCHANGED chain

WorkerStep(w) ==
  \/ /\ \/ WorkerLock(w)
        \/ WorkerVerify(w)
        \/ WorkerRetry(w)
        \/ \E response \in Responses : WorkerTerminalize(w, response)
     /\ UNCHANGED chain
  \/ WorkerSign(w)
  \/ WorkerPrepare(w)
  \/ WorkerRecheck(w)
  \/ WorkerQuarantine(w)
  \/ WorkerSubmit(w)
  \/ WorkerSend(w)
  \/ WorkerAwait(w)

ReconcileStep(p) ==
  \/ /\ \/ ReconcileBegin(p)
        \/ ReconcileScan(p)
        \/ ReconcileRelease(p)
        \/ ReconcileAbort(p)
        \/ ReconcileNext(p)
        \/ ReconcileRemaining(p)
        \/ ReconcileOpen(p)
        \/ \E response \in {"success", "transaction_failed"} : ReconcileFinalize(p, response)
        \/ \E response \in {"protocol_failure", "transaction_rejected"} : ReconcileGiveUp(p, response)
     /\ UNCHANGED chain
  \/ ReconcileStatus(p)
  \/ ReconcilePending(p)
  \/ ReconcileHeads(p)
  \/ ReconcileQuarantine(p)
  \/ ReconcileResubmit(p)
  \/ ReconcileCheck(p)
  \/ ReconcileRebroadcast(p)
  \/ ReconcileAwait(p)

Next ==
  \/ ChainStep
  \/ \E p \in Procs : ProcessStep(p) \/ ReconcileStep(p)
  \/ \E x \in Handlers : HandlerStep(x)
  \/ \E w \in Workers : WorkerStep(w)

Spec == Init /\ [][Next]_vars

\* Every task that can go on does; the mutex is a FIFO queue, so a task that
\* waits for it gets it; the leadership loop, the readiness monitor and the
\* reconcile loop run for ever; blocks are produced; and an endpoint that is
\* asked again and again does not answer from an outdated view for ever.
Fairness ==
  /\ WF_vars(ChainStep)
  /\ \A p \in Procs :
       /\ WF_vars(AcquireLeadership(p) /\ UNCHANGED chain)
       /\ WF_vars(HeartbeatFails(p) /\ UNCHANGED chain)
       /\ WF_vars(RefreshReadiness(p) /\ UNCHANGED chain)
       /\ WF_vars(ReconcileStep(p))
       /\ SF_vars(ReconcileScan(p) /\ UNCHANGED chain)
       /\ SF_vars(ReconcileStatus(p) /\ rc'[p].pc \in {"success", "transaction_failed"})
       /\ SF_vars(ReconcileStatus(p) /\ rc'[p].pc = "heads")
  /\ \A w \in Workers :
       /\ WF_vars(WorkerStep(w))
       /\ SF_vars(WorkerLock(w) /\ UNCHANGED chain)

FairSpec == Spec /\ Fairness

-----------------------------------------------------------------------------
(* Properties.                                                             *)

\* The types of the journal, of the tasks and of the chain.
TypeOK ==
  /\ JournalTypeOK
  /\ EngineTypeOK
  /\ net \subseteq [hash: Hashes, nonce: Nonces]
  /\ final \subseteq [tx: net, ok: BOOLEAN, at: 1..MaxHeight]
  /\ height \in 0..MaxHeight
  /\ nonceAt \in [0..MaxHeight -> {0} \cup Nonces]

\* Every settlement that has been signed is resolved, or the relayer key is
\* quarantined for an operator to look at: nothing stays in flight for ever,
\* whatever crashed, timed out or failed on the way.
SubmissionResolves ==
  \A h \in Hashes :
    rows[h].state \in {"prepared", "submitted"} ~>
      rows[h].state \in Terminal \/ relayer = "quarantined"

\* A reserved payment does not keep its budget and block its caller for ever:
\* its worker signs, refuses or releases it, or reconciliation releases it.
ReservationResolves ==
  \A h \in Hashes : rows[h].state = "reserved" ~> rows[h].state # "reserved"

\* A reservation somebody works on never gets stuck: its worker signs, refuses
\* or releases it, or, when the worker is killed or cannot write to the store,
\* leaves a closed gate behind and reconciliation releases it
\* (retryable_service_failure, reconcile).
WorkedReservationResolves ==
  \A h \in Hashes :
    rows[h].state = "reserved" /\ (\E w \in Workers : worker[w].hash = h) ~>
      rows[h].state # "reserved"

\* Whoever left a reservation behind: once the reconciliation gate of a process
\* is closed, and no reconcile call is already past its scan of the journal, the
\* reservation is released, however often a release fails or the process stops
\* on the way.  The gate does not open over it (reconcile).
ClosedGateReleases ==
  \A h \in Hashes, p \in Procs :
    rows[h].state = "reserved" /\ ~gate[p].reconciliation /\ rc[p].pc \in {"idle", "queued"} ~>
      rows[h].state # "reserved"

\* Whatever reaches the network was journaled first, with exactly this nonce,
\* and durably marked submitted: after any crash the journal still knows it,
\* and no payment ever has two different submissions (run_new_settlement,
\* reconcile_prepared; "durable before broadcast").
JournaledBeforeBroadcast ==
  \A t \in net :
    /\ rows[t.hash].nonce = t.nonce
    /\ rows[t.hash].state \in {"submitted"} \cup Terminal

\* The journal's verdict is the chain's: a succeeded settlement was paid by its
\* own submission, and one reported as failed has not been paid and, the row
\* being final, never is.
OutcomeTruthful ==
  \A h \in Hashes :
    /\ rows[h].state = "succeeded" => PaidBy(Submission(h))
    /\ rows[h].state = "failed" => ~Paid(h)

\* The facilitator keeps its promise to its callers: seen through the verdicts
\* of terminal rows and the transfers on the chain, the engine is Settlement.
Contract == INSTANCE Settlement WITH
  Payments <- Hashes,
  paid <- {h \in Hashes : Paid(h)},
  verdict <- [h \in Hashes |-> IF rows[h].state \in Terminal THEN rows[h].state ELSE "none"]
KeepsContract == Contract!Spec

\* While the reconciliation gate of the process is open and its relayer mutex
\* is free, no transaction is unresolved: a new settlement never signs on top
\* of one whose outcome is unknown.
GateSound ==
  \A p \in Procs :
    gate[p].reconciliation /\ LockFree(p) => RowsIn({"prepared", "submitted"}) = {}

\* After the relayer key is quarantined nothing is signed and nothing is sent,
\* also when a readiness refresh opens the relayer gate again from a stale read.
QuarantineStopsBroadcast ==
  [][relayer = "quarantined" =>
       net' = net /\ \A h \in Hashes : rows'[h].nonce = rows[h].nonce]_vars

\* Another holder of the relayer key used one of its nonces: some block
\* advanced the nonce without a submission of this journal.
ForeignNonceUsed ==
  \E b \in 1..height : nonceAt[b] # nonceAt[b - 1] /\ \A o \in final : o.at # b

\* What the recovery rules say of a quarantine: the nonce was consumed and the
\* stored transaction is not known.  The code reads the transaction status
\* first and the nonce later, and does not hold this.
QuarantineMeansForeignNonce == relayer = "quarantined" => ForeignNonceUsed

\* What the leadership tests say of losing leadership: reconciliation is
\* invalidated with it, so a new term of leadership starts with the gate
\* closed.  A reconcile call of the old term that ends late opens it again.
TermStartsUnreconciled ==
  [][\A p \in Procs : leader # p /\ leader' = p => ~gate'[p].reconciliation]_vars

\* What reconcile_prepared says of its rebroadcast: leadership is rechecked
\* immediately before it.  The code reads two signer heads in between, and a
\* heartbeat that fails meanwhile does not stop the rebroadcast.
RebroadcastLeads ==
  [][\A p \in Procs : rc[p].pc = "reheads" /\ rc'[p].pc = "await" => gate[p].leadership]_vars

=============================================================================
