-------------------------------- MODULE Engine --------------------------------
(***************************************************************************)
(* The chain-neutral part of the settlement engine, for a set of processes *)
(* that share one journal: readiness gates (leadership.rs), leadership and *)
(* its loss, the HTTP settle handler up to the spawn of a settlement       *)
(* worker, the first half of the worker, and the frame of the reconcile    *)
(* loop (service.rs, main.rs).  NearEngine adds the NEAR half of the       *)
(* worker and of reconciliation, and the chain.                            *)
(*                                                                         *)
(* Each action is the code between two awaits: one call to the store, to   *)
(* an RPC endpoint or to the relayer mutex, and what follows it.           *)
(***************************************************************************)
EXTENDS Journal

CONSTANTS
  Procs,       \* facilitator processes on one database
  Workers,     \* bound: settlement workers alive at once
  Handlers,    \* bound: settle requests past the readiness check at once
  NoProc, NoHash, NoRequest,
  FaultKinds,  \* kinds of fault a run explores, see Fault below
  MaxFaults    \* bound: faults per behaviour

ASSUME EngineAssumption ==
  /\ NoProc \notin Procs
  /\ NoHash \notin Hashes
  /\ NoRequest \notin Requests
  /\ MaxFaults \in Nat

VARIABLES
  gate,     \* ReadinessState of each process
  leader,   \* the process whose PostgreSQL session holds the advisory lock
  worker,   \* run_new_settlement tasks
  handler,  \* settle_inner calls between the readiness check and the spawn
  rc,       \* the reconcile call of each process
  faults    \* number of faults so far

evars == <<rows, globalUsage, clientUsage, relayer, today,
           gate, leader, worker, handler, rc, faults>>

-----------------------------------------------------------------------------
(* Faults.  "crash": a process stops.  "session": PostgreSQL drops the     *)
(* session that holds the advisory lock.  "store": a store call fails      *)
(* without effect, or fails to reload the row it has committed.            *)
(* "lost_ack": it commits but reports an error.  "rpc": a chain query      *)
(* fails.  "drop": settle's deadline drops settle_inner.  "foreign":       *)
(* somebody else uses the relayer key.  "stale": a readiness refresh that  *)
(* read the relayer policy before it changed sets its gate.                *)

Fault(kind) ==
  /\ kind \in FaultKinds
  /\ faults < MaxFaults
  /\ faults' = faults + 1

NoFault == UNCHANGED faults

\* The outcomes of a store call `Op` that is accepted when `guard` holds.
StoreCall(guard, Op, Ok, Err) ==
  \/ Op /\ Ok /\ NoFault
  \/ ~guard /\ UNCHANGED jvars /\ Err /\ NoFault
  \/ UNCHANGED jvars /\ Err /\ Fault("store")
  \/ Op /\ Err /\ Fault("lost_ack")

-----------------------------------------------------------------------------
(* ReadinessState (leadership.rs).                                         *)

ClosedGate ==
  [leadership |-> FALSE, reconciliation |-> FALSE, rpc |-> FALSE, relayer |-> FALSE]

CanSettle(p) ==
  /\ gate[p].leadership
  /\ gate[p].reconciliation
  /\ gate[p].rpc
  /\ gate[p].relayer

CanReconciliationBroadcast(p) == gate[p].leadership /\ gate[p].rpc /\ gate[p].relayer

FailClosed(p) == gate' = [gate EXCEPT ![p].reconciliation = FALSE]

-----------------------------------------------------------------------------
(* Tasks and the relayer mutex.  The mutex is held from the moment a task  *)
(* leaves "queued" until it ends, so its holder is read off the pcs.       *)

IdleWorker == [pc |-> "idle", proc |-> NoProc, hash |-> NoHash, nonce |-> 0]
IdleHandler == [pc |-> "idle", proc |-> NoProc, req |-> NoRequest]
IdleRc == [pc |-> "idle", reserved |-> {}, prepared |-> {}, submitted |-> {},
           cur |-> NoHash, primary |-> 0, backup |-> 0, empty |-> FALSE]

Holds(w) == worker[w].pc \notin {"idle", "queued"}
Reconciling(p) == rc[p].pc \notin {"idle", "queued"}
LockFree(p) == ~Reconciling(p) /\ \A w \in Workers : worker[w].proc = p => ~Holds(w)

At(w, pc) == worker[w].pc = pc
Goto(w, pc) == worker' = [worker EXCEPT ![w].pc = pc]
EndWorker(w) == worker' = [worker EXCEPT ![w] = IdleWorker]

\* spawn_settlement_worker
Spawn(p, h) ==
  \E w \in Workers :
    /\ At(w, "idle")
    /\ worker' = [worker EXCEPT ![w] = [pc |-> "queued", proc |-> p, hash |-> h, nonce |-> 0]]

EngineInit ==
  /\ JournalInit
  /\ gate = [p \in Procs |-> ClosedGate]
  /\ leader = NoProc
  /\ worker = [w \in Workers |-> IdleWorker]
  /\ handler = [x \in Handlers |-> IdleHandler]
  /\ rc = [p \in Procs |-> IdleRc]
  /\ faults = 0

-----------------------------------------------------------------------------
(* Leadership: run_leadership and hold_leadership.                         *)

\* pg_try_advisory_lock returned true.
AcquireLeadership(p) ==
  /\ leader = NoProc
  /\ ~gate[p].leadership
  /\ leader' = p
  /\ gate' = [gate EXCEPT ![p].leadership = TRUE]
  /\ UNCHANGED <<jvars, worker, handler, rc, faults>>

\* PostgreSQL drops the session; the process learns of it at a heartbeat.
LoseSession(p) ==
  /\ leader = p
  /\ leader' = NoProc
  /\ Fault("session")
  /\ UNCHANGED <<jvars, gate, worker, handler, rc>>

\* set_leadership(false), after a failed heartbeat and at the start of every
\* attempt to get the lock; it also closes the reconciliation gate.
HeartbeatFails(p) ==
  /\ leader # p
  /\ gate' = [gate EXCEPT ![p].leadership = FALSE, ![p].reconciliation = FALSE]
  /\ UNCHANGED <<jvars, leader, worker, handler, rc, faults>>

\* refresh_chain_readiness, at startup and every 15 s: the RPC probe, the
\* signer head and the relayer policy, then the two gates.
RefreshReadiness(p) ==
  /\ \/ \E rpcReady, signerReady \in BOOLEAN :
          /\ gate' = [gate EXCEPT ![p].rpc = rpcReady, ![p].relayer = signerReady /\ relayer = "active"]
          /\ \/ rpcReady /\ signerReady /\ NoFault
             \/ ~(rpcReady /\ signerReady) /\ Fault("rpc")
             \/ rpcReady /\ ~signerReady /\ Fault("store")
     \/ /\ gate' = [gate EXCEPT ![p].rpc = TRUE, ![p].relayer = TRUE]
        /\ relayer # "active"
        /\ Fault("stale")
  /\ UNCHANGED <<jvars, leader, worker, handler, rc>>

\* The process stops: its tasks, gates and database session are gone.
Crash(p) ==
  /\ Fault("crash")
  /\ gate' = [gate EXCEPT ![p] = ClosedGate]
  /\ leader' = IF leader = p THEN NoProc ELSE leader
  /\ worker' = [w \in Workers |-> IF worker[w].proc = p THEN IdleWorker ELSE worker[w]]
  /\ handler' = [x \in Handlers |-> IF handler[x].proc = p THEN IdleHandler ELSE handler[x]]
  /\ rc' = [rc EXCEPT ![p] = IdleRc]
  /\ UNCHANGED jvars

-----------------------------------------------------------------------------
(* settle_inner.  Authentication, rate limits, parsing and payee policy    *)
(* only decide whether a request gets as far as Admit.                     *)

\* The row an idempotent request refers to waits for a retry.
Retryable(r) == FindExisting(r) = "existing" /\ rows[r.hash].state = "awaiting_retry"

\* prior_settlement_response found nothing to replay or join, and can_settle.
Admit(x, p, r) ==
  /\ handler[x].pc = "idle"
  /\ FindExisting(r) = "none" \/ Retryable(r)
  /\ CanSettle(p)
  /\ handler' = [handler EXCEPT ![x] = [pc |-> "claim", proc |-> p, req |-> r]]
  /\ UNCHANGED <<jvars, gate, leader, worker, rc, faults>>

EndHandler(x) == handler' = [handler EXCEPT ![x] = IdleHandler]

\* A committed claim or resume is followed by the spawn of its worker, unless
\* the deadline around settle_inner drops the handler in between, or the store
\* reports an error after the commit: the acknowledgement is lost, or the reload
\* of the row fails.  The handler then answers 503 and the gates stay as they
\* are, so nobody works on the row.
SpawnOrStrand(x, h) ==
  \/ Spawn(handler[x].proc, h) /\ NoFault
  \/ UNCHANGED worker /\ (Fault("drop") \/ Fault("lost_ack") \/ Fault("store"))

\* claim_settlement.  The last case is every reply that leaves the journal as
\* it is: the payment fails verification, the row exists, a budget or the
\* signer slot is taken, the store fails, the deadline passes.
Claim(x) ==
  LET r == handler[x].req
  IN  /\ handler[x].pc = "claim"
      /\ \/ /\ FindExisting(r) = "none"
            /\ \E limit \in ClientLimits : ClaimInsert(r, limit)
            /\ SpawnOrStrand(x, r.hash)
            /\ EndHandler(x)
         \/ /\ Retryable(r)
            /\ handler' = [handler EXCEPT ![x].pc = "resume"]
            /\ UNCHANGED <<jvars, worker, faults>>
         \/ EndHandler(x) /\ UNCHANGED <<jvars, worker, faults>>
      /\ UNCHANGED <<gate, leader, rc>>

\* resume_awaiting_retry; a lost race joins the other attempt.
Resume(x) ==
  LET h == handler[x].req.hash
  IN  /\ handler[x].pc = "resume"
      /\ EndHandler(x)
      /\ \/ /\ \E limit \in ClientLimits : ResumeAwaitingRetry(h, limit)
            /\ SpawnOrStrand(x, h)
         \/ UNCHANGED <<jvars, worker, faults>>
      /\ UNCHANGED <<gate, leader, rc>>

-----------------------------------------------------------------------------
(* run_new_settlement up to the signature, and its two early exits.        *)

\* mark_terminal with this response, and what the caller does next.
Terminalize(h, response, Ok, Err) ==
  \/ \E actual \in Costs(response) :
       StoreCall(TerminalRepeats(h, response) \/ (TerminalAllowed(h, response, 0) /\ Releasable(h)),
                 MarkTerminal(h, response, actual, 0), Ok, Err)
  \/ TerminalRepeats(h, response) /\ UNCHANGED jvars /\ Ok /\ NoFault

WorkerLock(w) ==
  /\ At(w, "queued")
  /\ LockFree(worker[w].proc)
  /\ Goto(w, IF CanSettle(worker[w].proc) THEN "verify" ELSE "retry")
  /\ UNCHANGED <<jvars, gate, leader, handler, rc, faults>>

\* Verification against the chain, then the reload of the journaled row.
WorkerVerify(w) ==
  /\ At(w, "verify")
  /\ \/ /\ rows[worker[w].hash].state = "reserved"
        /\ Goto(w, "sign")
        /\ NoFault
     \/ /\ rows[worker[w].hash].state # "reserved"
        /\ Goto(w, "protocol_failure")
        /\ NoFault
     \/ Goto(w, "protocol_failure") /\ NoFault
     \/ Goto(w, "retry") /\ (Fault("rpc") \/ Fault("store"))
  /\ UNCHANGED <<jvars, gate, leader, handler, rc>>

\* Plausible bug: a failed release does not close the reconciliation gate.
WorkerRetry_KeepGate(w) ==
  LET h == worker[w].hash
  IN  /\ At(w, "retry")
      /\ StoreCall(rows[h].state = "reserved" /\ Releasable(h), MarkAwaitingRetry(h), TRUE, TRUE)
      /\ EndWorker(w)
      /\ UNCHANGED <<gate, leader, handler, rc>>

\* retryable_service_failure
WorkerRetry(w) ==
  LET h == worker[w].hash
  IN  /\ At(w, "retry")
      /\ StoreCall(rows[h].state = "reserved" /\ Releasable(h), MarkAwaitingRetry(h),
                   UNCHANGED gate, FailClosed(worker[w].proc))
      /\ EndWorker(w)
      /\ UNCHANGED <<leader, handler, rc>>

\* terminal_protocol_failure, terminal_transaction_rejected, finalize_terminal
WorkerTerminalize(w, response) ==
  /\ At(w, response)
  /\ Terminalize(worker[w].hash, response, UNCHANGED gate, FailClosed(worker[w].proc))
  /\ EndWorker(w)
  /\ UNCHANGED <<leader, handler, rc>>

-----------------------------------------------------------------------------
(* reconcile.  main.rs calls it every 2 s while the process leads and its  *)
(* reconciliation gate is closed.                                          *)

SetRc(p, field, value) == rc' = [rc EXCEPT ![p][field] = value]
EndReconcile(p) == rc' = [rc EXCEPT ![p] = IdleRc]

RowsIn(states) == {h \in Hashes : rows[h].state \in states}

ReconcileBegin(p) ==
  /\ rc[p].pc = "idle"
  /\ gate[p].leadership
  /\ ~gate[p].reconciliation
  /\ rc' = [rc EXCEPT ![p].pc = "queued"]
  /\ UNCHANGED <<jvars, gate, leader, worker, handler, faults>>

\* Take the mutex and read nonterminal_settlements.
ReconcileScan(p) ==
  /\ rc[p].pc = "queued"
  /\ LockFree(p)
  /\ \/ /\ rc' = [rc EXCEPT ![p] = [IdleRc EXCEPT !.pc = "release",
               !.reserved = RowsIn({"reserved"}),
               !.prepared = RowsIn({"prepared"}),
               !.submitted = RowsIn({"submitted"})]]
        /\ NoFault
     \/ EndReconcile(p) /\ Fault("store")
  /\ UNCHANGED <<jvars, gate, leader, worker, handler>>

\* Hand a reserved row back for a retry; a failure only keeps the gate closed.
ReconcileRelease(p) ==
  /\ rc[p].pc = "release"
  /\ \E h \in rc[p].reserved :
       /\ StoreCall(rows[h].state = "reserved" /\ Releasable(h), MarkAwaitingRetry(h),
                    UNCHANGED gate, FailClosed(p))
       /\ SetRc(p, "reserved", rc[p].reserved \ {h})
  /\ UNCHANGED <<leader, worker, handler>>

\* note_reconciliation or a reload of the row fails: the call returns early.
ReconcileAbort(p) ==
  /\ Reconciling(p)
  /\ EndReconcile(p)
  /\ Fault("store")
  /\ UNCHANGED <<jvars, gate, leader, worker, handler>>

\* The next row whose submission has to be resolved.
ReconcileNext(p) ==
  /\ rc[p].pc = "release"
  /\ rc[p].reserved = {}
  /\ \E h \in rc[p].prepared \cup rc[p].submitted :
       rc' = [rc EXCEPT ![p].pc = "status", ![p].cur = h]
  /\ UNCHANGED <<jvars, gate, leader, worker, handler, faults>>

\* Plausible bug: a reservation that could not be released is not counted.
ReconcileRemaining_Submissions(p) ==
  /\ \/ rc[p].pc = "finish"
     \/ /\ rc[p].pc = "release"
        /\ rc[p].reserved \cup rc[p].prepared \cup rc[p].submitted = {}
  /\ rc' = [rc EXCEPT ![p] = [IdleRc EXCEPT !.pc = "open", !.empty = (RowsIn({"prepared", "submitted"}) = {})]]
  /\ UNCHANGED <<jvars, gate, leader, worker, handler, faults>>

\* All rows were resolved, or the loop stopped at one that was not: re-read
\* the nonterminal rows.
ReconcileRemaining(p) ==
  /\ \/ rc[p].pc = "finish"
     \/ /\ rc[p].pc = "release"
        /\ rc[p].reserved \cup rc[p].prepared \cup rc[p].submitted = {}
  /\ rc' = [rc EXCEPT ![p] = [IdleRc EXCEPT !.pc = "open", !.empty = (RowsIn(Active) = {})]]
  /\ UNCHANGED <<jvars, gate, leader, worker, handler, faults>>

\* Plausible bug: the gate opens although rows remain.
ReconcileOpen_Always(p) ==
  /\ rc[p].pc = "open"
  /\ gate' = [gate EXCEPT ![p].reconciliation = TRUE]
  /\ EndReconcile(p)
  /\ UNCHANGED <<jvars, leader, worker, handler, faults>>

ReconcileOpen(p) ==
  /\ rc[p].pc = "open"
  /\ gate' = [gate EXCEPT ![p].reconciliation = rc[p].empty]
  /\ EndReconcile(p)
  /\ UNCHANGED <<jvars, leader, worker, handler, faults>>

\* cur is resolved or given up: go on with the next row, or stop the loop.
Resolved(p) ==
  rc' = [rc EXCEPT ![p] = [IdleRc EXCEPT !.pc = "release",
           !.prepared = rc[p].prepared \ {rc[p].cur},
           !.submitted = rc[p].submitted \ {rc[p].cur}]]
StopAt(p) == rc' = [rc EXCEPT ![p] = [IdleRc EXCEPT !.pc = "finish"]]

\* reconcile_prepared returned Ok: cur is read again to decide.
Proceed(p) == IF rows'[rc[p].cur].state \in Terminal THEN Resolved(p) ELSE StopAt(p)

\* finalize_reconciled_terminal: a store error ends the reconcile call.
ReconcileFinalize(p, response) ==
  /\ rc[p].pc = response
  /\ Terminalize(rc[p].cur, response, Proceed(p), EndReconcile(p))
  /\ UNCHANGED <<gate, leader, worker, handler>>

\* terminal_protocol_failure and terminal_transaction_rejected: an error closes
\* the gate, and the call goes on.
ReconcileGiveUp(p, response) ==
  /\ rc[p].pc = response
  /\ Terminalize(rc[p].cur, response, UNCHANGED gate, FailClosed(p))
  /\ Proceed(p)
  /\ UNCHANGED <<leader, worker, handler>>

-----------------------------------------------------------------------------

WorkerPcs == Responses \cup
  {"verify", "retry", "sign", "prepare", "recheck", "quarantine", "submit", "send", "await"}
RowPcs == Responses \cup
  {"status", "pending", "heads", "quarantine", "resubmit", "check", "reheads", "await"}
RcPcs == RowPcs \cup {"idle", "queued", "release", "finish", "open"}

WorkersOK ==
  /\ worker \in [Workers -> [pc: WorkerPcs \cup {"idle", "queued"}, proc: Procs \cup {NoProc},
                             hash: Hashes \cup {NoHash}, nonce: {0} \cup Nonces]]
  /\ \A w \in Workers : ~At(w, "idle") => worker[w].proc \in Procs /\ worker[w].hash \in Hashes

HandlersOK ==
  /\ handler \in [Handlers -> [pc: {"idle", "claim", "resume"}, proc: Procs \cup {NoProc},
                               req: Requests \cup {NoRequest}]]
  /\ \A x \in Handlers :
       handler[x].pc # "idle" => handler[x].proc \in Procs /\ handler[x].req \in Requests

ReconcileCall ==
  [pc: RcPcs, reserved: SUBSET Hashes, prepared: SUBSET Hashes, submitted: SUBSET Hashes,
   cur: Hashes \cup {NoHash}, primary: {0} \cup Nonces, backup: {0} \cup Nonces, empty: BOOLEAN]

ReconcilesOK ==
  /\ rc \in [Procs -> ReconcileCall]
  /\ \A p \in Procs : rc[p].pc \in RowPcs => rc[p].cur \in rc[p].prepared \cup rc[p].submitted

\* A task that runs belongs to a process and works on a payment, and every
\* reconcile step past the scan works on a row of its snapshot.
EngineTypeOK ==
  /\ gate \in [Procs -> [leadership: BOOLEAN, reconciliation: BOOLEAN, rpc: BOOLEAN, relayer: BOOLEAN]]
  /\ leader \in Procs \cup {NoProc}
  /\ WorkersOK
  /\ HandlersOK
  /\ ReconcilesOK
  /\ faults \in 0..MaxFaults

=============================================================================
