------------------------- MODULE NearContractProofs --------------------------
(***************************************************************************)
(* Proofs about the NEAR settlement engine when one process serves the     *)
(* journal, for any number of workers, handlers, payments, blocks and      *)
(* faults: the reconciliation gate is sound, a quarantined relayer key is  *)
(* not used any more, and the engine implements Settlement, the promise to *)
(* its callers.                                                            *)
(*                                                                         *)
(* All three rest on the relayer mutex (Mutex).  GateInv says why an open  *)
(* gate means that nothing is unresolved: an unresolved row is in the      *)
(* hands of a worker that will resolve it or close the gate.  VerdictInv   *)
(* says that a task about to store a verdict knows it from the chain, and  *)
(* that a payment given up can no longer be transferred (Dead).            *)
(***************************************************************************)
EXTENDS NearEngineProofs

\* All tasks that share the journal belong to the same process.
OneProcess == \A p, q \in Procs : p = q

Unresolved == {"prepared", "submitted"}

\* The relayer mutex of a process is held by at most one worker, and by none
\* while the process reconciles.
Mutex ==
  /\ \A w, v \in Workers : Holds(w) /\ Holds(v) /\ worker[w].proc = worker[v].proc => w = v
  /\ \A p \in Procs, w \in Workers : Reconciling(p) /\ Holds(w) => worker[w].proc # p

\* While the gate is open an unresolved row belongs to a worker that holds
\* the mutex.
UnresolvedHeld ==
  \A p \in Procs, h \in Hashes :
    gate[p].reconciliation /\ rows[h].state \in Unresolved =>
      \E w \in Workers : Holds(w) /\ worker[w].hash = h

\* A reconcile call that is about to open the gate is right about it.
OpenMeansResolved ==
  \A p \in Procs, h \in Hashes :
    rc[p].pc = "open" /\ rc[p].empty => rows[h].state \notin Unresolved

\* A worker that has not signed yet, or gives up before it does, does not
\* work on a row that somebody has signed.
SignsFresh ==
  \A w \in Workers :
    worker[w].pc \in {"verify", "sign", "protocol_failure"} =>
      rows[worker[w].hash].state \notin Unresolved

\* From its signature to its broadcast a worker has the key to itself.
KeyActive ==
  \A w \in Workers :
    worker[w].pc \in {"prepare", "recheck", "submit", "send"} => relayer = "active"

GateInv == Mutex /\ UnresolvedHeld /\ OpenMeansResolved /\ SignsFresh /\ KeyActive

-----------------------------------------------------------------------------
(* How the rows can change.                                                *)

\* The row h gets no submission, and becomes neither unresolved nor terminal.
NoSign(h) ==
  rows'[h].nonce = rows[h].nonce /\ (rows'[h].state \in Unresolved => rows[h].state \in Unresolved)
NoEnd(h) == rows'[h].state \in Terminal => rows[h].state \in Terminal

\* What each transaction of the store does to a row, apart from mark_prepared.
LEMMA StoreFrame ==
  ASSUME RowsInv, NEW h \in Hashes, NEW g \in Hashes
  PROVE  /\ \A r \in Requests, limit \in ClientLimits : ClaimInsert(r, limit) => NoSign(h) /\ NoEnd(h)
         /\ MarkAwaitingRetry(g) => NoSign(h) /\ NoEnd(h)
         /\ \A limit \in ClientLimits : ResumeAwaitingRetry(g, limit) => NoSign(h) /\ NoEnd(h)
         /\ MarkSubmitted(g) => NoSign(h) /\ NoEnd(h)
         /\ \A n \in Nonces : MarkPrepared(g, n, 0) => NoEnd(h) /\ (h # g => NoSign(h))
         /\ \A response \in Responses : \A actual :
              MarkTerminal(g, response, actual, 0) =>
                /\ NoSign(h)
                /\ h # g => NoEnd(h)
                /\ rows'[g].state = TerminalState(response)
                /\ rows[g].state \in Active
         /\ UNCHANGED rows => NoSign(h) /\ NoEnd(h)
<1> USE DEF Unresolved, Active, Terminal, NoSign, NoEnd
<1>0. rows \in [Hashes -> Row] /\ rows[h] \in Row /\ rows[g] \in Row
  BY Zenon DEF RowsInv, JournalTypeOK
<1>1. ASSUME NEW r \in Requests, NEW limit \in ClientLimits, ClaimInsert(r, limit) PROVE NoSign(h) /\ NoEnd(h)
  <2>1. rows' = [rows EXCEPT ![r.hash] = ReservedRow(r)] /\ r.hash \in Hashes
    BY <1>1, RequestsAssumption, Zenon DEF ClaimInsert
  <2>2. rows[r.hash].nonce = 0
    BY <1>1, <2>1, Zenon DEF ClaimInsert, InsertConflicts, RowsInv, OwnerKnown
  <2>3. CASE h = r.hash
    <3>1. rows'[h] = ReservedRow(r)
      BY <1>0, <2>1, <2>3, Zenon
    <3> QED BY <2>2, <2>3, <3>1 DEF ReservedRow
  <2>4. CASE h # r.hash
    BY <1>0, <2>1, <2>4, Zenon
  <2> QED BY <2>3, <2>4, Zenon
<1>2. ASSUME MarkAwaitingRetry(g) PROVE NoSign(h) /\ NoEnd(h)
  BY <1>0, <1>2, Zenon DEF MarkAwaitingRetry, Row
<1>3. ASSUME NEW limit \in ClientLimits, ResumeAwaitingRetry(g, limit) PROVE NoSign(h) /\ NoEnd(h)
  BY <1>0, <1>3, Zenon DEF ResumeAwaitingRetry, Row
<1>4. ASSUME MarkSubmitted(g) PROVE NoSign(h) /\ NoEnd(h)
  BY <1>0, <1>4, Zenon DEF MarkSubmitted, Row
<1>5. ASSUME NEW n \in Nonces, MarkPrepared(g, n, 0) PROVE NoEnd(h) /\ (h # g => NoSign(h))
  BY <1>0, <1>5, Zenon DEF MarkPrepared, Row
<1>6. ASSUME NEW response \in Responses, NEW actual, MarkTerminal(g, response, actual, 0)
      PROVE  /\ NoSign(h)
             /\ h # g => NoEnd(h)
             /\ rows'[g].state = TerminalState(response)
             /\ rows[g].state \in Active
  <2>1. /\ rows' = [rows EXCEPT ![g].state = TerminalState(response), ![g].response = response]
        /\ rows[g].state \in Active
    BY <1>6, Zenon DEF MarkTerminal, TerminalAllowed
  <2>2. TerminalState(response) \in Terminal
    BY Zenon DEF TerminalState
  <2> QED BY <1>0, <2>1, <2>2, Zenon DEF Row
<1> QED BY <1>1, <1>2, <1>3, <1>4, <1>5, <1>6, Zenon

\* Terminalize is mark_terminal, or nothing.
LEMMA TerminalizeFrame ==
  ASSUME NEW h, NEW response, NEW ACTION Ok, NEW ACTION Err, Terminalize(h, response, Ok, Err)
  PROVE  UNCHANGED jvars \/ \E actual : MarkTerminal(h, response, actual, 0)
  BY Zenon DEF Terminalize, StoreCall

\* A row gets its submission from a worker in WorkerPrepare, and its verdict
\* from a worker or a reconcile call that has come to one.
LEMMA RowsFrame ==
  ASSUME RowsInv, TypeOK, TasksInv, [Next]_vars, NEW h \in Hashes
  PROVE  /\ NoSign(h) \/ \E w \in Workers : WorkerPrepare(w) /\ worker[w].hash = h
         /\ \/ NoEnd(h)
            \/ \E response \in Responses :
                 /\ rows'[h].state = TerminalState(response)
                 /\ rows[h].state \in Active
                 /\ NoSign(h)
                 /\ \/ \E w \in Workers : WorkerTerminalize(w, response) /\ worker[w].hash = h
                    \/ \E p \in Procs :
                         /\ ReconcileFinalize(p, response) \/ ReconcileGiveUp(p, response)
                         /\ rc[p].cur = h
<1> DEFINE Quiet == NoSign(h) /\ NoEnd(h)
           Ends(response) ==
             /\ rows'[h].state = TerminalState(response)
             /\ rows[h].state \in Active
             /\ NoSign(h)
             /\ \/ \E w \in Workers : WorkerTerminalize(w, response) /\ worker[w].hash = h
                \/ \E p \in Procs :
                     /\ ReconcileFinalize(p, response) \/ ReconcileGiveUp(p, response)
                     /\ rc[p].cur = h
           Signs == NoEnd(h) /\ \E w \in Workers : WorkerPrepare(w) /\ worker[w].hash = h
           Goal == Quiet \/ Signs \/ \E response \in Responses : Ends(response)
<1>0. WorkersOK /\ HandlersOK /\ ReconcilesOK /\ WorkerTasks
  BY Zenon DEF TypeOK, EngineTypeOK, TasksInv
<1>1. ASSUME UNCHANGED jvars PROVE Quiet
  BY <1>1, StoreFrame, Zenon DEF jvars
<1>2. ASSUME NEW p \in Procs, ProcessStep(p) PROVE Quiet
  BY <1>1, <1>2, Zenon DEF ProcessStep, AcquireLeadership, LoseSession, HeartbeatFails, RefreshReadiness, Crash, Admit
<1>3. ASSUME NEW x \in Handlers, HandlerStep(x) PROVE Quiet
  <2>1. handler[x].pc # "idle" => handler[x].req \in Requests /\ handler[x].req.hash \in Hashes
    BY <1>0, RequestsAssumption, Zenon DEF HandlersOK
  <2>2. CASE Claim(x)
    <3>1. UNCHANGED jvars \/ \E limit \in ClientLimits : ClaimInsert(handler[x].req, limit)
      BY <2>2, Zenon DEF Claim
    <3>2. handler[x].req \in Requests
      BY <2>1, <2>2, Zenon DEF Claim
    <3> QED BY <1>1, <3>1, <3>2, StoreFrame, Zenon
  <2>3. CASE Resume(x)
    <3>1. UNCHANGED jvars \/ \E limit \in ClientLimits : ResumeAwaitingRetry(handler[x].req.hash, limit)
      BY <2>3, Zenon DEF Resume
    <3>2. handler[x].req.hash \in Hashes
      BY <2>1, <2>3, Zenon DEF Resume
    <3> QED BY <1>1, <3>1, <3>2, StoreFrame, Zenon
  <2> QED BY <1>3, <2>2, <2>3, Zenon DEF HandlerStep
<1>4. ASSUME NEW w \in Workers, WorkerStep(w) PROVE Goal
  <2>1. ~At(w, "idle") => worker[w].hash \in Hashes
    BY <1>0, Zenon DEF WorkersOK
  <2>2. CASE WorkerRetry(w)
    <3>1. UNCHANGED jvars \/ MarkAwaitingRetry(worker[w].hash)
      BY <2>2, Zenon DEF WorkerRetry, StoreCall
    <3>2. worker[w].hash \in Hashes
      BY <2>1, <2>2, Zenon DEF WorkerRetry, At
    <3> QED BY <1>1, <3>1, <3>2, StoreFrame, Zenon
  <2>3. ASSUME NEW response \in Responses, WorkerTerminalize(w, response) PROVE Goal
    <3>1. worker[w].hash \in Hashes
      BY <2>1, <2>3, Zenon DEF WorkerTerminalize, At, Responses
    <3>2. UNCHANGED jvars \/ \E actual : MarkTerminal(worker[w].hash, response, actual, 0)
      BY <2>3, TerminalizeFrame, Zenon DEF WorkerTerminalize
    <3>3. ASSUME NEW actual, MarkTerminal(worker[w].hash, response, actual, 0) PROVE Quiet \/ Ends(response)
      BY <2>3, <3>1, <3>3, StoreFrame, Zenon
    <3> QED BY <1>1, <3>2, <3>3, Zenon
  <2>4. CASE WorkerPrepare(w)
    <3>1. worker[w].hash \in Hashes /\ worker[w].nonce \in Nonces
      BY <1>0, <2>1, <2>4, Zenon DEF WorkerPrepare, At, WorkerTasks
    <3>2. UNCHANGED jvars \/ MarkPrepared(worker[w].hash, worker[w].nonce, 0)
      BY <2>4, Zenon DEF WorkerPrepare, WorkerStore, StoreCall
    <3>3. ASSUME MarkPrepared(worker[w].hash, worker[w].nonce, 0) PROVE Quiet \/ Signs
      BY <2>4, <3>1, <3>3, StoreFrame, Zenon
    <3> QED BY <1>1, <3>2, <3>3, Zenon
  <2>5. CASE WorkerSubmit(w)
    <3>1. UNCHANGED jvars \/ MarkSubmitted(worker[w].hash)
      BY <2>5, Zenon DEF WorkerSubmit, WorkerStore, StoreCall
    <3>2. worker[w].hash \in Hashes
      BY <2>1, <2>5, Zenon DEF WorkerSubmit, At
    <3> QED BY <1>1, <3>1, <3>2, StoreFrame, Zenon
  <2>6. CASE WorkerQuarantine(w)
    <3>1. UNCHANGED rows
      BY <2>6, Zenon DEF WorkerQuarantine, StoreCall, QuarantineRelayer, jvars
    <3> QED BY <3>1, StoreFrame, Zenon
  <2>7. CASE WorkerLock(w) \/ WorkerVerify(w) \/ WorkerSign(w) \/ WorkerRecheck(w) \/ WorkerSend(w) \/ WorkerAwait(w)
    BY <1>1, <2>7, Zenon DEF WorkerLock, WorkerVerify, WorkerSign, WorkerRecheck, WorkerSend, WorkerAwait
  <2> QED BY <1>4, <2>2, <2>3, <2>4, <2>5, <2>6, <2>7, Zenon DEF WorkerStep
<1>5. ASSUME NEW p \in Procs, ReconcileStep(p) PROVE Goal
  <2>1. rc[p].pc \in RowPcs => rc[p].cur \in Hashes
    BY <1>0, Zenon DEF ReconcilesOK, ReconcileCall
  <2>2. CASE ReconcileRelease(p)
    <3>1. rc[p].reserved \subseteq Hashes
      BY <1>0, Zenon DEF ReconcilesOK, ReconcileCall
    <3>2. UNCHANGED jvars \/ \E g \in rc[p].reserved : MarkAwaitingRetry(g)
      BY <2>2, Zenon DEF ReconcileRelease, StoreCall
    <3> QED BY <1>1, <3>1, <3>2, StoreFrame, Zenon
  <2>3. ASSUME NEW response \in Responses, ReconcileFinalize(p, response) \/ ReconcileGiveUp(p, response)
        PROVE  Goal
    <3>1. rc[p].cur \in Hashes
      BY <2>1, <2>3, Zenon DEF ReconcileFinalize, ReconcileGiveUp, RowPcs
    <3>2. UNCHANGED jvars \/ \E actual : MarkTerminal(rc[p].cur, response, actual, 0)
      BY <2>3, TerminalizeFrame, Zenon DEF ReconcileFinalize, ReconcileGiveUp
    <3>3. ASSUME NEW actual, MarkTerminal(rc[p].cur, response, actual, 0) PROVE Quiet \/ Ends(response)
      BY <2>3, <3>1, <3>3, StoreFrame, Zenon
    <3> QED BY <1>1, <3>2, <3>3, Zenon
  <2>4. CASE ReconcileResubmit(p)
    <3>1. rc[p].cur \in Hashes
      BY <2>1, <2>4, Zenon DEF ReconcileResubmit, RowPcs
    <3>2. UNCHANGED jvars \/ MarkSubmitted(rc[p].cur)
      BY <2>4, Zenon DEF ReconcileResubmit, StoreCall
    <3> QED BY <1>1, <3>1, <3>2, StoreFrame, Zenon
  <2>5. CASE ReconcileQuarantine(p)
    <3>1. UNCHANGED rows
      BY <2>5, Zenon DEF ReconcileQuarantine, StoreCall, QuarantineRelayer, jvars
    <3> QED BY <3>1, StoreFrame, Zenon
  <2>6. CASE \/ ReconcileBegin(p) \/ ReconcileScan(p) \/ ReconcileAbort(p) \/ ReconcileNext(p)
             \/ ReconcileRemaining(p) \/ ReconcileOpen(p)
    BY <1>1, <2>6, Zenon DEF ReconcileBegin, ReconcileScan, ReconcileAbort, ReconcileNext, ReconcileRemaining, ReconcileOpen
  <2>7. CASE \/ ReconcileStatus(p) \/ ReconcilePending(p) \/ ReconcileHeads(p) \/ ReconcileCheck(p)
             \/ ReconcileRebroadcast(p) \/ ReconcileAwait(p)
    BY <1>1, <2>7, Zenon DEF ReconcileStatus, ReconcilePending, ReconcileHeads, ReconcileCheck, ReconcileRebroadcast, ReconcileAwait
  <2> QED BY <1>5, <2>2, <2>3, <2>4, <2>5, <2>6, <2>7, Zenon DEF ReconcileStep, Responses
<1>6. CASE ChainStep \/ UNCHANGED vars
  BY <1>1, <1>6, ChainFrame, Zenon
<1>7. Goal
  BY <1>2, <1>3, <1>4, <1>5, <1>6, Zenon DEF Next
<1> QED BY <1>7, Zenon

\* The step by which a worker gets where it is.
LEMMA WorkerGoes ==
  ASSUME WorkersOK, NEW w \in Workers, WorkerStep(w)
  PROVE  /\ worker'[w].pc = "verify" => WorkerLock(w) /\ CanSettle(worker[w].proc)
         /\ worker'[w].pc \in {"sign", "protocol_failure"} => WorkerVerify(w)
         /\ worker'[w].pc \in {"prepare", "recheck", "submit", "send"} =>
              relayer = "active" \/ worker[w].pc \in {"prepare", "recheck", "submit", "send"}
         /\ worker'[w].pc = "await" => WorkerSend(w)
         /\ worker'[w].pc \in {"success", "transaction_failed", "transaction_rejected"} => WorkerAwait(w)
<1> DEFINE Goal ==
         /\ worker'[w].pc = "verify" => WorkerLock(w) /\ CanSettle(worker[w].proc)
         /\ worker'[w].pc \in {"sign", "protocol_failure"} => WorkerVerify(w)
         /\ worker'[w].pc \in {"prepare", "recheck", "submit", "send"} =>
              relayer = "active" \/ worker[w].pc \in {"prepare", "recheck", "submit", "send"}
         /\ worker'[w].pc = "await" => WorkerSend(w)
         /\ worker'[w].pc \in {"success", "transaction_failed", "transaction_rejected"} => WorkerAwait(w)
<1>1. ASSUME EndWorker(w) PROVE worker'[w].pc = "idle"
  BY <1>1, Zenon DEF EndWorker, IdleWorker, WorkersOK
<1>2. ASSUME NEW pc, Goto(w, pc) PROVE worker'[w].pc = pc
  BY <1>2, Zenon DEF Goto, WorkersOK
<1>3. ASSUME worker'[w].pc \in {"idle", "retry", "quarantine"} PROVE Goal
  BY <1>3, Zenon
<1>4. CASE WorkerLock(w)
  <2>1. worker'[w].pc = "retry" \/ (worker'[w].pc = "verify" /\ CanSettle(worker[w].proc))
    BY <1>2, <1>4, Zenon DEF WorkerLock
  <2> QED BY <1>3, <1>4, <2>1, Zenon
<1>5. CASE WorkerVerify(w)
  <2>1. worker'[w].pc \in {"retry", "sign", "protocol_failure"}
    BY <1>2, <1>5, Zenon DEF WorkerVerify
  <2> QED BY <1>3, <1>5, <2>1, Zenon
<1>6. CASE WorkerRetry(w) \/ WorkerQuarantine(w) \/ (\E response \in Responses : WorkerTerminalize(w, response))
  BY <1>1, <1>3, <1>6, Zenon DEF WorkerRetry, WorkerQuarantine, WorkerTerminalize
<1>7. CASE WorkerSign(w)
  <2>1. CASE Goto(w, "retry")
    BY <1>2, <1>3, <2>1, Zenon
  <2>2. ASSUME NEW n, relayer = "active", worker' = [worker EXCEPT ![w].pc = "prepare", ![w].nonce = n] PROVE Goal
    <3>1. worker'[w].pc = "prepare"
      BY <2>2, Zenon DEF WorkersOK
    <3> QED BY <2>2, <3>1, Zenon
  <2> QED BY <1>7, <2>1, <2>2, Zenon DEF WorkerSign
<1>8. CASE WorkerPrepare(w)
  <2>1. worker[w].pc = "prepare" /\ worker'[w].pc \in {"idle", "recheck"}
    BY <1>1, <1>2, <1>8, Zenon DEF WorkerPrepare, WorkerStore, StoreCall, At
  <2> QED BY <2>1, Zenon
<1>9. CASE WorkerRecheck(w)
  <2>1. EndWorker(w) \/ Goto(w, "quarantine") \/ Goto(w, "submit")
    BY <1>9, Zenon DEF WorkerRecheck
  <2>2. worker[w].pc = "recheck" /\ worker'[w].pc \in {"idle", "quarantine", "submit"}
    BY <1>1, <1>2, <1>9, <2>1, Zenon DEF WorkerRecheck, At
  <2> QED BY <2>2, Zenon
<1>10. CASE WorkerSubmit(w)
  <2>1. worker[w].pc = "submit" /\ worker'[w].pc \in {"idle", "send"}
    BY <1>1, <1>2, <1>10, Zenon DEF WorkerSubmit, WorkerStore, StoreCall, At
  <2> QED BY <2>1, Zenon
<1>11. CASE WorkerSend(w)
  <2>1. worker'[w].pc \in {"idle", "await"}
    BY <1>1, <1>2, <1>11, Zenon DEF WorkerSend
  <2> QED BY <1>11, <2>1, Zenon
<1>12. CASE WorkerAwait(w)
  <2> DEFINE t == [hash |-> worker[w].hash, nonce |-> worker[w].nonce]
  <2>1. \A outcome \in BroadcastOutcomes(t) : outcome \in {"success", "transaction_failed", "transaction_rejected", "pending"}
    BY DEF BroadcastOutcomes, StatusTerminal, Verdict, Rejections
  <2>2. worker'[w].pc \in {"idle", "success", "transaction_failed", "transaction_rejected"}
    BY <1>1, <1>2, <1>12, <2>1, Zenon DEF WorkerAwait
  <2> QED BY <1>12, <2>2, Zenon
<1> QED BY <1>4, <1>5, <1>6, <1>7, <1>8, <1>9, <1>10, <1>11, <1>12, Zenon DEF WorkerStep

\* A worker that lets go of the mutex has resolved its row or closes the gate.
LEMMA HolderEnds ==
  ASSUME RowsInv, TypeOK, NEW w \in Workers, WorkerStep(w), Holds(w)
  PROVE  \/ Holds(w)'
         \/ ~gate'[worker[w].proc].reconciliation
         \/ rows'[worker[w].hash].state \notin Unresolved
<1> DEFINE Goal == \/ Holds(w)'
                   \/ ~gate'[worker[w].proc].reconciliation
                   \/ rows'[worker[w].hash].state \notin Unresolved
<1>0. WorkersOK /\ gate \in [Procs -> Gates] /\ worker[w].proc \in Procs /\ worker[w].hash \in Hashes
  BY Zenon DEF TypeOK, EngineTypeOK, WorkersOK, At, Holds, Gates
<1>1. ASSUME NEW pc, Goto(w, pc), pc \notin {"idle", "queued"} PROVE Goal
  BY <1>0, <1>1, Zenon DEF Goto, WorkersOK, Holds
<1>2. ASSUME FailClosed(worker[w].proc) PROVE Goal
  BY <1>0, <1>2, Zenon DEF FailClosed, Gates
<1>3. ASSUME NEW ready, SetGates(worker[w].proc, ready, TRUE) PROVE Goal
  BY <1>0, <1>3, Zenon DEF SetGates, Gates
<1>4. rows \in [Hashes -> Row] /\ rows[worker[w].hash] \in Row
  BY <1>0, Zenon DEF RowsInv, JournalTypeOK
<1>5. CASE WorkerLock(w) \/ WorkerVerify(w)
  BY <1>1, <1>5, Zenon DEF WorkerLock, WorkerVerify
<1>6. CASE WorkerRetry(w)
  <2>1. CASE MarkAwaitingRetry(worker[w].hash)
    <3>1. rows'[worker[w].hash].state = "awaiting_retry"
      BY <1>0, <1>4, <2>1, Zenon DEF MarkAwaitingRetry, Row
    <3> QED BY <3>1, Zenon DEF Unresolved
  <2> QED BY <1>2, <1>6, <2>1, Zenon DEF WorkerRetry, StoreCall
<1>7. ASSUME NEW response \in Responses, WorkerTerminalize(w, response) PROVE Goal
  <2>1. \/ FailClosed(worker[w].proc)
        \/ \E actual : MarkTerminal(worker[w].hash, response, actual, 0)
        \/ UNCHANGED jvars /\ TerminalRepeats(worker[w].hash, response)
    BY <1>7, Zenon DEF WorkerTerminalize, Terminalize, StoreCall
  <2>2. ASSUME NEW actual, MarkTerminal(worker[w].hash, response, actual, 0) PROVE Goal
    <3>1. rows'[worker[w].hash].state = TerminalState(response)
      BY <1>0, <2>2, StoreFrame, Zenon
    <3> QED BY <3>1, Zenon DEF TerminalState, Unresolved
  <2>3. CASE UNCHANGED jvars /\ TerminalRepeats(worker[w].hash, response)
    BY <2>3, Zenon DEF jvars, TerminalRepeats, Terminal, Unresolved
  <2> QED BY <1>2, <2>1, <2>2, <2>3, Zenon
<1>8. CASE WorkerSign(w)
  <2>1. CASE Goto(w, "retry")
    BY <1>1, <2>1, Zenon
  <2>2. ASSUME NEW n, worker' = [worker EXCEPT ![w].pc = "prepare", ![w].nonce = n] PROVE Goal
    BY <1>0, <2>2, Zenon DEF WorkersOK, Holds
  <2> QED BY <1>8, <2>1, <2>2, Zenon DEF WorkerSign
<1>9. CASE WorkerPrepare(w) \/ WorkerSubmit(w)
  BY <1>1, <1>2, <1>9, Zenon DEF WorkerPrepare, WorkerSubmit, WorkerStore, StoreCall
<1>10. CASE WorkerRecheck(w)
  <2>1. \/ Goto(w, "quarantine") \/ Goto(w, "submit")
        \/ \E ready : SetGates(worker[w].proc, ready, TRUE)
    BY <1>10, Zenon DEF WorkerRecheck, SignerHeadFails
  <2> QED BY <1>1, <1>3, <2>1, Zenon
<1>11. CASE WorkerQuarantine(w)
  BY <1>0, <1>11, Zenon DEF WorkerQuarantine, Gates
<1>12. CASE WorkerSend(w)
  BY <1>1, <1>2, <1>12, Zenon DEF WorkerSend
<1>13. CASE WorkerAwait(w)
  <2>1. FailClosed(worker[w].proc) \/ \E outcome \in Responses : Goto(w, outcome)
    BY <1>13, OutcomeKinds, Zenon DEF WorkerAwait
  <2> QED BY <1>1, <1>2, <2>1, Zenon DEF Responses
<1> QED BY <1>5, <1>6, <1>7, <1>8, <1>9, <1>10, <1>11, <1>12, <1>13, Zenon DEF WorkerStep

\* The relayer key is quarantined by a holder of the mutex only.
LEMMA RelayerFrame ==
  ASSUME [Next]_vars
  PROVE  \/ relayer' = relayer
         \/ \E w \in Workers : WorkerQuarantine(w)
         \/ \E p \in Procs : ReconcileQuarantine(p)
<1> DEFINE Same == relayer' = relayer
<1>0. \A h, response, actual : MarkTerminal(h, response, actual, 0) => Same
  BY Zenon DEF MarkTerminal
<1>1. (UNCHANGED jvars => Same) /\ \A h : (MarkAwaitingRetry(h) \/ MarkSubmitted(h)) => Same
  BY Zenon DEF jvars, MarkAwaitingRetry, MarkSubmitted
<1>2. ASSUME NEW p \in Procs, ProcessStep(p) PROVE Same
  BY <1>1, <1>2, Zenon DEF ProcessStep, AcquireLeadership, LoseSession, HeartbeatFails, RefreshReadiness, Crash, Admit
<1>3. ASSUME NEW x \in Handlers, HandlerStep(x) PROVE Same
  BY <1>1, <1>3, Zenon DEF HandlerStep, Claim, Resume, ClaimInsert, ResumeAwaitingRetry
<1>4. ASSUME NEW w \in Workers, WorkerStep(w), ~WorkerQuarantine(w) PROVE Same
  <2>1. ASSUME NEW response \in Responses, WorkerTerminalize(w, response) PROVE Same
    BY <1>0, <1>1, <2>1, TerminalizeFrame, Zenon DEF WorkerTerminalize
  <2>2. CASE WorkerPrepare(w)
    BY <1>1, <2>2, Zenon DEF WorkerPrepare, WorkerStore, StoreCall, MarkPrepared
  <2> QED BY <1>1, <1>4, <2>1, <2>2, Zenon DEF WorkerStep, WorkerLock, WorkerVerify, WorkerRetry, WorkerSign,
        WorkerRecheck, WorkerSubmit, WorkerStore, WorkerSend, WorkerAwait, StoreCall
<1>5. ASSUME NEW p \in Procs, ReconcileStep(p), ~ReconcileQuarantine(p) PROVE Same
  <2>1. ASSUME NEW response, ReconcileFinalize(p, response) \/ ReconcileGiveUp(p, response) PROVE Same
    BY <1>0, <1>1, <2>1, TerminalizeFrame, Zenon DEF ReconcileFinalize, ReconcileGiveUp
  <2> QED BY <1>1, <1>5, <2>1, Zenon DEF ReconcileStep, ReconcileBegin, ReconcileScan, ReconcileRelease, ReconcileAbort,
        ReconcileNext, ReconcileRemaining, ReconcileOpen, ReconcileStatus, ReconcilePending, ReconcileHeads,
        ReconcileResubmit, ReconcileCheck, ReconcileRebroadcast, ReconcileAwait, StoreCall
<1>6. CASE ChainStep \/ UNCHANGED vars
  BY <1>1, <1>6, ChainFrame, Zenon
<1> QED BY <1>2, <1>3, <1>4, <1>5, <1>6, Zenon DEF Next

-----------------------------------------------------------------------------
(* The mutex and the reconciliation gate.                                  *)

LEMMA MutexStep ==
  ASSUME TypeOK, Mutex, [Next]_vars
  PROVE  Mutex'
<1>0. WorkersOK /\ ReconcilesOK
  BY Zenon DEF TypeOK, EngineTypeOK
<1>1. ASSUME NEW w \in Workers, WorkerLock(w)
      PROVE  /\ LockFree(worker[w].proc)
             /\ UNCHANGED rc
             /\ \A v \in Workers : v # w => worker'[v] = worker[v]
  BY <1>0, <1>1, Zenon DEF WorkerLock, Goto, WorkersOK
<1>2. ASSUME NEW p \in Procs, ReconcileScan(p) PROVE LockFree(p) /\ UNCHANGED worker
  BY <1>2, Zenon DEF ReconcileScan
<1>3. ASSUME NEW w \in Workers, NEW v \in Workers, Holds(w)', Holds(v)', worker'[w].proc = worker'[v].proc
      PROVE  w = v
  <2>1. /\ worker[w].proc = worker[v].proc
        /\ Holds(w) \/ WorkerLock(w)
        /\ Holds(v) \/ WorkerLock(v)
    BY <1>3, HoldsFrame, Zenon
  <2>2. CASE Holds(w) /\ Holds(v)
    BY <2>1, <2>2, Zenon DEF Mutex
  <2>3. CASE WorkerLock(w)
    <3>1. v # w => worker'[v] = worker[v] /\ ~Holds(v)
      BY <1>1, <2>1, <2>3, Zenon DEF LockFree
    <3> QED BY <1>3, <3>1, Zenon DEF Holds
  <2>4. CASE WorkerLock(v)
    <3>1. w # v => worker'[w] = worker[w] /\ ~Holds(w)
      BY <1>1, <2>1, <2>4, Zenon DEF LockFree
    <3> QED BY <1>3, <3>1, Zenon DEF Holds
  <2> QED BY <2>1, <2>2, <2>3, <2>4, Zenon
<1>4. ASSUME NEW p \in Procs, NEW w \in Workers, Reconciling(p)', Holds(w)' PROVE worker'[w].proc # p
  <2>1. worker'[w].proc = worker[w].proc /\ (Holds(w) \/ WorkerLock(w))
    BY <1>4, HoldsFrame, Zenon
  <2>2. Reconciling(p) \/ ReconcileScan(p)
    BY <1>4, ReconcilingFrame, Zenon
  <2>3. CASE Holds(w) /\ Reconciling(p)
    BY <2>1, <2>3, Zenon DEF Mutex
  <2>4. CASE WorkerLock(w)
    <3>1. Reconciling(p)
      BY <1>1, <1>4, <2>4, Zenon DEF Reconciling
    <3> QED BY <1>1, <2>1, <2>4, <3>1, Zenon DEF LockFree
  <2>5. CASE ReconcileScan(p)
    <3>1. Holds(w)
      BY <1>2, <1>4, <2>5, Zenon DEF Holds
    <3> QED BY <1>2, <2>1, <2>5, <3>1, Zenon DEF LockFree
  <2> QED BY <2>1, <2>2, <2>3, <2>4, <2>5, Zenon
<1> QED BY <1>3, <1>4, Zenon DEF Mutex

\* With one process no two tasks are past their lock at the same time.
LEMMA Alone ==
  ASSUME OneProcess, TypeOK, Mutex, NEW w \in Workers, Holds(w)
  PROVE  /\ worker[w].proc \in Procs
         /\ \A v \in Workers : Holds(v) => v = w
         /\ \A p \in Procs : worker[w].proc = p /\ ~Reconciling(p)
<1>1. \A v \in Workers : Holds(v) => worker[v].proc \in Procs
  BY Zenon DEF TypeOK, EngineTypeOK, WorkersOK, At, Holds
<1> QED BY <1>1, Zenon DEF OneProcess, Mutex

LEMMA PrepareHolds ==
  ASSUME NEW w, WorkerPrepare(w)
  PROVE  Holds(w) /\ worker[w].pc = "prepare" /\ WorkerStep(w) /\ UNCHANGED rc
  BY Zenon DEF WorkerPrepare, WorkerStore, At, Holds, WorkerStep

\* While the gate stays open nobody but the worker itself moves a worker that
\* holds the mutex.
LEMMA HolderMoves ==
  ASSUME OneProcess, TypeOK, [Next]_vars, NEW w \in Workers, Holds(w),
         gate'[worker[w].proc].reconciliation
  PROVE  worker'[w] = worker[w] \/ WorkerStep(w)
<1>0. WorkersOK /\ gate \in [Procs -> Gates] /\ worker[w].proc \in Procs
  BY Zenon DEF TypeOK, EngineTypeOK, WorkersOK, At, Holds, Gates
<1>1. ASSUME NEW v \in Workers, WorkerStep(v), v # w PROVE worker'[w] = worker[w]
  <2>1. \/ EndWorker(v) \/ \E pc : Goto(v, pc)
        \/ \E n : worker' = [worker EXCEPT ![v].pc = "prepare", ![v].nonce = n]
    BY <1>1, Zenon DEF WorkerStep, WorkerLock, WorkerVerify, WorkerRetry, WorkerTerminalize, WorkerSign,
         WorkerPrepare, WorkerStore, WorkerRecheck, WorkerQuarantine, WorkerSubmit, WorkerSend,
         WorkerAwait, StoreCall
  <2> QED BY <1>0, <1>1, <2>1, Zenon DEF EndWorker, Goto, WorkersOK
<1>2. ASSUME NEW x \in Handlers, HandlerStep(x) PROVE worker'[w] = worker[w]
  <2>1. UNCHANGED worker \/ \E p, h : Spawn(p, h)
    BY <1>2, Zenon DEF HandlerStep, Claim, Resume, SpawnOrStrand
  <2>2. ASSUME NEW p, NEW h, Spawn(p, h) PROVE worker'[w] = worker[w]
    <3>1. PICK v \in Workers :
            /\ worker[v].pc = "idle"
            /\ worker' = [worker EXCEPT ![v] = [pc |-> "queued", proc |-> p, hash |-> h, nonce |-> 0]]
      BY <2>2, Zenon DEF Spawn, At
    <3> QED BY <1>0, <3>1, Zenon DEF WorkersOK, Holds
  <2> QED BY <2>1, <2>2, Zenon
<1>3. ASSUME NEW p \in Procs, ProcessStep(p) PROVE worker'[w] = worker[w]
  <2>1. ~Crash(p)
    <3>1. Crash(p) => gate'[p] = ClosedGate
      BY <1>0, Zenon DEF Crash
    <3>2. ClosedGate.reconciliation = FALSE
      BY Zenon DEF ClosedGate
    <3> QED BY <1>0, <3>1, <3>2, Zenon DEF OneProcess
  <2> QED BY <1>3, <2>1, Zenon DEF ProcessStep, AcquireLeadership, LoseSession, HeartbeatFails, RefreshReadiness, Admit
<1>4. ASSUME NEW p \in Procs, ReconcileStep(p) PROVE worker'[w] = worker[w]
  BY <1>4, ReconcileFrame, Zenon
<1>5. CASE ChainStep \/ UNCHANGED vars
  BY <1>5, ChainFrame, Zenon
<1> QED BY <1>1, <1>2, <1>3, <1>4, <1>5, Zenon DEF Next

LEMMA UnresolvedHeldStep ==
  ASSUME OneProcess, RowsInv, TypeOK, TasksInv, GateInv, [Next]_vars
  PROVE  UnresolvedHeld'
<1> SUFFICES ASSUME NEW p \in Procs, NEW h \in Hashes, gate'[p].reconciliation, rows'[h].state \in Unresolved
             PROVE  \E w \in Workers : Holds(w)' /\ worker'[w].hash = h
  BY Zenon DEF UnresolvedHeld, Holds
<1>0. Mutex /\ UnresolvedHeld /\ OpenMeansResolved
  BY Zenon DEF GateInv
<1>1. ~(ReconcileOpen(p) /\ rc[p].empty)
  <2> SUFFICES ASSUME ReconcileOpen(p), rc[p].empty PROVE FALSE
    BY Zenon
  <2>1. rows' = rows /\ rc[p].pc = "open"
    BY Zenon DEF ReconcileOpen, jvars
  <2> QED BY <1>0, <2>1, Zenon DEF OpenMeansResolved
<1>2. gate[p].reconciliation
  BY <1>1, GateOpens, Zenon
<1>3. PICK w \in Workers : Holds(w) /\ worker[w].hash = h
  <2>1. CASE rows[h].state \in Unresolved
    BY <1>0, <1>2, <2>1, Zenon DEF UnresolvedHeld
  <2>2. CASE rows[h].state \notin Unresolved
    <3>1. PICK w \in Workers : WorkerPrepare(w) /\ worker[w].hash = h
      BY <2>2, RowsFrame, Zenon DEF NoSign
    <3> QED BY <3>1, PrepareHolds, Zenon
  <2> QED BY <2>1, <2>2, Zenon
<1>4. worker[w].proc = p
  BY <1>0, <1>3, Alone, Zenon
<1>5. CASE WorkerStep(w)
  <2>1. Holds(w)'
    BY <1>3, <1>4, <1>5, HolderEnds, Zenon
  <2> QED BY <1>3, <2>1, HoldsFrame, Zenon
<1>6. CASE worker'[w] = worker[w]
  BY <1>3, <1>6, Zenon DEF Holds
<1>7. worker'[w] = worker[w] \/ WorkerStep(w)
  BY <1>0, <1>3, <1>4, HolderMoves, Zenon
<1> QED BY <1>5, <1>6, <1>7, Zenon

LEMMA OpenMeansResolvedStep ==
  ASSUME OneProcess, RowsInv, TypeOK, TasksInv, GateInv, [Next]_vars
  PROVE  OpenMeansResolved'
<1> SUFFICES ASSUME NEW p \in Procs, NEW h \in Hashes, rc'[p].pc = "open", rc'[p].empty
             PROVE  rows'[h].state \notin Unresolved
  BY Zenon DEF OpenMeansResolved
<1>0. Mutex /\ OpenMeansResolved
  BY Zenon DEF GateInv
<1>1. CASE ReconcileRemaining(p)
  <2> DEFINE none == (RowsIn(Active) = {})
  <2>1. rows' = rows /\ rc' = [rc EXCEPT ![p] = [IdleRc EXCEPT !.pc = "open", !.empty = none]]
    BY <1>1, Zenon DEF ReconcileRemaining, jvars
  <2>2. rc'[p] = [IdleRc EXCEPT !.pc = "open", !.empty = none]
    BY <2>1, Zenon DEF TypeOK, EngineTypeOK, ReconcilesOK
  <2>3. rc'[p].empty = none
    <3> HIDE DEF none
    <3> QED BY <2>2, Zenon DEF IdleRc
  <2>4. RowsIn(Active) = {}
    BY <2>3, Zenon
  <2> QED BY <2>1, <2>4, Zenon DEF RowsIn, Active, Unresolved
<1>2. CASE rc'[p] = rc[p]
  <2>1. rows[h].state \notin Unresolved /\ Reconciling(p)
    BY <1>0, <1>2, Zenon DEF OpenMeansResolved, Reconciling
  <2>2. \A w \in Workers : ~WorkerPrepare(w)
    BY <1>0, <2>1, PrepareHolds, Alone, Zenon
  <2> QED BY <2>1, <2>2, RowsFrame, Zenon DEF NoSign
<1> QED BY <1>1, <1>2, ReconcilingFrame, Zenon

LEMMA SignsFreshStep ==
  ASSUME OneProcess, RowsInv, TypeOK, TasksInv, GateInv, [Next]_vars
  PROVE  SignsFresh'
<1> DEFINE Early == {"verify", "sign", "protocol_failure"}
<1> SUFFICES ASSUME NEW w \in Workers, worker'[w].pc \in Early
             PROVE  rows'[worker'[w].hash].state \notin Unresolved
  BY Zenon DEF SignsFresh
<1>0. Mutex /\ UnresolvedHeld /\ SignsFresh /\ WorkersOK
  BY Zenon DEF GateInv, TypeOK, EngineTypeOK
<1>1. Holds(w)'
  BY Zenon DEF Holds
<1>2. /\ worker'[w].hash = worker[w].hash
      /\ Holds(w) \/ WorkerLock(w)
      /\ worker'[w] = worker[w] \/ WorkerStep(w)
  BY <1>1, HoldsFrame, Zenon
<1>3. worker[w].hash \in Hashes /\ worker[w].proc \in Procs
  BY <1>0, <1>2, Zenon DEF WorkersOK, WorkerLock, At, Holds
<1>4. CASE worker'[w] = worker[w]
  <2>1. Holds(w) /\ rows[worker[w].hash].state \notin Unresolved
    BY <1>0, <1>4, Zenon DEF SignsFresh, Holds
  <2>2. \A v \in Workers : ~WorkerPrepare(v)
    BY <1>0, <1>4, <2>1, PrepareHolds, Alone, Zenon
  <2> QED BY <1>2, <1>3, <2>1, <2>2, RowsFrame, Zenon DEF NoSign
<1>5. CASE WorkerVerify(w)
  <2>1. rows' = rows /\ worker[w].pc = "verify"
    BY <1>5, Zenon DEF WorkerVerify, At, jvars
  <2> QED BY <1>0, <1>2, <2>1, Zenon DEF SignsFresh
<1>6. CASE WorkerLock(w) /\ CanSettle(worker[w].proc)
  <2>1. rows' = rows /\ gate[worker[w].proc].reconciliation
    BY <1>6, Zenon DEF WorkerLock, CanSettle, jvars
  <2>2. \A v \in Workers : ~Holds(v)
    <3>1. \A v \in Workers : Holds(v) => worker[v].proc = worker[w].proc
      BY <1>0, <1>3, Alone, Zenon
    <3> QED BY <1>6, <3>1, Zenon DEF WorkerLock, LockFree
  <2> QED BY <1>0, <1>2, <1>3, <2>1, <2>2, Zenon DEF UnresolvedHeld
<1> QED BY <1>0, <1>2, <1>4, <1>5, <1>6, WorkerGoes, Zenon

LEMMA KeyActiveStep ==
  ASSUME OneProcess, RowsInv, TypeOK, TasksInv, GateInv, [Next]_vars
  PROVE  KeyActive'
<1> DEFINE Using == {"prepare", "recheck", "submit", "send"}
<1> SUFFICES ASSUME NEW w \in Workers, worker'[w].pc \in Using
             PROVE  relayer' = "active"
  BY Zenon DEF KeyActive
<1>0. Mutex /\ KeyActive /\ WorkersOK
  BY Zenon DEF GateInv, TypeOK, EngineTypeOK
<1>1. Holds(w)'
  BY Zenon DEF Holds
<1>2. worker'[w] = worker[w] \/ WorkerStep(w)
  BY <1>1, HoldsFrame, Zenon
<1>3. relayer = "active" /\ (Holds(w) \/ WorkerLock(w))
  BY <1>0, <1>1, <1>2, HoldsFrame, WorkerGoes, Zenon DEF KeyActive
<1>4. ~WorkerLock(w)
  <2>1. WorkerLock(w) => worker'[w].pc \in {"verify", "retry"}
    BY <1>0, Zenon DEF WorkerLock, Goto, WorkersOK
  <2> QED BY <2>1, Zenon
<1>5. \A v \in Workers : ~WorkerQuarantine(v)
  <2> SUFFICES ASSUME NEW v \in Workers, WorkerQuarantine(v) PROVE FALSE
    BY Zenon
  <2>1. Holds(v) /\ worker'[v].pc = "idle"
    BY <1>0, Zenon DEF WorkerQuarantine, At, Holds, EndWorker, IdleWorker, WorkersOK
  <2>2. v = w
    BY <1>0, <1>3, <1>4, <2>1, Alone, Zenon
  <2> QED BY <2>1, <2>2, Zenon
<1>6. \A p \in Procs : ~ReconcileQuarantine(p)
  <2>1. \A p \in Procs : ReconcileQuarantine(p) => Reconciling(p)
    BY Zenon DEF ReconcileQuarantine, Reconciling
  <2> QED BY <1>0, <1>3, <1>4, <2>1, Alone, Zenon
<1> QED BY <1>3, <1>5, <1>6, RelayerFrame, Zenon

LEMMA GateInvInit == Init => GateInv
<1> SUFFICES ASSUME Init PROVE GateInv
  BY Zenon
<1>1. \A w \in Workers : worker[w].pc = "idle"
  BY Zenon DEF Init, EngineInit, IdleWorker
<1>2. \A p \in Procs : rc[p].pc = "idle"
  BY Zenon DEF Init, EngineInit, IdleRc
<1>3. \A h \in Hashes : rows[h].state = "absent"
  BY Zenon DEF Init, EngineInit, JournalInit, AbsentRow
<1> QED BY <1>1, <1>2, <1>3, Zenon DEF GateInv, Mutex, UnresolvedHeld, OpenMeansResolved, SignsFresh, KeyActive,
             Holds, Reconciling, Unresolved

LEMMA GateInvStep ==
  ASSUME OneProcess, EngineInv, GateInv, [Next]_vars
  PROVE  GateInv'
<1>1. RowsInv /\ TypeOK /\ TasksInv
  BY Zenon DEF EngineInv
<1>2. Mutex'
  BY <1>1, MutexStep, Zenon DEF GateInv
<1> QED BY <1>1, <1>2, UnresolvedHeldStep, OpenMeansResolvedStep, SignsFreshStep, KeyActiveStep, Zenon DEF GateInv

\* On a deployment of one process the reconciliation gate is sound: while it
\* is open and the relayer mutex free, no transaction is unresolved, whatever
\* crashed, timed out or was released and resumed (run_new_settlement,
\* reconcile, ReadinessState).
THEOREM GateIsSound == OneProcess => (Spec => []GateSound)
<1> SUFFICES ASSUME OneProcess PROVE Spec => []GateSound
  BY Zenon
<1>1. EngineInv /\ GateInv => GateSound
  <2> SUFFICES ASSUME EngineInv, GateInv, NEW p \in Procs, NEW h \in Hashes,
                      gate[p].reconciliation, LockFree(p), rows[h].state \in {"prepared", "submitted"}
               PROVE  FALSE
    BY Zenon DEF GateSound, RowsIn
  <2>1. PICK w \in Workers : Holds(w)
    BY Zenon DEF GateInv, UnresolvedHeld, Unresolved
  <2>2. worker[w].proc = p
    BY <2>1, Alone, Zenon DEF EngineInv, GateInv
  <2> QED BY <2>1, <2>2, Zenon DEF LockFree
<1>2. EngineInv /\ GateInv /\ [Next]_vars => GateInv'
  BY GateInvStep, Zenon
<1> QED BY <1>1, <1>2, EngineInitInv, EngineInvStep, GateInvInit, PTL DEF Spec

\* On a deployment of one process a quarantined relayer key is left alone:
\* nothing is signed with it and nothing is sent, not even when a readiness
\* refresh that read the policy before the quarantine opens the relayer gate
\* again (fresh_signer_head, quarantine_relayer).
THEOREM QuarantineIsFinal == OneProcess => (Spec => QuarantineStopsBroadcast)
<1> SUFFICES ASSUME OneProcess PROVE Spec => QuarantineStopsBroadcast
  BY Zenon
<1> DEFINE Stops == relayer = "quarantined" =>
                      net' = net /\ \A h \in Hashes : rows'[h].nonce = rows[h].nonce
<1>1. ASSUME EngineInv, GateInv, [Next]_vars, relayer = "quarantined"
      PROVE  net' = net /\ \A h \in Hashes : rows'[h].nonce = rows[h].nonce
  <2>0. RowsInv /\ TypeOK /\ TasksInv
    BY <1>1, Zenon DEF EngineInv
  <2>1. \A w \in Workers : ~WorkerPrepare(w) /\ ~WorkerSend(w)
    BY <1>1, Zenon DEF GateInv, KeyActive, WorkerPrepare, WorkerSend, At
  <2>2. \A h \in Hashes : rows'[h].nonce = rows[h].nonce
    BY <1>1, <2>0, <2>1, RowsFrame, Zenon DEF NoSign
  <2>3. \A p : ReconcileRebroadcast(p) => net' = net
    BY <1>1, Zenon DEF ReconcileRebroadcast
  <2>4. (\E p \in Procs : ProcessStep(p)) => net' = net
    BY Zenon DEF ProcessStep, chain
  <2>5. (\E x \in Handlers : HandlerStep(x)) => net' = net
    BY HandlerFrame, Zenon DEF chain
  <2>6. ChainStep \/ UNCHANGED vars => net' = net
    BY ChainFrame, Zenon
  <2>7. net' = net
    BY <1>1, <2>1, <2>3, <2>4, <2>5, <2>6, WorkerFrame, ReconcileFrame, Zenon DEF Next
  <2> QED BY <2>2, <2>7, Zenon
<1>2. EngineInv /\ GateInv /\ [Next]_vars => [Stops]_vars
  BY <1>1, Zenon
<1>3. EngineInv /\ GateInv /\ [Next]_vars => GateInv'
  BY GateInvStep, Zenon
<1> QED BY <1>2, <1>3, EngineInitInv, EngineInvStep, GateInvInit, PTL DEF Spec, QuarantineStopsBroadcast

-----------------------------------------------------------------------------
(* The chain and the verdicts.                                             *)

\* The key's nonce never goes down; an outcome used a nonce up to the one of
\* its block; a transfer happened in time, for an acceptable payment; and no
\* submission is executed twice.
ChainInv ==
  /\ \A a, b \in 0..height : a <= b => nonceAt[a] <= nonceAt[b]
  /\ \A o \in final :
       /\ o.at <= height
       /\ o.tx.nonce <= nonceAt[o.at]
       /\ o.ok => o.at <= Expiry /\ o.tx.hash \notin Unacceptable
  /\ \A o1, o2 \in final : o1.tx = o2.tx => o1 = o2

\* The payment has not been made, and no later block can make it.
Dead(h) ==
  /\ ~Paid(h)
  /\ \/ h \in Unacceptable
     \/ height >= Expiry
     \/ \E o \in final : o.tx = Submission(h)
     \/ rows[h].nonce = 0 /\ rows[h].state \in Terminal

\* Verdicts, the ones that tasks carry to the journal included, are true and
\* stay true.
RowVerdicts ==
  \A h \in Hashes :
    /\ rows[h].state = "succeeded" => Paid(h)
    /\ rows[h].state = "failed" => Dead(h)

WorkerVerdicts ==
  \A w \in Workers :
    /\ worker[w].pc = "await" =>
         worker[w].nonce \in Nonces /\ rows[worker[w].hash].nonce = worker[w].nonce
    /\ worker[w].pc = "success" => Paid(worker[w].hash)
    /\ worker[w].pc \in {"transaction_failed", "transaction_rejected"} => Dead(worker[w].hash)

ReconcileVerdicts ==
  \A p \in Procs :
    /\ rc[p].pc = "success" => Paid(rc[p].cur)
    /\ rc[p].pc \in Responses \ {"success"} => Dead(rc[p].cur)

VerdictInv == RowVerdicts /\ WorkerVerdicts /\ ReconcileVerdicts

\* Only a block changes the outcomes, the height and the nonces.
LEMMA ChainKeeps ==
  ASSUME [Next]_vars, ~ChainStep
  PROVE  UNCHANGED <<final, height, nonceAt>>
<1>1. ASSUME NEW p \in Procs, ProcessStep(p) \/ ReconcileStep(p) PROVE UNCHANGED <<final, height, nonceAt>>
  BY <1>1, ReconcileFrame, Zenon DEF ProcessStep, chain
<1>2. ASSUME NEW w \in Workers, WorkerStep(w) PROVE UNCHANGED <<final, height, nonceAt>>
  BY <1>2, WorkerFrame, Zenon
<1>3. CASE (\E x \in Handlers : HandlerStep(x)) \/ UNCHANGED vars
  BY <1>3, HandlerFrame, Zenon DEF vars, chain
<1> QED BY <1>1, <1>2, <1>3, Zenon DEF Next

\* A block that takes up a submission pays its payment when the inner transfer
\* succeeds, and no other.
LEMMA PaidGrows ==
  ASSUME NEW t, NEW ok \in BOOLEAN, MineSubmission(t, ok)
  PROVE  \A g : Paid(g)' <=> Paid(g) \/ (ok /\ g = t.hash)
<1> DEFINE new == [tx |-> t, ok |-> ok, at |-> height + 1]
<1>1. final' = final \cup {new}
  BY Zenon DEF MineSubmission
<1>2. new.tx = t /\ new.ok = ok
  BY Zenon
<1> HIDE DEF new
<1> QED BY <1>1, <1>2, Zenon DEF Paid

LEMMA NoncesArePositive == Nonces \subseteq Nat /\ 0 \notin Nonces
  BY ConstantsAssumption, Zenon

\* The numbers of the chain.
LEMMA ChainNumbers ==
  ASSUME TypeOK
  PROVE  /\ height \in 0..MaxHeight /\ height \in Nat
         /\ \A b \in 0..MaxHeight : nonceAt[b] \in Nat
         /\ \A t \in net : t.hash \in Hashes /\ t.nonce \in Nonces /\ t.nonce \in Nat
         /\ \A o \in final : o.tx \in net /\ o.at \in Nat
<1> USE NearAssumption, ConstantsAssumption
<1>1. {0} \cup Nonces \subseteq Nat /\ Nonces \subseteq Nat
  OBVIOUS
<1>2. \A b \in 0..MaxHeight : nonceAt[b] \in Nat
  BY <1>1, Zenon DEF TypeOK
<1>3. height \in 0..MaxHeight /\ height \in Nat
  BY DEF TypeOK
<1>4. \A t \in net : t.hash \in Hashes /\ t.nonce \in Nonces
  BY Zenon DEF TypeOK
<1>5. \A o \in final : o.tx \in net /\ o.at \in Nat
  BY DEF TypeOK
<1> QED BY <1>1, <1>2, <1>3, <1>4, <1>5, Zenon

\* A block is one more, and the key's nonce does not go down.
LEMMA BlockStep ==
  ASSUME TypeOK, ChainInv, ChainStep
  PROVE  /\ height' = height + 1
         /\ \A b \in 0..height : nonceAt'[b] = nonceAt[b]
         /\ nonceAt[height] <= nonceAt'[height + 1]
         /\ \/ final' = final
            \/ \E t \in net, ok \in BOOLEAN :
                 /\ MineSubmission(t, ok)
                 /\ nonceAt'[height + 1] = t.nonce
<1> USE NearAssumption, ConstantsAssumption
<1>0. /\ height \in 0..MaxHeight
      /\ \A b \in 0..MaxHeight : nonceAt[b] \in Nat
      /\ \A t \in net : t.nonce \in Nat
  BY ChainNumbers, Zenon
<1>1. ASSUME NEW n \in Nat, n >= nonceAt[height], height < MaxHeight, height' = height + 1,
             nonceAt' = [b \in 0..MaxHeight |-> IF b > height THEN n ELSE nonceAt[b]]
      PROVE  /\ \A b \in 0..height : nonceAt'[b] = nonceAt[b]
             /\ nonceAt[height] <= nonceAt'[height + 1] /\ nonceAt'[height + 1] = n
  <2>1. height + 1 \in 0..MaxHeight /\ height + 1 > height
    BY <1>0, <1>1
  <2>2. \A b \in 0..height : b \in 0..MaxHeight /\ ~(b > height)
    BY <1>0
  <2>3. nonceAt'[height + 1] = n
    BY <1>1, <2>1, Zenon
  <2>4. \A b \in 0..height : nonceAt'[b] = nonceAt[b]
    BY <1>1, <2>2, Zenon
  <2> QED BY <1>1, <2>3, <2>4, Zenon
<1>2. ASSUME NEW t \in net, NEW ok \in BOOLEAN, MineSubmission(t, ok)
      PROVE  /\ height' = height + 1
             /\ \A b \in 0..height : nonceAt'[b] = nonceAt[b]
             /\ nonceAt[height] <= nonceAt'[height + 1]
             /\ nonceAt'[height + 1] = t.nonce
  <2>1. t.nonce \in Nat /\ nonceAt[height] \in Nat /\ t.nonce > nonceAt[height]
    BY <1>0, <1>2, Zenon DEF MineSubmission
  <2>2. t.nonce >= nonceAt[height]
    BY <2>1
  <2> QED BY <1>1, <1>2, <2>1, <2>2, Zenon DEF MineSubmission, NextBlock
<1>3. CASE MineForeign \/ MineEmpty
  <2>1. nonceAt[height] \in Nat /\ nonceAt[height] + 1 \in Nat
    BY <1>0
  <2>2. nonceAt[height] >= nonceAt[height] /\ nonceAt[height] + 1 >= nonceAt[height]
    BY <2>1
  <2> QED BY <1>1, <1>3, <2>1, <2>2, Zenon DEF MineForeign, MineEmpty, NextBlock
<1> QED BY <1>2, <1>3, Zenon DEF ChainStep

LEMMA ChainInvStep ==
  ASSUME TypeOK, ChainInv, [Next]_vars
  PROVE  ChainInv'
<1> USE NearAssumption, ConstantsAssumption
<1>0. /\ height \in 0..MaxHeight
      /\ \A b \in 0..height : nonceAt[b] \in Nat
      /\ \A o \in final : o.at \in Nat /\ o.tx \in net /\ o.tx.nonce \in Nat /\ o.at \in 0..height
  <2>1. \A o \in final : o.at \in 0..height
    BY ChainNumbers DEF ChainInv
  <2>2. \A b \in 0..height : b \in 0..MaxHeight
    BY ChainNumbers
  <2> QED BY <2>1, <2>2, ChainNumbers, Zenon
<1>1. CASE ~ChainStep
  BY <1>1, ChainKeeps, Zenon DEF ChainInv
<1>2. CASE ChainStep
  <2>0. /\ height' = height + 1
        /\ \A b \in 0..height : nonceAt'[b] = nonceAt[b]
        /\ nonceAt[height] <= nonceAt'[height + 1]
    BY <1>2, BlockStep, Zenon
  <2>1. nonceAt'[height + 1] \in Nat
    <3>1. nonceAt' \in [0..MaxHeight -> {0} \cup Nonces] /\ height' \in 0..MaxHeight
      BY <1>2, ChainTypeStep, ChainFrame, Zenon
    <3>2. {0} \cup Nonces \subseteq Nat
      OBVIOUS
    <3>3. nonceAt'[height'] \in Nat
      BY <3>1, <3>2, Zenon
    <3> QED BY <2>0, <3>3, Zenon
  <2>2. ASSUME NEW a \in 0..height', NEW b \in 0..height', a <= b PROVE nonceAt'[a] <= nonceAt'[b]
    <3>1. CASE b <= height
      <4>1. a \in 0..height /\ b \in 0..height
        BY <1>0, <2>0, <2>2, <3>1
      <4> QED BY <2>0, <2>2, <4>1, Zenon DEF ChainInv
    <3>2. CASE b = height + 1 /\ a <= height
      <4>1. a \in 0..height /\ height \in 0..height
        BY <1>0, <2>0, <2>2, <3>2
      <4>2. nonceAt[a] <= nonceAt[height]
        BY <4>1 DEF ChainInv
      <4> QED BY <1>0, <2>0, <2>1, <3>2, <4>1, <4>2
    <3>3. CASE b = height + 1 /\ a = height + 1
      BY <2>1, <3>3
    <3> QED BY <1>0, <2>0, <2>2, <3>1, <3>2, <3>3
  <2>3. ASSUME NEW o \in final
        PROVE  o.at <= height' /\ o.tx.nonce <= nonceAt'[o.at] /\ (o.ok => o.at <= Expiry /\ o.tx.hash \notin Unacceptable)
    BY <1>0, <2>0 DEF ChainInv
  <2>4. CASE final' = final
    BY <2>2, <2>3, <2>4, Zenon DEF ChainInv
  <2>5. ASSUME NEW t \in net, NEW ok \in BOOLEAN, MineSubmission(t, ok), nonceAt'[height + 1] = t.nonce
        PROVE  ChainInv'
    <3> DEFINE new == [tx |-> t, ok |-> ok, at |-> height + 1]
    <3>1. /\ final' = final \cup {new}
          /\ t.nonce > nonceAt[height]
          /\ t.hash \notin Unacceptable
          /\ ok => height + 1 <= Expiry
      BY <2>5, Zenon DEF MineSubmission
    <3>2. \A o \in final : o.tx # t
      <4> SUFFICES ASSUME NEW o \in final, o.tx = t PROVE FALSE
        BY Zenon
      <4>1. o.at \in 0..height /\ height \in 0..height /\ o.at <= height
        BY <1>0
      <4>2. o.tx.nonce <= nonceAt[o.at] /\ nonceAt[o.at] <= nonceAt[height]
        BY <4>1, Zenon DEF ChainInv
      <4> QED BY <1>0, <3>1, <4>1, <4>2
    <3>3. /\ new.tx = t /\ new.ok = ok /\ new.at = height + 1
      BY Zenon
    <3>4. new.at <= height' /\ new.tx.nonce <= nonceAt'[new.at]
      BY <1>0, <2>0, <2>1, <2>5, <3>3
    <3>5. new.ok => new.at <= Expiry /\ new.tx.hash \notin Unacceptable
      BY <3>1, <3>3, Zenon
    <3> HIDE DEF new
    <3>6. \A o \in final' : o.at <= height' /\ o.tx.nonce <= nonceAt'[o.at] /\ (o.ok => o.at <= Expiry /\ o.tx.hash \notin Unacceptable)
      BY <2>3, <3>1, <3>4, <3>5, Zenon
    <3>7. \A o1, o2 \in final' : o1.tx = o2.tx => o1 = o2
      BY <3>1, <3>2, <3>3, Zenon DEF ChainInv
    <3> QED BY <2>2, <3>6, <3>7, Zenon DEF ChainInv
  <2> QED BY <1>2, <2>4, <2>5, BlockStep, Zenon
<1> QED BY <1>1, <1>2, Zenon

\* What the chain executed is the row's own submission.
LEMMA OwnSubmission ==
  ASSUME EngineInv, NEW t \in net
  PROVE  /\ t.hash \in Hashes
         /\ t = Submission(t.hash)
         /\ rows[t.hash].nonce # 0
         /\ rows[t.hash].state \in {"submitted"} \cup Terminal
<1>1. t \in [hash: Hashes, nonce: Nonces]
  BY Zenon DEF EngineInv, TypeOK
<1>2. rows[t.hash].nonce = t.nonce /\ rows[t.hash].state \in {"submitted"} \cup Terminal
  BY Zenon DEF EngineInv, JournaledBeforeBroadcast
<1>3. t.nonce # 0
  BY <1>1, ConstantsAssumption, Zenon
<1> QED BY <1>1, <1>2, <1>3, Zenon DEF Submission

\* A payment that was made stays made.
LEMMA PaidStays ==
  ASSUME TypeOK, ChainInv, [Next]_vars, NEW h, Paid(h)
  PROVE  Paid(h)'
<1>1. final \subseteq final'
  <2>1. CASE ~ChainStep
    BY <2>1, ChainKeeps, Zenon
  <2>2. CASE ChainStep
    <3>1. \A t, ok : MineSubmission(t, ok) => final \subseteq final'
      BY Zenon DEF MineSubmission
    <3> QED BY <2>2, <3>1, BlockStep, Zenon
  <2> QED BY <2>1, <2>2, Zenon
<1> QED BY <1>1, Zenon DEF Paid

\* A terminal row never changes.
LEMMA TerminalStays ==
  ASSUME EngineInv, [Next]_vars, NEW h \in Hashes, rows[h].state \in Terminal
  PROVE  rows'[h] = rows[h]
<1>1. RowsInv /\ (JournalNext \/ UNCHANGED jvars)
  BY EngineUsesJournal, Zenon DEF EngineInv
<1> QED BY <1>1, PermanentStep, Zenon DEF RowStays, jvars

\* A payment that is dead stays dead.
LEMMA DeadStays ==
  ASSUME EngineInv, ChainInv, [Next]_vars, NEW h \in Hashes, Dead(h)
  PROVE  Dead(h)'
<1> USE NearAssumption, ConstantsAssumption
<1>0. RowsInv /\ TypeOK /\ TasksInv /\ height \in 0..MaxHeight
  BY Zenon DEF EngineInv, TypeOK
<1>1. final \subseteq final' /\ (height >= Expiry => height' >= Expiry)
  <2>1. CASE ~ChainStep
    BY <2>1, ChainKeeps, Zenon
  <2>2. CASE ChainStep
    <3>1. \A t, ok : MineSubmission(t, ok) => final \subseteq final'
      BY Zenon DEF MineSubmission
    <3>2. height' = height + 1
      BY <1>0, <2>2, BlockStep, Zenon
    <3> QED BY <1>0, <2>2, <3>1, <3>2, BlockStep
  <2> QED BY <2>1, <2>2, Zenon
<1>2. ~Paid(h)'
  <2>1. CASE final' = final
    BY <2>1, Zenon DEF Dead, Paid
  <2>2. ASSUME NEW t \in net, NEW ok \in BOOLEAN, MineSubmission(t, ok), Paid(h)'
        PROVE  FALSE
    <3>1. ~Paid(h)
      BY Zenon DEF Dead
    <3>2. t.hash = h /\ ok
      BY <2>2, <3>1, PaidGrows, Zenon
    <3>3. h \notin Unacceptable /\ height + 1 <= Expiry /\ t.nonce > nonceAt[height]
      BY <2>2, <3>2, Zenon DEF MineSubmission
    <3>4. t = Submission(h) /\ rows[h].nonce # 0
      BY <3>2, OwnSubmission, Zenon
    <3>5. ASSUME NEW o \in final, o.tx = t PROVE FALSE
      <4>1. o.at \in Nat /\ o.at <= height /\ o.tx.nonce \in Nat
        BY <1>0, ChainNumbers, Zenon DEF ChainInv
      <4>2. o.at \in 0..height /\ height \in 0..height /\ o.at \in 0..MaxHeight
        BY <1>0, <4>1
      <4>3. o.tx.nonce <= nonceAt[o.at] /\ nonceAt[o.at] <= nonceAt[height]
        BY <4>1, <4>2, Zenon DEF ChainInv
      <4>4. nonceAt[o.at] \in Nat /\ nonceAt[height] \in Nat
        BY <1>0, <4>2, ChainNumbers, Zenon
      <4> QED BY <3>3, <3>5, <4>1, <4>3, <4>4
    <3>6. ~(height >= Expiry)
      BY <1>0, <3>3, ConstantsAssumption
    <3> QED BY <3>3, <3>4, <3>5, <3>6, Zenon DEF Dead
  <2> QED BY <1>0, <2>1, <2>2, BlockStep, ChainKeeps, Zenon
<1>3. ASSUME NEW o \in final, o.tx = Submission(h) PROVE Submission(h)' = Submission(h)
  <2>1. rows[h].nonce # 0
    <3>1. o.tx \in net /\ o.tx.hash = h
      BY <1>0, <1>3 DEF TypeOK, Submission
    <3> QED BY <3>1, OwnSubmission, Zenon
  <2> QED BY <1>0, <2>1, JournalKeeps, Zenon DEF Stays, Submission
<1> QED BY <1>1, <1>2, <1>3, TerminalStays, Zenon DEF Dead

\* What an endpoint says of a row's submission is true of the payment.
LEMMA OutcomeTrue ==
  ASSUME EngineInv, ChainInv, NEW h \in Hashes, NEW outcome \in BroadcastOutcomes(Submission(h))
  PROVE  /\ outcome = "success" => Paid(h)
         /\ outcome \in {"transaction_failed", "transaction_rejected"} => Dead(h)
<1>0. \A o \in final : o.tx \in net
  BY ChainNumbers, Zenon DEF EngineInv
<1>1. \A o \in final : o.tx.hash = h => o.tx = Submission(h)
  BY <1>0, OwnSubmission, Zenon
<1>2. Submission(h).hash = h
  BY Zenon DEF Submission
<1>3. outcome \in {"success", "transaction_failed"} =>
        \E o \in final : o.tx = Submission(h) /\ outcome = Verdict(o)
  BY Zenon DEF BroadcastOutcomes, StatusTerminal, FinalIn, Rejections
<1>4. outcome = "success" => Paid(h)
  BY <1>2, <1>3, Zenon DEF Verdict, Paid
<1>5. ASSUME outcome = "transaction_failed" PROVE Dead(h)
  <2>1. PICK o \in final : o.tx = Submission(h) /\ ~o.ok
    BY <1>3, <1>5, Zenon DEF Verdict
  <2>2. ~Paid(h)
    BY <1>1, <2>1, Zenon DEF Paid, ChainInv
  <2> QED BY <2>1, <2>2, Zenon DEF Dead
<1>6. ASSUME outcome = "transaction_rejected" PROVE Dead(h)
  <2>1. h \in Unacceptable
    <3>1. outcome \notin StatusTerminal(Submission(h)) /\ outcome # "pending"
      BY <1>6 DEF StatusTerminal, Verdict
    <3> QED BY <1>2, <3>1, Zenon DEF BroadcastOutcomes, Rejections
  <2> QED BY <2>1, Zenon DEF Dead, Paid, ChainInv
<1> QED BY <1>4, <1>5, <1>6, Zenon

\* A row of a reconcile call that no endpoint's head shows executed is dead
\* once one of those heads is at the expiry height.
LEMMA ExpiredIsDead ==
  ASSUME EngineInv, ChainInv, NEW h \in Hashes, NEW view \in Views,
         view >= Expiry, ~(nonceAt[view] >= rows[h].nonce), rows[h].nonce \in Nonces
  PROVE  Dead(h)
<1> USE NearAssumption
<1>0. /\ height \in 0..MaxHeight /\ view \in 0..height /\ view \in 0..MaxHeight
      /\ nonceAt[view] \in Nat /\ rows[h].nonce \in Nat
  <2>1. height \in 0..MaxHeight /\ view \in 0..height
    BY ChainNumbers, Zenon DEF EngineInv, Views
  <2>2. view \in 0..MaxHeight
    BY <2>1
  <2>3. rows[h].nonce \in Nat
    BY NoncesArePositive, Zenon
  <2> QED BY <2>1, <2>2, <2>3, ChainNumbers, Zenon DEF EngineInv
<1>1. height >= Expiry
  BY <1>0
<1>2. ASSUME NEW o \in final, o.tx.hash = h, o.ok PROVE FALSE
  <2>1. o.tx \in net /\ o.at \in Nat
    BY ChainNumbers, Zenon DEF EngineInv
  <2>2. o.tx.nonce = rows[h].nonce
    BY <1>2, <2>1, Zenon DEF EngineInv, JournaledBeforeBroadcast
  <2>3. o.at <= Expiry /\ o.tx.nonce <= nonceAt[o.at]
    BY <1>2, Zenon DEF ChainInv
  <2>4. o.at \in 0..height /\ o.at \in 0..MaxHeight /\ o.at <= view
    BY <1>0, <2>1, <2>3
  <2>5. nonceAt[o.at] <= nonceAt[view] /\ nonceAt[o.at] \in Nat
    BY <1>0, <2>4, ChainNumbers, Zenon DEF ChainInv, EngineInv
  <2> QED BY <1>0, <2>2, <2>3, <2>5
<1> QED BY <1>1, <1>2, Zenon DEF Dead, Paid

LEMMA RowVerdictsStep ==
  ASSUME EngineInv, GateInv, ChainInv, VerdictInv, [Next]_vars
  PROVE  RowVerdicts'
<1> SUFFICES ASSUME NEW h \in Hashes
             PROVE  (rows'[h].state = "succeeded" => Paid(h)') /\ (rows'[h].state = "failed" => Dead(h)')
  BY Zenon DEF RowVerdicts
<1> DEFINE Goal == (rows'[h].state = "succeeded" => Paid(h)') /\ (rows'[h].state = "failed" => Dead(h)')
<1>0. RowsInv /\ TypeOK /\ TasksInv /\ RowVerdicts /\ WorkerVerdicts /\ ReconcileVerdicts
  BY Zenon DEF EngineInv, VerdictInv
<1>1. CASE NoEnd(h)
  <2>1. CASE rows'[h].state \in Terminal
    <3>1. rows'[h] = rows[h]
      BY <1>1, <2>1, TerminalStays, Zenon DEF NoEnd
    <3>2. (rows[h].state = "succeeded" => Paid(h)) /\ (rows[h].state = "failed" => Dead(h))
      BY <1>0, Zenon DEF RowVerdicts
    <3> QED BY <1>0, <3>1, <3>2, PaidStays, DeadStays, Zenon
  <2> QED BY <2>1, Zenon DEF Terminal
<1>2. ASSUME NEW response \in Responses, rows'[h].state = TerminalState(response),
             response = "success" => Paid(h)', response # "success" => Dead(h)'
      PROVE  Goal
  BY <1>2, Zenon DEF TerminalState
<1>3. ASSUME NEW response \in Responses, rows'[h].state = TerminalState(response), rows[h].state \in Active,
             NoSign(h), NEW w \in Workers, WorkerTerminalize(w, response), worker[w].hash = h
      PROVE  Goal
  <2>0. worker[w].pc = response
    BY <1>3, Zenon DEF WorkerTerminalize, At
  <2>1. CASE response = "success"
    BY <1>0, <1>2, <1>3, <2>0, <2>1, PaidStays, Zenon DEF WorkerVerdicts
  <2>2. CASE response \in {"transaction_failed", "transaction_rejected"}
    BY <1>0, <1>2, <1>3, <2>0, <2>2, DeadStays, Zenon DEF WorkerVerdicts
  <2>3. CASE response = "protocol_failure"
    <3>1. rows[h].state = "reserved"
      BY <1>3, <2>0, <2>3, Zenon DEF GateInv, SignsFresh, Active, Unresolved
    <3>2. rows'[h].nonce = 0 /\ rows[h].nonce = 0 /\ rows'[h].state = "failed"
      BY <1>0, <1>3, <2>3, <3>1, Zenon DEF RowsInv, SchemaChecks, NoSign, TerminalState
    <3>3. ~Paid(h)
      BY <1>0, <3>2, ChainNumbers, OwnSubmission, Zenon DEF Paid
    <3>4. ~ChainStep
      BY <3>1, <3>2, ChainFrame, Zenon DEF jvars
    <3>5. final' = final
      BY <3>4, ChainKeeps, Zenon
    <3> QED BY <3>2, <3>3, <3>5, Zenon DEF Dead, Paid, Terminal
  <2> QED BY <2>1, <2>2, <2>3, Zenon DEF Responses
<1>4. ASSUME NEW response \in Responses, rows'[h].state = TerminalState(response),
             NEW p \in Procs, ReconcileFinalize(p, response) \/ ReconcileGiveUp(p, response), rc[p].cur = h
      PROVE  Goal
  <2>1. rc[p].pc = response
    BY <1>4, Zenon DEF ReconcileFinalize, ReconcileGiveUp
  <2> QED BY <1>0, <1>2, <1>4, <2>1, PaidStays, DeadStays, Zenon DEF ReconcileVerdicts
<1> QED BY <1>0, <1>1, <1>3, <1>4, RowsFrame, Zenon

LEMMA WorkerVerdictsStep ==
  ASSUME EngineInv, ChainInv, VerdictInv, [Next]_vars
  PROVE  WorkerVerdicts'
<1> DEFINE Told == {"success", "transaction_failed", "transaction_rejected"}
<1> SUFFICES ASSUME NEW w \in Workers, worker'[w].pc \in {"await"} \cup Told, NEW h, worker'[w].hash = h
             PROVE  /\ worker'[w].pc = "await" => worker'[w].nonce \in Nonces /\ rows'[h].nonce = worker'[w].nonce
                    /\ worker'[w].pc = "success" => Paid(h)'
                    /\ worker'[w].pc \in {"transaction_failed", "transaction_rejected"} => Dead(h)'
  BY Zenon DEF WorkerVerdicts, Paid, Dead, Submission
<1>0. RowsInv /\ TypeOK /\ TasksInv /\ WorkersOK /\ WorkerVerdicts
  BY Zenon DEF EngineInv, VerdictInv, TypeOK, EngineTypeOK
<1>1. Holds(w)'
  BY Zenon DEF Holds
<1>2. worker[w].hash = h /\ (worker'[w] = worker[w] \/ WorkerStep(w)) /\ (Holds(w) \/ WorkerLock(w))
  BY <1>0, <1>1, HoldsFrame, Zenon
<1>3. h \in Hashes
  BY <1>0, <1>2, Zenon DEF WorkersOK, WorkerLock, At, Holds
<1>4. Paid(h) => Paid(h)'
  BY <1>0, PaidStays, Zenon
<1>5. Dead(h) => Dead(h)'
  BY <1>3, DeadStays, Zenon
<1>6. Stays
  BY <1>0, JournalKeeps, Zenon
<1>7. CASE worker'[w] = worker[w]
  <2>1. worker[w].pc = "await" => rows'[h].nonce = rows[h].nonce
    BY <1>0, <1>2, <1>3, <1>6, NoncesArePositive, Zenon DEF WorkerVerdicts, Stays
  <2> QED BY <1>0, <1>2, <1>4, <1>5, <1>7, <2>1, Zenon DEF WorkerVerdicts
<1>8. CASE WorkerSend(w) /\ worker'[w].pc = "await"
  <2>1. rows' = rows /\ worker[w].pc = "send" /\ worker'[w].nonce = worker[w].nonce
    <3>1. Goto(w, "await") \/ EndWorker(w)
      BY <1>8, Zenon DEF WorkerSend
    <3>2. ~EndWorker(w)
      BY <1>0, <1>8 DEF EndWorker, IdleWorker, WorkersOK
    <3> QED BY <1>0, <1>8, <3>1, <3>2, Zenon DEF WorkerSend, At, jvars, Goto, WorkersOK
  <2> QED BY <1>0, <1>2, <1>8, <2>1, Zenon DEF TasksInv, WorkerTasks
<1>9. CASE WorkerAwait(w) /\ worker'[w].pc \in Told
  <2>1. worker[w].pc = "await" /\ [hash |-> worker[w].hash, nonce |-> worker[w].nonce] = Submission(h)
    BY <1>0, <1>2, <1>9, Zenon DEF WorkerAwait, At, WorkerVerdicts, Submission
  <2>2. worker'[w].pc \in BroadcastOutcomes(Submission(h))
    <3>1. PICK outcome \in BroadcastOutcomes(Submission(h)) : EndWorker(w) \/ Goto(w, outcome)
      BY <1>9, <2>1, Zenon DEF WorkerAwait
    <3>2. ~EndWorker(w)
      BY <1>0, <1>9 DEF EndWorker, IdleWorker, WorkersOK
    <3> QED BY <1>0, <3>1, <3>2, Zenon DEF Goto, WorkersOK
  <2>3. /\ worker'[w].pc = "success" => Paid(h)
        /\ worker'[w].pc \in {"transaction_failed", "transaction_rejected"} => Dead(h)
    BY <1>3, <2>2, OutcomeTrue, Zenon
  <2> QED BY <1>2, <1>4, <1>5, <1>9, <2>3, Zenon
<1> QED BY <1>0, <1>2, <1>7, <1>8, <1>9, WorkerGoes, Zenon

LEMMA ReconcileVerdictsStep ==
  ASSUME EngineInv, ChainInv, VerdictInv, [Next]_vars
  PROVE  ReconcileVerdicts'
<1> SUFFICES ASSUME NEW p \in Procs, rc'[p].pc \in Responses, NEW h, rc'[p].cur = h
             PROVE  (rc'[p].pc = "success" => Paid(h)') /\ (rc'[p].pc # "success" => Dead(h)')
  BY Zenon DEF ReconcileVerdicts, Paid, Dead, Submission, Responses
<1> DEFINE Goal == (rc'[p].pc = "success" => Paid(h)') /\ (rc'[p].pc # "success" => Dead(h)')
<1>0. RowsInv /\ TypeOK /\ TasksInv /\ ReconcilesOK /\ ReconcileVerdicts
  BY Zenon DEF EngineInv, VerdictInv, TypeOK, EngineTypeOK
<1>1. ASSUME rc[p].pc \in RowPcs, rc[p].cur = h,
             rc'[p].pc = "success" => Paid(h), rc'[p].pc # "success" => Dead(h)
      PROVE  Goal
  <2>1. h \in Hashes
    BY <1>0, <1>1, Zenon DEF ReconcilesOK, ReconcileCall
  <2> QED BY <1>0, <1>1, <2>1, PaidStays, DeadStays, Zenon
<1>2. CASE rc'[p] = rc[p]
  BY <1>0, <1>1, <1>2, Zenon DEF ReconcileVerdicts, RowPcs
<1>3. rc'[p] # IdleRc
  BY DEF IdleRc, Responses
<1>4. ASSUME ReconcileStep(p), rc[p].cur = h, ReconcileStatus(p) \/ ReconcileHeads(p) \/ ReconcileAwait(p)
      PROVE  Goal
  <2>0. rc[p].pc \in RowPcs
    <3>1. rc[p].pc \in {"status", "heads", "await"}
      BY <1>4, Zenon DEF ReconcileStatus, ReconcileHeads, ReconcileAwait
    <3> QED BY <3>1, Zenon DEF RowPcs
  <2>1. h \in Hashes /\ h \in rc[p].prepared \cup rc[p].submitted
    BY <1>0, <1>4, <2>0, Zenon DEF ReconcilesOK, ReconcileCall
  <2>2. ASSUME NEW outcome \in BroadcastOutcomes(Submission(h)), RGoto(p, outcome)
        PROVE  /\ rc'[p].pc = "success" => Paid(h)
               /\ rc'[p].pc # "success" => Dead(h)
    <3>1. rc'[p].pc = outcome
      BY <1>0, <2>2, Zenon DEF RGoto, SetRc, ReconcilesOK, ReconcileCall
    <3>2. outcome \in {"success", "transaction_failed", "transaction_rejected"}
      <4>1. outcome \in {"success", "transaction_failed", "transaction_rejected", "pending"}
        BY <2>2 DEF BroadcastOutcomes, StatusTerminal, Verdict, Rejections
      <4> QED BY <3>1, <4>1, Zenon DEF Responses
    <3> QED BY <2>1, <2>2, <3>1, <3>2, OutcomeTrue, Zenon
  <2>3. ASSUME NEW pc, RGoto(p, pc) PROVE rc'[p].pc = pc
    BY <1>0, <2>3, Zenon DEF RGoto, SetRc, ReconcilesOK, ReconcileCall
  <2>4. ~EndReconcile(p)
    BY <1>0, <1>3, Zenon DEF EndReconcile, ReconcilesOK
  <2>5. CASE ReconcileStatus(p)
    <3>1. \/ \E verdict \in StatusTerminal(Submission(h)) : RGoto(p, verdict)
          \/ RGoto(p, "heads") \/ RGoto(p, "pending")
      BY <1>4, <2>4, <2>5, Zenon DEF ReconcileStatus
    <3>2. ~RGoto(p, "heads") /\ ~RGoto(p, "pending")
      BY <2>3, Zenon DEF Responses
    <3>3. \E outcome \in BroadcastOutcomes(Submission(h)) : RGoto(p, outcome)
      BY <3>1, <3>2, Zenon DEF BroadcastOutcomes
    <3> QED BY <1>1, <1>4, <2>0, <2>2, <3>3, Zenon
  <2>6. CASE ReconcileAwait(p)
    <3>1. \E outcome \in BroadcastOutcomes(Submission(h)) : RGoto(p, outcome)
      BY <1>4, <2>6, Zenon DEF ReconcileAwait
    <3> QED BY <1>1, <1>4, <2>0, <2>2, <3>1, Zenon
  <2>7. CASE ReconcileHeads(p)
    <3>1. PICK primary \in Views, backup \in Views :
            /\ ~(nonceAt[primary] >= rows[h].nonce \/ nonceAt[backup] >= rows[h].nonce)
            /\ primary >= Expiry \/ backup >= Expiry
            /\ RGoto(p, "protocol_failure")
      <4>1. ~RGoto(p, "quarantine")
        BY <2>3, Zenon DEF Responses
      <4>2. \A a, b : rc' # [rc EXCEPT ![p].pc = "resubmit", ![p].primary = a, ![p].backup = b]
        BY <1>0 DEF ReconcilesOK, ReconcileCall, Responses
      <4> QED BY <1>4, <2>4, <2>7, <4>1, <4>2, Zenon DEF ReconcileHeads, HeadsFail
    <3>2. rows[h].nonce \in Nonces
      BY <1>0, <2>1, Zenon DEF RowsInv, JournalTypeOK, Row, TasksInv, ReconcileTasks
    <3>3. Dead(h)
      BY <2>1, <3>1, <3>2, ExpiredIsDead, Zenon
    <3>4. rc'[p].pc = "protocol_failure"
      BY <2>3, <3>1, Zenon
    <3> QED BY <1>1, <1>4, <2>0, <3>3, <3>4, Zenon
  <2> QED BY <1>4, <2>5, <2>6, <2>7, Zenon
<1> QED BY <1>0, <1>2, <1>3, <1>4, CallFrame, ReconcileGoes, Zenon

LEMMA VerdictInvInit == Init => ChainInv /\ VerdictInv
<1> SUFFICES ASSUME Init PROVE ChainInv /\ VerdictInv
  BY Zenon
<1>1. \A w \in Workers : worker[w].pc = "idle"
  BY Zenon DEF Init, EngineInit, IdleWorker
<1>2. \A p \in Procs : rc[p].pc = "idle"
  BY Zenon DEF Init, EngineInit, IdleRc
<1>3. \A h \in Hashes : rows[h].state = "absent"
  BY Zenon DEF Init, EngineInit, JournalInit, AbsentRow
<1>4. final = {} /\ height = 0 /\ nonceAt = [b \in 0..MaxHeight |-> 0]
  BY Zenon DEF Init, ChainInit
<1>5. ChainInv
  <2>1. \A a \in 0..height : nonceAt[a] = 0
    BY <1>4, NearAssumption
  <2> QED BY <1>4, <2>1 DEF ChainInv
<1>6. VerdictInv
  BY <1>1, <1>2, <1>3, Zenon DEF VerdictInv, RowVerdicts, WorkerVerdicts, ReconcileVerdicts, Responses
<1> QED BY <1>5, <1>6, Zenon

\* The inductive invariant behind the contract.
ContractInv == EngineInv /\ GateInv /\ ChainInv /\ VerdictInv

LEMMA ContractInvStep ==
  ASSUME OneProcess, ContractInv, [Next]_vars
  PROVE  ContractInv'
<1>1. EngineInv /\ GateInv /\ ChainInv /\ VerdictInv /\ TypeOK
  BY Zenon DEF ContractInv, EngineInv
<1>2. EngineInv' /\ GateInv' /\ ChainInv'
  BY <1>1, EngineInvStep, GateInvStep, ChainInvStep, Zenon
<1>3. VerdictInv'
  BY <1>1, RowVerdictsStep, WorkerVerdictsStep, ReconcileVerdictsStep, Zenon DEF VerdictInv
<1> QED BY <1>2, <1>3, Zenon DEF ContractInv

-----------------------------------------------------------------------------
(* The refinement of Settlement.                                           *)

\* The payments that were made, and what the journal tells of each.
PaidSet == {h \in Hashes : Paid(h)}
Verdicts == [h \in Hashes |-> IF rows[h].state \in Terminal THEN rows[h].state ELSE "none"]

LEMMA Override ==
  ASSUME NEW S, NEW f, NEW g, NEW h \in S, NEW v,
         f = [x \in S |-> f[x]], g = [x \in S |-> IF x = h THEN v ELSE f[x]]
  PROVE  g = [f EXCEPT ![h] = v]
  BY Zenon

\* A block makes at most one payment, and none that has a verdict.
LEMMA TransferStep ==
  ASSUME ContractInv, [Next]_vars, ChainStep
  PROVE  /\ Verdicts' = Verdicts
         /\ \/ PaidSet' = PaidSet
            \/ \E h \in Hashes :
                 /\ h \notin PaidSet
                 /\ rows[h].state \notin Terminal
                 /\ PaidSet' = PaidSet \cup {h}
<1>0. EngineInv /\ TypeOK /\ ChainInv /\ RowVerdicts
  BY Zenon DEF ContractInv, EngineInv, VerdictInv
<1>1. Verdicts' = Verdicts
  BY ChainFrame, Zenon DEF Verdicts, jvars
<1>2. CASE final' = final
  BY <1>1, <1>2, Zenon DEF PaidSet, Paid
<1>3. ASSUME NEW t \in net, NEW ok \in BOOLEAN, MineSubmission(t, ok)
      PROVE  \/ PaidSet' = PaidSet
             \/ \E h \in Hashes : h \notin PaidSet /\ rows[h].state \notin Terminal /\ PaidSet' = PaidSet \cup {h}
  <2> DEFINE h == t.hash
  <2>1. h \in Hashes
    BY <1>0, ChainNumbers, Zenon
  <2>2. \A g : Paid(g)' <=> Paid(g) \/ (ok /\ g = h)
    BY <1>3, PaidGrows, Zenon
  <2>3. CASE ~ok
    BY <2>2, <2>3, Zenon DEF PaidSet
  <2>4. CASE ok
    <3>1. ~Paid(h)
      BY <1>3, <2>4, Zenon DEF MineSubmission
    <3>2. \A g \in Hashes : Paid(g)' <=> Paid(g) \/ g = h
      BY <2>2, <2>4, Zenon
    <3>3. rows[h].state # "succeeded"
      BY <1>0, <2>1, <3>1, Zenon DEF RowVerdicts
    <3>4. rows[h].state # "failed"
      <4>1. ASSUME NEW g \in Hashes, Dead(g) PROVE ~Paid(g)'
        BY <1>0, <4>1, DeadStays, Zenon DEF Dead
      <4> QED BY <1>0, <2>1, <3>2, <4>1, Zenon DEF RowVerdicts
    <3> QED BY <2>1, <3>1, <3>2, <3>3, <3>4, Zenon DEF PaidSet, Terminal
  <2> QED BY <2>3, <2>4, Zenon
<1> QED BY <1>0, <1>1, <1>2, <1>3, BlockStep, Zenon

\* Any other step gives at most one payment its verdict, and a true one.
LEMMA ReportStep ==
  ASSUME OneProcess, ContractInv, [Next]_vars, ~ChainStep
  PROVE  /\ PaidSet' = PaidSet
         /\ \/ Verdicts' = Verdicts
            \/ \E h \in Hashes :
                 /\ rows[h].state \notin Terminal
                 /\ rows'[h].state = IF h \in PaidSet THEN "succeeded" ELSE "failed"
                 /\ \A g \in Hashes : g # h => rows'[g] = rows[g]
<1>0. EngineInv /\ RowsInv /\ TypeOK /\ TasksInv
  BY Zenon DEF ContractInv, EngineInv
<1>1. PaidSet' = PaidSet
  BY ChainKeeps, Zenon DEF PaidSet, Paid
<1>2. RowVerdicts'
  BY ContractInvStep, Zenon DEF ContractInv, VerdictInv
<1>3. CASE \A h \in Hashes : NoEnd(h)
  <2>1. \A h \in Hashes : rows[h].state \in Terminal => rows'[h] = rows[h]
    BY <1>0, TerminalStays, Zenon
  <2> QED BY <1>1, <1>3, <2>1, Zenon DEF NoEnd, Verdicts
<1>4. ASSUME NEW h \in Hashes, ~NoEnd(h)
      PROVE  /\ rows[h].state \notin Terminal
             /\ rows'[h].state = IF h \in PaidSet THEN "succeeded" ELSE "failed"
             /\ \A g \in Hashes : g # h => rows'[g] = rows[g]
  <2>1. rows[h].state \notin Terminal /\ rows'[h].state \in Terminal
    BY <1>4, Zenon DEF NoEnd
  <2>2. (rows'[h].state = "succeeded" => Paid(h)') /\ (rows'[h].state = "failed" => ~Paid(h)')
    BY <1>2, Zenon DEF RowVerdicts, Dead
  <2>3. rows'[h].state = IF h \in PaidSet THEN "succeeded" ELSE "failed"
    BY <1>1, <2>1, <2>2, Zenon DEF PaidSet, Terminal
  <2>4. \E response \in Responses : \E actual : MarkTerminal(h, response, actual, 0)
    <3>1. ASSUME UNCHANGED jvars PROVE FALSE
      BY <2>1, <3>1, Zenon DEF jvars
    <3>2. ASSUME NEW response \in Responses, NEW w \in Workers, WorkerTerminalize(w, response), worker[w].hash = h
          PROVE  UNCHANGED jvars \/ \E actual : MarkTerminal(h, response, actual, 0)
      BY <3>2, TerminalizeFrame, Zenon DEF WorkerTerminalize
    <3>3. ASSUME NEW response \in Responses, NEW p \in Procs,
                 ReconcileFinalize(p, response) \/ ReconcileGiveUp(p, response), rc[p].cur = h
          PROVE  UNCHANGED jvars \/ \E actual : MarkTerminal(h, response, actual, 0)
      BY <3>3, TerminalizeFrame, Zenon DEF ReconcileFinalize, ReconcileGiveUp
    <3> QED BY <1>0, <1>4, <3>1, <3>2, <3>3, RowsFrame, Zenon
  <2>5. \A g \in Hashes : g # h => rows'[g] = rows[g]
    BY <1>0, <2>4, Zenon DEF MarkTerminal, RowsInv, JournalTypeOK
  <2> QED BY <2>1, <2>3, <2>5, Zenon
<1> QED BY <1>1, <1>3, <1>4, Zenon

\* On a deployment of one process the engine implements Settlement: through
\* crashes, lost acknowledgements, late submissions, foreign use of the key
\* and outdated endpoints, each payment is made at most once, gets at most one
\* verdict, a true one, and none is made after its caller was told it failed
\* (run_new_settlement, reconcile_prepared, mark_terminal).
THEOREM ContractKept == OneProcess => (Spec => KeepsContract)
<1> SUFFICES ASSUME OneProcess PROVE Spec => KeepsContract
  BY Zenon
<1>1. Init => ContractInv
  BY EngineInitInv, GateInvInit, VerdictInvInit, Zenon DEF ContractInv
<1>2. ContractInv /\ [Next]_vars => ContractInv'
  BY ContractInvStep, Zenon
<1>3. Init => Contract!Init
  <2> SUFFICES ASSUME Init PROVE Contract!Init
    BY Zenon
  <2>1. PaidSet = {}
    BY Zenon DEF Init, ChainInit, PaidSet, Paid
  <2>2. \A h \in Hashes : rows[h].state = "absent"
    BY Zenon DEF Init, EngineInit, JournalInit, AbsentRow
  <2>3. Verdicts = [h \in Hashes |-> "none"]
    BY <2>2, Zenon DEF Verdicts, Terminal
  <2> QED BY <2>1, <2>3, Zenon DEF Contract!Init, PaidSet, Verdicts
<1>4. ContractInv /\ [Next]_vars => [Contract!Next]_<<PaidSet, Verdicts>>
  <2> SUFFICES ASSUME ContractInv, [Next]_vars, ~UNCHANGED <<PaidSet, Verdicts>> PROVE Contract!Next
    BY Zenon
  <2>1. CASE ChainStep
    <3>1. PICK h \in Hashes : h \notin PaidSet /\ rows[h].state \notin Terminal /\ PaidSet' = PaidSet \cup {h}
      BY <2>1, TransferStep, Zenon
    <3>2. Verdicts' = Verdicts /\ Verdicts[h] = "none"
      BY <2>1, <3>1, TransferStep, Zenon DEF Verdicts
    <3>3. Contract!Transfer(h)
      BY <3>1, <3>2, Zenon DEF Contract!Transfer, PaidSet, Verdicts
    <3> QED BY <3>3, Zenon DEF Contract!Next
  <2>2. CASE ~ChainStep
    <3>1. PICK h \in Hashes : /\ rows[h].state \notin Terminal
                              /\ rows'[h].state = IF h \in PaidSet THEN "succeeded" ELSE "failed"
                              /\ \A g \in Hashes : g # h => rows'[g] = rows[g]
      BY <2>2, ReportStep, Zenon
    <3>2. PaidSet' = PaidSet
      BY <2>2, ReportStep, Zenon
    <3>3. PICK v \in Terminal : v = IF h \in PaidSet THEN "succeeded" ELSE "failed"
      BY Zenon DEF Terminal
    <3>4. Verdicts[h] = "none" /\ Verdicts' = [Verdicts EXCEPT ![h] = v]
      <4>1. \A g \in Hashes : rows'[g].state = IF g = h THEN v ELSE rows[g].state
        BY <3>1, <3>3, Zenon
      <4>2. Verdicts' = [g \in Hashes |-> IF g = h THEN v ELSE Verdicts[g]]
        BY <4>1, Zenon DEF Verdicts
      <4>3. Verdicts = [g \in Hashes |-> Verdicts[g]]
        BY Zenon DEF Verdicts
      <4>4. Verdicts[h] = "none"
        BY <3>1, Zenon DEF Verdicts
      <4> QED BY <4>2, <4>3, <4>4, Override, Zenon
    <3>5. Contract!Report(h, v)
      BY <3>2, <3>3, <3>4, Zenon DEF Contract!Report, PaidSet, Verdicts
    <3>6. \E u \in {"succeeded", "failed"} : Contract!Report(h, u)
      BY <3>5, Zenon DEF Terminal
    <3> QED BY <3>6, Zenon DEF Contract!Next
  <2> QED BY <2>1, <2>2, Zenon
<1>5. Spec => Contract!Init /\ [][Contract!Next]_<<PaidSet, Verdicts>>
  BY <1>1, <1>2, <1>3, <1>4, PTL DEF Spec
<1> QED BY <1>5, PTL DEF KeepsContract, Contract!Spec, PaidSet, Verdicts

\* On a deployment of one process the journal's verdict is the chain's: a
\* succeeded settlement was paid by its own submission, and one reported as
\* failed has not been paid.  Two processes that both think they lead break
\* this, see NearStaleLeader.
THEOREM VerdictsAreTrue == OneProcess => (Spec => []OutcomeTruthful)
<1> SUFFICES ASSUME OneProcess PROVE Spec => []OutcomeTruthful
  BY Zenon
<1>1. Init => ContractInv
  BY EngineInitInv, GateInvInit, VerdictInvInit, Zenon DEF ContractInv
<1>2. ContractInv /\ [Next]_vars => ContractInv'
  BY ContractInvStep, Zenon
<1>3. ContractInv => OutcomeTruthful
  <2> SUFFICES ASSUME ContractInv, NEW h \in Hashes
               PROVE  /\ rows[h].state = "succeeded" => PaidBy(Submission(h))
                      /\ rows[h].state = "failed" => ~Paid(h)
    BY Zenon DEF OutcomeTruthful
  <2>1. (rows[h].state = "succeeded" => Paid(h)) /\ (rows[h].state = "failed" => ~Paid(h))
    BY Zenon DEF ContractInv, VerdictInv, RowVerdicts, Dead
  <2>2. \A o \in final : o.tx.hash = h => o.tx = Submission(h)
    BY ChainNumbers, OwnSubmission, Zenon DEF ContractInv, EngineInv
  <2> QED BY <2>1, <2>2, Zenon DEF Paid, PaidBy
<1> QED BY <1>1, <1>2, <1>3, PTL DEF Spec

=============================================================================
