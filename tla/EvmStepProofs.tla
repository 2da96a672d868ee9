---------------------------- MODULE EvmStepProofs -----------------------------
(***************************************************************************)
(* How each step of the eip155 settlement engine acts on its parts, for any *)
(* number of processes, workers, handlers, payments, blocks and faults.    *)
(*                                                                         *)
(* A step is one of few forms (WritesStep, RowsMove, WorkersStep,          *)
(* CallsStep).  The tasks, the gates, the mutex and the configuration that a *)
(* row was signed under are then followed through the forms; what depends  *)
(* on the journal's own invariants or on the length of the chain is proved in *)
(* EvmEngineProofs.                                                        *)
(***************************************************************************)
EXTENDS EvmInvariants, TLAPS

-----------------------------------------------------------------------------
(* What each kind of step leaves alone.                                    *)

LEMMA ChainFrame ==
  ASSUME ChainMoves \/ UNCHANGED vars
  PROVE  UNCHANGED <<jvars, gate, leader, worker, handler, rc, settings, look>>
<1> USE DEF evars, jvars, settings
<1>1. CASE ChainStep
  BY <1>1, Zenon DEF ChainStep, Mine, MineEmpty, Deliver
<1>2. CASE MineForeign \/ \E depth \in 1..MaxReorg : Reorg(depth)
  BY <1>2, Zenon DEF MineForeign, Reorg
<1>3. CASE (\E t \in net \cup pool : Lose(t)) \/ \E e \in Endpoints : Sync(e)
  BY <1>3, Zenon DEF Lose, Sync
<1>4. CASE UNCHANGED vars
  BY <1>4, Zenon DEF vars
<1> QED BY <1>1, <1>2, <1>3, <1>4, Zenon DEF ChainMoves

LEMMA ProcessFrame ==
  ASSUME NEW p, ProcessStep(p)
  PROVE  UNCHANGED <<jvars, chain, snapshot, signed>>
<1>1. CASE Refresh(p) \/ Restart(p)
  BY <1>1, Zenon DEF Refresh, Restart, RefreshReadiness, Crash, settings
<1>2. CASE /\ \/ AcquireLeadership(p) \/ LoseSession(p) \/ HeartbeatFails(p)
              \/ \E x \in Handlers, r \in Requests : Admit(x, p, r)
           /\ UNCHANGED <<chain, settings, look>>
  BY <1>2, Zenon DEF AcquireLeadership, LoseSession, HeartbeatFails, Admit, settings
<1> QED BY <1>1, <1>2, Zenon DEF ProcessStep

LEMMA HandlerFrame ==
  ASSUME NEW x, HandlerStep(x)
  PROVE  UNCHANGED <<gate, leader, rc, chain, policy, signed, look>>
  BY Zenon DEF HandlerStep, Claim, Resume

LEMMA WorkerFrame ==
  ASSUME NEW w, WorkerStep(w)
  PROVE  /\ UNCHANGED <<leader, handler, rc, policy, snapshot, look, pool, mined, tip, fork, ep>>
         /\ UNCHANGED net \/ WorkerSend(w)
  BY Zenon DEF WorkerStep, WorkerLock, WorkerVerify, WorkerRetry, WorkerTerminalize, WorkerSign,
       WorkerPrepare, WorkerStore, WorkerQuarantine, WorkerSubmit, WorkerSend, KeepChain,
       WorkerAwait, chain, settings

LEMMA ReconcileFrame ==
  ASSUME NEW p, ReconcileStep(p)
  PROVE  /\ UNCHANGED <<leader, worker, handler, settings, pool, mined, tip, fork, ep>>
         /\ UNCHANGED net \/ ReconcileRebroadcast(p)
  BY Zenon DEF ReconcileStep, ReconcileBegin, ReconcileScan, ReconcileRelease, ReconcileAbort,
       ReconcileNext, ReconcileRemaining, ReconcileOpen, ReconcileRaise, ReconcileRead, ReconcileHead,
       ReconcileVerdict, ReconcilePending, ReconcileOverrun, ReconcileBook, ReconcileQuarantine,
       ReconcileResubmit, ReconcileRebroadcast, KeepChain, chain

-----------------------------------------------------------------------------
(* What each task writes to the journal.                                   *)

LEMMA WritesStep ==
  ASSUME [Next]_vars
  PROVE  EngineWrites
<1>1. CASE ChainMoves \/ UNCHANGED vars
  BY <1>1, ChainFrame, Zenon DEF EngineWrites
<1>2. ASSUME NEW p \in Procs, ProcessStep(p) PROVE EngineWrites
  BY <1>2, ProcessFrame, Zenon DEF EngineWrites
<1>3. ASSUME NEW x \in Handlers, HandlerStep(x) PROVE UNCHANGED jvars \/ HandlerWrites(x)
  BY <1>3, Zenon DEF HandlerStep, Claim, Resume, HandlerWrites, jvars
<1>4. ASSUME NEW w \in Workers, WorkerStep(w) PROVE UNCHANGED jvars \/ QuarantineRelayer \/ WorkerWrites(w)
  <2>1. CASE WorkerRetry(w)
    BY <2>1, Zenon DEF WorkerRetry, StoreCall, WorkerWrites
  <2>2. CASE WorkerTerminalize(w, "protocol_failure")
    <3>1. \A actual \in Costs("protocol_failure") : actual = 0
      BY Zenon DEF Costs
    <3> QED BY <2>2, <3>1, Zenon DEF WorkerTerminalize, Terminalize, StoreCall, WorkerWrites
  <2>3. CASE WorkerPrepare(w)
    BY <2>3, Zenon DEF WorkerPrepare, WorkerStore, StoreCall, WorkerWrites
  <2>4. CASE WorkerSubmit(w)
    BY <2>4, Zenon DEF WorkerSubmit, WorkerStore, StoreCall, WorkerWrites
  <2>5. CASE WorkerQuarantine(w)
    BY <2>5, Zenon DEF WorkerQuarantine, StoreCall
  <2>6. CASE WorkerLock(w) \/ WorkerVerify(w) \/ WorkerSign(w) \/ WorkerSend(w) \/ WorkerAwait(w)
    BY <2>6, Zenon DEF WorkerLock, WorkerVerify, WorkerSign, WorkerSend, WorkerAwait
  <2> QED BY <1>4, <2>1, <2>2, <2>3, <2>4, <2>5, <2>6, Zenon DEF WorkerStep
<1>5. ASSUME NEW p \in Procs, ReconcileStep(p) PROVE UNCHANGED jvars \/ QuarantineRelayer \/ ReconcileWrites(p)
  <2>1. CASE ReconcileRelease(p)
    BY <2>1, Zenon DEF ReconcileRelease, StoreCall, ReconcileWrites
  <2>2. CASE ReconcileRaise(p)
    BY <2>2, Zenon DEF ReconcileRaise, StoreCall, ReconcileWrites
  <2>3. CASE ReconcileOverrun(p) \/ ReconcileQuarantine(p)
    BY <2>3, Zenon DEF ReconcileOverrun, ReconcileQuarantine, StoreCall
  <2>4. ASSUME NEW response \in Verdicts, ReconcileBook(p, response) PROVE UNCHANGED jvars \/ ReconcileWrites(p)
    BY <2>4, Zenon DEF ReconcileBook, StoreCall, ReconcileWrites
  <2>5. CASE ReconcileResubmit(p)
    BY <2>5, Zenon DEF ReconcileResubmit, StoreCall, ReconcileWrites
  <2>6. CASE \/ ReconcileBegin(p) \/ ReconcileScan(p) \/ ReconcileAbort(p) \/ ReconcileNext(p)
             \/ ReconcileRemaining(p) \/ ReconcileOpen(p)
    BY <2>6, Zenon DEF ReconcileBegin, ReconcileScan, ReconcileAbort, ReconcileNext, ReconcileRemaining, ReconcileOpen
  <2>7. CASE \/ ReconcileRead(p) \/ ReconcileHead(p) \/ ReconcileVerdict(p) \/ ReconcilePending(p)
             \/ ReconcileRebroadcast(p)
    BY <2>7, Zenon DEF ReconcileRead, ReconcileHead, ReconcileVerdict, ReconcilePending, ReconcileRebroadcast
  <2> QED BY <1>5, <2>1, <2>2, <2>3, <2>4, <2>5, <2>6, <2>7, Zenon DEF ReconcileStep, Verdicts
<1> QED BY <1>1, <1>2, <1>3, <1>4, <1>5, Zenon DEF Next, ChainMoves, EngineWrites

-----------------------------------------------------------------------------
(* The journal under the engine.                                           *)

LEMMA PolicyDepth ==
  ASSUME PoliciesOK, NEW p \in Procs
  PROVE  policy[p].depth \in Depths /\ policy[p].depth > MaxReorg
  BY EvmAssumption, Zenon DEF PoliciesOK

LEMMA DepthIsNat ==
  ASSUME RowsInv, NEW h \in Hashes
  PROVE  rows[h].depth \in Nat
<1>1. \A depth \in {0} \cup Depths : depth \in Nat
  BY ConstantsAssumption
<1>2. rows[h].depth \in {0} \cup Depths
  BY Zenon DEF RowsInv, JournalTypeOK, Row
<1> QED BY <1>1, <1>2, Zenon

\* Every step of the engine is a transaction of the store or leaves the
\* journal alone, except for the booking of an overrun, and by then the
\* signer is quarantined.
LEMMA EngineUsesJournal ==
  ASSUME RowsInv, TasksInv, PoliciesOK, LookInv, [Next]_vars
  PROVE  \/ [JournalNext]_jvars
         \/ BookOverrun /\ relayer = "quarantined"
<1> DEFINE Goal == [JournalNext]_jvars \/ (BookOverrun /\ relayer = "quarantined")
<1>1. CASE UNCHANGED jvars \/ QuarantineRelayer
  BY <1>1, Zenon DEF JournalNext
<1>2. ASSUME NEW x \in Handlers, HandlerWrites(x) PROVE Goal
  <2>1. handler[x].req \in Requests /\ handler[x].req.hash \in Hashes
    BY <1>2, RequestsAssumption, Zenon DEF HandlerWrites, TasksInv, HandlersOK
  <2> QED BY <1>2, <2>1, Zenon DEF HandlerWrites, JournalNext
<1>3. ASSUME NEW w \in Workers, WorkerWrites(w) PROVE Goal
  <2>1. worker[w].hash \in Hashes /\ worker[w].proc \in Procs
    BY <1>3, Zenon DEF WorkerWrites, At, TasksInv, WorkersOK
  <2>2. PICK depth \in Depths : TRUE
    BY ConstantsAssumption, Zenon
  <2>3. CASE MarkTerminal(worker[w].hash, "protocol_failure", 0, 0)
    <3>1. MarkTerminal(worker[w].hash, "protocol_failure", 0, depth)
      BY <2>3, Zenon DEF MarkTerminal, TerminalAllowed
    <3> QED BY <2>1, <3>1, Zenon DEF JournalNext, Responses, Costs
  <2>4. CASE At(w, "prepare") /\ MarkPrepared(worker[w].hash, worker[w].nonce, policy[worker[w].proc].depth)
    <3>1. worker[w].nonce \in Nonces
      BY <2>4, Zenon DEF At, TasksInv, WorkerTasks
    <3> QED BY <2>1, <2>4, <3>1, PolicyDepth, Zenon DEF JournalNext
  <2>5. CASE MarkAwaitingRetry(worker[w].hash) \/ MarkSubmitted(worker[w].hash)
    BY <2>1, <2>5, Zenon DEF JournalNext
  <2> QED BY <1>3, <2>3, <2>4, <2>5, Zenon DEF WorkerWrites
<1>4. ASSUME NEW p \in Procs, ReconcileWrites(p) PROVE Goal
  <2>1. rc[p].reserved \subseteq Hashes /\ (rc[p].pc \in RowPcs => rc[p].cur \in Hashes)
    BY Zenon DEF TasksInv, ReconcilesOK, ReconcileCall
  <2>2. CASE \E h \in rc[p].reserved : MarkAwaitingRetry(h)
    BY <2>1, <2>2, Zenon DEF JournalNext
  <2>3. CASE Looking(p, "raise") /\ RaiseRequiredConfirmations(rc[p].cur, policy[p].depth)
    BY <2>1, <2>3, PolicyDepth, Zenon DEF JournalNext, Looking, RowPcs
  <2>4. CASE rc[p].pc = "resubmit" /\ MarkSubmitted(rc[p].cur)
    BY <2>1, <2>4, Zenon DEF JournalNext, RowPcs
  <2>5. CASE /\ rc[p].pc \in Verdicts
             /\ look[p].step = "book"
             /\ MarkTerminal(rc[p].cur, rc[p].pc, look[p].fee, look[p].confirmations)
    <3> DEFINE h == rc[p].cur
    <3>1. h \in Hashes /\ rc[p].pc \in Responses /\ look[p].fee \in Fees \cup Overruns /\ look[p].confirmations \in Nat
      BY <2>1, <2>5, Zenon DEF LookInv, VerdictsOK, Verdicts, RowPcs, Responses
    <3>2. rows[h].nonce # 0
      BY <2>5, <3>1, Zenon DEF TasksInv, ReconcilesOK, ReconcileTasks, Verdicts, RowPcs, Responses
    <3>3. rows[h].state \in Unresolved
      <4>1. TerminalAllowed(h, rc[p].pc, look[p].confirmations)
        BY <2>5, Zenon DEF MarkTerminal
      <4> QED BY <3>1, <3>2, <4>1, Zenon DEF TerminalAllowed, RowsInv, SchemaChecks, Unresolved
    <3>4. rows[h].reserved = Reservation /\ rows[h].depth \in Depths
      BY <3>1, <3>3, EvmAssumption, Zenon DEF RowsInv, SchemaChecks, JournalTypeOK, Row, Active, Unresolved
    <3>5. CASE look[p].fee \in Fees
      <4>1. rows[h].depth >= rows[h].depth
        BY <3>1, DepthIsNat
      <4>2. MarkTerminal(h, rc[p].pc, look[p].fee, rows[h].depth)
        BY <2>5, <4>1, Zenon DEF MarkTerminal, TerminalAllowed
      <4>3. look[p].fee \in Costs(rc[p].pc)
        BY <2>5, <3>5, Zenon DEF Costs, Verdicts
      <4> QED BY <3>1, <3>4, <4>2, <4>3, Zenon DEF JournalNext
    <3>6. CASE look[p].fee \in Overruns
      <4>1. look[p].fee > rows[h].reserved
        BY <3>4, <3>6, EvmAssumption, Zenon
      <4>2. relayer = "quarantined"
        BY <2>5, <4>1, Zenon DEF LookInv, VerdictsOK
      <4>3. BookOverrun
        BY <2>5, <3>1, <3>6, Zenon DEF BookOverrun
      <4> QED BY <4>2, <4>3, Zenon
    <3> QED BY <3>1, <3>5, <3>6, Zenon
  <2> QED BY <1>4, <2>2, <2>3, <2>4, <2>5, Zenon DEF ReconcileWrites
<1> QED BY <1>1, <1>2, <1>3, <1>4, WritesStep, Zenon DEF EngineWrites

\* No transaction changes what is reserved for a signed row, or takes a
\* quarantine back.
LEMMA ReservationStays ==
  ASSUME RowsInv, [JournalNext]_jvars \/ BookOverrun
  PROVE  /\ \A g \in Hashes : rows[g].nonce # 0 => rows'[g].reserved = rows[g].reserved
         /\ relayer = "quarantined" => relayer' = "quarantined"
<1>1. relayer = "quarantined" => relayer' = "quarantined"
  BY Zenon DEF JournalNext, jvars, ClaimInsert, MarkAwaitingRetry, ResumeAwaitingRetry, MarkPrepared,
         MarkSubmitted, RaiseRequiredConfirmations, MarkTerminal, QuarantineRelayer, NextDay, BookOverrun
<1> SUFFICES ASSUME NEW g \in Hashes, rows[g].nonce # 0
             PROVE  rows'[g].reserved = rows[g].reserved
  BY <1>1, Zenon
<1>2. rows \in [Hashes -> Row] /\ rows[g] \in Row
  BY Zenon DEF RowsInv, JournalTypeOK
<1>3. rows[g].state \notin {"absent", "reserved", "awaiting_retry"}
  BY Zenon DEF RowsInv, SchemaChecks, OwnerKnown, Exists
<1>4. ASSUME NEW r \in Requests, NEW limit \in ClientLimits, ClaimInsert(r, limit)
      PROVE  rows'[g] = rows[g]
  BY <1>2, <1>3, <1>4, Zenon DEF ClaimInsert, InsertConflicts, Exists
<1>5. ASSUME NEW h \in Hashes, MarkAwaitingRetry(h) PROVE rows'[g] = rows[g]
  BY <1>2, <1>3, <1>5, Zenon DEF MarkAwaitingRetry
<1>6. ASSUME NEW h \in Hashes, NEW limit \in ClientLimits, ResumeAwaitingRetry(h, limit)
      PROVE  rows'[g] = rows[g]
  BY <1>2, <1>3, <1>6, Zenon DEF ResumeAwaitingRetry
<1>7. ASSUME NEW h \in Hashes, NEW n, NEW depth, MarkPrepared(h, n, depth) PROVE rows'[g] = rows[g]
  BY <1>2, <1>3, <1>7, Zenon DEF MarkPrepared
<1>8. ASSUME NEW h \in Hashes, MarkSubmitted(h) PROVE rows'[g].reserved = rows[g].reserved
  BY <1>2, <1>8, Zenon DEF MarkSubmitted, Row
<1>9. ASSUME NEW h \in Hashes, NEW depth, RaiseRequiredConfirmations(h, depth)
      PROVE  rows'[g].reserved = rows[g].reserved
  BY <1>2, <1>9, Zenon DEF RaiseRequiredConfirmations, Row
<1>10. ASSUME NEW h \in Hashes, NEW response, NEW fee, NEW confirmations,
              MarkTerminal(h, response, fee, confirmations)
       PROVE  rows'[g].reserved = rows[g].reserved
  BY <1>2, <1>10, Zenon DEF MarkTerminal, Row
<1>11. QuarantineRelayer \/ NextDay \/ UNCHANGED jvars => rows' = rows
  BY Zenon DEF QuarantineRelayer, NextDay, jvars
<1> QED BY <1>4, <1>5, <1>6, <1>7, <1>8, <1>9, <1>10, <1>11, Zenon DEF JournalNext, BookOverrun

-----------------------------------------------------------------------------
(* What each transaction does to its row, and to no other.                 *)

LEMMA AdmitsRow ==
  ASSUME RowsInv, NEW r \in Requests, NEW limit,
         ClaimInsert(r, limit) \/ ResumeAwaitingRetry(r.hash, limit)
  PROVE  /\ \A g \in Hashes \ {r.hash} : rows'[g] = rows[g]
         /\ rows[r.hash].state \in {"absent", "awaiting_retry"} /\ ~ActiveSignerExists
         /\ rows'[r.hash].state = "reserved" /\ rows'[r.hash].nonce = 0 /\ rows'[r.hash].response = "none"
<1>1. r.hash \in Hashes
  BY RequestsAssumption, Zenon
<1>2. CASE ClaimInsert(r, limit)
  BY <1>1, <1>2, Zenon DEF ClaimInsert, ReservedRow, InsertConflicts, Exists, RowsInv, JournalTypeOK
<1>3. ASSUME NEW h \in Hashes, ResumeAwaitingRetry(h, limit)
      PROVE  /\ \A g \in Hashes \ {h} : rows'[g] = rows[g]
             /\ rows[h].state = "awaiting_retry" /\ ~ActiveSignerExists
             /\ rows'[h].state = "reserved" /\ rows'[h].nonce = rows[h].nonce /\ rows'[h].response = rows[h].response
  <2>1. rows \in [Hashes -> Row] /\ rows[h] \in Row
    BY Zenon DEF RowsInv, JournalTypeOK
  <2>2. /\ rows[h].state = "awaiting_retry" /\ ~ActiveSignerExists
        /\ rows' = [rows EXCEPT ![h].state = "reserved", ![h].day = today,
                     ![h].reserved = Reservation, ![h].attempts = @ + 1]
    BY <1>3, Zenon DEF ResumeAwaitingRetry
  <2>3. \A g \in Hashes \ {h} : rows'[g] = rows[g]
    BY <2>1, <2>2, Zenon
  <2>4. rows'[h].state = "reserved" /\ rows'[h].nonce = rows[h].nonce /\ rows'[h].response = rows[h].response
    BY <2>1, <2>2, Zenon DEF Row
  <2> QED BY <2>2, <2>3, <2>4, Zenon
<1>4. rows[r.hash].state = "awaiting_retry" => rows[r.hash].nonce = 0 /\ rows[r.hash].response = "none"
  BY <1>1, Zenon DEF RowsInv, SchemaChecks, Terminal
<1> QED BY <1>1, <1>2, <1>3, <1>4, Zenon

LEMMA ReleasesRow ==
  ASSUME RowsInv, NEW h \in Hashes, MarkAwaitingRetry(h)
  PROVE  /\ \A g \in Hashes \ {h} : rows'[g] = rows[g]
         /\ rows[h].state = "reserved" /\ rows'[h].state = "awaiting_retry"
         /\ rows'[h].nonce = rows[h].nonce /\ rows'[h].depth = rows[h].depth
         /\ rows'[h].response = rows[h].response
  BY Zenon DEF MarkAwaitingRetry, RowsInv, JournalTypeOK, Row

LEMMA PreparesRow ==
  ASSUME RowsInv, NEW h \in Hashes, NEW n, NEW depth, MarkPrepared(h, n, depth)
  PROVE  /\ \A g \in Hashes \ {h} : rows'[g] = rows[g]
         /\ rows[h].state = "reserved" /\ rows'[h].state = "prepared"
         /\ rows'[h].nonce = n /\ rows'[h].depth = depth /\ rows'[h].response = rows[h].response
  BY EvmAssumption DEF MarkPrepared, RowsInv, JournalTypeOK, Row

LEMMA SubmitsRow ==
  ASSUME RowsInv, NEW h \in Hashes, MarkSubmitted(h)
  PROVE  /\ \A g \in Hashes \ {h} : rows'[g] = rows[g]
         /\ rows[h].state = "prepared" /\ rows'[h].state = "submitted"
         /\ rows'[h].nonce = rows[h].nonce /\ rows'[h].depth = rows[h].depth
         /\ rows'[h].response = rows[h].response
  BY Zenon DEF MarkSubmitted, RowsInv, JournalTypeOK, Row

LEMMA RaisesRow ==
  ASSUME RowsInv, NEW h \in Hashes, NEW depth \in Nat, RaiseRequiredConfirmations(h, depth)
  PROVE  /\ \A g \in Hashes \ {h} : rows'[g] = rows[g]
         /\ rows[h].state \in Unresolved /\ rows'[h].state = rows[h].state
         /\ rows'[h].nonce = rows[h].nonce /\ rows'[h].response = rows[h].response
         /\ rows'[h].depth \in Nat /\ rows'[h].depth >= depth /\ rows'[h].depth >= rows[h].depth
<1>1. rows[h].depth \in Nat
  BY DepthIsNat, Zenon
<1>2. rows'[h].depth = IF rows[h].depth < depth THEN depth ELSE rows[h].depth
  BY Zenon DEF RaiseRequiredConfirmations, RowsInv, JournalTypeOK, Row
<1>3. rows'[h].depth \in Nat /\ rows'[h].depth >= depth /\ rows'[h].depth >= rows[h].depth
  BY <1>1, <1>2
<1> QED BY <1>3, Zenon DEF RaiseRequiredConfirmations, RowsInv, JournalTypeOK, Row, Unresolved

LEMMA FinishesRow ==
  ASSUME RowsInv, NEW h \in Hashes, NEW response, NEW fee, NEW confirmations,
         MarkTerminal(h, response, fee, confirmations)
  PROVE  /\ \A g \in Hashes \ {h} : rows'[g] = rows[g]
         /\ rows[h].state \in Unresolved \cup {"reserved"} /\ rows'[h].state = TerminalState(response)
         /\ rows'[h].nonce = rows[h].nonce /\ rows'[h].depth = rows[h].depth
         /\ rows'[h].response = response
  BY Zenon DEF MarkTerminal, TerminalAllowed, RowsInv, JournalTypeOK, Row, Unresolved

-----------------------------------------------------------------------------
(* How one step changes the rows.                                          *)

\* A step changes one row at most.
LEMMA RowsMove ==
  ASSUME RowsInv, TasksInv, PoliciesOK, [Next]_vars
  PROVE  \/ rows' = rows
         \/ \E h \in Hashes : RowMoves(h) /\ \A g \in Hashes \ {h} : rows'[g] = rows[g]
<1> DEFINE Goal == \/ rows' = rows
                   \/ \E h \in Hashes : RowMoves(h) /\ \A g \in Hashes \ {h} : rows'[g] = rows[g]
<1>1. CASE UNCHANGED jvars \/ QuarantineRelayer
  BY <1>1, Zenon DEF jvars, QuarantineRelayer
<1>2. ASSUME NEW x \in Handlers, HandlerStep(x), HandlerWrites(x) PROVE Goal
  <2>1. handler[x].req \in Requests /\ handler[x].proc \in Procs
    BY <1>2, Zenon DEF HandlerWrites, TasksInv, HandlersOK
  <2>2. PICK r \in Requests : r = handler[x].req
    BY <2>1, Zenon
  <2>3. r.hash \in Hashes
    BY RequestsAssumption, Zenon
  <2>4. /\ \A g \in Hashes \ {r.hash} : rows'[g] = rows[g]
        /\ rows[r.hash].state \in {"absent", "awaiting_retry"}
        /\ rows'[r.hash].state = "reserved" /\ rows'[r.hash].response = "none"
    BY <1>2, <2>2, AdmitsRow, Zenon DEF HandlerWrites
  <2> QED BY <1>2, <2>1, <2>3, <2>4, Zenon DEF RowMoves, RowAdmitted
<1>3. ASSUME NEW w \in Workers, WorkerStep(w), WorkerWrites(w) PROVE Goal
  <2>1. PICK h \in Hashes : h = worker[w].hash
    BY <1>3, Zenon DEF WorkerWrites, At, TasksInv, WorkersOK
  <2>2. CASE At(w, "protocol_failure") /\ MarkTerminal(h, "protocol_failure", 0, 0)
    BY <2>1, <2>2, FinishesRow, Zenon DEF RowMoves, WorkerFails
  <2>3. CASE MarkAwaitingRetry(h)
    BY <2>3, ReleasesRow, Zenon DEF RowMoves, RowReleased
  <2>4. CASE MarkSubmitted(h)
    <3>1. /\ \A g \in Hashes \ {h} : rows'[g] = rows[g]
          /\ RowGoesOn(h)
      BY <2>4, SubmitsRow, Zenon DEF RowGoesOn, Unresolved
    <3> QED BY <3>1, Zenon DEF RowMoves
  <2>5. CASE At(w, "prepare") /\ MarkPrepared(h, worker[w].nonce, policy[worker[w].proc].depth)
    <3>1. \A g \in Hashes \ {h} : rows'[g] = rows[g]
      BY <2>5, PreparesRow, Zenon
    <3> QED BY <1>3, <2>1, <2>5, <3>1, Zenon DEF RowMoves, WorkerPrepares
  <2> QED BY <1>3, <2>1, <2>2, <2>3, <2>4, <2>5, Zenon DEF WorkerWrites
<1>4. ASSUME NEW p \in Procs, ReconcileStep(p), ReconcileWrites(p) PROVE Goal
  <2>1. rc[p].reserved \subseteq Hashes /\ (rc[p].pc \in RowPcs => rc[p].cur \in Hashes)
    BY Zenon DEF TasksInv, ReconcilesOK, ReconcileCall
  <2>2. ASSUME NEW h \in rc[p].reserved, MarkAwaitingRetry(h) PROVE Goal
    BY <2>1, <2>2, ReleasesRow, Zenon DEF RowMoves, RowReleased
  <2>3. ASSUME Looking(p, "raise"), RaiseRequiredConfirmations(rc[p].cur, policy[p].depth) PROVE Goal
    <3>1. PICK h \in Hashes : h = rc[p].cur
      BY <2>1, <2>3, Zenon DEF Looking, RowPcs
    <3>2. policy[p].depth \in Nat
      BY PolicyDepth, ConstantsAssumption, Zenon
    <3>3. /\ \A g \in Hashes \ {h} : rows'[g] = rows[g]
          /\ rows[h].state \in Unresolved /\ rows'[h].state = rows[h].state
          /\ rows'[h].nonce = rows[h].nonce /\ rows'[h].response = rows[h].response
          /\ rows'[h].depth >= rows[h].depth
      BY <2>3, <3>1, <3>2, RaisesRow, Zenon
    <3> QED BY <2>3, <3>1, <3>3, Zenon DEF RowMoves, RowGoesOn
  <2>4. ASSUME rc[p].pc = "resubmit", MarkSubmitted(rc[p].cur) PROVE Goal
    <3>1. PICK h \in Hashes : h = rc[p].cur
      BY <2>1, <2>4, Zenon DEF RowPcs
    <3>2. /\ \A g \in Hashes \ {h} : rows'[g] = rows[g]
          /\ RowGoesOn(h)
      BY <2>4, <3>1, SubmitsRow, Zenon DEF RowGoesOn, Unresolved
    <3> QED BY <3>2, Zenon DEF RowMoves
  <2>5. ASSUME rc[p].pc \in Verdicts, look[p].step = "book",
               MarkTerminal(rc[p].cur, rc[p].pc, look[p].fee, look[p].confirmations)
        PROVE  Goal
    <3>1. PICK h \in Hashes : h = rc[p].cur
      BY <2>1, <2>5, Zenon DEF RowPcs, Verdicts, Responses
    <3>2. \A g \in Hashes \ {h} : rows'[g] = rows[g]
      BY <2>5, <3>1, FinishesRow, Zenon
    <3> QED BY <1>4, <2>5, <3>1, <3>2, Zenon DEF RowMoves, ReconcileBooks
  <2> QED BY <1>4, <2>2, <2>3, <2>4, <2>5, Zenon DEF ReconcileWrites
<1> QED BY <1>1, <1>2, <1>3, <1>4, WritesStep, Zenon DEF EngineWrites

-----------------------------------------------------------------------------
(* How tasks move.                                                         *)

LEMMA GotoType ==
  ASSUME WorkersOK, NEW w \in Workers, ~At(w, "idle"), NEW pc \in WorkerPcs, Goto(w, pc)
  PROVE  /\ WorkersOK'
         /\ worker'[w].pc = pc /\ worker'[w].hash = worker[w].hash
         /\ worker'[w].nonce = worker[w].nonce /\ worker'[w].proc = worker[w].proc
         /\ \A v \in Workers : v # w => worker'[v] = worker[v]
  BY Zenon DEF WorkersOK, At, Goto

LEMMA EndWorkerType ==
  ASSUME WorkersOK, NEW w \in Workers, EndWorker(w)
  PROVE  WorkersOK' /\ worker'[w] = IdleWorker /\ \A v \in Workers : v # w => worker'[v] = worker[v]
  BY Zenon DEF WorkersOK, At, EndWorker, IdleWorker

LEMMA SpawnType ==
  ASSUME WorkersOK, NEW p \in Procs, NEW h \in Hashes, Spawn(p, h)
  PROVE  /\ WorkersOK'
         /\ \A w \in Workers :
              \/ worker'[w] = worker[w]
              \/ At(w, "idle") /\ worker'[w].pc = "queued" /\ worker'[w].proc = p /\ worker'[w].hash = h
<1>1. PICK w \in Workers :
        /\ At(w, "idle")
        /\ worker' = [worker EXCEPT ![w] = [pc |-> "queued", proc |-> p, hash |-> h, nonce |-> 0]]
  BY Zenon DEF Spawn
<1> QED BY <1>1, Zenon DEF WorkersOK, At

LEMMA WorkersStep ==
  ASSUME RowsInv, TasksInv, [Next]_vars
  PROVE  WorkersOK' /\ \A w \in Workers : WorkerMoves(w)
<1> DEFINE Goal == WorkersOK' /\ \A w \in Workers : WorkerMoves(w)
<1>0. WorkersOK /\ HandlersOK /\ WorkerTasks
  BY Zenon DEF TasksInv
<1>1. ASSUME UNCHANGED worker PROVE Goal
  <2>1. WorkersOK'
    BY <1>0, <1>1, Zenon DEF WorkersOK, At
  <2> QED BY <1>1, <2>1, Zenon DEF WorkerMoves
<1>2. ASSUME NEW w \in Workers, EndWorker(w) PROVE Goal
  BY <1>0, <1>2, EndWorkerType, Zenon DEF WorkerMoves
<1>3. ASSUME NEW w \in Workers, WorkerStep(w), ~At(w, "idle"), NEW pc \in WorkerPcs, Goto(w, pc),
             worker'[w].pc = pc /\ worker'[w].nonce = worker[w].nonce => WorkerGoes(w)
      PROVE  Goal
  <2>1. /\ WorkersOK'
        /\ worker'[w].pc = pc /\ worker'[w].hash = worker[w].hash
        /\ worker'[w].nonce = worker[w].nonce /\ worker'[w].proc = worker[w].proc
        /\ \A v \in Workers : v # w => worker'[v] = worker[v]
    BY <1>0, <1>3, GotoType, Zenon
  <2> QED BY <1>3, <2>1, Zenon DEF WorkerMoves
<1>4. ASSUME NEW x \in Handlers, HandlerStep(x) PROVE Goal
  <2>1. handler[x].pc # "idle" => handler[x].proc \in Procs /\ handler[x].req \in Requests /\ handler[x].req.hash \in Hashes
    BY <1>0, RequestsAssumption, Zenon DEF HandlersOK
  <2>2. CASE /\ handler[x].pc # "idle"
             /\ Spawn(handler[x].proc, handler[x].req.hash)
             /\ rows[handler[x].req.hash].state # "reserved" /\ rows'[handler[x].req.hash].state = "reserved"
    <3>1. /\ WorkersOK'
          /\ \A w \in Workers :
               \/ worker'[w] = worker[w]
               \/ /\ At(w, "idle") /\ worker'[w].pc = "queued"
                  /\ worker'[w].proc = handler[x].proc /\ worker'[w].hash = handler[x].req.hash
      BY <1>0, <2>1, <2>2, SpawnType
    <3> QED BY <1>4, <2>1, <2>2, <3>1, Zenon DEF WorkerMoves
  <2>3. ASSUME NEW limit \in ClientLimits, handler[x].pc # "idle",
               ClaimInsert(handler[x].req, limit) \/ ResumeAwaitingRetry(handler[x].req.hash, limit)
        PROVE  rows[handler[x].req.hash].state # "reserved" /\ rows'[handler[x].req.hash].state = "reserved"
    BY <2>1, <2>3, AdmitsRow, Zenon
  <2>4. \/ UNCHANGED worker
        \/ /\ handler[x].pc # "idle" /\ Spawn(handler[x].proc, handler[x].req.hash)
           /\ \E limit \in ClientLimits :
                ClaimInsert(handler[x].req, limit) \/ ResumeAwaitingRetry(handler[x].req.hash, limit)
    BY <1>4, Zenon DEF HandlerStep, Claim, Resume, SpawnOrStrand
  <2> QED BY <1>1, <2>2, <2>3, <2>4, Zenon
<1>5. ASSUME NEW w \in Workers, WorkerStep(w) PROVE Goal
  <2> USE DEF WorkerPcs, Responses
  <2>1. CASE WorkerRetry(w) \/ WorkerTerminalize(w, "protocol_failure") \/ WorkerQuarantine(w) \/ WorkerAwait(w)
    BY <1>2, <2>1, Zenon DEF WorkerRetry, WorkerTerminalize, WorkerQuarantine, WorkerAwait
  <2>2. CASE WorkerLock(w)
    BY <1>3, <1>5, <2>2, Zenon DEF WorkerLock, At, WorkerGoes
  <2>3. CASE WorkerVerify(w)
    BY <1>3, <1>5, <2>3, Zenon DEF WorkerVerify, At, WorkerGoes
  <2>4. CASE WorkerSign(w)
    <3>1. CASE Goto(w, "retry")
      BY <1>3, <1>5, <2>4, <3>1, Zenon DEF WorkerSign, At, WorkerGoes
    <3> DEFINE Task == [pc: WorkerPcs \cup {"idle", "queued"}, proc: Procs \cup {NoProc},
                        hash: Hashes \cup {NoHash}, nonce: {0} \cup Nonces]
    <3>2. ASSUME NEW n \in Nonces, worker' = [worker EXCEPT ![w].pc = "prepare", ![w].nonce = n]
          PROVE  Goal
      <4>1. worker[w].pc = "sign" /\ UNCHANGED jvars
        BY <2>4, Zenon DEF WorkerSign, At
      <4>a. [worker[w] EXCEPT !.pc = "prepare"] \in Task
        BY <1>0, Zenon DEF WorkersOK
      <4>b. [[worker[w] EXCEPT !.pc = "prepare"] EXCEPT !.nonce = n] \in Task
        BY <4>a, Zenon
      <4>c. worker' \in [Workers -> Task]
        BY <1>0, <3>2, <4>b, Zenon DEF WorkersOK
      <4>d. \A v \in Workers : worker'[v].pc # "idle" => worker'[v].proc \in Procs /\ worker'[v].hash \in Hashes
        BY <1>0, <3>2, <4>1, Zenon DEF WorkersOK, At
      <4>2. WorkersOK'
        BY <4>c, <4>d, Zenon DEF WorkersOK, At
      <4>3. /\ worker'[w].pc = "prepare" /\ worker'[w].nonce = n
            /\ worker'[w].hash = worker[w].hash /\ worker'[w].proc = worker[w].proc
            /\ \A v \in Workers : v # w => worker'[v] = worker[v]
        BY <1>0, <3>2, Zenon DEF WorkersOK
      <4> QED BY <1>5, <4>1, <4>2, <4>3, Zenon DEF WorkerMoves, WorkerGoes, At
    <3> QED BY <2>4, <3>1, <3>2, Zenon DEF WorkerSign
  <2>5. CASE WorkerPrepare(w)
    <3>1. CASE EndWorker(w)
      BY <1>2, <3>1, Zenon
    <3>2. CASE Goto(w, "submit") /\ MarkPrepared(worker[w].hash, worker[w].nonce, policy[worker[w].proc].depth)
      <4>1. At(w, "prepare")
        BY <2>5, Zenon DEF WorkerPrepare
      <4> QED BY <1>3, <1>5, <3>2, <4>1, Zenon DEF At, WorkerGoes
    <3> QED BY <2>5, <3>1, <3>2, Zenon DEF WorkerPrepare, WorkerStore, StoreCall
  <2>6. CASE WorkerSubmit(w)
    <3>1. CASE EndWorker(w)
      BY <1>2, <3>1, Zenon
    <3>2. CASE Goto(w, "recheck") /\ MarkSubmitted(worker[w].hash)
      <4>1. At(w, "submit")
        BY <2>6, Zenon DEF WorkerSubmit
      <4> QED BY <1>3, <1>5, <3>2, <4>1, Zenon DEF At, WorkerGoes
    <3> QED BY <2>6, <3>1, <3>2, Zenon DEF WorkerSubmit, WorkerStore, StoreCall
  <2>7. CASE WorkerSend(w)
    <3>1. At(w, "recheck") /\ UNCHANGED jvars
      BY <2>7, Zenon DEF WorkerSend
    <3>2. EndWorker(w) \/ Goto(w, "quarantine") \/ Goto(w, "await")
      BY <2>7, Zenon DEF WorkerSend
    <3> QED BY <1>2, <1>3, <1>5, <3>1, <3>2, Zenon DEF At, WorkerGoes
  <2> QED BY <1>5, <2>1, <2>2, <2>3, <2>4, <2>5, <2>6, <2>7, Zenon DEF WorkerStep
<1>6. ASSUME NEW p \in Procs, ProcessStep(p) PROVE Goal
  <2>1. CASE Crash(p)
    <3>1. \A w \in Workers : worker'[w] = worker[w] \/ worker'[w] = IdleWorker
      BY <2>1, Zenon DEF Crash
    <3>2. WorkersOK'
      BY <1>0, <2>1, Zenon DEF Crash, WorkersOK, At, IdleWorker
    <3> QED BY <3>1, <3>2, Zenon DEF WorkerMoves
  <2>2. Crash(p) \/ UNCHANGED worker
    BY <1>6, Zenon DEF ProcessStep, AcquireLeadership, LoseSession, HeartbeatFails, Admit, Refresh, RefreshReadiness, Restart
  <2> QED BY <1>1, <2>1, <2>2, Zenon
<1>7. ASSUME NEW p \in Procs, ReconcileStep(p) PROVE Goal
  BY <1>1, <1>7, ReconcileFrame, Zenon
<1>8. CASE ChainMoves \/ UNCHANGED vars
  BY <1>1, <1>8, ChainFrame, Zenon
<1> QED BY <1>4, <1>5, <1>6, <1>7, <1>8, Zenon DEF Next, ChainMoves

\* What a signed worker knows stays true, whatever the other tasks do.
LEMMA WorkerTasksStep ==
  ASSUME RowsInv, TasksInv, Stays, \A w \in Workers : WorkerMoves(w)
  PROVE  WorkerTasks'
<1>0. WorkersOK /\ WorkerTasks /\ 0 \notin Nonces
  BY ConstantsAssumption, Zenon DEF TasksInv
<1> SUFFICES ASSUME NEW w \in Workers
             PROVE  /\ worker'[w].pc \in {"prepare", "submit", "recheck"} => worker'[w].nonce \in Nonces
                    /\ worker'[w].pc \in {"submit", "recheck"} => rows'[worker'[w].hash].nonce = worker'[w].nonce
                    /\ worker'[w].pc = "recheck" => Sent(worker[w].hash)'
  BY Zenon DEF WorkerTasks, Sent
<1>1. rows \in [Hashes -> Row] /\ (~At(w, "idle") => worker[w].hash \in Hashes /\ rows[worker[w].hash] \in Row)
  BY <1>0, Zenon DEF RowsInv, JournalTypeOK, WorkersOK
<1>2. CASE worker'[w] = worker[w]
  BY <1>0, <1>1, <1>2 DEF WorkerTasks, Stays, Sent, At
<1>3. CASE worker'[w].pc \notin {"prepare", "submit", "recheck"}
  BY <1>3, Zenon
<1>4. CASE worker'[w].pc = "prepare" /\ worker'[w].nonce \in Nonces
  BY <1>4, Zenon
<1>5. CASE /\ At(w, "prepare") /\ worker'[w].pc = "submit" /\ worker'[w].nonce = worker[w].nonce
           /\ worker'[w].hash = worker[w].hash
           /\ MarkPrepared(worker[w].hash, worker[w].nonce, policy[worker[w].proc].depth)
  <2>1. worker[w].nonce \in Nonces
    BY <1>0, <1>5, Zenon DEF WorkerTasks, At
  <2>2. rows'[worker[w].hash].nonce = worker[w].nonce
    BY <1>1, <1>5, Zenon DEF MarkPrepared, Row, At
  <2> QED BY <1>5, <2>1, <2>2, Zenon
<1>6. CASE /\ At(w, "submit") /\ worker'[w].pc = "recheck" /\ worker'[w].nonce = worker[w].nonce
           /\ worker'[w].hash = worker[w].hash
           /\ MarkSubmitted(worker[w].hash)
  <2>1. worker[w].nonce \in Nonces /\ rows[worker[w].hash].nonce = worker[w].nonce /\ worker[w].nonce # 0
    BY <1>0, <1>6, Zenon DEF WorkerTasks, At
  <2>2. worker[w].hash \in Hashes
    BY <1>1, <1>6, Zenon DEF At
  <2>3. rows'[worker[w].hash].nonce = worker[w].nonce
    BY <2>1, <2>2, Zenon DEF Stays
  <2>4. rows'[worker[w].hash].state = "submitted"
    BY <1>1, <1>6, <2>2, Zenon DEF MarkSubmitted, Row
  <2> QED BY <1>6, <2>1, <2>3, <2>4, Zenon DEF Sent
<1>7. CASE worker'[w] = IdleWorker
  BY <1>3, <1>7 DEF IdleWorker
<1>8. CASE worker'[w].hash = worker[w].hash /\ WorkerGoes(w)
  BY <1>3, <1>4, <1>5, <1>6, <1>8, Zenon DEF WorkerGoes
<1> QED BY <1>2, <1>3, <1>7, <1>8, Zenon DEF WorkerMoves

-----------------------------------------------------------------------------
(* How reconcile calls move.                                               *)

\* One call changes, to a well-formed one.
LEMMA CallUpdate ==
  ASSUME ReconcilesOK, LookForm, NEW p \in Procs, NEW c \in ReconcileCall, NEW l,
         rc' = [rc EXCEPT ![p] = c], look' = [look EXCEPT ![p] = l],
         c.pc \in RowPcs => c.cur \in c.prepared \cup c.submitted,
         DOMAIN l = LookFields
  PROVE  /\ ReconcilesOK' /\ LookForm'
         /\ rc'[p] = c /\ look'[p] = l
         /\ \A q \in Procs \ {p} : CallRests(q)
<1>1. ReconcilesOK' /\ rc'[p] = c /\ \A q \in Procs \ {p} : rc'[q] = rc[q]
  BY Zenon DEF ReconcilesOK
<1>2. LookForm' /\ look'[p] = l /\ \A q \in Procs \ {p} : look'[q] = look[q]
  BY Zenon DEF LookForm
<1> QED BY <1>1, <1>2, Zenon DEF CallRests

LEMMA NoLookFields == DOMAIN NoLook = LookFields
  BY Zenon DEF NoLook, LookFields

LEMMA IdleCall == IdleRc \in ReconcileCall /\ IdleRc.pc \notin RowPcs
  BY Zenon DEF IdleRc, ReconcileCall, RcPcs, RowPcs, Responses

\* A fresh call is well-formed, also between two rows of its snapshot.
LEMMA FreshCall ==
  ASSUME NEW pc \in {"release", "finish", "open"}, NEW A \in SUBSET Hashes, NEW B \in SUBSET Hashes,
         NEW C \in SUBSET Hashes, NEW e \in BOOLEAN
  PROVE  \A c \in {[IdleRc EXCEPT !.pc = pc],
                   [IdleRc EXCEPT !.pc = pc, !.empty = e],
                   [IdleRc EXCEPT !.pc = pc, !.prepared = A, !.submitted = B],
                   [IdleRc EXCEPT !.pc = pc, !.reserved = C, !.prepared = A, !.submitted = B]} :
           c \in ReconcileCall /\ c.pc \notin RowPcs
<1>1. IdleRc \in ReconcileCall /\ pc \in RcPcs /\ pc \notin RowPcs
  BY IdleCall, Zenon DEF RcPcs, RowPcs, Responses
<1>2. [IdleRc EXCEPT !.pc = pc] \in ReconcileCall /\ [IdleRc EXCEPT !.pc = pc].pc \notin RowPcs
  BY <1>1, Zenon DEF ReconcileCall
<1>3. [IdleRc EXCEPT !.pc = pc, !.empty = e] \in ReconcileCall /\ [IdleRc EXCEPT !.pc = pc, !.empty = e].pc \notin RowPcs
  BY <1>1, Zenon DEF ReconcileCall
<1>4. /\ [IdleRc EXCEPT !.pc = pc, !.prepared = A, !.submitted = B] \in ReconcileCall
      /\ [IdleRc EXCEPT !.pc = pc, !.prepared = A, !.submitted = B].pc \notin RowPcs
  BY <1>1, Zenon DEF ReconcileCall
<1>5. /\ [IdleRc EXCEPT !.pc = pc, !.reserved = C, !.prepared = A, !.submitted = B] \in ReconcileCall
      /\ [IdleRc EXCEPT !.pc = pc, !.reserved = C, !.prepared = A, !.submitted = B].pc \notin RowPcs
  BY <1>1, Zenon DEF ReconcileCall
<1> QED BY <1>2, <1>3, <1>4, <1>5, Zenon

LEMMA ConfirmedVerdict ==
  ASSUME NEW facts, NEW head, NEW required,
         ClassifyConfirmations(facts, head, required).kind = "terminal"
  PROVE  /\ required # 0 /\ ~(head < facts.number)
         /\ head - facts.number + 1 >= required
         /\ ClassifyConfirmations(facts, head, required).facts = facts
         /\ ClassifyConfirmations(facts, head, required).confirmations = head - facts.number + 1
<1>1. RpcError.kind # "terminal" /\ PendingReceipt.kind # "terminal"
  BY Zenon DEF RpcError, PendingReceipt
<1>2. required # 0 /\ ~(head < facts.number)
  BY <1>1, Zenon DEF ClassifyConfirmations
<1>3. head - facts.number + 1 >= required
  BY <1>1, <1>2, Zenon DEF ClassifyConfirmations
<1>4. ClassifyConfirmations(facts, head, required) =
        [kind |-> "terminal", facts |-> facts, confirmations |-> head - facts.number + 1]
  BY <1>2, <1>3, Zenon DEF ClassifyConfirmations
<1>5. \A a : /\ [kind |-> "terminal", facts |-> facts, confirmations |-> a].facts = facts
             /\ [kind |-> "terminal", facts |-> facts, confirmations |-> a].confirmations = a
  BY Zenon
<1> QED BY <1>2, <1>3, <1>4, <1>5, Zenon

LEMMA CallsStep ==
  ASSUME TasksInv, LookInv, [Next]_vars
  PROVE  ReconcilesOK' /\ LookForm' /\ \A p \in Procs : CallMoves(p)
<1> DEFINE Goal == ReconcilesOK' /\ LookForm' /\ \A p \in Procs : CallMoves(p)
<1>0. /\ ReconcilesOK /\ LookOK /\ LookForm /\ rc \in [Procs -> ReconcileCall]
      /\ \A p \in Procs : rc[p] \in ReconcileCall
      /\ \A p \in Procs : rc[p].pc \in RowPcs => rc[p].cur \in rc[p].prepared \cup rc[p].submitted
      /\ \A p \in Procs : DOMAIN look[p] = LookFields
      /\ \A p \in Procs : rc[p].pc \notin {"status"} \cup Verdicts => look[p] = NoLook
  BY Zenon DEF TasksInv, LookInv, LookOK, LookForm, ReconcilesOK
<1>1. ASSUME UNCHANGED <<rc, look>> PROVE Goal
  BY <1>0, <1>1, Zenon DEF ReconcilesOK, LookForm, CallMoves, CallRests
<1>2. ASSUME NEW p \in Procs, NEW c \in ReconcileCall, NEW l,
             rc' = [rc EXCEPT ![p] = c], look' = [look EXCEPT ![p] = l],
             c.pc \in RowPcs => c.cur \in c.prepared \cup c.submitted,
             DOMAIN l = LookFields,
             rc'[p] = c /\ look'[p] = l => CallMoves(p)
      PROVE  Goal
  <2>1. /\ ReconcilesOK' /\ LookForm'
        /\ rc'[p] = c /\ look'[p] = l
        /\ \A q \in Procs \ {p} : CallRests(q)
    BY <1>0, <1>2, CallUpdate, Zenon
  <2> QED BY <1>2, <2>1, Zenon DEF CallMoves
<1>3. ASSUME NEW p \in Procs
      PROVE  /\ UNCHANGED rc => rc' = [rc EXCEPT ![p] = rc[p]]
             /\ UNCHANGED look => look' = [look EXCEPT ![p] = look[p]]
  <2>1. UNCHANGED rc => rc' = [rc EXCEPT ![p] = rc[p]]
    BY <1>0, Zenon
  <2>2. UNCHANGED look => look' = [look EXCEPT ![p] = look[p]]
    BY <1>0, Zenon DEF LookForm
  <2> QED BY <2>1, <2>2, Zenon
<1>4. ASSUME NEW p \in Procs, EndReconcile(p),
             Forget(p) \/ (UNCHANGED look /\ rc[p].pc \notin {"status"} \cup Verdicts)
      PROVE  Goal
  <2>1. rc' = [rc EXCEPT ![p] = IdleRc] /\ look' = [look EXCEPT ![p] = NoLook]
    BY <1>0, <1>3, <1>4, Zenon DEF EndReconcile, Forget
  <2> QED BY <1>2, <2>1, IdleCall, NoLookFields, Zenon DEF CallMoves, CallEnds
<1>5. ASSUME NEW p \in Procs, ReconcileStep(p), NEW c \in ReconcileCall, c.pc \notin RowPcs,
             rc' = [rc EXCEPT ![p] = c],
             Forget(p) \/ (UNCHANGED look /\ rc[p].pc \notin {"status"} \cup Verdicts),
             rc'[p] = c /\ look'[p] = NoLook => CallScans(p) \/ CallWalks(p)
      PROVE  Goal
  <2>1. look' = [look EXCEPT ![p] = NoLook]
    BY <1>0, <1>3, <1>5, Zenon DEF Forget
  <2> QED BY <1>2, <1>5, <2>1, NoLookFields, Zenon DEF CallMoves
<1>6. ASSUME NEW p \in Procs, ReconcileStep(p), rc[p].pc \in RowPcs, NEW pc \in RowPcs, NEW l, RGoto(p, pc),
             look' = [look EXCEPT ![p] = l], DOMAIN l = LookFields,
             rc'[p].pc = pc /\ SameRow(p) /\ look'[p] = l => CallReads(p) \/ CallDecides(p) \/ CallGoesOn(p)
      PROVE  Goal
  <2> DEFINE c == [rc[p] EXCEPT !.pc = pc]
  <2>1. rc' = [rc EXCEPT ![p] = c]
    BY <1>0, <1>6, Zenon DEF RGoto, SetRc
  <2>2. /\ c \in ReconcileCall /\ c.pc = pc /\ c.cur = rc[p].cur
        /\ c.prepared = rc[p].prepared /\ c.submitted = rc[p].submitted
    BY <1>0, <1>6, Zenon DEF ReconcileCall, RcPcs
  <2> HIDE DEF c
  <2>3. rc'[p] = c /\ look'[p] = l => CallMoves(p)
    BY <1>6, <2>2, Zenon DEF CallMoves, SameRow
  <2> QED BY <1>0, <1>2, <1>6, <2>1, <2>2, <2>3, Zenon
<1>7. ASSUME NEW p \in Procs, ReconcileStep(p), rc[p].pc \in RowPcs, NEW l, UNCHANGED rc,
             look' = [look EXCEPT ![p] = l], DOMAIN l = LookFields,
             rc'[p] = rc[p] /\ look'[p] = l => CallReads(p) \/ CallGoesOn(p)
      PROVE  Goal
  <2>1. rc' = [rc EXCEPT ![p] = rc[p]]
    BY <1>3, <1>7, Zenon
  <2> QED BY <1>0, <1>2, <1>7, <2>1, Zenon DEF CallMoves
<1>8. ASSUME NEW p \in Procs, ReconcileStep(p), Proceed(p), rc[p].pc \in RowPcs,
             Forget(p) \/ (UNCHANGED look /\ rc[p].pc \notin {"status"} \cup Verdicts)
      PROVE  Goal
  <2>0. Reconciling(p) /\ rc[p].prepared \subseteq Hashes /\ rc[p].submitted \subseteq Hashes
    BY <1>0, <1>8, Zenon DEF RowPcs, Responses, Reconciling, ReconcileCall
  <2>1. ASSUME Resolved(p) PROVE Goal
    <3> DEFINE A == rc[p].prepared \ {rc[p].cur}
               B == rc[p].submitted \ {rc[p].cur}
               c == [IdleRc EXCEPT !.pc = "release", !.prepared = A, !.submitted = B]
    <3>1. rc' = [rc EXCEPT ![p] = c]
      BY <2>1, Zenon DEF Resolved
    <3>2. A \in SUBSET Hashes /\ B \in SUBSET Hashes /\ A \subseteq rc[p].prepared /\ B \subseteq rc[p].submitted
      BY <2>0, Zenon
    <3>3. c.pc = "release" /\ c.prepared = A /\ c.submitted = B
      BY Zenon DEF IdleRc
    <3>4. c \in ReconcileCall /\ c.pc \notin RowPcs
      BY <3>2, FreshCall, Zenon
    <3> HIDE DEF A, B, c
    <3> QED BY <1>5, <1>8, <2>0, <3>1, <3>2, <3>3, <3>4, Zenon DEF CallWalks
  <2>2. ASSUME StopAt(p) PROVE Goal
    <3> DEFINE c == [IdleRc EXCEPT !.pc = "finish"]
    <3>1. rc' = [rc EXCEPT ![p] = c]
      BY <2>2, Zenon DEF StopAt
    <3>2. c.pc = "finish" /\ c.prepared = {} /\ c.submitted = {}
      BY Zenon DEF IdleRc
    <3>3. c \in ReconcileCall /\ c.pc \notin RowPcs
      BY FreshCall, Zenon
    <3> HIDE DEF c
    <3> QED BY <1>5, <1>8, <2>0, <3>1, <3>2, <3>3, Zenon DEF CallWalks
  <2> QED BY <1>8, <2>1, <2>2, Zenon DEF Proceed
<1>9. ASSUME NEW p \in Procs, ReconcileStep(p), UNCHANGED look,
             \/ ReconcileBegin(p) \/ ReconcileScan(p) \/ ReconcileRelease(p)
             \/ ReconcileNext(p) \/ ReconcileRemaining(p) \/ ReconcileOpen(p)
      PROVE  Goal
  <2>0. rc[p].pc \in {"idle", "queued", "release", "finish", "open"} => rc[p].pc \notin {"status"} \cup Verdicts \cup RowPcs
    BY Zenon DEF Verdicts, RowPcs, Responses
  <2>1. ASSUME ReconcileBegin(p) PROVE Goal
    <3> DEFINE c == [rc[p] EXCEPT !.pc = "queued"]
    <3>1. rc' = [rc EXCEPT ![p] = c] /\ rc[p].pc = "idle" /\ UNCHANGED <<jvars, gate, worker>>
          /\ gate[p].leadership /\ ~gate[p].reconciliation
      BY <2>1, Zenon DEF ReconcileBegin
    <3>2. c \in ReconcileCall /\ c.pc = "queued" /\ c.prepared = rc[p].prepared /\ c.submitted = rc[p].submitted
      BY <1>0, Zenon DEF ReconcileCall, RcPcs
    <3> HIDE DEF c
    <3> QED BY <1>5, <1>9, <2>0, <3>1, <3>2, Zenon DEF CallWalks, RowPcs, Responses
  <2>2. ASSUME ReconcileScan(p) PROVE Goal
    <3>1. CASE EndReconcile(p)
      BY <1>4, <1>9, <2>0, <2>2, <3>1, Zenon DEF ReconcileScan
    <3>2. CASE rc' = [rc EXCEPT ![p] = [IdleRc EXCEPT !.pc = "release",
               !.reserved = RowsIn({"reserved"}),
               !.prepared = RowsIn({"prepared"}),
               !.submitted = RowsIn({"submitted"})]]
      <4> DEFINE c == [IdleRc EXCEPT !.pc = "release", !.reserved = RowsIn({"reserved"}),
               !.prepared = RowsIn({"prepared"}), !.submitted = RowsIn({"submitted"})]
      <4>1. rc' = [rc EXCEPT ![p] = c]
        BY <3>2, Zenon
      <4>2. rc[p].pc = "queued" /\ LockFree(p) /\ UNCHANGED <<jvars, gate, worker>>
        BY <2>2, Zenon DEF ReconcileScan
      <4>3. \A S : RowsIn(S) \in SUBSET Hashes
        BY Zenon DEF RowsIn
      <4>4. c.pc = "release" /\ c.prepared = RowsIn({"prepared"}) /\ c.submitted = RowsIn({"submitted"})
        BY Zenon DEF IdleRc
      <4>5. c \in ReconcileCall /\ c.pc \notin RowPcs
        BY <4>3, FreshCall, Zenon
      <4> HIDE DEF c
      <4> QED BY <1>5, <1>9, <2>0, <4>1, <4>2, <4>4, <4>5, Zenon DEF CallScans
    <3> QED BY <2>2, <3>1, <3>2, Zenon DEF ReconcileScan
  <2>3. ASSUME ReconcileRelease(p) PROVE Goal
    <3>1. PICK h : rc' = [rc EXCEPT ![p].reserved = rc[p].reserved \ {h}]
      BY <2>3, Zenon DEF ReconcileRelease, SetRc
    <3> DEFINE c == [rc[p] EXCEPT !.reserved = rc[p].reserved \ {h}]
    <3>2. rc' = [rc EXCEPT ![p] = c]
      BY <1>0, <3>1, Zenon
    <3>3. /\ c \in ReconcileCall /\ c.pc = rc[p].pc
          /\ c.prepared = rc[p].prepared /\ c.submitted = rc[p].submitted
      BY <1>0, Zenon DEF ReconcileCall
    <3>4. rc[p].pc = "release"
      BY <2>3, Zenon DEF ReconcileRelease
    <3> HIDE DEF c
    <3> QED BY <1>5, <1>9, <2>0, <3>2, <3>3, <3>4, Zenon DEF CallWalks, Reconciling
  <2>4. ASSUME ReconcileNext(p) PROVE Goal
    <3>1. PICK h \in rc[p].prepared \cup rc[p].submitted : rc' = [rc EXCEPT ![p].pc = "status", ![p].cur = h]
      BY <2>4, Zenon DEF ReconcileNext
    <3> DEFINE c == [[rc[p] EXCEPT !.pc = "status"] EXCEPT !.cur = h]
    <3>2. rc' = [rc EXCEPT ![p] = c]
      BY <1>0, <3>1, Zenon
    <3>a. h \in Hashes
      BY <1>0, <3>1, Zenon DEF ReconcileCall
    <3>b. [rc[p] EXCEPT !.pc = "status"] \in ReconcileCall
      BY <1>0 DEF ReconcileCall, RcPcs, RowPcs
    <3>3. /\ c \in ReconcileCall /\ c.pc = "status" /\ c.cur = h
          /\ c.prepared = rc[p].prepared /\ c.submitted = rc[p].submitted
      BY <1>0, <3>a, <3>b, Zenon DEF ReconcileCall
    <3>4. rc[p].pc = "release" /\ UNCHANGED jvars
      BY <2>4, Zenon DEF ReconcileNext
    <3>5. look' = [look EXCEPT ![p] = NoLook]
      BY <1>0, <1>3, <1>9, <2>0, <3>4, Zenon
    <3> HIDE DEF c
    <3>6. rc'[p] = c /\ look'[p] = NoLook => CallMoves(p)
      BY <1>9, <3>3, <3>4, Zenon DEF CallMoves, CallWalks, Reconciling
    <3> QED BY <1>2, <3>1, <3>2, <3>3, <3>5, <3>6, NoLookFields, Zenon
  <2>5. ASSUME ReconcileRemaining(p) PROVE Goal
    <3> DEFINE e == RowsIn(Active) = {}
               c == [IdleRc EXCEPT !.pc = "open", !.empty = e]
    <3>1. rc' = [rc EXCEPT ![p] = c] /\ rc[p].pc \in {"finish", "release"} /\ UNCHANGED jvars
      BY <2>5, Zenon DEF ReconcileRemaining
    <3>2. c.pc = "open" /\ c.prepared = {} /\ c.submitted = {} /\ (c.empty => RowsIn(Active) = {})
      BY Zenon DEF IdleRc
    <3>3. c \in ReconcileCall /\ c.pc \notin RowPcs
      BY FreshCall, Zenon
    <3> HIDE DEF c
    <3> QED BY <1>5, <1>9, <2>0, <3>1, <3>2, <3>3, Zenon DEF CallWalks, Reconciling
  <2>6. ASSUME ReconcileOpen(p) PROVE Goal
    BY <1>4, <1>9, <2>0, <2>6, Zenon DEF ReconcileOpen
  <2> QED BY <1>9, <2>1, <2>2, <2>3, <2>4, <2>5, <2>6, Zenon
<1>10. ASSUME NEW p \in Procs, ReconcileStep(p), Fail(p) PROVE Goal
  BY <1>4, <1>10, Zenon DEF Fail
<1>11. "status" \in RowPcs /\ Verdicts \subseteq RowPcs
       /\ {"pending", "resubmit", "reheads", "quarantine", "await"} \cap ({"status"} \cup Verdicts) = {}
       /\ {"pending", "resubmit", "reheads", "quarantine", "await"} \subseteq RowPcs
  BY Zenon DEF RowPcs, Verdicts, Responses
<1>12. ASSUME NEW p \in Procs, ReconcileStep(p), ReconcileRaise(p) PROVE Goal
  <2>1. rc[p].pc = "status" /\ look[p].step = "raise"
    BY <1>12, Zenon DEF ReconcileRaise, Looking
  <2>2. CASE /\ RaiseRequiredConfirmations(rc[p].cur, policy[p].depth)
             /\ look' = [look EXCEPT ![p] = [NoLook EXCEPT !.step = "read", !.required = rows'[rc[p].cur].depth]]
             /\ UNCHANGED rc
    <3> DEFINE l == [NoLook EXCEPT !.step = "read", !.required = rows'[rc[p].cur].depth]
    <3>1. look' = [look EXCEPT ![p] = l]
      BY <2>2, Zenon
    <3>2. l.step = "read" /\ l.required = rows'[rc[p].cur].depth /\ DOMAIN l = LookFields
      BY Zenon DEF NoLook, LookFields
    <3> HIDE DEF l
    <3> QED BY <1>7, <1>11, <1>12, <2>1, <2>2, <3>1, <3>2, Zenon DEF CallReads, SameRow
  <2>3. \/ Fail(p)
        \/ /\ RaiseRequiredConfirmations(rc[p].cur, policy[p].depth)
           /\ look' = [look EXCEPT ![p] = [NoLook EXCEPT !.step = "read", !.required = rows'[rc[p].cur].depth]]
           /\ UNCHANGED rc
    BY <1>12, Zenon DEF ReconcileRaise, StoreCall
  <2> QED BY <1>10, <1>12, <2>2, <2>3, Zenon
<1>13. ASSUME NEW p \in Procs, ReconcileStep(p), ReconcileRead(p) PROVE Goal
  <2>1. rc[p].pc = "status" /\ look[p].step = "read" /\ UNCHANGED jvars
    BY <1>13, Zenon DEF ReconcileRead, Looking
  <2>2. ASSUME NEW first, NEW tx, UNCHANGED rc,
               look' = [look EXCEPT ![p] = [@ EXCEPT !.step = "head", !.first = first, !.tx = tx]]
        PROVE  Goal
    <3> DEFINE l == [look[p] EXCEPT !.step = "head", !.first = first, !.tx = tx]
    <3>1. look' = [look EXCEPT ![p] = l]
      BY <1>0, <2>2, Zenon DEF LookForm
    <3>2. l.step = "head" /\ l.required = look[p].required /\ DOMAIN l = LookFields
      BY <1>0, Zenon DEF LookFields
    <3> HIDE DEF l
    <3> QED BY <1>7, <1>11, <1>13, <2>1, <2>2, <3>1, <3>2, Zenon DEF CallReads, SameRow
  <2> QED BY <1>10, <1>13, <2>2, Zenon DEF ReconcileRead, Ambiguous
<1>14. ASSUME NEW p \in Procs, ReconcileStep(p), ReconcileHead(p) PROVE Goal
  <2>1. rc[p].pc = "status" /\ look[p].step = "head" /\ UNCHANGED jvars
    BY <1>14, Zenon DEF ReconcileHead, Looking
  <2>2. ASSUME UNCHANGED rc, look' = [look EXCEPT ![p] = [@ EXCEPT !.step = "again", !.head = SafeBlockNumber]]
        PROVE  Goal
    <3> DEFINE l == [look[p] EXCEPT !.step = "again", !.head = SafeBlockNumber]
    <3>1. look' = [look EXCEPT ![p] = l]
      BY <1>0, <2>2, Zenon DEF LookForm
    <3>2. l.step = "again" /\ l.required = look[p].required /\ l.head = SafeBlockNumber /\ DOMAIN l = LookFields
      BY <1>0, Zenon DEF LookFields
    <3> HIDE DEF l
    <3> QED BY <1>7, <1>11, <1>14, <2>1, <2>2, <3>1, <3>2, Zenon DEF CallReads, SameRow
  <2> QED BY <1>10, <1>14, <2>2, Zenon DEF ReconcileHead, Ambiguous
<1>15. ASSUME NEW p \in Procs, ReconcileStep(p), ReconcileVerdict(p) PROVE Goal
  <2> DEFINE again == IF look[p].first.kind = "mined" THEN Receipts(Submission(rc[p].cur)) ELSE look[p].first
             verdict == ClassifyReconciliation(look[p].first, look[p].tx, again, look[p].head, look[p].required)
  <2>1. rc[p].pc = "status" /\ look[p].step = "again" /\ UNCHANGED jvars
    BY <1>15, Zenon DEF ReconcileVerdict, Looking
  <2>2. ASSUME NEW pc \in {"pending", "resubmit"}, RGoto(p, pc), Forget(p) PROVE Goal
    BY <1>6, <1>11, <1>15, <2>1, <2>2, NoLookFields, Zenon DEF Forget, CallGoesOn
  <2>3. ASSUME verdict.kind = "terminal",
               RGoto(p, IF verdict.facts.ok THEN "success" ELSE "transaction_failed"),
               NEW fee \in Fees \cup Overruns,
               look' = [look EXCEPT ![p] = [NoLook EXCEPT !.fee = fee,
                             !.step = IF fee > rows[rc[p].cur].reserved THEN "overrun" ELSE "book",
                             !.confirmations = verdict.confirmations]]
        PROVE  Goal
    <3> DEFINE l == [NoLook EXCEPT !.fee = fee,
                       !.step = IF fee > rows[rc[p].cur].reserved THEN "overrun" ELSE "book",
                       !.confirmations = verdict.confirmations]
               pc == IF verdict.facts.ok THEN "success" ELSE "transaction_failed"
    <3>1. look[p].first.kind = "mined" /\ again = look[p].first
          /\ verdict = ClassifyConfirmations(again.facts, look[p].head, look[p].required)
      BY <2>3, Zenon DEF ClassifyReconciliation, UnknownReceipt, PendingReceipt
    <3>2. again = Receipts(Submission(rc[p].cur)) /\ again.kind = "mined"
      BY <3>1, Zenon
    <3>a. verdict.kind = "terminal" /\ RGoto(p, pc) /\ look' = [look EXCEPT ![p] = l]
      BY <2>3, Zenon
    <3> HIDE DEF verdict, again
    <3>b. ClassifyConfirmations(again.facts, look[p].head, look[p].required).kind = "terminal"
      BY <3>1, <3>a, Zenon
    <3>c. /\ look[p].required # 0 /\ ~(look[p].head < again.facts.number)
          /\ look[p].head - again.facts.number + 1 >= look[p].required
          /\ ClassifyConfirmations(again.facts, look[p].head, look[p].required).facts = again.facts
          /\ ClassifyConfirmations(again.facts, look[p].head, look[p].required).confirmations
               = look[p].head - again.facts.number + 1
      BY <3>b, ConfirmedVerdict, Zenon
    <3>3. /\ look[p].required # 0 /\ ~(look[p].head < again.facts.number)
          /\ look[p].head - again.facts.number + 1 >= look[p].required
          /\ verdict.facts = again.facts
          /\ verdict.confirmations = look[p].head - again.facts.number + 1
      BY <3>1, <3>c, Zenon
    <3>4. /\ DOMAIN l = LookFields /\ l.fee = fee /\ l.confirmations = verdict.confirmations
          /\ l.step = IF fee > rows[rc[p].cur].reserved THEN "overrun" ELSE "book"
      BY Zenon DEF NoLook, LookFields
    <3>5. look' = [look EXCEPT ![p] = l] /\ RGoto(p, pc) /\ pc \in Verdicts /\ pc \in RowPcs
      BY <1>11, <3>a, Zenon DEF Verdicts
    <3>6. pc = IF Receipts(Submission(rc[p].cur)).facts.ok THEN "success" ELSE "transaction_failed"
      BY <3>2, <3>3, Zenon
    <3> HIDE DEF l, pc
    <3>7. rc'[p].pc = pc /\ SameRow(p) /\ look'[p] = l => CallDecides(p)
      BY <2>1, <2>3, <3>1, <3>2, <3>3, <3>4, <3>6, Zenon DEF CallDecides
    <3> QED BY <1>6, <1>11, <1>15, <2>1, <3>4, <3>5, <3>7, Zenon
  <2>4. \/ Ambiguous(p)
        \/ RGoto(p, "pending") /\ Forget(p)
        \/ RGoto(p, "resubmit") /\ Forget(p)
        \/ /\ verdict.kind = "terminal"
           /\ RGoto(p, IF verdict.facts.ok THEN "success" ELSE "transaction_failed")
           /\ \E fee \in Fees \cup Overruns :
                look' = [look EXCEPT ![p] = [NoLook EXCEPT !.fee = fee,
                             !.step = IF fee > rows[rc[p].cur].reserved THEN "overrun" ELSE "book",
                             !.confirmations = verdict.confirmations]]
    <3>1. CASE NoFault
      <4>1. verdict.kind \in {"error", "pending", "unknown", "terminal"}
        BY Zenon DEF ClassifyReconciliation, ClassifyConfirmations, UnknownReceipt, PendingReceipt, RpcError
      <4> HIDE DEF verdict, again
      <4> QED BY <1>15, <4>1, Zenon DEF ReconcileVerdict, verdict, again
    <3>2. CASE Ambiguous(p)
      BY <3>2, Zenon
    <3> QED BY <1>15, <3>1, <3>2, Zenon DEF ReconcileVerdict
  <2> QED BY <1>10, <1>15, <2>2, <2>3, <2>4, Zenon DEF Ambiguous
<1>16. ASSUME NEW p \in Procs, ReconcileStep(p), ReconcilePending(p) PROVE Goal
  BY <1>8, <1>11, <1>16, Zenon DEF ReconcilePending
<1>17. ASSUME NEW p \in Procs, ReconcileStep(p), ReconcileOverrun(p) PROVE Goal
  <2>1. rc[p].pc \in Verdicts /\ look[p].step = "overrun"
    BY <1>17, Zenon DEF ReconcileOverrun, Verdicts
  <2>2. ASSUME QuarantineRelayer, look' = [look EXCEPT ![p].step = "book"], UNCHANGED rc PROVE Goal
    <3> DEFINE l == [look[p] EXCEPT !.step = "book"]
    <3>1. look' = [look EXCEPT ![p] = l]
      BY <1>0, <2>2, Zenon DEF LookForm
    <3>2. /\ l.step = "book" /\ l.fee = look[p].fee /\ l.confirmations = look[p].confirmations
          /\ DOMAIN l = LookFields
      BY <1>0, Zenon DEF LookFields
    <3> HIDE DEF l
    <3> QED BY <1>7, <1>11, <1>17, <2>1, <2>2, <3>1, <3>2, Zenon DEF CallGoesOn, SameRow
  <2> QED BY <1>10, <1>17, <2>2, Zenon DEF ReconcileOverrun, StoreCall
<1>18. ASSUME NEW p \in Procs, ReconcileStep(p), NEW response \in Verdicts, ReconcileBook(p, response) PROVE Goal
  <2>1. rc[p].pc \in RowPcs /\ Forget(p)
    BY <1>11, <1>18, Zenon DEF ReconcileBook
  <2>2. EndReconcile(p) \/ Proceed(p)
    BY <1>18, Zenon DEF ReconcileBook, StoreCall
  <2> QED BY <1>4, <1>8, <1>18, <2>1, <2>2, Zenon
<1>19. ASSUME NEW p \in Procs, ReconcileStep(p), ReconcileResubmit(p) PROVE Goal
  <2>1. rc[p].pc = "resubmit" /\ UNCHANGED look
    BY <1>19, Zenon DEF ReconcileResubmit
  <2>2. look[p] = NoLook /\ look' = [look EXCEPT ![p] = NoLook]
    BY <1>0, <1>3, <1>11, <2>1, Zenon
  <2>3. ASSUME RGoto(p, "reheads"), MarkSubmitted(rc[p].cur) \/ (rc[p].cur \notin rc[p].prepared /\ UNCHANGED jvars)
        PROVE  Goal
    BY <1>6, <1>11, <1>19, <2>1, <2>2, <2>3, NoLookFields, Zenon DEF CallGoesOn
  <2>4. EndReconcile(p) \/ /\ RGoto(p, "reheads")
                           /\ MarkSubmitted(rc[p].cur) \/ (rc[p].cur \notin rc[p].prepared /\ UNCHANGED jvars)
    BY <1>19, Zenon DEF ReconcileResubmit, StoreCall
  <2> QED BY <1>4, <1>11, <1>19, <2>1, <2>3, <2>4, Zenon
<1>20. ASSUME NEW p \in Procs, ReconcileStep(p), ReconcileRebroadcast(p) PROVE Goal
  <2>1. rc[p].pc = "reheads" /\ UNCHANGED <<jvars, look>>
    BY <1>20, Zenon DEF ReconcileRebroadcast
  <2>2. look[p] = NoLook /\ look' = [look EXCEPT ![p] = NoLook]
    BY <1>0, <1>3, <1>11, <2>1, Zenon
  <2>3. ASSUME NEW pc \in {"quarantine", "await"}, RGoto(p, pc) PROVE Goal
    BY <1>6, <1>11, <1>20, <2>1, <2>2, <2>3, NoLookFields, Zenon DEF CallGoesOn
  <2>4. EndReconcile(p) \/ RGoto(p, "quarantine") \/ RGoto(p, "await")
    BY <1>20, Zenon DEF ReconcileRebroadcast
  <2> QED BY <1>4, <1>11, <1>20, <2>1, <2>3, <2>4, Zenon
<1>21. ASSUME NEW p \in Procs, ReconcileStep(p), ReconcileQuarantine(p) PROVE Goal
  BY <1>4, <1>11, <1>21, Zenon DEF ReconcileQuarantine
<1>22. ASSUME NEW p \in Procs, ReconcileStep(p), ReconcileAbort(p), Forget(p) PROVE Goal
  BY <1>4, <1>22, Zenon DEF ReconcileAbort
<1>23. ASSUME NEW p \in Procs, ReconcileStep(p) PROVE Goal
  BY <1>9, <1>12, <1>13, <1>14, <1>15, <1>16, <1>17, <1>18, <1>19, <1>20, <1>21, <1>22, <1>23, Zenon
     DEF ReconcileStep, Verdicts
<1>24. ASSUME NEW p \in Procs, ProcessStep(p) PROVE Goal
  <2>1. Restart(p) => EndReconcile(p) /\ Forget(p)
    BY Zenon DEF Restart, Crash, EndReconcile
  <2>2. Restart(p) \/ UNCHANGED <<rc, look>>
    BY <1>24, Zenon DEF ProcessStep, AcquireLeadership, LoseSession, HeartbeatFails, Admit, Refresh, RefreshReadiness
  <2> QED BY <1>1, <1>4, <2>1, <2>2, Zenon
<1>25. ASSUME NEW x, HandlerStep(x) \/ WorkerStep(x) PROVE Goal
  BY <1>1, <1>25, HandlerFrame, WorkerFrame, Zenon
<1>26. CASE ChainMoves \/ UNCHANGED vars
  BY <1>1, <1>26, ChainFrame, Zenon
<1> QED BY <1>23, <1>24, <1>25, <1>26, Zenon DEF Next, ChainMoves

\* What a reconcile call knows of its rows stays true.
LEMMA ReconcileTasksStep ==
  ASSUME RowsInv, TasksInv, Stays, ReconcilesOK', \A p \in Procs : CallMoves(p)
  PROVE  ReconcileTasks'
<1>0. ReconcilesOK /\ ReconcileTasks
  BY Zenon DEF TasksInv
<1> SUFFICES ASSUME NEW p \in Procs
             PROVE  /\ \A h \in rc'[p].prepared \cup rc'[p].submitted : rows'[h].nonce # 0
                    /\ \A h \in rc'[p].submitted : Sent(h)'
                    /\ rc'[p].pc = "reheads" => Sent(rc[p].cur)'
  BY Zenon DEF ReconcileTasks
<1>1. /\ rc[p].prepared \subseteq Hashes /\ rc[p].submitted \subseteq Hashes
      /\ rc[p].pc \in RowPcs => rc[p].cur \in rc[p].prepared \cup rc[p].submitted
      /\ rc'[p].pc \in RowPcs => rc'[p].cur \in rc'[p].prepared \cup rc'[p].submitted
  BY <1>0, Zenon DEF ReconcilesOK, ReconcileCall
<1>2. ASSUME NEW h \in Hashes
      PROVE  /\ h \in rc[p].prepared \cup rc[p].submitted => rows'[h].nonce # 0
             /\ h \in rc[p].submitted => Sent(h)'
             /\ Sent(h) => Sent(h)'
  BY <1>0, <1>2, Zenon DEF ReconcileTasks, Stays
<1>3. CASE CallRests(p)
  <2>1. rc[p].pc = "reheads" => rc[p].cur \in Hashes /\ Sent(rc[p].cur)
    BY <1>0, <1>1, Zenon DEF ReconcileTasks, RowPcs
  <2>2. rc'[p].pc = "reheads" => rows'[rc'[p].cur].state \in {"submitted"} \cup Terminal
    BY <1>2, <1>3, <2>1, Zenon DEF CallRests, Sent
  <2> QED BY <1>1, <1>2, <1>3, <2>2, Zenon DEF CallRests, Sent
<1>4. CASE CallEnds(p)
  BY <1>4 DEF CallEnds, IdleRc
<1>5. CASE CallScans(p)
  BY <1>5, Zenon DEF CallScans, RowsIn, RowsInv, SchemaChecks, Sent, jvars
<1>6. CASE CallWalks(p)
  BY <1>1, <1>2, <1>6, Zenon DEF CallWalks
<1>7. CASE CallReads(p) \/ CallDecides(p)
  BY <1>1, <1>2, <1>7, Zenon DEF CallReads, CallDecides, SameRow
<1>8. CASE CallGoesOn(p)
  <2>1. SameRow(p)
    BY <1>8, Zenon DEF CallGoesOn
  <2>2. rc'[p].pc = "reheads" => rc[p].cur \in rc[p].prepared \cup rc[p].submitted /\ rc[p].cur \in Hashes
    BY <1>1, <2>1, Zenon DEF SameRow, RowPcs
  <2>3. ASSUME rc'[p].pc = "reheads" PROVE rows'[rc[p].cur].state \in {"submitted"} \cup Terminal
    <3>1. CASE MarkSubmitted(rc[p].cur)
      BY <2>2, <2>3, <3>1, SubmitsRow, Zenon
    <3>2. CASE rc[p].cur \notin rc[p].prepared
      BY <1>2, <2>2, <2>3, <3>2, Zenon DEF Sent
    <3> QED BY <1>8, <2>3, <3>1, <3>2, Zenon DEF CallGoesOn, Verdicts
  <2> QED BY <1>1, <1>2, <2>1, <2>3, Zenon DEF SameRow, Sent
<1> QED BY <1>3, <1>4, <1>5, <1>6, <1>7, <1>8, Zenon DEF CallMoves

LEMMA HandlersStep ==
  ASSUME HandlersOK, [Next]_vars
  PROVE  HandlersOK'
<1>1. ASSUME UNCHANGED handler PROVE HandlersOK'
  BY <1>1, Zenon DEF HandlersOK
<1>2. ASSUME NEW p \in Procs, ProcessStep(p) PROVE HandlersOK'
  <2>1. CASE Crash(p)
    BY <2>1, Zenon DEF Crash, HandlersOK, IdleHandler
  <2>2. ASSUME NEW x \in Handlers, NEW r \in Requests, Admit(x, p, r) PROVE HandlersOK'
    BY <2>2, Zenon DEF Admit, HandlersOK
  <2>3. Crash(p) \/ UNCHANGED handler \/ \E x \in Handlers, r \in Requests : Admit(x, p, r)
    BY <1>2, Zenon DEF ProcessStep, AcquireLeadership, LoseSession, HeartbeatFails, Refresh, RefreshReadiness, Restart
  <2> QED BY <1>1, <2>1, <2>2, <2>3, Zenon
<1>3. ASSUME NEW x \in Handlers, HandlerStep(x) PROVE HandlersOK'
  <2>1. CASE EndHandler(x)
    BY <2>1, Zenon DEF EndHandler, IdleHandler, HandlersOK
  <2>2. CASE handler[x].pc = "claim" /\ handler' = [handler EXCEPT ![x].pc = "resume"]
    BY <2>2, Zenon DEF HandlersOK
  <2> QED BY <1>3, <2>1, <2>2, Zenon DEF HandlerStep, Claim, Resume
<1>4. ASSUME NEW w \in Workers, WorkerStep(w) PROVE HandlersOK'
  BY <1>1, <1>4, WorkerFrame, Zenon
<1>5. ASSUME NEW p \in Procs, ReconcileStep(p) PROVE HandlersOK'
  BY <1>1, <1>5, ReconcileFrame, Zenon
<1>6. CASE ChainMoves \/ UNCHANGED vars
  BY <1>1, <1>6, ChainFrame, Zenon
<1> QED BY <1>2, <1>3, <1>4, <1>5, <1>6, Zenon DEF Next, ChainMoves

\* A restart may bring another configuration, and nothing else does.
LEMMA PoliciesStep ==
  ASSUME PoliciesOK, [Next]_vars
  PROVE  PoliciesOK' /\ (UNCHANGED policy \/ \E p \in Procs : Restart(p))
<1>1. ASSUME UNCHANGED policy PROVE PoliciesOK'
  BY <1>1, Zenon DEF PoliciesOK
<1>2. ASSUME NEW p \in Procs, Restart(p) PROVE PoliciesOK'
  BY <1>2, Zenon DEF Restart, PoliciesOK
<1>3. ASSUME NEW p \in Procs, ProcessStep(p) PROVE UNCHANGED policy \/ Restart(p)
  BY <1>3, Zenon DEF ProcessStep, Refresh, settings
<1>4. ASSUME NEW x, HandlerStep(x) \/ WorkerStep(x) \/ ReconcileStep(x) PROVE UNCHANGED policy
  BY <1>4, HandlerFrame, WorkerFrame, ReconcileFrame, Zenon DEF settings
<1>5. CASE ChainMoves \/ UNCHANGED vars
  BY <1>1, <1>5, ChainFrame, Zenon DEF settings
<1> QED BY <1>1, <1>2, <1>3, <1>4, <1>5, Zenon DEF Next, ChainMoves

-----------------------------------------------------------------------------
(* The chain.                                                              *)

LEMMA FaultsStep ==
  ASSUME faults \in 0..MaxFaults, [Next]_vars
  PROVE  faults' \in 0..MaxFaults /\ faults <= faults'
<1> DEFINE Counted == faults' = faults \/ (faults < MaxFaults /\ faults' = faults + 1)
<1>0. \A kind : Fault(kind) => Counted
  BY Zenon DEF Fault
<1>1. ASSUME NEW p \in Procs, ProcessStep(p) PROVE Counted
  <2>1. CASE \/ AcquireLeadership(p) \/ LoseSession(p) \/ HeartbeatFails(p)
             \/ \E x \in Handlers, r \in Requests : Admit(x, p, r)
    BY <1>0, <2>1, Zenon DEF AcquireLeadership, LoseSession, HeartbeatFails, Admit
  <2>2. CASE Refresh(p) \/ Restart(p)
    BY <1>0, <2>2, Zenon DEF Refresh, RefreshReadiness, Restart, Crash, NoFault
  <2> QED BY <1>1, <2>1, <2>2, Zenon DEF ProcessStep
<1>2. ASSUME NEW x \in Handlers, HandlerStep(x) PROVE Counted
  BY <1>0, <1>2, Zenon DEF HandlerStep, Claim, Resume, SpawnOrStrand, NoFault
<1>3. ASSUME NEW w \in Workers, WorkerStep(w) PROVE Counted
  BY <1>0, <1>3, Zenon DEF WorkerStep, WorkerLock, WorkerVerify, WorkerRetry, WorkerTerminalize, WorkerSign,
       WorkerPrepare, WorkerStore, WorkerQuarantine, WorkerSubmit, WorkerSend, WorkerAwait,
       Terminalize, StoreCall, SignerHeadFails, NoFault
<1>4. ASSUME NEW p \in Procs, ReconcileStep(p) PROVE Counted
  <2>1. CASE \/ ReconcileBegin(p) \/ ReconcileScan(p) \/ ReconcileRelease(p) \/ ReconcileNext(p)
             \/ ReconcileRemaining(p) \/ ReconcileOpen(p) \/ ReconcileAbort(p)
    BY <1>0, <2>1, Zenon DEF ReconcileBegin, ReconcileScan, ReconcileRelease, ReconcileNext, ReconcileRemaining,
         ReconcileOpen, ReconcileAbort, StoreCall, NoFault
  <2>2. CASE ReconcileRaise(p) \/ ReconcileRead(p) \/ ReconcileHead(p) \/ ReconcileVerdict(p) \/ ReconcilePending(p)
    BY <1>0, <2>2, Zenon DEF ReconcileRaise, ReconcileRead, ReconcileHead, ReconcileVerdict, ReconcilePending,
         StoreCall, NoFault
  <2>3. CASE \/ ReconcileOverrun(p) \/ ReconcileResubmit(p) \/ ReconcileRebroadcast(p) \/ ReconcileQuarantine(p)
             \/ \E response \in {"success", "transaction_failed"} : ReconcileBook(p, response)
    BY <1>0, <2>3, Zenon DEF ReconcileOverrun, ReconcileResubmit, ReconcileRebroadcast, ReconcileQuarantine,
         ReconcileBook, SignerHeadFails, StoreCall, NoFault
  <2> QED BY <1>4, <2>1, <2>2, <2>3, Zenon DEF ReconcileStep
<1>5. CASE ChainStep \/ UNCHANGED vars
  <2>1. Counted
    BY <1>5, Zenon DEF ChainStep, Mine, MineEmpty, Deliver, vars, evars
  <2> QED BY <2>1, EngineAssumption
<1>6. CASE MineForeign \/ (\E depth \in 1..MaxReorg : Reorg(depth)) \/ \E t \in net \cup pool : Lose(t)
  <2>1. Counted
    BY <1>0, <1>6, Zenon DEF MineForeign, Reorg, Lose
  <2> QED BY <2>1, EngineAssumption
<1>7. ASSUME NEW e \in Endpoints, Sync(e) PROVE Counted
  BY <1>7, Zenon DEF Sync, evars
<1>8. Counted => faults' \in 0..MaxFaults /\ faults <= faults'
  BY EngineAssumption
<1> QED BY <1>1, <1>2, <1>3, <1>4, <1>5, <1>6, <1>7, <1>8, Zenon DEF Next

\* What a step may put on the wire is a submission that its row holds.
LEMMA NetStep ==
  ASSUME RowsInv, TasksInv, ChainOK, [Next]_vars
  PROVE  /\ net' \subseteq Tx
         /\ \A t \in net' : t \in net \/ Journaled(t)
<1> DEFINE Goal == net' \subseteq Tx /\ \A t \in net' : t \in net \/ Journaled(t)
<1>0. net \subseteq Tx /\ \A n \in Nonces : n \in Nat /\ n # 0
  BY ConstantsAssumption, Zenon DEF ChainOK
<1>1. ASSUME net' \subseteq net PROVE Goal
  BY <1>0, <1>1, Zenon
<1>2. ASSUME NEW h \in Hashes, NEW n, Sent(h), rows[h].nonce = n, n \in Nonces, Send([hash |-> h, nonce |-> n])
      PROVE  Goal
  <2> DEFINE t == [hash |-> h, nonce |-> n]
  <2>1. t \in Tx /\ t.hash = h /\ t.nonce = n
    BY <1>0, <1>2, Zenon DEF Tx
  <2>2. net' = net \cup {t}
    BY <1>2, Zenon DEF Send
  <2> HIDE DEF t
  <2>3. Journaled(t)
    BY <1>0, <1>2, <2>1, Zenon DEF Journaled
  <2> QED BY <1>0, <2>1, <2>2, <2>3, Zenon
<1>3. ASSUME NEW w \in Workers, WorkerStep(w) PROVE Goal
  <2>1. CASE WorkerSend(w)
    <3>1. At(w, "recheck")
      BY <2>1, Zenon DEF WorkerSend
    <3>2. /\ worker[w].hash \in Hashes /\ Sent(worker[w].hash) /\ worker[w].nonce \in Nonces
          /\ rows[worker[w].hash].nonce = worker[w].nonce
      BY <3>1, Zenon DEF At, TasksInv, WorkersOK, WorkerTasks
    <3>3. UNCHANGED net \/ Send([hash |-> worker[w].hash, nonce |-> worker[w].nonce])
      BY <2>1, Zenon DEF WorkerSend
    <3> QED BY <1>1, <1>2, <3>2, <3>3, Zenon
  <2> QED BY <1>1, <1>3, <2>1, WorkerFrame, Zenon
<1>4. ASSUME NEW p \in Procs, ReconcileStep(p) PROVE Goal
  <2>1. CASE ReconcileRebroadcast(p)
    <3>1. rc[p].pc = "reheads"
      BY <2>1, Zenon DEF ReconcileRebroadcast
    <3>2. rc[p].cur \in Hashes /\ Sent(rc[p].cur) /\ rows[rc[p].cur].nonce # 0
      BY <3>1, Zenon DEF TasksInv, ReconcilesOK, ReconcileCall, ReconcileTasks, RowPcs
    <3>3. rows[rc[p].cur].nonce \in Nonces
      BY <3>2, Zenon DEF RowsInv, JournalTypeOK, Row
    <3>4. UNCHANGED net \/ Send(Submission(rc[p].cur))
      BY <2>1, Zenon DEF ReconcileRebroadcast
    <3> QED BY <1>1, <1>2, <3>2, <3>3, <3>4, Zenon DEF Submission
  <2> QED BY <1>1, <1>4, <2>1, ReconcileFrame, Zenon
<1>5. ASSUME NEW x, HandlerStep(x) \/ ProcessStep(x) PROVE Goal
  BY <1>1, <1>5, HandlerFrame, ProcessFrame, Zenon DEF chain
<1>6. CASE ChainMoves \/ UNCHANGED vars
  <2>1. net' \subseteq net
    BY <1>6, Zenon DEF ChainMoves, ChainStep, Mine, MineEmpty, Deliver, MineForeign, Reorg, Lose, Sync, vars, chain
  <2> QED BY <1>1, <2>1, Zenon
<1> QED BY <1>3, <1>4, <1>5, <1>6, Zenon DEF Next, ChainMoves

\* Steps other than the chain's touch at most the wire.
LEMMA TasksKeepChain ==
  ASSUME [Next]_vars, ~ChainMoves
  PROVE  UNCHANGED <<pool, mined, tip, fork, ep>>
<1>1. ASSUME NEW x, HandlerStep(x) \/ ProcessStep(x) PROVE UNCHANGED <<pool, mined, tip, fork, ep>>
  BY <1>1, HandlerFrame, ProcessFrame, Zenon DEF chain
<1>2. ASSUME NEW x, WorkerStep(x) \/ ReconcileStep(x) PROVE UNCHANGED <<pool, mined, tip, fork, ep>>
  BY <1>2, WorkerFrame, ReconcileFrame, Zenon
<1>3. CASE UNCHANGED vars
  BY <1>3, Zenon DEF vars, chain
<1> QED BY <1>1, <1>2, <1>3, Zenon DEF Next, ChainMoves

-----------------------------------------------------------------------------
(* Reconciliation and its verdicts.                                        *)

LEMMA ChainNats ==
  ASSUME ChainInv
  PROVE  /\ tip \in Nat /\ MaxReorg \in Nat
         /\ \A m \in mined : m.number \in Nat /\ m.number <= tip
         /\ \A e \in Endpoints : ep[e].height \in Nat /\ ep[e].height <= tip
  BY EvmAssumption, Zenon DEF ChainInv, ChainOK, MinedTxs

\* Both endpoints show the same mined transaction, so the primary shows it.
LEMMA ReceiptIsMined ==
  ASSUME NEW t, Receipts(t).kind = "mined"
  PROVE  \E m \in mined : On(m, ep["primary"]) /\ m.tx = t /\ Receipts(t).facts = Facts(m)
<1> DEFINE found == {m \in ChainAt(ep["primary"]) : m.tx = t}
           receipt == ReceiptAt("primary", t)
<1>1. UnknownReceipt.kind = "unknown" /\ PendingReceipt.kind = "pending" /\ RpcError.kind = "error"
  BY Zenon DEF UnknownReceipt, PendingReceipt, RpcError
<1>2. \A a, b : MergeReceipts(a, b).kind = "mined" => MergeReceipts(a, b) = a /\ a.kind = "mined"
  BY <1>1, Zenon DEF MergeReceipts, IsError
<1>3. Receipts(t) = receipt /\ receipt.kind = "mined"
  BY <1>2, Zenon DEF Receipts
<1>4. found # {} /\ receipt = MinedReceipt(Facts(CHOOSE m \in found : TRUE))
  BY <1>1, <1>3, Zenon DEF ReceiptAt
<1>5. PICK m \in found : receipt = MinedReceipt(Facts(m))
  BY <1>4, Zenon
<1>6. receipt.facts = Facts(m)
  BY <1>5 DEF MinedReceipt
<1> QED BY <1>3, <1>5, <1>6, Zenon DEF ChainAt

\* The receipt read last is on the primary's chain now, and that chain was
\* already deep enough above it when the head was read.
LEMMA DecidesBuried ==
  ASSUME ChainInv, ReadsOK, NEW p \in Procs, CallDecides(p)
  PROVE  /\ look'[p].confirmations \in Nat /\ look'[p].confirmations >= look[p].required
         /\ rc'[p].pc \in Verdicts
         /\ Buried(rc[p].cur, rc'[p].pc = "success", look'[p].confirmations)
<1> DEFINE t == Submission(rc[p].cur)
           again == Receipts(t)
<1>1. /\ rc[p].pc = "status" /\ look[p].step = "again" /\ again.kind = "mined"
      /\ ~(look[p].head < again.facts.number)
      /\ look[p].head - again.facts.number + 1 >= look[p].required
      /\ look'[p].confirmations = look[p].head - again.facts.number + 1
      /\ rc'[p].pc = IF again.facts.ok THEN "success" ELSE "transaction_failed"
  BY Zenon DEF CallDecides
<1>2. PICK m \in mined : On(m, ep["primary"]) /\ m.tx = t /\ again.facts = Facts(m)
  BY <1>1, ReceiptIsMined, Zenon
<1> HIDE DEF again, t
<1>3. again.facts.number = m.number /\ again.facts.ok = m.ok
  BY <1>2 DEF Facts
<1>4. /\ look[p].head \in Nat /\ look[p].head <= ep["primary"].height
      /\ look[p].required \in Nat /\ look[p].required > MaxReorg
  BY <1>1, Zenon DEF ReadsOK, Endpoints
<1>5. tip \in Nat /\ MaxReorg \in Nat /\ m.number \in Nat /\ ep["primary"].height \in Nat /\ ep["primary"].height <= tip
  BY ChainNats, Zenon DEF Endpoints
<1>6. ~(look[p].head < m.number) /\ look[p].head - m.number + 1 >= look[p].required
      /\ look'[p].confirmations = look[p].head - m.number + 1
  BY <1>1, <1>3, Zenon
<1>7. ep["primary"].height >= m.number + MaxReorg
  BY <1>4, <1>5, <1>6
<1>8. m.until = Never
  BY <1>2, <1>7, Zenon DEF ChainInv, DeepIsKept, Endpoints
<1>9. look'[p].confirmations \in Nat /\ tip - m.number >= MaxReorg /\ tip - m.number + 1 >= look'[p].confirmations
  BY <1>4, <1>5, <1>6
<1>10. rc'[p].pc \in Verdicts /\ (rc'[p].pc = "success") = m.ok
  <2>1. m.ok \in BOOLEAN
    BY Zenon DEF ChainInv, ChainOK, MinedTxs
  <2> QED BY <1>1, <1>3, <2>1, Zenon DEF Verdicts
<1> QED BY <1>2, <1>6, <1>8, <1>9, <1>10, Zenon DEF Buried, t

\* A verdict's burial, read off the task that holds it.
LEMMA TaskIsBuried ==
  ASSUME NEW p \in Procs, NEW h \in Hashes, NEW ok, NEW confirmations, Buried(h, ok, confirmations)',
         rc'[p].cur = h, ok = (rc'[p].pc = "success"), look'[p].confirmations = confirmations
  PROVE  Buried(rc[p].cur, rc[p].pc = "success", look[p].confirmations)'
  BY Zenon DEF Buried, Submission

LEMMA ResponseStep ==
  ASSUME RowsInv, TasksInv, PoliciesOK, [Next]_vars, NEW h \in Hashes
  PROVE  rows'[h].response = rows[h].response \/ WorkerFails(h) \/ ReconcileBooks(h)
<1>1. CASE rows'[h] = rows[h] \/ RowReleased(h) \/ RowGoesOn(h)
  BY <1>1, Zenon DEF RowReleased, RowGoesOn
<1>2. CASE RowAdmitted(h)
  BY <1>2, Zenon DEF RowAdmitted, RowsInv, SchemaChecks, Terminal
<1>3. ASSUME NEW w \in Workers, WorkerPrepares(w, h) PROVE rows'[h].response = rows[h].response
  BY <1>3, PreparesRow, Zenon DEF WorkerPrepares
<1> QED BY <1>1, <1>2, <1>3, RowsMove, Zenon DEF RowMoves

-----------------------------------------------------------------------------
(* How the gates move.                                                     *)

LEMMA FailClosedStep ==
  ASSUME GatesOK, NEW q \in Procs, FailClosed(q)
  PROVE  /\ GatesOK' /\ ~gate'[q].reconciliation
         /\ \A p \in Procs : gate'[p].reconciliation => gate[p].reconciliation
  BY Zenon DEF FailClosed, GatesOK, Gates

LEMMA SetGatesStep ==
  ASSUME GatesOK, NEW q \in Procs, NEW ready \in BOOLEAN, NEW closes \in BOOLEAN, SetGates(q, ready, closes)
  PROVE  /\ GatesOK' /\ (closes => ~gate'[q].reconciliation)
         /\ \A p \in Procs : gate'[p].reconciliation => gate[p].reconciliation
<1>1. GatesOK'
  BY ZenonT(30) DEF SetGates, GatesOK, Gates
<1>2. gate' = [gate EXCEPT ![q] = gate'[q]] /\ gate'[q].reconciliation = (gate[q].reconciliation /\ ~closes)
  BY ZenonT(30) DEF SetGates, GatesOK, Gates
<1> QED BY <1>1, <1>2, Zenon DEF GatesOK

LEMMA SignerHeadStep ==
  ASSUME GatesOK, NEW q \in Procs, NEW closes \in BOOLEAN, SignerHeadFails(q, closes)
  PROVE  /\ GatesOK' /\ (closes => ~gate'[q].reconciliation)
         /\ \A p \in Procs : gate'[p].reconciliation => gate[p].reconciliation
<1>1. gate[q].relayer \in BOOLEAN
  BY Zenon DEF GatesOK, Gates
<1>2. \E ready \in BOOLEAN : SetGates(q, ready, closes)
  BY <1>1, Zenon DEF SignerHeadFails
<1> QED BY <1>2, SetGatesStep, Zenon

LEMMA WorkerGate ==
  ASSUME WorkersOK, GatesOK, NEW w \in Workers, WorkerStep(w)
  PROVE  /\ ~At(w, "idle")
         /\ GatesOK' /\ \A p \in Procs : gate'[p].reconciliation => gate[p].reconciliation
         /\ \A v \in Workers : v # w => worker'[v] = worker[v]
         /\ worker[w].pc \in Late \cup {"prepare"} =>
              \/ worker'[w].pc \in Late /\ worker'[w].hash = worker[w].hash
              \/ worker'[w].pc = "idle" /\ ~gate'[worker[w].proc].reconciliation
<1> DEFINE StaysShut == GatesOK' /\ \A p \in Procs : gate'[p].reconciliation => gate[p].reconciliation
           Others == \A v \in Workers : v # w => worker'[v] = worker[v]
           Ends == worker'[w].pc = "idle" /\ ~gate'[worker[w].proc].reconciliation
           Goes == worker'[w].pc \in Late /\ worker'[w].hash = worker[w].hash
<1>1. ~At(w, "idle")
  BY Zenon DEF WorkerStep, WorkerLock, WorkerVerify, WorkerRetry, WorkerTerminalize, WorkerSign,
       WorkerPrepare, WorkerQuarantine, WorkerSubmit, WorkerSend, WorkerAwait, At
<1>2. worker[w].proc \in Procs
  BY <1>1, Zenon DEF WorkersOK
<1>3. UNCHANGED gate => StaysShut
  BY Zenon DEF GatesOK
<1>4. EndWorker(w) => Others /\ worker'[w].pc = "idle"
  BY EndWorkerType DEF IdleWorker
<1>5. ASSUME NEW pc \in WorkerPcs, Goto(w, pc) PROVE Others /\ worker'[w].pc = pc /\ worker'[w].hash = worker[w].hash
  BY <1>1, <1>5, GotoType, Zenon
<1>6. FailClosed(worker[w].proc) => StaysShut /\ ~gate'[worker[w].proc].reconciliation
  BY <1>2, FailClosedStep, Zenon
<1>a. Late \cup {"verify", "retry", "sign", "prepare", "protocol_failure"} \subseteq WorkerPcs
  BY Zenon DEF Late, WorkerPcs, Responses
<1>b. {"queued", "verify", "sign", "retry", "protocol_failure"} \cap (Late \cup {"prepare"}) = {}
  BY Zenon DEF Late
<1>c. {"submit", "recheck", "quarantine", "await"} \subseteq Late
  BY Zenon DEF Late
<1>7. CASE WorkerLock(w) \/ WorkerVerify(w)
  <2>1. worker[w].pc \in {"queued", "verify"} /\ UNCHANGED gate
    BY <1>7, Zenon DEF WorkerLock, WorkerVerify, At
  <2>2. \E pc \in WorkerPcs : Goto(w, pc)
    BY <1>7, <1>a, Zenon DEF WorkerLock, WorkerVerify
  <2> QED BY <1>1, <1>3, <1>5, <1>b, <2>1, <2>2, Zenon
<1>8. CASE WorkerRetry(w) \/ WorkerTerminalize(w, "protocol_failure")
  <2>1. worker[w].pc \in {"retry", "protocol_failure"} /\ EndWorker(w)
    BY <1>8, Zenon DEF WorkerRetry, WorkerTerminalize, At
  <2>2. UNCHANGED gate \/ FailClosed(worker[w].proc)
    BY <1>8, Zenon DEF WorkerRetry, WorkerTerminalize, Terminalize, StoreCall
  <2> QED BY <1>1, <1>3, <1>4, <1>6, <1>b, <2>1, <2>2, Zenon
<1>9. CASE WorkerSign(w)
  <2>1. worker[w].pc = "sign"
    BY <1>9, Zenon DEF WorkerSign, At
  <2>2. StaysShut
    BY <1>2, <1>9, SetGatesStep, SignerHeadStep, Zenon DEF WorkerSign
  <2>3. Others
    <3>1. CASE Goto(w, "retry")
      BY <1>5, <1>a, <3>1, Zenon
    <3>2. ASSUME NEW n, worker' = [worker EXCEPT ![w].pc = "prepare", ![w].nonce = n] PROVE Others
      BY <3>2, Zenon DEF WorkersOK
    <3> QED BY <1>9, <3>1, <3>2, Zenon DEF WorkerSign
  <2> QED BY <1>1, <1>b, <2>1, <2>2, <2>3, Zenon
<1>10. CASE WorkerPrepare(w) \/ WorkerSubmit(w)
  <2>1. \/ EndWorker(w) /\ FailClosed(worker[w].proc)
        \/ (Goto(w, "submit") \/ Goto(w, "recheck")) /\ UNCHANGED gate
    BY <1>10, Zenon DEF WorkerPrepare, WorkerSubmit, WorkerStore, StoreCall
  <2> QED BY <1>1, <1>3, <1>4, <1>5, <1>6, <1>a, <1>c, <2>1, Zenon
<1>11. CASE WorkerSend(w)
  <2>1. \/ EndWorker(w) /\ SetGates(worker[w].proc, TRUE, TRUE)
        \/ EndWorker(w) /\ SignerHeadFails(worker[w].proc, TRUE)
        \/ (Goto(w, "quarantine") \/ Goto(w, "await")) /\ SetGates(worker[w].proc, TRUE, FALSE)
    BY <1>11, Zenon DEF WorkerSend
  <2>2. CASE EndWorker(w) /\ SetGates(worker[w].proc, TRUE, TRUE)
    BY <1>1, <1>2, <1>4, <2>2, SetGatesStep, Zenon
  <2>3. CASE EndWorker(w) /\ SignerHeadFails(worker[w].proc, TRUE)
    BY <1>1, <1>2, <1>4, <2>3, SignerHeadStep, Zenon
  <2>4. CASE (Goto(w, "quarantine") \/ Goto(w, "await")) /\ SetGates(worker[w].proc, TRUE, FALSE)
    <3>1. StaysShut
      BY <1>2, <2>4, SetGatesStep, Zenon
    <3> QED BY <1>1, <1>5, <1>a, <1>c, <2>4, <3>1, Zenon
  <2> QED BY <2>1, <2>2, <2>3, <2>4, Zenon
<1>12. CASE WorkerQuarantine(w)
  <2>1. EndWorker(w) /\ SetGates(worker[w].proc, FALSE, TRUE)
    BY <1>12, Zenon DEF WorkerQuarantine
  <2> QED BY <1>1, <1>2, <1>4, <2>1, SetGatesStep, Zenon
<1>13. CASE WorkerAwait(w)
  <2>1. EndWorker(w) /\ FailClosed(worker[w].proc)
    BY <1>13, Zenon DEF WorkerAwait
  <2> QED BY <1>1, <1>4, <1>6, <2>1, Zenon
<1> QED BY <1>7, <1>8, <1>9, <1>10, <1>11, <1>12, <1>13, Zenon DEF WorkerStep

LEMMA VerdictGate ==
  ASSUME NEW p, ReconcileVerdict(p)
  PROVE  UNCHANGED gate \/ FailClosed(p)
<1> DEFINE again == IF look[p].first.kind = "mined" THEN Receipts(Submission(rc[p].cur)) ELSE look[p].first
           verdict == ClassifyReconciliation(look[p].first, look[p].tx, again, look[p].head, look[p].required)
<1>1. verdict.kind \in {"error", "pending", "unknown", "terminal"}
  BY Zenon DEF ClassifyReconciliation, ClassifyConfirmations, UnknownReceipt, PendingReceipt, RpcError
<1>2. CASE NoFault
  <2> HIDE DEF verdict, again
  <2> QED BY <1>1, Zenon DEF ReconcileVerdict, Ambiguous, verdict, again
<1>3. CASE Ambiguous(p)
  BY <1>3, Zenon DEF Ambiguous
<1> QED BY <1>2, <1>3, Zenon DEF ReconcileVerdict

LEMMA ReconcileGate ==
  ASSUME ReconcilesOK, GatesOK, NEW q \in Procs, ReconcileStep(q)
  PROVE  /\ GatesOK'
         /\ \A p \in Procs : gate'[p].reconciliation =>
              gate[p].reconciliation \/ (p = q /\ ReconcileOpen(q) /\ rc[q].empty)
<1> DEFINE StaysShut == GatesOK' /\ \A p \in Procs : gate'[p].reconciliation => gate[p].reconciliation
<1>1. UNCHANGED gate => StaysShut
  BY Zenon DEF GatesOK
<1>2. FailClosed(q) => StaysShut
  BY FailClosedStep, Zenon
<1>3. ASSUME NEW ready \in BOOLEAN, NEW closes \in BOOLEAN, SetGates(q, ready, closes) PROVE StaysShut
  BY <1>3, SetGatesStep, Zenon
<1>4. SignerHeadFails(q, FALSE) => StaysShut
  BY SignerHeadStep, Zenon
<1>5. CASE ReconcileOpen(q)
  <2>1. rc[q].empty \in BOOLEAN /\ gate' = [gate EXCEPT ![q].reconciliation = rc[q].empty]
    BY <1>5, Zenon DEF ReconcileOpen, ReconcilesOK, ReconcileCall
  <2>2. GatesOK'
    BY <2>1, Zenon DEF GatesOK, Gates
  <2>3. \A p \in Procs : gate'[p].reconciliation => gate[p].reconciliation \/ (p = q /\ rc[q].empty)
    BY <2>1, Zenon DEF GatesOK, Gates
  <2> QED BY <1>5, <2>2, <2>3, Zenon
<1>6. CASE ReconcileBegin(q) \/ ReconcileScan(q) \/ ReconcileNext(q) \/ ReconcileRemaining(q) \/ ReconcileAbort(q)
           \/ ReconcilePending(q) \/ ReconcileResubmit(q) \/ \E response \in Verdicts : ReconcileBook(q, response)
  <2>1. UNCHANGED gate
    BY <1>6, Zenon DEF ReconcileBegin, ReconcileScan, ReconcileNext, ReconcileRemaining, ReconcileAbort,
         ReconcilePending, ReconcileResubmit, ReconcileBook
  <2> QED BY <1>1, <2>1, Zenon
<1>7. CASE ReconcileRelease(q)
  BY <1>1, <1>2, <1>7, Zenon DEF ReconcileRelease, StoreCall
<1>8. CASE ReconcileRaise(q)
  BY <1>1, <1>3, <1>8, Zenon DEF ReconcileRaise, StoreCall
<1>9. CASE ReconcileRead(q) \/ ReconcileHead(q)
  BY <1>1, <1>2, <1>9, Zenon DEF ReconcileRead, ReconcileHead, Ambiguous
<1>10. CASE ReconcileVerdict(q)
  <2>1. UNCHANGED gate \/ FailClosed(q)
    BY <1>10, VerdictGate, Zenon
  <2> QED BY <1>1, <1>2, <2>1, Zenon
<1>11. CASE ReconcileOverrun(q) \/ ReconcileQuarantine(q)
  BY <1>1, <1>3, <1>11, Zenon DEF ReconcileOverrun, ReconcileQuarantine, StoreCall
<1>12. CASE ReconcileRebroadcast(q)
  BY <1>3, <1>4, <1>12, Zenon DEF ReconcileRebroadcast
<1> QED BY <1>5, <1>6, <1>7, <1>8, <1>9, <1>10, <1>11, <1>12, Zenon DEF ReconcileStep, Verdicts

LEMMA ProcessGate ==
  ASSUME GatesOK, NEW q \in Procs, ProcessStep(q)
  PROVE  /\ GatesOK' /\ \A p \in Procs : gate'[p].reconciliation => gate[p].reconciliation
         /\ UNCHANGED <<worker, rc>> \/ (Crash(q) /\ ~gate'[q].reconciliation)
<1> DEFINE StaysShut == GatesOK' /\ \A p \in Procs : gate'[p].reconciliation => gate[p].reconciliation
<1>1. CASE AcquireLeadership(q)
  <2>1. StaysShut
    BY <1>1, Zenon DEF AcquireLeadership, GatesOK, Gates
  <2> QED BY <1>1, <2>1, Zenon DEF AcquireLeadership
<1>2. CASE HeartbeatFails(q)
  <2>1. StaysShut
    BY <1>2, ZenonT(30) DEF HeartbeatFails, GatesOK, Gates
  <2> QED BY <1>2, <2>1, Zenon DEF HeartbeatFails
<1>3. CASE LoseSession(q) \/ \E x \in Handlers, r \in Requests : Admit(x, q, r)
  BY <1>3, Zenon DEF LoseSession, Admit, GatesOK
<1>4. CASE Refresh(q)
  <2>1. ASSUME NEW rpc \in BOOLEAN, NEW ready \in BOOLEAN,
               gate' = [gate EXCEPT ![q].rpc = rpc, ![q].relayer = ready]
        PROVE  StaysShut
    BY <2>1, Zenon DEF GatesOK, Gates
  <2>2. \E rpc \in BOOLEAN, ready \in BOOLEAN : gate' = [gate EXCEPT ![q].rpc = rpc, ![q].relayer = ready]
    <3>1. \A signerReady \in BOOLEAN : (signerReady /\ relayer = "active") \in BOOLEAN
      BY Zenon
    <3> QED BY <1>4, <3>1, Zenon DEF Refresh, RefreshReadiness
  <2>3. UNCHANGED <<worker, rc>>
    BY <1>4, Zenon DEF Refresh, RefreshReadiness
  <2> QED BY <2>1, <2>2, <2>3, Zenon
<1>5. CASE Restart(q)
  <2>1. Crash(q) /\ gate' = [gate EXCEPT ![q] = ClosedGate]
    BY <1>5, Zenon DEF Restart, Crash
  <2>2. ClosedGate \in Gates /\ ~ClosedGate.reconciliation
    BY Zenon DEF ClosedGate, Gates
  <2>3. StaysShut /\ ~gate'[q].reconciliation
    BY <2>1, <2>2, Zenon DEF GatesOK
  <2> QED BY <2>1, <2>3, Zenon
<1> QED BY <1>1, <1>2, <1>3, <1>4, <1>5, Zenon DEF ProcessStep

\* The gates after any step; only ReconcileOpen opens one, when it found nothing.
LEMMA GatesStep ==
  ASSUME WorkersOK, ReconcilesOK, GatesOK, [Next]_vars
  PROVE  /\ GatesOK'
         /\ \A p \in Procs : gate'[p].reconciliation =>
              gate[p].reconciliation \/ (ReconcileOpen(p) /\ rc[p].empty)
<1>1. CASE ChainMoves \/ UNCHANGED vars
  BY <1>1, ChainFrame, Zenon DEF GatesOK
<1>2. ASSUME NEW x \in Handlers, HandlerStep(x) PROVE UNCHANGED gate
  BY <1>2, HandlerFrame, Zenon
<1>3. (\E x \in Handlers : HandlerStep(x)) => GatesOK' /\ gate' = gate
  BY <1>2, Zenon DEF GatesOK
<1> QED BY <1>1, <1>3, WorkerGate, ReconcileGate, ProcessGate, Zenon DEF Next, ChainMoves

-----------------------------------------------------------------------------
(* The mutex.                                                              *)

\* A reconcile call takes the mutex in ReconcileScan.
LEMMA ReconcilingStep ==
  ASSUME NEW p \in Procs, CallMoves(p), Reconciling(p)'
  PROVE  Reconciling(p) \/ (ReconcileStep(p) /\ LockFree(p))
<1>1. CASE CallRests(p) \/ CallEnds(p)
  BY <1>1 DEF CallRests, CallEnds, Reconciling, IdleRc
<1>2. CASE ReconcileStep(p) /\ CallScans(p)
  BY <1>2, Zenon DEF CallScans
<1>3. CASE CallWalks(p)
  BY <1>3, Zenon DEF CallWalks, Reconciling
<1>4. CASE CallReads(p) \/ CallDecides(p) \/ CallGoesOn(p)
  <2>1. rc[p].pc \in {"status", "resubmit", "reheads"} \cup Verdicts
    BY <1>4, Zenon DEF CallReads, CallDecides, CallGoesOn
  <2> QED BY <2>1, Zenon DEF Reconciling, Verdicts
<1> QED BY <1>1, <1>2, <1>3, <1>4, Zenon DEF CallMoves

\* A worker takes it in WorkerLock.
LEMMA HoldingStep ==
  ASSUME NEW w \in Workers, WorkerMoves(w), Holds(w)'
  PROVE  \/ Holds(w)
         \/ WorkerStep(w) /\ ~At(w, "idle") /\ LockFree(worker[w].proc)
<1>1. CASE worker'[w] = worker[w] \/ worker'[w] = IdleWorker \/ worker'[w].pc = "queued"
  BY <1>1 DEF Holds, IdleWorker
<1>2. CASE WorkerStep(w) /\ ~At(w, "idle") /\ WorkerGoes(w)
  BY <1>2, Zenon DEF WorkerGoes, At, Holds
<1> QED BY <1>1, <1>2, Zenon DEF WorkerMoves

\* With one process a free mutex means that no task is past its lock.
LEMMA NobodyHolds ==
  ASSUME OneProcess, WorkersOK, NEW p \in Procs, LockFree(p)
  PROVE  /\ \A v \in Workers : ~Holds(v)
         /\ \A q \in Procs : ~Reconciling(q)
<1>1. ASSUME NEW v \in Workers, Holds(v) PROVE worker[v].proc = p
  BY <1>1, Zenon DEF WorkersOK, At, Holds, OneProcess
<1> QED BY <1>1, Zenon DEF LockFree, OneProcess

LEMMA MutexStep ==
  ASSUME OneProcess, RowsInv, TasksInv, GatesOK, LookInv, Mutex, [Next]_vars
  PROVE  Mutex'
<1>0. WorkersOK /\ \A w \in Workers : WorkerMoves(w)
  BY WorkersStep, Zenon DEF TasksInv
<1>1. \A p \in Procs : CallMoves(p)
  BY CallsStep, Zenon
<1>2. ASSUME NEW w \in Workers, WorkerStep(w) PROVE Mutex'
  <2>1. UNCHANGED rc /\ \A v \in Workers : v # w => worker'[v] = worker[v]
    BY <1>0, <1>2, WorkerFrame, WorkerGate, Zenon
  <2>2. \A v \in Workers : v # w => (Holds(v)' <=> Holds(v))
    BY <2>1, Zenon DEF Holds
  <2>3. \A p \in Procs : Reconciling(p)' <=> Reconciling(p)
    BY <2>1, Zenon DEF Reconciling
  <2>4. ASSUME Holds(w)', ~Holds(w) PROVE (\A v \in Workers : ~Holds(v)) /\ \A q \in Procs : ~Reconciling(q)
    <3>1. ~At(w, "idle") /\ LockFree(worker[w].proc)
      BY <1>0, <2>4, HoldingStep, Zenon
    <3>2. worker[w].proc \in Procs
      BY <1>0, <3>1, Zenon DEF WorkersOK
    <3> QED BY <1>0, <3>1, <3>2, NobodyHolds, Zenon
  <2> QED BY <2>2, <2>3, <2>4, Zenon DEF Mutex
<1>3. ASSUME NEW p \in Procs, ReconcileStep(p) PROVE Mutex'
  <2>1. \A v \in Workers : Holds(v)' <=> Holds(v)
    BY <1>3, ReconcileFrame, Zenon DEF Holds
  <2>2. ASSUME NEW q \in Procs, Reconciling(q)', ~Reconciling(q) PROVE \A v \in Workers : ~Holds(v)
    BY <1>0, <1>1, <2>2, ReconcilingStep, NobodyHolds, Zenon
  <2> QED BY <2>1, <2>2, Zenon DEF Mutex
<1>4. CASE ~(\E w \in Workers : WorkerStep(w)) /\ ~(\E p \in Procs : ReconcileStep(p))
  <2>1. \A w \in Workers : Holds(w)' => Holds(w)
    BY <1>0, <1>4, HoldingStep, Zenon
  <2>2. \A p \in Procs : Reconciling(p)' => Reconciling(p)
    BY <1>1, <1>4, ReconcilingStep, Zenon
  <2> QED BY <2>1, <2>2, Zenon DEF Mutex
<1> QED BY <1>2, <1>3, <1>4, Zenon

-----------------------------------------------------------------------------
(* The gate.                                                               *)

\* The state of a row becomes unresolved in WorkerPrepare.
LEMMA UnresolvedStep ==
  ASSUME RowsInv, TasksInv, PoliciesOK, [Next]_vars, NEW h \in Hashes, rows'[h].state \in Unresolved
  PROVE  rows[h].state \in Unresolved \/ \E w \in Workers : WorkerPrepares(w, h)
<1>1. ~RowAdmitted(h) /\ ~RowReleased(h)
  BY Zenon DEF RowAdmitted, RowReleased, Unresolved
<1>2. ASSUME NEW response, NEW fee, NEW confirmations, MarkTerminal(h, response, fee, confirmations)
      PROVE  FALSE
  <2>1. rows'[h].state = TerminalState(response)
    BY <1>2, FinishesRow, Zenon
  <2> QED BY <2>1, Zenon DEF TerminalState, Unresolved
<1>3. ~WorkerFails(h) /\ ~ReconcileBooks(h)
  BY <1>2, Zenon DEF WorkerFails, ReconcileBooks
<1>4. rows'[h] = rows[h] \/ RowMoves(h)
  BY RowsMove, Zenon
<1> QED BY <1>1, <1>3, <1>4, Zenon DEF RowMoves, RowGoesOn

\* Nobody but the worker itself moves a worker that holds the mutex, while the
\* gate stays open.
LEMMA HolderMoves ==
  ASSUME OneProcess, TasksInv, GatesOK, [Next]_vars, NEW w \in Workers, Holds(w),
         gate'[worker[w].proc].reconciliation
  PROVE  worker'[w] = worker[w] \/ WorkerStep(w)
<1>0. WorkersOK /\ ~At(w, "idle") /\ worker[w].proc \in Procs
  BY Zenon DEF TasksInv, WorkersOK, Holds, At
<1>1. CASE ChainMoves \/ UNCHANGED vars
  BY <1>1, ChainFrame, Zenon
<1>2. ASSUME NEW p \in Procs, ProcessStep(p) PROVE UNCHANGED worker
  <2>1. CASE UNCHANGED <<worker, rc>>
    BY <2>1, Zenon
  <2>2. CASE ~gate'[p].reconciliation
    BY <1>0, <2>2, Zenon DEF OneProcess
  <2> QED BY <1>2, <2>1, <2>2, ProcessGate, Zenon
<1>3. ASSUME NEW p \in Procs, ReconcileStep(p) PROVE UNCHANGED worker
  BY <1>3, ReconcileFrame, Zenon
<1>4. ASSUME NEW x \in Handlers, HandlerStep(x) PROVE worker'[w] = worker[w]
  <2>1. UNCHANGED worker \/ \E v \in Workers : \E t : At(v, "idle") /\ worker' = [worker EXCEPT ![v] = t]
    BY <1>4, Zenon DEF HandlerStep, Claim, Resume, SpawnOrStrand, Spawn
  <2> QED BY <1>0, <2>1, Zenon DEF WorkersOK, At
<1>5. ASSUME NEW v \in Workers, WorkerStep(v) PROVE worker'[w] = worker[w] \/ WorkerStep(w)
  <2>1. w # v => worker'[w] = worker[w]
    BY <1>0, <1>5, WorkerGate, Zenon
  <2> QED BY <1>5, <2>1, Zenon
<1> QED BY <1>1, <1>2, <1>3, <1>4, <1>5, Zenon DEF Next, ChainMoves

LEMMA GateHeldStep ==
  ASSUME OneProcess, RowsInv, TasksInv, PoliciesOK, GatesOK, LookInv, GateInv, [Next]_vars
  PROVE  GateHeld'
<1>0. WorkersOK /\ ReconcilesOK /\ Mutex /\ GateHeld /\ OpenMeansResolved
  BY Zenon DEF TasksInv, GateInv
<1> SUFFICES ASSUME NEW p \in Procs, gate'[p].reconciliation
             PROVE  /\ rc'[p].pc = "idle"
                    /\ \A h \in Hashes : rows'[h].state \in Unresolved =>
                         \E w \in Workers : worker'[w].hash = h /\ worker'[w].pc \in Late
  BY Zenon DEF GateHeld, Late
<1>1. CASE ReconcileOpen(p) /\ rc[p].empty
  <2>1. rc[p].pc = "open" /\ UNCHANGED jvars /\ rc'[p] = IdleRc
    BY <1>0, <1>1, Zenon DEF ReconcileOpen, EndReconcile, ReconcilesOK
  <2>2. rows' = rows /\ rc'[p].pc = "idle"
    BY <2>1 DEF jvars, IdleRc
  <2> QED BY <1>0, <1>1, <2>1, <2>2, Zenon DEF OpenMeansResolved
<1>2. CASE gate[p].reconciliation
  <2>1. rc[p].pc = "idle" /\ CallMoves(p)
    BY <1>0, <1>2, CallsStep, Zenon DEF GateHeld
  <2>2. rc'[p].pc = "idle"
    <3>1. CASE CallRests(p) \/ CallEnds(p)
      BY <2>1, <3>1 DEF CallRests, CallEnds, IdleRc
    <3>2. ~CallScans(p) /\ ~CallWalks(p) /\ ~CallReads(p) /\ ~CallDecides(p) /\ ~CallGoesOn(p)
      BY <1>2, <2>1, Zenon DEF CallScans, CallWalks, CallReads, CallDecides, CallGoesOn, Reconciling, Verdicts
    <3> QED BY <2>1, <3>1, <3>2, Zenon DEF CallMoves
  <2>3. ASSUME NEW w \in Workers, worker[w].pc \in Late \cup {"prepare"}, WorkerStep(w)
        PROVE  worker'[w].hash = worker[w].hash /\ worker'[w].pc \in Late
    <3>1. worker[w].proc = p
      BY <1>0, <2>3, WorkerGate, Zenon DEF WorkersOK, OneProcess
    <3> QED BY <1>0, <2>3, <3>1, WorkerGate, Zenon
  <2>4. ASSUME NEW h \in Hashes, rows'[h].state \in Unresolved
        PROVE  \E w \in Workers : worker'[w].hash = h /\ worker'[w].pc \in Late
    <3>1. CASE rows[h].state \in Unresolved
      <4>1. PICK w \in Workers : worker[w].hash = h /\ worker[w].pc \in Late
        BY <1>0, <1>2, <3>1, Zenon DEF GateHeld, Late
      <4>2. Holds(w) /\ worker[w].proc = p
        BY <1>0, <4>1, Zenon DEF Holds, Late, WorkersOK, At, OneProcess
      <4>3. worker'[w] = worker[w] \/ WorkerStep(w)
        BY <4>2, HolderMoves, Zenon
      <4> QED BY <2>3, <4>1, <4>3, Zenon
    <3>2. ASSUME NEW w \in Workers, WorkerPrepares(w, h) PROVE worker'[w].hash = h /\ worker'[w].pc \in Late
      <4>1. WorkerStep(w) /\ worker[w].pc = "prepare" /\ worker[w].hash = h
        BY <3>2, Zenon DEF WorkerPrepares, At
      <4> QED BY <2>3, <4>1, Zenon
    <3> QED BY <2>4, <3>1, <3>2, UnresolvedStep, Zenon
  <2> QED BY <2>2, <2>4, Zenon
<1>3. gate[p].reconciliation \/ (ReconcileOpen(p) /\ rc[p].empty)
  BY <1>0, GatesStep, Zenon
<1> QED BY <1>1, <1>2, <1>3, Zenon

LEMMA OpenMeansResolvedStep ==
  ASSUME RowsInv, TasksInv, PoliciesOK, LookInv, GateInv, [Next]_vars
  PROVE  OpenMeansResolved'
<1> SUFFICES ASSUME NEW p \in Procs, NEW h \in Hashes, rc'[p].pc = "open", rc'[p].empty
             PROVE  rows'[h].state \notin Unresolved
  BY Zenon DEF OpenMeansResolved
<1>0. CallMoves(p)
  BY CallsStep, Zenon
<1>1. CASE CallRests(p)
  <2>1. rc[p].pc = "open" /\ rc[p].empty
    BY <1>1, Zenon DEF CallRests
  <2>2. rows[h].state \notin Unresolved
    BY <2>1, Zenon DEF GateInv, OpenMeansResolved
  <2>3. ASSUME NEW w \in Workers PROVE ~WorkerPrepares(w, h)
    BY <2>1, Zenon DEF WorkerPrepares, At, Holds, Reconciling, GateInv, Mutex
  <2> QED BY <2>2, <2>3, UnresolvedStep, Zenon
<1>2. CASE CallWalks(p)
  <2>1. UNCHANGED jvars /\ RowsIn(Active) = {}
    BY <1>2, Zenon DEF CallWalks
  <2>2. rows' = rows /\ rows[h].state \notin Active
    BY <2>1, Zenon DEF jvars, RowsIn
  <2> QED BY <2>2, Zenon DEF Active, Unresolved
<1>3. CASE CallEnds(p) \/ CallScans(p) \/ CallReads(p) \/ CallDecides(p) \/ CallGoesOn(p)
  <2>1. rc'[p].pc # "open"
    <3>1. CASE CallEnds(p)
      BY <3>1 DEF CallEnds, IdleRc
    <3>2. CASE CallScans(p)
      BY <3>2, Zenon DEF CallScans
    <3>3. CASE CallReads(p)
      BY <3>3, Zenon DEF CallReads
    <3>4. CASE CallDecides(p)
      BY <3>4, Zenon DEF CallDecides
    <3>5. CASE CallGoesOn(p)
      BY <3>5, Zenon DEF CallGoesOn, Verdicts
    <3> QED BY <1>3, <3>1, <3>2, <3>3, <3>4, <3>5, Zenon
  <2> QED BY <2>1, Zenon
<1> QED BY <1>0, <1>1, <1>2, <1>3, Zenon DEF CallMoves

LEMMA SignsFreshStep ==
  ASSUME OneProcess, RowsInv, TasksInv, PoliciesOK, GatesOK, GateInv, [Next]_vars
  PROVE  SignsFresh'
<1> DEFINE Early == {"verify", "sign", "prepare", "protocol_failure"}
<1>0. WorkersOK /\ Mutex /\ GateHeld /\ SignsFresh
  BY Zenon DEF TasksInv, GateInv
<1> SUFFICES ASSUME NEW w \in Workers, worker'[w].pc \in Early
             PROVE  rows'[worker'[w].hash].state \notin Unresolved
  BY Zenon DEF SignsFresh
<1>1. WorkerMoves(w)
  BY WorkersStep, Zenon
<1>2. worker'[w] # IdleWorker /\ worker'[w].pc # "queued"
  BY DEF IdleWorker
<1>3. CASE worker'[w] = worker[w]
  <2>1. worker[w].hash \in Hashes /\ rows[worker[w].hash].state \notin Unresolved /\ Holds(w)
    BY <1>0, <1>3, Zenon DEF WorkersOK, At, SignsFresh, Holds
  <2>2. ASSUME NEW v \in Workers, WorkerPrepares(v, worker[w].hash) PROVE FALSE
    <3>1. v = w
      BY <1>0, <2>1, <2>2, Zenon DEF WorkerPrepares, At, Holds, Mutex
    <3>2. WorkerStep(w) /\ worker[w].pc = "prepare"
      BY <2>2, <3>1, Zenon DEF WorkerPrepares, At
    <3>3. worker'[w].pc \in Late \cup {"idle"}
      BY <1>0, <3>2, WorkerGate, Zenon
    <3> QED BY <3>3, Zenon DEF Late
  <2> QED BY <1>3, <2>1, <2>2, UnresolvedStep, Zenon
<1>4. ASSUME ~At(w, "idle"), worker'[w].hash = worker[w].hash, WorkerGoes(w)
      PROVE  rows'[worker'[w].hash].state \notin Unresolved
  <2>1. worker[w].hash \in Hashes /\ worker[w].proc \in Procs
    BY <1>0, <1>4, Zenon DEF WorkersOK
  <2>2. /\ UNCHANGED jvars
        /\ \/ At(w, "queued") /\ LockFree(worker[w].proc) /\ CanSettle(worker[w].proc)
           \/ At(w, "verify") \/ At(w, "sign")
    BY <1>4, Zenon DEF WorkerGoes
  <2>3. rows[worker[w].hash].state \notin Unresolved
    <3>1. CASE At(w, "verify") \/ At(w, "sign")
      BY <1>0, <3>1, Zenon DEF At, SignsFresh
    <3>2. CASE LockFree(worker[w].proc) /\ CanSettle(worker[w].proc)
      <4>1. \A v \in Workers : ~Holds(v)
        BY <1>0, <2>1, <3>2, NobodyHolds, Zenon
      <4> QED BY <1>0, <2>1, <3>2, <4>1, Zenon DEF CanSettle, GateHeld, Holds
    <3> QED BY <2>2, <3>1, <3>2, Zenon
  <2> QED BY <1>4, <2>2, <2>3, Zenon DEF jvars
<1> QED BY <1>1, <1>2, <1>3, <1>4, Zenon DEF WorkerMoves

LEMMA GateInvStep ==
  ASSUME OneProcess, RowsInv, TasksInv, PoliciesOK, LookInv, GatesOK, GateInv, [Next]_vars
  PROVE  GatesOK' /\ GateInv'
<1>1. GatesOK'
  BY GatesStep, Zenon DEF TasksInv
<1>2. Mutex'
  BY MutexStep, Zenon DEF GateInv
<1> QED BY <1>1, <1>2, GateHeldStep, OpenMeansResolvedStep, SignsFreshStep, Zenon DEF GateInv

-----------------------------------------------------------------------------
(* A restart with another configuration strands no transaction.            *)

LEMMA SettingsStep ==
  ASSUME [Next]_vars
  PROVE  /\ snapshot' = snapshot \/ \E x \in Handlers : HandlerStep(x)
         /\ signed' = signed \/ \E w \in Workers : WorkerPrepare(w)
         /\ policy' = policy \/ \E p \in Procs : Restart(p)
<1>1. CASE ChainMoves \/ UNCHANGED vars
  BY <1>1, ChainFrame, Zenon DEF settings
<1>2. ASSUME NEW p \in Procs, ProcessStep(p)
      PROVE  UNCHANGED <<snapshot, signed>> /\ (policy' = policy \/ Restart(p))
  <2>1. UNCHANGED settings \/ Restart(p)
    BY <1>2, Zenon DEF ProcessStep, Refresh
  <2> QED BY <1>2, <2>1, ProcessFrame, Zenon DEF settings
<1>3. ASSUME NEW p \in Procs, ReconcileStep(p) PROVE UNCHANGED settings
  BY <1>3, ReconcileFrame, Zenon
<1>4. ASSUME NEW x \in Handlers, HandlerStep(x) PROVE UNCHANGED <<policy, signed>>
  BY <1>4, HandlerFrame, Zenon
<1>5. ASSUME NEW w \in Workers, WorkerStep(w)
      PROVE  UNCHANGED <<policy, snapshot>> /\ (signed' = signed \/ WorkerPrepare(w))
  <2>1. signed' = signed \/ WorkerPrepare(w)
    BY <1>5, Zenon DEF WorkerStep, WorkerSign, WorkerSubmit, WorkerSend, WorkerQuarantine, WorkerAwait, settings
  <2> QED BY <1>5, <2>1, WorkerFrame, Zenon
<1> QED BY <1>1, <1>2, <1>3, <1>4, <1>5, Zenon DEF Next, ChainMoves, settings

\* A row that is reserved was so before with the same snapshot, or was just
\* admitted under the configuration of the process.
LEMMA SnapshotStep ==
  ASSUME RowsInv, TasksInv, PoliciesOK, PolicyInv, [Next]_vars
  PROVE  /\ snapshot' \in [Hashes -> Policies \cup {NoPolicy}]
         /\ \A h \in Hashes :
              \/ snapshot'[h] = snapshot[h] /\ (rows'[h].state = "reserved" => rows[h].state = "reserved")
              \/ rows'[h].state = "reserved" /\ \E p \in Procs : snapshot'[h] = policy[p] /\ policy' = policy
<1>0. snapshot \in [Hashes -> Policies \cup {NoPolicy}]
  BY Zenon DEF PolicyInv
<1>1. ASSUME NEW x \in Handlers, HandlerStep(x), handler[x].proc \in Procs
      PROVE  /\ snapshot' \in [Hashes -> Policies \cup {NoPolicy}]
             /\ \A h \in Hashes :
                  \/ snapshot'[h] = snapshot[h] /\ (rows'[h].state = "reserved" => rows[h].state = "reserved")
                  \/ rows'[h].state = "reserved" /\ \E p \in Procs : snapshot'[h] = policy[p] /\ policy' = policy
  <2>1. policy' = policy /\ policy[handler[x].proc] \in Policies
    BY <1>1, HandlerFrame, Zenon DEF PoliciesOK
  <2>2. snapshot' = [h \in Hashes |->
          IF rows[h].state # "reserved" /\ rows'[h].state = "reserved" THEN policy[handler[x].proc] ELSE snapshot[h]]
    BY <1>1, Zenon DEF HandlerStep, TakeSnapshot
  <2>3. snapshot' \in [Hashes -> Policies \cup {NoPolicy}]
    BY <1>0, <2>1, <2>2, Zenon
  <2> QED BY <1>1, <2>1, <2>2, <2>3, Zenon
<1>2. ASSUME NEW x \in Handlers, HandlerStep(x) PROVE handler[x].proc \in Procs
  BY <1>2, Zenon DEF HandlerStep, Claim, Resume, TasksInv, HandlersOK
<1>3. CASE \A x \in Handlers : ~HandlerStep(x)
  <2>1. snapshot' = snapshot
    BY <1>3, SettingsStep, Zenon
  <2>2. ASSUME NEW h \in Hashes, rows'[h].state = "reserved" PROVE rows[h].state = "reserved"
    <3>1. CASE RowMoves(h)
      <4>1. ASSUME NEW response, NEW fee, NEW confirmations, MarkTerminal(h, response, fee, confirmations)
            PROVE  FALSE
        BY <2>2, <4>1, FinishesRow, Zenon DEF TerminalState
      <4>2. ~WorkerFails(h) /\ ~ReconcileBooks(h)
        BY <4>1, Zenon DEF WorkerFails, ReconcileBooks
      <4>3. ~RowAdmitted(h)
        BY <1>3, Zenon DEF RowAdmitted
      <4>4. ~RowReleased(h) /\ ~RowGoesOn(h)
        BY <2>2, Zenon DEF RowReleased, RowGoesOn, Unresolved
      <4>5. \A w \in Workers : WorkerPrepares(w, h) => rows[h].state = "reserved"
        BY PreparesRow, Zenon DEF WorkerPrepares
      <4> QED BY <3>1, <4>2, <4>3, <4>4, <4>5, Zenon DEF RowMoves
    <3>2. CASE rows'[h] = rows[h]
      BY <2>2, <3>2, Zenon
    <3> QED BY <3>1, <3>2, RowsMove, Zenon
  <2> QED BY <1>0, <2>1, <2>2, Zenon
<1> QED BY <1>1, <1>2, <1>3, Zenon

\* A crash ends every worker of the only process.
LEMMA RestartEndsWorkers ==
  ASSUME OneProcess, TasksInv, NEW p \in Procs, Restart(p), NEW w \in Workers
  PROVE  worker'[w].pc = "idle"
<1>1. worker[w].pc = "idle" \/ worker[w].proc = p
  BY Zenon DEF TasksInv, WorkersOK, At, OneProcess
<1>2. worker'[w] = IF worker[w].proc = p THEN IdleWorker ELSE worker[w]
  BY Zenon DEF Restart, Crash
<1> QED BY <1>1, <1>2 DEF IdleWorker

\* What a worker signs is its configuration, and only a reserved row.
LEMMA SignedStep ==
  ASSUME RowsInv, TasksInv, PoliciesOK, PolicyInv, [Next]_vars
  PROVE  /\ signed' \in [Hashes -> Policies \cup {NoPolicy}]
         /\ \A h \in Hashes :
              /\ rows[h].state \in Unresolved => signed'[h] = signed[h]
              /\ \A w \in Workers : WorkerPrepares(w, h) => signed'[h] = policy[worker[w].proc]
<1>0. signed \in [Hashes -> Policies \cup {NoPolicy}]
  BY Zenon DEF PolicyInv
<1>1. ASSUME NEW w \in Workers, WorkerPrepare(w)
      PROVE  /\ signed' \in [Hashes -> Policies \cup {NoPolicy}]
             /\ \A h \in Hashes : rows[h].state \in Unresolved => signed'[h] = signed[h]
  <2>1. worker[w].hash \in Hashes /\ policy[worker[w].proc] \in Policies
    BY <1>1, Zenon DEF WorkerPrepare, At, TasksInv, WorkersOK, PoliciesOK
  <2>2. signed' = IF rows' # rows THEN [signed EXCEPT ![worker[w].hash] = policy[worker[w].proc]] ELSE signed
    BY <1>1, Zenon DEF WorkerPrepare
  <2>3. rows' = rows \/ MarkPrepared(worker[w].hash, worker[w].nonce, policy[worker[w].proc].depth)
    BY <1>1, Zenon DEF WorkerPrepare, WorkerStore, StoreCall, jvars
  <2>4. rows' = rows \/ rows[worker[w].hash].state = "reserved"
    BY <2>3, Zenon DEF MarkPrepared
  <2>5. signed' \in [Hashes -> Policies \cup {NoPolicy}]
    BY <1>0, <2>1, <2>2, Zenon
  <2> QED BY <1>0, <2>2, <2>4, <2>5, Zenon DEF Unresolved
<1>2. ASSUME NEW h \in Hashes, NEW w \in Workers, WorkerPrepares(w, h)
      PROVE  signed'[h] = policy[worker[w].proc]
  <2>1. WorkerPrepare(w)
    BY <1>2, Zenon DEF WorkerPrepares, WorkerStep, At, WorkerLock, WorkerVerify, WorkerRetry, WorkerTerminalize,
         WorkerSign, WorkerSubmit, WorkerSend, WorkerQuarantine, WorkerAwait
  <2>2. worker[w].hash = h /\ rows[h].state = "reserved" /\ rows'[h].state = "prepared"
    BY <1>2, PreparesRow, Zenon DEF WorkerPrepares
  <2>3. rows' # rows
    BY <2>2, Zenon
  <2>4. signed' = [signed EXCEPT ![h] = policy[worker[w].proc]]
    BY <2>1, <2>2, <2>3, Zenon DEF WorkerPrepare
  <2> QED BY <1>0, <2>4, Zenon
<1>3. signed' = signed \/ \E w \in Workers : WorkerPrepare(w)
  BY SettingsStep, Zenon
<1> QED BY <1>0, <1>1, <1>2, <1>3, Zenon

LEMMA PolicyInvStep ==
  ASSUME OneProcess, RowsInv, TasksInv, PoliciesOK, PolicyInv, RowsInv', Stays, [Next]_vars
  PROVE  PolicyInv'
<1>1. ASSUME NEW w \in Workers, worker'[w].pc # "idle", rows'[worker'[w].hash].state = "reserved"
      PROVE  snapshot'[worker'[w].hash] = policy'[worker'[w].proc]
  <2>1. WorkersOK' /\ WorkerMoves(w)
    BY WorkersStep, Zenon
  <2>2. worker'[w].hash \in Hashes /\ worker'[w].proc \in Procs
    BY <1>1, <2>1, Zenon DEF WorkersOK, At
  <2>3. policy' = policy
    BY <1>1, RestartEndsWorkers, SettingsStep, Zenon
  <2>4. PICK h \in Hashes : h = worker'[w].hash
    BY <2>2, Zenon
  <2>5. CASE snapshot'[h] = snapshot[h] /\ rows[h].state = "reserved"
    <3>1. ~At(w, "idle") /\ worker[w].hash = h /\ worker[w].proc \in Procs
      <4>1. worker'[w] # IdleWorker /\ (At(w, "idle") => worker'[w] # worker[w])
        BY <1>1 DEF IdleWorker, At
      <4>2. rows[worker'[w].hash].state = "reserved"
        BY <2>4, <2>5, Zenon
      <4>3. ~At(w, "idle") /\ worker[w].hash = h
        BY <2>1, <2>4, <4>1, <4>2, Zenon DEF WorkerMoves
      <4> QED BY <4>3, Zenon DEF TasksInv, WorkersOK
    <3>2. snapshot[h] = policy[worker[w].proc]
      BY <2>5, <3>1, Zenon DEF PolicyInv
    <3> QED BY <2>2, <2>3, <2>4, <2>5, <3>1, <3>2, Zenon DEF OneProcess
  <2>6. CASE \E p \in Procs : snapshot'[h] = policy[p]
    BY <2>2, <2>3, <2>4, <2>6, Zenon DEF OneProcess
  <2> QED BY <1>1, <2>4, <2>5, <2>6, SnapshotStep, Zenon
<1>2. ASSUME NEW h \in Hashes, rows'[h].state \in Unresolved
      PROVE  snapshot'[h] \in Policies /\ signed'[h] = snapshot'[h] /\ rows'[h].depth >= snapshot'[h].depth
  <2>1. snapshot'[h] = snapshot[h]
    BY <1>2, SnapshotStep, Zenon DEF Unresolved
  <2>2. CASE rows[h].state \in Unresolved
    <3>1. snapshot[h] \in Policies /\ signed[h] = snapshot[h] /\ rows[h].depth >= snapshot[h].depth
      BY <2>2, Zenon DEF PolicyInv
    <3>2. rows'[h].depth >= rows[h].depth /\ rows[h].depth \in Nat /\ rows'[h].depth \in Nat
      <4>1. rows[h].depth \in Nat /\ rows'[h].depth \in Nat
        <5>1. rows'[h].depth \in {0} \cup Depths
          BY Zenon DEF RowsInv, JournalTypeOK, Row
        <5> QED BY <5>1, DepthIsNat, ConstantsAssumption
      <4>2. rows[h].nonce # 0
        BY <2>2, Zenon DEF RowsInv, SchemaChecks, Unresolved
      <4> QED BY <4>1, <4>2, Zenon DEF Stays
    <3>3. snapshot[h].depth \in Nat
      BY <3>1, EvmAssumption, ConstantsAssumption, Zenon
    <3>4. rows'[h].depth >= snapshot[h].depth
      BY <3>1, <3>2, <3>3
    <3> QED BY <2>1, <2>2, <3>1, <3>4, SignedStep, Zenon
  <2>3. ASSUME NEW w \in Workers, WorkerPrepares(w, h)
        PROVE  snapshot[h] \in Policies /\ signed'[h] = snapshot[h] /\ rows'[h].depth >= snapshot[h].depth
    <3>1. worker[w].hash = h /\ ~At(w, "idle") /\ worker[w].proc \in Procs
      BY <2>3, Zenon DEF WorkerPrepares, At, TasksInv, WorkersOK
    <3>2. rows[h].state = "reserved" /\ rows'[h].depth = policy[worker[w].proc].depth
      <4>1. MarkPrepared(h, worker[w].nonce, policy[worker[w].proc].depth)
        BY <2>3, Zenon DEF WorkerPrepares
      <4> QED BY <4>1, PreparesRow
    <3>3. snapshot[h] = policy[worker[w].proc] /\ snapshot[h] \in Policies
      BY <3>1, <3>2, Zenon DEF PolicyInv, PoliciesOK
    <3>4. rows'[h].depth = snapshot[h].depth /\ snapshot[h].depth \in Nat
      BY <3>2, <3>3, EvmAssumption, ConstantsAssumption, Zenon
    <3>5. signed'[h] = snapshot[h]
      BY <2>3, <3>3, SignedStep, Zenon
    <3>6. rows'[h].depth >= snapshot[h].depth
      BY <3>4
    <3> QED BY <3>3, <3>5, <3>6, Zenon
  <2> QED BY <1>2, <2>1, <2>2, <2>3, UnresolvedStep, Zenon
<1>3. snapshot' \in [Hashes -> Policies \cup {NoPolicy}] /\ signed' \in [Hashes -> Policies \cup {NoPolicy}]
  BY SnapshotStep, SignedStep, Zenon
<1> QED BY <1>1, <1>2, <1>3, Zenon DEF PolicyInv, At

-----------------------------------------------------------------------------
(* What is booked lies as deep as its row asks for.                        *)

\* The depth of a signed row changes only when reconciliation raises it.
LEMMA DepthStays ==
  ASSUME RowsInv, TasksInv, PoliciesOK, [Next]_vars, NEW h \in Hashes, rows[h].nonce # 0
  PROVE  rows'[h].depth = rows[h].depth \/ \E p \in Procs : Looking(p, "raise") /\ rc[p].cur = h
<1>1. rows[h].state \notin {"absent", "awaiting_retry", "reserved"}
  BY Zenon DEF RowsInv, SchemaChecks, OwnerKnown, Exists
<1>2. ~RowAdmitted(h) /\ ~RowReleased(h)
  BY <1>1, Zenon DEF RowAdmitted, RowReleased
<1>3. ASSUME NEW w \in Workers, WorkerPrepares(w, h) PROVE FALSE
  BY <1>1, <1>3, PreparesRow, Zenon DEF WorkerPrepares
<1>4. CASE WorkerFails(h) \/ ReconcileBooks(h)
  BY <1>4, FinishesRow, Zenon DEF WorkerFails, ReconcileBooks
<1>5. CASE rows'[h] = rows[h] \/ RowGoesOn(h)
  BY <1>5, Zenon DEF RowGoesOn
<1>6. rows'[h] = rows[h] \/ RowMoves(h)
  BY RowsMove, Zenon
<1> QED BY <1>2, <1>3, <1>4, <1>5, <1>6, Zenon DEF RowMoves

\* The row a reconcile call looks at is signed.
LEMMA CurrentIsSigned ==
  ASSUME TasksInv, NEW p \in Procs, rc[p].pc \in {"status"} \cup Verdicts
  PROVE  rc[p].cur \in Hashes /\ rows[rc[p].cur].nonce # 0
  BY Zenon DEF TasksInv, ReconcilesOK, ReconcileCall, ReconcileTasks, RowPcs, Verdicts, Responses

\* The depth a reconcile call works with is the row's until it is booked: only
\* this process raises it, and it does so before its first read.
LEMMA CallDepthStep ==
  ASSUME OneProcess, RowsInv, TasksInv, PoliciesOK, ChainInv, LookInv, DepthInv, [Next]_vars,
         NEW p \in Procs
  PROVE  /\ rc'[p].pc = "status" /\ look'[p].step # "raise" => look'[p].required = rows'[rc'[p].cur].depth
         /\ rc'[p].pc \in Verdicts => look'[p].confirmations >= rows'[rc'[p].cur].depth
<1> DEFINE Goal == /\ rc'[p].pc = "status" /\ look'[p].step # "raise" => look'[p].required = rows'[rc'[p].cur].depth
                   /\ rc'[p].pc \in Verdicts => look'[p].confirmations >= rows'[rc'[p].cur].depth
<1>0. /\ rc[p].pc = "status" /\ look[p].step # "raise" => look[p].required = rows[rc[p].cur].depth
      /\ rc[p].pc \in Verdicts => look[p].confirmations >= rows[rc[p].cur].depth
  BY Zenon DEF DepthInv
<1>1. CASE CallRests(p)
  <2>1. ASSUME rc[p].pc \in {"status"} \cup Verdicts, ~Looking(p, "raise")
        PROVE  rows'[rc[p].cur].depth = rows[rc[p].cur].depth
    <3>1. PICK h \in Hashes : h = rc[p].cur /\ rows[h].nonce # 0
      BY <2>1, CurrentIsSigned, Zenon
    <3>2. rows'[h].depth = rows[h].depth
      BY <2>1, <3>1, DepthStays, Zenon DEF OneProcess
    <3> QED BY <3>1, <3>2, Zenon
  <2>2. rc[p].pc \in Verdicts => ~Looking(p, "raise")
    BY Zenon DEF Verdicts, Looking
  <2> QED BY <1>0, <1>1, <2>1, <2>2, Zenon DEF CallRests, Looking
<1>2. CASE CallEnds(p) \/ CallScans(p) \/ CallWalks(p)
  <2>1. NoLook.step = "raise" /\ IdleRc.pc = "idle"
    BY Zenon DEF NoLook, IdleRc
  <2> QED BY <1>2, <2>1, Zenon DEF CallEnds, CallScans, CallWalks, Verdicts
<1>3. CASE CallReads(p)
  <2>1. UNCHANGED jvars => rows' = rows
    BY Zenon DEF jvars
  <2>2. rc'[p].cur = rc[p].cur /\ rc'[p].pc = "status" /\ look'[p].required = rows'[rc[p].cur].depth
    BY <1>0, <1>3, <2>1, Zenon DEF CallReads, SameRow
  <2> QED BY <2>2, Zenon DEF Verdicts
<1>4. CASE CallDecides(p)
  <2>1. /\ rc'[p].cur = rc[p].cur /\ rc[p].pc = "status" /\ look[p].step = "again"
        /\ UNCHANGED jvars
    BY <1>4, Zenon DEF CallDecides, SameRow
  <2>2. rc'[p].pc \in Verdicts /\ look'[p].confirmations >= look[p].required
    BY <1>4, DecidesBuried, Zenon DEF LookInv
  <2> QED BY <1>0, <2>1, <2>2, Zenon DEF jvars, Verdicts
<1>5. CASE CallGoesOn(p)
  <2>1. /\ rc'[p].cur = rc[p].cur /\ rc'[p].pc # "status"
        /\ rc'[p].pc \in Verdicts =>
             rc[p].pc \in Verdicts /\ QuarantineRelayer /\ look'[p].confirmations = look[p].confirmations
    BY <1>5, Zenon DEF CallGoesOn, SameRow, Verdicts
  <2> QED BY <1>0, <2>1, Zenon DEF QuarantineRelayer
<1>6. CallMoves(p)
  BY CallsStep, Zenon
<1> QED BY <1>1, <1>2, <1>3, <1>4, <1>5, <1>6, Zenon DEF CallMoves

\* A booked verdict's burial, read off its row.
LEMMA RowIsBuried ==
  ASSUME NEW h \in Hashes, NEW ok, NEW depth, Buried(h, ok, depth)',
         ok = (rows'[h].response = "success"), depth = rows'[h].depth
  PROVE  Buried(h, rows[h].response = "success", rows[h].depth)'
  BY Zenon DEF Buried, Submission

-----------------------------------------------------------------------------
(* How a row ends.                                                         *)

\* A row ends with the chain's verdict, or before anything was signed for it:
\* a worker gives up only on a row without a submission.
LEMMA TerminalRowsStep ==
  ASSUME RowsInv, TasksInv, PoliciesOK, GateInv, TerminalRows, Stays, [Next]_vars
  PROVE  TerminalRows'
<1> SUFFICES ASSUME NEW h \in Hashes, rows'[h].state \in Terminal
             PROVE  /\ rows'[h].state = TerminalState(rows'[h].response)
                    /\ rows'[h].response \notin Verdicts => rows'[h].nonce = 0
  BY Zenon DEF TerminalRows, TerminalState
<1>1. CASE rows[h].state \in Terminal
  BY <1>1, Zenon DEF Stays, TerminalRows
<1>2. CASE WorkerFails(h)
  <2>1. PICK w \in Workers : /\ worker[w].pc = "protocol_failure" /\ worker[w].hash = h
                             /\ MarkTerminal(h, "protocol_failure", 0, 0)
    BY <1>2, Zenon DEF WorkerFails, At
  <2>2. /\ rows[h].state \in Unresolved \cup {"reserved"} /\ rows'[h].nonce = rows[h].nonce
        /\ rows'[h].response = "protocol_failure" /\ rows'[h].state = TerminalState("protocol_failure")
    BY <2>1, FinishesRow, Zenon
  <2>3. rows[h].state \notin Unresolved
    BY <2>1, Zenon DEF GateInv, SignsFresh
  <2> QED BY <2>2, <2>3, Zenon DEF RowsInv, SchemaChecks
<1>3. CASE ReconcileBooks(h)
  BY <1>3, FinishesRow, Zenon DEF ReconcileBooks
<1>4. ~RowAdmitted(h) /\ ~RowReleased(h) /\ ~RowGoesOn(h)
  BY Zenon DEF RowAdmitted, RowReleased, RowGoesOn, Unresolved, Terminal
<1>5. ASSUME NEW w \in Workers, WorkerPrepares(w, h) PROVE FALSE
  BY <1>5, PreparesRow, Zenon DEF WorkerPrepares, Terminal
<1>6. rows'[h] = rows[h] \/ RowMoves(h)
  BY RowsMove, Zenon
<1> QED BY <1>1, <1>2, <1>3, <1>4, <1>5, <1>6, Zenon DEF RowMoves

=============================================================================
