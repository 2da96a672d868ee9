-------------------------- MODULE NearEngineProofs ---------------------------
(***************************************************************************)
(* Proofs about the NEAR settlement engine, for any number of processes,   *)
(* workers, handlers, payments and faults.                                 *)
(*                                                                         *)
(* The engine uses the journal only through the journal's transactions, so *)
(* the journal's invariants and the permanence of a submission carry over. *)
(* JournaledBeforeBroadcast then needs TasksInv: what a task has read or   *)
(* written about a row on its way to a broadcast is still true when it     *)
(* gets there, whatever other tasks and processes did in between.          *)
(***************************************************************************)
EXTENDS NearEngine, JournalProofs

\* A row that may have been broadcast.
Sent(h) == rows[h].state \in {"submitted"} \cup Terminal

\* A signed worker knows the nonce it signed with; once its row is prepared
\* the row has that nonce, and a worker about to send has marked it submitted.
WorkerTasks ==
  \A w \in Workers :
    /\ worker[w].pc \in {"prepare", "recheck", "submit", "send"} => worker[w].nonce \in Nonces
    /\ worker[w].pc \in {"recheck", "submit", "send"} => rows[worker[w].hash].nonce = worker[w].nonce
    /\ worker[w].pc = "send" => Sent(worker[w].hash)

\* The rows a reconcile call took for signed are signed, the ones it took for
\* submitted are, and so is the one it is about to rebroadcast.
ReconcileTasks ==
  \A p \in Procs :
    /\ \A h \in rc[p].prepared \cup rc[p].submitted : rows[h].nonce # 0
    /\ \A h \in rc[p].submitted : Sent(h)
    /\ rc[p].pc \in {"check", "reheads"} => Sent(rc[p].cur)

TasksInv == WorkerTasks /\ ReconcileTasks

ChainOK ==
  /\ net \subseteq [hash: Hashes, nonce: Nonces]
  /\ final \subseteq [tx: net, ok: BOOLEAN, at: 1..MaxHeight]
  /\ height \in 0..MaxHeight
  /\ nonceAt \in [0..MaxHeight -> {0} \cup Nonces]

-----------------------------------------------------------------------------
(* How tasks move.                                                         *)

LEMMA GotoType ==
  ASSUME WorkersOK, NEW w \in Workers, ~At(w, "idle"), NEW pc \in WorkerPcs, Goto(w, pc)
  PROVE  WorkersOK' /\ \A v \in Workers : v # w => worker'[v] = worker[v]
  BY Zenon DEF WorkersOK, At, Goto

LEMMA EndWorkerType ==
  ASSUME WorkersOK, NEW w \in Workers, EndWorker(w)
  PROVE  WorkersOK' /\ \A v \in Workers : v # w => worker'[v] = worker[v]
  BY Zenon DEF WorkersOK, At, EndWorker, IdleWorker

LEMMA SpawnType ==
  ASSUME WorkersOK, NEW p \in Procs, NEW h \in Hashes, Spawn(p, h)
  PROVE  WorkersOK' /\ \A w \in Workers : worker'[w] = worker[w] \/ worker'[w].pc = "queued"
<1>1. PICK w \in Workers :
        worker' = [worker EXCEPT ![w] = [pc |-> "queued", proc |-> p, hash |-> h, nonce |-> 0]]
  BY Zenon DEF Spawn
<1> QED BY <1>1, Zenon DEF WorkersOK, At

\* One call changes, to a well-formed one.
LEMMA ReconcileUpdate ==
  ASSUME ReconcilesOK, NEW p \in Procs, NEW r \in ReconcileCall,
         rc' = [rc EXCEPT ![p] = r],
         r.pc \in RowPcs => r.cur \in r.prepared \cup r.submitted
  PROVE  ReconcilesOK'
  BY Zenon DEF ReconcilesOK

LEMMA EndReconcileType ==
  ASSUME ReconcilesOK, NEW p \in Procs, EndReconcile(p)
  PROVE  ReconcilesOK'
  BY Zenon DEF ReconcilesOK, ReconcileCall, EndReconcile, IdleRc, RcPcs, RowPcs, Responses

LEMMA RGotoType ==
  ASSUME ReconcilesOK, NEW p \in Procs, rc[p].pc \in RowPcs, NEW pc \in RowPcs, RGoto(p, pc)
  PROVE  ReconcilesOK'
  BY DEF ReconcilesOK, ReconcileCall, RGoto, SetRc, RcPcs

\* A fresh call is well-formed, also between two rows of its snapshot.
LEMMA FreshCall ==
  ASSUME NEW pc \in {"release", "finish"}, NEW A \in SUBSET Hashes, NEW B \in SUBSET Hashes
  PROVE  /\ [IdleRc EXCEPT !.pc = pc] \in ReconcileCall
         /\ [IdleRc EXCEPT !.pc = pc, !.prepared = A, !.submitted = B] \in ReconcileCall
         /\ [IdleRc EXCEPT !.pc = pc].pc \notin RowPcs
         /\ [IdleRc EXCEPT !.pc = pc, !.prepared = A, !.submitted = B].pc \notin RowPcs
<1>1. IdleRc \in ReconcileCall /\ pc \in RcPcs /\ pc \notin RowPcs
  BY Zenon DEF IdleRc, ReconcileCall, RcPcs, RowPcs, Responses
<1> QED BY <1>1, Zenon DEF ReconcileCall

LEMMA ResolvedType ==
  ASSUME ReconcilesOK, NEW p \in Procs, Resolved(p)
  PROVE  ReconcilesOK'
<1>1. rc[p].prepared \ {rc[p].cur} \in SUBSET Hashes /\ rc[p].submitted \ {rc[p].cur} \in SUBSET Hashes
  BY Zenon DEF ReconcilesOK, ReconcileCall
<1> QED BY <1>1, FreshCall, ReconcileUpdate, Zenon DEF Resolved

LEMMA StopAtType ==
  ASSUME ReconcilesOK, NEW p \in Procs, StopAt(p)
  PROVE  ReconcilesOK'
  BY FreshCall, ReconcileUpdate, Zenon DEF StopAt

-----------------------------------------------------------------------------
(* What each kind of step leaves alone.                                    *)

LEMMA ChainFrame ==
  ASSUME ChainStep \/ UNCHANGED vars
  PROVE  /\ UNCHANGED <<jvars, gate, leader, worker, handler, rc, net>>
         /\ Fault("foreign") \/ UNCHANGED faults
  BY Zenon DEF ChainStep, MineSubmission, MineForeign, MineEmpty, NextBlock, vars, evars, jvars, chain

LEMMA HandlerFrame ==
  ASSUME NEW x, HandlerStep(x)
  PROVE  UNCHANGED <<gate, leader, rc, chain>>
  BY Zenon DEF HandlerStep, Claim, Resume

LEMMA WorkerFrame ==
  ASSUME NEW w, WorkerStep(w)
  PROVE  /\ UNCHANGED <<leader, handler, rc, final, height, nonceAt>>
         /\ UNCHANGED net \/ WorkerSend(w)
  BY Zenon DEF WorkerStep, WorkerLock, WorkerVerify, WorkerRetry, WorkerTerminalize, WorkerSign,
       WorkerPrepare, WorkerStore, WorkerRecheck, WorkerQuarantine, WorkerSubmit, WorkerSend,
       WorkerAwait, chain

LEMMA ReconcileFrame ==
  ASSUME NEW p, ReconcileStep(p)
  PROVE  /\ UNCHANGED <<leader, worker, handler, final, height, nonceAt>>
         /\ UNCHANGED net \/ ReconcileRebroadcast(p)
  BY Zenon DEF ReconcileStep, ReconcileBegin, ReconcileScan, ReconcileRelease, ReconcileAbort,
       ReconcileNext, ReconcileRemaining, ReconcileOpen, ReconcileFinalize, ReconcileGiveUp,
       ReconcileStatus, ReconcilePending, ReconcileHeads, ReconcileQuarantine, ReconcileResubmit,
       ReconcileCheck, ReconcileRebroadcast, ReconcileAwait, chain

-----------------------------------------------------------------------------
(* The engine and the journal.                                             *)

LEMMA TerminalizeJournal ==
  ASSUME NEW h \in Hashes, NEW response \in Responses, NEW ACTION Ok, NEW ACTION Err,
         Terminalize(h, response, Ok, Err)
  PROVE  JournalNext \/ UNCHANGED jvars
<1>1. ASSUME NEW actual \in Costs(response), MarkTerminal(h, response, actual, 0)
      PROVE  JournalNext
  <2>1. PICK depth \in Depths : TRUE
    BY ConstantsAssumption, Zenon
  <2>2. MarkTerminal(h, response, actual, depth)
    BY <1>1, NearAssumption, Zenon DEF MarkTerminal, TerminalAllowed
  <2> QED BY <2>2, Zenon DEF JournalNext
<1> QED BY <1>1, Zenon DEF Terminalize, StoreCall

LEMMA PreparedJournal ==
  ASSUME NEW h \in Hashes, NEW n \in Nonces, MarkPrepared(h, n, 0)
  PROVE  JournalNext
<1>1. PICK depth \in Depths : TRUE
  BY ConstantsAssumption, Zenon
<1>2. MarkPrepared(h, n, depth)
  BY NearAssumption, Zenon DEF MarkPrepared
<1> QED BY <1>2, Zenon DEF JournalNext

\* Every step of the engine is a transaction of the store or leaves the
\* journal alone.
LEMMA EngineUsesJournal ==
  ASSUME TypeOK, TasksInv, [Next]_vars
  PROVE  JournalNext \/ UNCHANGED jvars
<1> DEFINE Goal == JournalNext \/ UNCHANGED jvars
<1>0. WorkersOK /\ HandlersOK /\ ReconcilesOK
  BY Zenon DEF TypeOK, EngineTypeOK
<1>1. CASE ChainStep
  BY <1>1, Zenon DEF ChainStep, MineSubmission, MineForeign, MineEmpty, NextBlock, evars, jvars
<1>2. ASSUME NEW p \in Procs, ProcessStep(p) PROVE Goal
  BY <1>2, Zenon DEF ProcessStep, AcquireLeadership, LoseSession, HeartbeatFails, RefreshReadiness, Crash, Admit
<1>3. ASSUME NEW x \in Handlers, HandlerStep(x) PROVE Goal
  <2>1. handler[x].pc # "idle" => handler[x].req \in Requests /\ handler[x].req.hash \in Hashes
    BY <1>0, RequestsAssumption, Zenon DEF HandlersOK
  <2>2. CASE Claim(x)
    BY <2>1, <2>2, Zenon DEF Claim, JournalNext
  <2>3. CASE Resume(x)
    BY <2>1, <2>3, Zenon DEF Resume, JournalNext
  <2> QED BY <1>3, <2>2, <2>3, Zenon DEF HandlerStep
<1>4. ASSUME NEW w \in Workers, WorkerStep(w) PROVE Goal
  <2>1. ~At(w, "idle") => worker[w].hash \in Hashes
    BY <1>0, Zenon DEF WorkersOK
  <2>2. CASE WorkerRetry(w)
    BY <2>1, <2>2, Zenon DEF WorkerRetry, At, StoreCall, JournalNext
  <2>3. ASSUME NEW response \in Responses, WorkerTerminalize(w, response) PROVE Goal
    <3>1. worker[w].hash \in Hashes
      BY <2>1, <2>3, Zenon DEF WorkerTerminalize, At, Responses
    <3> QED BY <2>3, <3>1, TerminalizeJournal, Zenon DEF WorkerTerminalize
  <2>4. CASE WorkerPrepare(w)
    <3>1. worker[w].hash \in Hashes /\ worker[w].nonce \in Nonces
      BY <2>1, <2>4, Zenon DEF WorkerPrepare, At, TasksInv, WorkerTasks
    <3> QED BY <2>4, <3>1, PreparedJournal, Zenon DEF WorkerPrepare, WorkerStore, StoreCall
  <2>5. CASE WorkerSubmit(w)
    BY <2>1, <2>5, Zenon DEF WorkerSubmit, At, WorkerStore, StoreCall, JournalNext
  <2>6. CASE WorkerQuarantine(w)
    BY <2>6, Zenon DEF WorkerQuarantine, StoreCall, JournalNext
  <2>7. CASE WorkerLock(w) \/ WorkerVerify(w) \/ WorkerSign(w) \/ WorkerRecheck(w) \/ WorkerSend(w) \/ WorkerAwait(w)
    BY <2>7, Zenon DEF WorkerLock, WorkerVerify, WorkerSign, WorkerRecheck, WorkerSend, WorkerAwait
  <2> QED BY <1>4, <2>2, <2>3, <2>4, <2>5, <2>6, <2>7, Zenon DEF WorkerStep
<1>5. ASSUME NEW p \in Procs, ReconcileStep(p) PROVE Goal
  <2>1. rc[p].pc \in RowPcs => rc[p].cur \in Hashes
    BY <1>0, Zenon DEF ReconcilesOK, ReconcileCall
  <2>2. CASE ReconcileRelease(p)
    <3>1. rc[p].reserved \subseteq Hashes
      BY <1>0, Zenon DEF ReconcilesOK, ReconcileCall
    <3> QED BY <2>2, <3>1, Zenon DEF ReconcileRelease, StoreCall, JournalNext
  <2>3. ASSUME NEW response \in Responses, ReconcileFinalize(p, response) \/ ReconcileGiveUp(p, response)
        PROVE  Goal
    <3>1. rc[p].cur \in Hashes
      BY <2>1, <2>3, Zenon DEF ReconcileFinalize, ReconcileGiveUp, RowPcs
    <3> QED BY <2>3, <3>1, TerminalizeJournal, Zenon DEF ReconcileFinalize, ReconcileGiveUp
  <2>4. CASE ReconcileResubmit(p)
    <3>1. rc[p].cur \in Hashes
      BY <2>1, <2>4, Zenon DEF ReconcileResubmit, RowPcs
    <3> QED BY <2>4, <3>1, Zenon DEF ReconcileResubmit, StoreCall, JournalNext
  <2>5. CASE ReconcileQuarantine(p)
    BY <2>5, Zenon DEF ReconcileQuarantine, StoreCall, JournalNext
  <2>6. CASE \/ ReconcileBegin(p) \/ ReconcileScan(p) \/ ReconcileAbort(p) \/ ReconcileNext(p)
             \/ ReconcileRemaining(p) \/ ReconcileOpen(p)
    BY <2>6, Zenon DEF ReconcileBegin, ReconcileScan, ReconcileAbort, ReconcileNext, ReconcileRemaining, ReconcileOpen
  <2>7. CASE \/ ReconcileStatus(p) \/ ReconcilePending(p) \/ ReconcileHeads(p) \/ ReconcileCheck(p)
             \/ ReconcileRebroadcast(p) \/ ReconcileAwait(p)
    BY <2>7, Zenon DEF ReconcileStatus, ReconcilePending, ReconcileHeads, ReconcileCheck, ReconcileRebroadcast, ReconcileAwait
  <2> QED BY <1>5, <2>2, <2>3, <2>4, <2>5, <2>6, <2>7, Zenon DEF ReconcileStep, Responses
<1>6. CASE UNCHANGED vars
  BY <1>6, Zenon DEF vars, evars, jvars
<1> QED BY <1>1, <1>2, <1>3, <1>4, <1>5, <1>6, Zenon DEF Next

\* What no step of the engine takes back: the nonce of a signed row, and that
\* a row may have been broadcast.
Stays ==
  \A h \in Hashes :
    /\ rows[h].nonce # 0 => rows'[h].nonce = rows[h].nonce
    /\ Sent(h) => Sent(h)'

LEMMA JournalKeeps ==
  ASSUME RowsInv, TypeOK, TasksInv, [Next]_vars
  PROVE  RowsInv' /\ Stays
<1>1. JournalNext \/ UNCHANGED jvars
  BY EngineUsesJournal, Zenon
<1>2. RowsInv'
  BY <1>1, RowsStep, Zenon
<1>3. CASE UNCHANGED jvars
  BY <1>2, <1>3, Zenon DEF Stays, Sent, jvars
<1>4. CASE JournalNext /\ jvars' # jvars
  <2>1. \A h \in Hashes : RowStays(h)
    BY <1>4, PermanentStep, Zenon
  <2> QED BY <1>2, <2>1, Zenon DEF Stays, Sent, RowStays, Terminal
<1> QED BY <1>1, <1>3, <1>4, Zenon

-----------------------------------------------------------------------------
(* Workers.                                                                *)

LEMMA WorkersKeep ==
  ASSUME WorkersOK, WorkersOK', WorkerTasks, Stays,
         \A w \in Workers :
           worker'[w] = worker[w] \/ worker'[w].pc \notin {"prepare", "recheck", "submit", "send"}
  PROVE  WorkerTasks'
<1> SUFFICES ASSUME NEW w \in Workers, worker'[w] = worker[w],
                    worker[w].pc \in {"prepare", "recheck", "submit", "send"}
             PROVE  /\ worker[w].nonce \in Nonces
                    /\ worker[w].pc \in {"recheck", "submit", "send"} =>
                         rows'[worker[w].hash].nonce = worker[w].nonce
                    /\ worker[w].pc = "send" => Sent(worker[w].hash)'
  BY Zenon DEF WorkerTasks, Sent
<1>1. worker[w].hash \in Hashes /\ worker[w].nonce \in Nonces /\ worker[w].nonce # 0
  BY ConstantsAssumption, Zenon DEF WorkersOK, At, WorkerTasks
<1> QED BY <1>1, Zenon DEF WorkerTasks, Stays, Sent

\* Only w moves, and what it now knows is true.
LEMMA WorkerAlone ==
  ASSUME WorkersOK, WorkersOK', WorkerTasks, Stays, NEW w \in Workers,
         \A v \in Workers : v # w => worker'[v] = worker[v],
         worker'[w].nonce \in Nonces,
         worker'[w].pc \in {"recheck", "submit", "send"} => rows'[worker'[w].hash].nonce = worker'[w].nonce,
         worker'[w].pc = "send" => rows'[worker'[w].hash].state = "submitted"
  PROVE  WorkerTasks'
<1> SUFFICES ASSUME NEW v \in Workers, v # w,
                    worker[v].pc \in {"prepare", "recheck", "submit", "send"}
             PROVE  /\ worker[v].nonce \in Nonces
                    /\ worker[v].pc \in {"recheck", "submit", "send"} =>
                         rows'[worker[v].hash].nonce = worker[v].nonce
                    /\ worker[v].pc = "send" => Sent(worker[v].hash)'
  BY Zenon DEF WorkerTasks, Sent
<1>1. worker[v].hash \in Hashes /\ worker[v].nonce \in Nonces /\ worker[v].nonce # 0
  BY ConstantsAssumption, Zenon DEF WorkersOK, At, WorkerTasks
<1> QED BY <1>1, Zenon DEF WorkerTasks, Stays, Sent

LEMMA OutcomeKinds ==
  ASSUME NEW t, NEW outcome \in BroadcastOutcomes(t)
  PROVE  outcome \in Responses \cup {"pending"}
  BY DEF BroadcastOutcomes, StatusTerminal, Verdict, Rejections, Responses

LEMMA WorkersStep ==
  ASSUME RowsInv, TypeOK, TasksInv, Stays, [Next]_vars
  PROVE  WorkersOK' /\ WorkerTasks'
<1> DEFINE Goal == WorkersOK' /\ WorkerTasks'
           Signed == {"prepare", "recheck", "submit", "send"}
<1>0. WorkersOK /\ HandlersOK /\ WorkerTasks
  BY Zenon DEF TypeOK, EngineTypeOK, TasksInv
<1>1. ASSUME UNCHANGED worker PROVE Goal
  <2>1. WorkersOK'
    BY <1>0, <1>1, Zenon DEF WorkersOK, At
  <2> QED BY <1>0, <1>1, <2>1, WorkersKeep, Zenon
<1>2. ASSUME NEW w \in Workers, EndWorker(w) PROVE Goal
  <2>1. WorkersOK' /\ \A v \in Workers : v # w => worker'[v] = worker[v]
    BY <1>0, <1>2, EndWorkerType, Zenon
  <2>2. worker'[w].pc = "idle"
    BY <1>0, <1>2, Zenon DEF EndWorker, IdleWorker, WorkersOK
  <2> QED BY <1>0, <2>1, <2>2, WorkersKeep, Zenon
<1>3. ASSUME NEW w \in Workers, ~At(w, "idle"), NEW pc \in WorkerPcs \ Signed, Goto(w, pc) PROVE Goal
  <2>1. WorkersOK' /\ \A v \in Workers : v # w => worker'[v] = worker[v]
    BY <1>0, <1>3, GotoType, Zenon
  <2>2. worker'[w].pc = pc
    BY <1>0, <1>3, Zenon DEF Goto, WorkersOK
  <2> QED BY <1>0, <1>3, <2>1, <2>2, WorkersKeep, Zenon
<1>4. ASSUME NEW p \in Procs, NEW h \in Hashes, Spawn(p, h) PROVE Goal
  <2>1. WorkersOK' /\ \A w \in Workers : worker'[w] = worker[w] \/ worker'[w].pc = "queued"
    BY <1>0, <1>4, SpawnType, Zenon
  <2> QED BY <1>0, <2>1, WorkersKeep, Zenon
<1>5. ASSUME NEW p \in Procs, Crash(p) PROVE Goal
  <2>1. \A w \in Workers : worker'[w] = worker[w] \/ worker'[w] = IdleWorker
    BY <1>5, Zenon DEF Crash
  <2>2. WorkersOK'
    BY <1>0, <1>5, Zenon DEF Crash, WorkersOK, At, IdleWorker
  <2>3. \A w \in Workers : worker'[w] = worker[w] \/ worker'[w].pc \notin Signed
    BY <2>1 DEF IdleWorker
  <2> QED BY <1>0, <2>2, <2>3, WorkersKeep, Zenon
<1>6. ASSUME NEW x \in Handlers, HandlerStep(x) PROVE Goal
  <2>1. handler[x].pc # "idle" =>
          handler[x].proc \in Procs /\ handler[x].req.hash \in Hashes
    BY <1>0, RequestsAssumption, Zenon DEF HandlersOK
  <2>2. UNCHANGED worker \/ (handler[x].pc # "idle" /\ Spawn(handler[x].proc, handler[x].req.hash))
    BY <1>6, Zenon DEF HandlerStep, Claim, Resume, SpawnOrStrand
  <2> QED BY <1>1, <1>4, <2>1, <2>2, Zenon
<1>7. ASSUME NEW w \in Workers, WorkerStep(w) PROVE Goal
  <2>1. CASE WorkerRetry(w) \/ (\E response \in Responses : WorkerTerminalize(w, response)) \/ WorkerQuarantine(w)
    BY <1>2, <2>1, Zenon DEF WorkerRetry, WorkerTerminalize, WorkerQuarantine
  <2>2. CASE WorkerLock(w)
    BY <1>3, <2>2, Zenon DEF WorkerLock, At, WorkerPcs
  <2>3. CASE WorkerVerify(w)
    BY <1>3, <2>3, Zenon DEF WorkerVerify, At, WorkerPcs, Responses
  <2>4. CASE WorkerSign(w)
    <3>1. CASE Goto(w, "retry")
      BY <1>3, <2>4, <3>1, Zenon DEF WorkerSign, At, WorkerPcs
    <3>2. ASSUME NEW n \in Nonces, worker' = [worker EXCEPT ![w].pc = "prepare", ![w].nonce = n]
          PROVE  Goal
      <4>1. worker[w].pc = "sign"
        BY <2>4, Zenon DEF WorkerSign, At
      <4>2. WorkersOK'
        BY <1>0, <3>2, <4>1, ZenonT(30) DEF WorkersOK, At, WorkerPcs
      <4>3. worker'[w].pc = "prepare" /\ worker'[w].nonce = n /\ \A v \in Workers : v # w => worker'[v] = worker[v]
        BY <1>0, <3>2, Zenon DEF WorkersOK
      <4> QED BY <1>0, <3>2, <4>2, <4>3, WorkerAlone, Zenon
    <3> QED BY <2>4, <3>1, <3>2, Zenon DEF WorkerSign
  <2>5. CASE WorkerPrepare(w)
    <3>1. CASE EndWorker(w)
      BY <1>2, <3>1, Zenon
    <3>2. CASE MarkPrepared(worker[w].hash, worker[w].nonce, 0) /\ Goto(w, "recheck")
      <4>1. worker[w].pc = "prepare" /\ worker[w].hash \in Hashes /\ worker[w].nonce \in Nonces
        BY <1>0, <2>5, Zenon DEF WorkerPrepare, At, WorkersOK, WorkerTasks
      <4>2. rows'[worker[w].hash].nonce = worker[w].nonce
        <5>1. rows \in [Hashes -> Row] /\ rows[worker[w].hash] \in Row
          BY <4>1, Zenon DEF RowsInv, JournalTypeOK
        <5> QED BY <3>2, <4>1, <5>1, Zenon DEF MarkPrepared, Row
      <4>3. WorkersOK' /\ \A v \in Workers : v # w => worker'[v] = worker[v]
        BY <1>0, <3>2, <4>1, GotoType, Zenon DEF At, WorkerPcs
      <4>4. worker'[w].pc = "recheck" /\ worker'[w].nonce = worker[w].nonce /\ worker'[w].hash = worker[w].hash
        BY <1>0, <3>2, Zenon DEF Goto, WorkersOK
      <4> QED BY <1>0, <4>1, <4>2, <4>3, <4>4, WorkerAlone, Zenon
    <3> QED BY <2>5, <3>1, <3>2, Zenon DEF WorkerPrepare, WorkerStore, StoreCall
  <2>6. CASE WorkerRecheck(w)
    <3>1. CASE EndWorker(w)
      BY <1>2, <3>1, Zenon
    <3>2. CASE Goto(w, "quarantine")
      BY <1>3, <2>6, <3>2, Zenon DEF WorkerRecheck, At, WorkerPcs
    <3>3. CASE Goto(w, "submit")
      <4>1. worker[w].pc = "recheck" /\ worker[w].hash \in Hashes /\ worker[w].nonce \in Nonces
        BY <1>0, <2>6, Zenon DEF WorkerRecheck, At, WorkersOK, WorkerTasks
      <4>2. rows'[worker[w].hash].nonce = worker[w].nonce
        BY <1>0, <4>1, ConstantsAssumption, Zenon DEF WorkerTasks, Stays
      <4>3. WorkersOK' /\ \A v \in Workers : v # w => worker'[v] = worker[v]
        BY <1>0, <3>3, <4>1, GotoType, Zenon DEF At, WorkerPcs
      <4>4. worker'[w].pc = "submit" /\ worker'[w].nonce = worker[w].nonce /\ worker'[w].hash = worker[w].hash
        BY <1>0, <3>3, Zenon DEF Goto, WorkersOK
      <4> QED BY <1>0, <4>1, <4>2, <4>3, <4>4, WorkerAlone, Zenon
    <3> QED BY <2>6, <3>1, <3>2, <3>3, ZenonT(30) DEF WorkerRecheck
  <2>7. CASE WorkerSubmit(w)
    <3>1. CASE EndWorker(w)
      BY <1>2, <3>1, Zenon
    <3>2. CASE MarkSubmitted(worker[w].hash) /\ Goto(w, "send")
      <4>1. worker[w].pc = "submit" /\ worker[w].hash \in Hashes /\ worker[w].nonce \in Nonces
        BY <1>0, <2>7, Zenon DEF WorkerSubmit, At, WorkersOK, WorkerTasks
      <4>2. rows'[worker[w].hash].nonce = worker[w].nonce
        BY <1>0, <4>1, ConstantsAssumption, Zenon DEF WorkerTasks, Stays
      <4>3. rows'[worker[w].hash].state = "submitted"
        BY <3>2, <4>1, Zenon DEF MarkSubmitted, RowsInv, JournalTypeOK, Row
      <4>4. WorkersOK' /\ \A v \in Workers : v # w => worker'[v] = worker[v]
        BY <1>0, <3>2, <4>1, GotoType, Zenon DEF At, WorkerPcs
      <4>5. worker'[w].pc = "send" /\ worker'[w].nonce = worker[w].nonce /\ worker'[w].hash = worker[w].hash
        BY <1>0, <3>2, Zenon DEF Goto, WorkersOK
      <4> QED BY <1>0, <4>1, <4>2, <4>3, <4>4, <4>5, WorkerAlone, Zenon
    <3> QED BY <2>7, <3>1, <3>2, ZenonT(30) DEF WorkerSubmit, WorkerStore, StoreCall
  <2>8. CASE WorkerSend(w)
    BY <1>2, <1>3, <2>8, Zenon DEF WorkerSend, At, WorkerPcs
  <2>9. CASE WorkerAwait(w)
    <3>1. PICK outcome \in Responses \cup {"pending"} :
            EndWorker(w) \/ (outcome # "pending" /\ Goto(w, outcome))
      BY <2>9, OutcomeKinds, Zenon DEF WorkerAwait
    <3> QED BY <1>2, <1>3, <2>9, <3>1, Zenon DEF WorkerAwait, At, WorkerPcs, Responses
  <2> QED BY <1>7, <2>1, <2>2, <2>3, <2>4, <2>5, <2>6, <2>7, <2>8, <2>9, Zenon DEF WorkerStep
<1>8. ASSUME NEW p \in Procs, ProcessStep(p) PROVE Goal
  BY <1>1, <1>5, <1>8, Zenon DEF ProcessStep, AcquireLeadership, LoseSession, HeartbeatFails, RefreshReadiness, Admit
<1>9. ASSUME NEW p \in Procs, ReconcileStep(p) PROVE Goal
  BY <1>1, <1>9, ReconcileFrame, Zenon
<1>10. CASE ChainStep \/ UNCHANGED vars
  BY <1>1, <1>10, ChainFrame, Zenon
<1> QED BY <1>6, <1>7, <1>8, <1>9, <1>10, Zenon DEF Next

-----------------------------------------------------------------------------
(* Reconcile calls.                                                        *)

\* A reconcile call that keeps to rows of its snapshot, and is on its way to a
\* rebroadcast only of a row it has found or marked submitted.
LEMMA ReconcilesKeep ==
  ASSUME ReconcilesOK, ReconcilesOK', ReconcileTasks, Stays, NEW p \in Procs,
         \A q \in Procs : q # p => rc'[q] = rc[q],
         rc'[p].prepared \subseteq rc[p].prepared,
         rc'[p].submitted \subseteq rc[p].submitted,
         rc'[p].pc \in {"check", "reheads"} => rows'[rc'[p].cur].state \in {"submitted"} \cup Terminal
  PROVE  ReconcileTasks'
<1> SUFFICES ASSUME NEW q \in Procs
             PROVE  /\ \A h \in rc'[q].prepared \cup rc'[q].submitted : rows'[h].nonce # 0
                    /\ \A h \in rc'[q].submitted : rows'[h].state \in {"submitted"} \cup Terminal
                    /\ rc'[q].pc \in {"check", "reheads"} =>
                         rows'[rc'[q].cur].state \in {"submitted"} \cup Terminal
  BY Zenon DEF ReconcileTasks, Sent
<1>1. /\ rc[q].prepared \subseteq Hashes /\ rc[q].submitted \subseteq Hashes
      /\ rc[q].pc \in {"check", "reheads"} => rc[q].cur \in Hashes
  BY Zenon DEF ReconcilesOK, ReconcileCall, RowPcs
<1>2. rc'[q].prepared \subseteq rc[q].prepared /\ rc'[q].submitted \subseteq rc[q].submitted
  BY Zenon DEF ReconcilesOK, ReconcileCall
<1>3. \A h \in rc[q].prepared \cup rc[q].submitted : rows[h].nonce # 0 /\ rows'[h].nonce # 0
  BY <1>1, Zenon DEF ReconcileTasks, Stays
<1>4. \A h \in rc[q].submitted : rows'[h].state \in {"submitted"} \cup Terminal
  BY <1>1, Zenon DEF ReconcileTasks, Stays, Sent
<1>5. q # p => (rc'[q].pc \in {"check", "reheads"} =>
                  rows'[rc'[q].cur].state \in {"submitted"} \cup Terminal)
  BY <1>1, Zenon DEF ReconcileTasks, Stays, Sent
<1> QED BY <1>2, <1>3, <1>4, <1>5, Zenon

\* A call that ends, resolves its row or stops at it keeps to its snapshot.
LEMMA ReconcileLeaves ==
  ASSUME ReconcilesOK, ReconcileTasks, Stays, NEW p \in Procs,
         EndReconcile(p) \/ Resolved(p) \/ StopAt(p)
  PROVE  ReconcilesOK' /\ ReconcileTasks'
<1>1. ReconcilesOK'
  BY EndReconcileType, ResolvedType, StopAtType, Zenon
<1>2. /\ \A q \in Procs : q # p => rc'[q] = rc[q]
      /\ rc'[p].prepared \subseteq rc[p].prepared
      /\ rc'[p].submitted \subseteq rc[p].submitted
      /\ rc'[p].pc \notin {"check", "reheads"}
  <2>1. CASE EndReconcile(p)
    BY <2>1, Zenon DEF ReconcilesOK, ReconcileCall, EndReconcile, IdleRc
  <2>2. CASE Resolved(p)
    BY <2>2, Zenon DEF ReconcilesOK, ReconcileCall, Resolved, IdleRc
  <2>3. CASE StopAt(p)
    BY <2>3, Zenon DEF ReconcilesOK, ReconcileCall, StopAt, IdleRc
  <2> QED BY <2>1, <2>2, <2>3, Zenon
<1> QED BY <1>1, <1>2, ReconcilesKeep, Zenon

\* A call that goes on with its row.
LEMMA ReconcileMoves ==
  ASSUME ReconcilesOK, ReconcileTasks, Stays, NEW p \in Procs, rc[p].pc \in RowPcs,
         NEW pc \in RowPcs, RGoto(p, pc),
         pc \in {"check", "reheads"} => rows'[rc[p].cur].state \in {"submitted"} \cup Terminal
  PROVE  ReconcilesOK' /\ ReconcileTasks'
<1>1. ReconcilesOK'
  BY RGotoType, Zenon
<1>2. /\ \A q \in Procs : q # p => rc'[q] = rc[q]
      /\ rc'[p].prepared = rc[p].prepared
      /\ rc'[p].submitted = rc[p].submitted
      /\ rc'[p].cur = rc[p].cur
      /\ rc'[p].pc = pc
  BY Zenon DEF ReconcilesOK, ReconcileCall, RGoto, SetRc
<1> QED BY <1>1, <1>2, ReconcilesKeep, Zenon

LEMMA ReconcilesStep ==
  ASSUME RowsInv, TypeOK, TasksInv, Stays, [Next]_vars
  PROVE  ReconcilesOK' /\ ReconcileTasks'
<1> DEFINE Goal == ReconcilesOK' /\ ReconcileTasks'
<1>0. ReconcilesOK /\ ReconcileTasks
  BY Zenon DEF TypeOK, EngineTypeOK, TasksInv
<1>0a. \A p \in Procs : rc[p].pc \in RowPcs => rc[p].cur \in Hashes
  BY <1>0, Zenon DEF ReconcilesOK, ReconcileCall
<1>1. ASSUME UNCHANGED rc PROVE Goal
  <2>1. ReconcilesOK'
    BY <1>0, <1>1, Zenon DEF ReconcilesOK, ReconcileCall
  <2>2. SUFFICES ASSUME NEW p \in Procs
                 PROVE  /\ \A h \in rc[p].prepared \cup rc[p].submitted : rows'[h].nonce # 0
                        /\ \A h \in rc[p].submitted : rows'[h].state \in {"submitted"} \cup Terminal
                        /\ rc[p].pc \in {"check", "reheads"} =>
                             rows'[rc[p].cur].state \in {"submitted"} \cup Terminal
    BY <1>1, <2>1, Zenon DEF ReconcileTasks, Sent
  <2>3. rc[p].prepared \subseteq Hashes /\ rc[p].submitted \subseteq Hashes
    BY <1>0, Zenon DEF ReconcilesOK, ReconcileCall
  <2> QED BY <1>0, <1>0a, <2>3, Zenon DEF ReconcileTasks, Stays, Sent, RowPcs
<1>2. ASSUME NEW p \in Procs, EndReconcile(p) \/ Resolved(p) \/ StopAt(p) PROVE Goal
  BY <1>0, <1>2, ReconcileLeaves, Zenon
<1>3. ASSUME NEW p \in Procs, rc[p].pc \in RowPcs, NEW pc \in RowPcs \ {"check", "reheads"}, RGoto(p, pc)
      PROVE  Goal
  BY <1>0, <1>3, ReconcileMoves, Zenon
<1>4. ASSUME NEW p \in Procs, Crash(p) PROVE Goal
  BY <1>2, <1>4, ZenonT(30) DEF Crash, EndReconcile
<1>5. ASSUME NEW p \in Procs, ReconcileStep(p) PROVE Goal
  <2>1. CASE ReconcileBegin(p)
    <3>1. ReconcilesOK'
      BY <1>0, <2>1 DEF ReconcileBegin, ReconcilesOK, ReconcileCall, RcPcs, RowPcs, Responses
    <3>2. /\ \A q \in Procs : q # p => rc'[q] = rc[q]
          /\ rc'[p].prepared = rc[p].prepared /\ rc'[p].submitted = rc[p].submitted
          /\ rc'[p].pc = "queued"
      BY <1>0, <2>1, Zenon DEF ReconcileBegin, ReconcilesOK, ReconcileCall
    <3> QED BY <1>0, <3>1, <3>2, ReconcilesKeep, Zenon
  <2>2. CASE ReconcileScan(p)
    <3>1. CASE EndReconcile(p)
      BY <1>2, <3>1, Zenon
    <3>2. CASE ~EndReconcile(p)
      <4>1. /\ \A q \in Procs : q # p => rc'[q] = rc[q]
            /\ rc'[p] = [IdleRc EXCEPT !.pc = "release",
                           !.reserved = RowsIn({"reserved"}),
                           !.prepared = RowsIn({"prepared"}),
                           !.submitted = RowsIn({"submitted"})]
        BY <1>0, <2>2, <3>2, Zenon DEF ReconcileScan, ReconcilesOK, ReconcileCall
      <4>2. ReconcilesOK'
        <5> DEFINE r == [IdleRc EXCEPT !.pc = "release",
                           !.reserved = RowsIn({"reserved"}),
                           !.prepared = RowsIn({"prepared"}),
                           !.submitted = RowsIn({"submitted"})]
        <5>1. \A states : RowsIn(states) \in SUBSET Hashes
          BY Zenon DEF RowsIn
        <5>2. r \in ReconcileCall /\ r.pc \notin RowPcs
          BY <5>1, Zenon DEF ReconcileCall, IdleRc, RcPcs, RowPcs, Responses
        <5>3. rc' = [rc EXCEPT ![p] = r]
          BY <2>2, <3>2, Zenon DEF ReconcileScan
        <5> HIDE DEF r
        <5> QED BY <1>0, <5>2, <5>3, ReconcileUpdate, Zenon
      <4>3. /\ \A h \in RowsIn({"prepared"}) \cup RowsIn({"submitted"}) : h \in Hashes /\ rows[h].nonce # 0
            /\ \A h \in RowsIn({"submitted"}) : h \in Hashes /\ rows[h].state = "submitted"
        BY Zenon DEF RowsIn, RowsInv, SchemaChecks
      <4>3a. rows' = rows
        BY <2>2, Zenon DEF ReconcileScan, jvars
      <4>4. rc'[p].pc = "release" /\ rc'[p].prepared = RowsIn({"prepared"}) /\ rc'[p].submitted = RowsIn({"submitted"})
        BY <4>1, Zenon DEF IdleRc
      <4>5. ASSUME NEW q \in Procs
            PROVE  /\ \A h \in rc'[q].prepared \cup rc'[q].submitted : rows'[h].nonce # 0
                   /\ \A h \in rc'[q].submitted : rows'[h].state \in {"submitted"} \cup Terminal
                   /\ rc'[q].pc \in {"check", "reheads"} =>
                        rows'[rc'[q].cur].state \in {"submitted"} \cup Terminal
        <5>1. CASE q = p
          BY <4>3, <4>3a, <4>4, <5>1, Zenon
        <5>2. CASE q # p
          BY <1>0, <4>1, <4>3a, <5>2, Zenon DEF ReconcileTasks, Sent
        <5> QED BY <5>1, <5>2, Zenon
      <4> QED BY <4>2, <4>5, Zenon DEF ReconcileTasks, Sent
    <3> QED BY <3>1, <3>2, Zenon
  <2>3. CASE ReconcileRelease(p)
    <3>1. PICK h \in rc[p].reserved : rc' = [rc EXCEPT ![p]["reserved"] = rc[p].reserved \ {h}]
      BY <2>3, Zenon DEF ReconcileRelease, SetRc
    <3>2. ReconcilesOK'
      <4> DEFINE r == [rc[p] EXCEPT !["reserved"] = rc[p].reserved \ {h}]
      <4>1. rc[p] \in ReconcileCall /\ (rc[p].pc \in RowPcs => rc[p].cur \in rc[p].prepared \cup rc[p].submitted)
        BY <1>0, Zenon DEF ReconcilesOK
      <4>2. /\ r \in ReconcileCall /\ rc' = [rc EXCEPT ![p] = r]
            /\ r.pc = rc[p].pc /\ r.cur = rc[p].cur
            /\ r.prepared = rc[p].prepared /\ r.submitted = rc[p].submitted
        BY <3>1, <4>1, Zenon DEF ReconcileCall
      <4> HIDE DEF r
      <4> QED BY <1>0, <4>1, <4>2, ReconcileUpdate, Zenon
    <3>3. /\ \A q \in Procs : q # p => rc'[q] = rc[q]
          /\ rc'[p].prepared = rc[p].prepared /\ rc'[p].submitted = rc[p].submitted
          /\ rc'[p].pc = "release"
      BY <1>0, <2>3, <3>1, Zenon DEF ReconcileRelease, ReconcilesOK, ReconcileCall
    <3> QED BY <1>0, <3>2, <3>3, ReconcilesKeep, Zenon
  <2>4. CASE ReconcileNext(p)
    <3>1. PICK h \in rc[p].prepared \cup rc[p].submitted : rc' = [rc EXCEPT ![p].pc = "status", ![p].cur = h]
      BY <2>4, Zenon DEF ReconcileNext
    <3>2. ReconcilesOK'
      <4> DEFINE r == [rc[p] EXCEPT !.pc = "status", !.cur = h]
      <4>1. rc[p] \in ReconcileCall /\ rc' = [rc EXCEPT ![p] = r]
        BY <1>0, <3>1, Zenon DEF ReconcilesOK
      <4>2. r \in ReconcileCall
        BY <3>1, <4>1, Zenon DEF ReconcileCall, RcPcs, RowPcs
      <4>3. r.cur = h /\ r.prepared = rc[p].prepared /\ r.submitted = rc[p].submitted
        BY <4>1, Zenon DEF ReconcileCall
      <4> HIDE DEF r
      <4> QED BY <1>0, <3>1, <4>1, <4>2, <4>3, ReconcileUpdate, Zenon
    <3>3. /\ \A q \in Procs : q # p => rc'[q] = rc[q]
          /\ rc'[p].prepared = rc[p].prepared /\ rc'[p].submitted = rc[p].submitted
          /\ rc'[p].pc = "status"
      BY <1>0, <3>1, Zenon DEF ReconcilesOK, ReconcileCall
    <3> QED BY <1>0, <3>2, <3>3, ReconcilesKeep, Zenon
  <2>5. CASE ReconcileRemaining(p)
    <3>1. rc' = [rc EXCEPT ![p] = [IdleRc EXCEPT !.pc = "open", !.empty = (RowsIn(Active) = {})]]
      BY <2>5, Zenon DEF ReconcileRemaining
    <3>2. ReconcilesOK'
      BY <1>0, <3>1, ZenonT(30) DEF ReconcilesOK, ReconcileCall, IdleRc, RcPcs, RowPcs, Responses
    <3>3. /\ \A q \in Procs : q # p => rc'[q] = rc[q]
          /\ rc'[p].prepared = {} /\ rc'[p].submitted = {}
          /\ rc'[p].pc = "open"
      BY <1>0, <3>1, Zenon DEF ReconcilesOK, ReconcileCall, IdleRc
    <3> QED BY <1>0, <3>2, <3>3, ReconcilesKeep, Zenon
  <2>6. CASE ReconcileAbort(p) \/ ReconcileOpen(p) \/ ReconcileQuarantine(p)
    BY <1>2, <2>6, ZenonT(30) DEF ReconcileAbort, ReconcileOpen, ReconcileQuarantine
  <2>7. ASSUME NEW response \in Responses, ReconcileFinalize(p, response) \/ ReconcileGiveUp(p, response)
        PROVE  Goal
    <3>1. EndReconcile(p) \/ Proceed(p)
      BY <2>7, Zenon DEF ReconcileFinalize, ReconcileGiveUp, Terminalize, StoreCall
    <3> QED BY <1>2, <3>1, Zenon DEF Proceed
  <2>8. CASE ReconcileStatus(p)
    <3>1. rc[p].pc \in RowPcs
      BY <2>8, ZenonT(30) DEF ReconcileStatus, RowPcs
    <3>2. \A verdict \in StatusTerminal(Submission(rc[p].cur)) : verdict \in Responses
      BY Zenon DEF StatusTerminal, Verdict, Responses
    <3>3. EndReconcile(p) \/ \E pc \in Responses \cup {"heads", "pending"} : RGoto(p, pc)
      BY <2>8, <3>2, Zenon DEF ReconcileStatus
    <3> QED BY <1>2, <1>3, <3>1, <3>3, ZenonT(30) DEF RowPcs, Responses
  <2>9. CASE ReconcilePending(p)
    BY <1>2, <2>9, Zenon DEF ReconcilePending, Proceed
  <2>10. CASE ReconcileHeads(p)
    <3>1. rc[p].pc \in RowPcs
      BY <2>10, ZenonT(30) DEF ReconcileHeads, RowPcs
    <3>2. CASE EndReconcile(p)
      BY <1>2, <3>2, Zenon
    <3>3. CASE RGoto(p, "quarantine") \/ RGoto(p, "protocol_failure")
      BY <1>3, <3>1, <3>3, Zenon DEF RowPcs, Responses
    <3>4. ASSUME NEW primary \in Views, NEW backup \in Views,
                 rc' = [rc EXCEPT ![p].pc = "resubmit",
                   ![p].primary = nonceAt[primary], ![p].backup = nonceAt[backup]]
          PROVE  Goal
      <4>1. nonceAt[primary] \in {0} \cup Nonces /\ nonceAt[backup] \in {0} \cup Nonces
        BY NearAssumption DEF Views, TypeOK
      <4>2. ReconcilesOK'
        <5> DEFINE r == [rc[p] EXCEPT !.pc = "resubmit", !.primary = nonceAt[primary], !.backup = nonceAt[backup]]
        <5>1. rc[p] \in ReconcileCall /\ rc' = [rc EXCEPT ![p] = r]
          BY <1>0, <3>4, Zenon DEF ReconcilesOK
        <5>2. r \in ReconcileCall
          BY <4>1, <5>1, Zenon DEF ReconcileCall, RcPcs, RowPcs
        <5>3. r.cur = rc[p].cur /\ r.prepared = rc[p].prepared /\ r.submitted = rc[p].submitted
          BY <5>1, Zenon DEF ReconcileCall
        <5>4. rc[p].cur \in rc[p].prepared \cup rc[p].submitted
          BY <1>0, <3>1, Zenon DEF ReconcilesOK
        <5> HIDE DEF r
        <5> QED BY <1>0, <5>1, <5>2, <5>3, <5>4, ReconcileUpdate, Zenon
      <4>3. /\ \A q \in Procs : q # p => rc'[q] = rc[q]
            /\ rc'[p].prepared = rc[p].prepared /\ rc'[p].submitted = rc[p].submitted
            /\ rc'[p].pc = "resubmit"
        BY <1>0, <3>4, Zenon DEF ReconcilesOK, ReconcileCall
      <4> QED BY <1>0, <4>2, <4>3, ReconcilesKeep, Zenon
    <3> QED BY <2>10, <3>2, <3>3, <3>4, ZenonT(30) DEF ReconcileHeads, HeadsFail
  <2>11. CASE ReconcileResubmit(p)
    <3>1. rc[p].pc \in RowPcs /\ "check" \in RowPcs /\ rc[p].cur \in Hashes
             /\ rc[p].cur \in rc[p].prepared \cup rc[p].submitted
      BY <1>0, <1>0a, <2>11, Zenon DEF ReconcileResubmit, RowPcs, ReconcilesOK, ReconcileCall
    <3>2. CASE EndReconcile(p)
      BY <1>2, <3>2, Zenon
    <3>3. CASE RGoto(p, "check") /\ MarkSubmitted(rc[p].cur)
      <4>1. rows'[rc[p].cur].state = "submitted"
        BY <3>1, <3>3 DEF MarkSubmitted, RowsInv, JournalTypeOK, Row
      <4> QED BY <1>0, <3>1, <3>3, <4>1, ReconcileMoves, Zenon
    <3>4. CASE RGoto(p, "check") /\ rc[p].cur \notin rc[p].prepared
      <4>1. rows'[rc[p].cur].state \in {"submitted"} \cup Terminal
        BY <1>0, <3>1, <3>4, Zenon DEF ReconcileTasks, Stays, Sent
      <4> QED BY <1>0, <3>1, <3>4, <4>1, ReconcileMoves, Zenon
    <3> QED BY <2>11, <3>2, <3>3, <3>4, Zenon DEF ReconcileResubmit, StoreCall
  <2>12. CASE ReconcileCheck(p)
    <3>1. CASE EndReconcile(p)
      BY <1>2, <3>1, Zenon
    <3>2. CASE RGoto(p, "reheads")
      <4>1. rc[p].pc \in RowPcs /\ "reheads" \in RowPcs /\ rc[p].cur \in Hashes
        BY <1>0a, <2>12, Zenon DEF ReconcileCheck, RowPcs
      <4>2. rows'[rc[p].cur].state \in {"submitted"} \cup Terminal
        BY <1>0, <2>12, <4>1, Zenon DEF ReconcileCheck, ReconcileTasks, Stays, Sent
      <4> QED BY <1>0, <3>2, <4>1, <4>2, ReconcileMoves, Zenon
    <3> QED BY <2>12, <3>1, <3>2, Zenon DEF ReconcileCheck
  <2>13. CASE ReconcileRebroadcast(p)
    <3>1. EndReconcile(p) \/ RGoto(p, "await")
      BY <2>13, Zenon DEF ReconcileRebroadcast, HeadsFail
    <3> QED BY <1>2, <1>3, <2>13, <3>1, ZenonT(30) DEF ReconcileRebroadcast, RowPcs
  <2>14. CASE ReconcileAwait(p)
    <3>1. PICK outcome \in Responses \cup {"pending"} : RGoto(p, outcome)
      BY <2>14, OutcomeKinds, Zenon DEF ReconcileAwait
    <3> QED BY <1>3, <2>14, <3>1, Zenon DEF ReconcileAwait, RowPcs, Responses
  <2> QED BY <1>5, <2>1, <2>2, <2>3, <2>4, <2>5, <2>6, <2>7, <2>8, <2>9, <2>10, <2>11, <2>12, <2>13, <2>14, Zenon
          DEF ReconcileStep, Responses
<1>6. ASSUME NEW p \in Procs, ProcessStep(p) PROVE Goal
  BY <1>1, <1>4, <1>6, Zenon DEF ProcessStep, AcquireLeadership, LoseSession, HeartbeatFails, RefreshReadiness, Admit
<1>7. ASSUME NEW x \in Handlers, HandlerStep(x) PROVE Goal
  BY <1>1, <1>7, HandlerFrame, Zenon
<1>8. ASSUME NEW w \in Workers, WorkerStep(w) PROVE Goal
  BY <1>1, <1>8, WorkerFrame, Zenon
<1>9. CASE ChainStep \/ UNCHANGED vars
  BY <1>1, <1>9, ChainFrame, Zenon
<1> QED BY <1>5, <1>6, <1>7, <1>8, <1>9, Zenon DEF Next

-----------------------------------------------------------------------------
(* Handlers, gates, leadership and faults.                                 *)

LEMMA HandlersStep ==
  ASSUME TypeOK, [Next]_vars
  PROVE  HandlersOK'
<1>0. HandlersOK
  BY Zenon DEF TypeOK, EngineTypeOK
<1>1. ASSUME UNCHANGED handler PROVE HandlersOK'
  BY <1>0, <1>1, Zenon DEF HandlersOK
<1>2. ASSUME NEW p \in Procs, ProcessStep(p) PROVE HandlersOK'
  <2>1. CASE Crash(p)
    BY <1>0, <2>1, Zenon DEF Crash, HandlersOK, IdleHandler
  <2>2. ASSUME NEW x \in Handlers, NEW r \in Requests, Admit(x, p, r) PROVE HandlersOK'
    BY <1>0, <2>2, Zenon DEF Admit, HandlersOK
  <2> QED BY <1>1, <1>2, <2>1, <2>2, Zenon DEF ProcessStep, AcquireLeadership, LoseSession, HeartbeatFails, RefreshReadiness
<1>3. ASSUME NEW x \in Handlers, HandlerStep(x) PROVE HandlersOK'
  <2>1. CASE EndHandler(x)
    BY <1>0, <2>1, Zenon DEF EndHandler, IdleHandler, HandlersOK
  <2>2. CASE handler[x].pc = "claim" /\ handler' = [handler EXCEPT ![x].pc = "resume"]
    BY <1>0, <2>2, Zenon DEF HandlersOK
  <2> QED BY <1>3, <2>1, <2>2, Zenon DEF HandlerStep, Claim, Resume
<1>4. ASSUME NEW w \in Workers, WorkerStep(w) PROVE HandlersOK'
  BY <1>1, <1>4, WorkerFrame, Zenon
<1>5. ASSUME NEW p \in Procs, ReconcileStep(p) PROVE HandlersOK'
  BY <1>1, <1>5, ReconcileFrame, Zenon
<1>6. CASE ChainStep \/ UNCHANGED vars
  BY <1>1, <1>6, ChainFrame, Zenon
<1> QED BY <1>2, <1>3, <1>4, <1>5, <1>6, Zenon DEF Next

LEMMA LeaderStep ==
  ASSUME TypeOK, [Next]_vars
  PROVE  leader' \in Procs \cup {NoProc}
<1>0. leader \in Procs \cup {NoProc}
  BY Zenon DEF TypeOK, EngineTypeOK
<1>1. ASSUME NEW p \in Procs, ProcessStep(p) PROVE leader' \in Procs \cup {NoProc}
  BY <1>0, <1>1, Zenon DEF ProcessStep, AcquireLeadership, LoseSession, HeartbeatFails, RefreshReadiness, Crash, Admit
<1>2. ASSUME NEW x \in Handlers, HandlerStep(x) PROVE leader' = leader
  BY <1>2, HandlerFrame, Zenon
<1>3. ASSUME NEW w \in Workers, WorkerStep(w) PROVE leader' = leader
  BY <1>3, WorkerFrame, Zenon
<1>4. ASSUME NEW p \in Procs, ReconcileStep(p) PROVE leader' = leader
  BY <1>4, ReconcileFrame, Zenon
<1>5. CASE ChainStep \/ UNCHANGED vars
  BY <1>0, <1>5, ChainFrame, Zenon
<1> QED BY <1>0, <1>1, <1>2, <1>3, <1>4, <1>5, Zenon DEF Next

LEMMA FaultsStep ==
  ASSUME TypeOK, [Next]_vars
  PROVE  faults' \in 0..MaxFaults
<1> DEFINE Counted == faults' = faults \/ (faults < MaxFaults /\ faults' = faults + 1)
<1>0. \A kind : Fault(kind) => Counted
  BY Zenon DEF Fault
<1>1. ASSUME NEW p \in Procs, ProcessStep(p) PROVE Counted
  BY <1>0, <1>1, ZenonT(30) DEF ProcessStep, AcquireLeadership, LoseSession, HeartbeatFails, RefreshReadiness, Crash, Admit, NoFault
<1>2. ASSUME NEW x \in Handlers, HandlerStep(x) PROVE Counted
  BY <1>0, <1>2, Zenon DEF HandlerStep, Claim, Resume, SpawnOrStrand, NoFault
<1>3. ASSUME NEW w \in Workers, WorkerStep(w) PROVE Counted
  BY <1>0, <1>3, Zenon DEF WorkerStep, WorkerLock, WorkerVerify, WorkerRetry, WorkerTerminalize, WorkerSign,
       WorkerPrepare, WorkerStore, WorkerRecheck, WorkerQuarantine, WorkerSubmit, WorkerSend, WorkerAwait,
       Terminalize, StoreCall, SignerHeadFails, NoFault
<1>4. ASSUME NEW p \in Procs, ReconcileStep(p) PROVE Counted
  BY <1>0, <1>4, Zenon DEF ReconcileStep, ReconcileBegin, ReconcileScan, ReconcileRelease, ReconcileAbort,
       ReconcileNext, ReconcileRemaining, ReconcileOpen, ReconcileFinalize, ReconcileGiveUp,
       ReconcileStatus, ReconcilePending, ReconcileHeads, ReconcileQuarantine, ReconcileResubmit,
       ReconcileCheck, ReconcileRebroadcast, ReconcileAwait,
       Terminalize, StoreCall, HeadsFail, SignerHeadFails, NoFault
<1>5. ASSUME ChainStep \/ UNCHANGED vars PROVE Counted
  BY <1>0, <1>5, ChainFrame, Zenon
<1>6. Counted
  BY <1>1, <1>2, <1>3, <1>4, <1>5, Zenon DEF Next
<1>7. faults \in 0..MaxFaults
  BY Zenon DEF TypeOK, EngineTypeOK
<1> QED BY <1>6, <1>7, EngineAssumption

Gates == [leadership: BOOLEAN, reconciliation: BOOLEAN, rpc: BOOLEAN, relayer: BOOLEAN]

LEMMA GateStep ==
  ASSUME TypeOK, [Next]_vars
  PROVE  gate' \in [Procs -> Gates]
<1> DEFINE Goal == gate' \in [Procs -> Gates]
<1>0. gate \in [Procs -> Gates] /\ WorkersOK /\ ReconcilesOK
  BY Zenon DEF TypeOK, EngineTypeOK, Gates
<1>1. ASSUME NEW p \in Procs, FailClosed(p) PROVE Goal
  BY <1>0, <1>1, Zenon DEF FailClosed, Gates
<1>2. ASSUME NEW p \in Procs, NEW ready \in BOOLEAN, NEW closes \in BOOLEAN, SetGates(p, ready, closes) PROVE Goal
  BY <1>0, <1>2, ZenonT(30) DEF SetGates, Gates
<1>3. ASSUME NEW p \in Procs, NEW ready \in BOOLEAN, SetRelayer(p, ready) PROVE Goal
  BY <1>0, <1>3, Zenon DEF SetRelayer, Gates
<1>4. ASSUME NEW p \in Procs, NEW closes \in BOOLEAN, SignerHeadFails(p, closes) PROVE Goal
  <2>1. gate[p].relayer \in BOOLEAN
    BY <1>0, Zenon DEF Gates
  <2> QED BY <1>2, <1>4, <2>1, Zenon DEF SignerHeadFails
<1>5. UNCHANGED gate => Goal
  BY <1>0, Zenon
<1>6. ASSUME NEW p \in Procs, ProcessStep(p) PROVE Goal
  <2>1. CASE AcquireLeadership(p)
    BY <1>0, <2>1, Zenon DEF AcquireLeadership, Gates
  <2>2. CASE HeartbeatFails(p)
    BY <1>0, <2>2, Zenon DEF HeartbeatFails, Gates
  <2>3. CASE RefreshReadiness(p)
    <3>1. ASSUME NEW rpc \in BOOLEAN, NEW ready \in BOOLEAN,
                 gate' = [gate EXCEPT ![p].rpc = rpc, ![p].relayer = ready]
          PROVE  Goal
      BY <1>0, <3>1, Zenon DEF Gates
    <3>2. ASSUME NEW rpcReady \in BOOLEAN, NEW signerReady \in BOOLEAN,
                 gate' = [gate EXCEPT ![p].rpc = rpcReady, ![p].relayer = signerReady /\ relayer = "active"]
          PROVE  Goal
      <4>1. (signerReady /\ relayer = "active") \in BOOLEAN
        BY Zenon
      <4> QED BY <3>1, <3>2, <4>1, Zenon
    <3> QED BY <2>3, <3>1, <3>2, Zenon DEF RefreshReadiness
  <2>4. CASE Crash(p)
    BY <1>0, <2>4, Zenon DEF Crash, ClosedGate, Gates
  <2> QED BY <1>5, <1>6, <2>1, <2>2, <2>3, <2>4, Zenon DEF ProcessStep, LoseSession, Admit
<1>7. ASSUME NEW x \in Handlers, HandlerStep(x) PROVE Goal
  BY <1>5, <1>7, HandlerFrame, Zenon
<1>8. ASSUME NEW w \in Workers, WorkerStep(w) PROVE Goal
  <2>1. ~At(w, "idle")
    BY <1>8, Zenon DEF WorkerStep, WorkerLock, WorkerVerify, WorkerRetry, WorkerTerminalize, WorkerSign,
         WorkerPrepare, WorkerStore, WorkerRecheck, WorkerQuarantine, WorkerSubmit, WorkerSend, WorkerAwait,
         At, Responses
  <2>2. worker[w].proc \in Procs
    BY <1>0, <2>1, Zenon DEF WorkersOK
  <2>3. CASE WorkerQuarantine(w)
    BY <1>0, <2>2, <2>3, ZenonT(30) DEF WorkerQuarantine, Gates
  <2>4. CASE WorkerSign(w) \/ WorkerRecheck(w)
    BY <1>2, <1>3, <1>4, <2>2, <2>4, Zenon DEF WorkerSign, WorkerRecheck
  <2>5. CASE WorkerRetry(w) \/ (\E response \in Responses : WorkerTerminalize(w, response))
    BY <1>1, <1>5, <2>2, <2>5, ZenonT(30) DEF WorkerRetry, WorkerTerminalize, Terminalize, StoreCall
  <2>6. CASE WorkerPrepare(w) \/ WorkerSubmit(w)
    BY <1>1, <1>5, <2>2, <2>6, ZenonT(30) DEF WorkerPrepare, WorkerSubmit, WorkerStore, StoreCall
  <2>7. CASE WorkerLock(w) \/ WorkerVerify(w) \/ WorkerSend(w) \/ WorkerAwait(w)
    BY <1>1, <1>5, <2>2, <2>7, ZenonT(30) DEF WorkerLock, WorkerVerify, WorkerSend, WorkerAwait
  <2> QED BY <1>8, <2>3, <2>4, <2>5, <2>6, <2>7, Zenon DEF WorkerStep
<1>9. ASSUME NEW p \in Procs, ReconcileStep(p) PROVE Goal
  <2>1. CASE ReconcileOpen(p)
    <3>1. rc[p].empty \in BOOLEAN
      BY <1>0, Zenon DEF ReconcilesOK, ReconcileCall
    <3> QED BY <1>0, <2>1, <3>1, Zenon DEF ReconcileOpen, Gates
  <2>2. CASE ReconcileHeads(p) \/ ReconcileRebroadcast(p)
    BY <1>3, <1>4, <2>2, ZenonT(30) DEF ReconcileHeads, ReconcileRebroadcast, HeadsFail
  <2>3. CASE ReconcileQuarantine(p)
    BY <1>3, <1>5, <2>3, ZenonT(30) DEF ReconcileQuarantine, StoreCall
  <2>4. CASE ReconcileRelease(p) \/ ReconcileStatus(p)
    BY <1>1, <1>5, <2>4, Zenon DEF ReconcileRelease, ReconcileStatus, StoreCall
  <2>5. ASSUME NEW response, ReconcileFinalize(p, response) \/ ReconcileGiveUp(p, response) PROVE Goal
    BY <1>1, <1>5, <2>5, Zenon DEF ReconcileFinalize, ReconcileGiveUp, Terminalize, StoreCall
  <2>6. CASE \/ ReconcileBegin(p) \/ ReconcileScan(p) \/ ReconcileAbort(p) \/ ReconcileNext(p)
             \/ ReconcileRemaining(p) \/ ReconcilePending(p) \/ ReconcileResubmit(p)
             \/ ReconcileCheck(p) \/ ReconcileAwait(p)
    BY <1>5, <2>6, Zenon DEF ReconcileBegin, ReconcileScan, ReconcileAbort, ReconcileNext, ReconcileRemaining,
         ReconcilePending, ReconcileResubmit, ReconcileCheck, ReconcileAwait
  <2> QED BY <1>9, <2>1, <2>2, <2>3, <2>4, <2>5, <2>6, Zenon DEF ReconcileStep
<1>10. CASE ChainStep \/ UNCHANGED vars
  BY <1>5, <1>10, ChainFrame, Zenon
<1> QED BY <1>6, <1>7, <1>8, <1>9, <1>10, Zenon DEF Next

-----------------------------------------------------------------------------
(* The chain and what reaches it.                                          *)

\* What is sent for the first time or again is journaled and submitted.
LEMMA NetStep ==
  ASSUME RowsInv, TypeOK, TasksInv, JournaledBeforeBroadcast, Stays, [Next]_vars
  PROVE  /\ net \subseteq net'
         /\ net' \subseteq [hash: Hashes, nonce: Nonces]
         /\ JournaledBeforeBroadcast'
<1> DEFINE Backed(t) == /\ t \in [hash: Hashes, nonce: Nonces]
                        /\ rows'[t.hash].nonce = t.nonce
                        /\ rows'[t.hash].state \in {"submitted"} \cup Terminal
<1>0. net \subseteq [hash: Hashes, nonce: Nonces] /\ WorkersOK /\ ReconcilesOK /\ WorkerTasks /\ ReconcileTasks
  BY Zenon DEF TypeOK, EngineTypeOK, TasksInv
<1>1. \A t \in net : Backed(t)
  BY <1>0, ConstantsAssumption, Zenon DEF JournaledBeforeBroadcast, Stays, Sent
<1>2. ASSUME NEW t, t \in net', t \notin net PROVE Backed(t)
  <2>1. ASSUME NEW w \in Workers, WorkerSend(w) PROVE Backed(t)
    <3>1. t = [hash |-> worker[w].hash, nonce |-> worker[w].nonce] /\ worker[w].pc = "send"
      BY <1>2, <2>1, Zenon DEF WorkerSend, At
    <3>2. worker[w].hash \in Hashes /\ worker[w].nonce \in Nonces /\ worker[w].nonce # 0
      BY <1>0, <3>1, ConstantsAssumption, Zenon DEF WorkersOK, At, WorkerTasks
    <3> QED BY <1>0, <3>1, <3>2, Zenon DEF WorkerTasks, Stays, Sent
  <2>2. ASSUME NEW p \in Procs, ReconcileRebroadcast(p) PROVE Backed(t)
    <3>1. t = Submission(rc[p].cur) /\ rc[p].pc = "reheads"
      BY <1>2, <2>2, Zenon DEF ReconcileRebroadcast
    <3>2. rc[p].cur \in Hashes /\ rc[p].cur \in rc[p].prepared \cup rc[p].submitted
      BY <1>0, <3>1, Zenon DEF ReconcilesOK, ReconcileCall, RowPcs
    <3>3. rows[rc[p].cur].nonce # 0 /\ rows[rc[p].cur].nonce \in Nonces
      BY <1>0, <3>2, Zenon DEF ReconcileTasks, RowsInv, JournalTypeOK, Row
    <3> QED BY <1>0, <3>1, <3>2, <3>3, Zenon DEF ReconcileTasks, Stays, Sent, Submission
  <2>3. (\E p \in Procs : ProcessStep(p)) => net' = net
    BY Zenon DEF ProcessStep, chain
  <2>4. (\E x \in Handlers : HandlerStep(x)) => net' = net
    BY HandlerFrame, Zenon DEF chain
  <2>5. ChainStep \/ UNCHANGED vars => net' = net
    BY ChainFrame, Zenon
  <2> QED BY <1>2, <2>1, <2>2, <2>3, <2>4, <2>5, WorkerFrame, ReconcileFrame, Zenon DEF Next
<1>3. net \subseteq net'
  <2>1. \A w : WorkerSend(w) => net \subseteq net'
    BY Zenon DEF WorkerSend
  <2>2. \A p : ReconcileRebroadcast(p) => net \subseteq net'
    BY Zenon DEF ReconcileRebroadcast
  <2>3. (\E p \in Procs : ProcessStep(p)) => net' = net
    BY Zenon DEF ProcessStep, chain
  <2>4. (\E x \in Handlers : HandlerStep(x)) => net' = net
    BY HandlerFrame, Zenon DEF chain
  <2>5. ChainStep \/ UNCHANGED vars => net' = net
    BY ChainFrame, Zenon
  <2> QED BY <2>1, <2>2, <2>3, <2>4, <2>5, WorkerFrame, ReconcileFrame, Zenon DEF Next
<1>4. \A t \in net' : Backed(t)
  BY <1>1, <1>2, Zenon
<1> QED BY <1>3, <1>4, Zenon DEF JournaledBeforeBroadcast

LEMMA ChainTypeStep ==
  ASSUME TypeOK, net \subseteq net', [Next]_vars
  PROVE  /\ final' \subseteq [tx: net', ok: BOOLEAN, at: 1..MaxHeight]
         /\ height' \in 0..MaxHeight
         /\ nonceAt' \in [0..MaxHeight -> {0} \cup Nonces]
<1> DEFINE Goal == /\ final' \subseteq [tx: net', ok: BOOLEAN, at: 1..MaxHeight]
                   /\ height' \in 0..MaxHeight
                   /\ nonceAt' \in [0..MaxHeight -> {0} \cup Nonces]
<1> USE NearAssumption
<1>0. ChainOK
  BY Zenon DEF TypeOK, ChainOK
<1>1. [tx: net, ok: BOOLEAN, at: 1..MaxHeight] \subseteq [tx: net', ok: BOOLEAN, at: 1..MaxHeight]
  BY Zenon
<1>2. ASSUME UNCHANGED <<final, height, nonceAt>> PROVE Goal
  BY <1>0, <1>1, <1>2, Zenon DEF ChainOK
<1>3. ASSUME NEW nonce \in {0} \cup Nonces, height < MaxHeight, height' = height + 1,
             nonceAt' = [b \in 0..MaxHeight |-> IF b > height THEN nonce ELSE nonceAt[b]]
      PROVE  height' \in 0..MaxHeight /\ nonceAt' \in [0..MaxHeight -> {0} \cup Nonces]
  BY <1>0, <1>3 DEF ChainOK
<1>4. nonceAt[height] \in {0} \cup Nonces
  BY <1>0, Zenon DEF ChainOK
<1>5. ASSUME NEW t \in net, NEW ok \in BOOLEAN, MineSubmission(t, ok) PROVE Goal
  <2>1. t.nonce \in Nonces
    BY <1>0, Zenon DEF ChainOK
  <2>2. height' \in 0..MaxHeight /\ nonceAt' \in [0..MaxHeight -> {0} \cup Nonces]
    BY <1>3, <1>5, <2>1, Zenon DEF MineSubmission, NextBlock
  <2>3. height + 1 \in 1..MaxHeight
    <3>1. height \in Nat /\ height < MaxHeight
      BY <1>0, <1>5 DEF ChainOK, MineSubmission, NextBlock
    <3> QED BY <3>1
  <2>4. [tx |-> t, ok |-> ok, at |-> height + 1] \in [tx: net', ok: BOOLEAN, at: 1..MaxHeight]
    BY <2>3, Zenon
  <2>5. final' = final \cup {[tx |-> t, ok |-> ok, at |-> height + 1]}
    BY <1>5, Zenon DEF MineSubmission
  <2> QED BY <1>0, <1>1, <2>2, <2>4, <2>5, Zenon DEF ChainOK
<1>6. CASE MineForeign \/ MineEmpty
  <2>1. height' \in 0..MaxHeight /\ nonceAt' \in [0..MaxHeight -> {0} \cup Nonces]
    BY <1>3, <1>4, <1>6, Zenon DEF MineForeign, MineEmpty, NextBlock
  <2>2. final' = final
    BY <1>6, Zenon DEF MineForeign, MineEmpty
  <2> QED BY <1>0, <1>1, <2>1, <2>2, Zenon DEF ChainOK
<1>7. ASSUME NEW p \in Procs, ProcessStep(p) \/ ReconcileStep(p) PROVE Goal
  BY <1>2, <1>7, ReconcileFrame, Zenon DEF ProcessStep, chain
<1>8. ASSUME NEW w \in Workers, WorkerStep(w) PROVE Goal
  BY <1>2, <1>8, WorkerFrame, Zenon
<1>9. CASE (\E x \in Handlers : HandlerStep(x)) \/ UNCHANGED vars
  BY <1>2, <1>9, HandlerFrame, Zenon DEF vars, chain
<1> QED BY <1>5, <1>6, <1>7, <1>8, <1>9, Zenon DEF Next, ChainStep

-----------------------------------------------------------------------------
(* The theorems.                                                           *)

\* The inductive invariant of the engine.
EngineInv == RowsInv /\ TypeOK /\ TasksInv /\ JournaledBeforeBroadcast

LEMMA EngineInitInv == Init => EngineInv
<1> SUFFICES ASSUME Init PROVE EngineInv
  BY Zenon
<1> USE ConstantsAssumption, EngineAssumption, NearAssumption DEF Init, EngineInit
<1>1. RowsInv
  BY RowsInit, Zenon
<1>2. WorkersOK /\ WorkerTasks
  BY Zenon DEF WorkersOK, WorkerTasks, At, IdleWorker
<1>3. HandlersOK
  BY Zenon DEF HandlersOK, IdleHandler
<1>4. ReconcilesOK /\ ReconcileTasks
  BY Zenon DEF ReconcilesOK, ReconcileCall, ReconcileTasks, IdleRc, RcPcs, RowPcs, Responses
<1>5. gate \in [Procs -> [leadership: BOOLEAN, reconciliation: BOOLEAN, rpc: BOOLEAN, relayer: BOOLEAN]]
  BY Zenon DEF ClosedGate
<1>6. EngineTypeOK
  BY <1>2, <1>3, <1>4, <1>5 DEF EngineTypeOK
<1>7. net = {} /\ final = {} /\ height \in 0..MaxHeight /\ nonceAt \in [0..MaxHeight -> {0} \cup Nonces]
  BY DEF ChainInit
<1>8. ChainOK /\ JournaledBeforeBroadcast
  BY <1>7, Zenon DEF ChainOK, JournaledBeforeBroadcast
<1> QED BY <1>1, <1>2, <1>4, <1>6, <1>8, Zenon DEF EngineInv, RowsInv, TypeOK, TasksInv, ChainOK

LEMMA EngineInvStep == EngineInv /\ [Next]_vars => EngineInv'
<1> SUFFICES ASSUME EngineInv, [Next]_vars PROVE EngineInv'
  BY Zenon
<1>0. RowsInv /\ TypeOK /\ TasksInv /\ JournaledBeforeBroadcast
  BY Zenon DEF EngineInv
<1>1. RowsInv' /\ Stays
  BY <1>0, JournalKeeps, Zenon
<1>2. WorkersOK' /\ WorkerTasks'
  BY <1>0, <1>1, WorkersStep, Zenon
<1>3. ReconcilesOK' /\ ReconcileTasks'
  BY <1>0, <1>1, ReconcilesStep, Zenon
<1>4. HandlersOK' /\ leader' \in Procs \cup {NoProc} /\ faults' \in 0..MaxFaults /\ gate' \in [Procs -> Gates]
  BY <1>0, HandlersStep, LeaderStep, FaultsStep, GateStep, Zenon
<1>5. net \subseteq net' /\ net' \subseteq [hash: Hashes, nonce: Nonces] /\ JournaledBeforeBroadcast'
  BY <1>0, <1>1, NetStep, Zenon
<1>6. /\ final' \subseteq [tx: net', ok: BOOLEAN, at: 1..MaxHeight]
      /\ height' \in 0..MaxHeight
      /\ nonceAt' \in [0..MaxHeight -> {0} \cup Nonces]
  BY <1>0, <1>5, ChainTypeStep, Zenon
<1>7. EngineTypeOK'
  BY <1>2, <1>3, <1>4, Zenon DEF EngineTypeOK, Gates
<1>8. TypeOK'
  BY <1>1, <1>5, <1>6, <1>7, Zenon DEF TypeOK, RowsInv
<1> QED BY <1>1, <1>2, <1>3, <1>5, <1>8, Zenon DEF EngineInv, TasksInv

\* The state of the engine is well-formed in every reachable state: a running
\* task belongs to a process and to a payment, a reconcile step past the scan
\* works on a row of its snapshot, and only signed nonces reach the chain.
THEOREM EngineTypeCorrect == Spec => []TypeOK
<1>1. EngineInv => TypeOK
  BY Zenon DEF EngineInv
<1> QED BY <1>1, EngineInitInv, EngineInvStep, PTL DEF Spec

\* However many processes, workers and reconcile calls run, and whatever
\* crashes, store errors and lost acknowledgements occur, nothing reaches the
\* network before its row durably says submitted with exactly that nonce
\* (run_new_settlement, reconcile_prepared).
THEOREM BroadcastIsJournaled == Spec => []JournaledBeforeBroadcast
<1>1. EngineInv => JournaledBeforeBroadcast
  BY Zenon DEF EngineInv
<1> QED BY <1>1, EngineInitInv, EngineInvStep, PTL DEF Spec

\* The engine implements the journal: every step of every task of every
\* process is one transaction of store.rs or leaves the journal alone, so all
\* theorems about the journal hold of the engine.
THEOREM EngineImplementsJournal == Spec => JournalSpec
<1>1. Init => JournalInit
  BY Zenon DEF Init, EngineInit
<1>2. EngineInv /\ [Next]_vars => [JournalNext]_jvars
  BY EngineUsesJournal, Zenon DEF EngineInv
<1> QED BY <1>1, <1>2, EngineInitInv, EngineInvStep, PTL DEF Spec, JournalSpec

-----------------------------------------------------------------------------
(* How the tasks and the gate can change.                                  *)

\* A worker takes the mutex by WorkerLock, and keeps its process and payment.
LEMMA HoldsFrame ==
  ASSUME TypeOK, [Next]_vars, NEW w \in Workers, Holds(w)'
  PROVE  /\ worker'[w].proc = worker[w].proc
         /\ worker'[w].hash = worker[w].hash
         /\ Holds(w) \/ WorkerLock(w)
         /\ worker'[w] = worker[w] \/ WorkerStep(w)
<1>0. WorkersOK /\ HandlersOK
  BY Zenon DEF TypeOK, EngineTypeOK
<1> DEFINE Goal == /\ worker'[w].proc = worker[w].proc
                   /\ worker'[w].hash = worker[w].hash
                   /\ Holds(w) \/ WorkerLock(w)
                   /\ worker'[w] = worker[w] \/ WorkerStep(w)
<1>1. ASSUME worker'[w] = worker[w] PROVE Goal
  BY <1>1, Zenon DEF Holds
<1>2. ASSUME NEW v \in Workers, WorkerStep(v), v # w PROVE worker'[w] = worker[w]
  <2>1. \/ UNCHANGED worker \/ EndWorker(v) \/ \E pc : Goto(v, pc)
        \/ \E n : worker' = [worker EXCEPT ![v].pc = "prepare", ![v].nonce = n]
    BY <1>2, Zenon DEF WorkerStep, WorkerLock, WorkerVerify, WorkerRetry, WorkerTerminalize, WorkerSign,
         WorkerPrepare, WorkerStore, WorkerRecheck, WorkerQuarantine, WorkerSubmit, WorkerSend,
         WorkerAwait, StoreCall
  <2> QED BY <1>0, <1>2, <2>1, Zenon DEF EndWorker, Goto, WorkersOK
<1>3. ASSUME WorkerStep(w) PROVE Goal
  <2>1. \/ EndWorker(w) \/ \E pc : Goto(w, pc)
        \/ \E n : worker' = [worker EXCEPT ![w].pc = "prepare", ![w].nonce = n]
    BY <1>3, Zenon DEF WorkerStep, WorkerLock, WorkerVerify, WorkerRetry, WorkerTerminalize, WorkerSign,
         WorkerPrepare, WorkerStore, WorkerRecheck, WorkerQuarantine, WorkerSubmit, WorkerSend,
         WorkerAwait, StoreCall
  <2>2. ~EndWorker(w)
    BY <1>0 DEF EndWorker, IdleWorker, Holds, WorkersOK
  <2>3. worker'[w].proc = worker[w].proc /\ worker'[w].hash = worker[w].hash
    BY <1>0, <2>1, <2>2 DEF Goto, WorkersOK
  <2>4. Holds(w) \/ WorkerLock(w)
    BY <1>3, Zenon DEF WorkerStep, WorkerVerify, WorkerRetry, WorkerTerminalize, WorkerSign,
         WorkerPrepare, WorkerRecheck, WorkerQuarantine, WorkerSubmit, WorkerSend, WorkerAwait,
         At, Holds, Responses
  <2> QED BY <1>3, <2>3, <2>4, Zenon
<1>4. ASSUME NEW x \in Handlers, HandlerStep(x) PROVE worker'[w] = worker[w]
  <2>1. UNCHANGED worker \/ \E p, h : Spawn(p, h)
    BY <1>4, Zenon DEF HandlerStep, Claim, Resume, SpawnOrStrand
  <2>2. ASSUME NEW p, NEW h, Spawn(p, h) PROVE worker'[w] = worker[w]
    <3>1. PICK v \in Workers :
            worker' = [worker EXCEPT ![v] = [pc |-> "queued", proc |-> p, hash |-> h, nonce |-> 0]]
      BY <2>2, Zenon DEF Spawn
    <3> QED BY <1>0, <3>1, Zenon DEF WorkersOK, Holds
  <2> QED BY <2>1, <2>2, Zenon
<1>5. ASSUME NEW p \in Procs, ProcessStep(p) PROVE worker'[w] = worker[w]
  <2>1. CASE Crash(p)
    BY <1>0, <2>1, Zenon DEF Crash, Holds, IdleWorker
  <2> QED BY <1>5, <2>1, Zenon DEF ProcessStep, AcquireLeadership, LoseSession, HeartbeatFails, RefreshReadiness, Admit
<1>6. ASSUME NEW p \in Procs, ReconcileStep(p) PROVE worker'[w] = worker[w]
  BY <1>6, ReconcileFrame, Zenon
<1>7. CASE ChainStep \/ UNCHANGED vars
  BY <1>1, <1>7, ChainFrame, Zenon
<1> QED BY <1>1, <1>2, <1>3, <1>4, <1>5, <1>6, <1>7, Zenon DEF Next

\* A reconcile step changes the call of its own process.
LEMMA ReconcileChanges ==
  ASSUME ReconcilesOK, NEW p \in Procs, ReconcileStep(p)
  PROVE  \E r : rc' = [rc EXCEPT ![p] = r]
<1> DEFINE Goal == \E r : rc' = [rc EXCEPT ![p] = r]
<1>1. ASSUME NEW r, rc' = [rc EXCEPT ![p] = r] PROVE Goal
  BY <1>1, Zenon
<1>2. ASSUME EndReconcile(p) \/ Resolved(p) \/ StopAt(p) PROVE Goal
  BY <1>2, Zenon DEF EndReconcile, Resolved, StopAt
<1>3. ASSUME NEW pc, RGoto(p, pc) PROVE Goal
  <2>1. rc' = [rc EXCEPT ![p] = [rc[p] EXCEPT !["pc"] = pc]]
    BY <1>3, Zenon DEF RGoto, SetRc
  <2> QED BY <2>1, Zenon
<1>4. CASE ReconcileBegin(p) \/ ReconcileScan(p) \/ ReconcileRemaining(p)
  BY <1>4, Zenon DEF ReconcileBegin, ReconcileScan, ReconcileRemaining, EndReconcile
<1>5. CASE ReconcileRelease(p) \/ ReconcileNext(p)
  BY <1>5, Zenon DEF ReconcileRelease, ReconcileNext, SetRc
<1>6. CASE ReconcileAbort(p) \/ ReconcileOpen(p) \/ ReconcileQuarantine(p)
  BY <1>2, <1>6, Zenon DEF ReconcileAbort, ReconcileOpen, ReconcileQuarantine
<1>7. ASSUME NEW response, ReconcileFinalize(p, response) \/ ReconcileGiveUp(p, response) PROVE Goal
  <2>1. EndReconcile(p) \/ Proceed(p)
    BY <1>7, Zenon DEF ReconcileFinalize, ReconcileGiveUp, Terminalize, StoreCall
  <2> QED BY <1>2, <2>1, Zenon DEF Proceed
<1>8. CASE ReconcileStatus(p) \/ ReconcileAwait(p) \/ ReconcileCheck(p)
  BY <1>2, <1>3, <1>8, Zenon DEF ReconcileStatus, ReconcileAwait, ReconcileCheck
<1>9. CASE ReconcilePending(p)
  BY <1>2, <1>9, Zenon DEF ReconcilePending, Proceed
<1>10. CASE ReconcileHeads(p)
  BY <1>2, <1>3, <1>10, Zenon DEF ReconcileHeads, HeadsFail
<1>11. CASE ReconcileRebroadcast(p) \/ ReconcileResubmit(p)
  BY <1>2, <1>3, <1>11, Zenon DEF ReconcileRebroadcast, ReconcileResubmit, HeadsFail, StoreCall
<1> QED BY <1>4, <1>5, <1>6, <1>7, <1>8, <1>9, <1>10, <1>11, Zenon DEF ReconcileStep

\* A scan starts with the reserved rows, or fails.
LEMMA ScanGoes ==
  ASSUME ReconcilesOK, NEW p \in Procs, ReconcileScan(p)
  PROVE  rc'[p].pc \in {"release", "idle"}
<1>1. CASE EndReconcile(p)
  BY <1>1, Zenon DEF EndReconcile, IdleRc, ReconcilesOK
<1>2. CASE rc' = [rc EXCEPT ![p] = [IdleRc EXCEPT !.pc = "release",
               !.reserved = RowsIn({"reserved"}),
               !.prepared = RowsIn({"prepared"}),
               !.submitted = RowsIn({"submitted"})]]
  BY <1>2, Zenon DEF IdleRc, ReconcilesOK
<1> QED BY <1>1, <1>2, Zenon DEF ReconcileScan

\* Only ReconcileRemaining makes a call ready to open the gate, and only a
\* status query, the signer heads or a rebroadcast give a verdict on its row.
LEMMA ReconcileGoes ==
  ASSUME ReconcilesOK, NEW p \in Procs, ReconcileStep(p)
  PROVE  /\ rc'[p].pc = "open" => ReconcileRemaining(p)
         /\ rc'[p].pc \in Responses =>
              /\ rc'[p].cur = rc[p].cur
              /\ ReconcileStatus(p) \/ ReconcileHeads(p) \/ ReconcileAwait(p)
<1> DEFINE Goal == /\ rc'[p].pc = "open" => ReconcileRemaining(p)
                   /\ rc'[p].pc \in Responses =>
                        /\ rc'[p].cur = rc[p].cur
                        /\ ReconcileStatus(p) \/ ReconcileHeads(p) \/ ReconcileAwait(p)
<1>1. ASSUME rc'[p].pc \notin Responses \cup {"open"} PROVE Goal
  BY <1>1, Zenon
<1>2a. ASSUME EndReconcile(p) \/ Resolved(p) \/ StopAt(p)
       PROVE  rc'[p].pc \in {"idle", "release", "finish"}
  <2>1. CASE EndReconcile(p)
    BY <2>1, Zenon DEF EndReconcile, IdleRc, ReconcilesOK
  <2>2. CASE Resolved(p)
    BY <2>2, Zenon DEF Resolved, IdleRc, ReconcilesOK
  <2>3. CASE StopAt(p)
    BY <2>3, Zenon DEF StopAt, IdleRc, ReconcilesOK
  <2> QED BY <1>2a, <2>1, <2>2, <2>3, Zenon
<1>2. ASSUME EndReconcile(p) \/ Resolved(p) \/ StopAt(p) PROVE Goal
  BY <1>1, <1>2, <1>2a, Zenon DEF Responses
<1>3. ASSUME NEW pc, RGoto(p, pc) PROVE rc'[p].pc = pc /\ rc'[p].cur = rc[p].cur
  BY <1>3, Zenon DEF RGoto, SetRc, ReconcilesOK, ReconcileCall
<1>4. ASSUME NEW pc, RGoto(p, pc), pc \notin Responses \cup {"open"} PROVE Goal
  BY <1>1, <1>3, <1>4, Zenon
<1>5. CASE ReconcileBegin(p)
  <2>1. rc'[p].pc = "queued"
    BY <1>5, Zenon DEF ReconcileBegin, ReconcilesOK, ReconcileCall
  <2> QED BY <1>1, <2>1, Zenon DEF Responses
<1>6. CASE ReconcileScan(p)
  BY <1>1, <1>6, ScanGoes, Zenon DEF Responses
<1>7. CASE ReconcileRelease(p)
  <2>1. PICK h \in rc[p].reserved : rc' = [rc EXCEPT ![p]["reserved"] = rc[p].reserved \ {h}]
    BY <1>7, Zenon DEF ReconcileRelease, SetRc
  <2>2. rc'[p].pc = "release"
    BY <1>7, <2>1, Zenon DEF ReconcileRelease, ReconcilesOK, ReconcileCall
  <2> QED BY <1>1, <2>2, Zenon DEF Responses
<1>8. CASE ReconcileNext(p)
  <2>1. rc'[p].pc = "status"
    BY <1>8, Zenon DEF ReconcileNext, ReconcilesOK, ReconcileCall
  <2> QED BY <1>1, <2>1, Zenon DEF Responses
<1>9. CASE ReconcileRemaining(p)
  <2>1. rc'[p].pc = "open"
    BY <1>9, Zenon DEF ReconcileRemaining, ReconcilesOK, IdleRc
  <2> QED BY <1>9, <2>1, Zenon DEF Responses
<1>10. CASE ReconcileAbort(p) \/ ReconcileOpen(p) \/ ReconcileQuarantine(p)
  BY <1>2, <1>10, Zenon DEF ReconcileAbort, ReconcileOpen, ReconcileQuarantine
<1>11. ASSUME NEW response, ReconcileFinalize(p, response) \/ ReconcileGiveUp(p, response) PROVE Goal
  <2>1. EndReconcile(p) \/ Proceed(p)
    BY <1>11, Zenon DEF ReconcileFinalize, ReconcileGiveUp, Terminalize, StoreCall
  <2> QED BY <1>2, <2>1, Zenon DEF Proceed
<1>12. CASE ReconcileStatus(p)
  <2>0. \A verdict \in StatusTerminal(Submission(rc[p].cur)) : verdict \in Responses
    BY Zenon DEF StatusTerminal, Verdict, Responses
  <2>1. EndReconcile(p) \/ \E pc \in Responses \cup {"heads", "pending"} : RGoto(p, pc)
    BY <1>12, <2>0, Zenon DEF ReconcileStatus
  <2>2. CASE EndReconcile(p)
    BY <1>2, <2>2, Zenon
  <2>3. ASSUME NEW pc \in Responses \cup {"heads", "pending"}, RGoto(p, pc) PROVE Goal
    BY <1>3, <1>12, <2>3, Zenon DEF Responses
  <2> QED BY <2>1, <2>2, <2>3, Zenon
<1>13. CASE ReconcileAwait(p)
  <2>1. PICK pc \in Responses \cup {"pending"} : RGoto(p, pc)
    BY <1>13, OutcomeKinds, Zenon DEF ReconcileAwait
  <2> QED BY <1>3, <1>13, <2>1, Zenon DEF Responses
<1>14. CASE ReconcileCheck(p)
  BY <1>2, <1>4, <1>14, Zenon DEF ReconcileCheck, Responses
<1>15. CASE ReconcilePending(p)
  BY <1>2, <1>15, Zenon DEF ReconcilePending, Proceed
<1>16. CASE ReconcileHeads(p)
  <2>1. \/ EndReconcile(p) \/ RGoto(p, "quarantine") \/ RGoto(p, "protocol_failure")
        \/ \E m, n : rc' = [rc EXCEPT ![p].pc = "resubmit", ![p].primary = m, ![p].backup = n]
    BY <1>16, Zenon DEF ReconcileHeads, HeadsFail
  <2>2. CASE EndReconcile(p)
    BY <1>2, <2>2, Zenon
  <2>3. CASE RGoto(p, "quarantine") \/ RGoto(p, "protocol_failure")
    <3>1. CASE RGoto(p, "quarantine")
      BY <1>4, <3>1, Zenon DEF Responses
    <3>2. CASE RGoto(p, "protocol_failure")
      <4>1. rc'[p].pc = "protocol_failure" /\ rc'[p].cur = rc[p].cur
        BY <1>3, <3>2, Zenon
      <4>2. rc'[p].pc # "open"
        BY <4>1, Zenon
      <4> QED BY <1>16, <4>1, <4>2, Zenon
    <3> QED BY <2>3, <3>1, <3>2, Zenon
  <2>4. ASSUME NEW m, NEW n, rc' = [rc EXCEPT ![p].pc = "resubmit", ![p].primary = m, ![p].backup = n]
        PROVE  Goal
    <3>1. rc'[p].pc = "resubmit"
      BY <2>4, Zenon DEF ReconcilesOK, ReconcileCall
    <3> QED BY <1>1, <3>1, Zenon DEF Responses
  <2> QED BY <2>1, <2>2, <2>3, <2>4, Zenon
<1>17. CASE ReconcileRebroadcast(p) \/ ReconcileResubmit(p)
  <2>1. EndReconcile(p) \/ RGoto(p, "await") \/ RGoto(p, "check")
    BY <1>17, Zenon DEF ReconcileRebroadcast, ReconcileResubmit, HeadsFail, StoreCall
  <2> QED BY <1>2, <1>4, <2>1, Zenon DEF Responses
<1> QED BY <1>5, <1>6, <1>7, <1>8, <1>9, <1>10, <1>11, <1>12, <1>13, <1>14, <1>15, <1>16, <1>17, Zenon
        DEF ReconcileStep

\* A call changes by its own steps, and is gone after a crash.
LEMMA CallFrame ==
  ASSUME TypeOK, [Next]_vars, NEW p \in Procs
  PROVE  rc'[p] = rc[p] \/ rc'[p] = IdleRc \/ ReconcileStep(p)
<1>0. ReconcilesOK
  BY Zenon DEF TypeOK, EngineTypeOK
<1>1. ASSUME NEW q \in Procs, ReconcileStep(q), q # p PROVE rc'[p] = rc[p]
  <2>1. \E r : rc' = [rc EXCEPT ![q] = r]
    BY <1>0, <1>1, ReconcileChanges, Zenon
  <2> QED BY <1>0, <1>1, <2>1, Zenon DEF ReconcilesOK
<1>2. ASSUME NEW q \in Procs, ProcessStep(q) PROVE rc'[p] = rc[p] \/ rc'[p] = IdleRc
  <2>1. CASE Crash(q)
    BY <1>0, <2>1, Zenon DEF Crash, ReconcilesOK
  <2> QED BY <1>2, <2>1, Zenon DEF ProcessStep, AcquireLeadership, LoseSession, HeartbeatFails, RefreshReadiness, Admit
<1>3. ASSUME NEW x \in Handlers, HandlerStep(x) PROVE rc'[p] = rc[p]
  BY <1>3, HandlerFrame, Zenon
<1>4. ASSUME NEW w \in Workers, WorkerStep(w) PROVE rc'[p] = rc[p]
  BY <1>4, WorkerFrame, Zenon
<1>5. CASE ChainStep \/ UNCHANGED vars
  BY <1>5, ChainFrame, Zenon
<1> QED BY <1>1, <1>2, <1>3, <1>4, <1>5, Zenon DEF Next

\* A process starts to hold the mutex for a reconcile call by ReconcileScan,
\* and a call is about to open the gate after ReconcileRemaining only.
LEMMA ReconcilingFrame ==
  ASSUME TypeOK, [Next]_vars, NEW p \in Procs
  PROVE  /\ Reconciling(p)' => Reconciling(p) \/ ReconcileScan(p)
         /\ rc'[p].pc = "open" => rc'[p] = rc[p] \/ ReconcileRemaining(p)
<1> DEFINE Goal == /\ Reconciling(p)' => Reconciling(p) \/ ReconcileScan(p)
                   /\ rc'[p].pc = "open" => rc'[p] = rc[p] \/ ReconcileRemaining(p)
<1>0. ReconcilesOK
  BY Zenon DEF TypeOK, EngineTypeOK
<1>1. ASSUME rc'[p] = rc[p] PROVE Goal
  BY <1>1, Zenon DEF Reconciling
<1>2. ASSUME ReconcileStep(p) PROVE Goal
  <2>1. CASE ReconcileBegin(p)
    BY <1>0, <2>1, Zenon DEF ReconcileBegin, Reconciling, ReconcilesOK, ReconcileCall
  <2>2. CASE ReconcileScan(p)
    BY <1>0, <2>2, ScanGoes, Zenon
  <2>3. CASE ReconcileRemaining(p)
    BY <2>3, Zenon DEF ReconcileRemaining, Reconciling
  <2>4. ASSUME Reconciling(p), rc'[p].pc # "open" PROVE Goal
    BY <2>4, Zenon
  <2>5. CASE ~ReconcileBegin(p) /\ ~ReconcileScan(p) /\ ~ReconcileRemaining(p)
    <3>1. Reconciling(p)
      BY <1>2, <2>5, Zenon DEF ReconcileStep, ReconcileRelease, ReconcileAbort,
           ReconcileNext, ReconcileOpen, ReconcileFinalize, ReconcileGiveUp,
           ReconcileStatus, ReconcilePending, ReconcileHeads, ReconcileQuarantine, ReconcileResubmit,
           ReconcileCheck, ReconcileRebroadcast, ReconcileAwait, Reconciling
    <3>2. rc'[p].pc # "open"
      BY <1>0, <1>2, <2>5, ReconcileGoes, Zenon
    <3> QED BY <2>4, <3>1, <3>2, Zenon
  <2> QED BY <2>1, <2>2, <2>3, <2>5, Zenon
<1>3. CASE rc'[p] = IdleRc
  <2>1. rc'[p].pc = "idle"
    BY <1>3 DEF IdleRc
  <2> QED BY <2>1, Zenon DEF Reconciling
<1> QED BY <1>1, <1>2, <1>3, CallFrame, Zenon

\* Only ReconcileOpen opens the reconciliation gate, when it found nothing.
LEMMA GateOpens ==
  ASSUME TypeOK, [Next]_vars, NEW p \in Procs, gate'[p].reconciliation
  PROVE  gate[p].reconciliation \/ (ReconcileOpen(p) /\ rc[p].empty)
<1> DEFINE Kept == gate'[p].reconciliation => gate[p].reconciliation
           Goal == gate[p].reconciliation \/ (ReconcileOpen(p) /\ rc[p].empty)
<1>0. gate \in [Procs -> Gates] /\ WorkersOK /\ ReconcilesOK
  BY Zenon DEF TypeOK, EngineTypeOK, Gates
<1>1. ASSUME NEW q \in Procs, FailClosed(q) PROVE Kept
  BY <1>0, <1>1, Zenon DEF FailClosed, Gates
<1>2. ASSUME NEW q \in Procs, NEW ready, NEW closes, SetGates(q, ready, closes) PROVE Kept
  BY <1>0, <1>2, Zenon DEF SetGates, Gates
<1>3. ASSUME NEW q \in Procs, NEW ready, SetRelayer(q, ready) PROVE Kept
  BY <1>0, <1>3, Zenon DEF SetRelayer, Gates
<1>4. ASSUME NEW q \in Procs, NEW closes, SignerHeadFails(q, closes) PROVE Kept
  BY <1>2, <1>4, Zenon DEF SignerHeadFails
<1>5. UNCHANGED gate => Kept
  BY Zenon
<1>6. ASSUME NEW q \in Procs, ProcessStep(q) PROVE Kept
  <2>1. CASE AcquireLeadership(q)
    BY <1>0, <2>1, Zenon DEF AcquireLeadership, Gates
  <2>2. CASE HeartbeatFails(q)
    BY <1>0, <2>2, Zenon DEF HeartbeatFails, Gates
  <2>3. CASE RefreshReadiness(q)
    <3>1. \E m, n : gate' = [gate EXCEPT ![q].rpc = m, ![q].relayer = n]
      BY <2>3, Zenon DEF RefreshReadiness
    <3> QED BY <1>0, <3>1, Zenon DEF Gates
  <2>4. CASE Crash(q)
    BY <1>0, <2>4, Zenon DEF Crash, ClosedGate, Gates
  <2> QED BY <1>5, <1>6, <2>1, <2>2, <2>3, <2>4, Zenon DEF ProcessStep, LoseSession, Admit
<1>7. ASSUME NEW x \in Handlers, HandlerStep(x) PROVE Kept
  BY <1>5, <1>7, HandlerFrame, Zenon
<1>8. ASSUME NEW w \in Workers, WorkerStep(w) PROVE Kept
  <2>1. ~At(w, "idle")
    BY <1>8, Zenon DEF WorkerStep, WorkerLock, WorkerVerify, WorkerRetry, WorkerTerminalize, WorkerSign,
         WorkerPrepare, WorkerStore, WorkerRecheck, WorkerQuarantine, WorkerSubmit, WorkerSend, WorkerAwait,
         At, Responses
  <2>2. worker[w].proc \in Procs
    BY <1>0, <2>1, Zenon DEF WorkersOK
  <2>3. CASE WorkerQuarantine(w)
    BY <1>0, <2>2, <2>3, Zenon DEF WorkerQuarantine, Gates
  <2>4. CASE WorkerSign(w) \/ WorkerRecheck(w)
    BY <1>2, <1>3, <1>4, <2>2, <2>4, Zenon DEF WorkerSign, WorkerRecheck
  <2>5. CASE WorkerRetry(w) \/ (\E response \in Responses : WorkerTerminalize(w, response))
    BY <1>1, <1>5, <2>2, <2>5, Zenon DEF WorkerRetry, WorkerTerminalize, Terminalize, StoreCall
  <2>6. CASE WorkerPrepare(w) \/ WorkerSubmit(w)
    BY <1>1, <1>5, <2>2, <2>6, Zenon DEF WorkerPrepare, WorkerSubmit, WorkerStore, StoreCall
  <2>7. CASE WorkerLock(w) \/ WorkerVerify(w) \/ WorkerSend(w) \/ WorkerAwait(w)
    BY <1>1, <1>5, <2>2, <2>7, Zenon DEF WorkerLock, WorkerVerify, WorkerSend, WorkerAwait
  <2> QED BY <1>8, <2>3, <2>4, <2>5, <2>6, <2>7, Zenon DEF WorkerStep
<1>9. ASSUME NEW q \in Procs, ReconcileStep(q) PROVE Goal
  <2>1. CASE ReconcileOpen(q)
    <3>1. CASE q = p
      BY <1>0, <2>1, <3>1, Zenon DEF ReconcileOpen, Gates
    <3>2. CASE q # p
      BY <1>0, <2>1, <3>2, Zenon DEF ReconcileOpen, Gates
    <3> QED BY <3>1, <3>2, Zenon
  <2>2. CASE ReconcileHeads(q) \/ ReconcileRebroadcast(q)
    BY <1>3, <1>4, <2>2, Zenon DEF ReconcileHeads, ReconcileRebroadcast, HeadsFail
  <2>3. CASE ReconcileQuarantine(q)
    BY <1>3, <1>5, <2>3, Zenon DEF ReconcileQuarantine, StoreCall
  <2>4. CASE ReconcileRelease(q) \/ ReconcileStatus(q)
    BY <1>1, <1>5, <2>4, Zenon DEF ReconcileRelease, ReconcileStatus, StoreCall
  <2>5. ASSUME NEW response, ReconcileFinalize(q, response) \/ ReconcileGiveUp(q, response) PROVE Goal
    BY <1>1, <1>5, <2>5, Zenon DEF ReconcileFinalize, ReconcileGiveUp, Terminalize, StoreCall
  <2>6. CASE \/ ReconcileBegin(q) \/ ReconcileScan(q) \/ ReconcileAbort(q) \/ ReconcileNext(q)
             \/ ReconcileRemaining(q) \/ ReconcilePending(q) \/ ReconcileResubmit(q)
             \/ ReconcileCheck(q) \/ ReconcileAwait(q)
    BY <1>5, <2>6, Zenon DEF ReconcileBegin, ReconcileScan, ReconcileAbort, ReconcileNext, ReconcileRemaining,
         ReconcilePending, ReconcileResubmit, ReconcileCheck, ReconcileAwait
  <2> QED BY <1>9, <2>1, <2>2, <2>3, <2>4, <2>5, <2>6, Zenon DEF ReconcileStep
<1>10. ASSUME ChainStep \/ UNCHANGED vars PROVE Kept
  BY <1>5, <1>10, ChainFrame, Zenon
<1> QED BY <1>6, <1>7, <1>8, <1>9, <1>10, Zenon DEF Next
=============================================================================
