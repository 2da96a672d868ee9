---------------------------- MODULE EvmInvariants ----------------------------
(***************************************************************************)
(* The inductive invariants of the eip155 settlement engine, and the forms *)
(* that its steps take.                                                    *)
(*                                                                         *)
(* The chain keeps what lies deeper than a reorganisation reaches          *)
(* (ChainInv).  LookInv follows the reads of reconcile_with_confirmations: *)
(* each of them may be old when the next is made, and together they still  *)
(* show a transaction that stays (Buried).  GateInv, PolicyInv and         *)
(* DepthInv hold when one process serves the journal.  WorkerMoves and     *)
(* CallMoves say how a step changes a worker and a reconcile call,         *)
(* EngineWrites what it writes to the journal, RowMoves how that changes   *)
(* a row.                                                                  *)
(***************************************************************************)
EXTENDS EvmEngine

Unresolved == {"prepared", "submitted"}

\* A row that may have been broadcast.
Sent(h) == rows[h].state \in {"submitted"} \cup Terminal

-----------------------------------------------------------------------------
(* The tasks.                                                              *)

\* A signed worker knows the nonce it signed with; once its row is prepared
\* the row has that nonce, and a worker about to send has marked it submitted.
WorkerTasks ==
  \A w \in Workers :
    /\ worker[w].pc \in {"prepare", "submit", "recheck"} => worker[w].nonce \in Nonces
    /\ worker[w].pc \in {"submit", "recheck"} => rows[worker[w].hash].nonce = worker[w].nonce
    /\ worker[w].pc = "recheck" => Sent(worker[w].hash)

\* The rows a reconcile call took for signed are signed, the ones it took for
\* submitted are, and so is the one it is about to rebroadcast.
ReconcileTasks ==
  \A p \in Procs :
    /\ \A h \in rc[p].prepared \cup rc[p].submitted : rows[h].nonce # 0
    /\ \A h \in rc[p].submitted : Sent(h)
    /\ rc[p].pc = "reheads" => Sent(rc[p].cur)

TasksInv == WorkersOK /\ HandlersOK /\ ReconcilesOK /\ WorkerTasks /\ ReconcileTasks

-----------------------------------------------------------------------------
(* The chain.                                                              *)

Tx == [hash: Hashes \cup {NoHash}, nonce: Nat]
MinedTxs == [tx: Tx, ok: BOOLEAN, number: Nat, fork: Nat, until: Nat]

\* What no reorganisation has replaced.
Kept == {m \in mined : m.until = Never}

ChainOK ==
  /\ net \subseteq Tx
  /\ pool \subseteq Tx
  /\ mined \subseteq MinedTxs
  /\ IsFiniteSet(mined)
  /\ tip \in Nat
  /\ fork \in Nat
  /\ faults \in 0..MaxFaults
  /\ fork <= faults
  /\ ep \in [Endpoints -> [fork: Nat, height: Nat]]
  /\ \A e \in Endpoints : ep[e].fork <= fork /\ ep[e].height <= tip
  /\ \A m \in mined : m.fork <= fork /\ m.number <= tip /\ (m.until = Never \/ m.until <= fork)

\* What an endpoint shows deeper than a reorganisation reaches is kept.
DeepIsKept ==
  \A e \in Endpoints, m \in mined :
    On(m, ep[e]) /\ ep[e].height >= m.number + MaxReorg => m.until = Never

\* The kept transactions have the nonces 1, 2, .. in the order of their blocks.
NoncesInOrder ==
  /\ \A m \in Kept : m.tx.nonce = Cardinality({k \in Kept : k.number <= m.number})
  /\ \A m, k \in Kept : m.number = k.number => m = k

ChainInv == ChainOK /\ DeepIsKept /\ NoncesInOrder

\* What was ever sent for a payment is the submission in its row.
Journaled(t) ==
  t.hash \in Hashes => rows[t.hash].nonce = t.nonce /\ t.nonce # 0 /\ Sent(t.hash)

SentIsJournaled ==
  /\ \A t \in net \cup pool : Journaled(t)
  /\ \A m \in mined : Journaled(m.tx)

-----------------------------------------------------------------------------
(* Reconciliation.                                                         *)

\* The submission of h was mined with this result, and stays.
Buried(h, ok, confirmations) ==
  \E m \in mined :
    /\ m.until = Never
    /\ m.tx = Submission(h)
    /\ m.ok = ok
    /\ tip - m.number >= MaxReorg
    /\ tip - m.number + 1 >= confirmations

LookFields == {"step", "required", "first", "tx", "head", "confirmations", "fee"}
Verdicts == {"success", "transaction_failed"}

LookOK ==
  /\ look = [p \in Procs |-> look[p]]
  /\ \A p \in Procs : DOMAIN look[p] = LookFields
  /\ \A p \in Procs : rc[p].pc \notin {"status"} \cup Verdicts => look[p] = NoLook

\* The reads of reconcile_with_confirmations, in order.
ReadsOK ==
  \A p \in Procs : rc[p].pc = "status" =>
    /\ look[p].step \in {"raise", "read", "head", "again"}
    /\ look[p].step # "raise" => look[p].required \in Nat /\ look[p].required > MaxReorg
    /\ look[p].step = "again" => look[p].head \in Nat /\ \A e \in Endpoints : look[p].head <= ep[e].height

\* A verdict about to be booked is the chain's, and a fee above the
\* reservation is booked only after the signer was quarantined.
VerdictsOK ==
  \A p \in Procs : rc[p].pc \in Verdicts =>
    /\ look[p].step \in {"overrun", "book"}
    /\ look[p].confirmations \in Nat
    /\ look[p].fee \in Fees \cup Overruns
    /\ Buried(rc[p].cur, rc[p].pc = "success", look[p].confirmations)
    /\ look[p].step = "book" /\ look[p].fee > rows[rc[p].cur].reserved => relayer = "quarantined"

LookInv == LookOK /\ ReadsOK /\ VerdictsOK

\* What is stored as the chain's verdict is the chain's for good.
BookedIsBuried ==
  \A h \in Hashes : rows[h].response \in Verdicts => Buried(h, rows[h].response = "success", 0)

\* The limits hold until the signer is quarantined.
LimitsInv == relayer # "quarantined" => SponsorshipWithinLimits

PoliciesOK == policy \in [Procs -> Policies]

\* The inductive invariant of the engine, for any number of processes.
EngineInv ==
  /\ RowsInv /\ TasksInv /\ PoliciesOK /\ ChainInv /\ SentIsJournaled
  /\ LookInv /\ BookedIsBuried /\ LimitsInv

-----------------------------------------------------------------------------
(* One process.                                                            *)

\* All tasks that share the journal belong to the same process.
OneProcess == \A p, q \in Procs : p = q

-----------------------------------------------------------------------------
(* The signer mutex and the reconciliation gate.                           *)

\* At most one task holds the signer mutex.
Mutex ==
  /\ \A w, v \in Workers : Holds(w) /\ Holds(v) => w = v
  /\ \A p \in Procs, w \in Workers : ~(Reconciling(p) /\ Holds(w))

\* While the gate is open no reconcile call runs, and an unresolved row is in
\* the hands of the worker that signed it.
GateHeld ==
  \A p \in Procs : gate[p].reconciliation =>
    /\ rc[p].pc = "idle"
    /\ \A h \in Hashes : rows[h].state \in Unresolved =>
         \E w \in Workers :
           worker[w].hash = h /\ worker[w].pc \in {"submit", "recheck", "quarantine", "await"}

\* A reconcile call that is about to open the gate is right about it.
OpenMeansResolved ==
  \A p \in Procs, h \in Hashes :
    rc[p].pc = "open" /\ rc[p].empty => rows[h].state \notin Unresolved

\* A worker that has not stored a submission does not work on a row with one.
SignsFresh ==
  \A w \in Workers :
    worker[w].pc \in {"verify", "sign", "prepare", "protocol_failure"} =>
      rows[worker[w].hash].state \notin Unresolved

GateInv == Mutex /\ GateHeld /\ OpenMeansResolved /\ SignsFresh

-----------------------------------------------------------------------------
(* The stored policies.                                                    *)

\* A row is signed under the configuration that was stored when it was
\* reserved, and asks for at least the depth of that configuration.
PolicyInv ==
  /\ snapshot \in [Hashes -> Policies \cup {NoPolicy}]
  /\ signed \in [Hashes -> Policies \cup {NoPolicy}]
  /\ \A w \in Workers :
       ~At(w, "idle") /\ rows[worker[w].hash].state = "reserved" =>
         snapshot[worker[w].hash] = policy[worker[w].proc]
  /\ \A h \in Hashes :
       rows[h].state \in Unresolved =>
         /\ snapshot[h] \in Policies
         /\ signed[h] = snapshot[h]
         /\ rows[h].depth >= snapshot[h].depth

-----------------------------------------------------------------------------
(* The verdicts.                                                           *)

\* Only the process that reconciles raises the depth of a row.
DepthInv ==
  /\ \A p \in Procs :
       /\ rc[p].pc = "status" /\ look[p].step # "raise" => look[p].required = rows[rc[p].cur].depth
       /\ rc[p].pc \in Verdicts => look[p].confirmations >= rows[rc[p].cur].depth
  /\ \A h \in Hashes :
       rows[h].response \in Verdicts => Buried(h, rows[h].response = "success", rows[h].depth)

\* A terminal row tells its response, and a verdict that is not the chain's is
\* on a row that was never signed.
TerminalRows ==
  \A h \in Hashes :
    rows[h].state \in Terminal =>
      /\ rows[h].state = TerminalState(rows[h].response)
      /\ rows[h].response \notin Verdicts => rows[h].nonce = 0

Gates == [leadership: BOOLEAN, reconciliation: BOOLEAN, rpc: BOOLEAN, relayer: BOOLEAN]
GatesOK == gate \in [Procs -> Gates]

\* A worker that may have stored a submission and ends closes the gate.
Late == {"submit", "recheck", "quarantine", "await"}

\* The inductive invariant of the engine when one process serves the journal.
ContractInv == EngineInv /\ GatesOK /\ GateInv /\ PolicyInv /\ DepthInv /\ TerminalRows

\* The payments that were made for good, what the journal tells of each, and
\* that it is true.
Settled ==
  {h \in Hashes : \E m \in Kept : m.tx.hash = h /\ m.ok /\ tip - m.number >= MaxReorg}
Told == [h \in Hashes |-> IF rows[h].state \in Terminal THEN rows[h].state ELSE "none"]
ToldIsTrue ==
  \A h \in Hashes :
    rows[h].state \in Terminal => rows[h].state = IF h \in Settled THEN "succeeded" ELSE "failed"

-----------------------------------------------------------------------------
(* What each kind of step leaves alone.                                    *)

ChainMoves ==
  \/ ChainStep
  \/ MineForeign
  \/ \E depth \in 1..MaxReorg : Reorg(depth)
  \/ \E t \in net \cup pool : Lose(t)
  \/ \E e \in Endpoints : Sync(e)

-----------------------------------------------------------------------------
(* What each task writes to the journal.                                   *)

HandlerWrites(x) ==
  /\ handler[x].pc # "idle"
  /\ \E limit \in ClientLimits :
       ClaimInsert(handler[x].req, limit) \/ ResumeAwaitingRetry(handler[x].req.hash, limit)

WorkerWrites(w) ==
  \/ At(w, "retry") /\ MarkAwaitingRetry(worker[w].hash)
  \/ At(w, "protocol_failure") /\ MarkTerminal(worker[w].hash, "protocol_failure", 0, 0)
  \/ At(w, "prepare") /\ MarkPrepared(worker[w].hash, worker[w].nonce, policy[worker[w].proc].depth)
  \/ At(w, "submit") /\ MarkSubmitted(worker[w].hash)

ReconcileWrites(p) ==
  \/ rc[p].pc = "release" /\ \E h \in rc[p].reserved : MarkAwaitingRetry(h)
  \/ Looking(p, "raise") /\ RaiseRequiredConfirmations(rc[p].cur, policy[p].depth)
  \/ rc[p].pc = "resubmit" /\ MarkSubmitted(rc[p].cur)
  \/ /\ rc[p].pc \in Verdicts
     /\ look[p].step = "book"
     /\ MarkTerminal(rc[p].cur, rc[p].pc, look[p].fee, look[p].confirmations)

EngineWrites ==
  \/ UNCHANGED jvars
  \/ QuarantineRelayer
  \/ \E x \in Handlers : HandlerStep(x) /\ HandlerWrites(x)
  \/ \E w \in Workers : WorkerStep(w) /\ WorkerWrites(w)
  \/ \E p \in Procs : ReconcileStep(p) /\ ReconcileWrites(p)

-----------------------------------------------------------------------------
(* The journal under the engine.                                           *)

\* mark_terminal with a fee above the reservation, as no journal of fees
\* within it does.
BookOverrun ==
  \E h \in Hashes, response \in Verdicts, fee \in Overruns, confirmations \in Nat :
    MarkTerminal(h, response, fee, confirmations)

\* What no step of the engine takes back: the submission of a signed row, its
\* depth and what is reserved for it, that it may have been broadcast, a terminal row,
\* the quarantine of the signer.
Stays ==
  /\ \A h \in Hashes : rows[h].nonce # 0 =>
       /\ rows'[h].nonce = rows[h].nonce
       /\ rows'[h].reserved = rows[h].reserved
       /\ rows'[h].state \in Unresolved \cup Terminal
       /\ rows'[h].depth >= rows[h].depth
  /\ \A h \in Hashes : Sent(h) => Sent(h)'
  /\ \A h \in Hashes : rows[h].state \in Terminal => rows'[h] = rows[h]
  /\ relayer = "quarantined" => relayer' = "quarantined"

-----------------------------------------------------------------------------
(* How one step changes the rows.                                          *)

RowAdmitted(h) ==
  /\ rows[h].state \in {"absent", "awaiting_retry"} /\ rows'[h].state = "reserved"
  /\ rows'[h].response = "none"
  /\ \E x \in Handlers : HandlerStep(x) /\ handler[x].proc \in Procs

RowReleased(h) ==
  rows[h].state = "reserved" /\ rows'[h].state = "awaiting_retry" /\ rows'[h].response = rows[h].response

WorkerPrepares(w, h) ==
  /\ WorkerStep(w) /\ At(w, "prepare") /\ worker[w].hash = h
  /\ MarkPrepared(h, worker[w].nonce, policy[worker[w].proc].depth)

\* A signed row keeps its bytes; only reconciliation raises its depth.
RowGoesOn(h) ==
  /\ rows[h].state \in Unresolved /\ rows'[h].state \in Unresolved
  /\ rows'[h].nonce = rows[h].nonce /\ rows'[h].response = rows[h].response
  /\ \/ rows'[h].depth = rows[h].depth
     \/ rows'[h].depth >= rows[h].depth /\ \E p \in Procs : Looking(p, "raise") /\ rc[p].cur = h

WorkerFails(h) ==
  \E w \in Workers :
    /\ At(w, "protocol_failure") /\ worker[w].hash = h
    /\ MarkTerminal(h, "protocol_failure", 0, 0)

ReconcileBooks(h) ==
  \E p \in Procs :
    /\ ReconcileStep(p) /\ rc[p].pc \in Verdicts /\ rc[p].cur = h /\ look[p].step = "book"
    /\ MarkTerminal(h, rc[p].pc, look[p].fee, look[p].confirmations)

RowMoves(h) ==
  \/ RowAdmitted(h)
  \/ RowReleased(h)
  \/ \E w \in Workers : WorkerPrepares(w, h)
  \/ RowGoesOn(h)
  \/ WorkerFails(h)
  \/ ReconcileBooks(h)

-----------------------------------------------------------------------------
(* How tasks move.                                                         *)

\* How a worker gets from one await to the next.
WorkerGoes(w) ==
  \/ /\ At(w, "queued") /\ LockFree(worker[w].proc)
     /\ worker'[w].pc = "retry" \/ (worker'[w].pc = "verify" /\ CanSettle(worker[w].proc))
     /\ UNCHANGED <<jvars, gate>>
  \/ At(w, "verify") /\ worker'[w].pc \in {"sign", "protocol_failure", "retry"} /\ UNCHANGED jvars
  \/ At(w, "sign") /\ worker'[w].pc = "retry" /\ UNCHANGED jvars
  \/ At(w, "sign") /\ worker'[w].pc = "prepare" /\ worker'[w].nonce \in Nonces /\ UNCHANGED jvars
  \/ /\ At(w, "prepare") /\ worker'[w].pc = "submit" /\ worker'[w].nonce = worker[w].nonce
     /\ MarkPrepared(worker[w].hash, worker[w].nonce, policy[worker[w].proc].depth)
  \/ /\ At(w, "submit") /\ worker'[w].pc = "recheck" /\ worker'[w].nonce = worker[w].nonce
     /\ MarkSubmitted(worker[w].hash)
  \/ At(w, "recheck") /\ worker'[w].pc \in {"quarantine", "await"} /\ UNCHANGED jvars

\* How one step can change a worker.
WorkerMoves(w) ==
  \/ worker'[w] = worker[w]
  \/ worker'[w] = IdleWorker
  \/ /\ At(w, "idle") /\ worker'[w].pc = "queued"
     /\ \E x \in Handlers :
          /\ HandlerStep(x) /\ handler[x].pc # "idle" /\ handler[x].req.hash \in Hashes
          /\ worker'[w].proc = handler[x].proc
          /\ worker'[w].hash = handler[x].req.hash
          /\ rows[worker'[w].hash].state # "reserved" /\ rows'[worker'[w].hash].state = "reserved"
  \/ /\ WorkerStep(w)
     /\ ~At(w, "idle")
     /\ worker'[w].pc \in WorkerPcs
     /\ worker'[w].proc = worker[w].proc
     /\ worker'[w].hash = worker[w].hash
     /\ WorkerGoes(w)

-----------------------------------------------------------------------------
(* How reconcile calls move.                                               *)

LookForm ==
  /\ look = [p \in Procs |-> look[p]]
  /\ \A p \in Procs : DOMAIN look[p] = LookFields

CallRests(p) == rc'[p] = rc[p] /\ look'[p] = look[p]
CallEnds(p) == rc'[p] = IdleRc /\ look'[p] = NoLook

\* The mutex and the snapshot of the nonterminal rows.
CallScans(p) ==
  /\ rc[p].pc = "queued" /\ LockFree(p) /\ rc'[p].pc = "release"
  /\ rc'[p].prepared = RowsIn({"prepared"}) /\ rc'[p].submitted = RowsIn({"submitted"})
  /\ look'[p] = NoLook
  /\ UNCHANGED <<jvars, gate, worker>>

SameRow(p) ==
  /\ rc'[p].cur = rc[p].cur
  /\ rc'[p].prepared = rc[p].prepared
  /\ rc'[p].submitted = rc[p].submitted

\* Between two rows of the snapshot.
CallWalks(p) ==
  /\ look'[p] = NoLook
  /\ rc'[p].prepared \subseteq rc[p].prepared
  /\ rc'[p].submitted \subseteq rc[p].submitted
  /\ \/ rc[p].pc = "idle" /\ rc'[p].pc = "queued" /\ gate[p].leadership /\ ~gate[p].reconciliation
        /\ UNCHANGED <<jvars, gate, worker>>
     \/ Reconciling(p) /\ rc'[p].pc \in {"release", "finish"}
     \/ /\ Reconciling(p) /\ rc'[p].pc = "status" /\ UNCHANGED jvars
     \/ /\ Reconciling(p) /\ rc'[p].pc = "open" /\ UNCHANGED jvars
        /\ rc'[p].empty => RowsIn(Active) = {}

\* The reads of reconcile_with_confirmations for the row cur.
CallReads(p) ==
  /\ SameRow(p) /\ rc[p].pc = "status" /\ rc'[p].pc = "status"
  /\ \/ /\ look[p].step = "raise" /\ look'[p].step = "read"
        /\ RaiseRequiredConfirmations(rc[p].cur, policy[p].depth)
        /\ look'[p].required = rows'[rc[p].cur].depth
     \/ /\ look[p].step = "read" /\ look'[p].step = "head" /\ UNCHANGED jvars
        /\ look'[p].required = look[p].required
     \/ /\ look[p].step = "head" /\ look'[p].step = "again" /\ UNCHANGED jvars
        /\ look'[p].required = look[p].required
        /\ look'[p].head = SafeBlockNumber

\* The chain's verdict, from the receipt read again.
CallDecides(p) ==
  LET again == Receipts(Submission(rc[p].cur))
  IN  /\ SameRow(p) /\ rc[p].pc = "status" /\ look[p].step = "again"
      /\ again.kind = "mined"
      /\ ~(look[p].head < again.facts.number)
      /\ look[p].head - again.facts.number + 1 >= look[p].required
      /\ look[p].required # 0
      /\ look'[p].confirmations = look[p].head - again.facts.number + 1
      /\ rc'[p].pc = IF again.facts.ok THEN "success" ELSE "transaction_failed"
      /\ look'[p].fee \in Fees \cup Overruns
      /\ look'[p].step = IF look'[p].fee > rows[rc[p].cur].reserved THEN "overrun" ELSE "book"
      /\ UNCHANGED jvars

\* From the verdict to its booking, or to the rebroadcast.
CallGoesOn(p) ==
  /\ SameRow(p)
  /\ \/ /\ rc[p].pc = "status" /\ rc'[p].pc \in {"pending", "resubmit"}
        /\ look'[p] = NoLook /\ UNCHANGED jvars
     \/ /\ rc[p].pc \in Verdicts /\ rc'[p].pc = rc[p].pc /\ QuarantineRelayer
        /\ look[p].step = "overrun" /\ look'[p].step = "book"
        /\ look'[p].fee = look[p].fee /\ look'[p].confirmations = look[p].confirmations
     \/ /\ rc[p].pc = "resubmit" /\ rc'[p].pc = "reheads" /\ look'[p] = NoLook
        /\ MarkSubmitted(rc[p].cur) \/ (rc[p].cur \notin rc[p].prepared /\ UNCHANGED jvars)
     \/ /\ rc[p].pc = "reheads" /\ rc'[p].pc \in {"quarantine", "await"} /\ look'[p] = NoLook
        /\ UNCHANGED jvars

CallMoves(p) ==
  \/ CallRests(p)
  \/ CallEnds(p)
  \/ ReconcileStep(p) /\ (CallScans(p) \/ CallWalks(p) \/ CallReads(p) \/ CallDecides(p) \/ CallGoesOn(p))

=============================================================================
