--------------------------- MODULE EvmEngineProofs ----------------------------
(***************************************************************************)
(* Proofs about the eip155 settlement engine.                              *)
(*                                                                         *)
(* EngineInv holds for any number of processes: what is booked is a        *)
(* transaction deeper than a reorganisation reaches.  ContractInv holds when *)
(* one process serves the journal, which is what the deployment promises and *)
(* the engine's mutex relies on: the reconciliation gate is sound (GateInv), *)
(* a restart with another configuration strands no transaction (PolicyInv), *)
(* what is booked is as deep as its row asks for (DepthInv).  The callers  *)
(* are then told the truth (Settlement), across reorganisations.           *)
(***************************************************************************)
EXTENDS EvmStepProofs, JournalProofs

-----------------------------------------------------------------------------
(* The journal under the engine.                                           *)

LEMMA OverrunKeeps ==
  ASSUME RowsInv, BookOverrun
  PROVE  RowsInv' /\ relayer' = relayer /\ \A g \in Hashes : RowStays(g)
<1>1. PICK h \in Hashes, response \in Verdicts, fee \in Overruns, confirmations \in Nat :
        MarkTerminal(h, response, fee, confirmations)
  BY Zenon DEF BookOverrun
<1>2. response \in Responses /\ fee \in Nat
  BY EvmAssumption, Zenon DEF Verdicts, Responses
<1>3. rows[h].client \in Clients
  BY <1>1, Zenon DEF MarkTerminal, TerminalAllowed, RowsInv, OwnerKnown, Exists
<1>4. /\ globalUsage' \in [Days -> [reserved: Nat, spent: Nat]]
      /\ clientUsage' \in [Clients -> [Days -> [reserved: Nat, spent: Nat]]]
  BY <1>1, <1>2, <1>3, ReleaseBudgetType, Zenon DEF MarkTerminal, RowsInv
<1>5a. rows[h] \in Row /\ TerminalState(response) \in SettlementState
  BY Zenon DEF RowsInv, JournalTypeOK, SettlementState, TerminalState, Terminal
<1>5. [rows[h] EXCEPT !.state = TerminalState(response)] \in Row
  BY <1>5a, RowUpdate, Zenon
<1>6. [[rows[h] EXCEPT !.state = TerminalState(response)] EXCEPT !.response = response] \in Row
  BY <1>2, <1>5, RowUpdate, Zenon
<1>7. rows' \in [Hashes -> Row]
  BY <1>1, <1>6, Zenon DEF MarkTerminal, RowsInv, JournalTypeOK
<1>8. SchemaChecks' /\ OwnerKnown'
  BY <1>1, <1>2 DEF MarkTerminal, TerminalAllowed, TerminalState, Responses, RowsInv, JournalTypeOK,
       SchemaChecks, OwnerKnown, Exists, Active, Terminal
<1>9. RowsInv'
  BY <1>1, <1>4, <1>7, <1>8, Zenon DEF MarkTerminal, RowsInv, JournalTypeOK
<1>10. ASSUME NEW g \in Hashes PROVE RowStays(g)
  <2>1. rows[g] \in Row
    BY Zenon DEF RowsInv, JournalTypeOK
  <2>2. rows[g].depth \in Nat
    BY DepthIsNat, Zenon
  <2>3. rows[g].nonce # 0 => rows[g].state \in Unresolved \cup Terminal
    BY <2>1, Zenon DEF RowsInv, SchemaChecks, OwnerKnown, Exists, Row, SettlementState, Active, Terminal, Unresolved
  <2>4. CASE g = h
    BY <1>1, <2>1, <2>2, <2>4 DEF RowStays, MarkTerminal, TerminalAllowed, TerminalState, Terminal, RowsInv, JournalTypeOK, Row
  <2>5. CASE g # h
    <3>1. rows'[g] = rows[g]
      BY <1>1, <2>5, Zenon DEF MarkTerminal, RowsInv, JournalTypeOK
    <3> QED BY <2>2, <2>3, <3>1 DEF RowStays, Unresolved, Terminal
  <2> QED BY <2>4, <2>5, Zenon
<1> QED BY <1>1, <1>9, <1>10, Zenon DEF MarkTerminal

LEMMA JournalKeeps ==
  ASSUME RowsInv, TasksInv, PoliciesOK, LookInv, [Next]_vars
  PROVE  RowsInv' /\ Stays
<1>1. [JournalNext]_jvars \/ BookOverrun
  BY EngineUsesJournal, Zenon
<1>2. RowsInv'
  BY <1>1, RowsStep, OverrunKeeps, Zenon
<1>3. ASSUME NEW h \in Hashes PROVE RowStays(h) \/ rows' = rows
  BY <1>1, PermanentStep, OverrunKeeps, Zenon DEF jvars
<1>4. ASSUME NEW h \in Hashes
      PROVE  /\ rows[h].nonce # 0 =>
                  /\ rows'[h].nonce = rows[h].nonce /\ rows'[h].state \in Unresolved \cup Terminal
                  /\ rows'[h].depth >= rows[h].depth
             /\ rows[h].state \in {"submitted"} \cup Terminal => rows'[h].state \in {"submitted"} \cup Terminal
             /\ rows[h].state \in Terminal => rows'[h] = rows[h]
  <2>1. CASE RowStays(h)
    BY <2>1, Zenon DEF RowStays, Unresolved, Terminal
  <2>2. CASE rows' = rows
    <3>1. rows[h].depth >= rows[h].depth
      BY DepthIsNat
    <3> QED BY <2>2, <3>1, Zenon DEF RowsInv, SchemaChecks, OwnerKnown, Exists, JournalTypeOK, Row, SettlementState,
              Active, Terminal, Unresolved
  <2> QED BY <1>3, <2>1, <2>2, Zenon
<1> QED BY <1>1, <1>2, <1>4, ReservationStays, Zenon DEF Stays, Sent

-----------------------------------------------------------------------------
(* The tasks.                                                              *)

LEMMA TasksStep ==
  ASSUME RowsInv, TasksInv, PoliciesOK, LookInv, [Next]_vars
  PROVE  RowsInv' /\ Stays /\ TasksInv' /\ PoliciesOK'
<1>1. RowsInv' /\ Stays
  BY JournalKeeps, Zenon
<1>2. WorkersOK' /\ \A w \in Workers : WorkerMoves(w)
  BY WorkersStep, Zenon
<1>3. ReconcilesOK' /\ \A p \in Procs : CallMoves(p)
  BY CallsStep, Zenon
<1>4. WorkerTasks'
  BY <1>1, <1>2, WorkerTasksStep, Zenon
<1>5. ReconcileTasks'
  BY <1>1, <1>3, ReconcileTasksStep, Zenon
<1>6. HandlersOK'
  BY HandlersStep, Zenon DEF TasksInv
<1>7. PoliciesOK'
  BY PoliciesStep, Zenon
<1> QED BY <1>1, <1>2, <1>3, <1>4, <1>5, <1>6, <1>7, Zenon DEF TasksInv

-----------------------------------------------------------------------------
(* The chain.                                                              *)

\* The chain that the next block extends is what was kept, and its length is
\* the signer's nonce.
LEMMA CanonicalIsKept ==
  ASSUME ChainOK
  PROVE  Canonical = Kept /\ IsFiniteSet(Kept) /\ NextUnused = Cardinality(Kept) + 1
<1>1. ASSUME NEW m \in mined
      PROVE  On(m, [fork |-> fork, height |-> tip]) <=> m.until = Never
  <2>1. fork \in Nat /\ faults \in Nat /\ MaxFaults \in Nat /\ fork <= MaxFaults
    BY EngineAssumption DEF ChainOK
  <2>2. m.fork <= fork /\ m.number <= tip /\ (m.until = Never \/ m.until <= fork) /\ m.until \in Nat
    BY Zenon DEF ChainOK, MinedTxs
  <2> QED BY <2>1, <2>2 DEF On, Never
<1>2. Canonical = Kept
  BY <1>1, Zenon DEF Canonical, ChainAt, Kept
<1>3. IsFiniteSet(Kept)
  BY FS_Subset, Zenon DEF ChainOK, Kept
<1> QED BY <1>2, <1>3, Zenon DEF NextUnused, AccountNonce, Canonical

\* A block with a transaction of the next nonce.
LEMMA ChainGrows ==
  ASSUME ChainInv, NEW t \in Tx, t.nonce = Cardinality(Kept) + 1, NEW ok \in BOOLEAN,
         mined' = mined \cup {[tx |-> t, ok |-> ok, number |-> tip + 1, fork |-> fork, until |-> Never]},
         tip' = tip + 1, fork' = fork, ep' = ep
  PROVE  /\ mined' \subseteq MinedTxs /\ IsFiniteSet(mined')
         /\ \A m \in mined' : m.fork <= fork /\ m.number <= tip' /\ (m.until = Never \/ m.until <= fork)
         /\ DeepIsKept' /\ NoncesInOrder'
<1> DEFINE new == [tx |-> t, ok |-> ok, number |-> tip + 1, fork |-> fork, until |-> Never]
<1>0. tip \in Nat /\ fork \in Nat /\ Never \in Nat /\ mined \subseteq MinedTxs /\ IsFiniteSet(mined)
  BY EngineAssumption DEF ChainInv, ChainOK, Never
<1>1. /\ new \in MinedTxs /\ new.number = tip + 1 /\ new.fork = fork /\ new.until = Never
      /\ new.tx = t
  BY <1>0 DEF MinedTxs
<1>2. mined' = mined \cup {new}
  BY Zenon
<1> HIDE DEF new
<1>3. \A m \in mined : m.number \in Nat /\ m.fork \in Nat /\ m.number <= tip /\ m.fork <= fork /\ (m.until = Never \/ m.until <= fork)
  BY <1>0, Zenon DEF ChainInv, ChainOK, MinedTxs
<1>4. mined' \subseteq MinedTxs /\ IsFiniteSet(mined')
  BY <1>0, <1>1, <1>2, FS_AddElement
<1>5. \A m \in mined' : m.fork <= fork /\ m.number <= tip' /\ (m.until = Never \/ m.until <= fork)
  <2>1. ASSUME NEW m \in mined PROVE m.fork <= fork /\ m.number <= tip' /\ (m.until = Never \/ m.until <= fork)
    BY <1>0, <1>3, <2>1
  <2>2. new.fork <= fork /\ new.number <= tip' /\ new.until = Never
    BY <1>0, <1>1
  <2> QED BY <1>2, <2>1, <2>2, Zenon
<1>6. DeepIsKept'
  BY <1>1, <1>2, Zenon DEF ChainInv, DeepIsKept, On, Never
<1>7. NoncesInOrder'
  <2>1. Kept' = Kept \cup {new} /\ new \notin Kept
    BY <1>0, <1>1, <1>2, <1>3 DEF Kept, Never
  <2>2. \A m \in Kept : m.number \in Nat /\ m.number <= tip
    BY <1>3, Zenon DEF Kept
  <2>3. IsFiniteSet(Kept) /\ Cardinality(Kept') = Cardinality(Kept) + 1
    BY <2>1, CanonicalIsKept, FS_AddElement, Zenon DEF ChainInv
  <2>4. ASSUME NEW m \in Kept' PROVE m.tx.nonce = Cardinality({k \in Kept' : k.number <= m.number})
    <3>1. CASE m \in Kept
      <4>1. {k \in Kept' : k.number <= m.number} = {k \in Kept : k.number <= m.number}
        BY <1>0, <1>1, <2>1, <2>2, <3>1
      <4> QED BY <3>1, <4>1, Zenon DEF ChainInv, NoncesInOrder
    <3>2. CASE m = new
      <4>1. {k \in Kept' : k.number <= m.number} = Kept'
        BY <1>0, <1>1, <2>1, <2>2, <3>2
      <4> QED BY <1>1, <2>3, <3>2, <4>1, Zenon
    <3> QED BY <2>1, <3>1, <3>2, Zenon
  <2>5. ASSUME NEW m \in Kept', NEW k \in Kept', m.number = k.number PROVE m = k
    BY <1>0, <1>1, <2>1, <2>2, <2>5 DEF ChainInv, NoncesInOrder
  <2> QED BY <2>4, <2>5, Zenon DEF NoncesInOrder
<1> QED BY <1>4, <1>5, <1>6, <1>7, Zenon

\* Replaced blocks were within reach of a reorganisation.
LEMMA ChainForks ==
  ASSUME ChainInv, NEW depth \in 1..MaxReorg, Reorg(depth)
  PROVE  /\ mined' \subseteq MinedTxs /\ IsFiniteSet(mined')
         /\ \A m \in mined' : m.fork <= fork' /\ m.number <= tip' /\ (m.until = Never \/ m.until <= fork')
         /\ \A m \in mined' : \E k \in mined : k.tx = m.tx
         /\ \A m \in Kept : tip - m.number >= MaxReorg => m \in Kept'
         /\ \A m \in Kept' : m \in Kept
         /\ DeepIsKept' /\ NoncesInOrder'
<1> DEFINE gone == {m \in Canonical : m.number > tip - depth}
           After(m) == IF m \in gone THEN [m EXCEPT !.until = fork + 1] ELSE m
<1>0. /\ tip \in Nat /\ fork \in Nat /\ Never \in Nat /\ fork + 1 < Never /\ MaxReorg \in Nat
      /\ depth \in Nat /\ depth <= MaxReorg /\ mined \subseteq MinedTxs /\ IsFiniteSet(mined)
  BY EngineAssumption, EvmAssumption DEF ChainInv, ChainOK, Never, Reorg, Fault
<1>1. gone = {m \in Kept : m.number > tip - depth} /\ Canonical = Kept
  BY CanonicalIsKept, Zenon DEF ChainInv
<1>2. mined' = {After(m) : m \in mined} /\ fork' = fork + 1 /\ tip' = tip /\ ep' = ep
  BY Zenon DEF Reorg
<1> HIDE DEF gone
<1>3. \A m \in mined : /\ m \in MinedTxs /\ m.number \in Nat /\ m.fork \in Nat /\ m.number <= tip /\ m.fork <= fork
                       /\ m.until = Never \/ m.until <= fork
  BY <1>0, Zenon DEF ChainInv, ChainOK, MinedTxs
<1>4. ASSUME NEW m \in mined
      PROVE  /\ After(m) \in MinedTxs /\ After(m).tx = m.tx /\ After(m).number = m.number /\ After(m).fork = m.fork
             /\ m \in gone => After(m).until = fork + 1
             /\ m \notin gone => After(m) = m
  BY <1>0, <1>3 DEF MinedTxs
<1>5. mined' \subseteq MinedTxs /\ \A m \in mined' : \E k \in mined : k.tx = m.tx
  <2>1. ASSUME NEW m \in mined' PROVE m \in MinedTxs /\ \E k \in mined : k.tx = m.tx
    <3>1. PICK k \in mined : m = After(k)
      BY <1>2, Zenon
    <3> HIDE DEF After
    <3> QED BY <1>4, <3>1, Zenon
  <2> QED BY <2>1, Zenon
<1>6. IsFiniteSet(mined')
  <2> DEFINE f == [m \in mined |-> After(m)]
  <2> HIDE DEF After
  <2>1. f \in Surjection(mined, mined')
    BY <1>2, Zenon DEF Surjection
  <2> HIDE DEF f
  <2> QED BY <1>0, <2>1, FS_Surjection, Zenon
<1>7. \A m \in mined : After(m).until = Never => m \notin gone /\ After(m) = m
  BY <1>0, <1>4
<1>8. Kept' = Kept \ gone
  <2>1. ASSUME NEW m \in Kept' PROVE m \in Kept \ gone
    <3>1. PICK k \in mined : m = After(k)
      BY <1>2, Zenon DEF Kept
    <3> QED BY <1>7, <2>1, <3>1, Zenon DEF Kept, Never
  <2>2. ASSUME NEW m \in Kept \ gone PROVE m \in Kept'
    <3>1. m \in mined /\ After(m) = m
      BY <1>4, <2>2, Zenon DEF Kept
    <3> QED BY <1>2, <2>2, <3>1, Zenon DEF Kept, Never
  <2> QED BY <2>1, <2>2, Zenon
<1>9. \A m \in mined' : m.fork <= fork' /\ m.number <= tip' /\ (m.until = Never \/ m.until <= fork')
  <2>1. ASSUME NEW m \in mined PROVE After(m).fork <= fork + 1 /\ After(m).number <= tip /\ (After(m).until = Never \/ After(m).until <= fork + 1)
    <3>1. m.fork <= fork + 1 /\ m.number <= tip /\ (m.until = Never \/ m.until <= fork + 1)
      <4>1. m.until \in Nat
        BY <1>3, Zenon DEF MinedTxs
      <4> QED BY <1>0, <1>3, <4>1
    <3>2. fork + 1 <= fork + 1
      BY <1>0
    <3> HIDE DEF After
    <3> QED BY <1>4, <3>1, <3>2, Zenon
  <2> QED BY <1>2, <2>1, Zenon
<1>10. DeepIsKept'
  <2> SUFFICES ASSUME NEW e \in Endpoints, NEW m \in mined,
                      On(After(m), ep[e]), ep[e].height >= After(m).number + MaxReorg
               PROVE  After(m).until = Never
    BY <1>2, Zenon DEF DeepIsKept, On, Never
  <2>0. After(m).number = m.number
    BY <1>4, Zenon
  <2>1. CASE m \in gone
    <3>1. m.number > tip - depth /\ ep[e].height <= tip /\ ep[e].height \in Nat /\ m.number \in Nat
      BY <1>1, <1>3, <2>1, Zenon DEF ChainInv, ChainOK
    <3>2. ep[e].height >= m.number + MaxReorg
      BY <2>0, Zenon
    <3> QED BY <1>0, <3>1, <3>2
  <2>2. CASE m \notin gone
    <3>1. After(m) = m
      BY <1>4, <2>2, Zenon
    <3> QED BY <3>1, Zenon DEF ChainInv, DeepIsKept
  <2> QED BY <2>1, <2>2, Zenon
<1>11. \A m \in Kept : m.number \in Nat /\ (m \in gone <=> m.number > tip - depth)
  BY <1>1, <1>3, Zenon DEF Kept
<1>12. NoncesInOrder'
  <2>1. ASSUME NEW m \in Kept' PROVE m.tx.nonce = Cardinality({k \in Kept' : k.number <= m.number})
    <3>1. {k \in Kept' : k.number <= m.number} = {k \in Kept : k.number <= m.number}
      BY <1>0, <1>8, <1>11
    <3> QED BY <1>8, <3>1, Zenon DEF ChainInv, NoncesInOrder
  <2>2. ASSUME NEW m \in Kept', NEW k \in Kept', m.number = k.number PROVE m = k
    BY <1>8, <2>2, Zenon DEF ChainInv, NoncesInOrder
  <2> QED BY <2>1, <2>2, Zenon DEF NoncesInOrder
<1>13. \A m \in Kept : tip - m.number >= MaxReorg => m \in Kept'
  BY <1>0, <1>8, <1>11
<1> QED BY <1>5, <1>6, <1>8, <1>9, <1>10, <1>12, <1>13, Zenon

\* The chain grows by a block, with or without a transaction of the signer, or
\* forks, or only the endpoints and the mempools change.
LEMMA ChainKeeps ==
  ASSUME ChainInv, net' \subseteq Tx, [Next]_vars
  PROVE  ChainInv'
<1>0. faults' \in 0..MaxFaults /\ faults <= faults' /\ faults \in Nat /\ fork \in Nat
  BY FaultsStep, EngineAssumption DEF ChainInv, ChainOK
<1> USE DEF ChainInv
<1>b. ASSUME tip' = tip + 1, fork' = fork, ep' = ep
      PROVE  /\ tip' \in Nat /\ fork' <= faults'
             /\ \A e \in Endpoints : ep'[e].fork <= fork' /\ ep'[e].height <= tip'
  <2>1. /\ tip \in Nat /\ fork <= faults
        /\ \A e \in Endpoints : ep[e].height \in Nat /\ ep[e].height <= tip /\ ep[e].fork <= fork
    BY Zenon DEF ChainOK
  <2> QED BY <1>0, <1>b, <2>1
<1>1. ASSUME UNCHANGED <<mined, tip, fork, ep>>, pool' \subseteq pool \cup net PROVE ChainInv'
  <2>1. ChainOK'
    BY <1>0, <1>1 DEF ChainOK, Never
  <2>2. DeepIsKept'
    BY <1>1, Zenon DEF DeepIsKept, On, Never
  <2>3. NoncesInOrder'
    BY <1>1, Zenon DEF NoncesInOrder, Kept, Never
  <2> QED BY <2>1, <2>2, <2>3, Zenon
<1>2. CASE ~ChainMoves
  BY <1>1, <1>2, TasksKeepChain, Zenon
<1>3. ASSUME NEW t \in pool, NEW ok \in BOOLEAN, Mine(t, ok) PROVE ChainInv'
  <2>1. t \in Tx /\ t.nonce = Cardinality(Kept) + 1
    BY <1>3, CanonicalIsKept, Zenon DEF ChainOK, Mine
  <2>2. /\ mined' = mined \cup {[tx |-> t, ok |-> ok, number |-> tip + 1, fork |-> fork, until |-> Never]}
        /\ tip' = tip + 1 /\ fork' = fork /\ ep' = ep /\ pool' \subseteq pool
    BY <1>3, Zenon DEF Mine
  <2>3. /\ mined' \subseteq MinedTxs /\ IsFiniteSet(mined')
        /\ \A m \in mined' : m.fork <= fork /\ m.number <= tip' /\ (m.until = Never \/ m.until <= fork)
        /\ DeepIsKept' /\ NoncesInOrder'
    BY <2>1, <2>2, ChainGrows, Zenon
  <2>a. /\ tip' \in Nat /\ fork' <= faults'
        /\ \A e \in Endpoints : ep'[e].fork <= fork' /\ ep'[e].height <= tip'
    BY <1>b, <2>2, Zenon
  <2>4. ChainOK'
    BY <1>0, <2>2, <2>3, <2>a, Zenon DEF ChainOK, Never
  <2> QED BY <2>3, <2>4, Zenon
<1>4. ASSUME MineForeign PROVE ChainInv'
  <2> DEFINE t == Foreign(NextUnused)
  <2>1. t \in Tx /\ t.nonce = Cardinality(Kept) + 1
    <3>1. NextUnused = Cardinality(Kept) + 1 /\ Cardinality(Kept) \in Nat
      BY CanonicalIsKept, FS_CardinalityType, Zenon
    <3> QED BY <3>1 DEF Foreign, Tx
  <2>2. /\ mined' = mined \cup {[tx |-> t, ok |-> TRUE, number |-> tip + 1, fork |-> fork, until |-> Never]}
        /\ tip' = tip + 1 /\ fork' = fork /\ ep' = ep /\ pool' \subseteq pool
    BY <1>4, Zenon DEF MineForeign
  <2> HIDE DEF t
  <2>3. /\ mined' \subseteq MinedTxs /\ IsFiniteSet(mined')
        /\ \A m \in mined' : m.fork <= fork /\ m.number <= tip' /\ (m.until = Never \/ m.until <= fork)
        /\ DeepIsKept' /\ NoncesInOrder'
    BY <2>1, <2>2, ChainGrows, Zenon
  <2>a. /\ tip' \in Nat /\ fork' <= faults'
        /\ \A e \in Endpoints : ep'[e].fork <= fork' /\ ep'[e].height <= tip'
    BY <1>b, <2>2, Zenon
  <2>4. ChainOK'
    BY <1>0, <2>2, <2>3, <2>a, Zenon DEF ChainOK, Never
  <2> QED BY <2>3, <2>4, Zenon
<1>5. ASSUME MineEmpty PROVE ChainInv'
  <2>1. tip' = tip + 1 /\ UNCHANGED <<pool, mined, fork, ep>>
    BY <1>5, Zenon DEF MineEmpty
  <2>2. ChainOK'
    <3>1. tip \in Nat /\ \A e \in Endpoints : ep[e].height \in Nat /\ ep[e].height <= tip
      BY Zenon DEF ChainOK
    <3>2. \A m \in mined : m.number \in Nat /\ m.number <= tip
      BY Zenon DEF ChainOK, MinedTxs
    <3>3. /\ tip' \in Nat /\ \A e \in Endpoints : ep'[e].height <= tip'
          /\ \A m \in mined' : m.number <= tip'
      BY <2>1, <3>1, <3>2
    <3> QED BY <1>0, <2>1, <3>3 DEF ChainOK, Never
  <2>3. DeepIsKept' /\ NoncesInOrder'
    BY <2>1, Zenon DEF DeepIsKept, On, NoncesInOrder, Kept, Never
  <2> QED BY <2>2, <2>3, Zenon
<1>6. ASSUME NEW depth \in 1..MaxReorg, Reorg(depth) PROVE ChainInv'
  <2>1. /\ mined' \subseteq MinedTxs /\ IsFiniteSet(mined')
        /\ \A m \in mined' : m.fork <= fork' /\ m.number <= tip' /\ (m.until = Never \/ m.until <= fork')
        /\ DeepIsKept' /\ NoncesInOrder'
    BY <1>6, ChainForks, Zenon
  <2>2. /\ fork' = fork + 1 /\ faults' = faults + 1 /\ UNCHANGED <<tip, ep>>
        /\ pool' \in {pool, pool \cup {m.tx : m \in {k \in Canonical : k.number > tip - depth}}}
    BY <1>6, Zenon DEF Reorg, Fault
  <2>3. pool' \subseteq Tx
    BY <2>2 DEF Canonical, ChainAt, ChainOK, MinedTxs
  <2>4. fork' \in Nat /\ fork' <= faults' /\ fork <= fork'
    BY <1>0, <2>2 DEF ChainOK
  <2>5. \A e \in Endpoints : ep'[e].fork <= fork' /\ ep'[e].height <= tip'
    BY <2>2, <2>4 DEF ChainOK
  <2>6. ChainOK'
    BY <1>0, <2>1, <2>2, <2>3, <2>4, <2>5, Zenon DEF ChainOK, Never
  <2> QED BY <2>1, <2>6, Zenon
<1>7. ASSUME NEW e \in Endpoints, Sync(e) PROVE ChainInv'
  <2>1. PICK height \in ep[e].height..tip : ep' = [ep EXCEPT ![e] = [fork |-> fork, height |-> height]]
    BY <1>7, Zenon DEF Sync
  <2>2. UNCHANGED <<net, pool, mined, tip, fork>>
    BY <1>7, Zenon DEF Sync
  <2>3. height \in Nat /\ height <= tip /\ tip \in Nat
    BY <2>1 DEF ChainOK
  <2>4. /\ ep' \in [Endpoints -> [fork: Nat, height: Nat]]
        /\ ep'[e] = [fork |-> fork, height |-> height]
        /\ \A d \in Endpoints \ {e} : ep'[d] = ep[d]
    BY <1>0, <2>1, <2>3, Zenon DEF ChainOK
  <2>5. \A d \in Endpoints : ep'[d].fork <= fork /\ ep'[d].height <= tip
    <3>1. fork <= fork /\ ep'[e].fork = fork /\ ep'[e].height = height
      BY <1>0, <2>4
    <3> QED BY <2>3, <2>4, <3>1, Zenon DEF ChainOK
  <2>6. ChainOK'
    <3>1. fork' <= faults'
      BY <1>0, <2>2 DEF ChainOK
    <3> QED BY <1>0, <2>2, <2>4, <2>5, <3>1, Zenon DEF ChainOK, Never
  <2>7. ASSUME NEW d \in Endpoints, NEW m \in mined, On(m, ep'[d]), ep'[d].height >= m.number + MaxReorg
        PROVE  m.until = Never
    <3>1. CASE d = e
      <4>1. m.until \in Nat /\ (m.until = Never \/ m.until <= fork) /\ ep'[d].fork = fork
        BY <2>4, <3>1 DEF ChainOK, MinedTxs
      <4>2. fork < m.until
        BY <2>7, <4>1, Zenon DEF On
      <4> QED BY <1>0, <4>1, <4>2
    <3>2. CASE d # e
      BY <2>4, <2>7, <3>2, Zenon DEF DeepIsKept
    <3> QED BY <3>1, <3>2, Zenon
  <2>8. DeepIsKept'
    BY <2>2, <2>7, Zenon DEF DeepIsKept, On, Never
  <2>9. NoncesInOrder'
    BY <2>2, Zenon DEF NoncesInOrder, Kept, Never
  <2> QED BY <2>6, <2>8, <2>9, Zenon
<1>8. ASSUME (\E t \in net : Deliver(t)) \/ (\E t \in net \cup pool : Lose(t)) PROVE ChainInv'
  BY <1>1, <1>8, Zenon DEF Deliver, Lose
<1> QED BY <1>2, <1>3, <1>4, <1>5, <1>6, <1>7, <1>8, Zenon DEF ChainMoves, ChainStep

\* Whatever is on the wire, in a mempool or in a block came off the wire.
LEMMA SentStep ==
  ASSUME RowsInv, TasksInv, ChainInv, SentIsJournaled, Stays, [Next]_vars
  PROVE  SentIsJournaled'
<1>1. ASSUME NEW t, Journaled(t) PROVE Journaled(t)'
  BY <1>1, Zenon DEF Journaled, Stays
<1>2. \A t \in net' : Journaled(t)
  BY NetStep, Zenon DEF SentIsJournaled, ChainInv
<1>3. ASSUME NEW t \in pool' PROVE Journaled(t)
  <2>1. CASE ~ChainMoves
    BY <1>3, <2>1, TasksKeepChain, Zenon DEF SentIsJournaled
  <2>2. CASE \E depth \in 1..MaxReorg : Reorg(depth)
    <3>1. PICK depth \in 1..MaxReorg : Reorg(depth)
      BY <2>2, Zenon
    <3>2. pool' \in {pool, pool \cup {m.tx : m \in {k \in Canonical : k.number > tip - depth}}}
      BY <3>1, Zenon DEF Reorg
    <3>3. t \in pool \/ \E m \in mined : t = m.tx
      BY <1>3, <3>2, Zenon DEF Canonical, ChainAt
    <3> QED BY <3>3, Zenon DEF SentIsJournaled
  <2>3. CASE ChainStep \/ MineForeign \/ (\E u \in net \cup pool : Lose(u)) \/ \E e \in Endpoints : Sync(e)
    <3>1. t \in net \cup pool
      BY <1>3, <2>3, Zenon DEF ChainStep, Mine, MineEmpty, Deliver, MineForeign, Lose, Sync
    <3> QED BY <3>1, Zenon DEF SentIsJournaled
  <2> QED BY <2>1, <2>2, <2>3, Zenon DEF ChainMoves
<1>4. ASSUME NEW m \in mined' PROVE Journaled(m.tx)
  <2>1. CASE ~ChainMoves
    BY <1>4, <2>1, TasksKeepChain, Zenon DEF SentIsJournaled
  <2>2. CASE \E depth \in 1..MaxReorg : Reorg(depth)
    BY <1>4, <2>2, ChainForks, Zenon DEF SentIsJournaled
  <2>3. CASE \/ MineEmpty \/ (\E t \in net : Deliver(t)) \/ (\E t \in net \cup pool : Lose(t))
             \/ \E e \in Endpoints : Sync(e)
    BY <1>4, <2>3, Zenon DEF MineEmpty, Deliver, Lose, Sync, SentIsJournaled
  <2>4. CASE \E t \in pool, ok \in BOOLEAN : Mine(t, ok)
    <3>1. m \in mined \/ m.tx \in pool
      BY <1>4, <2>4 DEF Mine
    <3> QED BY <3>1, Zenon DEF SentIsJournaled
  <2>5. CASE MineForeign
    <3>1. m \in mined \/ m.tx.hash = NoHash
      BY <1>4, <2>5 DEF MineForeign, Foreign
    <3> QED BY <3>1, EngineAssumption, Zenon DEF SentIsJournaled, Journaled
  <2> QED BY <2>1, <2>2, <2>3, <2>4, <2>5, Zenon DEF ChainMoves, ChainStep
<1> QED BY <1>1, <1>2, <1>3, <1>4, Zenon DEF SentIsJournaled

-----------------------------------------------------------------------------
(* Reconciliation and its verdicts.                                        *)

\* What lies deep enough stays, and the chain and its views only grow.
LEMMA KeptStays ==
  ASSUME ChainInv, [Next]_vars
  PROVE  /\ tip' \in Nat /\ tip <= tip'
         /\ \A e \in Endpoints : ep[e].height <= ep'[e].height
         /\ \A m \in Kept : tip - m.number >= MaxReorg => m \in Kept'
<1>0. /\ tip \in Nat /\ \A e \in Endpoints : ep[e].height \in Nat /\ ep[e].height <= tip
      /\ ep \in [Endpoints -> [fork: Nat, height: Nat]]
  BY ChainNats, Zenon DEF ChainInv, ChainOK
<1>1. ASSUME UNCHANGED <<tip, ep>> PROVE tip' \in Nat /\ tip <= tip' /\ \A e \in Endpoints : ep[e].height <= ep'[e].height
  BY <1>0, <1>1
<1>2. ASSUME tip' = tip + 1, UNCHANGED ep PROVE tip' \in Nat /\ tip <= tip' /\ \A e \in Endpoints : ep[e].height <= ep'[e].height
  BY <1>0, <1>2
<1>3. ASSUME mined \subseteq mined' PROVE \A m \in Kept : m \in Kept'
  BY <1>3, Zenon DEF Kept, Never
<1>4. CASE ~ChainMoves
  BY <1>1, <1>3, <1>4, TasksKeepChain, Zenon
<1>5. CASE (\E t \in pool, ok \in BOOLEAN : Mine(t, ok)) \/ MineForeign \/ MineEmpty
  <2>1. tip' = tip + 1 /\ UNCHANGED ep /\ mined \subseteq mined'
    BY <1>5, Zenon DEF Mine, MineForeign, MineEmpty
  <2> QED BY <1>2, <1>3, <2>1, Zenon
<1>6. CASE (\E t \in net : Deliver(t)) \/ (\E t \in net \cup pool : Lose(t))
  <2>1. UNCHANGED <<tip, ep, mined>>
    BY <1>6, Zenon DEF Deliver, Lose
  <2> QED BY <1>1, <1>3, <2>1, Zenon
<1>7. CASE \E depth \in 1..MaxReorg : Reorg(depth)
  <2>1. UNCHANGED <<tip, ep>>
    BY <1>7, Zenon DEF Reorg
  <2> QED BY <1>1, <1>7, <2>1, ChainForks, Zenon
<1>8. ASSUME NEW e \in Endpoints, Sync(e)
      PROVE  tip' \in Nat /\ tip <= tip' /\ (\A d \in Endpoints : ep[d].height <= ep'[d].height) /\ mined' = mined
  <2>1. PICK height \in ep[e].height..tip : ep' = [ep EXCEPT ![e] = [fork |-> fork, height |-> height]]
    BY <1>8, Zenon DEF Sync
  <2>2. UNCHANGED <<tip, mined>>
    BY <1>8, Zenon DEF Sync
  <2>3. ep[e].height <= height
    BY <1>0, <2>1
  <2>4. ASSUME NEW d \in Endpoints PROVE ep[d].height <= ep'[d].height
    BY <1>0, <2>1, <2>3
  <2> QED BY <1>0, <2>2, <2>4
<1> QED BY <1>3, <1>4, <1>5, <1>6, <1>7, <1>8, Zenon DEF ChainMoves, ChainStep

LEMMA BuriedStays ==
  ASSUME ChainInv, [Next]_vars, NEW h \in Hashes, NEW ok, NEW confirmations \in Nat,
         rows'[h].nonce = rows[h].nonce, Buried(h, ok, confirmations)
  PROVE  Buried(h, ok, confirmations)'
<1>1. PICK m \in mined : /\ m.until = Never /\ m.tx = Submission(h) /\ m.ok = ok
                         /\ tip - m.number >= MaxReorg /\ tip - m.number + 1 >= confirmations
  BY Zenon DEF Buried
<1>2. m \in mined' /\ m.until = Never
  BY <1>1, KeptStays, Zenon DEF Kept, Never
<1>3. tip \in Nat /\ tip' \in Nat /\ tip <= tip' /\ m.number \in Nat /\ MaxReorg \in Nat
  BY KeptStays, ChainNats, Zenon
<1>4. tip' - m.number >= MaxReorg /\ tip' - m.number + 1 >= confirmations
  BY <1>1, <1>3
<1>5. m.tx = Submission(h)'
  BY <1>1, Zenon DEF Submission
<1> QED BY <1>1, <1>2, <1>4, <1>5, Zenon DEF Buried, Never

LEMMA LookStep ==
  ASSUME RowsInv, TasksInv, PoliciesOK, ChainInv, LookInv, Stays, [Next]_vars
  PROVE  LookInv'
<1>0. LookOK /\ ReadsOK /\ VerdictsOK /\ ReconcilesOK /\ ReconcileTasks
  BY Zenon DEF LookInv, TasksInv
<1>1. LookForm' /\ \A p \in Procs : CallMoves(p)
  BY CallsStep, Zenon
<1>a. NoLook.step = "raise" /\ IdleRc.pc = "idle"
  BY Zenon DEF NoLook, IdleRc
<1>2. ASSUME NEW p \in Procs PROVE rc'[p].pc \notin {"status"} \cup Verdicts => look'[p] = NoLook
  <2>1. CASE CallRests(p)
    BY <1>0, <2>1, Zenon DEF CallRests, LookOK
  <2>2. CASE CallEnds(p) \/ CallScans(p) \/ CallWalks(p)
    BY <2>2, Zenon DEF CallEnds, CallScans, CallWalks
  <2>3. CASE CallReads(p) \/ CallDecides(p) \/ CallGoesOn(p)
    BY <2>3, Zenon DEF CallReads, CallDecides, CallGoesOn, Verdicts
  <2> QED BY <1>1, <2>1, <2>2, <2>3, Zenon DEF CallMoves
<1>3. LookOK'
  BY <1>1, <1>2, Zenon DEF LookForm, LookOK
<1>4. \A e \in Endpoints : ep[e].height \in Nat /\ ep[e].height <= ep'[e].height /\ ep'[e].height \in Nat
  BY ChainNats, ChainKeeps, NetStep, KeptStays, Zenon DEF ChainInv, ChainOK
<1>5. ASSUME NEW p \in Procs, rc'[p].pc = "status"
      PROVE  /\ look'[p].step \in {"raise", "read", "head", "again"}
             /\ look'[p].step # "raise" => look'[p].required \in Nat /\ look'[p].required > MaxReorg
             /\ look'[p].step = "again" => look'[p].head \in Nat /\ \A e \in Endpoints : look'[p].head <= ep'[e].height
  <2>1. CASE CallRests(p)
    <3>1. /\ look[p].step \in {"raise", "read", "head", "again"}
          /\ look[p].step # "raise" => look[p].required \in Nat /\ look[p].required > MaxReorg
          /\ look[p].step = "again" => look[p].head \in Nat /\ \A e \in Endpoints : look[p].head <= ep[e].height
      BY <1>0, <1>5, <2>1, Zenon DEF CallRests, ReadsOK
    <3>2. look[p].step = "again" => \A e \in Endpoints : look[p].head <= ep'[e].height
      BY <1>4, <3>1
    <3> QED BY <2>1, <3>1, <3>2, Zenon DEF CallRests
  <2>2. CASE CallEnds(p) \/ CallScans(p) \/ CallWalks(p)
    BY <1>a, <1>5, <2>2, Zenon DEF CallEnds, CallScans, CallWalks
  <2>a. CASE CallDecides(p) \/ CallGoesOn(p)
    <3>1. rc'[p].pc # "status"
      BY <2>a, Zenon DEF CallDecides, CallGoesOn, Verdicts
    <3> QED BY <1>5, <3>1, Zenon
  <2>3. CASE CallReads(p)
    <3>1. CASE /\ look'[p].step = "read"
               /\ RaiseRequiredConfirmations(rc[p].cur, policy[p].depth)
               /\ look'[p].required = rows'[rc[p].cur].depth
      <4>1. rc[p].cur \in Hashes
        BY <1>0, <2>3, Zenon DEF CallReads, ReconcilesOK, ReconcileCall, RowPcs
      <4>2. policy[p].depth \in Nat /\ policy[p].depth > MaxReorg
        BY PolicyDepth, ConstantsAssumption, Zenon
      <4>3. rows'[rc[p].cur].depth \in Nat /\ rows'[rc[p].cur].depth >= policy[p].depth
        BY <3>1, <4>1, <4>2, RaisesRow, Zenon
      <4>4. \A k, n, m \in Nat : k > m /\ n >= k => n > m
        OBVIOUS
      <4>5. rows'[rc[p].cur].depth > MaxReorg
        BY <4>2, <4>3, <4>4, EvmAssumption, Zenon
      <4> QED BY <3>1, <4>3, <4>5, Zenon
    <3>2. CASE look'[p].step = "head" /\ look[p].step = "read" /\ look'[p].required = look[p].required
      BY <1>0, <2>3, <3>2, Zenon DEF CallReads, ReadsOK
    <3>3. CASE /\ look'[p].step = "again" /\ look[p].step = "head" /\ look'[p].required = look[p].required
               /\ look'[p].head = SafeBlockNumber
      <4>1. SafeBlockNumber \in Nat /\ \A e \in Endpoints : SafeBlockNumber <= ep[e].height
        BY <1>4 DEF SafeBlockNumber, Smaller, Endpoints
      <4>2. \A e \in Endpoints : SafeBlockNumber <= ep'[e].height
        BY <1>4, <4>1
      <4> QED BY <1>0, <2>3, <3>3, <4>1, <4>2, Zenon DEF CallReads, ReadsOK
    <3> QED BY <2>3, <3>1, <3>2, <3>3, Zenon DEF CallReads
  <2> QED BY <1>1, <2>1, <2>2, <2>a, <2>3, Zenon DEF CallMoves
<1>6. ReadsOK'
  BY <1>5, Zenon DEF ReadsOK
<1>7. ASSUME NEW p \in Procs, rc'[p].pc \in Verdicts
      PROVE  /\ look'[p].step \in {"overrun", "book"}
             /\ look'[p].confirmations \in Nat
             /\ look'[p].fee \in Fees \cup Overruns
             /\ Buried(rc[p].cur, rc[p].pc = "success", look[p].confirmations)'
             /\ look'[p].step = "book" /\ look'[p].fee > rows'[rc'[p].cur].reserved => relayer' = "quarantined"
  <2>4. ~CallEnds(p) /\ ~CallScans(p) /\ ~CallWalks(p) /\ ~CallReads(p)
    BY <1>a, <1>7, Zenon DEF CallEnds, CallScans, CallWalks, CallReads, Verdicts
  <2>0. PICK h \in Hashes : /\ h = rc[p].cur /\ rc'[p].cur = h
                            /\ rows'[h].nonce = rows[h].nonce /\ rows'[h].reserved = rows[h].reserved
    <3>b. {"status"} \cup Verdicts \subseteq RowPcs
      BY Zenon DEF Verdicts, RowPcs, Responses
    <3>1. rc'[p].cur = rc[p].cur /\ rc[p].pc \in RowPcs
      <4>1. CASE CallRests(p)
        BY <1>7, <3>b, <4>1, Zenon DEF CallRests
      <4>2. CASE CallDecides(p)
        BY <3>b, <4>2, Zenon DEF CallDecides, SameRow
      <4>3. CASE CallGoesOn(p)
        BY <1>7, <3>b, <4>3, Zenon DEF CallGoesOn, SameRow, Verdicts
      <4> QED BY <1>1, <2>4, <4>1, <4>2, <4>3, Zenon DEF CallMoves
    <3>2. rc[p].cur \in Hashes /\ rows[rc[p].cur].nonce # 0
      BY <1>0, <3>1, Zenon DEF ReconcilesOK, ReconcileCall, ReconcileTasks
    <3> QED BY <3>1, <3>2, Zenon DEF Stays
  <2>1. CASE CallRests(p)
    <3>1. /\ look[p].step \in {"overrun", "book"} /\ look[p].confirmations \in Nat /\ look[p].fee \in Fees \cup Overruns
          /\ Buried(h, rc[p].pc = "success", look[p].confirmations)
          /\ look[p].step = "book" /\ look[p].fee > rows[h].reserved => relayer = "quarantined"
      BY <1>0, <1>7, <2>0, <2>1, Zenon DEF CallRests, VerdictsOK
    <3>2. \A ok, c : ok = (rc[p].pc = "success") /\ c = look[p].confirmations => Buried(h, ok, c)'
      BY <2>0, <3>1, BuriedStays, Zenon
    <3>3. Buried(rc[p].cur, rc[p].pc = "success", look[p].confirmations)'
      BY <2>0, <2>1, <3>2, TaskIsBuried, Zenon DEF CallRests
    <3>4. relayer = "quarantined" => relayer' = "quarantined"
      BY Zenon DEF Stays
    <3> QED BY <2>0, <2>1, <3>1, <3>3, <3>4, Zenon DEF CallRests
  <2>2. CASE CallDecides(p)
    <3>1. /\ look'[p].confirmations \in Nat
          /\ Buried(h, rc'[p].pc = "success", look'[p].confirmations)
      BY <1>0, <2>0, <2>2, DecidesBuried, Zenon
    <3>2. /\ look'[p].fee \in Fees \cup Overruns
          /\ look'[p].step = IF look'[p].fee > rows[h].reserved THEN "overrun" ELSE "book"
      BY <2>0, <2>2, Zenon DEF CallDecides
    <3>3. \A ok, c : ok = (rc'[p].pc = "success") /\ c = look'[p].confirmations => Buried(h, ok, c)'
      BY <2>0, <3>1, BuriedStays, Zenon
    <3>4. Buried(rc[p].cur, rc[p].pc = "success", look[p].confirmations)'
      BY <2>0, <3>3, TaskIsBuried, Zenon
    <3> QED BY <2>0, <3>1, <3>2, <3>4, Zenon
  <2>3. CASE CallGoesOn(p)
    <3>1. /\ rc[p].pc \in Verdicts /\ rc'[p].pc = rc[p].pc /\ QuarantineRelayer
          /\ look[p].step = "overrun" /\ look'[p].step = "book"
          /\ look'[p].fee = look[p].fee /\ look'[p].confirmations = look[p].confirmations
      BY <1>7, <2>3, Zenon DEF CallGoesOn, Verdicts
    <3>2. /\ look[p].confirmations \in Nat /\ look[p].fee \in Fees \cup Overruns
          /\ Buried(h, rc[p].pc = "success", look[p].confirmations)
      BY <1>0, <2>0, <3>1, Zenon DEF VerdictsOK
    <3>3. \A ok, c : ok = (rc[p].pc = "success") /\ c = look[p].confirmations => Buried(h, ok, c)'
      BY <2>0, <3>2, BuriedStays, Zenon
    <3>4. Buried(rc[p].cur, rc[p].pc = "success", look[p].confirmations)'
      BY <2>0, <3>1, <3>3, TaskIsBuried, Zenon
    <3>5. relayer' = "quarantined"
      BY <3>1, Zenon DEF QuarantineRelayer
    <3> QED BY <3>1, <3>2, <3>4, <3>5, Zenon
  <2> QED BY <1>1, <2>1, <2>2, <2>3, <2>4, Zenon DEF CallMoves
<1>8. VerdictsOK'
  BY <1>7, Zenon DEF VerdictsOK
<1> QED BY <1>3, <1>6, <1>8, Zenon DEF LookInv

LEMMA BookedStep ==
  ASSUME RowsInv, TasksInv, PoliciesOK, ChainInv, LookInv, BookedIsBuried, Stays, [Next]_vars
  PROVE  BookedIsBuried'
<1> SUFFICES ASSUME NEW h \in Hashes, rows'[h].response \in Verdicts
             PROVE  Buried(h, rows[h].response = "success", 0)'
  BY Zenon DEF BookedIsBuried
<1>0. SUFFICES \A ok : ok = (rows'[h].response = "success") => Buried(h, ok, 0)'
  BY Zenon DEF Buried, Submission
<1>1. CASE rows'[h].response = rows[h].response
  <2>1. rows[h].state \in Terminal /\ rows'[h] = rows[h]
    BY <1>1, Zenon DEF RowsInv, SchemaChecks, Verdicts, Stays
  <2>2. Buried(h, rows[h].response = "success", 0)
    BY <1>1, Zenon DEF BookedIsBuried
  <2> QED BY <1>1, <2>1, <2>2, BuriedStays, Zenon
<1>2. CASE WorkerFails(h)
  <2>1. rows'[h].response = "protocol_failure"
    BY <1>2, FinishesRow, Zenon DEF WorkerFails
  <2> QED BY <2>1, Zenon DEF Verdicts
<1>3. CASE ReconcileBooks(h)
  <2>1. PICK p \in Procs : /\ rc[p].pc \in Verdicts /\ rc[p].cur = h
                           /\ MarkTerminal(h, rc[p].pc, look[p].fee, look[p].confirmations)
    BY <1>3, Zenon DEF ReconcileBooks
  <2>2. rows'[h].response = rc[p].pc /\ rows'[h].nonce = rows[h].nonce
    BY <2>1, FinishesRow, Zenon
  <2>3. look[p].confirmations \in Nat /\ Buried(h, rc[p].pc = "success", look[p].confirmations)
    BY <2>1, Zenon DEF LookInv, VerdictsOK
  <2>4. Buried(h, rc[p].pc = "success", 0)
    <3>1. PICK m \in mined : /\ m.until = Never /\ m.tx = Submission(h) /\ m.ok = (rc[p].pc = "success")
                             /\ tip - m.number >= MaxReorg
      BY <2>3, Zenon DEF Buried
    <3>2. tip - m.number + 1 >= 0
      BY <3>1, ChainNats
    <3> QED BY <3>1, <3>2, Zenon DEF Buried
  <2> QED BY <2>2, <2>4, BuriedStays, Zenon
<1> QED BY <1>1, <1>2, <1>3, ResponseStep, Zenon

LEMMA LimitsKeep ==
  ASSUME RowsInv, TasksInv, PoliciesOK, LookInv, LimitsInv, Stays, [Next]_vars
  PROVE  LimitsInv'
<1>1. CASE relayer = "quarantined"
  BY <1>1, Zenon DEF Stays, LimitsInv
<1>2. CASE relayer # "quarantined"
  <2>1. [JournalNext]_jvars
    BY <1>2, EngineUsesJournal, Zenon
  <2> QED BY <1>2, <2>1, LimitsStep, Zenon DEF LimitsInv
<1> QED BY <1>1, <1>2, Zenon

-----------------------------------------------------------------------------
(* The chain rail, for any number of processes.                            *)

LEMMA EngineInvInit == Init => EngineInv
<1> SUFFICES ASSUME Init PROVE EngineInv
  BY Zenon
<1>0. JournalInit /\ EngineInit /\ ChainInit /\ look = [p \in Procs |-> NoLook]
  BY Zenon DEF Init, EngineInit
<1>1. RowsInv
  BY <1>0, RowsInit, Zenon
<1>2. \A p \in Procs : rc[p] = IdleRc /\ look[p] = NoLook
  BY <1>0, Zenon DEF EngineInit
<1>3. WorkersOK /\ WorkerTasks
  BY <1>0, Zenon DEF EngineInit, WorkersOK, WorkerTasks, IdleWorker, WorkerPcs, At
<1>4. HandlersOK
  BY <1>0, Zenon DEF EngineInit, HandlersOK, IdleHandler
<1>5. ReconcilesOK /\ ReconcileTasks
  BY <1>0, <1>2, IdleCall, Zenon DEF EngineInit, ReconcilesOK, ReconcileTasks, IdleRc
<1>6. PoliciesOK
  BY Zenon DEF Init, PoliciesOK
<1>7. ChainInv
  <2>1. ChainOK
    <3>1. faults = 0 /\ MaxFaults \in Nat
      BY <1>0, EngineAssumption, Zenon DEF EngineInit
    <3>2. ep \in [Endpoints -> [fork: Nat, height: Nat]] /\ \A e \in Endpoints : ep[e].fork = 0 /\ ep[e].height = 0
      BY <1>0, Zenon DEF ChainInit
    <3> QED BY <1>0, <3>1, <3>2, FS_EmptySet DEF ChainInit, ChainOK
  <2>2. DeepIsKept /\ NoncesInOrder
    BY <1>0, Zenon DEF ChainInit, DeepIsKept, NoncesInOrder, Kept
  <2> QED BY <2>1, <2>2, Zenon DEF ChainInv
<1>8. SentIsJournaled
  BY <1>0, Zenon DEF ChainInit, SentIsJournaled, MinedTxs
<1>9. LookInv
  <2>1. LookOK
    BY <1>0, <1>2, NoLookFields, Zenon DEF LookOK
  <2>2. \A p \in Procs : rc[p].pc = "idle"
    BY <1>2 DEF IdleRc
  <2> QED BY <2>1, <2>2, Zenon DEF LookInv, ReadsOK, VerdictsOK, Verdicts
<1>10. BookedIsBuried
  BY <1>0, Zenon DEF JournalInit, BookedIsBuried, Verdicts, AbsentRow
<1>11. LimitsInv
  BY <1>0, ConstantsAssumption DEF JournalInit, LimitsInv, SponsorshipWithinLimits, Usage
<1> QED BY <1>1, <1>3, <1>4, <1>5, <1>6, <1>7, <1>8, <1>9, <1>10, <1>11, Zenon DEF EngineInv, TasksInv

LEMMA EngineInvStep == EngineInv /\ [Next]_vars => EngineInv'
<1> SUFFICES ASSUME EngineInv, [Next]_vars PROVE EngineInv'
  BY Zenon
<1>0. /\ RowsInv /\ TasksInv /\ PoliciesOK /\ ChainInv /\ SentIsJournaled
      /\ LookInv /\ BookedIsBuried /\ LimitsInv
  BY Zenon DEF EngineInv
<1>1. RowsInv' /\ Stays /\ TasksInv' /\ PoliciesOK'
  BY <1>0, TasksStep, Zenon
<1>2. ChainInv'
  BY <1>0, NetStep, ChainKeeps, Zenon DEF ChainInv
<1>3. SentIsJournaled'
  BY <1>0, <1>1, SentStep, Zenon
<1>4. LookInv' /\ BookedIsBuried' /\ LimitsInv'
  BY <1>0, <1>1, LookStep, BookedStep, LimitsKeep, Zenon
<1> QED BY <1>1, <1>2, <1>3, <1>4, Zenon DEF EngineInv

LEMMA EngineInvariant == Spec => []EngineInv
  BY EngineInvInit, EngineInvStep, PTL DEF Spec

\* The global daily budget is exceeded only by a fee above its reservation, and
\* then the signer is already quarantined: finalize_reconciled_terminal stores
\* the quarantine before it books such a fee.
THEOREM OverspendingIsQuarantined == Spec => []OverspentOnlyInQuarantine
<1>1. EngineInv => OverspentOnlyInQuarantine
  <2> SUFFICES ASSUME EngineInv, NEW d \in Days, relayer # "quarantined"
               PROVE  ~(globalUsage[d].reserved + globalUsage[d].spent > GlobalLimit)
    BY Zenon DEF OverspentOnlyInQuarantine
  <2>1. RowsInv /\ SponsorshipWithinLimits
    BY Zenon DEF EngineInv, LimitsInv
  <2>2. globalUsage[d].reserved \in Nat /\ globalUsage[d].spent \in Nat /\ GlobalLimit \in Nat
    BY <2>1, ConstantsAssumption, Zenon DEF RowsInv, JournalTypeOK
  <2>3. globalUsage[d].reserved + globalUsage[d].spent <= GlobalLimit
    BY <2>1, Zenon DEF SponsorshipWithinLimits, Usage
  <2> QED BY <2>2, <2>3
<1> QED BY <1>1, EngineInvariant, PTL

\* What the journal stores as the chain's verdict stays the chain's: the
\* submission of the row was mined with that result, deeper than any
\* reorganisation reaches.  The receipt, the head and the second receipt that
\* reconcile_with_confirmations decides on are read at different times from
\* endpoints that lag, and several processes may decide at once.
THEOREM BookedVerdictsStand == Spec => []BookedIsBuried
<1>1. EngineInv => BookedIsBuried
  BY Zenon DEF EngineInv
<1> QED BY <1>1, EngineInvariant, PTL

\* A transaction of the facilitator that is on its way, in a mempool or mined
\* is the one in the journal, marked as submitted before it was sent
\* (settle_prepared_evm and the rebroadcast of reconcile_prepared_evm).
THEOREM SubmissionsAreJournaled == Spec => []SentIsJournaled
<1>1. EngineInv => SentIsJournaled
  BY Zenon DEF EngineInv
<1> QED BY <1>1, EngineInvariant, PTL

-----------------------------------------------------------------------------
(* What is booked lies as deep as its row asks for.                        *)

LEMMA DepthInvStep ==
  ASSUME OneProcess, RowsInv, TasksInv, PoliciesOK, ChainInv, LookInv, DepthInv, Stays, [Next]_vars
  PROVE  DepthInv'
<1>1. ASSUME NEW h \in Hashes, rows'[h].response \in Verdicts,
             NEW ok, ok = (rows'[h].response = "success"), NEW depth, depth = rows'[h].depth
      PROVE  Buried(h, ok, depth)'
  <2>1. CASE rows'[h].response = rows[h].response
    <3>1. rows[h].state \in Terminal /\ rows'[h] = rows[h]
      BY <1>1, <2>1, Zenon DEF RowsInv, SchemaChecks, Verdicts, Stays
    <3>2. Buried(h, ok, depth) /\ depth \in Nat
      BY <1>1, <2>1, <3>1, DepthIsNat, Zenon DEF DepthInv
    <3> QED BY <3>1, <3>2, BuriedStays, Zenon
  <2>2. CASE WorkerFails(h)
    <3>1. rows'[h].response = "protocol_failure"
      BY <2>2, FinishesRow, Zenon DEF WorkerFails
    <3> QED BY <1>1, <3>1, Zenon DEF Verdicts
  <2>3. CASE ReconcileBooks(h)
    <3>1. PICK p \in Procs : /\ rc[p].pc \in Verdicts /\ rc[p].cur = h
                             /\ MarkTerminal(h, rc[p].pc, look[p].fee, look[p].confirmations)
      BY <2>3, Zenon DEF ReconcileBooks
    <3>2. rows'[h].response = rc[p].pc /\ rows'[h].nonce = rows[h].nonce /\ rows'[h].depth = rows[h].depth
      BY <3>1, FinishesRow, Zenon
    <3>3. PICK m \in mined : /\ m.until = Never /\ m.tx = Submission(h) /\ m.ok = ok
                             /\ tip - m.number >= MaxReorg
                             /\ tip - m.number + 1 >= look[p].confirmations
      <4>1. Buried(h, rc[p].pc = "success", look[p].confirmations)
        BY <3>1, Zenon DEF LookInv, VerdictsOK
      <4> QED BY <1>1, <3>2, <4>1, Zenon DEF Buried
    <3>4. depth \in Nat /\ look[p].confirmations \in Nat /\ look[p].confirmations >= depth
      BY <1>1, <3>1, <3>2, DepthIsNat, Zenon DEF LookInv, VerdictsOK, DepthInv
    <3>5. tip - m.number + 1 >= depth
      BY <3>3, <3>4, ChainNats
    <3>6. Buried(h, ok, depth)
      BY <3>3, <3>5, Zenon DEF Buried
    <3> QED BY <3>2, <3>4, <3>6, BuriedStays, Zenon
  <2> QED BY <2>1, <2>2, <2>3, ResponseStep, Zenon
<1>2. ASSUME NEW h \in Hashes, rows'[h].response \in Verdicts
      PROVE  Buried(h, rows[h].response = "success", rows[h].depth)'
  <2>1. PICK ok \in BOOLEAN : ok = (rows'[h].response = "success")
    BY Zenon
  <2>2. PICK depth : depth = rows'[h].depth
    BY Zenon
  <2> QED BY <1>1, <1>2, <2>1, <2>2, RowIsBuried, Zenon
<1> QED BY <1>2, CallDepthStep, Zenon DEF DepthInv

-----------------------------------------------------------------------------
(* The invariant of one process.                                           *)

LEMMA ContractInvInit == Init => ContractInv
<1> SUFFICES ASSUME Init PROVE ContractInv
  BY Zenon
<1>1. EngineInv
  BY EngineInvInit, Zenon
<1>2. \A w \in Workers : worker[w].pc = "idle"
  BY Zenon DEF Init, EngineInit, IdleWorker
<1>3. \A p \in Procs : rc[p].pc = "idle"
  BY Zenon DEF Init, EngineInit, IdleRc
<1>4. \A h \in Hashes : rows[h].state = "absent" /\ rows[h].response = "none"
  BY Zenon DEF Init, EngineInit, JournalInit, AbsentRow
<1>5. GatesOK /\ \A p \in Procs : ~gate[p].reconciliation
  BY Zenon DEF Init, EngineInit, ClosedGate, GatesOK, Gates
<1>6. GateInv
  BY <1>2, <1>3, <1>4, <1>5, Zenon DEF GateInv, Mutex, Holds, GateHeld, OpenMeansResolved, SignsFresh
<1>7. PolicyInv
  BY <1>2, <1>4, Zenon DEF Init, PolicyInv, At, Unresolved
<1>8. DepthInv /\ TerminalRows
  BY <1>3, <1>4, Zenon DEF DepthInv, TerminalRows, Verdicts, Terminal
<1> QED BY <1>1, <1>5, <1>6, <1>7, <1>8, Zenon DEF ContractInv

LEMMA ContractInvStep ==
  ASSUME OneProcess, ContractInv, [Next]_vars
  PROVE  ContractInv'
<1>1. /\ RowsInv /\ TasksInv /\ PoliciesOK /\ ChainInv /\ LookInv
      /\ EngineInv /\ GatesOK /\ GateInv /\ PolicyInv /\ DepthInv /\ TerminalRows
  BY Zenon DEF ContractInv, EngineInv
<1>2. EngineInv'
  BY <1>1, EngineInvStep, Zenon
<1>3. RowsInv' /\ Stays
  BY <1>1, JournalKeeps, Zenon
<1>4. GatesOK' /\ GateInv' /\ PolicyInv'
  BY <1>1, <1>3, GateInvStep, PolicyInvStep, Zenon
<1>5. DepthInv' /\ TerminalRows'
  BY <1>1, <1>3, DepthInvStep, TerminalRowsStep, Zenon
<1> QED BY <1>2, <1>4, <1>5, Zenon DEF ContractInv

LEMMA ContractInvariant == ASSUME OneProcess PROVE Spec => []ContractInv
<1>1. ContractInv /\ [Next]_vars => ContractInv'
  BY ContractInvStep, Zenon
<1> QED BY <1>1, ContractInvInit, PTL DEF Spec

\* With one process, nothing is unresolved while the reconciliation gate is
\* open and the signer mutex free, although every broadcast ends unresolved:
\* whoever lets go of the mutex with a stored submission closes the gate first
\* (settle_prepared_evm, reconcile_nonterminal_evm).
THEOREM GateIsSound == OneProcess => (Spec => []GateSound)
<1> SUFFICES ASSUME OneProcess PROVE Spec => []GateSound
  BY Zenon
<1>1. ContractInv => GateSound
  <2> SUFFICES ASSUME ContractInv, NEW p \in Procs, gate[p].reconciliation, LockFree(p),
                      NEW h \in Hashes, rows[h].state \in Unresolved
               PROVE  FALSE
    BY Zenon DEF GateSound, RowsIn, Unresolved
  <2>1. GateHeld /\ WorkersOK
    BY Zenon DEF ContractInv, GateInv, EngineInv, TasksInv
  <2>2. PICK w \in Workers : worker[w].pc \in {"submit", "recheck", "quarantine", "await"}
    BY <2>1, Zenon DEF GateHeld
  <2>3. Holds(w)
    BY <2>2, Zenon DEF Holds
  <2> QED BY <2>1, <2>3, NobodyHolds, Zenon
<1> QED BY <1>1, ContractInvariant, PTL

\* With one process, the stored bytes pass the checks recovery makes on them,
\* whatever the configuration was when the payment was admitted, released,
\* taken up again and signed: a restart with other caps or another depth
\* strands no transaction (evm_policy_snapshot, validate_stored_submission).
THEOREM OwnBytesPassRecovery == OneProcess => (Spec => []RecoveryAcceptsOwnBytes)
<1> SUFFICES ASSUME OneProcess PROVE Spec => []RecoveryAcceptsOwnBytes
  BY Zenon
<1>1. ContractInv => RecoveryAcceptsOwnBytes
  BY Zenon DEF ContractInv, PolicyInv, RecoveryAcceptsOwnBytes, AcceptsBytes, Unresolved
<1> QED BY <1>1, ContractInvariant, PTL

\* With one process, a verdict of the chain is recorded only once its
\* transaction lies as deep as the row requires, on the chain that survives
\* (reconcile_with_confirmations, raise_required_confirmations).
THEOREM TerminalsAreBuried == OneProcess => (Spec => []TerminalIsBuried)
<1> SUFFICES ASSUME OneProcess PROVE Spec => []TerminalIsBuried
  BY Zenon
<1>1. ContractInv => TerminalIsBuried
  <2> SUFFICES ASSUME ContractInv, NEW h \in Hashes, rows[h].response \in Verdicts
               PROVE  \E m \in Canonical : /\ m.tx = Submission(h)
                                           /\ m.ok = (rows[h].response = "success")
                                           /\ tip - m.number + 1 >= rows[h].depth
    BY Zenon DEF TerminalIsBuried, Verdicts
  <2>1. Canonical = Kept
    BY CanonicalIsKept, Zenon DEF ContractInv, EngineInv, ChainInv
  <2>2. Buried(h, rows[h].response = "success", rows[h].depth)
    BY Zenon DEF ContractInv, DepthInv
  <2> QED BY <2>1, <2>2, Zenon DEF Buried, Kept
<1> QED BY <1>1, ContractInvariant, PTL

-----------------------------------------------------------------------------
(* The refinement of Settlement.                                           *)

\* No two transactions that stay have the same nonce.
LEMMA NonceIsUnique ==
  ASSUME ChainInv, NEW m \in Kept, NEW k \in Kept, m.tx.nonce = k.tx.nonce
  PROVE  m = k
<1> DEFINE UpTo(n) == {j \in Kept : j.number <= n}
<1>0. IsFiniteSet(Kept) /\ Kept \subseteq mined /\ \A j \in Kept : j.number \in Nat
  BY CanonicalIsKept, ChainNats, Zenon DEF ChainInv, Kept
<1>1. ASSUME NEW a \in Kept, NEW b \in Kept, a.number < b.number PROVE a.tx.nonce # b.tx.nonce
  <2>1. UpTo(a.number) \subseteq UpTo(b.number) /\ IsFiniteSet(UpTo(b.number))
    BY <1>0, <1>1, FS_Subset
  <2>2. b \in UpTo(b.number) /\ b \notin UpTo(a.number)
    BY <1>0, <1>1
  <2>3. Cardinality(UpTo(a.number)) # Cardinality(UpTo(b.number))
    BY <2>1, <2>2, FS_Subset, Zenon
  <2> QED BY <2>3, Zenon DEF ChainInv, NoncesInOrder
<1>2. m.number = k.number
  BY <1>0, <1>1
<1> QED BY <1>2, Zenon DEF ChainInv, NoncesInOrder

\* What the journal tells of a payment is true.
LEMMA JournalTellsTruth == ContractInv => ToldIsTrue
<1> SUFFICES ASSUME ContractInv, NEW h \in Hashes, rows[h].state \in Terminal
             PROVE  rows[h].state = IF h \in Settled THEN "succeeded" ELSE "failed"
  BY Zenon DEF ToldIsTrue
<1>0. ChainInv /\ SentIsJournaled /\ BookedIsBuried /\ TerminalRows
  BY Zenon DEF ContractInv, EngineInv
<1>1. CASE h \in Settled
  <2>1. PICK m \in Kept : m.tx.hash = h /\ m.ok
    BY <1>1, Zenon DEF Settled
  <2>2. rows[h].nonce = m.tx.nonce /\ rows[h].nonce # 0
    BY <1>0, <2>1, Zenon DEF SentIsJournaled, Journaled, Kept
  <2>3. rows[h].response \in Verdicts /\ rows[h].state = TerminalState(rows[h].response)
    BY <1>0, <2>2, Zenon DEF TerminalRows
  <2>4. PICK k \in Kept : k.tx = Submission(h) /\ k.ok = (rows[h].response = "success")
    BY <1>0, <2>3, Zenon DEF BookedIsBuried, Buried, Kept
  <2>5. k = m
    BY <1>0, <2>2, <2>4, NonceIsUnique DEF Submission
  <2> QED BY <1>1, <2>1, <2>3, <2>4, <2>5, Zenon DEF TerminalState
<1>2. CASE h \notin Settled
  <2>1. rows[h].state = TerminalState(rows[h].response)
    BY <1>0, Zenon DEF TerminalRows
  <2>2. ASSUME rows[h].response = "success" PROVE FALSE
    <3>1. PICK m \in Kept : m.tx = Submission(h) /\ m.ok = TRUE /\ tip - m.number >= MaxReorg
      BY <1>0, <2>2, Zenon DEF BookedIsBuried, Buried, Kept, Verdicts
    <3> QED BY <1>2, <3>1 DEF Settled, Submission
  <2> QED BY <1>2, <2>1, <2>2, Zenon DEF TerminalState
<1> QED BY <1>1, <1>2, Zenon

\* A block settles at most the payment that it buries.
LEMMA SettledStep ==
  ASSUME ChainInv, ChainInv', [Next]_vars
  PROVE  /\ Settled \subseteq Settled'
         /\ \A g, h \in Settled' \ Settled : g = h
         /\ ~ChainMoves => Settled' = Settled
<1>0. tip \in Nat /\ tip' \in Nat /\ tip <= tip' /\ MaxReorg \in Nat /\ \A m \in Kept : m.number \in Nat
  BY ChainNats, KeptStays, Zenon DEF Kept
<1>1. ASSUME NEW h \in Settled PROVE h \in Settled'
  <2>1. PICK m \in Kept : h \in Hashes /\ m.tx.hash = h /\ m.ok /\ tip - m.number >= MaxReorg
    BY <1>1, Zenon DEF Settled
  <2>2. m \in Kept' /\ tip' - m.number >= MaxReorg
    BY <1>0, <2>1, KeptStays
  <2> QED BY <2>1, <2>2, Zenon DEF Settled
<1>2. tip' <= tip + 1 /\ \A m \in Kept' : m \in Kept \/ m.number = tip'
  <2>1. CASE UNCHANGED <<mined, tip>>
    BY <1>0, <2>1 DEF Kept, Never
  <2>2. ASSUME NEW t, NEW ok, tip' = tip + 1,
               mined' = mined \cup {[tx |-> t, ok |-> ok, number |-> tip + 1, fork |-> fork, until |-> Never]}
        PROVE  tip' <= tip + 1 /\ \A m \in Kept' : m \in Kept \/ m.number = tip'
    BY <1>0, <2>2 DEF Kept, Never
  <2>3. CASE MineEmpty
    BY <1>0, <2>3 DEF MineEmpty, Kept, Never
  <2>4. ASSUME NEW depth \in 1..MaxReorg, Reorg(depth)
        PROVE  tip' <= tip + 1 /\ \A m \in Kept' : m \in Kept \/ m.number = tip'
    <3>1. tip' = tip
      BY <2>4, Zenon DEF Reorg
    <3>2. \A m \in Kept' : m \in Kept
      BY <2>4, ChainForks, Zenon
    <3> QED BY <1>0, <3>1, <3>2
  <2>5. CASE (\E t \in pool, ok \in BOOLEAN : Mine(t, ok)) \/ MineForeign
    BY <2>2, <2>5, Zenon DEF Mine, MineForeign
  <2>6. CASE ~ChainMoves
    BY <2>1, <2>6, TasksKeepChain, Zenon
  <2>7. CASE (\E t \in net : Deliver(t)) \/ (\E t \in net \cup pool : Lose(t)) \/ \E e \in Endpoints : Sync(e)
    <3>1. UNCHANGED <<mined, tip>>
      BY <2>7, Zenon DEF Deliver, Lose, Sync
    <3> QED BY <2>1, <3>1, Zenon
  <2> QED BY <2>3, <2>4, <2>5, <2>6, <2>7, Zenon DEF ChainMoves, ChainStep
<1>3. ASSUME NEW h \in Settled' \ Settled
      PROVE  \E m \in Kept' : m.tx.hash = h /\ m.number + MaxReorg = tip'
  <2>1. PICK m \in Kept' : h \in Hashes /\ m.tx.hash = h /\ m.ok /\ tip' - m.number >= MaxReorg
    BY <1>3, Zenon DEF Settled
  <2>2. m \in Kept => ~(tip - m.number >= MaxReorg)
    BY <1>3, <2>1, Zenon DEF Settled
  <2> QED BY <1>0, <1>2, <2>1, <2>2
<1>4. ASSUME NEW g \in Settled' \ Settled, NEW h \in Settled' \ Settled PROVE g = h
  <2>1. PICK m \in Kept' : m.tx.hash = g /\ m.number + MaxReorg = tip'
    BY <1>3, Zenon
  <2>2. PICK k \in Kept' : k.tx.hash = h /\ k.number + MaxReorg = tip'
    BY <1>3, Zenon
  <2>3. m.number \in Nat /\ k.number \in Nat
    BY Zenon DEF ChainInv, ChainOK, Kept, MinedTxs
  <2>4. m.number = k.number
    <3>1. \A a, b, c, d \in Nat : a + c = d /\ b + c = d => a = b
      OBVIOUS
    <3> QED BY <1>0, <2>1, <2>2, <2>3, <3>1, Zenon
  <2> QED BY <2>1, <2>2, <2>4, Zenon DEF ChainInv, NoncesInOrder
<1>5. ASSUME ~ChainMoves PROVE Settled' = Settled
  BY <1>5, TasksKeepChain, Zenon DEF Settled, Kept, Never
<1> QED BY <1>1, <1>4, <1>5, Zenon

LEMMA Override ==
  ASSUME NEW S, NEW f, NEW g, NEW h \in S, NEW v,
         f = [x \in S |-> f[x]], g = [x \in S |-> IF x = h THEN v ELSE f[x]]
  PROVE  g = [f EXCEPT ![h] = v]
  BY Zenon

\* A step of the chain settles at most one payment, and none that has a verdict.
LEMMA TransferStep ==
  ASSUME ChainInv, ChainInv', ToldIsTrue, ToldIsTrue', [Next]_vars, ChainMoves \/ UNCHANGED vars
  PROVE  /\ Told' = Told
         /\ \/ Settled' = Settled
            \/ \E h \in Hashes : h \notin Settled /\ Told[h] = "none" /\ Settled' = Settled \cup {h}
<1>1. rows' = rows
  BY ChainFrame, Zenon DEF jvars
<1>2. ASSUME NEW h \in Settled' \ Settled
      PROVE  h \in Hashes /\ Told[h] = "none" /\ Settled' = Settled \cup {h}
  <2>1. h \in Hashes
    BY <1>2, Zenon DEF Settled
  <2>2. rows[h].state \notin Terminal
    BY <1>1, <1>2, <2>1, Zenon DEF ToldIsTrue
  <2> QED BY <1>2, <2>1, <2>2, SettledStep, Zenon DEF Told
<1>3. Told' = Told
  BY <1>1, Zenon DEF Told
<1> QED BY <1>2, <1>3, SettledStep, Zenon

\* Any other step gives at most one payment its verdict, and a true one.
LEMMA ReportStep ==
  ASSUME RowsInv, TasksInv, PoliciesOK, ChainInv, ChainInv', ToldIsTrue', Stays, [Next]_vars, ~ChainMoves
  PROVE  /\ Settled' = Settled
         /\ \/ Told' = Told
            \/ \E h \in Hashes, v \in Terminal :
                 /\ Told[h] = "none" /\ Told' = [Told EXCEPT ![h] = v]
                 /\ v = IF h \in Settled THEN "succeeded" ELSE "failed"
<1>1. Settled' = Settled
  BY SettledStep, Zenon
<1>2. CASE rows' = rows
  BY <1>1, <1>2, Zenon DEF Told
<1>3. ASSUME NEW h \in Hashes, \A g \in Hashes \ {h} : rows'[g] = rows[g] PROVE
        \/ Told' = Told
        \/ \E v \in Terminal :
             /\ Told[h] = "none" /\ Told' = [Told EXCEPT ![h] = v]
             /\ v = IF h \in Settled THEN "succeeded" ELSE "failed"
  <2>1. CASE rows[h].state \in Terminal \/ rows'[h].state \notin Terminal
    <3>1. rows[h].state \in Terminal => rows'[h] = rows[h]
      BY Zenon DEF Stays
    <3> QED BY <1>3, <2>1, <3>1, Zenon DEF Told
  <2>2. CASE rows[h].state \notin Terminal /\ rows'[h].state \in Terminal
    <3>1. PICK v \in Terminal : v = rows'[h].state
      BY <2>2, Zenon
    <3>2. v = IF h \in Settled THEN "succeeded" ELSE "failed"
      BY <1>1, <3>1, Zenon DEF ToldIsTrue
    <3>3. Told[h] = "none" /\ Told = [g \in Hashes |-> Told[g]]
      BY <2>2, Zenon DEF Told
    <3>4. Told' = [g \in Hashes |-> IF g = h THEN v ELSE Told[g]]
      BY <1>3, <3>1, Zenon DEF Told
    <3>5. Told' = [Told EXCEPT ![h] = v]
      BY <3>3, <3>4, Override, Zenon
    <3> QED BY <3>2, <3>3, <3>5, Zenon
  <2> QED BY <2>1, <2>2, Zenon
<1> QED BY <1>1, <1>2, <1>3, RowsMove, Zenon

\* With one process the engine implements Settlement also across
\* reorganisations: each payment is made for good at most once, gets at most
\* one verdict, a true one, and none is made for good after its caller was
\* told that it failed (settle_prepared_evm, reconcile_prepared_evm,
\* mark_terminal).
THEOREM ContractKept == OneProcess => (Spec => KeepsContract)
<1> SUFFICES ASSUME OneProcess PROVE Spec => KeepsContract
  BY Zenon
<1> DEFINE Final == {h \in Hashes : \E m \in Canonical : m.tx.hash = h /\ m.ok /\ tip - m.number >= MaxReorg}
<1>1. ContractInv => Final = Settled
  BY CanonicalIsKept, Zenon DEF ContractInv, EngineInv, ChainInv, Settled
<1>1b. ContractInv' => (Final = Settled)' /\ ToldIsTrue'
  BY <1>1, JournalTellsTruth, PTL
<1>2. Init => Contract!Init
  <2> SUFFICES ASSUME Init PROVE Contract!Init
    BY Zenon
  <2>1. Final = {}
    BY Zenon DEF Init, ChainInit, Canonical, ChainAt
  <2>2. \A h \in Hashes : rows[h].state = "absent"
    BY Zenon DEF Init, EngineInit, JournalInit, AbsentRow
  <2>3. Told = [h \in Hashes |-> "none"]
    BY <2>2, Zenon DEF Told, Terminal
  <2> QED BY <2>1, <2>3, Zenon DEF Contract!Init, Told
<1>3. ContractInv /\ ContractInv' /\ [Next]_vars => [Contract!Next]_<<Final, Told>>
  <2> SUFFICES ASSUME ContractInv, ContractInv', [Next]_vars, ~UNCHANGED <<Final, Told>> PROVE Contract!Next
    BY Zenon
  <2>0. /\ RowsInv /\ TasksInv /\ PoliciesOK /\ LookInv /\ ChainInv /\ ChainInv'
    BY Zenon DEF ContractInv, EngineInv
  <2>1. Final = Settled /\ Final' = Settled' /\ ToldIsTrue /\ ToldIsTrue'
    BY <1>1, <1>1b, JournalTellsTruth, Zenon
  <2>2. CASE ChainMoves \/ UNCHANGED vars
    <3>1. PICK h \in Hashes : h \notin Final /\ Told[h] = "none" /\ Final' = Final \cup {h}
      BY <2>0, <2>1, <2>2, TransferStep, Zenon
    <3>2. Told' = Told
      BY <2>0, <2>1, <2>2, TransferStep, Zenon
    <3>3. Contract!Transfer(h)
      BY <3>1, <3>2, Zenon DEF Contract!Transfer, Told
    <3> QED BY <3>3, Zenon DEF Contract!Next
  <2>3. CASE ~ChainMoves
    <3>1. Stays
      BY <2>0, JournalKeeps, Zenon
    <3>2. PICK h \in Hashes, v \in Terminal :
            /\ Told[h] = "none" /\ Told' = [Told EXCEPT ![h] = v]
            /\ v = IF h \in Final THEN "succeeded" ELSE "failed"
      BY <2>0, <2>1, <2>3, <3>1, ReportStep, Zenon
    <3>3. Final' = Final
      BY <2>0, <2>1, <2>3, <3>1, ReportStep, Zenon
    <3>4. Contract!Report(h, v)
      BY <3>2, <3>3, Zenon DEF Contract!Report, Told
    <3>5. \E u \in {"succeeded", "failed"} : Contract!Report(h, u)
      BY <3>4, Zenon DEF Terminal
    <3> QED BY <3>5, Zenon DEF Contract!Next
  <2> QED BY <2>2, <2>3, Zenon
<1>4. Spec => Contract!Init /\ [][Contract!Next]_<<Final, Told>>
  BY <1>2, <1>3, ContractInvariant, PTL DEF Spec
<1> QED BY <1>4, PTL DEF KeepsContract, Contract!Spec, Told
=============================================================================
