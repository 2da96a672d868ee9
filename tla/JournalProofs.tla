---------------------------- MODULE JournalProofs ----------------------------
(***************************************************************************)
(* Proofs about the settlement journal, for every number of payments,      *)
(* clients, requests and days.                                             *)
(*                                                                         *)
(* Everything rests on the row invariant RowsInv, which is inductive by    *)
(* itself.  LedgerExact needs its SchemaChecks (an active row carries      *)
(* exactly one Reservation) and OwnerKnown (the row's ledger exists), and  *)
(* is then inductive relative to it, as are the other invariants.          *)
(***************************************************************************)
EXTENDS Journal, FiniteSetTheorems, TLAPS

-----------------------------------------------------------------------------
(* Types.                                                                  *)

\* A column may be overwritten with a value of its type.
LEMMA RowUpdate ==
  ASSUME NEW r \in Row
  PROVE  /\ \A s \in SettlementState : [r EXCEPT !.state = s] \in Row
         /\ \A d \in Days : [r EXCEPT !.day = d] \in Row
         /\ \A amount \in {0, Reservation} : [r EXCEPT !.reserved = amount] \in Row
         /\ \A n \in 0..MaxAttempts : [r EXCEPT !.attempts = n] \in Row
         /\ \A n \in Nonces : [r EXCEPT !.nonce = n] \in Row
         /\ \A depth \in {0} \cup Depths : [r EXCEPT !.depth = depth] \in Row
         /\ \A response \in Responses : [r EXCEPT !.response = response] \in Row
  BY DEF Row

\* Reserving a budget keeps the ledgers well-typed.
LEMMA ReserveBudgetType ==
  ASSUME JournalTypeOK, NEW c \in Clients, ReserveBudget(c)
  PROVE  /\ globalUsage' \in [Days -> [reserved: Nat, spent: Nat]]
         /\ clientUsage' \in [Clients -> [Days -> [reserved: Nat, spent: Nat]]]
  BY ConstantsAssumption DEF JournalTypeOK, ReserveBudget

\* A ledger that holds at least what is given back stays well-typed.
LEMMA SettleType ==
  ASSUME NEW u \in [reserved: Nat, spent: Nat], NEW r \in Nat, NEW actual \in Nat, u.reserved >= r
  PROVE  Settle(u, r, actual) \in [reserved: Nat, spent: Nat]
<1>1. u.reserved \in Nat /\ u.spent \in Nat
  BY Zenon
<1>2. u.reserved - r \in Nat /\ u.spent + actual \in Nat
  BY <1>1
<1> QED BY <1>2, Zenon DEF Settle

\* Releasing a budget keeps the ledgers well-typed: the UPDATEs are
\* conditional on the ledger holding enough.
LEMMA ReleaseBudgetType ==
  ASSUME JournalTypeOK, NEW h \in Hashes, rows[h].client \in Clients,
         NEW actual \in Nat, ReleaseBudget(h, actual)
  PROVE  /\ globalUsage' \in [Days -> [reserved: Nat, spent: Nat]]
         /\ clientUsage' \in [Clients -> [Days -> [reserved: Nat, spent: Nat]]]
<1> DEFINE L == [reserved: Nat, spent: Nat]
           d == rows[h].day
           c == rows[h].client
           g == Settle(globalUsage[d], rows[h].reserved, actual)
           k == Settle(clientUsage[c][d], rows[h].reserved, actual)
<1>1. rows[h] \in Row /\ globalUsage \in [Days -> L] /\ clientUsage \in [Clients -> [Days -> L]]
  BY Zenon DEF JournalTypeOK
<1>2. d \in Days /\ c \in Clients /\ rows[h].reserved \in Nat
  BY <1>1, ConstantsAssumption DEF Row
<1>3. /\ globalUsage' = [globalUsage EXCEPT ![d] = g]
      /\ clientUsage' = [clientUsage EXCEPT ![c] = [clientUsage[c] EXCEPT ![d] = k]]
      /\ globalUsage[d].reserved >= rows[h].reserved
      /\ clientUsage[c][d].reserved >= rows[h].reserved
  BY Zenon DEF ReleaseBudget, Releasable
<1> HIDE DEF L, d, c, g, k
<1>4. globalUsage[d] \in L /\ clientUsage[c] \in [Days -> L] /\ clientUsage[c][d] \in L
  BY <1>1, <1>2, Zenon
<1>5. g \in L
  BY <1>2, <1>3, <1>4, SettleType, Zenon DEF L, g
<1>6. k \in L
  BY <1>2, <1>3, <1>4, SettleType, Zenon DEF L, k
<1>7. globalUsage' \in [Days -> L]
  BY <1>1, <1>2, <1>3, <1>5, Zenon
<1>8. [clientUsage[c] EXCEPT ![d] = k] \in [Days -> L]
  BY <1>2, <1>4, <1>6, Zenon
<1>9. clientUsage' \in [Clients -> [Days -> L]]
  BY <1>1, <1>2, <1>3, <1>8, Zenon
<1> QED BY <1>7, <1>9, Zenon DEF L

\* What a response can cost is a natural number not above the reservation.
LEMMA CostsBounded ==
  ASSUME NEW response \in Responses, NEW actual \in Costs(response)
  PROVE  actual \in Nat /\ actual <= Reservation
  BY ConstantsAssumption, FeesAssumption DEF Costs

\* The initial journal satisfies the row invariant.
LEMMA RowsInit == JournalInit => RowsInv
<1> SUFFICES ASSUME JournalInit PROVE RowsInv
  BY Zenon
<1>1. AbsentRow \in Row
  BY ConstantsAssumption DEF AbsentRow, Row, Days, Identifiers, Prints
<1>2. JournalTypeOK
  BY <1>1, ConstantsAssumption DEF JournalInit, JournalTypeOK, Days
<1>3. SchemaChecks /\ OwnerKnown
  BY Zenon DEF JournalInit, SchemaChecks, OwnerKnown, Exists, AbsentRow, Active, Terminal
<1> QED BY <1>2, <1>3, Zenon DEF RowsInv

\* Every transaction of the store preserves the row invariant.
LEMMA RowsStep == RowsInv /\ [JournalNext]_jvars => RowsInv'
<1> SUFFICES ASSUME RowsInv, [JournalNext]_jvars PROVE RowsInv'
  BY Zenon
<1> USE ConstantsAssumption
<1>1. ASSUME NEW r \in Requests, NEW limit \in ClientLimits, ClaimInsert(r, limit)
      PROVE  RowsInv'
  <2>1. r.hash \in Hashes /\ r.client \in Clients
    BY RequestsAssumption, Zenon
  <2>2. globalUsage' \in [Days -> [reserved: Nat, spent: Nat]] /\
        clientUsage' \in [Clients -> [Days -> [reserved: Nat, spent: Nat]]]
    BY <1>1, <2>1, ReserveBudgetType, Zenon DEF ClaimInsert, RowsInv
  <2>2a. r.ident \in Identifiers /\ r.fp \in Prints
    BY Zenon DEF Identifiers, Prints
  <2>2b. ReservedRow(r) \in Row
    BY <2>1, <2>2a DEF ReservedRow, Row, RowsInv, JournalTypeOK, SettlementState, Active
  <2>3. rows' \in [Hashes -> Row]
    BY <1>1, <2>1, <2>2b, Zenon DEF ClaimInsert, RowsInv, JournalTypeOK
  <2>4. JournalTypeOK'
    BY <1>1, <2>2, <2>3, Zenon DEF ClaimInsert, RowsInv, JournalTypeOK
  <2>5. SchemaChecks' /\ OwnerKnown'
    BY <1>1, <2>1, Zenon DEF ClaimInsert, ReservedRow, RowsInv, JournalTypeOK, SchemaChecks, OwnerKnown,
         Exists, Active, Terminal
  <2> QED BY <2>4, <2>5, Zenon DEF RowsInv
<1>2. ASSUME NEW h \in Hashes, MarkAwaitingRetry(h)
      PROVE  RowsInv'
  <2>1. rows[h].client \in Clients
    BY <1>2, Zenon DEF MarkAwaitingRetry, RowsInv, OwnerKnown, Exists
  <2>2. globalUsage' \in [Days -> [reserved: Nat, spent: Nat]] /\
        clientUsage' \in [Clients -> [Days -> [reserved: Nat, spent: Nat]]]
    BY <1>2, <2>1, ReleaseBudgetType, Zenon DEF MarkAwaitingRetry, RowsInv
  <2>6. [rows[h] EXCEPT !.state = "awaiting_retry"] \in Row
    BY RowUpdate, Zenon DEF RowsInv, JournalTypeOK, SettlementState
  <2>7. [[rows[h] EXCEPT !.state = "awaiting_retry"] EXCEPT !.reserved = 0] \in Row
    BY <2>6, RowUpdate, Zenon
  <2>3. rows' \in [Hashes -> Row]
    BY <1>2, <2>7, Zenon DEF MarkAwaitingRetry, RowsInv, JournalTypeOK
  <2>4. JournalTypeOK'
    BY <1>2, <2>2, <2>3, Zenon DEF MarkAwaitingRetry, RowsInv, JournalTypeOK
  <2>5. SchemaChecks' /\ OwnerKnown'
    BY <1>2 DEF MarkAwaitingRetry, RowsInv, JournalTypeOK, SchemaChecks, OwnerKnown,
         Exists, Active, Terminal
  <2> QED BY <2>4, <2>5, Zenon DEF RowsInv
<1>3. ASSUME NEW h \in Hashes, NEW limit \in ClientLimits, ResumeAwaitingRetry(h, limit)
      PROVE  RowsInv'
  <2>1. rows[h].client \in Clients
    BY <1>3, Zenon DEF ResumeAwaitingRetry, RowsInv, OwnerKnown, Exists
  <2>2. globalUsage' \in [Days -> [reserved: Nat, spent: Nat]] /\
        clientUsage' \in [Clients -> [Days -> [reserved: Nat, spent: Nat]]]
    BY <1>3, <2>1, ReserveBudgetType, Zenon DEF ResumeAwaitingRetry, RowsInv
  <2>3. rows[h] \in Row /\ today \in Days
    BY Zenon DEF RowsInv, JournalTypeOK
  <2>4. rows[h].attempts + 1 \in 0..MaxAttempts
    <3>1. rows[h].attempts \in 0..MaxAttempts /\ rows[h].attempts < MaxAttempts /\ MaxAttempts \in Nat
      BY <1>3, <2>3, Zenon DEF ResumeAwaitingRetry, Row
    <3> QED BY <3>1
  <2>5. [rows[h] EXCEPT !.state = "reserved"] \in Row
    BY <2>3, RowUpdate, Zenon DEF SettlementState, Active
  <2>6. [[rows[h] EXCEPT !.state = "reserved"] EXCEPT !.day = today] \in Row
    BY <2>3, <2>5, RowUpdate, Zenon
  <2>7. [[[rows[h] EXCEPT !.state = "reserved"] EXCEPT !.day = today] EXCEPT !.reserved = Reservation] \in Row
    BY <2>6, RowUpdate, Zenon
  <2>8. [[[[rows[h] EXCEPT !.state = "reserved"] EXCEPT !.day = today] EXCEPT !.reserved = Reservation]
            EXCEPT !.attempts = rows[h].attempts + 1] \in Row
    BY <2>4, <2>7, RowUpdate, Zenon
  <2>9. rows' \in [Hashes -> Row]
    BY <1>3, <2>8, Zenon DEF ResumeAwaitingRetry, RowsInv, JournalTypeOK
  <2>10. JournalTypeOK'
    BY <1>3, <2>2, <2>9, Zenon DEF ResumeAwaitingRetry, RowsInv, JournalTypeOK
  <2>11. /\ \A g \in Hashes \ {h} : rows'[g] = rows[g]
         /\ rows[h].state = "awaiting_retry" /\ rows'[h].state = "reserved"
         /\ rows'[h].reserved = Reservation
         /\ \A f \in {"client", "nonce", "depth", "response"} : rows'[h][f] = rows[h][f]
    BY <1>3 DEF ResumeAwaitingRetry, RowsInv, JournalTypeOK, Row
  <2>12. SchemaChecks'
    BY <2>11 DEF RowsInv, SchemaChecks, Active, Terminal
  <2>13. OwnerKnown'
    BY <2>11 DEF RowsInv, OwnerKnown, Exists
  <2> QED BY <2>10, <2>12, <2>13, Zenon DEF RowsInv
<1>4. ASSUME NEW h \in Hashes, NEW n \in Nonces, NEW depth \in Depths, MarkPrepared(h, n, depth)
      PROVE  RowsInv'
  <2>6. [rows[h] EXCEPT !.state = "prepared"] \in Row
    BY RowUpdate, Zenon DEF RowsInv, JournalTypeOK, SettlementState, Active
  <2>7. [[rows[h] EXCEPT !.state = "prepared"] EXCEPT !.nonce = n] \in Row
    BY <2>6, RowUpdate, Zenon
  <2>8. [[[rows[h] EXCEPT !.state = "prepared"] EXCEPT !.nonce = n] EXCEPT
           !.depth = IF Evm THEN depth ELSE 0] \in Row
    BY <2>7, RowUpdate, Zenon
  <2>1. rows' \in [Hashes -> Row]
    BY <1>4, <2>8, Zenon DEF MarkPrepared, RowsInv, JournalTypeOK
  <2>2. SchemaChecks' /\ OwnerKnown'
    BY <1>4 DEF MarkPrepared, RowsInv, JournalTypeOK, SchemaChecks, OwnerKnown,
         Exists, Active, Terminal
  <2> QED BY <1>4, <2>1, <2>2, Zenon DEF MarkPrepared, RowsInv, JournalTypeOK
<1>5. ASSUME NEW h \in Hashes, MarkSubmitted(h)
      PROVE  RowsInv'
  <2>7. [rows[h] EXCEPT !.state = "submitted"] \in Row
    BY RowUpdate, Zenon DEF RowsInv, JournalTypeOK, SettlementState, Active
  <2>1. rows' \in [Hashes -> Row]
    BY <1>5, <2>7, Zenon DEF MarkSubmitted, RowsInv, JournalTypeOK
  <2>2. SchemaChecks' /\ OwnerKnown'
    BY <1>5 DEF MarkSubmitted, RowsInv, JournalTypeOK, SchemaChecks, OwnerKnown,
         Exists, Active, Terminal
  <2> QED BY <1>5, <2>1, <2>2, Zenon DEF MarkSubmitted, RowsInv, JournalTypeOK
<1>6. ASSUME NEW h \in Hashes, NEW depth \in Depths, RaiseRequiredConfirmations(h, depth)
      PROVE  RowsInv'
  <2>6. rows[h].depth \in {0} \cup Depths
    BY Zenon DEF RowsInv, JournalTypeOK, Row
  <2>7. [rows[h] EXCEPT !.depth = IF rows[h].depth < depth THEN depth ELSE rows[h].depth] \in Row
    BY <2>6, RowUpdate, Zenon DEF RowsInv, JournalTypeOK
  <2>1. rows' \in [Hashes -> Row]
    BY <1>6, <2>7, Zenon DEF RaiseRequiredConfirmations, RowsInv, JournalTypeOK
  <2>2. SchemaChecks' /\ OwnerKnown'
    BY <1>6 DEF RaiseRequiredConfirmations, RowsInv, JournalTypeOK, SchemaChecks, OwnerKnown,
         Exists, Active, Terminal
  <2> QED BY <1>6, <2>1, <2>2, Zenon DEF RaiseRequiredConfirmations, RowsInv, JournalTypeOK
<1>7. ASSUME NEW h \in Hashes, NEW response \in Responses, NEW confirmations \in Depths,
             NEW actual \in Costs(response), MarkTerminal(h, response, actual, confirmations)
      PROVE  RowsInv'
  <2>1. rows[h].client \in Clients /\ actual \in Nat
    BY <1>7, CostsBounded, Zenon DEF MarkTerminal, TerminalAllowed, RowsInv, OwnerKnown, Exists
  <2>2. globalUsage' \in [Days -> [reserved: Nat, spent: Nat]] /\
        clientUsage' \in [Clients -> [Days -> [reserved: Nat, spent: Nat]]]
    BY <1>7, <2>1, ReleaseBudgetType, Zenon DEF MarkTerminal, RowsInv
  <2>6. [rows[h] EXCEPT !.state = TerminalState(response)] \in Row
    BY RowUpdate, Zenon DEF RowsInv, JournalTypeOK, SettlementState, TerminalState, Terminal
  <2>7. [[rows[h] EXCEPT !.state = TerminalState(response)] EXCEPT !.response = response] \in Row
    BY <2>6, RowUpdate, Zenon
  <2>3. rows' \in [Hashes -> Row]
    BY <1>7, <2>7, Zenon DEF MarkTerminal, RowsInv, JournalTypeOK
  <2>4. JournalTypeOK'
    BY <1>7, <2>2, <2>3, Zenon DEF MarkTerminal, RowsInv, JournalTypeOK
  <2>5. SchemaChecks' /\ OwnerKnown'
    BY <1>7 DEF MarkTerminal, TerminalAllowed, TerminalState, Responses, RowsInv, JournalTypeOK,
         SchemaChecks, OwnerKnown, Exists, Active, Terminal
  <2> QED BY <2>4, <2>5, Zenon DEF RowsInv
<1>8. CASE QuarantineRelayer
  BY <1>8, Zenon DEF QuarantineRelayer, RowsInv, JournalTypeOK, SchemaChecks, OwnerKnown, Exists
<1>9. CASE NextDay
  <2>1. JournalTypeOK'
    <3>1. today' \in Days
      BY <1>9 DEF NextDay, Days, RowsInv, JournalTypeOK
    <3> QED BY <1>9, <3>1, Zenon DEF NextDay, RowsInv, JournalTypeOK
  <2>2. SchemaChecks' /\ OwnerKnown'
    BY <1>9, Zenon DEF NextDay, RowsInv, SchemaChecks, OwnerKnown, Exists
  <2> QED BY <2>1, <2>2, Zenon DEF RowsInv
<1>10. CASE UNCHANGED jvars
  BY <1>10, Zenon DEF jvars, RowsInv, JournalTypeOK, SchemaChecks, OwnerKnown, Exists
<1> QED
  BY <1>1, <1>2, <1>3, <1>4, <1>5, <1>6, <1>7, <1>8, <1>9, <1>10, Zenon DEF JournalNext

\* The columns of the journal always hold values of their types, and no
\* sequence of store calls runs into a CHECK of the schema.
THEOREM RowsCorrect == JournalSpec => [](JournalTypeOK /\ SchemaChecks)
<1>1. JournalSpec => []RowsInv
  BY RowsInit, RowsStep, PTL DEF JournalSpec
<1>2. RowsInv => JournalTypeOK /\ SchemaChecks
  BY Zenon DEF RowsInv
<1> QED BY <1>1, <1>2, PTL

-----------------------------------------------------------------------------
(* The ledgers.                                                            *)

\* The rows of a day are finitely many, and one more or one less of them
\* changes the total reservation by one Reservation.
LEMMA ReservedTotal ==
  ASSUME NEW S \in SUBSET Hashes, NEW h \in Hashes
  PROVE  /\ Cardinality(S) \in Nat
         /\ h \notin S => Reservation * Cardinality(S \cup {h}) = Reservation * Cardinality(S) + Reservation
         /\ h \in S => Reservation * Cardinality(S \ {h}) = Reservation * Cardinality(S) - Reservation
<1>1. IsFiniteSet(S)
  BY ConstantsAssumption, FS_Subset, Zenon
<1>2. Cardinality(S) \in Nat
  BY <1>1, FS_CardinalityType, Zenon
<1>3. h \notin S => Cardinality(S \cup {h}) = Cardinality(S) + 1
  BY <1>1, FS_AddElement, Zenon
<1>4. h \in S => Cardinality(S \ {h}) = Cardinality(S) - 1
  BY <1>1, FS_RemoveElement, Zenon
<1>5. \A k \in Nat : Reservation * (k + 1) = Reservation * k + Reservation /\
                     Reservation * (k - 1) = Reservation * k - Reservation
  BY ConstantsAssumption
<1> QED BY <1>2, <1>3, <1>4, <1>5, Zenon

\* A row that becomes active today takes one reservation from both ledgers.
LEMMA LedgerReserve ==
  ASSUME RowsInv, LedgerExact, NEW h \in Hashes, NEW c \in Clients, ~IsActive(h),
         ReserveBudget(c), UNCHANGED today,
         \A g \in Hashes \ {h} : rows'[g] = rows[g],
         IsActive(h)', rows'[h].client = c, rows'[h].day = today
  PROVE  LedgerExact'
<1>1. /\ today \in Days
      /\ globalUsage \in [Days -> [reserved: Nat, spent: Nat]]
      /\ clientUsage \in [Clients -> [Days -> [reserved: Nat, spent: Nat]]]
  BY Zenon DEF RowsInv, JournalTypeOK
<1>2. SUFFICES ASSUME NEW d \in Days, NEW k \in Clients
               PROVE  /\ globalUsage'[d].reserved = Reservation * Cardinality(ActiveOn(d)')
                      /\ clientUsage'[k][d].reserved = Reservation * Cardinality(ClientActiveOn(k, d)')
  BY Zenon DEF LedgerExact
<1>3. /\ globalUsage[d].reserved = Reservation * Cardinality(ActiveOn(d))
      /\ clientUsage[k][d].reserved = Reservation * Cardinality(ClientActiveOn(k, d))
  BY Zenon DEF LedgerExact
<1>4. ActiveOn(d)' = IF d = today THEN ActiveOn(d) \cup {h} ELSE ActiveOn(d)
  BY Zenon DEF ActiveOn, IsActive
<1>5. ClientActiveOn(k, d)' =
        IF d = today /\ k = c THEN ClientActiveOn(k, d) \cup {h} ELSE ClientActiveOn(k, d)
  BY Zenon DEF ClientActiveOn, ActiveOn, IsActive
<1>6. h \notin ActiveOn(d) /\ h \notin ClientActiveOn(k, d)
  BY Zenon DEF ActiveOn, ClientActiveOn
<1>7. ActiveOn(d) \in SUBSET Hashes /\ ClientActiveOn(k, d) \in SUBSET Hashes
  BY Zenon DEF ActiveOn, ClientActiveOn
<1>8. globalUsage'[d].reserved =
        IF d = today THEN globalUsage[d].reserved + Reservation ELSE globalUsage[d].reserved
  BY <1>1, Zenon DEF ReserveBudget
<1>9. clientUsage'[k][d].reserved =
        IF d = today /\ k = c THEN clientUsage[k][d].reserved + Reservation
                              ELSE clientUsage[k][d].reserved
  BY <1>1 DEF ReserveBudget
<1>10. globalUsage'[d].reserved = Reservation * Cardinality(ActiveOn(d)')
  BY <1>3, <1>4, <1>6, <1>7, <1>8, ReservedTotal, Zenon
<1>11. clientUsage'[k][d].reserved = Reservation * Cardinality(ClientActiveOn(k, d)')
  BY <1>3, <1>5, <1>6, <1>7, <1>9, ReservedTotal, Zenon
<1> QED BY <1>10, <1>11, Zenon

\* A row that stops being active gives one reservation back to both ledgers,
\* on the day it was taken.
LEMMA LedgerRelease ==
  ASSUME RowsInv, LedgerExact, NEW h \in Hashes, NEW actual, IsActive(h), ReleaseBudget(h, actual),
         \A g \in Hashes \ {h} : rows'[g] = rows[g],
         ~IsActive(h)'
  PROVE  LedgerExact'
<1> DEFINE t == rows[h].day
           c == rows[h].client
<1>1. /\ t \in Days /\ c \in Clients /\ rows[h].reserved = Reservation
      /\ globalUsage \in [Days -> [reserved: Nat, spent: Nat]]
      /\ clientUsage \in [Clients -> [Days -> [reserved: Nat, spent: Nat]]]
  BY Zenon DEF RowsInv, JournalTypeOK, Row, SchemaChecks, OwnerKnown, Exists, IsActive, Active
<1>2. SUFFICES ASSUME NEW d \in Days, NEW k \in Clients
               PROVE  /\ globalUsage'[d].reserved = Reservation * Cardinality(ActiveOn(d)')
                      /\ clientUsage'[k][d].reserved = Reservation * Cardinality(ClientActiveOn(k, d)')
  BY <1>1, Zenon DEF LedgerExact
<1>3. /\ globalUsage[d].reserved = Reservation * Cardinality(ActiveOn(d))
      /\ clientUsage[k][d].reserved = Reservation * Cardinality(ClientActiveOn(k, d))
  BY Zenon DEF LedgerExact
<1>4. ActiveOn(d)' = IF d = t THEN ActiveOn(d) \ {h} ELSE ActiveOn(d)
  BY Zenon DEF ActiveOn, IsActive
<1>5. ClientActiveOn(k, d)' =
        IF d = t /\ k = c THEN ClientActiveOn(k, d) \ {h} ELSE ClientActiveOn(k, d)
  BY Zenon DEF ClientActiveOn, ActiveOn, IsActive
<1>6. (d = t => h \in ActiveOn(d)) /\ (d = t /\ k = c => h \in ClientActiveOn(k, d))
  BY Zenon DEF ActiveOn, ClientActiveOn
<1>7. ActiveOn(d) \in SUBSET Hashes /\ ClientActiveOn(k, d) \in SUBSET Hashes
  BY Zenon DEF ActiveOn, ClientActiveOn
<1>8. globalUsage'[d].reserved =
        IF d = t THEN globalUsage[d].reserved - Reservation ELSE globalUsage[d].reserved
  BY <1>1, Zenon DEF ReleaseBudget, Settle
<1>9. clientUsage'[k][d].reserved =
        IF d = t /\ k = c THEN clientUsage[k][d].reserved - Reservation
                          ELSE clientUsage[k][d].reserved
  BY <1>1, Zenon DEF ReleaseBudget, Settle
<1>10. globalUsage'[d].reserved = Reservation * Cardinality(ActiveOn(d)')
  BY <1>3, <1>4, <1>6, <1>7, <1>8, ReservedTotal, Zenon
<1>11. clientUsage'[k][d].reserved = Reservation * Cardinality(ClientActiveOn(k, d)')
  BY <1>3, <1>5, <1>6, <1>7, <1>9, ReservedTotal, Zenon
<1> QED BY <1>10, <1>11, Zenon

\* A step that changes neither who is active nor the ledgers keeps the balance.
LEMMA LedgerKeep ==
  ASSUME LedgerExact, UNCHANGED <<globalUsage, clientUsage>>,
         \A h \in Hashes : /\ rows'[h].state \in Active <=> rows[h].state \in Active
                           /\ rows'[h].day = rows[h].day
                           /\ rows'[h].client = rows[h].client
  PROVE  LedgerExact'
<1>1. \A d : ActiveOn(d)' = ActiveOn(d)
  BY Zenon DEF ActiveOn, IsActive
<1>2. \A c, d : ClientActiveOn(c, d)' = ClientActiveOn(c, d)
  BY Zenon DEF ClientActiveOn, ActiveOn, IsActive
<1> QED BY <1>1, <1>2, Zenon DEF LedgerExact

\* Every transaction of the store keeps the ledgers exact.
LEMMA LedgerStep == RowsInv /\ LedgerExact /\ [JournalNext]_jvars => LedgerExact'
<1> SUFFICES ASSUME RowsInv, LedgerExact, [JournalNext]_jvars PROVE LedgerExact'
  BY Zenon
<1>1. ASSUME NEW r \in Requests, NEW limit \in ClientLimits, ClaimInsert(r, limit)
      PROVE  LedgerExact'
  <2>1. r.hash \in Hashes /\ r.client \in Clients
    BY RequestsAssumption, Zenon
  <2>2. ~IsActive(r.hash)
    BY <1>1, Zenon DEF ClaimInsert, InsertConflicts, Exists, IsActive, Active
  <2>3. /\ \A g \in Hashes \ {r.hash} : rows'[g] = rows[g]
        /\ rows'[r.hash] = ReservedRow(r)
    BY <1>1, <2>1, Zenon DEF ClaimInsert, RowsInv, JournalTypeOK
  <2>4. IsActive(r.hash)' /\ rows'[r.hash].client = r.client /\ rows'[r.hash].day = today
    BY <2>3 DEF ReservedRow, IsActive, Active
  <2> QED BY <1>1, <2>1, <2>2, <2>3, <2>4, LedgerReserve, Zenon DEF ClaimInsert
<1>2. ASSUME NEW h \in Hashes, MarkAwaitingRetry(h)
      PROVE  LedgerExact'
  <2>1. IsActive(h) /\ ~IsActive(h)' /\ \A g \in Hashes \ {h} : rows'[g] = rows[g]
    BY <1>2, Zenon DEF MarkAwaitingRetry, IsActive, Active, RowsInv, JournalTypeOK, Row
  <2> QED BY <1>2, <2>1, LedgerRelease, Zenon DEF MarkAwaitingRetry
<1>3. ASSUME NEW h \in Hashes, NEW limit \in ClientLimits, ResumeAwaitingRetry(h, limit)
      PROVE  LedgerExact'
  <2>1. rows[h].client \in Clients
    BY <1>3, Zenon DEF ResumeAwaitingRetry, RowsInv, OwnerKnown, Exists
  <2>2. ~IsActive(h) /\ IsActive(h)' /\ \A g \in Hashes \ {h} : rows'[g] = rows[g]
    BY <1>3, Zenon DEF ResumeAwaitingRetry, IsActive, Active, RowsInv, JournalTypeOK, Row
  <2>3. rows'[h].client = rows[h].client /\ rows'[h].day = today
    BY <1>3 DEF ResumeAwaitingRetry, RowsInv, JournalTypeOK, Row
  <2> QED BY <1>3, <2>1, <2>2, <2>3, LedgerReserve, Zenon DEF ResumeAwaitingRetry
<1>4. ASSUME NEW h \in Hashes, NEW n \in Nonces, NEW depth \in Depths, MarkPrepared(h, n, depth)
      PROVE  LedgerExact'
  BY <1>4, LedgerKeep DEF MarkPrepared, Active, RowsInv, JournalTypeOK, Row
<1>5. ASSUME NEW h \in Hashes, MarkSubmitted(h)
      PROVE  LedgerExact'
  BY <1>5, LedgerKeep DEF MarkSubmitted, Active, RowsInv, JournalTypeOK, Row
<1>6. ASSUME NEW h \in Hashes, NEW depth \in Depths, RaiseRequiredConfirmations(h, depth)
      PROVE  LedgerExact'
  BY <1>6, LedgerKeep DEF RaiseRequiredConfirmations, Active, RowsInv, JournalTypeOK, Row
<1>7. ASSUME NEW h \in Hashes, NEW response \in Responses, NEW confirmations \in Depths,
             NEW actual \in Costs(response), MarkTerminal(h, response, actual, confirmations)
      PROVE  LedgerExact'
  <2>1. IsActive(h) /\ ~IsActive(h)' /\ \A g \in Hashes \ {h} : rows'[g] = rows[g]
    BY <1>7, Zenon DEF MarkTerminal, TerminalAllowed, TerminalState, IsActive, Active,
         RowsInv, JournalTypeOK, Row
  <2> QED BY <1>7, <2>1, LedgerRelease, Zenon DEF MarkTerminal
<1>8. CASE QuarantineRelayer
  BY <1>8, LedgerKeep, Zenon DEF QuarantineRelayer
<1>9. CASE NextDay
  BY <1>9, LedgerKeep, Zenon DEF NextDay
<1>10. CASE UNCHANGED jvars
  BY <1>10, LedgerKeep, Zenon DEF jvars
<1> QED
  BY <1>1, <1>2, <1>3, <1>4, <1>5, <1>6, <1>7, <1>8, <1>9, <1>10, Zenon DEF JournalNext

\* Exact ledgers always hold what an active row has to give back.
LEMMA ExactMeansReleasable == RowsInv /\ LedgerExact => ReleaseNeverFails
<1> SUFFICES ASSUME RowsInv, LedgerExact, NEW h \in Hashes, IsActive(h) PROVE Releasable(h)
  BY Zenon DEF ReleaseNeverFails
<1> DEFINE d == rows[h].day
           c == rows[h].client
<1>1. d \in Days /\ c \in Clients /\ rows[h].reserved = Reservation
  BY Zenon DEF RowsInv, JournalTypeOK, Row, SchemaChecks, OwnerKnown, Exists, IsActive, Active
<1>2. \A S \in SUBSET Hashes : h \in S => Reservation * Cardinality(S) >= Reservation
  <2>1. SUFFICES ASSUME NEW S \in SUBSET Hashes, h \in S
                 PROVE  Reservation * Cardinality(S) >= Reservation
    BY Zenon
  <2>2. Cardinality(S) \in Nat /\ Cardinality(S \ {h}) \in Nat
    BY ReservedTotal, Zenon
  <2>3. Reservation * Cardinality(S \ {h}) \in Nat /\ Reservation * Cardinality(S) \in Nat
    BY <2>2, ConstantsAssumption
  <2>4. Reservation * Cardinality(S \ {h}) = Reservation * Cardinality(S) - Reservation
    BY <2>1, ReservedTotal, Zenon
  <2> QED BY <2>3, <2>4, ConstantsAssumption
<1>3. /\ ActiveOn(d) \in SUBSET Hashes /\ h \in ActiveOn(d)
      /\ ClientActiveOn(c, d) \in SUBSET Hashes /\ h \in ClientActiveOn(c, d)
  BY Zenon DEF ActiveOn, ClientActiveOn
<1>4. /\ globalUsage[d].reserved = Reservation * Cardinality(ActiveOn(d))
      /\ clientUsage[c][d].reserved = Reservation * Cardinality(ClientActiveOn(c, d))
  BY <1>1, Zenon DEF LedgerExact
<1> QED BY <1>1, <1>2, <1>3, <1>4, Zenon DEF Releasable

\* An empty journal reserves nothing.
LEMMA LedgerInit == JournalInit => LedgerExact
<1> SUFFICES ASSUME JournalInit PROVE LedgerExact
  BY Zenon
<1>1. \A c, d : ActiveOn(d) = {} /\ ClientActiveOn(c, d) = {}
  BY Zenon DEF JournalInit, ActiveOn, ClientActiveOn, IsActive, Active, AbsentRow
<1>2. Reservation * Cardinality({}) = 0
  BY FS_EmptySet, ConstantsAssumption
<1> QED BY <1>1, <1>2, Zenon DEF JournalInit, LedgerExact

\* Both ledgers hold exactly one reservation for every reserved, prepared or
\* submitted row, on the day that row reserved it, and so release_budget never
\* finds too little: for any number of payments, clients and days.
THEOREM LedgerCorrect == JournalSpec => [](LedgerExact /\ ReleaseNeverFails)
<1>1. JournalInit => RowsInv /\ LedgerExact
  BY RowsInit, LedgerInit, Zenon
<1>2. RowsInv /\ LedgerExact /\ [JournalNext]_jvars => (RowsInv /\ LedgerExact)'
  BY RowsStep, LedgerStep, Zenon
<1>3. RowsInv /\ LedgerExact => LedgerExact /\ ReleaseNeverFails
  BY ExactMeansReleasable, Zenon
<1> QED BY <1>1, <1>2, <1>3, PTL DEF JournalSpec

-----------------------------------------------------------------------------
(* Limits, ownership and permanence.                                       *)

\* Settling a reservation never makes a ledger fuller.
LEMMA SettleLowers ==
  ASSUME NEW u \in [reserved: Nat, spent: Nat], u.reserved >= Reservation,
         NEW actual \in Nat, actual <= Reservation
  PROVE  /\ Usage(u) \in Nat \ {0}
         /\ Usage(Settle(u, Reservation, actual)) \in 0..Usage(u)
<1>1. u.reserved \in Nat /\ u.spent \in Nat /\ Reservation \in Nat \ {0}
  BY ConstantsAssumption, Zenon
<1>2. Usage(Settle(u, Reservation, actual)) = u.reserved - Reservation + (u.spent + actual)
  BY Zenon DEF Usage, Settle
<1> QED BY <1>1, <1>2 DEF Usage

\* What is lower than a ledger within a limit is within the limit.
LEMMA LowerIsWithin ==
  ASSUME NEW high \in Nat, NEW low \in 0..high, NEW bound \in Nat, high <= bound
  PROVE  low <= bound
  OBVIOUS

\* Reserving checks the limit, releasing never adds more than it takes.
LEMMA LimitsStep ==
  RowsInv /\ SponsorshipWithinLimits /\ [JournalNext]_jvars => SponsorshipWithinLimits'
<1> SUFFICES ASSUME RowsInv, SponsorshipWithinLimits, [JournalNext]_jvars
             PROVE  SponsorshipWithinLimits'
  BY Zenon
<1> USE ConstantsAssumption
<1>0. /\ today \in Days
      /\ globalUsage \in [Days -> [reserved: Nat, spent: Nat]]
      /\ clientUsage \in [Clients -> [Days -> [reserved: Nat, spent: Nat]]]
  BY Zenon DEF RowsInv, JournalTypeOK
<1>a. ASSUME NEW c \in Clients, NEW limit \in ClientLimits, BudgetFits(c, limit), ReserveBudget(c)
      PROVE  SponsorshipWithinLimits'
  <2>1. ASSUME NEW d \in Days PROVE Usage(globalUsage'[d]) <= GlobalLimit
    BY <1>a, <1>0 DEF BudgetFits, ReserveBudget, SponsorshipWithinLimits, Usage
  <2>2. ASSUME NEW d \in Days, NEW k \in Clients
        PROVE  Usage(clientUsage'[k][d]) = 0 \/ \E l \in ClientLimits : Usage(clientUsage'[k][d]) <= l
    <3>1. CASE k = c /\ d = today
      BY <1>a, <1>0, <3>1 DEF BudgetFits, ReserveBudget, Usage
    <3>2. CASE ~(k = c /\ d = today)
      <4>1. clientUsage'[k][d] = clientUsage[k][d]
        BY <1>a, <1>0, <3>2, Zenon DEF ReserveBudget
      <4> QED BY <4>1, Zenon DEF SponsorshipWithinLimits
    <3> QED BY <3>1, <3>2, Zenon
  <2> QED BY <2>1, <2>2, Zenon DEF SponsorshipWithinLimits
<1>b. ASSUME NEW h \in Hashes, IsActive(h), NEW actual \in Nat, actual <= Reservation,
             ReleaseBudget(h, actual)
      PROVE  SponsorshipWithinLimits'
  <2> DEFINE t == rows[h].day
             c == rows[h].client
  <2>0. t \in Days /\ c \in Clients /\ rows[h].reserved = Reservation
    BY <1>b, Zenon DEF RowsInv, JournalTypeOK, Row, SchemaChecks, OwnerKnown, Exists, IsActive, Active
  <2>1. ASSUME NEW d \in Days PROVE Usage(globalUsage'[d]) <= GlobalLimit
    <3>1. CASE d = t
      <4>1. /\ globalUsage'[t] = Settle(globalUsage[t], Reservation, actual)
            /\ globalUsage[t].reserved >= Reservation
        BY <1>b, <1>0, <2>0, Zenon DEF ReleaseBudget, Releasable
      <4>2. globalUsage[t] \in [reserved: Nat, spent: Nat] /\ Usage(globalUsage[t]) <= GlobalLimit
        BY <1>0, <2>0, Zenon DEF SponsorshipWithinLimits
      <4>3. /\ Usage(globalUsage[t]) \in Nat
            /\ Usage(globalUsage'[t]) \in 0..Usage(globalUsage[t])
        BY <1>b, <4>1, <4>2, SettleLowers, Zenon
      <4> QED BY <3>1, <4>2, <4>3
    <3>2. CASE d # t
      <4>1. globalUsage'[d] = globalUsage[d]
        BY <1>b, <1>0, <2>0, <3>2, Zenon DEF ReleaseBudget
      <4> QED BY <4>1, Zenon DEF SponsorshipWithinLimits
    <3> QED BY <3>1, <3>2, Zenon
  <2>2. ASSUME NEW d \in Days, NEW k \in Clients
        PROVE  Usage(clientUsage'[k][d]) = 0 \/ \E l \in ClientLimits : Usage(clientUsage'[k][d]) <= l
    <3>1. CASE k = c /\ d = t
      <4>1. /\ clientUsage'[c][t] = Settle(clientUsage[c][t], Reservation, actual)
            /\ clientUsage[c][t].reserved >= Reservation
        BY <1>b, <1>0, <2>0, Zenon DEF ReleaseBudget, Releasable
      <4>2. clientUsage[c][t] \in [reserved: Nat, spent: Nat]
        BY <1>0, <2>0
      <4>3. /\ Usage(clientUsage[c][t]) \in Nat \ {0}
            /\ Usage(clientUsage'[c][t]) \in 0..Usage(clientUsage[c][t])
        BY <1>b, <4>1, <4>2, SettleLowers, Zenon
      <4>4. PICK l \in ClientLimits : Usage(clientUsage[c][t]) <= l
        BY <2>0, <4>3, Zenon DEF SponsorshipWithinLimits
      <4> HIDE DEF c, t
      <4>5. l \in Nat /\ Usage(clientUsage[c][t]) \in Nat
        BY <4>3, ConstantsAssumption, Zenon
      <4>6. Usage(clientUsage'[c][t]) <= l
        BY <4>3, <4>4, <4>5, LowerIsWithin, Zenon
      <4> QED BY <3>1, <4>6, Zenon
    <3>2. CASE ~(k = c /\ d = t)
      <4>1. clientUsage'[k][d] = clientUsage[k][d]
        BY <1>b, <1>0, <2>0, <3>2, Zenon DEF ReleaseBudget
      <4> QED BY <4>1, Zenon DEF SponsorshipWithinLimits
    <3> QED BY <3>1, <3>2, Zenon
  <2> QED BY <2>1, <2>2, Zenon DEF SponsorshipWithinLimits
<1>c. ASSUME UNCHANGED <<globalUsage, clientUsage>> PROVE SponsorshipWithinLimits'
  BY <1>c, Zenon DEF SponsorshipWithinLimits
<1>1. ASSUME NEW r \in Requests, NEW limit \in ClientLimits, ClaimInsert(r, limit)
      PROVE  SponsorshipWithinLimits'
  BY <1>1, <1>a, RequestsAssumption, Zenon DEF ClaimInsert
<1>2. ASSUME NEW h \in Hashes, MarkAwaitingRetry(h)
      PROVE  SponsorshipWithinLimits'
  BY <1>2, <1>b DEF MarkAwaitingRetry, IsActive, Active
<1>3. ASSUME NEW h \in Hashes, NEW limit \in ClientLimits, ResumeAwaitingRetry(h, limit)
      PROVE  SponsorshipWithinLimits'
  <2>1. rows[h].client \in Clients
    BY <1>3, Zenon DEF ResumeAwaitingRetry, RowsInv, OwnerKnown, Exists
  <2> QED BY <1>3, <1>a, <2>1, Zenon DEF ResumeAwaitingRetry
<1>4. ASSUME NEW h \in Hashes, NEW response \in Responses, NEW confirmations \in Depths,
             NEW actual \in Costs(response), MarkTerminal(h, response, actual, confirmations)
      PROVE  SponsorshipWithinLimits'
  <2>1. actual \in Nat /\ actual <= Reservation
    BY CostsBounded, Zenon
  <2>2. IsActive(h)
    BY <1>4, Zenon DEF MarkTerminal, TerminalAllowed, IsActive, Active
  <2> QED BY <1>4, <1>b, <2>1, <2>2, Zenon DEF MarkTerminal
<1> QED
  BY <1>1, <1>2, <1>3, <1>4, <1>c, Zenon
     DEF JournalNext, MarkPrepared, MarkSubmitted, RaiseRequiredConfirmations,
         QuarantineRelayer, NextDay, jvars

\* What is reserved plus what was spent on a day stays within the global daily
\* budget and within a budget its client was given, whatever the fees and
\* wherever midnight falls.
THEOREM LimitsCorrect == JournalSpec => []SponsorshipWithinLimits
<1>1. JournalInit => SponsorshipWithinLimits
  BY ConstantsAssumption DEF JournalInit, SponsorshipWithinLimits, Usage
<1> QED BY <1>1, RowsInit, RowsStep, LimitsStep, PTL DEF JournalSpec

\* What identifies a row survives every transaction but the claim of another.
LEMMA OwnedStep == RowsInv /\ OwnedOnce /\ [JournalNext]_jvars => OwnedOnce'
<1> SUFFICES ASSUME RowsInv, OwnedOnce, [JournalNext]_jvars PROVE OwnedOnce'
  BY Zenon
<1> USE ConstantsAssumption
<1>a. ASSUME \A h \in Hashes : /\ Exists(h)' => Exists(h)
                               /\ rows'[h].client = rows[h].client
                               /\ rows'[h].ident = rows[h].ident
                               /\ rows'[h].nonce = rows[h].nonce
      PROVE  OwnedOnce'
  BY <1>a DEF OwnedOnce
<1>1. ASSUME NEW r \in Requests, NEW limit \in ClientLimits, ClaimInsert(r, limit)
      PROVE  OwnedOnce'
  <2>1. r.hash \in Hashes
    BY RequestsAssumption, Zenon
  <2>2. /\ \A g \in Hashes \ {r.hash} : rows'[g] = rows[g]
        /\ rows'[r.hash] = ReservedRow(r)
    BY <1>1, <2>1, Zenon DEF ClaimInsert, RowsInv, JournalTypeOK
  <2>3. \A g \in Hashes : Exists(g) =>
          /\ AnchorOf[g] # AnchorOf[r.hash]
          /\ ~(r.ident # NoId /\ rows[g].client = r.client /\ rows[g].ident = r.ident)
    BY <1>1, Zenon DEF ClaimInsert, InsertConflicts, AnchorIsClaimed, IdentifierRows
  <2>4. /\ rows'[r.hash].ident = r.ident /\ rows'[r.hash].client = r.client
        /\ rows'[r.hash].nonce = 0
    BY <2>2 DEF ReservedRow
  <2>5. ASSUME NEW g \in Hashes, NEW h \in Hashes, g # h, Exists(g)', Exists(h)'
        PROVE  /\ AnchorOf[g] # AnchorOf[h]
               /\ rows'[g].ident # NoId =>
                    <<rows'[g].client, rows'[g].ident>> # <<rows'[h].client, rows'[h].ident>>
               /\ rows'[g].nonce # 0 => rows'[g].nonce # rows'[h].nonce
    <3>1. CASE g = r.hash
      <4>1. Exists(h) /\ rows'[h] = rows[h]
        BY <2>2, <2>5, <3>1, Zenon DEF Exists
      <4> QED BY <2>3, <2>4, <3>1, <4>1, Zenon
    <3>2. CASE h = r.hash
      <4>1. Exists(g) /\ rows'[g] = rows[g]
        BY <2>2, <2>5, <3>2, Zenon DEF Exists
      <4> QED BY <2>3, <2>4, <3>2, <4>1, Zenon
    <3>3. CASE g # r.hash /\ h # r.hash
      <4>1. Exists(g) /\ Exists(h) /\ rows'[g] = rows[g] /\ rows'[h] = rows[h]
        BY <2>2, <2>5, <3>3, Zenon DEF Exists
      <4> QED BY <2>5, <4>1, Zenon DEF OwnedOnce
    <3> QED BY <3>1, <3>2, <3>3, Zenon
  <2> QED BY <2>5, Zenon DEF OwnedOnce
<1>2. ASSUME NEW h \in Hashes, NEW n \in Nonces, NEW depth \in Depths, MarkPrepared(h, n, depth)
      PROVE  OwnedOnce'
  <2>1. /\ \A g \in Hashes \ {h} : rows'[g] = rows[g] /\ rows[g].nonce # n
        /\ Exists(h) /\ rows'[h].client = rows[h].client /\ rows'[h].ident = rows[h].ident
        /\ rows'[h].nonce = n
    BY <1>2 DEF MarkPrepared, NonceIsFree, Exists, RowsInv, JournalTypeOK, Row
  <2> QED BY <2>1 DEF OwnedOnce, Exists
<1>3. ASSUME NEW h \in Hashes, MarkAwaitingRetry(h) PROVE OwnedOnce'
  BY <1>3, <1>a DEF MarkAwaitingRetry, Exists, RowsInv, JournalTypeOK, Row
<1>4. ASSUME NEW h \in Hashes, NEW limit \in ClientLimits, ResumeAwaitingRetry(h, limit)
      PROVE  OwnedOnce'
  BY <1>4, <1>a DEF ResumeAwaitingRetry, Exists, RowsInv, JournalTypeOK, Row
<1>5. ASSUME NEW h \in Hashes, MarkSubmitted(h) PROVE OwnedOnce'
  BY <1>5, <1>a DEF MarkSubmitted, Exists, RowsInv, JournalTypeOK, Row
<1>6. ASSUME NEW h \in Hashes, NEW depth \in Depths, RaiseRequiredConfirmations(h, depth)
      PROVE  OwnedOnce'
  BY <1>6, <1>a DEF RaiseRequiredConfirmations, Exists, RowsInv, JournalTypeOK, Row
<1>7. ASSUME NEW h \in Hashes, NEW response \in Responses, NEW confirmations \in Depths,
             NEW actual \in Costs(response), MarkTerminal(h, response, actual, confirmations)
      PROVE  OwnedOnce'
  BY <1>7, <1>a DEF MarkTerminal, TerminalAllowed, Exists, RowsInv, JournalTypeOK, Row
<1>8. CASE UNCHANGED rows
  BY <1>8, <1>a, Zenon DEF Exists
<1> QED
  BY <1>1, <1>2, <1>3, <1>4, <1>5, <1>6, <1>7, <1>8, Zenon DEF JournalNext, QuarantineRelayer, NextDay, jvars

\* A signer slot is taken only when it is free.
LEMMA SignerStep == RowsInv /\ OneActiveSigner /\ [JournalNext]_jvars => OneActiveSigner'
<1> SUFFICES ASSUME RowsInv, OneActiveSigner, [JournalNext]_jvars PROVE OneActiveSigner'
  BY Zenon
<1>a. ASSUME \A h \in Hashes : IsActive(h)' => IsActive(h) PROVE OneActiveSigner'
  BY <1>a, Zenon DEF OneActiveSigner
<1>b. ASSUME NEW h \in Hashes, ~ActiveSignerExists, \A g \in Hashes \ {h} : rows'[g] = rows[g]
      PROVE  OneActiveSigner'
  BY <1>b, Zenon DEF OneActiveSigner, ActiveSignerExists, IsActive
<1>1. ASSUME NEW r \in Requests, NEW limit \in ClientLimits, ClaimInsert(r, limit)
      PROVE  OneActiveSigner'
  BY <1>1, <1>b, RequestsAssumption, Zenon DEF ClaimInsert, InsertConflicts, RowsInv, JournalTypeOK
<1>2. ASSUME NEW h \in Hashes, NEW limit \in ClientLimits, ResumeAwaitingRetry(h, limit)
      PROVE  OneActiveSigner'
  BY <1>2, <1>b, Zenon DEF ResumeAwaitingRetry, RowsInv, JournalTypeOK, Row
<1>3. ASSUME NEW h \in Hashes, IsActive(h), \A g \in Hashes \ {h} : rows'[g] = rows[g]
      PROVE  OneActiveSigner'
  BY <1>3, <1>a, Zenon DEF IsActive
<1>4. ASSUME NEW h \in Hashes, MarkAwaitingRetry(h) PROVE OneActiveSigner'
  BY <1>3, <1>4, Zenon DEF MarkAwaitingRetry, IsActive, Active, RowsInv, JournalTypeOK, Row
<1>5. ASSUME NEW h \in Hashes, NEW n \in Nonces, NEW depth \in Depths, MarkPrepared(h, n, depth)
      PROVE  OneActiveSigner'
  BY <1>3, <1>5, Zenon DEF MarkPrepared, IsActive, Active, RowsInv, JournalTypeOK, Row
<1>6. ASSUME NEW h \in Hashes, MarkSubmitted(h) PROVE OneActiveSigner'
  BY <1>3, <1>6, Zenon DEF MarkSubmitted, IsActive, Active, RowsInv, JournalTypeOK, Row
<1>7. ASSUME NEW h \in Hashes, NEW depth \in Depths, RaiseRequiredConfirmations(h, depth)
      PROVE  OneActiveSigner'
  BY <1>3, <1>7, Zenon DEF RaiseRequiredConfirmations, IsActive, Active, RowsInv, JournalTypeOK, Row
<1>8. ASSUME NEW h \in Hashes, NEW response \in Responses, NEW confirmations \in Depths,
             NEW actual \in Costs(response), MarkTerminal(h, response, actual, confirmations)
      PROVE  OneActiveSigner'
  BY <1>3, <1>8, Zenon DEF MarkTerminal, TerminalAllowed, IsActive, Active, RowsInv, JournalTypeOK, Row
<1>9. CASE UNCHANGED rows
  BY <1>9, <1>a, Zenon DEF IsActive
<1> QED
  BY <1>1, <1>2, <1>4, <1>5, <1>6, <1>7, <1>8, <1>9, Zenon DEF JournalNext, QuarantineRelayer, NextDay, jvars

\* A chain anchor, a client's identifier and a nonce belong to one row for
\* ever (claim_settlement, mark_prepared and the unique indexes).
THEOREM OwnershipCorrect == JournalSpec => []OwnedOnce
<1>1. JournalInit => OwnedOnce
  BY DEF JournalInit, OwnedOnce, Exists, AbsentRow
<1> QED BY <1>1, RowsInit, RowsStep, OwnedStep, PTL DEF JournalSpec

\* An eip155 signer never has two settlements in flight, however claims,
\* resumes and terminalizations interleave (active_signer_exists).
THEOREM SignerSlotCorrect == JournalSpec => []OneActiveSigner
<1>1. JournalInit => OneActiveSigner
  BY DEF JournalInit, OneActiveSigner, IsActive, Active, AbsentRow
<1> QED BY <1>1, RowsInit, RowsStep, SignerStep, PTL DEF JournalSpec

\* No transaction of the store replaces or takes back a submission.
LEMMA PermanentStep ==
  RowsInv /\ [JournalNext]_jvars => [\A h \in Hashes : RowStays(h)]_jvars
<1> SUFFICES ASSUME RowsInv, JournalNext, NEW g \in Hashes PROVE RowStays(g)
  BY Zenon
<1>0. rows[g] \in Row /\ rows[g].depth \in Nat
  <2>1. rows[g] \in Row
    BY Zenon DEF RowsInv, JournalTypeOK
  <2>2. rows[g].depth \in {0} \cup Depths
    BY <2>1, Zenon DEF Row
  <2>3. \A depth \in {0} \cup Depths : depth \in Nat
    BY ConstantsAssumption
  <2> QED BY <2>1, <2>2, <2>3, Zenon
<1>1. rows[g].nonce # 0 => rows[g].state \in {"prepared", "submitted"} \cup Terminal
  BY <1>0, Zenon DEF RowsInv, SchemaChecks, OwnerKnown, Exists, Row, SettlementState, Active, Terminal
<1>2. rows'[g] = rows[g] => RowStays(g)
  BY <1>0, <1>1 DEF RowStays, Terminal
<1>3. ASSUME NEW r \in Requests, NEW limit \in ClientLimits, ClaimInsert(r, limit)
      PROVE  RowStays(g)
  <2>1. g = r.hash => rows[g].state = "absent" /\ rows[g].nonce = 0
    BY <1>3, Zenon DEF ClaimInsert, InsertConflicts, Exists, RowsInv, OwnerKnown
  <2>2. g # r.hash => rows'[g] = rows[g]
    BY <1>3, Zenon DEF ClaimInsert, RowsInv, JournalTypeOK
  <2> QED BY <1>2, <2>1, <2>2, Zenon DEF RowStays, Terminal
<1>4. ASSUME NEW h \in Hashes, MarkAwaitingRetry(h) PROVE RowStays(g)
  <2>1. CASE g = h
    BY <1>4, <1>1, <2>1, Zenon DEF RowStays, MarkAwaitingRetry, Terminal
  <2>2. CASE g # h
    BY <1>4, <1>2, <2>2, Zenon DEF MarkAwaitingRetry, RowsInv, JournalTypeOK
  <2> QED BY <2>1, <2>2, Zenon
<1>5. ASSUME NEW h \in Hashes, NEW limit \in ClientLimits, ResumeAwaitingRetry(h, limit) PROVE RowStays(g)
  <2>1. CASE g = h
    BY <1>5, <1>1, <2>1, Zenon DEF RowStays, ResumeAwaitingRetry, Terminal
  <2>2. CASE g # h
    BY <1>5, <1>2, <2>2, Zenon DEF ResumeAwaitingRetry, RowsInv, JournalTypeOK
  <2> QED BY <2>1, <2>2, Zenon
<1>6. ASSUME NEW h \in Hashes, NEW n \in Nonces, NEW depth \in Depths, MarkPrepared(h, n, depth)
      PROVE  RowStays(g)
  <2>1. CASE g = h
    BY <1>6, <1>1, <2>1, Zenon DEF RowStays, MarkPrepared, Terminal
  <2>2. CASE g # h
    BY <1>6, <1>2, <2>2, Zenon DEF MarkPrepared, RowsInv, JournalTypeOK
  <2> QED BY <2>1, <2>2, Zenon
<1>7. ASSUME NEW h \in Hashes, MarkSubmitted(h) PROVE RowStays(g)
  <2>1. CASE g = h
    BY <1>7, <1>0, <2>1 DEF RowStays, MarkSubmitted, Terminal, RowsInv, JournalTypeOK, Row
  <2>2. CASE g # h
    BY <1>7, <1>2, <2>2, Zenon DEF MarkSubmitted, RowsInv, JournalTypeOK
  <2> QED BY <2>1, <2>2, Zenon
<1>8. ASSUME NEW h \in Hashes, NEW depth \in Depths, RaiseRequiredConfirmations(h, depth) PROVE RowStays(g)
  <2>1. CASE g = h
    BY <1>8, <1>0, <2>1, ConstantsAssumption
       DEF RowStays, RaiseRequiredConfirmations, Terminal, RowsInv, JournalTypeOK, Row
  <2>2. CASE g # h
    BY <1>8, <1>2, <2>2, Zenon DEF RaiseRequiredConfirmations, RowsInv, JournalTypeOK
  <2> QED BY <2>1, <2>2, Zenon
<1>9. ASSUME NEW h \in Hashes, NEW response \in Responses, NEW confirmations \in Depths,
             NEW actual \in Costs(response), MarkTerminal(h, response, actual, confirmations)
      PROVE  RowStays(g)
  <2>1. CASE g = h
    BY <1>9, <1>0, <2>1 DEF RowStays, MarkTerminal, TerminalAllowed, TerminalState, Terminal, RowsInv, JournalTypeOK, Row
  <2>2. CASE g # h
    BY <1>9, <1>2, <2>2, Zenon DEF MarkTerminal, RowsInv, JournalTypeOK
  <2> QED BY <2>1, <2>2, Zenon
<1>10. CASE UNCHANGED rows
  BY <1>2, <1>10, Zenon
<1> QED
  BY <1>3, <1>4, <1>5, <1>6, <1>7, <1>8, <1>9, <1>10, Zenon DEF JournalNext, QuarantineRelayer, NextDay

\* A signed submission is never replaced or taken back, its confirmation depth
\* never goes down, and a terminal row never changes again.
THEOREM PermanenceCorrect == JournalSpec => SubmissionIsPermanent
<1>1. RowsInv /\ [JournalNext]_jvars => [\A h \in Hashes : RowStays(h)]_jvars
  BY PermanentStep, Zenon
<1> QED BY <1>1, RowsInit, RowsStep, PTL DEF JournalSpec, SubmissionIsPermanent

=============================================================================
