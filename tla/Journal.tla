------------------------------- MODULE Journal -------------------------------
(***************************************************************************)
(* The durable settlement journal: the transactions of PgStore (store.rs)  *)
(* on the tables `settlements`, `daily_global_sponsorship`,                *)
(* `daily_client_sponsorship` and `relayers`.                              *)
(*                                                                         *)
(* A row is addressed by its payment_hash, which the schema makes unique;  *)
(* the UUID primary key is only a surrogate for it.  Every operator below  *)
(* is one committed PostgreSQL transaction.  A transaction that is refused *)
(* or rolled back leaves the journal unchanged and is a stuttering step.   *)
(***************************************************************************)
EXTENDS Integers, FiniteSets

CONSTANTS
  Hashes,       \* payment_hash values
  Clients,      \* API clients (resource servers)
  Requests,     \* canonical settle requests, see Request below
  NoId,         \* "no payment identifier"
  NoClient,     \* client column of an absent row
  NoPrint,      \* fingerprint column of an absent row
  AnchorOf,     \* the chain-enforced anchor that a payment_hash commits to
  Evm,          \* TRUE: a chain_kind = eip155 deployment, FALSE: near
  Reservation,  \* sponsorship.reservation_yocto_near
  GlobalLimit,  \* sponsorship.global_daily_yocto_near
  ClientLimits, \* values api_clients.daily_budget_yocto_near takes over time
  Fees,         \* actual sponsored cost of one final transaction
  Depths,       \* values of required_confirmations
  Nonces,       \* relayer / signer account nonces
  MaxAttempts,  \* bound: attempt_count
  MaxDay        \* bound: days that pass

Days == 1..MaxDay

\* A request is what claim_settlement is called with: the authenticated
\* client, the optional identifier, the payment hash and the fingerprint.
ASSUME RequestsAssumption ==
  \A r \in Requests :
    /\ r.hash \in Hashes
    /\ r.client \in Clients
    /\ \A q \in Requests : r.fp = q.fp => r.hash = q.hash /\ r.ident = q.ident

ASSUME ConstantsAssumption ==
  /\ IsFiniteSet(Hashes)
  /\ NoClient \notin Clients
  /\ Evm \in BOOLEAN
  /\ Reservation \in Nat \ {0}
  /\ GlobalLimit \in Nat
  /\ ClientLimits \subseteq Nat
  /\ Depths \subseteq Nat \ {0} /\ Depths # {}
  /\ Nonces \subseteq Nat \ {0}
  /\ MaxAttempts \in Nat \ {0}
  /\ MaxDay \in Nat \ {0}

\* The reservation covers what a transaction can cost: checked before signing
\* on eip155 (evm_reservation_covers_liability), an operator duty on near.
ASSUME FeesAssumption == Fees \subseteq 0..Reservation

VARIABLES
  rows,         \* settlements, by payment_hash
  globalUsage,  \* daily_global_sponsorship, by day
  clientUsage,  \* daily_client_sponsorship, by client and day
  relayer,      \* relayers.status of the configured key
  today         \* the UTC date the process reads

jvars == <<rows, globalUsage, clientUsage, relayer, today>>

-----------------------------------------------------------------------------

Active == {"reserved", "prepared", "submitted"}
Terminal == {"succeeded", "failed"}
SettlementState == Active \cup Terminal \cup {"awaiting_retry"}

\* terminal_response_bytes, by what the response says.
Responses ==
  {"success", "transaction_failed", "protocol_failure", "transaction_rejected"}

TerminalState(response) == IF response = "success" THEN "succeeded" ELSE "failed"

\* `nonce` stands for the signed submission: the nonce, bytes and hash columns
\* are written together and 0 is NULL.  `depth` is required_confirmations.
AbsentRow ==
  [state |-> "absent", client |-> NoClient, ident |-> NoId, fp |-> NoPrint,
   day |-> 1, reserved |-> 0, attempts |-> 0, nonce |-> 0, depth |-> 0,
   response |-> "none"]

Exists(h) == rows[h].state # "absent"
IsActive(h) == rows[h].state \in Active

Usage(u) == u.reserved + u.spent

-----------------------------------------------------------------------------
(* The lookups: find_existing_settlement, anchor_is_claimed,               *)
(* active_evm_signer_exists, and the unique indexes an INSERT runs into.   *)

IdentifierRows(r) ==
  {h \in Hashes : /\ r.ident # NoId
                  /\ Exists(h)
                  /\ rows[h].client = r.client
                  /\ rows[h].ident = r.ident}

FindExisting(r) ==
  IF IdentifierRows(r) # {}
  THEN IF \E h \in IdentifierRows(r) : rows[h].fp = r.fp
       THEN "existing" ELSE "identifier_conflict"
  ELSE IF ~Exists(r.hash) THEN "none"
  ELSE IF r.ident = NoId /\ rows[r.hash].client = r.client /\ rows[r.hash].fp = r.fp
       THEN "existing" ELSE "duplicate"

\* Plausible bug: only an active settlement keeps its anchor.
AnchorIsClaimed_Active(r) == \E h \in Hashes : IsActive(h) /\ AnchorOf[h] = AnchorOf[r.hash]

AnchorIsClaimed(r) == \E h \in Hashes : Exists(h) /\ AnchorOf[h] = AnchorOf[r.hash]

ActiveSignerExists == Evm /\ \E h \in Hashes : IsActive(h)

InsertConflicts(r) ==
  \/ Exists(r.hash)
  \/ IdentifierRows(r) # {}
  \/ AnchorIsClaimed(r)
  \/ ActiveSignerExists

-----------------------------------------------------------------------------
(* The sponsorship ledgers: reserve_global_budget, reserve_client_budget   *)
(* and release_budget.                                                     *)

\* Plausible bug: only open reservations count against the limits.
BudgetFits_Reserved(c, limit) ==
  /\ globalUsage[today].reserved + Reservation <= GlobalLimit
  /\ clientUsage[c][today].reserved + Reservation <= limit

BudgetFits(c, limit) ==
  /\ Usage(globalUsage[today]) + Reservation <= GlobalLimit
  /\ Usage(clientUsage[c][today]) + Reservation <= limit

ReserveBudget(c) ==
  /\ globalUsage' = [globalUsage EXCEPT ![today].reserved = @ + Reservation]
  /\ clientUsage' = [clientUsage EXCEPT ![c][today].reserved = @ + Reservation]

\* A reservation is given back and what it really cost is recorded.
Settle(u, reserved, actual) ==
  [reserved |-> u.reserved - reserved, spent |-> u.spent + actual]

\* Both UPDATEs are conditional: a ledger that holds less than the row's
\* reservation makes the whole transaction fail.
Releasable(h) ==
  /\ globalUsage[rows[h].day].reserved >= rows[h].reserved
  /\ clientUsage[rows[h].client][rows[h].day].reserved >= rows[h].reserved

ReleaseBudget(h, actual) ==
  LET d == rows[h].day
      c == rows[h].client
  IN  /\ Releasable(h)
      /\ globalUsage' = [globalUsage EXCEPT ![d] = Settle(@, rows[h].reserved, actual)]
      /\ clientUsage' = [clientUsage EXCEPT ![c][d] = Settle(@, rows[h].reserved, actual)]

-----------------------------------------------------------------------------
(* The transactions.                                                       *)

JournalInit ==
  /\ rows = [h \in Hashes |-> AbsentRow]
  /\ globalUsage = [d \in Days |-> [reserved |-> 0, spent |-> 0]]
  /\ clientUsage = [c \in Clients |-> [d \in Days |-> [reserved |-> 0, spent |-> 0]]]
  /\ relayer = "active"
  /\ today = 1

ReservedRow(r) ==
  [state |-> "reserved", client |-> r.client, ident |-> r.ident, fp |-> r.fp,
   day |-> today, reserved |-> Reservation, attempts |-> 1, nonce |-> 0, depth |-> 0,
   response |-> "none"]

\* claim_settlement, from BEGIN to COMMIT.  `limit` is the client's daily
\* budget as it was read when the request was authenticated.
ClaimInsert(r, limit) ==
  /\ ~InsertConflicts(r)
  /\ BudgetFits(r.client, limit)
  /\ rows' = [rows EXCEPT ![r.hash] = ReservedRow(r)]
  /\ ReserveBudget(r.client)
  /\ UNCHANGED <<relayer, today>>

MarkAwaitingRetry(h) ==
  /\ rows[h].state = "reserved"
  /\ ReleaseBudget(h, 0)
  /\ rows' = [rows EXCEPT ![h].state = "awaiting_retry", ![h].reserved = 0]
  /\ UNCHANGED <<relayer, today>>

\* Plausible bug: a resumed row keeps the day of its first reservation.
ResumeAwaitingRetry_OldDay(h, limit) ==
  /\ rows[h].state = "awaiting_retry"
  /\ rows[h].attempts < MaxAttempts
  /\ ~ActiveSignerExists
  /\ BudgetFits(rows[h].client, limit)
  /\ rows' = [rows EXCEPT ![h].state = "reserved",
       ![h].reserved = Reservation, ![h].attempts = @ + 1]
  /\ ReserveBudget(rows[h].client)
  /\ UNCHANGED <<relayer, today>>

\* Plausible bug: a resumed row does not take the signer slot again.
ResumeAwaitingRetry_NoSlot(h, limit) ==
  /\ rows[h].state = "awaiting_retry"
  /\ rows[h].attempts < MaxAttempts
  /\ BudgetFits(rows[h].client, limit)
  /\ rows' = [rows EXCEPT ![h].state = "reserved", ![h].day = today,
       ![h].reserved = Reservation, ![h].attempts = @ + 1]
  /\ ReserveBudget(rows[h].client)
  /\ UNCHANGED <<relayer, today>>

\* resume_awaiting_retry: the attempt bound is the model's, not the code's.
ResumeAwaitingRetry(h, limit) ==
  /\ rows[h].state = "awaiting_retry"
  /\ rows[h].attempts < MaxAttempts
  /\ ~ActiveSignerExists
  /\ BudgetFits(rows[h].client, limit)
  /\ rows' = [rows EXCEPT ![h].state = "reserved", ![h].day = today,
       ![h].reserved = Reservation, ![h].attempts = @ + 1]
  /\ ReserveBudget(rows[h].client)
  /\ UNCHANGED <<relayer, today>>

\* The unique indexes on the relayer nonce and on the signer account nonce.
NonceIsFree(h, n) == \A g \in Hashes \ {h} : rows[g].nonce # n

\* Plausible bug: the confirmation policy is not stored with the submission.
MarkPrepared_NoDepth(h, n, depth) ==
  /\ rows[h].state = "reserved"
  /\ NonceIsFree(h, n)
  /\ rows' = [rows EXCEPT ![h].state = "prepared", ![h].nonce = n]
  /\ UNCHANGED <<globalUsage, clientUsage, relayer, today>>

\* mark_prepared and mark_prepared_evm.  Only the latter stores a depth.
MarkPrepared(h, n, depth) ==
  /\ rows[h].state = "reserved"
  /\ NonceIsFree(h, n)
  /\ rows' = [rows EXCEPT ![h].state = "prepared", ![h].nonce = n,
                          ![h].depth = IF Evm THEN depth ELSE 0]
  /\ UNCHANGED <<globalUsage, clientUsage, relayer, today>>

MarkSubmitted(h) ==
  /\ rows[h].state = "prepared"
  /\ rows' = [rows EXCEPT ![h].state = "submitted"]
  /\ UNCHANGED <<globalUsage, clientUsage, relayer, today>>

\* Plausible bug: lowering the configured depth lowers the journaled one.
RaiseRequiredConfirmations_Set(h, minimum) ==
  /\ Evm
  /\ rows[h].state \in {"prepared", "submitted"}
  /\ rows' = [rows EXCEPT ![h].depth = minimum]
  /\ UNCHANGED <<globalUsage, clientUsage, relayer, today>>

RaiseRequiredConfirmations(h, minimum) ==
  /\ Evm
  /\ rows[h].state \in {"prepared", "submitted"}
  /\ rows' = [rows EXCEPT ![h].depth = IF @ < minimum THEN minimum ELSE @]
  /\ UNCHANGED <<globalUsage, clientUsage, relayer, today>>

\* transition_allowed of mark_terminal, and the schema's CHECK that an eip155
\* success records at least the confirmations it requires.
TerminalAllowed(h, response, confirmations) ==
  /\ \/ rows[h].state = "reserved" /\ TerminalState(response) = "failed"
     \/ rows[h].state \in {"prepared", "submitted"}
  /\ Evm /\ response = "success" => confirmations >= rows[h].depth

MarkTerminal(h, response, actual, confirmations) ==
  /\ TerminalAllowed(h, response, confirmations)
  /\ ReleaseBudget(h, actual)
  /\ rows' = [rows EXCEPT ![h].state = TerminalState(response),
                          ![h].response = response]
  /\ UNCHANGED <<relayer, today>>

\* A second terminalization succeeds without effect when it says the same.
TerminalRepeats(h, response) ==
  rows[h].state \in Terminal /\ rows[h].response = response

QuarantineRelayer ==
  /\ relayer' = "quarantined"
  /\ UNCHANGED <<rows, globalUsage, clientUsage, today>>

NextDay ==
  /\ today < MaxDay
  /\ today' = today + 1
  /\ UNCHANGED <<rows, globalUsage, clientUsage, relayer>>

\* A response of the chain says what the transaction cost; the others cost 0.
Costs(response) ==
  IF response \in {"success", "transaction_failed"} THEN Fees ELSE {0}

JournalNext ==
  \/ \E r \in Requests, limit \in ClientLimits : ClaimInsert(r, limit)
  \/ \E h \in Hashes : MarkAwaitingRetry(h)
  \/ \E h \in Hashes, limit \in ClientLimits : ResumeAwaitingRetry(h, limit)
  \/ \E h \in Hashes, n \in Nonces, depth \in Depths : MarkPrepared(h, n, depth)
  \/ \E h \in Hashes : MarkSubmitted(h)
  \/ \E h \in Hashes, depth \in Depths : RaiseRequiredConfirmations(h, depth)
  \/ \E h \in Hashes, response \in Responses, confirmations \in Depths :
       \E actual \in Costs(response) : MarkTerminal(h, response, actual, confirmations)
  \/ QuarantineRelayer
  \/ NextDay

JournalSpec == JournalInit /\ [][JournalNext]_jvars

-----------------------------------------------------------------------------
(* Properties.                                                             *)

Identifiers == {NoId} \cup {r.ident : r \in Requests}
Prints == {NoPrint} \cup {r.fp : r \in Requests}

Row ==
  [state: SettlementState \cup {"absent"}, client: Clients \cup {NoClient},
   ident: Identifiers, fp: Prints,
   day: Days, reserved: {0, Reservation}, attempts: 0..MaxAttempts,
   nonce: {0} \cup Nonces, depth: {0} \cup Depths,
   response: Responses \cup {"none"}]

\* The columns hold values of their types (store.rs, settlement_from_row).
JournalTypeOK ==
  /\ rows \in [Hashes -> Row]
  /\ globalUsage \in [Days -> [reserved: Nat, spent: Nat]]
  /\ clientUsage \in [Clients -> [Days -> [reserved: Nat, spent: Nat]]]
  /\ relayer \in {"active", "quarantined"}
  /\ today \in Days

ActiveOn(d) == {h \in Hashes : IsActive(h) /\ rows[h].day = d}
ClientActiveOn(c, d) == {h \in ActiveOn(d) : rows[h].client = c}

\* Both ledgers hold exactly one reservation for every row that is reserved,
\* prepared or submitted, on the day that row reserved it, whatever sequence
\* of claims, releases, resumes and terminalizations ran and wherever midnight
\* fell between them (claim_settlement .. release_budget).
LedgerExact ==
  \A d \in Days :
    /\ globalUsage[d].reserved = Reservation * Cardinality(ActiveOn(d))
    /\ \A c \in Clients :
         clientUsage[c][d].reserved = Reservation * Cardinality(ClientActiveOn(c, d))

\* No row can get stuck because release_budget finds too little in a ledger
\* and fails the transaction with "sponsorship reservation ledger row is
\* missing".
ReleaseNeverFails == \A h \in Hashes : IsActive(h) => Releasable(h)

\* What is reserved plus what was spent on a day never exceeds the global
\* daily budget, nor the largest budget the client has been given.
SponsorshipWithinLimits ==
  \A d \in Days :
    /\ Usage(globalUsage[d]) <= GlobalLimit
    /\ \A c \in Clients :
         Usage(clientUsage[c][d]) = 0 \/ \E limit \in ClientLimits : Usage(clientUsage[c][d]) <= limit

\* A chain anchor, a client's payment identifier and a signer nonce each
\* belong to at most one row, for ever: also after the row became dormant or
\* terminal.
OwnedOnce ==
  \A g, h \in Hashes :
    g # h /\ Exists(g) /\ Exists(h) =>
      /\ AnchorOf[g] # AnchorOf[h]
      /\ rows[g].ident # NoId => <<rows[g].client, rows[g].ident>> # <<rows[h].client, rows[h].ident>>
      /\ rows[g].nonce # 0 => rows[g].nonce # rows[h].nonce

\* On eip155 the configured signer has at most one settlement in flight
\* (settlements_evm_active_signer_idx), also through releases and resumes.
OneActiveSigner ==
  Evm => \A g, h \in Hashes : IsActive(g) /\ IsActive(h) => g = h

\* No sequence of store calls runs into a CHECK of the schema: a row that may
\* be broadcast or has succeeded carries its submission, a dormant one carries
\* neither submission nor reservation, a terminal one carries its response.
SchemaChecks ==
  \A h \in Hashes :
    /\ rows[h].state \in {"prepared", "submitted", "succeeded"} =>
         rows[h].nonce # 0 /\ (Evm => rows[h].depth # 0)
    /\ rows[h].state \in {"reserved", "awaiting_retry"} => rows[h].nonce = 0
    /\ rows[h].state \in Active => rows[h].reserved = Reservation
    /\ rows[h].state = "awaiting_retry" => rows[h].reserved = 0
    /\ rows[h].state \in Terminal <=> rows[h].response # "none"

\* The client column of a row refers to a client, so that its ledger exists,
\* and what is no row carries no submission.
OwnerKnown ==
  \A h \in Hashes : IF Exists(h) THEN rows[h].client \in Clients ELSE rows[h].nonce = 0

RowsInv == JournalTypeOK /\ SchemaChecks /\ OwnerKnown

RowStays(h) ==
  /\ rows[h].nonce # 0 =>
       /\ rows'[h].nonce = rows[h].nonce
       /\ rows'[h].state \in {"prepared", "submitted"} \cup Terminal
       /\ rows'[h].depth >= rows[h].depth
  /\ rows[h].state = "submitted" => rows'[h].state \in {"submitted"} \cup Terminal
  /\ rows[h].state \in Terminal => rows'[h] = rows[h]

\* A signed submission is never replaced or taken back, the confirmation depth
\* stored with it never goes down, what was submitted stays submitted until it
\* is terminal, and a terminal row never changes again.
SubmissionIsPermanent == [][\A h \in Hashes : RowStays(h)]_jvars

=============================================================================
