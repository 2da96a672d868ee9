-------------------------- MODULE VerifyFrontProofs --------------------------
(***************************************************************************)
(* Proofs about the front of the facilitator and the administrative        *)
(* commands beside it, for any number of clients, keys, admin processes    *)
(* and connections, any rates, any window and any number of slots.         *)
(*                                                                         *)
(* Three independent arguments.  A dead key stays dead because a key is    *)
(* drawn once (DrawnKeys), so what a request remembers of the dead keys is *)
(* still true when it authenticates.  A permit of verify_slots belongs to  *)
(* one request that is being verified.  The fixed window counts what was   *)
(* let through since it opened (WindowInv), and it opened with a request.  *)
(***************************************************************************)
EXTENDS VerifyFront, FiniteSetTheorems, SequenceTheorems, TLAPS

Statuses == {"none", "active", "revoked"}
AdminPcs == {"idle", "check", "scan", "update", "commit"}

ClientRows == [status: Statuses, environment: Environments]
KeyRows    == [status: Statuses, client: Clients \cup {NoClient}]
Commands   == [pc: AdminPcs, client: Clients \cup {NoClient}, key: Keys \cup {NoKey},
               seen: SUBSET Keys, locks: SUBSET (Keys \cup Clients), revokes: BOOLEAN]

AccessTypes ==
    /\ clients \in [Clients -> ClientRows]
    /\ keys \in [Keys -> KeyRows]
    /\ admin \in [Admins -> Commands]

\* A key that a command has drawn is in no row and in no other command, and a
\* key that a command wants to revoke is in a row.
DrawnKeys ==
    /\ \A k \in Keys : keys[k].status = "none" => keys[k].client = NoClient
    /\ \A a \in Admins : \A k \in Keys : admin[a].key = k => keys[k].status = "none"
    /\ \A a, b \in Admins : admin[a].key \in Keys /\ admin[a].key = admin[b].key => a = b
    /\ \A a \in Admins : \A k \in Keys :
         k \in admin[a].seen \/ k \in admin[a].locks => keys[k].status # "none"

AccessInv == AccessTypes /\ DrawnKeys

-----------------------------------------------------------------------------
(* Administrative commands.                                                *)

\* What a step does to the tables: a row of a key changes its status from
\* none, or to revoked; a client only becomes active from none, or revoked.
RowsGrow ==
    /\ \A k \in Keys : \/ keys'[k] = keys[k]
                       \/ keys[k].status = "none"
                       \/ keys'[k].client = keys[k].client /\ keys'[k].status = "revoked"
    /\ \A c \in Clients : \/ clients'[c] = clients[c]
                          \/ clients[c].status = "none"
                          \/ clients'[c].status = "revoked"

LEMMA IdleType ==
  /\ Idle \in Commands
  /\ Idle.key = NoKey /\ Idle.seen = {} /\ Idle.locks = {} /\ NoKey \notin Keys
  BY AccessAssumption, Zenon DEF Idle, Commands, AdminPcs

LEMMA CreateClientKeeps ==
  ASSUME AccessInv, NEW a \in Admins, CreateClient(a)
  PROVE  AccessInv' /\ RowsGrow
<1>1. PICK c \in Clients, k \in FreshKeys, e \in Environments :
        /\ clients[c].status = "none"
        /\ clients' = [clients EXCEPT ![c] = [status |-> "active", environment |-> e]]
        /\ keys' = [keys EXCEPT ![k] = [status |-> "active", client |-> c]]
  BY Zenon DEF CreateClient
<1>2. k \in Keys /\ keys[k].status = "none" /\ \A b \in Admins : admin[b].key # k
  BY <1>1, Zenon DEF FreshKeys, Drawn
<1>3. admin' = admin
  BY Zenon DEF CreateClient
<1>4. AccessTypes'
  BY <1>1, <1>2, <1>3, Zenon DEF AccessInv, AccessTypes, ClientRows, KeyRows, Statuses
<1>5. \A l \in Keys : l # k => keys'[l] = keys[l]
  BY <1>1, <1>2, Zenon DEF AccessInv, AccessTypes
<1>6. keys'[k].status = "active"
  BY <1>1, <1>2, Zenon DEF AccessInv, AccessTypes
<1>7. DrawnKeys'
  BY <1>2, <1>3, <1>5, <1>6, Zenon DEF AccessInv, DrawnKeys
<1>8. RowsGrow
  BY <1>1, <1>2, <1>5, Zenon DEF AccessInv, AccessTypes, RowsGrow
<1> QED BY <1>4, <1>7, <1>8, Zenon DEF AccessInv

\* A step of a command that leaves the tables alone and replaces its state.
LEMMA CommandKeeps ==
  ASSUME AccessInv, NEW a \in Admins, UNCHANGED Tables, NEW t \in Commands,
         admin' = [admin EXCEPT ![a] = t],
         \/ t.key = NoKey
         \/ t.key = admin[a].key
         \/ t.key \in FreshKeys,
         \A k \in Keys : k \in t.seen \/ k \in t.locks => keys[k].status # "none"
  PROVE  AccessInv' /\ RowsGrow
<1>1. keys' = keys /\ clients' = clients
  BY Zenon DEF Tables
<1>2. AccessTypes'
  BY <1>1, Zenon DEF AccessInv, AccessTypes
<1>3. admin'[a] = t /\ \A b \in Admins : b # a => admin'[b] = admin[b]
  BY Zenon DEF AccessInv, AccessTypes
<1>4. NoKey \notin Keys
  BY AccessAssumption, Zenon
<1>5. t.key \in FreshKeys => keys[t.key].status = "none" /\ \A b \in Admins : admin[b].key # t.key
  BY Zenon DEF FreshKeys, Drawn
<1>6. DrawnKeys'
  <2>1. \A k \in Keys : keys'[k].status = "none" => keys'[k].client = NoClient
    BY <1>1, Zenon DEF AccessInv, DrawnKeys
  <2>2. \A b \in Admins : \A k \in Keys : admin'[b].key = k => keys'[k].status = "none"
    BY <1>1, <1>3, <1>4, <1>5 DEF AccessInv, DrawnKeys
  <2>3. \A b, d \in Admins : admin'[b].key \in Keys /\ admin'[b].key = admin'[d].key => b = d
    BY <1>3, <1>4, <1>5 DEF AccessInv, DrawnKeys
  <2>4. \A b \in Admins : \A k \in Keys :
          k \in admin'[b].seen \/ k \in admin'[b].locks => keys'[k].status # "none"
    BY <1>1, <1>3, Zenon DEF AccessInv, DrawnKeys
  <2> QED BY <2>1, <2>2, <2>3, <2>4, Zenon DEF DrawnKeys
<1> QED BY <1>1, <1>2, <1>6, Zenon DEF AccessInv, RowsGrow

LEMMA StartRotateKeeps ==
  ASSUME AccessInv, NEW a \in Admins, StartRotate(a)
  PROVE  AccessInv' /\ RowsGrow
<1>1. PICK c \in Clients, k \in FreshKeys :
        admin' = [admin EXCEPT ![a] = [Idle EXCEPT !.pc = "check", !.client = c, !.key = k]]
  BY Zenon DEF StartRotate
<1> DEFINE t == [Idle EXCEPT !.pc = "check", !.client = c, !.key = k]
<1>2. k \in Keys
  BY <1>1, Zenon DEF FreshKeys
<1>3. t \in Commands /\ t.key = k /\ t.seen = {} /\ t.locks = {}
  BY <1>2, Zenon DEF Commands, Idle, AdminPcs
<1>4. admin' = [admin EXCEPT ![a] = t] /\ UNCHANGED Tables
  BY <1>1, Zenon DEF StartRotate
<1> HIDE DEF t
<1> QED BY <1>3, <1>4, CommandKeeps, Zenon

LEMMA CheckClientKeeps ==
  ASSUME AccessInv, NEW a \in Admins, CheckClient(a)
  PROVE  AccessInv' /\ RowsGrow
<1> DEFINE t == IF IsActive(admin[a].client) THEN [admin[a] EXCEPT !.pc = "scan"] ELSE Idle
<1>1. admin[a] \in Commands
  BY Zenon DEF AccessInv, AccessTypes
<1>2. admin' = [admin EXCEPT ![a] = t] /\ UNCHANGED Tables
  BY Zenon DEF CheckClient
<1>3. CASE IsActive(admin[a].client)
  <2>1. t \in Commands /\ t.key = admin[a].key /\ t.seen = admin[a].seen /\ t.locks = admin[a].locks
    BY <1>1, <1>3, Zenon DEF Commands, AdminPcs
  <2>2. \A k \in Keys : k \in t.seen \/ k \in t.locks => keys[k].status # "none"
    BY <2>1, Zenon DEF AccessInv, DrawnKeys
  <2> HIDE DEF t
  <2> QED BY <1>2, <2>1, <2>2, CommandKeeps, Zenon
<1>4. CASE ~IsActive(admin[a].client)
  <2>1. t = Idle
    BY <1>4, Zenon
  <2> HIDE DEF t
  <2> QED BY <1>2, <2>1, IdleType, CommandKeeps, Zenon
<1> QED BY <1>3, <1>4, Zenon

LEMMA ScanKeysKeeps ==
  ASSUME AccessInv, NEW a \in Admins, ScanKeys(a)
  PROVE  AccessInv' /\ RowsGrow
<1> DEFINE t == [admin[a] EXCEPT !.pc = "update", !.seen = KeysOf(admin[a].client)]
<1>1. admin[a] \in Commands
  BY Zenon DEF AccessInv, AccessTypes
<1>2. admin' = [admin EXCEPT ![a] = t] /\ UNCHANGED Tables
  BY Zenon DEF ScanKeys, AccessInv, AccessTypes
<1>3. KeysOf(admin[a].client) \subseteq Keys
  BY Zenon DEF KeysOf
<1>4. /\ t \in Commands /\ t.key = admin[a].key
      /\ t.seen = KeysOf(admin[a].client) /\ t.locks = admin[a].locks
  BY <1>1, <1>3, Zenon DEF Commands, AdminPcs
<1>5. \A k \in Keys : k \in t.seen \/ k \in t.locks => keys[k].status # "none"
  BY <1>4, Zenon DEF AccessInv, DrawnKeys, KeysOf
<1> HIDE DEF t
<1> QED BY <1>2, <1>4, <1>5, CommandKeeps, Zenon

LEMMA UpdateKeysKeeps ==
  ASSUME AccessInv, NEW a \in Admins, UpdateKeys(a)
  PROVE  AccessInv' /\ RowsGrow
<1> DEFINE locks == admin[a].locks \cup {k \in admin[a].seen : keys[k].status = "active"}
           t == [admin[a] EXCEPT !.pc = "commit", !.locks = locks]
<1>1. admin[a] \in Commands
  BY Zenon DEF AccessInv, AccessTypes
<1>2. admin' = [admin EXCEPT ![a] = t] /\ UNCHANGED Tables
  BY Zenon DEF UpdateKeys, AccessInv, AccessTypes
<1>3. locks \subseteq Keys \cup Clients
  BY <1>1, Zenon DEF Commands
<1>4. t \in Commands /\ t.key = admin[a].key /\ t.seen = admin[a].seen /\ t.locks = locks
  BY <1>1, <1>3, Zenon DEF Commands, AdminPcs
<1>5. \A k \in Keys : k \in t.seen \/ k \in t.locks => keys[k].status # "none"
  BY <1>4, Zenon DEF AccessInv, DrawnKeys
<1> HIDE DEF t, locks
<1> QED BY <1>2, <1>4, <1>5, CommandKeeps, Zenon

LEMMA StartRevokeKeeps ==
  ASSUME AccessInv, NEW a \in Admins, StartRevoke(a)
  PROVE  AccessInv' /\ RowsGrow
<1>1. PICK c \in Clients :
        admin' = [admin EXCEPT ![a] =
          [Idle EXCEPT !.pc = "scan", !.client = c, !.revokes = IsActive(c),
                       !.locks = IF IsActive(c) THEN {c} ELSE {}]]
  BY Zenon DEF StartRevoke
<1> DEFINE t == [Idle EXCEPT !.pc = "scan", !.client = c, !.revokes = IsActive(c),
                             !.locks = IF IsActive(c) THEN {c} ELSE {}]
<1>2. IsActive(c) \in BOOLEAN
  BY Zenon DEF IsActive
<1>3. /\ t \in Commands /\ t.key = NoKey /\ t.seen = {}
      /\ \A k \in Keys : k \notin t.locks
  BY <1>2, AccessAssumption, Zenon DEF Commands, Idle, AdminPcs
<1>4. admin' = [admin EXCEPT ![a] = t] /\ UNCHANGED Tables
  BY <1>1, Zenon DEF StartRevoke
<1> HIDE DEF t
<1> QED BY <1>3, <1>4, CommandKeeps, Zenon

LEMMA AbortKeeps ==
  ASSUME AccessInv, NEW a \in Admins, Abort(a)
  PROVE  AccessInv' /\ RowsGrow
  BY IdleType, CommandKeeps, Zenon DEF Abort

LEMMA CommitRotateKeeps ==
  ASSUME AccessInv, NEW a \in Admins, CommitRotate(a)
  PROVE  AccessInv' /\ RowsGrow
<1> DEFINE t == admin[a]
           row == [status |-> "active", client |-> t.client]
<1>1. /\ t \in Commands /\ t.key \in Keys
      /\ keys' = [Revoked(t.locks) EXCEPT ![t.key] = row]
      /\ admin' = [admin EXCEPT ![a] = Idle]
      /\ clients' = clients
  BY Zenon DEF CommitRotate, AccessInv, AccessTypes, Commands
<1>2. row \in KeyRows /\ row.status = "active"
  BY <1>1, Zenon DEF KeyRows, Commands, Statuses
<1> HIDE DEF row
<1>3. Revoked(t.locks) \in [Keys -> KeyRows]
  BY Zenon DEF Revoked, AccessInv, AccessTypes, KeyRows, Statuses
<1>4. /\ keys'[t.key] = row
      /\ \A k \in Keys : k # t.key => keys'[k] = Revoked(t.locks)[k]
  BY <1>1, <1>3, Zenon
<1>5. \A k \in Keys : k \notin t.locks => Revoked(t.locks)[k] = keys[k]
  BY Zenon DEF Revoked
<1>6. \A k \in Keys : k \in t.locks =>
        /\ Revoked(t.locks)[k].status = "revoked"
        /\ Revoked(t.locks)[k].client = keys[k].client
  BY Zenon DEF Revoked, AccessInv, AccessTypes, KeyRows
<1>7. keys[t.key].status = "none" /\ \A k \in Keys : k \in t.locks => keys[k].status # "none"
  BY <1>1, Zenon DEF AccessInv, DrawnKeys
<1>8. admin'[a] = Idle /\ \A b \in Admins : b # a => admin'[b] = admin[b] /\ admin[b].key # t.key
  BY <1>1, Zenon DEF AccessInv, AccessTypes, DrawnKeys
<1>9. AccessTypes'
  BY <1>1, <1>2, <1>3, IdleType, Zenon DEF AccessInv, AccessTypes
<1> HIDE DEF t
<1>10. \A k \in Keys : keys'[k].status = "none" => keys'[k] = keys[k] /\ k # t.key
  BY <1>1, <1>2, <1>4, <1>5, <1>6, Zenon
<1>11. \A k \in Keys : keys[k].status = "none" /\ k # t.key => keys'[k] = keys[k]
  BY <1>4, <1>5, <1>7, Zenon
<1>12. DrawnKeys'
  <2>1. \A k \in Keys : keys'[k].status = "none" => keys'[k].client = NoClient
    BY <1>10, Zenon DEF AccessInv, DrawnKeys
  <2>2. \A b \in Admins : \A k \in Keys : admin'[b].key = k => keys'[k].status = "none"
    BY <1>8, <1>11, IdleType DEF AccessInv, DrawnKeys
  <2>3. \A b, d \in Admins : admin'[b].key \in Keys /\ admin'[b].key = admin'[d].key => b = d
    BY <1>8, IdleType DEF AccessInv, DrawnKeys
  <2>4. \A b \in Admins : \A k \in Keys :
          k \in admin'[b].seen \/ k \in admin'[b].locks => keys'[k].status # "none"
    BY <1>8, <1>10, IdleType, Zenon DEF AccessInv, DrawnKeys
  <2> QED BY <2>1, <2>2, <2>3, <2>4, Zenon DEF DrawnKeys
<1>13. RowsGrow
  BY <1>1, <1>4, <1>5, <1>6, <1>7, Zenon DEF RowsGrow
<1> QED BY <1>9, <1>12, <1>13, Zenon DEF AccessInv

LEMMA CommitRevokeKeeps ==
  ASSUME AccessInv, NEW a \in Admins, CommitRevoke(a)
  PROVE  AccessInv' /\ RowsGrow
<1> DEFINE locked == admin[a].locks \cap Keys
           c == admin[a].client
<1>1. /\ keys' = Revoked(locked)
      /\ admin' = [admin EXCEPT ![a] = Idle]
      /\ \/ clients' = clients
         \/ clients' = [clients EXCEPT ![c].status = "revoked"]
  BY Zenon DEF CommitRevoke
<1>2. keys' \in [Keys -> KeyRows]
  BY <1>1 DEF Revoked, AccessInv, AccessTypes, KeyRows, Statuses
<1>3. clients' \in [Clients -> ClientRows]
  BY <1>1 DEF AccessInv, AccessTypes, ClientRows, Statuses
<1>4. AccessTypes'
  BY <1>1, <1>2, <1>3, IdleType, Zenon DEF AccessInv, AccessTypes
<1>5. \A k \in Keys : IF k \in locked
                      THEN keys'[k].status = "revoked" /\ keys'[k].client = keys[k].client
                      ELSE keys'[k] = keys[k]
  BY <1>1, Zenon DEF Revoked, AccessInv, AccessTypes, KeyRows
<1>6. \A k \in Keys : k \in locked => keys[k].status # "none"
  BY Zenon DEF AccessInv, DrawnKeys
<1>7. admin'[a] = Idle /\ \A b \in Admins : b # a => admin'[b] = admin[b]
  BY <1>1, Zenon DEF AccessInv, AccessTypes
<1>8. \A d \in Clients : clients'[d] = clients[d] \/ clients'[d].status = "revoked"
  BY <1>1, Zenon DEF AccessInv, AccessTypes, ClientRows
<1> HIDE DEF locked
<1>9. DrawnKeys'
  <2>1. \A k \in Keys : keys'[k].status = "none" => keys'[k].client = NoClient
    BY <1>5, Zenon DEF AccessInv, DrawnKeys
  <2>2. \A b \in Admins : \A k \in Keys : admin'[b].key = k => keys'[k].status = "none"
    BY <1>5, <1>6, <1>7, IdleType DEF AccessInv, DrawnKeys
  <2>3. \A b, d \in Admins : admin'[b].key \in Keys /\ admin'[b].key = admin'[d].key => b = d
    BY <1>7, IdleType, Zenon DEF AccessInv, DrawnKeys
  <2>4. \A b \in Admins : \A k \in Keys :
          k \in admin'[b].seen \/ k \in admin'[b].locks => keys'[k].status # "none"
    BY <1>5, <1>7, IdleType, Zenon DEF AccessInv, DrawnKeys
  <2> QED BY <2>1, <2>2, <2>3, <2>4, Zenon DEF DrawnKeys
<1>10. RowsGrow
  BY <1>5, <1>8, Zenon DEF RowsGrow
<1> QED BY <1>4, <1>9, <1>10, Zenon DEF AccessInv

LEMMA AllowPayeeKeeps ==
  ASSUME AccessInv, NEW a \in Admins, AllowPayee(a)
  PROVE  AccessInv' /\ RowsGrow
<1>1. clients' = clients /\ keys' = keys /\ admin' = admin
  BY Zenon DEF AllowPayee
<1> QED BY <1>1, Zenon DEF AccessInv, AccessTypes, DrawnKeys, RowsGrow

LEMMA AccessKeeps ==
  ASSUME AccessInv, [Next]_vars
  PROVE  AccessInv' /\ RowsGrow
<1>1. CASE AdminStep
  BY <1>1, CreateClientKeeps, StartRotateKeeps, CheckClientKeeps, ScanKeysKeeps, UpdateKeysKeeps,
     CommitRotateKeeps, StartRevokeKeeps, CommitRevokeKeeps, AbortKeeps, AllowPayeeKeeps, Zenon
  DEF AdminStep
<1>2. CASE ~AdminStep
  <2>1. UNCHANGED access
    BY <1>2, Zenon DEF Next, RequestStep, Arrive, Authenticate, CheckRate, ReadAndParse, CheckPolicy, Verify,
                Cancel, Ready, Tick, vars, access
  <2> QED BY <2>1, Zenon DEF access, AccessInv, AccessTypes, DrawnKeys, RowsGrow
<1> QED BY <1>1, <1>2, Zenon

LEMMA AccessStarts ==
  ASSUME Init
  PROVE  AccessInv
<1>1. Tier \in Environments
  BY AccessAssumption, Zenon
<1>2. Unborn \in ClientRows /\ NoRow \in KeyRows /\ NoRow.status = "none" /\ NoRow.client = NoClient
  BY <1>1, Zenon DEF Unborn, NoRow, ClientRows, KeyRows, Statuses
<1>3. AccessTypes
  BY <1>2, IdleType, Zenon DEF Init, AccessInit, AccessTypes
<1>4. /\ \A a \in Admins : admin[a] = Idle
      /\ \A k \in Keys : keys[k] = NoRow
  BY Zenon DEF Init, AccessInit
<1>5. DrawnKeys
  BY <1>2, <1>4, IdleType, Zenon DEF DrawnKeys
<1> QED BY <1>3, <1>5, Zenon DEF AccessInv

-----------------------------------------------------------------------------
(* Requests.                                                               *)

FrontPcs == {"idle", "authenticate", "rate", "parse", "policy", "verify", "answered"}

Answers ==
    {"none", "authentication_unavailable", "invalid_api_key", "rate_limit_exceeded", "settling",
     "database_unavailable", "payee_not_allowed", "verification_capacity_exhausted", "valid",
     "invalid", "rpc_unavailable", "verification_timeout"}
    \cup {FirstFlaw(f) : f \in FlawSets}

RequestRecords ==
    [pc: FrontPcs, op: {"verify", "settle"}, key: Keys \cup {NoKey}, dead: SUBSET Keys,
     flaws: FlawSets \cup {{}}, answer: Answers]

RequestTypes == request \in [Requests -> RequestRecords]

\* A header that presents a key presents one, or none.
LEMMA PresentedKeyType ==
  PresentedKeys \subseteq Keys \cup {NoKey}
<1> SUFFICES ASSUME NEW x \in HeaderValues, NEW b \in HeaderValues
             PROVE  ExtractPresentedKey(x, b) \in Keys \cup {NoKey}
  BY DEF PresentedKeys
<1> DEFINE K == Keys \cup {NoKey}
<1>1. \A h \in HeaderValues : h \in Seq(K)
  <2>1. <<>> \in Seq(K)
    OBVIOUS
  <2>2. \A k \in K : <<k>> \in Seq(K) /\ <<k, k>> \in Seq(K)
    OBVIOUS
  <2> QED BY <2>1, <2>2, Zenon DEF HeaderValues
<1>2. CASE Len(x) > 1 \/ Len(b) > 1 \/ x \o b = <<>> \/ (Len(x) = 1 /\ Len(b) = 1 /\ x # b)
  BY <1>2, Zenon DEF ExtractPresentedKey
<1>3. CASE ~(Len(x) > 1 \/ Len(b) > 1 \/ x \o b = <<>> \/ (Len(x) = 1 /\ Len(b) = 1 /\ x # b))
  <2>0. x \in Seq(K) /\ b \in Seq(K)
    BY <1>1, Zenon
  <2> HIDE DEF K
  <2>1. x \o b \in Seq(K) /\ x \o b # <<>>
    BY <1>3, <2>0, ConcatProperties, Zenon
  <2>2. (x \o b)[1] \in K
    BY <2>1
  <2> QED BY <1>3, <2>2, Zenon DEF ExtractPresentedKey, K
<1> QED BY <1>2, <1>3, Zenon

LEMMA AnswerType ==
  ASSUME RequestTypes, NEW r \in Requests, NEW what \in Answers, Answer(r, what)
  PROVE  /\ RequestTypes'
         /\ request'[r].pc = "answered" /\ request'[r].dead = {} /\ request'[r].answer = what
         /\ \A q \in Requests : q # r => request'[q] = request[q]
  BY Zenon DEF RequestTypes, RequestRecords, Answer, Quiet, FrontPcs, Answers

LEMMA AdvanceType ==
  ASSUME RequestTypes, NEW r \in Requests, NEW pc \in FrontPcs, Advance(r, pc)
  PROVE  /\ RequestTypes'
         /\ request'[r].pc = pc /\ request'[r].dead = request[r].dead
         /\ request'[r].key = request[r].key /\ request'[r].op = request[r].op
         /\ request'[r].answer = request[r].answer
         /\ \A q \in Requests : q # r => request'[q] = request[q]
  BY Zenon DEF RequestTypes, RequestRecords, Advance

\* How a step moves a request: it is answered, or arrives, or is let in, or goes
\* on inside.
Moves(q) ==
    \/ request'[q] = request[q]
    \/ request'[q].pc = "answered" /\ request'[q].dead = {}
    \/ /\ request'[q].pc = "authenticate" /\ request'[q].dead = Dead
       /\ request'[q].op \in Operations /\ request'[q].answer = "none"
    \/ /\ request[q].pc = "authenticate" /\ Authenticates(request[q].key)
       /\ request'[q].pc = "rate"
       /\ request'[q].dead = request[q].dead /\ request'[q].key = request[q].key
       /\ request'[q].op = request[q].op /\ request'[q].answer = request[q].answer
    \/ /\ request[q].pc \in {"rate", "parse", "policy"}
       /\ request'[q].pc \in {"parse", "policy", "verify"}
       /\ request'[q].dead = request[q].dead /\ request'[q].key = request[q].key
       /\ request'[q].op = request[q].op /\ request'[q].answer = request[q].answer

LEMMA ArriveMoves ==
  ASSUME RequestTypes, NEW r \in Requests, Arrive(r)
  PROVE  /\ RequestTypes' /\ \A q \in Requests : Moves(q)
         /\ request[r].pc # "verify" /\ request'[r].pc = "authenticate"
         /\ \A q \in Requests : q # r => request'[q] = request[q]
<1>1. PICK k \in PresentedKeys, o \in Operations, f \in FlawSets :
        request' = [request EXCEPT ![r] =
          [pc |-> "authenticate", op |-> o, key |-> k, flaws |-> f, answer |-> "none", dead |-> Dead]]
  BY Zenon DEF Arrive
<1> DEFINE new == [pc |-> "authenticate", op |-> o, key |-> k, flaws |-> f, answer |-> "none",
                   dead |-> Dead]
<1>2. /\ new \in RequestRecords
      /\ new.pc = "authenticate" /\ new.dead = Dead /\ new.op \in Operations /\ new.answer = "none"
  BY PresentedKeyType, FrontAssumption, Zenon DEF RequestRecords, FrontPcs, Answers, Dead
<1>3. request' = [request EXCEPT ![r] = new]
  BY <1>1, Zenon
<1> HIDE DEF new
<1>4. RequestTypes'
  BY <1>2, <1>3, Zenon DEF RequestTypes
<1>5. request'[r] = new /\ \A q \in Requests : q # r => request'[q] = request[q]
  BY <1>3, Zenon DEF RequestTypes
<1>6. request[r].pc # "verify"
  BY Zenon DEF Arrive
<1> QED BY <1>2, <1>4, <1>5, <1>6, Zenon DEF Moves

LEMMA AnswerMoves ==
  ASSUME RequestTypes, NEW r \in Requests, NEW what \in Answers, Answer(r, what)
  PROVE  RequestTypes' /\ \A q \in Requests : Moves(q)
  BY AnswerType, Zenon DEF Moves

LEMMA AuthenticateMoves ==
  ASSUME RequestTypes, NEW r \in Requests, Authenticate(r)
  PROVE  RequestTypes' /\ \A q \in Requests : Moves(q)
<1>1. CASE Answer(r, "authentication_unavailable") \/ Answer(r, "invalid_api_key")
  BY <1>1, AnswerMoves, Zenon DEF Answers
<1>2. CASE Authenticates(request[r].key) /\ Advance(r, "rate")
  <2>1. "rate" \in FrontPcs /\ request[r].pc = "authenticate"
    BY Zenon DEF FrontPcs, Authenticate
  <2> QED BY <1>2, <2>1, AdvanceType DEF Moves
<1> QED BY <1>1, <1>2, Zenon DEF Authenticate

LEMMA InsideMoves ==
  ASSUME RequestTypes, NEW r \in Requests,
         CheckRate(r) \/ ReadAndParse(r) \/ CheckPolicy(r) \/ Verify(r) \/ Cancel(r)
  PROVE  RequestTypes' /\ \A q \in Requests : Moves(q)
<1>1. ASSUME NEW pc \in {"parse", "policy", "verify"}, Advance(r, pc),
             request[r].pc \in {"rate", "parse", "policy"}
      PROVE  RequestTypes' /\ \A q \in Requests : Moves(q)
  <2>1. pc \in FrontPcs /\ Advance(r, pc)
    BY <1>1, Zenon DEF FrontPcs
  <2>2. RequestTypes'
    BY <2>1, AdvanceType, Zenon
  <2> QED BY <1>1, <2>1, <2>2, AdvanceType DEF Moves
<1>2. request[r].flaws # {} => FirstFlaw(request[r].flaws) \in Answers
  BY Zenon DEF RequestTypes, RequestRecords, Answers
<1>3. CASE CheckRate(r)
  BY <1>1, <1>3, AnswerMoves, Zenon DEF CheckRate, Answers
<1>4. CASE ReadAndParse(r)
  <2>1. "settling" \in Answers
    BY Zenon DEF Answers
  <2> QED BY <1>1, <1>2, <1>4, <2>1, AnswerMoves, Zenon DEF ReadAndParse
<1>5. CASE CheckPolicy(r)
  BY <1>1, <1>5, AnswerMoves, Zenon DEF CheckPolicy, Answers
<1>6. CASE Verify(r)
  BY <1>6, AnswerMoves, Zenon DEF Verify, Answers
<1>7. CASE Cancel(r)
  BY <1>7, AnswerMoves, Zenon DEF Cancel, Answers
<1> QED BY <1>3, <1>4, <1>5, <1>6, <1>7, Zenon

RequestActions(q) ==
    \/ Arrive(q) \/ Authenticate(q) \/ CheckRate(q) \/ ReadAndParse(q)
    \/ CheckPolicy(q) \/ Verify(q) \/ Cancel(q)

\* Connections share no request.
LEMMA OthersStay ==
  ASSUME RequestTypes, NEW q \in Requests, RequestActions(q)
  PROVE  \A p \in Requests : p # q => request'[p] = request[p]
<1>1. ASSUME NEW what, Answer(q, what)
      PROVE  \A p \in Requests : p # q => request'[p] = request[p]
  BY <1>1, Zenon DEF Answer, RequestTypes
<1>2. ASSUME NEW pc, Advance(q, pc)
      PROVE  \A p \in Requests : p # q => request'[p] = request[p]
  BY <1>2, Zenon DEF Advance, RequestTypes
<1>3. CASE Arrive(q)
  BY <1>3, ArriveMoves, Zenon
<1>4. CASE Authenticate(q)
  BY <1>1, <1>2, <1>4, Zenon DEF Authenticate
<1>5. CASE CheckRate(q)
  BY <1>1, <1>2, <1>5, Zenon DEF CheckRate
<1>6. CASE ReadAndParse(q)
  BY <1>1, <1>2, <1>6, Zenon DEF ReadAndParse
<1>7. CASE CheckPolicy(q)
  BY <1>1, <1>2, <1>7, Zenon DEF CheckPolicy
<1>8. CASE Verify(q) \/ Cancel(q)
  BY <1>1, <1>8, Zenon DEF Verify, Cancel
<1> QED BY <1>3, <1>4, <1>5, <1>6, <1>7, <1>8, Zenon DEF RequestActions

LEMMA RequestMoves ==
  ASSUME RequestTypes, [Next]_vars
  PROVE  RequestTypes' /\ \A q \in Requests : Moves(q)
<1>1. CASE RequestStep
  BY <1>1, ArriveMoves, AuthenticateMoves, InsideMoves, Zenon DEF RequestStep
<1>2. CASE ~RequestStep
  <2>1. request' = request
    BY <1>2, Zenon DEF Next, front, Ready, Tick, vars
  <2> QED BY <2>1, Zenon DEF RequestTypes, Moves
<1> QED BY <1>1, <1>2, Zenon

-----------------------------------------------------------------------------
(* A dead key stays out.                                                   *)

\* What a request remembers as dead is dead; inside, its key is a real one that
\* was not dead when it arrived.  It has no answer before it is answered.
Remembers ==
    \A r \in Requests :
        /\ request[r].dead \subseteq Dead
        /\ request[r].pc \in {"rate", "parse", "policy", "verify"} =>
             request[r].key \in Keys /\ request[r].key \notin request[r].dead
        /\ request[r].pc \notin {"idle", "answered"} => request[r].op \in Operations
        /\ request[r].pc # "answered" => request[r].answer = "none"

FrontInv == AccessInv /\ RequestTypes /\ Remembers

\* Revocation is for good: no rotation, revocation or creation revives a key.
LEMMA DeadStays ==
  ASSUME AccessInv, RowsGrow
  PROVE  Dead \subseteq Dead'
<1> SUFFICES ASSUME NEW k \in Keys, k \in Dead PROVE k \in Dead'
  BY Zenon DEF Dead
<1>1. CASE keys[k].status = "revoked"
  BY <1>1, Zenon DEF RowsGrow, Dead
<1>2. CASE keys[k].client # NoClient /\ clients[keys[k].client].status = "revoked"
  <2>1. keys[k].client \in Clients /\ keys[k].status # "none"
    BY <1>2, Zenon DEF AccessInv, AccessTypes, KeyRows, DrawnKeys
  <2>2. keys'[k].client = keys[k].client
    BY <2>1, Zenon DEF RowsGrow
  <2>3. clients'[keys[k].client].status = "revoked"
    BY <1>2, <2>1, Zenon DEF RowsGrow
  <2> QED BY <1>2, <2>2, <2>3, Zenon DEF Dead
<1> QED BY <1>1, <1>2, Zenon DEF Dead

LEMMA AuthenticatedIsAlive ==
  ASSUME AccessInv, NEW k \in Keys \cup {NoKey}, Authenticates(k)
  PROVE  k \in Keys /\ k \notin Dead
  BY Zenon DEF Authenticates, LookupApiKey, Dead

LEMMA FrontKeeps ==
  ASSUME FrontInv, [Next]_vars
  PROVE  FrontInv' /\ RowsGrow
<1>1. AccessInv' /\ RowsGrow /\ RequestTypes' /\ \A q \in Requests : Moves(q)
  BY AccessKeeps, RequestMoves, Zenon DEF FrontInv
<1>2. Dead \subseteq Dead'
  BY <1>1, DeadStays, Zenon DEF FrontInv
<1>3. ASSUME NEW q \in Requests
      PROVE  /\ request'[q].dead \subseteq Dead'
             /\ request'[q].pc \in {"rate", "parse", "policy", "verify"} =>
                  request'[q].key \in Keys /\ request'[q].key \notin request'[q].dead
             /\ request'[q].pc \notin {"idle", "answered"} => request'[q].op \in Operations
             /\ request'[q].pc # "answered" => request'[q].answer = "none"
  <2>1. request[q].dead \subseteq Dead /\ request[q].key \in Keys \cup {NoKey}
    BY Zenon DEF FrontInv, Remembers, RequestTypes, RequestRecords
  <2>2. Authenticates(request[q].key) => request[q].key \in Keys /\ request[q].key \notin Dead
    BY <2>1, AuthenticatedIsAlive, Zenon DEF FrontInv
  <2>3. Moves(q)
    BY <1>1, Zenon
  <2> QED BY <1>2, <2>1, <2>2, <2>3, Zenon DEF Moves, FrontInv, Remembers
<1> QED BY <1>1, <1>3, Zenon DEF FrontInv, Remembers

LEMMA FrontStarts ==
  ASSUME Init
  PROVE  FrontInv
<1>1. Quiet \in RequestRecords /\ Quiet.pc = "idle" /\ Quiet.dead = {} /\ Quiet.answer = "none"
  BY Zenon DEF Quiet, RequestRecords, FrontPcs, Answers
<1>2. request = [r \in Requests |-> Quiet]
  BY Zenon DEF Init
<1>3. RequestTypes
  BY <1>1, <1>2, Zenon DEF RequestTypes
<1>4. Remembers
  BY <1>1, <1>2, Zenon DEF Remembers
<1> QED BY <1>3, <1>4, AccessStarts, Zenon DEF FrontInv

LEMMA FrontHolds == Spec => []FrontInv
  BY FrontStarts, FrontKeeps, PTL DEF Spec

\* No request that arrives after its key was rotated away or its client was
\* revoked is let in (authenticate, lookup_api_key), however the commands of
\* any number of admin processes interleave with each other and with it.
THEOREM DeadKeysStayOut == Spec => []DeadKeyStaysOut
<1>1. FrontInv => DeadKeyStaysOut
  BY Zenon DEF FrontInv, Remembers, DeadKeyStaysOut
<1> QED BY <1>1, FrontHolds, PTL

-----------------------------------------------------------------------------
(* Permits.                                                                *)

Verifying == {r \in Requests : request[r].pc = "verify"}

SlotsInv == free \in Nat /\ free + Cardinality(Verifying) = Slots

\* A request that starts to be verified takes a permit and one that stops
\* gives it back.
LEMMA PermitMoves ==
  ASSUME SlotsInv, NEW r \in Requests,
         \A q \in Requests : q # r => request'[q] = request[q],
         \/ /\ request[r].pc # "verify" /\ request'[r].pc # "verify"
            /\ free' = free
         \/ /\ request[r].pc # "verify" /\ request'[r].pc = "verify"
            /\ free > 0 /\ free' = free - 1
         \/ /\ request[r].pc = "verify" /\ request'[r].pc # "verify"
            /\ free' = free + 1
  PROVE  SlotsInv'
<1>1. IsFiniteSet(Verifying)
  <2>1. Verifying \subseteq Requests
    BY Zenon DEF Verifying
  <2> QED BY <2>1, FrontAssumption, FS_Subset, Zenon
<1>2. Cardinality(Verifying) \in Nat
  BY <1>1, FS_CardinalityType, Zenon
<1>3. CASE request[r].pc # "verify" /\ request'[r].pc # "verify" /\ free' = free
  <2>1. Verifying' = Verifying
    BY <1>3, Zenon DEF Verifying
  <2> QED BY <1>3, <2>1, Zenon DEF SlotsInv
<1>4. CASE request[r].pc # "verify" /\ request'[r].pc = "verify" /\ free > 0 /\ free' = free - 1
  <2>1. Verifying' = Verifying \cup {r} /\ r \notin Verifying
    BY <1>4 DEF Verifying
  <2>2. Cardinality(Verifying') = Cardinality(Verifying) + 1
    BY <1>1, <2>1, FS_AddElement, Zenon
  <2>3. Cardinality(Verifying)' = Cardinality(Verifying')
    BY Zenon
  <2> QED BY <1>2, <1>4, <2>2, <2>3 DEF SlotsInv
<1>5. CASE request[r].pc = "verify" /\ request'[r].pc # "verify" /\ free' = free + 1
  <2>1. Verifying' = Verifying \ {r} /\ r \in Verifying
    BY <1>5, Zenon DEF Verifying
  <2>2. Cardinality(Verifying') = Cardinality(Verifying) - 1
    BY <1>1, <2>1, FS_RemoveElement, Zenon
  <2>3. Cardinality(Verifying)' = Cardinality(Verifying')
    BY Zenon
  <2> QED BY <1>2, <1>5, <2>2, <2>3 DEF SlotsInv
<1> QED BY <1>3, <1>4, <1>5, Zenon

LEMMA SlotsKeep ==
  ASSUME RequestTypes, SlotsInv, [Next]_vars
  PROVE  SlotsInv'
<1>1. ASSUME NEW r \in Requests, Arrive(r) PROVE SlotsInv'
  <2>1. free' = free
    BY <1>1, Zenon DEF Arrive
  <2> QED BY <1>1, <2>1, ArriveMoves, PermitMoves, Zenon
<1>2. ASSUME NEW r \in Requests, NEW what \in Answers, Answer(r, what), free' = free,
             request[r].pc # "verify"
      PROVE  SlotsInv'
  BY <1>2, AnswerType, PermitMoves, Zenon
<1>3. ASSUME NEW r \in Requests, NEW pc \in {"rate", "parse", "policy"}, Advance(r, pc), free' = free,
             request[r].pc # "verify"
      PROVE  SlotsInv'
  <2>1. pc \in FrontPcs /\ pc # "verify"
    BY Zenon DEF FrontPcs
  <2> QED BY <1>3, <2>1, AdvanceType, PermitMoves, Zenon
<1>4. ASSUME NEW r \in Requests, Authenticate(r) PROVE SlotsInv'
  BY <1>2, <1>3, <1>4, Zenon DEF Authenticate, Answers
<1>5. ASSUME NEW r \in Requests, CheckRate(r) PROVE SlotsInv'
  BY <1>2, <1>3, <1>5, Zenon DEF CheckRate, Answers
<1>6. ASSUME NEW r \in Requests, ReadAndParse(r) PROVE SlotsInv'
  <2>1. request[r].flaws # {} => FirstFlaw(request[r].flaws) \in Answers
    BY <1>6, Zenon DEF RequestTypes, RequestRecords, Answers
  <2>2. "settling" \in Answers
    BY Zenon DEF Answers
  <2> QED BY <1>2, <1>3, <1>6, <2>1, <2>2, Zenon DEF ReadAndParse
<1>7. ASSUME NEW r \in Requests, CheckPolicy(r) PROVE SlotsInv'
  <2>1. ASSUME free > 0, free' = free - 1, Advance(r, "verify") PROVE SlotsInv'
    <3>1. "verify" \in FrontPcs /\ request[r].pc # "verify"
      BY <1>7, Zenon DEF FrontPcs, CheckPolicy
    <3> QED BY <1>7, <2>1, <3>1, AdvanceType, PermitMoves, Zenon
  <2> QED BY <1>2, <1>7, <2>1, Zenon DEF CheckPolicy, Answers
<1>8. ASSUME NEW r \in Requests, Verify(r) PROVE SlotsInv'
  <2>1. PICK what \in Answers : Answer(r, what)
    BY <1>8, Zenon DEF Verify, Answers
  <2>2. request[r].pc = "verify" /\ free' = free + 1
    BY <1>8, Zenon DEF Verify
  <2> QED BY <1>8, <2>1, <2>2, AnswerType, PermitMoves, Zenon
<1>9. ASSUME NEW r \in Requests, Cancel(r) PROVE SlotsInv'
  <2>1. "verification_timeout" \in Answers
    BY Zenon DEF Answers
  <2> QED BY <1>9, <2>1, AnswerType, PermitMoves, Zenon DEF Cancel
<1>10. CASE ~RequestStep
  <2>1. request' = request /\ free' = free
    BY <1>10, Zenon DEF Next, front, Ready, Tick, vars
  <2> QED BY <2>1, Zenon DEF SlotsInv, Verifying
<1> QED BY <1>1, <1>4, <1>5, <1>6, <1>7, <1>8, <1>9, <1>10, Zenon DEF RequestStep

\* The permits of verify_slots are conserved: what is not free is held by a
\* request that is being verified, through answers, timeouts and dropped
\* connections, for any number of slots and connections.
THEOREM SlotsAreConserved == Spec => []SlotsConserved
<1>1. Init => SlotsInv
  <2>1. ASSUME Init PROVE SlotsInv
    <3>1. Verifying = {}
      BY <2>1, Zenon DEF Init, Quiet, Verifying
    <3>2. free = Slots /\ Slots \in Nat
      BY <2>1, FrontAssumption, Zenon DEF Init
    <3> QED BY <3>1, <3>2, FS_EmptySet DEF SlotsInv
  <2> QED BY <2>1, Zenon
<1>2. FrontInv /\ SlotsInv /\ [Next]_vars => SlotsInv'
  BY SlotsKeep, Zenon DEF FrontInv
<1>3. SlotsInv => SlotsConserved
  BY Zenon DEF SlotsInv, Verifying, SlotsConserved
<1> QED BY <1>1, <1>2, <1>3, FrontHolds, PTL DEF Spec

-----------------------------------------------------------------------------
(* Payees.                                                                 *)

\* A payee is stored in the spelling that its network compares.
PayeesStored == \A row \in payees : \E p \in Addresses : row.payTo = Stored(row.network, p)

LEMMA PayeesKeep ==
  ASSUME PayeesStored, [Next]_vars
  PROVE  PayeesStored'
<1>1. ASSUME NEW a \in Admins, AllowPayee(a) PROVE PayeesStored'
  <2>1. PICK c \in Clients, n \in DOMAIN Networks, asset \in Addresses, p \in Addresses :
          payees' = payees \cup {[client |-> c, network |-> n,
                                  asset |-> Stored(n, asset), payTo |-> Stored(n, p)]}
    BY <1>1, Zenon DEF AllowPayee
  <2> DEFINE new == [client |-> c, network |-> n, asset |-> Stored(n, asset), payTo |-> Stored(n, p)]
  <2>2. new.payTo = Stored(new.network, p) /\ payees' = payees \cup {new}
    BY <2>1, Zenon
  <2> HIDE DEF new
  <2> QED BY <2>2, Zenon DEF PayeesStored
<1>2. CASE \A a \in Admins : ~AllowPayee(a)
  <2>1. payees' = payees
    BY <1>2, Zenon DEF Next, RequestStep, Arrive, Authenticate, CheckRate, ReadAndParse, CheckPolicy, Verify,
                Cancel, Ready, Tick, vars, access, AdminStep, CreateClient, StartRotate, CheckClient,
                ScanKeys, UpdateKeys, CommitRotate, StartRevoke, CommitRevoke, Abort, Tables
  <2> QED BY <2>1, Zenon DEF PayeesStored
<1> QED BY <1>1, <1>2, Zenon

\* A stored payee is the same address as the one it was stored for.
LEMMA StoredIsSame ==
  ASSUME NEW p \in Addresses, NEW n
  PROVE  SameAddress(n, Stored(n, p), p)
  BY Zenon DEF SameAddress, Stored, Lower

\* Whenever GET /ready turns the database gate ready, every active client has
\* a payee its requests may name (active_clients_have_payee_policy against
\* payee_allowed), on every network and in every spelling.
THEOREM ReadyIsServable == Spec => ReadyMeansServable
<1> DEFINE Servable == ~database /\ database' =>
             \A c \in Clients : IsActive(c) =>
               \E p \in Addresses : PayeeAllowed(c, Network, Asset, p)
<1>1. Init => PayeesStored
  BY Zenon DEF Init, AccessInit, PayeesStored
<1>2. ASSUME PayeesStored, Ready PROVE Servable
  <2> SUFFICES ASSUME ActiveClientsHavePayeePolicy, NEW c \in Clients, IsActive(c)
               PROVE  \E p \in Addresses : PayeeAllowed(c, Network, Asset, p)
    BY <1>2, Zenon DEF Ready
  <2>1. PICK row \in payees : /\ row.client = c /\ row.network = Network
                              /\ SameAddress(Network, row.asset, Asset)
    BY Zenon DEF ActiveClientsHavePayeePolicy
  <2>2. PICK p \in Addresses : row.payTo = Stored(Network, p)
    BY <1>2, <2>1, Zenon DEF PayeesStored
  <2>3. SameAddress(Network, row.payTo, p)
    BY <2>2, StoredIsSame, Zenon
  <2> QED BY <2>1, <2>3, Zenon DEF PayeeAllowed
<1>3. ASSUME PayeesStored, [Next]_vars PROVE Servable \/ UNCHANGED vars
  <2>1. CASE Ready
    BY <1>2, <1>3, <2>1, Zenon
  <2>2. CASE ~Ready
    <3>1. database' = database
      BY <1>3, <2>2, Zenon DEF Next, front, RequestStep, Arrive, Authenticate, CheckRate, ReadAndParse,
                        CheckPolicy, Verify, Cancel, Tick, vars
    <3> QED BY <3>1, Zenon
  <2> QED BY <2>1, <2>2, Zenon
<1>4. Spec => []PayeesStored
  BY <1>1, PayeesKeep, PTL DEF Spec
<1> QED BY <1>3, <1>4, PTL DEF Spec, ReadyMeansServable

-----------------------------------------------------------------------------
(* The rate limiter.  f[t] is how many requests were let through up to     *)
(* tick t, at is the tick of today.                                        *)

Tallies(f, at) ==
    /\ f \in [Int -> Nat]
    /\ \A t, u \in Int : t <= u => f[t] <= f[u]
    /\ \A t \in Int : t >= at => f[t] = f[at]

\* A window that opened at s has counted all that was let through since, the
\* first request at s and none after its minute; and in the minute before its
\* end less than the limit went through ahead of it.
Fits(f, s, c, at, limit) ==
    /\ s \in 0..at /\ c \in 1..limit
    /\ f[at] - f[s - 1] = c
    /\ f[s] - f[s - 1] >= 1
    /\ \A t \in Int : t >= s + Window - 1 => f[t] = f[s + Window - 1]
    /\ \A t \in Int : t > s - Window => f[s - 1] - f[t - 1] <= limit - 1

EveryMinute(f, limit) == \A t \in Int : f[t + Window - 1] - f[t - 1] <= 2 * limit - 1

\* One more request at tick at.
OneMore(f, at) == [t \in Int |-> IF t < at THEN f[t] ELSE f[t] + 1]

LEMMA WindowType == Window \in Nat /\ Window >= 1
  BY FrontAssumption

LEMMA OneMoreValues ==
  ASSUME NEW at \in Nat, NEW f \in [Int -> Nat]
  PROVE  /\ OneMore(f, at) \in [Int -> Nat]
         /\ \A t \in Int : t < at => OneMore(f, at)[t] = f[t]
         /\ \A t \in Int : t >= at => OneMore(f, at)[t] = f[t] + 1
  BY DEF OneMore

LEMMA OneMoreTallies ==
  ASSUME NEW at \in Nat, NEW f, Tallies(f, at)
  PROVE  Tallies(OneMore(f, at), at)
<1> DEFINE g == OneMore(f, at)
<1>1. /\ f \in [Int -> Nat] /\ g \in [Int -> Nat]
      /\ \A t \in Int : t < at => g[t] = f[t]
      /\ \A t \in Int : t >= at => g[t] = f[t] + 1
  BY OneMoreValues, Zenon DEF Tallies
<1> HIDE DEF g
<1>2. ASSUME NEW t \in Int, NEW u \in Int, t <= u PROVE g[t] <= g[u]
  <2>1. f[t] <= f[u] /\ f[t] \in Nat /\ f[u] \in Nat
    BY <1>1, <1>2, Zenon DEF Tallies
  <2> QED BY <1>1, <1>2, <2>1
<1>3. \A t \in Int : t >= at => g[t] = g[at]
  BY <1>1 DEF Tallies
<1> QED BY <1>1, <1>2, <1>3, Zenon DEF Tallies, g

\* A window that is open and not full counts one more.
LEMMA SameWindowFits ==
  ASSUME NEW at \in Nat, NEW f, Tallies(f, at), NEW s, NEW c, NEW limit \in Nat,
         Fits(f, s, c, at, limit), at - s < Window, c < limit
  PROVE  Fits(OneMore(f, at), s, c + 1, at, limit)
<1> DEFINE g == OneMore(f, at)
<1>1. /\ f \in [Int -> Nat] /\ g \in [Int -> Nat]
      /\ \A t \in Int : t < at => g[t] = f[t]
      /\ \A t \in Int : t >= at => g[t] = f[t] + 1
  BY OneMoreValues, Zenon DEF Tallies
<1> HIDE DEF g
<1>2. s \in 0..at /\ s \in Int /\ c \in 1..limit /\ s - 1 < at /\ s + Window - 1 >= at /\ s + Window - 1 \in Int
  BY WindowType DEF Fits
<1>3. \A t \in Int : f[t] \in Nat /\ g[t] \in Nat
  BY <1>1, Zenon
<1>4. g[s - 1] = f[s - 1] /\ g[at] = f[at] + 1 /\ (g[s] = f[s] \/ g[s] = f[s] + 1)
  BY <1>1, <1>2
<1>5. g[at] - g[s - 1] = c + 1
  BY <1>2, <1>3, <1>4 DEF Fits
<1>6. g[s] - g[s - 1] >= 1
  BY <1>2, <1>3, <1>4 DEF Fits
<1>7. \A t \in Int : t >= s + Window - 1 => g[t] = g[s + Window - 1]
  <2> SUFFICES ASSUME NEW t \in Int, t >= s + Window - 1 PROVE g[t] = g[s + Window - 1]
    BY Zenon
  <2>1. f[t] = f[s + Window - 1]
    BY Zenon DEF Fits
  <2>2. t >= at
    BY <1>2
  <2> QED BY <1>1, <1>2, <2>1, <2>2, Zenon
<1>8. \A t \in Int : t > s - Window => g[s - 1] - g[t - 1] <= limit - 1
  <2> SUFFICES ASSUME NEW t \in Int, t > s - Window PROVE g[s - 1] - g[t - 1] <= limit - 1
    BY Zenon
  <2>1. f[s - 1] - f[t - 1] <= limit - 1
    BY Zenon DEF Fits
  <2>2. g[t - 1] = f[t - 1] \/ g[t - 1] = f[t - 1] + 1
    BY <1>1
  <2>3. f[s - 1] \in Nat /\ f[t - 1] \in Nat
    BY <1>2, <1>3
  <2> QED BY <1>4, <2>1, <2>2, <2>3
<1>9. c + 1 \in 1..limit
  BY <1>2
<1> QED BY <1>2, <1>5, <1>6, <1>7, <1>8, <1>9, Zenon DEF Fits, g

\* A window opens: none was open, or the last one had its minute.
LEMMA NewWindowFits ==
  ASSUME NEW at \in Nat, NEW f, Tallies(f, at), NEW limit \in Nat, limit >= 1,
         \/ \A t \in Int : f[t] = 0
         \/ \E s, c : Fits(f, s, c, at, limit) /\ at - s >= Window
  PROVE  Fits(OneMore(f, at), at, 1, at, limit)
<1> DEFINE g == OneMore(f, at)
<1>1. /\ f \in [Int -> Nat] /\ g \in [Int -> Nat]
      /\ \A t \in Int : t < at => g[t] = f[t]
      /\ \A t \in Int : t >= at => g[t] = f[t] + 1
  BY OneMoreValues, Zenon DEF Tallies
<1> HIDE DEF g
<1> DEFINE NoneYet == /\ f[at] = f[at - 1]
                      /\ \A t \in Int : t > at - Window => f[at - 1] - f[t - 1] <= limit - 1
<1>2. NoneYet
  <2>1. CASE \A t \in Int : f[t] = 0
    BY <2>1
  <2>2. ASSUME NEW s, NEW c, Fits(f, s, c, at, limit), at - s >= Window
        PROVE  NoneYet
    <3>1. s \in 0..at /\ c \in 1..limit /\ s + Window - 1 \in Int
      BY <2>2, WindowType DEF Fits
    <3>2. at >= s + Window - 1 /\ at - 1 >= s + Window - 1 /\ at \in Int /\ at - 1 \in Int
      BY <2>2, <3>1, WindowType
    <3>3. f[at] = f[at - 1]
      BY <2>2, <3>2, Zenon DEF Fits
    <3>4. ASSUME NEW t \in Int, t > at - Window PROVE f[at - 1] - f[t - 1] <= limit - 1
      <4>1. t - 1 >= s /\ t - 1 \in Int /\ s \in Int /\ s - 1 \in Int
        BY <2>2, <3>1, <3>4, WindowType
      <4>2. f[t - 1] >= f[s]
        BY <4>1, Zenon DEF Tallies
      <4>3. f[at] - f[s - 1] = c /\ f[s] - f[s - 1] >= 1
        BY <2>2, Zenon DEF Fits
      <4>4. /\ f[t - 1] \in Nat /\ f[s] \in Nat /\ f[s - 1] \in Nat /\ f[at] \in Nat
            /\ f[at - 1] \in Nat /\ c \in Nat /\ c <= limit
        BY <1>1, <3>1, <3>2, <4>1
      <4> QED BY <3>3, <4>2, <4>3, <4>4
    <3> QED BY <3>3, <3>4, Zenon
  <2> QED BY <2>1, <2>2, Zenon
<1>3. at \in Int /\ at - 1 \in Int /\ at \in 0..at /\ 1 \in 1..limit
  OBVIOUS
<1>4. g[at] = f[at] + 1 /\ g[at - 1] = f[at - 1] /\ f[at] \in Nat
  BY <1>1, <1>3
<1>5. g[at] - g[at - 1] = 1
  BY <1>2, <1>4
<1>6. \A t \in Int : t >= at + Window - 1 => g[t] = g[at + Window - 1]
  <2>1. at + Window - 1 >= at /\ at + Window - 1 \in Int
    BY WindowType
  <2> QED BY <1>1, <2>1, WindowType DEF Tallies
<1>7. \A t \in Int : t > at - Window => g[at - 1] - g[t - 1] <= limit - 1
  <2> SUFFICES ASSUME NEW t \in Int, t > at - Window PROVE g[at - 1] - g[t - 1] <= limit - 1
    BY Zenon
  <2>1. f[at - 1] - f[t - 1] <= limit - 1
    BY <1>2, Zenon
  <2>2. (g[t - 1] = f[t - 1] \/ g[t - 1] = f[t - 1] + 1) /\ f[t - 1] \in Nat /\ f[at - 1] \in Nat
    BY <1>1
  <2> QED BY <1>4, <2>1, <2>2
<1>8. Fits(g, at, 1, at, limit)
  BY <1>3, <1>5, <1>6, <1>7 DEF Fits
<1> QED BY <1>8, Zenon DEF g

\* A request let through an open window leaves every minute within twice the
\* limit: a minute that ends today is the open window and what went ahead of it.
LEMMA OneMoreMinute ==
  ASSUME NEW at \in Nat, NEW f, Tallies(f, at), NEW s, NEW c, NEW limit \in Nat,
         Fits(OneMore(f, at), s, c, at, limit), at - s < Window, EveryMinute(f, limit)
  PROVE  EveryMinute(OneMore(f, at), limit)
<1> DEFINE g == OneMore(f, at)
<1>1. /\ f \in [Int -> Nat] /\ g \in [Int -> Nat]
      /\ \A t \in Int : t < at => g[t] = f[t]
      /\ \A t \in Int : t >= at => g[t] = f[t] + 1
  BY OneMoreValues, Zenon DEF Tallies
<1>2. Tallies(g, at)
  BY OneMoreTallies, Zenon
<1> HIDE DEF g
<1> SUFFICES ASSUME NEW t \in Int PROVE g[t + Window - 1] - g[t - 1] <= 2 * limit - 1
  BY Zenon DEF EveryMinute, g
<1>3. t + Window - 1 \in Int /\ t - 1 \in Int /\ t - 1 < t + Window - 1 /\ at \in Int
  BY WindowType
<1>4. /\ f[t + Window - 1] - f[t - 1] <= 2 * limit - 1
      /\ f[t + Window - 1] \in Nat /\ f[t - 1] \in Nat
  BY <1>1, <1>3, Zenon DEF EveryMinute
<1>5. CASE t + Window - 1 < at
  BY <1>1, <1>3, <1>4, <1>5
<1>6. CASE t - 1 >= at
  BY <1>1, <1>3, <1>4, <1>6
<1>7. CASE t - 1 < at /\ at <= t + Window - 1
  <2>1. g[t + Window - 1] = g[at]
    BY <1>2, <1>3, <1>7, Zenon DEF Tallies
  <2>2. s \in 0..at /\ c \in 1..limit /\ g[at] - g[s - 1] = c
    BY Zenon DEF Fits, g
  <2>3. t > s - Window
    BY <1>7, <2>2, WindowType
  <2>4. g[s - 1] - g[t - 1] <= limit - 1
    BY <2>3, Zenon DEF Fits, g
  <2>5. g[at] \in Nat /\ g[s - 1] \in Nat /\ g[t - 1] \in Nat /\ c <= limit /\ c \in Nat
    BY <1>1, <1>3, <2>2
  <2> QED BY <2>1, <2>2, <2>4, <2>5
<1> QED BY <1>3, <1>5, <1>6, <1>7

\* The history of one key and operation.
Tally(w) == [t \in Int |-> AdmittedBy(w, t)]

OpenWindows == [started: Nat, count: Nat]

RateTypes ==
    /\ now \in 0..MaxTime
    /\ windows \in [Keys \X Operations -> OpenWindows \cup {NoWindow}]
    /\ admitted \in [Keys \X Operations -> [0..MaxTime -> Nat]]

WindowInv(w) ==
    /\ Tallies(Tally(w), now)
    /\ EveryMinute(Tally(w), Limit(w[2]))
    /\ \/ windows[w] = NoWindow /\ \A t \in Int : Tally(w)[t] = 0
       \/ /\ windows[w] \in OpenWindows
          /\ Fits(Tally(w), windows[w].started, windows[w].count, now, Limit(w[2]))

RateInv == RateTypes /\ \A w \in Keys \X Operations : WindowInv(w)

LEMMA LimitType ==
  ASSUME NEW o \in Operations
  PROVE  Limit(o) \in Nat /\ Limit(o) >= 1
<1>1. ClientRate[o] \in Nat \ {0} /\ ConfigRate[o] \in Nat \ {0}
  BY FrontAssumption, Zenon
<1>2. \E x \in {ClientRate[o], ConfigRate[o]} : \A y \in {ClientRate[o], ConfigRate[o]} : x <= y
  BY <1>1
<1>3. Min({ClientRate[o], ConfigRate[o]}) \in {ClientRate[o], ConfigRate[o]}
  BY <1>2, Zenon DEF Min
<1> QED BY <1>1, <1>3 DEF Limit

LEMMA RateFacts ==
  ASSUME RateInv, NEW w \in Keys \X Operations
  PROVE  /\ Limit(w[2]) \in Nat /\ Limit(w[2]) >= 1 /\ now \in Nat
         /\ Tallies(Tally(w), now) /\ EveryMinute(Tally(w), Limit(w[2]))
<1>1. w[2] \in Operations
  BY Zenon
<1>2. Limit(w[2]) \in Nat /\ Limit(w[2]) >= 1
  BY <1>1, LimitType, Zenon
<1>3. now \in Nat
  BY FrontAssumption DEF RateInv, RateTypes
<1>4. Tallies(Tally(w), now) /\ EveryMinute(Tally(w), Limit(w[2]))
  BY Zenon DEF RateInv, WindowInv
<1> QED BY <1>2, <1>3, <1>4, Zenon

LEMMA TallyOneMore ==
  ASSUME RateTypes, NEW w \in Keys \X Operations,
         admitted' = [admitted EXCEPT ![w] = [t \in 0..MaxTime |-> IF t < now THEN @[t] ELSE @[t] + 1]]
  PROVE  /\ Tally(w)' = OneMore(Tally(w), now)
         /\ \A v \in Keys \X Operations : v # w => Tally(v)' = Tally(v)
         /\ admitted' \in [Keys \X Operations -> [0..MaxTime -> Nat]]
<1>1. MaxTime \in Nat /\ now \in 0..MaxTime
  BY FrontAssumption, Zenon DEF RateTypes
<1>2. /\ admitted'[w] = [t \in 0..MaxTime |-> IF t < now THEN admitted[w][t] ELSE admitted[w][t] + 1]
      /\ \A v \in Keys \X Operations : v # w => admitted'[v] = admitted[v]
  BY Zenon DEF RateTypes
<1>3. [t \in 0..MaxTime |-> IF t < now THEN admitted[w][t] ELSE admitted[w][t] + 1] \in [0..MaxTime -> Nat]
  BY <1>1 DEF RateTypes
<1>4. admitted' \in [Keys \X Operations -> [0..MaxTime -> Nat]]
  BY <1>3, Zenon DEF RateTypes
<1>5. ASSUME NEW t \in Int
      PROVE  AdmittedBy(w, t)' = IF t < now THEN AdmittedBy(w, t) ELSE AdmittedBy(w, t) + 1
  BY <1>1, <1>2, <1>5 DEF AdmittedBy
<1>6. Tally(w)' = OneMore(Tally(w), now)
  BY <1>5, Zenon DEF Tally, OneMore
<1>7. ASSUME NEW v \in Keys \X Operations, v # w PROVE Tally(v)' = Tally(v)
  BY <1>2, <1>7 DEF Tally, AdmittedBy
<1> QED BY <1>4, <1>6, <1>7, Zenon

\* A request let through.
LEMMA AdmitKeeps ==
  ASSUME RateInv, NEW w \in Keys \X Operations, now' = now,
         ~AtLimit(CurrentWindow(w), w[2]),
         windows' = [windows EXCEPT ![w] = [CurrentWindow(w) EXCEPT !.count = @ + 1]],
         admitted' = [admitted EXCEPT ![w] = [t \in 0..MaxTime |-> IF t < now THEN @[t] ELSE @[t] + 1]]
  PROVE  RateInv'
<1> DEFINE f == Tally(w)
           limit == Limit(w[2])
           current == CurrentWindow(w)
<1>1. /\ limit \in Nat /\ limit >= 1 /\ now \in Nat
      /\ Tallies(f, now) /\ EveryMinute(f, limit)
  BY RateFacts, Zenon
<1>2. /\ Tally(w)' = OneMore(f, now)
      /\ \A v \in Keys \X Operations : v # w => Tally(v)' = Tally(v)
      /\ admitted' \in [Keys \X Operations -> [0..MaxTime -> Nat]]
  BY TallyOneMore, Zenon DEF RateInv
<1>3. \E s, c \in Nat :
        /\ [current EXCEPT !.count = @ + 1] = [started |-> s, count |-> c]
        /\ Fits(OneMore(f, now), s, c, now, limit) /\ now - s < Window
  <2>1. CASE windows[w] = NoWindow \/ now - windows[w].started >= Window
    <3>1. current = [started |-> now, count |-> 0]
      BY <2>1, Zenon DEF CurrentWindow
    <3>2. [current EXCEPT !.count = @ + 1] = [started |-> now, count |-> 1]
      BY <3>1
    <3>3. \/ \A t \in Int : f[t] = 0
          \/ \E s, c : Fits(f, s, c, now, limit) /\ now - s >= Window
      BY <2>1, FrontAssumption, Zenon DEF RateInv, WindowInv, OpenWindows
    <3> HIDE DEF f, limit, current
    <3>4. Fits(OneMore(f, now), now, 1, now, limit)
      BY <1>1, <3>3, NewWindowFits, Zenon
    <3>5. now - now < Window /\ 1 \in Nat
      BY <1>1, WindowType
    <3> QED BY <1>1, <3>2, <3>4, <3>5, Zenon
  <2>2. CASE ~(windows[w] = NoWindow \/ now - windows[w].started >= Window)
    <3>1. current = windows[w]
      BY <2>2, Zenon DEF CurrentWindow
    <3>2. /\ windows[w] \in OpenWindows
          /\ Fits(f, windows[w].started, windows[w].count, now, limit)
      BY <2>2, Zenon DEF RateInv, WindowInv
    <3>3. PICK s \in Nat, c \in Nat : windows[w] = [started |-> s, count |-> c]
      BY <3>2, Zenon DEF OpenWindows
    <3>4. [current EXCEPT !.count = @ + 1] = [started |-> s, count |-> c + 1]
      BY <3>1, <3>3
    <3>5. Fits(f, s, c, now, limit) /\ now - s < Window
      <4>1. windows[w].started = s /\ windows[w].count = c
        BY <3>3
      <4>2. now - s < Window
        BY <1>1, <2>2, <4>1, WindowType
      <4> QED BY <3>2, <4>1, <4>2, Zenon
    <3>6. c < limit
      BY <1>1, <3>1, <3>3 DEF AtLimit
    <3> HIDE DEF f, limit, current
    <3>7. Fits(OneMore(f, now), s, c + 1, now, limit)
      BY <1>1, <3>5, <3>6, SameWindowFits, Zenon
    <3> QED BY <3>4, <3>5, <3>7
  <2> QED BY <2>1, <2>2, Zenon
<1>4. PICK s \in Nat, c \in Nat :
        /\ [current EXCEPT !.count = @ + 1] = [started |-> s, count |-> c]
        /\ Fits(OneMore(f, now), s, c, now, limit) /\ now - s < Window
  BY <1>3, Zenon
<1> HIDE DEF f, limit
<1>5. Tallies(OneMore(f, now), now) /\ EveryMinute(OneMore(f, now), limit)
  BY <1>1, <1>4, OneMoreTallies, OneMoreMinute, Zenon
<1> DEFINE new == [started |-> s, count |-> c]
<1>6. windows' = [windows EXCEPT ![w] = new] /\ new \in OpenWindows /\ new.started = s /\ new.count = c
  BY <1>4, Zenon DEF OpenWindows
<1> HIDE DEF new
<1>7. /\ windows'[w] = new
      /\ \A v \in Keys \X Operations : v # w => windows'[v] = windows[v]
      /\ windows' \in [Keys \X Operations -> OpenWindows \cup {NoWindow}]
  BY <1>6, Zenon DEF RateInv, RateTypes
<1>8. RateTypes'
  BY <1>2, <1>7, Zenon DEF RateInv, RateTypes
<1>9. WindowInv(w)'
  BY <1>2, <1>4, <1>5, <1>6, <1>7, Zenon DEF WindowInv, limit
<1>10. ASSUME NEW v \in Keys \X Operations, v # w PROVE WindowInv(v)'
  BY <1>2, <1>7, <1>10 DEF RateInv, WindowInv
<1> QED BY <1>8, <1>9, <1>10, Zenon DEF RateInv

\* At its limit a window stays as it is: the limit is not zero, so a window that
\* has just been opened is not full.
LEMMA FullWindow ==
  ASSUME RateInv, NEW w \in Keys \X Operations, AtLimit(CurrentWindow(w), w[2])
  PROVE  /\ CurrentWindow(w) = windows[w] /\ windows[w] \in OpenWindows
         /\ now - windows[w].started < Window
         /\ windows[w].count >= Limit(w[2])
         /\ Fits(Tally(w), windows[w].started, windows[w].count, now, Limit(w[2]))
<1>1. Limit(w[2]) \in Nat /\ Limit(w[2]) >= 1 /\ now \in Nat
  BY RateFacts, Zenon
<1>2. ~(windows[w] = NoWindow \/ now - windows[w].started >= Window)
  <2>1. SUFFICES ASSUME windows[w] = NoWindow \/ now - windows[w].started >= Window PROVE FALSE
    BY Zenon
  <2>2. CurrentWindow(w).count = 0
    BY <2>1, Zenon DEF CurrentWindow
  <2> QED BY <1>1, <2>2 DEF AtLimit
<1>3. CurrentWindow(w) = windows[w]
  BY <1>2, Zenon DEF CurrentWindow
<1>4. /\ windows[w] \in OpenWindows
      /\ Fits(Tally(w), windows[w].started, windows[w].count, now, Limit(w[2]))
  BY <1>2, Zenon DEF RateInv, WindowInv
<1>5. now - windows[w].started < Window
  <2> DEFINE s == windows[w].started
  <2>1. s \in Nat
    BY <1>4, Zenon DEF OpenWindows
  <2>2. ~(now - s >= Window)
    BY <1>2, Zenon
  <2> HIDE DEF s
  <2>3. now - s < Window
    BY <1>1, <2>1, <2>2, WindowType
  <2> QED BY <2>3, Zenon DEF s
<1> QED BY <1>3, <1>4, <1>5, Zenon DEF AtLimit

LEMMA RateKeeps ==
  ASSUME FrontInv, RateInv, [Next]_vars
  PROVE  RateInv'
<1>1. ASSUME NEW r \in Requests, CheckRate(r) PROVE RateInv'
  <2> DEFINE w == <<request[r].key, request[r].op>>
  <2>1. w \in Keys \X Operations /\ w[2] = request[r].op /\ now' = now
    BY <1>1, Zenon DEF CheckRate, FrontInv, Remembers
  <2>2. CASE AtLimit(CurrentWindow(w), w[2]) /\ windows' = [windows EXCEPT ![w] = CurrentWindow(w)]
             /\ UNCHANGED admitted
    <3> HIDE DEF w
    <3>1. windows' = windows
      BY <2>1, <2>2, FullWindow, Zenon DEF RateInv, RateTypes
    <3> QED BY <2>1, <2>2, <3>1, Zenon DEF RateInv, RateTypes, WindowInv, Tally, AdmittedBy
  <2>3. CASE /\ ~AtLimit(CurrentWindow(w), w[2])
             /\ windows' = [windows EXCEPT ![w] = [CurrentWindow(w) EXCEPT !.count = @ + 1]]
             /\ admitted' = [admitted EXCEPT ![w] =
                               [t \in 0..MaxTime |-> IF t < now THEN @[t] ELSE @[t] + 1]]
    <3> HIDE DEF w
    <3> QED BY <2>1, <2>3, AdmitKeeps, Zenon
  <2> QED BY <1>1, <2>1, <2>2, <2>3, Zenon DEF CheckRate
<1>2. CASE Tick
  <2>1. now \in 0..MaxTime /\ now' \in 0..MaxTime /\ now' = now + 1 /\ windows' = windows /\ admitted' = admitted
    BY <1>2, FrontAssumption DEF Tick, RateInv, RateTypes
  <2>2. ASSUME NEW w \in Keys \X Operations PROVE WindowInv(w)'
    <3>1. Tally(w)' = Tally(w)
      BY <2>1, Zenon DEF Tally, AdmittedBy
    <3> DEFINE f == Tally(w)
    <3>2. Tallies(f, now) /\ EveryMinute(f, Limit(w[2])) /\ now \in Int /\ now' \in Int /\ now' >= now
      <4>1. Tallies(f, now) /\ EveryMinute(f, Limit(w[2]))
        BY <2>2, Zenon DEF RateInv, WindowInv
      <4>2. now \in Int /\ now' \in Int /\ now' >= now
        BY <2>1, FrontAssumption
      <4> QED BY <4>1, <4>2, Zenon
    <3> HIDE DEF f
    <3>3. Tallies(f, now') /\ f[now'] = f[now]
      BY <3>2 DEF Tallies
    <3>4. ASSUME NEW s, NEW c, Fits(f, s, c, now, Limit(w[2])) PROVE Fits(f, s, c, now', Limit(w[2]))
      <4>1. s \in 0..now'
        BY <2>1, <3>2, <3>4 DEF Fits
      <4> QED BY <3>3, <3>4, <4>1, Zenon DEF Fits
    <3>5. WindowInv(w)
      BY <2>2, Zenon DEF RateInv
    <3> QED BY <2>1, <3>1, <3>2, <3>3, <3>4, <3>5, Zenon DEF WindowInv, f
  <2> QED BY <2>1, <2>2, Zenon DEF RateInv, RateTypes
<1>3. CASE ~Tick /\ \A r \in Requests : ~CheckRate(r)
  <2>1. now' = now /\ windows' = windows /\ admitted' = admitted
    BY <1>3, Zenon DEF Next, front, RequestStep, Arrive, Authenticate, ReadAndParse, CheckPolicy, Verify,
                Cancel, Ready, vars
  <2> QED BY <2>1, Zenon DEF RateInv, RateTypes, WindowInv, Tally, AdmittedBy
<1> QED BY <1>1, <1>2, <1>3, Zenon

LEMMA RateStarts ==
  ASSUME Init
  PROVE  RateInv
<1>1. MaxTime \in Nat
  BY FrontAssumption, Zenon
<1>2. RateTypes
  BY <1>1 DEF Init, RateTypes
<1>3. ASSUME NEW w \in Keys \X Operations PROVE WindowInv(w)
  <2>1. \A t \in Int : Tally(w)[t] = 0
    BY <1>1 DEF Init, Tally, AdmittedBy
  <2>2. Tally(w) \in [Int -> Nat]
    BY <1>1 DEF Init, Tally, AdmittedBy
  <2>3. now = 0 /\ windows[w] = NoWindow /\ Limit(w[2]) \in Nat /\ Limit(w[2]) >= 1
    BY LimitType, Zenon DEF Init
  <2>4. Tallies(Tally(w), now)
    BY <2>1, <2>2, <2>3 DEF Tallies
  <2>5. EveryMinute(Tally(w), Limit(w[2]))
    BY <2>1, <2>3, WindowType DEF EveryMinute
  <2> QED BY <2>1, <2>3, <2>4, <2>5, Zenon DEF WindowInv
<1> QED BY <1>2, <1>3, Zenon DEF RateInv

LEMMA RateHolds == Spec => []RateInv
<1>1. Init => RateInv
  BY RateStarts, Zenon
<1>2. FrontInv /\ RateInv /\ [Next]_vars => RateInv'
  BY RateKeeps, Zenon
<1> QED BY <1>1, <1>2, FrontHolds, PTL DEF Spec

\* The fixed window of RateLimiter::check lets at most 2 * limit - 1 requests of
\* a key and an operation through in any minute, wherever the minute starts
\* and whatever the rates and the length of the minute.
THEOREM RateIsBounded == Spec => []RateBound
<1>1. ASSUME RateInv PROVE RateBound
  <2> SUFFICES ASSUME NEW w \in Keys \X Operations, NEW t \in 0..MaxTime
               PROVE  AdmittedBetween(w, t, t + Window - 1) <= 2 * Limit(w[2]) - 1
    BY Zenon DEF RateBound
  <2>1. t \in Int /\ t + Window - 1 \in Int /\ t - 1 \in Int
    BY WindowType, FrontAssumption
  <2>2. Tally(w)[t + Window - 1] - Tally(w)[t - 1] <= 2 * Limit(w[2]) - 1
    BY <1>1, <2>1, Zenon DEF RateInv, WindowInv, EveryMinute
  <2> QED BY <2>1, <2>2, Zenon DEF Tally, AdmittedBetween
<1> QED BY <1>1, RateHolds, PTL

\* What was counted from a later point on was counted from an earlier one.
LEMMA CountsFrom ==
  ASSUME NEW all \in Nat, NEW early \in Nat, NEW late \in Nat, NEW count \in Nat, NEW limit \in Nat,
         all - late = count, count >= limit, early <= late
  PROVE  all - early >= limit
BY SMT

\* Only a key that has had its limit within the last minute is refused for its
\* rate (RateLimiter::check): no window counts more than went through.
THEOREM RefusalAtLimit == Spec => RefusedAtLimit
<1> DEFINE Refused(r) == request[r].pc = "rate" /\ request'[r].answer = "rate_limit_exceeded"
           HadItsLimit(r) == AdmittedBetween(<<request[r].key, request[r].op>>, now - Window + 1, now)
                               >= Limit(request[r].op)
<1>1. ASSUME FrontInv, RateInv, NEW r \in Requests, request[r].pc = "rate",
             AtLimit(CurrentWindow(<<request[r].key, request[r].op>>), request[r].op)
      PROVE  HadItsLimit(r)
  <2> DEFINE w == <<request[r].key, request[r].op>>
  <2>1. w \in Keys \X Operations /\ w[2] = request[r].op
    BY <1>1, Zenon DEF FrontInv, Remembers
  <2> HIDE DEF w
  <2>2. /\ windows[w] \in OpenWindows /\ now - windows[w].started < Window
        /\ windows[w].count >= Limit(w[2])
        /\ Fits(Tally(w), windows[w].started, windows[w].count, now, Limit(w[2]))
    BY <1>1, <2>1, FullWindow, Zenon DEF w
  <2>3. Tallies(Tally(w), now) /\ now \in Nat /\ Limit(w[2]) \in Nat
    BY <1>1, <2>1, RateFacts, Zenon
  <2>4. PICK s \in Nat, c \in Nat : windows[w].started = s /\ windows[w].count = c
    BY <2>2, Zenon DEF OpenWindows
  <2> DEFINE f == Tally(w)
  <2>5. f[now] - f[s - 1] = c /\ now - s < Window /\ c >= Limit(w[2])
    BY <2>2, <2>4, Zenon DEF Fits
  <2>6. now - Window \in Int /\ s - 1 \in Int /\ now - Window <= s - 1 /\ now \in Int
    BY <2>3, <2>4, <2>5, WindowType
  <2>7. f[now - Window] <= f[s - 1] /\ f[now - Window] \in Nat /\ f[s - 1] \in Nat /\ f[now] \in Nat
    BY <2>3, <2>6, Zenon DEF Tallies
  <2>8. f[now] - f[now - Window] >= Limit(w[2])
    <3>1. Limit(w[2]) \in Nat
      BY <2>3, Zenon
    <3> QED BY <2>4, <2>5, <2>7, <3>1, CountsFrom
  <2>9. now - Window + 1 - 1 = now - Window
    BY <2>6, WindowType
  <2>10. AdmittedBetween(w, now - Window + 1, now) = f[now] - f[now - Window]
    BY <2>6, <2>9 DEF Tally, AdmittedBetween
  <2>11. AdmittedBetween(w, now - Window + 1, now) >= Limit(request[r].op)
    BY <2>1, <2>8, <2>10, Zenon
  <2> QED BY <2>11, Zenon DEF w
<1>2. ASSUME FrontInv, RateInv, [Next]_vars, NEW r \in Requests, Refused(r) PROVE HadItsLimit(r)
  <2>1. request[r].answer = "none" /\ RequestTypes
    BY <1>2, Zenon DEF FrontInv, Remembers
  <2>2. PICK q \in Requests : RequestActions(q)
    <3>1. request' # request
      BY <1>2, <2>1, Zenon
    <3> QED BY <1>2, <3>1, Zenon DEF Next, front, Ready, Tick, vars, RequestStep, RequestActions
  <2>3. q = r
    BY <1>2, <2>1, <2>2, OthersStay, Zenon
  <2>4. CheckRate(r) \/ Cancel(r)
    BY <1>2, <2>2, <2>3, Zenon DEF RequestActions, Arrive, Authenticate, ReadAndParse, CheckPolicy, Verify
  <2>5. ~Answer(r, "verification_timeout") /\ ~Advance(r, "parse")
    <3>1. "parse" \in FrontPcs /\ "verification_timeout" \in Answers
      BY Zenon DEF FrontPcs, Answers
    <3> QED BY <1>2, <2>1, <3>1, AnswerType, AdvanceType, Zenon
  <2>6. AtLimit(CurrentWindow(<<request[r].key, request[r].op>>), request[r].op)
    BY <2>4, <2>5, Zenon DEF CheckRate, Cancel
  <2> QED BY <1>1, <1>2, <2>6, Zenon
<1>3. FrontInv /\ RateInv /\ [Next]_vars => \A r \in Requests : Refused(r) => HadItsLimit(r)
  BY <1>2, Zenon
<1> QED BY <1>3, FrontHolds, RateHolds, PTL DEF Spec, RefusedAtLimit

=============================================================================
