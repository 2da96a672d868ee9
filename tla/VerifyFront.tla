---------------------------- MODULE VerifyFront -----------------------------
(***************************************************************************)
(* What a request meets before its payment is looked at: authentication,   *)
(* the rate limiter, parsing and the static checks, the payee policy and,  *)
(* for /verify, the verification slots; with the deadline of the whole     *)
(* exchange, and the administrative commands of Access running beside it.  *)
(* /settle shares the steps up to the static checks, after which the       *)
(* settlement engine (module Engine) takes the request over.               *)
(***************************************************************************)
EXTENDS Access, Sequences, FiniteSetsExt

CONSTANTS
    Requests,       \* connections; each carries one request at a time
    Operations,     \* subset of {"verify", "settle"}
    ClientRate,     \* the client's rate per minute for each operation
    ConfigRate,     \* the configured ceiling for each operation
    Window,         \* one minute, in ticks
    MaxTime,        \* bound on the clock
    Slots,          \* request_limits.verify_concurrency
    FlawSets,       \* the static flaws a request may carry
    NoWindow

ASSUME FrontAssumption ==
    /\ IsFiniteSet(Requests)
    /\ Operations \subseteq {"verify", "settle"}
    /\ \A o \in Operations : ClientRate[o] \in Nat \ {0} /\ ConfigRate[o] \in Nat \ {0}
    /\ Window \in Nat \ {0} /\ MaxTime \in Nat /\ Slots \in Nat \ {0}
    /\ NoWindow \notin [started: Nat, count: Nat]

VARIABLES
    request,        \* the request each connection carries
    windows,        \* RateLimiter.windows, by key and operation
    free,           \* permits left in verify_slots
    now,            \* the clock
    database,       \* the database readiness gate
    admitted        \* history: requests of a key and operation let through up to a tick

front == <<request, windows, free, now, database, admitted>>
vars  == <<clients, keys, payees, admin, request, windows, free, now, database, admitted>>

(***************************************************************************)
(* The checks on a request that need no lookup, in the order they are made *)
(* and with the answers they give.                                         *)
(***************************************************************************)
StaticChecks ==
    <<"unsupported_media_type", "request_too_large", "malformed_request",
      "invalid_x402_version", "unsupported_scheme", "invalid_network",
      "unsupported_asset_transfer_method", "invalid_asset", "amount_below_minimum">>

FirstFlaw(flaws) ==
    StaticChecks[Min({i \in DOMAIN StaticChecks : StaticChecks[i] \in flaws})]

Quiet == [pc |-> "idle", op |-> "verify", key |-> NoKey, dead |-> {},
          flaws |-> {}, answer |-> "none"]

Init ==
    /\ AccessInit
    /\ request = [r \in Requests |-> Quiet]
    /\ windows = [w \in Keys \X Operations |-> NoWindow]
    /\ free = Slots
    /\ now = 0
    /\ database = FALSE
    /\ admitted = [w \in Keys \X Operations |-> [t \in 0..MaxTime |-> 0]]

(* An answered request is forgotten but for its answer.                     *)
Answer(r, what) ==
    request' = [request EXCEPT ![r] = [Quiet EXCEPT !.pc = "answered", !.answer = what]]
Advance(r, pc)  == request' = [request EXCEPT ![r].pc = pc]

(* The keys rotated away, or of a client that was revoked.                  *)
Dead == {k \in Keys : \/ keys[k].status = "revoked"
                      \/ /\ keys[k].client # NoClient
                         /\ clients[keys[k].client].status = "revoked"}

(* extract_presented_key: at most one value of each header, and the same    *)
(* key when both are present; anything else, a malformed key included, is   *)
(* no key at all.                                                           *)
ExtractPresentedKey(apiKey, bearer) ==
    IF \/ Len(apiKey) > 1 \/ Len(bearer) > 1
       \/ apiKey \o bearer = <<>>
       \/ Len(apiKey) = 1 /\ Len(bearer) = 1 /\ apiKey # bearer
    THEN NoKey
    ELSE (apiKey \o bearer)[1]

HeaderValues  == {<<>>} \cup {<<k>> : k \in Keys \cup {NoKey}}
                       \cup {<<k, k>> : k \in Keys}
PresentedKeys == {ExtractPresentedKey(x, b) : x \in HeaderValues, b \in HeaderValues}

(* A request arrives; `dead' remembers the keys no longer good then.        *)
Arrive(r) ==
    /\ request[r].pc \in {"idle", "answered"}
    /\ \E k \in PresentedKeys, o \in Operations, f \in FlawSets :
         request' = [request EXCEPT ![r] =
            [pc |-> "authenticate", op |-> o, key |-> k, flaws |-> f, answer |-> "none",
             dead |-> Dead]]
    /\ UNCHANGED <<access, windows, free, now, database, admitted>>

(* The lookup may fail; the detached touch_api_key it starts only stamps    *)
(* last_used_at, which nothing reads.                                       *)
Authenticate(r) ==
    /\ request[r].pc = "authenticate"
    /\ \/ Answer(r, "authentication_unavailable")
       \/ Authenticates(request[r].key) /\ Advance(r, "rate")
       \/ ~Authenticates(request[r].key) /\ Answer(r, "invalid_api_key")
    /\ UNCHANGED <<access, windows, free, now, database, admitted>>

(***************************************************************************)
(* RateLimiter::check, under the limiter's mutex.                          *)
(***************************************************************************)
Limit(o) == Min({ClientRate[o], ConfigRate[o]})

(* Plausible bug: a window never restarts.                                  *)
CurrentWindow_NoReset(w) ==
    IF windows[w] = NoWindow THEN [started |-> now, count |-> 0] ELSE windows[w]

(* Plausible bug: a window restarts one tick early.                         *)
CurrentWindow_Sliding(w) ==
    IF windows[w] = NoWindow \/ now - windows[w].started >= Window - 1
    THEN [started |-> now, count |-> 0]
    ELSE windows[w]

CurrentWindow(w) ==
    IF windows[w] = NoWindow \/ now - windows[w].started >= Window
    THEN [started |-> now, count |-> 0]
    ELSE windows[w]

AtLimit(current, o) == current.count >= Limit(o)

CheckRate(r) ==
    LET w == <<request[r].key, request[r].op>>
        current == CurrentWindow(w)
    IN
    /\ request[r].pc = "rate"
    /\ \/ /\ AtLimit(current, request[r].op)
          /\ windows' = [windows EXCEPT ![w] = current]
          /\ Answer(r, "rate_limit_exceeded")
          /\ UNCHANGED admitted
       \/ /\ ~AtLimit(current, request[r].op)
          /\ windows' = [windows EXCEPT ![w] = [current EXCEPT !.count = @ + 1]]
          /\ Advance(r, "parse")
          /\ admitted' = [admitted EXCEPT ![w] = [t \in 0..MaxTime |-> IF t < now THEN @[t] ELSE @[t] + 1]]
    /\ UNCHANGED <<access, free, now, database>>

ReadAndParse(r) ==
    /\ request[r].pc = "parse"
    /\ \/ request[r].flaws # {} /\ Answer(r, FirstFlaw(request[r].flaws))
       \/ /\ request[r].flaws = {}
          /\ IF request[r].op = "settle" THEN Answer(r, "settling")
                                         ELSE Advance(r, "policy")
    /\ UNCHANGED <<access, windows, free, now, database, admitted>>

(***************************************************************************)
(* verify_inner after the static checks: the payee policy, then a slot     *)
(* taken without waiting, then the verification, whose end drops the       *)
(* permit.  The request is for the configured asset, in any spelling.      *)
(***************************************************************************)
CheckPolicy(r) ==
    /\ request[r].pc = "policy"
    /\ \/ Answer(r, "database_unavailable") /\ UNCHANGED free
       \/ \E asset, payTo \in Addresses :
            /\ SameAddress(Network, Asset, asset)
            /\ \/ /\ ~PayeeAllowed(keys[request[r].key].client, Network, asset, payTo)
                  /\ Answer(r, "payee_not_allowed") /\ UNCHANGED free
               \/ /\ PayeeAllowed(keys[request[r].key].client, Network, asset, payTo)
                  /\ \/ /\ free = 0 /\ UNCHANGED free
                        /\ Answer(r, "verification_capacity_exhausted")
                     \/ /\ free > 0 /\ free' = free - 1
                        /\ Advance(r, "verify")
    /\ UNCHANGED <<access, windows, now, database, admitted>>

Verify(r) ==
    /\ request[r].pc = "verify"
    /\ \E a \in {"valid", "invalid", "rpc_unavailable", "verification_timeout"} : Answer(r, a)
    /\ free' = free + 1
    /\ UNCHANGED <<access, windows, now, database, admitted>>

Waiting(r) == request[r].pc \notin {"idle", "answered"}

(* Plausible bug: a dropped request keeps its permit.                       *)
Cancel_KeepPermit(r) ==
    /\ Waiting(r)
    /\ Answer(r, "verification_timeout")
    /\ UNCHANGED <<access, windows, free, now, database, admitted>>

(* The outer deadline, or the connection closing, drops the handler's       *)
(* future wherever it waits, and with it the permit it holds.               *)
Cancel(r) ==
    /\ Waiting(r)
    /\ Answer(r, "verification_timeout")
    /\ free' = IF request[r].pc = "verify" THEN free + 1 ELSE free
    /\ UNCHANGED <<access, windows, now, database, admitted>>

(* GET /ready: the database gate follows the last look at the policy.       *)
Ready ==
    /\ \/ database' = ActiveClientsHavePayeePolicy
       \/ database' = FALSE
    /\ UNCHANGED <<access, request, windows, free, now, admitted>>

Tick ==
    /\ now < MaxTime
    /\ now' = now + 1
    /\ UNCHANGED <<access, request, windows, free, database, admitted>>

RequestStep ==
    \E r \in Requests :
        \/ Arrive(r) \/ Authenticate(r) \/ CheckRate(r) \/ ReadAndParse(r)
        \/ CheckPolicy(r) \/ Verify(r) \/ Cancel(r)

Next ==
    \/ AdminStep /\ UNCHANGED front
    \/ RequestStep
    \/ Ready
    \/ Tick

Spec == Init /\ [][Next]_vars

-----------------------------------------------------------------------------
(* A request that arrives after its key was rotated away, or its client     *)
(* revoked, is never let in, however rotations and revocations race         *)
(* (docs/api-keys.md: "Revocation is immediate for new requests").  A       *)
(* rotation that races a revocation does leave an active key behind; only   *)
(* the join with the client's status in lookup_api_key keeps it out.        *)
DeadKeyStaysOut ==
    \A r \in Requests :
        request[r].pc \in {"rate", "parse", "policy", "verify"} =>
            request[r].key \notin request[r].dead

(* A permit of verify_slots is out exactly while a request is being         *)
(* verified: no deadline or dropped connection leaks one, so /verify never  *)
(* loses capacity for good.                                                 *)
SlotsConserved ==
    free + Cardinality({r \in Requests : request[r].pc = "verify"}) = Slots

AdmittedBy(w, t) ==
    IF t < 0 THEN 0 ELSE IF t > MaxTime THEN admitted[w][MaxTime] ELSE admitted[w][t]
AdmittedBetween(w, from, to) == AdmittedBy(w, to) - AdmittedBy(w, from - 1)

(* In no minute, wherever it starts, does the fixed-window limiter let      *)
(* through more than 2 * limit - 1 requests of one key and operation: a     *)
(* window opens with a request, so a minute that meets two windows misses   *)
(* the first request of the earlier one.                                    *)
RateBound ==
    \A w \in Keys \X Operations : \A t \in 0..MaxTime :
        AdmittedBetween(w, t, t + Window - 1) <= 2 * Limit(w[2]) - 1

(* A request is refused for its rate only when the key has already had its  *)
(* full limit of that operation within the last minute.                     *)
RefusedAtLimit ==
    [][\A r \in Requests :
         request[r].pc = "rate" /\ request'[r].answer = "rate_limit_exceeded" =>
            AdmittedBetween(<<request[r].key, request[r].op>>, now - Window + 1, now)
                >= Limit(request[r].op)]_vars

(* When /ready finds the database ready, every active client has a payee    *)
(* that its requests for the configured asset, as the configuration spells  *)
(* it, are allowed to pay: the two queries agree on how addresses compare.  *)
ReadyMeansServable ==
    [][~database /\ database' =>
         \A c \in Clients : IsActive(c) =>
            \E p \in Addresses : PayeeAllowed(c, Network, Asset, p)]_vars

(* docs/api-keys.md: "Rotation atomically revokes every active key for that *)
(* client, inserts the replacement".  A client has one active key.          *)
OneActiveKey == \A c \in Clients : Cardinality(KeysOf(c)) <= 1
=============================================================================
