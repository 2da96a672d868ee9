-------------------------------- MODULE Wire --------------------------------
(***************************************************************************)
(* The HTTP boundary of POST /settle: parse_request with the legacy v1     *)
(* dialect, the request's fingerprint, the idempotent lookup, and the      *)
(* dialect of the answer.  A JSON object is a function of its keys; keys   *)
(* may be absent, and a value of the wrong JSON type is Bad.               *)
(* One request is one step: Engine has the interleavings.                  *)
(***************************************************************************)
EXTENDS Naturals

CONSTANTS
  Clients,
  Bodies,       \* request bodies clients send
  Instances,    \* configurations an operator may write: [kind, network, asset,
                \* minimum, acceptV1, idRequired]
  Aliases,      \* V1_NETWORKS: alias -> CAIP-2
  Family,       \* the namespace of each network identifier
  Value,        \* string of digits -> number
  Identifiers,  \* well-formed payment identifiers
  Nonces32,     \* well-formed 32-byte hex nonces
  Delegates,    \* base64 texts of signed delegates, signature good
  Spelling,     \* text -> the address it spells, for addresses of mixed case
  Domain,       \* name and version of the token's EIP-712 domain
  Bad, Absent

VARIABLES
  config,  \* the instance's configuration
  rows,    \* the journal, by payment hash
  author,  \* the client and request that made each row
  last     \* the request just answered, Absent before the next

wireVars == <<config, rows, author, last>>

-----------------------------------------------------------------------------
(* Fields.                                                                 *)

Has(o, key) == key \in DOMAIN o
Merged(f, g) == [key \in DOMAIN f \cup DOMAIN g |-> IF key \in DOMAIN f THEN f[key] ELSE g[key]]
Get(o, key) == IF Has(o, key) THEN o[key] ELSE Absent
IsObject(o, key) == Has(o, key) /\ o[key] # Bad
EnsureAllowedKeys(o, keys) == DOMAIN o \subseteq keys
RequiredU8(o, key) == Has(o, key) /\ o[key] # Bad /\ o[key] \in 0..255
RequiredString(o, key) == Has(o, key) /\ o[key] # Bad /\ o[key] # ""
RequiredStrings(o, keys) == \A key \in keys : RequiredString(o, key)
RequiredDecimal(o, key) == RequiredString(o, key) /\ o[key] \in DOMAIN Value

IsNear(network) == Family[network] = "near"
IsEip155(network) == Family[network] = "eip155"
Spelled(text) == IF text \in DOMAIN Spelling THEN Spelling[text] ELSE text

\* The objects of a body whose members the parser goes through.
Objects(body) ==
  LET parts == {body[key] : key \in DOMAIN body \cap {"paymentRequirements", "paymentPayload"}} \ {Bad}
      accepted == {part["accepted"] : part \in {o \in parts : Has(o, "accepted")}} \ {Bad}
  IN  {body} \cup parts \cup accepted

\* A JSON object is a function of its keys, and Absent is no JSON value.
ASSUME BodiesAssumption ==
  \A body \in Bodies : \A o \in Objects(body) :
    o = [key \in DOMAIN o |-> o[key]] /\ \A key \in DOMAIN o : o[key] # Absent

-----------------------------------------------------------------------------
(* v1_compat.                                                              *)

IsV1Request(body) == Get(body, "x402Version") = 1

V1RequirementKeys ==
  {"scheme", "network", "maxAmountRequired", "resource", "description", "mimeType",
   "outputSchema", "payTo", "maxTimeoutSeconds", "asset", "extra"}

V1RequirementsOK(r) ==
  /\ EnsureAllowedKeys(r, V1RequirementKeys)
  /\ RequiredStrings(r, {"scheme", "network", "asset", "maxAmountRequired", "payTo"})
  /\ r.network \in DOMAIN Aliases
  /\ Has(r, "maxTimeoutSeconds")

TranslateRequirements(r) ==
  Merged([scheme |-> r.scheme, network |-> Aliases[r.network], asset |-> r.asset,
          amount |-> r.maxAmountRequired, payTo |-> r.payTo, maxTimeoutSeconds |-> r.maxTimeoutSeconds],
         [key \in DOMAIN r \cap {"extra"} |-> r[key]])

V1OK(body) ==
  /\ EnsureAllowedKeys(body, {"x402Version", "paymentPayload", "paymentRequirements"})
  /\ IsObject(body, "paymentRequirements") /\ IsObject(body, "paymentPayload")
  /\ V1RequirementsOK(body.paymentRequirements)
  /\ LET payload == body.paymentPayload
         required == body.paymentRequirements
     IN  /\ EnsureAllowedKeys(payload, {"x402Version", "scheme", "network", "payload"})
         /\ Get(payload, "x402Version") = 1
         /\ RequiredStrings(payload, {"scheme", "network"})
         /\ payload.scheme = required.scheme
         /\ payload.network = required.network
         /\ IsObject(payload, "payload")

\* Plausible bug: the v1 resource goes where v2 carries its resource.
TranslateV1ToV2_Resource(body) ==
  LET terms == TranslateRequirements(body.paymentRequirements)
  IN  [x402Version |-> 2,
       paymentPayload |-> Merged([x402Version |-> 2, accepted |-> terms,
                                  payload |-> body.paymentPayload.payload],
                                 [key \in DOMAIN body.paymentRequirements \cap {"resource"} |->
                                    [url |-> body.paymentRequirements[key]]]),
       paymentRequirements |-> terms]

TranslateV1ToV2(body) ==
  LET terms == TranslateRequirements(body.paymentRequirements)
  IN  [x402Version |-> 2,
       paymentPayload |-> [x402Version |-> 2, accepted |-> terms,
                           payload |-> body.paymentPayload.payload],
       paymentRequirements |-> terms]

\* A network without an alias keeps its name.
V1NetworkName(network) ==
  LET names == {alias \in DOMAIN Aliases : Aliases[alias] = network}
  IN  IF names = {} THEN network ELSE CHOOSE alias \in names : TRUE

-----------------------------------------------------------------------------
(* The v2 walker.                                                          *)

RequirementsShapeOK(r) ==
  /\ EnsureAllowedKeys(r, {"scheme", "network", "asset", "amount", "payTo", "maxTimeoutSeconds", "extra"})
  /\ Has(r, "maxTimeoutSeconds") /\ r.maxTimeoutSeconds # Bad /\ r.maxTimeoutSeconds > 0
  /\ Has(r, "extra") => r.extra # Bad

TermsOK(r) ==
  /\ RequirementsShapeOK(r)
  /\ RequiredStrings(r, {"scheme", "network", "asset", "payTo"})
  /\ RequiredDecimal(r, "amount")

ResourceOK(payload) ==
  Has(payload, "resource") =>
    /\ payload.resource # Bad
    /\ EnsureAllowedKeys(payload.resource, {"url", "description", "mimeType", "serviceName", "tags", "iconUrl"})
    /\ RequiredString(payload.resource, "url")
    /\ \A key \in DOMAIN payload.resource : payload.resource[key] # Bad

Eip155AuthorizationOK(a) ==
  /\ EnsureAllowedKeys(a, {"from", "to", "value", "validAfter", "validBefore", "nonce"})
  /\ RequiredStrings(a, {"from", "to"})
  /\ \A key \in {"value", "validAfter", "validBefore"} : RequiredDecimal(a, key)
  /\ RequiredString(a, "nonce") /\ a.nonce \in Nonces32

MechanismPayloadOK(m, network) ==
  IF IsEip155(network)
  THEN /\ EnsureAllowedKeys(m, {"authorization", "signature"})
       /\ IsObject(m, "authorization") /\ Eip155AuthorizationOK(m.authorization)
       /\ RequiredString(m, "signature")
  ELSE /\ EnsureAllowedKeys(m, {"signedDelegateAction"})
       /\ RequiredString(m, "signedDelegateAction")

\* A NEAR request that names any transfer method is left to the static checks.
Selects(r) == Has(r, "extra") /\ Has(r.extra, "assetTransferMethod")
UnsupportedMethod(accepted, required) == Selects(accepted) \/ Selects(required)
SelectorOK(r) == Selects(r) => r.extra.assetTransferMethod # Bad

RoutedPayloadOK(accepted, required, m) ==
  IF ~IsNear(required.network) THEN MechanismPayloadOK(m, required.network)
  ELSE /\ SelectorOK(accepted) /\ SelectorOK(required)
       /\ UnsupportedMethod(accepted, required) \/ MechanismPayloadOK(m, required.network)

\* The payment-identifier extension; Absent when there is no identifier.
Extension(payload) ==
  IF Has(payload, "extensions") THEN Get(payload.extensions, "payment-identifier") ELSE Absent

IdentifierOK(payload) ==
  LET extension == Extension(payload)
  IN  IF extension = Absent THEN ~config.idRequired
      ELSE /\ extension # Bad
           /\ EnsureAllowedKeys(extension, {"info", "schema"})
           /\ IsObject(extension, "info") /\ IsObject(extension, "schema")
           /\ EnsureAllowedKeys(extension.info, {"required", "id"})
           /\ Get(extension.info, "required") \in {TRUE, FALSE}
           /\ IF Has(extension.info, "id") THEN extension.info.id \in Identifiers ELSE ~config.idRequired

PaymentIdentifier(value) ==
  LET extension == Extension(value.paymentPayload)
  IN  IF extension = Absent THEN Absent ELSE Get(extension.info, "id")

V2OK(value) ==
  /\ EnsureAllowedKeys(value, {"x402Version", "paymentPayload", "paymentRequirements"})
  /\ RequiredU8(value, "x402Version")
  /\ IsObject(value, "paymentPayload") /\ IsObject(value, "paymentRequirements")
  /\ LET payload == value.paymentPayload
     IN  /\ EnsureAllowedKeys(payload, {"x402Version", "resource", "accepted", "payload", "extensions"})
         /\ RequiredU8(payload, "x402Version")
         /\ ResourceOK(payload)
         /\ IsObject(payload, "accepted") /\ IsObject(payload, "payload")
         /\ Has(payload, "extensions") => payload.extensions # Bad
         /\ TermsOK(value.paymentRequirements)
         /\ TermsOK(payload.accepted)
         /\ RoutedPayloadOK(payload.accepted, value.paymentRequirements, payload.payload)
         /\ IdentifierOK(payload)

WireVersion(body) == IF config.acceptV1 /\ IsV1Request(body) THEN "v1" ELSE "v2"

ParseOK(body) ==
  IF WireVersion(body) = "v1" THEN V1OK(body) /\ V2OK(TranslateV1ToV2(body)) ELSE V2OK(body)

ParsedValue(body) == IF WireVersion(body) = "v1" THEN TranslateV1ToV2(body) ELSE body

-----------------------------------------------------------------------------
(* settle_inner, for what the request's text decides.                      *)

ConfiguredAssetMatches(asset) ==
  IF config.kind = "near" THEN asset = config.asset ELSE Spelled(asset) = Spelled(config.asset)

StaticFailure(value) ==
  LET r == value.paymentRequirements
  IN  \/ value.x402Version # 2
      \/ r.scheme # "exact"
      \/ r.network # config.network
      \/ IsNear(r.network) /\ UnsupportedMethod(value.paymentPayload.accepted, r)
      \/ ~ConfiguredAssetMatches(r.asset)
      \/ Value[r.amount] < Value[config.minimum]

\* decode_signed_delegate and its signature check, or offline_payment_hash.
Identifiable(value) ==
  LET accepted == value.paymentPayload.accepted
  IN  IF config.kind = "near" THEN value.paymentPayload.payload.signedDelegateAction \in Delegates
      ELSE /\ Spelled(accepted.asset) = Spelled(config.asset)
           /\ Has(accepted, "extra")
           /\ \A key \in {"name", "version"} : Get(accepted.extra, key) = Domain[key]

\* The signed delegate, or what the payer signed, however it is spelled.
PaymentHash(value) ==
  LET m == value.paymentPayload.payload
  IN  IF config.kind = "near" THEN m.signedDelegateAction
      ELSE [key \in DOMAIN m.authorization |->
              IF key \in {"value", "validAfter", "validBefore"} THEN Value[m.authorization[key]]
              ELSE Spelled(m.authorization[key])]

\* Plausible bug: only the mechanism's payload goes into the fingerprint.
RequestFingerprint_Payload(value) ==
  [request |-> value.paymentPayload.payload, hash |-> PaymentHash(value)]

\* request_fingerprint: the canonical text stands for the value.
RequestFingerprint(value) == [request |-> value, hash |-> PaymentHash(value)]

IdentifierRows(client, id) ==
  {h \in DOMAIN rows : id # Absent /\ rows[h].client = client /\ rows[h].id = id}

FindExisting(client, id, h, fp) ==
  IF IdentifierRows(client, id) # {}
  THEN IF \E k \in IdentifierRows(client, id) : rows[k].fp = fp THEN "existing" ELSE "conflict"
  ELSE IF h \notin DOMAIN rows THEN "none"
  ELSE IF id = Absent /\ rows[h].client = client /\ rows[h].fp = fp THEN "existing"
  ELSE "duplicate"

\* What the lookup says of a parsed request.
Lookup(client, value) ==
  FindExisting(client, PaymentIdentifier(value), PaymentHash(value), RequestFingerprint(value))

\* The row an "existing" lookup returns.
ExistingRow(client, value) ==
  LET id == PaymentIdentifier(value)
  IN  IF id = Absent THEN rows[PaymentHash(value)]
      ELSE rows[CHOOSE k \in IdentifierRows(client, id) : TRUE]

Reply(status, result, network) == [status |-> status, result |-> result, network |-> network]
SettleFailure(reason) == Reply(200, reason, config.network)
Unavailable(code) == Reply(503, code, Absent)

\* Plausible bug: what the journal replays is not translated.
FinalizeWireResponse_NotReplays(reply, wire) ==
  IF wire = "v2" \/ reply.status # 200 \/ reply.result \in {"settled", "failed"} THEN reply
  ELSE [reply EXCEPT !.network = V1NetworkName(@)]

FinalizeWireResponse(reply, wire) ==
  IF wire = "v2" \/ reply.status # 200 THEN reply
  ELSE [reply EXCEPT !.network = V1NetworkName(@)]

Answer(client, body, reply) ==
  last' = [client |-> client, body |-> body,
           reply |-> FinalizeWireResponse(reply, WireVersion(body))]

Serves(body) ==
  /\ ParseOK(body)
  /\ ~StaticFailure(ParsedValue(body))
  /\ Identifiable(ParsedValue(body))

\* A body parse_request refuses.
Malformed(client, body) ==
  /\ last = Absent
  /\ ~ParseOK(body)
  /\ last' = [client |-> client, body |-> body, reply |-> Reply(400, "malformed_request", Absent)]
  /\ UNCHANGED <<config, rows, author>>

\* A body that fails the static checks, or has no payment to identify.
Unsupported(client, body) ==
  /\ last = Absent
  /\ ParseOK(body)
  /\ ~Serves(body)
  /\ Answer(client, body, SettleFailure("unsupported"))
  /\ UNCHANGED <<config, rows, author>>

\* A settlement the journal has: its stored response once terminal.
Prior(client, body) ==
  /\ last = Absent
  /\ Serves(body)
  /\ LET value == ParsedValue(body)
         found == Lookup(client, value)
     IN  /\ found # "none"
         /\ Answer(client, body,
              IF found = "conflict" THEN Reply(409, "payment_identifier_conflict", Absent)
              ELSE IF found = "duplicate" THEN SettleFailure("duplicate_settlement")
              ELSE IF ExistingRow(client, value).response = Absent THEN Unavailable("settlement_pending")
              ELSE ExistingRow(client, value).response)
  /\ UNCHANGED <<config, rows, author>>

\* Readiness, payee policy, verification or the budget turns it away.
TurnedAway(client, body) ==
  /\ last = Absent
  /\ Serves(body)
  /\ Lookup(client, ParsedValue(body)) = "none"
  /\ \E reply \in {SettleFailure("refused"), Unavailable("unavailable")} : Answer(client, body, reply)
  /\ UNCHANGED <<config, rows, author>>

\* Verification holds the accepted terms against the required ones: on NEAR
\* field by field, without maxTimeoutSeconds and extra; on eip155 upstream's
\* verify_eip3009_payment compares all of them.
Verifiable(value) ==
  LET accepted == value.paymentPayload.accepted
      required == value.paymentRequirements
  IN  IF config.kind = "near"
      THEN /\ value.paymentPayload.x402Version = 2
           /\ \A key \in {"scheme", "network", "asset", "payTo", "amount"} : accepted[key] = required[key]
      ELSE accepted = required

Claim(client, body) ==
  /\ last = Absent
  /\ Serves(body)
  /\ LET value == ParsedValue(body)
         h == PaymentHash(value)
     IN  /\ Lookup(client, value) = "none"
         /\ Verifiable(value)
         /\ rows' = Merged(rows, [k \in {h} |-> [client |-> client, id |-> PaymentIdentifier(value),
                                                 fp |-> RequestFingerprint(value), response |-> Absent]])
         /\ author' = Merged(author, [k \in {h} |-> [client |-> client, body |-> body]])
  /\ Answer(client, body, Unavailable("settlement_pending"))
  /\ UNCHANGED config

\* The worker or a reconciliation stores the terminal response, in v2.
Conclude(h) ==
  /\ last = Absent
  /\ rows[h].response = Absent
  /\ \E result \in {"settled", "failed"} : rows' = [rows EXCEPT ![h].response = SettleFailure(result)]
  /\ UNCHANGED <<config, author, last>>

\* The client has its answer; requests are served one at a time.
Delivered ==
  /\ last # Absent
  /\ last' = Absent
  /\ UNCHANGED <<config, rows, author>>

\* validate: v1 only with an eip155 chain.
ValidInstance(instance) == instance.acceptV1 => instance.kind = "eip155"

WireInit ==
  /\ config \in {instance \in Instances : ValidInstance(instance)}
  /\ rows = << >>
  /\ author = << >>
  /\ last = Absent

WireNext ==
  \/ \E client \in Clients, body \in Bodies :
       \/ Malformed(client, body) \/ Unsupported(client, body) \/ Prior(client, body)
       \/ TurnedAway(client, body) \/ Claim(client, body)
  \/ \E h \in DOMAIN rows : Conclude(h)
  \/ Delivered

WireSpec == WireInit /\ [][WireNext]_wireVars

-----------------------------------------------------------------------------
(* What a request asks for, read off the dialect it is written in.         *)

V1Terms(r) == <<r.scheme, Aliases[r.network], r.asset, r.maxAmountRequired, r.payTo,
                r.maxTimeoutSeconds, Get(r, "extra")>>
V2Terms(r) == <<r.scheme, r.network, r.asset, r.amount, r.payTo, r.maxTimeoutSeconds, Get(r, "extra")>>

Meaning(body) ==
  IF WireVersion(body) = "v1"
  THEN LET terms == V1Terms(body.paymentRequirements)
       IN  <<terms, terms, 2, body.paymentPayload.payload, Absent, Absent>>
  ELSE <<V2Terms(body.paymentRequirements), V2Terms(body.paymentPayload.accepted),
         body.paymentPayload.x402Version, body.paymentPayload.payload,
         Get(body.paymentPayload, "resource"), Get(body.paymentPayload, "extensions")>>

\* "the same payment retried in either dialect deduplicates to one settlement":
\* a client that repeats its request, in the same dialect or the other, meets
\* its own settlement and is never told that the payment or the identifier is
\* of another request (translate_v1_to_v2, request_fingerprint,
\* find_existing_settlement).
RetryMeetsItself ==
  last # Absent /\ last.reply.result \in {"duplicate_settlement", "payment_identifier_conflict"} =>
    \A h \in DOMAIN author :
      author[h].client = last.client => Meaning(author[h].body) # Meaning(last.body)

\* The outcome of a settlement is only told to the client that asked for it,
\* in answer to a request that asks for exactly what was settled, whichever
\* field differs (request_fingerprint over the whole request).
OutcomeIsOwn ==
  last # Absent /\ last.reply.result \in {"settled", "failed"} =>
    \E h \in DOMAIN author :
      author[h].client = last.client /\ Meaning(author[h].body) = Meaning(last.body)

\* Every answer that names a network names it in the dialect of its request,
\* "no matter which branch produced it": also when it replays what a request
\* of the other dialect settled (finalize_wire_response).
AnswerSpeaksDialect ==
  last # Absent /\ last.reply.network # Absent =>
    last.reply.network =
      IF WireVersion(last.body) = "v1" THEN V1NetworkName(config.network) ELSE config.network

\* The v1 requests whose values are those a v2 request may have.
WellFormedV1 ==
  {body \in Bodies : /\ WireVersion(body) = "v1"
                     /\ V1OK(body)
                     /\ body.paymentRequirements.maxAmountRequired \in DOMAIN Value
                     /\ body.paymentRequirements.maxTimeoutSeconds \notin {0, Bad}
                     /\ Get(body.paymentRequirements, "extra") # Bad
                     /\ MechanismPayloadOK(body.paymentPayload.payload, config.network)}

\* An instance with accept_v1 set accepts "legacy x402 v1 wire requests on
\* /verify and /settle": a well-formed one is not malformed.
AcceptsV1 ==
  last # Absent /\ last.reply.result = "malformed_request" => last.body \notin WellFormedV1
==============================================================================
