---------------------------- MODULE RequestProofs ----------------------------
(***************************************************************************)
(* Proofs about what becomes of the fields of a request: at the boundary,  *)
(* for every set of bodies, clients, aliases and configurations; and on    *)
(* the way of one eip155 payment through signing, broadcast and recovery,  *)
(* for every set of files, requests, strays, estimates and balances.  The  *)
(* two do not depend on each other.                                        *)
(*                                                                         *)
(* For the boundary the argument is SameRequest: two bodies that are       *)
(* served, of either dialect, are parsed to the same value exactly when    *)
(* they ask for the same, so the fingerprint neither tells apart what a    *)
(* client repeats nor takes for the same what differs.                     *)
(*                                                                         *)
(* For the payment it is SubmissionInv: what is known at each step of the  *)
(* row, the bytes, the broadcast transaction, its cost and the booking.    *)
(***************************************************************************)
EXTENDS Wire, EvmSubmission, TLAPS

-----------------------------------------------------------------------------
(* The boundary: what a request says decides what it is parsed to.         *)

TermsKeys == {"scheme", "network", "asset", "amount", "payTo", "maxTimeoutSeconds"}

\* Parsed terms: a JSON object with all of the keys, and perhaps extra.
TermsShape(r) ==
  /\ r = [key \in DOMAIN r |-> r[key]]
  /\ TermsKeys \subseteq DOMAIN r /\ DOMAIN r \subseteq TermsKeys \cup {"extra"}
  /\ Has(r, "extra") => r.extra # Absent

PayloadKeys == {"x402Version", "accepted", "payload"}

PayloadShape(p) ==
  /\ p = [key \in DOMAIN p |-> p[key]]
  /\ PayloadKeys \subseteq DOMAIN p /\ DOMAIN p \subseteq PayloadKeys \cup {"resource", "extensions"}
  /\ Has(p, "resource") => p.resource # Absent
  /\ Has(p, "extensions") => p.extensions # Absent
  /\ TermsShape(p.accepted)

\* The value of a request that is served.
ValueShape(v) ==
  /\ v = [key \in DOMAIN v |-> v[key]]
  /\ DOMAIN v = {"x402Version", "paymentPayload", "paymentRequirements"}
  /\ v.x402Version = 2
  /\ TermsShape(v.paymentRequirements)
  /\ PayloadShape(v.paymentPayload)

\* What a value says.
ValueMeaning(v) ==
  <<V2Terms(v.paymentRequirements), V2Terms(v.paymentPayload.accepted),
    v.paymentPayload.x402Version, v.paymentPayload.payload,
    Get(v.paymentPayload, "resource"), Get(v.paymentPayload, "extensions")>>

\* Translated terms are terms, and say what the v1 terms say.
LEMMA TranslatedTerms ==
  ASSUME NEW r, Has(r, "extra") => r.extra # Absent
  PROVE  /\ TermsShape(TranslateRequirements(r))
         /\ V2Terms(TranslateRequirements(r)) = V1Terms(r)
<1> DEFINE base == [scheme |-> r.scheme, network |-> Aliases[r.network], asset |-> r.asset,
                    amount |-> r.maxAmountRequired, payTo |-> r.payTo,
                    maxTimeoutSeconds |-> r.maxTimeoutSeconds]
           extra == [key \in DOMAIN r \cap {"extra"} |-> r[key]]
           terms == TranslateRequirements(r)
<1>1. DOMAIN base = TermsKeys /\ DOMAIN extra = DOMAIN r \cap {"extra"} /\ "extra" \notin TermsKeys
  BY Zenon DEF TermsKeys
<1>2. terms = [key \in TermsKeys \cup (DOMAIN r \cap {"extra"}) |-> IF key \in TermsKeys THEN base[key] ELSE extra[key]]
  BY <1>1, Zenon DEF TranslateRequirements, Merged
<1>3. DOMAIN terms = TermsKeys \cup (DOMAIN r \cap {"extra"})
  BY <1>2, Zenon
<1>4. \A key \in TermsKeys : terms[key] = base[key]
  BY <1>2, Zenon
<1>5. Has(r, "extra") => terms["extra"] = r["extra"]
  BY <1>1, <1>2, Zenon DEF Has
<1>6. terms = [key \in DOMAIN terms |-> terms[key]]
  BY <1>2, <1>3, Zenon
<1> HIDE DEF base, extra, terms
<1>7. TermsShape(terms)
  BY <1>1, <1>3, <1>5, <1>6, Zenon DEF TermsShape, Has
<1>8. /\ terms.scheme = r.scheme /\ terms.network = Aliases[r.network] /\ terms.asset = r.asset
      /\ terms.amount = r.maxAmountRequired /\ terms.payTo = r.payTo
      /\ terms.maxTimeoutSeconds = r.maxTimeoutSeconds
  BY <1>4, Zenon DEF TermsKeys, base
<1>9. Get(terms, "extra") = Get(r, "extra")
  BY <1>1, <1>3, <1>5, Zenon DEF Get, Has
<1> QED BY <1>7, <1>8, <1>9, Zenon DEF V2Terms, V1Terms, terms

\* Terms that say the same are the same.
LEMMA TermsSayAll ==
  ASSUME NEW r, NEW s, TermsShape(r), TermsShape(s), V2Terms(r) = V2Terms(s)
  PROVE  r = s
<1>1. /\ r.scheme = s.scheme /\ r.network = s.network /\ r.asset = s.asset /\ r.amount = s.amount
      /\ r.payTo = s.payTo /\ r.maxTimeoutSeconds = s.maxTimeoutSeconds
      /\ Get(r, "extra") = Get(s, "extra")
  BY Zenon DEF V2Terms
<1>2. Has(r, "extra") <=> Has(s, "extra")
  BY <1>1, Zenon DEF TermsShape, Get
<1>3. DOMAIN r = DOMAIN s
  BY <1>2, Zenon DEF TermsShape, Has
<1>4. \A key \in DOMAIN r : r[key] = s[key]
  BY <1>1, <1>2, <1>3, Zenon DEF TermsShape, TermsKeys, Get, Has
<1> QED BY <1>3, <1>4, Zenon DEF TermsShape

LEMMA PayloadSaysAll ==
  ASSUME NEW p, NEW q, PayloadShape(p), PayloadShape(q), p.accepted = q.accepted,
         p.x402Version = q.x402Version, p.payload = q.payload,
         Get(p, "resource") = Get(q, "resource"), Get(p, "extensions") = Get(q, "extensions")
  PROVE  p = q
<1>1. (Has(p, "resource") <=> Has(q, "resource")) /\ (Has(p, "extensions") <=> Has(q, "extensions"))
  BY Zenon DEF PayloadShape, Get
<1>2. DOMAIN p = DOMAIN q
  BY <1>1, Zenon DEF PayloadShape, Has
<1>3. \A key \in DOMAIN p : p[key] = q[key]
  BY <1>1, <1>2, Zenon DEF PayloadShape, PayloadKeys, Get, Has
<1> QED BY <1>2, <1>3, Zenon DEF PayloadShape

\* Values that say the same are the same.
LEMMA ValueSaysAll ==
  ASSUME NEW v, NEW w, ValueShape(v), ValueShape(w), ValueMeaning(v) = ValueMeaning(w)
  PROVE  v = w
<1>1. /\ V2Terms(v.paymentRequirements) = V2Terms(w.paymentRequirements)
      /\ V2Terms(v.paymentPayload.accepted) = V2Terms(w.paymentPayload.accepted)
      /\ v.paymentPayload.x402Version = w.paymentPayload.x402Version
      /\ v.paymentPayload.payload = w.paymentPayload.payload
      /\ Get(v.paymentPayload, "resource") = Get(w.paymentPayload, "resource")
      /\ Get(v.paymentPayload, "extensions") = Get(w.paymentPayload, "extensions")
  BY Zenon DEF ValueMeaning
<1>2. v.paymentRequirements = w.paymentRequirements
  BY <1>1, TermsSayAll, Zenon DEF ValueShape
<1>3. v.paymentPayload.accepted = w.paymentPayload.accepted
  BY <1>1, TermsSayAll, Zenon DEF ValueShape, PayloadShape
<1>4. v.paymentPayload = w.paymentPayload
  BY <1>1, <1>3, PayloadSaysAll, Zenon DEF ValueShape
<1> QED BY <1>2, <1>4, Zenon DEF ValueShape

\* The objects of a body.
LEMMA BodyObjects ==
  ASSUME NEW body \in Bodies, IsObject(body, "paymentRequirements"), IsObject(body, "paymentPayload")
  PROVE  /\ body \in Objects(body)
         /\ body.paymentRequirements \in Objects(body)
         /\ body.paymentPayload \in Objects(body)
         /\ IsObject(body.paymentPayload, "accepted") => body.paymentPayload.accepted \in Objects(body)
BY Zenon DEF Objects, IsObject, Has

\* A served request is parsed to a value of this shape that says what the
\* request says, in either dialect.
LEMMA ServedValue ==
  ASSUME NEW body \in Bodies, Serves(body)
  PROVE  /\ ValueShape(ParsedValue(body))
         /\ Meaning(body) = ValueMeaning(ParsedValue(body))
<1> DEFINE v == ParsedValue(body)
<1>1. V2OK(v) /\ v.x402Version = 2
  BY Zenon DEF Serves, ParseOK, ParsedValue, StaticFailure
<1>2. CASE WireVersion(body) = "v1"
  <2> DEFINE terms == TranslateRequirements(body.paymentRequirements)
             payload == [x402Version |-> 2, accepted |-> terms, payload |-> body.paymentPayload.payload]
  <2>1. IsObject(body, "paymentRequirements") /\ IsObject(body, "paymentPayload")
    BY <1>2, Zenon DEF Serves, ParseOK, V1OK
  <2>2. Has(body.paymentRequirements, "extra") => body.paymentRequirements.extra # Absent
    BY <2>1, BodyObjects, BodiesAssumption, Zenon DEF Has
  <2>3. TermsShape(terms) /\ V2Terms(terms) = V1Terms(body.paymentRequirements)
    BY <2>2, TranslatedTerms, Zenon
  <2> HIDE DEF terms
  <2>4. v = [x402Version |-> 2, paymentPayload |-> payload, paymentRequirements |-> terms]
    BY <1>2, Zenon DEF ParsedValue, TranslateV1ToV2, terms
  <2>5. PayloadShape(payload)
    BY <2>3, Zenon DEF PayloadShape, PayloadKeys, Has
  <2>6. /\ payload.accepted = terms /\ payload.x402Version = 2
        /\ payload.payload = body.paymentPayload.payload
        /\ Get(payload, "resource") = Absent /\ Get(payload, "extensions") = Absent
    BY Zenon DEF Get, Has
  <2> HIDE DEF payload
  <2>7. ValueShape(v)
    BY <2>3, <2>4, <2>5 DEF ValueShape
  <2>8. v.paymentPayload = payload /\ v.paymentRequirements = terms
    BY <2>4
  <2>9. Meaning(body) = <<V2Terms(terms), V2Terms(terms), 2, body.paymentPayload.payload, Absent, Absent>>
    BY <1>2, <2>3, Zenon DEF Meaning
  <2> QED BY <2>6, <2>7, <2>8, <2>9, Zenon DEF ValueMeaning
<1>3. CASE WireVersion(body) # "v1"
  <2>1. v = body
    BY <1>3, Zenon DEF ParsedValue
  <2>2. /\ EnsureAllowedKeys(body, {"x402Version", "paymentPayload", "paymentRequirements"})
        /\ RequiredU8(body, "x402Version")
        /\ IsObject(body, "paymentPayload") /\ IsObject(body, "paymentRequirements")
        /\ EnsureAllowedKeys(body.paymentPayload, {"x402Version", "resource", "accepted", "payload", "extensions"})
        /\ RequiredU8(body.paymentPayload, "x402Version")
        /\ IsObject(body.paymentPayload, "accepted") /\ IsObject(body.paymentPayload, "payload")
        /\ TermsOK(body.paymentRequirements) /\ TermsOK(body.paymentPayload.accepted)
    BY <1>1, <2>1, Zenon DEF V2OK
  <2>3. ASSUME NEW r, r \in Objects(body), TermsOK(r) PROVE TermsShape(r)
    <3>1. r = [key \in DOMAIN r |-> r[key]] /\ (Has(r, "extra") => r.extra # Absent)
      BY <2>3, BodiesAssumption, Zenon DEF Has
    <3>2. TermsKeys \subseteq DOMAIN r /\ DOMAIN r \subseteq TermsKeys \cup {"extra"}
      BY <2>3, Zenon DEF TermsOK, RequirementsShapeOK, EnsureAllowedKeys, RequiredStrings, RequiredDecimal,
                  RequiredString, Has, TermsKeys
    <3> QED BY <3>1, <3>2, Zenon DEF TermsShape
  <2>4. TermsShape(body.paymentRequirements) /\ TermsShape(body.paymentPayload.accepted)
    BY <2>2, <2>3, BodyObjects, Zenon
  <2>5. PayloadShape(body.paymentPayload)
    <3>1. /\ body.paymentPayload = [key \in DOMAIN body.paymentPayload |-> body.paymentPayload[key]]
          /\ Has(body.paymentPayload, "resource") => body.paymentPayload.resource # Absent
          /\ Has(body.paymentPayload, "extensions") => body.paymentPayload.extensions # Absent
      BY <2>2, BodyObjects, BodiesAssumption, Zenon DEF Has
    <3>2. /\ PayloadKeys \subseteq DOMAIN body.paymentPayload
          /\ DOMAIN body.paymentPayload \subseteq PayloadKeys \cup {"resource", "extensions"}
      BY <2>2, Zenon DEF EnsureAllowedKeys, RequiredU8, IsObject, Has, PayloadKeys
    <3> QED BY <2>4, <3>1, <3>2, Zenon DEF PayloadShape
  <2>6. body = [key \in DOMAIN body |-> body[key]]
    BY <2>2, BodyObjects, BodiesAssumption, Zenon
  <2>7. DOMAIN body = {"x402Version", "paymentPayload", "paymentRequirements"}
    BY <2>2, Zenon DEF EnsureAllowedKeys, RequiredU8, IsObject, Has
  <2> QED BY <1>1, <1>3, <2>1, <2>4, <2>5, <2>6, <2>7, Zenon DEF ValueShape, Meaning, ValueMeaning
<1> QED BY <1>2, <1>3, Zenon

\* Requests that ask for the same are parsed to the same value, and no others.
LEMMA SameRequest ==
  ASSUME NEW body \in Bodies, NEW other \in Bodies, Serves(body), Serves(other)
  PROVE  Meaning(body) = Meaning(other) <=> ParsedValue(body) = ParsedValue(other)
BY ServedValue, ValueSaysAll, Zenon

-----------------------------------------------------------------------------
(* The boundary: retries, replays and the dialect of the answers.          *)

\* What the journal identifies a request by.
IdentityOf(body) ==
  [id |-> PaymentIdentifier(ParsedValue(body)), hash |-> PaymentHash(ParsedValue(body)),
   fp |-> RequestFingerprint(ParsedValue(body))]

\* The row h was made by this request.
RowOf(h, body) ==
  /\ author[h].body = body /\ Serves(body)
  /\ DOMAIN rows[h] = {"client", "id", "fp", "response"}
  /\ rows[h].client = author[h].client
  /\ rows[h].id = IdentityOf(body).id /\ rows[h].fp = IdentityOf(body).fp /\ h = IdentityOf(body).hash
  /\ rows[h].response \in {Absent, SettleFailure("settled"), SettleFailure("failed")}

RowsOwned ==
  /\ rows = [h \in DOMAIN rows |-> rows[h]] /\ DOMAIN author = DOMAIN rows
  /\ \A h \in DOMAIN rows : \E body \in Bodies : RowOf(h, body)

IdentifiersOnce ==
  \A h, k \in DOMAIN rows :
    rows[h].id # Absent /\ rows[h].id = rows[k].id /\ rows[h].client = rows[k].client => h = k

\* The network as the dialect of a request names it.
NetworkFor(body) ==
  IF WireVersion(body) = "v1" THEN V1NetworkName(config.network) ELSE config.network

\* The last answer was right for this request.
AnswerFits(body) ==
  /\ last.body = body
  /\ last.reply.result \in {"duplicate_settlement", "payment_identifier_conflict"} =>
       \A h \in DOMAIN author : \A b \in Bodies :
         author[h].client = last.client /\ author[h].body = b => Meaning(b) # Meaning(body)
  /\ last.reply.result \in {"settled", "failed"} =>
       \E h \in DOMAIN author : \E b \in Bodies :
         author[h].client = last.client /\ author[h].body = b /\ Meaning(b) = Meaning(body)
  /\ last.reply.network # Absent => last.reply.network = NetworkFor(body)

BoundaryInv == RowsOwned /\ IdentifiersOnce /\ (last # Absent => \E body \in Bodies : AnswerFits(body))

\* The configuration of an instance stays, and with it how requests are read.
LEMMA ReadingStays ==
  ASSUME config' = config, NEW body
  PROVE  /\ Serves(body)' <=> Serves(body)
         /\ IdentityOf(body)' = IdentityOf(body)
         /\ Meaning(body)' = Meaning(body)
         /\ NetworkFor(body)' = NetworkFor(body)
<1>1. WireVersion(body)' = WireVersion(body)
  BY Zenon DEF WireVersion
<1>2. ParsedValue(body)' = ParsedValue(body)
  BY <1>1, Zenon DEF ParsedValue
<1>3. ASSUME NEW v PROVE V2OK(v)' <=> V2OK(v)
  BY Zenon DEF V2OK, IdentifierOK
<1>4. ParseOK(body)' <=> ParseOK(body)
  BY <1>1, <1>3, Zenon DEF ParseOK
<1>5. ASSUME NEW v PROVE PaymentHash(v)' = PaymentHash(v)
  BY Zenon DEF PaymentHash
<1>6. ASSUME NEW v PROVE (StaticFailure(v)' <=> StaticFailure(v)) /\ (Identifiable(v)' <=> Identifiable(v))
  BY Zenon DEF StaticFailure, ConfiguredAssetMatches, Identifiable
<1>7. PICK v : v = ParsedValue(body)
  BY Zenon
<1>8. Serves(body)' <=> Serves(body)
  BY <1>2, <1>4, <1>6, <1>7, Zenon DEF Serves
<1>9. IdentityOf(body)' = IdentityOf(body)
  BY <1>2, <1>5, <1>7, Zenon DEF IdentityOf, RequestFingerprint
<1>10. Meaning(body)' = Meaning(body) /\ NetworkFor(body)' = NetworkFor(body)
  BY <1>1 DEF Meaning, NetworkFor, V1NetworkName
<1> QED BY <1>8, <1>9, <1>10, Zenon

\* Requests have the same fingerprint when they ask for the same, and then
\* the same identity.
LEMMA SameIdentity ==
  ASSUME NEW body \in Bodies, NEW other \in Bodies, Serves(body), Serves(other)
  PROVE  /\ Meaning(body) = Meaning(other) => IdentityOf(body) = IdentityOf(other)
         /\ IdentityOf(body).fp = IdentityOf(other).fp => Meaning(body) = Meaning(other)
<1>1. ParsedValue(body) = ParsedValue(other) => IdentityOf(body) = IdentityOf(other)
  BY Zenon DEF IdentityOf
<1>2. IdentityOf(body).fp = IdentityOf(other).fp => ParsedValue(body) = ParsedValue(other)
  BY Zenon DEF IdentityOf, RequestFingerprint
<1> QED BY <1>1, <1>2, SameRequest, Zenon

\* What the journal does not change, the invariant keeps.
LEMMA RowsStay ==
  ASSUME RowsOwned, IdentifiersOnce, UNCHANGED <<config, rows, author>>
  PROVE  RowsOwned' /\ IdentifiersOnce'
<1>1. ASSUME NEW h \in DOMAIN rows, NEW body \in Bodies, RowOf(h, body) PROVE RowOf(h, body)'
  BY <1>1, ReadingStays, Zenon DEF RowOf, SettleFailure, Reply
<1> QED BY <1>1, Zenon DEF RowsOwned, IdentifiersOnce

\* What finalize_wire_response makes of a reply.
LEMMA FinalReply ==
  ASSUME NEW status, NEW outcome, NEW network, NEW body, NEW reply,
         status = 200 => network = config.network, status # 200 => network = Absent,
         reply = FinalizeWireResponse(Reply(status, outcome, network), WireVersion(body))
  PROVE  reply.result = outcome /\ (reply.network # Absent => reply.network = NetworkFor(body))
BY Zenon DEF FinalizeWireResponse, Reply, NetworkFor, WireVersion

\* A reply that speaks of no settlement of the journal.
LEMMA OtherReplies ==
  ASSUME BoundaryInv, NEW client, NEW body \in Bodies, NEW status, NEW outcome, NEW network,
         outcome \notin {"duplicate_settlement", "payment_identifier_conflict", "settled", "failed"},
         status = 200 => network = config.network, status # 200 => network = Absent,
         Answer(client, body, Reply(status, outcome, network)), config' = config
  PROVE  AnswerFits(body)'
<1>0. PICK reply : reply = FinalizeWireResponse(Reply(status, outcome, network), WireVersion(body))
  BY Zenon
<1>1. reply.result = outcome /\ (reply.network # Absent => reply.network = NetworkFor(body))
  BY <1>0, FinalReply
<1>2. last' = [client |-> client, body |-> body, reply |-> reply]
  BY <1>0, Zenon DEF Answer
<1>3. last'.body = body /\ last'.reply = reply
  BY <1>2, Zenon
<1>4. NetworkFor(body)' = NetworkFor(body)
  BY ReadingStays, Zenon
<1> QED BY <1>1, <1>3, <1>4, Zenon DEF AnswerFits

\* A lookup that finds the settlement of another request: no row of the
\* client is for a request that asks for the same.
LEMMA ForeignRows ==
  ASSUME BoundaryInv, NEW client, NEW body \in Bodies, Serves(body),
         Lookup(client, ParsedValue(body)) \in {"conflict", "duplicate"},
         NEW h \in DOMAIN author, NEW b \in Bodies, author[h].client = client, author[h].body = b
  PROVE  Meaning(b) # Meaning(body)
<1> SUFFICES ASSUME Meaning(b) = Meaning(body) PROVE FALSE
  BY Zenon
<1> DEFINE me == IdentityOf(body)
<1>1. h \in DOMAIN rows /\ RowOf(h, b)
  BY DEF BoundaryInv, RowsOwned, RowOf
<1>2. IdentityOf(b) = me
  BY <1>1, SameIdentity, Zenon DEF RowOf
<1>3. rows[h].client = client /\ rows[h].id = me.id /\ rows[h].fp = me.fp /\ h = me.hash
  BY <1>1, <1>2, Zenon DEF RowOf
<1>4. FindExisting(client, me.id, me.hash, me.fp) \in {"conflict", "duplicate"}
  BY Zenon DEF Lookup, IdentityOf
<1> HIDE DEF me
<1>5. me.id # Absent => h \in IdentifierRows(client, me.id)
  BY <1>1, <1>3, Zenon DEF IdentifierRows
<1>6. me.id = Absent => IdentifierRows(client, me.id) = {}
  BY Zenon DEF IdentifierRows
<1> QED BY <1>1, <1>3, <1>4, <1>5, <1>6, Zenon DEF FindExisting

\* The row an existing lookup returns is of the client and of a request that
\* asks for the same.
LEMMA OwnRow ==
  ASSUME BoundaryInv, NEW client, NEW body \in Bodies, Serves(body),
         Lookup(client, ParsedValue(body)) = "existing"
  PROVE  \E h \in DOMAIN rows :
           /\ ExistingRow(client, ParsedValue(body)) = rows[h]
           /\ \E b \in Bodies : RowOf(h, b) /\ author[h].client = client /\ Meaning(b) = Meaning(body)
<1> DEFINE me == IdentityOf(body)
<1>1. FindExisting(client, me.id, me.hash, me.fp) = "existing"
  BY Zenon DEF Lookup, IdentityOf
<1>2. ExistingRow(client, ParsedValue(body)) =
        IF me.id = Absent THEN rows[me.hash] ELSE rows[CHOOSE k \in IdentifierRows(client, me.id) : TRUE]
  BY DEF ExistingRow, IdentityOf
<1>3. ASSUME NEW h \in DOMAIN rows, rows[h].client = client, rows[h].fp = me.fp
      PROVE  \E b \in Bodies : RowOf(h, b) /\ author[h].client = client /\ Meaning(b) = Meaning(body)
  <2>1. PICK b \in Bodies : RowOf(h, b)
    BY Zenon DEF BoundaryInv, RowsOwned
  <2>2. Serves(b) /\ IdentityOf(b).fp = me.fp /\ author[h].client = client
    BY <1>3, <2>1, Zenon DEF RowOf
  <2> QED BY <2>1, <2>2, SameIdentity, Zenon
<1> HIDE DEF me
<1>4. CASE me.id = Absent
  <2>1. me.hash \in DOMAIN rows /\ rows[me.hash].client = client /\ rows[me.hash].fp = me.fp
    BY <1>1, <1>4, Zenon DEF FindExisting, IdentifierRows
  <2> QED BY <1>2, <1>3, <1>4, <2>1, Zenon
<1>5. CASE me.id # Absent
  <2>1. PICK k \in IdentifierRows(client, me.id) : rows[k].fp = me.fp
    BY <1>1, <1>5, Zenon DEF FindExisting
  <2>2. \A j \in IdentifierRows(client, me.id) : j = k
    BY <1>5, Zenon DEF IdentifierRows, BoundaryInv, IdentifiersOnce
  <2>3. (CHOOSE j \in IdentifierRows(client, me.id) : TRUE) = k
    BY <2>2, Zenon
  <2>4. k \in DOMAIN rows /\ rows[k].client = client
    BY Zenon DEF IdentifierRows
  <2> QED BY <1>2, <1>3, <1>5, <2>1, <2>3, <2>4, Zenon
<1> QED BY <1>4, <1>5, Zenon

\* The lookup says one of four things.
LEMMA LookupSays ==
  ASSUME NEW client, NEW value
  PROVE  Lookup(client, value) \in {"none", "existing", "conflict", "duplicate"}
BY Zenon DEF Lookup, FindExisting

\* The answer out of the journal is right for the request.
LEMMA PriorFits ==
  ASSUME BoundaryInv, NEW client, NEW body \in Bodies, Prior(client, body)
  PROVE  AnswerFits(body)'
<1> DEFINE found == Lookup(client, ParsedValue(body))
           existing == ExistingRow(client, ParsedValue(body))
<1>1. Serves(body) /\ UNCHANGED <<config, rows, author>> /\ found # "none"
  BY Zenon DEF Prior
<1>2. ASSUME NEW b PROVE Meaning(b)' = Meaning(b) /\ NetworkFor(b)' = NetworkFor(b)
  BY <1>1, ReadingStays, Zenon
<1>3. CASE found \in {"conflict", "duplicate"}
  <2>1. PICK status, outcome, network :
          /\ outcome \in {"duplicate_settlement", "payment_identifier_conflict"}
          /\ status = 200 => network = config.network
          /\ status # 200 => network = Absent
          /\ Answer(client, body, Reply(status, outcome, network))
    <3>1. CASE found = "conflict"
      <4>1. Answer(client, body, Reply(409, "payment_identifier_conflict", Absent))
        BY <3>1, Zenon DEF Prior
      <4> QED BY <4>1
    <3>2. CASE found = "duplicate"
      <4>1. Answer(client, body, Reply(200, "duplicate_settlement", config.network))
        BY <3>2, Zenon DEF Prior, SettleFailure
      <4> QED BY <4>1
    <3> QED BY <1>3, <3>1, <3>2, Zenon
  <2>0. PICK reply : reply = FinalizeWireResponse(Reply(status, outcome, network), WireVersion(body))
    BY Zenon
  <2>2. reply.result = outcome /\ (reply.network # Absent => reply.network = NetworkFor(body))
    BY <2>0, <2>1, FinalReply
  <2>3. last' = [client |-> client, body |-> body, reply |-> reply]
    BY <2>0, <2>1, Zenon DEF Answer
  <2>4. last'.client = client /\ last'.body = body /\ last'.reply = reply
    BY <2>3, Zenon
  <2>5. \A h \in DOMAIN author : \A b \in Bodies :
          author[h].client = client /\ author[h].body = b => Meaning(b) # Meaning(body)
    BY <1>1, <1>3, ForeignRows, Zenon
  <2>6. outcome \notin {"settled", "failed"}
    BY <2>1, Zenon
  <2> QED BY <1>1, <1>2, <2>1, <2>2, <2>4, <2>5, <2>6, Zenon DEF AnswerFits
<1>4. CASE found = "existing"
  <2>1. PICK h \in DOMAIN rows :
          /\ existing = rows[h]
          /\ \E b \in Bodies : RowOf(h, b) /\ author[h].client = client /\ Meaning(b) = Meaning(body)
    BY <1>1, <1>4, OwnRow, Zenon
  <2>2. PICK b \in Bodies : RowOf(h, b) /\ author[h].client = client /\ Meaning(b) = Meaning(body)
    BY <2>1, Zenon
  <2>3. h \in DOMAIN author /\ author[h].body = b
    BY <2>2, Zenon DEF RowOf, BoundaryInv, RowsOwned
  <2>4. existing.response \in {Absent, SettleFailure("settled"), SettleFailure("failed")}
    BY <2>1, <2>2, Zenon DEF RowOf
  <2> HIDE DEF existing
  <2>5. PICK status, outcome, network :
          /\ outcome \in {"settlement_pending", "settled", "failed"}
          /\ status = 200 => network = config.network
          /\ status # 200 => network = Absent
          /\ Answer(client, body, Reply(status, outcome, network))
    <3>1. CASE existing.response = Absent
      <4>1. Answer(client, body, Reply(503, "settlement_pending", Absent))
        BY <1>4, <3>1, Zenon DEF Prior, Unavailable, existing
      <4> QED BY <4>1
    <3>2. CASE existing.response # Absent
      <4>1. PICK reason \in {"settled", "failed"} : existing.response = SettleFailure(reason)
        BY <2>4, <3>2, Zenon
      <4>2. Answer(client, body, Reply(200, reason, config.network))
        BY <1>4, <3>2, <4>1, Zenon DEF Prior, SettleFailure, existing
      <4> QED BY <4>2
    <3> QED BY <3>1, <3>2, Zenon
  <2>0. PICK reply : reply = FinalizeWireResponse(Reply(status, outcome, network), WireVersion(body))
    BY Zenon
  <2>6. reply.result = outcome /\ (reply.network # Absent => reply.network = NetworkFor(body))
    BY <2>0, <2>5, FinalReply
  <2>7. last' = [client |-> client, body |-> body, reply |-> reply]
    BY <2>0, <2>5, Zenon DEF Answer
  <2>8. last'.client = client /\ last'.body = body /\ last'.reply = reply
    BY <2>7, Zenon
  <2>9. outcome \notin {"duplicate_settlement", "payment_identifier_conflict"}
    BY <2>5, Zenon
  <2> QED BY <1>1, <1>2, <2>2, <2>3, <2>6, <2>8, <2>9, Zenon DEF AnswerFits
<1> QED BY <1>1, <1>3, <1>4, LookupSays, Zenon

\* A claim adds one row, of its request, under an identifier of the client
\* that no row has.
LEMMA ClaimRequestKeeps ==
  ASSUME BoundaryInv, NEW client, NEW body \in Bodies, Claim(client, body)
  PROVE  RowsOwned' /\ IdentifiersOnce'
<1> DEFINE me == IdentityOf(body)
           new == [client |-> client, id |-> me.id, fp |-> me.fp, response |-> Absent]
           by == [client |-> client, body |-> body]
<1>1. /\ Serves(body) /\ config' = config
      /\ FindExisting(client, me.id, me.hash, me.fp) = "none"
      /\ rows' = Merged(rows, [k \in {me.hash} |-> new])
      /\ author' = Merged(author, [k \in {me.hash} |-> by])
  BY Zenon DEF Claim, Lookup, IdentityOf
<1>2. me.hash \notin DOMAIN rows /\ IdentifierRows(client, me.id) = {}
  BY <1>1, Zenon DEF FindExisting
<1>3. PICK digest : digest = me.hash
  BY Zenon
<1>4. /\ rows' = [k \in DOMAIN rows \cup {digest} |-> IF k \in DOMAIN rows THEN rows[k] ELSE new]
      /\ author' = [k \in DOMAIN rows \cup {digest} |-> IF k \in DOMAIN rows THEN author[k] ELSE by]
  BY <1>1, <1>3, Zenon DEF Merged, BoundaryInv, RowsOwned
<1>5. /\ DOMAIN rows' = DOMAIN rows \cup {digest} /\ DOMAIN author' = DOMAIN rows'
      /\ rows'[digest] = new /\ author'[digest] = by
      /\ \A k \in DOMAIN rows : rows'[k] = rows[k] /\ author'[k] = author[k]
  BY <1>2, <1>3, <1>4, Zenon
<1>6. rows' = [k \in DOMAIN rows' |-> rows'[k]]
  BY <1>4, <1>5, Zenon
<1>7. /\ DOMAIN new = {"client", "id", "fp", "response"} /\ new.client = client /\ new.id = me.id
      /\ new.fp = me.fp /\ new.response = Absent /\ by.client = client /\ by.body = body
  BY Zenon
<1> HIDE DEF me, new, by
<1>8. ASSUME NEW b PROVE (Serves(b)' <=> Serves(b)) /\ IdentityOf(b)' = IdentityOf(b)
  BY <1>1, ReadingStays, Zenon
<1>9. RowOf(digest, body)'
  BY <1>1, <1>3, <1>5, <1>7, <1>8, Zenon DEF RowOf, me
<1>10. ASSUME NEW h \in DOMAIN rows, NEW b \in Bodies, RowOf(h, b) PROVE RowOf(h, b)'
  <2>1. ASSUME NEW r PROVE SettleFailure(r)' = SettleFailure(r)
    BY <1>1, Zenon DEF SettleFailure, Reply
  <2>2. rows'[h] = rows[h] /\ author'[h] = author[h]
    BY <1>5, <1>10, Zenon
  <2>3. (Serves(b)' <=> Serves(b)) /\ IdentityOf(b)' = IdentityOf(b)
    BY <1>8, Zenon
  <2> QED
    BY <1>10, <2>1, <2>2, <2>3, Zenon DEF RowOf
<1>11. RowsOwned'
  BY <1>5, <1>6, <1>9, <1>10, Zenon DEF RowsOwned, BoundaryInv
<1>12. ASSUME NEW h \in DOMAIN rows, me.id # Absent, rows[h].client = client PROVE rows[h].id # me.id
  BY <1>2, <1>12, Zenon DEF IdentifierRows
<1>13. IdentifiersOnce'
  BY <1>5, <1>7, <1>12 DEF IdentifiersOnce, BoundaryInv
<1> QED BY <1>11, <1>13, Zenon

\* A concluded row is still the row of its request.
LEMMA ConcludeKeeps ==
  ASSUME BoundaryInv, NEW h \in DOMAIN rows, Conclude(h)
  PROVE  RowsOwned' /\ IdentifiersOnce'
<1>1. UNCHANGED <<config, author>>
  BY Zenon DEF Conclude
<1>2. PICK outcome \in {"settled", "failed"} : rows' = [rows EXCEPT ![h].response = SettleFailure(outcome)]
  BY Zenon DEF Conclude
<1>3. PICK body \in Bodies : RowOf(h, body)
  BY Zenon DEF BoundaryInv, RowsOwned
<1>4. /\ rows' = [k \in DOMAIN rows' |-> rows'[k]] /\ DOMAIN rows' = DOMAIN rows
      /\ \A k \in DOMAIN rows : k # h => rows'[k] = rows[k]
      /\ rows'[h] = [rows[h] EXCEPT !.response = SettleFailure(outcome)]
  BY <1>2, Zenon
<1>5. /\ DOMAIN rows'[h] = {"client", "id", "fp", "response"} /\ rows'[h].client = rows[h].client
      /\ rows'[h].id = rows[h].id /\ rows'[h].fp = rows[h].fp
      /\ rows'[h].response = SettleFailure(outcome)
  BY <1>3, <1>4, Zenon DEF RowOf
<1>6. \A reason : SettleFailure(reason)' = SettleFailure(reason)
  BY <1>1, Zenon DEF SettleFailure, Reply
<1>7. ASSUME NEW b PROVE (Serves(b)' <=> Serves(b)) /\ IdentityOf(b)' = IdentityOf(b)
  BY <1>1, ReadingStays, Zenon
<1>8. ASSUME NEW k \in DOMAIN rows, NEW b \in Bodies, RowOf(k, b) PROVE RowOf(k, b)'
  <2>1. CASE k = h
    BY <1>1, <1>2, <1>5, <1>6, <1>7, <1>8, <2>1, Zenon DEF RowOf
  <2>2. CASE k # h
    BY <1>1, <1>4, <1>6, <1>7, <1>8, <2>2, Zenon DEF RowOf
  <2> QED BY <2>1, <2>2, Zenon
<1>9. RowsOwned'
  BY <1>1, <1>4, <1>8, Zenon DEF RowsOwned, BoundaryInv
<1>10. \A k \in DOMAIN rows : rows'[k].id = rows[k].id /\ rows'[k].client = rows[k].client
  BY <1>4, <1>5, Zenon
<1>11. IdentifiersOnce'
  BY <1>4, <1>10, Zenon DEF IdentifiersOnce, BoundaryInv
<1> QED BY <1>9, <1>11, Zenon

LEMMA BoundaryInvInit == WireInit => BoundaryInv
BY DEF WireInit, BoundaryInv, RowsOwned, IdentifiersOnce

LEMMA BoundaryInvStep == BoundaryInv /\ [WireNext]_wireVars => BoundaryInv'
<1> SUFFICES ASSUME BoundaryInv, [WireNext]_wireVars PROVE BoundaryInv'
  BY Zenon
<1>1. ASSUME NEW client \in Clients, NEW body \in Bodies, Malformed(client, body) PROVE BoundaryInv'
  <2>1. UNCHANGED <<config, rows, author>>
    BY <1>1, Zenon DEF Malformed
  <2>2. last'.body = body /\ last'.reply.result = "malformed_request" /\ last'.reply.network = Absent
    BY <1>1, Zenon DEF Malformed, Reply
  <2>3. AnswerFits(body)'
    BY <2>2, Zenon DEF AnswerFits
  <2> QED BY <2>1, <2>3, RowsStay, Zenon DEF BoundaryInv
<1>2. ASSUME NEW client \in Clients, NEW body \in Bodies, Unsupported(client, body) PROVE BoundaryInv'
  <2>1. UNCHANGED <<config, rows, author>> /\ Answer(client, body, Reply(200, "unsupported", config.network))
    BY <1>2, Zenon DEF Unsupported, SettleFailure
  <2>2. AnswerFits(body)'
    BY <2>1, OtherReplies
  <2> QED BY <2>1, <2>2, RowsStay, Zenon DEF BoundaryInv
<1>3. ASSUME NEW client \in Clients, NEW body \in Bodies, Prior(client, body) PROVE BoundaryInv'
  <2>1. UNCHANGED <<config, rows, author>>
    BY <1>3, Zenon DEF Prior
  <2> QED BY <1>3, <2>1, PriorFits, RowsStay, Zenon DEF BoundaryInv
<1>4. ASSUME NEW client \in Clients, NEW body \in Bodies, TurnedAway(client, body) PROVE BoundaryInv'
  <2>1. /\ UNCHANGED <<config, rows, author>>
        /\ \/ Answer(client, body, Reply(200, "refused", config.network))
           \/ Answer(client, body, Reply(503, "unavailable", Absent))
    BY <1>4 DEF TurnedAway, SettleFailure, Unavailable
  <2>2. AnswerFits(body)'
    BY <2>1, OtherReplies
  <2> QED BY <2>1, <2>2, RowsStay, Zenon DEF BoundaryInv
<1>5. ASSUME NEW client \in Clients, NEW body \in Bodies, Claim(client, body) PROVE BoundaryInv'
  <2>1. config' = config /\ Answer(client, body, Reply(503, "settlement_pending", Absent))
    BY <1>5, Zenon DEF Claim, Unavailable
  <2>2. AnswerFits(body)'
    BY <2>1, OtherReplies
  <2> QED BY <1>5, <2>2, ClaimRequestKeeps, Zenon DEF BoundaryInv
<1>6. ASSUME NEW h \in DOMAIN rows, Conclude(h) PROVE BoundaryInv'
  <2>1. last' = Absent
    BY <1>6, Zenon DEF Conclude
  <2> QED BY <1>6, <2>1, ConcludeKeeps, Zenon DEF BoundaryInv
<1>7. CASE Delivered
  BY <1>7, RowsStay, Zenon DEF Delivered, BoundaryInv
<1>8. CASE UNCHANGED wireVars
  <2>1. UNCHANGED <<config, rows, author, last>>
    BY <1>8, Zenon DEF wireVars
  <2>2. ASSUME NEW b PROVE Meaning(b)' = Meaning(b) /\ NetworkFor(b)' = NetworkFor(b)
    BY <2>1, ReadingStays, Zenon
  <2>3. ASSUME NEW body \in Bodies, AnswerFits(body) PROVE AnswerFits(body)'
    BY <2>1, <2>2, <2>3, Zenon DEF AnswerFits
  <2> QED BY <2>1, <2>3, RowsStay, Zenon DEF BoundaryInv
<1> QED BY <1>1, <1>2, <1>3, <1>4, <1>5, <1>6, <1>7, <1>8, Zenon DEF WireNext

LEMMA BoundaryInvAlways == WireSpec => []BoundaryInv
BY BoundaryInvInit, BoundaryInvStep, PTL DEF WireSpec

\* Of every boundary: a client that repeats its request, in the same dialect
\* or the other, is never told that the payment or the identifier belongs to
\* another request, however the two are written (translate_v1_to_v2,
\* request_fingerprint, find_existing_settlement).
THEOREM RetriesMeetThemselves == WireSpec => []RetryMeetsItself
<1>1. BoundaryInv => \A h \in DOMAIN author : author[h].body \in Bodies
  BY Zenon DEF BoundaryInv, RowsOwned, RowOf
<1>2. BoundaryInv => RetryMeetsItself
  BY <1>1, Zenon DEF BoundaryInv, AnswerFits, RetryMeetsItself
<1> QED BY <1>2, BoundaryInvAlways, PTL

\* Of every boundary: a settlement's outcome only goes to the client that
\* asked for it, in answer to a request that asks for exactly what was
\* settled (request_fingerprint covers the whole request).
THEOREM OutcomesAreOwn == WireSpec => []OutcomeIsOwn
<1>1. BoundaryInv => OutcomeIsOwn
  BY Zenon DEF BoundaryInv, AnswerFits, OutcomeIsOwn
<1> QED BY <1>1, BoundaryInvAlways, PTL

\* Of every boundary: an answer that names a network names it in the dialect
\* of its own request, the replay of what the other dialect settled included
\* (finalize_wire_response).
THEOREM AnswersSpeakDialect == WireSpec => []AnswerSpeaksDialect
<1>1. BoundaryInv => AnswerSpeaksDialect
  BY Zenon DEF BoundaryInv, AnswerFits, NetworkFor, AnswerSpeaksDialect
<1> QED BY <1>1, BoundaryInvAlways, PTL

-----------------------------------------------------------------------------
(* One eip155 payment: text and numbers.                                   *)

\* Texts of one address are the same text in lower case.
LEMMA SameAddress ==
  ASSUME NEW s, NEW t, DOMAIN s = {"id", "form"}, DOMAIN t = {"id", "form"}, s.id = t.id
  PROVE  Lower(s) = Lower(t)
BY Zenon DEF Lower

\* A checksummed address is a text.
LEMMA ChecksumIsText ==
  ASSUME NEW id
  PROVE  Checksum(id).id = id /\ DOMAIN Checksum(id) = {"id", "form"}
BY Zenon DEF Checksum

LEMMA LargerKeeps ==
  ASSUME NEW a \in Nat, NEW b \in Nat, NEW c \in Nat, a >= c
  PROVE  Larger(a, b) \in Nat /\ Larger(a, b) >= c
BY DEF Larger

\* A product grows with its factors.
LEMMA Products ==
  ASSUME NEW a \in Nat, NEW b \in Nat, NEW c \in Nat, NEW d \in Nat, a <= c, b <= d
  PROVE  a * b \in Nat /\ a * b <= c * d
<1>1. a * b <= c * b
  OBVIOUS
<1>2. c * b <= c * d
  OBVIOUS
<1>3. a * b \in Nat /\ c * b \in Nat /\ c * d \in Nat
  OBVIOUS
<1> QED  BY <1>1, <1>2, <1>3

\* An authorization is its six fields.
LEMMA AuthIsItsFields ==
  ASSUME NEW r \in Requests
  PROVE  r.auth = [from |-> r.auth.from, to |-> r.auth.to, value |-> r.auth.value, after |-> r.auth.after,
                   before |-> r.auth.before, nonce |-> r.auth.nonce]
BY SubmissionAssumption, Zenon

-----------------------------------------------------------------------------
(* The inductive invariant.                                                *)

RowFields ==
  {"state", "hash", "scope", "anchor", "after", "before", "network", "asset", "payTo", "amount",
   "payer", "signer", "policy", "reserved", "bytes", "txHash", "nonce", "depth"}

ValidFiles == {f \in Files : Validate(f)}

\* What verification establishes of a request that it finds valid.
Consistent(r) ==
  /\ r.required.asset.id = Usdc /\ r.accepted.asset.id = Usdc
  /\ r.auth.to = r.required.payTo.id /\ r.accepted.payTo.id = r.required.payTo.id
  /\ r.auth.value = r.required.amount.n /\ r.accepted.amount.n = r.required.amount.n
  /\ Settleable(r)

\* The columns a row keeps from its claim on.
Claims(w, r) ==
  /\ DOMAIN w = RowFields
  /\ w.hash = TransferHash(r.auth)
  /\ w.scope = [network |-> ChainId, asset |-> Lower(w.asset), payer |-> Lower(w.payer)]
  /\ w.anchor = r.auth.nonce /\ w.after = r.auth.after /\ w.before = r.auth.before
  /\ w.network = ChainId
  /\ w.asset = r.required.asset /\ w.payTo = r.required.payTo /\ w.amount = r.required.amount
  /\ w.payer = Checksum(r.auth.from)
  /\ \E f \in ValidFiles : w.signer = Checksum(f.signer)

\* The columns that a claim and a resumption take from the configuration.
Under(w, f) == w.policy = PolicySnapshot(f) /\ w.reserved = f.reservation

ConfInv == conf \in ValidFiles /\ req \in Requests /\ balance \in Nat

RowInv ==
  row.state # "none" =>
    Consistent(req) /\ Claims(row, req) /\ \E f \in ValidFiles : Under(row, f)

\* Where the process is tells what it knows, and what state the row is in.
StepInv ==
  /\ step \in {"idle", "refused", "identified", "verified", "claimed", "checked", "signed",
               "stored", "sent", "rejected"}
  /\ step \in {"identified", "verified"} => CanRetry
  /\ step = "identified" => hash = TransferHash(req.auth)
  /\ step = "verified" => Consistent(req)
  /\ step \in {"verified", "claimed", "checked", "signed"} => payment = VerifiedPayment(req)
  /\ step \in {"claimed", "checked", "signed"} <=> row.state = "reserved"
  /\ step \in {"stored", "sent"} => row.state = "prepared"
  /\ step \in {"claimed", "checked", "signed", "stored", "sent"} => Under(row, conf)

\* The reservation of a row pays for the gas limit at the fee cap and for the
\* L1 fee that was estimated.
Liable(w) == prepared.l1 \in Nat /\ w.policy.gas * w.policy.cap + prepared.l1 <= w.reserved

\* The bytes the facilitator signs for a row of request r, but for the signer.
OwnBytes(tx, w, r) ==
  /\ tx.encoding = "canonical" /\ tx.type = 2
  /\ tx.chainId = ChainId /\ tx.to = Usdc /\ tx.value = 0 /\ tx.accessList = {}
  /\ tx.gas = w.policy.gas
  /\ tx.max \in Nat \ {0} /\ tx.max <= w.policy.cap
  /\ tx.tip \in Nat /\ tx.tip <= tx.max
  /\ tx.call = SettlementCalldata(VerifiedPayment(r))
  /\ \E f \in ValidFiles : tx.by = f.signer

BytesInv ==
  /\ step = "signed" => Liable(row) /\ OwnBytes(prepared.bytes, row, req)
  /\ Prepared => /\ Liable(row)
                 /\ row.depth \in Nat /\ row.depth >= row.policy.depth
                 /\ row.bytes.max \in Nat
  /\ Prepared /\ ~swapped =>
       OwnBytes(row.bytes, row, req) /\ row.txHash = row.bytes /\ row.nonce = row.bytes.nonce
  /\ swapped => Prepared
  /\ step = "stored" => ~swapped /\ verdict # TRUE /\ wire = None

VerdictInv ==
  verdict = TRUE =>
    Prepared /\ row.signer = Checksum(conf.signer) /\ ValidateStoredSubmission(conf, row)

\* What was broadcast is bounded by the row's policy, and paid for: until it is
\* mined the account holds the reservation on top of the hard stop.
WireInv ==
  wire # None =>
    /\ Prepared
    /\ wire.gas = row.policy.gas
    /\ wire.max \in Nat /\ wire.max <= row.policy.cap
    /\ floor \in Nat
    /\ cost = None => balance >= floor + row.reserved

CostInv ==
  cost # None =>
    /\ wire # None
    /\ cost \in [used: Nat, price: Nat, l1: Nat, fee: Nat]
    /\ cost.fee = cost.used * cost.price + cost.l1
    /\ cost.used <= row.policy.gas /\ cost.price <= row.policy.cap
    /\ cost.l1 <= prepared.l1 => balance >= floor

BookInv == booked # None => cost # None /\ booked = cost.fee

SubmissionInv ==
  ConfInv /\ RowInv /\ StepInv /\ BytesInv /\ VerdictInv /\ WireInv /\ CostInv /\ BookInv

-----------------------------------------------------------------------------
(* Every step keeps it.                                                    *)

\* validate: what a configuration that is accepted guarantees.
LEMMA FileFacts ==
  ASSUME NEW f \in ValidFiles
  PROVE  /\ f.chainId = ChainId /\ f.network = ChainId
         /\ f.asset.id = Usdc /\ DOMAIN f.asset = {"id", "form"}
         /\ f.depth \in Nat \ {0} /\ f.depth <= MaxI32
         /\ f.gas \in Nat \ {0} /\ f.cap \in Nat \ {0}
         /\ f.reservation \in Nat /\ f.hardStop \in Nat
         /\ f.gas * f.cap \in Nat /\ f.gas * f.cap < f.reservation
<1>1. f \in Files /\ ValidateEip155(f)
  BY Zenon DEF ValidFiles, Validate
<1>2. f.depth \in Nat /\ f.gas \in Nat /\ f.cap \in Nat /\ f.reservation \in Nat /\ f.hardStop \in Nat
  BY <1>1, SubmissionAssumption, Zenon
<1>3. f.gas * f.cap \in Nat
  BY <1>2, Products
<1>4. f.depth \in 1..MaxI32 /\ f.gas \in MinGas..MaxGas /\ f.cap \in 1..MaxU128
      /\ f.reservation \in (f.gas * f.cap + 1)..MaxU128
  BY <1>1, Zenon DEF ValidateEip155
<1>5. f.depth # 0 /\ f.depth <= MaxI32 /\ f.gas # 0 /\ f.cap # 0 /\ f.gas * f.cap < f.reservation
  BY <1>2, <1>3, <1>4, SubmissionAssumption
<1>6. f.chainId = ChainId /\ f.network = ChainId /\ f.asset.id = Usdc /\ DOMAIN f.asset = {"id", "form"}
  BY <1>1, SubmissionAssumption, Zenon DEF ValidateEip155
<1> QED  BY <1>2, <1>3, <1>5, <1>6, Zenon

\* The policy columns of a row are those of the file it was admitted under.
LEMMA UnderFacts ==
  ASSUME NEW w, NEW f \in ValidFiles, Under(w, f)
  PROVE  /\ w.policy.network = f.network /\ w.policy.asset = f.asset /\ w.policy.chainId = f.chainId
         /\ w.policy.depth = f.depth /\ w.policy.gas = f.gas /\ w.policy.cap = f.cap
         /\ w.reserved = f.reservation
         /\ w.policy.depth \in Nat /\ w.policy.gas \in Nat \ {0} /\ w.policy.cap \in Nat \ {0}
         /\ w.reserved \in Nat
<1> DEFINE snap == w.policy
<1>1. snap = PolicySnapshot(f) /\ w.reserved = f.reservation
  BY Zenon DEF Under
<1>2. /\ snap.network = f.network /\ snap.asset = f.asset /\ snap.chainId = f.chainId
      /\ snap.depth = f.depth /\ snap.gas = f.gas /\ snap.cap = f.cap
  <2> HIDE DEF snap
  <2> QED  BY <1>1, Zenon DEF PolicySnapshot
<1>3. f.depth \in Nat /\ f.gas \in Nat \ {0} /\ f.cap \in Nat \ {0} /\ f.reservation \in Nat
  BY FileFacts, Zenon
<1> QED  BY <1>1, <1>2, <1>3, Zenon

\* What is below a number below a third one.
LEMMA Below ==
  ASSUME NEW a \in Nat, NEW b \in Nat, NEW c \in Nat, a <= b, b < c
  PROVE  a <= c
OBVIOUS

LEMMA InitHolds == Init => SubmissionInv
<1> SUFFICES ASSUME Init PROVE SubmissionInv
  BY Zenon
<1>1. ConfInv
  BY SubmissionAssumption, Zenon DEF Init, ConfInv, ValidFiles
<1>2. RowInv /\ StepInv /\ BytesInv
  BY Zenon DEF Init, RowInv, StepInv, BytesInv, Prepared
<1>3. VerdictInv
  BY SubmissionAssumption, Zenon DEF Init, VerdictInv
<1>4. WireInv /\ CostInv /\ BookInv
  BY Zenon DEF Init, WireInv, CostInv, BookInv
<1> QED  BY <1>1, <1>2, <1>3, <1>4, Zenon DEF SubmissionInv

\* A step that leaves the row and the accounts alone keeps what is said of them.
LEMMA AccountsKept ==
  ASSUME RowInv, WireInv, CostInv, BookInv,
         UNCHANGED <<req, prepared, row, wire, floor, balance, cost, booked>>
  PROVE  RowInv' /\ WireInv' /\ CostInv' /\ BookInv'
<1>1. RowInv'
  BY Zenon DEF RowInv
<1>2. WireInv' /\ CostInv' /\ BookInv'
  BY Zenon DEF WireInv, CostInv, BookInv, Prepared
<1> QED  BY <1>1, <1>2, Zenon

LEMMA VerdictKept ==
  ASSUME VerdictInv, UNCHANGED <<conf, row, verdict>>
  PROVE  VerdictInv'
BY Zenon DEF VerdictInv, Prepared

LEMMA BytesKept ==
  ASSUME BytesInv, UNCHANGED <<req, prepared, row, swapped>>, step' # "signed", step' # "stored"
  PROVE  BytesInv'
BY Zenon DEF BytesInv, Prepared, Liable

LEMMA PresentKeeps ==
  ASSUME SubmissionInv, Present
  PROVE  SubmissionInv'
<1> USE DEF SubmissionInv
<1>1. ConfInv'
  BY Zenon DEF Present, ConfInv
<1>2. RowInv' /\ WireInv' /\ CostInv' /\ BookInv'
  BY AccountsKept, Zenon DEF Present
<1>3. VerdictInv'
  BY VerdictKept, Zenon DEF Present
<1>4. step' \in {"identified", "refused"} /\ (step' = "identified" => hash' = TransferHash(req.auth))
  BY Zenon DEF Present
<1>5. BytesInv'
  BY <1>4, BytesKept, Zenon DEF Present
<1>6. StepInv'
  BY <1>4, Zenon DEF Present, StepInv, CanRetry
<1> QED  BY <1>1, <1>2, <1>3, <1>5, <1>6, Zenon

\* A request that verification finds valid agrees with itself.
LEMMA ValidIsConsistent ==
  ASSUME ConfInv, NEW answer \in Upstream(req), Verify(req, answer) \notin {"invalid", "ambiguous"}
  PROVE  Consistent(req)
<1>1. answer \notin {"invalid", "ambiguous"} /\ WellFormed(req) /\ Settleable(req)
  BY Zenon DEF Verify
<1>2. /\ req.accepted.asset.id = req.required.asset.id
      /\ req.accepted.payTo.id = req.required.payTo.id
      /\ req.accepted.amount.n = req.required.amount.n
      /\ req.auth.to = req.accepted.payTo.id
      /\ req.auth.value = req.accepted.amount.n
  BY <1>1, Zenon DEF Upstream
<1>3. req.accepted.asset.id = Usdc
  BY <1>1, FileFacts, Zenon DEF WellFormed, ConfInv
<1> QED  BY <1>1, <1>2, <1>3, Zenon DEF Consistent

\* The terms a client repeats and the ones it was given differ in form only.
LEMMA SameTerms ==
  ASSUME NEW r \in Requests, Consistent(r)
  PROVE  /\ Lower(Checksum(r.accepted.asset.id)) = Lower(r.required.asset)
         /\ Lower(Checksum(r.accepted.payTo.id)) = Lower(r.required.payTo)
<1>1. DOMAIN r.required.asset = {"id", "form"} /\ DOMAIN r.required.payTo = {"id", "form"}
  BY SubmissionAssumption, Zenon
<1>2. Checksum(r.accepted.asset.id).id = r.required.asset.id
      /\ Checksum(r.accepted.payTo.id).id = r.required.payTo.id
  BY ChecksumIsText, Zenon DEF Consistent
<1>3. DOMAIN Checksum(r.accepted.asset.id) = {"id", "form"}
      /\ DOMAIN Checksum(r.accepted.payTo.id) = {"id", "form"}
  BY ChecksumIsText, Zenon
<1> QED  BY <1>1, <1>2, <1>3, SameAddress, Zenon

LEMMA HandlerVerifyKeeps ==
  ASSUME SubmissionInv, NEW answer, HandlerVerify(answer)
  PROVE  SubmissionInv'
<1> USE DEF SubmissionInv
<1>1. ConfInv'
  BY Zenon DEF HandlerVerify, ConfInv
<1>2. RowInv' /\ WireInv' /\ CostInv' /\ BookInv'
  BY AccountsKept, Zenon DEF HandlerVerify
<1>3. VerdictInv'
  BY VerdictKept, Zenon DEF HandlerVerify
<1>4. \/ step' \in {"refused", "idle"}
      \/ step' = "verified" /\ payment' = VerifiedPayment(req) /\ Consistent(req)
  <2>1. CASE Verify(req, answer) \in {"invalid", "ambiguous"}
    BY <2>1, Zenon DEF HandlerVerify
  <2>2. CASE Verify(req, answer) \notin {"invalid", "ambiguous"}
    <3>1. payment' = VerifiedPayment(req) /\ step' = IF payment'.hash = hash THEN "verified" ELSE "inconsistent"
      BY <2>2, Zenon DEF HandlerVerify
    <3>2. VerifiedPayment(req).hash = hash
      BY Zenon DEF HandlerVerify, StepInv, VerifiedPayment
    <3>3. Consistent(req)
      BY <2>2, ValidIsConsistent, Zenon DEF HandlerVerify
    <3> QED  BY <3>1, <3>2, <3>3, Zenon
  <2> QED  BY <2>1, <2>2, Zenon
<1>5. BytesInv'
  BY <1>4, BytesKept, Zenon DEF HandlerVerify
<1>6. StepInv'
  BY <1>4, Zenon DEF HandlerVerify, StepInv, CanRetry
<1> QED  BY <1>1, <1>2, <1>3, <1>5, <1>6, Zenon

\* Nothing is signed, broadcast or booked for a row that is not prepared.
LEMMA NothingSentYet ==
  ASSUME SubmissionInv, ~Prepared
  PROVE  /\ ~swapped /\ verdict # TRUE
         /\ wire = None /\ cost = None /\ booked = None
BY Zenon DEF SubmissionInv, BytesInv, VerdictInv, WireInv, CostInv, BookInv

\* Steps on a row that is not prepared before and after.
LEMMA UnpreparedKept ==
  ASSUME SubmissionInv, ~Prepared, ~Prepared', step' # "signed",
         verdict' \in {verdict, None}, UNCHANGED <<swapped, wire, cost, booked>>
  PROVE  BytesInv' /\ VerdictInv' /\ WireInv' /\ CostInv' /\ BookInv'
<1>1. ~swapped' /\ verdict' # TRUE /\ wire' = None /\ cost' = None /\ booked' = None
  BY NothingSentYet, SubmissionAssumption, Zenon
<1> QED  BY <1>1, Zenon DEF BytesInv, VerdictInv, WireInv, CostInv, BookInv

LEMMA ClaimKeeps ==
  ASSUME SubmissionInv, ClaimSettlement
  PROVE  SubmissionInv'
<1> USE DEF SubmissionInv
<1>1. ConfInv'
  BY Zenon DEF ClaimSettlement, ConfInv
<1>2. Consistent(req) /\ payment = VerifiedPayment(req) /\ conf \in ValidFiles /\ req \in Requests
  BY Zenon DEF ClaimSettlement, StepInv, ConfInv
<1>3. /\ row'.state = "reserved" /\ DOMAIN row' = RowFields
      /\ row'.hash = Identity(payment).hash /\ row'.scope = Identity(payment).scope
      /\ row'.anchor = Identity(payment).anchor
      /\ row'.after = Identity(payment).after /\ row'.before = Identity(payment).before
      /\ row'.network = conf.network
      /\ row'.asset = req.required.asset /\ row'.payTo = req.required.payTo
      /\ row'.amount = req.required.amount
      /\ row'.payer = payment.payer
      /\ row'.signer = Checksum(conf.signer)
      /\ row'.policy = PolicySnapshot(conf) /\ row'.reserved = conf.reservation
  BY Zenon DEF ClaimSettlement, RowFields
<1>4. Lower(Checksum(req.accepted.asset.id)) = Lower(req.required.asset)
  BY <1>2, SameTerms, Zenon
<1>5. Claims(row', req)
  <2>1. row'.scope = [network |-> ChainId, asset |-> Lower(row'.asset), payer |-> Lower(row'.payer)]
    BY <1>2, <1>3, <1>4 DEF Identity, VerifiedPayment
  <2>2. /\ row'.hash = TransferHash(req.auth)
        /\ row'.anchor = req.auth.nonce /\ row'.after = req.auth.after /\ row'.before = req.auth.before
        /\ row'.payer = Checksum(req.auth.from)
    BY <1>2, <1>3, Zenon DEF Identity, VerifiedPayment
  <2>3. row'.network = ChainId
    BY <1>2, <1>3, FileFacts, Zenon
  <2> QED  BY <1>2, <1>3, <2>1, <2>2, <2>3, Zenon DEF Claims
<1>6. Under(row', conf)
  BY <1>3, Zenon DEF Under
<1>7. RowInv'
  BY <1>2, <1>5, <1>6, Zenon DEF RowInv, ClaimSettlement
<1>8. StepInv'
  BY <1>2, <1>3, <1>6, Zenon DEF StepInv, ClaimSettlement
<1>9. BytesInv' /\ VerdictInv' /\ WireInv' /\ CostInv' /\ BookInv'
  BY <1>3, UnpreparedKept, Zenon DEF ClaimSettlement, Prepared
<1> QED  BY <1>1, <1>7, <1>8, <1>9, Zenon

\* A change of state, policy, reservation, submission columns or depth leaves
\* what the claim wrote.
LEMMA ClaimsKept ==
  ASSUME NEW w, NEW v, NEW r, Claims(w, r), DOMAIN v = RowFields,
         \A x \in RowFields \ {"state", "policy", "reserved", "bytes", "txHash", "nonce", "depth"} :
           v[x] = w[x]
  PROVE  Claims(v, r)
<1>1. /\ v.hash = w.hash /\ v.scope = w.scope /\ v.anchor = w.anchor /\ v.after = w.after
      /\ v.before = w.before /\ v.network = w.network /\ v.asset = w.asset /\ v.payTo = w.payTo
      /\ v.amount = w.amount /\ v.payer = w.payer /\ v.signer = w.signer
  BY Zenon DEF RowFields
<1> QED  BY <1>1, Zenon DEF Claims

LEMMA StateChange ==
  ASSUME NEW w, NEW v, NEW r, NEW s, Claims(w, r), v = [w EXCEPT !.state = s]
  PROVE  /\ v.state = s /\ Claims(v, r)
         /\ v.policy = w.policy /\ v.reserved = w.reserved
<1>1. DOMAIN w = RowFields
  BY Zenon DEF Claims
<1>2. DOMAIN v = RowFields /\ \A x \in RowFields \ {"state"} : v[x] = w[x]
  BY <1>1, Zenon
<1>3. v.state = s /\ v.policy = w.policy /\ v.reserved = w.reserved
  BY <1>1, Zenon DEF RowFields
<1>4. Claims(v, r)
  BY <1>2, ClaimsKept, Zenon
<1> QED  BY <1>3, <1>4, Zenon

LEMMA ResumeKeeps ==
  ASSUME SubmissionInv, ResumeAwaitingRetry
  PROVE  SubmissionInv'
<1> USE DEF SubmissionInv
<1>1. ConfInv'
  BY Zenon DEF ResumeAwaitingRetry, ConfInv
<1>2. /\ Consistent(req) /\ Claims(row, req) /\ payment = VerifiedPayment(req)
      /\ conf \in ValidFiles /\ ~Prepared
  BY Zenon DEF ResumeAwaitingRetry, StepInv, ConfInv, RowInv, CanRetry, Prepared
<1>3. DOMAIN row = RowFields
  BY <1>2, Zenon DEF Claims
<1>4. row' = [row EXCEPT !.state = "reserved", !.policy = PolicySnapshot(conf),
                         !.reserved = conf.reservation]
  BY Zenon DEF ResumeAwaitingRetry
<1>5. DOMAIN row' = RowFields /\ \A x \in RowFields \ {"state", "policy", "reserved"} : row'[x] = row[x]
  BY <1>3, <1>4, Zenon
<1>6. row'.state = "reserved" /\ row'.policy = PolicySnapshot(conf) /\ row'.reserved = conf.reservation
  BY <1>3, <1>4, Zenon DEF RowFields
<1>7. Claims(row', req)
  BY <1>2, <1>5, ClaimsKept, Zenon
<1>8. Under(row', conf)
  BY <1>6, Zenon DEF Under
<1>9. RowInv'
  BY <1>2, <1>7, <1>8, Zenon DEF RowInv, ResumeAwaitingRetry
<1>10. StepInv'
  BY <1>2, <1>6, <1>8, Zenon DEF StepInv, ResumeAwaitingRetry
<1>11. BytesInv' /\ VerdictInv' /\ WireInv' /\ CostInv' /\ BookInv'
  BY <1>2, <1>6, UnpreparedKept, Zenon DEF ResumeAwaitingRetry, Prepared
<1> QED  BY <1>1, <1>9, <1>10, <1>11, Zenon

\* Giving a reserved row up, for good or for another try.
LEMMA GivingUpKeeps ==
  ASSUME SubmissionInv, row.state = "reserved",
         NEW s \in {"awaiting_retry", "failed"}, row' = [row EXCEPT !.state = s],
         step' \in {"idle", "rejected"},
         verdict' \in {verdict, None}, conf' \in ValidFiles,
         UNCHANGED <<req, swapped, wire, balance, cost, booked>>
  PROVE  SubmissionInv'
<1> USE DEF SubmissionInv
<1>1. ConfInv'
  BY Zenon DEF ConfInv
<1>2. Consistent(req) /\ Claims(row, req)
  BY Zenon DEF RowInv
<1>3. /\ row'.state = s /\ Claims(row', req)
      /\ row'.policy = row.policy /\ row'.reserved = row.reserved
  BY <1>2, StateChange
<1>4. RowInv'
  <2>1. PICK f \in ValidFiles : Under(row, f)
    BY Zenon DEF RowInv
  <2>2. Under(row', f)
    BY <1>3, <2>1, Zenon DEF Under
  <2> QED  BY <1>2, <1>3, <2>2, Zenon DEF RowInv
<1>5. StepInv'
  BY <1>3, Zenon DEF StepInv
<1>6. BytesInv' /\ VerdictInv' /\ WireInv' /\ CostInv' /\ BookInv'
  BY <1>3, UnpreparedKept, Zenon DEF Prepared
<1> QED  BY <1>1, <1>4, <1>5, <1>6, Zenon

\* The worker's second verification finds the payment that was claimed.
LEMMA SamePaymentHolds ==
  ASSUME SubmissionInv, row.state = "reserved"
  PROVE  SamePayment(VerifiedPayment(req))
<1> DEFINE p == VerifiedPayment(req)
<1>1. Consistent(req) /\ Claims(row, req) /\ req \in Requests
  BY Zenon DEF SubmissionInv, RowInv, ConfInv
<1>2. /\ Lower(Checksum(req.accepted.asset.id)) = Lower(req.required.asset)
      /\ Lower(Checksum(req.accepted.payTo.id)) = Lower(req.required.payTo)
  BY <1>1, SameTerms, Zenon
<1>3. /\ p.hash = TransferHash(req.auth) /\ p.payer = Checksum(req.auth.from)
      /\ p.asset = Checksum(req.accepted.asset.id) /\ p.payTo = Checksum(req.accepted.payTo.id)
      /\ p.amount.n = req.accepted.amount.n /\ p.auth = req.auth
  BY Zenon DEF VerifiedPayment, Decimal
<1>4. /\ Identity(p).hash = p.hash /\ Identity(p).anchor = p.auth.nonce
      /\ Identity(p).scope = [network |-> ChainId, asset |-> Lower(p.asset), payer |-> Lower(p.payer)]
  BY Zenon DEF Identity
<1> HIDE DEF p
<1>5. EqIgnoreCase(row.asset, p.asset) /\ EqIgnoreCase(row.payTo, p.payTo)
  BY <1>1, <1>2, <1>3, Zenon DEF EqIgnoreCase, Claims
<1>6. DecimalIsAtLeast(row.amount, p.amount) /\ DecimalIsAtLeast(p.amount, row.amount)
  <2>1. row.amount.n = p.amount.n
    BY <1>1, <1>3, Zenon DEF Claims, Consistent
  <2>2. p.amount.n \in Nat
    BY <1>1, <1>3, SubmissionAssumption, Zenon
  <2> QED  BY <2>1, <2>2 DEF DecimalIsAtLeast
<1>7. Identity(p).scope = row.scope
  BY <1>1, <1>2, <1>3, <1>4, Zenon DEF Claims
<1>8. /\ row.hash = Identity(p).hash /\ row.anchor = Identity(p).anchor
      /\ row.payer = p.payer /\ row.network = ChainId
  BY <1>1, <1>3, <1>4, Zenon DEF Claims
<1>9. SamePayment(p)
  BY <1>5, <1>6, <1>7, <1>8, Zenon DEF SamePayment
<1> QED  BY <1>9, Zenon DEF p

LEMMA WorkerVerifyKeeps ==
  ASSUME SubmissionInv, NEW answer, WorkerVerify(answer)
  PROVE  SubmissionInv'
<1>1. row.state = "reserved" /\ conf' \in ValidFiles
  BY Zenon DEF SubmissionInv, StepInv, ConfInv, WorkerVerify
<1>2. SamePayment(VerifiedPayment(req))
  BY <1>1, SamePaymentHolds, Zenon
<1>3. CASE Release
  BY <1>1, <1>3, GivingUpKeeps, Zenon DEF Release, WorkerVerify
<1>4. CASE Terminate("rejected")
  BY <1>1, <1>4, GivingUpKeeps, Zenon DEF Terminate, WorkerVerify
<1>5. CASE step' = "checked" /\ row' = row
  <2> USE DEF SubmissionInv
  <2>1. ConfInv'
    BY Zenon DEF WorkerVerify, ConfInv
  <2>2. RowInv' /\ WireInv' /\ CostInv' /\ BookInv'
    BY <1>5, AccountsKept, Zenon DEF WorkerVerify
  <2>3. VerdictInv'
    BY <1>5, VerdictKept, Zenon DEF WorkerVerify
  <2>4. BytesInv'
    BY <1>5, BytesKept, Zenon DEF WorkerVerify
  <2>5. StepInv'
    BY <1>1, <1>5, Zenon DEF WorkerVerify, StepInv, Under
  <2> QED  BY <2>1, <2>2, <2>3, <2>4, <2>5, Zenon
<1> QED
  BY <1>2, <1>3, <1>4, <1>5, Zenon DEF WorkerVerify

\* bounded_fee_envelope: the larger of two sane estimates is one, and within the cap.
LEMMA EnvelopeFacts ==
  ASSUME NEW p \in FeeAnswers, NEW b \in FeeAnswers, BoundedFeeEnvelope(p, b) # None
  PROVE  /\ BoundedFeeEnvelope(p, b).gas = conf.gas
         /\ BoundedFeeEnvelope(p, b).max \in Nat \ {0} /\ BoundedFeeEnvelope(p, b).max <= conf.cap
         /\ BoundedFeeEnvelope(p, b).tip \in Nat
         /\ BoundedFeeEnvelope(p, b).tip <= BoundedFeeEnvelope(p, b).max
<1>1. p.max \in Nat /\ p.tip \in Nat /\ b.max \in Nat /\ b.tip \in Nat
  BY SubmissionAssumption, Zenon
<1>2. /\ SaneEstimate(p) /\ SaneEstimate(b) /\ Larger(p.max, b.max) <= conf.cap
      /\ BoundedFeeEnvelope(p, b) = [gas |-> conf.gas, max |-> Larger(p.max, b.max), tip |-> Larger(p.tip, b.tip)]
  BY Zenon DEF BoundedFeeEnvelope
<1> QED  BY <1>1, <1>2 DEF Larger, SaneEstimate

LEMMA PrepareKeeps ==
  ASSUME SubmissionInv, NEW nonce, NEW p \in FeeAnswers, NEW b \in FeeAnswers,
         NEW l1p \in L1Fees \cup {None}, NEW l1b \in L1Fees \cup {None},
         WorkerPrepare(nonce, p, b, l1p, l1b)
  PROVE  SubmissionInv'
<1> DEFINE fees == BoundedFeeEnvelope(p, b)
           l1 == IF None \in {l1p, l1b} THEN None ELSE Larger(l1p, l1b)
           bytes == SignSettlementTransaction(nonce, fees, SettlementCalldata(payment))
<1>1. row.state = "reserved" /\ conf \in ValidFiles /\ Under(row, conf) /\ payment = VerifiedPayment(req)
  BY Zenon DEF SubmissionInv, StepInv, ConfInv, WorkerPrepare
<1>2. CASE Release
  BY <1>1, <1>2, GivingUpKeeps, Zenon DEF Release, WorkerPrepare
<1>3. CASE /\ fees # None /\ l1 # None /\ ReservationCoversLiability(l1)
           /\ prepared' = [bytes |-> bytes, l1 |-> l1]
           /\ step' = "signed" /\ row' = row
  <2>1. l1 \in Nat
    BY <1>3, SubmissionAssumption, Zenon DEF Larger
  <2>2. prepared'.bytes = bytes /\ prepared'.l1 = l1
    BY <1>3, Zenon
  <2>3. /\ fees.gas = conf.gas /\ fees.max \in Nat \ {0} /\ fees.max <= conf.cap
        /\ fees.tip \in Nat /\ fees.tip <= fees.max
    BY <1>3, EnvelopeFacts, Zenon
  <2>4. conf.gas * conf.cap + l1 <= conf.reservation
    <3>1. conf.reservation >= conf.gas * conf.cap + l1
      BY <1>3, Zenon DEF ReservationCoversLiability
    <3>2. conf.reservation \in Nat /\ conf.gas * conf.cap \in Nat
      BY <1>1, FileFacts, Zenon
    <3> HIDE DEF l1
    <3> QED  BY <2>1, <3>1, <3>2, Zenon
  <2>5. row.policy.gas = conf.gas /\ row.policy.cap = conf.cap /\ row.reserved = conf.reservation
    BY <1>1, UnderFacts, Zenon
  <2>6. Liable(row)'
    <3> HIDE DEF l1
    <3> QED  BY <1>3, <2>1, <2>2, <2>4, <2>5, Zenon DEF Liable
  <2>7. OwnBytes(bytes, row, req)
    <3>1. conf.chainId = ChainId /\ conf.asset.id = Usdc
      BY <1>1, FileFacts, Zenon
    <3> HIDE DEF fees
    <3> QED  BY <1>1, <2>3, <2>5, <3>1, Zenon DEF OwnBytes, SignSettlementTransaction
  <2> HIDE DEF bytes, l1, fees
  <2>8. ~Prepared /\ ~Prepared' /\ UNCHANGED <<conf, req, payment, row, swapped, verdict, wire, floor, balance, cost, booked>>
    BY <1>1, <1>3, Zenon DEF Prepared, WorkerPrepare
  <2>9. ConfInv' /\ RowInv'
    BY <2>8, Zenon DEF SubmissionInv, ConfInv, RowInv
  <2>10. StepInv'
    BY <1>1, <1>3, <2>8, Zenon DEF SubmissionInv, StepInv, Under
  <2>11. ~swapped' /\ verdict' # TRUE /\ wire' = None /\ cost' = None /\ booked' = None
    BY <2>8, NothingSentYet, Zenon
  <2>12. OwnBytes(prepared'.bytes, row', req')
    BY <2>2, <2>7, <2>8, Zenon
  <2>13. BytesInv'
    BY <2>6, <2>8, <2>11, <2>12, Zenon DEF BytesInv
  <2>14. VerdictInv' /\ WireInv' /\ CostInv' /\ BookInv'
    BY <2>11, Zenon DEF VerdictInv, WireInv, CostInv, BookInv
  <2> QED  BY <2>9, <2>10, <2>13, <2>14, Zenon DEF SubmissionInv
<1> QED  BY <1>2, <1>3, Zenon DEF WorkerPrepare

LEMMA MarkKeeps ==
  ASSUME SubmissionInv, MarkPreparedEvm
  PROVE  SubmissionInv'
<1> USE DEF SubmissionInv
<1>1. /\ row.state = "reserved" /\ conf \in ValidFiles /\ Under(row, conf)
      /\ Liable(row) /\ OwnBytes(prepared.bytes, row, req)
  BY Zenon DEF StepInv, ConfInv, BytesInv, MarkPreparedEvm
<1>2. Consistent(req) /\ Claims(row, req)
  BY <1>1, Zenon DEF RowInv
<1>3. DOMAIN row = RowFields
  BY <1>2, Zenon DEF Claims
<1>4. conf.depth \in Nat /\ conf.depth <= MaxI32
  BY <1>1, FileFacts, Zenon
<1>5. /\ row' = [row EXCEPT !.state = "prepared", !.bytes = prepared.bytes, !.txHash = prepared.bytes,
                            !.nonce = prepared.bytes.nonce, !.depth = conf.depth]
      /\ step' = "stored"
      /\ UNCHANGED <<conf, req, prepared, swapped, verdict, wire, floor, balance, cost, booked>>
  BY <1>4, Zenon DEF MarkPreparedEvm
<1>6. /\ DOMAIN row' = RowFields
      /\ \A x \in RowFields \ {"state", "bytes", "txHash", "nonce", "depth"} : row'[x] = row[x]
  BY <1>3, <1>5, Zenon
<1>7. /\ row'.state = "prepared" /\ row'.bytes = prepared.bytes /\ row'.txHash = prepared.bytes
      /\ row'.nonce = prepared.bytes.nonce /\ row'.depth = conf.depth
      /\ row'.policy = row.policy /\ row'.reserved = row.reserved
  BY <1>3, <1>5, Zenon DEF RowFields
<1>8. Claims(row', req)
  BY <1>2, <1>6, ClaimsKept, Zenon
<1>9. Under(row', conf)
  BY <1>1, <1>7, Zenon DEF Under
<1>10. ~swapped' /\ verdict' # TRUE /\ wire' = None /\ cost' = None /\ booked' = None
  BY <1>1, <1>5, NothingSentYet, Zenon DEF Prepared
<1>11. ConfInv' /\ RowInv'
  BY <1>1, <1>2, <1>5, <1>8, <1>9, Zenon DEF ConfInv, RowInv
<1>12. StepInv'
  BY <1>5, <1>7, <1>9, Zenon DEF StepInv
<1>13. BytesInv'
  <2>1. Liable(row)'
    BY <1>1, <1>5, <1>7, Zenon DEF Liable
  <2>2. OwnBytes(row'.bytes, row', req')
    BY <1>1, <1>5, <1>7 DEF OwnBytes
  <2>3. row'.depth \in Nat /\ row'.depth >= row'.policy.depth
    BY <1>1, <1>4, <1>7 DEF Under, PolicySnapshot
  <2>4. row'.bytes.max \in Nat
    BY <2>2, Zenon DEF OwnBytes
  <2> QED  BY <1>5, <1>7, <1>10, <2>1, <2>2, <2>3, <2>4, Zenon DEF BytesInv, Prepared
<1>14. VerdictInv' /\ WireInv' /\ CostInv' /\ BookInv'
  BY <1>10, Zenon DEF VerdictInv, WireInv, CostInv, BookInv
<1> QED  BY <1>11, <1>12, <1>13, <1>14, Zenon

\* signer_is_funded: the account holds the reservation on top of the hard stop.
LEMMA FundedFacts ==
  ASSUME conf \in ValidFiles, balance \in Nat, SignerIsFunded(balance)
  PROVE  balance >= conf.hardStop + conf.reservation
BY Zenon DEF SignerIsFunded

LEMMA SendKeeps ==
  ASSUME SubmissionInv, WorkerSend
  PROVE  SubmissionInv'
<1> USE DEF SubmissionInv
<1>1. /\ Prepared /\ ~swapped /\ verdict # TRUE /\ wire = None /\ conf \in ValidFiles
      /\ Under(row, conf) /\ OwnBytes(row.bytes, row, req)
  BY Zenon DEF StepInv, ConfInv, BytesInv, WorkerSend, Prepared
<1>2. /\ wire' = row.bytes /\ floor' = conf.hardStop /\ step' = "sent"
      /\ UNCHANGED <<conf, req, prepared, row, swapped, verdict, balance, cost, booked>>
  BY Zenon DEF WorkerSend
<1>3. cost = None
  BY <1>1, Zenon DEF CostInv
<1>4. ConfInv' /\ RowInv' /\ VerdictInv' /\ BookInv'
  BY <1>1, <1>2, Zenon DEF ConfInv, RowInv, VerdictInv, BookInv
<1>5. StepInv'
  BY <1>1, <1>2, Zenon DEF StepInv, Prepared, Under, WorkerSend
<1>6. BytesInv'
  BY <1>2, BytesKept, Zenon
<1>7. WireInv'
  <2>1. row.reserved = conf.reservation
    BY <1>1, Zenon DEF Under
  <2>2. balance >= conf.hardStop + conf.reservation /\ conf.hardStop \in Nat
    BY <1>1, FundedFacts, FileFacts, Zenon DEF ConfInv, WorkerSend
  <2>3. row.bytes.gas = row.policy.gas /\ row.bytes.max \in Nat /\ row.bytes.max <= row.policy.cap
    BY <1>1, Zenon DEF OwnBytes
  <2> QED  BY <1>1, <1>2, <2>1, <2>2, <2>3, Zenon DEF WireInv, Prepared
<1>8. CostInv'
  BY <1>2, <1>3, Zenon DEF CostInv
<1> QED  BY <1>4, <1>5, <1>6, <1>7, <1>8, Zenon

LEMMA RestartKeeps ==
  ASSUME SubmissionInv, NEW f \in Files, Restart(f)
  PROVE  SubmissionInv'
<1>1. /\ conf' \in ValidFiles /\ step' = "idle" /\ verdict' = None
      /\ UNCHANGED <<req, prepared, swapped, wire, floor, balance, cost, booked>>
  BY Zenon DEF Restart, ValidFiles
<1>2. CASE row.state = "reserved"
  BY <1>1, <1>2, GivingUpKeeps, Zenon DEF Restart
<1>3. CASE row.state # "reserved"
  <2> USE DEF SubmissionInv
  <2>1. row' = row
    BY <1>3, Zenon DEF Restart
  <2>2. ConfInv'
    BY <1>1, Zenon DEF ConfInv
  <2>3. RowInv' /\ WireInv' /\ CostInv' /\ BookInv'
    BY <1>1, <2>1, AccountsKept, Zenon
  <2>4. BytesInv'
    BY <1>1, <2>1, BytesKept, Zenon
  <2>5. VerdictInv'
    BY <1>1, SubmissionAssumption, Zenon DEF VerdictInv
  <2>6. StepInv'
    BY <1>1, <1>3, <2>1, Zenon DEF StepInv
  <2> QED  BY <2>2, <2>3, <2>4, <2>5, <2>6, Zenon
<1> QED  BY <1>2, <1>3, Zenon

\* Submission columns or depth of a prepared row change: the rest is as it was.
LEMMA ColumnsChange ==
  ASSUME SubmissionInv, Prepared, UNCHANGED req, DOMAIN row' = DOMAIN row,
         \A x \in RowFields \ {"bytes", "txHash", "nonce", "depth"} : row'[x] = row[x]
  PROVE  /\ DOMAIN row = RowFields /\ RowInv' /\ Prepared'
         /\ row'.state = row.state /\ row'.policy = row.policy /\ row'.reserved = row.reserved
<1>1. Consistent(req) /\ Claims(row, req)
  BY Zenon DEF SubmissionInv, RowInv, Prepared
<1>2. DOMAIN row = RowFields
  BY <1>1, Zenon DEF Claims
<1>3. Claims(row', req)
  BY <1>1, <1>2, ClaimsKept, Zenon
<1>4. row'.state = row.state /\ row'.policy = row.policy /\ row'.reserved = row.reserved
  BY Zenon DEF RowFields
<1>5. PICK f \in ValidFiles : Under(row, f)
  BY Zenon DEF SubmissionInv, RowInv, Prepared
<1>6. Under(row', f)
  BY <1>4, <1>5, Zenon DEF Under
<1>7. RowInv'
  BY <1>1, <1>3, <1>6, Zenon DEF RowInv
<1> QED  BY <1>2, <1>4, <1>7, Zenon DEF Prepared

LEMMA PreparedFields ==
  ASSUME SubmissionInv, Prepared
  PROVE  DOMAIN row = RowFields
BY Zenon DEF SubmissionInv, RowInv, Prepared, Claims

LEMMA SwapKeeps ==
  ASSUME SubmissionInv, NEW s \in Strays, Swap(s)
  PROVE  SubmissionInv'
<1>1. /\ Prepared /\ wire = None /\ step = "idle" /\ step' = "idle"
      /\ row' = [row EXCEPT !.bytes = s.bytes, !.txHash = s.txHash, !.nonce = s.nonce]
      /\ swapped' = TRUE /\ verdict' = None
      /\ UNCHANGED <<conf, req, hash, payment, prepared, wire, floor, balance, cost, booked>>
  BY Zenon DEF Swap, Prepared
<1>2. DOMAIN row = RowFields
  BY <1>1, PreparedFields, Zenon
<1>3. /\ DOMAIN row' = DOMAIN row
      /\ \A x \in RowFields \ {"bytes", "txHash", "nonce"} : row'[x] = row[x]
  BY <1>1, <1>2, Zenon
<1>4. /\ RowInv' /\ Prepared' /\ row'.state = row.state
      /\ row'.policy = row.policy /\ row'.reserved = row.reserved
  BY <1>1, <1>3, ColumnsChange, Zenon
<1>5. row'.bytes = s.bytes /\ row'.depth = row.depth
  BY <1>1, <1>2, Zenon DEF RowFields
<1> USE DEF SubmissionInv
<1>6. ConfInv'
  BY <1>1, Zenon DEF ConfInv
<1>7. StepInv'
  BY <1>1, <1>4, Zenon DEF StepInv, Prepared
<1>8. BytesInv'
  <2>1. Liable(row)'
    BY <1>1, <1>4, Zenon DEF BytesInv, Liable
  <2>2. row'.depth \in Nat /\ row'.depth >= row'.policy.depth
    BY <1>1, <1>4, <1>5, Zenon DEF BytesInv
  <2>3. row'.bytes.max \in Nat
    BY <1>5, SubmissionAssumption, Zenon
  <2> QED  BY <1>1, <1>4, <2>1, <2>2, <2>3, Zenon DEF BytesInv
<1>9. VerdictInv'
  BY <1>1, SubmissionAssumption, Zenon DEF VerdictInv
<1>10. WireInv' /\ CostInv' /\ BookInv'
  BY <1>1, Zenon DEF WireInv, CostInv, BookInv
<1> QED  BY <1>4, <1>6, <1>7, <1>8, <1>9, <1>10, Zenon

\* The checks of the stored bytes do not look at the depth.
LEMMA DepthIsNotChecked ==
  ASSUME NEW w, NEW v, NEW f, ValidateStoredSubmission(f, w),
         \A x \in RowFields \ {"depth"} : v[x] = w[x]
  PROVE  ValidateStoredSubmission(f, v)
<1>1. /\ v.hash = w.hash /\ v.scope = w.scope /\ v.anchor = w.anchor /\ v.after = w.after
      /\ v.before = w.before /\ v.network = w.network /\ v.asset = w.asset /\ v.payTo = w.payTo
      /\ v.amount = w.amount /\ v.payer = w.payer /\ v.signer = w.signer /\ v.policy = w.policy
      /\ v.bytes = w.bytes /\ v.txHash = w.txHash /\ v.nonce = w.nonce
  BY Zenon DEF RowFields
<1>2. ValidateSignedTransaction(f, w)
  BY Zenon DEF ValidateStoredSubmission
<1>3. ValidateSignedTransaction(f, v)
  BY <1>1, <1>2, Zenon DEF ValidateSignedTransaction
<1> QED  BY <1>1, <1>3, Zenon DEF ValidateStoredSubmission

LEMMA ReconcileKeeps ==
  ASSUME SubmissionInv, ReconcilePreparedEvm
  PROVE  SubmissionInv'
<1>1. /\ Prepared /\ step \in {"idle", "sent"} /\ conf \in ValidFiles
      /\ verdict' = Recovers(conf, row)
      /\ row' = [row EXCEPT !.depth = IF row.signer = Checksum(conf.signer)
                                      THEN Larger(row.depth, conf.depth) ELSE row.depth]
      /\ UNCHANGED <<conf, req, step, hash, payment, prepared, swapped, wire, floor, balance, cost, booked>>
  BY Zenon DEF ReconcilePreparedEvm, Prepared, SubmissionInv, ConfInv
<1>2. DOMAIN row = RowFields
  BY <1>1, PreparedFields, Zenon
<1>3. DOMAIN row' = DOMAIN row /\ \A x \in RowFields \ {"depth"} : row'[x] = row[x]
  BY <1>1, <1>2, Zenon
<1>4. /\ RowInv' /\ Prepared' /\ row'.state = row.state
      /\ row'.policy = row.policy /\ row'.reserved = row.reserved
  BY <1>1, <1>3, ColumnsChange, Zenon
<1>5. /\ row'.bytes = row.bytes /\ row'.txHash = row.txHash /\ row'.nonce = row.nonce
      /\ row'.signer = row.signer
  BY <1>3, Zenon DEF RowFields
<1> USE DEF SubmissionInv
<1>6. ConfInv'
  BY <1>1, Zenon DEF ConfInv
<1>7. StepInv'
  BY <1>1, <1>4, Zenon DEF StepInv, Prepared, Under
<1>8. BytesInv'
  <2>1. Liable(row)'
    BY <1>1, <1>4, Zenon DEF BytesInv, Liable
  <2>2. row'.depth \in Nat /\ row'.depth >= row'.policy.depth
    <3>1. row'.depth = IF row.signer = Checksum(conf.signer) THEN Larger(row.depth, conf.depth) ELSE row.depth
      BY <1>1, <1>2, Zenon DEF RowFields
    <3>2. conf.depth \in Nat /\ row.depth \in Nat /\ row.depth >= row.policy.depth
      BY <1>1, FileFacts, Zenon DEF BytesInv
    <3>3. row.policy.depth \in Nat
      <4>1. PICK f \in ValidFiles : Under(row, f)
        BY <1>1, Zenon DEF RowInv, Prepared
      <4> QED  BY <4>1, UnderFacts, Zenon
    <3>4. Larger(row.depth, conf.depth) \in Nat /\ Larger(row.depth, conf.depth) >= row.policy.depth
      BY <3>2, <3>3, LargerKeeps, Zenon
    <3> QED  BY <1>4, <3>1, <3>2, <3>4, Zenon
  <2>3. ~swapped => OwnBytes(row'.bytes, row', req')
    BY <1>1, <1>4, <1>5, Zenon DEF BytesInv, OwnBytes
  <2>4. ~swapped => row'.txHash = row'.bytes /\ row'.nonce = row'.bytes.nonce
    BY <1>1, <1>5, Zenon DEF BytesInv
  <2>5. row'.bytes.max \in Nat
    BY <1>1, <1>5, Zenon DEF BytesInv
  <2> QED  BY <1>1, <1>4, <2>1, <2>2, <2>3, <2>4, <2>5, Zenon DEF BytesInv
<1>9. VerdictInv'
  <2> SUFFICES ASSUME verdict' = TRUE
               PROVE  row'.signer = Checksum(conf'.signer) /\ ValidateStoredSubmission(conf', row')
    BY <1>4, Zenon DEF VerdictInv
  <2>1. Recovers(conf, row)
    BY <1>1, Zenon
  <2>2. row.signer = Checksum(conf.signer) /\ ValidateStoredSubmission(conf, row)
    BY <2>1, Zenon DEF Recovers
  <2>3. ValidateStoredSubmission(conf, row')
    BY <1>3, <2>2, DepthIsNotChecked, Zenon
  <2> QED  BY <1>1, <1>5, <2>2, <2>3, Zenon
<1>10. WireInv' /\ CostInv' /\ BookInv'
  BY <1>1, <1>4, Zenon DEF WireInv, CostInv, BookInv
<1> QED  BY <1>4, <1>6, <1>7, <1>8, <1>9, <1>10, Zenon

LEMMA RebroadcastKeeps ==
  ASSUME SubmissionInv, Rebroadcast
  PROVE  SubmissionInv'
<1> USE DEF SubmissionInv
<1>1. /\ verdict = TRUE /\ cost = None
      /\ wire' = (IF wire = None THEN row.bytes ELSE wire)
      /\ floor' = (IF wire = None THEN conf.hardStop ELSE floor)
      /\ UNCHANGED <<conf, req, step, hash, payment, prepared, row, swapped, verdict, balance, cost, booked>>
  BY Zenon DEF Rebroadcast
<1>2. Prepared /\ ValidateSignedTransaction(conf, row) /\ conf \in ValidFiles
  BY <1>1, Zenon DEF VerdictInv, ValidateStoredSubmission, ConfInv
<1>3. ConfInv' /\ RowInv' /\ BookInv' /\ CostInv'
  BY <1>1, Zenon DEF ConfInv, RowInv, BookInv, CostInv
<1>4. StepInv'
  BY <1>1, Zenon DEF StepInv, CanRetry, Under
<1>5. BytesInv'
  <2>1. step' # "signed" /\ step' # "stored"
    BY <1>1, <1>2, Zenon DEF StepInv, BytesInv, Prepared
  <2> QED  BY <1>1, <2>1, BytesKept, Zenon
<1>6. VerdictInv'
  BY <1>1, VerdictKept, Zenon
<1>7. WireInv'
  <2>1. row.bytes.gas = row.policy.gas /\ row.bytes.max <= row.policy.cap
    BY <1>2, Zenon DEF ValidateSignedTransaction
  <2>2. row.bytes.max \in Nat
    BY <1>2, Zenon DEF BytesInv
  <2>3. conf.hardStop \in Nat /\ balance >= conf.hardStop + row.reserved
    BY <1>2, FileFacts, Zenon DEF Rebroadcast, RecoveryBalanceOK
  <2> QED  BY <1>1, <1>2, <2>1, <2>2, <2>3, Zenon DEF WireInv, Prepared
<1> QED  BY <1>3, <1>4, <1>5, <1>6, <1>7, Zenon

\* What a row says of its policy and of its reservation.
LEMMA PolicyFacts ==
  ASSUME SubmissionInv, Prepared
  PROVE  row.policy.gas \in Nat \ {0} /\ row.policy.cap \in Nat \ {0} /\ row.reserved \in Nat
<1>1. PICK f \in ValidFiles : Under(row, f)
  BY Zenon DEF SubmissionInv, RowInv, Prepared
<1> QED  BY <1>1, UnderFacts, Zenon

\* The reservation pays for what the policy allows and for the estimated L1 fee.
LEMMA FeeWithinReservation ==
  ASSUME SubmissionInv, Prepared, NEW used \in Nat, NEW price \in Nat, NEW l1 \in Nat,
         used <= row.policy.gas, price <= row.policy.cap, l1 <= prepared.l1
  PROVE  used * price + l1 <= row.reserved
<1>1. row.policy.gas \in Nat /\ row.policy.cap \in Nat /\ row.reserved \in Nat
  BY PolicyFacts, Zenon
<1>2. /\ used * price \in Nat /\ used * price <= row.policy.gas * row.policy.cap
      /\ row.policy.gas * row.policy.cap \in Nat
  BY <1>1, Products
<1>3. prepared.l1 \in Nat /\ row.policy.gas * row.policy.cap + prepared.l1 <= row.reserved
  BY Zenon DEF SubmissionInv, BytesInv, Liable
<1> QED  BY <1>1, <1>2, <1>3

\* A balance that covers the floor and the reservation stays above the floor
\* when a fee within the reservation is taken from it.
LEMMA AboveFloor ==
  ASSUME NEW money \in Nat, NEW low \in Nat, NEW kept \in Nat, NEW paid \in Nat,
         money >= low + kept, paid <= kept
  PROVE  money - paid >= low
BY SMT

LEMMA MineKeeps ==
  ASSUME SubmissionInv, wire # None, NEW used \in 1..wire.gas, NEW price \in 1..wire.max,
         NEW l1 \in L1Fees, Mine(used, price, l1)
  PROVE  SubmissionInv'
<1>1. /\ Prepared /\ wire.gas = row.policy.gas /\ wire.max \in Nat /\ wire.max <= row.policy.cap
      /\ floor \in Nat /\ balance >= floor + row.reserved /\ cost = None
  BY Zenon DEF WireInv, Mine, SubmissionInv
<1>2. row.policy.gas \in Nat /\ row.policy.cap \in Nat /\ row.reserved \in Nat
  <2>1. Prepared
    BY <1>1, Zenon
  <2> QED  BY <2>1, PolicyFacts, Zenon
<1> USE DEF SubmissionInv
<1>3. used \in Nat /\ price \in Nat /\ l1 \in Nat /\ used <= row.policy.gas /\ price <= row.policy.cap
  BY <1>1, <1>2, SubmissionAssumption
<1> DEFINE fee == used * price + l1
<1>4. fee \in Nat
  <2>1. used * price \in Nat
    BY <1>3, Products
  <2> QED  BY <1>3, <2>1
<1>5. /\ cost' = [used |-> used, price |-> price, l1 |-> l1, fee |-> fee]
      /\ fee <= balance /\ balance' = balance - fee
      /\ UNCHANGED <<conf, req, step, hash, payment, prepared, row, swapped, verdict, wire, floor, booked>>
  BY Zenon DEF Mine
<1>5a. l1 <= prepared.l1 => fee <= row.reserved
  BY <1>1, <1>3, FeeWithinReservation, Zenon
<1>5b. fee = used * price + l1
  BY Zenon
<1> HIDE DEF fee
<1>6. cost' \in [used: Nat, price: Nat, l1: Nat, fee: Nat] /\ cost' # None
  <2>1. cost' \in [used: Nat, price: Nat, l1: Nat, fee: Nat]
    BY <1>3, <1>4, <1>5, Zenon
  <2>2. None \notin [used: Nat, price: Nat, l1: Nat, fee: Nat]
    BY SubmissionAssumption, Zenon
  <2> QED  BY <2>1, <2>2, Zenon
<1>7. ConfInv'
  BY <1>4, <1>5 DEF ConfInv
<1>8. RowInv' /\ VerdictInv'
  BY <1>5, Zenon DEF RowInv, VerdictInv, Prepared
<1>9. StepInv' /\ BytesInv'
  BY <1>5, Zenon DEF StepInv, BytesInv, Prepared, CanRetry, Under, Liable
<1>10. WireInv'
  BY <1>1, <1>5, <1>6, Zenon DEF WireInv, Prepared
<1>11. CostInv'
  <2>1. /\ cost'.used = used /\ cost'.price = price /\ cost'.l1 = l1
        /\ cost'.fee = used * price + l1
    BY <1>5, <1>5b, Zenon
  <2>2. l1 <= prepared.l1 => balance' >= floor
    <3> SUFFICES ASSUME l1 <= prepared.l1 PROVE balance' >= floor
      BY Zenon
    <3>1. fee <= row.reserved
      BY <1>5a, Zenon
    <3>2. balance \in Nat
      BY Zenon DEF ConfInv
    <3>3. balance - fee >= floor
      BY <1>1, <1>2, <1>4, <3>1, <3>2, AboveFloor, Zenon
    <3> QED  BY <1>5, <3>3, Zenon
  <2> QED  BY <1>3, <1>5, <1>6, <2>1, <2>2, Zenon DEF CostInv
<1>12. BookInv'
  BY <1>1, <1>5, Zenon DEF BookInv
<1> QED  BY <1>7, <1>8, <1>9, <1>10, <1>11, <1>12, Zenon

\* parse_raw_receipt: a receipt with every part of the fee gives the fee, and
\* every other one nothing.
LEMMA ReceiptFee ==
  ASSUME cost \in [used: Nat, price: Nat, l1: Nat, fee: Nat],
         cost.fee = cost.used * cost.price + cost.l1,
         NEW raw \in Receipts, NEW expected, ParseRawReceipt(expected, raw) # None
  PROVE  ParseRawReceipt(expected, raw) = cost.fee
<1>1. /\ raw.mined /\ raw.effectiveGasPrice # None /\ raw.l1Fee # None
      /\ ParseRawReceipt(expected, raw) = raw.gasUsed * raw.effectiveGasPrice + raw.l1Fee
  BY Zenon DEF ParseRawReceipt
<1>2. /\ raw.gasUsed = cost.used
      /\ raw.effectiveGasPrice # None => raw.effectiveGasPrice = cost.price
      /\ raw.l1Fee # None => raw.l1Fee = cost.l1
  BY DEF Receipts
<1> QED  BY <1>1, <1>2, Zenon

LEMMA BookKeeps ==
  ASSUME SubmissionInv, cost # None, NEW raw \in Receipts, Book(raw)
  PROVE  SubmissionInv'
<1> USE DEF SubmissionInv
<1>1. /\ booked' = ParseRawReceipt(row.txHash, raw)
      /\ UNCHANGED <<conf, req, step, hash, payment, prepared, row, swapped, verdict, wire, floor,
                     balance, cost>>
  BY Zenon DEF Book
<1>2. ConfInv' /\ RowInv' /\ VerdictInv'
  BY <1>1, Zenon DEF ConfInv, RowInv, VerdictInv, Prepared
<1>3. StepInv' /\ BytesInv'
  BY <1>1, Zenon DEF StepInv, BytesInv, Prepared, CanRetry, Under, Liable
<1>4. WireInv' /\ CostInv'
  BY <1>1, Zenon DEF WireInv, CostInv, Prepared
<1>5. BookInv'
  BY <1>1, ReceiptFee, Zenon DEF BookInv, CostInv
<1> QED  BY <1>2, <1>3, <1>4, <1>5, Zenon

LEMMA StepKeeps == SubmissionInv /\ [Next]_vars => SubmissionInv'
<1> SUFFICES ASSUME SubmissionInv, [Next]_vars PROVE SubmissionInv'
  BY Zenon
<1>1. CASE Present
  BY <1>1, PresentKeeps, Zenon
<1>2. ASSUME NEW answer, HandlerVerify(answer) PROVE SubmissionInv'
  BY <1>2, HandlerVerifyKeeps, Zenon
<1>3. ASSUME NEW answer, WorkerVerify(answer) PROVE SubmissionInv'
  BY <1>3, WorkerVerifyKeeps, Zenon
<1>4. CASE ClaimSettlement
  BY <1>4, ClaimKeeps, Zenon
<1>5. CASE ResumeAwaitingRetry
  BY <1>5, ResumeKeeps, Zenon
<1>6. CASE \E nonce \in Nonces, p, b \in FeeAnswers, l1p, l1b \in L1Fees \cup {None} :
             WorkerPrepare(nonce, p, b, l1p, l1b)
  BY <1>6, PrepareKeeps, Zenon
<1>7. CASE MarkPreparedEvm
  BY <1>7, MarkKeeps, Zenon
<1>8. CASE WorkerSend
  BY <1>8, SendKeeps, Zenon
<1>9. CASE \E f \in Files : Restart(f)
  BY <1>9, RestartKeeps, Zenon
<1>10. CASE \E s \in Strays : Swap(s)
  BY <1>10, SwapKeeps, Zenon
<1>11. CASE ReconcilePreparedEvm
  BY <1>11, ReconcileKeeps, Zenon
<1>12. CASE Rebroadcast
  BY <1>12, RebroadcastKeeps, Zenon
<1>13. CASE /\ wire # None
            /\ \E used \in 1..wire.gas, price \in 1..wire.max, l1 \in L1Fees : Mine(used, price, l1)
  BY <1>13, MineKeeps, Zenon
<1>14. CASE cost # None /\ \E raw \in Receipts : Book(raw)
  BY <1>14, BookKeeps, Zenon
<1>15. CASE UNCHANGED vars
  <2>1. ConfInv' /\ RowInv' /\ VerdictInv'
    BY <1>15, Zenon DEF SubmissionInv, ConfInv, RowInv, VerdictInv, Prepared, vars
  <2>2. StepInv' /\ BytesInv'
    BY <1>15, Zenon DEF SubmissionInv, StepInv, BytesInv, Prepared, CanRetry, Under, Liable, vars
  <2>3. WireInv' /\ CostInv' /\ BookInv'
    BY <1>15, Zenon DEF SubmissionInv, WireInv, CostInv, BookInv, Prepared, vars
  <2> QED  BY <2>1, <2>2, <2>3, Zenon DEF SubmissionInv
<1> QED
  BY <1>1, <1>2, <1>3, <1>4, <1>5, <1>6, <1>7, <1>8, <1>9, <1>10, <1>11, <1>12, <1>13, <1>14, <1>15, Zenon
  DEF Next

LEMMA InvariantHolds == Spec => []SubmissionInv
BY InitHolds, StepKeeps, PTL DEF Spec

-----------------------------------------------------------------------------
(* The properties.                                                         *)

\* No payment that the handler accepted is failed by the facilitator's own
\* consistency checks (verification_inconsistent, settlement_identity_mismatch,
\* the width of the required_confirmations column), for all requests and files.
THEOREM NoInternalFailure == Spec => []NoSelfInflictedFailure
<1>1. SubmissionInv => NoSelfInflictedFailure
  BY Zenon DEF SubmissionInv, StepInv, NoSelfInflictedFailure
<1> QED  BY <1>1, InvariantHolds, PTL

\* The bytes that validate_stored_submission accepts carry out the payment of
\* their row, whatever submission columns a damaged journal holds.
THEOREM AcceptedBytesPay == Spec => []AcceptedIsThePayment
<1>1. ASSUME SubmissionInv, verdict = TRUE
      PROVE  /\ <<row.bytes.chainId, row.bytes.to>> = <<row.network, row.asset.id>>
             /\ <<row.bytes.call.auth.from, row.bytes.call.auth.to, row.bytes.call.auth.value>>
                = <<row.payer.id, row.payTo.id, row.amount.n>>
             /\ row.bytes.call.auth.nonce = row.anchor
             /\ row.bytes.by = conf.signer
             /\ row.bytes.gas * row.bytes.max <= row.reserved
  <2>1. /\ Prepared /\ row.signer = Checksum(conf.signer) /\ row.network = conf.chainId
        /\ ValidateSignedTransaction(conf, row)
    BY <1>1, Zenon DEF SubmissionInv, VerdictInv, ValidateStoredSubmission
  <2>2. /\ row.bytes.by = row.signer.id /\ row.bytes.chainId = conf.chainId
        /\ row.bytes.to = row.asset.id
        /\ row.bytes.gas = row.policy.gas /\ row.bytes.max <= row.policy.cap
        /\ row.bytes.call.auth = [from |-> row.payer.id, to |-> row.payTo.id, value |-> row.amount.n,
                                  after |-> row.after, before |-> row.before, nonce |-> row.anchor]
    BY <2>1, Zenon DEF ValidateSignedTransaction
  <2>3. row.bytes.by = conf.signer
    BY <2>1, <2>2, ChecksumIsText, Zenon
  <2>4. row.bytes.gas * row.bytes.max <= row.reserved
    <3>1. row.policy.gas \in Nat /\ row.policy.cap \in Nat /\ row.bytes.max \in Nat
      BY <1>1, <2>1, PolicyFacts, Zenon DEF SubmissionInv, BytesInv
    <3>2. PICK f \in ValidFiles : Under(row, f)
      BY <1>1, <2>1, Zenon DEF SubmissionInv, RowInv, Prepared
    <3>3. /\ f.gas * f.cap < f.reservation /\ f.gas * f.cap \in Nat /\ f.reservation \in Nat
          /\ row.policy.gas = f.gas /\ row.policy.cap = f.cap /\ row.reserved = f.reservation
          /\ f.gas \in Nat /\ f.cap \in Nat
      BY <3>2, FileFacts, UnderFacts
    <3>4. row.bytes.gas = f.gas /\ row.bytes.max <= f.cap /\ row.bytes.max \in Nat
      BY <2>2, <3>1, <3>3, Zenon
    <3>5. f.gas <= f.gas
      BY <3>3
    <3>6. f.gas * row.bytes.max \in Nat /\ f.gas * row.bytes.max <= f.gas * f.cap
      BY <3>3, <3>4, <3>5, Products, Zenon
    <3>7. f.gas * row.bytes.max <= f.reservation
      BY <3>3, <3>6, Below, Zenon
    <3> QED  BY <3>3, <3>4, <3>7, Zenon
  <2> QED
    <3> DEFINE auth == row.bytes.call.auth
    <3>0. auth = [from |-> row.payer.id, to |-> row.payTo.id, value |-> row.amount.n,
                  after |-> row.after, before |-> row.before, nonce |-> row.anchor]
      BY <2>2, Zenon
    <3>1. /\ auth.from = row.payer.id /\ auth.to = row.payTo.id
          /\ auth.value = row.amount.n /\ auth.nonce = row.anchor
      <4> HIDE DEF auth
      <4> QED  BY <3>0, Zenon
    <3> QED  BY <2>1, <2>2, <2>3, <2>4, <3>1, Zenon
<1>2. SubmissionInv => AcceptedIsThePayment
  BY <1>1, Zenon DEF AcceptedIsThePayment
<1> QED  BY <1>2, InvariantHolds, PTL

\* A broadcast transaction that meets no higher L1 fee than was estimated is
\* paid by its reservation and leaves the hard stop (signer_is_funded,
\* evm_reservation_covers_liability, require_evm_recovery_balance).
THEOREM HardStopHolds == Spec => []HardStopKept
<1>1. ASSUME SubmissionInv, cost # None, cost.l1 <= prepared.l1
      PROVE  cost.fee <= row.reserved /\ balance >= floor
  <2>1. /\ Prepared /\ cost \in [used: Nat, price: Nat, l1: Nat, fee: Nat]
        /\ cost.fee = cost.used * cost.price + cost.l1
        /\ cost.used <= row.policy.gas /\ cost.price <= row.policy.cap
        /\ balance >= floor
    BY <1>1, Zenon DEF SubmissionInv, CostInv, WireInv
  <2>2. cost.used * cost.price + cost.l1 <= row.reserved
    BY <1>1, <2>1, FeeWithinReservation, Zenon
  <2> QED  BY <2>1, <2>2, Zenon
<1>2. SubmissionInv => HardStopKept
  BY <1>1, Zenon DEF HardStopKept
<1> QED  BY <1>2, InvariantHolds, PTL

\* The booked fee is the charged fee (parse_raw_receipt), for all receipts an
\* endpoint may give of the transaction.
THEOREM BookedFeeIsCharged == Spec => []BookedIsCharged
<1>1. SubmissionInv => BookedIsCharged
  BY Zenon DEF SubmissionInv, BookInv, BookedIsCharged
<1> QED  BY <1>1, InvariantHolds, PTL

\* The calldata of a verified payment is of the overload its signature calls for.
LEMMA CalldataFacts ==
  ASSUME NEW r \in Requests, Settleable(r)
  PROVE  LET call == SettlementCalldata(VerifiedPayment(r))
             kind == ClassifySignature(call.auth.from, call.sig, TransferHash(call.auth))
         IN  /\ call.auth = r.auth
             /\ \/ kind = "eoa" /\ call.overload = "vrs"
                \/ kind = "eip1271" /\ call.overload = "bytes"
<1> DEFINE p == VerifiedPayment(r)
           call == SettlementCalldata(p)
           own == ClassifySignature(r.auth.from, r.sig, TransferHash(r.auth))
<1>1. p.auth = r.auth /\ p.sig = r.sig /\ p.hash = TransferHash(r.auth)
  BY Zenon DEF VerifiedPayment
<1> HIDE DEF p
<1>2. CASE own = "eoa"
  <2>1. /\ call.auth = r.auth /\ call.overload = "vrs"
        /\ call.sig = [r.sig EXCEPT !.shape = "65"]
    BY <1>1, <1>2, Zenon DEF SettlementCalldata
  <2>2. r.sig.by = r.auth.from /\ r.sig.over = TransferHash(r.auth)
    BY <1>2, Zenon DEF ClassifySignature
  <2>3. DOMAIN r.sig = {"shape", "by", "over"}
    BY SubmissionAssumption, Zenon
  <2>4. call.sig.shape = "65" /\ call.sig.by = r.sig.by /\ call.sig.over = r.sig.over
    BY <2>1, <2>3, Zenon
  <2> HIDE DEF call
  <2>5. ClassifySignature(call.auth.from, call.sig, TransferHash(call.auth)) = "eoa"
    BY <2>1, <2>2, <2>4, Zenon DEF ClassifySignature
  <2> QED  BY <2>1, <2>5, Zenon DEF call, p
<1>3. CASE own # "eoa"
  <2>1. call.auth = r.auth /\ call.overload = "bytes" /\ call.sig = r.sig
    BY <1>1, <1>3, Zenon DEF SettlementCalldata
  <2>2. own = "eip1271"
    BY <1>3, Zenon DEF Settleable
  <2> HIDE DEF call
  <2>3. ClassifySignature(call.auth.from, call.sig, TransferHash(call.auth)) = "eip1271"
    BY <2>1, <2>2, Zenon
  <2> QED  BY <2>1, <2>3, Zenon DEF call, p
<1> QED  BY <1>2, <1>3, Zenon

\* One signing key: every valid file names the same signer.
OneSigner == \A f, g \in ValidFiles : f.signer = g.signer

LEMMA SignerIsTheOne ==
  ASSUME OneSigner, Claims(row, req), NEW f \in ValidFiles
  PROVE  row.signer = Checksum(f.signer) /\ row.signer.id = f.signer
<1>1. PICK g \in ValidFiles : row.signer = Checksum(g.signer)
  BY Zenon DEF Claims
<1>2. g.signer = f.signer
  BY Zenon DEF OneSigner
<1>3. row.signer = Checksum(f.signer)
  BY <1>1, <1>2, Zenon
<1> QED  BY <1>3, ChecksumIsText, Zenon

\* Own bytes pass validate_signed_transaction under every valid file.
LEMMA OwnBytesValidate ==
  ASSUME SubmissionInv, OneSigner, Prepared, ~swapped, NEW f \in ValidFiles
  PROVE  ValidateSignedTransaction(f, row)
<1> DEFINE tx == row.bytes
<1>1. Consistent(req) /\ Claims(row, req) /\ req \in Requests
  BY Zenon DEF SubmissionInv, RowInv, ConfInv, Prepared
<1>2. OwnBytes(tx, row, req) /\ tx = row.txHash /\ row.nonce = tx.nonce
  BY Zenon DEF SubmissionInv, BytesInv
<1>3. row.signer.id = f.signer /\ tx.by = f.signer
  BY <1>1, <1>2, SignerIsTheOne, Zenon DEF OwnBytes
<1>4. tx.chainId = f.chainId /\ tx.to = row.asset.id
  BY <1>1, <1>2, FileFacts, Zenon DEF Claims, OwnBytes, Consistent
<1>5. /\ tx.call.auth = req.auth
      /\ \/ /\ ClassifySignature(tx.call.auth.from, tx.call.sig, TransferHash(tx.call.auth)) = "eoa"
            /\ tx.call.overload = "vrs"
         \/ /\ ClassifySignature(tx.call.auth.from, tx.call.sig, TransferHash(tx.call.auth)) = "eip1271"
            /\ tx.call.overload = "bytes"
  BY <1>1, <1>2, CalldataFacts, Zenon DEF OwnBytes, Consistent
<1>6. tx.call.auth = [from |-> row.payer.id, to |-> row.payTo.id, value |-> row.amount.n,
                      after |-> row.after, before |-> row.before, nonce |-> row.anchor]
  <2>1. /\ row.payer.id = req.auth.from /\ row.payTo.id = req.auth.to /\ row.amount.n = req.auth.value
        /\ row.after = req.auth.after /\ row.before = req.auth.before /\ row.anchor = req.auth.nonce
    BY <1>1, ChecksumIsText, Zenon DEF Claims, Consistent
  <2> QED  BY <1>1, <1>5, <2>1, AuthIsItsFields, Zenon
<1>7. TransferHash(tx.call.auth) = row.hash
  BY <1>1, <1>5, Zenon DEF Claims
<1>8. /\ tx.encoding = "canonical" /\ tx.type = 2 /\ tx.value = 0 /\ tx.accessList = {}
      /\ tx.gas = row.policy.gas /\ tx.max <= row.policy.cap /\ tx.max # 0 /\ tx.tip <= tx.max
  BY <1>2, Zenon DEF OwnBytes
<1> QED
  BY <1>2, <1>3, <1>4, <1>5, <1>6, <1>7, <1>8, Zenon DEF ValidateSignedTransaction

\* Bytes the facilitator journaled itself pass the checks of recovery
\* (reconcile_prepared_evm) under every file it may be restarted with, as long
\* as the files name one signer.
THEOREM OwnBytesRecover == OneSigner => (Spec => []OwnBytesAccepted)
<1> SUFFICES ASSUME OneSigner PROVE Spec => []OwnBytesAccepted
  BY Zenon
<1>1. ASSUME SubmissionInv, Prepared, ~swapped, NEW f \in ValidFiles
      PROVE  Recovers(f, row)
  <2>1. Consistent(req) /\ Claims(row, req) /\ req \in Requests
    BY <1>1, Zenon DEF SubmissionInv, RowInv, ConfInv, Prepared
  <2>2. PICK g \in ValidFiles : Under(row, g)
    BY <1>1, Zenon DEF SubmissionInv, RowInv, Prepared
  <2>3. row.signer = Checksum(f.signer) /\ row.signer.id = f.signer
    BY <1>1, <2>1, SignerIsTheOne, Zenon
  <2>4. EvmPolicySnapshotOK(row)
    <3>1. /\ row.policy.network = g.network /\ row.policy.asset = g.asset /\ row.policy.chainId = g.chainId
          /\ row.policy.gas = g.gas /\ row.policy.cap = g.cap /\ row.policy.depth = g.depth
      BY <2>2, UnderFacts, Zenon
    <3>2. /\ DOMAIN row.asset = {"id", "form"} /\ row.asset.id = Usdc
          /\ DOMAIN g.asset = {"id", "form"} /\ g.asset.id = Usdc
      BY <2>1, FileFacts, SubmissionAssumption DEF Claims, Consistent
    <3>3. EqIgnoreCase(row.policy.asset, row.asset)
      BY <3>1, <3>2, SameAddress, Zenon DEF EqIgnoreCase
    <3>4. g.gas > 0 /\ g.cap > 0 /\ g.depth > 0 /\ g.network = ChainId /\ g.chainId = ChainId
      BY FileFacts
    <3> QED  BY <2>1, <3>1, <3>3, <3>4, Zenon DEF EvmPolicySnapshotOK, Claims
  <2>5. Larger(row.depth, f.depth) >= row.policy.depth
    <3>1. row.depth \in Nat /\ row.depth >= row.policy.depth
      BY <1>1, Zenon DEF SubmissionInv, BytesInv
    <3>2. f.depth \in Nat /\ row.policy.depth \in Nat
      BY <2>2, FileFacts, UnderFacts, Zenon
    <3> QED  BY <3>1, <3>2, LargerKeeps, Zenon
  <2>6. ValidateStoredSubmission(f, row)
    <3>1. row.network = f.chainId /\ row.asset.id = f.asset.id
      BY <2>1, FileFacts, Zenon DEF Claims, Consistent
    <3>2. row.scope = [network |-> row.network, asset |-> Lower(row.asset), payer |-> Lower(row.payer)]
      BY <2>1, Zenon DEF Claims
    <3>3. ValidateSignedTransaction(f, row)
      BY <1>1, OwnBytesValidate, Zenon
    <3> QED  BY <2>3, <3>1, <3>2, <3>3, Zenon DEF ValidateStoredSubmission
  <2>7. f.depth <= MaxI32
    BY FileFacts, Zenon
  <2> QED  BY <2>3, <2>4, <2>5, <2>6, <2>7, Zenon DEF Recovers
<1>2. SubmissionInv => OwnBytesAccepted
  BY <1>1, Zenon DEF OwnBytesAccepted, ValidFiles
<1> QED  BY <1>2, InvariantHolds, PTL

=============================================================================
