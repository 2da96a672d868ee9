--------------------------- MODULE MCEvmSubmission ---------------------------
(***************************************************************************)
(* Instances of EvmSubmission: addresses, files, requests and strays.      *)
(***************************************************************************)
EXTENDS EvmSubmission

CONSTANTS Base, Token, Alice, Bob, Shop, Hot, Cold

Typed(id, form) == [id |-> id, form |-> form]

File(gas, cap, reservation, hardStop, depth, signer, form) ==
  [primaryHost |-> "a", backupHost |-> "b", fixedSettings |-> TRUE, chainId |-> Base, network |-> Base,
   asset |-> Typed(Token, form), depth |-> depth, gas |-> gas, cap |-> cap,
   reservation |-> reservation, clientDaily |-> 12, globalDaily |-> 16, hardStop |-> hardStop,
   warning |-> 8, minimum |-> 2, signer |-> signer]

\* Valid: the first two; refused: an unjournalable depth, one endpoint twice,
\* another fixed setting,
\* a reservation without room for L1 fees, one above the client's daily cap,
\* a hard stop above the warning.
PaymentFiles ==
  LET file == File(2, 3, 9, 3, 1, Hot, "checksum")
  IN  {file, File(3, 2, 8, 3, 2, Hot, "lower"), File(2, 3, 9, 3, 3, Hot, "lower"),
       [file EXCEPT !.backupHost = "a"], [file EXCEPT !.fixedSettings = FALSE], [file EXCEPT !.reservation = 6],
       [file EXCEPT !.reservation = 13], [file EXCEPT !.hardStop = 8]}
SignerFiles == {File(2, 3, 9, 3, 1, signer, "lower") : signer \in {Hot, Cold}}

Auth(from, to, value, nonce) ==
  [from |-> from, to |-> to, value |-> value, after |-> 0, before |-> 9, nonce |-> nonce]

Own(auth, shape) ==
  [shape |-> shape, by |-> auth.from,
   over |-> [name |-> DomainName, chainId |-> Base, token |-> Token, auth |-> auth]]

Request(auth, shape, form, zeros) ==
  LET terms == [asset |-> Typed(Token, form), payTo |-> Typed(auth.to, form),
                amount |-> [n |-> auth.value, zeros |-> zeros]]
  IN  [scheme |-> "eip3009", required |-> terms, auth |-> auth, sig |-> Own(auth, shape),
       accepted |-> [asset |-> Checksum(Token), payTo |-> Checksum(auth.to),
                     amount |-> Decimal(auth.value), name |-> DomainName]]

Payment == Auth(Alice, Shop, 2, 1)
Plain == Request(Payment, "65", "lower", 0)
OneRequest == {Plain}
\* Every shape of signature, every spelling of the terms, and terms that do
\* not agree with each other or with the authorization.
PaymentRequests ==
  {Request(Payment, shape, "lower", 0) : shape \in {"64", "blob", "6492", "torn"}}
  \cup {Request(Payment, "65", form, zeros) :
          form \in {"lower", "checksum", "upper"}, zeros \in {0, 1}}
  \cup {[Plain EXCEPT !.scheme = "permit2"],
        [Plain EXCEPT !.accepted.asset = Checksum(Bob)],
        [Plain EXCEPT !.accepted.name = "Tether"],
        [Plain EXCEPT !.sig.by = Bob],
        [Plain EXCEPT !.required.payTo = Checksum(Bob)],
        [Plain EXCEPT !.required.amount = Decimal(1)],
        [Plain EXCEPT !.auth.value = 1]}

\* Bytes of other payments and policies, and the row's own with one field off.
StrayBytes ==
  LET auth(from, to, value, nonce) == Auth(from, to, value, nonce)
      bytes(a, shape, overload, gas, max, by) ==
        [encoding |-> "canonical", type |-> 2, by |-> by, chainId |-> Base, nonce |-> 1,
         gas |-> gas, max |-> max, tip |-> 1, to |-> Token, value |-> 0, accessList |-> {},
         call |-> [overload |-> overload, auth |-> a, sig |-> Own(a, shape)]]
      own == bytes(Payment, "65", "vrs", 2, 3, Hot)
  IN  {bytes(a, "65", "vrs", 2, 3, Hot) :
         a \in {Payment, auth(Bob, Shop, 2, 1), auth(Alice, Bob, 2, 1), auth(Alice, Shop, 1, 1),
                auth(Alice, Shop, 2, 2)}}
      \cup {bytes(Payment, "65", "bytes", 2, 3, Hot), bytes(Payment, "65", "vrs", 4, 3, Hot),
            bytes(Payment, "65", "vrs", 2, 4, Hot), bytes(Payment, "65", "vrs", 2, 3, Cold),
            [own EXCEPT !.encoding = "padded"], [own EXCEPT !.chainId = Bob],
            [own EXCEPT !.to = Bob], [own EXCEPT !.value = 1], [own EXCEPT !.tip = 4],
            [own EXCEPT !.accessList = {Bob}], [own EXCEPT !.type = 1]}

PaymentStrays == {[bytes |-> b, txHash |-> b, nonce |-> b.nonce] : b \in StrayBytes}
NoStrays == {}

Fee(max, tip) == [max |-> max, tip |-> tip]
\* The last three: no estimate, a tip above the maximum, a maximum above every cap.
Estimates == {Fee(2, 1), Fee(3, 2), Fee(0, 0), Fee(2, 3), Fee(4, 1)}
==============================================================================
