------------------------------- MODULE Access -------------------------------
(***************************************************************************)
(* API clients, their keys and their payee policy: the client tables of    *)
(* the journal database, the administrative commands that change them, and *)
(* the queries a request makes of them.                                    *)
(*                                                                         *)
(* A command that is one SQL statement is one step.  The two commands that *)
(* run several statements in a transaction (rotate, revoke) take one step  *)
(* per statement, under PostgreSQL's READ COMMITTED rules: a statement     *)
(* sees the rows committed when it starts, an UPDATE waits for the         *)
(* transaction that holds a row it wants and then tests its WHERE clause   *)
(* again on the new version, and a row inserted after the statement        *)
(* started is not seen.  A client's daily budget, which set_client_budget  *)
(* changes, is read by the claim only: see ClientLimits of Journal.        *)
(***************************************************************************)
EXTENDS Integers, FiniteSets

CONSTANTS
    Clients,        \* client ids an operator may create
    Keys,           \* key prefixes the generator may draw, never twice
    Admins,         \* x402-near-admin processes
    Environments,   \* deployment tiers
    Networks,       \* [CAIP-2 network -> its tier]
    Tier,           \* the tier of this deployment
    Network,        \* the network of this deployment
    Eip155,         \* the networks with case-insensitive addresses
    Asset,          \* the configured asset, as spelt in the configuration
    Addresses,      \* spellings of assets and payees: [name, upper]
    MaxPayees,      \* bound on the rows of the payee policy
    NoClient, NoKey

ASSUME AccessAssumption ==
    /\ DOMAIN Networks \subseteq STRING
    /\ \A n \in DOMAIN Networks : Networks[n] \in Environments
    /\ Network \in DOMAIN Networks
    /\ Networks[Network] = Tier
    /\ Asset \in Addresses
    /\ NoClient \notin Clients /\ NoKey \notin Keys
    /\ Clients \cap Keys = {}

VARIABLES
    clients,        \* api_clients: committed rows
    keys,           \* api_keys: committed rows
    payees,         \* api_client_payees
    admin           \* the command each admin process is running

access == <<clients, keys, payees, admin>>

(***************************************************************************)
(* Rows and transactions                                                   *)
(***************************************************************************)
Unborn == [status |-> "none", environment |-> Tier]
NoRow  == [status |-> "none", client |-> NoClient]
Idle   == [pc |-> "idle", client |-> NoClient, key |-> NoKey,
           seen |-> {}, locks |-> {}, revokes |-> FALSE]

AccessInit ==
    /\ clients = [c \in Clients |-> Unborn]
    /\ keys = [k \in Keys |-> NoRow]
    /\ payees = {}
    /\ admin = [a \in Admins |-> Idle]

IsActive(c)   == clients[c].status = "active"
KeysOf(c)     == {k \in Keys : keys[k].status = "active" /\ keys[k].client = c}
Held(a)       == UNION {admin[b].locks : b \in Admins \ {a}}
Drawn         == {admin[a].key : a \in Admins}
FreshKeys     == {k \in Keys \ Drawn : keys[k].status = "none"}
Revoked(ks)   == [k \in Keys |-> IF k \in ks THEN [keys[k] EXCEPT !.status = "revoked"]
                                            ELSE keys[k]]
Tables == <<clients, keys, payees>>

(***************************************************************************)
(* create_client: both rows become visible when the transaction commits.   *)
(***************************************************************************)
CreateClient(a) ==
    /\ admin[a].pc = "idle"
    /\ \E c \in Clients, k \in FreshKeys, e \in Environments :
        /\ clients[c].status = "none"
        /\ clients' = [clients EXCEPT ![c] =
              [status |-> "active", environment |-> e]]
        /\ keys' = [keys EXCEPT ![k] = [status |-> "active", client |-> c]]
    /\ UNCHANGED <<payees, admin>>

(***************************************************************************)
(* The rotate command: read the client's tier, draw a key, then            *)
(* rotate_client_key: test that the client is active, revoke the active    *)
(* keys, insert the new one, commit.                                       *)
(***************************************************************************)
StartRotate(a) ==
    /\ admin[a].pc = "idle"
    /\ \E c \in Clients, k \in FreshKeys :
        /\ IsActive(c)
        /\ admin' = [admin EXCEPT ![a] =
              [Idle EXCEPT !.pc = "check", !.client = c, !.key = k]]
    /\ UNCHANGED Tables

CheckClient(a) ==
    /\ admin[a].pc = "check"
    /\ admin' = [admin EXCEPT ![a] =
          IF IsActive(@.client) THEN [@ EXCEPT !.pc = "scan"] ELSE Idle]
    /\ UNCHANGED Tables

(* UPDATE api_keys ... WHERE client_id = $1 AND status = 'active': the      *)
(* statement's snapshot, then the rows still active once no other           *)
(* transaction holds them.                                                  *)
ScanKeys(a) ==
    /\ admin[a].pc = "scan"
    /\ admin' = [admin EXCEPT ![a].pc = "update", ![a].seen = KeysOf(admin[a].client)]
    /\ UNCHANGED Tables

UpdateKeys(a) ==
    /\ admin[a].pc = "update"
    /\ admin[a].seen \cap Held(a) = {}
    /\ admin' = [admin EXCEPT
          ![a].pc = "commit",
          ![a].locks = @ \cup {k \in admin[a].seen : keys[k].status = "active"}]
    /\ UNCHANGED Tables

CommitRotate(a) ==
    LET t == admin[a] IN
    /\ t.pc = "commit" /\ t.key # NoKey
    /\ keys' = [Revoked(t.locks) EXCEPT ![t.key] =
                  [status |-> "active", client |-> t.client]]
    /\ admin' = [admin EXCEPT ![a] = Idle]
    /\ UNCHANGED <<clients, payees>>

(***************************************************************************)
(* revoke_client: revoke the client row (waiting for another transaction   *)
(* that holds it), then the keys, then commit both.                        *)
(***************************************************************************)
StartRevoke(a) ==
    /\ admin[a].pc = "idle"
    /\ \E c \in Clients :
        /\ clients[c].status # "none"
        /\ c \notin Held(a)
        /\ admin' = [admin EXCEPT ![a] =
              [Idle EXCEPT !.pc = "scan", !.client = c, !.revokes = IsActive(c),
                           !.locks = IF IsActive(c) THEN {c} ELSE {}]]
    /\ UNCHANGED Tables

CommitRevoke(a) ==
    LET t == admin[a] IN
    /\ t.pc = "commit" /\ t.key = NoKey
    /\ keys' = Revoked(t.locks \cap Keys)
    /\ clients' = IF t.revokes
                  THEN [clients EXCEPT ![t.client].status = "revoked"] ELSE clients
    /\ admin' = [admin EXCEPT ![a] = Idle]
    /\ UNCHANGED payees

(* A command that loses its connection before COMMIT rolls back.            *)
Abort(a) ==
    /\ admin[a].pc # "idle"
    /\ admin' = [admin EXCEPT ![a] = Idle]
    /\ UNCHANGED Tables

(***************************************************************************)
(* Payee policy                                                            *)
(***************************************************************************)
Lower(address) == [address EXCEPT !.upper = FALSE]
Stored(network, address) == IF network \in Eip155 THEN Lower(address) ELSE address

(* allow-payee: the client must be active and the network of its own tier.  *)
(* The two statements are separate transactions; a revocation between them  *)
(* only leaves a row of a revoked client, so one step stands for both.      *)
AllowPayee(a) ==
    /\ admin[a].pc = "idle"
    /\ \E c \in Clients, n \in DOMAIN Networks, asset, p \in Addresses :
        LET row == [client |-> c, network |-> n,
                    asset |-> Stored(n, asset), payTo |-> Stored(n, p)] IN
        /\ IsActive(c)
        /\ Networks[n] = clients[c].environment
        /\ row \notin payees
        /\ Cardinality(payees) < MaxPayees
        /\ payees' = payees \cup {row}
    /\ UNCHANGED <<clients, keys, admin>>

SameAddress(network, stored, asked) ==
    IF network \in Eip155 THEN Lower(stored) = Lower(asked) ELSE stored = asked

(* Plausible bug: addresses are compared as spelt.                          *)
PayeeAllowed_Exact(c, network, asset, payTo) ==
    \E r \in payees : /\ r.client = c /\ r.network = network
                      /\ r.asset = asset /\ r.payTo = payTo

PayeeAllowed(c, network, asset, payTo) ==
    \E r \in payees : /\ r.client = c /\ r.network = network
                      /\ SameAddress(network, r.asset, asset)
                      /\ SameAddress(network, r.payTo, payTo)

ActiveClientsHavePayeePolicy ==
    /\ \E c \in Clients : IsActive(c)
    /\ \A c \in Clients : IsActive(c) =>
          \E r \in payees : /\ r.client = c /\ r.network = Network
                            /\ SameAddress(Network, r.asset, Asset)

(***************************************************************************)
(* Authentication: the lookup joins the key with its client, and both must *)
(* be active; the client must belong to the deployment's tier.  Headers    *)
(* and digests are abstracted to the key they name: an unknown or          *)
(* malformed key is NoKey.                                                 *)
(***************************************************************************)
(* Plausible bug: the status of the client is not looked at.                *)
LookupApiKey_KeyOnly(k) == k # NoKey /\ keys[k].status = "active"

LookupApiKey(k) ==
    /\ k # NoKey
    /\ keys[k].status = "active"
    /\ clients[keys[k].client].status = "active"

Authenticates(k) ==
    LookupApiKey(k) /\ clients[keys[k].client].environment = Tier

AdminStep ==
    \E a \in Admins :
        \/ CreateClient(a) \/ StartRotate(a) \/ CheckClient(a) \/ ScanKeys(a)
        \/ UpdateKeys(a) \/ CommitRotate(a) \/ StartRevoke(a) \/ CommitRevoke(a)
        \/ Abort(a) \/ AllowPayee(a)
=============================================================================
