----------------------------- MODULE ClientStore -----------------------------
(***************************************************************************)
(* The signer's durable trust state: paired clients, their stored rules,   *)
(* the activity log and pending pairings (crates/signer-core/src/storage). *)
(*                                                                         *)
(* Every operation is one SQLite statement or transaction behind the       *)
(* storage mutex, so each is one action.  What is left out of a row is     *)
(* what nothing decides on: names, first_seen, last_seen, log wording.     *)
(***************************************************************************)
EXTENDS Policy, FiniteSets

CONSTANTS
    Accounts,
    PubKeys,        \* client public keys
    PairingIds,     \* identities of pairings; bounds how many are ever minted
    ClientSecrets,  \* secrets a client may put in a nostrconnect:// URI
    NoKey           \* a pairing that does not name its client

ASSUME StoreAssumption ==
    /\ NoKey \notin PubKeys
    /\ PairingIds \cap ClientSecrets = {}

VARIABLES
    known,      \* clients with a row
    revoked,    \* revoked_at is set
    removed,    \* removed_at is set
    allowAll,   \* allow_all = 1
    denyAll,    \* deny_all = 1
    rules,      \* the policies table
    activity,   \* the activity rows that name a client
    pairings,   \* the pairings table
    consumed,   \* pairings whose consumed_at is set
    expired,    \* pairings whose expires_at has passed
    issued,     \* history: pairings ever inserted
    grants      \* history: which client each consumed pairing admitted

clientVars == <<known, revoked, removed, allowAll, denyAll, rules>>
pairingVars == <<pairings, consumed, expired, issued, grants>>
storeVars == <<clientVars, activity, pairingVars>>

\* UNIQUE (account_id, public_key): a client is known per account.
Clients == Accounts \X PubKeys

ActivityRows ==
    [client : Clients, scope : RuleScopes, outcome : {"allowed", "refused"}]

\* mint_bunker_uri draws a fresh random secret, modelled by the pairing's own
\* identity; a client chooses its own and may repeat any secret it has seen.
Secrets == PairingIds \cup ClientSecrets

PairingRows ==
    [id : PairingIds, account : Accounts, secret : Secrets, client : PubKeys \cup {NoKey}]

Grants == [id : PairingIds, client : Clients]

StoreTypeOK ==
    /\ known \subseteq Clients /\ revoked \subseteq known /\ removed \subseteq known
    /\ allowAll \subseteq known /\ denyAll \subseteq known
    /\ rules \in [Clients -> [RuleScopes -> Verdicts]]
    /\ activity \subseteq ActivityRows
    /\ pairings \subseteq PairingRows
    /\ consumed \subseteq PairingIds /\ expired \subseteq PairingIds
    /\ issued \subseteq PairingIds
    /\ grants \subseteq Grants

StoreInit ==
    /\ known = {} /\ revoked = {} /\ removed = {} /\ allowAll = {} /\ denyAll = {}
    /\ rules = [c \in Clients |-> NoRules]
    /\ activity = {}
    /\ pairings = {} /\ consumed = {} /\ expired = {} /\ issued = {} /\ grants = {}

-----------------------------------------------------------------------------
(* Clients and rules *)

\* The WHERE clause of the app-wide switches.
Active(c) == c \in known \ (revoked \cup removed)

\* Storage::policy_set: the flags count only while the client is active, the
\* rules are read either way.
PolicySet(c) ==
    [rules |-> rules[c],
     allowAll |-> Active(c) /\ c \in allowAll,
     denyAll |-> Active(c) /\ c \in denyAll]

\* Mutant: pairing again reinstates a revoked client.
UpsertReinstates(c) ==
    /\ known' = known \cup {c}
    /\ removed' = removed \ {c}
    /\ revoked' = revoked \ {c}
    /\ UNCHANGED <<allowAll, denyAll, rules>>

\* Storage::upsert_client: clears removed_at, never revoked_at.
UpsertClient(c) ==
    /\ known' = known \cup {c}
    /\ removed' = removed \ {c}
    /\ UNCHANGED <<revoked, allowAll, denyAll, rules>>

SetClientAllowAll(c, allow) ==
    /\ Active(c)
    /\ allowAll' = IF allow THEN allowAll \cup {c} ELSE allowAll \ {c}
    /\ denyAll' = denyAll \ {c}
    /\ UNCHANGED <<known, revoked, removed, rules>>

DenyClientActions(c) ==
    /\ Active(c)
    /\ allowAll' = allowAll \ {c}
    /\ denyAll' = denyAll \cup {c}
    /\ UNCHANGED <<known, revoked, removed, rules>>

\* The flags and the policies rows of a client go in one transaction.
ClearConsent(c) ==
    /\ allowAll' = allowAll \ {c}
    /\ denyAll' = denyAll \ {c}
    /\ rules' = [rules EXCEPT ![c] = NoRules]

ForgetClientRules(c) ==
    /\ Active(c)
    /\ ClearConsent(c)
    /\ UNCHANGED <<known, revoked, removed>>

\* Mutant: the app-wide switches survive the revocation.
RevokeKeepsSwitches(c) ==
    /\ c \in known \ revoked
    /\ revoked' = revoked \cup {c}
    /\ rules' = [rules EXCEPT ![c] = NoRules]
    /\ UNCHANGED <<known, removed, allowAll, denyAll>>

RevokeClient(c) ==
    /\ c \in known \ revoked
    /\ revoked' = revoked \cup {c}
    /\ ClearConsent(c)
    /\ UNCHANGED <<known, removed>>

RemoveClient(c) ==
    /\ c \in known
    /\ revoked' = revoked \cup {c}
    /\ removed' = removed \cup {c}
    /\ ClearConsent(c)
    /\ UNCHANGED known

\* set_rule and clear_rule look at nothing but the foreign key.
SetRule(c, s, d) ==
    /\ c \in known
    /\ rules' = [rules EXCEPT ![c][s] = d]
    /\ UNCHANGED <<known, revoked, removed, allowAll, denyAll>>

ClearRule(c, s) == SetRule(c, s, "none")

-----------------------------------------------------------------------------
(* The activity log *)

RecordActivity(c, s, o) ==
    activity' = activity \cup {[client |-> c, scope |-> s, outcome |-> o]}

\* remember_activity: turn a logged request of an active client into a rule.  A
\* sign_event row with no kind (a refusal) must not grant every kind.
RememberActivity(row) ==
    /\ row \in activity
    /\ Active(row.client)
    /\ row.scope # Scope(SignEvent, AnyKind)
    /\ SetRule(row.client, row.scope, "allow")

-----------------------------------------------------------------------------
(* Pairings *)

InsertPairing(row) ==
    /\ row.id \notin issued
    /\ pairings' = pairings \cup {row}
    /\ issued' = issued \cup {row.id}
    /\ UNCHANGED <<consumed, expired, grants>>

\* mint_bunker_uri: a random secret, open to whoever presents it first.
MintBunkerUri(a) ==
    \E i \in PairingIds :
        InsertPairing([id |-> i, account |-> a, secret |-> i, client |-> NoKey])

\* accept_client_uri: the client's own secret, good for that client only.
AcceptClientUri(a, p, s) ==
    \E i \in PairingIds :
        InsertPairing([id |-> i, account |-> a, secret |-> s, client |-> p])

\* Storage::usable_pairing: the rows its query matches.  It takes the first
\* one SQLite yields; the query fixes no order.
UsablePairings(s) ==
    {r \in pairings : r.secret = s /\ r.id \notin consumed \cup expired}

\* Mutant: the UPDATE does not ask for consumed_at IS NULL.
ConsumeAgain(i, c) ==
    /\ i \in {r.id : r \in pairings}
    /\ consumed' = consumed \cup {i}
    /\ grants' = grants \cup {[id |-> i, client |-> c]}
    /\ UNCHANGED <<pairings, expired, issued>>

\* Storage::consume_pairing: the UPDATE matches once, and does not look at the
\* expiry again.
ConsumePairing(i, c) ==
    /\ i \in {r.id : r \in pairings} \ consumed
    /\ consumed' = consumed \cup {i}
    /\ grants' = grants \cup {[id |-> i, client |-> c]}
    /\ UNCHANGED <<pairings, expired, issued>>

\* Time passing an unused pairing's expires_at (PAIRING_TTL after minting).
PairingExpires(i) ==
    /\ i \in {r.id : r \in pairings} \ (expired \cup consumed)
    /\ expired' = expired \cup {i}
    /\ UNCHANGED <<pairings, consumed, issued, grants>>

\* Storage::prune_pairings, on startup.
PrunePairings ==
    /\ pairings' = {r \in pairings : r.id \notin consumed \cup expired}
    /\ UNCHANGED <<consumed, expired, issued, grants>>

-----------------------------------------------------------------------------
(* The store on its own: its callers may make these calls in any order. *)

ClientCall(c) ==
    \/ UpsertClient(c)
    \/ \E allow \in BOOLEAN : SetClientAllowAll(c, allow)
    \/ DenyClientActions(c)
    \/ ForgetClientRules(c)
    \/ RevokeClient(c)
    \/ RemoveClient(c)
    \/ \E s \in RuleScopes, d \in Decisions : SetRule(c, s, d)
    \/ \E s \in RuleScopes : ClearRule(c, s)

PairingCall ==
    \/ \E a \in Accounts : MintBunkerUri(a)
    \/ \E a \in Accounts, p \in PubKeys, s \in Secrets : AcceptClientUri(a, p, s)
    \/ \E i \in PairingIds, c \in Clients : ConsumePairing(i, c)
    \/ \E i \in PairingIds : PairingExpires(i)
    \/ PrunePairings

\* A prompt's "always" answer writes the rule and the log row together, and a
\* step of the signer may touch the tables independently of each other.
StoreNext ==
    /\ (\E c \in Clients : ClientCall(c)) \/ (\E row \in activity : RememberActivity(row))
       \/ UNCHANGED clientVars
    /\ (\E row \in ActivityRows : RecordActivity(row.client, row.scope, row.outcome))
       \/ UNCHANGED activity
    /\ PairingCall \/ UNCHANGED pairingVars

StoreSpec == StoreInit /\ [][StoreNext]_storeVars

-----------------------------------------------------------------------------
(* Properties *)

\* "A removed client is always a revoked one" (client.rs): whatever mix of
\* removals and re-pairings, a row hidden from the list is never a live client.
RemovedIsRevoked == removed \subseteq revoked

\* The app-wide switches exclude each other and never outlive the access they
\* were given for: revoke and remove clear both, and nothing sets them again.
SwitchesNeedAccess == allowAll \cap denyAll = {} /\ (allowAll \cup denyAll) \cap revoked = {}

\* The flags of a client agree, whatever mix of pairings, rules, revocations and removals
\* made them: both of the above.
FlagsAgree == RemovedIsRevoked /\ SwitchesNeedAccess

\* "The revocation is the part that sticks" (upsert_client): no operation on the
\* tables, pairing again included, gives a revoked client its access back, and no
\* operation un-consumes a pairing.
RevocationSticks == [][revoked \subseteq revoked' /\ consumed \subseteq consumed']_storeVars
=============================================================================
