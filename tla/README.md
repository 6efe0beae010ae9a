# A TLA+ model of cashr

cashr is a macOS menu-bar application that is three things at once: a Nostr signer that answers
remote clients (NIP-46), a Cashu wallet, and a wallet connect service that lets paired apps ask the
wallet to pay (NIP-47). What they share is the vault of unlocked keys and the user's attention.

This directory holds modules that model the parts of the code where order matters, the TLC runs that
check them on small instances, and proofs, checked by TLAPS, of the safety guarantees of nearly all of
them for every size of the system. `PROJECT.json` maps each definition to the lines it stands for.

## Inventory

| Part | Source | State | Operations | Model |
|---|---|---|---|---|
| policy | signer-core `policy.rs` | none (pure) | evaluate a request's scope against stored rules | `Policy` |
| trust store | signer-core `storage/*`, `pairing.rs` | clients, rules, activity, pairings (SQLite) | pair, revoke, remove, rules, app-wide switches, log, mint and consume pairings | `ClientStore` |
| session | signer-core `session.rs`, `request.rs` | deferred requests, answer cache, prompt gate | handle, connect, authorize, prompt, execute, seal | `Session` |
| runner | signer-core `runner.rs` | a task per account | listen, restart, replay what was deferred | `Session` |
| wallet spending | `wallet.rs` | approvals, epoch, gate, selected mint | review, pay, review and send a token, zap, select a mint, cancel, lock | `Wallet`, `Register` |
| wallet connect | `nwc/*` | connections, requests, claims (SQLite), prompts | pair, revoke, admit, ask, claim, pay, reply | `Nwc`, `Ledger` |
| wallet files | `wallet.rs` | a database per mint, the selected slot, recovery words, scan record | create, restore, add, select, open, search for funds | `WalletFiles` |
| wallet migration | `migration.rs` | directories, progress marker | take over an earlier app's data, convert it | `WalletFiles` |
| vault, key files, passphrase | `vault.rs`, `keyfile.rs`, `keystore.rs`, macos-native `passphrase.rs` | loaded keys, passphrase, sealed files | store, load, forget, recover | `Keys` |
| application state, accounts | `state.rs`, `commands.rs`, `storage/accounts.rs` | auth epoch, account rows | unlock, lock, create, restore, delete, migrate from the Keychain, forget the Keychain | `Keys` (and as `Session` and `Wallet` see it) |
| receiving | `wallet/receiving.rs`, `npubcash.rs` | quotes, retry records, saved addresses | enable, discover, sync, collect | `Receiving` |
| username purchase | `wallet/username.rs`, `npubcash/username.rs` | approval, journal, a send operation | review, claim, submit, retry, reclaim, refresh | `Username`, `Escrow` |
| relay transport | relay-transport | sockets, authentication, queues | connect, authenticate, publish, retry, ping | `Relay` |
| macOS bindings, window, tray, pages | macos-native, `window.rs`, `ui/` | none that decides | show, notify, scan | not modelled |

How they interact. A relay hands events to an account's listener, a task that calls
`Session::handle`. Without the keys the session defers the event; `unlock` loads keys and runs the
replay loop, a second task that calls `handle` for what was deferred, while listeners go on.
`pair_client` is a third caller. All prompts go through one gate, and all of them write one SQLite
store, one statement or transaction at a time. Wallet commands and wallet connect handlers run
concurrently and share the wallet's gate; `lock` and `wallet_cancel` do not take it. The same gate
serializes unlock, account creation and deletion, the username commands and background receiving.
Prompts are answered from the window or from notifications.

What is hard, and what makes it correct:

* signer: a pairing must admit one client although three workers may present its secret; a
  revocation must hold whatever is in flight; nothing may be signed without a record; a request must
  not be lost or hang although locks, restarts and other prompts intervene;
* wallet: what is paid must be what was shown, once, and not after a lock, although the lock command
  works in three steps beside the gate;
* wallet connect: the relay redelivers, the app crashes: an invoice must not be paid twice, nor
  without leave, nor for a revoked connection;
* keys: unlock, create and delete are many awaits long, lock is three unsynchronized steps beside
  them, and each read and write may fail: a lock must win, no key may be lost or outlive its account;
* relay sockets: a relay refuses, challenges, answers late, goes silent: retries must be bounded and
  the connection must come back;
* username and receiving: a payment and a redemption across a network that loses answers and an app
  that dies: no second payment, no token out that is forgotten, nothing paid left uncollected;
* files: the conversion of old wallets is a dozen durable steps, and has to resume from each.

The hazards are listed one by one, at their lines, in `PROJECT.json`.

## Modules

```
Policy <- ClientStore <- Session <- MCSession    Ledger <- Nwc <- MCNwc
                            ^                               |
                      SessionProofs                         v
                                           Register <- Wallet <- MCWallet
WalletProofs extends Wallet, and NwcProofs extends Nwc and WalletProofs
Escrow <- Username <- MCUsername, UsernameProofs
Keys <- MCKeys, KeysProofs                      WalletFiles <- MCWalletFiles, WalletFilesProofs
Relay <- MCRelay, RelayProofs                   Receiving <- MCReceiving, ReceivingProofs
```

**Policy.** A scope is a method and, for signing, a kind. `Evaluate` prefers the rule for the exact
scope to the one for the whole method, as `PolicySet::evaluate` does.

**ClientStore.** Each table is a set or a function; each storage method is an action, because each is
one statement or transaction under the storage mutex. `StoreSpec` is the store with any caller: the
abstract specification that the session is shown to implement. `grants` and `issued` are history.

**Session.** A worker is a listener (one per account), the replay loop or `pair_client`. `pc[w]` is the
statement a worker is at and `job[w]` its local variables; one action is the code between two
points where another worker can be seen: an `await`, or a call into the store. `Receive` lets the
relay deliver any request at any time, also again. `vault` is the set of accounts with loaded keys,
`deferred` the queue, `replay` what the replay loop has drained, `answered` the answer cache.
Ages are abstracted to actions that make something stale (`DeferredGoesStale`, `ReplayGoesStale`,
`AnswerGoesStale`, `PairingTimesOut`). `Restart` is a crash at any point. `served` and `prompted`
are history.

Abstractions: cryptography is perfect; an event that does not open has no step. Names, relay lists
and log wording are left out. The activity row of `connect` itself is left out, since `connect` is
never authorized and a rule made from it never consulted. SQLite errors are not modelled. One replay
loop and one `pair_client` run at a time; for the loop this is what the code does, because `unlock`
holds the wallet's gate. A restarted listener takes over at once: that the aborted task may still run
to its next `await` beside its successor is not modelled.

**Wallet.** Commands are tasks; `pc` and `work` are as above. `Gated` steps need the gate.
`LockBegins`, `LockClears` and `LockEnds` are the three steps of the `lock` command. The mint and the
cdk library are external: a quote or a preparation fails or names any amount. A Cashu token send is a
review whose payee is `Token`; it differs in how it is recorded (`CheckSend` and `InsertSend` are two
steps, with room for a lock between) and in when its approval is checked. `issued` and `payments` are
history, and so is `bumped`, whether a lock began since the review was.

**Register** is what the wallet promises about approvals, with nothing of how: a handle is unused, open,
void or spent; it is spent once, while open; a lock turns every open one void in a single step. `Wallet`
instantiates it as `R` with `handleOf`: a handle is open while an approval of the current epoch for it
is in the maps or in the hands of a task (`Stands`), and spends are counted. So the lock's single step
is the one that moves the epoch; clearing the maps, emptying the vault and a token review inserted in
between change nothing that can be seen from outside.

**Nwc** extends `Wallet`: a handler is a task that runs `Wallet`'s review and payment steps and keeps
its own place in `job`. `table` and `claims` are what survives `NwcRestart`. The clock is explicit
because retention, age and skew are compared (`MaxAge + Skew <= Retain`, 300 + 30 <= 600 in the
code, is an assumption that TLC evaluates). An event's dates are checked before its handler is
spawned, and the model lets the handler begin before the clock moves (`NwcTick`); the code has 270 s
to spare. Reading the balance and answering `get_info` change nothing and are the method `other`.
`nwc_pair` is one step, though the mint is read before the row is written. Account deletion is not
modelled.

**Ledger** is what the service promises about invoices: one of an account is free, then claimed, then
paid, and never goes back. `Nwc` instantiates it as `L` with `billOf`, read off `claims` and the payments
made for connections, which are counted.

**Keys.** One command at a time holds the gate (`pc`, `job`: unlock, create or restore, delete), a
step per await, write or read of a store; each of them may fail, and then does what the code's `?` or
handler does: rows that cannot be read (`OpenKeys`) or written (`Settle`, `Restore`, `AddRow`), files that
cannot be loaded, written or moved back, a Keychain that refuses. What is read without an error is what
was written. `LockBegins` to `LockDropsPass` are the steps of the `lock` command (wallet epoch, auth
epoch, vault, passphrase), taken at any time, as are `forget_keychain`, `set_relays` and the launch,
whose listeners are started one by one from the rows as they were read (`starter`), if they were.
`ForgetUnread` is `forget_keychain` after a `needs_migration` that could not read the rows and so took
them for none. A transport key is
a number drawn in order, the identity key never changes and is left out; a key file is its transport
key and the passphrase that seals it. `job.backup` is `KeyFileRecovery`, put back when dropped
uncommitted and lost in a crash. History: `lockSeen`; `owned`, the accounts whose keys must be on disk;
`settled`, the accounts whose last unlock or creation succeeded. Initial states are installs of
any age: keys sealed with a typed passphrase or the device's, in the Keychain, or in both.

**Relay.** One account's pool. A connection task is a loop over `select!`; an action is one arm with
the rest of the iteration: `tick`, the health shown, the writes. `Challenged`, `AuthOk`, `EventOk`,
`SubscriptionClosed`, `Ticked` and `Retry` are `RelaySession` as pure operators on the session record;
each gives the next session and what is to be written, as counts: how often the subscription, how often
each event, and the challenges answered. The order of writes within one iteration is left out.
The relay may send anything at any time about what the wire has carried (`wire`, history). Timers
are nondeterministic. That an event expired, a signature failed or `AUTH_TIMEOUT` passed are choices.

**Escrow** and **Username.** `Escrow` is what a purchase promises about money: a sum goes out only while
no other sum is out or spent, and it is paid or comes back, never both. `Username` is the commands, a
step per await, with the journal (`record`), the cdk send operation behind it (`saga`) and a provider
that may redeem a token long after the claim was sent and whose answer may be lost. `E` instantiates
`Escrow` with `fundsOf`, what has become of each operation's sum seen from outside, and `EscrowSpec`
says that every step of `Username` is a step of `Escrow` or none. The cdk operations (`Release`,
`Revoke`, `CheckSendStatus`, `RecoverSagas`) are external and modelled from how the code uses them.
An approval's epoch and expiry are two flags, `moved` and `old`.

**Receiving.** The holder of the gate is the background loop, `wallet_open` or `wallet_enable_address`;
a refresh is discover, sync, the address, then one quote after another: `Pick` saves the attempt,
`Contact` and `MintQuote` ask the mint, `Conclude` removes or settles the retry record. A retry's
`wait` counts down in units of the first delay. `tries` and `since` are history.

**WalletFiles.** One identity's files. A database is which name, key and table names it has (old or
new), whether it has its recovery words, its scan record, and whether it holds proofs; `remote` is
what a mint could still give back. `LaunchCopies` to `Publish` are `copy_previous`; `Seal` to
`Converted` are `convert`, which every command runs first; the rest are the steps of the wallet
commands. `Crash` and `StepFails` may come between any two. Two identities' files do not meet and one
is modelled; a file that conflicts with a converted name is the code's error path and not reachable.

## Runs

Each MC module cuts the next-state relation into slices that put the actors of one question
together. Bounds are in the `.cfg` files.

| Run | Checks | Bounds, and why they are enough |
|---|---|---|
| `session_consent` | `FlagsAgree`, `RevokedNeverServed`, `ServedIsLogged`, `RevocationSticks` | one client, already paired, with a spare pairing: every command, prompt answer, pairing and restart interleaved with its request |
| `session_pairing` | `OneClientPerPairing`, `SessionInv`, `GrantFitsPairing`, `StoreSpec` | one account, one pairing, two keys, three workers: the smallest race for a secret, with deferral; that a pairing fits its account too is left to the proof |
| `session_workers` | `GateHeldByPrompt`, `EveryRequestEnds` | two listeners and the replay loop on one gate, two deferred requests |
| `wallet_spend` | `WalletInv`, `ReviewPaysOnce`, `PaidAsReviewed`, `RegisterSpec` | two tasks, two reviews, both payees, two mints, two prices, the clock past expiry, one move of the epoch by a lock or a mint change |
| `nwc_payments` | `NwcInv`, `EachInvoicePaidOnce`, `AnsweredIsNeverPaid`, `NoSpendAfterRevoke`, `AdmittedOnce`, `LedgerSpec` | two connections asking for one invoice, one of them in an event dated ahead, and one request that is no payment; two reviews, two handlers, the rate limit reached by the second request, a lock, any number of crashes and redeliveries |
| `relay_socket` | `RelayInv`, `RetriedOnce`, `AcceptedForItsChallenge`, `RefusalStaysShown`, `DeafLineIsDropped`, `ChallengeResumes`, `Reconnects` | one relay (tasks share nothing but the inbox), two challenges and two attempts so that a late answer meets a newer challenge and the limit is reached, one pending publication and queues of one so that they overflow, two publications |
| `keys_unlock` | `KeysInv`, `LockedStaysLocked`, `LoadedKeyIsPublished`, `KeyIsKept` | an account every command is about and one that is unlocked with it, one new transport key beside the old, any number of locks, failures and crashes |
| `username_purchase` | `UsernameInv`, `SentTokenIsJournalled`, `EscrowSpec` | two names, two send operations (the second is the one that must wait), two mints, free and paid names, a fee or none |
| `receiving_collect` | `ReceivingTypeOK`, `BackoffIsKept`, `PaidIsCollected` | one wallet, one quote whose mint never answers again and one whose does, two doublings and a cap the second one meets |
| `wallet_files` | `WalletsStayReachable`, `ConvertedMeansAll`, `PartialScanResumes` | the original wallet and two others, two batches of funds so that a search can be cut in the middle |

`SessionInv`, `WalletInv`, `NwcInv`, `RelayInv`, `KeysInv` and `UsernameInv` are the module's types together
with one invariant about the code: `PairedBySecret` (no client without a pairing), `LockVoidsReviews` (no
payment for a review that a lock has passed over), `EverySpendApproved` (no payment of a connection without
the user's answer), `NothingWaitsAuthenticated` (an authenticated socket has nothing left to retry),
`KeysHaveAnAccount` (no key without its row) and `NameTokenHidden` (no token of a purchase on show). Their
mutants break that part. `FlagsAgree` is `RemovedIsRevoked` and `SwitchesNeedAccess`.

Slices leave out only what does not matter to the question: in `relay_socket` requests for the account
arrive on a quiet socket, since they touch nothing but the inbox; in `receiving_collect` the provider's
settings change until a mint falls silent; in `keys_unlock`, `forget_keychain` takes its steps beside the
commands while listeners are started in a slice of their own (`Keys_deaf_listener.cfg`), since the two have
no variable in common. `session_consent` defers nothing: what is deferred is left to
`session_pairing` and to the proof of `RevokedNeverServed`. The clock of `nwc_payments` ends before
rows are properly pruned: pruning too early breaks `AdmittedOnce` within it, and the general case is its
theorem. Symmetry is used for client keys, mints, names, review
handles and tasks, and only in runs without liveness properties. Deadlock is checked in every run.

### Fairness

* `Session` (`session_workers`): weak fairness of every step of a worker and of the replay loop, since
  tokio polls ready tasks; strong fairness of taking the prompt gate, since a tokio mutex queues its
  waiters in order; weak fairness of the end of a prompt, since `request_timeout` bounds it. Nothing
  is assumed of the user, the relays or the lock.
* `Relay`: weak fairness of connecting to a relay that accepts connections, of the one-second ticker and of
  the ping timer: timers fire, and `select!` chooses at random among ready arms. Nothing is
  assumed of what the relay sends.
* `Receiving`: weak fairness of the step at hand, since awaits return (the HTTP clients time out), and of the
  clock; strong fairness of the loop's turn, since `try_lock` fails while the window holds the gate but
  no command holds it for good; strong fairness of the answers of mints that are not silent, so that
  such a mint answers one of infinitely many requests.

### Refinement

`StoreSpec`: every step of `Session` is a step of `ClientStore` (checked and proved).
`EscrowSpec`: every step of `Username` is a step of `Escrow` (checked and proved).
`RegisterSpec`: every step of `Wallet`, and of `Nwc`, is a step of `Register` (checked for `Wallet` without
crashes, proved for both with them). `LedgerSpec`: every step of `Nwc` is a step of `Ledger` or none (checked and proved).

### Where the code and its comments differ

Two runs check what a comment says, and TLC shows a behaviour of the code that does otherwise. The
quotations are in `PROJECT.json`.

* `session_deferred_lost`: unlocking one account drops what was deferred for the others.
* `username_stranded`: if the name becomes the user's while a token for it is created and unsent, the
  refresh that begins each command confirms the purchase, and the branch of `submit` that would
  return the token is not reached again.

### Known behaviours

Properties that TLC refutes, kept with a cfg each because they state what one might expect of the code.
They are not in the list of runs.

* `Session_lost_wakeup.cfg`: a request tested against the vault just before an unlock and queued just
  after it waits for a replay that does not come (`NothingWaitsForAReplay`).
* `Session_prompted_twice.cfg`: a redelivery met while the first copy is being prompted is prompted for
  too (`RedeliveryPromptsOnce`).
* `Session_stale_replay.cfg`: requests are replayed however long the prompts before them took
  (`ReplaysOnlyFresh`).
* `Session_shared_cache.cfg`: the answer cache ignores the account (`AnswersStayWithTheirAccount`).
* `Nwc_claim_cancelled.cfg`: after the claim, an expiry or a lock still cancels the payment, and the
  claim stays (`ClaimIsNotCancelled`).
* `Keys_deaf_listener.cfg`: a restore cut short after it replaced the key file and then repeated leaves
  the listener on the old transport key until the next launch (`ListensForLoadedKey`).
* `Keys_failed_settle.cfg`: after a restore cut short, `unlock_with` loads the new key and then writes
  the row, to "complete a recovery interrupted" (`state.rs:348`). If that write (`state.rs:350`) fails,
  the unlock returns an error, nothing is locked, and the account stays loaded under a key that its row
  does not name, until the next unlock or lock (`NothingElseIsLoaded`).
* `Keys_forget_unread.cfg`: `forget_keychain` refuses while anything is unmigrated, so that it "can never be
  the step that loses a key" (`state.rs:415`). `needs_migration` takes a failed read of the rows for no
  accounts (`state.rs:199`); if the read after it succeeds, the only copy is deleted
  (`ForgettingLosesNoKey`).
* `WalletFiles_restore_stuck.cfg`: if the app dies between publishing the wallet file and saving its
  words, the repeated restore refuses the file (`RestoreCanBeRepeated`).

## Proofs

The theorems hold for any sets of accounts, keys, mints, requests, tasks and so on, and for any value of
the bounds. They assume what the modules' named `ASSUME`s say: that placeholder values (`NoKey`,
`NoJob`, ...) are not among the things they stand in for, that bounds are numbers, that requests are well
formed, and in `Nwc` that rows are retained for as long as an event can be taken from the relay
(`MaxAge + Skew <= Retain`) and that an event's id determines it. `Receiving` also
assumes that powers of two are natural numbers, which the provers do not know. TLC evaluates them in every run.

Every proof has one shape: an invariant that is inductive, a lemma per action that it is kept, and the
theorems as consequences. None of the properties is inductive alone. What had to be added:

* `SessionProofs`, in this order:
  * `StoreSafe`, `StoreRevocationSticks`, of the store with any caller. `StoreInv` (types, removed clients
    are revoked, the switches exclude each other and revocation) is inductive under its operations.
  * `SessionTypes`. The inductive invariant adds to the types what a worker's local variables are at
    each label (a worker past the pairing check has a pairing, a prompting worker a client), without
    which the types of the next labels do not follow.
  * `SessionImplementsStore`: every step of the session is a `StoreNext` step or leaves the store
    alone. `SessionRevocation` then follows from the store's theorems alone.
  * `OnePromptAtATime`: `GateHeldByPrompt` is inductive on the typed states.
  * `PairingIsOneShot`, `PairingFitsItsClient`, `ClientsWerePaired`. `PairInv` adds that grants name
    consumed pairings only, that ids of pairings are not reused (`issued`), and that a worker between
    finding a pairing and inserting its client holds one that fits it.
  * `ServedOnlyWithConsent`, `ServiceIsLogged`. `ServeInv` adds that a worker past authorization carries
    a client that was not revoked when the request was looked up, and whose activity row is written.
* `WalletProofs`. `SpendInv`: a task at a gated label holds the gate (`TaskInv`); a review is a row, in
  one task's hands or paid for, never two of these (`OnceInv`, for `HandleIsOneShot`); what a task or a
  row asks for is covered by a review that was shown (`MatchInv`, for `SpendIsWhatWasShown`); what a
  lock has passed over has an epoch that is no longer current, wherever it is by now (`LockInv`, for
  `LockVoidsEveryReview`). The lemmas are about one task's step, so that `NwcProofs` can use them.
  `WalletImplementsRegister` follows from the same invariant: `OnceInv` makes the four states of a handle
  exclude each other, `TaskInv` shows that nobody has an approval in hand when a mint change moves the
  epoch behind the gate, and `LockInv` that what was in the maps or in hand when a lock begins is of
  an epoch that has gone.
* `NwcProofs`. `SpendInv` carries over, and `ServiceInv` says how a handler's place goes with its task in
  the wallet (`HandlerInv`, for `NothingIsSpentUnasked` and `RevocationStopsSpending`: the last look at
  the connection is made with the gate held, and revoking needs the gate); that an invoice is claimed
  before it is paid and by one handler (`ClaimInv`, for `ClaimsMakeInvoicesUnique`); that no two handlers
  past the head of `handle` have one request, and none of theirs is answered (`AnswerInv`, for
  `AnswersComeLast`); that an admitted request is on record until it is too old (`AdmittedInv`, for
  `RequestsAreNewOnce`). `ServiceImplementsRegister` adds the handlers' steps to the lemmas of the wallet;
  `ServiceImplementsLedger` rests on `ClaimInv`, and on `HandlerInv` for which task a payment is made by.
* `KeysProofs`. `KeptInv`: what a command's place says of its accounts (`CommandInv`: one account unless
  it unlocks, whose row stays until the command returns, which holds because the gate keeps other
  commands out); where keys may be at each place of a creation and a deletion, and that accounts whose
  Keychain copy is being forgotten have a file or are not owned (`PlaceInv`, for `KeysStayWithTheirAccount`
  and `OnlyDeletionLosesAKey`); that the keys the running command has loaded are the ones its accounts'
  rows name, except for accounts an unlock has still to settle, and that it leaves settled accounts
  of others alone (`LoadInv`, for `RowNamesTheLoadedKey`); and that after a lock
  only a command which has still to compare the epochs can have anything loaded (`LockInv`, for
  `LockWins`).
* `UsernameProofs`. `PurchaseInv`: whether there is a journal entry at each place (`TypeInv`), how far the
  operation in hand has got (`SendInv`), and that a token which went out is spent, back, or the journal's
  (`LedgerInv`). `ExposedTokenIsJournalled` and `PurchaseTokensStayHidden` follow, and with the invariant
  `PurchaseImplementsEscrow`: each step maps to a step of `Escrow` or to none. An order goes out only
  when no other is out or spent because the journal has room for one.
* `WalletFilesProofs`. `FilesInv`: where the data is and how much of a copy is done (`PlaceInv`), what a
  command's place says of it (`JobInv`), that all databases but those still to do are converted, and the
  one in hand as far as it came (`SlotInv`), that a search begun is on record (`ScanInv`). `NoWalletIsLost`,
  `MarkMeansConverted` and `ScanFindsAll` follow.
* `RelayProofs`. `SocketInv`: for every socket, what was written fits its session. For
  `RetriesAreBounded`, the writes of an event and the pending copies of it that may still be sent again
  are together at most twice the publications (`Counted`); that a session's pending events lose places
  and change flags without ever adding a copy is shown with injections between finite sets. For
  `AuthenticationFitsChallenge`, the AUTH waited for answers the challenge that stands, so that an
  answer to an earlier one does not match (`Answering`). For `NothingIsLeftWaiting`, an authenticated
  session is settled after every iteration, although not in the middle of one: the lemmas carry a
  session through `receive`, `tick` and the writes. For `RefusalsStayShown`, the health of an open
  socket is its session's trouble.
* `ReceivingProofs`. `CollectInv` adds to the types that the retry record of a quote counts the attempts
  made at it, and that what is left of its delay and the time since the last attempt make up the delay
  (`Recorded`), which saving the record before the mint is asked keeps over a crash:
  `BackoffSurvivesRestarts`. `CollectionTypes` also needs that the provider's settings are only read
  for a wallet in hand.

The inductive invariants were checked with TLC on the instances of the runs before they were proved.

Only model-checked: liveness (`EveryRequestEnds`, `DeafLineIsDropped`, `ChallengeResumes`, `Reconnects`,
`PaidIsCollected`), which is out of this prover's reach. Every invariant and action property of
the passing runs is stated by a theorem.

## Plan

1. `Username`'s approval as a second implementation of `Register`.
2. `Keys` composed with `Session`: requests deferred by a listener that a restore replaces.

## Not modelled

Cryptography and encodings; the cdk library, mints and npub.cash beyond what the code relies on
(external); SQLite failures in `Session`; the content of prompts and views; window, tray, QR codes,
camera and notifications, which hold no state the modules depend on; profile pictures and names
fetched from relays; the wallet connect's own relay socket (the heartbeat and reconnect loop of
`Relay` without authentication); the retention of the activity log; a wall clock that runs backwards.
