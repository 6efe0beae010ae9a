-------------------------------- MODULE Keys --------------------------------
(***************************************************************************)
(* Where an account's keys are (state.rs, vault.rs, keyfile.rs, the device *)
(* passphrase of macos-native): a row names the account's transport key, a *)
(* key file sealed with a passphrase holds the keys, an older copy may be  *)
(* in the Keychain, the vault holds them while the signer is unlocked, and *)
(* the Runner listens on the account's relays for that transport key.      *)
(*                                                                         *)
(* unlock, create_account (which also restores) and delete_account hold    *)
(* WalletService::gate, so one runs at a time, a step per await.  The lock *)
(* command, forget_keychain, set_relays and the listeners' launch do not,  *)
(* and the process may die anywhere.  The identity key never changes; the  *)
(* transport key is drawn anew by a restore.                               *)
(*                                                                         *)
(* Every step that reads or writes a row, a file or the Keychain may fail, *)
(* and then does what the code's `?` or handler does.  What is read is     *)
(* what was written: encryption is authenticated, files go by rename.      *)
(***************************************************************************)
EXTENDS Naturals, Sequences

CONSTANTS
    Accounts,
    NoKey,
    MaxKey,       \* bound on the transport keys ever drawn
    NoPass,
    Typed,        \* a passphrase an earlier version had the user type
    Device        \* the device's passphrase, behind Touch ID

ASSUME KeysAssumption ==
    /\ MaxKey \in Nat /\ NoKey \notin Nat
    /\ NoPass # Typed /\ NoPass # Device /\ Typed # Device

VARIABLES
    row,        \* the signer key of each account's row
    file,       \* each account's key file
    chain,      \* each account's copy in the Keychain
    vault,      \* the transport key each account's vault entry holds
    pass,       \* FileKeyStore::passphrase
    passFile,   \* PassphraseStore
    drawn,      \* how many transport keys have been drawn
    pool,       \* the key each account's connections listen for (RelayTransport)
    task,       \* the key each handle in Runner::tasks was spawned for
    pc, job,    \* the command that holds the gate
    starter,    \* set_relays or the launch, starting listeners
    locking,    \* how far the lock command has come
    forgetting, \* accounts whose Keychain copy forget_keychain still removes
    lockSeen,   \* history: a lock began since the last command took the gate
    owned,      \* history: accounts whose keys were stored, and neither deleted nor forgotten unread
    settled     \* history: accounts whose last unlock or creation has succeeded

keysVars == <<row, file, chain, vault, pass, passFile, drawn, pool, task, pc, job, starter,
              locking, forgetting, lockSeen, owned, settled>>

TransportKeys == 0 .. MaxKey
NoFile == [key |-> NoKey, seal |-> NoPass]
KeyFiles == [key : TransportKeys, seal : {Typed, Device}]

\* The accounts of a command, those still to do, and the one in hand; whether
\* AppState's and WalletService's epoch moved since it was read; the keys of the
\* account rows as read; KeyFileRecovery; where to go when all listen.
Jobs ==
    [op : {"none", "unlock", "create", "delete"}, who : SUBSET Accounts, todo : SUBSET Accounts,
     cur : Accounts \cup {NoKey}, moved : BOOLEAN, walletMoved : BOOLEAN,
     copy : [Accounts -> TransportKeys \cup {NoKey}], backup : KeyFiles \cup {NoFile},
     next : {"read", "end"}]

NoJob ==
    [op |-> "none", who |-> {}, todo |-> {}, cur |-> NoKey, moved |-> FALSE, walletMoved |-> FALSE,
     copy |-> [a \in Accounts |-> NoKey], backup |-> NoFile, next |-> "end"]

\* The account copies set_relays or the launch read, and the one being started.
Copies == Accounts \X TransportKeys
Starters ==
    [todo : SUBSET Copies, at : Copies \cup {<<>>} \cup {Append(c, "listening") : c \in Copies}]
NoStarter == [todo |-> {}, at |-> <<>>]

Labels ==
    {"idle", "present", "open", "migrate", "check", "read", "insert", "settle", "stop", "ensure",
     "listen", "note", "end", "prepare", "secret", "files", "keys", "restore", "store", "verify",
     "add", "addstore", "final", "dstop", "dfile", "dchain", "drow"}

KeysTypeOK ==
    /\ row \in [Accounts -> TransportKeys \cup {NoKey}]
    /\ file \in [Accounts -> KeyFiles \cup {NoFile}]
    /\ chain \in [Accounts -> TransportKeys \cup {NoKey}]
    /\ vault \in [Accounts -> TransportKeys \cup {NoKey}]
    /\ pool \in [Accounts -> TransportKeys \cup {NoKey}]
    /\ task \in [Accounts -> TransportKeys \cup {NoKey}]
    /\ pass \in {NoPass, Device} /\ passFile \in {NoPass, Device}
    /\ drawn \in TransportKeys
    /\ pc \in Labels /\ job \in Jobs
    /\ starter \in Starters
    /\ locking \in {"no", "auth", "vault", "pass"}
    /\ forgetting \subseteq Accounts /\ owned \subseteq Accounts /\ settled \subseteq Accounts
    /\ lockSeen \in BOOLEAN

Exists == {a \in Accounts : row[a] # NoKey}
Clear == [a \in Accounts |-> NoKey]

\* The launch reads every row, or fails to, and starts the listeners one by one.
Launch(rows) ==
    [NoStarter EXCEPT !.todo = {<<a, rows[a]>> : a \in {b \in Accounts : rows[b] # NoKey}}]

\* An install of any age: keys in a file sealed with either passphrase, in the
\* Keychain, or in both; the device has a passphrase if it has sealed a file.
KeysInit ==
    /\ owned \in SUBSET Accounts
    /\ row = [a \in Accounts |-> IF a \in owned THEN 0 ELSE NoKey]
    /\ \E where \in [owned -> {"typed", "device", "keychain", "both"}] :
          /\ file = [a \in Accounts |->
                IF a \in owned /\ where[a] # "keychain"
                THEN [key |-> 0, seal |-> IF where[a] = "typed" THEN Typed ELSE Device]
                ELSE NoFile]
          /\ chain = [a \in Accounts |->
                IF a \in owned /\ where[a] \in {"keychain", "both"} THEN 0 ELSE NoKey]
          /\ passFile \in IF \E a \in owned : where[a] \in {"device", "both"}
                          THEN {Device} ELSE {NoPass, Device}
    /\ vault = Clear /\ pool = Clear /\ task = Clear
    /\ pass = NoPass /\ drawn = 0
    /\ pc = "idle" /\ job = NoJob
    /\ starter \in {Launch(row), NoStarter}
    /\ locking = "no" /\ forgetting = {} /\ lockSeen = FALSE /\ settled = {}

-----------------------------------------------------------------------------
(* Commands that hold the gate *)

disk == <<row, file, chain, passFile, drawn, owned>>
memory == <<vault, pass, pool, task>>
aside == <<starter, locking, forgetting>>
history == <<lockSeen, settled>>

Enter(op, who, label) ==
    /\ pc = "idle"
    /\ pc' = label
    /\ job' = [NoJob EXCEPT !.op = op, !.who = who]
    /\ lockSeen' = FALSE
    /\ settled' = IF who = {} THEN {} ELSE settled \ who

Goto(label) == pc' = label /\ UNCHANGED <<job, history>>

\* The command returns, dropping what it held.
Return == pc' = "idle" /\ job' = NoJob /\ UNCHANGED history

\* AppState::lock, called by a command.
LockNow == vault' = Clear /\ pass' = NoPass

\* Runner::stop.
StopListening(a) ==
    /\ task' = [task EXCEPT ![a] = NoKey]
    /\ pool' = [pool EXCEPT ![a] = NoKey]

\* FileKeyStore: a file is sealed with the passphrase in memory, and replaced whole.
Stored(a, key) == [file EXCEPT ![a] = [key |-> key, seal |-> pass]]

\* load_many decrypts with the passphrase the file was sealed with, if the disk lets it.
Readable(a) == pass # NoPass /\ file[a] # NoFile /\ file[a].seal = pass

\* unlock_with_touch_id; who is one account, or none for all of them.
Unlock(who) ==
    /\ passFile # NoPass
    /\ Enter("unlock", who, "present")
    /\ UNCHANGED <<disk, memory, aside>>

\* The user shows a finger, or does not; a lock meanwhile cancels.
Present ==
    /\ pc = "present"
    /\ \/ ~job.moved /\ Goto("open")
       \/ Return
    /\ UNCHANGED <<disk, memory, aside>>

\* What comes after the keys that are not in a file yet.
Unmigrated(who) == {a \in who : file[a] = NoFile}

\* unlock_with: the passphrase is set first; an account that is gone, or rows that cannot
\* be read, are an error that leaves it set.
OpenKeys ==
    /\ pc = "open"
    /\ pass' = passFile
    /\ LET who == IF job.who = {} THEN Exists ELSE job.who
       IN /\ job' = [job EXCEPT !.who = who, !.todo = who, !.copy = row]
          /\ \/ who \subseteq Exists /\ pc' = IF Unmigrated(who) # {} THEN "migrate" ELSE "read"
             \/ pc' = "end"
    /\ UNCHANGED <<disk, vault, pool, task, aside, history>>

\* migrate: out of the Keychain, into a file.  Its errors end unlock_with as well.
Migrate(a) ==
    /\ pc = "migrate" /\ a \in Unmigrated(job.who)
    /\ \/ /\ chain[a] # NoKey /\ pass # NoPass
          /\ file' = Stored(a, chain[a])
          /\ owned' = owned \cup {a}
          /\ Goto("check")
       \/ UNCHANGED <<file, owned>> /\ Goto("end")
    /\ UNCHANGED <<row, chain, passFile, drawn, memory, aside>>

\* The file is read back; without a passphrase it cannot be.
CheckMigrated ==
    /\ pc = "check"
    /\ \/ pass # NoPass /\ Goto(IF Unmigrated(job.who) # {} THEN "migrate" ELSE "read")
       \/ Goto("end")
    /\ UNCHANGED <<disk, memory, aside>>

\* Vault::unlock: every key is read before any is inserted.  unlock_with takes the
\* passphrase back when that fails, create_account does not.
ReadKeys ==
    /\ pc = "read"
    /\ \/ /\ \A a \in job.who : Readable(a)
          /\ job' = [job EXCEPT !.copy =
                 [a \in Accounts |-> IF a \in job.who THEN file[a].key ELSE @[a]]]
          /\ pc' = "insert"
          /\ UNCHANGED <<pass, history>>
       \/ job.op = "unlock" /\ pass' = NoPass /\ Goto("end")
       \/ job.op = "create" /\ UNCHANGED pass /\ Return
    /\ UNCHANGED <<disk, vault, pool, task, aside>>

InsertKeys ==
    /\ pc = "insert"
    /\ vault' = [a \in Accounts |-> IF a \in job.who THEN job.copy[a] ELSE vault[a]]
    /\ Goto(IF job.op = "unlock" THEN "settle" ELSE "final")
    /\ UNCHANGED <<disk, pass, pool, task, aside>>

\* Mutant: the row keeps the key the account had before its recovery.
SettleRowKept(a) ==
    /\ pc = "settle" /\ a \in job.todo
    /\ job' = [job EXCEPT !.todo = @ \ {a}]
    /\ pc' = IF vault[a] = NoKey THEN "end" ELSE "settle"
    /\ UNCHANGED <<disk, memory, aside, history>>

\* The loaded transport key against the row's: completes an interrupted recovery.  An
\* error ends unlock_with and leaves the vault as it is: a lock has emptied it, or the row
\* cannot be written.
Settle(a) ==
    /\ pc = "settle" /\ a \in job.todo
    /\ job' = [job EXCEPT !.todo = @ \ {a}, !.cur = a]
    /\ \/ vault[a] = row[a] /\ UNCHANGED row /\ pc' = "settle"
       \/ vault[a] \notin {NoKey, row[a]} /\ row' = [row EXCEPT ![a] = vault[a]] /\ pc' = "stop"
       \/ vault[a] # row[a] /\ UNCHANGED row /\ pc' = "end"
    /\ UNCHANGED <<file, chain, passFile, drawn, owned, memory, aside, history>>

\* The account whose row has changed stops listening for its old key.
StopStale ==
    /\ pc = "stop"
    /\ StopListening(job.cur)
    /\ Goto(IF job.op = "unlock" THEN "settle" ELSE "read")
    /\ UNCHANGED <<disk, vault, pass, aside>>

Settled ==
    /\ pc = "settle" /\ job.todo = {}
    /\ pc' = "ensure"
    /\ job' = [job EXCEPT !.todo = job.who]
    /\ UNCHANGED <<disk, memory, aside, history>>

\* Runner::ensure looks for a task ...
Ensure(a) ==
    /\ pc = "ensure" /\ a \in job.todo
    /\ job' = [job EXCEPT !.todo = @ \ {a}, !.cur = a]
    /\ pc' = IF task[a] # NoKey THEN "ensure" ELSE "listen"
    /\ UNCHANGED <<disk, memory, aside, history>>

\* ... start stops whatever runs by now and listens with the row as it was read, which
\* RelayTransport's listen never refuses ...
Listen ==
    /\ pc = "listen"
    /\ task' = [task EXCEPT ![job.cur] = NoKey]
    /\ pool' = [pool EXCEPT ![job.cur] = job.copy[job.cur]]
    /\ Goto("note")
    /\ UNCHANGED <<disk, vault, pass, aside>>

\* ... and notes the task.
Note ==
    /\ pc = "note"
    /\ task' = [task EXCEPT ![job.cur] = job.copy[job.cur]]
    /\ Goto("ensure")
    /\ UNCHANGED <<disk, vault, pass, pool, aside>>

\* All listen, which is what remained for an unlock or a creation to succeed.  The deferred
\* requests are replayed here, which is Session's business.
Ensured ==
    /\ pc = "ensure" /\ job.todo = {}
    /\ pc' = job.next
    /\ settled' = IF job.next = "end" THEN settled \cup job.who ELSE settled
    /\ UNCHANGED <<job, lockSeen, disk, memory, aside>>

\* Mutant: what unlock_with returns is taken as it is.
EndUnchecked ==
    /\ pc = "end"
    /\ Return
    /\ UNCHANGED <<disk, memory, aside>>

\* The last look of unlock_with_touch_id: a lock meanwhile is carried out again.
End ==
    /\ pc = "end"
    /\ Return
    /\ IF job.op = "unlock" /\ job.moved THEN LockNow ELSE UNCHANGED <<vault, pass>>
    /\ UNCHANGED <<disk, pool, task, aside>>

-----------------------------------------------------------------------------
(* create_account: a new account, or the recovery of one from its words      *)

Create(a) ==
    /\ Enter("create", {a}, IF pass = NoPass THEN "prepare" ELSE "files")
    /\ UNCHANGED <<disk, memory, aside>>

\* prepare_touch_id: the device's passphrase is made on first use.
Prepare ==
    /\ pc = "prepare"
    /\ \/ /\ passFile' = Device
          /\ IF job.moved THEN Return ELSE Goto("secret")
       \/ Return /\ UNCHANGED passFile
    /\ UNCHANGED <<row, file, chain, drawn, owned, memory, aside>>

SetSecret ==
    /\ pc = "secret"
    /\ pass' = passFile
    /\ Goto("files")
    /\ UNCHANGED <<disk, vault, pool, task, aside>>

\* A lock while the user was asked is carried out again; then the wallet's files
\* (modules WalletFiles and Wallet).
PrepareFiles ==
    /\ pc = "files"
    /\ IF job.walletMoved THEN LockNow /\ Return
       ELSE UNCHANGED <<vault, pass>> /\ (Goto("keys") \/ Return)
    /\ UNCHANGED <<disk, pool, task, aside>>

\* The account's row and its keys, unless the signer was locked.
FindAccount(a) ==
    /\ pc = "keys" /\ a \in job.who
    /\ \/ /\ ~job.walletMoved /\ pass # NoPass
          /\ Goto(IF a \in Exists THEN "restore" ELSE "add")
       \/ Return
    /\ UNCHANGED <<disk, memory, aside>>

\* restore_account_keys: keys that are read stay, and the row takes their transport key;
\* else, whatever the reason, the key file is kept aside.
Restore(a) ==
    /\ pc = "restore" /\ a \in job.who
    /\ \/ /\ Readable(a)
          /\ row' = [row EXCEPT ![a] = file[a].key]
          /\ Goto("read")
       \/ /\ job' = [job EXCEPT !.backup = file[a]]
          /\ pc' = "store"
          /\ UNCHANGED <<row, history>>
       \/ Return /\ UNCHANGED row
    /\ UNCHANGED <<file, chain, passFile, drawn, owned, memory, aside>>

\* KeyFileRecovery's drop: the old file goes back, if there was one and it can be moved.
PutBack(a) == file' \in {file, [file EXCEPT ![a] = IF job.backup = NoFile THEN @ ELSE job.backup]}

StoreRestored(a) ==
    /\ pc = "store" /\ a \in job.who
    /\ \/ /\ pass # NoPass /\ drawn < MaxKey
          /\ drawn' = drawn + 1
          /\ file' = Stored(a, drawn + 1)
          /\ owned' = owned \cup {a}
          /\ Goto("verify")
       \/ PutBack(a) /\ Return /\ UNCHANGED <<drawn, owned>>
    /\ UNCHANGED <<row, chain, passFile, memory, aside>>

\* The new file is read back, the row follows, and only then is the old one let go.
VerifyRestored(a) ==
    /\ pc = "verify" /\ a \in job.who
    /\ \/ /\ Readable(a)
          /\ row' = [row EXCEPT ![a] = file[a].key]
          /\ job' = [job EXCEPT !.cur = a, !.backup = NoFile]
          /\ pc' = "stop"
          /\ UNCHANGED <<file, history>>
       \/ PutBack(a) /\ Return /\ UNCHANGED row
    /\ UNCHANGED <<chain, passFile, drawn, owned, memory, aside>>

\* Mutant: the keys are written before the row.
AddKeysFirst(a) ==
    /\ pc = "add" /\ a \in job.who /\ drawn < MaxKey
    /\ drawn' = drawn + 1
    /\ file' = [file EXCEPT ![a] = [key |-> drawn + 1, seal |-> Device]]
    /\ Goto("addstore")
    /\ UNCHANGED <<row, chain, passFile, owned, memory, aside>>

\* add_account: "Keys go in only after the row exists".
AddRow(a) ==
    /\ pc = "add" /\ a \in job.who
    /\ \/ /\ drawn < MaxKey
          /\ drawn' = drawn + 1
          /\ row' = [row EXCEPT ![a] = drawn + 1]
          /\ Goto("addstore")
       \/ Return /\ UNCHANGED <<drawn, row>>
    /\ UNCHANGED <<file, chain, passFile, owned, memory, aside>>

\* A write that fails takes the row back, if it can be.
AddStore(a) ==
    /\ pc = "addstore" /\ a \in job.who
    /\ \/ /\ pass # NoPass
          /\ file' = Stored(a, row[a])
          /\ owned' = owned \cup {a}
          /\ job' = [job EXCEPT !.todo = {a}, !.copy[a] = row[a], !.next = "read"]
          /\ pc' = "ensure"
          /\ UNCHANGED <<row, history>>
       \/ row' \in {row, [row EXCEPT ![a] = NoKey]} /\ Return /\ UNCHANGED <<file, owned>>
    /\ UNCHANGED <<chain, passFile, drawn, memory, aside>>

\* The last look of create_account; then the wallet's file is selected, or cannot be.
Final(a) ==
    /\ pc = "final" /\ a \in job.who
    /\ IF job.walletMoved \/ pass = NoPass THEN LockNow /\ Return
       ELSE /\ UNCHANGED <<vault, pass>>
            /\ \/ /\ job' = [job EXCEPT !.todo = {a}, !.copy = row, !.next = "end"]
                  /\ pc' = "ensure"
                  /\ UNCHANGED history
               \/ Return
    /\ UNCHANGED <<disk, pool, task, aside>>

-----------------------------------------------------------------------------
(* delete_account, one store after the other; each may fail                  *)

Delete(a) ==
    /\ a \in Exists
    /\ Enter("delete", {a}, "dstop")
    /\ UNCHANGED <<disk, memory, aside>>

DeleteStops(a) ==
    /\ pc = "dstop" /\ a \in job.who
    /\ StopListening(a)
    /\ vault' = [vault EXCEPT ![a] = NoKey]
    /\ Goto("dfile")
    /\ UNCHANGED <<disk, pass, aside>>

DeleteFile(a) ==
    /\ pc = "dfile" /\ a \in job.who
    /\ \/ file' = [file EXCEPT ![a] = NoFile] /\ owned' = owned \ {a} /\ Goto("dchain")
       \/ Return /\ UNCHANGED <<file, owned>>
    /\ UNCHANGED <<row, chain, passFile, drawn, memory, aside>>

DeleteChain(a) ==
    /\ pc = "dchain" /\ a \in job.who
    /\ \/ chain' = [chain EXCEPT ![a] = NoKey] /\ Goto("drow")
       \/ Return /\ UNCHANGED chain
    /\ UNCHANGED <<row, file, passFile, drawn, owned, memory, aside>>

DeleteRow(a) ==
    /\ pc = "drow" /\ a \in job.who
    /\ row' \in {row, [row EXCEPT ![a] = NoKey]}
    /\ Return
    /\ UNCHANGED <<file, chain, passFile, drawn, owned, memory, aside>>

-----------------------------------------------------------------------------
(* Without the gate *)

\* The lock command: WalletService::lock moves its epoch, AppState::lock its own,
\* then the vault is emptied and the passphrase dropped.
LockBegins ==
    /\ locking = "no"
    /\ locking' = "auth"
    /\ lockSeen' = TRUE
    /\ job' = [job EXCEPT !.walletMoved = job.op # "none"]
    /\ UNCHANGED <<disk, memory, pc, starter, forgetting, settled>>

LockMovesAuth ==
    /\ locking = "auth"
    /\ locking' = "vault"
    /\ job' = [job EXCEPT !.moved = job.op # "none"]
    /\ UNCHANGED <<disk, memory, pc, starter, forgetting, history>>

LockEmptiesVault ==
    /\ locking = "vault"
    /\ locking' = "pass"
    /\ vault' = Clear
    /\ UNCHANGED <<disk, pass, pool, task, pc, job, starter, forgetting, history>>

LockDropsPass ==
    /\ locking = "pass"
    /\ locking' = "no"
    /\ pass' = NoPass
    /\ UNCHANGED <<disk, vault, pool, task, pc, job, starter, forgetting, history>>

\* Mutant: nothing is refused.
ForgetAnyway ==
    /\ forgetting = {}
    /\ forgetting' = Exists
    /\ UNCHANGED <<disk, memory, pc, job, starter, locking, history>>

\* forget_keychain refuses while an account has no key file.
ForgetBegins ==
    /\ forgetting = {} /\ Unmigrated(Exists) = {}
    /\ forgetting' = Exists
    /\ UNCHANGED <<disk, memory, pc, job, starter, locking, history>>

\* needs_migration takes rows it cannot read for no accounts at all; the next read succeeds.
ForgetUnread ==
    /\ forgetting = {}
    /\ forgetting' = Exists
    /\ owned' = owned \ Unmigrated(Exists)
    /\ UNCHANGED <<row, file, chain, passFile, drawn, memory, pc, job, starter, locking, history>>

\* The Keychain may refuse, which ends the command.
ForgetOne(a) ==
    /\ a \in forgetting
    /\ \/ chain' = [chain EXCEPT ![a] = NoKey] /\ forgetting' = forgetting \ {a}
       \/ UNCHANGED chain /\ forgetting' = {}
    /\ UNCHANGED <<row, file, passFile, drawn, owned, memory, pc, job, starter, locking, history>>

\* set_relays restarts the listener of an account whose keys are loaded.
SetRelays(a) ==
    /\ starter = NoStarter /\ a \in Exists /\ vault[a] # NoKey
    /\ starter' = [NoStarter EXCEPT !.at = <<a, row[a]>>]
    /\ UNCHANGED <<disk, memory, pc, job, locking, forgetting, history>>

\* The launch ensures the listeners it has copies for.
LaunchNext(c) ==
    /\ starter.at = <<>> /\ c \in starter.todo
    /\ starter' = [todo |-> starter.todo \ {c}, at |-> IF task[c[1]] # NoKey THEN <<>> ELSE c]
    /\ UNCHANGED <<disk, memory, pc, job, locking, forgetting, history>>

\* Runner::start, stop and listen, for either.
StarterListens ==
    /\ starter.at # <<>> /\ Len(starter.at) = 2
    /\ task' = [task EXCEPT ![starter.at[1]] = NoKey]
    /\ pool' = [pool EXCEPT ![starter.at[1]] = starter.at[2]]
    /\ starter' = [starter EXCEPT !.at = Append(@, "listening")]
    /\ UNCHANGED <<disk, vault, pass, pc, job, locking, forgetting, history>>

StarterNotes ==
    /\ Len(starter.at) = 3
    /\ task' = [task EXCEPT ![starter.at[1]] = starter.at[2]]
    /\ starter' = [starter EXCEPT !.at = <<>>]
    /\ UNCHANGED <<disk, vault, pass, pool, pc, job, locking, forgetting, history>>

\* The process dies and is started again.
Restart ==
    /\ vault' = Clear /\ pool' = Clear /\ task' = Clear /\ pass' = NoPass
    /\ pc' = "idle" /\ job' = NoJob
    /\ starter' \in {Launch(row), NoStarter}
    /\ locking' = "no" /\ forgetting' = {} /\ lockSeen' = FALSE /\ settled' = {}
    /\ UNCHANGED disk

Command ==
    \/ Unlock({})
    \/ \E a \in Accounts : Unlock({a}) \/ Create(a) \/ Delete(a)

CommandStep ==
    \/ Present \/ OpenKeys \/ CheckMigrated \/ ReadKeys \/ InsertKeys \/ StopStale \/ Settled
    \/ Listen \/ Note \/ Ensured \/ End \/ Prepare \/ SetSecret \/ PrepareFiles
    \/ \E a \in Accounts :
          \/ Migrate(a) \/ Settle(a) \/ Ensure(a)
          \/ FindAccount(a) \/ Restore(a) \/ StoreRestored(a) \/ VerifyRestored(a)
          \/ AddRow(a) \/ AddStore(a) \/ Final(a)
          \/ DeleteStops(a) \/ DeleteFile(a) \/ DeleteChain(a) \/ DeleteRow(a)

Aside ==
    \/ LockBegins \/ LockMovesAuth \/ LockEmptiesVault \/ LockDropsPass
    \/ ForgetBegins \/ ForgetUnread \/ StarterListens \/ StarterNotes
    \/ \E a \in Accounts : ForgetOne(a) \/ SetRelays(a)
    \/ \E c \in starter.todo : LaunchNext(c)

KeysNext == Command \/ CommandStep \/ Aside \/ Restart

KeysSpec == KeysInit /\ [][KeysNext]_keysVars

-----------------------------------------------------------------------------
(* Properties *)

Quiet == pc = "idle" /\ locking = "no"

\* A lock begun while a command runs wins, at whichever of their steps they meet: when
\* both are over no key is loaded and no passphrase is kept (unlock_with_touch_id and
\* create_account compare the epochs before and after).
LockedStaysLocked == Quiet /\ lockSeen => vault = Clear /\ pass = NoPass

\* Keys are never left without their account, over failed writes, deletions and crashes:
\* account ids are reused, so such a key would be found by another account.
KeysHaveAnAccount ==
    \A a \in Accounts :
        file[a] # NoFile \/ chain[a] # NoKey \/ vault[a] # NoKey => a \in Exists

\* Rows, files and loaded keys are well formed, no key file is unsealed, and no key is
\* without its account.
KeysInv == KeysTypeOK /\ KeysHaveAnAccount

\* An account whose unlock or creation has succeeded is known to the store by the transport
\* key it answers with, also when its recovery had been interrupted, and stays so whatever
\* other commands, failures and locks do, until a command is given for it again.  (After an
\* unlock that failed it may be loaded and known by another key: NothingElseIsLoaded.)
LoadedKeyIsPublished == \A a \in settled : vault[a] \in {NoKey, row[a]}

\* A key is lost by deleting its account only: not by a migration or a recovery that fails
\* or dies half way, nor by forget_keychain ("this can never be the step that loses a key")
\* as long as needs_migration has read the rows.
KeyIsKept == \A a \in owned : file[a] # NoFile \/ chain[a] # NoKey

\* Where nobody deletes or creates, no account is left without its keys: what is to be
\* expected of forget_keychain (MCKeys!ForgetSpec), and not so if needs_migration could not
\* read the rows.
ForgettingLosesNoKey == \A a \in Exists : file[a] # NoFile \/ chain[a] # NoKey

\* Between commands a loaded key is the one its row names, also when a command has failed:
\* not so when unlock_with could not write the row.
NothingElseIsLoaded == pc = "idle" => \A a \in Accounts : vault[a] \in {NoKey, row[a]}

\* An account that was unlocked is listened for under the key it answers with: not so when a
\* recovery died before the row was written and was then repeated.
ListensForLoadedKey ==
    Quiet /\ starter = NoStarter =>
        \A a \in settled : vault[a] # NoKey /\ task[a] # NoKey => pool[a] = vault[a]
=============================================================================
