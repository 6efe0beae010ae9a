---------------------------- MODULE WalletFiles ----------------------------
(***************************************************************************)
(* The wallet files of one identity: how the data directory of an earlier  *)
(* app is taken over (migration.rs), how its databases are converted to    *)
(* the current names and keys before first use, how the wallet of another  *)
(* mint is added and selected, and how funds are found again after a       *)
(* restore (wallet.rs).                                                    *)
(*                                                                         *)
(* Everything here is on disk and the process may die between any two      *)
(* writes.  Renames and SQLite transactions are atomic; a wallet file is   *)
(* published by linking a finished temporary file.  One command runs at a  *)
(* time (WalletService::gate, MigrationLock).  A slot file is named by a   *)
(* hash of namespace, seed and mint: old or new, for each mint.            *)
(***************************************************************************)
EXTENDS Naturals, FiniteSets

CONSTANTS
    Mints,
    Original,     \* the mint of the identity's first wallet
    NoMint,
    Batches       \* funds a mint can give back, in batches of a restore

ASSUME WalletFilesAssumption ==
    Original \in Mints /\ NoMint \notin Mints /\ Batches \in Nat

VARIABLES
    at,         \* which directory has the data: an older app's, the previous one's, ours
    stage,      \* files copied so far, while an older app's directory is
    db,         \* the database of each mint
    active,     \* the .active file: the slot selected
    marker,     \* the migration's Progress: none, pending or done for this identity
    conn,       \* key of a wallet connection: none, derived from the old seed, or sealed
    remote,     \* batches of funds at each mint the database does not have
    pc, job,    \* the command that runs
    before,     \* history: mints with a wallet when the app was first started
    began       \* history: mints whose restore was begun

filesVars == <<at, stage, db, active, marker, conn, remote, pc, job, before, began>>

Ages == {"old", "new"}
NoDb == [name |-> "none", key |-> "none", tables |-> "none",
         recovery |-> FALSE, scan |-> "none", proofs |-> FALSE]
Dbs == [name : Ages, key : Ages, tables : Ages,
        recovery : BOOLEAN, scan : {"none", "begun", "complete"}, proofs : BOOLEAN]

\* A wallet file just published.
NewDb == [NoDb EXCEPT !.name = "new", !.key = "new", !.tables = "new"]
OldDb == [NoDb EXCEPT !.name = "old", !.key = "old", !.tables = "old", !.recovery = TRUE]

Exists(m) == db[m] # NoDb
Present == {m \in Mints : Exists(m)}
Readable(m) == db[m].key = "new" /\ db[m].tables = "new"

NoSlot == [mint |-> NoMint, name |-> "none"]
NoJob == [op |-> "none", mint |-> NoMint, todo |-> {}, cur |-> NoMint]

Labels == {"down", "copy", "publish", "idle", "seal", "convert", "tables", "rename", "active",
           "stamp", "init", "words", "slot", "slotwords", "record", "select", "scan", "restore"}

FilesTypeOK ==
    /\ at \in {"older", "previous", "here"}
    /\ stage \subseteq Mints /\ before \subseteq Mints /\ began \subseteq Mints
    /\ db \in [Mints -> Dbs \cup {NoDb}]
    /\ active \in [mint : Mints, name : Ages] \cup {NoSlot}
    /\ marker \in {"none", "pending", "done"}
    /\ conn \in {"none", "derived", "sealed"}
    /\ remote \in [Mints -> 0 .. Batches]
    /\ pc \in Labels
    /\ job \in [op : {"none", "create", "restore", "setmint", "select", "open", "again"},
                mint : Mints \cup {NoMint}, todo : SUBSET Mints, cur : Mints \cup {NoMint}]

\* Nothing yet, an older app's data, or the previous app's: converted, or copied from an
\* older one and not converted.  Older apps keep no scan record, nor do wallets imported
\* before there was one.
FilesInit ==
    /\ before \in {{}} \cup {s \in SUBSET Mints : Original \in s}
    /\ at \in IF before = {} THEN {"here"} ELSE {"older", "previous"}
    /\ marker \in IF at = "previous" THEN {"none", "pending"} ELSE {"none"}
    /\ \E proofs \in BOOLEAN,
          scan \in IF at = "older" \/ marker = "pending" THEN {"none"} ELSE {"none", "complete"} :
          db = [m \in Mints |->
                  IF m \notin before THEN NoDb
                  ELSE [(IF at = "older" \/ marker = "pending" THEN OldDb
                         ELSE [NewDb EXCEPT !.recovery = TRUE])
                        EXCEPT !.scan = scan, !.proofs = proofs]]
    /\ active \in {NoSlot} \cup {[mint |-> m, name |-> db[m].name] : m \in before \ {Original}}
    /\ conn \in IF at = "older" \/ marker = "pending" THEN {"none", "derived"} ELSE {"none"}
    /\ remote \in {r \in [Mints -> {0, Batches}] :
          \A m \in before : (db[m].scan = "complete" \/ db[m].proofs) => r[m] = 0}
    /\ stage = {} /\ began = {} /\ pc = "down" /\ job = NoJob

rest == <<before, began>>

Goto(label) == pc' = label /\ UNCHANGED job
Return == pc' = "idle" /\ job' = NoJob

-----------------------------------------------------------------------------
(* prepare, at launch *)

\* rename_previous, or nothing to take over.
LaunchInPlace ==
    /\ pc = "down" /\ at \in {"previous", "here"}
    /\ at' = "here"
    /\ Goto("idle")
    /\ UNCHANGED <<stage, db, active, marker, conn, remote, rest>>

\* copy_previous: a new stage, every file, the marker, and the rename that publishes it.
LaunchCopies ==
    /\ pc = "down" /\ at = "older"
    /\ stage' = {}
    /\ Goto("copy")
    /\ UNCHANGED <<at, db, active, marker, conn, remote, rest>>

CopyFile(m) ==
    /\ pc = "copy" /\ m \in Present \ stage
    /\ stage' = stage \cup {m}
    /\ Goto("copy")
    /\ UNCHANGED <<at, db, active, marker, conn, remote, rest>>

CopyDone ==
    /\ pc = "copy" /\ stage = Present
    /\ Goto("publish")
    /\ UNCHANGED <<at, stage, db, active, marker, conn, remote, rest>>

Publish ==
    /\ pc = "publish"
    /\ at' = "here" /\ marker' = "pending"
    /\ db' = [m \in Mints |-> IF m \in stage THEN db[m] ELSE NoDb]
    /\ stage' = {}
    /\ Goto("idle")
    /\ UNCHANGED <<active, conn, remote, rest>>

-----------------------------------------------------------------------------
(* Commands; every one converts first what is not converted yet *)

Begins(op, m, label) ==
    /\ pc = "idle"
    /\ pc' = IF marker = "pending" THEN "seal" ELSE label
    /\ job' = [NoJob EXCEPT !.op = op, !.mint = m]
    /\ UNCHANGED <<at, stage, db, active, marker, conn, remote, rest>>

\* The first mint is the original wallet's; a new identity has no funds anywhere.
CreateAccount ==
    Present = {} /\ (\A n \in Mints : remote[n] = 0) /\ Begins("create", Original, "init")
RestoreAccount(m) == (m = Original \/ Exists(Original)) /\ Begins("restore", m, "init")
SetMint(m) == Begins("setmint", m, "slot")
SelectWallet(m) == Begins("select", m, "select")
OpenWallet == Begins("open", NoMint, "scan")
RestoreAgain == Begins("again", NoMint, "record")

FirstLabel ==
    CASE job.op \in {"create", "restore"} -> "init"
      [] job.op = "setmint" -> "slot"
      [] job.op = "select" -> "select"
      [] job.op = "open" -> "scan"
      [] job.op = "again" -> "record"

\* preserve_connection_keys, then the files found in the directory.
Seal ==
    /\ pc = "seal"
    /\ conn' = IF conn = "derived" THEN "sealed" ELSE conn
    /\ pc' = "convert" /\ job' = [job EXCEPT !.todo = Present]
    /\ UNCHANGED <<at, stage, db, active, marker, remote, rest>>

\* Mutant: a database the current key opens counts as converted.
RekeyOnce(m) ==
    /\ pc = "convert" /\ m \in job.todo
    /\ db' = [db EXCEPT ![m].key = "new"]
    /\ pc' = IF db[m].key = "new" THEN "convert" ELSE "tables"
    /\ job' = [job EXCEPT !.cur = m, !.todo = @ \ {m}]
    /\ UNCHANGED <<at, stage, active, marker, conn, remote, rest>>

\* Mutant: a slot that has its current name already is not looked for in .active.
RenameTablesOnly ==
    /\ pc = "tables"
    /\ db' = [db EXCEPT ![job.cur].tables = "new"]
    /\ Goto(IF job.cur = Original \/ db[job.cur].name = "new" THEN "convert" ELSE "rename")
    /\ UNCHANGED <<at, stage, active, marker, conn, remote, rest>>

\* convert_database: rekeyed unless the current key opens it already; then its tables are
\* renamed in a transaction.
Rekey(m) ==
    /\ pc = "convert" /\ m \in job.todo
    /\ db' = [db EXCEPT ![m].key = "new"]
    /\ pc' = "tables" /\ job' = [job EXCEPT !.cur = m, !.todo = @ \ {m}]
    /\ UNCHANGED <<at, stage, active, marker, conn, remote, rest>>

RenameTables ==
    /\ pc = "tables"
    /\ db' = [db EXCEPT ![job.cur].tables = "new"]
    /\ Goto(IF job.cur = Original THEN "convert" ELSE "rename")
    /\ UNCHANGED <<at, stage, active, marker, conn, remote, rest>>

\* The slot file gets its current name, then .active if it named this slot.
RenameSlot ==
    /\ pc = "rename"
    /\ db' = [db EXCEPT ![job.cur].name = "new"]
    /\ Goto("active")
    /\ UNCHANGED <<at, stage, active, marker, conn, remote, rest>>

RenameActive ==
    /\ pc = "active"
    /\ active' = IF active = [mint |-> job.cur, name |-> "old"]
                 THEN [active EXCEPT !.name = "new"] ELSE active
    /\ Goto("convert")
    /\ UNCHANGED <<at, stage, db, marker, conn, remote, rest>>

\* write_progress, and on with the command.
Converted ==
    /\ pc = "convert" /\ job.todo = {}
    /\ marker' = "done"
    /\ Goto(FirstLabel)
    /\ UNCHANGED <<at, stage, db, active, conn, remote, rest>>

\* Which wallet is selected.
Selected == IF active = NoSlot THEN Original ELSE active.mint

\* original_material.
HasOriginal == Exists(Original) /\ Readable(Original) /\ db[Original].recovery

\* store_wallet_file: nothing if there is one, or a whole one at once.
StoreFile(m) == db' = IF Exists(m) THEN db ELSE [db EXCEPT ![m] = NewDb]

\* initialize_wallet, before save_recovery: a wallet that is there has to have its words.
InitializeWallet ==
    /\ pc = "init"
    /\ Exists(Original) => HasOriginal
    /\ StoreFile(Original)
    /\ Goto("words")
    /\ UNCHANGED <<at, stage, active, marker, conn, remote, rest>>

SaveWords ==
    /\ pc = "words"
    /\ db' = [db EXCEPT ![Original].recovery = TRUE]
    /\ Goto("slot")
    /\ UNCHANGED <<at, stage, active, marker, conn, remote, rest>>

\* mint_slot: the original wallet is its own slot; another mint's wallet is made and given
\* the words of the selected one.
MintSlot ==
    /\ pc = "slot" /\ HasOriginal /\ Exists(Selected)
    /\ StoreFile(job.mint)
    /\ Goto(IF job.mint # Original THEN "slotwords"
            ELSE IF job.op = "setmint" THEN "select" ELSE "record")
    /\ UNCHANGED <<at, stage, active, marker, conn, remote, rest>>

SaveSlotWords ==
    /\ pc = "slotwords" /\ db[Selected].recovery
    /\ db' = [db EXCEPT ![job.mint].recovery = TRUE]
    /\ Goto(IF job.op = "setmint" THEN "select" ELSE "record")
    /\ UNCHANGED <<at, stage, active, marker, conn, remote, rest>>

\* The scan record: a restored wallet has to be scanned, a new one not.  wallet_restore
\* asks for another scan of the selected wallet.
RecordScan ==
    LET m == IF job.op = "again" THEN Selected ELSE job.mint
    IN  /\ pc = "record" /\ Exists(m)
        /\ db' = [db EXCEPT ![m].scan = IF job.op = "create" THEN "complete" ELSE "begun"]
        /\ Goto(IF job.op = "again" THEN "scan" ELSE "select")
        /\ UNCHANGED <<at, stage, active, marker, conn, remote, rest>>

\* select_slot, of a wallet that opens.
SelectSlot ==
    /\ pc = "select"
    /\ IF job.mint = Original THEN HasOriginal ELSE Exists(job.mint) /\ Readable(job.mint)
    /\ active' = IF job.mint = Original THEN NoSlot ELSE [mint |-> job.mint, name |-> db[job.mint].name]
    /\ IF job.op \in {"create", "restore"} THEN Return ELSE Goto("scan")
    /\ UNCHANGED <<at, stage, db, marker, conn, remote, rest>>

\* Mutant: that a scan is begun is not saved.
ScanUnsaved ==
    /\ pc = "scan" /\ (IF Selected = Original THEN HasOriginal ELSE Exists(Selected))
    /\ db[Selected].scan = "begun" \/ (db[Selected].scan = "none" /\ ~db[Selected].proofs)
    /\ began' = began \cup {Selected}
    /\ Goto("restore")
    /\ UNCHANGED <<at, stage, db, active, marker, conn, remote, before>>

\* recover_on_open: funds are looked for unless that is done, or was never begun and the
\* wallet has proofs.  That it is begun is saved first.
ScanBegins ==
    /\ pc = "scan" /\ (IF Selected = Original THEN HasOriginal ELSE Exists(Selected))
    /\ db[Selected].scan = "begun" \/ (db[Selected].scan = "none" /\ ~db[Selected].proofs)
    /\ db' = [db EXCEPT ![Selected].scan = "begun"]
    /\ began' = began \cup {Selected}
    /\ Goto("restore")
    /\ UNCHANGED <<at, stage, active, marker, conn, remote, before>>

ScanNotNeeded ==
    /\ pc = "scan" /\ (IF Selected = Original THEN HasOriginal ELSE Exists(Selected))
    /\ db[Selected].scan = "complete" \/ (db[Selected].scan = "none" /\ db[Selected].proofs)
    /\ db' = [db EXCEPT ![Selected].scan = "complete"]
    /\ Return
    /\ UNCHANGED <<at, stage, active, marker, conn, remote, rest>>

\* restore: batch after batch.
RestoreBatch ==
    /\ pc = "restore" /\ remote[Selected] > 0
    /\ remote' = [remote EXCEPT ![Selected] = @ - 1]
    /\ db' = [db EXCEPT ![Selected].proofs = TRUE]
    /\ Goto("restore")
    /\ UNCHANGED <<at, stage, active, marker, conn, rest>>

RestoreDone ==
    /\ pc = "restore" /\ remote[Selected] = 0
    /\ db' = [db EXCEPT ![Selected].scan = "complete"]
    /\ Return
    /\ UNCHANGED <<at, stage, active, marker, conn, remote, rest>>

-----------------------------------------------------------------------------
(* Failures, payments *)

\* A step of a command fails and the command with it; a launch that fails ends the app.
StepFails ==
    /\ pc \notin {"down", "idle"}
    /\ pc' = IF pc \in {"copy", "publish"} THEN "down" ELSE "idle"
    /\ job' = NoJob
    /\ stage' = {}
    /\ UNCHANGED <<at, db, active, marker, conn, remote, rest>>

Crash ==
    /\ pc # "down"
    /\ pc' = "down" /\ job' = NoJob
    /\ stage' = {}
    /\ UNCHANGED <<at, db, active, marker, conn, remote, rest>>

\* Background receiving, a token received, or a payment made.
Payment(m, proofs) ==
    /\ pc = "idle" /\ marker # "pending" /\ HasOriginal /\ Exists(m) /\ Readable(m)
    /\ db' = [db EXCEPT ![m].proofs = proofs]
    /\ UNCHANGED <<at, stage, active, marker, conn, remote, pc, job, rest>>

FilesNext ==
    \/ LaunchInPlace \/ LaunchCopies \/ CopyDone \/ Publish
    \/ \E m \in Mints : CopyFile(m) \/ Rekey(m)
    \/ \E m \in Mints : RestoreAccount(m) \/ SetMint(m) \/ SelectWallet(m)
    \/ CreateAccount \/ OpenWallet \/ RestoreAgain
    \/ Seal \/ RenameTables \/ RenameSlot \/ RenameActive \/ Converted
    \/ InitializeWallet \/ SaveWords \/ MintSlot \/ SaveSlotWords \/ RecordScan \/ SelectSlot
    \/ ScanBegins \/ ScanNotNeeded \/ RestoreBatch \/ RestoreDone
    \/ StepFails \/ Crash
    \/ \E m \in Mints, proofs \in BOOLEAN : Payment(m, proofs)

FilesSpec == FilesInit /\ [][FilesNext]_filesVars

-----------------------------------------------------------------------------
(* Properties *)

\* However a take-over or a conversion is cut short, every wallet of the earlier app is in
\* the directory the app runs on, and whenever nothing is left to convert the selected slot
\* is the name of a wallet that opens.
WalletsStayReachable ==
    /\ FilesTypeOK
    /\ at = "here" => before \subseteq Present
    /\ at = "here" /\ marker # "pending" /\ active # NoSlot =>
          Exists(active.mint) /\ Readable(active.mint) /\ active.name = db[active.mint].name

\* An identity is marked converted only when all of its databases are, and its wallet
\* connections keep the keys their clients know ("Preserve NWC transport keys before
\* changing the domain that derived them").
ConvertedMeansAll ==
    marker = "done" =>
        /\ conn # "derived"
        /\ \A m \in Present : Readable(m) /\ (m # Original => db[m].name = "new")

\* A search for funds that was begun counts as complete only when it found them all, also
\* if it was cut short with some of them already in the wallet.
PartialScanResumes ==
    \A m \in began : db[m].scan = "complete" => remote[m] = 0

\* A restore can always be repeated: between commands, a wallet file has the words that
\* opening it asks for.
RestoreCanBeRepeated == pc = "idle" /\ Exists(Original) => db[Original].recovery

=============================================================================
