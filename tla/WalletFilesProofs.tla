-------------------------- MODULE WalletFilesProofs --------------------------
(***************************************************************************)
(* The wallet files, for any set of mints and any amount of funds to find: *)
(* that no take-over or conversion cut short loses a wallet, that the mark *)
(* of a converted identity means what it says, and that a search for funds *)
(* is complete only when there is nothing left to find.                    *)
(***************************************************************************)
EXTENDS WalletFiles, TLAPS

Commands == {"init", "words", "slot", "slotwords", "record", "select", "scan", "restore"}
Converting == {"convert", "tables", "rename", "active"}

\* Where the data is, and how far a copy of it came.
PlaceInv ==
    /\ FilesTypeOK
    /\ before \subseteq Present
    /\ pc \in {"copy", "publish"} => at = "older" /\ stage \subseteq Present
    /\ pc = "publish" => stage = Present
    /\ pc \notin {"down", "copy", "publish"} => at = "here"
    /\ at = "older" => marker = "none"
    /\ pc \in Commands => marker # "pending"
    /\ pc \in Converting \cup {"seal"} => marker = "pending"

\* What a command's place says of the command.
JobInv ==
    /\ pc \in Commands \cup Converting \cup {"seal"} => job.op # "none"
    /\ job.op \in {"create", "restore", "setmint", "select"} => job.mint \in Mints
    /\ job.op = "create" => \A m \in Mints : remote[m] = 0
    /\ pc \in {"init", "words"} => job.op \in {"create", "restore"}
    /\ pc \in {"slot", "slotwords"} => job.op \in {"create", "restore", "setmint"}
    /\ pc = "record" => job.op \in {"create", "restore", "again"}
    /\ pc = "select" => job.op \in {"create", "restore", "setmint", "select"}
    /\ pc = "words" => Exists(Original)
    /\ pc = "slotwords" => Exists(job.mint)
    /\ pc \in Converting => job.todo \subseteq Present
    /\ pc \in {"tables", "rename", "active"} => job.cur \in Present
    /\ pc \in {"rename", "active"} => job.cur # Original

\* A database the current app can use, selected under its current name if it is selected.
Current(m) ==
    /\ Readable(m)
    /\ m # Original => db[m].name = "new"
    /\ active # [mint |-> m, name |-> "old"]

\* What is converted: all but what is still to do, and the one at hand as far as it came.
SlotInv ==
    /\ active # NoSlot =>
          /\ active.mint # Original /\ Exists(active.mint)
          /\ active.name = "new" => db[active.mint].name = "new"
    /\ at # "older" /\ marker # "pending" =>
          conn # "derived" /\ \A m \in Present : Current(m)
    /\ pc \in Converting => conn # "derived"
    /\ pc = "convert" => \A m \in Present \ job.todo : Current(m)
    /\ pc \in {"tables", "rename", "active"} =>
          /\ \A m \in Present \ (job.todo \cup {job.cur}) : Current(m)
          /\ db[job.cur].key = "new"
    /\ pc \in {"rename", "active"} => db[job.cur].tables = "new"
    /\ pc = "active" => db[job.cur].name = "new"

\* A scan that was begun is on record, and complete only with nothing left at the mint.
ScanInv ==
    /\ \A m \in began : db[m].scan # "none" /\ (db[m].scan = "complete" => remote[m] = 0)
    /\ began \subseteq Present
    /\ pc = "restore" => Exists(Selected) /\ db[Selected].scan = "begun"

FilesInv == PlaceInv /\ JobInv /\ SlotInv /\ ScanInv

-----------------------------------------------------------------------------
(* Writes to a database *)

\* One database is written, whole.
Written(x, r) == x \in Mints /\ r \in Dbs /\ db' = [db EXCEPT ![x] = r]

LEMMA DbOrNone ==
    ASSUME FilesTypeOK, NEW m \in Mints
    PROVE  /\ NoDb \notin Dbs
           /\ Exists(m) <=> db[m] \in Dbs
           /\ m \in Present <=> db[m] \in Dbs
  <1>1. NoDb \notin Dbs
    BY DEF NoDb, Dbs, Ages
  <1> QED
    BY <1>1 DEF Exists, Present, FilesTypeOK

LEMMA NewDbType == NewDb \in Dbs /\ NewDb.key = "new" /\ NewDb.tables = "new" /\ NewDb.name = "new"
  BY DEF NewDb, NoDb, Dbs, Ages

LEMMA WriteKeeps ==
    ASSUME FilesTypeOK, NEW x, NEW r, Written(x, r)
    PROVE  /\ db' \in [Mints -> Dbs \cup {NoDb}]
           /\ db'[x] = r
           /\ \A m \in Mints \ {x} : db'[m] = db[m]
           /\ Present' = Present \cup {x}
  <1>1. /\ db' \in [Mints -> Dbs \cup {NoDb}]
        /\ db'[x] = r
        /\ \A m \in Mints \ {x} : db'[m] = db[m]
    BY DEF Written, FilesTypeOK
  <1>2. r # NoDb /\ x \in Mints
    BY DbOrNone DEF Written
  <1>3. \A m \in Mints : m \in Present' <=> m \in Present \cup {x}
    BY <1>1, <1>2 DEF Present, Exists
  <1>4. Present' \subseteq Mints /\ Present \cup {x} \subseteq Mints
    BY <1>2 DEF Present
  <1> QED
    BY <1>1, <1>3, <1>4

\* What each write is, given that the database is there.
LEMMA Writes ==
    ASSUME FilesInv
    PROVE  /\ \A m \in Mints : Rekey(m) => Written(m, [db[m] EXCEPT !.key = "new"])
           /\ RenameTables => Written(job.cur, [db[job.cur] EXCEPT !.tables = "new"])
           /\ RenameSlot => Written(job.cur, [db[job.cur] EXCEPT !.name = "new"])
           /\ SaveWords => Written(Original, [db[Original] EXCEPT !.recovery = TRUE])
           /\ SaveSlotWords => Written(job.mint, [db[job.mint] EXCEPT !.recovery = TRUE])
           /\ RestoreBatch => Written(Selected, [db[Selected] EXCEPT !.proofs = TRUE])
           /\ ScanBegins => Written(Selected, [db[Selected] EXCEPT !.scan = "begun"])
           /\ ScanNotNeeded \/ RestoreDone =>
                 Written(Selected, [db[Selected] EXCEPT !.scan = "complete"])
           /\ RecordScan =>
                 LET m == IF job.op = "again" THEN Selected ELSE job.mint
                     s == IF job.op = "create" THEN "complete" ELSE "begun"
                 IN  Exists(m) /\ Written(m, [db[m] EXCEPT !.scan = s])
           /\ \A m \in Mints, p \in BOOLEAN :
                 Payment(m, p) => Written(m, [db[m] EXCEPT !.proofs = p])
  <1> USE WalletFilesAssumption DEF FilesInv, PlaceInv, Written
  <1>0. ASSUME NEW m \in Mints, Exists(m)
        PROVE  /\ db[m] \in Dbs
               /\ [db[m] EXCEPT !.key = "new"] \in Dbs
               /\ [db[m] EXCEPT !.tables = "new"] \in Dbs
               /\ [db[m] EXCEPT !.name = "new"] \in Dbs
               /\ [db[m] EXCEPT !.recovery = TRUE] \in Dbs
               /\ \A p \in BOOLEAN : [db[m] EXCEPT !.proofs = p] \in Dbs
               /\ \A s \in {"begun", "complete"} : [db[m] EXCEPT !.scan = s] \in Dbs
    <2>1. db[m] \in Dbs
      BY <1>0, DbOrNone
    <2> QED
      BY <2>1 DEF Dbs, Ages
  <1>1. ASSUME NEW m \in Mints, Rekey(m) PROVE Written(m, [db[m] EXCEPT !.key = "new"])
    <2>1. Exists(m)
      BY <1>1 DEF Rekey, JobInv, Converting, Present
    <2> QED
      BY <1>0, <1>1, <2>1 DEF Rekey
  <1>2. ASSUME RenameTables PROVE Written(job.cur, [db[job.cur] EXCEPT !.tables = "new"])
    <2>1. job.cur \in Mints /\ Exists(job.cur)
      BY <1>2 DEF RenameTables, JobInv, Present
    <2> QED
      BY <1>0, <1>2, <2>1 DEF RenameTables
  <1>3. ASSUME RenameSlot PROVE Written(job.cur, [db[job.cur] EXCEPT !.name = "new"])
    <2>1. job.cur \in Mints /\ Exists(job.cur)
      BY <1>3 DEF RenameSlot, JobInv, Present
    <2> QED
      BY <1>0, <1>3, <2>1 DEF RenameSlot
  <1>4. ASSUME SaveWords PROVE Written(Original, [db[Original] EXCEPT !.recovery = TRUE])
    <2>1. Exists(Original)
      BY <1>4 DEF SaveWords, JobInv
    <2> QED
      BY <1>0, <1>4, <2>1 DEF SaveWords
  <1>5. ASSUME SaveSlotWords PROVE Written(job.mint, [db[job.mint] EXCEPT !.recovery = TRUE])
    <2>1. job.mint \in Mints /\ Exists(job.mint)
      BY <1>5 DEF SaveSlotWords, JobInv
    <2> QED
      BY <1>0, <1>5, <2>1 DEF SaveSlotWords
  <1>6. Selected \in Mints
    BY DEF Selected, FilesTypeOK, NoSlot
  <1>7. ASSUME RestoreBatch PROVE Written(Selected, [db[Selected] EXCEPT !.proofs = TRUE])
    <2>1. Exists(Selected)
      BY <1>7 DEF RestoreBatch, ScanInv
    <2> QED
      BY <1>0, <1>6, <1>7, <2>1 DEF RestoreBatch
  <1>8. ASSUME ScanBegins PROVE Written(Selected, [db[Selected] EXCEPT !.scan = "begun"])
    <2>1. Exists(Selected)
      BY <1>8 DEF ScanBegins, HasOriginal
    <2> QED
      BY <1>0, <1>6, <1>8, <2>1 DEF ScanBegins
  <1>9. ASSUME ScanNotNeeded \/ RestoreDone
        PROVE  Written(Selected, [db[Selected] EXCEPT !.scan = "complete"])
    <2>1. Exists(Selected)
      BY <1>9 DEF ScanNotNeeded, RestoreDone, ScanInv, HasOriginal
    <2> QED
      BY <1>0, <1>6, <1>9, <2>1 DEF ScanNotNeeded, RestoreDone
  <1>10. ASSUME NEW m \in Mints, NEW p \in BOOLEAN, Payment(m, p)
         PROVE  Written(m, [db[m] EXCEPT !.proofs = p])
    BY <1>0, <1>10 DEF Payment
  <1>11. ASSUME RecordScan
         PROVE  LET m == IF job.op = "again" THEN Selected ELSE job.mint
                    s == IF job.op = "create" THEN "complete" ELSE "begun"
                IN  Exists(m) /\ Written(m, [db[m] EXCEPT !.scan = s])
    <2> DEFINE m == IF job.op = "again" THEN Selected ELSE job.mint
    <2>1. m \in Mints /\ Exists(m)
      BY <1>6, <1>11 DEF RecordScan, JobInv
    <2> QED
      BY <1>0, <1>11, <2>1 DEF RecordScan
  <1> HIDE DEF Written
  <1> QED
    BY <1>1, <1>2, <1>3, <1>4, <1>5, <1>7, <1>8, <1>9, <1>10, <1>11

\* Publishing a complete copy changes no database.
LEMMA PublishKeeps ==
    ASSUME FilesInv, Publish
    PROVE  db' = db
  <1>1. \A m \in Mints \ stage : db[m] = NoDb
    BY DEF Publish, FilesInv, PlaceInv, Present, Exists
  <1>2. db' = [m \in Mints |-> db[m]]
    BY <1>1 DEF Publish
  <1> QED
    BY <1>2 DEF FilesInv, PlaceInv, FilesTypeOK

\* store_wallet_file leaves a wallet that is there alone.
LEMMA StoreWrites ==
    ASSUME FilesTypeOK, NEW m \in Mints, StoreFile(m)
    PROVE  (Exists(m) /\ db' = db) \/ (~Exists(m) /\ Written(m, NewDb))
  BY NewDbType DEF StoreFile, Written

\* One database is edited, to have these values in the fields the conversion and the scans
\* look at.
Edited(x, k, t, n, s) ==
    /\ x \in Present /\ Present' = Present
    /\ \A m \in Mints \ {x} : db'[m] = db[m]
    /\ db'[x].key = k /\ db'[x].tables = t /\ db'[x].name = n /\ db'[x].scan = s

LEMMA FieldWrites ==
    ASSUME FilesTypeOK, NEW x \in Present
    PROVE  /\ Written(x, [db[x] EXCEPT !.key = "new"]) =>
                 Edited(x, "new", db[x].tables, db[x].name, db[x].scan)
           /\ Written(x, [db[x] EXCEPT !.tables = "new"]) =>
                 Edited(x, db[x].key, "new", db[x].name, db[x].scan)
           /\ Written(x, [db[x] EXCEPT !.name = "new"]) =>
                 Edited(x, db[x].key, db[x].tables, "new", db[x].scan)
           /\ \A s : Written(x, [db[x] EXCEPT !.scan = s]) =>
                 Edited(x, db[x].key, db[x].tables, db[x].name, s)
           /\ Written(x, [db[x] EXCEPT !.recovery = TRUE]) =>
                 Edited(x, db[x].key, db[x].tables, db[x].name, db[x].scan)
           /\ \A p \in BOOLEAN : Written(x, [db[x] EXCEPT !.proofs = p]) =>
                 Edited(x, db[x].key, db[x].tables, db[x].name, db[x].scan)
  <1>1. x \in Mints /\ db[x] \in Dbs
    BY DbOrNone DEF Present
  <1>2. ASSUME NEW r, Written(x, r) PROVE Edited(x, r.key, r.tables, r.name, r.scan)
    BY <1>2, WriteKeeps DEF Edited
  <1> QED
    BY <1>1, <1>2 DEF Dbs

LEMMA Edits ==
    ASSUME FilesInv
    PROVE  /\ \A m \in Mints :
                 Rekey(m) => Edited(m, "new", db[m].tables, db[m].name, db[m].scan)
           /\ RenameTables =>
                 LET d == db[job.cur] IN Edited(job.cur, d.key, "new", d.name, d.scan)
           /\ RenameSlot =>
                 LET d == db[job.cur] IN Edited(job.cur, d.key, d.tables, "new", d.scan)
           /\ SaveWords =>
                 LET d == db[Original] IN Edited(Original, d.key, d.tables, d.name, d.scan)
           /\ SaveSlotWords =>
                 LET d == db[job.mint] IN Edited(job.mint, d.key, d.tables, d.name, d.scan)
           /\ RestoreBatch =>
                 LET d == db[Selected] IN Edited(Selected, d.key, d.tables, d.name, d.scan)
           /\ ScanBegins =>
                 LET d == db[Selected] IN Edited(Selected, d.key, d.tables, d.name, "begun")
           /\ ScanNotNeeded \/ RestoreDone =>
                 LET d == db[Selected] IN Edited(Selected, d.key, d.tables, d.name, "complete")
           /\ RecordScan =>
                 \E m \in Mints : Edited(m, db[m].key, db[m].tables, db[m].name,
                                         IF job.op = "create" THEN "complete" ELSE "begun")
           /\ \A m \in Mints, p \in BOOLEAN :
                 Payment(m, p) => Edited(m, db[m].key, db[m].tables, db[m].name, db[m].scan)
  <1> USE WalletFilesAssumption
  <1>0. FilesTypeOK /\ Selected \in Mints
    BY DEF FilesInv, PlaceInv, Selected, FilesTypeOK, NoSlot
  <1>1. ASSUME NEW m \in Mints, Rekey(m)
        PROVE  Edited(m, "new", db[m].tables, db[m].name, db[m].scan)
    <2>1. m \in Present
      BY <1>1 DEF Rekey, FilesInv, JobInv, Converting
    <2> QED
      BY <1>0, <1>1, <2>1, Writes, FieldWrites
  <1>2. ASSUME RenameTables \/ RenameSlot
        PROVE  LET d == db[job.cur]
               IN  /\ RenameTables => Edited(job.cur, d.key, "new", d.name, d.scan)
                   /\ RenameSlot => Edited(job.cur, d.key, d.tables, "new", d.scan)
    <2>1. job.cur \in Present
      BY <1>2 DEF RenameTables, RenameSlot, FilesInv, JobInv
    <2> QED
      BY <1>0, <1>2, <2>1, Writes, FieldWrites
  <1>3. ASSUME SaveWords
        PROVE  LET d == db[Original] IN Edited(Original, d.key, d.tables, d.name, d.scan)
    <2>1. Original \in Present
      BY <1>3 DEF SaveWords, FilesInv, JobInv, Present
    <2> QED
      BY <1>0, <1>3, <2>1, Writes, FieldWrites
  <1>4. ASSUME SaveSlotWords
        PROVE  LET d == db[job.mint] IN Edited(job.mint, d.key, d.tables, d.name, d.scan)
    <2>1. job.mint \in Present
      BY <1>4 DEF SaveSlotWords, FilesInv, JobInv, Present
    <2> QED
      BY <1>0, <1>4, <2>1, Writes, FieldWrites
  <1>5. ASSUME RestoreBatch \/ ScanBegins \/ ScanNotNeeded \/ RestoreDone PROVE Selected \in Present
    BY <1>0, <1>5 DEF RestoreBatch, ScanBegins, ScanNotNeeded, RestoreDone, HasOriginal, FilesInv,
       ScanInv, Present
  <1>6. ASSUME RestoreBatch
        PROVE  LET d == db[Selected] IN Edited(Selected, d.key, d.tables, d.name, d.scan)
    BY <1>0, <1>5, <1>6, Writes, FieldWrites
  <1>7. ASSUME ScanBegins
        PROVE  LET d == db[Selected] IN Edited(Selected, d.key, d.tables, d.name, "begun")
    BY <1>0, <1>5, <1>7, Writes, FieldWrites
  <1>8. ASSUME ScanNotNeeded \/ RestoreDone
        PROVE  LET d == db[Selected] IN Edited(Selected, d.key, d.tables, d.name, "complete")
    BY <1>0, <1>5, <1>8, Writes, FieldWrites
  <1>9. ASSUME RecordScan
        PROVE  \E m \in Mints : Edited(m, db[m].key, db[m].tables, db[m].name,
                                       IF job.op = "create" THEN "complete" ELSE "begun")
    <2> DEFINE m == IF job.op = "again" THEN Selected ELSE job.mint
    <2>1. m \in Present
      BY <1>0, <1>9 DEF RecordScan, FilesInv, JobInv, Present
    <2>2. m \in Mints
      BY <2>1 DEF Present
    <2>3. Edited(m, db[m].key, db[m].tables, db[m].name,
                 IF job.op = "create" THEN "complete" ELSE "begun")
      BY <1>0, <1>9, <2>1, Writes, FieldWrites
    <2> QED
      BY <2>2, <2>3
  <1>10. ASSUME NEW m \in Mints, NEW p \in BOOLEAN, Payment(m, p)
         PROVE  Edited(m, db[m].key, db[m].tables, db[m].name, db[m].scan)
    <2>1. m \in Present
      BY <1>10 DEF Payment, Present
    <2> QED
      BY <1>0, <1>10, <2>1, Writes, FieldWrites
  <1> QED
    BY <1>1, <1>2, <1>3, <1>4, <1>6, <1>7, <1>8, <1>9, <1>10

\* No step loses a wallet.
Kept == db' \in [Mints -> Dbs \cup {NoDb}] /\ Present \subseteq Present'

LEMMA WalletsAreKept ==
    ASSUME FilesInv, [FilesNext]_filesVars
    PROVE  Kept
  <1>0. FilesTypeOK
    BY DEF FilesInv, PlaceInv
  <1>1. ASSUME db' = db PROVE Kept
    BY <1>0, <1>1 DEF Kept, FilesTypeOK, Present, Exists
  <1>2. ASSUME NEW x, NEW r, Written(x, r) PROVE Kept
    BY <1>0, <1>2, WriteKeeps DEF Kept
  <1>3. CASE \/ LaunchInPlace \/ LaunchCopies \/ CopyDone \/ CreateAccount \/ OpenWallet \/ RestoreAgain
             \/ Seal \/ RenameActive \/ Converted \/ SelectSlot \/ StepFails \/ Crash
             \/ \E m \in Mints : CopyFile(m) \/ RestoreAccount(m) \/ SetMint(m) \/ SelectWallet(m)
             \/ UNCHANGED filesVars
    BY <1>1, <1>3 DEF LaunchInPlace, LaunchCopies, CopyDone, CreateAccount, OpenWallet,
       RestoreAgain,
       Seal, RenameActive, Converted, SelectSlot, StepFails, Crash, CopyFile, RestoreAccount, SetMint,
       SelectWallet, Begins, filesVars
  <1>4. CASE Publish
    BY <1>1, <1>4, PublishKeeps
  <1>5. CASE InitializeWallet \/ MintSlot
    <2>1. PICK m \in Mints : StoreFile(m)
      BY <1>5, WalletFilesAssumption DEF InitializeWallet, MintSlot, FilesInv, JobInv
    <2> QED
      BY <1>0, <1>1, <1>2, <2>1, StoreWrites
  <1>6. CASE RecordScan
    BY <1>2, <1>6, Writes
  <1>7. CASE \/ RenameTables \/ RenameSlot \/ SaveWords \/ SaveSlotWords
             \/ ScanBegins \/ ScanNotNeeded \/ RestoreBatch \/ RestoreDone
             \/ \E m \in Mints : Rekey(m)
             \/ \E m \in Mints, p \in BOOLEAN : Payment(m, p)
    BY <1>2, <1>7, Writes
  <1> QED
    BY <1>3, <1>4, <1>5, <1>6, <1>7 DEF FilesNext

-----------------------------------------------------------------------------
(* A command begins *)

LEMMA BeginsWith ==
    ASSUME NEW op \in {"create", "restore", "setmint", "select", "open", "again"},
           NEW m \in Mints \cup {NoMint}, NEW l, Begins(op, m, l)
    PROVE  /\ pc = "idle" /\ pc' = (IF marker = "pending" THEN "seal" ELSE l)
           /\ job'.op = op /\ job'.mint = m
           /\ job' \in [op : {"none", "create", "restore", "setmint", "select", "open", "again"},
                        mint : Mints \cup {NoMint}, todo : SUBSET Mints, cur : Mints \cup {NoMint}]
           /\ UNCHANGED <<at, stage, db, active, marker, conn, remote, before, began>>
  BY DEF Begins, NoJob, rest

\* Nothing that is converted, or says so, is touched.
LEMMA SlotStays ==
    ASSUME SlotInv, UNCHANGED <<db, active, marker, conn>>, at' # "older" => at # "older",
           pc' \notin Converting
    PROVE  SlotInv'
  <1>1. Present' = Present
    BY DEF Present, Exists
  <1>2. (active # NoSlot => /\ active.mint # Original /\ Exists(active.mint)
                            /\ active.name = "new" => db[active.mint].name = "new")'
    BY DEF SlotInv, Exists
  <1>3. (at # "older" /\ marker # "pending" =>
            conn # "derived" /\ \A m \in Present : Current(m))'
    BY <1>1 DEF SlotInv, Current, Readable
  <1> QED
    BY <1>2, <1>3 DEF SlotInv, Converting

-----------------------------------------------------------------------------
(* Where the data is *)

LEMMA NextKeepsPlace ==
    ASSUME FilesInv, [FilesNext]_filesVars
    PROVE  PlaceInv'
  <1> USE WalletFilesAssumption
      DEF FilesInv, PlaceInv, Commands, Converting, rest, Goto, Return, FilesTypeOK, Labels
  <1>0. db' \in [Mints -> Dbs \cup {NoDb}] /\ Present \subseteq Present'
    BY WalletsAreKept DEF Kept
  <1>1. CASE LaunchInPlace \/ LaunchCopies \/ CopyDone \/ \E m \in Mints : CopyFile(m)
    BY <1>0, <1>1 DEF LaunchInPlace, LaunchCopies, CopyDone, CopyFile, Present, Exists
  <1>2. CASE Publish
    BY <1>0, <1>2 DEF Publish
  <1>3. ASSUME NEW op \in {"create", "restore", "setmint", "select", "open", "again"},
               NEW m \in Mints \cup {NoMint}, NEW l \in Commands, Begins(op, m, l)
        PROVE  PlaceInv'
    <2>1. /\ pc = "idle" /\ pc' = (IF marker = "pending" THEN "seal" ELSE l)
          /\ job' \in [op : {"none", "create", "restore", "setmint", "select", "open", "again"},
                      mint : Mints \cup {NoMint}, todo : SUBSET Mints, cur : Mints \cup {NoMint}]
          /\ UNCHANGED <<at, stage, db, active, marker, conn, remote, before, began>>
      BY <1>3, BeginsWith
    <2>2. Present' = Present
      BY <2>1 DEF Present, Exists
    <2> QED
      BY <2>1, <2>2
  <1>4. CASE CreateAccount \/ OpenWallet \/ RestoreAgain
    BY <1>3, <1>4 DEF CreateAccount, OpenWallet, RestoreAgain
  <1>5. ASSUME NEW m \in Mints, RestoreAccount(m) \/ SetMint(m) \/ SelectWallet(m) PROVE PlaceInv'
    BY <1>3, <1>5 DEF RestoreAccount, SetMint, SelectWallet
  <1>6. CASE Seal \/ \E m \in Mints : Rekey(m)
    <2>1. Present \in SUBSET Mints
      BY DEF Present
    <2>2. CASE Seal
      BY <1>0, <2>1, <2>2 DEF Seal
    <2>3. ASSUME NEW m \in Mints, Rekey(m) PROVE PlaceInv'
      <3>1. job.todo \ {m} \in SUBSET Mints
        OBVIOUS
      <3> QED
        BY <1>0, <2>3, <3>1 DEF Rekey
    <2> QED
      BY <1>6, <2>2, <2>3
  <1>7. CASE RenameTables \/ RenameSlot
    BY <1>0, <1>7 DEF RenameTables, RenameSlot
  <1>8. CASE RenameActive
    BY <1>0, <1>8 DEF RenameActive, Ages, NoSlot
  <1>9. CASE Converted
    <2>1. pc' \in Commands /\ job' = job
      BY <1>9 DEF Converted, FirstLabel, JobInv
    <2> QED
      BY <1>0, <1>9, <2>1 DEF Converted
  <1>10. CASE InitializeWallet \/ MintSlot \/ SaveWords \/ SaveSlotWords \/ RecordScan
    BY <1>0, <1>10 DEF InitializeWallet, MintSlot, SaveWords, SaveSlotWords, RecordScan
  <1>11. CASE SelectSlot
    <2>1. active' \in [mint : Mints, name : Ages] \cup {NoSlot}
      BY <1>11, DbOrNone DEF SelectSlot, JobInv, Dbs
    <2> QED
      BY <1>0, <1>11, <2>1 DEF SelectSlot, NoJob
  <1>12. CASE ScanBegins \/ ScanNotNeeded \/ RestoreDone \/ RestoreBatch
    <2>1. Selected \in Mints
      BY DEF Selected, NoSlot
    <2> QED
      BY <1>0, <1>12, <2>1 DEF ScanBegins, ScanNotNeeded, RestoreDone, RestoreBatch, NoJob
  <1>13. CASE StepFails \/ Crash
    BY <1>0, <1>13 DEF StepFails, Crash, NoJob
  <1>14. CASE \E m \in Mints, p \in BOOLEAN : Payment(m, p)
    BY <1>0, <1>14 DEF Payment
  <1>15. CASE UNCHANGED filesVars
    BY <1>15 DEF filesVars, Present, Exists
  <1> QED
    BY <1>1, <1>2, <1>4, <1>5, <1>6, <1>7, <1>8, <1>9, <1>10, <1>11, <1>12, <1>13, <1>14, <1>15
    DEF FilesNext

-----------------------------------------------------------------------------
(* The command that runs *)

LEMMA NextKeepsJob ==
    ASSUME FilesInv, [FilesNext]_filesVars
    PROVE  JobInv'
  <1> USE WalletFilesAssumption
      DEF FilesInv, PlaceInv, JobInv, Commands, Converting, rest, Goto, Return, FilesTypeOK
  <1>0. /\ db' \in [Mints -> Dbs \cup {NoDb}] /\ Present \subseteq Present'
        /\ \A m \in Mints : m \in Present => Exists(m)'
        /\ \A m \in Mints : Exists(m) => m \in Present
    BY WalletsAreKept DEF Kept, Present, Exists
  <1>1. CASE \/ LaunchInPlace \/ LaunchCopies \/ CopyDone \/ Publish \/ StepFails \/ Crash
             \/ \E m \in Mints : CopyFile(m)
    BY <1>0, <1>1 DEF LaunchInPlace, LaunchCopies, CopyDone, Publish, StepFails, Crash, CopyFile,
       NoJob
  <1>2. CASE CreateAccount
    BY <1>0, <1>2 DEF CreateAccount, Begins, NoJob
  <1>3. CASE OpenWallet \/ RestoreAgain
    <2>1. Begins("open", NoMint, "scan") \/ Begins("again", NoMint, "record")
      BY <1>3 DEF OpenWallet, RestoreAgain
    <2>2. /\ job'.op \in {"open", "again"} /\ pc' \in {"seal", "scan", "record"}
          /\ pc' = "record" => job'.op = "again"
      BY <2>1, BeginsWith
    <2> QED
      BY <2>2
  <1>4. ASSUME NEW m \in Mints, RestoreAccount(m) \/ SetMint(m) \/ SelectWallet(m) PROVE JobInv'
    <2>1. Begins("restore", m, "init") \/ Begins("setmint", m, "slot") \/ Begins("select", m, "select")
      BY <1>4 DEF RestoreAccount, SetMint, SelectWallet
    <2>2. /\ job'.op \in {"restore", "setmint", "select"} /\ job'.mint = m
          /\ pc' \in {"seal", "init", "slot", "select"}
          /\ pc' = "init" => job'.op = "restore"
          /\ pc' = "slot" => job'.op = "setmint"
      BY <2>1, BeginsWith
    <2> QED
      BY <2>2
  <1>5. CASE Seal
    BY <1>0, <1>5 DEF Seal
  <1>6. ASSUME NEW m \in Mints, Rekey(m) PROVE JobInv'
    BY <1>0, <1>6 DEF Rekey
  <1>7. CASE RenameTables \/ RenameSlot \/ RenameActive
    BY <1>0, <1>7 DEF RenameTables, RenameSlot, RenameActive
  <1>8. CASE Converted
    <2>1. job' = job /\ remote' = remote /\ pc' = FirstLabel
      BY <1>8 DEF Converted
    <2>2. job.op \in {"create", "restore", "setmint", "select", "open", "again"}
      BY <1>8 DEF Converted
    <2> QED
      BY <2>1, <2>2 DEF FirstLabel
  <1>9. CASE InitializeWallet
    <2>1. Exists(Original)'
      BY <1>9, WriteKeeps, StoreWrites DEF InitializeWallet, Present, Exists
    <2> QED
      BY <1>0, <1>9, <2>1 DEF InitializeWallet
  <1>10. CASE MintSlot
    <2>1. job.mint \in Mints
      BY <1>10 DEF MintSlot
    <2>2. Exists(job.mint)'
      BY <1>10, <2>1, WriteKeeps, StoreWrites DEF MintSlot, Present, Exists
    <2> QED
      BY <1>0, <1>10, <2>2 DEF MintSlot
  <1>11. CASE SaveWords \/ SaveSlotWords \/ RecordScan \/ SelectSlot
    BY <1>0, <1>11 DEF SaveWords, SaveSlotWords, RecordScan, SelectSlot, NoJob
  <1>12. CASE ScanBegins \/ ScanNotNeeded \/ RestoreDone
    BY <1>0, <1>12 DEF ScanBegins, ScanNotNeeded, RestoreDone, NoJob
  <1>13. CASE RestoreBatch
    <2>1. Selected \in Mints
      BY DEF Selected, NoSlot
    <2>2. job.op # "create"
      BY <1>13, <2>1 DEF RestoreBatch
    <2> QED
      BY <1>0, <1>13, <2>2 DEF RestoreBatch
  <1>14. CASE \E m \in Mints, p \in BOOLEAN : Payment(m, p)
    BY <1>0, <1>14 DEF Payment
  <1>15. CASE UNCHANGED filesVars
    BY <1>15 DEF filesVars, Present, Exists
  <1> QED
    BY <1>1, <1>2, <1>3, <1>4, <1>5, <1>6, <1>7, <1>8, <1>9, <1>10, <1>11, <1>12, <1>13, <1>14,
       <1>15
    DEF FilesNext

-----------------------------------------------------------------------------
(* What is converted *)

LEMMA NextKeepsSlot ==
    ASSUME FilesInv, [FilesNext]_filesVars
    PROVE  SlotInv'
  <1> USE WalletFilesAssumption
      DEF FilesInv, PlaceInv, JobInv, SlotInv, Current, Readable, Commands, Converting, rest, Goto,
          Return, FilesTypeOK
  <1>0. ASSUME db' = db PROVE Present' = Present
    BY <1>0 DEF Present, Exists
  <1>1. ASSUME NEW m \in Mints PROVE m \in Present <=> Exists(m)
    BY DEF Present
  <1>1p. ASSUME NEW m \in Mints PROVE m \in Present' <=> Exists(m)'
    BY DEF Present
  <1>2. Present \subseteq Mints
    BY DEF Present
  <1>3. active # NoSlot => active.mint \in Mints
    OBVIOUS
  <1>4. CASE \/ LaunchInPlace \/ LaunchCopies \/ CopyDone \/ StepFails \/ Crash
             \/ \E m \in Mints : CopyFile(m)
    BY <1>4, SlotStays DEF LaunchInPlace, LaunchCopies, CopyDone, StepFails, Crash, CopyFile
  <1>5. CASE Publish
    BY <1>0, <1>1, <1>1p, <1>5, PublishKeeps DEF Publish
  <1>6. CASE \/ CreateAccount \/ OpenWallet \/ RestoreAgain
             \/ \E m \in Mints : RestoreAccount(m) \/ SetMint(m) \/ SelectWallet(m)
    BY <1>6, SlotStays DEF CreateAccount, OpenWallet, RestoreAgain, RestoreAccount, SetMint,
       SelectWallet, Begins
  <1>7. CASE Seal
    BY <1>0, <1>1, <1>1p, <1>7 DEF Seal
  <1>8. ASSUME NEW m \in Mints, Rekey(m) PROVE SlotInv'
    <2>1. /\ m \in Present /\ Present' = Present
          /\ \A n \in Mints \ {m} : db'[n] = db[n]
          /\ db'[m].key = "new" /\ db'[m].tables = db[m].tables /\ db'[m].name = db[m].name
      BY <1>8, Edits DEF Edited
    <2>2. /\ pc = "convert" /\ pc' = "tables" /\ job'.cur = m /\ job'.todo = job.todo \ {m}
          /\ UNCHANGED <<at, active, marker, conn>> /\ marker = "pending"
      BY <1>8 DEF Rekey
    <2>3. \A n \in Present \ job.todo : n # m => Current(n)'
      BY <1>2, <2>1, <2>2
    <2>4. active' # NoSlot =>
             /\ active'.mint # Original /\ Exists(active.mint)'
             /\ active'.name = "new" => db'[active'.mint].name = "new"
      BY <1>1, <1>1p, <1>3, <2>1, <2>2
    <2>5. \A n \in Present' \ (job'.todo \cup {job'.cur}) : Current(n)'
      BY <2>1, <2>2, <2>3, <1>8 DEF Rekey
    <2> QED
      BY <2>1, <2>2, <2>4, <2>5
  <1>9. CASE RenameTables
    <2> DEFINE c == job.cur
    <2>1. /\ c \in Present /\ Present' = Present
          /\ \A n \in Mints \ {c} : db'[n] = db[n]
          /\ db'[c].key = db[c].key /\ db'[c].tables = "new" /\ db'[c].name = db[c].name
      BY <1>9, Edits DEF Edited
    <2>2. /\ pc = "tables" /\ pc' = IF c = Original THEN "convert" ELSE "rename"
          /\ UNCHANGED <<at, active, marker, conn, job>> /\ marker = "pending"
      BY <1>9 DEF RenameTables
    <2>3. \A n \in Present \ job.todo : n # c => Current(n)'
      BY <1>2, <2>1, <2>2
    <2>4. active' # NoSlot =>
             /\ active'.mint # Original /\ Exists(active.mint)'
             /\ active'.name = "new" => db'[active'.mint].name = "new"
      BY <1>1, <1>1p, <1>3, <2>1, <2>2
    <2>5. active # [mint |-> Original, name |-> "old"]
      BY DEF NoSlot
    <2>6. CASE c = Original
      BY <2>1, <2>2, <2>3, <2>4, <2>5, <2>6
    <2>7. CASE c # Original
      BY <2>1, <2>2, <2>3, <2>4, <2>7
    <2> QED
      BY <2>6, <2>7
  <1>10. CASE RenameSlot
    BY <1>1, <1>1p, <1>2, <1>10, Edits DEF RenameSlot, Edited
  <1>11. CASE RenameActive
    <2> DEFINE c == job.cur
    <2>1. /\ pc = "active" /\ pc' = "convert" /\ Present' = Present
          /\ UNCHANGED <<at, db, marker, conn, job>> /\ marker = "pending"
          /\ c \in Present /\ c \in Mints /\ c # Original
      BY <1>0, <1>2, <1>11 DEF RenameActive
    <2>2. CASE active = [mint |-> c, name |-> "old"]
      <3>1. active' = [mint |-> c, name |-> "new"]
        BY <1>11, <2>2 DEF RenameActive
      <3> QED
        BY <1>1p, <2>1, <3>1
    <2>3. CASE active # [mint |-> c, name |-> "old"]
      <3>1. active' = active
        BY <1>11, <2>3 DEF RenameActive
      <3> QED
        BY <1>1, <1>1p, <2>1, <2>3, <3>1
    <2> QED
      BY <2>2, <2>3
  <1>12. CASE Converted
    BY <1>0, <1>1, <1>1p, <1>12 DEF Converted, FirstLabel
  <1>13. ASSUME NEW m \in Mints, StoreFile(m), pc \in Commands, pc' \in Commands,
                UNCHANGED <<at, active, marker, conn>>
         PROVE  SlotInv'
    <2>1. CASE db' = db
      BY <1>0, <1>1, <1>1p, <1>13, <2>1
    <2>2. CASE ~Exists(m) /\ Written(m, NewDb)
      <3>1. /\ Present' = Present \cup {m} /\ db'[m] = NewDb
            /\ \A n \in Mints \ {m} : db'[n] = db[n]
        BY <2>2, WriteKeeps
      <3>2. active # NoSlot => active.mint # m
        BY <2>2
      <3>3. active # [mint |-> m, name |-> "old"]
        BY <3>2 DEF NoSlot
      <3>4. at # "older" /\ marker # "pending" =>
               conn # "derived" /\ \A n \in Present' : Current(n)'
        BY <1>2, <1>13, <3>1, <3>3, NewDbType
      <3> QED
        BY <1>1, <1>1p, <1>3, <1>13, <3>1, <3>2, <3>4
    <2> QED
      BY <1>13, <2>1, <2>2, StoreWrites
  <1>14. CASE InitializeWallet \/ MintSlot
    BY <1>13, <1>14 DEF InitializeWallet, MintSlot
  <1>15. CASE SelectSlot
    BY <1>0, <1>1, <1>1p, <1>15 DEF SelectSlot, NoSlot
  <1>16. ASSUME NEW m \in Mints, NEW s, Edited(m, db[m].key, db[m].tables, db[m].name, s),
                pc \in Commands \cup {"idle"}, pc' \in Commands \cup {"idle"},
                UNCHANGED <<at, active, marker, conn>>
         PROVE  SlotInv'
    BY <1>1, <1>1p, <1>2, <1>16 DEF Edited
  <1>17. Selected \in Mints
    BY DEF Selected, NoSlot
  <1>18. CASE SaveWords \/ SaveSlotWords \/ RecordScan
    BY <1>16, <1>18, Edits DEF SaveWords, SaveSlotWords, RecordScan
  <1>19. CASE ScanBegins \/ ScanNotNeeded \/ RestoreDone \/ RestoreBatch
    BY <1>16, <1>17, <1>19, Edits DEF ScanBegins, ScanNotNeeded, RestoreDone, RestoreBatch
  <1>20. CASE \E m \in Mints, p \in BOOLEAN : Payment(m, p)
    <2>1. PICK m \in Mints, p \in BOOLEAN : Payment(m, p)
      BY <1>20
    <2>2. Edited(m, db[m].key, db[m].tables, db[m].name, db[m].scan)
      BY <2>1, Edits
    <2>3. pc = "idle" /\ pc' = "idle" /\ UNCHANGED <<at, active, marker, conn>>
      BY <2>1 DEF Payment
    <2> QED
      BY <1>16, <2>2, <2>3
  <1>21. CASE UNCHANGED filesVars
    BY <1>0, <1>1, <1>1p, <1>21 DEF filesVars
  <1> QED
    BY <1>4, <1>5, <1>6, <1>7, <1>8, <1>9, <1>10, <1>11, <1>12, <1>14, <1>15, <1>18, <1>19, <1>20,
       <1>21
    DEF FilesNext

-----------------------------------------------------------------------------
(* What was searched for *)

LEMMA NextKeepsScan ==
    ASSUME FilesInv, [FilesNext]_filesVars
    PROVE  ScanInv'
  <1> USE WalletFilesAssumption
      DEF FilesInv, PlaceInv, JobInv, ScanInv, Commands, Converting, rest, Goto, Return, FilesTypeOK
  <1>0. ASSUME NEW m \in Mints PROVE (m \in Present <=> Exists(m)) /\ (m \in Present' <=> Exists(m)')
    BY DEF Present
  <1>1. Selected \in Mints /\ Present \subseteq Mints
    BY DEF Selected, NoSlot, Present
  <1>2. ASSUME UNCHANGED <<db, remote, began>>, pc' # "restore" PROVE ScanInv'
    <2>1. Present' = Present
      BY <1>2 DEF Present, Exists
    <2> QED
      BY <1>2, <2>1
  <1>3. CASE \/ LaunchInPlace \/ LaunchCopies \/ CopyDone \/ StepFails \/ Crash
             \/ \E m \in Mints : CopyFile(m)
    BY <1>2, <1>3 DEF LaunchInPlace, LaunchCopies, CopyDone, StepFails, Crash, CopyFile
  <1>4. CASE Publish
    BY <1>2, <1>4, PublishKeeps DEF Publish
  <1>5. CASE \/ CreateAccount \/ OpenWallet \/ RestoreAgain
             \/ \E m \in Mints : RestoreAccount(m) \/ SetMint(m) \/ SelectWallet(m)
    BY <1>2, <1>5 DEF CreateAccount, OpenWallet, RestoreAgain, RestoreAccount, SetMint,
       SelectWallet,
       Begins
  <1>6. CASE Seal \/ RenameActive \/ Converted \/ SelectSlot
    BY <1>2, <1>6 DEF Seal, RenameActive, Converted, FirstLabel, SelectSlot
  <1>7. ASSUME NEW m \in Mints, NEW k, NEW t, NEW n, Edited(m, k, t, n, db[m].scan),
               UNCHANGED <<remote, began>>, pc' # "restore"
        PROVE  ScanInv'
    BY <1>1, <1>7 DEF Edited
  <1>8. CASE RenameTables \/ RenameSlot \/ SaveWords \/ SaveSlotWords
    BY <1>1, <1>7, <1>8, Edits
    DEF RenameTables, RenameSlot, SaveWords, SaveSlotWords, Edited
  <1>9. CASE \/ \E m \in Mints : Rekey(m)
             \/ \E m \in Mints, p \in BOOLEAN : Payment(m, p)
    BY <1>7, <1>9, Edits DEF Rekey, Payment
  <1>10. CASE InitializeWallet \/ MintSlot
    <2>1. /\ UNCHANGED <<remote, began>> /\ pc' # "restore"
      BY <1>10 DEF InitializeWallet, MintSlot
    <2>2. PICK m \in Mints : StoreFile(m)
      BY <1>10 DEF InitializeWallet, MintSlot
    <2>3. CASE ~Exists(m) /\ Written(m, NewDb)
      <3>1. Present' = Present \cup {m} /\ \A n \in Mints \ {m} : db'[n] = db[n]
        BY <2>3, WriteKeeps
      <3>2. m \notin began
        BY <1>0, <2>3
      <3> QED
        BY <2>1, <3>1, <3>2
    <2> QED
      BY <1>2, <2>1, <2>2, <2>3, StoreWrites
  <1>11. CASE RecordScan
    <2>1. PICK m \in Mints :
             Edited(m, db[m].key, db[m].tables, db[m].name,
                    IF job.op = "create" THEN "complete" ELSE "begun")
      BY <1>11, Edits
    <2>2. UNCHANGED <<remote, began>> /\ pc' # "restore"
      BY <1>11 DEF RecordScan
    <2> QED
      BY <2>1, <2>2 DEF Edited
  <1>12. CASE ScanBegins
    <2>1. /\ Selected \in Present /\ Present' = Present
          /\ \A m \in Mints \ {Selected} : db'[m] = db[m]
          /\ db'[Selected].scan = "begun"
      BY <1>12, Edits DEF Edited
    <2>2. began' = began \cup {Selected} /\ remote' = remote /\ Selected' = Selected
      BY <1>12 DEF ScanBegins, Selected
    <2> QED
      BY <1>0, <1>1, <2>1, <2>2
  <1>13. CASE ScanNotNeeded
    <2>1. /\ Selected \in Present /\ Present' = Present
          /\ \A m \in Mints \ {Selected} : db'[m] = db[m]
          /\ db'[Selected].scan = "complete"
      BY <1>13, Edits DEF Edited
    <2>2. /\ UNCHANGED <<began, remote>> /\ pc' = "idle"
          /\ Selected \in began => db[Selected].scan = "complete"
      BY <1>13 DEF ScanNotNeeded
    <2> QED
      BY <2>1, <2>2
  <1>14. CASE RestoreBatch
    <2>1. /\ Selected \in Present /\ Present' = Present
          /\ \A m \in Mints \ {Selected} : db'[m] = db[m]
          /\ db'[Selected].scan = db[Selected].scan
      BY <1>14, Edits DEF Edited
    <2>2. /\ began' = began /\ Selected' = Selected /\ pc = "restore"
          /\ \A m \in Mints \ {Selected} : remote'[m] = remote[m]
      BY <1>1, <1>14 DEF RestoreBatch, Selected
    <2> QED
      BY <1>0, <1>1, <2>1, <2>2
  <1>15. CASE RestoreDone
    <2>1. /\ Selected \in Present /\ Present' = Present
          /\ \A m \in Mints \ {Selected} : db'[m] = db[m]
          /\ db'[Selected].scan = "complete"
      BY <1>15, Edits DEF Edited
    <2>2. UNCHANGED <<began, remote>> /\ pc' = "idle" /\ remote[Selected] = 0
      BY <1>15 DEF RestoreDone
    <2> QED
      BY <2>1, <2>2
  <1>16. CASE UNCHANGED filesVars
    BY <1>16 DEF filesVars, Present, Exists, Selected
  <1> QED
    BY <1>3, <1>4, <1>5, <1>6, <1>8, <1>9, <1>10, <1>11, <1>12, <1>13, <1>14, <1>15, <1>16
    DEF FilesNext

-----------------------------------------------------------------------------
(* The theorems *)

LEMMA InitHolds == FilesInit => FilesInv
  <1> SUFFICES ASSUME FilesInit PROVE FilesInv
    OBVIOUS
  <1> USE WalletFilesAssumption
  <1> DEFINE old == at = "older" \/ marker = "pending"
  <1>1. PICK proofs \in BOOLEAN, scan \in {"none", "complete"} :
          db = [m \in Mints |->
                  IF m \notin before THEN NoDb
                  ELSE [(IF old THEN OldDb ELSE [NewDb EXCEPT !.recovery = TRUE])
                        EXCEPT !.scan = scan, !.proofs = proofs]]
    BY DEF FilesInit
  <1>2. ASSUME NEW d \in {OldDb, [NewDb EXCEPT !.recovery = TRUE]},
               NEW e, e = [d EXCEPT !.scan = scan, !.proofs = proofs]
        PROVE  /\ e \in Dbs /\ e # NoDb /\ e.key = d.key /\ e.tables = d.tables /\ e.name = d.name
               /\ d.key = d.name /\ d.tables = d.name /\ d.name \in Ages
    BY <1>2 DEF OldDb, NewDb, NoDb, Dbs, Ages
  <1>3. \A m \in before :
           /\ db[m] \in Dbs /\ db[m] # NoDb
           /\ db[m].name \in Ages /\ db[m].key = db[m].name /\ db[m].tables = db[m].name
           /\ ~old => db[m].name = "new"
    <2>1. before \subseteq Mints
      BY DEF FilesInit
    <2>2. [NewDb EXCEPT !.recovery = TRUE].name = "new"
      BY DEF NewDb, NoDb
    <2> QED
      BY <1>1, <1>2, <2>1, <2>2
  <1>4. Present = before /\ db \in [Mints -> Dbs \cup {NoDb}]
    <2>1. before \subseteq Mints
      BY DEF FilesInit
    <2>2. \A m \in Mints \ before : db[m] = NoDb
      BY <1>1
    <2>3. db \in [Mints -> Dbs \cup {NoDb}]
      BY <1>1, <1>2
    <2> QED
      BY <1>3, <2>1, <2>2, <2>3 DEF Present, Exists
  <1>5. /\ active \in [mint : Mints, name : Ages] \cup {NoSlot}
        /\ active # NoSlot =>
             active.mint \in before /\ active.mint # Original /\ active.name = db[active.mint].name
    BY <1>3, <1>4 DEF FilesInit, Present
  <1>6. PlaceInv
    BY <1>4, <1>5 DEF FilesInit, PlaceInv, FilesTypeOK, Labels, NoJob, Commands, Converting, Present
  <1>7. JobInv
    BY DEF FilesInit, JobInv, NoJob, Commands, Converting
  <1>8. SlotInv
    BY <1>3, <1>4, <1>5 DEF FilesInit, SlotInv, Current, Readable, Converting, Exists, NoSlot,
       Present
  <1>9. ScanInv
    BY DEF FilesInit, ScanInv
  <1> QED
    BY <1>6, <1>7, <1>8, <1>9 DEF FilesInv

LEMMA Inductive == FilesSpec => []FilesInv
  <1>1. FilesInv /\ [FilesNext]_filesVars => FilesInv'
    BY NextKeepsPlace, NextKeepsJob, NextKeepsSlot, NextKeepsScan DEF FilesInv
  <1> QED
    BY <1>1, InitHolds, PTL DEF FilesSpec

\* However often a take-over (prepare) or a conversion (prepare_identity) is cut short by a
\* crash or an error, every wallet of the earlier app is in the directory the app runs on, and
\* .active names a wallet that opens whenever nothing is left to convert.
THEOREM NoWalletIsLost == FilesSpec => []WalletsStayReachable
  <1>1. FilesInv => WalletsStayReachable
    <2> SUFFICES ASSUME FilesInv, at = "here", marker # "pending", active # NoSlot
                 PROVE  Exists(active.mint) /\ Readable(active.mint) /\ active.name = db[active.mint].name
      BY DEF FilesInv, PlaceInv, WalletsStayReachable
    <2>1. active.mint \in Present /\ active \in [mint : Mints, name : Ages]
      BY DEF FilesInv, PlaceInv, SlotInv, FilesTypeOK, Present
    <2>2. Current(active.mint)
      BY <2>1 DEF FilesInv, SlotInv
    <2>3. active.name = "new"
      BY <2>1, <2>2 DEF Current, Ages
    <2> QED
      BY <2>1, <2>2, <2>3 DEF Current, Present, FilesInv, SlotInv
  <1> QED
    BY <1>1, Inductive, PTL

\* write_progress is reached only with every database rekeyed, its tables and its file
\* renamed, and no wallet connection left on a key derived from the old seed.
THEOREM MarkMeansConverted == FilesSpec => []ConvertedMeansAll
  <1>1. FilesInv => ConvertedMeansAll
    <2> SUFFICES ASSUME FilesInv, marker = "done"
                 PROVE  /\ conn # "derived"
                        /\ \A m \in Present : Readable(m) /\ (m # Original => db[m].name = "new")
      BY DEF ConvertedMeansAll
    <2> QED
      BY DEF FilesInv, PlaceInv, SlotInv, Current
  <1> QED
    BY <1>1, Inductive, PTL

\* recover_on_open: a search that was begun is recorded complete only with nothing left at
\* the mint, also after it was cut short with proofs already in the wallet.
THEOREM ScanFindsAll == FilesSpec => []PartialScanResumes
  <1>1. FilesInv => PartialScanResumes
    BY DEF FilesInv, ScanInv, PartialScanResumes
  <1> QED
    BY <1>1, Inductive, PTL
==============================================================================
