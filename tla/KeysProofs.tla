----------------------------- MODULE KeysProofs -----------------------------
(***************************************************************************)
(* The keys, for any accounts: no key is without its account; none is lost *)
(* but by a deletion, or by forgetting the Keychain on rows that were not  *)
(* read; after an unlock or a creation that succeeded the row names the    *)
(* key that is loaded; and a lock that begins while a command runs is      *)
(* never undone by it.                                                     *)
(***************************************************************************)
EXTENDS Keys, TLAPS

\* A command that has found its accounts keeps their rows until it returns.
KnowsRows ==
    {"migrate", "check", "read", "insert", "settle", "stop", "ensure", "listen", "note", "restore",
     "store", "verify", "addstore", "final"}

\* One command at a time, with one account unless it unlocks.
CommandInv ==
    /\ pc = "idle" <=> job.op = "none"
    /\ pc \in {"present", "open", "migrate", "check", "settle"} => job.op = "unlock"
    /\ pc \in {"prepare", "secret", "files", "keys", "restore", "store", "verify", "add", "addstore",
               "final"} => job.op = "create"
    /\ pc \in {"dstop", "dfile", "dchain", "drow"} <=> job.op = "delete"
    /\ job.op # "unlock" => \A a, b \in job.who : a = b
    /\ job.todo \subseteq job.who
    /\ pc \in {"migrate", "check", "read", "insert"} /\ job.op = "unlock" => job.todo = job.who
    /\ pc \in KnowsRows => job.who \subseteq Exists
    /\ job.next = "read" => job.op = "create"

\* Keys are with an account, and lost by deleting it only.
PlaceInv ==
    /\ KeysHaveAnAccount
    /\ KeyIsKept
    /\ \A a \in forgetting \cap owned : file[a] # NoFile
    /\ pc \in {"add", "addstore"} => \A a \in job.who :
          file[a] = NoFile /\ chain[a] = NoKey /\ vault[a] = NoKey
    /\ pc \in {"dfile", "dchain", "drow"} => \A a \in job.who : vault[a] = NoKey
    /\ pc \in {"dchain", "drow"} => \A a \in job.who : file[a] = NoFile /\ a \notin owned
    /\ pc = "drow" => \A a \in job.who : chain[a] = NoKey

\* unlock_with is comparing the rows with the keys it has loaded.
Settling == pc \in {"settle", "stop"} /\ job.op = "unlock"

\* create_account has the key file and the row agree.
Agreed ==
    /\ job.op = "create"
    /\ pc \in {"read", "stop"} \/ (pc \in {"ensure", "listen", "note"} /\ job.next = "read")

\* Every account of the command is known by the key that is loaded for it.
Published == \A a \in job.who : vault[a] \in {NoKey, row[a]}

\* What a command has succeeded for is left alone by the others, and a command succeeds with
\* the rows and the loaded keys agreed.
LoadInv ==
    /\ LoadedKeyIsPublished
    /\ pc \notin {"idle", "end"} => settled \cap job.who = {}
    /\ pc \in {"present", "open"} /\ job.who = {} => settled = {}
    /\ Settling => \A a \in job.who \ job.todo : vault[a] \in {NoKey, row[a]}
    /\ pc = "final" => Published
    /\ pc \in {"ensure", "listen", "note"} /\ job.next = "end" => Published
    /\ pc = "insert" /\ job.op = "create" => \A a \in job.who : job.copy[a] = row[a]
    /\ Agreed => \A a \in job.who : file[a] # NoFile /\ file[a].key = row[a]
    /\ pc = "store" => \A a \in job.who : job.backup = file[a]
    /\ pc = "verify" => \A a \in job.who : file[a] # NoFile

\* What the lock command has done is not undone ...
Cleared ==
    /\ locking = "no" => vault = Clear /\ pass = NoPass
    /\ locking = "pass" => vault = Clear

\* ... but by a command that has yet to look at the epochs.
Looks ==
    \/ job.op = "unlock" /\ pc \notin {"present", "open"}
    \/ pc \in {"files", "final"}

LockInv ==
    lockSeen =>
        /\ pc # "idle" => job.walletMoved /\ (locking # "auth" => job.moved)
        /\ ~Looks => Cleared

KeptInv == KeysTypeOK /\ CommandInv /\ PlaceInv /\ LoadInv /\ LockInv

LEMMA KeyFacts ==
    /\ NoKey \notin TransportKeys /\ NoFile \notin KeyFiles /\ NoFile.key = NoKey
    /\ NoJob \in Jobs /\ NoStarter \in Starters
    /\ Clear \in [Accounts -> TransportKeys \cup {NoKey}]
  BY KeysAssumption DEF TransportKeys, KeyFiles, NoFile, NoJob, Jobs, NoStarter, Starters, Clear

\* What the starter has in hand, before and after it listens.
LEMMA PairCopy ==
    ASSUME starter \in Starters, starter.at # <<>>, Len(starter.at) = 2
    PROVE  starter.at \in Copies
  BY DEF Starters, Copies

LEMMA ListeningCopy ==
    ASSUME starter \in Starters, Len(starter.at) = 3
    PROVE  starter.at[1] \in Accounts /\ starter.at[2] \in TransportKeys
  BY DEF Starters, Copies

\* A file is written with the device's passphrase.
LEMMA StoredFile ==
    ASSUME KeysTypeOK, pass # NoPass, NEW a \in Accounts, NEW key \in TransportKeys, file' = Stored(a, key)
    PROVE  /\ file'[a] = [key |-> key, seal |-> Device] /\ file'[a] # NoFile /\ file'[a].key = key
           /\ file' \in [Accounts -> KeyFiles \cup {NoFile}]
           /\ \A b \in Accounts \ {a} : file'[b] = file[b]
  <1>1. file' = [file EXCEPT ![a] = [key |-> key, seal |-> Device]]
    BY DEF KeysTypeOK, Stored
  <1>2. [key |-> key, seal |-> Device] \in KeyFiles
    BY DEF KeyFiles
  <1>3. [key |-> key, seal |-> Device].key = key
    OBVIOUS
  <1> QED
    BY <1>1, <1>2, <1>3, KeyFacts DEF KeysTypeOK

LEMMA ReadableFile ==
    ASSUME KeysTypeOK, NEW a \in Accounts, Readable(a)
    PROVE  /\ file[a].key \in TransportKeys /\ file[a] # NoFile
           /\ file[a] = [key |-> file[a].key, seal |-> Device]
  BY DEF KeysTypeOK, Readable, KeyFiles

\* A command that returns with everything as it is, and was not to look at the epochs.
LEMMA ReturnKeeps ==
    ASSUME KeptInv, Return, UNCHANGED <<disk, memory, aside>>, ~Looks
    PROVE  KeptInv'
  <1> USE KeysAssumption, KeyFacts DEF KeptInv, Return, disk, memory, aside, history
  <1>1. KeysTypeOK'
    BY DEF KeysTypeOK, Labels
  <1>2. CommandInv'
    BY DEF CommandInv, NoJob, KnowsRows
  <1>3. PlaceInv'
    BY DEF PlaceInv, KeysHaveAnAccount, KeyIsKept, Exists
  <1>4. LoadInv'
    BY DEF LoadInv, LoadedKeyIsPublished, Settling, Agreed, NoJob
  <1>5. LockInv'
    BY DEF LockInv, Cleared, Clear
  <1> QED
    BY <1>1, <1>2, <1>3, <1>4, <1>5

\* What happens to the accounts of a command is no matter to those that others succeeded for.
LEMMA OthersStayPublished ==
    ASSUME KeptInv, pc \notin {"idle", "end"}, settled' = settled,
           \A b \in Accounts \ job.who : vault'[b] \in {NoKey, vault[b]} /\ row'[b] = row[b]
    PROVE  LoadedKeyIsPublished'
  BY DEF KeptInv, KeysTypeOK, LoadInv, LoadedKeyIsPublished

\* Files that come and do not go, for accounts that are there.
LEMMA FilesStayPlaced ==
    ASSUME KeptInv, NEW a \in Exists, UNCHANGED <<row, chain, vault, forgetting>>,
           owned' \in {owned, owned \cup {a}}, file'[a] # NoFile,
           \A b \in Accounts \ {a} : file'[b] = file[b],
           pc' \notin {"add", "addstore", "dfile", "dchain", "drow"}
    PROVE  PlaceInv'
  <1> USE DEF KeptInv
  <1>1. \A b \in Accounts : file[b] # NoFile => file'[b] # NoFile
    OBVIOUS
  <1>2. KeysHaveAnAccount'
    BY DEF PlaceInv, KeysHaveAnAccount, Exists
  <1>3. owned \subseteq Accounts /\ forgetting \subseteq Accounts /\ a \in Accounts
    BY DEF KeysTypeOK, Exists
  <1>4. KeyIsKept'
    BY <1>1, <1>3 DEF PlaceInv, KeyIsKept
  <1>5. \A b \in forgetting' \cap owned' : file'[b] # NoFile
    BY <1>1, <1>3 DEF PlaceInv
  <1> QED
    BY <1>2, <1>4, <1>5 DEF PlaceInv

LEMMA PresentKeeps ==
    ASSUME KeptInv, Present
    PROVE  KeptInv'
  <1> USE KeysAssumption, KeyFacts DEF KeptInv, Present, disk, memory, aside, history, Goto, Return, LockNow
  <1>1. KeysTypeOK'
    BY DEF KeysTypeOK, Labels, Jobs, Stored, PutBack, StopListening
  <1>2. CommandInv'
    BY DEF KeysTypeOK, CommandInv, Jobs, NoJob, KnowsRows, Exists
  <1>3. PlaceInv'
    BY DEF KeysTypeOK, PlaceInv, CommandInv, LoadInv, KeysHaveAnAccount, KeyIsKept, Exists, Jobs,
       NoJob, Clear, Stored, PutBack, KnowsRows
  <1>4. LoadInv'
    BY DEF KeysTypeOK, CommandInv, LoadInv, LoadedKeyIsPublished, Published, Settling, Agreed, Jobs,
       NoJob, Clear
  <1>5. LockInv'
    BY DEF KeysTypeOK, CommandInv, LockInv, Cleared, Looks, Clear, Jobs, NoJob
  <1> QED
    BY <1>1, <1>2, <1>3, <1>4, <1>5

\* A command finds its accounts, or a lock begins.
LEMMA JobEdits ==
    ASSUME NEW j \in Jobs
    PROVE  /\ \A who \in SUBSET Accounts, copy \in [Accounts -> TransportKeys \cup {NoKey}] :
                 [j EXCEPT !.who = who, !.todo = who, !.copy = copy] \in Jobs
           /\ \A b \in BOOLEAN : [j EXCEPT !.walletMoved = b] \in Jobs /\ [j EXCEPT !.moved = b] \in Jobs
  <1>1. ASSUME NEW who \in SUBSET Accounts, NEW copy \in [Accounts -> TransportKeys \cup {NoKey}]
        PROVE  [j EXCEPT !.who = who, !.todo = who, !.copy = copy] \in Jobs
    BY DEF Jobs
  <1>2. ASSUME NEW b \in BOOLEAN
        PROVE  [j EXCEPT !.walletMoved = b] \in Jobs /\ [j EXCEPT !.moved = b] \in Jobs
    BY DEF Jobs
  <1> QED
    BY <1>1, <1>2

LEMMA OpenKeysKeeps ==
    ASSUME KeptInv, OpenKeys
    PROVE  KeptInv'
  <1> USE KeysAssumption, KeyFacts DEF KeptInv, OpenKeys, disk, memory, aside, history, Goto, Return, LockNow
  <1>1. KeysTypeOK'
    <2>1. job' \in Jobs
      <3> DEFINE who == IF job.who = {} THEN Exists ELSE job.who
      <3>1. who \subseteq Accounts /\ job' = [job EXCEPT !.who = who, !.todo = who, !.copy = row]
        BY DEF KeysTypeOK, Jobs, Exists
      <3>2. job \in Jobs /\ row \in [Accounts -> TransportKeys \cup {NoKey}]
        BY DEF KeysTypeOK
      <3> HIDE DEF who, KeptInv, OpenKeys
      <3> QED
        BY <3>1, <3>2, JobEdits
    <2>2. pc' \in Labels
      BY DEF Labels
    <2> QED
      BY <2>1, <2>2 DEF KeysTypeOK
  <1>2. CommandInv'
    BY DEF KeysTypeOK, CommandInv, Jobs, NoJob, KnowsRows, Exists
  <1>3. PlaceInv'
    BY DEF KeysTypeOK, PlaceInv, CommandInv, LoadInv, KeysHaveAnAccount, KeyIsKept, Exists, Jobs,
       NoJob, Clear, Stored, PutBack, KnowsRows
  <1>4. LoadInv'
    BY DEF KeysTypeOK, CommandInv, LoadInv, LoadedKeyIsPublished, Published, Settling, Agreed, Jobs,
       NoJob, Clear
  <1>5. LockInv'
    BY DEF KeysTypeOK, CommandInv, LockInv, Cleared, Looks, Clear, Jobs, NoJob
  <1> QED
    BY <1>1, <1>2, <1>3, <1>4, <1>5

LEMMA CheckMigratedKeeps ==
    ASSUME KeptInv, CheckMigrated
    PROVE  KeptInv'
  <1> USE KeysAssumption, KeyFacts DEF KeptInv, CheckMigrated, disk, memory, aside, history, Goto, Return, LockNow
  <1>1. KeysTypeOK'
    BY DEF KeysTypeOK, Labels, Jobs, Stored, PutBack, StopListening
  <1>2. CommandInv'
    BY DEF KeysTypeOK, CommandInv, Jobs, NoJob, KnowsRows, Exists
  <1>3. PlaceInv'
    BY DEF KeysTypeOK, PlaceInv, CommandInv, LoadInv, KeysHaveAnAccount, KeyIsKept, Exists, Jobs,
       NoJob, Clear, Stored, PutBack, KnowsRows
  <1>4. LoadInv'
    BY DEF KeysTypeOK, CommandInv, LoadInv, LoadedKeyIsPublished, Published, Settling, Agreed, Jobs,
       NoJob, Clear
  <1>5. LockInv'
    BY DEF KeysTypeOK, CommandInv, LockInv, Cleared, Looks, Clear, Jobs, NoJob
  <1> QED
    BY <1>1, <1>2, <1>3, <1>4, <1>5

LEMMA ReadKeysKeeps ==
    ASSUME KeptInv, ReadKeys
    PROVE  KeptInv'
  <1> USE KeysAssumption, KeyFacts DEF KeptInv, disk, aside, history
  <1>1. /\ pc = "read" /\ job.op \in {"unlock", "create"} /\ job \in Jobs /\ KeysTypeOK /\ ~Settling
        /\ job.who \subseteq Exists /\ UNCHANGED <<disk, vault, pool, task, aside, history>>
    BY DEF Goto, Return, ReadKeys, CommandInv, KeysTypeOK, Settling, Jobs, KnowsRows
  <1>2. CASE /\ \A a \in job.who : Readable(a)
             /\ job' = [job EXCEPT !.copy =
                    [a \in Accounts |-> IF a \in job.who THEN file[a].key ELSE @[a]]]
             /\ pc' = "insert" /\ UNCHANGED <<pass, history>>
    <2> DEFINE c == [a \in Accounts |-> IF a \in job.who THEN file[a].key ELSE job.copy[a]]
    <2>1. \A a \in job.who : a \in Accounts /\ file[a].key \in TransportKeys
                             /\ file[a] = [key |-> file[a].key, seal |-> Device]
      BY <1>1, <1>2, ReadableFile DEF Exists
    <2>2. c \in [Accounts -> TransportKeys \cup {NoKey}] /\ \A a \in job.who : c[a] = file[a].key
      BY <1>1, <2>1 DEF Jobs
    <2>3. job' = [job EXCEPT !.copy = c] /\ pc' = "insert" /\ UNCHANGED <<pass, history>>
      BY <1>1, <1>2 DEF Jobs
    <2> HIDE DEF c
    <2>4. /\ job' \in Jobs /\ job'.op = job.op /\ job'.who = job.who /\ job'.todo = job.todo
          /\ job'.next = job.next /\ job'.copy = c
          /\ job'.moved = job.moved /\ job'.walletMoved = job.walletMoved
      BY <1>1, <2>2, <2>3 DEF Jobs
    <2>5. KeysTypeOK'
      BY <1>1, <2>3, <2>4 DEF KeysTypeOK, Labels
    <2>6. CommandInv'
      BY <1>1, <2>3, <2>4 DEF CommandInv, KnowsRows, Exists
    <2>7. PlaceInv'
      BY <1>1, <2>3, <2>4 DEF PlaceInv, KeysHaveAnAccount, KeyIsKept, Exists
    <2>8. ~Settling' /\ ~Agreed'
      BY <1>1, <2>3, <2>4 DEF Settling, Agreed
    <2>9. job.op = "create" => \A a \in job.who : c[a] = row[a]
      BY <1>1, <2>2 DEF LoadInv, Agreed
    <2>10. LoadInv'
      BY <1>1, <2>3, <2>4, <2>8, <2>9 DEF LoadInv, LoadedKeyIsPublished
    <2>11. LockInv'
      BY <1>1, <2>3, <2>4 DEF LockInv, Looks, Cleared, Clear
    <2> QED
      BY <2>5, <2>6, <2>7, <2>10, <2>11
  <1>3. CASE job.op = "unlock" /\ pass' = NoPass /\ Goto("end")
    <2> USE DEF Goto
    <2>1. KeysTypeOK'
      BY <1>1, <1>3 DEF KeysTypeOK, Labels
    <2>2. CommandInv'
      BY <1>1, <1>3 DEF CommandInv, KnowsRows
    <2>3. PlaceInv'
      BY <1>1, <1>3 DEF PlaceInv, KeysHaveAnAccount, KeyIsKept, Exists
    <2>4. LoadInv'
      BY <1>1, <1>3 DEF LoadInv, LoadedKeyIsPublished, Settling, Agreed
    <2>5. LockInv'
      BY <1>1, <1>3 DEF LockInv, Looks
    <2> QED
      BY <2>1, <2>2, <2>3, <2>4, <2>5
  <1>4. CASE job.op = "create" /\ UNCHANGED pass /\ Return
    <2>1. ~Looks /\ UNCHANGED memory
      BY <1>1, <1>4 DEF Looks, memory
    <2> QED
      BY <1>1, <1>4, <2>1, ReturnKeeps
  <1> QED
    BY <1>2, <1>3, <1>4 DEF ReadKeys

LEMMA InsertKeysKeeps ==
    ASSUME KeptInv, InsertKeys
    PROVE  KeptInv'
  <1> USE KeysAssumption, KeyFacts DEF KeptInv, disk, aside, history, Goto
  <1>1. /\ pc = "insert" /\ job \in Jobs /\ KeysTypeOK /\ job.who \subseteq Exists
        /\ UNCHANGED <<disk, pass, pool, task, aside, job, history>>
        /\ pc' = (IF job.op = "unlock" THEN "settle" ELSE "final") /\ job.op \in {"unlock", "create"}
    BY DEF InsertKeys, CommandInv, KeysTypeOK, Jobs, KnowsRows
  <1>2. ASSUME NEW a \in Accounts
        PROVE  vault'[a] = IF a \in job.who THEN job.copy[a] ELSE vault[a]
    BY DEF InsertKeys
  <1>3. job.who \subseteq Accounts /\ job.copy \in [Accounts -> TransportKeys \cup {NoKey}]
    BY <1>1 DEF Jobs
  <1>4. KeysTypeOK'
    <2>1. vault' \in [Accounts -> TransportKeys \cup {NoKey}]
      BY <1>1, <1>3 DEF InsertKeys, KeysTypeOK
    <2> QED
      BY <1>1, <2>1 DEF KeysTypeOK, Labels
  <1>5. CommandInv'
    BY <1>1 DEF CommandInv, KnowsRows, Exists
  <1>6. PlaceInv'
    BY <1>1, <1>2, <1>3 DEF PlaceInv, KeysHaveAnAccount, KeyIsKept, Exists
  <1>7. LoadedKeyIsPublished'
    BY <1>1, <1>2, OthersStayPublished
  <1>8. CASE job.op = "unlock"
    <2>1. pc' = "settle" /\ job.todo = job.who
      BY <1>1, <1>8 DEF CommandInv
    <2>2. LoadInv'
      BY <1>1, <1>7, <1>8, <2>1 DEF LoadInv, Agreed
    <2>3. LockInv'
      BY <1>1, <1>8, <2>1 DEF LockInv, Looks
    <2> QED
      BY <1>4, <1>5, <1>6, <2>2, <2>3
  <1>9. CASE job.op = "create"
    <2>1. pc' = "final" /\ ~Settling'
      BY <1>1, <1>9 DEF Settling
    <2>2. Published'
      BY <1>1, <1>2, <1>3, <1>9 DEF LoadInv, Published
    <2>3. LoadInv'
      BY <1>1, <1>7, <2>1, <2>2 DEF LoadInv, Agreed
    <2>4. LockInv'
      BY <1>1, <1>9, <2>1 DEF LockInv, Looks
    <2> QED
      BY <1>4, <1>5, <1>6, <2>3, <2>4
  <1> QED
    BY <1>1, <1>8, <1>9

LEMMA StopStaleKeeps ==
    ASSUME KeptInv, StopStale
    PROVE  KeptInv'
  <1> USE KeysAssumption, KeyFacts DEF KeptInv, StopStale, disk, memory, aside, history, Goto, Return, LockNow
  <1>1. KeysTypeOK'
    <2>1. task' \in [Accounts -> TransportKeys \cup {NoKey}] /\ pool' \in [Accounts -> TransportKeys \cup {NoKey}]
      BY DEF KeysTypeOK, StopListening
    <2>2. pc' \in Labels /\ job' = job
      BY DEF Labels
    <2> QED
      BY <2>1, <2>2 DEF KeysTypeOK
  <1>2. CommandInv'
    BY DEF KeysTypeOK, CommandInv, Jobs, NoJob, KnowsRows, Exists
  <1>3. PlaceInv'
    BY DEF KeysTypeOK, PlaceInv, CommandInv, LoadInv, KeysHaveAnAccount, KeyIsKept, Exists, Jobs,
       NoJob, Clear, Stored, PutBack, KnowsRows
  <1>4. LoadInv'
    BY DEF KeysTypeOK, CommandInv, LoadInv, LoadedKeyIsPublished, Published, Settling, Agreed, Jobs,
       NoJob, Clear
  <1>5. LockInv'
    BY DEF KeysTypeOK, CommandInv, LockInv, Cleared, Looks, Clear, Jobs, NoJob
  <1> QED
    BY <1>1, <1>2, <1>3, <1>4, <1>5

LEMMA SettledKeeps ==
    ASSUME KeptInv, Settled
    PROVE  KeptInv'
  <1> USE KeysAssumption, KeyFacts DEF KeptInv, Settled, disk, memory, aside, history, Goto, Return, LockNow
  <1>1. KeysTypeOK'
    BY DEF KeysTypeOK, Labels, Jobs, Stored, PutBack, StopListening
  <1>2. CommandInv'
    BY DEF KeysTypeOK, CommandInv, Jobs, NoJob, KnowsRows, Exists
  <1>3. PlaceInv'
    BY DEF KeysTypeOK, PlaceInv, CommandInv, LoadInv, KeysHaveAnAccount, KeyIsKept, Exists, Jobs,
       NoJob, Clear, Stored, PutBack, KnowsRows
  <1>4. LoadInv'
    BY DEF KeysTypeOK, CommandInv, LoadInv, LoadedKeyIsPublished, Published, Settling, Agreed, Jobs,
       NoJob, Clear
  <1>5. LockInv'
    BY DEF KeysTypeOK, CommandInv, LockInv, Cleared, Looks, Clear, Jobs, NoJob
  <1> QED
    BY <1>1, <1>2, <1>3, <1>4, <1>5

LEMMA ListenKeeps ==
    ASSUME KeptInv, Listen
    PROVE  KeptInv'
  <1> USE KeysAssumption, KeyFacts DEF KeptInv, Listen, disk, memory, aside, history, Goto, Return, LockNow
  <1>1. KeysTypeOK'
    <2>1. task' \in [Accounts -> TransportKeys \cup {NoKey}] /\ pool' \in [Accounts -> TransportKeys \cup {NoKey}]
      BY DEF KeysTypeOK, Jobs
    <2> QED
      BY <2>1 DEF KeysTypeOK, Labels
  <1>2. CommandInv'
    BY DEF KeysTypeOK, CommandInv, Jobs, NoJob, KnowsRows, Exists
  <1>3. PlaceInv'
    BY DEF KeysTypeOK, PlaceInv, CommandInv, LoadInv, KeysHaveAnAccount, KeyIsKept, Exists, Jobs,
       NoJob, Clear, Stored, PutBack, KnowsRows
  <1>4. LoadInv'
    BY DEF KeysTypeOK, CommandInv, LoadInv, LoadedKeyIsPublished, Published, Settling, Agreed, Jobs,
       NoJob, Clear
  <1>5. LockInv'
    BY DEF KeysTypeOK, CommandInv, LockInv, Cleared, Looks, Clear, Jobs, NoJob
  <1> QED
    BY <1>1, <1>2, <1>3, <1>4, <1>5

LEMMA NoteKeeps ==
    ASSUME KeptInv, Note
    PROVE  KeptInv'
  <1> USE KeysAssumption, KeyFacts DEF KeptInv, Note, disk, memory, aside, history, Goto, Return, LockNow
  <1>1. KeysTypeOK'
    <2>1. task' \in [Accounts -> TransportKeys \cup {NoKey}]
      BY DEF KeysTypeOK, Jobs
    <2> QED
      BY <2>1 DEF KeysTypeOK, Labels
  <1>2. CommandInv'
    BY DEF KeysTypeOK, CommandInv, Jobs, NoJob, KnowsRows, Exists
  <1>3. PlaceInv'
    BY DEF KeysTypeOK, PlaceInv, CommandInv, LoadInv, KeysHaveAnAccount, KeyIsKept, Exists, Jobs,
       NoJob, Clear, Stored, PutBack, KnowsRows
  <1>4. LoadInv'
    BY DEF KeysTypeOK, CommandInv, LoadInv, LoadedKeyIsPublished, Published, Settling, Agreed, Jobs,
       NoJob, Clear
  <1>5. LockInv'
    BY DEF KeysTypeOK, CommandInv, LockInv, Cleared, Looks, Clear, Jobs, NoJob
  <1> QED
    BY <1>1, <1>2, <1>3, <1>4, <1>5

LEMMA EnsuredKeeps ==
    ASSUME KeptInv, Ensured
    PROVE  KeptInv'
  <1> USE KeysAssumption, KeyFacts DEF KeptInv, Ensured, disk, memory, aside, history, Goto, Return, LockNow
  <1>1. KeysTypeOK'
    BY DEF KeysTypeOK, Labels, Jobs, Stored, PutBack, StopListening
  <1>2. CommandInv'
    BY DEF KeysTypeOK, CommandInv, Jobs, NoJob, KnowsRows, Exists
  <1>3. PlaceInv'
    BY DEF KeysTypeOK, PlaceInv, CommandInv, LoadInv, KeysHaveAnAccount, KeyIsKept, Exists, Jobs,
       NoJob, Clear, Stored, PutBack, KnowsRows
  <1>4. LoadInv'
    BY DEF KeysTypeOK, CommandInv, LoadInv, LoadedKeyIsPublished, Published, Settling, Agreed, Jobs,
       NoJob, Clear
  <1>5. LockInv'
    BY DEF KeysTypeOK, CommandInv, LockInv, Cleared, Looks, Clear, Jobs, NoJob
  <1> QED
    BY <1>1, <1>2, <1>3, <1>4, <1>5

LEMMA EndKeeps ==
    ASSUME KeptInv, End
    PROVE  KeptInv'
  <1> USE KeysAssumption, KeyFacts DEF KeptInv, End, disk, memory, aside, history, Goto, Return, LockNow
  <1>1. KeysTypeOK'
    BY DEF KeysTypeOK, Labels, Jobs, Stored, PutBack, StopListening
  <1>2. CommandInv'
    BY DEF KeysTypeOK, CommandInv, Jobs, NoJob, KnowsRows, Exists
  <1>3. PlaceInv'
    BY DEF KeysTypeOK, PlaceInv, CommandInv, LoadInv, KeysHaveAnAccount, KeyIsKept, Exists, Jobs,
       NoJob, Clear, Stored, PutBack, KnowsRows
  <1>4. LoadInv'
    BY DEF KeysTypeOK, CommandInv, LoadInv, LoadedKeyIsPublished, Published, Settling, Agreed, Jobs,
       NoJob, Clear
  <1>5. LockInv'
    BY DEF KeysTypeOK, CommandInv, LockInv, Cleared, Looks, Clear, Jobs, NoJob
  <1> QED
    BY <1>1, <1>2, <1>3, <1>4, <1>5

LEMMA PrepareKeeps ==
    ASSUME KeptInv, Prepare
    PROVE  KeptInv'
  <1> USE KeysAssumption, KeyFacts DEF KeptInv, Prepare, disk, memory, aside, history, Goto, Return, LockNow
  <1>1. KeysTypeOK'
    BY DEF KeysTypeOK, Labels, Jobs, Stored, PutBack, StopListening
  <1>2. CommandInv'
    BY DEF KeysTypeOK, CommandInv, Jobs, NoJob, KnowsRows, Exists
  <1>3. PlaceInv'
    BY DEF KeysTypeOK, PlaceInv, CommandInv, LoadInv, KeysHaveAnAccount, KeyIsKept, Exists, Jobs,
       NoJob, Clear, Stored, PutBack, KnowsRows
  <1>4. LoadInv'
    BY DEF KeysTypeOK, CommandInv, LoadInv, LoadedKeyIsPublished, Published, Settling, Agreed, Jobs,
       NoJob, Clear
  <1>5. LockInv'
    BY DEF KeysTypeOK, CommandInv, LockInv, Cleared, Looks, Clear, Jobs, NoJob
  <1> QED
    BY <1>1, <1>2, <1>3, <1>4, <1>5

LEMMA SetSecretKeeps ==
    ASSUME KeptInv, SetSecret
    PROVE  KeptInv'
  <1> USE KeysAssumption, KeyFacts DEF KeptInv, SetSecret, disk, memory, aside, history, Goto, Return, LockNow
  <1>1. KeysTypeOK'
    BY DEF KeysTypeOK, Labels, Jobs, Stored, PutBack, StopListening
  <1>2. CommandInv'
    BY DEF KeysTypeOK, CommandInv, Jobs, NoJob, KnowsRows, Exists
  <1>3. PlaceInv'
    BY DEF KeysTypeOK, PlaceInv, CommandInv, LoadInv, KeysHaveAnAccount, KeyIsKept, Exists, Jobs,
       NoJob, Clear, Stored, PutBack, KnowsRows
  <1>4. LoadInv'
    BY DEF KeysTypeOK, CommandInv, LoadInv, LoadedKeyIsPublished, Published, Settling, Agreed, Jobs,
       NoJob, Clear
  <1>5. LockInv'
    BY DEF KeysTypeOK, CommandInv, LockInv, Cleared, Looks, Clear, Jobs, NoJob
  <1> QED
    BY <1>1, <1>2, <1>3, <1>4, <1>5

LEMMA PrepareFilesKeeps ==
    ASSUME KeptInv, PrepareFiles
    PROVE  KeptInv'
  <1> USE KeysAssumption, KeyFacts DEF KeptInv, PrepareFiles, disk, memory, aside, history, Goto, Return, LockNow
  <1>1. KeysTypeOK'
    BY DEF KeysTypeOK, Labels, Jobs, Stored, PutBack, StopListening
  <1>2. CommandInv'
    BY DEF KeysTypeOK, CommandInv, Jobs, NoJob, KnowsRows, Exists
  <1>3. PlaceInv'
    BY DEF KeysTypeOK, PlaceInv, CommandInv, LoadInv, KeysHaveAnAccount, KeyIsKept, Exists, Jobs,
       NoJob, Clear, Stored, PutBack, KnowsRows
  <1>4. LoadInv'
    BY DEF KeysTypeOK, CommandInv, LoadInv, LoadedKeyIsPublished, Published, Settling, Agreed, Jobs,
       NoJob, Clear
  <1>5. LockInv'
    BY DEF KeysTypeOK, CommandInv, LockInv, Cleared, Looks, Clear, Jobs, NoJob
  <1> QED
    BY <1>1, <1>2, <1>3, <1>4, <1>5

LEMMA MigrateKeeps ==
    ASSUME KeptInv, NEW a \in Accounts, Migrate(a)
    PROVE  KeptInv'
  <1> USE KeysAssumption, KeyFacts DEF KeptInv, memory, aside, history, Goto
  <1>1. /\ pc = "migrate" /\ job.op = "unlock" /\ a \in job.who /\ file[a] = NoFile /\ KeysTypeOK
        /\ UNCHANGED <<row, chain, passFile, drawn, memory, aside, job, history>>
        /\ a \in Exists /\ pc' \in {"check", "end"}
    BY DEF Migrate, CommandInv, Unmigrated, KnowsRows
  <1>2. \/ file' = file /\ owned' = owned
        \/ /\ owned' = owned \cup {a}
           /\ file' \in [Accounts -> KeyFiles \cup {NoFile}] /\ file'[a] # NoFile
           /\ \A b \in Accounts \ {a} : file'[b] = file[b]
    <2>1. CASE /\ chain[a] # NoKey /\ pass # NoPass
               /\ file' = Stored(a, chain[a]) /\ owned' = owned \cup {a}
      <3>1. chain[a] \in TransportKeys
        BY <1>1, <2>1 DEF KeysTypeOK
      <3> QED
        BY <1>1, <2>1, <3>1, StoredFile
    <2> QED
      BY <2>1 DEF Migrate
  <1>3. file' \in [Accounts -> KeyFiles \cup {NoFile}] /\ owned' \subseteq Accounts
    BY <1>1, <1>2 DEF KeysTypeOK
  <1>4. KeysTypeOK'
    BY <1>1, <1>3 DEF KeysTypeOK, Labels
  <1>5. CommandInv'
    BY <1>1 DEF CommandInv, KnowsRows, Exists
  <1>6. PlaceInv'
    <2>1. CASE file' = file /\ owned' = owned
      BY <1>1, <2>1 DEF PlaceInv, KeysHaveAnAccount, KeyIsKept, Exists
    <2>2. CASE ~(file' = file /\ owned' = owned)
      BY <1>1, <1>2, <2>2, FilesStayPlaced
    <2> QED
      BY <2>1, <2>2
  <1>7. LoadInv'
    BY <1>1 DEF LoadInv, LoadedKeyIsPublished, Settling, Agreed
  <1>8. LockInv'
    BY <1>1 DEF LockInv, Looks, Cleared, Clear
  <1> QED
    BY <1>4, <1>5, <1>6, <1>7, <1>8

LEMMA SettleKeeps ==
    ASSUME KeptInv, NEW a \in Accounts, Settle(a)
    PROVE  KeptInv'
  <1> USE KeysAssumption, KeyFacts DEF KeptInv, Settle, disk, memory, aside, history, Goto, Return, LockNow
  <1>1. KeysTypeOK'
    BY DEF KeysTypeOK, Labels, Jobs, Stored, PutBack, StopListening
  <1>2. CommandInv'
    BY DEF KeysTypeOK, CommandInv, Jobs, NoJob, KnowsRows, Exists
  <1>3. PlaceInv'
    BY DEF KeysTypeOK, PlaceInv, CommandInv, LoadInv, KeysHaveAnAccount, KeyIsKept, Exists, Jobs,
       NoJob, Clear, Stored, PutBack, KnowsRows
  <1>4. LoadInv'
    BY DEF KeysTypeOK, CommandInv, LoadInv, LoadedKeyIsPublished, Published, Settling, Agreed, Jobs,
       NoJob, Clear
  <1>5. LockInv'
    BY DEF KeysTypeOK, CommandInv, LockInv, Cleared, Looks, Clear, Jobs, NoJob
  <1> QED
    BY <1>1, <1>2, <1>3, <1>4, <1>5

LEMMA EnsureKeeps ==
    ASSUME KeptInv, NEW a \in Accounts, Ensure(a)
    PROVE  KeptInv'
  <1> USE KeysAssumption, KeyFacts DEF KeptInv, Ensure, disk, memory, aside, history, Goto, Return, LockNow
  <1>1. KeysTypeOK'
    BY DEF KeysTypeOK, Labels, Jobs, Stored, PutBack, StopListening
  <1>2. CommandInv'
    BY DEF KeysTypeOK, CommandInv, Jobs, NoJob, KnowsRows, Exists
  <1>3. PlaceInv'
    BY DEF KeysTypeOK, PlaceInv, CommandInv, LoadInv, KeysHaveAnAccount, KeyIsKept, Exists, Jobs,
       NoJob, Clear, Stored, PutBack, KnowsRows
  <1>4. LoadInv'
    BY DEF KeysTypeOK, CommandInv, LoadInv, LoadedKeyIsPublished, Published, Settling, Agreed, Jobs,
       NoJob, Clear
  <1>5. LockInv'
    BY DEF KeysTypeOK, CommandInv, LockInv, Cleared, Looks, Clear, Jobs, NoJob
  <1> QED
    BY <1>1, <1>2, <1>3, <1>4, <1>5

LEMMA FindAccountKeeps ==
    ASSUME KeptInv, NEW a \in Accounts, FindAccount(a)
    PROVE  KeptInv'
  <1> USE KeysAssumption, KeyFacts DEF KeptInv, FindAccount, disk, memory, aside, history, Goto, Return, LockNow
  <1>1. KeysTypeOK'
    BY DEF KeysTypeOK, Labels, Jobs, Stored, PutBack, StopListening
  <1>2. CommandInv'
    BY DEF KeysTypeOK, CommandInv, Jobs, NoJob, KnowsRows, Exists
  <1>3. PlaceInv'
    BY DEF KeysTypeOK, PlaceInv, CommandInv, LoadInv, KeysHaveAnAccount, KeyIsKept, Exists, Jobs,
       NoJob, Clear, Stored, PutBack, KnowsRows
  <1>4. LoadInv'
    BY DEF KeysTypeOK, CommandInv, LoadInv, LoadedKeyIsPublished, Published, Settling, Agreed, Jobs,
       NoJob, Clear
  <1>5. LockInv'
    BY DEF KeysTypeOK, CommandInv, LockInv, Cleared, Looks, Clear, Jobs, NoJob
  <1> QED
    BY <1>1, <1>2, <1>3, <1>4, <1>5

LEMMA RestoreKeeps ==
    ASSUME KeptInv, NEW a \in Accounts, Restore(a)
    PROVE  KeptInv'
  <1> USE KeysAssumption, KeyFacts
  <1>1. /\ pc = "restore" /\ job.op = "create" /\ a \in job.who /\ \A b \in job.who : b = a
        /\ job \in Jobs /\ KeysTypeOK /\ ~Looks /\ ~Settling /\ ~Settling' /\ job.who \subseteq Exists
    BY DEF Restore, KeptInv, CommandInv, KeysTypeOK, Looks, Settling, Jobs, KnowsRows, Goto, Return
  <1>2. UNCHANGED <<file, chain, passFile, drawn, owned, memory, aside, history>>
    BY DEF Restore, Goto, Return
  <1>3. CASE Return /\ UNCHANGED row
    BY <1>1, <1>2, <1>3, ReturnKeeps DEF disk
  <1>4. CASE Readable(a) /\ row' = [row EXCEPT ![a] = file[a].key] /\ Goto("read")
    <2> USE DEF KeptInv, memory, aside, history, Goto
    <2>1. file[a].key \in TransportKeys /\ file[a] # NoFile
      BY <1>1, <1>4, ReadableFile
    <2>2. KeysTypeOK'
      BY <1>1, <1>2, <1>4, <2>1 DEF KeysTypeOK, Labels
    <2>3. row'[a] = file[a].key /\ row'[a] # NoKey /\ \A b \in Accounts \ {a} : row'[b] = row[b]
      BY <1>1, <1>4, <2>1 DEF KeysTypeOK
    <2>4. Exists' = Exists
      BY <1>1, <1>4, <2>3 DEF Exists
    <2>5. CommandInv'
      BY <1>1, <1>4, <2>4 DEF CommandInv, KnowsRows
    <2>6. PlaceInv'
      BY <1>1, <1>2, <1>4, <2>4 DEF PlaceInv, KeysHaveAnAccount, KeyIsKept
    <2>7. LoadInv'
      <3>1. LoadedKeyIsPublished'
        BY <1>1, <1>2, <2>3, OthersStayPublished
      <3> QED
        BY <1>1, <1>2, <1>4, <2>1, <2>3, <3>1 DEF LoadInv, Agreed
    <2>8. LockInv'
      BY <1>1, <1>2, <1>4 DEF LockInv, Cleared, Clear, Looks
    <2> QED
      BY <2>2, <2>5, <2>6, <2>7, <2>8
  <1>5. CASE job' = [job EXCEPT !.backup = file[a]] /\ pc' = "store" /\ UNCHANGED <<row, history>>
    <2> USE DEF KeptInv, memory, aside, history
    <2>1. /\ job' \in Jobs /\ job'.op = job.op /\ job'.who = job.who /\ job'.todo = job.todo
          /\ job'.next = job.next /\ job'.backup = file[a]
          /\ job'.moved = job.moved /\ job'.walletMoved = job.walletMoved
      BY <1>1, <1>5 DEF KeysTypeOK, Jobs
    <2>2. KeysTypeOK'
      BY <1>1, <1>2, <1>5, <2>1 DEF KeysTypeOK, Labels
    <2>3. CommandInv'
      BY <1>1, <1>5, <2>1 DEF CommandInv, KnowsRows, Exists
    <2>4. PlaceInv'
      BY <1>1, <1>2, <1>5, <2>1 DEF PlaceInv, KeysHaveAnAccount, KeyIsKept, Exists
    <2>5. LoadInv'
      BY <1>1, <1>2, <1>5, <2>1 DEF LoadInv, LoadedKeyIsPublished, Agreed
    <2>6. LockInv'
      BY <1>1, <1>2, <1>5, <2>1 DEF LockInv, Cleared, Clear, Looks
    <2> QED
      BY <2>2, <2>3, <2>4, <2>5, <2>6
  <1> QED
    BY <1>3, <1>4, <1>5 DEF Restore

LEMMA StoreRestoredKeeps ==
    ASSUME KeptInv, NEW a \in Accounts, StoreRestored(a)
    PROVE  KeptInv'
  <1> USE KeysAssumption, KeyFacts
  <1>1. /\ pc = "store" /\ job.op = "create" /\ a \in job.who /\ \A b \in job.who : b = a
        /\ job \in Jobs /\ KeysTypeOK /\ ~Looks /\ ~Settling /\ ~Settling' /\ job.backup = file[a]
    BY DEF StoreRestored, KeptInv, CommandInv, LoadInv, KeysTypeOK, Looks, Settling, Jobs, Goto,
       Return
  <1>2. UNCHANGED <<row, chain, passFile, memory, aside, history>>
    BY DEF StoreRestored, Goto, Return
  <1>3. CASE PutBack(a) /\ Return /\ UNCHANGED <<drawn, owned>>
    <2>1. file' = file
      BY <1>1, <1>3 DEF PutBack, KeysTypeOK
    <2> QED
      BY <1>1, <1>2, <1>3, <2>1, ReturnKeeps DEF disk
  <1>4. CASE /\ pass # NoPass /\ drawn < MaxKey
             /\ drawn' = drawn + 1 /\ file' = Stored(a, drawn + 1)
             /\ owned' = owned \cup {a} /\ Goto("verify")
    <2> USE DEF KeptInv, memory, aside, history, Goto
    <2>1. drawn + 1 \in TransportKeys
      BY <1>1, <1>4 DEF KeysTypeOK, TransportKeys
    <2>2. /\ file'[a] = [key |-> drawn + 1, seal |-> Device] /\ file'[a] # NoFile
          /\ file' \in [Accounts -> KeyFiles \cup {NoFile}]
          /\ \A b \in Accounts \ {a} : file'[b] = file[b]
      BY <1>1, <1>4, <2>1, StoredFile
    <2>3. KeysTypeOK'
      BY <1>1, <1>2, <1>4, <2>1, <2>2 DEF KeysTypeOK, Labels
    <2>4. CommandInv'
      BY <1>1, <1>2, <1>4 DEF CommandInv, KnowsRows, Exists
    <2>5. a \in Exists
      BY <1>1, <1>4 DEF CommandInv, KnowsRows
    <2>6. PlaceInv'
      BY <1>2, <1>4, <2>2, <2>5, FilesStayPlaced
    <2>7. LoadInv'
      <3>1. ~Agreed'
        BY <1>1, <1>4 DEF Agreed, CommandInv
      <3> QED
        BY <1>1, <1>2, <1>4, <2>2, <3>1 DEF LoadInv, LoadedKeyIsPublished
    <2>8. LockInv'
      BY <1>1, <1>2, <1>4 DEF LockInv, Cleared, Clear, Looks
    <2> QED
      BY <2>3, <2>4, <2>6, <2>7, <2>8
  <1> QED
    BY <1>3, <1>4 DEF StoreRestored

LEMMA VerifyRestoredKeeps ==
    ASSUME KeptInv, NEW a \in Accounts, VerifyRestored(a)
    PROVE  KeptInv'
  <1> USE KeysAssumption, KeyFacts DEF KeptInv, memory, aside, history
  <1>1. /\ pc = "verify" /\ job.op = "create" /\ a \in job.who /\ \A b \in job.who : b = a
        /\ job \in Jobs /\ KeysTypeOK /\ ~Looks /\ ~Settling /\ ~Settling' /\ a \in Exists
        /\ file[a] # NoFile
    <2>1. pc = "verify" /\ a \in job.who
      BY DEF VerifyRestored
    <2>2. /\ job.op = "create" /\ (\A b \in job.who : b = a) /\ a \in Exists
          /\ job \in Jobs /\ KeysTypeOK
      BY <2>1 DEF CommandInv, KeysTypeOK, KnowsRows
    <2>3. ~Looks /\ ~Settling
      BY <2>1, <2>2 DEF Looks, Settling
    <2>4. pc' \in {"stop", "idle"} /\ job'.op \in {"create", "none"}
      <3>1. CASE pc' = "stop" /\ job' = [job EXCEPT !.cur = a, !.backup = NoFile]
        BY <2>2, <3>1 DEF Jobs
      <3>2. CASE pc' = "idle" /\ job' = NoJob
        BY <3>2 DEF NoJob
      <3> QED
        BY <3>1, <3>2 DEF VerifyRestored, Return
    <2>5. ~Settling'
      BY <2>4 DEF Settling
    <2>6. file[a] # NoFile
      BY <2>1 DEF LoadInv
    <2> QED
      BY <2>1, <2>2, <2>3, <2>5, <2>6
  <1>2. UNCHANGED <<chain, passFile, drawn, owned, memory, aside, history>>
    BY DEF VerifyRestored, Return
  <1>3. CASE PutBack(a) /\ Return /\ UNCHANGED row
    <2> USE DEF Return
    <2>1. /\ file' \in [Accounts -> KeyFiles \cup {NoFile}] /\ file'[a] # NoFile
          /\ \A b \in Accounts \ {a} : file'[b] = file[b]
      BY <1>1, <1>3 DEF PutBack, KeysTypeOK, Jobs
    <2>2. KeysTypeOK'
      BY <1>1, <1>2, <1>3, <2>1 DEF KeysTypeOK, Labels
    <2>3. CommandInv'
      BY <1>3 DEF CommandInv, NoJob, KnowsRows
    <2>4. PlaceInv'
      BY <1>1, <1>2, <1>3, <2>1, FilesStayPlaced
    <2>5. LoadInv'
      BY <1>1, <1>2, <1>3 DEF LoadInv, LoadedKeyIsPublished, Settling, Agreed, NoJob
    <2>6. LockInv'
      BY <1>1, <1>2, <1>3 DEF LockInv, Cleared, Clear
    <2> QED
      BY <2>2, <2>3, <2>4, <2>5, <2>6
  <1>4. CASE /\ Readable(a) /\ row' = [row EXCEPT ![a] = file[a].key]
             /\ job' = [job EXCEPT !.cur = a, !.backup = NoFile] /\ pc' = "stop" /\ UNCHANGED <<file, history>>
    <2>1. file[a].key \in TransportKeys
      BY <1>1, <1>4, ReadableFile
    <2>2. row'[a] = file[a].key /\ row'[a] # NoKey /\ \A b \in Accounts \ {a} : row'[b] = row[b]
      BY <1>1, <1>4, <2>1 DEF KeysTypeOK
    <2>3. /\ job' \in Jobs /\ job'.op = job.op /\ job'.who = job.who /\ job'.todo = job.todo
          /\ job'.next = job.next
          /\ job'.moved = job.moved /\ job'.walletMoved = job.walletMoved
      BY <1>1, <1>4 DEF Jobs
    <2>4. KeysTypeOK'
      BY <1>1, <1>2, <1>4, <2>1, <2>3 DEF KeysTypeOK, Labels
    <2>5. Exists' = Exists
      BY <1>1, <1>4, <2>2 DEF Exists
    <2>6. CommandInv'
      BY <1>1, <1>4, <2>3, <2>5 DEF CommandInv, KnowsRows
    <2>7. PlaceInv'
      BY <1>1, <1>2, <1>4, <2>3, <2>5 DEF PlaceInv, KeysHaveAnAccount, KeyIsKept
    <2>8. LoadInv'
      <3>1. LoadedKeyIsPublished'
        BY <1>1, <1>2, <2>2, OthersStayPublished
      <3> QED
        BY <1>1, <1>2, <1>4, <2>2, <2>3, <3>1 DEF LoadInv, Agreed
    <2>9. LockInv'
      BY <1>1, <1>2, <1>4, <2>3 DEF LockInv, Cleared, Clear, Looks
    <2> QED
      BY <2>4, <2>6, <2>7, <2>8, <2>9
  <1> QED
    BY <1>3, <1>4 DEF VerifyRestored

LEMMA AddRowKeeps ==
    ASSUME KeptInv, NEW a \in Accounts, AddRow(a)
    PROVE  KeptInv'
  <1> USE KeysAssumption, KeyFacts
  <1>1. /\ pc = "add" /\ job.op = "create" /\ a \in job.who /\ \A b \in job.who : b = a
        /\ KeysTypeOK /\ ~Looks /\ ~Settling /\ UNCHANGED <<file, chain, passFile, owned, memory, aside>>
    BY DEF AddRow, KeptInv, CommandInv, KeysTypeOK, Looks, Settling
  <1>2. CASE Return /\ UNCHANGED <<drawn, row>>
    BY <1>1, <1>2, ReturnKeeps DEF disk
  <1>3. CASE /\ drawn < MaxKey /\ drawn' = drawn + 1 /\ row' = [row EXCEPT ![a] = drawn + 1]
             /\ Goto("addstore")
    <2> USE DEF KeptInv, memory, aside, history, Goto
    <2>1. drawn + 1 \in TransportKeys /\ drawn + 1 # NoKey
      BY <1>1, <1>3 DEF KeysTypeOK, TransportKeys
    <2>2. row'[a] # NoKey /\ \A b \in Accounts \ {a} : row'[b] = row[b]
      BY <1>1, <1>3, <2>1 DEF KeysTypeOK
    <2>3. KeysTypeOK'
      BY <1>1, <1>3, <2>1 DEF KeysTypeOK, Labels
    <2>4. Exists' = Exists \cup {a}
      BY <2>2 DEF Exists
    <2>5. CommandInv'
      BY <1>1, <1>3, <2>4 DEF CommandInv, KnowsRows
    <2>6. PlaceInv'
      BY <1>1, <1>3, <2>4 DEF PlaceInv, KeysHaveAnAccount, KeyIsKept
    <2>7. LoadInv'
      <3>1. LoadedKeyIsPublished'
        BY <1>1, <1>3, <2>2, OthersStayPublished
      <3> QED
        BY <1>1, <1>3, <3>1 DEF LoadInv, Settling, Agreed
    <2>8. LockInv'
      BY <1>1, <1>3 DEF LockInv, Cleared, Clear, Looks
    <2> QED
      BY <2>3, <2>5, <2>6, <2>7, <2>8
  <1> QED
    BY <1>2, <1>3 DEF AddRow

LEMMA AddStoreKeeps ==
    ASSUME KeptInv, NEW a \in Accounts, AddStore(a)
    PROVE  KeptInv'
  <1> USE KeysAssumption, KeyFacts DEF KeptInv, memory, aside, history
  <1>1. /\ pc = "addstore" /\ job.op = "create" /\ a \in job.who /\ \A b \in job.who : b = a
        /\ job \in Jobs /\ KeysTypeOK /\ ~Looks /\ ~Settling /\ ~Settling'
        /\ file[a] = NoFile /\ chain[a] = NoKey /\ vault[a] = NoKey
    BY DEF AddStore, CommandInv, PlaceInv, KeysTypeOK, Looks, Settling, Jobs, Return
  <1>2. UNCHANGED <<chain, passFile, drawn, memory, aside, history>>
    BY DEF AddStore, Return
  <1>3. CASE row' = [row EXCEPT ![a] = NoKey] /\ Return /\ UNCHANGED <<file, owned>>
    <2> USE DEF Return
    <2>1. row'[a] = NoKey /\ \A b \in Accounts \ {a} : row'[b] = row[b]
      BY <1>1, <1>3 DEF KeysTypeOK
    <2>2. KeysTypeOK'
      BY <1>1, <1>2, <1>3 DEF KeysTypeOK, Labels
    <2>3. CommandInv'
      BY <1>3 DEF CommandInv, NoJob, KnowsRows
    <2>4. PlaceInv'
      BY <1>1, <1>2, <1>3, <2>1 DEF PlaceInv, KeysHaveAnAccount, KeyIsKept, Exists
    <2>5. LoadInv'
      <3>1. LoadedKeyIsPublished'
        BY <1>1, <1>2, <2>1, OthersStayPublished
      <3> QED
        BY <1>1, <1>2, <1>3, <3>1 DEF LoadInv, Settling, Agreed, NoJob
    <2>6. LockInv'
      BY <1>1, <1>2, <1>3 DEF LockInv, Cleared, Clear
    <2> QED
      BY <2>2, <2>3, <2>4, <2>5, <2>6
  <1>4. CASE /\ pass # NoPass /\ file' = Stored(a, row[a]) /\ owned' = owned \cup {a}
             /\ job' = [job EXCEPT !.todo = {a}, !.copy[a] = row[a], !.next = "read"]
             /\ pc' = "ensure" /\ UNCHANGED <<row, history>>
    <2>1. row[a] \in TransportKeys /\ a \in Exists
      BY <1>1 DEF CommandInv, KnowsRows, Exists, KeysTypeOK
    <2>2. /\ file'[a] = [key |-> row[a], seal |-> Device] /\ file'[a] # NoFile /\ file'[a].key = row[a]
          /\ file' \in [Accounts -> KeyFiles \cup {NoFile}]
          /\ \A b \in Accounts \ {a} : file'[b] = file[b]
      BY <1>1, <1>4, <2>1, StoredFile
    <2>3. /\ job' \in Jobs /\ job'.op = job.op /\ job'.who = job.who /\ job'.todo = {a}
          /\ job'.next = "read" /\ job'.moved = job.moved /\ job'.walletMoved = job.walletMoved
      <3> DEFINE c == [job.copy EXCEPT ![a] = row[a]]
      <3>1. c \in [Accounts -> TransportKeys \cup {NoKey}] /\ {a} \in SUBSET Accounts
        BY <1>1, <2>1 DEF Jobs
      <3>2. job' = [job EXCEPT !.todo = {a}, !.copy = c, !.next = "read"]
        BY <1>1, <1>4 DEF Jobs
      <3> HIDE DEF c
      <3> QED
        BY <1>1, <3>1, <3>2 DEF Jobs
    <2>4. KeysTypeOK'
      BY <1>1, <1>2, <1>4, <2>2, <2>3 DEF KeysTypeOK, Labels
    <2>5. CommandInv'
      BY <1>1, <1>4, <2>3 DEF CommandInv, KnowsRows, Exists
    <2>6. PlaceInv'
      BY <1>2, <1>4, <2>1, <2>2, FilesStayPlaced
    <2>7. LoadInv'
      BY <1>1, <1>2, <1>4, <2>2, <2>3 DEF LoadInv, LoadedKeyIsPublished
    <2>8. LockInv'
      BY <1>1, <1>2, <1>4, <2>3 DEF LockInv, Cleared, Clear, Looks
    <2> QED
      BY <2>4, <2>5, <2>6, <2>7, <2>8
  <1>5. CASE row' = row /\ Return /\ UNCHANGED <<file, owned>>
    BY <1>1, <1>2, <1>5, ReturnKeeps DEF disk
  <1> QED
    BY <1>3, <1>4, <1>5 DEF AddStore

LEMMA FinalKeeps ==
    ASSUME KeptInv, NEW a \in Accounts, Final(a)
    PROVE  KeptInv'
  <1> USE KeysAssumption, KeyFacts DEF KeptInv, disk, aside, history
  <1>1. /\ pc = "final" /\ job.op = "create" /\ a \in job.who /\ \A b \in job.who : b = a
        /\ job \in Jobs /\ KeysTypeOK /\ ~Settling /\ ~Settling' /\ a \in Exists
        /\ UNCHANGED <<disk, pool, task, aside, history>>
    BY DEF Final, CommandInv, KeysTypeOK, Settling, Jobs, KnowsRows, Return
  <1>2. CASE LockNow /\ Return
    <2> USE DEF LockNow, Return
    <2>1. KeysTypeOK'
      BY <1>1, <1>2 DEF KeysTypeOK, Labels
    <2>2. CommandInv'
      BY <1>2 DEF CommandInv, NoJob, KnowsRows
    <2>3. PlaceInv'
      BY <1>1, <1>2 DEF PlaceInv, KeysHaveAnAccount, KeyIsKept, Exists, Clear
    <2>4. LoadInv'
      BY <1>1, <1>2 DEF LoadInv, LoadedKeyIsPublished, KeysTypeOK, Agreed, NoJob, Clear
    <2>5. LockInv'
      BY <1>2 DEF LockInv, Cleared, Clear
    <2> QED
      BY <2>1, <2>2, <2>3, <2>4, <2>5
  <1>3. CASE /\ ~job.walletMoved
             /\ job' = [job EXCEPT !.todo = {a}, !.copy = row, !.next = "end"]
             /\ pc' = "ensure" /\ UNCHANGED <<vault, pass, history>>
    <2>1. /\ job' \in Jobs /\ job'.op = job.op /\ job'.who = job.who /\ job'.todo = {a}
          /\ job'.next = "end" /\ job'.moved = job.moved /\ job'.walletMoved = job.walletMoved
      BY <1>1, <1>3 DEF KeysTypeOK, Jobs
    <2>2. KeysTypeOK'
      BY <1>1, <1>3, <2>1 DEF KeysTypeOK, Labels
    <2>3. CommandInv'
      BY <1>1, <1>3, <2>1 DEF CommandInv, KnowsRows, Exists
    <2>4. PlaceInv'
      BY <1>1, <1>3, <2>1 DEF PlaceInv, KeysHaveAnAccount, KeyIsKept, Exists
    <2>5. LoadInv'
      BY <1>1, <1>3, <2>1 DEF LoadInv, LoadedKeyIsPublished, Published, Agreed
    <2>6. LockInv'
      BY <1>1, <1>3 DEF LockInv
    <2> QED
      BY <2>2, <2>3, <2>4, <2>5, <2>6
  <1>4. CASE ~job.walletMoved /\ UNCHANGED <<vault, pass>> /\ Return
    <2> USE DEF Return
    <2>1. KeysTypeOK'
      BY <1>1, <1>4 DEF KeysTypeOK, Labels
    <2>2. CommandInv'
      BY <1>4 DEF CommandInv, NoJob, KnowsRows
    <2>3. PlaceInv'
      BY <1>1, <1>4 DEF PlaceInv, KeysHaveAnAccount, KeyIsKept, Exists
    <2>4. LoadInv'
      BY <1>1, <1>4 DEF LoadInv, LoadedKeyIsPublished, Agreed, NoJob
    <2>5. LockInv'
      BY <1>1, <1>4 DEF LockInv
    <2> QED
      BY <2>1, <2>2, <2>3, <2>4, <2>5
  <1> QED
    BY <1>2, <1>3, <1>4 DEF Final

LEMMA DeleteStopsKeeps ==
    ASSUME KeptInv, NEW a \in Accounts, DeleteStops(a)
    PROVE  KeptInv'
  <1> USE KeysAssumption, KeyFacts DEF KeptInv, DeleteStops, disk, memory, aside, history, Goto, Return, LockNow
  <1>1. KeysTypeOK'
    BY DEF KeysTypeOK, Labels, Jobs, Stored, PutBack, StopListening
  <1>2. CommandInv'
    BY DEF KeysTypeOK, CommandInv, Jobs, NoJob, KnowsRows, Exists
  <1>3. PlaceInv'
    BY DEF KeysTypeOK, PlaceInv, CommandInv, LoadInv, KeysHaveAnAccount, KeyIsKept, Exists, Jobs,
       NoJob, Clear, Stored, PutBack, KnowsRows
  <1>4. LoadInv'
    BY DEF KeysTypeOK, CommandInv, LoadInv, LoadedKeyIsPublished, Published, Settling, Agreed, Jobs,
       NoJob, Clear
  <1>5. LockInv'
    BY DEF KeysTypeOK, CommandInv, LockInv, Cleared, Looks, Clear, Jobs, NoJob
  <1> QED
    BY <1>1, <1>2, <1>3, <1>4, <1>5

LEMMA DeleteFileKeeps ==
    ASSUME KeptInv, NEW a \in Accounts, DeleteFile(a)
    PROVE  KeptInv'
  <1> USE KeysAssumption, KeyFacts DEF KeptInv, DeleteFile, disk, memory, aside, history, Goto, Return, LockNow
  <1>1. KeysTypeOK'
    BY DEF KeysTypeOK, Labels, Jobs, Stored, PutBack, StopListening
  <1>2. CommandInv'
    BY DEF KeysTypeOK, CommandInv, Jobs, NoJob, KnowsRows, Exists
  <1>3. PlaceInv'
    BY DEF KeysTypeOK, PlaceInv, CommandInv, LoadInv, KeysHaveAnAccount, KeyIsKept, Exists, Jobs,
       NoJob, Clear, Stored, PutBack, KnowsRows
  <1>4. LoadInv'
    BY DEF KeysTypeOK, CommandInv, LoadInv, LoadedKeyIsPublished, Published, Settling, Agreed, Jobs,
       NoJob, Clear
  <1>5. LockInv'
    BY DEF KeysTypeOK, CommandInv, LockInv, Cleared, Looks, Clear, Jobs, NoJob
  <1> QED
    BY <1>1, <1>2, <1>3, <1>4, <1>5

LEMMA DeleteChainKeeps ==
    ASSUME KeptInv, NEW a \in Accounts, DeleteChain(a)
    PROVE  KeptInv'
  <1> USE KeysAssumption, KeyFacts DEF KeptInv, DeleteChain, disk, memory, aside, history, Goto, Return, LockNow
  <1>1. KeysTypeOK'
    BY DEF KeysTypeOK, Labels, Jobs, Stored, PutBack, StopListening
  <1>2. CommandInv'
    BY DEF KeysTypeOK, CommandInv, Jobs, NoJob, KnowsRows, Exists
  <1>3. PlaceInv'
    BY DEF KeysTypeOK, PlaceInv, CommandInv, LoadInv, KeysHaveAnAccount, KeyIsKept, Exists, Jobs,
       NoJob, Clear, Stored, PutBack, KnowsRows
  <1>4. LoadInv'
    BY DEF KeysTypeOK, CommandInv, LoadInv, LoadedKeyIsPublished, Published, Settling, Agreed, Jobs,
       NoJob, Clear
  <1>5. LockInv'
    BY DEF KeysTypeOK, CommandInv, LockInv, Cleared, Looks, Clear, Jobs, NoJob
  <1> QED
    BY <1>1, <1>2, <1>3, <1>4, <1>5

LEMMA DeleteRowKeeps ==
    ASSUME KeptInv, NEW a \in Accounts, DeleteRow(a)
    PROVE  KeptInv'
  <1> USE KeysAssumption, KeyFacts DEF KeptInv, DeleteRow, disk, memory, aside, history, Goto, Return, LockNow
  <1>1. KeysTypeOK'
    BY DEF KeysTypeOK, Labels, Jobs, Stored, PutBack, StopListening
  <1>2. CommandInv'
    BY DEF KeysTypeOK, CommandInv, Jobs, NoJob, KnowsRows, Exists
  <1>3. PlaceInv'
    BY DEF KeysTypeOK, PlaceInv, CommandInv, LoadInv, KeysHaveAnAccount, KeyIsKept, Exists, Jobs,
       NoJob, Clear, Stored, PutBack, KnowsRows
  <1>4. LoadInv'
    BY DEF KeysTypeOK, CommandInv, LoadInv, LoadedKeyIsPublished, Published, Settling, Agreed, Jobs,
       NoJob, Clear
  <1>5. LockInv'
    BY DEF KeysTypeOK, CommandInv, LockInv, Cleared, Looks, Clear, Jobs, NoJob
  <1> QED
    BY <1>1, <1>2, <1>3, <1>4, <1>5

LEMMA LockBeginsKeeps ==
    ASSUME KeptInv, LockBegins
    PROVE  KeptInv'
  <1> USE KeysAssumption, KeyFacts DEF KeptInv, LockBegins, disk, memory, aside, history, Goto, Return, LockNow
  <1>1. KeysTypeOK'
    <2>1. job' \in Jobs
      <3>1. job \in Jobs /\ job' = [job EXCEPT !.walletMoved = (job.op # "none")]
        BY DEF KeysTypeOK
      <3> HIDE DEF KeptInv, LockBegins
      <3> QED
        BY <3>1, JobEdits
    <2> QED
      BY <2>1 DEF KeysTypeOK
  <1>2. CommandInv'
    BY DEF KeysTypeOK, CommandInv, Jobs, NoJob, KnowsRows, Exists
  <1>3. PlaceInv'
    BY DEF KeysTypeOK, PlaceInv, CommandInv, LoadInv, KeysHaveAnAccount, KeyIsKept, Exists, Jobs,
       NoJob, Clear, Stored, PutBack, KnowsRows
  <1>4. LoadInv'
    BY DEF KeysTypeOK, CommandInv, LoadInv, LoadedKeyIsPublished, Published, Settling, Agreed, Jobs,
       NoJob, Clear
  <1>5. LockInv'
    BY DEF KeysTypeOK, CommandInv, LockInv, Cleared, Looks, Clear, Jobs, NoJob
  <1> QED
    BY <1>1, <1>2, <1>3, <1>4, <1>5

LEMMA LockMovesAuthKeeps ==
    ASSUME KeptInv, LockMovesAuth
    PROVE  KeptInv'
  <1> USE KeysAssumption, KeyFacts DEF KeptInv, LockMovesAuth, disk, memory, aside, history, Goto, Return, LockNow
  <1>1. KeysTypeOK'
    <2>1. job' \in Jobs
      BY DEF KeysTypeOK, Jobs
    <2> QED
      BY <2>1 DEF KeysTypeOK
  <1>2. CommandInv'
    BY DEF KeysTypeOK, CommandInv, Jobs, NoJob, KnowsRows, Exists
  <1>3. PlaceInv'
    BY DEF KeysTypeOK, PlaceInv, CommandInv, LoadInv, KeysHaveAnAccount, KeyIsKept, Exists, Jobs,
       NoJob, Clear, Stored, PutBack, KnowsRows
  <1>4. LoadInv'
    BY DEF KeysTypeOK, CommandInv, LoadInv, LoadedKeyIsPublished, Published, Settling, Agreed, Jobs,
       NoJob, Clear
  <1>5. LockInv'
    BY DEF KeysTypeOK, CommandInv, LockInv, Cleared, Looks, Clear, Jobs, NoJob
  <1> QED
    BY <1>1, <1>2, <1>3, <1>4, <1>5

LEMMA LockEmptiesVaultKeeps ==
    ASSUME KeptInv, LockEmptiesVault
    PROVE  KeptInv'
  <1> USE KeysAssumption, KeyFacts DEF KeptInv, LockEmptiesVault, disk, memory, aside, history, Goto, Return, LockNow
  <1>1. KeysTypeOK'
    BY DEF KeysTypeOK, Labels, Jobs, Stored, PutBack, StopListening
  <1>2. CommandInv'
    BY DEF KeysTypeOK, CommandInv, Jobs, NoJob, KnowsRows, Exists
  <1>3. PlaceInv'
    BY DEF KeysTypeOK, PlaceInv, CommandInv, LoadInv, KeysHaveAnAccount, KeyIsKept, Exists, Jobs,
       NoJob, Clear, Stored, PutBack, KnowsRows
  <1>4. LoadInv'
    BY DEF KeysTypeOK, CommandInv, LoadInv, LoadedKeyIsPublished, Published, Settling, Agreed, Jobs,
       NoJob, Clear
  <1>5. LockInv'
    BY DEF KeysTypeOK, CommandInv, LockInv, Cleared, Looks, Clear, Jobs, NoJob
  <1> QED
    BY <1>1, <1>2, <1>3, <1>4, <1>5

LEMMA LockDropsPassKeeps ==
    ASSUME KeptInv, LockDropsPass
    PROVE  KeptInv'
  <1> USE KeysAssumption, KeyFacts DEF KeptInv, LockDropsPass, disk, memory, aside, history, Goto, Return, LockNow
  <1>1. KeysTypeOK'
    BY DEF KeysTypeOK, Labels, Jobs, Stored, PutBack, StopListening
  <1>2. CommandInv'
    BY DEF KeysTypeOK, CommandInv, Jobs, NoJob, KnowsRows, Exists
  <1>3. PlaceInv'
    BY DEF KeysTypeOK, PlaceInv, CommandInv, LoadInv, KeysHaveAnAccount, KeyIsKept, Exists, Jobs,
       NoJob, Clear, Stored, PutBack, KnowsRows
  <1>4. LoadInv'
    BY DEF KeysTypeOK, CommandInv, LoadInv, LoadedKeyIsPublished, Published, Settling, Agreed, Jobs,
       NoJob, Clear
  <1>5. LockInv'
    BY DEF KeysTypeOK, CommandInv, LockInv, Cleared, Looks, Clear, Jobs, NoJob
  <1> QED
    BY <1>1, <1>2, <1>3, <1>4, <1>5

LEMMA ForgetBeginsKeeps ==
    ASSUME KeptInv, ForgetBegins
    PROVE  KeptInv'
  <1> USE KeysAssumption, KeyFacts DEF KeptInv, ForgetBegins, disk, memory, aside, history, Goto, Return, LockNow
  <1>1. KeysTypeOK'
    BY DEF KeysTypeOK, Exists
  <1>2. CommandInv'
    BY DEF KeysTypeOK, CommandInv, Jobs, NoJob, KnowsRows, Exists
  <1>3. PlaceInv'
    <2>1. \A a \in forgetting' : file[a] # NoFile
      BY DEF Unmigrated
    <2> QED
      BY <2>1 DEF PlaceInv, KeysHaveAnAccount, KeyIsKept, Exists
  <1>4. LoadInv'
    BY DEF KeysTypeOK, CommandInv, LoadInv, LoadedKeyIsPublished, Published, Settling, Agreed, Jobs,
       NoJob, Clear
  <1>5. LockInv'
    BY DEF KeysTypeOK, CommandInv, LockInv, Cleared, Looks, Clear, Jobs, NoJob
  <1> QED
    BY <1>1, <1>2, <1>3, <1>4, <1>5

LEMMA ForgetUnreadKeeps ==
    ASSUME KeptInv, ForgetUnread
    PROVE  KeptInv'
  <1> USE DEF KeptInv, ForgetUnread, disk, memory, history
  <1>1. KeysTypeOK'
    BY DEF KeysTypeOK, Exists
  <1>2. CommandInv'
    BY DEF CommandInv, Exists
  <1>3. PlaceInv'
    <2>1. \A a \in forgetting' \cap owned' : file[a] # NoFile
      BY DEF Unmigrated
    <2> QED
      BY <2>1 DEF PlaceInv, KeysHaveAnAccount, KeyIsKept, Exists
  <1>4. LoadInv'
    BY DEF LoadInv, LoadedKeyIsPublished, Published, Settling, Agreed
  <1>5. LockInv'
    BY DEF LockInv, Cleared, Looks, Clear
  <1> QED
    BY <1>1, <1>2, <1>3, <1>4, <1>5

LEMMA StarterListensKeeps ==
    ASSUME KeptInv, StarterListens
    PROVE  KeptInv'
  <1> USE KeysAssumption, KeyFacts DEF KeptInv, StarterListens, disk, memory, aside, history, Goto, Return, LockNow
  <1>1. KeysTypeOK'
    <2>1. starter.at \in Copies
      BY PairCopy DEF KeysTypeOK
    <2>2. starter' \in Starters
      BY <2>1 DEF KeysTypeOK, Starters
    <2> QED
      BY <2>1, <2>2 DEF KeysTypeOK, Copies
  <1>2. CommandInv'
    BY DEF KeysTypeOK, CommandInv, Jobs, NoJob, KnowsRows, Exists
  <1>3. PlaceInv'
    BY DEF KeysTypeOK, PlaceInv, CommandInv, LoadInv, KeysHaveAnAccount, KeyIsKept, Exists, Jobs,
       NoJob, Clear, Stored, PutBack, KnowsRows
  <1>4. LoadInv'
    BY DEF KeysTypeOK, CommandInv, LoadInv, LoadedKeyIsPublished, Published, Settling, Agreed, Jobs,
       NoJob, Clear
  <1>5. LockInv'
    BY DEF KeysTypeOK, CommandInv, LockInv, Cleared, Looks, Clear, Jobs, NoJob
  <1> QED
    BY <1>1, <1>2, <1>3, <1>4, <1>5

LEMMA StarterNotesKeeps ==
    ASSUME KeptInv, StarterNotes
    PROVE  KeptInv'
  <1> USE KeysAssumption, KeyFacts DEF KeptInv, StarterNotes, disk, memory, aside, history, Goto, Return, LockNow
  <1>1. KeysTypeOK'
    <2>1. starter.at[1] \in Accounts /\ starter.at[2] \in TransportKeys
      BY ListeningCopy DEF KeysTypeOK
    <2>2. starter' \in Starters
      BY DEF KeysTypeOK, Starters
    <2> QED
      BY <2>1, <2>2 DEF KeysTypeOK
  <1>2. CommandInv'
    BY DEF KeysTypeOK, CommandInv, Jobs, NoJob, KnowsRows, Exists
  <1>3. PlaceInv'
    BY DEF KeysTypeOK, PlaceInv, CommandInv, LoadInv, KeysHaveAnAccount, KeyIsKept, Exists, Jobs,
       NoJob, Clear, Stored, PutBack, KnowsRows
  <1>4. LoadInv'
    BY DEF KeysTypeOK, CommandInv, LoadInv, LoadedKeyIsPublished, Published, Settling, Agreed, Jobs,
       NoJob, Clear
  <1>5. LockInv'
    BY DEF KeysTypeOK, CommandInv, LockInv, Cleared, Looks, Clear, Jobs, NoJob
  <1> QED
    BY <1>1, <1>2, <1>3, <1>4, <1>5

LEMMA ForgetOneKeeps ==
    ASSUME KeptInv, NEW a \in Accounts, ForgetOne(a)
    PROVE  KeptInv'
  <1> USE KeysAssumption, KeyFacts DEF KeptInv, ForgetOne, disk, memory, aside, history, Goto, Return, LockNow
  <1>1. KeysTypeOK'
    BY DEF KeysTypeOK, Labels, Jobs, Stored, PutBack, StopListening
  <1>2. CommandInv'
    BY DEF KeysTypeOK, CommandInv, Jobs, NoJob, KnowsRows, Exists
  <1>3. PlaceInv'
    BY DEF KeysTypeOK, PlaceInv, CommandInv, LoadInv, KeysHaveAnAccount, KeyIsKept, Exists, Jobs,
       NoJob, Clear, Stored, PutBack, KnowsRows
  <1>4. LoadInv'
    BY DEF KeysTypeOK, CommandInv, LoadInv, LoadedKeyIsPublished, Published, Settling, Agreed, Jobs,
       NoJob, Clear
  <1>5. LockInv'
    BY DEF KeysTypeOK, CommandInv, LockInv, Cleared, Looks, Clear, Jobs, NoJob
  <1> QED
    BY <1>1, <1>2, <1>3, <1>4, <1>5

LEMMA SetRelaysKeeps ==
    ASSUME KeptInv, NEW a \in Accounts, SetRelays(a)
    PROVE  KeptInv'
  <1> USE KeysAssumption, KeyFacts DEF KeptInv, SetRelays, disk, memory, aside, history, Goto, Return, LockNow
  <1>1. KeysTypeOK'
    <2>1. <<a, row[a]>> \in Copies
      BY DEF KeysTypeOK, Exists, Copies
    <2>2. starter' \in Starters
      BY <2>1 DEF Starters, NoStarter
    <2> QED
      BY <2>2 DEF KeysTypeOK
  <1>2. CommandInv'
    BY DEF KeysTypeOK, CommandInv, Jobs, NoJob, KnowsRows, Exists
  <1>3. PlaceInv'
    BY DEF KeysTypeOK, PlaceInv, CommandInv, LoadInv, KeysHaveAnAccount, KeyIsKept, Exists, Jobs,
       NoJob, Clear, Stored, PutBack, KnowsRows
  <1>4. LoadInv'
    BY DEF KeysTypeOK, CommandInv, LoadInv, LoadedKeyIsPublished, Published, Settling, Agreed, Jobs,
       NoJob, Clear
  <1>5. LockInv'
    BY DEF KeysTypeOK, CommandInv, LockInv, Cleared, Looks, Clear, Jobs, NoJob
  <1> QED
    BY <1>1, <1>2, <1>3, <1>4, <1>5

\* A command takes the gate, and has touched nothing yet.
LEMMA Entered ==
    ASSUME KeptInv, NEW op \in {"unlock", "create", "delete"}, NEW who \in SUBSET Accounts, NEW label,
           Enter(op, who, label), UNCHANGED <<disk, memory, aside>>,
           op # "unlock" => \A a, b \in who : a = b,
           \/ op = "unlock" /\ label = "present"
           \/ op = "create" /\ label \in {"prepare", "files"}
           \/ op = "delete" /\ label = "dstop"
    PROVE  KeptInv'
  <1> USE KeysAssumption, KeyFacts DEF KeptInv, disk, memory, aside, Enter
  <1>1. /\ job'.op = op /\ job'.who = who /\ job'.todo = {} /\ job'.next = "end"
        /\ job' \in Jobs
    BY DEF NoJob, Jobs
  <1>2. KeysTypeOK'
    BY <1>1 DEF KeysTypeOK, Labels
  <1>3. CommandInv'
    BY <1>1 DEF CommandInv, KnowsRows, Exists
  <1>4. PlaceInv'
    BY <1>1 DEF PlaceInv, KeysHaveAnAccount, KeyIsKept, Exists
  <1>5. LoadInv'
    BY <1>1 DEF LoadInv, LoadedKeyIsPublished, Settling, Agreed
  <1>6. LockInv'
    BY DEF LockInv
  <1> QED
    BY <1>2, <1>3, <1>4, <1>5, <1>6

LEMMA CommandKeeps ==
    ASSUME KeptInv, Command
    PROVE  KeptInv'
  <1>1. CASE Unlock({})
    BY <1>1, Entered DEF Unlock
  <1>2. ASSUME NEW a \in Accounts, Unlock({a}) PROVE KeptInv'
    BY <1>2, Entered DEF Unlock
  <1>3. ASSUME NEW a \in Accounts, Create(a) PROVE KeptInv'
    BY <1>3, Entered DEF Create
  <1>4. ASSUME NEW a \in Accounts, Delete(a) PROVE KeptInv'
    BY <1>4, Entered DEF Delete
  <1> QED
    BY <1>1, <1>2, <1>3, <1>4 DEF Command

LEMMA LaunchNextKeeps ==
    ASSUME KeptInv, NEW c \in starter.todo, LaunchNext(c)
    PROVE  KeptInv'
  <1> USE KeysAssumption, KeyFacts DEF KeptInv, LaunchNext, disk, memory, history
  <1>1. starter' \in Starters
    <2>1. starter.todo \in SUBSET Copies
      BY DEF KeysTypeOK, Starters
    <2> QED
      BY <2>1 DEF Starters
  <1>2. KeysTypeOK'
    BY <1>1 DEF KeysTypeOK
  <1>3. CommandInv'
    BY DEF CommandInv, Exists
  <1>4. PlaceInv'
    BY DEF PlaceInv, KeysHaveAnAccount, KeyIsKept, Exists
  <1>5. LoadInv'
    BY DEF LoadInv, LoadedKeyIsPublished, Published, Settling, Agreed
  <1>6. LockInv'
    BY DEF LockInv, Cleared, Looks, Clear
  <1> QED
    BY <1>2, <1>3, <1>4, <1>5, <1>6

\* The launch starts from the rows, and every row names a key.
LEMMA LaunchIsStarter ==
    ASSUME NEW rows \in [Accounts -> TransportKeys \cup {NoKey}]
    PROVE  Launch(rows) \in Starters
  <1>1. {<<a, rows[a]>> : a \in {b \in Accounts : rows[b] # NoKey}} \in SUBSET Copies
    BY DEF Copies
  <1> QED
    BY <1>1 DEF Launch, NoStarter, Starters

\* With no command and nothing loaded, what is left to see is on the disk.
LEMMA Quiescent ==
    ASSUME KeysTypeOK, pc = "idle", job = NoJob, vault = Clear, forgetting = {},
           lockSeen = FALSE, settled = {}, KeysHaveAnAccount, KeyIsKept
    PROVE  KeptInv
  <1>1. /\ job.op = "none" /\ job.who = {} /\ job.todo = {} /\ job.next = "end"
        /\ \A a \in Accounts : vault[a] = NoKey
    BY DEF NoJob, Clear
  <1>2. CommandInv
    BY <1>1 DEF CommandInv, KnowsRows
  <1>3. PlaceInv
    BY <1>1 DEF PlaceInv
  <1>4. LoadInv
    BY <1>1 DEF LoadInv, LoadedKeyIsPublished, Settling, Agreed
  <1>5. LockInv
    BY DEF LockInv
  <1> QED
    BY <1>2, <1>3, <1>4, <1>5 DEF KeptInv

LEMMA RestartKeeps ==
    ASSUME KeptInv, Restart
    PROVE  KeptInv'
  <1> USE KeysAssumption, KeyFacts DEF KeptInv, Restart, disk
  <1>1. starter' \in Starters
    BY LaunchIsStarter DEF KeysTypeOK
  <1>2. KeysTypeOK'
    BY <1>1 DEF KeysTypeOK, Labels, Clear
  <1>3. KeysHaveAnAccount' /\ KeyIsKept'
    BY DEF PlaceInv, KeysHaveAnAccount, KeyIsKept, Exists, Clear
  <1>4. /\ job'.op = "none" /\ job'.who = {} /\ job'.todo = {} /\ job'.next = "end"
        /\ \A a \in Accounts : vault'[a] = NoKey
    BY DEF NoJob, Clear
  <1>5. CommandInv'
    BY <1>4 DEF CommandInv, KnowsRows
  <1>6. PlaceInv'
    BY <1>3, <1>4 DEF PlaceInv
  <1>7. LoadInv'
    BY <1>4 DEF LoadInv, LoadedKeyIsPublished, Settling, Agreed
  <1>8. LockInv'
    BY DEF LockInv
  <1> QED
    BY <1>2, <1>5, <1>6, <1>7, <1>8

\* An install of any age satisfies the invariant.
LEMMA InitHolds == KeysInit => KeptInv
  <1> SUFFICES ASSUME KeysInit PROVE KeptInv
    OBVIOUS
  <1> USE KeysAssumption, KeyFacts DEF KeysInit
  <1>1. PICK where \in [owned -> {"typed", "device", "keychain", "both"}] :
          /\ file = [a \in Accounts |->
                IF a \in owned /\ where[a] # "keychain"
                THEN [key |-> 0, seal |-> IF where[a] = "typed" THEN Typed ELSE Device]
                ELSE NoFile]
          /\ chain = [a \in Accounts |->
                IF a \in owned /\ where[a] \in {"keychain", "both"} THEN 0 ELSE NoKey]
    OBVIOUS
  <1>2. 0 \in TransportKeys
    BY DEF TransportKeys
  <1>3. row \in [Accounts -> TransportKeys \cup {NoKey}]
    BY <1>2
  <1>4. file \in [Accounts -> KeyFiles \cup {NoFile}] /\ chain \in [Accounts -> TransportKeys \cup {NoKey}]
    BY <1>1, <1>2 DEF KeyFiles
  <1>5. passFile \in {NoPass, Device}
    OBVIOUS
  <1>6. starter \in Starters
    BY <1>3, LaunchIsStarter
  <1>7. KeysTypeOK
    BY <1>2, <1>3, <1>4, <1>5, <1>6 DEF KeysTypeOK, Labels, Clear
  <1>8. KeyIsKept
    <2>1. ASSUME NEW a \in owned PROVE file[a] # NoFile \/ chain[a] # NoKey
      <3>1. CASE where[a] = "keychain"
        BY <1>1, <1>2, <3>1
      <3>2. CASE where[a] # "keychain"
        BY <1>1, <1>2, <3>2 DEF NoFile
      <3> QED
        BY <3>1, <3>2
    <2> QED
      BY <2>1 DEF KeyIsKept
  <1>9. KeysHaveAnAccount
    <2>1. ASSUME NEW a \in Accounts, a \notin owned
          PROVE  file[a] = NoFile /\ chain[a] = NoKey
      BY <1>1, <2>1
    <2>2. ASSUME NEW a \in owned PROVE a \in Exists
      BY <1>2 DEF Exists
    <2> QED
      BY <2>1, <2>2 DEF KeysHaveAnAccount, Clear
  <1> QED
    BY <1>7, <1>8, <1>9, Quiescent

LEMMA NextKeeps == KeptInv /\ [KeysNext]_keysVars => KeptInv'
  <1> SUFFICES ASSUME KeptInv, [KeysNext]_keysVars PROVE KeptInv'
    OBVIOUS
  <1>1. CASE Command
    BY <1>1, CommandKeeps
  <1>2. CASE CommandStep
    BY <1>2, PresentKeeps, OpenKeysKeeps, CheckMigratedKeeps, ReadKeysKeeps, InsertKeysKeeps,
       StopStaleKeeps, SettledKeeps, ListenKeeps, NoteKeeps, EnsuredKeeps, EndKeeps, PrepareKeeps,
       SetSecretKeeps, PrepareFilesKeeps, MigrateKeeps, SettleKeeps, EnsureKeeps, FindAccountKeeps,
       RestoreKeeps, StoreRestoredKeeps, VerifyRestoredKeeps, AddRowKeeps, AddStoreKeeps, FinalKeeps,
       DeleteStopsKeeps, DeleteFileKeeps, DeleteChainKeeps, DeleteRowKeeps
       DEF CommandStep
  <1>3. CASE Aside
    BY <1>3, LockBeginsKeeps, LockMovesAuthKeeps, LockEmptiesVaultKeeps, LockDropsPassKeeps,
       ForgetBeginsKeeps, ForgetUnreadKeeps, StarterListensKeeps, StarterNotesKeeps, ForgetOneKeeps, SetRelaysKeeps,
       LaunchNextKeeps
       DEF Aside
  <1>4. CASE Restart
    BY <1>4, RestartKeeps
  <1>5. CASE UNCHANGED keysVars
    BY <1>5 DEF keysVars, KeptInv, KeysTypeOK, CommandInv, PlaceInv, LoadInv, LockInv, Cleared,
       Looks, LoadedKeyIsPublished, Published, Settling, Agreed, KeysHaveAnAccount, KeyIsKept, Exists, Clear
  <1> QED
    BY <1>1, <1>2, <1>3, <1>4, <1>5 DEF KeysNext

LEMMA Inductive == KeysSpec => []KeptInv
  BY InitHolds, NextKeeps, PTL DEF KeysSpec

\* Over failed writes, deletions and deaths of the process, no key is left in a file, in the
\* Keychain or in the vault without the row of its account (AppState::add_account puts the row
\* first, delete_account removes it last), and no key file is unsealed.
THEOREM KeysStayWithTheirAccount == KeysSpec => []KeysInv
  <1>1. KeptInv => KeysInv
    BY DEF KeptInv, PlaceInv, KeysInv
  <1> QED
    BY <1>1, Inductive, PTL

\* Whatever forget_keychain, migrate and restore_account_keys interleave with, and wherever the
\* process dies in them, the keys of an account that was not deleted are in its key file or in
\* the Keychain.
THEOREM OnlyDeletionLosesAKey == KeysSpec => []KeyIsKept
  <1>1. KeptInv => KeyIsKept
    BY DEF KeptInv, PlaceInv
  <1> QED
    BY <1>1, Inductive, PTL

\* For an account whose last unlock_with or create_account returned without an error, a loaded
\* transport key is the one its row names, also when a recovery had died between the key file
\* and the row, whatever has failed or died in the commands for other accounts.
THEOREM RowNamesTheLoadedKey == KeysSpec => []LoadedKeyIsPublished
  <1>1. KeptInv => LoadedKeyIsPublished
    BY DEF KeptInv, LoadInv
  <1> QED
    BY <1>1, Inductive, PTL

\* The epochs of AppState and WalletService do their work: the lock command empties the vault and
\* drops the passphrase for good, whichever command it meets and at whichever of its awaits.
THEOREM LockWins == KeysSpec => []LockedStaysLocked
  <1>1. KeptInv => LockedStaysLocked
    BY DEF KeptInv, CommandInv, LockInv, Looks, Cleared, LockedStaysLocked, Quiet
  <1> QED
    BY <1>1, Inductive, PTL
=============================================================================
