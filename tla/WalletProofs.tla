---------------------------- MODULE WalletProofs ----------------------------
(***************************************************************************)
(* Spending, for any accounts, mints, prices and number of tasks, and with *)
(* no bound on the locks or on the clock: what is paid was reviewed, each  *)
(* review is paid once at most, and a lock voids every review begun before *)
(* it.  The lemmas about one task's step serve wallet connect as well,     *)
(* whose handlers are tasks of Wallet.                                     *)
(***************************************************************************)
EXTENDS Wallet, FiniteSetTheorems, TLAPS

GatedLabels ==
    {"open", "lookup", "quote", "record", "insert", "take", "prepare", "confirm", "select"}

\* A review on its way to its row.
Reviews(l, w) ==
    l \in {"open", "lookup", "quote", "record", "insert"} /\ w.op \in {"review", "zap"}

\* What a task's place says of its variables.
Placed(l, w) ==
    /\ l \in Labels /\ w \in Works \cup {NoWork}
    /\ l # "idle" => w \in Works
    /\ l \in {"lookup", "quote", "record", "insert"} =>
          w.op \in {"review", "zap"} /\ w.mint \in Mints
    /\ l = "lookup" => w.op = "zap"
    /\ l \in {"record", "insert"} => w.maximum \in Amounts
    /\ l \in {"take", "prepare", "confirm"} => w.op = "pay"
    /\ l = "select" => w.op \in {"setmint", "select"}
    /\ w.op \in {"setmint", "select"} => w.mint \in Mints
    /\ Pays(l, w) => w.id \in Handles /\ w.mint \in Mints

\* The types, and one task at a time behind the gate.
TaskInv ==
    /\ WalletTypeOK
    /\ IsFiniteSet(payments)
    /\ \A t \in Tasks : Placed(pc[t], work[t]) /\ (pc[t] \in GatedLabels <=> gate = t)

\* A review is a row, in the hands of one task, or paid for: one of these.
OnceInv ==
    /\ \A r, s \in issued : r.id = s.id => r = s
    /\ \A r, s \in approvals : r.id = s.id => r = s
    /\ \A p \in payments, r \in approvals : p.id # r.id
    /\ \A t \in Tasks : Pays(pc[t], work[t]) =>
          /\ \A r \in approvals : r.id # work[t].id
          /\ \A p \in payments : p.id # work[t].id
    /\ ReviewPaysOnce

\* s was shown to the user, and x asks for no more.
Covers(s, x) ==
    /\ s.id = x.id /\ s.account = x.account /\ s.payee = x.payee /\ s.mint = x.mint
    /\ s.maximum = x.maximum /\ x.expiry <= s.expiry

MatchInv ==
    /\ \A r \in approvals : \E s \in issued : Covers(s, r)
    /\ \A t \in Tasks : Pays(pc[t], work[t]) => \E s \in issued : Covers(s, work[t])
    /\ PaidAsReviewed

\* What a lock has passed over is of an earlier epoch.
InEpoch(x) == x.epoch <= epoch /\ (x.bumped => x.epoch < epoch)

LockInv ==
    /\ \A r \in approvals : InEpoch(r)
    /\ \A t \in Tasks : Reviews(pc[t], work[t]) \/ Pays(pc[t], work[t]) => InEpoch(work[t])
    /\ LockVoidsReviews

SpendInv == TaskInv /\ OnceInv /\ MatchInv /\ LockInv

LEMMA InitHolds == WalletInit => SpendInv
  <1> SUFFICES ASSUME WalletInit PROVE SpendInv
    OBVIOUS
  <1> USE WalletAssumption DEF WalletInit
  <1>1. TaskInv
    BY FS_EmptySet DEF TaskInv, WalletTypeOK, Labels, Placed, Pays, NoWork, GatedLabels
  <1>2. OnceInv /\ MatchInv /\ LockInv
    BY DEF OnceInv, MatchInv, LockInv, Reviews, Pays, ReviewPaysOnce, PaidAsReviewed,
       LockVoidsReviews
  <1> QED
    BY <1>1, <1>2 DEF SpendInv

-----------------------------------------------------------------------------
(* A step of one task *)

LEMMA NotWork == NoWork \notin Works /\ NoWork.op = "none"
  BY DEF NoWork, Works, Ops

\* Task t is at l with the variables w.
Moves(t, l, w) == pc' = [pc EXCEPT ![t] = l] /\ work' = [work EXCEPT ![t] = w]

\* Reviews may go; nothing is recorded or paid.
Still ==
    /\ UNCHANGED <<issued, payments>>
    /\ approvals' \subseteq approvals
    /\ epoch' \in Nat /\ epoch <= epoch' /\ now' \in Nat
    /\ held' \subseteq Accounts /\ selected' \in [Accounts -> Mints]
    /\ locking' \in {"no", "clear", "vault"}

LEMMA StillFrom ==
    ASSUME SpendInv, UNCHANGED <<issued, payments, now, held, epoch, locking>>,
           approvals' \subseteq approvals, selected' \in [Accounts -> Mints]
    PROVE  Still
  BY DEF SpendInv, TaskInv, WalletTypeOK, Still

LEMMA StillAsWas ==
    ASSUME SpendInv, UNCHANGED <<issued, payments, now, held, epoch, locking, approvals, selected>>
    PROVE  Still
  BY DEF SpendInv, TaskInv, WalletTypeOK, Still

\* What t then has in hand is of this epoch, is nobody else's, and was shown.
Fits(l, w) ==
    /\ Reviews(l, w) \/ Pays(l, w) => w.epoch <= epoch' /\ (w.bumped => w.epoch < epoch')
    /\ Pays(l, w) =>
          /\ \A r \in approvals' : r.id # w.id
          /\ \A p \in payments : p.id # w.id
          /\ \E s \in issued : Covers(s, w)

LEMMA TaskMoves ==
    ASSUME SpendInv, NEW t \in Tasks, NEW l, NEW w, Moves(t, l, w), Placed(l, w), Fits(l, w), Still,
           gate \in {t, NoTask}, gate' \in {t, NoTask}, l \in GatedLabels <=> gate' = t
    PROVE  SpendInv'
  <1> USE WalletAssumption DEF SpendInv, Still
  <1>1. /\ pc' \in [Tasks -> Labels] /\ work' \in [Tasks -> Works \cup {NoWork}]
        /\ pc'[t] = l /\ work'[t] = w
        /\ \A u \in Tasks \ {t} : pc'[u] = pc[u] /\ work'[u] = work[u] /\ gate # u /\ gate' # u
    BY DEF Moves, Placed, TaskInv, WalletTypeOK
  <1>2. TaskInv'
    BY <1>1 DEF TaskInv, WalletTypeOK, Placed, Pays
  <1>3. OnceInv'
    BY <1>1 DEF OnceInv, Fits, ReviewPaysOnce, Pays
  <1>4. MatchInv'
    BY <1>1 DEF MatchInv, Fits, PaidAsReviewed, Pays
  <1>5. LockInv'
    <2>1. \A x : x.epoch \in Nat /\ InEpoch(x) => InEpoch(x)'
      BY DEF InEpoch, TaskInv, WalletTypeOK
    <2>2. \A r \in approvals' : InEpoch(r)'
      <3>1. \A r \in approvals : r.epoch \in Nat
        BY DEF TaskInv, WalletTypeOK, ApprovalRows
      <3> QED
        BY <3>1 DEF LockInv, InEpoch, TaskInv, WalletTypeOK
    <2>3. \A u \in Tasks \ {t} : Reviews(pc[u], work[u]) \/ Pays(pc[u], work[u]) => FALSE
      BY <1>1 DEF TaskInv, GatedLabels, Reviews, Pays
    <2> QED
      BY <1>1, <2>2, <2>3 DEF LockInv, Fits, InEpoch, LockVoidsReviews, Reviews, Pays
  <1> QED
    BY <1>2, <1>3, <1>4, <1>5

\* The end of a command that has nothing to show for it.
LEMMA LeaveKeeps ==
    ASSUME SpendInv, NEW t \in Tasks, gate = t, NEW ok \in BOOLEAN, Leave(t, ok), Still
    PROVE  SpendInv'
  <1> DEFINE l == IF work[t].window THEN "idle" ELSE "back"
  <1> DEFINE w == IF work[t].window THEN NoWork ELSE [work[t] EXCEPT !.ok = ok]
  <1>1. work[t] \in Works /\ Placed(pc[t], work[t])
    BY DEF SpendInv, TaskInv, Placed, GatedLabels
  <1>2. Moves(t, l, w)
    BY <1>1 DEF Leave, Moves, SpendInv, TaskInv, WalletTypeOK
  <1>3. Placed(l, w)
    BY <1>1, NotWork DEF Placed, Pays, Labels, Works
  <1>4. Fits(l, w) /\ ~(l \in GatedLabels)
    BY DEF Fits, Reviews, Pays, GatedLabels
  <1> QED
    BY <1>2, <1>3, <1>4, TaskMoves, WalletAssumption DEF Leave

\* The arguments of a command.
Arguments(w) ==
    /\ w.op \in Ops /\ w.window \in BOOLEAN /\ w.account \in Accounts /\ w.payee \in Payees
    /\ w.id \in Handles \cup {NoHandle} /\ w.mint \in Mints \cup {AnyMint}
    /\ w.op \in {"setmint", "select"} => w.mint \in Mints

\* A step of a task that has not got the gate, whoever has it.
LEMMA OutsideMoves ==
    ASSUME SpendInv, NEW t \in Tasks, NEW l, NEW w, Moves(t, l, w), Placed(l, w),
           l \notin GatedLabels, gate # t, UNCHANGED gate, Still
    PROVE  SpendInv'
  <1> USE WalletAssumption DEF SpendInv, Still
  <1>1. /\ pc' \in [Tasks -> Labels] /\ work' \in [Tasks -> Works \cup {NoWork}]
        /\ pc'[t] = l /\ work'[t] = w
        /\ \A u \in Tasks \ {t} : pc'[u] = pc[u] /\ work'[u] = work[u]
    BY DEF Moves, Placed, TaskInv, WalletTypeOK
  <1>2. ~Pays(l, w) /\ ~Reviews(l, w)
    BY DEF Pays, Reviews, GatedLabels
  <1>3. TaskInv'
    BY <1>1 DEF TaskInv, WalletTypeOK, Placed, Pays, GatedLabels
  <1>4. OnceInv' /\ MatchInv'
    BY <1>1, <1>2 DEF OnceInv, MatchInv, ReviewPaysOnce, PaidAsReviewed, Pays
  <1>5. LockInv'
    <2>1. \A r \in approvals : r.epoch \in Nat
      BY DEF TaskInv, WalletTypeOK, ApprovalRows
    <2>2. \A u \in Tasks \ {t} : pc[u] # "idle" => work[u].epoch \in Nat
      BY DEF TaskInv, Placed, Works
    <2> QED
      BY <1>1, <1>2, <2>1, <2>2 DEF LockInv, InEpoch, TaskInv, WalletTypeOK, LockVoidsReviews,
         Reviews, Pays
  <1> QED
    BY <1>3, <1>4, <1>5

LEMMA StartKeeps ==
    ASSUME SpendInv, NEW t \in Tasks, Still, UNCHANGED gate, NEW w, Arguments(w), Start(t, w)
    PROVE  SpendInv'
  <1> DEFINE v == [op |-> w.op, window |-> w.window, account |-> w.account, payee |-> w.payee,
                   id |-> w.id, mint |-> w.mint, maximum |-> 0, expiry |-> 0, epoch |-> 0,
                   ok |-> FALSE, bumped |-> FALSE]
  <1>1. Moves(t, "gate", v)
    BY DEF Start, Moves
  <1>2. Placed("gate", v) /\ "gate" \notin GatedLabels
    BY DEF Placed, Pays, Labels, Works, Arguments, GatedLabels
  <1>3. gate # t
    BY DEF Start, SpendInv, TaskInv, GatedLabels
  <1> HIDE DEF v
  <1> QED
    BY <1>1, <1>2, <1>3, OutsideMoves

LEMMA WindowKeeps ==
    ASSUME SpendInv, NEW t \in Tasks, WindowCommand(t)
    PROVE  SpendInv'
  <1>1. Still /\ UNCHANGED gate
    <2>1. UNCHANGED <<issued, payments, now, held, epoch, locking, approvals, selected, gate>>
      BY DEF WindowCommand, WindowReview, WindowZap, WindowPay, WindowSelect
    <2> QED
      BY <2>1, StillAsWas
  <1>2. ASSUME NEW w, Arguments(w), Start(t, w) PROVE SpendInv'
    BY <1>1, <1>2, StartKeeps
  <1> USE DEF Arguments, Ops, Payees
  <1>3. CASE \E a \in Accounts, payee \in Payees : WindowReview(t, a, payee)
    BY <1>2, <1>3 DEF WindowReview
  <1>4. CASE \E a \in Accounts : WindowZap(t, a)
    BY <1>2, <1>4 DEF WindowZap
  <1>5. CASE \E a \in Accounts, r \in Shown : WindowPay(t, a, r)
    <2>1. \A r \in Shown : r.id \in Handles /\ r.payee \in Payees
      BY DEF Shown, SpendInv, TaskInv, WalletTypeOK, ApprovalRows
    <2> QED
      BY <1>2, <1>5, <2>1 DEF WindowPay
  <1>6. CASE \E a \in Accounts, m \in Mints, op \in {"setmint", "select"} : WindowSelect(t, a, m, op)
    BY <1>2, <1>6 DEF WindowSelect
  <1> QED
    BY <1>3, <1>4, <1>5, <1>6 DEF WindowCommand

LEMMA EnterKeeps ==
    ASSUME SpendInv, NEW t \in Tasks, EnterGate(t)
    PROVE  SpendInv'
  <1>1. /\ Placed(pc[t], work[t]) /\ work[t] \in Works /\ pc[t] = "gate" /\ gate = NoTask /\ gate' = t
        /\ pc \in [Tasks -> Labels] /\ work \in [Tasks -> Works \cup {NoWork}] /\ epoch \in Nat
    BY DEF EnterGate, SpendInv, TaskInv, WalletTypeOK, Placed
  <1>2. work[t].op \in Ops
    BY <1>1 DEF Works
  <1>3. Still
    <2>1. /\ UNCHANGED <<issued, payments, now, held, locking, selected>>
          /\ approvals' \in {approvals, {}} /\ epoch' \in {epoch, epoch + 1}
      BY <1>2 DEF EnterGate, ServiceLock, Ops
    <2> QED
      BY <2>1 DEF Still, SpendInv, TaskInv, WalletTypeOK
  <1>4. CASE work[t].op \in {"review", "zap"}
    <2> DEFINE w == [work[t] EXCEPT !.epoch = epoch, !.bumped = FALSE]
    <2>1. Moves(t, "open", w)
      BY <1>1, <1>4 DEF EnterGate, Moves
    <2>2. Placed("open", w) /\ epoch' = epoch /\ w.op = work[t].op /\ w.epoch = epoch /\ ~w.bumped
      BY <1>1, <1>4 DEF EnterGate, Placed, Labels, Works, Pays
    <2>3. Fits("open", w) /\ "open" \in GatedLabels
      BY <1>1, <1>4, <2>2 DEF Fits, Reviews, Pays, GatedLabels
    <2> HIDE DEF w
    <2> QED
      BY <1>1, <1>3, <2>1, <2>2, <2>3, TaskMoves
  <1>5. CASE work[t].op = "pay"
    <2>1. Moves(t, "take", work[t])
      BY <1>1, <1>5 DEF EnterGate, Goto, Moves
    <2>2. Placed("take", work[t])
      BY <1>1, <1>5 DEF Placed, Labels, Pays
    <2>3. Fits("take", work[t]) /\ "take" \in GatedLabels
      BY <1>1 DEF Fits, Reviews, Pays, GatedLabels
    <2> QED
      BY <1>1, <1>3, <2>1, <2>2, <2>3, TaskMoves
  <1>6. CASE work[t].op \in {"setmint", "select"}
    <2> DEFINE w == [work[t] EXCEPT !.epoch = epoch']
    <2>1. Moves(t, "open", w)
      BY <1>1, <1>6 DEF EnterGate, Moves
    <2>2. Placed("open", w) /\ w.op = work[t].op
      BY <1>1, <1>3, <1>6 DEF Still, Placed, Labels, Works, Pays
    <2>3. Fits("open", w) /\ "open" \in GatedLabels
      BY <1>6, <2>2 DEF Fits, Reviews, Pays, GatedLabels
    <2> HIDE DEF w
    <2> QED
      BY <1>1, <1>3, <2>1, <2>2, <2>3, TaskMoves
  <1> QED
    BY <1>2, <1>4, <1>5, <1>6 DEF Ops

LEMMA OpenKeeps ==
    ASSUME SpendInv, NEW t \in Tasks, Open(t)
    PROVE  SpendInv'
  <1>1. /\ Placed(pc[t], work[t]) /\ work[t] \in Works /\ pc[t] = "open" /\ gate = t
        /\ pc \in [Tasks -> Labels] /\ work \in [Tasks -> Works \cup {NoWork}] /\ epoch \in Nat
        /\ selected[work[t].account] \in Mints /\ epoch' = epoch
    BY DEF Open, Gated, SpendInv, TaskInv, WalletTypeOK, Placed, Works
  <1>2. Still
    BY DEF Open, Still, SpendInv, TaskInv, WalletTypeOK
  <1>3. CASE Leave(t, FALSE)
    BY <1>1, <1>2, <1>3, LeaveKeeps
  <1> DEFINE l == CASE work[t].op = "review" -> "quote" [] work[t].op = "zap" -> "lookup"
                    [] work[t].op = "pay" -> "prepare" [] OTHER -> "select"
  <1> DEFINE w == [work[t] EXCEPT !.mint = IF work[t].op \in {"review", "zap"}
                                           THEN selected[work[t].account] ELSE @]
  <1>4. CASE ~Leave(t, FALSE)
    <2>1. Moves(t, l, w) /\ gate' = gate
      BY <1>1, <1>4 DEF Open, Moves
    <2>2. /\ work[t].op \in {"review", "zap", "pay", "setmint", "select"}
          /\ w \in Works /\ w.op = work[t].op /\ w.id = work[t].id /\ w.account = work[t].account
          /\ w.payee = work[t].payee /\ w.maximum = work[t].maximum /\ w.expiry = work[t].expiry
          /\ w.epoch = work[t].epoch /\ w.bumped = work[t].bumped
          /\ w.op \in {"review", "zap"} => w.mint \in Mints
          /\ w.op \notin {"review", "zap"} => w = work[t]
      BY <1>1 DEF Works, Ops
    <2>3. /\ l \in {"quote", "lookup", "prepare", "select"}
          /\ l \in {"quote", "lookup"} => w.op \in {"review", "zap"}
          /\ l = "lookup" => w.op = "zap"
          /\ l = "prepare" => w.op = "pay"
          /\ l = "select" => w.op \in {"setmint", "select"}
      BY <2>2
    <2> HIDE DEF l, w
    <2>4. Placed(l, w) /\ l \in GatedLabels
      BY <1>1, <2>2, <2>3 DEF Placed, Labels, Pays, GatedLabels
    <2>5. Fits(l, w)
      <3>1. Reviews(l, w) => Reviews(pc[t], work[t])
        BY <1>1, <2>2, <2>3 DEF Reviews
      <3>2. Pays(l, w) => Pays(pc[t], work[t]) /\ w = work[t]
        BY <1>1, <2>2, <2>3 DEF Pays
      <3> QED
        BY <1>1, <1>2, <2>2, <3>1, <3>2
        DEF Fits, SpendInv, LockInv, InEpoch, OnceInv, MatchInv, Still, Reviews, Pays
    <2> QED
      BY <1>1, <1>2, <2>1, <2>4, <2>5, TaskMoves
  <1> QED
    BY <1>3, <1>4

LEMMA LookupKeeps ==
    ASSUME SpendInv, NEW t \in Tasks, Lookup(t)
    PROVE  SpendInv'
  <1>1. /\ Placed(pc[t], work[t]) /\ work[t] \in Works /\ pc[t] = "lookup" /\ gate = t
        /\ pc \in [Tasks -> Labels] /\ work \in [Tasks -> Works \cup {NoWork}] /\ epoch' = epoch
    BY DEF Lookup, Gated, SpendInv, TaskInv, WalletTypeOK, Placed
  <1>2. Still
    BY DEF Lookup, Still, SpendInv, TaskInv, WalletTypeOK
  <1>3. CASE Leave(t, FALSE)
    BY <1>1, <1>2, <1>3, LeaveKeeps
  <1>4. CASE ~Leave(t, FALSE)
    <2>1. PICK i \in Invoices : work' = [work EXCEPT ![t].payee = i]
      BY <1>4 DEF Lookup
    <2> DEFINE w == [work[t] EXCEPT !.payee = i]
    <2>2. Moves(t, "quote", w) /\ gate' = gate
      BY <1>1, <1>4, <2>1 DEF Lookup, Moves
    <2>3. /\ w \in Works /\ w.op = work[t].op /\ w.mint = work[t].mint
          /\ w.epoch = work[t].epoch /\ w.bumped = work[t].bumped
      BY <1>1 DEF Works, Payees
    <2> HIDE DEF w
    <2>4. Placed("quote", w) /\ "quote" \in GatedLabels
      BY <1>1, <2>3 DEF Placed, Labels, Pays, GatedLabels
    <2>5. Fits("quote", w)
      BY <1>1, <2>3 DEF Fits, SpendInv, LockInv, InEpoch, Reviews, Pays
    <2> QED
      BY <1>1, <1>2, <2>2, <2>4, <2>5, TaskMoves
  <1> QED
    BY <1>3, <1>4

LEMMA QuoteKeeps ==
    ASSUME SpendInv, NEW t \in Tasks, Quote(t)
    PROVE  SpendInv'
  <1> USE WalletAssumption
  <1>1. /\ Placed(pc[t], work[t]) /\ work[t] \in Works /\ pc[t] = "quote" /\ gate = t /\ now \in Nat
        /\ pc \in [Tasks -> Labels] /\ work \in [Tasks -> Works \cup {NoWork}] /\ epoch' = epoch
    BY DEF Quote, Gated, SpendInv, TaskInv, WalletTypeOK, Placed
  <1>2. Still
    BY DEF Quote, Still, SpendInv, TaskInv, WalletTypeOK
  <1>3. CASE Leave(t, FALSE)
    BY <1>1, <1>2, <1>3, LeaveKeeps
  <1>4. CASE ~Leave(t, FALSE)
    <2>1. PICK maximum \in Amounts, life \in 0 .. QuoteLife :
             work' = [work EXCEPT ![t].maximum = maximum, ![t].expiry = now + life]
      BY <1>4 DEF Quote
    <2> DEFINE w == [work[t] EXCEPT !.maximum = maximum, !.expiry = now + life]
    <2>2. Moves(t, "record", w) /\ gate' = gate
      BY <1>1, <1>4, <2>1 DEF Quote, Moves
    <2>3. now + life \in Nat
      BY <1>1
    <2>4. /\ w \in Works /\ w.op = work[t].op /\ w.mint = work[t].mint /\ w.maximum \in Amounts
          /\ w.epoch = work[t].epoch /\ w.bumped = work[t].bumped
      BY <1>1, <2>3 DEF Works
    <2> HIDE DEF w
    <2>5. Placed("record", w) /\ "record" \in GatedLabels
      BY <1>1, <2>4 DEF Placed, Labels, Pays, GatedLabels
    <2>6. Fits("record", w)
      BY <1>1, <2>4 DEF Fits, SpendInv, LockInv, InEpoch, Reviews, Pays
    <2> QED
      BY <1>1, <1>2, <2>2, <2>5, <2>6, TaskMoves
  <1> QED
    BY <1>3, <1>4

LEMMA CheckSendKeeps ==
    ASSUME SpendInv, NEW t \in Tasks, CheckSend(t)
    PROVE  SpendInv'
  <1>1. /\ Placed(pc[t], work[t]) /\ work[t] \in Works /\ pc[t] = "record" /\ gate = t
        /\ pc \in [Tasks -> Labels] /\ work \in [Tasks -> Works \cup {NoWork}] /\ epoch' = epoch
    BY DEF CheckSend, Gated, SpendInv, TaskInv, WalletTypeOK, Placed
  <1>2. Still
    BY DEF CheckSend, Still, SpendInv, TaskInv, WalletTypeOK
  <1>3. CASE Leave(t, FALSE)
    BY <1>1, <1>2, <1>3, LeaveKeeps
  <1>4. CASE ~Leave(t, FALSE)
    <2>1. Moves(t, "insert", work[t]) /\ gate' = gate
      BY <1>1, <1>4 DEF CheckSend, Goto, Moves
    <2>2. Placed("insert", work[t]) /\ "insert" \in GatedLabels
      BY <1>1 DEF Placed, Labels, Pays, GatedLabels
    <2>3. Fits("insert", work[t])
      BY <1>1 DEF Fits, SpendInv, LockInv, InEpoch, Reviews, Pays
    <2> QED
      BY <1>1, <1>2, <2>1, <2>2, <2>3, TaskMoves
  <1> QED
    BY <1>3, <1>4

\* Whatever becomes of the payment, the row it took is gone.
LEMMA TakeKeeps ==
    ASSUME SpendInv, NEW t \in Tasks, Take(t)
    PROVE  SpendInv'
  <1>1. /\ Placed(pc[t], work[t]) /\ work[t] \in Works /\ pc[t] = "take" /\ gate = t
        /\ pc \in [Tasks -> Labels] /\ work \in [Tasks -> Works \cup {NoWork}] /\ epoch' = epoch
    BY DEF Take, Gated, SpendInv, TaskInv, WalletTypeOK, Placed
  <1>2. Still
    <2>1. /\ UNCHANGED <<issued, payments, now, held, epoch, locking, selected>>
          /\ approvals' \subseteq approvals
      BY DEF Take
    <2> QED
      BY <2>1, StillFrom DEF SpendInv, TaskInv, WalletTypeOK
  <1>3. CASE Leave(t, FALSE)
    BY <1>1, <1>2, <1>3, LeaveKeeps
  <1>4. CASE ~Leave(t, FALSE)
    <2>1. PICK r \in approvals :
            /\ r.id = work[t].id /\ approvals' = approvals \ {r} /\ r.account = work[t].account
            /\ pc' = [pc EXCEPT ![t] = "open"]
            /\ work' = [work EXCEPT ![t] =
                  [@ EXCEPT !.payee = r.payee, !.mint = r.mint, !.maximum = r.maximum,
                            !.expiry = r.expiry, !.epoch = r.epoch, !.bumped = r.bumped]]
            /\ UNCHANGED gate
      BY <1>4 DEF Take
    <2> DEFINE w == [work[t] EXCEPT !.payee = r.payee, !.mint = r.mint, !.maximum = r.maximum,
                                    !.expiry = r.expiry, !.epoch = r.epoch, !.bumped = r.bumped]
    <2>2. Moves(t, "open", w)
      BY <1>1, <2>1 DEF Moves
    <2>3. r \in ApprovalRows
      BY DEF SpendInv, TaskInv, WalletTypeOK
    <2>4. /\ w \in Works /\ w.op = "pay" /\ w.id = r.id /\ w.account = r.account /\ w.payee = r.payee
          /\ w.mint = r.mint /\ w.maximum = r.maximum /\ w.expiry = r.expiry /\ w.epoch = r.epoch
          /\ w.bumped = r.bumped
      BY <1>1, <2>1, <2>3 DEF Works, ApprovalRows, Placed
    <2> HIDE DEF w
    <2>5. Placed("open", w) /\ "open" \in GatedLabels
      BY <2>3, <2>4 DEF Placed, Labels, Pays, GatedLabels, ApprovalRows
    <2>6. Fits("open", w)
      <3>1. r.epoch <= epoch' /\ (r.bumped => r.epoch < epoch')
        BY <1>1 DEF SpendInv, LockInv, InEpoch
      <3>2. /\ \A q \in approvals' : q.id # w.id
            /\ \A p \in payments : p.id # w.id
        BY <2>1, <2>4 DEF SpendInv, OnceInv
      <3>3. \E s \in issued : Covers(s, w)
        BY <2>4 DEF SpendInv, MatchInv, Covers
      <3> QED
        BY <2>4, <3>1, <3>2, <3>3 DEF Fits
    <2> QED
      BY <1>1, <1>2, <2>1, <2>2, <2>5, <2>6, TaskMoves
  <1> QED
    BY <1>3, <1>4

LEMMA LastStepsKeep ==
    ASSUME SpendInv, NEW t \in Tasks, Confirm(t) \/ SelectMint(t)
    PROVE  SpendInv'
  <1>1. gate = t /\ Placed(pc[t], work[t]) /\ work[t] \in Works
    BY DEF Confirm, SelectMint, Gated, SpendInv, TaskInv, Placed
  <1>2. SelectMint(t) => work[t].account \in Accounts /\ work[t].mint \in Mints
    BY <1>1 DEF SelectMint, Gated, Placed, Works
  <1>3. Still
    <2>1. UNCHANGED <<issued, payments, now, held, epoch, locking, approvals>>
      BY DEF Confirm, SelectMint
    <2>2. selected' \in [Accounts -> Mints]
      BY <1>2 DEF Confirm, SelectMint, SpendInv, TaskInv, WalletTypeOK
    <2> QED
      BY <2>1, <2>2, StillFrom
  <1> QED
    BY <1>1, <1>3, LeaveKeeps DEF Confirm, SelectMint

-----------------------------------------------------------------------------
(* A review recorded, a payment made *)

LEMMA InsertKeeps ==
    ASSUME SpendInv, NEW t \in Tasks, gate = t, pc[t] \in {"record", "insert"},
           NEW rows \in SUBSET approvals, NEW expiry \in Nat, Insert(t, rows, expiry),
           UNCHANGED <<now, held, selected, epoch, locking, payments>>
    PROVE  SpendInv'
  <1> USE WalletAssumption
  <1>1. PICK i \in Handles \ {r.id : r \in issued} :
          /\ approvals' = rows \cup {Row(work[t], i, expiry)}
          /\ issued' = issued \cup {Row(work[t], i, expiry)}
          /\ gate' = NoTask
          /\ pc' = [pc EXCEPT ![t] = IF work[t].window THEN "idle" ELSE "back"]
          /\ work' = [work EXCEPT ![t] =
                IF work[t].window THEN NoWork ELSE [@ EXCEPT !.id = i, !.ok = TRUE]]
    BY DEF Insert
  <1> DEFINE row == Row(work[t], i, expiry)
  <1> DEFINE l == IF work[t].window THEN "idle" ELSE "back"
  <1> DEFINE w == IF work[t].window THEN NoWork ELSE [work[t] EXCEPT !.id = i, !.ok = TRUE]
  <1>2. /\ Placed(pc[t], work[t]) /\ work[t] \in Works /\ work[t].mint \in Mints
        /\ work[t].maximum \in Amounts /\ work[t].op \in {"review", "zap"}
    BY DEF SpendInv, TaskInv, Placed
  <1>3. row \in ApprovalRows
    BY <1>2 DEF Row, ApprovalRows, Works
  <1>4. row.id = i /\ row.expiry = expiry /\ row.epoch = work[t].epoch /\ row.bumped = work[t].bumped
    BY DEF Row
  <1>5. Placed(l, w) /\ l \in Labels /\ l \notin GatedLabels
    BY <1>2, NotWork DEF Placed, Pays, Labels, Works, GatedLabels
  <1>6. /\ pc' \in [Tasks -> Labels] /\ work' \in [Tasks -> Works \cup {NoWork}]
        /\ pc'[t] = l /\ work'[t] = w
        /\ \A u \in Tasks \ {t} : pc'[u] = pc[u] /\ work'[u] = work[u] /\ gate # u /\ gate' # u
    BY <1>1, <1>5 DEF SpendInv, TaskInv, WalletTypeOK, Placed
  <1>7. \A u \in Tasks : ~Pays(pc'[u], work'[u]) /\ ~Reviews(pc'[u], work'[u])
    BY <1>5, <1>6 DEF SpendInv, TaskInv, Pays, Reviews, GatedLabels
  <1> HIDE DEF row, l, w
  <1>8. approvals' = rows \cup {row} /\ issued' = issued \cup {row}
    BY <1>1 DEF row
  <1>9. TaskInv'
    BY <1>1, <1>3, <1>5, <1>6, <1>8 DEF SpendInv, TaskInv, WalletTypeOK
  <1>10. \A r \in issued \cup approvals \cup payments : r.id # i
    BY DEF SpendInv, MatchInv, Covers, PaidAsReviewed
  <1>11. OnceInv'
    BY <1>4, <1>7, <1>8, <1>10 DEF SpendInv, OnceInv, ReviewPaysOnce
  <1>12. MatchInv'
    <2>1. Covers(row, row)
      BY <1>4 DEF Covers
    <2> QED
      BY <1>7, <1>8, <2>1 DEF SpendInv, MatchInv, PaidAsReviewed
  <1>13. LockInv'
    <2>1. InEpoch(work[t])
      BY <1>2 DEF SpendInv, LockInv, Reviews
    <2> QED
      BY <1>4, <1>7, <1>8, <2>1 DEF SpendInv, LockInv, InEpoch, LockVoidsReviews
  <1> QED
    BY <1>9, <1>11, <1>12, <1>13 DEF SpendInv

LEMMA RecordKeeps ==
    ASSUME SpendInv, NEW t \in Tasks, RecordReview(t) \/ InsertSend(t)
    PROVE  SpendInv'
  <1> USE WalletAssumption
  <1>1. /\ gate = t /\ pc[t] \in {"record", "insert"} /\ work[t].expiry \in Nat /\ now \in Nat
    BY DEF RecordReview, InsertSend, Gated, SpendInv, TaskInv, WalletTypeOK, Placed, Works
  <1>2. CASE RecordReview(t)
    <2> DEFINE kept == {r \in approvals : r.payee = Token \/ r.expiry > now}
    <2>1. CASE Insert(t, kept, work[t].expiry)
      BY <1>1, <1>2, <2>1, InsertKeeps DEF RecordReview
    <2>2. CASE Leave(t, FALSE) /\ approvals' \subseteq approvals /\ UNCHANGED issued
      <3>1. Still
        BY <1>2, <2>2, StillFrom DEF RecordReview, SpendInv, TaskInv, WalletTypeOK
      <3> QED
        BY <1>1, <2>2, <3>1, LeaveKeeps
    <2> QED
      BY <1>2, <2>1, <2>2 DEF RecordReview
  <1>3. CASE InsertSend(t)
    <2> DEFINE kept ==
          {r \in approvals : r.payee = Token => r.account # work[t].account /\ r.expiry > now}
    <2>1. Insert(t, kept, now + SendLife) /\ now + SendLife \in Nat
      BY <1>1, <1>3 DEF InsertSend
    <2> QED
      BY <1>1, <1>3, <2>1, InsertKeeps DEF InsertSend
  <1> QED
    BY <1>2, <1>3

\* What is paid has passed MayConfirm: shown, not expired, and no lock since.
LEMMA PrepareKeeps ==
    ASSUME SpendInv, NEW t \in Tasks, Prepare(t)
    PROVE  SpendInv'
  <1> USE WalletAssumption
  <1>1. /\ Placed(pc[t], work[t]) /\ work[t] \in Works /\ pc[t] = "prepare" /\ gate = t
        /\ work[t].op = "pay" /\ work[t].id \in Handles /\ work[t].mint \in Mints
        /\ pc \in [Tasks -> Labels] /\ work \in [Tasks -> Works \cup {NoWork}]
        /\ UNCHANGED <<now, held, selected, epoch, approvals, locking, issued>>
    BY DEF Prepare, Gated, SpendInv, TaskInv, WalletTypeOK, Placed, Pays
  <1>2. CASE Leave(t, FALSE) /\ UNCHANGED payments
    BY <1>1, <1>2, StillAsWas, LeaveKeeps
  <1>3. CASE ~(Leave(t, FALSE) /\ UNCHANGED payments)
    <2> DEFINE P(total) == [n |-> Cardinality(payments) + 1, id |-> work[t].id,
                 window |-> work[t].window, account |-> work[t].account, payee |-> work[t].payee,
                 mint |-> work[t].mint, total |-> total, at |-> now, bumped |-> work[t].bumped]
    <2>1. PICK total \in Amounts :
            /\ MayConfirm(work[t], total)
            /\ payments' = payments \cup {P(total)} /\ Goto(t, "confirm") /\ UNCHANGED gate
      BY <1>3 DEF Prepare
    <2> DEFINE p == P(total)
    <2>2. /\ p.id = work[t].id /\ p.account = work[t].account /\ p.payee = work[t].payee
          /\ p.mint = work[t].mint /\ p.total = total /\ p.at = now /\ p.bumped = work[t].bumped
      OBVIOUS
    <2>3. IsFiniteSet(payments) /\ Cardinality(payments) \in Nat
      BY FS_CardinalityType DEF SpendInv, TaskInv
    <2>4. p \in Payments
      BY <1>1, <2>3 DEF Payments, Works, SpendInv, TaskInv, WalletTypeOK
    <2> HIDE DEF p
    <2>5. payments' = payments \cup {p} /\ IsFiniteSet(payments')
      <3>1. payments' = payments \cup {p}
        BY <2>1 DEF p
      <3>2. IsFiniteSet(payments \cup {p})
        BY <2>3, FS_AddElement
      <3> QED
        BY <3>1, <3>2
    <2> HIDE DEF P
    <2>6. /\ pc' = [pc EXCEPT ![t] = "confirm"] /\ work' = work /\ gate' = gate
          /\ pc' \in [Tasks -> Labels] /\ pc'[t] = "confirm"
          /\ \A u \in Tasks \ {t} : pc'[u] = pc[u] /\ gate # u
      BY <1>1, <2>1 DEF Goto, Labels
    <2>7. TaskInv'
      <3>1. Placed("confirm", work[t])
        BY <1>1 DEF Placed, Labels, Pays
      <3> QED
        BY <1>1, <2>4, <2>5, <2>6, <3>1 DEF SpendInv, TaskInv, WalletTypeOK, GatedLabels
    <2>8. \A u \in Tasks : ~Pays(pc'[u], work'[u]) /\ ~Reviews(pc'[u], work'[u])
      BY <2>6 DEF SpendInv, TaskInv, Pays, Reviews, GatedLabels
    <2>9. Pays(pc[t], work[t])
      BY <1>1 DEF Pays
    <2>10. OnceInv'
      BY <1>1, <2>2, <2>5, <2>8, <2>9 DEF SpendInv, OnceInv, ReviewPaysOnce
    <2>11. MatchInv'
      <3>1. PICK s \in issued : Covers(s, work[t])
        BY <2>9 DEF SpendInv, MatchInv
      <3>2. s.expiry \in Nat /\ work[t].expiry \in Nat /\ now \in Nat
        BY <1>1 DEF Works, SpendInv, TaskInv, WalletTypeOK, ApprovalRows
      <3>3. total <= work[t].maximum /\ now < work[t].expiry
        BY <2>1, <3>2 DEF MayConfirm
      <3>4. /\ s.id = p.id /\ <<p.account, p.payee, p.mint>> = <<s.account, s.payee, s.mint>>
            /\ p.total <= s.maximum /\ p.at < s.expiry
        BY <2>2, <3>1, <3>2, <3>3 DEF Covers
      <3> QED
        BY <1>1, <2>5, <2>8, <3>4 DEF SpendInv, MatchInv, PaidAsReviewed
    <2>12. LockInv'
      <3>1. ~p.bumped
        BY <1>1, <2>1, <2>2, <2>9 DEF SpendInv, LockInv, InEpoch, MayConfirm, Works
      <3> QED
        BY <1>1, <2>5, <2>8, <3>1 DEF SpendInv, LockInv, InEpoch, LockVoidsReviews
    <2> QED
      BY <2>7, <2>10, <2>11, <2>12 DEF SpendInv
  <1> QED
    BY <1>2, <1>3

-----------------------------------------------------------------------------
(* Without the gate *)

LEMMA AsideKeeps ==
    ASSUME SpendInv, Still, UNCHANGED <<gate, pc, work>>, epoch' = epoch
    PROVE  SpendInv'
  <1> USE DEF SpendInv, Still
  <1>1. TaskInv'
    BY DEF TaskInv, WalletTypeOK
  <1>2. OnceInv' /\ MatchInv'
    BY DEF OnceInv, MatchInv, ReviewPaysOnce, PaidAsReviewed
  <1>3. LockInv'
    BY DEF LockInv, InEpoch, LockVoidsReviews
  <1> QED
    BY <1>1, <1>2, <1>3

\* The epoch has moved past every review, recorded or on its way.
LEMMA LockBeginsKeeps ==
    ASSUME SpendInv, LockBegins
    PROVE  SpendInv'
  <1> USE WalletAssumption DEF SpendInv
  <1>1. /\ epoch \in Nat /\ epoch' = epoch + 1
        /\ UNCHANGED <<now, held, selected, gate, pc, issued, payments>>
    BY DEF LockBegins, TaskInv, WalletTypeOK
  <1>2. \A q \in approvals' : \E r \in approvals : q = [r EXCEPT !.bumped = TRUE]
    BY DEF LockBegins
  <1>3. ASSUME NEW r \in approvals, NEW q, q = [r EXCEPT !.bumped = TRUE]
        PROVE  /\ q \in ApprovalRows /\ q.id = r.id /\ q.account = r.account /\ q.payee = r.payee
               /\ q.mint = r.mint /\ q.maximum = r.maximum /\ q.expiry = r.expiry
               /\ q.epoch = r.epoch /\ r.epoch \in Nat /\ r.epoch <= epoch
    <2>1. r \in ApprovalRows /\ r.epoch <= epoch
      BY DEF TaskInv, WalletTypeOK, LockInv, InEpoch
    <2> QED
      BY <1>3, <2>1 DEF ApprovalRows
  <1>4. ASSUME NEW t \in Tasks
        PROVE  /\ work'[t] \in Works \cup {NoWork}
               /\ work[t] = NoWork => work'[t] = NoWork
               /\ work[t] # NoWork =>
                     /\ work[t] \in Works /\ work'[t] \in Works
                     /\ work'[t].op = work[t].op /\ work'[t].id = work[t].id
                     /\ work'[t].account = work[t].account /\ work'[t].payee = work[t].payee
                     /\ work'[t].mint = work[t].mint /\ work'[t].maximum = work[t].maximum
                     /\ work'[t].expiry = work[t].expiry /\ work'[t].epoch = work[t].epoch
                     /\ work[t].epoch \in Nat
    <2>1. work[t] \in Works \cup {NoWork}
      BY DEF TaskInv, WalletTypeOK
    <2>2. CASE work[t] \in Works
      <3>1. work'[t] = [work[t] EXCEPT !.bumped = TRUE]
        BY <2>2, NotWork DEF LockBegins
      <3> QED
        BY <2>2, <3>1, NotWork DEF Works
    <2>3. CASE work[t] = NoWork
      BY <2>3 DEF LockBegins
    <2> QED
      BY <2>1, <2>2, <2>3
  <1>5. TaskInv'
    <2>1. work' \in [Tasks -> Works \cup {NoWork}]
      BY <1>4 DEF LockBegins
    <2>2. approvals' \subseteq ApprovalRows
      BY <1>2, <1>3
    <2>3. \A t \in Tasks : Placed(pc[t], work'[t])
      BY <1>4, NotWork DEF TaskInv, Placed, Pays
    <2> QED
      BY <1>1, <2>1, <2>2, <2>3 DEF TaskInv, WalletTypeOK, LockBegins
  <1>6. \A t \in Tasks :
           /\ Pays(pc[t], work'[t]) => Pays(pc[t], work[t]) /\ work[t] # NoWork
           /\ Reviews(pc[t], work'[t]) => Reviews(pc[t], work[t]) /\ work[t] # NoWork
    BY <1>4, NotWork DEF Pays, Reviews
  <1>7. OnceInv'
    <2>1. ASSUME NEW q \in approvals', NEW s \in approvals', q.id = s.id
          PROVE  q = s
      <3>1. PICK r \in approvals : q = [r EXCEPT !.bumped = TRUE]
        BY <1>2
      <3>2. PICK v \in approvals : s = [v EXCEPT !.bumped = TRUE]
        BY <1>2
      <3>3. q.id = r.id /\ s.id = v.id
        BY <3>1, <3>2, <1>3
      <3>4. r = v
        BY <2>1, <3>3 DEF OnceInv
      <3> QED
        BY <3>1, <3>2, <3>4
    <2>2. \A p \in payments, q \in approvals' : p.id # q.id
      BY <1>2, <1>3 DEF OnceInv
    <2>3. ASSUME NEW t \in Tasks, Pays(pc[t], work'[t])
          PROVE  /\ \A q \in approvals' : q.id # work'[t].id
                 /\ \A p \in payments : p.id # work'[t].id
      <3>1. Pays(pc[t], work[t]) /\ work'[t].id = work[t].id
        BY <2>3, <1>4, <1>6
      <3> QED
        BY <3>1, <1>2, <1>3 DEF OnceInv
    <2> QED
      BY <1>1, <2>1, <2>2, <2>3 DEF OnceInv, ReviewPaysOnce
  <1>8. MatchInv'
    <2>1. \A q \in approvals' : \E s \in issued : Covers(s, q)
      BY <1>2, <1>3 DEF MatchInv, Covers
    <2>2. \A t \in Tasks : Pays(pc[t], work'[t]) => \E s \in issued : Covers(s, work'[t])
      BY <1>4, <1>6 DEF MatchInv, Covers
    <2> QED
      BY <1>1, <2>1, <2>2 DEF MatchInv, PaidAsReviewed
  <1>9. LockInv'
    <2>1. \A q \in approvals' : InEpoch(q)'
      BY <1>1, <1>2, <1>3 DEF InEpoch
    <2>2. \A t \in Tasks : Reviews(pc[t], work'[t]) \/ Pays(pc[t], work'[t]) => InEpoch(work[t])'
      BY <1>1, <1>4, <1>6 DEF LockInv, InEpoch
    <2> QED
      BY <1>1, <2>1, <2>2 DEF LockInv, LockVoidsReviews
  <1> QED
    BY <1>5, <1>7, <1>8, <1>9

LEMMA NextKeeps ==
    ASSUME SpendInv, [WalletNext]_walletVars
    PROVE  SpendInv'
  <1> USE WalletAssumption
  <1>1. ASSUME NEW t \in Tasks, EnterGate(t) \/ TaskStep(t) \/ WindowCommand(t) PROVE SpendInv'
    BY <1>1, EnterKeeps, OpenKeeps, LookupKeeps, QuoteKeeps, RecordKeeps, CheckSendKeeps, TakeKeeps,
       PrepareKeeps, LastStepsKeep, WindowKeeps DEF TaskStep
  <1>2. CASE LockBegins
    BY <1>2, LockBeginsKeeps
  <1>3. CASE \/ LockClears \/ LockEnds \/ Tick \/ UNCHANGED walletVars
             \/ \E a \in Accounts : Cancel(a) \/ UnlockAccount(a)
    <2>1. /\ UNCHANGED <<issued, payments, selected, gate, pc, work, epoch>>
          /\ approvals' \subseteq approvals
      BY <1>3 DEF LockClears, LockEnds, Tick, Cancel, UnlockAccount, walletVars
    <2>2. /\ now' \in {now, now + 1} /\ held' \subseteq held \cup Accounts
          /\ locking' \in {locking, "vault", "no"}
      BY <1>3 DEF LockClears, LockEnds, Tick, Cancel, UnlockAccount, walletVars
    <2>3. Still
      BY <2>1, <2>2 DEF Still, SpendInv, TaskInv, WalletTypeOK
    <2> QED
      BY <2>1, <2>3, AsideKeeps
  <1>4. CASE Restart
    <2>1. TaskInv'
      BY <1>4, NotWork DEF Restart, SpendInv, TaskInv, WalletTypeOK, Labels, Placed, Pays,
         GatedLabels
    <2>2. OnceInv' /\ MatchInv' /\ LockInv'
      BY <1>4 DEF Restart, SpendInv, OnceInv, MatchInv, LockInv, Reviews, Pays, ReviewPaysOnce,
         PaidAsReviewed, LockVoidsReviews
    <2> QED
      BY <2>1, <2>2 DEF SpendInv
  <1> QED
    BY <1>1, <1>2, <1>3, <1>4 DEF WalletNext, LockCommand

LEMMA Inductive == WalletSpec => []SpendInv
  <1>1. SpendInv /\ [WalletNext]_walletVars => SpendInv'
    BY NextKeeps
  <1> QED
    BY <1>1, InitHolds, PTL DEF WalletSpec

\* The service's maps stay well formed, and what is paid has no lock between the start of
\* its review and its confirmation (WalletService::lock against review, pay_reviewed and
\* wallet_send_token, at whichever steps they meet).
THEOREM LockVoidsEveryReview == WalletSpec => []WalletInv
  <1>1. SpendInv => WalletInv
    BY DEF SpendInv, TaskInv, LockInv, WalletInv
  <1> QED
    BY <1>1, Inductive, PTL

\* A review is paid at most once, however many tasks present its handle at a time and
\* across restarts (record_review's one-shot handle, removed by the take).
THEOREM HandleIsOneShot == WalletSpec => []ReviewPaysOnce
  <1>1. SpendInv => ReviewPaysOnce
    BY DEF SpendInv, OnceInv
  <1> QED
    BY <1>1, Inductive, PTL

\* What pay_reviewed and wallet_send_token spend is what a review showed: account, payee,
\* mint, no more than the maximum, and before it expired.
THEOREM SpendIsWhatWasShown == WalletSpec => []PaidAsReviewed
  <1>1. SpendInv => PaidAsReviewed
    BY DEF SpendInv, MatchInv
  <1> QED
    BY <1>1, Inductive, PTL
-----------------------------------------------------------------------------
(* The register of approvals *)

\* What the mapped register says of each handle.
Reads ==
    /\ handleOf \in [Handles -> R!States]
    /\ \A h \in Handles :
          /\ handleOf[h] = "spent" <=> Paid(h)
          /\ handleOf[h] = "open" <=> Stands(h)
          /\ handleOf[h] = "unused" <=> ~\E r \in issued : r.id = h

LEMMA RegisterReads ==
    ASSUME SpendInv
    PROVE  Reads
  <1>1. \A h : Stands(h) => ~Paid(h) /\ \E r \in issued : r.id = h
    <2>1. ASSUME NEW h, NEW r \in approvals, r.id = h PROVE ~Paid(h) /\ \E s \in issued : s.id = h
      BY <2>1 DEF SpendInv, OnceInv, MatchInv, Covers, Paid
    <2>2. ASSUME NEW h, NEW t \in Tasks, Pays(pc[t], work[t]), work[t].id = h
          PROVE ~Paid(h) /\ \E s \in issued : s.id = h
      BY <2>2 DEF SpendInv, OnceInv, MatchInv, Covers, Paid
    <2> QED
      BY <2>1, <2>2 DEF Stands
  <1>2. \A h : Paid(h) => \E r \in issued : r.id = h
    BY DEF SpendInv, MatchInv, PaidAsReviewed, Paid
  <1>3. \A h \in Handles :
            handleOf[h] = IF Paid(h) THEN "spent" ELSE IF Stands(h) THEN "open"
                          ELSE IF \E r \in issued : r.id = h THEN "void" ELSE "unused"
    BY DEF handleOf
  <1>4. handleOf = [h \in Handles |-> handleOf[h]]
    BY DEF handleOf
  <1> QED
    BY <1>1, <1>2, <1>3, <1>4 DEF Reads, R!States
LEMMA Lapses ==
    ASSUME Reads, Reads', UNCHANGED <<epoch, issued, payments>>,
           \A h \in Handles : Stands(h)' => Stands(h)
    PROVE  R!RegisterNext
  <1>1. \A h \in Handles : Paid(h)' <=> Paid(h)
    BY DEF Paid
  <1>2. \A h \in Handles : handleOf'[h] = handleOf[h] \/ (handleOf[h] = "open" /\ handleOf'[h] = "void")
    BY <1>1 DEF Reads, R!States
  <1>3. R!MayLapse(handleOf, handleOf', Handles)
    BY <1>2 DEF Reads, R!MayLapse
  <1> QED
    BY <1>3 DEF R!Lapse, R!RegisterNext

LEMMA Issues ==
    ASSUME Reads, Reads', UNCHANGED <<epoch, payments>>, NEW i \in Handles,
           ~\E r \in issued : r.id = i,
           \A h \in Handles : (\E r \in issued' : r.id = h) <=> h = i \/ \E r \in issued : r.id = h,
           \A h \in Handles \ {i} : Stands(h)' => Stands(h)
    PROVE  R!RegisterNext
  <1>1. \A h \in Handles : Paid(h)' <=> Paid(h)
    BY DEF Paid
  <1>2. handleOf[i] = "unused" /\ ~Paid(i)
    BY DEF Reads
  <1>3. handleOf'[i] \in {"open", "void"}
    BY <1>1, <1>2 DEF Reads, R!States
  <1>4. \A h \in Handles \ {i} :
            handleOf'[h] = handleOf[h] \/ (handleOf[h] = "open" /\ handleOf'[h] = "void")
    BY <1>1 DEF Reads, R!States
  <1>5. R!MayLapse(handleOf, handleOf', Handles \ {i})
    BY <1>4 DEF Reads, R!MayLapse
  <1> QED
    BY <1>2, <1>3, <1>5 DEF R!Issue, R!RegisterNext

LEMMA Spends ==
    ASSUME Reads, Reads', UNCHANGED <<epoch, issued>>, NEW i \in Handles, Stands(i),
           \A h \in Handles : Paid(h)' <=> h = i \/ Paid(h),
           \A h \in Handles \ {i} : Stands(h)' <=> Stands(h),
           Cardinality(payments)' = Cardinality(payments) + 1
    PROVE  R!RegisterNext
  <1>1. handleOf[i] = "open" /\ handleOf'[i] = "spent"
    BY DEF Reads
  <1>2. \A h \in Handles \ {i} : handleOf'[h] = handleOf[h]
    BY DEF Reads, R!States
  <1>3. handleOf' = [handleOf EXCEPT ![i] = "spent"]
    BY <1>1, <1>2 DEF Reads
  <1> QED
    BY <1>1, <1>3 DEF R!Spend, R!RegisterNext

LEMMA Locks ==
    ASSUME Reads, Reads', epoch' # epoch, UNCHANGED <<issued, payments>>,
           \A h \in Handles : ~Stands(h)'
    PROVE  R!RegisterNext
  <1>1. \A h \in Handles : Paid(h)' <=> Paid(h)
    BY DEF Paid
  <1>2. \A h \in Handles : handleOf'[h] = IF handleOf[h] = "open" THEN "void" ELSE handleOf[h]
    BY <1>1 DEF Reads, R!States
  <1>3. handleOf' = [h \in Handles |-> IF handleOf[h] = "open" THEN "void" ELSE handleOf[h]]
    BY <1>2 DEF Reads
  <1> QED
    BY <1>3 DEF R!Lock, R!RegisterNext

\* Only task t moves, and to where it has no approval in hand.
LEMMA MovesWithout ==
    ASSUME Reads, Reads', NEW t \in Tasks, ~Pays(pc'[t], work'[t]),
           \A u \in Tasks \ {t} : pc'[u] = pc[u] /\ work'[u] = work[u],
           UNCHANGED <<epoch, issued, payments>>, approvals' \subseteq approvals
    PROVE  R!RegisterNext
  <1>1. \A h \in Handles : Stands(h)' => Stands(h)
    BY DEF Stands
  <1> QED
    BY <1>1, Lapses

\* The tasks stay as they are and no row appears.
LEMMA RowsLapse ==
    ASSUME Reads, Reads', UNCHANGED <<pc, work, epoch, issued, payments>>,
           \A r \in approvals' : \E s \in approvals : s.id = r.id /\ s.epoch = r.epoch
    PROVE  R!RegisterNext
  <1>1. \A h \in Handles : Stands(h)' => Stands(h)
    BY DEF Stands
  <1> QED
    BY <1>1, Lapses

LEMMA LeaveLapses ==
    ASSUME SpendInv, Reads, Reads', NEW t \in Tasks, NEW ok, Leave(t, ok),
           UNCHANGED <<epoch, issued, payments>>, approvals' \subseteq approvals
    PROVE  R!RegisterNext
  <1>1. /\ pc'[t] \in {"idle", "back"}
        /\ \A u \in Tasks \ {t} : pc'[u] = pc[u] /\ work'[u] = work[u]
    BY DEF Leave, SpendInv, TaskInv, WalletTypeOK
  <1> QED
    BY <1>1, MovesWithout DEF Pays

LEMMA EnterRegisters ==
    ASSUME SpendInv, Reads, Reads', NEW t \in Tasks, EnterGate(t)
    PROVE  R!RegisterNext
  <1>1. /\ work[t] \in Works /\ pc[t] = "gate" /\ gate = NoTask /\ epoch \in Nat
        /\ pc \in [Tasks -> Labels] /\ work \in [Tasks -> Works \cup {NoWork}]
        /\ UNCHANGED <<issued, payments>>
    BY DEF EnterGate, SpendInv, TaskInv, WalletTypeOK, Placed
  <1>2. work[t].op \in Ops
    BY <1>1 DEF Works
  <1>3. \A u \in Tasks \ {t} : pc'[u] = pc[u] /\ work'[u] = work[u]
    BY <1>1, <1>2 DEF EnterGate, Goto, Ops
  <1>4. ~Pays(pc'[t], work'[t])
    <2>1. CASE work[t].op = "pay"
      BY <1>1, <2>1 DEF EnterGate, Goto, Pays
    <2>2. CASE work[t].op \in {"review", "zap"}
      <3>1. work'[t] = [work[t] EXCEPT !.epoch = epoch, !.bumped = FALSE]
        BY <1>1, <2>2 DEF EnterGate
      <3>2. work'[t].op = work[t].op
        BY <1>1, <3>1 DEF Works
      <3> QED
        BY <2>2, <3>2 DEF Pays
    <2>3. CASE work[t].op \in {"setmint", "select"}
      <3>1. work'[t] = [work[t] EXCEPT !.epoch = epoch']
        BY <1>1, <2>3 DEF EnterGate
      <3>2. work'[t].op = work[t].op
        BY <1>1, <3>1 DEF Works
      <3> QED
        BY <2>3, <3>2 DEF Pays
    <2> QED
      BY <1>2, <2>1, <2>2, <2>3 DEF Ops
  <1>5. CASE work[t].op \in {"review", "zap", "pay"}
    <2>1. UNCHANGED <<epoch, approvals>>
      BY <1>2, <1>5 DEF EnterGate
    <2> QED
      BY <1>1, <1>3, <1>4, <2>1, MovesWithout
  \* The gate was free: no other task has an approval in hand.
  <1>6. CASE work[t].op \in {"setmint", "select"}
    <2>0. ServiceLock
      BY <1>6 DEF EnterGate
    <2>1. epoch' # epoch /\ approvals' = {}
      BY <1>1, <2>0 DEF ServiceLock
    <2>2. \A u \in Tasks \ {t} : ~Pays(pc[u], work[u])
      BY <1>1, WalletAssumption DEF SpendInv, TaskInv, GatedLabels, Pays
    <2>3. \A h \in Handles : ~Stands(h)'
      BY <1>3, <1>4, <2>1, <2>2 DEF Stands
    <2> QED
      BY <1>1, <2>1, <2>3, Locks
  <1> QED
    BY <1>2, <1>5, <1>6 DEF Ops

LEMMA OpenRegisters ==
    ASSUME SpendInv, Reads, Reads', NEW t \in Tasks, Open(t)
    PROVE  R!RegisterNext
  <1>1. /\ work[t] \in Works /\ pc[t] = "open"
        /\ pc \in [Tasks -> Labels] /\ work \in [Tasks -> Works \cup {NoWork}]
        /\ UNCHANGED <<epoch, issued, payments, approvals>>
    BY DEF Open, Gated, SpendInv, TaskInv, WalletTypeOK, Placed
  <1>2. CASE Leave(t, FALSE)
    BY <1>1, <1>2, LeaveLapses
  <1>3. CASE ~Leave(t, FALSE)
    <2>1. /\ \A u \in Tasks \ {t} : pc'[u] = pc[u] /\ work'[u] = work[u]
          /\ work'[t] = [work[t] EXCEPT !.mint =
                IF work[t].op \in {"review", "zap"} THEN selected[work[t].account] ELSE @]
      BY <1>1, <1>3 DEF Open
    <2>2. work'[t].op = work[t].op /\ work'[t].id = work[t].id /\ work'[t].epoch = work[t].epoch
      BY <1>1, <2>1 DEF Works
    <2>3. Pays(pc'[t], work'[t]) => Pays(pc[t], work[t])
      BY <1>1, <2>2 DEF Pays
    <2>4. \A h \in Handles : Stands(h)' => Stands(h)
      BY <1>1, <2>1, <2>2, <2>3 DEF Stands
    <2> QED
      BY <1>1, <2>4, Lapses
  <1> QED
    BY <1>2, <1>3

\* A review that is not recorded yet, and what follows a payment.
LEMMA ReviewRegisters ==
    ASSUME SpendInv, Reads, Reads', NEW t \in Tasks,
           Lookup(t) \/ Quote(t) \/ CheckSend(t) \/ Confirm(t) \/ SelectMint(t)
    PROVE  R!RegisterNext
  <1>1. /\ UNCHANGED <<epoch, issued, payments, approvals>>
        /\ pc \in [Tasks -> Labels] /\ work \in [Tasks -> Works \cup {NoWork}]
    BY DEF Lookup, Quote, CheckSend, Confirm, SelectMint, SpendInv, TaskInv, WalletTypeOK
  <1>2. CASE \E ok \in BOOLEAN : Leave(t, ok)
    BY <1>1, <1>2, LeaveLapses
  <1>3. CASE ~\E ok \in BOOLEAN : Leave(t, ok)
    <2>1. Lookup(t) \/ Quote(t) \/ CheckSend(t)
      BY <1>3 DEF Confirm, SelectMint
    <2>2. /\ pc'[t] \in {"quote", "record", "insert"}
          /\ \A u \in Tasks \ {t} : pc'[u] = pc[u] /\ work'[u] = work[u]
      BY <1>1, <1>3, <2>1 DEF Lookup, Quote, CheckSend, Goto
    <2> QED
      BY <1>1, <2>2, MovesWithout DEF Pays
  <1> QED
    BY <1>2, <1>3

\* The approval goes from the maps into the task's hands, or is void.
LEMMA TakeRegisters ==
    ASSUME SpendInv, Reads, Reads', NEW t \in Tasks, Take(t)
    PROVE  R!RegisterNext
  <1>1. /\ work[t] \in Works /\ approvals' \subseteq approvals
        /\ pc \in [Tasks -> Labels] /\ work \in [Tasks -> Works \cup {NoWork}]
        /\ UNCHANGED <<epoch, issued, payments>>
    BY DEF Take, Gated, SpendInv, TaskInv, WalletTypeOK, Placed
  <1>2. CASE Leave(t, FALSE)
    BY <1>1, <1>2, LeaveLapses
  <1>3. CASE ~Leave(t, FALSE)
    <2>1. PICK r \in approvals :
            /\ r.id = work[t].id
            /\ work' = [work EXCEPT ![t] =
                  [@ EXCEPT !.payee = r.payee, !.mint = r.mint, !.maximum = r.maximum,
                            !.expiry = r.expiry, !.epoch = r.epoch, !.bumped = r.bumped]]
            /\ pc' = [pc EXCEPT ![t] = "open"]
      BY <1>3 DEF Take
    <2>2. /\ \A u \in Tasks \ {t} : pc'[u] = pc[u] /\ work'[u] = work[u]
          /\ work'[t].id = r.id /\ work'[t].epoch = r.epoch
      BY <1>1, <2>1 DEF Works
    <2>3. \A h \in Handles : Stands(h)' => Stands(h)
      BY <1>1, <2>2 DEF Stands
    <2> QED
      BY <1>1, <2>3, Lapses
  <1> QED
    BY <1>2, <1>3

LEMMA InsertRegisters ==
    ASSUME SpendInv, Reads, Reads', NEW t \in Tasks, NEW rows \in SUBSET approvals, NEW expiry,
           Insert(t, rows, expiry), UNCHANGED <<epoch, payments>>
    PROVE  R!RegisterNext
  <1>1. PICK i \in Handles \ {r.id : r \in issued} :
          /\ approvals' = rows \cup {Row(work[t], i, expiry)}
          /\ issued' = issued \cup {Row(work[t], i, expiry)}
          /\ pc' = [pc EXCEPT ![t] = IF work[t].window THEN "idle" ELSE "back"]
          /\ work' = [work EXCEPT ![t] =
                IF work[t].window THEN NoWork ELSE [@ EXCEPT !.id = i, !.ok = TRUE]]
    BY DEF Insert
  <1> DEFINE row == Row(work[t], i, expiry)
  <1>2. row.id = i
    BY DEF Row
  <1>3. /\ pc'[t] \in {"idle", "back"}
        /\ \A u \in Tasks \ {t} : pc'[u] = pc[u] /\ work'[u] = work[u]
    BY <1>1 DEF SpendInv, TaskInv, WalletTypeOK
  <1>4. approvals' = rows \cup {row} /\ issued' = issued \cup {row}
    BY <1>1
  <1> HIDE DEF row
  <1>5. /\ ~\E r \in issued : r.id = i
        /\ \A h \in Handles : (\E r \in issued' : r.id = h) <=> h = i \/ \E r \in issued : r.id = h
    BY <1>2, <1>4
  <1>6. ~Pays(pc'[t], work'[t])
    BY <1>3 DEF Pays
  <1>7. \A h \in Handles \ {i} : Stands(h)' => Stands(h)
    BY <1>2, <1>3, <1>4, <1>6 DEF Stands
  <1> QED
    BY <1>5, <1>7, Issues

LEMMA RecordRegisters ==
    ASSUME SpendInv, Reads, Reads', NEW t \in Tasks, RecordReview(t) \/ InsertSend(t)
    PROVE  R!RegisterNext
  <1>1. CASE RecordReview(t)
    <2> DEFINE kept == {r \in approvals : r.payee = Token \/ r.expiry > now}
    <2>1. CASE Insert(t, kept, work[t].expiry)
      BY <1>1, <2>1, InsertRegisters DEF RecordReview
    <2>2. CASE Leave(t, FALSE) /\ approvals' \subseteq approvals /\ UNCHANGED issued
      BY <1>1, <2>2, LeaveLapses DEF RecordReview
    <2> QED
      BY <1>1, <2>1, <2>2 DEF RecordReview
  <1>2. CASE InsertSend(t)
    <2> DEFINE kept ==
          {r \in approvals : r.payee = Token => r.account # work[t].account /\ r.expiry > now}
    <2> QED
      BY <1>2, InsertRegisters DEF InsertSend
  <1> QED
    BY <1>1, <1>2

\* What is confirmed stood, and is one payment more.
LEMMA PrepareRegisters ==
    ASSUME SpendInv, Reads, Reads', NEW t \in Tasks, Prepare(t)
    PROVE  R!RegisterNext
  <1>1. /\ work[t].op = "pay" /\ work[t].id \in Handles /\ pc[t] = "prepare"
        /\ pc \in [Tasks -> Labels] /\ UNCHANGED <<epoch, approvals, issued>>
    BY DEF Prepare, Gated, SpendInv, TaskInv, WalletTypeOK, Placed, Pays
  <1>2. CASE Leave(t, FALSE) /\ UNCHANGED payments
    BY <1>1, <1>2, LeaveLapses
  <1>3. CASE ~(Leave(t, FALSE) /\ UNCHANGED payments)
    <2> DEFINE i == work[t].id
               P(total) == [n |-> Cardinality(payments) + 1, id |-> work[t].id,
                 window |-> work[t].window, account |-> work[t].account, payee |-> work[t].payee,
                 mint |-> work[t].mint, total |-> total, at |-> now, bumped |-> work[t].bumped]
    <2>1. PICK total \in Amounts :
            MayConfirm(work[t], total) /\ payments' = payments \cup {P(total)} /\ Goto(t, "confirm")
      BY <1>3 DEF Prepare
    <2>2. P(total).id = i
      OBVIOUS
    <2>3. PICK p : p.id = i /\ payments' = payments \cup {p}
      BY <2>1, <2>2
    <2>4. Pays(pc[t], work[t]) /\ work[t].epoch = epoch
      BY <1>1, <2>1 DEF Pays, MayConfirm
    <2>5. Stands(i)
      BY <2>4 DEF Stands
    <2> HIDE DEF i, P
    <2>6. \A q \in payments : q.id # i
      BY <2>4 DEF SpendInv, OnceInv, i
    <2>7. Cardinality(payments)' = Cardinality(payments) + 1
      <3>1. IsFiniteSet(payments) /\ p \notin payments
        BY <2>3, <2>6 DEF SpendInv, TaskInv
      <3> QED
        BY <2>3, <3>1, FS_AddElement
    <2>8. \A h \in Handles : Paid(h)' <=> h = i \/ Paid(h)
      BY <2>3 DEF Paid
    <2>9. /\ \A u \in Tasks \ {t} : pc'[u] = pc[u] /\ work'[u] = work[u]
          /\ pc'[t] = "confirm" /\ work'[t] = work[t]
      BY <1>1, <2>1 DEF Goto
    <2>10. ~Pays(pc'[t], work'[t])
      BY <2>9 DEF Pays
    <2>11. \A h \in Handles \ {i} : Stands(h)' <=> Stands(h)
      BY <1>1, <2>9, <2>10 DEF Stands, i
    <2>12. i \in Handles
      BY <1>1 DEF i
    <2> QED
      BY <1>1, <2>5, <2>7, <2>8, <2>11, <2>12, Spends
  <1> QED
    BY <1>2, <1>3

LEMMA WindowRegisters ==
    ASSUME SpendInv, Reads, Reads', NEW t \in Tasks, WindowCommand(t)
    PROVE  R!RegisterNext
  <1>1. /\ UNCHANGED <<epoch, issued, payments, approvals>>
        /\ \E w : Start(t, w)
    BY DEF WindowCommand, WindowReview, WindowZap, WindowPay, WindowSelect
  <1>2. /\ pc'[t] = "gate"
        /\ \A u \in Tasks \ {t} : pc'[u] = pc[u] /\ work'[u] = work[u]
    BY <1>1 DEF Start, SpendInv, TaskInv, WalletTypeOK
  <1> QED
    BY <1>1, <1>2, MovesWithout DEF Pays

LEMMA TaskRegisters ==
    ASSUME SpendInv, Reads, Reads', NEW t \in Tasks, EnterGate(t) \/ TaskStep(t) \/ WindowCommand(t)
    PROVE  R!RegisterNext
  BY EnterRegisters, OpenRegisters, ReviewRegisters, RecordRegisters, TakeRegisters,
     PrepareRegisters, WindowRegisters DEF TaskStep

\* From the first step of the lock command on, nothing stands.
LEMMA LockRegisters ==
    ASSUME SpendInv, Reads, Reads', LockCommand \/ Restart
    PROVE  R!RegisterNext
  <1>1. CASE LockBegins
    <2>1. /\ epoch \in Nat /\ epoch' = epoch + 1 /\ UNCHANGED <<pc, issued, payments>>
          /\ \A r \in approvals : r.epoch \in Nat /\ r.epoch <= epoch
      BY <1>1 DEF LockBegins, SpendInv, TaskInv, LockInv, InEpoch, WalletTypeOK, ApprovalRows
    <2>2. \A r \in approvals' : \E s \in approvals : r = [s EXCEPT !.bumped = TRUE]
      BY <1>1 DEF LockBegins
    <2>3. \A r \in approvals' : r.epoch # epoch'
      BY <2>1, <2>2 DEF SpendInv, TaskInv, WalletTypeOK, ApprovalRows
    <2>4. ASSUME NEW t \in Tasks, Pays(pc'[t], work'[t]) PROVE work'[t].epoch # epoch'
      <3>1. /\ work'[t] = IF work[t] = NoWork THEN NoWork ELSE [work[t] EXCEPT !.bumped = TRUE]
            /\ pc'[t] = pc[t] /\ work[t] \in Works \cup {NoWork}
        BY <1>1 DEF LockBegins, SpendInv, TaskInv, WalletTypeOK
      <3>2. work[t] \in Works
        BY <2>4, <3>1, NotWork DEF Pays
      <3>3. work'[t].op = work[t].op /\ work'[t].epoch = work[t].epoch /\ work[t].epoch \in Nat
        BY <3>1, <3>2, NotWork DEF Works
      <3>4. Pays(pc[t], work[t])
        BY <2>4, <3>1, <3>3 DEF Pays
      <3>5. work[t].epoch <= epoch
        BY <3>4 DEF SpendInv, LockInv, InEpoch
      <3> QED
        BY <2>1, <3>3, <3>5
    <2>5. \A h \in Handles : ~Stands(h)'
      BY <2>3, <2>4 DEF Stands
    <2> QED
      BY <2>1, <2>5, Locks
  <1>2. CASE LockClears \/ LockEnds
    BY <1>2, RowsLapse DEF LockClears, LockEnds
  <1>3. CASE Restart
    <2>1. \A h \in Handles : ~Stands(h)'
      BY <1>3 DEF Restart, Stands, Pays
    <2>2. UNCHANGED <<issued, payments>>
      BY <1>3 DEF Restart
    <2> QED
      BY <2>1, <2>2, Locks, Lapses
  <1> QED
    BY <1>1, <1>2, <1>3 DEF LockCommand

LEMMA AsideRegisters ==
    ASSUME Reads, Reads',
           Tick \/ UNCHANGED walletVars \/ \E a \in Accounts : Cancel(a) \/ UnlockAccount(a)
    PROVE  R!RegisterNext
  <1>1. UNCHANGED <<pc, work, epoch, issued, payments>> /\ approvals' \subseteq approvals
    BY DEF Tick, Cancel, UnlockAccount, walletVars
  <1> QED
    BY <1>1, RowsLapse

LEMMA StepRegisters ==
    ASSUME SpendInv, Reads, Reads', [WalletNext]_walletVars
    PROVE  R!RegisterNext
  BY TaskRegisters, LockRegisters, AsideRegisters DEF WalletNext

LEMMA InitRegisters == WalletInit => R!RegisterInit
  <1> SUFFICES ASSUME WalletInit PROVE R!RegisterInit
    OBVIOUS
  <1>1. \A h \in Handles : ~Paid(h) /\ ~Stands(h) /\ ~\E r \in issued : r.id = h
    BY DEF WalletInit, Paid, Stands, Pays
  <1>2. handleOf = [h \in Handles |-> "unused"]
    BY <1>1 DEF handleOf
  <1>3. Cardinality(payments) = 0
    BY FS_EmptySet DEF WalletInit
  <1> QED
    BY <1>2, <1>3 DEF WalletInit, R!RegisterInit

\* The wallet implements the register, for any commands in flight, any reviews and any
\* number of locks: a handle is spent once, while it stands, and a lock is one instant
\* (WalletService::lock against record_review, wallet_review_send and pay_reviewed).
THEOREM WalletImplementsRegister == WalletSpec => RegisterSpec
  <1>1. SpendInv => Reads
    BY RegisterReads
  <1>2. SpendInv /\ Reads /\ Reads' /\ [WalletNext]_walletVars => R!RegisterNext
    BY StepRegisters
  <1> QED
    BY <1>1, <1>2, InitRegisters, Inductive, PTL DEF WalletSpec, RegisterSpec, R!RegisterSpec
=============================================================================
