------------------------------- MODULE Wallet -------------------------------
(***************************************************************************)
(* Spending from the wallet (src-tauri/src/wallet.rs): a spend is reviewed *)
(* first, the review leaves a one-shot approval with a ceiling, and paying *)
(* takes the approval and checks it again.  An approval is for a Lightning *)
(* invoice (approvals) or for a Cashu token to hand out (cashu_approvals). *)
(*                                                                         *)
(* Commands run concurrently as tasks.  The ones that touch the Cashu      *)
(* database hold WalletService::gate; lock and wallet_cancel do not.  The  *)
(* Cashu library and the mint (the cdk crate) are external: a quote or a   *)
(* preparation fails or names an amount.                                   *)
(***************************************************************************)
EXTENDS Naturals, FiniteSets

CONSTANTS
    Accounts,
    Mints,
    AnyMint,      \* a review that takes the selected mint, whichever it is
    Invoices,     \* Lightning invoices
    Token,        \* what a Cashu send pays to, in the place of an invoice
    Handles,      \* random ids of reviews; bounds how many are ever recorded
    NoHandle,
    Tasks,        \* commands in flight at once
    NoTask,
    Amounts,      \* amounts a mint may ask for
    QuoteLife,    \* how long a mint keeps a quote open, at most
    SendLife,     \* how long a token review lasts (120 s)
    MaxReviews,   \* the 32 of record_review
    MaxEpoch,     \* bound on the number of locks
    MaxNow        \* bound on the clock

ASSUME WalletAssumption ==
    /\ Amounts \subseteq Nat
    /\ QuoteLife \in Nat /\ SendLife \in Nat /\ MaxReviews \in Nat
    /\ MaxEpoch \in Nat /\ MaxNow \in Nat
    /\ AnyMint \notin Mints /\ Token \notin Invoices
    /\ NoHandle \notin Handles /\ NoTask \notin Tasks
    /\ IsFiniteSet(Handles) /\ Mints # {} /\ Amounts # {}

VARIABLES
    now,        \* the clock
    held,       \* accounts whose keys the vault holds
    selected,   \* the mint (wallet slot) each account has selected
    epoch,      \* WalletService::epoch
    approvals,  \* both approval maps, as a set of rows
    gate,       \* who holds WalletService::gate
    locking,    \* how far the lock command has come
    pc, work,   \* where each task is, and its local variables
    issued,     \* history: every approval ever recorded
    payments    \* history: every spend confirmed, numbered in order

walletVars ==
    <<now, held, selected, epoch, approvals, gate, locking, pc, work, issued, payments>>

Payees == Invoices \cup {Token}
Ops == {"review", "zap", "pay", "setmint", "select"}

\* The local variables of a command, of the window or of a wallet connect handler.
\* One is history: whether a lock began since the review was begun (bumped).
Works ==
    [op : Ops, window : BOOLEAN, account : Accounts, payee : Payees, id : Handles \cup {NoHandle},
     mint : Mints \cup {AnyMint}, maximum : Amounts \cup {0}, expiry : Nat, epoch : Nat,
     ok : BOOLEAN, bumped : BOOLEAN]

NoWork == [op |-> "none"]

\* Approval and CashuApproval; window and bumped are history.
ApprovalRows ==
    [id : Handles, window : BOOLEAN, account : Accounts, payee : Payees, mint : Mints,
     maximum : Amounts, expiry : Nat, epoch : Nat, bumped : BOOLEAN]

Payments ==
    [n : Nat, id : Handles, window : BOOLEAN, account : Accounts, payee : Payees, mint : Mints,
     total : Amounts, at : Nat, bumped : BOOLEAN]

Labels ==
    {"idle", "gate", "open", "lookup", "quote", "record", "insert", "take", "prepare", "confirm",
     "select", "back"}

WalletTypeOK ==
    /\ now \in Nat /\ epoch \in Nat
    /\ held \subseteq Accounts
    /\ selected \in [Accounts -> Mints]
    /\ approvals \subseteq ApprovalRows /\ issued \subseteq ApprovalRows
    /\ gate \in Tasks \cup {NoTask}
    /\ locking \in {"no", "clear", "vault"}
    /\ pc \in [Tasks -> Labels]
    /\ work \in [Tasks -> Works \cup {NoWork}]
    /\ payments \subseteq Payments

WalletInit ==
    /\ now = 0 /\ epoch = 0
    /\ held = {}
    /\ selected \in [Accounts -> Mints]
    /\ approvals = {} /\ issued = {} /\ payments = {}
    /\ gate = NoTask /\ locking = "no"
    /\ pc = [t \in Tasks |-> "idle"]
    /\ work = [t \in Tasks |-> NoWork]

-----------------------------------------------------------------------------
(* Commands, the gate *)

\* w: the arguments of the command; the rest of its variables are unset.
Start(t, w) ==
    /\ pc[t] = "idle"
    /\ pc' = [pc EXCEPT ![t] = "gate"]
    /\ work' = [work EXCEPT ![t] =
          [op |-> w.op, window |-> w.window, account |-> w.account, payee |-> w.payee, id |-> w.id,
           mint |-> w.mint, maximum |-> 0, expiry |-> 0, epoch |-> 0, ok |-> FALSE,
           bumped |-> FALSE]]

Goto(t, label) ==
    /\ pc' = [pc EXCEPT ![t] = label]
    /\ UNCHANGED work

\* The command returns and drops the gate.  A window command is over; a wallet
\* connect handler goes on with the result.
Leave(t, ok) ==
    /\ gate' = NoTask
    /\ pc' = [pc EXCEPT ![t] = IF work[t].window THEN "idle" ELSE "back"]
    /\ work' = [work EXCEPT ![t] = IF work[t].window THEN NoWork ELSE [@ EXCEPT !.ok = ok]]

\* WalletService::lock, called with the gate held: nothing can be recorded
\* between its statements.
ServiceLock ==
    /\ epoch < MaxEpoch
    /\ epoch' = epoch + 1
    /\ approvals' = {}

\* What a command does first once it has the gate.
EnterGate(t) ==
    /\ pc[t] = "gate" /\ gate = NoTask
    /\ gate' = t
    /\ CASE work[t].op \in {"review", "zap"} ->
              /\ pc' = [pc EXCEPT ![t] = "open"]
              /\ work' = [work EXCEPT ![t].epoch = epoch, ![t].bumped = FALSE]
              /\ UNCHANGED <<epoch, approvals>>
         [] work[t].op = "pay" ->
              /\ Goto(t, "take")
              /\ UNCHANGED <<epoch, approvals>>
         [] work[t].op \in {"setmint", "select"} ->
              /\ ServiceLock
              /\ pc' = [pc EXCEPT ![t] = "open"]
              /\ work' = [work EXCEPT ![t].epoch = epoch']
    /\ UNCHANGED <<now, held, selected, locking, issued, payments>>

Gated(t, label) == pc[t] = label /\ gate = t

\* open: needs the account's keys, gives the selected wallet.  A review for a
\* connection and a payment insist on their mint; a token is checked in full
\* here (validate_cashu_approval), an invoice was when it was taken.
Open(t) ==
    /\ Gated(t, "open")
    /\ LET w == work[t]
           fits == \/ w.op \in {"review", "zap"} /\ w.mint \in {AnyMint, selected[w.account]}
                   \/ w.op = "pay" /\ w.mint = selected[w.account]
                      /\ (w.payee = Token => w.epoch = epoch /\ w.expiry > now)
                   \/ w.op \in {"setmint", "select"}
       IN \/ /\ w.account \in held /\ fits
             /\ pc' = [pc EXCEPT ![t] = CASE w.op = "review" -> "quote"
                                          [] w.op = "zap" -> "lookup"
                                          [] w.op = "pay" -> "prepare"
                                          [] OTHER -> "select"]
             /\ work' = [work EXCEPT ![t].mint =
                   IF w.op \in {"review", "zap"} THEN selected[w.account] ELSE @]
             /\ UNCHANGED gate
          \/ ~(w.account \in held /\ fits) /\ Leave(t, FALSE)
    /\ UNCHANGED <<now, held, selected, epoch, approvals, locking, issued, payments>>

-----------------------------------------------------------------------------
(* review, wallet_review_send *)

\* wallet_zap: the recipient's provider hands out an invoice for a request the
\* account signs, or one of the many checks fails.
Lookup(t) ==
    /\ Gated(t, "lookup")
    /\ \/ /\ work[t].account \in held
          /\ \E i \in Invoices : work' = [work EXCEPT ![t].payee = i]
          /\ pc' = [pc EXCEPT ![t] = "quote"]
          /\ UNCHANGED gate
       \/ Leave(t, FALSE)
    /\ UNCHANGED <<now, held, selected, epoch, approvals, locking, issued, payments>>

\* The mint names its price and, for an invoice, how long it stands; or it fails.
Quote(t) ==
    /\ Gated(t, "quote")
    /\ \/ /\ \E maximum \in Amounts, life \in 0 .. QuoteLife :
                work' = [work EXCEPT ![t].maximum = maximum, ![t].expiry = now + life]
          /\ pc' = [pc EXCEPT ![t] = "record"]
          /\ UNCHANGED gate
       \/ Leave(t, FALSE)
    /\ UNCHANGED <<now, held, selected, epoch, approvals, locking, issued, payments>>

Row(w, i, expiry) ==
    [id |-> i, window |-> w.window, account |-> w.account, payee |-> w.payee,
     mint |-> w.mint, maximum |-> w.maximum, expiry |-> expiry, epoch |-> w.epoch, bumped |-> w.bumped]

\* The row gets a fresh random id, which the command returns.
Insert(t, rows, expiry) ==
    \E i \in Handles \ {r.id : r \in issued} :
        /\ approvals' = rows \cup {Row(work[t], i, expiry)}
        /\ issued' = issued \cup {Row(work[t], i, expiry)}
        /\ gate' = NoTask
        /\ pc' = [pc EXCEPT ![t] = IF work[t].window THEN "idle" ELSE "back"]
        /\ work' = [work EXCEPT ![t] =
              IF work[t].window THEN NoWork ELSE [@ EXCEPT !.id = i, !.ok = TRUE]]

\* record_review: one critical section of the approvals mutex, the epoch read
\* inside it.  Rows past their expiry go first.
RecordReview(t) ==
    /\ Gated(t, "record") /\ work[t].payee # Token
    /\ LET kept == {r \in approvals : r.payee = Token \/ r.expiry > now}
           room == Cardinality({r \in kept : r.payee # Token}) < MaxReviews
       IN \/ /\ work[t].expiry > now /\ room /\ work[t].epoch = epoch
             /\ Insert(t, kept, work[t].expiry)
          \/ /\ ~(work[t].expiry > now /\ room /\ work[t].epoch = epoch)
             /\ Leave(t, FALSE)
             /\ approvals' = (IF work[t].expiry > now THEN kept ELSE approvals)
             /\ UNCHANGED issued
    /\ UNCHANGED <<now, held, selected, epoch, locking, payments>>

\* wallet_review_send checks for a lock, and only then takes the mutex ...
CheckSend(t) ==
    /\ Gated(t, "record") /\ work[t].payee = Token
    /\ IF work[t].epoch = epoch /\ work[t].account \in held
       THEN Goto(t, "insert") /\ UNCHANGED gate
       ELSE Leave(t, FALSE)
    /\ UNCHANGED <<now, held, selected, epoch, approvals, locking, issued, payments>>

\* ... and there keeps one review per account.
InsertSend(t) ==
    /\ Gated(t, "insert")
    /\ Insert(t, {r \in approvals :
          r.payee = Token => r.account # work[t].account /\ r.expiry > now}, now + SendLife)
    /\ UNCHANGED <<now, held, selected, epoch, locking, payments>>

-----------------------------------------------------------------------------
(* pay_reviewed, wallet_send_token *)

\* Mutant: the approval is read and not removed.
TakeKeepsRow(t) ==
    /\ Gated(t, "take")
    /\ \/ \E r \in approvals :
             /\ r.id = work[t].id /\ r.account = work[t].account /\ r.expiry > now
             /\ pc' = [pc EXCEPT ![t] = "open"]
             /\ work' = [work EXCEPT ![t] =
                   [@ EXCEPT !.payee = r.payee, !.mint = r.mint, !.maximum = r.maximum,
                             !.expiry = r.expiry, !.epoch = r.epoch, !.bumped = r.bumped]]
             /\ UNCHANGED gate
       \/ Leave(t, FALSE)
    /\ UNCHANGED <<now, held, selected, epoch, approvals, locking, issued, payments>>

\* The approval is gone whatever happens next.
Take(t) ==
    /\ Gated(t, "take")
    /\ \/ \E r \in approvals :
             /\ r.id = work[t].id /\ (r.payee = Token <=> work[t].payee = Token)
             /\ approvals' = approvals \ {r}
             /\ IF r.account = work[t].account /\ (r.payee # Token => r.expiry > now)
                THEN /\ pc' = [pc EXCEPT ![t] = "open"]
                     /\ work' = [work EXCEPT ![t] =
                           [@ EXCEPT !.payee = r.payee, !.mint = r.mint, !.maximum = r.maximum,
                                     !.expiry = r.expiry, !.epoch = r.epoch,
                                     !.bumped = r.bumped]]
                     /\ UNCHANGED gate
                ELSE Leave(t, FALSE)
       \/ /\ ~\E r \in approvals :
                r.id = work[t].id /\ (r.payee = Token <=> work[t].payee = Token)
          /\ Leave(t, FALSE)
          /\ UNCHANGED approvals
    /\ UNCHANGED <<now, held, selected, epoch, locking, issued, payments>>

\* Mutant: the price is not checked against what was shown.
ConfirmAnyTotal(w, total) ==
    w.expiry > now /\ w.account \in held /\ w.epoch = epoch

\* Mutant: the vault is thought to tell of every lock.
ConfirmOnVaultAlone(w, total) ==
    w.expiry > now /\ total <= w.maximum /\ w.account \in held

\* The last look before the money moves, on the amount the mint now asks for.
MayConfirm(w, total) ==
    /\ w.expiry > now
    /\ total <= w.maximum
    /\ w.account \in held
    /\ w.epoch = epoch

\* The mint prepares the spend, or fails; what no longer fits is cancelled.
Prepare(t) ==
    /\ Gated(t, "prepare")
    /\ \/ \E total \in Amounts :
             /\ MayConfirm(work[t], total)
             /\ payments' = payments \cup
                   {[n |-> Cardinality(payments) + 1, id |-> work[t].id,
                     window |-> work[t].window, account |-> work[t].account, payee |-> work[t].payee,
                     mint |-> work[t].mint, total |-> total, at |-> now,
                     bumped |-> work[t].bumped]}
             /\ Goto(t, "confirm")
             /\ UNCHANGED gate
       \/ Leave(t, FALSE) /\ UNCHANGED payments
    /\ UNCHANGED <<now, held, selected, epoch, approvals, locking, issued>>

\* Never cancelled once begun; the answer may still be an error.
Confirm(t) ==
    /\ Gated(t, "confirm")
    /\ \E ok \in BOOLEAN : Leave(t, ok)
    /\ UNCHANGED <<now, held, selected, epoch, approvals, locking, issued, payments>>

-----------------------------------------------------------------------------
(* wallet_select and wallet_set_mint, the second of which looks for a lock *)

SelectMint(t) ==
    /\ Gated(t, "select")
    /\ \/ /\ work[t].op = "setmint" => work[t].epoch = epoch /\ work[t].account \in held
          /\ selected' = [selected EXCEPT ![work[t].account] = work[t].mint]
       \/ UNCHANGED selected
    /\ Leave(t, TRUE)
    /\ UNCHANGED <<now, held, epoch, approvals, locking, issued, payments>>

-----------------------------------------------------------------------------
(* Without the gate *)

\* wallet_cancel: the window closed its review.
Cancel(a) ==
    /\ approvals' = {r \in approvals : r.account # a}
    /\ UNCHANGED <<now, held, selected, epoch, gate, locking, pc, work, issued, payments>>

\* limit_review and cancel_review, of a wallet connect handler.
LimitReview(i, expiry) ==
    approvals' = {IF r.id = i /\ expiry < r.expiry THEN [r EXCEPT !.expiry = expiry] ELSE r
                    : r \in approvals}

CancelReview(i) == approvals' = {r \in approvals : r.id # i}

\* The lock command: WalletService::lock moves the epoch and then clears the
\* maps, AppState::lock then empties the vault.
LockBegins ==
    /\ locking = "no" /\ epoch < MaxEpoch
    /\ locking' = "clear"
    /\ epoch' = epoch + 1
    /\ approvals' = {[r EXCEPT !.bumped = TRUE] : r \in approvals}
    /\ work' = [t \in Tasks |-> IF work[t] = NoWork THEN NoWork
                                ELSE [work[t] EXCEPT !.bumped = TRUE]]
    /\ UNCHANGED <<now, held, selected, gate, pc, issued, payments>>

LockClears ==
    /\ locking = "clear"
    /\ locking' = "vault"
    /\ approvals' = {}
    /\ UNCHANGED <<now, held, selected, epoch, gate, pc, work, issued, payments>>

LockEnds ==
    /\ locking = "vault"
    /\ locking' = "no"
    /\ held' = {}
    /\ UNCHANGED <<now, selected, epoch, approvals, gate, pc, work, issued, payments>>

\* The unlock command, which holds the gate while it loads the keys.
UnlockAccount(a) ==
    /\ gate = NoTask
    /\ a \notin held
    /\ held' = held \cup {a}
    /\ UNCHANGED <<now, selected, epoch, approvals, gate, locking, pc, work, issued, payments>>

Tick ==
    /\ now < MaxNow
    /\ now' = now + 1
    /\ UNCHANGED <<held, selected, epoch, approvals, gate, locking, pc, work, issued, payments>>

\* The process dies and is started again: approvals and the epoch are memory.
Restart ==
    /\ held' = {} /\ epoch' = 0 /\ approvals' = {}
    /\ gate' = NoTask /\ locking' = "no"
    /\ pc' = [t \in Tasks |-> "idle"]
    /\ work' = [t \in Tasks |-> NoWork]
    /\ UNCHANGED <<now, selected, issued, payments>>

-----------------------------------------------------------------------------

\* The commands of the window.  A payment names an account and a review the
\* window was shown, at any time since.
WindowReview(t, a, payee) ==
    /\ Start(t, [op |-> "review", window |-> TRUE, account |-> a, payee |-> payee,
                 id |-> NoHandle, mint |-> AnyMint])
    /\ UNCHANGED <<now, held, selected, epoch, approvals, gate, locking, issued, payments>>

WindowZap(t, a) ==
    /\ Start(t, [op |-> "zap", window |-> TRUE, account |-> a, payee |-> Token,
                 id |-> NoHandle, mint |-> AnyMint])
    /\ UNCHANGED <<now, held, selected, epoch, approvals, gate, locking, issued, payments>>

\* The window is shown its own reviews only.
Shown == {r \in issued : r.window}

WindowPay(t, a, r) ==
    /\ Start(t, [op |-> "pay", window |-> TRUE, account |-> a, payee |-> r.payee,
                 id |-> r.id, mint |-> AnyMint])
    /\ UNCHANGED <<now, held, selected, epoch, approvals, gate, locking, issued, payments>>

WindowSelect(t, a, m, op) ==
    /\ Start(t, [op |-> op, window |-> TRUE, account |-> a, payee |-> Token,
                 id |-> NoHandle, mint |-> m])
    /\ UNCHANGED <<now, held, selected, epoch, approvals, gate, locking, issued, payments>>

TaskStep(t) ==
    \/ Open(t) \/ Lookup(t) \/ Quote(t) \/ RecordReview(t) \/ CheckSend(t) \/ InsertSend(t)
    \/ Take(t) \/ Prepare(t) \/ Confirm(t) \/ SelectMint(t)

WindowCommand(t) ==
    \/ \E a \in Accounts, payee \in Payees : WindowReview(t, a, payee)
    \/ \E a \in Accounts : WindowZap(t, a)
    \/ \E a \in Accounts, r \in Shown : WindowPay(t, a, r)
    \/ \E a \in Accounts, m \in Mints, op \in {"setmint", "select"} : WindowSelect(t, a, m, op)

LockCommand == LockBegins \/ LockClears \/ LockEnds

WalletNext ==
    \/ \E t \in Tasks : EnterGate(t) \/ TaskStep(t) \/ WindowCommand(t)
    \/ \E a \in Accounts : Cancel(a) \/ UnlockAccount(a)
    \/ LockCommand
    \/ Tick
    \/ Restart

WalletSpec == WalletInit /\ [][WalletNext]_walletVars

-----------------------------------------------------------------------------
(* Properties *)

\* pay_reviewed and wallet_send_token spend what was shown: the account, the payee
\* and the mint of a recorded review, no more than its maximum, before it expires,
\* whatever was selected, re-reviewed, cancelled or locked in between.
PaidAsReviewed ==
    \A p \in payments : \E r \in issued :
        /\ r.id = p.id
        /\ <<p.account, p.payee, p.mint>> = <<r.account, r.payee, r.mint>>
        /\ p.total <= r.maximum
        /\ p.at < r.expiry

\* "One-shot confirmation handle" (record_review): a review is paid at most once,
\* however many tasks present it and across restarts.
ReviewPaysOnce == \A p, q \in payments : p.id = q.id => p = q

\* A lock that begins after a review was begun voids it for good: the epoch and the
\* cleared maps catch reviews in progress, rows already there, rows inserted late
\* and payments that have taken theirs.
LockVoidsReviews == \A p \in payments : ~p.bumped

\* The service's maps are well formed, every review with a maximum, and no payment got
\* past a lock.
WalletInv == WalletTypeOK /\ LockVoidsReviews

-----------------------------------------------------------------------------
(* What an approval is good for, seen from outside *)

\* A payment that has taken its approval and not yet confirmed.
Pays(l, w) == l \in {"open", "prepare"} /\ w.op = "pay"

\* There is an approval of this epoch for h, in the maps or in a task's hands.
Stands(h) ==
    \/ \E r \in approvals : r.id = h /\ r.epoch = epoch
    \/ \E t \in Tasks : Pays(pc[t], work[t]) /\ work[t].id = h /\ work[t].epoch = epoch

Paid(h) == \E p \in payments : p.id = h

handleOf ==
    [h \in Handles |->
        CASE Paid(h) -> "spent"
          [] ~Paid(h) /\ Stands(h) -> "open"
          [] ~Paid(h) /\ ~Stands(h) /\ (\E r \in issued : r.id = h) -> "void"
          [] OTHER -> "unused"]

R == INSTANCE Register WITH handle <- handleOf, spends <- Cardinality(payments)

\* Reviews, payments and locks at any of their steps are steps of the register: a
\* handle is spent once and only while it stands, and from the moment a lock moves
\* the epoch no approval stands, although the maps are cleared and the vault emptied
\* later and rows may still be inserted in between.
RegisterSpec == R!RegisterSpec
=============================================================================
