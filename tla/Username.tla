------------------------------ MODULE Username ------------------------------
(***************************************************************************)
(* Buying a name at the address provider (src-tauri/src/wallet/username.rs *)
(* and npubcash/username.rs), for one account: a review leaves a one-shot  *)
(* approval, a claim journals one send operation of the Cashu wallet       *)
(* before it turns it into a token, and submits that token; a retry        *)
(* submits the same token again and a reclaim takes it back.               *)
(*                                                                         *)
(* Every command holds WalletService::gate, one step per await.  The lock  *)
(* and wallet_cancel do not, the process may die anywhere, any request may *)
(* fail or lose its answer after it was carried out, and the provider may  *)
(* act on a claim at any later time.  The cdk crate's send operations and  *)
(* the provider are external.                                              *)
(***************************************************************************)
EXTENDS Naturals, FiniteSets

CONSTANTS
    Names,
    NoName,
    Mints,
    PayMint,      \* the mint the provider wants paid names paid from
    Prices,       \* what the provider may ask; 0 is a free name
    Fees,         \* what a preparation may cost on top
    Ops,          \* ids of send operations; bounds how many are ever prepared
    NoOp

ASSUME UsernameAssumption ==
    /\ NoName \notin Names /\ NoOp \notin Ops /\ PayMint \in Mints
    /\ Prices \subseteq Nat /\ Fees \subseteq Nat

VARIABLES
    held,       \* whether the vault holds the account's keys
    locking,    \* the lock command has moved the epoch and has not emptied the vault
    selected,   \* the mint of the selected wallet
    approval,   \* the account's row of name_approvals
    record,     \* the journal: the purchase record of the registry
    marks,      \* operations marked as name payments, which pending_tokens hides
    saga,       \* what the Cashu wallet knows of each operation
    pc, job,    \* the command that holds the gate
    owned,      \* the name the provider has for the account
    claims,     \* claims sent to the provider and not yet acted on
    taken,      \* tokens the provider has redeemed
    sent        \* history: tokens that were ever sent

usernameVars ==
    <<held, locking, selected, approval, record, marks, saga, pc, job, owned, claims, taken, sent>>

\* Each with: an epoch passed since it was read, its two minutes are over.
Approvals ==
    [name : Names, mint : Mints, price : Prices, maximum : Nat, moved : BOOLEAN, old : BOOLEAN]
NoApproval ==
    [name |-> NoName, mint |-> PayMint, price |-> 0, maximum |-> 0, moved |-> FALSE, old |-> FALSE]

Purchases ==
    [name : Names, amount : Prices \cup {0}, op : Ops \cup {NoOp},
     submitted : BOOLEAN, confirmed : BOOLEAN]
NoPurchase == [name |-> NoName, amount |-> 0, op |-> NoOp, submitted |-> FALSE, confirmed |-> FALSE]

\* reserved: proofs set aside, the swap perhaps begun; created: a token exists;
\* released: undone without a trace; returned: revoked, the transaction is marked
\* failed; finished: the token was seen spent.
Sagas == {"unused", "reserved", "created", "released", "returned", "finished"}

\* What a command knows: the approval it took or makes, the prepared cost.
Deals ==
    [name : Names \cup {NoName}, mint : Mints, price : Prices \cup {0}, maximum : Nat,
     moved : BOOLEAN, old : BOOLEAN]
Jobs ==
    [op : {"none", "status", "review", "claim", "retry", "reclaim"}, deal : Deals,
     cost : Nat, send : Ops \cup {NoOp}]
NoJob == [op |-> "none", deal |-> NoApproval, cost |-> 0, send |-> NoOp]

Labels == {"idle", "refresh", "quote", "fee", "offer", "record", "prepare", "commit", "mark",
           "confirm", "lookup", "found", "settle", "claim", "answer", "check", "recover", "revoke", "remove"}

UsernameTypeOK ==
    /\ {held, locking} \subseteq BOOLEAN
    /\ selected \in Mints
    /\ approval \in Approvals \cup {NoApproval}
    /\ record \in Purchases \cup {NoPurchase}
    /\ marks \subseteq Ops /\ taken \subseteq Ops /\ sent \subseteq Ops
    /\ saga \in [Ops -> Sagas]
    /\ pc \in Labels
    /\ job \in Jobs
    /\ owned \in Names \cup {NoName}
    /\ claims \subseteq [name : Names, op : Ops \cup {NoOp}]

UsernameInit ==
    /\ held = TRUE /\ locking = FALSE
    /\ selected \in Mints
    /\ approval = NoApproval /\ record = NoPurchase /\ marks = {}
    /\ saga = [o \in Ops |-> "unused"]
    /\ pc = "idle" /\ job = NoJob
    /\ owned \in Names \cup {NoName}
    /\ claims = {} /\ taken = {} /\ sent = {}

-----------------------------------------------------------------------------
(* Steps the commands share *)

screen == <<held, locking, selected, approval>>
ledger == <<record, marks, saga>>
provider == <<owned, claims, taken, sent>>

Goto(label) == pc' = label /\ UNCHANGED job

\* The command returns, with a result or an error.
Return == pc' = "idle" /\ job' = NoJob

\* A request, a read or a write fails, and the command with it.
Fails == Return /\ UNCHANGED <<screen, ledger, provider>>

Enter(op, label) ==
    /\ pc = "idle" /\ held
    /\ pc' = label /\ job' = [NoJob EXCEPT !.op = op]
    /\ UNCHANGED <<screen, ledger, provider>>

\* Cancelling a preparation, or the mint finding the swap never happened.
Release(o) == saga' = [saga EXCEPT ![o] = "released"]

\* revoke_send: the mint swaps the token back, unless it is spent.
Revoke(o) ==
    /\ saga[o] = "created" /\ o \notin taken
    /\ saga' = [saga EXCEPT ![o] = "returned"]

\* check_send_status, its errors ignored.
CheckSendStatus(o) ==
    saga' = IF o \in Ops /\ saga[o] = "created" /\ o \in taken
            THEN [saga EXCEPT ![o] = "finished"] ELSE saga

\* recover_incomplete_sagas with none failed: what was not finished is undone or,
\* once a token exists, kept until it is spent.
RecoverSagas ==
    saga' = [o \in Ops |->
        CASE saga[o] = "reserved" -> "released"
          [] saga[o] = "created" /\ o \in taken -> "finished"
          [] OTHER -> saga[o]]

-----------------------------------------------------------------------------
(* The commands *)

Status == \E label \in {"refresh", "check"} : Enter("status", label)
Review == Enter("review", "refresh")
Retry == Enter("retry", "refresh")
Reclaim == Enter("reclaim", "refresh")

\* wallet_name_claim takes the approval, whatever becomes of it, then validates it.
Claim ==
    /\ pc = "idle" /\ approval # NoApproval
    /\ approval' = NoApproval
    /\ IF held /\ ~approval.moved /\ ~approval.old /\ approval.mint = selected
       THEN pc' = "refresh" /\ job' = [NoJob EXCEPT !.op = "claim", !.deal = approval]
       ELSE Return
    /\ UNCHANGED <<held, locking, selected, ledger, provider>>

\* wallet_open, the part that concerns operations: it opens the selected wallet.
Open ==
    /\ pc = "idle" /\ held /\ selected = PayMint
    /\ RecoverSagas
    /\ UNCHANGED <<screen, record, marks, pc, job, provider>>

\* Where each command goes with what refresh found.
AfterRefresh(found) ==
    CASE job.op = "status" -> Goto("check")
      [] job.op \in {"review", "claim"} -> IF found = NoPurchase THEN Goto("quote") ELSE Return
      [] job.op = "retry" ->
            IF found = NoPurchase \/ found.confirmed THEN Return ELSE Goto("lookup")
      [] job.op = "reclaim" ->
            IF found = NoPurchase \/ found.confirmed THEN Return
            ELSE Goto(IF found.op = NoOp THEN "remove" ELSE "recover")

\* refresh: the provider's name confirms the journal, or is journalled if there is none.
Refresh ==
    LET found ==
          CASE record # NoPurchase /\ owned = record.name -> [record EXCEPT !.confirmed = TRUE]
            [] record = NoPurchase /\ owned # NoName ->
                  [NoPurchase EXCEPT !.name = owned, !.confirmed = TRUE]
            [] OTHER -> record
    IN  /\ pc = "refresh" /\ held
        /\ record' = found
        /\ AfterRefresh(found)
        /\ UNCHANGED <<screen, marks, saga, provider>>

\* A status that cannot refresh shows the journal as it is.
RefreshFails ==
    /\ pc = "refresh"
    /\ IF job.op = "status" THEN Goto("check") /\ UNCHANGED <<screen, ledger, provider>> ELSE Fails

\* The end of wallet_name_status, and of a claim that was answered.
Check ==
    /\ pc = "check"
    /\ IF record.confirmed /\ record.submitted THEN CheckSendStatus(record.op) ELSE UNCHANGED saga
    /\ Return
    /\ UNCHANGED <<screen, record, marks, provider>>

\* provider::quote, in a review.  A paid name is paid from the provider's mint.
QuoteForReview(name, price) ==
    /\ pc = "quote" /\ job.op = "review" /\ held
    /\ price = 0 \/ selected = PayMint
    /\ job' = [job EXCEPT !.deal.name = name, !.deal.mint = selected,
                          !.deal.price = price, !.deal.maximum = price]
    /\ pc' = IF price = 0 THEN "offer" ELSE "prepare"
    /\ UNCHANGED <<screen, ledger, provider>>

\* The operation a review prepares to learn the fee is cancelled and leaves no trace:
\* its id may as well be drawn again.
CancelFee ==
    /\ pc = "fee"
    /\ saga' = [saga EXCEPT ![job.send] = "unused"]
    /\ job' = [job EXCEPT !.deal.maximum = job.cost, !.send = NoOp]
    /\ pc' = "offer"
    /\ UNCHANGED <<screen, record, marks, provider>>

\* The last check of a review, and then its row: a lock may come in between.
Offer ==
    /\ pc = "offer" /\ ~job.deal.moved /\ held
    /\ Goto("record")
    /\ UNCHANGED <<screen, ledger, provider>>

RecordApproval ==
    /\ pc = "record"
    /\ approval' = job.deal
    /\ Return
    /\ UNCHANGED <<held, locking, selected, ledger, provider>>

\* provider::quote, in a claim: the price has to be the one reviewed.
QuoteForClaim ==
    /\ pc = "quote" /\ job.op = "claim" /\ held
    /\ Goto(IF job.deal.price = 0 THEN "commit" ELSE "prepare")
    /\ UNCHANGED <<screen, ledger, provider>>

Prepare(o, fee) ==
    /\ pc = "prepare" /\ saga[o] = "unused"
    /\ saga' = [saga EXCEPT ![o] = "reserved"]
    /\ job' = [job EXCEPT !.cost = job.deal.price + fee, !.send = o]
    /\ pc' = IF job.op = "review" THEN "fee" ELSE "commit"
    /\ UNCHANGED <<screen, record, marks, provider>>

StillAgreed == job.cost <= job.deal.maximum /\ ~job.deal.moved /\ ~job.deal.old /\ held

\* Mutant: the operation is not marked as a name payment.
CommitUnmarked ==
    /\ pc = "commit" /\ StillAgreed
    /\ record' = [NoPurchase EXCEPT !.name = job.deal.name, !.amount = job.deal.price, !.op = job.send]
    /\ Goto(IF job.send = NoOp THEN "lookup" ELSE "confirm")
    /\ UNCHANGED <<screen, marks, saga, provider>>

\* The journal, before there is a token.
Commit ==
    /\ pc = "commit" /\ StillAgreed
    /\ record' = [NoPurchase EXCEPT !.name = job.deal.name, !.amount = job.deal.price, !.op = job.send]
    /\ Goto(IF job.send = NoOp THEN "lookup" ELSE "mark")
    /\ UNCHANGED <<screen, marks, saga, provider>>

\* The claim is off, or the journal cannot be written.
CommitFails ==
    /\ pc = "commit"
    /\ IF job.send \in Ops THEN Release(job.send) ELSE UNCHANGED saga
    /\ Return
    /\ UNCHANGED <<screen, record, marks, provider>>

Mark ==
    /\ pc = "mark"
    /\ marks' = marks \cup {job.send}
    /\ Goto("confirm")
    /\ UNCHANGED <<screen, record, saga, provider>>

Confirm ==
    /\ pc = "confirm"
    /\ saga' = [saga EXCEPT ![job.send] = "created"]
    /\ Goto("lookup")
    /\ UNCHANGED <<screen, record, marks, provider>>

ConfirmFails ==
    /\ pc = "confirm"
    /\ Release(job.send)
    /\ Return
    /\ UNCHANGED <<screen, record, marks, provider>>

-----------------------------------------------------------------------------
(* submit *)

\* Mutant: the token is sent without saving that it will be.
LookupUnsaved ==
    /\ pc = "lookup" /\ held
    /\ CASE owned = record.name /\ (record.submitted \/ record.op = NoOp) ->
              Goto("found") /\ UNCHANGED ledger
         [] owned = record.name /\ ~record.submitted /\ record.op # NoOp ->
              Revoke(record.op) /\ Goto("found") /\ UNCHANGED <<record, marks>>
         [] OTHER ->
              /\ IF record.op = NoOp THEN record.amount = 0 ELSE saga[record.op] = "created"
              /\ Goto("claim")
              /\ UNCHANGED ledger
    /\ UNCHANGED <<screen, provider>>

\* The provider is asked first.  A name that is ours already costs nothing: a token
\* that was not sent is taken back.  Otherwise the token, if any, must exist.
Lookup ==
    /\ pc = "lookup" /\ held
    /\ CASE owned = record.name /\ (record.submitted \/ record.op = NoOp) ->
              Goto("found") /\ UNCHANGED ledger
         [] owned = record.name /\ ~record.submitted /\ record.op # NoOp ->
              Revoke(record.op) /\ Goto("found") /\ UNCHANGED <<record, marks>>
         [] OTHER ->
              /\ IF record.op = NoOp THEN record.amount = 0 ELSE saga[record.op] = "created"
              /\ record' = [record EXCEPT !.submitted = TRUE]
              /\ Goto("claim")
              /\ UNCHANGED <<marks, saga>>
    /\ UNCHANGED <<screen, provider>>

\* provider::claim.
SendClaim ==
    /\ pc = "claim" /\ held
    /\ claims' = claims \cup {[name |-> record.name, op |-> record.op]}
    /\ sent' = sent \cup ({record.op} \ {NoOp})
    /\ Goto("answer")
    /\ UNCHANGED <<screen, ledger, owned, taken>>

\* The provider's answer names the account's name; any other outcome leaves the purchase
\* pending.
Answer ==
    /\ pc = "answer" /\ held
    /\ owned = record.name /\ [name |-> record.name, op |-> record.op] \notin claims
    /\ Goto("settle")
    /\ UNCHANGED <<screen, ledger, provider>>

\* The confirmed name is saved, by either way of finding it.
Settle ==
    /\ pc \in {"found", "settle"}
    /\ record' = [record EXCEPT !.confirmed = TRUE]
    /\ IF pc = "settle" THEN Goto("check") ELSE Return
    /\ UNCHANGED <<screen, marks, saga, provider>>

-----------------------------------------------------------------------------
(* wallet_name_reclaim, after refresh *)

Recover ==
    /\ pc = "recover" /\ held
    /\ RecoverSagas
    /\ Goto("revoke")
    /\ UNCHANGED <<screen, record, marks, provider>>

\* Mutant: an operation that is gone counts as refunded.
TakeBackUnchecked ==
    /\ pc = "revoke"
    /\ Revoke(record.op) \/ (saga[record.op] \notin {"reserved", "created"} /\ UNCHANGED saga)
    /\ Goto("remove")
    /\ UNCHANGED <<screen, record, marks, provider>>

\* A token is taken back; an operation that is gone must have been refunded, or its
\* token never sent.
TakeBack ==
    /\ pc = "revoke"
    /\ \/ Revoke(record.op)
       \/ /\ saga[record.op] \notin {"reserved", "created"}
          /\ saga[record.op] = "returned" \/ ~record.submitted
          /\ UNCHANGED saga
    /\ Goto("remove")
    /\ UNCHANGED <<screen, record, marks, provider>>

Remove ==
    /\ pc = "remove"
    /\ record' = NoPurchase
    /\ Return
    /\ UNCHANGED <<screen, marks, saga, provider>>

-----------------------------------------------------------------------------
(* Failures, the lock, the provider *)

\* An await fails, or a check after it does.
StepFails ==
    /\ pc \in {"quote", "prepare", "fee", "offer", "mark", "confirm", "lookup", "found", "settle",
               "claim", "answer", "recover", "revoke", "remove"}
    /\ Fails

\* Two minutes pass.
Expire ==
    /\ approval' = IF approval = NoApproval THEN approval ELSE [approval EXCEPT !.old = TRUE]
    /\ job' = IF job.op = "claim" THEN [job EXCEPT !.deal.old = TRUE] ELSE job
    /\ UNCHANGED <<held, locking, selected, ledger, pc, provider>>

\* WalletService::lock: every approval goes, and the epoch moves for the one in hand.
VoidApprovals ==
    /\ approval' = NoApproval
    /\ job' = IF job.op \in {"review", "claim"} THEN [job EXCEPT !.deal.moved = TRUE] ELSE job

LockBegins ==
    /\ held /\ ~locking
    /\ locking' = TRUE
    /\ VoidApprovals
    /\ UNCHANGED <<held, selected, ledger, pc, provider>>

LockEnds ==
    /\ locking
    /\ locking' = FALSE /\ held' = FALSE
    /\ UNCHANGED <<selected, approval, ledger, pc, job, provider>>

Unlock ==
    /\ pc = "idle" /\ ~held
    /\ held' = TRUE
    /\ UNCHANGED <<locking, selected, approval, ledger, pc, job, provider>>

\* wallet_cancel.
Cancel ==
    /\ approval # NoApproval
    /\ approval' = NoApproval
    /\ UNCHANGED <<held, locking, selected, ledger, pc, job, provider>>

\* wallet_select.
SelectMint(m) ==
    /\ pc = "idle" /\ held
    /\ selected' = m
    /\ VoidApprovals
    /\ UNCHANGED <<held, locking, ledger, pc, provider>>

\* The process dies: the vault, the approvals and the command are gone.
Restart ==
    /\ held' = FALSE /\ locking' = FALSE
    /\ approval' = NoApproval
    /\ Return
    /\ UNCHANGED <<selected, ledger, provider>>

\* The provider acts on a claim: it redeems the token if it still can, and gives the
\* name or, having failed in between, does not; or it refuses.
ProviderActs(c, gives) ==
    /\ c \in claims
    /\ claims' = claims \ {c}
    /\ IF c.op = NoOp \/ (saga[c.op] = "created" /\ c.op \notin taken)
       THEN /\ taken' = taken \cup ({c.op} \ {NoOp})
            /\ owned' = IF gives THEN c.name ELSE owned
       ELSE UNCHANGED <<taken, owned>>
    /\ UNCHANGED <<screen, ledger, pc, job, sent>>

ProviderRefuses(c) ==
    /\ c \in claims
    /\ claims' = claims \ {c}
    /\ UNCHANGED <<screen, ledger, pc, job, owned, taken, sent>>

\* Another client of the same identity gets a name.
AcquiredElsewhere(n) ==
    /\ owned = NoName
    /\ owned' = n
    /\ UNCHANGED <<screen, ledger, pc, job, claims, taken, sent>>

UsernameNext ==
    \/ Status \/ Review \/ Claim \/ Retry \/ Reclaim \/ Open
    \/ Refresh \/ RefreshFails \/ Check
    \/ \E n \in Names, p \in Prices : QuoteForReview(n, p)
    \/ CancelFee \/ Offer \/ RecordApproval \/ QuoteForClaim
    \/ \E o \in Ops, fee \in Fees : Prepare(o, fee)
    \/ Commit \/ CommitFails \/ Mark \/ Confirm \/ ConfirmFails
    \/ Lookup \/ SendClaim \/ Answer \/ Settle
    \/ Recover \/ TakeBack \/ Remove
    \/ StepFails \/ Expire \/ LockBegins \/ LockEnds \/ Unlock \/ Cancel \/ Restart
    \/ \E m \in Mints : SelectMint(m)
    \/ \E c \in claims, gives \in BOOLEAN : ProviderActs(c, gives)
    \/ \E c \in claims : ProviderRefuses(c)
    \/ \E n \in Names : AcquiredElsewhere(n)

UsernameSpec == UsernameInit /\ [][UsernameNext]_usernameVars

-----------------------------------------------------------------------------
(* Properties *)

\* What has become of the sum behind an operation, seen from outside: handed to the
\* provider, spent by it, or back in the wallet.
fundsOf ==
    [o \in Ops |->
        CASE o \in taken -> "paid"
          [] o \in sent \ taken /\ saga[o] = "created" -> "exposed"
          [] o \in sent \ taken /\ saga[o] # "created" -> "back"
          [] OTHER -> "mine"]

E == INSTANCE Escrow WITH Sums <- Ops, funds <- fundsOf

\* Whatever is retried, reclaimed, lost or cut short, a second token is handed out only
\* after the first is back, and never once one was redeemed: the purchase implements
\* Escrow ("Retries reuse that operation and never mint another payment").
EscrowSpec == E!EscrowSpec

\* A token the provider may still redeem is the one in the journal, marked submitted:
\* no reclaim, crash or failed save leaves one that neither retry nor reclaim can find.
SentTokenIsJournalled ==
    \A o \in Ops : fundsOf[o] = "exposed" => record.op = o /\ record.submitted

\* A token bought for a name never shows up among the tokens the user can hand out or
\* reclaim by hand (pending_tokens), however far the claim came.
NameTokenHidden == \A o \in Ops : saga[o] = "created" => o \in marks

\* The journal and the sagas are well formed, and no token of a purchase is on show.
UsernameInv == UsernameTypeOK /\ NameTokenHidden

\* A finished purchase has no unsent token left reserved and hidden: if the name was
\* acquired elsewhere the token goes back to the wallet.
NoTokenIsStranded ==
    record.confirmed /\ ~record.submitted /\ record.op # NoOp /\ pc = "idle"
        => saga[record.op] # "created"
=============================================================================
