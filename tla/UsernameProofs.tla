--------------------------- MODULE UsernameProofs ---------------------------
(***************************************************************************)
(* The username purchase, for any names, prices, mints and any number of   *)
(* send operations: its types, that a token of a purchase stays out of     *)
(* sight, that a token handed out is in the journal, and that the commands *)
(* with all their failures implement Escrow.                               *)
(***************************************************************************)
EXTENDS Username, TLAPS

\* A review or a claim before its journal entry: there is no purchase.
Unjournalled == {"quote", "prepare", "fee", "offer", "record", "commit"}

\* A command at work on the purchase in the journal.
Journalled ==
    {"mark", "confirm", "lookup", "found", "settle", "claim", "answer", "recover", "revoke"}

\* A deal that names a name, at the place where it is one.
Agreed(d) == d.name \in Names /\ d.price \in Prices

\* The types, and what a command's place says of the journal and of the deal in hand.
TypeInv ==
    /\ UsernameTypeOK
    /\ pc \in {"prepare", "fee", "offer", "record", "commit"} => Agreed(job.deal)
    /\ job.op = "claim" => Agreed(job.deal)
    /\ pc = "refresh" => job.op # "none"
    /\ pc \in Unjournalled => record = NoPurchase
    /\ pc \in Journalled => record \in Purchases

\* Where the operation in hand, and the one in the journal, has got to.
SendInv ==
    /\ pc \in {"refresh", "quote"} => job.send = NoOp
    /\ pc \in {"fee", "mark", "confirm"} => job.send \in Ops
    /\ pc \in {"fee", "commit", "mark", "confirm"} /\ job.send \in Ops =>
          saga[job.send] = "reserved"
    /\ pc \in {"mark", "confirm"} => record.op = job.send /\ ~record.submitted
    /\ pc = "confirm" => job.send \in marks
    /\ pc \in {"recover", "revoke"} => record.op \in Ops
    /\ pc \in {"claim", "answer"} => record.submitted
    /\ pc = "claim" /\ record.op \in Ops => saga[record.op] = "created"
    /\ pc = "remove" /\ record.op \in Ops =>
          saga[record.op] \notin {"reserved", "created"} /\ record.op \notin taken

\* Who has had an operation's token: a token that went out is spent, back, or the one of
\* the purchase in the journal.
LedgerInv ==
    /\ taken \subseteq sent
    /\ \A c \in claims : c.op \in sent \cup {NoOp}
    /\ \A o \in sent : saga[o] \in {"created", "returned", "finished"}
    /\ \A o \in Ops : saga[o] = "finished" => o \in taken
    /\ \A o \in taken : saga[o] \in {"created", "finished"}
    /\ record.op \in sent => record.submitted
    /\ \A o \in sent : o \in taken \/ saga[o] = "created" => record.op = o

PurchaseInv == TypeInv /\ SendInv /\ LedgerInv /\ NameTokenHidden

-----------------------------------------------------------------------------
(* Types *)

LEMMA NoJobType == NoJob \in Jobs /\ NoJob.op = "none" /\ NoJob.send = NoOp
  BY UsernameAssumption DEF NoJob, NoApproval, Jobs, Deals

LEMMA InitHolds == UsernameInit => PurchaseInv
  <1> SUFFICES ASSUME UsernameInit PROVE PurchaseInv
    OBVIOUS
  <1>1. TypeInv
    BY NoJobType DEF UsernameInit, TypeInv, UsernameTypeOK, Labels, Sagas, Unjournalled, Journalled
  <1>2. SendInv /\ LedgerInv /\ NameTokenHidden
    BY UsernameAssumption DEF UsernameInit, SendInv, LedgerInv, NameTokenHidden, NoPurchase
  <1> QED
    BY <1>1, <1>2 DEF PurchaseInv

\* A review fills in what is to be paid.
LEMMA DealEdited ==
    ASSUME job \in Jobs, selected \in Mints, NEW n \in Names, NEW p \in Prices, p \in Nat,
           job' = [job EXCEPT !.deal.name = n, !.deal.mint = selected,
                              !.deal.price = p, !.deal.maximum = p]
    PROVE  job' \in Jobs /\ job'.op = job.op /\ job'.deal.name = n /\ job'.deal.price = p
  <1> DEFINE d == [job.deal EXCEPT !.name = n, !.mint = selected, !.price = p, !.maximum = p]
  <1>1. job.deal \in Deals
    BY DEF Jobs
  <1>2. d \in Deals /\ d.name = n /\ d.price = p
    BY <1>1 DEF Deals
  <1>3. job' = [job EXCEPT !.deal = d]
    BY <1>1 DEF Jobs, Deals
  <1> HIDE DEF d
  <1>4. job' \in Jobs /\ job'.op = job.op /\ job'.deal = d
    BY <1>2, <1>3 DEF Jobs
  <1> QED
    BY <1>2, <1>4

LEMMA NextKeepsTypes ==
    ASSUME PurchaseInv, [UsernameNext]_usernameVars
    PROVE  TypeInv'
  <1> USE UsernameAssumption, NoJobType
      DEF PurchaseInv, TypeInv, UsernameTypeOK, Labels, Unjournalled, Journalled, Agreed,
          screen, ledger, provider, Return, Fails, Goto
  <1>1. CASE Status \/ Review \/ Retry \/ Reclaim
    BY <1>1 DEF Status, Review, Retry, Reclaim, Enter, Jobs, NoJob
  <1>2. CASE Claim
    <2>1. approval \in Approvals /\ approval \in Deals
      BY <1>2 DEF Claim, Approvals, Deals
    <2>2. [NoJob EXCEPT !.op = "claim", !.deal = approval] \in Jobs
      BY <2>1 DEF Jobs
    <2>3. Agreed(approval)
      BY <2>1 DEF Approvals
    <2>4. /\ job' \in Jobs
          /\ job'.op = "claim" => Agreed(job'.deal)
          /\ pc' = "refresh" => job'.op # "none"
          /\ pc' \in {"idle", "refresh"}
      BY <1>2, <2>2, <2>3 DEF Claim, NoJob
    <2> QED
      BY <1>2, <2>4 DEF Claim
  <1>3. CASE Open
    BY <1>3 DEF Open, RecoverSagas, Sagas
  <1>4. CASE Refresh
    <2>1. record' \in Purchases \cup {NoPurchase}
      BY <1>4 DEF Refresh, Purchases, NoPurchase
    <2>2. AfterRefresh(record') /\ UNCHANGED <<screen, marks, saga, provider>>
      BY <1>4 DEF Refresh
    <2>3. job.op \in {"status", "review", "claim", "retry", "reclaim"}
      BY <1>4 DEF Refresh, Jobs
    <2>4. /\ job' \in {job, NoJob}
          /\ pc' \in {"idle", "check", "quote", "lookup", "remove", "recover"}
          /\ pc' = "quote" => record' = NoPurchase
          /\ pc' \in {"lookup", "recover"} => record' # NoPurchase
      BY <2>2, <2>3 DEF AfterRefresh
    <2> QED
      BY <2>1, <2>2, <2>4
  <1>5. CASE RefreshFails
    BY <1>5 DEF RefreshFails
  <1>6. CASE Check
    BY <1>6 DEF Check, CheckSendStatus, Sagas
  <1>7. ASSUME NEW n \in Names, NEW p \in Prices, QuoteForReview(n, p) PROVE TypeInv'
    <2>1. /\ job' = [job EXCEPT !.deal.name = n, !.deal.mint = selected,
                                !.deal.price = p, !.deal.maximum = p]
          /\ pc' \in {"offer", "prepare"} /\ pc = "quote" /\ job \in Jobs /\ selected \in Mints
          /\ UNCHANGED <<screen, ledger, provider>>
      BY <1>7 DEF QuoteForReview
    <2>2. /\ job' \in Jobs /\ job'.op = job.op
          /\ job'.deal.name = n /\ job'.deal.price = p
      <3>1. p \in Nat
        OBVIOUS
      <3> HIDE DEF PurchaseInv, TypeInv, UsernameTypeOK
      <3> QED
        BY <2>1, <3>1, DealEdited
    <2> QED
      BY <2>1, <2>2
  <1>8. CASE CancelFee
    BY <1>8 DEF CancelFee, Jobs, Deals, Sagas
  <1>9. CASE Offer \/ QuoteForClaim
    BY <1>9 DEF Offer, QuoteForClaim
  <1>10. CASE RecordApproval
    BY <1>10 DEF RecordApproval, Jobs, Deals, Approvals
  <1>11. ASSUME NEW o \in Ops, NEW fee \in Fees, Prepare(o, fee) PROVE TypeInv'
    <2>1. job.deal \in Deals /\ job.deal.price + fee \in Nat
      BY <1>11 DEF Prepare, Jobs, Deals
    <2>2. job' \in Jobs /\ job'.deal = job.deal /\ job'.op = job.op
      BY <1>11, <2>1 DEF Prepare, Jobs
    <2> QED
      BY <1>11, <2>2 DEF Prepare, Sagas
  <1>12. CASE Commit
    BY <1>12 DEF Commit, NoPurchase, Purchases, Jobs
  <1>13. CASE CommitFails \/ ConfirmFails
    BY <1>13 DEF CommitFails, ConfirmFails, Release, Sagas
  <1>14. CASE Mark \/ Confirm
    BY <1>14 DEF Mark, Confirm, SendInv, Sagas
  <1>15. CASE Lookup
    <2>1. /\ pc' \in {"found", "claim"} /\ UNCHANGED <<job, marks, screen, provider>>
          /\ record' \in {record, [record EXCEPT !.submitted = TRUE]}
          /\ saga' \in {saga, [saga EXCEPT ![record.op] = "returned"]}
      BY <1>15 DEF Lookup, Revoke
    <2>2. record \in Purchases /\ record' \in Purchases
      BY <1>15, <2>1 DEF Lookup, Purchases
    <2> QED
      BY <2>1, <2>2 DEF Sagas
  <1>16. CASE SendClaim
    BY <1>16 DEF SendClaim, Purchases
  <1>17. CASE Answer \/ Settle
    BY <1>17 DEF Answer, Settle, Purchases
  <1>18. CASE Recover \/ TakeBack
    BY <1>18 DEF Recover, RecoverSagas, TakeBack, Revoke, Sagas
  <1>19. CASE Remove \/ StepFails \/ Restart
    BY <1>19 DEF Remove, StepFails, Restart
  <1>20. CASE Expire
    <2>1. approval' \in Approvals \cup {NoApproval}
      BY <1>20 DEF Expire, Approvals
    <2>2. job' \in Jobs /\ job'.op = job.op /\ (Agreed(job.deal) => Agreed(job'.deal))
      BY <1>20 DEF Expire, Jobs, Deals
    <2> QED
      BY <1>20, <2>1, <2>2 DEF Expire
  <1>21. CASE LockBegins \/ LockEnds \/ Unlock \/ Cancel \/ \E m \in Mints : SelectMint(m)
    <2>1. CASE LockEnds \/ Unlock \/ Cancel
      BY <2>1 DEF LockEnds, Unlock, Cancel
    <2>2. ASSUME VoidApprovals PROVE job' \in Jobs /\ job'.op = job.op /\ (Agreed(job.deal) => Agreed(job'.deal))
      BY <2>2 DEF VoidApprovals, Jobs, Deals
    <2>3. CASE LockBegins
      BY <2>2, <2>3 DEF LockBegins, VoidApprovals
    <2>4. ASSUME NEW m \in Mints, SelectMint(m) PROVE TypeInv'
      BY <2>2, <2>4 DEF SelectMint, VoidApprovals
    <2> QED
      BY <1>21, <2>1, <2>3, <2>4
  <1>22. ASSUME NEW c \in claims, NEW gives \in BOOLEAN, ProviderActs(c, gives) PROVE TypeInv'
    BY <1>22 DEF ProviderActs
  <1>23. CASE (\E c \in claims : ProviderRefuses(c)) \/ \E n \in Names : AcquiredElsewhere(n)
    BY <1>23 DEF ProviderRefuses, AcquiredElsewhere
  <1>24. CASE UNCHANGED usernameVars
    BY <1>24 DEF usernameVars
  <1> QED
    BY <1>1, <1>2, <1>3, <1>4, <1>5, <1>6, <1>7, <1>8, <1>9, <1>10, <1>11, <1>12, <1>13, <1>14,
       <1>15, <1>16, <1>17, <1>18, <1>19, <1>20, <1>21, <1>22, <1>23, <1>24 DEF UsernameNext

-----------------------------------------------------------------------------
(* The operation in hand *)

LEMMA NextKeepsSend ==
    ASSUME PurchaseInv, [UsernameNext]_usernameVars
    PROVE  SendInv'
  <1> USE UsernameAssumption, NoJobType
      DEF PurchaseInv, SendInv, TypeInv, UsernameTypeOK, Unjournalled, Journalled,
          screen, ledger, provider, Return, Fails, Goto
  <1>1. CASE Status \/ Review \/ Retry \/ Reclaim \/ Claim
    BY <1>1 DEF Status, Review, Retry, Reclaim, Enter, Claim, NoJob
  <1>2. CASE Open \/ Check \/ RefreshFails
    BY <1>2 DEF Open, Check, RefreshFails
  <1>3. CASE Refresh
    <2>1. record'.op = record.op \/ record'.op = NoOp
      BY <1>3 DEF Refresh, Purchases, NoPurchase
    <2>2. AfterRefresh(record') /\ pc = "refresh" /\ UNCHANGED <<screen, marks, saga, provider>>
      BY <1>3 DEF Refresh
    <2>3. job.op \in {"status", "review", "claim", "retry", "reclaim"}
      BY <1>3 DEF Refresh, Jobs
    <2>4. /\ pc' \in {"idle", "check", "quote", "lookup", "remove", "recover"}
          /\ pc' = "quote" => job'.send = NoOp
          /\ pc' = "remove" => record'.op = NoOp
          /\ pc' = "recover" => record'.op # NoOp
      BY <2>2, <2>3 DEF AfterRefresh
    <2>5. record' \in Purchases \cup {NoPurchase}
      BY NextKeepsTypes
    <2>6. record'.op \in Ops \cup {NoOp}
      BY <2>5 DEF Purchases, NoPurchase
    <2> QED
      BY <2>4, <2>6
  <1>4. CASE (\E n \in Names, p \in Prices : QuoteForReview(n, p)) \/ CancelFee \/ Offer \/ RecordApproval
    BY <1>4 DEF QuoteForReview, CancelFee, Offer, RecordApproval
  <1>5. CASE QuoteForClaim
    BY <1>5 DEF QuoteForClaim
  <1>6. ASSUME NEW o \in Ops, NEW fee \in Fees, Prepare(o, fee) PROVE SendInv'
    BY <1>6 DEF Prepare, Jobs
  <1>7. CASE Commit
    BY <1>7 DEF Commit, NoPurchase, Jobs
  <1>8. CASE CommitFails \/ ConfirmFails \/ Mark \/ Confirm
    BY <1>8 DEF CommitFails, ConfirmFails, Mark, Confirm
  <1>9. CASE Lookup
    BY <1>9 DEF Lookup, Purchases
  <1>10. CASE SendClaim \/ Answer \/ Settle \/ Remove \/ StepFails \/ Restart
    BY <1>10 DEF SendClaim, Answer, Settle, Remove, StepFails, Restart
  <1>11. CASE Recover
    BY <1>11 DEF Recover
  <1>12. CASE TakeBack
    BY <1>12 DEF TakeBack, Revoke, LedgerInv, Sagas
  <1>13. CASE Expire
    BY <1>13 DEF Expire, Jobs
  <1>14. CASE LockBegins \/ LockEnds \/ Unlock \/ Cancel \/ \E m \in Mints : SelectMint(m)
    BY <1>14 DEF LockBegins, LockEnds, Unlock, Cancel, SelectMint, VoidApprovals, Jobs
  <1>15. ASSUME NEW c \in claims, NEW gives \in BOOLEAN, ProviderActs(c, gives) PROVE SendInv'
    BY <1>15 DEF ProviderActs
  <1>16. CASE (\E c \in claims : ProviderRefuses(c)) \/ \E n \in Names : AcquiredElsewhere(n)
    BY <1>16 DEF ProviderRefuses, AcquiredElsewhere
  <1>17. CASE UNCHANGED usernameVars
    BY <1>17 DEF usernameVars
  <1> QED
    BY <1>1, <1>2, <1>3, <1>4, <1>5, <1>6, <1>7, <1>8, <1>9, <1>10, <1>11, <1>12, <1>13, <1>14,
       <1>15, <1>16, <1>17 DEF UsernameNext

-----------------------------------------------------------------------------
(* Who has had the tokens *)

LEMMA NextKeepsLedger ==
    ASSUME PurchaseInv, [UsernameNext]_usernameVars
    PROVE  LedgerInv' /\ NameTokenHidden'
  <1> USE UsernameAssumption
      DEF PurchaseInv, LedgerInv, NameTokenHidden, SendInv, TypeInv, UsernameTypeOK,
          Unjournalled, Journalled, screen, ledger, provider, Return, Fails, Goto
  <1>1. CASE UNCHANGED <<ledger, provider>>
    BY <1>1
  <1>2. CASE Open \/ Recover
    BY <1>2 DEF Open, Recover, RecoverSagas
  <1>3. CASE Refresh
    <2>1. CASE record = NoPurchase
      <3>1. record.op = NoOp /\ record'.op = NoOp
        BY <1>3, <2>1 DEF Refresh, NoPurchase
      <3> QED
        BY <1>3, <3>1 DEF Refresh
    <2>2. CASE record \in Purchases
      <3>1. record'.op = record.op /\ record'.submitted = record.submitted
        BY <1>3, <2>2 DEF Refresh, Purchases, NoPurchase
      <3> QED
        BY <1>3, <3>1 DEF Refresh
    <2> QED
      BY <2>1, <2>2
  <1>4. CASE Check
    BY <1>4 DEF Check, CheckSendStatus
  <1>5. CASE CancelFee
    BY <1>5 DEF CancelFee
  <1>6. ASSUME NEW o \in Ops, NEW fee \in Fees, Prepare(o, fee) PROVE LedgerInv' /\ NameTokenHidden'
    BY <1>6 DEF Prepare
  <1>7. CASE Commit
    BY <1>7 DEF Commit, NoPurchase
  <1>8. CASE CommitFails \/ ConfirmFails
    BY <1>8 DEF CommitFails, ConfirmFails, Release
  <1>9. CASE Mark \/ Confirm
    BY <1>9 DEF Mark, Confirm
  <1>10. CASE Lookup
    BY <1>10 DEF Lookup, Revoke, Purchases
  <1>11. CASE SendClaim
    BY <1>11 DEF SendClaim, Purchases
  <1>12. CASE Settle
    BY <1>12 DEF Settle, Purchases
  <1>13. CASE TakeBack
    BY <1>13 DEF TakeBack, Revoke
  <1>14. CASE Remove
    BY <1>14 DEF Remove, NoPurchase
  <1>15. ASSUME NEW c \in claims, NEW gives \in BOOLEAN, ProviderActs(c, gives)
         PROVE  LedgerInv' /\ NameTokenHidden'
    BY <1>15 DEF ProviderActs
  <1>16. CASE (\E c \in claims : ProviderRefuses(c)) \/ \E n \in Names : AcquiredElsewhere(n)
    BY <1>16 DEF ProviderRefuses, AcquiredElsewhere
  <1>17. CASE \/ Status \/ Review \/ Claim \/ Retry \/ Reclaim \/ RefreshFails
              \/ \E n \in Names, p \in Prices : QuoteForReview(n, p)
              \/ Offer \/ RecordApproval \/ QuoteForClaim \/ Answer \/ StepFails \/ Expire
              \/ LockBegins \/ LockEnds \/ Unlock \/ Cancel \/ Restart
              \/ \E m \in Mints : SelectMint(m)
              \/ UNCHANGED usernameVars
    BY <1>1, <1>17 DEF Status, Review, Claim, Retry, Reclaim, Enter, RefreshFails, QuoteForReview,
       Offer, RecordApproval, QuoteForClaim, Answer, StepFails, Expire, LockBegins, LockEnds,
       Unlock, Cancel, Restart, SelectMint, usernameVars
  <1> QED
    BY <1>2, <1>3, <1>4, <1>5, <1>6, <1>7, <1>8, <1>9, <1>10, <1>11, <1>12, <1>13, <1>14,
       <1>15, <1>16, <1>17 DEF UsernameNext

LEMMA Inductive == UsernameSpec => []PurchaseInv
  <1>1. PurchaseInv /\ [UsernameNext]_usernameVars => PurchaseInv'
    BY NextKeepsTypes, NextKeepsSend, NextKeepsLedger DEF PurchaseInv
  <1> QED
    BY <1>1, InitHolds, PTL DEF UsernameSpec

\* The purchase keeps its types, and a token bought for a name is marked as one, and so out
\* of pending_tokens, from before it exists (claim marks the operation, then confirms it).
THEOREM PurchaseTokensStayHidden == UsernameSpec => []UsernameInv
  <1>1. PurchaseInv => UsernameInv
    BY DEF PurchaseInv, TypeInv, UsernameInv
  <1> QED
    BY <1>1, Inductive, PTL

\* A token the provider may still redeem is the one in the journal, marked submitted,
\* whatever crash, lock, failed request or late answer came between.
THEOREM ExposedTokenIsJournalled == UsernameSpec => []SentTokenIsJournalled
  <1>1. PurchaseInv => SentTokenIsJournalled
    BY DEF PurchaseInv, LedgerInv, SentTokenIsJournalled, fundsOf
  <1> QED
    BY <1>1, Inductive, PTL

-----------------------------------------------------------------------------
(* The purchase implements Escrow *)

LEMMA FundsStep ==
    ASSUME PurchaseInv, PurchaseInv', [UsernameNext]_usernameVars
    PROVE  [E!EscrowNext]_fundsOf
  <1> USE UsernameAssumption
      DEF PurchaseInv, LedgerInv, SendInv, TypeInv, UsernameTypeOK,
          Unjournalled, Journalled, screen, ledger, provider, Return, Fails, Goto
  <1>1. ASSUME UNCHANGED <<taken, sent>>,
               \A o \in sent \ taken : saga[o] = "created" <=> saga'[o] = "created"
        PROVE  fundsOf' = fundsOf
    BY <1>1 DEF fundsOf
  <1> DEFINE Becomes(r, v) == \A o \in Ops : fundsOf'[o] = IF o = r THEN v ELSE fundsOf[o]
  <1>0. ASSUME NEW r \in Ops, NEW v, Becomes(r, v)
        PROVE  fundsOf' = [fundsOf EXCEPT ![r] = v]
    <2>1. fundsOf = [o \in Ops |-> fundsOf[o]] /\ fundsOf' = [o \in Ops |-> fundsOf'[o]]
      BY DEF fundsOf
    <2>2. [fundsOf EXCEPT ![r] = v] = [o \in Ops |-> IF o = r THEN v ELSE fundsOf[o]]
      BY <2>1, Zenon
    <2> HIDE DEF PurchaseInv, LedgerInv, SendInv, TypeInv
    <2> QED
      BY <1>0, <2>1, <2>2
  <1>2. CASE Open \/ Recover
    BY <1>1, <1>2 DEF Open, Recover, RecoverSagas
  <1>3. CASE Check
    BY <1>1, <1>3 DEF Check, CheckSendStatus
  <1>4. CASE CancelFee
    BY <1>1, <1>4 DEF CancelFee
  <1>5. CASE \E o \in Ops, fee \in Fees : Prepare(o, fee)
    BY <1>1, <1>5 DEF Prepare
  <1>6. CASE CommitFails \/ ConfirmFails \/ Confirm
    BY <1>1, <1>6 DEF CommitFails, ConfirmFails, Confirm, Release
  <1>7. CASE Lookup
    BY <1>1, <1>7 DEF Lookup, Revoke, Purchases
  <1>8. CASE SendClaim
    <2>1. CASE record.op \in sent \cup {NoOp}
      BY <1>1, <1>8, <2>1 DEF SendClaim
    <2>2. CASE record.op \in Ops \ sent
      <3>1. E!Expose(record.op)
        <4>1. fundsOf[record.op] = "mine"
          BY <2>2 DEF fundsOf
        <4>2. \A t \in Ops : fundsOf[t] \in {"mine", "back"}
          BY <2>2 DEF fundsOf
        <4>3. fundsOf' = [fundsOf EXCEPT ![record.op] = "exposed"]
          <5>1. record.op \in Ops
            BY <1>8, <2>2 DEF SendClaim
          <5>2. Becomes(record.op, "exposed")
            BY <1>8, <2>2 DEF SendClaim, fundsOf
          <5> HIDE DEF PurchaseInv, LedgerInv, SendInv, TypeInv, Becomes
          <5> QED
            BY <1>0, <5>1, <5>2
        <4> QED
          BY <4>1, <4>2, <4>3 DEF E!Expose, E!Mine
      <3> QED
        BY <2>2, <3>1 DEF E!EscrowNext
    <2> QED
      BY <1>8, <2>1, <2>2 DEF SendClaim, Purchases
  <1>9. CASE TakeBack
    <2>1. CASE record.op \in sent /\ Revoke(record.op)
      <3>1. fundsOf[record.op] = "exposed"
        BY <1>9, <2>1 DEF TakeBack, Revoke, fundsOf
      <3>2. fundsOf' = [fundsOf EXCEPT ![record.op] = "back"]
        <4>1. record.op \in Ops
          BY <1>9, <2>1 DEF TakeBack, Revoke
        <4>2. Becomes(record.op, "back")
          BY <1>9, <2>1 DEF TakeBack, Revoke, fundsOf
        <4> QED
          BY <1>0, <4>1, <4>2
      <3> QED
        BY <1>9, <3>1, <3>2 DEF TakeBack, E!GiveBack, E!EscrowNext
    <2>2. CASE ~(record.op \in sent /\ Revoke(record.op))
      BY <1>1, <1>9, <2>2 DEF TakeBack, Revoke
    <2> QED
      BY <2>1, <2>2
  <1>10. ASSUME NEW c \in claims, NEW gives \in BOOLEAN, ProviderActs(c, gives)
         PROVE  [E!EscrowNext]_fundsOf
    <2>1. CASE taken' = taken
      BY <1>1, <1>10, <2>1 DEF ProviderActs
    <2>2. CASE c.op \in Ops /\ saga[c.op] = "created" /\ c.op \notin taken
      <3>1. fundsOf[c.op] = "exposed"
        BY <2>2 DEF fundsOf
      <3>2. fundsOf' = [fundsOf EXCEPT ![c.op] = "paid"]
        <4>1. c.op \in Ops
          BY <1>10, <2>2 DEF ProviderActs
        <4>2. Becomes(c.op, "paid")
          BY <1>10, <2>2 DEF ProviderActs, fundsOf
        <4> QED
          BY <1>0, <4>1, <4>2
      <3> QED
        BY <2>2, <3>1, <3>2 DEF E!Take, E!EscrowNext
    <2>3. c.op \in Ops \cup {NoOp}
      OBVIOUS
    <2>4. CASE c.op = NoOp
      <3>1. taken' = taken \cup ({NoOp} \ {NoOp})
        BY <1>10, <2>4 DEF ProviderActs
      <3>2. taken' = taken
        BY ONLY <3>1
      <3> QED
        BY <2>1, <3>2
    <2>5. CASE ~(c.op = NoOp \/ (saga[c.op] = "created" /\ c.op \notin taken))
      BY <1>10, <2>1, <2>5 DEF ProviderActs
    <2> QED
      BY <2>2, <2>3, <2>4, <2>5
  <1>11. CASE UNCHANGED <<saga, taken, sent>>
    BY <1>1, <1>11
  <1>12. CASE \/ Status \/ Review \/ Claim \/ Retry \/ Reclaim \/ Refresh \/ RefreshFails
              \/ \E n \in Names, p \in Prices : QuoteForReview(n, p)
              \/ Offer \/ RecordApproval \/ QuoteForClaim \/ Commit \/ Mark \/ Answer \/ Settle
              \/ Remove \/ StepFails \/ Expire
              \/ LockBegins \/ LockEnds \/ Unlock \/ Cancel \/ Restart
              \/ \E m \in Mints : SelectMint(m)
              \/ \E c \in claims : ProviderRefuses(c)
              \/ \E n \in Names : AcquiredElsewhere(n)
              \/ UNCHANGED usernameVars
    BY <1>11, <1>12 DEF Status, Review, Claim, Retry, Reclaim, Enter, Refresh, RefreshFails,
       QuoteForReview, Offer, RecordApproval, QuoteForClaim, Commit, Mark, Answer, Settle, Remove,
       StepFails, Expire, LockBegins, LockEnds, Unlock, Cancel, Restart, SelectMint,
       ProviderRefuses, AcquiredElsewhere, usernameVars
  <1> QED
    BY <1>2, <1>3, <1>4, <1>5, <1>6, <1>7, <1>8, <1>9, <1>10, <1>12 DEF UsernameNext

\* The commands, with all their retries, reclaims, crashes and late answers, implement
\* Escrow: a token is handed to the provider only while no other one is out or spent, and
\* is paid once or comes back, never both.
THEOREM PurchaseImplementsEscrow == UsernameSpec => EscrowSpec
  <1>1. UsernameInit => E!EscrowInit
    BY DEF UsernameInit, E!EscrowInit, fundsOf
  <1>2. PurchaseInv /\ PurchaseInv' /\ [UsernameNext]_usernameVars => [E!EscrowNext]_fundsOf
    BY FundsStep
  <1> QED
    BY <1>1, <1>2, Inductive, PTL DEF UsernameSpec, EscrowSpec, E!EscrowSpec
=============================================================================
