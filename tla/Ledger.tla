------------------------------- MODULE Ledger -------------------------------
(***************************************************************************)
(* What the wallet connect service promises about the invoices apps ask it *)
(* to pay (table payments of nwc/store.rs), with nothing of how: an invoice*)
(* is claimed before it is paid, it is paid once, and neither is ever      *)
(* forgotten, whoever asks again and wherever the app dies.                *)
(***************************************************************************)
EXTENDS Naturals

CONSTANT Bills
VARIABLES
    bill,     \* what has become of each invoice of an account
    spends    \* how many payments apps were the cause of

ledgerVars == <<bill, spends>>

LedgerInit == bill = [b \in Bills |-> "free"] /\ spends = 0

ClaimBill(b) ==
    /\ bill[b] = "free"
    /\ bill' = [bill EXCEPT ![b] = "claimed"]
    /\ UNCHANGED spends

PayBill(b) ==
    /\ bill[b] = "claimed"
    /\ bill' = [bill EXCEPT ![b] = "paid"]
    /\ spends' = spends + 1

LedgerNext == \E b \in Bills : ClaimBill(b) \/ PayBill(b)

LedgerSpec == LedgerInit /\ [][LedgerNext]_ledgerVars
=============================================================================
