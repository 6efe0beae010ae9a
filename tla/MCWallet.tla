------------------------------ MODULE MCWallet ------------------------------
(* Instances of Wallet for TLC. *)
EXTENDS Wallet, TLC

\* Handles, tasks and mints are interchangeable: no definition picks one of them.
WalletSymmetry == Permutations(Handles) \cup Permutations(Tasks) \cup Permutations(Mints)

\* Token sends and zaps against the lock command, mint selection and the clock.  A
\* zap's review is wallet_review's with a lookup before it; crashes are in MCNwc.
SpendNext ==
    \/ \E t \in Tasks : EnterGate(t) \/ TaskStep(t)
    \/ \E t \in Tasks, a \in Accounts : WindowReview(t, a, Token) \/ WindowZap(t, a)
    \/ \E t \in Tasks, a \in Accounts, r \in Shown : WindowPay(t, a, r)
    \/ \E t \in Tasks, a \in Accounts, m \in Mints, op \in {"setmint", "select"} :
          WindowSelect(t, a, m, op)
    \/ \E a \in Accounts : Cancel(a) \/ UnlockAccount(a)
    \/ LockCommand
    \/ Tick

SpendSpec == WalletInit /\ [][SpendNext]_walletVars
=============================================================================
