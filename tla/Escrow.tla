------------------------------- MODULE Escrow -------------------------------
(***************************************************************************)
(* What the username purchase promises about money (the module comment and *)
(* the journal comment of src-tauri/src/wallet/username.rs), with nothing  *)
(* of how: a sum leaves the wallet for a name only while no other sum is   *)
(* out or spent, and it is paid once or comes back, never both.            *)
(***************************************************************************)
CONSTANT Sums
VARIABLE funds

Mine(s) == funds[s] = "mine"

EscrowInit == funds = [s \in Sums |-> "mine"]

\* The provider is handed the sum, for the first time.
Expose(s) ==
    /\ Mine(s)
    /\ \A t \in Sums : funds[t] \in {"mine", "back"}
    /\ funds' = [funds EXCEPT ![s] = "exposed"]

Take(s) == funds[s] = "exposed" /\ funds' = [funds EXCEPT ![s] = "paid"]

GiveBack(s) == funds[s] = "exposed" /\ funds' = [funds EXCEPT ![s] = "back"]

EscrowNext == \E s \in Sums : Expose(s) \/ Take(s) \/ GiveBack(s)

EscrowSpec == EscrowInit /\ [][EscrowNext]_funds
=============================================================================
