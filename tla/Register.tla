------------------------------ MODULE Register ------------------------------
(***************************************************************************)
(* What the wallet promises about approvals (record_review, pay_reviewed,  *)
(* wallet_send_token and WalletService::lock of src-tauri/src/wallet.rs),  *)
(* with nothing of how: a handle is open from its review until it is spent *)
(* or void, it is spent once, and a lock voids every open one in a single  *)
(* instant, though the code clears the maps later and beside the gate.     *)
(***************************************************************************)
EXTENDS Naturals

CONSTANT Handles
VARIABLES
    handle,   \* what each handle is good for
    epoch,    \* moves with every lock
    spends    \* how many spends there were

registerVars == <<handle, epoch, spends>>

States == {"unused", "open", "void", "spent"}

RegisterInit ==
    /\ handle = [h \in Handles |-> "unused"]
    /\ epoch = 0 /\ spends = 0

\* From f to g, open handles of hs may lapse: cancelled, expired, replaced, taken in vain.
MayLapse(f, g, hs) ==
    /\ g \in [Handles -> States]
    /\ \A h \in hs : g[h] = f[h] \/ (f[h] = "open" /\ g[h] = "void")

Lapse == UNCHANGED <<epoch, spends>> /\ MayLapse(handle, handle', Handles)

\* A new handle, for the first time.  One whose review a lock overtook is void at once.
Issue(i) ==
    /\ handle[i] = "unused"
    /\ MayLapse(handle, handle', Handles \ {i})
    /\ handle'[i] \in {"open", "void"}
    /\ UNCHANGED <<epoch, spends>>

Spend(i) ==
    /\ handle[i] = "open"
    /\ handle' = [handle EXCEPT ![i] = "spent"]
    /\ spends' = spends + 1
    /\ UNCHANGED epoch

Lock ==
    /\ epoch' # epoch
    /\ handle' = [h \in Handles |-> IF handle[h] = "open" THEN "void" ELSE handle[h]]
    /\ UNCHANGED spends

RegisterNext == Lapse \/ Lock \/ \E i \in Handles : Issue(i) \/ Spend(i)

RegisterSpec == RegisterInit /\ [][RegisterNext]_registerVars
=============================================================================
