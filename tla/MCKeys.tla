------------------------------- MODULE MCKeys -------------------------------
(* Instances of Keys for TLC. *)
EXTENDS Keys

CONSTANT Main   \* the account the commands are about

\* The others have their keys in a file already and are only ever unlocked with the
\* rest: what one account's failure does to them, and theirs to it.  forget_keychain and the
\* start of a listener have no variable in common and are not interleaved with each other.
UnlockInit == KeysInit /\ \A a \in Accounts \ {Main} : a \in owned /\ chain[a] = NoKey

UnlockNext ==
    \/ Unlock({}) \/ Unlock({Main}) \/ Create(Main) \/ Delete(Main)
    \/ CommandStep
    \/ LockBegins \/ LockMovesAuth \/ LockEmptiesVault \/ LockDropsPass
    \/ starter = NoStarter /\ (ForgetBegins \/ ForgetUnread)
    \/ \E a \in Accounts : ForgetOne(a)
    \/ forgetting = {} /\ SetRelays(Main)
    \/ StarterListens \/ StarterNotes
    \/ \E c \in starter.todo : LaunchNext(c)
    \/ Restart

UnlockSpec == UnlockInit /\ [][UnlockNext]_keysVars

\* The recovery of one account, with crashes, once the launch is over and with no other
\* command about.
RecoveryNext ==
    \/ starter = NoStarter /\ (Unlock({Main}) \/ Create(Main))
    \/ CommandStep
    \/ StarterListens \/ StarterNotes
    \/ \E c \in starter.todo : LaunchNext(c)
    \/ Restart

RecoverySpec == KeysInit /\ [][RecoveryNext]_keysVars

\* forget_keychain beside unlocks that migrate.
ForgetNext ==
    \/ Unlock({}) \/ CommandStep
    \/ ForgetBegins \/ ForgetUnread \/ \E a \in Accounts : ForgetOne(a)
    \/ Restart

ForgetSpec == KeysInit /\ [][ForgetNext]_keysVars
=============================================================================
