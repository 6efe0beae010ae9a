------------------------------ MODULE MCSession ------------------------------
(* Instances of Session for TLC: the requests that exist on the relays. *)
EXTENDS Session, TLC

CONSTANT SignOne   \* the kind of event clients ask to have signed

RequestTo(a, p, i, t, s) ==
    [to |-> a, sender |-> p, id |-> i, type |-> t,
     scope |-> Scope(SignEvent, SignOne),
     secret |-> s, signer |-> a]

AnySecret == CHOOSE s \in Secrets : TRUE
AnId == CHOOSE i \in RequestIds : TRUE

SignRequests == {RequestTo(a, p, i, "op", AnySecret) : a \in Accounts, p \in PubKeys, i \in RequestIds}
ConnectRequests == {RequestTo(a, p, AnId, "connect", s) : a \in Accounts, p \in PubKeys, s \in Secrets}
OddRequests == {RequestTo(a, p, AnId, t, AnySecret) : a \in Accounts, p \in PubKeys, t \in {"ping", "invalid", "other"}}

\* Everything a client may send.
AllRequests == SignRequests \cup ConnectRequests \cup OddRequests

\* A later start of the app: every client has paired, its pairing is pruned.
PairedInit ==
    /\ grants = LET id == CHOOSE f \in [Clients -> PairingIds] :
                              \A c, d \in Clients : f[c] = f[d] => c = d
                IN {[id |-> id[c], client |-> c] : c \in Clients}
    /\ consumed = {g.id : g \in grants} /\ issued = consumed
    /\ known = Clients
    /\ revoked = {} /\ removed = {} /\ allowAll = {} /\ denyAll = {}
    /\ rules = [c \in Clients |-> NoRules]
    /\ activity = {} /\ pairings = {} /\ expired = {}
    /\ SessionInit

-----------------------------------------------------------------------------
\* The consent slice: every command on a client, a new pairing included,
\* against one listener.
ConsentNext ==
    \/ \E a \in Accounts, r \in Requests : Receive(a, r)
    \/ \E w \in Accounts : Worker(w)
    \/ ReplayLoop
    \/ \E accounts \in {Accounts} : Unlock(accounts)
    \/ Lock
    \/ \E c \in Clients : Command(c)
    \/ \E row \in activity : AllowActivity(row)
    \/ \E a \in Accounts : PairBunker(a)
    \/ AnswerGoesStale
    \/ Restart

ConsentSpec == PairedInit /\ [][ConsentNext]_vars

-----------------------------------------------------------------------------
\* The pairing slice: connect requests only, from every worker at once.
PairingNext ==
    \/ \E a \in Accounts, r \in Requests : Receive(a, r)
    \/ \E w \in Workers : Step(w)
    \/ ReplayLoop
    \/ PairCommand
    \/ Unlock(Accounts)
    \/ Lock
    \/ \E a \in Accounts : PairBunker(a)
    \/ \E a \in Accounts, p \in PubKeys, s \in Secrets : PairClient(a, p, s)
    \/ \E i \in PairingIds : PairingTimesOut(i)
    \/ Restart

PairingSpec == Init /\ [][PairingNext]_vars

\* Keys are interchangeable here: no request or definition picks one.
KeySymmetry == Permutations(PubKeys)

-----------------------------------------------------------------------------
\* The worker slice: listeners and the replay loop competing for the gate.
WorkerNext ==
    \/ \E a \in Accounts, r \in Requests : Receive(a, r)
    \/ \E w \in Workers : Worker(w)
    \/ ReplayLoop
    \/ \E accounts \in {Accounts} \cup {{a} : a \in Accounts} : Unlock(accounts)
    \/ Lock
    \/ \E a \in Accounts : SetRelays(a)
    \/ DeferredGoesStale \/ ReplayGoesStale \/ AnswerGoesStale

WorkerSpec == PairedInit /\ [][WorkerNext]_vars
FairWorkerSpec == WorkerSpec /\ Fairness
=============================================================================
