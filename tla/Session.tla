------------------------------- MODULE Session -------------------------------
(***************************************************************************)
(* The NIP-46 request loop (crates/signer-core/src/session.rs) with the    *)
(* tasks that drive it (runner.rs): one listener per account, the replay   *)
(* of deferred requests after an unlock, and the pair_client command.      *)
(*                                                                         *)
(* All of them run Session::handle or Session::connect concurrently over   *)
(* one store, one vault and one prompt gate.  A worker's pc moves at every *)
(* await and at every call into the store, the vault or a shared map, so   *)
(* the other workers and the user's commands interleave there.             *)
(***************************************************************************)
EXTENDS ClientStore, Naturals, Sequences

CONSTANTS
    Requests,     \* the signed events that exist on the relays
    RequestIds,   \* ids clients give their requests
    NoId,         \* the id of a request the signer answers unasked
    Replayer,     \* Runner::replay_deferred, run by the unlock command
    Pairer,       \* the pair_client command
    NoWorker,
    MaxDeferred   \* bound: a locked signer takes no event beyond this many

\* What an envelope holds once opened.  "other" is not a request at all;
\* "invalid" is a request whose parameters do not parse.
RequestType ==
    [to : Accounts, sender : PubKeys, id : RequestIds \cup {NoId},
     type : {"connect", "ping", "op", "invalid", "other"},
     scope : RequestScopes, secret : Secrets, signer : Accounts]

Workers == Accounts \cup {Replayer, Pairer}

ASSUME SessionAssumption ==
    /\ Requests \subseteq RequestType
    /\ Replayer # Pairer
    /\ {Replayer, Pairer, NoWorker} \cap Accounts = {}
    /\ NoWorker \notin {Replayer, Pairer}
    /\ NoId \notin RequestIds

VARIABLES
    vault,      \* accounts whose keys are loaded
    pc,         \* where each worker is
    job,        \* what each worker is working on
    gate,       \* who holds prompt_gate
    deferred,   \* Session::deferred, oldest first
    answered,   \* Session::answered, without the entries past replay_window
    replay,     \* what replay_deferred has still to handle
    replayFor,  \* the accounts the running unlock was for
    served,     \* history: operations carried out with an account's keys
    published   \* history: whose connection an answer left on, and who sealed it

sessionVars ==
    <<vault, pc, job, gate, deferred, answered, replay, replayFor, served, published>>
vars == <<storeVars, sessionVars>>

Labels ==
    {"idle", "take", "next", "defer", "open", "cache", "dispatch", "consume",
     "upsert", "authorize", "gate", "prompt", "execute", "seal", "answer", "relays", "accept"}

Results == {"none", "ok", "error"}

Jobs ==
    [account : Accounts, req : RequestType, result : Results,
     pairing : PairingIds \cup {NoId},
     barred : BOOLEAN]  \* history: the sender was revoked when the request came in

NoJob == [account |-> NoWorker]

Client(w) == <<job[w].account, job[w].req.sender>>

Held == [account : Accounts, req : RequestType]
Replayed == [account : Accounts, req : RequestType, fresh : BOOLEAN]
AnswerKeys == [sender : PubKeys, id : RequestIds \cup {NoId}, sealer : Accounts]

SessionTypeOK ==
    /\ StoreTypeOK
    /\ vault \subseteq Accounts
    /\ pc \in [Workers -> Labels]
    /\ job \in [Workers -> Jobs \cup {NoJob}]
    /\ gate \in Workers \cup {NoWorker}
    /\ deferred \in Seq(Held)
    /\ answered \subseteq AnswerKeys
    /\ replay \in Seq(Replayed)
    /\ replayFor \subseteq Accounts
    /\ served \subseteq [client : Clients, scope : RequestScopes, barred : BOOLEAN]
    /\ published \subseteq [by : Accounts, sealer : Accounts]

SessionInit ==
    /\ vault = {}
    /\ pc = [w \in Workers |-> "idle"]
    /\ job = [w \in Workers |-> NoJob]
    /\ gate = NoWorker
    /\ deferred = <<>> /\ answered = {}
    /\ replay = <<>> /\ replayFor = {}
    /\ served = {} /\ published = {}

Init == StoreInit /\ SessionInit

-----------------------------------------------------------------------------
(* Moving a worker *)

\* Where a worker goes when handle returns: a listener waits for the next
\* event, the replay loop takes the next deferred one.
Home(w) == IF w = Replayer THEN "next" ELSE "idle"

Return(w) ==
    /\ pc' = [pc EXCEPT ![w] = Home(w)]
    /\ job' = [job EXCEPT ![w] = NoJob]

Goto(w, label) ==
    /\ pc' = [pc EXCEPT ![w] = label]
    /\ UNCHANGED job

\* dispatch came back: Ok(result) or Err(error), both of which are sealed.
Settle(w, result) ==
    /\ pc' = [pc EXCEPT ![w] = "seal"]
    /\ job' = [job EXCEPT ![w].result = result]

Begin(w, a, r, label) ==
    /\ pc' = [pc EXCEPT ![w] = label]
    /\ job' = [job EXCEPT ![w] = [account |-> a, req |-> r, result |-> "none",
                                  pairing |-> NoId, barred |-> <<a, r.sender>> \in revoked]]

QueueVars == <<deferred, replay, replayFor>>
HistoryVars == <<served, published>>
Rest == <<vault, gate, answered, QueueVars, HistoryVars>>

-----------------------------------------------------------------------------
(* Session::handle *)

\* vault.holds, read once before the first await.
Handle(w, a, r) == Begin(w, a, r, IF a \in vault THEN "open" ELSE "defer")

\* Events that are deferred, or will be if the keys are not there.
Backlog ==
    Len(deferred) + Len(replay)
        + Cardinality({w \in Workers : pc[w] = "defer" \/ (w = Replayer /\ job[w] # NoJob)})

\* A relay hands the listener an event.  Relays redeliver, reorder and lose:
\* any event may come at any time, any number of times.
Receive(a, r) ==
    /\ pc[a] = "idle"
    /\ a \in vault \/ Backlog < MaxDeferred
    /\ Handle(a, a, r)
    /\ UNCHANGED <<storeVars, Rest>>

\* Entries past request_timeout are dropped here and in take_deferred; the
\* model drops them when they go stale (DeferredGoesStale).
Defer(w) ==
    /\ pc[w] = "defer"
    /\ deferred' = Append(deferred, [account |-> job[w].account, req |-> job[w].req])
    /\ Return(w)
    /\ UNCHANGED <<storeVars, vault, gate, answered, replay, replayFor, HistoryVars>>

\* open_envelope and the parse of its plaintext: silence unless this account's
\* key opens it and a request is inside.
Open(w) ==
    /\ pc[w] = "open"
    /\ IF /\ job[w].account \in vault
          /\ job[w].req.to = job[w].account
          /\ job[w].req.type # "other"
       THEN Goto(w, "cache")
       ELSE Return(w)
    /\ UNCHANGED <<storeVars, Rest>>

\* The answer leaves on the connections of the account whose loop this is.
Publish(w, sealer) ==
    published' = published \cup {[by |-> job[w].account, sealer |-> sealer]}

CacheHit(w) ==
    /\ pc[w] = "cache"
    /\ \E e \in answered :
          /\ e.sender = job[w].req.sender
          /\ e.id = job[w].req.id
          /\ Publish(w, e.sealer)
    /\ Return(w)
    /\ UNCHANGED <<storeVars, vault, gate, answered, QueueVars, served>>

CacheMiss(w) ==
    /\ pc[w] = "cache"
    /\ ~\E e \in answered : e.sender = job[w].req.sender /\ e.id = job[w].req.id
    /\ Goto(w, "dispatch")
    /\ UNCHANGED <<storeVars, Rest>>

\* seal_envelope needs the account's keys: a lock since then means silence.
Seal(w) ==
    /\ pc[w] = "seal"
    /\ IF job[w].account \in vault THEN Goto(w, "answer") ELSE Return(w)
    /\ UNCHANGED <<storeVars, Rest>>

\* remember_answer (a map insert: the newest answer for the key stays), then
\* publish, with no await between the two.  pair_client's acknowledgement is not
\* remembered.
Answer(w) ==
    /\ pc[w] = "answer"
    /\ answered' =
          IF w = Pairer THEN answered
          ELSE {e \in answered : <<e.sender, e.id>> # <<job[w].req.sender, job[w].req.id>>}
                  \cup {[sender |-> job[w].req.sender, id |-> job[w].req.id,
                         sealer |-> job[w].account]}
    /\ Publish(w, job[w].account)
    /\ Return(w)
    /\ UNCHANGED <<storeVars, vault, gate, QueueVars, served>>

-----------------------------------------------------------------------------
(* Session::dispatch *)

\* record_refusal notes the method, never the kind.
Refuse(w) ==
    /\ Settle(w, "error")
    /\ IF Client(w) \in known
       THEN RecordActivity(Client(w), Wide(job[w].req.scope), "refused")
       ELSE UNCHANGED activity

DispatchRefused(w) ==
    /\ pc[w] = "dispatch"
    /\ \/ job[w].req.type = "invalid"
       \/ job[w].req.type \in {"ping", "op"} /\ Client(w) \notin known \ revoked
    /\ Refuse(w)
    /\ UNCHANGED <<clientVars, pairingVars, Rest>>

DispatchPing(w) ==
    /\ pc[w] = "dispatch"
    /\ job[w].req.type = "ping" /\ Client(w) \in known \ revoked
    /\ Settle(w, "ok")
    /\ UNCHANGED <<storeVars, Rest>>

\* Mutant: any client with a row may ask.
DispatchForKnown(w) ==
    /\ pc[w] = "dispatch"
    /\ job[w].req.type = "op" /\ Client(w) \in known
    /\ Goto(w, "authorize")
    /\ UNCHANGED <<storeVars, Rest>>

DispatchOperation(w) ==
    /\ pc[w] = "dispatch"
    /\ job[w].req.type = "op" /\ Client(w) \in known \ revoked
    /\ Goto(w, "authorize")
    /\ UNCHANGED <<storeVars, Rest>>

-----------------------------------------------------------------------------
(* Session::connect *)

\* A refused connect is answered with an error by handle, and simply fails the
\* pair_client command.
ConnectFails(w) == IF w = Pairer THEN Return(w) ELSE Settle(w, "error")

\* Mutant: a nostrconnect:// pairing is not held to the client it names.
AdmitsAnyClient(row, j) ==
    /\ j.req.signer = j.account
    /\ row.account = j.account

\* The checks of connect on the row usable_pairing gave it.
Admits(row, j) ==
    /\ j.req.signer = j.account
    /\ row.account = j.account
    /\ row.client \in {NoKey, j.req.sender}

ConnectFindsPairing(w) ==
    /\ pc[w] = "dispatch" /\ job[w].req.type = "connect"
    /\ \E row \in UsablePairings(job[w].req.secret) :
          /\ Admits(row, job[w])
          /\ job' = [job EXCEPT ![w].pairing = row.id]
    /\ pc' = [pc EXCEPT ![w] = "consume"]
    /\ UNCHANGED <<storeVars, Rest>>

\* Mutant: a connect the row does not admit deletes it.
RefusalBurnsPairing(w) ==
    /\ pc[w] = "dispatch" /\ job[w].req.type = "connect"
    /\ LET usable == UsablePairings(job[w].req.secret)
       IN /\ usable = {} \/ \E row \in usable : ~Admits(row, job[w])
          /\ pairings' = pairings \ usable
    /\ ConnectFails(w)
    /\ UNCHANGED <<clientVars, activity, consumed, expired, issued, grants, Rest>>

ConnectRefused(w) ==
    /\ pc[w] = "dispatch" /\ job[w].req.type = "connect"
    /\ LET usable == UsablePairings(job[w].req.secret)
       IN usable = {} \/ \E row \in usable : ~Admits(row, job[w])
    /\ ConnectFails(w)
    /\ UNCHANGED <<storeVars, Rest>>

\* Mutant: connect ignores what consume_pairing returns.
ConsumeUnchecked(w) ==
    /\ pc[w] = "consume"
    /\ \/ ConsumePairing(job[w].pairing, Client(w))
       \/ job[w].pairing \in consumed /\ UNCHANGED pairingVars
    /\ Goto(w, "upsert")
    /\ UNCHANGED <<clientVars, activity, Rest>>

\* consume_pairing: loses to a connect that consumed the row since the lookup.
Consume(w) ==
    /\ pc[w] = "consume"
    /\ \/ /\ ConsumePairing(job[w].pairing, Client(w))
          /\ Goto(w, "upsert")
       \/ /\ job[w].pairing \in consumed
          /\ ConnectFails(w)
          /\ UNCHANGED pairingVars
    /\ UNCHANGED <<clientVars, activity, Rest>>

\* The activity row that connect writes is left out: connect is never authorized,
\* so no rule made from that row is ever consulted.
Upsert(w) ==
    /\ pc[w] = "upsert"
    /\ UpsertClient(Client(w))
    /\ Settle(w, "ok")
    /\ UNCHANGED <<activity, pairingVars, Rest>>

-----------------------------------------------------------------------------
(* Session::authorize, prompt and execute *)

\* Mutant: a request a rule allows is not logged.
AuthorizeUnlogged(w) ==
    /\ pc[w] = "authorize"
    /\ LET outcome == Evaluate(PolicySet(Client(w)), job[w].req.scope)
       IN \/ outcome = "allow" /\ Goto(w, "execute")
          \/ outcome = "deny" /\ Settle(w, "error")
          \/ outcome = "prompt" /\ Goto(w, "gate")
    /\ UNCHANGED <<storeVars, Rest>>

Authorize(w) ==
    /\ pc[w] = "authorize"
    /\ LET outcome == Evaluate(PolicySet(Client(w)), job[w].req.scope)
       IN \/ /\ outcome = "allow"
             /\ RecordActivity(Client(w), job[w].req.scope, "allowed")
             /\ Goto(w, "execute")
          \/ /\ outcome = "deny"
             /\ RecordActivity(Client(w), job[w].req.scope, "refused")
             /\ Settle(w, "error")
          \/ /\ outcome = "prompt"
             /\ Goto(w, "gate")
             /\ UNCHANGED activity
    /\ UNCHANGED <<clientVars, pairingVars, Rest>>

\* prompt_gate.lock().await; the 60 second timer starts after it.
EnterGate(w) ==
    /\ pc[w] = "gate" /\ gate = NoWorker
    /\ gate' = w
    /\ Goto(w, "prompt")
    /\ UNCHANGED <<storeVars, vault, answered, QueueVars, HistoryVars>>

\* The user answers: an "always" or "never" becomes a rule, the answer is logged.
UserAnswers(w, decision, remember) ==
    /\ pc[w] = "prompt"
    /\ IF remember THEN SetRule(Client(w), job[w].req.scope, decision)
                   ELSE UNCHANGED clientVars
    /\ RecordActivity(Client(w), job[w].req.scope,
                      IF decision = "allow" THEN "allowed" ELSE "refused")
    /\ IF decision = "allow" THEN Goto(w, "execute") ELSE Settle(w, "error")
    /\ gate' = NoWorker
    /\ UNCHANGED <<pairingVars, vault, answered, QueueVars, HistoryVars>>

\* Mutant: only a listener's prompt is timed, not one of the replay loop.
PromptEndsForListeners(w) ==
    /\ pc[w] = "prompt" /\ w \in Accounts
    /\ RecordActivity(Client(w), job[w].req.scope, "refused")
    /\ Settle(w, "error")
    /\ gate' = NoWorker
    /\ UNCHANGED <<clientVars, pairingVars, vault, answered, QueueVars, HistoryVars>>

\* The prompt times out, or its channel closes under it.
PromptEnds(w) ==
    /\ pc[w] = "prompt"
    /\ RecordActivity(Client(w), job[w].req.scope, "refused")
    /\ Settle(w, "error")
    /\ gate' = NoWorker
    /\ UNCHANGED <<clientVars, pairingVars, vault, answered, QueueVars, HistoryVars>>

\* Every operation asks the vault, which fails once it is locked.
Execute(w) ==
    /\ pc[w] = "execute"
    /\ IF job[w].account \in vault
       THEN /\ served' = served \cup {[client |-> Client(w), scope |-> job[w].req.scope,
                                       barred |-> job[w].barred]}
            /\ Settle(w, "ok")
       ELSE Settle(w, "error") /\ UNCHANGED served
    /\ UNCHANGED <<storeVars, vault, gate, answered, QueueVars, published>>

-----------------------------------------------------------------------------
(* Unlocking, the replay of deferred requests, locking *)

\* The unlock command loads the keys of one account or of all, then replays.
\* It holds the wallet gate throughout, so there is one replay at a time.
Unlock(accounts) ==
    /\ pc[Replayer] = "idle"
    /\ vault' = vault \cup accounts
    /\ replayFor' = accounts
    /\ Goto(Replayer, "take")
    /\ UNCHANGED <<storeVars, gate, deferred, answered, replay, HistoryVars>>

\* take_deferred drains the entries of every account.
TakeDeferred ==
    /\ pc[Replayer] = "take"
    /\ replay' = [i \in 1..Len(deferred) |->
                    [account |-> deferred[i].account, req |-> deferred[i].req, fresh |-> TRUE]]
    /\ deferred' = <<>>
    /\ Goto(Replayer, "next")
    /\ UNCHANGED <<storeVars, vault, gate, answered, replayFor, HistoryVars>>

\* One turn of the replay loop; an entry of another account is skipped.
ReplayNext ==
    /\ pc[Replayer] = "next" /\ replay # <<>>
    /\ replay' = Tail(replay)
    /\ IF Head(replay).account \in replayFor
       THEN Handle(Replayer, Head(replay).account, Head(replay).req)
       ELSE UNCHANGED <<pc, job>>
    /\ UNCHANGED <<storeVars, vault, gate, deferred, answered, replayFor, HistoryVars>>

ReplayDone ==
    /\ pc[Replayer] = "next" /\ replay = <<>>
    /\ replayFor' = {}
    /\ Goto(Replayer, "idle")
    /\ UNCHANGED <<storeVars, vault, gate, deferred, answered, replay, HistoryVars>>

\* The lock command takes no gate: it can come at any point.
Lock ==
    /\ vault' = {}
    /\ UNCHANGED <<storeVars, pc, job, gate, answered, QueueVars, HistoryVars>>

-----------------------------------------------------------------------------
(* pair_client, and replacing a listener *)

\* Mutant: an aborted listener keeps the gate.
AbortKeepsGate(a) ==
    /\ pc[a] \in {"idle", "defer", "cache", "gate", "prompt", "answer"}
    /\ UNCHANGED gate

\* Runner::start aborts the account's task, which takes effect at an await: the
\* guards it holds are dropped, what it was doing is lost.
AbortListener(a) ==
    /\ pc[a] \in {"idle", "defer", "cache", "gate", "prompt", "answer"}
    /\ gate' = IF gate = a THEN NoWorker ELSE gate

\* The set_relays command restarts the listener of an unlocked account.
SetRelays(a) ==
    /\ a \in vault
    /\ pc[a] # "idle"
    /\ AbortListener(a)
    /\ Return(a)
    /\ UNCHANGED <<storeVars, vault, answered, QueueVars, HistoryVars>>

\* Refused while locked, before anything is written.
PairClient(a, p, s) ==
    /\ pc[Pairer] = "idle"
    /\ a \in vault
    /\ AcceptClientUri(a, p, s)
    /\ Begin(Pairer, a,
             [to |-> a, sender |-> p, id |-> NoId, type |-> "connect", secret |-> s,
              signer |-> a, scope |-> CHOOSE x \in RequestScopes : TRUE], "relays")
    /\ UNCHANGED <<clientVars, activity, Rest>>

\* The client's relays are new to the account: its listener is restarted, unless
\* the signer was locked since.
PairAddsRelays ==
    /\ pc[Pairer] = "relays"
    /\ LET a == job[Pairer].account
       IN IF a \in vault
          THEN /\ AbortListener(a)
               /\ pc' = [pc EXCEPT ![a] = "idle", ![Pairer] = "accept"]
               /\ job' = [job EXCEPT ![a] = NoJob]
          ELSE Goto(Pairer, "accept") /\ UNCHANGED gate
    /\ UNCHANGED <<storeVars, vault, answered, QueueVars, HistoryVars>>

PairAddsNoRelay ==
    /\ pc[Pairer] = "relays"
    /\ Goto(Pairer, "accept")
    /\ UNCHANGED <<storeVars, Rest>>

\* accept_pairing: no keys, no answer; otherwise connect on the client's behalf.
AcceptPairing ==
    /\ pc[Pairer] = "accept"
    /\ IF job[Pairer].account \in vault THEN Goto(Pairer, "dispatch") ELSE Return(Pairer)
    /\ UNCHANGED <<storeVars, Rest>>

-----------------------------------------------------------------------------
(* The user's commands, time, and the process itself *)

Command(c) ==
    /\ \/ \E allow \in BOOLEAN : (allow => c[1] \in vault) /\ SetClientAllowAll(c, allow)
       \/ DenyClientActions(c)
       \/ ForgetClientRules(c)
       \/ RevokeClient(c)
       \/ RemoveClient(c)
       \/ \E s \in RuleScopes, d \in Decisions : SetRule(c, s, d)
       \/ \E s \in RuleScopes : ClearRule(c, s)
    /\ UNCHANGED <<activity, pairingVars, sessionVars>>

AllowActivity(row) ==
    /\ row.client[1] \in vault
    /\ RememberActivity(row)
    /\ UNCHANGED <<activity, pairingVars, sessionVars>>

PairBunker(a) ==
    /\ a \in vault
    /\ MintBunkerUri(a)
    /\ UNCHANGED <<clientVars, activity, sessionVars>>

PairingTimesOut(i) ==
    /\ PairingExpires(i)
    /\ UNCHANGED <<clientVars, activity, sessionVars>>

\* The oldest deferred event passes request_timeout.
DeferredGoesStale ==
    /\ deferred # <<>>
    /\ deferred' = Tail(deferred)
    /\ UNCHANGED <<storeVars, vault, pc, job, gate, answered, replay, replayFor, HistoryVars>>

\* The same for an event the replay loop has drained, while the loop waits for
\* the gate or for the user: only those waits take as long as request_timeout.
ReplayGoesStale ==
    /\ pc[Replayer] \in {"gate", "prompt"}
    /\ \E i \in 1..Len(replay) :
          /\ replay[i].fresh
          /\ \A k \in 1..(i - 1) : ~replay[k].fresh
          /\ replay' = [replay EXCEPT ![i].fresh = FALSE]
    /\ UNCHANGED <<storeVars, vault, pc, job, gate, deferred, answered, replayFor, HistoryVars>>

\* An answer passes replay_window.
AnswerGoesStale ==
    /\ \E e \in answered : answered' = answered \ {e}
    /\ UNCHANGED <<storeVars, vault, pc, job, gate, QueueVars, HistoryVars>>

\* The process dies at any point and is started again: memory is gone, the
\* database stays, used and expired pairings are pruned, listeners come back.
\* That old activity rows are pruned too is left out: the log only grows here.
Restart ==
    /\ PrunePairings
    /\ vault' = {}
    /\ pc' = [w \in Workers |-> "idle"]
    /\ job' = [w \in Workers |-> NoJob]
    /\ gate' = NoWorker
    /\ deferred' = <<>> /\ answered' = {}
    /\ replay' = <<>> /\ replayFor' = {}
    /\ UNCHANGED <<clientVars, activity, HistoryVars>>

-----------------------------------------------------------------------------

Step(w) ==
    \/ Defer(w) \/ Open(w) \/ CacheHit(w) \/ CacheMiss(w)
    \/ DispatchRefused(w) \/ DispatchPing(w) \/ DispatchOperation(w)
    \/ ConnectFindsPairing(w) \/ ConnectRefused(w) \/ Consume(w) \/ Upsert(w)
    \/ Authorize(w) \/ Execute(w) \/ Seal(w) \/ Answer(w)

PromptClosed(w) ==
    \/ \E decision \in Decisions, remember \in BOOLEAN : UserAnswers(w, decision, remember)
    \/ PromptEnds(w)

Worker(w) == Step(w) \/ EnterGate(w) \/ PromptClosed(w)

ReplayLoop == TakeDeferred \/ ReplayNext \/ ReplayDone

PairCommand == PairAddsRelays \/ PairAddsNoRelay \/ AcceptPairing

User ==
    \/ \E accounts \in {Accounts} \cup {{a} : a \in Accounts} : Unlock(accounts)
    \/ Lock
    \/ \E c \in Clients : Command(c)
    \/ \E row \in activity : AllowActivity(row)
    \/ \E a \in Accounts : PairBunker(a) \/ SetRelays(a)
    \/ \E a \in Accounts, p \in PubKeys, s \in Secrets : PairClient(a, p, s)

Time ==
    \/ \E i \in PairingIds : PairingTimesOut(i)
    \/ DeferredGoesStale \/ ReplayGoesStale \/ AnswerGoesStale

Next ==
    \/ \E a \in Accounts, r \in Requests : Receive(a, r)
    \/ \E w \in Workers : Worker(w)
    \/ ReplayLoop
    \/ PairCommand
    \/ User
    \/ Time
    \/ Restart

Spec == Init /\ [][Next]_vars

\* Tasks run to their next await, the prompt timer fires, and tokio's mutex
\* queues its waiters, so nobody waits for the gate while others overtake it
\* for ever.  Nothing is assumed of the user, the relays or the clock.
Fairness ==
    /\ \A w \in Workers :
          WF_vars(Step(w)) /\ SF_vars(EnterGate(w)) /\ WF_vars(PromptEnds(w))
    /\ WF_vars(ReplayLoop)
    /\ WF_vars(PairCommand)

FairSpec == Spec /\ Fairness

-----------------------------------------------------------------------------
(* Properties *)

\* prompt_gate: the gate is held exactly by the worker whose prompt is on screen,
\* so two requests never compete for one answer and a request that times out, or
\* whose listener is aborted mid-prompt, leaves the gate free.
GateHeldByPrompt == \A w \in Workers : gate = w <=> pc[w] = "prompt"

\* Session::dispatch looks the sender up afresh: a client that was already revoked
\* when its request came in is never served, whatever it had deferred, cached,
\* stored as a rule or paired again since.
RevokedNeverServed == \A e \in served : ~e.barred

\* Session::connect is the only way in: every client row was paid for by consuming
\* a pairing on that account for that key.
PairedBySecret == \A c \in known : \E g \in grants : g.client = c

\* The session's state is well formed, and nobody is in it without a pairing.
SessionInv == SessionTypeOK /\ PairedBySecret

\* consume_pairing is the one-shot point: listeners, the replay loop and
\* pair_client may all present one secret at once and only one key is admitted.
OneClientPerPairing == \A g, h \in grants : g.id = h.id => g = h

\* A pairing admits only on the account it was minted for, and a nostrconnect://
\* pairing only the client that URI named.
GrantFitsPairing ==
    \A g \in grants, r \in pairings :
        g.id = r.id => r.account = g.client[1] /\ r.client \in {NoKey, g.client[2]}

\* authorize and prompt record before execute runs: nothing is done with an
\* account's keys that the activity log does not show as allowed.
ServedIsLogged ==
    \A e \in served :
        [client |-> e.client, scope |-> e.scope, outcome |-> "allowed"] \in activity

\* handle, replay_deferred and pair_client all come to an end: no request hangs on
\* the gate, on a prompt nobody answers, or on another worker.
EveryRequestEnds == \A w \in Workers : pc[w] # "idle" ~> pc[w] = "idle"

-----------------------------------------------------------------------------
(* What comments of the repository say of the code, and the code does not do *)

\* "The request is held by the session and answered once the keys are loaded"
\* (state.rs): take_deferred hands an event to a replay that covers its account.
\* It drains every account's events, and replay_deferred skips the others.
DeferredKeptForItsAccount ==
    [][TakeDeferred => \A i \in 1..Len(deferred) : deferred[i].account \in replayFor]_vars

\* The same promise, against the window between vault.holds and defer: once the
\* keys are there and no replay is under way, nothing is left waiting for one.
NothingWaitsForAReplay ==
    \A i \in 1..Len(deferred) : deferred[i].account \in vault => pc[Replayer] # "idle"

\* "A redelivered request is not prompted for twice" (SessionConfig): the answer
\* cache is read before the prompt and written after it, so a copy that comes in
\* between is prompted for as well.
RedeliveryPromptsOnce ==
    \A v, w \in Workers :
        (v # w /\ {pc[v], pc[w]} \subseteq {"gate", "prompt"})
            => <<job[v].account, job[v].req>> # <<job[w].account, job[w].req>>

\* "This only replays what a client could still be waiting on" (replay_deferred):
\* freshness is looked at once, when the whole queue is drained, and not again
\* after an earlier entry has waited for the user.
ReplaysOnlyFresh ==
    [][(ReplayNext /\ Head(replay).account \in replayFor) => Head(replay).fresh]_vars

\* "Sharing one would tie them together for that operator, which is what separate
\* transport keys exist to prevent" (connection.rs): what leaves on an account's
\* connection is sealed by that account's transport key.  The answer cache is
\* keyed by sender and id only, so it can hand one account another's answer.
AnswersStayWithTheirAccount == \A p \in published : p.by = p.sealer
=============================================================================
