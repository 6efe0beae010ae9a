---------------------------- MODULE SessionProofs ----------------------------
(***************************************************************************)
(* The client store keeps its promises about revocation whatever calls its *)
(* users make and in whatever order; and the request loop, for any number  *)
(* of accounts, clients, requests and pairings: its types, that it uses    *)
(* the store only through the store's own calls, and the safety properties *)
(* the runs check on small instances.                                      *)
(***************************************************************************)
EXTENDS Session, SequenceTheorems, TLAPS

-----------------------------------------------------------------------------
(* The store alone *)

\* The store's inductive invariant.  RemovedIsRevoked needs that upsert_client,
\* the one operation that clears removed_at, leaves revoked_at alone;
\* SwitchesNeedAccess needs that revoke and remove clear what the WHERE clauses
\* of the switches then never set again.
StoreInv == StoreTypeOK /\ RemovedIsRevoked /\ SwitchesNeedAccess

\* The conjuncts of the invariant about clients, and those about pairings.
ClientsOK ==
    /\ known \subseteq Clients /\ revoked \subseteq known /\ removed \subseteq known
    /\ allowAll \subseteq known /\ denyAll \subseteq known
    /\ rules \in [Clients -> [RuleScopes -> Verdicts]]
    /\ RemovedIsRevoked /\ SwitchesNeedAccess

PairingsOK ==
    /\ pairings \subseteq PairingRows
    /\ consumed \subseteq PairingIds /\ expired \subseteq PairingIds
    /\ issued \subseteq PairingIds
    /\ grants \subseteq Grants

LEMMA NoRulesType == NoRules \in [RuleScopes -> Verdicts]
  BY DEF NoRules, Verdicts

\* A rule is written without touching who may do what else.
LEMMA SetRuleKeeps ==
    ASSUME StoreInv, NEW c \in Clients, NEW s \in RuleScopes, NEW d \in Verdicts, SetRule(c, s, d)
    PROVE  ClientsOK' /\ revoked' = revoked
  <1>1. rules \in [Clients -> [RuleScopes -> Verdicts]]
    BY DEF StoreInv, StoreTypeOK
  <1>2. rules' = [rules EXCEPT ![c][s] = d]
    BY DEF SetRule
  <1>3. rules' \in [Clients -> [RuleScopes -> Verdicts]]
    BY <1>1, <1>2
  <1> QED
    BY <1>3 DEF SetRule, ClientsOK, StoreInv, StoreTypeOK, RemovedIsRevoked, SwitchesNeedAccess

\* Every call on the clients' tables keeps their part of the invariant, and no
\* call takes a revocation back.
LEMMA ClientCallKeeps ==
    ASSUME StoreInv, NEW c \in Clients, ClientCall(c)
    PROVE  ClientsOK' /\ revoked \subseteq revoked'
  <1> USE DEF StoreInv, StoreTypeOK, RemovedIsRevoked, SwitchesNeedAccess, ClientsOK, Active
  <1>r. ASSUME ClearConsent(c)
        PROVE  rules' \in [Clients -> [RuleScopes -> Verdicts]]
    BY <1>r, NoRulesType DEF ClearConsent
  <1>1. CASE UpsertClient(c)
    BY <1>1 DEF UpsertClient
  <1>2. ASSUME NEW allow \in BOOLEAN, SetClientAllowAll(c, allow)
        PROVE  ClientsOK' /\ revoked \subseteq revoked'
    <2>1. CASE allow
      BY <1>2, <2>1 DEF SetClientAllowAll
    <2>2. CASE ~allow
      BY <1>2, <2>2 DEF SetClientAllowAll
    <2> QED
      BY <2>1, <2>2
  <1>3. CASE DenyClientActions(c)
    BY <1>3 DEF DenyClientActions
  <1>4. CASE ForgetClientRules(c)
    BY <1>4, <1>r DEF ForgetClientRules, ClearConsent
  <1>5. CASE RevokeClient(c)
    BY <1>5, <1>r DEF RevokeClient, ClearConsent
  <1>6. CASE RemoveClient(c)
    BY <1>6, <1>r DEF RemoveClient, ClearConsent
  <1>7. ASSUME NEW s \in RuleScopes, NEW d \in Decisions, SetRule(c, s, d)
        PROVE  ClientsOK' /\ revoked \subseteq revoked'
    BY <1>7, SetRuleKeeps DEF Verdicts
  <1>8. ASSUME NEW s \in RuleScopes, ClearRule(c, s)
        PROVE  ClientsOK' /\ revoked \subseteq revoked'
    BY <1>8, SetRuleKeeps DEF Verdicts, ClearRule
  <1> QED
    BY <1>1, <1>2, <1>3, <1>4, <1>5, <1>6, <1>7, <1>8 DEF ClientCall

\* The pairings' part: types, and consumption is never undone.
LEMMA PairingCallKeeps ==
    ASSUME StoreInv, PairingCall
    PROVE  PairingsOK' /\ consumed \subseteq consumed'
  <1> USE DEF StoreInv, StoreTypeOK, PairingsOK, PairingRows, Secrets, Grants
  <1>1. ASSUME NEW a \in Accounts, MintBunkerUri(a)
        PROVE  PairingsOK' /\ consumed \subseteq consumed'
    BY <1>1 DEF MintBunkerUri, InsertPairing
  <1>2. ASSUME NEW a \in Accounts, NEW p \in PubKeys, NEW s \in Secrets, AcceptClientUri(a, p, s)
        PROVE  PairingsOK' /\ consumed \subseteq consumed'
    BY <1>2 DEF AcceptClientUri, InsertPairing
  <1>3. ASSUME NEW i \in PairingIds, NEW c \in Clients, ConsumePairing(i, c)
        PROVE  PairingsOK' /\ consumed \subseteq consumed'
    BY <1>3 DEF ConsumePairing
  <1>4. ASSUME NEW i \in PairingIds, PairingExpires(i)
        PROVE  PairingsOK' /\ consumed \subseteq consumed'
    BY <1>4 DEF PairingExpires
  <1>5. CASE PrunePairings
    BY <1>5 DEF PrunePairings
  <1> QED
    BY <1>1, <1>2, <1>3, <1>4, <1>5 DEF PairingCall

\* One step of the store.
LEMMA StoreStepKeeps ==
    ASSUME StoreInv, [StoreNext]_storeVars
    PROVE  StoreInv' /\ revoked \subseteq revoked' /\ consumed \subseteq consumed'
  <1>1. ClientsOK' /\ revoked \subseteq revoked'
    <2>1. ASSUME NEW c \in Clients, ClientCall(c)
          PROVE  ClientsOK' /\ revoked \subseteq revoked'
      BY <2>1, ClientCallKeeps
    <2>2. ASSUME NEW row \in activity, RememberActivity(row)
          PROVE  ClientsOK' /\ revoked \subseteq revoked'
      <3>1. row \in ActivityRows
        BY <2>2 DEF StoreInv, StoreTypeOK
      <3>2. row.client \in Clients /\ row.scope \in RuleScopes
        BY <3>1 DEF ActivityRows
      <3>3. "allow" \in Verdicts /\ SetRule(row.client, row.scope, "allow")
        BY <2>2 DEF RememberActivity, Verdicts, Decisions
      <3> QED
        BY <3>2, <3>3, SetRuleKeeps
    <2>3. CASE UNCHANGED clientVars
      BY <2>3 DEF clientVars, ClientsOK, StoreInv, StoreTypeOK, RemovedIsRevoked, SwitchesNeedAccess
    <2> QED
      BY <2>1, <2>2, <2>3 DEF StoreNext, storeVars
  <1>2. activity' \subseteq ActivityRows
    <2>1. ASSUME NEW row \in ActivityRows, RecordActivity(row.client, row.scope, row.outcome)
          PROVE  activity' \subseteq ActivityRows
      <3>1. [client |-> row.client, scope |-> row.scope, outcome |-> row.outcome] \in ActivityRows
        BY DEF ActivityRows
      <3> QED
        BY <2>1, <3>1 DEF RecordActivity, StoreInv, StoreTypeOK
    <2>2. CASE UNCHANGED activity
      BY <2>2 DEF StoreInv, StoreTypeOK
    <2> QED
      BY <2>1, <2>2 DEF StoreNext, storeVars
  <1>3. PairingsOK' /\ consumed \subseteq consumed'
    <2>1. CASE PairingCall
      BY <2>1, PairingCallKeeps
    <2>2. CASE UNCHANGED pairingVars
      BY <2>2 DEF pairingVars, PairingsOK, StoreInv, StoreTypeOK
    <2> QED
      BY <2>1, <2>2 DEF StoreNext, storeVars
  <1> QED
    BY <1>1, <1>2, <1>3
       DEF ClientsOK, PairingsOK, StoreInv, StoreTypeOK, RemovedIsRevoked, SwitchesNeedAccess

LEMMA StoreStart == StoreInit => StoreInv
  BY NoRulesType
     DEF StoreInit, StoreInv, StoreTypeOK, RemovedIsRevoked, SwitchesNeedAccess

\* Storage keeps its tables well formed, a removed client is a revoked one, and no
\* revoked client holds an app-wide switch: for every sequence of storage calls.
THEOREM StoreSafe == StoreSpec => [](StoreTypeOK /\ FlagsAgree)
  <1>1. StoreSpec => []StoreInv
    BY StoreStart, StoreStepKeeps, PTL DEF StoreSpec
  <1> QED
    BY <1>1, PTL DEF StoreInv, FlagsAgree

\* No sequence of storage calls takes a revocation back or makes a consumed pairing
\* usable again.
THEOREM StoreRevocationSticks == StoreSpec => RevocationSticks
  <1>1. StoreInv /\ [StoreNext]_storeVars
          => [revoked \subseteq revoked' /\ consumed \subseteq consumed']_storeVars
    BY StoreStepKeeps
  <1>2. StoreInv /\ [StoreNext]_storeVars => StoreInv'
    BY StoreStepKeeps
  <1> QED
    BY <1>1, <1>2, StoreStart, PTL DEF StoreSpec, RevocationSticks

-----------------------------------------------------------------------------
(* The session's types *)

AtRest == {"idle", "take", "next"}

\* A worker that is not at rest has a request in hand.
JobInv ==
    /\ pc \in [Workers -> Labels]
    /\ job \in [Workers -> Jobs \cup {NoJob}]
    /\ \A w \in Workers : pc[w] \notin AtRest => job[w] \in Jobs

\* The rest of the session's types.
MemoryOK ==
    /\ vault \subseteq Accounts
    /\ gate \in Workers \cup {NoWorker}
    /\ answered \subseteq AnswerKeys
    /\ replayFor \subseteq Accounts
    /\ served \subseteq [client : Clients, scope : RequestScopes, barred : BOOLEAN]
    /\ published \subseteq [by : Accounts, sealer : Accounts]

QueuesOK == deferred \in Seq(Held) /\ replay \in Seq(Replayed)

-----------------------------------------------------------------------------
(* Moving a worker keeps the jobs well formed *)

LEMMA ReturnKeeps ==
    ASSUME JobInv, NEW w \in Workers, Return(w)
    PROVE  JobInv'
  BY DEF JobInv, Return, Home, Labels, AtRest

LEMMA GotoKeeps ==
    ASSUME JobInv, NEW w \in Workers, NEW l \in Labels, Goto(w, l),
           l \in AtRest \/ pc[w] \notin AtRest
    PROVE  JobInv'
  BY DEF JobInv, Goto

LEMMA SettleKeeps ==
    ASSUME JobInv, NEW w \in Workers, NEW r \in Results, Settle(w, r), pc[w] \notin AtRest
    PROVE  JobInv'
  <1>1. job[w] \in Jobs
    BY DEF JobInv
  <1>2. [job[w] EXCEPT !.result = r] \in Jobs
    BY <1>1 DEF Jobs
  <1>3. "seal" \in Labels
    BY DEF Labels
  <1> QED
    BY <1>2, <1>3 DEF JobInv, Settle

LEMMA BeginKeeps ==
    ASSUME JobInv, NEW w \in Workers, NEW a \in Accounts, NEW r \in RequestType,
           NEW l \in Labels, Begin(w, a, r, l)
    PROVE  JobInv'
  <1> DEFINE j == [account |-> a, req |-> r, result |-> "none", pairing |-> NoId,
                   barred |-> <<a, r.sender>> \in revoked]
  <1>1. j \in Jobs
    BY DEF Jobs, Results
  <1>2. pc' = [pc EXCEPT ![w] = l] /\ job' = [job EXCEPT ![w] = j]
    BY DEF Begin
  <1> HIDE DEF j
  <1> QED
    BY <1>1, <1>2 DEF JobInv

\* The client a busy worker acts for.
LEMMA BusyClient ==
    ASSUME JobInv, NEW w \in Workers, pc[w] \notin AtRest
    PROVE  /\ job[w] \in Jobs
           /\ job[w].account \in Accounts
           /\ job[w].req \in RequestType
           /\ job[w].req.scope \in RequestScopes
           /\ Client(w) \in Clients
  BY DEF JobInv, Jobs, RequestType, Client, Clients

-----------------------------------------------------------------------------
(* Types *)

TypeInv == StoreInv /\ JobInv /\ MemoryOK /\ QueuesOK

LEMMA StepKeepsJobs ==
    ASSUME TypeInv, NEW w \in Workers, Step(w)
    PROVE  JobInv'
  <1> USE DEF TypeInv
  <1>l. /\ {"open", "defer", "cache", "dispatch", "consume", "upsert", "authorize", "gate",
            "prompt", "execute", "seal", "answer"} \subseteq Labels \ AtRest
        /\ {"ok", "error"} \subseteq Results
    BY DEF Labels, AtRest, Results
  <1>1. CASE Defer(w)
    BY <1>1, ReturnKeeps DEF Defer
  <1>2. CASE Open(w)
    BY <1>2, <1>l, ReturnKeeps, GotoKeeps DEF Open
  <1>3. CASE CacheHit(w)
    BY <1>3, ReturnKeeps DEF CacheHit
  <1>4. CASE CacheMiss(w)
    BY <1>4, <1>l, GotoKeeps DEF CacheMiss
  <1>5. CASE DispatchRefused(w)
    BY <1>5, <1>l, SettleKeeps DEF DispatchRefused, Refuse
  <1>6. CASE DispatchPing(w)
    BY <1>6, <1>l, SettleKeeps DEF DispatchPing
  <1>7. CASE DispatchOperation(w)
    BY <1>7, <1>l, GotoKeeps DEF DispatchOperation
  <1>8. CASE ConnectFindsPairing(w)
    <2>1. PICK row \in UsablePairings(job[w].req.secret) :
             job' = [job EXCEPT ![w].pairing = row.id]
      BY <1>8 DEF ConnectFindsPairing
    <2>2. row.id \in PairingIds
      BY DEF UsablePairings, StoreInv, StoreTypeOK, PairingRows
    <2>3. job[w] \in Jobs
      BY <1>8, <1>l, BusyClient DEF ConnectFindsPairing
    <2>4. [job[w] EXCEPT !.pairing = row.id] \in Jobs
      BY <2>2, <2>3 DEF Jobs
    <2>5. pc' = [pc EXCEPT ![w] = "consume"]
      BY <1>8 DEF ConnectFindsPairing
    <2> QED
      BY <2>1, <2>4, <2>5, <1>l DEF JobInv
  <1>9. CASE ConnectRefused(w)
    BY <1>9, <1>l, ReturnKeeps, SettleKeeps DEF ConnectRefused, ConnectFails
  <1>10. CASE Consume(w)
    BY <1>10, <1>l, ReturnKeeps, SettleKeeps, GotoKeeps DEF Consume, ConnectFails
  <1>11. CASE Upsert(w)
    BY <1>11, <1>l, SettleKeeps DEF Upsert
  <1>12. CASE Authorize(w)
    BY <1>12, <1>l, SettleKeeps, GotoKeeps DEF Authorize
  <1>13. CASE Execute(w)
    BY <1>13, <1>l, SettleKeeps DEF Execute
  <1>14. CASE Seal(w)
    BY <1>14, <1>l, ReturnKeeps, GotoKeeps DEF Seal
  <1>15. CASE Answer(w)
    BY <1>15, ReturnKeeps DEF Answer
  <1> QED
    BY <1>1, <1>2, <1>3, <1>4, <1>5, <1>6, <1>7, <1>8, <1>9, <1>10, <1>11, <1>12, <1>13,
       <1>14, <1>15 DEF Step

LEMMA StepKeepsMemory ==
    ASSUME TypeInv, NEW w \in Workers, Step(w)
    PROVE  MemoryOK' /\ QueuesOK'
  <1> USE DEF TypeInv, MemoryOK, QueuesOK
  <1>b. pc[w] \notin AtRest
    BY DEF Step, AtRest, Defer, Open, CacheHit, CacheMiss, DispatchRefused, DispatchPing,
           DispatchOperation, ConnectFindsPairing, ConnectRefused, Consume, Upsert, Authorize,
           Execute, Seal, Answer
  <1>j. /\ job[w] \in Jobs /\ job[w].account \in Accounts /\ job[w].req \in RequestType
        /\ job[w].req.scope \in RequestScopes /\ Client(w) \in Clients
    BY <1>b, BusyClient
  <1>1. CASE Defer(w)
    <2>1. [account |-> job[w].account, req |-> job[w].req] \in Held
      BY <1>j DEF Held
    <2>2. deferred' \in Seq(Held)
      BY <1>1, <2>1, AppendProperties DEF Defer
    <2> QED
      BY <1>1, <2>2 DEF Defer, HistoryVars
  <1>2. CASE CacheHit(w)
    <2>1. PICK e \in answered : published' = published \cup {[by |-> job[w].account, sealer |-> e.sealer]}
      BY <1>2 DEF CacheHit, Publish
    <2>2. e.sealer \in Accounts
      BY DEF AnswerKeys
    <2> QED
      BY <1>2, <1>j, <2>1, <2>2 DEF CacheHit, QueueVars
  <1>3. CASE Execute(w)
    <2>1. job[w].barred \in BOOLEAN
      BY <1>j DEF Jobs
    <2> QED
      BY <1>3, <1>j, <2>1 DEF Execute, QueueVars
  <1>4. CASE Answer(w)
    <2>1. [sender |-> job[w].req.sender, id |-> job[w].req.id, sealer |-> job[w].account] \in AnswerKeys
      BY <1>j DEF AnswerKeys, RequestType
    <2>2. answered' \subseteq AnswerKeys
      BY <1>4, <2>1 DEF Answer
    <2>3. published' \subseteq [by : Accounts, sealer : Accounts]
      BY <1>4, <1>j DEF Answer, Publish
    <2> QED
      BY <1>4, <2>2, <2>3 DEF Answer, QueueVars
  <1>5. CASE UNCHANGED Rest
    BY <1>5 DEF Rest, QueueVars, HistoryVars
  <1> QED
    BY <1>1, <1>2, <1>3, <1>4, <1>5
       DEF Step, Open, CacheMiss, DispatchRefused, DispatchPing, DispatchOperation,
           ConnectFindsPairing, ConnectRefused, Consume, Upsert, Authorize, Seal

LEMMA ReceiveKeepsTypes ==
    ASSUME TypeInv, NEW a \in Accounts, NEW r \in Requests, Receive(a, r)
    PROVE  JobInv' /\ MemoryOK' /\ QueuesOK'
  <1>1. a \in Workers /\ r \in RequestType /\ {"open", "defer"} \subseteq Labels
    BY SessionAssumption DEF Workers, Labels
  <1>2. JobInv'
    BY <1>1, BeginKeeps DEF Receive, Handle, TypeInv
  <1> QED
    BY <1>2 DEF Receive, Rest, QueueVars, HistoryVars, TypeInv, MemoryOK, QueuesOK

LEMMA PromptKeepsTypes ==
    ASSUME TypeInv, NEW w \in Workers, EnterGate(w) \/ PromptClosed(w)
    PROVE  JobInv' /\ MemoryOK' /\ QueuesOK'
  <1> USE DEF TypeInv
  <1>l. /\ {"gate", "prompt", "execute"} \subseteq Labels \ AtRest
        /\ "error" \in Results
    BY DEF Labels, AtRest, Results
  <1>1. CASE EnterGate(w)
    <2>1. JobInv'
      BY <1>1, <1>l, GotoKeeps DEF EnterGate
    <2> QED
      BY <1>1, <2>1 DEF EnterGate, QueueVars, HistoryVars, MemoryOK, QueuesOK
  <1>2. ASSUME NEW d \in Decisions, NEW remember \in BOOLEAN, UserAnswers(w, d, remember)
        PROVE  JobInv' /\ MemoryOK' /\ QueuesOK'
    <2>1. JobInv'
      BY <1>2, <1>l, GotoKeeps, SettleKeeps DEF UserAnswers
    <2> QED
      BY <1>2, <2>1 DEF UserAnswers, QueueVars, HistoryVars, MemoryOK, QueuesOK
  <1>3. CASE PromptEnds(w)
    <2>1. JobInv'
      BY <1>3, <1>l, SettleKeeps DEF PromptEnds
    <2> QED
      BY <1>3, <2>1 DEF PromptEnds, QueueVars, HistoryVars, MemoryOK, QueuesOK
  <1> QED
    BY <1>1, <1>2, <1>3 DEF PromptClosed

LEMMA ReplayKeepsTypes ==
    ASSUME TypeInv, ReplayLoop
    PROVE  JobInv' /\ MemoryOK' /\ QueuesOK'
  <1> USE DEF TypeInv
  <1>l. Replayer \in Workers /\ AtRest \subseteq Labels /\ {"open", "defer"} \subseteq Labels
    BY DEF Workers, AtRest, Labels
  <1>1. CASE TakeDeferred
    <2>1. JobInv'
      BY <1>1, <1>l, GotoKeeps DEF TakeDeferred, AtRest
    <2>2. \A i \in 1..Len(deferred) :
             [account |-> deferred[i].account, req |-> deferred[i].req, fresh |-> TRUE] \in Replayed
      <3> TAKE i \in 1..Len(deferred)
      <3>1. deferred[i] \in Held
        BY ElementOfSeq DEF QueuesOK
      <3> QED
        BY <3>1 DEF Held, Replayed
    <2>3. replay' \in Seq(Replayed)
      BY <1>1, <2>2 DEF TakeDeferred, QueuesOK
    <2>4. deferred' \in Seq(Held)
      BY <1>1 DEF TakeDeferred
    <2> QED
      BY <1>1, <2>1, <2>3, <2>4 DEF TakeDeferred, HistoryVars, MemoryOK, QueuesOK
  <1>2. CASE ReplayNext
    <2>1. Head(replay) \in Replayed /\ Tail(replay) \in Seq(Replayed)
      BY <1>2, HeadTailProperties DEF ReplayNext, QueuesOK
    <2>2. Head(replay).account \in Accounts /\ Head(replay).req \in RequestType
      BY <2>1 DEF Replayed
    <2>3. JobInv'
      BY <1>2, <1>l, <2>2, BeginKeeps DEF ReplayNext, Handle, JobInv
    <2> QED
      BY <1>2, <2>1, <2>3 DEF ReplayNext, HistoryVars, MemoryOK, QueuesOK
  <1>3. CASE ReplayDone
    <2>1. JobInv'
      BY <1>3, <1>l, GotoKeeps DEF ReplayDone, AtRest
    <2> QED
      BY <1>3, <2>1 DEF ReplayDone, HistoryVars, MemoryOK, QueuesOK
  <1> QED
    BY <1>1, <1>2, <1>3 DEF ReplayLoop

LEMMA PairCommandKeepsTypes ==
    ASSUME TypeInv, PairCommand
    PROVE  JobInv' /\ MemoryOK' /\ QueuesOK'
  <1> USE DEF TypeInv
  <1>l. /\ Pairer \in Workers /\ Accounts \subseteq Workers
        /\ {"relays", "accept", "dispatch"} \subseteq Labels \ AtRest
        /\ "idle" \in Labels \cap AtRest
    BY DEF Workers, AtRest, Labels
  <1>1. CASE PairAddsRelays
    <2> DEFINE a == job[Pairer].account
    <2>1. a \in Accounts /\ job[Pairer] \in Jobs
      BY <1>1, <1>l, BusyClient DEF PairAddsRelays
    <2>2. CASE a \in vault
      <3>1. /\ gate' \in Workers \cup {NoWorker}
            /\ pc' = [pc EXCEPT ![a] = "idle", ![Pairer] = "accept"]
            /\ job' = [job EXCEPT ![a] = NoJob]
        BY <1>1, <2>2 DEF PairAddsRelays, AbortListener, MemoryOK
      <3>2. a # Pairer
        BY <2>1, SessionAssumption
      <3>3. JobInv'
        BY <3>1, <3>2, <2>1, <1>l DEF JobInv
      <3> QED
        BY <1>1, <3>1, <3>3 DEF PairAddsRelays, QueueVars, HistoryVars, MemoryOK, QueuesOK
    <2>3. CASE a \notin vault
      <3>1. JobInv'
        BY <1>1, <2>3, <1>l, GotoKeeps DEF PairAddsRelays
      <3> QED
        BY <1>1, <2>3, <3>1 DEF PairAddsRelays, QueueVars, HistoryVars, MemoryOK, QueuesOK
    <2> QED
      BY <2>2, <2>3
  <1>2. CASE PairAddsNoRelay
    <2>1. JobInv'
      BY <1>2, <1>l, GotoKeeps DEF PairAddsNoRelay
    <2> QED
      BY <1>2, <2>1 DEF PairAddsNoRelay, Rest, QueueVars, HistoryVars, MemoryOK, QueuesOK
  <1>3. CASE AcceptPairing
    <2>1. JobInv'
      BY <1>3, <1>l, GotoKeeps, ReturnKeeps DEF AcceptPairing
    <2> QED
      BY <1>3, <2>1 DEF AcceptPairing, Rest, QueueVars, HistoryVars, MemoryOK, QueuesOK
  <1> QED
    BY <1>1, <1>2, <1>3 DEF PairCommand

LEMMA SomeRequestScope == (CHOOSE x \in RequestScopes : TRUE) \in RequestScopes
  BY PolicyAssumption DEF RequestScopes

LEMMA UserKeepsTypes ==
    ASSUME TypeInv, User
    PROVE  JobInv' /\ MemoryOK' /\ QueuesOK'
  <1> USE DEF TypeInv
  <1>l. /\ {Replayer, Pairer} \cup Accounts \subseteq Workers
        /\ {"take", "relays", "idle"} \subseteq Labels /\ {"take", "idle"} \subseteq AtRest
    BY DEF Workers, AtRest, Labels
  <1>1. ASSUME NEW accounts \in {Accounts} \cup {{a} : a \in Accounts}, Unlock(accounts)
        PROVE  JobInv' /\ MemoryOK' /\ QueuesOK'
    <2>1. JobInv'
      BY <1>1, <1>l, GotoKeeps DEF Unlock
    <2>2. accounts \subseteq Accounts
      BY <1>1
    <2> QED
      BY <1>1, <2>1, <2>2 DEF Unlock, HistoryVars, MemoryOK, QueuesOK
  <1>2. CASE Lock
    BY <1>2 DEF Lock, QueueVars, HistoryVars, JobInv, MemoryOK, QueuesOK
  <1>3. CASE UNCHANGED sessionVars
    BY <1>3 DEF sessionVars, JobInv, MemoryOK, QueuesOK
  <1>4. ASSUME NEW a \in Accounts, SetRelays(a)
        PROVE  JobInv' /\ MemoryOK' /\ QueuesOK'
    <2>1. JobInv'
      BY <1>4, <1>l, ReturnKeeps DEF SetRelays
    <2> QED
      BY <1>4, <2>1 DEF SetRelays, AbortListener, QueueVars, HistoryVars, MemoryOK, QueuesOK
  <1>5. ASSUME NEW a \in Accounts, NEW p \in PubKeys, NEW s \in Secrets, PairClient(a, p, s)
        PROVE  JobInv' /\ MemoryOK' /\ QueuesOK'
    <2> DEFINE r == [to |-> a, sender |-> p, id |-> NoId, type |-> "connect", secret |-> s,
                     signer |-> a, scope |-> CHOOSE x \in RequestScopes : TRUE]
    <2>1. (CHOOSE x \in RequestScopes : TRUE) \in RequestScopes
      BY SomeRequestScope
    <2>2. r \in RequestType
      BY <2>1 DEF RequestType
    <2>3. Begin(Pairer, a, r, "relays")
      BY <1>5 DEF PairClient
    <2> HIDE DEF r
    <2>4. JobInv'
      BY <1>l, <2>2, <2>3, BeginKeeps
    <2> QED
      BY <1>5, <2>4 DEF PairClient, Rest, QueueVars, HistoryVars, MemoryOK, QueuesOK
  <1> QED
    BY <1>1, <1>2, <1>3, <1>4, <1>5 DEF User, Command, AllowActivity, PairBunker

LEMMA TimeKeepsTypes ==
    ASSUME TypeInv, Time \/ Restart
    PROVE  JobInv' /\ MemoryOK' /\ QueuesOK'
  <1> USE DEF TypeInv
  <1>1. CASE UNCHANGED sessionVars
    BY <1>1 DEF sessionVars, JobInv, MemoryOK, QueuesOK
  <1>2. CASE DeferredGoesStale
    <2>1. Tail(deferred) \in Seq(Held)
      BY <1>2, HeadTailProperties DEF DeferredGoesStale, QueuesOK
    <2> QED
      BY <1>2, <2>1 DEF DeferredGoesStale, HistoryVars, JobInv, MemoryOK, QueuesOK
  <1>3. CASE ReplayGoesStale
    <2>1. PICK i \in 1..Len(replay) : replay' = [replay EXCEPT ![i].fresh = FALSE]
      BY <1>3 DEF ReplayGoesStale
    <2>2. replay[i] \in Replayed
      BY DEF QueuesOK
    <2>3. [replay[i] EXCEPT !.fresh = FALSE] \in Replayed
      BY <2>2 DEF Replayed
    <2>4. replay' \in Seq(Replayed)
      BY <2>1, <2>3, ExceptSeq DEF QueuesOK
    <2> QED
      BY <1>3, <2>4 DEF ReplayGoesStale, HistoryVars, JobInv, MemoryOK, QueuesOK
  <1>4. CASE AnswerGoesStale
    BY <1>4 DEF AnswerGoesStale, QueueVars, HistoryVars, JobInv, MemoryOK, QueuesOK
  <1>5. CASE Restart
    <2>1. JobInv'
      BY <1>5 DEF Restart, JobInv, AtRest, Labels
    <2>2. deferred' \in Seq(Held) /\ replay' \in Seq(Replayed)
      BY <1>5 DEF Restart
    <2> QED
      BY <1>5, <2>1, <2>2 DEF Restart, HistoryVars, MemoryOK, QueuesOK
  <1> QED
    BY <1>1, <1>2, <1>3, <1>4, <1>5 DEF Time, PairingTimesOut

-----------------------------------------------------------------------------
(* The session reaches the tables only through the store's calls *)

LEMMA RecordIsStoreStep ==
    ASSUME NEW c \in Clients, NEW s \in RuleScopes, NEW o \in {"allowed", "refused"},
           RecordActivity(c, s, o)
    PROVE  \E row \in ActivityRows : RecordActivity(row.client, row.scope, row.outcome)
  <1>1. [client |-> c, scope |-> s, outcome |-> o] \in ActivityRows
    BY DEF ActivityRows
  <1> QED
    BY <1>1

LEMMA WideIsRuleScope == \A s \in RequestScopes : s \in RuleScopes /\ Wide(s) \in RuleScopes
  <1> SUFFICES ASSUME NEW s \in RequestScopes PROVE s \in RuleScopes /\ Wide(s) \in RuleScopes
    OBVIOUS
  <1>1. CASE s \in {Scope(SignEvent, k) : k \in Kinds}
    BY <1>1 DEF Wide, Scope, RuleScopes
  <1>2. CASE s \in {Scope(m, AnyKind) : m \in Methods \ {SignEvent}}
    BY <1>2 DEF Wide, Scope, RuleScopes, RequestScopes
  <1> QED
    BY <1>1, <1>2 DEF RuleScopes, RequestScopes

LEMMA StepIsStoreStep ==
    ASSUME TypeInv, NEW w \in Workers, Step(w)
    PROVE  [StoreNext]_storeVars
  <1> USE DEF TypeInv
  <1>b. ASSUME pc[w] \notin AtRest
        PROVE  /\ Client(w) \in Clients
               /\ job[w].req.scope \in RuleScopes /\ Wide(job[w].req.scope) \in RuleScopes
    BY <1>b, BusyClient, WideIsRuleScope
  <1>1. CASE DispatchRefused(w)
    <2>1. UNCHANGED <<clientVars, pairingVars>>
      BY <1>1 DEF DispatchRefused
    <2>2. UNCHANGED activity \/ RecordActivity(Client(w), Wide(job[w].req.scope), "refused")
      BY <1>1 DEF DispatchRefused, Refuse
    <2>3. pc[w] \notin AtRest
      BY <1>1 DEF DispatchRefused, AtRest
    <2> QED
      BY <2>1, <2>2, <2>3, <1>b, RecordIsStoreStep DEF StoreNext
  <1>2. CASE Authorize(w)
    <2>1. UNCHANGED <<clientVars, pairingVars>>
      BY <1>2 DEF Authorize
    <2>2. UNCHANGED activity
            \/ \E o \in {"allowed", "refused"} : RecordActivity(Client(w), job[w].req.scope, o)
      BY <1>2 DEF Authorize
    <2>3. pc[w] \notin AtRest
      BY <1>2 DEF Authorize, AtRest
    <2> QED
      BY <2>1, <2>2, <2>3, <1>b, RecordIsStoreStep DEF StoreNext
  <1>3. CASE Consume(w)
    <2>1. UNCHANGED <<clientVars, activity>>
      BY <1>3 DEF Consume
    <2>2. UNCHANGED pairingVars \/ ConsumePairing(job[w].pairing, Client(w))
      BY <1>3 DEF Consume
    <2>3. pc[w] \notin AtRest
      BY <1>3 DEF Consume, AtRest
    <2>4. ASSUME ConsumePairing(job[w].pairing, Client(w))
          PROVE  PairingCall
      <3>1. job[w].pairing \in PairingIds
        BY <2>4 DEF ConsumePairing, StoreInv, StoreTypeOK, PairingRows
      <3> QED
        BY <2>3, <2>4, <3>1, <1>b DEF PairingCall
    <2> QED
      BY <2>1, <2>2, <2>4 DEF StoreNext
  <1>4. CASE Upsert(w)
    <2>1. UNCHANGED <<activity, pairingVars>> /\ UpsertClient(Client(w))
      BY <1>4 DEF Upsert
    <2>2. pc[w] \notin AtRest
      BY <1>4 DEF Upsert, AtRest
    <2> QED
      BY <2>1, <2>2, <1>b DEF StoreNext, ClientCall
  <1>5. CASE UNCHANGED storeVars
    BY <1>5
  <1> QED
    BY <1>1, <1>2, <1>3, <1>4, <1>5
       DEF Step, Defer, Open, CacheHit, CacheMiss, DispatchPing, DispatchOperation,
           ConnectFindsPairing, ConnectRefused, Execute, Seal, Answer

LEMMA NextIsStoreStep ==
    ASSUME TypeInv, [Next]_vars
    PROVE  [StoreNext]_storeVars
  <1> USE DEF TypeInv
  <1>1. ASSUME NEW w \in Workers, Step(w)
        PROVE  [StoreNext]_storeVars
    BY <1>1, StepIsStoreStep
  <1>2. ASSUME NEW w \in Workers, NEW d \in Decisions, NEW remember \in BOOLEAN,
               UserAnswers(w, d, remember)
        PROVE  [StoreNext]_storeVars
    <2>1. /\ Client(w) \in Clients /\ job[w].req.scope \in RuleScopes
      BY <1>2, BusyClient, WideIsRuleScope DEF UserAnswers, AtRest
    <2>2. UNCHANGED clientVars \/ SetRule(Client(w), job[w].req.scope, d)
      BY <1>2 DEF UserAnswers
    <2>3. \E o \in {"allowed", "refused"} : RecordActivity(Client(w), job[w].req.scope, o)
      BY <1>2 DEF UserAnswers
    <2>4. UNCHANGED pairingVars
      BY <1>2 DEF UserAnswers
    <2> QED
      BY <2>1, <2>2, <2>3, <2>4, RecordIsStoreStep DEF StoreNext, ClientCall
  <1>3. ASSUME NEW w \in Workers, PromptEnds(w)
        PROVE  [StoreNext]_storeVars
    <2>1. Client(w) \in Clients /\ job[w].req.scope \in RuleScopes
      BY <1>3, BusyClient, WideIsRuleScope DEF PromptEnds, AtRest
    <2>2. RecordActivity(Client(w), job[w].req.scope, "refused")
      BY <1>3 DEF PromptEnds
    <2>3. UNCHANGED <<clientVars, pairingVars>>
      BY <1>3 DEF PromptEnds
    <2> QED
      BY <2>1, <2>2, <2>3, RecordIsStoreStep DEF StoreNext
  <1>4. ASSUME NEW c \in Clients, Command(c)
        PROVE  [StoreNext]_storeVars
    BY <1>4 DEF Command, StoreNext, ClientCall
  <1>5. ASSUME NEW row \in activity, AllowActivity(row)
        PROVE  [StoreNext]_storeVars
    BY <1>5 DEF AllowActivity, StoreNext
  <1>6. ASSUME NEW a \in Accounts, PairBunker(a)
        PROVE  [StoreNext]_storeVars
    BY <1>6 DEF PairBunker, StoreNext, PairingCall
  <1>7. ASSUME NEW a \in Accounts, NEW p \in PubKeys, NEW s \in Secrets, PairClient(a, p, s)
        PROVE  [StoreNext]_storeVars
    <2>1. UNCHANGED <<clientVars, activity>> /\ AcceptClientUri(a, p, s)
      BY <1>7 DEF PairClient
    <2> QED
      BY <2>1 DEF StoreNext, PairingCall
  <1>8. ASSUME NEW i \in PairingIds, PairingTimesOut(i)
        PROVE  [StoreNext]_storeVars
    BY <1>8 DEF PairingTimesOut, StoreNext, PairingCall
  <1>9. CASE Restart
    <2>1. UNCHANGED <<clientVars, activity>> /\ PrunePairings
      BY <1>9 DEF Restart
    <2> QED
      BY <2>1 DEF StoreNext, PairingCall
  <1>10. CASE UNCHANGED storeVars
    BY <1>10
  <1>11. CASE UNCHANGED vars
    BY <1>11 DEF vars
  <1> QED
    BY <1>1, <1>2, <1>3, <1>4, <1>5, <1>6, <1>7, <1>8, <1>9, <1>10, <1>11
       DEF Next, Worker, PromptClosed, EnterGate, Receive, ReplayLoop, TakeDeferred, ReplayNext,
           ReplayDone, PairCommand, PairAddsRelays, PairAddsNoRelay, AcceptPairing, User, Unlock,
           Lock, SetRelays, Time, DeferredGoesStale, ReplayGoesStale, AnswerGoesStale

LEMMA NextKeepsTypes ==
    ASSUME TypeInv, [Next]_vars
    PROVE  TypeInv'
  <1>1. StoreInv'
    BY NextIsStoreStep, StoreStepKeeps DEF TypeInv
  <1>2. JobInv' /\ MemoryOK' /\ QueuesOK'
    <2>1. CASE UNCHANGED vars
      BY <2>1 DEF vars, sessionVars, TypeInv, JobInv, MemoryOK, QueuesOK
    <2>2. ASSUME NEW w \in Workers, Worker(w)
          PROVE  JobInv' /\ MemoryOK' /\ QueuesOK'
      BY <2>2, StepKeepsJobs, StepKeepsMemory, PromptKeepsTypes DEF Worker
    <2> QED
      BY <2>1, <2>2, ReceiveKeepsTypes, ReplayKeepsTypes, PairCommandKeepsTypes,
         UserKeepsTypes, TimeKeepsTypes DEF Next
  <1> QED
    BY <1>1, <1>2 DEF TypeInv

LEMMA InitTypes == Init => TypeInv
  <1> SUFFICES ASSUME Init PROVE TypeInv
    OBVIOUS
  <1>1. StoreInv
    BY StoreStart DEF Init
  <1>2. JobInv
    BY DEF Init, SessionInit, JobInv, AtRest, Labels
  <1>3. MemoryOK /\ QueuesOK
    BY DEF Init, SessionInit, MemoryOK, QueuesOK
  <1> QED
    BY <1>1, <1>2, <1>3 DEF TypeInv

LEMMA AlwaysTypes == Spec => []TypeInv
  BY InitTypes, NextKeepsTypes, PTL DEF Spec

\* The session's state is well formed in every behaviour: every worker that is past
\* receiving has a request, whatever is aborted, locked or restarted under it.
THEOREM SessionTypes == Spec => []SessionTypeOK
  <1>1. TypeInv => SessionTypeOK
    BY DEF TypeInv, StoreInv, JobInv, MemoryOK, QueuesOK, SessionTypeOK
  <1> QED
    BY <1>1, AlwaysTypes, PTL

\* The request loop implements the store: every step of every worker, command and
\* restart changes the durable tables by the store's own calls or not at all.
THEOREM SessionImplementsStore == Spec => StoreSpec
  <1>1. Init => StoreInit
    BY DEF Init
  <1> QED
    BY <1>1, NextIsStoreStep, AlwaysTypes, PTL DEF Spec, StoreSpec

\* What the store promises of revocation therefore holds of the running signer.
THEOREM SessionRevocation == Spec => []FlagsAgree /\ RevocationSticks
  BY SessionImplementsStore, StoreSafe, StoreRevocationSticks, PTL

-----------------------------------------------------------------------------
(* One prompt at a time *)

\* What a step of Session::handle or connect leaves alone.
LEMMA StepMoves ==
    ASSUME JobInv, NEW w \in Workers, Step(w)
    PROVE  /\ \E l \in Labels \ {"prompt"} : pc' = [pc EXCEPT ![w] = l]
           /\ pc[w] # "prompt"
           /\ gate' = gate
           /\ \A v \in Workers \ {w} : job'[v] = job[v]
  <1> USE DEF JobInv, Return, Goto, Settle, Home, Labels, Rest
  <1>1. CASE Defer(w)
    BY <1>1 DEF Defer
  <1>2. CASE Open(w)
    BY <1>2 DEF Open
  <1>3. CASE CacheHit(w)
    BY <1>3 DEF CacheHit
  <1>4. CASE CacheMiss(w)
    BY <1>4 DEF CacheMiss
  <1>5. CASE DispatchRefused(w)
    BY <1>5 DEF DispatchRefused, Refuse
  <1>6. CASE DispatchPing(w)
    BY <1>6 DEF DispatchPing
  <1>7. CASE DispatchOperation(w)
    BY <1>7 DEF DispatchOperation
  <1>8. CASE ConnectFindsPairing(w)
    BY <1>8 DEF ConnectFindsPairing
  <1>9. CASE ConnectRefused(w)
    BY <1>9 DEF ConnectRefused, ConnectFails
  <1>10. CASE Consume(w)
    BY <1>10 DEF Consume, ConnectFails
  <1>11. CASE Upsert(w)
    BY <1>11 DEF Upsert
  <1>12. CASE Authorize(w)
    BY <1>12 DEF Authorize
  <1>13. CASE Execute(w)
    BY <1>13 DEF Execute
  <1>14. CASE Seal(w)
    BY <1>14 DEF Seal
  <1>15. CASE Answer(w)
    BY <1>15 DEF Answer
  <1> QED
    BY <1>1, <1>2, <1>3, <1>4, <1>5, <1>6, <1>7, <1>8, <1>9, <1>10, <1>11, <1>12, <1>13,
       <1>14, <1>15 DEF Step

LEMMA NextKeepsGate ==
    ASSUME TypeInv, GateHeldByPrompt, [Next]_vars
    PROVE  GateHeldByPrompt'
  <1> USE DEF TypeInv, JobInv, GateHeldByPrompt
  <1>n. NoWorker \notin Workers /\ Replayer \in Workers /\ Pairer \in Workers
        /\ Accounts \subseteq Workers /\ Pairer \notin Accounts /\ Replayer \notin Accounts
        /\ Pairer # Replayer
    BY SessionAssumption DEF Workers
  <1>1. ASSUME NEW w \in Workers, Step(w)
        PROVE  GateHeldByPrompt'
    BY <1>1, StepMoves
  <1>2. ASSUME NEW w \in Workers, EnterGate(w)
        PROVE  GateHeldByPrompt'
    BY <1>2, <1>n DEF EnterGate, Goto
  <1>3. ASSUME NEW w \in Workers, NEW d \in Decisions, NEW remember \in BOOLEAN,
               UserAnswers(w, d, remember)
        PROVE  GateHeldByPrompt'
    BY <1>3, <1>n DEF UserAnswers, Goto, Settle
  <1>4. ASSUME NEW w \in Workers, PromptEnds(w)
        PROVE  GateHeldByPrompt'
    BY <1>4, <1>n DEF PromptEnds, Settle
  <1>5. ASSUME NEW a \in Accounts, NEW r \in Requests, Receive(a, r)
        PROVE  GateHeldByPrompt'
    BY <1>5, <1>n DEF Receive, Handle, Begin, Rest
  <1>6. CASE ReplayLoop
    BY <1>6, <1>n DEF ReplayLoop, TakeDeferred, ReplayNext, ReplayDone, Handle, Begin, Goto
  <1>7. CASE PairAddsRelays
    <2> DEFINE a == job[Pairer].account
    <2>1. a \in Accounts
      BY <1>7, <1>n, BusyClient DEF PairAddsRelays, AtRest
    <2> HIDE DEF a
    <2>2. CASE a \in vault
      <3>1. /\ gate' = IF gate = a THEN NoWorker ELSE gate
            /\ pc' = [pc EXCEPT ![a] = "idle", ![Pairer] = "accept"]
            /\ pc[Pairer] = "relays"
        BY <1>7, <2>2 DEF PairAddsRelays, AbortListener, a
      <3>2. /\ pc' \in [Workers -> Labels]
            /\ pc'[a] = "idle" /\ pc'[Pairer] = "accept"
            /\ \A w \in Workers \ {a, Pairer} : pc'[w] = pc[w]
        BY <3>1, <2>1, <1>n DEF Labels
      <3> QED
        BY <3>1, <3>2, <2>1, <1>n
    <2>3. CASE a \notin vault
      BY <1>7, <2>3, <1>n DEF PairAddsRelays, Goto, a
    <2> QED
      BY <2>2, <2>3
  <1>8. CASE PairAddsNoRelay \/ AcceptPairing
    BY <1>8, <1>n DEF PairAddsNoRelay, AcceptPairing, Goto, Return, Home, Rest
  <1>9. ASSUME NEW accounts, Unlock(accounts)
        PROVE  GateHeldByPrompt'
    BY <1>9, <1>n DEF Unlock, Goto
  <1>10. ASSUME NEW a \in Accounts, SetRelays(a)
         PROVE  GateHeldByPrompt'
    BY <1>10, <1>n DEF SetRelays, AbortListener, Return, Home
  <1>11. ASSUME NEW a \in Accounts, NEW p \in PubKeys, NEW s \in Secrets, PairClient(a, p, s)
         PROVE  GateHeldByPrompt'
    BY <1>11, <1>n DEF PairClient, Begin, Rest
  <1>12. CASE Restart
    BY <1>12, <1>n DEF Restart
  <1>13. CASE UNCHANGED <<pc, gate>>
    BY <1>13
  <1> QED
    BY <1>1, <1>2, <1>3, <1>4, <1>5, <1>6, <1>7, <1>8, <1>9, <1>10, <1>11, <1>12, <1>13
       DEF Next, Worker, PromptClosed, PairCommand, User, Lock, Command, AllowActivity, PairBunker,
           Time, PairingTimesOut, DeferredGoesStale, ReplayGoesStale, AnswerGoesStale,
           vars, sessionVars

\* At most one prompt is open in every behaviour, and whoever stops waiting for one,
\* by an answer, a timeout or an abort, has let go of the gate.
THEOREM OnePromptAtATime == Spec => []GateHeldByPrompt
  <1>1. Init => GateHeldByPrompt
    BY SessionAssumption DEF Init, SessionInit, GateHeldByPrompt, Workers
  <1> QED
    BY <1>1, NextKeepsGate, AlwaysTypes, PTL DEF Spec

-----------------------------------------------------------------------------
(* Pairing *)

\* The inductive invariant behind the pairing properties.  A worker between looking
\* a pairing up and consuming it holds one that fits its request; one between
\* consuming it and writing the client row has been granted that row; and a consumed
\* pairing's identity is never handed out again.
PairInv ==
    /\ \A r, q \in pairings : r.id = q.id => r = q
    /\ \A r \in pairings : r.id \in issued
    /\ consumed \subseteq issued
    /\ \A g \in grants : g.id \in consumed
    /\ \A w \in Workers : pc[w] = "consume" =>
          /\ job[w].pairing \in issued
          /\ \A r \in pairings : r.id = job[w].pairing =>
                r.account = job[w].account /\ r.client \in {NoKey, job[w].req.sender}
    /\ \A w \in Workers : pc[w] = "upsert" => \E g \in grants : g.client = Client(w)
    /\ OneClientPerPairing
    /\ GrantFitsPairing
    /\ PairedBySecret

\* A step that leaves the pairings and the client rows alone, and brings no worker
\* into the two critical places.
QuietForPairing ==
    /\ UNCHANGED <<pairings, consumed, issued, grants, known>>
    /\ \A w \in Workers :
          pc'[w] \in {"consume", "upsert"} => pc'[w] = pc[w] /\ job'[w] = job[w]

LEMMA QuietKeepsPairing ==
    ASSUME PairInv, QuietForPairing
    PROVE  PairInv'
  <1>1. pairings' = pairings /\ consumed' = consumed /\ issued' = issued /\ grants' = grants
        /\ known' = known
    BY DEF QuietForPairing
  <1>2. ASSUME NEW w \in Workers, pc'[w] = "consume"
        PROVE  /\ job'[w].pairing \in issued'
               /\ \A r \in pairings' : r.id = job'[w].pairing =>
                     r.account = job'[w].account /\ r.client \in {NoKey, job'[w].req.sender}
    BY <1>1, <1>2 DEF PairInv, QuietForPairing
  <1>3. ASSUME NEW w \in Workers, pc'[w] = "upsert"
        PROVE  \E g \in grants' : g.client = Client(w)'
    BY <1>1, <1>3 DEF PairInv, QuietForPairing, Client
  <1>4. OneClientPerPairing' /\ GrantFitsPairing' /\ PairedBySecret'
    BY <1>1 DEF PairInv, OneClientPerPairing, GrantFitsPairing, PairedBySecret
  <1> QED
    BY <1>1, <1>2, <1>3, <1>4 DEF PairInv

LEMMA InsertKeepsPairing ==
    ASSUME PairInv, NEW row, InsertPairing(row), known' = known,
           \A w \in Workers :
              pc'[w] \in {"consume", "upsert"} => pc'[w] = pc[w] /\ job'[w] = job[w]
    PROVE  PairInv'
  <1>1. /\ row.id \notin issued
        /\ pairings' = pairings \cup {row}
        /\ issued' = issued \cup {row.id}
        /\ consumed' = consumed /\ grants' = grants
    BY DEF InsertPairing
  <1>2. (\A r, q \in pairings : r.id = q.id => r = q)'
    BY <1>1 DEF PairInv
  <1>3. (\A r \in pairings : r.id \in issued)' /\ (consumed \subseteq issued)'
        /\ (\A g \in grants : g.id \in consumed)'
    BY <1>1 DEF PairInv
  <1>4. ASSUME NEW w \in Workers, pc'[w] = "consume"
        PROVE  /\ job'[w].pairing \in issued'
               /\ \A r \in pairings' : r.id = job'[w].pairing =>
                     r.account = job'[w].account /\ r.client \in {NoKey, job'[w].req.sender}
    BY <1>1, <1>4 DEF PairInv
  <1>5. ASSUME NEW w \in Workers, pc'[w] = "upsert"
        PROVE  \E g \in grants' : g.client = Client(w)'
    <2>1. pc[w] = "upsert" /\ Client(w)' = Client(w)
      BY <1>5 DEF Client
    <2>2. \E g \in grants : g.client = Client(w)
      BY <2>1 DEF PairInv
    <2> QED
      BY <1>1, <2>1, <2>2
  <1>6. OneClientPerPairing' /\ PairedBySecret'
    BY <1>1 DEF PairInv, OneClientPerPairing, PairedBySecret
  <1>7. GrantFitsPairing'
    BY <1>1 DEF PairInv, GrantFitsPairing
  <1> QED
    BY <1>2, <1>3, <1>4, <1>5, <1>6, <1>7 DEF PairInv

LEMMA ConsumeKeepsPairing ==
    ASSUME TypeInv, PairInv, NEW w \in Workers, Consume(w)
    PROVE  PairInv'
  <1> USE DEF TypeInv, JobInv
  <1>1. CASE ConsumePairing(job[w].pairing, Client(w)) /\ Goto(w, "upsert")
    <2> DEFINE i == job[w].pairing
               g == [id |-> i, client |-> Client(w)]
    <2>1. /\ i \in {r.id : r \in pairings} \ consumed
          /\ consumed' = consumed \cup {i}
          /\ grants' = grants \cup {g}
          /\ pairings' = pairings /\ issued' = issued /\ known' = known
          /\ pc[w] = "consume" /\ pc' = [pc EXCEPT ![w] = "upsert"] /\ job' = job
      BY <1>1 DEF Consume, ConsumePairing, Goto, clientVars
    <2>2. g.id = i /\ g.client = Client(w) /\ g.client = <<job[w].account, job[w].req.sender>>
      BY DEF Client
    <2>3. \A r \in pairings : r.id = i =>
             r.account = job[w].account /\ r.client \in {NoKey, job[w].req.sender}
      BY <2>1 DEF PairInv
    <2>4. \A v \in Workers : Client(v)' = Client(v)
      BY <2>1 DEF Client
    <2> HIDE DEF i, g
    <2>5. OneClientPerPairing'
      BY <2>1, <2>2 DEF PairInv, OneClientPerPairing
    <2>6. GrantFitsPairing'
      BY <2>1, <2>2, <2>3 DEF PairInv, GrantFitsPairing
    <2>7. PairedBySecret'
      BY <2>1 DEF PairInv, PairedBySecret
    <2>8. \A v \in Workers : pc'[v] = "upsert" => \E h \in grants' : h.client = Client(v)'
      <3> SUFFICES ASSUME NEW v \in Workers, pc'[v] = "upsert"
                   PROVE  \E h \in grants' : h.client = Client(v)
        BY <2>4
      <3>1. CASE v = w
        BY <2>1, <2>2, <3>1
      <3>2. CASE v # w
        <4>1. pc[v] = "upsert"
          BY <2>1, <3>2
        <4>2. \E h \in grants : h.client = Client(v)
          BY <4>1 DEF PairInv
        <4> QED
          BY <2>1, <4>2
      <3> QED
        BY <3>1, <3>2
    <2>9. i \in issued
      BY <2>1 DEF PairInv
    <2> QED
      BY <2>1, <2>2, <2>5, <2>6, <2>7, <2>8, <2>9 DEF PairInv
  <1>2. CASE ConnectFails(w) /\ UNCHANGED pairingVars
    <2>1. QuietForPairing
      BY <1>2 DEF Consume, ConnectFails, Return, Settle, Home, clientVars, pairingVars,
                  QuietForPairing
    <2> QED
      BY <2>1, QuietKeepsPairing
  <1> QED
    BY <1>1, <1>2 DEF Consume

LEMMA NextKeepsPairing ==
    ASSUME TypeInv, PairInv, [Next]_vars
    PROVE  PairInv'
  <1> USE DEF TypeInv, JobInv
  <1>n. /\ Replayer \in Workers /\ Pairer \in Workers /\ Accounts \subseteq Workers
    BY DEF Workers
  <1>q. ASSUME QuietForPairing PROVE PairInv'
    BY <1>q, QuietKeepsPairing
  <1>1. ASSUME NEW w \in Workers, ConnectFindsPairing(w)
        PROVE  PairInv'
    <2>1. PICK row \in UsablePairings(job[w].req.secret) :
             Admits(row, job[w]) /\ job' = [job EXCEPT ![w].pairing = row.id]
      BY <1>1 DEF ConnectFindsPairing
    <2>2. row \in pairings /\ row.id \in issued
      BY <2>1 DEF UsablePairings, PairInv
    <2>3. /\ UNCHANGED <<pairings, consumed, issued, grants, known>>
          /\ pc' = [pc EXCEPT ![w] = "consume"]
          /\ pc[w] = "dispatch"
      BY <1>1 DEF ConnectFindsPairing, storeVars, clientVars, pairingVars
    <2>j. job[w] \in Jobs
      BY <2>3, BusyClient DEF AtRest
    <2>4. /\ job'[w].pairing = row.id /\ job'[w].account = job[w].account
          /\ job'[w].req = job[w].req
          /\ \A v \in Workers \ {w} : job'[v] = job[v]
      BY <2>1, <2>j DEF Jobs
    <2>5. \A r \in pairings : r.id = row.id =>
             r.account = job[w].account /\ r.client \in {NoKey, job[w].req.sender}
      BY <2>1, <2>2 DEF PairInv, Admits
    <2>6. \A v \in Workers : Client(v)' = Client(v)
      BY <2>4 DEF Client
    <2> QED
      BY <2>2, <2>3, <2>4, <2>5, <2>6
         DEF PairInv, OneClientPerPairing, GrantFitsPairing, PairedBySecret
  <1>2. ASSUME NEW w \in Workers, Consume(w)
        PROVE  PairInv'
    BY <1>2, ConsumeKeepsPairing
  <1>3. ASSUME NEW w \in Workers, Upsert(w)
        PROVE  PairInv'
    <2>1. /\ UNCHANGED <<pairings, consumed, issued, grants>>
          /\ known' = known \cup {Client(w)}
          /\ pc[w] = "upsert" /\ pc' = [pc EXCEPT ![w] = "seal"]
          /\ \A v \in Workers \ {w} : job'[v] = job[v]
      BY <1>3 DEF Upsert, UpsertClient, Settle, pairingVars
    <2>2. PairedBySecret'
      BY <2>1 DEF PairInv, PairedBySecret
    <2>3. \A v \in Workers : pc'[v] \in {"consume", "upsert"} => v # w /\ pc'[v] = pc[v]
      BY <2>1
    <2>4. \A v \in Workers \ {w} : Client(v)' = Client(v)
      BY <2>1 DEF Client
    <2> QED
      BY <2>1, <2>2, <2>3, <2>4 DEF PairInv, OneClientPerPairing, GrantFitsPairing
  <1>4. ASSUME NEW w \in Workers, Step(w), ~ConnectFindsPairing(w), ~Consume(w), ~Upsert(w)
        PROVE  PairInv'
    <2>1. UNCHANGED <<pairings, consumed, issued, grants, known>>
      BY <1>4 DEF Step, Defer, Open, CacheHit, CacheMiss, DispatchRefused, DispatchPing,
                  DispatchOperation, ConnectRefused, Authorize, Execute, Seal, Answer,
                  storeVars, clientVars, pairingVars
    <2>2. \A v \in Workers \ {w} : pc'[v] = pc[v] /\ job'[v] = job[v]
      BY <1>4, StepMoves
    <2>3. pc'[w] \notin {"consume", "upsert"}
      BY <1>4 DEF Step, Defer, Open, CacheHit, CacheMiss, DispatchRefused, Refuse, DispatchPing,
                  DispatchOperation, ConnectRefused, ConnectFails, Authorize, Execute, Seal,
                  Answer, Return, Goto, Settle, Home
    <2> QED
      BY <1>q, <2>1, <2>2, <2>3 DEF QuietForPairing
  <1>5. ASSUME NEW w \in Workers, EnterGate(w) \/ PromptClosed(w)
        PROVE  PairInv'
    BY <1>5, <1>q DEF EnterGate, PromptClosed, UserAnswers, PromptEnds, SetRule, Goto, Settle,
                      QuietForPairing, storeVars, clientVars, pairingVars
  <1>6. ASSUME NEW a \in Accounts, NEW r \in Requests, Receive(a, r)
        PROVE  PairInv'
    BY <1>6, <1>n, <1>q DEF Receive, Handle, Begin, QuietForPairing, storeVars, clientVars,
                            pairingVars
  <1>7. CASE ReplayLoop
    BY <1>7, <1>n, <1>q DEF ReplayLoop, TakeDeferred, ReplayNext, ReplayDone, Handle, Begin,
                            Goto, QuietForPairing, storeVars, clientVars, pairingVars
  <1>8. CASE PairAddsRelays
    <2>1. job[Pairer].account \in Accounts
      BY <1>8, <1>n, BusyClient DEF PairAddsRelays, AtRest
    <2> QED
      BY <1>8, <2>1, <1>n, <1>q DEF PairAddsRelays, Goto, QuietForPairing, storeVars, clientVars,
                                    pairingVars
  <1>9. CASE PairAddsNoRelay \/ AcceptPairing
    BY <1>9, <1>n, <1>q DEF PairAddsNoRelay, AcceptPairing, Goto, Return, Home, QuietForPairing,
                            storeVars, clientVars, pairingVars
  <1>10. ASSUME NEW accounts, Unlock(accounts)
         PROVE  PairInv'
    BY <1>10, <1>n, <1>q DEF Unlock, Goto, QuietForPairing, storeVars, clientVars, pairingVars
  <1>11. ASSUME NEW a \in Accounts, SetRelays(a)
         PROVE  PairInv'
    BY <1>11, <1>n, <1>q DEF SetRelays, Return, Home, QuietForPairing, storeVars, clientVars,
                             pairingVars
  <1>12. ASSUME NEW a \in Accounts, NEW p \in PubKeys, NEW s \in Secrets, PairClient(a, p, s)
         PROVE  PairInv'
    <2>1. PICK i \in PairingIds :
             InsertPairing([id |-> i, account |-> a, secret |-> s, client |-> p])
      BY <1>12 DEF PairClient, AcceptClientUri
    <2>2. known' = known
      BY <1>12 DEF PairClient, clientVars
    <2>3. \A w \in Workers :
             pc'[w] \in {"consume", "upsert"} => pc'[w] = pc[w] /\ job'[w] = job[w]
      BY <1>12, <1>n DEF PairClient, Begin
    <2> QED
      BY <2>1, <2>2, <2>3, InsertKeepsPairing
  <1>13. ASSUME NEW a \in Accounts, PairBunker(a)
         PROVE  PairInv'
    <2>1. PICK i \in PairingIds :
             InsertPairing([id |-> i, account |-> a, secret |-> i, client |-> NoKey])
      BY <1>13 DEF PairBunker, MintBunkerUri
    <2>2. known' = known /\ pc' = pc /\ job' = job
      BY <1>13 DEF PairBunker, clientVars, sessionVars
    <2> QED
      BY <2>1, <2>2, InsertKeepsPairing
  <1>14. CASE Restart
    <2>1. /\ pairings' \subseteq pairings
          /\ UNCHANGED <<consumed, issued, grants, known>>
          /\ \A w \in Workers : pc'[w] = "idle"
      BY <1>14 DEF Restart, PrunePairings, clientVars
    <2> QED
      BY <2>1 DEF PairInv, OneClientPerPairing, GrantFitsPairing, PairedBySecret
  <1>15. ASSUME NEW c \in Clients, Command(c)
         PROVE  PairInv'
    BY <1>15, <1>q DEF Command, SetClientAllowAll, DenyClientActions, ForgetClientRules,
                       RevokeClient, RemoveClient, SetRule, ClearRule, QuietForPairing,
                       pairingVars, sessionVars
  <1>16. ASSUME NEW row \in activity, AllowActivity(row)
         PROVE  PairInv'
    BY <1>16, <1>q DEF AllowActivity, RememberActivity, SetRule, QuietForPairing, pairingVars,
                       sessionVars
  <1>17. ASSUME NEW i \in PairingIds, PairingTimesOut(i)
         PROVE  PairInv'
    BY <1>17, <1>q DEF PairingTimesOut, PairingExpires, QuietForPairing, clientVars, sessionVars
  <1>18. CASE UNCHANGED <<storeVars, pc, job>>
    BY <1>18, <1>q DEF QuietForPairing, storeVars, clientVars, pairingVars
  <1> QED
    BY <1>1, <1>2, <1>3, <1>4, <1>5, <1>6, <1>7, <1>8, <1>9, <1>10, <1>11, <1>12, <1>13, <1>14,
       <1>15, <1>16, <1>17, <1>18
       DEF Next, Worker, PairCommand, User, Lock, Time, DeferredGoesStale, ReplayGoesStale,
           AnswerGoesStale, vars, sessionVars

LEMMA AlwaysPaired == Spec => []PairInv
  <1>1. Init => PairInv
    BY DEF Init, StoreInit, SessionInit, PairInv, OneClientPerPairing, GrantFitsPairing,
           PairedBySecret
  <1> QED
    BY <1>1, NextKeepsPairing, AlwaysTypes, PTL DEF Spec

\* For any number of accounts, clients and concurrent connects: a pairing admits one
\* client (consume_pairing).
THEOREM PairingIsOneShot == Spec => []OneClientPerPairing
  <1>1. PairInv => OneClientPerPairing
    BY DEF PairInv
  <1> QED
    BY <1>1, AlwaysPaired, PTL

\* The client a pairing admits is on the pairing's account, and is the one its URI named
\* if it named one, whichever of handle, the replay loop and pair_client brought it.
THEOREM PairingFitsItsClient == Spec => []GrantFitsPairing
  <1>1. PairInv => GrantFitsPairing
    BY DEF PairInv
  <1> QED
    BY <1>1, AlwaysPaired, PTL

\* The session stays well formed, and no client row exists without a pairing consumed for it
\* (Session::connect), also after clients were removed and restarts cut a connect short.
THEOREM ClientsWerePaired == Spec => []SessionInv
  <1>1. PairInv => PairedBySecret
    BY DEF PairInv
  <1> QED
    BY <1>1, SessionTypes, AlwaysPaired, PTL DEF SessionInv

-----------------------------------------------------------------------------
(* Who is served *)

\* Past the revocation check of dispatch, on the way to execute.
Cleared == {"authorize", "gate", "prompt", "execute"}

Allowed(w) == [client |-> Client(w), scope |-> job[w].req.scope, outcome |-> "allowed"]

\* The inductive invariant: a revocation seen on receipt is still there (it sticks),
\* so no such request gets past dispatch; and a request is logged as allowed by the
\* time it is about to be executed.
ServeInv ==
    /\ \A w \in Workers : (pc[w] \notin AtRest /\ job[w].barred) => Client(w) \in revoked
    /\ \A w \in Workers : pc[w] \in Cleared => ~job[w].barred
    /\ \A w \in Workers : pc[w] = "execute" => Allowed(w) \in activity
    /\ RevokedNeverServed
    /\ ServedIsLogged

SameRequest(w) ==
    /\ job'[w].account = job[w].account
    /\ job'[w].req = job[w].req
    /\ job'[w].barred = job[w].barred

\* How a worker may move without being any closer to execute.
Idles(w) ==
    \/ pc'[w] \in AtRest
    \/ /\ pc[w] \notin AtRest /\ SameRequest(w)
       /\ pc'[w] \in Cleared => pc[w] \in Cleared
       /\ pc'[w] = "execute" => pc[w] = "execute"
    \/ /\ pc'[w] \notin Cleared
       /\ job'[w].barred => Client(w)' \in revoked

LEMMA GrowingStore ==
    ASSUME TypeInv, [Next]_vars
    PROVE  revoked \subseteq revoked' /\ activity \subseteq activity'
  <1>1. [StoreNext]_storeVars
    BY NextIsStoreStep
  <1>2. activity \subseteq activity'
    BY <1>1 DEF StoreNext, RecordActivity, storeVars
  <1> QED
    BY <1>1, <1>2, StoreStepKeeps DEF TypeInv

LEMMA IdlingKeepsServe ==
    ASSUME ServeInv, revoked \subseteq revoked', activity \subseteq activity', served' = served,
           \A w \in Workers : Idles(w)
    PROVE  ServeInv'
  <1>0. "execute" \notin AtRest /\ "execute" \in Cleared /\ Cleared \cap AtRest = {}
    BY DEF AtRest, Cleared
  <1>1. ASSUME NEW w \in Workers, pc'[w] \notin AtRest, job'[w].barred
        PROVE  Client(w)' \in revoked'
    BY <1>1 DEF Idles, SameRequest, ServeInv, Client
  <1>2. ASSUME NEW w \in Workers, pc'[w] \in Cleared
        PROVE  ~job'[w].barred
    BY <1>0, <1>2 DEF Idles, SameRequest, ServeInv
  <1>3. ASSUME NEW w \in Workers, pc'[w] = "execute"
        PROVE  Allowed(w)' \in activity'
    BY <1>0, <1>3 DEF Idles, SameRequest, ServeInv, Allowed, Client
  <1>4. RevokedNeverServed' /\ ServedIsLogged'
    BY DEF ServeInv, RevokedNeverServed, ServedIsLogged
  <1> QED
    BY <1>1, <1>2, <1>3, <1>4 DEF ServeInv

\* A step of handle that is not one of the three on the way to execute.
LEMMA StepIdles ==
    ASSUME TypeInv, NEW w \in Workers, Step(w),
           ~DispatchOperation(w), ~Authorize(w), ~Execute(w)
    PROVE  served' = served /\ \A v \in Workers : Idles(v)
  <1> USE DEF TypeInv, JobInv
  <1>1. ASSUME NEW v \in Workers \ {w} PROVE Idles(v)
    BY StepMoves DEF Idles, SameRequest, AtRest
  <1>2. pc[w] \notin AtRest /\ job[w] \in Jobs
    BY BusyClient DEF Step, AtRest, Defer, Open, CacheHit, CacheMiss, DispatchRefused, DispatchPing,
           ConnectFindsPairing, ConnectRefused, Consume, Upsert, Seal, Answer
  <1>3. ASSUME Return(w) PROVE Idles(w)
    BY <1>3 DEF Return, Home, Idles, AtRest
  <1>4. ASSUME NEW r \in Results, Settle(w, r) PROVE Idles(w)
    <2>2. SameRequest(w) /\ pc'[w] = "seal"
      BY <1>4, <1>2 DEF Settle, SameRequest, Jobs
    <2> QED
      BY <2>2, <1>2 DEF Idles, Cleared
  <1>5. ASSUME NEW l \in {"cache", "dispatch", "upsert", "answer"}, Goto(w, l)
        PROVE  Idles(w)
    BY <1>5, <1>2 DEF Goto, Idles, SameRequest, Cleared
  <1>6. ASSUME ConnectFindsPairing(w) PROVE Idles(w)
    <2>1. PICK row : job' = [job EXCEPT ![w].pairing = row.id]
      BY <1>6 DEF ConnectFindsPairing
    <2>2. SameRequest(w) /\ pc'[w] = "consume"
      BY <1>6, <2>1, <1>2 DEF ConnectFindsPairing, SameRequest, Jobs
    <2> QED
      BY <2>2, <1>2 DEF Idles, Cleared
  <1>7. Idles(w)
    BY <1>3, <1>4, <1>5, <1>6
       DEF Step, Defer, Open, CacheHit, CacheMiss, DispatchRefused, Refuse, DispatchPing,
           ConnectRefused, ConnectFails, Consume, Upsert, Seal, Answer, Results
  <1>8. served' = served
    BY DEF Step, Defer, Open, CacheHit, CacheMiss, DispatchRefused, DispatchPing,
           ConnectFindsPairing, ConnectRefused, Consume, Upsert, Seal, Answer, Rest, HistoryVars
  <1> QED
    BY <1>1, <1>7, <1>8

LEMMA NextKeepsServe ==
    ASSUME TypeInv, ServeInv, [Next]_vars
    PROVE  ServeInv'
  <1> USE DEF TypeInv, JobInv
  <1>n. /\ Replayer \in Workers /\ Pairer \in Workers /\ Accounts \subseteq Workers
    BY DEF Workers
  <1>g. revoked \subseteq revoked' /\ activity \subseteq activity'
    BY GrowingStore
  <1>q. ASSUME served' = served, \A w \in Workers : Idles(w) PROVE ServeInv'
    BY <1>q, <1>g, IdlingKeepsServe
  <1>1. ASSUME NEW w \in Workers, DispatchOperation(w)
        PROVE  ServeInv'
    <2>1. /\ Client(w) \notin revoked /\ pc[w] = "dispatch"
          /\ pc' = [pc EXCEPT ![w] = "authorize"] /\ job' = job /\ served' = served
      BY <1>1 DEF DispatchOperation, Goto, Rest, HistoryVars
    <2>2. ~job[w].barred
      BY <2>1 DEF ServeInv, AtRest
    <2>3. RevokedNeverServed' /\ ServedIsLogged'
      BY <2>1, <1>g DEF ServeInv, RevokedNeverServed, ServedIsLogged
    <2> QED
      BY <2>1, <2>2, <2>3, <1>g DEF ServeInv, AtRest, Cleared, Client, Allowed
  <1>2. ASSUME NEW w \in Workers, Authorize(w)
        PROVE  ServeInv'
    <2>1. pc[w] = "authorize" /\ served' = served
      BY <1>2 DEF Authorize, Rest, HistoryVars
    <2>2. CASE RecordActivity(Client(w), job[w].req.scope, "allowed") /\ Goto(w, "execute")
      <3>1. /\ Allowed(w) \in activity' /\ job' = job /\ pc' = [pc EXCEPT ![w] = "execute"]
        BY <2>2 DEF RecordActivity, Goto, Allowed
      <3>2. RevokedNeverServed' /\ ServedIsLogged'
        BY <2>1, <1>g DEF ServeInv, RevokedNeverServed, ServedIsLogged
      <3> QED
        BY <2>1, <3>1, <3>2, <1>g DEF ServeInv, AtRest, Cleared, Client, Allowed
    <2>3. CASE Settle(w, "error")
      <3>1. job[w] \in Jobs
        BY <2>1, BusyClient DEF AtRest
      <3>2. SameRequest(w) /\ pc'[w] = "seal"
        BY <2>3, <3>1 DEF Settle, SameRequest, Jobs
      <3>3. \A v \in Workers \ {w} : pc'[v] = pc[v] /\ job'[v] = job[v]
        BY <2>3 DEF Settle
      <3> QED
        BY <1>q, <2>1, <3>2, <3>3 DEF Idles, SameRequest, Cleared, AtRest
    <2>4. CASE Goto(w, "gate")
      BY <1>q, <2>1, <2>4 DEF Goto, Idles, SameRequest, Cleared, AtRest
    <2> QED
      BY <1>2, <2>2, <2>3, <2>4 DEF Authorize
  <1>3. ASSUME NEW w \in Workers, Execute(w)
        PROVE  ServeInv'
    <2>1. pc[w] = "execute" /\ job[w] \in Jobs /\ ~job[w].barred /\ Allowed(w) \in activity
      BY <1>3, BusyClient DEF Execute, ServeInv, AtRest, Cleared
    <2>2. /\ SameRequest(w) /\ pc'[w] = "seal"
          /\ \A v \in Workers \ {w} : pc'[v] = pc[v] /\ job'[v] = job[v]
      BY <1>3, <2>1 DEF Execute, Settle, SameRequest, Jobs
    <2>3. \A v \in Workers : Idles(v)
      BY <2>1, <2>2 DEF Idles, SameRequest, Cleared, AtRest
    <2>4. served' \subseteq served \cup
             {[client |-> Client(w), scope |-> job[w].req.scope, barred |-> job[w].barred]}
      BY <1>3 DEF Execute
    <2>5. RevokedNeverServed'
      BY <2>1, <2>4 DEF ServeInv, RevokedNeverServed
    <2>6. ServedIsLogged'
      <3> SUFFICES ASSUME NEW e \in served'
                   PROVE  [client |-> e.client, scope |-> e.scope, outcome |-> "allowed"]
                             \in activity'
        BY DEF ServedIsLogged
      <3>1. CASE e \in served
        BY <3>1, <1>g DEF ServeInv, ServedIsLogged
      <3>2. CASE e \notin served
        <4>1. e.client = Client(w) /\ e.scope = job[w].req.scope
          BY <2>4, <3>2
        <4> QED
          BY <4>1, <2>1, <1>g DEF Allowed
      <3> QED
        BY <3>1, <3>2
    <2>7. ASSUME NEW v \in Workers, pc'[v] \notin AtRest, job'[v].barred
          PROVE  Client(v)' \in revoked'
      BY <2>3, <2>7, <1>g DEF Idles, SameRequest, ServeInv, Client
    <2>8. ASSUME NEW v \in Workers, pc'[v] \in Cleared
          PROVE  ~job'[v].barred /\ (pc'[v] = "execute" => Allowed(v)' \in activity')
      BY <2>2, <2>8, <1>g DEF Cleared, SameRequest, ServeInv, Client, Allowed
    <2>9. "execute" \in Cleared
      BY DEF Cleared
    <2> QED
      BY <2>5, <2>6, <2>7, <2>8, <2>9 DEF ServeInv
  <1>4. ASSUME NEW w \in Workers, Step(w), ~DispatchOperation(w), ~Authorize(w), ~Execute(w)
        PROVE  ServeInv'
    BY <1>4, <1>q, StepIdles
  <1>5. ASSUME NEW w \in Workers, EnterGate(w)
        PROVE  ServeInv'
    BY <1>5, <1>q DEF EnterGate, Goto, HistoryVars, Idles, SameRequest, Cleared, AtRest
  <1>6. ASSUME NEW w \in Workers, NEW d \in Decisions, NEW remember \in BOOLEAN,
               UserAnswers(w, d, remember)
        PROVE  ServeInv'
    <2>1. pc[w] = "prompt" /\ served' = served /\ job[w] \in Jobs
      BY <1>6, BusyClient DEF UserAnswers, HistoryVars, AtRest
    <2>2. CASE d = "allow"
      <3>1. /\ Allowed(w) \in activity' /\ job' = job /\ pc' = [pc EXCEPT ![w] = "execute"]
        BY <1>6, <2>2 DEF UserAnswers, RecordActivity, Goto, Allowed
      <3>2. RevokedNeverServed' /\ ServedIsLogged'
        BY <2>1, <1>g DEF ServeInv, RevokedNeverServed, ServedIsLogged
      <3> QED
        BY <2>1, <3>1, <3>2, <1>g DEF ServeInv, AtRest, Cleared, Client, Allowed
    <2>3. CASE d # "allow"
      <3>1. /\ SameRequest(w) /\ pc'[w] = "seal"
            /\ \A v \in Workers \ {w} : pc'[v] = pc[v] /\ job'[v] = job[v]
        BY <1>6, <2>1, <2>3 DEF UserAnswers, Settle, SameRequest, Jobs
      <3> QED
        BY <1>q, <2>1, <3>1 DEF Idles, SameRequest, Cleared, AtRest
    <2> QED
      BY <2>2, <2>3
  <1>7. ASSUME NEW w \in Workers, PromptEnds(w)
        PROVE  ServeInv'
    <2>1. pc[w] = "prompt" /\ served' = served /\ job[w] \in Jobs
      BY <1>7, BusyClient DEF PromptEnds, HistoryVars, AtRest
    <2>2. /\ SameRequest(w) /\ pc'[w] = "seal"
          /\ \A v \in Workers \ {w} : pc'[v] = pc[v] /\ job'[v] = job[v]
      BY <1>7, <2>1 DEF PromptEnds, Settle, SameRequest, Jobs
    <2> QED
      BY <1>q, <2>1, <2>2 DEF Idles, SameRequest, Cleared, AtRest
  <1>b. ASSUME NEW w \in Workers, NEW a, NEW r, NEW l, l \notin Cleared, Begin(w, a, r, l),
               served' = served
        PROVE  ServeInv'
    <2>1. /\ pc'[w] = l
          /\ job'[w] = [account |-> a, req |-> r, result |-> "none", pairing |-> NoId,
                        barred |-> <<a, r.sender>> \in revoked]
          /\ \A v \in Workers \ {w} : pc'[v] = pc[v] /\ job'[v] = job[v]
      BY <1>b DEF Begin
    <2>2. pc'[w] \notin Cleared /\ (job'[w].barred => Client(w)' \in revoked)
      <3> DEFINE was == <<a, r.sender>> \in revoked
      <3>1. job'[w] = [account |-> a, req |-> r, result |-> "none", pairing |-> NoId,
                       barred |-> was]
        BY <2>1
      <3> HIDE DEF was
      <3>2. job'[w].account = a /\ job'[w].req = r /\ job'[w].barred = was
        BY <3>1
      <3>3. Client(w)' = <<a, r.sender>>
        BY <3>2 DEF Client
      <3> QED
        BY <1>b, <2>1, <3>2, <3>3, Zenon DEF was
    <2>3. ASSUME NEW v \in Workers \ {w} PROVE Idles(v)
      BY <2>1 DEF Idles, SameRequest, AtRest, Client, Cleared
    <2>4. Idles(w)
      BY <2>2 DEF Idles
    <2> QED
      BY <1>b, <1>q, <2>3, <2>4
  <1>8. ASSUME NEW a \in Accounts, NEW r \in Requests, Receive(a, r)
        PROVE  ServeInv'
    BY <1>8, <1>b, <1>n DEF Receive, Handle, Rest, HistoryVars, Cleared
  <1>9. CASE ReplayNext
    <2>1. CASE Head(replay).account \in replayFor
      BY <1>9, <2>1, <1>b, <1>n DEF ReplayNext, Handle, HistoryVars, Cleared
    <2>2. CASE Head(replay).account \notin replayFor
      BY <1>9, <2>2, <1>q DEF ReplayNext, HistoryVars, Idles, SameRequest, AtRest
    <2> QED
      BY <2>1, <2>2
  <1>10. CASE TakeDeferred \/ ReplayDone
    BY <1>10, <1>q, <1>n DEF TakeDeferred, ReplayDone, Goto, HistoryVars, Idles, SameRequest, AtRest
  <1>11. CASE PairAddsRelays
    <2>1. job[Pairer].account \in Accounts
      BY <1>11, <1>n, BusyClient DEF PairAddsRelays, AtRest
    <2>2. job[Pairer].account # Pairer
      BY <2>1, SessionAssumption
    <2> QED
      BY <1>11, <2>1, <2>2, <1>n, <1>q DEF PairAddsRelays, Goto, HistoryVars, Idles, SameRequest,
                                           AtRest, Cleared
  <1>12. CASE PairAddsNoRelay \/ AcceptPairing
    BY <1>12, <1>n, <1>q DEF PairAddsNoRelay, AcceptPairing, Goto, Return, Home, Rest, HistoryVars,
                             Idles, SameRequest, AtRest, Cleared
  <1>13. ASSUME NEW accounts, Unlock(accounts)
         PROVE  ServeInv'
    BY <1>13, <1>n, <1>q DEF Unlock, Goto, HistoryVars, Idles, SameRequest, AtRest
  <1>14. ASSUME NEW a \in Accounts, SetRelays(a)
         PROVE  ServeInv'
    BY <1>14, <1>n, <1>q DEF SetRelays, Return, Home, HistoryVars, Idles, SameRequest, AtRest
  <1>15. ASSUME NEW a \in Accounts, NEW p \in PubKeys, NEW s \in Secrets, PairClient(a, p, s)
         PROVE  ServeInv'
    BY <1>15, <1>b, <1>n DEF PairClient, Rest, HistoryVars, Cleared
  <1>16. CASE Restart
    BY <1>16, <1>q DEF Restart, HistoryVars, Idles, AtRest
  <1>17. CASE UNCHANGED <<pc, job, served>>
    BY <1>17, <1>q DEF Idles, SameRequest, AtRest
  <1> QED
    BY <1>1, <1>2, <1>3, <1>4, <1>5, <1>6, <1>7, <1>8, <1>9, <1>10, <1>11, <1>12, <1>13, <1>14,
       <1>15, <1>16, <1>17
       DEF Next, Worker, PromptClosed, ReplayLoop, PairCommand, User, Lock, Command, AllowActivity,
           PairBunker, Time, PairingTimesOut, DeferredGoesStale, ReplayGoesStale, AnswerGoesStale,
           vars, sessionVars, HistoryVars

LEMMA AlwaysServes == Spec => []ServeInv
  <1>1. Init => ServeInv
    BY DEF Init, SessionInit, ServeInv, RevokedNeverServed, ServedIsLogged, AtRest, Cleared
  <1> QED
    BY <1>1, NextKeepsServe, AlwaysTypes, PTL DEF Spec

\* For any number of accounts, clients and workers: nothing is done for a client that
\* was revoked when its request came in (dispatch).
THEOREM ServedOnlyWithConsent == Spec => []RevokedNeverServed
  <1>1. ServeInv => RevokedNeverServed
    BY DEF ServeInv
  <1> QED
    BY <1>1, AlwaysServes, PTL

\* Nothing is done that the log does not show as allowed (authorize and prompt record
\* before execute runs), whatever rules, switches and prompts the consent came from.
THEOREM ServiceIsLogged == Spec => []ServedIsLogged
  <1>1. ServeInv => ServedIsLogged
    BY DEF ServeInv
  <1> QED
    BY <1>1, AlwaysServes, PTL
=============================================================================
