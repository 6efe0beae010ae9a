--------------------------- MODULE ReceivingProofs ---------------------------
(***************************************************************************)
(* Collecting payments, for any wallets, quotes and delays: the types, and *)
(* that a mint is left alone for the whole of a delay, wherever the app    *)
(* dies.                                                                   *)
(***************************************************************************)
EXTENDS Receiving, TLAPS

\* The record of a quote counts the attempts made at it, and what is left of its delay
\* and the time since the last attempt are together the delay.
Recorded(r, n, t) == r.attempts = n /\ (n > 0 => r.wait + t >= Delay(n))

Jobs ==
    [op : {"none", "loop", "open", "enable"}, slots : SUBSET Slots,
     slot : Slots \cup {NoSlot}, manual : BOOLEAN, todo : SUBSET Quotes,
     quote : Quotes \cup {NoQuote}, result : {"none", "ok", "later", "never"}]

\* Who holds the gate: the provider's settings are read for a wallet in hand.
PlaceOK == pc \in Labels /\ job \in Jobs /\ (pc = "discover" => job.slot \in Slots)

\* The provider, the mints, the wallets and the addresses.
MoneyOK ==
    /\ held \in BOOLEAN
    /\ route \in [slot : Slots \cup {NoSlot}, locks : BOOLEAN]
    /\ listed \subseteq Quotes /\ paid \subseteq Quotes
    /\ known \subseteq Quotes /\ minted \subseteq Quotes
    /\ address \subseteq Slots
    /\ lightning \in {"none", "provider", "own"}

RecordsOK ==
    /\ retry \in [Quotes -> Retries]
    /\ tries \in [Quotes -> 0 .. MaxTries] /\ since \in [Quotes -> 0 .. MaxDelay]
    /\ \A q \in Quotes : Recorded(retry[q], tries[q], since[q])

CollectInv == PlaceOK /\ MoneyOK /\ RecordsOK

-----------------------------------------------------------------------------
(* The delay *)

LEMMA MinOfTwo ==
    ASSUME NEW x \in Int, NEW y \in Int
    PROVE  Min({x, y}) = IF x <= y THEN x ELSE y
  BY DEF Min

LEMMA MaxOfTwo ==
    ASSUME NEW x \in Int, NEW y \in Int
    PROVE  Max({x, y}) = IF x >= y THEN x ELSE y
  BY DEF Max

LEMMA DelayIsBounded ==
    ASSUME NEW n \in 1 .. MaxTries
    PROVE  Delay(n) \in 0 .. MaxDelay
  <1>1. Doublings \in Nat /\ MaxDelay \in Nat /\ n - 1 \in 0 .. Doublings
    BY ReceivingAssumption DEF MaxTries
  <1>2. Min({n - 1, Doublings}) = n - 1
    BY <1>1, MinOfTwo
  <1> DEFINE p == 2 ^ (n - 1)
  <1>3. p \in Nat
    BY <1>1, PowersAreNumbers
  <1>4. Delay(n) = Min({p, MaxDelay})
    BY <1>2 DEF Delay
  <1> HIDE DEF p
  <1> QED
    BY <1>1, <1>3, <1>4, MinOfTwo

\* One more attempt, at a quote that may have had as many as are told apart.
LEMMA OneMore ==
    ASSUME NEW n \in 0 .. MaxTries
    PROVE  Min({n + 1, MaxTries}) \in 1 .. MaxTries
  BY ReceivingAssumption, MinOfTwo DEF MaxTries

LEMMA PendingIsRecorded ==
    ASSUME NEW r \in Retries
    PROVE  Pending(r) \in Retries /\ Recorded(Pending(r), Min({r.attempts + 1, MaxTries}), 0)
  <1> DEFINE n == Min({r.attempts + 1, MaxTries})
  <1>1. n \in 1 .. MaxTries
    BY OneMore DEF Retries
  <1>2. Delay(n) \in 0 .. MaxDelay
    BY <1>1, DelayIsBounded
  <1>3. Pending(r) = [attempts |-> n, wait |-> Delay(n), blocked |-> FALSE]
    BY DEF Pending
  <1>4. MaxTries \in Nat /\ MaxDelay \in Nat
    BY ReceivingAssumption DEF MaxTries
  <1> HIDE DEF n
  <1>5. Pending(r) \in Retries
    BY <1>1, <1>2, <1>3, <1>4 DEF Retries
  <1>6. Recorded(Pending(r), n, 0)
    BY <1>1, <1>2, <1>3, <1>4 DEF Recorded
  <1> QED
    BY <1>5, <1>6 DEF n

\* A unit of time passes.
LEMMA TickIsRecorded ==
    ASSUME NEW r \in Retries, NEW n \in 0 .. MaxTries, NEW t \in 0 .. MaxDelay, Recorded(r, n, t)
    PROVE  LET r2 == [r EXCEPT !.wait = Max({@, 1}) - 1]
               t2 == Min({t + 1, MaxDelay})
           IN r2 \in Retries /\ t2 \in 0 .. MaxDelay /\ Recorded(r2, n, t2)
  <1> DEFINE w == Max({r.wait, 1}) - 1
             t2 == Min({t + 1, MaxDelay})
             r2 == [r EXCEPT !.wait = w]
  <1>0. MaxDelay \in Nat \ {0} /\ MaxTries \in Nat
    BY ReceivingAssumption DEF MaxTries
  <1>1. r.wait \in 0 .. MaxDelay
    BY DEF Retries
  <1>2. w \in 0 .. MaxDelay /\ w >= r.wait - 1
    BY <1>0, <1>1, MaxOfTwo
  <1>3. t2 \in 0 .. MaxDelay /\ (t2 >= t + 1 \/ t2 = MaxDelay)
    BY <1>0, MinOfTwo
  <1> HIDE DEF w, t2
  <1>4. r2 \in Retries /\ r2.attempts = r.attempts /\ r2.wait = w
    BY <1>2 DEF Retries
  <1>5. n > 0 => w + t2 >= Delay(n)
    <2>1. ASSUME n > 0 PROVE Delay(n) \in 0 .. MaxDelay /\ r.wait + t >= Delay(n)
      BY <2>1, <1>0, DelayIsBounded DEF Recorded
    <2> QED
      BY <1>0, <1>1, <1>2, <1>3, <2>1
  <1> HIDE DEF r2
  <1>6. Recorded(r2, n, t2)
    BY <1>4, <1>5 DEF Recorded
  <1> QED
    BY <1>3, <1>4, <1>6 DEF r2, w, t2

-----------------------------------------------------------------------------
(* Who refreshes *)

LEMMA NoJobType == NoJob \in Jobs
  BY DEF NoJob, Jobs

LEMMA ReturnKeeps == ASSUME Return PROVE PlaceOK'
  BY NoJobType DEF Return, PlaceOK, Labels

\* Steps that leave the records alone.
LEMMA RecordsStay ==
    ASSUME RecordsOK, UNCHANGED <<retry, tries, since>>
    PROVE  RecordsOK'
  BY DEF RecordsOK, Recorded

LEMMA EnterKeeps ==
    ASSUME CollectInv, NEW op \in {"loop", "open", "enable"}, NEW slots \in SUBSET Slots,
           NEW manual \in BOOLEAN, NEW label \in {"next", "lock"}, Enter(op, slots, manual, label)
    PROVE  PlaceOK' /\ RecordsOK' /\ UNCHANGED <<held, lightning, known, minted, address>>
  <1>1. PlaceOK'
    BY NoJobType DEF Enter, PlaceOK, Jobs, Labels
  <1> QED
    BY <1>1, RecordsStay DEF CollectInv, Enter, wallets, history

LEMMA LoopKeeps == ASSUME CollectInv, LoopBegins PROVE CollectInv'
  <1>1. PlaceOK' /\ RecordsOK' /\ UNCHANGED <<held, lightning, known, minted, address>>
    BY EnterKeeps DEF LoopBegins
  <1> QED
    BY <1>1 DEF CollectInv, LoopBegins, world, MoneyOK

LEMMA OpenKeeps ==
    ASSUME CollectInv, NEW s \in Slots, NEW manual \in BOOLEAN, Open(s, manual)
    PROVE  CollectInv'
  <1>1. PlaceOK' /\ RecordsOK' /\ UNCHANGED <<held, lightning, known, minted, address>>
    BY EnterKeeps DEF Open
  <1> QED
    BY <1>1 DEF CollectInv, Open, world, MoneyOK

LEMMA EnableKeeps == ASSUME CollectInv, NEW s \in Slots, Enable(s) PROVE CollectInv'
  <1>1. PlaceOK' /\ RecordsOK' /\ UNCHANGED <<held, lightning, known, minted, address>>
    BY EnterKeeps DEF Enable
  <1>2. MoneyOK'
    BY <1>1 DEF CollectInv, Enable, MoneyOK
  <1> QED
    BY <1>1, <1>2 DEF CollectInv

-----------------------------------------------------------------------------
(* The refresh *)

\* Steps of the refresh that ask the provider or choose what is next.
LEMMA RefreshKeeps ==
    ASSUME CollectInv,
           \/ EnableLock \/ EnableVerify \/ EnableFails \/ NextSlot
           \/ Discover \/ Sync \/ RefreshFails \/ LookAtAddress \/ SetAddress
           \/ Unissued \/ Finished
    PROVE  CollectInv'
  <1> USE DEF CollectInv, Goto, world, wallets, history
  <1>1. UNCHANGED <<retry, tries, since>>
    BY DEF EnableLock, EnableVerify, EnableFails, NextSlot, Discover, Sync, RefreshFails,
           LookAtAddress, SetAddress, Unissued, Finished
  <1>2. RecordsOK'
    BY <1>1, RecordsStay
  <1>3. MoneyOK'
    <2>1. CASE \/ EnableLock \/ EnableFails \/ NextSlot
               \/ LookAtAddress \/ SetAddress \/ Unissued \/ Finished
      BY <2>1 DEF MoneyOK, EnableLock, EnableFails, NextSlot, LookAtAddress, SetAddress, Unissued,
                  Finished
    <2>2. CASE EnableVerify
      BY <2>2 DEF MoneyOK, EnableVerify, PlaceOK, Jobs
    <2>3. CASE Discover
      <3>1. job.slot \in Slots
        BY <2>3 DEF PlaceOK, Discover
      <3> QED
        BY <2>3, <3>1 DEF MoneyOK, Discover
    <2>4. CASE Sync
      BY <2>4 DEF MoneyOK, Sync
    <2>5. CASE RefreshFails
      <3>1. PICK some \in SUBSET {q \in listed \ minted : SlotOf[q] = job.slot} :
              known' = IF pc = "sync" THEN known \cup some ELSE known
        BY <2>5 DEF RefreshFails
      <3>2. some \subseteq Quotes
        BY DEF MoneyOK
      <3> QED
        BY <2>5, <3>1, <3>2 DEF MoneyOK, RefreshFails
    <2> QED
      BY <2>1, <2>2, <2>3, <2>4, <2>5
  <1>4. PlaceOK'
    <2>1. CASE \/ EnableLock \/ EnableVerify \/ Discover \/ Sync
               \/ RefreshFails \/ LookAtAddress \/ SetAddress
      BY <2>1 DEF PlaceOK, Labels, EnableLock, EnableVerify, Discover, Sync, RefreshFails,
                  LookAtAddress, SetAddress
    <2>2. CASE EnableFails
      BY <2>2, ReturnKeeps DEF EnableFails
    <2>3. CASE NextSlot
      <3>1. CASE Return
        BY <3>1, ReturnKeeps
      <3>2. ASSUME NEW s \in job.slots, job' = [job EXCEPT !.slot = s, !.slots = @ \ {s}],
                   pc' = "discover"
            PROVE  PlaceOK'
        BY <3>2 DEF PlaceOK, Labels, Jobs
      <3> QED
        BY <2>3, <3>1, <3>2 DEF NextSlot
    <2>4. CASE Unissued
      <3>1. {q \in known \ minted : SlotOf[q] = job.slot} \in SUBSET Quotes
        BY DEF MoneyOK
      <3> QED
        BY <2>4, <3>1 DEF Unissued, PlaceOK, Labels, Jobs
    <2>5. CASE Finished
      BY <2>5 DEF Finished, PlaceOK, Labels, Jobs
    <2> QED
      BY <2>1, <2>2, <2>3, <2>4, <2>5
  <1> QED
    BY <1>2, <1>3, <1>4

-----------------------------------------------------------------------------
(* Collecting *)

LEMMA PickKeeps == ASSUME CollectInv, NEW q \in Quotes, Pick(q) PROVE CollectInv'
  <1> USE DEF CollectInv
  <1>1. MoneyOK'
    BY DEF MoneyOK, Pick, world
  <1>2. PlaceOK'
    <2>1. job' = [job EXCEPT !.quote = q, !.todo = @ \ {q}] \/ job' = [job EXCEPT !.todo = @ \ {q}]
      BY DEF Pick
    <2>2. pc' \in {"contact", "pick"}
      BY DEF Pick
    <2> QED
      BY <2>1, <2>2 DEF PlaceOK, Labels, Jobs
  <1>3. RecordsOK'
    <2>1. CASE Due(retry[q], job.manual)
      <3>1. /\ retry' = [retry EXCEPT ![q] = Pending(retry[q])]
            /\ tries' = [tries EXCEPT ![q] = Min({tries[q] + 1, MaxTries})]
            /\ since' = [since EXCEPT ![q] = 0]
        BY <2>1 DEF Pick, Attempt
      <3>2. /\ retry[q] \in Retries /\ tries[q] \in 0 .. MaxTries
            /\ retry[q].attempts = tries[q]
        BY DEF RecordsOK, Recorded
      <3> DEFINE n == Min({tries[q] + 1, MaxTries})
      <3>3. n \in 0 .. MaxTries
        BY <3>2, OneMore, ReceivingAssumption DEF MaxTries
      <3>4. Pending(retry[q]) \in Retries /\ Recorded(Pending(retry[q]), n, 0)
        BY <3>2, PendingIsRecorded
      <3>5. 0 \in 0 .. MaxDelay
        BY ReceivingAssumption
      <3> HIDE DEF n
      <3>6. /\ retry' \in [Quotes -> Retries] /\ tries' \in [Quotes -> 0 .. MaxTries]
            /\ since' \in [Quotes -> 0 .. MaxDelay]
        BY <3>1, <3>3, <3>4, <3>5 DEF RecordsOK, n
      <3>7. ASSUME NEW p \in Quotes PROVE Recorded(retry'[p], tries'[p], since'[p])
        <4>1. CASE p = q
          <5>1. retry'[p] = Pending(retry[q]) /\ tries'[p] = n /\ since'[p] = 0
            BY <4>1, <3>1 DEF RecordsOK, n
          <5> QED
            BY <5>1, <3>4
        <4>2. CASE p # q
          <5>1. retry'[p] = retry[p] /\ tries'[p] = tries[p] /\ since'[p] = since[p]
            BY <4>2, <3>1 DEF RecordsOK
          <5> QED
            BY <5>1 DEF RecordsOK
        <4> QED
          BY <4>1, <4>2
      <3> QED
        BY <3>6, <3>7 DEF RecordsOK
    <2>2. CASE ~Due(retry[q], job.manual)
      BY <2>2, RecordsStay DEF Pick, history
    <2> QED
      BY <2>1, <2>2
  <1> QED
    BY <1>1, <1>2, <1>3

LEMMA AttemptKeeps ==
    ASSUME CollectInv, NEW q \in Quotes, NEW result \in {"later", "never"},
           Contact(q) \/ MintQuote(q) \/ AttemptFails(q, result)
    PROVE  CollectInv'
  <1> USE DEF CollectInv, Goto, world, wallets, history
  <1>1. MoneyOK'
    BY DEF MoneyOK, Contact, MintQuote, AttemptFails
  <1>2. PlaceOK'
    BY DEF PlaceOK, Labels, Jobs, Contact, MintQuote, AttemptFails
  <1>3. RecordsOK'
    BY RecordsStay DEF Contact, MintQuote, AttemptFails
  <1> QED
    BY <1>1, <1>2, <1>3

\* What the record of a quote becomes when its attempt is over.
LEMMA ConcludeKeeps == ASSUME CollectInv, Conclude PROVE CollectInv'
  <1> USE DEF CollectInv
  <1> DEFINE q == job.quote
             ok == job.result = "ok"
  <1>1. MoneyOK'
    BY DEF MoneyOK, Conclude, world
  <1>2. PlaceOK'
    BY DEF PlaceOK, Labels, Jobs, Conclude
  <1>3. RecordsOK'
    <2>1. /\ retry' = [retry EXCEPT ![q] = IF ok THEN NoRetry
                                           ELSE [retry[q] EXCEPT !.blocked = job.result = "never"]]
          /\ tries' = [tries EXCEPT ![q] = IF ok THEN 0 ELSE tries[q]]
          /\ since' = [since EXCEPT ![q] = IF ok THEN MaxDelay ELSE since[q]]
      BY DEF Conclude
    <2>2. MaxDelay \in Nat /\ MaxTries \in Nat
      BY ReceivingAssumption DEF MaxTries
    <2>3. NoRetry \in Retries /\ Recorded(NoRetry, 0, MaxDelay)
      BY <2>2 DEF NoRetry, Retries, Recorded
    <2>4. (job.result = "never") \in BOOLEAN
      OBVIOUS
    <2> HIDE DEF q, ok
    <2>5. ASSUME NEW p \in Quotes
          PROVE  /\ retry'[p] \in Retries /\ tries'[p] \in 0 .. MaxTries /\ since'[p] \in 0 .. MaxDelay
                 /\ Recorded(retry'[p], tries'[p], since'[p])
      <3>0. /\ retry[p] \in Retries /\ tries[p] \in 0 .. MaxTries /\ since[p] \in 0 .. MaxDelay
            /\ Recorded(retry[p], tries[p], since[p])
        BY DEF RecordsOK
      <3>1. CASE p = q /\ ok
        <4>1. retry'[p] = NoRetry /\ tries'[p] = 0 /\ since'[p] = MaxDelay
          BY <3>1, <2>1 DEF RecordsOK
        <4> QED
          BY <4>1, <2>2, <2>3
      <3>2. CASE p = q /\ ~ok
        <4> DEFINE r == [retry[p] EXCEPT !.blocked = job.result = "never"]
        <4>1. retry'[p] = r /\ tries'[p] = tries[p] /\ since'[p] = since[p]
          BY <3>2, <2>1 DEF RecordsOK
        <4>2. r \in Retries /\ r.attempts = retry[p].attempts /\ r.wait = retry[p].wait
          BY <3>0, <2>4 DEF Retries
        <4> HIDE DEF r
        <4>3. Recorded(r, tries[p], since[p])
          BY <3>0, <4>2 DEF Recorded
        <4> QED
          BY <3>0, <4>1, <4>2, <4>3
      <3>3. CASE p # q
        <4>1. retry'[p] = retry[p] /\ tries'[p] = tries[p] /\ since'[p] = since[p]
          BY <3>3, <2>1 DEF RecordsOK
        <4> QED
          BY <3>0, <4>1
      <3> QED
        BY <3>1, <3>2, <3>3
    <2>6. /\ retry' \in [Quotes -> Retries] /\ tries' \in [Quotes -> 0 .. MaxTries]
          /\ since' \in [Quotes -> 0 .. MaxDelay]
      <3>1. /\ DOMAIN retry' = Quotes /\ retry' = [p \in Quotes |-> retry'[p]]
            /\ tries' = [p \in Quotes |-> tries'[p]] /\ since' = [p \in Quotes |-> since'[p]]
        BY <2>1 DEF RecordsOK
      <3> QED
        BY <2>5, <3>1
    <2> QED
      BY <2>5, <2>6 DEF RecordsOK
  <1> QED
    BY <1>1, <1>2, <1>3

-----------------------------------------------------------------------------
(* The rest of the world *)

LEMMA WorldKeeps ==
    ASSUME CollectInv, NEW q \in Quotes,
           \/ Fund(q) \/ PayInvoice(q) \/ PayAddress(q)
    PROVE  CollectInv'
  <1> USE DEF CollectInv, local, world, history
  <1>1. MoneyOK' /\ UNCHANGED <<pc, job, retry, tries, since>>
    BY DEF MoneyOK, Fund, PayInvoice, PayAddress
  <1> QED
    BY <1>1, RecordsStay DEF PlaceOK

LEMMA KeysKeep ==
    ASSUME CollectInv, SetOwnAddress \/ Lock \/ Unlock \/ Restart
    PROVE  CollectInv'
  <1> USE DEF CollectInv, local, world, wallets, history
  <1>1. MoneyOK' /\ UNCHANGED <<retry, tries, since>>
    BY DEF MoneyOK, SetOwnAddress, Lock, Unlock, Restart
  <1>2. Return \/ UNCHANGED <<pc, job>>
    BY DEF SetOwnAddress, Lock, Unlock, Restart
  <1>3. PlaceOK'
    BY <1>2, ReturnKeeps DEF PlaceOK
  <1> QED
    BY <1>1, <1>3, RecordsStay

LEMMA TickKeeps == ASSUME CollectInv, Tick PROVE CollectInv'
  <1> USE DEF CollectInv
  <1>1. MoneyOK' /\ PlaceOK'
    BY DEF MoneyOK, PlaceOK, Tick, world
  <1>2. /\ retry' = [q \in Quotes |-> [retry[q] EXCEPT !.wait = Max({@, 1}) - 1]]
        /\ since' = [q \in Quotes |-> Min({since[q] + 1, MaxDelay})]
        /\ tries' = tries
    BY DEF Tick
  <1>3. ASSUME NEW q \in Quotes
        PROVE  /\ [retry[q] EXCEPT !.wait = Max({@, 1}) - 1] \in Retries
               /\ Min({since[q] + 1, MaxDelay}) \in 0 .. MaxDelay
               /\ Recorded([retry[q] EXCEPT !.wait = Max({@, 1}) - 1], tries[q],
                           Min({since[q] + 1, MaxDelay}))
    <2>1. /\ retry[q] \in Retries /\ tries[q] \in 0 .. MaxTries /\ since[q] \in 0 .. MaxDelay
          /\ Recorded(retry[q], tries[q], since[q])
      BY DEF RecordsOK
    <2> QED
      BY <2>1, TickIsRecorded
  <1>4. RecordsOK'
    BY <1>2, <1>3 DEF RecordsOK
  <1> QED
    BY <1>1, <1>4

-----------------------------------------------------------------------------
(* The theorems *)

LEMMA CollectStart == ReceivingInit => CollectInv
  <1>0. MaxDelay \in Nat /\ MaxTries \in Nat
    BY ReceivingAssumption DEF MaxTries
  <1>1. NoRetry \in Retries /\ Recorded(NoRetry, 0, MaxDelay)
    BY <1>0 DEF NoRetry, Retries, Recorded
  <1> QED
    BY <1>0, <1>1, NoJobType DEF ReceivingInit, CollectInv, PlaceOK, MoneyOK, RecordsOK, Labels

LEMMA CollectStep == CollectInv /\ [ReceivingNext]_receivingVars => CollectInv'
  <1> SUFFICES ASSUME CollectInv, [ReceivingNext]_receivingVars PROVE CollectInv'
    OBVIOUS
  <1>1. CASE RefreshStep
    <2>1. ASSUME NEW q \in Quotes, Pick(q) \/ Contact(q) \/ MintQuote(q) PROVE CollectInv'
      BY <2>1, PickKeeps, AttemptKeeps
    <2>2. ASSUME NEW q \in Quotes, NEW result \in {"later", "never"}, AttemptFails(q, result)
          PROVE  CollectInv'
      BY <2>2, AttemptKeeps
    <2> QED
      BY <1>1, <2>1, <2>2, RefreshKeeps, ConcludeKeeps DEF RefreshStep
  <1>2. CASE UNCHANGED receivingVars
    <2>1. RecordsOK'
      BY <1>2, RecordsStay DEF CollectInv, receivingVars
    <2> QED
      BY <1>2, <2>1 DEF CollectInv, PlaceOK, MoneyOK, receivingVars
  <1> QED
    BY <1>1, <1>2, LoopKeeps, EnableKeeps, OpenKeeps, WorldKeeps, KeysKeep, TickKeeps DEF ReceivingNext

\* What the wallets, the provider and the retry records hold stays well formed, delays
\* within MaxDelay, for any wallets and quotes and whatever fails in between.
THEOREM CollectionTypes == ReceivingSpec => []ReceivingTypeOK
  <1>1. CollectInv => ReceivingTypeOK
    BY DEF CollectInv, PlaceOK, MoneyOK, RecordsOK, ReceivingTypeOK, Jobs
  <1> QED
    BY <1>1, CollectStart, CollectStep, PTL DEF ReceivingSpec

\* Unless the user asks, a mint is left alone for the whole delay after an attempt: the
\* record is saved before the mint is asked, so that dying in between changes nothing.
THEOREM BackoffSurvivesRestarts == ReceivingSpec => BackoffIsKept
  <1> DEFINE Early ==
        \A q \in Quotes :
          pc = "pick" /\ pc' = "contact" /\ job'.quote = q /\ ~job.manual /\ tries[q] > 0
            => since[q] >= Delay(tries[q])
  <1>1. ASSUME CollectInv, [ReceivingNext]_receivingVars PROVE Early
    <2> SUFFICES ASSUME NEW q \in Quotes, pc = "pick", pc' = "contact", job'.quote = q, ~job.manual,
                        tries[q] > 0
                 PROVE  since[q] >= Delay(tries[q])
      OBVIOUS
    <2>1. PICK p \in Quotes : Pick(p)
      BY <1>1 DEF ReceivingNext, RefreshStep, EnableLock, EnableVerify, EnableFails, NextSlot,
           Discover, Sync, RefreshFails, LookAtAddress, SetAddress, Unissued, Finished, Conclude,
           Contact, MintQuote, AttemptFails, LoopBegins, Enable, Open, Enter, Fund, PayInvoice,
           PayAddress, SetOwnAddress, Lock, Unlock, Restart, Return, Tick, local, receivingVars
    <2>2. p = q /\ Due(retry[q], job.manual)
      BY <1>1, <2>1 DEF Pick, CollectInv, PlaceOK, Jobs
    <2>3. retry[q].wait = 0
      BY <2>2 DEF Due
    <2>4. /\ Recorded(retry[q], tries[q], since[q])
          /\ since[q] \in 0 .. MaxDelay /\ tries[q] \in 0 .. MaxTries
      BY <1>1 DEF CollectInv, RecordsOK
    <2> QED
      BY <2>3, <2>4, ReceivingAssumption DEF Recorded
  <1>2. CollectInv /\ [ReceivingNext]_receivingVars => [Early]_receivingVars
    BY <1>1
  <1> QED
    BY <1>2, CollectStart, CollectStep, PTL DEF ReceivingSpec, BackoffIsKept
=============================================================================
