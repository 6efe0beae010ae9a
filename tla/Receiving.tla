----------------------------- MODULE Receiving -----------------------------
(***************************************************************************)
(* Collecting what was paid to an account (src-tauri/src/npubcash.rs, the  *)
(* refresh in wallet.rs, wallet/receiving.rs): invoices of the wallet and  *)
(* payments to the provider's address are quotes of a mint, each collected *)
(* into the wallet of its mint, with one durable retry record per quote.   *)
(*                                                                         *)
(* The background loop, wallet_open and wallet_enable_address hold the     *)
(* gate, one step per await; the loop skips a turn when the gate is taken. *)
(* Locking and setting one's own address do not wait for the gate, any     *)
(* request may fail, and the process may die anywhere.  The provider and   *)
(* the mints are external.  Time is counted in units of the first delay.   *)
(***************************************************************************)
EXTENDS Naturals, FiniteSets, FiniteSetsExt

CONSTANTS
    Slots,        \* the account's wallets, one per mint
    NoSlot,
    Quotes,
    NoQuote,
    SlotOf,       \* the wallet each quote is for
    Silent,       \* quotes whose mint may never answer again
    Doublings,    \* how often the delay doubles (5)
    MaxDelay      \* the longest delay (1800 s)

ASSUME ReceivingAssumption ==
    /\ NoSlot \notin Slots /\ NoQuote \notin Quotes /\ Silent \subseteq Quotes
    /\ SlotOf \in [Quotes -> Slots]
    /\ Doublings \in Nat /\ MaxDelay \in Nat \ {0}

\* A fact of arithmetic that is beyond the provers.
ASSUME PowersAreNumbers == \A n \in 0 .. Doublings : 2 ^ n \in Nat

VARIABLES
    held,       \* whether the vault holds the account's keys
    route,      \* provider: the mint it takes quotes from, whether it locks them
    listed,     \* provider: quotes of payments to the address
    paid,       \* mints: quotes that are paid
    known,      \* quotes in the wallets' databases
    minted,     \* quotes collected
    retry,      \* the retry record of each quote
    address,    \* wallets with the provider's address saved
    lightning,  \* whose address the account shows: nobody's, the provider's, the user's own
    pc, job,    \* who holds the gate
    tries,      \* history: attempts at a quote since it last succeeded
    since       \* history: how long ago the last attempt began

receivingVars ==
    <<held, route, listed, paid, known, minted, retry, address, lightning, pc, job,
      tries, since>>

\* Attempts beyond this change nothing.
MaxTries == Doublings + 1

\* Mutant: the delay has no ceiling.
DelayUncapped(n) == 2 ^ Min({n - 1, Doublings})

\* Retry::pending's delay after so many attempts.
Delay(n) == Min({2 ^ Min({n - 1, Doublings}), MaxDelay})

\* A retry record; wait is how long it is until its time (after).
NoRetry == [attempts |-> 0, wait |-> 0, blocked |-> FALSE]
Retries == [attempts : 0 .. MaxTries, wait : 0 .. MaxDelay, blocked : BOOLEAN]

\* The wallets still to visit, the one in hand, its quotes to do and the one in hand.
NoJob == [op |-> "none", slots |-> {}, slot |-> NoSlot, manual |-> FALSE,
          todo |-> {}, quote |-> NoQuote, result |-> "none"]

Labels == {"idle", "next", "lock", "verify", "discover", "sync", "look", "set", "quotes", "pick",
           "contact", "mint", "result"}

ReceivingTypeOK ==
    /\ held \in BOOLEAN
    /\ route \in [slot : Slots \cup {NoSlot}, locks : BOOLEAN]
    /\ listed \subseteq Quotes /\ paid \subseteq Quotes
    /\ known \subseteq Quotes /\ minted \subseteq Quotes
    /\ retry \in [Quotes -> Retries]
    /\ address \subseteq Slots
    /\ lightning \in {"none", "provider", "own"}
    /\ pc \in Labels
    /\ job \in [op : {"none", "loop", "open", "enable"}, slots : SUBSET Slots,
                slot : Slots \cup {NoSlot}, manual : BOOLEAN, todo : SUBSET Quotes,
                quote : Quotes \cup {NoQuote}, result : {"none", "ok", "later", "never"}]
    /\ tries \in [Quotes -> 0 .. MaxTries] /\ since \in [Quotes -> 0 .. MaxDelay]

ReceivingInit ==
    /\ held = TRUE
    /\ route = [slot |-> NoSlot, locks |-> FALSE]
    /\ listed = {} /\ paid = {} /\ known = {} /\ minted = {}
    /\ retry = [q \in Quotes |-> NoRetry]
    /\ address = {} /\ lightning \in {"none", "own"}
    /\ pc = "idle" /\ job = NoJob
    /\ tries = [q \in Quotes |-> 0] /\ since = [q \in Quotes |-> MaxDelay]

world == <<route, listed, paid>>
wallets == <<known, minted, retry, address>>
history == <<tries, since>>

-----------------------------------------------------------------------------
(* Who refreshes *)

Goto(label) == pc' = label /\ UNCHANGED job
Return == pc' = "idle" /\ job' = NoJob

Enter(op, slots, manual, label) ==
    /\ pc = "idle" /\ held
    /\ pc' = label
    /\ job' = [NoJob EXCEPT !.op = op, !.slots = slots, !.manual = manual]
    /\ UNCHANGED <<held, lightning, wallets, history>>

\* start_receiving wakes up and finds the gate free: every wallet, one after the other.
LoopBegins == Enter("loop", Slots, FALSE, "next") /\ UNCHANGED world

\* wallet_open refreshes the selected wallet, every quote of it if the user asked.
Open(s, manual) == Enter("open", {s}, manual, "next") /\ UNCHANGED world

\* wallet_enable_address: the provider is told the mint, then to lock quotes, then asked
\* what it made of it; only then is the address saved.
Enable(s) ==
    /\ Enter("enable", {s}, FALSE, "lock")
    /\ route' = [route EXCEPT !.slot = s]
    /\ UNCHANGED <<listed, paid>>

EnableLock ==
    /\ pc = "lock" /\ held
    /\ route' = [route EXCEPT !.locks = TRUE]
    /\ Goto("verify")
    /\ UNCHANGED <<held, lightning, listed, paid, wallets, history>>

EnableVerify ==
    /\ pc = "verify" /\ held
    /\ \A s \in job.slots : route = [slot |-> s, locks |-> TRUE]
    /\ address' = address \cup job.slots
    /\ Goto("next")
    /\ UNCHANGED <<held, lightning, world, known, minted, retry, history>>

EnableFails ==
    /\ pc \in {"lock", "verify"}
    /\ Return
    /\ UNCHANGED <<held, lightning, world, wallets, history>>

\* The next wallet, while the keys are there.
NextSlot ==
    /\ pc = "next"
    /\ IF job.slots = {} \/ ~held
       THEN Return
       ELSE \E s \in job.slots :
               /\ job' = [job EXCEPT !.slot = s, !.slots = @ \ {s}]
               /\ pc' = "discover"
    /\ UNCHANGED <<held, lightning, world, wallets, history>>

-----------------------------------------------------------------------------
(* refresh_receiving *)

\* discover: the provider's settings, without changing them.
Discover ==
    /\ pc = "discover" /\ held
    /\ address' = IF route = [slot |-> job.slot, locks |-> TRUE]
                  THEN address \cup {job.slot} ELSE address \ {job.slot}
    /\ Goto("sync")
    /\ UNCHANGED <<held, lightning, world, known, minted, retry, history>>

\* sync_quotes: every page of what the provider lists for this mint and has not seen
\* issued is saved.
Sync ==
    /\ pc = "sync" /\ held
    /\ known' = known \cup {q \in listed \ minted : SlotOf[q] = job.slot}
    /\ Goto(IF job.slot \in address THEN "look" ELSE "quotes")
    /\ UNCHANGED <<held, lightning, world, minted, retry, address, history>>

\* A request fails, with some of the pages saved; the quotes saved are still collected.
RefreshFails ==
    /\ pc \in {"discover", "sync"}
    /\ \E some \in SUBSET {q \in listed \ minted : SlotOf[q] = job.slot} :
          known' = IF pc = "sync" THEN known \cup some ELSE known
    /\ Goto("quotes")
    /\ UNCHANGED <<held, lightning, world, minted, retry, address, history>>

\* The account's address is read, and set unless it is the user's own.
LookAtAddress ==
    /\ pc = "look"
    /\ Goto(IF lightning = "own" THEN "quotes" ELSE "set")
    /\ UNCHANGED <<held, lightning, world, known, minted, retry, address, history>>

SetAddress ==
    /\ pc = "set"
    /\ lightning' = "provider"
    /\ Goto("quotes")
    /\ UNCHANGED <<held, world, wallets, history>>

-----------------------------------------------------------------------------
(* receiving::collect *)

\* get_unissued_mint_quotes.
Unissued ==
    /\ pc = "quotes"
    /\ job' = [job EXCEPT !.todo = {q \in known \ minted : SlotOf[q] = job.slot}]
    /\ pc' = "pick"
    /\ UNCHANGED <<held, lightning, world, wallets, history>>

Due(r, manual) == manual \/ (~r.blocked /\ r.wait = 0)

\* Retry::pending.
Pending(r) ==
    LET n == Min({r.attempts + 1, MaxTries})
    IN [attempts |-> n, wait |-> Delay(n), blocked |-> FALSE]

Finished ==
    /\ pc = "pick"
    /\ job.todo = {} \/ ~held
    /\ pc' = "next" /\ job' = [job EXCEPT !.todo = {}]
    /\ UNCHANGED <<held, lightning, world, wallets, history>>

\* History: the mint is about to be asked.
Attempt(q) ==
    /\ tries' = [tries EXCEPT ![q] = Min({@ + 1, MaxTries})]
    /\ since' = [since EXCEPT ![q] = 0]

\* Mutant: the attempt is not recorded before the mint is asked.
PickUnsaved(q) ==
    /\ pc = "pick" /\ held /\ q \in job.todo
    /\ IF Due(retry[q], job.manual)
       THEN /\ Attempt(q)
            /\ pc' = "contact"
            /\ job' = [job EXCEPT !.quote = q, !.todo = @ \ {q}]
       ELSE /\ pc' = "pick"
            /\ job' = [job EXCEPT !.todo = @ \ {q}]
            /\ UNCHANGED history
    /\ UNCHANGED <<held, lightning, world, known, minted, retry, address>>

\* The next quote: skipped before its time; otherwise its attempt is recorded before
\* the mint is asked.
Pick(q) ==
    /\ pc = "pick" /\ held /\ q \in job.todo
    /\ IF Due(retry[q], job.manual)
       THEN /\ retry' = [retry EXCEPT ![q] = Pending(@)]
            /\ Attempt(q)
            /\ pc' = "contact"
            /\ job' = [job EXCEPT !.quote = q, !.todo = @ \ {q}]
       ELSE /\ pc' = "pick"
            /\ job' = [job EXCEPT !.todo = @ \ {q}]
            /\ UNCHANGED <<retry, history>>
    /\ UNCHANGED <<held, lightning, world, known, minted, address>>

\* attempt: the mint is asked, and a paid quote minted while the keys are there.
Contact(q) ==
    /\ pc = "contact" /\ job.quote = q
    /\ IF q \in paid
       THEN Goto("mint")
       ELSE pc' = "result" /\ job' = [job EXCEPT !.result = "ok"]
    /\ UNCHANGED <<held, lightning, world, wallets, history>>

MintQuote(q) ==
    /\ pc = "mint" /\ job.quote = q /\ held
    /\ minted' = minted \cup {q}
    /\ pc' = "result" /\ job' = [job EXCEPT !.result = "ok"]
    /\ UNCHANGED <<held, lightning, world, known, retry, address, history>>

\* The mint is not reached, the wallet is locked, or the mint refuses for good.
AttemptFails(q, result) ==
    /\ pc \in {"contact", "mint"} /\ job.quote = q
    /\ pc' = "result" /\ job' = [job EXCEPT !.result = result]
    /\ UNCHANGED <<held, lightning, world, wallets, history>>

\* Mutant: a failed attempt ends the collection.
ConcludeGivesUp ==
    LET q == job.quote
        ok == job.result = "ok"
    IN  /\ pc = "result"
        /\ retry' = [retry EXCEPT ![q] = IF ok THEN NoRetry
                                         ELSE [@ EXCEPT !.blocked = job.result = "never"]]
        /\ tries' = [tries EXCEPT ![q] = IF ok THEN 0 ELSE @]
        /\ since' = [since EXCEPT ![q] = IF ok THEN MaxDelay ELSE @]
        /\ pc' = "pick"
        /\ job' = [job EXCEPT !.quote = NoQuote, !.result = "none", !.todo = IF ok THEN @ ELSE {}]
        /\ UNCHANGED <<held, lightning, world, known, minted, address>>

\* The record goes, or says how the attempt failed.
Conclude ==
    LET q == job.quote
        ok == job.result = "ok"
    IN  /\ pc = "result"
        /\ retry' = [retry EXCEPT ![q] = IF ok THEN NoRetry
                                         ELSE [@ EXCEPT !.blocked = job.result = "never"]]
        /\ tries' = [tries EXCEPT ![q] = IF ok THEN 0 ELSE @]
        /\ since' = [since EXCEPT ![q] = IF ok THEN MaxDelay ELSE @]
        /\ pc' = "pick"
        /\ job' = [job EXCEPT !.quote = NoQuote, !.result = "none"]
        /\ UNCHANGED <<held, lightning, world, known, minted, address>>

-----------------------------------------------------------------------------
(* The rest of the world *)

local == <<known, minted, retry, address, pc, job>>

\* wallet_fund: an invoice of the selected wallet.
Fund(q) ==
    /\ pc = "idle" /\ held /\ q \notin known \cup listed
    /\ known' = known \cup {q}
    /\ UNCHANGED <<held, lightning, world, minted, retry, address, pc, job, history>>

PayInvoice(q) ==
    /\ q \in known \ paid
    /\ paid' = paid \cup {q}
    /\ UNCHANGED <<held, lightning, route, listed, local, history>>

\* Somebody pays the address: the provider lists a paid quote of the mint it is told.
PayAddress(q) ==
    /\ q \notin known \cup listed /\ route.slot = SlotOf[q]
    /\ paid' = paid \cup {q} /\ listed' = listed \cup {q}
    /\ UNCHANGED <<held, lightning, route, local, history>>

\* commands::set_lightning_address: not under the gate.
SetOwnAddress ==
    /\ lightning' = "own"
    /\ UNCHANGED <<held, world, local, history>>

Lock ==
    /\ held' = FALSE
    /\ UNCHANGED <<lightning, world, local, history>>

Unlock ==
    /\ pc = "idle" /\ ~held
    /\ held' = TRUE
    /\ UNCHANGED <<lightning, world, local, history>>

Restart ==
    /\ held' = FALSE
    /\ Return
    /\ UNCHANGED <<lightning, world, wallets, history>>

Tick ==
    /\ retry' = [q \in Quotes |-> [retry[q] EXCEPT !.wait = Max({@, 1}) - 1]]
    /\ since' = [q \in Quotes |-> Min({since[q] + 1, MaxDelay})]
    /\ UNCHANGED <<held, lightning, world, known, minted, address, pc, job, tries>>

RefreshStep ==
    \/ EnableLock \/ EnableVerify \/ EnableFails \/ NextSlot
    \/ Discover \/ Sync \/ RefreshFails \/ LookAtAddress \/ SetAddress
    \/ Unissued \/ Finished \/ Conclude
    \/ \E q \in Quotes : Pick(q) \/ Contact(q) \/ MintQuote(q)
    \/ \E q \in Quotes, result \in {"later", "never"} : AttemptFails(q, result)

ReceivingNext ==
    \/ RefreshStep \/ LoopBegins
    \/ \E s \in Slots : Enable(s) \/ (\E manual \in BOOLEAN : Open(s, manual))
    \/ \E q \in Quotes : Fund(q) \/ PayInvoice(q) \/ PayAddress(q)
    \/ SetOwnAddress \/ Lock \/ Unlock \/ Restart \/ Tick

\* Awaits return, time passes, the loop finds the gate free at some of its turns, and a
\* mint that is not silent answers one of ever so many requests.
Fairness ==
    /\ WF_receivingVars(RefreshStep)
    /\ WF_receivingVars(Tick)
    /\ SF_receivingVars(LoopBegins)
    /\ \A q \in Quotes \ Silent : SF_receivingVars(Contact(q)) /\ SF_receivingVars(MintQuote(q))

ReceivingSpec == ReceivingInit /\ [][ReceivingNext]_receivingVars /\ Fairness

-----------------------------------------------------------------------------
(* Properties *)

\* Unless the user asks, a mint is left alone for the whole delay after as many attempts
\* as were made, also when the app died in the middle of one ("restarting must not reset
\* the backoff").
BackoffIsKept ==
    [][\A q \in Quotes :
          pc = "pick" /\ pc' = "contact" /\ job'.quote = q /\ ~job.manual /\ tries[q] > 0
            => since[q] >= Delay(tries[q])]_receivingVars

\* A payment whose quote was saved is collected once the wallet stays unlocked, unless its
\* mint refuses it for good: neither the provider's outage, nor another quote that fails
\* forever, nor its own delay keeps it waiting.
PaidIsCollected ==
    <>[]held =>
        \A q \in Quotes \ Silent :
            [](q \in paid \cap known => <>(q \in minted \/ retry[q].blocked))
=============================================================================
