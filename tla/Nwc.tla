-------------------------------- MODULE Nwc --------------------------------
(***************************************************************************)
(* The wallet connect service (src-tauri/src/nwc): apps paired with an     *)
(* account send payment requests over a relay; each is shown to the user   *)
(* and, once allowed, paid through the wallet.  The relay may deliver a    *)
(* request any number of times, the app may crash anywhere, and what must  *)
(* survive is in nwc.sqlite: the connections, the requests begun, and a    *)
(* claim on every invoice an attempt was made to pay.                      *)
(*                                                                         *)
(* A handler is a task of Wallet: it reviews and pays with Wallet's steps  *)
(* (pc, work) and keeps what is its own in job.                            *)
(***************************************************************************)
EXTENDS Wallet

CONSTANTS
    Conns,        \* connections that may ever be paired
    Requests,     \* signed request events, see RequestEvents
    NoJob,
    MaxConns,     \* the 16 of Store::add
    MaxAge,       \* protocol::MAX_AGE, 300 s
    Skew,         \* how far ahead an event may be dated, 30 s
    Retain,       \* how long an answered request is kept, 600 s
    RateWindow,   \* 60 s
    RateLimit,    \* 60 requests
    PromptLife    \* how long the user has, 120 s

\* life: until when the sender wants it answered, at most MaxAge.
RequestEvents ==
    [id : STRING, conn : Conns, at : Nat, life : 0 .. MaxAge,
     method : {"pay_invoice", "other", "garbled"}, payee : Invoices]

JobLabels == {"begin", "locked", "run", "review", "asking", "allowed", "refused", "paying",
              "finish", "publish"}

\* What a handler keeps of its own: how far it is, and for which request.
Jobs == [at : JobLabels, request : Requests, admission : {"none", "new", "replay", "limited"}]

ASSUME NwcAssumption ==
    /\ Requests \subseteq RequestEvents
    /\ \A r, s \in Requests : r.id = s.id => r = s
    /\ MaxConns \in Nat /\ MaxAge \in Nat /\ Skew \in Nat /\ Retain \in Nat
    /\ RateWindow \in Nat /\ RateLimit \in Nat /\ PromptLife \in Nat
    /\ MaxAge + Skew <= Retain
    /\ NoJob \notin Jobs

VARIABLES
    conns,      \* table connections
    revoked,    \* ids of the revoked ones
    table,      \* table requests: id, when begun, response
    claims,     \* table payments: which account's invoice was claimed by which request
    job,        \* the handler each task runs
    admitted,   \* history: requests that were begun as new
    consented   \* history: reviews the user allowed, by handle

nwcVars == <<conns, revoked, table, claims, job, admitted, consented>>
allVars == <<walletVars, nwcVars>>

NwcTypeOK ==
    /\ conns \subseteq [id : Conns, account : Accounts, mint : Mints, created : Nat]
    /\ revoked \subseteq {c.id : c \in conns}
    /\ table \subseteq [request : Requests, created : Nat, response : {"null", "empty", "reply"}]
    /\ \A x, y \in table : x.request = y.request => x = y
    /\ claims \subseteq [account : Accounts, payee : Invoices, request : Requests]
    /\ job \in [Tasks -> Jobs \cup {NoJob}]

NwcInit ==
    /\ WalletInit
    /\ conns = {} /\ revoked = {} /\ table = {} /\ claims = {}
    /\ job = [t \in Tasks |-> NoJob]
    /\ admitted = {} /\ consented = {}

-----------------------------------------------------------------------------
(* Connections *)

IsActive(i) == i \in {c.id : c \in conns} \ revoked
Conn(r) == CHOOSE c \in conns : c.id = r.conn
Permitted(r) == IsActive(r.conn) /\ Conn(r).account \in held

\* nwc_pair: reads the selected mint under the gate.
NwcPair(i, a) ==
    /\ gate = NoTask /\ a \in held
    /\ i \notin {c.id : c \in conns}
    /\ Cardinality({c \in conns : c.id \notin revoked}) < MaxConns
    /\ conns' = conns \cup {[id |-> i, account |-> a, mint |-> selected[a], created |-> now]}
    /\ UNCHANGED <<walletVars, revoked, table, claims, job, admitted, consented>>

\* Mutant: revoking does not wait for the gate.
RevokeAtOnce(i) ==
    /\ \E c \in conns : c.id = i /\ c.account \in held
    /\ IsActive(i)
    /\ revoked' = revoked \cup {i}
    /\ UNCHANGED <<walletVars, conns, table, claims, job, admitted, consented>>

\* nwc_revoke: holds the gate, so no payment is between its last look at the
\* connection and its confirmation.  Prompts of the connection are dropped.
NwcRevoke(i) ==
    /\ gate = NoTask
    /\ \E c \in conns : c.id = i /\ c.account \in held
    /\ IsActive(i)
    /\ revoked' = revoked \cup {i}
    /\ job' = [t \in Tasks |->
          IF job[t] # NoJob /\ job[t].at = "asking" /\ job[t].request.conn = i
          THEN [job[t] EXCEPT !.at = "refused"] ELSE job[t]]
    /\ UNCHANGED <<walletVars, conns, table, claims, admitted, consented>>

-----------------------------------------------------------------------------
(* relay::connected *)

\* protocol::deadline, and what protocol::valid asks of the dates.
Deadline(r) == r.at + r.life
Fresh(r) == r.at >= Conn(r).created /\ r.at <= now + Skew /\ Deadline(r) > now

\* An event that passes protocol::valid gets a task, if one is free.
Deliver(t, r) ==
    /\ job[t] = NoJob /\ pc[t] = "idle"
    /\ IsActive(r.conn) /\ Fresh(r)
    /\ job' = [job EXCEPT ![t] = [at |-> "begin", request |-> r, admission |-> "none"]]
    /\ UNCHANGED <<walletVars, conns, revoked, table, claims, admitted, consented>>

-----------------------------------------------------------------------------
(* handle *)

JobAt(t, label) == job[t] # NoJob /\ job[t].at = label

\* The handler moves on; the wallet is not concerned.
JobGoes(t, label) == job' = [job EXCEPT ![t].at = label]
JobEnds(t) == job' = [job EXCEPT ![t] = NoJob]

\* Mutant: kept for the age of an event, which may be dated ahead.
PrunedByAge == {x \in table : x.response # "null" => x.created + MaxAge > now}

\* Store::begin, first half: answered requests past their time go.
Pruned == {x \in table : x.response # "null" => x.created + Retain >= now}

\* Mutant: no active_requests.
NeverInHand(t) == FALSE

\* active_requests: another handler has this request.
InHand(t) ==
    \E u \in Tasks \ {t} :
        job[u] # NoJob /\ job[u].at # "begin" /\ job[u].request = job[t].request

\* The head of handle.  A request seen before gets its answer again; one that was
\* begun and not answered is not begun again.  The request is written down before
\* anything is done for it, unless there are too many.
BeginRequest(t) ==
    /\ JobAt(t, "begin")
    /\ LET r == job[t].request
           seen == {x \in Pruned : x.request = r}
           count == Cardinality({x \in Pruned :
                        x.request.conn = r.conn /\ x.created + RateWindow > now})
       IN \/ /\ ~IsActive(r.conn) \/ InHand(t)
             /\ JobEnds(t)
             /\ UNCHANGED <<table, admitted>>
          \/ /\ IsActive(r.conn) /\ ~InHand(t)
             /\ \E x \in seen : x.response # "null"
             /\ table' = Pruned
             /\ JobEnds(t)
             /\ UNCHANGED admitted
          \/ /\ IsActive(r.conn) /\ ~InHand(t)
             /\ \E x \in seen : x.response = "null"
             /\ table' = Pruned
             /\ job' = [job EXCEPT ![t].at = "locked", ![t].admission = "replay"]
             /\ UNCHANGED admitted
          \/ /\ IsActive(r.conn) /\ ~InHand(t)
             /\ seen = {} /\ count >= RateLimit
             /\ table' = Pruned
             /\ job' = [job EXCEPT ![t].at = "locked", ![t].admission = "limited"]
             /\ UNCHANGED admitted
          \/ /\ IsActive(r.conn) /\ ~InHand(t)
             /\ seen = {} /\ count < RateLimit
             /\ table' = Pruned \cup {[request |-> r, created |-> now, response |-> "null"]}
             /\ job' = [job EXCEPT ![t].at = "locked", ![t].admission = "new"]
             /\ admitted' = admitted \cup {r}
    /\ UNCHANGED <<walletVars, conns, revoked, claims, consented>>

\* The wait for the user to unlock, or for the request to be void.
AwaitKeys(t) ==
    /\ JobAt(t, "locked")
    /\ LET r == job[t].request
       IN \/ Conn(r).account \in held /\ JobGoes(t, "run")
          \/ /\ Conn(r).account \notin held
             /\ now >= Deadline(r) \/ ~IsActive(r.conn)
             /\ JobEnds(t)
    /\ UNCHANGED <<walletVars, conns, revoked, table, claims, admitted, consented>>

Respond(r, response) ==
    table' = {IF x.request = r THEN [x EXCEPT !.response = response] ELSE x : x \in table}

\* Needs the keys once more, and fails without them.  A payment that is new goes to
\* the wallet for a review; the rest has its answer.
RunRequest(t) ==
    /\ JobAt(t, "run")
    /\ LET r == job[t].request
           pays == job[t].admission = "new" /\ r.method = "pay_invoice"
       IN \/ /\ Conn(r).account \notin held
             /\ JobEnds(t)
             /\ UNCHANGED <<table, pc, work>>
          \/ /\ Conn(r).account \in held /\ r.method = "garbled"
             /\ Respond(r, "empty")
             /\ JobEnds(t)
             /\ UNCHANGED <<pc, work>>
          \/ /\ Conn(r).account \in held /\ r.method # "garbled" /\ ~pays
             /\ JobGoes(t, "finish")
             /\ UNCHANGED <<table, pc, work>>
          \/ /\ Conn(r).account \in held /\ pays
             /\ JobGoes(t, "review")
             /\ Start(t, [op |-> "review", window |-> FALSE, account |-> Conn(r).account,
                          payee |-> r.payee, id |-> NoHandle, mint |-> Conn(r).mint])
             /\ UNCHANGED table
    /\ UNCHANGED <<now, held, selected, epoch, approvals, gate, locking, issued, payments>>
    /\ UNCHANGED <<conns, revoked, claims, admitted, consented>>

-----------------------------------------------------------------------------
(* pay *)

\* The wallet's part is over; the task is the handler's alone again.
Resume(t) == pc' = [pc EXCEPT ![t] = "idle"] /\ work' = [work EXCEPT ![t] = NoWork]

\* Mutant: a payment that reports an error gives its invoice back.
ResultReleasesClaim(t) ==
    /\ pc[t] = "back"
    /\ (JobAt(t, "review") /\ ~work[t].ok) \/ JobAt(t, "paying")
    /\ JobGoes(t, "finish")
    /\ Resume(t)
    /\ claims' = {c \in claims : work[t].ok \/ c.request # job[t].request}
    /\ UNCHANGED <<now, held, selected, epoch, approvals, gate, locking, issued, payments>>
    /\ UNCHANGED <<conns, revoked, table, admitted, consented>>

\* A review that failed, or a payment done one way or the other: there is a result.
Result(t) ==
    /\ pc[t] = "back"
    /\ (JobAt(t, "review") /\ ~work[t].ok) \/ JobAt(t, "paying")
    /\ JobGoes(t, "finish")
    /\ Resume(t)
    /\ UNCHANGED <<now, held, selected, epoch, approvals, gate, locking, issued, payments>>
    /\ UNCHANGED <<conns, revoked, table, claims, admitted, consented>>

Least(x, y) == IF x <= y THEN x ELSE y

\* The review's life is cut to the request's and the prompt's, and the user asked.
Ask(t) ==
    /\ pc[t] = "back" /\ JobAt(t, "review") /\ work[t].ok
    /\ LET expiry == Least(work[t].expiry, Least(Deadline(job[t].request), now + PromptLife))
       IN /\ LimitReview(work[t].id, expiry)
          /\ work' = [work EXCEPT ![t].expiry = expiry]
    /\ JobGoes(t, "asking")
    /\ UNCHANGED <<now, held, selected, epoch, gate, locking, pc, issued, payments>>
    /\ UNCHANGED <<conns, revoked, table, claims, admitted, consented>>

\* nwc_answer, from the window or a notification.
NwcAnswer(t, allow) ==
    /\ JobAt(t, "asking")
    /\ allow => Permitted(job[t].request) /\ now < work[t].expiry
    /\ JobGoes(t, IF allow THEN "allowed" ELSE "refused")
    /\ consented' = IF allow THEN consented \cup {work[t].id} ELSE consented
    /\ UNCHANGED <<walletVars, conns, revoked, table, claims, admitted>>

\* The end of wait_for_approval without leave to pay: refused, dropped, timed out,
\* or no longer permitted.
NotApproved(t) ==
    /\ \/ JobAt(t, "refused")
       \/ /\ JobAt(t, "asking") \/ JobAt(t, "allowed")
          /\ now >= work[t].expiry \/ ~Permitted(job[t].request)
    /\ CancelReview(work[t].id)
    /\ JobGoes(t, "finish")
    /\ Resume(t)
    /\ UNCHANGED <<now, held, selected, epoch, gate, locking, issued, payments>>
    /\ UNCHANGED <<conns, revoked, table, claims, admitted, consented>>

\* Mutant: any answer of the user is taken for leave.
ApprovedByAnyAnswer(t) ==
    /\ JobAt(t, "allowed") \/ JobAt(t, "refused")
    /\ Permitted(job[t].request)
    /\ JobGoes(t, "paying")
    /\ pc' = [pc EXCEPT ![t] = "gate"]
    /\ work' = [work EXCEPT ![t].op = "pay"]
    /\ UNCHANGED <<now, held, selected, epoch, approvals, gate, locking, issued, payments>>
    /\ UNCHANGED <<conns, revoked, table, claims, admitted, consented>>

\* Its end with leave: on to the gate.
Approved(t) ==
    /\ JobAt(t, "allowed") /\ Permitted(job[t].request)
    /\ JobGoes(t, "paying")
    /\ pc' = [pc EXCEPT ![t] = "gate"]
    /\ work' = [work EXCEPT ![t].op = "pay"]
    /\ UNCHANGED <<now, held, selected, epoch, approvals, gate, locking, issued, payments>>
    /\ UNCHANGED <<conns, revoked, table, claims, admitted, consented>>

\* Mutant: the claim is per request, not per invoice.
ClaimPerRequest(t) ==
    /\ JobAt(t, "paying") /\ pc[t] = "gate" /\ gate = NoTask
    /\ now < work[t].expiry /\ Permitted(job[t].request)
    /\ ~\E c \in claims : c.request = job[t].request
    /\ claims' = claims \cup {[account |-> Conn(job[t].request).account,
                              payee |-> job[t].request.payee, request |-> job[t].request]}
    /\ gate' = t
    /\ Goto(t, "take")
    /\ UNCHANGED <<now, held, selected, epoch, approvals, locking, issued, payments>>
    /\ UNCHANGED <<conns, revoked, table, job, admitted, consented>>

\* With the gate: a last look, and the invoice is claimed for good before it is paid.
Claim(t) ==
    /\ JobAt(t, "paying") /\ pc[t] = "gate" /\ gate = NoTask
    /\ LET r == job[t].request
           a == Conn(r).account
           may == /\ now < work[t].expiry /\ Permitted(r)
                  /\ ~\E c \in claims : c.account = a /\ c.payee = r.payee
       IN \/ /\ may
             /\ claims' = claims \cup {[account |-> a, payee |-> r.payee, request |-> r]}
             /\ gate' = t
             /\ Goto(t, "take")
             /\ UNCHANGED <<approvals, job>>
          \/ /\ ~may
             /\ CancelReview(work[t].id)
             /\ JobGoes(t, "finish")
             /\ Resume(t)
             /\ UNCHANGED <<claims, gate>>
    /\ UNCHANGED <<now, held, selected, epoch, locking, issued, payments>>
    /\ UNCHANGED <<conns, revoked, table, admitted, consented>>

-----------------------------------------------------------------------------
(* The end of handle *)

\* Store::finish, which finds no row for a request over the limit.
Finish(t) ==
    /\ JobAt(t, "finish")
    /\ Respond(job[t].request, "reply")
    /\ JobGoes(t, "publish")
    /\ UNCHANGED <<walletVars, conns, revoked, claims, admitted, consented>>

\* The reply goes to the relay, and the request out of active_requests.
Publish(t) ==
    /\ JobAt(t, "publish")
    /\ JobEnds(t)
    /\ UNCHANGED <<walletVars, conns, revoked, table, claims, admitted, consented>>

-----------------------------------------------------------------------------

\* A task spawned for an event gets to the head of handle before the clock moves
\* on: the dates were checked before the spawn.  The code leaves it
\* Retain - MaxAge - Skew, 270 s.
NwcTick == Tick /\ \A t \in Tasks : ~JobAt(t, "begin")

\* The wallet's own steps, for the window and for handlers.
WalletPart ==
    /\ \/ \E t \in Tasks : (~JobAt(t, "paying") /\ EnterGate(t)) \/ TaskStep(t)
       \/ \E t \in Tasks : job[t] = NoJob /\ WindowCommand(t)
       \/ \E a \in Accounts : Cancel(a) \/ UnlockAccount(a)
       \/ LockCommand
       \/ NwcTick
    /\ UNCHANGED nwcVars

NwcRestart ==
    /\ Restart
    /\ job' = [t \in Tasks |-> NoJob]
    /\ UNCHANGED <<conns, revoked, table, claims, admitted, consented>>

Handler(t) ==
    \/ BeginRequest(t) \/ AwaitKeys(t) \/ RunRequest(t) \/ Ask(t) \/ NotApproved(t)
    \/ Approved(t) \/ Claim(t) \/ Result(t) \/ Finish(t) \/ Publish(t)

NwcNext ==
    \/ WalletPart
    \/ \E t \in Tasks : Handler(t)
    \/ \E t \in Tasks, r \in Requests : Deliver(t, r)
    \/ \E t \in Tasks, allow \in BOOLEAN : NwcAnswer(t, allow)
    \/ \E i \in Conns, a \in Accounts : NwcPair(i, a)
    \/ \E i \in Conns : NwcRevoke(i)
    \/ NwcRestart

NwcSpec == NwcInit /\ [][NwcNext]_allVars

-----------------------------------------------------------------------------
(* Properties *)

\* "Every spend needs approval": what a handler pays is a review the user allowed,
\* and by ReviewPaysOnce each permission is good for one payment, across crashes
\* and redeliveries.
EverySpendApproved ==
    /\ \A p \in payments : ~p.window => p.id \in consented
    /\ ReviewPaysOnce

\* The tables are well formed (one row for a request), and nothing is spent without leave.
NwcInv == NwcTypeOK /\ EverySpendApproved

\* "Never a replayed spend": handlers pay an invoice of an account at most once,
\* whichever connections ask, however often, across crashes.
EachInvoicePaidOnce ==
    \A p, q \in payments :
        /\ ~p.window /\ ~q.window
        /\ <<p.account, p.payee>> = <<q.account, q.payee>>
        => p = q

\* nwc_revoke takes the wallet's gate so that once it returns nothing is paid for
\* the connection: no handler moves from its last look to paying across a revocation.
NoSpendAfterRevoke ==
    [][\A t \in Tasks :
          JobAt(t, "paying") /\ payments' # payments /\ gate = t
              => IsActive(job[t].request.conn)]_allVars

\* A request is begun as new once in its life: its row outlives every date at which
\* the event would still be taken from the relay.
AdmittedOnce ==
    [][\A t \in Tasks, r \in admitted :
          job'[t] = job[t] \/ job'[t] = NoJob \/ job'[t].request # r
          \/ job'[t].at # "locked" \/ job'[t].admission # "new"]_allVars

\* A request that has been answered is not paid for any more: a redelivery while its
\* handler still waits for the user or the gate must not be told it was interrupted.
AnsweredIsNeverPaid ==
    \A t \in Tasks, x \in table :
        JobAt(t, "paying") /\ x.request = job[t].request => x.response = "null"

-----------------------------------------------------------------------------
(* The invoices apps ask for, seen from outside *)

Bills == Accounts \X Invoices
AppPayments == {p \in payments : ~p.window}

billOf ==
    LET paid == {<<p.account, p.payee>> : p \in AppPayments}
        claimed == {<<c.account, c.payee>> : c \in claims}
    IN [b \in Bills |->
           CASE b \in paid -> "paid" [] b \in claimed \ paid -> "claimed" [] OTHER -> "free"]

L == INSTANCE Ledger WITH bill <- billOf, spends <- Cardinality(AppPayments)

\* Every step of the service is a step of the ledger or none: a claim is on record before
\* the money moves and stays there, also when the payment is cancelled or the app dies, so
\* that no other connection, redelivery or restart pays the invoice again.
LedgerSpec == L!LedgerSpec

-----------------------------------------------------------------------------
(* What the repository says of the code, and the code does not do *)

\* "From here to durable response, do not cancel for timeout, lock or revocation"
\* (pay, after the claim): pay_reviewed's checks would let the payment through.
ClaimIsNotCancelled ==
    \A t \in Tasks : JobAt(t, "paying") /\ pc[t] = "prepare"
        => work[t].expiry > now /\ work[t].account \in held /\ work[t].epoch = epoch
=============================================================================
